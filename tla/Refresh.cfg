SPECIFICATION Spec
CONSTANTS
  RapidTurns = 2
  MaxFastest = 2
  MaxFast = 3
  MaxReading = 4
  QualityTime = 2
  CounterMax = 4
  Columns = 6
  Pages <- MCPages
  Screens <- MCScreens
  RapidWindow = 1
  Expansion = 1
  Alignment = 2
  PartialPercent = 85
INVARIANT PanelIsSource
PROPERTIES CleanedInTime NoNeedlessCleanup
