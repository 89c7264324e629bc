SPECIFICATION Spec
CONSTANTS
  Spine = 3
  Linear <- MCLinear
  TextLength <- MCTextLength
  Breaks <- MCBreaks
  Lines <- MCLines
  ChunkUnits = 2
  MaxHistory = 10
  MaxCached = 4
  DoubleBuffer = TRUE
  Cover = FALSE
  MediaFaults = FALSE
  Gestures = {"Menu", "Center", "Pages", "Family", "Restart"}
  SavedStates <- NoSaved
INVARIANT PanelShowsCurrentPage
PROPERTY ManualRefreshKeepsContent
