SPECIFICATION FairSpec
CONSTANTS
  Spine = 1
  Linear <- ShortLinear
  TextLength <- ShortTextLength
  Breaks <- MCBreaks
  Lines <- ShortLines
  ChunkUnits = 1
  MaxHistory = 2
  MaxCached = 2
  DoubleBuffer = TRUE
  Cover = FALSE
  MediaFaults = FALSE
  Gestures = {"Center"}
  SavedStates <- NoSaved
PROPERTY RefreshKeepsLibrary
