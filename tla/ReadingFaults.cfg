SPECIFICATION FairSpec
CONSTANTS
  Spine = 1
  Linear <- ShortLinear
  TextLength <- ShortTextLength
  Breaks <- MCBreaks
  Lines <- ShortLines
  ChunkUnits = 1
  MaxHistory = 10
  MaxCached = 4
  DoubleBuffer = TRUE
  Cover = TRUE
  MediaFaults = TRUE
  Gestures = {"Menu", "Library", "Toc", "Sleep", "Center"}
  SavedStates <- ShortSaved
INVARIANTS CacheValid ReaderRestsOutsideBook
PROPERTIES OpeningEnds PrefetchEnds
