SPECIFICATION Spec
CONSTANTS
  Spine = 3
  Linear <- MCLinear
  TextLength <- MCTextLength
  Breaks <- LastBreaks
  Lines <- MCLines
  ChunkUnits = 2
  MaxHistory = 10
  MaxCached = 4
  DoubleBuffer = TRUE
  Cover = TRUE
  MediaFaults = FALSE
  Gestures = {"Lever", "Menu"}
  SavedStates <- NoSaved
INVARIANTS TypeOK QueueCoherent PagesContiguous WorkFollowsAnchor ReadyBufferIsNextPage
  PanelShowsCurrentPage EvictionSparesCurrentPage
PROPERTIES PrefetchIsInvisible ReflowKeepsPlace
