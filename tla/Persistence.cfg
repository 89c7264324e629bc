SPECIFICATION PersistSpec
CONSTANTS
  MaxSaves = 2
  MediaFaults = TRUE
  IdleDelay = 1
  MaxInterval = 1
  PageThreshold = 2
  PagesMax = 2
  Books <- MCBooks
  PagesOf <- MCPagesOf
INVARIANTS NeverTorn NeverGoesBack UnsavedIsDirty ResumesOwnPlace
PROPERTIES ConfirmedKeepsACopy CardIsRegister SavedWhenLeftAlone
