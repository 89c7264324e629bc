SPECIFICATION FairSpec
CONSTANTS
  Networks = {home, cafe}
  OpenNetworks = {cafe}
  Passwords <- MCPasswords
  MaxSaved = 1
  SettleTime = 1
  ScanTimeout = 1
  ConnectTimeout = 1
  LossTime = 1
  IdleTime = 1
  FailureTime = 1
  Horizon = 1
  Folders <- MCFolders
  Names <- MCNames
  SafeName <- MCSafeName
  MaxSegments = 1
  MaxChunks = 1
  MediaFaults = TRUE
INVARIANTS ServerHasLink LibraryIsFresh
PROPERTIES OnlyJoinedIsSaved LeftAloneRadioGoesOff
