SPECIFICATION PortalSpec
CONSTANTS
  Folders <- MCFolders
  Names <- MCNames
  SafeName <- MCSafeName
  MaxSegments = 1
  MaxChunks = 2
  MediaFaults = TRUE
INVARIANTS NoTruncatedBook BusFollowsUpload NoPartLeft
PROPERTIES CreatedMeansWhole OnlyWholeReplaces
