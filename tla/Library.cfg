SPECIFICATION Spec
CONSTANTS
  Books <- MCBooks
  Folders <- MCFolders
  Others <- MCOthers
  Root = 0
  Parent <- MCParent
  Batch = 4
  CoverBatch = 4
  LongPaths = {4}
  MaxEntries = 3
  Slot <- MCSlot
  PageSize = 1
  MaxPreviews = 2
  Home = 0
  Uploadable = {5}
  MaxVersion = 2
  MaxHistory = 1
  PrepareFrom = {1}
  PreparePreviews = 0
INVARIANTS PreviewIsOwn ListIsComplete DoneMeansTried
PROPERTIES KeepsVisible RestoresPage PreparationEnds
