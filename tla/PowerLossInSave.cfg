SPECIFICATION Spec
CONSTANTS
  MaxSaves = 2
  MediaFaults = FALSE
INVARIANT ResumesAfterPowerLoss
