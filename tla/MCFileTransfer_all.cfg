SPECIFICATION LiveSpec
CONSTANTS
  Sizes <- TwoFiles
  Data = {a, b}
  None = None
  MaxEdits = 2
  MaxMishaps = 2
  MaxRequests = 2
INVARIANTS
  HandedIsManifest
  RecordedOnDisk
PROPERTIES
  TransferEnds
CHECK_DEADLOCK FALSE
