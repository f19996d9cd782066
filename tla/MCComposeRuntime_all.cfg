SPECIFICATION LiveSpec
CONSTANTS
  Secrets = {s1, s2}
  Slots = {1, 2}
  None = None
  MaxMishaps = 2
  MaxRequests = 3
INVARIANTS
  MarkerCovers
  UpHasSnapshot
  SecretsRemovable
PROPERTIES
  ReportTrue
  StopEnds
CHECK_DEADLOCK FALSE
