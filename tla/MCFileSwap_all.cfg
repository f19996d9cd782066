SPECIFICATION SwapLiveSpec
CONSTANTS
  m1 = m1
  m2 = m2
  v1 = v1
  v2 = v2
  Migrations = {m1, m2}
  Versions = {v1, v2}
  Absent = Absent
  Empty = Empty
  Foreign = Foreign
  Partial = Partial
  Unset = Unset
  MaxFailures = 2
  MaxKills = 2
  MaxForeign = 1
  MaxRequests = 3
INVARIANTS
  TreeKept
PROPERTIES
  ForeignKept
  SyncEnds
CHECK_DEADLOCK FALSE
