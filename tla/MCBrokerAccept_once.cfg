SPECIFICATION AcceptSpec
CONSTANTS
  c1 = c1
  c2 = c2
  c3 = c3
  t1 = t1
  t2 = t2
  t3 = t3
  host = host
  compose = compose
  Conns = {c1, c2, c3}
  Tasks = {t1, t2, t3}
  Domains = {host, compose}
  Domain <- MCDomain
  Token <- MCToken
  Expiry <- MCExpiry
  Locked = {host}
  MaxClock = 3
  MaxFaults = 1
  MaxCrashes = 1
INVARIANTS
  ConsumedOnce
PROPERTIES
  AdmittedAboveBegun
SYMMETRY PermConns
CHECK_DEADLOCK FALSE
