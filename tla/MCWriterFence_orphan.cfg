SPECIFICATION FairSpec
CONSTANTS
  m1 = m1
  m2 = m2
  r1 = r1
  s1 = s1
  s2 = s2
  null = null
  Migrations = {m1, m2}
  Runs = {r1}
  Services = {s1, s2}
  Scopes <- MCScopes
  Null = null
  Environments <- Failing
PROPERTIES
  Enforced
CHECK_DEADLOCK FALSE
