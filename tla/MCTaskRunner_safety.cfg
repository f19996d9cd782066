SPECIFICATION Spec
CONSTANTS
  t1 = t1
  t2 = t2
  None = None
  Tasks = {t1, t2}
  Expiry <- MCExpiry
  MaxClock = 1
  MaxFaults = 1
  MaxCrashes = 1
  MaxProgress = 2
INVARIANTS
  ControlHonoured
PROPERTIES
  OutboxKept
  AdmittedOnceWhileValid
