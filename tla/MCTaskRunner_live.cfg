SPECIFICATION LiveSpec
CONSTANTS
  t1 = t1
  t2 = t2
  None = None
  Tasks = {t1}
  Expiry <- MCExpiry
  MaxClock = 1
  MaxFaults = 2
  MaxCrashes = 1
  MaxProgress = 2
PROPERTIES
  ResultDelivered
