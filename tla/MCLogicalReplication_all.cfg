SPECIFICATION Spec
CONSTANTS
  None = None
  MaxSlots = 2
  MaxWrites = 2
  MaxMishaps = 2
  MaxCaptures = 2
INVARIANTS VerifiedHoldsSource RecoveryFindsVerdict ObjectsOwned
PROPERTY DetachedVerified
CHECK_DEADLOCK FALSE
