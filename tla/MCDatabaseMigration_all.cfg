SPECIFICATION Spec
CONSTANTS
  m1 = m1
  m2 = m2
  Migrations = {m1, m2}
  None = None
  BindingOf <- OneBinding
  Acls <- SomeAcls
  MaxWrites = 1
  MaxMishaps = 2
  MaxDumps = 1
  MaxResets = 2
INVARIANTS SetResetRetryable
PROPERTIES RestoredKept RestoredIsCut RejectedOnlyWhenDrifted
SYMMETRY Symmetry
CHECK_DEADLOCK FALSE
