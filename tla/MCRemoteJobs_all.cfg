SPECIFICATION JobsLiveSpec
CONSTANTS
  a1 = a1
  u1 = u1
  u2 = u2
  c1 = c1
  l1 = l1
  h1 = h1
  h2 = h2
  Actions = {a1}
  Audits = {u1, u2}
  Commands = {c1}
  Legacy = {l1}
  Handlers = {h1, h2}
  Absent = Absent
  Torn = Torn
  NoJob = NoJob
  Issued <- MCIssued
  MaxFaults = 2
  MaxCrashes = 1
INVARIANTS
  AuditRunsBounded
  AuditEntryWhole
PROPERTIES
  ResultKept
  LedgerKept
  JobsAnswered
