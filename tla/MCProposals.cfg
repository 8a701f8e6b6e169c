SPECIFICATION Spec
CONSTANTS
  Ids = {"p", "q"}
  Approvals <- MCApprovals
  Edits = {"e"}
  Operations = {"o"}
  None = None
  MaxHistory = 3
  MaxOpen = 2
  MaxResolved = 1
  MaxDrift = 2
  MaxRevision = 4
  MaxVerdicts = 3
  MaxFaults = 2
CONSTRAINT FewVerdicts
INVARIANTS
  AppliedAtMostOnce
  VerdictsAgreeWithJournal
  AuditTellsVerdicts
  RestorePointsHold
CHECK_DEADLOCK FALSE
