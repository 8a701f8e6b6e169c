SPECIFICATION Spec
CONSTANTS
  Jobs = {a, b, c}
  Paths = {p, q}
  Contents = {x, y}
  Verdicts <- MCVerdicts
  Rights = {"rights"}
  None = None
  MaxRuns = 2
  MaxFaults = 1
SYMMETRY Symmetric
INVARIANTS
  DeliveriesWereAccepted
PROPERTIES
  PromotedAreDescribed
  EarlierExportsAreKept
  UnsuccessfulRunsLeaveNothing
CONSTRAINTS
  TwoAtATime
  ThreeRuns
ACTION_CONSTRAINTS
  EditsAfterExports
  OverwritesOfOutputs
CHECK_DEADLOCK FALSE
