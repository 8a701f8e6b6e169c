SPECIFICATION Spec
CONSTANTS
    Edits = {e1, e2, e3}
    CheckpointInterval = 2
    MaxHistory = 1
    EditsAfterFailure = TRUE
    MaxFaults = 1
    MaxCrashes = 0
SYMMETRY EditSymmetry
INVARIANTS
    AcknowledgedCommandsSurvive
