SPECIFICATION Spec
CONSTANTS
    Edits = {e1, e2, e3}
    CheckpointInterval = 2
    MaxHistory = 1
    EditsAfterFailure = FALSE
    MaxFaults = 2
    MaxCrashes = 2
SYMMETRY EditSymmetry
INVARIANTS
    ProjectOpensAgain
    ReplayIsUnambiguous
    AcknowledgedCommandsSurvive
PROPERTIES
    ImplementsEditLog
