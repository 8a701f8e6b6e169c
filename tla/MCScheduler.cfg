SPECIFICATION Spec
CONSTANTS
    proxy = proxy
    export = export
    beats = beats
    NoJob = NoJob
    Jobs = {proxy, export, beats}
    Kind <- MCKind
    Parent <- MCParent
    MaxAttempts <- OneLessForExports
    Permits = {p1, p2}
    NoPermit = NoPermit
    PermitsFor <- AllPermits
    Outcomes = {"Complete", "Cancelled", "Transient", "Actionable", "Permanent"}
    StartTries = 2
    MaxFaults = 1
    MaxRestarts = 1
SYMMETRY PermitSymmetry
CONSTRAINT OneAtATime
INVARIANTS
    OneOwnerPerJob
    QueuedOnce
    WorkerOwnsItsRecord
    ActiveRecordsAreAttended
    QueuedWorkIsAttended
PROPERTIES
    SettledForGood
    AttemptsAdvance
