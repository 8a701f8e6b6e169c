SPECIFICATION Spec
CONSTANTS
    proxy = proxy
    export = export
    beats = beats
    NoJob = NoJob
    Jobs = {proxy}
    Kind <- MCKind
    Parent <- MCParent
    MaxAttempts <- MCMaxAttempts
    Permits = {p1, p2}
    NoPermit = NoPermit
    PermitsFor <- AllPermits
    Outcomes = {"Complete", "Transient"}
    StartTries = 3
    MaxFaults = 0
    MaxRestarts = 0
INVARIANTS
    CancelledJobsSettle
