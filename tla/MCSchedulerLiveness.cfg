SPECIFICATION FairSpec
CONSTANTS
    proxy = proxy
    export = export
    beats = beats
    NoJob = NoJob
    Jobs = {proxy}
    Kind <- MCKind
    Parent <- MCParent
    MaxAttempts <- TwoAttempts
    Permits = {p1, p2}
    NoPermit = NoPermit
    PermitsFor <- AllPermits
    Outcomes = {"Complete", "Cancelled", "Transient", "Actionable", "Permanent"}
    StartTries = 3
    MaxFaults = 0
    MaxRestarts = 0
PROPERTIES
    SignalledWorkSettles
    RetryDelaysEnd
