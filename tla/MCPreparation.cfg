SPECIFICATION PrepFairSpec
CONSTANTS
    prep = prep
    proxy = proxy
    thumbnail = thumbnail
    NoJob = NoJob
    Jobs = {prep, proxy, thumbnail}
    Prep = prep
    Kind <- MCKind
    Parent <- MCParent
    Role <- MCRole
    MaxAttempts <- TwoAndOne
    Permits = {p1}
    NoPermit = NoPermit
    PermitsFor <- AllPermits
    Outcomes = {"Complete", "Permanent", "Actionable"}
    StartTries = 1
    MaxFaults = 1
    MaxRestarts = 1
    Recovery = Recovery
    Calls = {c1}
    Cancellable = {prep}
CONSTRAINT OneDisturbance
INVARIANTS
    CompletePreparationHasItsMedia
    ActivePreparationIsDriven
PROPERTIES
    PreparationsSettle
