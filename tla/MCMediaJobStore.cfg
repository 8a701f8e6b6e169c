SPECIFICATION Spec
CONSTANTS
    prep = prep
    child = child
    export1 = export1
    export2 = export2
    NoJob = NoJob
    Jobs = {prep, child, export1, export2}
    Kind <- MCKind
    Key <- MCKey
    Parent <- MCParent
    MaxAttempts <- MCMaxAttempts
    UnsettledLimit = 1
    RetainedLimit = 1
INVARIANTS
    UniqueUnsettledKey
    EventsMirrorRecord
PROPERTIES
    FamilySettlesBottomUp
    CancelledAndCompleteAreFinal
SYMMETRY ExportSymmetry
