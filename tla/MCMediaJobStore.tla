-------------------------- MODULE MCMediaJobStore --------------------------
\* A preparation with one child, and two ids for the same export: duplicates,
\* retries, reauthorizations and cascades meet.
EXTENDS MediaJobStore, TLC

CONSTANTS prep, child, export1, export2

MCKind == (prep :> "Preparation") @@ (child :> "Derived")
              @@ [j \in {export1, export2} |-> "FinalRender"]
MCKey == (prep :> "preparation") @@ (child :> "proxy")
             @@ [j \in {export1, export2} |-> "export"]
MCParent == [j \in Jobs |-> IF j = child THEN prep ELSE NoJob]
MCMaxAttempts == [j \in Jobs |-> 1]

ExportSymmetry == Permutations({export1, export2})
=============================================================================
