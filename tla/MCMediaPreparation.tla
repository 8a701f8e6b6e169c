------------------------ MODULE MCMediaPreparation ------------------------
\* One preparation with its two children, and the values the runs pick from.
EXTENDS MediaPreparation, TLC

CONSTANTS prep, proxy, thumbnail

MCKind == (prep :> "Preparation") @@ (proxy :> "Derived") @@ (thumbnail :> "Derived")
MCParent == (prep :> NoJob) @@ (proxy :> prep) @@ (thumbnail :> prep)
MCRole == (proxy :> "Proxy") @@ (thumbnail :> "Thumbnail")
ASSUME PreparationAssumption

TwoAndOne == [j \in Jobs |-> IF j = prep THEN 2 ELSE 1]
Disturbances ==
    Cardinality({j \in {Prep} : asked[j] \/ cancels[j].pc # "idle"})
        + faults + restarts + (IF shutting THEN 1 ELSE 0)

\* A behaviour is followed up to its first disturbance: a fault, a restart, a cancellation
\* or a shutdown; the first two not while a child has failed or is blocked.
ChildStopped == \E c \in Children(Prep) : jobs[c].state \in {"Failed", "Blocked"}

OneDisturbance ==
    /\ Disturbances <= 1
    /\ (ChildStopped \/ jobs[Prep].state = "Failed") => faults + restarts = 0

AllPermits == [j \in Jobs |-> Permits]
=============================================================================
