------------------------ MODULE MCMediaJobScheduler ------------------------
\* One job of each kind the scheduler runs, and the values the runs pick from.
EXTENDS MediaJobScheduler, TLC

CONSTANTS proxy, export, beats

AllKinds == (proxy :> "Derived") @@ (export :> "FinalRender") @@ (beats :> "Analysis")
MCKind == [j \in Jobs |-> AllKinds[j]]
MCParent == [j \in Jobs |-> NoJob]
MCMaxAttempts == [j \in Jobs |-> IF AllKinds[j] = "Analysis" THEN 2 ELSE 3]
OneLessForExports == [j \in Jobs |-> IF AllKinds[j] = "Derived" THEN 3 ELSE 2]
TwoAttempts == [j \in Jobs |-> 2]
AllPermits == [j \in Jobs |-> Permits]

\* Independent jobs meet only at the permits, which DispatchLoop is about: a behaviour is
\* followed as long as it has one job of one kind.
OneAtATime == Cardinality({j \in Jobs : jobs[j].state # "Absent"}) <= 1

PermitSymmetry == Permutations(Permits)
=============================================================================
