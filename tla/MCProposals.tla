---------------------------- MODULE MCProposals ----------------------------
\* Two proposals, of which one is reviewed twice, and edits of the user.
EXTENDS Proposals

CONSTANT MaxVerdicts   \* bound: entries of the audit

MCApprovals == "p" :> {"p1", "p2"} @@ "q" :> {"q1"}

\* Dropped proposals may be submitted and resolved again without end.
FewVerdicts == Len(store.audit) <= MaxVerdicts
=============================================================================
