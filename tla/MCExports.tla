----------------------------- MODULE MCExports -----------------------------
\* Three exports to two destinations, of which two are under way at a time, in three runs.
EXTENDS Exports, FiniteSetsExt, TLC

MCVerdicts == {{"flaw"}, {"rights"}}
Symmetric == Permutations(Jobs) \cup Permutations(Paths) \cup Permutations(Contents)

Started == {j \in Jobs : job[j] # None}
TwoAtATime == Cardinality({j \in Started : job[j].state \in {"queued", "running", "blocked", "failed"}}) <= 2
ThreeRuns == MapThenSumSet(LAMBDA j : job[j].run, Started) <= 3

\* The project is only edited between runs, which do not look at it, and not before there is
\* something to review.
EditsAfterExports ==
  content' # content => \E p \in Paths : out[p] # None /\ \A j \in Jobs : ~Running(j)

\* Overwriting is asked for only where there is something to overwrite.
OverwritesOfOutputs ==
  \A j \in Jobs : job[j] = None /\ job'[j] # None /\ job'[j].overwrite => out[job'[j].path] # None
=============================================================================
