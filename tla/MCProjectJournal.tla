-------------------------- MODULE MCProjectJournal --------------------------
\* A few edits of one project.
EXTENDS ProjectJournal, TLC

EditSymmetry == Permutations(Edits)
=============================================================================
