--------------------------- MODULE VersionHistory ---------------------------
(***************************************************************************)
(* What undo and redo promise: the project has a present version, those it *)
(* can go back to and those it can return to. An edit makes a new version  *)
(* and gives up those that were undone; a bounded number is kept. An undo  *)
(* goes to the very version that was edited, a redo to the very version    *)
(* that was undone.                                                        *)
(***************************************************************************)
EXTENDS Naturals, Sequences

CONSTANT MaxHistory   \* edits that can be undone

VARIABLES past, present, future

Init == past = <<>> /\ future = <<>>

Front(xs) == SubSeq(xs, 1, Len(xs) - 1)
Last(xs) == xs[Len(xs)]
Latest(xs) == SubSeq(xs, IF Len(xs) > MaxHistory THEN Len(xs) - MaxHistory + 1 ELSE 1, Len(xs))

Edit ==
  /\ past' = Latest(Append(past, present))
  /\ future' = <<>>

Undo ==
  /\ past # <<>>
  /\ present' = Last(past)
  /\ past' = Front(past) /\ future' = Append(future, present)

Redo ==
  /\ future # <<>>
  /\ present' = Last(future)
  /\ past' = Append(past, present) /\ future' = Front(future)

Spec == Init /\ [][Edit \/ Undo \/ Redo]_<<past, present, future>>
=============================================================================
