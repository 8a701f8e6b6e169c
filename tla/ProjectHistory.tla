--------------------------- MODULE ProjectHistory ---------------------------
(***************************************************************************)
(* The undo and redo stacks of a project (history.rs): edits, which are    *)
(* groups of commands, their undoing by the stored inverses and their      *)
(* redoing.                                                                *)
(***************************************************************************)
EXTENDS ProjectCommands

CONSTANTS
  Groups,       \* groups of commands clients send; the private inverses are refused
  Project,      \* the project when it is opened
  MaxHistory,   \* MAX_HISTORY_ENTRIES
  MaxEdits      \* bound: edits

ASSUME HistoryAssumption ==
  /\ MaxHistory \in Nat \ {0}
  /\ MaxGroup \in Nat \ {0}
  /\ MaxTime \in Nat /\ MaxEdits \in Nat

VARIABLES
  project,      \* the state
  undo, redo,   \* undo_stack, redo_stack: entries of commands and their inverses
  past, future, \* history: the states the entries of undo and redo come from
  edits         \* used-up bound

vars == <<project, undo, redo, past, future, edits>>

PushBounded(xs, x) == Append(IF Len(xs) = MaxHistory THEN Tail(xs) ELSE xs, x)

Init ==
  /\ project = Project
  /\ undo = <<>> /\ redo = <<>>
  /\ past = <<>> /\ future = <<>>
  /\ edits = 0

\* commit_transition of a group for the present revision, with the caption artifacts made
\* for it. The history takes no more inverses than commands (valid_history_entry).
CommitTransition(g) ==
  /\ edits < MaxEdits
  /\ \E o \in ApplyGroup(project, g) :
       /\ Len(o.inverse) <= MaxGroup
       /\ project' = o.state
       /\ undo' = PushBounded(undo, [forward |-> g, inverse |-> o.inverse])
  /\ redo' = <<>>
  /\ past' = PushBounded(past, project) /\ future' = <<>>
  /\ edits' = edits + 1

\* undo_transition; what the inverses' own inverses would be is not kept.
UndoTransition ==
  /\ undo # <<>>
  /\ \E o \in ApplyGroup(project, Last(undo).inverse) : project' = o.state
  /\ undo' = Front(undo)
  /\ redo' = PushBounded(redo, Last(undo))
  /\ past' = Front(past) /\ future' = Append(future, project)
  /\ UNCHANGED edits

RedoTransition ==
  /\ redo # <<>>
  /\ \E o \in ApplyGroup(project, Last(redo).forward) : project' = o.state
  /\ redo' = Front(redo)
  /\ undo' = PushBounded(undo, Last(redo))
  /\ past' = Append(past, project) /\ future' = Front(future)
  /\ UNCHANGED edits

Next ==
  \/ \E g \in Groups : CommitTransition(g)
  \/ UndoTransition
  \/ RedoTransition

Spec == Init /\ [][Next]_vars

-----------------------------------------------------------------------------
(* Properties *)

\* What can be undone or redone is never refused: a stored inverse passes the same
\* checks as an edit, and the entry under the top of a stack is out of reach as long
\* as the top is refused.
UndoIsPossible ==
  /\ undo # <<>> => ApplyGroup(project, Last(undo).inverse) # {}
  /\ redo # <<>> => ApplyGroup(project, Last(redo).forward) # {}

History == INSTANCE VersionHistory WITH present <- project

\* Undo and redo take the project through the very states it was in, whatever the order
\* in which edits, undos and redos come, and forget only the oldest.
UndoAndRedoAreExact == History!Spec

\* Steps of clients, as opposed to undos.
Forward == Len(redo') <= Len(redo)
EditOf(type) == Forward /\ Len(Last(undo').forward) = 1 /\ Last(undo').forward[1].type = type

\* What is shown where: at each frame of a media track, a frame of a source.
Shown(s) ==
  UNION {UNION {UNION {{<<q.id, t.id, x.start + n, x.source, x.in + TimelineOffsetToSource(n, x, q.rate)>> :
                           n \in 0 .. (CHOOSE d \in ClipDuration(x, q.rate) : TRUE) - 1} :
                       x \in Range(t.items)} :
                t \in {u \in Range(q.tracks) : IsMedia(u)}} :
         q \in Range(s.sequences)}

\* A split changes nothing of what is shown, at any speed and any pair of rates.
SplitIsSeamless == [][EditOf("SplitClip") => Shown(project') = Shown(project)]_vars

\* An edit that gives a clip another speed finds it without managed captions of its
\* source, even if the same edit takes them away.
CaptionsAreNotDetached ==
  [][Forward =>
       \A q \in Range(project.sequences), r \in Range(project'.sequences) : q.id = r.id =>
         \A t \in MediaTracks(project), u \in Range(r.tracks) : t \in Range(q.tracks) /\ u.id = t.id =>
           \A x \in Range(t.items), y \in Range(u.items) :
             x.id = y.id /\ SpeedOf(x) # SpeedOf(y) => MayBeRetimed(project, q, x)]_vars
=============================================================================
