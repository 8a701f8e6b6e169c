--------------------------- MODULE ProjectJournal ---------------------------
\* A project's journal, snapshots and recovery (video/project/service.rs,
\* journal.rs, snapshot.rs, history.rs, recovery.rs).  One session holds the
\* project's file lock and serves one command at a time under its mutex, so
\* only a crash comes between two steps of a command.  Files keep what was
\* written to them when the process ends.
EXTENDS Naturals, FiniteSets, Sequences, SequencesExt

CONSTANTS
    Edits,               \* the ids of command groups, undos and redos
    CheckpointInterval,  \* CHECKPOINT_INTERVAL
    MaxHistory,          \* MAX_HISTORY_ENTRIES
    EditsAfterFailure,   \* bound: whether clients go on in a session whose last append
                         \* failed, or close the project first
    MaxFaults,           \* bound: file operations that may fail
    MaxCrashes           \* bound: ends of the process without a close

VARIABLES
    main, previous,      \* the snapshot files
    journal,             \* the journal file
    session,             \* the project's session, and the step it is at
    stamp,               \* committed_at of the newest record, which tells records apart
    request, told,       \* the clients' requests and the last answer to each
    faults, crashes

vars == <<main, previous, journal, session, stamp, request, told, faults, crashes>>

ASSUME JournalAssumption ==
    /\ CheckpointInterval \in Nat \ {0}
    /\ MaxHistory \in Nat \ {0}
    /\ EditsAfterFailure \in BOOLEAN
    /\ MaxFaults \in Nat
    /\ MaxCrashes \in Nat

Kinds == {"Commit", "Undo", "Redo"}

NotAsked == [kind |-> "None", base |-> 0]

\* A snapshot: its revision, the record that made it, the groups in effect, and the
\* two stacks.  The undo stack is the newest `undoable` of those groups.  Ids stand
\* for hashes: 1 for the journal's header, and the stamp of a record for its own.
Base == [number |-> 0, id |-> 1, doc |-> <<>>, undoable |-> 0, redo |-> <<>>]

\* A project file that is missing, or still of version 1.
NoSnapshot == [Base EXCEPT !.id = 0]

NoJournal == [exists |-> FALSE, lines |-> <<>>, torn |-> FALSE]

\* A complete line that is no record of this journal.
Garbage == [number |-> 0, id |-> 0, prev |-> 0, kind |-> "Garbage", edit |-> "None"]

NoSession == [phase |-> "closed", purpose |-> "none", snap |-> Base, edit |-> "None",
              known |-> {}, failed |-> FALSE]

-----------------------------------------------------------------------------
\* push_bounded, of the undo stack.  (The redo stack only takes what the undo
\* stack gives.)
PushBounded(n) == IF n = MaxHistory THEN n ELSE n + 1

\* next_revision: one more, under an id of its own.
NextRevision(snap, rec) == [snap EXCEPT !.number = @ + 1, !.id = rec.id]

\* commit_transition: a new edit ends what could be redone.
Committed(snap, rec) ==
    [NextRevision(snap, rec) EXCEPT !.doc = Append(@, rec.edit),
                                    !.undoable = PushBounded(@),
                                    !.redo = <<>>]

\* undo_transition
Undone(snap, rec) ==
    [NextRevision(snap, rec) EXCEPT !.doc = Front(@),
                                    !.undoable = @ - 1,
                                    !.redo = Append(@, Last(snap.doc))]

\* redo_transition
Redone(snap, rec) ==
    [NextRevision(snap, rec) EXCEPT !.doc = Append(@, Last(snap.redo)),
                                    !.undoable = PushBounded(@),
                                    !.redo = Front(@)]

\* replay_record, and the same dispatch where the record is first made.
Applied(snap, rec) ==
    CASE rec.kind = "Commit" -> Committed(snap, rec)
      [] rec.kind = "Undo" -> Undone(snap, rec)
      [] rec.kind = "Redo" -> Redone(snap, rec)

\* What the transitions refuse: a stale base, and nothing to undo or redo.  That the
\* commands themselves are valid is taken for granted.
Accepts(snap, req) ==
    /\ req.base = snap.number
    /\ req.kind = "Undo" => snap.undoable > 0
    /\ req.kind = "Redo" => snap.redo # <<>>

\* scan: the records up to the first line that is none, or that does not follow
\* its predecessor in number and hash.
IsRecord(lines, i) ==
    /\ lines[i] # Garbage
    /\ lines[i].number = i
    /\ lines[i].prev = IF i = 1 THEN Base.id ELSE lines[i - 1].id

Scan(lines) ==
    SubSeq(lines, 1, CHOOSE n \in 0 .. Len(lines) :
        /\ \A i \in 1 .. n : IsRecord(lines, i)
        /\ n < Len(lines) => ~IsRecord(lines, n + 1))

Clean == ~journal.torn /\ Scan(journal.lines) = journal.lines

\* candidate_compatible
Compatible(snap) ==
    LET records == Scan(journal.lines) IN
    IF snap.number = 0 THEN snap = Base
    ELSE snap.number \in DOMAIN records /\ records[snap.number].id = snap.id

\* Mutant: the record of the snapshot is replayed as well.
ReplayedOnceMore(snap) ==
    LET records == Scan(journal.lines)
    IN FoldLeft(Applied, snap, SubSeq(records, IF snap.number = 0 THEN 1 ELSE snap.number,
                                      Len(records)))

\* The replay of recover.  Records are chained by hash, so each is applied to the
\* very snapshot it was made from.
Replayed(snap) ==
    LET records == Scan(journal.lines)
    IN FoldLeft(Applied, snap, SubSeq(records, snap.number + 1, Len(records)))

FileOk == UNCHANGED faults
FileFails == faults < MaxFaults /\ faults' = faults + 1

Goes(phase) == session' = [session EXCEPT !.phase = phase]

Files == <<main, previous, journal>>

-----------------------------------------------------------------------------
Init ==
    /\ main = NoSnapshot /\ previous = NoSnapshot
    /\ journal = NoJournal
    /\ session = NoSession
    /\ stamp = 1
    /\ request = [e \in Edits |-> NotAsked]
    /\ told = [e \in Edits |-> "Nothing"]
    /\ faults = 0 /\ crashes = 0

\* initialize_project_files, for a new project and for the migration of an old
\* one: the journal, which must not exist yet, then the first checkpoint.  A journal
\* left by a crash makes this and every later attempt fail.
Initialize ==
    /\ session.phase = "closed"
    /\ main = NoSnapshot
    /\ IF journal.exists THEN UNCHANGED <<journal, session>>
       ELSE /\ journal' = [NoJournal EXCEPT !.exists = TRUE]
            /\ session' = [NoSession EXCEPT !.phase = "checkpoint", !.purpose = "init"]
    /\ UNCHANGED <<main, previous, stamp, request, told, faults, crashes>>

\* A client decides on an edit of the revision it sees.
Ask(e, kind) ==
    /\ session.phase = "idle"
    /\ request[e] = NotAsked
    /\ request' = [request EXCEPT ![e] = [kind |-> kind, base |-> session.snap.number]]
    /\ UNCHANGED <<Files, session, stamp, told, faults, crashes>>

\* execute, undo and redo up to the append, and again for every retry of the same
\* request: a known id is answered with its result.
Execute(e) ==
    /\ session.phase = "idle"
    /\ session.failed => EditsAfterFailure
    /\ request[e] # NotAsked
    /\ told[e] \in {"Nothing", "Error"}
    /\ \/ /\ e \in session.known
          /\ told' = [told EXCEPT ![e] = "Done"]
          /\ UNCHANGED <<session, stamp>>
       \/ /\ e \notin session.known
          /\ ~Accepts(session.snap, request[e])
          /\ told' = [told EXCEPT ![e] = "Refused"]
          /\ UNCHANGED <<session, stamp>>
       \/ /\ e \notin session.known
          /\ Accepts(session.snap, request[e])
          /\ session' = [session EXCEPT !.phase = "write", !.edit = e]
          /\ stamp' = stamp + 1
          /\ UNCHANGED told
    /\ UNCHANGED <<Files, request, faults, crashes>>

\* record_for_transition
NextRecord ==
    [number |-> session.snap.number + 1, id |-> stamp, prev |-> session.snap.id,
     kind |-> request[session.edit].kind, edit |-> session.edit]

\* Mutant: the new state is published before the append.
AppendFailsPublished ==
    /\ FileFails
    /\ session' = [session EXCEPT !.phase = "idle", !.edit = "None", !.failed = TRUE,
                                  !.snap = Applied(@, NextRecord)]
    /\ told' = [told EXCEPT ![session.edit] = "Error"]

\* A failed append drops the handle and is reported; the session goes on from the
\* snapshot it had, and opens the file again for the next append.
AppendFails ==
    /\ FileFails
    /\ session' = [session EXCEPT !.phase = "idle", !.edit = "None", !.failed = TRUE]
    /\ told' = [told EXCEPT ![session.edit] = "Error"]

\* append_to, the write: the line goes behind whatever the file ends in.
Write ==
    /\ session.phase = "write"
    /\ \/ /\ FileOk
          /\ journal' = [journal EXCEPT !.lines = Append(@, IF journal.torn THEN Garbage
                                                            ELSE NextRecord),
                                        !.torn = FALSE]
          /\ Goes("sync")
          /\ UNCHANGED told
       \/ /\ AppendFails
          /\ \E torn \in {journal.torn, TRUE} : journal' = [journal EXCEPT !.torn = torn]
    /\ UNCHANGED <<main, previous, stamp, request, crashes>>

\* The command is answered and its result remembered under its id.
Answer(snap) ==
    /\ session' = [session EXCEPT !.phase = "idle", !.purpose = "none", !.edit = "None",
                                  !.snap = snap, !.known = @ \cup {session.edit},
                                  !.failed = FALSE]
    /\ told' = [told EXCEPT ![session.edit] = "Done"]

\* append_to, the sync, and the rest of finish_transition: the new snapshot is
\* published and every CheckpointInterval records a checkpoint is taken.
Sync ==
    LET snap == Applied(session.snap, NextRecord) IN
    /\ session.phase = "sync"
    /\ \/ /\ FileOk
          /\ IF snap.number % CheckpointInterval = 0
             THEN /\ session' = [session EXCEPT !.phase = "checkpoint", !.purpose = "edit",
                                                !.snap = snap]
                  /\ UNCHANGED told
             ELSE Answer(snap)
       \/ AppendFails
    /\ UNCHANGED <<Files, stamp, request, crashes>>

-----------------------------------------------------------------------------
\* What follows a checkpoint.  An edit is acknowledged either way, a failed close
\* keeps the session.
CheckpointEnds(ok) ==
    \/ session.purpose = "edit" /\ Answer(session.snap)
    \/ /\ session.purpose = "close"
       /\ session' = IF ok THEN NoSession
                     ELSE [session EXCEPT !.phase = "idle", !.purpose = "none"]
       /\ UNCHANGED told
    \/ /\ session.purpose = "open"
       /\ session' = IF ok THEN [session EXCEPT !.phase = "load", !.purpose = "none"]
                     ELSE NoSession
       /\ UNCHANGED told
    \/ /\ session.purpose = "init"
       /\ session' = IF ok THEN [session EXCEPT !.phase = "idle", !.purpose = "none"]
                     ELSE NoSession
       /\ UNCHANGED told

\* checkpoint, once the new snapshot is written to a synced temporary file: the
\* snapshot in place becomes the previous one ...
CopyPrevious ==
    /\ session.phase = "checkpoint"
    /\ previous' = main
    /\ Goes("promote")
    /\ UNCHANGED <<main, journal, stamp, request, told, faults, crashes>>

\* ... and the new one takes its place.
Promote ==
    /\ session.phase = "promote"
    /\ main' = session.snap
    /\ FileOk /\ CheckpointEnds(TRUE)
    /\ UNCHANGED <<previous, journal, stamp, request, crashes>>

\* A failure before, between and after the two renames.  Initialization takes back
\* what it has done.
CheckpointFails ==
    /\ session.phase \in {"checkpoint", "promote"}
    /\ FileFails /\ CheckpointEnds(FALSE)
    /\ IF session.purpose = "init"
       THEN main' = NoSnapshot /\ previous' = NoSnapshot /\ journal' = NoJournal
       ELSE /\ main' \in {main} \cup {s \in {session.snap} : session.phase = "promote"}
            /\ UNCHANGED <<previous, journal>>
    /\ UNCHANGED <<stamp, request, crashes>>

\* close_registered
Close ==
    /\ session.phase = "idle"
    /\ session' = [session EXCEPT !.phase = "checkpoint", !.purpose = "close"]
    /\ UNCHANGED <<Files, stamp, request, told, faults, crashes>>

-----------------------------------------------------------------------------
\* recover: the newest snapshot the journal vouches for, and the records after it.
Open ==
    LET candidates == {s \in {main, previous} : Compatible(s)}
        usedPrevious == ~Compatible(main) /\ Compatible(previous)
    IN
    /\ session.phase = "closed"
    /\ main # NoSnapshot
    /\ \E s \in candidates :
           /\ \A other \in candidates : other.number <= s.number
           /\ session' = [NoSession EXCEPT
                  !.snap = Replayed(s),
                  !.purpose = "open",
                  !.phase = IF ~Clean THEN "repair"
                            ELSE IF usedPrevious \/ Replayed(s) # s THEN "checkpoint"
                            ELSE "load"]
    /\ UNCHANGED <<Files, stamp, request, told, faults, crashes>>

\* Mutant: the last record is cut off with the torn tail.
RepairTooShort ==
    /\ session.phase = "repair"
    /\ FileOk
    /\ journal' = [journal EXCEPT !.lines = SubSeq(@, 1, Len(Scan(@)) - 1), !.torn = FALSE]
    /\ Goes("checkpoint")
    /\ UNCHANGED <<main, previous, stamp, request, told, crashes>>

\* repair_to_prefix, followed by a checkpoint.
Repair ==
    /\ session.phase = "repair"
    /\ \/ /\ FileOk
          /\ journal' = [journal EXCEPT !.lines = Scan(@), !.torn = FALSE]
          /\ Goes("checkpoint")
       \/ FileFails /\ UNCHANGED journal /\ session' = NoSession
    /\ UNCHANGED <<main, previous, stamp, request, told, crashes>>

\* Mutant: undos and redos are not remembered under their own id.
LoadCommits ==
    /\ session.phase = "load"
    /\ session' = [session EXCEPT
           !.phase = "idle", !.purpose = "none",
           !.known = {r.edit : r \in {x \in Range(Scan(journal.lines)) : x.kind = "Commit"}}]
    /\ UNCHANGED <<Files, stamp, request, told, faults, crashes>>

\* load_idempotency and insert_session.
LoadIdempotency ==
    /\ session.phase = "load"
    /\ session' = [session EXCEPT !.phase = "idle", !.purpose = "none",
                                  !.known = {r.edit : r \in Range(Scan(journal.lines))}]
    /\ UNCHANGED <<Files, stamp, request, told, faults, crashes>>

\* The process ends, at any step; a write that is under way may be torn.
Crash ==
    /\ crashes < MaxCrashes
    /\ crashes' = crashes + 1
    /\ session.phase # "closed"
    /\ session' = NoSession
    /\ \E torn \in {journal.torn, journal.torn \/ session.phase = "write"} :
           journal' = [journal EXCEPT !.torn = torn]
    /\ UNCHANGED <<main, previous, stamp, request, told, faults>>

Next ==
    \/ Initialize
    \/ \E e \in Edits : Execute(e) \/ \E kind \in Kinds : Ask(e, kind)
    \/ Write \/ Sync
    \/ CopyPrevious \/ Promote \/ CheckpointFails
    \/ Close \/ Open \/ Repair \/ LoadIdempotency
    \/ Crash

Spec == Init /\ [][Next]_vars

-----------------------------------------------------------------------------
Snapshot ==
    [number : Nat, id : Nat, doc : Seq(Edits), undoable : 0 .. MaxHistory,
     redo : Seq(Edits)]

\* Type invariant.
TypeOK ==
    /\ main \in Snapshot /\ previous \in Snapshot
    /\ journal \in [exists : BOOLEAN, torn : BOOLEAN,
                    lines : Seq([number : Nat, id : Nat, prev : Nat,
                                 kind : Kinds \cup {"Garbage"}, edit : Edits \cup {"None"}])]
    /\ session \in [phase : {"closed", "idle", "write", "sync", "checkpoint", "promote",
                             "repair", "load"},
                    purpose : {"none", "edit", "close", "open", "init"},
                    snap : Snapshot, edit : Edits \cup {"None"}, known : SUBSET Edits,
                    failed : BOOLEAN]
    /\ stamp \in Nat
    /\ request \in [Edits -> [kind : Kinds \cup {"None"}, base : Nat]]
    /\ told \in [Edits -> {"Nothing", "Error", "Refused", "Done"}]
    /\ faults \in 0 .. MaxFaults
    /\ crashes \in 0 .. MaxCrashes

\* Whatever the process was doing when it ends, and wherever a checkpoint, a repair
\* or a recovery is interrupted, one of the two snapshot files is vouched for by
\* the journal: the project opens again.
ProjectOpensAgain ==
    main # NoSnapshot => \E s \in {main, previous} : Compatible(s)

\* "the same snapshot and valid journal prefix always replay to the same [...]
\* project-state hash" (the plan of the project engine): from every snapshot the
\* recovery could choose, and from the base, the replay reaches the same state, and
\* a session at rest shows it.
ReplayIsUnambiguous ==
    /\ \A s \in {main, previous} : Compatible(s) => Replayed(s) = Replayed(Base)
    /\ (session.phase \in {"idle", "load"} /\ ~session.failed) =>
           session.snap = Replayed(Base)

\* "acknowledged commands survive process termination" (the plan of the project
\* engine): an edit its client was told is done is among the records that a
\* recovery would find, and replay, now.
AcknowledgedCommandsSurvive ==
    \A e \in Edits : told[e] = "Done" => \E r \in Range(Scan(journal.lines)) : r.edit = e

\* The journal implements the log of edits.
Log == INSTANCE EditLog WITH
    log <- LET records == Scan(journal.lines)
           IN [i \in 1 .. Len(records) |-> records[i].edit]

ImplementsEditLog == Log!Spec
=============================================================================
