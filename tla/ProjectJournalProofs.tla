------------------------ MODULE ProjectJournalProofs ------------------------
\* The properties of module ProjectJournal for every number of edits, of faults and of
\* crashes, every checkpoint interval and every length of the undo stack, as long as
\* clients close a project whose last append failed (EditsAfterFailure is FALSE).
EXTENDS ProjectJournal, SequenceTheorems, TLAPS

Records == INSTANCE FoldInduction WITH Op <- Applied

-----------------------------------------------------------------------------
\* The inductive invariant

\* The state after the first i records, and their edits.
StateAfter(lines, i) == Records!Fold(Base, SubSeq(lines, 1, i))
EditsOf(lines, i) == {lines[k].edit : k \in 1 .. i}

Count == Len(journal.lines)
At(i) == StateAfter(journal.lines, i)

\* The types that the transitions take for granted of the snapshot and the record.
Sound(snap) == snap \in Snapshot /\ snap.undoable <= Len(snap.doc)

Allowed(snap, rec) ==
    /\ rec.kind \in Kinds /\ rec.edit \in Edits /\ rec.number \in Nat /\ rec.id \in Nat
    /\ rec.prev \in Nat
    /\ rec.kind = "Undo" => snap.undoable > 0
    /\ rec.kind = "Redo" => snap.redo # <<>>

\* No line of the journal is lost to a recovery, and each could be made where it stands.
RecordsAreChained ==
    /\ journal.lines \in Seq([number : Nat, id : Nat, prev : Nat,
                               kind : Kinds \cup {"Garbage"}, edit : Edits \cup {"None"}])
    /\ \A i \in 1 .. Count : IsRecord(journal.lines, i) /\ Allowed(At(i - 1), journal.lines[i])

StatesAreSound ==
    \A i \in 0 .. Count : /\ Sound(At(i)) /\ At(i).number = i
                          /\ At(i).id = IF i = 0 THEN Base.id ELSE journal.lines[i].id

\* Both files hold states the journal has been through.
SnapshotsAreStates ==
    \A s \in {main, previous} : s = NoSnapshot \/ \E i \in 0 .. Count : s = At(i)

MissingIsEmpty ==
    ~journal.exists => journal = NoJournal /\ main = NoSnapshot /\ session.phase = "closed"

\* The session shows the first n records and remembers their edits.
UpTo(n) ==
    /\ ~session.failed /\ ~journal.torn
    /\ session.snap = At(n) /\ session.known = EditsOf(journal.lines, n)

\* Between commands: with all that is recorded, or behind a failed append.
AtRest ==
    \/ UpTo(Count)
    \/ /\ session.failed
       /\ \E i \in 0 .. Count : session.snap = At(i)
       /\ session.known \subseteq EditsOf(journal.lines, Count)

\* The command the session is at was asked for and has not been answered.
Pending ==
    /\ session.edit \in Edits /\ request[session.edit] # NotAsked
    /\ session.edit \notin session.known
    /\ told[session.edit] \in {"Nothing", "Error"}

AtCheckpoint ==
    /\ session.purpose \in {"edit", "close", "open", "init"}
    /\ session.purpose = "edit" =>
           /\ Count > 0 /\ ~session.failed /\ ~journal.torn /\ session.snap = At(Count)
           /\ session.known = EditsOf(journal.lines, Count - 1)
           /\ Pending /\ session.edit = journal.lines[Count].edit
    /\ session.purpose = "close" => AtRest
    /\ session.purpose = "open" =>
           ~session.failed /\ ~journal.torn /\ session.snap = At(Count)
    /\ session.purpose = "init" => UpTo(Count) /\ Count = 0

\* How far the session is behind the journal, at each of its steps.
SessionFollowsJournal ==
    /\ session.phase = "closed" => session = NoSession
    /\ session.phase = "idle" => AtRest
    /\ session.phase = "write" =>
           UpTo(Count) /\ Pending /\ Accepts(session.snap, request[session.edit])
    /\ session.phase = "sync" =>
           /\ Count > 0 /\ UpTo(Count - 1)
           /\ Pending /\ Accepts(session.snap, request[session.edit])
           /\ journal.lines[Count] = NextRecord
    /\ session.phase \in {"checkpoint", "promote"} => AtCheckpoint
    /\ session.phase = "repair" =>
           ~session.failed /\ session.purpose = "open" /\ session.snap = At(Count)
    /\ session.phase = "load" =>
           ~session.failed /\ ~journal.torn /\ session.snap = At(Count)

DoneIsRecorded == \A e \in Edits : told[e] = "Done" => e \in EditsOf(journal.lines, Count)

RequestsHaveKinds == \A e \in Edits : request[e] = NotAsked \/ request[e].kind \in Kinds

IInv ==
    /\ TypeOK /\ RequestsHaveKinds /\ RecordsAreChained /\ StatesAreSound /\ SnapshotsAreStates
    /\ MissingIsEmpty /\ SessionFollowsJournal /\ DoneIsRecorded

-----------------------------------------------------------------------------
\* The states a journal goes through, and where a replay from any of them ends.
LEMMA StatesOfJournal ==
    ASSUME NEW R, NEW lines \in Seq(R)
    PROVE  /\ StateAfter(lines, 0) = Base
           /\ \A i \in 1 .. Len(lines) :
                  StateAfter(lines, i) = Applied(StateAfter(lines, i - 1), lines[i])
           /\ \A i \in 0 .. Len(lines) :
                  Records!Fold(StateAfter(lines, i), SubSeq(lines, i + 1, Len(lines)))
                    = StateAfter(lines, Len(lines))
<1> DEFINE n == Len(lines)
<1>n. n \in Nat /\ DOMAIN lines = 1 .. n
  OBVIOUS
<1>0. PICK g : Records!IsTrace(g, Base, lines, n)
  <2> HIDE DEF n
  <2> QED
    BY <1>n, Records!TraceExists, Zenon
<1>1. g[0] = Base /\ \A i \in 1 .. n : g[i] = Applied(g[i - 1], lines[i])
  BY <1>0 DEF Records!IsTrace
<1>2. ASSUME NEW i \in 0 .. n
      PROVE  StateAfter(lines, i) = g[i]
  <2> DEFINE s == SubSeq(lines, 1, i)
  <2>1. i \in Nat /\ DOMAIN s = 1 .. i /\ \A k \in 1 .. i : s[k] = lines[k] /\ k \in 1 .. n
    BY <1>n
  <2>2. Records!IsTrace(g, Base, s, i)
    BY <1>1, <2>1 DEF Records!IsTrace
  <2> HIDE DEF s
  <2>3. Records!Fold(Base, s) = g[i]
    BY <2>1, <2>2, Records!FoldIsTrace, Zenon
  <2> QED
    BY <2>3 DEF StateAfter, s
<1>3. ASSUME NEW i \in 0 .. n
      PROVE  Records!Fold(StateAfter(lines, i), SubSeq(lines, i + 1, n)) = g[n]
  <2> DEFINE s == SubSeq(lines, i + 1, n)
             f == [k \in 0 .. n - i |-> g[i + k]]
  <2>1. /\ n - i \in Nat /\ DOMAIN s = 1 .. n - i
        /\ \A k \in 1 .. n - i : s[k] = lines[i + k] /\ i + k \in 1 .. n
    BY <1>n
  <2>2. f[0] = g[i] /\ f[n - i] = g[n]
    BY <2>1
  <2>3. ASSUME NEW k \in 1 .. n - i
        PROVE  f[k] = Applied(f[k - 1], s[k])
    <3>1. f[k] = g[i + k] /\ f[k - 1] = g[(i + k) - 1]
      BY <2>1
    <3>2. g[i + k] = Applied(g[(i + k) - 1], lines[i + k])
      BY <1>1, <2>1
    <3> QED
      BY <2>1, <3>1, <3>2
  <2> HIDE DEF s, f
  <2>4. Records!IsTrace(f, g[i], s, n - i)
    BY <2>2, <2>3 DEF Records!IsTrace
  <2>5. Records!Fold(g[i], s) = f[n - i]
    <3> DEFINE m == n - i
    <3>1. m \in Nat /\ DOMAIN s = 1 .. m /\ Records!IsTrace(f, g[i], s, m)
      BY <2>1, <2>4
    <3> HIDE DEF m
    <3>2. Records!Fold(g[i], s) = f[m]
      BY <3>1, Records!FoldIsTrace, Zenon
    <3> QED
      BY <3>2 DEF m
  <2> QED
    BY <1>2, <2>2, <2>5 DEF s
<1> QED
  BY <1>n, <1>1, <1>2, <1>3

\* A further record leaves the states before it alone.
LEMMA StatesOfAppend ==
    ASSUME NEW R, NEW lines \in Seq(R), NEW rec \in R
    PROVE  /\ \A i \in 0 .. Len(lines) : StateAfter(Append(lines, rec), i) = StateAfter(lines, i)
           /\ StateAfter(Append(lines, rec), Len(lines) + 1)
                = Applied(StateAfter(lines, Len(lines)), rec)
           /\ \A i \in 0 .. Len(lines) : EditsOf(Append(lines, rec), i) = EditsOf(lines, i)
           /\ EditsOf(Append(lines, rec), Len(lines) + 1)
                = EditsOf(lines, Len(lines)) \cup {rec.edit}
<1> DEFINE more == Append(lines, rec)
<1>1. /\ more \in Seq(R) /\ Len(more) = Len(lines) + 1 /\ more[Len(more)] = rec
      /\ \A k \in 1 .. Len(lines) : more[k] = lines[k]
  OBVIOUS
<1>2. ASSUME NEW i \in 0 .. Len(lines)
      PROVE  SubSeq(more, 1, i) = SubSeq(lines, 1, i)
  OBVIOUS
<1>3. \A i \in 0 .. Len(lines) : StateAfter(more, i) = StateAfter(lines, i)
  BY <1>2 DEF StateAfter
<1>4. StateAfter(more, Len(lines) + 1) = Applied(StateAfter(lines, Len(lines)), rec)
  <2>1. StateAfter(more, Len(more)) = Applied(StateAfter(more, Len(more) - 1), more[Len(more)])
    <3> HIDE DEF more
    <3> QED
      BY <1>1, StatesOfJournal
  <2> QED
    BY <1>1, <1>3, <2>1
<1>5. \A i \in 0 .. Len(lines) : EditsOf(more, i) = EditsOf(lines, i)
  BY <1>1 DEF EditsOf
<1>6. EditsOf(more, Len(lines) + 1) = EditsOf(lines, Len(lines)) \cup {rec.edit}
  <2>1. 1 .. Len(lines) + 1 = (1 .. Len(lines)) \cup {Len(lines) + 1}
    OBVIOUS
  <2> QED
    BY <1>1, <2>1 DEF EditsOf
<1> QED
  BY <1>3, <1>4, <1>5, <1>6

-----------------------------------------------------------------------------
\* What the journal gives to a recovery

Line == [number : Nat, id : Nat, prev : Nat, kind : Kinds \cup {"Garbage"},
         edit : Edits \cup {"None"}]

LEMMA ScanOfChain ==
    ASSUME NEW lines \in Seq(Line), \A i \in 1 .. Len(lines) : IsRecord(lines, i)
    PROVE  Scan(lines) = lines
<1> DEFINE n == CHOOSE m \in 0 .. Len(lines) : /\ \A i \in 1 .. m : IsRecord(lines, i)
                                               /\ m < Len(lines) => ~IsRecord(lines, m + 1)
<1>1. Len(lines) \in Nat
  OBVIOUS
<1>2. n = Len(lines)
  <2>1. \E m \in 0 .. Len(lines) : /\ \A i \in 1 .. m : IsRecord(lines, i)
                                   /\ m < Len(lines) => ~IsRecord(lines, m + 1)
    <3>1. Len(lines) \in 0 .. Len(lines) /\ ~(Len(lines) < Len(lines))
      BY <1>1
    <3> QED
      BY <1>1, <3>1
  <2>2. n \in 0 .. Len(lines) /\ (n < Len(lines) => ~IsRecord(lines, n + 1))
    BY <2>1
  <2> HIDE DEF n
  <2>3. ~(n < Len(lines))
    BY <1>1, <2>2
  <2> QED
    BY <1>1, <2>2, <2>3
<1>3. Scan(lines) = SubSeq(lines, 1, n)
  BY DEF Scan
<1>4. SubSeq(lines, 1, Len(lines)) = lines
  BY <1>1
<1> QED
  BY <1>2, <1>3, <1>4

LEMMA ScanIsAll ==
    ASSUME RecordsAreChained
    PROVE  Scan(journal.lines) = journal.lines
BY ScanOfChain DEF RecordsAreChained, Count, Line

\* The journal vouches for every state it has been through, and a replay from any of
\* them ends in the newest.
LEMMA StatesReplay ==
    ASSUME RecordsAreChained, StatesAreSound, NEW i \in 0 .. Count
    PROVE  Compatible(At(i)) /\ Replayed(At(i)) = At(Count)
<1>1. journal.lines \in Seq(Line) /\ Count \in Nat /\ Scan(journal.lines) = journal.lines
  BY ScanIsAll DEF RecordsAreChained, Count, Line
<1>2. At(i).number = i /\ At(i).id = IF i = 0 THEN Base.id ELSE journal.lines[i].id
  BY DEF StatesAreSound
<1>3. At(0) = Base
  BY <1>1, StatesOfJournal DEF At
<1>4. Compatible(At(i))
  BY <1>1, <1>2, <1>3 DEF Compatible, Count
<1>5. Records!Fold(At(i), SubSeq(journal.lines, i + 1, Count)) = At(Count)
  BY <1>1, StatesOfJournal DEF At, Count
<1>6. Replayed(At(i)) = Records!Fold(At(i), SubSeq(journal.lines, i + 1, Count))
  <2>1. Replayed(At(i)) = FoldLeft(Applied, At(i), SubSeq(journal.lines, i + 1, Count))
    BY <1>1, <1>2 DEF Replayed, Count
  <2> HIDE DEF At, Applied
  <2> QED
    BY <2>1, Zenon
       DEF Records!Fold, FoldLeft, Records!FoldLeft, MapThenFoldSet, Records!MapThenFoldSet,
           Max, Records!Max
<1> QED
  BY <1>4, <1>5, <1>6

\* A missing file is never a candidate.
LEMMA MissingIsIncompatible == ~Compatible(NoSnapshot)
BY DEF Compatible, NoSnapshot, Base

-----------------------------------------------------------------------------
\* The transitions

\* Taking the last element off a sequence.
LEMMA FrontIsShorter ==
    ASSUME NEW S, NEW s \in Seq(S), s # <<>>
    PROVE  Front(s) \in Seq(S) /\ Len(Front(s)) = Len(s) - 1 /\ Last(s) \in S
<1>1. Len(s) \in Nat /\ Len(s) > 0
  OBVIOUS
<1>2. Last(s) \in S
  BY <1>1 DEF Last
<1>3. \A i \in 1 .. Len(s) - 1 : s[i] \in S
  BY <1>1
<1>4. SubSeq(s, 1, Len(s) - 1) \in Seq(S) /\ Len(SubSeq(s, 1, Len(s) - 1)) = Len(s) - 1
  <2> DEFINE m == 1
             n == Len(s) - 1
  <2>1. m \in Int /\ n \in Int /\ \A i \in m .. n : s[i] \in S
    BY <1>1, <1>3
  <2> HIDE DEF m, n
  <2>2. /\ SubSeq(s, m, n) \in Seq(S)
        /\ Len(SubSeq(s, m, n)) = IF m <= n THEN n - m + 1 ELSE 0
    BY <2>1, SubSeqProperties, Zenon
  <2>3. m = 1 /\ n = Len(s) - 1
    BY DEF m, n
  <2>4. Len(SubSeq(s, m, n)) = Len(s) - 1
    BY <1>1, <2>2, <2>3
  <2> QED
    BY <2>2, <2>4, Zenon DEF m, n
<1> QED
  BY <1>2, <1>4 DEF Front

\* The state before the first record is sound.
LEMMA BaseIsSound == Sound(Base) /\ Base.number = 0
BY JournalAssumption DEF Sound, Snapshot, Base

\* A missing file has the type of a snapshot.
LEMMA MissingIsTyped == NoSnapshot \in Snapshot
<1>1. NoSnapshot = [number |-> 0, id |-> 0, doc |-> <<>>, undoable |-> 0, redo |-> <<>>]
  BY DEF NoSnapshot, Base
<1>2. <<>> \in Seq(Edits)
  OBVIOUS
<1> QED
  BY JournalAssumption, <1>1, <1>2 DEF Snapshot

\* A record that is allowed makes a sound snapshot of a sound one, the next in number.
LEMMA AppliedIsSound ==
    ASSUME NEW snap, Sound(snap), NEW rec, Allowed(snap, rec)
    PROVE  /\ Sound(Applied(snap, rec))
           /\ Applied(snap, rec).number = snap.number + 1
           /\ Applied(snap, rec).id = rec.id
<1> DEFINE new == Applied(snap, rec)
<1>1. /\ snap = [number |-> snap.number, id |-> snap.id, doc |-> snap.doc,
                 undoable |-> snap.undoable, redo |-> snap.redo]
      /\ snap.number \in Nat /\ snap.doc \in Seq(Edits) /\ snap.redo \in Seq(Edits)
      /\ snap.undoable \in 0 .. MaxHistory /\ snap.undoable <= Len(snap.doc)
      /\ MaxHistory \in Nat \ {0} /\ rec.id \in Nat /\ rec.edit \in Edits
  BY JournalAssumption DEF Sound, Snapshot, Allowed
<1>2. /\ PushBounded(snap.undoable) \in 0 .. MaxHistory
      /\ PushBounded(snap.undoable) <= Len(snap.doc) + 1
  BY <1>1 DEF PushBounded
<1>3. CASE rec.kind = "Commit"
  <2>1. new = [number |-> snap.number + 1, id |-> rec.id, doc |-> Append(snap.doc, rec.edit),
               undoable |-> PushBounded(snap.undoable), redo |-> <<>>]
    BY <1>1, <1>3 DEF Applied, Committed, NextRevision
  <2> QED
    BY <1>1, <1>2, <2>1 DEF Sound, Snapshot
<1>4. CASE rec.kind = "Undo"
  <2>1. new = [number |-> snap.number + 1, id |-> rec.id, doc |-> Front(snap.doc),
               undoable |-> snap.undoable - 1, redo |-> Append(snap.redo, Last(snap.doc))]
    BY <1>1, <1>4 DEF Applied, Undone, NextRevision
  <2>2. snap.undoable > 0
    BY <1>4 DEF Allowed
  <2>3. /\ Front(snap.doc) \in Seq(Edits) /\ Len(Front(snap.doc)) = Len(snap.doc) - 1
        /\ Last(snap.doc) \in Edits
    BY <1>1, <2>2, FrontIsShorter
  <2> QED
    BY <1>1, <2>1, <2>2, <2>3 DEF Sound, Snapshot
<1>5. CASE rec.kind = "Redo"
  <2>1. new = [number |-> snap.number + 1, id |-> rec.id, doc |-> Append(snap.doc, Last(snap.redo)),
               undoable |-> PushBounded(snap.undoable), redo |-> Front(snap.redo)]
    BY <1>1, <1>5 DEF Applied, Redone, NextRevision
  <2>2. snap.redo # <<>>
    BY <1>5 DEF Allowed
  <2>3. Front(snap.redo) \in Seq(Edits) /\ Last(snap.redo) \in Edits
    BY <1>1, <2>2, FrontIsShorter
  <2> QED
    BY <1>1, <1>2, <2>1, <2>3 DEF Sound, Snapshot
<1> QED
  BY <1>3, <1>4, <1>5 DEF Allowed, Kinds

-----------------------------------------------------------------------------
\* Steps that leave the records alone

\* What is said of the records alone.
LEMMA LinesKept ==
    ASSUME IInv, journal'.lines = journal.lines
    PROVE  /\ RecordsAreChained' /\ StatesAreSound' /\ Count' = Count
           /\ \A i : At(i)' = At(i)
           /\ \A i : EditsOf(journal.lines, i)' = EditsOf(journal.lines, i)
<1>1. Count' = Count /\ \A i : At(i)' = At(i)
  BY DEF Count, At
<1> QED
  BY <1>1 DEF IInv, RecordsAreChained, StatesAreSound

\* The record of a session, which the steps rewrite field by field.
Session ==
    [phase : {"closed", "idle", "write", "sync", "checkpoint", "promote", "repair", "load"},
     purpose : {"none", "edit", "close", "open", "init"},
     snap : Snapshot, edit : Edits \cup {"None"}, known : SUBSET Edits, failed : BOOLEAN]

\* A closed session is typed.
LEMMA NoSessionIsTyped == NoSession \in Session
BY BaseIsSound DEF NoSession, Session, Sound

\* What each step says of the session alone.
LEMMA SessionTyped == TypeOK => session \in Session
BY DEF TypeOK, Session

\* The edits of records are edits.
LEMMA EditsAreTyped ==
    ASSUME RecordsAreChained, NEW i \in 0 .. Count
    PROVE  EditsOf(journal.lines, i) \subseteq Edits
<1>1. Count \in Nat /\ \A k \in 1 .. Count : journal.lines[k].edit \in Edits
  BY DEF RecordsAreChained, Allowed, Count
<1> QED
  BY <1>1 DEF EditsOf

\* The first files of a project, and an attempt that finds a journal.
LEMMA InitializeKeeps ==
    ASSUME IInv, Initialize
    PROVE  IInv'
<1>1. CASE journal.exists
  <2>1. UNCHANGED vars
    BY <1>1 DEF Initialize, vars
  <2> QED
    BY <2>1 DEF IInv, vars, TypeOK, RequestsHaveKinds, RecordsAreChained, StatesAreSound, SnapshotsAreStates, MissingIsEmpty,
      SessionFollowsJournal, DoneIsRecorded, Count, At, UpTo, AtRest, Pending, AtCheckpoint, NextRecord
<1>2. CASE ~journal.exists
  <2>1. /\ journal = NoJournal /\ journal' = [NoJournal EXCEPT !.exists = TRUE]
        /\ session' = [NoSession EXCEPT !.phase = "checkpoint", !.purpose = "init"]
        /\ UNCHANGED <<main, previous, stamp, request, told, faults, crashes>>
    BY <1>2 DEF Initialize, IInv, MissingIsEmpty
  <2>2. journal'.exists = TRUE /\ journal'.lines = journal.lines /\ journal'.torn = FALSE /\ journal.lines = <<>>
    BY <2>1 DEF NoJournal
  <2>3. /\ RecordsAreChained' /\ StatesAreSound' /\ Count' = Count
        /\ \A i : At(i)' = At(i)
        /\ \A i : EditsOf(journal.lines, i)' = EditsOf(journal.lines, i)
    BY <2>2, LinesKept
  <2>4. session' \in Session
    BY <2>1, NoSessionIsTyped DEF Session
  <2>5. TypeOK'
    BY <2>1, <2>2, <2>4 DEF IInv, TypeOK, NoJournal, Session
  <2>6. At(0) = Base /\ Count = 0
    BY <2>2, StatesOfJournal DEF At, Count, IInv, RecordsAreChained
  <2>7. UpTo(Count)' /\ Count' = 0
    <3>1. EditsOf(<<>>, 0) = {}
      BY DEF EditsOf
    <3> QED
      BY <2>1, <2>2, <2>3, <2>6, <3>1 DEF UpTo, NoSession
  <2>8. SessionFollowsJournal'
    BY <2>1, <2>7 DEF SessionFollowsJournal, AtCheckpoint, NoSession
  <2> QED
    BY <2>1, <2>2, <2>3, <2>5, <2>8 DEF IInv, SnapshotsAreStates, MissingIsEmpty, DoneIsRecorded, RequestsHaveKinds
<1> QED
  BY <1>1, <1>2

\* A client's request.
LEMMA AskKeeps ==
    ASSUME IInv, NEW e \in Edits, NEW kind \in Kinds, Ask(e, kind)
    PROVE  IInv'
<1>1. /\ session.phase = "idle" /\ request[e] = NotAsked
      /\ request' = [request EXCEPT ![e] = [kind |-> kind, base |-> session.snap.number]]
      /\ UNCHANGED <<main, previous, journal, session, stamp, told, faults, crashes>>
  BY DEF Ask, Files
<1>2. /\ RecordsAreChained' /\ StatesAreSound' /\ Count' = Count
      /\ \A i : At(i)' = At(i)
      /\ \A i : EditsOf(journal.lines, i)' = EditsOf(journal.lines, i)
  BY <1>1, LinesKept
<1>3. TypeOK'
  BY <1>1 DEF IInv, TypeOK, Snapshot, Kinds
<1>5. RequestsHaveKinds'
  BY <1>1 DEF IInv, RequestsHaveKinds, TypeOK, NotAsked
<1>4. AtRest'
  BY <1>1, <1>2 DEF IInv, SessionFollowsJournal, AtRest, UpTo
<1> QED
  BY <1>1, <1>2, <1>3, <1>4, <1>5 DEF IInv, SnapshotsAreStates, MissingIsEmpty, SessionFollowsJournal, DoneIsRecorded

\* A command up to its append: it is answered from its id, refused or written.
LEMMA ExecuteKeeps ==
    ASSUME IInv, ~EditsAfterFailure, NEW e \in Edits, Execute(e)
    PROVE  IInv'
<1>1. /\ session.phase = "idle" /\ request[e] # NotAsked /\ told[e] \in {"Nothing", "Error"}
      /\ UNCHANGED <<main, previous, journal, request, faults, crashes>>
  BY DEF Execute, Files
<1>2. UpTo(Count)
  BY <1>1 DEF Execute, IInv, SessionFollowsJournal, AtRest
<1>3. /\ RecordsAreChained' /\ StatesAreSound' /\ Count' = Count
      /\ \A i : At(i)' = At(i)
      /\ \A i : EditsOf(journal.lines, i)' = EditsOf(journal.lines, i)
  BY <1>1, LinesKept
<1>4. /\ SnapshotsAreStates' /\ MissingIsEmpty' /\ RequestsHaveKinds'
      /\ told \in [Edits -> {"Nothing", "Error", "Refused", "Done"}]
      /\ \A x \in Edits : told[x] = "Done" => x \in EditsOf(journal.lines, Count)
  BY <1>1, <1>3 DEF IInv, SnapshotsAreStates, MissingIsEmpty, TypeOK, DoneIsRecorded, RequestsHaveKinds
<1>5. CASE e \in session.known /\ told' = [told EXCEPT ![e] = "Done"] /\ UNCHANGED <<session, stamp>>
  <2>1. DoneIsRecorded'
    BY <1>2, <1>3, <1>4, <1>5 DEF DoneIsRecorded, UpTo
  <2>2. TypeOK' /\ AtRest'
    BY <1>1, <1>2, <1>3, <1>5 DEF IInv, TypeOK, AtRest, UpTo
  <2> QED
    BY <1>1, <1>3, <1>4, <1>5, <2>1, <2>2 DEF IInv, SessionFollowsJournal
<1>6. CASE told' = [told EXCEPT ![e] = "Refused"] /\ UNCHANGED <<session, stamp>>
  <2>1. DoneIsRecorded'
    BY <1>3, <1>4, <1>6 DEF DoneIsRecorded
  <2>2. TypeOK' /\ AtRest'
    BY <1>1, <1>2, <1>3, <1>6 DEF IInv, TypeOK, AtRest, UpTo
  <2> QED
    BY <1>1, <1>3, <1>4, <1>6, <2>1, <2>2 DEF IInv, SessionFollowsJournal
<1>7. CASE /\ e \notin session.known /\ Accepts(session.snap, request[e])
           /\ session' = [session EXCEPT !.phase = "write", !.edit = e]
           /\ stamp' = stamp + 1 /\ UNCHANGED told
  <2>1. session \in Session
    BY SessionTyped DEF IInv
  <2>2. /\ session'.phase = "write" /\ session'.edit = e /\ session'.snap = session.snap
        /\ session'.known = session.known /\ session'.failed = session.failed
        /\ session' \in Session
    BY <1>7, <2>1 DEF Session
  <2>3. TypeOK'
    BY <1>1, <1>7, <2>2 DEF IInv, TypeOK, Session
  <2>4. UpTo(Count)' /\ Pending' /\ Accepts(session.snap, request[session.edit])'
    BY <1>1, <1>2, <1>3, <1>7, <2>2 DEF UpTo, Pending, Accepts
  <2> QED
    BY <1>1, <1>3, <1>4, <1>7, <2>2, <2>3, <2>4 DEF IInv, SessionFollowsJournal, DoneIsRecorded
<1> QED
  BY <1>5, <1>6, <1>7 DEF Execute

-----------------------------------------------------------------------------
\* The append

\* What the next record is, at the step that writes it.
LEMMA NextRecordFits ==
    ASSUME IInv, session.phase = "write"
    PROVE  /\ NextRecord \in Line /\ Allowed(At(Count), NextRecord)
           /\ NextRecord.number = Count + 1 /\ NextRecord.id = stamp
           /\ NextRecord.edit = session.edit
           /\ NextRecord.prev = IF Count = 0 THEN Base.id ELSE journal.lines[Count].id
<1>1. /\ session.snap = At(Count) /\ session.edit \in Edits /\ stamp \in Nat
      /\ Accepts(session.snap, request[session.edit]) /\ request[session.edit] # NotAsked
  BY DEF IInv, SessionFollowsJournal, UpTo, Pending, TypeOK
<1>2. Count \in Nat /\ Sound(At(Count)) /\ At(Count).number = Count
      /\ At(Count).id = IF Count = 0 THEN Base.id ELSE journal.lines[Count].id
  BY DEF IInv, StatesAreSound, RecordsAreChained, Count
<1>3. request[session.edit].kind \in Kinds
  BY <1>1 DEF IInv, RequestsHaveKinds
<1>4. At(Count).id \in Nat /\ At(Count).number \in Nat
  BY <1>2 DEF Sound, Snapshot
<1> QED
  BY <1>1, <1>2, <1>3, <1>4 DEF NextRecord, Line, Allowed, Accepts

\* The journal with the record behind it.
LEMMA RecordWritten ==
    ASSUME IInv, session.phase = "write", journal'.lines = Append(journal.lines, NextRecord)
    PROVE  /\ RecordsAreChained' /\ StatesAreSound' /\ Count' = Count + 1
           /\ \A i \in 0 .. Count : StateAfter(journal'.lines, i) = At(i)
           /\ \A i \in 0 .. Count : EditsOf(journal'.lines, i) = EditsOf(journal.lines, i)
           /\ StateAfter(journal'.lines, Count + 1) = Applied(At(Count), NextRecord)
           /\ EditsOf(journal'.lines, Count + 1) = EditsOf(journal.lines, Count) \cup {session.edit}
           /\ journal'.lines[Count + 1] = NextRecord
<1> DEFINE lines == journal.lines
           rec == NextRecord
<1>1. lines \in Seq(Line) /\ Count = Len(lines) /\ Count \in Nat /\ rec \in Line
  BY NextRecordFits DEF IInv, RecordsAreChained, Line, Count
<1>2. /\ journal'.lines \in Seq(Line) /\ Count' = Count + 1
      /\ journal'.lines[Count + 1] = rec
      /\ \A i \in 1 .. Count : journal'.lines[i] = lines[i]
  <2> HIDE DEF rec
  <2> QED
    BY <1>1 DEF Count, rec
<1>3. /\ \A i \in 0 .. Count : StateAfter(Append(lines, rec), i) = StateAfter(lines, i)
      /\ StateAfter(Append(lines, rec), Count + 1) = Applied(StateAfter(lines, Count), rec)
      /\ \A i \in 0 .. Count : EditsOf(Append(lines, rec), i) = EditsOf(lines, i)
      /\ EditsOf(Append(lines, rec), Count + 1) = EditsOf(lines, Count) \cup {rec.edit}
  <2> HIDE DEF rec, lines
  <2> QED
    BY <1>1, StatesOfAppend
<1>4. /\ \A i \in 0 .. Count : StateAfter(journal'.lines, i) = At(i)
      /\ StateAfter(journal'.lines, Count + 1) = Applied(At(Count), rec)
  BY <1>3 DEF At
<1>5. /\ \A i \in 0 .. Count : EditsOf(journal'.lines, i) = EditsOf(journal.lines, i)
      /\ EditsOf(journal'.lines, Count + 1) = EditsOf(journal.lines, Count) \cup {session.edit}
  BY <1>3, NextRecordFits
<1>6. RecordsAreChained'
  <2>1. ASSUME NEW i \in 1 .. Count + 1
        PROVE  IsRecord(journal'.lines, i) /\ Allowed(StateAfter(journal'.lines, i - 1), journal'.lines[i])
    <3>1. CASE i \in 1 .. Count
      <4>1. IsRecord(lines, i) /\ Allowed(At(i - 1), lines[i])
        BY <3>1 DEF IInv, RecordsAreChained
      <4>2. i # 1 => i - 1 \in 1 .. Count
        BY <1>1, <3>1
      <4>3. StateAfter(journal'.lines, i - 1) = At(i - 1)
        BY <1>1, <1>4, <3>1
      <4> QED
        BY <1>2, <3>1, <4>1, <4>2, <4>3 DEF IsRecord
    <3>2. CASE i = Count + 1
      <4>1. /\ Allowed(At(Count), rec) /\ rec.number = Count + 1
            /\ rec.prev = IF Count = 0 THEN Base.id ELSE lines[Count].id
        BY NextRecordFits
      <4>2. rec # Garbage
        BY <1>1, <4>1 DEF Garbage
      <4>3. StateAfter(journal'.lines, Count) = At(Count)
        BY <1>1, <1>4
      <4>4. i - 1 = Count /\ journal'.lines[i] = rec
        BY <1>1, <1>2, <3>2
      <4>5. Count # 0 => journal'.lines[i - 1] = lines[Count]
        BY <1>1, <1>2, <4>4
      <4>6. rec.prev = IF i = 1 THEN Base.id ELSE journal'.lines[i - 1].id
        <5>1. CASE Count = 0
          <6>1. i = 1 /\ rec.prev = Base.id
            BY <3>2, <4>1, <5>1
          <6> HIDE DEF rec
          <6> QED
            BY <6>1
        <5>2. CASE Count # 0
          <6>1. i # 1 /\ i - 1 = Count /\ rec.prev = lines[Count].id
            BY <1>1, <3>2, <4>1, <5>2
          <6>2. journal'.lines[i - 1].id = lines[Count].id
            BY <4>5, <5>2
          <6> HIDE DEF rec, lines
          <6> QED
            BY <6>1, <6>2
        <5> QED
          BY <5>1, <5>2
      <4>7. IsRecord(journal'.lines, i)
        <5> HIDE DEF rec, lines
        <5> QED
          BY <3>2, <4>1, <4>2, <4>4, <4>6 DEF IsRecord
      <4> QED
        BY <4>1, <4>3, <4>4, <4>7
    <3> QED
      BY <1>1, <3>1, <3>2
  <2> QED
    BY <1>2, <2>1 DEF RecordsAreChained, Line, At
<1>7. StatesAreSound'
  <2>1. ASSUME NEW i \in 0 .. Count
        PROVE  /\ Sound(StateAfter(journal'.lines, i)) /\ StateAfter(journal'.lines, i).number = i
               /\ StateAfter(journal'.lines, i).id = IF i = 0 THEN Base.id ELSE journal'.lines[i].id
    <3>1. /\ Sound(At(i)) /\ At(i).number = i
          /\ At(i).id = IF i = 0 THEN Base.id ELSE lines[i].id
      BY DEF IInv, StatesAreSound
    <3> QED
      BY <1>1, <1>2, <1>4, <3>1
  <2>2. /\ Sound(StateAfter(journal'.lines, Count + 1)) /\ StateAfter(journal'.lines, Count + 1).number = Count + 1
        /\ StateAfter(journal'.lines, Count + 1).id = rec.id
    <3>1. Sound(At(Count)) /\ At(Count).number = Count
      BY <1>1 DEF IInv, StatesAreSound
    <3>2. Allowed(At(Count), rec)
      BY NextRecordFits
    <3> HIDE DEF rec
    <3> QED
      BY <1>4, <3>1, <3>2, AppliedIsSound
  <2>3. \A i \in 0 .. Count + 1 : i \in 0 .. Count \/ i = Count + 1
    BY <1>1
  <2> QED
    BY <1>1, <1>2, <2>1, <2>2, <2>3 DEF StatesAreSound, At
<1> QED
  BY <1>2, <1>4, <1>5, <1>6, <1>7

\* A failed append, in the write or in the sync.
LEMMA FailureRests ==
    ASSUME IInv, session.phase \in {"write", "sync"}, AppendFails,
           RecordsAreChained', StatesAreSound', Count' = Count, journal'.lines = journal.lines,
           UNCHANGED <<main, previous, stamp, request, crashes>>,
           journal' = [journal EXCEPT !.torn = journal'.torn], journal'.torn \in BOOLEAN,
           session.phase = "write" \/ UNCHANGED journal
    PROVE  IInv'
<1>1. session \in Session /\ session.edit \in Edits
  BY SessionTyped DEF IInv, SessionFollowsJournal, Pending
<1>2. /\ session'.phase = "idle" /\ session'.failed = TRUE /\ session'.snap = session.snap
      /\ session'.known = session.known /\ session' \in Session
  BY <1>1 DEF AppendFails, Session
<1>3. TypeOK'
  <2>1. faults' \in 0 .. MaxFaults
    BY JournalAssumption DEF AppendFails, FileFails, IInv, TypeOK
  <2>2. journal' \in [exists : BOOLEAN, torn : BOOLEAN, lines : Seq(Line)]
    BY DEF IInv, TypeOK, Line
  <2>3. told' \in [Edits -> {"Nothing", "Error", "Refused", "Done"}]
    BY DEF AppendFails, IInv, TypeOK
  <2> QED
    BY <1>2, <2>1, <2>2, <2>3 DEF IInv, TypeOK, Session, Line
<1>4. \E i \in 0 .. Count : session.snap = At(i) /\ session.known \subseteq EditsOf(journal.lines, Count)
  <2>1. Count \in Nat
    BY DEF IInv, RecordsAreChained, Count
  <2>2. \E i \in 0 .. Count : session.snap = At(i) /\ session.known = EditsOf(journal.lines, i)
    BY <2>1 DEF IInv, SessionFollowsJournal, UpTo
  <2> QED
    BY <2>1, <2>2 DEF EditsOf
<1>5. AtRest'
  BY <1>2, <1>4 DEF AtRest, At
<1>6. SnapshotsAreStates'
  BY DEF IInv, SnapshotsAreStates, At
<1>7. MissingIsEmpty'
  <2>1. CASE session.phase = "sync"
    BY <2>1 DEF IInv, MissingIsEmpty
  <2>2. CASE session.phase = "write"
    <3>1. journal.exists /\ journal'.exists = journal.exists
      BY <2>2 DEF IInv, MissingIsEmpty, TypeOK
    <3> QED
      BY <3>1 DEF MissingIsEmpty
  <2> QED
    BY <2>1, <2>2
<1>8. RequestsHaveKinds' /\ DoneIsRecorded'
  BY DEF IInv, RequestsHaveKinds, DoneIsRecorded, AppendFails, TypeOK
<1> QED
  BY <1>2, <1>3, <1>5, <1>6, <1>7, <1>8 DEF IInv, SessionFollowsJournal

\* The write of an append, complete, torn or failing.
LEMMA WriteKeeps ==
    ASSUME IInv, Write
    PROVE  IInv'
<1>1. session.phase = "write" /\ UNCHANGED <<main, previous, stamp, request, crashes>>
  BY DEF Write
<1>2. /\ UpTo(Count) /\ Pending /\ Accepts(session.snap, request[session.edit])
      /\ ~journal.torn /\ session \in Session /\ journal.exists
  BY <1>1, SessionTyped DEF IInv, SessionFollowsJournal, UpTo, MissingIsEmpty
<1>3. CASE /\ FileOk
           /\ journal' = [journal EXCEPT !.lines = Append(@, IF journal.torn THEN Garbage
                                                             ELSE NextRecord),
                                         !.torn = FALSE]
           /\ Goes("sync")
           /\ UNCHANGED told
  <2>1. /\ journal'.lines = Append(journal.lines, NextRecord) /\ ~journal'.torn
        /\ journal'.exists = journal.exists /\ UNCHANGED faults
        /\ journal' = [exists |-> journal'.exists, torn |-> journal'.torn, lines |-> journal'.lines]
    BY <1>2, <1>3 DEF FileOk, IInv, TypeOK
  <2>2. /\ session'.phase = "sync" /\ session'.edit = session.edit /\ session'.snap = session.snap
        /\ session'.known = session.known /\ session'.failed = session.failed
        /\ session' \in Session
    BY <1>2, <1>3 DEF Goes, Session
  <2>3. /\ RecordsAreChained' /\ StatesAreSound' /\ Count' = Count + 1 /\ Count \in Nat
        /\ \A i \in 0 .. Count : StateAfter(journal'.lines, i) = At(i)
        /\ \A i \in 0 .. Count : EditsOf(journal'.lines, i) = EditsOf(journal.lines, i)
        /\ EditsOf(journal'.lines, Count + 1) = EditsOf(journal.lines, Count) \cup {session.edit}
        /\ journal'.lines[Count + 1] = NextRecord
    BY <1>1, <2>1, RecordWritten DEF IInv, RecordsAreChained, Count
  <2>4. TypeOK'
    BY <1>1, <1>3, <2>1, <2>2, <2>3 DEF IInv, TypeOK, Session, RecordsAreChained
  <2>5. SnapshotsAreStates'
    BY <1>1, <2>3 DEF IInv, SnapshotsAreStates, At
  <2>6. NextRecord' = NextRecord
    BY <1>1, <2>2 DEF NextRecord
  <2>7. UpTo(Count - 1)'
    <3>1. (Count - 1)' = Count /\ At(Count - 1)' = StateAfter(journal'.lines, Count)
      BY <2>3 DEF At
    <3>2. Count \in 0 .. Count
      BY <2>3
    <3> QED
      BY <1>2, <2>1, <2>2, <2>3, <3>1, <3>2 DEF UpTo
  <2>8. Pending' /\ Accepts(session.snap, request[session.edit])'
    BY <1>1, <1>2, <1>3, <2>2 DEF Pending, Accepts
  <2>9. SessionFollowsJournal'
    BY <2>2, <2>3, <2>6, <2>7, <2>8 DEF SessionFollowsJournal
  <2>10. DoneIsRecorded' /\ MissingIsEmpty' /\ RequestsHaveKinds'
    BY <1>1, <1>2, <1>3, <2>1, <2>3 DEF IInv, DoneIsRecorded, MissingIsEmpty, RequestsHaveKinds
  <2> QED
    BY <2>3, <2>4, <2>5, <2>9, <2>10 DEF IInv
<1>4. CASE /\ AppendFails
           /\ \E torn \in {journal.torn, TRUE} : journal' = [journal EXCEPT !.torn = torn]
  <2>1. /\ journal'.lines = journal.lines /\ journal'.torn \in BOOLEAN
        /\ journal' = [journal EXCEPT !.torn = journal'.torn]
    BY <1>4 DEF IInv, TypeOK
  <2> QED
    BY <1>1, <1>4, <2>1, LinesKept, FailureRests
<1> QED
  BY <1>3, <1>4 DEF Write

\* An edit is answered when its record is in the journal.
LEMMA AnswerKeeps ==
    ASSUME IInv, session.phase # "closed", session.edit \in Edits, Count > 0,
           ~journal.torn, session.known = EditsOf(journal.lines, Count - 1),
           session.edit = journal.lines[Count].edit,
           Answer(At(Count)), UNCHANGED <<previous, journal, stamp, request, crashes>>,
           main' \in {main, At(Count)}, faults' \in 0 .. MaxFaults
    PROVE  IInv'
<1>1. /\ RecordsAreChained' /\ StatesAreSound' /\ Count' = Count /\ Count \in Nat
      /\ \A i : At(i)' = At(i)
      /\ \A i : EditsOf(journal.lines, i)' = EditsOf(journal.lines, i)
  <2>1. journal'.lines = journal.lines
    OBVIOUS
  <2> QED
    BY <2>1, LinesKept DEF IInv, RecordsAreChained, Count
<1>2. At(Count) \in Snapshot
  BY <1>1 DEF IInv, StatesAreSound, Sound
<1>3. session \in Session
  BY SessionTyped DEF IInv
<1>4. /\ session'.phase = "idle" /\ session'.snap = At(Count) /\ session'.failed = FALSE
      /\ session'.known = session.known \cup {session.edit} /\ session' \in Session
  BY <1>2, <1>3 DEF Answer, Session
<1>5. session'.known = EditsOf(journal.lines, Count)
  <2>1. 1 .. Count = (1 .. Count - 1) \cup {Count}
    BY <1>1
  <2> QED
    BY <1>4, <2>1 DEF EditsOf
<1>6. AtRest'
  BY <1>1, <1>4, <1>5 DEF AtRest, UpTo
<1>7. told' = [told EXCEPT ![session.edit] = "Done"]
  BY DEF Answer
<1>8. TypeOK'
  BY <1>2, <1>4, <1>7 DEF IInv, TypeOK, Session
<1>9. DoneIsRecorded'
  <2>1. session.edit \in EditsOf(journal.lines, Count)
    BY <1>4, <1>5
  <2> QED
    BY <1>1, <1>7, <2>1 DEF IInv, DoneIsRecorded, TypeOK
<1>10. SnapshotsAreStates'
  BY <1>1 DEF IInv, SnapshotsAreStates
<1>11. MissingIsEmpty' /\ RequestsHaveKinds'
  BY DEF IInv, MissingIsEmpty, RequestsHaveKinds
<1> QED
  BY <1>1, <1>4, <1>6, <1>8, <1>9, <1>10, <1>11 DEF IInv, SessionFollowsJournal

\* The sync of an append, and what follows it.
LEMMA SyncKeeps ==
    ASSUME IInv, Sync
    PROVE  IInv'
<1> DEFINE snap == Applied(session.snap, NextRecord)
<1>1. /\ session.phase = "sync" /\ UNCHANGED <<main, previous, journal, stamp, request, crashes>>
  BY DEF Sync, Files
<1>2. /\ RecordsAreChained' /\ StatesAreSound' /\ Count' = Count /\ Count \in Nat
      /\ \A i : At(i)' = At(i)
      /\ \A i : EditsOf(journal.lines, i)' = EditsOf(journal.lines, i)
  BY <1>1, LinesKept DEF IInv, RecordsAreChained, Count
<1>3. /\ Count > 0 /\ UpTo(Count - 1) /\ Pending /\ journal.lines[Count] = NextRecord
      /\ session \in Session
  BY <1>1, SessionTyped DEF IInv, SessionFollowsJournal
<1>4. snap = At(Count)
  <2>1. journal.lines \in Seq(Line) /\ Count = Len(journal.lines) /\ Count \in 1 .. Count
    BY <1>2, <1>3 DEF IInv, RecordsAreChained, Count, Line
  <2>2. At(Count) = Applied(At(Count - 1), journal.lines[Count])
    BY <2>1, StatesOfJournal DEF At
  <2> QED
    BY <1>3, <2>2 DEF UpTo
<1>5. CASE AppendFails
  <2>1. journal' = [journal EXCEPT !.torn = journal'.torn] /\ journal'.torn \in BOOLEAN
    BY <1>1 DEF IInv, TypeOK
  <2> QED
    BY <1>1, <1>2, <1>5, <2>1, FailureRests
<1>6. NextRecord.edit = session.edit /\ session.edit \in Edits
  BY <1>3 DEF NextRecord, Pending
<1>7. CASE FileOk /\ Answer(snap)
  <2>1. faults' \in 0 .. MaxFaults
    BY <1>7 DEF FileOk, IInv, TypeOK
  <2> QED
    BY <1>1, <1>2, <1>3, <1>4, <1>6, <1>7, <2>1, AnswerKeeps DEF UpTo
<1>8. CASE /\ FileOk /\ UNCHANGED told
           /\ session' = [session EXCEPT !.phase = "checkpoint", !.purpose = "edit", !.snap = snap]
  <2>1. At(Count) \in Snapshot
    BY <1>2 DEF IInv, StatesAreSound, Sound
  <2>2. /\ session'.phase = "checkpoint" /\ session'.purpose = "edit" /\ session'.snap = At(Count)
        /\ session'.edit = session.edit /\ session'.known = session.known
        /\ session'.failed = session.failed /\ session' \in Session
    BY <1>3, <1>4, <1>8, <2>1 DEF Session
  <2>3. TypeOK'
    BY <1>1, <1>8, <2>2 DEF IInv, TypeOK, Session, FileOk
  <2>4. AtCheckpoint'
    BY <1>1, <1>2, <1>3, <1>6, <1>8, <2>2 DEF AtCheckpoint, UpTo, Pending
  <2> QED
    BY <1>1, <1>2, <1>8, <2>2, <2>3, <2>4 DEF IInv, SessionFollowsJournal, SnapshotsAreStates,
      MissingIsEmpty, DoneIsRecorded, RequestsHaveKinds
<1> QED
  BY <1>5, <1>7, <1>8 DEF Sync

-----------------------------------------------------------------------------
\* Checkpoints

\* What holds while a checkpoint is written.
LEMMA CheckpointType ==
    ASSUME IInv, session.phase \in {"checkpoint", "promote"}
    PROVE  /\ AtCheckpoint /\ session \in Session /\ journal.exists
           /\ Count \in Nat /\ \E i \in 0 .. Count : session.snap = At(i)
<1>1. AtCheckpoint /\ session \in Session /\ journal.exists /\ Count \in Nat
  BY SessionTyped DEF IInv, SessionFollowsJournal, MissingIsEmpty, RecordsAreChained, Count
<1>2. Count \in 0 .. Count
  BY <1>1
<1> QED
  BY <1>1, <1>2 DEF AtCheckpoint, AtRest, UpTo

\* The snapshot in place becomes the previous one.
LEMMA CopyPreviousKeeps ==
    ASSUME IInv, CopyPrevious
    PROVE  IInv'
<1>1. /\ session.phase = "checkpoint" /\ previous' = main
      /\ UNCHANGED <<main, journal, stamp, request, told, faults, crashes>>
  BY DEF CopyPrevious
<1>2. /\ RecordsAreChained' /\ StatesAreSound' /\ Count' = Count
      /\ \A i : At(i)' = At(i)
      /\ \A i : EditsOf(journal.lines, i)' = EditsOf(journal.lines, i)
  BY <1>1, LinesKept
<1>3. AtCheckpoint /\ session \in Session /\ journal.exists
  BY <1>1, CheckpointType
<1>4. /\ session'.phase = "promote" /\ session'.purpose = session.purpose
      /\ session'.snap = session.snap /\ session'.edit = session.edit
      /\ session'.known = session.known /\ session'.failed = session.failed
      /\ session' \in Session
  BY <1>3 DEF CopyPrevious, Goes, Session
<1>5. TypeOK'
  BY <1>1, <1>4 DEF IInv, TypeOK, Session
<1>6. AtCheckpoint'
  BY <1>1, <1>2, <1>3, <1>4 DEF AtCheckpoint, AtRest, UpTo, Pending
<1> QED
  BY <1>1, <1>2, <1>3, <1>4, <1>5, <1>6 DEF IInv, SessionFollowsJournal, SnapshotsAreStates,
    MissingIsEmpty, DoneIsRecorded, RequestsHaveKinds

\* What follows a checkpoint that leaves main alone or puts the session's snapshot there.
LEMMA CheckpointEndsKeeps ==
    ASSUME IInv, session.phase \in {"checkpoint", "promote"}, NEW ok \in BOOLEAN,
           CheckpointEnds(ok), UNCHANGED <<previous, journal, stamp, request, crashes>>,
           main' \in {main, session.snap}, faults' \in 0 .. MaxFaults
    PROVE  IInv'
<1>0. journal' = journal /\ request' = request /\ stamp' = stamp /\ crashes' = crashes /\ previous' = previous
  OBVIOUS
<1>1. /\ RecordsAreChained' /\ StatesAreSound' /\ Count' = Count
      /\ \A i : At(i)' = At(i)
      /\ \A i : EditsOf(journal.lines, i)' = EditsOf(journal.lines, i)
  BY <1>0, LinesKept
<1>2. /\ AtCheckpoint /\ session \in Session /\ journal.exists
      /\ Count \in Nat /\ \E i \in 0 .. Count : session.snap = At(i)
  BY CheckpointType
<1>3. SnapshotsAreStates' /\ MissingIsEmpty' /\ RequestsHaveKinds'
  BY <1>0, <1>1, <1>2 DEF IInv, SnapshotsAreStates, MissingIsEmpty, RequestsHaveKinds
<1>4. main' \in Snapshot
  BY <1>2 DEF IInv, TypeOK, Session
<1>5. CASE session.purpose = "edit" /\ Answer(session.snap)
  <2>1. /\ Count > 0 /\ ~session.failed /\ ~journal.torn /\ session.snap = At(Count)
        /\ session.known = EditsOf(journal.lines, Count - 1)
        /\ session.edit \in Edits /\ session.edit = journal.lines[Count].edit
    BY <1>2, <1>5 DEF AtCheckpoint, Pending
  <2>2. Answer(At(Count)) /\ main' \in {main, At(Count)} /\ session.phase # "closed"
    BY <1>5, <2>1
  <2> QED
    BY <2>1, <2>2, AnswerKeeps
<1>6. ASSUME UNCHANGED told, session' \in Session, SessionFollowsJournal'
      PROVE  IInv'
  <2>1. TypeOK'
    BY <1>0, <1>4, <1>6 DEF IInv, TypeOK, Session
  <2> QED
    BY <1>0, <1>1, <1>3, <1>6, <2>1 DEF IInv, DoneIsRecorded
<1>7. CASE session' = NoSession /\ UNCHANGED told
  <2>1. SessionFollowsJournal'
    BY <1>7 DEF SessionFollowsJournal, NoSession
  <2> QED
    BY <1>6, <1>7, <2>1, NoSessionIsTyped
<1>8. CASE /\ session.purpose = "close" /\ UNCHANGED told
           /\ session' = [session EXCEPT !.phase = "idle", !.purpose = "none"]
  <2>1. /\ session'.phase = "idle" /\ session'.snap = session.snap
        /\ session'.known = session.known /\ session'.failed = session.failed
        /\ session' \in Session
    BY <1>2, <1>8 DEF Session
  <2>2. AtRest'
    BY <1>0, <1>1, <1>2, <1>8, <2>1 DEF AtCheckpoint, AtRest, UpTo
  <2>3. SessionFollowsJournal'
    BY <2>1, <2>2 DEF SessionFollowsJournal
  <2> QED
    BY <1>6, <1>8, <2>1, <2>3
<1>9. CASE /\ session.purpose = "open" /\ UNCHANGED told
           /\ session' = [session EXCEPT !.phase = "load", !.purpose = "none"]
  <2>1. /\ session'.phase = "load" /\ session'.snap = session.snap
        /\ session'.failed = session.failed /\ session' \in Session
    BY <1>2, <1>9 DEF Session
  <2>2. SessionFollowsJournal'
    BY <1>0, <1>1, <1>2, <1>9, <2>1 DEF SessionFollowsJournal, AtCheckpoint
  <2> QED
    BY <1>6, <1>9, <2>1, <2>2
<1>10. CASE /\ session.purpose = "init" /\ UNCHANGED told
            /\ session' = [session EXCEPT !.phase = "idle", !.purpose = "none"]
  <2>1. /\ session'.phase = "idle" /\ session'.snap = session.snap
        /\ session'.known = session.known /\ session'.failed = session.failed
        /\ session' \in Session
    BY <1>2, <1>10 DEF Session
  <2>2. AtRest'
    BY <1>0, <1>1, <1>2, <1>10, <2>1 DEF AtCheckpoint, AtRest, UpTo
  <2>3. SessionFollowsJournal'
    BY <2>1, <2>2 DEF SessionFollowsJournal
  <2> QED
    BY <1>6, <1>10, <2>1, <2>3
<1> QED
  BY <1>5, <1>7, <1>8, <1>9, <1>10 DEF CheckpointEnds

\* The new snapshot takes its place.
LEMMA PromoteKeeps ==
    ASSUME IInv, Promote
    PROVE  IInv'
<1>1. faults' \in 0 .. MaxFaults
  BY DEF Promote, FileOk, IInv, TypeOK
<1> QED
  BY <1>1, CheckpointEndsKeeps DEF Promote

\* A checkpoint that fails, and the initialization that is taken back with it.
LEMMA CheckpointFailsKeeps ==
    ASSUME IInv, CheckpointFails
    PROVE  IInv'
<1>1. /\ session.phase \in {"checkpoint", "promote"} /\ CheckpointEnds(FALSE)
      /\ UNCHANGED <<stamp, request, crashes>> /\ faults' \in 0 .. MaxFaults
  <2>1. /\ session.phase \in {"checkpoint", "promote"} /\ CheckpointEnds(FALSE)
        /\ UNCHANGED <<stamp, request, crashes>> /\ FileFails
    BY DEF CheckpointFails
  <2>2. faults' \in 0 .. MaxFaults
    BY <2>1, JournalAssumption DEF FileFails, IInv, TypeOK
  <2> QED
    BY <2>1, <2>2
<1>2. CASE session.purpose # "init"
  <2>1. main' \in {main, session.snap} /\ UNCHANGED <<previous, journal, stamp, request, crashes>>
    BY <1>1, <1>2 DEF CheckpointFails
  <2> QED
    BY <1>1, <2>1, CheckpointEndsKeeps
<1>3. CASE session.purpose = "init"
  <2>1. main' = NoSnapshot /\ previous' = NoSnapshot /\ journal' = NoJournal
    BY <1>3 DEF CheckpointFails
  <2>2. Count = 0 /\ session \in Session
    BY <1>1, <1>3, CheckpointType DEF AtCheckpoint
  <2>3. journal'.lines = journal.lines
    BY <2>1, <2>2 DEF NoJournal, Count, IInv, RecordsAreChained
  <2>4. session' = NoSession /\ UNCHANGED told
    BY <1>1, <1>3 DEF CheckpointEnds
  <2>5. /\ RecordsAreChained' /\ StatesAreSound' /\ Count' = Count
        /\ \A i : At(i)' = At(i)
        /\ \A i : EditsOf(journal.lines, i)' = EditsOf(journal.lines, i)
    BY <2>3, LinesKept
  <2>6. TypeOK'
    BY <1>1, <2>1, <2>4, NoSessionIsTyped, MissingIsTyped DEF IInv, TypeOK, Session, NoJournal
  <2>7. SessionFollowsJournal' /\ SnapshotsAreStates' /\ MissingIsEmpty'
    BY <2>1, <2>4 DEF SessionFollowsJournal, SnapshotsAreStates, MissingIsEmpty, NoSession, NoJournal
  <2> QED
    BY <1>1, <2>4, <2>5, <2>6, <2>7 DEF IInv, DoneIsRecorded, RequestsHaveKinds
<1> QED
  BY <1>2, <1>3

\* A close begins with a checkpoint.
LEMMA CloseKeeps ==
    ASSUME IInv, Close
    PROVE  IInv'
<1>1. /\ session.phase = "idle"
      /\ session' = [session EXCEPT !.phase = "checkpoint", !.purpose = "close"]
      /\ UNCHANGED <<main, previous, journal, stamp, request, told, faults, crashes>>
  BY DEF Close, Files
<1>2. /\ RecordsAreChained' /\ StatesAreSound' /\ Count' = Count
      /\ \A i : At(i)' = At(i)
      /\ \A i : EditsOf(journal.lines, i)' = EditsOf(journal.lines, i)
  BY <1>1, LinesKept
<1>3. AtRest /\ session \in Session
  BY <1>1, SessionTyped DEF IInv, SessionFollowsJournal
<1>4. /\ session'.phase = "checkpoint" /\ session'.purpose = "close"
      /\ session'.snap = session.snap /\ session'.known = session.known
      /\ session'.failed = session.failed /\ session' \in Session
  BY <1>1, <1>3 DEF Session
<1>5. TypeOK'
  BY <1>1, <1>4 DEF IInv, TypeOK, Session
<1>6. AtCheckpoint'
  BY <1>1, <1>2, <1>3, <1>4 DEF AtCheckpoint, AtRest, UpTo
<1> QED
  BY <1>1, <1>2, <1>4, <1>5, <1>6 DEF IInv, SessionFollowsJournal, SnapshotsAreStates,
    MissingIsEmpty, DoneIsRecorded, RequestsHaveKinds

-----------------------------------------------------------------------------
\* Recovery

\* All that a recovery can have to repair is a torn tail.
LEMMA CleanIsNotTorn == ASSUME IInv PROVE Clean <=> ~journal.torn
BY ScanIsAll DEF Clean, IInv

\* A recovery replays what is recorded, from whichever snapshot it takes.
LEMMA OpenKeeps ==
    ASSUME IInv, Open
    PROVE  IInv'
<1>1. /\ session.phase = "closed" /\ main # NoSnapshot
      /\ UNCHANGED <<main, previous, journal, stamp, request, told, faults, crashes>>
  BY DEF Open, Files
<1>2. /\ RecordsAreChained' /\ StatesAreSound' /\ Count' = Count
      /\ \A i : At(i)' = At(i)
      /\ \A i : EditsOf(journal.lines, i)' = EditsOf(journal.lines, i)
  BY <1>1, LinesKept
<1>3. PICK s \in {main, previous} :
         /\ Compatible(s)
         /\ session'.snap = Replayed(s) /\ session'.purpose = "open" /\ session'.failed = FALSE
         /\ session' = [NoSession EXCEPT !.snap = Replayed(s), !.purpose = "open",
                                         !.phase = session'.phase]
         /\ session'.phase \in {"repair", "checkpoint", "load"}
         /\ session'.phase # "repair" => Clean
  BY DEF Open, NoSession
<1>4. Replayed(s) = At(Count) /\ At(Count) \in Snapshot
  <2>1. PICK i \in 0 .. Count : s = At(i)
    BY <1>3, MissingIsIncompatible DEF IInv, SnapshotsAreStates
  <2>2. Count \in 0 .. Count
    BY DEF IInv, RecordsAreChained, Count
  <2> QED
    BY <2>1, <2>2, StatesReplay DEF IInv, StatesAreSound, Sound
<1>5. session' \in Session
  BY <1>3, <1>4, NoSessionIsTyped DEF Session
<1>6. TypeOK'
  BY <1>1, <1>5 DEF IInv, TypeOK, Session
<1>7. SessionFollowsJournal'
  BY <1>1, <1>2, <1>3, <1>4, CleanIsNotTorn DEF SessionFollowsJournal, AtCheckpoint
<1>8. MissingIsEmpty'
  BY <1>1 DEF IInv, MissingIsEmpty
<1> QED
  BY <1>1, <1>2, <1>6, <1>7, <1>8 DEF IInv, SnapshotsAreStates, DoneIsRecorded, RequestsHaveKinds

\* The torn tail is cut off, or the project stays closed.
LEMMA RepairKeeps ==
    ASSUME IInv, Repair
    PROVE  IInv'
<1>1. session.phase = "repair" /\ UNCHANGED <<main, previous, stamp, request, told, crashes>>
  BY DEF Repair
<1>2. /\ ~session.failed /\ session.purpose = "open" /\ session.snap = At(Count)
      /\ session \in Session /\ journal.exists
  BY <1>1, SessionTyped DEF IInv, SessionFollowsJournal, MissingIsEmpty
<1>3. CASE /\ FileOk /\ Goes("checkpoint")
           /\ journal' = [journal EXCEPT !.lines = Scan(@), !.torn = FALSE]
  <2>1. journal' = [journal EXCEPT !.lines = journal.lines, !.torn = FALSE]
    BY <1>3, ScanIsAll DEF IInv
  <2>2. journal'.lines = journal.lines /\ ~journal'.torn /\ journal'.exists = journal.exists
    BY <2>1 DEF IInv, TypeOK
  <2>3. /\ RecordsAreChained' /\ StatesAreSound' /\ Count' = Count
        /\ \A i : At(i)' = At(i)
        /\ \A i : EditsOf(journal.lines, i)' = EditsOf(journal.lines, i)
    BY <2>2, LinesKept
  <2>4. /\ session'.phase = "checkpoint" /\ session'.purpose = "open"
        /\ session'.snap = At(Count) /\ session'.failed = FALSE /\ session' \in Session
    BY <1>2, <1>3 DEF Goes, Session
  <2>5. TypeOK'
    BY <1>1, <1>3, <2>1, <2>4 DEF IInv, TypeOK, Session, FileOk
  <2>6. SessionFollowsJournal'
    BY <2>2, <2>3, <2>4 DEF SessionFollowsJournal, AtCheckpoint
  <2> QED
    BY <1>1, <1>2, <2>2, <2>3, <2>5, <2>6 DEF IInv, SnapshotsAreStates, MissingIsEmpty,
      DoneIsRecorded, RequestsHaveKinds
<1>4. CASE FileFails /\ UNCHANGED journal /\ session' = NoSession
  <2>1. /\ RecordsAreChained' /\ StatesAreSound' /\ Count' = Count
        /\ \A i : At(i)' = At(i)
        /\ \A i : EditsOf(journal.lines, i)' = EditsOf(journal.lines, i)
    BY <1>4, LinesKept
  <2>2. faults' \in 0 .. MaxFaults
    BY <1>4, JournalAssumption DEF FileFails, IInv, TypeOK
  <2>3. TypeOK' /\ SessionFollowsJournal'
    BY <1>1, <1>4, <2>2, NoSessionIsTyped
    DEF IInv, TypeOK, Session, SessionFollowsJournal, NoSession
  <2> QED
    BY <1>1, <1>2, <1>4, <2>1, <2>3 DEF IInv, SnapshotsAreStates, MissingIsEmpty,
      DoneIsRecorded, RequestsHaveKinds
<1> QED
  BY <1>3, <1>4 DEF Repair

\* The session remembers every edit in the journal.
LEMMA LoadIdempotencyKeeps ==
    ASSUME IInv, LoadIdempotency
    PROVE  IInv'
<1>1. /\ session.phase = "load"
      /\ UNCHANGED <<main, previous, journal, stamp, request, told, faults, crashes>>
  BY DEF LoadIdempotency, Files
<1>2. /\ RecordsAreChained' /\ StatesAreSound' /\ Count' = Count
      /\ \A i : At(i)' = At(i)
      /\ \A i : EditsOf(journal.lines, i)' = EditsOf(journal.lines, i)
  BY <1>1, LinesKept
<1>3. /\ ~session.failed /\ ~journal.torn /\ session.snap = At(Count) /\ session \in Session
  BY <1>1, SessionTyped DEF IInv, SessionFollowsJournal
<1>4. {r.edit : r \in Range(Scan(journal.lines))} = EditsOf(journal.lines, Count)
  <2>1. Scan(journal.lines) = journal.lines /\ DOMAIN journal.lines = 1 .. Count
    BY ScanIsAll DEF IInv, RecordsAreChained, Count
  <2> QED
    BY <2>1 DEF Range, EditsOf
<1>5. EditsOf(journal.lines, Count) \subseteq Edits
  BY EditsAreTyped DEF IInv, RecordsAreChained, Count
<1>6. /\ session'.phase = "idle" /\ session'.snap = session.snap
      /\ session'.failed = session.failed
      /\ session'.known = EditsOf(journal.lines, Count) /\ session' \in Session
  BY <1>3, <1>4, <1>5 DEF LoadIdempotency, Session
<1>7. TypeOK'
  BY <1>1, <1>6 DEF IInv, TypeOK, Session
<1>8. AtRest'
  BY <1>1, <1>2, <1>3, <1>6 DEF AtRest, UpTo
<1>9. MissingIsEmpty'
  BY <1>1 DEF IInv, MissingIsEmpty
<1> QED
  BY <1>1, <1>2, <1>6, <1>7, <1>8, <1>9 DEF IInv, SessionFollowsJournal, SnapshotsAreStates,
    DoneIsRecorded, RequestsHaveKinds

\* The process ends at any step.
LEMMA CrashKeeps ==
    ASSUME IInv, Crash
    PROVE  IInv'
<1>1. /\ session.phase # "closed" /\ session' = NoSession /\ crashes' \in 0 .. MaxCrashes
      /\ UNCHANGED <<main, previous, stamp, request, told, faults>>
  BY JournalAssumption DEF Crash, IInv, TypeOK
<1>2. /\ journal'.lines = journal.lines /\ journal'.exists = journal.exists
      /\ journal' \in [exists : BOOLEAN, torn : BOOLEAN, lines : Seq(Line)]
  BY DEF Crash, IInv, TypeOK, Line
<1>3. /\ RecordsAreChained' /\ StatesAreSound' /\ Count' = Count
      /\ \A i : At(i)' = At(i)
      /\ \A i : EditsOf(journal.lines, i)' = EditsOf(journal.lines, i)
  BY <1>2, LinesKept
<1>4. TypeOK' /\ SessionFollowsJournal'
  BY <1>1, <1>2, NoSessionIsTyped DEF IInv, TypeOK, Session, SessionFollowsJournal, NoSession, Line
<1>5. MissingIsEmpty'
  BY <1>1, <1>2 DEF IInv, MissingIsEmpty
<1> QED
  BY <1>1, <1>3, <1>4, <1>5 DEF IInv, SnapshotsAreStates, DoneIsRecorded, RequestsHaveKinds

-----------------------------------------------------------------------------
\* The invariant

\* The invariant holds of a machine without the project.
LEMMA InitIInv == Init => IInv
<1> SUFFICES ASSUME Init PROVE IInv
  OBVIOUS
<1>1. journal.lines = <<>> /\ ~journal.exists /\ Count = 0 /\ journal = NoJournal
  BY DEF Init, NoJournal, Count
<1>2. At(0) = Base /\ journal.lines \in Seq(Line)
  <2>1. journal.lines \in Seq(Line)
    BY <1>1
  <2> QED
    BY <2>1, StatesOfJournal DEF At
<1>3. TypeOK
  BY <1>1, NoSessionIsTyped, MissingIsTyped, JournalAssumption
  DEF Init, TypeOK, Session, NoJournal, NotAsked
<1>4. RecordsAreChained /\ StatesAreSound
  BY <1>1, <1>2, BaseIsSound DEF RecordsAreChained, StatesAreSound, Line
<1>5. SnapshotsAreStates /\ MissingIsEmpty /\ SessionFollowsJournal
  BY <1>1 DEF Init, SnapshotsAreStates, MissingIsEmpty, SessionFollowsJournal, NoSession
<1>6. RequestsHaveKinds /\ DoneIsRecorded
  BY DEF Init, RequestsHaveKinds, DoneIsRecorded
<1> QED
  BY <1>3, <1>4, <1>5, <1>6 DEF IInv

\* A step that changes nothing.
LEMMA StutterKeeps == IInv /\ UNCHANGED vars => IInv'
BY DEF IInv, vars, TypeOK, RequestsHaveKinds, RecordsAreChained, StatesAreSound,
  SnapshotsAreStates, MissingIsEmpty, SessionFollowsJournal, DoneIsRecorded, Count, At, UpTo,
  AtRest, Pending, AtCheckpoint, NextRecord, Accepts

\* The invariant is inductive.
LEMMA IInvStep ==
    ASSUME ~EditsAfterFailure
    PROVE  IInv /\ [Next]_vars => IInv'
BY InitializeKeeps, AskKeeps, ExecuteKeeps, WriteKeeps, SyncKeeps, CopyPreviousKeeps, PromoteKeeps,
  CheckpointFailsKeeps, CloseKeeps, OpenKeeps, RepairKeeps, LoadIdempotencyKeeps, CrashKeeps,
  StutterKeeps DEF Next

\* The invariant that the theorems rest on: the journal is a chain of records that could
\* each be made where they stand, both snapshot files hold states on it, and a session is
\* behind it by no more than the step it is at.
THEOREM Invariance ==
    ASSUME ~EditsAfterFailure
    PROVE  Spec => []IInv
BY InitIInv, IInvStep, PTL DEF Spec

\* Types.
THEOREM TypeCorrect ==
    ASSUME ~EditsAfterFailure
    PROVE  Spec => []TypeOK
<1>1. IInv => TypeOK
  BY DEF IInv
<1> QED
  BY <1>1, Invariance, PTL

\* The project opens again, whichever step the process ended in and whichever file
\* operations failed: recover finds a snapshot that the journal vouches for.
THEOREM RecoveryFindsASnapshot ==
    ASSUME ~EditsAfterFailure
    PROVE  Spec => []ProjectOpensAgain
<1>1. IInv => ProjectOpensAgain
  BY StatesReplay DEF IInv, SnapshotsAreStates, ProjectOpensAgain
<1> QED
  BY <1>1, Invariance, PTL

\* Whichever snapshot recover starts from, replay_record ends in the same state, which is
\* also the one that a session at rest shows.
THEOREM RecoveryIsUnambiguous ==
    ASSUME ~EditsAfterFailure
    PROVE  Spec => []ReplayIsUnambiguous
<1>1. ASSUME IInv
      PROVE  ReplayIsUnambiguous
  <2>1. Count \in Nat /\ At(0) = Base /\ Replayed(Base) = At(Count)
    <3>1. journal.lines \in Seq(Line) /\ Count \in Nat
      BY <1>1 DEF IInv, RecordsAreChained, Count, Line
    <3>2. At(0) = Base /\ 0 \in 0 .. Count
      BY <3>1, StatesOfJournal DEF At
    <3> QED
      BY <1>1, <3>1, <3>2, StatesReplay DEF IInv
  <2>2. ASSUME NEW s \in {main, previous}, Compatible(s)
        PROVE  Replayed(s) = At(Count)
    <3>1. PICK i \in 0 .. Count : s = At(i)
      BY <1>1, <2>2, MissingIsIncompatible DEF IInv, SnapshotsAreStates
    <3> QED
      BY <1>1, <3>1, StatesReplay DEF IInv
  <2>3. session.phase \in {"idle", "load"} /\ ~session.failed => session.snap = At(Count)
    BY <1>1 DEF IInv, SessionFollowsJournal, AtRest, UpTo
  <2> QED
    BY <2>1, <2>2, <2>3 DEF ReplayIsUnambiguous
<1> QED
  BY <1>1, Invariance, PTL

\* What a recovery finds is every record there is.
LEMMA RecordedIsScanned ==
    ASSUME IInv
    PROVE  Range(Scan(journal.lines)) = {journal.lines[k] : k \in 1 .. Count}
<1>1. Scan(journal.lines) = journal.lines /\ DOMAIN journal.lines = 1 .. Count
  BY ScanIsAll DEF IInv, RecordsAreChained, Count
<1> QED
  BY <1>1 DEF Range

\* An edit whose client was told that it is done is in the journal for good.
THEOREM AcknowledgedEditsSurvive ==
    ASSUME ~EditsAfterFailure
    PROVE  Spec => []AcknowledgedCommandsSurvive
<1>1. ASSUME IInv
      PROVE  AcknowledgedCommandsSurvive
  BY <1>1, RecordedIsScanned DEF IInv, DoneIsRecorded, EditsOf, AcknowledgedCommandsSurvive
<1> QED
  BY <1>1, Invariance, PTL

-----------------------------------------------------------------------------
\* The journal implements the log of edits

\* The log that ProjectJournal gives to EditLog, where no line is lost.
EditLogOf(lines) == [i \in 1 .. Len(lines) |-> lines[i].edit]

\* The same, as EditLog is instantiated with it.
Recorded == LET records == Scan(journal.lines)
            IN [i \in 1 .. Len(records) |-> records[i].edit]

\* The log that the journal implements is the edits of its records.
LEMMA RecordedIsAll ==
    ASSUME IInv
    PROVE  /\ Recorded = EditLogOf(journal.lines) /\ Recorded \in Seq(Edits)
           /\ Len(Recorded) = Count /\ Count \in Nat
           /\ Range(Recorded) = EditsOf(journal.lines, Count)
<1>1. Scan(journal.lines) = journal.lines /\ Count = Len(journal.lines) /\ Count \in Nat
  BY ScanIsAll DEF IInv, RecordsAreChained, Count
<1>2. \A i \in 1 .. Count : journal.lines[i].edit \in Edits
  BY DEF IInv, RecordsAreChained, Allowed
<1>3. Recorded = [i \in 1 .. Count |-> journal.lines[i].edit]
  BY <1>1 DEF Recorded
<1>4. Recorded \in Seq(Edits) /\ Len(Recorded) = Count
  BY <1>1, <1>2, <1>3
<1>5. Range(Recorded) = EditsOf(journal.lines, Count)
  BY <1>1, <1>3 DEF Range, EditsOf
<1> QED
  BY <1>1, <1>3, <1>4, <1>5 DEF EditLogOf

\* An empty journal is an empty log.
LEMMA LogInit == Init => Log!Init
<1> SUFFICES ASSUME Init PROVE Log!Init
  OBVIOUS
<1>1. Recorded = <<>>
  <2>1. IInv /\ Count = 0
    BY InitIInv DEF Init, NoJournal, Count
  <2>2. Recorded \in Seq(Edits) /\ Len(Recorded) = 0
    BY <2>1, RecordedIsAll
  <2> QED
    BY <2>2
<1> QED
  BY <1>1 DEF Init, Log!Init, Recorded, NotAsked, Log!NotAsked

\* A step that leaves the records alone is, for the log, a question, an answer or nothing.
LEMMA QuietStep ==
    ASSUME IInv, journal'.lines = journal.lines
    PROVE  Recorded' = Recorded
BY DEF Recorded

\* An answer is one the log gives.
LEMMA LogTells ==
    ASSUME IInv, Recorded' = Recorded, request' = request, NEW e \in Edits, request[e] # NotAsked,
           \/ e \in EditsOf(journal.lines, Count) /\ told' = [told EXCEPT ![e] = "Done"]
           \/ e \notin EditsOf(journal.lines, Count) /\ told' = [told EXCEPT ![e] = "Refused"]
           \/ told' = [told EXCEPT ![e] = "Error"]
    PROVE  Log!Next
<1>1. Log!Range(Recorded) = EditsOf(journal.lines, Count)
  BY RecordedIsAll DEF Log!Range, Range
<1>2. Log!Tell(e)
  BY <1>1 DEF Log!Tell, Recorded, NotAsked, Log!NotAsked
<1> QED
  BY <1>2 DEF Log!Next

\* A step that changes neither records, requests nor answers is none of the log.
LEMMA LogRests ==
    ASSUME Recorded' = Recorded, request' = request, told' = told
    PROVE  UNCHANGED Log!vars
BY DEF Log!vars, Recorded

\* The write of a record is where the log takes the edit.
LEMMA WriteIsApply ==
    ASSUME IInv, Write
    PROVE  [Log!Next]_Log!vars
<1>1. /\ session.phase = "write" /\ request' = request
      /\ UpTo(Count) /\ Pending /\ Accepts(session.snap, request[session.edit])
  BY DEF Write, IInv, SessionFollowsJournal
<1>2. CASE AppendFails /\ journal'.lines = journal.lines
  <2>1. told' = [told EXCEPT ![session.edit] = "Error"]
    BY <1>2 DEF AppendFails
  <2> QED
    BY <1>1, <1>2, <2>1, QuietStep, LogTells DEF Pending
<1>3. CASE journal'.lines = Append(journal.lines, NextRecord) /\ told' = told
  <2>0. PICK e \in Edits : e = session.edit
    BY <1>1 DEF Pending
  <2>1. /\ e \notin EditsOf(journal.lines, Count) /\ request[e] # NotAsked
        /\ request[e].base = Count /\ told[e] # "Refused"
    BY <1>1, <2>0 DEF UpTo, Pending, Accepts, IInv, StatesAreSound, RecordsAreChained, Count
  <2>2. /\ RecordsAreChained' /\ Count' = Count + 1 /\ Count \in Nat
        /\ journal'.lines[Count + 1] = NextRecord /\ NextRecord.edit = e
        /\ \A i \in 1 .. Count : journal'.lines[i] = journal.lines[i]
    <3>1. /\ RecordsAreChained' /\ Count' = Count + 1 /\ Count \in Nat
          /\ journal'.lines[Count + 1] = NextRecord /\ NextRecord.edit = e
      BY <1>1, <1>3, <2>0, RecordWritten, NextRecordFits DEF IInv, RecordsAreChained, Count
    <3>2. NextRecord \in Line /\ journal.lines \in Seq(Line)
      BY <1>1, NextRecordFits DEF IInv, RecordsAreChained, Line
    <3>3. ASSUME NEW rec \in Line
          PROVE  \A i \in 1 .. Count : Append(journal.lines, rec)[i] = journal.lines[i]
      BY <3>1, <3>2 DEF Count
    <3> QED
      BY <1>3, <3>1, <3>2, <3>3
  <2>3. Recorded = EditLogOf(journal.lines) /\ Recorded \in Seq(Edits) /\ Len(Recorded) = Count
    BY RecordedIsAll
  <2>4. Recorded' = EditLogOf(journal'.lines)
    <3>1. journal'.lines \in Seq(Line) /\ \A i \in 1 .. Len(journal'.lines) : IsRecord(journal'.lines, i)
      BY <2>2 DEF RecordsAreChained, Count, Line
    <3>2. Scan(journal'.lines) = journal'.lines
      BY <3>1, ScanOfChain
    <3> QED
      BY <3>2 DEF Recorded, EditLogOf
  <2>5. Recorded' = Append(Recorded, e)
    <3>1. Recorded' = [i \in 1 .. Count + 1 |-> journal'.lines[i].edit]
      BY <2>2, <2>4 DEF EditLogOf, Count
    <3>2. Recorded = [i \in 1 .. Count |-> journal.lines[i].edit]
      BY <2>3 DEF EditLogOf, Count
    <3>3. \A i \in 1 .. Count + 1 :
             journal'.lines[i].edit = IF i = Count + 1 THEN e ELSE Recorded[i]
      BY <2>2, <3>2
    <3> QED
      BY <2>1, <2>2, <2>3, <3>1, <3>2, <3>3
  <2>6. Log!Range(Recorded) = EditsOf(journal.lines, Count)
    BY RecordedIsAll DEF Log!Range, Range
  <2>7. Log!Apply(e)
    BY <1>1, <1>3, <2>1, <2>3, <2>5, <2>6 DEF Log!Apply, Recorded, NotAsked, Log!NotAsked
  <2>8. Log!Next
    BY <2>7 DEF Log!Next
  <2> QED
    BY <2>8
<1>4. \/ AppendFails /\ journal'.lines = journal.lines
      \/ journal'.lines = Append(journal.lines, NextRecord) /\ told' = told
  BY <1>1 DEF Write, IInv, TypeOK, UpTo
<1> QED
  BY <1>2, <1>3, <1>4

\* A request to the session is one to the log.
LEMMA AskIsAsk ==
    ASSUME IInv, NEW e \in Edits, NEW kind \in Kinds, Ask(e, kind)
    PROVE  Log!Next
<1>1. \E i \in 0 .. Count : session.snap = At(i)
  <2>1. Count \in Nat /\ Count \in 0 .. Count
    BY DEF IInv, RecordsAreChained, Count
  <2> QED
    BY <2>1 DEF Ask, IInv, SessionFollowsJournal, AtRest, UpTo
<1>2. session.snap.number \in 0 .. Count
  BY <1>1 DEF IInv, StatesAreSound
<1>3. Recorded' = Recorded /\ Len(Recorded) = Count
  BY RecordedIsAll, QuietStep DEF Ask, Files
<1>4. Log!Ask(e)
  BY <1>2, <1>3 DEF Ask, Log!Ask, Recorded, NotAsked, Log!NotAsked, Kinds, Log!Kinds, Files
<1> QED
  BY <1>4 DEF Log!Next

\* A retry is answered, and a stale command refused, as the log does.
LEMMA ExecuteIsTell ==
    ASSUME IInv, ~EditsAfterFailure, NEW e \in Edits, Execute(e)
    PROVE  [Log!Next]_Log!vars
<1>1. /\ session.phase = "idle" /\ request[e] # NotAsked /\ request' = request
      /\ Recorded' = Recorded
  BY QuietStep DEF Execute, Files
<1>2. session.known = EditsOf(journal.lines, Count)
  BY <1>1 DEF Execute, IInv, SessionFollowsJournal, AtRest, UpTo
<1>3. \/ e \in EditsOf(journal.lines, Count) /\ told' = [told EXCEPT ![e] = "Done"]
      \/ e \notin EditsOf(journal.lines, Count) /\ told' = [told EXCEPT ![e] = "Refused"]
      \/ told' = told
  BY <1>2 DEF Execute
<1> QED
  BY <1>1, <1>3, LogTells, LogRests

\* An edit is only answered once it is in the log, and may be reported as failed then, too.
LEMMA SyncIsTell ==
    ASSUME IInv, Sync
    PROVE  [Log!Next]_Log!vars
<1>1. /\ session.phase = "sync" /\ request' = request /\ Recorded' = Recorded
  BY QuietStep DEF Sync, Files
<1>2. Pending /\ Count > 0 /\ journal.lines[Count].edit = session.edit
  BY <1>1 DEF IInv, SessionFollowsJournal, NextRecord
<1>3. session.edit \in EditsOf(journal.lines, Count)
  BY <1>2 DEF EditsOf, IInv, RecordsAreChained, Count
<1>4. \/ told' = [told EXCEPT ![session.edit] = "Done"]
      \/ told' = [told EXCEPT ![session.edit] = "Error"]
      \/ told' = told
  BY DEF Sync, Answer, AppendFails
<1> QED
  BY <1>1, <1>2, <1>3, <1>4, LogTells, LogRests DEF Pending

\* A checkpoint answers the edit it follows.
LEMMA CheckpointIsTell ==
    ASSUME IInv, Promote \/ CheckpointFails
    PROVE  [Log!Next]_Log!vars
<1>1. /\ session.phase \in {"checkpoint", "promote"} /\ request' = request
      /\ \E ok \in BOOLEAN : CheckpointEnds(ok)
  BY DEF Promote, CheckpointFails
<1>2. AtCheckpoint
  BY <1>1, CheckpointType
<1>3. Recorded' = Recorded
  <2>1. journal'.lines = journal.lines
    <3>1. session.purpose = "init" => journal.lines = <<>>
      BY <1>2 DEF AtCheckpoint, Count, IInv, RecordsAreChained
    <3>2. CASE Promote
      BY <3>2 DEF Promote
    <3>3. CASE CheckpointFails /\ session.purpose = "init"
      BY <3>1, <3>3 DEF CheckpointFails, NoJournal
    <3>4. CASE CheckpointFails /\ session.purpose # "init"
      BY <3>4 DEF CheckpointFails
    <3> QED
      BY <3>2, <3>3, <3>4
  <2> QED
    BY <2>1, QuietStep
<1>4. CASE session.purpose = "edit"
  <2>1. Pending /\ session.edit \in EditsOf(journal.lines, Count)
    BY <1>2, <1>4 DEF AtCheckpoint, EditsOf, IInv, RecordsAreChained, Count
  <2>2. told' = [told EXCEPT ![session.edit] = "Done"]
    BY <1>1, <1>4 DEF CheckpointEnds, Answer
  <2> QED
    BY <1>1, <1>3, <2>1, <2>2, LogTells DEF Pending
<1>5. CASE session.purpose # "edit"
  <2>1. told' = told
    BY <1>1, <1>5 DEF CheckpointEnds
  <2> QED
    BY <1>1, <1>3, <2>1, LogRests
<1> QED
  BY <1>4, <1>5

\* Everything else is invisible to the log.
LEMMA OtherStepsRest ==
    ASSUME IInv,
           \/ Initialize \/ CopyPrevious \/ Close \/ Open \/ Repair \/ LoadIdempotency \/ Crash
           \/ UNCHANGED vars
    PROVE  UNCHANGED Log!vars
<1>1. request' = request /\ told' = told
  BY DEF Initialize, CopyPrevious, Close, Open, Repair, LoadIdempotency, Crash, vars
<1>2. journal'.lines = journal.lines
  <2>1. CASE Initialize
    BY <2>1 DEF Initialize, IInv, MissingIsEmpty, NoJournal
  <2>2. CASE Repair
    BY <2>2, ScanIsAll DEF Repair, IInv, TypeOK
  <2>3. CASE Crash
    BY <2>3 DEF Crash, IInv, TypeOK
  <2>4. CASE CopyPrevious \/ Close \/ Open \/ LoadIdempotency \/ UNCHANGED vars
    BY <2>4 DEF CopyPrevious, Close, Open, LoadIdempotency, vars, Files
  <2> QED
    BY <2>1, <2>2, <2>3, <2>4
<1> QED
  BY <1>1, <1>2, QuietStep, LogRests

\* Every step is a step of the log, or none.
LEMMA LogStep ==
    ASSUME ~EditsAfterFailure
    PROVE  IInv /\ [Next]_vars => [Log!Next]_Log!vars
BY WriteIsApply, AskIsAsk, ExecuteIsTell, SyncIsTell, CheckpointIsTell, OtherStepsRest DEF Next

\* The journal, with its snapshots, crashes, failures and recoveries, is a durable log of
\* edits: every step of it adds one edit that was asked for on the newest revision, answers
\* a client truthfully, or changes nothing that a client can see.
THEOREM Refinement ==
    ASSUME ~EditsAfterFailure
    PROVE  Spec => ImplementsEditLog
<1>1. Init => Log!Init
  BY LogInit
<1>2. IInv /\ [Next]_vars => [Log!Next]_Log!vars
  BY LogStep
<1> QED
  BY <1>1, <1>2, Invariance, PTL DEF Spec, ImplementsEditLog, Log!Spec

=============================================================================
