------------------------ MODULE MediaJobStoreProofs ------------------------
\* Theorems about the job table.  Every transaction computes new rows, commits
\* them less what retention and cascades delete, and announces the rows it wrote:
\* one lemma shows that of each transaction, and the theorems follow from
\* what the rows of such a step look like.
EXTENDS MediaJobStore, TLAPS

\* Of a row that is not there no event is left.
NothingOfMissingRows ==
    \A j \in Jobs : jobs[j].state \in Missing => latest[j] = "Absent" /\ settlements[j] = 0

\* The inductive invariant.
IInv ==
    /\ TypeOK
    /\ UniqueUnsettledKey
    /\ EventsMirrorRecord
    /\ OneTerminalEvent
    /\ CancelledOnlyIfRequested
    /\ NoOrphanRow
    /\ NothingOfMissingRows

\* What a transaction may make of a row.
RowStep(old, new, max) ==
    /\ new \in Row
    /\ new.attempt <= max
    /\ new.state = "Cancelled" => new.cancel
    /\ old.state \in Missing /\ new.state \notin Missing => new.state = "Queued"
    /\ old.state \notin Missing => new.state \notin Missing

\* What a row that is announced may have been, and be.
Written(old, new) ==
    /\ new.state \notin Missing
    /\ new.state \in Terminal => old.state \in Unsettled
    /\ old.state \notin {"Cancelled", "Complete"}

\* What a row that is not announced may become: its payload is replaced, at most.
Unannounced(old, new) == new = [old EXCEPT !.ready = new.ready]

\* Two unsettled rows with one key were both unsettled before.
NoNewRival(rows) ==
    \A i, j \in Jobs :
        (i # j /\ Key[i] = Key[j] /\ rows[i].state \in Unsettled /\ rows[j].state \in Unsettled)
            => jobs[i].state \in Unsettled /\ jobs[j].state \in Unsettled

\* A row newly cancelled has no unsettled child.
BottomUp(rows) ==
    \A j \in Jobs : (jobs[j].state # "Cancelled" /\ rows[j].state = "Cancelled") =>
        \A c \in Children(j) : rows[c].state \notin Unsettled

\* The rows a transaction computes, before anything is deleted.
Computed(rows, written) ==
    /\ rows \in [Jobs -> Row]
    /\ written \subseteq Jobs
    /\ \A j \in Jobs : RowStep(jobs[j], rows[j], MaxAttempts[j])
    /\ \A j \in written : Written(jobs[j], rows[j])
    /\ \A j \in Jobs \ written : Unannounced(jobs[j], rows[j])
    /\ NoNewRival(rows)
    /\ BottomUp(rows)
    /\ \A j \in Jobs : (rows[j].state \notin Missing /\ Parent[j] # NoJob)
           => rows[Parent[j]].state \notin Missing

\* A transaction.
Step(rows, written) ==
    /\ Computed(rows, written)
    /\ \A j \in Jobs : jobs'[j] = rows[j] \/ jobs'[j] = Deleted
    /\ jobs' \in [Jobs -> Row]
    /\ NoOrphanRow'
    /\ Announce(written)

-----------------------------------------------------------------------------
\* A row that is not there counts no attempt.
LEMMA MissingRows ==
    ASSUME NEW j \in Jobs
    PROVE  NoRow \in Row /\ Deleted \in Row /\ 0 \in Attempts
<1>1. MaxAttempts[j] \in Nat
  BY JobAssumption
<1>2. 0 \in 0 .. MaxAttempts[j]
  BY <1>1
<1>3. 0 \in Attempts
  BY <1>2 DEF Attempts
<1> QED
  BY <1>3 DEF NoRow, Deleted, Row, Missing

\* Deleting rows deletes their children with them, so no orphan is left.
LEMMA WithoutFacts ==
    ASSUME NEW rows \in [Jobs -> Row], NEW doomed \in SUBSET Jobs,
           jobs' = Without(rows, doomed),
           \A j \in Jobs : (rows[j].state \notin Missing /\ Parent[j] # NoJob)
               => rows[Parent[j]].state \notin Missing
    PROVE  /\ \A j \in Jobs : jobs'[j] = rows[j] \/ jobs'[j] = Deleted
           /\ jobs' \in [Jobs -> Row]
           /\ NoOrphanRow'
<1>1. \A j \in Jobs : jobs'[j] = rows[j] \/ jobs'[j] = Deleted
  BY DEF Without
<1>2. jobs' \in [Jobs -> Row]
  BY MissingRows DEF Without
<1>3. NoOrphanRow'
  <2> SUFFICES ASSUME NEW j \in Jobs, jobs'[j].state \notin Missing, Parent[j] # NoJob
               PROVE  jobs'[Parent[j]].state \notin Missing
    BY JobAssumption DEF NoOrphanRow, Present
  <2>1. Parent[j] \in Jobs /\ Parent[Parent[j]] = NoJob /\ NoJob \notin doomed
    BY JobAssumption
  <2>2. rows[j].state \notin Missing /\ Parent[j] \notin doomed
    BY DEF Without, Deleted, NoRow, Missing
  <2>3. rows[Parent[j]].state \notin Missing
    BY <2>2
  <2>4. jobs'[Parent[j]] = rows[Parent[j]]
    BY <2>1, <2>2 DEF Without
  <2> QED
    BY <2>3, <2>4
<1> QED
  BY <1>1, <1>2, <1>3

\* A commit is a transaction of the rows it commits.
LEMMA CommitIsStep ==
    ASSUME NEW rows, NEW written, Computed(rows, written), Commit(rows, written)
    PROVE  Step(rows, written)
<1>1. PICK doomed \in SUBSET Jobs : jobs' = Without(rows, doomed) /\ Announce(written)
  BY DEF Commit, Excess, Settled
<1> QED
  BY <1>1, WithoutFacts DEF Step, Computed

\* So is a transaction that deletes nothing.
LEMMA WriteIsStep ==
    ASSUME NEW rows, NEW written, Computed(rows, written), jobs' = rows, Announce(written)
    PROVE  Step(rows, written)
<1>1. NoOrphanRow'
  BY JobAssumption DEF NoOrphanRow, Present, Computed
<1> QED
  BY <1>1 DEF Step, Computed

\* A row the transaction leaves alone.
LEMMA RowKept ==
    ASSUME IInv, NEW j \in Jobs
    PROVE  jobs[j] \in Row /\ RowStep(jobs[j], jobs[j], MaxAttempts[j])
BY DEF IInv, TypeOK, CancelledOnlyIfRequested, Present, RowStep, Missing

\* A row that is left alone is not announced, and one that is not announced keeps
\* its state.
LEMMA UnannouncedFacts ==
    ASSUME NEW old \in Row
    PROVE  /\ Unannounced(old, old)
           /\ \A ready \in BOOLEAN : Unannounced(old, [old EXCEPT !.ready = ready])
           /\ \A new : Unannounced(old, new) => new.state = old.state
<1>1. Unannounced(old, old)
  BY DEF Unannounced, Row
<1>2. ASSUME NEW ready \in BOOLEAN
      PROVE  Unannounced(old, [old EXCEPT !.ready = ready])
  BY DEF Unannounced, Row
<1>3. ASSUME NEW new, Unannounced(old, new)
      PROVE  new.state = old.state
  <2>1. PICK ready : new = [old EXCEPT !.ready = ready]
    BY <1>3 DEF Unannounced
  <2> QED
    BY <2>1 DEF Row
<1> QED
  BY <1>1, <1>2, <1>3

\* Nothing computed is nothing wrong.
LEMMA NothingComputed ==
    ASSUME IInv
    PROVE  Computed(jobs, {})
<1>1. jobs \in [Jobs -> Row]
  BY DEF IInv, TypeOK
<1>2. \A j \in Jobs : (jobs[j].state \notin Missing /\ Parent[j] # NoJob)
          => jobs[Parent[j]].state \notin Missing
  BY DEF IInv, NoOrphanRow, Present
<1>3. \A j \in Jobs : Unannounced(jobs[j], jobs[j])
  BY <1>1, UnannouncedFacts
<1>4. \A j \in Jobs : RowStep(jobs[j], jobs[j], MaxAttempts[j])
  BY RowKept
<1> QED
  BY <1>1, <1>2, <1>3, <1>4 DEF Computed, NoNewRival, BottomUp

-----------------------------------------------------------------------------
\* One row written anew, the others left alone: what has to be shown of it.
LEMMA OneRowComputed ==
    ASSUME IInv, NEW j \in Jobs, NEW new,
           RowStep(jobs[j], new, MaxAttempts[j]),
           Written(jobs[j], new),
           new.state # "Cancelled",
           new.state \in Unsettled =>
               \A d \in Jobs \ {j} : Key[d] = Key[j] => jobs[d].state \notin Unsettled,
           (new.state \notin Missing /\ Parent[j] # NoJob) => jobs[Parent[j]].state \notin Missing
    PROVE  Computed([jobs EXCEPT ![j] = new], {j})
<1> DEFINE rows == [jobs EXCEPT ![j] = new]
<1>1. jobs \in [Jobs -> Row]
  BY DEF IInv, TypeOK
<1>2. /\ rows \in [Jobs -> Row]
      /\ rows[j] = new
      /\ \A k \in Jobs \ {j} : rows[k] = jobs[k]
  BY <1>1 DEF RowStep
<1>3. \A k \in Jobs : RowStep(jobs[k], rows[k], MaxAttempts[k])
  BY <1>2, RowKept
<1>4. NoNewRival(rows)
  BY <1>2 DEF NoNewRival
<1>5. BottomUp(rows)
  BY <1>2 DEF BottomUp
<1>6. \A k \in Jobs : (rows[k].state \notin Missing /\ Parent[k] # NoJob)
          => rows[Parent[k]].state \notin Missing
  BY <1>2, JobAssumption DEF IInv, NoOrphanRow, Present, Written
<1>7. \A k \in Jobs \ {j} : Unannounced(jobs[k], rows[k])
  BY <1>1, <1>2, UnannouncedFacts
<1> HIDE DEF rows
<1>8. Computed(rows, {j})
  BY <1>2, <1>3, <1>4, <1>5, <1>6, <1>7 DEF Computed
<1> QED
  BY <1>8 DEF rows

\* A request for new work.
LEMMA EnqueueIsStep ==
    ASSUME IInv, NEW j \in Jobs, NEW ready \in BOOLEAN, Enqueue(j, ready)
    PROVE  \E rows, written : Step(rows, written)
<1> DEFINE new == [state |-> "Queued", cancel |-> FALSE, attempt |-> 0, ready |-> ready]
<1>1. RowStep(jobs[j], new, MaxAttempts[j]) /\ Written(jobs[j], new)
  BY MissingRows, JobAssumption
     DEF Enqueue, RowStep, Written, Row, States, Unsettled, Terminal, Missing
<1>2. \A d \in Jobs \ {j} : Key[d] = Key[j] => jobs[d].state \notin Unsettled
  BY DEF Enqueue, Duplicates
<1>3. Parent[j] # NoJob => jobs[Parent[j]].state \notin Missing
  BY DEF Enqueue
<1>4. Computed([jobs EXCEPT ![j] = new], {j})
  BY <1>1, <1>2, <1>3, OneRowComputed
<1> QED
  BY <1>4, WriteIsStep DEF Enqueue

\* A transition, and a reauthorization, rewrite one row and enforce the retention.
LEMMA TransitionIsStep ==
    ASSUME IInv, NEW j \in Jobs, NEW to \in States, NEW attempt \in Attempts,
           NEW flag \in BOOLEAN, Transition(j, to, attempt, flag)
    PROVE  \E rows, written : Step(rows, written)
<1> DEFINE new == Transitioned(jobs[j], to, attempt, flag)
<1>1. jobs[j] \in Row /\ jobs \in [Jobs -> Row]
  BY DEF IInv, TypeOK
<1>2. /\ new \in Row
      /\ new.state = to
      /\ new.attempt = attempt
  BY <1>1 DEF Transitioned, Row
<1>3. /\ to # "Cancelled"
      /\ TransitionAllowed(jobs[j], to, attempt, MaxAttempts[j])
  BY DEF Transition
<1>4. RowStep(jobs[j], new, MaxAttempts[j]) /\ Written(jobs[j], new)
  BY <1>1, <1>2, <1>3
     DEF TransitionAllowed, Reactivation, RowStep, Written, Row, States, Terminal, Unsettled, Missing
<1>5. new.state \in Unsettled =>
          \A d \in Jobs \ {j} : Key[d] = Key[j] => jobs[d].state \notin Unsettled
  BY <1>1, <1>2 DEF Transition, IndexAllows
<1>6. Parent[j] # NoJob => jobs[Parent[j]].state \notin Missing
  BY <1>3, JobAssumption DEF IInv, NoOrphanRow, Present, TransitionAllowed
<1>7. Computed([jobs EXCEPT ![j] = new], {j})
  BY <1>2, <1>3, <1>4, <1>5, <1>6, OneRowComputed
<1> QED
  BY <1>7, CommitIsStep DEF Transition

\* The reauthorization of a blocked export.
LEMMA RefreshIsStep ==
    ASSUME IInv, NEW j \in Jobs, Refresh(j)
    PROVE  \E rows, written : Step(rows, written)
<1> DEFINE new == Refreshed(jobs[j])
<1>1. jobs[j] \in Row /\ jobs[j].state = "Blocked"
  BY DEF IInv, TypeOK, Refresh
<1>2. RowStep(jobs[j], new, MaxAttempts[j]) /\ Written(jobs[j], new) /\ new.state = "Queued"
  BY <1>1, RowKept
     DEF Refreshed, RowStep, Written, Row, States, Terminal, Unsettled, Missing
<1>3. \A d \in Jobs \ {j} : Key[d] = Key[j] => jobs[d].state \notin Unsettled
  BY <1>1 DEF IInv, UniqueUnsettledKey, Open, Unsettled
<1>4. Parent[j] # NoJob => jobs[Parent[j]].state \notin Missing
  BY <1>1, JobAssumption DEF IInv, NoOrphanRow, Present, Missing
<1>5. Computed([jobs EXCEPT ![j] = new], {j})
  BY <1>2, <1>3, <1>4, OneRowComputed
<1> QED
  BY <1>5, CommitIsStep DEF Refresh

\* Progress is announced, and changes no column that matters here.
LEMMA ProgressIsStep ==
    ASSUME IInv, NEW j \in Jobs, RecordProgress(j)
    PROVE  \E rows, written : Step(rows, written)
<1>1. Computed(jobs, {j})
  <2>1. Written(jobs[j], jobs[j])
    BY DEF RecordProgress, Written, Unsettled, Terminal, Missing
  <2> QED
    BY <2>1, NothingComputed DEF Computed
<1> QED
  BY <1>1, CommitIsStep DEF RecordProgress

\* Recovery rewrites every interrupted row.
LEMMA RecoverIsStep ==
    ASSUME IInv, Recover
    PROVE  \E rows, written : Step(rows, written)
<1> DEFINE rows == [j \in Jobs |-> Recovered(jobs[j], Kind[j])]
           written == {j \in Jobs : Interrupted(jobs[j], Kind[j])}
<1>1. ASSUME NEW j \in Jobs
      PROVE  /\ RowStep(jobs[j], Recovered(jobs[j], Kind[j]), MaxAttempts[j])
             /\ Interrupted(jobs[j], Kind[j]) =>
                    /\ Written(jobs[j], Recovered(jobs[j], Kind[j]))
                    /\ jobs[j].state \in Unsettled
                    /\ Recovered(jobs[j], Kind[j]).state \in Unsettled
             /\ ~Interrupted(jobs[j], Kind[j]) => Recovered(jobs[j], Kind[j]) = jobs[j]
  BY RowKept
     DEF Recovered, Interrupted, RowStep, Written, Row, States, Terminal, Unsettled, Missing
<1>2. rows \in [Jobs -> Row] /\ \A j \in Jobs : rows[j] = Recovered(jobs[j], Kind[j])
  BY <1>1 DEF RowStep
<1>3. NoNewRival(rows)
  BY <1>1, <1>2 DEF NoNewRival
<1>4. BottomUp(rows)
  BY <1>1, <1>2 DEF BottomUp, Unsettled
<1>5. \A j \in Jobs : (rows[j].state \notin Missing /\ Parent[j] # NoJob)
          => rows[Parent[j]].state \notin Missing
  BY <1>1, <1>2, JobAssumption DEF IInv, NoOrphanRow, Present, RowStep, Unsettled, Missing
<1>6. \A j \in Jobs \ written : Unannounced(jobs[j], rows[j])
  BY <1>1, <1>2, RowKept, UnannouncedFacts
<1>7. Computed(rows, written)
  BY <1>1, <1>2, <1>3, <1>4, <1>5, <1>6 DEF Computed
<1> QED
  BY <1>7, CommitIsStep DEF Recover

\* A cancellation request flags rows and moves none.
LEMMA RequestIsStep ==
    ASSUME IInv, NEW family \in SUBSET Jobs, RequestCancellations(family)
    PROVE  \E rows, written : Step(rows, written)
<1> DEFINE written == {j \in family : jobs'[j] # jobs[j]}
<1>1. ASSUME NEW j \in Jobs
      PROVE  /\ RowStep(jobs[j], jobs'[j], MaxAttempts[j])
             /\ jobs'[j].state = jobs[j].state
             /\ jobs'[j] # jobs[j] => Written(jobs[j], jobs'[j])
  <2>1. jobs'[j] = IF j \in family THEN CancelRequested(jobs[j]) ELSE jobs[j]
    BY DEF RequestCancellations
  <2> QED
    BY <2>1, RowKept
       DEF CancelRequested, RowStep, Written, Row, States, Terminal, Unsettled, Missing
<1>2. jobs' \in [Jobs -> Row]
  <2>1. jobs' = [j \in Jobs |-> IF j \in family THEN CancelRequested(jobs[j]) ELSE jobs[j]]
    BY DEF RequestCancellations
  <2> QED
    BY <1>1, <2>1 DEF RowStep
<1>3. NoNewRival(jobs') /\ BottomUp(jobs')
  BY <1>1 DEF NoNewRival, BottomUp
<1>4. \A j \in Jobs : (jobs'[j].state \notin Missing /\ Parent[j] # NoJob)
          => jobs'[Parent[j]].state \notin Missing
  BY <1>1, JobAssumption DEF IInv, NoOrphanRow, Present
<1>5. \A j \in Jobs \ written : Unannounced(jobs[j], jobs'[j])
  <2>1. \A j \in Jobs \ written : jobs'[j] = jobs[j]
    BY DEF RequestCancellations
  <2> QED
    BY <2>1, RowKept, UnannouncedFacts
<1>6. Computed(jobs', written)
  BY <1>1, <1>2, <1>3, <1>4, <1>5 DEF Computed
<1> QED
  BY <1>6, WriteIsStep DEF RequestCancellations

\* A child is never a parent.
LEMMA ParentsHaveNoParent ==
    ASSUME NEW j \in Jobs, Parent[j] # NoJob
    PROVE  Parent[j] \in Jobs /\ Parent[Parent[j]] = NoJob /\ Parent[j] # j
BY JobAssumption

\* What settling one row does to it, and that nothing below it is unsettled then.
LEMMA SettleFacts ==
    ASSUME NEW rows \in [Jobs -> Row], NEW j \in Jobs \cup {NoJob}, NEW owned
    PROVE  /\ Settle(rows, j, owned) \in [Jobs -> Row]
           /\ \A k \in Jobs :
                  \/ Settle(rows, j, owned)[k] = rows[k]
                  \/ /\ k = j
                     /\ rows[k].state \in Unsettled
                     /\ rows[k].cancel
                     /\ Settle(rows, j, owned)[k] = Reconciled(rows[k])
                     /\ \A c \in Children(k) : rows[c].state \notin Unsettled
<1>1. CASE j # NoJob /\ Reconcilable(rows, j, Children(j), owned)
  <2>1. j \in Jobs
    BY <1>1
  <2>2. /\ rows[j].state \in Unsettled
        /\ rows[j].cancel
        /\ \A c \in Children(j) : rows[c].state \notin Unsettled
    BY <1>1 DEF Reconcilable
  <2>3. Settle(rows, j, owned) = [rows EXCEPT ![j] = Reconciled(rows[j])]
    BY <1>1 DEF Settle
  <2>4. Reconciled(rows[j]) \in Row
    BY <2>1 DEF Reconciled, Row, States, Terminal
  <2> QED
    BY <2>1, <2>2, <2>3, <2>4
<1>2. CASE ~(j # NoJob /\ Reconcilable(rows, j, Children(j), owned))
  <2>1. Settle(rows, j, owned) = rows
    BY <1>2 DEF Settle
  <2> QED
    BY <2>1
<1> QED
  BY <1>1, <1>2

\* A reconciliation cancels a requested job and then, perhaps, its parent.
LEMMA ReconcileIsStep ==
    ASSUME IInv, NEW j \in Jobs, NEW owned \in SUBSET Jobs, ReconcileCancellation(j, owned)
    PROVE  \E rows, written : Step(rows, written)
<1> DEFINE first == Settle(jobs, j, owned)
           written == {k \in Jobs : jobs'[k] # jobs[k]}
<1>0. jobs \in [Jobs -> Row]
  BY DEF IInv, TypeOK
<1>1. /\ first \in [Jobs -> Row]
      /\ \A k \in Jobs :
             \/ first[k] = jobs[k]
             \/ /\ k = j
                /\ jobs[k].state \in Unsettled
                /\ jobs[k].cancel
                /\ first[k] = Reconciled(jobs[k])
                /\ \A c \in Children(k) : jobs[c].state \notin Unsettled
  BY <1>0, SettleFacts
<1>2. jobs' = Settle(first, Parent[j], owned)
  BY DEF ReconcileCancellation
<1> HIDE DEF first
<1>p. Parent[j] \in Jobs \cup {NoJob}
  BY JobAssumption
<1>3. /\ jobs' \in [Jobs -> Row]
      /\ \A k \in Jobs :
             \/ jobs'[k] = first[k]
             \/ /\ k = Parent[j]
                /\ first[k].state \in Unsettled
                /\ first[k].cancel
                /\ jobs'[k] = Reconciled(first[k])
                /\ \A c \in Children(k) : first[c].state \notin Unsettled
  <2>1. PICK second \in [Jobs -> Row] :
            /\ second = Settle(first, Parent[j], owned)
            /\ \A k \in Jobs :
                   \/ second[k] = first[k]
                   \/ /\ k = Parent[j]
                      /\ first[k].state \in Unsettled
                      /\ first[k].cancel
                      /\ second[k] = Reconciled(first[k])
                      /\ \A c \in Children(k) : first[c].state \notin Unsettled
    BY <1>1, <1>p, SettleFacts
  <2>2. jobs' = second
    BY <1>2, <2>1
  <2> QED
    BY <2>1, <2>2
<1>4. ASSUME NEW k \in Jobs
      PROVE  \/ jobs'[k] = jobs[k]
             \/ /\ jobs[k].state \in Unsettled
                /\ jobs[k].cancel
                /\ jobs'[k] = Reconciled(jobs[k])
  <2>1. Parent[j] # j \/ k # j
    BY ParentsHaveNoParent, JobAssumption
  <2> QED
    BY <1>1, <1>3, <2>1
<1>5. ASSUME NEW k \in Jobs
      PROVE  /\ RowStep(jobs[k], jobs'[k], MaxAttempts[k])
             /\ jobs'[k] # jobs[k] => Written(jobs[k], jobs'[k])
             /\ jobs'[k].state \in Unsettled => jobs[k].state \in Unsettled
  BY <1>3, <1>4, RowKept
     DEF Reconciled, RowStep, Written, Row, States, Terminal, Unsettled, Missing
<1>6. NoNewRival(jobs')
  BY <1>5 DEF NoNewRival
<1>7. BottomUp(jobs')
  <2> SUFFICES ASSUME NEW k \in Jobs, jobs[k].state # "Cancelled", jobs'[k].state = "Cancelled",
                      NEW c \in Children(k)
               PROVE  jobs'[c].state \notin Unsettled
    BY DEF BottomUp
  <2>1. c \in Jobs /\ Parent[c] = k
    BY DEF Children
  <2>2. CASE first[k] # jobs[k]
    BY <1>1, <1>5, <2>1, <2>2
  <2>3. CASE first[k] = jobs[k]
    <3>1. first[c].state \notin Unsettled
      BY <1>3, <2>3
    <3>2. jobs'[c] = first[c] \/ jobs'[c] = Reconciled(first[c])
      BY <1>3, <2>1
    <3> QED
      BY <1>3, <2>1, <3>1, <3>2
  <2> QED
    BY <2>2, <2>3
<1>8. \A k \in Jobs : (jobs'[k].state \notin Missing /\ Parent[k] # NoJob)
          => jobs'[Parent[k]].state \notin Missing
  <2>1. \A k \in Jobs : jobs'[k].state \notin Missing <=> jobs[k].state \notin Missing
    BY <1>4, <1>5 DEF RowStep, Unsettled, Missing
  <2> QED
    BY <2>1, JobAssumption DEF IInv, NoOrphanRow, Present
<1>9. \A k \in Jobs \ written : Unannounced(jobs[k], jobs'[k])
  BY RowKept, UnannouncedFacts
<1>10. Computed(jobs', written)
  BY <1>3, <1>5, <1>6, <1>7, <1>8, <1>9 DEF Computed
<1> QED
  BY <1>10, WriteIsStep DEF ReconcileCancellation

\* The payload is replaced without an event.
LEMMA ReplaceIsStep ==
    ASSUME IInv, NEW j \in Jobs, NEW ready \in BOOLEAN, ReplacePayload(j, ready)
    PROVE  \E rows, written : Step(rows, written)
<1>1. ASSUME NEW k \in Jobs
      PROVE  /\ RowStep(jobs[k], jobs'[k], MaxAttempts[k])
             /\ jobs'[k].state = jobs[k].state
             /\ Unannounced(jobs[k], jobs'[k])
  <2>1. jobs'[k] = jobs[k] \/ jobs'[k] = [jobs[k] EXCEPT !.ready = ready]
    BY DEF ReplacePayload, IInv, TypeOK
  <2>2. Unannounced(jobs[k], jobs'[k])
    BY <2>1, RowKept, UnannouncedFacts
  <2> QED
    BY <2>1, <2>2, RowKept DEF RowStep, Row
<1>2. jobs' \in [Jobs -> Row]
  <2>1. jobs' = [jobs EXCEPT ![j].ready = ready] /\ jobs \in [Jobs -> Row]
    BY DEF ReplacePayload, IInv, TypeOK
  <2> QED
    BY <1>1, <2>1 DEF RowStep
<1>3. NoNewRival(jobs') /\ BottomUp(jobs')
  BY <1>1 DEF NoNewRival, BottomUp
<1>4. \A k \in Jobs : (jobs'[k].state \notin Missing /\ Parent[k] # NoJob)
          => jobs'[Parent[k]].state \notin Missing
  BY <1>1, JobAssumption DEF IInv, NoOrphanRow, Present
<1>5. Computed(jobs', {})
  BY <1>1, <1>2, <1>3, <1>4 DEF Computed
<1>6. Announce({})
  <2>1. \A k \in Jobs : jobs[k].state \in Missing <=> jobs'[k].state \in Missing
    BY <1>1
  <2>2. /\ latest' = [k \in Jobs |-> latest[k]]
        /\ settlements' = [k \in Jobs |-> settlements[k]]
    BY DEF ReplacePayload, IInv, TypeOK
  <2> QED
    BY <2>1, <2>2 DEF Announce, IInv, NothingOfMissingRows
<1> QED
  BY <1>5, <1>6, WriteIsStep

\* The removal of a stale preparation, with its children.
LEMMA RemoveIsStep ==
    ASSUME IInv, NEW j \in Jobs, RemoveStaleCompleted(j)
    PROVE  \E rows, written : Step(rows, written)
<1>1. jobs' = Without(jobs, {j}) /\ Announce({})
  BY DEF RemoveStaleCompleted
<1> QED
  BY <1>1, NothingComputed, WithoutFacts DEF Step, Computed

-----------------------------------------------------------------------------
\* Every step but a stutter is such a transaction.
LEMMA NextIsStep ==
    ASSUME IInv, Next
    PROVE  \E rows, written : Step(rows, written)
<1>1. CASE \E j \in Jobs, ready \in BOOLEAN : Enqueue(j, ready)
  BY <1>1, EnqueueIsStep
<1>2. CASE \E j \in Jobs : Refresh(j)
  BY <1>2, RefreshIsStep
<1>3. CASE \E j \in Jobs, to \in States, attempt \in Attempts, flag \in BOOLEAN :
               Transition(j, to, attempt, flag)
  BY <1>3, TransitionIsStep
<1>4. CASE \E j \in Jobs : RecordProgress(j)
  BY <1>4, ProgressIsStep
<1>5. CASE \E family \in SUBSET Jobs : RequestCancellations(family)
  BY <1>5, RequestIsStep
<1>6. CASE \E j \in Jobs, owned \in SUBSET Jobs : ReconcileCancellation(j, owned)
  BY <1>6, ReconcileIsStep
<1>7. CASE \E j \in Jobs, ready \in BOOLEAN : ReplacePayload(j, ready)
  BY <1>7, ReplaceIsStep
<1>8. CASE \E j \in Jobs : RemoveStaleCompleted(j)
  BY <1>8, RemoveIsStep
<1>9. CASE Recover
  BY <1>9, RecoverIsStep
<1> QED
  BY <1>1, <1>2, <1>3, <1>4, <1>5, <1>6, <1>7, <1>8, <1>9 DEF Next

\* A transaction keeps the invariant.
LEMMA StepKeeps ==
    ASSUME IInv, NEW rows, NEW written, Step(rows, written)
    PROVE  IInv'
<1> USE DEF Step, Computed
<1>1. ASSUME NEW j \in Jobs
      PROVE  /\ RowStep(jobs[j], rows[j], MaxAttempts[j])
             /\ j \in written => Written(jobs[j], rows[j])
             /\ j \notin written => rows[j].state = jobs[j].state
             /\ \/ jobs'[j] = rows[j]
                \/ jobs'[j] = Deleted
             /\ jobs[j] \in Row /\ rows[j] \in Row /\ jobs'[j] \in Row
  BY UnannouncedFacts DEF IInv, TypeOK
<1>2. Announce(written)
  OBVIOUS
<1>3. ASSUME NEW j \in Jobs
      PROVE  /\ latest'[j] = IF jobs'[j].state \in Missing THEN "Absent"
                             ELSE IF j \in written THEN jobs'[j].state ELSE latest[j]
             /\ settlements'[j] =
                    IF jobs'[j].state \in Missing THEN 0
                    ELSE IF j \notin written THEN settlements[j]
                    ELSE IF jobs'[j].state \in Terminal THEN settlements[j] + 1
                    ELSE IF jobs[j].state \in Terminal THEN 0
                    ELSE settlements[j]
  BY <1>2 DEF Announce
<1>4. TypeOK'
  <2>1. ASSUME NEW j \in Jobs
        PROVE  /\ jobs'[j].attempt <= MaxAttempts[j]
               /\ latest'[j] \in States \cup {"Absent"}
               /\ settlements'[j] \in Nat
    <3>1. MaxAttempts[j] \in Nat
      BY JobAssumption
    <3>2. jobs'[j].attempt <= MaxAttempts[j]
      BY <1>1, <3>1 DEF RowStep, Deleted, NoRow
    <3>3. latest'[j] \in States \cup {"Absent"}
      BY <1>1, <1>3 DEF IInv, TypeOK, Row
    <3>4. settlements'[j] \in Nat
      BY <1>3 DEF IInv, TypeOK
    <3> QED
      BY <3>2, <3>3, <3>4
  <2>2. latest' \in [Jobs -> States \cup {"Absent"}] /\ settlements' \in [Jobs -> Nat]
    BY <1>2, <2>1 DEF Announce
  <2> QED
    BY <2>1, <2>2 DEF TypeOK
<1>5. UniqueUnsettledKey'
  BY <1>1 DEF IInv, UniqueUnsettledKey, Open, NoNewRival, Deleted, NoRow, Unsettled
<1>6. EventsMirrorRecord'
  <2> SUFFICES ASSUME NEW j \in Jobs, jobs'[j].state \notin Missing
               PROVE  latest'[j] = jobs'[j].state
    BY DEF EventsMirrorRecord, Present
  <2>1. jobs'[j] = rows[j]
    BY <1>1 DEF Deleted, NoRow, Missing
  <2>2. jobs[j].state \notin Missing => latest[j] = jobs[j].state
    BY DEF IInv, EventsMirrorRecord, Present
  <2> QED
    BY <1>1, <1>3, <2>1, <2>2
<1>7. OneTerminalEvent'
  <2> SUFFICES ASSUME NEW j \in Jobs, jobs'[j].state \notin Missing
               PROVE  settlements'[j] = IF jobs'[j].state \in Terminal THEN 1 ELSE 0
    BY DEF OneTerminalEvent, Present
  <2>1. jobs'[j] = rows[j]
    BY <1>1 DEF Deleted, NoRow, Missing
  <2>2. /\ jobs[j].state \notin Missing =>
               settlements[j] = IF jobs[j].state \in Terminal THEN 1 ELSE 0
        /\ jobs[j].state \in Missing => settlements[j] = 0
    BY DEF IInv, OneTerminalEvent, Present, NothingOfMissingRows
  <2>3. CASE j \in written
    BY <1>1, <1>3, <2>1, <2>2, <2>3 DEF Written, Terminal, Unsettled, Missing
  <2>4. CASE j \notin written
    BY <1>1, <1>3, <2>1, <2>2, <2>4
  <2> QED
    BY <2>3, <2>4
<1>8. CancelledOnlyIfRequested'
  BY <1>1 DEF CancelledOnlyIfRequested, Present, RowStep, Deleted, NoRow
<1>9. NothingOfMissingRows'
  BY <1>3 DEF NothingOfMissingRows
<1> QED
  BY <1>4, <1>5, <1>6, <1>7, <1>8, <1>9 DEF IInv

\* The invariant is inductive.
THEOREM StoreInvariance == Spec => []IInv
<1>1. Init => IInv
  <2> SUFFICES ASSUME Init
               PROVE  IInv
    OBVIOUS
  <2>1. TypeOK
    BY MissingRows, JobAssumption DEF Init, TypeOK, NoRow
  <2>2. \A j \in Jobs : jobs[j].state = "Absent"
    BY DEF Init, NoRow
  <2> QED
    BY <2>1, <2>2
       DEF Init, IInv, UniqueUnsettledKey, EventsMirrorRecord, OneTerminalEvent, NoOrphanRow,
           CancelledOnlyIfRequested, NothingOfMissingRows, Open, Present, Unsettled, Missing
<1>2. IInv /\ [Next]_vars => IInv'
  <2>1. IInv /\ Next => IInv'
    BY NextIsStep, StepKeeps
  <2>2. IInv /\ UNCHANGED vars => IInv'
    BY DEF vars, IInv, TypeOK, UniqueUnsettledKey, EventsMirrorRecord, OneTerminalEvent,
           NoOrphanRow, CancelledOnlyIfRequested, NothingOfMissingRows, Open, Present
  <2> QED
    BY <2>1, <2>2
<1> QED
  BY <1>1, <1>2, PTL DEF Spec

\* Two requests for the same work never both own it, whatever the order of requests,
\* reauthorizations, retries, recoveries and deletions.
THEOREM KeysAreUnique == Spec => []UniqueUnsettledKey
BY StoreInvariance, PTL DEF IInv

\* A client that replays the event log ends in the state of the record.
THEOREM EventsTellTheRecord == Spec => []EventsMirrorRecord
BY StoreInvariance, PTL DEF IInv

\* A settled job was announced as settled exactly once in its lifecycle.
THEOREM TerminalEventsAreSingle == Spec => []OneTerminalEvent
BY StoreInvariance, PTL DEF IInv

\* Nothing ends as cancelled that nobody asked to cancel.
THEOREM CancellationsWereRequested == Spec => []CancelledOnlyIfRequested
BY StoreInvariance, PTL DEF IInv

\* A child row never outlives its parent's.
THEOREM ChildrenHaveParents == Spec => []NoOrphanRow
BY StoreInvariance, PTL DEF IInv

\* A family is settled from the leaves, whichever member a reconciliation starts
\* from and whatever the scheduler owns.
THEOREM FamiliesSettleBottomUp == Spec => FamilySettlesBottomUp
<1> DEFINE A == \A j \in Jobs :
          (jobs[j].state # "Cancelled" /\ jobs'[j].state = "Cancelled") =>
              \A c \in Children(j) : jobs'[c].state \notin Unsettled
<1>1. IInv /\ [Next]_vars => [A]_vars
  <2> SUFFICES ASSUME IInv, Next
               PROVE  A
    OBVIOUS
  <2>1. PICK rows, written : Step(rows, written)
    BY NextIsStep
  <2> QED
    BY <2>1 DEF Step, Computed, BottomUp, Children, Deleted, NoRow, Unsettled
<1> QED
  BY <1>1, StoreInvariance, PTL DEF Spec, FamilySettlesBottomUp

\* What was settled as cancelled or complete stays as it was settled, in the row and in the
\* event log, until the row is removed.
THEOREM SettledRecordsAreFinal == Spec => CancelledAndCompleteAreFinal
<1> DEFINE A == \A j \in Jobs : jobs[j].state \in {"Cancelled", "Complete"} =>
                    \/ jobs'[j].state = "Deleted"
                    \/ /\ jobs'[j] = [jobs[j] EXCEPT !.ready = jobs'[j].ready]
                       /\ latest'[j] = latest[j]
                       /\ settlements'[j] = settlements[j]
<1>1. IInv /\ [Next]_vars => [A]_vars
  <2> SUFFICES ASSUME IInv, Next,
                      NEW j \in Jobs, jobs[j].state \in {"Cancelled", "Complete"},
                      jobs'[j].state # "Deleted"
               PROVE  /\ jobs'[j] = [jobs[j] EXCEPT !.ready = jobs'[j].ready]
                      /\ latest'[j] = latest[j]
                      /\ settlements'[j] = settlements[j]
    OBVIOUS
  <2>1. PICK rows, written : Step(rows, written)
    BY NextIsStep
  <2>2. j \notin written /\ jobs'[j] = rows[j]
    BY <2>1 DEF Step, Computed, Written, Deleted, NoRow
  <2>3. jobs'[j] = [jobs[j] EXCEPT !.ready = jobs'[j].ready]
    BY <2>1, <2>2 DEF Step, Computed, Unannounced
  <2>4. jobs'[j].state = jobs[j].state
    BY <2>3 DEF IInv, TypeOK, Row
  <2> QED
    BY <2>1, <2>2, <2>3, <2>4 DEF Step, Announce, Missing
<1> QED
  BY <1>1, StoreInvariance, PTL DEF Spec, CancelledAndCompleteAreFinal

\* A commit writes its rows, less what it deletes.
LEMMA CommitKeepsOrDeletes ==
    ASSUME NEW rows, NEW written, Commit(rows, written), NEW k \in Jobs
    PROVE  jobs'[k] = rows[k] \/ jobs'[k].state \notin Unsettled
<1>1. PICK doomed : jobs' = Without(rows, doomed)
  BY DEF Commit
<1> QED
  BY <1>1 DEF Without, Deleted, NoRow, Unsettled

\* The limit on unsettled jobs is exceeded only by retries of failures: only a new
\* request, which counts, and the reactivation of a failed row bring work back.
THEOREM LimitPassedOnlyByRetries == Spec => OpenGrowsOnlyByRequestOrRetry
<1> DEFINE A == \A j \in Jobs :
          (jobs[j].state \notin Unsettled /\ jobs'[j].state \in Unsettled) =>
              \/ jobs[j].state = "Failed"
              \/ /\ jobs[j].state = "Absent"
                 /\ Cardinality(Open(jobs)) < UnsettledLimit
<1>1. IInv /\ [Next]_vars => [A]_vars
  <2> SUFFICES ASSUME IInv, Next,
                      NEW k \in Jobs, jobs[k].state \notin Unsettled, jobs'[k].state \in Unsettled
               PROVE  \/ jobs[k].state = "Failed"
                      \/ /\ jobs[k].state = "Absent"
                         /\ Cardinality(Open(jobs)) < UnsettledLimit
    OBVIOUS
  <2>r. jobs \in [Jobs -> Row]
    BY DEF IInv, TypeOK
  <2>1. ASSUME NEW j \in Jobs, NEW ready \in BOOLEAN, Enqueue(j, ready)
        PROVE  jobs[k].state = "Absent" /\ Cardinality(Open(jobs)) < UnsettledLimit
    BY <2>1, <2>r DEF Enqueue
  <2>2. ASSUME NEW j \in Jobs, Refresh(j)
        PROVE  FALSE
    <3>1. jobs'[k] = [jobs EXCEPT ![j] = Refreshed(@)][k]
      BY <2>2, CommitKeepsOrDeletes DEF Refresh
    <3> QED
      BY <2>2, <2>r, <3>1 DEF Refresh, Unsettled
  <2>3. ASSUME NEW j \in Jobs, NEW to \in States, NEW attempt \in Attempts,
               NEW flag \in BOOLEAN, Transition(j, to, attempt, flag)
        PROVE  jobs[k].state = "Failed"
    <3>1. jobs'[k] = [jobs EXCEPT ![j] = Transitioned(@, to, attempt, flag)][k]
      BY <2>3, CommitKeepsOrDeletes DEF Transition
    <3>2. k = j
      BY <2>r, <3>1
    <3>3. jobs[k].state \in Terminal
      BY <2>3, <2>r, <3>2
         DEF Transition, TransitionAllowed, Row, States, Terminal, Unsettled, Missing
    <3> QED
      BY <2>3, <3>2, <3>3 DEF Transition, TransitionAllowed, Reactivation
  <2>4. ASSUME NEW j \in Jobs, RecordProgress(j)
        PROVE  FALSE
    BY <2>4, CommitKeepsOrDeletes DEF RecordProgress
  <2>5. ASSUME NEW family \in SUBSET Jobs, RequestCancellations(family)
        PROVE  FALSE
    BY <2>5, <2>r DEF RequestCancellations, CancelRequested
  <2>6. ASSUME NEW j \in Jobs, NEW owned \in SUBSET Jobs, ReconcileCancellation(j, owned)
        PROVE  FALSE
    <3> DEFINE first == Settle(jobs, j, owned)
    <3>1. first \in [Jobs -> Row] /\ (first[k] = jobs[k] \/ jobs[k].state \in Unsettled)
      BY <2>r, SettleFacts
    <3>2. jobs'[k] = first[k] \/ first[k].state \in Unsettled
      <4> HIDE DEF first
      <4>1. Parent[j] \in Jobs \cup {NoJob}
        BY JobAssumption
      <4>2. jobs' = Settle(first, Parent[j], owned)
        BY <2>6 DEF ReconcileCancellation, first
      <4>3. PICK second :
                /\ second = Settle(first, Parent[j], owned)
                /\ second[k] = first[k] \/ first[k].state \in Unsettled
        BY <3>1, <4>1, SettleFacts
      <4> QED
        BY <4>2, <4>3
    <3> QED
      BY <3>1, <3>2
  <2>7. ASSUME NEW j \in Jobs, NEW ready \in BOOLEAN, ReplacePayload(j, ready)
        PROVE  FALSE
    BY <2>7, <2>r DEF ReplacePayload, Row
  <2>8. ASSUME NEW j \in Jobs, RemoveStaleCompleted(j)
        PROVE  FALSE
    BY <2>8 DEF RemoveStaleCompleted, Without, Deleted, NoRow, Unsettled
  <2>9. ASSUME Recover
        PROVE  FALSE
    <3>1. jobs'[k] = [j \in Jobs |-> Recovered(jobs[j], Kind[j])][k]
      BY <2>9, CommitKeepsOrDeletes DEF Recover
    <3>2. jobs'[k] = Recovered(jobs[k], Kind[k])
      BY <3>1
    <3>3. jobs[k].state = "Queued" \/ jobs[k].state \in {"Probing", "Running", "Retrying"}
      BY <3>2 DEF Recovered, Interrupted
    <3> QED
      BY <3>3 DEF Unsettled
  <2> QED
    BY <2>1, <2>2, <2>3, <2>4, <2>5, <2>6, <2>7, <2>8, <2>9 DEF Next
<1> QED
  BY <1>1, StoreInvariance, PTL DEF Spec, OpenGrowsOnlyByRequestOrRetry
=============================================================================
