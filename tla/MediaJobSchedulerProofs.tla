---------------------- MODULE MediaJobSchedulerProofs ----------------------
\* The scheduler's ownership rules, proved for any number of jobs and permits,
\* any resources, any set of outcomes and any number of faults and restarts; then, for
\* any number of drivers and any family, the preparation above it.
EXTENDS MediaPreparation, SequenceTheorems, TLAPS

\* What holds of a task by where it stands.
GoodTask ==
    {t \in Task : /\ t.pc # "idle" => t.job \in Jobs
                  /\ t.pc \in Owning => t.attempt >= 1
                  /\ t.pc \in Starting => t.tries < StartTries}

TaskOK == tasks \in [Permits -> GoodTask]

\* Until its task has done its last push, nothing is queued behind running work.
NothingQueuedBehindWork ==
    \A p \in Permits : tasks[p].pc \in Owning \ {"remove"} => queue[tasks[p].job] = <<>>

\* The inductive invariant.
IInv ==
    /\ TypeOK
    /\ TaskOK
    /\ OneOwnerPerJob
    /\ WorkerOwnsItsRecord
    /\ QueuedOnce
    /\ NothingQueuedBehindWork

-----------------------------------------------------------------------------
\* Settling one row touches no row the scheduler still owns, and moves only
\* an unsettled one, to cancelled.
LEMMA SettleRowFacts ==
    ASSUME NEW rows \in [Jobs -> Row], NEW j \in Jobs \cup {NoJob}, NEW owned
    PROVE  /\ SettleRow(rows, j, owned) \in [Jobs -> Row]
           /\ \A k \in Jobs :
                  \/ SettleRow(rows, j, owned)[k] = rows[k]
                  \/ /\ k \notin owned
                     /\ rows[k].state \in Unsettled
<1>1. CASE j # NoJob /\ Reconcilable(rows, j, Children(j), owned)
  <2>1. j \in Jobs
    BY <1>1
  <2>2. /\ rows[j].state \in Unsettled
        /\ j \notin owned
    BY <1>1 DEF Reconcilable
  <2>3. SettleRow(rows, j, owned) = [rows EXCEPT ![j] = Reconciled(rows[j])]
    BY <1>1 DEF SettleRow
  <2>4. Reconciled(rows[j]) \in Row
    BY <2>1 DEF Reconciled, Row, States, Terminal
  <2> QED
    BY <2>1, <2>2, <2>3, <2>4
<1>2. CASE ~(j # NoJob /\ Reconcilable(rows, j, Children(j), owned))
  <2>1. SettleRow(rows, j, owned) = rows
    BY <1>2 DEF SettleRow
  <2> QED
    BY <2>1
<1> QED
  BY <1>1, <1>2

\* A reconciliation, whichever job it starts from.
LEMMA ReconcileFacts ==
    ASSUME jobs \in [Jobs -> Row], NEW j \in Jobs, ReconcileCancellation(j)
    PROVE  /\ jobs' \in [Jobs -> Row]
           /\ \A k \in Jobs :
                  \/ jobs'[k] = jobs[k]
                  \/ /\ k \notin Owned
                     /\ jobs[k].state \in Unsettled
<1>1. CASE j \in Owned
  BY <1>1 DEF ReconcileCancellation
<1>2. CASE j \notin Owned
  <2>1. PICK first \in [Jobs -> Row] :
            /\ first = SettleRow(jobs, j, Owned)
            /\ \A k \in Jobs : first[k] = jobs[k] \/ (k \notin Owned /\ jobs[k].state \in Unsettled)
    BY SettleRowFacts
  <2>2. Parent[j] \in Jobs \cup {NoJob}
    BY SchedulerAssumption
  <2>3. jobs' = SettleRow(first, Parent[j], Owned)
    BY <1>2, <2>1 DEF ReconcileCancellation
  <2>4. /\ SettleRow(first, Parent[j], Owned) \in [Jobs -> Row]
        /\ \A k \in Jobs : \/ SettleRow(first, Parent[j], Owned)[k] = first[k]
                           \/ k \notin Owned /\ first[k].state \in Unsettled
    BY <2>2, SettleRowFacts
  <2> QED
    BY <2>1, <2>3, <2>4
<1> QED
  BY <1>1, <1>2

-----------------------------------------------------------------------------
\* Rows stay rows.
LEMMA TransitionedType ==
    ASSUME NEW row \in Row, NEW to \in States, NEW a \in 0 .. 3
    PROVE  Transitioned(row, to, a, FALSE) \in Row
BY DEF Transitioned, Row

\* A cancellation request leaves a row a row.
LEMMA CancelRequestedType ==
    ASSUME NEW row \in Row
    PROVE  CancelRequested(row) \in Row
BY DEF CancelRequested, Row

\* A reauthorization leaves a row a row.
LEMMA RefreshedType ==
    ASSUME NEW row \in Row
    PROVE  Refreshed(row) \in Row
BY DEF Refreshed, Row, States, Unsettled

\* Recovery leaves a row a row.
LEMMA RecoveredType ==
    ASSUME NEW row \in Row, NEW kind \in Kinds
    PROVE  Recovered(row, kind) \in Row
BY DEF Recovered, Row, States, Unsettled

\* What the fields of a row may be.
LEMMA RowFields ==
    ASSUME NEW row \in Row
    PROVE  row.attempt \in 0 .. 3 /\ row.cancel \in BOOLEAN
BY DEF Row

\* Queues hold attempts.
LEMMA PushFacts ==
    ASSUME queue \in [Jobs -> Seq(0 .. 3)], NEW j \in Jobs, NEW a \in 0 .. 3, Push(j, a)
    PROVE  /\ queue' \in [Jobs -> Seq(0 .. 3)]
           /\ Len(queue'[j]) = Len(queue[j]) + 1
           /\ \A k \in Jobs : k # j => queue'[k] = queue[k]
BY DEF Push

\* Taking the oldest entry of a job shortens its queue alone.
LEMMA PopFacts ==
    ASSUME queue \in [Jobs -> Seq(0 .. 3)], NEW j \in Jobs, Queued(j),
           queue' = [queue EXCEPT ![j] = Tail(@)]
    PROVE  /\ Head(queue[j]) \in 0 .. 3
           /\ queue' \in [Jobs -> Seq(0 .. 3)]
           /\ Len(queue'[j]) = Len(queue[j]) - 1
           /\ \A k \in Jobs : k # j => queue'[k] = queue[k]
BY DEF Queued

\* A task that moves on keeps its job, its attempt and its tokens.
LEMMA MovedFacts ==
    ASSUME NEW t \in GoodTask, NEW pc \in PCs,
           t.pc # "idle",
           pc \in Owning => t.pc \in Owning,
           pc \in Starting => t.pc \in Starting
    PROVE  /\ Moved(t, pc) \in GoodTask
           /\ Moved(t, pc).pc = pc
           /\ Moved(t, pc).job = t.job
           /\ Moved(t, pc).attempt = t.attempt
<1> DEFINE tries == IF pc \in Starting THEN t.tries ELSE 0
           moved == [t EXCEPT !.pc = pc, !.outcome = "None", !.saw = FALSE, !.tries = tries]
<1>1. tries \in 0 .. StartTries /\ (pc \in Starting => tries < StartTries)
  BY SchedulerAssumption DEF GoodTask, Task
<1> HIDE DEF tries
<1>2. moved \in Task
  BY <1>1 DEF GoodTask, Task
<1>3. moved.pc = pc /\ moved.job = t.job /\ moved.attempt = t.attempt /\ moved.tries = tries
  BY DEF GoodTask, Task
<1>4. Moved(t, pc) = moved
  BY DEF Moved, tries
<1> HIDE DEF moved
<1>5. moved \in GoodTask
  BY <1>1, <1>2, <1>3 DEF GoodTask
<1> QED
  BY <1>3, <1>4, <1>5

\* A user's signal moves no task.
LEMMA SignalledFacts ==
    ASSUME NEW t \in GoodTask
    PROVE  /\ Signalled(t) \in GoodTask
           /\ Signalled(t).pc = t.pc
           /\ Signalled(t).job = t.job
           /\ Signalled(t).attempt = t.attempt
BY DEF Signalled, GoodTask, Task

\* A task that moves on keeps its job and attempt, and the other tasks stay.
LEMMA GotoFacts ==
    ASSUME TaskOK, NEW p \in Permits, NEW pc \in PCs, Goto(p, pc),
           tasks[p].pc # "idle",
           pc \in Owning => tasks[p].pc \in Owning,
           pc \in Starting => tasks[p].pc \in Starting
    PROVE  /\ TaskOK'
           /\ \A q \in Permits : q # p => tasks'[q] = tasks[q]
           /\ tasks'[p].pc = pc
           /\ tasks'[p].job = tasks[p].job
           /\ tasks'[p].attempt = tasks[p].attempt
BY MovedFacts DEF Goto, TaskOK

\* A free permit is a good task.
LEMMA NoTaskGood == NoTask \in GoodTask
BY SchedulerAssumption DEF NoTask, TaskAt, GoodTask, Task, PCs, Owning, Starting, Working, Waiting

\* No call is a call record.
LEMMA NoCancelType == NoCancel \in Cancel
BY DEF NoCancel, Cancel

\* A restart of one job leaves the history typed.
LEMMA RestartedType ==
    ASSUME asked \in [Jobs -> BOOLEAN], NEW j \in Jobs
    PROVE  Restarted(j) \in [Jobs -> BOOLEAN]
BY DEF Restarted, BeingCancelled

\* The other updates of a task.
LEMMA TaskUpdates ==
    ASSUME NEW t \in GoodTask, NEW j \in Jobs
    PROVE  /\ \A a \in 1 .. 4 :
                  TaskAt("read", j, a) \in GoodTask
           /\ TaskAt("reconcile", j, 0) \in GoodTask
           /\ [t EXCEPT !.cancelled = TRUE] \in GoodTask
           /\ \A outcome \in Outcomes, saw \in BOOLEAN :
                  t.pc = "work" =>
                      [t EXCEPT !.pc = "settle", !.outcome = outcome, !.saw = saw] \in GoodTask
           /\ t.pc = "write" => TriedAgain(t) \in GoodTask
<1> USE SchedulerAssumption DEF GoodTask, Task, PCs, Owning, Starting, Working, Waiting
<1>1. \A a \in 1 .. 4 : TaskAt("read", j, a) \in GoodTask
  BY DEF TaskAt
<1>2. TaskAt("reconcile", j, 0) \in GoodTask
  BY DEF TaskAt
<1>3. [t EXCEPT !.cancelled = TRUE] \in GoodTask
  OBVIOUS
<1>4. ASSUME NEW outcome \in Outcomes, NEW saw \in BOOLEAN, t.pc = "work"
      PROVE  [t EXCEPT !.pc = "settle", !.outcome = outcome, !.saw = saw] \in GoodTask
  BY <1>4
<1>5. ASSUME t.pc = "write"
      PROVE  TriedAgain(t) \in GoodTask
  <2>1. ASSUME t.tries + 1 # StartTries
        PROVE  [t EXCEPT !.pc = "read", !.tries = t.tries + 1] \in GoodTask
    <3> DEFINE tries == t.tries + 1
    <3>1. tries \in 0 .. StartTries /\ tries < StartTries
      BY <1>5, <2>1
    <3> HIDE DEF tries
    <3>2. [t EXCEPT !.pc = "read", !.tries = tries] \in GoodTask
      BY <1>5, <3>1
    <3> QED
      BY <3>2 DEF tries
  <2>2. Moved(t, "startfail") \in GoodTask
    BY <1>5, MovedFacts
  <2> QED
    BY <2>1, <2>2 DEF TriedAgain
<1> QED
  BY <1>1, <1>2, <1>3, <1>4, <1>5

\* The task of dispatched work is a good one.
LEMMA DispatchedGood ==
    ASSUME NEW j \in Jobs, NEW a \in 0 .. 3
    PROVE  TaskAt("read", j, a + 1) \in GoodTask
BY SchedulerAssumption DEF TaskAt, GoodTask, Task, PCs, Owning, Starting, Working, Waiting

\* A shutdown's signal leaves a task good.
LEMMA ShutdownGood ==
    ASSUME NEW t \in GoodTask
    PROVE  [t EXCEPT !.cancelled = TRUE] \in GoodTask
BY DEF GoodTask, Task

\* The updates of a cancellation call.
LEMMA CancelUpdates ==
    ASSUME NEW c \in Cancel, NEW family \in SUBSET Jobs,
           NEW pc \in {"request", "signal", "reconcile", "wait"}
    PROVE  /\ [pc |-> pc, family |-> family, todo |-> family] \in Cancel
           /\ [c EXCEPT !.pc = pc] \in Cancel
           /\ [c EXCEPT !.todo = family, !.pc = pc] \in Cancel
           /\ c.family \in SUBSET Jobs
           /\ c.todo \in SUBSET Jobs
BY DEF Cancel
-----------------------------------------------------------------------------
\* Types.  One step per action.
Types == TypeOK /\ TaskOK

\* New rows are rows.
LEMMA NewRowType ==
    /\ NoRow \in Row
    /\ \A ready \in BOOLEAN :
           [state |-> "Queued", cancel |-> FALSE, attempt |-> 0, ready |-> ready] \in Row
BY DEF NoRow, Row, States, Unsettled

\* A transition that resets the attempt leaves a row.
LEMMA ResetType ==
    ASSUME NEW row \in Row, NEW to \in States
    PROVE  Transitioned(row, to, 0, FALSE) \in Row
<1>1. 0 \in 0 .. 3
  OBVIOUS
<1> QED
  BY <1>1, TransitionedType, Zenon

\* What finish may write.
LEMMA SettledStates ==
    \A outcome, a, max : SettledState(outcome, a, max) \in {"Complete", "Blocked", "Retrying", "Failed"}
BY DEF SettledState

\* What a good task's fields may be.
LEMMA TaskFacts ==
    ASSUME NEW t \in GoodTask
    PROVE  /\ t \in Task
           /\ t.pc \in PCs
           /\ t.attempt \in 0 .. 4
           /\ t.pc # "idle" => t.job \in Jobs
           /\ t.pc \in Owning => t.attempt >= 1
BY DEF GoodTask, Task

\* Every step keeps the types of the variables and of the tasks.
LEMMA TypeStep ==
    ASSUME Types, [Next]_vars
    PROVE  Types'
<1> USE SchedulerAssumption
<1>j. jobs \in [Jobs -> Row]
  BY DEF Types, TypeOK
<1>q. queue \in [Jobs -> Seq(0 .. 3)]
  BY DEF Types, TypeOK
<1>r. running \in [Jobs -> Permits \cup {NoPermit}]
  BY DEF Types, TypeOK
<1>k. TaskOK /\ tasks \in [Permits -> GoodTask]
  BY DEF Types, TaskOK
<1>e. pending \in [Jobs -> SUBSET (0 .. 3)]
  BY DEF Types, TypeOK
<1>c. cancels \in [Jobs -> Cancel]
  BY DEF Types, TypeOK
<1>f. faults \in 0 .. MaxFaults
  BY DEF Types, TypeOK
<1>a. asked \in [Jobs -> BOOLEAN]
  BY DEF Types, TypeOK
<1>t. \A p \in Permits :
          /\ tasks[p] \in GoodTask
          /\ tasks[p].pc \in PCs
          /\ tasks[p].attempt \in 0 .. 4
          /\ tasks[p].pc # "idle" => tasks[p].job \in Jobs
          /\ tasks[p].pc \in Owning => tasks[p].attempt >= 1
  BY <1>k, TaskFacts
<1>s. GoodTask \subseteq Task
  BY DEF GoodTask
<1>1. ASSUME NEW j \in Jobs, Start(j) PROVE Types'
  <2>1. jobs' \in [Jobs -> Row]
    BY <1>1, <1>j, NewRowType
       DEF Start
  <2> QED
    BY <1>j, <1>q, <1>r, <1>k, <1>e, <1>c, <1>f, <1>a, <1>s, <1>1, <2>1
       DEF Types, TypeOK, TaskOK, Start
<1>2. ASSUME NEW j \in Jobs, StartAgain(j) PROVE Types'
  BY <1>j, <1>q, <1>r, <1>k, <1>e, <1>c, <1>f, <1>a, <1>s, <1>2, RowFields
     DEF Types, TypeOK, TaskOK, StartAgain
<1>3. ASSUME NEW j \in Jobs, Reauthorize(j) PROVE Types'
  BY <1>j, <1>q, <1>r, <1>k, <1>e, <1>c, <1>f, <1>a, <1>s, <1>3, RestartedType, RefreshedType, RowFields
     DEF Types, TypeOK, TaskOK, Reauthorize
<1>4. ASSUME NEW j \in Jobs, RequireAuthorization(j) PROVE Types'
  <2>1. jobs' \in [Jobs -> Row]
    BY <1>4, <1>j, ResetType
       DEF RequireAuthorization, States, Terminal, Unsettled
  <2> QED
    BY <1>j, <1>q, <1>r, <1>k, <1>e, <1>c, <1>f, <1>a, <1>s, <1>4, <2>1, RestartedType
       DEF Types, TypeOK, TaskOK, RequireAuthorization
<1>5. ASSUME NEW j \in Jobs, RetryWithWorker(j) PROVE Types'
  <2>1. jobs' \in [Jobs -> Row]
    BY <1>5, <1>j, ResetType
       DEF RetryWithWorker, Retriable, SourceReauthorized, States, Terminal, Unsettled
  <2>2. queue' \in [Jobs -> Seq(0 .. 3)]
    BY <1>5, <1>q, PushFacts
       DEF RetryWithWorker
  <2> QED
    BY <1>j, <1>q, <1>r, <1>k, <1>e, <1>c, <1>f, <1>a, <1>s, <1>5, <2>1, <2>2, RestartedType
       DEF Types, TypeOK, TaskOK, RetryWithWorker
<1>6. ASSUME NEW j \in Jobs, NEW a \in pending[j], Submit(j, a) PROVE Types'
  BY <1>j, <1>q, <1>r, <1>k, <1>e, <1>c, <1>f, <1>a, <1>s, <1>6, PushFacts
     DEF Types, TypeOK, TaskOK, Submit
<1>7. ASSUME NEW j \in Jobs, CancelBegin(j) PROVE Types'
  <2>1. PICK family \in SUBSET Jobs :
            cancels' = [cancels EXCEPT ![j] = [pc |-> "request", family |-> family, todo |-> family]]
    BY <1>7 DEF CancelBegin, Children
  <2>2. cancels' \in [Jobs -> Cancel]
    BY <1>c, <2>1 DEF Cancel
  <2>3. UNCHANGED <<jobs, queue, running, tasks, pending, shutting, faults, restarts, asked>>
    BY <1>7 DEF CancelBegin
  <2> QED
    BY <1>j, <1>q, <1>r, <1>k, <1>e, <1>f, <1>a, <1>s, <2>2, <2>3 DEF Types, TypeOK, TaskOK
<1>8. ASSUME NEW j \in Jobs, RenderCancel(j) PROVE Types'
  <2>1. \/ jobs' = jobs
        \/ jobs' = [jobs EXCEPT ![j] = CancelRequested(@)]
    BY <1>8 DEF RenderCancel
  <2>2. jobs' \in [Jobs -> Row]
    BY <1>j, <2>1, CancelRequestedType
  <2>3. queue' \in [Jobs -> Seq(0 .. 3)]
    BY <1>8, <1>q, PopFacts DEF RenderCancel
  <2>4. \/ tasks' = tasks
        \/ /\ running[j] \in Permits
           /\ tasks' = [tasks EXCEPT ![running[j]] = Signalled(@)]
    BY <1>8, <1>r DEF RenderCancel, Owned
  <2>5. TaskOK'
    BY <1>k, <2>4, SignalledFacts DEF TaskOK
  <2>6. \/ cancels' = cancels
        \/ cancels' = [cancels EXCEPT ![j] = [pc |-> "reconcile", family |-> {j}, todo |-> {j}]]
    BY <1>8 DEF RenderCancel
  <2>7. cancels' \in [Jobs -> Cancel]
    BY <1>c, <2>6 DEF Cancel
  <2>8. asked' \in [Jobs -> BOOLEAN]
    BY <1>8, <1>a DEF RenderCancel
  <2>9. faults' \in 0 .. MaxFaults
    BY <1>8, <1>f DEF RenderCancel, StoreOk, StoreFails
  <2> QED
    BY <1>j, <1>q, <1>r, <1>k, <1>e, <1>c, <1>f, <1>a, <1>s, <1>8, <2>2, <2>3, <2>5, <2>7, <2>8, <2>9
       DEF Types, TypeOK, TaskOK, RenderCancel
<1>9. ASSUME NEW j \in Jobs, CancelRequest(j) PROVE Types'
  <2>1. \A k \in Jobs : CancelRequested(jobs[k]) \in Row
    BY <1>j, CancelRequestedType
  <2>2. jobs' \in [Jobs -> Row]
    BY <1>9, <1>j, <2>1 DEF CancelRequest
  <2>3. [cancels[j] EXCEPT !.pc = "signal"] \in Cancel
    BY <1>c, CancelUpdates
  <2>4. \/ cancels' = [cancels EXCEPT ![j] = [cancels[j] EXCEPT !.pc = "signal"]]
        \/ cancels' = [cancels EXCEPT ![j] = NoCancel]
    BY <1>9 DEF CancelRequest
  <2>5. cancels' \in [Jobs -> Cancel]
    BY <1>c, <2>3, <2>4, NoCancelType
  <2>6. asked' \in [Jobs -> BOOLEAN]
    BY <1>9, <1>a DEF CancelRequest
  <2> QED
    BY <1>j, <1>q, <1>r, <1>k, <1>e, <1>c, <1>f, <1>a, <1>s, <1>9, <2>2, <2>5, <2>6
       DEF Types, TypeOK, TaskOK, CancelRequest, StoreOk, StoreFails
<1>10. ASSUME NEW j \in Jobs, NEW k \in Jobs, CancelSignal(j, k) PROVE Types'
  <2>1. queue' \in [Jobs -> Seq(0 .. 3)]
    BY <1>10, <1>q, PopFacts
       DEF CancelSignal, SignalJob
  <2>2. \/ tasks' = tasks
        \/ /\ running[k] \in Permits
           /\ tasks' = [tasks EXCEPT ![running[k]] = Signalled(@)]
    BY <1>10, <1>k, <1>r
       DEF CancelSignal, SignalJob
  <2>3. TaskOK'
    BY <1>k, <2>2, SignalledFacts DEF TaskOK
  <2>4. cancels' \in [Jobs -> Cancel]
    BY <1>10, <1>c, CancelUpdates
       DEF CancelSignal
  <2> QED
    BY <1>j, <1>q, <1>r, <1>k, <1>e, <1>c, <1>f, <1>a, <1>s, <1>10, <2>1, <2>2, <2>3, <2>4
       DEF Types, TypeOK, TaskOK, CancelSignal
<1>11. ASSUME NEW j \in Jobs, NEW k \in Jobs, CancelReconcile(j, k) PROVE Types'
  <2>1. jobs' \in [Jobs -> Row]
    BY <1>11, <1>j, ReconcileFacts DEF CancelReconcile
  <2> DEFINE left == cancels[j].todo \ {k}
             pc == IF left = {} THEN "wait" ELSE "reconcile"
             next == [cancels[j] EXCEPT !.todo = left, !.pc = pc]
  <2>2. next \in Cancel
    <3>1. left \in SUBSET Jobs
      BY <1>c, CancelUpdates
    <3>2. pc \in {"request", "signal", "reconcile", "wait"}
      OBVIOUS
    <3> HIDE DEF left, pc
    <3> QED
      BY <1>c, <3>1, <3>2, CancelUpdates
  <2>3. \/ cancels' = [cancels EXCEPT ![j] = next]
        \/ cancels' = [cancels EXCEPT ![j] = NoCancel]
    BY <1>11 DEF CancelReconcile
  <2> HIDE DEF next
  <2>4. cancels' \in [Jobs -> Cancel]
    BY <1>c, <2>2, <2>3, NoCancelType
  <2> QED
    BY <1>j, <1>q, <1>r, <1>k, <1>e, <1>c, <1>f, <1>a, <1>s, <1>11, <2>1, <2>4
       DEF Types, TypeOK, TaskOK, CancelReconcile, StoreOk, StoreFails
<1>12. ASSUME NEW j \in Jobs, CancelReturns(j) PROVE Types'
  BY <1>j, <1>q, <1>r, <1>k, <1>e, <1>c, <1>f, <1>a, <1>s, <1>12, NoCancelType
     DEF Types, TypeOK, TaskOK, CancelReturns
<1>13. ASSUME NEW j \in Jobs, NEW p \in Permits, Dispatch(j, p) PROVE Types'
  <2>1. Queued(j) /\ queue' = [queue EXCEPT ![j] = Tail(@)]
    BY <1>13 DEF Dispatch
  <2>2. queue' \in [Jobs -> Seq(0 .. 3)] /\ Head(queue[j]) \in 0 .. 3
    BY <1>q, <2>1, PopFacts
  <2>3. TaskAt("read", j, Head(queue[j]) + 1) \in GoodTask
    BY <2>2, DispatchedGood
  <2>4. TaskOK'
    BY <1>13, <1>k, <2>3 DEF Dispatch, TaskOK
  <2> QED
    BY <1>j, <1>q, <1>r, <1>k, <1>e, <1>c, <1>f, <1>a, <1>s, <1>13, <2>2, <2>4
       DEF Types, TypeOK, TaskOK, Dispatch
<1>14. ASSUME NEW p \in Permits, StartRead(p) PROVE Types'
  BY <1>j, <1>q, <1>r, <1>k, <1>e, <1>c, <1>f, <1>a, <1>s, <1>14, <1>t, GotoFacts
     DEF Types, TypeOK, TaskOK, StartRead, StoreOk, StoreFails, PCs, Owning, Starting, Working, Waiting
<1>15. ASSUME NEW p \in Permits, StartWrite(p) PROVE Types'
  <2> DEFINE j == tasks[p].job
             a == tasks[p].attempt
  <2>1. /\ tasks[p].pc = "write" /\ j \in Jobs /\ a \in 0 .. 4
        /\ StoreOk \/ StoreFails
        /\ \/ /\ TransitionAllowed(jobs[j], "Running", a, MaxAttempts[j])
              /\ jobs' = [jobs EXCEPT ![j] = Transitioned(@, "Running", a, FALSE)]
              /\ Goto(p, "work")
           \/ /\ tasks' = [tasks EXCEPT ![p] = TriedAgain(@)]
              /\ UNCHANGED jobs
    BY <1>15, <1>t DEF StartWrite
  <2>2. "Running" \in States /\ "work" \in PCs /\ tasks[p].pc \in Owning /\ "work" \notin Starting
    BY <2>1 DEF States, Unsettled, PCs, Owning, Starting, Working
  <2>3. jobs' \in [Jobs -> Row]
    <3>1. CASE TransitionAllowed(jobs[j], "Running", a, MaxAttempts[j])
      <4>1. a \in 0 .. 3
        BY <2>1, <3>1 DEF TransitionAllowed
      <4>2. Transitioned(jobs[j], "Running", a, FALSE) \in Row
        BY <1>j, <2>1, <2>2, <4>1, TransitionedType
      <4> QED
        BY <1>j, <2>1, <4>2
    <3>2. CASE ~TransitionAllowed(jobs[j], "Running", a, MaxAttempts[j])
      BY <1>j, <2>1, <3>2
    <3> QED
      BY <3>1, <3>2
  <2>4. TaskOK'
    <3>1. CASE Goto(p, "work")
      BY <1>k, <2>1, <2>2, <3>1, GotoFacts
    <3>2. CASE tasks' = [tasks EXCEPT ![p] = TriedAgain(@)]
      BY <1>k, <2>1, <3>2, TaskUpdates DEF TaskOK
    <3> QED
      BY <2>1, <3>1, <3>2
  <2>5. faults' \in 0 .. MaxFaults
    BY <1>f, <2>1 DEF StoreOk, StoreFails
  <2> QED
    BY <1>j, <1>q, <1>r, <1>k, <1>e, <1>c, <1>f, <1>a, <1>s, <1>15, <2>3, <2>4, <2>5
       DEF Types, TypeOK, TaskOK, StartWrite
<1>16. ASSUME NEW p \in Permits, StartFail(p) PROVE Types'
  <2>1. tasks[p].pc = "startfail" /\ tasks[p].job \in Jobs /\ tasks[p].attempt - 1 \in 0 .. 3
    BY <1>16, <1>k, <1>t
       DEF StartFail, PCs, Owning, Starting, Working, Waiting
  <2>2. PICK a \in 0 .. 3 : a = tasks[p].attempt - 1
    BY <1>k, <2>1
  <2>3. Push(tasks[p].job, a) \/ queue' = queue
    BY <1>16, <1>q, <1>k, <2>2
       DEF StartFail
  <2>4. queue' \in [Jobs -> Seq(0 .. 3)]
    BY <1>q, <2>1, <2>2, <2>3, PushFacts
  <2>5. TaskOK'
    BY <1>16, <1>k, NoTaskGood
       DEF TaskOK, StartFail, EndTask
  <2> QED
    BY <1>j, <1>q, <1>r, <1>k, <1>e, <1>c, <1>f, <1>a, <1>s, <1>16, <2>1, <2>2, <2>3, <2>4, <2>5, <1>t
       DEF Types, TypeOK, TaskOK, StartFail
<1>17. ASSUME NEW p \in Permits, NEW outcome \in Outcomes, WorkerReturns(p, outcome) PROVE Types'
  <2> DEFINE settling == [tasks[p] EXCEPT !.pc = "settle", !.outcome = outcome,
                                          !.saw = jobs[tasks[p].job].cancel]
  <2>1. /\ tasks[p].pc = "work" /\ tasks[p].job \in Jobs
        /\ Goto(p, "cleanup") \/ Goto(p, "remove") \/ tasks' = [tasks EXCEPT ![p] = settling]
    BY <1>17, <1>t DEF WorkerReturns
  <2>2. {"cleanup", "remove"} \subseteq PCs \ Starting /\ "work" \in Owning
    BY DEF PCs, Owning, Starting, Working
  <2>3. settling \in GoodTask
    BY <1>j, <1>t, <2>1, RowFields, TaskUpdates
  <2> HIDE DEF settling
  <2>4. TaskOK'
    <3>1. CASE Goto(p, "cleanup")
      BY <1>k, <2>1, <2>2, <3>1, GotoFacts
    <3>2. CASE Goto(p, "remove")
      BY <1>k, <2>1, <2>2, <3>2, GotoFacts
    <3>3. CASE tasks' = [tasks EXCEPT ![p] = settling]
      BY <1>k, <2>3, <3>3 DEF TaskOK
    <3> QED
      BY <2>1, <3>1, <3>2, <3>3
  <2> QED
    BY <1>j, <1>q, <1>r, <1>k, <1>e, <1>c, <1>f, <1>a, <1>s, <1>17, <2>4
       DEF Types, TypeOK, TaskOK, WorkerReturns
<1>18. ASSUME NEW p \in Permits, Cleanup(p) PROVE Types'
  <2>1. \/ jobs' = jobs
        \/ jobs' = [jobs EXCEPT ![tasks[p].job] = CancelRequested(@)]
    BY <1>18, <1>j, <1>k
       DEF Cleanup
  <2>2. jobs' \in [Jobs -> Row]
    BY <1>18, <1>j, <1>t, <2>1, CancelRequestedType
       DEF Cleanup
  <2>3. TaskOK'
    BY <1>18, <1>k, <1>r, <1>t, GotoFacts
       DEF Cleanup, PCs, Owning, Starting, Working, Waiting
  <2> QED
    BY <1>j, <1>q, <1>r, <1>k, <1>e, <1>c, <1>f, <1>a, <1>s, <1>18, <2>1, <2>2, <2>3
       DEF Types, TypeOK, TaskOK, Cleanup, StoreOk, StoreFails
<1>19. ASSUME NEW p \in Permits, Settle(p) PROVE Types'
  <2> DEFINE j == tasks[p].job
             t == tasks[p]
             to == SettledState(t.outcome, t.attempt, MaxAttempts[j])
             a == IF to = "Retrying" THEN t.attempt ELSE jobs[j].attempt
  <2>1. /\ t.pc = "settle" /\ j \in Jobs /\ t.attempt \in 0 .. 4
        /\ StoreOk \/ StoreFails
        /\ \/ UNCHANGED jobs
           \/ jobs' = [jobs EXCEPT ![j] = Transitioned(@, to, a, FALSE)]
        /\ Goto(p, "backoff") \/ Goto(p, "remove")
    BY <1>19, <1>t DEF Settle
  <2>2. to \in States /\ (to = "Retrying" => t.attempt < MaxAttempts[j])
    BY DEF SettledState, States, Terminal, Unsettled
  <2>3. a \in 0 .. 3
    BY <1>j, <2>1, <2>2, RowFields
  <2> HIDE DEF to, a
  <2>4. Transitioned(jobs[j], to, a, FALSE) \in Row
    BY <1>j, <2>1, <2>2, <2>3, TransitionedType
  <2>5. jobs' \in [Jobs -> Row]
    BY <1>j, <2>1, <2>4
  <2>6. TaskOK'
    <3>1. {"backoff", "remove"} \subseteq PCs \ Starting /\ "settle" \in Owning
      BY DEF PCs, Owning, Starting, Working, Waiting
    <3> QED
      BY <1>k, <2>1, <3>1, GotoFacts
  <2>7. faults' \in 0 .. MaxFaults
    BY <1>f, <2>1 DEF StoreOk, StoreFails
  <2> QED
    BY <1>j, <1>q, <1>r, <1>k, <1>e, <1>c, <1>f, <1>a, <1>s, <1>19, <2>5, <2>6, <2>7
       DEF Types, TypeOK, TaskOK, Settle
<1>20. ASSUME NEW p \in Permits, BackoffEnds(p) PROVE Types'
  BY <1>j, <1>q, <1>r, <1>k, <1>e, <1>c, <1>f, <1>a, <1>s, <1>20, <1>t, GotoFacts
     DEF Types, TypeOK, TaskOK, BackoffEnds, AfterRetryCancel, PCs, Owning, Starting, Working, Waiting
<1>21. ASSUME NEW p \in Permits, RetryCancel(p) PROVE Types'
  <2>1. \/ jobs' = jobs
        \/ jobs' = [jobs EXCEPT ![tasks[p].job] = CancelRequested(@)]
    BY <1>21, <1>j, <1>k
       DEF RetryCancel
  <2>2. jobs' \in [Jobs -> Row]
    BY <1>21, <1>j, <1>t, <2>1, CancelRequestedType
       DEF RetryCancel
  <2>3. TaskOK'
    BY <1>21, <1>k, <1>r, <1>t, GotoFacts
       DEF RetryCancel, PCs, Owning, Starting, Working, Waiting
  <2> QED
    BY <1>j, <1>q, <1>r, <1>k, <1>e, <1>c, <1>f, <1>a, <1>s, <1>21, <2>1, <2>2, <2>3
       DEF Types, TypeOK, TaskOK, RetryCancel, StoreOk, StoreFails
<1>22. ASSUME NEW p \in Permits, Requeue(p) PROVE Types'
  <2> DEFINE j == tasks[p].job
             a == tasks[p].attempt
  <2>1. /\ tasks[p].pc = "requeue" /\ j \in Jobs /\ a \in 0 .. 4
        /\ StoreOk \/ StoreFails
        /\ \/ UNCHANGED <<jobs, queue>>
           \/ /\ TransitionAllowed(jobs[j], "Queued", a, MaxAttempts[j])
              /\ jobs' = [jobs EXCEPT ![j] = Transitioned(@, "Queued", a, FALSE)]
              /\ Push(j, a)
        /\ \E pc \in {"retrycancel", "remove"} : Goto(p, pc)
    BY <1>22, <1>t DEF Requeue, RequeueAs, AfterRetryCancel
  <2>2. "Queued" \in States
    BY DEF States, Unsettled
  <2>3. jobs' \in [Jobs -> Row] /\ queue' \in [Jobs -> Seq(0 .. 3)]
    <3>1. CASE UNCHANGED <<jobs, queue>>
      BY <1>j, <1>q, <3>1
    <3>2. CASE /\ TransitionAllowed(jobs[j], "Queued", a, MaxAttempts[j])
               /\ jobs' = [jobs EXCEPT ![j] = Transitioned(@, "Queued", a, FALSE)]
               /\ Push(j, a)
      <4>1. a \in 0 .. 3
        BY <2>1, <3>2 DEF TransitionAllowed
      <4>2. Transitioned(jobs[j], "Queued", a, FALSE) \in Row
        BY <1>j, <2>1, <2>2, <4>1, TransitionedType
      <4> QED
        BY <1>j, <1>q, <2>1, <3>2, <4>1, <4>2, PushFacts
    <3> QED
      BY <2>1, <3>1, <3>2
  <2>4. TaskOK'
    <3>1. {"retrycancel", "remove"} \subseteq PCs \ Starting /\ "requeue" \in Owning
      BY DEF PCs, Owning, Starting, Working, Waiting
    <3> QED
      BY <1>k, <2>1, <3>1, GotoFacts
  <2>5. faults' \in 0 .. MaxFaults
    BY <1>f, <2>1 DEF StoreOk, StoreFails
  <2> QED
    BY <1>j, <1>q, <1>r, <1>k, <1>e, <1>c, <1>f, <1>a, <1>s, <1>22, <2>3, <2>4, <2>5
       DEF Types, TypeOK, TaskOK, Requeue
<1>23. ASSUME NEW p \in Permits, LeaveRunning(p) PROVE Types'
  BY <1>j, <1>q, <1>r, <1>k, <1>e, <1>c, <1>f, <1>a, <1>s, <1>23, <1>t, TaskUpdates
     DEF Types, TypeOK, TaskOK, LeaveRunning
<1>24. ASSUME NEW p \in Permits, ReconcileAfter(p) PROVE Types'
  BY <1>j, <1>q, <1>r, <1>k, <1>e, <1>c, <1>f, <1>a, <1>s, <1>24, <1>t, ReconcileFacts, NoTaskGood
     DEF Types, TypeOK, TaskOK, ReconcileAfter, EndTask, StoreOk, StoreFails
<1>25. ASSUME Shutdown PROVE Types'
  <2>1. queue' \in [Jobs -> Seq(0 .. 3)]
    BY <1>25, <1>q
       DEF Shutdown
  <2>2. TaskOK'
    BY <1>25, <1>k, ShutdownGood
       DEF Shutdown, TaskOK
  <2> QED
    BY <1>j, <1>q, <1>r, <1>k, <1>e, <1>c, <1>f, <1>a, <1>s, <1>25, <2>1, <2>2
       DEF Types, TypeOK, TaskOK, Shutdown
<1>26. ASSUME Restart PROVE Types'
  <2>1. jobs' \in [Jobs -> Row]
    BY <1>26, <1>j, RecoveredType
       DEF Restart
  <2>2. queue' \in [Jobs -> Seq(0 .. 3)]
    BY <1>26, <1>q
       DEF Restart
  <2>3. TaskOK'
    BY <1>26, NoTaskGood
       DEF Restart, TaskOK
  <2>4. cancels' \in [Jobs -> Cancel]
    BY <1>26, <1>c, NoCancelType
       DEF Restart
  <2>5. pending' \in [Jobs -> SUBSET (0 .. 3)] /\ running' \in [Jobs -> Permits \cup {NoPermit}] /\ shutting' \in BOOLEAN
    BY <1>26, <1>r, <1>e
       DEF Restart
  <2>6. faults' \in 0 .. MaxFaults /\ restarts' \in 0 .. MaxRestarts /\ asked' \in [Jobs -> BOOLEAN]
    BY <1>26, <1>f, <1>a
       DEF Restart, Types, TypeOK
  <2> QED
    BY <1>j, <1>q, <1>r, <1>k, <1>e, <1>c, <1>f, <1>a, <1>s, <1>26, <2>1, <2>2, <2>3, <2>4, <2>5, <2>6
       DEF Types, TypeOK, TaskOK
<1>27. ASSUME UNCHANGED vars PROVE Types'
  BY <1>j, <1>q, <1>r, <1>k, <1>e, <1>c, <1>f, <1>a, <1>s, <1>27
     DEF Types, TypeOK, TaskOK, vars
<1> QED
  BY <1>1, <1>2, <1>3, <1>4, <1>5, <1>6, <1>7, <1>8, <1>9, <1>10, <1>11, <1>12, <1>13, <1>14, <1>15, <1>16, <1>17, <1>18, <1>19, <1>20, <1>21, <1>22, <1>23, <1>24, <1>25, <1>26, <1>27
     DEF Next, ClientStep, CancelStep, TaskStep
-----------------------------------------------------------------------------
\* What a step may do to the tasks, the running map, the rows and the queues.

\* A request moves neither the state nor the attempt of a row.
LEMMA CancelRequestedFields ==
    ASSUME NEW row \in Row
    PROVE  CancelRequested(row).state = row.state /\ CancelRequested(row).attempt = row.attempt
BY DEF CancelRequested, Row

\* A start tried again stays with its job and attempt.
LEMMA TriedAgainFields ==
    ASSUME NEW t \in GoodTask, t.pc = "write"
    PROVE  /\ TriedAgain(t).pc \in {"read", "startfail"}
           /\ TriedAgain(t).job = t.job
           /\ TriedAgain(t).attempt = t.attempt
<1>1. "startfail" \in PCs /\ "startfail" \notin Starting /\ t.pc \in Owning
  BY DEF PCs, Owning, Starting
<1>2. /\ Moved(t, "startfail").pc = "startfail"
      /\ Moved(t, "startfail").job = t.job
      /\ Moved(t, "startfail").attempt = t.attempt
  BY <1>1, MovedFacts
<1> QED
  BY <1>2 DEF TriedAgain, GoodTask, Task

\* The steps of a task that stays the owner of its job.
Move(p) ==
    \/ StartRead(p) \/ StartWrite(p)
    \/ \E outcome \in Outcomes : WorkerReturns(p, outcome)
    \/ Cleanup(p) \/ Settle(p)
    \/ BackoffEnds(p) \/ RetryCancel(p) \/ Requeue(p)

\* What such a step does: it touches its own task, row and queue only; a task
\* that comes to work or to wait has just written the state that goes with it;
\* and a push is the last thing it does before it leaves.
MoveShape(p) ==
    LET j == tasks[p].job IN
    /\ j \in Jobs
    /\ running' = running
    /\ tasks[p].pc \in Owning \ {"remove"}
    /\ tasks'[p].pc \in Owning
    /\ tasks'[p].job = j
    /\ tasks'[p].attempt = tasks[p].attempt
    /\ \A q \in Permits : q # p => tasks'[q] = tasks[q]
    /\ \A k \in Jobs : k # j => jobs'[k] = jobs[k] /\ queue'[k] = queue[k]
    /\ tasks'[p].pc \in Working =>
           \/ tasks[p].pc \in Working /\ jobs' = jobs
           \/ jobs'[j].state = "Running" /\ jobs'[j].attempt = tasks[p].attempt
    /\ tasks'[p].pc \in Waiting =>
           \/ tasks[p].pc \in Waiting /\ jobs' = jobs
           \/ jobs'[j].state = "Retrying" /\ jobs'[j].attempt = tasks[p].attempt
    /\ \/ queue' = queue
       \/ tasks'[p].pc = "remove" /\ Len(queue'[j]) = Len(queue[j]) + 1

\* What a step of an execution does to the record, the queue and the other tasks.
LEMMA MoveFacts ==
    ASSUME Types, NEW p \in Permits, Move(p)
    PROVE  MoveShape(p)
<1> USE DEF PCs, Owning, Starting, Working, Waiting
<1>t. TaskOK /\ tasks \in [Permits -> GoodTask] /\ tasks[p] \in GoodTask
  BY DEF Types, TaskOK
<1>j. tasks[p].pc # "idle" => tasks[p].job \in Jobs /\ jobs[tasks[p].job] \in Row
  BY <1>t, TaskFacts DEF Types, TypeOK
<1>r. jobs \in [Jobs -> Row] /\ queue \in [Jobs -> Seq(0 .. 3)]
  BY DEF Types, TypeOK
<1>1. CASE StartRead(p)
  <2>1. /\ tasks[p].pc = "read"
        /\ \E pc \in {"write", "remove", "startfail"} : Goto(p, pc)
        /\ UNCHANGED <<jobs, queue, running>>
    BY <1>1 DEF StartRead
  <2> QED
    BY <1>t, <1>j, <2>1, GotoFacts DEF MoveShape
<1>2. CASE StartWrite(p)
  <2>1. /\ tasks[p].pc = "write"
        /\ UNCHANGED <<queue, running>>
        /\ \/ /\ jobs' = [jobs EXCEPT ![tasks[p].job] =
                              Transitioned(@, "Running", tasks[p].attempt, FALSE)]
              /\ Goto(p, "work")
           \/ /\ tasks' = [tasks EXCEPT ![p] = TriedAgain(@)]
              /\ UNCHANGED jobs
    BY <1>2 DEF StartWrite
  <2>2. CASE Goto(p, "work") /\ jobs' = [jobs EXCEPT ![tasks[p].job] =
                                            Transitioned(@, "Running", tasks[p].attempt, FALSE)]
    <3> DEFINE row == Transitioned(jobs[tasks[p].job], "Running", tasks[p].attempt, FALSE)
    <3>1. row.state = "Running" /\ row.attempt = tasks[p].attempt
      BY <1>j, <2>1 DEF Transitioned, Row
    <3>2. jobs' = [jobs EXCEPT ![tasks[p].job] = row]
      BY <2>2
    <3> HIDE DEF row
    <3>3. /\ tasks'[p].pc = "work"
          /\ tasks'[p].job = tasks[p].job
          /\ tasks'[p].attempt = tasks[p].attempt
          /\ \A q \in Permits : q # p => tasks'[q] = tasks[q]
      BY <1>t, <2>1, <2>2, GotoFacts
    <3> QED
      BY <1>j, <1>r, <2>1, <3>1, <3>2, <3>3 DEF MoveShape
  <2>3. CASE tasks' = [tasks EXCEPT ![p] = TriedAgain(@)] /\ UNCHANGED jobs
    BY <1>t, <1>j, <2>1, <2>3, TriedAgainFields DEF MoveShape
  <2> QED
    BY <2>1, <2>2, <2>3
<1>3. CASE \E outcome \in Outcomes : WorkerReturns(p, outcome)
  <2>1. /\ tasks[p].pc = "work"
        /\ UNCHANGED <<jobs, queue, running>>
        /\ \/ \E pc \in {"cleanup", "remove"} : Goto(p, pc)
           \/ \E outcome \in Outcomes : \E saw :
                  tasks' = [tasks EXCEPT ![p] = [tasks[p] EXCEPT !.pc = "settle",
                                                     !.outcome = outcome, !.saw = saw]]
    BY <1>3 DEF WorkerReturns
  <2>2. CASE \E pc \in {"cleanup", "remove"} : Goto(p, pc)
    BY <1>t, <1>j, <2>1, <2>2, GotoFacts DEF MoveShape
  <2>3. ASSUME NEW outcome \in Outcomes, NEW saw,
               tasks' = [tasks EXCEPT ![p] = [tasks[p] EXCEPT !.pc = "settle",
                                                  !.outcome = outcome, !.saw = saw]]
        PROVE  MoveShape(p)
    <3>1. /\ tasks'[p].pc = "settle"
          /\ tasks'[p].job = tasks[p].job
          /\ tasks'[p].attempt = tasks[p].attempt
          /\ \A q \in Permits : q # p => tasks'[q] = tasks[q]
      BY <1>t, <2>3 DEF GoodTask, Task
    <3> QED
      BY <1>j, <2>1, <3>1 DEF MoveShape
  <2> QED
    BY <2>1, <2>2, <2>3
<1>4. CASE Cleanup(p)
  <2>1. /\ tasks[p].pc = "cleanup"
        /\ UNCHANGED <<queue, running>>
        /\ Goto(p, "remove")
        /\ jobs' = jobs \/ jobs' = [jobs EXCEPT ![tasks[p].job] = CancelRequested(@)]
    BY <1>4 DEF Cleanup
  <2> QED
    BY <1>t, <1>j, <1>r, <2>1, GotoFacts DEF MoveShape
<1>5. CASE Settle(p)
  <2> DEFINE j == tasks[p].job
  <2>1. /\ tasks[p].pc = "settle"
        /\ UNCHANGED <<queue, running>>
        /\ \/ /\ jobs' = [jobs EXCEPT ![j] = Transitioned(@, "Retrying", tasks[p].attempt, FALSE)]
              /\ Goto(p, "backoff")
           \/ /\ \A k \in Jobs : k # j => jobs'[k] = jobs[k]
              /\ Goto(p, "remove")
    BY <1>5, <1>r DEF Settle
  <2>2. CASE /\ jobs' = [jobs EXCEPT ![j] = Transitioned(@, "Retrying", tasks[p].attempt, FALSE)]
             /\ Goto(p, "backoff")
    <3> DEFINE row == Transitioned(jobs[j], "Retrying", tasks[p].attempt, FALSE)
    <3>1. row.state = "Retrying" /\ row.attempt = tasks[p].attempt
      BY <1>j, <2>1 DEF Transitioned, Row
    <3>2. jobs' = [jobs EXCEPT ![j] = row]
      BY <2>2
    <3> HIDE DEF row
    <3>3. /\ tasks'[p].pc = "backoff"
          /\ tasks'[p].job = j
          /\ tasks'[p].attempt = tasks[p].attempt
          /\ \A q \in Permits : q # p => tasks'[q] = tasks[q]
      BY <1>t, <2>1, <2>2, GotoFacts
    <3> QED
      BY <1>j, <1>r, <2>1, <3>1, <3>2, <3>3 DEF MoveShape
  <2>3. CASE Goto(p, "remove") /\ \A k \in Jobs : k # j => jobs'[k] = jobs[k]
    BY <1>t, <1>j, <2>1, <2>3, GotoFacts DEF MoveShape
  <2> QED
    BY <2>1, <2>2, <2>3
<1>6. CASE BackoffEnds(p)
  <2>1. /\ tasks[p].pc = "backoff"
        /\ \E pc \in {"requeue", "retrycancel", "remove"} : Goto(p, pc)
        /\ UNCHANGED <<jobs, queue, running>>
    BY <1>6 DEF BackoffEnds, AfterRetryCancel
  <2> QED
    BY <1>t, <1>j, <2>1, GotoFacts DEF MoveShape
<1>7. CASE RetryCancel(p)
  <2>1. /\ tasks[p].pc = "retrycancel"
        /\ UNCHANGED <<queue, running>>
        /\ Goto(p, "remove")
        /\ jobs' = jobs \/ jobs' = [jobs EXCEPT ![tasks[p].job] = CancelRequested(@)]
    BY <1>7 DEF RetryCancel
  <2> QED
    BY <1>t, <1>j, <1>r, <2>1, GotoFacts DEF MoveShape
<1>8. CASE Requeue(p)
  <2> DEFINE j == tasks[p].job
             a == tasks[p].attempt
  <2>1. /\ tasks[p].pc = "requeue"
        /\ UNCHANGED running
        /\ \/ UNCHANGED <<jobs, queue>> /\ Goto(p, "retrycancel")
           \/ UNCHANGED <<jobs, queue>> /\ Goto(p, "remove")
           \/ /\ Goto(p, "remove")
              /\ TransitionAllowed(jobs[j], "Queued", a, MaxAttempts[j])
              /\ jobs' = [jobs EXCEPT ![j] = Transitioned(@, "Queued", a, FALSE)]
              /\ Push(j, a)
    BY <1>8 DEF Requeue, RequeueAs, AfterRetryCancel
  <2>2. CASE UNCHANGED <<jobs, queue>> /\ (Goto(p, "retrycancel") \/ Goto(p, "remove"))
    BY <1>t, <1>j, <2>1, <2>2, GotoFacts DEF MoveShape
  <2>3. CASE /\ Goto(p, "remove")
             /\ TransitionAllowed(jobs[j], "Queued", a, MaxAttempts[j])
             /\ jobs' = [jobs EXCEPT ![j] = Transitioned(@, "Queued", a, FALSE)]
             /\ Push(j, a)
    <3>1. j \in Jobs /\ MaxAttempts[j] \in 1 .. 3 /\ a \in 0 .. 4
      BY <1>t, <1>j, <2>1, SchedulerAssumption, TaskFacts
    <3>2. a \in 0 .. 3
      BY <2>3, <3>1 DEF TransitionAllowed
    <3>3. Len(queue'[j]) = Len(queue[j]) + 1 /\ \A k \in Jobs : k # j => queue'[k] = queue[k]
      BY <1>r, <2>3, <3>1, <3>2, PushFacts
    <3>4. /\ tasks'[p].pc = "remove"
          /\ tasks'[p].job = j
          /\ tasks'[p].attempt = tasks[p].attempt
          /\ \A q \in Permits : q # p => tasks'[q] = tasks[q]
      BY <1>t, <2>1, <2>3, GotoFacts
    <3>5. \A k \in Jobs : k # j => jobs'[k] = jobs[k]
      BY <1>r, <2>3
    <3> QED
      BY <2>1, <3>1, <3>3, <3>4, <3>5 DEF MoveShape
  <2> QED
    BY <2>1, <2>2, <2>3
<1> QED
  BY <1>1, <1>2, <1>3, <1>4, <1>5, <1>6, <1>7, <1>8 DEF Move

\* The steps of clients, of cancellation calls and of the shutdown.
Call ==
    \/ \E j \in Jobs :
           \/ Start(j) \/ StartAgain(j) \/ Reauthorize(j)
           \/ RequireAuthorization(j) \/ RetryWithWorker(j)
           \/ \E attempt \in pending[j] : Submit(j, attempt)
           \/ CancelBegin(j) \/ RenderCancel(j)
           \/ CancelStep(j)
    \/ Shutdown

\* What a call does: it moves no task and leaves the running map alone; it does
\* not move the row of work that has an owner and is under way; and it queues
\* only what is neither queued nor running.
CallShape ==
    /\ running' = running
    /\ \A p \in Permits : /\ tasks'[p].pc = tasks[p].pc
                          /\ tasks'[p].job = tasks[p].job
                          /\ tasks'[p].attempt = tasks[p].attempt
    /\ \A k \in Jobs : (running[k] # NoPermit /\ jobs[k].state \in {"Running", "Retrying"}) =>
                           jobs'[k].state = jobs[k].state /\ jobs'[k].attempt = jobs[k].attempt
    /\ \A k \in Jobs : \/ Len(queue'[k]) <= Len(queue[k])
                       \/ /\ running[k] = NoPermit
                          /\ Len(queue[k]) = 0
                          /\ Len(queue'[k]) = 1

\* What a step of a client or of a cancellation does to them.
LEMMA CallFacts ==
    ASSUME Types, Call
    PROVE  CallShape
<1>j. jobs \in [Jobs -> Row] /\ queue \in [Jobs -> Seq(0 .. 3)]
  BY DEF Types, TypeOK
<1>r. running \in [Jobs -> Permits \cup {NoPermit}]
  BY DEF Types, TypeOK
<1>t. tasks \in [Permits -> GoodTask]
  BY DEF Types, TaskOK
<1>e. \A k \in Jobs : Len(queue[k]) \in Nat /\ (Len(queue[k]) = 0 <=> queue[k] = <<>>)
  BY <1>j
<1> DEFINE RowsKept == \A k \in Jobs :
               (running[k] # NoPermit /\ jobs[k].state \in {"Running", "Retrying"}) =>
                   jobs'[k].state = jobs[k].state /\ jobs'[k].attempt = jobs[k].attempt
           QueueKept == \A k \in Jobs : \/ Len(queue'[k]) <= Len(queue[k])
                                        \/ /\ running[k] = NoPermit
                                           /\ Len(queue[k]) = 0
                                           /\ Len(queue'[k]) = 1
           TasksKept == \A p \in Permits : /\ tasks'[p].pc = tasks[p].pc
                                           /\ tasks'[p].job = tasks[p].job
                                           /\ tasks'[p].attempt = tasks[p].attempt
<1>1. ASSUME NEW j \in Jobs, Start(j) \/ Reauthorize(j) \/ RequireAuthorization(j)
      PROVE  CallShape
  <2>1. /\ UNCHANGED <<running, tasks, queue>>
        /\ jobs[j].state \in {"Absent", "Blocked", "Failed"}
        /\ \A k \in Jobs : k # j => jobs'[k] = jobs[k]
    BY <1>1, <1>j DEF Start, Reauthorize, RequireAuthorization
  <2> QED
    BY <1>e, <2>1 DEF CallShape
<1>2. ASSUME NEW j \in Jobs, StartAgain(j) \/ CancelBegin(j) \/ CancelReturns(j)
      PROVE  CallShape
  BY <1>2, <1>e DEF CallShape, StartAgain, CancelBegin, CancelReturns
<1>3. ASSUME NEW j \in Jobs, RetryWithWorker(j)
      PROVE  CallShape
  <2>1. /\ UNCHANGED <<running, tasks>>
        /\ running[j] = NoPermit /\ queue[j] = <<>>
        /\ Push(j, 0)
        /\ \A k \in Jobs : k # j => jobs'[k] = jobs[k]
    BY <1>3, <1>j DEF RetryWithWorker, Owned, Queued
  <2>2. Len(queue'[j]) = Len(queue[j]) + 1 /\ \A k \in Jobs : k # j => queue'[k] = queue[k]
    BY <1>j, <2>1 DEF Push
  <2> QED
    BY <1>e, <2>1, <2>2 DEF CallShape
<1>4. ASSUME NEW j \in Jobs, NEW a \in pending[j], Submit(j, a)
      PROVE  CallShape
  <2>1. /\ UNCHANGED <<jobs, running, tasks>>
        /\ queue' = queue \/ (running[j] = NoPermit /\ queue[j] = <<>> /\ Push(j, a))
        /\ a \in 0 .. 3
    BY <1>4 DEF Submit, Owned, Queued, Types, TypeOK
  <2>2. CASE queue' = queue
    BY <1>e, <2>1, <2>2 DEF CallShape
  <2>3. CASE running[j] = NoPermit /\ queue[j] = <<>> /\ Push(j, a)
    <3>1. Len(queue'[j]) = Len(queue[j]) + 1 /\ \A k \in Jobs : k # j => queue'[k] = queue[k]
      BY <1>j, <2>1, <2>3, PushFacts
    <3> QED
      BY <1>e, <2>1, <2>3, <3>1 DEF CallShape
  <2> QED
    BY <2>1, <2>2, <2>3
<1>5. ASSUME NEW j \in Jobs, RenderCancel(j)
      PROVE  CallShape
  <2>1. running' = running
    BY <1>5 DEF RenderCancel
  <2>2. RowsKept
    <3>1. jobs' = jobs \/ jobs' = [jobs EXCEPT ![j] = CancelRequested(@)]
      BY <1>5 DEF RenderCancel
    <3> QED
      BY <1>j, <3>1, CancelRequestedFields
  <2>3. QueueKept
    <3>1. CASE queue' = queue
      BY <1>e, <3>1
    <3>2. CASE Queued(j) /\ queue' = [queue EXCEPT ![j] = Tail(@)]
      <4>1. /\ Len(queue'[j]) = Len(queue[j]) - 1
            /\ \A k \in Jobs : k # j => queue'[k] = queue[k]
        BY <1>j, <3>2, PopFacts
      <4> QED
        BY <1>e, <4>1
    <3> QED
      BY <1>5, <3>1, <3>2 DEF RenderCancel
  <2>4. TasksKept
    <3>1. \/ tasks' = tasks
          \/ running[j] \in Permits /\ tasks' = [tasks EXCEPT ![running[j]] = Signalled(@)]
      BY <1>5, <1>r DEF RenderCancel, Owned
    <3> QED
      BY <1>t, <3>1, SignalledFacts
  <2> QED
    BY <2>1, <2>2, <2>3, <2>4 DEF CallShape
<1>6. ASSUME NEW j \in Jobs, CancelRequest(j)
      PROVE  CallShape
  <2>1. /\ UNCHANGED <<running, tasks, queue>>
        /\ \/ UNCHANGED jobs
           \/ jobs' = [k \in Jobs |-> IF k \in cancels[j].family
                                      THEN CancelRequested(jobs[k]) ELSE jobs[k]]
    BY <1>6 DEF CancelRequest
  <2>2. RowsKept
    BY <1>j, <2>1, CancelRequestedFields
  <2> QED
    BY <1>e, <2>1, <2>2 DEF CallShape
<1>7. ASSUME NEW j \in Jobs, NEW k \in Jobs, CancelSignal(j, k)
      PROVE  CallShape
  <2>1. UNCHANGED <<running, jobs>>
    BY <1>7 DEF CancelSignal
  <2>2. QueueKept
    <3>1. CASE queue' = queue
      BY <1>e, <3>1
    <3>2. CASE Queued(k) /\ queue' = [queue EXCEPT ![k] = Tail(@)]
      <4>1. /\ Len(queue'[k]) = Len(queue[k]) - 1
            /\ \A i \in Jobs : i # k => queue'[i] = queue[i]
        BY <1>j, <3>2, PopFacts
      <4> QED
        BY <1>e, <4>1
    <3> QED
      BY <1>7, <3>1, <3>2 DEF CancelSignal, SignalJob
  <2>3. TasksKept
    <3>1. \/ tasks' = tasks
          \/ running[k] \in Permits /\ tasks' = [tasks EXCEPT ![running[k]] = Signalled(@)]
      BY <1>7, <1>r DEF CancelSignal, SignalJob
    <3> QED
      BY <1>t, <3>1, SignalledFacts
  <2> QED
    BY <2>1, <2>2, <2>3 DEF CallShape
<1>8. ASSUME NEW j \in Jobs, NEW k \in Jobs, CancelReconcile(j, k)
      PROVE  CallShape
  <2>1. UNCHANGED <<running, tasks, queue>>
    BY <1>8 DEF CancelReconcile
  <2>2. RowsKept
    <3>1. ReconcileCancellation(k) \/ jobs' = jobs
      BY <1>8 DEF CancelReconcile
    <3>2. \A i \in Jobs : jobs'[i] = jobs[i] \/ i \notin Owned
      BY <1>j, <3>1, ReconcileFacts
    <3> QED
      BY <3>2 DEF Owned
  <2> QED
    BY <1>e, <2>1, <2>2 DEF CallShape
<1>9. ASSUME Shutdown
      PROVE  CallShape
  <2>1. UNCHANGED <<running, jobs>> /\ queue' = [j \in Jobs |-> <<>>]
    BY <1>9 DEF Shutdown
  <2>2. TasksKept
    BY <1>9, <1>t DEF Shutdown, GoodTask, Task
  <2> QED
    BY <1>e, <2>1, <2>2 DEF CallShape
<1> QED
  BY <1>1, <1>2, <1>3, <1>4, <1>5, <1>6, <1>7, <1>8, <1>9 DEF Call, CancelStep

-----------------------------------------------------------------------------
\* The invariant is inductive.

\* The ownership rules, without the types.
Ownership == OneOwnerPerJob /\ WorkerOwnsItsRecord /\ QueuedOnce /\ NothingQueuedBehindWork

\* Two tasks that own jobs own different ones.
LEMMA OwnersDiffer ==
    ASSUME OneOwnerPerJob, NEW p \in Permits, NEW q \in Permits, p # q,
           tasks[p].pc \in Owning, tasks[q].pc \in Owning
    PROVE  tasks[p].job # tasks[q].job
BY DEF OneOwnerPerJob

\* Lengths of queues.
LEMMA QueueLengths ==
    ASSUME Types, Types'
    PROVE  \A k \in Jobs :
               /\ Len(queue[k]) \in Nat /\ (Len(queue[k]) = 0 <=> queue[k] = <<>>)
               /\ Len(queue'[k]) \in Nat /\ (Len(queue'[k]) = 0 <=> queue'[k] = <<>>)
BY DEF Types, TypeOK

\* A call leaves every owner its job, its record and its empty queue.
LEMMA CallKeeps ==
    ASSUME Types, Types', Ownership, CallShape
    PROVE  Ownership'
<1>n. NoPermit \notin Permits /\ Working \subseteq Owning /\ Waiting \subseteq Owning
  BY SchedulerAssumption DEF Owning
<1>l. \A k \in Jobs : /\ Len(queue[k]) \in Nat /\ (Len(queue[k]) = 0 <=> queue[k] = <<>>)
                      /\ Len(queue'[k]) \in Nat /\ (Len(queue'[k]) = 0 <=> queue'[k] = <<>>)
  BY QueueLengths
<1>1. OneOwnerPerJob'
  <2>0. running \in [Jobs -> Permits \cup {NoPermit}]
    BY DEF Types, TypeOK
  <2>1. ASSUME NEW p \in Permits, tasks'[p].pc \in Owning
        PROVE  tasks'[p].job \in Jobs /\ running'[tasks'[p].job] = p
    BY <2>1 DEF Ownership, OneOwnerPerJob, CallShape
  <2>2. ASSUME NEW k \in Jobs, running'[k] # NoPermit
        PROVE  tasks'[running'[k]].pc \in Owning /\ tasks'[running'[k]].job = k
    <3>1. running'[k] = running[k] /\ running[k] \in Permits
      BY <2>0, <2>2 DEF CallShape
    <3> QED
      BY <3>1, <2>2 DEF Ownership, OneOwnerPerJob, CallShape
  <2> QED
    BY <2>1, <2>2 DEF OneOwnerPerJob
<1>2. WorkerOwnsItsRecord'
  BY <1>n DEF Ownership, OneOwnerPerJob, WorkerOwnsItsRecord, CallShape
<1>3. QueuedOnce'
  <2>1. \A m, n \in Nat : n <= 1 /\ (m <= n \/ m = 1) => m <= 1
    OBVIOUS
  <2> SUFFICES ASSUME NEW k \in Jobs
               PROVE  Len(queue'[k]) <= 1
    BY DEF QueuedOnce
  <2>2. Len(queue[k]) <= 1
    BY DEF Ownership, QueuedOnce
  <2>3. Len(queue'[k]) <= Len(queue[k]) \/ Len(queue'[k]) = 1
    BY DEF CallShape
  <2>4. Len(queue[k]) \in Nat /\ Len(queue'[k]) \in Nat
    BY <1>l
  <2> QED
    BY <2>1, <2>2, <2>3, <2>4, Zenon
<1>4. NothingQueuedBehindWork'
  BY <1>n, <1>l DEF Ownership, OneOwnerPerJob, NothingQueuedBehindWork, CallShape
<1> QED
  BY <1>1, <1>2, <1>3, <1>4 DEF Ownership

\* A task that moves on stays the owner, writes the record its new place goes
\* with, and finds its job's queue empty when it pushes.
LEMMA MoveKeeps ==
    ASSUME Types, Types', Ownership, NEW p \in Permits, MoveShape(p)
    PROVE  Ownership'
<1> DEFINE j == tasks[p].job
<1>n. NoPermit \notin Permits /\ Working \subseteq Owning /\ Waiting \subseteq Owning
  BY SchedulerAssumption DEF Owning
<1>l. \A k \in Jobs : /\ Len(queue[k]) \in Nat /\ (Len(queue[k]) = 0 <=> queue[k] = <<>>)
                      /\ Len(queue'[k]) \in Nat /\ (Len(queue'[k]) = 0 <=> queue'[k] = <<>>)
  BY QueueLengths
<1>p. /\ j \in Jobs /\ tasks[p].pc \in Owning /\ tasks'[p].pc \in Owning /\ running[j] = p
      /\ queue[j] = <<>>
  BY DEF Ownership, OneOwnerPerJob, NothingQueuedBehindWork, MoveShape
<1>d. \A q \in Permits : (q # p /\ tasks[q].pc \in Owning) => tasks[q].job # j /\ tasks[q].job \in Jobs
  BY <1>p, OwnersDiffer DEF Ownership, OneOwnerPerJob
<1>1. OneOwnerPerJob'
  <2>1. \A q \in Permits : tasks'[q].pc \in Owning =>
            tasks'[q].job \in Jobs /\ running'[tasks'[q].job] = q
    BY <1>p, <1>d DEF Ownership, OneOwnerPerJob, MoveShape
  <2>2. ASSUME NEW k \in Jobs, running'[k] # NoPermit
        PROVE  tasks'[running'[k]].pc \in Owning /\ tasks'[running'[k]].job = k
    <3>1. /\ running'[k] = running[k] /\ running[k] \in Permits
          /\ tasks[running[k]].pc \in Owning /\ tasks[running[k]].job = k
      BY <2>2 DEF Types, TypeOK, Ownership, OneOwnerPerJob, MoveShape
    <3>2. CASE running[k] = p
      BY <1>p, <3>1, <3>2 DEF MoveShape
    <3>3. CASE running[k] # p
      BY <3>1, <3>3 DEF MoveShape
    <3> QED
      BY <3>2, <3>3
  <2> QED
    BY <2>1, <2>2 DEF OneOwnerPerJob
<1>2. WorkerOwnsItsRecord'
  <2> SUFFICES ASSUME NEW q \in Permits
               PROVE  /\ tasks'[q].pc \in Working => /\ jobs'[tasks'[q].job].state = "Running"
                                                     /\ jobs'[tasks'[q].job].attempt = tasks'[q].attempt
                      /\ tasks'[q].pc \in Waiting => /\ jobs'[tasks'[q].job].state = "Retrying"
                                                     /\ jobs'[tasks'[q].job].attempt = tasks'[q].attempt
    BY DEF WorkerOwnsItsRecord
  <2>1. CASE q = p
    BY <2>1 DEF Ownership, WorkerOwnsItsRecord, MoveShape
  <2>2. CASE q # p
    BY <1>n, <1>d, <2>2 DEF Ownership, WorkerOwnsItsRecord, MoveShape
  <2> QED
    BY <2>1, <2>2
<1>3. QueuedOnce'
  <2> SUFFICES ASSUME NEW k \in Jobs
               PROVE  Len(queue'[k]) <= 1
    BY DEF QueuedOnce
  <2>1. Len(queue[k]) <= 1
    BY DEF Ownership, QueuedOnce
  <2>2. CASE queue'[k] = queue[k]
    BY <2>1, <2>2
  <2>3. CASE k = j /\ Len(queue'[j]) = Len(queue[j]) + 1
    BY <1>l, <1>p, <2>3
  <2> QED
    BY <2>2, <2>3 DEF MoveShape
<1>4. NothingQueuedBehindWork'
  BY <1>p, <1>d DEF Ownership, NothingQueuedBehindWork, MoveShape
<1> QED
  BY <1>1, <1>2, <1>3, <1>4 DEF Ownership

\* Work is taken for a job without an owner, whose only entry it removes.
LEMMA DispatchKeeps ==
    ASSUME Types, Types', Ownership, NEW j \in Jobs, NEW p \in Permits, Dispatch(j, p)
    PROVE  Ownership'
<1> USE DEF Owning, Starting, Working, Waiting
<1>l. \A k \in Jobs : /\ Len(queue[k]) \in Nat /\ (Len(queue[k]) = 0 <=> queue[k] = <<>>)
                      /\ Len(queue'[k]) \in Nat /\ (Len(queue'[k]) = 0 <=> queue'[k] = <<>>)
  BY QueueLengths
<1>n. NoPermit \notin Permits /\ tasks \in [Permits -> GoodTask]
      /\ running \in [Jobs -> Permits \cup {NoPermit}]
  BY SchedulerAssumption DEF Types, TypeOK, TaskOK
<1>1. /\ jobs' = jobs
      /\ running[j] = NoPermit
      /\ running' = [running EXCEPT ![j] = p]
      /\ tasks[p].pc = "idle"
      /\ tasks'[p].pc = "read" /\ tasks'[p].job = j
      /\ \A q \in Permits : q # p => tasks'[q] = tasks[q]
  BY <1>n DEF Dispatch, TaskAt
<1>2. Len(queue'[j]) = Len(queue[j]) - 1 /\ \A k \in Jobs : k # j => queue'[k] = queue[k]
  BY PopFacts DEF Types, TypeOK, Dispatch
<1>3. queue'[j] = <<>>
  BY <1>l, <1>2 DEF Ownership, QueuedOnce
<1>4. OneOwnerPerJob'
  BY <1>n, <1>1 DEF Ownership, OneOwnerPerJob
<1>5. WorkerOwnsItsRecord'
  BY <1>1 DEF Ownership, WorkerOwnsItsRecord
<1>6. QueuedOnce'
  BY <1>l, <1>2, <1>3 DEF Ownership, QueuedOnce
<1>7. NothingQueuedBehindWork'
  BY <1>n, <1>1, <1>2, <1>3 DEF Ownership, OneOwnerPerJob, NothingQueuedBehindWork
<1> QED
  BY <1>4, <1>5, <1>6, <1>7 DEF Ownership

\* A start that failed gives its job up and may queue it again.
LEMMA StartFailKeeps ==
    ASSUME Types, Types', Ownership, NEW p \in Permits, StartFail(p)
    PROVE  Ownership'
<1> USE DEF Owning, Starting, Working, Waiting
<1> DEFINE j == tasks[p].job
<1>l. \A k \in Jobs : /\ Len(queue[k]) \in Nat /\ (Len(queue[k]) = 0 <=> queue[k] = <<>>)
                      /\ Len(queue'[k]) \in Nat /\ (Len(queue'[k]) = 0 <=> queue'[k] = <<>>)
  BY QueueLengths
<1>n. /\ NoPermit \notin Permits /\ tasks \in [Permits -> GoodTask]
      /\ running \in [Jobs -> Permits \cup {NoPermit}]
      /\ queue \in [Jobs -> Seq(0 .. 3)]
  BY SchedulerAssumption DEF Types, TypeOK, TaskOK
<1>1. /\ j \in Jobs /\ running[j] = p /\ queue[j] = <<>>
      /\ tasks[p].pc = "startfail"
      /\ jobs' = jobs
      /\ running' = [running EXCEPT ![j] = NoPermit]
      /\ tasks'[p].pc = "idle"
      /\ \A q \in Permits : q # p => tasks'[q] = tasks[q]
  BY <1>n DEF StartFail, EndTask, NoTask, TaskAt, Ownership, OneOwnerPerJob, NothingQueuedBehindWork
<1>2. Len(queue'[j]) <= 1 /\ \A k \in Jobs : k # j => queue'[k] = queue[k]
  <2>1. CASE queue' = queue
    BY <1>l, <1>1, <2>1
  <2>2. CASE Push(j, tasks[p].attempt - 1)
    <3>1. tasks[p].attempt - 1 \in 0 .. 3
      BY <1>n, <1>1, TaskFacts
    <3> QED
      BY <1>l, <1>n, <1>1, <2>2, <3>1, PushFacts
  <2> QED
    BY <2>1, <2>2 DEF StartFail
<1>d. \A q \in Permits : (q # p /\ tasks[q].pc \in Owning) => tasks[q].job # j /\ tasks[q].job \in Jobs
  BY <1>1, OwnersDiffer DEF Ownership, OneOwnerPerJob
<1>4. OneOwnerPerJob'
  <2>1. \A q \in Permits : tasks'[q].pc \in Owning =>
            tasks'[q].job \in Jobs /\ running'[tasks'[q].job] = q
    BY <1>n, <1>1, <1>d DEF Ownership, OneOwnerPerJob
  <2>2. ASSUME NEW k \in Jobs, running'[k] # NoPermit
        PROVE  tasks'[running'[k]].pc \in Owning /\ tasks'[running'[k]].job = k
    <3>1. k # j /\ running'[k] = running[k] /\ running[k] \in Permits
      BY <1>n, <1>1, <2>2
    <3>2. running[k] # p
      BY <1>1, <2>2, <3>1 DEF Ownership, OneOwnerPerJob
    <3> QED
      BY <1>1, <2>2, <3>1, <3>2 DEF Ownership, OneOwnerPerJob
  <2> QED
    BY <2>1, <2>2 DEF OneOwnerPerJob
<1>5. WorkerOwnsItsRecord'
  BY <1>1 DEF Ownership, WorkerOwnsItsRecord
<1>6. QueuedOnce'
  BY <1>2 DEF Ownership, QueuedOnce
<1>7. NothingQueuedBehindWork'
  BY <1>1, <1>2, <1>d DEF Ownership, NothingQueuedBehindWork
<1> QED
  BY <1>4, <1>5, <1>6, <1>7 DEF Ownership

\* A task that leaves the running map gives up its job.
LEMMA LeaveRunningKeeps ==
    ASSUME Types, Ownership, NEW p \in Permits, LeaveRunning(p)
    PROVE  Ownership'
<1> USE DEF Owning, Starting, Working, Waiting
<1> DEFINE j == tasks[p].job
<1>n. /\ NoPermit \notin Permits /\ tasks \in [Permits -> GoodTask]
      /\ running \in [Jobs -> Permits \cup {NoPermit}]
  BY SchedulerAssumption DEF Types, TypeOK, TaskOK
<1>1. /\ j \in Jobs /\ running[j] = p
      /\ tasks[p].pc = "remove"
      /\ jobs' = jobs /\ queue' = queue
      /\ running' = [running EXCEPT ![j] = NoPermit]
      /\ tasks'[p].pc = "reconcile"
      /\ \A q \in Permits : q # p => tasks'[q] = tasks[q]
  BY <1>n DEF LeaveRunning, TaskAt, Ownership, OneOwnerPerJob
<1>d. \A q \in Permits : (q # p /\ tasks[q].pc \in Owning) => tasks[q].job # j /\ tasks[q].job \in Jobs
  BY <1>1, OwnersDiffer DEF Ownership, OneOwnerPerJob
<1>4. OneOwnerPerJob'
  BY <1>n, <1>1, <1>d DEF Ownership, OneOwnerPerJob
<1>5. WorkerOwnsItsRecord'
  BY <1>1 DEF Ownership, WorkerOwnsItsRecord
<1>6. QueuedOnce'
  BY <1>1 DEF Ownership, QueuedOnce
<1>7. NothingQueuedBehindWork'
  BY <1>1 DEF Ownership, NothingQueuedBehindWork
<1> QED
  BY <1>4, <1>5, <1>6, <1>7 DEF Ownership

\* The last reconciliation of a task moves no record that has an owner.
LEMMA ReconcileAfterKeeps ==
    ASSUME Types, Ownership, NEW p \in Permits, ReconcileAfter(p)
    PROVE  Ownership'
<1> USE DEF Owning, Starting, Working, Waiting
<1>n. /\ NoPermit \notin Permits /\ tasks \in [Permits -> GoodTask]
      /\ running \in [Jobs -> Permits \cup {NoPermit}]
      /\ jobs \in [Jobs -> Row]
  BY SchedulerAssumption DEF Types, TypeOK, TaskOK
<1>1. /\ tasks[p].pc = "reconcile"
      /\ queue' = queue /\ running' = running
      /\ tasks'[p].pc = "idle"
      /\ \A q \in Permits : q # p => tasks'[q] = tasks[q]
  BY <1>n DEF ReconcileAfter, EndTask, NoTask, TaskAt
<1>2. \A k \in Jobs : jobs'[k] = jobs[k] \/ running[k] = NoPermit
  <2>1. tasks[p].job \in Jobs
    BY <1>n, <1>1, TaskFacts
  <2>2. ReconcileCancellation(tasks[p].job) \/ jobs' = jobs
    BY DEF ReconcileAfter
  <2> QED
    BY <1>n, <2>1, <2>2, ReconcileFacts DEF Owned
<1>4. OneOwnerPerJob'
  BY <1>n, <1>1 DEF Ownership, OneOwnerPerJob
<1>5. WorkerOwnsItsRecord'
  BY <1>n, <1>1, <1>2 DEF Ownership, OneOwnerPerJob, WorkerOwnsItsRecord
<1>6. QueuedOnce'
  BY <1>1 DEF Ownership, QueuedOnce
<1>7. NothingQueuedBehindWork'
  BY <1>1 DEF Ownership, NothingQueuedBehindWork
<1> QED
  BY <1>4, <1>5, <1>6, <1>7 DEF Ownership

\* A new process owns nothing.
LEMMA RestartKeeps ==
    ASSUME Types, Restart
    PROVE  Ownership'
<1>1. /\ queue' = [j \in Jobs |-> <<>>]
      /\ running' = [j \in Jobs |-> NoPermit]
      /\ tasks' = [p \in Permits |-> NoTask]
  BY DEF Restart
<1> QED
  BY <1>1 DEF Ownership, OneOwnerPerJob, WorkerOwnsItsRecord, QueuedOnce, NothingQueuedBehindWork,
              NoTask, TaskAt, Owning, Starting, Working, Waiting

\* Every step keeps the ownership part of the invariant.
LEMMA OwnershipStep ==
    ASSUME Types, Types', Ownership, [Next]_vars
    PROVE  Ownership'
<1>1. CASE Call
  BY <1>1, CallFacts, CallKeeps
<1>2. ASSUME NEW p \in Permits, Move(p) PROVE Ownership'
  BY <1>2, MoveFacts, MoveKeeps
<1>3. ASSUME NEW j \in Jobs, NEW p \in Permits, Dispatch(j, p) PROVE Ownership'
  BY <1>3, DispatchKeeps
<1>4. ASSUME NEW p \in Permits, StartFail(p) PROVE Ownership'
  BY <1>4, StartFailKeeps
<1>5. ASSUME NEW p \in Permits, LeaveRunning(p) PROVE Ownership'
  BY <1>5, LeaveRunningKeeps
<1>6. ASSUME NEW p \in Permits, ReconcileAfter(p) PROVE Ownership'
  BY <1>6, ReconcileAfterKeeps
<1>7. CASE Restart
  BY <1>7, RestartKeeps
<1>8. CASE UNCHANGED vars
  BY <1>8 DEF vars, Ownership, OneOwnerPerJob, WorkerOwnsItsRecord, QueuedOnce, NothingQueuedBehindWork
<1> QED
  BY <1>1, <1>2, <1>3, <1>4, <1>5, <1>6, <1>7, <1>8
     DEF Next, ClientStep, TaskStep, Call, Move

\* The invariant holds at the start.
LEMMA InitIInv ==
    ASSUME Init
    PROVE  IInv
<1> USE DEF Init
<1>1. TypeOK
  <2>1. NoTask \in Task
    BY NoTaskGood DEF GoodTask
  <2>2. jobs \in [Jobs -> Row] /\ tasks \in [Permits -> Task] /\ cancels \in [Jobs -> Cancel]
    BY <2>1, NewRowType, NoCancelType
  <2>3. queue \in [Jobs -> Seq(0 .. 3)]
    OBVIOUS
  <2>4. faults \in 0 .. MaxFaults /\ restarts \in 0 .. MaxRestarts
    BY SchedulerAssumption
  <2> HIDE DEF Init
  <2>5. /\ running \in [Jobs -> Permits \cup {NoPermit}]
        /\ pending \in [Jobs -> SUBSET (0 .. 3)]
        /\ shutting \in BOOLEAN
        /\ asked \in [Jobs -> BOOLEAN]
    BY DEF Init
  <2> QED
    BY <2>2, <2>3, <2>4, <2>5 DEF TypeOK
<1>2. TaskOK
  BY NoTaskGood DEF TaskOK
<1>3. OneOwnerPerJob /\ WorkerOwnsItsRecord /\ QueuedOnce /\ NothingQueuedBehindWork
  BY DEF OneOwnerPerJob, WorkerOwnsItsRecord, QueuedOnce, NothingQueuedBehindWork,
         NoTask, TaskAt, Owning, Starting, Working, Waiting
<1> QED
  BY <1>1, <1>2, <1>3 DEF IInv

\* The inductive invariant holds of every behaviour.
THEOREM Invariance == Spec => []IInv
<1>1. Init => IInv
  BY InitIInv
<1>2. IInv /\ [Next]_vars => IInv'
  BY TypeStep, OwnershipStep DEF IInv, Types, Ownership
<1> QED
  BY <1>1, <1>2, PTL DEF Spec

\* Type correctness: every variable keeps its type, whatever the instance.
THEOREM TypeCorrect == Spec => []TypeOK
<1>1. IInv => TypeOK
  BY DEF IInv
<1> QED
  BY <1>1, Invariance, PTL

\* The running map is exact: a job has at most one task at work on it, and the
\* map names that task, so a cancellation signals the right one.
THEOREM OneOwner == Spec => []OneOwnerPerJob
<1>1. IInv => OneOwnerPerJob
  BY DEF IInv
<1> QED
  BY <1>1, Invariance, PTL

\* While a worker runs nobody else moves its record, and the record counts the
\* attempt the worker was started under.
THEOREM WorkersOwnTheirRecords == Spec => []WorkerOwnsItsRecord
<1>1. IInv => WorkerOwnsItsRecord
  BY DEF IInv
<1> QED
  BY <1>1, Invariance, PTL

\* No sequence of submits, retries and failed starts queues a job twice.
THEOREM JobsAreQueuedOnce == Spec => []QueuedOnce
<1>1. IInv => QueuedOnce
  BY DEF IInv
<1> QED
  BY <1>1, Invariance, PTL

-----------------------------------------------------------------------------
\* Settled work stays settled.

\* The rows a step may not touch.
Final(row) == row.state \in {"Cancelled", "Complete"}

KeepsFinal == \A j \in Jobs : Final(jobs[j]) => jobs'[j].state = jobs[j].state

\* A transition the store accepts never leaves a final state.
LEMMA TransitionKeepsFinal ==
    ASSUME jobs \in [Jobs -> Row], NEW j \in Jobs, NEW to, NEW a, NEW b, NEW flag,
           TransitionAllowed(jobs[j], to, a, MaxAttempts[j]),
           jobs' = [jobs EXCEPT ![j] = Transitioned(@, to, b, flag)]
    PROVE  KeepsFinal
<1>1. ~Final(jobs[j])
      \/ Transitioned(jobs[j], to, b, flag).state = jobs[j].state
  BY DEF Final, TransitionAllowed, Reactivation, Terminal, Transitioned, Row
<1> QED
  BY <1>1 DEF KeepsFinal

\* A cancellation request never changes a state.
LEMMA RequestKeepsState ==
    ASSUME NEW row \in Row
    PROVE  CancelRequested(row).state = row.state
BY DEF CancelRequested, Row

\* The steps of a task: finish writes only what the transition table allows, the
\* cleanup and the retry's cancellation only flags, the reconciliation only
\* unsettled rows.
LEMMA TaskStepKeepsFinal ==
    ASSUME Types, NEW p \in Permits, TaskStep(p)
    PROVE  KeepsFinal
<1> USE DEF Types
<1>r. jobs \in [Jobs -> Row]
  BY DEF TypeOK
<1>s. jobs' = jobs => KeepsFinal
  BY DEF KeepsFinal
<1>1. CASE StartRead(p) \/ StartFail(p) \/ BackoffEnds(p) \/ LeaveRunning(p)
  BY <1>1, <1>s DEF StartRead, StartFail, BackoffEnds, LeaveRunning
<1>2. CASE \E outcome \in Outcomes : WorkerReturns(p, outcome)
  BY <1>2, <1>s DEF WorkerReturns
<1>j. tasks[p].pc \in Owning \cup {"reconcile"} => tasks[p].job \in Jobs
  <2>1. tasks[p] \in GoodTask
    BY DEF TaskOK
  <2> QED
    BY <2>1, TaskFacts DEF Owning, Starting, Working, Waiting
<1>3. CASE StartWrite(p)
  BY <1>3, <1>j, <1>r, <1>s, TransitionKeepsFinal DEF StartWrite, Owning, Starting
<1>4. CASE Cleanup(p)
  BY <1>4, <1>r, <1>s, RequestKeepsState DEF Cleanup, KeepsFinal
<1>5. CASE RetryCancel(p)
  BY <1>5, <1>r, <1>s, RequestKeepsState DEF RetryCancel, KeepsFinal
<1>6. CASE Settle(p)
  <2>1. tasks[p].job \in Jobs
    BY <1>6, <1>j DEF Settle, Owning, Working
  <2>2. CASE jobs' = jobs
    BY <2>2, <1>s
  <2>3. CASE jobs' # jobs
    <3> DEFINE j == tasks[p].job
               to == SettledState(tasks[p].outcome, tasks[p].attempt, MaxAttempts[j])
               b == IF to = "Retrying" THEN tasks[p].attempt ELSE jobs[j].attempt
    <3>1. /\ TransitionAllowed(jobs[j], to, jobs[j].attempt, MaxAttempts[j])
          /\ jobs' = [jobs EXCEPT ![j] = Transitioned(@, to, b, FALSE)]
      BY <1>6, <2>3 DEF Settle
    <3> HIDE DEF j, to, b
    <3> QED
      BY <2>1, <3>1, <1>r, TransitionKeepsFinal DEF j
  <2> QED
    BY <2>2, <2>3
<1>7. CASE Requeue(p)
  BY <1>7, <1>j, <1>r, <1>s, TransitionKeepsFinal DEF Requeue, RequeueAs, Owning, Waiting
<1>8. CASE ReconcileAfter(p)
  BY <1>8, <1>j, <1>r, <1>s, ReconcileFacts
     DEF ReconcileAfter, KeepsFinal, Final, Unsettled
<1> QED
  BY <1>1, <1>2, <1>3, <1>4, <1>5, <1>6, <1>7, <1>8 DEF TaskStep

\* The steps of a client: it creates rows that were absent, and reauthorizes or
\* retries what failed or is blocked.
LEMMA ClientStepKeepsFinal ==
    ASSUME Types, NEW j \in Jobs, ClientStep(j)
    PROVE  KeepsFinal
<1>r. jobs \in [Jobs -> Row]
  BY DEF Types, TypeOK
<1>s. jobs' = jobs => KeepsFinal
  BY DEF KeepsFinal
<1>1. CASE Start(j) \/ Reauthorize(j) \/ RequireAuthorization(j) \/ RetryWithWorker(j)
  <2>1. ~Final(jobs[j])
    BY <1>1 DEF Final, Start, Reauthorize, RequireAuthorization, RetryWithWorker, Retriable, SourceReauthorized
  <2>2. \A k \in Jobs : k # j => jobs'[k] = jobs[k]
    BY <1>1, <1>r DEF Start, Reauthorize, RequireAuthorization, RetryWithWorker
  <2> QED
    BY <2>1, <2>2 DEF KeepsFinal
<1>2. CASE StartAgain(j) \/ CancelBegin(j)
  BY <1>2, <1>s DEF StartAgain, CancelBegin
<1>3. CASE \E attempt \in pending[j] : Submit(j, attempt)
  BY <1>3, <1>s DEF Submit
<1>4. CASE RenderCancel(j)
  <2>1. jobs' = [jobs EXCEPT ![j] = CancelRequested(@)] \/ jobs' = jobs
    BY <1>4 DEF RenderCancel
  <2> QED
    BY <2>1, <1>r, <1>s, RequestKeepsState DEF KeepsFinal
<1> QED
  BY <1>1, <1>2, <1>3, <1>4 DEF ClientStep

\* The steps of a cancellation: it flags rows and settles unsettled ones.
LEMMA CancelStepKeepsFinal ==
    ASSUME Types, NEW j \in Jobs, CancelStep(j)
    PROVE  KeepsFinal
<1>r. jobs \in [Jobs -> Row]
  BY DEF Types, TypeOK
<1>s. jobs' = jobs => KeepsFinal
  BY DEF KeepsFinal
<1>1. CASE CancelRequest(j)
  <2>1. \/ jobs' = [k \in Jobs |-> IF k \in cancels[j].family
                                   THEN CancelRequested(jobs[k]) ELSE jobs[k]]
        \/ jobs' = jobs
    BY <1>1 DEF CancelRequest
  <2> QED
    BY <2>1, <1>r, <1>s, RequestKeepsState DEF KeepsFinal
<1>2. CASE \E k \in Jobs : CancelSignal(j, k)
  BY <1>2, <1>s DEF CancelSignal
<1>3. CASE \E k \in Jobs : CancelReconcile(j, k)
  <2>1. PICK k \in Jobs : ReconcileCancellation(k) \/ jobs' = jobs
    BY <1>3 DEF CancelReconcile
  <2> QED
    BY <2>1, <1>r, <1>s, ReconcileFacts DEF KeepsFinal, Final, Unsettled
<1>4. CASE CancelReturns(j)
  BY <1>4, <1>s DEF CancelReturns
<1> QED
  BY <1>1, <1>2, <1>3, <1>4 DEF CancelStep

\* A restart recovers only what was under way or queued.
LEMMA RestartKeepsFinal ==
    ASSUME jobs \in [Jobs -> Row], Restart
    PROVE  KeepsFinal
<1>1. \A j \in Jobs : Final(jobs[j]) => jobs'[j] = jobs[j]
  BY DEF Restart, Recovered, Interrupted, Final
<1> QED
  BY <1>1 DEF KeepsFinal

\* A cancelled job stays cancelled and a complete one complete, whatever stale
\* queue entry, late worker, retry, cancellation or restart comes after it.
THEOREM SettledStaysSettled == Spec => SettledForGood
<1>1. IInv /\ [Next]_vars => [KeepsFinal]_vars
  <2> SUFFICES ASSUME IInv, Next
               PROVE  KeepsFinal
    OBVIOUS
  <2>t. Types /\ jobs \in [Jobs -> Row]
    BY DEF IInv, Types, TypeOK
  <2>1. ASSUME NEW j \in Jobs, ClientStep(j) \/ CancelStep(j)
        PROVE  KeepsFinal
    BY <2>1, <2>t, ClientStepKeepsFinal, CancelStepKeepsFinal
  <2>2. ASSUME NEW p \in Permits, TaskStep(p)
        PROVE  KeepsFinal
    BY <2>2, <2>t, TaskStepKeepsFinal
  <2>3. CASE \E j \in Jobs, p \in Permits : Dispatch(j, p)
    BY <2>3 DEF Dispatch, KeepsFinal
  <2>4. CASE Shutdown
    BY <2>4 DEF Shutdown, KeepsFinal
  <2>5. CASE Restart
    BY <2>5, <2>t, RestartKeepsFinal
  <2> QED
    BY <2>1, <2>2, <2>3, <2>4, <2>5 DEF Next
<1>2. Spec => [][KeepsFinal]_vars
  BY <1>1, Invariance, PTL DEF Spec
<1>3. [KeepsFinal]_vars =>
          [\A j \in Jobs : jobs[j].state \in {"Cancelled", "Complete"} =>
               jobs'[j].state = jobs[j].state]_vars
  BY DEF KeepsFinal, Final
<1> QED
  BY <1>2, <1>3, PTL DEF SettledForGood

-----------------------------------------------------------------------------
\* Nothing is left behind: the invariant of one job

\* The store has worked so far, and no shutdown has begun.
Undisturbed == faults = 0 /\ ~shutting

HasOwner(j) == running[j] # NoPermit
OwnerAt(j) == tasks[running[j]].pc

\* Preparations belong to no scheduler, nothing here probes, and no attempt is beyond what
\* the row allows.
FitsItsRow(j) ==
    /\ jobs[j].state # "Probing"
    /\ jobs[j].state # "Absent" => Kind[j] # "Preparation"
    /\ jobs[j].attempt <= MaxAttempts[j]
    /\ \A a \in pending[j] : a <= MaxAttempts[j]

AbsentIsIdle(j) == jobs[j].state = "Absent" => queue[j] = <<>> /\ ~HasOwner(j) /\ pending[j] = {}

\* A token is set for a user, who asked for it.
SignalIsAsked(j) ==
    (~shutting /\ HasOwner(j) /\ tasks[running[j]].cancelled) =>
        tasks[running[j]].user /\ (Kind[j] # "FinalRender" => asked[j])

\* So is the flag of queued work, unless a restart has kept it.
FlagIsAsked(j) ==
    (jobs[j].state = "Queued" /\ jobs[j].cancel /\ ~asked[j]) =>
        restarts > 0 /\ \A a \in pending[j] : a >= jobs[j].attempt

\* A start that is refused is one of queued work.
StartIsQueued(j) ==
    (Undisturbed /\ HasOwner(j) /\ OwnerAt(j) \in {"write", "startfail"}) => jobs[j].state = "Queued"

\* Call k is going to reconcile job j.
WillReconcile(k, j) ==
    \/ cancels[k].pc \in {"request", "signal"} /\ j \in cancels[k].family
    \/ cancels[k].pc = "reconcile" /\ j \in cancels[k].todo

\* Somebody is going to reconcile job j.
Followed(j) ==
    \/ queue[j] # <<>>
    \/ HasOwner(j)
    \/ \E p \in Permits : tasks[p].pc = "reconcile" /\ tasks[p].job = j
    \/ \E k \in Jobs : WillReconcile(k, j)

\* A record in progress has a worker, or is flagged and going to be reconciled.
ActiveIsFollowed(j) ==
    (Undisturbed /\ jobs[j].state \in {"Running", "Retrying"}) =>
        \/ HasOwner(j) /\ OwnerAt(j) \in Working \cup Waiting
        \/ jobs[j].cancel /\ Followed(j)

\* Queued work that nobody asked to cancel.
Wanted(j) == jobs[j].state = "Queued" /\ ~asked[j] /\ Kind[j] # "FinalRender"

Coming == {"read", "write", "startfail"}

\* It has an entry, a client on the way to submit it, or a task about to start it.
WantedIsFollowed(j) ==
    (~shutting /\ restarts = 0 /\ Wanted(j)) =>
        \/ queue[j] # <<>>
        \/ ~HasOwner(j) /\ pending[j] # {}
        \/ HasOwner(j) /\ OwnerAt(j) \in Coming

\* And whoever starts it counts on from its record.
StartsAdvance(j) ==
    (~shutting /\ Wanted(j)) =>
        /\ \A i \in DOMAIN queue[j] : queue[j][i] >= jobs[j].attempt
        /\ (HasOwner(j) /\ OwnerAt(j) \in Coming) => tasks[running[j]].attempt > jobs[j].attempt
        /\ (queue[j] = <<>> /\ (HasOwner(j) => OwnerAt(j) = "remove")) =>
               \A a \in pending[j] : a >= jobs[j].attempt

Sound(j) ==
    /\ FitsItsRow(j) /\ AbsentIsIdle(j) /\ SignalIsAsked(j) /\ FlagIsAsked(j) /\ StartIsQueued(j)
    /\ ActiveIsFollowed(j) /\ WantedIsFollowed(j) /\ StartsAdvance(j)

\* Whom a call has asked, and signals or reconciles.
CallsHaveAsked ==
    \A k \in Jobs :
        /\ cancels[k].todo \subseteq cancels[k].family
        /\ cancels[k].pc \in {"signal", "reconcile", "wait"} => \A j \in cancels[k].family : asked[j]

Attendance == CallsHaveAsked /\ \A j \in Jobs : Sound(j)

-----------------------------------------------------------------------------
\* Frames

\* What a step does not touch of a job.
SameJob(j) == jobs'[j] = jobs[j] /\ queue'[j] = queue[j] /\ pending'[j] = pending[j] /\ asked'[j] = asked[j]

SameOwner(j) == running'[j] = running[j] /\ (running[j] # NoPermit => tasks'[running[j]] = tasks[running[j]])

\* Once disturbed, disturbed until the next start-up.
SameWorld == shutting' = shutting /\ restarts' = restarts /\ (faults' = 0 => faults = 0)

\* A job that a step does not touch stays sound while somebody follows it.
LEMMA Untouched ==
    ASSUME NEW j \in Jobs, Sound(j), SameJob(j), SameOwner(j), SameWorld,
           Undisturbed' /\ jobs[j].state \in {"Running", "Retrying"} /\ jobs[j].cancel /\ Followed(j)
               => Followed(j)'
    PROVE  Sound(j)'
<1>1. FitsItsRow(j)' /\ AbsentIsIdle(j)' /\ FlagIsAsked(j)'
  BY DEF Sound, SameJob, SameOwner, SameWorld, FitsItsRow, AbsentIsIdle, FlagIsAsked, HasOwner
<1>2. SignalIsAsked(j)' /\ StartIsQueued(j)'
  BY DEF Sound, SameJob, SameOwner, SameWorld, SignalIsAsked, StartIsQueued, HasOwner, OwnerAt, Undisturbed
<1>3. ActiveIsFollowed(j)'
  BY DEF Sound, SameJob, SameOwner, SameWorld, ActiveIsFollowed, HasOwner, OwnerAt, Undisturbed
<1>4. WantedIsFollowed(j)' /\ StartsAdvance(j)'
  BY DEF Sound, SameJob, SameOwner, SameWorld, WantedIsFollowed, StartsAdvance, HasOwner, OwnerAt,
         Undisturbed, Wanted
<1> QED
  BY <1>1, <1>2, <1>3, <1>4 DEF Sound

\* The fields a transition writes.
\* The steps of clients before their submit: a row that is queued afresh under the attempt
\* it has, or that waits for its authorization.
LEMMA StartSound ==
    ASSUME Types, NEW j \in Jobs, Sound(j), Start(j)
    PROVE  Sound(j)'
<1>0. jobs \in [Jobs -> Row] /\ pending \in [Jobs -> SUBSET (0 .. 3)] /\ MaxAttempts[j] \in 1 .. 3
  BY SchedulerAssumption DEF Types, TypeOK
<1>1. /\ jobs[j].state = "Absent" /\ Kind[j] # "Preparation"
      /\ jobs'[j].state = "Queued" /\ jobs'[j].attempt = 0 /\ jobs'[j].cancel = FALSE
      /\ pending'[j] = pending[j] \cup {0}
      /\ UNCHANGED <<queue, running, tasks, cancels, shutting, faults, restarts, asked>>
  BY <1>0 DEF Start
<1>2. queue[j] = <<>> /\ ~HasOwner(j) /\ pending[j] = {}
  BY <1>1 DEF Sound, AbsentIsIdle
<1>3. queue'[j] = <<>> /\ ~HasOwner(j)'
  BY <1>1, <1>2 DEF HasOwner
<1>4. pending'[j] = {0}
  BY <1>1, <1>2
<1>5. FitsItsRow(j)' /\ AbsentIsIdle(j)' /\ SignalIsAsked(j)' /\ FlagIsAsked(j)' /\ StartIsQueued(j)'
  BY <1>0, <1>1, <1>3, <1>4 DEF FitsItsRow, AbsentIsIdle, SignalIsAsked, FlagIsAsked, StartIsQueued
<1>6. ActiveIsFollowed(j)' /\ WantedIsFollowed(j)'
  BY <1>1, <1>3, <1>4 DEF ActiveIsFollowed, WantedIsFollowed
<1>7. StartsAdvance(j)'
  BY <1>1, <1>3, <1>4 DEF StartsAdvance
<1> QED
  BY <1>5, <1>6, <1>7 DEF Sound

\* A row that is queued already is submitted again under its attempt.
LEMMA StartAgainSound ==
    ASSUME Types, NEW j \in Jobs, Sound(j), StartAgain(j)
    PROVE  Sound(j)'
<1>0. jobs \in [Jobs -> Row] /\ pending \in [Jobs -> SUBSET (0 .. 3)] /\ jobs[j].attempt \in 0 .. 3
  BY RowFields DEF Types, TypeOK
<1>1. /\ jobs[j].state = "Queued"
      /\ pending'[j] = pending[j] \cup {jobs[j].attempt}
      /\ UNCHANGED <<jobs, queue, running, tasks, cancels, shutting, faults, restarts, asked>>
  BY <1>0 DEF StartAgain
<1>2. HasOwner(j)' = HasOwner(j) /\ OwnerAt(j)' = OwnerAt(j) /\ Wanted(j)' = Wanted(j)
      /\ Undisturbed' = Undisturbed
  BY <1>1 DEF HasOwner, OwnerAt, Wanted, Undisturbed
<1>5. FitsItsRow(j)' /\ AbsentIsIdle(j)' /\ FlagIsAsked(j)'
  BY <1>0, <1>1, <1>2 DEF Sound, FitsItsRow, AbsentIsIdle, FlagIsAsked
<1>6. SignalIsAsked(j)' /\ StartIsQueued(j)' /\ ActiveIsFollowed(j)'
  BY <1>1, <1>2 DEF Sound, SignalIsAsked, StartIsQueued, ActiveIsFollowed
<1>7. WantedIsFollowed(j)' /\ StartsAdvance(j)'
  BY <1>0, <1>1, <1>2 DEF Sound, WantedIsFollowed, StartsAdvance
<1> QED
  BY <1>5, <1>6, <1>7 DEF Sound

\* A blocked export comes back to the queue, under an attempt that starts it over.
LEMMA ReauthorizeSound ==
    ASSUME Types, NEW j \in Jobs, Sound(j), Reauthorize(j)
    PROVE  Sound(j)'
<1>0. /\ jobs \in [Jobs -> Row] /\ pending \in [Jobs -> SUBSET (0 .. 3)] /\ jobs[j].attempt \in 0 .. 3
      /\ jobs[j] \in Row
  BY RowFields DEF Types, TypeOK
<1>1. /\ jobs[j].state = "Blocked" /\ Kind[j] = "FinalRender"
      /\ jobs'[j].state = "Queued" /\ jobs'[j].attempt = jobs[j].attempt /\ jobs'[j].cancel = FALSE
      /\ pending'[j] = pending[j] \cup {jobs[j].attempt}
      /\ UNCHANGED <<queue, running, tasks, cancels, shutting, faults, restarts>>
  <2>1. jobs'[j] = Refreshed(jobs[j])
    BY <1>0 DEF Reauthorize
  <2> QED
    BY <1>0, <2>1 DEF Reauthorize, Refreshed, Row
<1>2. HasOwner(j)' = HasOwner(j) /\ OwnerAt(j)' = OwnerAt(j) /\ Undisturbed' = Undisturbed
  BY <1>1 DEF HasOwner, OwnerAt, Undisturbed
<1>5. FitsItsRow(j)' /\ AbsentIsIdle(j)' /\ FlagIsAsked(j)'
  BY <1>0, <1>1, <1>2 DEF Sound, FitsItsRow, AbsentIsIdle, FlagIsAsked
<1>6. SignalIsAsked(j)' /\ StartIsQueued(j)' /\ ActiveIsFollowed(j)'
  BY <1>1, <1>2 DEF Sound, SignalIsAsked, StartIsQueued, ActiveIsFollowed
<1>7. WantedIsFollowed(j)' /\ StartsAdvance(j)'
  BY <1>1 DEF WantedIsFollowed, StartsAdvance, Wanted
<1> QED
  BY <1>5, <1>6, <1>7 DEF Sound

\* A failed or blocked export waits for its authorization.
LEMMA RequireAuthorizationSound ==
    ASSUME Types, NEW j \in Jobs, Sound(j), RequireAuthorization(j)
    PROVE  Sound(j)'
<1>0. jobs \in [Jobs -> Row] /\ jobs[j] \in Row /\ MaxAttempts[j] \in 1 .. 3
  BY SchedulerAssumption DEF Types, TypeOK
<1>1. /\ jobs[j].state \in {"Failed", "Blocked"} /\ Kind[j] = "FinalRender"
      /\ jobs'[j].state = "Blocked" /\ jobs'[j].attempt = 0
      /\ UNCHANGED <<queue, running, tasks, pending, cancels, shutting, faults, restarts>>
  <2>1. jobs'[j] = Transitioned(jobs[j], "Blocked", 0, FALSE)
    BY <1>0 DEF RequireAuthorization
  <2>2. jobs'[j].state = "Blocked" /\ jobs'[j].attempt = 0
    <3>1. PICK row, new : row = jobs[j] /\ new = jobs'[j]
      OBVIOUS
    <3>2. new.state = "Blocked" /\ new.attempt = 0
      <4>1. row \in Row /\ new = Transitioned(row, "Blocked", 0, FALSE)
        BY <1>0, <2>1, <3>1
      <4> QED
        BY <4>1 DEF Transitioned, Row
    <3> QED
      BY <3>1, <3>2
  <2> QED
    BY <2>2 DEF RequireAuthorization
<1>2. HasOwner(j)' = HasOwner(j) /\ OwnerAt(j)' = OwnerAt(j) /\ Undisturbed' = Undisturbed
  BY <1>1 DEF HasOwner, OwnerAt, Undisturbed
<1>5. FitsItsRow(j)' /\ AbsentIsIdle(j)' /\ FlagIsAsked(j)'
  BY <1>0, <1>1, <1>2 DEF Sound, FitsItsRow, AbsentIsIdle, FlagIsAsked
<1>6. SignalIsAsked(j)' /\ StartIsQueued(j)' /\ ActiveIsFollowed(j)'
  BY <1>1, <1>2 DEF Sound, SignalIsAsked, StartIsQueued, ActiveIsFollowed
<1>7. WantedIsFollowed(j)' /\ StartsAdvance(j)'
  BY <1>1 DEF WantedIsFollowed, StartsAdvance, Wanted
<1> QED
  BY <1>5, <1>6, <1>7 DEF Sound

\* A client's retry queues the row and its entry at once.
LEMMA RetryWithWorkerSound ==
    ASSUME Types, NEW j \in Jobs, Sound(j), RetryWithWorker(j)
    PROVE  Sound(j)'
<1>0. /\ jobs \in [Jobs -> Row] /\ jobs[j] \in Row /\ MaxAttempts[j] \in 1 .. 3
      /\ queue \in [Jobs -> Seq(0 .. 3)] /\ pending \in [Jobs -> SUBSET (0 .. 3)]
  BY SchedulerAssumption DEF Types, TypeOK
<1>1. /\ jobs[j].state # "Absent" /\ queue[j] = <<>> /\ ~HasOwner(j)
      /\ jobs'[j].state = "Queued" /\ jobs'[j].attempt = 0 /\ jobs'[j].cancel = FALSE
      /\ queue'[j] = Append(queue[j], 0)
      /\ UNCHANGED <<running, tasks, pending, cancels, shutting, faults, restarts>>
  <2>1. jobs'[j] = Transitioned(jobs[j], "Queued", 0, FALSE)
    BY <1>0 DEF RetryWithWorker
  <2>2. jobs'[j].state = "Queued" /\ jobs'[j].attempt = 0 /\ jobs'[j].cancel = FALSE
    <3>1. PICK row, new : row = jobs[j] /\ new = jobs'[j]
      OBVIOUS
    <3>2. new.state = "Queued" /\ new.attempt = 0 /\ new.cancel = FALSE
      <4>1. row \in Row /\ new = Transitioned(row, "Queued", 0, FALSE)
        BY <1>0, <2>1, <3>1
      <4> QED
        BY <4>1 DEF Transitioned, Row
    <3> QED
      BY <3>1, <3>2
  <2>3. jobs[j].state # "Absent" /\ queue[j] = <<>> /\ ~HasOwner(j) /\ queue'[j] = Append(queue[j], 0)
    BY <1>0 DEF RetryWithWorker, Retriable, SourceReauthorized, Push, Owned, Queued, HasOwner
  <2> QED
    BY <2>2, <2>3 DEF RetryWithWorker
<1>2. ~HasOwner(j)' /\ queue'[j] = <<0>>
  BY <1>1 DEF HasOwner
<1>5. FitsItsRow(j)' /\ AbsentIsIdle(j)' /\ FlagIsAsked(j)'
  BY <1>0, <1>1, <1>2 DEF Sound, FitsItsRow, AbsentIsIdle, FlagIsAsked
<1>6. SignalIsAsked(j)' /\ StartIsQueued(j)' /\ ActiveIsFollowed(j)'
  BY <1>1, <1>2 DEF Sound, SignalIsAsked, StartIsQueued, ActiveIsFollowed
<1>7. WantedIsFollowed(j)' /\ StartsAdvance(j)'
  BY <1>0, <1>1, <1>2 DEF WantedIsFollowed, StartsAdvance
<1> QED
  BY <1>5, <1>6, <1>7 DEF Sound

\* The submit puts the entry of its client on the queue, or finds what it needs there.
LEMMA SubmitSound ==
    ASSUME Types, NEW j \in Jobs, Sound(j), NEW a \in pending[j], Submit(j, a)
    PROVE  Sound(j)'
<1>0. /\ queue \in [Jobs -> Seq(0 .. 3)] /\ pending \in [Jobs -> SUBSET (0 .. 3)]
      /\ pending'[j] \subseteq pending[j] /\ a \in 0 .. 3
      /\ UNCHANGED <<jobs, running, tasks, cancels, shutting, faults, restarts, asked>>
  BY DEF Types, TypeOK, Submit
<1>1. HasOwner(j)' = HasOwner(j) /\ OwnerAt(j)' = OwnerAt(j) /\ Wanted(j)' = Wanted(j)
      /\ Undisturbed' = Undisturbed
  BY <1>0 DEF HasOwner, OwnerAt, Wanted, Undisturbed
<1>2. /\ \/ queue' = queue /\ (shutting \/ j \in Owned)
         \/ j \notin Owned /\ queue'[j] = Append(queue[j], a)
      /\ Sound(j)
  <2>1. ~(a > MaxAttempts[j])
    <3>1. a <= MaxAttempts[j]
      BY DEF Sound, FitsItsRow
    <3>2. MaxAttempts[j] \in 1 .. 3
      BY SchedulerAssumption
    <3> QED
      BY <1>0, <3>1, <3>2
  <2> QED
    BY <1>0, <2>1 DEF Submit, Push
<1>3. jobs[j].state # "Absent"
  BY DEF Sound, AbsentIsIdle
<1>4. \/ queue'[j] = queue[j] /\ (shutting \/ queue[j] # <<>> \/ HasOwner(j))
      \/ queue[j] = <<>> /\ ~HasOwner(j) /\ queue'[j] = <<a>>
  BY <1>0, <1>2 DEF Owned, Queued, HasOwner
<1>5. FitsItsRow(j)' /\ AbsentIsIdle(j)' /\ FlagIsAsked(j)'
  BY <1>0, <1>1, <1>3 DEF Sound, FitsItsRow, AbsentIsIdle, FlagIsAsked
<1>6. SignalIsAsked(j)' /\ StartIsQueued(j)'
  BY <1>0, <1>1 DEF Sound, SignalIsAsked, StartIsQueued
<1>7. ActiveIsFollowed(j)'
  <2>1. Followed(j) => Followed(j)'
    BY <1>0, <1>1, <1>4 DEF Followed, WillReconcile
  <2> QED
    BY <1>0, <1>1, <2>1 DEF Sound, ActiveIsFollowed
<1>a. CASE queue'[j] = queue[j] /\ (shutting \/ queue[j] # <<>> \/ HasOwner(j))
  <2>1. WantedIsFollowed(j)'
    BY <1>0, <1>1, <1>a DEF Sound, WantedIsFollowed, Undisturbed
  <2>2. StartsAdvance(j)'
    BY <1>0, <1>1, <1>a DEF Sound, StartsAdvance
  <2> QED
    BY <1>5, <1>6, <1>7, <2>1, <2>2 DEF Sound
<1>b. CASE queue[j] = <<>> /\ ~HasOwner(j) /\ queue'[j] = <<a>>
  <2>0. queue'[j] # <<>> /\ \A i \in DOMAIN queue'[j] : queue'[j][i] = a
    BY <1>b
  <2>1. WantedIsFollowed(j)'
    BY <2>0 DEF WantedIsFollowed
  <2>2. StartsAdvance(j)'
    BY <1>0, <1>1, <1>b, <2>0 DEF Sound, StartsAdvance
  <2> QED
    BY <1>5, <1>6, <1>7, <2>1, <2>2 DEF Sound
<1> QED
  BY <1>4, <1>a, <1>b

-----------------------------------------------------------------------------
\* The steps of tasks

\* A write that fails is remembered.
LEMMA FailureDisturbs ==
    ASSUME Types, StoreFails
    PROVE  ~Undisturbed'
BY SchedulerAssumption DEF Types, TypeOK, StoreFails, Undisturbed

\* No write takes back that an earlier one failed.
LEMMA FaultsStay ==
    ASSUME Types, StoreOk \/ StoreFails
    PROVE  faults' = 0 => faults = 0
BY SchedulerAssumption DEF Types, TypeOK, StoreFails, StoreOk

\* The tokens of a task that moves on.
LEMMA MovedTokens ==
    ASSUME NEW t \in Task, NEW pc
    PROVE  Moved(t, pc).cancelled = t.cancelled /\ Moved(t, pc).user = t.user
BY DEF Moved, Task

\* A further try of a start changes no token.
LEMMA TriedAgainTokens ==
    ASSUME NEW t \in Task
    PROVE  TriedAgain(t).cancelled = t.cancelled /\ TriedAgain(t).user = t.user
BY DEF TriedAgain, Moved, Task

\* No step of a task before its end changes the tokens of the task.
LEMMA TokensStay ==
    ASSUME Types, NEW p \in Permits, Move(p)
    PROVE  tasks'[p].cancelled = tasks[p].cancelled /\ tasks'[p].user = tasks[p].user
<1>1. tasks[p] \in Task /\ tasks \in [Permits -> Task]
  BY DEF Types, TypeOK
<1>2. ASSUME NEW pc, Goto(p, pc)
      PROVE  tasks'[p].cancelled = tasks[p].cancelled /\ tasks'[p].user = tasks[p].user
  BY <1>1, <1>2, MovedTokens DEF Goto
<1>3. ASSUME tasks' = [tasks EXCEPT ![p] = TriedAgain(@)]
      PROVE  tasks'[p].cancelled = tasks[p].cancelled /\ tasks'[p].user = tasks[p].user
  BY <1>1, <1>3, TriedAgainTokens
<1>4. ASSUME NEW outcome \in Outcomes, WorkerReturns(p, outcome)
      PROVE  tasks'[p].cancelled = tasks[p].cancelled /\ tasks'[p].user = tasks[p].user
  <2>1. CASE \E pc : Goto(p, pc)
    BY <1>2, <2>1
  <2>2. CASE tasks' = [tasks EXCEPT ![p] = [tasks[p] EXCEPT !.pc = "settle", !.outcome = outcome,
                                                  !.saw = jobs[tasks[p].job].cancel]]
    BY <1>1, <2>2 DEF Task
  <2> QED
    BY <1>4, <2>1, <2>2 DEF WorkerReturns
<1>5. (\E pc : Goto(p, pc)) \/ tasks' = [tasks EXCEPT ![p] = TriedAgain(@)]
      \/ \E outcome \in Outcomes : WorkerReturns(p, outcome)
  BY DEF Move, StartRead, StartWrite, Cleanup, Settle, BackoffEnds, RetryCancel, Requeue
<1> QED
  BY <1>2, <1>3, <1>4, <1>5

\* What all steps of an owner leave as it is.
LEMMA MoveFrame ==
    ASSUME Types, NEW p \in Permits, Move(p)
    PROVE  /\ UNCHANGED <<running, pending, cancels, shutting, restarts, asked>>
           /\ SameWorld
<1>1. UNCHANGED <<running, pending, cancels, shutting, restarts, asked>>
  BY DEF Move, StartRead, StartWrite, WorkerReturns, Cleanup, Settle, BackoffEnds, RetryCancel, Requeue
<1>2. StoreOk \/ StoreFails
  BY DEF Move, StartRead, StartWrite, WorkerReturns, Cleanup, Settle, BackoffEnds, RetryCancel, Requeue,
         StoreOk
<1> QED
  BY <1>1, <1>2, FaultsStay DEF SameWorld

\* The job of a task that moves on has it as its owner, before and after.
MovesOwner(p, j) ==
    /\ j = tasks[p].job /\ running[j] = p
    /\ HasOwner(j) /\ HasOwner(j)' /\ OwnerAt(j) = tasks[p].pc /\ OwnerAt(j)' = tasks'[p].pc
    /\ tasks'[running'[j]].attempt = tasks[p].attempt
    /\ tasks[running[j]].attempt = tasks[p].attempt
    /\ UNCHANGED <<running, pending, cancels, shutting, restarts, asked>>
    /\ SameWorld
    /\ queue[j] = <<>>
    /\ SignalIsAsked(j)'
    /\ Followed(j)'

\* A step of a task is a step of the owner of its job.
LEMMA MoveOwner ==
    ASSUME Types, Ownership, NEW p \in Permits, Move(p), NEW j \in Jobs, j = tasks[p].job, Sound(j)
    PROVE  MovesOwner(p, j)
<1>1. MoveShape(p) /\ p # NoPermit
  BY MoveFacts, SchedulerAssumption
<1>2. running[j] = p /\ running'[j] = p /\ queue[j] = <<>>
  BY <1>1 DEF MoveShape, Ownership, OneOwnerPerJob, NothingQueuedBehindWork
<1>3. HasOwner(j) /\ HasOwner(j)' /\ OwnerAt(j) = tasks[p].pc /\ OwnerAt(j)' = tasks'[p].pc
  BY <1>1, <1>2 DEF HasOwner, OwnerAt
<1>4. SignalIsAsked(j)'
  BY <1>1, <1>2, <1>3, TokensStay, MoveFrame DEF Sound, SignalIsAsked, HasOwner
<1>5. Followed(j)'
  BY <1>3 DEF Followed
<1>6. tasks'[running'[j]].attempt = tasks[p].attempt /\ tasks[running[j]].attempt = tasks[p].attempt
  BY <1>1, <1>2 DEF MoveShape
<1> QED
  BY <1>1, <1>2, <1>3, <1>4, <1>5, <1>6, MoveFrame DEF MovesOwner

\* Other jobs stay followed while a task of one job goes on and no call does.
LEMMA OthersFollowed ==
    ASSUME Types, NEW k \in Jobs, NEW p \in Permits,
           tasks[p].pc = "idle" \/ tasks[p].job # k,
           \A q \in Permits : q # p => tasks'[q] = tasks[q],
           cancels' = cancels, SameJob(k), running'[k] = running[k],
           Followed(k)
    PROVE  Followed(k)'
BY DEF Followed, SameJob, HasOwner, WillReconcile

\* The owner of another job is as it was.
LEMMA OthersKeepOwner ==
    ASSUME Types, OneOwnerPerJob, NEW k \in Jobs, NEW p \in Permits,
           tasks[p].pc = "idle" \/ tasks[p].job # k,
           \A q \in Permits : q # p => tasks'[q] = tasks[q],
           running'[k] = running[k]
    PROVE  SameOwner(k)
<1>1. running[k] # NoPermit => running[k] \in Permits /\ running[k] # p
  <2>1. running[k] # NoPermit => running[k] \in Permits
    BY DEF Types, TypeOK
  <2> QED
    BY <2>1 DEF OneOwnerPerJob, Owning, Starting, Working, Waiting
<1> QED
  BY <1>1 DEF SameOwner

\* A step of a task leaves what holds of every other job.
LEMMA MoveLeavesOthers ==
    ASSUME Types, Ownership, NEW p \in Permits, Move(p),
           NEW k \in Jobs, k # tasks[p].job, Sound(k)
    PROVE  Sound(k)'
<1>1. MoveShape(p)
  BY MoveFacts
<1>2. SameJob(k) /\ SameWorld /\ running'[k] = running[k] /\ cancels' = cancels
  BY <1>1, MoveFrame DEF MoveShape, SameJob
<1>3. \A q \in Permits : q # p => tasks'[q] = tasks[q]
  BY <1>1 DEF MoveShape
<1>4. SameOwner(k)
  BY <1>2, <1>3, OthersKeepOwner DEF Ownership
<1>5. Followed(k) => Followed(k)'
  BY <1>2, <1>3, OthersFollowed
<1> QED
  BY <1>2, <1>4, <1>5, Untouched

-----------------------------------------------------------------------------
\* Where a task goes.
LEMMA GotoPc ==
    ASSUME Types, NEW p \in Permits, NEW pc, Goto(p, pc)
    PROVE  tasks'[p].pc = pc
BY DEF Goto, Moved, Types, TypeOK, Task

\* A read leaves a task about to start queued work, or about to leave.
LEMMA StartReadSound ==
    ASSUME Types, Ownership, NEW p \in Permits, StartRead(p), NEW j \in Jobs, j = tasks[p].job, Sound(j)
    PROVE  Sound(j)'
<1>0. MovesOwner(p, j)
  BY MoveOwner DEF Move
<1>1. /\ tasks[p].pc = "read" /\ UNCHANGED <<jobs, queue>>
      /\ \/ /\ jobs[j].state = "Queued" /\ ~jobs[j].cancel /\ tasks'[p].pc = "write"
         \/ /\ ~(jobs[j].state = "Queued" /\ ~jobs[j].cancel) /\ tasks'[p].pc = "remove"
         \/ ~Undisturbed' /\ tasks'[p].pc = "startfail"
  BY GotoPc, FailureDisturbs DEF StartRead
<1>2. FitsItsRow(j)' /\ AbsentIsIdle(j)' /\ FlagIsAsked(j)' /\ StartIsQueued(j)'
  BY <1>0, <1>1 DEF Sound, MovesOwner, FitsItsRow, AbsentIsIdle, FlagIsAsked, StartIsQueued
<1>3. ActiveIsFollowed(j)'
  BY <1>0, <1>1 DEF Sound, MovesOwner, SameWorld, ActiveIsFollowed, Undisturbed, Working, Waiting
<1>4. WantedIsFollowed(j)'
  BY <1>0, <1>1 DEF Sound, MovesOwner, SameWorld, WantedIsFollowed, FlagIsAsked, Undisturbed, Wanted, Coming
<1>5. StartsAdvance(j)'
  BY <1>0, <1>1 DEF Sound, MovesOwner, SameWorld, StartsAdvance, FlagIsAsked, Wanted, Coming
<1> QED
  BY <1>0, <1>2, <1>3, <1>4, <1>5 DEF Sound, MovesOwner

\* A start makes the record running under the attempt of the task, or tries again.
LEMMA StartWriteSound ==
    ASSUME Types, Ownership, NEW p \in Permits, StartWrite(p), NEW j \in Jobs, j = tasks[p].job, Sound(j)
    PROVE  Sound(j)'
<1>0. MovesOwner(p, j)
  BY MoveOwner DEF Move
<1>t. jobs \in [Jobs -> Row] /\ jobs[j] \in Row /\ tasks \in [Permits -> GoodTask] /\ tasks[p] \in GoodTask
      /\ MaxAttempts[j] \in 1 .. 3
  BY SchedulerAssumption DEF Types, TypeOK, TaskOK
<1>1. CASE /\ TransitionAllowed(jobs[j], "Running", tasks[p].attempt, MaxAttempts[j])
           /\ jobs' = [jobs EXCEPT ![j] = Transitioned(@, "Running", tasks[p].attempt, FALSE)]
           /\ Goto(p, "work")
  <2>1. tasks'[p].pc = "work" /\ jobs'[j].state = "Running" /\ jobs'[j].attempt = tasks[p].attempt
    BY <1>1, <1>t, GotoPc DEF Transitioned, Row
  <2>2. FitsItsRow(j)' /\ AbsentIsIdle(j)'
    BY <1>0, <1>1, <2>1
       DEF Sound, MovesOwner, FitsItsRow, AbsentIsIdle, TransitionAllowed, Missing
  <2>3. FlagIsAsked(j)' /\ StartIsQueued(j)' /\ ActiveIsFollowed(j)' /\ WantedIsFollowed(j)' /\ StartsAdvance(j)'
    BY <1>0, <2>1 DEF MovesOwner, FlagIsAsked, StartIsQueued, ActiveIsFollowed, WantedIsFollowed,
                      StartsAdvance, Wanted, Working
  <2> QED
    BY <1>0, <2>2, <2>3 DEF Sound, MovesOwner
<1>2. CASE tasks' = [tasks EXCEPT ![p] = TriedAgain(@)] /\ UNCHANGED jobs
  <2>1. tasks[p].pc = "write" /\ tasks'[p].pc \in {"read", "startfail"} /\ queue' = queue
    BY <1>2, <1>t, TriedAgainFields DEF StartWrite
  <2>2. FitsItsRow(j)' /\ AbsentIsIdle(j)' /\ FlagIsAsked(j)' /\ StartIsQueued(j)'
    BY <1>0, <1>2, <2>1 DEF Sound, MovesOwner, SameWorld, Undisturbed, FitsItsRow, AbsentIsIdle, FlagIsAsked,
                            StartIsQueued
  <2>3. ActiveIsFollowed(j)' /\ WantedIsFollowed(j)' /\ StartsAdvance(j)'
    BY <1>0, <1>2, <2>1 DEF Sound, MovesOwner, SameWorld, Undisturbed, ActiveIsFollowed, WantedIsFollowed,
                            StartsAdvance, Wanted, Working, Waiting, Coming
  <2> QED
    BY <1>0, <2>2, <2>3 DEF Sound, MovesOwner
<1> QED
  BY <1>1, <1>2 DEF StartWrite

\* A worker that returns leaves the record to its task.
LEMMA WorkerReturnsSound ==
    ASSUME Types, Ownership, NEW p \in Permits, NEW outcome \in Outcomes, WorkerReturns(p, outcome),
           NEW j \in Jobs, j = tasks[p].job, Sound(j)
    PROVE  Sound(j)'
<1>0. MovesOwner(p, j)
  BY MoveOwner DEF Move
<1>1. UNCHANGED <<jobs, queue>> /\ tasks[p].pc = "work" /\ jobs[j].state = "Running"
  BY DEF WorkerReturns, Ownership, WorkerOwnsItsRecord, Working
<1>2. \/ tasks'[p].pc \in {"cleanup", "settle"}
      \/ tasks'[p].pc = "remove" /\ tasks[p].cancelled /\ ~tasks[p].user
  <2>1. tasks[p] \in Task /\ tasks \in [Permits -> Task]
    BY DEF Types, TypeOK
  <2>2. \/ Goto(p, "cleanup")
        \/ Goto(p, "remove") /\ tasks[p].cancelled /\ ~tasks[p].user
        \/ tasks' = [tasks EXCEPT ![p] = [tasks[p] EXCEPT !.pc = "settle", !.outcome = outcome,
                                                  !.saw = jobs[tasks[p].job].cancel]]
    BY DEF WorkerReturns
  <2>3. ASSUME tasks' = [tasks EXCEPT ![p] = [tasks[p] EXCEPT !.pc = "settle", !.outcome = outcome,
                                                  !.saw = jobs[tasks[p].job].cancel]]
        PROVE  tasks'[p].pc = "settle"
    BY <2>1, <2>3 DEF Task
  <2> QED
    BY <2>2, <2>3, GotoPc
<1>3. tasks'[p].pc = "remove" => shutting
  BY <1>0, <1>2 DEF Sound, MovesOwner, SignalIsAsked
<1>4. FitsItsRow(j)' /\ AbsentIsIdle(j)' /\ FlagIsAsked(j)' /\ StartIsQueued(j)'
  BY <1>0, <1>1, <1>2 DEF Sound, MovesOwner, FitsItsRow, AbsentIsIdle, FlagIsAsked, StartIsQueued
<1>5. ActiveIsFollowed(j)' /\ WantedIsFollowed(j)' /\ StartsAdvance(j)'
  BY <1>0, <1>1, <1>2, <1>3 DEF MovesOwner, Undisturbed, ActiveIsFollowed, WantedIsFollowed,
                            StartsAdvance, Wanted, Working, Waiting
<1> QED
  BY <1>0, <1>4, <1>5 DEF Sound, MovesOwner

\* After a worker that stopped for its cancellation, the task records the request and leaves.
LEMMA CleanupSound ==
    ASSUME Types, Ownership, NEW p \in Permits, Cleanup(p), NEW j \in Jobs, j = tasks[p].job, Sound(j)
    PROVE  Sound(j)'
<1>0. MovesOwner(p, j)
  BY MoveOwner DEF Move
<1>t. jobs \in [Jobs -> Row] /\ jobs[j] \in Row
  BY DEF Types, TypeOK
<1>1. queue' = queue /\ tasks[p].pc = "cleanup" /\ jobs[j].state = "Running" /\ tasks'[p].pc = "remove"
  BY GotoPc DEF Cleanup, Ownership, WorkerOwnsItsRecord, Working
<1>2. /\ jobs'[j].state = "Running" /\ jobs'[j].attempt = jobs[j].attempt
      /\ jobs'[j].cancel \/ ~Undisturbed'
  <2>1. CancelRequested(jobs[j]).cancel
    BY <1>1, <1>t DEF CancelRequested, Row, Unsettled
  <2> QED
    BY <1>1, <1>t, <2>1, CancelRequestedFields, FailureDisturbs DEF Cleanup
<1>3. FitsItsRow(j)' /\ AbsentIsIdle(j)' /\ FlagIsAsked(j)' /\ StartIsQueued(j)'
  BY <1>0, <1>1, <1>2 DEF Sound, MovesOwner, FitsItsRow, AbsentIsIdle, FlagIsAsked, StartIsQueued
<1>4. ActiveIsFollowed(j)' /\ WantedIsFollowed(j)' /\ StartsAdvance(j)'
  BY <1>0, <1>1, <1>2 DEF MovesOwner, ActiveIsFollowed, WantedIsFollowed, StartsAdvance, Wanted
<1> QED
  BY <1>0, <1>3, <1>4 DEF Sound, MovesOwner

\* The transitions that finish makes are legal, so it leaves the record behind only
\* for a cancellation.
LEMMA SettleIsAllowed ==
    ASSUME NEW row \in Row, NEW max \in 1 .. 3, row.state = "Running", row.attempt <= max, NEW outcome
    PROVE  LET to == SettledState(outcome, row.attempt, max) IN
           /\ TransitionAllowed(row, to, row.attempt, max)
           /\ to = "Retrying" => HasRetryDelay(row.attempt - 1)
<1> DEFINE to == SettledState(outcome, row.attempt, max)
<1>1. to \in {"Complete", "Blocked", "Retrying", "Failed"}
  BY SettledStates
<1>2. to = "Retrying" => row.attempt < max
  BY DEF SettledState
<1>3. row.attempt \in 0 .. 3
  BY DEF Row
<1> HIDE DEF to
<1>4. TransitionAllowed(row, to, row.attempt, max)
  BY <1>1 DEF TransitionAllowed, CanTransitionTo, Missing, Terminal
<1>5. to = "Retrying" => HasRetryDelay(row.attempt - 1)
  BY <1>2, <1>3 DEF HasRetryDelay
<1> QED
  BY <1>4, <1>5 DEF to

\* A settlement ends the record, or leaves it between two attempts of its task.
LEMMA SettleSound ==
    ASSUME Types, Ownership, NEW p \in Permits, Settle(p), NEW j \in Jobs, j = tasks[p].job, Sound(j)
    PROVE  Sound(j)'
<1>0. MovesOwner(p, j)
  BY MoveOwner DEF Move
<1>t. jobs \in [Jobs -> Row] /\ jobs[j] \in Row /\ MaxAttempts[j] \in 1 .. 3
  BY SchedulerAssumption DEF Types, TypeOK
<1>1. /\ queue' = queue /\ tasks[p].pc = "settle"
      /\ jobs[j].state = "Running" /\ jobs[j].attempt = tasks[p].attempt
  BY DEF Settle, Ownership, WorkerOwnsItsRecord, Working
<1> DEFINE to == SettledState(tasks[p].outcome, jobs[j].attempt, MaxAttempts[j])
<1>2. /\ to \in {"Complete", "Blocked", "Retrying", "Failed"}
      /\ TransitionAllowed(jobs[j], to, jobs[j].attempt, MaxAttempts[j])
      /\ to = "Retrying" => HasRetryDelay(jobs[j].attempt - 1)
  BY <1>1, <1>t, SettledStates, SettleIsAllowed DEF Sound, FitsItsRow
<1>3. \/ /\ jobs'[j].state = to /\ jobs'[j].attempt = jobs[j].attempt
         /\ tasks'[p].pc = IF to = "Retrying" THEN "backoff" ELSE "remove"
      \/ /\ UNCHANGED jobs
         /\ jobs[j].cancel \/ ~Undisturbed'
         /\ tasks'[p].pc = "remove"
  <2>1. \/ /\ jobs' = [jobs EXCEPT ![j] = Transitioned(@, to, jobs[j].attempt, FALSE)]
           /\ Goto(p, IF to = "Retrying" THEN "backoff" ELSE "remove")
        \/ /\ UNCHANGED jobs /\ Goto(p, "remove")
           /\ RefusedAsStale(jobs[j], tasks[p].saw) \/ StoreFails
    <3> HIDE DEF to
    <3>1. SettledState(tasks[p].outcome, tasks[p].attempt, MaxAttempts[j]) = to
      BY <1>1 DEF to
    <3> QED
      BY <1>1, <1>2, <3>1 DEF Settle
  <2> HIDE DEF to
  <2>2. ASSUME jobs' = [jobs EXCEPT ![j] = Transitioned(@, to, jobs[j].attempt, FALSE)]
        PROVE  jobs'[j].state = to /\ jobs'[j].attempt = jobs[j].attempt
    BY <2>2, <1>t DEF Transitioned, Row
  <2> QED
    BY <2>1, <2>2, GotoPc, FailureDisturbs DEF RefusedAsStale
<1> HIDE DEF to
<1>4. FitsItsRow(j)' /\ AbsentIsIdle(j)' /\ FlagIsAsked(j)' /\ StartIsQueued(j)'
  BY <1>0, <1>1, <1>2, <1>3 DEF Sound, MovesOwner, FitsItsRow, AbsentIsIdle, FlagIsAsked, StartIsQueued
<1>5. ActiveIsFollowed(j)' /\ WantedIsFollowed(j)' /\ StartsAdvance(j)'
  BY <1>0, <1>1, <1>2, <1>3 DEF MovesOwner, ActiveIsFollowed, WantedIsFollowed, StartsAdvance, Wanted, Waiting
<1> QED
  BY <1>0, <1>4, <1>5 DEF Sound, MovesOwner

-----------------------------------------------------------------------------

\* A task that leaves its retry delay by its token was signalled for a user, or a
\* shutdown has begun.
LEMMA RetryLeaves ==
    ASSUME Types, Ownership, NEW p \in Permits, Move(p), NEW j \in Jobs, j = tasks[p].job, Sound(j),
           tasks[p].pc \in Waiting, UNCHANGED <<jobs, queue>>,
           \/ tasks'[p].pc \in Waiting
           \/ tasks'[p].pc = "remove" /\ tasks[p].cancelled /\ ~tasks[p].user
           \/ tasks'[p].pc = "remove" /\ (jobs[j].cancel \/ ~Undisturbed')
    PROVE  Sound(j)'
<1>0. MovesOwner(p, j)
  BY MoveOwner
<1>1. jobs[j].state = "Retrying"
  BY DEF Ownership, WorkerOwnsItsRecord
<1>2. tasks'[p].pc \in Waiting \/ jobs[j].cancel \/ ~Undisturbed'
  BY <1>0 DEF Sound, MovesOwner, SignalIsAsked, Undisturbed
<1>3. FitsItsRow(j)' /\ AbsentIsIdle(j)' /\ FlagIsAsked(j)' /\ StartIsQueued(j)'
  BY <1>0, <1>1 DEF Sound, MovesOwner, FitsItsRow, AbsentIsIdle, FlagIsAsked, StartIsQueued, Waiting
<1>4. ActiveIsFollowed(j)' /\ WantedIsFollowed(j)' /\ StartsAdvance(j)'
  BY <1>0, <1>1, <1>2 DEF MovesOwner, ActiveIsFollowed, WantedIsFollowed, StartsAdvance, Wanted
<1> QED
  BY <1>0, <1>3, <1>4 DEF Sound, MovesOwner

\* The delay before the next attempt ends, or is cut short by a token.
LEMMA BackoffEndsSound ==
    ASSUME Types, Ownership, NEW p \in Permits, BackoffEnds(p), NEW j \in Jobs, j = tasks[p].job, Sound(j)
    PROVE  Sound(j)'
<1>1. \/ tasks'[p].pc \in Waiting
      \/ tasks'[p].pc = "remove" /\ tasks[p].cancelled /\ ~tasks[p].user
  <2>1. PICK pc : Goto(p, pc) /\ pc = IF tasks[p].cancelled THEN AfterRetryCancel(tasks[p]) ELSE "requeue"
    BY DEF BackoffEnds
  <2> QED
    BY <2>1, GotoPc DEF AfterRetryCancel, Waiting
<1>2. tasks[p].pc \in Waiting /\ UNCHANGED <<jobs, queue>> /\ Move(p)
  BY DEF BackoffEnds, Waiting, Move
<1> QED
  BY <1>1, <1>2, RetryLeaves

\* A task whose delay a client cut short records the cancellation.
LEMMA RetryCancelSound ==
    ASSUME Types, Ownership, NEW p \in Permits, RetryCancel(p), NEW j \in Jobs, j = tasks[p].job, Sound(j)
    PROVE  Sound(j)'
<1>0. MovesOwner(p, j)
  BY MoveOwner DEF Move
<1>t. jobs \in [Jobs -> Row] /\ jobs[j] \in Row
  BY DEF Types, TypeOK
<1>1. queue' = queue /\ tasks[p].pc = "retrycancel" /\ jobs[j].state = "Retrying" /\ tasks'[p].pc = "remove"
  BY GotoPc DEF RetryCancel, Ownership, WorkerOwnsItsRecord, Waiting
<1>2. /\ jobs'[j].state = "Retrying" /\ jobs'[j].attempt = jobs[j].attempt
      /\ jobs'[j].cancel \/ ~Undisturbed'
  <2>1. CancelRequested(jobs[j]).cancel
    BY <1>1, <1>t DEF CancelRequested, Row, Unsettled
  <2> QED
    BY <1>1, <1>t, <2>1, CancelRequestedFields, FailureDisturbs DEF RetryCancel
<1>3. FitsItsRow(j)' /\ AbsentIsIdle(j)' /\ FlagIsAsked(j)' /\ StartIsQueued(j)'
  BY <1>0, <1>1, <1>2 DEF Sound, MovesOwner, FitsItsRow, AbsentIsIdle, FlagIsAsked, StartIsQueued
<1>4. ActiveIsFollowed(j)' /\ WantedIsFollowed(j)' /\ StartsAdvance(j)'
  BY <1>0, <1>1, <1>2 DEF MovesOwner, ActiveIsFollowed, WantedIsFollowed, StartsAdvance, Wanted
<1> QED
  BY <1>0, <1>3, <1>4 DEF Sound, MovesOwner

\* A requeue goes through, or leaves a record that is flagged, or gives way to a
\* signal or a shutdown.
LEMMA RequeueSound ==
    ASSUME Types, Ownership, NEW p \in Permits, Requeue(p), NEW j \in Jobs, j = tasks[p].job, Sound(j)
    PROVE  Sound(j)'
<1>0. MovesOwner(p, j) /\ Move(p)
  BY MoveOwner DEF Move
<1>t. /\ jobs \in [Jobs -> Row] /\ jobs[j] \in Row /\ MaxAttempts[j] \in 1 .. 3
      /\ queue \in [Jobs -> Seq(0 .. 3)] /\ shutting \in BOOLEAN
  BY SchedulerAssumption DEF Types, TypeOK
<1>1. tasks[p].pc = "requeue" /\ jobs[j].state = "Retrying" /\ jobs[j].attempt = tasks[p].attempt
      /\ tasks[p].pc \in Waiting
  BY DEF Requeue, Ownership, WorkerOwnsItsRecord, Waiting
<1> DEFINE a == tasks[p].attempt
<1>2. TransitionAllowed(jobs[j], "Queued", a, MaxAttempts[j])
  BY <1>1 DEF Sound, FitsItsRow, TransitionAllowed, CanTransitionTo, Missing, Terminal
<1>3. CASE tasks[p].cancelled
  <2>1. PICK pc : Goto(p, pc) /\ pc = AfterRetryCancel(tasks[p])
    BY <1>3 DEF Requeue
  <2>2. UNCHANGED <<jobs, queue>>
    BY <1>3 DEF Requeue
  <2>3. \/ tasks'[p].pc \in Waiting
        \/ tasks'[p].pc = "remove" /\ tasks[p].cancelled /\ ~tasks[p].user
    BY <2>1, <1>3, GotoPc DEF AfterRetryCancel, Waiting
  <2> QED
    BY <1>0, <1>1, <2>2, <2>3, RetryLeaves
<1>4. CASE ~tasks[p].cancelled
  <2>0. Goto(p, "remove")
    BY <1>4 DEF Requeue
  <2>1. \/ UNCHANGED <<jobs, queue>> /\ (shutting \/ RefusedAsStale(jobs[j], FALSE) \/ StoreFails)
        \/ RequeueAs(j, a)
    BY <1>2, <1>4 DEF Requeue
  <2>2. CASE UNCHANGED <<jobs, queue>> /\ (shutting \/ RefusedAsStale(jobs[j], FALSE) \/ StoreFails)
    <3>1. jobs[j].cancel \/ ~Undisturbed'
      BY <2>2, <1>0, FailureDisturbs DEF RefusedAsStale, MovesOwner, Undisturbed
    <3>2. tasks'[p].pc = "remove"
      BY <2>0, GotoPc
    <3> QED
      BY <1>0, <1>1, <2>2, <3>1, <3>2, RetryLeaves
  <2>3. CASE RequeueAs(j, a)
    <3>1. jobs'[j].state = "Queued" /\ jobs'[j].attempt = a /\ jobs'[j].cancel = FALSE
      BY <2>3, <1>t DEF RequeueAs, Transitioned, Row
    <3>2. queue'[j] = <<a>>
      BY <2>3, <1>0, <1>t DEF RequeueAs, Push, MovesOwner
    <3>3. tasks'[p].pc = "remove"
      BY <2>0, GotoPc
    <3>4. queue'[j] # <<>> /\ \A i \in DOMAIN queue'[j] : queue'[j][i] = a
      BY <3>2
    <3>5. a \in Nat /\ Kind[j] # "Preparation" /\ a <= MaxAttempts[j]
      <4>1. jobs[j].attempt \in 0 .. 3
        BY <1>t, RowFields
      <4> QED
        BY <1>1, <4>1 DEF Sound, FitsItsRow
    <3> HIDE DEF a
    <3>6. FitsItsRow(j)' /\ AbsentIsIdle(j)' /\ FlagIsAsked(j)' /\ StartIsQueued(j)'
      BY <1>0, <3>1, <3>3, <3>5 DEF Sound, MovesOwner, FitsItsRow, AbsentIsIdle, FlagIsAsked, StartIsQueued
    <3>7. ActiveIsFollowed(j)' /\ WantedIsFollowed(j)'
      BY <1>0, <3>1, <3>4 DEF ActiveIsFollowed, WantedIsFollowed
    <3>8. StartsAdvance(j)'
      BY <1>0, <3>1, <3>3, <3>4, <3>5 DEF MovesOwner, StartsAdvance, Coming
    <3> QED
      BY <1>0, <3>6, <3>7, <3>8 DEF Sound, MovesOwner
  <2> QED
    BY <2>1, <2>2, <2>3
<1> QED
  BY <1>3, <1>4

\* A task that moves on leaves its job and all others sound.
LEMMA MoveSound ==
    ASSUME Types, Ownership, NEW p \in Permits, Move(p), \A k \in Jobs : Sound(k)
    PROVE  \A k \in Jobs : Sound(k)'
<1>1. PICK j : j = tasks[p].job
  OBVIOUS
<1>2. j \in Jobs
  BY <1>1, MoveFacts DEF MoveShape
<1>3. Sound(j)'
  BY <1>1, <1>2, StartReadSound, StartWriteSound, WorkerReturnsSound, CleanupSound, SettleSound,
     BackoffEndsSound, RetryCancelSound, RequeueSound DEF Move
<1> QED
  BY <1>1, <1>3, MoveLeavesOthers

-----------------------------------------------------------------------------
\* Leaving the running map, and coming into it

\* A task that cannot start its job leaves the map, its entry put back on the queue or not.
LEMMA StartFailSound ==
    ASSUME Types, Ownership, NEW p \in Permits, StartFail(p), \A k \in Jobs : Sound(k)
    PROVE  \A k \in Jobs : Sound(k)'
<1>t. /\ tasks \in [Permits -> GoodTask] /\ tasks[p] \in GoodTask /\ NoPermit \notin Permits
      /\ running \in [Jobs -> Permits \cup {NoPermit}] /\ queue \in [Jobs -> Seq(0 .. 3)]
  BY SchedulerAssumption DEF Types, TypeOK, TaskOK
<1>1. PICK j : j = tasks[p].job
  OBVIOUS
<1>2. /\ tasks[p].pc = "startfail" /\ j \in Jobs /\ running[j] = p /\ queue[j] = <<>>
      /\ UNCHANGED <<jobs, pending, cancels, shutting, faults, restarts, asked>>
      /\ running'[j] = NoPermit /\ \A k \in Jobs : k # j => running'[k] = running[k]
      /\ \A q \in Permits : q # p => tasks'[q] = tasks[q]
      /\ tasks[p].attempt \in 1 .. 4
  BY <1>t, <1>1, TaskFacts DEF StartFail, EndTask, Ownership, OneOwnerPerJob, NothingQueuedBehindWork, Owning
<1>3. ~shutting /\ ~tasks[p].cancelled => queue'[j] = <<tasks[p].attempt - 1>>
  <2>1. ~shutting /\ ~tasks[p].cancelled => Push(j, tasks[p].attempt - 1)
    BY <1>t, <1>1, <1>2 DEF StartFail, Queued
  <2> QED
    BY <1>t, <1>2, <2>1 DEF Push
<1>4. \A k \in Jobs : k # j => queue'[k] = queue[k]
  BY <1>t, <1>1, <1>2 DEF StartFail, Push
<1>5. HasOwner(j) /\ OwnerAt(j) = "startfail" /\ ~HasOwner(j)'
  BY <1>t, <1>2 DEF HasOwner, OwnerAt
<1>6. Sound(j)'
  <2>1. Sound(j) /\ jobs'[j] = jobs[j] /\ jobs[j].state # "Absent"
    BY <1>2, <1>5 DEF Sound, AbsentIsIdle
  <2>2. FitsItsRow(j)' /\ AbsentIsIdle(j)' /\ SignalIsAsked(j)' /\ FlagIsAsked(j)' /\ StartIsQueued(j)'
    BY <1>2, <1>5, <2>1 DEF Sound, FitsItsRow, AbsentIsIdle, SignalIsAsked, FlagIsAsked, StartIsQueued
  <2>3. ActiveIsFollowed(j)'
    BY <1>2, <1>5, <2>1 DEF Sound, StartIsQueued, ActiveIsFollowed, Undisturbed
  <2>4. (~shutting /\ Wanted(j)) => ~tasks[p].cancelled
    BY <1>2, <1>5, <2>1 DEF Sound, SignalIsAsked, Wanted
  <2>5. (~shutting /\ Wanted(j)) =>
            queue'[j] # <<>> /\ \A i \in DOMAIN queue'[j] : queue'[j][i] = tasks[p].attempt - 1
    <3>1. PICK s, a : s = queue'[j] /\ a = tasks[p].attempt - 1
      OBVIOUS
    <3>2. s = <<a>> => s # <<>> /\ \A i \in DOMAIN s : s[i] = a
      OBVIOUS
    <3> QED
      BY <1>3, <2>4, <3>1, <3>2
  <2>6. WantedIsFollowed(j)'
    BY <1>2, <2>5 DEF WantedIsFollowed, Wanted, Undisturbed
  <2>7. StartsAdvance(j)'
    <3>1. (~shutting /\ Wanted(j)) => tasks[p].attempt > jobs[j].attempt
      BY <1>2, <1>5, <2>1 DEF Sound, StartsAdvance, Coming
    <3>2. jobs[j].attempt \in 0 .. 3
      BY <1>2, RowFields DEF Types, TypeOK
    <3>3. (~shutting /\ Wanted(j)) => tasks[p].attempt - 1 >= jobs[j].attempt
      BY <1>2, <3>1, <3>2
    <3>4. Wanted(j)' = Wanted(j) /\ shutting' = shutting
      BY <1>2 DEF Wanted
    <3> QED
      BY <1>5, <2>1, <2>5, <3>3, <3>4 DEF StartsAdvance
  <2> QED
    BY <2>2, <2>3, <2>6, <2>7 DEF Sound
<1>7. ASSUME NEW k \in Jobs, k # j
      PROVE  Sound(k)'
  <2>1. SameJob(k) /\ SameWorld
    BY <1>2, <1>4, <1>7 DEF SameJob, SameWorld
  <2>2. SameOwner(k)
    BY <1>1, <1>2, <1>7, OthersKeepOwner DEF Ownership
  <2>3. Followed(k) => Followed(k)'
    BY <1>1, <1>2, <1>7, <2>1, OthersFollowed
  <2> QED
    BY <2>1, <2>2, <2>3, Untouched
<1> QED
  BY <1>6, <1>7

\* A task leaves the running map, and goes on to settle a cancellation.
LEMMA LeaveRunningSound ==
    ASSUME Types, Ownership, NEW p \in Permits, LeaveRunning(p), \A k \in Jobs : Sound(k)
    PROVE  \A k \in Jobs : Sound(k)'
<1>t. /\ tasks \in [Permits -> GoodTask] /\ tasks[p] \in GoodTask /\ NoPermit \notin Permits
      /\ running \in [Jobs -> Permits \cup {NoPermit}]
  BY SchedulerAssumption DEF Types, TypeOK, TaskOK
<1>1. PICK j : j = tasks[p].job
  OBVIOUS
<1>2. /\ tasks[p].pc = "remove" /\ j \in Jobs /\ running[j] = p
      /\ UNCHANGED <<jobs, queue, pending, cancels, shutting, faults, restarts, asked>>
      /\ running'[j] = NoPermit /\ \A k \in Jobs : k # j => running'[k] = running[k]
      /\ \A q \in Permits : q # p => tasks'[q] = tasks[q]
      /\ tasks'[p].pc = "reconcile" /\ tasks'[p].job = j
  BY <1>t, <1>1, TaskFacts DEF LeaveRunning, Ownership, OneOwnerPerJob, Owning, TaskAt
<1>5. HasOwner(j) /\ OwnerAt(j) = "remove" /\ ~HasOwner(j)'
  BY <1>t, <1>2 DEF HasOwner, OwnerAt
<1>6. Sound(j)'
  <2>1. Sound(j) /\ Followed(j)'
    BY <1>2 DEF Followed
  <2>2. FitsItsRow(j)' /\ AbsentIsIdle(j)' /\ SignalIsAsked(j)' /\ FlagIsAsked(j)' /\ StartIsQueued(j)'
    BY <1>2, <1>5, <2>1 DEF Sound, FitsItsRow, AbsentIsIdle, SignalIsAsked, FlagIsAsked, StartIsQueued
  <2>3. ActiveIsFollowed(j)' /\ WantedIsFollowed(j)'
    BY <1>2, <1>5, <2>1 DEF Sound, ActiveIsFollowed, WantedIsFollowed, Undisturbed, Wanted, Working, Waiting,
                            Coming
  <2>4. StartsAdvance(j)'
    BY <1>2, <1>5, <2>1 DEF Sound, StartsAdvance, Wanted
  <2> QED
    BY <2>2, <2>3, <2>4 DEF Sound
<1>7. ASSUME NEW k \in Jobs, k # j
      PROVE  Sound(k)'
  <2>1. SameJob(k) /\ SameWorld
    BY <1>2 DEF SameJob, SameWorld
  <2>2. SameOwner(k)
    BY <1>1, <1>2, <1>7, OthersKeepOwner DEF Ownership
  <2>3. Followed(k) => Followed(k)'
    BY <1>1, <1>2, <1>7, <2>1, OthersFollowed
  <2> QED
    BY <2>1, <2>2, <2>3, Untouched
<1> QED
  BY <1>6, <1>7

\* A permit takes the first entry of a job.
LEMMA DispatchSound ==
    ASSUME Types, Ownership, NEW j \in Jobs, NEW p \in Permits, Dispatch(j, p), \A k \in Jobs : Sound(k)
    PROVE  \A k \in Jobs : Sound(k)'
<1>t. /\ tasks \in [Permits -> GoodTask] /\ NoPermit \notin Permits
      /\ running \in [Jobs -> Permits \cup {NoPermit}] /\ queue \in [Jobs -> Seq(0 .. 3)]
  BY SchedulerAssumption DEF Types, TypeOK, TaskOK
<1>2. /\ tasks[p].pc = "idle" /\ running[j] = NoPermit /\ queue[j] # <<>>
      /\ UNCHANGED <<jobs, pending, cancels, shutting, faults, restarts, asked>>
      /\ running'[j] = p /\ \A k \in Jobs : k # j => running'[k] = running[k]
      /\ \A q \in Permits : q # p => tasks'[q] = tasks[q]
      /\ tasks'[p] = TaskAt("read", j, Head(queue[j]) + 1)
      /\ \A k \in Jobs : k # j => queue'[k] = queue[k]
  BY <1>t DEF Dispatch, Queued
<1>3. /\ 1 \in DOMAIN queue[j] /\ Head(queue[j]) = queue[j][1] /\ queue'[j] = <<>>
      /\ Head(queue[j]) \in 0 .. 3
  <2>1. Len(queue[j]) <= 1 /\ queue'[j] = Tail(queue[j]) /\ queue[j] \in Seq(0 .. 3)
    BY <1>t DEF Dispatch, Ownership, QueuedOnce
  <2>2. PICK s : s = queue[j]
    OBVIOUS
  <2>3. s \in Seq(0 .. 3) /\ s # <<>> /\ Len(s) <= 1
    BY <1>2, <2>1, <2>2
  <2>e. \A t \in Seq(0 .. 3) : Len(t) \in Nat /\ (Len(t) = 0 <=> t = <<>>)
    OBVIOUS
  <2>4. Len(s) = 1
    <3>1. Len(s) \in Nat /\ Len(s) # 0
      BY <2>3, <2>e
    <3>2. \A n \in Nat : n # 0 /\ n <= 1 => n = 1
      OBVIOUS
    <3> QED
      BY <2>3, <3>1, <3>2, Zenon
  <2>5. Tail(s) \in Seq(0 .. 3) /\ Len(Tail(s)) = 0
    BY <2>3, <2>4
  <2>6. Tail(s) = <<>>
    BY <2>5, <2>e
  <2>7. 1 \in DOMAIN s /\ Head(s) = s[1] /\ Head(s) \in 0 .. 3
    BY <2>3, <2>4
  <2> QED
    BY <2>1, <2>2, <2>6, <2>7
<1>4. /\ tasks'[p].pc = "read" /\ tasks'[p].attempt = Head(queue[j]) + 1
      /\ tasks'[p].cancelled = FALSE
  BY <1>2 DEF TaskAt
<1>5. ~HasOwner(j) /\ HasOwner(j)' /\ OwnerAt(j)' = "read" /\ Followed(j)'
      /\ tasks'[running'[j]] = tasks'[p]
  BY <1>t, <1>2, <1>4 DEF HasOwner, OwnerAt, Followed
<1>6. Sound(j)'
  <2>1. Sound(j)
    OBVIOUS
  <2>2. FitsItsRow(j)' /\ AbsentIsIdle(j)' /\ SignalIsAsked(j)' /\ FlagIsAsked(j)' /\ StartIsQueued(j)'
    BY <1>2, <1>3, <1>4, <1>5, <2>1 DEF Sound, FitsItsRow, AbsentIsIdle, SignalIsAsked, FlagIsAsked, StartIsQueued
  <2>3. ActiveIsFollowed(j)' /\ WantedIsFollowed(j)'
    BY <1>2, <1>5, <2>1 DEF Sound, ActiveIsFollowed, WantedIsFollowed, Undisturbed, Coming
  <2>4. StartsAdvance(j)'
    <3>1. (~shutting /\ Wanted(j)) => Head(queue[j]) >= jobs[j].attempt
      BY <1>3, <2>1 DEF Sound, StartsAdvance
    <3>2. jobs[j].attempt \in 0 .. 3
      BY RowFields DEF Types, TypeOK
    <3>3. (~shutting /\ Wanted(j)) => tasks'[p].attempt > jobs[j].attempt
      BY <1>3, <1>4, <3>1, <3>2
    <3>4. Wanted(j)' = Wanted(j) /\ shutting' = shutting /\ jobs'[j] = jobs[j]
      BY <1>2 DEF Wanted
    <3>5. \A i \in DOMAIN queue'[j] : queue'[j][i] >= jobs'[j].attempt
      BY <1>3
    <3> QED
      BY <1>5, <3>3, <3>4, <3>5 DEF StartsAdvance
  <2> QED
    BY <2>2, <2>3, <2>4 DEF Sound
<1>7. ASSUME NEW k \in Jobs, k # j
      PROVE  Sound(k)'
  <2>1. SameJob(k) /\ SameWorld
    BY <1>2, <1>7 DEF SameJob, SameWorld
  <2>2. SameOwner(k)
    BY <1>2, <1>7, OthersKeepOwner DEF Ownership
  <2>3. Followed(k) => Followed(k)'
    BY <1>2, <1>7, <2>1, OthersFollowed
  <2> QED
    BY <2>1, <2>2, <2>3, Untouched
<1> QED
  BY <1>6, <1>7

-----------------------------------------------------------------------------
\* The steps of clients

\* What a client's step leaves as it is.
LEMMA ClientFrame ==
    ASSUME Types, NEW j \in Jobs,
           \/ Start(j) \/ StartAgain(j) \/ Reauthorize(j) \/ RequireAuthorization(j) \/ RetryWithWorker(j)
           \/ \E a \in pending[j] : Submit(j, a)
    PROVE  /\ UNCHANGED <<running, tasks, cancels>> /\ SameWorld
           /\ \A k \in Jobs : k # j => SameJob(k)
           /\ asked' = asked \/ asked' = Restarted(j)
<1>t. /\ jobs \in [Jobs -> Row] /\ queue \in [Jobs -> Seq(0 .. 3)]
      /\ pending \in [Jobs -> SUBSET (0 .. 3)] /\ asked \in [Jobs -> BOOLEAN]
  BY DEF Types, TypeOK
<1>1. /\ UNCHANGED <<running, tasks, cancels, shutting, faults, restarts>>
      /\ asked' = asked \/ asked' = Restarted(j)
  BY DEF Start, StartAgain, Reauthorize, RequireAuthorization, RetryWithWorker, Submit
<1>2. ASSUME NEW k \in Jobs, k # j
      PROVE  jobs'[k] = jobs[k] /\ queue'[k] = queue[k] /\ pending'[k] = pending[k]
  BY <1>t, <1>2 DEF Start, StartAgain, Reauthorize, RequireAuthorization, RetryWithWorker, Submit, Push
<1>3. ASSUME NEW k \in Jobs, k # j
      PROVE  asked'[k] = asked[k]
  BY <1>t, <1>1, <1>3 DEF Restarted
<1> QED
  BY <1>1, <1>2, <1>3 DEF SameJob, SameWorld

\* The steps of a client leave what holds of every job.
LEMMA ClientSound ==
    ASSUME Types, NEW j \in Jobs, \A k \in Jobs : Sound(k),
           \/ Start(j) \/ StartAgain(j) \/ Reauthorize(j) \/ RequireAuthorization(j) \/ RetryWithWorker(j)
           \/ \E a \in pending[j] : Submit(j, a)
    PROVE  \A k \in Jobs : Sound(k)'
<1>1. Sound(j)'
  BY StartSound, StartAgainSound, ReauthorizeSound, RequireAuthorizationSound, RetryWithWorkerSound, SubmitSound
<1>2. ASSUME NEW k \in Jobs, k # j
      PROVE  Sound(k)'
  <2>1. SameJob(k) /\ SameOwner(k) /\ SameWorld /\ UNCHANGED <<running, tasks, cancels>>
    BY <1>2, ClientFrame DEF SameOwner
  <2>2. Followed(k) => Followed(k)'
    BY <2>1 DEF Followed, SameJob, HasOwner, WillReconcile
  <2> QED
    BY <2>1, <2>2, Untouched
<1> QED
  BY <1>1, <1>2

\* A restart of a job forgets no cancellation that is under way.
LEMMA ClientKeepsCalls ==
    ASSUME Types, CallsHaveAsked, NEW j \in Jobs, cancels' = cancels, asked' = asked \/ asked' = Restarted(j)
    PROVE  CallsHaveAsked'
<1>t. asked \in [Jobs -> BOOLEAN] /\ cancels \in [Jobs -> Cancel]
  BY DEF Types, TypeOK
<1> SUFFICES ASSUME NEW k \in Jobs
             PROVE  /\ cancels[k].todo \subseteq cancels[k].family
                    /\ cancels[k].pc \in {"signal", "reconcile", "wait"} =>
                           \A i \in cancels[k].family : asked'[i]
  BY DEF CallsHaveAsked
<1>1. cancels[k].family \subseteq Jobs /\ cancels[k].todo \subseteq cancels[k].family
  BY <1>t DEF CallsHaveAsked, Cancel
<1>2. ASSUME cancels[k].pc \in {"signal", "reconcile", "wait"}, NEW i \in cancels[k].family
      PROVE  asked'[i]
  <2>1. asked[i] /\ i \in Jobs /\ BeingCancelled(i)
    BY <1>1, <1>2 DEF CallsHaveAsked, BeingCancelled
  <2> QED
    BY <1>t, <2>1 DEF Restarted
<1> QED
  BY <1>1, <1>2

-----------------------------------------------------------------------------
\* Reconciliations

\* Outside of preparations there are no families: a reconciliation settles its own
\* job or nothing, and settles it if it is flagged and nobody's.
LEMMA ReconcileAlone ==
    ASSUME Types, \A i \in Jobs : Sound(i), NEW k \in Jobs, ReconcileCancellation(k)
    PROVE  /\ \A i \in Jobs : i # k => jobs'[i] = jobs[i]
           /\ \/ jobs'[k] = jobs[k]
              \/ k \notin Owned /\ jobs[k].state \in Unsettled /\ jobs'[k] = Reconciled(jobs[k])
           /\ (k \notin Owned /\ jobs[k].state \in Unsettled /\ jobs[k].cancel) => jobs'[k] = Reconciled(jobs[k])
<1>t. jobs \in [Jobs -> Row] /\ k # NoJob /\ Parent[k] \in Jobs \cup {NoJob}
  BY SchedulerAssumption DEF Types, TypeOK
<1>1. CASE k \in Owned
  BY <1>1 DEF ReconcileCancellation
<1>2. CASE k \notin Owned
  <2>1. PICK first : first = SettleRow(jobs, k, Owned)
    OBVIOUS
  <2>2. jobs[k].state # "Absent" => Children(k) = {}
    BY SchedulerAssumption DEF Sound, FitsItsRow, Children
  <2>3. \/ first = jobs /\ ~(jobs[k].state \in Unsettled /\ jobs[k].cancel)
        \/ jobs[k].state \in Unsettled /\ first = [jobs EXCEPT ![k] = Reconciled(jobs[k])]
    <3>1. jobs[k].state \in Unsettled => jobs[k].state # "Absent"
      BY DEF Unsettled
    <3> QED
      BY <1>t, <1>2, <2>1, <2>2, <3>1 DEF SettleRow, Reconcilable
  <2>4. jobs' = first
    <3>1. jobs' = SettleRow(first, Parent[k], Owned)
      BY <1>2, <2>1 DEF ReconcileCancellation
    <3>2. Parent[k] # NoJob => first[Parent[k]].state \notin Unsettled
      <4>1. Parent[k] # NoJob => jobs[Parent[k]].state = "Absent" /\ Parent[k] \in Jobs
        BY <1>t, SchedulerAssumption DEF Sound, FitsItsRow
      <4>2. "Absent" \notin Unsettled
        BY DEF Unsettled
      <4> QED
        BY <1>t, <2>3, <4>1, <4>2
    <3> QED
      BY <3>1, <3>2 DEF SettleRow, Reconcilable
  <2> QED
    BY <1>t, <1>2, <2>3, <2>4
<1> QED
  BY <1>1, <1>2

\* A reconciliation settles the job it is for, and leaves the other jobs alone.
LEMMA ReconcileSound ==
    ASSUME Types, \A i \in Jobs : Sound(i), NEW k \in Jobs, ReconcileCancellation(k),
           UNCHANGED <<queue, running, pending, asked>>, SameWorld,
           \A i \in Jobs : SameOwner(i),
           \A i \in Jobs : i # k /\ Followed(i) => Followed(i)'
    PROVE  \A i \in Jobs : Sound(i)'
<1>t. jobs \in [Jobs -> Row] /\ jobs[k] \in Row
  BY DEF Types, TypeOK
<1>1. ASSUME NEW i \in Jobs, i # k
      PROVE  Sound(i)'
  <2>1. SameJob(i) /\ SameOwner(i)
    BY <1>1, ReconcileAlone DEF SameJob
  <2> QED
    BY <1>1, <2>1, Untouched
<1>2. CASE jobs'[k] = jobs[k]
  <2>1. SameJob(k) /\ SameOwner(k)
    BY <1>2 DEF SameJob
  <2>2. ASSUME jobs[k].state \in {"Running", "Retrying"}, jobs[k].cancel
        PROVE  Followed(k)'
    <3>1. Reconciled(jobs[k]).state = "Cancelled"
      BY <1>t DEF Reconciled, Row
    <3>2. jobs'[k] # Reconciled(jobs[k])
      BY <1>2, <2>2, <3>1
    <3>3. k \in Owned
      BY <2>2, <3>2, ReconcileAlone DEF Unsettled
    <3> QED
      BY <3>3 DEF Owned, Queued, Followed, HasOwner
  <2>3. Sound(k)'
    BY <2>1, <2>2, Untouched
  <2> QED
    BY <1>1, <2>3
<1>3. CASE k \notin Owned /\ jobs[k].state \in Unsettled /\ jobs'[k] = Reconciled(jobs[k])
  <2>1. jobs'[k].state = "Cancelled" /\ jobs'[k].attempt = jobs[k].attempt /\ jobs[k].state # "Absent"
    BY <1>t, <1>3 DEF Reconciled, Row, Unsettled
  <2>2. SameOwner(k) /\ Sound(k)
    OBVIOUS
  <2>3. FitsItsRow(k)' /\ AbsentIsIdle(k)' /\ FlagIsAsked(k)'
    BY <2>1, <2>2 DEF Sound, FitsItsRow, AbsentIsIdle, FlagIsAsked
  <2>4. SignalIsAsked(k)'
    BY <2>2 DEF Sound, SameOwner, SameWorld, SignalIsAsked, HasOwner
  <2>5. ActiveIsFollowed(k)' /\ WantedIsFollowed(k)' /\ StartsAdvance(k)'
    BY <2>1 DEF ActiveIsFollowed, WantedIsFollowed, StartsAdvance, Wanted
  <2>6. StartIsQueued(k)'
    BY <1>3 DEF StartIsQueued, HasOwner, Owned
  <2>7. Sound(k)'
    BY <2>3, <2>4, <2>5, <2>6 DEF Sound
  <2> QED
    BY <1>1, <2>7
<1> QED
  BY <1>2, <1>3, ReconcileAlone

-----------------------------------------------------------------------------
\* The last reconciliation of a task, and the steps of cancellation calls

\* The last step of a task settles the cancellation it left behind.
LEMMA ReconcileAfterSound ==
    ASSUME Types, Ownership, NEW p \in Permits, ReconcileAfter(p), \A k \in Jobs : Sound(k)
    PROVE  \A k \in Jobs : Sound(k)'
<1>t. tasks \in [Permits -> GoodTask] /\ tasks[p] \in GoodTask
  BY DEF Types, TypeOK, TaskOK
<1>1. PICK j : j = tasks[p].job
  OBVIOUS
<1>2. /\ tasks[p].pc = "reconcile" /\ j \in Jobs
      /\ UNCHANGED <<queue, running, pending, cancels, shutting, restarts, asked>>
      /\ \A q \in Permits : q # p => tasks'[q] = tasks[q]
  BY <1>t, <1>1, TaskFacts DEF ReconcileAfter, EndTask
<1>3. \A i \in Jobs : SameOwner(i)
  BY <1>2 DEF Ownership, OneOwnerPerJob, SameOwner, Owning, Starting, Working, Waiting, Types, TypeOK
<1>4. SameWorld
  <2>1. StoreOk \/ StoreFails
    BY DEF ReconcileAfter
  <2> QED
    BY <1>2, <2>1, FaultsStay DEF SameWorld
<1>5. CASE StoreOk /\ ReconcileCancellation(j)
  <2>1. \A i \in Jobs : i # j => SameJob(i)
    BY <1>2, <1>5, ReconcileAlone DEF SameJob
  <2>2. ASSUME NEW i \in Jobs, i # j, Followed(i)
        PROVE  Followed(i)'
    BY <1>1, <1>2, <2>1, <2>2, OthersFollowed
  <2> QED
    BY <1>2, <1>3, <1>4, <1>5, <2>2, ReconcileSound
<1>6. CASE StoreFails /\ UNCHANGED jobs
  <2>1. \A i \in Jobs : SameJob(i)
    BY <1>2, <1>6 DEF SameJob
  <2> QED
    BY <1>3, <1>4, <1>6, <2>1, FailureDisturbs, Untouched
<1> QED
  BY <1>1, <1>5, <1>6 DEF ReconcileAfter

\* The other calls and their families.
SameCalls(j) == \A k \in Jobs : k # j => cancels'[k] = cancels[k]

\* A step of the call for job j that touches no job, and forgets no reconciliation that
\* it has to do.
LEMMA CallSound ==
    ASSUME Types, NEW j \in Jobs, UNCHANGED <<jobs, queue, running, pending, tasks, asked>>, SameWorld,
           SameCalls(j), Undisturbed' => \A k \in Jobs : WillReconcile(j, k) => WillReconcile(j, k)',
           \A k \in Jobs : Sound(k)
    PROVE  \A k \in Jobs : Sound(k)'
<1> SUFFICES ASSUME NEW i \in Jobs
             PROVE  Sound(i)'
  OBVIOUS
<1>1. SameJob(i) /\ SameOwner(i)
  BY DEF SameJob, SameOwner
<1>2. \A k \in Jobs : Undisturbed' /\ WillReconcile(k, i) => WillReconcile(k, i)'
  BY DEF SameCalls, WillReconcile
<1>3. Undisturbed' /\ Followed(i) => Followed(i)'
  BY <1>2 DEF Followed, HasOwner
<1> QED
  BY <1>1, <1>3, Untouched

\* One call's part in what calls have asked.
HasAsked(k) ==
    /\ cancels[k].todo \subseteq cancels[k].family
    /\ cancels[k].pc \in {"signal", "reconcile", "wait"} => \A j \in cancels[k].family : asked[j]

\* A step of one cancellation leaves the other calls as they were.
LEMMA CallsKept ==
    ASSUME CallsHaveAsked, NEW j \in Jobs, SameCalls(j), asked' = asked, HasAsked(j)'
    PROVE  CallsHaveAsked'
BY DEF CallsHaveAsked, SameCalls, HasAsked

\* A cancellation begins: it has asked for its whole family before it does anything.
LEMMA CancelBeginKeeps ==
    ASSUME Types, Attendance, NEW j \in Jobs, CancelBegin(j)
    PROVE  Attendance'
<1>t. cancels \in [Jobs -> Cancel]
  BY DEF Types, TypeOK
<1>1. PICK family : cancels' = [cancels EXCEPT ![j] = [pc |-> "request", family |-> family, todo |-> family]]
  BY DEF CancelBegin
<1>2. /\ UNCHANGED <<jobs, queue, running, pending, tasks, asked>> /\ SameWorld /\ SameCalls(j)
      /\ cancels'[j] = [pc |-> "request", family |-> family, todo |-> family]
      /\ cancels[j].pc = "idle"
  BY <1>1, <1>t DEF CancelBegin, SameWorld, SameCalls
<1>3. \A k \in Jobs : ~WillReconcile(j, k)
  BY <1>2 DEF WillReconcile
<1>4. HasAsked(j)'
  BY <1>2 DEF HasAsked
<1> QED
  BY <1>2, <1>3, <1>4, CallSound, CallsKept DEF Attendance

\* A cancellation answers its client.
LEMMA CancelReturnsKeeps ==
    ASSUME Types, Attendance, NEW j \in Jobs, CancelReturns(j)
    PROVE  Attendance'
<1>t. cancels \in [Jobs -> Cancel]
  BY DEF Types, TypeOK
<1>2. /\ UNCHANGED <<jobs, queue, running, pending, tasks, asked>> /\ SameWorld /\ SameCalls(j)
      /\ cancels'[j] = NoCancel /\ cancels[j].pc = "wait"
  BY <1>t DEF CancelReturns, SameWorld, SameCalls
<1>3. \A k \in Jobs : ~WillReconcile(j, k)
  BY <1>2 DEF WillReconcile
<1>4. HasAsked(j)'
  BY <1>2 DEF HasAsked, NoCancel
<1> QED
  BY <1>2, <1>3, <1>4, CallSound, CallsKept DEF Attendance

\* A cancellation settles what has no owner.
LEMMA CancelReconcileKeeps ==
    ASSUME Types, Attendance, NEW j \in Jobs, NEW k \in Jobs, CancelReconcile(j, k)
    PROVE  Attendance'
<1>t. cancels \in [Jobs -> Cancel] /\ cancels[j] \in Cancel
  BY DEF Types, TypeOK
<1>0. (\A i \in Jobs : Sound(i)) /\ CallsHaveAsked
  BY DEF Attendance
<1> DEFINE left == cancels[j].todo \ {k}
<1>1. /\ UNCHANGED <<queue, running, tasks, pending, shutting, restarts, asked>>
      /\ cancels[j].pc = "reconcile" /\ k \in cancels[j].todo
      /\ SameCalls(j)
  BY <1>t DEF CancelReconcile, SameCalls
<1>2. SameWorld /\ \A i \in Jobs : SameOwner(i)
  <2>1. StoreOk \/ StoreFails
    BY DEF CancelReconcile
  <2> QED
    BY <1>1, <2>1, FaultsStay DEF SameWorld, SameOwner
<1>3. CASE /\ ReconcileCancellation(k)
           /\ cancels' = [cancels EXCEPT ![j].todo = left, ![j].pc = IF left = {} THEN "wait" ELSE "reconcile"]
  <2>1. /\ cancels'[j].todo = left /\ cancels'[j].family = cancels[j].family
        /\ left # {} => cancels'[j].pc = "reconcile"
        /\ cancels'[j].pc \in {"wait", "reconcile"}
    BY <1>t, <1>3 DEF Cancel
  <2>2. HasAsked(j)'
    BY <1>0, <1>1, <2>1 DEF HasAsked, CallsHaveAsked
  <2>3. ASSUME NEW i \in Jobs, i # k, Followed(i)
        PROVE  Followed(i)'
    <3>1. \A c \in Jobs : WillReconcile(c, i) => WillReconcile(c, i)'
      BY <1>1, <2>1, <2>3 DEF SameCalls, WillReconcile
    <3> QED
      BY <1>1, <2>3, <3>1 DEF Followed, HasOwner
  <2>4. \A i \in Jobs : Sound(i)'
    BY <1>0, <1>1, <1>2, <1>3, <2>3, ReconcileSound
  <2> QED
    BY <1>0, <1>1, <2>2, <2>4, CallsKept DEF Attendance
<1>4. CASE StoreFails /\ cancels' = [cancels EXCEPT ![j] = NoCancel] /\ UNCHANGED jobs
  <2>1. HasAsked(j)'
    BY <1>t, <1>4 DEF HasAsked, NoCancel
  <2>2. \A i \in Jobs : Sound(i)'
    BY <1>0, <1>1, <1>2, <1>4, FailureDisturbs, CallSound
  <2> QED
    BY <1>0, <1>1, <2>1, <2>2, CallsKept DEF Attendance
<1> QED
  BY <1>3, <1>4 DEF CancelReconcile

-----------------------------------------------------------------------------
\* A request leaves a row its state and attempt.
LEMMA CancelRequestKeeps ==
    ASSUME Types, Attendance, NEW j \in Jobs, CancelRequest(j)
    PROVE  Attendance'
<1>t. cancels \in [Jobs -> Cancel] /\ cancels[j] \in Cancel /\ jobs \in [Jobs -> Row] /\ asked \in [Jobs -> BOOLEAN]
  BY DEF Types, TypeOK
<1>0. (\A i \in Jobs : Sound(i)) /\ CallsHaveAsked
  BY DEF Attendance
<1>1. /\ UNCHANGED <<queue, running, tasks, pending, shutting, restarts>>
      /\ cancels[j].pc = "request"
      /\ SameCalls(j)
  BY <1>t DEF CancelRequest, SameCalls
<1>2. SameWorld /\ \A i \in Jobs : SameOwner(i)
  <2>1. StoreOk \/ StoreFails
    BY DEF CancelRequest
  <2> QED
    BY <1>1, <2>1, FaultsStay DEF SameWorld, SameOwner
<1>3. CASE /\ jobs' = [k \in Jobs |-> IF k \in cancels[j].family
                                      THEN CancelRequested(jobs[k]) ELSE jobs[k]]
           /\ asked' = [k \in Jobs |-> asked[k] \/ k \in cancels[j].family]
           /\ cancels' = [cancels EXCEPT ![j].pc = "signal"]
  <2>1. cancels'[j].todo = cancels[j].todo /\ cancels'[j].family = cancels[j].family /\ cancels'[j].pc = "signal"
    BY <1>t, <1>3 DEF Cancel
  <2>2. CallsHaveAsked'
    <3> SUFFICES ASSUME NEW k \in Jobs
                 PROVE  HasAsked(k)'
      BY DEF CallsHaveAsked, HasAsked
    <3>1. cancels[k].family \subseteq Jobs /\ HasAsked(k)
      BY <1>t, <1>0 DEF CallsHaveAsked, HasAsked, Cancel
    <3>2. CASE k = j
      BY <1>t, <1>3, <2>1, <3>1, <3>2 DEF HasAsked
    <3>3. CASE k # j
      BY <1>1, <1>3, <3>1, <3>3 DEF HasAsked, SameCalls
    <3> QED
      BY <3>2, <3>3
  <2>3. \A i \in Jobs : \A c \in Jobs : WillReconcile(c, i) => WillReconcile(c, i)'
    BY <1>1, <2>1 DEF SameCalls, WillReconcile
  <2>4. ASSUME NEW i \in Jobs, Followed(i)
        PROVE  Followed(i)'
    BY <1>1, <2>3, <2>4 DEF Followed, HasOwner
  <2>5. ASSUME NEW i \in Jobs, i \notin cancels[j].family
        PROVE  Sound(i)'
    <3>1. SameJob(i)
      BY <1>t, <1>1, <1>3, <2>5 DEF SameJob
    <3> QED
      BY <1>0, <1>2, <2>4, <3>1, Untouched
  <2>6. ASSUME NEW i \in Jobs, i \in cancels[j].family
        PROVE  Sound(i)'
    <3>1. jobs'[i].state = jobs[i].state /\ jobs'[i].attempt = jobs[i].attempt /\ asked'[i]
      BY <1>t, <1>3, <2>6, CancelRequestedFields
    <3>2. Followed(i)' /\ (jobs[i].state \in {"Running", "Retrying"} => jobs'[i].cancel)
      <4>1. WillReconcile(j, i)'
        BY <2>1, <2>6 DEF WillReconcile
      <4>2. jobs[i].state \in {"Running", "Retrying"} => CancelRequested(jobs[i]).cancel
        BY <1>t DEF CancelRequested, Row, Unsettled
      <4> QED
        BY <1>3, <2>6, <4>1, <4>2 DEF Followed
    <3>3. Sound(i) /\ HasOwner(i)' = HasOwner(i) /\ OwnerAt(i)' = OwnerAt(i) /\ (Undisturbed' => Undisturbed)
      BY <1>0, <1>1, <1>2 DEF HasOwner, OwnerAt, Undisturbed, SameWorld
    <3>4. FitsItsRow(i)' /\ AbsentIsIdle(i)' /\ SignalIsAsked(i)' /\ FlagIsAsked(i)' /\ StartIsQueued(i)'
      BY <1>1, <3>1, <3>3 DEF Sound, FitsItsRow, AbsentIsIdle, SignalIsAsked, FlagIsAsked, StartIsQueued
    <3>5. ActiveIsFollowed(i)' /\ WantedIsFollowed(i)' /\ StartsAdvance(i)'
      BY <3>1, <3>2 DEF ActiveIsFollowed, WantedIsFollowed, StartsAdvance, Wanted
    <3> QED
      BY <3>4, <3>5 DEF Sound
  <2> QED
    BY <2>2, <2>5, <2>6 DEF Attendance
<1>4. CASE StoreFails /\ cancels' = [cancels EXCEPT ![j] = NoCancel] /\ UNCHANGED <<jobs, asked>>
  <2>1. HasAsked(j)'
    BY <1>t, <1>4 DEF HasAsked, NoCancel
  <2>2. \A i \in Jobs : Sound(i)'
    BY <1>0, <1>1, <1>2, <1>4, FailureDisturbs, CallSound
  <2> QED
    BY <1>0, <1>1, <1>4, <2>1, <2>2, CallsKept DEF Attendance
<1> QED
  BY <1>3, <1>4 DEF CancelRequest

\* What a signal does to the job it reaches, and that it reaches no other.
LEMMA SignalledTokens ==
    ASSUME NEW t \in Task
    PROVE  Signalled(t).user /\ Signalled(t).pc = t.pc /\ Signalled(t).attempt = t.attempt
           /\ Signalled(t).job = t.job
BY DEF Signalled, Task

\* A job that a cancellation is asked for, whose queued entry is dropped or whose task is signalled.
LEMMA SignalledSound ==
    ASSUME Types, NEW k \in Jobs, Sound(k), FitsItsRow(k)',
           jobs'[k].state = jobs[k].state, jobs'[k].attempt = jobs[k].attempt,
           asked'[k] \/ Kind[k] = "FinalRender",
           FlagIsAsked(k)',
           UNCHANGED <<running, pending, restarts>>, SameWorld,
           queue[k] = <<>> => queue'[k] = <<>>,
           running[k] # NoPermit =>
               /\ tasks'[running[k]].pc = tasks[running[k]].pc
               /\ \/ tasks'[running[k]] = tasks[running[k]]
                  \/ tasks'[running[k]].user,
           asked[k] => asked'[k],
           Undisturbed' /\ jobs[k].state \in {"Running", "Retrying"} =>
               /\ jobs[k].cancel => jobs'[k].cancel
               /\ Followed(k) => Followed(k)'
    PROVE  Sound(k)'
<1>1. HasOwner(k)' = HasOwner(k) /\ (HasOwner(k) => OwnerAt(k)' = OwnerAt(k)) /\ (Undisturbed' => Undisturbed)
  BY DEF HasOwner, OwnerAt, Undisturbed, SameWorld
<1>2. AbsentIsIdle(k)' /\ StartIsQueued(k)'
  BY <1>1 DEF Sound, AbsentIsIdle, StartIsQueued
<1>3. SignalIsAsked(k)'
  BY <1>1 DEF Sound, SignalIsAsked, SameWorld, HasOwner
<1>4. ActiveIsFollowed(k)' /\ WantedIsFollowed(k)' /\ StartsAdvance(k)'
  BY <1>1 DEF Sound, ActiveIsFollowed, WantedIsFollowed, StartsAdvance, Wanted
<1> QED
  BY <1>2, <1>3, <1>4 DEF Sound

\* A cancellation drops the entries of a job and signals its task.
LEMMA CancelSignalKeeps ==
    ASSUME Types, Ownership, Attendance, NEW j \in Jobs, NEW k \in Jobs, CancelSignal(j, k)
    PROVE  Attendance'
<1>t. /\ cancels \in [Jobs -> Cancel] /\ cancels[j] \in Cancel /\ tasks \in [Permits -> Task]
      /\ running \in [Jobs -> Permits \cup {NoPermit}] /\ queue \in [Jobs -> Seq(0 .. 3)]
      /\ NoPermit \notin Permits
  BY SchedulerAssumption DEF Types, TypeOK
<1>0. (\A i \in Jobs : Sound(i)) /\ CallsHaveAsked
  BY DEF Attendance
<1> DEFINE left == cancels[j].todo \ {k}
<1>1. /\ UNCHANGED <<jobs, running, pending, shutting, faults, restarts, asked>>
      /\ cancels[j].pc = "signal" /\ k \in cancels[j].todo /\ SignalJob(k)
      /\ SameCalls(j) /\ SameWorld
  BY <1>t DEF CancelSignal, SameCalls, SameWorld
<1>2. /\ cancels'[j].family = cancels[j].family
      /\ cancels'[j].todo \subseteq cancels[j].family
      /\ \/ cancels'[j].pc = "signal"
         \/ cancels'[j].pc = "reconcile" /\ cancels'[j].todo = cancels[j].family
  <2>1. /\ cancels'[j].todo = (IF left = {} THEN cancels[j].family ELSE left)
        /\ cancels'[j].pc = (IF left = {} THEN "reconcile" ELSE "signal")
        /\ cancels'[j].family = cancels[j].family
    BY <1>t DEF CancelSignal, Cancel
  <2>2. cancels[j].todo \subseteq cancels[j].family
    BY <1>0 DEF CallsHaveAsked
  <2> QED
    BY <2>1, <2>2
<1>3. HasAsked(j)'
  BY <1>0, <1>1, <1>2 DEF HasAsked, CallsHaveAsked
<1>4. \A i, c \in Jobs : WillReconcile(c, i) => WillReconcile(c, i)'
  BY <1>1, <1>2 DEF SameCalls, WillReconcile
<1>5. WillReconcile(j, k)' /\ asked[k]
  BY <1>0, <1>1, <1>2 DEF CallsHaveAsked, WillReconcile
<1>6. /\ \A i \in Jobs : i # k => queue'[i] = queue[i]
      /\ queue[k] = <<>> => queue'[k] = <<>>
      /\ \A q \in Permits : q # running[k] => tasks'[q] = tasks[q]
      /\ running[k] # NoPermit =>
             tasks'[running[k]] = tasks[running[k]] \/ tasks'[running[k]] = Signalled(tasks[running[k]])
  BY <1>t, <1>1 DEF SignalJob, Queued
<1>7. \A p \in Permits : tasks'[p].pc = tasks[p].pc /\ tasks'[p].job = tasks[p].job
  BY <1>t, <1>6, SignalledTokens
<1>8. \A i \in Jobs : HasOwner(i)' = HasOwner(i)
  BY <1>1 DEF HasOwner
<1>9. Sound(k)'
  <2>1. Followed(k)'
    BY <1>5 DEF Followed
  <2>2. FitsItsRow(k)' /\ FlagIsAsked(k)'
    BY <1>0, <1>1 DEF Sound, FitsItsRow, FlagIsAsked
  <2>3. running[k] # NoPermit =>
               /\ tasks'[running[k]].pc = tasks[running[k]].pc
               /\ \/ tasks'[running[k]] = tasks[running[k]]
                  \/ tasks'[running[k]].user
    BY <1>t, <1>6, SignalledTokens
  <2>4. asked'[k] /\ jobs'[k] = jobs[k]
    BY <1>1, <1>5
  <2> QED
    BY <1>0, <1>1, <1>6, <2>1, <2>2, <2>3, <2>4, SignalledSound
<1>10. ASSUME NEW i \in Jobs, i # k
       PROVE  Sound(i)'
  <2>1. SameJob(i)
    BY <1>1, <1>6, <1>10 DEF SameJob
  <2>2. SameOwner(i)
    BY <1>t, <1>1, <1>6, <1>10 DEF SameOwner, Ownership, OneOwnerPerJob
  <2>3. Followed(i) => Followed(i)'
    BY <1>4, <1>7, <1>8, <2>1 DEF Followed, SameJob
  <2> QED
    BY <1>0, <1>1, <2>1, <2>2, <2>3, Untouched
<1> QED
  BY <1>0, <1>1, <1>3, <1>9, <1>10, CallsKept DEF Attendance

-----------------------------------------------------------------------------
\* The cancellation of an export records its request and signals its task at once.
LEMMA RenderCancelKeeps ==
    ASSUME Types, Ownership, Attendance, NEW j \in Jobs, RenderCancel(j)
    PROVE  Attendance'
<1>t. /\ cancels \in [Jobs -> Cancel] /\ tasks \in [Permits -> Task] /\ jobs \in [Jobs -> Row]
      /\ running \in [Jobs -> Permits \cup {NoPermit}] /\ queue \in [Jobs -> Seq(0 .. 3)]
      /\ asked \in [Jobs -> BOOLEAN] /\ NoPermit \notin Permits /\ jobs[j] \in Row
  BY SchedulerAssumption DEF Types, TypeOK
<1>0. (\A i \in Jobs : Sound(i)) /\ CallsHaveAsked
  BY DEF Attendance
<1>1. /\ UNCHANGED <<running, pending, shutting, restarts>> /\ SameWorld
      /\ Kind[j] = "FinalRender" /\ cancels[j].pc = "idle"
  <2>1. StoreOk \/ StoreFails
    BY DEF RenderCancel
  <2> QED
    BY <2>1, FaultsStay DEF RenderCancel, SameWorld
<1>2. /\ \A i \in Jobs : i # j => queue'[i] = queue[i]
      /\ queue[j] = <<>> => queue'[j] = <<>>
      /\ queue[j] = <<>> => UNCHANGED queue
  BY <1>t DEF RenderCancel, Queued
<1>3. \/ /\ jobs' = [jobs EXCEPT ![j] = CancelRequested(@)]
         /\ asked' = [asked EXCEPT ![j] = TRUE]
         /\ \/ /\ cancels' = [cancels EXCEPT ![j] = [pc |-> "reconcile", family |-> {j}, todo |-> {j}]]
               /\ UNCHANGED tasks
            \/ /\ queue[j] = <<>> /\ running[j] # NoPermit
               /\ tasks' = [tasks EXCEPT ![running[j]] = Signalled(@)]
               /\ UNCHANGED cancels
      \/ ~Undisturbed' /\ UNCHANGED <<jobs, asked, tasks, cancels>>
  <2>1. j \in Owned
    BY DEF RenderCancel
  <2>2. CASE Queued(j)
    BY <2>2, FailureDisturbs DEF RenderCancel
  <2>3. CASE ~Queued(j)
    <3>1. running[j] # NoPermit /\ queue[j] = <<>>
      BY <2>1, <2>3 DEF Owned, Queued
    <3> QED
      BY <2>3, <3>1, FailureDisturbs DEF RenderCancel
  <2> QED
    BY <2>2, <2>3
<1>4. /\ \A i \in Jobs : i # j => jobs'[i] = jobs[i] /\ asked'[i] = asked[i] /\ cancels'[i] = cancels[i]
      /\ \A q \in Permits : q # running[j] => tasks'[q] = tasks[q]
      /\ running[j] # NoPermit =>
             tasks'[running[j]] = tasks[running[j]] \/ tasks'[running[j]] = Signalled(tasks[running[j]])
      /\ \/ cancels'[j] = cancels[j]
         \/ cancels'[j] = [pc |-> "reconcile", family |-> {j}, todo |-> {j}] /\ asked'[j]
      /\ asked[j] => asked'[j]
      /\ \/ jobs'[j] = jobs[j] /\ asked'[j] = asked[j]
         \/ jobs'[j] = CancelRequested(jobs[j]) /\ asked'[j]
  <2>1. CASE ~Undisturbed' /\ UNCHANGED <<jobs, asked, tasks, cancels>>
    BY <2>1
  <2>2. CASE /\ jobs' = [jobs EXCEPT ![j] = CancelRequested(@)]
             /\ asked' = [asked EXCEPT ![j] = TRUE]
             /\ cancels' = [cancels EXCEPT ![j] = [pc |-> "reconcile", family |-> {j}, todo |-> {j}]]
             /\ UNCHANGED tasks
    BY <1>t, <2>2
  <2>3. CASE /\ jobs' = [jobs EXCEPT ![j] = CancelRequested(@)]
             /\ asked' = [asked EXCEPT ![j] = TRUE]
             /\ running[j] # NoPermit
             /\ tasks' = [tasks EXCEPT ![running[j]] = Signalled(@)]
             /\ UNCHANGED cancels
    BY <1>t, <2>3
  <2> QED
    BY <1>3, <2>1, <2>2, <2>3
<1>5. \A p \in Permits : tasks'[p].pc = tasks[p].pc /\ tasks'[p].job = tasks[p].job
  <2> SUFFICES ASSUME NEW p \in Permits
               PROVE  tasks'[p].pc = tasks[p].pc /\ tasks'[p].job = tasks[p].job
    OBVIOUS
  <2>1. tasks[p] \in Task /\ (p = running[j] => running[j] # NoPermit)
    BY <1>t
  <2>2. tasks'[p] = tasks[p] \/ tasks'[p] = Signalled(tasks[p])
    BY <1>4, <2>1
  <2> QED
    BY <2>1, <2>2, SignalledTokens
<1>6. \A i, c \in Jobs : WillReconcile(c, i) => WillReconcile(c, i)'
  BY <1>1, <1>4 DEF WillReconcile
<1>7. CallsHaveAsked'
  <2> SUFFICES ASSUME NEW k \in Jobs
               PROVE  HasAsked(k)'
    BY DEF CallsHaveAsked, HasAsked
  <2>1. cancels[k].family \subseteq Jobs /\ HasAsked(k)
    BY <1>t, <1>0 DEF CallsHaveAsked, HasAsked, Cancel
  <2>2. \A i \in Jobs : asked[i] => asked'[i]
    BY <1>4
  <2>3. CASE cancels'[k] = cancels[k]
    BY <2>1, <2>2, <2>3 DEF HasAsked
  <2>4. CASE k = j /\ cancels'[j] = [pc |-> "reconcile", family |-> {j}, todo |-> {j}] /\ asked'[j]
    BY <2>4 DEF HasAsked
  <2> QED
    BY <1>4, <2>3, <2>4
<1>8. ASSUME NEW i \in Jobs, i # j
      PROVE  Sound(i)'
  <2>1. SameJob(i)
    BY <1>1, <1>2, <1>4, <1>8 DEF SameJob
  <2>2. SameOwner(i)
    BY <1>t, <1>1, <1>4, <1>8 DEF SameOwner, Ownership, OneOwnerPerJob
  <2>3. Followed(i) => Followed(i)'
    BY <1>1, <1>5, <1>6, <2>1 DEF Followed, SameJob, HasOwner
  <2> QED
    BY <1>0, <1>1, <2>1, <2>2, <2>3, Untouched
<1>9. Sound(j)'
  <2>1. jobs'[j].state = jobs[j].state /\ jobs'[j].attempt = jobs[j].attempt
        /\ (jobs[j].cancel => jobs'[j].cancel)
    <3>1. jobs[j].cancel => CancelRequested(jobs[j]).cancel
      BY <1>t DEF CancelRequested, Row
    <3> QED
      BY <1>t, <1>4, <3>1, CancelRequestedFields
  <2>2. FitsItsRow(j)'
    BY <1>0, <1>1, <2>1 DEF Sound, FitsItsRow
  <2>3. FlagIsAsked(j)'
    BY <1>0, <1>1, <1>4 DEF Sound, FlagIsAsked
  <2>4. running[j] # NoPermit =>
               /\ tasks'[running[j]].pc = tasks[running[j]].pc
               /\ \/ tasks'[running[j]] = tasks[running[j]]
                  \/ tasks'[running[j]].user
    BY <1>t, <1>4, SignalledTokens
  <2>5. Undisturbed' /\ Followed(j) => Followed(j)'
    <3>1. Undisturbed' => WillReconcile(j, j)' \/ UNCHANGED queue
      BY <1>t, <1>2, <1>3 DEF WillReconcile
    <3> QED
      BY <1>1, <1>5, <1>6, <3>1 DEF Followed, HasOwner
  <2> QED
    BY <1>0, <1>1, <1>2, <1>4, <2>1, <2>2, <2>3, <2>4, <2>5, SignalledSound
<1> QED
  BY <1>7, <1>8, <1>9 DEF Attendance

\* A shutdown drops the queue.
LEMMA ShutdownKeeps ==
    ASSUME Types, Attendance, Shutdown
    PROVE  Attendance'
<1>1. /\ UNCHANGED <<jobs, running, pending, cancels, faults, restarts, asked>> /\ shutting' = TRUE
      /\ \A j \in Jobs : queue'[j] = <<>>
  BY DEF Shutdown
<1>2. ASSUME NEW j \in Jobs
      PROVE  Sound(j)'
  <2>1. Sound(j)
    BY DEF Attendance
  <2>2. FitsItsRow(j)' /\ AbsentIsIdle(j)' /\ FlagIsAsked(j)'
    BY <1>1, <2>1 DEF Sound, FitsItsRow, AbsentIsIdle, FlagIsAsked, HasOwner
  <2>3. SignalIsAsked(j)' /\ StartIsQueued(j)' /\ ActiveIsFollowed(j)' /\ WantedIsFollowed(j)' /\ StartsAdvance(j)'
    BY <1>1 DEF SignalIsAsked, StartIsQueued, ActiveIsFollowed, WantedIsFollowed, StartsAdvance, Undisturbed
  <2> QED
    BY <2>2, <2>3 DEF Sound
<1> QED
  BY <1>1, <1>2 DEF Attendance, CallsHaveAsked

\* What a recovery makes of a row.
LEMMA RecoveredFields ==
    ASSUME NEW row \in Row, NEW kind, row.state # "Absent", NEW new, new = Recovered(row, kind)
    PROVE  new.state \notin {"Absent", "Running", "Retrying", "Probing"} /\ new.attempt = row.attempt
BY DEF Recovered, Interrupted, Row

\* After a restart nothing is in progress, and nobody is expected to follow it up.
LEMMA RestartAttends ==
    ASSUME Types, Attendance, Restart
    PROVE  Attendance'
<1>t. jobs \in [Jobs -> Row] /\ restarts \in Nat
  BY SchedulerAssumption DEF Types, TypeOK
<1>1. /\ restarts' # 0 /\ restarts' > 0
      /\ \A j \in Jobs : /\ queue'[j] = <<>> /\ running'[j] = NoPermit /\ pending'[j] = {}
                         /\ cancels'[j] = NoCancel
  BY <1>t DEF Restart
<1>2. ASSUME NEW j \in Jobs
      PROVE  Sound(j)'
  <2>1. FitsItsRow(j)
    BY DEF Attendance, Sound
  <2>2. /\ jobs'[j].state \notin {"Running", "Retrying", "Probing"} /\ jobs'[j].attempt = jobs[j].attempt
        /\ jobs'[j].state = "Absent" => jobs[j].state = "Absent"
    <3>1. CASE jobs[j].state = "Absent"
      BY <3>1 DEF Restart
    <3>2. CASE jobs[j].state # "Absent"
      <4>1. jobs'[j] = Recovered(jobs[j], Kind[j])
        BY <3>2 DEF Restart
      <4> QED
        BY <1>t, <3>2, <4>1, RecoveredFields
    <3> QED
      BY <3>1, <3>2
  <2>3. FitsItsRow(j)'
    <3>1. jobs[j].state = "Absent" => jobs'[j] = jobs[j]
      BY DEF Restart
    <3> QED
      BY <1>1, <2>1, <2>2, <3>1 DEF FitsItsRow
  <2>4. AbsentIsIdle(j)' /\ SignalIsAsked(j)' /\ FlagIsAsked(j)' /\ StartIsQueued(j)'
    BY <1>1 DEF AbsentIsIdle, SignalIsAsked, FlagIsAsked, StartIsQueued, HasOwner
  <2>5. ActiveIsFollowed(j)' /\ WantedIsFollowed(j)' /\ StartsAdvance(j)'
    BY <1>1, <2>2 DEF ActiveIsFollowed, WantedIsFollowed, StartsAdvance, HasOwner
  <2> QED
    BY <2>3, <2>4, <2>5 DEF Sound
<1>3. CallsHaveAsked'
  BY <1>1 DEF CallsHaveAsked, NoCancel
<1> QED
  BY <1>2, <1>3 DEF Attendance

\* The invariant is inductive, given the types and the ownership rules.
LEMMA AttendanceStep ==
    ASSUME Types, Ownership, Attendance, [Next]_vars
    PROVE  Attendance'
<1>0. \A k \in Jobs : Sound(k)
  BY DEF Attendance
<1>1. ASSUME NEW j \in Jobs,
             \/ Start(j) \/ StartAgain(j) \/ Reauthorize(j) \/ RequireAuthorization(j) \/ RetryWithWorker(j)
             \/ \E a \in pending[j] : Submit(j, a)
      PROVE  Attendance'
  BY <1>0, <1>1, ClientSound, ClientFrame, ClientKeepsCalls DEF Attendance
<1>2. ASSUME NEW p \in Permits, TaskStep(p)
      PROVE  Attendance'
  <2>1. \A k \in Jobs : Sound(k)'
    BY <1>0, <1>2, MoveSound, StartFailSound, LeaveRunningSound, ReconcileAfterSound DEF TaskStep, Move
  <2>2. UNCHANGED <<cancels, asked>>
    BY <1>2 DEF TaskStep, StartRead, StartWrite, StartFail, WorkerReturns, Cleanup, Settle, BackoffEnds,
                RetryCancel, Requeue, LeaveRunning, ReconcileAfter
  <2> QED
    BY <2>1, <2>2 DEF Attendance, CallsHaveAsked
<1>3. ASSUME NEW j \in Jobs, NEW p \in Permits, Dispatch(j, p)
      PROVE  Attendance'
  <2>1. UNCHANGED <<cancels, asked>>
    BY <1>3 DEF Dispatch
  <2> QED
    BY <1>0, <1>3, <2>1, DispatchSound DEF Attendance, CallsHaveAsked
<1>4. ASSUME NEW j \in Jobs, CancelBegin(j) \/ RenderCancel(j) \/ CancelStep(j)
      PROVE  Attendance'
  BY <1>4, CancelBeginKeeps, RenderCancelKeeps, CancelRequestKeeps, CancelSignalKeeps, CancelReconcileKeeps,
     CancelReturnsKeeps DEF CancelStep
<1>5. CASE UNCHANGED vars
  <2>1. ASSUME NEW j \in Jobs
        PROVE  Sound(j)'
    <3>1. SameJob(j) /\ SameOwner(j) /\ SameWorld
      BY <1>5 DEF vars, SameJob, SameOwner, SameWorld
    <3>2. Followed(j) => Followed(j)'
      BY <1>5 DEF vars, Followed, HasOwner, WillReconcile
    <3> QED
      BY <1>0, <3>1, <3>2, Untouched
  <2> QED
    BY <1>5, <2>1 DEF vars, Attendance, CallsHaveAsked
<1> QED
  BY <1>1, <1>2, <1>3, <1>4, <1>5, ShutdownKeeps, RestartAttends DEF Next, ClientStep

\* It holds of an empty store.
LEMMA InitAttendance ==
    ASSUME Init
    PROVE  Attendance
<1>1. \A j \in Jobs : /\ jobs[j] = NoRow /\ queue[j] = <<>> /\ running[j] = NoPermit /\ pending[j] = {}
                      /\ cancels[j] = NoCancel
  BY DEF Init
<1>2. ASSUME NEW j \in Jobs
      PROVE  Sound(j)
  <2>1. jobs[j].state = "Absent" /\ jobs[j].attempt = 0 /\ ~HasOwner(j) /\ MaxAttempts[j] \in 1 .. 3
    BY <1>1, SchedulerAssumption DEF NoRow, HasOwner
  <2>2. FitsItsRow(j) /\ AbsentIsIdle(j) /\ SignalIsAsked(j) /\ FlagIsAsked(j) /\ StartIsQueued(j)
    BY <1>1, <2>1 DEF FitsItsRow, AbsentIsIdle, SignalIsAsked, FlagIsAsked, StartIsQueued
  <2>3. ActiveIsFollowed(j) /\ WantedIsFollowed(j) /\ StartsAdvance(j)
    BY <2>1 DEF ActiveIsFollowed, WantedIsFollowed, StartsAdvance, Wanted
  <2> QED
    BY <2>2, <2>3 DEF Sound
<1> QED
  BY <1>1, <1>2 DEF Attendance, CallsHaveAsked, NoCancel

\* Nothing is left behind.
THEOREM AttendanceHolds == Spec => []Attendance
<1>1. IInv /\ Attendance /\ [Next]_vars => Attendance'
  BY AttendanceStep DEF IInv, Types, Ownership
<1>2. Init => Attendance
  BY InitAttendance
<1> QED
  BY <1>1, <1>2, Invariance, PTL DEF Spec

\* Whoever follows a job attends it.
LEMMA FollowedIsAttended ==
    ASSUME Types, CallsHaveAsked, NEW j \in Jobs, Followed(j)
    PROVE  Attended(j)
<1>1. (\E k \in Jobs : WillReconcile(k, j)) => BeingCancelled(j)
  BY DEF CallsHaveAsked, WillReconcile, BeingCancelled
<1> QED
  BY <1>1 DEF Followed, Attended, HasOwner, Owned, Queued

\* A record that claims to be in progress is in progress.
THEOREM ActiveRecordsAttended == Spec => []ActiveRecordsAreAttended
<1>1. IInv /\ Attendance => ActiveRecordsAreAttended
  <2> SUFFICES ASSUME IInv, Attendance, faults = 0, ~shutting, NEW j \in Jobs,
                      jobs[j].state \in {"Running", "Retrying"}
               PROVE  Attended(j)
    BY DEF ActiveRecordsAreAttended
  <2>1. HasOwner(j) \/ Followed(j)
    BY DEF Attendance, Sound, ActiveIsFollowed, Undisturbed
  <2>2. Followed(j)
    BY <2>1 DEF Followed
  <2> QED
    BY <2>2, FollowedIsAttended DEF IInv, Types, Attendance
<1> QED
  BY <1>1, Invariance, AttendanceHolds, PTL

\* Queued work that nobody asked to cancel is never dropped from the scheduler's sight, and
\* so not by a start that fails.
THEOREM QueuedWorkAttended == Spec => []QueuedWorkIsAttended
<1>1. Attendance => QueuedWorkIsAttended
  <2> SUFFICES ASSUME Attendance, ~shutting, restarts = 0, NEW j \in Jobs, Wanted(j)
               PROVE  Attended(j)
    BY DEF QueuedWorkIsAttended, Wanted
  <2>1. queue[j] # <<>> \/ pending[j] # {} \/ HasOwner(j)
    BY DEF Attendance, Sound, WantedIsFollowed
  <2> QED
    BY <2>1 DEF Attended, HasOwner, Owned, Queued
<1> QED
  BY <1>1, AttendanceHolds, PTL

\* A row written in another state than running does not come to run.
LEMMA RowWritten ==
    ASSUME jobs \in [Jobs -> Row], NEW i \in Jobs, NEW row, jobs' = [jobs EXCEPT ![i] = row],
           row.state # "Running" \/ row.state = jobs[i].state,
           NEW j \in Jobs, jobs[j].state # "Running"
    PROVE  jobs'[j].state # "Running"
OBVIOUS

\* Only the start of a task makes a record running.
Starts(j) ==
    \E p \in Permits : tasks[p].pc = "write" /\ tasks[p].job = j /\ StartWrite(p)

\* Everything else leaves a record that is not running so.
LEMMA OnlyStartsRun ==
    ASSUME Types, Attendance, Next, NEW j \in Jobs, jobs[j].state # "Running", jobs'[j].state = "Running"
    PROVE  Starts(j)
<1>t. jobs \in [Jobs -> Row] /\ tasks \in [Permits -> GoodTask] /\ \A i \in Jobs : jobs[i] \in Row
  BY DEF Types, TypeOK, TaskOK
<1>0. \A i \in Jobs : Sound(i)
  BY DEF Attendance
<1>r. \A i \in Jobs : /\ CancelRequested(jobs[i]).state = jobs[i].state
                      /\ Reconciled(jobs[i]).state = "Cancelled"
                      /\ Refreshed(jobs[i]).state = "Queued"
                      /\ \A to, a : Transitioned(jobs[i], to, a, FALSE).state = to
  <2>1. ASSUME NEW row \in Row
        PROVE  /\ CancelRequested(row).state = row.state
               /\ Reconciled(row).state = "Cancelled"
               /\ Refreshed(row).state = "Queued"
               /\ \A to, a : Transitioned(row, to, a, FALSE).state = to
    BY DEF CancelRequested, Reconciled, Refreshed, Transitioned, Row
  <2> QED
    BY <1>t, <2>1
<1>1. ASSUME NEW i \in Jobs, ClientStep(i)
      PROVE  FALSE
  <2>1. \/ jobs' = jobs
        \/ jobs' = [jobs EXCEPT ![i] = [state |-> "Queued", cancel |-> FALSE, attempt |-> 0,
                                        ready |-> Kind[i] = "Derived"]]
        \/ jobs' = [jobs EXCEPT ![i] = Refreshed(@)]
        \/ jobs' = [jobs EXCEPT ![i] = Transitioned(@, "Blocked", 0, FALSE)]
        \/ jobs' = [jobs EXCEPT ![i] = Transitioned(@, "Queued", 0, FALSE)]
        \/ jobs' = [jobs EXCEPT ![i] = CancelRequested(@)]
    BY <1>1 DEF ClientStep, Start, StartAgain, Reauthorize, RequireAuthorization, RetryWithWorker, Submit,
                CancelBegin, RenderCancel
  <2>2. \/ jobs' = jobs
        \/ \E row : jobs' = [jobs EXCEPT ![i] = row] /\ (row.state # "Running" \/ row.state = jobs[i].state)
    <3>1. PICK new : new = [state |-> "Queued", cancel |-> FALSE, attempt |-> 0, ready |-> Kind[i] = "Derived"]
      OBVIOUS
    <3>2. /\ new.state # "Running" /\ Refreshed(jobs[i]).state # "Running"
          /\ Transitioned(jobs[i], "Blocked", 0, FALSE).state # "Running"
          /\ Transitioned(jobs[i], "Queued", 0, FALSE).state # "Running"
          /\ CancelRequested(jobs[i]).state = jobs[i].state
      <4>1. new.state = "Queued"
        BY <3>1
      <4>2. /\ Transitioned(jobs[i], "Blocked", 0, FALSE).state = "Blocked"
            /\ Transitioned(jobs[i], "Queued", 0, FALSE).state = "Queued"
            /\ Refreshed(jobs[i]).state = "Queued" /\ CancelRequested(jobs[i]).state = jobs[i].state
        BY <1>r, Zenon
      <4> QED
        BY <4>1, <4>2
    <3> QED
      BY <2>1, <3>1, <3>2, Zenon
  <2>3. CASE jobs' = jobs
    BY <2>3
  <2>4. CASE jobs' # jobs
    <3>1. PICK row : jobs' = [jobs EXCEPT ![i] = row] /\ (row.state # "Running" \/ row.state = jobs[i].state)
      BY <2>2, <2>4, Zenon
    <3> QED
      BY <1>t, <3>1, RowWritten
  <2> QED
    BY <2>3, <2>4
<1>2. ASSUME NEW i \in Jobs, CancelStep(i)
      PROVE  FALSE
  <2>1. \/ jobs' = jobs
        \/ jobs' = [k \in Jobs |-> IF k \in cancels[i].family THEN CancelRequested(jobs[k]) ELSE jobs[k]]
        \/ \E k \in Jobs : ReconcileCancellation(k)
    BY <1>2 DEF CancelStep, CancelRequest, CancelSignal, CancelReconcile, CancelReturns
  <2>2. ASSUME NEW k \in Jobs, ReconcileCancellation(k)
        PROVE  FALSE
    BY <1>0, <1>t, <1>r, <2>2, ReconcileAlone
  <2>3. ASSUME jobs' = [k \in Jobs |-> IF k \in cancels[i].family THEN CancelRequested(jobs[k]) ELSE jobs[k]]
        PROVE  FALSE
    BY <1>r, <2>3
  <2> QED
    BY <2>1, <2>2, <2>3
<1>3. ASSUME NEW p \in Permits, TaskStep(p)
      PROVE  Starts(j)
  <2>1. PICK i : i = tasks[p].job
    OBVIOUS
  <2>0. i \in Jobs
    BY <1>3, <1>t, <2>1, TaskFacts
       DEF TaskStep, StartRead, StartWrite, StartFail, WorkerReturns, Cleanup, Settle, BackoffEnds,
           RetryCancel, Requeue, LeaveRunning, ReconcileAfter
  <2>2. \/ jobs' = jobs
        \/ StartWrite(p)
        \/ jobs' = [jobs EXCEPT ![i] = CancelRequested(@)]
        \/ Settle(p)
        \/ \E a : jobs' = [jobs EXCEPT ![i] = Transitioned(@, "Queued", a, FALSE)]
        \/ ReconcileAfter(p)
    BY <1>3, <2>1 DEF TaskStep, StartRead, StartFail, WorkerReturns, Cleanup, BackoffEnds,
                      RetryCancel, Requeue, RequeueAs, LeaveRunning
  <2>3. CASE StartWrite(p)
    <3>1. \E row : jobs' = [jobs EXCEPT ![i] = row]
      <4>1. jobs = [jobs EXCEPT ![i] = jobs[i]]
        BY <1>t
      <4> QED
        BY <2>1, <2>3, <4>1 DEF StartWrite
    <3>2. i = j
      BY <1>t, <3>1
    <3> QED
      BY <2>1, <2>3, <3>2 DEF Starts, StartWrite
  <2>4. CASE Settle(p)
    <3>1. PICK to : to = SettledState(tasks[p].outcome, tasks[p].attempt, MaxAttempts[i])
      OBVIOUS
    <3>2. to # "Running"
      BY <3>1, SettledStates
    <3>3. jobs' = jobs \/ \E a : jobs' = [jobs EXCEPT ![i] = Transitioned(@, to, a, FALSE)]
      BY <2>1, <2>4, <3>1 DEF Settle
    <3>4. jobs' # jobs
      BY <1>t
    <3>5. PICK a : jobs' = [jobs EXCEPT ![i] = Transitioned(@, to, a, FALSE)]
      BY <3>3, <3>4, Zenon
    <3>6. Transitioned(jobs[i], to, a, FALSE).state = to
      BY <1>r, <2>0
    <3> QED
      BY <1>t, <2>0, <3>2, <3>5, <3>6, RowWritten
  <2>5. CASE ReconcileAfter(p)
    <3>1. jobs' = jobs \/ ReconcileCancellation(i)
      BY <2>1, <2>5 DEF ReconcileAfter
    <3> QED
      BY <1>0, <1>t, <1>r, <2>0, <3>1, ReconcileAlone
  <2>6. CASE jobs' = [jobs EXCEPT ![i] = CancelRequested(@)]
    BY <1>t, <1>r, <2>0, <2>6, RowWritten
  <2>7. ASSUME NEW a, jobs' = [jobs EXCEPT ![i] = Transitioned(@, "Queued", a, FALSE)]
        PROVE  FALSE
    <3>1. Transitioned(jobs[i], "Queued", a, FALSE).state = "Queued"
      BY <1>r, <2>0
    <3> QED
      BY <1>t, <2>0, <2>7, <3>1, RowWritten
  <2> QED
    BY <2>2, <2>3, <2>4, <2>5, <2>6, <2>7
<1>4. CASE Restart
  <2>1. CASE jobs[j].state = "Absent"
    BY <1>4, <2>1 DEF Restart
  <2>2. CASE jobs[j].state # "Absent"
    <3>1. jobs'[j] = Recovered(jobs[j], Kind[j])
      BY <1>4, <2>2 DEF Restart
    <3> QED
      BY <1>t, <2>2, <3>1, RecoveredFields
  <2> QED
    BY <2>1, <2>2
<1>5. ASSUME NEW i \in Jobs, NEW p \in Permits, Dispatch(i, p)
      PROVE  FALSE
  BY <1>5 DEF Dispatch
<1>6. ~Shutdown
  BY DEF Shutdown
<1> QED
  BY <1>1, <1>2, <1>3, <1>4, <1>5, <1>6 DEF Next

\* Every start counts.
THEOREM StartsCount == Spec => AttemptsAdvance
<1> DEFINE Advances == \A j \in Jobs :
           (/\ jobs[j].state # "Running" /\ jobs'[j].state = "Running"
            /\ ~shutting /\ ~asked[j] /\ Kind[j] # "FinalRender") =>
               jobs'[j].attempt > jobs[j].attempt
<1>1. IInv /\ Attendance /\ [Next]_vars => [Advances]_vars
  <2> SUFFICES ASSUME IInv, Attendance, Next, NEW j \in Jobs,
                      jobs[j].state # "Running", jobs'[j].state = "Running",
                      ~shutting, ~asked[j], Kind[j] # "FinalRender"
               PROVE  jobs'[j].attempt > jobs[j].attempt
    OBVIOUS
  <2>t. Types /\ jobs \in [Jobs -> Row] /\ jobs[j] \in Row
    BY DEF IInv, Types, TypeOK
  <2>1. PICK p \in Permits : tasks[p].pc = "write" /\ tasks[p].job = j /\ StartWrite(p)
    BY <2>t, OnlyStartsRun DEF Starts
  <2>2. /\ TransitionAllowed(jobs[j], "Running", tasks[p].attempt, MaxAttempts[j])
        /\ jobs' = [jobs EXCEPT ![j] = Transitioned(@, "Running", tasks[p].attempt, FALSE)]
    BY <2>1 DEF StartWrite
  <2>3. jobs'[j].attempt = tasks[p].attempt
    BY <2>t, <2>2 DEF Transitioned, Row
  <2>4. running[j] = p /\ p # NoPermit
    BY <2>1, SchedulerAssumption DEF IInv, OneOwnerPerJob, Owning, Starting
  <2>5. HasOwner(j) /\ OwnerAt(j) = "write" /\ Sound(j)
    BY <2>1, <2>4 DEF HasOwner, OwnerAt, Attendance
  <2>6. jobs[j].state = "Queued"
    BY <2>2, <2>5 DEF Sound, FitsItsRow, TransitionAllowed, CanTransitionTo, Reactivation, Terminal
  <2> QED
    BY <2>3, <2>4, <2>5, <2>6 DEF Sound, StartsAdvance, Wanted, Coming
<1>2. Spec => [][Advances]_vars
  BY <1>1, Invariance, AttendanceHolds, PTL DEF Spec
<1> QED
  BY <1>2 DEF AttemptsAdvance

-----------------------------------------------------------------------------
\* The preparation (MediaPreparation): its drivers write the parent's row beside the
\* scheduler, create the children and submit them.

\* The steps of the plans.
Step == {"unblock", "probe", "plan", "payload", "run", "enqueueProxy", "submitProxy", "enqueueThumbnail",
         "submitThumbnail", "awaitProxy", "progress", "awaitThumbnail", "complete"}

\* What a driver has left to do.
Left(steps) == {steps[i] : i \in 1 .. Len(steps)}

\* A suffix of a sequence, its head and its tail.
LEMMA SuffixLeft ==
    ASSUME NEW S, NEW t \in Seq(S)
    PROVE  \A i \in 1 .. Len(t) + 1 : Left(SubSeq(t, i, Len(t))) = {t[k] : k \in i .. Len(t)}
<1> SUFFICES ASSUME NEW i \in 1 .. Len(t) + 1
             PROVE  Left(SubSeq(t, i, Len(t))) = {t[k] : k \in i .. Len(t)}
  OBVIOUS
<1> DEFINE s == SubSeq(t, i, Len(t))
           A == {s[k] : k \in 1 .. Len(s)}
           B == {t[k] : k \in i .. Len(t)}
<1>1. Len(t) \in Nat
  OBVIOUS
<1>2. Len(s) = Len(t) - i + 1 /\ \A k \in 1 .. Len(s) : s[k] = t[i + k - 1]
  BY <1>1
<1>3. Left(s) = A
  BY DEF Left
<1>4. ASSUME NEW k \in 1 .. Len(s) PROVE i + k - 1 \in i .. Len(t) /\ s[k] = t[i + k - 1]
  BY <1>1, <1>2
<1>5. ASSUME NEW k \in i .. Len(t) PROVE k - i + 1 \in 1 .. Len(s) /\ s[k - i + 1] = t[k]
  BY <1>1, <1>2
<1> HIDE DEF s
<1>6. A \subseteq B
  BY <1>4
<1>7. B \subseteq A
  BY <1>5
<1> QED
  BY <1>3, <1>6, <1>7 DEF s

\* What is left of a plan after its first step.
Leaves(s, h, rest) ==
    /\ rest \in Plans
    /\ Left(s) = Left(rest) \cup {h}
    /\ h = "complete" => rest = <<>>
    /\ \A r \in Roles : h = Enqueuing(r) => Awaiting(r) \in Left(rest)

\* The plan of a call: completing the parent is its last step, and a child is awaited after its enqueue.
LEMMA PrepareFacts ==
    /\ Prepare \in Seq(Step) /\ Len(Prepare) = 13
    /\ \A i \in 1 .. 13 : /\ Prepare[i] = "complete" => i = 13
                          /\ \A r \in Roles : Prepare[i] = Enqueuing(r) =>
                                \E k \in i + 1 .. 13 : Prepare[k] = Awaiting(r)
<1>1. Prepare \in Seq(Step) /\ Len(Prepare) = 13
  <2>1. Len(Prepare) = 13
    BY DEF Prepare
  <2>2. \A i \in 1 .. 13 : Prepare[i] \in Step
    BY DEF Prepare, Step
  <2>3. Prepare = [i \in 1 .. 13 |-> Prepare[i]]
    BY DEF Prepare
  <2>4. Prepare \in Seq(Step)
    BY <2>2, <2>3, SeqDef
  <2> QED
    BY <2>1, <2>4
<1>2. ASSUME NEW i \in 1 .. 13 PROVE Prepare[i] = "complete" => i = 13
  BY DEF Prepare
<1>3. ASSUME NEW i \in 1 .. 13, NEW r \in Roles, Prepare[i] = Enqueuing(r)
      PROVE  \E k \in i + 1 .. 13 : Prepare[k] = Awaiting(r)
  <2>1. Prepare[10] = "awaitProxy" /\ Prepare[12] = "awaitThumbnail"
    BY DEF Prepare
  <2>2. i < 10
    BY <1>3 DEF Prepare, Enqueuing
  <2>3. Awaiting(r) \in {"awaitProxy", "awaitThumbnail"}
    BY DEF Awaiting
  <2> QED
    BY <2>1, <2>2, <2>3
<1> QED
  BY <1>1, <1>2, <1>3

\* The same of the plan of a resumption.
LEMMA ResumeFacts ==
    /\ Resume \in Seq(Step) /\ Len(Resume) = 8
    /\ \A i \in 1 .. 8 : /\ Resume[i] = "complete" => i = 8
                         /\ \A r \in Roles : Resume[i] = Enqueuing(r) =>
                                \E k \in i + 1 .. 8 : Resume[k] = Awaiting(r)
<1>1. Resume \in Seq(Step) /\ Len(Resume) = 8
  <2>1. Len(Resume) = 8
    BY DEF Resume
  <2>2. \A i \in 1 .. 8 : Resume[i] \in Step
    BY DEF Resume, Step
  <2>3. Resume = [i \in 1 .. 8 |-> Resume[i]]
    BY DEF Resume
  <2>4. Resume \in Seq(Step)
    BY <2>2, <2>3, SeqDef
  <2> QED
    BY <2>1, <2>4
<1>2. ASSUME NEW i \in 1 .. 8 PROVE Resume[i] = "complete" => i = 8
  BY DEF Resume
<1>3. ASSUME NEW i \in 1 .. 8, NEW r \in Roles, Resume[i] = Enqueuing(r)
      PROVE  \E k \in i + 1 .. 8 : Resume[k] = Awaiting(r)
  <2>1. Resume[6] = "awaitProxy" /\ Resume[7] = "awaitThumbnail"
    BY DEF Resume
  <2>2. i < 6
    BY <1>3 DEF Resume, Enqueuing
  <2>3. Awaiting(r) \in {"awaitProxy", "awaitThumbnail"}
    BY DEF Awaiting
  <2> QED
    BY <2>1, <2>2, <2>3
<1> QED
  BY <1>1, <1>2, <1>3

\* A plan's tail.
LEMMA SuffixLeaves ==
    ASSUME NEW n \in Nat, NEW S, NEW t \in Seq(S), Len(t) = n,
           \A i \in 1 .. n : /\ t[i] = "complete" => i = n
                             /\ \A r \in Roles : t[i] = Enqueuing(r) =>
                                   \E k \in i + 1 .. n : t[k] = Awaiting(r),
           Suffixes(t) \subseteq Plans,
           NEW s \in Suffixes(t), s # <<>>
    PROVE  Leaves(s, Head(s), Tail(s))
<1>1. PICK i \in 1 .. n + 1 : s = SubSeq(t, i, n)
  BY DEF Suffixes
<1>2. i # n + 1
  <2>1. i = n + 1 => s = <<>>
    BY <1>1, SubSeqEmpty
  <2> QED
    BY <2>1
<1>3. i \in 1 .. n
  BY <1>2
<1>4. Head(s) = t[i] /\ Tail(s) = SubSeq(t, i + 1, n)
  <2>1. Len(t) \in i .. Len(t)
    BY <1>3
  <2> QED
    BY <1>1, <1>3, <2>1, HeadTailOfSubSeq
<1>5. Tail(s) \in Suffixes(t)
  <2>1. i + 1 \in 1 .. Len(t) + 1 /\ Tail(s) = SubSeq(t, i + 1, Len(t))
    BY <1>3, <1>4
  <2> QED
    BY <2>1, Zenon DEF Suffixes
<1>6. Left(s) = {t[k] : k \in i .. n} /\ Left(Tail(s)) = {t[k] : k \in i + 1 .. n}
  <2>1. i \in 1 .. n + 1 /\ i + 1 \in 1 .. n + 1
    BY <1>3
  <2>2. \A x \in 1 .. n + 1 : Left(SubSeq(t, x, n)) = {t[k] : k \in x .. n}
    BY SuffixLeft
  <2> QED
    BY <1>1, <1>4, <2>1, <2>2
<1>7. Left(s) = Left(Tail(s)) \cup {Head(s)}
  <2>1. i .. n = (i + 1 .. n) \cup {i}
    BY <1>3
  <2> QED
    <3> DEFINE A == {t[k] : k \in i .. n}
               B == {t[k] : k \in i + 1 .. n}
    <3>1. A = B \cup {t[i]}
      BY <2>1
    <3> HIDE DEF A, B
    <3>2. Left(s) = A /\ Left(Tail(s)) = B
      BY <1>6 DEF A, B
    <3> QED
      BY <1>4, <3>1, <3>2
<1>8. Head(s) = "complete" => Tail(s) = <<>>
  BY <1>3, <1>4, SubSeqEmpty
<1>9. ASSUME NEW r \in Roles, Head(s) = Enqueuing(r)
      PROVE  Awaiting(r) \in Left(Tail(s))
  BY <1>3, <1>4, <1>6, <1>9
<1> QED
  BY <1>5, <1>7, <1>8, <1>9 DEF Leaves

\* What is left of any plan after its first step.
LEMMA PlanLeaves ==
    ASSUME NEW s \in Plans, s # <<>>
    PROVE  Leaves(s, Head(s), Tail(s))
<1>1. CASE s \in Suffixes(Prepare)
  BY <1>1, PrepareFacts, SuffixLeaves DEF Plans
<1>2. CASE s \in Suffixes(Resume)
  BY <1>2, ResumeFacts, SuffixLeaves DEF Plans
<1>3. CASE s \in {<<"settleFailed">>, <<"settleBlocked">>}
  <2>1. <<>> \in Plans
    <3>1. <<>> = SubSeq(Prepare, 14, 13)
      BY PrepareFacts, SubSeqEmpty
    <3> QED
      BY <3>1, PrepareFacts DEF Plans, Suffixes
  <2>2. Tail(s) = <<>> /\ Left(s) = {Head(s)} /\ Left(<<>>) = {}
    <3>1. PICK x \in {"settleFailed", "settleBlocked"} : s = <<x>>
      BY <1>3
    <3>2. Head(s) = x /\ Tail(s) = <<>> /\ Len(s) = 1 /\ s[1] = x
      BY <3>1
    <3> QED
      BY <3>2 DEF Left
  <2>3. Head(s) \in {"settleFailed", "settleBlocked"}
    BY <1>3
  <2> QED
    BY <2>1, <2>2, <2>3 DEF Leaves, Enqueuing
<1> QED
  BY <1>1, <1>2, <1>3 DEF Plans

\* The family: everybody but the preparation is its child, and it is nobody's.
LEMMA Family ==
    ASSUME PreparationAssumption
    PROVE  /\ Prep \in Jobs /\ Prep # NoJob /\ Prep \notin Children(Prep)
           /\ Kind[Prep] = "Preparation"
           /\ \A j \in Jobs : j # Prep => j \in Children(Prep) /\ Kind[j] = "Derived" /\ Parent[j] = Prep
           /\ NoJob \notin Children(Prep)
BY SchedulerAssumption DEF PreparationAssumption, Children

\* Both media are there.
HasItsMedia(rows) ==
    \A role \in Roles : \E c \in Children(Prep) : Role[c] = role /\ rows[c].state = "Complete"

\* What a driver holds of its children: a row it read for a role is a child of that
\* role; and once it is past a child's enqueue, or past waiting for it, on the way to
\* completing the parent, it has a child, or a complete one.
ReadsChildren(call) ==
    \A r \in Roles :
        \/ call.child[r].job = NoJob /\ call.child[r].state = "Absent"
        \/ call.child[r].job \in Children(Prep) /\ Role[call.child[r].job] = r

Gathers(call, rows) ==
    "complete" \in Left(call.steps) =>
        \A r \in Roles : Enqueuing(r) \notin Left(call.steps) =>
            /\ call.child[r].job \in Children(Prep)
            /\ Awaiting(r) \notin Left(call.steps) => rows[call.child[r].job].state = "Complete"

SoundCall(call, rows) ==
    call \in CallRecord /\ ReadsChildren(call) /\ Gathers(call, rows)

\* The scheduler never holds the preparation itself.
NotScheduled ==
    /\ queue[Prep] = <<>> /\ running[Prep] = NoPermit
    /\ \A p \in Permits : tasks[p].job # Prep

DriversSound ==
    /\ calls \in [Drivers -> CallRecord]
    /\ \A d \in Drivers : SoundCall(calls[d], jobs)

PInv ==
    /\ Types /\ Ownership
    /\ resume \in BOOLEAN
    /\ NotScheduled
    /\ DriversSound
    /\ CompletePreparationHasItsMedia

-----------------------------------------------------------------------------
\* The plans drivers begin with or give up with.
LEMMA SinglePlans ==
    /\ <<>> \in Plans /\ Left(<<>>) = {}
    /\ Prepare \in Plans /\ Tail(Prepare) \in Plans /\ Resume \in Plans
    /\ <<"settleFailed">> \in Plans /\ Left(<<"settleFailed">>) = {"settleFailed"}
    /\ <<"settleBlocked">> \in Plans /\ Left(<<"settleBlocked">>) = {"settleBlocked"}
<1>1. Left(<<>>) = {} /\ Left(<<"settleFailed">>) = {"settleFailed"} /\ Left(<<"settleBlocked">>) = {"settleBlocked"}
  BY DEF Left
<1>2. <<>> = SubSeq(Prepare, 14, 13)
  BY PrepareFacts, SubSeqEmpty
<1>3. Prepare = SubSeq(Prepare, 1, 13) /\ Tail(Prepare) = SubSeq(Prepare, 2, 13)
  BY DEF Prepare
<1>4. Resume = SubSeq(Resume, 1, 8)
  BY DEF Resume
<1>5. ASSUME NEW i \in 1 .. 14 PROVE SubSeq(Prepare, i, 13) \in Plans
  <2>1. i \in 1 .. Len(Prepare) + 1 /\ Len(Prepare) = 13
    BY PrepareFacts
  <2> QED
    BY <2>1, Zenon DEF Plans, Suffixes
<1>6. ASSUME NEW i \in 1 .. 9 PROVE SubSeq(Resume, i, 8) \in Plans
  <2>1. i \in 1 .. Len(Resume) + 1 /\ Len(Resume) = 8
    BY ResumeFacts
  <2> QED
    BY <2>1, Zenon DEF Plans, Suffixes
<1>7. <<>> \in Plans /\ Prepare \in Plans /\ Tail(Prepare) \in Plans
  <2>1. SubSeq(Prepare, 14, 13) \in Plans /\ SubSeq(Prepare, 1, 13) \in Plans /\ SubSeq(Prepare, 2, 13) \in Plans
    <3>1. 14 \in 1 .. 14 /\ 1 \in 1 .. 14 /\ 2 \in 1 .. 14
      OBVIOUS
    <3> QED
      BY <1>5, <3>1, Zenon
  <2> QED
    BY <1>2, <1>3, <2>1, Zenon
<1>8. Resume \in Plans
  <2>1. 1 \in 1 .. 9
    OBVIOUS
  <2> QED
    BY <1>4, <1>6, <2>1, Zenon
<1> QED
  BY <1>1, <1>7, <1>8 DEF Plans

\* An idle driver is sound.
LEMMA NoCallSound ==
    ASSUME NEW rows
    PROVE  SoundCall(NoCall, rows)
<1>1. NoCall \in CallRecord
  BY SinglePlans DEF NoCall, CallRecord, Unread
<1>2. ReadsChildren(NoCall)
  BY DEF NoCall, Unread, ReadsChildren
<1>3. Gathers(NoCall, rows)
  BY SinglePlans DEF NoCall, Gathers
<1> QED
  BY <1>1, <1>2, <1>3 DEF SoundCall

\* A driver that goes on to record an error has given its children up.
LEMMA SettlingSound ==
    ASSUME NEW call \in CallRecord, ReadsChildren(call), NEW rows, NEW saw \in BOOLEAN,
           NEW steps \in {<<"settleFailed">>, <<"settleBlocked">>},
           NEW new, new = [call EXCEPT !.steps = steps, !.saw = saw]
    PROVE  SoundCall(new, rows)
<1>1. steps \in Plans /\ "complete" \notin Left(steps)
  BY SinglePlans
<1>2. new \in CallRecord /\ new.steps = steps /\ new.child = call.child
  BY <1>1 DEF CallRecord
<1> QED
  BY <1>1, <1>2 DEF SoundCall, ReadsChildren, Gathers

\* A driver that takes its next step, which is neither an enqueue nor in vain.
LEMMA AdvanceSound ==
    ASSUME NEW call, NEW rows, NEW after, NEW saw \in BOOLEAN,
           SoundCall(call, rows), call.steps # <<>>,
           \A r \in Roles : Head(call.steps) # Enqueuing(r),
           \A r \in Roles : Head(call.steps) = Awaiting(r) =>
               after[call.child[r].job].state = "Complete",
           \A c \in Children(Prep) : rows[c].state = "Complete" => after[c].state = "Complete",
           NEW new, new = [call EXCEPT !.steps = Tail(call.steps), !.saw = saw]
    PROVE  SoundCall(new, after)
<1>1. call \in CallRecord /\ call.steps \in Plans
  BY DEF SoundCall, CallRecord
<1>2. Leaves(call.steps, Head(call.steps), Tail(call.steps))
  BY <1>1, PlanLeaves
<1>3. new \in CallRecord /\ new.steps = Tail(call.steps) /\ new.child = call.child
  BY <1>1, <1>2 DEF CallRecord, Leaves
<1>4. ReadsChildren(new)
  BY <1>3 DEF SoundCall, ReadsChildren
<1>5. Gathers(new, after)
  <2> SUFFICES ASSUME "complete" \in Left(new.steps), NEW r \in Roles, Enqueuing(r) \notin Left(new.steps)
               PROVE  /\ new.child[r].job \in Children(Prep)
                      /\ Awaiting(r) \notin Left(new.steps) => after[new.child[r].job].state = "Complete"
    BY DEF Gathers
  <2>1. "complete" \in Left(call.steps) /\ Enqueuing(r) \notin Left(call.steps)
    BY <1>2, <1>3 DEF Leaves
  <2>2. /\ call.child[r].job \in Children(Prep)
        /\ Awaiting(r) \notin Left(call.steps) => rows[call.child[r].job].state = "Complete"
    BY <2>1 DEF SoundCall, Gathers
  <2>3. Awaiting(r) \notin Left(new.steps) =>
            Awaiting(r) \notin Left(call.steps) \/ Head(call.steps) = Awaiting(r)
    BY <1>2, <1>3 DEF Leaves
  <2> QED
    BY <1>3, <2>2, <2>3
<1> QED
  BY <1>3, <1>4, <1>5 DEF SoundCall

\* A driver that has found or created the child of a role.
LEMMA EnqueuedSound ==
    ASSUME PreparationAssumption,
           NEW call, NEW rows, NEW after \in [Jobs -> Row], NEW saw \in BOOLEAN, NEW role \in Roles,
           NEW c \in Children(Prep), Role[c] = role,
           SoundCall(call, rows), call.steps # <<>>, Head(call.steps) = Enqueuing(role),
           \A k \in Children(Prep) : rows[k].state = "Complete" => after[k].state = "Complete"
    PROVE  SoundCall([steps |-> Tail(call.steps), attempt |-> call.attempt, saw |-> saw,
                      child |-> [call.child EXCEPT ![role] =
                          [job |-> c, state |-> after[c].state, attempt |-> after[c].attempt]]], after)
<1>a. PICK got : got = [job |-> c, state |-> after[c].state, attempt |-> after[c].attempt]
  OBVIOUS
<1>b. PICK child : child = [call.child EXCEPT ![role] = got]
  OBVIOUS
<1>c. PICK new : new = [steps |-> Tail(call.steps), attempt |-> call.attempt, saw |-> saw, child |-> child]
  OBVIOUS
<1>1. call \in CallRecord /\ call.steps \in Plans
  BY DEF SoundCall, CallRecord
<1>2. Leaves(call.steps, Head(call.steps), Tail(call.steps))
  BY <1>1, PlanLeaves
<1> DEFINE Read == [job : Jobs \cup {NoJob}, state : States \cup {"Absent"}, attempt : 0 .. 3]
<1>3. got \in Read /\ got.job = c
  BY <1>a DEF Row, Children
<1>4. call.child \in [Roles -> Read] /\ call.attempt \in 0 .. 4
  BY <1>1 DEF CallRecord
<1> HIDE DEF Read
<1>5. /\ new.steps = Tail(call.steps) /\ new.saw = saw /\ new.attempt = call.attempt
      /\ new.child = child
  BY <1>c
<1>6. new.child \in [Roles -> Read] /\ new.child[role] = got
      /\ \A r \in Roles : r # role => new.child[r] = call.child[r]
  BY <1>b, <1>3, <1>4, <1>5
<1>7. new \in CallRecord
  <2>1. Tail(call.steps) \in Plans
    BY <1>2 DEF Leaves
  <2>2. child \in [Roles -> Read]
    BY <1>5, <1>6
  <2> QED
    BY <1>c, <1>4, <1>5, <2>1, <2>2 DEF CallRecord, Read
<1>8. ReadsChildren(new)
  BY <1>3, <1>6 DEF SoundCall, ReadsChildren
<1>9. Gathers(new, after)
  <2> SUFFICES ASSUME "complete" \in Left(new.steps), NEW r \in Roles, Enqueuing(r) \notin Left(new.steps)
               PROVE  /\ new.child[r].job \in Children(Prep)
                      /\ Awaiting(r) \notin Left(new.steps) => after[new.child[r].job].state = "Complete"
    BY DEF Gathers
  <2>1. CASE r = role
    BY <1>2, <1>3, <1>5, <1>6, <2>1 DEF Leaves
  <2>2. CASE r # role
    <3>1. Enqueuing(r) # Enqueuing(role) /\ Enqueuing(role) # Awaiting(r)
      BY <2>2 DEF Enqueuing, Awaiting, Roles
    <3>2. "complete" \in Left(call.steps) /\ Enqueuing(r) \notin Left(call.steps)
      BY <1>2, <1>5, <3>1 DEF Leaves
    <3>3. /\ call.child[r].job \in Children(Prep)
          /\ Awaiting(r) \notin Left(call.steps) => rows[call.child[r].job].state = "Complete"
      BY <3>2 DEF SoundCall, Gathers
    <3>4. Awaiting(r) \notin Left(new.steps) => Awaiting(r) \notin Left(call.steps)
      BY <1>2, <1>5, <3>1 DEF Leaves
    <3> QED
      BY <1>6, <2>2, <3>3, <3>4
  <2> QED
    BY <2>1, <2>2
<1> QED
  <2>1. SoundCall(new, after)
    BY <1>7, <1>8, <1>9 DEF SoundCall
  <2> QED
    BY <1>a, <1>b, <1>c, <2>1

\* Only one driver moves, and soundly.
OnlyMoves(d) ==
    /\ calls' \in [Drivers -> CallRecord]
    /\ \A e \in Drivers : e # d => calls'[e] = calls[e]
    /\ SoundCall(calls'[d], jobs')

\* A step of one driver leaves the others alone.
LEMMA GoesFacts ==
    ASSUME PreparationAssumption, DriversSound, NEW d \in Drivers, jobs' \in [Jobs -> Row],
           NEW steps, Goes(d, steps)
    PROVE  /\ \A e \in Drivers : e # d => calls'[e] = calls[e]
           /\ SoundCall(calls'[d], jobs') => OnlyMoves(d)
           /\ steps = <<>> => calls'[d] = NoCall
           /\ steps # <<>> => calls'[d] = [calls[d] EXCEPT !.steps = steps, !.saw = jobs'[Prep].cancel]
           /\ jobs'[Prep].cancel \in BOOLEAN
<1>0. calls \in [Drivers -> CallRecord]
  BY DEF DriversSound
<1>1. PICK new : new = IF steps = <<>> THEN NoCall
                       ELSE [calls[d] EXCEPT !.steps = steps, !.saw = jobs'[Prep].cancel]
  OBVIOUS
<1>2. calls' = [calls EXCEPT ![d] = new]
  BY <1>0, <1>1 DEF Goes
<1>3. /\ \A e \in Drivers : e # d => calls'[e] = calls[e]
      /\ calls'[d] = new
      /\ new \in CallRecord => calls' \in [Drivers -> CallRecord]
  BY <1>0, <1>2
<1>4. jobs'[Prep].cancel \in BOOLEAN
  BY Family DEF Row
<1> QED
  BY <1>1, <1>3, <1>4 DEF OnlyMoves, SoundCall

\* A driver ends.
LEMMA EndMoves ==
    ASSUME PreparationAssumption, DriversSound, NEW d \in Drivers, jobs' \in [Jobs -> Row],
           Goes(d, <<>>)
    PROVE  OnlyMoves(d)
<1>1. calls'[d] = NoCall
  BY GoesFacts
<1> QED
  BY <1>1, GoesFacts, NoCallSound

\* A driver goes on to record an error.
LEMMA SettlingMoves ==
    ASSUME PreparationAssumption, DriversSound, NEW d \in Drivers, jobs' \in [Jobs -> Row],
           NEW steps \in {<<"settleFailed">>, <<"settleBlocked">>}, Goes(d, steps)
    PROVE  OnlyMoves(d)
<1>1. steps # <<>>
  OBVIOUS
<1>2. PICK saw \in BOOLEAN : saw = jobs'[Prep].cancel
  BY GoesFacts
<1>3. calls'[d] = [calls[d] EXCEPT !.steps = steps, !.saw = saw]
  BY <1>1, <1>2, GoesFacts
<1>4. calls[d] \in CallRecord /\ ReadsChildren(calls[d])
  BY DEF DriversSound, SoundCall
<1>5. SoundCall(calls'[d], jobs')
  BY <1>3, <1>4, SettlingSound
<1> QED
  BY <1>5, GoesFacts

\* A driver gives up on an error of the store.
LEMMA AbandonMoves ==
    ASSUME PreparationAssumption, DriversSound, NEW d \in Drivers, jobs' \in [Jobs -> Row],
           Abandon(d)
    PROVE  OnlyMoves(d)
<1>1. Goes(d, <<"settleFailed">>) \/ Goes(d, <<>>)
  BY DEF Abandon
<1> QED
  BY <1>1, EndMoves, SettlingMoves

\* What a driver's step does to the rows: it touches the parent's, which it does not
\* take out of a final state, and creates children.
FamilyRows ==
    /\ jobs' \in [Jobs -> Row]
    /\ \A k \in Jobs : k # Prep =>
           \/ jobs'[k] = jobs[k]
           \/ jobs[k].state = "Absent" /\ jobs'[k].state = "Queued"
    /\ Final(jobs[Prep]) => jobs'[Prep].state = jobs[Prep].state

\* A driver takes its next step.
LEMMA AdvanceMoves ==
    ASSUME PreparationAssumption, DriversSound, NEW d \in Drivers, FamilyRows,
           calls[d].steps # <<>>,
           \A r \in Roles : Head(calls[d].steps) # Enqueuing(r),
           \A r \in Roles : Head(calls[d].steps) = Awaiting(r) =>
               jobs'[calls[d].child[r].job].state = "Complete",
           Advance(d)
    PROVE  OnlyMoves(d)
<1>1. CASE Tail(calls[d].steps) = <<>>
  BY <1>1, EndMoves DEF Advance, FamilyRows
<1>2. CASE Tail(calls[d].steps) # <<>>
  <2>1. jobs' \in [Jobs -> Row]
    BY DEF FamilyRows
  <2>2. PICK steps : steps = Tail(calls[d].steps)
    OBVIOUS
  <2>3. Goes(d, steps)
    BY <2>2 DEF Advance
  <2>4. PICK saw \in BOOLEAN : saw = jobs'[Prep].cancel
    BY <2>1, <2>3, GoesFacts
  <2>5. calls'[d] = [calls[d] EXCEPT !.steps = Tail(calls[d].steps), !.saw = saw]
    BY <1>2, <2>1, <2>2, <2>3, <2>4, GoesFacts
  <2>6. \A c \in Children(Prep) : jobs[c].state = "Complete" => jobs'[c].state = "Complete"
    BY Family DEF FamilyRows, Children
  <2>7. SoundCall(calls[d], jobs)
    BY DEF DriversSound
  <2>8. PICK after : after = jobs'
    OBVIOUS
  <2>9. SoundCall(calls'[d], after)
    BY <2>5, <2>6, <2>7, <2>8, AdvanceSound
  <2> QED
    BY <2>1, <2>3, <2>8, <2>9, GoesFacts
<1> QED
  BY <1>1, <1>2

\* A write of the parent's row.
LEMMA ParentRow ==
    ASSUME PreparationAssumption, jobs \in [Jobs -> Row],
           NEW to \in States, NEW attempt \in 0 .. 4,
           TransitionAllowed(jobs[Prep], to, attempt, MaxAttempts[Prep]),
           jobs' = [jobs EXCEPT ![Prep] = Transitioned(@, to, attempt, FALSE)]
    PROVE  /\ FamilyRows
           /\ jobs'[Prep].state = to
           /\ \A k \in Jobs : k # Prep => jobs'[k] = jobs[k]
<1>0. Prep \in Jobs /\ MaxAttempts[Prep] \in 1 .. 3
  BY Family, SchedulerAssumption
<1>1. attempt \in 0 .. 3
  BY <1>0 DEF TransitionAllowed
<1>2. PICK row \in Row : row = jobs[Prep]
  BY <1>0
<1>3. Transitioned(row, to, attempt, FALSE) \in Row /\ Transitioned(row, to, attempt, FALSE).state = to
  BY <1>1, <1>2 DEF Transitioned, Row
<1>4. /\ jobs' \in [Jobs -> Row] /\ jobs'[Prep].state = to
      /\ \A k \in Jobs : k # Prep => jobs'[k] = jobs[k]
  BY <1>0, <1>2, <1>3
<1>5. KeepsFinal
  BY <1>0, TransitionKeepsFinal
<1> QED
  BY <1>0, <1>4, <1>5 DEF FamilyRows, KeepsFinal

\* No row is written.
LEMMA SameRows ==
    ASSUME jobs \in [Jobs -> Row], jobs' = jobs
    PROVE  FamilyRows
BY DEF FamilyRows

\* The store's answer.
LEMMA FaultsBounded ==
    ASSUME faults \in 0 .. MaxFaults, StoreOk \/ StoreFails
    PROVE  faults' \in 0 .. MaxFaults
BY SchedulerAssumption DEF StoreOk, StoreFails

\* A transition of the parent by a driver, accepted or refused.
LEMMA WriteParentFacts ==
    ASSUME PreparationAssumption, Types, DriversSound, NEW d \in Drivers,
           calls[d].steps # <<>>,
           \A r \in Roles : Head(calls[d].steps) # Enqueuing(r) /\ Head(calls[d].steps) # Awaiting(r),
           NEW to \in States, NEW attempt \in 0 .. 4, WriteParent(d, to, attempt)
    PROVE  /\ FamilyRows
           /\ faults' \in 0 .. MaxFaults
           /\ jobs'[Prep].state \in {jobs[Prep].state, to}
           /\ \A k \in Jobs : k # Prep => jobs'[k] = jobs[k]
           /\ OnlyMoves(d)
<1>0. jobs \in [Jobs -> Row] /\ faults \in 0 .. MaxFaults
  BY DEF Types, TypeOK
<1>1. faults' \in 0 .. MaxFaults
  BY <1>0, FaultsBounded DEF WriteParent
<1>2. CASE /\ TransitionAllowed(jobs[Prep], to, attempt, MaxAttempts[Prep])
           /\ jobs' = [jobs EXCEPT ![Prep] = Transitioned(@, to, attempt, FALSE)]
           /\ Advance(d)
  <2>1. /\ FamilyRows
        /\ jobs'[Prep].state = to
        /\ \A k \in Jobs : k # Prep => jobs'[k] = jobs[k]
    BY <1>0, <1>2, ParentRow
  <2>2. OnlyMoves(d)
    BY <1>2, <2>1, AdvanceMoves
  <2> QED
    BY <1>1, <2>1, <2>2
<1>3. CASE UNCHANGED jobs /\ Abandon(d)
  <2>1. FamilyRows
    BY <1>0, <1>3, SameRows
  <2>2. OnlyMoves(d)
    BY <1>3, <2>1, AbandonMoves DEF FamilyRows
  <2> QED
    BY <1>1, <1>3, <2>1, <2>2
<1> QED
  BY <1>2, <1>3 DEF WriteParent

\* What a driver's step does.
DriverShape(d) ==
    /\ UNCHANGED <<running, tasks, pending, cancels, shutting, restarts>>
    /\ resume' \in BOOLEAN
    /\ faults' \in 0 .. MaxFaults
    /\ asked' \in [Jobs -> BOOLEAN]
    /\ FamilyRows
    /\ OnlyMoves(d)
    /\ jobs'[Prep].state = "Complete" => jobs[Prep].state = "Complete" \/ HasItsMedia(jobs')
    /\ queue' = queue \/ \E c \in Children(Prep), a \in 0 .. 3 : c \notin Owned /\ Push(c, a)

Drives == PreparationAssumption /\ Types /\ DriversSound /\ resume \in BOOLEAN

\* What the steps of drivers need to know of the types.
LEMMA DriveTypes ==
    ASSUME Drives
    PROVE  /\ jobs \in [Jobs -> Row] /\ faults \in 0 .. MaxFaults /\ asked \in [Jobs -> BOOLEAN]
           /\ resume \in BOOLEAN /\ calls \in [Drivers -> CallRecord]
           /\ Prep \in Jobs /\ jobs[Prep].attempt \in 0 .. 3 /\ jobs[Prep].cancel \in BOOLEAN
           /\ \A d \in Drivers : calls[d].attempt \in 0 .. 4
BY Family DEF Drives, Types, TypeOK, DriversSound, CallRecord, Row

\* A call of video_prepare_asset begins.
LEMMA BeginPrepareShape ==
    ASSUME Drives, NEW d \in Calls, BeginPrepare(d)
    PROVE  DriverShape(d)
<1>d. d \in Drivers /\ PreparationAssumption
  BY DEF Drivers, Drives
<1>t. /\ jobs \in [Jobs -> Row] /\ faults \in 0 .. MaxFaults /\ asked \in [Jobs -> BOOLEAN]
      /\ resume \in BOOLEAN /\ calls \in [Drivers -> CallRecord]
      /\ Prep \in Jobs /\ jobs[Prep].attempt \in 0 .. 3 /\ jobs[Prep].cancel \in BOOLEAN
  BY DriveTypes
<1>1. FamilyRows /\ jobs'[Prep].state # "Complete"
  <2>1. CASE jobs' = jobs
    BY <1>t, <2>1, SameRows DEF BeginPrepare
  <2>2. CASE jobs[Prep].state = "Absent" /\ jobs' = [jobs EXCEPT ![Prep] = [NoRow EXCEPT !.state = "Queued"]]
    <3>1. PICK row : row = [NoRow EXCEPT !.state = "Queued"]
      OBVIOUS
    <3>2. row \in Row /\ row.state = "Queued"
      <4>1. row = [state |-> "Queued", cancel |-> FALSE, attempt |-> 0, ready |-> FALSE]
        BY <3>1 DEF NoRow
      <4> QED
        BY <4>1 DEF Row, States, Unsettled
    <3>3. jobs' \in [Jobs -> Row] /\ jobs'[Prep].state = "Queued" /\ \A k \in Jobs : k # Prep => jobs'[k] = jobs[k]
      BY <1>t, <2>2, <3>1, <3>2
    <3> QED
      BY <2>2, <3>3 DEF FamilyRows, Final
  <2> QED
    BY <2>1, <2>2 DEF BeginPrepare
<1>2. OnlyMoves(d)
  <2>1. PICK steps : steps = IF jobs[Prep].state = "Blocked" THEN Prepare ELSE Tail(Prepare)
    OBVIOUS
  <2>0. PICK attempt \in 0 .. 4 : attempt = jobs[Prep].attempt + 1
    BY <1>t
  <2>2. PICK new : new = [NoCall EXCEPT !.attempt = attempt, !.saw = jobs[Prep].cancel,
                                        !.steps = steps]
    OBVIOUS
  <2>3. calls' = [calls EXCEPT ![d] = new]
    BY <2>0, <2>1, <2>2 DEF BeginPrepare
  <2>4. steps \in Plans /\ \A r \in Roles : Enqueuing(r) \in Left(steps)
    <3>1. \A r \in Roles : Enqueuing(r) \in Left(Prepare)
      <4>1. Prepare[6] = "enqueueProxy" /\ Prepare[8] = "enqueueThumbnail" /\ Len(Prepare) = 13
        BY DEF Prepare
      <4> QED
        BY <4>1 DEF Enqueuing, Left
    <3>2. Prepare \in Plans /\ Prepare # <<>> /\ Tail(Prepare) \in Plans
      BY SinglePlans, PrepareFacts
    <3>3. Left(Prepare) = Left(Tail(Prepare)) \cup {"unblock"}
      <4>1. Head(Prepare) = "unblock"
        BY DEF Prepare
      <4> QED
        BY <3>2, <4>1, PlanLeaves DEF Leaves
    <3>4. \A r \in Roles : Enqueuing(r) # "unblock"
      BY DEF Enqueuing
    <3> QED
      BY <2>1, <3>1, <3>2, <3>3, <3>4
  <2>5. /\ new \in CallRecord /\ new.steps = steps /\ new.child = NoCall.child
    <3>1. NoCall \in CallRecord
      BY NoCallSound DEF SoundCall
    <3> QED
      BY <1>t, <2>2, <2>4, <3>1 DEF CallRecord
  <2>6. ReadsChildren(new)
    BY <2>5 DEF NoCall, Unread, ReadsChildren
  <2>7. SoundCall(new, jobs')
    BY <2>4, <2>5, <2>6 DEF SoundCall, Gathers
  <2> QED
    BY <1>d, <1>t, <2>3, <2>5, <2>7 DEF OnlyMoves
<1> QED
  BY <1>t, <1>1, <1>2 DEF BeginPrepare, OnlyParent, DriverShape

\* The resumption after a start.
LEMMA ResumeShape ==
    ASSUME Drives, ResumePreparation
    PROVE  DriverShape(Recovery)
<1>d. Recovery \in Drivers /\ PreparationAssumption
  BY DEF Drivers, Drives
<1>t. /\ jobs \in [Jobs -> Row] /\ faults \in 0 .. MaxFaults /\ asked \in [Jobs -> BOOLEAN]
      /\ calls \in [Drivers -> CallRecord]
      /\ Prep \in Jobs /\ jobs[Prep].attempt \in 0 .. 3 /\ jobs[Prep].cancel \in BOOLEAN
  BY DriveTypes
<1>0. /\ UNCHANGED <<jobs, queue, running, tasks, pending, cancels, shutting, restarts, faults, asked>>
      /\ resume' = FALSE
  BY DEF ResumePreparation, vars
<1>1. FamilyRows
  BY <1>0, <1>t, SameRows
<1>2. OnlyMoves(Recovery)
  <2>1. CASE UNCHANGED calls
    BY <1>0, <1>d, <1>t, <2>1 DEF OnlyMoves, Drives, DriversSound
  <2>2. CASE calls' = [calls EXCEPT ![Recovery] =
                [NoCall EXCEPT !.saw = jobs[Prep].cancel,
                               !.steps = IF jobs[Prep].ready THEN Resume ELSE <<"settleFailed">>]]
    <3>1. PICK steps : steps = IF jobs[Prep].ready THEN Resume ELSE <<"settleFailed">>
      OBVIOUS
    <3>2. PICK new : new = [NoCall EXCEPT !.saw = jobs[Prep].cancel, !.steps = steps]
      OBVIOUS
    <3>3. calls' = [calls EXCEPT ![Recovery] = new]
      BY <2>2, <3>1, <3>2
    <3>4. steps \in Plans /\ ("complete" \in Left(steps) => \A r \in Roles : Enqueuing(r) \in Left(steps))
      <4>1. \A r \in Roles : Enqueuing(r) \in Left(Resume)
        <5>1. Resume[1] = "enqueueProxy" /\ Resume[2] = "enqueueThumbnail" /\ Len(Resume) = 8
          BY DEF Resume
        <5> QED
          BY <5>1 DEF Enqueuing, Left
      <4> QED
        BY <3>1, <4>1, SinglePlans
    <3>5. /\ new \in CallRecord /\ new.steps = steps /\ new.child = NoCall.child
      <4>1. NoCall \in CallRecord
        BY NoCallSound DEF SoundCall
      <4> QED
        BY <1>t, <3>2, <3>4, <4>1 DEF CallRecord
    <3>6. ReadsChildren(new)
      BY <3>5 DEF NoCall, Unread, ReadsChildren
    <3>7. SoundCall(new, jobs')
      BY <3>4, <3>5, <3>6 DEF SoundCall, Gathers
    <3> QED
      BY <1>d, <1>t, <3>3, <3>5, <3>7 DEF OnlyMoves
  <2> QED
    BY <2>1, <2>2 DEF ResumePreparation
<1> QED
  BY <1>t, <1>0, <1>1, <1>2 DEF DriverShape

\* The steps that write the parent's row and nothing else.
LEMMA WritesShape ==
    ASSUME Drives, NEW d \in Drivers, Unblock(d) \/ Probe(d) \/ Run(d) \/ CompleteParent(d)
    PROVE  DriverShape(d)
<1>d. PreparationAssumption /\ Types /\ DriversSound
  BY DEF Drives
<1>t. /\ jobs \in [Jobs -> Row] /\ faults \in 0 .. MaxFaults /\ asked \in [Jobs -> BOOLEAN]
      /\ resume \in BOOLEAN /\ calls \in [Drivers -> CallRecord]
      /\ Prep \in Jobs /\ jobs[Prep].attempt \in 0 .. 4
      /\ calls[d].attempt \in 0 .. 4
  BY DriveTypes
<1>1. /\ calls[d].steps # <<>>
      /\ \A r \in Roles : Head(calls[d].steps) # Enqueuing(r) /\ Head(calls[d].steps) # Awaiting(r)
  BY DEF Unblock, Probe, Run, CompleteParent, At, Enqueuing, Awaiting
<1>2. PICK to \in {"Queued", "Probing", "Running", "Complete"}, attempt \in 0 .. 4 :
         /\ WriteParent(d, to, attempt)
         /\ to = "Complete" => Head(calls[d].steps) = "complete"
  BY <1>t DEF Unblock, Probe, Run, CompleteParent, At
<1>3. /\ FamilyRows
      /\ faults' \in 0 .. MaxFaults
      /\ jobs'[Prep].state \in {jobs[Prep].state, to}
      /\ \A k \in Jobs : k # Prep => jobs'[k] = jobs[k]
      /\ OnlyMoves(d)
  <2>1. to \in States
    BY DEF States, Unsettled, Terminal
  <2> QED
    BY <1>d, <1>1, <1>2, <2>1, WriteParentFacts
<1>4. ASSUME to = "Complete" PROVE HasItsMedia(jobs')
  <2>1. Head(calls[d].steps) = "complete"
    BY <1>2, <1>4
  <2>2. SoundCall(calls[d], jobs) /\ calls[d].steps \in Plans
    BY <1>t DEF Drives, DriversSound, CallRecord
  <2>3. Left(calls[d].steps) = {"complete"}
    BY <1>1, <2>1, <2>2, PlanLeaves, SinglePlans DEF Leaves
  <2>4. \A r \in Roles : Enqueuing(r) # "complete" /\ Awaiting(r) # "complete"
    BY DEF Enqueuing, Awaiting
  <2>5. ASSUME NEW r \in Roles
        PROVE  \E c \in Children(Prep) : Role[c] = r /\ jobs'[c].state = "Complete"
    <3>1. PICK c : c = calls[d].child[r].job
      OBVIOUS
    <3>2. c \in Children(Prep) /\ jobs[c].state = "Complete"
      BY <2>2, <2>3, <2>4, <3>1 DEF SoundCall, Gathers
    <3>3. Role[c] = r
      BY <1>d, <2>2, <3>1, <3>2, Family DEF SoundCall, ReadsChildren
    <3>4. jobs'[c] = jobs[c]
      BY <1>3, <1>d, <3>2, Family DEF Children
    <3> QED
      BY <3>2, <3>3, <3>4
  <2> QED
    BY <2>5 DEF HasItsMedia
<1>5. asked' \in [Jobs -> BOOLEAN]
  BY <1>t, RestartedType DEF Unblock, Probe, Run, CompleteParent
<1>6. UNCHANGED <<running, tasks, pending, cancels, shutting, restarts, resume, queue>>
  BY DEF Unblock, Probe, Run, CompleteParent, OnlyParent
<1> QED
  BY <1>t, <1>3, <1>4, <1>5, <1>6 DEF DriverShape

\* The plan of the asset.
LEMMA PlanShape ==
    ASSUME Drives, NEW d \in Drivers, Plan(d)
    PROVE  DriverShape(d)
<1>d. PreparationAssumption /\ Types /\ DriversSound
  BY DEF Drives
<1>t. /\ jobs \in [Jobs -> Row] /\ faults \in 0 .. MaxFaults /\ asked \in [Jobs -> BOOLEAN]
      /\ resume \in BOOLEAN
  BY DriveTypes
<1>1. /\ UNCHANGED <<jobs, asked, faults, running, tasks, pending, cancels, shutting, restarts, resume, queue>>
      /\ calls[d].steps # <<>> /\ Head(calls[d].steps) = "plan"
  BY DEF Plan, At, OnlyParent
<1>2. FamilyRows
  BY <1>t, <1>1, SameRows
<1>3. \A r \in Roles : Head(calls[d].steps) # Enqueuing(r) /\ Head(calls[d].steps) # Awaiting(r)
  BY <1>1 DEF Enqueuing, Awaiting
<1>4. OnlyMoves(d)
  <2>1. CASE Advance(d)
    BY <1>d, <1>1, <1>2, <1>3, <2>1, AdvanceMoves
  <2>2. CASE Goes(d, <<"settleFailed">>) \/ Goes(d, <<"settleBlocked">>)
    BY <1>d, <1>2, <2>2, SettlingMoves DEF FamilyRows
  <2> QED
    BY <2>1, <2>2 DEF Plan
<1> QED
  BY <1>t, <1>1, <1>2, <1>4 DEF DriverShape

\* The plan is stored.
LEMMA StorePlanShape ==
    ASSUME Drives, NEW d \in Drivers, StorePlan(d)
    PROVE  DriverShape(d)
<1>d. PreparationAssumption /\ Types /\ DriversSound
  BY DEF Drives
<1>t. /\ jobs \in [Jobs -> Row] /\ faults \in 0 .. MaxFaults /\ asked \in [Jobs -> BOOLEAN]
      /\ resume \in BOOLEAN /\ Prep \in Jobs
  BY DriveTypes
<1>1. /\ UNCHANGED <<asked, running, tasks, pending, cancels, shutting, restarts, resume, queue>>
      /\ calls[d].steps # <<>> /\ Head(calls[d].steps) = "payload"
      /\ StoreOk \/ StoreFails
  BY DEF StorePlan, At, OnlyParent
<1>2. FamilyRows /\ jobs'[Prep].state = jobs[Prep].state
  <2>1. CASE UNCHANGED jobs
    BY <1>t, <2>1, SameRows
  <2>2. CASE jobs' = [jobs EXCEPT ![Prep].ready = TRUE]
    <3>1. /\ jobs' \in [Jobs -> Row] /\ jobs'[Prep].state = jobs[Prep].state
          /\ \A k \in Jobs : k # Prep => jobs'[k] = jobs[k]
      BY <1>t, <2>2 DEF Row
    <3> QED
      BY <3>1 DEF FamilyRows
  <2> QED
    BY <2>1, <2>2 DEF StorePlan
<1>3. \A r \in Roles : Head(calls[d].steps) # Enqueuing(r) /\ Head(calls[d].steps) # Awaiting(r)
  BY <1>1 DEF Enqueuing, Awaiting
<1>4. OnlyMoves(d)
  <2>1. CASE Advance(d)
    BY <1>d, <1>1, <1>2, <1>3, <2>1, AdvanceMoves
  <2>2. CASE Abandon(d)
    BY <1>d, <1>2, <2>2, AbandonMoves DEF FamilyRows
  <2> QED
    BY <2>1, <2>2 DEF StorePlan
<1>5. faults' \in 0 .. MaxFaults
  BY <1>t, <1>1, FaultsBounded
<1> QED
  BY <1>t, <1>1, <1>2, <1>4, <1>5 DEF DriverShape

\* A child is found or created.
LEMMA EnqueueChildShape ==
    ASSUME Drives, NEW d \in Drivers, NEW role \in Roles, EnqueueChild(d, role)
    PROVE  DriverShape(d)
<1>d. PreparationAssumption /\ Types /\ DriversSound
  BY DEF Drives
<1>t. /\ jobs \in [Jobs -> Row] /\ faults \in 0 .. MaxFaults /\ asked \in [Jobs -> BOOLEAN]
      /\ resume \in BOOLEAN /\ Prep \in Jobs /\ calls \in [Drivers -> CallRecord]
  BY DriveTypes
<1>1. /\ UNCHANGED <<asked, running, tasks, pending, cancels, shutting, restarts, resume, queue>>
      /\ calls[d].steps # <<>> /\ Head(calls[d].steps) = Enqueuing(role)
      /\ StoreOk \/ StoreFails
  BY DEF EnqueueChild, At, OnlyParent
<1>2. CASE UNCHANGED jobs /\ Abandon(d)
  <2>1. FamilyRows
    BY <1>t, <1>2, SameRows
  <2>2. OnlyMoves(d)
    BY <1>d, <1>2, <2>1, AbandonMoves DEF FamilyRows
  <2> QED
    BY <1>t, <1>1, <1>2, <2>1, <2>2, FaultsBounded DEF DriverShape
<1>3. ASSUME NEW c \in Children(Prep),
             IF Found(role) # {} THEN c \in Found(role) /\ UNCHANGED jobs
             ELSE /\ Role[c] = role
                  /\ jobs[c].state = "Absent"
                  /\ jobs' = [jobs EXCEPT ![c] = [NoRow EXCEPT !.state = "Queued", !.ready = TRUE]],
             calls' = [calls EXCEPT ![d] =
                 [steps |-> Tail(@.steps), attempt |-> @.attempt, saw |-> jobs'[Prep].cancel,
                  child |-> [@.child EXCEPT ![role] =
                      [job |-> c, state |-> jobs'[c].state, attempt |-> jobs'[c].attempt]]]]
      PROVE  DriverShape(d)
  <2>0. c \in Jobs /\ c # Prep
    BY <1>d, Family DEF Children
  <2>1. Role[c] = role /\ FamilyRows /\ jobs'[Prep] = jobs[Prep]
    <3>1. CASE Found(role) # {}
      BY <1>3, <1>t, <3>1, SameRows DEF Found
    <3>2. CASE Found(role) = {}
      <4>1. PICK row : row = [NoRow EXCEPT !.state = "Queued", !.ready = TRUE]
        OBVIOUS
      <4>2. row \in Row /\ row.state = "Queued"
        <5>1. row = [state |-> "Queued", cancel |-> FALSE, attempt |-> 0, ready |-> TRUE]
          BY <4>1 DEF NoRow
        <5> QED
          BY <5>1 DEF Row, States, Unsettled
      <4>3. Role[c] = role /\ jobs[c].state = "Absent" /\ jobs' = [jobs EXCEPT ![c] = row]
        BY <1>3, <3>2, <4>1
      <4>4. /\ jobs' \in [Jobs -> Row] /\ jobs'[c].state = "Queued"
            /\ \A k \in Jobs : k # c => jobs'[k] = jobs[k]
        BY <1>t, <2>0, <4>2, <4>3
      <4> QED
        BY <1>t, <2>0, <4>3, <4>4 DEF FamilyRows
    <3> QED
      BY <3>1, <3>2
  <2>2. PICK saw \in BOOLEAN : saw = jobs'[Prep].cancel
    BY <2>1, DriveTypes
  <2>3. PICK got : got = [job |-> c, state |-> jobs'[c].state, attempt |-> jobs'[c].attempt]
    OBVIOUS
  <2>4. PICK call : call = calls[d]
    OBVIOUS
  <2>5. PICK child : child = [call.child EXCEPT ![role] = got]
    OBVIOUS
  <2>6. call \in CallRecord /\ SoundCall(call, jobs)
    BY <1>d, <2>4 DEF DriversSound
  <2>7. PICK new : new = [steps |-> Tail(call.steps), attempt |-> call.attempt, saw |-> saw, child |-> child]
    OBVIOUS
  <2>8. calls' = [calls EXCEPT ![d] = new]
    <3>1. calls' = [calls EXCEPT ![d] =
              [steps |-> Tail(call.steps), attempt |-> call.attempt, saw |-> saw,
               child |-> [call.child EXCEPT ![role] = got]]]
      BY <1>3, <2>2, <2>3, <2>4
    <3>2. calls' = [calls EXCEPT ![d] =
              [steps |-> Tail(call.steps), attempt |-> call.attempt, saw |-> saw, child |-> child]]
      BY <2>5, <3>1
    <3> QED
      BY <2>7, <3>2
  <2>9. SoundCall(new, jobs')
    <3>1. PICK after \in [Jobs -> Row] : after = jobs'
      BY <2>1 DEF FamilyRows
    <3>2. \A k \in Children(Prep) : jobs[k].state = "Complete" => after[k].state = "Complete"
      BY <1>d, <2>1, <3>1, Family DEF FamilyRows, Children
    <3>3. got = [job |-> c, state |-> after[c].state, attempt |-> after[c].attempt]
      BY <2>3, <3>1
    <3>4. call.steps # <<>> /\ Head(call.steps) = Enqueuing(role)
      BY <1>1, <2>4
    <3>5. SoundCall(new, after)
      <4>1. Role[c] = role
        BY <2>1
      <4> HIDE DEF FamilyRows, CallRecord
      <4>2. PICK rows : rows = jobs
        OBVIOUS
      <4>3. SoundCall(call, rows) /\ \A k \in Children(Prep) : rows[k].state = "Complete" => after[k].state = "Complete"
        BY <2>6, <3>2, <4>2
      <4>4. SoundCall([steps |-> Tail(call.steps), attempt |-> call.attempt, saw |-> saw,
                      child |-> [call.child EXCEPT ![role] =
                          [job |-> c, state |-> after[c].state, attempt |-> after[c].attempt]]], after)
        BY <1>d, <4>1, <4>3, <3>4, EnqueuedSound
      <4> QED
        BY <4>4, <2>5, <2>7, <3>3
    <3> QED
      BY <3>1, <3>5
  <2>10. OnlyMoves(d)
    BY <1>t, <2>8, <2>9 DEF OnlyMoves, SoundCall
  <2> QED
    BY <1>t, <1>1, <2>1, <2>10, FaultsBounded DEF DriverShape
<1> QED
  BY <1>2, <1>3 DEF EnqueueChild

\* A child is given to the scheduler.
LEMMA SubmitChildShape ==
    ASSUME Drives, NEW d \in Drivers, NEW role \in Roles, SubmitChild(d, role)
    PROVE  DriverShape(d)
<1>d. PreparationAssumption /\ Types /\ DriversSound
  BY DEF Drives
<1>t. /\ jobs \in [Jobs -> Row] /\ faults \in 0 .. MaxFaults /\ asked \in [Jobs -> BOOLEAN]
      /\ resume \in BOOLEAN /\ Prep \in Jobs /\ calls \in [Drivers -> CallRecord]
  BY DriveTypes
<1>1. /\ UNCHANGED <<jobs, asked, faults, running, tasks, pending, cancels, shutting, restarts, resume>>
      /\ calls[d].steps # <<>> /\ Head(calls[d].steps) = Submitting(role)
  BY DEF SubmitChild, At
<1>2. FamilyRows
  BY <1>t, <1>1, SameRows
<1>3. \A r \in Roles : Head(calls[d].steps) # Enqueuing(r) /\ Head(calls[d].steps) # Awaiting(r)
  BY <1>1 DEF Enqueuing, Awaiting, Submitting
<1>4. OnlyMoves(d)
  <2>1. CASE Advance(d)
    BY <1>d, <1>1, <1>2, <1>3, <2>1, AdvanceMoves
  <2>2. CASE Abandon(d)
    BY <1>d, <1>2, <2>2, AbandonMoves DEF FamilyRows
  <2> QED
    BY <2>1, <2>2 DEF SubmitChild
<1>5. queue' = queue \/ \E c \in Children(Prep), a \in 0 .. 3 : c \notin Owned /\ Push(c, a)
  <2> SUFFICES ASSUME queue' # queue
               PROVE  \E c \in Children(Prep), a \in 0 .. 3 : c \notin Owned /\ Push(c, a)
    OBVIOUS
  <2>1. PICK c : c = calls[d].child[role]
    OBVIOUS
  <2>2. c.state = "Queued" /\ c.job \notin Owned /\ Push(c.job, c.attempt)
    BY <2>1 DEF SubmitChild
  <2>3. c.job \in Children(Prep) /\ c.attempt \in 0 .. 3
    <3>1. calls[d] \in CallRecord /\ ReadsChildren(calls[d])
      BY <1>d DEF DriversSound, SoundCall
    <3> QED
      BY <2>1, <2>2, <3>1 DEF CallRecord, ReadsChildren
  <2> QED
    BY <2>2, <2>3
<1> QED
  BY <1>t, <1>1, <1>2, <1>4, <1>5 DEF DriverShape

\* A driver waits for a child.
LEMMA AwaitShape ==
    ASSUME Drives, NEW d \in Drivers, NEW role \in Roles, Await(d, role)
    PROVE  DriverShape(d)
<1>d. PreparationAssumption /\ Types /\ DriversSound
  BY DEF Drives
<1>t. /\ jobs \in [Jobs -> Row] /\ faults \in 0 .. MaxFaults /\ asked \in [Jobs -> BOOLEAN]
      /\ resume \in BOOLEAN /\ Prep \in Jobs /\ calls \in [Drivers -> CallRecord]
      /\ jobs[Prep].cancel \in BOOLEAN
  BY DriveTypes
<1>1. /\ UNCHANGED <<jobs, asked, running, tasks, pending, cancels, shutting, restarts, resume, queue>>
      /\ calls[d].steps # <<>> /\ Head(calls[d].steps) = Awaiting(role)
      /\ StoreOk \/ StoreFails
  BY DEF Await, At, OnlyParent
<1>2. FamilyRows
  BY <1>t, <1>1, SameRows
<1>3. OnlyMoves(d)
  <2>1. CASE jobs[calls[d].child[role].job].state = "Complete" /\ Advance(d)
    <3>1. \A r \in Roles : Head(calls[d].steps) # Enqueuing(r)
      BY <1>1 DEF Enqueuing, Awaiting
    <3>2. \A r \in Roles : Head(calls[d].steps) = Awaiting(r) => r = role
      BY <1>1 DEF Awaiting, Roles
    <3>3. \A r \in Roles : Head(calls[d].steps) = Awaiting(r) =>
               jobs'[calls[d].child[r].job].state = "Complete"
      BY <1>1, <2>1, <3>2
    <3> QED
      BY <1>d, <1>1, <1>2, <2>1, <3>1, <3>3, AdvanceMoves
  <2>2. CASE calls' = [calls EXCEPT ![d] =
                [NoCall EXCEPT !.steps = <<"settleFailed">>, !.saw = jobs[Prep].cancel]]
    <3>1. PICK new : new = [NoCall EXCEPT !.steps = <<"settleFailed">>, !.saw = jobs[Prep].cancel]
      OBVIOUS
    <3>2. NoCall \in CallRecord /\ ReadsChildren(NoCall)
      BY NoCallSound DEF SoundCall
    <3>3. SoundCall(new, jobs')
      BY <1>t, <3>1, <3>2, SettlingSound
    <3>4. calls' = [calls EXCEPT ![d] = new]
      BY <2>2, <3>1
    <3> QED
      BY <1>t, <3>3, <3>4 DEF OnlyMoves, SoundCall
  <2> QED
    BY <2>1, <2>2 DEF Await
<1> QED
  BY <1>t, <1>1, <1>2, <1>3, FaultsBounded DEF DriverShape

\* An error is recorded in the parent.
LEMMA SettleErrorShape ==
    ASSUME Drives, NEW d \in Drivers, NEW to \in {"Failed", "Blocked"}, SettleError(d, to)
    PROVE  DriverShape(d)
<1>d. PreparationAssumption /\ Types /\ DriversSound
  BY DEF Drives
<1>t. /\ jobs \in [Jobs -> Row] /\ faults \in 0 .. MaxFaults /\ asked \in [Jobs -> BOOLEAN]
      /\ resume \in BOOLEAN /\ Prep \in Jobs /\ jobs[Prep].attempt \in 0 .. 3
  BY DriveTypes
<1>1. /\ UNCHANGED <<asked, running, tasks, pending, cancels, shutting, restarts, resume, queue>>
      /\ StoreOk \/ StoreFails
      /\ Goes(d, <<>>)
  BY DEF SettleError, OnlyParent
<1>2. FamilyRows /\ jobs'[Prep].state \in {jobs[Prep].state, to}
  <2>1. CASE UNCHANGED jobs
    BY <1>t, <2>1, SameRows
  <2>2. CASE /\ TransitionAllowed(jobs[Prep], to, jobs[Prep].attempt, MaxAttempts[Prep])
             /\ jobs' = [jobs EXCEPT ![Prep] = Transitioned(@, to, @.attempt, FALSE)]
    <3>1. PICK a \in 0 .. 4 : a = jobs[Prep].attempt
      BY <1>t
    <3>2. /\ TransitionAllowed(jobs[Prep], to, a, MaxAttempts[Prep])
          /\ jobs' = [jobs EXCEPT ![Prep] = Transitioned(@, to, a, FALSE)]
      BY <2>2, <3>1
    <3>3. to \in States
      BY DEF States, Terminal, Unsettled
    <3> QED
      BY <1>d, <1>t, <3>2, <3>3, ParentRow
  <2> QED
    BY <2>1, <2>2 DEF SettleError
<1>3. OnlyMoves(d)
  BY <1>d, <1>1, <1>2, EndMoves DEF FamilyRows
<1> QED
  BY <1>t, <1>1, <1>2, <1>3, FaultsBounded DEF DriverShape

\* Every step of a driver.
LEMMA DriverFacts ==
    ASSUME Drives
    PROVE  /\ \A d \in Drivers : CallStep(d) => DriverShape(d)
           /\ \A d \in Calls : BeginPrepare(d) => DriverShape(d)
           /\ ResumePreparation => DriverShape(Recovery)
<1>1. ASSUME NEW d \in Drivers, CallStep(d) PROVE DriverShape(d)
  <2>1. CASE Unblock(d) \/ Probe(d) \/ Run(d) \/ CompleteParent(d)
    BY <2>1, WritesShape
  <2>2. CASE Plan(d)
    BY <2>2, PlanShape
  <2>3. CASE StorePlan(d)
    BY <2>3, StorePlanShape
  <2>4. ASSUME NEW role \in Roles, EnqueueChild(d, role) \/ SubmitChild(d, role) \/ Await(d, role)
        PROVE  DriverShape(d)
    BY <2>4, EnqueueChildShape, SubmitChildShape, AwaitShape
  <2>5. ASSUME NEW to \in {"Failed", "Blocked"}, SettleError(d, to)
        PROVE  DriverShape(d)
    BY <2>5, SettleErrorShape
  <2> QED
    BY <1>1, <2>1, <2>2, <2>3, <2>4, <2>5 DEF CallStep
<1> QED
  BY <1>1, BeginPrepareShape, ResumeShape

\* What a driver holds stays true as long as complete children stay complete.
LEMMA SoundStays ==
    ASSUME NEW call, NEW rows, NEW after, SoundCall(call, rows),
           \A c \in Children(Prep) : rows[c].state = "Complete" => after[c].state = "Complete"
    PROVE  SoundCall(call, after)
BY DEF SoundCall, Gathers

\* Media that are there stay.
LEMMA MediaStay ==
    ASSUME NEW rows, NEW after, HasItsMedia(rows),
           \A c \in Children(Prep) : rows[c].state = "Complete" => after[c].state = "Complete"
    PROVE  HasItsMedia(after)
BY DEF HasItsMedia

\* A driver's step keeps the invariant.
LEMMA DriverStep ==
    ASSUME PreparationAssumption, PInv, NEW d \in Drivers, DriverShape(d)
    PROVE  PInv' /\ KeepsFinal
<1>t. /\ jobs \in [Jobs -> Row] /\ queue \in [Jobs -> Seq(0 .. 3)]
      /\ Types /\ TypeOK /\ TaskOK /\ Prep \in Jobs
  BY Family DEF PInv, Types, TypeOK
<1>r. FamilyRows
  BY DEF DriverShape
<1>1. queue' \in [Jobs -> Seq(0 .. 3)] /\ queue'[Prep] = <<>>
      /\ \A k \in Jobs : \/ queue'[k] = queue[k]
                         \/ running[k] = NoPermit /\ queue[k] = <<>> /\ Len(queue'[k]) = 1
  <2>1. CASE queue' = queue
    BY <1>t, <2>1 DEF PInv, NotScheduled
  <2>2. ASSUME NEW c \in Children(Prep), NEW a \in 0 .. 3, c \notin Owned, Push(c, a)
        PROVE  /\ queue' \in [Jobs -> Seq(0 .. 3)] /\ queue'[Prep] = <<>>
               /\ \A k \in Jobs : \/ queue'[k] = queue[k]
                                  \/ running[k] = NoPermit /\ queue[k] = <<>> /\ Len(queue'[k]) = 1
    <3>1. c \in Jobs /\ c # Prep
      BY Family DEF Children
    <3>2. running[c] = NoPermit /\ queue[c] = <<>>
      BY <2>2, <3>1 DEF Owned, Queued
    <3>3. /\ queue' \in [Jobs -> Seq(0 .. 3)]
          /\ Len(queue'[c]) = Len(queue[c]) + 1
          /\ \A k \in Jobs : k # c => queue'[k] = queue[k]
      BY <1>t, <2>2, <3>1, PushFacts
    <3>4. Len(queue'[c]) = 1
      BY <3>2, <3>3
    <3> QED
      BY <1>t, <3>1, <3>2, <3>3, <3>4 DEF PInv, NotScheduled
  <2> QED
    BY <2>1, <2>2 DEF DriverShape
<1>2. Types'
  BY <1>t, <1>1, <1>r DEF DriverShape, FamilyRows, Types, TypeOK, TaskOK
<1>3. CallShape
  <2>1. \A k \in Jobs : (running[k] # NoPermit /\ jobs[k].state \in {"Running", "Retrying"}) =>
                           jobs'[k] = jobs[k]
    BY <1>r DEF FamilyRows, PInv, NotScheduled
  <2>2. \A k \in Jobs : Len(queue[k]) \in Nat /\ (queue[k] = <<>> => Len(queue[k]) = 0)
    BY <1>t
  <2>3. \A k \in Jobs : \/ Len(queue'[k]) <= Len(queue[k])
                        \/ /\ running[k] = NoPermit
                           /\ Len(queue[k]) = 0
                           /\ Len(queue'[k]) = 1
    BY <1>1, <2>2
  <2> QED
    BY <2>1, <2>3 DEF CallShape, DriverShape
<1>4. Ownership'
  BY <1>2, <1>3, CallKeeps DEF PInv
<1>5. NotScheduled'
  BY <1>1 DEF DriverShape, PInv, NotScheduled
<1>6. KeepsFinal
  <2> SUFFICES ASSUME NEW k \in Jobs, Final(jobs[k])
               PROVE  jobs'[k].state = jobs[k].state
    BY DEF KeepsFinal
  <2> QED
    BY <1>r DEF FamilyRows, Final
<1>7. \A c \in Children(Prep) : jobs[c].state = "Complete" => jobs'[c].state = "Complete"
  BY <1>6 DEF KeepsFinal, Final, Children
<1>8. DriversSound'
  <2>1. calls' \in [Drivers -> CallRecord]
    BY DEF DriverShape, OnlyMoves
  <2>2. ASSUME NEW e \in Drivers PROVE SoundCall(calls'[e], jobs')
    <3>1. CASE e = d
      BY <3>1 DEF DriverShape, OnlyMoves
    <3>2. CASE e # d
      <4>1. calls'[e] = calls[e] /\ SoundCall(calls[e], jobs)
        BY <3>2 DEF DriverShape, OnlyMoves, PInv, DriversSound
      <4>2. SoundCall(calls[e], jobs')
        BY <1>7, <4>1, SoundStays
      <4> QED
        BY <4>1, <4>2
    <3> QED
      BY <3>1, <3>2
  <2> QED
    BY <2>1, <2>2 DEF DriversSound
<1>9. CompletePreparationHasItsMedia'
  <2>1. jobs[Prep].state = "Complete" => HasItsMedia(jobs)
    BY DEF PInv, CompletePreparationHasItsMedia, HasItsMedia
  <2>2. HasItsMedia(jobs) => HasItsMedia(jobs')
    BY <1>7, MediaStay
  <2> QED
    BY <2>1, <2>2 DEF DriverShape, CompletePreparationHasItsMedia, HasItsMedia
<1> QED
  BY <1>2, <1>4, <1>5, <1>6, <1>8, <1>9 DEF PInv, DriverShape

\* What a step of the scheduler, of a user or of a restart leaves of the preparation.
Spares ==
    /\ NotScheduled'
    /\ KeepsFinal
    /\ jobs'[Prep].state = "Complete" => jobs[Prep].state = "Complete"

\* Settling a row cancels it or leaves it.
LEMMA SettleCancels ==
    ASSUME NEW rows \in [Jobs -> Row], NEW j \in Jobs \cup {NoJob}, NEW owned
    PROVE  \A k \in Jobs : \/ SettleRow(rows, j, owned)[k] = rows[k]
                           \/ SettleRow(rows, j, owned)[k].state = "Cancelled"
<1>1. CASE j # NoJob /\ Reconcilable(rows, j, Children(j), owned)
  <2>1. SettleRow(rows, j, owned) = [rows EXCEPT ![j] = Reconciled(rows[j])]
    BY <1>1 DEF SettleRow
  <2>2. j \in Jobs
    BY <1>1
  <2>3. Reconciled(rows[j]).state = "Cancelled"
    BY <2>2 DEF Reconciled, Row
  <2> QED
    BY <2>1, <2>2, <2>3
<1>2. CASE ~(j # NoJob /\ Reconcilable(rows, j, Children(j), owned))
  BY <1>2 DEF SettleRow
<1> QED
  BY <1>1, <1>2

\* The rows of a reconciliation.
LEMMA ReconcileSpares ==
    ASSUME PreparationAssumption, jobs \in [Jobs -> Row], NEW j \in Jobs,
           ReconcileCancellation(j) \/ jobs' = jobs
    PROVE  jobs'[Prep].state = "Complete" => jobs[Prep].state = "Complete"
<1>1. CASE ReconcileCancellation(j)
  <2>1. \A k \in Jobs : jobs'[k] = jobs[k] \/ jobs'[k].state = "Cancelled"
    <3>1. CASE j \in Owned
      BY <1>1, <3>1 DEF ReconcileCancellation
    <3>2. CASE j \notin Owned
      <4>1. PICK first \in [Jobs -> Row] :
                /\ first = SettleRow(jobs, j, Owned)
                /\ \A k \in Jobs : first[k] = jobs[k] \/ first[k].state = "Cancelled"
        BY SettleRowFacts, SettleCancels
      <4>2. PICK parent \in Jobs \cup {NoJob} : parent = Parent[j]
        BY SchedulerAssumption
      <4>3. jobs' = SettleRow(first, parent, Owned)
        BY <1>1, <3>2, <4>1, <4>2 DEF ReconcileCancellation
      <4>4. \A k \in Jobs : jobs'[k] = first[k] \/ jobs'[k].state = "Cancelled"
        BY <4>3, SettleCancels
      <4> QED
        BY <4>1, <4>4
    <3> QED
      BY <3>1, <3>2
  <2> QED
    BY <2>1, Family
<1>2. CASE jobs' = jobs
  BY <1>2
<1> QED
  BY <1>1, <1>2

\* A worker leaves the preparation's row alone, or reconciles it.
LEMMA TaskSpares ==
    ASSUME PreparationAssumption, Types, Ownership, NotScheduled, NEW p \in Permits, TaskStep(p)
    PROVE  Spares
<1>t. jobs \in [Jobs -> Row] /\ queue \in [Jobs -> Seq(0 .. 3)] /\ tasks \in [Permits -> GoodTask]
      /\ running \in [Jobs -> Permits \cup {NoPermit}]
  BY DEF Types, TypeOK, TaskOK
<1>f. KeepsFinal
  BY TaskStepKeepsFinal
<1>p. Prep \in Jobs /\ Prep # NoJob /\ tasks[p].job # Prep
  BY Family DEF NotScheduled
<1>j. tasks[p].pc # "idle" => tasks[p].job \in Jobs
  BY <1>t, TaskFacts
<1>1. CASE Move(p)
  <2>1. MoveShape(p)
    BY <1>1, MoveFacts
  <2> QED
    BY <1>f, <1>p, <2>1 DEF MoveShape, NotScheduled, Spares
<1>2. CASE StartFail(p)
  <2>1. UNCHANGED jobs /\ tasks' = [tasks EXCEPT ![p] = NoTask]
    BY <1>2 DEF StartFail, EndTask
  <2>2. running'[Prep] = running[Prep]
    BY <1>2, <1>p, <1>t DEF StartFail
  <2>3. queue'[Prep] = queue[Prep]
    BY <1>2, <1>p, <1>t DEF StartFail, Push
  <2>4. NoTask.job = NoJob
    BY DEF NoTask, TaskAt
  <2> QED
    BY <1>f, <1>p, <1>t, <2>1, <2>2, <2>3, <2>4 DEF NotScheduled, Spares
<1>3. CASE LeaveRunning(p)
  <2>1. TaskAt("reconcile", tasks[p].job, 0).job = tasks[p].job
    BY DEF TaskAt
  <2> QED
    BY <1>3, <1>f, <1>p, <1>t, <2>1 DEF LeaveRunning, NotScheduled, Spares
<1>4. CASE ReconcileAfter(p)
  <2>1. tasks' = [tasks EXCEPT ![p] = NoTask] /\ UNCHANGED <<queue, running>>
    BY <1>4 DEF ReconcileAfter, EndTask
  <2>2. NoTask.job = NoJob
    BY DEF NoTask, TaskAt
  <2>3. tasks[p].job \in Jobs /\ (ReconcileCancellation(tasks[p].job) \/ jobs' = jobs)
    BY <1>4, <1>j DEF ReconcileAfter
  <2>4. jobs'[Prep].state = "Complete" => jobs[Prep].state = "Complete"
    BY <1>t, <2>3, ReconcileSpares
  <2> QED
    BY <1>f, <1>p, <1>t, <2>1, <2>2, <2>4 DEF NotScheduled, Spares
<1> QED
  BY <1>1, <1>2, <1>3, <1>4 DEF TaskStep, Move

\* So does a cancellation.
LEMMA CancelSpares ==
    ASSUME PreparationAssumption, Types, NotScheduled, NEW j \in Jobs, CancelStep(j)
    PROVE  Spares
<1>t. jobs \in [Jobs -> Row] /\ queue \in [Jobs -> Seq(0 .. 3)] /\ tasks \in [Permits -> GoodTask]
      /\ running \in [Jobs -> Permits \cup {NoPermit}]
  BY DEF Types, TypeOK, TaskOK
<1>f. KeepsFinal
  BY CancelStepKeepsFinal
<1>p. Prep \in Jobs
  BY Family
<1>1. CASE CancelRequest(j)
  <2>1. \/ jobs' = [k \in Jobs |-> IF k \in cancels[j].family
                                   THEN CancelRequested(jobs[k]) ELSE jobs[k]]
        \/ jobs' = jobs
    BY <1>1 DEF CancelRequest
  <2>2. jobs'[Prep].state = jobs[Prep].state
    BY <1>p, <1>t, <2>1, RequestKeepsState
  <2> QED
    BY <1>1, <1>f, <2>2 DEF CancelRequest, NotScheduled, Spares
<1>2. ASSUME NEW k \in Jobs, CancelSignal(j, k) PROVE Spares
  <2>1. UNCHANGED <<running, jobs>>
    BY <1>2 DEF CancelSignal
  <2>2. queue'[Prep] = queue[Prep]
    BY <1>2, <1>p, <1>t DEF CancelSignal, SignalJob, Queued, NotScheduled
  <2>3. \A q \in Permits : tasks'[q].job = tasks[q].job
    <3>1. \/ tasks' = tasks
          \/ running[k] \in Permits /\ tasks' = [tasks EXCEPT ![running[k]] = Signalled(@)]
      BY <1>2, <1>t DEF CancelSignal, SignalJob
    <3> QED
      BY <1>t, <3>1, SignalledFacts
  <2> QED
    BY <1>f, <2>1, <2>2, <2>3 DEF NotScheduled, Spares
<1>3. ASSUME NEW k \in Jobs, CancelReconcile(j, k) PROVE Spares
  <2>1. UNCHANGED <<queue, running, tasks>> /\ (ReconcileCancellation(k) \/ jobs' = jobs)
    BY <1>3 DEF CancelReconcile
  <2>2. jobs'[Prep].state = "Complete" => jobs[Prep].state = "Complete"
    BY <1>t, <2>1, ReconcileSpares
  <2> QED
    BY <1>f, <2>1, <2>2 DEF NotScheduled, Spares
<1>4. CASE CancelReturns(j)
  BY <1>4, <1>f DEF CancelReturns, NotScheduled, Spares
<1> QED
  BY <1>1, <1>2, <1>3, <1>4 DEF CancelStep

\* So does every step of the scheduler and of its users.
LEMMA SchedulerSpares ==
    ASSUME PreparationAssumption, Types, Ownership, NotScheduled, SchedulerStep
    PROVE  Spares
<1>t. jobs \in [Jobs -> Row] /\ queue \in [Jobs -> Seq(0 .. 3)] /\ tasks \in [Permits -> GoodTask]
      /\ running \in [Jobs -> Permits \cup {NoPermit}]
  BY DEF Types, TypeOK, TaskOK
<1>p. Prep \in Jobs /\ Kind[Prep] = "Preparation" /\ Cancellable \subseteq Jobs
  BY Family DEF PreparationAssumption
<1>1. ASSUME NEW j \in Cancellable, CancelBegin(j) PROVE Spares
  BY <1>1 DEF CancelBegin, NotScheduled, KeepsFinal, Spares
<1>2. ASSUME NEW j \in Jobs, CancelStep(j) PROVE Spares
  BY <1>2, CancelSpares
<1>3. ASSUME NEW j \in Jobs, RetryWithWorker(j) PROVE Spares
  <2>1. KeepsFinal
    BY <1>3, ClientStepKeepsFinal DEF ClientStep
  <2>2. j # Prep
    BY <1>3, <1>p DEF RetryWithWorker, Retriable, SourceReauthorized
  <2>3. UNCHANGED <<running, tasks>> /\ queue'[Prep] = queue[Prep] /\ jobs'[Prep] = jobs[Prep]
    BY <1>3, <1>p, <1>t, <2>2 DEF RetryWithWorker, Push
  <2> QED
    BY <2>1, <2>3 DEF NotScheduled, Spares
<1>4. ASSUME NEW j \in Jobs, NEW p \in Permits, Dispatch(j, p) PROVE Spares
  <2>1. j # Prep
    BY <1>4 DEF Dispatch, Queued, NotScheduled
  <2>2. UNCHANGED jobs /\ running'[Prep] = running[Prep] /\ queue'[Prep] = queue[Prep]
    BY <1>4, <1>p, <1>t, <2>1 DEF Dispatch
  <2>3. \A q \in Permits : tasks'[q].job \in {tasks[q].job, j}
    BY <1>4, <1>t DEF Dispatch, TaskAt
  <2> QED
    BY <2>1, <2>2, <2>3 DEF NotScheduled, KeepsFinal, Spares
<1>5. ASSUME NEW p \in Permits, TaskStep(p) PROVE Spares
  BY <1>5, TaskSpares
<1>6. CASE Shutdown
  <2>1. UNCHANGED <<jobs, running>> /\ queue'[Prep] = <<>>
    BY <1>6, <1>p DEF Shutdown
  <2>2. \A q \in Permits : tasks'[q].job = tasks[q].job
    BY <1>6, <1>t DEF Shutdown, GoodTask, Task
  <2> QED
    BY <2>1, <2>2 DEF NotScheduled, KeepsFinal, Spares
<1> QED
  BY <1>1, <1>2, <1>3, <1>4, <1>5, <1>6 DEF SchedulerStep

\* A restart completes nothing.
LEMMA RestartSpares ==
    ASSUME PreparationAssumption, Types, NotScheduled, Restart
    PROVE  Spares
<1>t. jobs \in [Jobs -> Row]
  BY DEF Types, TypeOK
<1>p. Prep \in Jobs /\ Prep # NoJob
  BY Family
<1>1. KeepsFinal
  BY <1>t, RestartKeepsFinal
<1>2. queue'[Prep] = <<>> /\ running'[Prep] = NoPermit /\ \A p \in Permits : tasks'[p] = NoTask
  BY <1>p DEF Restart
<1>3. NoTask.job = NoJob
  BY DEF NoTask, TaskAt
<1>4. jobs'[Prep] = jobs[Prep] \/ jobs'[Prep].state \in {"Queued", "Blocked"}
  <2>1. PICK row \in Row : row = jobs[Prep]
    BY <1>p, <1>t
  <2>2. jobs'[Prep] = row \/ jobs'[Prep] = Recovered(row, Kind[Prep])
    BY <1>p, <2>1 DEF Restart
  <2>3. Recovered(row, Kind[Prep]) = row \/ Recovered(row, Kind[Prep]).state \in {"Queued", "Blocked"}
    BY DEF Recovered, Row
  <2> QED
    BY <2>1, <2>2, <2>3
<1> QED
  BY <1>p, <1>1, <1>2, <1>3, <1>4 DEF NotScheduled, Spares

\* The invariant is inductive, and no step takes a job out of a final state.
LEMMA PInvStep ==
    ASSUME PreparationAssumption, PInv, [PrepNext]_allVars
    PROVE  PInv' /\ KeepsFinal
<1>d. Drives
  BY DEF PInv, Drives
<1>1. CASE \/ \E d \in Calls : BeginPrepare(d)
           \/ ResumePreparation
           \/ \E d \in Drivers : CallStep(d)
  <2>1. PICK d \in Drivers : DriverShape(d)
    BY <1>d, <1>1, DriverFacts DEF Drivers
  <2> QED
    BY <2>1, DriverStep
<1>2. ASSUME Spares, [Next]_vars,
             \/ UNCHANGED <<calls, resume>>
             \/ calls' = [d \in Drivers |-> NoCall] /\ resume' \in BOOLEAN
      PROVE  PInv' /\ KeepsFinal
  <2>1. Types' /\ Ownership'
    BY <1>2, TypeStep, OwnershipStep DEF PInv
  <2>2. \A c \in Children(Prep) : jobs[c].state = "Complete" => jobs'[c].state = "Complete"
    BY <1>2 DEF Spares, KeepsFinal, Final, Children
  <2>3. DriversSound' /\ resume' \in BOOLEAN
    <3>1. CASE UNCHANGED <<calls, resume>>
      <4>1. ASSUME NEW d \in Drivers PROVE SoundCall(calls[d], jobs')
        <5>1. SoundCall(calls[d], jobs)
          BY DEF PInv, DriversSound
        <5> QED
          BY <2>2, <5>1, SoundStays
      <4> QED
        BY <3>1, <4>1 DEF PInv, DriversSound
    <3>2. CASE calls' = [d \in Drivers |-> NoCall] /\ resume' \in BOOLEAN
      <4>1. SoundCall(NoCall, jobs')
        BY NoCallSound
      <4> QED
        BY <3>2, <4>1 DEF DriversSound, SoundCall
    <3> QED
      BY <1>2, <3>1, <3>2
  <2>4. CompletePreparationHasItsMedia'
    <3>1. jobs[Prep].state = "Complete" => HasItsMedia(jobs)
      BY DEF PInv, CompletePreparationHasItsMedia, HasItsMedia
    <3>2. HasItsMedia(jobs) => HasItsMedia(jobs')
      BY <2>2, MediaStay
    <3> QED
      BY <1>2, <3>1, <3>2 DEF Spares, CompletePreparationHasItsMedia, HasItsMedia
  <2> QED
    BY <1>2, <2>1, <2>3, <2>4 DEF PInv, Spares
<1>3. CASE SchedulerStep /\ UNCHANGED <<calls, resume>>
  <2>1. Next
    BY <1>3 DEF SchedulerStep, Next, ClientStep, PreparationAssumption
  <2>2. Spares
    BY <1>3, SchedulerSpares DEF PInv
  <2> QED
    BY <1>2, <1>3, <2>1, <2>2
<1>4. CASE PrepRestart
  <2>1. Restart
    BY <1>4 DEF PrepRestart
  <2>2. Spares
    BY <2>1, RestartSpares DEF PInv
  <2> QED
    BY <1>2, <1>4, <2>1, <2>2 DEF PrepRestart, Next
<1>5. CASE UNCHANGED allVars
  <2>1. UNCHANGED vars /\ UNCHANGED <<calls, resume>>
    BY <1>5 DEF allVars
  <2>2. Spares
    BY <2>1 DEF vars, PInv, NotScheduled, KeepsFinal, Spares
  <2> QED
    BY <1>2, <2>1, <2>2
<1> QED
  BY <1>1, <1>3, <1>4, <1>5 DEF PrepNext

\* The invariant holds of an empty store.
LEMMA InitPInv ==
    ASSUME PreparationAssumption, PrepInit
    PROVE  PInv
<1>p. Prep \in Jobs /\ Prep # NoJob
  BY Family
<1>1. IInv
  BY InitIInv DEF PrepInit
<1>2. NotScheduled
  BY <1>p DEF PrepInit, Init, NoTask, TaskAt, NotScheduled
<1>3. DriversSound
  BY NoCallSound DEF PrepInit, DriversSound, SoundCall
<1>4. CompletePreparationHasItsMedia
  BY <1>p DEF PrepInit, Init, NoRow, CompletePreparationHasItsMedia
<1> QED
  BY <1>1, <1>2, <1>3, <1>4 DEF PInv, IInv, Types, Ownership, PrepInit

\* The inductive invariant of the preparation holds in every reachable state.
THEOREM PreparationInvariance ==
    ASSUME PreparationAssumption
    PROVE  PrepSpec => []PInv
<1>1. PrepInit => PInv
  BY InitPInv
<1>2. PInv /\ [PrepNext]_allVars => PInv'
  BY PInvStep
<1> QED
  BY <1>1, <1>2, PTL DEF PrepSpec

\* PrepTypeOK: every variable of the composition has its type.
THEOREM PreparationTypes ==
    ASSUME PreparationAssumption
    PROVE  PrepSpec => []PrepTypeOK
<1>1. PInv => PrepTypeOK
  BY DEF PInv, Types, DriversSound, PrepTypeOK
<1> QED
  BY <1>1, PreparationInvariance, PTL

\* The scheduler's rules of ownership hold under a preparation's drivers, too: they submit children
\* beside its own callers, and never give a job a second owner or a second entry in the queue.
THEOREM PreparationKeepsOwnership ==
    ASSUME PreparationAssumption
    PROVE  PrepSpec => [](OneOwnerPerJob /\ WorkerOwnsItsRecord /\ QueuedOnce)
<1>1. PInv => OneOwnerPerJob /\ WorkerOwnsItsRecord /\ QueuedOnce
  BY DEF PInv, Ownership
<1> QED
  BY <1>1, PreparationInvariance, PTL

\* CompletePreparationHasItsMedia: a preparation is complete only with both of its media, whichever
\* of its drivers completed it (run_prepare_asset, resume_durable_preparations).
THEOREM CompletePreparationsHaveTheirMedia ==
    ASSUME PreparationAssumption
    PROVE  PrepSpec => []CompletePreparationHasItsMedia
<1>1. PInv => CompletePreparationHasItsMedia
  BY DEF PInv
<1> QED
  BY <1>1, PreparationInvariance, PTL

\* SettledForGood under a preparation: no driver, whose writes do not go through the scheduler, takes
\* a job out of a final state.
THEOREM PreparationSettledForGood ==
    ASSUME PreparationAssumption
    PROVE  PrepSpec => SettledForGood
<1>1. PInv /\ [PrepNext]_allVars => [KeepsFinal]_vars
  BY PInvStep
<1>2. PrepSpec => [][KeepsFinal]_vars
  BY <1>1, PreparationInvariance, PTL DEF PrepSpec
<1>3. [KeepsFinal]_vars =>
          [\A j \in Jobs : jobs[j].state \in {"Cancelled", "Complete"} =>
               jobs'[j].state = jobs[j].state]_vars
  BY DEF KeepsFinal, Final
<1> QED
  BY <1>2, <1>3, PTL DEF SettledForGood

-----------------------------------------------------------------------------
\* Which step comes after which, and which may be the last.
Precedes(a, b) ==
    /\ a = "probe" => b = "plan"
    /\ a = "plan" => b = "payload"
    /\ a = "payload" => b = "run"
    /\ b \in {"unblock", "probe"} => a = "unblock"

Ordered(h, rest) ==
    IF rest = <<>> THEN h \in {"complete", "settleFailed", "settleBlocked"} ELSE Precedes(h, Head(rest))

\* A plan's order is that of its suffixes.
LEMMA SuffixOrdered ==
    ASSUME NEW n \in Nat \ {0}, NEW S, NEW t \in Seq(S), Len(t) = n, t[n] = "complete",
           \A i \in 1 .. n - 1 : Precedes(t[i], t[i + 1]),
           NEW s \in Suffixes(t), s # <<>>
    PROVE  Ordered(Head(s), Tail(s))
<1>1. PICK i \in 1 .. n + 1 : s = SubSeq(t, i, n)
  BY DEF Suffixes
<1>2. i # n + 1
  <2>1. i = n + 1 => s = <<>>
    BY <1>1, SubSeqEmpty
  <2> QED
    BY <2>1
<1>3. i \in 1 .. n
  BY <1>2
<1>4. Head(s) = t[i] /\ Tail(s) = SubSeq(t, i + 1, n)
  <2>1. Len(t) \in i .. Len(t)
    BY <1>3
  <2> QED
    BY <1>1, <1>3, <2>1, HeadTailOfSubSeq
<1>5. CASE i = n
  BY <1>4, <1>5, SubSeqEmpty DEF Ordered
<1>6. CASE i # n
  <2>1. i + 1 \in 1 .. n /\ n \in i + 1 .. n /\ i \in 1 .. n - 1
    BY <1>3, <1>6
  <2>2. Head(Tail(s)) = t[i + 1]
    BY <1>4, <2>1, HeadTailOfSubSeq
  <2>3. Tail(s) # <<>>
    <3>1. Len(Tail(s)) = n - i
      BY <1>4, <2>1
    <3>2. Len(<<>>) = 0 /\ (Tail(s) = <<>> => Len(Tail(s)) = Len(<<>>))
      <4>1. PICK rest : rest = Tail(s)
        OBVIOUS
      <4>2. rest = <<>> => Len(rest) = Len(<<>>)
        BY Zenon
      <4> QED
        BY <4>1, <4>2
    <3>3. n - i # 0
      BY <2>1
    <3> QED
      BY <3>1, <3>2, <3>3
  <2> QED
    BY <1>4, <2>1, <2>2, <2>3 DEF Ordered
<1> QED
  BY <1>5, <1>6

\* The order of every plan.
LEMMA PlanOrdered ==
    ASSUME NEW s \in Plans, s # <<>>
    PROVE  Ordered(Head(s), Tail(s))
<1>1. CASE s \in Suffixes(Prepare)
  <2>1. Prepare[13] = "complete"
    BY DEF Prepare
  <2>2. \A i \in 1 .. 13 - 1 : Precedes(Prepare[i], Prepare[i + 1])
    BY DEF Prepare, Precedes
  <2>3. 13 \in Nat \ {0}
    OBVIOUS
  <2> QED
    BY <1>1, <2>1, <2>2, <2>3, PrepareFacts, SuffixOrdered
<1>2. CASE s \in Suffixes(Resume)
  <2>1. Resume[8] = "complete"
    BY DEF Resume
  <2>2. \A i \in 1 .. 8 - 1 : Precedes(Resume[i], Resume[i + 1])
    BY DEF Resume, Precedes
  <2>3. 8 \in Nat \ {0}
    OBVIOUS
  <2> QED
    BY <1>2, <2>1, <2>2, <2>3, ResumeFacts, SuffixOrdered
<1>3. CASE s \in {<<"settleFailed">>, <<"settleBlocked">>}
  BY <1>3 DEF Ordered
<1> QED
  BY <1>1, <1>2, <1>3 DEF Plans

-----------------------------------------------------------------------------
\* A row that claims to be under way.
UnderWay(row) == row.state \in {"Probing", "Running"}

\* A driver whose next step moves a parent in this state on, or leads there.
Works(steps, state) ==
    /\ steps # <<>>
    /\ IF state = "Probing"
       THEN Head(steps) \in {"plan", "payload", "run", "settleFailed", "settleBlocked"}
       ELSE Head(steps) \notin {"unblock", "probe"}

AttemptFits == jobs[Prep].attempt <= MaxAttempts[Prep]

\* What a driver's step leaves a parent that is under way: the driver has just written
\* its row and works on, or the row is as it was, and the driver still works if it did,
\* unless the parent is flagged.
DriverMinds(d) ==
    /\ faults' = 0 => faults = 0
    /\ AttemptFits'
    /\ (Undisturbed' /\ UnderWay(jobs'[Prep])) =>
           \/ ~jobs'[Prep].cancel /\ Works(calls'[d].steps, jobs'[Prep].state)
           \/ /\ jobs'[Prep].state = jobs[Prep].state
              /\ jobs'[Prep].cancel = jobs[Prep].cancel
              /\ \/ jobs[Prep].cancel
                 \/ ~Works(calls[d].steps, jobs[Prep].state)
                 \/ Works(calls'[d].steps, jobs'[Prep].state)

\* A driver that takes its next step.
LEMMA AdvanceWorks ==
    ASSUME Drives, jobs' \in [Jobs -> Row], NEW d \in Drivers, calls[d].steps # <<>>,
           Head(calls[d].steps) \notin {"complete", "settleFailed", "settleBlocked"}, Advance(d)
    PROVE  calls'[d].steps # <<>> /\ Precedes(Head(calls[d].steps), Head(calls'[d].steps))
<1>1. PICK steps : steps = Tail(calls[d].steps)
  OBVIOUS
<1>2. PreparationAssumption /\ DriversSound /\ calls[d] \in CallRecord /\ calls[d].steps \in Plans
  BY DEF Drives, DriversSound, CallRecord
<1>3. Ordered(Head(calls[d].steps), steps)
  BY <1>1, <1>2, PlanOrdered
<1>4. steps # <<>> /\ Precedes(Head(calls[d].steps), Head(steps))
  BY <1>3 DEF Ordered
<1>5. Goes(d, steps)
  BY <1>1 DEF Advance
<1>6. calls'[d] = [calls[d] EXCEPT !.steps = steps, !.saw = jobs'[Prep].cancel]
  BY <1>2, <1>4, <1>5, GoesFacts
<1>7. calls'[d].steps = steps
  BY <1>2, <1>6 DEF CallRecord
<1> QED
  BY <1>4, <1>7

\* A driver that goes on to record an error.
LEMMA SettlingWorks ==
    ASSUME Drives, jobs' \in [Jobs -> Row], NEW d \in Drivers,
           NEW steps \in {<<"settleFailed">>, <<"settleBlocked">>}, Goes(d, steps)
    PROVE  \A state : Works(calls'[d].steps, state)
<1>1. PreparationAssumption /\ DriversSound /\ calls[d] \in CallRecord
  BY DEF Drives, DriversSound
<1>2. steps # <<>> /\ Head(steps) \in {"settleFailed", "settleBlocked"}
  OBVIOUS
<1>3. calls'[d] = [calls[d] EXCEPT !.steps = steps, !.saw = jobs'[Prep].cancel]
  BY <1>1, <1>2, GoesFacts
<1>4. calls'[d].steps = steps
  BY <1>1, <1>3 DEF CallRecord
<1> QED
  BY <1>2, <1>4 DEF Works

\* A transition of the parent, accepted or refused.
LEMMA WriteMinds ==
    ASSUME Drives, AttemptFits, NEW d \in Drivers, NEW to \in States, NEW attempt \in 0 .. 4,
           WriteParent(d, to, attempt)
    PROVE  /\ faults' = 0 => faults = 0
           /\ AttemptFits'
           /\ jobs' \in [Jobs -> Row]
           /\ \/ jobs'[Prep].state = to /\ ~jobs'[Prep].cancel /\ Advance(d)
              \/ /\ jobs' = jobs
                 /\ \/ ~TransitionAllowed(jobs[Prep], to, attempt, MaxAttempts[Prep])
                    \/ jobs[Prep].cancel
                    \/ ~Undisturbed'
<1>0. /\ PreparationAssumption /\ Types /\ jobs \in [Jobs -> Row] /\ Prep \in Jobs
      /\ MaxAttempts[Prep] \in 1 .. 3
  BY DriveTypes, SchedulerAssumption DEF Drives
<1>1. faults' = 0 => faults = 0
  BY <1>0, FaultsStay DEF WriteParent
<1>2. CASE /\ TransitionAllowed(jobs[Prep], to, attempt, MaxAttempts[Prep])
           /\ jobs' = [jobs EXCEPT ![Prep] = Transitioned(@, to, attempt, FALSE)]
           /\ Advance(d)
  <2>1. attempt <= MaxAttempts[Prep]
    BY <1>2 DEF TransitionAllowed
  <2>2. jobs' \in [Jobs -> Row]
    BY <1>0, <1>2, ParentRow DEF FamilyRows
  <2>3. PICK row \in Row : row = jobs[Prep]
    BY <1>0
  <2>4. jobs'[Prep] = Transitioned(row, to, attempt, FALSE)
    BY <1>0, <1>2, <2>3
  <2>5. jobs'[Prep].state = to /\ jobs'[Prep].cancel = FALSE /\ jobs'[Prep].attempt = attempt
    BY <2>4 DEF Transitioned, Row
  <2> QED
    BY <1>1, <1>2, <2>1, <2>2, <2>5 DEF AttemptFits
<1>3. CASE /\ \/ /\ \/ ~TransitionAllowed(jobs[Prep], to, attempt, MaxAttempts[Prep])
                    \/ RefusedAsStale(jobs[Prep], calls[d].saw)
                 /\ StoreOk
              \/ StoreFails
           /\ UNCHANGED jobs
  BY <1>0, <1>1, <1>3, FailureDisturbs DEF RefusedAsStale, AttemptFits
<1> QED
  BY <1>2, <1>3 DEF WriteParent

\* A transition to a state under way is refused a parent under way only if it is flagged.
LEMMA RefusalIsFlagged ==
    ASSUME NEW row \in Row, NEW to \in {"Running", "Complete", "Failed", "Blocked"}, NEW max,
           row.attempt <= max, row.state = "Running" \/ (row.state = "Probing" /\ to # "Complete")
    PROVE  TransitionAllowed(row, to, row.attempt, max)
BY DEF TransitionAllowed, Missing, Terminal, CanTransitionTo

\* The blocked parent goes back to the queue, or the driver gives up.
LEMMA UnblockMinds ==
    ASSUME Drives, AttemptFits, NEW d \in Drivers, Unblock(d)
    PROVE  DriverMinds(d)
<1>1. calls[d].steps # <<>> /\ Head(calls[d].steps) = "unblock" /\ WriteParent(d, "Queued", jobs[Prep].attempt)
  BY DEF Unblock, At
<1>2. jobs[Prep].attempt \in 0 .. 4 /\ "Queued" \in States
  BY DriveTypes DEF States, Unsettled
<1>3. /\ faults' = 0 => faults = 0
      /\ AttemptFits'
      /\ jobs'[Prep].state = "Queued" \/ jobs' = jobs
  BY <1>1, <1>2, WriteMinds
<1>4. ASSUME UnderWay(jobs'[Prep]) PROVE jobs' = jobs
  BY <1>3, <1>4 DEF UnderWay
<1>5. UnderWay(jobs[Prep]) => ~Works(calls[d].steps, jobs[Prep].state)
  BY <1>1 DEF Works, UnderWay
<1> QED
  BY <1>3, <1>4, <1>5 DEF DriverMinds

\* The parent is probed, or the driver gives up.
LEMMA ProbeMinds ==
    ASSUME Drives, AttemptFits, NEW d \in Drivers, Probe(d)
    PROVE  DriverMinds(d)
<1>1. calls[d].steps # <<>> /\ Head(calls[d].steps) = "probe" /\ WriteParent(d, "Probing", calls[d].attempt)
  BY DEF Probe, At
<1>2. calls[d].attempt \in 0 .. 4 /\ "Probing" \in States
  BY DriveTypes DEF States, Unsettled
<1>3. /\ faults' = 0 => faults = 0
      /\ AttemptFits'
      /\ jobs' \in [Jobs -> Row]
      /\ \/ jobs'[Prep].state = "Probing" /\ ~jobs'[Prep].cancel /\ Advance(d)
         \/ jobs' = jobs
  BY <1>1, <1>2, WriteMinds
<1>4. CASE jobs'[Prep].state = "Probing" /\ ~jobs'[Prep].cancel /\ Advance(d)
  <2>1. calls'[d].steps # <<>> /\ Head(calls'[d].steps) = "plan"
    BY <1>1, <1>3, <1>4, AdvanceWorks DEF Precedes
  <2> QED
    BY <1>3, <1>4, <2>1 DEF DriverMinds, Works
<1>5. CASE jobs' = jobs
  <2>1. UnderWay(jobs[Prep]) => ~Works(calls[d].steps, jobs[Prep].state)
    BY <1>1 DEF Works, UnderWay
  <2> QED
    BY <1>3, <1>5, <2>1 DEF DriverMinds
<1> QED
  BY <1>3, <1>4, <1>5

\* A driver's step that leaves the parent's row.
LEMMA RestMinds ==
    ASSUME Drives, AttemptFits, NEW d \in Drivers, jobs' \in [Jobs -> Row],
           jobs'[Prep].state = jobs[Prep].state, jobs'[Prep].cancel = jobs[Prep].cancel,
           jobs'[Prep].attempt = jobs[Prep].attempt,
           StoreOk \/ StoreFails,
           Undisturbed' =>
               \/ UnderWay(jobs[Prep]) => ~Works(calls[d].steps, jobs[Prep].state)
               \/ Works(calls'[d].steps, jobs[Prep].state)
    PROVE  DriverMinds(d)
<1>1. faults' = 0 => faults = 0
  BY FaultsStay DEF Drives
<1> QED
  BY <1>1 DEF DriverMinds, AttemptFits, UnderWay

\* The plan, or its error, is the driver's next step.
LEMMA PlanMinds ==
    ASSUME Drives, AttemptFits, NEW d \in Drivers, Plan(d)
    PROVE  DriverMinds(d)
<1>1. /\ calls[d].steps # <<>> /\ Head(calls[d].steps) = "plan"
      /\ jobs' = jobs /\ StoreOk
      /\ Advance(d) \/ Goes(d, <<"settleFailed">>) \/ Goes(d, <<"settleBlocked">>)
  BY DEF Plan, At, StoreOk
<1>2. jobs' \in [Jobs -> Row]
  BY <1>1, DriveTypes
<1>3. CASE Advance(d)
  <2>1. calls'[d].steps # <<>> /\ Head(calls'[d].steps) = "payload"
    BY <1>1, <1>2, <1>3, AdvanceWorks DEF Precedes
  <2>2. Works(calls'[d].steps, jobs[Prep].state)
    BY <2>1 DEF Works
  <2> QED
    BY <1>1, <1>2, <2>2, RestMinds
<1>4. CASE Goes(d, <<"settleFailed">>) \/ Goes(d, <<"settleBlocked">>)
  <2>1. Works(calls'[d].steps, jobs[Prep].state)
    BY <1>2, <1>4, SettlingWorks
  <2> QED
    BY <1>1, <1>2, <2>1, RestMinds
<1> QED
  BY <1>1, <1>3, <1>4

\* The stored plan is followed by the transition to running.
LEMMA StorePlanMinds ==
    ASSUME Drives, AttemptFits, NEW d \in Drivers, StorePlan(d)
    PROVE  DriverMinds(d)
<1>1. /\ calls[d].steps # <<>> /\ Head(calls[d].steps) = "payload"
      /\ \/ StoreOk /\ jobs' = [jobs EXCEPT ![Prep].ready = TRUE] /\ Advance(d)
         \/ StoreFails /\ jobs' = jobs
  BY DEF StorePlan, At
<1>t. jobs \in [Jobs -> Row] /\ Prep \in Jobs
  BY DriveTypes
<1>2. /\ jobs' \in [Jobs -> Row]
      /\ jobs'[Prep].state = jobs[Prep].state /\ jobs'[Prep].cancel = jobs[Prep].cancel
      /\ jobs'[Prep].attempt = jobs[Prep].attempt
  BY <1>1, <1>t DEF Row
<1>3. CASE StoreOk /\ Advance(d)
  <2>1. calls'[d].steps # <<>> /\ Head(calls'[d].steps) = "run"
    BY <1>1, <1>2, <1>3, AdvanceWorks DEF Precedes
  <2>2. Works(calls'[d].steps, jobs[Prep].state)
    BY <2>1 DEF Works
  <2> QED
    BY <1>1, <1>2, <2>2, RestMinds
<1>4. CASE StoreFails
  <2>1. ~Undisturbed'
    BY <1>4, FailureDisturbs DEF Drives
  <2> QED
    BY <1>1, <1>2, <2>1, RestMinds
<1> QED
  BY <1>1, <1>3, <1>4

\* The transition to running, and the progress.
LEMMA RunMinds ==
    ASSUME Drives, AttemptFits, NEW d \in Drivers, Run(d)
    PROVE  DriverMinds(d)
<1>1. /\ calls[d].steps # <<>> /\ Head(calls[d].steps) \in {"run", "progress"}
      /\ WriteParent(d, "Running", jobs[Prep].attempt)
  BY DEF Run, At
<1>2. jobs[Prep].attempt \in 0 .. 4 /\ "Running" \in States /\ jobs[Prep] \in Row
  BY DriveTypes DEF States, Unsettled
<1>3. /\ faults' = 0 => faults = 0
      /\ AttemptFits'
      /\ jobs' \in [Jobs -> Row]
      /\ \/ jobs'[Prep].state = "Running" /\ ~jobs'[Prep].cancel /\ Advance(d)
         \/ /\ jobs' = jobs
            /\ \/ ~TransitionAllowed(jobs[Prep], "Running", jobs[Prep].attempt, MaxAttempts[Prep])
               \/ jobs[Prep].cancel
               \/ ~Undisturbed'
  BY <1>1, <1>2, WriteMinds
<1>4. CASE jobs'[Prep].state = "Running" /\ ~jobs'[Prep].cancel /\ Advance(d)
  <2>1. calls'[d].steps # <<>> /\ Head(calls'[d].steps) \notin {"unblock", "probe"}
    BY <1>1, <1>3, <1>4, AdvanceWorks DEF Precedes
  <2> QED
    BY <1>3, <1>4, <2>1 DEF DriverMinds, Works
<1>5. CASE /\ jobs' = jobs
           /\ \/ ~TransitionAllowed(jobs[Prep], "Running", jobs[Prep].attempt, MaxAttempts[Prep])
              \/ jobs[Prep].cancel
              \/ ~Undisturbed'
  <2>1. UnderWay(jobs[Prep]) => TransitionAllowed(jobs[Prep], "Running", jobs[Prep].attempt, MaxAttempts[Prep])
    BY <1>2, RefusalIsFlagged DEF UnderWay, AttemptFits
  <2> QED
    BY <1>3, <1>5, <2>1 DEF DriverMinds
<1> QED
  BY <1>3, <1>4, <1>5

\* The last transition.
LEMMA CompleteMinds ==
    ASSUME Drives, AttemptFits, NEW d \in Drivers, CompleteParent(d)
    PROVE  DriverMinds(d)
<1>1. /\ calls[d].steps # <<>> /\ Head(calls[d].steps) = "complete"
      /\ WriteParent(d, "Complete", jobs[Prep].attempt)
  BY DEF CompleteParent, At
<1>2. jobs[Prep].attempt \in 0 .. 4 /\ "Complete" \in States /\ jobs[Prep] \in Row
  BY DriveTypes DEF States, Terminal
<1>3. /\ faults' = 0 => faults = 0
      /\ AttemptFits'
      /\ \/ jobs'[Prep].state = "Complete"
         \/ /\ jobs' = jobs
            /\ \/ ~TransitionAllowed(jobs[Prep], "Complete", jobs[Prep].attempt, MaxAttempts[Prep])
               \/ jobs[Prep].cancel
               \/ ~Undisturbed'
  BY <1>1, <1>2, WriteMinds
<1>4. CASE jobs'[Prep].state = "Complete"
  BY <1>3, <1>4 DEF DriverMinds, UnderWay
<1>5. CASE /\ jobs' = jobs
           /\ \/ ~TransitionAllowed(jobs[Prep], "Complete", jobs[Prep].attempt, MaxAttempts[Prep])
              \/ jobs[Prep].cancel
              \/ ~Undisturbed'
  <2>1. jobs[Prep].state = "Running" =>
            TransitionAllowed(jobs[Prep], "Complete", jobs[Prep].attempt, MaxAttempts[Prep])
    BY <1>2, RefusalIsFlagged DEF AttemptFits
  <2>2. jobs[Prep].state = "Probing" => ~Works(calls[d].steps, jobs[Prep].state)
    BY <1>1 DEF Works
  <2> QED
    BY <1>3, <1>5, <2>1, <2>2 DEF DriverMinds, UnderWay
<1> QED
  BY <1>3, <1>4, <1>5

\* The write of an error; refused, it leaves a parent that is flagged.
LEMMA SettleErrorMinds ==
    ASSUME Drives, AttemptFits, NEW d \in Drivers, NEW to \in {"Failed", "Blocked"}, SettleError(d, to)
    PROVE  DriverMinds(d)
<1>1. /\ PreparationAssumption /\ Types /\ jobs \in [Jobs -> Row] /\ Prep \in Jobs
      /\ jobs[Prep].attempt \in 0 .. 3
  BY DriveTypes DEF Drives
<1>2. faults' = 0 => faults = 0
  BY <1>1, FaultsStay DEF SettleError
<1>3. CASE jobs' = [jobs EXCEPT ![Prep] = Transitioned(@, to, @.attempt, FALSE)]
  <2>1. PICK row \in Row : row = jobs[Prep]
    BY <1>1
  <2>2. jobs'[Prep] = Transitioned(row, to, row.attempt, FALSE)
    BY <1>1, <1>3, <2>1
  <2>3. jobs'[Prep].state = to /\ jobs'[Prep].attempt = jobs[Prep].attempt
    BY <2>1, <2>2 DEF Transitioned, Row
  <2> QED
    BY <1>2, <2>3 DEF DriverMinds, UnderWay, AttemptFits
<1>4. CASE /\ \/ /\ \/ ~TransitionAllowed(jobs[Prep], to, jobs[Prep].attempt, MaxAttempts[Prep])
                    \/ RefusedAsStale(jobs[Prep], calls[d].saw)
                 /\ StoreOk
              \/ StoreFails
           /\ jobs' = jobs
  <2>1. UnderWay(jobs[Prep]) => TransitionAllowed(jobs[Prep], to, jobs[Prep].attempt, MaxAttempts[Prep])
    BY <1>1, RefusalIsFlagged DEF UnderWay, AttemptFits
  <2>2. StoreFails => ~Undisturbed'
    BY <1>1, FailureDisturbs
  <2> QED
    BY <1>2, <1>4, <2>1, <2>2 DEF DriverMinds, RefusedAsStale, AttemptFits
<1> QED
  BY <1>3, <1>4 DEF SettleError

\* What the steps of a driver between a parent's transitions to running do.
LEMMA AmongChildren ==
    ASSUME Drives, AttemptFits, NEW d \in Drivers, calls[d].steps # <<>>,
           \E r \in Roles : Head(calls[d].steps) \in {Enqueuing(r), Submitting(r), Awaiting(r)}
    PROVE  /\ jobs[Prep].state = "Probing" => ~Works(calls[d].steps, jobs[Prep].state)
           /\ Head(calls[d].steps) \notin {"complete", "settleFailed", "settleBlocked", "unblock", "probe"}
           /\ (calls'[d].steps # <<>> /\ Precedes(Head(calls[d].steps), Head(calls'[d].steps))) =>
                  (jobs[Prep].state = "Running" => Works(calls'[d].steps, jobs[Prep].state))
BY DEF Works, Precedes, Enqueuing, Submitting, Awaiting

\* A child is found or created.
LEMMA EnqueueChildMinds ==
    ASSUME Drives, AttemptFits, NEW d \in Drivers, NEW role \in Roles, EnqueueChild(d, role)
    PROVE  DriverMinds(d)
<1>1. /\ calls[d].steps # <<>> /\ Head(calls[d].steps) = Enqueuing(role)
      /\ StoreOk \/ StoreFails
      /\ DriverShape(d)
  BY EnqueueChildShape DEF EnqueueChild, At
<1>t. /\ PreparationAssumption /\ Types /\ jobs \in [Jobs -> Row] /\ Prep \in Jobs
      /\ calls \in [Drivers -> CallRecord] /\ calls[d] \in CallRecord /\ calls[d].steps \in Plans
  BY DriveTypes DEF Drives, CallRecord
<1>2. jobs' \in [Jobs -> Row] /\ jobs'[Prep] = jobs[Prep]
  <2>1. jobs' \in [Jobs -> Row]
    BY <1>1 DEF DriverShape, FamilyRows
  <2>2. jobs'[Prep] = jobs[Prep]
    <3>1. ASSUME NEW c \in Children(Prep), NEW row, jobs' = [jobs EXCEPT ![c] = row]
          PROVE  jobs'[Prep] = jobs[Prep]
      BY <1>t, <3>1, Family
    <3> QED
      BY <3>1 DEF EnqueueChild
  <2> QED
    BY <2>1, <2>2
<1>3. CASE StoreFails
  <2>1. ~Undisturbed'
    BY <1>t, <1>3, FailureDisturbs
  <2> QED
    BY <1>1, <1>2, <2>1, RestMinds
<1>4. ASSUME NEW new, new.steps = Tail(calls[d].steps), calls' = [calls EXCEPT ![d] = new]
      PROVE  DriverMinds(d)
  <2>1. calls'[d].steps = Tail(calls[d].steps)
    BY <1>t, <1>4
  <2>2. Ordered(Head(calls[d].steps), Tail(calls[d].steps))
    BY <1>1, <1>t, PlanOrdered
  <2>3. /\ jobs[Prep].state = "Probing" => ~Works(calls[d].steps, jobs[Prep].state)
        /\ Head(calls[d].steps) \notin {"complete", "settleFailed", "settleBlocked", "unblock", "probe"}
        /\ (calls'[d].steps # <<>> /\ Precedes(Head(calls[d].steps), Head(calls'[d].steps))) =>
               (jobs[Prep].state = "Running" => Works(calls'[d].steps, jobs[Prep].state))
    BY <1>1, AmongChildren
  <2>4. jobs[Prep].state = "Running" => Works(calls'[d].steps, jobs[Prep].state)
    BY <2>1, <2>2, <2>3 DEF Ordered
  <2> QED
    BY <1>1, <1>2, <2>3, <2>4, RestMinds DEF UnderWay
<1>5. StoreFails \/ \E new : new.steps = Tail(calls[d].steps) /\ calls' = [calls EXCEPT ![d] = new]
  <2> SUFFICES ASSUME ~StoreFails
               PROVE  \E new : new.steps = Tail(calls[d].steps) /\ calls' = [calls EXCEPT ![d] = new]
    OBVIOUS
  <2>1. PICK call : call = calls[d]
    OBVIOUS
  <2>2. PICK c \in Children(Prep) : calls' = [calls EXCEPT ![d] =
                        [steps |-> Tail(@.steps), attempt |-> @.attempt, saw |-> jobs'[Prep].cancel,
                         child |-> [@.child EXCEPT ![role] =
                             [job |-> c, state |-> jobs'[c].state, attempt |-> jobs'[c].attempt]]]]
    BY DEF EnqueueChild
  <2>3. PICK saw, child : calls' = [calls EXCEPT ![d] =
                        [steps |-> Tail(call.steps), attempt |-> call.attempt, saw |-> saw, child |-> child]]
    <3>1. PICK got : got = [job |-> c, state |-> jobs'[c].state, attempt |-> jobs'[c].attempt]
      OBVIOUS
    <3>2. PICK child : child = [call.child EXCEPT ![role] = got]
      OBVIOUS
    <3>3. calls' = [calls EXCEPT ![d] =
              [steps |-> Tail(call.steps), attempt |-> call.attempt, saw |-> jobs'[Prep].cancel,
               child |-> [call.child EXCEPT ![role] = got]]]
      BY <2>1, <2>2, <3>1
    <3>4. calls' = [calls EXCEPT ![d] =
              [steps |-> Tail(call.steps), attempt |-> call.attempt, saw |-> jobs'[Prep].cancel, child |-> child]]
      BY <3>2, <3>3
    <3> QED
      BY <3>4
  <2>4. PICK new : new = [steps |-> Tail(call.steps), attempt |-> call.attempt, saw |-> saw, child |-> child]
    OBVIOUS
  <2> QED
    BY <2>1, <2>3, <2>4
<1> QED
  BY <1>3, <1>4, <1>5

\* A child is given to the scheduler.
LEMMA SubmitChildMinds ==
    ASSUME Drives, AttemptFits, NEW d \in Drivers, NEW role \in Roles, SubmitChild(d, role)
    PROVE  DriverMinds(d)
<1>1. /\ calls[d].steps # <<>> /\ Head(calls[d].steps) = Submitting(role)
      /\ StoreOk /\ jobs' = jobs /\ shutting' = shutting
      /\ Advance(d) \/ shutting
  BY DEF SubmitChild, At, StoreOk
<1>2. jobs' \in [Jobs -> Row]
  BY <1>1, DriveTypes
<1>3. /\ jobs[Prep].state = "Probing" => ~Works(calls[d].steps, jobs[Prep].state)
      /\ Head(calls[d].steps) \notin {"complete", "settleFailed", "settleBlocked", "unblock", "probe"}
      /\ (calls'[d].steps # <<>> /\ Precedes(Head(calls[d].steps), Head(calls'[d].steps))) =>
             (jobs[Prep].state = "Running" => Works(calls'[d].steps, jobs[Prep].state))
  BY <1>1, AmongChildren
<1>4. Advance(d) => (jobs[Prep].state = "Running" => Works(calls'[d].steps, jobs[Prep].state))
  BY <1>1, <1>2, <1>3, AdvanceWorks
<1>5. shutting => ~Undisturbed'
  BY <1>1 DEF Undisturbed
<1> QED
  BY <1>1, <1>2, <1>3, <1>4, <1>5, RestMinds DEF UnderWay

\* A child is waited for.
LEMMA AwaitMinds ==
    ASSUME Drives, AttemptFits, NEW d \in Drivers, NEW role \in Roles, Await(d, role)
    PROVE  DriverMinds(d)
<1>1. /\ calls[d].steps # <<>> /\ Head(calls[d].steps) = Awaiting(role)
      /\ jobs' = jobs
      /\ StoreOk \/ StoreFails
      /\ \/ Advance(d)
         \/ calls' = [calls EXCEPT ![d] =
                [NoCall EXCEPT !.steps = <<"settleFailed">>, !.saw = jobs[Prep].cancel]]
  BY DEF Await, At
<1>2. jobs' \in [Jobs -> Row] /\ calls \in [Drivers -> CallRecord]
  BY <1>1, DriveTypes
<1>3. /\ jobs[Prep].state = "Probing" => ~Works(calls[d].steps, jobs[Prep].state)
      /\ Head(calls[d].steps) \notin {"complete", "settleFailed", "settleBlocked", "unblock", "probe"}
      /\ (calls'[d].steps # <<>> /\ Precedes(Head(calls[d].steps), Head(calls'[d].steps))) =>
             (jobs[Prep].state = "Running" => Works(calls'[d].steps, jobs[Prep].state))
  BY <1>1, AmongChildren
<1>4. Advance(d) => (jobs[Prep].state = "Running" => Works(calls'[d].steps, jobs[Prep].state))
  BY <1>1, <1>2, <1>3, AdvanceWorks
<1>5. CASE calls' = [calls EXCEPT ![d] =
                [NoCall EXCEPT !.steps = <<"settleFailed">>, !.saw = jobs[Prep].cancel]]
  <2>1. calls'[d].steps = <<"settleFailed">>
    BY <1>2, <1>5 DEF NoCall
  <2>2. Works(calls'[d].steps, jobs[Prep].state)
    BY <2>1 DEF Works
  <2> QED
    BY <1>1, <1>2, <2>2, RestMinds
<1> QED
  BY <1>1, <1>2, <1>3, <1>4, <1>5, RestMinds DEF UnderWay

\* A call or the resumption begins with a parent that is not under way.
LEMMA BeginsMind ==
    ASSUME Drives, AttemptFits
    PROVE  /\ \A d \in Calls : BeginPrepare(d) => DriverMinds(d)
           /\ ResumePreparation => DriverMinds(Recovery)
<1>1. ASSUME NEW d \in Calls, BeginPrepare(d) PROVE DriverMinds(d)
  <2>1. jobs \in [Jobs -> Row] /\ Prep \in Jobs /\ MaxAttempts[Prep] \in 1 .. 3
    BY DriveTypes, SchedulerAssumption
  <2>2. jobs' = jobs \/ (jobs'[Prep].state = "Queued" /\ jobs'[Prep].attempt = 0)
    <3>1. PICK row : row = [NoRow EXCEPT !.state = "Queued"]
      OBVIOUS
    <3>2. row.state = "Queued" /\ row.attempt = 0
      BY <3>1 DEF NoRow
    <3>3. jobs' = jobs \/ jobs' = [jobs EXCEPT ![Prep] = row]
      BY <1>1, <3>1 DEF BeginPrepare
    <3> QED
      BY <2>1, <3>2, <3>3
  <2>3. ~UnderWay(jobs'[Prep]) /\ faults' = faults
    BY <1>1, <2>2 DEF BeginPrepare, UnderWay
  <2> QED
    BY <2>1, <2>2, <2>3 DEF DriverMinds, AttemptFits
<1>2. ASSUME ResumePreparation PROVE DriverMinds(Recovery)
  <2>1. jobs' = jobs /\ faults' = faults
    BY <1>2 DEF ResumePreparation, vars
  <2>2. CASE jobs[Prep].state = "Queued"
    BY <2>1, <2>2 DEF DriverMinds, AttemptFits, UnderWay
  <2>3. CASE calls' = calls
    BY <2>1, <2>3 DEF DriverMinds, AttemptFits, UnderWay
  <2> QED
    BY <1>2, <2>2, <2>3 DEF ResumePreparation
<1> QED
  BY <1>1, <1>2

\* Every step of a driver.
LEMMA DriverMind ==
    ASSUME Drives, AttemptFits
    PROVE  /\ \A d \in Drivers : CallStep(d) => DriverMinds(d)
           /\ \A d \in Calls : BeginPrepare(d) => DriverMinds(d)
           /\ ResumePreparation => DriverMinds(Recovery)
<1>1. ASSUME NEW d \in Drivers, CallStep(d) PROVE DriverMinds(d)
  <2>1. CASE Unblock(d) \/ Probe(d) \/ Plan(d) \/ StorePlan(d) \/ Run(d) \/ CompleteParent(d)
    BY <2>1, UnblockMinds, ProbeMinds, PlanMinds, StorePlanMinds, RunMinds, CompleteMinds
  <2>2. ASSUME NEW role \in Roles, EnqueueChild(d, role) \/ SubmitChild(d, role) \/ Await(d, role)
        PROVE  DriverMinds(d)
    BY <2>2, EnqueueChildMinds, SubmitChildMinds, AwaitMinds
  <2>3. ASSUME NEW to \in {"Failed", "Blocked"}, SettleError(d, to)
        PROVE  DriverMinds(d)
    BY <2>3, SettleErrorMinds
  <2> QED
    BY <1>1, <2>1, <2>2, <2>3 DEF CallStep
<1> QED
  BY <1>1, BeginsMind

-----------------------------------------------------------------------------
\* A cancellation call that has still to reconcile its family.
Pursued == \E k \in Jobs : cancels[k].pc \in {"signal", "reconcile"}

\* A child that is not settled, or that its scheduler has still to leave or to reconcile.
Busy(c) ==
    \/ jobs[c].state \in Unsettled
    \/ c \in Owned
    \/ \E p \in Permits : tasks[p].pc = "reconcile" /\ tasks[p].job = c

\* While nothing disturbs it, a preparation under way that is flagged is going to be
\* reconciled, at the latest by its last child ...
FlaggedIsPursued ==
    (Undisturbed /\ UnderWay(jobs[Prep]) /\ jobs[Prep].cancel) =>
        Pursued \/ \E c \in Children(Prep) : Busy(c)

\* ... and one that is not flagged has a driver that works.
UnflaggedIsWorked ==
    (Undisturbed /\ UnderWay(jobs[Prep])) =>
        jobs[Prep].cancel \/ \E d \in Drivers : Works(calls[d].steps, jobs[Prep].state)

\* A cancellation call cancels the job it is for.
CallsOwn == \A k \in Jobs : cancels[k].pc # "idle" => k \in cancels[k].family

\* As long as the store has never failed, a start that is refused is one of queued work.
StartsAreQueued ==
    faults = 0 => \A p \in Permits :
        tasks[p].pc \in {"write", "startfail"} => jobs[tasks[p].job].state = "Queued"

\* The second inductive invariant, which rests on the first.
DInv == AttemptFits /\ CallsOwn /\ StartsAreQueued /\ FlaggedIsPursued /\ UnflaggedIsWorked

\* A driver's step keeps it.
LEMMA DriverKeeps ==
    ASSUME PreparationAssumption, PInv, DInv, NEW d \in Drivers, DriverShape(d), DriverMinds(d)
    PROVE  DInv'
<1>t. /\ jobs \in [Jobs -> Row] /\ tasks \in [Permits -> GoodTask] /\ queue \in [Jobs -> Seq(0 .. 3)]
      /\ Prep \in Jobs /\ Prep \notin Children(Prep)
  BY Family DEF PInv, Types, TypeOK, TaskOK
<1>s. /\ running' = running /\ tasks' = tasks /\ cancels' = cancels /\ shutting' = shutting
      /\ FamilyRows
      /\ \A e \in Drivers : e # d => calls'[e] = calls[e]
      /\ queue' = queue \/ \E c \in Children(Prep), a \in 0 .. 3 : c \notin Owned /\ Push(c, a)
  BY DEF DriverShape, OnlyMoves
<1>u. Undisturbed' => Undisturbed
  BY <1>s DEF DriverMinds, Undisturbed
<1>1. AttemptFits' /\ CallsOwn'
  BY <1>s DEF DriverMinds, DInv, CallsOwn
<1>2. StartsAreQueued'
  <2> SUFFICES ASSUME faults' = 0, NEW p \in Permits, tasks[p].pc \in {"write", "startfail"}
               PROVE  jobs'[tasks[p].job].state = "Queued"
    BY <1>s DEF StartsAreQueued
  <2>1. jobs[tasks[p].job].state = "Queued"
    BY DEF DriverMinds, DInv, StartsAreQueued
  <2>2. tasks[p].job \in Jobs /\ tasks[p].job # Prep
    BY <1>t, TaskFacts DEF PInv, NotScheduled
  <2> QED
    BY <1>s, <2>1, <2>2 DEF FamilyRows
<1>3. ASSUME NEW c \in Children(Prep), Busy(c) PROVE Busy(c)'
  <2>1. c \in Jobs /\ c # Prep
    BY <1>t DEF Children
  <2>2. jobs[c].state \in Unsettled => jobs'[c].state \in Unsettled
    BY <1>s, <2>1 DEF FamilyRows, Unsettled
  <2>3. Queued(c) => Queued(c)'
    <3>1. ASSUME NEW e \in Children(Prep), NEW a \in 0 .. 3, e \notin Owned, Push(e, a), Queued(c)
          PROVE  queue'[c] = queue[c]
      <4>1. e \in Jobs /\ e # c
        BY <2>1, <3>1 DEF Children, Owned
      <4> QED
        BY <1>t, <2>1, <3>1, <4>1, PushFacts
    <3> QED
      BY <1>s, <3>1 DEF Queued
  <2> QED
    BY <1>3, <1>s, <2>1, <2>2, <2>3 DEF Busy, Owned
<1>4. FlaggedIsPursued'
  <2> SUFFICES ASSUME Undisturbed', UnderWay(jobs'[Prep]), jobs'[Prep].cancel
               PROVE  Pursued' \/ \E c \in Children(Prep) : Busy(c)'
    BY DEF FlaggedIsPursued, Undisturbed, UnderWay
  <2>1. jobs'[Prep].state = jobs[Prep].state /\ jobs[Prep].cancel
    BY DEF DriverMinds
  <2>2. Pursued \/ \E c \in Children(Prep) : Busy(c)
    BY <1>u, <2>1 DEF DInv, FlaggedIsPursued, UnderWay
  <2> QED
    BY <1>3, <1>s, <2>2 DEF Pursued
<1>5. UnflaggedIsWorked'
  <2> SUFFICES ASSUME Undisturbed', UnderWay(jobs'[Prep]), ~jobs'[Prep].cancel
               PROVE  \E e \in Drivers : Works(calls'[e].steps, jobs'[Prep].state)
    BY DEF UnflaggedIsWorked
  <2>1. CASE Works(calls'[d].steps, jobs'[Prep].state)
    BY <2>1
  <2>2. CASE ~Works(calls'[d].steps, jobs'[Prep].state)
    <3>1. /\ jobs'[Prep].state = jobs[Prep].state /\ ~jobs[Prep].cancel
          /\ ~Works(calls[d].steps, jobs[Prep].state)
      BY <2>2 DEF DriverMinds
    <3>2. PICK e \in Drivers : Works(calls[e].steps, jobs[Prep].state)
      BY <1>u, <3>1 DEF DInv, UnflaggedIsWorked, UnderWay
    <3>3. e # d
      BY <3>1, <3>2
    <3> QED
      BY <1>s, <3>1, <3>2, <3>3
  <2> QED
    BY <2>1, <2>2
<1> QED
  BY <1>1, <1>2, <1>4, <1>5 DEF DInv

\* What a step that is no driver's leaves.
Minds ==
    /\ AttemptFits' /\ CallsOwn' /\ StartsAreQueued'
    /\ (Undisturbed' /\ UnderWay(jobs'[Prep])) =>
           /\ Undisturbed
           /\ jobs'[Prep].state = jobs[Prep].state
           /\ jobs[Prep].cancel => jobs'[Prep].cancel
           /\ jobs'[Prep].cancel => Pursued' \/ \E c \in Children(Prep) : Busy(c)'

\* A step that is no driver's keeps the second invariant, too.
LEMMA MindsKeep ==
    ASSUME DInv, Minds, \/ calls' = calls
                        \/ ~UnderWay(jobs'[Prep])
    PROVE  DInv'
<1>1. FlaggedIsPursued'
  BY DEF Minds, FlaggedIsPursued, Undisturbed, UnderWay
<1>2. UnflaggedIsWorked'
  <2> SUFFICES ASSUME Undisturbed', UnderWay(jobs'[Prep]), ~jobs'[Prep].cancel
               PROVE  \E e \in Drivers : Works(calls'[e].steps, jobs'[Prep].state)
    BY DEF UnflaggedIsWorked
  <2>1. Undisturbed /\ jobs'[Prep].state = jobs[Prep].state /\ ~jobs[Prep].cancel /\ calls' = calls
    BY DEF Minds
  <2> QED
    BY <2>1 DEF DInv, UnflaggedIsWorked, UnderWay
<1> QED
  BY <1>1, <1>2 DEF DInv, Minds

\* A step that leaves the parent's row, and the calls and the children busy that are.
LEMMA QuietMinds ==
    ASSUME DInv, jobs'[Prep] = jobs[Prep], CallsOwn', StartsAreQueued',
           Undisturbed' => Undisturbed,
           Undisturbed' => Pursued' \/ (/\ Pursued => Pursued'
                                        /\ \A c \in Children(Prep) : Busy(c) => Busy(c)')
    PROVE  Minds
BY DEF DInv, Minds, AttemptFits, FlaggedIsPursued

-----------------------------------------------------------------------------
\* The rows of a reconciliation.
LEMMA SettledRows ==
    ASSUME NEW rows \in [Jobs -> Row], NEW j \in Jobs \cup {NoJob}, NEW owned
    PROVE  \A k \in Jobs : \/ SettleRow(rows, j, owned)[k] = rows[k]
                           \/ /\ k \notin owned
                              /\ SettleRow(rows, j, owned)[k].state = "Cancelled"
                              /\ SettleRow(rows, j, owned)[k].attempt = rows[k].attempt
<1>1. CASE j # NoJob /\ Reconcilable(rows, j, Children(j), owned)
  <2>1. SettleRow(rows, j, owned) = [rows EXCEPT ![j] = Reconciled(rows[j])]
    BY <1>1 DEF SettleRow
  <2>2. j \in Jobs /\ j \notin owned
    BY <1>1 DEF Reconcilable
  <2>3. Reconciled(rows[j]).state = "Cancelled" /\ Reconciled(rows[j]).attempt = rows[j].attempt
    BY <2>2 DEF Reconciled, Row
  <2> QED
    BY <2>1, <2>2, <2>3
<1>2. CASE ~(j # NoJob /\ Reconcilable(rows, j, Children(j), owned))
  BY <1>2 DEF SettleRow
<1> QED
  BY <1>1, <1>2

\* A flagged parent that a reconciliation does not settle waits for a child.
LEMMA ReconcileHolds ==
    ASSUME PreparationAssumption, Types, NotScheduled, NEW j \in Jobs, ReconcileCancellation(j),
           UNCHANGED <<queue, running>>
    PROVE  /\ \A k \in Jobs : \/ jobs'[k] = jobs[k]
                              \/ /\ k \notin Owned
                                 /\ jobs'[k].state = "Cancelled"
                                 /\ jobs'[k].attempt = jobs[k].attempt
           /\ (UnderWay(jobs'[Prep]) /\ jobs'[Prep].cancel) => \E c \in Children(Prep) : Busy(c)'
<1>t. /\ jobs \in [Jobs -> Row] /\ Prep \in Jobs /\ Prep # NoJob /\ Parent[Prep] = NoJob
      /\ Prep \notin Children(Prep)
      /\ \A k \in Jobs : k # Prep => k \in Children(Prep) /\ Parent[k] = Prep
  BY Family DEF Types, TypeOK, PreparationAssumption
<1>o. Prep \notin Owned
  BY DEF NotScheduled, Owned, Queued
<1>w. Owned' = Owned
  BY DEF Owned, Queued
<1>1. CASE j \in Owned
  <2>1. j \in Children(Prep) /\ jobs' = jobs
    BY <1>1, <1>o, <1>t DEF ReconcileCancellation
  <2> QED
    BY <1>1, <1>w, <2>1 DEF Busy
<1>2. CASE j \notin Owned
  <2>1. PICK first \in [Jobs -> Row] :
            /\ first = SettleRow(jobs, j, Owned)
            /\ \A k \in Jobs : \/ first[k] = jobs[k]
                               \/ /\ k \notin Owned
                                  /\ first[k].state = "Cancelled"
                                  /\ first[k].attempt = jobs[k].attempt
    BY <1>t, SettleRowFacts, SettledRows
  <2>2. PICK parent \in Jobs \cup {NoJob} : parent = Parent[j]
    BY SchedulerAssumption
  <2>3. jobs' = SettleRow(first, parent, Owned)
    BY <1>2, <2>1, <2>2 DEF ReconcileCancellation
  <2>4. \A k \in Jobs : \/ jobs'[k] = first[k]
                        \/ /\ k \notin Owned
                           /\ jobs'[k].state = "Cancelled"
                           /\ jobs'[k].attempt = first[k].attempt
    BY <2>3, SettledRows
  <2>5. ASSUME UnderWay(jobs'[Prep]), jobs'[Prep].cancel
        PROVE  \E c \in Children(Prep) : Busy(c)'
    <3>1. \E rows \in [Jobs -> Row] : jobs' = SettleRow(rows, Prep, Owned)
      <4>1. CASE j = Prep
        <5>1. jobs' = first
          BY <1>t, <2>2, <2>3, <4>1 DEF SettleRow
        <5> QED
          BY <1>t, <2>1, <4>1, <5>1
      <4>2. CASE j # Prep
        BY <1>t, <2>1, <2>2, <2>3, <4>2
      <4> QED
        BY <4>1, <4>2
    <3>2. PICK rows \in [Jobs -> Row] : jobs' = SettleRow(rows, Prep, Owned)
      BY <3>1
    <3>3. CASE Reconcilable(rows, Prep, Children(Prep), Owned)
      <4>1. jobs' = [rows EXCEPT ![Prep] = Reconciled(rows[Prep])]
        BY <1>t, <3>2, <3>3 DEF SettleRow
      <4>2. jobs'[Prep].state = "Cancelled"
        BY <1>t, <4>1 DEF Reconciled, Row
      <4> QED
        BY <2>5, <4>2 DEF UnderWay
    <3>4. CASE ~Reconcilable(rows, Prep, Children(Prep), Owned)
      <4>1. jobs' = rows
        BY <3>2, <3>4 DEF SettleRow
      <4>2. rows[Prep].state \in Unsettled /\ rows[Prep].cancel
        BY <2>5, <4>1 DEF UnderWay, Unsettled
      <4>3. PICK c \in Children(Prep) : rows[c].state \in Unsettled \/ c \in Owned
        BY <1>o, <3>4, <4>2 DEF Reconcilable
      <4> QED
        BY <1>w, <4>1, <4>3 DEF Busy
    <3> QED
      BY <3>3, <3>4
  <2>6. \A k \in Jobs : \/ jobs'[k] = jobs[k]
                        \/ /\ k \notin Owned
                           /\ jobs'[k].state = "Cancelled"
                           /\ jobs'[k].attempt = jobs[k].attempt
    BY <2>1, <2>4
  <2> QED
    BY <2>5, <2>6
<1> QED
  BY <1>1, <1>2

\* The types the steps below need.
LEMMA MindTypes ==
    ASSUME PreparationAssumption, PInv
    PROVE  /\ Types /\ Ownership /\ NotScheduled
           /\ jobs \in [Jobs -> Row] /\ tasks \in [Permits -> GoodTask] /\ queue \in [Jobs -> Seq(0 .. 3)]
           /\ cancels \in [Jobs -> Cancel] /\ running \in [Jobs -> Permits \cup {NoPermit}]
           /\ Prep \in Jobs /\ Prep \notin Children(Prep) /\ Prep \notin Owned
           /\ \A p \in Permits : /\ tasks[p].job # Prep
                                 /\ tasks[p].pc \in Owning => tasks[p].job \in Children(Prep)
           /\ \A c \in Children(Prep) : c \in Jobs /\ c # Prep
<1>1. /\ jobs \in [Jobs -> Row] /\ tasks \in [Permits -> GoodTask] /\ queue \in [Jobs -> Seq(0 .. 3)]
      /\ cancels \in [Jobs -> Cancel] /\ running \in [Jobs -> Permits \cup {NoPermit}]
      /\ Types /\ Ownership /\ NotScheduled
  BY DEF PInv, Types, TypeOK, TaskOK
<1>2. Prep \in Jobs /\ Prep \notin Children(Prep) /\ \A k \in Jobs : k # Prep => k \in Children(Prep)
  BY Family
<1>3. Prep \notin Owned
  BY <1>1 DEF NotScheduled, Owned, Queued
<1>4. \A p \in Permits : /\ tasks[p].job # Prep
                         /\ tasks[p].pc \in Owning => tasks[p].job \in Children(Prep)
  BY <1>1, <1>2 DEF NotScheduled, Ownership, OneOwnerPerJob
<1> QED
  BY <1>1, <1>2, <1>3, <1>4 DEF Children

\* A start that moves on or is refused finds its work queued.
LEMMA MoveStarts ==
    ASSUME PreparationAssumption, PInv, DInv, NEW p \in Permits, Move(p), faults' = 0,
           tasks'[p].pc \in {"write", "startfail"}
    PROVE  jobs'[tasks[p].job].state = "Queued"
<1>t. Types /\ tasks \in [Permits -> GoodTask] /\ tasks[p] \in GoodTask /\ TaskOK
  BY MindTypes DEF TaskOK
<1>f. ~StoreFails
  <2>1. StoreFails => ~Undisturbed'
    BY <1>t, FailureDisturbs
  <2>2. StoreFails => faults' # 0
    BY <1>t, SchedulerAssumption DEF StoreFails, Types, TypeOK
  <2> QED
    BY <2>2
<1>0. faults = 0
  BY <1>t, MoveFrame DEF SameWorld
<1>g. ASSUME NEW pc, Goto(p, pc)
      PROVE  tasks'[p].pc = pc
  <2>1. tasks'[p] = Moved(tasks[p], pc)
    BY <1>t, <1>g DEF Goto
  <2>2. Moved(tasks[p], pc).pc = pc
    BY <1>t DEF Moved, GoodTask, Task
  <2> QED
    BY <2>1, <2>2
<1>1. CASE StartRead(p)
  BY <1>1, <1>f, <1>g DEF StartRead
<1>2. CASE StartWrite(p)
  <2>1. CASE Goto(p, "work")
    BY <1>g, <2>1
  <2>2. CASE UNCHANGED jobs
    <3>1. tasks[p].pc = "write"
      BY <1>2 DEF StartWrite
    <3>2. jobs[tasks[p].job].state = "Queued"
      BY <1>0, <3>1 DEF DInv, StartsAreQueued
    <3> QED
      BY <2>2, <3>2
  <2> QED
    BY <1>2, <2>1, <2>2 DEF StartWrite
<1>3. ASSUME NEW outcome \in Outcomes, WorkerReturns(p, outcome)
      PROVE  FALSE
  <2>1. CASE \E pc \in {"cleanup", "remove"} : Goto(p, pc)
    BY <1>g, <2>1
  <2>2. CASE tasks' = [tasks EXCEPT ![p] = [tasks[p] EXCEPT !.pc = "settle", !.outcome = outcome,
                                                  !.saw = jobs[tasks[p].job].cancel]]
    BY <1>t, <2>2 DEF GoodTask, Task
  <2> QED
    BY <1>3, <2>1, <2>2 DEF WorkerReturns
<1>4. CASE Cleanup(p) \/ Settle(p) \/ BackoffEnds(p) \/ RetryCancel(p) \/ Requeue(p)
  <2>1. \E pc \in {"remove", "backoff", "requeue", "retrycancel"} : Goto(p, pc)
    BY <1>4 DEF Cleanup, Settle, BackoffEnds, RetryCancel, Requeue, AfterRetryCancel
  <2> QED
    BY <1>g, <2>1
<1> QED
  BY <1>1, <1>2, <1>3, <1>4 DEF Move

\* A task that moves on keeps its child busy.
LEMMA MoveMinds ==
    ASSUME PreparationAssumption, PInv, DInv, NEW p \in Permits, Move(p)
    PROVE  Minds
<1>t. /\ Types /\ Ownership /\ tasks[p].job # Prep /\ Prep \in Jobs
      /\ \A c \in Children(Prep) : c \in Jobs /\ c # Prep
      /\ NoPermit \notin Permits
  BY MindTypes, SchedulerAssumption
<1>1. MoveShape(p) /\ UNCHANGED <<running, cancels, shutting>> /\ SameWorld
  BY <1>t, MoveFacts, MoveFrame
<1>2. jobs'[Prep] = jobs[Prep] /\ CallsOwn' /\ (Undisturbed' => Undisturbed) /\ (Pursued => Pursued')
  BY <1>t, <1>1 DEF MoveShape, DInv, CallsOwn, SameWorld, Undisturbed, Pursued
<1>3. StartsAreQueued'
  <2> SUFFICES ASSUME faults' = 0, NEW q \in Permits, tasks'[q].pc \in {"write", "startfail"}
               PROVE  jobs'[tasks'[q].job].state = "Queued"
    BY DEF StartsAreQueued
  <2>1. CASE q = p
    BY <1>1, <2>1, MoveStarts DEF MoveShape
  <2>2. CASE q # p
    <3>1. tasks'[q] = tasks[q] /\ tasks[p].pc \in Owning /\ tasks[q].pc \in Owning
      BY <1>1, <2>2 DEF MoveShape, Owning, Starting
    <3>2. tasks[q].job # tasks[p].job /\ tasks[q].job \in Jobs
      BY <1>t, <2>2, <3>1, OwnersDiffer DEF Ownership, OneOwnerPerJob
    <3>3. jobs[tasks[q].job].state = "Queued"
      BY <1>1, <3>1 DEF SameWorld, DInv, StartsAreQueued
    <3> QED
      BY <1>1, <3>1, <3>2, <3>3 DEF MoveShape
  <2> QED
    BY <2>1, <2>2
<1>4. ASSUME NEW c \in Children(Prep), Busy(c) PROVE Busy(c)'
  <2>1. CASE c = tasks[p].job
    <3>1. running'[c] = p
      BY <1>1, <1>t, <2>1 DEF MoveShape, Ownership, OneOwnerPerJob
    <3> QED
      BY <1>t, <3>1 DEF Busy, Owned
  <2>2. CASE c # tasks[p].job
    <3>1. jobs'[c] = jobs[c] /\ queue'[c] = queue[c] /\ running' = running
      BY <1>1, <1>t, <2>2 DEF MoveShape
    <3>2. \A q \in Permits : (tasks[q].pc = "reconcile" /\ tasks[q].job = c) => tasks'[q] = tasks[q]
      BY <1>1, <2>2 DEF MoveShape
    <3> QED
      BY <1>4, <1>t, <3>1, <3>2 DEF Busy, Owned, Queued
  <2> QED
    BY <2>1, <2>2
<1> QED
  BY <1>2, <1>3, <1>4, QuietMinds

\* A failed start and a task that leaves leave the child queued or to be reconciled.
LEMMA StartFailMinds ==
    ASSUME PreparationAssumption, PInv, DInv, NEW p \in Permits, StartFail(p)
    PROVE  Minds
<1>t. /\ Types /\ Ownership /\ Prep \in Jobs /\ tasks \in [Permits -> GoodTask]
      /\ queue \in [Jobs -> Seq(0 .. 3)] /\ running \in [Jobs -> Permits \cup {NoPermit}]
      /\ \A c \in Children(Prep) : c \in Jobs /\ c # Prep
  BY MindTypes
<1>1. /\ jobs' = jobs /\ cancels' = cancels /\ shutting' = shutting /\ faults' = faults
      /\ tasks[p].pc = "startfail"
      /\ tasks' = [tasks EXCEPT ![p] = NoTask]
      /\ running' = [running EXCEPT ![tasks[p].job] = NoPermit]
  BY DEF StartFail, EndTask
<1>2. NoTask.pc = "idle"
  BY DEF NoTask, TaskAt
<1>3. tasks'[p].pc = "idle" /\ \A q \in Permits : q # p => tasks'[q] = tasks[q]
  BY <1>1, <1>2, <1>t
<1>4. StartsAreQueued'
  BY <1>1, <1>3 DEF DInv, StartsAreQueued
<1>5. ASSUME Undisturbed', NEW c \in Children(Prep), Busy(c) PROVE Busy(c)'
  <2>1. CASE c = tasks[p].job
    <3>1. jobs'[c].state = "Queued"
      BY <1>1, <1>5, <2>1 DEF DInv, StartsAreQueued, Undisturbed
    <3> QED
      BY <3>1 DEF Busy, Unsettled
  <2>2. CASE c # tasks[p].job
    <3>1. queue'[c] = queue[c]
      BY <1>t, <2>2 DEF StartFail, Push
    <3>2. running'[c] = running[c]
      BY <1>1, <1>t, <2>2
    <3>3. \A q \in Permits : (tasks[q].pc = "reconcile" /\ tasks[q].job = c) => tasks'[q] = tasks[q]
      BY <1>3, <2>2
    <3> QED
      BY <1>1, <1>5, <1>t, <3>1, <3>2, <3>3 DEF Busy, Owned, Queued
  <2> QED
    BY <2>1, <2>2
<1>6. CallsOwn' /\ (Undisturbed' => Undisturbed) /\ (Pursued => Pursued') /\ jobs'[Prep] = jobs[Prep]
  BY <1>1 DEF DInv, CallsOwn, Undisturbed, Pursued
<1> QED
  BY <1>4, <1>5, <1>6, QuietMinds

\* A task that leaves the running map is about to reconcile its child.
LEMMA LeaveRunningMinds ==
    ASSUME PreparationAssumption, PInv, DInv, NEW p \in Permits, LeaveRunning(p)
    PROVE  Minds
<1>t. /\ Types /\ Ownership /\ Prep \in Jobs /\ tasks \in [Permits -> GoodTask]
      /\ running \in [Jobs -> Permits \cup {NoPermit}]
      /\ \A c \in Children(Prep) : c \in Jobs /\ c # Prep
  BY MindTypes
<1>1. /\ jobs' = jobs /\ cancels' = cancels /\ shutting' = shutting /\ faults' = faults /\ queue' = queue
      /\ tasks[p].pc = "remove"
      /\ tasks' = [tasks EXCEPT ![p] = TaskAt("reconcile", tasks[p].job, 0)]
      /\ running' = [running EXCEPT ![tasks[p].job] = NoPermit]
  BY DEF LeaveRunning
<1>2. TaskAt("reconcile", tasks[p].job, 0).pc = "reconcile" /\ TaskAt("reconcile", tasks[p].job, 0).job = tasks[p].job
  BY DEF TaskAt
<1>3. /\ tasks'[p].pc = "reconcile" /\ tasks'[p].job = tasks[p].job
      /\ \A q \in Permits : q # p => tasks'[q] = tasks[q]
  BY <1>1, <1>2, <1>t
<1>4. StartsAreQueued'
  BY <1>1, <1>3 DEF DInv, StartsAreQueued
<1>5. ASSUME NEW c \in Children(Prep), Busy(c) PROVE Busy(c)'
  <2>1. CASE c = tasks[p].job
    BY <1>3, <2>1 DEF Busy
  <2>2. CASE c # tasks[p].job
    <3>1. queue'[c] = queue[c] /\ running'[c] = running[c]
      BY <1>1, <1>t, <2>2
    <3>2. \A q \in Permits : (tasks[q].pc = "reconcile" /\ tasks[q].job = c) => tasks'[q] = tasks[q]
      BY <1>3, <2>2
    <3> QED
      BY <1>1, <1>5, <1>t, <3>1, <3>2 DEF Busy, Owned, Queued
  <2> QED
    BY <2>1, <2>2
<1>6. CallsOwn' /\ (Undisturbed' => Undisturbed) /\ (Pursued => Pursued') /\ jobs'[Prep] = jobs[Prep]
  BY <1>1 DEF DInv, CallsOwn, Undisturbed, Pursued
<1> QED
  BY <1>4, <1>5, <1>6, QuietMinds

\* A step that reconciles, of a task or of a cancellation call.
LEMMA ReconcilingMinds ==
    ASSUME PreparationAssumption, PInv, DInv, NEW j \in Jobs,
           \/ StoreOk /\ ReconcileCancellation(j)
           \/ StoreFails /\ jobs' = jobs,
           UNCHANGED <<queue, running, shutting>>, CallsOwn',
           \A q \in Permits : tasks'[q] = tasks[q] \/ tasks'[q].pc = "idle"
    PROVE  Minds
<1>t. /\ Types /\ Ownership /\ NotScheduled /\ Prep \in Jobs /\ jobs \in [Jobs -> Row] /\ Prep \notin Owned
  BY MindTypes
<1>1. faults' = 0 => faults = 0
  BY <1>t, FaultsStay
<1>2. /\ \A k \in Jobs : \/ jobs'[k] = jobs[k]
                         \/ /\ k \notin Owned
                            /\ jobs'[k].state = "Cancelled"
                            /\ jobs'[k].attempt = jobs[k].attempt
      /\ (Undisturbed' /\ UnderWay(jobs'[Prep]) /\ jobs'[Prep].cancel) => \E c \in Children(Prep) : Busy(c)'
  <2>1. CASE StoreOk /\ ReconcileCancellation(j)
    BY <1>t, <2>1, ReconcileHolds
  <2>2. CASE StoreFails /\ jobs' = jobs
    BY <1>t, <2>2, FailureDisturbs
  <2> QED
    BY <2>1, <2>2
<1>3. StartsAreQueued'
  <2> SUFFICES ASSUME faults' = 0, NEW q \in Permits, tasks'[q].pc \in {"write", "startfail"}
               PROVE  jobs'[tasks'[q].job].state = "Queued"
    BY DEF StartsAreQueued
  <2>1. tasks'[q] = tasks[q] /\ tasks[q].pc \in Owning
    BY DEF Owning, Starting
  <2>2. tasks[q].job \in Jobs /\ tasks[q].job \in Owned
    BY <1>t, <2>1, SchedulerAssumption DEF Ownership, OneOwnerPerJob, Owned
  <2>3. jobs[tasks[q].job].state = "Queued"
    BY <1>1, <2>1 DEF DInv, StartsAreQueued
  <2> QED
    BY <1>2, <2>1, <2>2, <2>3
<1>4. AttemptFits'
  BY <1>2, <1>t DEF DInv, AttemptFits
<1>5. UnderWay(jobs'[Prep]) => jobs'[Prep] = jobs[Prep]
  BY <1>2, <1>t DEF UnderWay
<1>6. Undisturbed' => Undisturbed
  BY <1>1 DEF Undisturbed
<1> QED
  BY <1>2, <1>3, <1>4, <1>5, <1>6 DEF Minds

\* Every step of a task.
LEMMA TaskMinds ==
    ASSUME PreparationAssumption, PInv, DInv, NEW p \in Permits, TaskStep(p)
    PROVE  Minds
<1>1. CASE ReconcileAfter(p)
  <2>1. tasks \in [Permits -> GoodTask]
    BY MindTypes
  <2>2. tasks[p].job \in Jobs
    BY <1>1, <2>1, TaskFacts DEF ReconcileAfter
  <2>3. NoTask.pc = "idle"
    BY DEF NoTask, TaskAt
  <2>4. \A q \in Permits : tasks'[q] = tasks[q] \/ tasks'[q].pc = "idle"
    BY <1>1, <2>1, <2>3 DEF ReconcileAfter, EndTask
  <2>5. CallsOwn' /\ UNCHANGED <<queue, running, shutting>>
    BY <1>1 DEF ReconcileAfter, DInv, CallsOwn
  <2>6. PICK j \in Jobs : j = tasks[p].job
    BY <2>2
  <2>7. \/ StoreOk /\ ReconcileCancellation(j)
        \/ StoreFails /\ jobs' = jobs
    BY <1>1, <2>6 DEF ReconcileAfter
  <2> QED
    BY <2>4, <2>5, <2>7, ReconcilingMinds
<1> QED
  BY <1>1, MoveMinds, StartFailMinds, LeaveRunningMinds DEF TaskStep, Move

\* Every step of a cancellation call: what sets the flag signals next, what signals reconciles next, and
\* the last reconciliation leaves a parent that is settled or a child that is busy.
LEMMA CancelMinds ==
    ASSUME PreparationAssumption, PInv, DInv, NEW j \in Jobs, CancelStep(j)
    PROVE  Minds
<1>t. /\ Types /\ Ownership /\ NotScheduled /\ Prep \in Jobs /\ jobs \in [Jobs -> Row]
      /\ tasks \in [Permits -> GoodTask] /\ cancels \in [Jobs -> Cancel] /\ cancels[j] \in Cancel
      /\ running \in [Jobs -> Permits \cup {NoPermit}]
      /\ \A q \in Permits : tasks[q].pc \in Owning => tasks[q].job \in Jobs
  BY MindTypes DEF Children
<1>n. NoCancel.pc = "idle"
  BY DEF NoCancel
<1>1. CASE CancelRequest(j)
  <2>1. /\ UNCHANGED <<queue, running, tasks, shutting>>
        /\ StoreOk \/ StoreFails
        /\ cancels[j].pc = "request"
    BY <1>1 DEF CancelRequest
  <2>2. faults' = 0 => faults = 0
    BY <1>t, <2>1, FaultsStay
  <2>3. CASE /\ StoreOk
             /\ jobs' = [k \in Jobs |-> IF k \in cancels[j].family
                                        THEN CancelRequested(jobs[k]) ELSE jobs[k]]
             /\ cancels' = [cancels EXCEPT ![j].pc = "signal"]
    <3>1. cancels'[j].pc = "signal" /\ cancels'[j].family = cancels[j].family
          /\ \A k \in Jobs : k # j => cancels'[k] = cancels[k]
      BY <1>t, <2>3 DEF Cancel
    <3>2. \A k \in Jobs : /\ jobs'[k].state = jobs[k].state
                          /\ jobs'[k].attempt = jobs[k].attempt
                          /\ jobs[k].cancel => jobs'[k].cancel
      <4>1. \A row \in Row : /\ CancelRequested(row).state = row.state
                             /\ CancelRequested(row).attempt = row.attempt
                             /\ row.cancel => CancelRequested(row).cancel
        BY DEF CancelRequested, Row
      <4> QED
        BY <1>t, <2>3, <4>1
    <3>3. Pursued'
      BY <3>1 DEF Pursued
    <3>4. CallsOwn'
      BY <2>1, <3>1 DEF DInv, CallsOwn
    <3>5. StartsAreQueued'
      <4> SUFFICES ASSUME faults' = 0, NEW q \in Permits, tasks[q].pc \in {"write", "startfail"}
                   PROVE  jobs'[tasks[q].job].state = "Queued"
        BY <2>1 DEF StartsAreQueued
      <4>1. tasks[q].job \in Jobs
        BY <1>t DEF Owning, Starting
      <4> QED
        BY <2>2, <3>2, <4>1 DEF DInv, StartsAreQueued
    <3>6. AttemptFits' /\ (Undisturbed' => Undisturbed)
      BY <1>t, <2>1, <2>2, <3>2 DEF DInv, AttemptFits, Undisturbed
    <3> QED
      BY <1>t, <3>2, <3>3, <3>4, <3>5, <3>6 DEF Minds
  <2>4. CASE StoreFails /\ cancels' = [cancels EXCEPT ![j] = NoCancel] /\ UNCHANGED jobs
    <3>1. ~Undisturbed' /\ (Undisturbed' => Undisturbed)
      BY <1>t, <2>4, FailureDisturbs
    <3>2. CallsOwn'
      BY <1>n, <1>t, <2>4 DEF DInv, CallsOwn
    <3>3. StartsAreQueued'
      BY <2>1, <2>2, <2>4 DEF DInv, StartsAreQueued
    <3> QED
      BY <2>4, <3>1, <3>2, <3>3, QuietMinds
  <2> QED
    BY <1>1, <2>3, <2>4 DEF CancelRequest
<1>2. ASSUME NEW k \in Jobs, CancelSignal(j, k) PROVE Minds
  <2>1. /\ UNCHANGED <<running, jobs, shutting, faults>> /\ cancels[j].pc = "signal"
    BY <1>2 DEF CancelSignal
  <2>2. PICK todo \in SUBSET Jobs, pc \in {"signal", "reconcile"} :
            cancels' = [cancels EXCEPT ![j].todo = todo, ![j].pc = pc]
    <3>1. cancels[j].todo \in SUBSET Jobs /\ cancels[j].family \in SUBSET Jobs
      BY <1>t DEF Cancel
    <3>2. PICK left \in SUBSET Jobs : left = cancels[j].todo \ {k}
      BY <3>1
    <3>3. PICK todo \in SUBSET Jobs : todo = IF left = {} THEN cancels[j].family ELSE left
      BY <3>1
    <3>4. PICK pc \in {"signal", "reconcile"} : pc = IF left = {} THEN "reconcile" ELSE "signal"
      OBVIOUS
    <3>5. cancels' = [cancels EXCEPT ![j].todo = todo, ![j].pc = pc]
      BY <1>2, <3>2, <3>3, <3>4 DEF CancelSignal
    <3> QED
      BY <3>5
  <2>3. cancels'[j].pc \in {"signal", "reconcile"} /\ cancels'[j].family = cancels[j].family
        /\ \A i \in Jobs : i # j => cancels'[i] = cancels[i]
    BY <1>t, <2>2 DEF Cancel
  <2>4. \A q \in Permits : tasks'[q].job = tasks[q].job /\ tasks'[q].pc = tasks[q].pc
    <3>1. \/ tasks' = tasks
          \/ running[k] \in Permits /\ tasks' = [tasks EXCEPT ![running[k]] = Signalled(@)]
      BY <1>2, <1>t DEF CancelSignal, SignalJob
    <3> QED
      BY <1>t, <3>1, SignalledFacts
  <2>5. Pursued' /\ CallsOwn' /\ StartsAreQueued' /\ (Undisturbed' => Undisturbed)
    BY <2>1, <2>3, <2>4 DEF Pursued, DInv, CallsOwn, StartsAreQueued, Undisturbed
  <2> QED
    BY <2>1, <2>5, QuietMinds
<1>3. ASSUME NEW k \in Jobs, CancelReconcile(j, k) PROVE Minds
  <2>1. CallsOwn'
    <3>1. \/ cancels' = [cancels EXCEPT ![j] = NoCancel]
          \/ \E todo, pc : cancels' = [cancels EXCEPT ![j].todo = todo, ![j].pc = pc]
      BY <1>3 DEF CancelReconcile
    <3>2. cancels'[j].pc # "idle" => cancels'[j].family = cancels[j].family
      BY <1>n, <1>t, <3>1 DEF Cancel
    <3>3. \A i \in Jobs : i # j => cancels'[i] = cancels[i]
      BY <1>t, <3>1
    <3>4. cancels[j].pc # "idle"
      BY <1>3 DEF CancelReconcile
    <3> QED
      BY <3>2, <3>3, <3>4 DEF DInv, CallsOwn
  <2>2. /\ UNCHANGED <<queue, running, tasks, shutting>>
        /\ \/ StoreOk /\ ReconcileCancellation(k)
           \/ StoreFails /\ jobs' = jobs
    BY <1>3 DEF CancelReconcile
  <2> QED
    BY <2>1, <2>2, ReconcilingMinds
<1>4. CASE CancelReturns(j)
  <2>1. /\ UNCHANGED <<jobs, queue, running, tasks, shutting, faults>>
        /\ cancels[j].pc = "wait" /\ cancels' = [cancels EXCEPT ![j] = NoCancel]
    BY <1>4 DEF CancelReturns
  <2>2. cancels'[j].pc = "idle" /\ \A i \in Jobs : i # j => cancels'[i] = cancels[i]
    BY <1>n, <1>t, <2>1
  <2>3. CallsOwn' /\ StartsAreQueued' /\ (Undisturbed' => Undisturbed) /\ (Pursued => Pursued')
    BY <2>1, <2>2 DEF DInv, CallsOwn, StartsAreQueued, Undisturbed, Pursued
  <2>4. \A c : Busy(c) => Busy(c)'
    BY <2>1 DEF Busy, Owned, Queued
  <2> QED
    BY <2>1, <2>3, <2>4, QuietMinds
<1> QED
  BY <1>1, <1>2, <1>3, <1>4 DEF CancelStep

\* Every step of the scheduler and of its users.
LEMMA SchedulerMinds ==
    ASSUME PreparationAssumption, PInv, DInv, SchedulerStep
    PROVE  Minds
<1>t. /\ Types /\ Ownership /\ NotScheduled /\ Prep \in Jobs /\ jobs \in [Jobs -> Row]
      /\ tasks \in [Permits -> GoodTask] /\ cancels \in [Jobs -> Cancel]
      /\ queue \in [Jobs -> Seq(0 .. 3)]
      /\ running \in [Jobs -> Permits \cup {NoPermit}]
      /\ \A c \in Children(Prep) : c \in Jobs /\ c # Prep
      /\ Kind[Prep] = "Preparation" /\ Cancellable \subseteq Jobs /\ NoPermit \notin Permits
      /\ \A q \in Permits : tasks[q].pc \in Owning => tasks[q].job \in Jobs /\ tasks[q].job \in Owned
  BY MindTypes, SchedulerAssumption, Family DEF Ownership, OneOwnerPerJob, PreparationAssumption, Owned
<1>1. ASSUME NEW j \in Cancellable, CancelBegin(j) PROVE Minds
  <2>1. /\ UNCHANGED <<jobs, queue, running, tasks, shutting, faults>> /\ j \in Jobs
        /\ cancels[j].pc = "idle"
    BY <1>1, <1>t DEF CancelBegin
  <2>2. PICK family : /\ family = {j} \cup {c \in Children(j) : jobs[c].state # "Absent"}
                      /\ cancels' = [cancels EXCEPT ![j] = [pc |-> "request", family |-> family, todo |-> family]]
    BY <1>1 DEF CancelBegin
  <2>3. j \in family
    BY <2>2
  <2>4. /\ cancels'[j].family = family /\ \A i \in Jobs : i # j => cancels'[i] = cancels[i]
    BY <1>t, <2>1, <2>2
  <2>5. CallsOwn' /\ StartsAreQueued' /\ (Undisturbed' => Undisturbed) /\ (Pursued => Pursued')
    BY <2>1, <2>3, <2>4 DEF DInv, CallsOwn, StartsAreQueued, Undisturbed, Pursued
  <2>6. \A c : Busy(c) => Busy(c)'
    BY <2>1 DEF Busy, Owned, Queued
  <2> QED
    BY <2>1, <2>5, <2>6, QuietMinds
<1>2. ASSUME NEW j \in Jobs, CancelStep(j) PROVE Minds
  BY <1>2, CancelMinds
<1>3. ASSUME NEW j \in Jobs, RetryWithWorker(j) PROVE Minds
  <2>1. /\ UNCHANGED <<running, tasks, cancels, shutting, faults>>
        /\ j \notin Owned /\ j # Prep
        /\ jobs' = [jobs EXCEPT ![j] = Transitioned(@, "Queued", 0, FALSE)]
        /\ queue' = [queue EXCEPT ![j] = Append(@, 0)]
    BY <1>3, <1>t DEF RetryWithWorker, Retriable, SourceReauthorized, Push
  <2>2. \A k \in Jobs : k # j => jobs'[k] = jobs[k] /\ queue'[k] = queue[k]
    BY <1>t, <2>1
  <2>3. jobs'[j].state = "Queued"
    BY <1>t, <2>1 DEF Transitioned, Row
  <2>4. \A q \in Permits : tasks[q].pc \in {"write", "startfail"} => tasks[q].pc \in Owning
    BY DEF Owning, Starting
  <2>5. CallsOwn' /\ StartsAreQueued' /\ (Undisturbed' => Undisturbed) /\ (Pursued => Pursued')
    BY <1>t, <2>1, <2>2, <2>4 DEF DInv, CallsOwn, StartsAreQueued, Undisturbed, Pursued
  <2>6. ASSUME NEW c \in Children(Prep), Busy(c) PROVE Busy(c)'
    <3>1. CASE c = j
      BY <2>3, <3>1 DEF Busy, Unsettled
    <3>2. CASE c # j
      BY <1>t, <2>1, <2>2, <2>6, <3>2 DEF Busy, Owned, Queued
    <3> QED
      BY <3>1, <3>2
  <2> QED
    BY <1>t, <2>1, <2>2, <2>5, <2>6, QuietMinds
<1>4. ASSUME NEW j \in Jobs, NEW p \in Permits, Dispatch(j, p) PROVE Minds
  <2>1. /\ UNCHANGED <<jobs, cancels, shutting, faults>> /\ tasks[p].pc = "idle"
        /\ running' = [running EXCEPT ![j] = p]
        /\ queue' = [queue EXCEPT ![j] = Tail(@)]
        /\ tasks' = [tasks EXCEPT ![p] = TaskAt("read", j, Head(queue[j]) + 1)]
    BY <1>4 DEF Dispatch
  <2>2. \A a : TaskAt("read", j, a).pc = "read"
    BY DEF TaskAt
  <2>3. tasks'[p].pc = "read" /\ \A q \in Permits : q # p => tasks'[q] = tasks[q]
    BY <1>t, <2>1, <2>2
  <2>4. CallsOwn' /\ StartsAreQueued' /\ (Undisturbed' => Undisturbed) /\ (Pursued => Pursued')
    BY <2>1, <2>3 DEF DInv, CallsOwn, StartsAreQueued, Undisturbed, Pursued
  <2>5. ASSUME NEW c \in Children(Prep), Busy(c) PROVE Busy(c)'
    <3>1. CASE c = j
      <4>1. running'[c] = p
        BY <1>t, <2>1, <3>1
      <4> QED
        BY <1>t, <4>1 DEF Busy, Owned
    <3>2. CASE c # j
      <4>1. running'[c] = running[c] /\ queue'[c] = queue[c]
        BY <1>t, <2>1, <3>2
      <4>2. \A q \in Permits : (tasks[q].pc = "reconcile" /\ tasks[q].job = c) => tasks'[q] = tasks[q]
        BY <2>1, <2>3
      <4> QED
        BY <1>t, <2>1, <2>5, <4>1, <4>2 DEF Busy, Owned, Queued
    <3> QED
      BY <3>1, <3>2
  <2> QED
    BY <2>1, <2>4, <2>5, QuietMinds
<1>5. ASSUME NEW p \in Permits, TaskStep(p) PROVE Minds
  BY <1>5, TaskMinds
<1>6. CASE Shutdown
  <2>1. UNCHANGED <<jobs, cancels, faults>> /\ shutting'
    BY <1>6 DEF Shutdown
  <2>2. \A q \in Permits : tasks'[q].job = tasks[q].job /\ tasks'[q].pc = tasks[q].pc
    BY <1>6, <1>t DEF Shutdown, GoodTask, Task
  <2>3. CallsOwn' /\ StartsAreQueued' /\ ~Undisturbed'
    BY <2>1, <2>2 DEF DInv, CallsOwn, StartsAreQueued, Undisturbed
  <2> QED
    BY <2>1, <2>3, QuietMinds
<1> QED
  BY <1>1, <1>2, <1>3, <1>4, <1>5, <1>6 DEF SchedulerStep

\* After a restart no preparation is under way.
LEMMA RestartMinds ==
    ASSUME PreparationAssumption, PInv, DInv, Restart
    PROVE  Minds /\ ~UnderWay(jobs'[Prep])
<1>t. jobs \in [Jobs -> Row] /\ Prep \in Jobs
  BY MindTypes
<1>1. ~UnderWay(jobs'[Prep]) /\ jobs'[Prep].attempt = jobs[Prep].attempt
  <2>1. PICK row \in Row : row = jobs[Prep]
    BY <1>t
  <2>2. jobs'[Prep] = IF row.state = "Absent" THEN row ELSE Recovered(row, Kind[Prep])
    BY <1>t, <2>1 DEF Restart
  <2>3. /\ row.state # "Absent" => ~UnderWay(Recovered(row, Kind[Prep]))
        /\ row.state # "Absent" => Recovered(row, Kind[Prep]).attempt = row.attempt
    BY RecoveredFields DEF UnderWay
  <2> QED
    BY <2>1, <2>2, <2>3 DEF UnderWay
<1>2. NoTask.pc = "idle" /\ NoCancel.pc = "idle"
  BY DEF NoTask, TaskAt, NoCancel
<1>3. CallsOwn' /\ StartsAreQueued'
  BY <1>2 DEF Restart, CallsOwn, StartsAreQueued
<1> QED
  BY <1>1, <1>3 DEF Minds, DInv, AttemptFits

\* The second invariant is inductive relative to the first.
LEMMA DInvStep ==
    ASSUME PreparationAssumption, PInv, DInv, [PrepNext]_allVars
    PROVE  DInv'
<1>d. Drives
  BY DEF PInv, Drives
<1>1. CASE \/ \E d \in Calls : BeginPrepare(d)
           \/ ResumePreparation
           \/ \E d \in Drivers : CallStep(d)
  <2>1. PICK d \in Drivers : DriverShape(d) /\ DriverMinds(d)
    BY <1>d, <1>1, DriverFacts, DriverMind DEF Drivers, DInv
  <2> QED
    BY <2>1, DriverKeeps
<1>2. CASE SchedulerStep /\ UNCHANGED <<calls, resume>>
  BY <1>2, SchedulerMinds, MindsKeep
<1>3. CASE PrepRestart
  BY <1>3, RestartMinds, MindsKeep DEF PrepRestart
<1>4. CASE UNCHANGED allVars
  BY <1>4 DEF allVars, vars, DInv, AttemptFits, CallsOwn, StartsAreQueued, FlaggedIsPursued,
             UnflaggedIsWorked, Undisturbed, UnderWay, Pursued, Busy, Owned, Queued
<1> QED
  BY <1>1, <1>2, <1>3, <1>4 DEF PrepNext

\* It holds of an empty store.
LEMMA InitDInv ==
    ASSUME PreparationAssumption, PrepInit
    PROVE  DInv
<1>1. Prep \in Jobs /\ MaxAttempts[Prep] \in 1 .. 3
  BY Family, SchedulerAssumption
<1>2. jobs[Prep].state = "Absent" /\ jobs[Prep].attempt = 0
  BY <1>1 DEF PrepInit, Init, NoRow
<1>3. CallsOwn /\ StartsAreQueued
  BY DEF PrepInit, Init, NoCancel, NoTask, TaskAt, CallsOwn, StartsAreQueued
<1> QED
  BY <1>1, <1>2, <1>3 DEF DInv, AttemptFits, FlaggedIsPursued, UnflaggedIsWorked, UnderWay

\* The second inductive invariant of the preparation holds in every reachable state.
THEOREM PreparationIsFollowed ==
    ASSUME PreparationAssumption
    PROVE  PrepSpec => []DInv
<1>1. PrepInit => DInv
  BY InitDInv
<1>2. PInv /\ DInv /\ [PrepNext]_allVars => DInv'
  BY DInvStep
<1> QED
  BY <1>1, <1>2, PreparationInvariance, PTL DEF PrepSpec

\* ActivePreparationIsDriven: a preparation under way is never left with nothing to wait for. It has a
\* driver, or it is flagged and a cancellation call, a task or a child that is not settled comes before its
\* own settlement (reconcile_cancellation settles a parent with its last child).
THEOREM ActivePreparationsAreDriven ==
    ASSUME PreparationAssumption
    PROVE  PrepSpec => []ActivePreparationIsDriven
<1>1. PInv /\ DInv => ActivePreparationIsDriven
  <2> SUFFICES ASSUME PInv, DInv, faults = 0, ~shutting, jobs[Prep].state \in {"Probing", "Running"},
                      ~Driven
               PROVE  /\ jobs[Prep].cancel
                      /\ BeingCancelled(Prep) \/ \E c \in Children(Prep) : HoldsBack(c)
    BY DEF ActivePreparationIsDriven
  <2>1. Undisturbed /\ UnderWay(jobs[Prep])
    BY DEF Undisturbed, UnderWay
  <2>2. jobs[Prep].cancel
    BY <2>1 DEF DInv, UnflaggedIsWorked, Driven, Works
  <2>3. CASE \E c \in Children(Prep) : Busy(c)
    BY <2>2, <2>3 DEF Busy, HoldsBack, Attended
  <2>4. CASE Pursued
    <3>1. PICK k \in Jobs : cancels[k].pc # "idle" /\ k \in cancels[k].family
      BY <2>4 DEF Pursued, DInv, CallsOwn
    <3>2. BeingCancelled(k)
      BY <3>1 DEF BeingCancelled
    <3>3. k = Prep \/ k \in Children(Prep)
      BY Family
    <3> QED
      BY <2>2, <3>2, <3>3 DEF HoldsBack, Attended
  <2> QED
    BY <2>1, <2>2, <2>3, <2>4 DEF DInv, FlaggedIsPursued
<1> QED
  BY <1>1, PreparationInvariance, PreparationIsFollowed, PTL
=============================================================================
