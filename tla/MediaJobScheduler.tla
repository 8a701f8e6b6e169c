------------------------- MODULE MediaJobScheduler -------------------------
\* The media-job scheduler (video/jobs/scheduler.rs), the job service above it
\* (video/jobs/mod.rs) and the clients that start and retry work, over the
\* durable job table.  A step is one store transaction or one section under the
\* scheduler's queue and running locks; between any two, everything else runs.
EXTENDS MediaJobModel, FiniteSets, Sequences

CONSTANTS
    Jobs, NoJob,
    Kind,            \* [Jobs -> Kinds]
    Parent,          \* parent_id of a row
    MaxAttempts,     \* max_attempts of a row
    Permits,         \* permits of the resource semaphores
    NoPermit,
    PermitsFor,      \* the permits of the resource a job's work is submitted for
    Outcomes,        \* what workers may return; the model's bound on workers
    StartTries,      \* length of START_RETRY_DELAYS
    MaxFaults,       \* bound: store transactions that may fail
    MaxRestarts      \* bound: crashes or exits followed by a start-up

VARIABLES
    jobs,            \* media_jobs: state, cancellation flag, attempt, ready
    queue,           \* the entries of `queue`, per job and oldest first: the attempt of each
    running,         \* the `running` map: whose tokens a job's cancellation reaches
    tasks,           \* the spawned execute() calls, each named by the permit it holds
    pending,         \* clients between enqueue and the push of submit: the attempt they carry
    cancels,         \* cancel_job or cancel calls under way, one per job
    shutting,        \* shutting_down
    faults,          \* store failures so far
    restarts,        \* start-ups so far
    asked            \* history: a cancellation was committed for the job, and since
                     \* it returned nobody restarted the job

vars == <<jobs, queue, running, tasks, pending, cancels, shutting, faults, restarts, asked>>

\* Only preparations have children: derived.rs alone creates rows with a parent.
ASSUME SchedulerAssumption ==
    /\ NoJob \notin Jobs
    /\ NoPermit \notin Permits
    /\ Kind \in [Jobs -> Kinds]
    /\ Parent \in [Jobs -> Jobs \cup {NoJob}]
    /\ \A j \in Jobs : Parent[j] # NoJob => Kind[Parent[j]] = "Preparation"
    /\ MaxAttempts \in [Jobs -> 1 .. 3]
    /\ PermitsFor \in [Jobs -> SUBSET Permits]
    /\ Outcomes \subseteq {"Complete", "Cancelled", "Transient", "Actionable", "Permanent"}
    /\ StartTries \in Nat \ {0}
    /\ MaxFaults \in Nat
    /\ MaxRestarts \in Nat

\* Where an execute() call stands.
Starting == {"read", "write"}
Working  == {"work", "cleanup", "settle"}
Waiting  == {"backoff", "requeue", "retrycancel"}
Owning   == Starting \cup Working \cup Waiting \cup {"startfail", "remove"}
PCs      == Owning \cup {"idle", "reconcile"}

TaskAt(pc, j, attempt) ==
    [pc |-> pc, job |-> j, attempt |-> attempt, tries |-> 0, outcome |-> "None",
     cancelled |-> FALSE, user |-> FALSE, saw |-> FALSE]

NoTask == TaskAt("idle", NoJob, 0)

Task == [pc : PCs, job : Jobs \cup {NoJob}, attempt : 0 .. 4, tries : 0 .. StartTries,
         outcome : Outcomes \cup {"None"}, cancelled : BOOLEAN, user : BOOLEAN, saw : BOOLEAN]

NoCancel == [pc |-> "idle", family |-> {}, todo |-> {}]

Cancel == [pc : {"idle", "request", "signal", "reconcile", "wait"},
           family : SUBSET Jobs, todo : SUBSET Jobs]

NoRow == [state |-> "Absent", cancel |-> FALSE, attempt |-> 0, ready |-> FALSE]

Row == [state : States \cup {"Absent"}, cancel : BOOLEAN, attempt : 0 .. 3, ready : BOOLEAN]

Children(j) == {c \in Jobs : Parent[c] = j}

Queued(j) == queue[j] # <<>>

\* Mutant: only queued jobs count as owned.
OwnedWhileQueued == {j \in Jobs : Queued(j)}

Owned == {j \in Jobs : Queued(j) \/ running[j] # NoPermit}

-----------------------------------------------------------------------------
\* A store call either commits or, within the bound, fails and changes nothing.
StoreOk == UNCHANGED faults
StoreFails == faults < MaxFaults /\ faults' = faults + 1

\* A transition stamped with a time taken before the row was last touched is
\* refused.  The only touch that can come in between is a cancellation request.
RefusedAsStale(row, saw) == row.cancel /\ ~saw

Push(j, attempt) == queue' = [queue EXCEPT ![j] = Append(@, attempt)]

\* A step of a task forgets what only the steps before it read.
Moved(t, pc) ==
    [t EXCEPT !.pc = pc, !.outcome = "None", !.saw = FALSE,
              !.tries = IF pc \in Starting THEN t.tries ELSE 0]

\* A start that did not succeed is tried again, START_RETRY_DELAYS times.
TriedAgain(t) ==
    IF t.tries + 1 = StartTries THEN Moved(t, "startfail")
    ELSE [t EXCEPT !.pc = "read", !.tries = t.tries + 1]

Goto(p, pc) == tasks' = [tasks EXCEPT ![p] = Moved(@, pc)]

EndTask(p) == tasks' = [tasks EXCEPT ![p] = NoTask]

\* The scheduler's reconcile_cancellation around the store's: nothing while
\* the job is queued or running, otherwise the job and then its parent.
SettleRow(rows, j, owned) ==
    IF j # NoJob /\ Reconcilable(rows, j, Children(j), owned)
    THEN [rows EXCEPT ![j] = Reconciled(@)] ELSE rows

ReconcileCancellation(j) ==
    jobs' = IF j \in Owned THEN jobs
            ELSE SettleRow(SettleRow(jobs, j, Owned), Parent[j], Owned)

\* A cancellation of the job is under way.
BeingCancelled(j) == \E k \in Jobs : cancels[k].pc # "idle" /\ j \in cancels[k].family

\* A retry or a reauthorization ends the story of an earlier cancellation.
Restarted(j) == [asked EXCEPT ![j] = BeingCancelled(j) /\ @]

-----------------------------------------------------------------------------
Init ==
    /\ jobs = [j \in Jobs |-> NoRow]
    /\ queue = [j \in Jobs |-> <<>>]
    /\ running = [j \in Jobs |-> NoPermit]
    /\ tasks = [p \in Permits |-> NoTask]
    /\ pending = [j \in Jobs |-> {}]
    /\ cancels = [j \in Jobs |-> NoCancel]
    /\ shutting = FALSE
    /\ faults = 0
    /\ restarts = 0
    /\ asked = [j \in Jobs |-> FALSE]

\* A client's enqueue of new work, which it goes on to submit.  Children of a
\* preparation are enqueued under an existing row; derived work carries the
\* canonical object in its payload.
Start(j) ==
    /\ jobs[j].state = "Absent"
    /\ Kind[j] # "Preparation"
    /\ Parent[j] # NoJob => jobs[Parent[j]].state # "Absent"
    /\ jobs' = [jobs EXCEPT ![j] = [state |-> "Queued", cancel |-> FALSE, attempt |-> 0,
                                    ready |-> Kind[j] = "Derived"]]
    /\ pending' = [pending EXCEPT ![j] = @ \cup {0}]
    /\ UNCHANGED <<queue, running, tasks, cancels, shutting, faults, restarts, asked>>

\* The same request again, answered with the queued job it duplicates: derived
\* work and exports submit that job with the attempt they read; an analysis
\* submits only what it created itself.
StartAgain(j) ==
    /\ jobs[j].state = "Queued"
    /\ Kind[j] \in {"Derived", "FinalRender"}
    /\ pending' = [pending EXCEPT ![j] = @ \cup {jobs[j].attempt}]
    /\ UNCHANGED <<jobs, queue, running, tasks, cancels, shutting, faults, restarts, asked>>

\* A new authorization for a blocked export: refresh_blocked_final_render, then
\* the submit of the refreshed row.
Reauthorize(j) ==
    /\ Kind[j] = "FinalRender"
    /\ jobs[j].state = "Blocked"
    /\ jobs' = [jobs EXCEPT ![j] = Refreshed(@)]
    /\ pending' = [pending EXCEPT ![j] = @ \cup {jobs[j].attempt}]
    /\ asked' = Restarted(j)
    /\ UNCHANGED <<queue, running, tasks, cancels, shutting, faults, restarts>>

\* require_fresh_output_authorization: retrying a failed export, or one blocked
\* for another reason than its authorization, blocks it on the authorization.
RequireAuthorization(j) ==
    /\ Kind[j] = "FinalRender"
    /\ jobs[j].state \in {"Failed", "Blocked"}
    /\ jobs' = [jobs EXCEPT ![j] = Transitioned(@, "Blocked", 0, FALSE)]
    /\ asked' = Restarted(j)
    /\ UNCHANGED <<queue, running, tasks, pending, cancels, shutting, faults, restarts>>

\* Mutant: only running work is taken for a duplicate.
SubmitBehindQueued(j, attempt) ==
    /\ attempt \in pending[j]
    /\ pending' = [pending EXCEPT ![j] = @ \ {attempt}]
    /\ IF running[j] # NoPermit \/ attempt > MaxAttempts[j]
       THEN UNCHANGED queue
       ELSE Push(j, attempt) \/ (shutting /\ UNCHANGED queue)
    /\ UNCHANGED <<jobs, running, tasks, cancels, shutting, faults, restarts, asked>>

\* submit, from the check of shutting_down on: a push, unless the job is queued
\* or running already.  A call that passed the check before the shutdown
\* still pushes after it, so during a shutdown both are possible.
Submit(j, attempt) ==
    /\ attempt \in pending[j]
    /\ pending' = [pending EXCEPT ![j] = @ \ {attempt}]
    /\ IF j \in Owned \/ attempt > MaxAttempts[j]
       THEN UNCHANGED queue
       ELSE Push(j, attempt) \/ (shutting /\ UNCHANGED queue)
    /\ UNCHANGED <<jobs, running, tasks, cancels, shutting, faults, restarts, asked>>

\* retry_job: derived work that failed or is blocked and has its canonical object.
Retriable(j) ==
    /\ Kind[j] = "Derived"
    /\ jobs[j].ready
    /\ jobs[j].state \in {"Failed", "Blocked"}

\* start_transcription of a request whose job a restart left blocked: the source
\* was just authorized again.
SourceReauthorized(j) == Kind[j] = "Analysis" /\ jobs[j].state = "Blocked"

\* retry_with_worker, refused for a job that is queued or running.  Like submit's,
\* a call that passed the check of shutting_down before the shutdown queues its
\* work after it.
RetryWithWorker(j) ==
    /\ j \notin Owned
    /\ Retriable(j) \/ SourceReauthorized(j)
    /\ jobs' = [jobs EXCEPT ![j] = Transitioned(@, "Queued", 0, FALSE)]
    /\ Push(j, 0)
    /\ asked' = Restarted(j)
    /\ UNCHANGED <<running, tasks, pending, cancels, shutting, faults, restarts>>

-----------------------------------------------------------------------------
\* Mutant: work is taken for a job that is still in the running map.
DispatchBesideRunning(j, p) ==
    /\ Queued(j)
    /\ p \in PermitsFor[j]
    /\ tasks[p].pc = "idle"
    /\ queue' = [queue EXCEPT ![j] = Tail(@)]
    /\ running' = [running EXCEPT ![j] = p]
    /\ tasks' = [tasks EXCEPT ![p] = TaskAt("read", j, Head(queue[j]) + 1)]
    /\ UNCHANGED <<jobs, pending, cancels, shutting, faults, restarts, asked>>

\* take_dispatchable and the spawn of execute.  Which queued job comes first is
\* decided by priority, age and submission order and left open here; within a
\* job the oldest entry comes first.  run_loop looks at shutting_down before it
\* takes work, so work can still be taken once a shutdown has begun; that the
\* loop ends when nothing is active is left out.
Dispatch(j, p) ==
    /\ Queued(j)
    /\ running[j] = NoPermit
    /\ p \in PermitsFor[j]
    /\ tasks[p].pc = "idle"
    /\ queue' = [queue EXCEPT ![j] = Tail(@)]
    /\ running' = [running EXCEPT ![j] = p]
    /\ tasks' = [tasks EXCEPT ![p] = TaskAt("read", j, Head(queue[j]) + 1)]
    /\ UNCHANGED <<jobs, pending, cancels, shutting, faults, restarts, asked>>

\* start_work, first half of a try: read the record; anything but a queued job
\* that nobody wants cancelled is discarded.
StartRead(p) ==
    LET j == tasks[p].job IN
    /\ tasks[p].pc = "read"
    /\ \/ /\ StoreOk
          /\ IF jobs[j].state = "Queued" /\ ~jobs[j].cancel
             THEN Goto(p, "write") ELSE Goto(p, "remove")
       \/ StoreFails /\ Goto(p, "startfail")
    /\ UNCHANGED <<jobs, queue, running, pending, cancels, shutting, restarts, asked>>

\* start_work, second half: the transition to running.  A cancellation request
\* committed since the read is overwritten, unless it makes the transition stale.
StartWrite(p) ==
    LET j == tasks[p].job
        a == tasks[p].attempt
    IN
    /\ tasks[p].pc = "write"
    /\ \/ /\ TransitionAllowed(jobs[j], "Running", a, MaxAttempts[j])
          /\ StoreOk
          /\ jobs' = [jobs EXCEPT ![j] = Transitioned(@, "Running", a, FALSE)]
          /\ Goto(p, "work")
       \/ /\ \/ /\ \/ ~TransitionAllowed(jobs[j], "Running", a, MaxAttempts[j])
                   \/ RefusedAsStale(jobs[j], FALSE)
                /\ StoreOk
             \/ StoreFails
          /\ tasks' = [tasks EXCEPT ![p] = TriedAgain(@)]
          /\ UNCHANGED jobs
    /\ UNCHANGED <<queue, running, pending, cancels, shutting, restarts, asked>>

\* Mutant: a start that failed for good gives its work up.
StartFailForgotten(p) ==
    /\ tasks[p].pc = "startfail"
    /\ running' = [running EXCEPT ![tasks[p].job] = NoPermit]
    /\ EndTask(p)
    /\ UNCHANGED <<jobs, queue, pending, cancels, shutting, faults, restarts, asked>>

\* requeue_after_start_failure: back to the queue, unless it was cancelled or
\* the scheduler stops.  The job leaves the running map and the task ends
\* without a reconciliation.
StartFail(p) ==
    LET j == tasks[p].job IN
    /\ tasks[p].pc = "startfail"
    /\ IF ~shutting /\ ~tasks[p].cancelled /\ running[j] # NoPermit /\ ~Queued(j)
       THEN Push(j, tasks[p].attempt - 1) ELSE UNCHANGED queue
    /\ running' = [running EXCEPT ![j] = NoPermit]
    /\ EndTask(p)
    /\ UNCHANGED <<jobs, pending, cancels, shutting, faults, restarts, asked>>

\* The worker returns and finish looks at the cancellation tokens.  A worker
\* may return anything however it was signalled.  From here to the write of the
\* outcome finish does not look again; saw keeps whether a cancellation
\* request was already in the row when finish took its time.
WorkerReturns(p, outcome) ==
    LET t == tasks[p] IN
    /\ t.pc = "work"
    /\ IF t.cancelled THEN Goto(p, IF t.user THEN "cleanup" ELSE "remove")
       ELSE IF outcome = "Cancelled" THEN Goto(p, "cleanup")
       ELSE tasks' = [tasks EXCEPT ![p] =
                [t EXCEPT !.pc = "settle", !.outcome = outcome, !.saw = jobs[t.job].cancel]]
    /\ UNCHANGED <<jobs, queue, running, pending, cancels, shutting, faults, restarts, asked>>

\* Mutant: the cleanup is recorded without the request.
CleanupWithoutRequest(p) ==
    /\ tasks[p].pc = "cleanup"
    /\ Goto(p, "remove")
    /\ UNCHANGED <<jobs, queue, running, pending, cancels, shutting, faults, restarts, asked>>

\* record_cancelled_cleanup: the request, then the cleaned-up progress with the
\* flag set in the state the request's answer had.  Either write may fail.  One step:
\* the job is the worker's, so its state does not move in between
\* (WorkerOwnsItsRecord), and the second write finds the flag set and changes
\* the progress alone, which is left out.
Cleanup(p) ==
    LET j == tasks[p].job IN
    /\ tasks[p].pc = "cleanup"
    /\ \/ StoreOk /\ jobs' = [jobs EXCEPT ![j] = CancelRequested(@)]
       \/ StoreFails /\ jobs' \in {jobs, [jobs EXCEPT ![j] = CancelRequested(@)]}
    /\ Goto(p, "remove")
    /\ UNCHANGED <<queue, running, pending, cancels, shutting, restarts, asked>>

\* finish: the outcome becomes the state of the record.
Settle(p) ==
    LET j == tasks[p].job
        t == tasks[p]
        to == SettledState(t.outcome, t.attempt, MaxAttempts[j])
    IN
    /\ t.pc = "settle"
    /\ \/ /\ TransitionAllowed(jobs[j], to, jobs[j].attempt, MaxAttempts[j])
          /\ to = "Retrying" => HasRetryDelay(t.attempt - 1)
          /\ StoreOk
          /\ jobs' = [jobs EXCEPT ![j] = Transitioned(@, to,
                          IF to = "Retrying" THEN t.attempt ELSE @.attempt, FALSE)]
          /\ Goto(p, IF to = "Retrying" THEN "backoff" ELSE "remove")
       \/ /\ \/ /\ \/ ~TransitionAllowed(jobs[j], to, jobs[j].attempt, MaxAttempts[j])
                   \/ to = "Retrying" /\ ~HasRetryDelay(t.attempt - 1)
                   \/ RefusedAsStale(jobs[j], t.saw)
                /\ StoreOk
             \/ StoreFails
          /\ Goto(p, "remove")
          /\ UNCHANGED jobs
    /\ UNCHANGED <<queue, running, pending, cancels, shutting, restarts, asked>>

\* What finish does once it sees the cancellation token during a retry delay.
AfterRetryCancel(t) == IF t.user THEN "retrycancel" ELSE "remove"

\* The retry delay ends, by the token or by the clock.
BackoffEnds(p) ==
    /\ tasks[p].pc = "backoff"
    /\ Goto(p, IF tasks[p].cancelled THEN AfterRetryCancel(tasks[p]) ELSE "requeue")
    /\ UNCHANGED <<jobs, queue, running, pending, cancels, shutting, faults, restarts, asked>>

RetryCancel(p) ==
    LET j == tasks[p].job IN
    /\ tasks[p].pc = "retrycancel"
    /\ \/ StoreOk /\ jobs' = [jobs EXCEPT ![j] = CancelRequested(@)]
       \/ StoreFails /\ UNCHANGED jobs
    /\ Goto(p, "remove")
    /\ UNCHANGED <<queue, running, pending, cancels, shutting, restarts, asked>>

\* Mutants: the retry is queued but not recorded, and queued as if its last attempt
\* had not been made.
RequeueUnrecorded(j, a) == UNCHANGED jobs /\ Push(j, a)

RequeueUncounted(j, a) ==
    jobs' = [jobs EXCEPT ![j] = Transitioned(@, "Queued", a, FALSE)] /\ Push(j, a - 1)

\* The record and its new queue entry, which finish writes under both locks.
RequeueAs(j, a) ==
    jobs' = [jobs EXCEPT ![j] = Transitioned(@, "Queued", a, FALSE)] /\ Push(j, a)

\* The automatic retry goes back to the queue, under both locks.  The tokens
\* are checked again, the record's flag is not: it is overwritten, unless the
\* request came after the requeue took its time.
Requeue(p) ==
    LET j == tasks[p].job
        a == tasks[p].attempt
    IN
    /\ tasks[p].pc = "requeue"
    /\ IF tasks[p].cancelled
       THEN Goto(p, AfterRetryCancel(tasks[p])) /\ StoreOk /\ UNCHANGED <<jobs, queue>>
       ELSE /\ Goto(p, "remove")
            /\ \/ shutting /\ StoreOk /\ UNCHANGED <<jobs, queue>>
               \/ /\ ~shutting
                  /\ TransitionAllowed(jobs[j], "Queued", a, MaxAttempts[j])
                  /\ StoreOk
                  /\ RequeueAs(j, a)
               \/ /\ ~shutting
                  /\ \/ /\ \/ ~TransitionAllowed(jobs[j], "Queued", a, MaxAttempts[j])
                           \/ RefusedAsStale(jobs[j], FALSE)
                        /\ StoreOk
                     \/ StoreFails
                  /\ UNCHANGED <<jobs, queue>>
    /\ UNCHANGED <<running, pending, cancels, shutting, restarts, asked>>

\* execute, after finish or a discarded start: the job leaves the running map.
LeaveRunning(p) ==
    /\ tasks[p].pc = "remove"
    /\ running' = [running EXCEPT ![tasks[p].job] = NoPermit]
    /\ tasks' = [tasks EXCEPT ![p] = TaskAt("reconcile", tasks[p].job, 0)]
    /\ UNCHANGED <<jobs, queue, pending, cancels, shutting, faults, restarts, asked>>

\* Mutant: the task ends without reconciling.
EndUnreconciled(p) ==
    /\ tasks[p].pc = "reconcile"
    /\ EndTask(p)
    /\ UNCHANGED <<jobs, queue, running, pending, cancels, shutting, faults, restarts, asked>>

\* The last step of execute, after which the permit is free again.
ReconcileAfter(p) ==
    /\ tasks[p].pc = "reconcile"
    /\ \/ StoreOk /\ ReconcileCancellation(tasks[p].job)
       \/ StoreFails /\ UNCHANGED jobs
    /\ EndTask(p)
    /\ UNCHANGED <<queue, running, pending, cancels, shutting, restarts, asked>>

-----------------------------------------------------------------------------
\* cancel_job_until: the record is read and the family is collected ...
CancelBegin(j) ==
    /\ cancels[j].pc = "idle"
    /\ jobs[j].state \in Unsettled
    /\ LET family == {j} \cup {c \in Children(j) : jobs[c].state # "Absent"}
       IN cancels' = [cancels EXCEPT ![j] = [pc |-> "request", family |-> family,
                                             todo |-> family]]
    /\ UNCHANGED <<jobs, queue, running, tasks, pending, shutting, faults, restarts, asked>>

\* ... then the request is committed for the whole family at once ...
CancelRequest(j) ==
    /\ cancels[j].pc = "request"
    /\ \/ /\ StoreOk
          /\ jobs' = [k \in Jobs |-> IF k \in cancels[j].family
                                     THEN CancelRequested(jobs[k]) ELSE jobs[k]]
          /\ asked' = [k \in Jobs |-> asked[k] \/ k \in cancels[j].family]
          /\ cancels' = [cancels EXCEPT ![j].pc = "signal"]
       \/ /\ StoreFails
          /\ cancels' = [cancels EXCEPT ![j] = NoCancel]
          /\ UNCHANGED <<jobs, asked>>
    /\ UNCHANGED <<queue, running, tasks, pending, shutting, restarts>>

\* A user's cancellation sets both tokens.
Signalled(t) == [t EXCEPT !.user = TRUE, !.cancelled = TRUE]

\* signal_cancellation: the queued entry is dropped, or else the running work's
\* tokens are set.
SignalJob(k) ==
    IF Queued(k)
    THEN queue' = [queue EXCEPT ![k] = Tail(@)] /\ UNCHANGED tasks
    ELSE /\ UNCHANGED queue
         /\ IF running[k] = NoPermit THEN UNCHANGED tasks
            ELSE tasks' = [tasks EXCEPT ![running[k]] = Signalled(@)]

\* ... then every member is signalled, the job itself first ...
CancelSignal(j, k) ==
    LET left == cancels[j].todo \ {k} IN
    /\ cancels[j].pc = "signal"
    /\ k \in cancels[j].todo
    /\ j \in cancels[j].todo => k = j
    /\ SignalJob(k)
    /\ cancels' = [cancels EXCEPT
           ![j].todo = IF left = {} THEN cancels[j].family ELSE left,
           ![j].pc = IF left = {} THEN "reconcile" ELSE "signal"]
    /\ UNCHANGED <<jobs, running, pending, shutting, faults, restarts, asked>>

\* ... then every member is reconciled, the job itself last ...
CancelReconcile(j, k) ==
    LET left == cancels[j].todo \ {k} IN
    /\ cancels[j].pc = "reconcile"
    /\ k \in cancels[j].todo
    /\ k = j => left = {}
    /\ \/ /\ StoreOk
          /\ ReconcileCancellation(k)
          /\ cancels' = [cancels EXCEPT ![j].todo = left,
                                        ![j].pc = IF left = {} THEN "wait" ELSE "reconcile"]
       \/ /\ StoreFails
          /\ cancels' = [cancels EXCEPT ![j] = NoCancel]
          /\ UNCHANGED jobs
    /\ UNCHANGED <<queue, running, tasks, pending, shutting, restarts, asked>>

\* ... and the caller polls until the job is settled and not running, or its
\* deadline passes.  Either way nothing but the answer depends on it.
CancelReturns(j) ==
    /\ cancels[j].pc = "wait"
    /\ cancels' = [cancels EXCEPT ![j] = NoCancel]
    /\ UNCHANGED <<jobs, queue, running, tasks, pending, shutting, faults, restarts, asked>>

\* The scheduler's own cancel, used by video_cancel_render: the request is
\* committed under the scheduler locks.  A queued entry is dropped before the
\* request is tried and the caller reconciles after it.
RenderCancel(j) ==
    /\ Kind[j] = "FinalRender"
    /\ cancels[j].pc = "idle"
    /\ jobs[j].state \in Unsettled
    /\ j \in Owned
    /\ IF Queued(j) THEN queue' = [queue EXCEPT ![j] = Tail(@)] ELSE UNCHANGED queue
    /\ \/ /\ StoreOk
          /\ jobs' = [jobs EXCEPT ![j] = CancelRequested(@)]
          /\ asked' = [asked EXCEPT ![j] = TRUE]
          /\ IF Queued(j)
             THEN /\ cancels' = [cancels EXCEPT ![j] = [pc |-> "reconcile", family |-> {j},
                                                        todo |-> {j}]]
                  /\ UNCHANGED tasks
             ELSE /\ tasks' = [tasks EXCEPT ![running[j]] = Signalled(@)]
                  /\ UNCHANGED cancels
       \/ StoreFails /\ UNCHANGED <<jobs, asked, tasks, cancels>>
    /\ UNCHANGED <<running, pending, shutting, restarts>>

-----------------------------------------------------------------------------
\* shutdown: the queue is dropped and every running worker is signalled, but
\* not as a user's cancellation.
Shutdown ==
    /\ shutting' = TRUE
    /\ queue' = [j \in Jobs |-> <<>>]
    /\ tasks' = [p \in Permits |->
           IF \E j \in Jobs : running[j] = p THEN [tasks[p] EXCEPT !.cancelled = TRUE]
           ELSE tasks[p]]
    /\ UNCHANGED <<jobs, running, pending, cancels, faults, restarts, asked>>

\* The process ends, by a crash or after a shutdown that may have run out of
\* time, and the next one recovers the table before its scheduler starts.
Restart ==
    /\ restarts < MaxRestarts
    /\ restarts' = restarts + 1
    /\ jobs' = [j \in Jobs |-> IF jobs[j].state = "Absent" THEN jobs[j]
                               ELSE Recovered(jobs[j], Kind[j])]
    /\ queue' = [j \in Jobs |-> <<>>]
    /\ running' = [j \in Jobs |-> NoPermit]
    /\ tasks' = [p \in Permits |-> NoTask]
    /\ pending' = [j \in Jobs |-> {}]
    /\ cancels' = [j \in Jobs |-> NoCancel]
    /\ shutting' = FALSE
    /\ asked' = [j \in Jobs |-> FALSE]
    /\ UNCHANGED faults

TaskStep(p) ==
    \/ StartRead(p) \/ StartWrite(p) \/ StartFail(p)
    \/ \E outcome \in Outcomes : WorkerReturns(p, outcome)
    \/ Cleanup(p) \/ Settle(p)
    \/ BackoffEnds(p) \/ RetryCancel(p) \/ Requeue(p)
    \/ LeaveRunning(p) \/ ReconcileAfter(p)

CancelStep(j) ==
    \/ CancelRequest(j)
    \/ \E k \in Jobs : CancelSignal(j, k) \/ CancelReconcile(j, k)
    \/ CancelReturns(j)

ClientStep(j) ==
    \/ Start(j) \/ StartAgain(j) \/ Reauthorize(j)
    \/ RequireAuthorization(j) \/ RetryWithWorker(j)
    \/ \E attempt \in pending[j] : Submit(j, attempt)
    \/ CancelBegin(j) \/ RenderCancel(j)

Next ==
    \/ \E j \in Jobs : ClientStep(j) \/ CancelStep(j)
    \/ \E j \in Jobs, p \in Permits : Dispatch(j, p)
    \/ \E p \in Permits : TaskStep(p)
    \/ Shutdown
    \/ Restart

Spec == Init /\ [][Next]_vars

\* Spawned tasks, timers and awaited calls go on by themselves; that a worker
\* returns is what its own supervision promises.  The aging of queued work
\* gives every entry its turn whenever permits keep becoming free.
Fairness ==
    /\ \A p \in Permits : WF_vars(TaskStep(p))
    /\ \A j \in Jobs : WF_vars(CancelStep(j))
    /\ \A j \in Jobs : WF_vars(\E attempt \in pending[j] : Submit(j, attempt))
    /\ \A j \in Jobs : SF_vars(\E p \in Permits : Dispatch(j, p))

FairSpec == Spec /\ Fairness

-----------------------------------------------------------------------------
\* Type invariant.
TypeOK ==
    /\ jobs \in [Jobs -> Row]
    /\ queue \in [Jobs -> Seq(0 .. 3)]
    /\ running \in [Jobs -> Permits \cup {NoPermit}]
    /\ tasks \in [Permits -> Task]
    /\ pending \in [Jobs -> SUBSET (0 .. 3)]
    /\ cancels \in [Jobs -> Cancel]
    /\ shutting \in BOOLEAN
    /\ faults \in 0 .. MaxFaults
    /\ restarts \in 0 .. MaxRestarts
    /\ asked \in [Jobs -> BOOLEAN]

\* The running map is exact: it names, for every job, the one task that may
\* touch the job's record and tokens, so two workers never run for one job and
\* a signal never reaches the wrong work.
OneOwnerPerJob ==
    /\ \A p \in Permits : tasks[p].pc \in Owning =>
           tasks[p].job \in Jobs /\ running[tasks[p].job] = p
    /\ \A j \in Jobs : running[j] # NoPermit =>
           tasks[running[j]].pc \in Owning /\ tasks[running[j]].job = j

\* A job is queued at most once, although clients, automatic retries, manual
\* retries and failed starts all push.
QueuedOnce == \A j \in Jobs : Len(queue[j]) <= 1

\* While a worker runs, and until its outcome is written, the record says
\* running and counts this very attempt: no retry, reauthorization,
\* cancellation or other task moves it.  During a retry delay it says retrying.
WorkerOwnsItsRecord ==
    \A p \in Permits :
        LET t == tasks[p] IN
        /\ t.pc \in Working => /\ jobs[t.job].state = "Running"
                               /\ jobs[t.job].attempt = t.attempt
        /\ t.pc \in Waiting => /\ jobs[t.job].state = "Retrying"
                               /\ jobs[t.job].attempt = t.attempt

\* A job someone is still going to act on: it is queued, owned by a task, about
\* to be submitted, or about to be reconciled.
Attended(j) ==
    \/ j \in Owned
    \/ pending[j] # {}
    \/ \E p \in Permits : tasks[p].pc = "reconcile" /\ tasks[p].job = j
    \/ BeingCancelled(j)

\* While the store works and no shutdown has begun, a record that claims to be
\* in progress is in progress: no path of finish leaves it behind.
ActiveRecordsAreAttended ==
    (faults = 0 /\ ~shutting) =>
        \A j \in Jobs : jobs[j].state \in {"Running", "Retrying"} => Attended(j)

\* Before a shutdown or a restart, queued work that nobody asked to cancel is
\* never dropped from the scheduler's sight, whichever store call fails: a start
\* that fails for good puts its work back.  (An export that is reauthorized while
\* its blocked run is still leaving the running map is: its submit is taken for a
\* duplicate.)
QueuedWorkIsAttended ==
    (~shutting /\ restarts = 0) =>
        \A j \in Jobs : (jobs[j].state = "Queued" /\ ~asked[j] /\ Kind[j] # "FinalRender")
                            => Attended(j)

\* A cancelled job stays cancelled and a complete one complete, whatever a
\* stale queue entry, a late worker or a restart does with it.
SettledForGood ==
    [][\A j \in Jobs : jobs[j].state \in {"Cancelled", "Complete"} =>
           jobs'[j].state = jobs[j].state]_vars

\* Every start counts: a worker starts under an attempt number its record has not
\* seen since the last manual retry, whatever stale attempt a client submitted,
\* so a lifecycle never runs more workers than its attempts allow, across
\* automatic retries and restarts.  (Not so where a push can overtake the
\* submit that knows better: in a shutdown, under a cancellation, and for an
\* export that is reauthorized while an older submit of it is under way.)
AttemptsAdvance ==
    [][\A j \in Jobs :
           (/\ jobs[j].state # "Running" /\ jobs'[j].state = "Running"
            /\ ~shutting /\ ~asked[j] /\ Kind[j] # "FinalRender") =>
               jobs'[j].attempt > jobs[j].attempt]_vars

\* A cancellation that reached started work takes effect: once its task has been
\* signalled for a user, be it before, during or after the worker's return or in
\* a retry delay, the job is settled, or blocked if the worker had already asked
\* for that, unless the application is closing.
SignalledWorkSettles ==
    \A j \in Jobs :
        (\E p \in Permits : tasks[p].pc \in Working \cup Waiting /\ tasks[p].job = j /\ tasks[p].user)
            ~> (jobs[j].state \in Terminal \cup {"Blocked"} \/ shutting)

\* A retry delay ends: the job is queued again or cancelled.
RetryDelaysEnd ==
    \A j \in Jobs : jobs[j].state = "Retrying" ~> (jobs[j].state # "Retrying" \/ shutting)

-----------------------------------------------------------------------------
\* What the repository says of the scheduler and the code does not keep.

\* "cancellation_interrupts_each_automatic_retry_delay_without_requeue"
\* (scheduler.rs): once a cancellation is committed for a job and nobody is acting on
\* the job any more, it is settled, or blocked if its worker had asked for that.
\* A requeue after a retry delay overwrites the request it does not look for.
CancelledJobsSettle ==
    (faults = 0 /\ ~shutting) =>
        \A j \in Jobs : (asked[j] /\ ~Attended(j)) => jobs[j].state \in Terminal \cup {"Blocked"}
=============================================================================
