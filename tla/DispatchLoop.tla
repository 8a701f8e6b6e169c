---------------------------- MODULE DispatchLoop ----------------------------
(***************************************************************************)
(* How the scheduler comes to run what is queued, and how it comes to an   *)
(* end (jobs/scheduler.rs, MediaJobService::shutdown): the dispatch loop   *)
(* that checks and then waits on one Notify, the order in which it serves  *)
(* the queue, permits per resource, the count of active tasks, and the     *)
(* shutdown that waits for all of it. MediaJobScheduler has the records    *)
(* and takes for granted that what can be dispatched is.                   *)
(*                                                                         *)
(* A step is one section under the locks or one atomic operation. The wait *)
(* is split as in the code: the loop registers with the Notify, looks at   *)
(* the queue, and waits for a notification since it registered.            *)
(***************************************************************************)
EXTENDS Naturals, FiniteSets, SequencesExt

CONSTANTS
  Jobs,
  Resources,
  Resource,           \* resource a job's worker needs
  Permits,            \* permits of each resource
  Rank,               \* rank of a job's priority, 0 served first
  MaxStartFailures,   \* bound: starts that fail and put the work back
  MaxTasks            \* bound: tasks spawned and not yet at their end

ASSUME DispatchAssumption ==
  /\ Resource \in [Jobs -> Resources]
  /\ Permits \in [Resources -> Nat \ {0}]
  /\ Rank \in [Jobs -> Nat]
  /\ MaxStartFailures \in Nat /\ MaxTasks \in Nat \ {0}

VARIABLES
  queue,      \* jobs with queued work
  order,      \* jobs whose work is queued or not yet started, by sequence number
  rank,       \* rank of a job's queued work, promotions deducted
  work,       \* what the task that owns a job does, "none" without one
  cancelled,  \* jobs whose owning task has a cancelled token
  exits,      \* tasks that own no job any more, by stage and resource
  active,     \* active_count
  loop,       \* where run_loop is
  woken,      \* whether the loop was notified since it registered
  submitting, \* where a call of submit is, per job
  shutting,   \* shutting_down
  shutdown,   \* where MediaJobService::shutdown is
  failures    \* starts failed so far

vars == <<queue, order, rank, work, cancelled, exits, active, loop, woken,
          submitting, shutting, shutdown, failures>>

Running == {j \in Jobs : work[j] # "none"}

\* A task on its way out holds its permit and counts as active before the last stage.
ExitStages == {"requeued", "returns", "notify"}

PermitsHeld(r) == Cardinality({j \in Running : Resource[j] = r})
                    + exits["requeued"][r] + exits["returns"][r]

PendingNotifications == FoldSet(LAMBDA r, n : n + exits["notify"][r], 0, Resources)

Exits(from, to, r) ==
  [s \in ExitStages |-> [x \in Resources |->
     IF x = r /\ s = to THEN exits[s][x] + 1
     ELSE IF x = r /\ s = from THEN exits[s][x] - 1 ELSE exits[s][x]]]

\* notify_waiters: every registered waiter wakes.
NotifyWaiters == woken' = TRUE

\* A push with a new sequence number and the present time.
Push(j) ==
  /\ queue' = queue \cup {j}
  /\ order' = Append(order, j)
  /\ UNCHANGED rank

\* Work that was started or dropped has no place in the queue to come back to.
Forget(js) ==
  /\ order' = SelectSeq(order, LAMBDA j : j \notin js)
  /\ rank' = [j \in Jobs |-> IF j \in js THEN Rank[j] ELSE rank[j]]

\* queue_sort_key: the promoted rank first, then the sequence number.
Position(j) == CHOOSE i \in DOMAIN order : order[i] = j

\* Mutant: the rank is not promoted with age.
BeforeUnaged(i, j) ==
  \/ Rank[i] < Rank[j]
  \/ Rank[i] = Rank[j] /\ Position(i) < Position(j)

Before(i, j) ==
  \/ rank[i] < rank[j]
  \/ rank[i] = rank[j] /\ Position(i) < Position(j)

Dispatchable == {j \in queue \ Running : PermitsHeld(Resource[j]) < Permits[Resource[j]]}

-----------------------------------------------------------------------------
(* The dispatch loop *)

\* notified.enable() registers the loop before it looks at anything.
Register ==
  /\ loop = "register"
  /\ loop' = "check" /\ woken' = FALSE
  /\ UNCHANGED <<queue, order, rank, work, cancelled, exits, active, submitting, shutting, shutdown, failures>>

CheckShutdown ==
  /\ loop = "check"
  /\ loop' = IF shutting /\ active = 0 THEN "ended" ELSE "take"
  /\ UNCHANGED <<queue, order, rank, work, cancelled, exits, active, woken, submitting, shutting, shutdown, failures>>

\* take_dispatchable and the spawn that follows it.
TakeDispatchable ==
  /\ loop = "take"
  /\ active + PendingNotifications < MaxTasks
  /\ \E j \in Dispatchable :
       /\ \A i \in Dispatchable \ {j} : Before(j, i)
       /\ queue' = queue \ {j}
       /\ work' = [work EXCEPT ![j] = "start"]
  /\ active' = active + 1
  /\ loop' = "register"
  /\ UNCHANGED <<order, rank, cancelled, exits, woken, submitting, shutting, shutdown, failures>>

NothingToTake ==
  /\ loop = "take"
  /\ Dispatchable = {}
  /\ loop' = "wait"
  /\ UNCHANGED <<queue, order, rank, work, cancelled, exits, active, woken, submitting, shutting, shutdown, failures>>

Wake ==
  /\ loop = "wait" /\ woken
  /\ loop' = "register"
  /\ UNCHANGED <<queue, order, rank, work, cancelled, exits, active, woken, submitting, shutting, shutdown, failures>>

\* A further aging interval has passed since the work was pushed.
Age(j) ==
  /\ j \in queue
  /\ rank[j] > 0
  /\ rank' = [rank EXCEPT ![j] = @ - 1]
  /\ UNCHANGED <<queue, order, work, cancelled, exits, active, loop, woken, submitting, shutting, shutdown, failures>>

-----------------------------------------------------------------------------
(* A task: execute, then the end of what run_loop spawned *)

\* The task gives up the job and is left with the stages of its end.
Leaves(j, stage) ==
  /\ work' = [work EXCEPT ![j] = "none"]
  /\ exits' = Exits("none", stage, Resource[j])
  /\ cancelled' = cancelled \ {j}

StartWork(j) ==
  /\ work[j] = "start"
  /\ work' = [work EXCEPT ![j] = "work"]
  /\ Forget({j})
  /\ UNCHANGED <<queue, cancelled, exits, active, loop, woken, submitting, shutting, shutdown, failures>>

\* StartWorkDisposition::Discard: the record says that there is nothing to start.
DiscardStart(j) ==
  /\ work[j] = "start"
  /\ Forget({j})
  /\ Leaves(j, "returns")
  /\ UNCHANGED <<queue, active, loop, woken, submitting, shutting, shutdown, failures>>

\* requeue_after_start_failure: the work goes back as it was, with its sequence number
\* and its age; the notification comes after the locks.
RequeueAfterStartFailure(j) ==
  /\ work[j] = "start"
  /\ failures < MaxStartFailures
  /\ failures' = failures + 1
  /\ IF ~shutting /\ j \notin cancelled /\ j \notin queue
       THEN queue' = queue \cup {j} /\ Leaves(j, "requeued") /\ UNCHANGED <<order, rank>>
       ELSE Leaves(j, "returns") /\ Forget({j}) /\ UNCHANGED queue
  /\ UNCHANGED <<active, loop, woken, submitting, shutting, shutdown>>

NotifyRequeued(r) ==
  /\ exits["requeued"][r] > 0
  /\ exits' = Exits("requeued", "returns", r)
  /\ NotifyWaiters
  /\ UNCHANGED <<queue, order, rank, work, cancelled, active, loop, submitting, shutting, shutdown, failures>>

\* finish pushes an automatic retry at the end of its delay, unless the token was
\* cancelled or the scheduler shuts down. The job is still in the running map.
RetryWork(j) ==
  /\ work[j] = "work"
  /\ j \notin cancelled
  /\ ~shutting
  /\ Push(j)
  /\ work' = [work EXCEPT ![j] = "retried"]
  /\ UNCHANGED <<cancelled, exits, active, loop, woken, submitting, shutting, shutdown, failures>>

NotifyRetried(j) ==
  /\ work[j] = "retried"
  /\ work' = [work EXCEPT ![j] = "leave"]
  /\ NotifyWaiters
  /\ UNCHANGED <<queue, order, rank, cancelled, exits, active, loop, submitting, shutting, shutdown, failures>>

\* The worker is done and its record settled, or its token was cancelled.
LeaveRunning(j) ==
  /\ work[j] \in {"work", "leave"}
  /\ Leaves(j, "returns")
  /\ UNCHANGED <<queue, order, rank, active, loop, woken, submitting, shutting, shutdown, failures>>

\* execute returns, which drops the permit, and the task is counted off.
CountOff(r) ==
  /\ exits["returns"][r] > 0
  /\ exits' = Exits("returns", "notify", r)
  /\ active' = active - 1
  /\ UNCHANGED <<queue, order, rank, work, cancelled, loop, woken, submitting, shutting, shutdown, failures>>

\* Mutant: the end of a task is not announced.
NotifyEndSilently(r) ==
  /\ exits["notify"][r] > 0
  /\ exits' = Exits("notify", "gone", r)
  /\ UNCHANGED <<queue, order, rank, work, cancelled, active, loop, woken, submitting, shutting, shutdown, failures>>

NotifyEnd(r) ==
  /\ exits["notify"][r] > 0
  /\ exits' = Exits("notify", "gone", r)
  /\ NotifyWaiters
  /\ UNCHANGED <<queue, order, rank, work, cancelled, active, loop, submitting, shutting, shutdown, failures>>

-----------------------------------------------------------------------------
(* Clients *)

\* submit looks at the flag before it takes the locks.
Submit(j) ==
  /\ submitting[j] = "no"
  /\ ~shutting
  /\ submitting' = [submitting EXCEPT ![j] = "checked"]
  /\ UNCHANGED <<queue, order, rank, work, cancelled, exits, active, loop, woken, shutting, shutdown, failures>>

PushSubmitted(j) ==
  /\ submitting[j] = "checked"
  /\ IF j \in queue \cup Running
       THEN UNCHANGED <<queue, order, rank>> /\ submitting' = [submitting EXCEPT ![j] = "no"]
       ELSE Push(j) /\ submitting' = [submitting EXCEPT ![j] = "pushed"]
  /\ UNCHANGED <<work, cancelled, exits, active, loop, woken, shutting, shutdown, failures>>

NotifySubmitted(j) ==
  /\ submitting[j] = "pushed"
  /\ submitting' = [submitting EXCEPT ![j] = "no"]
  /\ NotifyWaiters
  /\ UNCHANGED <<queue, order, rank, work, cancelled, exits, active, loop, shutting, shutdown, failures>>

\* signal_cancellation takes a queued entry or cancels the token; it notifies nobody.
SignalCancellation(j) ==
  /\ j \in queue \cup Running
  /\ queue' = queue \ {j}
  /\ IF j \in queue THEN Forget({j}) /\ UNCHANGED cancelled
                     ELSE cancelled' = cancelled \cup {j} /\ UNCHANGED <<order, rank>>
  /\ UNCHANGED <<work, exits, active, loop, woken, submitting, shutting, shutdown, failures>>

\* shutdown of the service: the flag, the section under the locks, the notification,
\* the join of the loop, wait_idle, and the release of the session's leases. A call
\* that meets its deadline can be repeated.
ShutDown ==
  /\ shutdown = "no"
  /\ shutting' = TRUE
  /\ shutdown' = "clear"
  /\ UNCHANGED <<queue, order, rank, work, cancelled, exits, active, loop, woken, submitting, failures>>

ClearQueue ==
  /\ shutdown = "clear"
  /\ queue' = {}
  /\ Forget(queue)
  /\ cancelled' = cancelled \cup Running
  /\ shutdown' = "notify"
  /\ UNCHANGED <<work, exits, active, loop, woken, submitting, shutting, failures>>

NotifyShutdown ==
  /\ shutdown = "notify"
  /\ shutdown' = "join"
  /\ NotifyWaiters
  /\ UNCHANGED <<queue, order, rank, work, cancelled, exits, active, loop, submitting, shutting, failures>>

\* Mutant: the loop is not joined.
JoinNothing ==
  /\ shutdown = "join"
  /\ shutdown' = "idle"
  /\ UNCHANGED <<queue, order, rank, work, cancelled, exits, active, loop, woken, submitting, shutting, failures>>

JoinLoop ==
  /\ shutdown = "join" /\ loop = "ended"
  /\ shutdown' = "idle"
  /\ UNCHANGED <<queue, order, rank, work, cancelled, exits, active, loop, woken, submitting, shutting, failures>>

\* wait_idle finds the queue empty and no active task, under the same protocol.
ReleaseSession ==
  /\ shutdown = "idle" /\ queue = {} /\ active = 0
  /\ shutdown' = "released"
  /\ UNCHANGED <<queue, order, rank, work, cancelled, exits, active, loop, woken, submitting, shutting, failures>>

\* The loop has ended, so woken now serves the only waiter left.
WaitIdle ==
  /\ shutdown = "idle" /\ ~(queue = {} /\ active = 0)
  /\ shutdown' = "waiting" /\ woken' = FALSE
  /\ UNCHANGED <<queue, order, rank, work, cancelled, exits, active, loop, submitting, shutting, failures>>

WakeIdle ==
  /\ shutdown = "waiting" /\ woken
  /\ shutdown' = "idle"
  /\ UNCHANGED <<queue, order, rank, work, cancelled, exits, active, loop, woken, submitting, shutting, failures>>

MeetDeadline ==
  /\ shutdown \in {"join", "idle", "waiting"}
  /\ shutdown' = "no"
  /\ UNCHANGED <<queue, order, rank, work, cancelled, exits, active, loop, woken, submitting, shutting, failures>>

-----------------------------------------------------------------------------
Init ==
  /\ queue = {} /\ order = << >> /\ rank = Rank
  /\ work = [j \in Jobs |-> "none"] /\ cancelled = {}
  /\ exits = [s \in ExitStages |-> [r \in Resources |-> 0]]
  /\ active = 0 /\ loop = "register" /\ woken = FALSE
  /\ submitting = [j \in Jobs |-> "no"]
  /\ shutting = FALSE /\ shutdown = "no" /\ failures = 0

LoopStep == Register \/ CheckShutdown \/ TakeDispatchable \/ NothingToTake \/ Wake

OwningStep(j) ==
  \/ StartWork(j) \/ DiscardStart(j) \/ RequeueAfterStartFailure(j)
  \/ RetryWork(j) \/ NotifyRetried(j) \/ LeaveRunning(j)

ExitStep(r) == NotifyRequeued(r) \/ CountOff(r) \/ NotifyEnd(r)

SubmitStep(j) == PushSubmitted(j) \/ NotifySubmitted(j)

ShutdownStep == ClearQueue \/ NotifyShutdown \/ JoinLoop \/ ReleaseSession \/ WaitIdle \/ WakeIdle

Next ==
  \/ LoopStep \/ ShutDown \/ ShutdownStep \/ MeetDeadline
  \/ \E j \in Jobs : Age(j) \/ OwningStep(j) \/ Submit(j) \/ SubmitStep(j) \/ SignalCancellation(j)
  \/ \E r \in Resources : ExitStep(r)

\* A wait between registration and look is one step here: nothing else waits by then, and a
\* notification in between is not lost either way.
\* Spawned tasks and calls under way run on, time passes, and a worker returns in the end.
Fairness ==
  /\ WF_vars(LoopStep)
  /\ WF_vars(ShutdownStep)
  /\ \A j \in Jobs : WF_vars(OwningStep(j)) /\ WF_vars(SubmitStep(j)) /\ WF_vars(Age(j))
  /\ \A r \in Resources : WF_vars(ExitStep(r))

Spec == Init /\ [][Next]_vars
FairSpec == Spec /\ Fairness

-----------------------------------------------------------------------------
TypeOK ==
  /\ queue \subseteq Jobs
  /\ order \in Seq(Jobs)
  /\ rank \in [Jobs -> Nat]
  /\ work \in [Jobs -> {"none", "start", "work", "retried", "leave"}]
  /\ cancelled \subseteq Jobs
  /\ exits \in [ExitStages -> [Resources -> Nat]]
  /\ active \in Nat
  /\ loop \in {"register", "check", "take", "wait", "ended"}
  /\ woken \in BOOLEAN
  /\ submitting \in [Jobs -> {"no", "checked", "pushed"}]
  /\ shutting \in BOOLEAN
  /\ shutdown \in {"no", "clear", "notify", "join", "idle", "waiting", "released"}
  /\ failures \in Nat

\* The session's leases are released only when no worker is left that may still read what
\* they protect: no task owns a job and none will be started.
ReleasedOnlyWhenIdle ==
  shutdown = "released" => Running = {} /\ loop = "ended"

\* No wake-up is lost and aging beats priority: work that is queued is taken, or withdrawn,
\* however often other work is submitted, retried or put back; only a loop that has ended
\* leaves it.
QueuedWorkIsServed == \A j \in Jobs : j \in queue ~> (j \notin queue \/ loop = "ended")

\* A shutdown ends the loop: cancelled tasks end, their last notification is not lost, and
\* nothing that comes in late keeps it going.
ShutdownEndsTheLoop == shutting ~> loop = "ended"
=============================================================================
