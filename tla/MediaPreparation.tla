------------------------- MODULE MediaPreparation -------------------------
\* The preparation of an asset (video/derived.rs) over the scheduler: a call of
\* video_prepare_asset, or the resumption after a restart, drives one durable
\* parent job by its own transitions and leaves the two children to the
\* scheduler.  Drivers are plain futures: the scheduler does not know them, a
\* cancellation does not stop them, and two of them may drive the same parent.
EXTENDS MediaJobScheduler

CONSTANTS
    Prep,            \* the one preparation; a failed one is followed by a new
                     \* job, which shares nothing with it
    Role,            \* which of the two derived media a child builds
    Calls,           \* bound: calls of video_prepare_asset under way at once
    Recovery,        \* the one resumption after a start
    Cancellable      \* bound: the jobs whose cancellation users ask for

VARIABLES
    calls,           \* the drivers
    resume           \* the start-up has still to resume preparations

allVars == <<vars, calls, resume>>

Roles == {"Proxy", "Thumbnail"}

\* One family, and drivers of it.
PreparationAssumption ==
    /\ Prep \in Jobs /\ Kind[Prep] = "Preparation" /\ Parent[Prep] = NoJob
    /\ \A j \in Jobs \ {Prep} : Kind[j] = "Derived" /\ Parent[j] = Prep
    /\ Role \in [Jobs \ {Prep} -> Roles]
    /\ Cancellable \subseteq Jobs
    /\ Recovery \notin Calls

Drivers == Calls \cup {Recovery}

\* What the two drivers go on to do, in order.
Prepare == <<"unblock", "probe", "plan", "payload", "run",
             "enqueueProxy", "submitProxy", "enqueueThumbnail", "submitThumbnail",
             "awaitProxy", "progress", "awaitThumbnail", "complete">>

Resume == <<"enqueueProxy", "enqueueThumbnail", "run", "submitProxy", "submitThumbnail",
            "awaitProxy", "awaitThumbnail", "complete">>

Suffixes(s) == {SubSeq(s, i, Len(s)) : i \in 1 .. Len(s) + 1}

Plans == Suffixes(Prepare) \cup Suffixes(Resume) \cup {<<"settleFailed">>, <<"settleBlocked">>}

Enqueuing(role) == IF role = "Proxy" THEN "enqueueProxy" ELSE "enqueueThumbnail"
Submitting(role) == IF role = "Proxy" THEN "submitProxy" ELSE "submitThumbnail"
Awaiting(role) == IF role = "Proxy" THEN "awaitProxy" ELSE "awaitThumbnail"
SettlingAs(to) == IF to = "Failed" THEN "settleFailed" ELSE "settleBlocked"

\* A driver: what it has still to do, the attempt it read, each child as it read
\* it, and whether the parent was flagged when its last step was done.
Unread == [job |-> NoJob, state |-> "Absent", attempt |-> 0]

NoCall == [steps |-> <<>>, attempt |-> 0, saw |-> FALSE,
           child |-> [r \in Roles |-> Unread]]

CallRecord == [steps : Plans, attempt : 0 .. 4, saw : BOOLEAN,
               child : [Roles -> [job : Jobs \cup {NoJob}, state : States \cup {"Absent"},
                                  attempt : 0 .. 3]]]

At(d, step) == calls[d].steps # <<>> /\ Head(calls[d].steps) = step

Driven == \E d \in Drivers : calls[d].steps # <<>>

Goes(d, steps) == calls' = [calls EXCEPT ![d] =
                      IF steps = <<>> THEN NoCall
                      ELSE [@ EXCEPT !.steps = steps, !.saw = jobs'[Prep].cancel]]

Advance(d) == Goes(d, Tail(calls[d].steps))

\* An error a driver returns with `?`: a call gives up and leaves the parent as it
\* is, the resumption records the failure.
Abandon(d) == Goes(d, IF d = Recovery THEN <<"settleFailed">> ELSE <<>>)

\* A transition of the parent, which writes FALSE over its cancellation flag.
WriteParent(d, to, attempt) ==
    \/ /\ TransitionAllowed(jobs[Prep], to, attempt, MaxAttempts[Prep])
       /\ StoreOk
       /\ jobs' = [jobs EXCEPT ![Prep] = Transitioned(@, to, attempt, FALSE)]
       /\ Advance(d)
    \/ /\ \/ /\ \/ ~TransitionAllowed(jobs[Prep], to, attempt, MaxAttempts[Prep])
                \/ RefusedAsStale(jobs[Prep], calls[d].saw)
             /\ StoreOk
          \/ StoreFails
       /\ UNCHANGED jobs
       /\ Abandon(d)

OnlyParent == UNCHANGED <<queue, running, tasks, pending, cancels, shutting, restarts, resume>>

-----------------------------------------------------------------------------
\* prepare_asset_durable up to the parent's first transition.  A parent that is
\* complete, or driven by someone else, is only read; a settled one is not
\* a duplicate and gets a successor.
BeginPrepare(d) ==
    /\ calls[d].steps = <<>>
    /\ jobs[Prep].state \in {"Absent", "Queued", "Blocked"}
    /\ jobs' = IF jobs[Prep].state # "Absent" THEN jobs
               ELSE [jobs EXCEPT ![Prep] = [NoRow EXCEPT !.state = "Queued"]]
    /\ calls' = [calls EXCEPT ![d] =
           [NoCall EXCEPT !.attempt = jobs[Prep].attempt + 1, !.saw = jobs[Prep].cancel,
                          !.steps = IF jobs[Prep].state = "Blocked" THEN Prepare
                                    ELSE Tail(Prepare)]]
    /\ UNCHANGED <<asked, faults>> /\ OnlyParent

\* The blocked parent goes back to the queue under the attempt it has.
Unblock(d) ==
    /\ At(d, "unblock")
    /\ WriteParent(d, "Queued", jobs[Prep].attempt)
    /\ asked' = IF jobs'[Prep].state = "Queued" THEN Restarted(Prep) ELSE asked
    /\ OnlyParent

Probe(d) ==
    /\ At(d, "probe")
    /\ WriteParent(d, "Probing", calls[d].attempt)
    /\ UNCHANGED asked /\ OnlyParent

\* plan_asset_core inspects the source, and may fail in any category.
Plan(d) ==
    /\ At(d, "plan")
    /\ UNCHANGED <<jobs, asked, faults>> /\ OnlyParent
    /\ Advance(d) \/ Goes(d, <<"settleFailed">>) \/ Goes(d, <<"settleBlocked">>)

\* replace_private_payload: from now on a restart can resume the preparation.
StorePlan(d) ==
    /\ At(d, "payload")
    /\ \/ StoreOk /\ jobs' = [jobs EXCEPT ![Prep].ready = TRUE] /\ Advance(d)
       \/ StoreFails /\ UNCHANGED jobs /\ Abandon(d)
    /\ UNCHANGED asked /\ OnlyParent

\* The transitions to running and the progress between the children.
Run(d) ==
    /\ At(d, "run") \/ At(d, "progress")
    /\ WriteParent(d, "Running", jobs[Prep].attempt)
    /\ UNCHANGED asked /\ OnlyParent

\* The children the deduplication finds for a role.
Found(role) ==
    {c \in Children(Prep) : Role[c] = role /\ jobs[c].state \in Unsettled \cup {"Complete"}}

\* enqueue_preparation_child, under a parent in whatever state.
EnqueueChild(d, role) ==
    /\ At(d, Enqueuing(role))
    /\ \/ /\ StoreOk
          /\ \E c \in Children(Prep) :
                 /\ IF Found(role) # {} THEN c \in Found(role) /\ UNCHANGED jobs
                    ELSE /\ Role[c] = role
                         /\ jobs[c].state = "Absent"
                         /\ jobs' = [jobs EXCEPT ![c] = [NoRow EXCEPT !.state = "Queued",
                                                                      !.ready = TRUE]]
                 /\ calls' = [calls EXCEPT ![d] =
                        [steps |-> Tail(@.steps), attempt |-> @.attempt, saw |-> jobs'[Prep].cancel,
                         child |-> [@.child EXCEPT ![role] =
                             [job |-> c, state |-> jobs'[c].state, attempt |-> jobs'[c].attempt]]]]
       \/ StoreFails /\ UNCHANGED jobs /\ Abandon(d)
    /\ UNCHANGED asked /\ OnlyParent

\* The submit of a child that was queued when the driver read it.
SubmitChild(d, role) ==
    LET c == calls[d].child[role] IN
    /\ At(d, Submitting(role))
    /\ UNCHANGED <<jobs, running, tasks, pending, cancels, shutting, faults, restarts, asked,
                   resume>>
    /\ IF c.state # "Queued" THEN UNCHANGED queue /\ Advance(d)
       ELSE \/ shutting /\ UNCHANGED queue /\ Abandon(d)
            \/ /\ Advance(d)
               /\ IF c.job \in Owned THEN UNCHANGED queue ELSE Push(c.job, c.attempt)

\* Mutants: any settled child will do; the parent is left when a child stops.
AwaitSettled(d, role) ==
    LET c == calls[d].child[role] IN
    /\ At(d, Awaiting(role))
    /\ UNCHANGED <<jobs, asked>> /\ OnlyParent
    /\ \/ StoreOk /\ jobs[c.job].state \in Terminal /\ Advance(d)
       \/ StoreOk /\ jobs[c.job].state \notin Terminal /\ Goes(d, <<"settleFailed">>)

AwaitUnsettled(d, role) ==
    LET c == calls[d].child[role] IN
    /\ At(d, Awaiting(role))
    /\ UNCHANGED <<jobs, asked>> /\ OnlyParent
    /\ StoreOk
    /\ IF jobs[c.job].state = "Complete" THEN Advance(d) ELSE Goes(d, <<>>)

\* A child that was complete already the resumption validates by building it again
\* itself, which may fail.
BuildsAgain(d, role) == d = Recovery /\ calls[d].child[role].state = "Complete"

\* wait_for_job_result polls the child until it is complete, stopped or the driver's
\* patience is over.
Await(d, role) ==
    LET c == calls[d].child[role]
        GivesUp == calls' = [calls EXCEPT ![d] =
                       [NoCall EXCEPT !.steps = <<"settleFailed">>, !.saw = jobs[Prep].cancel]]
    IN
    /\ At(d, Awaiting(role))
    /\ UNCHANGED <<jobs, asked>> /\ OnlyParent
    /\ \/ StoreOk /\ jobs[c.job].state = "Complete" /\ Advance(d)
       \/ StoreOk /\ jobs[c.job].state # "Complete" /\ GivesUp
       \/ StoreOk /\ BuildsAgain(d, role) /\ GivesUp
       \/ StoreFails /\ GivesUp

CompleteParent(d) ==
    /\ At(d, "complete")
    /\ WriteParent(d, "Complete", jobs[Prep].attempt)
    /\ UNCHANGED asked /\ OnlyParent

\* settle_preparation_error and persist_preparation_recovery_failure: the driver
\* ends whether or not its last write is accepted.
SettleError(d, to) ==
    /\ At(d, SettlingAs(to))
    /\ \/ /\ TransitionAllowed(jobs[Prep], to, jobs[Prep].attempt, MaxAttempts[Prep])
          /\ StoreOk
          /\ jobs' = [jobs EXCEPT ![Prep] = Transitioned(@, to, @.attempt, FALSE)]
       \/ /\ \/ /\ \/ ~TransitionAllowed(jobs[Prep], to, jobs[Prep].attempt, MaxAttempts[Prep])
                   \/ RefusedAsStale(jobs[Prep], calls[d].saw)
                /\ StoreOk
             \/ StoreFails
          /\ UNCHANGED jobs
    /\ Goes(d, <<>>)
    /\ UNCHANGED asked /\ OnlyParent

\* Mutant: only what was running is resumed, which recovery leaves nowhere.
ResumeRunning ==
    /\ resume
    /\ resume' = FALSE
    /\ IF jobs[Prep].state # "Running" THEN UNCHANGED calls
       ELSE calls' = [calls EXCEPT ![Recovery] = [NoCall EXCEPT !.steps = Resume]]
    /\ UNCHANGED vars

\* resume_durable_preparations, once after every start: a queued preparation
\* whose plan was stored is resumed, one without a plan is failed.
ResumePreparation ==
    /\ resume
    /\ resume' = FALSE
    /\ IF jobs[Prep].state # "Queued" THEN UNCHANGED calls
       ELSE calls' = [calls EXCEPT ![Recovery] =
                [NoCall EXCEPT !.saw = jobs[Prep].cancel,
                               !.steps = IF jobs[Prep].ready THEN Resume ELSE <<"settleFailed">>]]
    /\ UNCHANGED vars

CallStep(d) ==
    \/ Unblock(d) \/ Probe(d) \/ Plan(d) \/ StorePlan(d) \/ Run(d)
    \/ \E role \in Roles : EnqueueChild(d, role) \/ SubmitChild(d, role) \/ Await(d, role)
    \/ CompleteParent(d)
    \/ \E to \in {"Failed", "Blocked"} : SettleError(d, to)

\* The scheduler beneath, and the users who cancel the family or retry a child.
SchedulerStep ==
    \/ \E j \in Cancellable : CancelBegin(j)
    \/ \E j \in Jobs : CancelStep(j) \/ RetryWithWorker(j)
    \/ \E j \in Jobs, p \in Permits : Dispatch(j, p)
    \/ \E p \in Permits : TaskStep(p)
    \/ Shutdown

PrepInit ==
    /\ Init
    /\ calls = [d \in Drivers |-> NoCall]
    /\ resume = FALSE

PrepRestart ==
    /\ Restart
    /\ calls' = [d \in Drivers |-> NoCall]
    /\ resume' = TRUE

PrepNext ==
    \/ \E d \in Calls : BeginPrepare(d)
    \/ ResumePreparation
    \/ \E d \in Drivers : CallStep(d)
    \/ SchedulerStep /\ UNCHANGED <<calls, resume>>
    \/ PrepRestart

PrepSpec == PrepInit /\ [][PrepNext]_allVars

\* Drivers, like tasks and cancellations, go on by themselves.
PrepFairness ==
    /\ Fairness
    /\ \A d \in Drivers : WF_allVars(CallStep(d))
    /\ WF_allVars(ResumePreparation)

PrepFairSpec == PrepSpec /\ PrepFairness

-----------------------------------------------------------------------------
\* Type invariant of the composition.
PrepTypeOK ==
    /\ TypeOK
    /\ calls \in [Drivers -> CallRecord]
    /\ resume \in BOOLEAN

\* A preparation is complete only with both of its derived media, whoever drove it
\* and whatever happened to the family in between.
CompletePreparationHasItsMedia ==
    jobs[Prep].state = "Complete" =>
        \A role \in Roles :
            \E c \in Children(Prep) : Role[c] = role /\ jobs[c].state = "Complete"

\* A child that holds back the cancellation of its parent: it is not settled yet, or
\* someone is still going to act on it and to look after the parent when done.
HoldsBack(c) == jobs[c].state \in Unsettled \/ Attended(c)

\* While the store works and no shutdown has begun, a preparation that claims to
\* be under way is driven, or it is flagged for cancellation and a cancellation
\* call, or a child, is still between it and its settlement: it is never left with
\* nothing to wait for.
ActivePreparationIsDriven ==
    (faults = 0 /\ ~shutting /\ jobs[Prep].state \in {"Probing", "Running"}) =>
        \/ Driven
        \/ /\ jobs[Prep].cancel
           /\ BeingCancelled(Prep) \/ \E c \in Children(Prep) : HoldsBack(c)

\* A preparation never stays under way for ever, and after a restart one whose plan
\* was stored is resumed: it is settled, blocked, or interrupted by a shutdown, a
\* failing store or a request to cancel it (for that case, see above).
PreparationsSettle ==
    (\/ jobs[Prep].state \in {"Probing", "Running"}
     \/ resume /\ jobs[Prep].state = "Queued" /\ jobs[Prep].ready) ~>
        (jobs[Prep].state \in Terminal \cup {"Blocked"} \/ asked[Prep] \/ shutting \/ faults > 0)

=============================================================================
