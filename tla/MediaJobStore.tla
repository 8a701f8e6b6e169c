--------------------------- MODULE MediaJobStore ---------------------------
\* The durable job table of video/jobs/store.rs: one action per transaction,
\* as any client may call them in any order.  A transaction that returns an
\* error rolls back, so it is a step that changes nothing and is not an action.
EXTENDS MediaJobModel, FiniteSets

CONSTANTS
    Jobs,            \* ids; an id is a fresh UUID, so what a request binds to
    NoJob,           \* it never changes and is a function of the id:
    Kind,            \*   kind
    Key,             \*   dedupe_key
    Parent,          \*   parent_id, NoJob if none
    MaxAttempts,     \*   max_attempts
    UnsettledLimit,  \* MAX_UNSETTLED_JOBS
    RetainedLimit    \* MAX_RETAINED_SETTLED_JOBS

VARIABLES
    jobs,            \* table media_jobs
    latest,          \* the state in each job's newest row of media_job_events
    settlements      \* how many events report a settled state since the job was
                     \* created or last retried

vars == <<jobs, latest, settlements>>

\* Only preparations have children, and they have no parent themselves.
ASSUME JobAssumption ==
    /\ NoJob \notin Jobs
    /\ Kind \in [Jobs -> Kinds]
    /\ Parent \in [Jobs -> Jobs \cup {NoJob}]
    /\ \A j \in Jobs : Parent[j] # NoJob => Parent[Parent[j]] = NoJob
    /\ MaxAttempts \in [Jobs -> Nat \ {0}]

ASSUME LimitAssumption ==
    /\ IsFiniteSet(Jobs)
    /\ UnsettledLimit \in Nat
    /\ RetainedLimit \in Nat

Attempts == UNION {0 .. MaxAttempts[j] : j \in Jobs}

Row == [state : States \cup Missing, cancel : BOOLEAN, attempt : Attempts, ready : BOOLEAN]

NoRow == [state |-> "Absent", cancel |-> FALSE, attempt |-> 0, ready |-> FALSE]

Deleted == [NoRow EXCEPT !.state = "Deleted"]

Children(j) == {c \in Jobs : Parent[c] = j}

Present(rows) == {j \in Jobs : rows[j].state \notin Missing}

Settled(rows) == {j \in Jobs : rows[j].state \in Terminal}

Open(rows) == {j \in Jobs : rows[j].state \in Unsettled}

-----------------------------------------------------------------------------
\* DELETE FROM media_jobs: the rows, the children their foreign key cascades
\* to, and the events of both.
Without(rows, doomed) ==
    [j \in Jobs |-> IF rows[j].state \notin Missing /\ {j, Parent[j]} \cap doomed # {}
                    THEN Deleted ELSE rows[j]]

\* enforce_retention deletes the settled rows beyond the newest RetainedLimit.
\* Which are the oldest is the clock's business: rows settled within one
\* millisecond, or across a step back of the clock, come in any order.
Excess(rows) ==
    {doomed \in SUBSET Settled(rows) :
        Cardinality(Settled(rows) \ doomed) =
            IF Cardinality(Settled(rows)) <= RetainedLimit
            THEN Cardinality(Settled(rows)) ELSE RetainedLimit}

\* The event each rewritten row inserts in the same transaction; the events of a
\* deleted row go with it.
Announce(written) ==
    /\ latest' = [j \in Jobs |-> IF jobs'[j].state \in Missing THEN "Absent"
                                 ELSE IF j \in written THEN jobs'[j].state ELSE latest[j]]
    /\ settlements' = [j \in Jobs |->
           IF jobs'[j].state \in Missing THEN 0
           ELSE IF j \notin written THEN settlements[j]
           ELSE IF jobs'[j].state \in Terminal THEN settlements[j] + 1
           ELSE IF jobs[j].state \in Terminal THEN 0
           ELSE settlements[j]]

\* Commit of a transaction that wrote the rows of written and ran the
\* retention.
Commit(rows, written) ==
    \E doomed \in Excess(rows) :
        /\ jobs' = Without(rows, doomed)
        /\ Announce(written)

-----------------------------------------------------------------------------
Init ==
    /\ jobs = [j \in Jobs |-> NoRow]
    /\ latest = [j \in Jobs |-> "Absent"]
    /\ settlements = [j \in Jobs |-> 0]

\* find_deduplicated_job: a request is answered with the unsettled job of its
\* key, or with a completed one.
Duplicates(key) ==
    {d \in Jobs : Key[d] = key /\ jobs[d].state \in Unsettled \cup {"Complete"}}

\* enqueue_sync, no duplicate.
Enqueue(j, ready) ==
    /\ jobs[j].state = "Absent"
    /\ Duplicates(Key[j]) = {}
    /\ Cardinality(Open(jobs)) < UnsettledLimit
    /\ Parent[j] # NoJob => jobs[Parent[j]].state \notin Missing
    /\ jobs' = [jobs EXCEPT ![j] = [state |-> "Queued", cancel |-> FALSE,
                                    attempt |-> 0, ready |-> ready]]
    /\ Announce({j})

\* enqueue_sync, the duplicate is a blocked export and the request brings the
\* authorization it waits for.  Any other duplicate is returned unchanged.
Refresh(j) ==
    /\ Kind[j] = "FinalRender"
    /\ jobs[j].state = "Blocked"
    /\ Commit([jobs EXCEPT ![j] = Refreshed(@)], {j})

\* Mutant: no unique index.
NoIndex(rows, j) == TRUE

\* The unique index on the dedupe key of unsettled rows.
IndexAllows(rows, j) ==
    rows[j].state \in Unsettled =>
        \A d \in Jobs \ {j} : Key[d] = Key[j] => rows[d].state \notin Unsettled

\* transition_sync.  No caller asks for Cancelled; the flag is set only by the
\* cleanup of a cancelled worker, which keeps the state it found.
Transition(j, to, attempt, flag) ==
    LET rows == [jobs EXCEPT ![j] = Transitioned(@, to, attempt, flag)] IN
    /\ to # "Cancelled"
    /\ flag => to = jobs[j].state
    /\ TransitionAllowed(jobs[j], to, attempt, MaxAttempts[j])
    /\ IndexAllows(rows, j)
    /\ Commit(rows, {j})

\* record_progress_sync: stage and progress of a running job, no other column.
RecordProgress(j) ==
    /\ jobs[j].state = "Running"
    /\ ~jobs[j].cancel
    /\ Commit(jobs, {j})

\* request_cancellations: one transaction for a whole family; an unknown id
\* rolls all of it back.
RequestCancellations(family) ==
    /\ \A j \in family : jobs[j].state \notin Missing
    /\ jobs' = [j \in Jobs |-> IF j \in family THEN CancelRequested(jobs[j]) ELSE jobs[j]]
    /\ Announce({j \in family : jobs'[j] # jobs[j]})

\* reconcile_cancellation: the job, then its parent, in one transaction.
Settle(rows, j, owned) ==
    IF j # NoJob /\ Reconcilable(rows, j, Children(j), owned)
    THEN [rows EXCEPT ![j] = Reconciled(@)] ELSE rows

\* Mutant: the parent is settled without an event.
ReconcileParentSilently(j, owned) ==
    /\ jobs[j].state \notin Missing
    /\ jobs' = Settle(Settle(jobs, j, owned), Parent[j], owned)
    /\ Announce({k \in {j} : jobs'[k] # jobs[k]})

ReconcileCancellation(j, owned) ==
    /\ jobs[j].state \notin Missing
    /\ jobs' = Settle(Settle(jobs, j, owned), Parent[j], owned)
    /\ Announce({k \in Jobs : jobs'[k] # jobs[k]})

\* replace_private_payload: no event, and it may bring the canonical object.
ReplacePayload(j, ready) ==
    /\ jobs[j].state \notin Missing
    /\ jobs' = [jobs EXCEPT ![j].ready = ready]
    /\ UNCHANGED <<latest, settlements>>

\* remove_stale_completed_preparation: with its children, by the foreign key.
RemoveStaleCompleted(j) ==
    /\ Kind[j] = "Preparation"
    /\ jobs[j].state = "Complete"
    /\ jobs' = Without(jobs, {j})
    /\ Announce({})

\* recover_sync: every interrupted row, in one transaction, at start-up.
Recover ==
    Commit([j \in Jobs |-> Recovered(jobs[j], Kind[j])],
           {j \in Jobs : Interrupted(jobs[j], Kind[j])})

Next ==
    \/ \E j \in Jobs, ready \in BOOLEAN : Enqueue(j, ready)
    \/ \E j \in Jobs : Refresh(j)
    \/ \E j \in Jobs, to \in States, attempt \in Attempts, flag \in BOOLEAN :
           Transition(j, to, attempt, flag)
    \/ \E j \in Jobs : RecordProgress(j)
    \/ \E family \in SUBSET Jobs : RequestCancellations(family)
    \/ \E j \in Jobs, owned \in SUBSET Jobs : ReconcileCancellation(j, owned)
    \/ \E j \in Jobs, ready \in BOOLEAN : ReplacePayload(j, ready)
    \/ \E j \in Jobs : RemoveStaleCompleted(j)
    \/ Recover

Spec == Init /\ [][Next]_vars

-----------------------------------------------------------------------------
\* Type invariant of the table and its event log; an attempt stays within what
\* its own request allowed.
TypeOK ==
    /\ jobs \in [Jobs -> Row]
    /\ \A j \in Jobs : jobs[j].attempt <= MaxAttempts[j]
    /\ latest \in [Jobs -> States \cup {"Absent"}]
    /\ settlements \in [Jobs -> Nat]

\* Two requests for the same work never both own it: at most one unsettled row
\* carries a dedupe key, across new requests, reauthorizations, recoveries and
\* retries of old failures.
UniqueUnsettledKey ==
    \A i, j \in Open(jobs) : Key[i] = Key[j] => i = j

\* A client that replays the event log ends in the state of the record: no
\* writer changes a state without an event, and no event reports another state.
EventsMirrorRecord ==
    \A j \in Present(jobs) : latest[j] = jobs[j].state

\* "One terminal event" per lifecycle: a settled job was announced as settled
\* exactly once since it was created or last retried, an unsettled one never.
OneTerminalEvent ==
    \A j \in Present(jobs) : settlements[j] = IF jobs[j].state \in Terminal THEN 1 ELSE 0

\* Nothing ends as cancelled that nobody asked to cancel, although transitions,
\* recovery and reauthorization all rewrite the flag.
CancelledOnlyIfRequested ==
    \A j \in Present(jobs) : jobs[j].state = "Cancelled" => jobs[j].cancel

\* A child row never outlives its parent's.
NoOrphanRow ==
    \A j \in Present(jobs) : Parent[j] # NoJob => Parent[j] \in Present(jobs)

\* The limit on unsettled jobs can be exceeded, but only by retries of failures:
\* a new request never adds to a full table, and nothing else creates work.
OpenGrowsOnlyByRequestOrRetry ==
    [][\A j \in Jobs :
          (jobs[j].state \notin Unsettled /\ jobs'[j].state \in Unsettled) =>
              \/ jobs[j].state = "Failed"
              \/ /\ jobs[j].state = "Absent"
                 /\ Cardinality(Open(jobs)) < UnsettledLimit]_vars

\* A family is settled from the leaves: in the step that cancels a preparation
\* no child is left unsettled, whichever member the reconciliation started from.
FamilySettlesBottomUp ==
    [][\A j \in Jobs :
          (jobs[j].state # "Cancelled" /\ jobs'[j].state = "Cancelled") =>
              \A c \in Children(j) : jobs'[c].state \notin Unsettled]_vars

\* What was settled as cancelled or complete stays as it was settled: a request that
\* comes late, a recovery, a reconciliation, a transition or the settlement of a relative
\* changes neither its state, flag and attempt nor what the event log tells of it.
\* Only its payload may still be replaced, and the row removed: by the retention,
\* as a stale preparation, or with its parent.
CancelledAndCompleteAreFinal ==
    [][\A j \in Jobs : jobs[j].state \in {"Cancelled", "Complete"} =>
          \/ jobs'[j].state = "Deleted"
          \/ /\ jobs'[j] = [jobs[j] EXCEPT !.ready = jobs'[j].ready]
             /\ latest'[j] = latest[j]
             /\ settlements'[j] = settlements[j]]_vars
=============================================================================
