--------------------------- MODULE MediaJobModel ---------------------------
\* The durable media-job record and the rules every writer of it obeys
\* (video/jobs/model.rs, and the row updates of video/jobs/store.rs).
\*
\* A row is a record with the fields state, cancel (cancellation_requested),
\* attempt and ready (canonicalObjectAvailable in the private payload).
\* Stage, progress, error text, timestamps and the result document are left
\* out: the shape the error, settlement and result columns must have follows
\* the state alone.  Of the timestamps, one consequence is kept, and it is kept
\* by the callers: a transition is refused when the row was touched after
\* the transition's own time was taken.
EXTENDS Naturals

Terminal == {"Cancelled", "Failed", "Complete"}

Unsettled == {"Queued", "Probing", "Running", "Blocked", "Retrying"}

States == Terminal \cup Unsettled

\* "Absent": no row with this id has been inserted yet.  "Deleted": the row was
\* removed; ids are fresh UUIDs, so it never comes back.
Missing == {"Absent", "Deleted"}

Kinds == {"Preparation", "Derived", "FinalRender", "Analysis"}

CanTransitionTo(from, to) ==
    \/ from = "Queued"   /\ to \in {"Probing", "Running", "Blocked", "Cancelled", "Failed"}
    \/ from = "Probing"  /\ to \in {"Running", "Blocked", "Retrying", "Cancelled", "Failed"}
    \/ from = "Running"  /\ to \in {"Complete", "Blocked", "Retrying", "Cancelled", "Failed"}
    \/ from = "Retrying" /\ to \in {"Queued", "Blocked", "Cancelled", "Failed"}
    \/ from = "Blocked"  /\ to \in {"Queued", "Cancelled", "Failed"}
    \/ from = "Failed"   /\ to \in {"Queued", "Blocked", "Cancelled", "Failed"}

\* A settled row moves again only by an explicit retry of a failure.
Reactivation(from, to) == from = "Failed" /\ to \in {"Queued", "Blocked"}

\* transition_sync's guard: the row exists, the move is legal (staying in the
\* same state is), and the rewritten record passes validate's attempt rule.
TransitionAllowed(row, to, attempt, max) ==
    /\ row.state \notin Missing
    /\ row.state \in Terminal => Reactivation(row.state, to)
    /\ row.state # to => CanTransitionTo(row.state, to)
    /\ attempt <= max

\* transition_sync's update.  It writes the caller's cancellation flag over
\* whatever the row holds; every caller but the cleanup after a cancel passes
\* FALSE.
Transitioned(row, to, attempt, flag) ==
    [row EXCEPT !.state = to, !.attempt = attempt, !.cancel = flag]

\* Mutant: a request that comes after the settlement is recorded too.
CancelRequestedLate(row) == [row EXCEPT !.cancel = TRUE]

\* request_cancellations, one id of the transaction.
CancelRequested(row) ==
    IF row.state \in Unsettled THEN [row EXCEPT !.cancel = TRUE] ELSE row

\* Mutant: a parent is settled before its children.
ReconcilableTopDown(rows, id, children, owned) ==
    /\ rows[id].state \in Unsettled
    /\ rows[id].cancel
    /\ id \notin owned

\* reconcile_cancellation settles one row: nothing of the family below it is
\* unsettled or still owned by the scheduler, and neither is the row itself.
Reconcilable(rows, id, children, owned) ==
    /\ rows[id].state \in Unsettled
    /\ rows[id].cancel
    /\ id \notin owned
    /\ \A c \in children : rows[c].state \notin Unsettled /\ c \notin owned

\* The state column alone is rewritten (with its settlement columns): the flag
\* stays set and the attempt stays what it was.
Reconciled(row) == [row EXCEPT !.state = "Cancelled"]

\* Mutant: everything unfinished but queued or blocked, cancelled work included.
InterruptedOrCancelled(row, kind) ==
    \/ row.state \in {"Probing", "Running", "Retrying", "Cancelled"}
    \/ row.state = "Queued" /\ kind = "FinalRender"

\* select_interrupted_job_ids
Interrupted(row, kind) ==
    \/ row.state \in {"Probing", "Running", "Retrying"}
    \/ row.state = "Queued" /\ kind = "FinalRender"

\* recover_sync and update_recovered_job: work whose source is already in the
\* content-addressed cache resumes, the rest waits for a new authorization.
\* The cancellation flag is cleared, the attempt is kept.
Recovered(row, kind) ==
    IF ~Interrupted(row, kind) THEN row
    ELSE [row EXCEPT !.state = IF kind \in {"Preparation", "Derived"} /\ row.ready
                               THEN "Queued" ELSE "Blocked",
                     !.cancel = FALSE]

\* refresh_blocked_final_render: back to the queue, the flag cleared, the
\* attempt kept.
Refreshed(row) == [row EXCEPT !.state = "Queued", !.cancel = FALSE]

\* automatic_retry_delay: delays of 1, 5 and 30 seconds, then none.
HasRetryDelay(retryNumber) == retryNumber < 3

\* finish and RetryClassification::from_category: what the record becomes after
\* a worker's outcome that is not a cancellation.
SettledState(outcome, attempt, max) ==
    CASE outcome = "Complete"   -> "Complete"
      [] outcome = "Actionable" -> "Blocked"
      [] outcome = "Transient" /\ attempt < max -> "Retrying"
      [] OTHER -> "Failed"
=============================================================================
