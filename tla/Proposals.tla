----------------------------- MODULE Proposals -----------------------------
(***************************************************************************)
(* Edit proposals of agents and rules on an open project (proposal.rs,     *)
(* proposal_service.rs): their review, their application as one undoable   *)
(* group of commands and the restoring of the project to before them.      *)
(*                                                                         *)
(* The truth about what was applied is the project's journal; the store of *)
(* proposals is a second file beside it, which may miss a write or be lost *)
(* and is brought up to date from the journal whenever it is loaded. The   *)
(* journal is durable here (module ProjectJournal), undo and redo are      *)
(* exact (module ProjectHistory), and a state of the project is the list   *)
(* of the groups in it.                                                    *)
(***************************************************************************)
EXTENDS Naturals, Sequences, FiniteSets, SequencesExt

CONSTANTS
  Ids,           \* proposals
  Approvals,     \* Approvals[p]: groups the reviews of p may end in
  Edits,         \* groups of the user's own edits
  Operations,    \* operation ids of restores
  None,
  MaxHistory,    \* MAX_HISTORY_ENTRIES
  MaxOpen,       \* MAX_OPEN_PROPOSALS
  MaxResolved,   \* MAX_RESOLVED_PROPOSALS
  MaxDrift,      \* MAX_REVISION_DRIFT
  MaxRevision,   \* bound: revisions
  MaxFaults      \* bound: failing writes, losses of the store, crashes

ASSUME ProposalsAssumption ==
  /\ MaxHistory \in Nat \ {0} /\ MaxOpen \in Nat /\ MaxResolved \in Nat /\ MaxDrift \in Nat
  /\ MaxRevision \in Nat /\ MaxFaults \in Nat
  /\ None \notin Ids \cup Nat

VARIABLES
  journal,     \* records [op, group, proposal, state]: one a revision
  undo, redo,  \* groups that can be undone and redone
  store,       \* [proposals: sequence of [id, base, status, group], audit: sequence]
  made,        \* made[p]: the revision p was made for
  late,        \* proposals whose time is up
  lock,        \* the operation that holds the session between two of its writes
  faults

vars == <<journal, undo, redo, store, made, late, lock, faults>>

Empty == [proposals |-> <<>>, audit |-> <<>>]

Init ==
  /\ journal = <<>> /\ undo = <<>> /\ redo = <<>>
  /\ store = Empty
  /\ made = [p \in Ids |-> None] /\ late = {}
  /\ lock = None
  /\ faults = 0

-----------------------------------------------------------------------------
(* The project *)

Revision == Len(journal)
StateAt(r) == IF r = 0 THEN <<>> ELSE journal[r].state
Present == StateAt(Revision)

\* session.idempotency, also after the project was opened again.
Answered(op) == \E i \in DOMAIN journal : journal[i].op = op

PushBounded(xs, x) == Append(IF Len(xs) = MaxHistory THEN Tail(xs) ELSE xs, x)

Record(op, g, p, state) == [op |-> op, group |-> g, proposal |-> p, state |-> state]

\* Mutant: what was undone before can still be redone.
CommitKeepsRedo(g, p) ==
  /\ journal' = Append(journal, Record(<<g>>, g, p, Append(Present, g)))
  /\ undo' = PushBounded(undo, g)
  /\ UNCHANGED redo

\* commit_transition and finish_transition, with the proposal the group comes from.
Commit(g, p) ==
  /\ journal' = Append(journal, Record(<<g>>, g, p, Append(Present, g)))
  /\ undo' = PushBounded(undo, g)
  /\ redo' = <<>>

UndoStep(op) ==
  /\ undo # <<>>
  /\ journal' = Append(journal, Record(op, Last(undo), None, Front(Present)))
  /\ undo' = Front(undo)
  /\ redo' = PushBounded(redo, Last(undo))

Execute(g) ==
  /\ lock = None /\ Revision < MaxRevision /\ ~Answered(<<g>>)
  /\ Commit(g, None)
  /\ UNCHANGED <<store, made, late, lock, faults>>

Undo ==
  /\ lock = None /\ Revision < MaxRevision
  /\ UndoStep(<<>>)
  /\ UNCHANGED <<store, made, late, lock, faults>>

Redo ==
  /\ lock = None /\ Revision < MaxRevision
  /\ redo # <<>>
  /\ journal' = Append(journal, Record(<<>>, Last(redo), None, Append(Present, Last(redo))))
  /\ undo' = PushBounded(undo, Last(redo))
  /\ redo' = Front(redo)
  /\ UNCHANGED <<store, made, late, lock, faults>>

-----------------------------------------------------------------------------
(* The store *)

Open(x) == x.status = "pending"
OpenCount(s) == Cardinality({i \in DOMAIN s.proposals : Open(s.proposals[i])})
Places(s, p) == {i \in DOMAIN s.proposals : s.proposals[i].id = p}
HasStatus(s, p, status) == \E i \in Places(s, p) : s.proposals[i].status = status
WithStatus(s, p, status) ==
  [proposals |-> [i \in DOMAIN s.proposals |->
                    IF i \in Places(s, p) THEN [s.proposals[i] EXCEPT !.status = status] ELSE s.proposals[i]],
   audit |-> Append(s.audit, <<p, status>>)]

WithApplied(s, p, g) ==
  [proposals |-> [i \in DOMAIN s.proposals |->
                    IF i \in Places(s, p) THEN [s.proposals[i] EXCEPT !.status = "applied", !.group = g]
                                          ELSE s.proposals[i]],
   audit |-> Append(s.audit, <<p, "applied">>)]

\* Mutant: what is found in the journal is not written into the audit.
ReconciledUnaudited(s) ==
  FoldLeft(LAMBDA t, r : IF HasStatus(t, r.proposal, "pending")
                         THEN [WithApplied(t, r.proposal, r.group) EXCEPT !.audit = t.audit] ELSE t,
           s, journal)

\* reconcile_with_journal: a commit of a proposal that is still open.
ReconciledOne(s, r) ==
  IF ~HasStatus(s, r.proposal, "pending") THEN s
  ELSE IF Contains(s.audit, <<r.proposal, "applied">>)
       THEN [WithApplied(s, r.proposal, r.group) EXCEPT !.audit = s.audit]
       ELSE WithApplied(s, r.proposal, r.group)

Reconciled(s) == FoldLeft(ReconciledOne, s, journal)

\* refresh_open_proposals: its time is up, or the project has moved too far. (It is also
\* given up when the project has lost its base, which a durable journal rules out.)
RefreshedOne(s, x) ==
  IF Open(x) /\ (x.id \in late \/ Revision - x.base > MaxDrift)
  THEN WithStatus(s, x.id, "expired") ELSE s

Refreshed(s) == FoldLeft(RefreshedOne, s, s.proposals)

\* Mutant: the journal is not looked at.
SettledFromStore(s) == Refreshed(s)

\* Mutant: the proposals are given up before the journal is looked at.
SettledLate(s) == Reconciled(Refreshed(s))

\* load_settled_store.
Settled(s) == Refreshed(Reconciled(s))

\* save_proposal_store: the oldest of too many resolved proposals are dropped.
Pruned(s) ==
  LET resolved == {i \in DOMAIN s.proposals : ~Open(s.proposals[i])}
      excess == {i \in resolved : Cardinality({k \in resolved : k >= i}) > MaxResolved}
      kept == {i \in DOMAIN s.proposals : i \notin excess}
  IN [s EXCEPT !.proposals = [n \in 1 .. Cardinality(kept) |->
        s.proposals[CHOOSE i \in kept : Cardinality({k \in kept : k <= i}) = n]]]

Fault == faults < MaxFaults /\ faults' = faults + 1

\* A write replaces the file or leaves it.
Save(s) ==
  \/ store' = Pruned(s) /\ UNCHANGED faults
  \/ Fault /\ UNCHANGED store

-----------------------------------------------------------------------------
(* Operations on proposals *)

\* list_proposals, and the refusals that save what the load has settled.
List ==
  /\ lock = None
  /\ Settled(store) # store
  /\ Save(Settled(store))
  /\ UNCHANGED <<journal, undo, redo, made, late, lock>>

\* submit_proposal: validate_proposal accepts it for the revision it was made for.
Submit(p) ==
  /\ lock = None
  /\ made[p] \in {None, Revision} /\ made' = [made EXCEPT ![p] = Revision]
  /\ LET s == Settled(store) IN
     /\ Places(s, p) = {} /\ OpenCount(s) < MaxOpen
     /\ Save([s EXCEPT !.proposals = Append(@, [id |-> p, base |-> Revision, status |-> "pending", group |-> None])])
  /\ late' = late \ {p}
  /\ UNCHANGED <<journal, undo, redo, lock>>

\* reject_proposal ("rejected"), mark_proposal_stale ("stale").
Resolve(p, status) ==
  /\ lock = None
  /\ HasStatus(Settled(store), p, "pending")
  /\ Save(WithStatus(Settled(store), p, status))
  /\ UNCHANGED <<journal, undo, redo, made, late, lock>>

\* apply_proposal up to the record in the journal, which carries the audit. Before it
\* everything may fail and nothing is changed; a group that was applied is only answered.
Apply(p, g) ==
  /\ lock = None /\ Revision < MaxRevision
  /\ ~Answered(<<g>>)
  /\ HasStatus(Settled(store), p, "pending")
  /\ Commit(g, p)
  /\ lock' = [kind |-> "apply", store |-> WithApplied(Settled(store), p, g)]
  /\ UNCHANGED <<store, made, late, faults>>

\* The undo steps back to before the k-th group that can be undone, and where they end.
Steps(k) == Len(undo) - k + 1
Before(k) == SubSeq(Present, 1, Len(Present) - Steps(k))

\* The records of the commits that carry an audit of p.
CommitsOf(p) == {i \in DOMAIN journal : journal[i].proposal = p}

\* restore_before_proposal up to its first undo; the dry run must end in the state the
\* proposal was applied to.
StartRestore(p, op) ==
  /\ lock = None
  /\ ~Answered(<<op, 0>>)
  /\ \E i \in Places(Settled(store), p) :
       LET x == Settled(store).proposals[i] IN
       /\ x.status = "applied"
       /\ \E k \in DOMAIN undo :
            /\ undo[k] = x.group
            /\ \A c \in CommitsOf(p) : Before(k) = StateAt(c - 1)
            /\ Revision + Steps(k) <= MaxRevision
            /\ lock' = [kind |-> "restore", op |-> op, step |-> 0, steps |-> Steps(k),
                        store |-> WithStatus(Settled(store), p, "restored")]
  /\ UNCHANGED <<journal, undo, redo, store, made, late, faults>>

Restoring == lock # None /\ lock.kind = "restore"

\* history_step_locked.
RestoreStep ==
  /\ Restoring /\ lock.step < lock.steps
  /\ UndoStep(<<lock.op, lock.step>>)
  /\ lock' = [lock EXCEPT !.step = @ + 1]
  /\ UNCHANGED <<store, made, late, faults>>

\* A step whose record cannot be written: an error, and what was undone stays undone.
RestoreStepFails ==
  /\ Restoring /\ lock.step < lock.steps
  /\ lock' = None
  /\ Fault
  /\ UNCHANGED <<journal, undo, redo, store, made, late>>

\* The last write of an apply or a restore; its failure is not reported.
SaveOutcome ==
  /\ lock # None
  /\ Restoring => lock.step = lock.steps
  /\ Save(lock.store)
  /\ lock' = None
  /\ UNCHANGED <<journal, undo, redo, made, late>>

-----------------------------------------------------------------------------
(* The world *)

TimePasses(p) ==
  /\ Places(store, p) # {}
  /\ late' = late \cup {p} /\ p \notin late
  /\ UNCHANGED <<journal, undo, redo, store, made, lock, faults>>

\* The process ends; the project is opened again from its journal.
Crash ==
  /\ lock # None /\ lock' = None
  /\ Fault
  /\ UNCHANGED <<journal, undo, redo, store, made, late>>

\* load_proposal_store sets a store aside that it cannot read.
LoseStore ==
  /\ store # Empty /\ store' = Empty
  /\ Fault
  /\ UNCHANGED <<journal, undo, redo, made, late, lock>>

Next ==
  \/ \E g \in Edits : Execute(g)
  \/ Undo \/ Redo
  \/ List
  \/ \E p \in Ids : Submit(p) \/ TimePasses(p) \/ \E s \in {"rejected", "stale"} : Resolve(p, s)
  \/ \E p \in Ids : \E g \in Approvals[p] : Apply(p, g)
  \/ \E p \in Ids, op \in Operations : StartRestore(p, op)
  \/ RestoreStep \/ RestoreStepFails \/ SaveOutcome
  \/ Crash \/ LoseStore

Spec == Init /\ [][Next]_vars

-----------------------------------------------------------------------------
(* Properties *)

GroupOf(p) == journal[CHOOSE i \in CommitsOf(p) : TRUE].group

\* Whatever review is sent, sent again or answered too late, and whichever write of the
\* store is missing: the commands of a proposal enter the project at most once.
AppliedAtMostOnce == \A p \in Ids : Cardinality(CommitsOf(p)) <= 1

\* A proposal the store calls applied or restored has its commit in the journal, and one
\* it calls rejected, stale or expired has none: no later verdict is passed on a proposal
\* whose application the store has missed.
VerdictsAgreeWithJournal ==
  \A i \in DOMAIN store.proposals :
    LET x == store.proposals[i] IN
    /\ x.status \in {"applied", "restored"} => CommitsOf(x.id) # {} /\ x.group = GroupOf(x.id)
    /\ x.status \in {"rejected", "stale", "expired"} => CommitsOf(x.id) = {}

\* The audit ends, for every listed proposal, in the verdicts that made it what it is, and
\* tells of an application only once, also when it was found in the journal afterwards.
\* (A resolved proposal that was dropped from the list may be submitted once more.)
LastOf(audit, n, p) == \* the newest entry about p up to the n-th
  {i \in 1 .. n : audit[i][1] = p /\ \A k \in i + 1 .. n : audit[k][1] # p}
Ends(audit, n, p, status) == \E i \in LastOf(audit, n, p) : audit[i][2] = status
AuditTells(audit, x) ==
  LET n == Len(audit) IN
  /\ x.status # "pending" => Ends(audit, n, x.id, x.status)
  /\ x.status = "restored" => \A i \in LastOf(audit, n, x.id) : Ends(audit, i - 1, x.id, "applied")
AuditTellsVerdicts ==
  /\ \A i \in DOMAIN store.proposals : AuditTells(store.audit, store.proposals[i])
  /\ \A p \in Ids : Cardinality({n \in DOMAIN store.audit : store.audit[n] = <<p, "applied">>}) <= 1

\* A restore point holds as long as undo can reach it: whatever is committed, undone, redone
\* or dropped from the history after the application, and wherever a restore is cut off,
\* undoing the group and all above it leads to the very state it was applied to.
RestorePointsHold ==
  \A i \in DOMAIN store.proposals :
    LET x == store.proposals[i] IN
    x.status = "applied" =>
      \A k \in DOMAIN undo : undo[k] = x.group =>
        \A c \in CommitsOf(x.id) : Before(k) = StateAt(c - 1)
=============================================================================
