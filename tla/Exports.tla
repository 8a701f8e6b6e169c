------------------------------ MODULE Exports ------------------------------
(***************************************************************************)
(* The files of exports (render.rs, render_manifest.rs, render_qc.rs,      *)
(* delivery.rs) and the review that releases a delivery (review_record.rs). *)
(*                                                                         *)
(* An export is encoded into a partial file, judged, described by a        *)
(* manifest beside its destination and only then promoted; guards remove   *)
(* what a run has left when it is given up. Decisions of the user are      *)
(* appended to a record beside the output, each bound to the digests of    *)
(* output and manifest, and a delivery is gated by them. How jobs are      *)
(* queued, started and cancelled is in module MediaJobScheduler; here one  *)
(* export runs at a time, as there is one permit for encoding.             *)
(***************************************************************************)
EXTENDS Naturals, FiniteSets

CONSTANTS
  Jobs,        \* export jobs
  Paths,       \* destinations
  Contents,    \* states of the project (state hashes)
  Verdicts,    \* sets of blocking findings the checks of one run may end in
  Rights,      \* the findings that cannot be accepted
  None,
  MaxRuns,     \* bound: runs of a job
  MaxFaults    \* bound: crashes, failing writes, files removed from outside

ASSUME ExportsAssumption == MaxRuns \in Nat \ {0} /\ MaxFaults \in Nat

VARIABLES
  content,   \* the state of the open project
  job,       \* job[j]: None or [state, pc, run, path, overwrite, content, gate, verdict, cancelled]
  partial,   \* jobs whose partial file is there
  out,       \* out[p]: None or the run that made the output, <<job, run>>
  man,       \* man[p]: None or the manifest beside p
  side,      \* side[p]: None or the manifest the delivery files beside p belong to
  rec,       \* rec[p]: lines of the review record beside p
  aside,     \* lines of records that were moved aside
  call,      \* None or the decision that has been read for and is not yet written
  faults

vars == <<content, job, partial, out, man, side, rec, aside, call, faults>>

Init ==
  /\ content \in Contents
  /\ job = [j \in Jobs |-> None]
  /\ partial = {}
  /\ out = [p \in Paths |-> None] /\ man = [p \in Paths |-> None] /\ side = [p \in Paths |-> None]
  /\ rec = [p \in Paths |-> {}] /\ aside = {}
  /\ call = None
  /\ faults = 0

Fault == faults < MaxFaults /\ faults' = faults + 1

Bytes(j) == <<j, job[j].run>>
Running(j) == job[j] # None /\ job[j].state = "running"
At(j, pc) == Running(j) /\ job[j].pc = pc
To(j, pc) == job' = [job EXCEPT ![j].pc = pc]

\* A job that is complete or cancelled: nothing but its state is looked at again.
Settled(j, state) == [state |-> state, pc |-> "settled", run |-> job[j].run, path |-> None,
  overwrite |-> FALSE, content |-> None, gate |-> None, verdict |-> None, cancelled |-> FALSE]

\* A job that may be run again.
Waiting(record, state) == [record EXCEPT !.state = state, !.pc = "judge", !.verdict = None]

-----------------------------------------------------------------------------
(* The review record *)

\* A line: an acceptance of a finding, bound to the manifest it was read with.
Line(f, m) == [finding |-> f, manifest |-> m]

\* A line of which only a part was written.
Torn == Line(None, None)

\* Mutant: the digests of a line are not compared.
ReadableUnbound(p) ==
  /\ out[p] # None /\ man[p] # None /\ man[p].output = out[p]
  /\ \A l \in rec[p] : l # Torn /\ l.finding \in man[p].findings

\* read_review_state succeeds: the manifest is that of these bytes, and so is every line.
Readable(p) ==
  /\ out[p] # None /\ man[p] # None /\ man[p].output = out[p]
  /\ \A l \in rec[p] : l # Torn /\ l.manifest = man[p]

\* accepted_overrides, unresolved_blockers.
Accepted(p) == {l.finding : l \in rec[p]} \ Rights
Unresolved(findings, accepted) == findings \ (accepted \ Rights)

\* append_review_decision up to the write, for an accept-anyway.
ReadForDecision(p, f) ==
  /\ call = None
  /\ Readable(p) /\ f \in man[p].findings \ Rights
  /\ call' = [path |-> p, line |-> Line(f, man[p])]
  /\ UNCHANGED <<content, job, partial, out, man, side, rec, aside, faults>>

\* The line is appended, whatever stands beside the output by now; or only a part of it.
AppendDecision ==
  /\ call # None /\ call' = None
  /\ \/ rec' = [rec EXCEPT ![call.path] = @ \cup {call.line}] /\ UNCHANGED faults
     \/ rec' = [rec EXCEPT ![call.path] = @ \cup {Torn}] /\ Fault
  /\ UNCHANGED <<content, job, partial, out, man, side, aside>>

-----------------------------------------------------------------------------
(* Requests *)

NewJob(p, overwrite, gate) ==
  [state |-> "queued", pc |-> "judge", run |-> 0, path |-> p, overwrite |-> overwrite,
   content |-> content, gate |-> gate, verdict |-> None, cancelled |-> FALSE]

\* start_render_with_qc: a review export of the open revision.
StartReview(j, p, overwrite) ==
  /\ job[j] = None
  /\ overwrite \/ out[p] = None
  /\ job' = [job EXCEPT ![j] = NewJob(p, overwrite, None)]
  /\ UNCHANGED <<content, partial, out, man, side, rec, aside, call, faults>>

\* prepare_delivery: what was reviewed is what is open, and every blocker was accepted.
StartDelivery(j, source, p) ==
  /\ job[j] = None /\ p # source
  /\ Readable(source)
  /\ man[source].kind = "review" /\ man[source].content = content
  /\ Unresolved(man[source].findings, Accepted(source)) = {}
  /\ out[p] = None
  /\ job' = [job EXCEPT ![j] = NewJob(p, FALSE, [source |-> man[source], accepted |-> Accepted(source)])]
  /\ UNCHANGED <<content, partial, out, man, side, rec, aside, call, faults>>

\* cancel: queued and blocked jobs at once, a running one through its token, which a
\* promotion closes (commit_if_active).
Cancel(j) ==
  /\ job[j] # None /\ ~job[j].cancelled
  /\ \/ /\ job[j].state \in {"queued", "blocked"}
        /\ job' = [job EXCEPT ![j] = Settled(j, "cancelled")]
     \/ /\ Running(j) /\ job[j].pc # "promoted"
        /\ job' = [job EXCEPT ![j].cancelled = TRUE]
  /\ UNCHANGED <<content, partial, out, man, side, rec, aside, call, faults>>

\* reauthorize_final_render_output, of a failed job after require_fresh_output_authorization:
\* its own partial file is removed first.
Reauthorize(j) ==
  /\ job[j] # None /\ job[j].state \in {"blocked", "failed"}
  /\ partial' = partial \ {j}
  /\ IF job[j].overwrite \/ out[job[j].path] = None
     THEN job' = [job EXCEPT ![j].state = "queued"]
     ELSE j \in partial /\ UNCHANGED job
  /\ UNCHANGED <<content, out, man, side, rec, aside, call, faults>>

-----------------------------------------------------------------------------
(* A run: execute_render_worker *)

\* A run up to its encoding: create_owned_partial takes over no file that is there.
StartWork(j) ==
  /\ job[j] # None /\ job[j].state = "queued" /\ job[j].run < MaxRuns
  /\ \A k \in Jobs : ~Running(k)
  /\ j \notin partial /\ partial' = partial \cup {j}
  /\ job' = [job EXCEPT ![j].state = "running", ![j].pc = "judge", ![j].run = @ + 1]
  /\ UNCHANGED <<content, out, man, side, rec, aside, call, faults>>

Manifest(j, findings) ==
  [output |-> Bytes(j), content |-> job[j].content, findings |-> findings,
   kind |-> IF job[j].gate = None THEN "review" ELSE "delivery",
   source |-> IF job[j].gate = None THEN None ELSE job[j].gate.source]

\* The destination is looked at, the output is checked (evaluate_render), its preview made.
Judge(j, findings) ==
  /\ At(j, "judge")
  /\ job[j].overwrite \/ out[job[j].path] = None
  /\ job[j].gate # None => Unresolved(findings, job[j].gate.accepted) = {}
  /\ job' = [job EXCEPT ![j].pc = "manifest", ![j].verdict = Manifest(j, findings)]
  /\ UNCHANGED <<content, partial, out, man, side, rec, aside, call, faults>>

\* Mutant: a manifest that is there is left there.
WriteManifestOnce(j) ==
  /\ At(j, "manifest") /\ ~job[j].cancelled
  /\ man' = [man EXCEPT ![job[j].path] = IF @ = None THEN job[j].verdict ELSE @]
  /\ To(j, IF job[j].gate = None THEN "promote" ELSE "sidecars")
  /\ UNCHANGED <<content, partial, out, side, rec, aside, call, faults>>

\* write_manifest: replaces one only for an overwrite or when the output is gone.
WriteManifest(j) ==
  /\ At(j, "manifest") /\ ~job[j].cancelled
  /\ LET p == job[j].path IN
     /\ man[p] # None => job[j].overwrite \/ out[p] = None
     /\ man' = [man EXCEPT ![p] = job[j].verdict]
  /\ To(j, IF job[j].gate = None THEN "promote" ELSE "sidecars")
  /\ UNCHANGED <<content, partial, out, side, rec, aside, call, faults>>

\* write_delivery_sidecars, none of which may be there.  The thumbnail comes first and the
\* metadata last; side stands for the thumbnail, which a crash may leave alone and which
\* then keeps every later delivery out like all of them.
WriteSidecars(j) ==
  /\ At(j, "sidecars")
  /\ side[job[j].path] = None
  /\ side' = [side EXCEPT ![job[j].path] = job[j].verdict]
  /\ To(j, "promote")
  /\ UNCHANGED <<content, partial, out, man, rec, aside, call, faults>>

\* Mutant: the token is not asked.
PromoteAnyway(j) ==
  /\ At(j, "promote")
  /\ job[j].overwrite \/ out[job[j].path] = None
  /\ out' = [out EXCEPT ![job[j].path] = Bytes(j)]
  /\ partial' = partial \ {j}
  /\ To(j, "promoted")
  /\ UNCHANGED <<content, man, side, rec, aside, call, faults>>

\* promote_render_partial_if_active.
Promote(j) ==
  /\ At(j, "promote") /\ ~job[j].cancelled
  /\ job[j].overwrite \/ out[job[j].path] = None
  /\ out' = [out EXCEPT ![job[j].path] = Bytes(j)]
  /\ partial' = partial \ {j}
  /\ To(j, "promoted")
  /\ UNCHANGED <<content, man, side, rec, aside, call, faults>>

\* supersede_review_record for an overwrite, whose failure is not reported; the guards are
\* kept, and finish settles the job by its token.
Conclude(j) ==
  /\ At(j, "promoted")
  /\ LET p == job[j].path IN
     IF job[j].overwrite
     THEN \/ rec' = [rec EXCEPT ![p] = {}] /\ aside' = aside \cup rec[p] /\ UNCHANGED faults
          \/ rec[p] # {} /\ Fault /\ UNCHANGED <<rec, aside>>
     ELSE UNCHANGED <<rec, aside, faults>>
  /\ job' = [job EXCEPT ![j] = Settled(j, IF @.cancelled THEN "cancelled" ELSE "complete")]
  /\ UNCHANGED <<content, partial, out, man, side, call>>

\* The guards of a run that is given up remove what it has written.
Dropped(files, j, wrote) == IF job[j].pc \in wrote THEN [files EXCEPT ![job[j].path] = None] ELSE files

\* Mutant: the manifest is removed whether this run has written it or not.
GiveUpManifest(j) ==
  /\ Running(j) /\ job[j].pc # "promoted"
  /\ partial' = partial \ {j}
  /\ man' = [man EXCEPT ![job[j].path] = None]
  /\ side' = Dropped(side, j, {"promote"})
  /\ job' = [job EXCEPT ![j] = IF @.cancelled THEN Settled(j, "cancelled") ELSE Waiting(@, "failed")]
  /\ UNCHANGED <<content, out, rec, aside, call, faults>>

\* A program, a write or a check fails, or the cancellation is noticed: at any step before
\* the promotion. finish queues a transient failure again.
GiveUp(j) ==
  /\ Running(j) /\ job[j].pc # "promoted"
  /\ partial' = partial \ {j}
  /\ man' = Dropped(man, j, {"sidecars", "promote"})
  /\ side' = Dropped(side, j, {"promote"})
  /\ \E state \in {"failed", "queued"} :
       job' = [job EXCEPT ![j] = IF @.cancelled THEN Settled(j, "cancelled") ELSE Waiting(@, state)]
  /\ UNCHANGED <<content, out, rec, aside, call, faults>>

-----------------------------------------------------------------------------
(* The world *)

EditProject ==
  /\ content' \in Contents \ {content}
  /\ UNCHANGED <<job, partial, out, man, side, rec, aside, call, faults>>

\* The output is deleted by the user; what stands beside it stays.
DeleteOutput(p) ==
  /\ out[p] # None /\ out' = [out EXCEPT ![p] = None]
  /\ Fault
  /\ UNCHANGED <<content, job, partial, man, side, rec, aside, call>>

\* No guard runs; recovery blocks the exports that were queued or running.
Crash ==
  /\ job' = [j \in Jobs |->
               IF job[j] # None /\ job[j].state \in {"queued", "running"}
               THEN [Waiting(job[j], "blocked") EXCEPT !.cancelled = FALSE]
               ELSE job[j]]
  /\ call' = None
  /\ Fault
  /\ <<job, call>>' # <<job, call>>
  /\ UNCHANGED <<content, partial, out, man, side, rec, aside>>

Next ==
  \/ \E p \in Paths : DeleteOutput(p) \/ \E v \in Verdicts : \E f \in v : ReadForDecision(p, f)
  \/ AppendDecision
  \/ \E j \in Jobs :
       \/ \E p \in Paths : \/ \E overwrite \in BOOLEAN : StartReview(j, p, overwrite)
                           \/ \E source \in Paths : StartDelivery(j, source, p)
       \/ Cancel(j) \/ Reauthorize(j)
       \/ StartWork(j) \/ WriteManifest(j) \/ WriteSidecars(j) \/ Promote(j) \/ Conclude(j)
       \/ \E findings \in Verdicts : Judge(j, findings)
       \/ GiveUp(j)
  \/ EditProject \/ Crash

Spec == Init /\ [][Next]_vars

-----------------------------------------------------------------------------
(* Properties *)

\* What the files hold and what a job is.
Outputs == Jobs \X (1 .. MaxRuns)
Reviews == [output : Outputs, content : Contents, findings : Verdicts, kind : {"review"},
            source : {None}]
Deliveries == [output : Outputs, content : Contents, findings : Verdicts, kind : {"delivery"},
               source : Reviews]
Manifests == Reviews \cup Deliveries
Acceptances == [finding : UNION Verdicts, manifest : Manifests]
Gates == [source : Reviews, accepted : SUBSET UNION Verdicts]

Exporting == [state : {"queued", "running", "blocked", "failed"},
              pc : {"judge", "manifest", "sidecars", "promote", "promoted"}, run : 0 .. MaxRuns,
              path : Paths, overwrite : BOOLEAN, content : Contents, gate : {None} \cup Gates,
              verdict : {None} \cup Manifests, cancelled : BOOLEAN]
Ended == [state : {"complete", "cancelled"}, pc : {"settled"}, run : 0 .. MaxRuns, path : {None},
          overwrite : {FALSE}, content : {None}, gate : {None}, verdict : {None},
          cancelled : {FALSE}]

ASSUME NoneAssumption == None \notin Outputs \cup Manifests \cup Exporting \cup Ended

\* The types of the variables.
TypeOK ==
  /\ content \in Contents
  /\ job \in [Jobs -> {None} \cup Exporting \cup Ended]
  /\ partial \subseteq Jobs
  /\ out \in [Paths -> {None} \cup Outputs]
  /\ man \in [Paths -> {None} \cup Manifests] /\ side \in [Paths -> {None} \cup Manifests]
  /\ rec \in [Paths -> SUBSET (Acceptances \cup {Torn})]
  /\ aside \subseteq Acceptances \cup {Torn}
  /\ call \in {None} \cup [path : Paths, line : Acceptances]
  /\ faults \in 0 .. MaxFaults

\* Every line that was ever written.
Written == aside \cup UNION {rec[p] : p \in Paths}

\* A delivery is only ever described as such when each of its blocking findings was accepted
\* by a decision the user made on the very export it was derived from, none of them about
\* rights, and that export was a review of the same content; however often either was
\* exported, overwritten, deleted, interrupted or edited in between.
DeliveriesWereAccepted ==
  \A p \in Paths : man[p] # None /\ man[p].kind = "delivery" =>
    /\ man[p].source.kind = "review" /\ man[p].source.content = man[p].content
    /\ \A f \in man[p].findings :
         /\ f \notin Rights
         /\ Line(f, man[p].source) \in Written

\* An output only appears beside the manifest of its own checks, and a delivered one beside
\* its own thumbnail, captions and metadata.
PromotedAreDescribed ==
  [][\A p \in Paths : out'[p] \notin {out[p], None} =>
       /\ man[p] # None /\ man[p].output = out'[p]
       /\ man[p].kind = "delivery" => side[p] = man[p]]_vars

\* An export that was not asked to overwrite leaves every output that is there, and what
\* stands beside it, as it is: also one that appeared while it waited, failed, was cancelled,
\* or was resumed after a restart.
EarlierExportsAreKept ==
  [][\A p \in Paths : out[p] # None =>
       \/ out'[p] = None
       \/ <<out[p], man[p], side[p]>>' = <<out[p], man[p], side[p]>>
       \/ \E j \in Jobs : Running(j) /\ job[j].overwrite /\ job[j].path = p]_vars

\* A run that ends without success has not been promoted and leaves none of its files: a
\* cancellation either stops the promotion or comes too late to be answered as one.
UnsuccessfulRunsLeaveNothing ==
  [][\A j \in Jobs : Running(j) /\ job'[j].state \in {"cancelled", "failed", "queued"} =>
       LET p == job[j].path IN
       /\ j \notin partial'
       /\ out'[p] # Bytes(j)
       /\ man'[p] # None => man'[p].output # Bytes(j)
       /\ side'[p] # None => side'[p].output # Bytes(j)]_vars
=============================================================================
