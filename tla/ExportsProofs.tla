--------------------------- MODULE ExportsProofs ---------------------------
(* The properties of module Exports for every number of jobs, destinations, *)
(* project states, findings, runs of a job and faults.                      *)
EXTENDS Exports, TLAPS

-----------------------------------------------------------------------------
(* The inductive invariant *)

\* A job is at a step only in one of its runs.
RunsAreCounted == \A j \in Jobs : Running(j) => job[j].run # 0

\* Findings that were accepted on a review, as some lines say.
Earned(findings, review, lines) ==
  \A f \in findings : f \notin Rights /\ Line(f, review) \in lines

EarnedManifest(m, lines) == m.kind = "delivery" =>
  m.source.kind = "review" /\ m.source.content = m.content /\ Earned(m.findings, m.source, lines)

\* What a job may write into a manifest, now or later, was accepted.
EarnedJob(record, lines) ==
  /\ record.verdict # None => EarnedManifest(record.verdict, lines)
  /\ record.gate # None => /\ record.gate.source.content = record.content
                           /\ Earned(record.gate.accepted, record.gate.source, lines)

JobsAreEarned == \A j \in Jobs : job[j] # None => EarnedJob(job[j], Written)

\* There is one permit.
Alone == \A j, k \in Jobs : Running(j) /\ Running(k) => j = k

\* What stands at the destination when a run has come to a step.
PreparedRun(j, record) ==
  /\ record.pc \in {"manifest", "sidecars", "promote"} =>
       /\ record.verdict # None /\ record.verdict.output = <<j, record.run>>
       /\ record.verdict.kind = "delivery" => record.gate # None
       /\ record.overwrite \/ out[record.path] = None
  /\ record.pc \in {"sidecars", "promote"} => man[record.path] = record.verdict
  /\ record.pc = "promote" /\ record.gate # None => side[record.path] = record.verdict
  /\ record.pc = "promoted" => ~record.cancelled

RunsArePrepared == \A j \in Jobs : Running(j) => PreparedRun(j, job[j])

\* The steps of a run until it has written a manifest, the delivery files, the output.
BeforeManifest == {"judge", "manifest"}
BeforeSidecars == BeforeManifest \cup {"sidecars"}
BeforePromotion == BeforeSidecars \cup {"promote"}

\* What run r of a job has written, the present one only behind these steps.
WrittenInRun(record, r, steps) ==
  IF record.state = "running" /\ record.pc \in steps THEN r < record.run ELSE r <= record.run

\* Every file was written by a run that was, and by the present one only in its order.
FilesAreOfRuns == \A j \in Jobs, r \in 1 .. MaxRuns, p \in Paths :
  /\ out[p] # None /\ out[p] = <<j, r>> => job[j] # None /\ WrittenInRun(job[j], r, BeforePromotion)
  /\ man[p] # None /\ man[p].output = <<j, r>> =>
       job[j] # None /\ WrittenInRun(job[j], r, BeforeManifest)
  /\ side[p] # None /\ side[p].output = <<j, r>> =>
       job[j] # None /\ WrittenInRun(job[j], r, BeforeSidecars)

-----------------------------------------------------------------------------
(* Types *)

Record == Exporting \cup Ended

\* What becomes of one job.
LEMMA JobMoves ==
  ASSUME TypeOK, RunsAreCounted, NEW j \in Jobs, NEW new \in Record,
         job' = [job EXCEPT ![j] = new],
         new.state = "running" => new.run # 0
  PROVE  job' \in [Jobs -> {None} \cup Record] /\ RunsAreCounted'
  BY DEF TypeOK, RunsAreCounted, Running, Record

LEMMA RunningIsExporting ==
  ASSUME TypeOK, NEW j \in Jobs, Running(j)
  PROVE  job[j] \in Exporting
  BY DEF TypeOK, Running, Ended

LEMMA SettledType ==
  ASSUME TypeOK, NEW j \in Jobs, job[j] # None, NEW state \in {"complete", "cancelled"}
  PROVE  Settled(j, state) \in Record /\ Settled(j, state).state = state
  <1>1. job[j].run \in 0 .. MaxRuns
    BY DEF TypeOK, Exporting, Ended
  <1> QED BY <1>1 DEF Settled, Record, Ended

LEMMA WaitingType ==
  ASSUME NEW e \in Exporting, NEW state \in {"queued", "blocked", "failed"}
  PROVE  Waiting(e, state) \in Exporting /\ Waiting(e, state).state = state
  BY DEF Waiting, Exporting

LEMMA StepType ==
  ASSUME NEW e \in Exporting, NEW pc \in {"judge", "manifest", "sidecars", "promote", "promoted"}
  PROVE  /\ [e EXCEPT !.pc = pc] \in Exporting
         /\ [e EXCEPT !.pc = pc].state = e.state
         /\ [e EXCEPT !.pc = pc].run = e.run
  BY DEF Exporting

LEMMA BytesType ==
  ASSUME TypeOK, RunsAreCounted, NEW j \in Jobs, Running(j)
  PROVE  Bytes(j) \in Outputs
  <1>1. job[j].run \in 0 .. MaxRuns /\ job[j].run # 0
    BY RunningIsExporting DEF Exporting, RunsAreCounted
  <1> QED BY <1>1, ExportsAssumption DEF Bytes, Outputs

LEMMA ManifestType ==
  ASSUME TypeOK, RunsAreCounted, NEW j \in Jobs, Running(j), NEW findings \in Verdicts
  PROVE  /\ Manifest(j, findings) \in Manifests
         /\ Manifest(j, findings).kind = "delivery" => job[j].gate # None
  <1>1. job[j] \in Exporting /\ Bytes(j) \in Outputs
    BY RunningIsExporting, BytesType
  <1>2. CASE job[j].gate = None
    <2>1. Manifest(j, findings) = [output |-> Bytes(j), content |-> job[j].content,
             findings |-> findings, kind |-> "review", source |-> None]
      BY <1>2 DEF Manifest
    <2> QED BY <1>1, <2>1 DEF Manifests, Reviews, Exporting
  <1>3. CASE job[j].gate # None
    <2>1. Manifest(j, findings) = [output |-> Bytes(j), content |-> job[j].content,
             findings |-> findings, kind |-> "delivery", source |-> job[j].gate.source]
      BY <1>3 DEF Manifest
    <2>2. job[j].gate.source \in Reviews /\ job[j].content \in Contents
      BY <1>1, <1>3 DEF Exporting, Gates
    <2> QED BY <1>1, <1>3, <2>1, <2>2 DEF Manifests, Deliveries
  <1> QED BY <1>2, <1>3

LEMMA InitType == Init => TypeOK /\ RunsAreCounted
  BY ExportsAssumption DEF Init, TypeOK, RunsAreCounted, Running

LEMMA AcceptanceType ==
  ASSUME NEW m \in Manifests, NEW f \in m.findings
  PROVE  Line(f, m) \in Acceptances
  <1>1. m.findings \in Verdicts
    BY DEF Manifests, Reviews, Deliveries
  <1> QED BY <1>1 DEF Line, Acceptances

LEMMA NewJobType ==
  ASSUME TypeOK, NEW p \in Paths, NEW overwrite \in BOOLEAN, NEW gate \in {None} \cup Gates
  PROVE  NewJob(p, overwrite, gate) \in Record /\ NewJob(p, overwrite, gate).state = "queued"
  BY ExportsAssumption DEF TypeOK, NewJob, Record, Exporting

\* What was accepted of a review that can be read was accepted by lines of its record.
LEMMA AcceptedIsWritten ==
  ASSUME TypeOK, NEW p \in Paths, Readable(p)
  PROVE  /\ man[p] \in Manifests
         /\ Accepted(p) \subseteq UNION Verdicts
         /\ \A f \in Accepted(p) : f \notin Rights /\ Line(f, man[p]) \in rec[p]
  <1>1. man[p] \in Manifests /\ rec[p] \subseteq Acceptances /\ \A l \in rec[p] : l.manifest = man[p]
    BY DEF TypeOK, Readable
  <1>2. ASSUME NEW f \in Accepted(p)
        PROVE  f \in UNION Verdicts /\ f \notin Rights /\ Line(f, man[p]) \in rec[p]
    <2>1. PICK l \in rec[p] : f = l.finding /\ f \notin Rights
      BY DEF Accepted
    <2>2. l \in Acceptances /\ l.manifest = man[p]
      BY <1>1, <2>1
    <2>3. l = Line(f, man[p]) /\ l.finding \in UNION Verdicts
      BY <2>1, <2>2 DEF Acceptances, Line
    <2> QED BY <2>1, <2>3
  <1> QED BY <1>1, <1>2

LEMMA ReviewsAreReviews ==
  ASSUME NEW m \in Manifests, m.kind = "review"
  PROVE  m \in Reviews
  BY DEF Manifests, Deliveries

\* The steps that change no job.
LEMMA QuietStepType ==
  ASSUME TypeOK, RunsAreCounted,
         \/ \E p \in Paths : DeleteOutput(p) \/ \E v \in Verdicts : \E f \in v : ReadForDecision(p, f)
         \/ AppendDecision \/ EditProject
  PROVE  TypeOK' /\ RunsAreCounted'
  <1>0. RunsAreCounted' /\ job' = job
    BY DEF RunsAreCounted, Running, DeleteOutput, ReadForDecision, AppendDecision, EditProject
  <1>1. ASSUME NEW p \in Paths, DeleteOutput(p) PROVE TypeOK'
    BY <1>1, ExportsAssumption DEF DeleteOutput, Fault, TypeOK
  <1>2. ASSUME NEW p \in Paths, NEW v \in Verdicts, NEW f \in v, ReadForDecision(p, f) PROVE TypeOK'
    <2>1. man[p] \in Manifests /\ f \in man[p].findings
      BY <1>2, AcceptedIsWritten DEF ReadForDecision
    <2>2. Line(f, man[p]) \in Acceptances
      BY <2>1, AcceptanceType
    <2> QED BY <1>2, <2>2 DEF ReadForDecision, TypeOK
  <1>3. ASSUME AppendDecision PROVE TypeOK'
    <2>1. call.path \in Paths /\ call.line \in Acceptances
      BY <1>3 DEF AppendDecision, TypeOK
    <2>2. rec' \in [Paths -> SUBSET (Acceptances \cup {Torn})]
      BY <1>3, <2>1 DEF AppendDecision, TypeOK
    <2>3. faults' \in 0 .. MaxFaults
      BY <1>3, ExportsAssumption DEF AppendDecision, Fault, TypeOK
    <2> QED BY <1>3, <2>2, <2>3 DEF AppendDecision, TypeOK
  <1>4. ASSUME EditProject PROVE TypeOK'
    BY <1>4 DEF EditProject, TypeOK
  <1> QED BY <1>0, <1>1, <1>2, <1>3, <1>4
\* The requests.
LEMMA RequestType ==
  ASSUME TypeOK, RunsAreCounted, NEW j \in Jobs,
         \/ \E p \in Paths : \/ \E overwrite \in BOOLEAN : StartReview(j, p, overwrite)
                             \/ \E source \in Paths : StartDelivery(j, source, p)
         \/ Cancel(j) \/ Reauthorize(j)
  PROVE  TypeOK' /\ RunsAreCounted'
  <1>1. ASSUME NEW p \in Paths, NEW overwrite \in BOOLEAN, StartReview(j, p, overwrite)
        PROVE  TypeOK' /\ RunsAreCounted'
    <2>1. NewJob(p, overwrite, None) \in Record /\ NewJob(p, overwrite, None).state = "queued"
      BY NewJobType
    <2>2. job' \in [Jobs -> {None} \cup Record] /\ RunsAreCounted'
      BY <1>1, <2>1, JobMoves DEF StartReview
    <2> QED BY <1>1, <2>2 DEF StartReview, TypeOK, Record
  <1>2. ASSUME NEW p \in Paths, NEW source \in Paths, StartDelivery(j, source, p)
        PROVE  TypeOK' /\ RunsAreCounted'
    <2> DEFINE gate == [source |-> man[source], accepted |-> Accepted(source)]
    <2>1. man[source] \in Reviews /\ Accepted(source) \subseteq UNION Verdicts
      BY <1>2, AcceptedIsWritten, ReviewsAreReviews DEF StartDelivery
    <2>2. gate \in Gates
      BY <2>1 DEF Gates
    <2>3. NewJob(p, FALSE, gate) \in Record /\ NewJob(p, FALSE, gate).state = "queued"
      BY <2>2, NewJobType
    <2>4. job' \in [Jobs -> {None} \cup Record] /\ RunsAreCounted'
      BY <1>2, <2>3, JobMoves DEF StartDelivery
    <2> QED BY <1>2, <2>4 DEF StartDelivery, TypeOK, Record
  <1>3. ASSUME Cancel(j)
        PROVE  TypeOK' /\ RunsAreCounted'
    <2>1. \E new \in Record : /\ job' = [job EXCEPT ![j] = new]
                              /\ new.state = "running" => new.run # 0
      <3>1. CASE Running(j)
        <4>1. [job[j] EXCEPT !.cancelled = TRUE] \in Record
          BY <3>1, RunningIsExporting DEF Exporting, Record
        <4>2. [job[j] EXCEPT !.cancelled = TRUE].run # 0
          BY <3>1, RunningIsExporting DEF Exporting, RunsAreCounted
        <4> QED BY <1>3, <3>1, <4>1, <4>2 DEF Cancel, Running
      <3>2. CASE ~Running(j)
        BY <1>3, <3>2, SettledType DEF Cancel
      <3> QED BY <3>1, <3>2
    <2>2. job' \in [Jobs -> {None} \cup Record] /\ RunsAreCounted'
      BY <2>1, JobMoves
    <2> QED BY <1>3, <2>2 DEF Cancel, TypeOK, Record
  <1>4. ASSUME Reauthorize(j)
        PROVE  TypeOK' /\ RunsAreCounted'
    <2>1. job' \in [Jobs -> {None} \cup Record] /\ RunsAreCounted'
      <3>1. CASE job' = job
        BY <3>1 DEF TypeOK, Record, RunsAreCounted, Running
      <3>2. CASE job' = [job EXCEPT ![j].state = "queued"]
        <4>1. job[j] \in Exporting
          BY <1>4 DEF Reauthorize, TypeOK, Ended
        <4>2. [job[j] EXCEPT !.state = "queued"] \in Record
              /\ [job[j] EXCEPT !.state = "queued"].state = "queued"
          BY <4>1 DEF Exporting, Record
        <4> QED BY <3>2, <4>2, JobMoves
      <3> QED BY <1>4, <3>1, <3>2 DEF Reauthorize
    <2>2. partial' \subseteq Jobs
      BY <1>4 DEF Reauthorize, TypeOK
    <2> QED BY <1>4, <2>1, <2>2 DEF Reauthorize, TypeOK, Record
  <1> QED BY <1>1, <1>2, <1>3, <1>4

\* A step of a run that moves on.
LEMMA StepsOn ==
  ASSUME TypeOK, RunsAreCounted, NEW j \in Jobs, Running(j),
         NEW pc \in {"manifest", "sidecars", "promote", "promoted"}, To(j, pc)
  PROVE  /\ job' \in [Jobs -> {None} \cup Record] /\ RunsAreCounted'
         /\ job'[j] = [job[j] EXCEPT !.pc = pc]
  <1>1. job[j] \in Exporting /\ job[j].run # 0
    BY RunningIsExporting DEF RunsAreCounted
  <1>2. [job[j] EXCEPT !.pc = pc] \in Record /\ [job[j] EXCEPT !.pc = pc].run # 0
    BY <1>1, StepType DEF Record
  <1>3. job' = [job EXCEPT ![j] = [job[j] EXCEPT !.pc = pc]]
    BY DEF To
  <1> QED BY <1>2, <1>3, JobMoves DEF TypeOK

\* The steps of a run.
LEMMA RunType ==
  ASSUME TypeOK, RunsAreCounted, NEW j \in Jobs,
         \/ StartWork(j) \/ WriteManifest(j) \/ WriteSidecars(j) \/ Promote(j) \/ Conclude(j)
         \/ \E findings \in Verdicts : Judge(j, findings)
         \/ GiveUp(j)
  PROVE  TypeOK' /\ RunsAreCounted'
  <1>1. ASSUME StartWork(j)
        PROVE  TypeOK' /\ RunsAreCounted'
    <2> DEFINE new == [job[j] EXCEPT !.state = "running", !.pc = "judge", !.run = @ + 1]
    <2>1. job[j] \in Exporting /\ job[j].run \in 0 .. MaxRuns /\ job[j].run < MaxRuns
      BY <1>1 DEF StartWork, TypeOK, Exporting, Ended
    <2>2. new \in Record /\ new.run # 0
      <3>1. job[j].run + 1 \in 0 .. MaxRuns /\ job[j].run + 1 # 0
        BY <2>1, ExportsAssumption
      <3>2. new = [job[j] EXCEPT !.state = "running", !.pc = "judge", !.run = job[j].run + 1]
        BY <2>1 DEF Exporting
      <3> QED BY <2>1, <3>1, <3>2 DEF Exporting, Record
    <2>3. job' = [job EXCEPT ![j] = new]
      BY <1>1 DEF StartWork
    <2>4. job' \in [Jobs -> {None} \cup Record] /\ RunsAreCounted'
      BY <2>2, <2>3, JobMoves
    <2> QED BY <1>1, <2>4 DEF StartWork, TypeOK, Record
  <1>2. ASSUME WriteManifest(j)
        PROVE  TypeOK' /\ RunsAreCounted'
    <2>1. Running(j) /\ job' \in [Jobs -> {None} \cup Record] /\ RunsAreCounted'
      BY <1>2, StepsOn DEF WriteManifest, At
    <2>2. job[j].path \in Paths /\ job[j].verdict \in {None} \cup Manifests
      BY <2>1, RunningIsExporting DEF Exporting
    <2>3. man' \in [Paths -> {None} \cup Manifests]
      BY <1>2, <2>2 DEF WriteManifest, TypeOK
    <2> QED BY <1>2, <2>1, <2>3 DEF WriteManifest, TypeOK, Record
  <1>3. ASSUME WriteSidecars(j)
        PROVE  TypeOK' /\ RunsAreCounted'
    <2>1. Running(j) /\ job' \in [Jobs -> {None} \cup Record] /\ RunsAreCounted'
      BY <1>3, StepsOn DEF WriteSidecars, At
    <2>2. job[j].path \in Paths /\ job[j].verdict \in {None} \cup Manifests
      BY <2>1, RunningIsExporting DEF Exporting
    <2>3. side' \in [Paths -> {None} \cup Manifests]
      BY <1>3, <2>2 DEF WriteSidecars, TypeOK
    <2> QED BY <1>3, <2>1, <2>3 DEF WriteSidecars, TypeOK, Record
  <1>4. ASSUME Promote(j)
        PROVE  TypeOK' /\ RunsAreCounted'
    <2>1. Running(j) /\ job' \in [Jobs -> {None} \cup Record] /\ RunsAreCounted'
      BY <1>4, StepsOn DEF Promote, At
    <2>2. job[j].path \in Paths /\ Bytes(j) \in Outputs
      BY <2>1, RunningIsExporting, BytesType DEF Exporting
    <2>3. out' \in [Paths -> {None} \cup Outputs] /\ partial' \subseteq Jobs
      BY <1>4, <2>2 DEF Promote, TypeOK
    <2> QED BY <1>4, <2>1, <2>3 DEF Promote, TypeOK, Record
  <1>5. ASSUME Conclude(j)
        PROVE  TypeOK' /\ RunsAreCounted'
    <2>1. Running(j)
      BY <1>5 DEF Conclude, At
    <2>2. \E new \in Record : job' = [job EXCEPT ![j] = new] /\ new.state # "running"
      BY <1>5, <2>1, SettledType DEF Conclude, Running
    <2>3. job' \in [Jobs -> {None} \cup Record] /\ RunsAreCounted'
      BY <2>2, JobMoves
    <2>4. job[j].path \in Paths
      BY <2>1, RunningIsExporting DEF Exporting
    <2>5. rec' \in [Paths -> SUBSET (Acceptances \cup {Torn})] /\ aside' \subseteq Acceptances \cup {Torn}
      BY <1>5, <2>4 DEF Conclude, TypeOK
    <2>6. faults' \in 0 .. MaxFaults
      BY <1>5, ExportsAssumption DEF Conclude, Fault, TypeOK
    <2> QED BY <1>5, <2>3, <2>5, <2>6 DEF Conclude, TypeOK, Record
  <1>6. ASSUME NEW findings \in Verdicts, Judge(j, findings)
        PROVE  TypeOK' /\ RunsAreCounted'
    <2> DEFINE new == [job[j] EXCEPT !.pc = "manifest", !.verdict = Manifest(j, findings)]
    <2>1. Running(j)
      BY <1>6 DEF Judge, At
    <2>2. job[j] \in Exporting /\ job[j].run # 0 /\ Manifest(j, findings) \in Manifests
      BY <2>1, RunningIsExporting, ManifestType DEF RunsAreCounted
    <2>3. new \in Record /\ new.run # 0
      BY <2>2 DEF Exporting, Record
    <2>4. job' = [job EXCEPT ![j] = new]
      BY <1>6 DEF Judge
    <2>5. job' \in [Jobs -> {None} \cup Record] /\ RunsAreCounted'
      BY <2>3, <2>4, JobMoves
    <2> QED BY <1>6, <2>5 DEF Judge, TypeOK, Record
  <1>7. ASSUME GiveUp(j)
        PROVE  TypeOK' /\ RunsAreCounted'
    <2>1. Running(j) /\ job[j] \in Exporting
      BY <1>7, RunningIsExporting DEF GiveUp
    <2>2. Settled(j, "cancelled") \in Record /\ Settled(j, "cancelled").state # "running"
      BY <2>1, SettledType DEF Running
    <2>3. PICK new \in Record : job' = [job EXCEPT ![j] = new] /\ new.state # "running"
      BY <1>7, <2>1, <2>2, WaitingType DEF GiveUp, Record
    <2>4. job' \in [Jobs -> {None} \cup Record] /\ RunsAreCounted'
      BY <2>3, JobMoves
    <2>5. /\ man' \in [Paths -> {None} \cup Manifests] /\ side' \in [Paths -> {None} \cup Manifests]
          /\ partial' \subseteq Jobs
      BY <1>7, <2>1 DEF GiveUp, Dropped, TypeOK, Exporting
    <2> QED BY <1>7, <2>4, <2>5 DEF GiveUp, TypeOK, Record
  <1> QED BY <1>1, <1>2, <1>3, <1>4, <1>5, <1>6, <1>7

\* What becomes of a job in a crash.
LEMMA CrashedJobs ==
  ASSUME TypeOK, Crash, NEW j \in Jobs
  PROVE  /\ job'[j] = job[j] \/ (job'[j] \in Exporting /\ job'[j].state = "blocked")
         /\ ~Running(j)'
  <1>1. CASE job[j] # None /\ job[j].state \in {"queued", "running"}
    <2>1. job[j] \in Exporting
      BY <1>1 DEF TypeOK, Ended
    <2>2. job'[j] = [Waiting(job[j], "blocked") EXCEPT !.cancelled = FALSE]
      BY <1>1 DEF Crash
    <2>3. job'[j] \in Exporting /\ job'[j].state = "blocked"
      <3> DEFINE waiting == Waiting(job[j], "blocked")
      <3>1. waiting \in Exporting /\ waiting.state = "blocked"
        BY <2>1, WaitingType
      <3> HIDE DEF waiting
      <3>2. [waiting EXCEPT !.cancelled = FALSE] \in Exporting
            /\ [waiting EXCEPT !.cancelled = FALSE].state = "blocked"
        BY <3>1 DEF Exporting
      <3> QED BY <2>2, <3>2 DEF waiting
    <2> QED BY <2>3 DEF Running
  <1>2. CASE ~(job[j] # None /\ job[j].state \in {"queued", "running"})
    <2>1. job'[j] = job[j]
      BY <1>2 DEF Crash
    <2>2. ~Running(j)
      BY <1>2 DEF Running
    <2> QED BY <2>1, <2>2 DEF Running
  <1> QED BY <1>1, <1>2

LEMMA CrashType ==
  ASSUME TypeOK, Crash
  PROVE  TypeOK' /\ RunsAreCounted'
  <1>1. job' = [j \in Jobs |-> job'[j]]
    BY DEF Crash
  <1>2. job' \in [Jobs -> {None} \cup Exporting \cup Ended]
    BY <1>1, CrashedJobs DEF TypeOK
  <1>3. RunsAreCounted'
    BY CrashedJobs DEF RunsAreCounted
  <1>4. faults' \in 0 .. MaxFaults
    BY ExportsAssumption DEF Crash, Fault, TypeOK
  <1> QED BY <1>2, <1>3, <1>4 DEF Crash, TypeOK

LEMMA TypeStep ==
  ASSUME TypeOK, RunsAreCounted, [Next]_vars
  PROVE  TypeOK' /\ RunsAreCounted'
  <1>1. CASE UNCHANGED vars
    BY <1>1 DEF vars, TypeOK, RunsAreCounted, Running
  <1>2. CASE Next
    BY <1>2, QuietStepType, RequestType, RunType, CrashType DEF Next
  <1> QED BY <1>1, <1>2

-----------------------------------------------------------------------------
(* Deliveries *)

LEMMA EarnedStays ==
  ASSUME NEW record, NEW lines, NEW more, lines \subseteq more, EarnedJob(record, lines)
  PROVE  EarnedJob(record, more)
  BY DEF EarnedJob, EarnedManifest, Earned

\* A line is moved aside but never removed.
LEMMA WrittenGrows ==
  ASSUME TypeOK, [Next]_vars
  PROVE  Written \subseteq Written'
  <1>1. ASSUME rec' = rec, aside' = aside PROVE Written \subseteq Written'
    BY <1>1 DEF Written
  <1>2. ASSUME AppendDecision PROVE Written \subseteq Written'
    <2>1. call.path \in Paths
      BY <1>2 DEF AppendDecision, TypeOK
    <2>2. \A p \in Paths : rec[p] \subseteq rec'[p]
      BY <1>2, <2>1 DEF AppendDecision, TypeOK
    <2> QED BY <1>2, <2>2 DEF AppendDecision, Written
  <1>3. ASSUME NEW j \in Jobs, Conclude(j) PROVE Written \subseteq Written'
    <2>1. CASE rec' = rec /\ aside' = aside
      BY <1>1, <2>1
    <2>2. CASE /\ rec' = [rec EXCEPT ![job[j].path] = {}]
               /\ aside' = aside \cup rec[job[j].path]
      <3>1. \A p \in Paths : p # job[j].path => rec'[p] = rec[p]
        BY <2>2 DEF TypeOK
      <3> QED BY <2>2, <3>1 DEF Written
    <2> QED BY <1>3, <2>1, <2>2 DEF Conclude
  <1> QED
    BY <1>1, <1>2, <1>3 DEF Next, vars, DeleteOutput, ReadForDecision, StartReview, StartDelivery,
       Cancel, Reauthorize, StartWork, WriteManifest, WriteSidecars, Promote, Judge, GiveUp,
       EditProject, Crash

\* The job that a step moves keeps what it was promised, or has nothing to keep.
LEMMA EarnedMoves ==
  ASSUME TypeOK, JobsAreEarned, Written \subseteq Written',
         NEW j \in Jobs, NEW new, job' = [job EXCEPT ![j] = new], EarnedJob(new, Written')
  PROVE  JobsAreEarned'
  <1>1. ASSUME NEW k \in Jobs, job'[k] # None PROVE EarnedJob(job'[k], Written')
    <2>1. CASE k = j
      BY <2>1 DEF TypeOK
    <2>2. CASE k # j
      <3>1. job'[k] = job[k] /\ EarnedJob(job[k], Written)
        BY <1>1, <2>2 DEF TypeOK, JobsAreEarned
      <3> QED BY <3>1, EarnedStays
    <2> QED BY <2>1, <2>2
  <1> QED BY <1>1 DEF JobsAreEarned, EarnedJob, EarnedManifest, Earned

LEMMA NothingToEarn ==
  ASSUME NEW j, NEW state, NEW lines
  PROVE  EarnedJob(Settled(j, state), lines)
  BY DEF Settled, EarnedJob

LEMMA EarnedWaiting ==
  ASSUME NEW e \in Exporting, NEW state, NEW lines, EarnedJob(e, lines)
  PROVE  EarnedJob(Waiting(e, state), lines)
  <1>1. /\ Waiting(e, state).verdict = None /\ Waiting(e, state).gate = e.gate
        /\ Waiting(e, state).content = e.content
    BY DEF Waiting, Exporting
  <1> QED BY <1>1 DEF EarnedJob

\* What a delivery is judged to have is within what was accepted.
LEMMA EarnedVerdict ==
  ASSUME TypeOK, JobsAreEarned, NEW j \in Jobs, NEW findings \in Verdicts, Judge(j, findings)
  PROVE  EarnedManifest(Manifest(j, findings), Written)
  <1>1. job[j] \in Exporting /\ EarnedJob(job[j], Written)
    BY RunningIsExporting DEF Judge, At, Running, JobsAreEarned
  <1>2. CASE job[j].gate = None
    BY <1>2 DEF Manifest, EarnedManifest
  <1>3. CASE job[j].gate # None
    <2>1. findings \subseteq job[j].gate.accepted
      BY <1>3 DEF Judge, Unresolved
    <2>2. job[j].gate.source \in Reviews /\ job[j].gate.source.content = job[j].content
          /\ Earned(findings, job[j].gate.source, Written)
      BY <1>1, <1>3, <2>1 DEF Exporting, Gates, EarnedJob, Earned
    <2>3. Manifest(j, findings).source = job[j].gate.source
          /\ Manifest(j, findings).content = job[j].content
          /\ Manifest(j, findings).findings = findings
      BY <1>3 DEF Manifest
    <2> QED BY <2>2, <2>3 DEF EarnedManifest, Reviews
  <1> QED BY <1>2, <1>3

LEMMA EarnedStep ==
  ASSUME TypeOK, RunsAreCounted, JobsAreEarned, [Next]_vars
  PROVE  JobsAreEarned'
  <1>0. Written \subseteq Written'
    BY WrittenGrows
  <1>1. ASSUME job' = job PROVE JobsAreEarned'
    <2>1. \A k \in Jobs : job[k] # None => EarnedJob(job[k], Written')
      BY <1>0, EarnedStays DEF JobsAreEarned
    <2> QED BY <1>1, <2>1 DEF JobsAreEarned, EarnedJob, EarnedManifest, Earned
  <1>2. ASSUME NEW j \in Jobs, NEW p \in Paths, NEW overwrite \in BOOLEAN, StartReview(j, p, overwrite)
        PROVE  JobsAreEarned'
    <2>1. EarnedJob(NewJob(p, overwrite, None), Written')
      BY DEF NewJob, EarnedJob
    <2> QED BY <1>0, <1>2, <2>1, EarnedMoves DEF StartReview
  <1>3. ASSUME NEW j \in Jobs, NEW p \in Paths, NEW source \in Paths, StartDelivery(j, source, p)
        PROVE  JobsAreEarned'
    <2> DEFINE gate == [source |-> man[source], accepted |-> Accepted(source)]
    <2>1. man[source].content = content /\ Earned(Accepted(source), man[source], Written')
      BY <1>0, <1>3, AcceptedIsWritten DEF StartDelivery, Earned, Written
    <2>2. EarnedJob(NewJob(p, FALSE, gate), Written')
      BY <2>1 DEF NewJob, EarnedJob
    <2> QED BY <1>0, <1>3, <2>2, EarnedMoves DEF StartDelivery
  <1>4. ASSUME NEW j \in Jobs, NEW new \in Exporting, job' = [job EXCEPT ![j] = new],
               job[j] # None, new.verdict = job[j].verdict, new.gate = job[j].gate,
               new.content = job[j].content
        PROVE  JobsAreEarned'
    <2>1. EarnedJob(job[j], Written')
      BY <1>0, <1>4, EarnedStays DEF JobsAreEarned
    <2>2. EarnedJob(new, Written')
      BY <1>4, <2>1 DEF EarnedJob
    <2> QED BY <1>0, <1>4, <2>2, EarnedMoves
  <1>5. ASSUME NEW j \in Jobs, NEW state, job' = [job EXCEPT ![j] = Settled(j, state)]
        PROVE  JobsAreEarned'
    BY <1>0, <1>5, NothingToEarn, EarnedMoves
  <1>6. ASSUME NEW j \in Jobs, Cancel(j) PROVE JobsAreEarned'
    <2>1. CASE Running(j)
      <3>1. job[j] \in Exporting /\ job' = [job EXCEPT ![j] = [job[j] EXCEPT !.cancelled = TRUE]]
        BY <1>6, <2>1, RunningIsExporting DEF Cancel, Running
      <3>2. [job[j] EXCEPT !.cancelled = TRUE] \in Exporting
        BY <3>1 DEF Exporting
      <3> QED BY <1>4, <1>6, <3>1, <3>2 DEF Cancel, Exporting
    <2>2. CASE ~Running(j)
      BY <1>5, <1>6, <2>2 DEF Cancel
    <2> QED BY <2>1, <2>2
  <1>7. ASSUME NEW j \in Jobs, Reauthorize(j) PROVE JobsAreEarned'
    <2>1. CASE job' = job
      BY <1>1, <2>1
    <2>2. CASE job' = [job EXCEPT ![j].state = "queued"]
      <3>1. job[j] # None /\ job[j] \in Exporting
        BY <1>7 DEF Reauthorize, TypeOK, Ended
      <3>2. [job[j] EXCEPT !.state = "queued"] \in Exporting
        BY <3>1 DEF Exporting
      <3> QED BY <1>4, <2>2, <3>1, <3>2 DEF Exporting
    <2> QED BY <1>7, <2>1, <2>2 DEF Reauthorize
  <1>8. ASSUME NEW j \in Jobs, StartWork(j) PROVE JobsAreEarned'
    <2> DEFINE new == [job[j] EXCEPT !.state = "running", !.pc = "judge", !.run = @ + 1]
    <2>1. job[j] # None /\ job[j] \in Exporting /\ job' = [job EXCEPT ![j] = new]
      BY <1>8 DEF StartWork, TypeOK, Ended
    <2>2. new.verdict = job[j].verdict /\ new.gate = job[j].gate /\ new.content = job[j].content
      BY <2>1 DEF Exporting
    <2>3. EarnedJob(job[j], Written')
      BY <1>0, <2>1, EarnedStays DEF JobsAreEarned
    <2>4. EarnedJob(new, Written')
      BY <2>2, <2>3 DEF EarnedJob
    <2> QED BY <1>0, <2>1, <2>4, EarnedMoves
  <1>9. ASSUME NEW j \in Jobs, Running(j), NEW pc \in {"manifest", "sidecars", "promote", "promoted"},
               To(j, pc)
        PROVE  JobsAreEarned'
    <2>1. job[j] \in Exporting
      BY <1>9, RunningIsExporting
    <2>2. [job[j] EXCEPT !.pc = pc] \in Exporting
      BY <2>1, StepType
    <2> QED BY <1>4, <1>9, <2>1, <2>2 DEF To, Running, Exporting
  <1>10. ASSUME NEW j \in Jobs, NEW findings \in Verdicts, Judge(j, findings) PROVE JobsAreEarned'
    <2> DEFINE new == [job[j] EXCEPT !.pc = "manifest", !.verdict = Manifest(j, findings)]
    <2>1. job[j] # None /\ job[j] \in Exporting /\ job' = [job EXCEPT ![j] = new]
      BY <1>10, RunningIsExporting DEF Judge, At, Running
    <2>2. new.verdict = Manifest(j, findings) /\ new.gate = job[j].gate /\ new.content = job[j].content
      BY <2>1 DEF Exporting
    <2>3. EarnedJob(job[j], Written) /\ EarnedManifest(Manifest(j, findings), Written)
      BY <1>10, <2>1, EarnedVerdict DEF JobsAreEarned
    <2>4. EarnedJob(new, Written)
      BY <2>2, <2>3 DEF EarnedJob
    <2> QED BY <1>0, <2>1, <2>4, EarnedStays, EarnedMoves
  <1>11. ASSUME NEW j \in Jobs, Conclude(j) PROVE JobsAreEarned'
    BY <1>5, <1>11 DEF Conclude
  <1>12. ASSUME NEW j \in Jobs, GiveUp(j) PROVE JobsAreEarned'
    <2>1. job[j] # None /\ job[j] \in Exporting
      BY <1>12, RunningIsExporting DEF GiveUp, Running
    <2>2. EarnedJob(job[j], Written')
      BY <1>0, <2>1, EarnedStays DEF JobsAreEarned
    <2>3. PICK state \in {"failed", "queued"} :
            job' = [job EXCEPT ![j] = IF job[j].cancelled THEN Settled(j, "cancelled")
                                                          ELSE Waiting(job[j], state)]
      BY <1>12 DEF GiveUp
    <2>4. CASE job[j].cancelled
      BY <1>5, <2>3, <2>4
    <2>5. CASE ~job[j].cancelled
      BY <1>0, <2>1, <2>2, <2>3, <2>5, EarnedWaiting, EarnedMoves
    <2> QED BY <2>4, <2>5
  <1>13. ASSUME Crash PROVE JobsAreEarned'
    <2>1. ASSUME NEW k \in Jobs, job'[k] # None PROVE EarnedJob(job'[k], Written')
      <3>1. CASE job[k] # None /\ job[k].state \in {"queued", "running"}
        <4> DEFINE waiting == Waiting(job[k], "blocked")
        <4>1. job[k] \in Exporting /\ EarnedJob(job[k], Written')
          BY <1>0, <3>1, EarnedStays DEF TypeOK, Ended, JobsAreEarned
        <4>2. waiting \in Exporting /\ EarnedJob(waiting, Written')
          BY <4>1, WaitingType, EarnedWaiting
        <4>3. job'[k] = [waiting EXCEPT !.cancelled = FALSE]
          BY <1>13, <3>1 DEF Crash
        <4> HIDE DEF waiting
        <4>4. job'[k].verdict = waiting.verdict /\ job'[k].gate = waiting.gate
              /\ job'[k].content = waiting.content
          BY <4>2, <4>3 DEF Exporting
        <4> QED BY <4>2, <4>4 DEF EarnedJob
      <3>2. CASE ~(job[k] # None /\ job[k].state \in {"queued", "running"})
        <4>1. job'[k] = job[k]
          BY <1>13, <3>2 DEF Crash
        <4> QED BY <1>0, <2>1, <4>1, EarnedStays DEF JobsAreEarned
      <3> QED BY <3>1, <3>2
    <2> QED BY <2>1 DEF JobsAreEarned, EarnedJob, EarnedManifest, Earned
  <1>14. CASE Next
    <2>1. ASSUME NEW j \in Jobs, WriteManifest(j) \/ WriteSidecars(j) \/ Promote(j)
          PROVE  JobsAreEarned'
      BY <1>9, <2>1 DEF WriteManifest, WriteSidecars, Promote, At
    <2>2. ASSUME \/ \E p \in Paths : DeleteOutput(p) \/ \E v \in Verdicts : \E f \in v : ReadForDecision(p, f)
                 \/ AppendDecision \/ EditProject
          PROVE  JobsAreEarned'
      BY <1>1, <2>2 DEF DeleteOutput, ReadForDecision, AppendDecision, EditProject
    <2> QED BY <1>2, <1>3, <1>6, <1>7, <1>8, <1>10, <1>11, <1>12, <1>13, <1>14, <2>1, <2>2 DEF Next
  <1> QED BY <1>1, <1>14 DEF vars
\* A manifest comes beside an output only from the job that was promised it.
LEMMA DeliveriesStep ==
  ASSUME TypeOK, RunsAreCounted, JobsAreEarned, DeliveriesWereAccepted, [Next]_vars
  PROVE  DeliveriesWereAccepted'
  <1>0. Written \subseteq Written'
    BY WrittenGrows
  <1>1. ASSUME \A p \in Paths : \/ man'[p] \in {man[p], None}
                                \/ man'[p] # None => EarnedManifest(man'[p], Written)
        PROVE  DeliveriesWereAccepted'
    BY <1>0, <1>1 DEF DeliveriesWereAccepted, EarnedManifest, Earned
  <1>2. ASSUME man' = man PROVE DeliveriesWereAccepted'
    BY <1>1, <1>2
  <1>3. ASSUME NEW j \in Jobs, WriteManifest(j) PROVE DeliveriesWereAccepted'
    <2>1. job[j] # None /\ job[j].path \in Paths
      BY <1>3, RunningIsExporting DEF WriteManifest, At, Running, Exporting
    <2>2. job[j].verdict # None => EarnedManifest(job[j].verdict, Written)
      BY <2>1 DEF JobsAreEarned, EarnedJob
    <2>3. \A p \in Paths : man'[p] = man[p] \/ man'[p] = job[j].verdict
      BY <1>3, <2>1 DEF WriteManifest, TypeOK
    <2> QED BY <1>1, <2>2, <2>3
  <1>4. ASSUME NEW j \in Jobs, GiveUp(j) PROVE DeliveriesWereAccepted'
    <2>1. \A p \in Paths : man'[p] \in {man[p], None}
      BY <1>4 DEF GiveUp, Dropped, TypeOK
    <2> QED BY <1>1, <2>1
  <1> QED
    BY <1>2, <1>3, <1>4 DEF Next, vars, DeleteOutput, ReadForDecision, StartReview, StartDelivery,
       Cancel, Reauthorize, StartWork, AppendDecision, WriteSidecars, Promote, Judge, Conclude,
       EditProject, Crash

-----------------------------------------------------------------------------
(* Runs and their files *)

\* A run goes forward, or a later one begins.
MovesOn(old, new) ==
  \/ new.run = old.run + 1
  \/ /\ new.run = old.run
     /\ new.state = "running" =>
          /\ old.state = "running"
          /\ \A steps \in {BeforeManifest, BeforeSidecars, BeforePromotion} :
               new.pc \in steps => old.pc \in steps

LEMMA JobMovesOn ==
  ASSUME TypeOK, NEW j \in Jobs, NEW k \in Jobs, job[k] # None,
         NEW new \in Record, job' = [job EXCEPT ![j] = new], MovesOn(job[j], new) \/ job[j] = None
  PROVE  job'[k] # None /\ MovesOn(job[k], job'[k])
  <1>1. CASE k = j
    BY <1>1, NoneAssumption DEF TypeOK, Record
  <1>2. CASE k # j
    <2>1. job'[k] = job[k]
      BY <1>2 DEF TypeOK
    <2> QED BY <2>1 DEF MovesOn
  <1> QED BY <1>1, <1>2

LEMMA SettledMovesOn ==
  ASSUME NEW j \in Jobs, NEW state \in {"complete", "cancelled"}
  PROVE  MovesOn(job[j], Settled(j, state))
  BY DEF MovesOn, Settled

LEMMA WaitingMovesOn ==
  ASSUME NEW e \in Exporting, NEW state \in {"queued", "blocked", "failed"}
  PROVE  MovesOn(e, Waiting(e, state))
  BY DEF MovesOn, Waiting, Exporting

LEMMA JobsMoveOn ==
  ASSUME TypeOK, RunsAreCounted, [Next]_vars, NEW k \in Jobs, job[k] # None
  PROVE  job'[k] # None /\ MovesOn(job[k], job'[k])
  <1>1. ASSUME job'[k] = job[k] PROVE job'[k] # None /\ MovesOn(job[k], job'[k])
    BY <1>1 DEF MovesOn
  <1>2. ASSUME NEW j \in Jobs, NEW p \in Paths, NEW overwrite \in BOOLEAN, StartReview(j, p, overwrite)
        PROVE  job'[k] = job[k]
    BY <1>2 DEF StartReview, TypeOK
  <1>3. ASSUME NEW j \in Jobs, NEW p \in Paths, NEW source \in Paths, StartDelivery(j, source, p)
        PROVE  job'[k] = job[k]
    BY <1>3 DEF StartDelivery, TypeOK
  <1>4. ASSUME NEW j \in Jobs, Cancel(j) PROVE job'[k] # None /\ MovesOn(job[k], job'[k])
    <2>1. CASE Running(j)
      <3> DEFINE new == [job[j] EXCEPT !.cancelled = TRUE]
      <3>1. job[j] \in Exporting /\ job' = [job EXCEPT ![j] = new]
        BY <1>4, <2>1, RunningIsExporting DEF Cancel, Running
      <3>2. new \in Record /\ MovesOn(job[j], new)
        BY <3>1 DEF Exporting, Record, MovesOn
      <3> QED BY <3>1, <3>2, JobMovesOn
    <2>2. CASE ~Running(j)
      BY <1>4, <2>2, SettledType, SettledMovesOn, JobMovesOn DEF Cancel
    <2> QED BY <2>1, <2>2
  <1>5. ASSUME NEW j \in Jobs, Reauthorize(j) PROVE job'[k] # None /\ MovesOn(job[k], job'[k])
    <2>1. CASE job' = job
      BY <1>1, <2>1
    <2>2. CASE job' = [job EXCEPT ![j].state = "queued"]
      <3>1. job[j] \in Exporting
        BY <1>5 DEF Reauthorize, TypeOK, Ended
      <3>2. [job[j] EXCEPT !.state = "queued"] \in Record
            /\ MovesOn(job[j], [job[j] EXCEPT !.state = "queued"])
        BY <3>1 DEF Exporting, Record, MovesOn
      <3> QED BY <2>2, <3>2, JobMovesOn
    <2> QED BY <1>5, <2>1, <2>2 DEF Reauthorize
  <1>6. ASSUME NEW j \in Jobs, StartWork(j) PROVE job'[k] # None /\ MovesOn(job[k], job'[k])
    <2> DEFINE new == [job[j] EXCEPT !.state = "running", !.pc = "judge", !.run = @ + 1]
    <2>1. job' = [job EXCEPT ![j] = new] /\ job[j] \in Exporting
      BY <1>6 DEF StartWork, TypeOK, Ended
    <2>2. MovesOn(job[j], new)
      BY <2>1 DEF MovesOn, Exporting
    <2>3. CASE k = j
      <3>1. job[j].run + 1 \in 0 .. MaxRuns
        BY <1>6, <2>1, ExportsAssumption DEF StartWork, Exporting
      <3>2. new = [job[j] EXCEPT !.state = "running", !.pc = "judge", !.run = job[j].run + 1]
        BY <2>1 DEF Exporting
      <3>3. new \in Record
        BY <2>1, <3>1, <3>2 DEF Exporting, Record
      <3> QED BY <2>1, <2>2, <3>3, JobMovesOn
    <2>4. CASE k # j
      BY <1>1, <2>1, <2>4 DEF TypeOK
    <2> QED BY <2>3, <2>4
  <1>7. ASSUME NEW j \in Jobs, NEW pc \in {"manifest", "sidecars", "promote", "promoted"},
               NEW from \in {"manifest", "sidecars", "promote"}, At(j, from), To(j, pc),
               <<from, pc>> \in {<<"manifest", "sidecars">>, <<"manifest", "promote">>,
                                 <<"sidecars", "promote">>, <<"promote", "promoted">>}
        PROVE  job'[k] # None /\ MovesOn(job[k], job'[k])
    <2>1. job[j] \in Exporting /\ job' = [job EXCEPT ![j] = [job[j] EXCEPT !.pc = pc]]
      BY <1>7, RunningIsExporting DEF At, To
    <2>2. [job[j] EXCEPT !.pc = pc] \in Record
      BY <2>1, StepType DEF Record
    <2>3. MovesOn(job[j], [job[j] EXCEPT !.pc = pc])
      BY <1>7, <2>1 DEF At, MovesOn, Exporting, BeforeManifest, BeforeSidecars, BeforePromotion
    <2> QED BY <2>1, <2>2, <2>3, JobMovesOn
  <1>8. ASSUME NEW j \in Jobs, NEW findings \in Verdicts, Judge(j, findings)
        PROVE  job'[k] # None /\ MovesOn(job[k], job'[k])
    <2> DEFINE new == [job[j] EXCEPT !.pc = "manifest", !.verdict = Manifest(j, findings)]
    <2>1. /\ job[j] \in Exporting /\ job' = [job EXCEPT ![j] = new]
          /\ Manifest(j, findings) \in Manifests
      BY <1>8, RunningIsExporting, ManifestType DEF Judge, At
    <2>2. new \in Record
      BY <2>1 DEF Exporting, Record
    <2>3. MovesOn(job[j], new)
      BY <1>8, <2>1 DEF Judge, At, MovesOn, Exporting, BeforeManifest, BeforeSidecars, BeforePromotion
    <2> QED BY <2>1, <2>2, <2>3, JobMovesOn
  <1>9. ASSUME NEW j \in Jobs, Conclude(j) PROVE job'[k] # None /\ MovesOn(job[k], job'[k])
    BY <1>9, SettledType, SettledMovesOn, JobMovesOn DEF Conclude, At, Running
  <1>10. ASSUME NEW j \in Jobs, GiveUp(j) PROVE job'[k] # None /\ MovesOn(job[k], job'[k])
    <2>1. job[j] # None /\ job[j] \in Exporting
      BY <1>10, RunningIsExporting DEF GiveUp, Running
    <2>2. \E new \in Record : job' = [job EXCEPT ![j] = new] /\ MovesOn(job[j], new)
      BY <1>10, <2>1, SettledType, SettledMovesOn, WaitingType, WaitingMovesOn DEF GiveUp, Record
    <2> QED BY <2>2, JobMovesOn
  <1>11. ASSUME Crash PROVE job'[k] # None /\ MovesOn(job[k], job'[k])
    <2>1. CASE job[k].state \in {"queued", "running"}
      <3> DEFINE waiting == Waiting(job[k], "blocked")
      <3>1. job[k] \in Exporting
        BY <2>1 DEF TypeOK, Ended
      <3>2. waiting \in Exporting /\ waiting.run = job[k].run
        BY <3>1, WaitingType DEF Waiting, Exporting
      <3>3. job'[k] = [waiting EXCEPT !.cancelled = FALSE]
        BY <1>11, <2>1 DEF Crash
      <3> HIDE DEF waiting
      <3>4. job'[k].run = job[k].run
        BY <3>2, <3>3 DEF Exporting
      <3>5. job'[k] \in Exporting /\ job'[k].state = "blocked"
        <4>1. waiting.state = "blocked"
          BY <3>1, WaitingType DEF waiting
        <4> QED BY <3>2, <3>3, <4>1 DEF Exporting
      <3> QED BY <3>4, <3>5, NoneAssumption DEF MovesOn
    <2>2. CASE job[k].state \notin {"queued", "running"}
      BY <1>1, <1>11, <2>2 DEF Crash
    <2> QED BY <2>1, <2>2
  <1>12. CASE Next
    <2>1. ASSUME NEW j \in Jobs, WriteManifest(j) \/ WriteSidecars(j) \/ Promote(j)
          PROVE  job'[k] # None /\ MovesOn(job[k], job'[k])
      BY <1>7, <2>1 DEF WriteManifest, WriteSidecars, Promote
    <2>2. ASSUME \/ \E p \in Paths : DeleteOutput(p) \/ \E v \in Verdicts : \E f \in v : ReadForDecision(p, f)
                 \/ AppendDecision \/ EditProject
          PROVE  job'[k] = job[k]
      BY <2>2 DEF DeleteOutput, ReadForDecision, AppendDecision, EditProject
    <2> QED BY <1>1, <1>2, <1>3, <1>4, <1>5, <1>6, <1>8, <1>9, <1>10, <1>11, <1>12, <2>1, <2>2 DEF Next
  <1> QED BY <1>1, <1>12 DEF vars
\* Only StartWork begins a run.
LEMMA RunsBeginWithWork ==
  ASSUME TypeOK, RunsAreCounted, [Next]_vars, ~\E j \in Jobs : StartWork(j),
         NEW k \in Jobs, Running(k)'
  PROVE  Running(k)
  <1>1. ASSUME NEW j \in Jobs, NEW p \in Paths, NEW overwrite \in BOOLEAN, StartReview(j, p, overwrite)
        PROVE  Running(k)
    BY <1>1 DEF StartReview, NewJob, TypeOK, Running
  <1>2. ASSUME NEW j \in Jobs, NEW p \in Paths, NEW source \in Paths, StartDelivery(j, source, p)
        PROVE  Running(k)
    BY <1>2 DEF StartDelivery, NewJob, TypeOK, Running
  <1>3. ASSUME NEW j \in Jobs, Cancel(j) PROVE Running(k)
    <2>1. CASE Running(j)
      BY <1>3, <2>1 DEF Cancel, TypeOK, Running
    <2>2. CASE ~Running(j)
      BY <1>3, <2>2 DEF Cancel, Settled, TypeOK, Running
    <2> QED BY <2>1, <2>2
  <1>4. ASSUME NEW j \in Jobs, Reauthorize(j) PROVE Running(k)
    <2>1. CASE k = j
      <3>1. job'[j] = job[j] \/ job'[j].state = "queued"
        <4>1. job[j] \in Exporting
          BY <1>4 DEF Reauthorize, TypeOK, Ended
        <4> QED BY <1>4, <4>1 DEF Reauthorize, TypeOK, Exporting
      <3> QED BY <2>1, <3>1 DEF Running
    <2>2. CASE k # j
      BY <1>4, <2>2 DEF Reauthorize, TypeOK, Running
    <2> QED BY <2>1, <2>2
  <1>5. ASSUME NEW j \in Jobs, Running(j), \A i \in Jobs : i # j => job'[i] = job[i]
        PROVE  Running(k)
    BY <1>5 DEF Running
  <1>6. ASSUME NEW j \in Jobs, NEW findings \in Verdicts, Judge(j, findings) PROVE Running(k)
    BY <1>5, <1>6 DEF Judge, At, TypeOK
  <1>7. ASSUME NEW j \in Jobs, WriteManifest(j) \/ WriteSidecars(j) \/ Promote(j) PROVE Running(k)
    BY <1>5, <1>7 DEF WriteManifest, WriteSidecars, Promote, At, To, TypeOK
  <1>8. ASSUME NEW j \in Jobs, Conclude(j) PROVE Running(k)
    BY <1>5, <1>8 DEF Conclude, At, TypeOK
  <1>9. ASSUME NEW j \in Jobs, GiveUp(j) PROVE Running(k)
    BY <1>5, <1>9 DEF GiveUp, TypeOK
  <1>10. ASSUME Crash PROVE FALSE
    BY <1>10, CrashedJobs
  <1>11. ASSUME job' = job PROVE Running(k)
    BY <1>11 DEF Running
  <1>12. ASSUME \/ \E p \in Paths : DeleteOutput(p) \/ \E v \in Verdicts : \E f \in v : ReadForDecision(p, f)
                \/ AppendDecision \/ EditProject
         PROVE  Running(k)
    BY <1>11, <1>12 DEF DeleteOutput, ReadForDecision, AppendDecision, EditProject
  <1> QED BY <1>1, <1>2, <1>3, <1>4, <1>6, <1>7, <1>8, <1>9, <1>10, <1>11, <1>12 DEF Next, vars

LEMMA AloneStep ==
  ASSUME TypeOK, RunsAreCounted, Alone, [Next]_vars
  PROVE  Alone'
  <1>1. CASE \E j \in Jobs : StartWork(j)
    <2>1. PICK j \in Jobs : StartWork(j)
      BY <1>1
    <2>2. \A k \in Jobs : k # j => ~Running(k)'
      BY <2>1 DEF StartWork, TypeOK, Running
    <2> QED BY <2>2 DEF Alone
  <1>2. CASE ~\E j \in Jobs : StartWork(j)
    BY <1>2, RunsBeginWithWork DEF Alone
  <1> QED BY <1>1, <1>2

\* What a run has found and written is still there at its next step: nobody else writes.
LEMMA PreparedStep ==
  ASSUME TypeOK, RunsAreCounted, Alone, RunsArePrepared, [Next]_vars
  PROVE  RunsArePrepared'
  <1> SUFFICES ASSUME NEW k \in Jobs, Running(k)'
               PROVE  PreparedRun(k, job[k])'
    BY DEF RunsArePrepared
  <1>1. CASE \E j \in Jobs : StartWork(j)
    <2>1. PICK j \in Jobs : StartWork(j)
      BY <1>1
    <2>2. k = j
      BY <2>1 DEF StartWork, TypeOK, Running
    <2>3. job'[k].pc = "judge"
      <3>1. job[j] \in Exporting
        BY <2>1 DEF StartWork, TypeOK, Ended
      <3> QED BY <2>1, <2>2, <3>1 DEF StartWork, TypeOK, Exporting
    <2> QED BY <2>3 DEF PreparedRun
  <1>2. CASE ~\E j \in Jobs : StartWork(j)
    <2>0. /\ Running(k) /\ job[k] # None /\ job[k] \in Exporting /\ PreparedRun(k, job[k])
          /\ \A j \in Jobs : Running(j) => j = k
      <3>1. Running(k)
        BY <1>2, RunsBeginWithWork
      <3> QED BY <3>1, RunningIsExporting DEF RunsArePrepared, Alone, Running
    <2>1. ASSUME job'[k] = job[k], man' = man, side' = side,
                 \A p \in Paths : out'[p] \in {out[p], None}
          PROVE  PreparedRun(k, job[k])'
      BY <2>0, <2>1 DEF PreparedRun, Exporting
    <2>2. ASSUME NEW j \in Jobs,
                 \E p \in Paths : \/ \E overwrite \in BOOLEAN : StartReview(j, p, overwrite)
                                  \/ \E source \in Paths : StartDelivery(j, source, p)
          PROVE  PreparedRun(k, job[k])'
      BY <2>0, <2>1, <2>2 DEF StartReview, StartDelivery, TypeOK
    <2>3. ASSUME NEW j \in Jobs, Cancel(j) PROVE PreparedRun(k, job[k])'
      <3>1. CASE j = k
        <4>1. job'[k] = [job[k] EXCEPT !.cancelled = TRUE] /\ job[k].pc # "promoted"
              /\ UNCHANGED <<out, man, side>>
          BY <2>0, <2>3, <3>1 DEF Cancel, TypeOK, Running
        <4> QED BY <2>0, <4>1 DEF PreparedRun, Exporting
      <3>2. CASE j # k
        BY <2>1, <2>3, <3>2 DEF Cancel, TypeOK
      <3> QED BY <3>1, <3>2
    <2>4. ASSUME NEW j \in Jobs, Reauthorize(j) PROVE PreparedRun(k, job[k])'
      <3>1. j # k
        BY <2>0, <2>4 DEF Reauthorize, Running
      <3> QED BY <2>1, <2>4, <3>1 DEF Reauthorize, TypeOK
    <2>5. ASSUME NEW j \in Jobs, NEW findings \in Verdicts, Judge(j, findings)
          PROVE  PreparedRun(k, job[k])'
      <3>1. j = k /\ Manifest(k, findings) \in Manifests
            /\ (Manifest(k, findings).kind = "delivery" => job[k].gate # None)
        BY <2>0, <2>5, ManifestType DEF Judge, At
      <3>2. /\ job'[k] = [job[k] EXCEPT !.pc = "manifest", !.verdict = Manifest(k, findings)]
            /\ job[k].overwrite \/ out[job[k].path] = None
            /\ UNCHANGED <<out, man, side>>
        BY <2>5, <3>1 DEF Judge, TypeOK
      <3>3. Manifest(k, findings) # None /\ Manifest(k, findings).output = <<k, job[k].run>>
        BY <3>1, NoneAssumption DEF Manifest, Bytes
      <3> QED BY <2>0, <3>1, <3>2, <3>3 DEF PreparedRun, Exporting
    <2>6. ASSUME NEW j \in Jobs, WriteManifest(j) PROVE PreparedRun(k, job[k])'
      <3>1. j = k
        BY <2>0, <2>6 DEF WriteManifest, At
      <3>2. PICK pc \in {"promote", "sidecars"} :
              /\ job'[k] = [job[k] EXCEPT !.pc = pc]
              /\ pc = "promote" => job[k].gate = None
        BY <2>6, <3>1 DEF WriteManifest, To, TypeOK
      <3>3. man'[job[k].path] = job[k].verdict /\ UNCHANGED <<out, side>> /\ job[k].pc = "manifest"
        BY <2>0, <2>6, <3>1 DEF WriteManifest, At, TypeOK, Exporting
      <3>4. job'[k] \in Exporting /\ job'[k].pc = pc /\ job'[k].path = job[k].path
            /\ job'[k].verdict = job[k].verdict /\ job'[k].gate = job[k].gate
            /\ job'[k].run = job[k].run /\ job'[k].overwrite = job[k].overwrite
        BY <2>0, <3>2 DEF Exporting
      <3> QED BY <2>0, <3>2, <3>3, <3>4 DEF PreparedRun
    <2>7. ASSUME NEW j \in Jobs, WriteSidecars(j) PROVE PreparedRun(k, job[k])'
      <3>1. j = k
        BY <2>0, <2>7 DEF WriteSidecars, At
      <3>2. job'[k] = [job[k] EXCEPT !.pc = "promote"]
        BY <2>7, <3>1 DEF WriteSidecars, To, TypeOK
      <3>3. side'[job[k].path] = job[k].verdict /\ UNCHANGED <<out, man>> /\ job[k].pc = "sidecars"
        BY <2>0, <2>7, <3>1 DEF WriteSidecars, At, TypeOK, Exporting
      <3> QED BY <2>0, <3>2, <3>3 DEF PreparedRun, Exporting
    <2>8. ASSUME NEW j \in Jobs, Promote(j) PROVE PreparedRun(k, job[k])'
      <3>1. j = k
        BY <2>0, <2>8 DEF Promote, At
      <3>2. job'[k] = [job[k] EXCEPT !.pc = "promoted"] /\ ~job[k].cancelled
        BY <2>8, <3>1 DEF Promote, To, TypeOK
      <3> QED BY <2>0, <3>2 DEF PreparedRun, Exporting
    <2>9. ASSUME NEW j \in Jobs, Conclude(j) \/ GiveUp(j) PROVE FALSE
      <3>1. j = k
        BY <2>0, <2>9 DEF Conclude, GiveUp, At
      <3>2. PICK state \in {"failed", "queued", "complete", "cancelled"} :
              job'[k] = Settled(k, state) \/ job'[k] = Waiting(job[k], state)
        BY <2>9, <3>1 DEF Conclude, GiveUp, TypeOK
      <3>3. Settled(k, state).state = state /\ Waiting(job[k], state).state = state
        BY <2>0 DEF Settled, Waiting, Exporting
      <3> QED BY <3>2, <3>3 DEF Running
    <2>10. ASSUME Crash PROVE FALSE
      BY <2>10, CrashedJobs
    <2>11. ASSUME NEW p \in Paths, DeleteOutput(p) PROVE PreparedRun(k, job[k])'
      BY <2>1, <2>11 DEF DeleteOutput, TypeOK
    <2>12. ASSUME UNCHANGED <<job, out, man, side>> PROVE PreparedRun(k, job[k])'
      BY <2>1, <2>12
    <2>13. ASSUME \/ \E p \in Paths, v \in Verdicts : \E f \in v : ReadForDecision(p, f)
                  \/ AppendDecision \/ EditProject
           PROVE  PreparedRun(k, job[k])'
      BY <2>12, <2>13 DEF ReadForDecision, AppendDecision, EditProject
    <2> QED
      BY <1>2, <2>2, <2>3, <2>4, <2>5, <2>6, <2>7, <2>8, <2>9, <2>10, <2>11, <2>12, <2>13 DEF Next, vars
  <1> QED BY <1>1, <1>2
\* Nothing is written twice: what a run is about to write is not there yet.
LEMMA FilesStep ==
  ASSUME TypeOK, RunsAreCounted, RunsArePrepared, FilesAreOfRuns, [Next]_vars
  PROVE  FilesAreOfRuns'
  <1>0. ASSUME NEW k \in Jobs, NEW r \in 1 .. MaxRuns,
               NEW steps \in {BeforeManifest, BeforeSidecars, BeforePromotion},
               job[k] # None /\ WrittenInRun(job[k], r, steps)
        PROVE  job'[k] # None /\ WrittenInRun(job'[k], r, steps)
    <2>1. job'[k] # None /\ MovesOn(job[k], job'[k])
      BY <1>0, JobsMoveOn
    <2>2. job[k].run \in Nat /\ r \in Nat
      <3>1. job[k].run \in 0 .. MaxRuns
        BY <1>0 DEF TypeOK, Exporting, Ended
      <3> QED BY <3>1, ExportsAssumption
    <2>3. CASE job'[k].run = job[k].run + 1
      BY <1>0, <2>1, <2>2, <2>3 DEF WrittenInRun
    <2>4. CASE /\ job'[k].run = job[k].run
               /\ job'[k].state = "running" /\ job'[k].pc \in steps =>
                    job[k].state = "running" /\ job[k].pc \in steps
      BY <1>0, <2>1, <2>2, <2>4 DEF WrittenInRun
    <2> QED BY <2>1, <2>3, <2>4 DEF MovesOn
  <1>1. ASSUME \A k \in Jobs, r \in 1 .. MaxRuns, p \in Paths :
                 /\ out'[p] # None /\ out'[p] = <<k, r>> =>
                      \/ out[p] # None /\ out[p] = <<k, r>>
                      \/ job'[k] # None /\ WrittenInRun(job'[k], r, BeforePromotion)
                 /\ man'[p] # None /\ man'[p].output = <<k, r>> =>
                      \/ man[p] # None /\ man[p].output = <<k, r>>
                      \/ job'[k] # None /\ WrittenInRun(job'[k], r, BeforeManifest)
                 /\ side'[p] # None /\ side'[p].output = <<k, r>> =>
                      \/ side[p] # None /\ side[p].output = <<k, r>>
                      \/ job'[k] # None /\ WrittenInRun(job'[k], r, BeforeSidecars)
        PROVE  FilesAreOfRuns'
    <2>1. ASSUME NEW k \in Jobs, NEW r \in 1 .. MaxRuns, NEW p \in Paths
          PROVE  /\ out'[p] # None /\ out'[p] = <<k, r>> =>
                      job'[k] # None /\ WrittenInRun(job'[k], r, BeforePromotion)
                 /\ man'[p] # None /\ man'[p].output = <<k, r>> =>
                      job'[k] # None /\ WrittenInRun(job'[k], r, BeforeManifest)
                 /\ side'[p] # None /\ side'[p].output = <<k, r>> =>
                      job'[k] # None /\ WrittenInRun(job'[k], r, BeforeSidecars)
      BY <1>0, <1>1 DEF FilesAreOfRuns
    <2> QED BY <2>1 DEF FilesAreOfRuns, WrittenInRun, BeforeManifest, BeforeSidecars, BeforePromotion
  <1>2. ASSUME \A p \in Paths : /\ out'[p] \in {out[p], None} /\ man'[p] \in {man[p], None}
                                /\ side'[p] \in {side[p], None}
        PROVE  FilesAreOfRuns'
    BY <1>1, <1>2
  <1>3. ASSUME NEW j \in Jobs, Running(j), NEW r \in 1 .. MaxRuns, job[j].run = r,
               NEW pc, To(j, pc), NEW steps, pc \notin steps
        PROVE  job'[j] # None /\ WrittenInRun(job'[j], r, steps)
    <2>1. job[j] \in Exporting /\ job'[j] = [job[j] EXCEPT !.pc = pc]
      BY <1>3, RunningIsExporting DEF To, TypeOK
    <2>2. job'[j] # None
      BY <1>3, JobsMoveOn DEF Running
    <2> QED BY <1>3, <2>1, <2>2 DEF WrittenInRun, Exporting
  <1>4. ASSUME NEW j \in Jobs, WriteManifest(j) PROVE FilesAreOfRuns'
    <2>1. /\ Running(j) /\ job[j].path \in Paths
          /\ \A k \in Jobs, r \in 1 .. MaxRuns :
               job[j].verdict.output = <<k, r>> => k = j /\ job[j].run = r
      BY <1>4, RunningIsExporting DEF WriteManifest, At, Exporting, RunsArePrepared, PreparedRun
    <2>2. PICK pc \in {"promote", "sidecars"} : To(j, pc)
      BY <1>4 DEF WriteManifest
    <2>3. \A r \in 1 .. MaxRuns : job[j].run = r =>
            job'[j] # None /\ WrittenInRun(job'[j], r, BeforeManifest)
      BY <1>3, <2>1, <2>2 DEF BeforeManifest
    <2>4. /\ UNCHANGED <<out, side>>
          /\ \A p \in Paths : man'[p] = man[p] \/ man'[p] = job[j].verdict
      BY <1>4 DEF WriteManifest, TypeOK
    <2> QED BY <1>1, <2>1, <2>3, <2>4
  <1>5. ASSUME NEW j \in Jobs, WriteSidecars(j) PROVE FilesAreOfRuns'
    <2>1. /\ Running(j) /\ To(j, "promote")
          /\ "promote" \notin BeforeSidecars
          /\ \A k \in Jobs, r \in 1 .. MaxRuns :
               job[j].verdict.output = <<k, r>> => k = j /\ job[j].run = r
      BY <1>5, RunningIsExporting DEF WriteSidecars, At, RunsArePrepared, PreparedRun,
         BeforeSidecars, BeforeManifest
    <2>2. \A r \in 1 .. MaxRuns : job[j].run = r =>
            job'[j] # None /\ WrittenInRun(job'[j], r, BeforeSidecars)
      BY <1>3, <2>1
    <2>3. /\ UNCHANGED <<out, man>>
          /\ \A p \in Paths : side'[p] = side[p] \/ side'[p] = job[j].verdict
      BY <1>5 DEF WriteSidecars, TypeOK
    <2> QED BY <1>1, <2>1, <2>2, <2>3
  <1>6. ASSUME NEW j \in Jobs, Promote(j) PROVE FilesAreOfRuns'
    <2>1. /\ Running(j) /\ To(j, "promoted")
          /\ \A k \in Jobs, r \in 1 .. MaxRuns : Bytes(j) = <<k, r>> => k = j /\ job[j].run = r
      BY <1>6 DEF Promote, At, Bytes
    <2>2. \A r \in 1 .. MaxRuns : job[j].run = r =>
            job'[j] # None /\ WrittenInRun(job'[j], r, BeforePromotion)
      BY <1>3, <2>1 DEF BeforePromotion, BeforeSidecars, BeforeManifest
    <2>3. /\ UNCHANGED <<man, side>>
          /\ \A p \in Paths : out'[p] = out[p] \/ out'[p] = Bytes(j)
      BY <1>6 DEF Promote, TypeOK
    <2> QED BY <1>1, <2>1, <2>2, <2>3
  <1>7. ASSUME NEW j \in Jobs, GiveUp(j) PROVE FilesAreOfRuns'
    BY <1>2, <1>7 DEF GiveUp, Dropped, TypeOK
  <1>8. ASSUME NEW p \in Paths, DeleteOutput(p) PROVE FilesAreOfRuns'
    BY <1>2, <1>8 DEF DeleteOutput, TypeOK
  <1>9. ASSUME UNCHANGED <<out, man, side>> PROVE FilesAreOfRuns'
    BY <1>2, <1>9
  <1> QED
    BY <1>4, <1>5, <1>6, <1>7, <1>8, <1>9 DEF Next, vars, ReadForDecision, AppendDecision,
       StartReview, StartDelivery, Cancel, Reauthorize, StartWork, Judge, Conclude, EditProject, Crash

-----------------------------------------------------------------------------
(* The invariant, and what follows for every step *)

IInv ==
  /\ TypeOK /\ RunsAreCounted
  /\ JobsAreEarned /\ DeliveriesWereAccepted
  /\ Alone /\ RunsArePrepared /\ FilesAreOfRuns

THEOREM Invariance == Spec => []IInv
  <1>1. Init => IInv
    BY InitType DEF Init, IInv, JobsAreEarned, DeliveriesWereAccepted, Alone, RunsArePrepared,
       FilesAreOfRuns, Running
  <1>2. IInv /\ [Next]_vars => IInv'
    BY TypeStep, EarnedStep, DeliveriesStep, AloneStep, PreparedStep, FilesStep DEF IInv
  <1> QED BY <1>1, <1>2, PTL DEF Spec

\* The variables always have their types.
THEOREM TypeCorrect == Spec => []TypeOK
  BY Invariance, PTL DEF IInv

\* A delivery is described as one only with the user's acceptance of each of its findings, on
\* the review it was derived from and for the same content.
THEOREM DeliveriesAreAlwaysAccepted == Spec => []DeliveriesWereAccepted
  BY Invariance, PTL DEF IInv

\* Whatever appears at a destination appears beside its own manifest and delivery files.
THEOREM PromotionsAreDescribed == Spec => PromotedAreDescribed
  <1> DEFINE A == \A p \in Paths : out'[p] \notin {out[p], None} =>
       /\ man[p] # None /\ man[p].output = out'[p]
       /\ man[p].kind = "delivery" => side[p] = man[p]
  <1>1. IInv /\ [Next]_vars => [A]_vars
    <2> SUFFICES ASSUME IInv, Next, NEW p \in Paths, out'[p] \notin {out[p], None}
                 PROVE  /\ man[p] # None /\ man[p].output = out'[p]
                        /\ man[p].kind = "delivery" => side[p] = man[p]
      OBVIOUS
    <2>1. PICK j \in Jobs : Promote(j)
      <3>1. ASSUME NEW q \in Paths, DeleteOutput(q) PROVE out'[p] \in {out[p], None}
        BY <3>1 DEF DeleteOutput, IInv, TypeOK
      <3> QED
        BY <3>1 DEF Next, ReadForDecision, AppendDecision, StartReview, StartDelivery, Cancel,
           Reauthorize, StartWork, WriteManifest, WriteSidecars, Judge, Conclude, GiveUp,
           EditProject, Crash
    <2>2. Running(j) /\ job[j].pc = "promote" /\ job[j].path \in Paths /\ PreparedRun(j, job[j])
      BY <2>1, RunningIsExporting DEF Promote, At, IInv, RunsArePrepared, Exporting
    <2>3. p = job[j].path /\ out'[p] = Bytes(j)
      BY <2>1, <2>2 DEF Promote, IInv, TypeOK
    <2> QED BY <2>2, <2>3 DEF PreparedRun, Bytes
  <1> QED BY <1>1, Invariance, PTL DEF Spec, PromotedAreDescribed

\* Without the user's word nothing that was exported is touched, by whatever run.
THEOREM ExportsAreKept == Spec => EarlierExportsAreKept
  <1> DEFINE A == \A p \in Paths : out[p] # None =>
       \/ out'[p] = None
       \/ <<out[p], man[p], side[p]>>' = <<out[p], man[p], side[p]>>
       \/ \E j \in Jobs : Running(j) /\ job[j].overwrite /\ job[j].path = p
  <1>1. IInv /\ [Next]_vars => [A]_vars
    <2> SUFFICES ASSUME IInv, Next, NEW p \in Paths, out[p] # None,
                        ~\E j \in Jobs : Running(j) /\ job[j].overwrite /\ job[j].path = p
                 PROVE  out'[p] = None \/ (out'[p] = out[p] /\ man'[p] = man[p] /\ side'[p] = side[p])
      OBVIOUS
    <2>1. ASSUME NEW j \in Jobs, Running(j), job[j].pc \in {"manifest", "sidecars", "promote"}
          PROVE  job[j].path # p
      BY <2>1 DEF IInv, RunsArePrepared, PreparedRun
    <2>2. ASSUME NEW j \in Jobs, WriteManifest(j) \/ WriteSidecars(j) \/ Promote(j)
          PROVE  out'[p] = out[p] /\ man'[p] = man[p] /\ side'[p] = side[p]
      BY <2>1, <2>2 DEF WriteManifest, WriteSidecars, Promote, At, IInv, TypeOK
    <2>3. ASSUME NEW j \in Jobs, GiveUp(j)
          PROVE  out'[p] = out[p] /\ man'[p] = man[p] /\ side'[p] = side[p]
      BY <2>1, <2>3 DEF GiveUp, Dropped, IInv, TypeOK
    <2>4. ASSUME NEW q \in Paths, DeleteOutput(q)
          PROVE  out'[p] \in {out[p], None} /\ man'[p] = man[p] /\ side'[p] = side[p]
      BY <2>4 DEF DeleteOutput, IInv, TypeOK
    <2> QED
      BY <2>2, <2>3, <2>4 DEF Next, ReadForDecision, AppendDecision, StartReview, StartDelivery,
         Cancel, Reauthorize, StartWork, Judge, Conclude, EditProject, Crash
  <1> QED BY <1>1, Invariance, PTL DEF Spec, EarlierExportsAreKept

\* A run that fails, is cancelled or is to be repeated leaves nothing at its destination.
THEOREM UnsuccessfulRunsAreGone == Spec => UnsuccessfulRunsLeaveNothing
  <1> DEFINE Gone(j, p) ==
       /\ j \notin partial'
       /\ out'[p] # Bytes(j)
       /\ man'[p] # None => man'[p].output # Bytes(j)
       /\ side'[p] # None => side'[p].output # Bytes(j)
  <1> DEFINE A == \A j \in Jobs : Running(j) /\ job'[j].state \in {"cancelled", "failed", "queued"} =>
       LET p == job[j].path IN Gone(j, p)
  <1>1. IInv /\ [Next]_vars => [A]_vars
    <2> SUFFICES ASSUME IInv, Next, NEW j \in Jobs, Running(j),
                        job'[j].state \in {"cancelled", "failed", "queued"}
                 PROVE  Gone(j, job[j].path)
      OBVIOUS
    <2>0. /\ job[j] \in Exporting /\ job[j] # None /\ job[j].path \in Paths
          /\ Bytes(j) = <<j, job[j].run>> /\ job[j].run \in 1 .. MaxRuns /\ Bytes(j) # None
          /\ \A k \in Jobs : Running(k) => k = j
          /\ PreparedRun(j, job[j])
      <3>1. job[j] \in Exporting /\ job[j].run # 0
        BY RunningIsExporting DEF IInv, RunsAreCounted
      <3>2. job[j].run \in 1 .. MaxRuns
        BY <3>1, ExportsAssumption DEF Exporting
      <3>3. Bytes(j) # None
        BY BytesType, NoneAssumption DEF IInv
      <3> QED BY <3>1, <3>2, <3>3 DEF IInv, Exporting, Bytes, Running, Alone, RunsArePrepared
    <2>1. GiveUp(j)
      <3>1. ASSUME job'[j] = job[j] PROVE FALSE
        BY <3>1 DEF Running
      <3>2. ASSUME NEW k \in Jobs, NEW new, job' = [job EXCEPT ![k] = new], k = j => new.state = "running"
            PROVE  FALSE
        BY <3>2 DEF IInv, TypeOK, Running
      <3>3. ASSUME NEW k \in Jobs,
                   \/ \E p \in Paths : \/ \E overwrite \in BOOLEAN : StartReview(k, p, overwrite)
                                       \/ \E source \in Paths : StartDelivery(k, source, p)
            PROVE  FALSE
        BY <2>0, <3>1, <3>3 DEF StartReview, StartDelivery, IInv, TypeOK
      <3>4. ASSUME NEW k \in Jobs, Cancel(k) PROVE FALSE
        BY <2>0, <3>1, <3>4 DEF Cancel, IInv, TypeOK, Running, Exporting
      <3>5. ASSUME NEW k \in Jobs, Reauthorize(k) \/ StartWork(k) PROVE FALSE
        BY <2>0, <3>1, <3>5 DEF Reauthorize, StartWork, IInv, TypeOK, Running
      <3>6. ASSUME NEW k \in Jobs, Running(k), NEW pc, To(k, pc) PROVE FALSE
        BY <2>0, <3>6 DEF To, IInv, TypeOK, Running, Exporting
      <3>7. ASSUME NEW k \in Jobs, WriteManifest(k) \/ WriteSidecars(k) \/ Promote(k) PROVE FALSE
        BY <3>6, <3>7 DEF WriteManifest, WriteSidecars, Promote, At
      <3>8. ASSUME NEW k \in Jobs, NEW findings \in Verdicts, Judge(k, findings) PROVE FALSE
        BY <2>0, <3>8 DEF Judge, At, IInv, TypeOK, Running, Exporting
      <3>9. ASSUME NEW k \in Jobs, Conclude(k) PROVE FALSE
        <4>1. k = j /\ job[j].pc = "promoted"
          BY <2>0, <3>9 DEF Conclude, At
        <4>2. job'[j] = Settled(j, "complete")
          BY <2>0, <3>9, <4>1 DEF Conclude, PreparedRun, IInv, TypeOK
        <4> QED BY <4>2 DEF Settled
      <3>10. ASSUME Crash PROVE FALSE
        <4>1. job'[j] \in Exporting /\ job'[j].state = "blocked"
          BY <3>1, <3>10, CrashedJobs DEF IInv
        <4> QED BY <4>1
      <3>11. ASSUME \/ \E p \in Paths, v \in Verdicts : \E f \in v : ReadForDecision(p, f)
                    \/ \E p \in Paths : DeleteOutput(p)
                    \/ AppendDecision \/ EditProject
             PROVE  FALSE
        BY <3>1, <3>11 DEF ReadForDecision, DeleteOutput, AppendDecision, EditProject
      <3> QED
        BY <2>0, <3>3, <3>4, <3>5, <3>7, <3>8, <3>9, <3>10, <3>11 DEF Next, GiveUp
    <2>2. j \notin partial' /\ job[j].pc # "promoted"
      BY <2>1 DEF GiveUp
    <2>3. /\ job[j].pc \in BeforePromotion
          /\ job[j].pc \in BeforeManifest \/ job[j].pc \in {"sidecars", "promote"}
          /\ job[j].pc \in BeforeSidecars \/ job[j].pc = "promote"
      BY <2>0, <2>2 DEF Exporting, BeforeManifest, BeforeSidecars, BeforePromotion
    <2>4. out'[job[j].path] # Bytes(j)
      BY <2>0, <2>1, <2>3 DEF GiveUp, IInv, FilesAreOfRuns, WrittenInRun, Running
    <2>5. man'[job[j].path] # None => man'[job[j].path].output # Bytes(j)
      <3>1. CASE job[j].pc \in BeforeManifest
        BY <2>0, <2>1, <3>1 DEF GiveUp, Dropped, BeforeManifest, IInv, FilesAreOfRuns, WrittenInRun,
           Running
      <3>2. CASE job[j].pc \in {"sidecars", "promote"}
        BY <2>0, <2>1, <3>2 DEF GiveUp, Dropped, IInv, TypeOK
      <3> QED BY <2>3, <3>1, <3>2
    <2>6. side'[job[j].path] # None => side'[job[j].path].output # Bytes(j)
      <3>1. CASE job[j].pc \in BeforeSidecars
        BY <2>0, <2>1, <3>1 DEF GiveUp, Dropped, BeforeManifest, BeforeSidecars, IInv, FilesAreOfRuns,
           WrittenInRun, Running
      <3>2. CASE job[j].pc = "promote"
        BY <2>0, <2>1, <3>2 DEF GiveUp, Dropped, IInv, TypeOK
      <3> QED BY <2>3, <3>1, <3>2
    <2> QED BY <2>2, <2>4, <2>5, <2>6
  <1> QED BY <1>1, Invariance, PTL DEF Spec, UnsuccessfulRunsLeaveNothing
=============================================================================
