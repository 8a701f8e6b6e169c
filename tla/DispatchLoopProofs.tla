-------------------------- MODULE DispatchLoopProofs --------------------------
\* The loop, proved for any jobs, resources, permits and failing starts: no wake-up is lost, and
\* when the session's leases are released, no task is left.
EXTENDS DispatchLoop, FiniteSetTheorems, TLAPS

\* What active_count counts: the tasks that own a job, and those on their way out before
\* they are counted off, the n-th of its stage and resource under the number n.
Counted(w, e) ==
  {<<"task", j, 0>> : j \in {i \in Jobs : w[i] # "none"}}
    \cup {x \in {"requeued", "returns"} \X Resources \X (Nat \ {0}) : x[3] <= e[x[1]][x[2]]}

Types ==
  /\ queue \subseteq Jobs
  /\ work \in [Jobs -> {"none", "start", "work", "retried", "leave"}]
  /\ exits \in [ExitStages -> [Resources -> Nat]]
  /\ active \in Nat

\* The inductive invariant: the count is exact, a loop that has ended has counted off every
\* task, and a shutdown that waits for the rest or is through has seen the loop end.
IInv ==
  /\ Types
  /\ IsFiniteSet(Counted(work, exits)) /\ active = Cardinality(Counted(work, exits))
  /\ loop = "ended" => active = 0
  /\ shutdown \in {"idle", "waiting", "released"} => loop = "ended"

-----------------------------------------------------------------------------
\* The count

\* One more.
LEMMA OneMore ==
  ASSUME NEW S, IsFiniteSet(S), NEW x, x \notin S, NEW T, T = S \cup {x}
  PROVE  IsFiniteSet(T) /\ Cardinality(T) = Cardinality(S) + 1 /\ Cardinality(S) \in Nat
<1>1. IsFiniteSet(S \cup {x}) /\ Cardinality(S \cup {x}) = Cardinality(S) + 1
  BY FS_AddElement
<1> QED
  BY <1>1, FS_CardinalityType

\* One less.
LEMMA OneLess ==
  ASSUME NEW S, IsFiniteSet(S), NEW x \in S, NEW T, T = S \ {x}
  PROVE  IsFiniteSet(T) /\ Cardinality(T) = Cardinality(S) - 1
BY FS_RemoveElement

\* One for another.
LEMMA Swapped ==
  ASSUME NEW S, IsFiniteSet(S), NEW x \in S, NEW y, y \notin S, NEW T, T = (S \ {x}) \cup {y}
  PROVE  IsFiniteSet(T) /\ Cardinality(T) = Cardinality(S)
<1>1. PICK U : U = S \ {x}
  OBVIOUS
<1>2. IsFiniteSet(U) /\ Cardinality(U) = Cardinality(S) - 1
  BY <1>1, OneLess
<1>3. IsFiniteSet(T) /\ Cardinality(T) = Cardinality(U) + 1
  BY <1>1, <1>2, OneMore
<1>4. Cardinality(S) \in Nat
  BY FS_CardinalityType
<1> QED
  BY <1>2, <1>3, <1>4

\* What a step from one stage to the next does to the numbers.
LEMMA ExitsAt ==
  ASSUME Types, NEW r \in Resources, NEW from, NEW to, from # to,
         from \in ExitStages => exits[from][r] > 0
  PROVE  /\ Exits(from, to, r) \in [ExitStages -> [Resources -> Nat]]
         /\ \A s \in ExitStages, x \in Resources :
              Exits(from, to, r)[s][x] = IF x = r /\ s = to THEN exits[s][x] + 1
                                         ELSE IF x = r /\ s = from THEN exits[s][x] - 1
                                         ELSE exits[s][x]
<1>1. \A s \in ExitStages, x \in Resources : exits[s][x] \in Nat
  BY DEF Types
<1>2. \A s \in ExitStages, x \in Resources :
        (IF x = r /\ s = to THEN exits[s][x] + 1
         ELSE IF x = r /\ s = from THEN exits[s][x] - 1 ELSE exits[s][x]) \in Nat
  BY <1>1
<1> QED
  BY <1>2 DEF Exits

\* A task that leaves its job is counted on, at the stage it goes to.
LEMMA LeavesIsSwap ==
  ASSUME IInv, NEW j \in Jobs, work[j] # "none", NEW stage \in {"requeued", "returns"},
         Leaves(j, stage), UNCHANGED active
  PROVE  /\ work' \in [Jobs -> {"none", "start", "work", "retried", "leave"}]
         /\ exits' \in [ExitStages -> [Resources -> Nat]]
         /\ IsFiniteSet(Counted(work', exits')) /\ active' = Cardinality(Counted(work', exits'))
<1>1. PICK r \in Resources : r = Resource[j]
  BY DispatchAssumption
<1>2. Types /\ IsFiniteSet(Counted(work, exits)) /\ active = Cardinality(Counted(work, exits))
  BY DEF IInv
<1>3. /\ work' = [work EXCEPT ![j] = "none"] /\ exits' = Exits("none", stage, r)
  BY <1>1 DEF Leaves
<1>4. "none" \notin ExitStages /\ stage \in ExitStages
  BY DEF ExitStages
<1>5. /\ exits' \in [ExitStages -> [Resources -> Nat]]
      /\ \A s \in ExitStages, x \in Resources :
           exits'[s][x] = IF x = r /\ s = stage THEN exits[s][x] + 1 ELSE exits[s][x]
  <2>1. /\ Exits("none", stage, r) \in [ExitStages -> [Resources -> Nat]]
        /\ \A s \in ExitStages, x \in Resources :
             Exits("none", stage, r)[s][x] = IF x = r /\ s = stage THEN exits[s][x] + 1
                                             ELSE IF x = r /\ s = "none" THEN exits[s][x] - 1
                                             ELSE exits[s][x]
    BY <1>2, <1>4, ExitsAt
  <2> QED
    BY <1>3, <1>4, <2>1
<1>6. PICK n : n = exits[stage][r] + 1 /\ n \in Nat \ {0} /\ exits[stage][r] \in Nat
  BY <1>2, <1>4 DEF Types
<1>7. <<"task", j, 0>> \in Counted(work, exits)
  BY DEF Counted
<1>8. <<stage, r, n>> \notin Counted(work, exits)
  BY <1>6 DEF Counted
<1>9. Counted(work', exits') = (Counted(work, exits) \ {<<"task", j, 0>>}) \cup {<<stage, r, n>>}
  <2>1. work \in [Jobs -> {"none", "start", "work", "retried", "leave"}]
    BY <1>2 DEF Types
  <2>2. \A i \in Jobs : work'[i] = IF i = j THEN "none" ELSE work[i]
    BY <1>3, <2>1
  <2>3. \A s \in {"requeued", "returns"}, x \in Resources :
          exits[s][x] \in Nat /\ exits'[s][x] = IF x = r /\ s = stage THEN n ELSE exits[s][x]
    BY <1>2, <1>5, <1>6 DEF Types, ExitStages
  <2> DEFINE Task(w) == {<<"task", i, 0>> : i \in {k \in Jobs : w[k] # "none"}}
             Exit(e) == {x \in {"requeued", "returns"} \X Resources \X (Nat \ {0}) :
                           x[3] <= e[x[1]][x[2]]}
  <2>4. Task(work') = Task(work) \ {<<"task", j, 0>>}
    BY <2>2
  <2>5. Exit(exits') = Exit(exits) \cup {<<stage, r, n>>}
    <3>1. ASSUME NEW s \in {"requeued", "returns"}, NEW x \in Resources, NEW k \in Nat \ {0}
          PROVE  k <= exits'[s][x] <=> (k <= exits[s][x] \/ <<s, x, k>> = <<stage, r, n>>)
      <4>1. CASE x = r /\ s = stage
        BY <1>6, <2>3, <4>1
      <4>2. CASE ~(x = r /\ s = stage)
        BY <2>3, <4>2
      <4> QED
        BY <4>1, <4>2
    <3> QED
      BY <1>6, <3>1
  <2>6. <<"task", j, 0>> \notin Exit(exits) /\ <<"task", j, 0>> # <<stage, r, n>>
    OBVIOUS
  <2> HIDE DEF Task, Exit
  <2>7. Task(work') \cup Exit(exits')
          = ((Task(work) \cup Exit(exits)) \ {<<"task", j, 0>>}) \cup {<<stage, r, n>>}
    BY <2>4, <2>5, <2>6
  <2> QED
    BY <2>7 DEF Task, Exit, Counted
<1>10. IsFiniteSet(Counted(work', exits'))
       /\ Cardinality(Counted(work', exits')) = Cardinality(Counted(work, exits))
  BY <1>2, <1>7, <1>8, <1>9, Swapped
<1>11. work' \in [Jobs -> {"none", "start", "work", "retried", "leave"}]
  BY <1>2, <1>3 DEF Types
<1> QED
  BY <1>2, <1>5, <1>10, <1>11

\* The notification after a start that was put back leaves the task counted.
LEMMA NotifyRequeuedIsSwap ==
  ASSUME IInv, NEW r \in Resources, NotifyRequeued(r)
  PROVE  /\ exits' \in [ExitStages -> [Resources -> Nat]]
         /\ IsFiniteSet(Counted(work, exits')) /\ active = Cardinality(Counted(work, exits'))
<1>1. Types /\ IsFiniteSet(Counted(work, exits)) /\ active = Cardinality(Counted(work, exits))
  BY DEF IInv
<1>2. exits' = Exits("requeued", "returns", r) /\ exits["requeued"][r] > 0
  BY DEF NotifyRequeued
<1>3. /\ exits' \in [ExitStages -> [Resources -> Nat]]
      /\ \A s \in ExitStages, x \in Resources :
           exits'[s][x] = IF x = r /\ s = "returns" THEN exits[s][x] + 1
                          ELSE IF x = r /\ s = "requeued" THEN exits[s][x] - 1 ELSE exits[s][x]
  BY <1>1, <1>2, ExitsAt
<1>4. \A s \in {"requeued", "returns"}, x \in Resources : exits[s][x] \in Nat
  BY <1>1 DEF Types, ExitStages
<1>5. PICK n : n = exits["returns"][r] + 1 /\ n \in Nat \ {0}
  BY <1>4
<1>6. PICK m : m = exits["requeued"][r] /\ m \in Nat \ {0}
  BY <1>2, <1>4
<1>7. <<"requeued", r, m>> \in Counted(work, exits) /\ <<"returns", r, n>> \notin Counted(work, exits)
  BY <1>4, <1>5, <1>6 DEF Counted
<1>8. Counted(work, exits') = (Counted(work, exits) \ {<<"requeued", r, m>>}) \cup {<<"returns", r, n>>}
  <2>1. ASSUME NEW s \in {"requeued", "returns"}, NEW x \in Resources, NEW k \in Nat \ {0}
        PROVE  k <= exits'[s][x] <=> \/ k <= exits[s][x] /\ <<s, x, k>> # <<"requeued", r, m>>
                                     \/ <<s, x, k>> = <<"returns", r, n>>
    <3>1. CASE x = r /\ s = "returns"
      BY <1>3, <1>4, <1>5, <3>1 DEF ExitStages
    <3>2. CASE x = r /\ s = "requeued"
      BY <1>3, <1>4, <1>6, <3>2 DEF ExitStages
    <3>3. CASE x # r
      BY <1>3, <1>4, <3>3 DEF ExitStages
    <3> QED
      BY <3>1, <3>2, <3>3
  <2> DEFINE Exit(e) == {x \in {"requeued", "returns"} \X Resources \X (Nat \ {0}) :
                           x[3] <= e[x[1]][x[2]]}
             Task == {<<"task", i, 0>> : i \in {k \in Jobs : work[k] # "none"}}
  <2>2. Exit(exits') = (Exit(exits) \ {<<"requeued", r, m>>}) \cup {<<"returns", r, n>>}
    BY <1>5, <2>1
  <2>3. <<"requeued", r, m>> \notin Task
    OBVIOUS
  <2> HIDE DEF Task, Exit
  <2>4. Task \cup Exit(exits')
          = ((Task \cup Exit(exits)) \ {<<"requeued", r, m>>}) \cup {<<"returns", r, n>>}
    BY <2>2, <2>3
  <2> QED
    BY <2>4 DEF Task, Exit, Counted
<1>9. IsFiniteSet(Counted(work, exits'))
      /\ Cardinality(Counted(work, exits')) = Cardinality(Counted(work, exits))
  BY <1>1, <1>7, <1>8, Swapped
<1> QED
  BY <1>1, <1>3, <1>9

\* Counting off.
LEMMA CountOffIsOneLess ==
  ASSUME IInv, NEW r \in Resources, CountOff(r)
  PROVE  /\ exits' \in [ExitStages -> [Resources -> Nat]] /\ active' \in Nat /\ active # 0
         /\ IsFiniteSet(Counted(work, exits')) /\ active' = Cardinality(Counted(work, exits'))
<1>1. Types /\ IsFiniteSet(Counted(work, exits)) /\ active = Cardinality(Counted(work, exits))
  BY DEF IInv
<1>2. exits' = Exits("returns", "notify", r) /\ exits["returns"][r] > 0 /\ active' = active - 1
  BY DEF CountOff
<1>3. /\ exits' \in [ExitStages -> [Resources -> Nat]]
      /\ \A s \in ExitStages, x \in Resources :
           exits'[s][x] = IF x = r /\ s = "notify" THEN exits[s][x] + 1
                          ELSE IF x = r /\ s = "returns" THEN exits[s][x] - 1 ELSE exits[s][x]
  BY <1>1, <1>2, ExitsAt
<1>4. \A s \in {"requeued", "returns"}, x \in Resources : exits[s][x] \in Nat
  BY <1>1 DEF Types, ExitStages
<1>5. PICK m : m = exits["returns"][r] /\ m \in Nat \ {0}
  BY <1>2, <1>4
<1>6. <<"returns", r, m>> \in Counted(work, exits)
  BY <1>5 DEF Counted
<1>7. Counted(work, exits') = Counted(work, exits) \ {<<"returns", r, m>>}
  <2>1. ASSUME NEW s \in {"requeued", "returns"}, NEW x \in Resources, NEW k \in Nat \ {0}
        PROVE  k <= exits'[s][x] <=> k <= exits[s][x] /\ <<s, x, k>> # <<"returns", r, m>>
    <3>1. CASE x = r /\ s = "returns"
      BY <1>3, <1>4, <1>5, <3>1 DEF ExitStages
    <3>2. CASE ~(x = r /\ s = "returns")
      BY <1>3, <1>4, <3>2 DEF ExitStages
    <3> QED
      BY <3>1, <3>2
  <2> DEFINE Exit(e) == {x \in {"requeued", "returns"} \X Resources \X (Nat \ {0}) :
                           x[3] <= e[x[1]][x[2]]}
             Task == {<<"task", i, 0>> : i \in {k \in Jobs : work[k] # "none"}}
  <2>2. Exit(exits') = Exit(exits) \ {<<"returns", r, m>>}
    BY <2>1
  <2>3. <<"returns", r, m>> \notin Task
    OBVIOUS
  <2> HIDE DEF Task, Exit
  <2>4. Task \cup Exit(exits') = (Task \cup Exit(exits)) \ {<<"returns", r, m>>}
    BY <2>2, <2>3
  <2> QED
    BY <2>4 DEF Task, Exit, Counted
<1>8. /\ IsFiniteSet(Counted(work, exits'))
      /\ Cardinality(Counted(work, exits')) = Cardinality(Counted(work, exits)) - 1
  BY <1>1, <1>6, <1>7, OneLess
<1>9. Cardinality(Counted(work, exits')) \in Nat /\ active \in Nat
  BY <1>1, <1>8, FS_CardinalityType DEF Types
<1> QED
  BY <1>1, <1>2, <1>3, <1>8, <1>9

\* The last notification is made by a task that is counted off.
LEMMA NotifyEndIsNoCount ==
  ASSUME IInv, NEW r \in Resources, NotifyEnd(r)
  PROVE  /\ exits' \in [ExitStages -> [Resources -> Nat]]
         /\ Counted(work, exits') = Counted(work, exits)
<1>1. Types
  BY DEF IInv
<1>2. exits' = Exits("notify", "gone", r) /\ exits["notify"][r] > 0
  BY DEF NotifyEnd
<1>3. /\ exits' \in [ExitStages -> [Resources -> Nat]]
      /\ \A s \in ExitStages, x \in Resources :
           exits'[s][x] = IF x = r /\ s = "gone" THEN exits[s][x] + 1
                          ELSE IF x = r /\ s = "notify" THEN exits[s][x] - 1 ELSE exits[s][x]
  BY <1>1, <1>2, ExitsAt
<1>4. \A s \in {"requeued", "returns"}, x \in Resources : exits'[s][x] = exits[s][x]
  BY <1>3 DEF ExitStages
<1> QED
  BY <1>3, <1>4 DEF Counted

\* A task that is spawned.
LEMMA TakeIsOneMore ==
  ASSUME IInv, TakeDispatchable
  PROVE  /\ work' \in [Jobs -> {"none", "start", "work", "retried", "leave"}]
         /\ queue' \subseteq Jobs /\ active' \in Nat
         /\ IsFiniteSet(Counted(work', exits)) /\ active' = Cardinality(Counted(work', exits))
<1>1. Types /\ IsFiniteSet(Counted(work, exits)) /\ active = Cardinality(Counted(work, exits))
  BY DEF IInv
<1>2. PICK j \in Dispatchable : queue' = queue \ {j} /\ work' = [work EXCEPT ![j] = "start"]
  BY DEF TakeDispatchable
<1>3. j \in Jobs /\ work[j] = "none"
  BY <1>1, <1>2 DEF Dispatchable, Running, Types
<1>4. <<"task", j, 0>> \notin Counted(work, exits)
  BY <1>3 DEF Counted
<1>5. Counted(work', exits) = Counted(work, exits) \cup {<<"task", j, 0>>}
  <2>1. \A i \in Jobs : work'[i] = IF i = j THEN "start" ELSE work[i]
    BY <1>1, <1>2, <1>3 DEF Types
  <2> QED
    BY <1>3, <2>1 DEF Counted
<1>6. active' = active + 1
  BY DEF TakeDispatchable
<1>7. /\ IsFiniteSet(Counted(work', exits))
      /\ Cardinality(Counted(work', exits)) = Cardinality(Counted(work, exits)) + 1
  BY <1>1, <1>4, <1>5, OneMore
<1>8. active' \in Nat /\ active' = Cardinality(Counted(work', exits))
  BY <1>1, <1>6, <1>7 DEF Types
<1>9. work' \in [Jobs -> {"none", "start", "work", "retried", "leave"}] /\ queue' \subseteq Jobs
  BY <1>1, <1>2 DEF Types
<1> QED
  BY <1>7, <1>8, <1>9

-----------------------------------------------------------------------------
\* The steps

\* A step that leaves the count, and the loop where it is unless it goes on.
LEMMA UncountedKeeps ==
  ASSUME IInv, queue' \subseteq Jobs, UNCHANGED <<exits, active>>,
         work' \in [Jobs -> {"none", "start", "work", "retried", "leave"}],
         \A j \in Jobs : work'[j] = "none" <=> work[j] = "none",
         loop' = "ended" => active = 0,
         shutdown' \in {"idle", "waiting", "released"} => loop' = "ended"
  PROVE  IInv'
<1>1. Counted(work', exits') = Counted(work, exits)
  BY DEF Counted
<1> QED
  BY <1>1 DEF IInv, Types

\* The dispatch loop ends when nothing is active.
LEMMA LoopKeeps ==
  ASSUME IInv, LoopStep
  PROVE  IInv'
<1>1. CASE Register \/ CheckShutdown \/ NothingToTake \/ Wake
  <2>1. UNCHANGED <<queue, work, exits, active, shutdown>>
    BY <1>1 DEF Register, CheckShutdown, NothingToTake, Wake
  <2>2. loop # "ended" /\ (loop' = "ended" => active = 0)
    BY <1>1 DEF Register, CheckShutdown, NothingToTake, Wake
  <2> QED
    BY <2>1, <2>2, UncountedKeeps DEF IInv, Types
<1>2. CASE TakeDispatchable
  <2>1. loop = "take" /\ loop' = "register" /\ UNCHANGED <<exits, shutdown>>
    BY <1>2 DEF TakeDispatchable
  <2> QED
    BY <1>2, <2>1, TakeIsOneMore DEF IInv, Types
<1> QED
  BY <1>1, <1>2 DEF LoopStep

\* A task, up to where it gives up its job.
LEMMA OwningKeeps ==
  ASSUME IInv, NEW j \in Jobs, OwningStep(j)
  PROVE  IInv'
<1>1. CASE StartWork(j) \/ RetryWork(j) \/ NotifyRetried(j)
  <2>1. UNCHANGED <<exits, active, loop, shutdown>> /\ queue' \subseteq Jobs
    BY <1>1 DEF StartWork, RetryWork, NotifyRetried, Push, IInv, Types
  <2>2. work[j] # "none" /\ \E w \in {"work", "retried", "leave"} : work' = [work EXCEPT ![j] = w]
    BY <1>1 DEF StartWork, RetryWork, NotifyRetried
  <2>3. /\ work' \in [Jobs -> {"none", "start", "work", "retried", "leave"}]
        /\ \A i \in Jobs : work'[i] = "none" <=> work[i] = "none"
    BY <2>2 DEF IInv, Types
  <2> QED
    BY <2>1, <2>3, UncountedKeeps DEF IInv
<1>2. CASE DiscardStart(j) \/ RequeueAfterStartFailure(j) \/ LeaveRunning(j)
  <2>1. PICK stage \in {"requeued", "returns"} : Leaves(j, stage)
    BY <1>2 DEF DiscardStart, RequeueAfterStartFailure, LeaveRunning
  <2>2. work[j] # "none" /\ UNCHANGED <<active, loop, shutdown>> /\ queue' \subseteq Jobs
    BY <1>2 DEF DiscardStart, RequeueAfterStartFailure, LeaveRunning, IInv, Types
  <2> QED
    BY <2>1, <2>2, LeavesIsSwap DEF IInv, Types
<1> QED
  BY <1>1, <1>2 DEF OwningStep

\* The end of a task.
LEMMA ExitKeeps ==
  ASSUME IInv, NEW r \in Resources, ExitStep(r)
  PROVE  IInv'
<1>1. CASE NotifyRequeued(r)
  <2>1. UNCHANGED <<queue, work, active, loop, shutdown>>
    BY <1>1 DEF NotifyRequeued
  <2> QED
    BY <1>1, <2>1, NotifyRequeuedIsSwap DEF IInv, Types
<1>2. CASE CountOff(r)
  <2>1. UNCHANGED <<queue, work, loop, shutdown>>
    BY <1>2 DEF CountOff
  <2> QED
    BY <1>2, <2>1, CountOffIsOneLess DEF IInv, Types
<1>3. CASE NotifyEnd(r)
  <2>1. UNCHANGED <<queue, work, active, loop, shutdown>>
    BY <1>3 DEF NotifyEnd
  <2> QED
    BY <1>3, <2>1, NotifyEndIsNoCount DEF IInv, Types
<1> QED
  BY <1>1, <1>2, <1>3 DEF ExitStep

\* Clients and the passing of time touch no task.
LEMMA ClientKeeps ==
  ASSUME IInv, NEW j \in Jobs,
         Age(j) \/ Submit(j) \/ SubmitStep(j) \/ SignalCancellation(j)
  PROVE  IInv'
<1>1. UNCHANGED <<work, exits, active, loop, shutdown>> /\ queue' \subseteq Jobs
  BY DEF Age, Submit, SubmitStep, PushSubmitted, NotifySubmitted, SignalCancellation, Push, IInv, Types
<1> QED
  BY <1>1, UncountedKeeps DEF IInv, Types

\* The shutdown waits for the end of the loop before it waits for anything else.
LEMMA ShutdownKeeps ==
  ASSUME IInv, ShutDown \/ ShutdownStep \/ MeetDeadline \/ UNCHANGED vars
  PROVE  IInv'
<1>1. /\ UNCHANGED <<work, exits, active, loop>> /\ queue' \subseteq Jobs
  BY DEF ShutDown, ShutdownStep, MeetDeadline, ClearQueue, NotifyShutdown, JoinLoop,
         ReleaseSession, WaitIdle, WakeIdle, vars, IInv, Types
<1>2. shutdown' \in {"idle", "waiting", "released"} => loop = "ended"
  BY DEF ShutDown, ShutdownStep, MeetDeadline, ClearQueue, NotifyShutdown, JoinLoop,
         ReleaseSession, WaitIdle, WakeIdle, vars, IInv
<1> QED
  BY <1>1, <1>2, UncountedKeeps DEF IInv, Types

\* The invariant holds when the scheduler is made.
LEMMA InitIInv == Init => IInv
<1> SUFFICES ASSUME Init
             PROVE  IInv
  OBVIOUS
<1>1. Types
  BY DEF Init, Types
<1>2. Counted(work, exits) = {}
  <2>1. \A j \in Jobs : work[j] = "none"
    BY DEF Init
  <2>2. \A s \in {"requeued", "returns"}, r \in Resources : exits[s][r] = 0
    BY DEF Init, ExitStages
  <2> QED
    BY <2>1, <2>2 DEF Counted
<1>3. IsFiniteSet(Counted(work, exits)) /\ active = Cardinality(Counted(work, exits))
  BY <1>2, FS_EmptySet DEF Init
<1> QED
  BY <1>1, <1>3 DEF IInv, Init

\* The inductive invariant holds of every behaviour.
THEOREM Invariance == Spec => []IInv
<1>1. IInv /\ [Next]_vars => IInv'
  BY LoopKeeps, OwningKeeps, ExitKeeps, ClientKeeps, ShutdownKeeps DEF Next
<1> QED
  BY InitIInv, <1>1, PTL DEF Spec

\* The session's leases are released when the loop has ended and no task owns a job: the
\* count that the loop and the shutdown trust is exact.
THEOREM ReleaseFindsNoTask == Spec => []ReleasedOnlyWhenIdle
<1>1. IInv => ReleasedOnlyWhenIdle
  <2> SUFFICES ASSUME IInv, shutdown = "released"
               PROVE  Running = {} /\ loop = "ended"
    BY DEF ReleasedOnlyWhenIdle
  <2>1. loop = "ended" /\ active = 0 /\ IsFiniteSet(Counted(work, exits))
        /\ active = Cardinality(Counted(work, exits))
    BY DEF IInv
  <2>2. Counted(work, exits) = {}
    BY <2>1, FS_EmptySet
  <2>3. \A j \in Jobs : work[j] # "none" => <<"task", j, 0>> \in Counted(work, exits)
    BY DEF Counted
  <2> QED
    BY <2>1, <2>2, <2>3 DEF Running
<1> QED
  BY Invariance, <1>1, PTL

-----------------------------------------------------------------------------
\* Wake-ups

\* A notification of the job's submit, or the end of a task that held a permit of its
\* resource, is still to come.
Announced(j) ==
  submitting[j] = "pushed" \/ \E s \in ExitStages : exits[s][Resource[j]] > 0

\* A loop that waits, and was not notified since it registered, has nothing to dispatch
\* but what is still announced to it ...
WorkIsAnnounced ==
  (loop = "wait" /\ ~woken) => \A j \in Dispatchable : Announced(j)

\* ... and one that is through its look at shutting_down does not sleep over the end: the
\* shutdown's own notification, or that of the last task counted off, is still to come.
EndIsAnnounced ==
  (loop \in {"take", "wait"} /\ ~woken /\ shutting /\ active = 0) =>
    shutdown \in {"clear", "notify"} \/ \E r \in Resources : exits["notify"][r] > 0

Listens ==
  /\ submitting \in [Jobs -> {"no", "checked", "pushed"}]
  /\ WorkIsAnnounced
  /\ EndIsAnnounced

\* What a step at other resources leaves alone.
LEMMA DispatchableBefore ==
  ASSUME NEW j \in Jobs, j \in Dispatchable', j \in queue,
         \A s \in ExitStages : exits'[s][Resource[j]] = exits[s][Resource[j]],
         \A i \in Jobs : Resource[i] = Resource[j] => (work'[i] = "none" <=> work[i] = "none")
  PROVE  j \in Dispatchable
<1> DEFINE Holders == {i \in Running : Resource[i] = Resource[j]}
<1>1. Holders' = Holders
  BY DispatchAssumption DEF Running
<1>2. /\ exits'["requeued"][Resource[j]] = exits["requeued"][Resource[j]]
      /\ exits'["returns"][Resource[j]] = exits["returns"][Resource[j]]
  BY DEF ExitStages
<1>3. PermitsHeld(Resource[j])' = PermitsHeld(Resource[j])
  <2>1. PermitsHeld(Resource[j]) = Cardinality(Holders) + exits["requeued"][Resource[j]] + exits["returns"][Resource[j]]
    BY DEF PermitsHeld
  <2>2. PermitsHeld(Resource[j])' = Cardinality(Holders') + exits'["requeued"][Resource[j]] + exits'["returns"][Resource[j]]
    BY DEF PermitsHeld
  <2> HIDE DEF Holders
  <2> QED
    BY <1>1, <1>2, <2>1, <2>2
<1> QED
  BY <1>3 DEF Dispatchable, Running

\* A step that frees nothing and queues nothing new.
LEMMA NothingFreed ==
  ASSUME Listens, loop = "wait", ~woken, UNCHANGED exits,
         \A i \in Jobs : work'[i] = "none" <=> work[i] = "none",
         \A i \in Jobs : submitting[i] = "pushed" => submitting'[i] = "pushed",
         NEW j \in Jobs, j \in Dispatchable', j \in queue \/ submitting'[j] = "pushed"
  PROVE  Announced(j)'
<1>1. CASE submitting'[j] = "pushed"
  BY <1>1 DEF Announced
<1>2. CASE j \in queue
  <2>1. j \in Dispatchable
    BY <1>2, DispatchableBefore
  <2> QED
    BY <2>1 DEF Listens, WorkIsAnnounced, Announced
<1> QED
  BY <1>1, <1>2

\* A step at the exit of a task with the resource r.
LEMMA FreedIsAnnounced ==
  ASSUME IInv, Listens, loop = "wait", ~woken, UNCHANGED submitting,
         NEW r \in Resources, NEW from, NEW to \in ExitStages, from # to,
         from \in ExitStages => exits[from][r] > 0, exits' = Exits(from, to, r),
         \A i \in Jobs : Resource[i] # r => (work'[i] = "none" <=> work[i] = "none"),
         NEW j \in Jobs, j \in Dispatchable', Resource[j] # r => j \in queue
  PROVE  Announced(j)'
<1>1. /\ \A s \in ExitStages, x \in Resources : exits[s][x] \in Nat
      /\ \A s \in ExitStages, x \in Resources : x # r => exits'[s][x] = exits[s][x]
      /\ exits'[to][r] = exits[to][r] + 1
  BY ExitsAt DEF IInv, Types
<1>2. CASE Resource[j] = r
  BY <1>1, <1>2 DEF Announced
<1>3. CASE Resource[j] # r
  <2>1. Resource[j] \in Resources /\ \A s \in ExitStages : exits'[s][Resource[j]] = exits[s][Resource[j]]
    BY <1>1, <1>3, DispatchAssumption
  <2>2. j \in Dispatchable
    BY <1>3, <2>1, DispatchableBefore
  <2> QED
    BY <2>1, <2>2 DEF Listens, WorkIsAnnounced, Announced
<1> QED
  BY <1>2, <1>3

\* Only the loop moves itself, and besides it only the shutdown's wait, which comes after
\* the loop's end, takes a notification back.
LEMMA SleepsOn ==
  ASSUME IInv, Next, ~LoopStep, loop' # "ended", ~woken'
  PROVE  loop' = loop /\ ~woken
<1>1. ASSUME NEW j \in Jobs, Age(j) \/ OwningStep(j) \/ Submit(j) \/ SubmitStep(j) \/ SignalCancellation(j)
      PROVE  loop' = loop /\ ~woken
  BY <1>1 DEF Age, OwningStep, StartWork, DiscardStart, RequeueAfterStartFailure, RetryWork, NotifyRetried,
              LeaveRunning, Submit, SubmitStep, PushSubmitted, NotifySubmitted, SignalCancellation, NotifyWaiters
<1>2. ASSUME NEW r \in Resources, ExitStep(r)
      PROVE  loop' = loop /\ ~woken
  BY <1>2 DEF ExitStep, NotifyRequeued, CountOff, NotifyEnd, NotifyWaiters
<1>3. ASSUME ShutDown \/ ShutdownStep \/ MeetDeadline
      PROVE  loop' = loop /\ ~woken
  BY <1>3 DEF IInv, ShutDown, ShutdownStep, MeetDeadline, ClearQueue, NotifyShutdown, JoinLoop,
              ReleaseSession, WaitIdle, WakeIdle, NotifyWaiters
<1> QED
  BY <1>1, <1>2, <1>3 DEF Next

\* A step of somebody else while the loop waits.
LEMMA StepIsAnnounced ==
  ASSUME IInv, IInv', Listens, Next, ~LoopStep, loop = "wait", ~woken, ~woken', NEW j \in Dispatchable'
  PROVE  Announced(j)'
<1>j. j \in Jobs /\ j \in queue' /\ work'[j] = "none"
  <2>1. j \in queue' /\ j \notin Running' /\ queue' \subseteq Jobs
    BY DEF Dispatchable, IInv, Types
  <2> QED
    BY <2>1 DEF Running
<1>w. work \in [Jobs -> {"none", "start", "work", "retried", "leave"}]
  BY DEF IInv, Types
<1>1. ASSUME NEW i \in Jobs, StartWork(i) \/ RetryWork(i) \/ NotifyRetried(i)
      PROVE  Announced(j)'
  <2>1. UNCHANGED <<exits, submitting>> /\ queue' \subseteq queue \cup {i}
    BY <1>1 DEF StartWork, RetryWork, NotifyRetried, Push
  <2>2. work[i] # "none" /\ work'[i] # "none" /\ \A k \in Jobs : k # i => work'[k] = work[k]
    BY <1>1, <1>w DEF StartWork, RetryWork, NotifyRetried
  <2> QED
    BY <1>j, <2>1, <2>2, NothingFreed
<1>2. ASSUME NEW i \in Jobs, DiscardStart(i) \/ RequeueAfterStartFailure(i) \/ LeaveRunning(i)
      PROVE  Announced(j)'
  <2>1. PICK stage \in {"requeued", "returns"} : Leaves(i, stage)
    BY <1>2 DEF DiscardStart, RequeueAfterStartFailure, LeaveRunning
  <2>2. UNCHANGED submitting /\ queue' \subseteq queue \cup {i}
    BY <1>2 DEF DiscardStart, RequeueAfterStartFailure, LeaveRunning
  <2>3. exits' = Exits("none", stage, Resource[i]) /\ \A k \in Jobs : k # i => work'[k] = work[k]
    BY <2>1, <1>w DEF Leaves
  <2>4. Resource[i] \in Resources /\ stage \in ExitStages /\ "none" \notin ExitStages /\ stage # "none"
    BY DispatchAssumption DEF ExitStages
  <2> QED
    BY <1>j, <2>2, <2>3, <2>4, FreedIsAnnounced
<1>3. ASSUME NEW r \in Resources, ExitStep(r)
      PROVE  Announced(j)'
  <2>1. CountOff(r)
    BY <1>3 DEF ExitStep, NotifyRequeued, NotifyEnd, NotifyWaiters
  <2>2. /\ exits["returns"][r] > 0 /\ exits' = Exits("returns", "notify", r)
        /\ UNCHANGED <<queue, work, submitting>>
    BY <2>1 DEF CountOff
  <2> QED
    BY <1>j, <2>2, FreedIsAnnounced DEF ExitStages
<1>4. ASSUME NEW i \in Jobs, Age(i) \/ Submit(i) \/ SubmitStep(i) \/ SignalCancellation(i)
      PROVE  Announced(j)'
  <2>1. UNCHANGED <<exits, work>>
    BY <1>4 DEF Age, Submit, SubmitStep, PushSubmitted, NotifySubmitted, SignalCancellation
  <2>2. CASE PushSubmitted(i)
    <3>1. /\ submitting[i] = "checked"
          /\ \/ queue' = queue /\ submitting' = [submitting EXCEPT ![i] = "no"]
             \/ queue' = queue \cup {i} /\ submitting' = [submitting EXCEPT ![i] = "pushed"]
      BY <2>2 DEF PushSubmitted, Push
    <3>2. /\ \A k \in Jobs : submitting[k] = "pushed" => submitting'[k] = "pushed"
          /\ j \in queue \/ submitting'[j] = "pushed"
      BY <1>j, <3>1 DEF Listens
    <3> QED
      BY <1>j, <2>1, <3>2, NothingFreed
  <2>3. CASE Age(i) \/ Submit(i) \/ SignalCancellation(i)
    <3>1. queue' \subseteq queue /\ \A k \in Jobs : submitting[k] = "pushed" => submitting'[k] = "pushed"
      BY <2>3 DEF Age, Submit, SignalCancellation, Listens
    <3> QED
      BY <1>j, <2>1, <3>1, NothingFreed
  <2> QED
    BY <1>4, <2>2, <2>3 DEF SubmitStep, NotifySubmitted, NotifyWaiters
<1>5. ASSUME ShutDown \/ ShutdownStep \/ MeetDeadline
      PROVE  Announced(j)'
  <2>1. UNCHANGED <<exits, work, submitting>> /\ queue' \subseteq queue
    BY <1>5 DEF ShutDown, ShutdownStep, MeetDeadline, ClearQueue, NotifyShutdown, JoinLoop,
                ReleaseSession, WaitIdle, WakeIdle
  <2> QED
    BY <1>j, <2>1, NothingFreed
<1> QED
  BY <1>1, <1>2, <1>3, <1>4, <1>5 DEF Next, OwningStep

\* The last task that is counted off, and the shutdown, are still going to say so.
LEMMA EndStaysAnnounced ==
  ASSUME IInv, IInv', EndIsAnnounced, Next, ~LoopStep, loop \in {"take", "wait"}, ~woken, ~woken',
         shutting', active' = 0
  PROVE  shutdown' \in {"clear", "notify"} \/ \E r \in Resources : exits'["notify"][r] > 0
<1>1. ASSUME NEW j \in Jobs, Age(j) \/ OwningStep(j) \/ Submit(j) \/ SubmitStep(j) \/ SignalCancellation(j)
      PROVE  /\ UNCHANGED <<shutdown, shutting, active>>
             /\ \A r \in Resources : exits'["notify"][r] = exits["notify"][r]
  <2>1. UNCHANGED <<shutdown, shutting, active>>
    BY <1>1 DEF Age, OwningStep, StartWork, DiscardStart, RequeueAfterStartFailure, RetryWork, NotifyRetried,
                LeaveRunning, Submit, SubmitStep, PushSubmitted, NotifySubmitted, SignalCancellation
  <2>2. CASE UNCHANGED exits
    BY <2>1, <2>2
  <2>3. CASE \E stage \in {"requeued", "returns"} : exits' = Exits("none", stage, Resource[j])
    <3>1. PICK stage \in {"requeued", "returns"} : exits' = Exits("none", stage, Resource[j])
      BY <2>3
    <3>2. Resource[j] \in Resources /\ "none" \notin ExitStages /\ "notify" \in ExitStages /\ stage # "none"
      BY DispatchAssumption DEF ExitStages
    <3>3. \A r \in Resources : exits'["notify"][r] = exits["notify"][r]
      BY <3>1, <3>2, ExitsAt DEF IInv
    <3> QED
      BY <2>1, <3>3
  <2> QED
    BY <1>1, <2>2, <2>3 DEF Age, OwningStep, StartWork, DiscardStart, RequeueAfterStartFailure, RetryWork,
                NotifyRetried, LeaveRunning, Leaves, Submit, SubmitStep, PushSubmitted, NotifySubmitted,
                SignalCancellation
<1>2. ASSUME NEW r \in Resources, ExitStep(r)
      PROVE  exits'["notify"][r] > 0
  <2>1. exits' = Exits("returns", "notify", r) /\ exits["returns"][r] > 0
    BY <1>2 DEF ExitStep, NotifyRequeued, CountOff, NotifyEnd, NotifyWaiters
  <2>2. exits'["notify"][r] = exits["notify"][r] + 1 /\ exits["notify"][r] \in Nat
    BY <2>1, ExitsAt DEF IInv, Types, ExitStages
  <2> QED
    BY <2>2
<1>3. ASSUME ShutDown \/ ShutdownStep \/ MeetDeadline
      PROVE  /\ UNCHANGED <<active, exits>>
             /\ \/ shutdown' \in {"clear", "notify"}
                \/ shutting' = shutting /\ shutdown \notin {"clear", "notify"}
  BY <1>3 DEF ShutDown, ShutdownStep, MeetDeadline, ClearQueue, NotifyShutdown, JoinLoop,
              ReleaseSession, WaitIdle, WakeIdle, NotifyWaiters
<1> QED
  BY <1>1, <1>2, <1>3 DEF Next, EndIsAnnounced

\* Every step keeps what the loop is owed.
LEMMA ListensStep ==
  ASSUME IInv, IInv', Listens, [Next]_vars
  PROVE  Listens'
<1>1. submitting' \in [Jobs -> {"no", "checked", "pushed"}]
  BY DEF Listens, Next, vars, LoopStep, Register, CheckShutdown, TakeDispatchable, NothingToTake, Wake,
         Age, OwningStep, StartWork, DiscardStart, RequeueAfterStartFailure, RetryWork, NotifyRetried,
         LeaveRunning, Submit, SubmitStep, PushSubmitted, NotifySubmitted, SignalCancellation,
         ExitStep, NotifyRequeued, CountOff, NotifyEnd, ShutDown, ShutdownStep, MeetDeadline, ClearQueue,
         NotifyShutdown, JoinLoop, ReleaseSession, WaitIdle, WakeIdle
<1>2. CASE LoopStep
  <2>1. WorkIsAnnounced'
    <3>1. CASE loop' = "wait"
      <4>1. Dispatchable = {} /\ UNCHANGED <<queue, work, exits>>
        BY <1>2, <3>1 DEF LoopStep, Register, CheckShutdown, TakeDispatchable, NothingToTake, Wake
      <4>2. Dispatchable' = Dispatchable
        BY <4>1 DEF Dispatchable, Running, PermitsHeld
      <4> QED
        BY <4>1, <4>2 DEF WorkIsAnnounced
    <3> QED
      BY <3>1 DEF WorkIsAnnounced
  <2>2. EndIsAnnounced'
    <3>1. loop' \in {"take", "wait"} =>
            /\ UNCHANGED <<woken, shutting, active, shutdown, exits>>
            /\ loop = "take" \/ ~(shutting /\ active = 0)
      BY <1>2 DEF LoopStep, Register, CheckShutdown, TakeDispatchable, NothingToTake, Wake
    <3> QED
      BY <3>1 DEF EndIsAnnounced, Listens
  <2> QED
    BY <1>1, <2>1, <2>2 DEF Listens
<1>3. CASE Next /\ ~LoopStep
  <2>1. WorkIsAnnounced'
    <3> SUFFICES ASSUME loop' = "wait", ~woken', NEW j \in Dispatchable'
                 PROVE  Announced(j)'
      BY DEF WorkIsAnnounced
    <3> QED
      BY <1>3, SleepsOn, StepIsAnnounced
  <2>2. EndIsAnnounced'
    <3> SUFFICES ASSUME loop' \in {"take", "wait"}, ~woken', shutting', active' = 0
                 PROVE  shutdown' \in {"clear", "notify"} \/ \E r \in Resources : exits'["notify"][r] > 0
      BY DEF EndIsAnnounced
    <3>1. loop' = loop /\ ~woken
      BY <1>3, SleepsOn
    <3> QED
      BY <1>3, <3>1, EndStaysAnnounced DEF Listens
  <2> QED
    BY <1>1, <2>1, <2>2 DEF Listens
<1>4. CASE UNCHANGED vars
  BY <1>4 DEF vars, Listens, WorkIsAnnounced, EndIsAnnounced, Announced, Dispatchable, Running, PermitsHeld
<1> QED
  BY <1>2, <1>3, <1>4

\* The loop never sleeps over work it could dispatch, nor over the end of a shutdown: what it
\* waits for is always going to be notified.  QueuedWorkIsServed and ShutdownEndsTheLoop rest on
\* this and on fairness.
THEOREM NoWakeUpIsLost == Spec => [](WorkIsAnnounced /\ EndIsAnnounced)
<1>1. Init => Listens
  BY DEF Init, Listens, WorkIsAnnounced, EndIsAnnounced
<1>2. IInv /\ IInv' /\ Listens /\ [Next]_vars => Listens'
  BY ListensStep
<1>3. Listens => WorkIsAnnounced /\ EndIsAnnounced
  BY DEF Listens
<1> QED
  BY <1>1, <1>2, <1>3, Invariance, PTL DEF Spec
=============================================================================
