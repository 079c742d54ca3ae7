------------------------ MODULE AgentCycleRefinement ------------------------
(***************************************************************************)
(* The agent's dispatch cycle (AgentCycle) implements ResultDelivery: the  *)
(* channel, the forwarders, the aggregator's receive and the handler's     *)
(* drop and join are internal steps that the abstract specification does  *)
(* not see, and every other step of command_handler, of a task and of      *)
(* result_handler is one abstract step.                                    *)
(***************************************************************************)
EXTENDS AgentCycleProofs

\* The phase of the cycle as the abstract specification sees it: the
\* process has terminated, the aggregator has panicked (the cycle can only
\* end in a panic of the handler), the handler is between Setup and the
\* end of the join, or it is between cycles.
PhaseBar ==
    IF hpc = "terminated" THEN "terminated"
    ELSE IF agg = "panicked" THEN "crashed"
    ELSE IF hpc \in {"checkin", "spawn", "close", "join"} THEN "running"
    ELSE "idle"

\* The abstract sets of commands are read off the tasks' states, and the
\* results written back are the aggregator's writes.
RD == INSTANCE ResultDelivery
        WITH Commands <- Cmds,
             phase <- PhaseBar,
             pending <- {i \in Cmds : task[i] = "running"},
             produced <- {i \in Cmds : task[i] = "done"},
             dropped <- {i \in Cmds : task[i] = "dropped"},
             delivered <- written

\* command_handler and result_handler together deliver results the way
\* ResultDelivery says: each result is written back at most once and only
\* after its task produced it, a cycle returns normally only when no task
\* is pending and every produced result was written, a failed write ends
\* the cycle for good, and the kill date ends the process only between
\* cycles.
RefinesDelivery == RD!Spec

\* Under the runtime's fairness, every result a task produced while the
\* cycle runs is eventually written back by result_handler, unless a
\* protocol.write fails and the aggregator panics first.
EventuallyDelivered == RD!DeliveryProgress

-----------------------------------------------------------------------------
(* Proof of the refinement.                                                *)

\* The handler only panics after the aggregator did: AgentCycleInv does not
\* say so, and the phase mapping needs it.
RefInv ==
    /\ AgentCycleInv
    /\ hpc = "panicked" => agg = "panicked"

LEMMA RefInvInit == Init => RefInv
BY InvInit DEF RefInv, Init

LEMMA RefInvStep == RefInv /\ [Next]_vars => RefInv'
<1> SUFFICES ASSUME RefInv, [Next]_vars PROVE RefInv'
  OBVIOUS
<1>1. AgentCycleInv'
  BY InvStep DEF RefInv
<1>2. (hpc = "panicked" => agg = "panicked")'
  <2>1. CASE hpc' = "panicked" /\ hpc = "panicked"
    <3>1. agg = "panicked"
      BY <2>1 DEF RefInv
    <3>2. agg' = "panicked"
      BY <3>1, <2>1 DEF Next, HandlerStep, TaskStep, AggStep, StartCycle,
         SessionGuard, CheckKillDate, Setup, CheckinWrite, SpawnTask,
         SpawnLoopEnd, DropSender, JoinOk, JoinPanic, TaskComplete,
         TaskDropped, ForwardResult, ForwardToClosed, ForwardNothing,
         AggReceive, AggEnd, AggWriteOk, AggWriteFail, SessionChange,
         KillDatePasses, vars
    <3>3. QED
      BY <3>2
  <2>2. CASE hpc' = "panicked" /\ hpc # "panicked"
    BY <2>2 DEF Next, HandlerStep, TaskStep, AggStep, StartCycle,
       SessionGuard, CheckKillDate, Setup, CheckinWrite, SpawnTask,
       SpawnLoopEnd, DropSender, JoinOk, JoinPanic, TaskComplete,
       TaskDropped, ForwardResult, ForwardToClosed, ForwardNothing,
       AggReceive, AggEnd, AggWriteOk, AggWriteFail, SessionChange,
       KillDatePasses, vars
  <2>3. QED
    BY <2>1, <2>2
<1>3. QED
  BY <1>1, <1>2 DEF RefInv

\* The aggregator is done: no task runs and the results written are
\* exactly those produced.
LEMMA FinishedDrained ==
    ASSUME AgentCycleInv, agg = "finished"
    PROVE  /\ \A i \in Cmds : task[i] # "running"
           /\ RD!Delivered = {i \in Cmds : task[i] = "done"}
<1> USE NTasksAssumption
<1>1. TypeOK /\ SpawnShape /\ ResultPlaces /\ NoneLost /\ Phases
  BY DEF AgentCycleInv, TypeInv
<1>2. chan = <<>> /\ \A i \in Cmds : fwd[i] # "waiting"
  BY <1>1 DEF Phases
<1>3. \A i \in Cmds : task[i] # "running"
  BY <1>1, <1>2 DEF SpawnShape
<1>4. \A i \in Cmds : InWritten(i) <=> i \in RD!Delivered
  BY <1>1 DEF TypeOK, InWritten, Occurs, RD!Delivered
<1>5. RD!Delivered \subseteq Cmds
  BY <1>1 DEF TypeOK, RD!Delivered
<1>6. ASSUME NEW i \in Cmds, task[i] = "done" PROVE InWritten(i)
  <2>1. fwd[i] = "finished"
    BY <1>6, <1>1, <1>2 DEF SpawnShape, TypeOK, FwdStates
  <2>2. ~InChan(i) /\ ~InHand(i)
    BY <1>2 DEF InChan, InHand, Occurs
  <2>3. QED
    BY <1>6, <2>1, <2>2, <1>1 DEF NoneLost, Forwarded
<1>7. ASSUME NEW i \in Cmds, InWritten(i) PROVE task[i] = "done"
  BY <1>7, <1>1 DEF ResultPlaces, Forwarded
<1>8. QED
  BY <1>3, <1>4, <1>5, <1>6, <1>7

\* A running task means a cycle is under way, and a write in flight means
\* it has not crashed.
LEMMA ActivePhase ==
    ASSUME RefInv
    PROVE  /\ (\E i \in Cmds : task[i] = "running")
                => PhaseBar \in {"running", "crashed"}
           /\ agg = "writing" => PhaseBar = "running"
           /\ agg # "panicked" /\ hpc \in {"idle", "start", "killcheck", "setup"}
                => PhaseBar = "idle"
<1> USE NTasksAssumption
<1>1. TypeOK /\ SpawnShape /\ Phases /\ (hpc = "panicked" => agg = "panicked")
  BY DEF RefInv, AgentCycleInv, TypeInv
<1>2. ASSUME NEW i \in Cmds, task[i] = "running"
      PROVE  hpc \notin {"idle", "start", "killcheck", "setup", "terminated"}
  <2>1. CASE agg = "none"
    BY <2>1, <1>1, <1>2 DEF Phases, SpawnShape, Spawned
  <2>2. CASE agg = "finished"
    BY <2>2, <1>1, <1>2 DEF Phases, SpawnShape
  <2>3. QED
    BY <2>1, <2>2, <1>1 DEF Phases
<1>3. (\E i \in Cmds : task[i] = "running") => PhaseBar \in {"running", "crashed"}
  BY <1>1, <1>2 DEF PhaseBar, TypeOK, HandlerStates
<1>4. agg = "writing" => PhaseBar = "running"
  BY <1>1 DEF Phases, PhaseBar, TypeOK, HandlerStates
<1>5. QED
  BY <1>3, <1>4 DEF PhaseBar

\* A step that changes neither the mapped phase, nor the tasks, nor the
\* written results is an abstract stutter.
LEMMA MappedStutter ==
    ASSUME PhaseBar' = PhaseBar, task' = task, written' = written
    PROVE  UNCHANGED RD!vars
BY DEF RD!vars

\* Every step of the agent's cycle is a step of ResultDelivery or leaves
\* the mapped state alone.
LEMMA RefStep == RefInv /\ [Next]_vars => [RD!Next]_RD!vars
<1> SUFFICES ASSUME RefInv, [Next]_vars PROVE [RD!Next]_RD!vars
  OBVIOUS
<1> USE NTasksAssumption
<1>0. TypeOK /\ SpawnShape /\ ResultPlaces /\ Phases
        /\ (agg = "writing" => cur \in Cmds)
        /\ (hpc = "panicked" => agg = "panicked")
  BY DEF RefInv, AgentCycleInv, TypeInv
<1>1. CASE StartCycle
  BY <1>1, <1>0, MappedStutter DEF StartCycle, PhaseBar, Phases
<1>2. CASE SessionGuard
  BY <1>2, <1>0, MappedStutter DEF SessionGuard, PhaseBar, Phases
<1>3. CASE CheckKillDate
  <2>1. PhaseBar = "idle"
    BY <1>3, <1>0 DEF CheckKillDate, PhaseBar, Phases
  <2>2. CASE hpc' = "terminated"
    <3>1. RD!Terminate
      BY <1>3, <2>1, <2>2 DEF CheckKillDate, RD!Terminate, PhaseBar
    <3>2. QED
      BY <3>1 DEF RD!Next
  <2>3. CASE hpc' # "terminated"
    <3>1. hpc' = "setup"
      BY <1>3, <2>3 DEF CheckKillDate
    <3>2. QED
      BY <1>3, <2>1, <3>1, <1>0, MappedStutter DEF CheckKillDate, PhaseBar, Phases
  <2>4. QED
    BY <2>2, <2>3
<1>4. CASE Setup
  <2>1. PhaseBar = "idle"
    BY <1>4, <1>0 DEF Setup, PhaseBar, Phases
  <2>2. RD!Begin
    BY <1>4, <2>1 DEF Setup, RD!Begin, PhaseBar
  <2>3. QED
    BY <2>2 DEF RD!Next
<1>5. CASE CheckinWrite
  BY <1>5, <1>0, MappedStutter DEF CheckinWrite, PhaseBar
<1>6. CASE SpawnTask
  <2>1. next \in Cmds /\ task[next] = "none"
    BY <1>6, <1>0 DEF SpawnTask, TypeOK, SpawnShape, Spawned, Cmds
  <2>2. PhaseBar \in {"running", "crashed"} /\ PhaseBar' = PhaseBar
    BY <1>6 DEF SpawnTask, PhaseBar
  <2>3. RD!Spawn(next)
    <3>1. {i \in Cmds : task'[i] = "running"}
            = {i \in Cmds : task[i] = "running"} \cup {next}
      BY <1>6, <2>1, <1>0 DEF SpawnTask, TypeOK
    <3>2. /\ {i \in Cmds : task'[i] = "done"} = {i \in Cmds : task[i] = "done"}
          /\ {i \in Cmds : task'[i] = "dropped"} = {i \in Cmds : task[i] = "dropped"}
      BY <1>6, <2>1, <1>0 DEF SpawnTask, TypeOK
    <3>3. QED
      BY <1>6, <2>1, <2>2, <3>1, <3>2 DEF SpawnTask, RD!Spawn
  <2>4. \E c \in Cmds : RD!Spawn(c)
    BY <2>1, <2>3 DEF RD!Spawn
  <2>5. QED
    BY <2>4 DEF RD!Next
<1>7. CASE SpawnLoopEnd
  BY <1>7, MappedStutter DEF SpawnLoopEnd, PhaseBar
<1>8. CASE DropSender
  BY <1>8, MappedStutter DEF DropSender, PhaseBar
<1>9. CASE JoinOk
  <2>1. /\ \A i \in Cmds : task[i] # "running"
        /\ RD!Delivered = {i \in Cmds : task[i] = "done"}
    BY <1>9, FinishedDrained DEF JoinOk, RefInv
  <2>2. RD!Finish
    BY <1>9, <2>1 DEF JoinOk, RD!Finish, PhaseBar
  <2>3. QED
    BY <2>2 DEF RD!Next
<1>10. CASE JoinPanic
  BY <1>10, MappedStutter DEF JoinPanic, PhaseBar
<1>11. ASSUME NEW i \in Cmds, TaskComplete(i) PROVE [RD!Next]_RD!vars
  <2>1. PhaseBar \in {"running", "crashed"} /\ PhaseBar' = PhaseBar
    BY <1>11, ActivePhase DEF TaskComplete, PhaseBar
  <2>2. RD!Produce(i)
    BY <1>11, <2>1, <1>0 DEF TaskComplete, RD!Produce, TypeOK
  <2>3. QED
    BY <2>2 DEF RD!Next
<1>12. ASSUME NEW i \in Cmds, TaskDropped(i) PROVE [RD!Next]_RD!vars
  <2>1. PhaseBar \in {"running", "crashed"} /\ PhaseBar' = PhaseBar
    BY <1>12, ActivePhase DEF TaskDropped, PhaseBar
  <2>2. RD!Drop(i)
    BY <1>12, <2>1, <1>0 DEF TaskDropped, RD!Drop, TypeOK
  <2>3. QED
    BY <2>2 DEF RD!Next
<1>13. ASSUME NEW i \in Cmds,
              ForwardResult(i) \/ ForwardToClosed(i) \/ ForwardNothing(i)
       PROVE  [RD!Next]_RD!vars
  BY <1>13, MappedStutter
     DEF ForwardResult, ForwardToClosed, ForwardNothing, PhaseBar
<1>14. CASE AggReceive \/ AggEnd
  BY <1>14, MappedStutter DEF AggReceive, AggEnd, PhaseBar
<1>15. CASE AggWriteOk
  <2>1. PhaseBar = "running" /\ PhaseBar' = "running"
    BY <1>15, ActivePhase DEF AggWriteOk, PhaseBar
  <2>2. cur \in Cmds /\ task[cur] = "done" /\ cur \notin RD!Delivered
    <3>1. cur \in Cmds /\ InHand(cur)
      BY <1>15, <1>0 DEF AggWriteOk, InHand
    <3>2. task[cur] = "done" /\ ~InWritten(cur)
      BY <3>1, <1>0 DEF ResultPlaces, Forwarded
    <3>3. QED
      BY <3>1, <3>2, <1>0 DEF InWritten, Occurs, RD!Delivered, TypeOK
  <2>3. RD!Deliver(cur)
    BY <1>15, <2>1, <2>2 DEF AggWriteOk, RD!Deliver
  <2>4. QED
    BY <2>2, <2>3 DEF RD!Next
<1>16. CASE AggWriteFail
  <2>1. PhaseBar = "running" /\ PhaseBar' = "crashed"
    BY <1>16, ActivePhase DEF AggWriteFail, PhaseBar
  <2>2. RD!Crash
    BY <1>16, <2>1 DEF AggWriteFail, RD!Crash
  <2>3. QED
    BY <2>2 DEF RD!Next
<1>17. CASE SessionChange \/ KillDatePasses
  BY <1>17, MappedStutter DEF SessionChange, KillDatePasses, PhaseBar
<1>18. CASE UNCHANGED vars
  BY <1>18, MappedStutter DEF vars, PhaseBar
<1>19. QED
  BY <1>1, <1>2, <1>3, <1>4, <1>5, <1>6, <1>7, <1>8, <1>9, <1>10, <1>11,
     <1>12, <1>13, <1>14, <1>15, <1>16, <1>17, <1>18
     DEF Next, HandlerStep, TaskStep, AggStep

\* The initial state of the agent (no cycle started, no task, nothing
\* written) is an initial state of ResultDelivery.
LEMMA RefInit == Init => RD!Init
BY DEF Init, RD!Init, PhaseBar

\* For every number of commands, channel capacity and bound on cycles,
\* command_handler with result_handler implements ResultDelivery: a result
\* is written back at most once and only after its task produced it, a
\* cycle returns only when every produced result was written, and a failed
\* write ends the cycle for good.
THEOREM Refinement == Spec => RefinesDelivery
<1>1. Spec => []RefInv
  BY RefInvInit, RefInvStep, PTL DEF Spec
<1>2. QED
  BY <1>1, RefInit, RefStep, PTL DEF Spec, RefinesDelivery, RD!Spec

=============================================================================
