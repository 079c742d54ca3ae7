------------------------- MODULE AgentCycleProofs -------------------------
(***************************************************************************)
(* Proofs about AgentCycle that hold for every number of commands, every   *)
(* channel capacity and every bound on the cycles.                         *)
(***************************************************************************)
EXTENDS AgentCycle, TLAPS

(***************************************************************************)
(* TypeOK is not inductive by itself: AggWriteOk appends cur to written,   *)
(* and only the fact that cur holds a received result while the            *)
(* aggregator is writing keeps written a sequence of commands.             *)
(***************************************************************************)
TypeInv ==
    /\ TypeOK
    /\ agg = "writing" => cur \in Cmds

\* The strengthened type invariant holds initially ...
LEMMA TypeInvInit == Init => TypeInv
<1> USE NTasksAssumption, CapacityAssumption, MaxCyclesAssumption
<1> SUFFICES ASSUME Init PROVE TypeInv
  OBVIOUS
<1>1. task \in [Cmds -> TaskStates] /\ fwd \in [Cmds -> FwdStates]
  BY DEF Init, TaskStates, FwdStates
<1>2. cur \in Cmds \cup {NoResult} /\ next \in 1..(NTasks + 1)
  BY DEF Init
<1>3. chan \in Seq(Cmds) /\ Len(chan) <= Capacity /\ written \in Seq(Cmds)
  BY DEF Init
<1>4. hpc \in HandlerStates /\ agg \in AggStates /\ agg # "writing"
  BY DEF Init, HandlerStates, AggStates
<1>5. cycle \in 0..MaxCycles
  BY DEF Init
<1>6. connected \in BOOLEAN /\ killPassed \in BOOLEAN /\ txOpen \in BOOLEAN
  BY DEF Init
<1>7. QED
  BY <1>1, <1>2, <1>3, <1>4, <1>5, <1>6 DEF TypeInv, TypeOK

\* ... and every step of a cycle preserves it.
LEMMA TypeInvStep == TypeInv /\ [Next]_vars => TypeInv'
<1> USE NTasksAssumption, CapacityAssumption, MaxCyclesAssumption
<1> SUFFICES ASSUME TypeInv, [Next]_vars PROVE TypeInv'
  OBVIOUS
<1> USE DEF TypeInv, TypeOK, HandlerStates, TaskStates, FwdStates,
            AggStates
<1>1. CASE StartCycle
  BY <1>1 DEF StartCycle
<1>2. CASE SessionGuard
  BY <1>2 DEF SessionGuard
<1>3. CASE CheckKillDate
  BY <1>3 DEF CheckKillDate, ExitCommandOutcomes
<1>4. CASE Setup
  BY <1>4 DEF Setup, Cmds, NoResult
<1>5. CASE CheckinWrite
  BY <1>5 DEF CheckinWrite
<1>6. CASE SpawnTask
  BY <1>6 DEF SpawnTask, Cmds
<1>7. CASE SpawnLoopEnd
  BY <1>7 DEF SpawnLoopEnd
<1>8. CASE DropSender
  BY <1>8 DEF DropSender
<1>9. CASE JoinOk
  BY <1>9 DEF JoinOk
<1>10. CASE JoinPanic
  BY <1>10 DEF JoinPanic
<1>11. ASSUME NEW i \in Cmds, TaskStep(i) PROVE TypeInv'
  <2>1. CASE TaskComplete(i)
    BY <2>1 DEF TaskComplete
  <2>2. CASE TaskDropped(i)
    BY <2>2 DEF TaskDropped
  <2>3. CASE ForwardResult(i)
    <3>1. Append(chan, i) \in Seq(Cmds) /\ Len(Append(chan, i)) <= Capacity
      BY <2>3 DEF ForwardResult
    <3>2. QED
      BY <2>3, <3>1 DEF ForwardResult
  <2>4. CASE ForwardToClosed(i)
    BY <2>4 DEF ForwardToClosed
  <2>5. CASE ForwardNothing(i)
    BY <2>5 DEF ForwardNothing
  <2>6. QED
    BY <1>11, <2>1, <2>2, <2>3, <2>4, <2>5 DEF TaskStep
<1>12. CASE AggReceive
  <2>1. chan \in Seq(Cmds) /\ chan # <<>> /\ Len(chan) <= Capacity
    BY <1>12 DEF AggReceive
  <2>2. Head(chan) \in Cmds /\ Tail(chan) \in Seq(Cmds)
        /\ Len(Tail(chan)) <= Capacity
    BY <2>1
  <2>3. QED
    BY <1>12, <2>2 DEF AggReceive
<1>13. CASE AggEnd
  BY <1>13 DEF AggEnd
<1>14. CASE AggWriteOk
  BY <1>14 DEF AggWriteOk
<1>15. CASE AggWriteFail
  BY <1>15 DEF AggWriteFail
<1>16. CASE SessionChange
  BY <1>16 DEF SessionChange
<1>17. CASE KillDatePasses
  BY <1>17 DEF KillDatePasses
<1>18. CASE UNCHANGED vars
  BY <1>18 DEF vars
<1>19. QED
  BY <1>1, <1>2, <1>3, <1>4, <1>5, <1>6, <1>7, <1>8, <1>9, <1>10, <1>11,
     <1>12, <1>13, <1>14, <1>15, <1>16, <1>17, <1>18
  DEF Next, HandlerStep, AggStep

\* Every reachable state of a cycle is well typed, and in particular the
\* result channel never holds more than Capacity results (a forwarder only
\* sends into a channel with room).
THEOREM TypeCorrect == Spec => []TypeOK
<1>1. TypeInv => TypeOK
  BY DEF TypeInv
<1>2. QED
  BY TypeInvInit, TypeInvStep, <1>1, PTL DEF Spec

-----------------------------------------------------------------------------
(***************************************************************************)
(* The inductive invariant behind BetweenCycles.  A result travels from    *)
(* its task to its forwarder, into the channel, into the aggregator's hand *)
(* and into written; the invariant says it is in exactly one of these      *)
(* places, that a finished aggregator leaves nothing behind, and which     *)
(* aggregator states each handler state allows.                            *)
(***************************************************************************)

\* x occurs in the sequence s.
Occurs(s, x) == \E k \in 1..Len(s) : s[k] = x

\* Result i is buffered in the channel.
InChan(i) == Occurs(chan, i)

\* Result i is being written by the aggregator.
InHand(i) == agg = "writing" /\ cur = i

\* Result i has been written back.
InWritten(i) == Occurs(written, i)

\* Result i was produced by its task and handed over by its forwarder.
Forwarded(i) == task[i] = "done" /\ fwd[i] = "finished"

\* Tasks and forwarders exist exactly for the spawned commands, and a task
\* that still runs has a forwarder waiting for it.
SpawnShape ==
    \A i \in Cmds :
        /\ (i \in Spawned) <=> (task[i] # "none")
        /\ (task[i] = "none") <=> (fwd[i] = "none")
        /\ task[i] = "running" => fwd[i] = "waiting"

\* Every result in the channel, in the aggregator's hand or written was
\* forwarded, and sits in one place only.
ResultPlaces ==
    /\ NoDuplicates(chan)
    /\ NoDuplicates(written)
    /\ \A i \in Cmds :
         /\ InChan(i) => Forwarded(i) /\ ~InHand(i) /\ ~InWritten(i)
         /\ InHand(i) => Forwarded(i) /\ ~InWritten(i)
         /\ InWritten(i) => Forwarded(i)

\* While the aggregator has not panicked, no forwarded result is lost.
NoneLost ==
    agg # "panicked" =>
        \A i \in Cmds : Forwarded(i) => InChan(i) \/ InHand(i) \/ InWritten(i)

\* Which aggregator states go with which handler states, and what the
\* aggregator's end of stream leaves behind.
Phases ==
    /\ agg = "none" => next = 1 /\ chan = <<>> /\ written = <<>>
    /\ hpc \in {"idle", "start", "killcheck", "setup", "terminated"}
         => agg \in {"none", "finished"}
    /\ hpc \in {"checkin", "spawn", "close"}
         => txOpen /\ agg \in {"recv", "writing", "panicked"}
    /\ agg = "finished" =>
         /\ ~txOpen
         /\ chan = <<>>
         /\ \A i \in Cmds : fwd[i] # "waiting"

\* Every result a task of command_handler's spawn loop produced is, while
\* result_handler lives, in exactly one place on its way from the forwarder
\* through the mpsc channel to protocol.write, and the handler's and the
\* aggregator's states agree with the order drop, recv and join happen in.
AgentCycleInv ==
    /\ TypeInv
    /\ SpawnShape
    /\ ResultPlaces
    /\ NoneLost
    /\ Phases

-----------------------------------------------------------------------------

-----------------------------------------------------------------------------
(* Facts about the sequences the channel and the written results are.     *)

\* Appending x to s adds x, and only x, to the elements of s.
LEMMA OccursAppend ==
    ASSUME NEW S, NEW s \in Seq(S), NEW x \in S, NEW y
    PROVE  Occurs(Append(s, x), y) <=> Occurs(s, y) \/ y = x
BY DEF Occurs

\* Appending an element that is not yet in s keeps s free of duplicates.
LEMMA NoDuplicatesAppend ==
    ASSUME NEW S, NEW s \in Seq(S), NEW x \in S,
           NoDuplicates(s), ~Occurs(s, x)
    PROVE  NoDuplicates(Append(s, x))
BY DEF NoDuplicates, Occurs

\* Removing the head of a sequence without duplicates removes exactly the
\* head from its elements.
LEMMA OccursTail ==
    ASSUME NEW S, NEW s \in Seq(S), s # <<>>, NoDuplicates(s), NEW y
    PROVE  /\ Occurs(Tail(s), y) <=> Occurs(s, y) /\ y # Head(s)
           /\ NoDuplicates(Tail(s))
<1>1. Len(s) >= 1 /\ Head(s) = s[1]
  OBVIOUS
<1>2. Occurs(Tail(s), y) <=> \E k \in 2..Len(s) : s[k] = y
  <2>1. Len(Tail(s)) = Len(s) - 1
        /\ \A k \in 1..Len(Tail(s)) : Tail(s)[k] = s[k + 1]
    BY <1>1
  <2>2. QED
    BY <2>1 DEF Occurs
<1>3. Occurs(s, y) <=> y = s[1] \/ \E k \in 2..Len(s) : s[k] = y
  BY <1>1 DEF Occurs
<1>4. (\E k \in 2..Len(s) : s[k] = y) => y # s[1]
  BY DEF NoDuplicates
<1>5. NoDuplicates(Tail(s))
  BY <1>1 DEF NoDuplicates
<1>6. QED
  BY <1>1, <1>2, <1>3, <1>4, <1>5


\* The invariant holds before the first cycle.
LEMMA InvInit == Init => AgentCycleInv
<1> SUFFICES ASSUME Init PROVE AgentCycleInv
  OBVIOUS
<1>1. TypeInv
  BY TypeInvInit
<1>2. SpawnShape
  BY NTasksAssumption DEF Init, SpawnShape, Spawned, Cmds
<1>3. ResultPlaces /\ NoneLost
  BY DEF Init, ResultPlaces, NoneLost, NoDuplicates, InChan, InHand,
         InWritten, Forwarded, Occurs
<1>4. Phases
  BY DEF Init, Phases
<1>5. QED
  BY <1>1, <1>2, <1>3, <1>4 DEF AgentCycleInv

\* The parts of the invariant about results, which the handler's steps
\* other than Setup and SpawnTask do not touch.
ResultVars == <<next, task, fwd, chan, agg, cur, written>>

LEMMA ResultPartsUnchanged ==
    ASSUME SpawnShape, ResultPlaces, NoneLost, UNCHANGED ResultVars
    PROVE  SpawnShape' /\ ResultPlaces' /\ NoneLost'
BY DEF ResultVars, SpawnShape, ResultPlaces, NoneLost, NoDuplicates,
       InChan, InHand, InWritten, Forwarded, Spawned

\* Every step preserves the invariant.
LEMMA InvStep == AgentCycleInv /\ [Next]_vars => AgentCycleInv'
<1> SUFFICES ASSUME AgentCycleInv, [Next]_vars PROVE AgentCycleInv'
  OBVIOUS
<1> USE NTasksAssumption, CapacityAssumption, MaxCyclesAssumption
<1>0. TypeInv'
  BY TypeInvStep DEF AgentCycleInv
<1> DEFINE Rest == SpawnShape /\ ResultPlaces /\ NoneLost /\ Phases
<1>a. SUFFICES Rest'
  BY <1>0 DEF AgentCycleInv
<1>b. TypeInv /\ SpawnShape /\ ResultPlaces /\ NoneLost /\ Phases
  BY DEF AgentCycleInv
<1>1. CASE StartCycle
  BY <1>1, <1>b, ResultPartsUnchanged DEF StartCycle, ResultVars, Phases
<1>2. CASE SessionGuard
  BY <1>2, <1>b, ResultPartsUnchanged DEF SessionGuard, ResultVars, Phases
<1>3. CASE CheckKillDate
  BY <1>3, <1>b, ResultPartsUnchanged DEF CheckKillDate, ExitCommandOutcomes,
                                          ResultVars, Phases
<1>4. CASE Setup
  BY <1>4, <1>b DEF Setup, SpawnShape, ResultPlaces, NoneLost, Phases,
         NoDuplicates, InChan, InHand, InWritten, Forwarded, Spawned, Cmds,
         Occurs
<1>5. CASE CheckinWrite
  BY <1>5, <1>b, ResultPartsUnchanged DEF CheckinWrite, ResultVars, Phases
<1>6. CASE SpawnTask
  <2>1. SpawnShape'
    BY <1>6, <1>b DEF SpawnTask, SpawnShape, Spawned, TypeInv, TypeOK, Cmds
  <2>a. next \in Cmds /\ task[next] = "none"
    BY <1>6, <1>b DEF SpawnTask, SpawnShape, Spawned, TypeInv, TypeOK, Cmds
  <2>b. \A i \in Cmds : Forwarded(i)' <=> Forwarded(i)
    BY <1>6, <2>a, <1>b DEF SpawnTask, Forwarded, TypeInv, TypeOK
  <2>c. UNCHANGED <<chan, written, agg, cur>>
    BY <1>6 DEF SpawnTask
  <2>2. ResultPlaces' /\ NoneLost'
    BY <2>b, <2>c, <1>b DEF ResultPlaces, NoneLost, InChan, InHand,
                            InWritten
  <2>3. Phases'
    BY <1>6, <1>b DEF SpawnTask, Phases
  <2>4. QED
    BY <2>1, <2>2, <2>3
<1>7. CASE SpawnLoopEnd
  BY <1>7, <1>b, ResultPartsUnchanged DEF SpawnLoopEnd, ResultVars, Phases
<1>8. CASE DropSender
  BY <1>8, <1>b, ResultPartsUnchanged DEF DropSender, ResultVars, Phases
<1>9. CASE JoinOk
  BY <1>9, <1>b, ResultPartsUnchanged DEF JoinOk, ResultVars, Phases
<1>10. CASE JoinPanic
  BY <1>10, <1>b, ResultPartsUnchanged DEF JoinPanic, ResultVars, Phases
<1>11. CASE SessionChange
  BY <1>11, <1>b, ResultPartsUnchanged DEF SessionChange, ResultVars, Phases
<1>12. CASE KillDatePasses
  BY <1>12, <1>b, ResultPartsUnchanged DEF KillDatePasses, ResultVars,
         Phases
<1>13. CASE UNCHANGED vars
  BY <1>13, <1>b, ResultPartsUnchanged DEF vars, ResultVars, Phases
<1>15. ASSUME NEW i \in Cmds, TaskComplete(i) \/ TaskDropped(i)
       PROVE  Rest'
  <2>0. PICK v \in {"done", "dropped"} :
          /\ task[i] = "running"
          /\ task' = [task EXCEPT ![i] = v]
          /\ UNCHANGED <<next, fwd, chan, agg, cur, written, hpc, txOpen>>
    BY <1>15 DEF TaskComplete, TaskDropped
  <2>1. fwd[i] = "waiting" /\ task' = [task EXCEPT ![i] = v]
        /\ UNCHANGED <<next, fwd, chan, agg, cur, written, hpc, txOpen>>
    BY <2>0, <1>b DEF SpawnShape
  <2>2. SpawnShape'
    BY <2>1, <1>b DEF SpawnShape, Spawned, TypeInv, TypeOK
  <2>3. \A j \in Cmds : Forwarded(j)' <=> Forwarded(j)
    BY <2>1, <1>b DEF Forwarded, TypeInv, TypeOK
  <2>4. ResultPlaces' /\ NoneLost' /\ Phases'
    BY <2>1, <2>3, <1>b DEF ResultPlaces, NoneLost, Phases, InChan, InHand,
                            InWritten
  <2>5. QED
    BY <2>2, <2>4
<1>16. ASSUME NEW i \in Cmds, ForwardResult(i) PROVE Rest'
  <2>1. fwd[i] = "waiting" /\ task[i] = "done" /\ agg \in {"recv", "writing"}
        /\ chan' = Append(chan, i)
        /\ fwd' = [fwd EXCEPT ![i] = "finished"]
        /\ UNCHANGED <<next, task, agg, cur, written, hpc, txOpen>>
    BY <1>16 DEF ForwardResult, RxAlive
  <2>2. ~Forwarded(i) /\ ~InChan(i) /\ ~InHand(i) /\ ~InWritten(i)
    BY <2>1, <1>b DEF Forwarded, ResultPlaces
  <2>3. \A j \in Cmds : Forwarded(j)' <=> Forwarded(j) \/ j = i
    BY <2>1, <1>b DEF Forwarded, TypeInv, TypeOK
  <2>4. \A j \in Cmds : InChan(j)' <=> InChan(j) \/ j = i
    BY <2>1, <1>b, OccursAppend DEF InChan, TypeInv, TypeOK
  <2>5. NoDuplicates(chan')
    BY <2>1, <2>2, <1>b, NoDuplicatesAppend
    DEF InChan, ResultPlaces, TypeInv, TypeOK
  <2>6. SpawnShape'
    BY <2>1, <1>b DEF SpawnShape, Spawned, TypeInv, TypeOK
  <2>7. ResultPlaces'
    BY <2>1, <2>2, <2>3, <2>4, <2>5, <1>b
    DEF ResultPlaces, InHand, InWritten
  <2>8. NoneLost'
    BY <2>1, <2>3, <2>4, <1>b DEF NoneLost, InHand, InWritten
  <2>9. Phases'
    BY <2>1, <1>b DEF Phases
  <2>10. QED
    BY <2>6, <2>7, <2>8, <2>9
<1>17. ASSUME NEW i \in Cmds, ForwardToClosed(i) \/ ForwardNothing(i)
       PROVE  Rest'
  <2>1. fwd[i] = "waiting"
        /\ fwd' = [fwd EXCEPT ![i] = "finished"]
        /\ UNCHANGED <<next, task, chan, agg, cur, written, hpc, txOpen>>
    BY <1>17 DEF ForwardToClosed, ForwardNothing
  <2>2. task[i] \in {"done", "dropped"}
    BY <1>17 DEF ForwardToClosed, ForwardNothing
  <2>3. agg # "none"
    BY <2>2, <1>b DEF Phases, SpawnShape, Spawned
  <2>4. agg # "finished"
    BY <2>1, <1>b DEF Phases
  <2>5. CASE ForwardToClosed(i)
    <3>1. agg = "panicked"
      BY <2>5, <2>3, <2>4, <1>b DEF ForwardToClosed, RxAlive, TypeInv,
                                    TypeOK, AggStates
    <3>2. ~InChan(i) /\ ~InHand(i) /\ ~InWritten(i)
      BY <2>1, <1>b DEF ResultPlaces, Forwarded
    <3>3. \A j \in Cmds \ {i} : Forwarded(j)' <=> Forwarded(j)
      BY <2>1, <1>b DEF Forwarded, TypeInv, TypeOK
    <3>4. SpawnShape'
      <4>1. fwd' \in [Cmds -> FwdStates] /\ fwd'[i] = "finished"
        BY <2>1, <1>b DEF TypeInv, TypeOK, FwdStates
      <4>2. QED
        BY <2>1, <2>2, <4>1, <1>b DEF SpawnShape, Spawned
    <3>5. ResultPlaces'
      BY <2>1, <3>2, <3>3, <1>b DEF ResultPlaces, InChan, InHand, InWritten
    <3>6. NoneLost' /\ Phases'
      BY <2>1, <3>1, <1>b DEF NoneLost, Phases, TypeInv, TypeOK
    <3>7. QED
      BY <3>4, <3>5, <3>6
  <2>6. CASE ForwardNothing(i)
    <3>1. task[i] = "dropped"
      BY <2>6 DEF ForwardNothing
    <3>2. \A j \in Cmds : Forwarded(j)' <=> Forwarded(j)
      BY <2>1, <3>1, <1>b DEF Forwarded, TypeInv, TypeOK
    <3>3. SpawnShape'
      <4>1. fwd' \in [Cmds -> FwdStates] /\ fwd'[i] = "finished"
        BY <2>1, <1>b DEF TypeInv, TypeOK, FwdStates
      <4>2. QED
        BY <2>1, <2>2, <4>1, <1>b DEF SpawnShape, Spawned
    <3>4. ResultPlaces' /\ NoneLost'
      BY <2>1, <3>2, <1>b DEF ResultPlaces, NoneLost, InChan, InHand,
                              InWritten
    <3>5. Phases'
      BY <2>1, <1>b DEF Phases, TypeInv, TypeOK
    <3>6. QED
      BY <3>3, <3>4, <3>5
  <2>7. QED
    BY <1>17, <2>5, <2>6
<1>18. CASE AggReceive
  <2>1. agg = "recv" /\ chan # <<>> /\ agg' = "writing"
        /\ cur' = Head(chan) /\ chan' = Tail(chan)
        /\ UNCHANGED <<next, task, fwd, written, hpc, txOpen>>
    BY <1>18 DEF AggReceive
  <2>2. chan \in Seq(Cmds) /\ NoDuplicates(chan)
    BY <1>b DEF TypeInv, TypeOK, ResultPlaces
  <2>3. \A j \in Cmds : InChan(j)' <=> InChan(j) /\ j # Head(chan)
    BY <2>1, <2>2, OccursTail DEF InChan
  <2>4. NoDuplicates(chan')
    BY <2>1, <2>2, OccursTail
  <2>5. InChan(Head(chan)) /\ Head(chan) \in Cmds
    <3>1. Len(chan) >= 1
      BY <2>1, <2>2
    <3>2. QED
      BY <2>1, <2>2, <3>1 DEF InChan, Occurs
  <2>6. \A j \in Cmds : InHand(j)' <=> j = Head(chan)
    BY <2>1 DEF InHand
  <2>7. \A j \in Cmds : ~InHand(j)
    BY <2>1 DEF InHand
  <2>8. UNCHANGED <<task, fwd, written>>
    BY <2>1
  <2>9. SpawnShape'
    BY <2>1, <1>b DEF SpawnShape, Spawned
  <2>10. ResultPlaces'
    BY <2>3, <2>4, <2>5, <2>6, <2>8, <1>b
    DEF ResultPlaces, Forwarded, InWritten
  <2>11. NoneLost'
    BY <2>1, <2>3, <2>6, <2>7, <2>8, <1>b DEF NoneLost, Forwarded, InWritten
  <2>12. Phases'
    BY <2>1, <1>b DEF Phases
  <2>13. QED
    BY <2>9, <2>10, <2>11, <2>12
<1>19. CASE AggEnd
  <2>1. agg = "recv" /\ chan = <<>> /\ ~txOpen
        /\ (\A j \in Cmds : fwd[j] # "waiting") /\ agg' = "finished"
        /\ UNCHANGED <<next, task, fwd, chan, cur, written, hpc, txOpen>>
    BY <1>19 DEF AggEnd, SendersAlive
  <2>2. \A j \in Cmds : ~InHand(j) /\ ~InHand(j)'
    BY <2>1 DEF InHand
  <2>3. QED
    BY <2>1, <2>2, <1>b
    DEF SpawnShape, Spawned, ResultPlaces, NoneLost, Phases, InChan,
        InWritten, Forwarded
<1>20. CASE AggWriteOk
  <2>1. agg = "writing" /\ agg' = "recv" /\ written' = Append(written, cur)
        /\ UNCHANGED <<next, task, fwd, chan, cur, hpc, txOpen>>
    BY <1>20 DEF AggWriteOk
  <2>2. cur \in Cmds /\ written \in Seq(Cmds) /\ InHand(cur)
    BY <2>1, <1>b DEF TypeInv, TypeOK, InHand
  <2>3. Forwarded(cur) /\ ~InWritten(cur) /\ ~InChan(cur)
    BY <2>2, <1>b DEF ResultPlaces
  <2>4. \A j \in Cmds : InWritten(j)' <=> InWritten(j) \/ j = cur
    BY <2>1, <2>2, OccursAppend DEF InWritten
  <2>5. NoDuplicates(written')
    BY <2>1, <2>2, <2>3, <1>b, NoDuplicatesAppend
    DEF InWritten, ResultPlaces
  <2>6. \A j \in Cmds : ~InHand(j)' /\ (InHand(j) <=> j = cur)
    BY <2>1 DEF InHand
  <2>7. SpawnShape'
    BY <2>1, <1>b DEF SpawnShape, Spawned
  <2>8. ResultPlaces'
    BY <2>1, <2>3, <2>4, <2>5, <2>6, <1>b
    DEF ResultPlaces, Forwarded, InChan
  <2>9. NoneLost'
    BY <2>1, <2>4, <2>6, <1>b DEF NoneLost, Forwarded, InChan
  <2>10. Phases'
    BY <2>1, <1>b DEF Phases
  <2>11. QED
    BY <2>7, <2>8, <2>9, <2>10
<1>21. CASE AggWriteFail
  <2>1. agg = "writing" /\ agg' = "panicked" /\ chan' = <<>>
        /\ UNCHANGED <<next, task, fwd, cur, written, hpc, txOpen>>
    BY <1>21 DEF AggWriteFail
  <2>2. \A j \in Cmds : ~InChan(j)' /\ ~InHand(j)'
    BY <2>1 DEF InChan, InHand, Occurs
  <2>3. QED
    BY <2>1, <2>2, <1>b
    DEF SpawnShape, Spawned, ResultPlaces, NoneLost, Phases, NoDuplicates,
        InWritten, Forwarded
<1>22. QED
  BY <1>1, <1>2, <1>3, <1>4, <1>5, <1>6, <1>7, <1>8, <1>9, <1>10, <1>11,
     <1>12, <1>13, <1>15, <1>16, <1>17, <1>18, <1>19, <1>20, <1>21
  DEF Next, HandlerStep, AggStep, TaskStep


-----------------------------------------------------------------------------
(* From the invariant to BetweenCycles.                                    *)

LEMMA InvImpliesBetweenCycles == AgentCycleInv => BetweenCycles
<1> SUFFICES ASSUME AgentCycleInv,
                    hpc \in {"idle", "start", "terminated"}
             PROVE  BetweenCycles
  BY DEF BetweenCycles
<1>1. TypeOK /\ SpawnShape /\ ResultPlaces /\ NoneLost /\ Phases
  BY DEF AgentCycleInv, TypeInv
<1>2. agg \in {"none", "finished"}
  BY <1>1 DEF Phases
<1>3. chan = <<>>
  BY <1>1, <1>2 DEF Phases
<1>4. \A i \in Cmds : fwd[i] # "waiting"
  <2>1. CASE agg = "none"
    <3>1. Spawned = {}
      BY <2>1, <1>1 DEF Phases, Spawned
    <3>2. QED
      BY <3>1, <1>1 DEF SpawnShape
  <2>2. CASE agg = "finished"
    BY <2>2, <1>1 DEF Phases
  <2>3. QED
    BY <1>2, <2>1, <2>2
<1>5. \A i \in Cmds : task[i] # "running"
  BY <1>1, <1>4 DEF SpawnShape
<1>6. \A i \in Cmds : InWritten(i) <=> i \in Elems(written)
  BY <1>1 DEF TypeOK, InWritten, Occurs, Elems
<1>7. Spawned \subseteq Cmds
  BY <1>1, NTasksAssumption DEF TypeOK, Spawned, Cmds
<1>8. Elems(written) \subseteq Cmds
  BY <1>1 DEF TypeOK, Elems
<1>9. ASSUME NEW i \in Cmds, InWritten(i)
      PROVE  i \in Spawned /\ task[i] = "done"
  BY <1>9, <1>1 DEF ResultPlaces, Forwarded, SpawnShape
<1>10. ASSUME NEW i \in Spawned, task[i] = "done" PROVE InWritten(i)
  <2>1. i \in Cmds
    BY <1>7
  <2>2. fwd[i] = "finished"
    BY <2>1, <1>10, <1>1, <1>4 DEF SpawnShape, TypeOK, FwdStates
  <2>3. ~InChan(i) /\ ~InHand(i)
    BY <1>2, <1>3 DEF InChan, InHand, Occurs
  <2>4. QED
    BY <2>1, <2>2, <2>3, <1>10, <1>1, <1>2 DEF NoneLost, Forwarded
<1>11. Elems(written) = {i \in Spawned : task[i] = "done"}
  BY <1>6, <1>7, <1>8, <1>9, <1>10
<1>12. QED
  BY <1>1, <1>2, <1>3, <1>4, <1>5, <1>11 DEF ResultPlaces, BetweenCycles

\* Between two calls of command_handler (and after it ended the process)
\* no task or forwarder of the last cycle is still alive, the channel is
\* drained, and the results written are exactly the tasks that completed,
\* each once: the bounded channel, the close-on-drain of result_tx and the
\* join of the aggregator lose and duplicate nothing, for every number of
\* tasks, channel capacity and number of cycles.
THEOREM CycleDrained == Spec => []BetweenCycles
BY InvInit, InvStep, InvImpliesBetweenCycles, PTL DEF Spec


\* In every reachable state, for every number of tasks, channel capacity
\* and number of cycles, each result a spawned task produced is in exactly
\* one place between its forwarder, the mpsc channel, result_handler's
\* hand and protocol.write, none is lost while the aggregator lives, and
\* command_handler's and result_handler's states agree.
THEOREM CycleInvariant == Spec => []AgentCycleInv
BY InvInit, InvStep, PTL DEF Spec

-----------------------------------------------------------------------------
(* The action property WriteBackSteps.                                     *)

\* Only result_handler's successful write and the Setup of a new cycle
\* change the results written back.
LEMMA WrittenOnlyByWriteOrSetup ==
    ASSUME [Next]_vars, ~AggWriteOk, ~Setup
    PROVE  written' = written
BY DEF Next, HandlerStep, TaskStep, AggStep, vars, StartCycle, SessionGuard,
       CheckKillDate, CheckinWrite, SpawnTask, SpawnLoopEnd, DropSender,
       JoinOk, JoinPanic, TaskComplete, TaskDropped, ForwardResult,
       ForwardToClosed, ForwardNothing, AggReceive, AggEnd, AggWriteFail,
       SessionChange, KillDatePasses

\* Every step of a reachable state satisfies WriteBackStep.
LEMMA WriteBackStepHolds ==
    AgentCycleInv /\ [Next]_vars => [WriteBackStep]_vars
<1> SUFFICES ASSUME AgentCycleInv, [Next]_vars PROVE WriteBackStep
  OBVIOUS
<1>1. CASE AggWriteOk
  <2>1. cur \in Cmds /\ written \in Seq(Cmds)
    BY <1>1 DEF AgentCycleInv, TypeInv, TypeOK, AggWriteOk
  <2>2. ~Occurs(written, cur)
    BY <1>1, <2>1 DEF AgentCycleInv, ResultPlaces, InHand, InWritten, AggWriteOk
  <2>3. cur \notin Elems(written)
    BY <2>1, <2>2 DEF Elems, Occurs
  <2>4. QED
    BY <1>1, <2>1, <2>3 DEF AggWriteOk, WriteBackStep
<1>2. CASE Setup
  BY <1>2 DEF Setup, AgentCycleInv, Phases, WriteBackStep
<1>3. CASE ~AggWriteOk /\ ~Setup
  BY <1>3, WrittenOnlyByWriteOrSetup DEF WriteBackStep
<1>4. QED
  BY <1>1, <1>2, <1>3

\* In every behaviour, for every number of tasks, channel capacity and
\* number of cycles, a step either leaves the results written back alone,
\* or result_handler writes one result not yet written in this cycle, or
\* a new cycle starts afresh after the previous aggregator was joined: no
\* result is written twice, none is taken back, and no write-back of one
\* cycle overlaps the next.
THEOREM WriteBackCorrect == Spec => WriteBackSteps
BY InvInit, InvStep, WriteBackStepHolds, PTL DEF Spec, WriteBackSteps

=============================================================================
