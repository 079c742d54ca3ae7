----------------------------- MODULE AgentCycle -----------------------------
(***************************************************************************)
(* One dispatch cycle of the agent, as run by command_handler and          *)
(* result_handler (src/agent/src/handler.rs), repeated by the agent's main *)
(* loop.  The actors are                                                   *)
(*   - the handler: the sequential driver of a cycle (session guard,       *)
(*     kill-date check, checkin write, spawn loop, drop of its sender,     *)
(*     join of the aggregator);                                            *)
(*   - one task per command, spawned through the TaskSpawner, and one      *)
(*     forwarder per task that awaits the task's one-shot receiver and     *)
(*     sends the TaskOutput into the bounded mpsc channel;                 *)
(*   - the aggregator: the single consumer that writes every received      *)
(*     TaskOutput back through Protocol::write, one write at a time.       *)
(* A TaskOutput is represented by the index i of the command it answers:   *)
(* its metadata (request_id "req-i") is copied from the command by the     *)
(* task body, so the index is all the properties tell apart.               *)
(***************************************************************************)
EXTENDS Naturals, Sequences, FiniteSets

CONSTANTS
    NTasks,     \* commands received per cycle (the code simulates 10)
    Capacity,   \* capacity of the result channel (the code uses 16)
    MaxCycles   \* bound on the number of cycles the main loop runs

ASSUME NTasksAssumption == NTasks \in Nat \ {0}
ASSUME CapacityAssumption == Capacity \in Nat \ {0}
ASSUME MaxCyclesAssumption == MaxCycles \in Nat \ {0}

VARIABLES
    hpc,        \* where the handler is in command_handler
    cycle,      \* number of cycles started by the main loop
    connected,  \* instance().session.connected
    killPassed, \* check_kill_date(instance().config.kill_date)
    next,       \* index of the next command of the spawn loop
    task,       \* task[i]: state of the task spawned for command i
    fwd,        \* fwd[i]: state of the forwarder of task i
    chan,       \* the results buffered in the mpsc channel, oldest first
    txOpen,     \* the handler still holds its own result_tx
    agg,        \* state of the aggregator task
    cur,        \* the result the aggregator is writing
    written     \* results written back by the aggregator this cycle

vars == <<hpc, cycle, connected, killPassed, next, task, fwd, chan,
          txOpen, agg, cur, written>>

Cmds == 1..NTasks

\* No result is being written.
NoResult == 0

HandlerStates ==
    {"idle", "start", "killcheck", "setup", "checkin", "spawn", "close",
     "join", "terminated", "panicked"}

TaskStates == {"none", "running", "done", "dropped"}

FwdStates == {"none", "waiting", "finished"}

AggStates == {"none", "recv", "writing", "finished", "panicked"}

\* The commands spawned so far in this cycle.
Spawned == 1..(next - 1)

\* The set of elements of a sequence.
Elems(s) == {s[k] : k \in DOMAIN s}

\* No element occurs twice in the sequence s.
NoDuplicates(s) == \A j, k \in DOMAIN s : s[j] = s[k] => j = k

\* The receiver side of the channel is alive while the aggregator runs;
\* when it ends (normally or by panic) result_rx is dropped.
RxAlive == agg \in {"recv", "writing"}

\* Some sender of the channel is still alive: the handler's own result_tx
\* or the clone moved into a forwarder that has not finished.
SendersAlive == txOpen \/ \E i \in Cmds : fwd[i] = "waiting"

-----------------------------------------------------------------------------
(* The handler: command_handler, src/agent/src/handler.rs:33-123.          *)

Init ==
    /\ hpc = "idle"
    /\ cycle = 0
    /\ connected \in BOOLEAN
    /\ killPassed \in BOOLEAN
    /\ next = 1
    /\ task = [i \in Cmds |-> "none"]
    /\ fwd = [i \in Cmds |-> "none"]
    /\ chan = <<>>
    /\ txOpen = FALSE
    /\ agg = "none"
    /\ cur = NoResult
    /\ written = <<>>

\* The main loop calls command_handler.
StartCycle ==
    /\ hpc = "idle"
    /\ cycle < MaxCycles
    /\ hpc' = "start"
    /\ cycle' = cycle + 1
    /\ UNCHANGED <<connected, killPassed, next, task, fwd, chan, txOpen,
                   agg, cur, written>>

\* if !instance().session.connected { return; }
SessionGuard ==
    /\ hpc = "start"
    /\ hpc' = IF connected THEN "killcheck" ELSE "idle"
    /\ UNCHANGED <<cycle, connected, killPassed, next, task, fwd, chan,
                   txOpen, agg, cur, written>>

\* exit_command(1) (src/agent/src/command.rs:23-37): NtTerminateProcess
\* either ends the process or fails (ntstatus < 0), in which case the
\* error is printed and exit_command returns.
ExitCommandOutcomes == {"terminated", "returned"}

\* if check_kill_date(..) { exit_command(1) }: when exit_command returns,
\* command_handler carries on with the cycle.
CheckKillDate ==
    /\ hpc = "killcheck"
    /\ \/ ~killPassed /\ hpc' = "setup"
       \/ killPassed /\ \E o \in ExitCommandOutcomes :
                          hpc' = IF o = "terminated" THEN "terminated"
                                                     ELSE "setup"
    /\ UNCHANGED <<cycle, connected, killPassed, next, task, fwd, chan,
                   txOpen, agg, cur, written>>

\* TaskSpawner::new, mpsc::channel(16), result_handler spawns the
\* aggregator, then the checkin write is issued under block_on.
Setup ==
    /\ hpc = "setup"
    /\ hpc' = "checkin"
    /\ next' = 1
    /\ task' = [i \in Cmds |-> "none"]
    /\ fwd' = [i \in Cmds |-> "none"]
    /\ chan' = <<>>
    /\ txOpen' = TRUE
    /\ agg' = "recv"
    /\ cur' = NoResult
    /\ written' = <<>>
    /\ UNCHANGED <<cycle, connected, killPassed>>

\* protocol.write of the checkin TaskOutput completes; on Ok the spawn loop
\* runs, on Err it is skipped.
CheckinWrite ==
    /\ hpc = "checkin"
    /\ hpc' \in {"spawn", "close"}
    /\ UNCHANGED <<cycle, connected, killPassed, next, task, fwd, chan,
                   txOpen, agg, cur, written>>

\* One iteration of `for i in 0..10`: clone result_tx, spawn_task(command)
\* (the task starts running), then spawn the forwarder holding the clone.
SpawnTask ==
    /\ hpc = "spawn"
    /\ next <= NTasks
    /\ task' = [task EXCEPT ![next] = "running"]
    /\ fwd' = [fwd EXCEPT ![next] = "waiting"]
    /\ next' = next + 1
    /\ UNCHANGED <<hpc, cycle, connected, killPassed, chan, txOpen, agg,
                   cur, written>>

\* The spawn loop is over.
SpawnLoopEnd ==
    /\ hpc = "spawn"
    /\ next > NTasks
    /\ hpc' = "close"
    /\ UNCHANGED <<cycle, connected, killPassed, next, task, fwd, chan,
                   txOpen, agg, cur, written>>

\* Mutant: the handler forgets drop(result_tx) before joining.
DropSenderForgotten ==
    /\ hpc = "close"
    /\ hpc' = "join"
    /\ UNCHANGED <<cycle, connected, killPassed, next, task, fwd, chan,
                   txOpen, agg, cur, written>>

\* drop(result_tx)
DropSender ==
    /\ hpc = "close"
    /\ txOpen' = FALSE
    /\ hpc' = "join"
    /\ UNCHANGED <<cycle, connected, killPassed, next, task, fwd, chan,
                   agg, cur, written>>

\* Mutant: the handler returns without awaiting result_handler_handle.
JoinOkEarly ==
    /\ hpc = "join"
    /\ hpc' = "idle"
    /\ UNCHANGED <<cycle, connected, killPassed, next, task, fwd, chan,
                   txOpen, agg, cur, written>>

\* result_handler_handle.await.unwrap() returns: the cycle is over.
JoinOk ==
    /\ hpc = "join"
    /\ agg = "finished"
    /\ hpc' = "idle"
    /\ UNCHANGED <<cycle, connected, killPassed, next, task, fwd, chan,
                   txOpen, agg, cur, written>>

\* The aggregator panicked: the JoinError is unwrapped and the handler
\* panics in turn.
JoinPanic ==
    /\ hpc = "join"
    /\ agg = "panicked"
    /\ hpc' = "panicked"
    /\ UNCHANGED <<cycle, connected, killPassed, next, task, fwd, chan,
                   txOpen, agg, cur, written>>

-----------------------------------------------------------------------------
(* Tasks (TaskSpawner, task_type_a/task_type_b) and their forwarders       *)
(* (the async block of handler.rs:109-113).                                *)

\* The task body sleeps, then builds its TaskOutput from the command's
\* metadata and hands it to the one-shot sender.
TaskComplete(i) ==
    /\ task[i] = "running"
    /\ task' = [task EXCEPT ![i] = "done"]
    /\ UNCHANGED <<hpc, cycle, connected, killPassed, next, fwd, chan,
                   txOpen, agg, cur, written>>

\* The task's one-shot sender is dropped without a value.
TaskDropped(i) ==
    /\ task[i] = "running"
    /\ task' = [task EXCEPT ![i] = "dropped"]
    /\ UNCHANGED <<hpc, cycle, connected, killPassed, next, fwd, chan,
                   txOpen, agg, cur, written>>

\* Mutant: the forwarder pushes into the buffer whether or not it is full.
ForwardResultUnbounded(i) ==
    /\ fwd[i] = "waiting"
    /\ task[i] = "done"
    /\ RxAlive
    /\ chan' = Append(chan, i)
    /\ fwd' = [fwd EXCEPT ![i] = "finished"]
    /\ UNCHANGED <<hpc, cycle, connected, killPassed, next, task, txOpen,
                   agg, cur, written>>

\* receiver.await is Ok and result_tx.send(result).await finds room in the
\* channel (a full channel makes the sender wait: backpressure).
ForwardResult(i) ==
    /\ fwd[i] = "waiting"
    /\ task[i] = "done"
    /\ RxAlive
    /\ Len(chan) < Capacity
    /\ chan' = Append(chan, i)
    /\ fwd' = [fwd EXCEPT ![i] = "finished"]
    /\ UNCHANGED <<hpc, cycle, connected, killPassed, next, task, txOpen,
                   agg, cur, written>>

\* The send fails because result_rx is gone; `let _ =` discards the error.
ForwardToClosed(i) ==
    /\ fwd[i] = "waiting"
    /\ task[i] = "done"
    /\ ~RxAlive
    /\ fwd' = [fwd EXCEPT ![i] = "finished"]
    /\ UNCHANGED <<hpc, cycle, connected, killPassed, next, task, chan,
                   txOpen, agg, cur, written>>

\* receiver.await is Err: the forwarder ends without sending.
ForwardNothing(i) ==
    /\ fwd[i] = "waiting"
    /\ task[i] = "dropped"
    /\ fwd' = [fwd EXCEPT ![i] = "finished"]
    /\ UNCHANGED <<hpc, cycle, connected, killPassed, next, task, chan,
                   txOpen, agg, cur, written>>

-----------------------------------------------------------------------------
(* The aggregator: result_handler, src/agent/src/handler.rs:125-141.       *)

\* Mutant: the aggregator peeks at the oldest result and leaves it in the
\* buffer (a pop forgotten after the write).
AggReceivePeek ==
    /\ agg = "recv"
    /\ chan # <<>>
    /\ cur' = Head(chan)
    /\ agg' = "writing"
    /\ UNCHANGED <<hpc, cycle, connected, killPassed, next, task, fwd, chan,
                   txOpen, written>>

\* result_rx.recv().await yields the oldest buffered result.
AggReceive ==
    /\ agg = "recv"
    /\ chan # <<>>
    /\ cur' = Head(chan)
    /\ chan' = Tail(chan)
    /\ agg' = "writing"
    /\ UNCHANGED <<hpc, cycle, connected, killPassed, next, task, fwd,
                   txOpen, written>>

\* Mutant: the aggregator takes an empty buffer for the end of the stream
\* (a try_recv loop), whether or not senders are still alive.
AggEndOnEmpty ==
    /\ agg = "recv"
    /\ chan = <<>>
    /\ agg' = "finished"
    /\ UNCHANGED <<hpc, cycle, connected, killPassed, next, task, fwd, chan,
                   txOpen, cur, written>>

\* recv() yields None: the buffer is empty and every sender is dropped.
AggEnd ==
    /\ agg = "recv"
    /\ chan = <<>>
    /\ ~SendersAlive
    /\ agg' = "finished"
    /\ UNCHANGED <<hpc, cycle, connected, killPassed, next, task, fwd, chan,
                   txOpen, cur, written>>

\* Mutant: a write that succeeded is retried, as by a retry loop that
\* treats a slow Ok as a timeout.
AggWriteOkRetry ==
    /\ agg = "writing"
    /\ written' = Append(written, cur)
    /\ agg' \in {"recv", "writing"}
    /\ UNCHANGED <<hpc, cycle, connected, killPassed, next, task, fwd, chan,
                   txOpen, cur>>

\* protocol.write(result, ..).await is Ok.
AggWriteOk ==
    /\ agg = "writing"
    /\ written' = Append(written, cur)
    /\ agg' = "recv"
    /\ UNCHANGED <<hpc, cycle, connected, killPassed, next, task, fwd, chan,
                   txOpen, cur>>

\* protocol.write is Err and .unwrap() panics the aggregator task: the
\* receiver is dropped together with the results still buffered in it.
AggWriteFail ==
    /\ agg = "writing"
    /\ agg' = "panicked"
    /\ chan' = <<>>
    /\ UNCHANGED <<hpc, cycle, connected, killPassed, next, task, fwd,
                   txOpen, cur, written>>

-----------------------------------------------------------------------------
(* The environment: session lifecycle and the clock.                       *)

\* Session-lifecycle logic outside this core flips the connected flag.
SessionChange ==
    /\ connected' = ~connected
    /\ UNCHANGED <<hpc, cycle, killPassed, next, task, fwd, chan, txOpen,
                   agg, cur, written>>

\* The kill date passes; once passed it stays passed.
KillDatePasses ==
    /\ ~killPassed
    /\ killPassed' = TRUE
    /\ UNCHANGED <<hpc, cycle, connected, next, task, fwd, chan, txOpen,
                   agg, cur, written>>

-----------------------------------------------------------------------------

HandlerStep ==
    \/ StartCycle \/ SessionGuard \/ CheckKillDate \/ Setup \/ CheckinWrite \/ SpawnTask \/ SpawnLoopEnd \/ DropSender
    \/ JoinOk \/ JoinPanic

TaskStep(i) ==
    \/ TaskComplete(i) \/ TaskDropped(i)
    \/ ForwardResult(i) \/ ForwardToClosed(i) \/ ForwardNothing(i)

AggStep == AggReceive \/ AggEnd \/ AggWriteOk \/ AggWriteFail

Next ==
    \/ HandlerStep
    \/ \E i \in Cmds : TaskStep(i)
    \/ AggStep
    \/ SessionChange \/ KillDatePasses

\* The tokio runtime polls every ready task: each step of the handler
\* inside a cycle, of a task body, of a forwarder and of the aggregator is
\* weakly fair.  Starting a cycle, the session flag, the clock and a task
\* dropping its result are not obligations.
Fairness ==
    /\ WF_vars(SessionGuard) /\ WF_vars(CheckKillDate)
    /\ WF_vars(Setup) /\ WF_vars(CheckinWrite)
    /\ WF_vars(SpawnTask) /\ WF_vars(SpawnLoopEnd) /\ WF_vars(DropSender)
    /\ WF_vars(JoinOk) /\ WF_vars(JoinPanic)
    /\ \A i \in Cmds : /\ WF_vars(TaskComplete(i))
                       /\ WF_vars(ForwardResult(i))
                       /\ WF_vars(ForwardToClosed(i))
                       /\ WF_vars(ForwardNothing(i))
    /\ WF_vars(AggReceive) /\ WF_vars(AggEnd)
    /\ WF_vars(AggWriteOk \/ AggWriteFail)

Spec == Init /\ [][Next]_vars

FairSpec == Spec /\ Fairness

-----------------------------------------------------------------------------
(* Properties.                                                             *)

\* Every variable has its type; the channel never holds more than its
\* capacity (send waits for room instead of overfilling the buffer).
TypeOK ==
    /\ hpc \in HandlerStates
    /\ cycle \in 0..MaxCycles
    /\ connected \in BOOLEAN
    /\ killPassed \in BOOLEAN
    /\ next \in 1..(NTasks + 1)
    /\ task \in [Cmds -> TaskStates]
    /\ fwd \in [Cmds -> FwdStates]
    /\ chan \in Seq(Cmds)
    /\ Len(chan) <= Capacity
    /\ txOpen \in BOOLEAN
    /\ agg \in AggStates
    /\ cur \in Cmds \cup {NoResult}
    /\ written \in Seq(Cmds)

\* Outside command_handler (before a cycle, after it returned normally, or
\* once the process terminated at its kill date) nothing of a cycle is in
\* flight, and every result a task of the last cycle produced was written
\* back exactly once: the handler drops its sender only after the spawn
\* loop and joins the aggregator, which stops only when the channel is
\* drained and every forwarder's sender is gone.
BetweenCycles ==
    hpc \in {"idle", "start", "terminated"} =>
        /\ \A i \in Cmds : task[i] # "running" /\ fwd[i] # "waiting"
        /\ chan = <<>>
        /\ agg \in {"none", "finished"}
        /\ Elems(written) = {i \in Spawned : task[i] = "done"}
        /\ NoDuplicates(written)

\* Every call of command_handler returns, or ends the process, or panics:
\* the bounded channel never leaves the forwarders, the aggregator and the
\* handler waiting on one another.
CycleCompletes ==
    hpc = "start" ~> hpc \in {"idle", "terminated", "panicked"}

\* Spec 6 (session guard): once the kill date has passed, a connected cycle
\* does nothing but terminate the process (exit_command, command.rs).
KillDateHonoured ==
    [][(hpc = "killcheck" /\ killPassed /\ hpc' # hpc)
          => hpc' = "terminated"]_vars

\* Spec 7 (TransportFailure): a failed write-back does not abort the
\* remaining writes nor the dispatch loop, so when the handler leaves a
\* cycle every spawned command's result was written, failed to be written
\* itself, or was never produced (its task dropped it).
WriteFailureContained ==
    hpc \in {"idle", "panicked"} =>
        \A i \in Spawned :
            \/ task[i] = "dropped"
            \/ i \in Elems(written)
            \/ agg = "panicked" /\ cur = i

\* What a step may do to the results written back (result_handler's loop,
\* handler.rs:133-138, and command_handler's join, line 120): leave them,
\* add one result that was not yet written, or, when a new cycle sets up
\* its channel, start afresh; and a new cycle starts only once the
\* previous cycle's aggregator has ended, so no write-back of one cycle
\* runs on the shared protocol after the next cycle began.
WriteBackStep ==
    \/ written' = written
    \/ \E i \in Cmds \ Elems(written) : written' = Append(written, i)
    \/ written' = <<>> /\ agg \in {"none", "finished"}

WriteBackSteps == [][WriteBackStep]_vars

=============================================================================
