--------------------------- MODULE ResultDelivery ---------------------------
(***************************************************************************)
(* What one dispatch cycle of the agent promises about results, with the   *)
(* channel, the forwarders and the aggregator left out (spec 3, 4.5, 4.6). *)
(* A cycle spawns commands; each spawned command produces a result or is   *)
(* dropped; a produced result is written back at most once, only while    *)
(* the cycle runs; and a cycle ends normally only when no command is      *)
(* pending and every produced result has been written back.  A failed    *)
(* write-back crashes the cycle for good; termination at the kill date    *)
(* happens only between cycles and is final.                              *)
(***************************************************************************)
EXTENDS Naturals, Sequences, FiniteSets, TLAPS

CONSTANT Commands   \* the commands a cycle can spawn

VARIABLES
    phase,      \* "idle" between cycles, "running", "crashed", "terminated"
    pending,    \* spawned commands with neither a result nor a drop yet
    produced,   \* commands whose result was produced
    dropped,    \* commands whose result handle closed without a value
    delivered   \* the results written back this cycle, in order

vars == <<phase, pending, produced, dropped, delivered>>

Phases == {"idle", "running", "crashed", "terminated"}

Delivered == {delivered[k] : k \in DOMAIN delivered}

Init ==
    /\ phase = "idle"
    /\ pending = {}
    /\ produced = {}
    /\ dropped = {}
    /\ delivered = <<>>

\* A new cycle starts with nothing spawned.
Begin ==
    /\ phase = "idle"
    /\ phase' = "running"
    /\ pending' = {}
    /\ produced' = {}
    /\ dropped' = {}
    /\ delivered' = <<>>

\* The process ends at its kill date, between cycles.
Terminate ==
    /\ phase = "idle"
    /\ phase' = "terminated"
    /\ UNCHANGED <<pending, produced, dropped, delivered>>

\* The dispatch loop learns of a crashed write-back only when it joins, so
\* it may go on spawning commands whose results can no longer be written.
Spawn(c) ==
    /\ phase \in {"running", "crashed"}
    /\ c \notin pending \cup produced \cup dropped
    /\ pending' = pending \cup {c}
    /\ UNCHANGED <<phase, produced, dropped, delivered>>

\* Task bodies run on whether or not the write-back has crashed.
Produce(c) ==
    /\ phase \in {"running", "crashed"}
    /\ c \in pending
    /\ pending' = pending \ {c}
    /\ produced' = produced \cup {c}
    /\ UNCHANGED <<phase, dropped, delivered>>

Drop(c) ==
    /\ phase \in {"running", "crashed"}
    /\ c \in pending
    /\ pending' = pending \ {c}
    /\ dropped' = dropped \cup {c}
    /\ UNCHANGED <<phase, produced, delivered>>

Deliver(c) ==
    /\ phase = "running"
    /\ c \in produced \ Delivered
    /\ delivered' = Append(delivered, c)
    /\ UNCHANGED <<phase, pending, produced, dropped>>

Crash ==
    /\ phase = "running"
    /\ phase' = "crashed"
    /\ UNCHANGED <<pending, produced, dropped, delivered>>

Finish ==
    /\ phase = "running"
    /\ pending = {}
    /\ Delivered = produced
    /\ phase' = "idle"
    /\ UNCHANGED <<pending, produced, dropped, delivered>>

Next ==
    \/ Begin \/ Terminate \/ Crash \/ Finish
    \/ \E c \in Commands :
          Spawn(c) \/ Produce(c) \/ Drop(c) \/ Deliver(c)

Spec == Init /\ [][Next]_vars

\* Every result produced while the cycle runs is eventually written back,
\* unless the write-back crashes first.  Spec alone does not promise it
\* (it has no fairness); an implementation does when it runs its steps.
DeliveryProgress ==
    \A c \in Commands :
        (phase = "running" /\ c \in produced /\ c \notin Delivered)
            ~> (c \in Delivered \/ phase = "crashed")

\* Every result written back this cycle was produced, and none is written
\* twice; between cycles, and once the process terminated, no command is
\* pending and every produced result has been written back.
DeliveredOnce ==
    /\ delivered \in Seq(Commands)
    /\ Delivered \subseteq produced
    /\ \A j, k \in DOMAIN delivered : delivered[j] = delivered[k] => j = k
    /\ phase \in {"idle", "terminated"} => pending = {} /\ Delivered = produced

-----------------------------------------------------------------------------
(* DeliveredOnce is inductive.                                             *)

LEMMA DeliveredOnceInit == Init => DeliveredOnce
BY DEF Init, DeliveredOnce, Delivered

LEMMA DeliveredOnceStep == DeliveredOnce /\ [Next]_vars => DeliveredOnce'
<1> SUFFICES ASSUME DeliveredOnce, [Next]_vars PROVE DeliveredOnce'
  OBVIOUS
<1>1. CASE Begin
  BY <1>1 DEF Begin, DeliveredOnce, Delivered
<1>2. CASE Terminate
  BY <1>2 DEF Terminate, DeliveredOnce, Delivered
<1>3. CASE Crash
  BY <1>3 DEF Crash, DeliveredOnce, Delivered
<1>4. CASE Finish
  BY <1>4 DEF Finish, DeliveredOnce, Delivered
<1>5. ASSUME NEW c \in Commands, Spawn(c) \/ Produce(c) \/ Drop(c)
      PROVE  DeliveredOnce'
  BY <1>5 DEF Spawn, Produce, Drop, DeliveredOnce, Delivered
<1>6. ASSUME NEW c \in Commands, Deliver(c) PROVE DeliveredOnce'
  <2>1. delivered' \in Seq(Commands)
        /\ Len(delivered') = Len(delivered) + 1
        /\ delivered'[Len(delivered) + 1] = c
        /\ \A k \in 1..Len(delivered) : delivered'[k] = delivered[k]
    BY <1>6 DEF Deliver, DeliveredOnce
  <2>2. Delivered' = Delivered \cup {c}
    BY <2>1 DEF DeliveredOnce, Delivered
  <2>3. c \in produced /\ c \notin Delivered
    BY <1>6 DEF Deliver
  <2>4. \A j, k \in DOMAIN delivered' : delivered'[j] = delivered'[k] => j = k
    BY <2>1, <2>3 DEF DeliveredOnce, Delivered
  <2>5. QED
    BY <1>6, <2>1, <2>2, <2>3, <2>4 DEF Deliver, DeliveredOnce
<1>7. CASE UNCHANGED vars
  BY <1>7 DEF vars, DeliveredOnce, Delivered
<1>8. QED
  BY <1>1, <1>2, <1>3, <1>4, <1>5, <1>6, <1>7 DEF Next

\* Whatever the set of commands, a cycle writes back only produced results,
\* each at most once, and leaves nothing pending or unwritten when it ends.
THEOREM AbstractDeliveredOnce == Spec => []DeliveredOnce
BY DeliveredOnceInit, DeliveredOnceStep, PTL DEF Spec

=============================================================================
