--------------------------- MODULE MC_AgentCycle ---------------------------
(***************************************************************************)
(* Small instances of AgentCycle for TLC.  Three commands share a channel  *)
(* of capacity 2, so that a forwarder has to wait for room (the code's 10  *)
(* commands never fill its 16 slots, but a cycle with more in-flight tasks *)
(* than slots is what the bound is for); two cycles let a second cycle     *)
(* start after the first one returned.                                     *)
(***************************************************************************)
EXTENDS AgentCycleRefinement

MCNTasks == 3
MCCapacity == 2
MCMaxCycles == 2

\* The smallest instance in which one failed write leaves another result
\* behind.
MCViolationNTasks == 2
MCViolationMaxCycles == 1
=============================================================================
