--------------------------- MODULE MC_AgentRecord ---------------------------
(***************************************************************************)
(* Two checkins: the one the heuristic handler's tests send, and one with  *)
(* a zero and a negative process id, a one-digit parent and no elevation.  *)
(* Every field has a value of its own within a checkin, so a field read    *)
(* from the wrong column shows.  Three ids, so that a taken id happens.    *)
(***************************************************************************)
EXTENDS AgentRecord

CONSTANTS id1, id2, id3

MCIds == {id1, id2, id3}

MCCheckins ==
    { [operative_system |-> "Windows", hostname |-> "DESKTOP-PC",
       domain |-> "WORKGROUP", username |-> "user", ip |-> "10.2.123.45",
       process_id |-> 1234, parent_process_id |-> 5678,
       process_name |-> "agent.exe", elevated |-> TRUE],
      [operative_system |-> "Linux", hostname |-> "srv01",
       domain |-> "corp.local", username |-> "root", ip |-> "192.168.0.7",
       process_id |-> -1, parent_process_id |-> 0,
       process_name |-> "init", elevated |-> FALSE] }
=============================================================================
