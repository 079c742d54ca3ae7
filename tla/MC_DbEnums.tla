----------------------------- MODULE MC_DbEnums -----------------------------
(***************************************************************************)
(* DbEnums has no constants: TLC checks every variant of every column.     *)
(***************************************************************************)
EXTENDS DbEnums
=============================================================================
