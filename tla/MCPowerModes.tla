---------------------------- MODULE MCPowerModes ----------------------------
(***************************************************************************)
(* An instance of PowerModes.                                              *)
(***************************************************************************)
EXTENDS PowerModes

SomeTicks == [i \in Intervals |-> CASE i \in {"short", "long"} -> 1 [] i = "longer" -> 2]
=============================================================================
