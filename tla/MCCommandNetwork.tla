--------------------------- MODULE MCCommandNetwork ---------------------------
(***************************************************************************)
(* An instance of CommandNetwork: stations in a line, the base at its end, *)
(* each station relaying for all the others.                               *)
(***************************************************************************)
EXTENDS CommandNetwork

Line == {{n, n + 1} : n \in 0 .. StationCount - 1}
ForAllOthers == [s \in Stations |-> Stations \ {s}]
PingApart == <<100>>
=============================================================================
