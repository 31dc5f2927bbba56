------------------------- MODULE MCRemoteProgramming -------------------------
(***************************************************************************)
(* Instances of RemoteProgramming, with two packets to a byte of the       *)
(* bitmap: an image that fills whole bytes, one whose last packet lies in  *)
(* a byte that it does not fill, and one that fills no byte at all.        *)
(***************************************************************************)
EXTENDS RemoteProgramming
CONSTANTS Full, Tail, Small

TailAndSmall == {Tail, Small}
OnlyTail == {Tail}
Counts == [i \in Images |-> CASE i = Full -> 2 [] i = Tail -> 3 [] i = Small -> 1]
=============================================================================
