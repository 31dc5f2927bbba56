------------------------------- MODULE Firmware -------------------------------
(***************************************************************************)
(* What remote programming promises, whatever becomes of the radio and of  *)
(* the stations: a station runs the program it was built with or all of an *)
(* image that an operator has told this station to install, and nothing in *)
(* between.                                                                *)
(***************************************************************************)
CONSTANTS Stations, Images, Factory, Whole(_)
VARIABLES program, confirmed

Init ==
  /\ program = [s \in Stations |-> Factory]
  /\ confirmed = [s \in Stations |-> {}]

Confirm(s, i) ==
  /\ confirmed' = [confirmed EXCEPT ![s] = @ \cup {i}]
  /\ UNCHANGED program

Install(s, i) ==
  /\ i \in confirmed[s]
  /\ program' = [program EXCEPT ![s] = Whole(i)]
  /\ UNCHANGED confirmed

Next == \E s \in Stations, i \in Images : Confirm(s, i) \/ Install(s, i)

Spec == Init /\ [][Next]_<<program, confirmed>>
=============================================================================
