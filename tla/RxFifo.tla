------------------------------ MODULE RxFifo ------------------------------
(***************************************************************************)
(* What CSMAWrapper (RemoteStation/CSMA.h) promises the code that reads    *)
(* messages from it: packets are numbered as the radio receives them, each *)
(* is handled at most once, oldest first, one at a time, and a packet that *)
(* is handled is one that was received.  Packets may be lost before they   *)
(* are queued (the modem holds one packet) and never after.                *)
(***************************************************************************)
EXTENDS Naturals

CONSTANT MaxPackets     \* bound: packets received in one behaviour

VARIABLES
  received,   \* number of packets the radio has received so far
  waiting,    \* the packet held by the modem, 0 when there is none
  queued,     \* the packets copied from the modem, not yet begun
  handling    \* the packet being handled, 0 when there is none

vars == <<received, waiting, queued, handling>>

(* The oldest queued packet: packets are numbered in the order received. *)
IsOldest(p) == p \in queued /\ \A q \in queued : p <= q

Init ==
  /\ received = 0
  /\ waiting = 0
  /\ queued = {}
  /\ handling = 0

(* A packet arrives; one that the modem still held is overwritten. *)
Receive ==
  /\ received < MaxPackets
  /\ received' = received + 1
  /\ waiting' = received'
  /\ UNCHANGED <<queued, handling>>

(* The packet the modem holds is queued. *)
Accept ==
  /\ waiting # 0
  /\ queued' = queued \union {waiting}
  /\ waiting' = 0
  /\ UNCHANGED <<received, handling>>

(* The packet the modem holds is unreadable, or the radio is restarted. *)
Discard ==
  /\ waiting # 0
  /\ waiting' = 0
  /\ UNCHANGED <<received, queued, handling>>

(* The oldest queued packet is handed to the reader. *)
Begin ==
  /\ handling = 0
  /\ \E p \in queued :
       /\ IsOldest(p)
       /\ handling' = p
       /\ queued' = queued \ {p}
  /\ UNCHANGED <<received, waiting>>

(* The reader is done with its packet. *)
Finish ==
  /\ handling # 0
  /\ handling' = 0
  /\ UNCHANGED <<received, waiting, queued>>

Next == Receive \/ Accept \/ Discard \/ Begin \/ Finish

Spec == Init /\ [][Next]_vars

(***************************************************************************)
(* Packets are handled in the order they were received and none is handled *)
(* twice: whatever is being handled is older than all that is queued, and  *)
(* the queue is older than what the modem holds.                           *)
(***************************************************************************)
InOrder ==
  /\ \A p \in queued : handling < p /\ p <= received
  /\ handling <= received
  /\ waiting # 0 => waiting = received /\ waiting \notin queued /\ handling < waiting
=============================================================================
