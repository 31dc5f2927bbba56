----------------------------- MODULE RelayLists -----------------------------
(***************************************************************************)
(* The lists of stations to relay and of message types to record: how a    *)
(* relay command edits them (RemoteStation/Commands.cpp) and how messages  *)
(* are looked up in them (RemoteStation/MessageHandling.cpp).              *)
(*                                                                         *)
(* A list is an array of bytes in which 0 marks a free place, anywhere.    *)
(* Stations and message types are numbers above 0.                         *)
(***************************************************************************)
EXTENDS Integers, Sequences, FiniteSetsExt

CONSTANTS
  ListSize,      \* permanentArraySize, 15 in the program
  TypeListSize,  \* messageTypeArraySize, 7 in the program
  MaxId          \* stations and message types are 1..MaxId

ASSUME RelayListsAssumption ==
  /\ ListSize \in Nat \ {0}
  /\ TypeListSize \in 1..ListSize
  /\ MaxId \in Nat \ {0}

Ids == 1..MaxId
Lists == [1..ListSize -> {0} \union Ids]
TypeLists == [1..TypeListSize -> {0} \union Ids]

(* One edit of a relay command: + or -, W or C or R, and the number.       *)
Edits == [add : BOOLEAN, type : {"W", "C", "R"}, id : Ids]

NoRoom == << >>

(* '+' takes the first place that is free or holds the number already.     *)
Add(list, id) ==
  LET places == {i \in 1..ListSize : list[i] \in {0, id}}
  IN  IF places = {} THEN NoRoom ELSE [list EXCEPT ![Min(places)] = id]

(* '-' clears every place that holds it. *)
RemoveFirst(list, id) == \* mutant: clears one place only
  LET places == {i \in 1..ListSize : list[i] = id}
  IN  IF places = {} THEN list ELSE [list EXCEPT ![Min(places)] = 0]
Remove(list, id) == [i \in 1..ListSize |-> IF list[i] = id THEN 0 ELSE list[i]]

(* The list after the edits that concern it, up to the first that finds no *)
(* room, at which the command ends.                                        *)
Edited(list, type, edits) ==
  LET after[n \in 0..Len(edits)] ==
        IF n = 0 THEN list
        ELSE LET before == after[n - 1]
                 edit == edits[n]
             IN  IF before = NoRoom \/ edit.type # type THEN before
                 ELSE IF edit.add THEN Add(before, edit.id) ELSE Remove(before, edit.id)
  IN  after[Len(edits)]

Concerns(type, edits) == \E n \in 1..Len(edits) : edits[n].type = type

(* Looking up a station: shouldRelay.  Station 0 is everyone, and is       *)
(* relayed by who relays for anyone.                                       *)
ShouldRelay(list, station) == \E i \in 1..ListSize : (station = 0) # (list[i] = station)

(* What a list says, and what edits ask of it. *)
Members(list) == {list[i] : i \in DOMAIN list} \ {0}
Asked(set, type, edits) ==
  LET after[n \in 0..Len(edits)] ==
        IF n = 0 THEN set
        ELSE IF edits[n].type # type THEN after[n - 1]
        ELSE IF edits[n].add THEN after[n - 1] \union {edits[n].id}
        ELSE after[n - 1] \ {edits[n].id}
  IN  after[Len(edits)]
=============================================================================
