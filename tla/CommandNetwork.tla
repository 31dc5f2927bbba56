---------------------------- MODULE CommandNetwork ----------------------------
(***************************************************************************)
(* Commands on their way from the base to a station and answers on their   *)
(* way back, through stations that relay them (MessageHandling.cpp,        *)
(* Commands.cpp; the base acknowledges answers as Program.cs does).        *)
(*                                                                         *)
(* A station relays what it hears once, and, if it does not hear the       *)
(* message repeated or answered while it listens, once more.  One message  *)
(* at a time waits for that.  Two rings of the latest messages keep a      *)
(* station from acting on a command, or relaying a message, twice.         *)
(*                                                                         *)
(* A command may fail: a bad checksum or a handler that refuses it end in  *)
(* an answer, too, and it is not tried again.  Some commands are executed  *)
(* without an answer.  What the single commands do is left out.            *)
(*                                                                         *)
(* The queue of received packets is the FIFO of RxFifo.  A transmission    *)
(* reaches any of the neighbours, all of them or none.  Time passes in     *)
(* ticks: a station waits some of them for a free channel before it sends, *)
(* while packets go on arriving, and does nothing else meanwhile.          *)
(***************************************************************************)
EXTENDS Naturals, Sequences, FiniteSets

CONSTANTS
  StationCount,      \* stations 1 .. StationCount; the base is 0
  Links,             \* pairs of nodes that hear each other
  Relays,            \* stationsToRelayCommands of each station
  permanentArraySize,\* length of the rings: 15 in the code
  relayListenPeriod, \* ticks that a station listens for its message after it relayed it
  relayDelay,        \* and ticks more before it sends it again
  MaxChannelWait,    \* bound: ticks that a channel is busy for at most
  MaxInbox,          \* bound: packets that wait in a station at most
  Destinations,      \* stations that commands are sent to; 0 is all of them
  MaxCommands,       \* bound: commands sent
  PingIDs            \* unique IDs of the pings sent

Stations == 1 .. StationCount
Nodes == 0 .. StationCount

ASSUME NetworkAssumption ==
  /\ StationCount \in Nat \ {0}
  /\ Links \subseteq {l \in SUBSET Nodes : Cardinality(l) = 2}
  /\ Relays \in [Stations -> SUBSET Stations]
  /\ Destinations \subseteq Nodes
  /\ PingIDs \in Seq(Nat)
ASSUME BoundsAssumption ==
  /\ {permanentArraySize, relayListenPeriod, MaxInbox, MaxCommands} \subseteq Nat \ {0}
  /\ {relayDelay, MaxChannelWait} \subseteq Nat

VARIABLES
  recentlyHandledCommands, recentlyRelayedMessages, \* the rings, newest first
  relayMessage, relayNeedsResend, \* the message that may have to be sent again
  age,      \* ticks since it was sent (_relayTimestamp), as far as they matter
  inbox,    \* packets received, with whether they came while the station listened
  outbox,   \* what the station is sending
  waited,   \* ticks for which it has waited for the channel
  executed, \* how often each command was executed
  refused,  \* commands that were answered with "IGNORED"
  sent,     \* what each station has sent
  answered, \* answers that have reached the base
  commands, pings \* how many commands and pings the base has sent

ringVars == <<recentlyHandledCommands, recentlyRelayedMessages>>
relayVars == <<relayMessage, relayNeedsResend, age>>
radioVars == <<inbox, outbox, waited>>
baseVars == <<answered, commands, pings>>
doneVars == <<executed, refused>>
vars == <<ringVars, relayVars, radioVars, doneVars, sent, baseVars>>

NoMessage == [type |-> "none", stat |-> 0, uid |-> 0, says |-> "-"]
(* What the ring of relayed messages keeps of one.                         *)
Header(m) == [type |-> m.type, stat |-> m.stat, uid |-> m.uid]
Zeros(x) == [i \in 1 .. permanentArraySize |-> x]
ListensFor == relayListenPeriod + relayDelay

Init ==
  /\ recentlyHandledCommands = [s \in Stations |-> Zeros(0)]
  /\ recentlyRelayedMessages = [s \in Stations |-> Zeros(Header(NoMessage))]
  /\ relayMessage = [s \in Stations |-> NoMessage]
  /\ relayNeedsResend = [s \in Stations |-> FALSE]
  /\ age = [s \in Stations |-> ListensFor + 1]
  /\ inbox = [n \in Nodes |-> <<>>]
  /\ outbox = [n \in Nodes |-> <<>>]
  /\ waited = [n \in Nodes |-> 0]
  /\ executed = [s \in Stations |-> [u \in 1 .. MaxCommands |-> 0]]
  /\ refused = [s \in Stations |-> {}]
  /\ sent = [s \in Stations |-> {}]
  /\ answered = {} /\ commands = 0 /\ pings = 0

-----------------------------------------------------------------------------
(* A ring: what is in it, and the slot that is written next, which is the  *)
(* one with the oldest entry.                                              *)
Holds(ring, x) == \E i \in 1 .. permanentArraySize : ring[i] = x
RememberInPlace(ring, x) == [ring EXCEPT ![1] = x]
Remember(ring, x) == [i \in 1 .. permanentArraySize |-> IF i = 1 THEN x ELSE ring[i - 1]]

Command(m) == m.type = "C"

(* checkCommandUID: pings and commands share one ring.                     *)
NewUIDSkipsOne(s, m) ==
  \A i \in 2 .. permanentArraySize : recentlyHandledCommands[s][i] # m.uid
NewUID(s, m) == ~Holds(recentlyHandledCommands[s], m.uid)

(* It is a command for this station, or for all, with an ID that is new: it *)
(* is executed, with or without an answer, or it is refused.               *)
Results == {"OK", "silent", "IGNORED"}
Handles(s, m) == Command(m) /\ m.stat \in {0, s} /\ NewUID(s, m)

shouldRelay(s, m) ==
  /\ m.type \in {"C", "K", "P"} /\ m.stat # s
  /\ IF m.stat = 0 THEN Relays[s] # {} ELSE m.stat \in Relays[s]

haveRelayedLatest(s, m) == recentlyRelayedMessages[s][1] = Header(m)
haveRelayed(s, m) == Holds(recentlyRelayedMessages[s], Header(m))

(* updateRelayResend: the next station has repeated the message while this *)
(* one listened, or it was answered.                                       *)
RepeatedWhenever(s, e) == e.msg.type = relayMessage[s].type
Repeated(s, e) == e.msg.type = relayMessage[s].type /\ e.listening
Replied(s, m) == (Command(relayMessage[s]) /\ m.type = "K") \/ m.type = "L"
PassedOn(s, e) ==
  e.msg.uid = relayMessage[s].uid /\ (Repeated(s, e) \/ Replied(s, e.msg))

(* One of the station's own messages has come back.                        *)
Own(s, m) == ~Command(m) /\ m.stat = s

Relay(s, m) == shouldRelay(s, m) /\ ~haveRelayed(s, m)

(* What relayMessage makes of a message: the first byte, the station and   *)
(* the ID stay, so an answer keeps the name of the station that answered.  *)
AsRelayed(s, m) == m

AlwaysOK(s, m, result) == [type |-> "K", stat |-> s, uid |-> m.uid, says |-> "OK"]
Acknowledgement(s, m, result) == [type |-> "K", stat |-> s, uid |-> m.uid, says |-> result]
Item(kind, m) == [kind |-> kind, msg |-> m]
When(p, x) == IF p THEN <<x>> ELSE <<>>

(* readMessage, up to what it sends: the answer to a command and then the  *)
(* relay of the message, each of which blocks until it is sent.            *)
ReadMessage(s) ==
  /\ inbox[s] # <<>> /\ outbox[s] = <<>>
  /\ \E result \in Results :
       LET e == Head(inbox[s])
           m == e.msg
           counts == m.type \in {"C", "P"} /\ (Command(m) => m.stat \in {0, s})
       IN /\ recentlyHandledCommands' =
               [recentlyHandledCommands EXCEPT ![s] =
                  IF counts /\ NewUID(s, m) THEN Remember(@, m.uid) ELSE @]
          /\ executed' = IF Handles(s, m) /\ result # "IGNORED"
                         THEN [executed EXCEPT ![s][m.uid] = @ + 1] ELSE executed
          /\ refused' = IF Handles(s, m) /\ result = "IGNORED"
                        THEN [refused EXCEPT ![s] = @ \cup {m.uid}] ELSE refused
          /\ relayNeedsResend' = [relayNeedsResend EXCEPT ![s] =
               @ /\ (Own(s, m) \/ ~PassedOn(s, e))]
          /\ recentlyRelayedMessages' = [recentlyRelayedMessages EXCEPT ![s] =
               IF ~Own(s, m) /\ Relay(s, m) THEN Remember(@, Header(m)) ELSE @]
          /\ outbox' = [outbox EXCEPT ![s] =
               When(Handles(s, m) /\ result # "silent",
                    Item("answer", Acknowledgement(s, m, result)))
               \o When(~Own(s, m) /\ Relay(s, m), Item("relay", AsRelayed(s, m)))]
  /\ inbox' = [inbox EXCEPT ![s] = Tail(@)]
  /\ UNCHANGED <<relayMessage, age, waited, sent, baseVars>>

(* resendRelayIfNecessary, when all messages have been read.               *)
ResendRelay(s) ==
  /\ inbox[s] = <<>> /\ outbox[s] = <<>>
  /\ relayNeedsResend[s] /\ age[s] > ListensFor
  /\ outbox' = [outbox EXCEPT ![s] = <<Item("resend", relayMessage[s])>>]
  /\ UNCHANGED <<ringVars, relayVars, inbox, waited, doneVars, sent, baseVars>>

-----------------------------------------------------------------------------
(* A transmission: whoever is in heard gets the packet.                    *)
Neighbours(n) == {t \in Nodes : {n, t} \in Links}
Listening(t) == t \in Stations /\ age[t] < relayListenPeriod

Delivered(n, m, heard) ==
  [t \in Nodes |->
     IF t \in heard THEN Append(inbox[t], [msg |-> m, listening |-> Listening(t)])
     ELSE inbox[t]]

(* What came before a relay is sent does not confirm it.                   *)
Unheard(q) == [i \in DOMAIN q |-> [q[i] EXCEPT !.listening = FALSE]]

Transmit(n) ==
  /\ outbox[n] # <<>>
  /\ outbox' = [outbox EXCEPT ![n] = Tail(@)]
  /\ waited' = [waited EXCEPT ![n] = 0]
  /\ UNCHANGED <<ringVars, doneVars>>

(* relayMessage, after the transmission.                                   *)
SendRelay(s) ==
  /\ Transmit(s) /\ Head(outbox[s]).kind = "relay"
  /\ LET m == Head(outbox[s]).msg
     IN /\ \E heard \in SUBSET {t \in Neighbours(s) : Len(inbox[t]) < MaxInbox} :
             inbox' = [Delivered(s, m, heard) EXCEPT ![s] = Unheard(@)]
        /\ relayMessage' = [relayMessage EXCEPT ![s] = m]
        /\ relayNeedsResend' = [relayNeedsResend EXCEPT ![s] = m.type \in {"C", "K"}]
  /\ age' = [age EXCEPT ![s] = 0]
  /\ sent' = [sent EXCEPT ![s] = @ \cup {Head(outbox[s])}]
  /\ UNCHANGED baseVars

(* An answer, or a relayed message for the second time.                    *)
SendOtherKeeps(s) ==
  /\ Transmit(s) /\ Head(outbox[s]).kind # "relay"
  /\ \E heard \in SUBSET {t \in Neighbours(s) : Len(inbox[t]) < MaxInbox} :
       inbox' = Delivered(s, Head(outbox[s]).msg, heard)
  /\ sent' = [sent EXCEPT ![s] = @ \cup {Head(outbox[s])}]
  /\ UNCHANGED <<relayVars, baseVars>>
SendOther(s) ==
  /\ Transmit(s) /\ Head(outbox[s]).kind # "relay"
  /\ \E heard \in SUBSET {t \in Neighbours(s) : Len(inbox[t]) < MaxInbox} :
       inbox' = Delivered(s, Head(outbox[s]).msg, heard)
  /\ relayNeedsResend' = [relayNeedsResend EXCEPT ![s] = @ /\ Head(outbox[s]).kind # "resend"]
  /\ sent' = [sent EXCEPT ![s] = @ \cup {Head(outbox[s])}]
  /\ UNCHANGED <<relayMessage, age, baseVars>>

BaseTransmits ==
  /\ Transmit(0)
  /\ \E heard \in SUBSET {t \in Neighbours(0) : Len(inbox[t]) < MaxInbox} :
       inbox' = Delivered(0, Head(outbox[0]).msg, heard)
  /\ UNCHANGED <<relayVars, sent, baseVars>>

-----------------------------------------------------------------------------
(* The base: commands with the next unique ID, pings to all stations, and  *)
(* an acknowledgement of every answer.                                     *)
BaseIdle == outbox[0] = <<>> /\ UNCHANGED <<ringVars, relayVars, waited, doneVars, sent>>
BaseSends(m) == outbox' = [outbox EXCEPT ![0] = <<Item("own", m)>>]

SendCommand ==
  /\ BaseIdle /\ commands < MaxCommands
  /\ \E d \in Destinations :
       BaseSends([type |-> "C", stat |-> d, uid |-> commands + 1, says |-> "-"])
  /\ commands' = commands + 1
  /\ UNCHANGED <<inbox, answered, pings>>

SendPing ==
  /\ BaseIdle /\ pings < Len(PingIDs)
  /\ BaseSends([type |-> "P", stat |-> 0, uid |-> PingIDs[pings + 1], says |-> "-"])
  /\ pings' = pings + 1
  /\ UNCHANGED <<inbox, answered, commands>>

AcknowledgeResponse ==
  /\ BaseIdle /\ inbox[0] # <<>>
  /\ LET m == Head(inbox[0]).msg
     IN IF m.type = "K"
        THEN BaseSends([m EXCEPT !.type = "L", !.says = "-"]) /\ answered' = answered \cup {m}
        ELSE UNCHANGED <<outbox, answered>>
  /\ inbox' = [inbox EXCEPT ![0] = Tail(@)]
  /\ UNCHANGED <<commands, pings>>

-----------------------------------------------------------------------------
(* A tick: every message that can be read has been, and nobody waits for   *)
(* the channel longer than it is busy.                                     *)
Tick ==
  /\ \A n \in Nodes : IF outbox[n] = <<>> THEN inbox[n] = <<>> ELSE waited[n] < MaxChannelWait
  /\ age' = [s \in Stations |-> IF age[s] > ListensFor THEN age[s] ELSE age[s] + 1]
  /\ waited' = [n \in Nodes |-> IF outbox[n] = <<>> THEN 0 ELSE waited[n] + 1]
  /\ <<age, waited>> # <<age', waited'>>
  /\ UNCHANGED <<ringVars, relayMessage, relayNeedsResend, inbox, outbox, doneVars, sent, baseVars>>

Station(s) == ReadMessage(s) \/ ResendRelay(s) \/ SendRelay(s) \/ SendOther(s)

Next ==
  \/ \E s \in Stations : Station(s)
  \/ SendCommand \/ SendPing \/ AcknowledgeResponse \/ BaseTransmits
  \/ Tick

Spec == Init /\ [][Next]_vars

(* Every node goes on, and time passes.                                    *)
FairSpec ==
  /\ Spec
  /\ \A s \in Stations : WF_vars(Station(s))
  /\ WF_vars(AcknowledgeResponse) /\ WF_vars(BaseTransmits) /\ WF_vars(Tick)

-----------------------------------------------------------------------------
Messages ==
  [type : {"C"}, stat : Destinations, uid : 1 .. MaxCommands, says : {"-"}]
  \cup [type : {"K"}, stat : Stations, uid : 1 .. MaxCommands, says : {"OK", "IGNORED"}]
  \cup [type : {"L"}, stat : Stations, uid : 1 .. MaxCommands, says : {"-"}]
  \cup [type : {"P"}, stat : {0}, uid : {PingIDs[i] : i \in DOMAIN PingIDs}, says : {"-"}]
Kinds == {"answer", "relay", "resend", "own"}
ToSend(M) == [kind : Kinds, msg : M]
Packet(M) == [msg : M, listening : BOOLEAN]
Items == ToSend(Messages)
Entries(q) == {q[i] : i \in DOMAIN q}

(* Every message in the network is one of M.                               *)
Carries(M) ==
  /\ inbox \in [Nodes -> Seq(Packet(M))]
  /\ outbox \in [Nodes -> Seq(ToSend(M))]
  /\ relayMessage \in [Stations -> M \cup {NoMessage}]
  /\ answered \subseteq M

StationsTyped ==
  /\ recentlyHandledCommands \in [Stations -> [1 .. permanentArraySize -> Nat]]
  /\ recentlyRelayedMessages \in
       [Stations -> [1 .. permanentArraySize -> {Header(m) : m \in Messages \cup {NoMessage}}]]
  /\ relayNeedsResend \in [Stations -> BOOLEAN]
  /\ executed \in [Stations -> [1 .. MaxCommands -> Nat]]
  /\ refused \in [Stations -> SUBSET (1 .. MaxCommands)]
  /\ sent \in [Stations -> SUBSET Items]
  /\ age \in [Stations -> 0 .. ListensFor + 1]

QueuesBounded ==
  /\ waited \in [Nodes -> 0 .. MaxChannelWait]
  /\ \A n \in Nodes : Len(inbox[n]) <= MaxInbox /\ Len(outbox[n]) <= 2
  /\ commands \in 0 .. MaxCommands /\ pings \in 0 .. Len(PingIDs)

(* The type of every variable, and the lengths of the queues.              *)
TypeOK == StationsTyped /\ QueuesBounded /\ Carries(Messages)

(* No station executes a command twice, or one that it has refused, on     *)
(* whichever ways and however often it hears it.                           *)
ExecutedOnce ==
  \A s \in Stations, u \in 1 .. MaxCommands :
    executed[s][u] <= 1 /\ (u \in refused[s] => executed[s][u] = 0)

(* An answer is the truth, wherever it is: the station that it names has   *)
(* executed the command, or refused it if the answer says so.              *)
OnTheWay == UNION {{e.msg : e \in Entries(inbox[n]) \cup Entries(outbox[n])} : n \in Nodes}
IsTrue(m) ==
  /\ m.says = "OK" => executed[m.stat][m.uid] > 0
  /\ m.says = "IGNORED" => m.uid \in refused[m.stat]
AnswerMeansDone == \A m \in OnTheWay \cup answered : m.type = "K" => IsTrue(m)

(* What keeps it so: the network carries nothing else, nothing that was not*)
(* sent, and neither does what waits to be sent again, which is a message  *)
(* whenever it is needed.                                                  *)
WasSent(m) ==
  IF m.type = "P" THEN \E i \in 1 .. pings : m.uid = PingIDs[i] ELSE m.uid \in 1 .. commands
TrueMessages ==
  {m \in Messages : WasSent(m) /\ (m.type = "K" => IsTrue(m))}
TruthInv ==
  /\ TypeOK
  /\ Carries(TrueMessages)
  /\ \A s \in Stations : relayNeedsResend[s] => relayMessage[s] # NoMessage

(* A station sends a message once as a relay, and once again at most: the  *)
(* network never talks to itself.                                          *)
SendsOnce ==
  \A s \in Stations : outbox[s] # <<>> =>
    /\ Head(outbox[s]) \notin sent[s]
    /\ Head(outbox[s]).kind = "resend" => Item("relay", Head(outbox[s]).msg) \in sent[s]

(* How much the rings have had to remember: the IDs that were sent, and the*)
(* headers of what a station may have relayed.                             *)
IDsSent == (1 .. commands) \cup {PingIDs[i] : i \in 1 .. pings}
RelayedBy(s) == {Header(m) : m \in {n \in TrueMessages : shouldRelay(s, n)}}
FewIDs == Cardinality(IDsSent) <= permanentArraySize
FewRelays(s) == Cardinality(RelayedBy(s)) <= permanentArraySize

(* A ring is filled from its beginning, with different members of X.       *)
FilledFrom(ring, X, nothing) ==
  \E k \in 0 .. permanentArraySize :
    /\ \A i \in 1 .. k : ring[i] \in X
    /\ \A i, j \in 1 .. k : ring[i] = ring[j] => i = j
    /\ \A i \in k + 1 .. permanentArraySize : ring[i] = nothing

(* What ExecutedOnce and SendsOnce rest on, as long as the rings have room *)
(* for all of it: a ring holds whatever was handled or relayed, ...        *)
HandledHeld(s) ==
  /\ FilledFrom(recentlyHandledCommands[s], IDsSent, 0)
  /\ \A u \in 1 .. MaxCommands :
       /\ executed[s][u] > 0 => executed[s][u] = 1 /\ u \notin refused[s]
       /\ executed[s][u] > 0 \/ u \in refused[s] => Holds(recentlyHandledCommands[s], u)
RelayedHeld(s) ==
  /\ FilledFrom(recentlyRelayedMessages[s], RelayedBy(s), Header(NoMessage))
  /\ \A m \in Messages :
       Item("relay", m) \in sent[s] \cup Entries(outbox[s]) =>
         Holds(recentlyRelayedMessages[s], Header(m))

(* ... and what waits to be sent was not sent yet: answers of what was     *)
(* handled, relays, and what has to be sent again.                         *)
SendsNew(s) ==
  /\ \A i \in 1 .. Len(outbox[s]) :
       /\ outbox[s][i] \notin sent[s]
       /\ \A j \in 1 .. Len(outbox[s]) : outbox[s][i] = outbox[s][j] => i = j
       /\ outbox[s][i].kind \in {"answer", "relay", "resend"}
       /\ outbox[s][i].kind = "resend" =>
            Len(outbox[s]) = 1 /\ relayNeedsResend[s] /\ outbox[s][i].msg = relayMessage[s]
  /\ \A m \in Messages :
       /\ Item("answer", m) \in sent[s] \cup Entries(outbox[s]) =>
            m.type = "K" /\ m.stat = s /\ (executed[s][m.uid] > 0 \/ m.uid \in refused[s])
       /\ Item("resend", m) \in sent[s] => Item("relay", m) \in sent[s]
  /\ relayNeedsResend[s] =>
       /\ Item("relay", relayMessage[s]) \in sent[s]
       /\ Item("resend", relayMessage[s]) \notin sent[s]

OnceInv ==
  \A s \in Stations :
    /\ FewIDs => HandledHeld(s)
    /\ FewIDs /\ FewRelays(s) => RelayedHeld(s) /\ SendsNew(s)

IInv == TruthInv /\ OnceInv

(* A station that gives up sending a message again has reason to: a station*)
(* farther on its way has it, "the next station will only hear from        *)
(* downstream stations during its wait period" (MessageHandling.cpp:62).   *)
(* The delay that is meant to ensure this is shorter than the wait for a   *)
(* free channel: a station that has just relayed the message can hear the  *)
(* station before it repeat the same, and that is the only other thing it  *)
(* takes for a confirmation.  Stations are numbered away from the base;    *)
(* what became of an answer that went away from the base does not matter.  *)
Farther(s, m) == {t \in Stations : IF Command(m) THEN t > s ELSE t < s}
GotFarther(s, m) ==
  \/ ~Command(m) /\ m.stat < s
  \/ \E t \in Farther(s, m) : Item("relay", m) \in sent[t]
  \/ m \in answered
  \/ Command(m) /\ \E t \in Farther(s, m) : executed[t][m.uid] > 0 \/ m.uid \in refused[t]
HeardRepeated(s, m) ==
  /\ inbox[s] # <<>> /\ Head(inbox[s]).msg = m /\ Head(inbox[s]).listening
  /\ \E t \in Stations \ (Farther(s, m) \cup {s}) : Item("resend", m) \in sent[t]
GivesUpWithReason ==
  [][\A s \in Stations :
       relayNeedsResend[s] /\ ~relayNeedsResend'[s] /\ outbox[s] = <<>> =>
         GotFarther(s, relayMessage[s]) \/ HeardRepeated(s, relayMessage[s])]_vars

(* When no more commands are sent, the network falls silent.               *)
Silent == \A n \in Nodes : outbox[n] = <<>> /\ inbox[n] = <<>>
FallsSilent == <>[]Silent
=============================================================================
