------------------------ MODULE CommandNetworkProofs ------------------------
(***************************************************************************)
(* What CommandNetwork does for any number of stations in any positions,   *)
(* any lists of relays, rings of any length and any times: every message   *)
(* in the network is one that was sent, an answer is the truth, and while  *)
(* the rings have room no command is executed twice and no message goes    *)
(* around.                                                                 *)
(***************************************************************************)
EXTENDS CommandNetwork, SequenceTheorems, FiniteSetTheorems, TLAPS

-----------------------------------------------------------------------------
(* Queues, for a set M that all messages are in.                           *)

LEMMA NodesOf == Stations \subseteq Nodes /\ 0 \in Nodes
BY NetworkAssumption DEF Stations, Nodes

(* A packet that is heard goes to the end of a queue.                      *)
LEMMA DeliveredCarries ==
  ASSUME NEW M, NEW m \in M, NEW n, NEW heard \in SUBSET Nodes,
         inbox \in [Nodes -> Seq(Packet(M))]
  PROVE  Delivered(n, m, heard) \in [Nodes -> Seq(Packet(M))]
<1> SUFFICES ASSUME NEW t \in heard
             PROVE  Append(inbox[t], [msg |-> m, listening |-> Listening(t)]) \in Seq(Packet(M))
  BY DEF Delivered
<1>1. [msg |-> m, listening |-> Listening(t)] \in Packet(M)
  BY DEF Packet, Listening
<1>2. inbox[t] \in Seq(Packet(M))
  OBVIOUS
<1> QED  BY <1>1, <1>2, AppendProperties

LEMMA DeliveredBounded ==
  ASSUME NEW M, NEW m \in M, NEW n, NEW heard \in SUBSET Nodes,
         inbox \in [Nodes -> Seq(Packet(M))],
         \A t \in Nodes : Len(inbox[t]) <= MaxInbox,
         \A t \in heard : Len(inbox[t]) < MaxInbox
  PROVE  \A t \in Nodes : Len(Delivered(n, m, heard)[t]) <= MaxInbox
<1> SUFFICES ASSUME NEW t \in Nodes
             PROVE  Len(Delivered(n, m, heard)[t]) <= MaxInbox
  OBVIOUS
<1>1. CASE t \notin heard
  BY <1>1 DEF Delivered
<1>2. CASE t \in heard
  <2>1. [msg |-> m, listening |-> Listening(t)] \in Packet(M)
    BY DEF Packet, Listening
  <2>2. inbox[t] \in Seq(Packet(M)) /\ Len(inbox[t]) \in Nat /\ MaxInbox \in Nat
    BY BoundsAssumption, LenProperties
  <2>3. Len(Append(inbox[t], [msg |-> m, listening |-> Listening(t)])) = Len(inbox[t]) + 1
    BY <2>1, <2>2, AppendProperties
  <2> QED  BY <1>2, <2>2, <2>3 DEF Delivered
<1> QED  BY <1>1, <1>2

LEMMA UnheardCarries ==
  ASSUME NEW M, NEW q \in Seq(Packet(M))
  PROVE  Unheard(q) \in Seq(Packet(M)) /\ Len(Unheard(q)) = Len(q)
<1>1. DOMAIN q = 1 .. Len(q) /\ Len(q) \in Nat
  BY LenProperties
<1>2. \A i \in 1 .. Len(q) : [q[i] EXCEPT !.listening = FALSE] \in Packet(M)
  <2>1. \A i \in 1 .. Len(q) : q[i] \in Packet(M)
    BY ElementOfSeq
  <2> QED  BY <2>1 DEF Packet
<1>3. Unheard(q) \in [1 .. Len(q) -> Packet(M)]
  BY <1>1, <1>2 DEF Unheard
<1>4. Unheard(q) \in Seq(Packet(M))
  BY <1>1, <1>3, SeqDef
<1>5. DOMAIN Unheard(q) = 1 .. Len(q) /\ DOMAIN Unheard(q) = 1 .. Len(Unheard(q))
  BY <1>3, <1>4, LenProperties
<1>6. Len(Unheard(q)) \in Nat
  BY <1>4, LenProperties
<1> QED  BY <1>1, <1>4, <1>5, <1>6

(* At most one thing to send.                                              *)
LEMMA WhenCarries ==
  ASSUME NEW M, NEW p \in BOOLEAN, NEW x, p => x \in ToSend(M)
  PROVE  When(p, x) \in Seq(ToSend(M)) /\ Len(When(p, x)) <= 1
BY DEF When

LEMMA ItemTyped ==
  ASSUME NEW M, NEW kind \in Kinds, NEW m \in M
  PROVE  Item(kind, m) \in ToSend(M) /\ <<Item(kind, m)>> \in Seq(ToSend(M))
BY DEF Item, ToSend

LEMMA RingTyped ==
  ASSUME NEW T, NEW ring \in [1 .. permanentArraySize -> T], NEW x \in T
  PROVE  Remember(ring, x) \in [1 .. permanentArraySize -> T]
BY BoundsAssumption DEF Remember

-----------------------------------------------------------------------------
(* What an action leaves of a network that carries messages of M.          *)

CarriesNext(M) ==
  /\ inbox' \in [Nodes -> Seq(Packet(M))]
  /\ outbox' \in [Nodes -> Seq(ToSend(M))]
  /\ relayMessage' \in [Stations -> M \cup {NoMessage}]
  /\ answered' \subseteq M

LEMMA TransmitCarries ==
  ASSUME NEW M, NEW n \in Nodes, QueuesBounded, Carries(M), Transmit(n)
  PROVE  /\ outbox' \in [Nodes -> Seq(ToSend(M))]
         /\ waited' \in [Nodes -> 0 .. MaxChannelWait]
         /\ \A t \in Nodes : Len(outbox'[t]) <= 2
         /\ Head(outbox[n]).msg \in M /\ Head(outbox[n]).kind \in Kinds
         /\ Head(outbox[n]) \in ToSend(M)
<1>1. outbox[n] \in Seq(ToSend(M)) /\ outbox[n] # <<>>
  BY DEF Carries, Transmit
<1>2. /\ Head(outbox[n]) \in ToSend(M) /\ Tail(outbox[n]) \in Seq(ToSend(M))
      /\ Len(Tail(outbox[n])) = Len(outbox[n]) - 1 /\ Len(outbox[n]) \in Nat
  BY <1>1, HeadTailProperties, LenProperties
<1>3. outbox' = [outbox EXCEPT ![n] = Tail(outbox[n])]
  BY DEF Transmit
<1>4. outbox' \in [Nodes -> Seq(ToSend(M))]
  BY <1>2, <1>3 DEF Carries
<1>5. \A t \in Nodes : Len(outbox'[t]) <= 2
  <2> SUFFICES ASSUME NEW t \in Nodes
               PROVE  Len(outbox'[t]) <= 2
    OBVIOUS
  <2>1. CASE t = n
    BY <1>2, <1>3, <2>1 DEF Carries, QueuesBounded
  <2>2. CASE t # n
    BY <1>3, <2>2 DEF Carries, QueuesBounded
  <2> QED  BY <2>1, <2>2
<1>6. waited' \in [Nodes -> 0 .. MaxChannelWait]
  BY BoundsAssumption DEF Transmit, QueuesBounded
<1>7. Head(outbox[n]).msg \in M /\ Head(outbox[n]).kind \in Kinds
  BY <1>2 DEF ToSend
<1> QED  BY <1>2, <1>4, <1>5, <1>6, <1>7

(* The lengths of the packets' queues, after something was sent.           *)
HeardBy(n) == {t \in Neighbours(n) : Len(inbox[t]) < MaxInbox}

LEMMA SendRelayCarries ==
  ASSUME NEW M, NEW s \in Stations, QueuesBounded, Carries(M), SendRelay(s)
  PROVE  CarriesNext(M) /\ \A t \in Nodes : Len(inbox'[t]) <= MaxInbox
<1> DEFINE m == Head(outbox[s]).msg
<1>1. s \in Nodes /\ Transmit(s)
  BY NodesOf DEF SendRelay
<1>2. outbox' \in [Nodes -> Seq(ToSend(M))] /\ m \in M
  BY <1>1, TransmitCarries
<1>3. PICK heard \in SUBSET HeardBy(s) :
        inbox' = [Delivered(s, m, heard) EXCEPT ![s] = Unheard(@)]
  BY DEF SendRelay, HeardBy
<1>4. heard \in SUBSET Nodes /\ \A t \in heard : Len(inbox[t]) < MaxInbox
  BY <1>3 DEF HeardBy, Neighbours
<1>5. /\ Delivered(s, m, heard) \in [Nodes -> Seq(Packet(M))]
      /\ \A t \in Nodes : Len(Delivered(s, m, heard)[t]) <= MaxInbox
  BY <1>2, <1>4, DeliveredCarries, DeliveredBounded DEF Carries, QueuesBounded
<1>6. /\ Unheard(Delivered(s, m, heard)[s]) \in Seq(Packet(M))
      /\ Len(Unheard(Delivered(s, m, heard)[s])) <= MaxInbox
  BY <1>1, <1>5, UnheardCarries
<1>7. inbox' \in [Nodes -> Seq(Packet(M))] /\ \A t \in Nodes : Len(inbox'[t]) <= MaxInbox
  BY <1>3, <1>5, <1>6
<1>8. relayMessage' \in [Stations -> M \cup {NoMessage}] /\ answered' \subseteq M
  BY <1>2 DEF SendRelay, Carries, baseVars
<1> QED  BY <1>2, <1>7, <1>8 DEF CarriesNext

LEMMA SendOtherCarries ==
  ASSUME NEW M, NEW n \in Nodes, QueuesBounded, Carries(M), Transmit(n),
         \E heard \in SUBSET HeardBy(n) : inbox' = Delivered(n, Head(outbox[n]).msg, heard),
         UNCHANGED <<relayMessage, answered>>
  PROVE  CarriesNext(M) /\ \A t \in Nodes : Len(inbox'[t]) <= MaxInbox
<1> DEFINE m == Head(outbox[n]).msg
<1>1. outbox' \in [Nodes -> Seq(ToSend(M))] /\ m \in M
  BY TransmitCarries
<1>2. PICK heard \in SUBSET HeardBy(n) : inbox' = Delivered(n, m, heard)
  OBVIOUS
<1>3. heard \in SUBSET Nodes /\ \A t \in heard : Len(inbox[t]) < MaxInbox
  BY <1>2 DEF HeardBy, Neighbours
<1>4. inbox' \in [Nodes -> Seq(Packet(M))] /\ \A t \in Nodes : Len(inbox'[t]) <= MaxInbox
  BY <1>1, <1>2, <1>3, DeliveredCarries, DeliveredBounded DEF Carries, QueuesBounded
<1> QED  BY <1>1, <1>4 DEF CarriesNext, Carries

(* What a station makes of a message, for each result of a command.        *)
Passes(s, m) == ~Own(s, m) /\ Relay(s, m)
Answers(s, m, result) == Handles(s, m) /\ result # "silent"
Executed(s, m, result) == Handles(s, m) /\ result # "IGNORED"
Refused(s, m, result) == Handles(s, m) /\ result = "IGNORED"

ReadWith(s, m, result) ==
  /\ executed' = IF Executed(s, m, result)
                 THEN [executed EXCEPT ![s][m.uid] = @ + 1] ELSE executed
  /\ refused' = IF Refused(s, m, result)
                THEN [refused EXCEPT ![s] = @ \cup {m.uid}] ELSE refused
  /\ outbox' = [outbox EXCEPT ![s] =
       When(Answers(s, m, result), Item("answer", Acknowledgement(s, m, result)))
       \o When(Passes(s, m), Item("relay", AsRelayed(s, m)))]

LEMMA ReadsWith ==
  ASSUME NEW s, ReadMessage(s)
  PROVE  \E result \in Results : ReadWith(s, Head(inbox[s]).msg, result)
BY DEF ReadMessage, ReadWith, Executed, Refused, Answers, Passes

LEMMA ReadCarries ==
  ASSUME NEW M, NEW s \in Stations, QueuesBounded, Carries(M), ReadMessage(s),
         NEW result, ReadWith(s, Head(inbox[s]).msg, result),
         Answers(s, Head(inbox[s]).msg, result) =>
           Acknowledgement(s, Head(inbox[s]).msg, result) \in M
  PROVE  /\ CarriesNext(M) /\ Head(inbox[s]).msg \in M
         /\ \A t \in Nodes : Len(inbox'[t]) <= MaxInbox /\ Len(outbox'[t]) <= 2
<1> DEFINE m == Head(inbox[s]).msg
           first == When(Answers(s, m, result), Item("answer", Acknowledgement(s, m, result)))
           second == When(Passes(s, m), Item("relay", AsRelayed(s, m)))
<1>1. s \in Nodes /\ inbox[s] \in Seq(Packet(M)) /\ inbox[s] # <<>>
  BY NodesOf DEF ReadMessage, Carries
<1>2. /\ Head(inbox[s]) \in Packet(M) /\ Tail(inbox[s]) \in Seq(Packet(M))
      /\ Len(Tail(inbox[s])) = Len(inbox[s]) - 1 /\ Len(inbox[s]) \in Nat
  BY <1>1, HeadTailProperties, LenProperties
<1>3. m \in M
  BY <1>2 DEF Packet
<1>4. inbox' = [inbox EXCEPT ![s] = Tail(inbox[s])]
  BY DEF ReadMessage
<1>5. inbox' \in [Nodes -> Seq(Packet(M))] /\ \A t \in Nodes : Len(inbox'[t]) <= MaxInbox
  <2>1. inbox' \in [Nodes -> Seq(Packet(M))]
    BY <1>2, <1>4 DEF Carries
  <2>2. MaxInbox \in Nat
    BY BoundsAssumption
  <2>3. Len(Tail(inbox[s])) <= MaxInbox
    BY <1>1, <1>2, <2>2 DEF QueuesBounded
  <2>4. \A t \in Nodes : Len(inbox'[t]) <= MaxInbox
    BY <1>1, <1>4, <2>3 DEF Carries, QueuesBounded
  <2> QED  BY <2>1, <2>4
<1>6. first \in Seq(ToSend(M)) /\ Len(first) <= 1
  <2>1. Answers(s, m, result) => Item("answer", Acknowledgement(s, m, result)) \in ToSend(M)
    BY ItemTyped DEF Kinds
  <2>2. Answers(s, m, result) \in BOOLEAN
    BY DEF Answers
  <2> QED  BY <2>1, <2>2, WhenCarries
<1>7. second \in Seq(ToSend(M)) /\ Len(second) <= 1
  <2>1. Item("relay", AsRelayed(s, m)) \in ToSend(M)
    BY <1>3, ItemTyped DEF Kinds, AsRelayed
  <2>2. Passes(s, m) \in BOOLEAN
    BY DEF Passes
  <2> QED  BY <2>1, <2>2, WhenCarries
<1>8. /\ first \o second \in Seq(ToSend(M))
      /\ Len(first \o second) <= 2
  BY <1>6, <1>7, ConcatProperties, LenProperties
<1>9. outbox' = [outbox EXCEPT ![s] = first \o second]
  BY DEF ReadWith
<1>10. outbox' \in [Nodes -> Seq(ToSend(M))] /\ \A t \in Nodes : Len(outbox'[t]) <= 2
  BY <1>1, <1>8, <1>9 DEF Carries, QueuesBounded
<1>11. UNCHANGED <<relayMessage, answered>>
  BY DEF ReadMessage, baseVars
<1> QED  BY <1>3, <1>5, <1>10, <1>11 DEF CarriesNext, Carries

(* Something to send, and nothing else that matters here.                  *)
LEMMA PutCarries ==
  ASSUME NEW M, NEW n \in Nodes, NEW kind \in Kinds, NEW m \in M, QueuesBounded, Carries(M),
         outbox' = [outbox EXCEPT ![n] = <<Item(kind, m)>>], UNCHANGED relayMessage,
         inbox' \in [Nodes -> Seq(Packet(M))], answered' \subseteq M
  PROVE  CarriesNext(M) /\ \A t \in Nodes : Len(outbox'[t]) <= 2
<1>1. <<Item(kind, m)>> \in Seq(ToSend(M)) /\ Len(<<Item(kind, m)>>) = 1
  BY ItemTyped
<1>2. outbox' \in [Nodes -> Seq(ToSend(M))] /\ \A t \in Nodes : Len(outbox'[t]) <= 2
  BY <1>1 DEF Carries, QueuesBounded
<1> QED  BY <1>2 DEF CarriesNext, Carries

(* The base takes the oldest packet.                                       *)
LEMMA TakeCarries ==
  ASSUME NEW M, QueuesBounded, Carries(M), inbox[0] # <<>>,
         inbox' = [inbox EXCEPT ![0] = Tail(@)]
  PROVE  /\ inbox' \in [Nodes -> Seq(Packet(M))] /\ Head(inbox[0]).msg \in M
         /\ \A t \in Nodes : Len(inbox'[t]) <= MaxInbox
<1>1. inbox[0] \in Seq(Packet(M))
  BY NodesOf DEF Carries
<1>2. /\ Head(inbox[0]) \in Packet(M) /\ Tail(inbox[0]) \in Seq(Packet(M))
      /\ Len(Tail(inbox[0])) = Len(inbox[0]) - 1 /\ Len(inbox[0]) \in Nat
  BY <1>1, HeadTailProperties, LenProperties
<1>3. Len(Tail(inbox[0])) <= MaxInbox
  BY <1>2, NodesOf, BoundsAssumption DEF QueuesBounded
<1>4. \A t \in Nodes : Len(inbox'[t]) <= MaxInbox
  BY <1>3, NodesOf DEF Carries, QueuesBounded
<1>5. inbox' \in [Nodes -> Seq(Packet(M))]
  BY <1>2, NodesOf DEF Carries
<1> QED  BY <1>2, <1>4, <1>5 DEF Packet

-----------------------------------------------------------------------------
(* Messages that are sent, and those that are true.                        *)

LEMMA MessageFacts ==
  ASSUME NEW m \in Messages
  PROVE  /\ m.uid \in Nat /\ m # NoMessage /\ Header(m) # Header(NoMessage)
         /\ m.type = "C" => m.uid \in 1 .. MaxCommands
         /\ m.type = "K" =>
              /\ m.stat \in Stations /\ m.uid \in 1 .. MaxCommands
              /\ m.says \in {"OK", "IGNORED"}
              /\ [m EXCEPT !.type = "L", !.says = "-"] \in Messages
<1> USE NetworkAssumption, BoundsAssumption DEF Messages, Header
<1>1. CASE m \in [type : {"C"}, stat : Destinations, uid : 1 .. MaxCommands, says : {"-"}]
  BY <1>1 DEF NoMessage
<1>2. CASE m \in [type : {"K"}, stat : Stations, uid : 1 .. MaxCommands, says : {"OK", "IGNORED"}]
  <2>1. [m EXCEPT !.type = "L", !.says = "-"]
          \in [type : {"L"}, stat : Stations, uid : 1 .. MaxCommands, says : {"-"}]
    BY <1>2
  <2>2. m.uid \in Nat /\ m # NoMessage /\ Header(m) # Header(NoMessage)
    BY <1>2 DEF NoMessage
  <2> QED  BY <1>2, <2>1, <2>2
<1>3. CASE m \in [type : {"L"}, stat : Stations, uid : 1 .. MaxCommands, says : {"-"}]
  BY <1>3 DEF NoMessage
<1>4. CASE m \in [type : {"P"}, stat : {0}, uid : {PingIDs[i] : i \in DOMAIN PingIDs}, says : {"-"}]
  <2>1. \A i \in DOMAIN PingIDs : PingIDs[i] \in Nat
    BY ElementOfSeq, LenProperties
  <2> QED  BY <1>4, <2>1 DEF NoMessage
<1> QED  BY <1>1, <1>2, <1>3, <1>4

LEMMA CarriesMore ==
  ASSUME NEW M, NEW N, M \subseteq N, Carries(M)
  PROVE  Carries(N)
<1>1. Packet(M) \subseteq Packet(N) /\ ToSend(M) \subseteq ToSend(N)
  BY DEF Packet, ToSend
<1>2. \A n \in Nodes : inbox[n] \in Seq(Packet(N)) /\ outbox[n] \in Seq(ToSend(N))
  BY <1>1, SeqMonotonic DEF Carries
<1> QED  BY <1>2 DEF Carries

(* What a step may do to the history: nothing is taken back.               *)
CountsGrow ==
  /\ commands \in Nat /\ commands' \in Nat /\ commands <= commands'
  /\ pings \in Nat /\ pings' \in Nat /\ pings <= pings'
Executes ==
  \A t \in Stations, u \in 1 .. MaxCommands :
    /\ executed[t][u] > 0 => executed'[t][u] > 0
    /\ u \in refused[t] => u \in refused'[t]

(* What was true stays true.                                               *)
LEMMA TruthKept ==
  ASSUME CountsGrow, Executes
  PROVE  TrueMessages \subseteq TrueMessages' /\ TrueMessages' \subseteq Messages
<1>1. /\ \A i \in 1 .. pings : i \in 1 .. pings'
      /\ \A u \in 1 .. commands : u \in 1 .. commands'
  BY DEF CountsGrow
<1>2. \A m \in Messages : WasSent(m) => WasSent(m)'
  BY <1>1 DEF WasSent
<1>3. \A m \in Messages : m.type = "K" => m.stat \in Stations /\ m.uid \in 1 .. MaxCommands
  BY MessageFacts
<1> QED  BY <1>2, <1>3 DEF TrueMessages, IsTrue, Executes, Messages

(* Counting one more.                                                      *)
LEMMA CountedOnce ==
  ASSUME NEW f \in [1 .. MaxCommands -> Nat], NEW u \in 1 .. MaxCommands,
         NEW g, g = [f EXCEPT ![u] = @ + 1]
  PROVE  /\ g \in [1 .. MaxCommands -> Nat] /\ g[u] > 0
         /\ \A v \in 1 .. MaxCommands : g[v] >= f[v]
<1>1. f[u] \in Nat /\ f[u] + 1 \in Nat /\ g[u] = f[u] + 1
  OBVIOUS
<1>2. g \in [1 .. MaxCommands -> Nat]
  BY <1>1
<1>3. \A v \in 1 .. MaxCommands : g[v] >= f[v]
  <2> SUFFICES ASSUME NEW v \in 1 .. MaxCommands
               PROVE  g[v] >= f[v]
    OBVIOUS
  <2>1. f[v] \in Nat /\ (v # u => g[v] = f[v])
    OBVIOUS
  <2> QED  BY <1>1, <2>1
<1> QED  BY <1>1, <1>2, <1>3

(* A result makes its answer true and no other false.                      *)
LEMMA TruthGrows ==
  ASSUME TypeOK, NEW s \in Stations, ReadMessage(s), NEW m, m = Head(inbox[s]).msg,
         NEW result \in Results, ReadWith(s, m, result)
  PROVE  /\ executed' \in [Stations -> [1 .. MaxCommands -> Nat]]
         /\ refused' \in [Stations -> SUBSET (1 .. MaxCommands)]
         /\ Executes /\ CountsGrow
         /\ TrueMessages \subseteq TrueMessages'
         /\ Answers(s, m, result) /\ m \in TrueMessages =>
              Acknowledgement(s, m, result) \in TrueMessages'
<1> DEFINE counts == [executed[s] EXCEPT ![m.uid] = @ + 1]
<1>1. m \in Messages
  <2>1. inbox[s] \in Seq(Packet(Messages)) /\ inbox[s] # <<>>
    BY NodesOf DEF TypeOK, Carries, ReadMessage
  <2>2. Head(inbox[s]) \in Packet(Messages)
    BY <2>1, HeadTailProperties
  <2> QED  BY <2>2 DEF Packet
<1>2. /\ Executed(s, m, result) => executed' = [executed EXCEPT ![s] = counts]
      /\ ~Executed(s, m, result) => executed' = executed
      /\ Refused(s, m, result) => refused' = [refused EXCEPT ![s] = @ \cup {m.uid}]
      /\ ~Refused(s, m, result) => refused' = refused
  BY DEF ReadWith
<1>3. Handles(s, m) => m.uid \in 1 .. MaxCommands
  BY <1>1, MessageFacts DEF Handles, Command
<1>4. /\ executed \in [Stations -> [1 .. MaxCommands -> Nat]]
      /\ refused \in [Stations -> SUBSET (1 .. MaxCommands)]
  BY DEF TypeOK, StationsTyped
<1>5. ASSUME Executed(s, m, result)
      PROVE  /\ counts \in [1 .. MaxCommands -> Nat] /\ counts[m.uid] > 0
             /\ \A v \in 1 .. MaxCommands : counts[v] >= executed[s][v]
  BY <1>3, <1>4, <1>5, CountedOnce DEF Executed
<1> HIDE DEF counts
<1>6. /\ executed' \in [Stations -> [1 .. MaxCommands -> Nat]]
      /\ \A t \in Stations, u \in 1 .. MaxCommands : executed[t][u] > 0 => executed'[t][u] > 0
      /\ Executed(s, m, result) => executed'[s][m.uid] > 0
  <2>1. executed' \in [Stations -> [1 .. MaxCommands -> Nat]]
    BY <1>2, <1>4, <1>5
  <2>2. Executed(s, m, result) => executed'[s] = counts
    BY <1>2, <1>4
  <2>3. ASSUME NEW t \in Stations, NEW v \in 1 .. MaxCommands, executed[t][v] > 0
        PROVE  executed'[t][v] > 0
    <3>1. CASE Executed(s, m, result) /\ t = s
      <4>1. counts[v] >= executed[s][v] /\ counts[v] \in Nat /\ executed[s][v] \in Nat
        BY <1>4, <1>5, <3>1
      <4> QED  BY <2>2, <2>3, <3>1, <4>1
    <3>2. CASE ~(Executed(s, m, result) /\ t = s)
      <4>1. executed'[t][v] = executed[t][v]
        BY <1>2, <1>4, <3>2
      <4> QED  BY <2>3, <4>1
    <3> QED  BY <3>1, <3>2
  <2> QED  BY <1>5, <2>1, <2>2, <2>3
<1>7. /\ refused' \in [Stations -> SUBSET (1 .. MaxCommands)]
      /\ \A t \in Stations : refused[t] \subseteq refused'[t]
      /\ Refused(s, m, result) => m.uid \in refused'[s]
  <2>1. Refused(s, m, result) => m.uid \in 1 .. MaxCommands
    BY <1>3 DEF Refused
  <2>2. CASE Refused(s, m, result)
    <3>1. PICK more : more = refused[s] \cup {m.uid}
      OBVIOUS
    <3>2. more \in SUBSET (1 .. MaxCommands) /\ refused[s] \subseteq more /\ m.uid \in more
      BY <1>4, <2>1, <2>2, <3>1
    <3>3. refused' = [refused EXCEPT ![s] = more]
      BY <1>2, <2>2, <3>1
    <3> QED  BY <1>4, <3>2, <3>3
  <2>3. CASE ~Refused(s, m, result)
    BY <1>2, <1>4, <2>3
  <2> QED  BY <2>2, <2>3
<1>8. Executes
  BY <1>6, <1>7 DEF Executes
<1>9. CountsGrow
  BY DEF CountsGrow, ReadMessage, baseVars, TypeOK, QueuesBounded
<1>10. TrueMessages \subseteq TrueMessages'
  BY <1>8, <1>9, TruthKept
<1>11. ASSUME Answers(s, m, result), m \in TrueMessages
       PROVE  Acknowledgement(s, m, result) \in TrueMessages'
  <2>1. result \in {"OK", "IGNORED"} /\ Handles(s, m)
    BY <1>11 DEF Answers, Results
  <2>2. m.uid \in 1 .. commands /\ commands' = commands
    BY <1>11, <2>1 DEF TrueMessages, WasSent, Handles, Command, ReadMessage, baseVars
  <2>3. PICK ack : ack = Acknowledgement(s, m, result)
    OBVIOUS
  <2>4. /\ ack \in Messages /\ ack.type = "K" /\ ack.uid = m.uid /\ ack.stat = s
        /\ ack.says = result
    BY <1>3, <2>1, <2>3 DEF Acknowledgement, Messages
  <2>5. /\ ack.says = "OK" => executed'[ack.stat][ack.uid] > 0
        /\ ack.says = "IGNORED" => ack.uid \in refused'[ack.stat]
    BY <1>6, <1>7, <2>1, <2>4 DEF Executed, Refused
  <2>6. ack.uid \in 1 .. commands'
    BY <2>2, <2>4
  <2>7. ack \in TrueMessages'
    BY <2>4, <2>5, <2>6 DEF TrueMessages, WasSent, IsTrue, Messages
  <2> QED  BY <2>3, <2>7
<1> QED  BY <1>6, <1>7, <1>8, <1>9, <1>10, <1>11

-----------------------------------------------------------------------------
(* Every action keeps the invariant.                                       *)

ResendIsMessage == \A s \in Stations : relayNeedsResend[s] => relayMessage[s] # NoMessage

LEMMA Keeps ==
  ASSUME StationsTyped', QueuesBounded', CarriesNext(Messages), CarriesNext(TrueMessages'),
         ResendIsMessage'
  PROVE  TruthInv'
<1>1. Carries(Messages)'
  BY DEF Carries, CarriesNext, Packet, ToSend, Messages
<1>2. Carries(TrueMessages)'
  BY DEF Carries, CarriesNext, Packet, ToSend
<1> QED  BY <1>1, <1>2 DEF TruthInv, TypeOK, ResendIsMessage

(* What the actions that execute nothing have to show.                     *)
LEMMA KeepsTruth ==
  ASSUME TruthInv, StationsTyped', QueuesBounded', ResendIsMessage',
         \A M \in {Messages, TrueMessages'} : CarriesNext(M)
  PROVE  TruthInv'
BY Keeps

LEMMA CarriesBoth ==
  ASSUME TruthInv, Executes, CountsGrow, NEW M \in {Messages, TrueMessages'}
  PROVE  QueuesBounded /\ Carries(M) /\ M \subseteq Messages
<1>1. QueuesBounded /\ Carries(Messages) /\ Carries(TrueMessages)
  BY DEF TruthInv, TypeOK
<1>2. TrueMessages \subseteq TrueMessages' /\ TrueMessages' \subseteq Messages
  BY TruthKept
<1>3. Carries(TrueMessages')
  BY <1>1, <1>2, CarriesMore
<1> QED  BY <1>1, <1>2, <1>3

LEMMA NothingExecuted ==
  ASSUME TruthInv, UNCHANGED <<doneVars, commands, pings>>
  PROVE  Executes /\ CountsGrow
BY DEF Executes, CountsGrow, doneVars, TruthInv, TypeOK, QueuesBounded

(* What a station reads was sent.                                          *)
LEMMA HeadTrue ==
  ASSUME TruthInv, NEW s \in Stations, inbox[s] # <<>>
  PROVE  Head(inbox[s]).msg \in TrueMessages
<1>1. inbox[s] \in Seq(Packet(TrueMessages))
  BY NodesOf DEF TruthInv, Carries
<1>2. Head(inbox[s]) \in Packet(TrueMessages)
  BY <1>1, HeadTailProperties
<1> QED  BY <1>2 DEF Packet

LEMMA UnchangedTyped ==
  ASSUME StationsTyped, UNCHANGED <<ringVars, relayNeedsResend, doneVars, sent, age>>
  PROVE  StationsTyped'
BY DEF StationsTyped, ringVars, doneVars, Items, Messages, ToSend, Header, NoMessage

LEMMA HeaderTyped ==
  ASSUME NEW m \in Messages, NEW s \in Stations, StationsTyped
  PROVE  Remember(recentlyRelayedMessages[s], Header(m))
           \in [1 .. permanentArraySize -> {Header(n) : n \in Messages \cup {NoMessage}}]
BY RingTyped DEF StationsTyped

LEMMA ReadStep ==
  ASSUME TruthInv, NEW s \in Stations, ReadMessage(s)
  PROVE  TruthInv'
<1>0. PICK result \in Results : ReadWith(s, Head(inbox[s]).msg, result)
  BY ReadsWith
<1> DEFINE m == Head(inbox[s]).msg
<1>1. TypeOK /\ QueuesBounded /\ StationsTyped /\ Carries(Messages) /\ ResendIsMessage
  BY DEF TruthInv, TypeOK, ResendIsMessage
<1>2. /\ executed' \in [Stations -> [1 .. MaxCommands -> Nat]]
      /\ refused' \in [Stations -> SUBSET (1 .. MaxCommands)]
      /\ TrueMessages \subseteq TrueMessages'
      /\ Answers(s, m, result) => Acknowledgement(s, m, result) \in TrueMessages'
  <2>1. m \in TrueMessages
    BY HeadTrue DEF ReadMessage
  <2> QED  BY <1>0, <1>1, <2>1, TruthGrows
<1>12. TrueMessages' \subseteq Messages
  BY DEF TrueMessages, Messages
<1>3. /\ CarriesNext(Messages) /\ m \in Messages
      /\ \A t \in Nodes : Len(inbox'[t]) <= MaxInbox /\ Len(outbox'[t]) <= 2
  BY <1>0, <1>1, <1>2, <1>12, ReadCarries
<1>4. Carries(TrueMessages')
  BY <1>2, CarriesMore DEF TruthInv
<1>5. CarriesNext(TrueMessages')
  BY <1>0, <1>1, <1>2, <1>4, ReadCarries
<1>6. QueuesBounded'
  BY <1>1, <1>3 DEF QueuesBounded, ReadMessage, baseVars
<1>7. StationsTyped'
  <2>1. recentlyHandledCommands' \in [Stations -> [1 .. permanentArraySize -> Nat]]
    <3>1. Remember(recentlyHandledCommands[s], m.uid) \in [1 .. permanentArraySize -> Nat]
      BY <1>1, <1>3, MessageFacts, RingTyped DEF StationsTyped
    <3> QED  BY <1>1, <3>1 DEF StationsTyped, ReadMessage
  <2>2. recentlyRelayedMessages' \in
          [Stations -> [1 .. permanentArraySize -> {Header(n) : n \in Messages \cup {NoMessage}}]]
    <3>1. Remember(recentlyRelayedMessages[s], Header(m))
            \in [1 .. permanentArraySize -> {Header(n) : n \in Messages \cup {NoMessage}}]
      BY <1>1, <1>3, HeaderTyped
    <3> QED  BY <1>1, <3>1 DEF StationsTyped, ReadMessage
  <2>3. relayNeedsResend' \in [Stations -> BOOLEAN]
    BY <1>1 DEF StationsTyped, ReadMessage
  <2>4. UNCHANGED <<age, sent>>
    BY DEF ReadMessage
  <2> QED  BY <1>1, <1>2, <2>1, <2>2, <2>3, <2>4
           DEF StationsTyped, Items, Messages, ToSend, Header, NoMessage
<1>8. ResendIsMessage'
  <2>1. relayMessage' = relayMessage /\ \A t \in Stations : relayNeedsResend'[t] => relayNeedsResend[t]
    BY <1>1 DEF StationsTyped, ReadMessage
  <2> QED  BY <1>1, <2>1 DEF ResendIsMessage, NoMessage
<1> QED  BY <1>3, <1>5, <1>6, <1>7, <1>8, Keeps

LEMMA ResendStep ==
  ASSUME TruthInv, NEW s \in Stations, ResendRelay(s)
  PROVE  TruthInv'
<1>0. Executes /\ CountsGrow
  <2>1. UNCHANGED <<doneVars, commands, pings>>
    BY DEF ResendRelay, baseVars
  <2> QED  BY <2>1, NothingExecuted
<1>1. StationsTyped /\ QueuesBounded /\ ResendIsMessage /\ s \in Nodes
  BY NodesOf DEF TruthInv, TypeOK, ResendIsMessage
<1>2. ASSUME NEW M \in {Messages, TrueMessages'}
      PROVE  CarriesNext(M) /\ \A t \in Nodes : Len(outbox'[t]) <= 2
  <2>1. QueuesBounded /\ Carries(M)
    BY <1>0, <1>2, CarriesBoth
  <2>2. relayMessage[s] \in M
    BY <1>1, <2>1 DEF Carries, ResendRelay, ResendIsMessage
  <2>3. inbox' \in [Nodes -> Seq(Packet(M))] /\ answered' \subseteq M
    BY <2>1 DEF Carries, ResendRelay, baseVars
  <2> QED  BY <1>1, <2>1, <2>2, <2>3, PutCarries DEF Kinds, ResendRelay, relayVars
<1>3. QueuesBounded'
  BY <1>1, <1>2 DEF QueuesBounded, ResendRelay, baseVars
<1>4. StationsTyped'
  BY <1>1, UnchangedTyped DEF ResendRelay, relayVars
<1>5. ResendIsMessage'
  BY <1>1 DEF ResendIsMessage, ResendRelay, relayVars, NoMessage
<1> QED  BY <1>2, <1>3, <1>4, <1>5, KeepsTruth

(* What a station has sent.                                                *)
LEMMA SentTyped ==
  ASSUME StationsTyped, NEW s \in Stations, NEW x \in Items,
         sent' = [sent EXCEPT ![s] = @ \cup {x}]
  PROVE  sent' \in [Stations -> SUBSET Items]
BY DEF StationsTyped

LEMMA SendRelayStep ==
  ASSUME TruthInv, NEW s \in Stations, SendRelay(s)
  PROVE  TruthInv'
<1>0. Executes /\ CountsGrow
  <2>1. UNCHANGED <<doneVars, commands, pings>>
    BY DEF SendRelay, Transmit, baseVars
  <2> QED  BY <2>1, NothingExecuted
<1>1. /\ StationsTyped /\ QueuesBounded /\ ResendIsMessage /\ s \in Nodes /\ Transmit(s)
      /\ Carries(Messages)
  BY NodesOf DEF TruthInv, TypeOK, ResendIsMessage, SendRelay
<1>2. ASSUME NEW M \in {Messages, TrueMessages'}
      PROVE  CarriesNext(M) /\ \A t \in Nodes : Len(inbox'[t]) <= MaxInbox
  <2>1. QueuesBounded /\ Carries(M)
    BY <1>0, <1>2, CarriesBoth
  <2> QED  BY <2>1, SendRelayCarries
<1>3. /\ waited' \in [Nodes -> 0 .. MaxChannelWait]
      /\ \A t \in Nodes : Len(outbox'[t]) <= 2
      /\ Head(outbox[s]).msg \in Messages /\ Head(outbox[s]) \in Items
  BY <1>1, TransmitCarries DEF Items
<1>4. QueuesBounded'
  BY <1>1, <1>2, <1>3 DEF QueuesBounded, SendRelay, baseVars
<1>5. StationsTyped'
  <2>1. sent' \in [Stations -> SUBSET Items]
    BY <1>1, <1>3, SentTyped DEF SendRelay
  <2>2. relayNeedsResend' \in [Stations -> BOOLEAN]
    BY <1>1 DEF StationsTyped, SendRelay
  <2>3. age' \in [Stations -> 0 .. ListensFor + 1]
    BY <1>1, BoundsAssumption DEF StationsTyped, SendRelay, ListensFor
  <2>4. UNCHANGED <<recentlyHandledCommands, recentlyRelayedMessages, executed, refused>>
    BY DEF SendRelay, Transmit, ringVars, doneVars
  <2> QED  BY <1>1, <2>1, <2>2, <2>3, <2>4 DEF StationsTyped, Items, Messages, ToSend, Header, NoMessage
<1>6. ResendIsMessage'
  <2>1. Head(outbox[s]).msg # NoMessage
    BY <1>3, MessageFacts
  <2>2. /\ relayMessage' = [relayMessage EXCEPT ![s] = Head(outbox[s]).msg]
        /\ \A t \in Stations \ {s} : relayNeedsResend'[t] = relayNeedsResend[t]
    BY <1>1 DEF StationsTyped, SendRelay
  <2>3. \A t \in Stations : relayNeedsResend'[t] => relayMessage'[t] # NoMessage
    BY <1>1, <2>1, <2>2 DEF ResendIsMessage, Carries
  <2> QED  BY <2>3 DEF ResendIsMessage, NoMessage
<1> QED  BY <1>2, <1>4, <1>5, <1>6, KeepsTruth

LEMMA SendOtherStep ==
  ASSUME TruthInv, NEW s \in Stations, SendOther(s)
  PROVE  TruthInv'
<1>0. Executes /\ CountsGrow
  <2>1. UNCHANGED <<doneVars, commands, pings>>
    BY DEF SendOther, Transmit, baseVars
  <2> QED  BY <2>1, NothingExecuted
<1>1. /\ StationsTyped /\ QueuesBounded /\ ResendIsMessage /\ s \in Nodes /\ Transmit(s)
      /\ Carries(Messages)
  BY NodesOf DEF TruthInv, TypeOK, ResendIsMessage, SendOther
<1>2. ASSUME NEW M \in {Messages, TrueMessages'}
      PROVE  CarriesNext(M) /\ \A t \in Nodes : Len(inbox'[t]) <= MaxInbox
  <2>1. QueuesBounded /\ Carries(M)
    BY <1>0, <1>2, CarriesBoth
  <2>2. /\ \E heard \in SUBSET HeardBy(s) : inbox' = Delivered(s, Head(outbox[s]).msg, heard)
        /\ UNCHANGED <<relayMessage, answered>>
    BY DEF SendOther, HeardBy, baseVars
  <2> QED  BY <1>1, <2>1, <2>2, SendOtherCarries
<1>3. /\ waited' \in [Nodes -> 0 .. MaxChannelWait]
      /\ \A t \in Nodes : Len(outbox'[t]) <= 2
      /\ Head(outbox[s]) \in Items
  BY <1>1, TransmitCarries DEF Items
<1>4. QueuesBounded'
  BY <1>1, <1>2, <1>3 DEF QueuesBounded, SendOther, baseVars
<1>5. StationsTyped'
  <2>1. sent' \in [Stations -> SUBSET Items]
    BY <1>1, <1>3, SentTyped DEF SendOther
  <2>2. relayNeedsResend' \in [Stations -> BOOLEAN]
    BY <1>1 DEF StationsTyped, SendOther
  <2>3. UNCHANGED <<recentlyHandledCommands, recentlyRelayedMessages, executed, refused, age>>
    BY DEF SendOther, Transmit, ringVars, doneVars
  <2> QED  BY <1>1, <2>1, <2>2, <2>3 DEF StationsTyped, Items, Messages, ToSend, Header, NoMessage
<1>6. ResendIsMessage'
  <2>1. relayMessage' = relayMessage /\ \A t \in Stations : relayNeedsResend'[t] => relayNeedsResend[t]
    BY <1>1 DEF StationsTyped, SendOther
  <2> QED  BY <1>1, <2>1 DEF ResendIsMessage, NoMessage
<1> QED  BY <1>2, <1>4, <1>5, <1>6, KeepsTruth

LEMMA BaseTransmitsStep ==
  ASSUME TruthInv, BaseTransmits
  PROVE  TruthInv'
<1>0. Executes /\ CountsGrow
  <2>1. UNCHANGED <<doneVars, commands, pings>>
    BY DEF BaseTransmits, Transmit, baseVars
  <2> QED  BY <2>1, NothingExecuted
<1>1. StationsTyped /\ QueuesBounded /\ ResendIsMessage /\ 0 \in Nodes /\ Transmit(0)
  BY NodesOf DEF TruthInv, TypeOK, ResendIsMessage, BaseTransmits
<1>2. ASSUME NEW M \in {Messages, TrueMessages'}
      PROVE  /\ CarriesNext(M)
             /\ waited' \in [Nodes -> 0 .. MaxChannelWait]
             /\ \A t \in Nodes : Len(inbox'[t]) <= MaxInbox /\ Len(outbox'[t]) <= 2
  <2>1. QueuesBounded /\ Carries(M)
    BY <1>0, <1>2, CarriesBoth
  <2>2. /\ \E heard \in SUBSET HeardBy(0) : inbox' = Delivered(0, Head(outbox[0]).msg, heard)
        /\ UNCHANGED <<relayMessage, answered>>
    BY DEF BaseTransmits, HeardBy, baseVars, relayVars
  <2> QED  BY <1>1, <2>1, <2>2, SendOtherCarries, TransmitCarries
<1>3. UNCHANGED <<ringVars, relayVars, doneVars, sent, commands, pings>>
  BY DEF BaseTransmits, Transmit, baseVars
<1>4. QueuesBounded'
  BY <1>1, <1>2, <1>3 DEF QueuesBounded
<1>5. StationsTyped' /\ ResendIsMessage'
  BY <1>1, <1>3, UnchangedTyped DEF relayVars, ResendIsMessage, NoMessage
<1> QED  BY <1>2, <1>4, <1>5, KeepsTruth

(* Whatever the base gives itself to send.                                 *)
LEMMA BaseSendsStep ==
  ASSUME TruthInv, BaseIdle, CountsGrow, NEW m, BaseSends(m),
         \A M \in {Messages, TrueMessages'} :
           m \in M /\ inbox' \in [Nodes -> Seq(Packet(M))] /\ answered' \subseteq M,
         \A t \in Nodes : Len(inbox'[t]) <= MaxInbox,
         commands' \in 0 .. MaxCommands, pings' \in 0 .. Len(PingIDs)
  PROVE  TruthInv'
<1>0. Executes
  BY DEF BaseIdle, Executes, doneVars
<1>1. StationsTyped /\ QueuesBounded /\ ResendIsMessage /\ 0 \in Nodes
  BY NodesOf DEF TruthInv, TypeOK, ResendIsMessage
<1>2. UNCHANGED <<ringVars, relayVars, waited, doneVars, sent>>
  BY DEF BaseIdle
<1>3. ASSUME NEW M \in {Messages, TrueMessages'}
      PROVE  CarriesNext(M) /\ \A t \in Nodes : Len(outbox'[t]) <= 2
  <2>1. QueuesBounded /\ Carries(M)
    BY <1>0, <1>3, CarriesBoth
  <2>2. outbox' = [outbox EXCEPT ![0] = <<Item("own", m)>>] /\ "own" \in Kinds
    BY DEF BaseSends, Kinds
  <2> QED  BY <1>1, <1>2, <2>1, <2>2, PutCarries DEF relayVars
<1>4. QueuesBounded'
  BY <1>1, <1>2, <1>3 DEF QueuesBounded
<1>5. StationsTyped' /\ ResendIsMessage'
  BY <1>1, <1>2, UnchangedTyped DEF relayVars, ResendIsMessage, NoMessage
<1> QED  BY <1>3, <1>4, <1>5, KeepsTruth
(* What the base has when it sends something of its own accord.            *)
LEMMA BaseKeeps ==
  ASSUME TruthInv, Executes, CountsGrow, UNCHANGED <<inbox, answered>>
  PROVE  /\ \A M \in {Messages, TrueMessages'} :
              inbox' \in [Nodes -> Seq(Packet(M))] /\ answered' \subseteq M
         /\ \A t \in Nodes : Len(inbox'[t]) <= MaxInbox
         /\ commands \in 0 .. MaxCommands /\ pings \in 0 .. Len(PingIDs)
<1>1. ASSUME NEW M \in {Messages, TrueMessages'}
      PROVE  inbox' \in [Nodes -> Seq(Packet(M))] /\ answered' \subseteq M
  BY <1>1, CarriesBoth DEF Carries
<1> QED  BY <1>1 DEF TruthInv, TypeOK, QueuesBounded

LEMMA SendCommandStep ==
  ASSUME TruthInv, SendCommand
  PROVE  TruthInv'
<1>1. PICK d \in Destinations : BaseSends([type |-> "C", stat |-> d, uid |-> commands + 1, says |-> "-"])
  BY DEF SendCommand
<1> DEFINE c == [type |-> "C", stat |-> d, uid |-> commands + 1, says |-> "-"]
<1>2. /\ commands \in 0 .. MaxCommands /\ commands < MaxCommands /\ MaxCommands \in Nat
      /\ pings \in 0 .. Len(PingIDs) /\ pings \in Nat
  BY BoundsAssumption DEF SendCommand, TruthInv, TypeOK, QueuesBounded
<1>3. commands' = commands + 1 /\ pings' = pings /\ BaseIdle /\ UNCHANGED <<inbox, answered>>
  BY DEF SendCommand
<1>4. CountsGrow /\ Executes
  BY <1>2, <1>3 DEF CountsGrow, Executes, BaseIdle, doneVars
<1>5. c \in Messages
  BY <1>2 DEF Messages
<1>6. c \in TrueMessages'
  <2>1. commands + 1 \in 1 .. commands'
    BY <1>2, <1>3
  <2>2. c.type = "C" /\ c.uid = commands + 1
    OBVIOUS
  <2> HIDE DEF c
  <2> QED  BY <1>5, <2>1, <2>2 DEF TrueMessages, WasSent, Messages
<1>7. commands' \in 0 .. MaxCommands
  BY <1>2, <1>3
<1>8. BaseSends(c)
  BY <1>1
<1>9. /\ \A M \in {Messages, TrueMessages'} :
           inbox' \in [Nodes -> Seq(Packet(M))] /\ answered' \subseteq M
      /\ \A t \in Nodes : Len(inbox'[t]) <= MaxInbox
  BY <1>3, <1>4, BaseKeeps
<1> HIDE DEF c
<1> QED  BY <1>2, <1>3, <1>4, <1>5, <1>6, <1>7, <1>8, <1>9, BaseSendsStep

LEMMA SendPingStep ==
  ASSUME TruthInv, SendPing
  PROVE  TruthInv'
<1> DEFINE p == [type |-> "P", stat |-> 0, uid |-> PingIDs[pings + 1], says |-> "-"]
<1>1. /\ pings \in 0 .. Len(PingIDs) /\ pings < Len(PingIDs) /\ Len(PingIDs) \in Nat
      /\ commands \in 0 .. MaxCommands /\ commands \in Nat
  BY NetworkAssumption, LenProperties DEF SendPing, TruthInv, TypeOK, QueuesBounded
<1>2. pings + 1 \in DOMAIN PingIDs /\ pings + 1 \in 1 .. (pings + 1)
  BY <1>1, NetworkAssumption, LenProperties
<1>3. /\ pings' = pings + 1 /\ commands' = commands /\ BaseIdle /\ UNCHANGED <<inbox, answered>>
      /\ BaseSends(p)
  BY DEF SendPing
<1>4. CountsGrow /\ Executes
  BY <1>1, <1>3 DEF CountsGrow, Executes, BaseIdle, doneVars
<1>5. p \in Messages
  BY <1>2 DEF Messages
<1>6. p \in TrueMessages'
  <2>1. \E i \in 1 .. pings' : p.uid = PingIDs[i]
    BY <1>2, <1>3
  <2>2. p.type = "P"
    OBVIOUS
  <2> HIDE DEF p
  <2> QED  BY <1>5, <2>1, <2>2 DEF TrueMessages, WasSent, Messages
<1>7. pings' \in 0 .. Len(PingIDs)
  BY <1>1, <1>3
<1>8. /\ \A M \in {Messages, TrueMessages'} :
           inbox' \in [Nodes -> Seq(Packet(M))] /\ answered' \subseteq M
      /\ \A t \in Nodes : Len(inbox'[t]) <= MaxInbox
  BY <1>3, <1>4, BaseKeeps
<1> HIDE DEF p
<1> QED  BY <1>1, <1>3, <1>4, <1>5, <1>6, <1>7, <1>8, BaseSendsStep

LEMMA AcknowledgeStep ==
  ASSUME TruthInv, AcknowledgeResponse
  PROVE  TruthInv'
<1> DEFINE m == Head(inbox[0]).msg
           ack == [m EXCEPT !.type = "L", !.says = "-"]
<1>0. Executes /\ CountsGrow
  <2>1. UNCHANGED <<doneVars, commands, pings>>
    BY DEF AcknowledgeResponse, BaseIdle
  <2> QED  BY <2>1, NothingExecuted
<1>1. /\ inbox[0] # <<>> /\ inbox' = [inbox EXCEPT ![0] = Tail(@)] /\ BaseIdle
      /\ UNCHANGED <<commands, pings>>
      /\ commands \in 0 .. MaxCommands /\ pings \in 0 .. Len(PingIDs)
      /\ StationsTyped /\ QueuesBounded /\ ResendIsMessage
  BY DEF AcknowledgeResponse, TruthInv, TypeOK, QueuesBounded, ResendIsMessage
<1>2. ASSUME NEW M \in {Messages, TrueMessages'}
      PROVE  /\ inbox' \in [Nodes -> Seq(Packet(M))] /\ m \in M
             /\ \A t \in Nodes : Len(inbox'[t]) <= MaxInbox
  <2>1. QueuesBounded /\ Carries(M)
    BY <1>0, <1>2, CarriesBoth
  <2> QED  BY <1>1, <2>1, TakeCarries
<1>3. CASE m.type = "K"
  <2>1. BaseSends(ack) /\ answered' = answered \cup {m}
    BY <1>3 DEF AcknowledgeResponse
  <2>2. m \in Messages /\ m \in TrueMessages'
    BY <1>2
  <2>3. ack \in Messages /\ ack.type = "L" /\ ack.uid = m.uid
    <3>1. ack \in Messages
      BY <1>3, <2>2, MessageFacts
    <3>2. "type" \in DOMAIN m
      BY <2>2 DEF Messages
    <3> QED  BY <3>1, <3>2
  <2>4. ASSUME NEW M \in {Messages, TrueMessages'}
        PROVE  answered' \subseteq M
    <3>1. answered \subseteq M
      BY <1>0, <2>4, CarriesBoth DEF Carries
    <3> QED  BY <1>2, <2>1, <3>1
  <2> HIDE DEF m, ack
  <2>5. ack \in TrueMessages'
    BY <1>3, <2>2, <2>3 DEF TrueMessages, WasSent, Messages
  <2> QED  BY <1>0, <1>1, <1>2, <2>1, <2>3, <2>4, <2>5, BaseSendsStep
<1>4. CASE m.type # "K"
  <2>1. UNCHANGED <<outbox, answered, commands, pings, ringVars, relayVars, waited, doneVars, sent>>
    BY <1>1, <1>4 DEF AcknowledgeResponse, BaseIdle
  <2>2. ASSUME NEW M \in {Messages, TrueMessages'}
        PROVE  CarriesNext(M)
    BY <1>0, <1>2, <2>1, <2>2, CarriesBoth DEF Carries, CarriesNext, relayVars
  <2>3. QueuesBounded'
    BY <1>1, <1>2, <2>1 DEF QueuesBounded
  <2>4. StationsTyped' /\ ResendIsMessage'
    BY <1>1, <2>1, UnchangedTyped DEF relayVars, ResendIsMessage, NoMessage
  <2> QED  BY <2>2, <2>3, <2>4, KeepsTruth
<1> QED  BY <1>3, <1>4

(* What moves no message, executes nothing and keeps the counts in range.  *)
LEMMA QuietStep ==
  ASSUME TruthInv,
         UNCHANGED <<ringVars, relayMessage, relayNeedsResend, inbox, outbox, doneVars, sent, baseVars>>,
         age' \in [Stations -> 0 .. ListensFor + 1],
         waited' \in [Nodes -> 0 .. MaxChannelWait]
  PROVE  TruthInv'
<1>0. Executes /\ CountsGrow
  <2>1. UNCHANGED <<doneVars, commands, pings>>
    BY DEF baseVars
  <2> QED  BY <2>1, NothingExecuted
<1>1. StationsTyped /\ QueuesBounded /\ ResendIsMessage
  BY DEF TruthInv, TypeOK, ResendIsMessage
<1>2. ASSUME NEW M \in {Messages, TrueMessages'}
      PROVE  CarriesNext(M)
  BY <1>0, <1>2, CarriesBoth DEF Carries, CarriesNext, baseVars
<1>3. QueuesBounded'
  BY <1>1 DEF QueuesBounded, baseVars
<1>4. StationsTyped'
  BY <1>1 DEF StationsTyped, ringVars, doneVars, Items, Messages, ToSend, ListensFor, Header, NoMessage
<1>5. ResendIsMessage'
  BY <1>1 DEF ResendIsMessage, NoMessage
<1> QED  BY <1>2, <1>3, <1>4, <1>5, KeepsTruth

LEMMA TickStep ==
  ASSUME TruthInv, Tick
  PROVE  TruthInv'
<1>1. StationsTyped /\ QueuesBounded
  BY DEF TruthInv, TypeOK
<1>2. age' \in [Stations -> 0 .. ListensFor + 1]
  <2>1. ListensFor \in Nat
    BY BoundsAssumption DEF ListensFor
  <2> QED  BY <1>1, <2>1 DEF StationsTyped, Tick
<1>3. waited' \in [Nodes -> 0 .. MaxChannelWait]
  <2>1. \A n \in Nodes : outbox[n] # <<>> => waited[n] < MaxChannelWait
    BY DEF Tick
  <2>2. MaxChannelWait \in Nat
    BY BoundsAssumption
  <2> QED  BY <1>1, <2>1, <2>2 DEF QueuesBounded, Tick
<1> QED  BY <1>2, <1>3, QuietStep DEF Tick

-----------------------------------------------------------------------------
LEMMA InitTruth == Init => TruthInv
<1> SUFFICES ASSUME Init PROVE TruthInv
  OBVIOUS
<1> USE NetworkAssumption, BoundsAssumption
<1>1. StationsTyped
  BY DEF Init, StationsTyped, Zeros, ListensFor, Items
<1>2. QueuesBounded
  BY LenProperties DEF Init, QueuesBounded
<1>3. \A M : Carries(M)
  BY EmptySeq DEF Init, Carries
<1> QED  BY <1>1, <1>2, <1>3 DEF Init, TruthInv, TypeOK

LEMMA NextTruth == TruthInv /\ [Next]_vars => TruthInv'
<1> SUFFICES ASSUME TruthInv, [Next]_vars PROVE TruthInv'
  OBVIOUS
<1>1. ASSUME NEW s \in Stations, Station(s)
      PROVE  TruthInv'
  BY <1>1, ReadStep, ResendStep, SendRelayStep, SendOtherStep DEF Station
<1>2. CASE UNCHANGED vars
  BY <1>2, QuietStep DEF vars, relayVars, radioVars, TruthInv, TypeOK, StationsTyped, QueuesBounded
<1> QED  BY <1>1, <1>2, SendCommandStep, SendPingStep, AcknowledgeStep, BaseTransmitsStep,
            TickStep DEF Next

-----------------------------------------------------------------------------
(* What can be sent is finite, and more of it was sent after a step than   *)
(* before.                                                                 *)

LEMMA RecordOf ==
  ASSUME NEW m \in Messages
  PROVE  /\ m = [type |-> m.type, stat |-> m.stat, uid |-> m.uid, says |-> m.says]
         /\ m.type \in {"C", "K", "L", "P"} /\ m.stat \in Nodes
         /\ m.uid \in (1 .. MaxCommands) \cup {PingIDs[i] : i \in DOMAIN PingIDs}
<1> USE NetworkAssumption, NodesOf DEF Messages
<1>1. CASE m \in [type : {"C"}, stat : Destinations, uid : 1 .. MaxCommands, says : {"-"}]
  BY <1>1
<1>2. CASE m \in [type : {"K"}, stat : Stations, uid : 1 .. MaxCommands, says : {"OK", "IGNORED"}]
  BY <1>2
<1>3. CASE m \in [type : {"L"}, stat : Stations, uid : 1 .. MaxCommands, says : {"-"}]
  BY <1>3
<1>4. CASE m \in [type : {"P"}, stat : {0}, uid : {PingIDs[i] : i \in DOMAIN PingIDs}, says : {"-"}]
  BY <1>4
<1> QED  BY <1>1, <1>2, <1>3, <1>4

UpTo(k) == 1 .. k
FirstPings(k) == {PingIDs[i] : i \in 1 .. k}

LEMMA UpToFinite ==
  ASSUME NEW k \in Nat
  PROVE  IsFiniteSet(UpTo(k)) /\ IsFiniteSet(FirstPings(k))
<1> DEFINE f == [i \in 1 .. k |-> PingIDs[i]]
<1>1. f \in Surjection(1 .. k, FirstPings(k))
  BY DEF Surjection, FirstPings
<1>2. IsFiniteSet(1 .. k)
  BY FS_Interval
<1> QED  BY <1>1, <1>2, FS_Surjection DEF UpTo

LEMMA IDsOf == IDsSent = UpTo(commands) \cup FirstPings(pings)
BY DEF IDsSent, UpTo, FirstPings

(* The headers of all messages.                                            *)
Headers == {Header(m) : m \in Messages}

LEMMA HeadersFinite == IsFiniteSet(Headers)
<1> DEFINE types == {"C", "K"} \cup {"L", "P"}
           ids == UpTo(MaxCommands) \cup FirstPings(Len(PingIDs))
           all == (types \X Nodes) \X ids
           f == [h \in Headers |-> <<<<h.type, h.stat>>, h.uid>>]
<1>1. IsFiniteSet(types)
  <2>1. IsFiniteSet({"C"} \cup {"K"}) /\ IsFiniteSet({"L"} \cup {"P"})
    BY FS_Singleton, FS_Union
  <2>2. types = ({"C"} \cup {"K"}) \cup ({"L"} \cup {"P"})
    OBVIOUS
  <2> QED  BY <2>1, <2>2, FS_Union
<1>2. IsFiniteSet(Nodes)
  BY NetworkAssumption, FS_Interval DEF Nodes
<1>3. IsFiniteSet(ids)
  <2>1. Len(PingIDs) \in Nat /\ MaxCommands \in Nat
    BY NetworkAssumption, BoundsAssumption, LenProperties
  <2>2. IsFiniteSet(UpTo(MaxCommands)) /\ IsFiniteSet(FirstPings(Len(PingIDs)))
    BY <2>1, UpToFinite
  <2> QED  BY <2>2, FS_Union
<1>4. IsFiniteSet(all)
  <2>1. IsFiniteSet(types \X Nodes)
    BY <1>1, <1>2, FS_Product
  <2> QED  BY <1>3, <2>1, FS_Product
<1>5. f \in Injection(Headers, all)
  <2>1. DOMAIN PingIDs = 1 .. Len(PingIDs)
    BY NetworkAssumption, LenProperties
  <2>2. \A m \in Messages : m.type \in types /\ m.stat \in Nodes /\ m.uid \in ids
    BY <2>1, RecordOf DEF UpTo, FirstPings
  <2>3. \A h \in Headers : /\ h.type \in types /\ h.stat \in Nodes /\ h.uid \in ids
                          /\ h = [type |-> h.type, stat |-> h.stat, uid |-> h.uid]
    <3> HIDE DEF types, ids
    <3> QED  BY <2>2 DEF Headers, Header
  <2>4. f \in [Headers -> all]
    <3> HIDE DEF types, ids
    <3> QED  BY <2>3
  <2>5. ASSUME NEW g \in Headers, NEW h \in Headers, f[g] = f[h]
        PROVE  g = h
    <3>1. g.type = h.type /\ g.stat = h.stat /\ g.uid = h.uid
      BY <2>5
    <3> QED  BY <2>3, <3>1
  <2> QED  BY <2>4, <2>5 DEF Injection, IsInjective
<1> QED  BY <1>4, <1>5, FS_Injection

LEMMA IDsFinite ==
  ASSUME commands \in Nat, pings \in Nat
  PROVE  IsFiniteSet(IDsSent)
<1>1. IsFiniteSet(UpTo(commands)) /\ IsFiniteSet(FirstPings(pings))
  BY UpToFinite
<1> QED  BY <1>1, IDsOf, FS_Union

LEMMA MoreIsSent ==
  ASSUME CountsGrow, Executes
  PROVE  /\ IDsSent \subseteq IDsSent' /\ IsFiniteSet(IDsSent) /\ IsFiniteSet(IDsSent')
         /\ FewIDs' => FewIDs
         /\ \A s \in Stations :
              /\ RelayedBy(s) \subseteq RelayedBy(s)' /\ IsFiniteSet(RelayedBy(s)')
              /\ FewRelays(s)' => FewRelays(s)
<1>1. /\ commands \in Nat /\ commands' \in Nat /\ commands <= commands'
      /\ pings \in Nat /\ pings' \in Nat /\ pings <= pings'
  BY DEF CountsGrow
<1>2. IDsSent \subseteq IDsSent'
  <2>1. 1 .. commands \subseteq 1 .. commands' /\ 1 .. pings \subseteq 1 .. pings'
    BY <1>1
  <2> QED  BY <2>1 DEF IDsSent
<1>3. IsFiniteSet(IDsSent)
  BY <1>1, IDsFinite
<1>4. IsFiniteSet(IDsSent')
  <2>1. IsFiniteSet(UpTo(commands')) /\ IsFiniteSet(FirstPings(pings'))
    BY <1>1, UpToFinite
  <2>2. IDsSent' = UpTo(commands') \cup FirstPings(pings')
    BY DEF IDsSent, UpTo, FirstPings
  <2> QED  BY <2>1, <2>2, FS_Union
<1>5. permanentArraySize \in Nat
  BY BoundsAssumption
<1>6. FewIDs' => FewIDs
  <2>1. Cardinality(IDsSent) <= Cardinality(IDsSent')
    BY <1>2, <1>4, FS_Subset
  <2>2. Cardinality(IDsSent) \in Nat /\ Cardinality(IDsSent') \in Nat
    BY <1>3, <1>4, FS_CardinalityType
  <2> QED  BY <1>5, <2>1, <2>2 DEF FewIDs
<1>7. ASSUME NEW s \in Stations
      PROVE  /\ RelayedBy(s) \subseteq RelayedBy(s)' /\ IsFiniteSet(RelayedBy(s)')
             /\ FewRelays(s)' => FewRelays(s)
  <2>1. TrueMessages \subseteq TrueMessages' /\ TrueMessages' \subseteq Messages
    BY TruthKept
  <2>2. RelayedBy(s) \subseteq RelayedBy(s)' /\ RelayedBy(s)' \subseteq Headers
    BY <2>1 DEF RelayedBy, Headers, Header, shouldRelay
  <2>3. IsFiniteSet(RelayedBy(s)')
    BY <2>2, HeadersFinite, FS_Subset
  <2>4. IsFiniteSet(RelayedBy(s)) /\ Cardinality(RelayedBy(s)) <= Cardinality(RelayedBy(s)')
    BY <2>2, <2>3, FS_Subset
  <2>5. Cardinality(RelayedBy(s)) \in Nat /\ Cardinality(RelayedBy(s)') \in Nat
    BY <2>3, <2>4, FS_CardinalityType
  <2> QED  BY <1>5, <2>2, <2>3, <2>4, <2>5 DEF FewRelays
<1> QED  BY <1>2, <1>3, <1>4, <1>6, <1>7

-----------------------------------------------------------------------------
(* A ring that has room for all of X forgets nothing of it.                *)

LEMMA FilledMore ==
  ASSUME NEW X, NEW Y, X \subseteq Y, NEW ring, NEW nothing, FilledFrom(ring, X, nothing)
  PROVE  FilledFrom(ring, Y, nothing)
BY DEF FilledFrom

LEMMA RingRemembers ==
  ASSUME NEW X, IsFiniteSet(X), Cardinality(X) <= permanentArraySize, NEW nothing,
         NEW ring, FilledFrom(ring, X, nothing), NEW x \in X, ~Holds(ring, x)
  PROVE  /\ FilledFrom(Remember(ring, x), X, nothing)
         /\ Holds(Remember(ring, x), x)
         /\ \A y : Holds(ring, y) /\ y # nothing => Holds(Remember(ring, x), y)
<1>1. permanentArraySize \in Nat \ {0}
  BY BoundsAssumption
<1>2. PICK k \in 0 .. permanentArraySize :
        /\ \A i \in 1 .. k : ring[i] \in X
        /\ \A i, j \in 1 .. k : ring[i] = ring[j] => i = j
        /\ \A i \in k + 1 .. permanentArraySize : ring[i] = nothing
  BY DEF FilledFrom
<1>3. k < permanentArraySize
  <2> SUFFICES ASSUME k = permanentArraySize PROVE FALSE
    BY <1>1, <1>2
  <2> DEFINE f == [i \in 0 .. k |-> IF i = 0 THEN x ELSE ring[i]]
  <2>1. f \in [0 .. k -> X]
    BY <1>1, <1>2
  <2>2. IsFiniteSet(0 .. k) /\ Cardinality(0 .. k) = k + 1
    BY <1>1, <1>2, FS_Interval
  <2>3. Cardinality(X) \in Nat
    BY FS_CardinalityType
  <2>4. Cardinality(X) < Cardinality(0 .. k)
    BY <1>1, <1>2, <2>2, <2>3
  <2>5. PICK i \in 0 .. k, j \in 0 .. k : i # j /\ f[i] = f[j]
    <3> HIDE DEF f
    <3> QED  BY <2>1, <2>2, <2>4, FS_PigeonHole
  <2>6. \A n \in 1 .. k : ring[n] # x
    BY <1>1, <1>2 DEF Holds
  <2> QED  BY <1>1, <1>2, <2>5, <2>6
<1> DEFINE new == Remember(ring, x)
<1>4. /\ new[1] = x
      /\ \A i \in 2 .. permanentArraySize : new[i] = ring[i - 1] /\ i - 1 \in 1 .. permanentArraySize
  BY <1>1 DEF Remember
<1>5. /\ k + 1 \in 0 .. permanentArraySize
      /\ \A i \in 1 .. k + 1 : new[i] \in X
      /\ \A i, j \in 1 .. k + 1 : new[i] = new[j] => i = j
      /\ \A i \in (k + 1) + 1 .. permanentArraySize : new[i] = nothing
  <2> HIDE DEF new
  <2>1. \A i \in 2 .. k + 1 : new[i] = ring[i - 1] /\ i - 1 \in 1 .. k /\ ring[i - 1] # x
    BY <1>1, <1>2, <1>3, <1>4 DEF Holds
  <2>2. \A i \in 1 .. k + 1 : new[i] \in X
    BY <1>2, <1>4, <2>1
  <2>3. ASSUME NEW i \in 1 .. k + 1, NEW j \in 1 .. k + 1, new[i] = new[j]
        PROVE  i = j
    <3>1. CASE i = 1 \/ j = 1
      BY <1>2, <1>4, <2>1, <2>3, <3>1
    <3>2. CASE i # 1 /\ j # 1
      <4>1. ring[i - 1] = ring[j - 1] /\ i - 1 \in 1 .. k /\ j - 1 \in 1 .. k
        BY <1>2, <2>1, <2>3, <3>2
      <4>2. i - 1 = j - 1
        BY <1>2, <4>1
      <4> QED  BY <1>2, <4>2
    <3> QED  BY <3>1, <3>2
  <2>4. \A i \in (k + 1) + 1 .. permanentArraySize : new[i] = nothing
    BY <1>1, <1>2, <1>4
  <2> QED  BY <1>1, <1>2, <1>3, <2>2, <2>3, <2>4
<1>6. FilledFrom(new, X, nothing)
  <2> HIDE DEF new
  <2> QED  BY <1>5 DEF FilledFrom
<1>7. Holds(new, x)
  BY <1>1, <1>4 DEF Holds
<1>8. ASSUME NEW y, Holds(ring, y), y # nothing
      PROVE  Holds(new, y)
  <2>1. PICK i \in 1 .. permanentArraySize : ring[i] = y
    BY <1>8 DEF Holds
  <2>2. i \in 1 .. k
    BY <1>1, <1>2, <1>8, <2>1
  <2>3. i + 1 \in 2 .. permanentArraySize /\ (i + 1) - 1 = i
    BY <1>1, <1>2, <1>3, <2>2
  <2>4. new[i + 1] = y
    BY <1>4, <2>1, <2>3
  <2> HIDE DEF new
  <2> QED  BY <1>1, <2>3, <2>4 DEF Holds
<1> QED  BY <1>6, <1>7, <1>8

-----------------------------------------------------------------------------
(* What a station has to show after a step.                                *)

OnceAt(s) ==
  /\ FewIDs => HandledHeld(s)
  /\ FewIDs /\ FewRelays(s) => RelayedHeld(s) /\ SendsNew(s)

LEMMA OnceAtAll == OnceInv <=> \A s \in Stations : OnceAt(s)
BY DEF OnceInv, OnceAt

(* Nothing of a station changes that its rings, its queue and its history  *)
(* are about.                                                              *)
Still(t) ==
  /\ recentlyHandledCommands'[t] = recentlyHandledCommands[t]
  /\ recentlyRelayedMessages'[t] = recentlyRelayedMessages[t]
  /\ relayMessage'[t] = relayMessage[t] /\ relayNeedsResend'[t] = relayNeedsResend[t]
  /\ outbox'[t] = outbox[t] /\ sent'[t] = sent[t] /\ executed'[t] = executed[t]
  /\ refused'[t] = refused[t]

LEMMA StillHandled ==
  ASSUME CountsGrow, Executes, NEW t \in Stations, HandledHeld(t),
         recentlyHandledCommands'[t] = recentlyHandledCommands[t],
         executed'[t] = executed[t], refused'[t] = refused[t]
  PROVE  HandledHeld(t)'
<1>1. IDsSent \subseteq IDsSent'
  BY MoreIsSent
<1>2. FilledFrom(recentlyHandledCommands[t], IDsSent', 0)
  BY <1>1, FilledMore DEF HandledHeld
<1> QED  BY <1>2 DEF HandledHeld

LEMMA StillRelayed ==
  ASSUME CountsGrow, Executes, NEW t \in Stations, RelayedHeld(t),
         recentlyRelayedMessages'[t] = recentlyRelayedMessages[t],
         \A m \in Messages :
           Item("relay", m) \in sent'[t] \cup Entries(outbox'[t]) =>
             Item("relay", m) \in sent[t] \cup Entries(outbox[t])
  PROVE  RelayedHeld(t)'
<1>1. RelayedBy(t) \subseteq RelayedBy(t)'
  BY MoreIsSent
<1>2. FilledFrom(recentlyRelayedMessages[t], RelayedBy(t)', Header(NoMessage))
  BY <1>1, FilledMore DEF RelayedHeld
<1>3. \A m \in Messages :
        Item("relay", m) \in sent'[t] \cup Entries(outbox'[t]) =>
          Holds(recentlyRelayedMessages'[t], Header(m))
  BY DEF RelayedHeld
<1> QED  BY <1>2, <1>3 DEF RelayedHeld, Messages, Item, Entries, NoMessage, Header

LEMMA StillOnce ==
  ASSUME CountsGrow, Executes, NEW t \in Stations, OnceAt(t), Still(t)
  PROVE  OnceAt(t)'
<1>1. FewIDs' => FewIDs
  BY MoreIsSent
<1>2. FewRelays(t)' => FewRelays(t)
  BY MoreIsSent
<1>3. HandledHeld(t) => HandledHeld(t)'
  BY StillHandled DEF Still
<1>4. RelayedHeld(t) => RelayedHeld(t)'
  BY StillRelayed DEF Still
<1>5. SendsNew(t) => SendsNew(t)'
  BY DEF SendsNew, Still, Item, Entries, Messages
<1> QED  BY <1>1, <1>2, <1>3, <1>4, <1>5 DEF OnceAt

(* The first of a station's queue is sent.                                 *)
LEMMA QueueFacts ==
  ASSUME TruthInv, NEW s \in Stations, outbox[s] # <<>>
  PROVE  /\ Head(outbox[s]) = outbox[s][1] /\ Head(outbox[s]) \in Entries(outbox[s])
         /\ Len(outbox[s]) \in Nat \ {0}
         /\ Len(Tail(outbox[s])) = Len(outbox[s]) - 1
         /\ \A i \in 1 .. Len(Tail(outbox[s])) :
              i + 1 \in 1 .. Len(outbox[s]) /\ Tail(outbox[s])[i] = outbox[s][i + 1]
         /\ Entries(Tail(outbox[s])) \subseteq Entries(outbox[s])
         /\ Head(outbox[s]) = Item(Head(outbox[s]).kind, Head(outbox[s]).msg)
         /\ Head(outbox[s]).msg \in Messages
<1>1. outbox[s] \in Seq(Items)
  BY NodesOf DEF TruthInv, TypeOK, Carries, Items
<1>2. PICK q : q = outbox[s]
  OBVIOUS
<1>3. q \in Seq(Items) /\ q # <<>>
  BY <1>1, <1>2
<1>4. /\ Len(q) \in Nat /\ DOMAIN q = 1 .. Len(q) /\ Len(q) # 0
  BY <1>3, LenProperties, EmptySeq
<1>5. /\ Tail(q) \in Seq(Items) /\ Len(Tail(q)) = Len(q) - 1
      /\ \A i \in 1 .. Len(Tail(q)) : Tail(q)[i] = q[i + 1]
      /\ Head(q) = q[1] /\ Head(q) \in Items
  BY <1>3, HeadTailProperties
<1>6. DOMAIN Tail(q) = 1 .. Len(Tail(q))
  BY <1>5, LenProperties
<1>7. \A i \in 1 .. Len(Tail(q)) : i + 1 \in 1 .. Len(q)
  BY <1>4, <1>5
<1>8. Entries(Tail(q)) \subseteq Entries(q)
  BY <1>4, <1>5, <1>6, <1>7 DEF Entries
<1>9. 1 \in DOMAIN q
  BY <1>4
<1>10. Head(q) \in Entries(q)
  BY <1>5, <1>9 DEF Entries
<1>11. Head(q) = Item(Head(q).kind, Head(q).msg) /\ Head(q).msg \in Messages
  BY <1>5 DEF Items, ToSend, Item
<1> QED  BY <1>2, <1>4, <1>5, <1>7, <1>8, <1>10, <1>11

(* A transmission takes the first of the queue into what was sent.         *)
Sends(s) ==
  /\ outbox[s] # <<>> /\ outbox'[s] = Tail(outbox[s])
  /\ sent'[s] = sent[s] \cup {Head(outbox[s])}
  /\ recentlyHandledCommands'[s] = recentlyHandledCommands[s]
  /\ recentlyRelayedMessages'[s] = recentlyRelayedMessages[s]
  /\ executed'[s] = executed[s] /\ refused'[s] = refused[s]

LEMMA SendsKeepsHeld ==
  ASSUME TruthInv, CountsGrow, Executes, NEW s \in Stations, Sends(s)
  PROVE  /\ HandledHeld(s) => HandledHeld(s)'
         /\ RelayedHeld(s) => RelayedHeld(s)'
         /\ sent'[s] \cup Entries(outbox'[s]) \subseteq sent[s] \cup Entries(outbox[s])
<1>1. HandledHeld(s) => HandledHeld(s)'
  BY StillHandled DEF Sends
<1>2. sent'[s] \cup Entries(outbox'[s]) \subseteq sent[s] \cup Entries(outbox[s])
  BY QueueFacts DEF Sends
<1>3. RelayedHeld(s) => RelayedHeld(s)'
  BY <1>2, StillRelayed DEF Sends
<1> QED  BY <1>1, <1>2, <1>3

(* What is left of the queue was not sent, and is nothing to send again.   *)
LEMMA SendsLeavesNew ==
  ASSUME TruthInv, NEW s \in Stations, Sends(s), SendsNew(s)
  PROVE  \A i \in 1 .. Len(outbox'[s]) :
           /\ outbox'[s][i] \notin sent'[s]
           /\ \A j \in 1 .. Len(outbox'[s]) : outbox'[s][i] = outbox'[s][j] => i = j
           /\ outbox'[s][i].kind \in {"answer", "relay"}
<1>1. PICK q, r : q = outbox[s] /\ r = outbox'[s]
  OBVIOUS
<1>2. /\ Head(q) = q[1] /\ Len(q) \in Nat \ {0} /\ Len(r) = Len(q) - 1
      /\ \A i \in 1 .. Len(r) : i + 1 \in 1 .. Len(q) /\ r[i] = q[i + 1]
  BY <1>1, QueueFacts DEF Sends
<1>3. \A i \in 1 .. Len(q) :
        /\ q[i] \notin sent[s]
        /\ \A j \in 1 .. Len(q) : q[i] = q[j] => i = j
        /\ q[i].kind \in {"answer", "relay", "resend"}
        /\ q[i].kind = "resend" => Len(q) = 1
  BY <1>1 DEF SendsNew
<1>4. sent'[s] = sent[s] \cup {q[1]}
  BY <1>1, <1>2 DEF Sends
<1>5. ASSUME NEW i \in 1 .. Len(r)
      PROVE  /\ r[i] \notin sent'[s] /\ r[i].kind \in {"answer", "relay"}
             /\ \A j \in 1 .. Len(r) : r[i] = r[j] => i = j
  <2>1. i + 1 \in 1 .. Len(q) /\ r[i] = q[i + 1] /\ i + 1 # 1 /\ 1 \in 1 .. Len(q) /\ Len(q) # 1
    BY <1>2
  <2>2. r[i] \notin sent'[s] /\ r[i].kind \in {"answer", "relay"}
    BY <1>3, <1>4, <2>1
  <2>3. ASSUME NEW j \in 1 .. Len(r), r[i] = r[j]
        PROVE  i = j
    <3>1. j + 1 \in 1 .. Len(q) /\ r[j] = q[j + 1]
      BY <1>2
    <3>2. i + 1 = j + 1
      BY <1>3, <2>1, <2>3, <3>1
    <3> QED  BY <1>2, <3>2
  <2> QED  BY <2>2, <2>3
<1> QED  BY <1>1, <1>5

LEMMA SendRelayOnce ==
  ASSUME TruthInv, CountsGrow, Executes, NEW s \in Stations, OnceAt(s), SendRelay(s)
  PROVE  OnceAt(s)'
<1>1. Sends(s)
  BY NodesOf DEF SendRelay, Transmit, Sends, ringVars, doneVars, TruthInv, TypeOK, Carries, StationsTyped
<1>2. PICK h, m : h = Head(outbox[s]) /\ m = h.msg
  OBVIOUS
<1>3. /\ h.kind = "relay" /\ h = Item("relay", m) /\ m \in Messages
      /\ relayMessage'[s] = m
  BY <1>2, QueueFacts DEF SendRelay, Transmit, TruthInv, TypeOK, Carries
<1>4. HandledHeld(s) => HandledHeld(s)'
  BY <1>1, SendsKeepsHeld
<1>5. RelayedHeld(s) => RelayedHeld(s)'
  BY <1>1, SendsKeepsHeld
<1>6. ASSUME SendsNew(s)
      PROVE  SendsNew(s)'
  <2>1. \A i \in 1 .. Len(outbox'[s]) :
          /\ outbox'[s][i] \notin sent'[s]
          /\ \A j \in 1 .. Len(outbox'[s]) : outbox'[s][i] = outbox'[s][j] => i = j
          /\ outbox'[s][i].kind \in {"answer", "relay"}
    BY <1>1, <1>6, SendsLeavesNew
  <2>2. sent'[s] = sent[s] \cup {h} /\ h \notin sent[s]
    BY <1>1, <1>2, <1>6, QueueFacts DEF Sends, SendsNew
  <2>3. ASSUME NEW n \in Messages
        PROVE  /\ Item("answer", n) \in sent'[s] \cup Entries(outbox'[s]) =>
                    n.type = "K" /\ n.stat = s /\ (executed'[s][n.uid] > 0 \/ n.uid \in refused'[s])
               /\ Item("resend", n) \in sent'[s] => Item("relay", n) \in sent'[s]
    <3>1. Item("answer", n) \in sent'[s] \cup Entries(outbox'[s]) =>
            n.type = "K" /\ n.stat = s /\ (executed'[s][n.uid] > 0 \/ n.uid \in refused'[s])
      BY <1>1, <1>6, SendsKeepsHeld DEF SendsNew, Sends
    <3>2. Item("resend", n) # h
      BY <1>3 DEF Item
    <3> QED  BY <1>6, <2>2, <3>1, <3>2 DEF SendsNew
  <2>4. Item("relay", m) \in sent'[s] /\ Item("resend", m) \notin sent'[s]
    <3>1. Item("resend", m) \notin sent[s]
      BY <1>3, <1>6, <2>2 DEF SendsNew
    <3>2. Item("resend", m) # h
      BY <1>3 DEF Item
    <3> QED  BY <1>3, <2>2, <3>1, <3>2
  <2> QED  BY <1>3, <2>1, <2>3, <2>4 DEF SendsNew, Messages, Item, Entries
<1> QED  BY <1>4, <1>5, <1>6, MoreIsSent DEF OnceAt

LEMMA SendOtherOnce ==
  ASSUME TruthInv, CountsGrow, Executes, NEW s \in Stations, OnceAt(s), SendOther(s)
  PROVE  OnceAt(s)'
<1>1. Sends(s)
  BY NodesOf DEF SendOther, Transmit, Sends, ringVars, doneVars, TruthInv, TypeOK, Carries, StationsTyped
<1>2. PICK h, m : h = Head(outbox[s]) /\ m = h.msg
  OBVIOUS
<1>3. /\ h.kind # "relay" /\ h = Item(h.kind, m) /\ m \in Messages
      /\ relayMessage'[s] = relayMessage[s]
      /\ relayNeedsResend'[s] => relayNeedsResend[s] /\ h.kind # "resend"
  BY <1>2, QueueFacts DEF SendOther, Transmit, TruthInv, TypeOK, StationsTyped
<1>4. HandledHeld(s) => HandledHeld(s)'
  BY <1>1, SendsKeepsHeld
<1>5. RelayedHeld(s) => RelayedHeld(s)'
  BY <1>1, SendsKeepsHeld
<1>6. ASSUME SendsNew(s)
      PROVE  SendsNew(s)'
  <2>1. \A i \in 1 .. Len(outbox'[s]) :
          /\ outbox'[s][i] \notin sent'[s]
          /\ \A j \in 1 .. Len(outbox'[s]) : outbox'[s][i] = outbox'[s][j] => i = j
          /\ outbox'[s][i].kind \in {"answer", "relay"}
    BY <1>1, <1>6, SendsLeavesNew
  <2>2. /\ sent'[s] = sent[s] \cup {h}
        /\ h.kind = "resend" => relayNeedsResend[s] /\ m = relayMessage[s]
    BY <1>1, <1>2, <1>6, QueueFacts DEF Sends, SendsNew
  <2>3. ASSUME NEW n \in Messages
        PROVE  /\ Item("answer", n) \in sent'[s] \cup Entries(outbox'[s]) =>
                    n.type = "K" /\ n.stat = s /\ (executed'[s][n.uid] > 0 \/ n.uid \in refused'[s])
               /\ Item("resend", n) \in sent'[s] => Item("relay", n) \in sent'[s]
    <3>1. Item("answer", n) \in sent'[s] \cup Entries(outbox'[s]) =>
            n.type = "K" /\ n.stat = s /\ (executed'[s][n.uid] > 0 \/ n.uid \in refused'[s])
      BY <1>1, <1>6, SendsKeepsHeld DEF SendsNew, Sends
    <3>2. Item("resend", n) = h => h.kind = "resend" /\ n = m
      BY <1>2 DEF Item
    <3>3. Item("resend", n) = h => Item("relay", n) \in sent[s]
      BY <1>6, <2>2, <3>2 DEF SendsNew
    <3> QED  BY <1>6, <2>2, <3>1, <3>3 DEF SendsNew
  <2>4. ASSUME relayNeedsResend'[s]
        PROVE  /\ Item("relay", relayMessage[s]) \in sent'[s]
               /\ Item("resend", relayMessage[s]) \notin sent'[s]
    <3>1. h.kind # "resend"
      BY <1>3, <2>4
    <3>2. Item("resend", relayMessage[s]).kind = "resend"
      BY DEF Item
    <3> QED  BY <1>3, <1>6, <2>2, <2>4, <3>1, <3>2 DEF SendsNew
  <2> QED  BY <1>3, <2>1, <2>3, <2>4 DEF SendsNew, Messages, Item, Entries
<1> QED  BY <1>4, <1>5, <1>6, MoreIsSent DEF OnceAt

LEMMA ResendRelayOnce ==
  ASSUME TruthInv, CountsGrow, Executes, NEW s \in Stations, OnceAt(s), ResendRelay(s)
  PROVE  OnceAt(s)'
<1>1. PICK h : h = Item("resend", relayMessage[s])
  OBVIOUS
<1>2. /\ outbox[s] = <<>> /\ outbox'[s] = <<h>> /\ relayNeedsResend[s]
      /\ UNCHANGED <<ringVars, relayVars, executed, refused, sent>>
  BY <1>1, NodesOf DEF ResendRelay, doneVars, TruthInv, TypeOK, Carries
<1>3. Len(outbox'[s]) = 1 /\ outbox'[s][1] = h /\ Entries(outbox'[s]) = {h}
  BY <1>2 DEF Entries
<1>4. h.kind = "resend" /\ h.msg = relayMessage[s]
  BY <1>1 DEF Item
<1>5. HandledHeld(s) => HandledHeld(s)'
  BY <1>2, StillHandled DEF ringVars
<1>6. RelayedHeld(s) => RelayedHeld(s)'
  <2>1. \A m \in Messages : Item("relay", m) # h /\ Item("answer", m) # h
    BY <1>4 DEF Item
  <2>2. sent'[s] \cup Entries(outbox'[s]) = sent[s] \cup {h}
    BY <1>2, <1>3
  <2> QED  BY <1>2, <2>1, <2>2, StillRelayed DEF ringVars
<1>7. ASSUME SendsNew(s)
      PROVE  SendsNew(s)'
  <2>1. h \notin sent[s] /\ Item("relay", relayMessage[s]) \in sent[s]
    BY <1>1, <1>2, <1>7 DEF SendsNew
  <2>2. \A i \in 1 .. Len(outbox'[s]) :
          /\ outbox'[s][i] \notin sent'[s]
          /\ \A j \in 1 .. Len(outbox'[s]) : outbox'[s][i] = outbox'[s][j] => i = j
          /\ outbox'[s][i].kind \in {"answer", "relay", "resend"}
          /\ outbox'[s][i].kind = "resend" =>
               Len(outbox'[s]) = 1 /\ relayNeedsResend'[s] /\ outbox'[s][i].msg = relayMessage'[s]
    BY <1>2, <1>3, <1>4, <2>1 DEF relayVars
  <2>3. ASSUME NEW n \in Messages
        PROVE  /\ Item("answer", n) \in sent'[s] \cup Entries(outbox'[s]) =>
                    n.type = "K" /\ n.stat = s /\ (executed'[s][n.uid] > 0 \/ n.uid \in refused'[s])
               /\ Item("resend", n) \in sent'[s] => Item("relay", n) \in sent'[s]
    <3>1. Item("answer", n) # h
      BY <1>4 DEF Item
    <3> QED  BY <1>2, <1>3, <1>7, <3>1 DEF SendsNew
  <2>4. relayNeedsResend'[s] => /\ Item("relay", relayMessage'[s]) \in sent'[s]
                                /\ Item("resend", relayMessage'[s]) \notin sent'[s]
    BY <1>1, <1>2, <2>1 DEF relayVars
  <2> QED  BY <2>2, <2>3, <2>4 DEF SendsNew, Messages, Item, Entries
<1> QED  BY <1>5, <1>6, <1>7, MoreIsSent DEF OnceAt

(* A queue of x or of nothing.                                             *)
AtMost(q, x) == q \in Seq({x}) /\ Len(q) <= 1
Some(q) == Len(q) = 1
Both(q, r) == q \o r

LEMMA WhenSome ==
  ASSUME NEW p \in BOOLEAN, NEW x
  PROVE  AtMost(When(p, x), x) /\ (Some(When(p, x)) => p)
<1>1. <<x>> \in Seq({x}) /\ Len(<<x>>) = 1 /\ <<>> \in Seq({x}) /\ Len(<<>>) = 0
  OBVIOUS
<1>2. CASE p
  BY <1>1, <1>2 DEF When, AtMost, Some
<1>3. CASE ~p
  BY <1>1, <1>3 DEF When, AtMost, Some
<1> QED  BY <1>2, <1>3

LEMMA ReadQueues ==
  ASSUME TruthInv, NEW s \in Stations, ReadMessage(s), NEW m, NEW result, ReadWith(s, m, result),
         NEW a, a = Item("answer", Acknowledgement(s, m, result)), NEW b, b = Item("relay", m)
  PROVE  \E first, second :
           /\ outbox'[s] = Both(first, second)
           /\ AtMost(first, a) /\ (Some(first) => Answers(s, m, result))
           /\ AtMost(second, b) /\ (Some(second) => Passes(s, m))
<1>1. PICK first, second :
        first = When(Answers(s, m, result), a) /\ second = When(Passes(s, m), b)
  OBVIOUS
<1>2. outbox'[s] = Both(first, second)
  <2>1. s \in Nodes /\ Carries(Messages)
    BY NodesOf DEF TruthInv, TypeOK
  <2> QED  BY <1>1, <2>1 DEF ReadWith, Carries, AsRelayed, Both
<1>3. AtMost(first, a) /\ (Some(first) => Answers(s, m, result))
  <2>1. Answers(s, m, result) \in BOOLEAN
    BY DEF Answers
  <2> QED  BY <1>1, <2>1, WhenSome
<1>4. AtMost(second, b) /\ (Some(second) => Passes(s, m))
  <2>1. Passes(s, m) \in BOOLEAN
    BY DEF Passes
  <2> QED  BY <1>1, <2>1, WhenSome
<1> QED  BY <1>2, <1>3, <1>4

LEMMA ReadExecutes ==
  ASSUME TruthInv, NEW s \in Stations, NEW m \in Messages,
         NEW result, ReadWith(s, m, result), NEW u \in 1 .. MaxCommands
  PROVE  /\ executed'[s][u] = IF Executed(s, m, result) /\ u = m.uid
                              THEN executed[s][u] + 1 ELSE executed[s][u]
         /\ u \in refused'[s] <=> u \in refused[s] \/ (Refused(s, m, result) /\ u = m.uid)
<1>1. StationsTyped
  BY DEF TruthInv, TypeOK
<1>2. CASE Executed(s, m, result)
  <2>1. m.uid \in 1 .. MaxCommands
    BY <1>2, MessageFacts DEF Executed, Handles, Command
  <2>2. executed' = [executed EXCEPT ![s][m.uid] = @ + 1] /\ refused' = refused
    BY <1>2 DEF ReadWith, Executed, Refused
  <2>3. ~Refused(s, m, result)
    BY <1>2 DEF Executed, Refused
  <2> QED  BY <1>1, <1>2, <2>1, <2>2, <2>3 DEF StationsTyped
<1>3. CASE ~Executed(s, m, result)
  <2>1. /\ executed' = executed
        /\ Refused(s, m, result) => refused' = [refused EXCEPT ![s] = @ \cup {m.uid}]
        /\ ~Refused(s, m, result) => refused' = refused
    BY <1>3 DEF ReadWith
  <2> QED  BY <1>1, <1>3, <2>1 DEF StationsTyped
<1> QED  BY <1>2, <1>3

LEMMA ReadFacts ==
  ASSUME TruthInv, NEW s \in Stations, ReadMessage(s), NEW m, m = Head(inbox[s]).msg
  PROVE  /\ m \in TrueMessages /\ m \in Messages /\ outbox[s] = <<>>
         /\ recentlyRelayedMessages'[s] = IF Passes(s, m)
                                          THEN Remember(recentlyRelayedMessages[s], Header(m))
                                          ELSE recentlyRelayedMessages[s]
         /\ \/ recentlyHandledCommands'[s] = recentlyHandledCommands[s] /\ ~Handles(s, m)
            \/ /\ recentlyHandledCommands'[s] = Remember(recentlyHandledCommands[s], m.uid)
               /\ NewUID(s, m) /\ m.type \in {"C", "P"}
         /\ relayMessage' = relayMessage /\ (relayNeedsResend'[s] => relayNeedsResend[s])
         /\ UNCHANGED <<sent, commands, pings>>
<1>1. m \in TrueMessages
  BY HeadTrue DEF ReadMessage
<1>2. m \in Messages
  BY <1>1 DEF TrueMessages
<1>3. s \in Nodes /\ TypeOK /\ Carries(Messages) /\ StationsTyped
  BY NodesOf DEF TruthInv, TypeOK
<1>4. outbox[s] = <<>>
  BY DEF ReadMessage
<1>5. recentlyRelayedMessages'[s] = IF Passes(s, m)
                                    THEN Remember(recentlyRelayedMessages[s], Header(m))
                                    ELSE recentlyRelayedMessages[s]
  BY <1>3 DEF ReadMessage, StationsTyped, Passes
<1>6. \/ recentlyHandledCommands'[s] = recentlyHandledCommands[s] /\ ~Handles(s, m)
      \/ /\ recentlyHandledCommands'[s] = Remember(recentlyHandledCommands[s], m.uid)
         /\ NewUID(s, m) /\ m.type \in {"C", "P"}
  BY <1>3 DEF ReadMessage, StationsTyped, Handles, Command
<1>7. /\ relayMessage' = relayMessage /\ (relayNeedsResend'[s] => relayNeedsResend[s])
      /\ UNCHANGED <<sent, commands, pings>>
  BY <1>3 DEF ReadMessage, StationsTyped, baseVars
<1> QED  BY <1>1, <1>2, <1>4, <1>5, <1>6, <1>7

(* An answer, a relay, both or neither.                                    *)
Distinct(q) == \A i, j \in 1 .. Len(q) : q[i] = q[j] => i = j
Within(q) == \A i \in 1 .. Len(q) : q[i] \in Entries(q)

LEMMA TwoAtMost ==
  ASSUME NEW a, NEW b, a # b, NEW first, NEW second, AtMost(first, a), AtMost(second, b),
         NEW out, out = Both(first, second)
  PROVE  /\ \A x \in Entries(out) : (Some(first) /\ x = a) \/ (Some(second) /\ x = b)
         /\ Distinct(out) /\ Within(out)
<1> DEFINE S == {a, b}
<1>1. first \in Seq(S) /\ second \in Seq(S)
  BY SeqMonotonic DEF AtMost
<1>2. out = first \o second
  BY DEF Both
<1>3. out \in Seq(S) /\ DOMAIN out = 1 .. Len(out) /\ Len(out) \in Nat
  BY <1>1, <1>2, ConcatProperties, LenProperties
<1>4. /\ Len(out) = Len(first) + Len(second)
      /\ \A i \in 1 .. Len(out) :
           out[i] = IF i <= Len(first) THEN first[i] ELSE second[i - Len(first)]
  BY <1>1, <1>2, ConcatProperties
<1>5. /\ Len(first) = 0 \/ Len(first) = 1
      /\ Len(second) = 0 \/ Len(second) = 1
      /\ Len(first) = 1 => first[1] = a
      /\ Len(second) = 1 => second[1] = b
  <2>1. /\ first \in Seq({a}) /\ second \in Seq({b})
        /\ Len(first) \in Nat /\ Len(second) \in Nat /\ Len(first) <= 1 /\ Len(second) <= 1
    BY LenProperties DEF AtMost
  <2>2. Len(first) = 1 => first[1] \in {a}
    <3> HIDE DEF S
    <3> QED  BY <2>1, ElementOfSeq
  <2>3. Len(second) = 1 => second[1] \in {b}
    BY <2>1, ElementOfSeq
  <2>4. \A x, y : x \in {y} => x = y
    OBVIOUS
  <2>5. Len(first) \in Nat /\ Len(second) \in Nat /\ Len(first) <= 1 /\ Len(second) <= 1
    BY <2>1
  <2>6. \A n \in Nat : n <= 1 => n = 0 \/ n = 1
    OBVIOUS
  <2> QED  BY <2>2, <2>3, <2>4, <2>5, <2>6
<1>6. ASSUME NEW i \in 1 .. Len(out)
      PROVE  \/ Len(first) = 1 /\ i = 1 /\ out[i] = a
             \/ Len(second) = 1 /\ i = Len(out) /\ out[i] = b
  BY <1>4, <1>5
<1>7. ASSUME NEW i \in 1 .. Len(out), NEW j \in 1 .. Len(out), out[i] = out[j]
      PROVE  i = j
  <2>1. \/ Len(first) = 1 /\ i = 1 /\ out[i] = a
        \/ Len(second) = 1 /\ i = Len(out) /\ out[i] = b
    BY <1>6
  <2>2. \/ Len(first) = 1 /\ j = 1 /\ out[j] = a
        \/ Len(second) = 1 /\ j = Len(out) /\ out[j] = b
    BY <1>6
  <2> QED  BY <1>7, <2>1, <2>2
<1>8. \A x \in Entries(out) : (Len(first) = 1 /\ x = a) \/ (Len(second) = 1 /\ x = b)
  BY <1>3, <1>6 DEF Entries
<1>9. Distinct(out)
  BY <1>7 DEF Distinct
<1>10. Within(out)
  BY <1>3 DEF Within, Entries
<1> QED  BY <1>8, <1>9, <1>10 DEF Some

LEMMA ReadOnce ==
  ASSUME TruthInv, CountsGrow, Executes, NEW s \in Stations, OnceAt(s), ReadMessage(s)
  PROVE  OnceAt(s)'
<1>0. PICK result \in Results : ReadWith(s, Head(inbox[s]).msg, result)
  BY ReadsWith
<1>1. PICK m, ack : m = Head(inbox[s]).msg /\ ack = Acknowledgement(s, m, result)
  OBVIOUS
<1>2. PICK a, b : a = Item("answer", ack) /\ b = Item("relay", m)
  OBVIOUS
<1>4. /\ m \in TrueMessages /\ m \in Messages /\ outbox[s] = <<>>
      /\ recentlyRelayedMessages'[s] = IF Passes(s, m)
                                       THEN Remember(recentlyRelayedMessages[s], Header(m))
                                       ELSE recentlyRelayedMessages[s]
      /\ \/ recentlyHandledCommands'[s] = recentlyHandledCommands[s] /\ ~Handles(s, m)
         \/ /\ recentlyHandledCommands'[s] = Remember(recentlyHandledCommands[s], m.uid)
            /\ NewUID(s, m) /\ m.type \in {"C", "P"}
      /\ relayMessage' = relayMessage /\ (relayNeedsResend'[s] => relayNeedsResend[s])
      /\ UNCHANGED <<sent, commands, pings>>
      /\ \A u \in 1 .. MaxCommands :
           /\ executed'[s][u] = IF Executed(s, m, result) /\ u = m.uid
                                THEN executed[s][u] + 1 ELSE executed[s][u]
           /\ u \in refused'[s] <=> u \in refused[s] \/ (Refused(s, m, result) /\ u = m.uid)
  <2>1. m \in TrueMessages /\ m \in Messages /\ outbox[s] = <<>>
    BY <1>1, ReadFacts
  <2>2. recentlyRelayedMessages'[s] = IF Passes(s, m)
                                      THEN Remember(recentlyRelayedMessages[s], Header(m))
                                      ELSE recentlyRelayedMessages[s]
    BY <1>1, ReadFacts
  <2>3. \/ recentlyHandledCommands'[s] = recentlyHandledCommands[s] /\ ~Handles(s, m)
        \/ /\ recentlyHandledCommands'[s] = Remember(recentlyHandledCommands[s], m.uid)
           /\ NewUID(s, m) /\ m.type \in {"C", "P"}
    BY <1>1, ReadFacts
  <2>4. /\ relayMessage' = relayMessage /\ (relayNeedsResend'[s] => relayNeedsResend[s])
        /\ UNCHANGED <<sent, commands, pings>>
    BY <1>1, ReadFacts
  <2>5. \A u \in 1 .. MaxCommands :
          /\ executed'[s][u] = IF Executed(s, m, result) /\ u = m.uid
                               THEN executed[s][u] + 1 ELSE executed[s][u]
          /\ u \in refused'[s] <=> u \in refused[s] \/ (Refused(s, m, result) /\ u = m.uid)
    BY <1>0, <1>1, <2>1, ReadExecutes
  <2> QED  BY <2>1, <2>2, <2>3, <2>4, <2>5
<1>5. /\ a # b /\ a.kind = "answer" /\ a.msg = ack /\ b.kind = "relay" /\ b.msg = m
      /\ ack.type = "K" /\ ack.stat = s /\ ack.uid = m.uid
  BY <1>1, <1>2 DEF Item, Acknowledgement
<1>6. /\ \A i \in 1 .. Len(outbox'[s]) :
           (Answers(s, m, result) /\ outbox'[s][i] = a) \/ (Passes(s, m) /\ outbox'[s][i] = b)
      /\ \A x \in Entries(outbox'[s]) : (Answers(s, m, result) /\ x = a) \/ (Passes(s, m) /\ x = b)
      /\ \A i, j \in 1 .. Len(outbox'[s]) : outbox'[s][i] = outbox'[s][j] => i = j
  <2>1. PICK first, second :
          /\ outbox'[s] = Both(first, second)
          /\ AtMost(first, a) /\ (Some(first) => Answers(s, m, result))
          /\ AtMost(second, b) /\ (Some(second) => Passes(s, m))
    BY <1>0, <1>1, <1>2, ReadQueues
  <2>2. /\ \A x \in Entries(outbox'[s]) : (Some(first) /\ x = a) \/ (Some(second) /\ x = b)
        /\ Distinct(outbox'[s]) /\ Within(outbox'[s])
    BY <1>5, <2>1, TwoAtMost
  <2>3. \A x \in Entries(outbox'[s]) : (Answers(s, m, result) /\ x = a) \/ (Passes(s, m) /\ x = b)
    BY <2>1, <2>2
  <2> QED  BY <2>2, <2>3 DEF Distinct, Within
<1>7. Entries(outbox[s]) = {}
  BY <1>4 DEF Entries
<1>8. FewIDs' => FewIDs
  BY MoreIsSent
<1>9. FewRelays(s)' => FewRelays(s)
  BY MoreIsSent
<1>10. /\ Handles(s, m) => /\ m.uid \in 1 .. MaxCommands /\ m.uid \in Nat
                           /\ ~Holds(recentlyHandledCommands[s], m.uid)
       /\ Executed(s, m, result) => Handles(s, m) /\ ~Refused(s, m, result)
       /\ Refused(s, m, result) => Handles(s, m) /\ ~Executed(s, m, result)
       /\ Answers(s, m, result) =>
            Handles(s, m) /\ (Executed(s, m, result) \/ Refused(s, m, result))
  BY <1>4, MessageFacts
     DEF Handles, Command, NewUID, Executed, Refused, Answers
<1>11. ASSUME FewIDs, HandledHeld(s)
       PROVE  /\ HandledHeld(s)'
              /\ Handles(s, m) => executed[s][m.uid] = 0 /\ m.uid \notin refused[s]
              /\ Executed(s, m, result) => executed'[s][m.uid] = 1
              /\ Refused(s, m, result) => m.uid \in refused'[s]
  <2>1. executed[s] \in [1 .. MaxCommands -> Nat]
    BY DEF TruthInv, TypeOK, StationsTyped
  <2>2. ASSUME Handles(s, m)
        PROVE  /\ executed[s][m.uid] = 0 /\ m.uid \notin refused[s]
               /\ Executed(s, m, result) => executed'[s][m.uid] = 1
               /\ Refused(s, m, result) => m.uid \in refused'[s] /\ executed'[s][m.uid] = 0
    <3>1. m.uid \in 1 .. MaxCommands /\ ~Holds(recentlyHandledCommands[s], m.uid)
      BY <1>10, <2>2
    <3>2. /\ ~(executed[s][m.uid] > 0) /\ executed[s][m.uid] \in Nat
          /\ m.uid \notin refused[s]
      BY <1>11, <2>1, <3>1 DEF HandledHeld
    <3>3. /\ Executed(s, m, result) => executed'[s][m.uid] = executed[s][m.uid] + 1
          /\ Refused(s, m, result) =>
               m.uid \in refused'[s] /\ executed'[s][m.uid] = executed[s][m.uid]
      BY <1>4, <1>10, <3>1
    <3> QED  BY <3>2, <3>3
  <2>3. IDsSent' = IDsSent /\ IsFiniteSet(IDsSent)
    BY <1>4, MoreIsSent DEF IDsSent
  <2>4. CASE recentlyHandledCommands'[s] = recentlyHandledCommands[s] /\ ~Handles(s, m)
    <3>1. ~Executed(s, m, result) /\ ~Refused(s, m, result)
      BY <1>10, <2>4
    <3>2. \A u \in 1 .. MaxCommands :
            executed'[s][u] = executed[s][u] /\ (u \in refused'[s] <=> u \in refused[s])
      BY <1>4, <3>1
    <3> QED  BY <1>11, <2>3, <2>4, <3>1, <3>2 DEF HandledHeld
  <2>5. CASE /\ recentlyHandledCommands'[s] = Remember(recentlyHandledCommands[s], m.uid)
             /\ NewUID(s, m) /\ m.type \in {"C", "P"}
    <3>1. m.uid \in IDsSent
      BY <1>4, <2>5 DEF TrueMessages, WasSent, IDsSent
    <3>2. /\ FilledFrom(recentlyHandledCommands'[s], IDsSent, 0)
          /\ Holds(recentlyHandledCommands'[s], m.uid)
          /\ \A y : Holds(recentlyHandledCommands[s], y) /\ y # 0 =>
                      Holds(recentlyHandledCommands'[s], y)
      BY <1>11, <2>3, <2>5, <3>1, RingRemembers DEF FewIDs, HandledHeld, NewUID
    <3>3. ASSUME NEW u \in 1 .. MaxCommands
          PROVE  /\ executed'[s][u] > 0 => executed'[s][u] = 1 /\ u \notin refused'[s]
                 /\ executed'[s][u] > 0 \/ u \in refused'[s] =>
                      Holds(recentlyHandledCommands'[s], u)
      <4>1. CASE Handles(s, m) /\ u = m.uid
        <5>1. /\ executed'[s][u] = IF Executed(s, m, result) THEN executed[s][u] + 1
                                   ELSE executed[s][u]
              /\ u \in refused'[s] <=> Refused(s, m, result)
          BY <1>4, <2>2, <4>1
        <5> QED  BY <1>10, <2>2, <3>2, <4>1, <5>1
      <4>2. CASE ~(Handles(s, m) /\ u = m.uid)
        <5>1. executed'[s][u] = executed[s][u] /\ (u \in refused'[s] <=> u \in refused[s]) /\ u # 0
          BY <1>4, <1>10, <4>2
        <5> QED  BY <1>11, <3>2, <5>1 DEF HandledHeld
      <4> QED  BY <4>1, <4>2
    <3> QED  BY <1>10, <2>2, <2>3, <3>2, <3>3 DEF HandledHeld
  <2> QED  BY <1>4, <2>4, <2>5
<1>12. ASSUME FewRelays(s), RelayedHeld(s)
       PROVE  RelayedHeld(s)' /\ (Passes(s, m) => b \notin sent[s])
  <2>1. Passes(s, m) =>
          ~Holds(recentlyRelayedMessages[s], Header(m)) /\ Header(m) \in RelayedBy(s)
    BY <1>4 DEF Passes, Relay, haveRelayed, RelayedBy
  <2>2. Passes(s, m) => b \notin sent[s]
    BY <1>2, <1>4, <1>12, <2>1 DEF RelayedHeld
  <2>3. RelayedBy(s) \subseteq RelayedBy(s)' /\ IsFiniteSet(RelayedBy(s))
    BY MoreIsSent, FS_Subset
  <2>4. CASE ~Passes(s, m)
    <3>1. recentlyRelayedMessages'[s] = recentlyRelayedMessages[s]
      BY <1>4, <2>4
    <3>2. \A n \in Messages : Item("relay", n) \in sent'[s] \cup Entries(outbox'[s]) =>
                                Item("relay", n) \in sent[s] \cup Entries(outbox[s])
      BY <1>4, <1>5, <1>6, <2>4 DEF Item
    <3> QED  BY <1>12, <2>4, <3>1, <3>2, StillRelayed
  <2>5. CASE Passes(s, m)
    <3>1. recentlyRelayedMessages'[s] = Remember(recentlyRelayedMessages[s], Header(m))
      BY <1>4, <2>5
    <3>2. /\ FilledFrom(recentlyRelayedMessages'[s], RelayedBy(s), Header(NoMessage))
          /\ Holds(recentlyRelayedMessages'[s], Header(m))
          /\ \A y : Holds(recentlyRelayedMessages[s], y) /\ y # Header(NoMessage) =>
                      Holds(recentlyRelayedMessages'[s], y)
      BY <1>12, <2>1, <2>3, <2>5, <3>1, RingRemembers DEF FewRelays, RelayedHeld
    <3>3. FilledFrom(recentlyRelayedMessages'[s], RelayedBy(s)', Header(NoMessage))
      BY <2>3, <3>2, FilledMore
    <3>4. ASSUME NEW n \in Messages, Item("relay", n) \in sent'[s] \cup Entries(outbox'[s])
          PROVE  Holds(recentlyRelayedMessages'[s], Header(n))
      <4>1. CASE Item("relay", n) \in sent[s]
        BY <1>12, <3>2, <4>1, MessageFacts DEF RelayedHeld
      <4>2. CASE Item("relay", n) \in Entries(outbox'[s])
        <5>1. Item("relay", n) = b
          BY <1>5, <1>6, <4>2 DEF Item
        <5>2. n = m
          BY <1>5, <5>1 DEF Item
        <5> QED  BY <3>2, <5>2
      <4> QED  BY <1>4, <3>4, <4>1, <4>2
    <3> QED  BY <2>2, <3>3, <3>4 DEF RelayedHeld, Messages, Item, Entries, NoMessage, Header
  <2> QED  BY <2>4, <2>5
<1>13. ASSUME FewIDs, FewRelays(s), HandledHeld(s), RelayedHeld(s), SendsNew(s)
       PROVE  SendsNew(s)'
  <2>0. ack \in Messages \/ ~Answers(s, m, result)
    BY <1>1, <1>10 DEF Answers, Results, Acknowledgement, Messages
  <2>1. Answers(s, m, result) => a \notin sent[s]
    <3> SUFFICES ASSUME Answers(s, m, result), a \in sent[s] PROVE FALSE
      OBVIOUS
    <3>1. executed[s][m.uid] > 0 \/ m.uid \in refused[s]
      BY <1>2, <1>5, <1>13, <2>0 DEF SendsNew
    <3>2. executed[s][m.uid] = 0 /\ m.uid \notin refused[s]
      BY <1>10, <1>11, <1>13
    <3> QED  BY <3>1, <3>2
  <2>2. Passes(s, m) => b \notin sent[s]
    BY <1>12, <1>13
  <2>3. \A i \in 1 .. Len(outbox'[s]) :
          /\ outbox'[s][i] \notin sent'[s]
          /\ \A j \in 1 .. Len(outbox'[s]) : outbox'[s][i] = outbox'[s][j] => i = j
          /\ outbox'[s][i].kind \in {"answer", "relay"}
    BY <1>4, <1>5, <1>6, <2>1, <2>2
  <2>4. ASSUME NEW n \in Messages
        PROVE  /\ Item("answer", n) \in sent'[s] \cup Entries(outbox'[s]) =>
                    n.type = "K" /\ n.stat = s /\ (executed'[s][n.uid] > 0 \/ n.uid \in refused'[s])
               /\ Item("resend", n) \in sent'[s] => Item("relay", n) \in sent'[s]
    <3>1. CASE Item("answer", n) \in sent[s]
      <4>1. /\ n.type = "K" /\ n.stat = s /\ n.uid \in 1 .. MaxCommands
            /\ executed[s][n.uid] > 0 \/ n.uid \in refused[s]
        BY <1>13, <3>1, MessageFacts DEF SendsNew
      <4>2. executed'[s][n.uid] > 0 \/ n.uid \in refused'[s]
        BY <4>1 DEF Executes
      <4> QED  BY <1>4, <1>13, <4>1, <4>2 DEF SendsNew
    <3>2. CASE Item("answer", n) \in Entries(outbox'[s])
      <4>1. Item("answer", n) = a /\ Answers(s, m, result)
        BY <1>5, <1>6, <3>2 DEF Item
      <4>2. n = ack
        BY <1>5, <4>1 DEF Item
      <4>3. executed'[s][n.uid] > 0 \/ n.uid \in refused'[s]
        BY <1>5, <1>10, <1>11, <1>13, <4>1, <4>2
      <4> QED  BY <1>4, <1>5, <1>13, <4>2, <4>3 DEF SendsNew
    <3>3. CASE Item("answer", n) \notin sent[s] \cup Entries(outbox'[s])
      BY <1>4, <1>13, <3>3 DEF SendsNew
    <3> QED  BY <3>1, <3>2, <3>3
  <2>5. relayNeedsResend'[s] => /\ Item("relay", relayMessage'[s]) \in sent'[s]
                                /\ Item("resend", relayMessage'[s]) \notin sent'[s]
    BY <1>4, <1>13 DEF SendsNew
  <2> QED  BY <2>3, <2>4, <2>5 DEF SendsNew, Messages, Item, Entries
<1> QED  BY <1>8, <1>9, <1>11, <1>12, <1>13 DEF OnceAt

(* The stations that do not take the step, and what the base does.         *)
LEMMA StationStepOnce ==
  ASSUME TruthInv, OnceInv, CountsGrow, Executes, NEW s \in Stations, Station(s)
  PROVE  OnceInv'
<1>1. ASSUME NEW t \in Stations
      PROVE  OnceAt(t)'
  <2>1. OnceAt(t)
    BY OnceAtAll
  <2>2. CASE t = s
    BY <2>1, <2>2, ReadOnce, ResendRelayOnce, SendRelayOnce, SendOtherOnce DEF Station
  <2>3. CASE t # s
    <3>1. s \in Nodes /\ t \in Nodes /\ StationsTyped /\ Carries(Messages)
      BY NodesOf DEF TruthInv, TypeOK
    <3>2. CASE ReadMessage(s)
      <4>1. executed'[t] = executed[t] /\ refused'[t] = refused[t]
        BY <2>3, <3>1, <3>2 DEF ReadMessage, StationsTyped
      <4> QED  BY <2>1, <2>3, <3>1, <3>2, <4>1, StillOnce DEF ReadMessage, Still, StationsTyped, Carries
    <3>3. CASE ResendRelay(s)
      BY <2>1, <2>3, <3>1, <3>3, StillOnce
         DEF ResendRelay, Still, ringVars, relayVars, doneVars, Carries
    <3>4. CASE SendRelay(s)
      BY <2>1, <2>3, <3>1, <3>4, StillOnce
         DEF SendRelay, Transmit, Still, ringVars, doneVars, StationsTyped, Carries
    <3>5. CASE SendOther(s)
      BY <2>1, <2>3, <3>1, <3>5, StillOnce
         DEF SendOther, Transmit, Still, ringVars, doneVars, StationsTyped, Carries
    <3> QED  BY <3>2, <3>3, <3>4, <3>5 DEF Station
  <2> QED  BY <2>2, <2>3
<1> QED  BY <1>1, OnceAtAll DEF OnceInv, OnceAt

LEMMA OthersOnce ==
  ASSUME TruthInv, OnceInv, CountsGrow, Executes, \A t \in Stations : Still(t)
  PROVE  OnceInv'
<1>1. \A t \in Stations : OnceAt(t)'
  BY OnceAtAll, StillOnce
<1> QED  BY <1>1 DEF OnceInv, OnceAt

(* Every step adds to the history.                                         *)
LEMMA HistoryGrows ==
  ASSUME TruthInv, [Next]_vars
  PROVE  CountsGrow /\ Executes
<1>1. commands \in Nat /\ pings \in Nat /\ TypeOK /\ StationsTyped
  BY DEF TruthInv, TypeOK, QueuesBounded
<1>2. ASSUME NEW s \in Stations, ReadMessage(s)
      PROVE  CountsGrow /\ Executes
  BY <1>1, <1>2, ReadsWith, TruthGrows
<1>3. ASSUME NEW s \in Stations, ResendRelay(s) \/ SendRelay(s) \/ SendOther(s)
      PROVE  CountsGrow /\ Executes
  <2>1. UNCHANGED <<doneVars, commands, pings>>
    BY <1>3 DEF ResendRelay, SendRelay, SendOther, Transmit, baseVars
  <2> QED  BY <2>1, NothingExecuted
<1>4. CASE BaseTransmits \/ AcknowledgeResponse \/ Tick \/ UNCHANGED vars
  <2>1. UNCHANGED <<doneVars, commands, pings>>
    BY <1>4 DEF BaseTransmits, AcknowledgeResponse, BaseIdle, Tick, Transmit, vars, baseVars
  <2> QED  BY <2>1, NothingExecuted
<1>5. CASE SendCommand \/ SendPing
  BY <1>1, <1>5 DEF SendCommand, SendPing, BaseIdle, doneVars, CountsGrow, Executes
<1> QED  BY <1>2, <1>3, <1>4, <1>5 DEF Next, Station

LEMMA InitOnce == Init => OnceInv
<1> SUFFICES ASSUME Init, NEW s \in Stations PROVE HandledHeld(s) /\ RelayedHeld(s) /\ SendsNew(s)
  BY DEF OnceInv
<1>1. /\ recentlyHandledCommands[s] = Zeros(0) /\ recentlyRelayedMessages[s] = Zeros(Header(NoMessage))
      /\ relayNeedsResend[s] = FALSE /\ sent[s] = {} /\ outbox[s] = <<>>
      /\ refused[s] = {} /\ \A u \in 1 .. MaxCommands : executed[s][u] = 0
  BY NodesOf DEF Init
<1>2. \A X, x : FilledFrom(Zeros(x), X, x)
  <2> SUFFICES ASSUME NEW X, NEW x PROVE FilledFrom(Zeros(x), X, x)
    OBVIOUS
  <2>1. 0 \in 0 .. permanentArraySize
    BY BoundsAssumption
  <2>2. \A i \in 0 + 1 .. permanentArraySize : Zeros(x)[i] = x
    BY DEF Zeros
  <2> QED  BY <2>1, <2>2 DEF FilledFrom
<1>3. Entries(outbox[s]) = {} /\ Len(outbox[s]) = 0
  BY <1>1 DEF Entries
<1>4. HandledHeld(s)
  BY <1>1, <1>2 DEF HandledHeld
<1>5. RelayedHeld(s)
  BY <1>1, <1>2, <1>3 DEF RelayedHeld
<1>6. SendsNew(s)
  BY <1>1, <1>3 DEF SendsNew
<1> QED  BY <1>4, <1>5, <1>6

LEMMA NextOnce ==
  ASSUME IInv, [Next]_vars
  PROVE  OnceInv'
<1>1. TruthInv /\ OnceInv /\ CountsGrow /\ Executes
  BY HistoryGrows DEF IInv
<1>2. ASSUME NEW s \in Stations, Station(s)
      PROVE  OnceInv'
  BY <1>1, <1>2, StationStepOnce
<1>3. ASSUME NEW t \in Stations, ~\E s \in Stations : Station(s)
      PROVE  Still(t)
  <2>1. t \in Nodes /\ t # 0 /\ Carries(Messages)
    BY <1>1, NodesOf DEF Stations, TruthInv, TypeOK
  <2>2. UNCHANGED <<ringVars, relayMessage, relayNeedsResend, sent, executed, refused>>
    BY <1>3 DEF Next, SendCommand, SendPing, AcknowledgeResponse, BaseTransmits, BaseIdle, Tick,
                Transmit, vars, relayVars, radioVars, ringVars, doneVars
  <2>3. outbox'[t] = outbox[t]
    BY <1>3, <2>1 DEF Next, SendCommand, SendPing, AcknowledgeResponse, BaseTransmits, BaseSends,
                      Tick, Transmit, vars, radioVars, Carries
  <2> QED  BY <2>2, <2>3 DEF Still, ringVars
<1> QED  BY <1>1, <1>2, <1>3, OthersOnce

(* In every state of every behaviour the invariant holds.                  *)
THEOREM Invariance == Spec => []IInv
<1>1. Init => IInv
  BY InitTruth, InitOnce DEF IInv
<1>2. IInv /\ [Next]_vars => IInv'
  BY NextTruth, NextOnce DEF IInv
<1> QED  BY <1>1, <1>2, PTL DEF Spec

(* No station executes a command twice, or one that it has refused, as     *)
(* long as no more unique IDs were sent than the ring of IDs has room for  *)
(* (checkCommandUID remembers the latest permanentArraySize of them,       *)
(* commands and pings together).                                           *)
THEOREM Once == Spec => [](FewIDs => ExecutedOnce)
<1>1. IInv => (FewIDs => ExecutedOnce)
  <2> SUFFICES ASSUME IInv, FewIDs, NEW s \in Stations, NEW u \in 1 .. MaxCommands
               PROVE  executed[s][u] <= 1 /\ (u \in refused[s] => executed[s][u] = 0)
    BY DEF ExecutedOnce
  <2>1. executed[s][u] \in Nat
    BY DEF IInv, TruthInv, TypeOK, StationsTyped
  <2>2. executed[s][u] > 0 => executed[s][u] = 1 /\ u \notin refused[s]
    BY DEF IInv, OnceInv, HandledHeld
  <2> QED  BY <2>1, <2>2
<1> QED  BY <1>1, Invariance, PTL

(* A station relays a message once and sends it again once at most, for as *)
(* long as both rings have room: haveRelayed and relayNeedsResend between  *)
(* them let no message go around in the network.                           *)
THEOREM SentOnce == Spec => []((FewIDs /\ \A s \in Stations : FewRelays(s)) => SendsOnce)
<1>1. IInv => ((FewIDs /\ \A s \in Stations : FewRelays(s)) => SendsOnce)
  <2> SUFFICES ASSUME IInv, FewIDs, NEW s \in Stations, FewRelays(s), outbox[s] # <<>>
               PROVE  /\ Head(outbox[s]) \notin sent[s]
                      /\ Head(outbox[s]).kind = "resend" =>
                           Item("relay", Head(outbox[s]).msg) \in sent[s]
    BY DEF SendsOnce
  <2>1. SendsNew(s) /\ TruthInv
    BY DEF IInv, OnceInv
  <2>2. Head(outbox[s]) = outbox[s][1] /\ 1 \in 1 .. Len(outbox[s])
    BY <2>1, QueueFacts
  <2> QED  BY <2>1, <2>2 DEF SendsNew
<1> QED  BY <1>1, Invariance, PTL

(* Every variable keeps its type, no station ever has more than two things *)
(* to send, and no message is in the network that was not sent: whatever a *)
(* station reads, relays or sends again was made by a node.                *)
THEOREM TypeCorrect == Spec => []TypeOK
<1>1. IInv => TypeOK
  BY DEF IInv, TruthInv
<1> QED  BY <1>1, Invariance, PTL

(* An answer is the truth: wherever an acknowledgement of a command is, in *)
(* the queue of any node or at the base, the station that it names has     *)
(* executed the command, or refused it if that is what the answer says     *)
(* (relayMessage keeps the name, handleCommandMessage answers afterwards). *)
THEOREM Truth == Spec => []AnswerMeansDone
<1>1. IInv => AnswerMeansDone
  <2> SUFFICES ASSUME IInv, NEW m \in OnTheWay \cup answered
               PROVE  m \in TrueMessages
    BY DEF AnswerMeansDone, TrueMessages
  <2>1. Carries(TrueMessages)
    BY DEF IInv, TruthInv
  <2>2. ASSUME NEW n \in Nodes, NEW e \in Entries(inbox[n]) \cup Entries(outbox[n])
        PROVE  e.msg \in TrueMessages
    <3>1. ASSUME NEW i \in DOMAIN inbox[n]
          PROVE  inbox[n][i].msg \in TrueMessages
      <4>1. inbox[n] \in Seq(Packet(TrueMessages))
        BY <2>1 DEF Carries
      <4>2. inbox[n][i] \in Packet(TrueMessages)
        BY <3>1, <4>1, ElementOfSeq, LenProperties
      <4> QED  BY <4>2 DEF Packet
    <3>2. ASSUME NEW i \in DOMAIN outbox[n]
          PROVE  outbox[n][i].msg \in TrueMessages
      <4>1. outbox[n] \in Seq(ToSend(TrueMessages))
        BY <2>1 DEF Carries
      <4>2. outbox[n][i] \in ToSend(TrueMessages)
        BY <3>2, <4>1, ElementOfSeq, LenProperties
      <4> QED  BY <4>2 DEF ToSend
    <3> QED  BY <2>2, <3>1, <3>2 DEF Entries
  <2> QED  BY <2>1, <2>2 DEF OnTheWay, Carries
<1> QED  BY <1>1, Invariance, PTL
=============================================================================
