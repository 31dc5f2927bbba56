----------------------- MODULE RemoteProgrammingProofs -----------------------
(***************************************************************************)
(* What RemoteProgramming does for any number of stations, any images and  *)
(* any delay of the radio: the inductive invariant IInv, that a packet is  *)
(* only written where the flash is erased, that a station runs nothing but *)
(* whole images that it was told to install, and that an operator who is   *)
(* told of packets, or finds an upload complete, is told the truth.        *)
(***************************************************************************)
EXTENDS RemoteProgramming, TLAPS

-----------------------------------------------------------------------------
(* Numbers of packets, and ages of commands.                               *)

LEMMA PacketCounts ==
  ASSUME NEW i \in Images
  PROVE  /\ PacketCount[i] \in Nat \ {0} /\ PacketCount[i] <= MaxPacketCount
         /\ MaxPacketCount \in Nat /\ 0 \in Packets /\ i # NoImage
         /\ PacketsOf(i) \subseteq Packets
<1>1. /\ PacketCount[i] \in Nat \ {0} /\ PacketCount[i] <= MaxPacketCount
      /\ MaxPacketCount \in Nat /\ i # NoImage
  BY ImagesAssumption
<1> QED  BY <1>1 DEF Packets, PacketsOf

LEMMA OlderTyped ==
  ASSUME NEW u \in 0 .. NoUID
  PROVE  Older(u) \in 0 .. NoUID
BY BoundsAssumption DEF Older, NoUID

LEMMA OlderCommands ==
  ASSUME air \subseteq Commands
  PROVE  OneOlder(air) \subseteq Commands
<1> SUFFICES ASSUME NEW n \in Commands, n.ago < MaxDelay
             PROVE  [n EXCEPT !.ago = @ + 1] \in Commands
  BY DEF OneOlder
<1>1. n.ago + 1 \in 0 .. MaxDelay
  BY BoundsAssumption DEF Commands
<1> QED  BY <1>1 DEF Commands

LEMMA OlderReplies ==
  ASSUME replies \subseteq Replies
  PROVE  OneOlder(replies) \subseteq Replies
<1> SUFFICES ASSUME NEW n \in Replies, n.ago < MaxDelay
             PROVE  [n EXCEPT !.ago = @ + 1] \in Replies
  BY DEF OneOlder
<1>1. n.ago + 1 \in 0 .. MaxDelay
  BY BoundsAssumption DEF Replies
<1> QED  BY <1>1 DEF Replies

(* A command that leaves.                                                  *)
LEMMA SendsTyped ==
  ASSUME ProgrammerTyped, RadioTyped,
         NEW kind \in {"B", "I", "Q", "C"}, NEW p \in Packets, NEW targets \in SUBSET Stations,
         Sends(kind, p, targets)
  PROVE  RadioTyped' /\ unIds' \in [Stations -> 0 .. NoUID]
<1>1. air' \subseteq Commands
  <2>1. PICK heard \in SUBSET targets :
          air' = OneOlder(air) \cup
                 {[ago |-> 0, kind |-> kind, image |-> image, packet |-> p, to |-> t] :
                    t \in {heard} \ {{}}}
    BY DEF Sends
  <2>2. \A t \in {heard} \ {{}} :
          [ago |-> 0, kind |-> kind, image |-> image, packet |-> p, to |-> t] \in Commands
    <3> SUFFICES ASSUME NEW t \in {heard} \ {{}}
                 PROVE  [ago |-> 0, kind |-> kind, image |-> image, packet |-> p, to |-> t] \in Commands
      OBVIOUS
    <3>1. t \in (SUBSET Stations) \ {{}}
      <4>1. t = heard /\ t # {}
        BY Zenon
      <4>2. heard \subseteq Stations
        BY Zenon
      <4>3. t \subseteq Stations /\ t # {}
        BY <4>1, <4>2, Zenon
      <4> QED  BY <4>3, SMT
    <3>2. 0 \in 0 .. MaxDelay /\ image \in Images
      BY BoundsAssumption DEF ProgrammerTyped
    <3> QED  BY <3>1, <3>2 DEF Commands
  <2>3. OneOlder(air) \subseteq Commands
    BY OlderCommands DEF RadioTyped
  <2> QED  BY <2>1, <2>2, <2>3
<1>2. replies' \subseteq Replies
  BY OlderReplies DEF Sends, RadioTyped
<1>3. unIds' \in [Stations -> 0 .. NoUID]
  BY OlderTyped DEF Sends, ProgrammerTyped
<1> QED  BY <1>1, <1>2, <1>3 DEF RadioTyped

-----------------------------------------------------------------------------
(* Who changes what.                                                       *)

LEMMA ProgrammerLeavesStations ==
  ASSUME Go \/ Programmer \/ Expire \/ Receive
  PROVE  UNCHANGED stationVars
BY DEF Go, Programmer, Expire, Receive, InitUpload, NoteInit, AllAcknowledged,
       InitTimesOut, GiveUp, BulkUpload, BulkUploaded, Query, NoteQuery, AskAgain,
       LookAtResponse, SendMissing, NoteSend, NextPacket, AllSent, Confirm

LEMMA StationLeavesProgrammer ==
  ASSUME NEW s \in Stations, Station(s) \/ Restart(s)
  PROVE  UNCHANGED programmerVars
BY DEF Station, HandleBegin, HandleImagePacket, HandleDownloadQuery,
       HandleProgramConfirm, WriteHeader, Restart

LEMMA StationsStutter ==
  ASSUME UNCHANGED stationVars
  PROVE  /\ StationsTyped => StationsTyped'
         /\ BitmapTellsFlash => BitmapTellsFlash'
         /\ ExpectsAnImage => ExpectsAnImage'
         /\ HeaderForWatchdog => HeaderForWatchdog'
         /\ \A s \in Stations : CRCMatches(s)' <=> CRCMatches(s)
BY DEF stationVars, ramVars, StationsTyped, BitmapTellsFlash, ExpectsAnImage,
       HeaderForWatchdog, CRCMatches

LEMMA TestsAreBoolean ==
  ASSUME NEW s, NEW c
  PROVE  IsItAllHere(s) \in BOOLEAN /\ CRCMatches(s) \in BOOLEAN
         /\ MayApply(s, c) \in BOOLEAN /\ Wanted(s, c) \in BOOLEAN
BY DEF IsItAllHere, CRCMatches, MayApply, Wanted

LEMMA CommandFields ==
  ASSUME RadioTyped, NEW c \in air
  PROVE  /\ c \in Commands /\ c.ago \in 0 .. MaxDelay /\ c.image \in Images
         /\ c.packet \in Packets /\ c.to \in SUBSET Stations
BY DEF RadioTyped, Commands

-----------------------------------------------------------------------------
(* The types of a station.                                                 *)
LEMMA StationsTypedStep ==
  ASSUME TypeOK, [Next]_vars
  PROVE  StationsTyped'
<1>1. CASE UNCHANGED vars \/ Go \/ Programmer \/ Expire \/ Receive
  <2>1. UNCHANGED stationVars
    BY <1>1, ProgrammerLeavesStations DEF vars
  <2> QED  BY <2>1, StationsStutter DEF TypeOK
<1>2. ASSUME NEW s \in Stations, HandleBegin(s)
      PROVE  StationsTyped'
  <2>1. PICK c \in air :
          /\ receivedPackets' = Cleared(s)
          /\ totalExpectedPackets' = [totalExpectedPackets EXCEPT ![s] = PacketCount[c.image]]
          /\ expectedCRC' = [expectedCRC EXCEPT ![s] = c.image]
          /\ flash' = Blanked(s) /\ header' = [header EXCEPT ![s] = NoHeader]
          /\ UNCHANGED applying
    BY <1>2 DEF HandleBegin
  <2>2. c.image \in Images /\ PacketCount[c.image] \in 0 .. MaxPacketCount
        /\ NoHeader \in [written : 0 .. 4, size : 0 .. MaxPacketCount]
    <3>1. c.image \in Images
      BY CommandFields DEF TypeOK
    <3> QED  BY <3>1, PacketCounts DEF NoHeader
  <2> QED  BY <2>1, <2>2 DEF TypeOK, StationsTyped, Cleared, Blanked
<1>3. ASSUME NEW s \in Stations, HandleImagePacket(s)
      PROVE  StationsTyped'
  <2>1. PICK c \in air :
          /\ \/ /\ flash' = [flash EXCEPT ![s][c.packet] = c.image]
                /\ receivedPackets' = [receivedPackets EXCEPT ![s] = @ \cup {c.packet}]
             \/ UNCHANGED <<flash, receivedPackets>>
          /\ UNCHANGED <<totalExpectedPackets, expectedCRC, header, applying>>
    BY <1>3 DEF HandleImagePacket
  <2>2. c.image \in Images /\ c.packet \in Packets
    BY CommandFields DEF TypeOK
  <2>3. flash' \in [Stations -> [Packets -> Images \cup {NoImage}]]
    <3>1. flash \in [Stations -> [Packets -> Images \cup {NoImage}]]
      BY DEF TypeOK, StationsTyped
    <3>2. [flash[s] EXCEPT ![c.packet] = c.image] \in [Packets -> Images \cup {NoImage}]
      BY <2>2, <3>1
    <3> DEFINE Written == [flash[s] EXCEPT ![c.packet] = c.image]
    <3>3. flash' = [flash EXCEPT ![s] = Written] \/ flash' = flash
      BY <2>1, <3>1
    <3> HIDE DEF Written
    <3>4. Written \in [Packets -> Images \cup {NoImage}]
      BY <3>2 DEF Written
    <3> QED  BY <3>1, <3>3, <3>4
  <2>4. receivedPackets' \in [Stations -> SUBSET Packets]
    <3> DEFINE Marked == receivedPackets[s] \cup {c.packet}
    <3>1. receivedPackets \in [Stations -> SUBSET Packets]
      BY DEF TypeOK, StationsTyped
    <3>2. receivedPackets' = [receivedPackets EXCEPT ![s] = Marked] \/ receivedPackets' = receivedPackets
      BY <2>1
    <3>3. Marked \in SUBSET Packets
      <4>1. receivedPackets[s] \in SUBSET Packets
        BY <3>1
      <4> QED  BY <4>1, <2>2, Zenon
    <3> HIDE DEF Marked
    <3> QED  BY <3>1, <3>2, <3>3
  <2> QED  BY <2>1, <2>3, <2>4 DEF TypeOK, StationsTyped
<1>4. ASSUME NEW s \in Stations, HandleDownloadQuery(s)
      PROVE  StationsTyped'
  BY <1>4, StationsStutter DEF HandleDownloadQuery, TypeOK
<1>5. ASSUME NEW s \in Stations, HandleProgramConfirm(s)
      PROVE  StationsTyped'
  BY <1>5, TestsAreBoolean DEF HandleProgramConfirm, TypeOK, StationsTyped, ramVars
<1>6. ASSUME NEW s \in Stations, WriteHeader(s)
      PROVE  StationsTyped'
  <2>1. /\ header[s].written + 1 \in 0 .. 4 /\ totalExpectedPackets[s] \in 0 .. MaxPacketCount
    <3>1. header[s] \in [written : 0 .. 4, size : 0 .. MaxPacketCount] /\ header[s].written < 4
      BY <1>6 DEF WriteHeader, TypeOK, StationsTyped
    <3>2. header[s].written \in 0 .. 4
      BY <3>1
    <3>3. totalExpectedPackets[s] \in 0 .. MaxPacketCount
      BY DEF TypeOK, StationsTyped
    <3> QED  BY <3>1, <3>2, <3>3
  <2> QED  BY <1>6, <2>1 DEF WriteHeader, TypeOK, StationsTyped, ramVars
<1>7. ASSUME NEW s \in Stations, Restart(s)
      PROVE  StationsTyped'
  <2>1. NoHeader \in [written : 0 .. 4, size : 0 .. MaxPacketCount] /\ 0 \in 0 .. MaxPacketCount
    BY ImagesAssumption DEF NoHeader
  <2>2. [p \in Packets |-> NoImage] \in [Packets -> Images \cup {NoImage}]
    OBVIOUS
  <2>3. /\ totalExpectedPackets' \in [Stations -> 0 .. MaxPacketCount]
        /\ expectedCRC' \in [Stations -> Images \cup {NoImage}]
        /\ receivedPackets' \in [Stations -> SUBSET Packets]
        /\ applying' \in [Stations -> BOOLEAN]
    BY <1>7, <2>1 DEF Restart, TypeOK, StationsTyped
  <2>4. CASE header[s].written = 4
    <3>1. /\ flash' = [flash EXCEPT ![s] = [p \in Packets |-> NoImage]]
          /\ header' = [header EXCEPT ![s] = NoHeader]
      BY <1>7, <2>4 DEF Restart
    <3>2. /\ flash' \in [Stations -> [Packets -> Images \cup {NoImage}]]
          /\ header' \in [Stations -> [written : 0 .. 4, size : 0 .. MaxPacketCount]]
      BY <2>1, <2>2, <3>1 DEF TypeOK, StationsTyped
    <3> QED  BY <2>3, <3>2 DEF StationsTyped
  <2>5. CASE header[s].written # 4
    BY <1>7, <2>3, <2>5 DEF Restart, TypeOK, StationsTyped
  <2> QED  BY <2>4, <2>5
<1> QED  BY <1>1, <1>2, <1>3, <1>4, <1>5, <1>6, <1>7 DEF Next, Station

-----------------------------------------------------------------------------
(* The types of the radio.                                                 *)

LEMMA HearsTyped ==
  ASSUME RadioTyped, NEW s \in Stations, NEW c \in air, Hears(s, c)
  PROVE  air' \subseteq Commands
<1>1. air' = (air \ {c}) \cup {[c EXCEPT !.to = t] : t \in {c.to \ {s}} \ {{}}}
  BY DEF Hears
<1>2. ASSUME NEW t \in {c.to \ {s}} \ {{}}
      PROVE  [c EXCEPT !.to = t] \in Commands
  <2>1. t = c.to \ {s} /\ t # {}
    BY Zenon
  <2>2. t \subseteq Stations
    BY <2>1, CommandFields
  <2>3. t \in (SUBSET Stations) \ {{}}
    BY <2>1, <2>2, SMT
  <2> QED  BY <2>3, CommandFields DEF Commands
<1> QED  BY <1>1, <1>2 DEF RadioTyped

LEMMA AnswersTyped ==
  ASSUME RadioTyped, NEW s \in Stations, NEW c \in air,
         NEW ok \in BOOLEAN, NEW body \in AtMostOne(Responses), Answers(s, c, ok, body)
  PROVE  replies' \subseteq Replies
<1>1. [ago |-> c.ago, from |-> s, ok |-> ok, body |-> body] \in Replies
  BY CommandFields DEF Replies
<1> QED  BY <1>1 DEF Answers, RadioTyped

LEMMA RadioTypedStep ==
  ASSUME TypeOK, PacketInImage, [Next]_vars
  PROVE  RadioTyped'
<1> DEFINE Heard(s) == \E c \in air : \E ok \in BOOLEAN, body \in AtMostOne(Responses) :
                          Hears(s, c) /\ Answers(s, c, ok, body)
<1>1. ASSUME NEW s \in Stations, Heard(s)
      PROVE  RadioTyped'
  <2>1. PICK c \in air, ok \in BOOLEAN, body \in AtMostOne(Responses) :
          Hears(s, c) /\ Answers(s, c, ok, body)
    BY <1>1
  <2> QED  BY <2>1, HearsTyped, AnswersTyped DEF TypeOK, RadioTyped
<1>2. ASSUME NEW s \in Stations, Station(s) \/ Restart(s)
      PROVE  RadioTyped'
  <2>1. {} \in AtMostOne(Responses)
    BY DEF AtMostOne
  <2>2. CASE HandleBegin(s)
    <3>1. Heard(s)
      BY <2>1, <2>2 DEF HandleBegin
    <3> QED  BY <1>1, <3>1
  <2>3. CASE HandleImagePacket(s)
    <3>1. Heard(s)
      BY <2>1, <2>3, TestsAreBoolean, Zenon DEF HandleImagePacket
    <3> QED  BY <1>1, <3>1
  <2>4. CASE HandleDownloadQuery(s)
    <3> DEFINE state == [crc |-> expectedCRC[s], total |-> totalExpectedPackets[s],
                         allThere |-> IsItAllHere(s),
                         crcMatch |-> IsItAllHere(s) /\ CRCMatches(s),
                         received |-> receivedPackets[s]]
    <3>1. state \in Responses
      <4>1. (IsItAllHere(s) /\ CRCMatches(s)) \in BOOLEAN
        OBVIOUS
      <4>2. /\ expectedCRC[s] \in Images \cup {NoImage}
            /\ totalExpectedPackets[s] \in 0 .. MaxPacketCount
            /\ receivedPackets[s] \in SUBSET Packets
        BY DEF TypeOK, StationsTyped
      <4> QED  BY <4>1, <4>2, TestsAreBoolean, Zenon DEF Responses
    <3>2. PICK c \in air : Hears(s, c) /\ Answers(s, c, TRUE, {state})
      BY <2>4 DEF HandleDownloadQuery
    <3> HIDE DEF state
    <3>3. {state} \in AtMostOne(Responses)
      BY <3>1 DEF AtMostOne
    <3>4. Heard(s)
      BY <3>2, <3>3
    <3> QED  BY <1>1, <3>4
  <2>5. CASE HandleProgramConfirm(s)
    <3>1. Heard(s)
      BY <2>1, <2>5 DEF HandleProgramConfirm
    <3> QED  BY <1>1, <3>1
  <2>6. CASE WriteHeader(s) \/ Restart(s)
    BY <2>6 DEF WriteHeader, Restart, TypeOK, RadioTyped
  <2> QED  BY <1>2, <2>2, <2>3, <2>4, <2>5, <2>6 DEF Station
<1>3. ASSUME Programmer
      PROVE  RadioTyped'
  <2>1. image \in Images /\ at \in Stations /\ ProgrammerTyped /\ RadioTyped
    BY DEF TypeOK, ProgrammerTyped
  <2>2. 0 \in Packets
    BY <2>1, PacketCounts
  <2>3. CASE InitUpload
    BY <2>1, <2>2, <2>3, SendsTyped DEF InitUpload
  <2>4. CASE BulkUpload
    <3>1. packet \in Packets
      BY <2>1, <2>4, PacketCounts DEF BulkUpload, ProgrammerTyped, Packets
    <3> QED  BY <2>1, <2>4, <3>1, SendsTyped DEF BulkUpload
  <2>5. CASE Query
    BY <2>1, <2>2, <2>5, SendsTyped DEF Query
  <2>6. CASE SendMissing
    <3>1. packet' \in PacketsOf(image)
      BY <2>6 DEF SendMissing, Missing
    <3>2. packet' \in Packets
      BY <2>1, <3>1, PacketCounts
    <3> QED  BY <2>1, <2>6, <3>2, SendsTyped DEF SendMissing
  <2>7. CASE Confirm
    BY <2>1, <2>2, <2>7, SendsTyped DEF Confirm
  <2>8. CASE NoteInit \/ AllAcknowledged \/ InitTimesOut \/ GiveUp \/ BulkUploaded
              \/ NoteQuery \/ AskAgain \/ LookAtResponse \/ NoteSend \/ NextPacket \/ AllSent
    <3>1. UNCHANGED <<air, replies>>
      BY <2>8 DEF NoteInit, AllAcknowledged, InitTimesOut, GiveUp, BulkUploaded, NoteQuery,
                  AskAgain, LookAtResponse, NoteSend, NextPacket, AllSent
    <3> QED  BY <2>1, <3>1 DEF RadioTyped
  <2> QED  BY <1>3, <2>3, <2>4, <2>5, <2>6, <2>7, <2>8 DEF Programmer
<1>4. CASE UNCHANGED vars \/ Go \/ Expire \/ Receive
  BY <1>4 DEF vars, Go, Expire, Receive, TypeOK, RadioTyped
<1> QED  BY <1>2, <1>3, <1>4 DEF Next

-----------------------------------------------------------------------------
(* The types of the programmer, and that it sends no packet too many.      *)

LEMMA ReceivedTyped ==
  ASSUME ProgrammerTyped, RadioTyped, NEW m \in replies, Received(m)
  PROVE  /\ acks' \subseteq Stations /\ replyReceived' \in BOOLEAN
         /\ lastUniqueID' \in 0 .. NoUID /\ lastResponse' \in AtMostOne(Responses)
<1>1. m.from \in Stations /\ m.body \in AtMostOne(Responses)
  BY DEF RadioTyped, Replies
<1>2. CASE /\ acks' = acks \cup {s \in {m.from} : m.ok /\ unIds[s] = m.ago}
           /\ UNCHANGED waitVars
  BY <1>1, <1>2 DEF ProgrammerTyped, waitVars
<1>3. CASE /\ IF m.ago = lastUniqueID /\ m.from = at
              THEN /\ lastResponse' = IF m.body = {} THEN lastResponse ELSE m.body
                   /\ replyReceived' = TRUE
              ELSE UNCHANGED <<lastResponse, replyReceived>>
           /\ UNCHANGED <<acks, lastUniqueID>>
  BY <1>1, <1>3 DEF ProgrammerTyped
<1>4. CASE UNCHANGED <<acks, waitVars>>
  BY <1>4 DEF ProgrammerTyped, waitVars
<1> QED  BY <1>2, <1>3, <1>4 DEF Received

LEMMA FreshTyped ==
  ASSUME FreshLocals
  PROVE  replyReceived' \in BOOLEAN /\ lastUniqueID' \in 0 .. NoUID
         /\ lastResponse' \in AtMostOne(Responses)
<1>1. NoUID \in 0 .. NoUID
  BY BoundsAssumption DEF NoUID
<1>2. {} \in AtMostOne(Responses)
  BY Zenon DEF AtMostOne
<1> QED  BY <1>1, <1>2 DEF FreshLocals

LEMMA ProgrammerStepTyped ==
  ASSUME TypeOK, PacketInImage, Go \/ Programmer \/ Expire \/ Receive
  PROVE  ProgrammerTyped' /\ PacketInImage'
<1>1. /\ ProgrammerTyped /\ RadioTyped /\ image \in Images /\ at \in Stations
      /\ PacketCount[image] \in Nat \ {0} /\ PacketCount[image] <= MaxPacketCount
      /\ MaxPacketCount \in Nat /\ packet \in 0 .. MaxPacketCount
  BY PacketCounts DEF TypeOK, ProgrammerTyped
<1>2. /\ 1 \in Stations /\ NoUID \in 0 .. NoUID /\ 0 \in 0 .. NoUID
      /\ \A u \in 0 .. NoUID : Older(u) \in 0 .. NoUID
  BY StationsAssumption, BoundsAssumption, OlderTyped DEF Stations, NoUID
<1>3. ASSUME NEW kind \in {"B", "I", "Q", "C"}, NEW p \in Packets,
             NEW targets \in SUBSET Stations, Sends(kind, p, targets)
      PROVE  unIds' \in [Stations -> 0 .. NoUID]
  BY <1>1, <1>3, SendsTyped
<1>4. 0 \in Packets
  BY <1>1, PacketCounts
<1>5. CASE Go
  <2>1. unIds' \in [Stations -> 0 .. NoUID]
    BY <1>2, <1>5 DEF Go
  <2>2. PacketInImage' /\ packet' \in 0 .. MaxPacketCount /\ at' \in Stations
        /\ acks' \subseteq Stations /\ image' \in Images /\ cancelled' \in BOOLEAN
    <3>1. PacketInImage'
      BY <1>5 DEF Go, PacketInImage
    <3>2. packet' = 0 /\ acks' = {} /\ cancelled' = FALSE /\ image' \in Images /\ at' = 1
      BY <1>5, Zenon DEF Go
    <3>3. packet' \in 0 .. MaxPacketCount
      BY <1>1, <3>2
    <3> QED  BY <1>2, <3>1, <3>2, <3>3
  <2> QED  BY <1>1, <1>5, <2>1, <2>2 DEF Go, ProgrammerTyped, waitVars
<1>6. CASE InitUpload
  <2>1. unIds' \in [Stations -> 0 .. NoUID]
    BY <1>1, <1>3, <1>4, <1>6 DEF InitUpload
  <2> QED  BY <1>1, <1>6, <2>1 DEF InitUpload, ProgrammerTyped, PacketInImage, waitVars
<1>7. CASE NoteInit \/ AllAcknowledged \/ InitTimesOut \/ BulkUploaded
  BY <1>1, <1>2, <1>7 DEF NoteInit, AllAcknowledged, InitTimesOut, BulkUploaded,
     ProgrammerTyped, PacketInImage, waitVars
<1>8. CASE GiveUp
  BY <1>1, <1>8, FreshTyped DEF GiveUp, ProgrammerTyped, PacketInImage
<1>9. CASE BulkUpload
  <2>1. packet \in Packets /\ packet + 1 \in 0 .. MaxPacketCount
    BY <1>1, <1>9 DEF BulkUpload, Packets
  <2>2. unIds' \in [Stations -> 0 .. NoUID]
    BY <1>3, <1>9, <2>1 DEF BulkUpload
  <2> QED  BY <1>1, <1>9, <2>1, <2>2 DEF BulkUpload, ProgrammerTyped, PacketInImage, waitVars
<1>10. CASE Query
  <2>1. unIds' \in [Stations -> 0 .. NoUID]
    BY <1>1, <1>3, <1>4, <1>10 DEF Query
  <2>2. lastUniqueID' \in 0 .. NoUID
    BY <1>1, <1>2, <1>10 DEF Query, ProgrammerTyped
  <2> QED  BY <1>1, <1>10, <2>1, <2>2 DEF Query, ProgrammerTyped, PacketInImage
<1>11. CASE NoteQuery \/ AskAgain \/ NoteSend \/ AllSent
  <2>1. CASE NoteQuery
    BY <1>1, <1>2, <2>1 DEF NoteQuery, ProgrammerTyped, PacketInImage
  <2>2. CASE AskAgain
    BY <1>1, <2>2 DEF AskAgain, ProgrammerTyped, PacketInImage
  <2>3. CASE NoteSend
    <3>1. packet < MaxPacketCount /\ packet' = packet
      BY <2>3 DEF NoteSend, PacketInImage
    <3> QED  BY <1>1, <1>2, <2>3, <3>1 DEF NoteSend, ProgrammerTyped, PacketInImage
  <2>4. CASE AllSent
    BY <1>1, <2>4 DEF AllSent, ProgrammerTyped, PacketInImage, waitVars
  <2> QED  BY <1>11, <2>1, <2>2, <2>3, <2>4
<1>12. CASE LookAtResponse
  <2>1. /\ phase' \in {"failed", "query", "confirm", "send"} /\ at' \in Stations
        /\ FreshLocals \/ (replyReceived' = FALSE /\ UNCHANGED <<lastUniqueID, lastResponse>>)
        /\ UNCHANGED <<image, packet, unIds, acks, cancelled, confirmed>>
    BY <1>1, <1>2, <1>12 DEF LookAtResponse
  <2>2. replyReceived' \in BOOLEAN /\ lastUniqueID' \in 0 .. NoUID
        /\ lastResponse' \in AtMostOne(Responses)
    BY <1>1, <2>1, FreshTyped DEF ProgrammerTyped
  <2> QED  BY <1>1, <2>1, <2>2 DEF ProgrammerTyped, PacketInImage
<1>13. CASE SendMissing
  <2>1. packet' \in PacketsOf(image)
    BY <1>13 DEF SendMissing, Missing
  <2>2. packet' \in Packets /\ packet' \in 0 .. MaxPacketCount /\ packet' < MaxPacketCount
    BY <1>1, <2>1 DEF Packets, PacketsOf
  <2>3. unIds' \in [Stations -> 0 .. NoUID]
    <3>1. Sends("I", packet', {at})
      BY <1>13, Zenon DEF SendMissing
    <3>2. {at} \in SUBSET Stations
      BY <1>1
    <3> QED  BY <1>3, <2>2, <3>1, <3>2
  <2>4. lastUniqueID' \in 0 .. NoUID
    BY <1>1, <1>2, <1>13 DEF SendMissing, ProgrammerTyped
  <2> QED  BY <1>1, <1>13, <2>2, <2>3, <2>4 DEF SendMissing, ProgrammerTyped, PacketInImage
<1>14. CASE NextPacket
  <2>1. packet + 1 \in 0 .. MaxPacketCount
    BY <1>1, <1>14 DEF NextPacket, PacketInImage
  <2> QED  BY <1>1, <1>14, <2>1 DEF NextPacket, ProgrammerTyped, PacketInImage
<1>15. CASE Confirm
  <2>1. unIds' \in [Stations -> 0 .. NoUID]
    BY <1>1, <1>3, <1>4, <1>15 DEF Confirm
  <2>2. confirmed' \in [Stations -> SUBSET Images]
    BY <1>1, <1>15 DEF Confirm, ProgrammerTyped
  <2> QED  BY <1>1, <1>2, <1>15, <2>1, <2>2 DEF Confirm, ProgrammerTyped, PacketInImage, waitVars
<1>16. CASE Expire
  BY <1>1, <1>16 DEF Expire, ProgrammerTyped, PacketInImage, waitVars
<1>17. CASE Receive
  <2>1. /\ acks' \subseteq Stations /\ replyReceived' \in BOOLEAN
        /\ lastUniqueID' \in 0 .. NoUID /\ lastResponse' \in AtMostOne(Responses)
    BY <1>1, <1>17, ReceivedTyped DEF Receive
  <2> QED  BY <1>1, <1>17, <2>1 DEF Receive, ProgrammerTyped, PacketInImage
<1> QED  BY <1>5, <1>6, <1>7, <1>8, <1>9, <1>10, <1>11, <1>12, <1>13, <1>14, <1>15, <1>16,
            <1>17 DEF Programmer

-----------------------------------------------------------------------------
(* One station at a time: what the invariant says of it, and that nobody   *)
(* else disturbs it.                                                       *)
StationInv(s) ==
  /\ \A p \in 0 .. totalExpectedPackets[s] - 1 :
       flash[s][p] = IF p \in receivedPackets[s] THEN expectedCRC[s] ELSE NoImage
  /\ IF expectedCRC[s] = NoImage THEN totalExpectedPackets[s] = 0
     ELSE totalExpectedPackets[s] = PacketCount[expectedCRC[s]]
  /\ applying[s] => CRCMatches(s) /\ expectedCRC[s] \in confirmed[s]
  /\ header[s].written = 4 => applying[s] /\ header[s].size = totalExpectedPackets[s]

Memory(s) == <<totalExpectedPackets[s], expectedCRC[s], receivedPackets[s], flash[s],
               header[s], applying[s]>>

LEMMA StationInvMeans ==
  (\A s \in Stations : StationInv(s))
    <=> BitmapTellsFlash /\ ExpectsAnImage /\ AppliesWhole /\ HeaderForWatchdog
BY DEF StationInv, BitmapTellsFlash, ExpectsAnImage, AppliesWhole, HeaderForWatchdog

LEMMA Undisturbed ==
  ASSUME NEW s \in Stations, Memory(s)' = Memory(s), confirmed[s] \subseteq confirmed'[s],
         StationInv(s)
  PROVE  StationInv(s)'
<1>1. /\ totalExpectedPackets'[s] = totalExpectedPackets[s] /\ expectedCRC'[s] = expectedCRC[s]
      /\ receivedPackets'[s] = receivedPackets[s] /\ flash'[s] = flash[s]
      /\ header'[s] = header[s] /\ applying'[s] = applying[s]
  BY DEF Memory
<1>2. CRCMatches(s)' <=> CRCMatches(s)
  BY <1>1 DEF CRCMatches
<1> QED  BY <1>1, <1>2 DEF StationInv

LEMMA StationsApart ==
  ASSUME StationsTyped, NEW s \in Stations, Station(s) \/ Restart(s),
         NEW t \in Stations \ {s}
  PROVE  Memory(t)' = Memory(t)
<1>1. CASE HandleBegin(s)
  BY <1>1 DEF HandleBegin, Cleared, Blanked, StationsTyped, Memory
<1>2. CASE HandleImagePacket(s)
  BY <1>2 DEF HandleImagePacket, StationsTyped, Memory
<1>3. CASE HandleDownloadQuery(s)
  BY <1>3 DEF HandleDownloadQuery, stationVars, ramVars, Memory
<1>4. CASE HandleProgramConfirm(s)
  BY <1>4 DEF HandleProgramConfirm, ramVars, StationsTyped, Memory
<1>5. CASE WriteHeader(s)
  BY <1>5 DEF WriteHeader, ramVars, StationsTyped, Memory
<1>6. CASE Restart(s)
  BY <1>6 DEF Restart, StationsTyped, Memory
<1> QED  BY <1>1, <1>2, <1>3, <1>4, <1>5, <1>6 DEF Station

LEMMA ConfirmedGrows ==
  ASSUME TypeOK, [Next]_vars, NEW s \in Stations
  PROVE  confirmed[s] \subseteq confirmed'[s]
<1>1. CASE Confirm
  BY <1>1 DEF Confirm, TypeOK, ProgrammerTyped
<1>2. CASE UNCHANGED confirmed
  BY <1>2
<1>3. Confirm \/ UNCHANGED confirmed
  BY StationLeavesProgrammer DEF Next, vars, programmerVars, Go, Programmer, Expire, Receive,
     InitUpload, NoteInit, AllAcknowledged, InitTimesOut, GiveUp, BulkUpload, BulkUploaded,
     Query, NoteQuery, AskAgain, LookAtResponse, SendMissing, NoteSend, NextPacket, AllSent
<1> QED  BY <1>1, <1>2, <1>3

(* A station that begins an upload, or gets a packet of it.                *)
LEMMA BeginKeepsInv ==
  ASSUME IInv, NEW s \in Stations, HandleBegin(s)
  PROVE  StationInv(s)'
<1>1. PICK c \in air :
        /\ ~applying[s] /\ UNCHANGED applying
        /\ receivedPackets' = Cleared(s)
        /\ totalExpectedPackets' = [totalExpectedPackets EXCEPT ![s] = PacketCount[c.image]]
        /\ expectedCRC' = [expectedCRC EXCEPT ![s] = c.image]
        /\ flash' = Blanked(s) /\ header' = [header EXCEPT ![s] = NoHeader]
  BY DEF HandleBegin, Hears
<1>2. /\ totalExpectedPackets'[s] = PacketCount[c.image] /\ expectedCRC'[s] = c.image
      /\ receivedPackets'[s] = {} /\ flash'[s] = [p \in Packets |-> NoImage]
      /\ header'[s] = NoHeader /\ ~applying'[s]
  BY <1>1 DEF IInv, TypeOK, StationsTyped, Cleared, Blanked
<1>3. /\ c.image # NoImage /\ PacketsOf(c.image) \subseteq Packets
  BY CommandFields, PacketCounts DEF IInv, TypeOK
<1>4. \A p \in 0 .. totalExpectedPackets'[s] - 1 : flash'[s][p] = NoImage
  BY <1>2, <1>3 DEF PacketsOf
<1>5. header'[s].written # 4
  BY <1>2 DEF NoHeader
<1> QED  BY <1>2, <1>3, <1>4, <1>5 DEF StationInv

LEMMA PacketKeepsInv ==
  ASSUME IInv, NEW s \in Stations, HandleImagePacket(s)
  PROVE  StationInv(s)'
<1>1. PICK c \in air :
        /\ ~applying[s]
        /\ UNCHANGED <<totalExpectedPackets, expectedCRC, header, applying>>
        /\ \/ /\ Wanted(s, c)
              /\ flash' = [flash EXCEPT ![s][c.packet] = c.image]
              /\ receivedPackets' = [receivedPackets EXCEPT ![s] = @ \cup {c.packet}]
           \/ UNCHANGED <<flash, receivedPackets>>
  BY DEF HandleImagePacket, Hears
<1>2. StationInv(s)
  BY StationInvMeans DEF IInv
<1>3. \A p \in 0 .. totalExpectedPackets[s] - 1 :
        flash'[s][p] = IF p \in receivedPackets'[s] THEN expectedCRC[s] ELSE NoImage
  <2>1. CASE UNCHANGED <<flash, receivedPackets>>
    BY <1>2, <2>1 DEF StationInv
  <2>2. CASE /\ Wanted(s, c)
             /\ flash' = [flash EXCEPT ![s][c.packet] = c.image]
             /\ receivedPackets' = [receivedPackets EXCEPT ![s] = @ \cup {c.packet}]
    <3>1. /\ flash'[s] = [flash[s] EXCEPT ![c.packet] = c.image]
          /\ receivedPackets'[s] = receivedPackets[s] \cup {c.packet}
          /\ c.image = expectedCRC[s]
      BY <2>2 DEF IInv, TypeOK, StationsTyped, Wanted
    <3>2. flash[s] \in [Packets -> Images \cup {NoImage}] /\ c.packet \in Packets
      BY CommandFields DEF IInv, TypeOK, StationsTyped
    <3>3. ASSUME NEW p \in 0 .. totalExpectedPackets[s] - 1
          PROVE  flash'[s][p] = IF p \in receivedPackets'[s] THEN expectedCRC[s] ELSE NoImage
      <4>1. CASE p = c.packet
        BY <3>1, <3>2, <4>1
      <4>2. CASE p # c.packet
        <5>1. flash'[s][p] = flash[s][p] /\ (p \in receivedPackets'[s] <=> p \in receivedPackets[s])
          BY <3>1, <3>2, <4>2
        <5> QED  BY <1>2, <5>1 DEF StationInv
      <4> QED  BY <4>1, <4>2
    <3> QED  BY <3>3
  <2> QED  BY <1>1, <2>1, <2>2
<1>4. header[s].written # 4
  BY <1>1, <1>2 DEF StationInv
<1> QED  BY <1>1, <1>2, <1>3, <1>4 DEF StationInv

LEMMA ConfirmKeepsInv ==
  ASSUME IInv, NEW s \in Stations, HandleProgramConfirm(s)
  PROVE  StationInv(s)'
<1>1. PICK c \in air :
        /\ c.kind = "C" /\ s \in c.to /\ ~applying[s]
        /\ applying' = [applying EXCEPT ![s] = MayApply(s, c)]
        /\ UNCHANGED <<ramVars, flash, header>>
  BY DEF HandleProgramConfirm, Hears
<1>2. StationInv(s)
  BY StationInvMeans DEF IInv
<1>3. CRCMatches(s)' <=> CRCMatches(s)
  BY <1>1 DEF CRCMatches, ramVars
<1>4. expectedCRC[s] \in confirmed'[s] \/ ~MayApply(s, c)
  <2>1. c.image \in confirmed[s]
    BY <1>1 DEF IInv, ConfirmationsSent
  <2>2. confirmed' = confirmed
    BY StationLeavesProgrammer DEF Station, programmerVars
  <2> QED  BY <2>1, <2>2 DEF MayApply
<1>5. applying'[s] <=> MayApply(s, c)
  BY <1>1 DEF IInv, TypeOK, StationsTyped
<1>6. applying'[s] => CRCMatches(s)' /\ expectedCRC'[s] \in confirmed'[s]
  <2>1. expectedCRC'[s] = expectedCRC[s]
    BY <1>1 DEF ramVars
  <2>2. MayApply(s, c) => CRCMatches(s)
    BY Zenon DEF MayApply
  <2> QED  BY <1>3, <1>4, <1>5, <2>1, <2>2
<1>7. header'[s].written # 4
  BY <1>1, <1>2 DEF StationInv
<1> QED  BY <1>1, <1>2, <1>6, <1>7 DEF StationInv, ramVars

LEMMA HeaderKeepsInv ==
  ASSUME IInv, NEW s \in Stations, WriteHeader(s)
  PROVE  StationInv(s)'
<1>1. /\ applying[s] /\ UNCHANGED <<ramVars, flash, applying>> /\ UNCHANGED confirmed
      /\ header' = [header EXCEPT ![s] = [written |-> @.written + 1,
                                         size |-> totalExpectedPackets[s]]]
  BY DEF WriteHeader, programmerVars
<1>2. StationInv(s)
  BY StationInvMeans DEF IInv
<1>3. CRCMatches(s)' <=> CRCMatches(s)
  BY <1>1 DEF CRCMatches, ramVars
<1>4. header'[s].size = totalExpectedPackets[s]
  BY <1>1 DEF IInv, TypeOK, StationsTyped
<1> QED  BY <1>1, <1>2, <1>3, <1>4 DEF StationInv, ramVars

LEMMA RestartKeepsInv ==
  ASSUME IInv, NEW s \in Stations, Restart(s)
  PROVE  StationInv(s)'
<1>1. /\ totalExpectedPackets'[s] = 0 /\ expectedCRC'[s] = NoImage /\ ~applying'[s]
  BY DEF Restart, IInv, TypeOK, StationsTyped
<1>2. header'[s].written # 4
  <2>1. CASE header[s].written = 4
    BY <2>1 DEF Restart, IInv, TypeOK, StationsTyped, NoHeader
  <2>2. CASE header[s].written # 4
    BY <2>2 DEF Restart
  <2> QED  BY <2>1, <2>2
<1>3. \A p \in 0 .. totalExpectedPackets'[s] - 1 : FALSE
  BY <1>1
<1> QED  BY <1>1, <1>2, <1>3 DEF StationInv

LEMMA StationInvStep ==
  ASSUME IInv, [Next]_vars, NEW t \in Stations
  PROVE  StationInv(t)'
<1>1. StationInv(t) /\ confirmed[t] \subseteq confirmed'[t]
  BY StationInvMeans, ConfirmedGrows DEF IInv
<1>2. CASE Memory(t)' = Memory(t)
  BY <1>1, <1>2, Undisturbed
<1>3. CASE UNCHANGED vars \/ Go \/ Programmer \/ Expire \/ Receive
  <2>1. UNCHANGED stationVars
    BY <1>3, ProgrammerLeavesStations DEF vars
  <2> QED  BY <1>2, <2>1 DEF stationVars, ramVars, Memory
<1>4. ASSUME NEW s \in Stations, Station(s) \/ Restart(s)
      PROVE  StationInv(t)'
  <2>1. CASE t # s
    BY <1>2, <1>4, <2>1, StationsApart DEF IInv, TypeOK
  <2>2. CASE t = s /\ HandleDownloadQuery(s)
    BY <1>2, <2>2 DEF HandleDownloadQuery, stationVars, ramVars, Memory
  <2>3. CASE t = s /\ ~HandleDownloadQuery(s)
    BY <1>4, <2>3, BeginKeepsInv, PacketKeepsInv, ConfirmKeepsInv, HeaderKeepsInv,
       RestartKeepsInv, Zenon DEF Station
  <2> QED  BY <2>1, <2>2, <2>3
<1> QED  BY <1>3, <1>4 DEF Next

-----------------------------------------------------------------------------
(* The confirmations in the air.                                           *)
LEMMA ConfirmationsStep ==
  ASSUME IInv, [Next]_vars
  PROVE  ConfirmationsSent'
<1>1. ASSUME \A c \in air' : c.kind = "C" =>
               \E d \in air : d.kind = "C" /\ d.image = c.image /\ c.to \subseteq d.to
      PROVE  ConfirmationsSent'
  <2> SUFFICES ASSUME NEW c \in air', NEW s \in c.to, c.kind = "C"
               PROVE  c.image \in confirmed'[s]
    BY DEF ConfirmationsSent
  <2>1. PICK d \in air : d.kind = "C" /\ d.image = c.image /\ c.to \subseteq d.to
    BY <1>1
  <2>2. s \in Stations /\ d.image \in confirmed[s]
    BY <2>1, CommandFields DEF ConfirmationsSent, IInv, TypeOK
  <2> QED  BY <2>1, <2>2, ConfirmedGrows DEF IInv
<1>2. ASSUME NEW c \in OneOlder(air)
      PROVE  \E d \in air : c.kind = d.kind /\ d.image = c.image /\ c.to = d.to
  <2>1. PICK d \in air : c = [d EXCEPT !.ago = @ + 1]
    BY <1>2 DEF OneOlder
  <2>2. d \in Commands
    BY CommandFields DEF IInv, TypeOK
  <2>3. c.kind = d.kind /\ d.image = c.image /\ c.to = d.to
    BY <2>1, <2>2 DEF Commands
  <2> QED  BY <2>3
<1>3. ASSUME NEW kind, NEW p, NEW targets, Sends(kind, p, targets), NEW c \in air'
      PROVE  \/ c \in OneOlder(air)
             \/ c.kind = kind /\ c.image = image /\ c.to \subseteq targets
  BY <1>3 DEF Sends
<1>4. ASSUME NEW s \in Stations, NEW d \in air, Hears(s, d)
      PROVE  ConfirmationsSent'
  <2>1. ASSUME NEW c \in air'
        PROVE  \E e \in air : e.kind = c.kind /\ e.image = c.image /\ c.to \subseteq e.to
    <3>1. CASE c \in air
      BY <3>1
    <3>2. CASE c \notin air
      <4>1. c = [d EXCEPT !.to = d.to \ {s}]
        BY <1>4, <3>2 DEF Hears
      <4>2. d \in Commands
        BY CommandFields DEF IInv, TypeOK
      <4> QED  BY <4>1, <4>2 DEF Commands
    <3> QED  BY <3>1, <3>2
  <2> QED  BY <1>1, <2>1
<1>5. CASE UNCHANGED air
  BY <1>1, <1>5
<1>6. ASSUME NEW kind, NEW p, NEW targets, Sends(kind, p, targets), kind # "C"
      PROVE  ConfirmationsSent'
  BY <1>1, <1>2, <1>3, <1>6
<1>7. CASE Confirm
  <2> SUFFICES ASSUME NEW c \in air', NEW s \in c.to, c.kind = "C"
               PROVE  c.image \in confirmed'[s]
    BY DEF ConfirmationsSent
  <2>1. CASE c \in OneOlder(air)
    <3>1. PICK d \in air : c.kind = d.kind /\ d.image = c.image /\ c.to = d.to
      BY <1>2, <2>1
    <3>2. s \in Stations /\ d.image \in confirmed[s]
      BY <3>1, CommandFields DEF ConfirmationsSent, IInv, TypeOK
    <3> QED  BY <3>1, <3>2, ConfirmedGrows DEF IInv
  <2>2. CASE c \notin OneOlder(air)
    <3>1. c.image = image /\ s = at
      BY <1>3, <1>7, <2>2 DEF Confirm
    <3>2. image \in confirmed'[at]
      BY <1>7 DEF Confirm, IInv, TypeOK, ProgrammerTyped
    <3> QED  BY <3>1, <3>2
  <2> QED  BY <2>1, <2>2
<1>8. ASSUME NEW s \in Stations, Station(s) \/ Restart(s)
      PROVE  ConfirmationsSent'
  BY <1>4, <1>5, <1>8 DEF Station, HandleBegin, HandleImagePacket, HandleDownloadQuery,
     HandleProgramConfirm, WriteHeader, Restart
<1>9. ASSUME Programmer, ~Confirm
      PROVE  ConfirmationsSent'
  BY <1>5, <1>6, <1>9 DEF Programmer, InitUpload, NoteInit, AllAcknowledged, InitTimesOut,
     GiveUp, BulkUpload, BulkUploaded, Query, NoteQuery, AskAgain, LookAtResponse, SendMissing,
     NoteSend, NextPacket, AllSent
<1>10. CASE UNCHANGED vars \/ Go \/ Expire \/ Receive
  BY <1>5, <1>10 DEF vars, Go, Expire, Receive
<1> QED  BY <1>7, <1>8, <1>9, <1>10 DEF Next

-----------------------------------------------------------------------------
LEMMA InitInv == Init => IInv
<1> SUFFICES ASSUME Init PROVE IInv
  OBVIOUS
<1>1. /\ image \in Images /\ MaxPacketCount \in Nat /\ 1 \in Stations
      /\ NoUID \in 0 .. NoUID /\ 0 \in 0 .. MaxPacketCount
  BY StationsAssumption, ImagesAssumption, BoundsAssumption DEF Init, Stations, NoUID
<1>2. StationsTyped
  BY <1>1 DEF Init, StationsTyped, NoHeader
<1>3. ProgrammerTyped
  <2>1. lastResponse \in AtMostOne(Responses)
    BY Zenon DEF Init, AtMostOne
  <2> QED  BY <1>1, <2>1 DEF Init, ProgrammerTyped
<1>4. RadioTyped /\ PacketInImage /\ ConfirmationsSent
  BY DEF Init, RadioTyped, PacketInImage, ConfirmationsSent
<1>5. ASSUME NEW s \in Stations
      PROVE  StationInv(s)
  <2>1. /\ totalExpectedPackets[s] = 0 /\ expectedCRC[s] = NoImage
        /\ ~applying[s] /\ header[s].written = 0
    BY DEF Init, NoHeader
  <2> QED  BY <2>1 DEF StationInv
<1> QED  BY <1>2, <1>3, <1>4, <1>5, StationInvMeans DEF IInv, TypeOK

LEMMA NextInv == IInv /\ [Next]_vars => IInv'
<1> SUFFICES ASSUME IInv, [Next]_vars PROVE IInv'
  OBVIOUS
<1>1. StationsTyped' /\ RadioTyped'
  BY StationsTypedStep, RadioTypedStep DEF IInv
<1>2. ProgrammerTyped' /\ PacketInImage'
  <2>1. CASE UNCHANGED programmerVars
    BY <2>1 DEF programmerVars, waitVars, IInv, TypeOK, ProgrammerTyped, PacketInImage
  <2>2. CASE Go \/ Programmer \/ Expire \/ Receive
    BY <2>2, ProgrammerStepTyped DEF IInv
  <2> QED  BY <2>1, <2>2, StationLeavesProgrammer DEF Next, vars
<1>3. BitmapTellsFlash' /\ ExpectsAnImage' /\ AppliesWhole' /\ HeaderForWatchdog'
  <2>1. \A s \in Stations : StationInv(s)'
    BY StationInvStep
  <2> QED  BY <2>1, Zenon DEF StationInv, BitmapTellsFlash, ExpectsAnImage, AppliesWhole,
              HeaderForWatchdog
<1>4. ConfirmationsSent'
  BY ConfirmationsStep
<1> QED  BY <1>1, <1>2, <1>3, <1>4 DEF IInv, TypeOK

(* The inductive invariant holds for any stations, images and delays.      *)
THEOREM Invariance == Spec => []IInv
BY InitInv, NextInv, PTL DEF Spec

(* Every variable keeps its type.                                          *)
THEOREM TypeCorrect == Spec => []TypeOK
<1>1. IInv => TypeOK
  BY DEF IInv
<1> QED  BY Invariance, <1>1, PTL

(* The bitmap that a station keeps in RAM tells what is in its flash.      *)
THEOREM BitmapCorrect == Spec => []BitmapTellsFlash
<1>1. IInv => BitmapTellsFlash
  BY DEF IInv
<1> QED  BY Invariance, <1>1, PTL

(* Flash is only written where it is erased.                               *)
THEOREM WrittenOnce == Spec => NeverOverwritten
<1>1. ASSUME IInv, [Next]_vars, NEW s \in Stations, NEW p \in Packets, flash[s][p] # NoImage
      PROVE  flash'[s][p] \in {flash[s][p], NoImage}
  <2>1. CASE flash'[s] = flash[s] \/ flash'[s] = [q \in Packets |-> NoImage]
    BY <2>1
  <2>2. CASE HandleImagePacket(s)
    <3>1. CASE UNCHANGED flash
      BY <3>1
    <3>2. CASE \E c \in air : Wanted(s, c) /\ flash' = [flash EXCEPT ![s][c.packet] = c.image]
      <4>1. PICK c \in air : Wanted(s, c) /\ flash' = [flash EXCEPT ![s][c.packet] = c.image]
        BY <3>2
      <4>2. /\ flash'[s] = [flash[s] EXCEPT ![c.packet] = c.image]
            /\ flash[s] \in [Packets -> Images \cup {NoImage}] /\ c.packet \in Packets
        BY <1>1, <4>1, CommandFields DEF IInv, TypeOK, StationsTyped
      <4>3. flash[s][c.packet] = NoImage
        <5>1. c.packet \in 0 .. totalExpectedPackets[s] - 1 /\ c.packet \notin receivedPackets[s]
          <6>1. c.packet < totalExpectedPackets[s] /\ c.packet \in Nat
            BY <4>1, <4>2 DEF Wanted, Packets
          <6>2. totalExpectedPackets[s] \in Nat
            BY <1>1 DEF IInv, TypeOK, StationsTyped
          <6>3. c.packet \notin receivedPackets[s]
            BY <4>1 DEF Wanted
          <6> QED  BY <6>1, <6>2, <6>3
        <5> QED  BY <1>1, <5>1 DEF IInv, BitmapTellsFlash
      <4>4. p # c.packet
        BY <1>1, <4>3
      <4> QED  BY <4>2, <4>4
    <3> QED  BY <2>2, <3>1, <3>2 DEF HandleImagePacket
  <2>3. CASE UNCHANGED vars \/ Go \/ Programmer \/ Expire \/ Receive
    <3>1. UNCHANGED stationVars
      BY <2>3, ProgrammerLeavesStations DEF vars
    <3> QED  BY <2>1, <3>1 DEF stationVars
  <2>4. ASSUME NEW t \in Stations, Station(t) \/ Restart(t), ~HandleImagePacket(s)
        PROVE  flash'[s] = flash[s] \/ flash'[s] = [q \in Packets |-> NoImage]
    <3>1. CASE t # s
      BY <1>1, <2>4, <3>1, StationsApart DEF IInv, TypeOK, Memory
    <3>2. CASE t = s
      <4>1. \/ HandleBegin(s) \/ HandleDownloadQuery(s) \/ HandleProgramConfirm(s)
            \/ WriteHeader(s) \/ Restart(s)
        BY <2>4, <3>2 DEF Station
      <4>2. UNCHANGED flash \/ flash' = Blanked(s)
        BY <4>1 DEF HandleBegin, HandleDownloadQuery, HandleProgramConfirm, WriteHeader, Restart,
           Blanked, stationVars
      <4>3. Blanked(s)[s] = [q \in Packets |-> NoImage]
        BY <1>1 DEF Blanked, IInv, TypeOK, StationsTyped
      <4> QED  BY <4>2, <4>3
    <3> QED  BY <3>1, <3>2
  <2> QED  BY <1>1, <2>1, <2>2, <2>3, <2>4 DEF Next
<1>2. IInv /\ [Next]_vars =>
        [\A s \in Stations, p \in Packets :
           flash[s][p] # NoImage => flash'[s][p] \in {flash[s][p], NoImage}]_vars
  BY <1>1
<1> QED  BY Invariance, <1>2, PTL DEF Spec, NeverOverwritten

-----------------------------------------------------------------------------
(* A restart with a complete header installs the whole image; every other  *)
(* step of a station leaves its program alone.                             *)
LEMMA RestartInstalls ==
  ASSUME IInv, NEW s \in Stations, Restart(s)
  PROVE  (\E i \in Images : Promise!Install(s, i)) \/ UNCHANGED <<program, confirmed>>
<1>1. UNCHANGED confirmed
  BY DEF Restart, programmerVars
<1>2. CASE header[s].written = 4
  <2>1. /\ applying[s] /\ header[s].size = totalExpectedPackets[s]
        /\ CRCMatches(s) /\ expectedCRC[s] \in confirmed[s]
    BY <1>2 DEF IInv, HeaderForWatchdog, AppliesWhole
  <2>2. PICK i \in Images : i = expectedCRC[s]
    BY <2>1 DEF CRCMatches, IInv, TypeOK, StationsTyped
  <2>3. header[s].size = PacketCount[i] /\ \A p \in PacketsOf(i) : flash[s][p] = i
    BY <2>1, <2>2 DEF CRCMatches, IInv, ExpectsAnImage
  <2>4. InFlash(s) = Whole(i)
    BY <2>3 DEF InFlash, Whole, PacketsOf
  <2>5. program' = [program EXCEPT ![s] = Whole(i)]
    BY <1>2, <2>4 DEF Restart
  <2>6. Promise!Install(s, i)
    BY <1>1, <2>1, <2>2, <2>5 DEF Promise!Install
  <2> QED  BY <2>6
<1>3. CASE header[s].written # 4
  BY <1>1, <1>3 DEF Restart
<1> QED  BY <1>2, <1>3

(* Remote programming keeps the promise of Firmware: a station runs all of *)
(* an image that it was told to install, or what it was built with.        *)
THEOREM InstallsWhole == Spec => Installs
<1>1. Init => Promise!Init
  BY DEF Init, Promise!Init
<1>2. IInv /\ [Next]_vars => [Promise!Next]_<<program, confirmed>>
  <2> SUFFICES ASSUME IInv, [Next]_vars
               PROVE  [Promise!Next]_<<program, confirmed>>
    OBVIOUS
  <2>1. CASE Confirm
    <3>1. at \in Stations /\ image \in Images
      BY DEF IInv, TypeOK, ProgrammerTyped
    <3>2. Promise!Confirm(at, image)
      BY <2>1 DEF Confirm, Promise!Confirm, stationVars
    <3> QED  BY <3>1, <3>2 DEF Promise!Next
  <2>2. ASSUME NEW s \in Stations, Restart(s)
        PROVE  [Promise!Next]_<<program, confirmed>>
    BY <2>2, RestartInstalls DEF Promise!Next
  <2>3. ASSUME NEW s \in Stations, Station(s)
        PROVE  UNCHANGED <<program, confirmed>>
    BY <2>3 DEF Station, HandleBegin, HandleImagePacket, HandleDownloadQuery,
       HandleProgramConfirm, WriteHeader, stationVars, programmerVars
  <2>4. CASE UNCHANGED vars \/ Go \/ (Programmer /\ ~Confirm) \/ Expire \/ Receive
    BY <2>4 DEF vars, stationVars, programmerVars, Go, Programmer, Expire, Receive,
       InitUpload, NoteInit, AllAcknowledged, InitTimesOut, GiveUp, BulkUpload, BulkUploaded,
       Query, NoteQuery, AskAgain, LookAtResponse, SendMissing, NoteSend, NextPacket, AllSent
  <2> QED  BY <2>1, <2>2, <2>3, <2>4 DEF Next
<1> QED  BY <1>1, <1>2, Invariance, PTL DEF Spec, Installs, Promise!Spec

-----------------------------------------------------------------------------
(***************************************************************************)
(* What the programmer may rely on when it is done with a station.         *)
(*                                                                         *)
(* The answer it acts on tells what was in the flash when the station gave *)
(* it.  Nothing erases the flash between: the commands that could, those   *)
(* that begin an upload and the confirmations of an earlier one, are too   *)
(* old to be on their way when the programmer asks, because it has sent    *)
(* all the packets of the image since.                                     *)
(***************************************************************************)
Asking == {"query", "querySent", "queryWait", "send", "sendSent", "sendWait"}
JustSent == {"querySent", "sendSent"}
Beginning == {"init", "initSent", "initWait"}

(* The commands on their way that make a station erase its flash.          *)
Clearing == {c \in air : c.kind \in {"B", "C"}}

(* The station has all of the image and does not apply it.                 *)
There(s) == ~applying[s] /\ \A p \in PacketsOf(image) : flash[s][p] = image

(* The body of an answer says so.                                          *)
Says(body) == \E r \in body : r.crcMatch /\ r.crc = image

(* A reply that the programmer takes for an answer, or will.               *)
Trusted(m) ==
  /\ m.from = at
  /\ m.ago = lastUniqueID \/ (m.ago = 0 /\ phase \in JustSent)

FreshInv == phase \notin Asking => lastUniqueID = NoUID /\ lastResponse = {}
StartInv == phase \in Beginning => packet = 0
AgedInv ==
  /\ phase = "bulk" => \A c \in Clearing : c.ago >= packet
  /\ (phase \in Asking /\ Clearing # {}) =>
       /\ phase = "query" /\ lastUniqueID = NoUID /\ lastResponse = {}
       /\ \A c \in Clearing : c.ago >= PacketCount[image]
AnswerInv == phase \in Asking =>
  /\ \A m \in replies : Trusted(m) /\ Says(m.body) => There(at)
  /\ Says(lastResponse) => There(at)

QueryInv == FreshInv /\ StartInv /\ AgedInv /\ AnswerInv

(* A command, or its answer, is no later than the packets of an image.     *)
Prompt == \A i \in Images : MaxDelay <= PacketCount[i]

LEMMA QueryInit == Init => QueryInv
BY DEF Init, QueryInv, FreshInv, StartInv, AgedInv, AnswerInv, Asking, Beginning

(* The phases of the actions that do not ask, and those of the others.     *)
LEMMA FreshStep ==
  ASSUME FreshInv, StartInv, [Next]_vars
  PROVE  FreshInv' /\ StartInv'
<1> USE DEF FreshInv, StartInv, Asking, Beginning
<1>1. CASE Go \/ InitUpload \/ NoteInit
  BY <1>1 DEF Go, InitUpload, NoteInit, waitVars
<1>2. CASE AllAcknowledged \/ InitTimesOut \/ GiveUp \/ Expire
  BY <1>2 DEF AllAcknowledged, InitTimesOut, GiveUp, Expire, FreshLocals, waitVars
<1>3. CASE BulkUpload \/ BulkUploaded \/ Confirm
  BY <1>3 DEF BulkUpload, BulkUploaded, Confirm, waitVars
<1>4. CASE Query \/ NoteQuery \/ AskAgain \/ SendMissing \/ NoteSend \/ NextPacket \/ AllSent
  BY <1>4 DEF Query, NoteQuery, AskAgain, SendMissing, NoteSend, NextPacket, AllSent
<1>5. CASE LookAtResponse
  BY <1>5 DEF LookAtResponse, FreshLocals
<1>6. CASE Receive
  <2>1. UNCHANGED <<phase, packet>>
    BY <1>6 DEF Receive
  <2>2. phase \notin Asking => UNCHANGED <<lastUniqueID, lastResponse>>
    BY <1>6 DEF Receive, Received, waitVars
  <2> QED  BY <2>1, <2>2
<1>7. CASE UNCHANGED programmerVars
  BY <1>7 DEF programmerVars, waitVars
<1> QED  BY <1>1, <1>2, <1>3, <1>4, <1>5, <1>6, <1>7, StationLeavesProgrammer
            DEF Next, Programmer, vars

(* Where the clearing commands on their way come from.                     *)
LEMMA ClearingSends ==
  ASSUME RadioTyped, NEW kind, kind \notin {"B", "C"}, NEW p, NEW targets,
         Sends(kind, p, targets), NEW c \in Clearing'
  PROVE  \E d \in Clearing : d.ago < MaxDelay /\ c.ago = d.ago + 1
<1>1. c \in air' /\ c.kind \in {"B", "C"}
  BY DEF Clearing
<1>2. c \in OneOlder(air)
  BY <1>1 DEF Sends
<1>3. PICK d \in air : d.ago < MaxDelay /\ c = [d EXCEPT !.ago = @ + 1]
  BY <1>2 DEF OneOlder
<1>4. d \in Commands
  BY CommandFields
<1>5. c.ago = d.ago + 1 /\ c.kind = d.kind
  BY <1>3, <1>4 DEF Commands
<1> QED  BY <1>1, <1>3, <1>5 DEF Clearing

LEMMA ClearingHeard ==
  ASSUME RadioTyped, NEW s \in Stations, NEW d \in air, Hears(s, d), NEW c \in Clearing'
  PROVE  \E e \in Clearing : e.ago = c.ago
<1>1. c \in air' /\ c.kind \in {"B", "C"}
  BY DEF Clearing
<1>2. CASE c \in air
  BY <1>1, <1>2 DEF Clearing
<1>3. CASE c \notin air
  <2>1. c = [d EXCEPT !.to = d.to \ {s}]
    BY <1>1, <1>3 DEF Hears
  <2>2. d \in Commands
    BY CommandFields
  <2>3. c.ago = d.ago /\ c.kind = d.kind
    BY <2>1, <2>2 DEF Commands
  <2> QED  BY <1>1, <2>3 DEF Clearing
<1> QED  BY <1>2, <1>3

LEMMA ClearingByStations ==
  ASSUME RadioTyped, NEW s \in Stations, Station(s) \/ Restart(s), NEW c \in Clearing'
  PROVE  \E e \in Clearing : e.ago = c.ago
<1>1. UNCHANGED air \/ \E d \in air : Hears(s, d)
  BY DEF Station, HandleBegin, HandleImagePacket, HandleDownloadQuery,
     HandleProgramConfirm, WriteHeader, Restart
<1>2. CASE UNCHANGED air
  BY <1>2 DEF Clearing
<1>3. CASE \E d \in air : Hears(s, d)
  BY <1>3, ClearingHeard
<1> QED  BY <1>1, <1>2, <1>3

LEMMA AgedStep ==
  ASSUME Prompt, IInv, FreshInv, StartInv, AgedInv, [Next]_vars
  PROVE  AgedInv'
<1>1. /\ RadioTyped /\ image \in Images /\ packet \in Nat /\ MaxDelay \in Nat
      /\ PacketCount[image] \in Nat /\ MaxDelay <= PacketCount[image]
      /\ \A c \in Clearing : c.ago \in 0 .. MaxDelay
  <2>1. RadioTyped /\ image \in Images /\ packet \in 0 .. MaxPacketCount
    BY DEF IInv, TypeOK, ProgrammerTyped
  <2>2. \A c \in Clearing : c.ago \in 0 .. MaxDelay
    BY <2>1, CommandFields DEF Clearing
  <2> QED  BY <2>1, <2>2, PacketCounts, BoundsAssumption DEF Prompt
<1>2. ASSUME phase' # "bulk", phase' \notin Asking
      PROVE  AgedInv'
  BY <1>2 DEF AgedInv
<1>3. ASSUME phase' # "bulk", Clearing' = {}
      PROVE  AgedInv'
  BY <1>3 DEF AgedInv
<1>4. CASE Go \/ InitUpload \/ NoteInit \/ InitTimesOut \/ GiveUp \/ Confirm
  BY <1>2, <1>4 DEF Go, InitUpload, NoteInit, InitTimesOut, GiveUp, Confirm, Asking
<1>5. CASE AllAcknowledged
  <2>1. phase' = "bulk" /\ packet' = 0 /\ Clearing' = Clearing
    BY <1>5 DEF AllAcknowledged, StartInv, Beginning, Clearing
  <2> QED  BY <1>1, <2>1 DEF AgedInv, Asking
<1>6. CASE BulkUpload
  <2>1. phase = "bulk" /\ phase' = "bulk" /\ packet' = packet + 1
    BY <1>6 DEF BulkUpload
  <2>2. \A c \in Clearing' : \E d \in Clearing : c.ago = d.ago + 1
    BY <1>1, <1>6, ClearingSends DEF BulkUpload
  <2> QED  BY <1>1, <2>1, <2>2 DEF AgedInv, Asking
<1>7. CASE BulkUploaded
  <2>1. /\ phase = "bulk" /\ phase' = "query" /\ packet = PacketCount[image] /\ image' = image
        /\ Clearing' = Clearing /\ UNCHANGED <<lastUniqueID, lastResponse>>
    BY <1>7 DEF BulkUploaded, Clearing, waitVars
  <2>2. lastUniqueID = NoUID /\ lastResponse = {}
    BY <2>1 DEF FreshInv, Asking
  <2> QED  BY <2>1, <2>2 DEF AgedInv
<1>8. CASE Query \/ SendMissing
  <2>1. phase \in Asking /\ phase' # "bulk"
    BY <1>8 DEF Query, SendMissing, Asking
  <2>2. \A c \in Clearing' : \E d \in Clearing : d.ago < MaxDelay
    BY <1>1, <1>8, ClearingSends DEF Query, SendMissing
  <2>3. Clearing' = {}
    <3> SUFFICES ASSUME NEW c \in Clearing' PROVE FALSE
      OBVIOUS
    <3>1. PICK d \in Clearing : d.ago < MaxDelay
      BY <2>2
    <3>2. d.ago >= PacketCount[image]
      BY <2>1 DEF AgedInv
    <3> QED  BY <1>1, <3>1, <3>2
  <2> QED  BY <1>3, <2>1, <2>3
<1>9. CASE NoteQuery \/ AskAgain \/ LookAtResponse \/ NoteSend \/ NextPacket \/ AllSent
  <2>1. phase \in Asking \ {"query"} /\ phase' # "bulk" /\ Clearing' = Clearing
    BY <1>9 DEF NoteQuery, AskAgain, LookAtResponse, NoteSend, NextPacket, AllSent, Asking,
       Clearing
  <2> QED  BY <1>3, <2>1 DEF AgedInv
<1>10. CASE Receive
  <2>1. Clearing' = Clearing /\ UNCHANGED <<phase, packet, image>>
    BY <1>10 DEF Receive, Clearing
  <2>2. (phase = "query" /\ lastUniqueID = NoUID) => UNCHANGED <<lastUniqueID, lastResponse>>
    <3>1. PICK m \in replies : Received(m)
      BY <1>10 DEF Receive
    <3>2. m.ago # NoUID
      BY <1>1 DEF RadioTyped, Replies, NoUID
    <3> QED  BY <3>1, <3>2 DEF Received
  <2> QED  BY <2>1, <2>2 DEF AgedInv
<1>11. CASE Expire \/ UNCHANGED vars
  BY <1>11 DEF Expire, vars, programmerVars, waitVars, AgedInv, Clearing
<1>12. ASSUME NEW s \in Stations, Station(s) \/ Restart(s)
       PROVE  AgedInv'
  <2>1. UNCHANGED <<phase, packet, image, lastUniqueID, lastResponse>>
    BY <1>12, StationLeavesProgrammer DEF programmerVars, waitVars
  <2>2. \A c \in Clearing' : \E e \in Clearing : e.ago = c.ago
    BY <1>1, <1>12, ClearingByStations
  <2> QED  BY <2>1, <2>2 DEF AgedInv
<1> QED  BY <1>4, <1>5, <1>6, <1>7, <1>8, <1>9, <1>10, <1>11, <1>12 DEF Next, Programmer

(* While nothing on its way clears a flash, a station that has all of the  *)
(* image keeps it.                                                         *)
LEMMA ThereStays ==
  ASSUME IInv, [Next]_vars, NEW s \in Stations, There(s), phase \in Asking, Clearing = {}
  PROVE  There(s)'
<1>1. UNCHANGED image
  BY StationLeavesProgrammer DEF Next, vars, programmerVars, Go, Programmer, Expire, Receive,
     InitUpload, NoteInit, AllAcknowledged, InitTimesOut, GiveUp, BulkUpload, BulkUploaded,
     Query, NoteQuery, AskAgain, LookAtResponse, SendMissing, NoteSend, NextPacket, AllSent,
     Confirm, Asking
<1>2. image \in Images /\ StationsTyped /\ RadioTyped
  BY DEF IInv, TypeOK, ProgrammerTyped
<1>3. ASSUME Memory(s)' = Memory(s)
      PROVE  There(s)'
  BY <1>1, <1>3 DEF Memory, There
<1>4. CASE UNCHANGED vars \/ Go \/ Programmer \/ Expire \/ Receive
  <2>1. UNCHANGED stationVars
    BY <1>4, ProgrammerLeavesStations DEF vars
  <2> QED  BY <1>3, <2>1 DEF stationVars, ramVars, Memory
<1>5. ASSUME NEW t \in Stations \ {s}, Station(t) \/ Restart(t)
      PROVE  There(s)'
  BY <1>2, <1>3, <1>5, StationsApart
<1>6. CASE HandleBegin(s) \/ HandleProgramConfirm(s)
  <2>1. \E c \in air : c.kind \in {"B", "C"}
    BY <1>6 DEF HandleBegin, HandleProgramConfirm
  <2> QED  BY <2>1 DEF Clearing
<1>7. CASE HandleImagePacket(s)
  <2>1. UNCHANGED applying
    BY <1>7 DEF HandleImagePacket
  <2>2. ASSUME NEW p \in PacketsOf(image)
        PROVE  flash'[s][p] = flash[s][p]
    <3>1. PICK c \in air : IF Wanted(s, c) THEN flash' = [flash EXCEPT ![s][c.packet] = c.image]
                                          ELSE UNCHANGED flash
      BY <1>7 DEF HandleImagePacket
    <3>2. CASE ~Wanted(s, c)
      BY <3>1, <3>2
    <3>3. CASE Wanted(s, c)
      <4>1. /\ flash[s] \in [Packets -> Images \cup {NoImage}] /\ c.packet \in Packets
            /\ totalExpectedPackets[s] \in Nat
        BY <1>2, CommandFields DEF StationsTyped
      <4>2. flash'[s] = [flash[s] EXCEPT ![c.packet] = c.image]
        BY <1>2, <3>1, <3>3 DEF StationsTyped
      <4>3. c.packet \in 0 .. totalExpectedPackets[s] - 1 /\ c.packet \notin receivedPackets[s]
        BY <3>3, <4>1 DEF Wanted, Packets
      <4>4. flash[s][c.packet] = NoImage
        BY <4>3 DEF IInv, BitmapTellsFlash
      <4>5. p # c.packet
        BY <1>2, <4>4, PacketCounts DEF There
      <4> QED  BY <4>1, <4>2, <4>5
    <3> QED  BY <3>2, <3>3
  <2> QED  BY <1>1, <2>1, <2>2 DEF There
<1>8. CASE HandleDownloadQuery(s)
  BY <1>3, <1>8 DEF HandleDownloadQuery, stationVars, ramVars, Memory
<1>9. CASE WriteHeader(s)
  BY <1>9 DEF WriteHeader, There
<1>10. CASE Restart(s)
  <2>1. header[s].written # 4
    BY DEF There, IInv, HeaderForWatchdog
  <2>2. UNCHANGED flash /\ ~applying'[s]
    BY <1>2, <1>10, <2>1 DEF Restart, StationsTyped
  <2> QED  BY <1>1, <2>2 DEF There
<1> QED  BY <1>4, <1>5, <1>6, <1>7, <1>8, <1>9, <1>10 DEF Next, Station

(* No reply is taken for an answer before the first query has been noted.  *)
LEMMA NothingCounts ==
  ASSUME RadioTyped', lastUniqueID' = NoUID, lastResponse' = {}, phase' \notin JustSent
  PROVE  AnswerInv'
<1>1. \A m \in replies' : m.ago # NoUID
  BY BoundsAssumption DEF RadioTyped, Replies, NoUID
<1> QED  BY <1>1 DEF AnswerInv, Trusted, Says

(* What leaves makes every reply one command older, as the programmer      *)
(* notes.                                                                  *)
LEMMA AskingSends ==
  ASSUME IInv, AnswerInv, Query \/ SendMissing
  PROVE  AnswerInv'
<1>1. /\ phase \in Asking /\ replies' = OneOlder(replies) /\ lastUniqueID' = Older(lastUniqueID)
      /\ UNCHANGED <<at, image, lastResponse>> /\ UNCHANGED stationVars
  BY DEF Query, SendMissing, Sends, Asking
<1>2. There(at)' <=> There(at)
  BY <1>1 DEF There, stationVars
<1>3. ASSUME NEW m \in replies', Trusted(m)', Says(m.body)'
      PROVE  There(at)
  <2>1. PICK n \in replies : n.ago < MaxDelay /\ m = [n EXCEPT !.ago = @ + 1]
    BY <1>1 DEF OneOlder
  <2>2. n \in Replies /\ lastUniqueID \in 0 .. NoUID
    BY DEF IInv, TypeOK, RadioTyped, ProgrammerTyped
  <2>3. m.ago = n.ago + 1 /\ m.from = n.from /\ m.body = n.body /\ n.ago \in Nat
    BY <2>1, <2>2 DEF Replies
  <2>4. m.from = at /\ m.ago = Older(lastUniqueID)
    BY <1>1, <1>3, <2>3 DEF Trusted
  <2>5. n.ago = lastUniqueID
    BY <2>1, <2>2, <2>3, <2>4, BoundsAssumption DEF Older, NoUID
  <2>6. Says(n.body)
    BY <1>1, <1>3, <2>3 DEF Says
  <2>7. Trusted(n)
    BY <2>3, <2>4, <2>5 DEF Trusted
  <2> QED  BY <1>1, <2>6, <2>7 DEF AnswerInv
<1>4. Says(lastResponse)' => There(at)
  BY <1>1 DEF Says, AnswerInv
<1> QED  BY <1>2, <1>3, <1>4, Zenon DEF AnswerInv

(* The steps of the programmer in which nothing leaves or comes.           *)
LEMMA AskingSteps ==
  ASSUME AnswerInv, phase \in Asking, phase' \in Asking,
         UNCHANGED <<stationVars, at, image, replies, lastResponse>>,
         \A m \in replies : Trusted(m)' => Trusted(m)
  PROVE  AnswerInv'
<1>1. There(at)' <=> There(at)
  BY DEF There, stationVars
<1>2. \A body : Says(body)' => Says(body)
  BY DEF Says
<1>3. Says(lastResponse)' => Says(lastResponse)
  BY DEF Says
<1> QED  BY <1>1, <1>2, <1>3 DEF AnswerInv

LEMMA AskingReceives ==
  ASSUME AnswerInv, phase \in Asking, Receive
  PROVE  AnswerInv'
<1>1. PICK m \in replies : Received(m) /\ replies' \in {replies, replies \ {m}}
  BY DEF Receive
<1>2. UNCHANGED <<stationVars, phase, image, at>>
  BY DEF Receive
<1>3. lastUniqueID' = lastUniqueID
      /\ \/ lastResponse' = lastResponse
         \/ m.ago = lastUniqueID /\ m.from = at /\ lastResponse' = m.body
  BY <1>1 DEF Received, Asking
<1>4. There(at)' <=> There(at)
  BY <1>2 DEF There, stationVars
<1>5. ASSUME NEW n \in replies', Trusted(n)', Says(n.body)'
      PROVE  There(at)
  <2>1. n \in replies /\ Trusted(n) /\ Says(n.body)
    BY <1>1, <1>2, <1>3, <1>5 DEF Trusted, Says
  <2> QED  BY <2>1 DEF AnswerInv
<1>6. ASSUME Says(lastResponse)'
      PROVE  There(at)
  <2>1. CASE lastResponse' = lastResponse
    <3>1. Says(lastResponse)
      BY <1>2, <1>6, <2>1 DEF Says
    <3> QED  BY <3>1 DEF AnswerInv
  <2>2. CASE m.ago = lastUniqueID /\ m.from = at /\ lastResponse' = m.body
    <3>1. Says(m.body) /\ Trusted(m)
      BY <1>2, <1>6, <2>2 DEF Says, Trusted
    <3> QED  BY <3>1 DEF AnswerInv
  <2> QED  BY <1>3, <2>1, <2>2
<1> QED  BY <1>4, <1>5, <1>6, Zenon DEF AnswerInv

(* What a station answers is so when it answers.                           *)
LEMMA NewAnswers ==
  ASSUME IInv, NEW s \in Stations, Station(s) \/ Restart(s),
         NEW m \in replies', m \notin replies, Says(m.body)'
  PROVE  m.from = s /\ There(s)'
<1>1. UNCHANGED image
  BY StationLeavesProgrammer DEF programmerVars
<1>2. Says(m.body)
  BY <1>1 DEF Says
<1>3. ASSUME NEW c \in air, NEW ok, Answers(s, c, ok, {})
      PROVE  FALSE
  <2>1. m = [ago |-> c.ago, from |-> s, ok |-> ok, body |-> {}]
    BY <1>3 DEF Answers
  <2> QED  BY <1>2, <2>1 DEF Says
<1>4. HandleDownloadQuery(s)
  BY <1>3 DEF Station, HandleBegin, HandleImagePacket, HandleProgramConfirm, WriteHeader, Restart
<1> DEFINE state == [crc |-> expectedCRC[s], total |-> totalExpectedPackets[s],
                     allThere |-> IsItAllHere(s),
                     crcMatch |-> IsItAllHere(s) /\ CRCMatches(s),
                     received |-> receivedPackets[s]]
<1>5. PICK c \in air : ~applying[s] /\ Answers(s, c, TRUE, {state})
  BY <1>4 DEF HandleDownloadQuery, Hears
<1>6. state.crcMatch = (IsItAllHere(s) /\ CRCMatches(s)) /\ state.crc = expectedCRC[s]
  BY Zenon
<1> HIDE DEF state
<1>7. m = [ago |-> c.ago, from |-> s, ok |-> TRUE, body |-> {state}]
  BY <1>5 DEF Answers
<1>8. m.from = s /\ state.crcMatch /\ state.crc = image
  BY <1>2, <1>7 DEF Says
<1>9. CRCMatches(s) /\ expectedCRC[s] = image
  BY <1>6, <1>8, Zenon
<1>10. There(s)
  BY <1>5, <1>9 DEF There, CRCMatches
<1>11. UNCHANGED stationVars
  BY <1>4 DEF HandleDownloadQuery
<1> QED  BY <1>1, <1>8, <1>10, <1>11 DEF There, stationVars

LEMMA AskingStations ==
  ASSUME IInv, AgedInv, AnswerInv, [Next]_vars, phase \in Asking,
         NEW s \in Stations, Station(s) \/ Restart(s)
  PROVE  AnswerInv'
<1>1. UNCHANGED <<phase, at, image, lastUniqueID, lastResponse>>
  BY StationLeavesProgrammer DEF programmerVars, waitVars
<1>2. at \in Stations /\ RadioTyped
  BY DEF IInv, TypeOK, ProgrammerTyped
<1>3. CASE Clearing # {}
  <2>1. phase = "query" /\ lastUniqueID = NoUID /\ lastResponse = {}
    BY <1>3 DEF AgedInv
  <2>2. RadioTyped'
    BY NextInv DEF IInv, TypeOK
  <2> QED  BY <1>1, <2>1, <2>2, NothingCounts DEF JustSent
<1>4. CASE Clearing = {}
  <2>1. There(at) => There(at)'
    <3>1. There(at) => /\ ~applying'[at]
                       /\ \A p \in PacketsOf(image') : flash'[at][p] = image'
      BY <1>2, <1>4, ThereStays DEF There
    <3> QED  BY <1>1, <3>1 DEF There
  <2>2. ASSUME NEW m \in replies', Trusted(m)', Says(m.body)'
        PROVE  There(at)'
    <3>1. CASE m \in replies
      <4>1. Trusted(m) /\ Says(m.body)
        BY <1>1, <2>2 DEF Trusted, Says
      <4> QED  BY <2>1, <3>1, <4>1 DEF AnswerInv
    <3>2. CASE m \notin replies
      <4>1. m.from = s /\ ~applying'[s] /\ \A p \in PacketsOf(image') : flash'[s][p] = image'
        BY <2>2, <3>2, NewAnswers DEF There
      <4>2. s = at'
        BY <2>2, <4>1 DEF Trusted
      <4> QED  BY <4>1, <4>2 DEF There
    <3> QED  BY <3>1, <3>2
  <2>3. Says(lastResponse)' => There(at)'
    <3>1. Says(lastResponse)' => Says(lastResponse)
      BY <1>1 DEF Says
    <3> QED  BY <2>1, <3>1 DEF AnswerInv
  <2> QED  BY <2>2, <2>3, Zenon DEF AnswerInv
<1> QED  BY <1>3, <1>4

LEMMA AnswerStep ==
  ASSUME IInv, FreshInv, AgedInv, AnswerInv, [Next]_vars
  PROVE  AnswerInv'
<1>1. ASSUME phase' \notin Asking
      PROVE  AnswerInv'
  BY <1>1 DEF AnswerInv
<1>2. RadioTyped'
  BY NextInv DEF IInv, TypeOK
<1>3. CASE Go \/ InitUpload \/ NoteInit \/ AllAcknowledged \/ InitTimesOut \/ GiveUp
           \/ BulkUpload \/ Confirm
  BY <1>1, <1>3 DEF Go, InitUpload, NoteInit, AllAcknowledged, InitTimesOut, GiveUp, BulkUpload,
     Confirm, Asking
<1>4. CASE BulkUploaded
  <2>1. lastUniqueID' = NoUID /\ lastResponse' = {} /\ phase' \notin JustSent
    BY <1>4 DEF BulkUploaded, FreshInv, Asking, JustSent, waitVars
  <2> QED  BY <1>2, <2>1, NothingCounts
<1>5. CASE Query \/ SendMissing
  BY <1>5, AskingSends
<1>6. CASE NoteQuery \/ NoteSend
  <2>1. /\ phase \in JustSent /\ phase' \in Asking \ JustSent /\ lastUniqueID' = 0
        /\ UNCHANGED <<stationVars, at, image, replies, lastResponse>>
    BY <1>6 DEF NoteQuery, NoteSend, JustSent, Asking
  <2>2. \A m \in replies : Trusted(m)' => Trusted(m)
    BY <2>1 DEF Trusted
  <2> QED  BY <2>1, <2>2, AskingSteps DEF JustSent, Asking
<1>7. CASE AskAgain \/ NextPacket \/ AllSent \/ UNCHANGED vars \/ Expire
  <2>1. /\ phase' \in JustSent => phase \in JustSent
        /\ phase \in Asking \/ phase' \notin Asking
        /\ UNCHANGED <<stationVars, at, image, replies, lastResponse, lastUniqueID>>
    BY <1>7 DEF AskAgain, NextPacket, AllSent, Expire, vars, programmerVars, waitVars, JustSent,
       Asking
  <2>2. \A m \in replies : Trusted(m)' => Trusted(m)
    BY <2>1 DEF Trusted
  <2> QED  BY <1>1, <2>1, <2>2, AskingSteps
<1>8. CASE LookAtResponse
  <2>1. phase = "queryWait" /\ UNCHANGED <<stationVars, image, replies>>
    BY <1>8 DEF LookAtResponse
  <2>2. CASE phase' \in {"query", "failed", "confirm"} /\ FreshLocals
    BY <1>2, <2>2, NothingCounts DEF FreshLocals, JustSent
  <2>3. CASE phase' = "send" /\ UNCHANGED <<at, lastUniqueID, lastResponse>>
    <3>1. \A m \in replies : Trusted(m)' => Trusted(m)
      BY <2>3 DEF Trusted, JustSent
    <3> QED  BY <2>1, <2>3, <3>1, AskingSteps DEF Asking
  <2> QED  BY <1>8, <2>2, <2>3 DEF LookAtResponse
<1>9. CASE Receive
  <2>1. phase' = phase
    BY <1>9 DEF Receive
  <2> QED  BY <1>1, <1>9, <2>1, AskingReceives
<1>10. ASSUME NEW s \in Stations, Station(s) \/ Restart(s)
       PROVE  AnswerInv'
  <2>1. phase' = phase
    BY <1>10, StationLeavesProgrammer DEF programmerVars
  <2> QED  BY <1>1, <1>10, <2>1, AskingStations
<1> QED  BY <1>3, <1>4, <1>5, <1>6, <1>7, <1>8, <1>9, <1>10 DEF Next, Programmer

(* While the images are as long as the radio is late, the programmer only  *)
(* trusts answers that are still true.                                     *)
THEOREM AnswersTrue ==
  ASSUME Prompt
  PROVE  Spec => []QueryInv
<1>1. Init => QueryInv
  BY QueryInit
<1>2. IInv /\ QueryInv /\ [Next]_vars => QueryInv'
  BY FreshStep, AgedStep, AnswerStep DEF QueryInv
<1> QED  BY <1>1, <1>2, Invariance, PTL DEF Spec

(* Then, when the programmer is done with a station, all of the image is   *)
(* in the flash of that station, however old the answer is that told so    *)
(* (RemoteProgrammer.cs: CompleteUploadToStationAsync returns on CRCMatch).*)
THEOREM DoneComplete ==
  ASSUME Prompt
  PROVE  Spec => DoneWhenAllThere
<1>1. ASSUME QueryInv, [Next]_vars, phase = "queryWait", phase' = "confirm" \/ at' # at
      PROVE  \A p \in PacketsOf(image) : flash[at][p] = image
  <2>1. LookAtResponse
    BY <1>1, StationLeavesProgrammer DEF Next, vars, programmerVars, Go, Programmer, Expire,
       Receive, InitUpload, NoteInit, AllAcknowledged, InitTimesOut, GiveUp, BulkUpload,
       BulkUploaded, Query, NoteQuery, AskAgain, SendMissing, NoteSend, NextPacket, AllSent,
       Confirm
  <2>2. PICK r \in lastResponse : Complete(r)
    BY <1>1, <2>1 DEF LookAtResponse
  <2>3. Says(lastResponse)
    BY <2>2 DEF Says, Complete, Expected
  <2>4. There(at)
    BY <1>1, <2>3 DEF QueryInv, AnswerInv, Asking
  <2> QED  BY <2>4 DEF There
<1>2. QueryInv /\ [Next]_vars =>
        [phase = "queryWait" /\ (phase' = "confirm" \/ at' # at) =>
           \A p \in PacketsOf(image) : flash[at][p] = image]_vars
  BY <1>1
<1> QED  BY AnswersTrue, <1>2, PTL DEF Spec, DoneWhenAllThere
=============================================================================
