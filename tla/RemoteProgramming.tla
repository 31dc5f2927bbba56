-------------------------- MODULE RemoteProgramming --------------------------
(***************************************************************************)
(* New firmware over the radio.  A programmer at the base                  *)
(* (dotNet_Receiver/RemoteProgrammer.cs) begins an upload at each station, *)
(* sends every packet once to all of them, asks each station in turn what  *)
(* it has and sends what is missing, and then confirms.  A station         *)
(* (RemoteStation/RemoteProgramming.cpp) keeps the packets in its flash    *)
(* chip and a bitmap of them in RAM; on a confirmation it writes the       *)
(* header that makes the boot loader install the image, and waits for its  *)
(* watchdog.                                                               *)
(*                                                                         *)
(* The radio loses commands and replies, delivers them late and out of     *)
(* order, and may deliver a reply twice; that a station acts on a command  *)
(* once is left to the module of the commands.  A station may restart      *)
(* between any two steps.  A CRC stands for the image it belongs to: two   *)
(* images with one CRC are outside the model.  Every packet of an image    *)
(* has the same size, so that bytesPerPacket is not kept.                  *)
(***************************************************************************)
EXTENDS Naturals, FiniteSets

CONSTANTS
  StationCount,    \* the stations of the upload
  Images,          \* the images an operator may send, each with its CRC
  NoImage,         \* the CRC of no upload, and what an erased part of the flash holds
  PacketCount,     \* how many packets an image has
  MaxPacketCount,  \* 192 in the code
  BitsPerByte,     \* 8 in the code: the bitmap is compared byte by byte
  MaxDelay         \* a command, or the reply to it, comes at most this many commands late

ASSUME StationsAssumption == StationCount \in Nat \ {0}
ASSUME ImagesAssumption ==
  /\ NoImage \notin Images
  /\ PacketCount \in [Images -> Nat \ {0}]
  /\ MaxPacketCount \in Nat
  /\ \A i \in Images : PacketCount[i] <= MaxPacketCount
ASSUME BoundsAssumption == BitsPerByte \in Nat \ {0} /\ MaxDelay \in Nat

Stations == 1 .. StationCount  \* in the order in which they are served
Packets == 0 .. MaxPacketCount - 1
PacketsOf(i) == 0 .. PacketCount[i] - 1

(* A unique ID is told by how many commands ago it was given out.          *)
NoUID == MaxDelay + 1
Older(u) == IF u < NoUID THEN u + 1 ELSE NoUID
OneOlder(M) == {[m EXCEPT !.ago = @ + 1] : m \in {n \in M : n.ago < MaxDelay}}

VARIABLES
  totalExpectedPackets, expectedCRC, receivedPackets, \* RAM of a station
  flash, header,      \* its flash chip: the packets, and the first ten bytes
  applying,           \* it writes the header, or waits for the watchdog
  program,            \* the image it runs
  phase, image, at, packet, \* the programmer's place in its code
  unIds, acks,        \* locals of InitMultiple
  cancelled,          \* its CancellationToken
  replyReceived, lastUniqueID, lastResponse, \* locals of CompleteUploadToStationAsync
  confirmed,          \* the images it has told each station to install
  air, replies        \* commands and replies on their way

ramVars == <<totalExpectedPackets, expectedCRC, receivedPackets>>
stationVars == <<ramVars, flash, header, applying, program>>
waitVars == <<replyReceived, lastUniqueID, lastResponse>>
programmerVars == <<phase, image, at, packet, unIds, acks, cancelled, waitVars, confirmed>>
vars == <<stationVars, programmerVars, air, replies>>

NoHeader == [written |-> 0, size |-> 0]

Init ==
  /\ totalExpectedPackets = [s \in Stations |-> 0]
  /\ expectedCRC = [s \in Stations |-> NoImage]
  /\ receivedPackets = [s \in Stations |-> {}]
  /\ flash = [s \in Stations |-> [p \in Packets |-> NoImage]]
  /\ header = [s \in Stations |-> NoHeader]
  /\ applying = [s \in Stations |-> FALSE]
  /\ program = [s \in Stations |-> <<>>]
  /\ phase = "idle" /\ image \in Images /\ at = 1 /\ packet = 0
  /\ unIds = [s \in Stations |-> NoUID] /\ acks = {}
  /\ cancelled = FALSE
  /\ replyReceived = FALSE /\ lastUniqueID = NoUID /\ lastResponse = {}
  /\ confirmed = [s \in Stations |-> {}]
  /\ air = {} /\ replies = {}

-----------------------------------------------------------------------------
(* A station.                                                              *)

(* The loop over the last packets, those that do not fill a byte of the    *)
(* bitmap, tests  receivedPackets & (1 << i == 0),  which is never true.   *)
IsItAllHere(s) ==
  \A p \in 0 .. totalExpectedPackets[s] - (totalExpectedPackets[s] % BitsPerByte) - 1 :
    p \in receivedPackets[s]

(* getImageCRC() == expectedCRC: all of the image is in the flash.         *)
CRCMatches(s) ==
  /\ expectedCRC[s] # NoImage
  /\ \A p \in PacketsOf(expectedCRC[s]) : flash[s][p] = expectedCRC[s]

(* A station takes a command: each that hears it takes it once.            *)
Hears(s, c) ==
  /\ s \in c.to /\ ~applying[s]
  /\ air' = (air \ {c}) \cup {[c EXCEPT !.to = t] : t \in {c.to \ {s}} \ {{}}}

(* Its answer, which the radio may lose: a set of at most one response, or *)
(* the words OK, IGNORED or a reason.                                      *)
Answers(s, c, ok, body) ==
  replies' \in {replies, replies \cup
                {[ago |-> c.ago, from |-> s, ok |-> ok, body |-> body]}}

(* resetDownload, and the erasure of the image's part of the flash.        *)
ClearedKeeps(s) == receivedPackets  \* mutant
Cleared(s) == [receivedPackets EXCEPT ![s] = {}]
BlankedNot(s) == flash  \* mutant: the block is not erased
Blanked(s) == [flash EXCEPT ![s] = [p \in Packets |-> NoImage]]

HandleBegin(s) == \E c \in air :
  /\ c.kind = "B" /\ Hears(s, c)
  /\ receivedPackets' = Cleared(s)
  /\ totalExpectedPackets' = [totalExpectedPackets EXCEPT ![s] = PacketCount[c.image]]
  /\ expectedCRC' = [expectedCRC EXCEPT ![s] = c.image]
  /\ flash' = Blanked(s)
  /\ header' = [header EXCEPT ![s] = NoHeader]
  /\ Answers(s, c, TRUE, {})
  /\ UNCHANGED <<applying, program, programmerVars>>

(* What handleImagePacket asks of a packet before it writes it.            *)
Wanted(s, c) ==
  /\ c.packet < totalExpectedPackets[s]
  /\ c.packet \notin receivedPackets[s]
  /\ c.image = expectedCRC[s]

HandleImagePacket(s) == \E c \in air :
  /\ c.kind = "I" /\ Hears(s, c)
  /\ IF Wanted(s, c)
     THEN /\ flash' = [flash EXCEPT ![s][c.packet] = c.image]
          /\ receivedPackets' = [receivedPackets EXCEPT ![s] = @ \cup {c.packet}]
     ELSE UNCHANGED <<flash, receivedPackets>>
  /\ Answers(s, c, Wanted(s, c), {})
  /\ UNCHANGED <<totalExpectedPackets, expectedCRC, header, applying, program,
                 programmerVars>>

HandleDownloadQuery(s) == \E c \in air :
  /\ c.kind = "Q" /\ Hears(s, c)
  /\ Answers(s, c, TRUE,
       {[crc |-> expectedCRC[s], total |-> totalExpectedPackets[s],
         allThere |-> IsItAllHere(s), crcMatch |-> IsItAllHere(s) /\ CRCMatches(s),
         received |-> receivedPackets[s]]})
  /\ UNCHANGED <<stationVars, programmerVars>>

MayApplyUnchecked(s, c) ==  \* mutant: the CRC of the image is not checked
  c.image = expectedCRC[s] /\ totalExpectedPackets[s] # 0 /\ IsItAllHere(s)
MayApply(s, c) ==
  /\ c.image = expectedCRC[s]
  /\ totalExpectedPackets[s] # 0
  /\ IsItAllHere(s)
  /\ CRCMatches(s)

HandleProgramConfirm(s) == \E c \in air :
  /\ c.kind = "C" /\ Hears(s, c)
  /\ applying' = [applying EXCEPT ![s] = MayApply(s, c)]
  /\ Answers(s, c, FALSE, {})
  /\ UNCHANGED <<ramVars, flash, header, program, programmerVars>>

(* The header is written in four pieces: both bytes of the size, FLXIMG:   *)
(* and the last colon.                                                     *)
WriteHeader(s) ==
  /\ applying[s] /\ header[s].written < 4
  /\ header' = [header EXCEPT ![s] = [written |-> @.written + 1,
                                     size |-> totalExpectedPackets[s]]]
  /\ UNCHANGED <<ramVars, flash, applying, program, programmerVars, air, replies>>

(* The boot loader, which is not in the repository: it installs an image   *)
(* with a complete header, as many bytes as that says, and erases it.      *)
Whole(i) == [p \in PacketsOf(i) |-> i]
InFlash(s) == [p \in 0 .. header[s].size - 1 |-> flash[s][p]]

(* Watchdog or power failure: the RAM is lost.                             *)
Restart(s) ==
  /\ totalExpectedPackets' = [totalExpectedPackets EXCEPT ![s] = 0]
  /\ expectedCRC' = [expectedCRC EXCEPT ![s] = NoImage]
  /\ receivedPackets' = [receivedPackets EXCEPT ![s] = {}]
  /\ applying' = [applying EXCEPT ![s] = FALSE]
  /\ IF header[s].written = 4
     THEN /\ program' = [program EXCEPT ![s] = InFlash(s)]
          /\ flash' = [flash EXCEPT ![s] = [p \in Packets |-> NoImage]]
          /\ header' = [header EXCEPT ![s] = NoHeader]
     ELSE UNCHANGED <<program, flash, header>>
  /\ UNCHANGED <<programmerVars, air, replies>>

-----------------------------------------------------------------------------
(* The programmer.                                                         *)

(* A command leaves; the radio chooses which stations will hear it.  What  *)
(* is on its way becomes one command older.                                *)
Sends(kind, p, targets) ==
  /\ \E heard \in SUBSET targets :
       air' = OneOlder(air) \cup
              {[ago |-> 0, kind |-> kind, image |-> image, packet |-> p, to |-> t] :
                 t \in {heard} \ {{}}}
  /\ replies' = OneOlder(replies)
  /\ unIds' = [s \in Stations |-> Older(unIds[s])]

(* The locals of CompleteUploadToStationAsync, as it begins and ends.       *)
FreshLocalsKept ==  \* mutant: the last response outlives the method
  replyReceived' = FALSE /\ lastUniqueID' = NoUID /\ UNCHANGED lastResponse
FreshLocals == replyReceived' = FALSE /\ lastUniqueID' = NoUID /\ lastResponse' = {}

(* An operator starts GoAsync.                                             *)
Go ==
  /\ phase \in {"idle", "done", "failed"}
  /\ phase' = "init" /\ image' \in Images /\ at' = 1 /\ packet' = 0
  /\ unIds' = [s \in Stations |-> NoUID] /\ acks' = {} /\ cancelled' = FALSE
  /\ UNCHANGED <<stationVars, waitVars, confirmed, air, replies>>

(* InitMultiple: the unique ID is noted after the command has left.        *)
InitUpload ==
  /\ phase = "init"
  /\ Sends("B", 0, {at})
  /\ phase' = "initSent"
  /\ UNCHANGED <<stationVars, image, at, packet, acks, cancelled, waitVars, confirmed>>

NoteInit ==
  /\ phase = "initSent"
  /\ unIds' = [unIds EXCEPT ![at] = 0]
  /\ IF at + 1 \in Stations
     THEN phase' = "init" /\ at' = at + 1
     ELSE phase' = "initWait" /\ at' = 1
  /\ UNCHANGED <<stationVars, image, packet, acks, cancelled, waitVars, confirmed, air, replies>>

AllAcknowledged ==
  /\ phase = "initWait" /\ acks = Stations
  /\ phase' = "bulk" /\ acks' = {}
  /\ UNCHANGED <<stationVars, image, at, packet, unIds, cancelled, waitVars,
                 confirmed, air, replies>>

(* The wait for the acknowledgements times out: an exception.              *)
InitTimesOut ==
  /\ phase = "initWait" /\ acks # Stations
  /\ phase' = "failed" /\ acks' = {}
  /\ UNCHANGED <<stationVars, image, at, packet, unIds, cancelled, waitVars,
                 confirmed, air, replies>>

(* The time allowed for the upload runs out; ThrowIfCancellationRequested  *)
(* sees it.                                                                *)
Expire ==
  /\ phase \in {"bulk", "query", "querySent", "queryWait", "send", "sendSent", "sendWait"}
  /\ ~cancelled /\ cancelled' = TRUE
  /\ UNCHANGED <<stationVars, phase, image, at, packet, unIds, acks, waitVars,
                 confirmed, air, replies>>

GiveUpInBulk ==  \* mutant: the loop of the queries does not look at the token
  /\ cancelled /\ phase \in {"bulk", "send"}
  /\ phase' = "failed" /\ FreshLocals
  /\ UNCHANGED <<stationVars, image, at, packet, unIds, acks, cancelled, confirmed,
                 air, replies>>
GiveUp ==
  /\ cancelled /\ phase \in {"bulk", "query", "send"}
  /\ phase' = "failed" /\ FreshLocals
  /\ UNCHANGED <<stationVars, image, at, packet, unIds, acks, cancelled, confirmed,
                 air, replies>>

(* BulkUploadToStation: the interval between two packets is the time that  *)
(* other steps take before the next.                                       *)
BulkUpload ==
  /\ phase = "bulk" /\ ~cancelled /\ packet < PacketCount[image]
  /\ Sends("I", packet, Stations)
  /\ packet' = packet + 1
  /\ UNCHANGED <<stationVars, phase, image, at, acks, cancelled, waitVars, confirmed>>


BulkUploaded ==
  /\ phase = "bulk" /\ ~cancelled /\ packet = PacketCount[image]
  /\ phase' = "query" /\ packet' = 0
  /\ UNCHANGED <<stationVars, image, at, unIds, acks, cancelled, waitVars, confirmed,
                 air, replies>>

Query ==
  /\ phase = "query" /\ ~cancelled
  /\ Sends("Q", 0, {at})
  /\ phase' = "querySent"
  /\ replyReceived' = FALSE
  /\ lastUniqueID' = Older(lastUniqueID)
  /\ UNCHANGED <<stationVars, image, at, packet, acks, cancelled, lastResponse, confirmed>>

(* Only now do replies to the query count.                                 *)
NoteQuery ==
  /\ phase = "querySent"
  /\ phase' = "queryWait" /\ lastUniqueID' = 0
  /\ UNCHANGED <<stationVars, image, at, packet, unIds, acks, cancelled, replyReceived,
                 lastResponse, confirmed, air, replies>>

(* WaitAny times out, or wakes before any response has come.               *)
AskAgain ==
  /\ phase = "queryWait"
  /\ ~replyReceived \/ lastResponse = {}
  /\ phase' = "query" /\ replyReceived' = FALSE
  /\ UNCHANGED <<stationVars, image, at, packet, unIds, acks, cancelled, lastUniqueID,
                 lastResponse, confirmed, air, replies>>

(* WaitAny wakes up for a reply or for the end of the time, and the last   *)
(* response is looked at.                                                  *)
Expected(r) == r.crc = image /\ r.total = PacketCount[image]
Complete(r) == Expected(r) /\ r.allThere /\ r.crcMatch
Missing(r) == PacketsOf(image) \ r.received
Hopeless(r) ==
  \/ ~Expected(r)
  \/ r.allThere /\ ~r.crcMatch
  \/ ~r.allThere /\ Missing(r) = {}

LookAtResponse == \E r \in lastResponse :
  /\ phase = "queryWait" /\ (replyReceived \/ cancelled)
  /\ \/ Hopeless(r) /\ phase' = "failed" /\ FreshLocals /\ UNCHANGED at
     \/ Complete(r) /\ at + 1 \in Stations /\ phase' = "query" /\ at' = at + 1 /\ FreshLocals
     \/ Complete(r) /\ at + 1 \notin Stations /\ phase' = "confirm" /\ at' = 1 /\ FreshLocals
     \/ /\ ~Hopeless(r) /\ ~Complete(r)
        /\ phase' = "send" /\ replyReceived' = FALSE
        /\ UNCHANGED <<at, lastUniqueID, lastResponse>>
  /\ UNCHANGED <<stationVars, image, packet, unIds, acks, cancelled, confirmed, air, replies>>

(* The loop over the packets the station has not.                          *)
SendMissing == \E r \in lastResponse :
  /\ phase = "send" /\ ~cancelled
  /\ \E p \in Missing(r) :
       /\ p >= packet /\ \A q \in Missing(r) : q >= packet => p <= q
       /\ packet' = p
  /\ Sends("I", packet', {at})
  /\ phase' = "sendSent" /\ lastUniqueID' = Older(lastUniqueID)
  /\ UNCHANGED <<stationVars, image, at, acks, cancelled, replyReceived, lastResponse, confirmed>>

NoteSend ==
  /\ phase = "sendSent"
  /\ phase' = "sendWait" /\ lastUniqueID' = 0 /\ replyReceived' = FALSE
  /\ UNCHANGED <<stationVars, image, at, packet, unIds, acks, cancelled, lastResponse,
                 confirmed, air, replies>>

(* A reply has come, or the interval is over.                              *)
NextPacket ==
  /\ phase = "sendWait"
  /\ phase' = "send" /\ packet' = packet + 1 /\ replyReceived' = FALSE
  /\ UNCHANGED <<stationVars, image, at, unIds, acks, cancelled, lastUniqueID, lastResponse,
                 confirmed, air, replies>>

AllSent == \E r \in lastResponse :
  /\ phase = "send"
  /\ \A p \in Missing(r) : p < packet
  /\ phase' = "query" /\ packet' = 0
  /\ UNCHANGED <<stationVars, image, at, unIds, acks, cancelled, waitVars,
                 confirmed, air, replies>>

(* ConfirmProgramming does not wait for an answer.                         *)
Confirm ==
  /\ phase = "confirm"
  /\ Sends("C", 0, {at})
  /\ confirmed' = [confirmed EXCEPT ![at] = @ \cup {image}]
  /\ IF at + 1 \in Stations THEN phase' = phase /\ at' = at + 1
                           ELSE phase' = "done" /\ at' = 1
  /\ UNCHANGED <<stationVars, image, packet, acks, cancelled, waitVars>>

(* packetReceived, in the thread of the communicator.                      *)
Received(m) ==
  \/ /\ phase \in {"init", "initSent", "initWait"}
     /\ acks' = acks \cup {s \in {m.from} : m.ok /\ unIds[s] = m.ago}
     /\ UNCHANGED waitVars
  \/ /\ phase \in {"query", "querySent", "queryWait", "send", "sendSent", "sendWait"}
     /\ IF m.ago = lastUniqueID /\ m.from = at
        THEN /\ lastResponse' = IF m.body = {} THEN lastResponse ELSE m.body
             /\ replyReceived' = TRUE
        ELSE UNCHANGED <<lastResponse, replyReceived>>
     /\ UNCHANGED <<acks, lastUniqueID>>
  \/ /\ phase \in {"idle", "bulk", "confirm", "done", "failed"}
     /\ UNCHANGED <<acks, waitVars>>

(* A reply arrives; another copy of it may be on its way by a relay.       *)
Receive == \E m \in replies :
  /\ Received(m)
  /\ replies' \in {replies, replies \ {m}}
  /\ UNCHANGED <<stationVars, phase, image, at, packet, unIds, cancelled, confirmed, air>>

Programmer ==
  \/ InitUpload \/ NoteInit \/ AllAcknowledged \/ InitTimesOut \/ GiveUp
  \/ BulkUpload \/ BulkUploaded \/ Query \/ NoteQuery \/ AskAgain \/ LookAtResponse
  \/ SendMissing \/ NoteSend \/ NextPacket \/ AllSent \/ Confirm

Station(s) ==
  \/ HandleBegin(s) \/ HandleImagePacket(s) \/ HandleDownloadQuery(s)
  \/ HandleProgramConfirm(s) \/ WriteHeader(s)

Next ==
  \/ Go \/ Programmer \/ Expire \/ Receive
  \/ \E s \in Stations : Station(s) \/ Restart(s)

Spec == Init /\ [][Next]_vars

(* The programmer's thread runs on, and its time runs out.                 *)
FairSpec == Spec /\ WF_vars(Programmer) /\ WF_vars(Expire)

-----------------------------------------------------------------------------
Commands == [ago : 0 .. MaxDelay, kind : {"B", "I", "Q", "C"}, image : Images,
             packet : Packets, to : (SUBSET Stations) \ {{}}]
Responses == [crc : Images \cup {NoImage}, total : 0 .. MaxPacketCount,
              allThere : BOOLEAN, crcMatch : BOOLEAN, received : SUBSET Packets]
AtMostOne(S) == {{}} \cup {{x} : x \in S}
Replies == [ago : 0 .. MaxDelay, from : Stations, ok : BOOLEAN, body : AtMostOne(Responses)]

StationsTyped ==
  /\ totalExpectedPackets \in [Stations -> 0 .. MaxPacketCount]
  /\ expectedCRC \in [Stations -> Images \cup {NoImage}]
  /\ receivedPackets \in [Stations -> SUBSET Packets]
  /\ flash \in [Stations -> [Packets -> Images \cup {NoImage}]]
  /\ header \in [Stations -> [written : 0 .. 4, size : 0 .. MaxPacketCount]]
  /\ applying \in [Stations -> BOOLEAN]
ProgrammerTyped ==
  /\ phase \in {"idle", "init", "initSent", "initWait", "bulk", "query", "querySent",
                "queryWait", "send", "sendSent", "sendWait", "confirm", "done", "failed"}
  /\ image \in Images /\ at \in Stations /\ packet \in 0 .. MaxPacketCount
  /\ unIds \in [Stations -> 0 .. NoUID] /\ acks \subseteq Stations
  /\ cancelled \in BOOLEAN /\ replyReceived \in BOOLEAN
  /\ lastUniqueID \in 0 .. NoUID
  /\ lastResponse \in AtMostOne(Responses)
  /\ confirmed \in [Stations -> SUBSET Images]
RadioTyped == air \subseteq Commands /\ replies \subseteq Replies

(* The type of every variable.                                             *)
TypeOK == StationsTyped /\ ProgrammerTyped /\ RadioTyped

(* The bitmap in RAM tells what is in the flash: a packet that counts as   *)
(* received is there and belongs to the image that is expected, and the    *)
(* place of every other packet of that image is still erased, as a flash   *)
(* chip wants it that is written once after each erasure.                  *)
BitmapTellsFlash == \A s \in Stations :
  \A p \in 0 .. totalExpectedPackets[s] - 1 :
    flash[s][p] = IF p \in receivedPackets[s] THEN expectedCRC[s] ELSE NoImage

(* What makes the promise of Firmware hold: a station expects no image or  *)
(* all the packets of one; a confirmation in the air was sent by an        *)
(* operator; a station that applies an image has the whole of it and was   *)
(* told to; and a complete header stands for a moment only, while the      *)
(* station waits for its watchdog, and has the size of that image.         *)
ExpectsAnImage == \A s \in Stations :
  IF expectedCRC[s] = NoImage THEN totalExpectedPackets[s] = 0
  ELSE totalExpectedPackets[s] = PacketCount[expectedCRC[s]]
ConfirmationsSent == \A c \in air : \A s \in c.to : c.kind = "C" => c.image \in confirmed[s]
AppliesWhole == \A s \in Stations :
  applying[s] => CRCMatches(s) /\ expectedCRC[s] \in confirmed[s]
HeaderForWatchdog == \A s \in Stations :
  header[s].written = 4 => applying[s] /\ header[s].size = totalExpectedPackets[s]
PacketInImage == phase \in {"sendSent", "sendWait"} => packet < MaxPacketCount
IInv ==
  /\ TypeOK /\ PacketInImage /\ BitmapTellsFlash /\ ExpectsAnImage
  /\ ConfirmationsSent /\ AppliesWhole /\ HeaderForWatchdog

(* No part of the flash is written over another image without being erased *)
(* between, whatever uploads an operator starts, abandons and starts again.*)
NeverOverwritten == [][\A s \in Stations, p \in Packets :
  flash[s][p] # NoImage => flash'[s][p] \in {flash[s][p], NoImage}]_vars

(* When the programmer is done with a station, all of the image is in the  *)
(* flash of that station, however old the answer is that told it so.       *)
DoneWhenAllThere ==
  [][phase = "queryWait" /\ (phase' = "confirm" \/ at' # at) =>
       \A p \in PacketsOf(image) : flash[at][p] = image]_vars

(* A station runs only all of an image that it was told to install.        *)
Promise == INSTANCE Firmware WITH Factory <- <<>>
Installs == Promise!Spec

(* An upload comes to an end: it does not wait for a station for ever, nor *)
(* ask again for ever.                                                     *)
UploadEnds == phase = "init" ~> phase \in {"done", "failed"}

(* CompleteUploadToStationAsync "finds out which packets a station still   *)
(* needs and sends them until it's got everything": of a station that      *)
(* expects this image it does not give up because of what that has got     *)
(* while a packet is missing.                                              *)
SendsUntilComplete ==
  [][phase = "queryWait" /\ phase' = "failed" =>
       \A r \in lastResponse : Expected(r) => Missing(r) = {}]_vars
=============================================================================
