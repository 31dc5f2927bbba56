------------------------------ MODULE RxQueue ------------------------------
(***************************************************************************)
(* The receive queue of the LoRa stations and of the KISS modem:           *)
(* CSMAWrapper in RemoteStation/CSMA.h, driven by the loop that reads it   *)
(* (readMessages in MessageHandling.cpp, main in KissModem.cpp).           *)
(*                                                                         *)
(* The modem holds one packet and raises an interrupt for it.  The         *)
(* main program copies the packet, with the radio in standby, behind the   *)
(* packets already in a byte buffer, and hands the oldest one out IN PLACE *)
(* ("checked out").  While a message is handled the program may transmit,  *)
(* and while it waits for a free channel (delayCSMA) it keeps copying      *)
(* packets into the same buffer.                                           *)
(*                                                                         *)
(* A packet is the number of its reception and its length; a byte of the   *)
(* buffer is the number of the packet it was copied from.  _messageLengths *)
(* is kept as its running sums: ends[i] is the sum of the first i lengths, *)
(* which is the only way the code uses it.                                 *)
(***************************************************************************)
EXTENDS Integers

CONSTANTS
  BufferSize,   \* bufferSize, 255 in the program
  MaxQueue,     \* maxQueue, 8 in the program
  CounterMod,   \* the number of values of s_packetCounter, 256 in the program
  Modem,        \* TRUE in the build of the KISS modem (-DMODEM)
  Lengths,      \* the lengths of the packets on the air
  MaxPackets,   \* bound: packets received in one behaviour
  MaxOverrun,   \* bound: packets overwritten in the modem between two reads
  TransmitCanFail   \* bound: whether transmissions fail in this behaviour

(* The number of values of a uint8_t, which lengths are added in, and of a *)
(* uint16_t.                                                               *)
ByteMod == 256
WordMod == 65536

ASSUME RxQueueAssumption ==
  /\ BufferSize \in Nat \ {0}
  /\ BufferSize < ByteMod
  /\ MaxQueue \in Nat \ {0}
  /\ CounterMod \in Nat \ {0}
  /\ Modem \in BOOLEAN
  /\ Lengths \subseteq 0..BufferSize   \* every packet fits an empty buffer
  /\ MaxPackets \in Nat
  /\ MaxOverrun \in Nat
  /\ TransmitCanFail \in BOOLEAN

VARIABLES
  s_packetWaiting,  \* set by the interrupt, reset by the reader
  s_packetCounter,  \* packets received, modulo CounterMod
  radio,            \* the packet in the modem: number, length, result of readData
  received,         \* number of packets received (history)
  buffer,           \* _buffer: the packet each byte was copied from
  ends,             \* running sums of _messageLengths
  readIdx,          \* _readBufferLenIdx
  writeIdx,         \* _writeBufferLenIdx
  checkedOut,       \* _checkedOut
  lastCounter,      \* _lastPacketCounter
  droppedRate,      \* _droppedPacketRate
  unread,           \* packets since updateReadStats ran that were never read:
                    \* overwritten in the modem, of length zero, or forgotten
                    \* when the radio was started again (history)
  pc,               \* where the reading program is
  reading,          \* readIfPossible is about to put the radio in standby
  incoming,         \* _incomingBuffer and _length of the message begun, and
                    \* the packet it held when it was begun (history)
  initRequired      \* initMessagingRequired

irqVars == <<s_packetWaiting, s_packetCounter, radio, received>>
bufVars == <<buffer, ends, readIdx, writeIdx>>
statVars == <<lastCounter, droppedRate, unread>>
vars == <<irqVars, bufVars, checkedOut, statVars, pc, reading, incoming, initRequired>>

(* pc: at the test of the while loop; in dequeueMessage after its call of  *)
(* readIfPossible; handling a message; anywhere else in the main loop.     *)
Places == {"loop", "begin", "handle", "rest"}

(* What readData reports of a packet. *)
ReadResults == {"ERR_NONE", "ERR_CRC_MISMATCH"}

NoMessage == [id |-> 0, start |-> 0, length |-> 0]

Init ==
  /\ s_packetWaiting = FALSE
  /\ s_packetCounter = 0
  /\ radio = [id |-> 0, length |-> 0, state |-> "ERR_NONE"]
  /\ received = 0
  /\ buffer = [b \in 0..(BufferSize - 1) |-> 0]
  /\ ends = [i \in 0..MaxQueue |-> 0]
  /\ readIdx = 0
  /\ writeIdx = 0
  /\ checkedOut = FALSE
  /\ lastCounter = 0
  /\ droppedRate = 0
  /\ unread = 0
  /\ pc = "loop"
  /\ reading = FALSE
  /\ incoming = NoMessage
  /\ initRequired = FALSE

-----------------------------------------------------------------------------
(* The interrupt rxDoneActionStatic: the modem has a new packet, and what  *)
(* it held before is gone.  It may fire at any point where the radio is    *)
(* not in standby.                                                         *)
RxDone(length, state) ==
  /\ received < MaxPackets
  /\ s_packetWaiting => unread < MaxOverrun
  /\ received' = received + 1
  /\ radio' = [id |-> received', length |-> length, state |-> state]
  /\ unread' = IF s_packetWaiting THEN unread + 1 ELSE unread
  /\ s_packetWaiting' = TRUE
  /\ s_packetCounter' = (s_packetCounter + 1) % CounterMod
  /\ UNCHANGED <<bufVars, checkedOut, lastCounter, droppedRate, pc, reading, incoming,
                 initRequired>>

-----------------------------------------------------------------------------
(* The checks of readIfPossibleInt that precede standby. *)
CanReadUnchecked == s_packetWaiting     \* mutant: no test for a full queue
CanRead == s_packetWaiting /\ writeIdx # MaxQueue

(* getBufferWriteOffset and getStartOfBuffer add up lengths in a uint8_t. *)
WriteOffsetShort(w) == IF w = 0 THEN 0 ELSE ends[w - 1] % ByteMod     \* mutant: off by one
WriteOffset(w) == ends[w] % ByteMod
StartOfBuffer == ends[readIdx] % ByteMod

(* getBufferWriteOffset empties a buffer that was read to its end. *)
Uncleared == readIdx = writeIdx /\ readIdx # 0

(* The packets dropped since the last read, as the code computes it.  The  *)
(* difference of two uint8_t is an int: it is negative after a wrap.       *)
DroppedPackets == s_packetCounter - lastCounter - 1

(* The moving average of the packets dropped: its product is taken in 16   *)
(* bits, and the sum is stored in 16 bits.                                 *)
AveragingPeriod == 256
NextDroppedRate ==
  LET kept == ((droppedRate * (AveragingPeriod - 1)) % WordMod) \div AveragingPeriod
  IN  (kept + DroppedPackets * ((WordMod - 1) \div AveragingPeriod)) % WordMod

UpdateReadStatsForgets ==     \* mutant: _lastPacketCounter is not advanced
  /\ droppedRate' = NextDroppedRate
  /\ unread' = 0
  /\ UNCHANGED lastCounter

UpdateReadStats ==
  /\ lastCounter' = s_packetCounter
  /\ droppedRate' = NextDroppedRate
  /\ unread' = 0

(* readData copies the packet into the buffer, whatever its checksum. *)
CopyPacket(offset) ==
  buffer' = [b \in 0..(BufferSize - 1) |->
               IF b \in offset..(offset + radio.length - 1) THEN radio.id ELSE buffer[b]]

(* There is room for the packet behind those already in the buffer. *)
FitsStrictly(offset) == BufferSize - offset > radio.length     \* mutant: off by one
Fits(offset) == BufferSize - offset >= radio.length

(* Packets with a bad checksum are kept by the modem only. *)
Keep == radio.state = "ERR_NONE" \/ Modem

(* readIfPossibleInt from standby on, then enterIdleState.  The radio      *)
(* receives nothing from the first to the last of these statements.        *)
ReadPacket ==
  /\ reading
  /\ reading' = FALSE
  /\ LET w == IF Uncleared THEN 0 ELSE writeIdx
         offset == WriteOffset(w)
     IN /\ readIdx' = IF Uncleared THEN 0 ELSE readIdx
        /\ checkedOut' = IF Uncleared THEN FALSE ELSE checkedOut
        /\ \/ /\ ~Fits(offset)                          \* NOT_ENOUGH_SPACE
              /\ writeIdx' = w
              /\ UNCHANGED <<s_packetWaiting, buffer, ends, statVars>>
           \/ /\ Fits(offset)
              /\ radio.length = 0                       \* NO_PACKET_AVAILABLE
              /\ s_packetWaiting' = FALSE
              /\ unread' = unread + 1
              /\ writeIdx' = w
              /\ UNCHANGED <<buffer, ends, lastCounter, droppedRate>>
           \/ /\ Fits(offset)
              /\ radio.length > 0
              /\ s_packetWaiting' = FALSE
              /\ CopyPacket(offset)
              /\ UpdateReadStats
              /\ writeIdx' = IF Keep THEN w + 1 ELSE w
              /\ ends' = IF Keep THEN [ends EXCEPT ![w + 1] = ends[w] + radio.length] ELSE ends
  /\ UNCHANGED <<s_packetCounter, radio, received, pc, incoming, initRequired>>

(* delayCSMA (and, in the modem, yield) calls readIfPossible again and     *)
(* again, with or without a message checked out.                           *)
CallReadIfPossible ==
  /\ pc \in {"handle", "rest"}
  /\ ~reading
  /\ CanRead
  /\ reading' = TRUE
  /\ UNCHANGED <<irqVars, bufVars, checkedOut, statVars, pc, incoming, initRequired>>

(* A transmission that fails asks the main loop to start the radio again. *)
TransmitFails ==
  /\ TransmitCanFail
  /\ pc \in {"handle", "rest"}
  /\ ~reading
  /\ initRequired' = TRUE
  /\ UNCHANGED <<irqVars, bufVars, checkedOut, statVars, pc, reading, incoming>>

-----------------------------------------------------------------------------
(* dequeueMessage, up to the call of readIfPossible. *)
CallDequeue ==
  /\ pc = "loop"
  /\ ~reading
  /\ pc' = "begin"
  /\ reading' = CanRead
  /\ UNCHANGED <<irqVars, bufVars, checkedOut, statVars, incoming, initRequired>>

(* The rest of dequeueMessage when a message is there to hand out. *)
BeginMessage ==
  /\ pc = "begin"
  /\ ~reading
  /\ writeIdx # 0
  /\ ~checkedOut
  /\ incoming' = [id |-> buffer[StartOfBuffer], start |-> StartOfBuffer,
                  length |-> ends[readIdx + 1] - ends[readIdx]]
  /\ checkedOut' = TRUE
  /\ pc' = "handle"
  /\ UNCHANGED <<irqVars, bufVars, statVars, reading, initRequired>>

(* clearBuffer, with the packets of the queue forgotten. *)
ClearBuffer ==
  /\ readIdx' = 0
  /\ writeIdx' = 0
  /\ checkedOut' = FALSE
  /\ UNCHANGED <<buffer, ends>>

(* The rest of dequeueMessage when it returns no message, which ends the   *)
(* while loop.  readMessages clears the buffer after                       *)
(* REENTRY_NOT_SUPPORTED; the modem does not look at the error.            *)
NoMessageBegun ==
  /\ pc = "begin"
  /\ ~reading
  /\ writeIdx = 0 \/ checkedOut
  /\ IF writeIdx # 0 /\ ~Modem THEN ClearBuffer ELSE UNCHANGED <<bufVars, checkedOut>>
  /\ pc' = "rest"
  /\ UNCHANGED <<irqVars, statVars, reading, incoming, initRequired>>

(* The station calls doneWithMessage when it has handled a message; the    *)
(* loop of the modem goes on to the next beginMessage without it.          *)
DoneWithBufferStays ==     \* mutant: the read index is not advanced
  /\ checkedOut' = FALSE
  /\ UNCHANGED bufVars

DoneWithBufferClears ==     \* mutant: the buffer is always cleared
  /\ ClearBuffer

DoneWithBuffer ==
  /\ IF readIdx + 1 >= writeIdx
       THEN readIdx' = 0 /\ writeIdx' = 0
       ELSE readIdx' = readIdx + 1 /\ UNCHANGED writeIdx
  /\ checkedOut' = FALSE
  /\ UNCHANGED <<buffer, ends>>

EndMessage ==
  /\ pc = "handle"
  /\ ~reading
  /\ IF Modem THEN UNCHANGED <<bufVars, checkedOut>> ELSE DoneWithBuffer
  /\ incoming' = NoMessage
  /\ pc' = "loop"
  /\ UNCHANGED <<irqVars, statVars, reading, initRequired>>

(* The main loop comes round.  The station starts the radio again if a     *)
(* transmission failed, and initBuffer then forgets a waiting packet.      *)
LoopAgain ==
  /\ pc = "rest"
  /\ ~reading
  /\ pc' = "loop"
  /\ IF initRequired /\ ~Modem
       THEN /\ s_packetWaiting' = FALSE
            /\ unread' = IF s_packetWaiting THEN unread + 1 ELSE unread
            /\ initRequired' = FALSE
       ELSE UNCHANGED <<s_packetWaiting, unread, initRequired>>
  /\ UNCHANGED <<s_packetCounter, radio, received, bufVars, checkedOut, lastCounter,
                 droppedRate, reading, incoming>>

Next ==
  \/ \E length \in Lengths, state \in ReadResults : RxDone(length, state)
  \/ CallReadIfPossible
  \/ ReadPacket
  \/ TransmitFails
  \/ CallDequeue
  \/ BeginMessage
  \/ NoMessageBegun
  \/ EndMessage
  \/ LoopAgain

Spec == Init /\ [][Next]_vars

(***************************************************************************)
(* Fairness: the main program is single threaded and never blocks.         *)
(* Handling a message, and the rest of the loop, may pass through          *)
(* readIfPossible any number of times, but delayCSMA gives up after        *)
(* MaxDelay, so each ends although it is not enabled all the while.        *)
(***************************************************************************)
Fairness ==
  /\ WF_vars(ReadPacket)
  /\ WF_vars(CallDequeue)
  /\ WF_vars(BeginMessage)
  /\ WF_vars(NoMessageBegun)
  /\ SF_vars(EndMessage)
  /\ SF_vars(LoopAgain)

FairSpec == Spec /\ Fairness

-----------------------------------------------------------------------------
FlagsOK ==
  /\ s_packetWaiting \in BOOLEAN
  /\ checkedOut \in BOOLEAN
  /\ reading \in BOOLEAN
  /\ initRequired \in BOOLEAN

RadioOK ==
  /\ s_packetCounter \in 0..(CounterMod - 1)
  /\ lastCounter \in 0..(CounterMod - 1)
  /\ droppedRate \in 0..(WordMod - 1)
  /\ unread \in Nat
  /\ received \in 0..MaxPackets
  /\ radio \in [id : 0..MaxPackets, length : 0..BufferSize, state : ReadResults]

QueueOK ==
  /\ readIdx \in 0..MaxQueue
  /\ writeIdx \in 0..MaxQueue
  /\ ends \in [0..MaxQueue -> 0..BufferSize]
  /\ buffer \in [0..(BufferSize - 1) -> 0..MaxPackets]

ReaderOK ==
  /\ pc \in Places
  /\ incoming \in [id : 0..MaxPackets, start : 0..BufferSize, length : 0..BufferSize]

(***************************************************************************)
(* Type invariant: the indices stay within the table of lengths and the    *)
(* sums within the buffer.                                                 *)
(***************************************************************************)
TypeOK == FlagsOK /\ RadioOK /\ QueueOK /\ ReaderOK

(***************************************************************************)
(* The message handed out is left alone for as long as it is handled: each *)
(* of its bytes still comes from the packet it was begun with, however     *)
(* many packets readIfPossible copied meanwhile.  (The comment at          *)
(* CSMA.h:164 warns that transmit may invalidate it.)                      *)
(***************************************************************************)
MessageIntact ==
  pc = "handle" =>
    /\ incoming.id # 0
    /\ incoming.length > 0
    /\ \A b \in incoming.start..(incoming.start + incoming.length - 1) :
         buffer[b] = incoming.id

(* The packets in the queue that are still to be begun. *)
FirstQueued == IF checkedOut THEN readIdx + 1 ELSE readIdx
Queued == {buffer[ends[i]] : i \in FirstQueued..(writeIdx - 1)}

(***************************************************************************)
(* The queue is a FIFO: each packet copied from the modem is begun at most *)
(* once, in the order of reception, and none disappears from the queue.    *)
(***************************************************************************)
Waiting == IF s_packetWaiting THEN radio.id ELSE 0

Fifo == INSTANCE RxFifo WITH waiting <- Waiting, queued <- Queued, handling <- incoming.id

RefinesFifo == Fifo!Spec

(***************************************************************************)
(* The inductive invariant behind MessageIntact and RefinesFifo.           *)
(***************************************************************************)
(* Indices and running sums: the slots 0..writeIdx-1 lie one behind the    *)
(* other in the buffer, and a buffer read to its end has been cleared.     *)
SlotsInv ==
  /\ readIdx <= writeIdx
  /\ readIdx = writeIdx => readIdx = 0
  /\ ends[0] = 0
  /\ \A i, j \in 0..writeIdx : i < j => ends[i] < ends[j]

(* Each slot holds one packet, and later slots hold later packets. *)
ContentsInv ==
  /\ \A i \in 0..(writeIdx - 1) :
       /\ buffer[ends[i]] \in 1..received
       /\ s_packetWaiting => buffer[ends[i]] < radio.id
       /\ \A b \in ends[i]..(ends[i + 1] - 1) : buffer[b] = buffer[ends[i]]
  /\ \A i, j \in 0..(writeIdx - 1) : i < j => buffer[ends[i]] < buffer[ends[j]]
  /\ s_packetWaiting => radio.id = received /\ received > 0

(* The reader and the message it holds. *)
ReaderInv ==
  /\ checkedOut => readIdx < writeIdx
  /\ ~Modem => (checkedOut <=> pc = "handle")
  /\ reading => s_packetWaiting /\ writeIdx # MaxQueue
  /\ IF pc = "handle"
       THEN /\ checkedOut
            /\ incoming = [id |-> buffer[ends[readIdx]], start |-> ends[readIdx],
                           length |-> ends[readIdx + 1] - ends[readIdx]]
       ELSE incoming = NoMessage

IInv == TypeOK /\ SlotsInv /\ ContentsInv /\ ReaderInv

(***************************************************************************)
(* updateReadStats is about to count every packet that was never read      *)
(* since it last ran, whatever the reason ("This only counts packets       *)
(* dropped due to out of memory", says CSMA.h:286), less CounterMod for    *)
(* each time that the counter wrapped between the two reads: the           *)
(* difference of two bytes is taken as an int.                             *)
(***************************************************************************)
CountsUnread ==
  s_packetWaiting =>
    \E wraps \in 0..(unread + 1) :
      /\ DroppedPackets = unread - wraps * CounterMod
      /\ s_packetCounter > lastCounter /\ unread < CounterMod => wraps = 0

(***************************************************************************)
(* Every packet that was queued is handled in the end.                     *)
(***************************************************************************)
QueuedIsHandled == \A p \in 1..MaxPackets : p \in Queued ~> incoming.id = p

(***************************************************************************)
(* The queue never wedges: a packet that found no room in the buffer or in *)
(* the table of lengths is read later.                                     *)
(***************************************************************************)
NeverWedged == s_packetWaiting ~> ~s_packetWaiting
=============================================================================
