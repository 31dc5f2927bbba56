--------------------------- MODULE RxQueueProofs ---------------------------
(***************************************************************************)
(* Proofs about the receive queue, for every size of the buffer and of the *)
(* table of lengths, for the station and for the modem.                    *)
(*                                                                         *)
(* IInv of RxQueue is inductive.  It gives the type invariant, that a      *)
(* message is left alone while it is handled (MessageIntact), and that     *)
(* every step of the queue is a step of the FIFO or leaves it unchanged.   *)
(* With the accounting of CounterInv it gives what the statistics count.   *)
(***************************************************************************)
EXTENDS RxQueue, TLAPS

-----------------------------------------------------------------------------
(* Types of the parts of the state, one fact at a time. *)

LEMMA ConstantTypes ==
  /\ BufferSize \in Nat /\ BufferSize > 0 /\ BufferSize < ByteMod
  /\ MaxQueue \in Nat /\ MaxQueue > 0
  /\ CounterMod \in Nat /\ CounterMod > 0
  /\ MaxPackets \in Nat
  /\ \A length \in Lengths : length \in 0..BufferSize
BY RxQueueAssumption DEF RxQueueAssumption

LEMMA IndexTypes ==
  ASSUME QueueOK
  PROVE  readIdx \in 0..MaxQueue /\ writeIdx \in 0..MaxQueue
BY Zenon DEF QueueOK

LEMMA SumTypes ==
  ASSUME QueueOK, NEW i \in 0..MaxQueue
  PROVE  ends[i] \in 0..BufferSize
<1>1. ends \in [0..MaxQueue -> 0..BufferSize]
  BY Zenon DEF QueueOK
<1> QED BY <1>1, Zenon

LEMMA RadioTypes ==
  ASSUME RadioOK
  PROVE  /\ radio.id \in 0..MaxPackets
         /\ radio.length \in 0..BufferSize
         /\ received \in 0..MaxPackets
<1>1. radio \in [id : 0..MaxPackets, length : 0..BufferSize, state : ReadResults]
  BY Zenon DEF RadioOK
<1>2. received \in 0..MaxPackets
  BY Zenon DEF RadioOK
<1> QED BY <1>1, <1>2

(***************************************************************************)
(* The running sums never wrap: they are bounded by the size of the        *)
(* buffer, which a uint8_t can hold, so that getBufferWriteOffset and      *)
(* getStartOfBuffer return them unchanged.                                 *)
(***************************************************************************)
LEMMA SumsDoNotWrap ==
  ASSUME QueueOK, NEW i \in 0..MaxQueue
  PROVE  ends[i] % ByteMod = ends[i]
BY SumTypes, ConstantTypes DEF ByteMod

(* A buffer is never found read to its end but not cleared. *)
LEMMA NeverUncleared == SlotsInv => ~Uncleared
BY DEF SlotsInv, Uncleared

-----------------------------------------------------------------------------
(* What is not written stays as it is. *)

LEMMA RadioUnchanged ==
  ASSUME RadioOK, UNCHANGED <<s_packetCounter, radio, received, lastCounter, droppedRate>>,
         unread' \in Nat
  PROVE  RadioOK'
BY Zenon DEF RadioOK

LEMMA QueueUnchanged ==
  ASSUME QueueOK, UNCHANGED bufVars
  PROVE  QueueOK'
BY Zenon DEF QueueOK, bufVars

LEMMA SlotsUnchanged ==
  ASSUME SlotsInv, UNCHANGED <<ends, readIdx, writeIdx>>
  PROVE  SlotsInv'
BY DEF SlotsInv

LEMMA ContentsUnchanged ==
  ASSUME ContentsInv, UNCHANGED <<bufVars, received, radio>>,
         s_packetWaiting' => s_packetWaiting
  PROVE  ContentsInv'
BY DEF ContentsInv, bufVars

-----------------------------------------------------------------------------
(***************************************************************************)
(* The initial state satisfies the inductive invariant.                    *)
(***************************************************************************)
LEMMA InitInv == Init => IInv
<1> SUFFICES ASSUME Init PROVE IInv
  OBVIOUS
<1>1. FlagsOK
  BY Zenon DEF Init, FlagsOK
<1>2. RadioOK
  <2>1. 0 \in 0..(CounterMod - 1) /\ 0 \in 0..(WordMod - 1)
    BY ConstantTypes DEF WordMod
  <2>2. radio \in [id : 0..MaxPackets, length : 0..BufferSize, state : ReadResults]
    BY ConstantTypes DEF Init, ReadResults
  <2>3. 0 \in Nat /\ 0 \in 0..MaxPackets
    BY ConstantTypes
  <2> QED BY <2>1, <2>2, <2>3, Zenon DEF Init, RadioOK
<1>3. QueueOK
  BY ConstantTypes DEF Init, QueueOK
<1>4. ReaderOK
  BY ConstantTypes DEF Init, ReaderOK, NoMessage, Places
<1>5. SlotsInv
  BY ConstantTypes DEF Init, SlotsInv
<1>6. ContentsInv
  BY ConstantTypes DEF Init, ContentsInv
<1>7. ReaderInv
  BY DEF Init, ReaderInv
<1> QED BY <1>1, <1>2, <1>3, <1>4, <1>5, <1>6, <1>7 DEF IInv, TypeOK

(***************************************************************************)
(* An interrupt of the radio preserves it.                                 *)
(***************************************************************************)
LEMMA RxDoneInv ==
  ASSUME IInv, NEW length \in Lengths, NEW state \in ReadResults, RxDone(length, state)
  PROVE  IInv'
<1>1. FlagsOK'
  BY Zenon DEF RxDone, IInv, TypeOK, FlagsOK
<1>2. RadioOK'
  <2>1. s_packetCounter' = (s_packetCounter + 1) % CounterMod /\ s_packetCounter \in 0..(CounterMod - 1)
    BY Zenon DEF RxDone, IInv, TypeOK, RadioOK
  <2>2. unread' \in Nat
    <3>1. unread \in Nat /\ unread' = IF s_packetWaiting THEN unread + 1 ELSE unread
      BY Zenon DEF RxDone, IInv, TypeOK, RadioOK
    <3> QED BY <3>1
  <2>3. received' = received + 1 /\ received < MaxPackets /\ received \in 0..MaxPackets
    BY Zenon DEF RxDone, IInv, TypeOK, RadioOK
  <2>4. received' \in 0..MaxPackets
    BY <2>3, ConstantTypes
  <2>5. radio' = [id |-> received', length |-> length, state |-> state]
    BY Zenon DEF RxDone
  <2>6. radio' \in [id : 0..MaxPackets, length : 0..BufferSize, state : ReadResults]
    BY <2>4, <2>5, ConstantTypes
  <2>7. s_packetCounter' \in 0..(CounterMod - 1)
    BY <2>1, ConstantTypes
  <2> QED BY <2>2, <2>4, <2>6, <2>7, Zenon DEF RxDone, IInv, TypeOK, RadioOK
<1>3. QueueOK' /\ SlotsInv'
  BY QueueUnchanged, SlotsUnchanged DEF RxDone, bufVars, IInv, TypeOK
<1>4. ReaderOK'
  BY Zenon DEF RxDone, IInv, TypeOK, ReaderOK
<1>5. ContentsInv'
  <2>1. received' = received + 1 /\ received \in Nat
    BY RadioTypes, ConstantTypes DEF RxDone, IInv, TypeOK
  <2>2. radio'.id = received'
    BY DEF RxDone
  <2>3. UNCHANGED <<buffer, ends, writeIdx>>
    BY Zenon DEF RxDone, bufVars
  <2>4. ContentsInv
    BY Zenon DEF IInv
  <2> QED BY <2>1, <2>2, <2>3, <2>4 DEF ContentsInv
<1>6. ReaderInv'
  <2>1. /\ UNCHANGED <<bufVars, checkedOut, pc, reading, incoming>>
        /\ s_packetWaiting' = TRUE
    BY Zenon DEF RxDone
  <2> QED BY <2>1, Zenon DEF IInv, ReaderInv, bufVars, NoMessage
<1> QED BY <1>1, <1>2, <1>3, <1>4, <1>5, <1>6, Zenon DEF IInv, TypeOK

-----------------------------------------------------------------------------
(* The three outcomes of reading the modem, with the wrapping sums and the *)
(* clearing of a buffer read to its end out of the way.                    *)
(* Nothing is read, or what is read is written behind the last slot only.  *)
ReadLeaves ==
  /\ UNCHANGED <<ends, writeIdx>>
  /\ \A b \in 0..(BufferSize - 1) : b < ends[writeIdx] => buffer'[b] = buffer[b]
  /\ s_packetWaiting' => s_packetWaiting

(* The packet becomes the last slot of the queue. *)
ReadAdds ==
  /\ s_packetWaiting' = FALSE
  /\ radio.length > 0
  /\ ends[writeIdx] + radio.length <= BufferSize
  /\ CopyPacket(ends[writeIdx])
  /\ writeIdx' = writeIdx + 1
  /\ ends' = [ends EXCEPT ![writeIdx + 1] = ends[writeIdx] + radio.length]

(* What any step of ReadPacket does. *)
ReadEffect ==
  /\ reading' = FALSE
  /\ UNCHANGED <<readIdx, checkedOut, s_packetCounter, radio, received, pc, incoming,
                 initRequired>>
  /\ s_packetWaiting' \in BOOLEAN
  /\ lastCounter' \in {lastCounter, s_packetCounter}
  /\ droppedRate' \in {droppedRate, NextDroppedRate}
  /\ unread' \in {unread, unread + 1, 0}
  /\ buffer' \in [0..(BufferSize - 1) -> 0..MaxPackets]
  /\ ReadLeaves \/ ReadAdds

LEMMA CopyType ==
  ASSUME QueueOK, RadioOK, NEW offset, CopyPacket(offset)
  PROVE  buffer' \in [0..(BufferSize - 1) -> 0..MaxPackets]
<1>1. buffer \in [0..(BufferSize - 1) -> 0..MaxPackets]
  BY Zenon DEF QueueOK
<1>2. radio.id \in 0..MaxPackets
  BY RadioTypes
<1> QED BY <1>1, <1>2, Zenon DEF CopyPacket

LEMMA CopyLeaves ==
  ASSUME QueueOK, CopyPacket(ends[writeIdx]),
         NEW b \in 0..(BufferSize - 1), b < ends[writeIdx]
  PROVE  buffer'[b] = buffer[b]
<1>1. ends[writeIdx] \in 0..BufferSize
  BY IndexTypes, SumTypes
<1>2. b \notin ends[writeIdx]..(ends[writeIdx] + radio.length - 1)
  BY <1>1, ConstantTypes
<1> QED BY <1>2, Zenon DEF CopyPacket

LEMMA ReadPacketCases ==
  ASSUME IInv, ReadPacket
  PROVE  ReadEffect
<1> USE DEF ReadEffect
<1> DEFINE offset == WriteOffset(writeIdx)
<1>1. ~Uncleared
  BY NeverUncleared DEF IInv
<1>2. offset = ends[writeIdx]
  BY IndexTypes, SumsDoNotWrap DEF IInv, TypeOK, WriteOffset
<1>3. ends[writeIdx] \in 0..BufferSize /\ BufferSize \in Nat /\ radio.length \in 0..BufferSize
  BY IndexTypes, SumTypes, RadioTypes, ConstantTypes DEF IInv, TypeOK
<1>4. s_packetWaiting \in BOOLEAN /\ QueueOK /\ RadioOK
  BY Zenon DEF IInv, TypeOK, FlagsOK
<1>5. buffer \in [0..(BufferSize - 1) -> 0..MaxPackets]
  BY <1>4, Zenon DEF QueueOK
<1>6. CASE ~Fits(offset)
  <2>1. UNCHANGED <<ends, writeIdx, buffer, s_packetWaiting, statVars, readIdx, checkedOut>>
    BY <1>1, <1>6, Zenon DEF ReadPacket
  <2>2. ReadLeaves
    BY <2>1, <1>4, Zenon DEF ReadLeaves
  <2> QED BY <2>1, <2>2, <1>4, <1>5, Zenon DEF ReadPacket, statVars
<1>7. CASE Fits(offset) /\ radio.length = 0
  <2>1. /\ UNCHANGED <<ends, writeIdx, buffer, lastCounter, droppedRate, readIdx, checkedOut>>
        /\ s_packetWaiting' = FALSE
        /\ unread' = unread + 1
    <3>1. ~(radio.length > 0)
      BY <1>7, <1>3
    <3> QED BY <1>1, <1>7, <3>1, Zenon DEF ReadPacket
  <2>2. ReadLeaves
    BY <2>1, Zenon DEF ReadLeaves
  <2> QED BY <2>1, <2>2, <1>5, Zenon DEF ReadPacket
<1>8. CASE Fits(offset) /\ radio.length > 0
  <2>1. /\ s_packetWaiting' = FALSE
        /\ CopyPacket(offset)
        /\ UpdateReadStats
        /\ writeIdx' = IF Keep THEN writeIdx + 1 ELSE writeIdx
        /\ ends' = IF Keep
                     THEN [ends EXCEPT ![writeIdx + 1] = ends[writeIdx] + radio.length]
                     ELSE ends
        /\ UNCHANGED <<readIdx, checkedOut>>
    <3>1. radio.length # 0
      BY <1>8
    <3> QED BY <1>1, <1>8, <3>1, Zenon DEF ReadPacket
  <2>2. buffer' \in [0..(BufferSize - 1) -> 0..MaxPackets]
    BY <2>1, <1>4, CopyType
  <2>3. ReadLeaves \/ ReadAdds
    <3>1. CASE Keep
      <4>1. ends[writeIdx] + radio.length <= BufferSize
        BY <1>8, <1>2, <1>3 DEF Fits
      <4> QED BY <4>1, <3>1, <2>1, <1>2, <1>8, Zenon DEF ReadAdds
    <3>2. CASE ~Keep
      <4>1. UNCHANGED <<ends, writeIdx>>
        BY <2>1, <3>2, Zenon
      <4>2. \A b \in 0..(BufferSize - 1) : b < ends[writeIdx] => buffer'[b] = buffer[b]
        BY <2>1, <1>2, <1>4, CopyLeaves, Zenon
      <4> QED BY <4>1, <4>2, <2>1, Zenon DEF ReadLeaves
    <3> QED BY <3>1, <3>2
  <2> QED BY <2>1, <2>2, <2>3, Zenon DEF ReadPacket, UpdateReadStats
<1>9. Fits(offset) \/ ~Fits(offset)
  BY Zenon
<1>10. radio.length = 0 \/ radio.length > 0
  BY <1>3
<1> QED BY <1>6, <1>7, <1>8, <1>9, <1>10, Zenon

(* The statistics stay within their integer types. *)
LEMMA WordType ==
  ASSUME NEW n \in Int
  PROVE  n % WordMod \in 0..(WordMod - 1)
<1> DEFINE w == WordMod
<1>1. w \in Nat /\ w > 0
  BY DEF WordMod
<1> HIDE DEF w
<1>2. n % w \in 0..(w - 1)
  BY <1>1
<1> QED  BY <1>2 DEF w

LEMMA DroppedRateType ==
  ASSUME RadioOK
  PROVE  NextDroppedRate \in 0..(WordMod - 1)
<1>1. droppedRate \in Int /\ s_packetCounter \in Int /\ lastCounter \in Int
  <2>1. /\ droppedRate \in 0..(WordMod - 1)
        /\ s_packetCounter \in 0..(CounterMod - 1)
        /\ lastCounter \in 0..(CounterMod - 1)
    BY Zenon DEF RadioOK
  <2> QED BY <2>1, ConstantTypes
<1>2. DroppedPackets \in Int
  BY <1>1 DEF DroppedPackets
<1> DEFINE n == (droppedRate * (AveragingPeriod - 1)) % WordMod
           m == (WordMod - 1) \div AveragingPeriod
<1>3. n \in Int
  <2>1. droppedRate * (AveragingPeriod - 1) \in Int
    BY <1>1 DEF AveragingPeriod
  <2> QED BY <2>1, WordType
<1>4. m \in Int
  BY DEF WordMod, AveragingPeriod
<1>5. n \div AveragingPeriod \in Int
  <2> HIDE DEF n
  <2> QED BY <1>3 DEF AveragingPeriod
<1>6. n \div AveragingPeriod + DroppedPackets * m \in Int
  <2> HIDE DEF n, m
  <2> QED BY <1>2, <1>4, <1>5
<1> QED BY <1>6, WordType DEF NextDroppedRate

(***************************************************************************)
(* Reading the modem preserves the invariant, with a message checked out   *)
(* or without: it writes behind the last slot only.                        *)
(***************************************************************************)
LEMMA ReadPacketInv ==
  ASSUME IInv, ReadPacket
  PROVE  IInv'
<1>0. ReadEffect
  BY ReadPacketCases
<1>1. FlagsOK /\ RadioOK /\ QueueOK /\ ReaderOK /\ SlotsInv /\ ContentsInv /\ ReaderInv
  BY Zenon DEF IInv, TypeOK
<1>2. writeIdx \in 0..MaxQueue /\ readIdx \in 0..MaxQueue /\ MaxQueue \in Nat
  BY <1>1, IndexTypes, ConstantTypes
<1>3. writeIdx # MaxQueue
  BY <1>1, Zenon DEF ReaderInv, ReadPacket
<1>4. \A i \in 0..MaxQueue : ends[i] \in 0..BufferSize
  BY <1>1, SumTypes
<1>5. radio.length \in 0..BufferSize /\ BufferSize \in Nat /\ radio.id \in Nat
      /\ received \in Nat
  BY <1>1, RadioTypes, ConstantTypes
<1>6. ends \in [0..MaxQueue -> 0..BufferSize]
  BY <1>1, Zenon DEF QueueOK
<1>7. FlagsOK'
  BY <1>0, <1>1, Zenon DEF FlagsOK, ReadEffect
<1>8. RadioOK'
  <2>1. lastCounter' \in 0..(CounterMod - 1) /\ droppedRate' \in 0..(WordMod - 1)
    BY <1>0, <1>1, DroppedRateType, Zenon DEF RadioOK, ReadEffect
  <2>2. unread' \in Nat
    <3>1. unread \in Nat
      BY <1>1, Zenon DEF RadioOK
    <3> QED BY <1>0, <3>1 DEF ReadEffect
  <2> QED BY <1>0, <1>1, <2>1, <2>2, Zenon DEF RadioOK, ReadEffect
<1>9. QueueOK'
  <2>1. CASE ReadLeaves
    BY <1>0, <1>1, <2>1, Zenon DEF ReadLeaves, ReadEffect, QueueOK
  <2>2. CASE ReadAdds
    <3>1. writeIdx' \in 0..MaxQueue
      BY <1>2, <1>3, <2>2 DEF ReadAdds
    <3>2. ends[writeIdx] + radio.length \in 0..BufferSize
      BY <1>2, <1>4, <1>5, <2>2 DEF ReadAdds
    <3>3. ends' \in [0..MaxQueue -> 0..BufferSize]
      BY <1>6, <2>2, <3>2, Zenon DEF ReadAdds
    <3> QED BY <1>0, <1>1, <3>1, <3>3, Zenon DEF QueueOK, ReadEffect
  <2> QED BY <1>0, <2>1, <2>2, Zenon DEF ReadEffect
<1>10. ReaderOK'
  BY <1>0, <1>1, Zenon DEF ReaderOK, ReadEffect
(* The slots that were there keep their place and their bytes. *)
<1>11. \A i \in 0..writeIdx : ends'[i] = ends[i]
  <2>2. CASE ReadLeaves
    BY <2>2, Zenon DEF ReadLeaves
  <2>3. CASE ReadAdds
    <3>1. ends' = [ends EXCEPT ![writeIdx + 1] = ends[writeIdx] + radio.length]
      BY <2>3, Zenon DEF ReadAdds
    <3> QED BY <1>2, <1>6, <3>1
  <2> QED BY <1>0, <2>2, <2>3, Zenon DEF ReadEffect
<1>12. \A b \in 0..(BufferSize - 1) : b < ends[writeIdx] => buffer'[b] = buffer[b]
  BY <1>0, <1>1, CopyLeaves, Zenon DEF ReadLeaves, ReadAdds, ReadEffect
<1>13. SlotsInv'
  <2>1. CASE ReadLeaves
    BY <1>0, <1>1, <2>1, SlotsUnchanged, Zenon DEF ReadLeaves, ReadEffect
  <2>2. CASE ReadAdds
    <3>1. writeIdx' = writeIdx + 1 /\ ends'[writeIdx'] = ends[writeIdx] + radio.length
      BY <1>2, <1>3, <1>6, <2>2 DEF ReadAdds
    <3>2. radio.length > 0
      BY <2>2 DEF ReadAdds
    <3>3. readIdx' = readIdx
      BY <1>0, Zenon DEF ReadEffect
    <3>4. readIdx <= writeIdx /\ ends[0] = 0
      BY <1>1 DEF SlotsInv
    <3>5. ASSUME NEW i \in 0..writeIdx', NEW j \in 0..writeIdx', i < j
          PROVE  ends'[i] < ends'[j]
      <4>1. i \in 0..writeIdx /\ ends'[i] = ends[i]
        BY <1>2, <1>11, <3>1, <3>5
      <4>2. CASE j \in 0..writeIdx
        BY <1>1, <1>11, <3>5, <4>1, <4>2 DEF SlotsInv
      <4>3. CASE j = writeIdx'
        <5>1. ends[i] <= ends[writeIdx]
          BY <1>1, <1>2, <1>4, <4>1 DEF SlotsInv
        <5> QED BY <1>2, <1>4, <1>5, <3>1, <3>2, <4>1, <4>3, <5>1
      <4> QED BY <1>2, <3>1, <4>2, <4>3
    <3> QED BY <1>2, <1>11, <3>1, <3>3, <3>4, <3>5 DEF SlotsInv
  <2> QED BY <1>0, <2>1, <2>2, Zenon DEF ReadEffect
<1>14. \A i \in 0..(writeIdx - 1) :
          /\ ends[i] < ends[i + 1] /\ ends[i + 1] <= ends[writeIdx]
          /\ ends[i] \in 0..(BufferSize - 1)
          /\ i \in 0..MaxQueue /\ i + 1 \in 0..MaxQueue
  <2> SUFFICES ASSUME NEW i \in 0..(writeIdx - 1)
               PROVE  /\ ends[i] < ends[i + 1] /\ ends[i + 1] <= ends[writeIdx]
                      /\ ends[i] \in 0..(BufferSize - 1)
                      /\ i \in 0..MaxQueue /\ i + 1 \in 0..MaxQueue
    OBVIOUS
  <2>1. i \in 0..writeIdx /\ i + 1 \in 0..writeIdx /\ i < i + 1
    BY <1>2
  <2>2. i \in 0..MaxQueue /\ i + 1 \in 0..MaxQueue
    BY <1>2
  <2>3. ends[i] < ends[i + 1]
    BY <1>1, <2>1, Zenon DEF SlotsInv
  <2>4. ends[i + 1] <= ends[writeIdx]
    <3>1. CASE i + 1 = writeIdx
      BY <1>2, <1>4, <3>1
    <3>2. CASE i + 1 < writeIdx
      <4>1. writeIdx \in 0..writeIdx
        BY <1>2
      <4>2. ends[i + 1] < ends[writeIdx]
        BY <1>1, <2>1, <3>2, <4>1, Zenon DEF SlotsInv
      <4> QED BY <1>2, <1>4, <2>2, <4>2
    <3> QED BY <1>2, <3>1, <3>2
  <2> QED BY <1>2, <1>4, <1>5, <2>2, <2>3, <2>4
<1>15. \A i \in 0..(writeIdx - 1) :
          /\ buffer'[ends'[i]] = buffer[ends[i]]
          /\ ends'[i] = ends[i] /\ ends'[i + 1] = ends[i + 1]
  BY <1>2, <1>4, <1>5, <1>11, <1>12, <1>14
<1>16. ContentsInv'
  <2>1. (s_packetWaiting' => s_packetWaiting) /\ UNCHANGED <<radio, received>>
    BY <1>0, Zenon DEF ReadLeaves, ReadAdds, ReadEffect
  <2>2. ASSUME NEW i \in 0..(writeIdx - 1)
        PROVE  /\ buffer'[ends'[i]] \in 1..received'
               /\ s_packetWaiting' => buffer'[ends'[i]] < radio'.id
               /\ \A b \in ends'[i]..(ends'[i + 1] - 1) : buffer'[b] = buffer'[ends'[i]]
    <3>1. /\ buffer[ends[i]] \in 1..received
          /\ s_packetWaiting => buffer[ends[i]] < radio.id
          /\ \A b \in ends[i]..(ends[i + 1] - 1) : buffer[b] = buffer[ends[i]]
      BY <1>1, Zenon DEF ContentsInv
    <3>2. \A b \in ends[i]..(ends[i + 1] - 1) : b \in 0..(BufferSize - 1) /\ b < ends[writeIdx]
      BY <1>2, <1>4, <1>5, <1>14
    <3>3. \A b \in ends[i]..(ends[i + 1] - 1) : buffer'[b] = buffer[ends[i]]
      BY <1>12, <3>1, <3>2, Zenon
    <3> QED BY <1>15, <2>1, <3>1, <3>3, Zenon
  <2>3. \A i, j \in 0..(writeIdx - 1) : i < j => buffer'[ends'[i]] < buffer'[ends'[j]]
    BY <1>1, <1>15, Zenon DEF ContentsInv
  <2>4. s_packetWaiting' => radio'.id = received' /\ received' > 0
    BY <1>1, <2>1, Zenon DEF ContentsInv
  <2>5. CASE ReadLeaves
    <3>1. writeIdx' = writeIdx
      BY <2>5, Zenon DEF ReadLeaves
    <3> QED BY <2>2, <2>3, <2>4, <3>1, Zenon DEF ContentsInv
  <2>6. CASE ReadAdds
    <3>1. writeIdx' = writeIdx + 1 /\ ends'[writeIdx + 1] = ends[writeIdx] + radio.length
      BY <1>2, <1>3, <1>6, <2>6 DEF ReadAdds
    <3>2. ends'[writeIdx] = ends[writeIdx] /\ writeIdx \in 0..writeIdx
      BY <1>2, <1>11
    <3>3. \A b \in ends'[writeIdx]..(ends'[writeIdx + 1] - 1) : buffer'[b] = radio.id
      BY <1>2, <1>4, <1>5, <2>6, <3>1, <3>2 DEF ReadAdds, CopyPacket
    <3>4. buffer'[ends'[writeIdx]] = radio.id
      <4>1. radio.length > 0 /\ ends[writeIdx] \in Nat
        <5>1. radio.length > 0
          BY <2>6, Zenon DEF ReadAdds
        <5> QED BY <1>2, <1>4, <1>5, <5>1
      <4>2. ends'[writeIdx] \in ends'[writeIdx]..(ends'[writeIdx + 1] - 1)
        BY <1>5, <3>1, <3>2, <4>1
      <4> QED BY <3>3, <4>2
    <3>5. s_packetWaiting /\ s_packetWaiting' = FALSE
      BY <1>1, <2>6, Zenon DEF ReaderInv, ReadPacket, ReadAdds
    <3>6. radio.id = received' /\ radio.id \in 1..received'
      <4>1. radio.id = received /\ received > 0 /\ received' = received
        BY <1>1, <2>1, <3>5, Zenon DEF ContentsInv
      <4> QED BY <1>5, <4>1
    <3>7. \A i \in 0..(writeIdx - 1) : buffer[ends[i]] < radio.id
      BY <1>1, <3>5, Zenon DEF ContentsInv
    <3>8. \A i \in 0..(writeIdx' - 1) : i \in 0..(writeIdx - 1) \/ i = writeIdx
      BY <1>2, <3>1
    <3>9. \A i, j \in 0..(writeIdx' - 1) : i < j => buffer'[ends'[i]] < buffer'[ends'[j]]
      <4> SUFFICES ASSUME NEW i \in 0..(writeIdx' - 1), NEW j \in 0..(writeIdx' - 1), i < j
                   PROVE  buffer'[ends'[i]] < buffer'[ends'[j]]
        OBVIOUS
      <4>1. i \in 0..(writeIdx - 1)
        BY <1>2, <3>1
      <4> QED BY <1>15, <2>3, <3>4, <3>7, <3>8, <4>1, Zenon
    <3>10. ASSUME NEW i \in 0..(writeIdx' - 1)
           PROVE  /\ buffer'[ends'[i]] \in 1..received'
                  /\ s_packetWaiting' => buffer'[ends'[i]] < radio'.id
                  /\ \A b \in ends'[i]..(ends'[i + 1] - 1) : buffer'[b] = buffer'[ends'[i]]
      BY <2>2, <3>3, <3>4, <3>5, <3>6, <3>8, Zenon
    <3> QED BY <2>4, <3>9, <3>10, Zenon DEF ContentsInv
  <2> QED BY <1>0, <2>5, <2>6, Zenon DEF ReadEffect
<1>17. ReaderInv'
  <2>1. readIdx <= writeIdx
    BY <1>1 DEF SlotsInv
  <2>2. writeIdx' \in {writeIdx, writeIdx + 1}
    BY <1>0, Zenon DEF ReadLeaves, ReadAdds, ReadEffect
  <2>3. checkedOut => readIdx < writeIdx
    BY <1>1, Zenon DEF ReaderInv
  <2>4. (checkedOut => readIdx < writeIdx)'
    <3>1. UNCHANGED <<checkedOut, readIdx>>
      BY <1>0, Zenon DEF ReadEffect
    <3>2. readIdx < writeIdx => readIdx < writeIdx'
      BY <1>2, <2>2
    <3> QED BY <2>3, <3>1, <3>2, Zenon
  <2>5. ASSUME pc = "handle"
        PROVE  /\ checkedOut'
               /\ incoming' = [id |-> buffer'[ends'[readIdx']], start |-> ends'[readIdx'],
                               length |-> ends'[readIdx' + 1] - ends'[readIdx']]
    <3>1. checkedOut /\ incoming = [id |-> buffer[ends[readIdx]], start |-> ends[readIdx],
                                    length |-> ends[readIdx + 1] - ends[readIdx]]
      BY <1>1, <2>5, Zenon DEF ReaderInv
    <3>2. readIdx \in 0..(writeIdx - 1)
      BY <1>2, <2>3, <3>1
    <3>3. UNCHANGED <<checkedOut, readIdx, incoming>>
      BY <1>0, Zenon DEF ReadEffect
    <3> QED BY <1>15, <3>1, <3>2, <3>3, Zenon
  <2>6. /\ (~Modem => (checkedOut <=> pc = "handle"))'
        /\ (pc # "handle" => incoming = NoMessage)'
        /\ ~reading' /\ pc' = pc
    BY <1>0, <1>1, Zenon DEF ReaderInv, NoMessage, ReadEffect
  <2> QED BY <2>4, <2>5, <2>6, Zenon DEF ReaderInv, NoMessage
<1> QED BY <1>7, <1>8, <1>9, <1>10, <1>13, <1>16, <1>17, Zenon DEF IInv, TypeOK

-----------------------------------------------------------------------------
(* The steps of the program that reads the queue. *)

(* What a step leaves alone when it does not touch the radio or the slots. *)
QueueSame == UNCHANGED <<bufVars, s_packetCounter, radio, received, lastCounter, droppedRate>>

LEMMA PartsUnchanged ==
  ASSUME IInv, QueueSame, s_packetWaiting' => s_packetWaiting, unread' \in Nat
  PROVE  RadioOK' /\ QueueOK' /\ SlotsInv' /\ ContentsInv'
<1>1. RadioOK /\ QueueOK /\ SlotsInv /\ ContentsInv
  BY Zenon DEF IInv, TypeOK
<1>2. RadioOK'
  BY <1>1, RadioUnchanged, Zenon DEF QueueSame
<1>3. QueueOK' /\ SlotsInv' /\ ContentsInv'
  BY <1>1, QueueUnchanged, SlotsUnchanged, ContentsUnchanged, Zenon DEF QueueSame, bufVars
<1> QED BY <1>2, <1>3

LEMMA UnreadType == IInv => unread \in Nat /\ unread + 1 \in Nat
<1>1. IInv => unread \in Nat
  BY Zenon DEF IInv, TypeOK, RadioOK
<1> QED BY <1>1

LEMMA CallReadIfPossibleInv ==
  ASSUME IInv, CallReadIfPossible
  PROVE  IInv'
<1>1. RadioOK' /\ QueueOK' /\ SlotsInv' /\ ContentsInv'
  BY PartsUnchanged, UnreadType, Zenon
  DEF CallReadIfPossible, QueueSame, irqVars, bufVars, statVars
<1>2. FlagsOK' /\ ReaderOK'
  BY Zenon DEF CallReadIfPossible, IInv, TypeOK, FlagsOK, ReaderOK, irqVars
<1>3. ReaderInv'
  BY Zenon DEF CallReadIfPossible, CanRead, IInv, ReaderInv, irqVars, bufVars, NoMessage
<1> QED BY <1>1, <1>2, <1>3, Zenon DEF IInv, TypeOK

LEMMA TransmitFailsInv ==
  ASSUME IInv, TransmitFails
  PROVE  IInv'
<1>1. RadioOK' /\ QueueOK' /\ SlotsInv' /\ ContentsInv'
  BY PartsUnchanged, UnreadType, Zenon
  DEF TransmitFails, QueueSame, irqVars, bufVars, statVars
<1>2. FlagsOK' /\ ReaderOK'
  BY Zenon DEF TransmitFails, IInv, TypeOK, FlagsOK, ReaderOK, irqVars
<1>3. ReaderInv'
  BY Zenon DEF TransmitFails, IInv, ReaderInv, irqVars, bufVars, NoMessage
<1> QED BY <1>1, <1>2, <1>3, Zenon DEF IInv, TypeOK

LEMMA CallDequeueInv ==
  ASSUME IInv, CallDequeue
  PROVE  IInv'
<1>1. RadioOK' /\ QueueOK' /\ SlotsInv' /\ ContentsInv'
  BY PartsUnchanged, UnreadType, Zenon
  DEF CallDequeue, QueueSame, irqVars, bufVars, statVars
<1>2. FlagsOK' /\ ReaderOK'
  BY Zenon DEF CallDequeue, CanRead, IInv, TypeOK, FlagsOK, ReaderOK, irqVars, Places
<1>3. ReaderInv'
  BY Zenon DEF CallDequeue, CanRead, IInv, ReaderInv, irqVars, bufVars, NoMessage
<1> QED BY <1>1, <1>2, <1>3, Zenon DEF IInv, TypeOK

(* A message is begun: it is the slot at the read index, which exists. *)
LEMMA BeginMessageInv ==
  ASSUME IInv, BeginMessage
  PROVE  IInv'
<1>1. RadioOK' /\ QueueOK' /\ SlotsInv' /\ ContentsInv'
  BY PartsUnchanged, UnreadType, Zenon
  DEF BeginMessage, QueueSame, irqVars, bufVars, statVars
<1>2. FlagsOK'
  BY Zenon DEF BeginMessage, IInv, TypeOK, FlagsOK, irqVars
<1>3. readIdx \in 0..(writeIdx - 1)
  <2>1. writeIdx # 0 /\ readIdx <= writeIdx /\ (readIdx = writeIdx => readIdx = 0)
    BY Zenon DEF BeginMessage, IInv, SlotsInv
  <2> QED BY <2>1, IndexTypes, ConstantTypes DEF IInv, TypeOK
<1>4. QueueOK /\ readIdx \in 0..MaxQueue /\ readIdx + 1 \in 0..MaxQueue
      /\ readIdx \in 0..writeIdx /\ readIdx + 1 \in 0..writeIdx /\ readIdx < readIdx + 1
  BY <1>3, IndexTypes, ConstantTypes DEF IInv, TypeOK
<1>5. ends[readIdx] \in 0..BufferSize /\ ends[readIdx + 1] \in 0..BufferSize
      /\ ends[readIdx] < ends[readIdx + 1]
  BY <1>4, SumTypes, Zenon DEF IInv, SlotsInv
<1>6. StartOfBuffer = ends[readIdx]
  BY <1>4, SumsDoNotWrap DEF StartOfBuffer
<1>7. incoming' = [id |-> buffer[ends[readIdx]], start |-> ends[readIdx],
                   length |-> ends[readIdx + 1] - ends[readIdx]]
  BY <1>6, Zenon DEF BeginMessage
<1>8. ReaderOK'
  <2>1. ends[readIdx] \in 0..(BufferSize - 1)
    BY <1>5, ConstantTypes
  <2>2. buffer[ends[readIdx]] \in 0..MaxPackets
    BY <1>4, <2>1, Zenon DEF QueueOK
  <2>3. ends[readIdx + 1] - ends[readIdx] \in 0..BufferSize
    BY <1>5, ConstantTypes
  <2>4. incoming' \in [id : 0..MaxPackets, start : 0..BufferSize, length : 0..BufferSize]
    BY <1>5, <1>7, <2>2, <2>3
  <2> QED BY <2>4, Zenon DEF BeginMessage, ReaderOK, Places
<1>9. ReaderInv'
  <2>1. UNCHANGED <<buffer, ends, readIdx, writeIdx>>
    BY Zenon DEF BeginMessage, bufVars
  <2>2. readIdx < writeIdx
    BY <1>3, <1>4, IndexTypes
  <2>3. checkedOut' = TRUE /\ pc' = "handle" /\ ~reading'
    BY Zenon DEF BeginMessage
  <2> QED BY <1>7, <2>1, <2>2, <2>3, Zenon DEF ReaderInv
<1> QED BY <1>1, <1>2, <1>8, <1>9, Zenon DEF IInv, TypeOK

(* A message is checked out by the station only while it is handled, so    *)
(* readMessages never finds REENTRY_NOT_SUPPORTED and never clears.        *)
LEMMA NoMessageBegunInv ==
  ASSUME IInv, NoMessageBegun
  PROVE  IInv'
<1>1. UNCHANGED <<bufVars, checkedOut>>
  <2>1. ~(writeIdx # 0 /\ ~Modem)
    BY Zenon DEF NoMessageBegun, IInv, ReaderInv
  <2> QED BY <2>1, Zenon DEF NoMessageBegun
<1>2. RadioOK' /\ QueueOK' /\ SlotsInv' /\ ContentsInv'
  BY <1>1, PartsUnchanged, UnreadType, Zenon
  DEF NoMessageBegun, QueueSame, irqVars, bufVars, statVars
<1>3. FlagsOK' /\ ReaderOK'
  BY <1>1, Zenon DEF NoMessageBegun, IInv, TypeOK, FlagsOK, ReaderOK, irqVars, Places
<1>4. ReaderInv'
  BY <1>1, Zenon DEF NoMessageBegun, IInv, ReaderInv, irqVars, bufVars, NoMessage
<1> QED BY <1>2, <1>3, <1>4, Zenon DEF IInv, TypeOK

(* The radio is started again with no message checked out. *)
LEMMA LoopAgainInv ==
  ASSUME IInv, LoopAgain
  PROVE  IInv'
<1>1. (s_packetWaiting' => s_packetWaiting) /\ s_packetWaiting' \in BOOLEAN
      /\ initRequired' \in BOOLEAN
  BY Zenon DEF LoopAgain, IInv, TypeOK, FlagsOK
<1>2. unread' \in Nat
  BY UnreadType, Zenon DEF LoopAgain
<1>3. RadioOK' /\ QueueOK' /\ SlotsInv' /\ ContentsInv'
  BY <1>1, <1>2, PartsUnchanged, Zenon DEF LoopAgain, QueueSame
<1>4. FlagsOK' /\ ReaderOK'
  BY <1>1, Zenon DEF LoopAgain, IInv, TypeOK, FlagsOK, ReaderOK, Places
<1>5. ReaderInv'
  BY <1>1, Zenon DEF LoopAgain, IInv, ReaderInv, bufVars, NoMessage
<1> QED BY <1>3, <1>4, <1>5, Zenon DEF IInv, TypeOK

(* A handled message leaves the queue of the station; what remains are     *)
(* later slots of the same sums.                                           *)
LEMMA DoneWithBufferIndices ==
  ASSUME IInv, DoneWithBuffer, checkedOut
  PROVE  /\ UNCHANGED <<buffer, ends>> /\ checkedOut' = FALSE
         /\ \/ readIdx + 1 = writeIdx /\ readIdx' = 0 /\ writeIdx' = 0
            \/ readIdx + 1 < writeIdx /\ readIdx' = readIdx + 1 /\ writeIdx' = writeIdx
         /\ readIdx' \in 0..MaxQueue /\ writeIdx' \in 0..writeIdx
<1>1. readIdx < writeIdx
  BY Zenon DEF IInv, ReaderInv
<1>2. readIdx \in 0..MaxQueue /\ writeIdx \in 0..MaxQueue /\ MaxQueue \in Nat
  BY IndexTypes, ConstantTypes DEF IInv, TypeOK
<1>3. UNCHANGED <<buffer, ends>> /\ checkedOut' = FALSE
  BY Zenon DEF DoneWithBuffer
<1>4. CASE readIdx + 1 >= writeIdx
  <2>1. readIdx' = 0 /\ writeIdx' = 0
    BY <1>4, Zenon DEF DoneWithBuffer
  <2> QED BY <1>1, <1>2, <1>3, <1>4, <2>1
<1>5. CASE ~(readIdx + 1 >= writeIdx)
  <2>1. readIdx' = readIdx + 1 /\ writeIdx' = writeIdx
    BY <1>5, Zenon DEF DoneWithBuffer
  <2> QED BY <1>1, <1>2, <1>3, <1>5, <2>1
<1> QED BY <1>4, <1>5, Zenon

LEMMA NarrowerInterval ==
  ASSUME NEW m \in Int, NEW n \in Int, m <= n
  PROVE  \A i \in 0..(m - 1) : i \in 0..(n - 1)
OBVIOUS

LEMMA EndMessageInv ==
  ASSUME IInv, EndMessage
  PROVE  IInv'
<1>1. RadioOK /\ QueueOK /\ SlotsInv /\ ContentsInv /\ ReaderInv /\ checkedOut
  BY Zenon DEF IInv, TypeOK, EndMessage, ReaderInv
<1>2. NoMessage \in [id : 0..MaxPackets, start : 0..BufferSize, length : 0..BufferSize]
  BY ConstantTypes DEF NoMessage
<1>3. ReaderOK'
  BY <1>2, Zenon DEF EndMessage, ReaderOK, Places
<1>4. CASE Modem
  <2>1. UNCHANGED <<bufVars, checkedOut>>
    BY <1>4, Zenon DEF EndMessage
  <2>2. RadioOK' /\ QueueOK' /\ SlotsInv' /\ ContentsInv'
    BY <2>1, PartsUnchanged, UnreadType, Zenon
    DEF EndMessage, QueueSame, irqVars, bufVars, statVars
  <2>3. FlagsOK'
    BY <2>1, Zenon DEF EndMessage, IInv, TypeOK, FlagsOK, irqVars
  <2>4. ReaderInv'
    BY <1>1, <1>4, <2>1, Zenon DEF EndMessage, ReaderInv, irqVars, bufVars, NoMessage
  <2> QED BY <1>3, <2>2, <2>3, <2>4, Zenon DEF IInv, TypeOK
<1>5. CASE ~Modem
  <2>1. DoneWithBuffer
    BY <1>5, Zenon DEF EndMessage
  <2>2. UNCHANGED <<irqVars, statVars, reading, initRequired>> /\ pc' = "loop"
        /\ incoming' = NoMessage
    BY Zenon DEF EndMessage
  <2>3. /\ UNCHANGED <<buffer, ends>> /\ checkedOut' = FALSE
        /\ readIdx' \in 0..MaxQueue /\ writeIdx' \in 0..writeIdx
    BY <1>1, <2>1, DoneWithBufferIndices, Zenon
  <2>4. \/ readIdx + 1 = writeIdx /\ readIdx' = 0 /\ writeIdx' = 0
        \/ readIdx + 1 < writeIdx /\ readIdx' = readIdx + 1 /\ writeIdx' = writeIdx
    BY <1>1, <2>1, DoneWithBufferIndices, Zenon
  <2>5. FlagsOK'
    BY <2>2, <2>3, Zenon DEF IInv, TypeOK, FlagsOK, irqVars
  <2>6. RadioOK'
    BY <1>1, <2>2, RadioUnchanged, UnreadType, Zenon DEF irqVars, statVars
  <2>7. writeIdx \in 0..MaxQueue /\ readIdx \in 0..MaxQueue /\ MaxQueue \in Nat
    BY <1>1, IndexTypes, ConstantTypes
  <2>8. \A i \in 0..writeIdx' : i \in 0..writeIdx
    BY <2>3, <2>7
  <2>9. \A i \in 0..(writeIdx' - 1) : i \in 0..(writeIdx - 1)
    <3>1. writeIdx' \in 0..writeIdx
      BY <2>3, Zenon
    <3>2. writeIdx' \in Int /\ writeIdx' <= writeIdx /\ writeIdx \in Int
      BY <2>7, <3>1
    <3> QED BY <3>2, NarrowerInterval
  <2>10. QueueOK'
    <3>1. writeIdx' \in 0..MaxQueue
      BY <2>3, <2>7
    <3> QED BY <1>1, <2>3, <3>1, Zenon DEF QueueOK
  <2>11. SlotsInv'
    <3>1. readIdx' <= writeIdx' /\ (readIdx' = writeIdx' => readIdx' = 0)
      BY <2>4, <2>7
    <3> QED BY <1>1, <2>3, <2>8, <3>1, Zenon DEF SlotsInv
  <2>12. ContentsInv'
    <3>1. UNCHANGED <<s_packetWaiting, radio, received>>
      BY <2>2, Zenon DEF irqVars
    <3> QED BY <1>1, <2>3, <2>9, <3>1, Zenon DEF ContentsInv
  <2>13. ReaderInv'
    <3>1. reading' = reading /\ ~reading
      BY Zenon DEF EndMessage
    <3>2. ~reading'
      BY <3>1, Zenon
    <3>3. pc' # "handle" /\ ~checkedOut'
      BY <2>2, <2>3
    <3>4. incoming' = NoMessage'
      BY <2>2, Zenon DEF NoMessage
    <3> QED BY <3>2, <3>3, <3>4, Zenon DEF ReaderInv
  <2> QED BY <1>3, <2>5, <2>6, <2>10, <2>11, <2>12, <2>13, Zenon DEF IInv, TypeOK
<1> QED BY <1>4, <1>5

(* A step that changes nothing. *)
LEMMA StutterInv ==
  ASSUME IInv, UNCHANGED vars
  PROVE  IInv'
<1>1. RadioOK' /\ QueueOK' /\ SlotsInv' /\ ContentsInv'
  BY PartsUnchanged, UnreadType, Zenon DEF vars, QueueSame, irqVars, bufVars, statVars
<1>2. FlagsOK' /\ ReaderOK'
  BY Zenon DEF vars, IInv, TypeOK, FlagsOK, ReaderOK, irqVars
<1>3. ReaderInv'
  BY Zenon DEF vars, IInv, ReaderInv, irqVars, bufVars, NoMessage
<1> QED BY <1>1, <1>2, <1>3, Zenon DEF IInv, TypeOK

-----------------------------------------------------------------------------
(***************************************************************************)
(* The inductive invariant holds of every behaviour of the queue           *)
(* (RxDone, readIfPossible, dequeueMessage, doneWithBuffer).               *)
(***************************************************************************)
THEOREM Invariance == Spec => []IInv
<1>1. Init => IInv
  BY InitInv
<1>2. IInv /\ [Next]_vars => IInv'
  <2> SUFFICES ASSUME IInv, [Next]_vars PROVE IInv'
    OBVIOUS
  <2>1. ASSUME NEW length \in Lengths, NEW state \in ReadResults, RxDone(length, state)
        PROVE  IInv'
    BY <2>1, RxDoneInv
  <2>2. CASE CallReadIfPossible
    BY <2>2, CallReadIfPossibleInv
  <2>3. CASE ReadPacket
    BY <2>3, ReadPacketInv
  <2>4. CASE TransmitFails
    BY <2>4, TransmitFailsInv
  <2>5. CASE CallDequeue
    BY <2>5, CallDequeueInv
  <2>6. CASE BeginMessage
    BY <2>6, BeginMessageInv
  <2>7. CASE NoMessageBegun
    BY <2>7, NoMessageBegunInv
  <2>8. CASE EndMessage
    BY <2>8, EndMessageInv
  <2>9. CASE LoopAgain
    BY <2>9, LoopAgainInv
  <2>10. CASE UNCHANGED vars
    BY <2>10, StutterInv
  <2> QED
    BY <2>1, <2>2, <2>3, <2>4, <2>5, <2>6, <2>7, <2>8, <2>9, <2>10, Zenon DEF Next
<1> QED BY <1>1, <1>2, PTL DEF Spec

(***************************************************************************)
(* The indices stay within _messageLengths and the sums of the lengths     *)
(* within _buffer: getBufferWriteOffset never points past it.              *)
(***************************************************************************)
THEOREM TypeCorrect == Spec => []TypeOK
<1>1. IInv => TypeOK
  BY Zenon DEF IInv
<1> QED BY <1>1, Invariance, PTL

(***************************************************************************)
(* The message handed out by dequeueMessage is left alone until            *)
(* doneWithBuffer, however many packets readIfPossible copies meanwhile.   *)
(***************************************************************************)
LEMMA IntactFromInv == IInv => MessageIntact
<1> SUFFICES ASSUME IInv, pc = "handle"
             PROVE  /\ incoming.id # 0
                    /\ incoming.length > 0
                    /\ \A b \in incoming.start..(incoming.start + incoming.length - 1) :
                         buffer[b] = incoming.id
  BY Zenon DEF MessageIntact
<1>1. QueueOK /\ RadioOK /\ SlotsInv /\ ContentsInv /\ ReaderInv
  BY Zenon DEF IInv, TypeOK
<1>2. /\ readIdx < writeIdx
      /\ incoming = [id |-> buffer[ends[readIdx]], start |-> ends[readIdx],
                     length |-> ends[readIdx + 1] - ends[readIdx]]
  BY <1>1, Zenon DEF ReaderInv
<1>3. incoming.id = buffer[ends[readIdx]] /\ incoming.start = ends[readIdx]
      /\ incoming.length = ends[readIdx + 1] - ends[readIdx]
  BY <1>2
<1>4. readIdx \in 0..(writeIdx - 1) /\ readIdx \in 0..writeIdx /\ readIdx + 1 \in 0..writeIdx
      /\ readIdx \in 0..MaxQueue /\ readIdx + 1 \in 0..MaxQueue /\ readIdx < readIdx + 1
  BY <1>1, <1>2, IndexTypes, ConstantTypes
<1>5. buffer[ends[readIdx]] \in 1..received
      /\ \A b \in ends[readIdx]..(ends[readIdx + 1] - 1) : buffer[b] = buffer[ends[readIdx]]
  BY <1>1, <1>4, Zenon DEF ContentsInv
<1>6. ends[readIdx] < ends[readIdx + 1] /\ ends[readIdx] \in 0..BufferSize
      /\ ends[readIdx + 1] \in 0..BufferSize
  BY <1>1, <1>4, SumTypes, Zenon DEF SlotsInv
<1>7. incoming.start + incoming.length - 1 = ends[readIdx + 1] - 1 /\ incoming.length > 0
  BY <1>3, <1>6, ConstantTypes
<1>8. received \in Nat
  BY <1>1, RadioTypes, ConstantTypes
<1>9. incoming.id # 0
  BY <1>3, <1>5, <1>8
<1> QED BY <1>3, <1>5, <1>7, <1>9, Zenon

THEOREM Intact == Spec => []MessageIntact
BY Invariance, IntactFromInv, PTL

-----------------------------------------------------------------------------
(* Refinement: what a step does to the queue of RxFifo. *)

(* The part of the mapping that a step leaves alone. *)
LEMMA QueuedUnchanged ==
  ASSUME UNCHANGED <<bufVars, checkedOut>>
  PROVE  Queued' = Queued
BY Zenon DEF Queued, FirstQueued, bufVars

LEMMA WaitingUnchanged ==
  ASSUME UNCHANGED <<s_packetWaiting, radio>>
  PROVE  Waiting' = Waiting
BY Zenon DEF Waiting

(* A packet that waits has a number, and it is younger than all others. *)
LEMMA WaitingPositive ==
  ASSUME IInv, s_packetWaiting
  PROVE  Waiting = radio.id /\ Waiting # 0
<1>1. radio.id = received /\ received > 0
  BY Zenon DEF IInv, ContentsInv
<1>2. received \in Nat
  BY RadioTypes, ConstantTypes DEF IInv, TypeOK
<1> QED BY <1>1, <1>2 DEF Waiting

LEMMA InitRefines == Init => Fifo!Init
<1> SUFFICES ASSUME Init PROVE Fifo!Init
  OBVIOUS
<1>1. Queued = {}
  <2>1. FirstQueued..(writeIdx - 1) = {}
    BY DEF Init, FirstQueued
  <2> QED BY <2>1, Zenon DEF Queued
<1>2. received = 0 /\ Waiting = 0
  BY Zenon DEF Init, Waiting
<1>3. incoming.id = 0
  BY DEF Init, NoMessage
<1> QED BY <1>1, <1>2, <1>3, Zenon DEF Fifo!Init

LEMMA RxDoneRefines ==
  ASSUME IInv, NEW length \in Lengths, NEW state \in ReadResults, RxDone(length, state)
  PROVE  Fifo!Receive
<1>1. Queued' = Queued
  BY QueuedUnchanged, Zenon DEF RxDone
<1>2. radio' = [id |-> received', length |-> length, state |-> state] /\ s_packetWaiting' = TRUE
  BY Zenon DEF RxDone
<1>3. Waiting' = received'
  <2>1. radio'.id = received'
    BY <1>2
  <2> QED BY <1>2, <2>1, Zenon DEF Waiting
<1> QED BY <1>1, <1>3, Zenon DEF RxDone, Fifo!Receive

(* What is read becomes the youngest packet of the queue, or is dropped. *)
LEMMA ReadPacketRefines ==
  ASSUME IInv, ReadPacket
  PROVE  Fifo!Next \/ UNCHANGED Fifo!vars
<1>0. ReadEffect
  BY ReadPacketCases
<1>1. s_packetWaiting
  BY Zenon DEF ReadPacket, IInv, ReaderInv
<1>2. Waiting = radio.id /\ Waiting # 0
  BY <1>1, WaitingPositive
<1>3. /\ UNCHANGED <<received, incoming, radio, checkedOut, readIdx>>
      /\ FirstQueued' = FirstQueued /\ incoming'.id = incoming.id
  BY <1>0, Zenon DEF ReadEffect, FirstQueued
<1>4. QueueOK /\ RadioOK /\ SlotsInv /\ ReaderInv
  BY Zenon DEF IInv, TypeOK
<1>5. /\ writeIdx \in 0..MaxQueue /\ readIdx \in 0..MaxQueue /\ MaxQueue \in Nat
      /\ BufferSize \in Nat /\ radio.length \in 0..BufferSize
  BY <1>4, IndexTypes, RadioTypes, ConstantTypes
<1>6. FirstQueued \in 0..writeIdx
  <2>1. checkedOut => readIdx < writeIdx
    BY <1>4, Zenon DEF ReaderInv
  <2>2. readIdx <= writeIdx
    BY <1>4, Zenon DEF SlotsInv
  <2>3. CASE checkedOut
    <3>1. FirstQueued = readIdx + 1
      BY <2>3, Zenon DEF FirstQueued
    <3> QED BY <1>5, <2>1, <2>3, <3>1
  <2>4. CASE ~checkedOut
    <3>1. FirstQueued = readIdx
      BY <2>4, Zenon DEF FirstQueued
    <3> QED BY <1>5, <2>2, <3>1
  <2> QED BY <2>3, <2>4, Zenon
<1>7. \A i \in 0..MaxQueue : ends[i] \in 0..BufferSize
  BY <1>4, SumTypes
<1>8. ends \in [0..MaxQueue -> 0..BufferSize]
  BY <1>4, Zenon DEF QueueOK
<1>9. \A i \in FirstQueued..(writeIdx - 1) :
         i \in 0..MaxQueue /\ ends[i] \in 0..(BufferSize - 1) /\ ends[i] < ends[writeIdx]
  <2> SUFFICES ASSUME NEW i \in FirstQueued..(writeIdx - 1)
               PROVE  i \in 0..MaxQueue /\ ends[i] \in 0..(BufferSize - 1)
                      /\ ends[i] < ends[writeIdx]
    OBVIOUS
  <2>1. i \in 0..MaxQueue /\ i \in 0..writeIdx /\ writeIdx \in 0..writeIdx /\ i < writeIdx
    BY <1>5, <1>6
  <2>2. ends[i] < ends[writeIdx]
    BY <1>4, <2>1, Zenon DEF SlotsInv
  <2> QED BY <1>5, <1>7, <2>1, <2>2
<1>10. \A b \in 0..(BufferSize - 1) : b < ends[writeIdx] => buffer'[b] = buffer[b]
  BY <1>0, <1>4, CopyLeaves, Zenon DEF ReadLeaves, ReadAdds, ReadEffect
<1>11. CASE ReadLeaves
  <2>1. UNCHANGED <<ends, writeIdx>>
    BY <1>11, Zenon DEF ReadLeaves
  <2>2. Queued' = Queued
    <3> DEFINE slots == FirstQueued..(writeIdx - 1)
    <3>1. (FirstQueued..(writeIdx - 1))' = slots
      BY <1>3, <2>1, Zenon
    <3>2. \A i \in slots : buffer'[ends'[i]] = buffer[ends[i]]
      BY <1>9, <1>10, <2>1, Zenon
    <3>3. Queued' = {buffer'[ends'[i]] : i \in slots}
      BY <3>1, Zenon DEF Queued
    <3>4. Queued = {buffer[ends[i]] : i \in slots}
      BY Zenon DEF Queued
    <3> HIDE DEF slots
    <3> QED BY <3>2, <3>3, <3>4, ZenonT(30)
  <2>3. CASE s_packetWaiting'
    <3>1. Waiting' = Waiting
      BY <1>1, <1>3, <2>3, Zenon DEF Waiting
    <3> QED BY <1>3, <2>2, <3>1, Zenon DEF Fifo!vars
  <2>4. CASE ~s_packetWaiting'
    <3>1. Waiting' = 0
      BY <2>4, Zenon DEF Waiting
    <3> QED BY <1>2, <1>3, <2>2, <3>1, Zenon DEF Fifo!Next, Fifo!Discard
  <2> QED BY <2>3, <2>4, Zenon
<1>12. CASE ReadAdds
  <2>1. writeIdx' = writeIdx + 1 /\ writeIdx' - 1 = writeIdx
    BY <1>5, <1>12 DEF ReadAdds
  <2>2. ends' = [ends EXCEPT ![writeIdx + 1] = ends[writeIdx] + radio.length]
        /\ radio.length > 0 /\ ends[writeIdx] + radio.length <= BufferSize
        /\ CopyPacket(ends[writeIdx]) /\ s_packetWaiting' = FALSE
    BY <1>12, Zenon DEF ReadAdds
  <2>3. \A i \in 0..writeIdx : i \in 0..MaxQueue => ends'[i] = ends[i]
    BY <1>5, <1>8, <2>2
  <2>4. buffer'[ends'[writeIdx]] = radio.id
    <3>1. ends'[writeIdx] = ends[writeIdx]
      BY <1>5, <2>3
    <3>2. ends[writeIdx] \in 0..(BufferSize - 1)
          /\ ends[writeIdx] \in ends[writeIdx]..(ends[writeIdx] + radio.length - 1)
      BY <1>5, <1>7, <2>2
    <3> QED BY <2>2, <3>1, <3>2, Zenon DEF CopyPacket
  <2>5. \A i \in FirstQueued..(writeIdx - 1) : buffer'[ends'[i]] = buffer[ends[i]]
    <3> SUFFICES ASSUME NEW i \in FirstQueued..(writeIdx - 1)
                 PROVE  buffer'[ends'[i]] = buffer[ends[i]]
      OBVIOUS
    <3>1. i \in 0..writeIdx
      BY <1>5, <1>6
    <3>2. ends'[i] = ends[i]
      BY <1>9, <2>3, <3>1, Zenon
    <3>3. ends[i] \in 0..(BufferSize - 1) /\ ends[i] < ends[writeIdx]
      BY <1>9, Zenon
    <3>4. buffer'[ends[i]] = buffer[ends[i]]
      BY <1>10, <3>3, Zenon
    <3> QED BY <3>2, <3>4, Zenon
  <2>6. \A i : i \in FirstQueued..writeIdx <=> i \in FirstQueued..(writeIdx - 1) \/ i = writeIdx
    BY <1>5, <1>6
  <2>7. Queued' = {buffer'[ends'[i]] : i \in FirstQueued..writeIdx}
    BY <1>3, <2>1, Zenon DEF Queued
  <2>8. Queued' = Queued \union {Waiting}
    <3>1. Queued = {buffer'[ends'[i]] : i \in FirstQueued..(writeIdx - 1)}
      BY <2>5, ZenonT(30) DEF Queued
    <3>2. Waiting = buffer'[ends'[writeIdx]]
      BY <1>2, <2>4, Zenon
    <3> HIDE DEF Queued
    <3> QED BY <2>6, <2>7, <3>1, <3>2, Zenon
  <2>9. Waiting' = 0
    BY <2>2, Zenon DEF Waiting
  <2> QED BY <1>2, <1>3, <2>8, <2>9, Zenon DEF Fifo!Next, Fifo!Accept
<1> QED BY <1>0, <1>11, <1>12, Zenon DEF ReadEffect

(* The slot at the read index holds the oldest packet. *)
LEMMA BeginMessageRefines ==
  ASSUME IInv, BeginMessage
  PROVE  Fifo!Begin
<1> DEFINE p == buffer[ends[readIdx]]
<1>1. QueueOK /\ RadioOK /\ SlotsInv /\ ContentsInv /\ ReaderInv
  BY Zenon DEF IInv, TypeOK
<1>2. /\ UNCHANGED <<bufVars, irqVars>> /\ ~checkedOut /\ checkedOut' = TRUE
      /\ pc # "handle" /\ writeIdx # 0
      /\ incoming' = [id |-> buffer[StartOfBuffer], start |-> StartOfBuffer,
                      length |-> ends[readIdx + 1] - ends[readIdx]]
  BY Zenon DEF BeginMessage
<1>3. writeIdx \in 0..MaxQueue /\ readIdx \in 0..MaxQueue /\ MaxQueue \in Nat
  BY <1>1, IndexTypes, ConstantTypes
<1>4. readIdx <= writeIdx /\ (readIdx = writeIdx => readIdx = 0)
  BY <1>1, Zenon DEF SlotsInv
<1>5. readIdx \in readIdx..(writeIdx - 1)
  BY <1>2, <1>3, <1>4
<1>6. FirstQueued = readIdx /\ FirstQueued' = readIdx + 1 /\ UNCHANGED <<buffer, ends, writeIdx>>
  BY <1>2, Zenon DEF FirstQueued, bufVars
<1>7. Queued = {buffer[ends[i]] : i \in readIdx..(writeIdx - 1)}
      /\ Queued' = {buffer[ends[i]] : i \in (readIdx + 1)..(writeIdx - 1)}
  BY <1>6, Zenon DEF Queued
<1>8. \A i : i \in readIdx..(writeIdx - 1) <=> i = readIdx \/ i \in (readIdx + 1)..(writeIdx - 1)
  BY <1>3, <1>5
<1>9. \A i \in (readIdx + 1)..(writeIdx - 1) : p < buffer[ends[i]]
  <2> SUFFICES ASSUME NEW i \in (readIdx + 1)..(writeIdx - 1) PROVE p < buffer[ends[i]]
    OBVIOUS
  <2>1. i \in 0..(writeIdx - 1) /\ readIdx \in 0..(writeIdx - 1) /\ readIdx < i
    BY <1>3
  <2> QED BY <1>1, <2>1, Zenon DEF ContentsInv
<1>10. \A i \in readIdx..(writeIdx - 1) : buffer[ends[i]] \in Nat
  <2> SUFFICES ASSUME NEW i \in readIdx..(writeIdx - 1) PROVE buffer[ends[i]] \in Nat
    OBVIOUS
  <2>1. i \in 0..(writeIdx - 1)
    BY <1>3
  <2>2. buffer[ends[i]] \in 1..received
    BY <1>1, <2>1, Zenon DEF ContentsInv
  <2>3. received \in Nat
    BY <1>1, RadioTypes, ConstantTypes
  <2> QED BY <2>2, <2>3
<1>11. \A i \in readIdx..(writeIdx - 1) : p <= buffer[ends[i]]
  <2> SUFFICES ASSUME NEW i \in readIdx..(writeIdx - 1) PROVE p <= buffer[ends[i]]
    OBVIOUS
  <2> HIDE DEF p
  <2>1. p \in Nat /\ buffer[ends[i]] \in Nat
    BY <1>5, <1>10 DEF p
  <2>2. CASE i = readIdx
    BY <2>1, <2>2 DEF p
  <2>3. CASE i \in (readIdx + 1)..(writeIdx - 1)
    BY <1>9, <2>1, <2>3
  <2> QED BY <1>8, <2>2, <2>3
<1>12. p \in Queued /\ \A q \in Queued : p <= q
  BY <1>5, <1>7, <1>11, Zenon
<1>13. Queued' = Queued \ {p}
  <2>1. \A i \in (readIdx + 1)..(writeIdx - 1) : buffer[ends[i]] # p
    <3> SUFFICES ASSUME NEW i \in (readIdx + 1)..(writeIdx - 1) PROVE buffer[ends[i]] # p
      OBVIOUS
    <3> HIDE DEF p
    <3>1. p \in Nat /\ buffer[ends[i]] \in Nat /\ p < buffer[ends[i]]
      BY <1>5, <1>8, <1>9, <1>10 DEF p
    <3> QED BY <3>1
  <2> QED BY <1>7, <1>8, <2>1, Zenon
<1>14. StartOfBuffer = ends[readIdx]
  BY <1>1, <1>3, SumsDoNotWrap DEF StartOfBuffer
<1>15. incoming'.id = p
  BY <1>2, <1>14
<1>16. incoming.id = 0
  <2>1. incoming = NoMessage
    BY <1>1, <1>2, Zenon DEF ReaderInv
  <2> QED BY <2>1 DEF NoMessage
<1>17. Waiting' = Waiting /\ received' = received
  BY <1>2, WaitingUnchanged, Zenon DEF irqVars
<1> QED BY <1>12, <1>13, <1>15, <1>16, <1>17, Zenon DEF Fifo!Begin, Fifo!IsOldest

(* The slot of a handled message is not a queued one. *)
LEMMA EndMessageRefines ==
  ASSUME IInv, EndMessage
  PROVE  Fifo!Finish
<1>1. ReaderInv /\ pc = "handle" /\ checkedOut
  BY Zenon DEF IInv, EndMessage, ReaderInv
<1>2. incoming.id # 0
  BY <1>1, IntactFromInv, Zenon DEF MessageIntact
<1>3. incoming'.id = 0
  <2>1. incoming' = NoMessage
    BY Zenon DEF EndMessage
  <2> QED BY <2>1 DEF NoMessage
<1>4. Waiting' = Waiting /\ received' = received
  BY WaitingUnchanged, Zenon DEF EndMessage, irqVars
<1>5. Queued' = Queued
  <2>1. CASE Modem
    <3>1. UNCHANGED <<bufVars, checkedOut>>
      BY <2>1, Zenon DEF EndMessage
    <3> QED BY <3>1, QueuedUnchanged
  <2>2. CASE ~Modem
    <3>1. DoneWithBuffer
      BY <2>2, Zenon DEF EndMessage
    <3>2. UNCHANGED <<buffer, ends>> /\ checkedOut' = FALSE
      BY <1>1, <3>1, DoneWithBufferIndices, Zenon
    <3>3. \/ readIdx + 1 = writeIdx /\ readIdx' = 0 /\ writeIdx' = 0
          \/ readIdx + 1 < writeIdx /\ readIdx' = readIdx + 1 /\ writeIdx' = writeIdx
      BY <1>1, <3>1, DoneWithBufferIndices, Zenon
    <3>4. FirstQueued = readIdx + 1 /\ FirstQueued' = readIdx'
      BY <1>1, <3>2, Zenon DEF FirstQueued
    <3>5. CASE readIdx + 1 = writeIdx /\ readIdx' = 0 /\ writeIdx' = 0
      <4>1. FirstQueued..(writeIdx - 1) = {}
        <5>1. readIdx \in Int /\ writeIdx \in Int
          BY IndexTypes, ConstantTypes DEF IInv, TypeOK
        <5> QED BY <3>4, <3>5, <5>1
      <4>2. (FirstQueued..(writeIdx - 1))' = {}
        BY <3>4, <3>5
      <4> QED BY <4>1, <4>2, Zenon DEF Queued
    <3>6. CASE readIdx + 1 < writeIdx /\ readIdx' = readIdx + 1 /\ writeIdx' = writeIdx
      BY <3>2, <3>4, <3>6, Zenon DEF Queued
    <3> QED BY <3>3, <3>5, <3>6, Zenon
  <2> QED BY <2>1, <2>2
<1> QED BY <1>2, <1>3, <1>4, <1>5, Zenon DEF Fifo!Finish

(* Starting the radio again may lose the packet that waited. *)
LEMMA LoopAgainRefines ==
  ASSUME IInv, LoopAgain
  PROVE  Fifo!Next \/ UNCHANGED Fifo!vars
<1>1. Queued' = Queued
  BY QueuedUnchanged, Zenon DEF LoopAgain
<1>2. received' = received /\ incoming' = incoming /\ radio' = radio
  BY Zenon DEF LoopAgain
<1>3. CASE s_packetWaiting' = s_packetWaiting
  <2>1. Waiting' = Waiting
    BY <1>2, <1>3, WaitingUnchanged
  <2> QED BY <1>1, <1>2, <2>1, Zenon DEF Fifo!vars
<1>4. CASE s_packetWaiting' # s_packetWaiting
  <2>1. s_packetWaiting' = FALSE /\ s_packetWaiting
    BY <1>4, Zenon DEF LoopAgain, IInv, TypeOK, FlagsOK
  <2>2. Waiting # 0
    BY <2>1, WaitingPositive
  <2>3. Waiting' = 0
    BY <2>1, Zenon DEF Waiting
  <2> QED BY <1>1, <1>2, <2>2, <2>3, Zenon DEF Fifo!Next, Fifo!Discard
<1> QED BY <1>3, <1>4, Zenon

LEMMA ReaderStutters ==
  ASSUME UNCHANGED <<irqVars, bufVars, checkedOut, incoming>>
  PROVE  UNCHANGED Fifo!vars
<1>1. Queued' = Queued
  BY QueuedUnchanged, Zenon
<1>2. Waiting' = Waiting /\ received' = received
  BY WaitingUnchanged, Zenon DEF irqVars
<1> QED BY <1>1, <1>2, Zenon DEF Fifo!vars

(***************************************************************************)
(* Every behaviour of the receive queue is one of the FIFO: packets that   *)
(* readIfPossible queued are handed out once each, in the order received,  *)
(* one at a time, and no step drops one from the queue.                    *)
(***************************************************************************)
THEOREM Refinement == Spec => RefinesFifo
<1>1. Init => Fifo!Init
  BY InitRefines
<1>2. IInv /\ [Next]_vars => [Fifo!Next]_(Fifo!vars)
  <2> SUFFICES ASSUME IInv, [Next]_vars PROVE Fifo!Next \/ UNCHANGED Fifo!vars
    OBVIOUS
  <2>1. ASSUME NEW length \in Lengths, NEW state \in ReadResults, RxDone(length, state)
        PROVE  Fifo!Next
    BY <2>1, RxDoneRefines, Zenon DEF Fifo!Next
  <2>2. CASE CallReadIfPossible
    BY <2>2, ReaderStutters, Zenon DEF CallReadIfPossible
  <2>3. CASE ReadPacket
    BY <2>3, ReadPacketRefines
  <2>4. CASE TransmitFails
    BY <2>4, ReaderStutters, Zenon DEF TransmitFails
  <2>5. CASE CallDequeue
    BY <2>5, ReaderStutters, Zenon DEF CallDequeue
  <2>6. CASE BeginMessage
    BY <2>6, BeginMessageRefines, Zenon DEF Fifo!Next
  <2>7. CASE NoMessageBegun
    <3>1. ~(writeIdx # 0 /\ ~Modem)
      BY <2>7, Zenon DEF NoMessageBegun, IInv, ReaderInv
    <3> QED BY <2>7, <3>1, ReaderStutters, Zenon DEF NoMessageBegun
  <2>8. CASE EndMessage
    BY <2>8, EndMessageRefines, Zenon DEF Fifo!Next
  <2>9. CASE LoopAgain
    BY <2>9, LoopAgainRefines
  <2>10. CASE UNCHANGED vars
    BY <2>10, ReaderStutters, Zenon DEF vars
  <2> QED
    BY <2>1, <2>2, <2>3, <2>4, <2>5, <2>6, <2>7, <2>8, <2>9, <2>10, Zenon DEF Next
<1> QED BY <1>1, <1>2, Invariance, PTL DEF Spec, RefinesFifo, Fifo!Spec

(***************************************************************************)
(* Packets are numbered from 1, in the order received, and what is handled *)
(* is always older than what is queued, and that than what the modem holds:*)
(* packets are handled in order and none is handled twice (dequeueMessage  *)
(* reads the table of lengths from its front, CSMA.h:188-195).  So it is   *)
(* in every FIFO, and the code's queue is one.                             *)
(***************************************************************************)
FifoInv ==
  /\ received \in Nat /\ Waiting \in Nat /\ incoming.id \in Nat /\ Queued \subseteq Nat
  /\ Fifo!InOrder

THEOREM OldestFirst == Spec => []Fifo!InOrder
<1>1. Fifo!Init => FifoInv
  BY DEF Fifo!Init, FifoInv, Fifo!InOrder
<1>2. FifoInv /\ [Fifo!Next]_(Fifo!vars) => FifoInv'
  <2> SUFFICES ASSUME FifoInv, [Fifo!Next]_(Fifo!vars)
               PROVE  FifoInv'
    OBVIOUS
  <2> USE DEF FifoInv, Fifo!InOrder
  <2>1. CASE Fifo!Receive
    BY <2>1 DEF Fifo!Receive
  <2>2. CASE Fifo!Accept
    BY <2>2 DEF Fifo!Accept
  <2>3. CASE Fifo!Discard
    BY <2>3 DEF Fifo!Discard
  <2>4. CASE Fifo!Begin
    <3>1. PICK p \in Queued : /\ \A q \in Queued : p <= q
                              /\ incoming'.id = p
                              /\ Queued' = Queued \ {p}
      BY <2>4 DEF Fifo!Begin, Fifo!IsOldest
    <3>2. UNCHANGED <<received, Waiting>>
      BY <2>4 DEF Fifo!Begin
    <3>3. (received \in Nat /\ Waiting \in Nat /\ incoming.id \in Nat /\ Queued \subseteq Nat)'
      BY <3>1, <3>2
    <3>4. (\A q \in Queued : incoming.id < q /\ q <= received)'
      BY <3>1, <3>2
    <3>5. (incoming.id <= received)'
      BY <3>1, <3>2
    <3>6. (Waiting # 0 => Waiting = received /\ Waiting \notin Queued /\ incoming.id < Waiting)'
      BY <3>1, <3>2
    <3> QED  BY <3>3, <3>4, <3>5, <3>6
  <2>5. CASE Fifo!Finish
    BY <2>5 DEF Fifo!Finish
  <2>6. CASE UNCHANGED Fifo!vars
    BY <2>6 DEF Fifo!vars
  <2> QED  BY <2>1, <2>2, <2>3, <2>4, <2>5, <2>6 DEF Fifo!Next
<1>3. FifoInv => Fifo!InOrder
  BY DEF FifoInv
<1> QED  BY <1>1, <1>2, <1>3, Refinement, PTL DEF RefinesFifo, Fifo!Spec

-----------------------------------------------------------------------------
(***************************************************************************)
(* What the statistics count.                                              *)
(*                                                                         *)
(* The counter of the interrupt is ahead of _lastPacketCounter by the      *)
(* packets received since updateReadStats ran, those that were never read  *)
(* and the one that waits, less CounterMod for each time that it wrapped.  *)
(***************************************************************************)
InWaiting == IF s_packetWaiting THEN 1 ELSE 0

Ahead(wraps) == s_packetCounter + wraps * CounterMod = lastCounter + unread + InWaiting

CounterInv == \E wraps \in Nat : Ahead(wraps)

LEMMA CountTypes ==
  IInv => /\ unread \in Nat /\ s_packetWaiting \in BOOLEAN
          /\ s_packetCounter \in 0..(CounterMod - 1) /\ lastCounter \in 0..(CounterMod - 1)
BY Zenon DEF IInv, TypeOK, RadioOK, FlagsOK

LEMMA CounterInit == Init => CounterInv
<1> SUFFICES ASSUME Init PROVE CounterInv
  OBVIOUS
<1>1. 0 * CounterMod = 0
  BY ConstantTypes
<1>2. Ahead(0)
  BY <1>1 DEF Init, Ahead, InWaiting
<1> QED BY <1>2 DEF CounterInv

(***************************************************************************)
(* A counter goes on by one, or wraps to zero.                             *)
(***************************************************************************)
LEMMA CounterStep ==
  ASSUME NEW c \in 0..(CounterMod - 1)
  PROVE  (c + 1) % CounterMod = c + 1 \/ (c + 1 = CounterMod /\ (c + 1) % CounterMod = 0)
<1>1. CounterMod \in Nat /\ CounterMod > 0 /\ c \in Nat
  BY ConstantTypes
<1>2. CASE c + 1 < CounterMod
  BY <1>1, <1>2
<1>3. CASE c + 1 = CounterMod
  BY <1>1, <1>3
<1> QED BY <1>1, <1>2, <1>3

(* An interrupt: one more packet waits, or was overwritten. *)
LEMMA RxDoneCounts ==
  ASSUME IInv, NEW wraps \in Nat, Ahead(wraps),
         NEW length \in Lengths, NEW state \in ReadResults, RxDone(length, state)
  PROVE  CounterInv'
<1>1. /\ unread' = IF s_packetWaiting THEN unread + 1 ELSE unread
      /\ s_packetWaiting' = TRUE
      /\ s_packetCounter' = (s_packetCounter + 1) % CounterMod
      /\ lastCounter' = lastCounter
  BY Zenon DEF RxDone
<1>2. /\ unread \in Nat /\ s_packetWaiting \in BOOLEAN
      /\ s_packetCounter \in 0..(CounterMod - 1) /\ lastCounter \in 0..(CounterMod - 1)
  BY CountTypes
<1>3. unread' + InWaiting' = unread + InWaiting + 1 /\ InWaiting \in Nat /\ InWaiting' \in Nat
      /\ unread' \in Nat
  BY <1>1, <1>2 DEF InWaiting
<1>4. CounterMod \in Nat /\ wraps * CounterMod \in Nat
      /\ (wraps + 1) * CounterMod = wraps * CounterMod + CounterMod
  BY ConstantTypes
<1>5. s_packetCounter' \in Nat
      /\ s_packetCounter + wraps * CounterMod + 1 = lastCounter' + unread' + InWaiting'
  <2>1. s_packetCounter' \in Nat
    BY <1>1, <1>2, CounterStep
  <2>2. PICK product \in Nat : product = wraps * CounterMod
    BY <1>4
  <2>3. s_packetCounter + product = lastCounter + unread + InWaiting
    BY <2>2, Zenon DEF Ahead
  <2>4. s_packetCounter + product + 1 = lastCounter' + unread' + InWaiting'
    <3>1. lastCounter \in Nat /\ s_packetCounter \in Nat
      BY <1>2, ConstantTypes
    <3>2. lastCounter' + unread' + InWaiting' = lastCounter + unread + InWaiting + 1
      BY <1>1, <1>2, <1>3, <3>1 DEF InWaiting
    <3> QED BY <2>2, <2>3, <1>2, <1>3, <3>1, <3>2
  <2> QED BY <2>1, <2>2, <2>4
<1>6. CASE s_packetCounter' = s_packetCounter + 1
  <2>1. Ahead(wraps)'
    BY <1>2, <1>4, <1>5, <1>6 DEF Ahead
  <2> QED BY <2>1 DEF CounterInv
<1>7. CASE s_packetCounter + 1 = CounterMod /\ s_packetCounter' = 0
  <2>1. s_packetCounter' + (wraps + 1) * CounterMod = lastCounter' + unread' + InWaiting'
    BY <1>2, <1>4, <1>5, <1>7
  <2>2. PICK more \in Nat : more = wraps + 1
    OBVIOUS
  <2>3. Ahead(more)'
    BY <2>1, <2>2 DEF Ahead
  <2> QED BY <2>3 DEF CounterInv
<1> QED BY <1>1, <1>2, <1>6, <1>7, CounterStep

(* The packet that waited is forgotten: it is never read. *)
LEMMA ForgottenCounts ==
  ASSUME IInv, NEW wraps \in Nat, Ahead(wraps),
         UNCHANGED <<s_packetCounter, lastCounter>>,
         s_packetWaiting' = FALSE,
         unread' = IF s_packetWaiting THEN unread + 1 ELSE unread
  PROVE  CounterInv'
<1>1. unread \in Nat /\ s_packetWaiting \in BOOLEAN
  BY CountTypes
<1>2. unread' + InWaiting' = unread + InWaiting /\ InWaiting \in Nat /\ InWaiting' \in Nat
      /\ unread' \in Nat
  BY <1>1 DEF InWaiting
<1>3. wraps * CounterMod \in Nat /\ lastCounter \in Nat /\ s_packetCounter \in Nat
  BY CountTypes, ConstantTypes
<1>4. Ahead(wraps)'
  <2>1. PICK product \in Nat : product = wraps * CounterMod
    BY <1>3
  <2>2. s_packetCounter + product = lastCounter + unread + InWaiting
    BY <2>1, Zenon DEF Ahead
  <2>3. s_packetCounter' + product = lastCounter' + unread' + InWaiting'
    <3>1. lastCounter' + unread' + InWaiting' = lastCounter + unread + InWaiting
      BY <1>1, <1>2, <1>3 DEF InWaiting
    <3>2. s_packetCounter' = s_packetCounter
      OBVIOUS
    <3> QED BY <2>2, <3>1, <3>2
  <2> QED BY <2>1, <2>3 DEF Ahead
<1> QED BY <1>4 DEF CounterInv

LEMMA CountUnchanged ==
  ASSUME NEW wraps \in Nat, Ahead(wraps),
         UNCHANGED <<s_packetCounter, lastCounter, s_packetWaiting, unread>>
  PROVE  CounterInv'
<1>1. Ahead(wraps)'
  BY Zenon DEF Ahead, InWaiting
<1> QED BY <1>1 DEF CounterInv

(* The packet is read: nothing is left to count. *)
LEMMA ReadCounts ==
  ASSUME IInv, NEW wraps \in Nat, Ahead(wraps), ReadPacket
  PROVE  CounterInv'
<1>1. UNCHANGED s_packetCounter /\ s_packetWaiting
  BY Zenon DEF ReadPacket, IInv, ReaderInv
<1>2. \/ UNCHANGED <<s_packetWaiting, unread, lastCounter>>
      \/ s_packetWaiting' = FALSE /\ unread' = unread + 1 /\ UNCHANGED lastCounter
      \/ s_packetWaiting' = FALSE /\ lastCounter' = s_packetCounter /\ unread' = 0
  BY Zenon DEF ReadPacket, UpdateReadStats, statVars
<1>3. CASE UNCHANGED <<s_packetWaiting, unread, lastCounter>>
  BY <1>1, <1>3, CountUnchanged
<1>4. CASE s_packetWaiting' = FALSE /\ unread' = unread + 1 /\ UNCHANGED lastCounter
  <2>1. unread' = IF s_packetWaiting THEN unread + 1 ELSE unread
    BY <1>1, <1>4, Zenon
  <2> QED BY <1>1, <1>4, <2>1, ForgottenCounts
<1>5. CASE s_packetWaiting' = FALSE /\ lastCounter' = s_packetCounter /\ unread' = 0
  <2>1. 0 * CounterMod = 0 /\ s_packetCounter \in Nat
    BY CountTypes, ConstantTypes
  <2>2. Ahead(0)'
    BY <1>1, <1>5, <2>1 DEF Ahead, InWaiting
  <2> QED BY <2>2 DEF CounterInv
<1> QED BY <1>2, <1>3, <1>4, <1>5, Zenon

LEMMA LoopAgainCounts ==
  ASSUME IInv, NEW wraps \in Nat, Ahead(wraps), LoopAgain
  PROVE  CounterInv'
<1>1. UNCHANGED <<s_packetCounter, lastCounter>>
  BY Zenon DEF LoopAgain
<1>2. CASE initRequired /\ ~Modem
  BY <1>1, <1>2, ForgottenCounts, Zenon DEF LoopAgain
<1>3. CASE ~(initRequired /\ ~Modem)
  BY <1>1, <1>3, CountUnchanged, Zenon DEF LoopAgain
<1> QED BY <1>2, <1>3, Zenon

LEMMA Counted == Spec => []CounterInv
<1>1. Init => CounterInv
  BY CounterInit
<1>2. IInv /\ CounterInv /\ [Next]_vars => CounterInv'
  <2> SUFFICES ASSUME IInv, NEW wraps \in Nat, Ahead(wraps), [Next]_vars
               PROVE  CounterInv'
    BY Zenon DEF CounterInv
  <2>1. ASSUME NEW length \in Lengths, NEW state \in ReadResults, RxDone(length, state)
        PROVE  CounterInv'
    BY <2>1, RxDoneCounts
  <2>2. CASE ReadPacket
    BY <2>2, ReadCounts
  <2>3. CASE LoopAgain
    BY <2>3, LoopAgainCounts
  <2>4. CASE UNCHANGED <<s_packetCounter, lastCounter, s_packetWaiting, unread>>
    BY <2>4, CountUnchanged
  <2>5. \/ CallReadIfPossible \/ TransmitFails \/ CallDequeue \/ BeginMessage
        \/ NoMessageBegun \/ EndMessage \/ UNCHANGED vars
        => UNCHANGED <<s_packetCounter, lastCounter, s_packetWaiting, unread>>
    BY Zenon DEF CallReadIfPossible, TransmitFails, CallDequeue, BeginMessage, NoMessageBegun,
                 EndMessage, vars, irqVars, statVars
  <2> QED BY <2>1, <2>2, <2>3, <2>4, <2>5, Zenon DEF Next
<1> QED BY <1>1, <1>2, Invariance, PTL DEF Spec

(***************************************************************************)
(* updateReadStats counts every packet that was never read since it last   *)
(* ran, whatever the reason, less CounterMod (256) for each wrap of the    *)
(* counter: CSMA.h:287 takes the difference of two uint8_t as an int.      *)
(***************************************************************************)
LEMMA CountFromInv ==
  ASSUME IInv, CounterInv, s_packetWaiting
  PROVE  \E wraps \in 0..(unread + 1) :
           /\ DroppedPackets = unread - wraps * CounterMod
           /\ s_packetCounter > lastCounter /\ unread < CounterMod => wraps = 0
<1> PICK wraps \in Nat : Ahead(wraps)
  BY Zenon DEF CounterInv
<1>1. /\ unread \in Nat /\ CounterMod \in Nat /\ CounterMod > 0
      /\ s_packetCounter \in 0..(CounterMod - 1) /\ lastCounter \in 0..(CounterMod - 1)
  BY CountTypes, ConstantTypes
<1>2. s_packetCounter + wraps * CounterMod = lastCounter + unread + 1
  BY Zenon DEF Ahead, InWaiting
<1> DEFINE product == wraps * CounterMod
<1>3. product \in Nat
  BY <1>1
<1>4. product <= CounterMod + unread /\ DroppedPackets = unread - product
  <2>1. s_packetCounter + product = lastCounter + unread + 1
    BY <1>2
  <2> HIDE DEF product
  <2> QED BY <1>1, <1>3, <2>1 DEF DroppedPackets
<1>5. wraps \in 0..(unread + 1)
  <2> SUFFICES ASSUME wraps >= unread + 2 PROVE FALSE
    BY <1>1
  <2>1. PICK k \in Nat : wraps = unread + 2 + k
    <3>1. wraps - (unread + 2) \in Nat
      BY <1>1
    <3> QED BY <3>1, <1>1
  <2>2. product = unread * CounterMod + 2 * CounterMod + k * CounterMod
    BY <1>1, <2>1
  <2>3. unread * CounterMod >= unread /\ k * CounterMod \in Nat /\ unread * CounterMod \in Nat
    BY <1>1
  <2> HIDE DEF product
  <2> QED BY <1>1, <1>3, <1>4, <2>2, <2>3
<1>6. s_packetCounter > lastCounter /\ unread < CounterMod => wraps = 0
  <2> SUFFICES ASSUME s_packetCounter > lastCounter, unread < CounterMod, wraps # 0 PROVE FALSE
    OBVIOUS
  <2>1. product < CounterMod
    BY <1>1, <1>2, <1>3
  <2>2. PICK k \in Nat : wraps = k + 1
    <3>1. wraps - 1 \in Nat
      OBVIOUS
    <3> QED BY <3>1
  <2>3. product = k * CounterMod + CounterMod /\ k * CounterMod \in Nat
    BY <1>1, <2>2
  <2> HIDE DEF product
  <2> QED BY <1>1, <1>3, <2>1, <2>3
<1> QED BY <1>4, <1>5, <1>6

THEOREM Counts == Spec => []CountsUnread
<1>1. IInv /\ CounterInv => CountsUnread
  BY CountFromInv, Zenon DEF CountsUnread
<1> QED BY <1>1, Invariance, Counted, PTL
=============================================================================
