--------------------------- MODULE FlashDatabase ---------------------------
(***************************************************************************)
(* The log of messages that a station keeps in its flash chip              *)
(* (RemoteStation/Database.cpp).                                           *)
(*                                                                         *)
(* The log has two regions, each a cycle of 4k sectors: the "FAT" with a   *)
(* record of 12 bytes for each message, and the data with the messages.    *)
(* A FAT sector is meant to begin with 4 bytes, MSG and the number of the  *)
(* cycle.  Flash is erased by the sector and each byte is written once     *)
(* after that; written twice it holds the AND of the two values.           *)
(*                                                                         *)
(* The station may restart between any two commands to the chip; it then   *)
(* has nothing but the chip to tell it where to go on.                     *)
(* A record or a message is written whole or not at all.  That the power   *)
(* fails inside one (the code asks for the 12 bytes of a record in one     *)
(* write, Database.cpp:199, and a record may lie across two pages of the   *)
(* chip) is not modelled: a type with no address behind it would be taken  *)
(* for the last record, and the log would go on at an address of ones.     *)
(*                                                                         *)
(* A cell of the FAT stands for 4 bytes, so that the beginning of a sector *)
(* takes one cell and a record three.  Addresses are relative to the start *)
(* of their region, which is the start of a sector.                        *)
(***************************************************************************)
EXTENDS Integers, Sequences

CONSTANTS
  RecordsPerSector,  \* 341 in the program
  HeaderSectors,     \* 8 in the program
  DataSector,        \* bytes in a data sector, 4096 in the program
  DataSectors,       \* 112 in the program
  Lengths,           \* lengths of the messages stored
  MaxMessages,       \* bound: messages stored
  MaxRestarts,       \* bound: restarts
  CanSearch          \* bound: whether a search is asked for

RecordLen == 3
Sector == 1 + RecordLen * RecordsPerSector
FatEnd == HeaderSectors * Sector
DataEnd == DataSectors * DataSector

ASSUME FlashDatabaseAssumption ==
  /\ RecordsPerSector \in Nat \ {0}
  /\ HeaderSectors \in Nat \ {0}
  /\ DataSector \in Nat \ {0}
  /\ DataSectors \in Nat \ {0}
  /\ Lengths \subseteq 1..(DataSector - 1)   \* at most 255 bytes in the program
  /\ MaxMessages \in Nat
  /\ MaxRestarts \in Nat
  /\ CanSearch \in BOOLEAN

VARIABLES
  fat,            \* the cells of the FAT
  data,           \* the message each byte of the data region belongs to
  curHeader,      \* _curHeaderAddress
  curWrite,       \* _curWriteAddress
  curCycle,       \* _curCycle
  pc,             \* the next command to the chip
  length,         \* length of the message being stored
  searching,      \* _currentAction = Searching
  dbSleepEnabled, \* "powerSave" or "disabled"
  searchSector,   \* the sector of _curSearchAddress
  stored,         \* history: header, address and length of each record written
  live,           \* history: messages stored whose sectors were not erased since
  activeSector,   \* history: the FAT sector written to last
  faults,         \* history: what the code has done that may garble the log
  restarts        \* history: number of restarts

flashVars == <<fat, data>>
curVars == <<curHeader, curWrite, curCycle>>
searchVars == <<searching, dbSleepEnabled, searchSector>>
histVars == <<stored, live, activeSector, faults, restarts>>
vars == <<flashVars, curVars, pc, length, searchVars, histVars>>

(* Contents of a cell: erased; MSG and a cycle; the first part of the      *)
(* record of a message, or the rest of it; the AND of two writes.          *)
Erased == <<"erased", 0>>
Header(cycle) == <<"MSG", cycle>>
Record(m) == <<"record", m>>
Rest(m) == <<"rest", m>>
Garbled == <<"garbled", 0>>

NoOne == 0          \* an erased byte of the data region
Nobody == -1        \* a byte written twice

(* What a command of the chip does to a cell and to a byte. *)
Program(cell, new) == IF cell = Erased THEN new ELSE Garbled
ProgramByte(byte, m) == IF byte = NoOne THEN m ELSE Nobody

Init ==
  /\ fat = [a \in 0..(FatEnd - 1) |-> Erased]
  /\ data = [a \in 0..(DataEnd - 1) |-> NoOne]
  /\ curHeader = 0 /\ curWrite = 0 /\ curCycle = 0
  /\ pc = "off"
  /\ length = 0
  /\ searching = FALSE /\ dbSleepEnabled = "powerSave" /\ searchSector = 0
  /\ stored = << >> /\ live = {} /\ activeSector = 0
  /\ faults = {} /\ restarts = 0

-----------------------------------------------------------------------------
(* Restarting: initDatabase. *)

IsInitialised(s) == fat[s * Sector][1] = "MSG"
Cycle(s) == fat[s * Sector][2]

(* Sectors 0..s carry MSG and consecutive cycles.  The cycle is a byte and *)
(* its successor an int.                                                   *)
Consecutive(s) ==
  /\ \A t \in 0..s : IsInitialised(t)
  /\ \A t \in 1..s : Cycle(t) = Cycle(t - 1) + 1

(* findCurrentBlock: the last sector before one that does not fit. *)
ActiveSector ==
  CHOOSE s \in 0..(HeaderSectors - 1) :
    /\ Consecutive(s)
    /\ s = HeaderSectors - 1 \/ ~Consecutive(s + 1)

(* The records of sector s in front of its first unused one. *)
Slot(s, n) == s * Sector + 1 + RecordLen * n
RecordsInShort(s) ==  \* mutant: the last record of a full sector is not counted
  CHOOSE n \in 0..(RecordsPerSector - 1) :
    /\ \A i \in 0..(n - 1) : fat[Slot(s, i)] # Erased
    /\ n = RecordsPerSector - 1 \/ fat[Slot(s, n)] = Erased
RecordsIn(s) ==
  CHOOSE n \in 0..RecordsPerSector :
    /\ \A i \in 0..(n - 1) : fat[Slot(s, i)] # Erased
    /\ n = RecordsPerSector \/ fat[Slot(s, n)] = Erased

(* Where the data go on after the last record of a sector; the initial     *)
(* value of _curWriteAddress when there is none.                           *)
WriteAddressAfterShort(s) ==  \* mutant: the length is left out
  IF RecordsIn(s) = 0 THEN 0 ELSE stored[fat[Slot(s, RecordsIn(s) - 1)][2]].address
WriteAddressAfter(s) ==
  IF RecordsIn(s) = 0
    THEN 0
    ELSE LET last == stored[fat[Slot(s, RecordsIn(s) - 1)][2]]
         IN  last.address + last.length

(* History: what may garble the log.  A restart went back to a sector that *)
(* is not the one in use; or a record or a message was written at the      *)
(* beginning of a sector, without erasing what it held.                    *)
WentBack == IF ActiveSector = activeSector THEN {} ELSE {"wentBack"}
FatNotErased ==
  IF /\ curHeader % Sector = 0
     /\ \E a \in curHeader..(curHeader + Sector - 1) : fat[a] # Erased
    THEN {"notErased"} ELSE {}
DataNotErased ==
  IF /\ curWrite % DataSector = 0
     /\ \E a \in curWrite..(curWrite + DataSector - 1) : data[a] # NoOne
    THEN {"notErased"} ELSE {}

Boot ==
  /\ pc = "off"
  /\ IsInitialised(0)
  /\ curHeader' = Slot(ActiveSector, RecordsIn(ActiveSector))
  /\ curWrite' = WriteAddressAfter(ActiveSector)
  /\ curCycle' = Cycle(ActiveSector)
  /\ pc' = "idle"
  /\ faults' = faults \union WentBack
  /\ UNCHANGED <<flashVars, length, searchVars, stored, live, activeSector, restarts>>

(* The first sector is not initialised: it is erased ... *)
BootErase ==
  /\ pc = "off"
  /\ ~IsInitialised(0)
  /\ fat' = [a \in 0..(FatEnd - 1) |-> IF a < Sector THEN Erased ELSE fat[a]]
  /\ pc' = "bootInit"
  /\ UNCHANGED <<data, curVars, length, searchVars, histVars>>

(* ... and gets its beginning. *)
BootInit ==
  /\ pc = "bootInit"
  /\ fat' = [fat EXCEPT ![0] = Program(fat[0], Header(0))]
  /\ curHeader' = 1
  /\ activeSector' = 0
  /\ pc' = "idle"
  /\ UNCHANGED <<data, curWrite, curCycle, length, searchVars, stored, live, faults, restarts>>

(* Power fails or a watchdog bites, in front of any command to the chip. *)
Restart ==
  /\ restarts < MaxRestarts
  /\ pc # "off"
  /\ restarts' = restarts + 1
  /\ curHeader' = 0 /\ curWrite' = 0 /\ curCycle' = 0
  /\ pc' = "off"
  /\ length' = 0
  /\ searching' = FALSE /\ dbSleepEnabled' = "powerSave" /\ searchSector' = 0
  /\ UNCHANGED <<flashVars, stored, live, activeSector, faults>>

-----------------------------------------------------------------------------
(* Storing a message: storeData and checkEndsOfBlocks. *)

(* Where the next record ends, and whether a sector is begun for it.  The  *)
(* test finds a record that would straddle two sectors, and not one that   *)
(* begins where a sector does.                                             *)
FatWraps == curHeader + RecordLen > FatEnd
RecordEnd == IF FatWraps THEN RecordLen ELSE curHeader + RecordLen
NewFatSectorNever == FALSE      \* mutant
NewFatSector ==
  \/ FatWraps
  \/ RecordEnd % Sector # 0 /\ RecordEnd % Sector < RecordLen

Store(len) ==
  /\ pc = "idle"
  /\ Len(stored) < MaxMessages
  /\ length' = len
  /\ IF NewFatSector
       THEN curHeader' = RecordEnd - (RecordEnd % Sector) /\ pc' = "eraseFat"
       ELSE UNCHANGED curHeader /\ pc' = "placeData"
  /\ UNCHANGED <<flashVars, curWrite, curCycle, searchVars, histVars>>

(* The messages with a record in sector s, and with data in data sector s. *)
RecordedIn(s) == {m \in 1..Len(stored) : stored[m].header \div Sector = s}
DataIn(s) == {m \in 1..Len(stored) : stored[m].address \div DataSector = s}

EraseFat ==
  /\ pc = "eraseFat"
  /\ fat' = [a \in 0..(FatEnd - 1) |->
               IF a \in curHeader..(curHeader + Sector - 1) THEN Erased ELSE fat[a]]
  /\ live' = live \ RecordedIn(curHeader \div Sector)
  /\ pc' = "initFat"
  /\ UNCHANGED <<data, curVars, length, searchVars, stored, activeSector, faults, restarts>>

InitFat ==
  /\ pc = "initFat"
  /\ curCycle' = (curCycle + 1) % 256
  /\ fat' = [fat EXCEPT ![curHeader] = Program(fat[curHeader], Header(curCycle'))]
  /\ activeSector' = curHeader \div Sector
  /\ curHeader' = curHeader + 1
  /\ pc' = "placeData"
  /\ UNCHANGED <<data, curWrite, length, searchVars, stored, live, faults, restarts>>

(* The same test for the data, and the erasing of the sector if one is     *)
(* begun.                                                                  *)
DataWraps == curWrite + length > DataEnd
MessageEnd == IF DataWraps THEN length ELSE curWrite + length
NewDataSector ==
  \/ DataWraps
  \/ MessageEnd % DataSector # 0 /\ MessageEnd % DataSector < length

PlaceDataUnwrapped ==   \* mutant: the end of the region is not seen
  /\ pc = "placeData"
  /\ pc' = "writeRecord"
  /\ UNCHANGED <<flashVars, curVars, length, searchVars, histVars>>

PlaceData ==
  /\ pc = "placeData"
  /\ IF NewDataSector
       THEN LET start == MessageEnd - (MessageEnd % DataSector)
            IN  /\ curWrite' = start
                /\ data' = [a \in 0..(DataEnd - 1) |->
                              IF a \in start..(start + DataSector - 1) THEN NoOne ELSE data[a]]
                /\ live' = live \ DataIn(start \div DataSector)
                /\ UNCHANGED faults
       ELSE /\ faults' = faults \union DataNotErased
            /\ UNCHANGED <<curWrite, data, live>>
  /\ pc' = "writeRecord"
  /\ UNCHANGED <<fat, curHeader, curCycle, length, searchVars, stored, activeSector, restarts>>

WriteRecord ==
  /\ pc = "writeRecord"
  /\ LET m == Len(stored) + 1
     IN /\ stored' = Append(stored, [header |-> curHeader, address |-> curWrite,
                                     length |-> length])
        /\ fat' = [a \in 0..(FatEnd - 1) |->
                     IF a = curHeader THEN Program(fat[a], Record(m))
                     ELSE IF a \in (curHeader + 1)..(curHeader + RecordLen - 1)
                            THEN Program(fat[a], Rest(m))
                            ELSE fat[a]]
  /\ faults' = faults \union FatNotErased
  /\ activeSector' = curHeader \div Sector
  /\ curHeader' = curHeader + RecordLen
  /\ pc' = "writeData"
  /\ UNCHANGED <<data, curWrite, curCycle, length, searchVars, live, restarts>>

WriteData ==
  /\ pc = "writeData"
  /\ data' = [a \in 0..(DataEnd - 1) |->
                IF a \in curWrite..(curWrite + length - 1)
                  THEN ProgramByte(data[a], Len(stored)) ELSE data[a]]
  /\ curWrite' = curWrite + length
  /\ live' = live \union {Len(stored)}
  /\ pc' = "idle"
  /\ length' = 0
  /\ UNCHANGED <<fat, curHeader, curCycle, searchVars, stored, activeSector, faults, restarts>>

-----------------------------------------------------------------------------
(* Searching the log: startSearch, and a pass of doSearch. *)
StartSearch ==
  /\ CanSearch
  /\ pc = "idle"
  /\ ~searching
  /\ searching' = TRUE
  /\ searchSector' = 0
  /\ UNCHANGED <<flashVars, curVars, pc, length, dbSleepEnabled, histVars>>

(* The condition of the loop that reads records, with the milliseconds     *)
(* since doSearch was entered.                                             *)
maxProcessingTime == 1000
KeepsReading(elapsed) == elapsed > maxProcessingTime

(* A pass that reads goes through the records up to a hole: it then ends   *)
(* the search, or goes to the next sector if it is in the current one.     *)
(* A pass that found nothing disables sleep, so as to go on at once.       *)
DoSearch ==
  /\ searching
  /\ pc = "idle"
  /\ IF KeepsReading(0)
       THEN /\ searchSector' = searchSector + 1
            /\ searching' = (searchSector' < HeaderSectors /\ IsInitialised(searchSector'))
            /\ dbSleepEnabled' = "powerSave"
       ELSE /\ dbSleepEnabled' = "disabled"
            /\ UNCHANGED <<searchSector, searching>>
  /\ UNCHANGED <<flashVars, curVars, pc, length, histVars>>

Next ==
  \/ Boot
  \/ BootErase
  \/ BootInit
  \/ Restart
  \/ \E len \in Lengths : Store(len)
  \/ EraseFat
  \/ InitFat
  \/ PlaceData
  \/ WriteRecord
  \/ WriteData
  \/ StartSearch
  \/ DoSearch

Spec == Init /\ [][Next]_vars

-----------------------------------------------------------------------------
Cells ==
  {Erased, Garbled} \union {Header(c) : c \in 0..255}
    \union {Record(m) : m \in 1..MaxMessages} \union {Rest(m) : m \in 1..MaxMessages}

(***************************************************************************)
(* Type invariant: the addresses stay within their regions.                *)
(***************************************************************************)
TypeOK ==
  /\ fat \in [0..(FatEnd - 1) -> Cells]
  /\ data \in [0..(DataEnd - 1) -> -1..MaxMessages]
  /\ curHeader \in 0..FatEnd
  /\ curWrite \in 0..DataEnd
  /\ curCycle \in 0..255
  /\ pc \in {"off", "bootInit", "idle", "eraseFat", "initFat", "placeData", "writeRecord",
             "writeData"}
  /\ length \in {0} \union Lengths
  /\ searching \in BOOLEAN
  /\ dbSleepEnabled \in {"powerSave", "disabled"}
  /\ searchSector \in 0..HeaderSectors
  /\ stored \in Seq([header : 0..(FatEnd - 1), address : 0..(DataEnd - 1), length : Lengths])
  /\ Len(stored) <= MaxMessages
  /\ live \subseteq 1..Len(stored)
  /\ activeSector \in 0..(HeaderSectors - 1)
  /\ faults \subseteq {"wentBack", "notErased"}

(***************************************************************************)
(* A record and a message are written within one sector of their regions.  *)
(***************************************************************************)
WritesInRegion ==
  /\ pc = "writeRecord" =>
       /\ curHeader + RecordLen <= FatEnd
       /\ curHeader \div Sector = (curHeader + RecordLen - 1) \div Sector
  /\ pc \in {"writeRecord", "writeData"} =>
       /\ curWrite + length <= DataEnd
       /\ curWrite \div DataSector = (curWrite + length - 1) \div DataSector

(***************************************************************************)
(* The records that a restart reads, in the first sector, are never        *)
(* written twice.                                                          *)
(***************************************************************************)
FirstSectorClean == \A a \in 0..(Sector - 1) : fat[a] # Garbled

(***************************************************************************)
(* A restart goes on in the sector that was in use: "We've found an        *)
(* uninitialised block. The previous block was the active block."          *)
(* (Database.cpp:140-141)                                                  *)
(***************************************************************************)
PreviousBlockWasActive == [][Boot => ActiveSector = activeSector]_vars

(***************************************************************************)
(* As the second sector never gets a header, a restart always goes back to *)
(* the first, wherever the log was.                                        *)
(***************************************************************************)
RestartsInFirstSector == [][Boot => ActiveSector = 0]_vars

(***************************************************************************)
(* What the types of the addresses and FirstSectorClean rest on.  Writing  *)
(* goes on at a slot of a sector with a header, behind its records, or in a*)
(* sector that was begun without one, which no restart reads.              *)
(***************************************************************************)
Sectors == 0..(HeaderSectors - 1)
CellsOf(s) == (s * Sector)..((s + 1) * Sector - 1)

(* The record of m lies in a sector with a header.                         *)
Readable(m) == IsInitialised(stored[m].header \div Sector)

(* Sector s has n records, one behind the other, and nothing after them.   *)
Filled(s, n) ==
  /\ \A i \in 0..(n - 1) : \E m \in 1..Len(stored) : fat[Slot(s, i)] = Record(m)
  /\ \A a \in Slot(s, n)..((s + 1) * Sector - 1) : fat[a] = Erased

SectorsFilled == \A s \in Sectors : IsInitialised(s) => \E n \in 0..RecordsPerSector : Filled(s, n)

InHeadedSector ==
  \E s \in Sectors, n \in 0..RecordsPerSector :
    IsInitialised(s) /\ Filled(s, n) /\ curHeader = Slot(s, n)
InHeadlessSector ==
  \E s \in Sectors \ {0} :
    ~IsInitialised(s) /\ curHeader \in (s * Sector + 1)..((s + 1) * Sector)

(* Sector s is erased and about to get its header.                         *)
Begun(s) ==
  /\ curHeader = s * Sector
  /\ \A a \in CellsOf(s) : fat[a] = Erased
  /\ live \intersect RecordedIn(s) = {}

PlaceInv ==
  /\ pc \in {"off", "bootInit"} => curHeader = 0
  /\ pc = "bootInit" => Begun(0)
  /\ pc = "eraseFat" => \E s \in Sectors : curHeader = s * Sector
  /\ pc = "initFat" => \E s \in Sectors : Begun(s)
  /\ pc \in {"idle", "placeData", "writeRecord", "writeData"} => InHeadedSector \/ InHeadlessSector

StoringInv ==
  /\ pc \in {"eraseFat", "initFat", "placeData", "writeRecord"} => Len(stored) < MaxMessages
  /\ pc \in {"eraseFat", "initFat", "placeData", "writeRecord", "writeData"} => length \in Lengths
  /\ pc = "placeData" =>
       /\ curHeader + RecordLen <= FatEnd
       /\ curHeader \div Sector = (curHeader + RecordLen - 1) \div Sector
  /\ \A m \in 1..Len(stored) : stored[m].address + stored[m].length <= DataEnd
  /\ pc = "writeData" =>
       /\ stored # << >>
       /\ fat[stored[Len(stored)].header] = Record(Len(stored)) \/ ~Readable(Len(stored))

(***************************************************************************)
(* A restart finds every message by a record that is its own: whatever     *)
(* restarts there were, and although the sectors that were begun without a *)
(* header are written over and over, in a sector with a header the record  *)
(* of each message stored is as it was written.                            *)
(***************************************************************************)
RecordsKept == \A m \in live : Readable(m) => fat[stored[m].header] = Record(m)

(***************************************************************************)
(* What was stored completely stays until its sectors are erased, whatever *)
(* restarts happened since, and in front of any command: its record and    *)
(* each byte of its data, and the log goes on behind it.  A sector with a  *)
(* header keeps its records in any case; the rest holds for as long as     *)
(* neither of the two faults happened, and nothing else takes it away.     *)
(***************************************************************************)
Durable ==
  /\ RecordsKept
  /\ faults = {} =>
       \A m \in live :
         /\ fat[stored[m].header] = Record(m)
         /\ \A a \in stored[m].address..(stored[m].address + stored[m].length - 1) : data[a] = m
         /\ pc = "idle" /\ stored[m].header \div Sector = activeSector
              => stored[m].header < curHeader

(* A first sector without a header has no messages that could be lost.     *)
FirstSectorEmpty ==
  ~IsInitialised(0) =>
    \A m \in live \union (IF pc = "writeData" THEN {Len(stored)} ELSE {}) :
      stored[m].header \div Sector # 0

IInv ==
  /\ TypeOK /\ SectorsFilled /\ PlaceInv /\ StoringInv /\ RecordsKept /\ FirstSectorEmpty
  /\ WritesInRegion /\ FirstSectorClean
=============================================================================
