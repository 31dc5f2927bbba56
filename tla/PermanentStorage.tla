-------------------------- MODULE PermanentStorage --------------------------
(***************************************************************************)
(* The settings of a station: the variables in its EEPROM with a checksum  *)
(* behind them, and the copies that the program keeps in RAM.              *)
(* RemoteStation/PermanentStorage.cpp, the commands that change settings   *)
(* (Commands.cpp, LoraMessaging.cpp) and what reads them at start-up.      *)
(*                                                                         *)
(* EEPROM is written byte by byte; the station may restart between any     *)
(* two.  A variable of several bytes is Garbage from the first byte to the *)
(* last, unless it is given the value it has.  The checksum is taken to be *)
(* perfect: it stands for the values it was computed from.  It lies behind *)
(* the last variable, so after an update with more variables the old one   *)
(* lies where the first new variable is.                                   *)
(*                                                                         *)
(* A handler that refuses its message before it writes changes nothing and *)
(* is no action.  The interval command is in PowerModes.                   *)
(***************************************************************************)
EXTENDS RelayLists

CONSTANTS
  Layout,        \* the variables, in the order of the structure
  Single,        \* those of one byte
  OldLayouts,    \* how many variables the program had that ran here before
  FirstSearched, \* the shortest layout whose checksum is looked for
  Groups,        \* the variables that one command writes, in their order
  Chosen,        \* the values that a command may give (other than lists and ID)
  Default,       \* the values of defaultVars
  Used,          \* the settings that a program before this one may have left
  RecordSK,      \* the list of message types that a new station records
  NewIds,        \* the IDs that a command may give
  InRange,       \* frequencies between MIN_FREQ and MAX_FREQ
  Garbage,       \* anything that is no proper value
  MaxCommands,   \* bound: commands
  MaxEdits       \* bound: edits in a relay command

N == Len(Layout)
Variables == {Layout[i] : i \in 1..N}
Prefix(n) == {Layout[i] : i \in 1..n}
ListTypes == {"W", "C", "R"}
ListOf == [type \in ListTypes |->
             CASE type = "W" -> "stationsToRelayWeather"
               [] type = "C" -> "stationsToRelayCommands"
               [] type = "R" -> "messageTypesToRecord"]
Charging == {"chargeVoltage_mV", "chargeResponseRate"}
RamVariables == {"stationID", "stasisRequested"} \union Charging

(* stationID < 1 || stationID & 0x80 *)
ValidId(id) == id \in 1..127

ASSUME LayoutAssumption ==
  /\ N \in Nat
  /\ Layout \in [1..N -> Variables]
  /\ \A i, j \in 1..N : Layout[i] = Layout[j] => i = j
  /\ FirstSearched \in 1..N
  /\ {"initialised", "stationID"} \subseteq Prefix(FirstSearched) \intersect Single
  /\ RamVariables \subseteq Variables
  /\ {"frequency_i", "bandwidth_i"} \union {ListOf[type] : type \in ListTypes} \subseteq Variables
ASSUME DefaultAssumption ==
  /\ DOMAIN Default = Variables /\ Default = [v \in Variables |-> Default[v]]
  /\ Default["initialised"] = "TRUE"
  /\ ValidId(Default["stationID"])
ASSUME UsedAssumption ==
  /\ OldLayouts \subseteq FirstSearched..N
  /\ \A used \in Used :
       /\ DOMAIN used = Variables /\ used = [v \in Variables |-> used[v]]
       /\ used["initialised"] = "TRUE"
       /\ ValidId(used["stationID"])
       /\ \A v \in Variables \ Prefix(FirstSearched) : used[v] = Default[v]
ASSUME CommandAssumption ==
  /\ \A name \in DOMAIN Groups :
       /\ name \notin {"none", "id", "stasis", "relay"}
       /\ Groups[name] \in Seq(Variables \ {"initialised", "stationID", "stasisRequested"})
       /\ Groups[name] # << >>
       /\ name # "charging" => \A i \in 1..Len(Groups[name]) : Groups[name][i] \notin Charging
  /\ NewIds \subseteq 0..255
(* What a program leaves for a list is a list, and only the relay command  *)
(* writes one.                                                             *)
ASSUME ListsAssumption ==
  /\ \A type \in {"W", "C"} :
       /\ Default[ListOf[type]] \in Lists
       /\ \A used \in Used : used[ListOf[type]] \in Lists
  /\ \A name \in DOMAIN Groups : \A i \in 1..Len(Groups[name]) :
       \A type \in ListTypes : Groups[name][i] # ListOf[type]

VARIABLES
  eeprom,        \* the value of each variable
  crc,           \* the checksum: how many variables, and their values
  ram,           \* the copies in RAM
  initialised,   \* _initialised: whether setBytes brings the checksum up to date
  pc,            \* where the program is
  todo,          \* the writes that the handler or initialise has still to make
  command,       \* the command being handled
  kept,          \* history: what a restart should find
  interrupted,   \* history: a restart since then that came between two writes
  givenId,       \* history: the ID that a command gave last, or the default if that was none
  asked,         \* history: what the lists should say, by edits and defaults
  commands       \* history: commands so far, to bound them

hist == <<kept, interrupted, givenId, asked>>
vars == <<eeprom, crc, ram, initialised, pc, todo, command, hist, commands>>

NoCommand == "none"

(* checkCRC over the first n variables and what follows them. *)
CheckCRC(n) == crc.of = n /\ \A v \in Prefix(n) : eeprom[v] = crc.is[v]

(* A write to a variable also hits a checksum that lies there. *)
Overwrites(v) == crc.of < N /\ v = Layout[crc.of + 1]
NoCrc == [of |-> 0, is |-> << >>]
CrcOf(n, values) == [of |-> n, is |-> [v \in Prefix(n) |-> values[v]]]

Write(v, value) == [var |-> v, value |-> value]

(* Where a station comes from: another program with fewer variables, or a  *)
(* chip that was never used, with or without an ID in it.                  *)
Init ==
  /\ \/ \E n \in OldLayouts, used \in Used :
          /\ eeprom = [v \in Variables |-> IF v \in Prefix(n) THEN used[v] ELSE Garbage]
          /\ crc = CrcOf(n, used)
          /\ kept = used
          /\ interrupted = FALSE
          /\ givenId = used["stationID"]
     \/ \E id \in {2, 255} :
          /\ eeprom = [v \in Variables |-> CASE v = "stationID" -> id
                                              [] v = "initialised" -> "FALSE"
                                              [] OTHER -> Garbage]
          /\ crc = NoCrc
          /\ kept = Default
          /\ interrupted = TRUE
          /\ givenId = IF ValidId(id) THEN id ELSE Default["stationID"]
  /\ ram = [v \in RamVariables |-> Default[v]]
  /\ initialised = FALSE
  /\ pc = "off"
  /\ todo = << >>
  /\ command = NoCommand
  /\ asked = [type \in ListTypes |-> {}]
  /\ commands = 0

-----------------------------------------------------------------------------
(* Start-up: PermanentStorage::initialise.                                 *)

StoredId == IF ValidId(eeprom["stationID"]) THEN eeprom["stationID"] ELSE Default["stationID"]
Readable == ValidId(eeprom["stationID"]) /\ eeprom["initialised"] = "TRUE"

(* The variables from Layout[n + 1] on get their defaults; the old         *)
(* checksum was there.                                                     *)
MissingShort(n) ==  \* mutant: the old checksum is left where a variable now is
  [i \in 1..(N - n - 1) |-> Write(Layout[n + 1 + i], Default[Layout[n + 1 + i]])]
Missing(n) == [i \in 1..(N - n) |-> Write(Layout[n + i], Default[Layout[n + i]])]

(* All variables get their defaults, but for the station's ID; the types   *)
(* to record are not in defaultVars and are written afterwards.            *)
AllDefaultsNoId(id) ==  \* mutant: vars.stationID is not set
  [i \in 1..N |-> Write(Layout[i], Default[Layout[i]])]
    \o <<Write("messageTypesToRecord", RecordSK)>>
AllDefaults(id) ==
  [i \in 1..N |-> Write(Layout[i], IF Layout[i] = "stationID" THEN id ELSE Default[Layout[i]])]
    \o <<Write("messageTypesToRecord", RecordSK)>>

Initialise ==
  /\ pc = "off"
  /\ ram' = [ram EXCEPT !["stationID"] = StoredId]
  /\ \/ /\ Readable /\ CheckCRC(N)
        /\ initialised' = TRUE
        /\ pc' = "setup"
        /\ UNCHANGED todo
     \/ \E n \in FirstSearched..(N - 1) :
          /\ Readable /\ CheckCRC(n)
          /\ todo' = Missing(n)
          /\ pc' = "begin"
          /\ UNCHANGED initialised
     \/ /\ ~(Readable /\ \E n \in FirstSearched..N : CheckCRC(n))
        /\ todo' = AllDefaults(StoredId)
        /\ pc' = "begin"
        /\ UNCHANGED initialised
  /\ UNCHANGED <<eeprom, crc, command, hist, commands>>

(* The rest of setup: the copies in RAM are loaded, and InitMessaging puts *)
(* a frequency that is not allowed back to the default, with its           *)
(* bandwidth.                                                              *)
OutOfRange == eeprom["frequency_i"] \notin InRange
Setup ==
  /\ pc = "setup"
  /\ ram' = [v \in RamVariables |-> IF v = "stationID" THEN ram[v] ELSE eeprom[v]]
  /\ IF OutOfRange
       THEN /\ todo' = <<Write("frequency_i", Default["frequency_i"]),
                         Write("bandwidth_i", Default["bandwidth_i"])>>
            /\ pc' = "begin"
       ELSE /\ pc' = "idle"
            /\ UNCHANGED todo
  /\ kept' = eeprom
  /\ interrupted' = FALSE
  /\ asked' = [type \in ListTypes |-> Members(eeprom[ListOf[type]])]
  /\ UNCHANGED <<eeprom, crc, initialised, command, givenId, commands>>

-----------------------------------------------------------------------------
(* setBytes: the bytes of a variable, and then the checksum, except in     *)
(* initialise, which computes it at its end.                               *)

BeginWrite ==
  /\ pc = "begin"
  /\ LET w == Head(todo)
     IN  /\ eeprom' = IF w.var \in Single \/ eeprom[w.var] = w.value
                        THEN eeprom ELSE [eeprom EXCEPT ![w.var] = Garbage]
         /\ crc' = IF Overwrites(w.var) THEN NoCrc ELSE crc
  /\ pc' = "end"
  /\ UNCHANGED <<ram, initialised, todo, command, hist, commands>>

EndWrite ==
  /\ pc = "end"
  /\ LET w == Head(todo)
     IN  /\ eeprom' = [eeprom EXCEPT ![w.var] = w.value]
         /\ givenId' = IF w.var # "stationID" \/ command # "id" THEN givenId
                       ELSE IF ValidId(w.value) THEN w.value ELSE Default["stationID"]
  /\ todo' = Tail(todo)
  /\ pc' = IF initialised \/ todo' = << >> THEN "crc" ELSE "begin"
  /\ UNCHANGED <<crc, ram, initialised, command, kept, interrupted, asked, commands>>

(* setCRC; the handler goes on with its next write, or ends: that of the   *)
(* charging command then sets the copies in RAM.                           *)
SetCRCNoCopies ==   \* mutant: the copies in RAM are not set
  /\ pc = "crc"
  /\ crc' = CrcOf(N, eeprom)
  /\ kept' = IF initialised THEN eeprom ELSE kept
  /\ initialised' = TRUE
  /\ pc' = IF ~initialised THEN "setup" ELSE IF todo = << >> THEN "idle" ELSE "begin"
  /\ command' = IF todo = << >> THEN NoCommand ELSE command
  /\ UNCHANGED <<eeprom, ram, todo, interrupted, givenId, asked, commands>>

SetCRC ==
  /\ pc = "crc"
  /\ crc' = CrcOf(N, eeprom)
  /\ kept' = IF initialised THEN eeprom ELSE kept
  /\ initialised' = TRUE
  /\ pc' = IF ~initialised THEN "setup" ELSE IF todo = << >> THEN "idle" ELSE "begin"
  /\ IF todo = << >>
       THEN /\ ram' = IF command = "charging"
                        THEN [v \in RamVariables |-> IF v \in Charging THEN eeprom[v] ELSE ram[v]]
                        ELSE ram
            /\ command' = NoCommand
       ELSE UNCHANGED <<ram, command>>
  /\ UNCHANGED <<eeprom, todo, interrupted, givenId, asked, commands>>

(* Power fails or a watchdog bites; nothing in RAM is left. *)
Restart ==
  /\ pc # "off"
  /\ interrupted' = (interrupted \/ pc \in {"begin", "end", "crc"})
  /\ ram' = [v \in RamVariables |-> Default[v]]
  /\ initialised' = FALSE
  /\ pc' = "off"
  /\ todo' = << >>
  /\ command' = NoCommand
  /\ UNCHANGED <<eeprom, crc, kept, givenId, asked, commands>>

-----------------------------------------------------------------------------
(* Commands.  While the station is in stasis it hears none.                *)

Ready ==
  /\ pc = "idle"
  /\ commands < MaxCommands
  /\ ram["stasisRequested"] = "FALSE"
  /\ commands' = commands + 1

(* A command that writes one or several variables, one after the other:    *)
(* handleThresholdCommand, handleChargingCommand, handleMessageCommand.    *)
SetVariables ==
  /\ Ready
  /\ \E name \in DOMAIN Groups, value \in Chosen :
       /\ todo' = [i \in 1..Len(Groups[name]) |-> Write(Groups[name][i], value)]
       /\ command' = name
  /\ pc' = "begin"
  /\ UNCHANGED <<eeprom, crc, ram, initialised, hist>>

(* handleIDCommand; the ID in RAM first. *)
ChangeId ==
  /\ Ready
  /\ \E id \in NewIds :
       /\ ram' = [ram EXCEPT !["stationID"] = id]
       /\ todo' = <<Write("stationID", id)>>
  /\ command' = "id"
  /\ pc' = "begin"
  /\ UNCHANGED <<eeprom, crc, initialised, hist>>

(* Command S, and the end of enterStasis. *)
RequestStasis ==
  /\ Ready
  /\ ram' = [ram EXCEPT !["stasisRequested"] = "TRUE"]
  /\ todo' = <<Write("stasisRequested", "TRUE")>>
  /\ command' = "stasis"
  /\ pc' = "begin"
  /\ UNCHANGED <<eeprom, crc, initialised, hist>>

LeaveStasis ==
  /\ pc = "idle"
  /\ ram["stasisRequested"] = "TRUE"
  /\ ram' = [ram EXCEPT !["stasisRequested"] = "FALSE"]
  /\ todo' = <<Write("stasisRequested", "FALSE")>>
  /\ command' = "stasis"
  /\ pc' = "begin"
  /\ UNCHANGED <<eeprom, crc, initialised, hist, commands>>

(* handleRelayCommand.  The three lists are edited and written in turn; a  *)
(* list with no room ends the command, and the lists before it stay        *)
(* written.  The array for the types is as long as that for the stations,  *)
(* and the bytes behind the types are what the stack holds.                *)
Padded(types, stack) ==
  [i \in 1..ListSize |-> IF i <= TypeListSize THEN types[i] ELSE stack[i]]
NewList(type, edits, stack) ==
  IF type = "R" THEN Edited(Padded(eeprom[ListOf[type]], stack), type, edits)
  ELSE Edited(eeprom[ListOf[type]], type, edits)
Stored(type, list) ==
  IF type = "R" THEN [i \in 1..TypeListSize |-> list[i]] ELSE list

Written(edits, stack) ==
  LET turn == <<"W", "C", "R">>
      room(n) == \A m \in 1..n : NewList(turn[m], edits, stack) # NoRoom
      writes(n) == IF room(n) /\ Concerns(turn[n], edits)
                     THEN <<Write(ListOf[turn[n]],
                                  Stored(turn[n], NewList(turn[n], edits, stack)))>>
                     ELSE << >>
  IN  writes(1) \o writes(2) \o writes(3)

EditSequences == UNION {[1..n -> Edits] : n \in 1..MaxEdits}
Stacks == [(TypeListSize + 1)..ListSize -> {0} \union Ids]

RelayCommand ==
  /\ Ready
  /\ \E edits \in EditSequences, stack \in Stacks :
       /\ todo' = Written(edits, stack)
       /\ command' = IF todo' = << >> THEN NoCommand ELSE "relay"
       /\ asked' = [type \in ListTypes |->
                      IF \E i \in 1..Len(todo') : todo'[i].var = ListOf[type]
                        THEN Asked(asked[type], type, edits) ELSE asked[type]]
  /\ pc' = IF todo' = << >> THEN "idle" ELSE "begin"
  /\ UNCHANGED <<eeprom, crc, ram, initialised, kept, interrupted, givenId>>

Next ==
  \/ Initialise
  \/ Setup
  \/ BeginWrite
  \/ EndWrite
  \/ SetCRC
  \/ Restart
  \/ SetVariables
  \/ ChangeId
  \/ RequestStasis
  \/ LeaveStasis
  \/ RelayCommand

Spec == Init /\ [][Next]_vars

-----------------------------------------------------------------------------
Writes(s) ==
  /\ Len(s) \in Nat
  /\ s = [i \in 1..Len(s) |-> Write(s[i].var, s[i].value)]
  /\ \A i \in 1..Len(s) : s[i].var \in Variables
(***************************************************************************)
(* Type invariant.                                                         *)
(***************************************************************************)
TypeOK ==
  /\ eeprom = [v \in Variables |-> eeprom[v]]
  /\ kept = [v \in Variables |-> kept[v]]
  /\ ram = [v \in RamVariables |-> ram[v]]
  /\ crc.of \in {0} \union (FirstSearched..N)
  /\ crc.is = [v \in Prefix(crc.of) |-> crc.is[v]]
  /\ initialised \in BOOLEAN /\ interrupted \in BOOLEAN
  /\ pc \in {"off", "begin", "end", "crc", "setup", "idle"}
  /\ Writes(todo)
  /\ pc \in {"begin", "end"} => todo # << >>
  /\ pc \in {"off", "setup", "idle"} => todo = << >> /\ command = NoCommand
  /\ pc = "off" => ~initialised
  /\ pc \in {"setup", "idle"} => initialised
  /\ ~initialised => command = NoCommand /\ (pc = "crc" => todo = << >>)

(* What a station has whose settings were lost, apart from its ID. *)
Fresh(id) == [Default EXCEPT !["stationID"] = id, !["messageTypesToRecord"] = RecordSK]

(***************************************************************************)
(* A restart finds the settings as they were after the last write that was *)
(* finished, those of an older layout with defaults for what is new; or    *)
(* all defaults, and then only if a write had been interrupted or the ID   *)
(* was none.  It never finds a mixture or a torn variable.                 *)
(***************************************************************************)
SettingsSurvive ==
  pc = "setup" =>
    \/ eeprom = kept
    \/ interrupted /\ eeprom = Fresh(ram["stationID"])
    \/ ~ValidId(kept["stationID"]) /\ eeprom = Fresh(ram["stationID"])

(***************************************************************************)
(* "If possible we use the stored stationID regardless of initialised or   *)
(* CRC check" (PermanentStorage.cpp:91): a restart keeps the last valid ID *)
(* that was written, whatever it interrupts.                               *)
(***************************************************************************)
StationIDKept == pc \in {"setup", "idle"} /\ command # "id" =>
  ram["stationID"] = givenId \/ ~ValidId(ram["stationID"])

(***************************************************************************)
(* The copies in RAM agree with permanent storage whenever no handler is   *)
(* at work.                                                                *)
(***************************************************************************)
RamIsCurrent == pc = "idle" => \A v \in RamVariables : ram[v] = eeprom[v]

(***************************************************************************)
(* Inductive invariant.  What the writes to come will have led to is what  *)
(* was there before, or what the handler wants, wherever a restart cuts    *)
(* them off; the checksum never fits anything else.                        *)
(***************************************************************************)
(* After these writes to values, v has this value. *)
Yields(writes, values, v, value) ==
  /\ (\A i \in 1..Len(writes) : writes[i].var # v) => values[v] = value
  /\ \A i \in 1..Len(writes) :
       writes[i].var = v /\ (\A j \in (i + 1)..Len(writes) : writes[j].var # v)
         => writes[i].value = value
LeadsAt(v, value) == Yields(todo, eeprom, v, value)
LeadsTo(values) == \A v \in Variables : LeadsAt(v, values[v])
Writing == pc \in {"begin", "end", "crc"}
MayBeLost == interrupted \/ ~ValidId(kept["stationID"])
Kept(v, n) == IF v \in Prefix(n) THEN crc.is[v] = kept[v] ELSE kept[v] = Default[v]
CrcOfKept == crc.of # 0 /\ \A v \in Variables : Kept(v, crc.of)
CrcOfFresh == crc.of = N /\ \E id \in 1..127 : crc.is = Fresh(id)

IdKnown ==
  /\ givenId = StoredId
  /\ \A i \in 1..Len(todo) : todo[i].var = "stationID" =>
       command = "id" \/ (~initialised /\ todo[i].value = StoredId)
Signed ==
  /\ kept["initialised"] = "TRUE"
  /\ \A i \in 1..Len(todo) : todo[i].var = "initialised" => todo[i].value = "TRUE"
  /\ initialised => eeprom["initialised"] = "TRUE"
Checked ==
  /\ crc.of = 0 \/ CrcOfKept \/ (MayBeLost /\ CrcOfFresh)
  /\ initialised => crc.of = N
WhileOff == pc = "off" => MayBeLost \/ (CrcOfKept /\ CheckCRC(crc.of))
AtRest ==
  /\ pc \in {"setup", "idle"} => CheckCRC(N) /\ ram["stationID"] = eeprom["stationID"]
  /\ pc = "setup" => eeprom = kept \/ (MayBeLost /\ eeprom = Fresh(ram["stationID"]))
  /\ pc = "idle" => eeprom = kept /\ RamIsCurrent
StartingUp ==
  Writing /\ ~initialised =>
    /\ ValidId(ram["stationID"])
    /\ LeadsTo(kept) \/ (MayBeLost /\ LeadsTo(Fresh(ram["stationID"])))
    /\ LeadsAt("initialised", "TRUE")
CopiesComing ==
  Writing => \A v \in RamVariables :
    \/ ~initialised /\ v # "stationID"
    \/ command = "charging" /\ v \in Charging
    \/ LeadsAt(v, ram[v])
IInv ==
  /\ TypeOK /\ IdKnown /\ Signed /\ Checked
  /\ WhileOff /\ AtRest /\ StartingUp /\ CopiesComing

(***************************************************************************)
(* A station relays for exactly those that the edits of its list, in their *)
(* order, ask for, and messages of station 0 if there is any, whatever     *)
(* holes and repetitions the list has.                                     *)
(***************************************************************************)
RelaysForListed ==
  pc = "idle" => \A type \in {"W", "C"}, station \in {0} \union Ids :
    ShouldRelay(eeprom[ListOf[type]], station)
      <=> IF station = 0 THEN asked[type] # {} ELSE station \in asked[type]
=============================================================================
