----------------------- MODULE PermanentStorageProofs -----------------------
(***************************************************************************)
(* What PermanentStorage does for any layout, any settings and any number  *)
(* of restarts and commands: settings survive whole or are all defaults,   *)
(* the ID stays, the copies in RAM are current, and a station relays for   *)
(* exactly those that the edits of its lists ask for.                      *)
(***************************************************************************)
EXTENDS PermanentStorage, SequenceTheorems, WellFoundedInduction, TLAPS

-----------------------------------------------------------------------------
(* Sequences of writes.                                                    *)

LEMMA WritesAreSeq ==
  ASSUME NEW s, Len(s) \in Nat, s = [i \in 1..Len(s) |-> Write(s[i].var, s[i].value)]
  PROVE  s \in Seq({s[i] : i \in 1..Len(s)})
OBVIOUS

LEMMA SeqIsFunction ==
  ASSUME NEW S, NEW s \in Seq(S)
  PROVE  s = [i \in 1..Len(s) |-> s[i]]
<1>1. s \in [1..Len(s) -> S]
  BY LenProperties
<1> QED  BY <1>1

LEMMA NoWrites == Len(<< >>) = 0 /\ Writes(<< >>)
BY DEF Writes

LEMMA OneWrite ==
  ASSUME NEW v \in Variables, NEW x
  PROVE  /\ Writes(<<Write(v, x)>>) /\ Len(<<Write(v, x)>>) = 1
         /\ <<Write(v, x)>>[1].var = v /\ <<Write(v, x)>>[1].value = x
BY DEF Writes, Write

LEMMA TailOfWrites ==
  ASSUME NEW s, Writes(s), s # << >>
  PROVE  /\ Writes(Tail(s))
         /\ Len(s) \in Nat \ {0} /\ Len(Tail(s)) = Len(s) - 1
         /\ Head(s) = s[1] /\ s[1].var \in Variables
         /\ \A i \in 1..Len(Tail(s)) : Tail(s)[i] = s[i + 1]
<1>1. s \in Seq({s[i] : i \in 1..Len(s)})
  BY WritesAreSeq DEF Writes
<1>2. /\ Len(s) \in Nat \ {0} /\ Len(Tail(s)) = Len(s) - 1
      /\ \A i \in 1..Len(Tail(s)) : Tail(s)[i] = s[i + 1]
      /\ Tail(s) = [i \in 1..(Len(s) - 1) |-> s[i + 1]]
  <2> DEFINE S == {s[i] : i \in 1..Len(s)}
  <2>1. s \in Seq(S)
    BY <1>1
  <2> HIDE DEF S
  <2>2. Len(s) \in Nat \ {0}
    BY <2>1, EmptySeq, LenProperties
  <2>3. /\ Len(Tail(s)) = Len(s) - 1 /\ Tail(s) \in Seq(S)
        /\ \A i \in 1..Len(Tail(s)) : Tail(s)[i] = s[i + 1]
    BY <2>1, HeadTailProperties
  <2>4. Tail(s) = [i \in 1..Len(Tail(s)) |-> Tail(s)[i]]
    BY <2>3, SeqIsFunction
  <2> QED  BY <2>2, <2>3, <2>4
<1>3. \A i \in 1..Len(s) : s[i] = Write(s[i].var, s[i].value) /\ s[i].var \in Variables
  BY DEF Writes
<1>4. Writes(Tail(s))
  <2>1. \A i \in 1..(Len(s) - 1) : s[i + 1] = Write(s[i + 1].var, s[i + 1].value) /\ s[i + 1].var \in Variables
    BY <1>2, <1>3
  <2> QED  BY <1>2, <2>1 DEF Writes
<1> QED  BY <1>1, <1>2, <1>3, <1>4

LEMMA TwoWrites ==
  ASSUME NEW s, NEW t, Writes(s), Writes(t)
  PROVE  /\ Writes(s \o t) /\ Len(s \o t) = Len(s) + Len(t)
         /\ \A i \in 1..Len(s) : (s \o t)[i] = s[i]
         /\ \A i \in 1..Len(t) : (s \o t)[Len(s) + i] = t[i]
         /\ \A i \in 1..Len(s \o t) :
              (i <= Len(s) /\ (s \o t)[i] = s[i]) \/ (\E j \in 1..Len(t) : i = Len(s) + j /\ (s \o t)[i] = t[j])
<1> DEFINE S == {s[i] : i \in 1..Len(s)} \union {t[i] : i \in 1..Len(t)}
<1>1. s \in Seq(S) /\ t \in Seq(S)
  BY DEF Writes
<1> HIDE DEF S
<1>2. /\ Len(s \o t) = Len(s) + Len(t)
      /\ \A i \in 1..Len(s) : (s \o t)[i] = s[i]
      /\ \A i \in 1..Len(t) : (s \o t)[Len(s) + i] = t[i]
      /\ s \o t \in Seq(S)
  BY <1>1, ConcatProperties
<1>3. \A i \in 1..Len(s \o t) :
        (i <= Len(s) /\ (s \o t)[i] = s[i]) \/ (\E j \in 1..Len(t) : i = Len(s) + j /\ (s \o t)[i] = t[j])
  <2> SUFFICES ASSUME NEW i \in 1..Len(s \o t), ~(i <= Len(s))
               PROVE  \E j \in 1..Len(t) : i = Len(s) + j /\ (s \o t)[i] = t[j]
    BY <1>2 DEF Writes
  <2> WITNESS i - Len(s) \in 1..Len(t)
  <2> QED  BY <1>2 DEF Writes
<1>4. \A i \in 1..Len(s \o t) :
        (s \o t)[i] = Write((s \o t)[i].var, (s \o t)[i].value) /\ (s \o t)[i].var \in Variables
  <2>1. \A i \in 1..Len(s) : s[i] = Write(s[i].var, s[i].value) /\ s[i].var \in Variables
    BY DEF Writes
  <2>2. \A i \in 1..Len(t) : t[i] = Write(t[i].var, t[i].value) /\ t[i].var \in Variables
    BY DEF Writes
  <2>3. \A i \in 1..Len(s \o t) : i <= Len(s) => i \in 1..Len(s)
    BY DEF Writes
  <2> QED  BY <1>3, <2>1, <2>2, <2>3
<1>5. Writes(s \o t)
  <2>1. Len(s \o t) \in Nat
    BY <1>2 DEF Writes
  <2>2. s \o t = [i \in 1..Len(s \o t) |-> (s \o t)[i]]
    BY <1>2, SeqIsFunction
  <2> QED  BY <1>4, <2>1, <2>2 DEF Writes
<1> QED  BY <1>2, <1>3, <1>5
LEMMA PrefixFacts ==
  /\ Prefix(N) = Variables /\ N \in Nat \ {0} /\ FirstSearched \in 1..N
  /\ \A n \in FirstSearched..N :
       /\ n \in 1..N
       /\ Prefix(FirstSearched) \subseteq Prefix(n) /\ Prefix(n) \subseteq Variables
       /\ "stationID" \in Prefix(n) /\ "initialised" \in Prefix(n)
<1>1. N \in Nat /\ FirstSearched \in 1..N /\ "stationID" \in Prefix(FirstSearched)
      /\ "initialised" \in Prefix(FirstSearched)
  BY LayoutAssumption
<1>2. \A n \in FirstSearched..N : Prefix(FirstSearched) \subseteq Prefix(n)
  BY <1>1 DEF Prefix
<1>3. \A n \in FirstSearched..N : Prefix(n) \subseteq Variables
  BY <1>1 DEF Prefix, Variables
<1>4. Prefix(N) = Variables
  BY DEF Prefix, Variables
<1> QED  BY <1>1, <1>2, <1>3, <1>4

LEMMA NamedVariables ==
  /\ RamVariables \subseteq Variables
  /\ {"initialised", "stationID", "stasisRequested", "frequency_i", "bandwidth_i",
       "stationsToRelayWeather", "stationsToRelayCommands", "messageTypesToRecord"} \subseteq Variables
  /\ "stationID" \in Single /\ "initialised" \in Single
<1>1. ListOf["W"] = "stationsToRelayWeather" /\ ListOf["C"] = "stationsToRelayCommands"
      /\ ListOf["R"] = "messageTypesToRecord"
  BY DEF ListOf, ListTypes
<1>2. {ListOf[type] : type \in ListTypes} \subseteq Variables
  BY LayoutAssumption
<1>3. {"initialised", "stationID"} \subseteq Variables
  BY LayoutAssumption, PrefixFacts
<1>4. "stasisRequested" \in RamVariables
  BY DEF RamVariables
<1> QED  BY <1>1, <1>2, <1>3, <1>4, LayoutAssumption DEF ListTypes

-----------------------------------------------------------------------------
(* The invariant: first when nothing is being written.                     *)

LEMMA InitIInv == Init => IInv
<1> SUFFICES ASSUME Init PROVE IInv
  OBVIOUS
<1> USE LayoutAssumption, DefaultAssumption, UsedAssumption, NoWrites, PrefixFacts, NamedVariables
<1> DEFINE Used0(n, used) ==
              /\ eeprom = [v \in Variables |-> IF v \in Prefix(n) THEN used[v] ELSE Garbage]
              /\ crc = CrcOf(n, used)
              /\ kept = used
              /\ interrupted = FALSE
              /\ givenId = used["stationID"]
           New0(id) ==
              /\ eeprom = [v \in Variables |-> CASE v = "stationID" -> id
                                              [] v = "initialised" -> "FALSE"
                                              [] OTHER -> Garbage]
              /\ crc = NoCrc
              /\ kept = Default
              /\ interrupted = TRUE
              /\ givenId = IF ValidId(id) THEN id ELSE Default["stationID"]
<1>1. (\E id \in {2, 255} : New0(id)) \/ \E n \in OldLayouts, used \in Used : Used0(n, used)
  BY Zenon DEF Init
<1>2. /\ ram = [v \in RamVariables |-> ram[v]] /\ initialised = FALSE /\ pc = "off"
      /\ todo = << >> /\ command = NoCommand
  BY DEF Init
<1>3. ASSUME NEW id \in {2, 255}, New0(id)
      PROVE  IInv
  <2>1. /\ eeprom = [v \in Variables |-> eeprom[v]] /\ kept = [v \in Variables |-> kept[v]]
        /\ eeprom["stationID"] = id /\ givenId = IF ValidId(id) THEN id ELSE Default["stationID"]
        /\ crc = NoCrc /\ kept = Default /\ interrupted = TRUE
    BY <1>3
  <2>2. TypeOK
    <3>1. Prefix(0) = {}
      BY DEF Prefix
    <3>2. crc.is = [v \in Prefix(crc.of) |-> crc.is[v]]
      BY <2>1, <3>1 DEF NoCrc
    <3> QED  BY <1>2, <2>1, <3>2 DEF TypeOK, NoCrc
  <2>3. IdKnown
    BY <1>2, <2>1 DEF IdKnown, StoredId
  <2>4. MayBeLost /\ crc.of = 0
    BY <2>1 DEF MayBeLost, NoCrc
  <2> QED  BY <1>2, <2>1, <2>2, <2>3, <2>4
           DEF IInv, Signed, Checked, WhileOff, AtRest, StartingUp, CopiesComing, Writing
<1>4. ASSUME NEW n \in OldLayouts, NEW used \in Used, Used0(n, used)
      PROVE  IInv
  <2>1. n \in FirstSearched..N /\ Prefix(n) \subseteq Variables /\ "stationID" \in Prefix(n)
    OBVIOUS
  <2>2. TypeOK
    <3>1. crc.of = n /\ crc.is = [v \in Prefix(n) |-> crc.is[v]]
      BY <1>4 DEF CrcOf
    <3>2. eeprom = [v \in Variables |-> eeprom[v]] /\ kept = [v \in Variables |-> kept[v]]
          /\ interrupted \in BOOLEAN
      BY <1>4
    <3>3. crc.is = [v \in Prefix(crc.of) |-> crc.is[v]] /\ crc.of \in FirstSearched..N
      BY <2>1, <3>1
    <3> QED  BY <1>2, <2>1, <3>2, <3>3 DEF TypeOK
  <2>3. IdKnown
    BY <1>2, <1>4, <2>1 DEF IdKnown, StoredId
  <2>4. CrcOfKept /\ CheckCRC(crc.of)
    BY <1>4, <2>1 DEF CrcOfKept, Kept, CheckCRC, CrcOf
  <2> QED  BY <1>2, <1>4, <2>2, <2>3, <2>4
           DEF IInv, Signed, Checked, WhileOff, AtRest, StartingUp, CopiesComing, Writing
<1> HIDE DEF New0, Used0
<1> QED  BY <1>1, <1>3, <1>4
-----------------------------------------------------------------------------
(* The steps of commands: what is to be written, and the copies in RAM.    *)

LEMMA LeadsAtUnwritten ==
  ASSUME NEW v, NEW x, eeprom[v] = x, \A i \in 1..Len(todo) : todo[i].var # v
  PROVE  LeadsAt(v, x)
BY DEF LeadsAt, Yields

LEMMA LeadsAtOne ==
  ASSUME NEW v \in Variables, NEW x, todo = <<Write(v, x)>>
  PROVE  LeadsAt(v, x)
BY OneWrite DEF LeadsAt, Yields

LEMMA SameCrc ==
  ASSUME Checked, UNCHANGED <<crc, kept, interrupted, initialised>>, initialised' => eeprom["initialised"]' = "TRUE"
  PROVE  Checked'
<1>1. (MayBeLost <=> MayBeLost') /\ (CrcOfKept <=> CrcOfKept') /\ (CrcOfFresh <=> CrcOfFresh')
  BY DEF MayBeLost, CrcOfKept, Kept, CrcOfFresh
<1> QED  BY <1>1 DEF Checked

LEMMA BeginsToWrite ==
  ASSUME IInv, pc = "idle", pc' = "begin",
         UNCHANGED <<eeprom, crc, initialised, kept, interrupted, givenId>>,
         Writes(todo'), todo' # << >>, ram' = [v \in RamVariables |-> ram'[v]],
         \A i \in 1..Len(todo') : /\ todo'[i].var # "initialised"
                                  /\ todo'[i].var = "stationID" => command' = "id",
         \A v \in RamVariables : (command' = "charging" /\ v \in Charging) \/ LeadsAt(v, ram[v])'
  PROVE  IInv'
<1>1. initialised = TRUE /\ initialised' = TRUE
  BY DEF IInv, TypeOK
<1>2. TypeOK'
  BY <1>1 DEF IInv, TypeOK
<1>3. IdKnown'
  BY <1>1 DEF IInv, IdKnown, StoredId
<1>4. Signed'
  BY <1>1 DEF IInv, Signed
<1>5. Checked'
  BY <1>1, <1>4, SameCrc DEF IInv, Signed
<1>6. WhileOff' /\ AtRest' /\ StartingUp'
  BY <1>1 DEF WhileOff, AtRest, StartingUp
<1>7. CopiesComing'
  BY DEF CopiesComing
<1> QED  BY <1>2, <1>3, <1>4, <1>5, <1>6, <1>7 DEF IInv

LEMMA Idle ==
  ASSUME IInv, pc = "idle"
  PROVE  \A v \in RamVariables : ram[v] = eeprom[v]
BY DEF IInv, AtRest, RamIsCurrent

LEMMA SetVariablesIInv == IInv /\ SetVariables => IInv'
<1> SUFFICES ASSUME IInv, SetVariables PROVE IInv'
  OBVIOUS
<1>1. PICK name \in DOMAIN Groups, value \in Chosen :
        /\ todo' = [i \in 1..Len(Groups[name]) |-> Write(Groups[name][i], value)]
        /\ command' = name
  BY DEF SetVariables
<1> DEFINE group == Groups[name]
<1>2. /\ group \in Seq(Variables \ {"initialised", "stationID", "stasisRequested"}) /\ group # << >>
      /\ name # "charging" => \A i \in 1..Len(group) : group[i] \notin Charging
  BY CommandAssumption
<1>3. Len(group) \in Nat \ {0} /\ Len(todo') = Len(group)
  BY <1>1, <1>2, EmptySeq, LenProperties
<1>4. \A i \in 1..Len(group) :
        group[i] \in Variables /\ group[i] \notin {"initialised", "stationID", "stasisRequested"}
  BY <1>2, ElementOfSeq
<1>5. \A i \in 1..Len(group) : todo'[i].var = group[i] /\ todo'[i].value = value
  BY <1>1 DEF Write
<1>6. Writes(todo') /\ todo' # << >>
  <2>1. todo' = [i \in 1..Len(todo') |-> Write(todo'[i].var, todo'[i].value)]
    BY <1>1, <1>3, <1>5
  <2> QED  BY <1>3, <1>4, <1>5, <2>1 DEF Writes
<1>7. pc = "idle" /\ pc' = "begin" /\ ram' = ram
      /\ UNCHANGED <<eeprom, crc, initialised, kept, interrupted, givenId>>
  BY DEF SetVariables, Ready, hist
<1>8. \A v \in RamVariables : (command' = "charging" /\ v \in Charging) \/ LeadsAt(v, ram[v])'
  <2> SUFFICES ASSUME NEW v \in RamVariables, ~(command' = "charging" /\ v \in Charging)
               PROVE  LeadsAt(v, ram[v])'
    OBVIOUS
  <2>1. \A i \in 1..Len(todo') : todo'[i].var # v
    BY <1>1, <1>2, <1>3, <1>4, <1>5 DEF RamVariables
  <2>2. eeprom'[v] = ram'[v]
    BY <1>7, Idle
  <2> QED  BY <2>1, <2>2 DEF LeadsAt, Yields
<1>9. ram' = [v \in RamVariables |-> ram'[v]]
  BY <1>7 DEF IInv, TypeOK
<1> HIDE DEF group
<1> QED  BY <1>3, <1>4, <1>5, <1>6, <1>7, <1>8, <1>9, BeginsToWrite

(* The commands that write one variable that has a copy in RAM.            *)
LEMMA WritesOne ==
  ASSUME IInv, pc = "idle", pc' = "begin",
         NEW v \in {"stationID", "stasisRequested"}, NEW x,
         ram' = [ram EXCEPT ![v] = x], todo' = <<Write(v, x)>>,
         v = "stationID" => command' = "id",
         UNCHANGED <<eeprom, crc, initialised, kept, interrupted, givenId>>
  PROVE  IInv'
<1>1. v \in RamVariables /\ v \in Variables /\ v # "initialised"
  BY NamedVariables DEF RamVariables
<1>2. ram = [w \in RamVariables |-> ram[w]]
  BY DEF IInv, TypeOK
<1>3. Writes(todo') /\ todo' # << >> /\ Len(todo') = 1 /\ todo'[1].var = v /\ todo'[1].value = x
  BY <1>1, OneWrite, NoWrites
<1>4. \A w \in RamVariables : LeadsAt(w, ram[w])'
  <2>1. ram'[v] = x /\ \A w \in RamVariables : w # v => ram'[w] = eeprom'[w]
    BY <1>1, <1>2, Idle
  <2> QED  BY <1>3, <2>1 DEF LeadsAt, Yields
<1>5. ram' = [w \in RamVariables |-> ram'[w]]
  BY <1>2
<1> QED  BY <1>1, <1>3, <1>4, <1>5, BeginsToWrite

LEMMA ChangeIdIInv == IInv /\ ChangeId => IInv'
<1> SUFFICES ASSUME IInv, ChangeId PROVE IInv'
  OBVIOUS
<1> QED  BY WritesOne DEF ChangeId, Ready, hist

LEMMA StasisIInv == IInv /\ (RequestStasis \/ LeaveStasis) => IInv'
<1>1. ASSUME IInv, RequestStasis PROVE IInv'
  BY <1>1, WritesOne DEF RequestStasis, Ready, hist
<1>2. ASSUME IInv, LeaveStasis PROVE IInv'
  BY <1>2, WritesOne DEF LeaveStasis, hist
<1> QED  BY <1>1, <1>2

LEMMA WrittenFacts ==
  ASSUME NEW edits, NEW stack
  PROVE  /\ Writes(Written(edits, stack))
         /\ \A i \in 1..Len(Written(edits, stack)) :
              Written(edits, stack)[i].var \in
                {"stationsToRelayWeather", "stationsToRelayCommands", "messageTypesToRecord"}
<1> DEFINE turn == <<"W", "C", "R">>
           room(n) == \A m \in 1..n : NewList(turn[m], edits, stack) # NoRoom
           writes(n) == IF room(n) /\ Concerns(turn[n], edits)
                          THEN <<Write(ListOf[turn[n]],
                                       Stored(turn[n], NewList(turn[n], edits, stack)))>>
                          ELSE << >>
           names == {"stationsToRelayWeather", "stationsToRelayCommands", "messageTypesToRecord"}
           good(s) == Writes(s) /\ \A i \in 1..Len(s) : s[i].var \in names
<1>1. \A n \in 1..3 : ListOf[turn[n]] \in names
  BY DEF ListOf, ListTypes
<1>2. \A n \in 1..3 : good(writes(n))
  <2> SUFFICES ASSUME NEW n \in 1..3 PROVE good(writes(n))
    OBVIOUS
  <2> DEFINE v == ListOf[turn[n]]
             x == Stored(turn[n], NewList(turn[n], edits, stack))
  <2>1. v \in names /\ v \in Variables
    BY <1>1, NamedVariables
  <2>2. writes(n) = <<Write(v, x)>> \/ writes(n) = << >>
    OBVIOUS
  <2> HIDE DEF v, x, writes, names
  <2>3. good(<< >>)
    BY NoWrites
  <2>4. good(<<Write(v, x)>>)
    BY <2>1, OneWrite
  <2> QED  BY <2>2, <2>3, <2>4
<1>3. Written(edits, stack) = writes(1) \o writes(2) \o writes(3)
  BY DEF Written
<1>4. ASSUME NEW s, NEW t, good(s), good(t) PROVE good(s \o t)
  BY <1>4, TwoWrites
<1> HIDE DEF writes, good
<1>5. good(writes(1) \o writes(2) \o writes(3))
  BY <1>2, <1>4
<1> QED  BY <1>3, <1>5 DEF good

LEMMA RelayCommandIInv == IInv /\ RelayCommand => IInv'
<1> SUFFICES ASSUME IInv, RelayCommand PROVE IInv'
  OBVIOUS
<1>1. PICK edits \in EditSequences, stack \in Stacks :
        todo' = Written(edits, stack) /\ command' = IF todo' = << >> THEN NoCommand ELSE "relay"
  BY DEF RelayCommand
<1>2. /\ Writes(todo')
      /\ \A i \in 1..Len(todo') : todo'[i].var \in
           {"stationsToRelayWeather", "stationsToRelayCommands", "messageTypesToRecord"}
  BY <1>1, WrittenFacts
<1>3. pc = "idle" /\ pc' = IF todo' = << >> THEN "idle" ELSE "begin"
  BY DEF RelayCommand, Ready
<1>4. UNCHANGED <<eeprom, crc, ram, initialised, kept, interrupted, givenId>>
  BY DEF RelayCommand
<1>5. CASE todo' = << >>
  <2>1. todo = << >> /\ command = NoCommand /\ command' = NoCommand /\ todo' = todo /\ pc' = "idle"
    BY <1>1, <1>3, <1>5 DEF IInv, TypeOK
  <2>2. TypeOK'
    BY <1>3, <1>4, <2>1 DEF IInv, TypeOK
  <2>3. IdKnown' /\ Signed' /\ AtRest'
    BY <1>3, <1>4, <2>1 DEF IInv, IdKnown, StoredId, Signed, AtRest, RamIsCurrent, CheckCRC
  <2>4. Checked'
    BY <1>4, <2>3, SameCrc DEF IInv, Signed
  <2>5. WhileOff' /\ StartingUp' /\ CopiesComing'
    BY <2>1 DEF WhileOff, StartingUp, CopiesComing, Writing
  <2> QED  BY <2>2, <2>3, <2>4, <2>5 DEF IInv
<1>6. CASE todo' # << >>
  <2>1. \A v \in RamVariables : LeadsAt(v, ram[v])'
    <3>1. \A v \in RamVariables : \A i \in 1..Len(todo') : todo'[i].var # v
      BY <1>2 DEF RamVariables, Charging
    <3>2. \A v \in RamVariables : eeprom'[v] = ram'[v]
      BY <1>3, <1>4, Idle
    <3> QED  BY <3>1, <3>2 DEF LeadsAt, Yields
  <2>2. ram' = [v \in RamVariables |-> ram'[v]]
    BY <1>4 DEF IInv, TypeOK
  <2>3. \A i \in 1..Len(todo') : todo'[i].var # "initialised" /\ todo'[i].var # "stationID"
    BY <1>2
  <2> QED  BY <1>2, <1>3, <1>4, <1>6, <2>1, <2>2, <2>3, BeginsToWrite
<1> QED  BY <1>5, <1>6

-----------------------------------------------------------------------------
(* Restarts.                                                               *)

LEMMA RestartIInv == IInv /\ Restart => IInv'
<1> SUFFICES ASSUME IInv, Restart PROVE IInv'
  OBVIOUS
<1>1. /\ pc # "off" /\ pc' = "off" /\ initialised' = FALSE /\ todo' = << >> /\ command' = NoCommand
      /\ interrupted' = (interrupted \/ pc \in {"begin", "end", "crc"})
      /\ ram' = [v \in RamVariables |-> Default[v]]
      /\ UNCHANGED <<eeprom, crc, kept, givenId>>
  BY DEF Restart
<1>2. TypeOK'
  BY <1>1, NoWrites DEF IInv, TypeOK
<1>3. IdKnown' /\ Signed'
  BY <1>1, NoWrites DEF IInv, IdKnown, StoredId, Signed
<1>4. (MayBeLost => MayBeLost') /\ CrcOfKept' = CrcOfKept /\ CrcOfFresh' = CrcOfFresh
  BY <1>1 DEF MayBeLost, CrcOfKept, Kept, CrcOfFresh
<1>5. Checked'
  BY <1>1, <1>4 DEF IInv, Checked
<1>6. WhileOff'
  <2>1. CASE pc \in {"begin", "end", "crc"}
    BY <1>1, <2>1 DEF WhileOff, MayBeLost
  <2>2. CASE pc \in {"setup", "idle"}
    <3>1. CheckCRC(N) /\ crc.of = N /\ N # 0
      BY <2>2, PrefixFacts DEF IInv, AtRest, CheckCRC
    <3>2. MayBeLost \/ CrcOfKept
      BY <3>1 DEF IInv, Checked
    <3>3. CheckCRC(crc.of)'
      BY <1>1, <3>1 DEF CheckCRC
    <3> QED  BY <1>4, <3>2, <3>3 DEF WhileOff
  <2> QED  BY <1>1, <2>1, <2>2 DEF IInv, TypeOK
<1>7. AtRest' /\ StartingUp' /\ CopiesComing'
  BY <1>1 DEF AtRest, StartingUp, CopiesComing, Writing
<1> QED  BY <1>2, <1>3, <1>5, <1>6, <1>7 DEF IInv

-----------------------------------------------------------------------------
(* Writing.                                                                *)

LEMMA SetupIInv == IInv /\ Setup => IInv'
<1> SUFFICES ASSUME IInv, Setup PROVE IInv'
  OBVIOUS
<1>1. /\ pc = "setup" /\ kept' = eeprom /\ interrupted' = FALSE
      /\ ram' = [v \in RamVariables |-> IF v = "stationID" THEN ram[v] ELSE eeprom[v]]
      /\ UNCHANGED <<eeprom, crc, initialised, command, givenId>>
  BY DEF Setup
<1>2. \/ pc' = "idle" /\ todo' = todo
      \/ /\ pc' = "begin"
         /\ todo' = <<Write("frequency_i", Default["frequency_i"]),
                      Write("bandwidth_i", Default["bandwidth_i"])>>
  BY DEF Setup
<1>3. /\ initialised = TRUE /\ todo = << >> /\ command = NoCommand /\ CheckCRC(N) /\ crc.of = N
      /\ ram["stationID"] = eeprom["stationID"] /\ eeprom["initialised"] = "TRUE"
  BY <1>1 DEF IInv, TypeOK, AtRest, CheckCRC, Signed
<1>4. \A v \in RamVariables : ram'[v] = eeprom'[v]
  BY <1>1, <1>3
<1>5. Checked'
  BY <1>1, <1>3, PrefixFacts DEF Checked, CrcOfKept, Kept, CheckCRC
<1>6. CheckCRC(N)' /\ ram'["stationID"] = eeprom'["stationID"]
  BY <1>1, <1>3, <1>4 DEF CheckCRC, RamVariables
<1>7. CASE pc' = "idle" /\ todo' = todo
  <2>1. TypeOK'
    BY <1>1, <1>3, <1>7 DEF IInv, TypeOK
  <2>2. IdKnown' /\ Signed'
    BY <1>1, <1>3, <1>7, NoWrites DEF IInv, IdKnown, StoredId, Signed
  <2>3. AtRest'
    BY <1>1, <1>4, <1>6, <1>7 DEF AtRest, RamIsCurrent
  <2> QED  BY <1>5, <1>7, <2>1, <2>2, <2>3 DEF IInv, WhileOff, StartingUp, CopiesComing, Writing
<1>8. CASE /\ pc' = "begin"
           /\ todo' = <<Write("frequency_i", Default["frequency_i"]),
                        Write("bandwidth_i", Default["bandwidth_i"])>>
  <2>1. Len(todo') = 2 /\ todo'[1].var = "frequency_i" /\ todo'[2].var = "bandwidth_i"
    BY <1>8 DEF Write
  <2>2. Writes(todo')
    BY <1>8, NamedVariables DEF Writes, Write
  <2>3. \A i \in 1..Len(todo') : todo'[i].var \in {"frequency_i", "bandwidth_i"}
    BY <2>1
  <2>4. TypeOK'
    BY <1>1, <1>3, <1>8, <2>1, <2>2, NoWrites DEF IInv, TypeOK
  <2>5. IdKnown' /\ Signed'
    BY <1>1, <1>3, <2>3 DEF IInv, IdKnown, StoredId, Signed
  <2>6. CopiesComing'
    <3>1. \A v \in RamVariables : \A i \in 1..Len(todo') : todo'[i].var # v
      BY <2>3 DEF RamVariables, Charging
    <3> QED  BY <1>4, <3>1 DEF CopiesComing, LeadsAt, Yields
  <2> QED  BY <1>1, <1>3, <1>5, <1>8, <2>4, <2>5, <2>6 DEF IInv, WhileOff, AtRest, StartingUp
<1> QED  BY <1>2, <1>7, <1>8

LEMMA BeginWriteLeads ==
  ASSUME IInv, BeginWrite, NEW v \in Variables, NEW x, LeadsAt(v, x)
  PROVE  LeadsAt(v, x)'
<1>1. pc = "begin" /\ todo' = todo
  BY DEF BeginWrite
<1>2. /\ Head(todo) = todo[1] /\ Len(todo) \in Nat \ {0} /\ todo[1].var \in Variables
  BY <1>1, TailOfWrites DEF IInv, TypeOK
<1>3. \A w \in Variables : w # todo[1].var => eeprom'[w] = eeprom[w]
  BY <1>2 DEF BeginWrite, IInv, TypeOK
<1> QED  BY <1>1, <1>2, <1>3 DEF LeadsAt, Yields

LEMMA BeginWriteIInv == IInv /\ BeginWrite => IInv'
<1> SUFFICES ASSUME IInv, BeginWrite PROVE IInv'
  OBVIOUS
<1>1. /\ pc = "begin" /\ pc' = "end"
      /\ UNCHANGED <<ram, initialised, todo, command, kept, interrupted, givenId>>
  BY DEF BeginWrite, hist
<1>2. todo # << >> /\ Writes(todo) /\ Head(todo) = todo[1] /\ Len(todo) \in Nat \ {0}
      /\ todo[1].var \in Variables
  BY <1>1, TailOfWrites DEF IInv, TypeOK
<1>3. /\ eeprom' = eeprom \/ (todo[1].var \notin Single /\ eeprom' = [eeprom EXCEPT ![todo[1].var] = Garbage])
      /\ crc' = IF Overwrites(todo[1].var) THEN NoCrc ELSE crc
  BY <1>2 DEF BeginWrite
<1>4. /\ eeprom' = [v \in Variables |-> eeprom'[v]]
      /\ \A v \in Variables : v \in Single \/ v # todo[1].var => eeprom'[v] = eeprom[v]
  BY <1>2, <1>3 DEF IInv, TypeOK
<1>5. eeprom'["stationID"] = eeprom["stationID"] /\ eeprom'["initialised"] = eeprom["initialised"]
  BY <1>4, NamedVariables
<1>6. Prefix(0) = {}
  BY DEF Prefix
<1>7. TypeOK'
  <2>1. crc.of \in {0} \union (FirstSearched..N) /\ crc.is = [v \in Prefix(crc.of) |-> crc.is[v]]
    BY DEF IInv, TypeOK
  <2>2. NoCrc.of = 0 /\ NoCrc.is = [v \in Prefix(NoCrc.of) |-> NoCrc.is[v]]
    BY <1>6 DEF NoCrc
  <2>3. crc'.of \in {0} \union (FirstSearched..N) /\ crc'.is = [v \in Prefix(crc'.of) |-> crc'.is[v]]
    BY <1>3, <2>1, <2>2
  <2> QED  BY <1>1, <1>2, <1>4, <2>3 DEF IInv, TypeOK
<1>8. IdKnown' /\ Signed'
  BY <1>1, <1>5 DEF IInv, IdKnown, StoredId, Signed
<1>9. Checked'
  <2>1. CASE Overwrites(todo[1].var)
    <3>1. crc.of < N /\ crc'.of = 0
      BY <1>3, <2>1 DEF Overwrites, NoCrc
    <3>2. initialised # TRUE
      <4>1. crc.of # N
        BY <3>1, PrefixFacts DEF IInv, TypeOK
      <4> QED  BY <4>1 DEF IInv, Checked
    <3> QED  BY <1>1, <3>1, <3>2 DEF Checked, IInv, TypeOK
  <2>2. CASE ~Overwrites(todo[1].var)
    BY <1>1, <1>3, <1>8, <2>2, SameCrc DEF IInv, Signed
  <2> QED  BY <2>1, <2>2
<1>10. ASSUME NEW v \in Variables, NEW x, LeadsAt(v, x) PROVE LeadsAt(v, x)'
  BY <1>10, BeginWriteLeads
<1>11. StartingUp'
  <2>1. ASSUME NEW values, LeadsTo(values) PROVE LeadsTo(values)'
    BY <2>1, <1>10 DEF LeadsTo
  <2>2. LeadsAt("initialised", "TRUE") => LeadsAt("initialised", "TRUE")'
    BY <1>10, NamedVariables
  <2>3. /\ LeadsTo(kept) => LeadsTo(kept)'
        /\ LeadsTo(Fresh(ram["stationID"])) => LeadsTo(Fresh(ram["stationID"]))'
        /\ MayBeLost' = MayBeLost
    <3>1. PICK old : old = kept
      OBVIOUS
    <3>2. PICK new : new = Fresh(ram["stationID"])
      OBVIOUS
    <3>3. kept' = old /\ Fresh(ram["stationID"])' = new
      BY <1>1, <3>1, <3>2
    <3>4. (LeadsTo(kept) => LeadsTo(kept)') /\ MayBeLost' = MayBeLost
      <4>1. LeadsTo(old) => LeadsTo(old)'
        BY <2>1
      <4> QED  BY <1>1, <3>1, <3>3, <4>1 DEF LeadsTo, MayBeLost
    <3>5. LeadsTo(Fresh(ram["stationID"])) => LeadsTo(Fresh(ram["stationID"]))'
      <4>1. LeadsTo(new) => LeadsTo(new)'
        BY <2>1
      <4> QED  BY <1>1, <3>2, <3>3, <4>1 DEF LeadsTo
    <3> QED  BY <3>4, <3>5
  <2> QED  BY <1>1, <2>2, <2>3 DEF IInv, StartingUp, Writing
<1>12. CopiesComing'
  BY <1>1, <1>10, NamedVariables DEF IInv, CopiesComing, Writing
<1> QED  BY <1>1, <1>7, <1>8, <1>9, <1>11, <1>12 DEF IInv, WhileOff, AtRest

LEMMA EndWriteLeads ==
  ASSUME IInv, EndWrite, NEW v \in Variables, NEW x, LeadsAt(v, x)
  PROVE  LeadsAt(v, x)'
<1>1. pc = "end" /\ todo' = Tail(todo)
  BY DEF EndWrite
<1>2. /\ Head(todo) = todo[1] /\ todo[1].var \in Variables
      /\ Len(todo) \in Nat \ {0} /\ Len(todo') = Len(todo) - 1
      /\ \A i \in 1..Len(todo') : todo'[i] = todo[i + 1]
  BY <1>1, TailOfWrites DEF IInv, TypeOK
<1>3. \A u \in Variables : eeprom'[u] = IF u = todo[1].var THEN todo[1].value ELSE eeprom[u]
  BY <1>2 DEF EndWrite, IInv, TypeOK
<1>4. (\A i \in 1..Len(todo') : todo'[i].var # v) => eeprom'[v] = x
  <2> SUFFICES ASSUME \A i \in 1..Len(todo') : todo'[i].var # v PROVE eeprom'[v] = x
    OBVIOUS
  <2>1. \A i \in 2..Len(todo) : todo[i].var # v
    <3> SUFFICES ASSUME NEW i \in 2..Len(todo) PROVE todo[i].var # v
      OBVIOUS
    <3>1. i - 1 \in 1..Len(todo') /\ todo'[i - 1] = todo[i]
      BY <1>2
    <3> QED  BY <3>1
  <2>2. CASE todo[1].var = v
    <3>1. 1 \in 1..Len(todo) /\ \A j \in (1 + 1)..Len(todo) : todo[j].var # v
      BY <1>2, <2>1
    <3>2. todo[1].value = x
      BY <2>2, <3>1 DEF LeadsAt, Yields
    <3> QED  BY <1>3, <2>2, <3>2
  <2>3. CASE todo[1].var # v
    <3>1. \A i \in 1..Len(todo) : todo[i].var # v
      BY <1>2, <2>1, <2>3
    <3>2. eeprom[v] = x
      BY <3>1 DEF LeadsAt, Yields
    <3> QED  BY <1>3, <2>3, <3>2
  <2> QED  BY <2>2, <2>3
<1>5. ASSUME NEW i \in 1..Len(todo'), todo'[i].var = v,
             \A j \in (i + 1)..Len(todo') : todo'[j].var # v
      PROVE  todo'[i].value = x
  <2>1. i + 1 \in 1..Len(todo) /\ todo[i + 1] = todo'[i]
    BY <1>2
  <2>2. \A j \in (i + 2)..Len(todo) : todo[j].var # v
    <3> SUFFICES ASSUME NEW j \in (i + 2)..Len(todo) PROVE todo[j].var # v
      OBVIOUS
    <3>1. j - 1 \in (i + 1)..Len(todo') /\ todo'[j - 1] = todo[j]
      BY <1>2
    <3> QED  BY <1>5, <3>1
  <2> QED  BY <1>5, <2>1, <2>2 DEF LeadsAt, Yields
<1> QED  BY <1>4, <1>5 DEF LeadsAt, Yields

LEMMA EndWriteIInv == IInv /\ EndWrite => IInv'
<1> SUFFICES ASSUME IInv, EndWrite PROVE IInv'
  OBVIOUS
<1>1. /\ pc = "end" /\ todo' = Tail(todo)
      /\ pc' = IF initialised \/ todo' = << >> THEN "crc" ELSE "begin"
      /\ UNCHANGED <<crc, ram, initialised, command, kept, interrupted>>
  BY DEF EndWrite
<1> DEFINE w == todo[1]
<1>2. /\ Writes(todo) /\ Writes(todo') /\ Head(todo) = w /\ w.var \in Variables
      /\ Len(todo) \in Nat \ {0} /\ Len(todo') = Len(todo) - 1
      /\ \A i \in 1..Len(todo') : todo'[i] = todo[i + 1]
  BY <1>1, TailOfWrites DEF IInv, TypeOK
<1>3. /\ eeprom' = [eeprom EXCEPT ![w.var] = w.value]
      /\ givenId' = IF w.var # "stationID" \/ command # "id" THEN givenId
                    ELSE IF ValidId(w.value) THEN w.value ELSE Default["stationID"]
  BY <1>2 DEF EndWrite
<1>4. /\ eeprom' = [v \in Variables |-> eeprom'[v]]
      /\ \A v \in Variables : eeprom'[v] = IF v = w.var THEN w.value ELSE eeprom[v]
  BY <1>2, <1>3 DEF IInv, TypeOK
<1>5. TypeOK'
  BY <1>1, <1>2, <1>4, NoWrites DEF IInv, TypeOK
<1>6. IdKnown'
  <2>1. CASE w.var # "stationID"
    BY <1>1, <1>2, <1>3, <1>4, <2>1, NamedVariables DEF IInv, IdKnown, StoredId
  <2>2. CASE w.var = "stationID" /\ command = "id"
    BY <1>1, <1>2, <1>3, <1>4, <2>2 DEF IdKnown, StoredId
  <2>3. CASE w.var = "stationID" /\ command # "id"
    <3>1. ~initialised /\ w.value = StoredId /\ ValidId(StoredId) /\ givenId = StoredId
      BY <1>2, <2>3, DefaultAssumption DEF IInv, IdKnown, StoredId
    <3>2. StoredId' = StoredId /\ givenId' = givenId
      BY <1>2, <1>3, <1>4, <2>3, <3>1 DEF StoredId
    <3> QED  BY <1>1, <1>2, <2>3, <3>1, <3>2 DEF IInv, IdKnown
  <2> QED  BY <2>1, <2>2, <2>3
<1>7. Signed'
  <2>1. \A i \in 1..Len(todo) : todo[i].var = "initialised" => todo[i].value = "TRUE"
    BY DEF IInv, Signed
  <2>2. initialised => eeprom'["initialised"] = "TRUE"
    BY <1>2, <1>4, <2>1, NamedVariables DEF IInv, Signed
  <2> QED  BY <1>1, <1>2, <2>1, <2>2 DEF IInv, Signed
<1>8. Checked'
  BY <1>1, <1>7, SameCrc DEF IInv, Signed
<1>9. ASSUME NEW v \in Variables, NEW x, LeadsAt(v, x) PROVE LeadsAt(v, x)'
  BY <1>9, EndWriteLeads
<1>10. StartingUp'
  <2>1. ASSUME NEW values, LeadsTo(values) PROVE LeadsTo(values)'
    BY <2>1, <1>9 DEF LeadsTo
  <2>2. LeadsAt("initialised", "TRUE") => LeadsAt("initialised", "TRUE")'
    BY <1>9, NamedVariables
  <2>3. /\ LeadsTo(kept) => LeadsTo(kept)'
        /\ LeadsTo(Fresh(ram["stationID"])) => LeadsTo(Fresh(ram["stationID"]))'
        /\ MayBeLost' = MayBeLost
    <3>1. PICK old : old = kept
      OBVIOUS
    <3>2. PICK new : new = Fresh(ram["stationID"])
      OBVIOUS
    <3>3. kept' = old /\ Fresh(ram["stationID"])' = new
      BY <1>1, <3>1, <3>2
    <3>4. (LeadsTo(kept) => LeadsTo(kept)') /\ MayBeLost' = MayBeLost
      <4>1. LeadsTo(old) => LeadsTo(old)'
        BY <2>1
      <4> QED  BY <1>1, <3>1, <3>3, <4>1 DEF LeadsTo, MayBeLost
    <3>5. LeadsTo(Fresh(ram["stationID"])) => LeadsTo(Fresh(ram["stationID"]))'
      <4>1. LeadsTo(new) => LeadsTo(new)'
        BY <2>1
      <4> QED  BY <1>1, <3>2, <3>3, <4>1 DEF LeadsTo
    <3> QED  BY <3>4, <3>5
  <2> QED  BY <1>1, <2>2, <2>3 DEF IInv, StartingUp, Writing
<1>11. CopiesComing'
  BY <1>1, <1>9, NamedVariables DEF IInv, CopiesComing, Writing
<1> QED  BY <1>1, <1>5, <1>6, <1>7, <1>8, <1>10, <1>11 DEF IInv, WhileOff, AtRest

LEMMA FreshFacts ==
  ASSUME NEW id
  PROVE  /\ Fresh(id) = [v \in Variables |-> Fresh(id)[v]]
         /\ Fresh(id)["stationID"] = id /\ Fresh(id)["initialised"] = "TRUE"
         /\ Fresh(id)["messageTypesToRecord"] = RecordSK
         /\ \A v \in Variables \ {"stationID", "messageTypesToRecord"} : Fresh(id)[v] = Default[v]
BY DefaultAssumption, NamedVariables DEF Fresh

LEMMA SetCRCIInv == IInv /\ SetCRC => IInv'
<1> SUFFICES ASSUME IInv, SetCRC PROVE IInv'
  OBVIOUS
<1>1. /\ pc = "crc" /\ crc' = CrcOf(N, eeprom) /\ kept' = IF initialised THEN eeprom ELSE kept
      /\ initialised' = TRUE
      /\ pc' = IF ~initialised THEN "setup" ELSE IF todo = << >> THEN "idle" ELSE "begin"
      /\ UNCHANGED <<eeprom, todo, interrupted, givenId>>
  BY DEF SetCRC
<1>2. /\ eeprom = [v \in Variables |-> eeprom[v]] /\ kept = [v \in Variables |-> kept[v]]
      /\ ram = [v \in RamVariables |-> ram[v]] /\ initialised \in BOOLEAN
      /\ ~initialised => todo = << >> /\ command = NoCommand
  BY <1>1 DEF IInv, TypeOK
<1>3. crc'.of = N /\ crc'.is = eeprom /\ crc'.is = [v \in Prefix(N) |-> crc'.is[v]]
  BY <1>1, <1>2, PrefixFacts DEF CrcOf
<1>4. CheckCRC(N)'
  BY <1>1, <1>3, PrefixFacts DEF CheckCRC
<1>5. CASE ~initialised
  <2>1. /\ todo' = << >> /\ pc' = "setup" /\ kept' = kept /\ ram' = ram /\ command' = NoCommand
    BY <1>1, <1>2, <1>5, NoWrites DEF SetCRC, NoCommand
  <2>2. \A v \in Variables : \A x : LeadsAt(v, x) => eeprom[v] = x
    BY <1>2, <1>5, NoWrites DEF LeadsAt, Yields
  <2>3. eeprom["initialised"] = "TRUE"
    BY <1>1, <1>5, <2>2, NamedVariables DEF IInv, StartingUp, Writing
  <2>4. ram["stationID"] = eeprom["stationID"]
    <3>1. "stationID" \in RamVariables /\ "stationID" \notin Charging
      BY DEF RamVariables, Charging
    <3>2. LeadsAt("stationID", ram["stationID"])
      BY <1>1, <3>1 DEF IInv, CopiesComing, Writing
    <3> QED  BY <2>2, <3>2, NamedVariables
  <2>5. eeprom = kept \/ (MayBeLost /\ eeprom = Fresh(ram["stationID"]))
    <3>1. CASE LeadsTo(kept)
      BY <1>2, <2>2, <3>1 DEF LeadsTo
    <3>2. CASE MayBeLost /\ LeadsTo(Fresh(ram["stationID"]))
      <4>1. \A v \in Variables : eeprom[v] = Fresh(ram["stationID"])[v]
        BY <2>2, <3>2 DEF LeadsTo
      <4> QED  BY <1>2, <3>2, <4>1, FreshFacts
    <3> QED  BY <1>1, <1>5, <3>1, <3>2 DEF IInv, StartingUp, Writing
  <2>6. MayBeLost' = MayBeLost
    BY <1>1, <2>1 DEF MayBeLost
  <2>7. Checked'
    <3>1. CASE eeprom = kept
      BY <1>3, <2>1, <3>1, PrefixFacts DEF Checked, CrcOfKept, Kept
    <3>2. CASE MayBeLost /\ eeprom = Fresh(ram["stationID"])
      <4>1. ram["stationID"] \in 1..127
        BY <1>1, <1>5 DEF IInv, StartingUp, Writing, ValidId
      <4>2. CrcOfFresh'
        BY <1>3, <3>2, <4>1 DEF CrcOfFresh
      <4> QED  BY <1>3, <2>6, <3>2, <4>2 DEF Checked
    <3> QED  BY <2>5, <3>1, <3>2
  <2>8. TypeOK'
    BY <1>1, <1>2, <1>3, <2>1, NoWrites, PrefixFacts DEF IInv, TypeOK
  <2>9. IdKnown' /\ Signed'
    BY <1>1, <2>1, <2>3, NoWrites DEF IInv, IdKnown, StoredId, Signed
  <2>10. AtRest'
    BY <1>1, <1>4, <2>1, <2>4, <2>5, <2>6 DEF AtRest
  <2> QED  BY <2>1, <2>7, <2>8, <2>9, <2>10 DEF IInv, WhileOff, StartingUp, CopiesComing, Writing
<1>6. CASE initialised
  <2>1. kept' = eeprom /\ initialised = TRUE /\ eeprom["initialised"] = "TRUE"
    BY <1>1, <1>2, <1>6 DEF IInv, Signed
  <2>2. Checked'
    BY <1>3, <2>1, PrefixFacts DEF Checked, CrcOfKept, Kept
  <2>3. IdKnown' /\ Signed'
    <3>1. todo' = << >> \/ command' = command
      BY <1>1 DEF SetCRC
    <3> QED  BY <1>1, <2>1, <3>1, NoWrites DEF IInv, IdKnown, StoredId, Signed
  <2>4. CASE todo = << >>
    <3>1. /\ pc' = "idle" /\ todo' = << >> /\ command' = NoCommand
          /\ ram' = IF command = "charging"
                      THEN [v \in RamVariables |-> IF v \in Charging THEN eeprom[v] ELSE ram[v]]
                      ELSE ram
      BY <1>1, <1>6, <2>4 DEF SetCRC
    <3>2. \A v \in RamVariables : ram'[v] = eeprom[v]
      <4> SUFFICES ASSUME NEW v \in RamVariables PROVE ram'[v] = eeprom[v]
        OBVIOUS
      <4>1. CASE command = "charging" /\ v \in Charging
        BY <3>1, <4>1
      <4>2. CASE ~(command = "charging" /\ v \in Charging)
        <5>1. LeadsAt(v, ram[v])
          BY <1>1, <1>6, <4>2 DEF IInv, CopiesComing, Writing
        <5>2. eeprom[v] = ram[v]
          BY <2>4, <5>1, NoWrites DEF LeadsAt, Yields
        <5> QED  BY <3>1, <4>2, <5>2
      <4> QED  BY <4>1, <4>2
    <3>3. AtRest'
      BY <1>1, <1>4, <2>1, <3>1, <3>2 DEF AtRest, RamIsCurrent, RamVariables
    <3>4. TypeOK'
      <4>1. ram' = [v \in RamVariables |-> ram'[v]]
        BY <1>2, <3>1
      <4> QED  BY <1>1, <1>2, <1>3, <2>1, <3>1, <4>1, NoWrites, PrefixFacts DEF IInv, TypeOK
    <3> QED  BY <2>2, <2>3, <3>1, <3>3, <3>4 DEF IInv, WhileOff, StartingUp, CopiesComing, Writing
  <2>5. CASE todo # << >>
    <3>1. pc' = "begin" /\ ram' = ram /\ command' = command
      BY <1>1, <1>6, <2>5 DEF SetCRC
    <3>2. TypeOK'
      BY <1>1, <1>2, <1>3, <2>1, <2>5, <3>1, PrefixFacts DEF IInv, TypeOK
    <3>3. CopiesComing'
      BY <1>1, <1>6, <3>1 DEF IInv, CopiesComing, Writing, LeadsAt, Yields
    <3> QED  BY <1>1, <2>2, <2>3, <3>1, <3>2, <3>3 DEF IInv, WhileOff, AtRest, StartingUp
  <2> QED  BY <2>4, <2>5
<1> QED  BY <1>5, <1>6

-----------------------------------------------------------------------------
(* Start-up.                                                               *)

LEMMA MissingFacts ==
  ASSUME NEW n \in FirstSearched..(N - 1)
  PROVE  /\ Writes(Missing(n)) /\ Len(Missing(n)) = N - n /\ Missing(n) # << >>
         /\ \A i \in 1..(N - n) : /\ Missing(n)[i].var = Layout[n + i]
                                 /\ Missing(n)[i].value = Default[Layout[n + i]]
<1>1. N \in Nat /\ n \in Nat /\ n < N
  BY PrefixFacts
<1>2. \A i \in 1..(N - n) : n + i \in 1..N
  BY <1>1
<1>3. \A i \in 1..(N - n) : Layout[n + i] \in Variables
  BY <1>2 DEF Variables
<1>4. \A i \in 1..(N - n) : Missing(n)[i] = Write(Layout[n + i], Default[Layout[n + i]])
  BY DEF Missing
<1>5. Len(Missing(n)) = N - n /\ N - n \in Nat \ {0}
  BY <1>1 DEF Missing
<1>6. \A i \in 1..(N - n) : /\ Missing(n)[i].var = Layout[n + i]
                           /\ Missing(n)[i].value = Default[Layout[n + i]]
  <2> SUFFICES ASSUME NEW i \in 1..(N - n)
               PROVE  /\ Missing(n)[i].var = Layout[n + i]
                      /\ Missing(n)[i].value = Default[Layout[n + i]]
    OBVIOUS
  <2>1. Missing(n)[i] = Write(Layout[n + i], Default[Layout[n + i]])
    BY <1>4
  <2> QED  BY <2>1 DEF Write
<1>7. Missing(n) = [i \in 1..(N - n) |-> Write(Missing(n)[i].var, Missing(n)[i].value)]
  BY <1>6 DEF Missing
<1>8. Writes(Missing(n)) /\ Missing(n) # << >>
  BY <1>3, <1>5, <1>6, <1>7, NoWrites DEF Writes
<1> QED  BY <1>5, <1>6, <1>8

LEMMA NotMissing ==
  ASSUME NEW n \in FirstSearched..(N - 1), NEW v \in Prefix(n), NEW i \in 1..(N - n)
  PROVE  Layout[n + i] # v
<1>1. PICK k \in 1..n : v = Layout[k]
  BY DEF Prefix
<1>2. N \in Nat /\ n \in Nat /\ k \in 1..N /\ n + i \in 1..N /\ n + i # k
  BY PrefixFacts
<1> QED  BY <1>1, <1>2, LayoutAssumption

LEMMA MissingYields ==
  ASSUME NEW n \in FirstSearched..(N - 1), NEW values, NEW goal,
         \A v \in Prefix(n) : values[v] = goal[v],
         \A v \in Variables \ Prefix(n) : goal[v] = Default[v],
         NEW v \in Variables, NEW s, s = Missing(n)
  PROVE  Yields(s, values, v, goal[v])
<1>1. CASE v \in Prefix(n)
  <2>1. \A i \in 1..Len(s) : s[i].var # v
    BY <1>1, MissingFacts, NotMissing
  <2> QED  BY <1>1, <2>1 DEF Yields
<1>2. CASE v \notin Prefix(n)
  <2>1. PICK k \in 1..N : v = Layout[k]
    BY DEF Variables
  <2>2. N \in Nat /\ n \in Nat /\ k > n
    BY <1>2, <2>1, PrefixFacts DEF Prefix
  <2>3. k - n \in 1..Len(s) /\ n + (k - n) = k
    BY <2>2, MissingFacts
  <2>4. s[k - n].var = v
    BY <2>1, <2>3, MissingFacts
  <2>5. \A i \in 1..Len(s) : s[i].var = v => s[i].value = goal[v]
    <3>1. goal[v] = Default[v]
      BY <1>2
    <3>2. ASSUME NEW i \in 1..Len(s) PROVE s[i].value = Default[s[i].var]
      <4>1. i \in 1..(N - n)
        BY MissingFacts
      <4>2. Missing(n)[i].var = Layout[n + i] /\ Missing(n)[i].value = Default[Layout[n + i]]
        BY <4>1, MissingFacts
      <4> QED  BY <4>2
    <3> QED  BY <3>1, <3>2
  <2> QED  BY <2>3, <2>4, <2>5 DEF Yields
<1> QED  BY <1>1, <1>2

LEMMA AllDefaultsFacts ==
  ASSUME NEW id
  PROVE  /\ Writes(AllDefaults(id)) /\ Len(AllDefaults(id)) = N + 1 /\ AllDefaults(id) # << >>
         /\ \A i \in 1..N :
              /\ AllDefaults(id)[i].var = Layout[i]
              /\ AllDefaults(id)[i].value = IF Layout[i] = "stationID" THEN id ELSE Default[Layout[i]]
         /\ AllDefaults(id)[N + 1].var = "messageTypesToRecord"
         /\ AllDefaults(id)[N + 1].value = RecordSK
<1> DEFINE all == [i \in 1..N |-> Write(Layout[i], IF Layout[i] = "stationID" THEN id ELSE Default[Layout[i]])]
           types == <<Write("messageTypesToRecord", RecordSK)>>
<1>1. N \in Nat \ {0} /\ \A i \in 1..N : Layout[i] \in Variables
  BY PrefixFacts DEF Variables
<1>2. Writes(all) /\ Len(all) = N
  BY <1>1 DEF Writes, Write
<1>3. /\ Writes(types) /\ Len(types) = 1 /\ types[1].var = "messageTypesToRecord"
      /\ types[1].value = RecordSK
  BY OneWrite, NamedVariables
<1>4. \A i \in 1..N :
        all[i].var = Layout[i] /\ all[i].value = IF Layout[i] = "stationID" THEN id ELSE Default[Layout[i]]
  BY DEF Write
<1>5. AllDefaults(id) = all \o types
  BY DEF AllDefaults
<1>6. Writes(all) /\ Writes(types)
  BY <1>2, <1>3
<1> HIDE DEF all, types
<1>7. Writes(all \o types) /\ Len(all \o types) = N + 1
      /\ (\A i \in 1..N : (all \o types)[i] = all[i]) /\ (all \o types)[N + 1] = types[1]
  <2>1. /\ Writes(all \o types) /\ Len(all \o types) = Len(all) + Len(types)
        /\ \A i \in 1..Len(all) : (all \o types)[i] = all[i]
        /\ \A i \in 1..Len(types) : (all \o types)[Len(all) + i] = types[i]
    BY <1>6, TwoWrites
  <2>2. 1 \in 1..Len(types)
    BY <1>3
  <2> QED  BY <1>2, <1>3, <2>1, <2>2
<1>8. all \o types # << >>
  <2>1. Len(all \o types) # 0
    BY <1>1, <1>7
  <2> QED  BY <2>1, NoWrites
<1>9. \A i \in 1..N :
        /\ (all \o types)[i].var = Layout[i]
        /\ (all \o types)[i].value = IF Layout[i] = "stationID" THEN id ELSE Default[Layout[i]]
  BY <1>4, <1>7
<1>10. (all \o types)[N + 1].var = "messageTypesToRecord" /\ (all \o types)[N + 1].value = RecordSK
  BY <1>3, <1>7
<1> QED  BY <1>5, <1>7, <1>8, <1>9, <1>10

LEMMA AllDefaultsYield ==
  ASSUME NEW id, NEW values, NEW v \in Variables, NEW s, s = AllDefaults(id)
  PROVE  Yields(s, values, v, Fresh(id)[v])
<1>1. PICK k \in 1..N : v = Layout[k]
  BY DEF Variables
<1>2. N \in Nat /\ Len(s) = N + 1 /\ k \in 1..Len(s) /\ s[k].var = v
  BY <1>1, AllDefaultsFacts, PrefixFacts
<1>3. ASSUME NEW i \in 1..Len(s), s[i].var = v, \A j \in (i + 1)..Len(s) : s[j].var # v
      PROVE  s[i].value = Fresh(id)[v]
  <2>1. CASE v = "messageTypesToRecord"
    <3>1. N + 1 \in 1..Len(s) /\ s[N + 1].var = v
      BY <1>2, <2>1, AllDefaultsFacts
    <3>2. i = N + 1
      BY <1>2, <1>3, <3>1
    <3> QED  BY <2>1, <3>2, AllDefaultsFacts, FreshFacts
  <2>2. CASE v # "messageTypesToRecord"
    <3>1. i \in 1..N
      BY <1>2, <1>3, <2>2, AllDefaultsFacts
    <3> QED  BY <1>3, <2>2, <3>1, AllDefaultsFacts, FreshFacts
  <2> QED  BY <2>1, <2>2
<1> QED  BY <1>2, <1>3 DEF Yields

LEMMA InitialiseIInv == IInv /\ Initialise => IInv'
<1> SUFFICES ASSUME IInv, Initialise PROVE IInv'
  OBVIOUS
<1>1. /\ pc = "off" /\ ram' = [ram EXCEPT !["stationID"] = StoredId]
      /\ UNCHANGED <<eeprom, crc, command, kept, interrupted, givenId>>
  BY DEF Initialise, hist
<1>2. /\ initialised = FALSE /\ todo = << >> /\ command = NoCommand
      /\ eeprom = [v \in Variables |-> eeprom[v]] /\ kept = [v \in Variables |-> kept[v]]
      /\ ram = [v \in RamVariables |-> ram[v]]
      /\ crc.of \in {0} \union (FirstSearched..N) /\ crc.is = [v \in Prefix(crc.of) |-> crc.is[v]]
  BY <1>1 DEF IInv, TypeOK
<1>3. ram' = [v \in RamVariables |-> ram'[v]] /\ ram'["stationID"] = StoredId
  BY <1>1, <1>2 DEF RamVariables
<1>4. StoredId' = StoredId /\ givenId' = StoredId /\ ValidId(StoredId)
  BY <1>1, DefaultAssumption DEF IInv, IdKnown, StoredId
<1>5. MayBeLost' = MayBeLost /\ CrcOfKept' = CrcOfKept /\ CrcOfFresh' = CrcOfFresh
  BY <1>1 DEF MayBeLost, CrcOfKept, Kept, CrcOfFresh
<1>6. CASE Readable /\ CheckCRC(N) /\ initialised' = TRUE /\ pc' = "setup" /\ todo' = todo
  <2>1. crc.of = N /\ (\A v \in Variables : eeprom[v] = crc.is[v]) /\ crc.is = eeprom
    BY <1>2, <1>6, PrefixFacts DEF CheckCRC
  <2>2. eeprom["initialised"] = "TRUE" /\ StoredId = eeprom["stationID"]
    BY <1>6 DEF Readable, StoredId
  <2>3. eeprom = kept \/ (MayBeLost /\ eeprom = Fresh(StoredId))
    <3>1. CASE CrcOfKept
      <4>1. \A v \in Variables : eeprom[v] = kept[v]
        BY <2>1, <3>1, PrefixFacts DEF CrcOfKept, Kept
      <4> QED  BY <1>2, <4>1
    <3>2. CASE MayBeLost /\ CrcOfFresh
      BY <2>1, <2>2, <3>2, FreshFacts DEF CrcOfFresh
    <3> QED  BY <2>1, <3>1, <3>2, PrefixFacts DEF IInv, Checked
  <2>4. AtRest'
    BY <1>1, <1>3, <1>5, <1>6, <2>2, <2>3 DEF AtRest, CheckCRC
  <2>5. TypeOK'
    BY <1>1, <1>2, <1>3, <1>6, NoWrites DEF IInv, TypeOK
  <2>6. IdKnown' /\ Signed'
    BY <1>1, <1>2, <1>4, <1>6, <2>2, NoWrites DEF IInv, IdKnown, Signed
  <2>7. Checked'
    BY <1>1, <1>5, <2>1 DEF IInv, Checked
  <2> QED  BY <1>6, <2>4, <2>5, <2>6, <2>7 DEF IInv, WhileOff, StartingUp, CopiesComing, Writing
<1>7. ASSUME pc' = "begin", initialised' = FALSE, Writes(todo'), todo' # << >>,
             LeadsTo(kept)' \/ (MayBeLost' /\ LeadsTo(Fresh(ram["stationID"]))'),
             LeadsAt("stationID", ram["stationID"])', LeadsAt("initialised", "TRUE")',
             \A i \in 1..Len(todo') : /\ todo'[i].var = "stationID" => todo'[i].value = StoredId
                                      /\ todo'[i].var = "initialised" => todo'[i].value = "TRUE"
      PROVE  IInv'
  <2>1. TypeOK'
    BY <1>1, <1>2, <1>3, <1>7 DEF IInv, TypeOK
  <2>2. IdKnown' /\ Signed'
    BY <1>1, <1>4, <1>7 DEF IInv, IdKnown, Signed
  <2>3. Checked'
    BY <1>1, <1>5, <1>7 DEF IInv, Checked
  <2>4. StartingUp' /\ CopiesComing'
    BY <1>3, <1>4, <1>7 DEF StartingUp, CopiesComing, ValidId
  <2> QED  BY <1>7, <2>1, <2>2, <2>3, <2>4 DEF IInv, WhileOff, AtRest
<1>8. ASSUME NEW n \in FirstSearched..(N - 1), Readable, CheckCRC(n),
             todo' = Missing(n), pc' = "begin", initialised' = initialised
      PROVE  IInv'
  <2>1. crc.of = n /\ n \in FirstSearched..N /\ n # N /\ n # 0
    BY <1>8, PrefixFacts DEF CheckCRC
  <2>2. CrcOfKept
    BY <2>1 DEF IInv, Checked, CrcOfFresh
  <2>3. /\ \A v \in Prefix(n) : eeprom[v] = kept[v]
        /\ \A v \in Variables \ Prefix(n) : kept[v] = Default[v]
    BY <1>8, <2>1, <2>2, PrefixFacts DEF CrcOfKept, Kept, CheckCRC
  <2>4. (\A v \in Prefix(n) : eeprom'[v] = kept'[v]) /\ \A v \in Variables \ Prefix(n) : kept'[v] = Default[v]
    BY <1>1, <2>3
  <2>5. LeadsTo(kept)'
    BY <1>8, <2>4, MissingYields DEF LeadsTo, LeadsAt
  <2>6. Writes(todo') /\ todo' # << >>
    BY <1>8, MissingFacts
  <2>7. \A i \in 1..Len(todo') : todo'[i].var \notin {"stationID", "initialised"}
    <3>1. "stationID" \in Prefix(n) /\ "initialised" \in Prefix(n)
      BY <2>1, PrefixFacts
    <3> QED  BY <1>8, <3>1, MissingFacts, NotMissing
  <2>8. eeprom'["stationID"] = ram'["stationID"] /\ eeprom'["initialised"] = "TRUE"
    BY <1>1, <1>3, <1>8 DEF Readable, StoredId
  <2>9. LeadsAt("stationID", ram["stationID"])' /\ LeadsAt("initialised", "TRUE")'
    BY <2>7, <2>8 DEF LeadsAt, Yields
  <2> QED  BY <1>2, <1>7, <1>8, <2>5, <2>6, <2>7, <2>9
<1>9. CASE /\ ~(Readable /\ \E n \in FirstSearched..N : CheckCRC(n))
           /\ todo' = AllDefaults(StoredId) /\ pc' = "begin" /\ initialised' = initialised
  <2>1. MayBeLost
    <3> SUFFICES ASSUME CrcOfKept, CheckCRC(crc.of) PROVE MayBeLost
      BY <1>1 DEF IInv, WhileOff
    <3>1. crc.of \in FirstSearched..N
      BY <1>2 DEF CrcOfKept
    <3>2. "stationID" \in Prefix(crc.of) /\ "initialised" \in Prefix(crc.of)
          /\ "stationID" \in Variables /\ "initialised" \in Variables
      BY <3>1, PrefixFacts, NamedVariables
    <3>3. eeprom["stationID"] = kept["stationID"] /\ eeprom["initialised"] = kept["initialised"]
      BY <3>2 DEF CrcOfKept, Kept, CheckCRC
    <3>4. ~Readable
      BY <1>9, <3>1
    <3> QED  BY <3>3, <3>4 DEF IInv, Signed, Readable, MayBeLost
  <2>2. PICK own : own = StoredId
    OBVIOUS
  <2>3. todo' = AllDefaults(own) /\ ram'["stationID"] = own
    BY <1>3, <1>9, <2>2
  <2>4. LeadsTo(Fresh(own))'
    BY <2>3, AllDefaultsYield DEF LeadsTo, LeadsAt
  <2>5. LeadsTo(Fresh(ram["stationID"]))'
    BY <2>3, <2>4 DEF LeadsTo
  <2>6. LeadsAt("stationID", own)' /\ LeadsAt("initialised", "TRUE")'
    <3>1. Fresh(own)["stationID"] = own /\ Fresh(own)["initialised"] = "TRUE"
      BY FreshFacts
    <3> QED  BY <2>4, <3>1, NamedVariables DEF LeadsTo, LeadsAt, Yields
  <2>7. LeadsAt("stationID", ram["stationID"])'
    BY <2>3, <2>6 DEF LeadsAt, Yields
  <2>8. Writes(todo') /\ todo' # << >> /\ Len(todo') = N + 1 /\ N \in Nat
    BY <2>3, AllDefaultsFacts, PrefixFacts
  <2>9. \A i \in 1..Len(todo') : /\ todo'[i].var = "stationID" => todo'[i].value = own
                                 /\ todo'[i].var = "initialised" => todo'[i].value = "TRUE"
    <3> SUFFICES ASSUME NEW i \in 1..Len(todo')
                 PROVE  /\ todo'[i].var = "stationID" => todo'[i].value = own
                        /\ todo'[i].var = "initialised" => todo'[i].value = "TRUE"
      OBVIOUS
    <3>1. CASE i \in 1..N
      BY <2>3, <3>1, AllDefaultsFacts, DefaultAssumption
    <3>2. CASE i = N + 1
      BY <2>3, <3>2, AllDefaultsFacts
    <3> QED  BY <2>8, <3>1, <3>2
  <2> QED  BY <1>2, <1>5, <1>7, <1>9, <2>1, <2>2, <2>5, <2>6, <2>7, <2>8, <2>9
<1>10. \/ Readable /\ CheckCRC(N) /\ initialised' = TRUE /\ pc' = "setup" /\ todo' = todo
       \/ \E n \in FirstSearched..(N - 1) :
            /\ Readable /\ CheckCRC(n) /\ todo' = Missing(n) /\ pc' = "begin"
            /\ initialised' = initialised
       \/ /\ ~(Readable /\ \E n \in FirstSearched..N : CheckCRC(n))
          /\ todo' = AllDefaults(StoredId) /\ pc' = "begin" /\ initialised' = initialised
  BY Zenon DEF Initialise
<1> QED  BY <1>6, <1>8, <1>9, <1>10

-----------------------------------------------------------------------------
(***************************************************************************)
(* The inductive invariant holds for any layout, values and commands, and  *)
(* any number of restarts.                                                 *)
(***************************************************************************)
THEOREM Invariance == Spec => []IInv
<1>1. IInv /\ [Next]_vars => IInv'
  <2> SUFFICES ASSUME IInv, [Next]_vars PROVE IInv'
    OBVIOUS
  <2>1. CASE UNCHANGED vars
    <3>1. UNCHANGED <<eeprom, crc, ram, initialised, pc, todo, command, kept, interrupted, givenId>>
      BY <2>1 DEF vars, hist
    <3>2. TypeOK' /\ IdKnown' /\ Signed' /\ WhileOff' /\ AtRest'
      BY <3>1 DEF IInv, TypeOK, IdKnown, StoredId, Signed, WhileOff, MayBeLost, CrcOfKept, Kept,
                  CheckCRC, AtRest, RamIsCurrent
    <3>3. Checked'
      BY <3>1, <3>2, SameCrc DEF IInv, Signed
    <3>4. StartingUp' /\ CopiesComing'
      BY <3>1 DEF IInv, StartingUp, CopiesComing, Writing, LeadsTo, LeadsAt, Yields, MayBeLost
    <3> QED  BY <3>2, <3>3, <3>4 DEF IInv
  <2>2. CASE Next
    BY <2>2, InitialiseIInv, SetupIInv, BeginWriteIInv, EndWriteIInv, SetCRCIInv, RestartIInv,
       SetVariablesIInv, ChangeIdIInv, StasisIInv, RelayCommandIInv DEF Next
  <2> QED  BY <2>1, <2>2
<1> QED  BY <1>1, InitIInv, PTL DEF Spec

(***************************************************************************)
(* Settings survive a restart whole, or all are defaults, and that only    *)
(* after an interrupted write or an invalid ID (initialise).               *)
(***************************************************************************)
THEOREM SettingsKept == Spec => []SettingsSurvive
<1>1. IInv => SettingsSurvive
  BY DEF IInv, AtRest, MayBeLost, SettingsSurvive
<1> QED  BY <1>1, Invariance, PTL

(***************************************************************************)
(* The station has the last valid ID that it was given, or the default.    *)
(***************************************************************************)
THEOREM IdKept == Spec => []StationIDKept
<1>1. IInv => StationIDKept
  BY DEF IInv, AtRest, IdKnown, StoredId, StationIDKept
<1> QED  BY <1>1, Invariance, PTL

(***************************************************************************)
(* The copies in RAM are those in permanent storage when no handler works. *)
(***************************************************************************)
THEOREM CopiesCurrent == Spec => []RamIsCurrent
<1>1. IInv => RamIsCurrent
  BY DEF IInv, AtRest, RamIsCurrent
<1> QED  BY <1>1, Invariance, PTL

-----------------------------------------------------------------------------
(* The lists of stations: what edits do to one.                            *)

(* One edit of a list, and of what it should say.                          *)
EditedBy(before, edit, type) ==
  IF before = NoRoom \/ edit.type # type THEN before
  ELSE IF edit.add THEN Add(before, edit.id) ELSE Remove(before, edit.id)
AskedBy(before, edit, type) ==
  IF edit.type # type THEN before
  ELSE IF edit.add THEN before \union {edit.id} ELSE before \ {edit.id}

LEMMA EditedIs ==
  ASSUME NEW list, NEW type, NEW edits
  PROVE Edited(list, type, edits) =
    (CHOOSE f : f = [n \in 0..Len(edits) |-> IF n = 0 THEN list
        ELSE EditedBy(f[n - 1], edits[n], type)])[Len(edits)]
BY DEF Edited, EditedBy

LEMMA AskedIs ==
  ASSUME NEW set, NEW type, NEW edits
  PROVE Asked(set, type, edits) =
    (CHOOSE f : f = [n \in 0..Len(edits) |-> IF n = 0 THEN set
        ELSE AskedBy(f[n - 1], edits[n], type)])[Len(edits)]
BY DEF Asked, AskedBy

(* A number that is the least of its set; for places, as Min has it.       *)
LEMMA Least ==
  ASSUME NEW T \in SUBSET Nat, T # {}
  PROVE  \E x \in T : \A y \in T : x <= y
<1> DEFINE R == OpToRel(<, Nat)
<1>1. IsWellFoundedOn(R, Nat)
  BY NatLessThanWellFounded
<1>2. \A x, y \in Nat : y < x => <<y, x>> \in R
  BY Zenon DEF OpToRel
<1> HIDE DEF R
<1>3. PICK x \in T : \A y \in T : ~ (<<y, x>> \in R)
  BY <1>1, WFMin
<1>4. \A y \in T : ~(y < x)
  BY <1>2, <1>3, Zenon
<1> QED BY <1>4

LEMMA LeastPlace ==
  ASSUME NEW places \in SUBSET (1..ListSize), places # {}
  PROVE  Min(places) \in places
<1>1. places \in SUBSET Nat
  BY RelayListsAssumption
<1>2. \E x \in places : \A y \in places : x <= y
  BY <1>1, Least
<1> QED BY <1>2 DEF Min

LEMMA AddList ==
  ASSUME NEW list \in Lists, NEW id \in Ids
  PROVE  \/ Add(list, id) = NoRoom
         \/ /\ Add(list, id) \in Lists
            /\ Members(Add(list, id)) = Members(list) \union {id}
<1> DEFINE places == {i \in 1..ListSize : list[i] \in {0, id}}
<1>1. CASE places = {}
  BY <1>1 DEF Add
<1>2. CASE places # {}
  <2>1. PICK j : j = Min(places)
    OBVIOUS
  <2>2. j \in places
    <3>1. places \in SUBSET (1..ListSize)
      OBVIOUS
    <3> HIDE DEF places
    <3> QED  BY <1>2, <2>1, <3>1, LeastPlace
  <2>3. j \in 1..ListSize /\ list[j] \in {0, id}
    BY <2>2
  <2>4. Add(list, id) = [list EXCEPT ![j] = id]
    BY <1>2, <2>1 DEF Add
  <2>5. [list EXCEPT ![j] = id] \in Lists
    BY DEF Lists
  <2>6. id # 0 /\ DOMAIN list = 1..ListSize /\ DOMAIN [list EXCEPT ![j] = id] = 1..ListSize
    BY RelayListsAssumption DEF Lists, Ids
  <2>7. Members([list EXCEPT ![j] = id]) = Members(list) \union {id}
    BY <2>3, <2>6 DEF Members
  <2> QED  BY <2>4, <2>5, <2>7
<1> QED  BY <1>1, <1>2

LEMMA RemoveList ==
  ASSUME NEW list \in Lists, NEW id \in Ids
  PROVE  /\ Remove(list, id) \in Lists
         /\ Members(Remove(list, id)) = Members(list) \ {id}
<1>1. id # 0 /\ DOMAIN list = 1..ListSize
  BY RelayListsAssumption DEF Lists, Ids
<1>2. Remove(list, id) \in Lists
  BY DEF Remove, Lists
<1>3. /\ DOMAIN Remove(list, id) = 1..ListSize
      /\ \A i \in 1..ListSize : Remove(list, id)[i] = IF list[i] = id THEN 0 ELSE list[i]
  BY DEF Remove
<1>4. ASSUME NEW x PROVE x \in Members(Remove(list, id)) <=> x \in Members(list) \ {id}
  BY <1>1, <1>3 DEF Members
<1> QED  BY <1>2, <1>4

LEMMA NoRoomIsNoList ==
  ASSUME NEW list \in Lists
  PROVE  list # NoRoom
<1>1. DOMAIN list = 1..ListSize /\ 1 \in 1..ListSize
  BY RelayListsAssumption DEF Lists
<1>2. DOMAIN NoRoom = 1..0
  BY DEF NoRoom
<1>3. 1 \notin 1..0
  OBVIOUS
<1> QED  BY <1>1, <1>2, <1>3, Zenon

LEMMA LookedUp ==
  ASSUME NEW list \in Lists, NEW station
  PROVE  ShouldRelay(list, station)
           <=> IF station = 0 THEN Members(list) # {} ELSE station \in Members(list)
<1>1. DOMAIN list = 1..ListSize
  BY DEF Lists
<1>2. CASE station = 0
  <2>1. ShouldRelay(list, station) <=> \E i \in 1..ListSize : list[i] # 0
    BY <1>2 DEF ShouldRelay
  <2>2. Members(list) # {} <=> \E i \in 1..ListSize : list[i] # 0
    BY <1>1 DEF Members
  <2> QED  BY <1>2, <2>1, <2>2
<1>3. CASE station # 0
  <2>1. ShouldRelay(list, station) <=> \E i \in 1..ListSize : list[i] = station
    BY <1>3 DEF ShouldRelay
  <2>2. station \in Members(list) <=> \E i \in 1..ListSize : list[i] = station
    BY <1>1, <1>3 DEF Members
  <2> QED  BY <1>3, <2>1, <2>2
<1> QED  BY <1>2, <1>3

(* A function that is defined along the numbers up to len exists.          *)
Recursive(T, first, len, step) ==
  \E f \in [0..len -> T] : f[0] = first /\ \A n \in 1..len : f[n] = step[n][f[n - 1]]

LEMMA Recursion ==
  ASSUME NEW T, NEW first \in T, NEW len \in Nat, NEW step \in [1..len -> [T -> T]]
  PROVE  Recursive(T, first, len, step)
<1> DEFINE Exists(k) == Recursive(T, first, k, step)
           Missing0 == {k \in 0..len : ~Exists(k)}
<1>1. Exists(0)
  <2> DEFINE g == [n \in 0..0 |-> first]
  <2>1. g \in [0..0 -> T] /\ g[0] = first
    OBVIOUS
  <2> HIDE DEF g
  <2> QED  BY <2>1 DEF Recursive
<1>2. ASSUME NEW k \in 1..len, Exists(k - 1)
      PROVE  Exists(k)
  <2>1. PICK f \in [0..(k - 1) -> T] :
          f[0] = first /\ \A n \in 1..(k - 1) : f[n] = step[n][f[n - 1]]
    BY <1>2 DEF Recursive
  <2>2. step[k][f[k - 1]] \in T
    BY <2>1
  <2> DEFINE g == [n \in 0..k |-> IF n = k THEN step[k][f[k - 1]] ELSE f[n]]
  <2>3. g \in [0..k -> T]
    BY <2>2
  <2>4. g[0] = first
    BY <2>1
  <2>5. \A n \in 1..k : g[n] = step[n][g[n - 1]]
    <3> SUFFICES ASSUME NEW n \in 1..k PROVE g[n] = step[n][g[n - 1]]
      OBVIOUS
    <3>1. n - 1 \in 0..k /\ n - 1 # k /\ g[n - 1] = f[n - 1]
      OBVIOUS
    <3>2. CASE n = k
      BY <3>1, <3>2
    <3>3. CASE n # k
      <4>1. n \in 1..(k - 1)
        BY <3>3
      <4> QED  BY <2>1, <3>1, <3>3, <4>1
    <3> QED  BY <3>2, <3>3
  <2> HIDE DEF g
  <2> QED  BY <2>3, <2>4, <2>5 DEF Recursive
<1> HIDE DEF Exists
<1>3. Missing0 = {}
  <2> SUFFICES ASSUME Missing0 # {} PROVE FALSE
    OBVIOUS
  <2>1. PICK k \in Missing0 : \A j \in Missing0 : k <= j
    <3>1. Missing0 \in SUBSET Nat
      OBVIOUS
    <3> HIDE DEF Missing0
    <3> QED  BY <3>1, Least
  <2>2. k \in 1..len
    BY <1>1, <2>1
  <2>3. k - 1 \notin Missing0 /\ k - 1 \in 0..len
    BY <2>1, <2>2
  <2>4. Exists(k - 1)
    BY <2>3
  <2> QED  BY <1>2, <2>1, <2>2, <2>4
<1>4. Exists(len)
  BY <1>3
<1> QED  BY <1>4 DEF Exists

(* What edits make of a list is what they ask for, or there is no room.    *)
EditedTo(f, list, type, edits) ==
  f = [n \in 0..Len(edits) |-> IF n = 0 THEN list ELSE EditedBy(f[n - 1], edits[n], type)]
AskedTo(f, set, type, edits) ==
  f = [n \in 0..Len(edits) |-> IF n = 0 THEN set ELSE AskedBy(f[n - 1], edits[n], type)]

LEMMA EditedByList ==
  ASSUME NEW list \in Lists, NEW edit \in Edits, NEW type
  PROVE  \/ EditedBy(list, edit, type) = NoRoom
         \/ /\ EditedBy(list, edit, type) \in Lists
            /\ Members(EditedBy(list, edit, type)) = AskedBy(Members(list), edit, type)
<1>1. edit.id \in Ids
  BY DEF Edits
<1>2. list # NoRoom
  BY NoRoomIsNoList
<1> QED  BY <1>1, <1>2, AddList, RemoveList DEF EditedBy, AskedBy

LEMMA EditedExists ==
  ASSUME NEW list \in Lists, NEW type, NEW edits \in Seq(Edits)
  PROVE  \E f : EditedTo(f, list, type, edits)
<1> PICK T : T = Lists \union {NoRoom}
  OBVIOUS
<1> PICK step : step = [n \in 1..Len(edits) |-> [x \in T |-> EditedBy(x, edits[n], type)]]
  OBVIOUS
<1>1. Len(edits) \in Nat /\ \A n \in 1..Len(edits) : edits[n] \in Edits
  BY LenProperties, ElementOfSeq
<1>2. ASSUME NEW n \in 1..Len(edits), NEW x \in T
      PROVE  EditedBy(x, edits[n], type) \in T
  <2>1. CASE x \in Lists
    BY <1>1, <2>1, EditedByList
  <2>2. CASE x = NoRoom
    BY <2>2 DEF EditedBy
  <2> QED  BY <2>1, <2>2
<1>3. list \in T
  OBVIOUS
<1>4. step \in [1..Len(edits) -> [T -> T]]
  <2>1. \A n \in 1..Len(edits) : [x \in T |-> EditedBy(x, edits[n], type)] \in [T -> T]
    BY <1>2
  <2> QED  BY <2>1
<1>5. \A n \in 1..Len(edits), x \in T : step[n][x] = EditedBy(x, edits[n], type)
  OBVIOUS
<1>6. PICK f \in [0..Len(edits) -> T] :
        f[0] = list /\ \A n \in 1..Len(edits) : f[n] = step[n][f[n - 1]]
  <2>1. Recursive(T, list, Len(edits), step)
    BY <1>1, <1>3, <1>4, Recursion
  <2> QED  BY <2>1 DEF Recursive
<1>7. ASSUME NEW n \in 0..Len(edits)
      PROVE  f[n] = IF n = 0 THEN list ELSE EditedBy(f[n - 1], edits[n], type)
  <2>1. CASE n = 0
    BY <1>6, <2>1
  <2>2. CASE n # 0
    <3>1. n \in 1..Len(edits) /\ n - 1 \in 0..Len(edits)
      BY <1>1, <2>2
    <3>2. f[n - 1] \in T /\ f[n] = step[n][f[n - 1]]
      BY <1>6, <3>1
    <3> QED  BY <1>5, <2>2, <3>1, <3>2
  <2> QED  BY <2>1, <2>2
<1>8. f = [n \in 0..Len(edits) |-> f[n]]
  BY <1>6
<1>9. f = [n \in 0..Len(edits) |-> IF n = 0 THEN list ELSE EditedBy(f[n - 1], edits[n], type)]
  BY <1>7, <1>8
<1> QED  BY <1>9 DEF EditedTo

LEMMA AskedExists ==
  ASSUME NEW set \in SUBSET Ids, NEW type, NEW edits \in Seq(Edits)
  PROVE  \E f : AskedTo(f, set, type, edits)
<1> PICK T : T = SUBSET Ids
  OBVIOUS
<1> PICK step : step = [n \in 1..Len(edits) |-> [x \in T |-> AskedBy(x, edits[n], type)]]
  OBVIOUS
<1>1. Len(edits) \in Nat /\ \A n \in 1..Len(edits) : edits[n] \in Edits
  BY LenProperties, ElementOfSeq
<1>2. ASSUME NEW n \in 1..Len(edits), NEW x \in T
      PROVE  AskedBy(x, edits[n], type) \in T
  <2>1. edits[n].id \in Ids
    BY <1>1 DEF Edits
  <2> QED  BY <2>1 DEF AskedBy
<1>3. set \in T
  OBVIOUS
<1>4. step \in [1..Len(edits) -> [T -> T]]
  <2>1. \A n \in 1..Len(edits) : [x \in T |-> AskedBy(x, edits[n], type)] \in [T -> T]
    BY <1>2
  <2> QED  BY <2>1
<1>5. \A n \in 1..Len(edits), x \in T : step[n][x] = AskedBy(x, edits[n], type)
  OBVIOUS
<1>6. PICK f \in [0..Len(edits) -> T] :
        f[0] = set /\ \A n \in 1..Len(edits) : f[n] = step[n][f[n - 1]]
  <2>1. Recursive(T, set, Len(edits), step)
    BY <1>1, <1>3, <1>4, Recursion
  <2> QED  BY <2>1 DEF Recursive
<1>7. ASSUME NEW n \in 0..Len(edits)
      PROVE  f[n] = IF n = 0 THEN set ELSE AskedBy(f[n - 1], edits[n], type)
  <2>1. CASE n = 0
    BY <1>6, <2>1
  <2>2. CASE n # 0
    <3>1. n \in 1..Len(edits) /\ n - 1 \in 0..Len(edits)
      BY <1>1, <2>2
    <3>2. f[n - 1] \in T /\ f[n] = step[n][f[n - 1]]
      BY <1>6, <3>1
    <3> QED  BY <1>5, <2>2, <3>1, <3>2
  <2> QED  BY <2>1, <2>2
<1>8. f = [n \in 0..Len(edits) |-> f[n]]
  BY <1>6
<1>9. f = [n \in 0..Len(edits) |-> IF n = 0 THEN set ELSE AskedBy(f[n - 1], edits[n], type)]
  BY <1>7, <1>8
<1> QED  BY <1>9 DEF AskedTo

LEMMA EditsDo ==
  ASSUME NEW list \in Lists, NEW type, NEW edits \in Seq(Edits),
         NEW f, EditedTo(f, list, type, edits),
         NEW g, AskedTo(g, Members(list), type, edits)
  PROVE  \A n \in 0..Len(edits) :
           f[n] = NoRoom \/ (f[n] \in Lists /\ Members(f[n]) = g[n])
<1> DEFINE Good(n) == f[n] = NoRoom \/ (f[n] \in Lists /\ Members(f[n]) = g[n])
           Bad == {n \in 0..Len(edits) : ~Good(n)}
<1>1. Len(edits) \in Nat /\ \A n \in 1..Len(edits) : edits[n] \in Edits
  BY LenProperties, ElementOfSeq
<1>2. \A n \in 0..Len(edits) :
        /\ f[n] = IF n = 0 THEN list ELSE EditedBy(f[n - 1], edits[n], type)
        /\ g[n] = IF n = 0 THEN Members(list) ELSE AskedBy(g[n - 1], edits[n], type)
  BY DEF EditedTo, AskedTo
<1>3. Good(0)
  BY <1>1, <1>2
<1>4. ASSUME NEW n \in 1..Len(edits), Good(n - 1)
      PROVE  Good(n)
  <2>1. /\ f[n] = EditedBy(f[n - 1], edits[n], type)
        /\ g[n] = AskedBy(g[n - 1], edits[n], type)
    BY <1>1, <1>2
  <2>2. CASE f[n - 1] = NoRoom
    BY <2>1, <2>2 DEF EditedBy
  <2>3. CASE f[n - 1] \in Lists /\ Members(f[n - 1]) = g[n - 1]
    BY <1>1, <2>1, <2>3, EditedByList
  <2> QED  BY <1>4, <2>2, <2>3
<1> HIDE DEF Good
<1>5. Bad = {}
  <2> SUFFICES ASSUME Bad # {} PROVE FALSE
    OBVIOUS
  <2>1. PICK n \in Bad : \A m \in Bad : n <= m
    <3>1. Bad \in SUBSET Nat
      BY <1>1
    <3> HIDE DEF Bad
    <3> QED  BY <3>1, Least
  <2>2. n \in 1..Len(edits)
    BY <1>1, <1>3, <2>1
  <2>3. n - 1 \notin Bad /\ n - 1 \in 0..Len(edits)
    BY <2>1, <2>2
  <2>4. Good(n - 1)
    BY <2>3
  <2> QED  BY <1>4, <2>1, <2>2, <2>4
<1> QED  BY <1>5 DEF Good

LEMMA EditedSaysAsked ==
  ASSUME NEW list \in Lists, NEW type, NEW edits \in Seq(Edits)
  PROVE  \/ Edited(list, type, edits) = NoRoom
         \/ /\ Edited(list, type, edits) \in Lists
            /\ Members(Edited(list, type, edits)) = Asked(Members(list), type, edits)
<1> DEFINE f == CHOOSE h : EditedTo(h, list, type, edits)
           g == CHOOSE h : AskedTo(h, Members(list), type, edits)
<1>1. Members(list) \in SUBSET Ids
  BY DEF Members, Lists
<1>2. EditedTo(f, list, type, edits) /\ AskedTo(g, Members(list), type, edits)
  BY <1>1, EditedExists, AskedExists
<1>3. Edited(list, type, edits) = f[Len(edits)]
  BY EditedIs DEF EditedTo
<1>4. Asked(Members(list), type, edits) = g[Len(edits)]
  BY AskedIs DEF AskedTo
<1>5. Len(edits) \in 0..Len(edits)
  BY LenProperties
<1> HIDE DEF f, g
<1>6. f[Len(edits)] = NoRoom \/ (f[Len(edits)] \in Lists /\ Members(f[Len(edits)]) = g[Len(edits)])
  BY <1>2, <1>5, EditsDo, SMTT(30)
<1> QED  BY <1>3, <1>4, <1>6

-----------------------------------------------------------------------------
(* The lists in permanent storage say what was asked.                      *)

(* The lists of stations; and when the program is past start-up. *)
RelayTypes == {"W", "C"}
Running == initialised /\ pc \in {"idle", "begin", "end", "crc"}
(* What the list in permanent storage will say, unless a restart comes     *)
(* before, is what was asked.                                              *)
Listed(type) ==
  /\ \A i \in 1..Len(todo) : todo[i].var = ListOf[type] => todo[i].value \in Lists
  /\ eeprom[ListOf[type]] \in Lists \/ (pc = "end" /\ todo[1].var = ListOf[type])
  /\ \E list \in Lists : LeadsAt(ListOf[type], list) /\ Members(list) = asked[type]
(* Inductive invariant, together with IInv: so does what is kept, and the  *)
(* lists are lists wherever they are not being written.                    *)
ListInv ==
  /\ \A type \in RelayTypes : kept[ListOf[type]] \in Lists
  /\ Running => \A type \in RelayTypes : Listed(type)
  /\ asked = [type \in ListTypes |-> asked[type]]

LEMMA ListNames ==
  /\ ListOf["W"] = "stationsToRelayWeather" /\ ListOf["C"] = "stationsToRelayCommands"
  /\ ListOf["R"] = "messageTypesToRecord"
  /\ RelayTypes \subseteq ListTypes
  /\ \A type \in RelayTypes : ListOf[type] \in Variables
BY NamedVariables DEF ListOf, ListTypes, RelayTypes

LEMMA InitLists == Init => ListInv
<1> SUFFICES ASSUME Init PROVE ListInv
  OBVIOUS
<1>1. kept = Default \/ kept \in Used
  BY DEF Init
<1>2. pc = "off" /\ asked = [type \in ListTypes |-> asked[type]]
  BY DEF Init
<1>3. \A type \in RelayTypes : kept[ListOf[type]] \in Lists
  BY <1>1, ListsAssumption DEF RelayTypes
<1> QED  BY <1>2, <1>3 DEF ListInv, Running

(* Steps after which the program is not running yet, or no longer.         *)
LEMMA NotRunningLists ==
  ASSUME ListInv, UNCHANGED <<kept, asked>>, ~Running'
  PROVE  ListInv'
BY DEF ListInv

LEMMA SetupLists == IInv /\ ListInv /\ Setup => ListInv'
<1> SUFFICES ASSUME IInv, ListInv, Setup PROVE ListInv'
  OBVIOUS
<1>1. /\ pc = "setup" /\ kept' = eeprom /\ eeprom' = eeprom
      /\ asked' = [type \in ListTypes |-> Members(eeprom[ListOf[type]])]
  BY DEF Setup
<1>2. \/ todo' = todo
      \/ todo' = <<Write("frequency_i", Default["frequency_i"]),
                   Write("bandwidth_i", Default["bandwidth_i"])>>
  BY DEF Setup
<1>3. todo = << >>
  BY <1>1 DEF IInv, TypeOK
<1>4. \A i \in 1..Len(todo') : todo'[i].var \in {"frequency_i", "bandwidth_i"}
  <2>1. CASE todo' = << >>
    BY <2>1
  <2>2. CASE todo' = <<Write("frequency_i", Default["frequency_i"]),
                       Write("bandwidth_i", Default["bandwidth_i"])>>
    BY <2>2 DEF Write
  <2> QED  BY <1>2, <1>3, <2>1, <2>2
<1>5. \A type \in RelayTypes : eeprom[ListOf[type]] \in Lists
  <2> SUFFICES ASSUME NEW type \in RelayTypes PROVE eeprom[ListOf[type]] \in Lists
    OBVIOUS
  <2>1. CASE eeprom = kept
    BY <2>1 DEF ListInv
  <2>2. CASE eeprom = Fresh(ram["stationID"])
    <3>1. ListOf[type] \in Variables \ {"stationID", "messageTypesToRecord"}
      BY ListNames DEF RelayTypes
    <3>2. eeprom[ListOf[type]] = Default[ListOf[type]]
      BY <2>2, <3>1, FreshFacts
    <3> QED  BY <3>2, ListsAssumption DEF RelayTypes
  <2> QED  BY <1>1, <2>1, <2>2 DEF IInv, AtRest
<1>6. ASSUME NEW type \in RelayTypes PROVE Listed(type)'
  <2>1. \A i \in 1..Len(todo') : todo'[i].var # ListOf[type]
    BY <1>4, ListNames DEF RelayTypes
  <2>2. eeprom'[ListOf[type]] \in Lists /\ asked'[type] = Members(eeprom'[ListOf[type]])
    BY <1>1, <1>5, ListNames
  <2> QED  BY <2>1, <2>2 DEF Listed, LeadsAt, Yields
<1> QED  BY <1>1, <1>5, <1>6 DEF ListInv

(* Commands that write no list.                                            *)
LEMMA OtherLists ==
  ASSUME IInv, ListInv, pc = "idle", pc' # "end", UNCHANGED <<eeprom, kept, asked>>,
         \A i \in 1..Len(todo') : \A type \in RelayTypes : todo'[i].var # ListOf[type]
  PROVE  ListInv'
<1>1. Running /\ todo = << >>
  BY DEF IInv, TypeOK, Running
<1>2. ASSUME NEW type \in RelayTypes PROVE Listed(type)'
  <2>1. PICK list \in Lists : LeadsAt(ListOf[type], list) /\ Members(list) = asked[type]
    BY <1>1 DEF ListInv, Listed
  <2>2. eeprom[ListOf[type]] = list
    BY <1>1, <2>1, NoWrites DEF LeadsAt, Yields
  <2> QED  BY <2>1, <2>2 DEF Listed, LeadsAt, Yields
<1> QED  BY <1>2 DEF ListInv

LEMMA CommandLists ==
  IInv /\ ListInv /\ (SetVariables \/ ChangeId \/ RequestStasis \/ LeaveStasis) => ListInv'
<1> SUFFICES ASSUME IInv, ListInv, SetVariables \/ ChangeId \/ RequestStasis \/ LeaveStasis
             PROVE  ListInv'
  OBVIOUS
<1>1. pc = "idle" /\ pc' = "begin" /\ UNCHANGED <<eeprom, kept, asked>>
  BY DEF SetVariables, ChangeId, RequestStasis, LeaveStasis, Ready, hist
<1>2. CASE SetVariables
  <2>1. PICK name \in DOMAIN Groups, value \in Chosen :
          todo' = [i \in 1..Len(Groups[name]) |-> Write(Groups[name][i], value)]
    BY <1>2 DEF SetVariables
  <2>2. Len(todo') = Len(Groups[name])
    <3>1. Len(Groups[name]) \in Nat
      BY CommandAssumption, LenProperties
    <3> QED  BY <2>1, <3>1
  <2>3. \A i \in 1..Len(todo') : todo'[i].var = Groups[name][i]
    BY <2>1, <2>2 DEF Write
  <2>4. \A i \in 1..Len(todo') : \A type \in RelayTypes : todo'[i].var # ListOf[type]
    BY <2>2, <2>3, ListsAssumption, ListNames
  <2> QED  BY <1>1, <2>4, OtherLists
<1>3. CASE ChangeId \/ RequestStasis \/ LeaveStasis
  <2>1. PICK v, x : v \in {"stationID", "stasisRequested"} /\ todo' = <<Write(v, x)>>
    BY <1>3 DEF ChangeId, RequestStasis, LeaveStasis
  <2>2. v \in Variables
    BY <2>1, NamedVariables
  <2>3. Len(todo') = 1 /\ todo'[1].var = v
    BY <2>1, <2>2, OneWrite
  <2>4. \A i \in 1..Len(todo') : \A type \in RelayTypes : todo'[i].var # ListOf[type]
    BY <2>1, <2>3, ListNames DEF RelayTypes
  <2> QED  BY <1>1, <2>4, OtherLists
<1> QED  BY <1>2, <1>3

LEMMA WrittenLists ==
  ASSUME NEW edits, NEW stack, NEW i \in 1..Len(Written(edits, stack)), NEW type \in RelayTypes,
         Written(edits, stack)[i].var = ListOf[type]
  PROVE  /\ NewList(type, edits, stack) # NoRoom
         /\ Written(edits, stack)[i].value = NewList(type, edits, stack)
<1> DEFINE turn == <<"W", "C", "R">>
           room(n) == \A m \in 1..n : NewList(turn[m], edits, stack) # NoRoom
           new(n) == Write(ListOf[turn[n]], Stored(turn[n], NewList(turn[n], edits, stack)))
           writes(n) == IF room(n) /\ Concerns(turn[n], edits) THEN <<new(n)>> ELSE << >>
           good(s) == Writes(s) /\ \A k \in 1..Len(s) : \E n \in 1..3 : room(n) /\ s[k] = new(n)
<1>1. \A n \in 1..3 : ListOf[turn[n]] \in Variables
  BY NamedVariables, ListNames
<1>2. \A n \in 1..3 : good(writes(n))
  <2> SUFFICES ASSUME NEW n \in 1..3 PROVE good(writes(n))
    OBVIOUS
  <2>1. (room(n) /\ writes(n) = <<new(n)>>) \/ writes(n) = << >>
    OBVIOUS
  <2>2. Writes(<<new(n)>>) /\ Len(<<new(n)>>) = 1 /\ <<new(n)>>[1] = new(n)
    BY <1>1, OneWrite
  <2> HIDE DEF room, new, writes
  <2>3. good(<< >>)
    BY NoWrites
  <2>4. room(n) => good(<<new(n)>>)
    BY <2>2
  <2> QED  BY <2>1, <2>3, <2>4
<1>3. Written(edits, stack) = writes(1) \o writes(2) \o writes(3)
  BY DEF Written
<1>4. ASSUME NEW s, NEW t, good(s), good(t) PROVE good(s \o t)
  <2> HIDE DEF room, new
  <2>1. Writes(s) /\ Writes(t)
    BY <1>4
  <2>2. /\ Writes(s \o t)
        /\ \A k \in 1..Len(s \o t) :
             (k <= Len(s) /\ (s \o t)[k] = s[k]) \/ (\E j \in 1..Len(t) : k = Len(s) + j /\ (s \o t)[k] = t[j])
    BY <2>1, TwoWrites
  <2>3. ASSUME NEW k \in 1..Len(s \o t)
        PROVE  \E n \in 1..3 : room(n) /\ (s \o t)[k] = new(n)
    <3>1. CASE k <= Len(s) /\ (s \o t)[k] = s[k]
      <4>1. k \in 1..Len(s)
        BY <2>1, <3>1 DEF Writes
      <4> QED  BY <1>4, <3>1, <4>1
    <3>2. CASE \E j \in 1..Len(t) : k = Len(s) + j /\ (s \o t)[k] = t[j]
      BY <1>4, <3>2
    <3> QED  BY <2>2, <3>1, <3>2
  <2> QED  BY <2>2, <2>3
<1>5. good(writes(1) \o writes(2) \o writes(3))
  <2> HIDE DEF writes, good
  <2> QED  BY <1>2, <1>4
<1>6. PICK n \in 1..3 : room(n) /\ Written(edits, stack)[i] = new(n)
  <2> HIDE DEF room, new, writes
  <2> QED  BY <1>3, <1>5
<1>7. Written(edits, stack)[i].var = ListOf[turn[n]]
      /\ Written(edits, stack)[i].value = Stored(turn[n], NewList(turn[n], edits, stack))
  BY <1>6 DEF Write
<1>8. turn[n] = type
  <2>1. turn[n] \in {"W", "C", "R"}
    OBVIOUS
  <2>2. ListOf[turn[n]] = ListOf[type]
    BY <1>7
  <2> HIDE DEF turn
  <2> QED  BY <2>1, <2>2, ListNames DEF RelayTypes
<1>9. NewList(turn[n], edits, stack) # NoRoom
  <2>1. n \in 1..n
    OBVIOUS
  <2> QED  BY <1>6, <2>1
<1> QED  BY <1>7, <1>8, <1>9 DEF Stored, RelayTypes

LEMMA EditsAreSeq ==
  ASSUME NEW edits \in EditSequences
  PROVE  edits \in Seq(Edits)
<1>1. PICK n \in 1..MaxEdits : edits \in [1..n -> Edits]
  BY DEF EditSequences
<1>2. n \in Nat
  OBVIOUS
<1> QED  BY <1>1, <1>2

LEMMA RelayCommandLists == IInv /\ ListInv /\ RelayCommand => ListInv'
<1> SUFFICES ASSUME IInv, ListInv, RelayCommand PROVE ListInv'
  OBVIOUS
<1>1. PICK edits \in EditSequences, stack \in Stacks :
        /\ todo' = Written(edits, stack)
        /\ asked' = [type \in ListTypes |->
                       IF \E i \in 1..Len(todo') : todo'[i].var = ListOf[type]
                         THEN Asked(asked[type], type, edits) ELSE asked[type]]
  BY DEF RelayCommand
<1>2. pc = "idle" /\ pc' # "end" /\ UNCHANGED <<eeprom, kept>> /\ Running /\ todo = << >>
  BY DEF RelayCommand, Ready, IInv, TypeOK, Running
<1>3. ASSUME NEW type \in RelayTypes PROVE Listed(type)'
  <2>1. PICK list \in Lists : LeadsAt(ListOf[type], list) /\ Members(list) = asked[type]
    BY <1>2 DEF ListInv, Listed
  <2>2. eeprom[ListOf[type]] = list /\ eeprom'[ListOf[type]] = list
    BY <1>2, <2>1, NoWrites DEF LeadsAt, Yields
  <2>3. asked'[type] = IF \E i \in 1..Len(todo') : todo'[i].var = ListOf[type]
                         THEN Asked(asked[type], type, edits) ELSE asked[type]
    BY <1>1, ListNames
  <2>4. CASE \A i \in 1..Len(todo') : todo'[i].var # ListOf[type]
    <3>1. asked'[type] = asked[type]
      BY <2>3, <2>4
    <3> QED  BY <2>1, <2>2, <2>4, <3>1 DEF Listed, LeadsAt, Yields
  <2>5. CASE \E i \in 1..Len(todo') : todo'[i].var = ListOf[type]
    <3>1. PICK new : new = Edited(list, type, edits)
      OBVIOUS
    <3>2. NewList(type, edits, stack) = new
      BY <2>2, <3>1 DEF NewList, RelayTypes
    <3>3. new # NoRoom /\ \A i \in 1..Len(todo') : todo'[i].var = ListOf[type] => todo'[i].value = new
      BY <1>1, <2>5, <3>2, WrittenLists
    <3>4. new \in Lists /\ Members(new) = Asked(asked[type], type, edits)
      BY <2>1, <3>1, <3>3, EditsAreSeq, EditedSaysAsked
    <3>5. asked'[type] = Members(new)
      BY <2>3, <2>5, <3>4
    <3> QED  BY <2>2, <2>5, <3>3, <3>4, <3>5 DEF Listed, LeadsAt, Yields
  <2> QED  BY <2>4, <2>5
<1>4. asked' = [type \in ListTypes |-> asked'[type]]
  BY <1>1
<1> QED  BY <1>2, <1>3, <1>4 DEF ListInv

LEMMA BeginWriteLists == IInv /\ ListInv /\ BeginWrite => ListInv'
<1> SUFFICES ASSUME IInv, ListInv, BeginWrite PROVE ListInv'
  OBVIOUS
<1>1. pc = "begin" /\ pc' = "end" /\ UNCHANGED <<initialised, todo, kept, asked>>
  BY DEF BeginWrite, hist
<1>2. Head(todo) = todo[1] /\ todo[1].var \in Variables
  BY <1>1, TailOfWrites DEF IInv, TypeOK
<1>3. \A w \in Variables : w # todo[1].var => eeprom'[w] = eeprom[w]
  BY <1>2 DEF BeginWrite, IInv, TypeOK
<1>4. ASSUME NEW type \in RelayTypes, Listed(type) PROVE Listed(type)'
  <2>1. PICK list \in Lists : LeadsAt(ListOf[type], list) /\ Members(list) = asked[type]
    BY <1>4 DEF Listed
  <2>2. LeadsAt(ListOf[type], list)'
    BY <2>1, BeginWriteLeads, ListNames
  <2>3. eeprom'[ListOf[type]] \in Lists \/ todo'[1].var = ListOf[type]
    BY <1>1, <1>3, <1>4, ListNames DEF Listed
  <2> QED  BY <1>1, <1>4, <2>1, <2>2, <2>3 DEF Listed
<1> QED  BY <1>1, <1>4 DEF ListInv, Running

LEMMA EndWriteLists == IInv /\ ListInv /\ EndWrite => ListInv'
<1> SUFFICES ASSUME IInv, ListInv, EndWrite PROVE ListInv'
  OBVIOUS
<1>1. /\ pc = "end" /\ todo' = Tail(todo) /\ UNCHANGED <<initialised, kept, asked>>
      /\ pc' = IF initialised \/ todo' = << >> THEN "crc" ELSE "begin"
  BY DEF EndWrite
<1>2. /\ Head(todo) = todo[1] /\ todo[1].var \in Variables
      /\ Len(todo) \in Nat \ {0} /\ Len(todo') = Len(todo) - 1
      /\ \A i \in 1..Len(todo') : todo'[i] = todo[i + 1]
  BY <1>1, TailOfWrites DEF IInv, TypeOK
<1>3. \A v \in Variables : eeprom'[v] = IF v = todo[1].var THEN todo[1].value ELSE eeprom[v]
  BY <1>2 DEF EndWrite, IInv, TypeOK
<1>4. ASSUME NEW type \in RelayTypes, Listed(type) PROVE Listed(type)'
  <2>1. PICK list \in Lists : LeadsAt(ListOf[type], list) /\ Members(list) = asked[type]
    BY <1>4 DEF Listed
  <2>2. LeadsAt(ListOf[type], list)'
    BY <2>1, EndWriteLeads, ListNames
  <2>3. \A i \in 1..Len(todo) : todo[i].var = ListOf[type] => todo[i].value \in Lists
    BY <1>4 DEF Listed
  <2>4. eeprom'[ListOf[type]] \in Lists
    <3>1. CASE todo[1].var = ListOf[type]
      BY <1>2, <1>3, <2>3, <3>1, ListNames
    <3>2. CASE todo[1].var # ListOf[type]
      BY <1>3, <1>4, <3>2, ListNames DEF Listed
    <3> QED  BY <3>1, <3>2
  <2>5. \A i \in 1..Len(todo') : todo'[i].var = ListOf[type] => todo'[i].value \in Lists
    <3> SUFFICES ASSUME NEW i \in 1..Len(todo'), todo'[i].var = ListOf[type]
                 PROVE  todo'[i].value \in Lists
      OBVIOUS
    <3>1. i + 1 \in 1..Len(todo) /\ todo'[i] = todo[i + 1]
      BY <1>2
    <3> QED  BY <2>3, <3>1
  <2> QED  BY <1>1, <2>1, <2>2, <2>4, <2>5 DEF Listed
<1> QED  BY <1>1, <1>4 DEF ListInv, Running

LEMMA SetCRCLists == IInv /\ ListInv /\ SetCRC => ListInv'
<1> SUFFICES ASSUME IInv, ListInv, SetCRC PROVE ListInv'
  OBVIOUS
<1>1. /\ pc = "crc" /\ kept' = IF initialised THEN eeprom ELSE kept
      /\ pc' = IF ~initialised THEN "setup" ELSE IF todo = << >> THEN "idle" ELSE "begin"
      /\ UNCHANGED <<eeprom, todo, asked>>
  BY DEF SetCRC
<1>2. CASE ~initialised
  BY <1>1, <1>2, NotRunningLists DEF Running
<1>3. CASE initialised
  <2>1. Running /\ kept' = eeprom
    BY <1>1, <1>3 DEF Running
  <2>2. ASSUME NEW type \in RelayTypes PROVE Listed(type)' /\ kept'[ListOf[type]] \in Lists
    <3>1. Listed(type) /\ eeprom[ListOf[type]] \in Lists
      BY <1>1, <2>1 DEF ListInv, Listed
    <3> QED  BY <1>1, <2>1, <3>1 DEF Listed, LeadsAt, Yields
  <2> QED  BY <1>1, <2>2 DEF ListInv
<1> QED  BY <1>2, <1>3

LEMMA ListsInvariance == Spec => []ListInv
<1>1. IInv /\ ListInv /\ [Next]_vars => ListInv'
  <2> SUFFICES ASSUME IInv, ListInv, [Next]_vars PROVE ListInv'
    OBVIOUS
  <2>1. CASE UNCHANGED vars
    BY <2>1 DEF vars, hist, ListInv, Running, Listed, LeadsAt, Yields
  <2>2. CASE Initialise
    <3>1. UNCHANGED <<kept, asked>> /\ (pc' = "setup" \/ initialised' = initialised) /\ ~initialised
      BY <2>2 DEF Initialise, hist, IInv, TypeOK
    <3> QED  BY <3>1, NotRunningLists DEF IInv, TypeOK, Running
  <2>3. CASE Restart
    BY <2>3, NotRunningLists DEF Restart, Running
  <2>4. CASE Next /\ ~Initialise /\ ~Restart
    BY <2>4, SetupLists, BeginWriteLists, EndWriteLists, SetCRCLists, CommandLists,
       RelayCommandLists DEF Next
  <2> QED  BY <2>1, <2>2, <2>3, <2>4
<1> QED  BY <1>1, Invariance, InitLists, PTL DEF Spec

(***************************************************************************)
(* A station relays for exactly those that the edits of its list ask for   *)
(* (handleRelayCommand, shouldRelay), for lists of any length, any edits   *)
(* and any number of restarts.                                             *)
(***************************************************************************)
THEOREM RelaysExactly == Spec => []RelaysForListed
<1>1. IInv /\ ListInv => RelaysForListed
  <2> SUFFICES ASSUME IInv, ListInv, pc = "idle", NEW type \in RelayTypes, NEW station \in {0} \union Ids
               PROVE  ShouldRelay(eeprom[ListOf[type]], station)
                        <=> IF station = 0 THEN asked[type] # {} ELSE station \in asked[type]
    BY DEF RelaysForListed, RelayTypes
  <2>1. Running /\ todo = << >>
    BY DEF IInv, TypeOK, Running
  <2>2. PICK list \in Lists : LeadsAt(ListOf[type], list) /\ Members(list) = asked[type]
    BY <2>1 DEF ListInv, Listed
  <2>3. eeprom[ListOf[type]] = list
    BY <2>1, <2>2, NoWrites DEF LeadsAt, Yields
  <2> QED  BY <2>2, <2>3, LookedUp
<1> QED  BY <1>1, Invariance, ListsInvariance, PTL
=============================================================================
