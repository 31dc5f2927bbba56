------------------------- MODULE PowerModesProofs -------------------------
(***************************************************************************)
(* Proofs about PowerModes: its types, the invariant IInv of the watchdog  *)
(* and the action property WatchdogSparesHeard, for every battery, every   *)
(* length of the intervals, of the wait for a ping and of the watchdog's   *)
(* period.                                                                 *)
(***************************************************************************)
EXTENDS PowerModes, TLAPS

-----------------------------------------------------------------------------
(* Types. *)

Idle == {"continuous", "duty", "sleep"}

RadioOK ==
  /\ radio \in {"standby", "continuous", "duty", "sleep"}
  /\ idleState \in {"none", "continuous", "duty", "sleep"}
  /\ sender \in {1, 8} /\ actual \in {0, 1, 8}

LEMMA WantedType == \A m, r : Wanted(m, r) \in {"continuous", "duty"}
BY DEF Wanted

LEMMA PreambleType == \A m : Preamble(m) \in {1, 8}
BY DEF Preamble

(***************************************************************************)
(* updateIdleState keeps the types of the radio and sets its idle state.   *)
(***************************************************************************)
LEMMA UpdateIdleStateType ==
  ASSUME RadioOK, NEW m, NEW from \in {"standby", "continuous", "duty", "sleep"}, UpdateIdleState(from, m)
  PROVE  RadioOK' /\ idleState' \in Idle
<1> DEFINE w == Wanted(m, relays)
           p == Preamble(m)
<1>1. w \in {"continuous", "duty"} /\ p \in {1, 8}
  BY WantedType, PreambleType
<1>2. sender' = p /\ SetIdleState(from, w, p)
  BY DEF UpdateIdleState
<1> HIDE DEF w, p
<1> QED BY <1>1, <1>2 DEF RadioOK, Idle, SetIdleState, EnterIdleState

(***************************************************************************)
(* A transmission leaves the radio in the state that it is given.          *)
(***************************************************************************)
LEMMA TransmitType ==
  ASSUME NEW s \in Idle, NEW p \in {1, 8}, initRequired \in BOOLEAN, Transmit(s, p)
  PROVE  radio' \in Idle /\ actual' \in {1, 8} /\ initRequired' \in BOOLEAN
BY DEF Transmit, EnterIdleState

(***************************************************************************)
(* The ticks since the last weather message stay below the interval: the   *)
(* timer sets them to zero when it is due, and so does a change of it.     *)
(***************************************************************************)
LEMMA TicksType == \A i \in Intervals : Ticks[i] \in Nat /\ Ticks[i] > 0
BY PowerAssumption

LEMMA EnterModeType ==
  ASSUME RadioOK, NEW m \in {"Normal", "Save", "DeepSleep"}, EnterMode(m)
  PROVE  /\ mode' = m /\ interval' \in Intervals
         /\ tickCounts' \in 0..(Ticks[interval'] - 1)
         /\ RadioOK' /\ idleState' \in Idle
<1>1. UpdateIdleState(radio, m) /\ radio \in {"standby", "continuous", "duty", "sleep"}
  BY DEF EnterMode, RadioOK
<1>2. RadioOK' /\ idleState' \in Idle
  BY <1>1, UpdateIdleStateType
<1>3. mode' = m /\ interval' \in Intervals /\ tickCounts' = 0
  BY DEF EnterMode, Intervals
<1> QED BY <1>2, <1>3, TicksType

LEMMA VeryLongType == VeryLong \in Nat /\ VeryLong + 2 = WdtPeriod
BY PowerAssumption DEF VeryLong

LEMMA ClockType ==
  ASSUME TypeOK, Clock
  PROVE  /\ tickCounts' \in 0..(Ticks[interval'] - 1) /\ pingAge' \in 0..PingLimit
         /\ weatherRequired' \in BOOLEAN /\ spent' \in 0..VeryLong
<1>1. interval' = interval /\ Ticks[interval] \in Nat /\ Ticks[interval] > 0 /\ PingLimit \in Nat
  BY TicksType, PowerAssumption DEF TypeOK, Clock
<1>2. spent' \in 0..VeryLong /\ weatherRequired' \in BOOLEAN
  <2>1. spent' \in 0..VeryLong
    BY VeryLongType DEF Clock, TypeOK
  <2> QED BY <2>1 DEF Clock, TypeOK, timeVars
<1>3. pingAge' \in 0..PingLimit
  BY <1>1 DEF Clock, TypeOK, timeVars
<1>4. tickCounts' \in 0..(Ticks[interval] - 1)
  BY <1>1 DEF Clock, Due, TypeOK, timeVars
<1> QED BY <1>1, <1>2, <1>3, <1>4

Typed == TypeOK /\ RadioIsSet

LEMMA TypedRadio == ASSUME Typed PROVE RadioOK /\ (pc # "boot" => idleState \in Idle)
BY DEF Typed, TypeOK, RadioIsSet, RadioOK, Idle

LEMMA ExcusesType ==
  /\ {} \in Excuses /\ {"stasis"} \in Excuses /\ {"awake"} \in Excuses
  /\ \A e \in Excuses : e \ {"awake"} \in Excuses
<1>1. {} \in Excuses /\ {"stasis"} \in Excuses /\ {"awake"} \in Excuses
  BY DEF Excuses
<1>2. ASSUME NEW e \in Excuses PROVE e \ {"awake"} \in Excuses
  <2>1. CASE e = {}
    <3>1. e \ {"awake"} = {}
      BY <2>1
    <3> QED BY <3>1, <1>1
  <2>2. CASE e = {"stasis"}
    <3>1. e \ {"awake"} = {"stasis"}
      BY <2>2
    <3> QED BY <3>1, <1>1
  <2>3. CASE e = {"awake"}
    <3>1. e \ {"awake"} = {}
      BY <2>3
    <3> QED BY <3>1, <1>1
  <2> QED BY <2>1, <2>2, <2>3 DEF Excuses
<1> QED BY <1>1, <1>2

LEMMA InitType == Init => Typed
<1> SUFFICES ASSUME Init PROVE Typed
  OBVIOUS
<1>1. 0 \in 0..(Ticks[interval] - 1) /\ interval \in Intervals
  BY TicksType DEF Init, Intervals
<1>2. 0 \in 0..(WdtPeriod - 1) /\ 0 \in 0..PingLimit /\ 0 \in 0..MaxCommands /\ 0 \in 0..VeryLong
  BY PowerAssumption, VeryLongType
<1>3. excuses \in Excuses
  BY DEF Init, Excuses
<1> QED BY <1>1, <1>2, <1>3 DEF Init, Typed, TypeOK, RadioIsSet

(***************************************************************************)
(* Commands: each is a Command that leaves the rest alone.                 *)
(***************************************************************************)
LEMMA CommandType ==
  ASSUME Typed, NEW s \in Idle, NEW p \in {1, 8}, Command(s, p)
  PROVE  /\ pc = "messages" /\ radio' \in Idle /\ actual' \in {1, 8}
         /\ initRequired' \in BOOLEAN /\ commands' \in 0..MaxCommands
<1>1. Transmit(s, p) /\ initRequired \in BOOLEAN
  BY DEF Command, Typed, TypeOK
<1>2. radio' \in Idle /\ actual' \in {1, 8} /\ initRequired' \in BOOLEAN
  BY <1>1, TransmitType
<1> QED BY <1>2, PowerAssumption DEF Command, Typed, TypeOK

LEMMA CommandsType == ASSUME Typed, Commands PROVE Typed'
<1>0. RadioOK /\ (pc # "boot" => idleState \in Idle)
  BY TypedRadio
<1>1. CASE RestartCommand
  <2>1. Command(idleState, sender) /\ sender \in {1, 8} /\ idleState \in Idle
    BY <1>0, <1>1 DEF RestartCommand, Command, RadioOK
  <2> QED BY <2>1, <1>1, CommandType DEF RestartCommand, Typed, TypeOK, RadioIsSet, timeVars, wdtVars, Idle
<1>2. CASE StasisCommand
  <2>1. Command(idleState, sender) /\ sender \in {1, 8} /\ idleState \in Idle
    BY <1>0, <1>2 DEF StasisCommand, Command, RadioOK
  <2> QED BY <2>1, <1>2, CommandType DEF StasisCommand, Typed, TypeOK, RadioIsSet, timeVars, wdtVars, Idle
<1>3. CASE IntervalCommand
  <2>1. Command(idleState, sender) /\ sender \in {1, 8} /\ idleState \in Idle
    BY <1>0, <1>3 DEF IntervalCommand, Command, RadioOK
  <2>2. interval' \in Intervals /\ tickCounts' \in 0..(Ticks[interval'] - 1)
    BY <1>3, TicksType DEF IntervalCommand, Intervals
  <2> QED BY <2>1, <2>2, <1>3, CommandType DEF IntervalCommand, Typed, TypeOK, RadioIsSet, wdtVars, Idle
<1>4. CASE PreambleCommand
  <2>1. Command(idleState, 1) /\ idleState \in Idle
    BY <1>0, <1>4 DEF PreambleCommand, Command
  <2> QED BY <2>1, <1>4, CommandType DEF PreambleCommand, Typed, TypeOK, RadioIsSet, timeVars, wdtVars, Idle
<1>5. CASE RelayCommand
  <2>1. relays' \in BOOLEAN /\ sender' \in {1, 8} /\ idleState' \in Idle
    BY <1>5, WantedType, PreambleType DEF RelayCommand, Idle
  <2>2. PICK s \in Idle, p \in {1, 8} : Command(s, p) /\ s = idleState' /\ p = sender'
    BY <2>1, <1>5 DEF RelayCommand
  <2>3. /\ pc = "messages" /\ radio' \in Idle /\ actual' \in {1, 8}
        /\ initRequired' \in BOOLEAN /\ commands' \in 0..MaxCommands
    BY <2>2, CommandType
  <2> QED BY <2>1, <2>3, <1>5 DEF RelayCommand, Typed, TypeOK, RadioIsSet, timeVars, wdtVars, Idle
<1> QED BY <1>1, <1>2, <1>3, <1>4, <1>5 DEF Commands

LEMMA ProgramType == ASSUME Typed, Program PROVE Typed'
<1>0. RadioOK /\ (pc # "boot" => idleState \in Idle)
  BY TypedRadio
<1>1. CASE BeginLoop
  <2>1. RadioOK' /\ idleState' \in Idle
    <3>1. CASE initRequired
      <4>1. UpdateIdleState("standby", mode)
        BY <1>1, <3>1 DEF BeginLoop
      <4> QED BY <4>1, <1>0, UpdateIdleStateType
    <3>2. CASE ~initRequired
      BY <3>2, <1>0, <1>1 DEF BeginLoop, radioVars, RadioOK
    <3> QED BY <3>1, <3>2
  <2>2. /\ pc' = "messages" /\ initRequired' = FALSE
        /\ UNCHANGED <<crystal, voltage, mode, reading, interval, timeVars, noPingSent,
                       stasisRequested, wdtVars, spent, relays, excuses, commands>>
    BY <1>1 DEF BeginLoop
  <2>3. UNCHANGED <<tickCounts, weatherRequired, pingAge, wdie, wdtCount, dontRestart>>
    BY <2>2 DEF timeVars, wdtVars
  <2>4. RadioIsSet'
    BY <2>1 DEF RadioIsSet, Idle
  <2>5. interval' \in Intervals /\ tickCounts' \in 0..(Ticks[interval'] - 1)
        /\ mode' \in {"Normal", "Save", "DeepSleep", "Stasis"}
    BY <2>2, <2>3 DEF Typed, TypeOK
  <2> QED BY <2>1, <2>2, <2>3, <2>4, <2>5 DEF Typed, TypeOK, RadioOK
<1>2. CASE EndMessages
  BY <1>2 DEF EndMessages, Typed, TypeOK, RadioIsSet, timeVars, wdtVars, radioVars
<1>3. CASE Weather
  <2>1. radio' \in {"standby", "continuous", "duty", "sleep"} /\ actual' \in {0, 1, 8} /\ initRequired' \in BOOLEAN
    <3>1. CASE Transmit(idleState, sender)
      <4>1. idleState \in Idle /\ sender \in {1, 8} /\ initRequired \in BOOLEAN
        BY <1>0, <1>3 DEF Weather, RadioOK, Typed, TypeOK
      <4> QED BY <4>1, <3>1, TransmitType DEF Idle
    <3>2. CASE UNCHANGED <<radio, actual, initRequired>>
      BY <3>2, <1>0 DEF RadioOK, Typed, TypeOK
    <3> QED BY <3>1, <3>2, <1>3 DEF Weather
  <2>2. reading' \in Voltages /\ weatherRequired' \in BOOLEAN
    BY <1>3 DEF Weather, Typed, TypeOK
  <2> QED BY <2>1, <2>2, <1>3, <1>0 DEF Weather, Typed, TypeOK, RadioIsSet, wdtVars, Idle
<1>4. CASE UpdateBatterySavings
  <2>1. mode' \in {"Normal", "Save", "DeepSleep", "Stasis"} /\ interval' \in Intervals
        /\ tickCounts' \in 0..(Ticks[interval'] - 1) /\ RadioOK' /\ idleState' \in Idle
    <3>1. CASE StayInMode
      BY <3>1, <1>0, <1>4 DEF StayInMode, UpdateBatterySavings, RadioOK, Typed, TypeOK, radioVars
    <3>2. CASE ~(NextMode = mode) /\ EnterMode(NextMode)
      <4>1. NextMode \in {"Normal", "Save", "DeepSleep"}
        BY <3>2 DEF NextMode
      <4> QED BY <4>1, <3>2, <1>0, EnterModeType
    <3> QED BY <3>1, <3>2, <1>4 DEF UpdateBatterySavings
  <2> QED BY <2>1, <1>4 DEF UpdateBatterySavings, Typed, TypeOK, RadioIsSet, RadioOK, wdtVars, Idle
<1>5. CASE CheckPings
  <2>1. radio' \in {"standby", "continuous", "duty", "sleep"} /\ actual' \in {0, 1, 8} /\ initRequired' \in BOOLEAN
    <3>1. CASE Transmit(idleState, sender)
      <4>1. idleState \in Idle /\ sender \in {1, 8} /\ initRequired \in BOOLEAN
        BY <1>0, <1>5 DEF CheckPings, RadioOK, Typed, TypeOK
      <4> QED BY <4>1, <3>1, TransmitType DEF Idle
    <3>2. CASE UNCHANGED <<radio, actual, initRequired>>
      BY <3>2, <1>0 DEF RadioOK, Typed, TypeOK
    <3> QED BY <3>1, <3>2, <1>5 DEF CheckPings
  <2>2. wdtCount' \in 0..(WdtPeriod - 1) /\ noPingSent' \in BOOLEAN
        /\ excuses' \in Excuses
    <3>1. CASE PingInTime
      <4>1. wdtCount' = 0 /\ noPingSent' = FALSE /\ excuses' = excuses \ {"awake"}
        BY <1>5, <3>1 DEF CheckPings
      <4>2. excuses' \in Excuses
        BY <4>1, ExcusesType DEF Typed, TypeOK
      <4>3. 0 \in 0..(WdtPeriod - 1)
        BY PowerAssumption
      <4> QED BY <4>1, <4>2, <4>3
    <3>2. CASE ~PingInTime
      BY <1>5, <3>2 DEF CheckPings, Typed, TypeOK
    <3> QED BY <3>1, <3>2
  <2> QED BY <2>1, <2>2, <1>5, <1>0 DEF CheckPings, Typed, TypeOK, RadioIsSet, timeVars, Idle
<1>6. CASE Sleep
  <2>1. dontRestart' \in BOOLEAN /\ spent' \in 0..VeryLong
    <3>1. dontRestart' \in BOOLEAN
      BY <1>6 DEF Sleep, TimerStops, Typed, TypeOK
    <3>2. spent' \in 0..VeryLong
      BY <1>6, VeryLongType DEF Sleep
    <3> QED BY <3>1, <3>2
  <2>2. pc = "sleep" /\ pc' \in {"asleep", "woken"}
    BY <1>6 DEF Sleep
  <2> QED BY <2>1, <2>2, <1>6 DEF Sleep, Typed, TypeOK, RadioIsSet, timeVars, radioVars
<1>7. CASE EndSleep
  <2>1. wdie' \in BOOLEAN
    BY <1>7 DEF EndSleep, WillInterrupt, Typed, TypeOK
  <2>2. excuses' \in Excuses
    BY <1>7, ExcusesType DEF EndSleep, Typed, TypeOK
  <2>3. /\ pc = "woken" /\ pc' \in {"stasis", "start"} /\ mode' \in {mode, "Stasis"}
        /\ radio' \in {radio, "sleep"} /\ idleState' \in {idleState, "sleep"}
        /\ actual' \in {actual, sender} /\ dontRestart' = FALSE
    BY <1>7 DEF EndSleep
  <2>4. UNCHANGED <<crystal, voltage, reading, interval, timeVars, noPingSent,
                    stasisRequested, wdtCount, spent, sender, relays, initRequired, commands>>
    BY <1>7 DEF EndSleep
  <2>5. TypeOK'
    <3>1. crystal' \in BOOLEAN /\ voltage' \in Voltages /\ reading' \in Voltages
      BY <2>4 DEF Typed, TypeOK
    <3>2. pc' \in {"boot", "start", "messages", "weather", "savings", "pings", "sleep", "asleep", "woken", "stasis", "hangs"}
      BY <2>3 DEF Typed, TypeOK
    <3>3. mode' \in {"Normal", "Save", "DeepSleep", "Stasis"}
      BY <2>3 DEF Typed, TypeOK
    <3>4. interval' \in Intervals /\ tickCounts' \in 0..(Ticks[interval'] - 1)
      BY <2>4 DEF Typed, TypeOK, timeVars
    <3>5. pingAge' \in 0..PingLimit /\ wdtCount' \in 0..(WdtPeriod - 1)
      BY <2>4 DEF Typed, TypeOK, timeVars
    <3>6. radio' \in {"standby", "continuous", "duty", "sleep"}
      BY <2>3 DEF Typed, TypeOK
    <3>7. idleState' \in {"none", "continuous", "duty", "sleep"}
      BY <2>3 DEF Typed, TypeOK
    <3>8. sender' \in {1, 8} /\ actual' \in {0, 1, 8}
      BY <2>3, <2>4 DEF Typed, TypeOK
    <3>9. commands' \in 0..MaxCommands
      BY <2>4 DEF Typed, TypeOK
    <3>10. weatherRequired' \in BOOLEAN /\ noPingSent' \in BOOLEAN
      BY <2>4 DEF Typed, TypeOK, timeVars
    <3>11. stasisRequested' \in BOOLEAN /\ spent' \in 0..VeryLong
      BY <2>4 DEF Typed, TypeOK
    <3>12. relays' \in BOOLEAN /\ initRequired' \in BOOLEAN
      BY <2>4 DEF Typed, TypeOK
    <3>13. dontRestart' \in BOOLEAN
      BY <2>3 DEF Typed, TypeOK
    <3> QED BY <2>1, <2>2, <3>1, <3>2, <3>3, <3>4, <3>5, <3>6, <3>7, <3>8, <3>9, <3>10, <3>11, <3>12, <3>13 DEF TypeOK
  <2>6. RadioIsSet'
    BY <2>3, <1>0 DEF RadioIsSet, Idle
  <2> QED BY <2>5, <2>6 DEF Typed
<1> QED BY <1>1, <1>2, <1>3, <1>4, <1>5, <1>6, <1>7 DEF Program

LEMMA NextType == ASSUME Typed, [Next]_vars PROVE Typed'
<1>0. RadioOK /\ (pc # "boot" => idleState \in Idle)
  BY TypedRadio
<1>1. CASE Setup
  <2>1. idleState' \in {"continuous", "duty"} /\ radio' = idleState' /\ actual' = 1
    BY <1>1, WantedType DEF Setup, EnterIdleState
  <2>2. interval' \in Intervals /\ tickCounts' \in 0..(Ticks[interval'] - 1)
    BY <1>1, TicksType DEF Setup, Intervals
  <2>3. wdtCount' \in 0..(WdtPeriod - 1) /\ pingAge' \in 0..PingLimit /\ spent' \in 0..VeryLong
    BY <1>1, PowerAssumption, VeryLongType DEF Setup
  <2>4. excuses' \in Excuses
    BY <1>1, ExcusesType DEF Setup
  <2>5. /\ weatherRequired' \in BOOLEAN /\ noPingSent' \in BOOLEAN /\ wdie' \in BOOLEAN
        /\ dontRestart' \in BOOLEAN /\ initRequired' \in BOOLEAN
    BY <1>1 DEF Setup
  <2> QED BY <2>1, <2>2, <2>3, <2>4, <2>5, <1>1 DEF Setup, Typed, TypeOK, RadioIsSet
<1>2. CASE Program
  BY <1>2, ProgramType
<1>3. CASE HearPing
  <2>1. radio' \in Idle /\ actual' \in {1, 8} /\ pingAge' \in 0..PingLimit
    BY <1>0, <1>3, PowerAssumption DEF HearPing, EnterIdleState, RadioOK
  <2> QED BY <2>1, <1>3 DEF HearPing, Typed, TypeOK, RadioIsSet, wdtVars, Idle
<1>4. CASE Commands
  BY <1>4, CommandsType
<1>5. CASE Wake
  BY <1>5 DEF Wake, Typed, TypeOK, RadioIsSet, timeVars, wdtVars, radioVars
<1>6. CASE LeaveStasis
  <2>1. /\ mode' = "Normal" /\ interval' \in Intervals
        /\ tickCounts' \in 0..(Ticks[interval'] - 1) /\ RadioOK' /\ idleState' \in Idle
    BY <1>6, <1>0, EnterModeType DEF LeaveStasis
  <2>2. pingAge' \in 0..PingLimit /\ weatherRequired' \in BOOLEAN /\ wdtCount' \in 0..(WdtPeriod - 1)
    <3>1. pingAge' \in pingAge..PingLimit \/ pingAge' = pingAge
      BY <1>6 DEF LeaveStasis
    <3>2. pingAge' \in 0..PingLimit
      BY <3>1, PowerAssumption DEF Typed, TypeOK
    <3>3. wdtCount' \in 0..(WdtPeriod - 1)
      BY <1>6, PowerAssumption DEF LeaveStasis
    <3>4. weatherRequired' \in BOOLEAN
      BY <1>6 DEF LeaveStasis, Typed, TypeOK
    <3> QED BY <3>2, <3>3, <3>4
  <2>3. wdie' \in BOOLEAN /\ stasisRequested' \in BOOLEAN
    BY <1>6 DEF LeaveStasis
  <2>4. pc' = "start" /\ UNCHANGED <<crystal, voltage, reading, noPingSent, dontRestart, spent,
                                     relays, initRequired, excuses, commands>>
    BY <1>6 DEF LeaveStasis
  <2>5. RadioIsSet'
    BY <2>1 DEF RadioIsSet, Idle
  <2>6. mode' \in {"Normal", "Save", "DeepSleep", "Stasis"}
    BY <2>1
  <2>7. /\ crystal' \in BOOLEAN /\ voltage' \in Voltages /\ reading' \in Voltages
        /\ noPingSent' \in BOOLEAN /\ dontRestart' \in BOOLEAN /\ spent' \in 0..VeryLong
        /\ relays' \in BOOLEAN /\ initRequired' \in BOOLEAN /\ excuses' \in Excuses
        /\ commands' \in 0..MaxCommands
    BY <2>4 DEF Typed, TypeOK
  <2>8. RadioOK' /\ pc' \in {"start"}
    BY <2>1, <2>4
  <2> QED BY <2>1, <2>2, <2>3, <2>5, <2>6, <2>7, <2>8 DEF Typed, TypeOK, RadioOK
<1>7. CASE Time
  <2>1. Clock
    BY <1>7 DEF Time, Tick, WatchdogInterrupt, WatchdogReset
  <2>2. /\ tickCounts' \in 0..(Ticks[interval'] - 1) /\ pingAge' \in 0..PingLimit
        /\ weatherRequired' \in BOOLEAN /\ spent' \in 0..VeryLong
    BY <2>1, ClockType DEF Typed
  <2>3. wdtCount' \in 0..(WdtPeriod - 1) /\ wdie' \in BOOLEAN
    <3>1. wdtCount' = 0 \/ (wdtCount + 1 < WdtPeriod /\ wdtCount' = wdtCount + 1)
      BY <1>7 DEF Time, Tick, WatchdogInterrupt, WatchdogReset
    <3>2. wdie' = FALSE \/ wdie' = wdie
      BY <1>7 DEF Time, Tick, WatchdogInterrupt, WatchdogReset
    <3>3. wdtCount \in 0..(WdtPeriod - 1) /\ WdtPeriod \in Nat /\ WdtPeriod > 2 /\ wdie \in BOOLEAN
      BY PowerAssumption DEF Typed, TypeOK
    <3>4. wdtCount' \in 0..(WdtPeriod - 1)
      BY <3>1, <3>3
    <3> QED BY <3>2, <3>3, <3>4
  <2>4. pc' \in {pc, "woken", "hangs", "boot"} /\ pc \in {"start", "messages", "weather", "savings", "pings", "asleep"}
    BY <1>7, <2>1 DEF Time, Tick, WatchdogInterrupt, WatchdogReset, Clock, Running
  <2> QED BY <2>1, <2>2, <2>3, <2>4, <1>0 DEF Clock, Typed, TypeOK, RadioIsSet, radioVars, Idle
<1>8. CASE ResetAtLast
  BY <1>8 DEF ResetAtLast, Typed, TypeOK, RadioIsSet, timeVars, wdtVars, radioVars
<1>9. CASE BatteryChanges
  BY <1>9 DEF BatteryChanges, Typed, TypeOK, RadioIsSet, timeVars, wdtVars, radioVars
<1>10. CASE UNCHANGED vars
  BY <1>10 DEF vars, Typed, TypeOK, RadioIsSet, timeVars, wdtVars, radioVars
<1> QED BY <1>1, <1>2, <1>3, <1>4, <1>5, <1>6, <1>7, <1>8, <1>9, <1>10 DEF Next


-----------------------------------------------------------------------------
(* The watchdog. *)

Watched ==
  /\ HeldOff /\ Interrupts
  /\ pc \in {"asleep", "woken", "stasis"} => spent = 0
  /\ ~noPingSent => SmallCount

LEMMA Parts == IInv <=> Typed /\ Watched
BY DEF IInv, Typed, Watched

LEMMA InitWatched == Init => Watched
BY DEF Init, Watched, HeldOff, Interrupts, SmallCount, InLoop

watch == <<crystal, noPingSent, wdie, wdtCount, dontRestart, spent, excuses>>

(***************************************************************************)
(* Within a pass of the loop most steps leave everything to do with the    *)
(* watchdog alone, and so do a step that hangs and the one to boot.        *)
(***************************************************************************)
LEMMA SamePass ==
  ASSUME Watched, UNCHANGED watch,
         \/ pc' = pc
         \/ InLoop /\ pc' \in {"messages", "weather", "savings", "pings", "hangs"}
         \/ pc = "hangs" /\ pc' = "boot"
  PROVE  Watched'
<1>1. CASE pc' = pc
  BY <1>1 DEF Watched, watch, HeldOff, Interrupts, SmallCount, InLoop
<1>2. CASE InLoop /\ pc' \in {"messages", "weather", "savings", "pings", "hangs"}
  BY <1>2 DEF Watched, watch, HeldOff, Interrupts, SmallCount, InLoop
<1>3. CASE pc = "hangs" /\ pc' = "boot"
  BY <1>3 DEF Watched, watch, HeldOff, Interrupts, SmallCount, InLoop
<1> QED BY <1>1, <1>2, <1>3

(***************************************************************************)
(* CheckPings: in time it sets the count to zero and ends the excuse of    *)
(* the sleep before; too late it sets noPingSent.                          *)
(***************************************************************************)
LEMMA CheckPingsWatched == ASSUME Typed, Watched, CheckPings PROVE Watched'
<1>1. /\ pc = "pings" /\ pc' = "sleep" /\ crystal' = crystal /\ wdie' = wdie
      /\ dontRestart' = dontRestart /\ spent' = spent
  BY DEF CheckPings
<1>2. noPingSent' \/ (~noPingSent' /\ wdtCount' = 0 /\ excuses' = excuses \ {"awake"})
  BY DEF CheckPings
<1>3. excuses' = excuses \/ excuses' = excuses \ {"awake"}
  BY DEF CheckPings
<1>4. excuses' # {"awake"} \/ excuses' = excuses
  BY <1>3
<1>5. HeldOff'
  BY <1>1, <1>4 DEF Watched, HeldOff
<1>6. Interrupts'
  <2>1. wdie \/ excuses = {"stasis"}
    BY <1>1 DEF Watched, Interrupts, InLoop
  <2>2. excuses = {"stasis"} => excuses' = {"stasis"}
    BY <1>3
  <2> QED BY <1>1, <2>1, <2>2 DEF Interrupts, InLoop
<1>7. ~noPingSent' => SmallCount'
  BY <1>1, <1>2 DEF SmallCount, InLoop
<1> QED BY <1>1, <1>5, <1>6, <1>7 DEF Watched

(***************************************************************************)
(* Sleep and its end.                                                      *)
(***************************************************************************)
LEMMA SleepWatched == ASSUME Typed, Watched, Sleep PROVE Watched'
<1>1. pc = "sleep" /\ spent' = 0 /\ UNCHANGED <<crystal, noPingSent, wdie, wdtCount, excuses>>
  BY DEF Sleep
<1>2. ~dontRestart
  BY <1>1 DEF Watched, HeldOff
<1>3. \/ pc' = "asleep" /\ (dontRestart' => ~crystal)
      \/ pc' = "woken" /\ dontRestart' = dontRestart
  BY DEF Sleep, TimerStops
<1>4. HeldOff'
  BY <1>1, <1>2, <1>3 DEF Watched, HeldOff
<1>5. Interrupts'
  BY <1>1, <1>3 DEF Watched, Interrupts, InLoop
<1>6. ~noPingSent' => SmallCount'
  BY <1>1, <1>2, <1>3 DEF Watched, SmallCount, InLoop
<1> QED BY <1>1, <1>4, <1>5, <1>6 DEF Watched

LEMMA WakeWatched == ASSUME Typed, Watched, Wake PROVE Watched'
<1>1. pc = "asleep" /\ pc' = "woken" /\ UNCHANGED watch
  BY DEF Wake, watch, wdtVars
<1>2. UNCHANGED <<crystal, noPingSent, wdie, wdtCount, dontRestart, spent, excuses>>
  BY <1>1 DEF watch
<1>3. HeldOff' /\ Interrupts'
  BY <1>1, <1>2 DEF Watched, HeldOff, Interrupts, InLoop
<1>4. ~noPingSent' => SmallCount'
  BY <1>1, <1>2 DEF Watched, SmallCount, InLoop
<1> QED BY <1>1, <1>2, <1>3, <1>4 DEF Watched

LEMMA EndSleepWatched == ASSUME Typed, Watched, EndSleep PROVE Watched'
<1>1. /\ pc = "woken" /\ ~dontRestart' /\ UNCHANGED <<crystal, noPingSent, wdtCount, spent>>
      /\ wdie \/ dontRestart => wdie'
  BY DEF EndSleep, WillInterrupt
<1>2. \/ pc' = "stasis" /\ excuses' = {"stasis"}
      \/ pc' = "start" /\ dontRestart /\ excuses' = {"awake"}
      \/ pc' = "start" /\ ~dontRestart /\ excuses' = excuses
  BY DEF EndSleep
<1>3. dontRestart => ~crystal
  BY DEF Watched, HeldOff
<1>4. {"stasis"} # {"awake"}
  OBVIOUS
<1>5. HeldOff'
  BY <1>1, <1>2, <1>3, <1>4 DEF Watched, HeldOff
<1>6. Interrupts'
  BY <1>1, <1>2 DEF Watched, Interrupts, InLoop
<1>7. spent = 0 /\ (~noPingSent /\ ~dontRestart => wdtCount <= 1)
  BY <1>1 DEF Watched, SmallCount
<1>8. ~noPingSent' => SmallCount'
  <2>1. CASE pc' = "stasis"
    BY <2>1 DEF SmallCount, InLoop
  <2>2. CASE pc' = "start" /\ excuses' = {"awake"}
    BY <2>2 DEF SmallCount, InLoop
  <2>3. CASE pc' = "start" /\ ~dontRestart
    BY <2>3, <1>1, <1>7 DEF SmallCount, InLoop
  <2> QED BY <1>2, <2>1, <2>2, <2>3
<1> QED BY <1>1, <1>5, <1>6, <1>7, <1>8 DEF Watched

LEMMA LeaveStasisWatched == ASSUME Typed, Watched, LeaveStasis PROVE Watched'
<1>1. /\ pc = "stasis" /\ pc' = "start" /\ wdtCount' = 0
      /\ UNCHANGED <<crystal, noPingSent, dontRestart, spent, excuses>>
  BY DEF LeaveStasis
<1>2. excuses = {"stasis"} /\ spent = 0 /\ ~dontRestart
  BY <1>1 DEF Watched, HeldOff, Interrupts
<1>3. HeldOff' /\ Interrupts'
  BY <1>1, <1>2 DEF Watched, HeldOff, Interrupts, InLoop
<1>4. SmallCount'
  BY <1>1, <1>2 DEF SmallCount, InLoop
<1> QED BY <1>1, <1>3, <1>4 DEF Watched

(***************************************************************************)
(* A unit of time: any number in a pass of the loop, which counts them,    *)
(* and, with the timer on, one in a sleep, which it ends.                  *)
(***************************************************************************)
LEMMA TimeWatched == ASSUME Typed, Watched, Time PROVE Watched'
<1>0. Clock
  BY DEF Time, Tick, WatchdogInterrupt, WatchdogReset
<1>1. /\ UNCHANGED <<crystal, noPingSent, dontRestart, excuses>>
      /\ InLoop \/ pc = "asleep"
      /\ InLoop => spent' = (IF spent = VeryLong THEN spent ELSE spent + 1)
      /\ pc = "asleep" => spent' = spent /\ spent = 0
  BY <1>0 DEF Clock, Running, InLoop, Watched
<1>2. wdtCount \in Nat /\ spent \in Nat /\ (Tick => wdtCount + 1 <= VeryLong + 1)
  BY PowerAssumption, VeryLongType DEF Typed, TypeOK, Tick
<1>3. CASE Tick
  <2>1. /\ wdtCount' = wdtCount + 1 /\ wdie' = wdie
        /\ pc' = IF pc = "asleep" /\ ~dontRestart THEN "woken" ELSE pc
    BY <1>3 DEF Tick, TimerOn
  <2>2. CASE InLoop
    <3>1. pc' = pc
      BY <2>1, <2>2 DEF InLoop
    <3>2. HeldOff' /\ Interrupts'
      BY <1>1, <2>1, <2>2, <3>1 DEF Watched, HeldOff, Interrupts, InLoop
    <3>3. ASSUME ~noPingSent, excuses # {"awake"} PROVE wdtCount' <= spent' + 1
      <4>1. wdtCount <= spent + 1
        BY <1>1, <2>2, <3>3 DEF Watched, SmallCount
      <4>2. wdtCount' <= VeryLong + 1 /\ VeryLong \in Nat
        BY <1>2, <1>3, <2>1, VeryLongType
      <4> QED BY <1>1, <1>2, <2>1, <2>2, <4>1, <4>2
    <3>4. ~noPingSent' => SmallCount'
      BY <1>1, <2>2, <3>1, <3>3 DEF SmallCount, InLoop
    <3> QED BY <2>2, <3>1, <3>2, <3>4 DEF Watched, InLoop
  <2>3. CASE pc = "asleep" /\ dontRestart
    <3>1. pc' = pc
      BY <2>1, <2>3
    <3>2. HeldOff' /\ Interrupts'
      BY <1>1, <2>1, <2>3, <3>1 DEF Watched, HeldOff, Interrupts, InLoop
    <3>3. SmallCount'
      BY <1>1, <2>3, <3>1 DEF SmallCount, InLoop
    <3> QED BY <1>1, <2>3, <3>2, <3>3 DEF Watched
  <2>4. CASE pc = "asleep" /\ ~dontRestart
    <3>1. pc' = "woken"
      BY <2>1, <2>4
    <3>2. HeldOff' /\ Interrupts'
      BY <1>1, <2>1, <2>4, <3>1 DEF Watched, HeldOff, Interrupts, InLoop
    <3>3. ~noPingSent' => SmallCount'
      BY <1>1, <1>2, <2>1, <2>4, <3>1 DEF Watched, SmallCount, InLoop
    <3> QED BY <1>1, <2>4, <3>2, <3>3 DEF Watched
  <2> QED BY <1>1, <2>2, <2>3, <2>4
<1>4. CASE WatchdogInterrupt
  <2>1. pc' = IF dontRestart THEN "woken" ELSE "hangs"
    BY <1>4 DEF WatchdogInterrupt
  <2>2. CASE dontRestart
    <3>1. pc = "asleep" /\ pc' = "woken"
      BY <1>1, <2>1, <2>2 DEF Watched, HeldOff, InLoop
    <3>2. HeldOff' /\ Interrupts' /\ SmallCount'
      BY <1>1, <2>2, <3>1 DEF Watched, HeldOff, Interrupts, SmallCount, InLoop
    <3> QED BY <1>1, <3>1, <3>2 DEF Watched
  <2>3. CASE ~dontRestart
    <3>1. pc' = "hangs"
      BY <2>1, <2>3
    <3> QED BY <1>1, <2>3, <3>1 DEF Watched, HeldOff, Interrupts, SmallCount, InLoop
  <2> QED BY <2>2, <2>3
<1>5. CASE WatchdogReset
  <2>1. pc' = "boot"
    BY <1>5 DEF WatchdogReset
  <2> QED BY <1>1, <2>1 DEF Watched, HeldOff, Interrupts, SmallCount, InLoop
<1> QED BY <1>3, <1>4, <1>5 DEF Time

LEMMA NextWatched == ASSUME Typed, Watched, [Next]_vars PROVE Watched'
<1>1. CASE Setup
  <2>1. /\ pc' = "start" /\ wdie' = TRUE /\ wdtCount' = 0 /\ dontRestart' = FALSE
        /\ spent' = 0 /\ excuses' = {}
    BY <1>1 DEF Setup
  <2>2. {} # {"awake"}
    OBVIOUS
  <2> QED BY <2>1, <2>2 DEF Watched, HeldOff, Interrupts, SmallCount, InLoop
<1>2. CASE BeginLoop \/ EndMessages \/ Weather \/ UpdateBatterySavings
  <2>1. UNCHANGED watch
    BY <1>2 DEF BeginLoop, EndMessages, Weather, UpdateBatterySavings, watch, wdtVars
  <2>2. InLoop /\ pc' \in {"messages", "weather", "savings", "pings", "hangs"}
    BY <1>2 DEF BeginLoop, EndMessages, Weather, UpdateBatterySavings, InLoop
  <2> QED BY <2>1, <2>2, SamePass
<1>3. CASE CheckPings
  BY <1>3, CheckPingsWatched
<1>4. CASE Sleep
  BY <1>4, SleepWatched
<1>5. CASE EndSleep
  BY <1>5, EndSleepWatched
<1>6. CASE HearPing
  <2>1. UNCHANGED watch /\ pc' = pc
    BY <1>6 DEF HearPing, watch, wdtVars
  <2> QED BY <2>1, SamePass
<1>7. CASE Commands
  <2>1. UNCHANGED watch /\ (pc' = pc \/ pc' = "hangs") /\ pc = "messages"
    BY <1>7 DEF Commands, RestartCommand, StasisCommand, IntervalCommand, PreambleCommand,
                RelayCommand, Command, watch, wdtVars
  <2> QED BY <2>1, SamePass DEF InLoop
<1>8. CASE Wake
  BY <1>8, WakeWatched
<1>9. CASE LeaveStasis
  BY <1>9, LeaveStasisWatched
<1>10. CASE Time
  BY <1>10, TimeWatched
<1>11. CASE ResetAtLast
  <2>1. UNCHANGED watch /\ pc = "hangs" /\ pc' = "boot"
    BY <1>11 DEF ResetAtLast, watch, wdtVars
  <2> QED BY <2>1, SamePass
<1>12. CASE BatteryChanges \/ UNCHANGED vars
  <2>1. UNCHANGED watch /\ pc' = pc
    BY <1>12 DEF BatteryChanges, vars, watch, wdtVars
  <2> QED BY <2>1, SamePass
<1> QED
  BY <1>1, <1>2, <1>3, <1>4, <1>5, <1>6, <1>7, <1>8, <1>9, <1>10, <1>11, <1>12 DEF Next, Program

-----------------------------------------------------------------------------
(***************************************************************************)
(* The invariant: the types, and what the watchdog's count and its         *)
(* interrupt depend on.                                                    *)
(***************************************************************************)
THEOREM Invariance == Spec => []IInv
<1>1. Init => IInv
  BY InitType, InitWatched, Parts
<1>2. IInv /\ [Next]_vars => IInv'
  <2> SUFFICES ASSUME IInv, [Next]_vars PROVE IInv'
    OBVIOUS
  <2>1. Typed /\ Watched
    BY Parts
  <2>2. Typed' /\ Watched'
    BY <2>1, NextType, NextWatched
  <2> QED BY <2>2 DEF IInv, Typed, Watched
<1> QED BY <1>1, <1>2, PTL DEF Spec

THEOREM TypeCorrect == Spec => []TypeOK
<1>1. IInv => TypeOK
  BY DEF IInv
<1> QED BY <1>1, Invariance, PTL

(***************************************************************************)
(* The watchdog bites only a station that has said that it hears no pings, *)
(* or one whose pass of the loop takes the watchdog's period by itself,    *)
(* or, in a build without a crystal, one in its first deep sleep after     *)
(* stasis or in a pass of the loop right after a deep sleep.               *)
(***************************************************************************)
Excused == ~crystal /\ IF pc = "asleep" THEN excuses = {"stasis"} ELSE excuses = {"awake"}

LEMMA BiteExcused == ASSUME IInv, Bites PROVE noPingSent \/ LongPass \/ Excused
<1> SUFFICES ASSUME ~noPingSent, ~LongPass PROVE Excused
  OBVIOUS
<1>1. Clock /\ wdtCount + 1 = WdtPeriod
  BY DEF Bites, WatchdogReset, WatchdogInterrupt
<1>2. wdtCount = VeryLong + 1 /\ VeryLong \in Nat /\ VeryLong >= 1 /\ spent \in 0..VeryLong
  BY <1>1, PowerAssumption, VeryLongType DEF IInv, TypeOK
<1>3. SmallCount
  BY DEF IInv
<1>4. CASE InLoop
  <2>1. pc # "asleep" /\ spent # VeryLong
    BY <1>4 DEF InLoop, LongPass
  <2>2. ~(wdtCount <= spent + 1)
    BY <1>2, <2>1
  <2>3. excuses = {"awake"}
    BY <1>3, <1>4, <2>2 DEF SmallCount
  <2> QED BY <2>1, <2>3 DEF IInv, HeldOff, Excused
<1>5. CASE pc = "asleep"
  <2>1. wdtCount # 0
    BY <1>2
  <2>2. dontRestart
    BY <1>3, <1>5, <2>1 DEF SmallCount
  <2>3. ~wdie
    BY <2>2 DEF Bites, WatchdogReset, WatchdogInterrupt
  <2> QED BY <1>5, <2>2, <2>3 DEF IInv, HeldOff, Interrupts, Excused
<1> QED BY <1>1, <1>4, <1>5 DEF Clock, Running, InLoop

THEOREM SparesHeard == Spec => WatchdogSparesHeard
<1>1. IInv /\ [Next]_vars => [Bites => noPingSent \/ LongPass \/ Excused]_vars
  BY BiteExcused
<1> QED BY <1>1, Invariance, PTL DEF Spec, WatchdogSparesHeard, Excused

=============================================================================
