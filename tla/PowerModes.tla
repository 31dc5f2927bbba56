----------------------------- MODULE PowerModes -----------------------------
(***************************************************************************)
(* How a station saves power and how its watchdog restarts it: the main    *)
(* loop of RemoteStation/ArduinoWeatherStation.cpp, with the interrupts of *)
(* the timer and of the watchdog, the idle state of the radio              *)
(* (LoraMessaging.cpp, CSMA.h) and the interval of the weather messages    *)
(* (WeatherProcessing.cpp).                                                *)
(*                                                                         *)
(* Time goes in units of which the watchdog's period has WdtPeriod.  A     *)
(* sleep with the timer on takes one of them, a pass of the loop any       *)
(* number: each packet that it sends may wait for the channel.  Builds     *)
(* with a crystal sleep with the timer on, the others turn it off in deep  *)
(* sleep, and the station's time then stands still.                        *)
(*                                                                         *)
(* A packet that is still queued when the radio is initialised again is    *)
(* left out.                                                               *)
(***************************************************************************)
EXTENDS Integers

CONSTANTS
  Word,        \* 65536: unsigned short arithmetic
  Emergency,   \* batteryEmergencyThresh_mV
  Threshold,   \* batteryThreshold_mV
  Hysteresis,  \* batteryHysterisis_mV
  Voltages,    \* of the battery
  Ticks,       \* for each weatherInterval the units that it takes
  PingLimit,   \* maxMillisBetweenPings in units
  WdtPeriod,   \* WDTO_8S in units
  MaxCommands  \* bound: commands

Intervals == {"short", "long", "longer"}

ASSUME PowerAssumption ==
  /\ Word \in Nat /\ Emergency \in 0..(Word - 1)
  /\ Hysteresis \in Nat /\ Threshold \in Hysteresis..(Word - 1 - Hysteresis)
  /\ Voltages \subseteq 0..(Word - 1)
  /\ Ticks \in [Intervals -> Nat \ {0}]
  /\ PingLimit \in Nat \ {0}
  /\ WdtPeriod \in Nat /\ WdtPeriod > 2
  /\ MaxCommands \in Nat

VARIABLES
  crystal,          \* whether the build has a crystal
  voltage,          \* the battery
  pc,               \* where the program is
  mode,             \* batteryMode
  reading,          \* batteryReading_mV
  interval,         \* weatherInterval: shortInterval, longInterval or ten times that
  tickCounts, weatherRequired,
  pingAge,          \* millis() - lastPingMillis, up to PingLimit
  noPingSent,
  stasisRequested,  \* in RAM and in permanent storage
  wdie,             \* whether the watchdog interrupts before it resets
  wdtCount,         \* units since wdt_reset or the last time-out
  dontRestart,      \* wdt_dontRestart
  spent,            \* history: units in this pass of the loop, up to VeryLong
  radio,            \* what the radio does
  idleState,        \* _idleState
  sender, actual,   \* _senderPremableLength and _actualPreambleLength, in outboundPreambleLength
  relays,           \* whether a list of stations to relay names one
  initRequired,     \* initMessagingRequired
  excuses,          \* history: why the watchdog may bite a station that hears pings
  commands          \* history: commands so far, to bound them

timeVars == <<tickCounts, weatherRequired, pingAge>>
wdtVars == <<wdie, wdtCount, dontRestart>>
radioVars == <<radio, idleState, sender, actual>>
vars == <<crystal, voltage, pc, mode, reading, interval, timeVars, noPingSent, stasisRequested,
          wdtVars, spent, radioVars, relays, initRequired, excuses, commands>>

-----------------------------------------------------------------------------
(* The radio. *)

Wanted(m, r) == IF m = "Normal" /\ r THEN "continuous" ELSE "duty"
Preamble(m) == IF m = "DeepSleep" THEN 8 ELSE 1

(* enterIdleState *)
EnterIdleState(state, preamble) ==
  /\ radio' = state
  /\ actual' = preamble

(* setIdleState: nothing happens if nothing changes, and a change waits if *)
(* a packet is on the air.                                                 *)
SetIdleState(from, state, preamble) ==
  IF state = idleState /\ preamble = actual
    THEN /\ radio' = from
         /\ UNCHANGED <<idleState, actual>>
    ELSE /\ idleState' = state
         /\ \/ EnterIdleState(state, preamble)
            \/ /\ from \in {"continuous", "duty"}
               /\ radio' = from
               /\ UNCHANGED actual

UpdateIdleState(from, m) ==
  /\ sender' = Preamble(m)
  /\ SetIdleState(from, Wanted(m, relays), Preamble(m))

(* A transmission: the radio is idle again at its end, and a failed one    *)
(* asks for initialisation.                                                *)
Transmit(state, preamble) ==
  /\ EnterIdleState(state, preamble)
  /\ initRequired' \in {initRequired, TRUE}

-----------------------------------------------------------------------------
Init ==
  /\ crystal \in BOOLEAN
  /\ voltage \in Voltages
  /\ pc = "boot"
  /\ mode = "Normal"
  /\ reading = voltage
  /\ interval = "short"
  /\ tickCounts = 0 /\ weatherRequired = FALSE
  /\ pingAge = 0 /\ noPingSent = FALSE
  /\ stasisRequested \in BOOLEAN
  /\ wdie = FALSE /\ wdtCount = 0 /\ dontRestart = FALSE
  /\ spent = 0
  /\ radio = "standby" /\ idleState = "none" /\ sender = 1 /\ actual = 0
  /\ relays \in BOOLEAN
  /\ initRequired = FALSE
  /\ excuses = {}
  /\ commands = 0

(* setup, which may send the stack trace of the run before. *)
Setup ==
  /\ pc = "boot"
  /\ pc' = "start"
  /\ mode' = "Normal" /\ reading' = voltage /\ interval' = "short"
  /\ tickCounts' = 0 /\ weatherRequired' = FALSE
  /\ pingAge' = 0 /\ noPingSent' = FALSE
  /\ wdie' = TRUE /\ wdtCount' = 0 /\ dontRestart' = FALSE
  /\ spent' = 0
  /\ sender' = 1 /\ idleState' = Wanted("Normal", relays) /\ EnterIdleState(idleState', 1)
  /\ initRequired' \in BOOLEAN
  /\ excuses' = {}
  /\ UNCHANGED <<crystal, voltage, stasisRequested, relays, commands>>

-----------------------------------------------------------------------------
(* A pass of the loop. *)

(* After a failed transmission InitMessaging, which leaves the radio in    *)
(* standby, and updateIdleState.                                           *)
BeginLoop ==
  /\ pc = "start"
  /\ pc' = "messages"
  /\ initRequired' = FALSE
  /\ IF initRequired THEN UpdateIdleState("standby", mode) ELSE UNCHANGED radioVars
  /\ UNCHANGED <<crystal, voltage, mode, reading, interval, timeVars, noPingSent,
                 stasisRequested, wdtVars, spent, relays, excuses, commands>>

Listening == radio \in {"continuous", "duty"}

HearPing ==
  /\ pc = "messages" /\ Listening
  /\ pingAge' = 0
  /\ EnterIdleState(idleState, sender)
  /\ UNCHANGED <<crystal, voltage, pc, mode, reading, interval, tickCounts, weatherRequired,
                 noPingSent, stasisRequested, wdtVars, spent, idleState, sender, relays,
                 initRequired, excuses, commands>>

(* A command, which is answered. *)
Command(state, preamble) ==
  /\ pc = "messages" /\ Listening
  /\ commands < MaxCommands
  /\ commands' = commands + 1
  /\ Transmit(state, preamble)

(* F: endless loop, and the watchdog. *)
RestartCommand ==
  /\ Command(idleState, sender)
  /\ pc' = "hangs"
  /\ UNCHANGED <<crystal, voltage, mode, reading, interval, timeVars, noPingSent,
                 stasisRequested, wdtVars, spent, idleState, sender, relays, excuses>>

StasisCommand ==
  /\ Command(idleState, sender)
  /\ stasisRequested' = TRUE
  /\ UNCHANGED <<crystal, voltage, pc, mode, reading, interval, timeVars, noPingSent, wdtVars,
                 spent, idleState, sender, relays, excuses>>

IntervalCommand ==
  /\ Command(idleState, sender)
  /\ interval' = IF mode = "Normal" THEN "short" ELSE "long"
  /\ tickCounts' = 0
  /\ UNCHANGED <<crystal, voltage, pc, mode, reading, weatherRequired, pingAge, noPingSent,
                 stasisRequested, wdtVars, spent, idleState, sender, relays, excuses>>

(* The command that sets outboundPreambleLength. *)
PreambleCommand ==
  /\ Command(idleState, 1)
  /\ sender' = 1
  /\ UNCHANGED <<crystal, voltage, pc, mode, reading, interval, timeVars, noPingSent,
                 stasisRequested, wdtVars, spent, idleState, relays, excuses>>

(* A relay command ends with updateIdleState. *)
RelayCommand ==
  /\ relays' \in BOOLEAN
  /\ sender' = Preamble(mode)
  /\ idleState' = Wanted(mode, relays')
  /\ Command(idleState', sender')
  /\ UNCHANGED <<crystal, voltage, pc, mode, reading, interval, timeVars, noPingSent,
                 stasisRequested, wdtVars, spent, excuses>>

EndMessages ==
  /\ pc = "messages"
  /\ pc' = "weather"
  /\ UNCHANGED <<crystal, voltage, mode, reading, interval, timeVars, noPingSent,
                 stasisRequested, wdtVars, spent, radioVars, relays, initRequired, excuses,
                 commands>>

(* In deep sleep the battery is read, with a crystal only when a weather   *)
(* message would be due; else the message is sent, which reads it.  A      *)
(* status message may be due as well.                                      *)
ReadsWhenDue == weatherRequired   \* mutant: whatever the build
ReadsBattery == weatherRequired \/ (mode = "DeepSleep" /\ ~crystal)

Weather ==
  /\ pc = "weather"
  /\ pc' = "savings"
  /\ reading' = IF ReadsBattery THEN voltage ELSE reading
  /\ weatherRequired' = (weatherRequired /\ mode = "DeepSleep" /\ ~crystal)
  /\ \/ mode # "DeepSleep" /\ Transmit(idleState, sender)
     \/ /\ mode = "DeepSleep" \/ ~weatherRequired
        /\ UNCHANGED <<radio, actual, initRequired>>
  /\ UNCHANGED <<crystal, voltage, mode, interval, tickCounts, pingAge, noPingSent,
                 stasisRequested, wdtVars, spent, idleState, sender, relays, excuses, commands>>

EnterMode(m) ==
  /\ mode' = m
  /\ interval' = (CASE m = "Normal" -> "short" [] m = "Save" -> "long" [] OTHER -> "longer")
  /\ tickCounts' = 0
  /\ UpdateIdleState(radio, m)

StayInMode == UNCHANGED <<mode, interval, tickCounts, radioVars>>

(* updateBatterySavings *)
NextModeSavesFirst ==   \* mutant: the tests in the other order
  IF reading < (Threshold - Hysteresis) % Word \/ mode = "DeepSleep" THEN "Save"
  ELSE IF reading < Emergency THEN "DeepSleep"
  ELSE IF reading > (Threshold + Hysteresis) % Word THEN "Normal"
  ELSE mode

NextMode ==
  IF reading < Emergency THEN "DeepSleep"
  ELSE IF reading < (Threshold - Hysteresis) % Word \/ mode = "DeepSleep" THEN "Save"
  ELSE IF reading > (Threshold + Hysteresis) % Word THEN "Normal"
  ELSE mode

UpdateBatterySavings ==
  /\ pc = "savings"
  /\ pc' = "pings"
  /\ IF NextMode = mode THEN StayInMode ELSE EnterMode(NextMode)
  /\ UNCHANGED <<crystal, voltage, reading, weatherRequired, pingAge, noPingSent,
                 stasisRequested, wdtVars, spent, relays, initRequired, excuses, commands>>

AlwaysInTime == TRUE   \* mutant: the watchdog is reset in every pass
PingInTime == pingAge < PingLimit

CheckPings ==
  /\ pc = "pings"
  /\ pc' = "sleep"
  /\ IF PingInTime
       THEN /\ noPingSent' = FALSE
            /\ wdtCount' = 0
            /\ excuses' = excuses \ {"awake"}
            /\ UNCHANGED <<radio, actual, initRequired>>
       ELSE /\ noPingSent' = TRUE
            /\ IF noPingSent THEN UNCHANGED <<radio, actual, initRequired>> ELSE Transmit(idleState, sender)
            /\ UNCHANGED <<wdtCount, excuses>>
  /\ UNCHANGED <<crystal, voltage, mode, reading, interval, timeVars, stasisRequested,
                 wdie, dontRestart, spent, idleState, sender, relays, commands>>

(* sleep up to LowPower, unless charging or a search disables it.          *)
TimerStopsAlways == mode = "DeepSleep"   \* mutant: whatever the build
TimerStops == mode = "DeepSleep" /\ ~crystal

Sleep ==
  /\ pc = "sleep"
  /\ spent' = 0
  /\ \/ /\ pc' = "asleep"
        /\ dontRestart' = TimerStops
     \/ /\ pc' = "woken"
        /\ UNCHANGED dontRestart
  /\ UNCHANGED <<crystal, voltage, mode, reading, interval, timeVars, noPingSent,
                 stasisRequested, wdie, wdtCount, radioVars, relays, initRequired,
                 excuses, commands>>

(* A message or a turn of the anemometer. *)
Wake ==
  /\ pc = "asleep"
  /\ pc' = "woken"
  /\ UNCHANGED <<crystal, voltage, mode, reading, interval, timeVars, noPingSent,
                 stasisRequested, wdtVars, spent, radioVars, relays, initRequired, excuses,
                 commands>>

(* The rest of sleep, which allows restarts again and, if the timer was    *)
(* off, lets the watchdog interrupt again; then stasis if it was asked for.*)
WillInterruptBefore == wdie   \* mutant: WDIE is not set again
WillInterrupt == wdie \/ dontRestart

EndSleep ==
  /\ pc = "woken"
  /\ dontRestart' = FALSE
  /\ wdie' = WillInterrupt
  /\ IF stasisRequested
       THEN /\ pc' = "stasis" /\ mode' = "Stasis"
            /\ radio' = "sleep" /\ idleState' = "sleep" /\ actual' = sender
            /\ excuses' = {"stasis"}
       ELSE /\ pc' = "start"
            /\ excuses' = IF dontRestart THEN {"awake"} ELSE excuses
            /\ UNCHANGED <<mode, radio, idleState, actual>>
  /\ UNCHANGED <<crystal, voltage, reading, interval, timeVars, noPingSent,
                 stasisRequested, wdtCount, spent, sender, relays, initRequired, commands>>

(* More than ten turns of the anemometer within a second end enterStasis.  *)
(* The timer of a build with a crystal has run on, slowly.                 *)
LeaveStasis ==
  /\ pc = "stasis"
  /\ pc' = "start"
  /\ stasisRequested' = FALSE
  /\ EnterMode("Normal")
  /\ wdie' = FALSE /\ wdtCount' = 0
  /\ pingAge' \in IF crystal THEN pingAge..PingLimit ELSE {pingAge}
  /\ weatherRequired' \in IF crystal THEN {weatherRequired, TRUE} ELSE {weatherRequired}
  /\ UNCHANGED <<crystal, voltage, reading, noPingSent, dontRestart, spent, relays, initRequired,
                 excuses, commands>>

-----------------------------------------------------------------------------
(* Time.  The timer is off while the program sleeps with dontRestart.      *)

TimerOn == ~dontRestart
Running == pc \in {"start", "messages", "weather", "savings", "pings", "asleep"}

VeryLong == WdtPeriod - 2   \* with the unit of a sleep, and the next one, the period

Due == tickCounts + 1 >= Ticks[interval]

Clock ==
  /\ Running
  /\ spent' = IF pc = "asleep" \/ spent = VeryLong THEN spent ELSE spent + 1
  /\ IF TimerOn
       THEN /\ pingAge' = IF pingAge < PingLimit THEN pingAge + 1 ELSE pingAge
            /\ IF Due
                 THEN tickCounts' = 0 /\ weatherRequired' = TRUE
                 ELSE tickCounts' = tickCounts + 1 /\ UNCHANGED weatherRequired
       ELSE UNCHANGED timeVars
  /\ UNCHANGED <<crystal, voltage, mode, reading, interval, noPingSent, stasisRequested,
                 dontRestart, radioVars, relays, initRequired, excuses, commands>>

(* The tick of the timer wakes the program. *)
Tick ==
  /\ Clock
  /\ wdtCount + 1 < WdtPeriod
  /\ wdtCount' = wdtCount + 1
  /\ pc' = IF pc = "asleep" /\ TimerOn THEN "woken" ELSE pc
  /\ UNCHANGED wdie

(* The interrupt of the watchdog: it wakes the program, or stores the      *)
(* stack and waits for the reset.                                          *)
WatchdogInterrupt ==
  /\ Clock
  /\ wdie
  /\ wdtCount + 1 = WdtPeriod
  /\ wdtCount' = 0
  /\ wdie' = FALSE
  /\ pc' = IF dontRestart THEN "woken" ELSE "hangs"

WatchdogReset ==
  /\ Clock
  /\ ~wdie
  /\ wdtCount + 1 = WdtPeriod
  /\ wdtCount' = 0
  /\ pc' = "boot"
  /\ UNCHANGED wdie

(* The reset of a program that does nothing any more. *)
ResetAtLast ==
  /\ pc = "hangs"
  /\ pc' = "boot"
  /\ UNCHANGED <<crystal, voltage, mode, reading, interval, timeVars, noPingSent,
                 stasisRequested, wdtVars, spent, radioVars, relays, initRequired, excuses,
                 commands>>

(* The battery is charged or used up. *)
BatteryChanges ==
  /\ pc \in {"asleep", "stasis"}
  /\ voltage' \in Voltages
  /\ UNCHANGED <<crystal, pc, mode, reading, interval, timeVars, noPingSent, stasisRequested,
                 wdtVars, spent, radioVars, relays, initRequired, excuses, commands>>

Program ==
  \/ BeginLoop \/ EndMessages \/ Weather \/ UpdateBatterySavings \/ CheckPings \/ Sleep \/ EndSleep
Time == Tick \/ WatchdogInterrupt \/ WatchdogReset
Commands ==
  \/ RestartCommand \/ StasisCommand \/ IntervalCommand \/ PreambleCommand \/ RelayCommand

Next ==
  \/ Setup
  \/ Program
  \/ HearPing
  \/ Commands
  \/ Wake
  \/ LeaveStasis
  \/ Time
  \/ ResetAtLast
  \/ BatteryChanges

Spec == Init /\ [][Next]_vars

(* The program runs, and time goes on, though not in every state; nothing  *)
(* is assumed of messages, the wind and the battery.                       *)
FairSpec == Spec /\ WF_vars(Setup) /\ WF_vars(Program) /\ SF_vars(Time) /\ WF_vars(ResetAtLast)

-----------------------------------------------------------------------------
(***************************************************************************)
(* Type invariant.                                                         *)
(***************************************************************************)
Excuses == {{}, {"stasis"}, {"awake"}}

TypeOK ==
  /\ crystal \in BOOLEAN
  /\ voltage \in Voltages /\ reading \in Voltages
  /\ pc \in {"boot", "start", "messages", "weather", "savings", "pings", "sleep", "asleep",
             "woken", "stasis", "hangs"}
  /\ mode \in {"Normal", "Save", "DeepSleep", "Stasis"}
  /\ interval \in Intervals
  /\ tickCounts \in 0..(Ticks[interval] - 1)
  /\ pingAge \in 0..PingLimit
  /\ wdtCount \in 0..(WdtPeriod - 1) /\ spent \in 0..VeryLong
  /\ weatherRequired \in BOOLEAN /\ noPingSent \in BOOLEAN /\ stasisRequested \in BOOLEAN
  /\ wdie \in BOOLEAN /\ dontRestart \in BOOLEAN
  /\ relays \in BOOLEAN /\ initRequired \in BOOLEAN
  /\ excuses \in Excuses
  /\ radio \in {"standby", "continuous", "duty", "sleep"}
  /\ idleState \in {"none", "continuous", "duty", "sleep"}
  /\ sender \in {1, 8} /\ actual \in {0, 1, 8}
  /\ commands \in 0..MaxCommands

(***************************************************************************)
(* The inductive invariant of the watchdog.  Restarts are held off only    *)
(* while the program sleeps, with the timer off, which a build with a      *)
(* crystal never does; the watchdog interrupts before it resets, except    *)
(* after stasis and between its interrupt and the end of that sleep; and   *)
(* without noPingSent it has counted no pass of the loop but the one that  *)
(* goes on, and one unit of sleep before it: each pass has set it to zero  *)
(* at its end.  For the types: the radio has its idle state from setup.    *)
(***************************************************************************)
InLoop == pc \in {"start", "messages", "weather", "savings", "pings"}

HeldOff ==
  /\ dontRestart => ~crystal /\ pc \in {"asleep", "woken", "boot"}
  /\ excuses = {"awake"} => ~crystal
Interrupts ==
  /\ InLoop \/ pc \in {"sleep", "asleep"} => wdie \/ excuses = {"stasis"}
  /\ pc = "woken" => wdie \/ dontRestart \/ excuses = {"stasis"}
  /\ pc = "stasis" => excuses = {"stasis"}
SmallCount ==
  /\ InLoop /\ excuses # {"awake"} => wdtCount <= spent + 1
  /\ pc = "sleep" => wdtCount = 0
  /\ pc = "asleep" /\ ~dontRestart => wdtCount = 0
  /\ pc = "woken" /\ ~dontRestart => wdtCount <= 1
RadioIsSet == idleState = "none" => pc = "boot"
IInv ==
  /\ TypeOK /\ RadioIsSet
  /\ HeldOff /\ Interrupts
  /\ pc \in {"asleep", "woken", "stasis"} => spent = 0
  /\ ~noPingSent => SmallCount

(***************************************************************************)
(* The watchdog spares a station that hears pings: "If we don't receive a  *)
(* ping in just under 20 minutes, we restart" (ArduinoWeatherStation.h),   *)
(* and not otherwise, and it has said so before.  There are three          *)
(* exceptions: a pass of the loop that takes the watchdog's period by      *)
(* itself, less the unit of the sleep before it; and, in builds without a  *)
(* crystal, the first deep sleep after stasis, which the watchdog resets   *)
(* instead of waking it, and a pass right after a deep sleep, as a message *)
(* that ends the sleep does not reset the watchdog.                        *)
(***************************************************************************)
Bites == WatchdogReset \/ (WatchdogInterrupt /\ pc' = "hangs")
LongPass == pc # "asleep" /\ spent = VeryLong
WatchdogSparesHeard ==
  [][Bites => \/ noPingSent
              \/ LongPass
              \/ ~crystal /\ IF pc = "asleep" THEN excuses = {"stasis"} ELSE excuses = {"awake"}]_vars

(***************************************************************************)
(* A station that hears no pings any more restarts, again and again,       *)
(* unless it stays in stasis or, with its time standing still, falls into  *)
(* deep sleep for ever or ever again.                                      *)
(***************************************************************************)
LonelyRestarts ==
  \/ []<><<HearPing>>_vars
  \/ <>[](mode = "Stasis")
  \/ ~crystal /\ []<>(mode = "DeepSleep")
  \/ []<>(pc = "boot")

(***************************************************************************)
(* With the battery charged for good a station works normally again,       *)
(* whatever mode it was in and however it sleeps.                          *)
(***************************************************************************)
Plenty == voltage > Threshold + Hysteresis /\ voltage >= Emergency
Recovers == <>[]Plenty => <>[](mode \in {"Normal", "Stasis"})

(***************************************************************************)
(* With the battery empty a station sleeps deeply, unless it is in stasis  *)
(* or restarts again and again.                                            *)
(***************************************************************************)
GoesToSleep ==
  <>[](voltage < Emergency) => <>[](mode \in {"DeepSleep", "Stasis"}) \/ []<>(pc = "boot")

(***************************************************************************)
(* "If we need to relay weather from anyone, we want to listen             *)
(* continuously." (LoraMessaging.cpp:27)                                   *)
(***************************************************************************)
ListensForRelays ==
  pc = "asleep" /\ mode = "Normal" /\ relays => radio = "continuous"
=============================================================================
