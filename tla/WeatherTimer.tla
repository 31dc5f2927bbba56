---------------------------- MODULE WeatherTimer ----------------------------
(***************************************************************************)
(* The clock of a station and what its interrupts count: TimerTwo.cpp, and *)
(* the wind speeds and gusts of WeatherProcessing.cpp.                     *)
(*                                                                         *)
(* Timer 2 counts from 0 to its top and then asks for an interrupt, which  *)
(* counts the period in _ticks; a reading of the time puts both together   *)
(* with interrupts off.  Turns of the anemometer interrupt and are counted *)
(* until the tick that ends the interval of the weather messages; the      *)
(* shortest time of a group of turns is the gust.  A ping sets the clock.  *)
(*                                                                         *)
(* A millisecond is one count of the timer.  Builds differ in the top,     *)
(* 255 with a crystal and 249 without.  A crystal that has failed, stasis  *)
(* and the start-up are left out.                                          *)
(***************************************************************************)
EXTENDS Integers

CONSTANTS
  Tops,         \* TIMER2_TOP of the builds
  Limit,        \* 249: a count from which a pending interrupt may be newer
  Held,         \* counts for which interrupts are off at most
  Word,         \* 2^32: _ticks wraps
  Short,        \* 65536: times of turns are unsigned short
  Group,        \* 4: turns to a gust
  MinInterval,  \* minWindIntervalTest
  Intervals     \* weather intervals that are asked for, in ticks

ASSUME TimerAssumption ==
  /\ Limit \in Nat /\ Held \in Nat /\ Held < Limit
  /\ Tops \subseteq {n \in Nat : n >= Limit}
  /\ Word \in Nat \ {0} /\ Short \in Nat \ {0}
  /\ \A n \in Tops : (Word * (n + 1)) % Short = 0
  /\ Group \in Nat \ {0} /\ MinInterval \in Nat
  /\ Intervals \subseteq Nat

VARIABLES
  top,              \* OCR2A, of the build
  tcnt,             \* TCNT2
  pending,          \* OCF2A: the interrupt of the timer is due
  ticks,            \* _ticks
  periods,          \* history: the periods there were, from the value last set
  reader,           \* who is in millis(): nobody, the program, or countWind
  m, t,             \* its locals
  at,               \* history: periods when it read TCNT2
  late,             \* whether a count has passed since
  mode,             \* batteryMode: in deep sleep or not
  lastWindCountMillis, gustTickMillis, minInterval, gustCount,
  age,              \* history: counts since gustTickMillis was set, up to Short
  shortest,         \* history: the shortest time of a group since the last report
  tickCounts, requiredTicks, weatherRequired,
  counted,          \* windCounts, by the ticks for which they were counted
  stored,           \* windCountStored, by the same; 0 when it has been reported
  changed,          \* history: requiredTicks was set after stored was
  pc                \* where the program is

clockVars == <<tcnt, pending, ticks, periods>>
readVars == <<m, t, at>>
windVars == <<lastWindCountMillis, gustTickMillis, gustCount>>
gustVars == <<minInterval, shortest>>
countVars == <<tickCounts, requiredTicks, counted, changed>>
vars == <<top, clockVars, reader, readVars, late, mode, windVars, age, gustVars, countVars,
          weatherRequired, stored, pc>>

Succ(n) == (n + 1) % Word
Lesser(a, b) == IF a < b THEN a ELSE b

None == Short - 1   \* 0xFFFF: no gust
Unknown == Short    \* of a time: too long, or the clock was set or stood still

-----------------------------------------------------------------------------
Init ==
  /\ top \in Tops
  /\ tcnt = 0 /\ pending = FALSE
  /\ ticks \in 0..(Word - 1)           \* kept over a reset
  /\ periods = ticks
  /\ reader = "nobody"
  /\ m = 0 /\ t = 0 /\ at = 0 /\ late = FALSE
  /\ mode = "awake"
  /\ lastWindCountMillis = 0 /\ gustTickMillis = 0 /\ gustCount = 0
  /\ minInterval = None /\ shortest = None
  /\ age = Unknown
  /\ requiredTicks \in {IF i < 1 THEN 1 ELSE i : i \in Intervals}
  /\ tickCounts = 0 /\ counted = 0 /\ stored = 0
  /\ changed = FALSE
  /\ weatherRequired = FALSE
  /\ pc = "loop"

-----------------------------------------------------------------------------
(* The clock. *)

(* The timer counts.  While the interrupt is pending it counts at most up  *)
(* to Held, and at most once between two instructions of a reading.        *)
Count ==
  /\ pending => tcnt < Held
  /\ reader # "nobody" => ~late
  /\ late' = (reader # "nobody")
  /\ IF tcnt = top
       THEN /\ tcnt' = 0
            /\ pending' = TRUE
            /\ periods' = Succ(periods)
       ELSE /\ tcnt' = tcnt + 1
            /\ UNCHANGED <<pending, periods>>
  /\ age' = Lesser(age + 1, Unknown)
  /\ UNCHANGED <<top, ticks, reader, readVars, mode, windVars, gustVars, countVars,
                 weatherRequired, stored, pc>>

(* timer2Tick *)
CountTick ==
  IF tickCounts + 1 >= requiredTicks
    THEN /\ tickCounts' = 0
         /\ weatherRequired' = TRUE
         /\ stored' = counted + 1
         /\ counted' = 0
         /\ changed' = FALSE
    ELSE /\ tickCounts' = tickCounts + 1
         /\ counted' = counted + 1
         /\ UNCHANGED <<weatherRequired, stored, changed>>

TimerInterrupt ==
  /\ reader = "nobody"
  /\ pending
  /\ pending' = FALSE
  /\ ticks' = Succ(ticks)
  /\ CountTick
  /\ UNCHANGED <<top, tcnt, periods, reader, readVars, late, mode, windVars, age, gustVars,
                 requiredTicks, pc>>

(* millis(): _ticks and TCNT2 are read with interrupts off, *)
BeginReading(who) ==
  /\ reader = "nobody"
  /\ reader' = who
  /\ m' = ticks /\ t' = tcnt
  /\ at' = periods
  /\ late' = FALSE
  /\ UNCHANGED <<top, clockVars, mode, windVars, age, gustVars, countVars, weatherRequired,
                 stored, pc>>

(* Mutant: the flag is added whatever was read. *)
TicksAnyCount == IF pending THEN Succ(m) ELSE m

(* and then the flag: a period that had ended has to be added, one that    *)
(* has ended since must not be.                                            *)
Ticks == IF pending /\ t < Limit THEN Succ(m) ELSE m
Millis == Ticks * (top + 1) + t

Return ==
  /\ reader' = "nobody"
  /\ m' = 0 /\ t' = 0 /\ at' = 0 /\ late' = FALSE

EndReading ==
  /\ reader = "program"
  /\ Return
  /\ UNCHANGED <<top, clockVars, mode, windVars, age, gustVars, countVars,
                 weatherRequired, stored, pc>>

(* A ping sets the time.  An interrupt that is pending counts on top.      *)
SetSeconds(value) ==
  /\ pc = "loop" /\ reader = "nobody"
  /\ ticks' = value
  /\ periods' = IF pending THEN Succ(value) ELSE value
  /\ age' = Unknown
  /\ UNCHANGED <<top, tcnt, pending, reader, readVars, late, mode, windVars, gustVars,
                 countVars, weatherRequired, stored, pc>>

-----------------------------------------------------------------------------
(* A turn of the anemometer. *)

Since(then, now) == (now - then) % Short

Counts(now) ==
  /\ mode # "deep"
  /\ Since(lastWindCountMillis, now) >= MinInterval

(* Mutant: the time of a turn is noted only when its group is the shortest. *)
NoteGustShortest(now) ==
  IF gustCount = 0 /\ Since(gustTickMillis, now) < minInterval
    THEN /\ minInterval' = Since(gustTickMillis, now)
         /\ gustTickMillis' = now
    ELSE UNCHANGED <<minInterval, gustTickMillis>>

(* Every Group turns their time is compared with the shortest. *)
NoteGust(now) ==
  IF gustCount = 0
    THEN /\ minInterval' = Lesser(Since(gustTickMillis, now), minInterval)
         /\ gustTickMillis' = now
    ELSE UNCHANGED <<minInterval, gustTickMillis>>

(* History: the same with the true time. *)
NoteTime ==
  LET since == IF late THEN 1 ELSE 0
  IN IF gustCount = 0
       THEN /\ age' = since
            /\ shortest' = IF Unknown \in {age, shortest} THEN Unknown
                           ELSE Lesser(age - since, shortest)
       ELSE UNCHANGED <<age, shortest>>

CountWind ==
  LET now == Millis % Short
  IN /\ reader = "countWind"
     /\ Return
     /\ IF Counts(now)
          THEN /\ lastWindCountMillis' = now
               /\ NoteGust(now)
               /\ NoteTime
               /\ gustCount' = (gustCount + 1) % Group
          ELSE UNCHANGED <<windVars, gustVars, age>>
     /\ UNCHANGED <<top, clockVars, mode, countVars, weatherRequired, stored, pc>>

-----------------------------------------------------------------------------
(* The main loop. *)

(* Mutant: the turns counted so far are kept. *)
SetTimerIntervalKeepsTurns(interval) ==
  /\ requiredTicks' = IF interval < 1 THEN 1 ELSE interval
  /\ tickCounts' = 0
  /\ changed' = TRUE
  /\ UNCHANGED counted

(* setTimerInterval *)
SetTimerInterval(interval) ==
  /\ requiredTicks' = IF interval < 1 THEN 1 ELSE interval
  /\ counted' = 0
  /\ tickCounts' = 0
  /\ changed' = TRUE

IntervalCommand(interval) ==
  /\ pc = "loop" /\ reader = "nobody"
  /\ SetTimerInterval(interval)
  /\ UNCHANGED <<top, clockVars, reader, readVars, late, mode, windVars, age, gustVars,
                 weatherRequired, stored, pc>>

(* updateBatterySavings.  In deep sleep no turn is counted, and time may   *)
(* stand still.                                                            *)
EnterMode(newMode, interval) ==
  /\ pc = "loop" /\ reader = "nobody"
  /\ mode' = newMode
  /\ age' = IF newMode = "deep" THEN Unknown ELSE age
  /\ SetTimerInterval(interval)
  /\ UNCHANGED <<top, clockVars, reader, readVars, late, windVars, gustVars, weatherRequired,
                 stored, pc>>

(* The weather message is due.  In deep sleep the battery is read only,    *)
(* and only builds with a crystal reset the flag.                          *)
TakeWeather ==
  /\ pc = "loop" /\ reader = "nobody"
  /\ weatherRequired
  /\ weatherRequired' \in IF mode = "deep" THEN BOOLEAN ELSE {FALSE}
  /\ pc' = IF mode = "deep" THEN "loop" ELSE "speed"
  /\ UNCHANGED <<top, clockVars, reader, readVars, late, mode, windVars, age, gustVars,
                 countVars, stored>>

(* createWeatherData: getWindSpeed_x2 and getWindGust_x2, each with        *)
(* interrupts off.                                                         *)
ReportSpeed ==
  /\ pc = "speed" /\ reader = "nobody"
  /\ stored' = 0
  /\ pc' = "gust"
  /\ UNCHANGED <<top, clockVars, reader, readVars, late, mode, windVars, age, gustVars,
                 countVars, weatherRequired>>

ReportGust ==
  /\ pc = "gust" /\ reader = "nobody"
  /\ minInterval' = None
  /\ shortest' = None
  /\ pc' = "loop"
  /\ UNCHANGED <<top, clockVars, reader, readVars, late, mode, windVars, age, countVars,
                 weatherRequired, stored>>

-----------------------------------------------------------------------------
Next ==
  \/ Count
  \/ TimerInterrupt
  \/ \E who \in {"program", "countWind"} : BeginReading(who)
  \/ EndReading
  \/ CountWind
  \/ \E value \in 0..(Word - 1) : SetSeconds(value)
  \/ \E interval \in Intervals : IntervalCommand(interval)
  \/ \E newMode \in {"awake", "deep"}, interval \in Intervals : EnterMode(newMode, interval)
  \/ TakeWeather
  \/ ReportSpeed
  \/ ReportGust

Spec == Init /\ [][Next]_vars

-----------------------------------------------------------------------------
(* Types and bounds of the variables. *)
TypeOK ==
  /\ top \in Tops
  /\ tcnt \in 0..top
  /\ pending \in BOOLEAN
  /\ ticks \in 0..(Word - 1) /\ periods \in 0..(Word - 1)
  /\ reader \in {"nobody", "program", "countWind"}
  /\ m \in 0..(Word - 1) /\ t \in 0..top /\ at \in 0..(Word - 1)
  /\ late \in BOOLEAN
  /\ mode \in {"awake", "deep"}
  /\ lastWindCountMillis \in 0..(Short - 1) /\ gustTickMillis \in 0..(Short - 1)
  /\ minInterval \in 0..None
  /\ gustCount \in 0..(Group - 1)
  /\ age \in 0..Unknown /\ shortest \in (0..None) \union {Unknown}
  /\ requiredTicks \in Nat \ {0}
  /\ tickCounts \in Nat /\ counted \in Nat /\ stored \in Nat
  /\ weatherRequired \in BOOLEAN /\ changed \in BOOLEAN
  /\ pc \in {"loop", "speed", "gust"}

(* What millis() answers is the time when it read TCNT2, whether a period  *)
(* ended before it, and has not been counted yet, or between the           *)
(* instructions: the clock neither jumps nor runs backwards until it is    *)
(* set.                                                                    *)
MillisExact == reader # "nobody" => Millis = at * (top + 1) + t

(* The shortest time of a group of turns that a message reports as a gust  *)
(* is the shortest there was since the last report, though the times are   *)
(* kept in 16 bits and the interrupt may come between the instructions of  *)
(* a report.  Exempt are reports with a group that began before the start, *)
(* before a deep sleep, before a ping set the clock, or so long ago that   *)
(* its time does not fit.                                                  *)
GustIsReal == shortest # Unknown => minInterval = shortest

(* The turns that a message reports were counted for exactly the interval  *)
(* that they are divided by.  Exempt is an interval that was changed after *)
(* they had been stored; and what has been reported counts as no turns.    *)
SpeedOfInterval == changed \/ stored \in {0, requiredTicks}

(* Ticks are behind the periods by one that is pending.  A reading has     *)
(* that one in its flag and not in m, unless it ended only afterwards.     *)
ClockInv ==
  /\ periods = IF pending THEN Succ(ticks) ELSE ticks
  /\ pending => tcnt <= Held
  /\ late => reader # "nobody"

ReadingInv ==
  reader # "nobody" =>
    /\ m = ticks
    /\ \/ at = m /\ ~pending
       \/ at = m /\ pending /\ t = top
       \/ at = Succ(m) /\ pending /\ t <= Held
    /\ ~late => tcnt = t /\ periods = at
    /\ late /\ t # top => tcnt = t + 1 /\ periods = at
    /\ late /\ t = top => tcnt = 0 /\ periods = Succ(at)

(* Turns are counted for as long as ticks are. *)
CountInv ==
  /\ counted = tickCounts
  /\ tickCounts < requiredTicks

(* A time that fits is the difference of the times in 16 bits. *)
Now == (periods * (top + 1) + tcnt) % Short

GustInv ==
  /\ age < Unknown => Since(gustTickMillis, Now) = age
  /\ late => age > 0

IInv == TypeOK /\ ClockInv /\ ReadingInv /\ CountInv /\ SpeedOfInterval /\ GustInv /\ GustIsReal

=============================================================================
