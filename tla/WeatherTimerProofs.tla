-------------------------- MODULE WeatherTimerProofs --------------------------
(***************************************************************************)
(* What WeatherTimer does for timers of any length and words of any size:  *)
(* the time that is read is the time, a gust is the shortest time of a     *)
(* group of turns, and turns are divided by the time they were counted for.*)
(***************************************************************************)
EXTENDS WeatherTimer, TLAPS

-----------------------------------------------------------------------------
(* Remainders.                                                             *)

LEMMA ModRange ==
  ASSUME NEW b \in Nat \ {0}, NEW x \in Int
  PROVE  x % b \in 0..(b - 1)
BY SMT

LEMMA ModSmall ==
  ASSUME NEW b \in Nat \ {0}, NEW x \in 0..(b - 1)
  PROVE  x % b = x
BY SMT

LEMMA ModUnique ==
  ASSUME NEW b \in Nat \ {0}, NEW x \in Int, NEW q \in Int, NEW r \in 0..(b - 1),
         x = b * q + r
  PROVE  x % b = r
BY SMT

\* What is added to a number can be added to its remainder.
LEMMA ModPlusOne ==
  ASSUME NEW b \in Nat \ {0}, NEW x \in Int
  PROVE  (x + 1) % b = ((x % b) + 1) % b
<1> DEFINE q == x \div b
           r == x % b
<1>1. q \in Int /\ r \in 0..(b - 1) /\ x = b * q + r
  BY SMT
<1> HIDE DEF q, r
<1>2. CASE r + 1 < b
  <2>1. (x + 1) % b = r + 1
    <3>1. r + 1 \in 0..(b - 1) /\ x + 1 = b * q + (r + 1) /\ x + 1 \in Int
      BY <1>1, <1>2
    <3> QED  BY <1>1, <3>1, ModUnique
  <2>2. (r + 1) % b = r + 1
    BY <1>1, <1>2, ModSmall
  <2> QED  BY <2>1, <2>2 DEF r
<1>3. CASE r + 1 = b
  <2>1. (x + 1) % b = 0
    <3>1. b * (q + 1) = b * q + b
      BY <1>1
    <3>2. x + 1 = b * (q + 1) + 0 /\ q + 1 \in Int /\ x + 1 \in Int /\ 0 \in 0..(b - 1)
      BY <1>1, <1>3, <3>1
    <3> QED  BY <3>2, ModUnique
  <2>2. (r + 1) % b = 0
    <3>1. r + 1 = b * 1 + 0 /\ r + 1 \in Int /\ 0 \in 0..(b - 1)
      BY <1>1, <1>3
    <3> QED  BY <3>1, ModUnique
  <2> QED  BY <2>1, <2>2 DEF r
<1> QED  BY <1>1, <1>2, <1>3

-----------------------------------------------------------------------------
(* Times in 16 bits.                                                       *)

LEMMA Sizes ==
  /\ Word \in Nat \ {0} /\ Short \in Nat \ {0}
  /\ Limit \in Nat /\ Held \in Nat /\ Held < Limit
  /\ \A n \in Tops : n \in Nat /\ n >= Limit
BY TimerAssumption DEF TimerAssumption

LEMMA SinceIs ==
  ASSUME NEW g \in 0..(Short - 1), NEW n \in 0..(Short - 1)
  PROVE  Since(g, n) = IF n >= g THEN n - g ELSE n - g + Short
<1>1. CASE n >= g
  BY <1>1, Sizes, ModSmall DEF Since
<1>2. CASE n < g
  <2>1. n - g = Short * (-1) + (n - g + Short) /\ n - g + Short \in 0..(Short - 1)
    BY <1>2, Sizes
  <2>2. n - g \in Int /\ -1 \in Int
    OBVIOUS
  <2>3. (n - g) % Short = n - g + Short
    BY <2>1, <2>2, Sizes, ModUnique
  <2> QED  BY <1>2, <2>3 DEF Since
<1> QED  BY <1>1, <1>2

\* One count later all times are one more, or have not fitted.
LEMMA SinceLater ==
  ASSUME NEW g \in 0..(Short - 1), NEW n \in 0..(Short - 1)
  PROVE  /\ (n + 1) % Short \in 0..(Short - 1)
         /\ Since(g, n) \in 0..(Short - 1)
         /\ Since(g, (n + 1) % Short) =
              IF Since(g, n) + 1 = Short THEN 0 ELSE Since(g, n) + 1
<1>1. Since(g, n) = IF n >= g THEN n - g ELSE n - g + Short
  BY SinceIs
<1>2. CASE n + 1 < Short
  <2>1. (n + 1) % Short = n + 1 /\ n + 1 \in 0..(Short - 1)
    BY <1>2, Sizes, ModSmall
  <2>2. Since(g, n + 1) = IF n + 1 >= g THEN n + 1 - g ELSE n + 1 - g + Short
    BY <2>1, SinceIs
  <2> QED  BY <1>1, <1>2, <2>1, <2>2, Sizes
<1>3. CASE n + 1 = Short
  <2>1. n + 1 = Short * 1 + 0 /\ n + 1 \in Int /\ 0 \in 0..(Short - 1)
    BY <1>3, Sizes
  <2>2. (n + 1) % Short = 0
    BY <2>1, Sizes, ModUnique
  <2>3. Since(g, 0) = IF 0 >= g THEN 0 - g ELSE 0 - g + Short
    BY <2>1, SinceIs
  <2> QED  BY <1>1, <1>3, <2>1, <2>2, <2>3, Sizes
<1> QED  BY <1>2, <1>3, Sizes

\* The time in 16 bits goes on over the end of a period and of the word.
LEMMA TimeGoesOn ==
  ASSUME NEW n \in Tops, NEW p \in 0..(Word - 1), NEW c \in 0..n
  PROVE  /\ c < n => (p * (n + 1) + (c + 1)) % Short = (((p * (n + 1) + c) % Short) + 1) % Short
         /\ c = n => (Succ(p) * (n + 1) + 0) % Short = (((p * (n + 1) + c) % Short) + 1) % Short
<1> DEFINE w == p * (n + 1)
<1>1. n \in Nat /\ w \in Int /\ Short \in Nat \ {0} /\ Word \in Nat \ {0}
  BY Sizes
<1>2. (w + c + 1) % Short = (((w + c) % Short) + 1) % Short
  <2> HIDE DEF w
  <2>1. w + c \in Int
    BY <1>1
  <2> QED  BY <1>1, <2>1, ModPlusOne
<1>3. ASSUME c = n
      PROVE  (Succ(p) * (n + 1) + 0) % Short = (((w + c) % Short) + 1) % Short
  <2>1. w + c + 1 = (p + 1) * (n + 1)
    BY <1>1, <1>3
  <2>2. CASE p + 1 < Word
    <3>1. Succ(p) = p + 1
      BY <1>1, <2>2, ModSmall DEF Succ
    <3>2. (p + 1) * (n + 1) + 0 = w + c + 1
      BY <1>1, <2>1
    <3> QED  BY <1>2, <3>1, <3>2
  <2>3. CASE p + 1 = Word
    <3>1. p + 1 = Word * 1 + 0 /\ p + 1 \in Int /\ 0 \in 0..(Word - 1)
      BY <1>1, <2>3
    <3>2. Succ(p) = 0
      BY <1>1, <3>1, ModUnique DEF Succ
    <3>3. (w + c + 1) % Short = 0
      BY <2>1, <2>3, TimerAssumption DEF TimerAssumption
    <3>4. 0 * (n + 1) + 0 = 0 /\ 0 % Short = 0
      BY <1>1, ModSmall
    <3> QED  BY <1>2, <3>2, <3>3, <3>4
  <2> QED  BY <1>1, <2>2, <2>3
<1>4. (w + (c + 1)) % Short = (((w + c) % Short) + 1) % Short
  <2>1. w + (c + 1) = w + c + 1
    BY <1>1
  <2> QED  BY <1>2, <2>1
<1> QED  BY <1>3, <1>4

-----------------------------------------------------------------------------
(* The invariant at the start.                                             *)

LEMMA SuccType ==
  ASSUME NEW n \in 0..(Word - 1)
  PROVE  Succ(n) \in 0..(Word - 1)
BY Sizes, ModRange DEF Succ

LEMMA NowType ==
  ASSUME TypeOK
  PROVE  Now \in 0..(Short - 1)
<1>1. periods * (top + 1) + tcnt \in Int
  BY Sizes DEF TypeOK
<1> QED  BY <1>1, Sizes, ModRange DEF Now

LEMMA InitInv ==
  ASSUME Init
  PROVE  IInv
<1>1. TypeOK
  <2>1. requiredTicks \in Nat \ {0} /\ gustCount \in 0..(Group - 1)
    BY TimerAssumption DEF Init, TimerAssumption
  <2>2. /\ tcnt \in 0..top
        /\ m \in 0..(Word - 1) /\ t \in 0..top /\ at \in 0..(Word - 1)
        /\ lastWindCountMillis \in 0..(Short - 1) /\ gustTickMillis \in 0..(Short - 1)
        /\ minInterval \in 0..None
        /\ age \in 0..Unknown /\ shortest \in (0..None) \union {Unknown}
    BY Sizes DEF Init, None, Unknown
  <2> QED  BY <2>1, <2>2 DEF Init, TypeOK
<1>2. ClockInv /\ ReadingInv
  BY DEF Init, ClockInv, ReadingInv
<1>3. CountInv /\ SpeedOfInterval
  BY <1>1 DEF Init, CountInv, SpeedOfInterval, TypeOK
<1>4. GustInv /\ GustIsReal
  BY Sizes DEF Init, GustInv, GustIsReal, Unknown, None
<1> QED  BY <1>1, <1>2, <1>3, <1>4 DEF IInv

-----------------------------------------------------------------------------
(* Types.                                                                  *)

LEMMA MillisType ==
  ASSUME TypeOK
  PROVE  Millis % Short \in 0..(Short - 1)
<1>1. Ticks \in 0..(Word - 1)
  BY SuccType DEF TypeOK, Ticks
<1>2. Millis \in Int
  BY <1>1, Sizes DEF TypeOK, Millis
<1> QED  BY <1>2, Sizes, ModRange

LEMMA GustType ==
  ASSUME TypeOK, CountWind
  PROVE  /\ lastWindCountMillis' \in 0..(Short - 1) /\ gustTickMillis' \in 0..(Short - 1)
         /\ minInterval' \in 0..None
         /\ gustCount' \in 0..(Group - 1)
<1> DEFINE now == Millis % Short
<1>1. now \in 0..(Short - 1)
  BY MillisType
<1>2. Since(gustTickMillis, now) \in 0..(Short - 1)
  BY <1>1, SinceLater DEF TypeOK
<1>3. (gustCount + 1) % Group \in 0..(Group - 1)
  BY TimerAssumption, ModRange DEF TypeOK, TimerAssumption
<1> HIDE DEF now
<1>4. CASE Counts(now)
  <2>1. lastWindCountMillis' = now /\ NoteGust(now) /\ gustCount' = (gustCount + 1) % Group
    BY <1>4 DEF CountWind, now
  <2>2. gustTickMillis' \in 0..(Short - 1) /\ minInterval' \in 0..None
    BY <2>1, <1>1, <1>2 DEF NoteGust, Lesser, TypeOK, None
  <2> QED  BY <1>1, <1>3, <2>1, <2>2
<1>5. CASE ~Counts(now)
  <2>1. UNCHANGED <<windVars, gustVars>>
    BY <1>5 DEF CountWind, now
  <2> QED  BY <2>1 DEF windVars, gustVars, TypeOK
<1> QED  BY <1>4, <1>5

LEMMA AgeType ==
  ASSUME TypeOK, GustInv, CountWind
  PROVE  age' \in 0..Unknown /\ shortest' \in (0..None) \union {Unknown}
<1>1. CASE NoteTime
  BY <1>1, Sizes DEF NoteTime, TypeOK, GustInv, Lesser, None, Unknown
<1>2. CASE UNCHANGED <<gustVars, age>>
  BY <1>2 DEF gustVars, TypeOK
<1> QED  BY <1>1, <1>2 DEF CountWind

LEMMA TypeStep ==
  ASSUME IInv, [Next]_vars
  PROVE  TypeOK'
<1> USE DEF IInv, TypeOK
<1>1. CASE Count
  <2>1. UNCHANGED <<top, ticks, reader, readVars, mode, windVars, gustVars, countVars,
                    weatherRequired, stored, pc>>
    BY <1>1 DEF Count
  <2>2. tcnt' \in 0..top /\ periods' \in 0..(Word - 1)
    BY <1>1, SuccType, Sizes DEF Count
  <2>3. age' \in 0..Unknown
    BY <1>1, Sizes DEF Count, Lesser, Unknown
  <2>4. pending' \in BOOLEAN /\ late' \in BOOLEAN
    BY <1>1, Zenon DEF Count
  <2> QED  BY <2>1, <2>2, <2>3, <2>4 DEF readVars, windVars, gustVars, countVars
<1>2. CASE TimerInterrupt
  <2>1. UNCHANGED <<top, tcnt, periods, reader, readVars, late, mode, windVars, age, gustVars,
                    requiredTicks, pc>>
    BY <1>2 DEF TimerInterrupt
  <2>2. pending' \in BOOLEAN /\ ticks' \in 0..(Word - 1)
    BY <1>2, SuccType DEF TimerInterrupt
  <2>3. tickCounts' \in Nat /\ counted' \in Nat /\ stored' \in Nat
    BY <1>2 DEF TimerInterrupt, CountTick
  <2>4. weatherRequired' \in BOOLEAN /\ changed' \in BOOLEAN
    BY <1>2, Zenon DEF TimerInterrupt, CountTick
  <2> QED  BY <2>1, <2>2, <2>3, <2>4 DEF readVars, windVars, gustVars
<1>3. CASE \E who \in {"program", "countWind"} : BeginReading(who)
  BY <1>3 DEF BeginReading, clockVars, windVars, gustVars, countVars
<1>4. CASE EndReading
  <2>1. /\ reader' = "nobody" /\ late' = FALSE
        /\ m' \in 0..(Word - 1) /\ t' \in 0..top /\ at' \in 0..(Word - 1)
    BY <1>4, Sizes DEF EndReading, Return
  <2> QED  BY <1>4, <2>1 DEF EndReading, clockVars, windVars, gustVars, countVars
<1>5. CASE CountWind
  <2>1. /\ Return
        /\ UNCHANGED <<top, clockVars, mode, countVars, weatherRequired, stored, pc>>
    BY <1>5 DEF CountWind
  <2>2. /\ lastWindCountMillis' \in 0..(Short - 1) /\ gustTickMillis' \in 0..(Short - 1)
        /\ minInterval' \in 0..None
        /\ gustCount' \in 0..(Group - 1)
    BY <1>5, GustType
  <2>3. age' \in 0..Unknown /\ shortest' \in (0..None) \union {Unknown}
    BY <1>5, AgeType
  <2>4. /\ reader' = "nobody" /\ late' = FALSE
        /\ m' \in 0..(Word - 1) /\ t' \in 0..top /\ at' \in 0..(Word - 1)
    BY <2>1, Sizes DEF Return
  <2> QED  BY <2>1, <2>2, <2>3, <2>4 DEF clockVars, countVars
<1>6. CASE \E value \in 0..(Word - 1) : SetSeconds(value)
  <2>1. PICK value \in 0..(Word - 1) : SetSeconds(value)
    BY <1>6
  <2>2. ticks' \in 0..(Word - 1) /\ periods' \in 0..(Word - 1) /\ age' \in 0..Unknown
    BY <2>1, SuccType, Sizes DEF SetSeconds, Unknown
  <2> QED  BY <2>1, <2>2 DEF SetSeconds, readVars, windVars, gustVars, countVars
<1>7. CASE \E interval \in Intervals : IntervalCommand(interval)
  <2>1. PICK interval \in Intervals : IntervalCommand(interval)
    BY <1>7
  <2>2. interval \in Nat
    BY TimerAssumption DEF TimerAssumption
  <2> QED  BY <2>1, <2>2 DEF IntervalCommand, SetTimerInterval, clockVars, readVars, windVars,
                             gustVars
<1>8. CASE \E newMode \in {"awake", "deep"}, interval \in Intervals : EnterMode(newMode, interval)
  <2>1. PICK newMode \in {"awake", "deep"}, interval \in Intervals : EnterMode(newMode, interval)
    BY <1>8
  <2>2. interval \in Nat
    BY TimerAssumption DEF TimerAssumption
  <2>3. age' \in 0..Unknown
    BY <2>1, Sizes DEF EnterMode, Unknown
  <2> QED  BY <2>1, <2>2, <2>3 DEF EnterMode, SetTimerInterval, clockVars, readVars, windVars,
                                   gustVars
<1>9. CASE TakeWeather
  BY <1>9 DEF TakeWeather, clockVars, readVars, windVars, gustVars, countVars
<1>10. CASE ReportSpeed
  BY <1>10 DEF ReportSpeed, clockVars, readVars, windVars, gustVars, countVars
<1>11. CASE ReportGust
  BY <1>11, Sizes DEF ReportGust, clockVars, readVars, windVars, countVars, None
<1>12. CASE UNCHANGED vars
  BY <1>12 DEF vars, clockVars, readVars, windVars, gustVars, countVars
<1> QED  BY <1>1, <1>2, <1>3, <1>4, <1>5, <1>6, <1>7, <1>8, <1>9, <1>10, <1>11, <1>12 DEF Next

-----------------------------------------------------------------------------
(* The clock.                                                              *)

\* What leaves the timer and the readings alone keeps what is said of them.
LEMMA ClockUnchanged ==
  ASSUME ClockInv, ReadingInv, UNCHANGED <<top, clockVars, reader, readVars, late>>
  PROVE  ClockInv' /\ ReadingInv'
BY DEF ClockInv, ReadingInv, clockVars, readVars, Succ

\* The end of a reading leaves nothing to be said of it.
LEMMA ClockReturn ==
  ASSUME ClockInv, UNCHANGED clockVars, Return
  PROVE  ClockInv' /\ ReadingInv'
BY DEF ClockInv, ReadingInv, clockVars, Return, Succ

LEMMA ClockCount ==
  ASSUME TypeOK, ClockInv, ReadingInv, Count
  PROVE  ClockInv' /\ ReadingInv'
<1> USE DEF TypeOK
<1>1. UNCHANGED <<top, ticks, reader, m, t, at>> /\ late' = (reader # "nobody")
  BY DEF Count, readVars
<1>2. top \in Nat /\ top >= Limit /\ Held \in Nat /\ Held < Limit /\ Limit \in Nat
  BY Sizes
<1>3. CASE tcnt = top
  <2>1. tcnt' = 0 /\ pending' = TRUE /\ periods' = Succ(periods)
    BY <1>3 DEF Count
  <2>2. pending = FALSE
    BY <1>2, <1>3 DEF Count
  <2>3. periods = ticks
    BY <2>2 DEF ClockInv
  <2>4. ClockInv'
    BY <1>1, <1>2, <2>1, <2>3 DEF ClockInv, Succ
  <2>5. ASSUME reader # "nobody"
        PROVE  /\ m = ticks /\ at = m /\ at = periods /\ t = top
               /\ late' = TRUE
    <3>1. late = FALSE
      BY <2>5 DEF Count
    <3>2. m = ticks /\ tcnt = t /\ at = periods
      BY <2>5, <3>1 DEF ReadingInv
    <3> QED  BY <1>1, <1>3, <2>3, <2>5, <3>2
  <2>6. ReadingInv'
    BY <1>1, <2>1, <2>5 DEF ReadingInv
  <2> QED  BY <2>4, <2>6
<1>4. CASE tcnt # top
  <2>1. tcnt' = tcnt + 1 /\ pending' = pending /\ periods' = periods
    BY <1>4 DEF Count
  <2>2. pending => tcnt' <= Held
    BY <1>2, <2>1 DEF Count
  <2>3. ClockInv'
    BY <1>1, <2>1, <2>2 DEF ClockInv, Succ
  <2>4. ASSUME reader # "nobody"
        PROVE  /\ m = ticks /\ at = periods /\ t = tcnt /\ t # top /\ late' = TRUE
               /\ \/ at = m /\ ~pending
                  \/ at = m /\ pending /\ t = top
                  \/ at = Succ(m) /\ pending /\ t <= Held
    <3>1. late = FALSE
      BY <2>4 DEF Count
    <3>2. m = ticks /\ tcnt = t /\ at = periods
      BY <2>4, <3>1 DEF ReadingInv
    <3> QED  BY <1>1, <1>4, <2>4, <3>2 DEF ReadingInv
  <2>5. ReadingInv'
    BY <1>1, <2>1, <2>4 DEF ReadingInv, Succ
  <2> QED  BY <2>3, <2>5
<1> QED  BY <1>3, <1>4

LEMMA ClockStep ==
  ASSUME IInv, [Next]_vars
  PROVE  ClockInv' /\ ReadingInv'
<1>0. TypeOK /\ ClockInv /\ ReadingInv
  BY DEF IInv
<1>1. CASE Count
  BY <1>0, <1>1, ClockCount
<1>2. CASE TimerInterrupt
  BY <1>0, <1>2 DEF TimerInterrupt, ClockInv, ReadingInv
<1>3. CASE \E who \in {"program", "countWind"} : BeginReading(who)
  <2>1. PICK who \in {"program", "countWind"} : BeginReading(who)
    BY <1>3
  <2>2. /\ UNCHANGED <<top, tcnt, pending, ticks, periods>>
        /\ reader' # "nobody" /\ late' = FALSE
        /\ m' = ticks /\ t' = tcnt /\ at' = periods
    BY <2>1 DEF BeginReading, clockVars
  <2>3. ClockInv'
    BY <1>0, <2>2 DEF ClockInv, Succ
  <2>4. ReadingInv'
    BY <1>0, <2>2 DEF ClockInv, ReadingInv, Succ
  <2> QED  BY <2>3, <2>4
<1>4. CASE EndReading
  BY <1>0, <1>4, ClockReturn DEF EndReading
<1>5. CASE CountWind
  BY <1>0, <1>5, ClockReturn DEF CountWind, clockVars
<1>6. CASE \E value \in 0..(Word - 1) : SetSeconds(value)
  BY <1>0, <1>6 DEF SetSeconds, ClockInv, ReadingInv, Succ
<1>7. CASE \E interval \in Intervals : IntervalCommand(interval)
  BY <1>0, <1>7, ClockUnchanged DEF IntervalCommand
<1>8. CASE \E newMode \in {"awake", "deep"}, interval \in Intervals : EnterMode(newMode, interval)
  BY <1>0, <1>8, ClockUnchanged DEF EnterMode
<1>9. CASE TakeWeather
  BY <1>0, <1>9, ClockUnchanged DEF TakeWeather
<1>10. CASE ReportSpeed
  BY <1>0, <1>10, ClockUnchanged DEF ReportSpeed
<1>11. CASE ReportGust
  BY <1>0, <1>11, ClockUnchanged DEF ReportGust
<1>12. CASE UNCHANGED vars
  BY <1>0, <1>12, ClockUnchanged DEF vars
<1> QED  BY <1>1, <1>2, <1>3, <1>4, <1>5, <1>6, <1>7, <1>8, <1>9, <1>10, <1>11, <1>12 DEF Next

\* A period that is pending is added exactly when it ended before the reading.
LEMMA Exact ==
  ASSUME TypeOK, ReadingInv
  PROVE  MillisExact
<1>1. SUFFICES ASSUME reader # "nobody"
               PROVE  Ticks = at
  BY DEF MillisExact, Millis
<1>2. top \in Nat /\ top >= Limit /\ Held \in Nat /\ Held < Limit /\ Limit \in Nat
  BY Sizes DEF TypeOK
<1>3. CASE at = m /\ ~pending
  BY <1>3 DEF Ticks
<1>4. CASE at = m /\ pending /\ t = top
  BY <1>2, <1>4 DEF Ticks
<1>5. CASE at = Succ(m) /\ pending /\ t <= Held
  BY <1>2, <1>5 DEF Ticks, TypeOK
<1> QED  BY <1>1, <1>3, <1>4, <1>5 DEF ReadingInv

-----------------------------------------------------------------------------
(* The turns of an interval.                                               *)

LEMMA CountUnchanged ==
  ASSUME CountInv, SpeedOfInterval, UNCHANGED <<countVars, stored>>
  PROVE  CountInv' /\ SpeedOfInterval'
BY DEF CountInv, SpeedOfInterval, countVars

LEMMA CountSet ==
  ASSUME NEW interval \in Intervals, SetTimerInterval(interval)
  PROVE  CountInv' /\ SpeedOfInterval'
<1>1. interval \in Nat
  BY TimerAssumption DEF TimerAssumption
<1> QED  BY <1>1 DEF SetTimerInterval, CountInv, SpeedOfInterval

LEMMA CountStep ==
  ASSUME IInv, [Next]_vars
  PROVE  CountInv' /\ SpeedOfInterval'
<1>0. TypeOK /\ CountInv /\ SpeedOfInterval
  BY DEF IInv
<1>1. CASE Count
  BY <1>0, <1>1, CountUnchanged DEF Count
<1>2. CASE TimerInterrupt
  <2>1. CountTick /\ requiredTicks' = requiredTicks
    BY <1>2 DEF TimerInterrupt
  <2>2. CASE tickCounts + 1 >= requiredTicks
    BY <1>0, <2>1, <2>2 DEF CountTick, CountInv, SpeedOfInterval, TypeOK
  <2>3. CASE ~(tickCounts + 1 >= requiredTicks)
    <3>1. /\ tickCounts' = tickCounts + 1 /\ counted' = counted + 1
          /\ UNCHANGED <<stored, changed>>
      BY <2>1, <2>3 DEF CountTick
    <3>2. CountInv'
      BY <1>0, <2>1, <2>3, <3>1 DEF CountInv, TypeOK
    <3>3. SpeedOfInterval'
      BY <1>0, <2>1, <3>1 DEF SpeedOfInterval
    <3> QED  BY <3>2, <3>3
  <2> QED  BY <2>2, <2>3
<1>3. CASE \E who \in {"program", "countWind"} : BeginReading(who)
  BY <1>0, <1>3, CountUnchanged DEF BeginReading
<1>4. CASE EndReading
  BY <1>0, <1>4, CountUnchanged DEF EndReading
<1>5. CASE CountWind
  BY <1>0, <1>5, CountUnchanged DEF CountWind
<1>6. CASE \E value \in 0..(Word - 1) : SetSeconds(value)
  BY <1>0, <1>6, CountUnchanged DEF SetSeconds
<1>7. CASE \E interval \in Intervals : IntervalCommand(interval)
  BY <1>7, CountSet DEF IntervalCommand
<1>8. CASE \E newMode \in {"awake", "deep"}, interval \in Intervals : EnterMode(newMode, interval)
  BY <1>8, CountSet DEF EnterMode
<1>9. CASE TakeWeather
  BY <1>0, <1>9, CountUnchanged DEF TakeWeather
<1>10. CASE ReportSpeed
  BY <1>0, <1>10 DEF ReportSpeed, countVars, CountInv, SpeedOfInterval
<1>11. CASE ReportGust
  BY <1>0, <1>11, CountUnchanged DEF ReportGust
<1>12. CASE UNCHANGED vars
  BY <1>0, <1>12, CountUnchanged DEF vars
<1> QED  BY <1>1, <1>2, <1>3, <1>4, <1>5, <1>6, <1>7, <1>8, <1>9, <1>10, <1>11, <1>12 DEF Next

-----------------------------------------------------------------------------
(* Gusts.                                                                  *)

LEMMA GustUnchanged ==
  ASSUME GustInv, GustIsReal, late' => late,
         UNCHANGED <<top, tcnt, periods, gustTickMillis, age, minInterval, shortest>>
  PROVE  GustInv' /\ GustIsReal'
BY DEF GustInv, GustIsReal, Now, Since

\* One count later the time in 16 bits is one more.
LEMMA NowLater ==
  ASSUME TypeOK, Count
  PROVE  Now' = (Now + 1) % Short
<1>1. top' = top /\ top \in Tops /\ periods \in 0..(Word - 1) /\ tcnt \in 0..top /\ top \in Nat
  BY Sizes DEF Count, TypeOK
<1>2. CASE tcnt = top
  <2>1. tcnt' = 0 /\ periods' = Succ(periods)
    BY <1>2 DEF Count
  <2> QED  BY <1>1, <1>2, <2>1, TimeGoesOn DEF Now
<1>3. CASE tcnt < top
  <2>1. tcnt' = tcnt + 1 /\ periods' = periods
    BY <1>1, <1>3 DEF Count
  <2> QED  BY <1>1, <1>3, <2>1, TimeGoesOn DEF Now
<1> QED  BY <1>1, <1>2, <1>3

LEMMA GustCount ==
  ASSUME TypeOK, GustInv, GustIsReal, Count
  PROVE  GustInv' /\ GustIsReal'
<1>1. UNCHANGED <<gustTickMillis, minInterval, shortest>>
  BY DEF Count, windVars, gustVars
<1>2. age' = Lesser(age + 1, Unknown)
  BY DEF Count
<1>3. age \in Nat /\ Short \in Nat \ {0}
  BY Sizes DEF TypeOK, Unknown
<1>4. late' => age' > 0
  BY <1>2, <1>3 DEF Lesser, Unknown
<1>5. ASSUME age' < Unknown
      PROVE  Since(gustTickMillis, Now') = age'
  <2>1. age + 1 < Short /\ age' = age + 1
    BY <1>2, <1>3, <1>5 DEF Lesser, Unknown
  <2>2. Since(gustTickMillis, Now) = age
    BY <1>3, <2>1 DEF GustInv, Unknown
  <2>3. gustTickMillis \in 0..(Short - 1) /\ Now \in 0..(Short - 1)
    BY NowType DEF TypeOK
  <2>4. Since(gustTickMillis, (Now + 1) % Short) = age + 1
    BY <1>3, <2>1, <2>2, <2>3, SinceLater
  <2> QED  BY <2>1, <2>4, NowLater
<1>6. Since(gustTickMillis, Now)' = Since(gustTickMillis, Now')
  BY <1>1 DEF Since
<1>7. GustInv'
  BY <1>4, <1>5, <1>6 DEF GustInv, Unknown
<1>8. GustIsReal'
  BY <1>1 DEF GustIsReal, Unknown
<1> QED  BY <1>7, <1>8

\* The time of a turn is the time, or one less if it has passed meanwhile.
LEMMA ReadNow ==
  ASSUME TypeOK, ClockInv, ReadingInv, reader # "nobody"
  PROVE  Now = IF late THEN ((Millis % Short) + 1) % Short ELSE Millis % Short
<1>1. Millis = at * (top + 1) + t
  BY Exact DEF MillisExact
<1>2. top \in Tops /\ at \in 0..(Word - 1) /\ t \in 0..top /\ top \in Nat /\ top > Held
  BY Sizes DEF TypeOK
<1>3. CASE ~late
  <2>1. tcnt = t /\ at = periods
    BY <1>3 DEF ReadingInv
  <2> QED  BY <1>1, <1>3, <2>1 DEF Now
<1>4. CASE late
  <2>1. CASE t = top
    <3>1. tcnt = 0 /\ periods = Succ(at)
      BY <1>4, <2>1 DEF ReadingInv
    <3>2. (Succ(at) * (top + 1) + 0) % Short = (((at * (top + 1) + t) % Short) + 1) % Short
      BY <1>2, <2>1, TimeGoesOn
    <3> QED  BY <1>1, <1>4, <3>1, <3>2 DEF Now
  <2>2. CASE t # top
    <3>1. tcnt = t + 1 /\ periods = at
      BY <1>4, <2>2 DEF ReadingInv
    <3>2. t < top
      BY <1>2, <2>2
    <3>3. (at * (top + 1) + (t + 1)) % Short = (((at * (top + 1) + t) % Short) + 1) % Short
      BY <1>2, <3>2, TimeGoesOn
    <3>4. Now = (at * (top + 1) + (t + 1)) % Short
      BY <3>1 DEF Now
    <3> QED  BY <1>1, <1>4, <3>3, <3>4
  <2> QED  BY <2>1, <2>2
<1> QED  BY <1>3, <1>4

LEMMA GustWind ==
  ASSUME TypeOK, ClockInv, ReadingInv, GustInv, GustIsReal, CountWind
  PROVE  GustInv' /\ GustIsReal'
<1> DEFINE now == Millis % Short
           since == IF late THEN 1 ELSE 0
<1>1. UNCHANGED <<top, tcnt, periods>> /\ late' = FALSE /\ reader # "nobody"
  BY DEF CountWind, Return, clockVars
<1>2. Now' = Now
  BY <1>1 DEF Now
<1>3. now \in 0..(Short - 1) /\ Now \in 0..(Short - 1)
  BY MillisType, NowType
<1>4. Now = IF late THEN (now + 1) % Short ELSE now
  BY <1>1, ReadNow
<1> HIDE DEF now
<1>5. CASE Counts(now) /\ gustCount = 0
  <2>1. /\ minInterval' = Lesser(Since(gustTickMillis, now), minInterval)
        /\ gustTickMillis' = now
        /\ age' = since
        /\ shortest' = IF Unknown \in {age, shortest} THEN Unknown ELSE Lesser(age - since, shortest)
    BY <1>5 DEF CountWind, NoteGust, NoteTime, now
  <2>2. age' < Unknown => Since(now, Now) = age'
    <3>1. Since(now, now) = 0
      BY <1>3, SinceIs
    <3>2. CASE late
      <4>1. Since(now, (now + 1) % Short) = IF 0 + 1 = Short THEN 0 ELSE 0 + 1
        BY <1>3, <3>1, SinceLater
      <4> QED  BY <1>4, <2>1, <3>2, <4>1, Sizes DEF Unknown
    <3>3. CASE ~late
      BY <1>4, <2>1, <3>1, <3>3
    <3> QED  BY <3>2, <3>3
  <2>3. GustInv'
    <3>1. Since(gustTickMillis, Now)' = Since(now, Now)
      BY <1>2, <2>1 DEF Since
    <3> QED  BY <1>1, <2>2, <3>1 DEF GustInv, Unknown
  <2>4. ASSUME age # Unknown
        PROVE  Since(gustTickMillis, now) = age - since
    <3>1. age \in Nat /\ age < Short /\ Since(gustTickMillis, Now) = age
      BY <2>4, Sizes DEF TypeOK, GustInv, Unknown
    <3>2. CASE late
      <4>1. age > 0
        BY <3>2 DEF GustInv
      <4>2. /\ Since(gustTickMillis, now) \in 0..(Short - 1)
            /\ Since(gustTickMillis, Now) = IF Since(gustTickMillis, now) + 1 = Short THEN 0
                                            ELSE Since(gustTickMillis, now) + 1
        BY <1>3, <1>4, <3>2, SinceLater DEF TypeOK
      <4> QED  BY <3>1, <3>2, <4>1, <4>2, Sizes
    <3>3. CASE ~late
      BY <1>4, <3>1, <3>3
    <3> QED  BY <3>2, <3>3
  <2>5. GustIsReal'
    BY <2>1, <2>4 DEF GustIsReal, Unknown
  <2> QED  BY <2>3, <2>5
<1>6. CASE ~(Counts(now) /\ gustCount = 0)
  <2>1. UNCHANGED <<gustTickMillis, minInterval, age, shortest>>
    BY <1>6 DEF CountWind, NoteGust, NoteTime, windVars, gustVars, now
  <2> QED  BY <1>1, <2>1, GustUnchanged
<1> QED  BY <1>5, <1>6

LEMMA GustStep ==
  ASSUME IInv, [Next]_vars
  PROVE  GustInv' /\ GustIsReal'
<1>0. TypeOK /\ ClockInv /\ ReadingInv /\ GustInv /\ GustIsReal
  BY DEF IInv
<1>1. CASE Count
  BY <1>0, <1>1, GustCount
<1>2. CASE TimerInterrupt
  BY <1>0, <1>2, GustUnchanged DEF TimerInterrupt, windVars, gustVars
<1>3. CASE \E who \in {"program", "countWind"} : BeginReading(who)
  BY <1>0, <1>3, GustUnchanged DEF BeginReading, clockVars, windVars, gustVars
<1>4. CASE EndReading
  BY <1>0, <1>4, GustUnchanged DEF EndReading, Return, clockVars, windVars, gustVars
<1>5. CASE CountWind
  BY <1>0, <1>5, GustWind
<1>6. CASE \E value \in 0..(Word - 1) : SetSeconds(value)
  <2>1. age' = Unknown /\ late' = late /\ UNCHANGED gustVars /\ reader = "nobody"
    BY <1>6 DEF SetSeconds
  <2>2. Unknown \in Nat \ {0} /\ ~late
    BY <1>0, <2>1, Sizes DEF Unknown, ClockInv
  <2> QED  BY <1>0, <2>1, <2>2 DEF GustInv, GustIsReal, gustVars, Unknown
<1>7. CASE \E interval \in Intervals : IntervalCommand(interval)
  BY <1>0, <1>7, GustUnchanged DEF IntervalCommand, clockVars, windVars, gustVars
<1>8. CASE \E newMode \in {"awake", "deep"}, interval \in Intervals : EnterMode(newMode, interval)
  <2>1. /\ age' \in {age, Unknown} /\ late' = late /\ reader = "nobody"
        /\ UNCHANGED <<top, tcnt, periods, gustTickMillis, minInterval, shortest>>
    BY <1>8 DEF EnterMode, clockVars, windVars, gustVars
  <2>2. Unknown \in Nat \ {0} /\ ~late
    BY <1>0, <2>1, Sizes DEF Unknown, ClockInv
  <2>3. CASE age' = Unknown
    BY <1>0, <2>1, <2>2, <2>3 DEF GustInv, GustIsReal, Unknown
  <2>4. CASE age' = age
    BY <1>0, <2>1, <2>4, GustUnchanged
  <2> QED  BY <2>1, <2>3, <2>4
<1>9. CASE TakeWeather
  BY <1>0, <1>9, GustUnchanged DEF TakeWeather, clockVars, windVars, gustVars
<1>10. CASE ReportSpeed
  BY <1>0, <1>10, GustUnchanged DEF ReportSpeed, clockVars, windVars, gustVars
<1>11. CASE ReportGust
  BY <1>0, <1>11 DEF ReportGust, clockVars, windVars, GustInv, GustIsReal, Now, Since, Unknown
<1>12. CASE UNCHANGED vars
  BY <1>0, <1>12, GustUnchanged DEF vars, clockVars, windVars, gustVars
<1> QED  BY <1>1, <1>2, <1>3, <1>4, <1>5, <1>6, <1>7, <1>8, <1>9, <1>10, <1>11, <1>12 DEF Next

-----------------------------------------------------------------------------
(* The theorems.                                                           *)

\* The invariant that the others follow from: ticks and what is pending make up
\* the periods there were, and times in 16 bits are the times that fit.
THEOREM Invariance == Spec => []IInv
<1>1. Init => IInv
  BY InitInv
<1>2. IInv /\ [Next]_vars => IInv'
  <2> SUFFICES ASSUME IInv, [Next]_vars
               PROVE  IInv'
    OBVIOUS
  <2> QED  BY TypeStep, ClockStep, CountStep, GustStep DEF IInv
<1> QED  BY <1>1, <1>2, PTL DEF Spec

\* Types and bounds.
THEOREM TypeCorrect == Spec => []TypeOK
<1>1. IInv => TypeOK
  BY DEF IInv
<1> QED  BY <1>1, Invariance, PTL

\* millis() tells the time when it read the timer, whenever the timer's
\* interrupt is due.
THEOREM TimeExact == Spec => []MillisExact
<1>1. IInv => MillisExact
  BY Exact DEF IInv
<1> QED  BY <1>1, Invariance, PTL

\* A reported gust is the shortest time of a group of turns since the last
\* report, if the time fits and the clock was not set.
THEOREM GustsReal == Spec => []GustIsReal
<1>1. IInv => GustIsReal
  BY DEF IInv
<1> QED  BY <1>1, Invariance, PTL

\* The turns of a report were counted for the interval that they are divided
\* by, unless that was changed in between.
THEOREM SpeedsRight == Spec => []SpeedOfInterval
<1>1. IInv => SpeedOfInterval
  BY DEF IInv
<1> QED  BY <1>1, Invariance, PTL
=============================================================================
