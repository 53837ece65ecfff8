----------------------------- MODULE ClockProofs -----------------------------
(***************************************************************************)
(* Proofs about Clock: a tick is one second on every legal value of the    *)
(* registers, advancing by any number of seconds adds that number, and the *)
(* clock of a running game follows the time.                               *)
(*                                                                         *)
(* Ticks(r, n) is a recursive function. What it computes for every n is    *)
(* proved by looking at the least n for which it would be wrong, which     *)
(* exists because < is well founded on the natural numbers.                *)
(***************************************************************************)
EXTENDS Clock, WellFoundedInduction, FiniteSetTheorems, TLAPS

-----------------------------------------------------------------------------
(* Arithmetic.                                                             *)

\* Every set of natural numbers has a least element.
LEMMA LeastNumber ==
  ASSUME NEW S, S \subseteq Nat, S # {}
  PROVE  \E n \in S : \A k \in S : ~ (k < n)
<1>1. IsWellFoundedOn(OpToRel(<, Nat), Nat)
  BY NatLessThanWellFounded
<1>2. PICK n \in S : \A k \in S : <<k, n>> \notin OpToRel(<, Nat)
  <2> HIDE DEF OpToRel
  <2> QED BY <1>1, WFMin
<1>3. ASSUME NEW k \in S, k < n PROVE FALSE
  <2>1. <<k, n>> \in OpToRel(<, Nat)
    BY <1>3, Zenon DEF OpToRel
  <2> QED
    BY <2>1, <1>2
<1> QED
  BY <1>3

\* A set that holds zero and with each number the next holds every number.
LEMMA SetInduction ==
  ASSUME NEW S, 0 \in S, \A n \in Nat : n \in S => n + 1 \in S
  PROVE  Nat \subseteq S
<1> DEFINE Missing == {n \in Nat : n \notin S}
<1>1. SUFFICES ASSUME Missing # {} PROVE FALSE
  OBVIOUS
<1>2. PICK n \in Missing : \A k \in Missing : ~ (k < n)
  <2>1. Missing \subseteq Nat
    OBVIOUS
  <2> HIDE DEF Missing
  <2> QED
    BY <1>1, <2>1, LeastNumber
<1>3. n \in Nat /\ n # 0
  OBVIOUS
<1>4. n - 1 \in Nat /\ n - 1 < n /\ n = (n - 1) + 1
  BY <1>3
<1>5. n - 1 \in S
  BY <1>2, <1>4
<1> QED
  BY <1>4, <1>5

\* Quotient and remainder of the next number.
LEMMA NextQuotient ==
  ASSUME NEW x \in Nat, NEW m \in Nat \ {0}
  PROVE  IF (x % m) + 1 < m
         THEN (x + 1) \div m = (x \div m) /\ (x + 1) % m = (x % m) + 1
         ELSE (x + 1) \div m = (x \div m) + 1 /\ (x + 1) % m = 0
  BY SMT

LEMMA SmallRemainder ==
  ASSUME NEW m \in Nat \ {0}, NEW x \in Nat, x < m
  PROVE  x \div m = 0 /\ x % m = x
  BY SMT

LEMMA DifferenceOfSum ==
  ASSUME NEW a \in Nat, NEW b \in Nat, NEW sum, sum = a + b
  PROVE  b <= sum /\ sum - b = a
  OBVIOUS

LEMMA AddZero == \A a \in Nat : a + 0 = a
  OBVIOUS

\* The remainder of a sum may be taken before the sum.
LEMMA AddInPeriod ==
  ASSUME NEW x \in Nat, NEW y \in Nat
  PROVE  ((x % Period) + y) % Period = (x + y) % Period
  BY SMT DEF Period

-----------------------------------------------------------------------------
(* The registers.                                                          *)

\* A register that is given a value of its width leaves them registers.
LEMMA FieldsSet ==
  ASSUME NEW r \in Registers, NEW s, NEW v
  PROVE  /\ s = [r EXCEPT !.seconds = v] /\ v \in 0 .. 63 => s \in Registers
         /\ s = [r EXCEPT !.minutes = v] /\ v \in 0 .. 63 => s \in Registers
         /\ s = [r EXCEPT !.hours = v] /\ v \in 0 .. 31 => s \in Registers
         /\ s = [r EXCEPT !.days = v] /\ v \in 0 .. 255 => s \in Registers
         /\ s = [r EXCEPT !.daysHigh = v] /\ v \in 0 .. 1 => s \in Registers
         /\ s = [r EXCEPT !.carry = v] /\ v \in 0 .. 1 => s \in Registers
         /\ s = [r EXCEPT !.halt = v] /\ v \in 0 .. 1 => s \in Registers
  BY DEF Registers

LEMMA SecondsType ==
  ASSUME NEW r \in Registers
  PROVE  Seconds(r) \in Nat /\ Legal(r) \in BOOLEAN
<1>1. r.seconds \in Nat /\ r.minutes \in Nat /\ r.hours \in Nat
      /\ r.days \in Nat /\ r.daysHigh \in Nat
  BY DEF Registers
<1> QED
  BY <1>1 DEF Seconds, Legal

\* What legal registers show is less than the period.
LEMMA SecondsBelowPeriod ==
  ASSUME NEW r \in Registers, Legal(r)
  PROVE  Seconds(r) \in Nat /\ Seconds(r) < Period
<1>1. /\ r.seconds \in Nat /\ r.minutes \in Nat /\ r.hours \in Nat
      /\ r.days \in Nat /\ r.daysHigh \in Nat
      /\ r.seconds <= 59 /\ r.minutes <= 59 /\ r.hours <= 23
      /\ r.days <= 255 /\ r.daysHigh <= 1
  BY DEF Registers, Legal
<1>2. Period = 44236800
  BY DEF Period
<1> QED
  BY <1>1, <1>2 DEF Seconds

\* A number below the period is its own remainder.
LEMMA BelowPeriod ==
  ASSUME NEW a \in Nat, a < Period
  PROVE  a % Period = a
  BY DEF Period

\* The next day, at midnight: the days roll over in eight bits, then one.
LEMMA DayCounts ==
  ASSUME NEW r \in Registers
  PROVE  /\ DayTick(r) \in Registers
         /\ DayTick(r).halt = r.halt
         /\ DayTick(r).seconds = r.seconds
         /\ DayTick(r).minutes = r.minutes
         /\ DayTick(r).hours = 0
         /\ 86400 * (DayTick(r).days + 256 * DayTick(r).daysHigh)
              = (86400 * (r.days + 256 * r.daysHigh) + 86400) % Period
<1> DEFINE d == DayTick(r)
           days == (r.days + 1) % 256
<1>1. /\ r.seconds \in 0 .. 63 /\ r.minutes \in 0 .. 63 /\ r.hours \in 0 .. 31
      /\ r.days \in 0 .. 255 /\ r.daysHigh \in 0 .. 1
      /\ r.carry \in 0 .. 1 /\ r.halt \in 0 .. 1
  BY DEF Registers
<1>2. IF r.days = 255 THEN days = 0 ELSE days = r.days + 1 /\ days \in 1 .. 255
  BY <1>1
<1>3. d = [[[[r EXCEPT !.hours = 0] EXCEPT !.days = days]
              EXCEPT !.carry = IF days = 0 /\ r.daysHigh = 1 THEN 1 ELSE r.carry]
              EXCEPT !.daysHigh = IF days = 0 THEN 1 - r.daysHigh ELSE r.daysHigh]
  BY Zenon DEF DayTick
<1> HIDE DEF d, days
<1>4. /\ d.seconds = r.seconds /\ d.minutes = r.minutes /\ d.hours = 0
      /\ d.days = days /\ d.halt = r.halt
      /\ d.daysHigh = IF days = 0 THEN 1 - r.daysHigh ELSE r.daysHigh
  BY <1>3 DEF Registers
<1>5. d \in Registers
  <2> DEFINE carry == IF days = 0 /\ r.daysHigh = 1 THEN 1 ELSE r.carry
             high == IF days = 0 THEN 1 - r.daysHigh ELSE r.daysHigh
             a == [r EXCEPT !.hours = 0]
             b == [a EXCEPT !.days = days]
             c == [b EXCEPT !.carry = carry]
  <2>1. days \in 0 .. 255 /\ carry \in 0 .. 1 /\ high \in 0 .. 1
    BY <1>1, <1>2
  <2>2. d = [c EXCEPT !.daysHigh = high]
    BY <1>3
  <2> HIDE DEF carry, high
  <2>3. a \in Registers
    BY FieldsSet
  <2> HIDE DEF a
  <2>4. b \in Registers
    BY <2>1, <2>3, FieldsSet
  <2> HIDE DEF b
  <2>5. c \in Registers
    BY <2>1, <2>4, FieldsSet
  <2> HIDE DEF c
  <2> QED
    BY <2>1, <2>2, <2>5, FieldsSet
<1>6. 86400 * (d.days + 256 * d.daysHigh)
        = (86400 * (r.days + 256 * r.daysHigh) + 86400) % Period
  <2>1. CASE r.days # 255
    BY <1>1, <1>2, <1>4, <2>1 DEF Period
  <2>2. CASE r.days = 255 /\ r.daysHigh = 0
    BY <1>2, <1>4, <2>2 DEF Period
  <2>3. CASE r.days = 255 /\ r.daysHigh = 1
    BY <1>2, <1>4, <2>3 DEF Period
  <2> QED
    BY <1>1, <2>1, <2>2, <2>3
<1> QED
  BY <1>4, <1>5, <1>6 DEF d

\* Legal registers stay legal in a tick and show one second more; whatever
\* they held before, they keep their widths.
LEMMA TickCounts ==
  ASSUME NEW r \in Registers
  PROVE  /\ processTick(r) \in Registers
         /\ processTick(r).halt = r.halt
         /\ Legal(r) => /\ Legal(processTick(r))
                        /\ Seconds(processTick(r)) = (Seconds(r) + 1) % Period
<1> DEFINE t == processTick(r)
           zero == [r EXCEPT !.seconds = 0]
           hour == [zero EXCEPT !.minutes = 0]
<1>1. /\ r.seconds \in 0 .. 63 /\ r.minutes \in 0 .. 63 /\ r.hours \in 0 .. 31
      /\ r.days \in 0 .. 255 /\ r.daysHigh \in 0 .. 1
      /\ r.carry \in 0 .. 1 /\ r.halt \in 0 .. 1
  BY DEF Registers
<1>0. r.seconds \in Nat /\ r.minutes \in Nat /\ r.hours \in Nat
      /\ r.days \in Nat /\ r.daysHigh \in Nat
  BY <1>1
<1>2. zero \in Registers /\ hour \in Registers
  <2>1. zero \in Registers
    BY FieldsSet
  <2> HIDE DEF zero
  <2> QED
    BY <2>1, FieldsSet
<1>3. CASE (r.seconds + 1) % 64 # 60
  <2>1. t = [r EXCEPT !.seconds = (r.seconds + 1) % 64]
    BY <1>3, Zenon DEF processTick
  <2>2. t \in Registers /\ t.halt = r.halt
    BY <1>1, <2>1 DEF Registers
  <2>3. ASSUME Legal(r)
        PROVE  Legal(t) /\ Seconds(t) = (Seconds(r) + 1) % Period
    <3>1. r.seconds < 59 /\ r.minutes < 60 /\ r.hours < 24
      BY <1>1, <1>3, <2>3 DEF Legal
    <3>2. (r.seconds + 1) % 64 = r.seconds + 1
      BY <1>1, <3>1
    <3>3. /\ t.seconds = r.seconds + 1 /\ t.minutes = r.minutes
          /\ t.hours = r.hours /\ t.days = r.days /\ t.daysHigh = r.daysHigh
      BY <2>1, <3>2 DEF Registers
    <3>4. Legal(t) /\ Seconds(t) = Seconds(r) + 1
      <4> HIDE DEF t
      <4>1. Legal(t)
        BY <1>1, <3>1, <3>3 DEF Legal
      <4>2. Seconds(t) = Seconds(r) + 1
        BY <1>0, <3>3 DEF Seconds
      <4> QED
        BY <4>1, <4>2
    <3>5. Seconds(t) \in Nat /\ Seconds(t) < Period
      BY <2>2, <3>4, SecondsBelowPeriod
    <3> QED
      BY <3>4, <3>5, BelowPeriod
  <2> QED
    BY <2>2, <2>3
<1>4. CASE (r.seconds + 1) % 64 = 60 /\ (zero.minutes + 1) % 64 # 60
  <2>1. t = MinuteTick(zero)
    BY <1>4, Zenon DEF processTick
  <2>2. zero.minutes = r.minutes /\ zero.hours = r.hours /\ zero.days = r.days
        /\ zero.daysHigh = r.daysHigh /\ zero.seconds = 0 /\ zero.halt = r.halt
    BY DEF Registers
  <2> DEFINE minute == [zero EXCEPT !.minutes = (zero.minutes + 1) % 64]
  <2>3. minute \in Registers /\ minute.halt = r.halt
    <3>1. (zero.minutes + 1) % 64 \in 0 .. 63
      BY <1>1, <2>2
    <3> HIDE DEF zero
    <3>2. minute \in Registers
      BY <1>2, <3>1, FieldsSet
    <3> QED
      BY <1>2, <2>2, <3>2 DEF Registers
  <2>4. CASE zero.hours = 24
    <3>1. t = DayTick(minute)
      BY <1>4, <2>1, <2>4, Zenon DEF MinuteTick
    <3>2. ~ Legal(r)
      BY <2>2, <2>4 DEF Legal
    <3> HIDE DEF t, minute
    <3> QED
      BY <2>3, <3>1, <3>2, DayCounts DEF t
  <2>5. CASE zero.hours # 24
    <3>1. t = minute
      BY <1>4, <2>1, <2>5, Zenon DEF MinuteTick
    <3>2. ASSUME Legal(r)
          PROVE  Legal(t) /\ Seconds(t) = (Seconds(r) + 1) % Period
      <4>1. r.seconds = 59 /\ r.minutes < 59 /\ r.hours < 24
        BY <1>1, <1>4, <2>2, <3>2 DEF Legal
      <4>2. (r.minutes + 1) % 64 = r.minutes + 1
        BY <1>1, <4>1
      <4>3. /\ t.seconds = 0 /\ t.minutes = r.minutes + 1
            /\ t.hours = r.hours /\ t.days = r.days /\ t.daysHigh = r.daysHigh
        BY <1>2, <2>2, <3>1, <4>2 DEF Registers
      <4>4. Legal(t) /\ Seconds(t) = Seconds(r) + 1
        <5> HIDE DEF t
        <5>1. Legal(t)
          BY <1>1, <4>1, <4>3 DEF Legal
        <5>2. Seconds(t) = Seconds(r) + 1
          BY <1>0, <4>1, <4>3 DEF Seconds
        <5> QED
          BY <5>1, <5>2
      <4>5. Seconds(t) \in Nat /\ Seconds(t) < Period
        BY <2>3, <3>1, <4>4, SecondsBelowPeriod
      <4> QED
        BY <4>4, <4>5, BelowPeriod
    <3> QED
      BY <2>3, <3>1, <3>2
  <2> QED
    BY <2>4, <2>5
<1>5. CASE (r.seconds + 1) % 64 = 60 /\ (zero.minutes + 1) % 64 = 60
  <2>1. t = HourTick(hour)
    BY <1>5, Zenon DEF processTick, MinuteTick
  <2>2. zero.minutes = r.minutes /\ hour.hours = r.hours /\ hour.days = r.days
        /\ hour.daysHigh = r.daysHigh /\ hour.seconds = 0 /\ hour.minutes = 0
        /\ hour.halt = r.halt
    BY DEF Registers
  <2>3. r.minutes = 59 /\ r.seconds = 59
    BY <1>1, <1>5, <2>2
  <2>4. CASE (hour.hours + 1) % 32 = 24
    <3>1. t = DayTick(hour)
      BY <2>1, <2>4, Zenon DEF HourTick
    <3>2. hour.hours = 23
      BY <1>1, <2>2, <2>4
    <3> HIDE DEF t, hour
    <3>3. /\ t \in Registers /\ t.halt = r.halt
          /\ t.seconds = 0 /\ t.minutes = 0 /\ t.hours = 0
          /\ 86400 * (t.days + 256 * t.daysHigh)
               = (86400 * (r.days + 256 * r.daysHigh) + 86400) % Period
      BY <1>2, <2>2, <3>1, DayCounts
    <3>4. t.days \in 0 .. 255 /\ t.daysHigh \in 0 .. 1
      BY <3>3 DEF Registers
    <3>5. Legal(t) /\ Seconds(t) = (Seconds(r) + 1) % Period
      BY <1>1, <2>2, <2>3, <3>2, <3>3, <3>4 DEF Legal, Seconds, Period
    <3> QED
      BY <3>3, <3>5 DEF t
  <2>5. CASE (hour.hours + 1) % 32 # 24
    <3>1. t = [hour EXCEPT !.hours = (hour.hours + 1) % 32]
      BY <2>1, <2>5, Zenon DEF HourTick
    <3>2. t \in Registers /\ t.halt = r.halt
      <4>1. (hour.hours + 1) % 32 \in 0 .. 31
        BY <1>1, <2>2
      <4> HIDE DEF hour, t
      <4>2. t \in Registers
        BY <1>2, <3>1, <4>1, FieldsSet
      <4> QED
        BY <1>2, <2>2, <3>1 , <4>2 DEF Registers
    <3>3. ASSUME Legal(r)
          PROVE  Legal(t) /\ Seconds(t) = (Seconds(r) + 1) % Period
      <4>1. r.hours < 23
        BY <1>1, <2>2, <2>5, <3>3 DEF Legal
      <4>2. (r.hours + 1) % 32 = r.hours + 1
        BY <1>1, <4>1
      <4>3. /\ t.seconds = 0 /\ t.minutes = 0 /\ t.hours = r.hours + 1
            /\ t.days = r.days /\ t.daysHigh = r.daysHigh
        BY <1>2, <2>2, <3>1, <4>2 DEF Registers
      <4>4. Legal(t) /\ Seconds(t) = Seconds(r) + 1
        <5> HIDE DEF t
        <5>1. Legal(t)
          BY <1>1, <2>3, <4>1, <4>3 DEF Legal
        <5>2. Seconds(t) = Seconds(r) + 1
          BY <1>0, <2>3, <4>3 DEF Seconds
        <5> QED
          BY <5>1, <5>2
      <4>5. Seconds(t) \in Nat /\ Seconds(t) < Period
        BY <3>2, <4>4, SecondsBelowPeriod
      <4> QED
        BY <4>4, <4>5, BelowPeriod
    <3> QED
      BY <3>2, <3>3
  <2> QED
    BY <2>4, <2>5
<1> QED
  BY <1>3, <1>4, <1>5

-----------------------------------------------------------------------------
(* Advancing.                                                              *)

\* The ticks of a run of n, one after the other.
Run(f, r, n) ==
  /\ f \in [0 .. n -> Registers]
  /\ f[0] = r
  /\ \A i \in 1 .. n : f[i] = processTick(f[i - 1])

\* There is such a run of every length.
LEMMA RunExists ==
  ASSUME NEW r \in Registers
  PROVE  \A n \in Nat : \E f : Run(f, r, n)
<1> DEFINE S == {n \in Nat : \E f : Run(f, r, n)}
<1>1. 0 \in S
  <2>1. Run([i \in 0 .. 0 |-> r], r, 0)
    BY DEF Run
  <2> QED
    BY <2>1
<1>2. ASSUME NEW n \in Nat, n \in S
      PROVE  n + 1 \in S
  <2>1. PICK f : Run(f, r, n)
    BY <1>2
  <2> DEFINE g == [i \in 0 .. n + 1 |-> IF i <= n THEN f[i]
                                                   ELSE processTick(f[n])]
  <2>2. \A i \in 0 .. n : f[i] \in Registers
    BY <2>1 DEF Run
  <2>3. processTick(f[n]) \in Registers
    BY <2>2, TickCounts
  <2>4. g \in [0 .. n + 1 -> Registers]
    BY <2>2, <2>3
  <2>5. g[0] = r
    BY <2>1 DEF Run
  <2>6. ASSUME NEW i \in 1 .. n + 1
        PROVE  g[i] = processTick(g[i - 1])
    <3>1. CASE i <= n
      <4>1. i \in 1 .. n /\ i - 1 \in 0 .. n + 1 /\ i - 1 <= n
        BY <3>1
      <4>2. g[i] = f[i] /\ g[i - 1] = f[i - 1]
        BY <3>1, <4>1
      <4> QED
        BY <2>1, <4>1, <4>2 DEF Run
    <3>2. CASE ~ (i <= n)
      <4>1. i = n + 1 /\ i - 1 = n /\ n \in 0 .. n + 1
        BY <3>2
      <4>2. g[i] = processTick(f[n]) /\ g[n] = f[n]
        BY <3>2, <4>1
      <4> QED
        BY <4>1, <4>2
    <3> QED
      BY <3>1, <3>2
  <2>7. Run(g, r, n + 1)
    <3> HIDE DEF g
    <3> QED
      BY <2>4, <2>5, <2>6 DEF Run
  <2> QED
    BY <2>7
<1> HIDE DEF S
<1>3. Nat \subseteq S
  BY <1>1, <1>2, SetInduction
<1> QED
  BY <1>3 DEF S

\* What the recursive function computes is the end of such a run.
LEMMA TicksIsRun ==
  ASSUME NEW r \in Registers, NEW n \in Nat
  PROVE  \E f : Run(f, r, n) /\ Ticks(r, n) = f[n]
<1> DEFINE Body(g) == [i \in 0 .. n |-> IF i = 0 THEN r ELSE processTick(g[i - 1])]
           after == CHOOSE g : g = Body(g)
<1>1. PICK f : Run(f, r, n)
  BY RunExists
<1>2. f = Body(f)
  <2>1. \A i \in 0 .. n : f[i] = IF i = 0 THEN r ELSE processTick(f[i - 1])
    BY <1>1 DEF Run
  <2> QED
    BY <1>1, <2>1 DEF Run
<1>3. after = Body(after)
  BY <1>2, Zenon
<1>4. Ticks(r, n) = after[n]
  BY DEF Ticks
<1> HIDE DEF after
<1>5. /\ DOMAIN after = 0 .. n
      /\ after[0] = r
      /\ \A i \in 1 .. n : after[i] = processTick(after[i - 1])
  BY <1>3
<1> DEFINE S == {i \in Nat : i <= n => after[i] \in Registers}
<1>6. 0 \in S
  BY <1>5
<1>7. ASSUME NEW i \in Nat, i \in S
      PROVE  i + 1 \in S
  <2>1. SUFFICES ASSUME i + 1 <= n
                 PROVE  after[i + 1] \in Registers
    OBVIOUS
  <2>2. i + 1 \in 1 .. n /\ (i + 1) - 1 = i /\ i <= n
    BY <2>1
  <2>3. after[i + 1] = processTick(after[i])
    BY <1>5, <2>2
  <2> QED
    BY <1>7, <2>2, <2>3, TickCounts
<1> HIDE DEF S
<1>8. Nat \subseteq S
  BY <1>6, <1>7, SetInduction
<1>9. \A i \in 0 .. n : after[i] \in Registers
  BY <1>8 DEF S
<1>10. after \in [0 .. n -> Registers]
  BY <1>3, <1>5, <1>9
<1> QED
  BY <1>4, <1>5, <1>10 DEF Run

\* GbRtc_advanceToNewTimestamp adds its seconds to a clock that shows a time
\* of day, over the ends of days and of the 512 days, for every gap however
\* long, and keeps the widths of registers that a game has spoilt.
THEOREM AdvanceCounts ==
  ASSUME NEW file \in Registers, NEW gap \in Nat
  PROVE  /\ Advanced(file, gap) \in Registers
         /\ Legal(file) =>
              /\ Legal(Advanced(file, gap))
              /\ Seconds(Advanced(file, gap)) = (Seconds(file) + gap) % Period
<1>1. PICK f : Run(f, file, gap) /\ Advanced(file, gap) = f[gap]
  BY TicksIsRun DEF Advanced
<1>2. f[gap] \in Registers
  BY <1>1 DEF Run
<1>3. ASSUME Legal(file)
      PROVE  Legal(f[gap]) /\ Seconds(f[gap]) = (Seconds(file) + gap) % Period
  <2> DEFINE S == {i \in Nat : i <= gap =>
                     /\ Legal(f[i])
                     /\ Seconds(f[i]) = (Seconds(file) + i) % Period}
  <2>0. Seconds(file) \in Nat /\ Seconds(file) < Period
    BY <1>3, SecondsBelowPeriod
  <2>1. 0 \in S
    <3>1. f[0] = file
      BY <1>1 DEF Run
    <3>2. Seconds(file) + 0 = Seconds(file)
      BY <2>0
    <3>3. Seconds(file) % Period = Seconds(file)
      BY <2>0, BelowPeriod
    <3> QED
      BY <1>3, <3>1, <3>2, <3>3
  <2>2. ASSUME NEW i \in Nat, i \in S
        PROVE  i + 1 \in S
    <3>1. SUFFICES ASSUME i + 1 <= gap
                   PROVE  /\ Legal(f[i + 1])
                          /\ Seconds(f[i + 1]) = (Seconds(file) + (i + 1)) % Period
      OBVIOUS
    <3>2. i + 1 \in 1 .. gap /\ (i + 1) - 1 = i /\ i <= gap /\ i \in 0 .. gap
      BY <3>1
    <3>3. f[i + 1] = processTick(f[i]) /\ f[i] \in Registers
      BY <1>1, <3>2 DEF Run
    <3>4. Legal(f[i]) /\ Seconds(f[i]) = (Seconds(file) + i) % Period
      BY <2>2, <3>2
    <3>5. /\ Legal(f[i + 1])
          /\ Seconds(f[i + 1]) = (((Seconds(file) + i) % Period) + 1) % Period
      BY <3>3, <3>4, TickCounts
    <3>6. Seconds(file) + i \in Nat
          /\ (Seconds(file) + i) + 1 = Seconds(file) + (i + 1)
      BY <2>0
    <3>7. (((Seconds(file) + i) % Period) + 1) % Period
            = ((Seconds(file) + i) + 1) % Period
      BY <3>6, AddInPeriod
    <3> QED
      BY <3>5, <3>6, <3>7
  <2> HIDE DEF S
  <2>3. Nat \subseteq S
    BY <2>1, <2>2, SetInduction
  <2> QED
    BY <2>3 DEF S
<1> QED
  BY <1>1, <1>2, <1>3

-----------------------------------------------------------------------------
(* The clock of the running game.                                          *)

\* A register takes no more bits of a value than it has.
LEMMA RegisterSetType ==
  ASSUME NEW r \in Registers, NEW register \in 0 .. 4, NEW value \in 0 .. 255
  PROVE  RegisterSet(r, register, value) \in Registers
<1>1. value % 64 \in 0 .. 63 /\ value % 32 \in 0 .. 31 /\ value % 2 \in 0 .. 1
      /\ (value \div 64) % 2 \in 0 .. 1 /\ value \div 128 \in 0 .. 1
  OBVIOUS
<1>2. CASE register = 0
  <2>1. RegisterSet(r, register, value) = [r EXCEPT !.seconds = value % 64]
    BY <1>2 DEF RegisterSet
  <2> QED
    BY <1>1, <2>1, FieldsSet
<1>3. CASE register = 1
  <2>1. RegisterSet(r, register, value) = [r EXCEPT !.minutes = value % 64]
    BY <1>3 DEF RegisterSet
  <2> QED
    BY <1>1, <2>1, FieldsSet
<1>4. CASE register = 2
  <2>1. RegisterSet(r, register, value) = [r EXCEPT !.hours = value % 32]
    BY <1>4 DEF RegisterSet
  <2> QED
    BY <1>1, <2>1, FieldsSet
<1>5. CASE register = 3
  <2>1. RegisterSet(r, register, value) = [r EXCEPT !.days = value]
    BY <1>5 DEF RegisterSet
  <2> QED
    BY <1>1, <2>1, FieldsSet
<1>6. CASE register = 4
  <2> DEFINE high == value % 2
             halt == (value \div 64) % 2
             carry == value \div 128
             a == [r EXCEPT !.daysHigh = high]
             b == [a EXCEPT !.halt = halt]
  <2>1. RegisterSet(r, register, value) = [b EXCEPT !.carry = carry]
    BY <1>6 DEF RegisterSet
  <2>2. high \in 0 .. 1 /\ halt \in 0 .. 1 /\ carry \in 0 .. 1
    BY <1>1
  <2> HIDE DEF high, halt, carry
  <2>3. a \in Registers
    BY <2>2, FieldsSet
  <2> HIDE DEF a
  <2>4. b \in Registers
    BY <2>2, <2>3, FieldsSet
  <2> HIDE DEF b
  <2> QED
    BY <2>1, <2>2, <2>4, FieldsSet
<1> QED
  BY <1>2, <1>3, <1>4, <1>5, <1>6

ClockTypes ==
  /\ rtcReal \in Registers
  /\ currentRegister \in 0 .. 4
  /\ late \in Nat
  /\ millies \in Nat /\ millies < MilliesPerSecond
  /\ counted \in [since: Nat, played: Nat, legal: BOOLEAN]

(* Nothing is counted before it has passed, and _millies is what is left   *)
(* of what was counted, whatever the registers hold.                       *)
MilliesCounted ==
  phase = "game" /\ rtcReal.halt = 0 =>
    /\ late <= counted.played
    /\ millies = (counted.played - late) % MilliesPerSecond

ClockInv == ClockTypes /\ MilliesCounted /\ ClockFollowsTime

\* A count that begins at the state of the registers.
LEMMA CountBegins ==
  ASSUME NEW r \in Registers, NEW rest \in Nat, rest < MilliesPerSecond,
         Legal(r)
  PROVE  /\ Seconds(r) = (Seconds(r) + (rest \div MilliesPerSecond)) % Period
         /\ rest % MilliesPerSecond = rest
<1>1. rest \div MilliesPerSecond = 0 /\ rest % MilliesPerSecond = rest
  BY ClockAssumption
<1>2. Seconds(r) \in Nat /\ Seconds(r) < Period
  BY SecondsBelowPeriod
<1>3. Seconds(r) + 0 = Seconds(r)
  BY <1>2
<1> QED
  BY <1>1, <1>2, <1>3, BelowPeriod

LEMMA StartKeepsClock ==
  ASSUME ClockInv, NEW file \in RegisterFiles, NEW gap \in Gaps,
         NEW menuMillies \in MenuMillies, StartGame(file, gap, menuMillies)
  PROVE  ClockInv'
<1>1. file \in Registers /\ gap \in Nat /\ menuMillies \in Nat
      /\ MilliesPerSecond \in Nat \ {0}
  BY ClockAssumption
<1>2. /\ rtcReal' = Advanced(file, gap)
      /\ late' = menuMillies /\ millies' = 0
      /\ counted' = [since |-> (Seconds(file) + gap) % Period,
                     played |-> menuMillies, legal |-> Legal(file)]
      /\ currentRegister' = currentRegister
  BY DEF StartGame
<1>3. Seconds(file) \in Nat
  BY <1>1, SecondsType
<1>4. (Seconds(file) + gap) % Period \in Nat
  BY <1>1, <1>3 DEF Period
<1>5. Legal(file) \in BOOLEAN
  BY DEF Legal
<1>6. rtcReal' \in Registers
  BY <1>1, <1>2, AdvanceCounts
<1>7. 0 < MilliesPerSecond /\ 0 \in Nat
  BY <1>1
<1>8. ClockTypes'
  BY <1>1, <1>2, <1>4, <1>5, <1>6, <1>7 DEF ClockInv, ClockTypes
<1>9. counted'.played - late' = 0 /\ late' <= counted'.played
  BY <1>1, <1>2
<1>10. 0 % MilliesPerSecond = 0
  BY <1>1
<1>11. MilliesCounted'
  BY <1>2, <1>9, <1>10 DEF MilliesCounted
<1>12. ASSUME counted'.legal
       PROVE  /\ Legal(rtcReal')
              /\ Seconds(rtcReal') = (counted'.since
                    + ((counted'.played - late') \div MilliesPerSecond)) % Period
  <2>1. Legal(file)
    BY <1>2, <1>12
  <2>2. Legal(rtcReal') /\ Seconds(rtcReal') = counted'.since
    BY <1>1, <1>2, <2>1, AdvanceCounts
  <2> QED
    BY <1>6, <1>7, <1>9, <2>2, CountBegins
<1>13. ClockFollowsTime'
  BY <1>11, <1>12 DEF ClockFollowsTime, MilliesCounted
<1> QED
  BY <1>8, <1>11, <1>13 DEF ClockInv

LEMMA PassingKeepsClock ==
  ASSUME ClockInv, TimePasses
  PROVE  ClockInv'
<1>1. /\ rtcReal' = rtcReal /\ millies' = millies /\ phase' = phase
      /\ currentRegister' = currentRegister /\ late' = late + 1
      /\ counted' = [counted EXCEPT !.played =
                       IF rtcReal.halt = 1 THEN @ ELSE @ + 1]
  BY DEF TimePasses
<1>2. ClockTypes
  BY DEF ClockInv
<1>3. ClockTypes'
  BY <1>1, <1>2 DEF ClockTypes
<1>4. counted'.since = counted.since /\ counted'.legal = counted.legal
  BY <1>1, <1>2 DEF ClockTypes
<1>5. ASSUME rtcReal.halt = 0
      PROVE  /\ counted'.played - late' = counted.played - late
             /\ late <= counted.played => late' <= counted'.played
  <2>1. counted'.played = counted.played + 1 /\ counted.played \in Nat
    BY <1>1, <1>2, <1>5 DEF ClockTypes
  <2> QED
    BY <1>1, <1>2, <2>1 DEF ClockTypes
<1> QED
  BY <1>1, <1>3, <1>4, <1>5 DEF ClockInv, MilliesCounted, ClockFollowsTime

LEMMA TickKeepsClock ==
  ASSUME ClockInv, GbRtc_PerformRtcTick
  PROVE  ClockInv'
<1> DEFINE running == rtcReal.halt = 0
           count == running /\ late > 0
           now == IF count THEN millies + 1 ELSE millies
           tick == running /\ now >= MilliesPerSecond
<1>1. /\ late' = IF count THEN late - 1 ELSE late
      /\ millies' = IF tick THEN 0 ELSE now
      /\ rtcReal' = IF tick THEN processTick(rtcReal) ELSE rtcReal
      /\ phase' = phase /\ counted' = counted
      /\ currentRegister' = currentRegister
  BY DEF GbRtc_PerformRtcTick, Caught
<1>2. ClockTypes /\ MilliesPerSecond \in Nat \ {0}
  BY ClockAssumption DEF ClockInv
<1>3. rtcReal' \in Registers /\ rtcReal'.halt = rtcReal.halt
  BY <1>1, <1>2, TickCounts DEF ClockTypes
<1>4. late \in Nat /\ millies \in Nat /\ millies < MilliesPerSecond
      /\ counted.played \in Nat /\ counted.since \in Nat
  BY <1>2 DEF ClockTypes
<1>5. late' \in Nat /\ millies' \in Nat /\ millies' < MilliesPerSecond
  BY <1>1, <1>2, <1>4
<1>6. ClockTypes'
  BY <1>1, <1>2, <1>3, <1>5 DEF ClockTypes
<1>7. CASE ~ (phase = "game" /\ running)
  BY <1>1, <1>3, <1>6, <1>7 DEF ClockInv, MilliesCounted, ClockFollowsTime
<1>8. CASE phase = "game" /\ running /\ ~ count
  <2>1. ~ tick /\ late' = late /\ millies' = millies
    BY <1>1, <1>2, <1>4, <1>8
  <2> HIDE DEF tick, count, now
  <2> QED
    BY <1>1, <1>6, <2>1 DEF ClockInv, MilliesCounted, ClockFollowsTime
<1>9. CASE phase = "game" /\ count
  <2> DEFINE x == counted.played - late
  <2>1. late <= counted.played /\ millies = x % MilliesPerSecond
    BY <1>9 DEF ClockInv, MilliesCounted
  <2>2. x \in Nat /\ late' = late - 1 /\ late' <= counted'.played
        /\ counted'.played - late' = x + 1
    BY <1>1, <1>4, <1>9, <2>1
  <2>3. now = (x % MilliesPerSecond) + 1
    BY <1>9, <2>1
  <2> HIDE DEF x
  <2>4. IF tick
        THEN (x + 1) \div MilliesPerSecond = (x \div MilliesPerSecond) + 1
             /\ (x + 1) % MilliesPerSecond = 0
        ELSE (x + 1) \div MilliesPerSecond = (x \div MilliesPerSecond)
             /\ (x + 1) % MilliesPerSecond = (x % MilliesPerSecond) + 1
    <3>1. tick <=> ~ ((x % MilliesPerSecond) + 1 < MilliesPerSecond)
      BY <1>2, <1>4, <1>9, <2>1, <2>3
    <3> HIDE DEF tick
    <3> QED
      BY <1>2, <2>2, <3>1, NextQuotient
  <2>5. millies' = (counted'.played - late') % MilliesPerSecond
    BY <1>1, <2>2, <2>3, <2>4
  <2>6. MilliesCounted'
    BY <1>9, <1>1, <2>2, <2>5 DEF MilliesCounted
  <2>7. ASSUME counted'.legal
        PROVE  /\ Legal(rtcReal')
               /\ Seconds(rtcReal') = (counted'.since
                     + ((counted'.played - late') \div MilliesPerSecond)) % Period
    <3> DEFINE q == x \div MilliesPerSecond
    <3>1. Legal(rtcReal) /\ Seconds(rtcReal) = (counted.since + q) % Period
      BY <1>1, <1>9, <2>7 DEF ClockInv, ClockFollowsTime, x
    <3>2. q \in Nat
      BY <1>2, <2>2
    <3>3. CASE tick
      <4>1. rtcReal' = processTick(rtcReal)
        BY <1>1, <3>3
      <4>2. /\ Legal(rtcReal')
            /\ Seconds(rtcReal') = (((counted.since + q) % Period) + 1) % Period
        BY <1>2, <3>1, <4>1, TickCounts DEF ClockTypes
      <4>3. (counted'.played - late') \div MilliesPerSecond = q + 1
        BY <2>2, <2>4, <3>3
      <4> HIDE DEF q
      <4>4. counted.since + q \in Nat
            /\ (counted.since + q) + 1 = counted.since + (q + 1)
        BY <1>4, <3>2
      <4>5. (((counted.since + q) % Period) + 1) % Period
              = ((counted.since + q) + 1) % Period
        BY <4>4, AddInPeriod
      <4> QED
        BY <1>1, <4>2, <4>3, <4>4, <4>5
    <3>4. CASE ~ tick
      <4>1. (counted'.played - late') \div MilliesPerSecond = q
        BY <2>2, <2>4, <3>4
      <4> HIDE DEF q, tick
      <4> QED
        BY <1>1, <3>1, <3>4, <4>1
    <3> QED
      BY <3>3, <3>4
  <2>8. ClockFollowsTime'
    BY <2>6, <2>7 DEF ClockFollowsTime, MilliesCounted
  <2> QED
    BY <1>6, <2>6, <2>8 DEF ClockInv
<1> QED
  BY <1>7, <1>8, <1>9

LEMMA WriteKeepsClock ==
  ASSUME ClockInv, NEW value \in Values, GbRtc_WriteRegister(value)
  PROVE  ClockInv'
<1>1. /\ rtcReal' = RegisterSet(rtcReal, currentRegister, value)
      /\ late' = IF currentRegister = 0 \/ Resumed THEN 0 ELSE late
      /\ millies' = IF currentRegister = 0 THEN 0 ELSE millies
      /\ counted' = [since |-> Seconds(rtcReal'),
                     played |-> IF rtcReal.halt = 1 THEN millies'
                                                    ELSE millies' + late',
                     legal |-> Legal(rtcReal')]
      /\ phase' = phase /\ currentRegister' = currentRegister
  BY DEF GbRtc_WriteRegister
<1>2. ClockTypes /\ MilliesPerSecond \in Nat \ {0} /\ value \in 0 .. 255
  BY ClockAssumption DEF ClockInv
<1>3. rtcReal' \in Registers
  BY <1>1, <1>2, RegisterSetType DEF ClockTypes
<1>4. late' \in Nat /\ millies' \in Nat /\ millies' < MilliesPerSecond
  BY <1>1, <1>2 DEF ClockTypes
<1>5. Seconds(rtcReal') \in Nat /\ Legal(rtcReal') \in BOOLEAN
  BY <1>3, SecondsType
<1>6. /\ counted'.played = IF rtcReal.halt = 1 THEN millies'
                                                 ELSE millies' + late'
      /\ counted'.since = Seconds(rtcReal')
      /\ counted'.legal = Legal(rtcReal')
  BY <1>1, Zenon
<1>7. ClockTypes'
  BY <1>1, <1>2, <1>3, <1>4, <1>5 DEF ClockTypes
<1>8. ASSUME rtcReal'.halt = 0
      PROVE  late' <= counted'.played /\ counted'.played - late' = millies'
  <2>1. CASE rtcReal.halt = 1
    <3>1. late' = 0
      BY <1>1, <1>8, <2>1 DEF Resumed
    <3>2. counted'.played = millies'
      BY <1>6, <2>1, Zenon
    <3>3. millies' = millies' + 0 /\ 0 \in Nat
      BY <1>4, AddZero
    <3> QED
      BY <1>4, <3>1, <3>2, <3>3, DifferenceOfSum
  <2>2. CASE rtcReal.halt # 1
    <3>1. counted'.played = millies' + late'
      BY <1>6, <2>2, Zenon
    <3> QED
      BY <1>4, <3>1, DifferenceOfSum
  <2> QED
    BY <2>1, <2>2
<1>9. millies' % MilliesPerSecond = millies'
  BY <1>2, <1>4, SmallRemainder
<1>10. MilliesCounted'
  BY <1>8, <1>9 DEF MilliesCounted
<1>11. ASSUME rtcReal'.halt = 0, counted'.legal
       PROVE  Seconds(rtcReal') = (counted'.since
                + ((counted'.played - late') \div MilliesPerSecond)) % Period
  BY <1>3, <1>4, <1>6, <1>8, <1>11, CountBegins
<1>12. ClockFollowsTime'
  BY <1>6, <1>10, <1>11 DEF ClockFollowsTime, MilliesCounted
<1> QED
  BY <1>7, <1>10, <1>12 DEF ClockInv

\* Every step keeps it.
LEMMA ClockStep ==
  ASSUME ClockInv, [Next]_vars
  PROVE  ClockInv'
<1>1. CASE Up \/ Down \/ Left \/ Right
  BY <1>1 DEF Up, Down, Left, Right, Press, tickVars, ClockInv, ClockTypes,
     MilliesCounted, ClockFollowsTime
<1>2. CASE \E file \in RegisterFiles, gap \in Gaps, menuMillies \in MenuMillies :
             StartGame(file, gap, menuMillies)
  BY <1>2, StartKeepsClock
<1>3. CASE TimePasses
  BY <1>3, PassingKeepsClock
<1>4. CASE GbRtc_PerformRtcTick
  BY <1>4, TickKeepsClock
<1>5. CASE \E register \in 0 .. 7 : GbRtc_ActivateRegister(register)
  BY <1>5 DEF GbRtc_ActivateRegister, tickVars, ClockInv, ClockTypes,
     MilliesCounted, ClockFollowsTime
<1>6. CASE \E value \in Values : GbRtc_WriteRegister(value)
  BY <1>6, WriteKeepsClock
<1>7. CASE Restart
  <2>1. ClockTypes'
    BY <1>7, ClockAssumption DEF Restart, ClockTypes, Stopped, Registers
  <2>2. phase' # "game"
    BY <1>7 DEF Restart
  <2> QED
    BY <2>1, <2>2 DEF ClockInv, MilliesCounted, ClockFollowsTime
<1>8. CASE UNCHANGED vars
  BY <1>8 DEF vars, tickVars, ClockInv, ClockTypes, MilliesCounted,
     ClockFollowsTime
<1> QED
  BY <1>1, <1>2, <1>3, <1>4, <1>5, <1>6, <1>7, <1>8 DEF Next

LEMMA ClockInvariant == Spec => []ClockInv
<1>1. Init => ClockInv
  BY ClockAssumption DEF Init, ClockInv, ClockTypes, MilliesCounted,
     ClockFollowsTime, Stopped, Registers
<1>2. ClockInv /\ [Next]_vars => ClockInv'
  BY ClockStep
<1> QED
  BY <1>1, <1>2, PTL DEF Spec

\* In every game the clock shows the time that passed since it was set, for
\* every file and gap, every sequence of writes, and a main loop that is late
\* by any time (GbRtc_PerformRtcTick, GbRtc_WriteRegister, restoreRtcFromFile).
THEOREM ClockIsRight == Spec => []ClockFollowsTime
<1>1. ClockInv => ClockFollowsTime
  BY DEF ClockInv
<1> QED
  BY <1>1, ClockInvariant, PTL

-----------------------------------------------------------------------------
(* The calendar: years and months cover the days and do not overlap, so    *)
(* that every time has its date and every date its time.                   *)

Days(y) == DaysBeforeYear(y)
YearLength(y) == IF LEAP_YEAR(y) THEN 366 ELSE 365

\* The days before a year are those before the last one and its own.
LEMMA DaysOfNextYear ==
  ASSUME NEW y \in Nat
  PROVE  /\ Days(0) = 0
         /\ Days(y) \in Nat
         /\ Days(y + 1) = Days(y) + YearLength(y)
<1> DEFINE Leaps(n) == {x \in 0 .. n - 1 : LEAP_YEAR(x)}
<1>1. ASSUME NEW n \in Nat
      PROVE  IsFiniteSet(Leaps(n)) /\ Cardinality(Leaps(n)) \in Nat
  <2>1. IsFiniteSet(0 .. n - 1)
    BY FS_Interval
  <2>2. Leaps(n) \subseteq 0 .. n - 1
    OBVIOUS
  <2>3. IsFiniteSet(Leaps(n))
    <3> HIDE DEF Leaps
    <3> QED
      BY <2>1, <2>2, FS_Subset
  <2> HIDE DEF Leaps
  <2> QED
    BY <2>3, FS_CardinalityType
<1>2. Leaps(0) = {}
  OBVIOUS
<1>3. Cardinality(Leaps(0)) = 0
  <2> HIDE DEF Leaps
  <2> QED
    BY <1>2, FS_EmptySet
<1>4. y \notin Leaps(y) /\ y + 1 \in Nat
  OBVIOUS
<1>5. LEAP_YEAR(y) => Leaps(y + 1) = Leaps(y) \cup {y}
  OBVIOUS
<1>6. ~ LEAP_YEAR(y) => Leaps(y + 1) = Leaps(y)
  OBVIOUS
<1>7. /\ Days(0) = 365 * 0 + Cardinality(Leaps(0))
      /\ Days(y) = 365 * y + Cardinality(Leaps(y))
      /\ Days(y + 1) = 365 * (y + 1) + Cardinality(Leaps(y + 1))
  BY DEF Days, DaysBeforeYear
<1> HIDE DEF Leaps
<1>8. Cardinality(Leaps(y + 1))
        = Cardinality(Leaps(y)) + (IF LEAP_YEAR(y) THEN 1 ELSE 0)
  <2>1. CASE LEAP_YEAR(y)
    <3>1. Cardinality(Leaps(y) \cup {y}) = Cardinality(Leaps(y)) + 1
      BY <1>1, <1>4, FS_AddElement
    <3> QED
      BY <2>1, <3>1, <1>5
  <2>2. CASE ~ LEAP_YEAR(y)
    BY <1>1, <1>6, <2>2
  <2> QED
    BY <2>1, <2>2
<1>9. YearLength(y) = 365 + (IF LEAP_YEAR(y) THEN 1 ELSE 0)
  BY DEF YearLength
<1>10. Cardinality(Leaps(y)) \in Nat /\ Cardinality(Leaps(y + 1)) \in Nat
  BY <1>1
<1> HIDE DEF Days
<1> QED
  BY <1>3, <1>7, <1>8, <1>9, <1>10

\* A year has 365 or 366 days.
LEMMA YearLengths ==
  ASSUME NEW y \in Nat
  PROVE  YearLength(y) \in Nat /\ 365 <= YearLength(y) /\ YearLength(y) <= 366
  BY DEF YearLength

\* The first n years have n times 365 days at least, 366 at most.
LEMMA DaysOfYears ==
  \A n \in Nat : /\ Days(n) \in Nat
                 /\ 365 * n <= Days(n)
                 /\ Days(n) <= 366 * n
<1> DEFINE S == {n \in Nat : 365 * n <= Days(n) /\ Days(n) <= 366 * n}
<1> HIDE DEF Days
<1>1. 0 \in S
  BY DaysOfNextYear
<1>2. ASSUME NEW n \in Nat, n \in S PROVE n + 1 \in S
  BY <1>2, DaysOfNextYear, YearLengths
<1> HIDE DEF S
<1>3. Nat \subseteq S
  BY <1>1, <1>2, SetInduction
<1> QED
  BY <1>3, DaysOfNextYear DEF S

\* A later year begins when the earlier one is over.
LEMMA YearsInOrder ==
  ASSUME NEW y \in Nat
  PROVE  \A z \in Nat : y < z => Days(y + 1) <= Days(z)
<1> DEFINE S == {z \in Nat : y < z => Days(y + 1) <= Days(z)}
<1> HIDE DEF Days
<1>1. 0 \in S
  OBVIOUS
<1>2. ASSUME NEW n \in Nat, n \in S PROVE n + 1 \in S
  <2>1. /\ Days(n + 1) = Days(n) + YearLength(n)
        /\ Days(n) \in Nat /\ Days(y + 1) \in Nat
        /\ YearLength(n) \in Nat
    BY DaysOfNextYear, YearLengths
  <2>2. y < n + 1 => y = n \/ y < n
    OBVIOUS
  <2> QED
    BY <1>2, <2>1, <2>2
<1> HIDE DEF S
<1>3. Nat \subseteq S
  BY <1>1, <1>2, SetInduction
<1> QED
  BY <1>3 DEF S

\* Every day is in a year, and breakTime looks for it where it is.
LEMMA YearOfDay ==
  ASSUME NEW d \in Nat
  PROVE  \E y \in d \div 366 .. d \div 365 : Days(y) <= d /\ d < Days(y + 1)
<1> DEFINE S == {n \in Nat : d < Days(n)}
<1> HIDE DEF Days
<1>1. S \subseteq Nat /\ d + 1 \in S
  BY DaysOfYears
<1>2. PICK n \in S : \A k \in S : ~ (k < n)
  <2> HIDE DEF S
  <2> QED
    BY <1>1, LeastNumber
<1>3. n \in Nat /\ n # 0 /\ d < Days(n)
  BY <1>2, DaysOfNextYear
<1> DEFINE y == n - 1
<1>4. y \in Nat /\ y < n /\ y + 1 = n
  BY <1>3
<1>5. Days(y) <= d /\ d < Days(y + 1)
  BY <1>2, <1>3, <1>4, DaysOfYears
<1>6. 365 * y <= d /\ d < 366 * (y + 1)
  <2>1. 365 * y <= Days(y) /\ Days(y + 1) <= 366 * (y + 1)
    BY <1>4, DaysOfYears
  <2>2. Days(y) \in Nat /\ Days(y + 1) \in Nat
    BY <1>4, DaysOfYears
  <2> QED
    BY <1>4, <1>5, <2>1, <2>2
<1>7. y \in d \div 366 .. d \div 365
  BY <1>4, <1>6
<1> QED
  BY <1>5, <1>7

\* A day is in no other year.
LEMMA OneYear ==
  ASSUME NEW d \in Nat, NEW y \in Nat, NEW z \in Nat,
         Days(y) <= d, d < Days(y + 1), Days(z) <= d, d < Days(z + 1)
  PROVE  y = z
<1> HIDE DEF Days
<1>1. Days(y) \in Nat /\ Days(z) \in Nat /\ Days(y + 1) \in Nat /\ Days(z + 1) \in Nat
  BY DaysOfNextYear
<1>2. ~ (y < z) /\ ~ (z < y)
  BY <1>1, YearsInOrder
<1> QED
  BY <1>2

\* The lengths of the months.
LEMMA MonthLengths ==
  ASSUME NEW y \in Nat
  PROVE  /\ MonthLength(y, 0) = 31 /\ MonthLength(y, 1) = YearLength(y) - 337
         /\ MonthLength(y, 2) = 31 /\ MonthLength(y, 3) = 30
         /\ MonthLength(y, 4) = 31 /\ MonthLength(y, 5) = 30
         /\ MonthLength(y, 6) = 31 /\ MonthLength(y, 7) = 31
         /\ MonthLength(y, 8) = 30 /\ MonthLength(y, 9) = 31
         /\ MonthLength(y, 10) = 30 /\ MonthLength(y, 11) = 31
  BY DEF MonthLength, monthDays, YearLength

\* The same for a month that is not known: 28 days at least, 31 at most, and
\* the date editor's last day is the calendar's.
LEMMA MonthLengthRange ==
  ASSUME NEW y \in Nat, NEW m \in 0 .. 11
  PROVE  /\ MonthLength(y, m) \in 28 .. 31
         /\ MaxDay(y, m) = MonthLength(y, m) - 1
<1>1. \/ m = 0 \/ m = 1 \/ m = 2 \/ m = 3 \/ m = 4 \/ m = 5
      \/ m = 6 \/ m = 7 \/ m = 8 \/ m = 9 \/ m = 10 \/ m = 11
  OBVIOUS
<1>2. YearLength(y) = 365 \/ YearLength(y) = 366
  BY DEF YearLength
<1>3. MonthLength(y, m) \in 28 .. 31
  BY <1>1, <1>2, MonthLengths
<1>4. MaxDay(y, m) = MonthLength(y, m) - 1
  <2>1. m # 1 => MaxDay(y, m) = IF (m < 7 /\ m % 2 = 1) \/ (m >= 7 /\ m % 2 = 0)
                                THEN 29 ELSE 30
    BY DEF MaxDay
  <2>2. m = 1 => MaxDay(y, m) = YearLength(y) - 338
    BY DEF MaxDay, YearLength, LEAP_YEAR
  <2> QED
    BY <1>1, <1>2, <2>1, <2>2, MonthLengths
<1> QED
  BY <1>3, <1>4

\* The days before each month.
Before(y) ==
  [m \in 0 .. 12 |->
     CASE m = 0 -> 0
       [] m = 1 -> 31
       [] m = 2 -> YearLength(y) - 306
       [] m = 3 -> YearLength(y) - 275
       [] m = 4 -> YearLength(y) - 245
       [] m = 5 -> YearLength(y) - 214
       [] m = 6 -> YearLength(y) - 184
       [] m = 7 -> YearLength(y) - 153
       [] m = 8 -> YearLength(y) - 122
       [] m = 9 -> YearLength(y) - 92
       [] m = 10 -> YearLength(y) - 61
       [] m = 11 -> YearLength(y) - 31
       [] m = 12 -> YearLength(y)]

\* What the recursive function of makeTime and breakTime computes.
LEMMA MonthsBefore ==
  ASSUME NEW y \in Nat
  PROVE  LET b == DaysBeforeMonth(y) IN
         /\ b[0] = 0
         /\ \A m \in 0 .. 11 : b[m + 1] = b[m] + MonthLength(y, m)
<1> DEFINE Body(g) == [month \in 0 .. 12 |->
                         IF month = 0 THEN 0
                         ELSE g[month - 1] + MonthLength(y, month - 1)]
           days == CHOOSE g : g = Body(g)
           f == Before(y)
<1>1. YearLength(y) \in Nat
  BY YearLengths
<1>2. ASSUME NEW m \in 0 .. 12
      PROVE  f[m] = IF m = 0 THEN 0 ELSE f[m - 1] + MonthLength(y, m - 1)
  <2>1. \/ m = 0 \/ m = 1 \/ m = 2 \/ m = 3 \/ m = 4 \/ m = 5 \/ m = 6
        \/ m = 7 \/ m = 8 \/ m = 9 \/ m = 10 \/ m = 11 \/ m = 12
    OBVIOUS
  <2>2. /\ f[0] = 0 /\ f[1] = 31
        /\ f[2] = YearLength(y) - 306 /\ f[3] = YearLength(y) - 275
        /\ f[4] = YearLength(y) - 245 /\ f[5] = YearLength(y) - 214
        /\ f[6] = YearLength(y) - 184 /\ f[7] = YearLength(y) - 153
        /\ f[8] = YearLength(y) - 122 /\ f[9] = YearLength(y) - 92
        /\ f[10] = YearLength(y) - 61 /\ f[11] = YearLength(y) - 31
        /\ f[12] = YearLength(y)
    BY DEF Before
  <2> HIDE DEF f
  <2> QED
    BY <1>1, <2>1, <2>2, MonthLengths
<1>3. f = Body(f)
  <2>1. DOMAIN f = 0 .. 12 /\ f = [m \in 0 .. 12 |-> f[m]]
    BY DEF Before
  <2> HIDE DEF f
  <2> QED
    BY <1>2, <2>1
<1>4. days = Body(days)
  BY <1>3, Zenon
<1>5. DaysBeforeMonth(y) = days
  BY DEF DaysBeforeMonth
<1> HIDE DEF days
<1>6. days[0] = 0
  BY <1>4
<1>7. ASSUME NEW m \in 0 .. 11
      PROVE  days[m + 1] = days[m] + MonthLength(y, m)
  <2>1. m + 1 \in 0 .. 12 /\ m + 1 # 0 /\ (m + 1) - 1 = m
    OBVIOUS
  <2> QED
    BY <1>4, <2>1
<1> QED
  BY <1>5, <1>6, <1>7

\* The months follow one another and fill the year.
LEMMA MonthsFillYear ==
  ASSUME NEW y \in Nat
  PROVE  LET b == DaysBeforeMonth(y) IN
         /\ b[0] = 0 /\ b[1] = 31
         /\ b[2] = YearLength(y) - 306 /\ b[3] = YearLength(y) - 275
         /\ b[4] = YearLength(y) - 245 /\ b[5] = YearLength(y) - 214
         /\ b[6] = YearLength(y) - 184 /\ b[7] = YearLength(y) - 153
         /\ b[8] = YearLength(y) - 122 /\ b[9] = YearLength(y) - 92
         /\ b[10] = YearLength(y) - 61 /\ b[11] = YearLength(y) - 31
         /\ b[12] = YearLength(y)
<1> DEFINE b == DaysBeforeMonth(y)
<1>0. b[0] = 0 /\ \A m \in 0 .. 11 : b[m + 1] = b[m] + MonthLength(y, m)
  BY MonthsBefore
<1> HIDE DEF b
<1>1. YearLength(y) \in Nat
  BY YearLengths
<1>2. /\ b[0 + 1] = b[0] + MonthLength(y, 0)
      /\ b[1 + 1] = b[1] + MonthLength(y, 1)
      /\ b[2 + 1] = b[2] + MonthLength(y, 2)
      /\ b[3 + 1] = b[3] + MonthLength(y, 3)
      /\ b[4 + 1] = b[4] + MonthLength(y, 4)
      /\ b[5 + 1] = b[5] + MonthLength(y, 5)
      /\ b[6 + 1] = b[6] + MonthLength(y, 6)
      /\ b[7 + 1] = b[7] + MonthLength(y, 7)
      /\ b[8 + 1] = b[8] + MonthLength(y, 8)
      /\ b[9 + 1] = b[9] + MonthLength(y, 9)
      /\ b[10 + 1] = b[10] + MonthLength(y, 10)
      /\ b[11 + 1] = b[11] + MonthLength(y, 11)
  BY <1>0
<1>3. b[1] = 31 /\ b[2] = YearLength(y) - 306 /\ b[3] = YearLength(y) - 275
  BY <1>0, <1>1, <1>2, MonthLengths
<1>4. /\ b[4] = YearLength(y) - 245 /\ b[5] = YearLength(y) - 214
      /\ b[6] = YearLength(y) - 184 /\ b[7] = YearLength(y) - 153
  BY <1>1, <1>2, <1>3, MonthLengths
<1>5. /\ b[8] = YearLength(y) - 122 /\ b[9] = YearLength(y) - 92
      /\ b[10] = YearLength(y) - 61 /\ b[11] = YearLength(y) - 31
      /\ b[12] = YearLength(y)
  BY <1>1, <1>2, <1>4, MonthLengths
<1> QED
  BY <1>0, <1>3, <1>4, <1>5 DEF b

\* Every day of a year is in one of its months, and in one only.
LEMMA MonthOfDay ==
  ASSUME NEW y \in Nat, NEW d \in Nat, d < YearLength(y)
  PROVE  \E m \in 0 .. 11 : /\ DaysBeforeMonth(y)[m] <= d
                            /\ d < DaysBeforeMonth(y)[m + 1]
<1> DEFINE b == DaysBeforeMonth(y)
<1>1. /\ b[0] = 0 /\ b[1] = 31
      /\ b[2] = YearLength(y) - 306 /\ b[3] = YearLength(y) - 275
      /\ b[4] = YearLength(y) - 245 /\ b[5] = YearLength(y) - 214
      /\ b[6] = YearLength(y) - 184 /\ b[7] = YearLength(y) - 153
      /\ b[8] = YearLength(y) - 122 /\ b[9] = YearLength(y) - 92
      /\ b[10] = YearLength(y) - 61 /\ b[11] = YearLength(y) - 31
      /\ b[12] = YearLength(y)
  BY MonthsFillYear
<1> HIDE DEF b
<1>2. YearLength(y) \in Nat
  BY YearLengths
<1>3. \/ (b[0] <= d /\ d < b[1]) \/ (b[1] <= d /\ d < b[2])
      \/ (b[2] <= d /\ d < b[3]) \/ (b[3] <= d /\ d < b[4])
      \/ (b[4] <= d /\ d < b[5]) \/ (b[5] <= d /\ d < b[6])
      \/ (b[6] <= d /\ d < b[7]) \/ (b[7] <= d /\ d < b[8])
      \/ (b[8] <= d /\ d < b[9]) \/ (b[9] <= d /\ d < b[10])
      \/ (b[10] <= d /\ d < b[11]) \/ (b[11] <= d /\ d < b[12])
  BY <1>1, <1>2
<1>4. ASSUME NEW m \in 0 .. 11, NEW n, n = m + 1, b[m] <= d, d < b[n]
      PROVE  \E x \in 0 .. 11 : b[x] <= d /\ d < b[x + 1]
  BY <1>4
<1>5. \E x \in 0 .. 11 : b[x] <= d /\ d < b[x + 1]
  BY <1>3, <1>4
<1> QED
  BY <1>5 DEF b

LEMMA MonthsInOrder ==
  ASSUME NEW y \in Nat, NEW m \in 0 .. 11, NEW n \in 0 .. 11, m < n
  PROVE  DaysBeforeMonth(y)[m + 1] <= DaysBeforeMonth(y)[n]
<1> DEFINE b == DaysBeforeMonth(y)
<1>1. /\ b[0] = 0 /\ b[1] = 31
      /\ b[2] = YearLength(y) - 306 /\ b[3] = YearLength(y) - 275
      /\ b[4] = YearLength(y) - 245 /\ b[5] = YearLength(y) - 214
      /\ b[6] = YearLength(y) - 184 /\ b[7] = YearLength(y) - 153
      /\ b[8] = YearLength(y) - 122 /\ b[9] = YearLength(y) - 92
      /\ b[10] = YearLength(y) - 61 /\ b[11] = YearLength(y) - 31
      /\ b[12] = YearLength(y)
  BY MonthsFillYear
<1> HIDE DEF b
<1>2. YearLength(y) \in Nat /\ 365 <= YearLength(y)
  BY YearLengths
<1>3. ASSUME NEW k \in 1 .. 11, k <= n
      PROVE  b[k] <= b[n]
  <2>1. \/ n = 1 \/ n = 2 \/ n = 3 \/ n = 4 \/ n = 5 \/ n = 6 \/ n = 7
        \/ n = 8 \/ n = 9 \/ n = 10 \/ n = 11
    BY <1>3
  <2>2. \/ k = 1 \/ k = 2 \/ k = 3 \/ k = 4 \/ k = 5 \/ k = 6 \/ k = 7
        \/ k = 8 \/ k = 9 \/ k = 10 \/ k = 11
    OBVIOUS
  <2> QED
    BY <1>1, <1>2, <1>3, <2>1, <2>2
<1>4. m + 1 \in 1 .. 11 /\ m + 1 <= n
  OBVIOUS
<1>5. b[m + 1] <= b[n]
  BY <1>3, <1>4
<1> QED
  BY <1>5 DEF b

\* Dates of the calendar, of any year.
Dates == [Year : Nat, Month : 0 .. 11, Day : 0 .. 30,
          Hour : 0 .. 23, Minute : 0 .. 59, Second : 0 .. 59]
Proper(tp) == tp \in Dates /\ tp.Day < MonthLength(tp.Year, tp.Month)

\* The seconds of a time, and those of its whole turns of 32 bits.
Total(t) == 86400 * t.days + t.seconds
TwoTo32 == 4294967296

LEMMA TimesAre ==
  ASSUME NEW t \in Times
  PROVE  /\ t.days \in Nat /\ t.seconds \in Nat /\ t.seconds < 86400
         /\ t = Time(t.days, t.seconds)
         /\ Total(t) \in Nat /\ Total(t) = 86400 * t.days + t.seconds
<1>1. t.days \in Nat /\ t.seconds \in Nat /\ t.seconds < 86400
  BY SMT DEF Times
<1>2. t = Time(t.days, t.seconds)
  BY SMT DEF Times, Time
<1> QED
  BY <1>1, <1>2, SMT DEF Total

LEMMA TimeFields ==
  ASSUME NEW d, NEW s
  PROVE  Time(d, s).days = d /\ Time(d, s).seconds = s
  BY SMT DEF Time

LEMMA TimeIs ==
  ASSUME NEW d \in Nat, NEW s \in Nat, s < 86400
  PROVE  Time(d, s) \in Times /\ Total(Time(d, s)) = 86400 * d + s
<1>1. Time(d, s) \in Times
  BY SMT DEF Time, Times
<1> QED
  BY <1>1, TimeFields, SMT DEF Total

LEMMA WrapIs == Wrap.days = 49710 /\ Wrap.seconds = 23296
  BY TimeFields, SMT DEF Wrap

\* So many seconds as days and seconds.
LEMMA DaysAndSeconds ==
  ASSUME NEW x \in Nat
  PROVE  /\ x \div 86400 \in Nat /\ x % 86400 \in Nat /\ x % 86400 < 86400
         /\ 86400 * (x \div 86400) + (x % 86400) = x
  BY SMT

LEMMA WrapsAre ==
  ASSUME NEW n \in Nat
  PROVE  Wraps(n) \in Times /\ Total(Wraps(n)) = TwoTo32 * n
<1>1. PICK x \in Nat : x = n * 23296
  BY SMT
<1>2. PICK a \in Nat, b \in Nat : /\ b < 86400 /\ 86400 * a + b = x
                                  /\ a = x \div 86400 /\ b = x % 86400
  BY DaysAndSeconds, SMT
<1>3. PICK d \in Nat : d = n * 49710 + a
  BY SMT
<1>4. Wraps(n) = Time(d, b)
  BY <1>1, <1>2, <1>3, WrapIs, SMT DEF Wraps
<1>5. Wraps(n) \in Times /\ Total(Wraps(n)) = 86400 * d + b
  BY <1>2, <1>4, TimeIs, SMT
<1>6. 86400 * d + b = TwoTo32 * n
  BY <1>1, <1>2, <1>3, SMT DEF TwoTo32
<1> QED
  BY <1>5, <1>6, SMT

\* Times are in the order of their seconds.
LEMMA EarlierIs ==
  ASSUME NEW t \in Times, NEW u \in Times
  PROVE  Earlier(t, u) <=> Total(t) < Total(u)
  BY TimesAre, SMT DEF Earlier

\* A day that is borrowed is as many seconds.
LEMMA BorrowDay ==
  ASSUME NEW a \in Nat, NEW b \in Nat, NEW c \in Nat, NEW e \in Nat,
         NEW d \in Nat, NEW s \in Nat,
         d = a - c - 1, s = b + 86400 - e
  PROVE  86400 * d + s = (86400 * a + b) - (86400 * c + e)
  BY SMT

LEMMA MinusIs ==
  ASSUME NEW t \in Times, NEW u \in Times, Total(u) <= Total(t)
  PROVE  Minus(t, u) \in Times /\ Total(Minus(t, u)) = Total(t) - Total(u)
<1>1. PICK a \in Nat, b \in Nat, c \in Nat, e \in Nat :
             /\ a = t.days /\ b = t.seconds /\ b < 86400
             /\ c = u.days /\ e = u.seconds /\ e < 86400
             /\ Total(t) = 86400 * a + b
             /\ Total(u) = 86400 * c + e
  BY TimesAre, SMT
<1>2. CASE b >= e
  <2>1. Minus(t, u) = Time(a - c, b - e)
    BY <1>1, <1>2, SMT DEF Minus
  <2>2. PICK d \in Nat, s \in Nat : s < 86400 /\ d = a - c /\ s = b - e
    BY <1>1, <1>2, SMT
  <2>3. Minus(t, u) \in Times /\ Total(Minus(t, u)) = 86400 * d + s
    BY <2>1, <2>2, TimeIs, SMT
  <2> QED
    BY <1>1, <2>2, <2>3, SMT
<1>3. CASE ~ (b >= e)
  <2>1. Minus(t, u) = Time(a - c - 1, b + 86400 - e)
    BY <1>1, <1>3, SMT DEF Minus
  <2>2. PICK d \in Nat, s \in Nat : s < 86400 /\ d = a - c - 1 /\ s = b + 86400 - e
    BY <1>1, <1>3, SMT
  <2>3. Minus(t, u) \in Times /\ Total(Minus(t, u)) = 86400 * d + s
    BY <2>1, <2>2, TimeIs, SMT
  <2>4. 86400 * d + s = (86400 * a + b) - (86400 * c + e)
    BY ONLY <1>1, <2>2, BorrowDay, SMT
  <2> QED
    BY <1>1, <2>3, <2>4, SMT
<1> QED
  BY <1>2, <1>3

\* What is left of a time in 32 bits is less than 2^32 seconds.
LEMMA TruncatedFits ==
  ASSUME NEW t \in Times
  PROVE  Truncated(t) \in Times /\ Truncated(t).days <= 49710
<1> DEFINE Fits(n) == ~ Earlier(t, Wraps(n)) /\ Earlier(t, Wraps(n + 1))
           q == Total(t) \div TwoTo32
           n == CHOOSE k \in 0 .. t.days \div Wrap.days : Fits(k)
<1>1. Total(t) \in Nat /\ t.days \in Nat /\ t.seconds \in Nat /\ t.seconds < 86400
      /\ Total(t) = 86400 * t.days + t.seconds
  BY TimesAre, SMT DEF Total
<1>2. q \in Nat /\ TwoTo32 * q <= Total(t) /\ Total(t) < TwoTo32 * (q + 1)
  BY <1>1, SMT DEF TwoTo32
<1>3. q \in 0 .. t.days \div 49710
  <2>1. 86400 * (49710 * q) <= 86400 * t.days + t.seconds
    BY <1>1, <1>2, SMT DEF TwoTo32
  <2> HIDE DEF q
  <2>2. 49710 * q <= t.days
    BY <1>1, <1>2, <2>1, SMT
  <2> QED
    BY <1>1, <1>2, <2>2, SMT
<1>4. ASSUME NEW k \in Nat
      PROVE  Fits(k) <=> TwoTo32 * k <= Total(t) /\ Total(t) < TwoTo32 * (k + 1)
  <2>1. k + 1 \in Nat /\ TwoTo32 * k \in Nat
    BY SMT DEF TwoTo32
  <2>2. /\ Wraps(k) \in Times /\ Wraps(k + 1) \in Times
        /\ Total(Wraps(k)) = TwoTo32 * k
        /\ Total(Wraps(k + 1)) = TwoTo32 * (k + 1)
    BY <2>1, WrapsAre, SMT
  <2>3. Earlier(t, Wraps(k)) <=> Total(t) < TwoTo32 * k
    BY <2>2, EarlierIs, SMT
  <2>4. Earlier(t, Wraps(k + 1)) <=> Total(t) < TwoTo32 * (k + 1)
    BY <2>2, EarlierIs, SMT
  <2> QED
    BY <1>1, <2>1, <2>3, <2>4, SMT
<1> HIDE DEF q
<1>5. Fits(q) /\ q \in 0 .. t.days \div Wrap.days
  BY <1>2, <1>3, <1>4, WrapIs, SMT
<1>6. Truncated(t) = Minus(t, Wraps(n))
  BY SMT DEF Truncated
<1> HIDE DEF Fits
<1>7. n \in 0 .. t.days \div Wrap.days /\ Fits(n)
  BY <1>5, SMT
<1> HIDE DEF n
<1>8. n \in Nat
  BY <1>7, SMT
<1>9. TwoTo32 * n <= Total(t) /\ Total(t) < TwoTo32 * (n + 1)
  BY <1>4, <1>7, <1>8, SMT
<1>10. Truncated(t) \in Times /\ Total(Truncated(t)) = Total(t) - TwoTo32 * n
  BY <1>6, <1>8, <1>9, WrapsAre, MinusIs, SMT
<1>11. Total(Truncated(t)) < TwoTo32
  BY <1>1, <1>8, <1>9, <1>10, SMT DEF TwoTo32
<1>12. Truncated(t).days \in Nat /\ Truncated(t).seconds \in Nat
  BY <1>10, TimesAre, SMT
<1> QED
  BY <1>10, <1>11, <1>12, SMT DEF Total, TwoTo32

\* A time that fits in 32 bits is what is left of it.
LEMMA TruncatedKeeps ==
  ASSUME NEW t \in Times, t.days < 49710
  PROVE  Truncated(t) = t
<1> DEFINE Fits(n) == ~ Earlier(t, Wraps(n)) /\ Earlier(t, Wraps(n + 1))
           n == CHOOSE k \in 0 .. t.days \div Wrap.days : Fits(k)
<1>1. t.days \in Nat /\ t.seconds \in Nat /\ t.seconds < 86400
  BY TimesAre, SMT
<1>2. t.days \div Wrap.days = 0 /\ 0 \in 0 .. 0
  BY <1>1, WrapIs, SMT
<1>3. Wraps(0) \in Times /\ Wraps(1) \in Times
      /\ Total(Wraps(0)) = 0 /\ Total(Wraps(1)) = TwoTo32
  BY WrapsAre, SMT DEF TwoTo32
<1>4. Total(t) < TwoTo32 /\ Total(t) >= 0
  BY <1>1, SMT DEF Total, TwoTo32
<1>5. Fits(0)
  <2>1. Earlier(t, Wraps(0)) <=> Total(t) < 0
    BY <1>3, EarlierIs, SMT
  <2>2. Earlier(t, Wraps(1)) <=> Total(t) < TwoTo32
    BY <1>3, EarlierIs, SMT
  <2>3. Total(t) \in Nat
    BY TimesAre, SMT
  <2> QED
    BY <1>4, <2>1, <2>2, <2>3, SMT
<1>6. Truncated(t) = Minus(t, Wraps(n))
  BY SMT DEF Truncated
<1> HIDE DEF Fits
<1>7. n = 0
  BY <1>2, <1>5, SMT
<1> HIDE DEF n
<1>8. Wraps(0) = Time(0, 0)
  BY WrapIs, SMT DEF Wraps
<1>9. Wraps(0).days = 0 /\ Wraps(0).seconds = 0
  BY <1>8, TimeFields, SMT
<1>10. Minus(t, Wraps(0)) = Time(t.days, t.seconds)
  BY <1>1, <1>9, SMT DEF Minus
<1> QED
  BY <1>6, <1>7, <1>10, TimesAre, SMT

LEMMA MonthsAreDays ==
  ASSUME NEW y \in Nat, NEW m \in 0 .. 12
  PROVE  DaysBeforeMonth(y)[m] \in Nat
<1> DEFINE b == DaysBeforeMonth(y)
<1>1. YearLength(y) \in Nat /\ 365 <= YearLength(y)
  BY YearLengths
<1>2. /\ b[0] = 0 /\ b[1] = 31
      /\ b[2] = YearLength(y) - 306 /\ b[3] = YearLength(y) - 275
      /\ b[4] = YearLength(y) - 245 /\ b[5] = YearLength(y) - 214
      /\ b[6] = YearLength(y) - 184 /\ b[7] = YearLength(y) - 153
      /\ b[8] = YearLength(y) - 122 /\ b[9] = YearLength(y) - 92
      /\ b[10] = YearLength(y) - 61 /\ b[11] = YearLength(y) - 31
      /\ b[12] = YearLength(y)
  BY MonthsFillYear
<1>3. \/ m = 0 \/ m = 1 \/ m = 2 \/ m = 3 \/ m = 4 \/ m = 5 \/ m = 6
      \/ m = 7 \/ m = 8 \/ m = 9 \/ m = 10 \/ m = 11 \/ m = 12
  OBVIOUS
<1> HIDE DEF b
<1>4. b[m] \in Nat
  BY <1>1, <1>2, <1>3
<1> QED
  BY <1>4 DEF b

\* The date of a time, for the year and month that hold it.
LEMMA BreakTimeIs ==
  ASSUME NEW t \in Times, NEW d \in Nat, d = Truncated(t).days,
         NEW y \in Nat, NEW m \in 0 .. 11, NEW e \in Nat,
         Days(y) <= d, d < Days(y + 1), e = d - Days(y),
         DaysBeforeMonth(y)[m] <= e, e < DaysBeforeMonth(y)[m + 1]
  PROVE  breakTime(t) =
           [Year |-> y, Month |-> m, Day |-> e - DaysBeforeMonth(y)[m],
            Hour |-> Truncated(t).seconds \div 3600,
            Minute |-> (Truncated(t).seconds \div 60) % 60,
            Second |-> Truncated(t).seconds % 60]
<1> DEFINE u == Truncated(t)
           YearOf == CHOOSE x \in u.days \div 366 .. u.days \div 365 :
                       DaysBeforeYear(x) <= u.days /\ u.days < DaysBeforeYear(x + 1)
           MonthOf(b, day) == CHOOSE x \in 0 .. 11 : b[x] <= day /\ day < b[x + 1]
           b == DaysBeforeMonth(y)
<1>1. YearOf = y
  <2>1. \E x \in u.days \div 366 .. u.days \div 365 :
           DaysBeforeYear(x) <= u.days /\ u.days < DaysBeforeYear(x + 1)
    <3>1. \E x \in d \div 366 .. d \div 365 : Days(x) <= d /\ d < Days(x + 1)
      BY YearOfDay
    <3> QED
      BY <3>1, Zenon DEF Days
  <2>2. YearOf \in u.days \div 366 .. u.days \div 365
        /\ DaysBeforeYear(YearOf) <= u.days /\ u.days < DaysBeforeYear(YearOf + 1)
    BY <2>1, Zenon
  <2> HIDE DEF YearOf
  <2>3. YearOf \in Nat
    BY <2>2, SMT
  <2> QED
    BY <2>2, <2>3, OneYear, SMT DEF Days
<1>2. MonthOf(b, e) = m
  <2>1. b[m] <= e /\ e < b[m + 1]
    OBVIOUS
  <2>2. MonthOf(b, e) \in 0 .. 11
        /\ b[MonthOf(b, e)] <= e /\ e < b[MonthOf(b, e) + 1]
    BY <2>1, Zenon
  <2>3. ASSUME NEW x \in 0 .. 11, b[x] <= e, e < b[x + 1]
        PROVE  x = m
    <3>1. m < x => b[m + 1] <= b[x]
      BY MonthsInOrder
    <3>2. x < m => b[x + 1] <= b[m]
      BY MonthsInOrder
    <3>3. b[m] \in Int /\ b[x] \in Int /\ b[m + 1] \in Int /\ b[x + 1] \in Int
      BY MonthsAreDays, SMT
    <3> HIDE DEF b
    <3> QED
      BY <2>1, <2>3, <3>1, <3>2, <3>3, SMT
  <2> HIDE DEF MonthOf
  <2> QED
    BY <2>2, <2>3
<1>3. e = u.days - DaysBeforeYear(YearOf)
  BY <1>1 DEF Days
<1>4. breakTime(t) =
        [Year |-> YearOf, Month |-> MonthOf(DaysBeforeMonth(YearOf), u.days - DaysBeforeYear(YearOf)),
         Day |-> (u.days - DaysBeforeYear(YearOf))
                   - DaysBeforeMonth(YearOf)[MonthOf(DaysBeforeMonth(YearOf),
                                               u.days - DaysBeforeYear(YearOf))],
         Hour |-> u.seconds \div 3600, Minute |-> (u.seconds \div 60) % 60,
         Second |-> u.seconds % 60]
  BY Zenon DEF breakTime
<1>5. u.days - DaysBeforeYear(YearOf) = e
  BY <1>3
<1> HIDE DEF YearOf, MonthOf, u
<1>6. MonthOf(DaysBeforeMonth(YearOf), u.days - DaysBeforeYear(YearOf)) = m
  BY <1>1, <1>2, <1>5, Zenon
<1>8. (u.days - DaysBeforeYear(YearOf))
         - DaysBeforeMonth(YearOf)[MonthOf(DaysBeforeMonth(YearOf),
                                           u.days - DaysBeforeYear(YearOf))]
        = e - b[m]
  <2>1. DaysBeforeMonth(YearOf) = b
    BY <1>1
  <2> HIDE DEF b
  <2> QED
    BY <1>5, <1>6, <2>1
<1> HIDE DEF b
<1>7. breakTime(t) =
        [Year |-> y, Month |-> m, Day |-> e - b[m],
         Hour |-> u.seconds \div 3600, Minute |-> (u.seconds \div 60) % 60,
         Second |-> u.seconds % 60]
  BY <1>1, <1>4, <1>6, <1>8
<1> QED
  BY <1>7, Zenon DEF u, b

LEMMA DateFields ==
  ASSUME NEW tp \in Dates
  PROVE  /\ tp.Year \in Nat /\ tp.Month \in 0 .. 11 /\ tp.Day \in 0 .. 30
         /\ tp.Hour \in 0 .. 23 /\ tp.Minute \in 0 .. 59 /\ tp.Second \in 0 .. 59
         /\ tp = [Year |-> tp.Year, Month |-> tp.Month, Day |-> tp.Day,
                  Hour |-> tp.Hour, Minute |-> tp.Minute, Second |-> tp.Second]
  BY SMT DEF Dates

\* Every time has a date of the calendar, of a year that a byte holds.
LEMMA DateOfTime ==
  ASSUME NEW t \in Times
  PROVE  Proper(breakTime(t)) /\ breakTime(t).Year <= 255
<1>1. PICK d \in Nat, s \in Nat : /\ d = Truncated(t).days /\ d <= 49710
                                  /\ s = Truncated(t).seconds /\ s < 86400
  BY TruncatedFits, TimesAre, SMT
<1>2. PICK y \in Nat : Days(y) <= d /\ d < Days(y + 1) /\ y <= 136
  <2>1. PICK x \in d \div 366 .. d \div 365 : Days(x) <= d /\ d < Days(x + 1)
    BY YearOfDay
  <2>2. x \in Nat /\ x <= 136
    BY <1>1, <2>1, SMT
  <2> QED
    BY <2>1, <2>2
<1>3. y \in Nat /\ y <= 136
  BY <1>2
<1>4. Days(y) \in Nat /\ Days(y + 1) \in Nat /\ Days(y + 1) = Days(y) + YearLength(y)
      /\ YearLength(y) \in Nat
  BY <1>3, DaysOfNextYear, YearLengths
<1> HIDE DEF Days
<1>5. PICK e \in Nat : e = d - Days(y) /\ e < YearLength(y)
  BY <1>2, <1>4, SMT
<1>6. PICK m \in 0 .. 11 : DaysBeforeMonth(y)[m] <= e /\ e < DaysBeforeMonth(y)[m + 1]
  BY <1>3, <1>5, MonthOfDay
<1>7. DaysBeforeMonth(y)[m] \in Nat
      /\ DaysBeforeMonth(y)[m + 1] = DaysBeforeMonth(y)[m] + MonthLength(y, m)
      /\ MonthLength(y, m) \in 28 .. 31
  BY <1>3, MonthsAreDays, MonthsBefore, MonthLengthRange
<1>8. PICK f \in 0 .. 30 : f = e - DaysBeforeMonth(y)[m] /\ f < MonthLength(y, m)
  BY <1>6, <1>7, SMT
<1> DEFINE h == s \div 3600
           n == (s \div 60) % 60
           x == s % 60
<1>11. h \in 0 .. 23 /\ n \in 0 .. 59 /\ x \in 0 .. 59
  BY <1>1, SMT
<1> HIDE DEF h, n, x
<1> DEFINE tp == [Year |-> y, Month |-> m, Day |-> f,
                  Hour |-> h, Minute |-> n, Second |-> x]
<1>9. breakTime(t) = tp
  <2>1. breakTime(t) =
           [Year |-> y, Month |-> m, Day |-> e - DaysBeforeMonth(y)[m],
            Hour |-> Truncated(t).seconds \div 3600,
            Minute |-> (Truncated(t).seconds \div 60) % 60,
            Second |-> Truncated(t).seconds % 60]
    <3>1. d = Truncated(t).days
      BY <1>1
    <3>2. y \in Nat /\ e = d - Days(y)
      BY <1>3, <1>5
    <3> QED
      BY <1>2, <1>6, <3>1, <3>2, BreakTimeIs
  <2> QED
    BY <1>1, <1>8, <2>1, SMT DEF h, n, x
<1>10. tp \in Dates /\ tp.Year = y /\ tp.Month = m /\ tp.Day = f
  BY <1>3, <1>11, SMT DEF Dates
<1> HIDE DEF tp
<1> QED
  BY <1>3, <1>8, <1>9, <1>10 DEF Proper

\* The time of a date, while its days are those of 32 bits.
LEMMA MakeTimeIs ==
  ASSUME NEW tp, Proper(tp)
  PROVE  LET d == Days(tp.Year) + DaysBeforeMonth(tp.Year)[tp.Month] + tp.Day
             s == 3600 * tp.Hour + 60 * tp.Minute + tp.Second
         IN /\ d \in Nat /\ d < Days(tp.Year + 1)
            /\ s \in Nat /\ s < 86400
            /\ tp.Year <= 136 => makeTime(tp) = Time(d, s)
            /\ tp.Year <= 255 => makeTime(tp) \in Times
<1>1. PICK y \in Nat, m \in 0 .. 11, f \in 0 .. 30 :
             y = tp.Year /\ m = tp.Month /\ f = tp.Day /\ f < MonthLength(y, m)
  BY DateFields DEF Proper
<1> DEFINE s == 3600 * tp.Hour + 60 * tp.Minute + tp.Second
           b == DaysBeforeMonth(y)
<1>2. s \in Nat /\ s < 86400
  <2>1. PICK h \in 0 .. 23, n \in 0 .. 59, x \in 0 .. 59 :
               h = tp.Hour /\ n = tp.Minute /\ x = tp.Second
    BY DateFields DEF Proper
  <2>2. s = 3600 * h + 60 * n + x
    BY <2>1, SMT
  <2> HIDE DEF s
  <2> QED
    BY <2>2, SMT
<1>3. Days(y) \in Nat /\ Days(y + 1) = Days(y) + YearLength(y) /\ YearLength(y) \in Nat
      /\ 365 * y <= Days(y)
  BY DaysOfNextYear, YearLengths, DaysOfYears
<1>4. b[m] \in Nat /\ b[m + 1] = b[m] + MonthLength(y, m) /\ MonthLength(y, m) \in Nat
  <2>1. m \in 0 .. 12
    BY SMT
  <2>2. b[m] \in Nat
    BY <2>1, MonthsAreDays
  <2>3. b[m + 1] = b[m] + MonthLength(y, m)
    BY MonthsBefore
  <2>4. MonthLength(y, m) \in 28 .. 31
    BY MonthLengthRange
  <2> QED
    BY <2>2, <2>3, <2>4, SMT
<1>5. b[m + 1] <= YearLength(y)
  <2>1. b[12] = YearLength(y) /\ b[11] = YearLength(y) - 31
    BY MonthsFillYear
  <2>2. m < 11 => b[m + 1] <= b[11]
    BY MonthsInOrder
  <2> HIDE DEF b
  <2>3. m = 11 => b[m + 1] = b[12]
    OBVIOUS
  <2>4. m < 11 \/ m = 11
    OBVIOUS
  <2>5. b[m + 1] \in Nat
    BY <1>4
  <2> QED
    BY <1>3, <2>1, <2>2, <2>3, <2>4, <2>5
<1> HIDE DEF s, b, Days
<1>6. PICK d \in Nat : d = Days(y) + b[m] + f /\ d < Days(y + 1) /\ 365 * y <= d
  <2>1. PICK dy \in Nat, bm \in Nat, l \in Nat, yl \in Nat :
               /\ dy = Days(y) /\ bm = b[m] /\ l = MonthLength(y, m)
               /\ yl = YearLength(y) /\ bm + l <= yl /\ f < l /\ 365 * y <= dy
               /\ Days(y + 1) = dy + yl
    BY <1>1, <1>3, <1>4, <1>5, SMT
  <2>2. dy + bm + f \in Nat /\ dy + bm + f < dy + yl /\ 365 * y <= dy + bm + f
    BY <2>1, SMT
  <2> QED
    BY <2>1, <2>2, SMT
<1>7. Time(365 * y, 0) \in Times /\ Total(Time(365 * y, 0)) = 86400 * (365 * y)
  BY TimeIs, SMT
<1>8. Wrap \in Times /\ Total(Wrap) = TwoTo32
  <2>1. Time(49710, 23296) \in Times /\ Total(Time(49710, 23296)) = 86400 * 49710 + 23296
    BY TimeIs, SMT
  <2> QED
    BY <2>1, SMT DEF Wrap, TwoTo32
<1>9. Earlier(Time(365 * y, 0), Wrap) <=> y <= 136
  BY <1>7, <1>8, EarlierIs, SMT DEF TwoTo32
<1>10. makeTime(tp) = IF Earlier(Time(365 * y, 0), Wrap) THEN Time(d, s)
                      ELSE Minus(Time(d, s), Wrap)
  <2>1. makeTime(tp) =
          IF Earlier(Time(365 * tp.Year, 0), Wrap)
          THEN Time(DaysBeforeYear(tp.Year) + DaysBeforeMonth(tp.Year)[tp.Month]
                      + tp.Day, s)
          ELSE Minus(Time(DaysBeforeYear(tp.Year)
                            + DaysBeforeMonth(tp.Year)[tp.Month] + tp.Day, s), Wrap)
    BY SMT DEF makeTime, s
  <2>2. DaysBeforeYear(tp.Year) + DaysBeforeMonth(tp.Year)[tp.Month] + tp.Day = d
    BY <1>1, <1>6, SMT DEF b, Days
  <2> QED
    BY <1>1, <2>1, <2>2, SMT
<1>11. Time(d, s) \in Times /\ Total(Time(d, s)) = 86400 * d + s
  BY <1>2, TimeIs, SMT
<1>12. y > 136 => Minus(Time(d, s), Wrap) \in Times
  <2>1. y > 136 => TwoTo32 <= 86400 * d + s
    BY <1>2, <1>6, SMT DEF TwoTo32
  <2> QED
    BY <1>8, <1>11, <2>1, MinusIs, SMT
<1>13. /\ y <= 136 => makeTime(tp) = Time(d, s)
       /\ makeTime(tp) \in Times
  BY <1>9, <1>10, <1>11, <1>12, SMT
<1> QED
  BY <1>1, <1>2, <1>6, <1>13, SMT DEF s, b

\* A leap year comes every fourth year at most, from 1972 on.
LEMMA LeapDays ==
  \A n \in Nat : Days(n) <= 365 * n + (n + 1) \div 4
<1> DEFINE S == {n \in Nat : Days(n) <= 365 * n + (n + 1) \div 4}
<1>1. 0 \in S
  <2>1. Days(0) = 0
    BY DaysOfNextYear
  <2> HIDE DEF Days
  <2> QED
    BY <2>1, SMT
<1>2. ASSUME NEW n \in Nat, n \in S PROVE n + 1 \in S
  <2>1. /\ Days(n + 1) = Days(n) + YearLength(n) /\ Days(n) \in Nat
        /\ Days(n) <= 365 * n + (n + 1) \div 4
    BY <1>2, DaysOfNextYear
  <2>2. YearLength(n) = 365 \/ (YearLength(n) = 366 /\ (1970 + n) % 4 = 0)
    BY DEF YearLength, LEAP_YEAR
  <2>3. (1970 + n) % 4 = 0 => ((n + 1) + 1) \div 4 = (n + 1) \div 4 + 1
    BY SMT
  <2>4. ((n + 1) + 1) \div 4 >= (n + 1) \div 4
        /\ (n + 1) \div 4 \in Nat /\ ((n + 1) + 1) \div 4 \in Nat
    BY SMT
  <2> HIDE DEF Days
  <2>5. Days(n + 1) <= 365 * (n + 1) + ((n + 1) + 1) \div 4
    BY <2>1, <2>2, <2>3, <2>4, SMT
  <2> QED
    BY <2>5
<1> HIDE DEF S
<1>3. Nat \subseteq S
  BY <1>1, <1>2, SetInduction
<1> QED
  BY <1>3 DEF S

\* makeTime and breakTime are inverse, for every date of the years that 32
\* bits of seconds hold: 1970 to 2105.
THEOREM DateOfMadeTime ==
  ASSUME NEW tp, Proper(tp), tp.Year <= 135
  PROVE  breakTime(makeTime(tp)) = tp
<1>1. PICK y \in Nat, m \in 0 .. 11, f \in 0 .. 30 :
        /\ y = tp.Year /\ m = tp.Month /\ f = tp.Day /\ f < MonthLength(y, m)
        /\ y <= 135
  BY DateFields DEF Proper
<1>2. PICK h \in 0 .. 23, n \in 0 .. 59, x \in 0 .. 59 :
        /\ h = tp.Hour /\ n = tp.Minute /\ x = tp.Second
        /\ tp = [Year |-> y, Month |-> m, Day |-> f, Hour |-> h, Minute |-> n, Second |-> x]
  BY <1>1, DateFields DEF Proper
<1> DEFINE d == Days(y) + DaysBeforeMonth(y)[m] + f
           s == 3600 * h + 60 * n + x
<1>3. /\ d \in Nat /\ d < Days(y + 1)
      /\ s \in Nat /\ s < 86400
      /\ makeTime(tp) = Time(d, s)
  <2> DEFINE dd == Days(tp.Year) + DaysBeforeMonth(tp.Year)[tp.Month] + tp.Day
             ss == 3600 * tp.Hour + 60 * tp.Minute + tp.Second
  <2>1. /\ dd \in Nat /\ dd < Days(tp.Year + 1)
        /\ ss \in Nat /\ ss < 86400
        /\ tp.Year <= 136 => makeTime(tp) = Time(dd, ss)
    <3> HIDE DEF Days
    <3> QED
      BY MakeTimeIs, SMT
  <2>2. dd = d /\ ss = s
    BY <1>1, <1>2, SMT
  <2> HIDE DEF dd, ss, d, s
  <2> QED
    BY <1>1, <2>1, <2>2, SMT
<1>4. s \div 3600 = h /\ (s \div 60) % 60 = n /\ s % 60 = x
  <2>1. s \div 3600 = h
    BY SMT
  <2>2. s \div 60 = 60 * h + n /\ s % 60 = x
    BY SMT
  <2>3. (60 * h + n) % 60 = n
    BY SMT
  <2> HIDE DEF s
  <2> QED
    BY <2>1, <2>2, <2>3, SMT
<1>5. Days(y) \in Nat /\ Days(y + 1) \in Nat /\ DaysBeforeMonth(y)[m] \in Nat
      /\ DaysBeforeMonth(y)[m + 1] = DaysBeforeMonth(y)[m] + MonthLength(y, m)
      /\ MonthLength(y, m) \in Nat
  <2>1. m \in 0 .. 12
    BY SMT
  <2>2. DaysBeforeMonth(y)[m] \in Nat
    BY <2>1, MonthsAreDays
  <2>3. DaysBeforeMonth(y)[m + 1] = DaysBeforeMonth(y)[m] + MonthLength(y, m)
    BY MonthsBefore
  <2>4. MonthLength(y, m) \in 28 .. 31
    BY MonthLengthRange
  <2>5. Days(y) \in Nat /\ Days(y + 1) \in Nat
    BY DaysOfYears
  <2> QED
    BY <2>2, <2>3, <2>4, <2>5, SMT
<1> HIDE DEF Days
<1>6. PICK e \in Nat : /\ e = d - Days(y) /\ Days(y) <= d
                       /\ DaysBeforeMonth(y)[m] <= e
                       /\ e < DaysBeforeMonth(y)[m + 1]
                       /\ e - DaysBeforeMonth(y)[m] = f
  <2>1. PICK a \in Nat, b \in Nat, l \in Nat :
           /\ a = Days(y) /\ b = DaysBeforeMonth(y)[m] /\ l = MonthLength(y, m)
           /\ DaysBeforeMonth(y)[m + 1] = b + l /\ f < l
    BY <1>1, <1>5
  <2>2. d = a + b + f
    BY <2>1
  <2> HIDE DEF d
  <2>3. b + f \in Nat /\ b + f = d - a /\ a <= d /\ b <= b + f /\ b + f < b + l
        /\ (b + f) - b = f
    BY <2>1, <2>2, SMT
  <2> QED
    BY <2>1, <2>3
<1>7. d < 49710
  <2>1. Days(y + 1) <= 365 * (y + 1) + ((y + 1) + 1) \div 4
    BY LeapDays
  <2> HIDE DEF d
  <2> QED
    BY <1>1, <1>3, <1>5, <2>1, SMT
<1> HIDE DEF d, s
<1>8. Truncated(Time(d, s)) = Time(d, s) /\ Time(d, s) \in Times
  <2>1. Time(d, s) \in Times
    BY <1>3, TimeIs, SMT
  <2>2. Time(d, s).days < 49710
    BY <1>7, TimeFields, SMT
  <2> QED
    BY <2>1, <2>2, TruncatedKeeps, SMT
<1>9. Truncated(Time(d, s)).days = d /\ Truncated(Time(d, s)).seconds = s
  BY <1>8, TimeFields, SMT
<1>10. breakTime(Time(d, s)) =
           [Year |-> y, Month |-> m, Day |-> e - DaysBeforeMonth(y)[m],
            Hour |-> Truncated(Time(d, s)).seconds \div 3600,
            Minute |-> (Truncated(Time(d, s)).seconds \div 60) % 60,
            Second |-> Truncated(Time(d, s)).seconds % 60]
  <2>1. d \in Nat /\ d < Days(y + 1)
    BY <1>3
  <2> QED
    BY <1>6, <1>8, <1>9, <2>1, BreakTimeIs
<1> QED
  BY <1>2, <1>3, <1>4, <1>6, <1>9, <1>10, SMT

\* A field that is given a value it may have leaves a date.
LEMMA DateSet ==
  ASSUME NEW tp \in Dates, NEW q, NEW v
  PROVE  /\ q = [tp EXCEPT !.Second = v] /\ v \in 0 .. 59 => q \in Dates
         /\ q = [tp EXCEPT !.Minute = v] /\ v \in 0 .. 59 => q \in Dates
         /\ q = [tp EXCEPT !.Hour = v] /\ v \in 0 .. 23 => q \in Dates
         /\ q = [tp EXCEPT !.Day = v] /\ v \in 0 .. 30 => q \in Dates
         /\ q = [tp EXCEPT !.Month = v] /\ v \in 0 .. 11 => q \in Dates
         /\ q = [tp EXCEPT !.Year = v] /\ v \in Nat => q \in Dates
  BY SMT DEF Dates

LEMMA TimeOfDaySet ==
  ASSUME NEW tp \in Dates, NEW h \in 0 .. 23, NEW n \in 0 .. 59, NEW x \in 0 .. 59
  PROVE  /\ [tp EXCEPT !.Second = x, !.Minute = n] \in Dates
         /\ [tp EXCEPT !.Second = x, !.Minute = n, !.Hour = h] \in Dates
<1> DEFINE a == [tp EXCEPT !.Second = x]
           b == [a EXCEPT !.Minute = n]
           c == [b EXCEPT !.Hour = h]
<1>1. b = [tp EXCEPT !.Second = x, !.Minute = n]
      /\ c = [tp EXCEPT !.Second = x, !.Minute = n, !.Hour = h]
  BY SMT
<1>2. a \in Dates
  BY DateSet
<1> HIDE DEF a
<1>3. b \in Dates
  BY <1>2, DateSet
<1> HIDE DEF b
<1>4. c \in Dates
  BY <1>3, DateSet
<1> HIDE DEF c
<1> QED
  BY <1>1, <1>3, <1>4

LEMMA DaySet ==
  ASSUME NEW tp \in Dates, NEW m \in 0 .. 11, NEW f \in 0 .. 30, NEW y \in Nat
  PROVE  /\ [tp EXCEPT !.Day = f, !.Month = m] \in Dates
         /\ [tp EXCEPT !.Day = f, !.Month = m, !.Year = y] \in Dates
<1> DEFINE a == [tp EXCEPT !.Day = f]
           b == [a EXCEPT !.Month = m]
           c == [b EXCEPT !.Year = y]
<1>1. b = [tp EXCEPT !.Day = f, !.Month = m]
      /\ c = [tp EXCEPT !.Day = f, !.Month = m, !.Year = y]
  BY SMT
<1>2. a \in Dates
  BY DateSet
<1> HIDE DEF a
<1>3. b \in Dates
  BY <1>2, DateSet
<1> HIDE DEF b
<1>4. c \in Dates
  BY <1>3, DateSet
<1> HIDE DEF c
<1> QED
  BY <1>1, <1>3, <1>4

\* What the next second changes: nothing but the time of the day,
LEMMA LaterToday ==
  ASSUME NEW tp \in Dates, ~ (tp.Second = 59 /\ tp.Minute = 59 /\ tp.Hour = 23)
  PROVE  LET q == SecondLater(tp) IN
         /\ q \in Dates
         /\ q.Year = tp.Year /\ q.Month = tp.Month /\ q.Day = tp.Day
         /\ 3600 * q.Hour + 60 * q.Minute + q.Second
              = (3600 * tp.Hour + 60 * tp.Minute + tp.Second) + 1
<1> DEFINE q == SecondLater(tp)
<1>1. PICK h \in 0 .. 23, n \in 0 .. 59, x \in 0 .. 59 :
        h = tp.Hour /\ n = tp.Minute /\ x = tp.Second
  BY DateFields
<1>2. CASE x < 59
  <2>1. q = [tp EXCEPT !.Second = x + 1]
    BY <1>1, <1>2, SMT DEF SecondLater
  <2> HIDE DEF q
  <2>2. /\ q \in Dates /\ q.Year = tp.Year /\ q.Month = tp.Month /\ q.Day = tp.Day
        /\ q.Hour = h /\ q.Minute = n /\ q.Second = x + 1
    BY <1>1, <1>2, <2>1, SMT DEF Dates
  <2>3. 3600 * h + 60 * n + (x + 1) = (3600 * h + 60 * n + x) + 1
    BY SMT
  <2> QED
    BY <1>1, <2>2, <2>3, SMT DEF q
<1>3. CASE ~ (x < 59) /\ n < 59
  <2>1. q = [tp EXCEPT !.Second = 0, !.Minute = n + 1]
    BY <1>1, <1>3, SMT DEF SecondLater
  <2> HIDE DEF q
  <2>2. /\ q.Year = tp.Year /\ q.Month = tp.Month /\ q.Day = tp.Day
        /\ q.Hour = h /\ q.Minute = n + 1 /\ q.Second = 0
    BY <1>1, <2>1, SMT DEF Dates
  <2>4. n + 1 \in 0 .. 59 /\ 0 \in 0 .. 59
    BY <1>3
  <2>5. q \in Dates
    BY <2>1, <2>4, TimeOfDaySet
  <2>3. 3600 * h + 60 * (n + 1) + 0 = (3600 * h + 60 * n + x) + 1
    BY <1>3, SMT
  <2> QED
    BY <1>1, <2>2, <2>3, <2>5, SMT DEF q
<1>4. CASE ~ (x < 59) /\ ~ (n < 59)
  <2>0. h < 23
    BY <1>1, <1>4
  <2>1. q = [tp EXCEPT !.Second = 0, !.Minute = 0, !.Hour = h + 1]
    BY <1>1, <1>4, <2>0, SMT DEF SecondLater
  <2> HIDE DEF q
  <2>2. /\ q.Year = tp.Year /\ q.Month = tp.Month /\ q.Day = tp.Day
        /\ q.Hour = h + 1 /\ q.Minute = 0 /\ q.Second = 0
    BY <2>1, SMT DEF Dates
  <2>4. h + 1 \in 0 .. 23 /\ 0 \in 0 .. 59
    BY <2>0
  <2>5. q \in Dates
    BY <2>1, <2>4, TimeOfDaySet
  <2>3. 3600 * (h + 1) + 60 * 0 + 0 = (3600 * h + 60 * n + x) + 1
    BY <1>4, SMT
  <2> QED
    BY <1>1, <2>2, <2>3, <2>5, SMT DEF q
<1> QED
  BY <1>2, <1>3, <1>4

\* or, at midnight, the day, the month and the year.
MidnightAfter(q, tp) ==
  /\ q \in Dates
  /\ q.Hour = 0 /\ q.Minute = 0 /\ q.Second = 0
  /\ \/ /\ tp.Day < MonthLength(tp.Year, tp.Month) - 1
        /\ q.Year = tp.Year /\ q.Month = tp.Month /\ q.Day = tp.Day + 1
     \/ /\ tp.Day = MonthLength(tp.Year, tp.Month) - 1 /\ tp.Month < 11
        /\ q.Year = tp.Year /\ q.Month = tp.Month + 1 /\ q.Day = 0
     \/ /\ tp.Day = MonthLength(tp.Year, tp.Month) - 1 /\ tp.Month = 11
        /\ q.Year = tp.Year + 1 /\ q.Month = 0 /\ q.Day = 0

LEMMA Tomorrow ==
  ASSUME NEW tp, Proper(tp), tp.Second = 59, tp.Minute = 59, tp.Hour = 23
  PROVE  MidnightAfter(SecondLater(tp), tp)
<1>0. tp \in Dates
  BY DEF Proper
<1>9. PICK y \in Nat, m \in 0 .. 11, f \in 0 .. 30, l \in 28 .. 31 :
        /\ y = tp.Year /\ m = tp.Month /\ f = tp.Day /\ l = MonthLength(y, m)
        /\ f < l
  BY DateFields, MonthLengthRange DEF Proper
<1> DEFINE q == SecondLater(tp)
           midnight == [tp EXCEPT !.Second = 0, !.Minute = 0, !.Hour = 0]
<1>1. q = IF f < l - 1 THEN [midnight EXCEPT !.Day = @ + 1]
          ELSE IF m < 11 THEN [midnight EXCEPT !.Day = 0, !.Month = @ + 1]
          ELSE [midnight EXCEPT !.Day = 0, !.Month = 0, !.Year = @ + 1]
  BY <1>9, SMT DEF SecondLater
<1>2. /\ midnight \in Dates
      /\ midnight.Year = y /\ midnight.Month = m /\ midnight.Day = f
      /\ midnight.Hour = 0 /\ midnight.Minute = 0 /\ midnight.Second = 0
  <2>1. 0 \in 0 .. 59 /\ 0 \in 0 .. 23
    OBVIOUS
  <2>2. midnight \in Dates
    BY <1>0, <2>1, TimeOfDaySet
  <2>3. /\ midnight.Year = y /\ midnight.Month = m /\ midnight.Day = f
        /\ midnight.Hour = 0 /\ midnight.Minute = 0 /\ midnight.Second = 0
    BY <1>0, <1>9, SMT DEF Dates
  <2> QED
    BY <2>2, <2>3
<1> HIDE DEF q, midnight
<1>3. CASE f < l - 1
  <2>1. q = [midnight EXCEPT !.Day = f + 1]
    BY <1>1, <1>2, <1>3
  <2>2. f + 1 \in 0 .. 30
    BY <1>3, SMT
  <2>3. /\ q \in Dates
        /\ q.Hour = 0 /\ q.Minute = 0 /\ q.Second = 0
        /\ q.Year = y /\ q.Month = m /\ q.Day = f + 1
    BY <1>2, <2>1, <2>2, SMT DEF Dates
  <2> QED
    BY <1>3, <1>9, <2>3, SMT DEF q, MidnightAfter
<1>4. CASE ~ (f < l - 1) /\ m < 11
  <2>1. q = [midnight EXCEPT !.Day = 0, !.Month = m + 1]
    BY <1>1, <1>2, <1>4
  <2>2. m + 1 \in 0 .. 11
    BY <1>4, SMT
  <2>3. /\ q.Hour = 0 /\ q.Minute = 0 /\ q.Second = 0
        /\ q.Year = y /\ q.Month = m + 1 /\ q.Day = 0
    BY <1>2, <2>1, SMT DEF Dates
  <2>4. q \in Dates
    <3>1. 0 \in 0 .. 30
      OBVIOUS
    <3> QED
      BY <1>2, <2>1, <2>2, <3>1, DaySet
  <2> QED
    BY <1>4, <1>9, <2>3, <2>4, SMT DEF q, MidnightAfter
<1>5. CASE ~ (f < l - 1) /\ ~ (m < 11)
  <2>1. q = [midnight EXCEPT !.Day = 0, !.Month = 0, !.Year = y + 1]
    BY <1>1, <1>2, <1>5
  <2>3. /\ q.Hour = 0 /\ q.Minute = 0 /\ q.Second = 0
        /\ q.Year = y + 1 /\ q.Month = 0 /\ q.Day = 0
    BY <1>2, <2>1, SMT DEF Dates
  <2>4. 0 \in 0 .. 30 /\ 0 \in 0 .. 11 /\ y + 1 \in Nat
    OBVIOUS
  <2>5. q \in Dates
    BY <1>2, <2>1, <2>4, DaySet
  <2> QED
    BY <1>5, <1>9, <2>3, <2>5, SMT DEF q, MidnightAfter
<1> QED
  BY <1>3, <1>4, <1>5

\* The second after a date has a date, of the same year or the next.
LEMMA SecondLaterIsProper ==
  ASSUME NEW tp, Proper(tp)
  PROVE  LET q == SecondLater(tp) IN
         /\ Proper(q)
         /\ q.Year = tp.Year \/ q.Year = tp.Year + 1
<1>1. PICK y \in Nat, m \in 0 .. 11, f \in 0 .. 30, l \in 28 .. 31 :
        /\ y = tp.Year /\ m = tp.Month /\ f = tp.Day /\ l = MonthLength(y, m)
        /\ f < l
  BY DateFields, MonthLengthRange DEF Proper
<1> DEFINE q == SecondLater(tp)
<1>2. tp \in Dates
  BY DEF Proper
<1>3. CASE ~ (tp.Second = 59 /\ tp.Minute = 59 /\ tp.Hour = 23)
  <2>1. q \in Dates /\ q.Year = tp.Year /\ q.Month = tp.Month /\ q.Day = tp.Day
    BY <1>2, <1>3, LaterToday
  <2> HIDE DEF q
  <2>2. Proper(q) /\ q.Year = tp.Year
    BY <1>1, <2>1 DEF Proper
  <2> QED
    BY <2>2 DEF q
<1>4. CASE tp.Second = 59 /\ tp.Minute = 59 /\ tp.Hour = 23
  <2>1. MidnightAfter(q, tp)
    BY <1>4, Tomorrow
  <2> HIDE DEF q
  <2>2. ASSUME f < l - 1
        PROVE  Proper(q) /\ (q.Year = tp.Year \/ q.Year = tp.Year + 1)
    <3>1. /\ q \in Dates /\ q.Year = y /\ q.Month = m /\ q.Day = f + 1
      BY <1>1, <2>1, <2>2 DEF MidnightAfter
    <3>2. f + 1 < l
      BY <2>2
    <3> QED
      BY <1>1, <3>1, <3>2 DEF Proper
  <2>3. ASSUME f = l - 1 /\ m < 11
        PROVE  Proper(q) /\ (q.Year = tp.Year \/ q.Year = tp.Year + 1)
    <3>1. /\ q \in Dates /\ q.Year = y /\ q.Month = m + 1 /\ q.Day = 0
      BY <1>1, <2>1, <2>3 DEF MidnightAfter
    <3>2. MonthLength(y, m + 1) \in 28 .. 31
      <4>1. m + 1 \in 0 .. 11
        BY <2>3
      <4> QED
        BY <4>1, MonthLengthRange
    <3>3. 0 < MonthLength(y, m + 1)
      BY <3>2
    <3> QED
      BY <1>1, <3>1, <3>3 DEF Proper
  <2>4. ASSUME f = l - 1 /\ m = 11
        PROVE  Proper(q) /\ (q.Year = tp.Year \/ q.Year = tp.Year + 1)
    <3>1. /\ q \in Dates /\ q.Year = y + 1 /\ q.Month = 0 /\ q.Day = 0
      BY <1>1, <2>1, <2>4 DEF MidnightAfter
    <3>2. 0 < MonthLength(y + 1, 0)
      BY MonthLengthRange
    <3> QED
      BY <1>1, <3>1, <3>2 DEF Proper
  <2>5. Proper(q) /\ (q.Year = tp.Year \/ q.Year = tp.Year + 1)
    BY <1>1, <2>1, <2>2, <2>3, <2>4
  <2> QED
    BY <2>5 DEF q
<1> QED
  BY <1>3, <1>4

\* The time of the second after a date is the next second.
LEMMA NextDate ==
  ASSUME NEW tp, Proper(tp), tp.Year <= 135
  PROVE  makeTime(SecondLater(tp)) = NextSecond(makeTime(tp))
<1>1. PICK y \in Nat, m \in 0 .. 11, f \in 0 .. 30, l \in Nat :
        /\ y = tp.Year /\ m = tp.Month /\ f = tp.Day /\ l = MonthLength(y, m)
        /\ f < l /\ y <= 135
  BY DateFields, MonthLengthRange DEF Proper
<1>2. PICK h \in 0 .. 23, n \in 0 .. 59, x \in 0 .. 59 :
        h = tp.Hour /\ n = tp.Minute /\ x = tp.Second
  BY DateFields DEF Proper
<1> DEFINE q == SecondLater(tp)
           At(z) == Days(z.Year) + DaysBeforeMonth(z.Year)[z.Month] + z.Day
           Of(z) == 3600 * z.Hour + 60 * z.Minute + z.Second
<1>3. Proper(q) /\ q.Year <= 136
  BY <1>1, SecondLaterIsProper
<1>4. makeTime(tp) = Time(At(tp), Of(tp)) /\ At(tp) \in Nat /\ Of(tp) \in Nat
  <2> HIDE DEF Days
  <2> QED
    BY <1>1, MakeTimeIs, SMT
<1>5. makeTime(q) = Time(At(q), Of(q))
  <2> HIDE DEF Days, q
  <2> QED
    BY <1>3, MakeTimeIs, SMT
<1>6. NextSecond(Time(At(tp), Of(tp))) =
        IF Of(tp) = 86399 THEN Time(At(tp) + 1, 0) ELSE Time(At(tp), Of(tp) + 1)
  BY TimeFields, SMT DEF NextSecond
<1>7. ASSUME ~ (x = 59 /\ n = 59 /\ h = 23)
      PROVE  At(q) = At(tp) /\ Of(q) = Of(tp) + 1 /\ Of(tp) # 86399
  <2>1. /\ q.Year = y /\ q.Month = m /\ q.Day = f
        /\ 3600 * q.Hour + 60 * q.Minute + q.Second = (3600 * h + 60 * n + x) + 1
    <3>1. tp \in Dates /\ ~ (tp.Second = 59 /\ tp.Minute = 59 /\ tp.Hour = 23)
      BY <1>2, <1>7 DEF Proper
    <3>2. /\ q.Year = tp.Year /\ q.Month = tp.Month /\ q.Day = tp.Day
          /\ 3600 * q.Hour + 60 * q.Minute + q.Second
               = (3600 * tp.Hour + 60 * tp.Minute + tp.Second) + 1
      BY <3>1, LaterToday, SMT
    <3> HIDE DEF q
    <3> QED
      BY <1>1, <1>2, <3>2, SMT
  <2>2. 3600 * h + 60 * n + x # 86399
    BY <1>7, SMT
  <2> HIDE DEF q
  <2> QED
    BY <1>1, <1>2, <2>1, <2>2, SMT
<1>8. ASSUME x = 59 /\ n = 59 /\ h = 23
      PROVE  At(q) = At(tp) + 1 /\ Of(q) = 0 /\ Of(tp) = 86399
  <2>1. Of(tp) = 86399
    BY <1>2, <1>8, SMT
  <2>9. MidnightAfter(q, tp)
    BY <1>2, <1>8, Tomorrow
  <2>2. q.Hour = 0 /\ q.Minute = 0 /\ q.Second = 0
    <3> HIDE DEF q
    <3> QED
      BY <2>9 DEF MidnightAfter
  <2>3. Of(q) = 0
    <3> HIDE DEF q
    <3> QED
      BY <2>2, SMT
  <2>4. PICK a \in Nat, b \in Nat : a = Days(y) /\ b = DaysBeforeMonth(y)[m]
          /\ DaysBeforeMonth(y)[m + 1] = b + l
    <3>1. m \in 0 .. 12
      BY SMT
    <3>2. DaysBeforeMonth(y)[m] \in Nat
      BY <3>1, MonthsAreDays
    <3>3. DaysBeforeMonth(y)[m + 1] = DaysBeforeMonth(y)[m] + l
      BY <1>1, MonthsBefore
    <3>4. Days(y) \in Nat
      BY DaysOfYears
    <3> QED
      BY <3>2, <3>3, <3>4
  <2>5. At(tp) = a + b + f
    BY <1>1, <2>4
  <2>6. CASE f < l - 1
    <3> HIDE DEF q
    <3>1. q.Year = y /\ q.Month = m /\ q.Day = f + 1
      BY <1>1, <2>6, <2>9 DEF MidnightAfter
    <3>2. At(q) = a + b + (f + 1)
      BY <2>4, <3>1
    <3> QED
      BY <2>1, <2>3, <2>5, <3>2, SMT
  <2>7. CASE f = l - 1 /\ m < 11
    <3> HIDE DEF q
    <3>1. q.Year = y /\ q.Month = m + 1 /\ q.Day = 0
      BY <1>1, <2>7, <2>9 DEF MidnightAfter
    <3>2. At(q) = a + (b + l) + 0
      BY <2>4, <3>1
    <3>3. l = f + 1
      BY <2>7
    <3> QED
      BY <2>1, <2>3, <2>5, <3>2, <3>3, SMT
  <2>8. CASE f = l - 1 /\ m = 11
    <3> HIDE DEF q
    <3>1. q.Year = y + 1 /\ q.Month = 0 /\ q.Day = 0
      BY <1>1, <2>8, <2>9 DEF MidnightAfter
    <3>2. l = f + 1 /\ m = 11 /\ m + 1 = 12
      BY <2>8
    <3>3. Days(y + 1) = a + YearLength(y)
      BY <2>4, DaysOfNextYear
    <3>4. DaysBeforeMonth(y)[12] = YearLength(y) /\ DaysBeforeMonth(y + 1)[0] = 0
      BY MonthsFillYear
    <3>5. YearLength(y) = b + l
      BY <2>4, <3>2, <3>4
    <3>6. At(q) = (a + (b + l)) + 0 + 0
      BY <3>1, <3>3, <3>4, <3>5
    <3> QED
      BY <2>1, <2>3, <2>5, <3>2, <3>6, SMT
  <2> QED
    BY <1>1, <2>6, <2>7, <2>8
<1> HIDE DEF q, At, Of
<1> QED
  BY <1>4, <1>5, <1>6, <1>7, <1>8, SMT DEF q

-----------------------------------------------------------------------------
(* The date in the menu, and after a game.                                 *)

\* What keys may make of a date before it is corrected.
Keyed == [Year : 0 .. 255, Month : 0 .. 255, Day : 0 .. 255,
          Hour : 0 .. 255, Minute : 0 .. 255, Second : 0 .. 59]
OfByteYear(tp) == Proper(tp) /\ tp.Year <= 255

LEMMA AtMostIs ==
  ASSUME NEW v \in 0 .. 255, NEW l \in 0 .. 255
  PROVE  AtMost(v, l) \in 0 .. l /\ (v <= l => AtMost(v, l) = v)
  BY DEF AtMost

\* sanitizeRTCReal makes a date of the calendar of whatever was keyed in.
LEMMA SanitizedIsProper ==
  ASSUME NEW r \in Keyed
  PROVE  /\ OfByteYear(sanitizeRTCReal(r))
         /\ sanitizeRTCReal(r).Year = r.Year
<1> DEFINE m == AtMost(r.Month, 11)
           l == MaxDay(r.Year, m)
           f == AtMost(r.Day, l)
           h == AtMost(r.Hour, 23)
           n == AtMost(r.Minute, 59)
           q == sanitizeRTCReal(r)
<1>1. /\ r.Year \in 0 .. 255 /\ r.Month \in 0 .. 255 /\ r.Day \in 0 .. 255
      /\ r.Hour \in 0 .. 255 /\ r.Minute \in 0 .. 255 /\ r.Second \in 0 .. 59
  BY DEF Keyed
<1>2. m \in 0 .. 11
  <2>1. 11 \in 0 .. 255
    OBVIOUS
  <2> QED
    BY <1>1, <2>1, AtMostIs
<1>3. r.Year \in Nat /\ r.Year <= 255
  BY <1>1
<1> HIDE DEF m
<1>4. MonthLength(r.Year, m) \in 28 .. 31 /\ l = MonthLength(r.Year, m) - 1
  BY <1>2, <1>3, MonthLengthRange
<1> HIDE DEF l
<1>5. l \in 0 .. 255 /\ l <= 30 /\ l < MonthLength(r.Year, m)
  BY <1>4
<1>6. f \in 0 .. l
  BY <1>1, <1>5, AtMostIs
<1>7. h \in 0 .. 23 /\ n \in 0 .. 59
  <2>1. 23 \in 0 .. 255 /\ 59 \in 0 .. 255
    OBVIOUS
  <2> QED
    BY <1>1, <2>1, AtMostIs
<1>8. q = [Year |-> r.Year, Month |-> m, Day |-> f, Hour |-> h, Minute |-> n,
           Second |-> r.Second]
  <2>1. q = [r EXCEPT !.Month = m, !.Day = f, !.Hour = h, !.Minute = n]
    BY Zenon DEF sanitizeRTCReal, m, l
  <2>2. r = [Year |-> r.Year, Month |-> r.Month, Day |-> r.Day, Hour |-> r.Hour,
             Minute |-> r.Minute, Second |-> r.Second]
    BY DEF Keyed
  <2> HIDE DEF q, f, h, n
  <2> QED
    BY <2>1, <2>2
<1> HIDE DEF q, f, h, n
<1>9. f \in 0 .. 30 /\ f < MonthLength(r.Year, m)
  BY <1>4, <1>5, <1>6
<1>10. q \in Dates
  BY <1>1, <1>2, <1>3, <1>7, <1>8, <1>9 DEF Dates
<1>11. q.Year = r.Year /\ q.Month = m /\ q.Day = f
  BY <1>8
<1>12. OfByteYear(q) /\ q.Year = r.Year
  BY <1>3, <1>9, <1>10, <1>11 DEF OfByteYear, Proper
<1> QED
  BY <1>12 DEF q

\* A byte in a field of a date.
LEMMA FieldKeyed ==
  ASSUME NEW tp, OfByteYear(tp), NEW i \in 1 .. 5, NEW v \in 0 .. 255
  PROVE  /\ [tp EXCEPT ![Fields[i]] = v] \in Keyed
         /\ tp[Fields[i]] \in 0 .. 255
<1>1. tp \in Keyed
  <2>1. /\ tp.Year \in 0 .. 255 /\ tp.Month \in 0 .. 255 /\ tp.Day \in 0 .. 255
        /\ tp.Hour \in 0 .. 255 /\ tp.Minute \in 0 .. 255 /\ tp.Second \in 0 .. 59
        /\ tp = [Year |-> tp.Year, Month |-> tp.Month, Day |-> tp.Day,
                 Hour |-> tp.Hour, Minute |-> tp.Minute, Second |-> tp.Second]
    BY DateFields DEF OfByteYear, Proper
  <2> QED
    BY <2>1 DEF Keyed
<1>2. /\ Fields[1] = "Minute" /\ Fields[2] = "Hour" /\ Fields[3] = "Day"
      /\ Fields[4] = "Month" /\ Fields[5] = "Year"
  BY DEF Fields
<1>3. i = 1 \/ i = 2 \/ i = 3 \/ i = 4 \/ i = 5
  OBVIOUS
<1>4. CASE i = 1
  BY <1>1, <1>2, <1>4 DEF Keyed
<1>5. CASE i = 2
  BY <1>1, <1>2, <1>5 DEF Keyed
<1>6. CASE i = 3
  BY <1>1, <1>2, <1>6 DEF Keyed
<1>7. CASE i = 4
  BY <1>1, <1>2, <1>7 DEF Keyed
<1>8. CASE i = 5
  BY <1>1, <1>2, <1>8 DEF Keyed
<1> QED
  BY <1>3, <1>4, <1>5, <1>6, <1>7, <1>8

\* A field that starts again at zero leaves a date: the first month has as
\* many days as any.
LEMMA FieldCleared ==
  ASSUME NEW tp, OfByteYear(tp), NEW i \in 1 .. 4
  PROVE  OfByteYear([tp EXCEPT ![Fields[i]] = 0])
<1> DEFINE q == [tp EXCEPT ![Fields[i]] = 0]
<1>1. tp \in Dates /\ tp.Year <= 255 /\ tp.Day < MonthLength(tp.Year, tp.Month)
  BY DEF OfByteYear, Proper
<1>2. /\ Fields[1] = "Minute" /\ Fields[2] = "Hour" /\ Fields[3] = "Day"
      /\ Fields[4] = "Month"
  BY DEF Fields
<1>3. tp.Year \in Nat /\ tp.Month \in 0 .. 11 /\ tp.Day \in 0 .. 30
  BY <1>1, DateFields
<1>4. MonthLength(tp.Year, 0) = 31 /\ MonthLength(tp.Year, tp.Month) \in 28 .. 31
  BY <1>3, MonthLengths, MonthLengthRange
<1>5. i = 1 \/ i = 2 \/ i = 3 \/ i = 4
  OBVIOUS
<1>6. ASSUME i = 1 PROVE OfByteYear(q)
  <2>1. q = [tp EXCEPT !.Minute = 0]
    BY <1>2, <1>6
  <2> HIDE DEF q
  <2>2. q \in Dates
    BY <1>1, <2>1, 0 \in 0 .. 59, DateSet
  <2>3. q.Year = tp.Year /\ q.Month = tp.Month /\ q.Day = tp.Day
    BY <1>1, <2>1 DEF Dates
  <2> QED
    BY <1>1, <2>2, <2>3 DEF OfByteYear, Proper
<1>7. ASSUME i = 2 PROVE OfByteYear(q)
  <2>1. q = [tp EXCEPT !.Hour = 0]
    BY <1>2, <1>7
  <2> HIDE DEF q
  <2>2. q \in Dates
    BY <1>1, <2>1, 0 \in 0 .. 23, DateSet
  <2>3. q.Year = tp.Year /\ q.Month = tp.Month /\ q.Day = tp.Day
    BY <1>1, <2>1 DEF Dates
  <2> QED
    BY <1>1, <2>2, <2>3 DEF OfByteYear, Proper
<1>8. ASSUME i = 3 PROVE OfByteYear(q)
  <2>1. q = [tp EXCEPT !.Day = 0]
    BY <1>2, <1>8
  <2> HIDE DEF q
  <2>2. q \in Dates
    BY <1>1, <2>1, 0 \in 0 .. 30, DateSet
  <2>3. q.Year = tp.Year /\ q.Month = tp.Month /\ q.Day = 0
    BY <1>1, <2>1 DEF Dates
  <2> QED
    BY <1>1, <1>4, <2>2, <2>3 DEF OfByteYear, Proper
<1>9. ASSUME i = 4 PROVE OfByteYear(q)
  <2>1. q = [tp EXCEPT !.Month = 0]
    BY <1>2, <1>9
  <2> HIDE DEF q
  <2>2. q \in Dates
    BY <1>1, <2>1, 0 \in 0 .. 11, DateSet
  <2>3. q.Year = tp.Year /\ q.Month = 0 /\ q.Day = tp.Day
    BY <1>1, <2>1 DEF Dates
  <2> QED
    BY <1>1, <1>3, <1>4, <2>2, <2>3 DEF OfByteYear, Proper
<1> QED
  BY <1>5, <1>6, <1>7, <1>8, <1>9

\* Whatever is keyed in, the menu's date stays one of the calendar's.
THEOREM EditorKeepsDate ==
  ASSUME NEW tp, OfByteYear(tp), NEW i \in 1 .. 5
  PROVE  /\ OfByteYear(FieldUp(tp, Fields[i]))
         /\ OfByteYear(FieldDown(tp, Fields[i]))
<1> DEFINE more == (tp[Fields[i]] + 1) % 256
           less == (tp[Fields[i]] + 255) % 256
           up == [tp EXCEPT ![Fields[i]] = more]
           down == [tp EXCEPT ![Fields[i]] = less]
           new == sanitizeRTCReal(up)
<1>1. tp[Fields[i]] \in 0 .. 255
  <2>1. 0 \in 0 .. 255
    OBVIOUS
  <2> QED
    BY <2>1, FieldKeyed
<1>2. more \in 0 .. 255 /\ less \in 0 .. 255
  BY <1>1
<1> HIDE DEF more, less
<1>3. up \in Keyed /\ down \in Keyed
  BY <1>2, FieldKeyed
<1>4. OfByteYear(sanitizeRTCReal(down))
  <2> HIDE DEF down
  <2> QED
    BY <1>3, SanitizedIsProper
<1>5. OfByteYear(new) /\ new.Year = up.Year
  <2> HIDE DEF up
  <2> QED
    BY <1>3, SanitizedIsProper
<1>6. i = 5 => up.Year = more
  <2>1. tp \in Dates /\ Fields[5] = "Year"
    BY DEF OfByteYear, Proper, Fields
  <2> QED
    BY <2>1 DEF Dates
<1>7. FieldDown(tp, Fields[i]) = sanitizeRTCReal(down)
  BY Zenon DEF FieldDown, less
<1>8. FieldUp(tp, Fields[i]) =
        IF new[Fields[i]] = more - 1 THEN [new EXCEPT ![Fields[i]] = 0] ELSE new
  BY Zenon DEF FieldUp, more
<1> HIDE DEF up, down, new
<1>9. CASE i \in 1 .. 4
  BY <1>4, <1>5, <1>7, <1>8, <1>9, FieldCleared
<1>10. CASE i = 5
  <2>1. Fields[5] = "Year"
    BY DEF Fields
  <2>2. new.Year # more - 1
    BY <1>2, <1>5, <1>6, <1>10
  <2>3. FieldUp(tp, Fields[i]) = new
    BY <1>8, <1>10, <2>1, <2>2
  <2> QED
    BY <1>4, <1>5, <1>7, <2>3
<1> QED
  BY <1>9, <1>10

(* The menu shows a date of the calendar; in a game g_rtcTimestamp is the  *)
(* time of the date that the next menu should show.                        *)
DateInv ==
  /\ phase \in {"menu", "game"}
  /\ selectionX \in 1 .. 5
  /\ sinceTimestamp \in Nat
  /\ rtcTimestamp \in Times
  /\ phase = "menu" => OfByteYear(timePoint)
  /\ phase = "game" => /\ Proper(shown)
                       /\ shown.Year <= 135 => rtcTimestamp = makeTime(shown)

LEMMA DateBegins == Init => DateInv
<1> SUFFICES ASSUME Init PROVE DateInv
  OBVIOUS
<1>1. globalTimestamp \in Times
  BY ClockAssumption DEF Init
<1>2. timePoint = breakTime(globalTimestamp)
  BY DEF Init
<1>3. OfByteYear(timePoint)
  BY <1>1, <1>2, DateOfTime DEF OfByteYear
<1>4. rtcTimestamp \in Times
  <2>1. rtcTimestamp = Time(0, 0)
    BY DEF Init
  <2> QED
    BY <2>1, TimeIs, SMT
<1>5. phase = "menu" /\ selectionX = 1 /\ sinceTimestamp = 0
  BY DEF Init
<1> QED
  BY <1>3, <1>4, <1>5 DEF DateInv

\* The last second of a day, or another.
LEMMA NextSecondType ==
  ASSUME NEW t \in Times
  PROVE  NextSecond(t) \in Times
<1>1. t.days \in Nat /\ t.seconds \in Nat /\ t.seconds < 86400
  BY TimesAre, SMT
<1>2. CASE t.seconds = 86399
  <2>1. NextSecond(t) = Time(t.days + 1, 0)
    BY <1>2, SMT DEF NextSecond
  <2>2. t.days + 1 \in Nat
    BY <1>1, SMT
  <2> QED
    BY <2>1, <2>2, TimeIs, SMT
<1>3. CASE t.seconds # 86399
  <2>1. NextSecond(t) = Time(t.days, t.seconds + 1)
    BY <1>3, SMT DEF NextSecond
  <2>2. PICK d \in Nat, s \in Nat : d = t.days /\ s = t.seconds + 1 /\ s < 86400
    BY <1>1, <1>3, SMT
  <2>3. NextSecond(t) = Time(d, s)
    BY <2>1, <2>2
  <2>5. s < 86400
    BY <2>2
  <2>4. Time(d, s) \in Times
    BY <2>5, TimeIs, SMT
  <2> QED
    BY <2>3, <2>4
<1> QED
  BY <1>2, <1>3

LEMMA DateStep ==
  ASSUME DateInv, [Next]_vars
  PROVE  DateInv'
<1>1. CASE Up \/ Down
  <2>1. /\ phase = "menu" /\ phase' = phase /\ sinceTimestamp' = sinceTimestamp
        /\ rtcTimestamp' = rtcTimestamp /\ shown' = shown /\ selectionX' = selectionX
    BY <1>1 DEF Up, Down, Press, tickVars
  <2>2. timePoint' = FieldUp(timePoint, Fields[selectionX])
        \/ timePoint' = FieldDown(timePoint, Fields[selectionX])
    BY <1>1 DEF Up, Down
  <2>3. OfByteYear(timePoint) /\ selectionX \in 1 .. 5
    BY <2>1 DEF DateInv
  <2>4. OfByteYear(timePoint')
    BY <2>2, <2>3, EditorKeepsDate
  <2> QED
    BY <2>1, <2>4 DEF DateInv
<1>2. CASE Left \/ Right
  <2>1. /\ phase' = phase /\ sinceTimestamp' = sinceTimestamp
        /\ rtcTimestamp' = rtcTimestamp /\ shown' = shown /\ timePoint' = timePoint
        /\ selectionX' \in 1 .. 5
    BY <1>2 DEF Left, Right, Press, tickVars, DateInv
  <2> QED
    BY <2>1 DEF DateInv
<1>3. CASE \E file \in RegisterFiles, gap \in Gaps, menuMillies \in MenuMillies :
             StartGame(file, gap, menuMillies)
  <2>1. PICK menuMillies \in MenuMillies :
          /\ phase = "menu" /\ phase' = "game" /\ shown' = timePoint
          /\ rtcTimestamp' = makeTime(timePoint)
          /\ sinceTimestamp' = menuMillies /\ selectionX' = selectionX
    BY <1>3 DEF StartGame
  <2>2. sinceTimestamp' \in Nat
    BY <2>1, ClockAssumption
  <2>3. OfByteYear(timePoint)
    BY <2>1 DEF DateInv
  <2>4. makeTime(timePoint) \in Times
    BY <2>3, MakeTimeIs, SMT DEF OfByteYear
  <2>5. Proper(shown') /\ rtcTimestamp' = makeTime(shown') /\ rtcTimestamp' \in Times
    BY <2>1, <2>3, <2>4 DEF OfByteYear
  <2> QED
    BY <2>1, <2>2, <2>5 DEF DateInv
<1>4. CASE TimePasses
  BY <1>4 DEF TimePasses, menuVars, DateInv
<1>5. CASE GbRtc_PerformRtcTick
  <2> DEFINE stamp == sinceTimestamp >= MilliesPerSecond
  <2>1. /\ phase = "game" /\ phase' = phase /\ selectionX' = selectionX
        /\ timePoint' = timePoint
        /\ rtcTimestamp' = IF stamp THEN NextSecond(rtcTimestamp) ELSE rtcTimestamp
        /\ sinceTimestamp' = IF stamp THEN 0 ELSE sinceTimestamp
        /\ shown' = IF stamp THEN SecondLater(shown) ELSE shown
    BY <1>5 DEF GbRtc_PerformRtcTick, menuVars
  <2>2. CASE ~ stamp
    BY <2>1, <2>2 DEF DateInv
  <2>3. CASE stamp
    <3>1. /\ rtcTimestamp' = NextSecond(rtcTimestamp) /\ sinceTimestamp' = 0
          /\ shown' = SecondLater(shown)
      BY <2>1, <2>3
    <3>2. Proper(shown) /\ rtcTimestamp \in Times
      BY <2>1 DEF DateInv
    <3>3. /\ Proper(SecondLater(shown))
          /\ SecondLater(shown).Year = shown.Year
             \/ SecondLater(shown).Year = shown.Year + 1
      BY <3>2, SecondLaterIsProper
    <3>4. shown.Year \in Nat
      BY <3>2, DateFields DEF Proper
    <3>5. ASSUME SecondLater(shown).Year <= 135
          PROVE  NextSecond(rtcTimestamp) = makeTime(SecondLater(shown))
      <4>1. shown.Year <= 135
        BY <3>3, <3>4, <3>5
      <4>2. rtcTimestamp = makeTime(shown)
        BY <2>1, <4>1 DEF DateInv
      <4> QED
        BY <3>2, <4>1, <4>2, NextDate
    <3>6. NextSecond(rtcTimestamp) \in Times
      BY <3>2, NextSecondType
    <3>7. Proper(shown') /\ rtcTimestamp' \in Times
          /\ (shown'.Year <= 135 => rtcTimestamp' = makeTime(shown'))
      BY <3>1, <3>3, <3>5, <3>6
    <3> QED
      BY <2>1, <3>1, <3>7 DEF DateInv
  <2> QED
    BY <2>2, <2>3
<1>6. CASE \E register \in 0 .. 7 : GbRtc_ActivateRegister(register)
  BY <1>6 DEF GbRtc_ActivateRegister, menuVars, tickVars, DateInv
<1>7. CASE \E value \in Values : GbRtc_WriteRegister(value)
  BY <1>7 DEF GbRtc_WriteRegister, menuVars, DateInv
<1>8. CASE Restart
  <2>1. /\ phase' = "menu" /\ timePoint' = breakTime(rtcTimestamp)
        /\ selectionX' = 1 /\ sinceTimestamp' = 0
        /\ rtcTimestamp' = rtcTimestamp /\ rtcTimestamp \in Times
    BY <1>8 DEF Restart, DateInv
  <2>2. OfByteYear(timePoint')
    BY <2>1, DateOfTime DEF OfByteYear
  <2> QED
    BY <2>1, <2>2 DEF DateInv
<1>9. CASE UNCHANGED vars
  BY <1>9 DEF vars, menuVars, tickVars, DateInv
<1> QED
  BY <1>1, <1>2, <1>3, <1>4, <1>5, <1>6, <1>7, <1>8, <1>9 DEF Next

LEMMA DateInvariant == Spec => []DateInv
<1>1. DateInv /\ [Next]_vars => DateInv'
  BY DateStep
<1> QED
  BY DateBegins, <1>1, PTL DEF Spec

\* A date of the calendar is one of its fields' ranges.
LEMMA OfByteYearIsValid ==
  ASSUME NEW tp, OfByteYear(tp)
  PROVE  Valid(tp)
<1>1. tp \in Dates /\ tp.Year <= 255 /\ tp.Day < MonthLength(tp.Year, tp.Month)
  BY DEF OfByteYear, Proper
<1>2. MonthLength(tp.Year, tp.Month) \in 28 .. 31
  BY <1>1, DateFields, MonthLengthRange
<1>3. tp.Year \in 0 .. 255 /\ tp.Day \in 0 .. MonthLength(tp.Year, tp.Month) - 1
  BY <1>1, <1>2, DateFields
<1> QED
  BY <1>1, <1>3, DateFields DEF Valid

\* Whatever time the cartridge knew at first and whatever was keyed in, the
\* menu's date is one of the calendar's; whatever a game wrote, the registers
\* keep their widths (breakTime, sanitizeRTCReal, GbRtc_WriteRegister).
THEOREM ClockTypeOK == Spec => []TypeOK
<1>1. ASSUME ClockInv, DateInv PROVE TypeOK
  <2>1. MilliesPerSecond \in Nat \ {0}
    BY ClockAssumption
  <2>2. millies \in 0 .. MilliesPerSecond
    BY <1>1, <2>1 DEF ClockInv, ClockTypes
  <2>3. phase = "menu" => Valid(timePoint)
    BY <1>1, OfByteYearIsValid DEF DateInv
  <2> QED
    BY <1>1, <2>2, <2>3 DEF TypeOK, ClockInv, ClockTypes, DateInv
<1> QED
  BY <1>1, ClockInvariant, DateInvariant, PTL

\* The menu after a game shows the date that was set before it, later by the
\* seconds that the main loop counted, for every date to the end of 2105 and
\* a game of any length (makeTime, GbRtc_PerformRtcTick, breakTime).
THEOREM TheDateReturns == Spec => DateReturns
<1>1. ASSUME DateInv, Restart, shown.Year <= 135
      PROVE  timePoint' = shown
  <2>1. phase = "game" /\ timePoint' = breakTime(rtcTimestamp)
    BY <1>1 DEF Restart
  <2>2. Proper(shown) /\ rtcTimestamp = makeTime(shown)
    BY <1>1, <2>1 DEF DateInv
  <2> QED
    BY <1>1, <2>1, <2>2, DateOfMadeTime
<1>2. DateInv => [Restart /\ shown.Year <= 135 => timePoint' = shown]_vars
  BY <1>1
<1> QED
  BY <1>2, DateInvariant, PTL DEF DateReturns
=============================================================================
