------------------------------ MODULE Calendar ------------------------------
(***************************************************************************)
(* Dates and times as the cartridge converts them: makeTime and breakTime  *)
(* of GbRtc.c and the corrections of the menu's date editor                *)
(* (sanitizeRTCReal in bootloader.c).                                      *)
(*                                                                         *)
(* A number of seconds since 1970 is a pair of days and seconds, since 2^32*)
(* seconds are more than TLC counts to.                                    *)
(***************************************************************************)
EXTENDS Integers, Sequences, FiniteSets

Times == [days : Nat, seconds : {s \in Nat : s < 86400}]

Time(days, seconds) == [days |-> days, seconds |-> seconds]

(* 2^32 seconds. *)
Wrap == Time(49710, 23296)

(* A time after b days and s seconds more, or less; the same as s < 86400. *)
Minus(t, u) ==
  IF t.seconds >= u.seconds
  THEN Time(t.days - u.days, t.seconds - u.seconds)
  ELSE Time(t.days - u.days - 1, t.seconds + 86400 - u.seconds)

Earlier(t, u) == t.days < u.days \/ (t.days = u.days /\ t.seconds < u.seconds)

(* A time in 32 bits: what is left without the times that 2^32 fits in it. *)
Wraps(n) == Time(n * Wrap.days + (n * Wrap.seconds) \div 86400,
                 (n * Wrap.seconds) % 86400)
Truncated(t) ==
  LET n == CHOOSE n \in 0 .. t.days \div Wrap.days :
             ~ Earlier(t, Wraps(n)) /\ Earlier(t, Wraps(n + 1))
  IN Minus(t, Wraps(n))

NextSecond(t) ==
  IF t.seconds = 86399 THEN Time(t.days + 1, 0) ELSE Time(t.days, t.seconds + 1)

-----------------------------------------------------------------------------
(* Years count from 1970, months and days from 0. *)

LEAP_YEAR(year) ==
  /\ (1970 + year) % 4 = 0
  /\ (1970 + year) % 100 # 0 \/ (1970 + year) % 400 = 0

monthDays == << 31, 28, 31, 30, 31, 30, 31, 31, 30, 31, 30, 31 >>

MonthLength(year, month) ==
  IF month = 1 /\ LEAP_YEAR(year) THEN 29 ELSE monthDays[month + 1]

DaysBeforeYear(year) ==
  365 * year + Cardinality({y \in 0 .. year - 1 : LEAP_YEAR(y)})

DaysBeforeMonth(year) ==
  LET days[month \in 0 .. 12] ==
        IF month = 0 THEN 0
        ELSE days[month - 1] + MonthLength(year, month - 1)
  IN days

(* Wrong: the leap day of the year itself is left out. *)
makeTime_NoLeapDay(tp) ==
  Time(DaysBeforeYear(tp.Year) + DaysBeforeMonth(1)[tp.Month] + tp.Day,
       3600 * tp.Hour + 60 * tp.Minute + tp.Second)

(* The days of the years before are first counted in 32 bits. *)
makeTime(tp) ==
  LET t == Time(DaysBeforeYear(tp.Year) + DaysBeforeMonth(tp.Year)[tp.Month]
                  + tp.Day,
                3600 * tp.Hour + 60 * tp.Minute + tp.Second)
  IN IF Earlier(Time(365 * tp.Year, 0), Wrap) THEN t ELSE Minus(t, Wrap)

breakTime(input) ==
  LET t == Truncated(input)
      year == CHOOSE y \in t.days \div 366 .. t.days \div 365 :
                DaysBeforeYear(y) <= t.days /\ t.days < DaysBeforeYear(y + 1)
      day == t.days - DaysBeforeYear(year)
      before == DaysBeforeMonth(year)
      month == CHOOSE m \in 0 .. 11 : before[m] <= day /\ day < before[m + 1]
  IN [Year |-> year, Month |-> month, Day |-> day - before[month],
      Hour |-> t.seconds \div 3600, Minute |-> (t.seconds \div 60) % 60,
      Second |-> t.seconds % 60]

-----------------------------------------------------------------------------
(* The date editor. *)

(* Wrong: no year is a leap year that ends a century. *)
MaxDay_NoCentury(year, month) ==
  IF month = 1 THEN IF (1970 + year) % 4 = 0 THEN 28 ELSE 27
  ELSE IF (month < 7 /\ month % 2 = 1) \/ (month >= 7 /\ month % 2 = 0)
       THEN 29 ELSE 30

(* The last day of a month. *)
MaxDay(year, month) ==
  LET y == 1970 + year IN
  IF month = 1
  THEN IF y % 4 = 0 /\ (y % 100 # 0 \/ y % 400 = 0) THEN 28 ELSE 27
  ELSE IF (month < 7 /\ month % 2 = 1) \/ (month >= 7 /\ month % 2 = 0)
       THEN 29 ELSE 30

AtMost(value, limit) == IF value > limit THEN limit ELSE value

sanitizeRTCReal(tp) ==
  LET month == AtMost(tp.Month, 11) IN
  [tp EXCEPT !.Month = month,
             !.Day = AtMost(@, MaxDay(tp.Year, month)),
             !.Hour = AtMost(@, 23),
             !.Minute = AtMost(@, 59)]

Fields == << "Minute", "Hour", "Day", "Month", "Year" >>

(* One more; past the end the field starts again. *)
FieldUp(tp, field) ==
  LET more == (tp[field] + 1) % 256
      new == sanitizeRTCReal([tp EXCEPT ![field] = more])
  IN IF new[field] = more - 1 THEN [new EXCEPT ![field] = 0] ELSE new

(* One less; below 0 the byte wraps, and the field ends at its limit. *)
FieldDown(tp, field) ==
  sanitizeRTCReal([tp EXCEPT ![field] = (@ + 255) % 256])

Valid(tp) ==
  /\ tp.Year \in 0 .. 255
  /\ tp.Month \in 0 .. 11
  /\ tp.Day \in 0 .. MonthLength(tp.Year, tp.Month) - 1
  /\ tp.Hour \in 0 .. 23
  /\ tp.Minute \in 0 .. 59
  /\ tp.Second \in 0 .. 59

(* One second later, as the calendar has it. *)
SecondLater(tp) ==
  IF tp.Second < 59 THEN [tp EXCEPT !.Second = @ + 1]
  ELSE IF tp.Minute < 59 THEN [tp EXCEPT !.Second = 0, !.Minute = @ + 1]
  ELSE IF tp.Hour < 23 THEN [tp EXCEPT !.Second = 0, !.Minute = 0, !.Hour = @ + 1]
  ELSE LET midnight == [tp EXCEPT !.Second = 0, !.Minute = 0, !.Hour = 0] IN
       IF tp.Day < MonthLength(tp.Year, tp.Month) - 1
       THEN [midnight EXCEPT !.Day = @ + 1]
       ELSE IF tp.Month < 11 THEN [midnight EXCEPT !.Day = 0, !.Month = @ + 1]
       ELSE [midnight EXCEPT !.Day = 0, !.Month = 0, !.Year = @ + 1]
=============================================================================
