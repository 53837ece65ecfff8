------------------------------ MODULE MCClock -------------------------------
(* Times and registers around which the calendar and the clock turn over.  *)
EXTENDS Clock

File(days, daysHigh, hours, minutes, seconds, halt) ==
  [seconds |-> seconds, minutes |-> minutes, hours |-> hours, days |-> days,
   daysHigh |-> daysHigh, carry |-> 0, halt |-> halt]

(* February 29 2000, the ends of 2023 and of February 2024, the end  *)
(* of February 2100, and the last second of 32 bits.                       *)
MCFirstTimes ==
  {Time(11016, 43200), Time(19722, 86398), Time(19782, 86399),
   Time(47540, 86399), Time(49710, 23295)}

(* The ends of a day, of 256 and of 512 days, a file that no clock counts  *)
(* to, and a clock that is halted.                                         *)
MCRegisterFiles ==
  {File(7, 0, 23, 58, 59, 0), File(255, 0, 23, 59, 59, 0),
   File(255, 1, 23, 59, 58, 0), File(0, 1, 24, 61, 63, 0),
   File(3, 0, 23, 59, 59, 1)}
=============================================================================
