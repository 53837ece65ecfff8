------------------------------- MODULE GbRtc --------------------------------
(***************************************************************************)
(* The registers of the MBC3's clock and how they count (GbRtc.c).         *)
(***************************************************************************)
EXTENDS Naturals, Sequences

(* g_rtcReal: days in nine bits with a carry, and the bit that stops it.   *)
Registers == [seconds: 0 .. 63, minutes: 0 .. 63, hours: 0 .. 31,
              days: 0 .. 255, daysHigh: 0 .. 1, carry: 0 .. 1, halt: 0 .. 1]

Legal(r) == r.seconds < 60 /\ r.minutes < 60 /\ r.hours < 24

(* Seconds until the days start again. *)
Period == 512 * 86400

Seconds(r) ==
  r.seconds + 60 * r.minutes + 3600 * r.hours
  + 86400 * (r.days + 256 * r.daysHigh)

-----------------------------------------------------------------------------
(* Wrong: the ninth bit of the days is cleared with the others. *)
DayTick_NoNinthBit(r) ==
  LET days == (r.days + 1) % 256 IN
  [r EXCEPT !.hours = 0, !.days = days,
            !.carry = IF days = 0 THEN 1 ELSE @]

DayTick(r) ==
  LET days == (r.days + 1) % 256 IN
  [r EXCEPT !.hours = 0,
            !.days = days,
            !.carry = IF days = 0 /\ r.daysHigh = 1 THEN 1 ELSE @,
            !.daysHigh = IF days = 0 THEN 1 - @ ELSE @]

HourTick(r) ==
  LET hours == (r.hours + 1) % 32 IN
  IF hours = 24 THEN DayTick(r) ELSE [r EXCEPT !.hours = hours]

(* Hours are compared whenever a minute is over. *)
MinuteTick(r) ==
  LET minutes == (r.minutes + 1) % 64 IN
  IF minutes = 60 THEN HourTick([r EXCEPT !.minutes = 0])
  ELSE IF r.hours = 24 THEN DayTick([r EXCEPT !.minutes = minutes])
  ELSE [r EXCEPT !.minutes = minutes]

processTick(r) ==
  LET seconds == (r.seconds + 1) % 64 IN
  IF seconds = 60 THEN MinuteTick([r EXCEPT !.seconds = 0])
                  ELSE [r EXCEPT !.seconds = seconds]

Ticks(r, n) ==
  LET after[i \in 0 .. n] == IF i = 0 THEN r ELSE processTick(after[i - 1])
  IN after[n]

(* GbRtc_WriteRegister: a value with the bits the register has. *)
RegisterSet(r, register, value) ==
  CASE register = 0 -> [r EXCEPT !.seconds = value % 64]
    [] register = 1 -> [r EXCEPT !.minutes = value % 64]
    [] register = 2 -> [r EXCEPT !.hours = value % 32]
    [] register = 3 -> [r EXCEPT !.days = value]
    [] register = 4 -> [r EXCEPT !.daysHigh = value % 2,
                                 !.halt = (value \div 64) % 2,
                                 !.carry = value \div 128]
=============================================================================
