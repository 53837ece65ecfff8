------------------------------- MODULE Clock --------------------------------
(***************************************************************************)
(* The time of a cartridge and the clock of the game that is played: the   *)
(* menu shows a date, which may be edited, the game's clock is advanced to *)
(* it and runs on in the main loop of the MBC3, and the next menu shows    *)
(* what came of it (main.c, mbc.c, GbRtc.c, bootloader.c).                 *)
(***************************************************************************)
EXTENDS Calendar, GbRtc

CONSTANTS
  FirstTimes,        \* times that the cartridge may know at first
  RegisterFiles,     \* registers that the file of a game's clock may hold
  Gaps,              \* seconds by which that file may be old
  Values,            \* values that games write to registers
  MilliesPerSecond,  \* 1000 in the code
  MenuMillies,       \* time from the reset to the start of a game
  MaxPresses,        \* bound: keys pressed on the date
  MaxPlayed,         \* bound: time that is played in a game
  MaxWrites,         \* bound: writes to registers, less the keys pressed
  MaxGames           \* bound: games that are started

ASSUME ClockAssumption ==
  /\ FirstTimes \subseteq Times
  /\ RegisterFiles \subseteq Registers
  /\ Gaps \subseteq Nat
  /\ Values \subseteq 0 .. 255
  /\ MilliesPerSecond \in Nat \ {0}
  /\ MenuMillies \subseteq Nat

VARIABLES
  phase,              \* "menu" or "game"
  globalTimestamp,    \* g_globalTimestamp
  timePoint,          \* timePoint in the shared RAM
  selectionX,         \* the field that the keys change
  rtcTimestamp,       \* g_rtcTimestamp
  rtcReal,            \* g_rtcReal
  currentRegister,    \* _currentRegister
  late,               \* time that passed since _lastMilli
  millies,            \* _millies
  sinceTimestamp,     \* time that passed since _lastTimestampTick
  inputs,             \* keys pressed and registers written
  games,              \* games started
  shown,              \* the date that the next menu should show
  counted             \* the game's clock when it was set, and the time since

menuVars == <<timePoint, selectionX>>
tickVars == <<rtcReal, rtcTimestamp, late, millies, sinceTimestamp, shown>>
vars == <<phase, globalTimestamp, menuVars, tickVars, currentRegister,
          inputs, games, counted>>

NoDate == [Year |-> 0, Month |-> 0, Day |-> 0, Hour |-> 0, Minute |-> 0,
           Second |-> 0]
Stopped == [seconds |-> 0, minutes |-> 0, hours |-> 0, days |-> 0,
            daysHigh |-> 0, carry |-> 0, halt |-> 0]

(* The cartridge starts and knows a time. *)
Init ==
  /\ phase = "menu"
  /\ globalTimestamp \in FirstTimes
  /\ timePoint = breakTime(globalTimestamp)
  /\ selectionX = 1
  /\ rtcReal = Stopped
  /\ rtcTimestamp = Time(0, 0)
  /\ currentRegister = 0
  /\ late = 0 /\ millies = 0 /\ sinceTimestamp = 0
  /\ inputs = 0
  /\ games = 0
  /\ shown = timePoint
  /\ counted = [since |-> 0, played |-> 0, legal |-> TRUE]

-----------------------------------------------------------------------------
(* The menu. *)

Press ==
  /\ phase = "menu"
  /\ inputs < MaxPresses
  /\ inputs' = inputs + 1
  /\ UNCHANGED <<phase, globalTimestamp, tickVars, currentRegister, counted, games>>

Up ==
  /\ Press
  /\ timePoint' = FieldUp(timePoint, Fields[selectionX])
  /\ UNCHANGED selectionX

Down ==
  /\ Press
  /\ timePoint' = FieldDown(timePoint, Fields[selectionX])
  /\ UNCHANGED selectionX

Left ==
  /\ Press
  /\ selectionX < 5
  /\ selectionX' = selectionX + 1
  /\ UNCHANGED timePoint

Right ==
  /\ Press
  /\ selectionX > 1
  /\ selectionX' = selectionX - 1
  /\ UNCHANGED timePoint

(* GbRtc_advanceToNewTimestamp, for a file that is old by gap seconds. *)
Advanced(file, gap) == Ticks(file, gap)

(* The time is taken from the shared RAM, which the game's RAM replaces.   *)
(* _lastMilli and _lastTimestampTick are still those of the reset.         *)
StartGame(file, gap, menuMillies) ==
  /\ phase = "menu"
  /\ games < MaxGames
  /\ games' = games + 1
  /\ phase' = "game"
  /\ globalTimestamp' = makeTime(timePoint)
  /\ shown' = timePoint
  /\ timePoint' = NoDate
  /\ rtcReal' = Advanced(file, gap)
  /\ rtcTimestamp' = globalTimestamp'
  /\ late' = menuMillies
  /\ millies' = 0
  /\ sinceTimestamp' = menuMillies
  /\ counted' = [since |-> (Seconds(file) + gap) % Period,
                 played |-> menuMillies, legal |-> Legal(file)]
  /\ UNCHANGED <<selectionX, currentRegister, inputs>>

-----------------------------------------------------------------------------
(* The game. *)

(* A millisecond passes, whatever the main loop is at. *)
TimePasses ==
  /\ phase = "game"
  /\ counted.played < MaxPlayed
  /\ late < MaxPlayed
  /\ late' = late + 1
  /\ sinceTimestamp' = sinceTimestamp + 1
  /\ counted' = [counted EXCEPT !.played =
                   IF rtcReal.halt = 1 THEN @ ELSE @ + 1]
  /\ UNCHANGED <<phase, globalTimestamp, menuVars, rtcReal, rtcTimestamp,
                 millies, shown, currentRegister, inputs, games>>

(* The time that is left to count when one millisecond was counted. *)
Caught == late - 1

GbRtc_PerformRtcTick ==
  LET running == rtcReal.halt = 0
      count == running /\ late > 0
      now == IF count THEN millies + 1 ELSE millies
      tick == running /\ now >= MilliesPerSecond
      stamp == sinceTimestamp >= MilliesPerSecond
  IN /\ phase = "game"
     /\ count \/ stamp
     /\ late' = IF count THEN Caught ELSE late
     /\ millies' = IF tick THEN 0 ELSE now
     /\ rtcReal' = IF tick THEN processTick(rtcReal) ELSE rtcReal
     /\ rtcTimestamp' = IF stamp THEN NextSecond(rtcTimestamp) ELSE rtcTimestamp
     /\ sinceTimestamp' = IF stamp THEN 0 ELSE sinceTimestamp
     /\ shown' = IF stamp THEN SecondLater(shown) ELSE shown
     /\ UNCHANGED <<phase, globalTimestamp, menuVars, currentRegister,
                    inputs, games, counted>>

GbRtc_ActivateRegister(register) ==
  /\ phase = "game"
  /\ inputs < MaxWrites
  /\ register < 5
  /\ currentRegister' = register
  /\ UNCHANGED <<phase, globalTimestamp, menuVars, tickVars, counted, inputs, games>>

(* Whether the clock is let go: what passed meanwhile does not count. *)
Resumed == rtcReal.halt = 1 /\ rtcReal'.halt = 0

GbRtc_WriteRegister(value) ==
  /\ phase = "game"
  /\ inputs < MaxWrites
  /\ inputs' = inputs + 1
  /\ rtcReal' = RegisterSet(rtcReal, currentRegister, value)
  /\ late' = IF currentRegister = 0 \/ Resumed THEN 0 ELSE late
  /\ millies' = IF currentRegister = 0 THEN 0 ELSE millies
  /\ counted' = [since |-> Seconds(rtcReal'),
                 played |-> IF rtcReal.halt = 1 THEN millies' ELSE millies' + late',
                 legal |-> Legal(rtcReal')]
  /\ UNCHANGED <<phase, globalTimestamp, menuVars, rtcTimestamp,
                 sinceTimestamp, shown, currentRegister, games>>

(* The button: the time of the game is that of the cartridge. *)
Restart ==
  /\ phase = "game"
  /\ phase' = "menu"
  /\ globalTimestamp' = rtcTimestamp
  /\ timePoint' = breakTime(rtcTimestamp)
  /\ selectionX' = 1
  /\ currentRegister' = 0
  /\ rtcReal' = Stopped
  /\ late' = 0 /\ millies' = 0 /\ sinceTimestamp' = 0
  /\ counted' = [since |-> 0, played |-> 0, legal |-> TRUE]
  /\ UNCHANGED <<rtcTimestamp, shown, inputs, games>>

Next ==
  \/ Up \/ Down \/ Left \/ Right
  \/ \E file \in RegisterFiles, gap \in Gaps, menuMillies \in MenuMillies :
       StartGame(file, gap, menuMillies)
  \/ TimePasses
  \/ GbRtc_PerformRtcTick
  \/ \E register \in 0 .. 7 : GbRtc_ActivateRegister(register)
  \/ \E value \in Values : GbRtc_WriteRegister(value)
  \/ Restart

Spec == Init /\ [][Next]_vars

-----------------------------------------------------------------------------
(* The state has its types: in the menu the date is one of the calendar's, *)
(* whatever was keyed in, and the registers keep their widths, whatever a  *)
(* game wrote and however they count.                                      *)
TypeOK ==
  /\ phase \in {"menu", "game"}
  /\ phase = "menu" => Valid(timePoint)
  /\ selectionX \in 1 .. 5
  /\ rtcReal \in Registers
  /\ currentRegister \in 0 .. 4
  /\ late \in Nat
  /\ millies \in 0 .. MilliesPerSecond
  /\ sinceTimestamp \in Nat

(* The menu after a game shows the date that was set before it, later by   *)
(* the seconds that the main loop counted: makeTime and breakTime are      *)
(* inverse, for the dates that 32 bits of seconds hold (to 2105).          *)
DateReturns ==
  [][Restart /\ shown.Year <= 135 => timePoint' = shown]_vars

(* The clock of a running game that is set to a time of day shows the time *)
(* that passed since, over the ends of minutes, days and the 512 days: none*)
(* is lost when the main loop is late, none counted twice, and none while  *)
(* the clock is halted.                                                    *)
ClockFollowsTime ==
  phase = "game" /\ rtcReal.halt = 0 /\ counted.legal =>
    /\ Legal(rtcReal)
    /\ Seconds(rtcReal) =
         (counted.since + (counted.played - late) \div MilliesPerSecond) % Period
    /\ millies = (counted.played - late) % MilliesPerSecond
=============================================================================
