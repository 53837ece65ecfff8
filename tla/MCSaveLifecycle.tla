-------------------------- MODULE MCSaveLifecycle ---------------------------
(***************************************************************************)
(* Instances of SaveLifecycle: a game on an MBC5 with two RAM banks and    *)
(* one with one bank and a clock; two games with clocks, the second        *)
(* without RAM, and one with neither.                                      *)
(***************************************************************************)
EXTENDS SaveLifecycle, TLC

CONSTANTS g1, g2, g3, d1

BothWithRam == (g1 :> 2) @@ (g2 :> 1)
WithAndWithoutClock == (g1 :> 1) @@ (g2 :> 0) @@ (g3 :> 0)

\* What the clocks depend on: the RAM, its files and the LED are left out.
ClockView ==
  <<rtcFile, timeFile, noInitTest, lastRunningGame, loadedRomInfo, rtcReal,
    rtcTimestamp, globalTimestamp, pc, lastClock, failed \cap ({"rtc"} \X Games), strayTime>>
=============================================================================
