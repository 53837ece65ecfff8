--------------------------- MODULE VBlankService ----------------------------
(***************************************************************************)
(* What the vblank save hook promises, seen from the game: every vblank    *)
(* interrupt ends in the game's own handler exactly once, and between the  *)
(* two the cartridge may have been asked to save, in which case the game   *)
(* waits until the save is in the flash.                                   *)
(***************************************************************************)

VARIABLES
  hooked,  \* whether the game was started with the hook
  phase    \* what the Game Boy is doing

vars == <<hooked, phase>>

TypeOK ==
  /\ hooked \in BOOLEAN
  /\ phase \in {"game", "hook", "asked", "saved", "handler"}

Init ==
  /\ hooked \in BOOLEAN
  /\ phase = "game"

Step(from, to) ==
  /\ phase = from
  /\ phase' = to
  /\ UNCHANGED hooked

Interrupt == Step("game", IF hooked THEN "hook" ELSE "handler")
Ask == Step("hook", "asked")
Save == Step("asked", "saved")
Serve == Step("hook", "handler") \/ Step("saved", "handler")
Resume == Step("handler", "game")

Next == Interrupt \/ Ask \/ Save \/ Serve \/ Resume

Spec == Init /\ [][Next]_vars
=============================================================================
