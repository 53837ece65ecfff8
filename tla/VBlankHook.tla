----------------------------- MODULE VBlankHook -----------------------------
(***************************************************************************)
(* The vblank save hook: a Game Boy program the cartridge slips under the  *)
(* game's vblank vector, and the RP2040 loop that follows the Game Boy's   *)
(* reads to decide which bank the Game Boy sees at 0x0000.                 *)
(*                                                                         *)
(* Two processes run at once. The Game Boy executes whatever the mapped    *)
(* bank holds. The RP2040 learns of each read through the FIFO of the main *)
(* state machine, so the bank it maps is late by what is still queued.     *)
(***************************************************************************)
EXTENDS Naturals, Sequences

CONSTANTS
  Lag,          \* reads the RP2040 may be behind while it runs its loop
  EntryReads,   \* reads of the hook's first instructions after 0x40
  HandlerReads, \* least number of reads of the game's first instruction
                \* after 0x40 (reti: two bytes from the stack)
  HandlerComesBack  \* whether the game's handler fetches in 0x41-0x47 again
                    \* after it has read elsewhere (call nn; reti)

(***************************************************************************)
(* The RP2040 handles a read before the Game Boy has done HandlerReads + 1 *)
(* more: it has some 250 cycles for each. The hook is longer than that     *)
(* between the reads the RP2040 waits for; three reads stand for it here.  *)
(***************************************************************************)
ASSUME LagAssumption ==
  /\ EntryReads \in Nat \ {0}
  /\ HandlerReads \in Nat \ {0}
  /\ Lag \in 1 .. 3
  /\ Lag <= HandlerReads + 1
  /\ Lag <= EntryReads + 1
  /\ HandlerComesBack \in BOOLEAN

VARIABLES
  mode,             \* _vBlankMode
  hasRtc,           \* _hasRtc
  vblankHookState,  \* _vblankHookState
  romLowBase,       \* rom_low_base: the bank mapped at 0x0000
  doneFlag,         \* memory_vblank_hook_bank2[0x1FF] = 0xaa
  fifo,             \* reads the main state machine has pushed
  smEnabled,        \* the main state machine is enabled
  storing,          \* step of storeCurrentlyRunningSaveGame, or "no"
  pc,               \* what the Game Boy fetches next
  left              \* reads left before it leaves that stretch of code

cpuVars == <<vblankHookState, romLowBase, doneFlag, storing>>
gbVars == <<pc, left>>
constVars == <<mode, hasRtc>>
vars == <<mode, hasRtc, vblankHookState, romLowBase, doneFlag, fifo,
          smEnabled, storing, pc, left>>

(***************************************************************************)
(* Addresses, as far as process_vblank_hook and the hook tell them apart.  *)
(***************************************************************************)
Vector == "0x40"
VectorRest == "0x41-0x47"
Handler == "0x50"
Trigger == "0x100"
DoneByte == "0x1FF"
HookCode == "hook code"   \* the rest of the hook's 512 bytes
Elsewhere == "elsewhere"  \* any other address, RAM and I/O included
InVector == {Vector, VectorRest}
HookOnly == {Handler, Trigger, DoneByte, HookCode}
Addresses == InVector \cup HookOnly \cup {Elsewhere}

States == {"idle", "interrupt", "processing", "saveTriggered", "returned"}
Banks == {"memory", "override", "hook", "hook2"}
Buttons == {"select", "start", "b", "down"}
StoreSteps == {"save", "rtc", "enable", "flag"}

HookPcs == {"handler", "joypad", "buttons", "trigger", "screenOff",
            "waitForSave", "waitForRelease", "leave"}
Pcs == {"game", "vector", "entry", "own", "ownAway", "lost"} \cup HookPcs

(***************************************************************************)
(* What the Game Boy finds at an address of a bank. The override bank is   *)
(* the game's bank 0 with the hook's first eight bytes at 0x40, and the    *)
(* second hook bank is the hook with the game's own eight bytes there.     *)
(***************************************************************************)
Content(bank, addr) ==
  IF bank = "memory" THEN "game"
  ELSE CASE addr = Elsewhere -> IF bank = "override" THEN "game" ELSE "nothing"
         [] addr \in InVector -> IF bank = "hook2" THEN "game" ELSE "hook"
         [] addr \in HookOnly -> IF bank = "override" THEN "game" ELSE "hook"

TriggerButton == IF mode = 2 THEN "down" ELSE "b"

(***************************************************************************)
(* loadGame drops the mode of a game without RAM and the mode 0xFF;        *)
(* initialize_vblank_hook maps the override bank of every other game.      *)
(***************************************************************************)
Init ==
  /\ mode \in {0, 1, 2}
  /\ hasRtc \in BOOLEAN
  /\ vblankHookState = "idle"
  /\ romLowBase = IF mode = 0 THEN "memory" ELSE "override"
  /\ doneFlag = FALSE
  /\ fifo = <<>>
  /\ smEnabled = TRUE
  /\ storing = "no"
  /\ pc = "game"
  /\ left = 0

-----------------------------------------------------------------------------
(* The Game Boy. *)

Read_WhenFull(addr) ==
  /\ smEnabled => Len(fifo) <= Lag
  /\ fifo' = IF smEnabled THEN Append(fifo, addr) ELSE fifo

(***************************************************************************)
(* A read on the bus: the main state machine pushes its address, unless it *)
(* is disabled.                                                            *)
(***************************************************************************)
Read(addr) ==
  /\ smEnabled => Len(fifo) < Lag
  /\ fifo' = IF smEnabled THEN Append(fifo, addr) ELSE fifo

(***************************************************************************)
(* A fetch of an instruction that lies in the hook, or in the game: what   *)
(* is mapped must be that program, else the Game Boy is lost.              *)
(***************************************************************************)
Goto(program, addr, next, reads) ==
  IF Content(romLowBase, addr) = program
  THEN pc' = next /\ left' = reads
  ELSE pc' = "lost" /\ left' = 0

Fetch(from, program, addr, next) ==
  /\ pc = from
  /\ Read(addr)
  /\ Goto(program, addr, next, 0)
  /\ UNCHANGED <<constVars, cpuVars, smEnabled>>

(***************************************************************************)
(* The game runs anywhere but at the vector: its other interrupts fetch    *)
(* 0x50 and its start 0x100.                                               *)
(***************************************************************************)
GameRuns ==
  \E addr \in HookOnly \cup {Elsewhere} : Fetch("game", "game", addr, "game")

(***************************************************************************)
(* The vblank interrupt. A frame is far longer than the loop needs for the *)
(* reads it is behind.                                                     *)
(***************************************************************************)
VBlank ==
  /\ pc = "game"
  /\ fifo = <<>>
  /\ pc' = "vector"
  /\ UNCHANGED <<constVars, cpuVars, fifo, smEnabled, left>>

(***************************************************************************)
(* The first byte at 0x40 is the hook's or the game's, as the bank has it. *)
(***************************************************************************)
FetchVector ==
  /\ pc = "vector"
  /\ Read(Vector)
  /\ IF Content(romLowBase, Vector) = "hook"
     THEN pc' = "entry" /\ left' = EntryReads
     ELSE pc' = "own" /\ left' = HandlerReads
  /\ UNCHANGED <<constVars, cpuVars, smEnabled>>

(* push af, select the buttons, jp vblank_handler *)
RunEntry ==
  /\ pc = "entry"
  /\ Read(VectorRest)
  /\ IF left > 1 THEN Goto("hook", VectorRest, "entry", left - 1)
                 ELSE Goto("hook", VectorRest, "handler", 0)
  /\ UNCHANGED <<constVars, cpuVars, smEnabled>>

(***************************************************************************)
(* The game's own instructions at 0x40: bytes of 0x41-0x47 first, then     *)
(* reads elsewhere, its stack or the code it jumps to.                     *)
(***************************************************************************)
RunOwnHandler ==
  \E addr \in {VectorRest, Elsewhere} :
    /\ pc \in {"own", "ownAway"}
    /\ left > 0
    /\ addr = VectorRest => pc = "own" \/ HandlerComesBack
    /\ Read(addr)
    /\ pc' = IF addr = Elsewhere THEN "ownAway"
             ELSE IF Content(romLowBase, addr) = "game" THEN pc ELSE "lost"
    /\ left' = left - 1
    /\ UNCHANGED <<constVars, cpuVars, smEnabled>>

(* The first fetch of the game's code that is not at the vector. *)
LeaveOwnHandler ==
  \E addr \in HookOnly \cup {Elsewhere} :
    /\ left = 0
    /\ pc \in {"own", "ownAway"}
    /\ Fetch(pc, "game", addr, "game")

RunHandler == Fetch("handler", "hook", Handler, "joypad")

(* and $0c: start or select is down; call nz, read_from_joypad *)
ReadJoypad ==
  \E held \in SUBSET Buttons :
    Fetch("joypad", "hook", HookCode,
          IF held \cap {"select", "start"} # {} THEN "buttons" ELSE "leave")

(* check_for_save_trigger *)
CheckForSaveTrigger ==
  \E held \in SUBSET Buttons :
    Fetch("buttons", "hook", HookCode,
          IF TriggerButton \in held THEN "trigger" ELSE "leave")

JumpToTrigger == Fetch("trigger", "hook", Trigger, "screenOff")
ScreenOff == Fetch("screenOff", "hook", HookCode, "waitForSave")

(* ld a,[$1FF]; cp $AA; jr nz *)
WaitForGameSave ==
  Fetch("waitForSave", "hook", DoneByte,
        IF doneFlag THEN "waitForRelease" ELSE "waitForSave")

(* The player holds start or select no longer; screen on, ret. *)
ButtonsReleased == Fetch("waitForRelease", "hook", HookCode, "leave")

(* pop af; jp $40 *)
LeaveHook == Fetch("leave", "hook", HookCode, "vector")

GameBoy ==
  \/ GameRuns \/ VBlank \/ FetchVector \/ RunEntry \/ RunOwnHandler
  \/ LeaveOwnHandler \/ RunHandler \/ ReadJoypad \/ CheckForSaveTrigger
  \/ JumpToTrigger \/ ScreenOff \/ WaitForGameSave \/ ButtonsReleased
  \/ LeaveHook

-----------------------------------------------------------------------------
(* The RP2040. *)

(* The loop of the MBC takes the oldest read out of the FIFO. *)
Handle(state, addrs) ==
  /\ storing = "no"
  /\ mode # 0
  /\ fifo # <<>>
  /\ vblankHookState = state
  /\ Head(fifo) \in addrs
  /\ fifo' = Tail(fifo)
  /\ UNCHANGED <<constVars, gbVars>>

Enter(state, bank) ==
  /\ vblankHookState' = state
  /\ romLowBase' = bank

HookInterrupt ==
  /\ Handle("idle", {Vector})
  /\ Enter("interrupt", "hook")
  /\ UNCHANGED <<doneFlag, storing, smEnabled>>

HookProcessing_KeepsHook ==
  /\ Handle("interrupt", {Handler})
  /\ Enter("processing", "hook")
  /\ UNCHANGED <<doneFlag, storing, smEnabled>>

HookProcessing ==
  /\ Handle("interrupt", {Handler})
  /\ Enter("processing", "hook2")
  /\ UNCHANGED <<doneFlag, storing, smEnabled>>

(***************************************************************************)
(* The jump to 0x100 starts storeCurrentlyRunningSaveGame, which disables  *)
(* the main state machine first.                                           *)
(***************************************************************************)
HookSaveTriggered_AnyState ==
  /\ \E s \in States : Handle(s, {Trigger})
  /\ Enter("saveTriggered", romLowBase)
  /\ smEnabled' = FALSE
  /\ storing' = "save"
  /\ UNCHANGED doneFlag

HookSaveTriggered_SetsFlag ==
  /\ Handle("processing", {Trigger})
  /\ Enter("saveTriggered", romLowBase)
  /\ smEnabled' = FALSE
  /\ storing' = "save"
  /\ doneFlag' = TRUE

HookSaveTriggered ==
  /\ Handle("processing", {Trigger})
  /\ Enter("saveTriggered", romLowBase)
  /\ smEnabled' = FALSE
  /\ storing' = "save"
  /\ UNCHANGED doneFlag

HookReturned_KeepsHook ==
  /\ \/ Handle("processing", {Vector})
     \/ Handle("saveTriggered", {Vector})
  /\ Enter("returned", "hook2")
  /\ UNCHANGED <<doneFlag, storing, smEnabled>>

HookReturned ==
  /\ \/ Handle("processing", {Vector})
     \/ Handle("saveTriggered", {Vector})
  /\ Enter("returned", "memory")
  /\ UNCHANGED <<doneFlag, storing, smEnabled>>

HookIdle ==
  /\ Handle("returned", Addresses \ InVector)
  /\ Enter("idle", "override")
  /\ doneFlag' = FALSE
  /\ UNCHANGED <<storing, smEnabled>>

Ignored ==
  [s \in States |->
     CASE s = "idle" -> Addresses \ {Vector}
       [] s = "interrupt" -> Addresses \ {Handler}
       [] s = "processing" -> Addresses \ {Trigger, Vector}
       [] s = "saveTriggered" -> Addresses \ {Vector}
       [] s = "returned" -> InVector]

HookIgnores ==
  /\ Handle(vblankHookState, Ignored[vblankHookState])
  /\ UNCHANGED <<cpuVars, smEnabled>>

(* Without the hook the loop only drops the read. *)
NoHook ==
  /\ mode = 0
  /\ fifo # <<>>
  /\ fifo' = Tail(fifo)
  /\ UNCHANGED <<constVars, cpuVars, smEnabled, gbVars>>

StoreStep(from, to) ==
  /\ storing = from
  /\ storing' = to
  /\ UNCHANGED <<constVars, gbVars, fifo, vblankHookState, romLowBase>>

StoreSaveRam ==
  /\ StoreStep("save", IF hasRtc THEN "rtc" ELSE "enable")
  /\ UNCHANGED <<doneFlag, smEnabled>>

StoreRtc ==
  /\ StoreStep("rtc", "enable")
  /\ UNCHANGED <<doneFlag, smEnabled>>

EnableSm ==
  /\ StoreStep("enable", "flag")
  /\ smEnabled' = TRUE
  /\ UNCHANGED doneFlag

WriteDone ==
  /\ StoreStep("flag", "no")
  /\ doneFlag' = TRUE
  /\ UNCHANGED smEnabled

Rp2040 ==
  \/ HookInterrupt \/ HookProcessing \/ HookSaveTriggered \/ HookReturned
  \/ HookIdle \/ HookIgnores \/ NoHook
  \/ StoreSaveRam \/ StoreRtc \/ EnableSm \/ WriteDone

Next == GameBoy \/ Rp2040

(***************************************************************************)
(* The Game Boy's clock and the RP2040's loop never stop, and the player   *)
(* lets go of the buttons some time (ButtonsReleased).                     *)
(***************************************************************************)
InterruptSteps ==
  \/ FetchVector \/ RunEntry \/ RunOwnHandler \/ LeaveOwnHandler
  \/ RunHandler \/ ReadJoypad \/ CheckForSaveTrigger \/ JumpToTrigger
  \/ ScreenOff \/ WaitForGameSave \/ ButtonsReleased \/ LeaveHook

Spec == Init /\ [][Next]_vars

FairSpec == Spec /\ WF_vars(Rp2040) /\ WF_vars(InterruptSteps)

-----------------------------------------------------------------------------
(* The values of the state. *)
TypeOK ==
  /\ mode \in {0, 1, 2}
  /\ hasRtc \in BOOLEAN
  /\ vblankHookState \in States
  /\ romLowBase \in Banks
  /\ doneFlag \in BOOLEAN
  /\ fifo \in Seq(Addresses) /\ Len(fifo) <= Lag
  /\ smEnabled \in BOOLEAN
  /\ storing \in StoreSteps \cup {"no"}
  /\ pc \in Pcs
  /\ left \in 0 .. EntryReads + HandlerReads

(***************************************************************************)
(* Every instruction the Game Boy fetches belongs to the program it means  *)
(* to run, though the RP2040 maps the banks only after it has seen reads   *)
(* go by (process_vblank_hook).                                            *)
(***************************************************************************)
FetchesWhatItMeans == pc # "lost"

(***************************************************************************)
(* The save RAM and the flash are stored only while the Game Boy spins in  *)
(* the hook: the game neither writes its RAM nor reads ROM from the flash  *)
(* meanwhile (storeCurrentlyRunningSaveGame).                              *)
(***************************************************************************)
StoresWhileGameWaits ==
  storing # "no" => pc \in {"screenOff", "waitForSave"}

(***************************************************************************)
(* Every vblank ends in the game's own handler once, and a save that was   *)
(* asked for is complete before.                                           *)
(***************************************************************************)
Stored == doneFlag /\ storing = "no"

PhaseOf ==
  CASE pc = "game" -> "game"
    [] pc \in {"own", "ownAway"} -> "handler"
    [] pc = "vector" ->
         IF Content(romLowBase, Vector) = "hook" THEN "hook" ELSE "handler"
    [] pc \in {"trigger", "screenOff", "waitForSave"} ->
         IF Stored THEN "saved" ELSE "asked"
    [] pc \in {"waitForRelease", "leave"} /\ Stored -> "saved"
    [] OTHER -> "hook"

Service == INSTANCE VBlankService WITH hooked <- mode # 0, phase <- PhaseOf

ImplementsService == Service!Spec

(***************************************************************************)
(* After every vblank the game runs on.                                    *)
(***************************************************************************)
GameResumes == pc = "vector" ~> pc = "game"
=============================================================================
