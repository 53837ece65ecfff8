# Verification of the RP2040 Game Boy cartridge firmware

The firmware turns an RP2040 into a Game Boy cartridge. PIO programs and DMA
answer the bus, the CPU emulates the memory bank controller, ROMs and save games
lie in the QSPI flash, a boot menu runs on the Game Boy itself, and a web
application moves ROMs and save games over USB. This directory holds TLA+
models of that code, TLC runs over small instances of them, and TLAPS proofs of
their main properties for all instances.

Line numbers refer to the source tree beside this directory; `PROJECT.json` maps
every definition that models code to its lines.

## 1. Inventory

### ROM store (`RomStorage.c`)

*State.* In flash: 888 banks of 16 KiB, and one littlefs file per ROM below
`/roms` with a header and the list of the ROM's banks. In RAM: `_usedBanksFlags`
(a bit per bank), `_usedBanks`, `g_numRoms`, `_romInfoFile` (one buffer for every
reader and every writer), the position of the running upload, `_bankBuffer`,
`_fileNameBuffer`, and the bank table of the loaded game.
*Operations.* Rebuild the index at a start; begin an upload (choose and erase
banks); take a chunk (program a bank when it is full, write the file after the
last one); read one ROM's information; delete a ROM with its save game; load a
ROM. *Hard.* Nothing records which banks an unfinished upload owns; entries
of length zero survive a power cut; errors of littlefs are ignored in places;
one buffer serves two purposes. *Correct when* a listed ROM holds the bytes that
were uploaded, no bank has two owners, the index covers what is in use, an
upload that was admitted finds its banks, and a deletion that succeeds leaves no
save game.

### Save games and clocks, from reset to reset (`main.c`, `loadGame` and `storeCurrentlyRunningSaveGame` in `mbc.c`)

*State.* Files `saves/<game>`, `rtc/<game>` and `timestamp`; memory that the
start-up code does not initialise (`_noInitTest`, `_lastRunningGame`,
`g_loadedRomInfo`, `ram_memory`, `g_rtcReal`, `g_rtcTimestamp`) and that
survives the reset button but not a power cut; `_ramDirty` and the LED.
*Operations.* Recognise a reset, store what the last game left, run the menu,
load the chosen game with its save game and clock, store on request of the
VBlank hook. *Hard.* The button can be pressed between any two of these.
*Correct when* a save game is lost only with the power, the LED says so
truthfully, and clocks continue from the right second.

### Save game and clock transfer over USB (`RomStorage.c` 397-549, `webusb.c` 356-510)

*State.* `_ramTransferActive`, the open file, a byte counter, the two file name
buffers. *Operations.* Begin a download or an upload, move a chunk of 32 bytes.
*Hard.* The chunk commands are not guarded by the active flag; the flag stays
set when the file cannot be opened; an upload overwrites the old save in place; the
Game Boy's first bus access ends the service of USB in the middle of anything;
the littlefs cache is shared with every other command. *Correct when* a save
game is never a mixture of two, host and cartridge count alike, and a transfer
that ends has moved the whole save game.

### WebUSB command loop (`webusb.c`)

*State.* The USB FIFO. *Operations.* One command byte, its payload, one reply.
*Hard.* An incomplete payload is answered before the rest arrives. *Correct
when* every command has one reply and the stream stays in step.

### Boot menu (`gb-bootloader/bootloader.c`, `runGbBootloader` in `main.c`)

*State.* On the Game Boy: cursor, page, the two as the game list left them, the
screen, `gSelectedMode`, the date being edited. In shared RAM: the list of ROMs,
the number and the mode of the chosen game. On the RP2040:
`cartridgeIsInGameboy` and what `main()` read. *Operations.* One pass of
`drawscreen` for the keys that are held; `startGame`'s three writes; a poll of the
FIFO, or else a USB command. *Hard.* 8-bit arithmetic around the last page; state
that outlives its screen; a list that is made once. *Correct when* the game and
the mode that `main()` reads are those on the screen, and a start reaches it.

### MBC emulation and the DMA channels (`mbc.c`, `GbDma.c`)

*State.* Bank registers and RAM enable in the main loop; the bases and the command
chains that the main loop hands to the DMA; per channel, whether it waits for a
word, and the accessor's registers; the FIFOs of five state machines.
*Operations.* A main loop per controller takes a bus cycle from its FIFO and
switches bases and chains; a channel that gets an address runs its chain, whose
last command makes the access and arms the channel again. *Hard.* Main loop and
channels see the same cycle through different FIFOs and share only bases and
chains; a chain that takes a word too many shifts all later accesses. *Correct
when* each cycle is answered from the bank, cell or clock register the game has
selected, a disabled RAM is neither read nor written, and the LED shows red for
what is written.

### VBlank save hook (`mbc.c` 627-752, `gb-vblankhook/`)

*State.* `_vblankHookState`, the bank mapped at 0x0000, the byte that tells the Game
Boy that the save is stored; the Game Boy's place in the hook code. *Hard.* Two processors run side by side and see each
other only through bus reads in a FIFO. *Correct when* the game resumes with its
own bank mapped and saving happens while the game waits.

### Real time clock and calendar (`GbRtc.c`)

*State.* The clock registers, the millisecond and second counters, the date in the
menu's editor. *Hard.* Registers beyond their range, a loop that comes late, carry of the day counter, 64-bit time cut to 32 bits. *Correct
when* a tick is one second on every legal register value and `makeTime` and
`breakTime` are inverse to each other.

### littlefs and its flash driver (`lfs.c`, `lfs_pico_hal.c`)

*State.* In flash: the metadata pair, blocks of data. In RAM: the fetched
directory, the allocator's window, the open file and its cache. *Operations.*
Mount, format, open, write, close, remove. *Hard.* Power may go in the middle of an
erase or a program; commits are appended to a log that is compacted into the
other block of the pair; the window is older than the directory. *Correct when* a
file changes as a whole when it is closed and at no other time.

### Others

Speed detection (`mbc.c`), header parser (`GameBoyHeader.c`), PIO programs
(`gameboy_bus.pio`), LED driver, USB descriptors.

### How they interact

`main()` stores what a reset interrupted, then runs the boot menu and
`tud_task`/`webserial_task` in one loop. USB commands and the menu never interrupt
each other: the first bus access of the Game Boy (`cartridgeIsInGameboy`) ends the
service of USB for good. Once the Game Boy has chosen a game,
`loadGame` takes the ROM's banks from the ROM store and its RAM from the save
file, and the emulation loop runs until the reset button or a power cut. The
components share `g_loadedRomInfo` (written by save game transfers as well as by
`RomStorage_LoadRom`), `_romInfoFile`, `_lfsFileBuffer` and `ram_memory` (which
also carries the list of games to the menu).

## 2. Plan

| # | Module | Content | State |
|---|---|---|---|
| 1 | `RomLibrary` | abstract store: a shelf of whole images | done |
| 2 | `RomStorage` | the ROM store, implements `RomLibrary` | done |
| 3 | `RomStorageProofs` | types, whole ROMs, bank ownership, index, refinement | done |
| 4 | `SaveLifecycle` | save games and clocks across resets and power cuts | done |
| 5 | `SaveLifecycleProofs` | types, save games kept, clocks kept, honest LED | done |
| 6 | `BootMenu` | cursor, page, screens, save hook mode, the list in shared RAM, the USB host beside it | done |
| 7 | `BootMenuProofs` | types, the choice is on the page, the game and mode shown are started | done |
| 8 | `SaveService`, `SaveTransfer` | abstract: a save game moved as a whole; the chunk protocol that implements it | done |
| 9 | `SaveTransferProofs` | types, whole saves, host and cartridge in step, refinement | done |
| 10 | `VBlankService`, `VBlankHook` | abstract: one vblank; Game Boy and RP2040 as two processes joined by a FIFO | done |
| 11 | `CartridgeBus`, `GbDma`, `Mbc` | abstract: a cartridge that answers at once; DMA channels; main loops of MBC1, 2, 3, 5 | done |
| 12 | `MbcProofs` | pointers stay in the ROM and RAM for every size; a bus cycle leaves nothing behind; unsaved RAM is red; each cycle is answered as `CartridgeBus` says | done |
| 13 | `VBlankHookProofs` | the hook is right for every lag that its code allows | done |
| 14 | `Calendar`, `GbRtc`, `Clock` | date conversions, registers, the time from menu to game and back | done |
| 15 | `ClockProofs` | a tick is a second, advancing adds, the clock follows the time; dates survive conversion, the editor and a game | done |
| 16 | `FileStore`, `LittleFs` | abstract: files that change when closed; littlefs on flash with power cuts | done |
| 17 | `LittleFsProofs` | blocks are not shared, a mount finds the last commit, refinement | done |
| - | framing of USB commands | short reads of `tud_vendor_read` | not done, see 6 |

Modules build on each other's promises: `SaveLifecycle` moves save games over USB in
one step, as `SaveTransfer` shows to be right (`SaveService`); its
`StoreRunningSave` happens while `VBlankHook` keeps the game waiting; its number
of seconds stands for `Clock`'s registers; `RomStorage`, `SaveLifecycle` and
`SaveTransfer` take files to change when they are closed, which `LittleFs` shows
(`FileStore`); `Mbc` leaves out of its reads those that `VBlankHook` is about.

## 3. The models

### RomStorage

One action per USB command: `StartNewRomTransfer`, `StartExistingName` and
`StartOverrun` are the outcomes of command 2, `TransferRomChunk` is command 3,
`RequestRomInfo` command 4, `DeleteRom` command 5, `StartRamTransfer` what commands 6
and 8 do to the store. The end of an upload and a
deletion commit to flash twice, so they are split there: `pc` is "create"
and "write" in the former, "remove" in the latter, and `Reset` may come at each
of them. `RomStorage_init` is an operator used by every action that calls it.

The rest is `main()` as far as it decides which ROM is loaded and under which name
a save is stored. `served` says whether the loop still calls `usb_run`;
`GameBoyAppears` ends that, at any point of an upload. `ChooseGame` takes any
number, since the list of the menu may be old. `LoadRom` and `LoadRomFails` are
`RomStorage_LoadRom` with its four errors; after an error, -2 in the middle of an
upload among them, `main()` stays in its endless loop ("hang") until a reset.
`StoreLastGame` is the store after a reset: it asks whether `_lastRunningGame` is
the number of a listed ROM and stores under `g_loadedRomInfo.name`, which may be another.

- A bank is a function from its chunks to data. A datum is an image and the
  bank of the image it belongs to; the place of a chunk in its bank is the index
  of the function. Programming a bank that is not erased yields `Garbage`.
- The header read from a file replaces only as much of the buffer as the file
  has (`ReadFiles`), and an empty file leaves it alone: that is what decides
  which banks `RomStorage_init` counts.
- A file carries its image as a history variable, so that "what was uploaded" can
  be said; no guard looks at it.
- `FsErrors`: littlefs may fail to create, write or remove a file, and to read the file
  of the game that is started. Reads that fail in `RomStorage_init` and in the other
  commands are not modelled.
- `unread` and `strays` are history variables for `NoOrphanSave`: whether the marked game
  was chosen and its name never read, and the saves that failed removals or such a start
  left behind. No guard looks at them.
- Where the code goes on with an object that does not exist, the model stops:
  `pc` is "undefined", or "overrun" behind the bit map. A reset leaves both. After an
  overrun the file system may have been erased.

### SaveLifecycle

`pc` is the place in `main()`. Each file is written in one step of its own, and
the button or a power cut may come before and after each; littlefs shows the new
content of a file only when it is closed, so nothing finer can be seen. A write
of the game and the LED that turns red are one step (`GameWrites`): both the write and a later
request to save reach the CPU through one FIFO, in order. A game on an MBC5 also has
`GameWritesUpperHalf`, which `runMbc5Game` does not notice. USB transfers are
possible in the menu and whole.

- The clock registers are a number of seconds modulo `ClockPeriod`.
- `lastRam` and `lastClock` are history variables: what each game had last, as
  far as a power cut has not taken it. The properties compare files with them.
- Every read and every write of a file may fail, and `main()` goes on as after a success.
  `failed` notes the files whose last access failed, `unmarked` the banks that were
  written in no way that marks the RAM, `strayTime` a start that took noise for the time
  of a game without a clock: history variables, for the exceptions that the
  properties make.
- The noise in a time stamp after power-on (`Unknown`) lies after every time, the value
  with which it spreads most.
- `LoadingUndisturbed` says that nobody presses the button between
  the choice of a game and the end of `restoreSaveRamFromFile`.

### BootMenu

One action is one pass of `drawscreen` on one screen, for any set of keys: the
code tests them one after the other, so two may count. Where a screen's function
has several ends, each is an action: `GameMenuLeaves`, `GameMenuStarts`,
`GameMenuMoves`. `startGame` does not return; `gb` says which of its writes comes
next. `Poll` is a pass of `runGbBootloader`'s loop that finds the FIFO filled,
`HostEdits` one that does not.

- Games are numbered from zero as in the code, also in `list`, whose indices begin
  at one (`Listed`).
- `shown` is the game that the screen names or highlights; it changes only where the
  code draws. `picked` and `choice` are history variables: what the player did
  last, which no guard looks at.
- `bus` holds one event that `main()` cares about. The FIFO holds more, in order;
  since the Game Boy waits for ever after its last write, nothing could overtake it.
- A start of the Game Boy finds fresh variables; what it had is forgotten when it is
  switched off. The cartridge may live on, on USB power.
- `RestartAfterEdit` says that the cartridge is restarted between a change of the
  store and the use of the menu.

### SaveTransfer

A command and its answer are one step; the chunk commands take the next chunk of
the open file. `ramTransferFile` holds the content as the open file has it, and
`saves` changes when the last chunk closes it.

- `Disturbed` is what any other command does to `_lfsFileBuffer`: a cached part that
  is read on becomes `Torn`, one that is written goes to flash torn.
- The host leaves at any time (`HostLeaves`); the cartridge counts on with a file that
  nobody reads, and refuses the next start until it is reset (`Refused`).
- Commands are answered while `served` holds. `GameBoyAppears` ends it, also between two
  chunks: the host then waits, or leaves. `PlayGame` is the choice of a game, `StoreGame`
  its save, `Reset` the only way back to USB.
- `FlashErrors` names the steps that may fail; `Interleaves` lets the host send other
  commands in a transfer. The run has a host that does not and files that may fail
  to be opened, written and removed. With `"close"` in `FlashErrors` an upload is confirmed
  that was not stored (`ImplementsService` fails).
- `SaveService` knows no chunks: a download is the save as stored when it began, an
  upload replaces it when it ends, and a host that leaves replaces nothing.

### VBlankHook

`GameBoy` is the program that the Game Boy runs, an action per stretch of the hook
or of the game's handler; `Rp2040` is a pass of the main loop with
`process_vblank_hook`, or a step of `storeCurrentlyRunningSaveGame`. Every fetch
looks at the bank that is mapped at that moment (`Content`); what is not the program
that the Game Boy means to run sends `pc` to "lost". Each read goes into `fifo`,
from which the RP2040 takes it up to `Lag` reads later; while the state machine is
off nothing is pushed.

- `HandlerComesBack` (off in the run) lets the game's handler fetch from 0x41-0x47
  after it has been elsewhere, as one that calls a subroutine there does:
  the hook's bank is mapped again by then, and `FetchesWhatItMeans` fails.
- `VBlankService` is one vblank: perhaps the hook, perhaps a save, then the game's
  handler exactly once.

### GbDma, Mbc

`GbDma` has the chains as sequences of commands, each of which moves a word to a
register of the accessor; `Request` starts one, `Execute` is one command, `Access` the
transfer that ends it. Two channels that always run through one after the other are
one step. `Mbc` adds the main loops, an action per branch, and the bus: a read, or
an address and then its data (`BeginRead`, `BeginWrite`, `PutData`). In a cycle main
loop and channels run in any order; the next one begins when all are at rest,
since a cycle of the Game Boy lasts for more than a hundred of the RP2040's.

- An address is an area of 4 KiB and a page, of which there are two: `TopPage` is the
  one to which the base of an MBC2 sets the upper lines. `odd` is A8.
- `CartridgeBus` has the registers that the game wrote and answers a cycle in one
  step: what `ImplementsBus` compares every cycle with.
- `unsaved` is the set of areas written since the last store. The MBC5's loop does not look
  at writes to 0xB000-0xBFFF, which the channel stores like any other: `UnsavedIsRed`
  holds but for RAM that was written there only (`Unwatched`). MBC5 cartridges
  have RAM in the run and the theorem: without it a write to 0x4000 moves the base out
  of `ram_memory`, behind chains that are disabled.

### Calendar, GbRtc, Clock

`Calendar` has `makeTime`, `breakTime` and the corrections of the menu's editor in
their widths, on pairs of days and seconds, for TLC counts to 2^31 only. `GbRtc` has
the registers in their bit widths and a tick. `Clock` takes the time round: menu,
editor, start of a game whose clock file is old by some seconds, main loop
with a millisecond counter, writes of the game to its registers, restart.
`TimePasses` and `GbRtc_PerformRtcTick` are separate, so the loop may be late by any
time. A clock file has registers within their widths: a host could upload others, since
`handle_rtc_upload_command` does not mask them (`webusb.c:497-501`), which is not modelled. `counted` and `shown` are history variables.

### LittleFs

A call of the firmware is split at every program and erase; `op` says which comes
next, and `PowerCut` may come at each and leaves the sector torn, or looking erased
where it is not. The directory is a log of commits in one of two blocks; data blocks
come from `free`, the window of the allocator. Littlefs is vendored, but all of the
firmware's promises rest on it, and the version is fixed (2.5).

- One directory in one pair: no splits, no second pair, no moves, no global state.
  No wear levelling and no bad blocks: the flash programs what it is told.
- A checksum tells a torn commit from a whole one; a torn one may look erased.
- One file is open at a time, as in the firmware, and is written from its beginning.
- The cache is as large as a block, so a block is programmed once.
- `InlineMax` is below the size of a block, as the code's eighth of it is.

## 4. The runs

| Run | Question | Result |
|---|---|---|
| `rom_serial` | A host that ends each upload before its next command, writes and removals that fail, a Game Boy that ends USB at any point, resets and power cuts anywhere. Is the store a `RomLibrary`, does an admitted upload find its banks, in which two ways alone does a save game outlive its ROM, does the game that runs have its own banks and name, does an upload end unless the Game Boy cuts it off? | holds |
| `rom_restarts` | The same with a host that begins uploads over and over. Are stored ROMs still whole and their banks their own? | holds |
| `rom_overrun` | Does the search for a bank stay inside the bit map with that host? | violated |
| `save_kept` | A game on an MBC5 and one with a clock share the RAM, resets and power cuts anywhere, any file access may fail. Are save games kept, and is the LED honest but for files that failed and for the upper half of MBC5 banks? | holds |
| `clock_kept` | Two games with clocks, one without RAM, and a game without a clock. Does each clock file hold what its game had last unless an access to it failed, and does noise become the menu's time only by the game without a clock? | holds |
| `save_reset_window` | The button while a game is loaded. | violated |
| `menu_choice` | Every key and pair of keys on every screen, the cartridge restarted after a change of the store. Is what the screen shows what starts, and does a start arrive? | holds |
| `vblank_hook` | Game Boy and RP2040 up to three reads apart. Does each fetch its own program, are saves stored while the game waits, does each vblank end in the game's handler? | holds |
| `save_transfer` | A host that leaves, files that fail, deletions, uploads of ROMs, a Game Boy that takes over, games and resets in between. Are saves whole, do both sides count alike, is a transfer what it promises, does it end unless the Game Boy comes first? | holds |
| `mbc` | Each controller with its largest ROM and a small one. Do main loop and channels together answer like a cartridge, is nothing left of a cycle at the next, and is unsaved RAM red, but for the upper half on an MBC5? | holds |
| `clock` | Dates and registers at their ends, keys on the date, a late main loop. Does the clock follow the time, and does the date come back? | holds |
| `littlefs` | Two files on a small flash, power cuts at each erase and program. Do files change only when they are closed? | holds |

**Bounds.** *ROM store:* two names and ROMs of one or two banks, on three
banks of two chunks (`rom_overrun`: four): enough for a full store, for an upload that fits in banks only
because another ROM was deleted, for one bank list that is longer than the
one read before it, and for a last chunk that is not the first. Two images in
`rom_restarts` tell a mixture of images apart. `rom_serial` has one: data still says which
bank of the image it belongs to, so what it compares with `RomLibrary` are banks out of order,
doubled or missing; that both names and two images do not mix there either is what `rom_restarts`
checks and the theorem proves. `rom_restarts` looks at states through `RestartsView`, which leaves
out `saves`, `strays` and `unread`: no guard, no other variable and none of the run's
properties depends on them. *Life cycle:* `save_kept` has two games, the first with two RAM banks
and an MBC5, the second with one bank and a clock, and one content beside the
menu's own and that of a fresh RAM: enough for one game's RAM or the menu's to end in
another's file. `clock_kept` has three games; times up to one and a period of two seconds let a
clock wrap and a game's time stamp be before, at and after the menu's. It looks at states
through `ClockView`, which leaves out what only the LED and the save games depend on. *Menu:* pages of four rows, the
fewest that hold its other screens, with no game, less than a page, and two pages and
one row: every branch of `moveCursor` is taken, the last page both full and
pushed back. *Transfers:* saves of three chunks, one and none, and a cache of two: a
save that ends in the middle of a cache line, and one that fits in it.
*VBlank hook:* `Lag` of three reads is the largest for which the RP2040 keeps up
with an instruction at the vector (`LagAssumption`); seven reads from the vector to
the handler, two of the game's own. *Controllers:* eight cartridges, and data on both
sides of every mask, for any number of cycles. *Clock:* two
milliseconds make a second, five are played, four keys pressed, one register written: every
end of the calendar and of the registers is within reach of the first times and files.
*littlefs:* five blocks, two of them the directory with two commits each, so that
every third commit compacts; a window of two blocks, which moves round; files of up to
three units, which outgrow the directory after one and a block after two; three calls, two power
cuts. Names and contents are interchangeable, and only safety is checked under symmetry.
Deadlock is checked in every run but `clock` and `littlefs`, where everything is bounded and
comes to an end when the bounds are used up.

**Fairness.** `UploadFinishes` needs weak fairness of `SendChunk` (the
host goes on with the upload it began), `StepOfUpload` and `RemoveRomFile` (a
device with power finishes the command it is in, for the code between two
commits is straight-line). The first asks for `served`: once the Game Boy has used the
bus nothing is promised to the host (`main.c:394`), and `UploadFinishes` says so. `StartArrives` needs weak fairness of `Poll`, a loop that
never ends by itself, and of `startGame`'s three writes. `GameResumes` needs weak
fairness of `Rp2040`, a loop that never ends, and of the Game Boy's steps in an
interrupt: its clock runs, and the player lets go of the buttons some time. `TransferEnds`
needs weak fairness of the two chunk commands: a host that stays sends the next
chunk, and the cartridge answers while it serves USB; the property ends with that. Nothing is assumed of resets, deletions, failures or
of a host that leaves.

### What disagrees with the documentation

1. *Bank search* (`RomStorage.c:245`). `StartNewRomTransfer` sets the flags of
   the banks it hands out but does not count them in `_usedBanks`; a second
   start keeps them set. Two starts of 512 banks pass the test at line 224, and the
   search passes `MAX_BANKS`. A release build erases the start of the file system.
2. *Reset while loading* (`main.c:285`). The game is marked as running before its
   save game is in RAM, so a reset in between stores the menu's RAM in a save
   file, where `Readme.md` promises that the button writes the unsaved data.

Three more are not runs of their own; the properties of the passing runs name them
as exceptions and show that there are no others:

3. *The LED of an MBC5 game* (`mbc.c:507,537`). `Readme.md:42-45` says that red means that
   the game has written to its RAM. The loop of the MBC5 notices 0xA000-0xAFFF only: after a
   store the LED stays green over what the game writes to 0xB000-0xBFFF (`UnsavedIsRed`,
   `UnsavedShowsRed`, `GreenMeansSaved`).
4. *Green after a store that failed* (`main.c:550`). `Readme.md:45` says that green confirms the
   store; `storeSaveRamToFile` prints errors and shows green all the same (`failed` in
   `SavesKept`, `GreenMeansSaved` and `UnsavedShowsRed`).
5. *The list of ROMs in the menu* is made once, before USB is served, so that a Game Boy
   that is switched on while the cartridge lives on USB power shows an old one
   (`main.c:394`; `RestartAfterEdit` in `BootMenu`, any number in `RomStorage`).

And some of which no document says anything, but which a maintainer may want to know:

- A game that is chosen during an upload that was not finished is refused with -2, and
  `main()` hangs with USB shut down (`main.c:287-296`). The reset button helps.
- `RomStorage_LoadRom` ignores the result of `RomStorage_loadRomInfo` (563): if that fails,
  the ROM under the last name in `g_loadedRomInfo` runs instead of the chosen one.
- A save game outlives its ROM if its removal fails (384), or if a start stores it: the game
  that `_lastRunningGame` marks was chosen, its file could not be read, and
  `g_loadedRomInfo` still names a ROM that was deleted (`strays` in `NoOrphanSave`).
- A reset of a game without a clock makes `g_rtcTimestamp`, which nothing has set since
  power-on, the menu's time (`main.c:269`; `strayTime` in `TimeIsKnown`).

## 5. The proofs

`RomStorageProofs`, for every set of names and images and every number of banks
and chunks:

- `TypeCorrect` assumes nothing of the host. `TypeInv` adds to the type that an
  active upload has an image.
- `StoredRomsStayIntact`, `StoredRomsShareNoBank` and `BitmapIsComplete` assume
  that the host sends no other command during an upload (`~HostInterleaves`); it
  may begin uploads over and over. Their inductive invariant, `SafeInv`, says of the
  running upload what the three say of stored ROMs: its banks are marked and
  belong to no file, those before `NextBank` hold their part of the image, the
  others are erased, and the buffer holds the chunks of the bank that is being
  filled. Without the part about erased banks a chunk could not be shown to
  arrive unmixed; without the part about ownership, programming it could damage
  a stored ROM.
- `SerialHostNeverOverruns` also assumes `~HostRestarts`: `CountCoversFlags` shows
  that `_usedBanks` is at least the number of marked banks whenever no upload is
  active.
- `NoSaveIsOrphaned` assumes nothing, not even that removals succeed: a deletion removes the
  save game first, and whatever name a save is stored under is that of a listed ROM, or the
  save is one of `strays`. For the store after a reset, `OrphanInv` has to say more: the
  name in `g_loadedRomInfo` is that of a listed ROM whenever a game is marked and its
  name was read. It survives resets, for deletions are over once a game is chosen.
- `RunningGameStaysWhole` (ROMs have at least one bank): `GameLoaded` shows that the bank
  table is read from the file of the game, and `GameStep` that no step moves it.
- `StoreImplementsLibrary` shows each step to be a step of `RomLibrary` or a
  stutter; the step that stores an image is `WriteRomFile`, the one that removes it
  is `RemoveRomFile`.

Sizes lie between 0 and `MaxBanksPerRom` (`SizesAssumption`): a larger one writes
behind the array in the code.

`SaveLifecycleProofs`, for every set of games and every RAM size up to
`MaxRamBanks`, assuming `LoadingUndisturbed`:

- `LifecycleTypes`: `Place` says in which places of `main()` the two records of
  the running game agree.
- `SavesAreKept`: `SaveInv` says which game's file may be
  behind, but for files whose last access failed, and that memory then holds the rest.
- `ClocksAreKept`: `ClockInv`, the same of clocks.
- `GreenIsHonest` and `RedIsHonest`: `LedInv` ties `_ramDirty`
  and the LED to `SaveInv`: while the RAM is not marked, file and RAM differ in
  `unmarked` banks alone.
- `TimeStaysKnown`, for any games with and without clocks: `TimeInv` follows the time
  through file, register and menu. Before `strayTime` the noise of power-on is in
  `g_rtcTimestamp` alone, and a game with a clock that runs has replaced it.

`BootMenuProofs`, for every number of rows from four on (16 in the code) and every
set of stores of less than 255 games (180 in the code):

- `MenuTypesKept` and `ChoiceStaysShown` rest on `MenuInv`. Its core is `OnPage`:
  the cursor is on the page and below the number of games, and a page that is not
  the first is full. The latter is needed to turn a page back, for the cursor
  then stays on it; `MoveKeepsPage` shows it for each direction.
- `ShownGameIsStarted` (assumes `RestartAfterEdit`) and `ShownModeIsStarted` rest
  on `StartInv`, which follows the chosen game and mode through `call`, shared RAM
  and bus to what `main()` read. The mode of a game with a clock needs a part of
  its own: on the clock screen `picked` is `gSelectedMode` or nothing.

`SaveTransferProofs`, for every set of games and every number of chunks, cache size
and set of contents, assuming that the host sends nothing else in a transfer
(`~Interleaves`):

- `TransferTypesKept`, `SavesStayWhole` and `HostStaysInStep` rest on one invariant.
  `SavesWhole` alone is not inductive: the file that an upload closes is whole only
  because its chunks up to the position are the host's (`Uploading`), and the position
  is the host's count (`InStep`). `Unplugged`: while a game runs no host is in a transfer. `Downloading` says the same of what a host has read, and
  `Calm` that the cache is the file's own, which fails with another command between two chunks.
- `TransferImplementsService` also assumes that closing does not fail: each step of the
  chunk protocol is a step of `SaveService` or a stutter; the last chunk is the one
  that delivers or stores.

`ClockProofs`, for every set of files, gaps, values and times and every number of
milliseconds in a second:

- `TickCounts` (a lemma) shows that a tick keeps legal registers legal and shows one
  second more, over the ends of minutes, hours, days and the 512 days, and that it
  keeps the widths of any registers.
- `AdvanceCounts`: `n` ticks add `n` seconds, for every `n`. `Ticks` is a recursive function, and
  the library's induction theorems take operators, which the provers cannot instantiate; the
  proof looks at the least counterexample instead (`LeastNumber`, from the
  well-foundedness of `<`), first to show that the function exists (`RunExists`), then
  for what it computes.
- `ClockIsRight`: `ClockInv` adds that `_millies` is the rest of the time that was counted,
  also when the registers are not legal, since a later write may make them legal.
- `DateOfMadeTime`: `breakTime` after `makeTime` is the identity to the end of 2105, although
  both count modulo 2^32. `DaysOfNextYear` and `MonthsBefore` turn the sums of days into
  steps of a year and a month, so that each day lies in one year and one month only
  (`YearOfDay`, `MonthOfDay`) and `BreakTimeIs` finds the one that `makeTime` started from; `LeapDays` bounds the
  sum over the years. Induction is over the set of numbers for which a fact holds (`SetInduction`).
- `ClockTypeOK` and `TheDateReturns` rest on `DateInv`: in the menu the date is one whose year fits
  the byte it is kept in; in a game, `rtcTimestamp` is `makeTime` of the date shown. `EditorKeepsDate`
  is the part about keys: a change of month or year takes a day that no longer exists back
  to the end of its month.

`MbcProofs`, for every number of ROM and RAM banks and any byte a game writes, assuming that
MBC5 games have RAM (`Mbc5HasRam`):

- `BanksStayInRange` rests on `MbcInv`. `CpuTypes` is the types of the registers, bases and
  chains; they hold only because the main loop takes a write's data for data. So `Queue` says
  that its FIFO never holds more than the cycle under way: none of the actions between two cycles
  leaves a word behind, and `WriteFrame` shows that `main[2]` is then a byte.
  `Mbc1Safe` to `Mbc5Safe` have a case per register; `DmaTypes` says that a command
  leaves an accessor that arms one of the channels.
- `EveryCycleEnds`, for every order in which main loop and channels handle a cycle, says of the
  state between two cycles that everything is at rest; the invariant has to say where a cycle is at any time (`CycleInv`). `Stage` gives, for a chain of which
  `n` commands were executed, which channel is not armed, how many words are left in its FIFO,
  and what the accessor holds. `ExecuteStage`, `RequestStage` and `AccessStage` lead from one stage
  to the next, `UnderwayMoves` shows that a cycle that is not over can always go on. Of the
  seven chains it uses only their shape (`ShapedLike`: one command takes the address, the last one
  starts the access). The main loop may replace the chains while a channel runs: what runs
  is a copy, except that a write to RAM must be found to use the chain that is still set.
- `RedUntilStored` adds that the chain that writes is set only while the main loop believes
  that RAM is enabled and no clock register selected (`OnlyIfGiven`), and that a write that the channel
  has stored and the main loop has not seen yet is still in its FIFO (`DirtyInv`), but for
  those of an MBC5 to 0xB000-0xBFFF, which its main loop takes out and forgets.
- `MbcImplementsBus` needs to know what the values *are*, where the others need only their kind. `FlowInv`
  has three parts. `Follows`: the bases, chains and registers of the main loop are those that
  the game's writes select (`Selects`), counting the write of this cycle once the main loop has handled it.
  `Told`: the words in its FIFO are those of the cycle. `Flow`: at each `Stage` of a chain, what
  is in the channel's FIFO and the accessor (`Loading` for a read, `Storing` for a
  write), and what the cycle has driven or stored so far. `BeginRead` and `BeginWrite` are then
  `Begin` of `CartridgeBus`, `EndCycle` is its `Answer`, the rest are stutters. The
  race that remains is harmless because a write either reaches the RAM or changes the
  registers, never both, and the clock registers are written by the main loop alone.
- The main loops mask a bank number and `Mbc` takes a remainder, which is the same for powers
  of two only. `MbcAssumption` says so: `1 << (gameptr[0x148] + 1)` ROM banks (`mbc.c:77`) and the
  RAM sizes of the header's table.

`VBlankHookProofs`, for every `EntryReads`, `HandlerReads` and `Lag` that `LagAssumption`
allows, assuming that the game's handler does not come back to 0x41-0x47 (`~HandlerComesBack`):

- The four properties rest on `HookInv`. Neither process sees the other, so
  `FetchesWhatItMeans` is far from inductive: `Place` lists, for each state of
  `process_vblank_hook`, where the Game Boy can be and what the FIFO then holds. Either the
  read that the state waits for is still to come, or it is `Queued`, behind reads that
  the state drops and before exactly as many as the Game Boy has made since.
- The argument that the bank is switched in time is `QueueFull`: a read can be made only if fewer than
  `Lag` are queued, so with `n` reads behind it the awaited one is handled once `n + 1 >= Lag`. It is
  used four times: before the hook's fetch at 0x50 (`EntryReads`), before its jump to 0x100 and
  before the vector is fetched again (two reads after 0x50), and before the game leaves its
  handler (`HandlerReads`).
- `HookImplementsService` gives for each action the phases it leads from and to
  (`GameBoyMoves`, `Rp2040Moves`). Mapping the second hook bank is the moment at which
  a hook that is about to return becomes the game's handler.

`LittleFsProofs`, for every number of blocks, sizes of block, log and window, limit of
inline files, and any number of calls and power cuts:

- `LittleFsTypeOK` and `BlocksStayApart` rest on `IInv`, whose parts are those of the driver.
  `LogOK`: in both blocks of the pair no commit comes behind a slot without one, and RAM
  agrees with what a mount would read; `LogStep` shows it of every program, erase and power
  cut, and that the directory changes only with a whole commit. `DirectoryOK`: an entry has as many
  blocks as its size needs. `OpOK` and `FileOK` say where a call is, and how much the open file
  holds there. `WindowOK` is why the allocator works with an old window: a block in use
  that the window has still to come to was in use when the window was scanned. `NothingShared`
  adds to the property that the chain of the open file repeats nothing and may share blocks
  only with the entry that it is replacing.
- `FilesAreKept` reads off the flash what `FileStore` sees. `IInv` does not say what is *in* a block, so
  `KInv` adds: `NamesKept` (the entry that the open file started from is still in the directory),
  `CacheKept` (the cache of an inline file is the old content from the position on; a full block is on
  the flash), `CopyKept` (what `lfs_file_flush` copied behind the last write is the old content).
  Each step is then one of those that `StepKinds` lists: it opens, creates, removes, writes, closes,
  gives up, or is a stutter, which most programs and erases are. The one step that closes a file
  is the program of its commit.

TLC checked each inductive invariant before it was proved.

*Only model-checked:* `UploadFinishes`, `StartArrives`, `GameResumes` and `TransferEnds`
(liveness and ENABLED are out of the prover's reach).
No RECURSIVE operator is used.

## 6. Not modelled, and why

- *Double speed detection* (`mbc.c` 548-668, `main.c` 406-452): it follows opcodes on
  the bus and patches a PIO program; whether it is in time depends on clock cycles
  between two fetches, and nothing else in the models depends on it.
- *Framing of USB commands* (`webusb.c`): a command whose payload is incomplete is
  answered at once, and the rest is taken for commands. How many bytes
  `tud_vendor_read` returns depends on the USB stack, which is not in the repository.
  Command 254 returns constants.
- *PIO programs and the timing of DMA*: modelled by their effect on the FIFOs; their cycles
  are out of a model checker's reach at this level.
- *USB descriptors, the LED's bit stream, the tables of the header parser*: constant
  data or pure output. The parser's results are constants of the models.
- *littlefs beyond what the firmware uses*: several directory pairs and their splits,
  relocation, renames, seeks, bad blocks, reading through a cache.
- A host that sends other commands during a ROM upload is a switch of `RomStorage`
  (`HostInterleaves`) that no run turns on: `_romInfoFile` is then overwritten under the
  upload, and no document says that a host may do this.
