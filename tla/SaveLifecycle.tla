--------------------------- MODULE SaveLifecycle ----------------------------
(***************************************************************************)
(* How a save game travels between the emulated cartridge RAM and the      *)
(* file system (main.c, loadGame in mbc.c).  The RAM, the clock registers  *)
(* and the name of the game that runs lie in memory that the start-up code *)
(* does not initialise: they survive the reset button, and main() writes   *)
(* them to flash on the next start.  They do not survive a power cut.      *)
(*                                                                         *)
(* pc is the place in main(); the reset button and a power cut may come at *)
(* every one of them.  A file is written in one step, because littlefs     *)
(* shows the new content of a file only once it is closed; one that a      *)
(* failed write left empty reads like one that does not exist.             *)
(*                                                                         *)
(* Every read and every write of a file may fail.  main() prints the error *)
(* and goes on as after a success: failed notes whose file it was, so that *)
(* the properties can say what holds of all the others.                    *)
(***************************************************************************)
EXTENDS Integers

CONSTANTS
  Games,       \* the ROMs in the store; their set does not change here
  RtcGames,    \* those whose header names a real time clock
  Mbc5Games,   \* those on an MBC5, which has none
  RamBanks,    \* numRamBanks of every game, 0 for one without RAM
  MaxRamBanks, \* GB_MAX_RAM_BANKS
  Data,        \* what a game may write into a bank
  BootData,    \* what runGbBootloader leaves in bank 0
  Noise,       \* RAM content after power-on
  NoGame,      \* 0xFF in _lastRunningGame
  Nothing,     \* g_loadedRomInfo after power-on; a file that does not exist
  BuildTime,   \* the time stamp compiled into g_globalTimestamp
  MaxTime,     \* bound: the last second the model looks at
  ClockPeriod, \* seconds until the clock registers wrap (512 days)
  LoadingUndisturbed  \* nobody presses reset between the choice of a game and
                      \* the moment its save game is back in RAM

ASSUME GamesAssumption ==
  /\ RtcGames \subseteq Games
  /\ Mbc5Games \subseteq Games /\ RtcGames \cap Mbc5Games = {}
  /\ MaxRamBanks \in Nat \ {0}
  /\ RamBanks \in [Games -> 0..MaxRamBanks]
  /\ NoGame \notin Games /\ Nothing \notin Games
ASSUME TimeAssumption ==
  /\ MaxTime \in Nat /\ BuildTime \in 0..MaxTime
  /\ Nothing \notin 0..MaxTime + 1
  /\ ClockPeriod \in Nat \ {0}
ASSUME EnvironmentAssumption == LoadingUndisturbed \in BOOLEAN

VARIABLES
  \* files
  save,            \* saves/<game>: one content per RAM bank, or Nothing
  rtcFile,         \* rtc/<game>: the clock registers and g_rtcTimestamp
  timeFile,        \* "timestamp"
  \* memory that survives the reset button
  noInitTest,      \* _noInitTest holds its magic number
  lastRunningGame, \* _lastRunningGame
  loadedRomInfo,   \* g_loadedRomInfo
  ram,             \* ram_memory, by bank
  rtcReal,         \* g_rtcReal, as the seconds the registers show
  rtcTimestamp,    \* g_rtcTimestamp
  \* memory that does not
  globalTimestamp, \* g_globalTimestamp
  ramDirty,        \* _ramDirty
  led,             \* colour of the LED
  pc,              \* place in main()
  \* what really happened, for the properties
  lastRam,         \* the RAM every game had last, as far as power let it last
  lastClock,       \* and the clock
  failed,          \* <<directory, game>>: the last access to that file failed
  unmarked,        \* banks written since the last write that marks the RAM, or
                   \* the last save, by writes that do not mark it
  strayTime        \* a start took the noise in g_rtcTimestamp for the time,
                   \* because the game that had run has no clock

files == <<save, rtcFile, timeFile>>
noInit == <<noInitTest, lastRunningGame, loadedRomInfo, ram, rtcReal, rtcTimestamp>>
history == <<lastRam, lastClock, failed, unmarked, strayTime>>
vars == <<files, noInit, globalTimestamp, ramDirty, led, pc, history>>

Banks == 0..MaxRamBanks - 1
Contents == Data \cup {BootData, Noise}
\* A file that does not exist is none that does.
ASSUME NothingAssumption ==
  \A g \in Games : Nothing \notin [0..RamBanks[g] - 1 -> Contents]

Times == 0..MaxTime
Unknown == MaxTime + 1   \* the noise in a time stamp after power-on, which is
                         \* taken to lie after every time: it then spreads most
Clocks == 0..ClockPeriod - 1
HasRam(g) == RamBanks[g] > 0
SaveOf(g, content) == [b \in 0..RamBanks[g] - 1 |-> content[b]]
RtcRecord(c, t) == [clock |-> c, time |-> t]

Init ==
  /\ save = [g \in Games |-> Nothing]
  /\ rtcFile = [g \in Games |-> Nothing]
  /\ timeFile = Nothing
  /\ noInitTest = FALSE
  /\ lastRunningGame \in Games \cup {NoGame}
  /\ loadedRomInfo = Nothing
  /\ ram = [b \in Banks |-> Noise]
  /\ rtcReal \in Clocks
  /\ rtcTimestamp = Unknown
  /\ globalTimestamp = BuildTime
  /\ ramDirty = FALSE
  /\ led = "off"
  /\ pc = "boot"
  /\ lastRam = [g \in Games |-> Nothing]
  /\ lastClock = [g \in Games |-> Nothing]
  /\ failed = {}
  /\ unmarked = {}
  /\ strayTime = FALSE

----------------------------------------------------------------------------
\* main(): from the start to the boot menu.

\* Mutant of Boot: the magic number is not looked at.
Boot_TrustsMemory ==
  /\ pc = "boot"
  /\ noInitTest' = TRUE
  /\ pc' = IF lastRunningGame # NoGame THEN "storeRtc" ELSE "loadTime"
  /\ UNCHANGED <<files, lastRunningGame, loadedRomInfo, ram, rtcReal, rtcTimestamp,
                 globalTimestamp, ramDirty, led, history>>

\* Mutant of Boot: the registers are cleared on every start.
Boot_ClearsClock ==
  /\ pc = "boot"
  /\ noInitTest' = TRUE
  /\ rtcReal' = 0
  /\ lastRunningGame' = IF noInitTest THEN lastRunningGame ELSE NoGame
  /\ pc' = IF lastRunningGame' # NoGame THEN "storeRtc" ELSE "loadTime"
  /\ UNCHANGED <<files, loadedRomInfo, ram, rtcTimestamp, globalTimestamp,
                 ramDirty, led, history>>

\* The magic number tells a reset from power-on; a game may have been running.
Boot ==
  /\ pc = "boot"
  /\ noInitTest' = TRUE
  /\ IF noInitTest THEN UNCHANGED <<lastRunningGame, rtcReal>>
     ELSE lastRunningGame' = NoGame /\ rtcReal' = 0
  /\ pc' = IF lastRunningGame' # NoGame THEN "storeRtc" ELSE "loadTime"
  /\ UNCHANGED <<files, loadedRomInfo, ram, rtcTimestamp, globalTimestamp,
                 ramDirty, led, history>>

\* storeRtcToFile: the file of the game, ...
StoreRtcFile(g, record) ==
  \/ rtcFile' = [rtcFile EXCEPT ![g] = record] /\ failed' = failed \ {<<"rtc", g>>}
  \/ UNCHANGED rtcFile /\ failed' = failed \cup {<<"rtc", g>>}

\* ... and storeLastTimestampToFile, which may fail as well.
StoreTimeFile(t) == UNCHANGED timeFile \/ (t > globalTimestamp /\ timeFile' = t)

\* After power-on g_loadedRomInfo is noise, and its header pointer leads
\* anywhere.
StoreRtc ==
  /\ pc = "storeRtc"
  /\ \/ loadedRomInfo = Nothing /\ pc' = "fault" /\ UNCHANGED <<rtcFile, failed>>
     \/ /\ loadedRomInfo \in RtcGames
        /\ StoreRtcFile(loadedRomInfo, RtcRecord(rtcReal, rtcTimestamp))
        /\ pc' = "storeTime"
     \/ /\ loadedRomInfo \in Games \ RtcGames
        /\ pc' = "storeSave"
        /\ UNCHANGED <<rtcFile, failed>>
  /\ UNCHANGED <<save, timeFile, noInit, globalTimestamp, ramDirty, led,
                 lastRam, lastClock, unmarked, strayTime>>

\* Mutant of StoreTime: the game is forgotten before its RAM is stored.
StoreTime_ForgetsGame ==
  /\ pc = "storeTime"
  /\ StoreTimeFile(rtcTimestamp)
  /\ lastRunningGame' = NoGame
  /\ pc' = "storeSave"
  /\ UNCHANGED <<save, rtcFile, noInitTest, loadedRomInfo, ram, rtcReal,
                 rtcTimestamp, globalTimestamp, ramDirty, led, history>>

StoreTime ==
  /\ pc = "storeTime"
  /\ StoreTimeFile(rtcTimestamp)
  /\ pc' = "storeSave"
  /\ UNCHANGED <<save, rtcFile, noInit, globalTimestamp, ramDirty, led, history>>

\* storeSaveRamToFile: the errors of the file system are printed, no more,
\* and the LED turns green either way.
StoreSaveRamToFile(g) ==
  /\ \/ save' = [save EXCEPT ![g] = SaveOf(g, ram)] /\ failed' = failed \ {<<"saves", g>>}
     \/ UNCHANGED save /\ failed' = failed \cup {<<"saves", g>>}
  /\ led' = "green"

StoreSave ==
  /\ pc = "storeSave"
  /\ IF HasRam(loadedRomInfo) THEN StoreSaveRamToFile(loadedRomInfo)
     ELSE UNCHANGED <<save, failed, led>>
  /\ pc' = "clear"
  /\ UNCHANGED <<rtcFile, timeFile, noInit, globalTimestamp, ramDirty,
                 lastRam, lastClock, unmarked, strayTime>>

\* Only now is the game forgotten.  Whether it had a clock, and so a time
\* stamp, is not asked.
Clear ==
  /\ pc = "clear"
  /\ lastRunningGame' = NoGame
  /\ globalTimestamp' = rtcTimestamp
  /\ strayTime' = (strayTime \/ (loadedRomInfo \notin RtcGames /\ rtcTimestamp = Unknown))
  /\ pc' = "prepare"
  /\ UNCHANGED <<files, noInitTest, loadedRomInfo, ram, rtcReal, rtcTimestamp,
                 ramDirty, led, lastRam, lastClock, failed, unmarked>>

\* No game was running: the time comes from the file.
LoadTime ==
  /\ pc = "loadTime"
  /\ globalTimestamp' =
       IF timeFile # Nothing /\ timeFile > globalTimestamp THEN timeFile
       ELSE globalTimestamp
  /\ pc' = "prepare"
  /\ UNCHANGED <<files, noInit, ramDirty, led, history>>

\* runGbBootloader clears bank 0 and puts the list of games there.
Prepare ==
  /\ pc = "prepare"
  /\ ram' = [ram EXCEPT ![0] = BootData]
  /\ pc' = "menu"
  /\ UNCHANGED <<files, noInitTest, lastRunningGame, loadedRomInfo, rtcReal,
                 rtcTimestamp, globalTimestamp, ramDirty, led, history>>

\* The boot menu sets the LED, ...
MenuLed ==
  /\ pc = "menu"
  /\ led' \in {"off", "red", "green", "blue"}
  /\ UNCHANGED <<files, noInit, globalTimestamp, ramDirty, pc, history>>

\* ... and reports the game that was chosen, with the time the player set or
\* the one that was shown.
SelectGame(g, t) ==
  /\ pc = "menu"
  /\ globalTimestamp' = t
  /\ lastRunningGame' = g
  /\ pc' = "load"
  /\ UNCHANGED <<files, noInitTest, loadedRomInfo, ram, rtcReal, rtcTimestamp,
                 ramDirty, led, history>>

----------------------------------------------------------------------------
\* The USB host, in the boot menu until the Game Boy first uses the bus; a
\* whole transfer is one step here.

\* RomStorage_StartRamDownload and its chunks: only g_loadedRomInfo changes.
HostReadsSave(g) ==
  /\ pc = "menu"
  /\ HasRam(g)
  /\ loadedRomInfo' = g
  /\ UNCHANGED <<files, noInitTest, lastRunningGame, ram, rtcReal, rtcTimestamp,
                 globalTimestamp, ramDirty, led, pc, history>>

\* RomStorage_StartRamUpload and its chunks.  An upload that fails leaves the
\* old save game (SaveTransfer) and so changes what HostReadsSave changes.
HostWritesSave(g, d) ==
  /\ pc = "menu"
  /\ HasRam(g)
  /\ loadedRomInfo' = g
  /\ save' = [save EXCEPT ![g] = SaveOf(g, [b \in Banks |-> d])]
  /\ lastRam' = [lastRam EXCEPT ![g] = save'[g]]
  /\ failed' = failed \ {<<"saves", g>>}
  /\ UNCHANGED <<rtcFile, timeFile, noInitTest, lastRunningGame, ram, rtcReal,
                 rtcTimestamp, globalTimestamp, ramDirty, led, pc, lastClock,
                 unmarked, strayTime>>

\* restoreRtcFromFile: the file is read into the registers and the time stamp;
\* an error may come before both or between them.
RtcFileRead(g, clock, time) ==
  /\ rtcFile[g] # Nothing
  /\ clock = rtcFile[g].clock /\ time = rtcFile[g].time
RtcFileNotRead(g, clock, time) ==
  /\ clock = rtcReal \/ (rtcFile[g] # Nothing /\ clock = rtcFile[g].clock)
  /\ time = rtcTimestamp

\* handle_rtc_download_command.
HostReadsRtc(g) ==
  /\ pc = "menu"
  /\ RtcFileRead(g, rtcReal', rtcTimestamp') \/ RtcFileNotRead(g, rtcReal', rtcTimestamp')
  /\ UNCHANGED <<files, noInitTest, lastRunningGame, loadedRomInfo, ram,
                 globalTimestamp, ramDirty, led, pc, history>>

\* handle_rtc_upload_command: by way of the registers into the files.
HostWritesRtc(g, c, t) ==
  /\ pc = "menu"
  /\ rtcReal' = c
  /\ rtcTimestamp' = t
  /\ StoreRtcFile(g, RtcRecord(c, t))
  /\ StoreTimeFile(t)
  /\ lastClock' = [lastClock EXCEPT ![g] = RtcRecord(c, t)]
  /\ UNCHANGED <<save, noInitTest, lastRunningGame, loadedRomInfo, ram,
                 globalTimestamp, ramDirty, led, pc, lastRam, unmarked, strayTime>>

HostCommand ==
  \/ \E g \in Games : HostReadsSave(g) \/ \E d \in Data : HostWritesSave(g, d)
  \/ \E g \in RtcGames :
       HostReadsRtc(g) \/ \E c \in Clocks, t \in Times : HostWritesRtc(g, c, t)

----------------------------------------------------------------------------
\* RomStorage_LoadRom and loadGame.

LoadRom ==
  /\ pc = "load"
  /\ loadedRomInfo' = lastRunningGame
  /\ pc' = "restoreRtc"
  /\ UNCHANGED <<files, noInitTest, lastRunningGame, ram, rtcReal, rtcTimestamp,
                 globalTimestamp, ramDirty, led, history>>

\* "Error reading ROM": main() spins.  An upload that was not finished is seen
\* before g_loadedRomInfo is replaced, an unreadable file only afterwards.
LoadRomFails ==
  /\ pc = "load"
  /\ loadedRomInfo' \in {loadedRomInfo, lastRunningGame}
  /\ pc' = "hang"
  /\ UNCHANGED <<files, noInitTest, lastRunningGame, ram, rtcReal, rtcTimestamp,
                 globalTimestamp, ramDirty, led, history>>

\* GbRtc_advanceToNewTimestamp: the registers catch up with the time that
\* passed since the time stamp.
Advanced(clock, time) ==
  IF globalTimestamp > time THEN (clock + (globalTimestamp - time)) % ClockPeriod
  ELSE clock

\* Mutant of RestoreRtc: a missing file ends it.
RestoreRtc_NeedsFile ==
  /\ pc = "restoreRtc"
  /\ IF loadedRomInfo \notin RtcGames \/ rtcFile[loadedRomInfo] = Nothing
     THEN UNCHANGED <<rtcReal, rtcTimestamp, lastClock, failed>>
     ELSE /\ rtcReal' = Advanced(rtcFile[loadedRomInfo].clock,
                                 rtcFile[loadedRomInfo].time)
          /\ rtcTimestamp' = globalTimestamp
          /\ lastClock' = [lastClock EXCEPT ![loadedRomInfo] =
                             RtcRecord(rtcReal', rtcTimestamp')]
          /\ failed' = failed \ {<<"rtc", loadedRomInfo>>}
  /\ pc' = "restoreSave"
  /\ UNCHANGED <<files, noInitTest, lastRunningGame, loadedRomInfo, ram,
                 globalTimestamp, ramDirty, led, lastRam, unmarked, strayTime>>

\* restoreRtcFromFile; without a file the registers stay as they are, and
\* loadGame does not look at the result.
RestoreRtc ==
  /\ pc = "restoreRtc"
  /\ IF loadedRomInfo \notin RtcGames
     THEN UNCHANGED <<rtcReal, rtcTimestamp, lastClock, failed>>
     ELSE /\ \E c \in Clocks, t \in Times \cup {Unknown} :
               /\ \/ /\ RtcFileRead(loadedRomInfo, c, t)
                     /\ failed' = failed \ {<<"rtc", loadedRomInfo>>}
                  \/ /\ RtcFileNotRead(loadedRomInfo, c, t)
                     /\ failed' = IF rtcFile[loadedRomInfo] = Nothing
                                  THEN failed \ {<<"rtc", loadedRomInfo>>}
                                  ELSE failed \cup {<<"rtc", loadedRomInfo>>}
               /\ rtcReal' = Advanced(c, t)
          /\ rtcTimestamp' = globalTimestamp
          /\ lastClock' = [lastClock EXCEPT ![loadedRomInfo] =
                             RtcRecord(rtcReal', rtcTimestamp')]
  /\ pc' = "restoreSave"
  /\ UNCHANGED <<files, noInitTest, lastRunningGame, loadedRomInfo, ram,
                 globalTimestamp, ramDirty, led, lastRam, unmarked, strayTime>>

\* restoreSaveRamFromFile reads the first n banks of the RAM, all of them if
\* there is a file and no error.  The rest stays as it is, which is what the
\* game then finds.
RestoreSave ==
  /\ pc = "restoreSave"
  /\ IF HasRam(loadedRomInfo)
     THEN /\ \E n \in 0..RamBanks[loadedRomInfo] :
               /\ save[loadedRomInfo] = Nothing => n = 0
               /\ ram' = [b \in Banks |-> IF b < n THEN save[loadedRomInfo][b] ELSE ram[b]]
               /\ failed' = IF save[loadedRomInfo] = Nothing \/ n = RamBanks[loadedRomInfo]
                            THEN failed \ {<<"saves", loadedRomInfo>>}
                            ELSE failed \cup {<<"saves", loadedRomInfo>>}
          /\ lastRam' = [lastRam EXCEPT ![loadedRomInfo] = SaveOf(loadedRomInfo, ram')]
     ELSE UNCHANGED <<ram, lastRam, failed>>
  /\ led' = "off"
  /\ pc' = "game"
  /\ UNCHANGED <<files, noInitTest, lastRunningGame, loadedRomInfo, rtcReal,
                 rtcTimestamp, globalTimestamp, ramDirty, lastClock, unmarked, strayTime>>

----------------------------------------------------------------------------
\* The game runs.

\* It writes into its RAM.
RamChanges(b, d) ==
  /\ pc = "game"
  /\ b < RamBanks[loadedRomInfo]
  /\ ram' = [ram EXCEPT ![b] = d]
  /\ lastRam' = [lastRam EXCEPT ![loadedRomInfo] = SaveOf(loadedRomInfo, ram')]
  /\ UNCHANGED <<files, noInitTest, lastRunningGame, loadedRomInfo, rtcReal,
                 rtcTimestamp, globalTimestamp, pc, lastClock, failed, strayTime>>

\* The first write since the last save turns the LED red.
GameWrites(b, d) ==
  /\ RamChanges(b, d)
  /\ led' = IF ramDirty THEN led ELSE "red"
  /\ ramDirty' = TRUE
  /\ unmarked' = {}

\* On an MBC5 only when it goes to the lower half of the bank: 0xB000-0xBFFF
\* is no case of runMbc5Game.
GameWritesUpperHalf(b, d) ==
  /\ loadedRomInfo \in Mbc5Games
  /\ RamChanges(b, d)
  /\ unmarked' = unmarked \cup {b}
  /\ UNCHANGED <<led, ramDirty>>

\* The clock of the game and its time stamp change: GbRtc_PerformRtcTick counts
\* the two apart, and the game may write the registers.
ClockChanges(c, t) ==
  /\ pc = "game"
  /\ loadedRomInfo \in RtcGames
  /\ rtcReal' = c
  /\ rtcTimestamp' = t
  /\ lastClock' = [lastClock EXCEPT ![loadedRomInfo] = RtcRecord(c, t)]
  /\ UNCHANGED <<files, noInitTest, lastRunningGame, loadedRomInfo, ram, globalTimestamp,
                 ramDirty, led, pc, lastRam, failed, unmarked, strayTime>>

ClockTick == ClockChanges((rtcReal + 1) % ClockPeriod, rtcTimestamp)
TimeTick == rtcTimestamp < MaxTime /\ ClockChanges(rtcReal, rtcTimestamp + 1)
GameSetsClock == \E c \in Clocks : ClockChanges(c, rtcTimestamp)

\* storeCurrentlyRunningSaveGame, asked for by the vblank hook, file by file;
\* the game waits and nothing else runs.
StoreRunningSave ==
  /\ pc = "game"
  /\ HasRam(loadedRomInfo)
  /\ StoreSaveRamToFile(loadedRomInfo)
  /\ unmarked' = {}
  /\ pc' = "hookRtc"
  /\ UNCHANGED <<rtcFile, timeFile, noInit, globalTimestamp, ramDirty,
                 lastRam, lastClock, strayTime>>

StoreRunningRtc ==
  /\ pc = "hookRtc"
  /\ IF loadedRomInfo \in RtcGames
     THEN StoreRtcFile(loadedRomInfo, RtcRecord(rtcReal, rtcTimestamp))
     ELSE UNCHANGED <<rtcFile, failed>>
  /\ pc' = "hookTime"
  /\ UNCHANGED <<save, timeFile, noInit, globalTimestamp, ramDirty, led,
                 lastRam, lastClock, unmarked, strayTime>>

\* Mutant of StoreRunningTime: _ramDirty stays set.
StoreRunningTime_StaysDirty ==
  /\ pc = "hookTime"
  /\ IF loadedRomInfo \in RtcGames THEN StoreTimeFile(rtcTimestamp)
     ELSE UNCHANGED timeFile
  /\ led' = "green"
  /\ pc' = "game"
  /\ UNCHANGED <<save, rtcFile, noInit, globalTimestamp, ramDirty, history>>

StoreRunningTime ==
  /\ pc = "hookTime"
  /\ IF loadedRomInfo \in RtcGames THEN StoreTimeFile(rtcTimestamp)
     ELSE UNCHANGED timeFile
  /\ led' = "green"
  /\ ramDirty' = FALSE
  /\ pc' = "game"
  /\ UNCHANGED <<save, rtcFile, noInit, globalTimestamp, history>>

----------------------------------------------------------------------------
\* Mutant of StartUp: _ramDirty lies in the memory that survives a reset.
StartUp_KeepsDirty ==
  /\ globalTimestamp' = BuildTime
  /\ ramDirty' = ramDirty
  /\ led' = "off"
  /\ pc' = "boot"

\* What every start finds initialised.
StartUp ==
  /\ globalTimestamp' = BuildTime
  /\ ramDirty' = FALSE
  /\ led' = "off"
  /\ pc' = "boot"

\* From the choice of a game to the end of restoreSaveRamFromFile.
Loading == pc \in {"load", "restoreRtc", "restoreSave", "hang"}

\* The button on the cartridge.
ResetButton ==
  /\ LoadingUndisturbed => ~Loading
  /\ StartUp
  /\ unmarked' = {}
  /\ UNCHANGED <<files, noInit, lastRam, lastClock, failed, strayTime>>

\* Power goes: what was not in a file is gone for good.
PowerCut ==
  /\ StartUp
  /\ noInitTest' = FALSE
  /\ lastRunningGame' \in Games \cup {NoGame}
  /\ loadedRomInfo' = Nothing
  /\ ram' = [b \in Banks |-> Noise]
  /\ rtcReal' \in Clocks
  /\ rtcTimestamp' = Unknown
  /\ lastRam' = save
  /\ lastClock' = rtcFile
  /\ failed' = {}
  /\ unmarked' = {}
  /\ strayTime' = (strayTime /\ timeFile = Unknown)
  /\ UNCHANGED files

Next ==
  \/ Boot \/ StoreRtc \/ StoreTime \/ StoreSave \/ Clear \/ LoadTime \/ Prepare
  \/ MenuLed \/ HostCommand
  \/ \E g \in Games, t \in Times \cup {globalTimestamp} : SelectGame(g, t)
  \/ LoadRom \/ LoadRomFails \/ RestoreRtc \/ RestoreSave
  \/ \E b \in Banks, d \in Data : GameWrites(b, d) \/ GameWritesUpperHalf(b, d)
  \/ ClockTick \/ TimeTick \/ GameSetsClock
  \/ StoreRunningSave \/ StoreRunningRtc \/ StoreRunningTime
  \/ ResetButton \/ PowerCut

Spec == Init /\ [][Next]_vars

----------------------------------------------------------------------------
\* Properties.

Saves(g) == {SaveOf(g, content) : content \in [Banks -> Contents]} \cup {Nothing}
AnySave == UNION {Saves(g) : g \in Games}
Clock == [clock : Clocks, time : Times \cup {Unknown}]

\* Every file and every word of memory holds what its code may put there; in
\* particular no save game is longer or shorter than the RAM of its game, and
\* main() never follows an uninitialised g_loadedRomInfo (pc = "fault").
TypeOK ==
  /\ save \in [Games -> AnySave] /\ lastRam \in [Games -> AnySave]
  /\ \A g \in Games : save[g] \in Saves(g) /\ lastRam[g] \in Saves(g)
  /\ rtcFile \in [Games -> Clock \cup {Nothing}]
  /\ lastClock \in [Games -> Clock \cup {Nothing}]
  /\ failed \subseteq {"saves", "rtc"} \X Games
  /\ unmarked \subseteq Banks
  /\ strayTime \in BOOLEAN
  /\ timeFile \in Times \cup {Unknown, Nothing}
  /\ noInitTest \in BOOLEAN
  /\ lastRunningGame \in Games \cup {NoGame}
  /\ loadedRomInfo \in Games \cup {Nothing}
  /\ ram \in [Banks -> Contents]
  /\ rtcReal \in Clocks
  /\ {rtcTimestamp, globalTimestamp} \subseteq Times \cup {Unknown}
  /\ ramDirty \in BOOLEAN
  /\ led \in {"off", "red", "green", "blue"}
  /\ pc \in {"boot", "storeRtc", "storeTime", "storeSave", "clear", "loadTime",
             "prepare", "menu", "load", "restoreRtc", "restoreSave", "game",
             "hookRtc", "hookTime", "hang"}

\* Readme.md, "How do savegames work?": a reset finds the unsaved data and
\* writes it to the flash.  From then on until the next game runs, the file of
\* every game holds the RAM that game had last, however often the button was
\* pressed while main() was writing.  What a power cut caught is lost, and a
\* game whose file could not be read or written is left out until its next
\* access succeeds.
SavesKept ==
  pc \in {"clear", "loadTime", "prepare", "menu", "load", "restoreRtc", "restoreSave"}
    => \A g \in Games : <<"saves", g>> \notin failed => save[g] = lastRam[g]

\* The same for the clocks: rtc/<game> holds the registers and the time stamp
\* each game had last, so GbRtc_advanceToNewTimestamp starts from the right ones.
ClocksKept ==
  pc \in {"storeTime", "clear", "loadTime", "prepare", "menu", "load", "restoreRtc"}
    => \A g \in Games : <<"rtc", g>> \notin failed => rtcFile[g] = lastClock[g]

\* The banks in which the file of a game and its RAM differ.
Unsaved(g) ==
  {b \in 0..RamBanks[g] - 1 : /\ save[g] # lastRam[g]
                              /\ save[g] = Nothing \/ save[g][b] # lastRam[g][b]}

\* Readme.md: "The LED will light green to confirm this has happened."  While
\* main() or a game shows green, the RAM of every game is in its file.  There
\* are two exceptions, and no third: a file that could not be written
\* (storeSaveRamToFile shows green all the same), and the upper half of a bank
\* that an MBC5 game has written since.
GreenMeansSaved ==
  led = "green" /\ pc \in {"clear", "prepare", "game", "hookRtc", "hookTime"}
    => \A g \in Games : <<"saves", g>> \notin failed => Unsaved(g) \subseteq unmarked

\* Readme.md: a red LED means that the game has written something.  While a
\* game's RAM differs from its save game, the LED is red, with the same two
\* exceptions.
UnsavedShowsRed ==
  /\ pc = "game" /\ save[loadedRomInfo] # Nothing
  /\ <<"saves", loadedRomInfo>> \notin failed
  /\ ~(Unsaved(loadedRomInfo) \subseteq unmarked)
  => led = "red"

\* The noise that g_rtcTimestamp holds after power-on comes to the boot menu as
\* the time in one way only: by a reset of a game that has no clock (main.c
\* gives it to g_globalTimestamp whatever game ran), from where the time stamp
\* of a later game and the file "timestamp" carry it on.
TimeIsKnown == pc \in {"prepare", "menu"} /\ globalTimestamp = Unknown => strayTime

=============================================================================
