----------------------------- MODULE RomStorage -----------------------------
(***************************************************************************)
(* The ROM store of the cartridge (RomStorage.c), driven over USB by a     *)
(* host (webusb.c) until the Game Boy makes its first bus access, and then *)
(* read once, to start a game (main.c).  ROM data lives in 16 KiB banks of *)
(* raw flash; a file below /roms in littlefs names the banks of one ROM.   *)
(* Which banks are free is known only in RAM: RomStorage_init rebuilds it  *)
(* from the files.                                                         *)
(*                                                                         *)
(* One action is one command, except that the device may lose power        *)
(* between two writes to flash: the end of an upload and a deletion are    *)
(* split at the points where the file system commits (pc says where).      *)
(***************************************************************************)
EXTENDS Integers, FiniteSets, FiniteSetsExt

CONSTANTS
  Names,            \* ROM file names; littlefs lists a directory in name order
  Images,           \* ROM images the host may upload
  NoImage,          \* what a name without a whole image holds
  Blank,            \* erased flash
  Garbage,          \* bytes no host sent: two chunks programmed over each other
  NoFile,           \* the name is not in the directory
  EmptyFile,        \* created and never closed: an entry of length zero
  MaxBanks,         \* MAX_BANKS: banks in the flash region
  MaxBanksPerRom,   \* MAX_BANKS_PER_ROM: length of the array banks[]
  MaxRoms,          \* MAX_ALLOWED_ROMS
  ChunksPerBank,    \* CHUNKS_PER_BANK
  RomSizes,         \* the values of num_banks the host sends
  HostRestarts,     \* may the host start an upload while one is active?
  HostInterleaves,  \* may it send other commands while one is active?
  FsErrors          \* may littlefs fail to write or remove a file, or to read
                    \* the file of the game that is started?

ASSUME NamesAssumption == Names \subseteq Nat /\ IsFiniteSet(Names)
ASSUME SizesAssumption ==
  /\ MaxBanks \in Nat \ {0}
  /\ MaxBanksPerRom \in Nat \ {0}
  /\ MaxRoms \in Nat
  /\ ChunksPerBank \in Nat \ {0}
  /\ RomSizes \subseteq 0..MaxBanksPerRom
ASSUME HostAssumption == {HostRestarts, HostInterleaves, FsErrors} \subseteq BOOLEAN

VARIABLES
  \* kept in flash
  flash,             \* content of every bank
  files,             \* the directory /roms
  saves,             \* names that have a file below /saves
  \* kept in RAM, lost on a reset
  usedBanksFlags,    \* _usedBanksFlags, as the set of banks whose bit is set
  usedBanks,         \* _usedBanks
  numRoms,           \* g_numRoms
  romInfo,           \* _romInfoFile: one buffer for every reader and writer
  lastBank,          \* _lastTransferredBank
  lastChunk,         \* _lastTransferredChunk
  bankBuffer,        \* _bankBuffer
  romTransferActive, \* _romTransferActive
  fileName,          \* _fileNameBuffer
  loaded,            \* g_loadedRomBanks, and how many of them LoadRom filled
  served,            \* does the loop of runGbBootloader still call usb_run?
  pc,                \* where the firmware is, see Pcs
  \* kept in RAM that is not initialised: they outlive the reset button
  loadedName,        \* g_loadedRomInfo.name
  lastRunningGame,   \* _lastRunningGame
  \* the host
  upload,            \* the image whose chunks the host is sending
  \* what happened, kept by no code
  unread,            \* lastRunningGame names a game whose name g_loadedRomInfo
                     \* has not got yet
  strays             \* save games that a failed removal left behind, or that a
                     \* start stored for such a game

flashVars == <<flash, files, saves>>
indexVars == <<usedBanksFlags, usedBanks, numRoms, romInfo>>
transferVars == <<lastBank, lastChunk, bankBuffer, romTransferActive, upload>>
noInitVars == <<loadedName, lastRunningGame>>
gameVars == <<noInitVars, loaded, served, unread, strays>>
vars == <<flashVars, indexVars, transferVars, fileName, gameVars, pc>>

Banks == 0..MaxBanks - 1
Unset == -1    \* the 0xFFFF of _lastTransferredBank and _lastTransferredChunk
NoName == -1   \* a name buffer holds no name yet, or noise after a power cut
NoGame == -1   \* the 0xFF of _lastRunningGame: no ROM has that number
Chunks == 0..ChunksPerBank - 1

(***************************************************************************)
(* pc: "boot" before main looks at _lastRunningGame; "idle" in the loop of *)
(* runGbBootloader, between two commands; "create" and "write" inside the  *)
(* last chunk of an upload, before the file is created and before it is    *)
(* written; "remove" inside a deletion, before the ROM's own file goes;    *)
(* "load" once a game is chosen; "game" once it runs; "hang" in the        *)
(* endless loop at the end of main; "overrun" when the bank search has run *)
(* past the bit map; "undefined" when a file object that littlefs still    *)
(* refers to has gone out of scope or was never opened, or when a name     *)
(* that is noise has been used.                                            *)
(***************************************************************************)
Pcs == {"boot", "idle", "create", "write", "remove", "load", "game", "hang",
        "overrun", "undefined"}

\* What one chunk of an upload carries: the place of the data in its image.
Data == Images \X (0..MaxBanksPerRom - 1)
BankContents == [Chunks -> Data \cup {Blank, Garbage}]
\* Bank i of an image, when every chunk is where it belongs.
ImageBank(img, i) == [c \in Chunks |-> <<img, i>>]
ErasedBank == [c \in Chunks |-> Blank]

RomInfos == [numBanks : 0..MaxBanksPerRom,
             banks : [0..MaxBanksPerRom - 1 -> Banks]]
\* A ROM file: the header and the bank list.  "image" is a history variable,
\* the image the host announced for the name; the code keeps no such field.
Files == [numBanks : 0..MaxBanksPerRom,
          banks : [0..MaxBanksPerRom - 1 -> Banks],
          image : Images]
\* _romInfoFile is zero-initialised after a reset.
ZeroInfo == [numBanks |-> 0, banks |-> [i \in 0..MaxBanksPerRom - 1 |-> 0]]

ASSUME ValuesAssumption ==
  /\ NoImage \notin Images
  /\ Blank # Garbage /\ Blank \notin Data /\ Garbage \notin Data
  /\ NoFile # EmptyFile /\ NoFile \notin Files /\ EmptyFile \notin Files

ZeroBuffer == [c \in Chunks |-> Garbage]

\* Mutant: the loop over the banks of a file starts at one.
BanksOf_SkipsFirst(info) == {info.banks[i] : i \in 1..info.numBanks - 1}

\* The banks a header names; what lies behind numBanks in the array is stale.
BanksOf(info) == {info.banks[i] : i \in 0..info.numBanks - 1}

Present(fs) == {n \in Names : fs[n] # NoFile}
Written(fs) == Present(fs) \ {n \in Names : fs[n] = EmptyFile}

----------------------------------------------------------------------------
\* The index: RomStorage_init and loadRomInfo.

(***************************************************************************)
(* _romInfoFile after readRomInfoFile has read the entries S of the        *)
(* directory in their order.  A file overwrites the header and as many     *)
(* elements of banks[] as it has; an empty file reads zero bytes, which    *)
(* readRomInfoFile returns as LFS_ERR_OK, and leaves the buffer as it was. *)
(***************************************************************************)
ReadFiles(fs, info, S) ==
  LET read == S \cap Written(fs)
      holding(i) == {m \in read : i < fs[m].numBanks}
  IN IF read = {} THEN info
     ELSE [numBanks |-> fs[Max(read)].numBanks,
           banks |-> [i \in 0..MaxBanksPerRom - 1 |->
                       IF holding(i) = {} THEN info.banks[i]
                       ELSE fs[Max(holding(i))].banks[i]]]

\* Mutant: the banks are counted before the file is read.
HeaderAt_BeforeRead(fs, info, n) == ReadFiles(fs, info, {m \in Names : m < n})

\* The header RomStorage_init has in its buffer when it counts the entry n.
HeaderAt(fs, info, n) == ReadFiles(fs, info, {m \in Names : m <= n})

\* The banks RomStorage_init marks as used, and how many it counts.
UsedFlags(fs, info) == UNION {BanksOf(HeaderAt(fs, info, n)) : n \in Present(fs)}
UsedCount(fs, info) ==
  Cardinality({e \in Present(fs) \X (0..MaxBanksPerRom - 1) :
                 e[2] < HeaderAt(fs, info, e[1]).numBanks})

\* Mutant: the bit map is not cleared first.
RomStorage_init_KeepsFlags(fs, info) ==
  /\ usedBanksFlags' = usedBanksFlags \cup UsedFlags(fs, info)
  /\ usedBanks' = UsedCount(fs, info)
  /\ numRoms' = Cardinality(Present(fs))
  /\ romInfo' = ReadFiles(fs, info, Names)

\* RomStorage_init: the RAM index is rebuilt from the directory fs.
RomStorage_init(fs, info) ==
  /\ usedBanksFlags' = UsedFlags(fs, info)
  /\ usedBanks' = UsedCount(fs, info)
  /\ numRoms' = Cardinality(Present(fs))
  /\ romInfo' = ReadFiles(fs, info, Names)

\* The entry a command means by the number rom: the rom-th of the directory.
IsNth(n, rom) ==
  /\ n \in Present(files)
  /\ Cardinality({m \in Present(files) : m < n}) = rom

\* loadRomInfo reads that one file through the shared buffer.
LoadRomInfo(n) == romInfo' = ReadFiles(files, romInfo, {n})

----------------------------------------------------------------------------
Init ==
  /\ flash = [b \in Banks |-> ErasedBank]
  /\ files = [n \in Names |-> NoFile]
  /\ saves = {}
  /\ usedBanksFlags = {}
  /\ usedBanks = 0
  /\ numRoms = 0
  /\ romInfo = ZeroInfo
  /\ lastBank = Unset
  /\ lastChunk = Unset
  /\ bankBuffer = ZeroBuffer
  /\ romTransferActive = FALSE
  /\ fileName = NoName
  /\ loaded = ZeroInfo
  /\ served = TRUE
  /\ pc = "boot"
  /\ loadedName = NoName
  /\ lastRunningGame = NoGame
  /\ upload = NoImage
  /\ unread = FALSE
  /\ strays = {}

----------------------------------------------------------------------------
\* Uploading a ROM: command 2, then command 3 once per chunk.

\* A command other than the next chunk reaches the device.
HostCommand(allowed) == pc = "idle" /\ served /\ (romTransferActive => allowed)

\* Mutant: banks are numbered from one.
FreeBanks_FromOne == 1..MaxBanks \ usedBanksFlags

\* The banks whose flag is clear: those the search may hand out.
FreeBanks == Banks \ usedBanksFlags

(***************************************************************************)
(* What the search loop puts into banks[0..n-1]: free banks, lowest first, *)
(* none skipped.                                                           *)
(***************************************************************************)
IsFirstFit(alloc, n) ==
  /\ \A i, j \in 0..n - 1 : i < j => alloc[i] < alloc[j]
  /\ \A i \in 0..n - 1 : \A b \in FreeBanks :
       b < alloc[i] => \E j \in 0..n - 1 : alloc[j] = b

\* The guards StartNewRomTransfer tests before it looks at the name.
RoomFor(num_banks) == numRoms + 1 <= MaxRoms /\ num_banks + usedBanks <= MaxBanks

\* Mutant: the new banks are not erased.
EraseBanks_Skipped(bs) == UNCHANGED flash

\* flash_range_erase of every bank that was handed out.
EraseBanks(bs) == flash' = [b \in Banks |-> IF b \in bs THEN ErasedBank ELSE flash[b]]

StartNewRomTransfer(num_banks, name, img) ==
  /\ HostCommand(HostRestarts)
  /\ RoomFor(num_banks)
  /\ files[name] = NoFile
  /\ \E alloc \in [0..num_banks - 1 -> FreeBanks] :
       /\ IsFirstFit(alloc, num_banks)
       /\ romInfo' = [numBanks |-> num_banks,
                      banks |-> [i \in 0..MaxBanksPerRom - 1 |->
                        IF i < num_banks THEN alloc[i] ELSE romInfo.banks[i]]]
       /\ usedBanksFlags' = usedBanksFlags \cup {alloc[i] : i \in 0..num_banks - 1}
       /\ EraseBanks({alloc[i] : i \in 0..num_banks - 1})
  /\ fileName' = name
  /\ romTransferActive' = TRUE
  /\ lastBank' = Unset
  /\ lastChunk' = Unset
  /\ upload' = img
  /\ UNCHANGED <<files, saves, usedBanks, numRoms, bankBuffer, gameVars, pc>>

\* The name exists: the command fails, but has already replaced the file name.
StartExistingName(num_banks, name) ==
  /\ HostCommand(HostRestarts)
  /\ RoomFor(num_banks)
  /\ files[name] # NoFile
  /\ fileName' = name
  /\ UNCHANGED <<flashVars, indexVars, transferVars, gameVars, pc>>

(***************************************************************************)
(* Fewer flags are clear than _usedBanks promised, and the search passes   *)
(* MAX_BANKS: assert(current_search_bank < MAX_BANKS) fails.  A build with *)
(* asserts stops there.  A build without goes on with banks behind the     *)
(* store, which is where the file system begins, and erases them.  Until   *)
(* the reset nothing more is modelled.                                     *)
(***************************************************************************)
StartOverrun(num_banks, name) ==
  /\ HostCommand(HostRestarts)
  /\ RoomFor(num_banks)
  /\ files[name] = NoFile
  /\ Cardinality(FreeBanks) < num_banks
  /\ pc' = "overrun"
  /\ UNCHANGED <<flashVars, indexVars, transferVars, fileName, gameVars>>

\* Mutant: "new bank only allowed if old is finished" is not tested.
InOrder_AnyBank(bank, chunk) ==
  /\ \/ lastBank = Unset /\ bank = 0
     \/ lastBank # Unset /\ lastChunk = Unset /\ bank = lastBank + 1
     \/ lastBank # Unset /\ lastChunk # Unset
  /\ \/ lastChunk = Unset /\ chunk = 0
     \/ lastChunk # Unset /\ chunk = lastChunk + 1

\* Chunks are accepted in one order only: bank by bank, chunk by chunk.
InOrder(bank, chunk) ==
  /\ \/ lastBank = Unset /\ bank = 0
     \/ lastBank # Unset /\ lastChunk = Unset /\ bank = lastBank + 1
     \/ lastBank # Unset /\ lastChunk # Unset /\ bank = lastBank
  /\ \/ lastChunk = Unset /\ chunk = 0
     \/ lastChunk # Unset /\ chunk = lastChunk + 1

\* Programming flash only clears bits: data survives on erased flash only.
Programmed(old, new) ==
  [c \in Chunks |-> IF old[c] \in {Blank, new[c]} THEN new[c] ELSE Garbage]

TransferRomChunk(bank, chunk, data) ==
  /\ pc = "idle"
  /\ served
  /\ romTransferActive
  /\ InOrder(bank, chunk)
  /\ bankBuffer' = [bankBuffer EXCEPT ![chunk] = data]
  /\ lastBank' = bank
  /\ \/ /\ chunk # ChunksPerBank - 1
        /\ lastChunk' = chunk
        /\ UNCHANGED <<flash, pc>>
     \/ /\ chunk = ChunksPerBank - 1
        /\ lastChunk' = Unset
        /\ LET b == romInfo.banks[bank]
           IN flash' = [flash EXCEPT ![b] = Programmed(@, bankBuffer')]
        /\ pc' = IF bank = romInfo.numBanks - 1 THEN "create" ELSE "idle"
  /\ UNCHANGED <<files, saves, indexVars, romTransferActive, fileName, gameVars, upload>>

\* The last bank is in flash: lfs_file_opencfg commits an entry of length zero.
CreateRomFile ==
  /\ pc = "create"
  /\ files[fileName] = NoFile
  /\ files' = [files EXCEPT ![fileName] = EmptyFile]
  /\ pc' = "write"
  /\ UNCHANGED <<flash, saves, indexVars, transferVars, fileName, gameVars>>

\* LFS_O_EXCL finds the name taken, or there is no room for the entry.  The
\* error is not looked at, and the file that is written next was never opened.
CreateRomFileFails ==
  /\ pc = "create"
  /\ FsErrors \/ files[fileName] # NoFile
  /\ pc' = "undefined"
  /\ UNCHANGED <<flashVars, indexVars, transferVars, fileName, gameVars>>

\* Mutant: the transfer stays active.
WriteRomFile_StaysActive ==
  /\ pc = "write"
  /\ files' = [files EXCEPT ![fileName] = [numBanks |-> romInfo.numBanks,
                                          banks |-> romInfo.banks,
                                          image |-> upload]]
  /\ RomStorage_init(files', romInfo)
  /\ pc' = "idle"
  /\ UNCHANGED <<flash, saves, transferVars, fileName, gameVars>>

\* Header and bank list are committed by lfs_file_close; then the index is
\* rebuilt and the transfer is over.
WriteRomFile ==
  /\ pc = "write"
  /\ files' = [files EXCEPT ![fileName] = [numBanks |-> romInfo.numBanks,
                                          banks |-> romInfo.banks,
                                          image |-> upload]]
  /\ RomStorage_init(files', romInfo)
  /\ romTransferActive' = FALSE
  /\ pc' = "idle"
  /\ UNCHANGED <<flash, saves, lastBank, lastChunk, bankBuffer, upload, fileName, gameVars>>

\* A write or the close fails: the command returns and leaves the file open,
\* an object on a stack frame that is gone, and its entry empty.
WriteRomFileFails ==
  /\ pc = "write"
  /\ FsErrors
  /\ pc' = "undefined"
  /\ UNCHANGED <<flashVars, indexVars, transferVars, fileName, gameVars>>

----------------------------------------------------------------------------
\* The other commands that touch the store.

\* Command 4, and the RTC commands 10 and 11: they read one ROM's file.
RequestRomInfo(rom) ==
  /\ HostCommand(HostInterleaves)
  /\ rom < numRoms
  /\ \E n \in Names : IsNth(n, rom) /\ LoadRomInfo(n)
  /\ UNCHANGED <<flashVars, usedBanksFlags, usedBanks, numRoms, transferVars,
                 fileName, gameVars, pc>>

\* Mutant: only the ROM's own file is removed.
DeleteRom_KeepsSave(rom) ==
  /\ HostCommand(HostInterleaves)
  /\ rom < numRoms
  /\ \E n \in Names : IsNth(n, rom) /\ LoadRomInfo(n) /\ fileName' = n
  /\ pc' = "remove"
  /\ UNCHANGED <<flash, files, saves, usedBanksFlags, usedBanks, numRoms,
                 transferVars, gameVars>>

(***************************************************************************)
(* Command 5, up to the removal of the save game.  An error there, be it   *)
(* that there is none, is printed, and the deletion goes on.               *)
(***************************************************************************)
DeleteRom(rom) ==
  /\ HostCommand(HostInterleaves)
  /\ rom < numRoms
  /\ \E n \in Names :
       /\ IsNth(n, rom)
       /\ LoadRomInfo(n)
       /\ fileName' = n
       /\ \/ /\ saves' = saves \ {n}
             /\ strays' = strays \ {n}
          \/ /\ FsErrors
             /\ strays' = strays \cup ({n} \cap saves)
             /\ UNCHANGED saves
  /\ pc' = "remove"
  /\ UNCHANGED <<flash, files, usedBanksFlags, usedBanks, numRoms, transferVars,
                 noInitVars, loaded, served, unread>>

\* The ROM's own file goes, or an error leaves it; the index is rebuilt.
RemoveRomFile ==
  /\ pc = "remove"
  /\ \/ files' = [files EXCEPT ![fileName] = NoFile]
     \/ FsErrors /\ UNCHANGED files
  /\ RomStorage_init(files', romInfo)
  /\ pc' = "idle"
  /\ UNCHANGED <<flash, saves, transferVars, fileName, gameVars>>

(***************************************************************************)
(* Commands 6 and 8, RomStorage_StartRamDownload and _StartRamUpload, read *)
(* the ROM's file into g_loadedRomInfo.  The second creates the save game, *)
(* unless the ROM has no RAM or the file cannot be opened.                 *)
(***************************************************************************)
StartRamTransfer(rom) ==
  /\ HostCommand(FALSE)
  /\ rom < numRoms
  /\ \E n \in Names :
       /\ IsNth(n, rom)
       /\ LoadRomInfo(n)
       /\ loadedName' = n
       /\ saves' \in {saves, saves \cup {n}}
  /\ UNCHANGED <<flash, files, usedBanksFlags, usedBanks, numRoms, transferVars,
                 fileName, lastRunningGame, loaded, served, unread, strays, pc>>

----------------------------------------------------------------------------
\* Starting a game (main.c): from the first bus access to the next reset.

\* cartridgeIsInGameboy: from here on the loop never calls usb_run again.
GameBoyAppears ==
  /\ pc = "idle"
  /\ served
  /\ served' = FALSE
  /\ UNCHANGED <<flashVars, indexVars, transferVars, fileName, noInitVars, loaded,
                 unread, strays, pc>>

(***************************************************************************)
(* The boot menu names a game by its number in the list that was made at   *)
(* the start: after a deletion it may be another ROM's or no ROM's number. *)
(* usb_shutdown, and _lastRunningGame = game.                              *)
(***************************************************************************)
ChooseGame(rom) ==
  /\ pc = "idle"
  /\ ~served
  /\ lastRunningGame' = rom
  /\ unread' = TRUE
  /\ pc' = "load"
  /\ UNCHANGED <<flashVars, indexVars, transferVars, fileName, loadedName, loaded,
                 served, strays>>

\* _lastRunningGame < g_numRoms
IsMarked == lastRunningGame # NoGame /\ lastRunningGame < numRoms

\* Mutant: the bank table is filled before the file is read.
LoadRom_StaleBanks ==
  /\ pc = "load"
  /\ IsMarked
  /\ ~romTransferActive
  /\ \E n \in Names :
       /\ \/ IsNth(n, lastRunningGame) /\ unread' = FALSE
          \/ FsErrors /\ n = loadedName /\ n \in Present(files) /\ UNCHANGED unread
       /\ LoadRomInfo(n)
       /\ fileName' = n
       /\ loadedName' = n
       /\ loaded' = romInfo
  /\ pc' = "game"
  /\ UNCHANGED <<flashVars, usedBanksFlags, usedBanks, numRoms, transferVars,
                 lastRunningGame, served, strays>>

(***************************************************************************)
(* RomStorage_LoadRom.  The result of RomStorage_loadRomInfo is ignored:   *)
(* when it fails, the name is still the one that was there before, and if  *)
(* that has a file its ROM is loaded.                                      *)
(***************************************************************************)
LoadRom ==
  /\ pc = "load"
  /\ IsMarked
  /\ ~romTransferActive
  /\ \E n \in Names :
       /\ \/ IsNth(n, lastRunningGame) /\ unread' = FALSE
          \/ FsErrors /\ n = loadedName /\ n \in Present(files) /\ UNCHANGED unread
       /\ LoadRomInfo(n)
       /\ fileName' = n
       /\ loadedName' = n
       /\ loaded' = romInfo'
  /\ pc' = "game"
  /\ UNCHANGED <<flashVars, usedBanksFlags, usedBanks, numRoms, transferVars,
                 lastRunningGame, served, strays>>

(***************************************************************************)
(* RomStorage_LoadRom returns -1 for a number without a ROM, -2 in the     *)
(* middle of an upload, and -3 or -4 when a file cannot be read, before or *)
(* after it has replaced g_loadedRomInfo.  main prints "Error reading ROM" *)
(* and stays in its endless loop, with USB shut down.                      *)
(***************************************************************************)
LoadRomFails ==
  /\ pc = "load"
  /\ \/ /\ ~IsMarked \/ romTransferActive \/ FsErrors
        /\ UNCHANGED <<fileName, loadedName, unread>>
     \/ /\ IsMarked /\ ~romTransferActive /\ FsErrors
        /\ \E n \in Names : IsNth(n, lastRunningGame) /\ fileName' = n /\ loadedName' = n
        /\ unread' = FALSE
  /\ pc' = "hang"
  /\ UNCHANGED <<flashVars, indexVars, transferVars, lastRunningGame, loaded, served,
                 strays>>

\* The game triggers a store: storeSaveRamToFile(&g_loadedRomInfo).
GameStoresSave ==
  /\ pc = "game"
  /\ saves' = saves \cup {loadedName}
  /\ UNCHANGED <<flash, files, indexVars, transferVars, fileName, gameVars, pc>>

(***************************************************************************)
(* main, after a reset: whatever _lastRunningGame marks, the RAM is stored *)
(* under g_loadedRomInfo.name.  Nothing is stored if that game has no RAM, *)
(* or if its file cannot be created.                                       *)
(***************************************************************************)
StoreLastGame ==
  /\ pc = "boot"
  /\ IsMarked
  /\ lastRunningGame' = NoGame
  /\ unread' = FALSE
  /\ \/ /\ loadedName = NoName
        /\ pc' = "undefined"
        /\ UNCHANGED <<saves, strays>>
     \/ /\ loadedName # NoName
        /\ saves' \in {saves, saves \cup {loadedName}}
        /\ strays' = IF unread THEN strays \cup (saves' \ saves) ELSE strays
        /\ pc' = "idle"
  /\ UNCHANGED <<flash, files, indexVars, transferVars, fileName, loadedName, loaded,
                 served>>

\* A number that no ROM has is left where it is.
NothingToStore ==
  /\ pc = "boot"
  /\ ~IsMarked
  /\ pc' = "idle"
  /\ UNCHANGED <<flashVars, indexVars, transferVars, fileName, gameVars>>

(***************************************************************************)
(* Reset button or power cut, in any state: RAM starts over and main runs  *)
(* RomStorage_init.  Only a power cut touches the RAM that is not          *)
(* initialised; main then sets _lastRunningGame.  After an overrun the     *)
(* file system may be gone, and is then formatted.                         *)
(***************************************************************************)
Reset ==
  /\ \/ UNCHANGED <<files, saves, strays>>
     \/ /\ pc = "overrun"
        /\ files' = [n \in Names |-> NoFile]
        /\ saves' = {}
        /\ strays' = {}
  /\ \/ UNCHANGED <<noInitVars, unread>>
     \/ /\ loadedName' = NoName
        /\ lastRunningGame' = NoGame
        /\ unread' = FALSE
  /\ RomStorage_init(files', ZeroInfo)
  /\ lastBank' = Unset
  /\ lastChunk' = Unset
  /\ bankBuffer' = ZeroBuffer
  /\ romTransferActive' = FALSE
  /\ fileName' = NoName
  /\ loaded' = ZeroInfo
  /\ served' = TRUE
  /\ pc' = "boot"
  /\ upload' = NoImage
  /\ UNCHANGED flash

----------------------------------------------------------------------------
\* The host sends chunks of the image it announced, in any order and as often
\* as it likes; bank numbers stay inside banks[] (bound).
SendChunk ==
  \E bank \in 0..MaxBanksPerRom - 1, chunk \in Chunks :
    TransferRomChunk(bank, chunk, <<upload, bank>>)

StartCommand ==
  \E num_banks \in RomSizes, name \in Names :
    \/ \E img \in Images : StartNewRomTransfer(num_banks, name, img)
    \/ StartExistingName(num_banks, name)
    \/ StartOverrun(num_banks, name)

StepOfUpload == CreateRomFile \/ CreateRomFileFails \/ WriteRomFile \/ WriteRomFileFails

RomCommand ==
  \E rom \in 0..MaxRoms - 1 :
    RequestRomInfo(rom) \/ DeleteRom(rom) \/ StartRamTransfer(rom)

StepOfGame ==
  \/ GameBoyAppears
  \/ \E rom \in 0..MaxRoms - 1 : ChooseGame(rom)
  \/ LoadRom
  \/ LoadRomFails
  \/ GameStoresSave

StepOfStart == StoreLastGame \/ NothingToStore

Next ==
  \/ StartCommand \/ SendChunk \/ StepOfUpload
  \/ RomCommand \/ RemoveRomFile
  \/ StepOfGame \/ StepOfStart \/ Reset

Spec == Init /\ [][Next]_vars

\* A device with power finishes the command it is in, and as long as USB is
\* served the host goes on sending the chunks of an upload it has begun.
Fairness ==
  /\ WF_vars(SendChunk)
  /\ WF_vars(StepOfUpload)
  /\ WF_vars(RemoveRomFile)

LiveSpec == Spec /\ Fairness

----------------------------------------------------------------------------
\* What must be true of the store.

\* Every variable keeps its type; the RAM index names banks of the store only.
TypeOK ==
  /\ flash \in [Banks -> BankContents]
  /\ files \in [Names -> Files \cup {NoFile, EmptyFile}]
  /\ saves \subseteq Names
  /\ usedBanksFlags \subseteq Banks
  /\ usedBanks \in Nat
  /\ numRoms \in Nat
  /\ romInfo \in RomInfos
  /\ lastBank \in {Unset} \cup 0..MaxBanksPerRom - 1
  /\ lastChunk \in {Unset} \cup Chunks
  /\ bankBuffer \in BankContents
  /\ romTransferActive \in BOOLEAN
  /\ fileName \in {NoName} \cup Names
  /\ loaded \in RomInfos
  /\ served \in BOOLEAN
  /\ pc \in Pcs
  /\ loadedName \in {NoName} \cup Names
  /\ lastRunningGame \in {NoGame} \cup 0..MaxRoms - 1
  /\ upload \in Images \cup {NoImage}
  /\ unread \in BOOLEAN
  /\ strays \subseteq Names

\* The banks of the flash hold the whole image a file was uploaded for.
Intact(n) == \A i \in 0..files[n].numBanks - 1 :
               flash[files[n].banks[i]] = ImageBank(files[n].image, i)

(***************************************************************************)
(* A ROM in the directory is the ROM that was uploaded: each of its banks  *)
(* holds the right part of the image, whatever was uploaded, broken off or *)
(* deleted since, and wherever the power went off.                         *)
(***************************************************************************)
StoredRomsIntact == \A n \in Written(files) : Intact(n)

(***************************************************************************)
(* No flash bank belongs to two ROMs, or twice to one: otherwise deleting  *)
(* and replacing one ROM would erase part of another.                      *)
(***************************************************************************)
BanksNotShared ==
  \A m, n \in Written(files) :
    \A i \in 0..files[m].numBanks - 1, j \in 0..files[n].numBanks - 1 :
      files[m].banks[i] = files[n].banks[j] => m = n /\ i = j

(***************************************************************************)
(* The bit map in RAM, rebuilt at every start, marks every bank a file     *)
(* names and every bank of the upload in progress: it is what stands       *)
(* between the next upload and the ROMs already stored.                    *)
(***************************************************************************)
BitmapCoversUse ==
  /\ \A n \in Written(files) : BanksOf(files[n]) \subseteq usedBanksFlags
  /\ romTransferActive => BanksOf(romInfo) \subseteq usedBanksFlags

(***************************************************************************)
(* assert(current_search_bank < MAX_BANKS): an upload admitted by the      *)
(* count of used banks finds that many clear flags.                        *)
(***************************************************************************)
AllocationSucceeds == pc # "overrun"

(***************************************************************************)
(* A save game outlives its ROM in no state, not even when power fails in  *)
(* the middle of a deletion or a start stores for the last game under a    *)
(* name read before the reset: a ROM uploaded later under the same name    *)
(* would start with it.  There are two exceptions.  The removal of the     *)
(* save may fail, and RomStorage_DeleteRom goes on; and a start stores     *)
(* under an old name if the game it marks was chosen and never read.       *)
(***************************************************************************)
NoOrphanSave == \A n \in saves \ strays : files[n] # NoFile

(***************************************************************************)
(* The game that runs, and whose name its save is stored under, was loaded *)
(* from banks that hold its image, unless the entry is an empty one that a *)
(* power cut left behind.                                                  *)
(***************************************************************************)
RunningGameIsWhole ==
  pc = "game" /\ files[loadedName] # EmptyFile =>
    /\ loaded.numBanks = files[loadedName].numBanks
    /\ \A i \in 0..loaded.numBanks - 1 :
         flash[loaded.banks[i]] = ImageBank(files[loadedName].image, i)

(***************************************************************************)
(* What a reader of the store finds under a name: the image whose parts    *)
(* the named banks hold.  A mixture is reported as Garbage, which is no    *)
(* value of the abstract library, so it can never be refined away.         *)
(***************************************************************************)
Holding(n) ==
  IF n \notin Written(files) THEN NoImage
  ELSE IF Intact(n) THEN files[n].image ELSE Garbage

Library == INSTANCE RomLibrary WITH library <- [n \in Names |-> Holding(n)]

(***************************************************************************)
(* Uploads and deletions are atomic: through resets, failed commands and   *)
(* files left empty, the store only ever gains a whole image under a free  *)
(* name or loses one whole ROM.                                            *)
(***************************************************************************)
ImplementsLibrary == Library!Spec

(***************************************************************************)
(* An upload the host keeps feeding comes to an end: its ROM is listed,    *)
(* the file system refuses it, the device is reset, or the Game Boy's      *)
(* first bus access stops USB for good; a game that is chosen then is not  *)
(* loaded, and only a reset ends the upload.                               *)
(***************************************************************************)
UploadFinishes ==
  romTransferActive ~> (~romTransferActive \/ pc = "undefined" \/ ~served)

=============================================================================
