---------------------------- MODULE SaveTransfer ----------------------------
(***************************************************************************)
(* Save games over USB: the host downloads or uploads one in chunks of 32  *)
(* bytes (webusb.c, RomStorage.c) while it may leave in the middle, delete *)
(* or upload ROMs, or find the cartridge reset or in a Game Boy, whose     *)
(* first bus access ends the service of USB.                               *)
(*                                                                         *)
(* The RP2040 handles one command at a time and the host waits for the     *)
(* answer, so a command and its answer are one step.                       *)
(***************************************************************************)
EXTENDS Naturals, Sequences, FiniteSets

CONSTANTS
  Games,        \* games that may be on the cartridge
  SaveChunks,   \* chunks of the save of each game, 0 for a game without RAM
  Chunks,       \* contents of a chunk
  Torn,         \* a chunk that another file left in _lfsFileBuffer
  Absent,       \* there is no save file
  NoGame,       \* not a game
  CacheChunks,  \* chunks in LFS_CACHE_SIZE
  FlashErrors,  \* steps that may fail in the file system
  Interleaves   \* whether the host sends other commands in a transfer

ASSUME TransferAssumption ==
  /\ SaveChunks \in [Games -> Nat]
  /\ NoGame \notin Games
  /\ Torn \notin Chunks
  /\ CacheChunks \in Nat \ {0}
  /\ FlashErrors \subseteq {"open", "write", "close", "remove"}
  /\ Interleaves \in BOOLEAN

VARIABLES
  roms,                 \* games whose ROM is stored
  saves,                \* content of the file saves/<name> of each game
  romTransferActive,    \* _romTransferActive
  ramTransferActive,    \* _ramTransferActive
  ramTransferFile,      \* _ramTransferFile, as it was opened last
  ramBytesTransferred,  \* _ramBytesTransferred, in chunks
  ramBytesToTransfer,   \* _ramBytesToTransfer, in chunks
  served,               \* does the loop of runGbBootloader still call usb_run?
  playing,              \* the game that runs
  host                  \* the transfer the host is in

fileVars == <<ramTransferFile, ramBytesTransferred, ramBytesToTransfer>>
gameVars == <<served, playing>>
vars == <<roms, saves, romTransferActive, ramTransferActive, ramTransferFile,
          ramBytesTransferred, ramBytesToTransfer, served, playing, host>>

Contents == {<<>>} \cup UNION {[1 .. n -> Chunks \cup {Torn}] :
                                n \in {SaveChunks[g] : g \in Games}}
Whole(g) == [1 .. SaveChunks[g] -> Chunks]

(***************************************************************************)
(* A file: the game it belongs to (NoGame once its entry was removed), how *)
(* it was opened, its content as the open file has it, the position, and   *)
(* whether another file has used _lfsFileBuffer since it was filled.       *)
(***************************************************************************)
NoFile == [game |-> NoGame, mode |-> "closed", content |-> <<>>, pos |-> 0,
           torn |-> FALSE]
Opened(g, mode, content) ==
  [game |-> g, mode |-> mode, content |-> content, pos |-> 0, torn |-> FALSE]

Idle == [op |-> "idle", game |-> NoGame, data |-> <<>>, sent |-> 0]
Free == host.op \in {"idle", "have", "stored"}
MaySend == Free \/ Interleaves

(* A command reaches the cartridge. *)
UsbRuns == served /\ UNCHANGED gameVars

Init ==
  /\ roms = {}
  /\ saves = [g \in Games |-> Absent]
  /\ romTransferActive = FALSE
  /\ ramTransferActive = FALSE
  /\ ramTransferFile = NoFile
  /\ ramBytesTransferred = 0
  /\ ramBytesToTransfer = 0
  /\ served = TRUE
  /\ playing = NoGame
  /\ host = Idle

-----------------------------------------------------------------------------
(* The file system, as this code uses it. *)

Fails(step) == step \in FlashErrors

(* Position in the cached part of the file. *)
InCache(pos) == pos % CacheChunks

(* Wrong: the buffer is read from its start again. *)
ReadChunk_FromStart(file) == file.content[InCache(file.pos) + 1]

(* The chunk at the position of a file opened for reading. *)
ReadChunk(file) ==
  IF file.torn /\ InCache(file.pos) # 0 THEN Torn
                                       ELSE file.content[file.pos + 1]

(* Wrong: each chunk goes to the end of the file. *)
Overwritten_Appends(content, pos, chunk) == Append(content, chunk)

(* A file written in place: its content up to the new end. *)
Overwritten(content, pos, chunk) ==
  [i \in 1 .. IF pos >= Len(content) THEN pos + 1 ELSE Len(content) |->
     IF i = pos + 1 THEN chunk ELSE content[i]]

Advanced(file) ==
  [file EXCEPT !.pos = @ + 1,
               !.torn = @ /\ InCache(file.pos + 1) # 0]

(* Every other file is opened with the same buffer. *)
Disturbed(file) ==
  IF file.mode = "write"
  THEN [file EXCEPT !.content =
          [i \in DOMAIN @ |->
             IF i \in file.pos - InCache(file.pos) + 1 .. file.pos
             THEN Torn ELSE @[i]]]
  ELSE [file EXCEPT !.torn = TRUE]

-----------------------------------------------------------------------------
(* Commands 6 and 7: download. *)

Refused(g) ==
  \/ romTransferActive
  \/ ramTransferActive
  \/ g \notin roms
  \/ SaveChunks[g] = 0

Refuse(g) ==
  /\ UsbRuns
  /\ Free
  /\ Refused(g)
  /\ host' = Idle
  /\ UNCHANGED <<roms, saves, romTransferActive, ramTransferActive, fileVars>>

(* Both starts mark the transfer before they open the file. *)
StartTransfer(g) ==
  /\ UsbRuns
  /\ Free
  /\ ~Refused(g)
  /\ ramTransferActive' = TRUE
  /\ UNCHANGED <<roms, romTransferActive>>

(* Wrong: the size of the last transfer stays. *)
OpenTransferFile_KeepsSize(g, mode, content, op, data) ==
  /\ ramTransferFile' = Opened(g, mode, content)
  /\ ramBytesTransferred' = 0
  /\ host' = [Idle EXCEPT !.op = op, !.game = g, !.data = data]
  /\ UNCHANGED ramBytesToTransfer

OpenTransferFile(g, mode, content, op, data) ==
  /\ ramTransferFile' = Opened(g, mode, content)
  /\ ramBytesTransferred' = 0
  /\ ramBytesToTransfer' = SaveChunks[g]
  /\ host' = [Idle EXCEPT !.op = op, !.game = g, !.data = data]

OpenFails ==
  /\ host' = Idle
  /\ UNCHANGED <<saves, fileVars>>

StartRamDownload(g) ==
  /\ StartTransfer(g)
  /\ \/ /\ saves[g] # Absent
        /\ OpenTransferFile(g, "read", saves[g], "download", <<>>)
        /\ UNCHANGED saves
     \/ /\ saves[g] = Absent \/ Fails("open")
        /\ OpenFails

(* Wrong: the last chunk is awaited no more. *)
IsLast_Early == ramBytesTransferred + 2 >= ramBytesToTransfer

IsLast == ramBytesTransferred + 1 >= ramBytesToTransfer

(* After the last chunk the file is closed and the next start is served. *)
CountChunk(file) ==
  /\ ramBytesTransferred' = IF IsLast THEN 0 ELSE ramBytesTransferred + 1
  /\ ramTransferFile' = IF IsLast THEN NoFile ELSE file
  /\ ramTransferActive' = (ramTransferActive /\ ~IsLast)
  /\ UNCHANGED ramBytesToTransfer

(* The host counts the chunks on its own. *)
HostCounts(done, data) ==
  host' = [host EXCEPT !.sent = @ + 1,
             !.data = data,
             !.op = IF host.sent + 1 = SaveChunks[host.game] THEN done ELSE @]

(* Wrong: the chunk command keeps the host waiting. *)
ChunkFails_NoAnswer ==
  UNCHANGED <<host, saves, ramTransferActive, fileVars>>

(* A file that ends too early fails the read; the transfer stays active. *)
ChunkFails ==
  /\ host' = Idle
  /\ UNCHANGED <<saves, ramTransferActive, fileVars>>

GetRamDownloadChunk ==
  /\ UsbRuns
  /\ host.op = "download"
  /\ \/ /\ ramTransferFile.pos < Len(ramTransferFile.content)
        /\ HostCounts("have", Append(host.data, ReadChunk(ramTransferFile)))
        /\ CountChunk(Advanced(ramTransferFile))
        /\ UNCHANGED saves
     \/ /\ ramTransferFile.pos >= Len(ramTransferFile.content)
        /\ ChunkFails
  /\ UNCHANGED <<roms, romTransferActive>>

-----------------------------------------------------------------------------
(* Commands 8 and 9: upload. *)

StartRamUpload(g) ==
  /\ StartTransfer(g)
  /\ \/ \E data \in Whole(g) :
          LET old == IF saves[g] = Absent THEN <<>> ELSE saves[g] IN
          /\ saves' = [saves EXCEPT ![g] = old]
          /\ OpenTransferFile(g, "write", old, "upload", data)
     \/ /\ Fails("open")
        /\ OpenFails

(***************************************************************************)
(* The bank and the number of the chunk are compared and only reported:    *)
(* each chunk is written at the position of the file. The content becomes  *)
(* that of the save when the file is closed, unless its entry is gone.     *)
(***************************************************************************)
TransferRamUploadChunk ==
  /\ UsbRuns
  /\ host.op = "upload"
  /\ \/ LET chunk == host.data[host.sent + 1]
            content == Overwritten(ramTransferFile.content,
                                   ramTransferFile.pos, chunk)
            file == [Advanced(ramTransferFile) EXCEPT !.content = content]
        IN /\ CountChunk(file)
           /\ HostCounts("stored", host.data)
           /\ \/ /\ IsLast /\ ramTransferFile.game # NoGame
                 /\ saves' = [saves EXCEPT ![ramTransferFile.game] = content]
              \/ /\ ~IsLast \/ ramTransferFile.game = NoGame \/ Fails("close")
                 /\ UNCHANGED saves
     \/ /\ Fails("write")
        /\ ChunkFails
  /\ UNCHANGED <<roms, romTransferActive>>

-----------------------------------------------------------------------------
(* Other commands. *)

(* Command 4, and every other command that opens a ROM's file. *)
RequestRomInfo ==
  /\ UsbRuns
  /\ MaySend
  /\ roms # {}
  /\ ramTransferFile' = Disturbed(ramTransferFile)
  /\ UNCHANGED <<roms, saves, romTransferActive, ramTransferActive,
                 ramBytesTransferred, ramBytesToTransfer, host>>

(***************************************************************************)
(* Command 5: the save goes with the ROM, then the index is read again. A  *)
(* removal that fails is only printed: the save stays without its ROM, or  *)
(* the ROM without its save.                                               *)
(***************************************************************************)
DeleteRom(g) ==
  /\ UsbRuns
  /\ MaySend
  /\ g \in roms
  /\ \/ roms' = roms \ {g}
     \/ Fails("remove") /\ UNCHANGED roms
  /\ \/ /\ saves' = [saves EXCEPT ![g] = Absent]
        /\ ramTransferFile' =
             IF ramTransferFile.game = g
             THEN [Disturbed(ramTransferFile) EXCEPT !.game = NoGame]
             ELSE Disturbed(ramTransferFile)
     \/ /\ Fails("remove")
        /\ ramTransferFile' = Disturbed(ramTransferFile)
        /\ UNCHANGED saves
  /\ host' = IF Free THEN Idle ELSE host
  /\ UNCHANGED <<romTransferActive, ramTransferActive, ramBytesTransferred,
                 ramBytesToTransfer>>

(* Commands 2 and 3, as one step at the start and one at the end. *)
StartRomUpload ==
  /\ UsbRuns
  /\ Free
  /\ romTransferActive' = TRUE
  /\ host' = [Idle EXCEPT !.op = "rom"]
  /\ UNCHANGED <<roms, saves, ramTransferActive, fileVars>>

FinishRomUpload(g) ==
  /\ UsbRuns
  /\ host.op = "rom"
  /\ roms' = roms \cup {g}
  /\ romTransferActive' = FALSE
  /\ ramTransferFile' = Disturbed(ramTransferFile)
  /\ host' = Idle
  /\ UNCHANGED <<saves, ramTransferActive, ramBytesTransferred,
                 ramBytesToTransfer>>

-----------------------------------------------------------------------------
(* The host leaves: its page is closed or loaded again. *)
HostLeaves ==
  /\ host # Idle
  /\ host' = Idle
  /\ UNCHANGED <<roms, saves, romTransferActive, ramTransferActive, fileVars, gameVars>>

(* The RP2040 restarts; only the files remain. *)
Restart ==
  /\ romTransferActive' = FALSE
  /\ ramTransferActive' = FALSE
  /\ ramTransferFile' = NoFile
  /\ ramBytesTransferred' = 0
  /\ ramBytesToTransfer' = 0
  /\ served' = TRUE
  /\ playing' = NoGame
  /\ host' = Idle

Reset ==
  /\ Restart
  /\ UNCHANGED <<roms, saves>>

(***************************************************************************)
(* The Game Boy's first bus access (cartridgeIsInGameboy): from here on    *)
(* the host has no answer, and keeps waiting for one unless it leaves.     *)
(***************************************************************************)
GameBoyAppears ==
  /\ served
  /\ served' = FALSE
  /\ UNCHANGED <<roms, saves, romTransferActive, ramTransferActive, fileVars, playing,
                 host>>

(***************************************************************************)
(* A game is chosen: usb_shutdown, and an open transfer stays where it is. *)
(* In the middle of a ROM upload no game is loaded, and the firmware stops *)
(* (RomStorage).                                                           *)
(***************************************************************************)
PlayGame(g) ==
  /\ ~served
  /\ playing = NoGame
  /\ g \in roms
  /\ ~romTransferActive
  /\ playing' = g
  /\ ramTransferFile' = Disturbed(ramTransferFile)
  /\ host' = Idle
  /\ UNCHANGED <<roms, saves, romTransferActive, ramTransferActive,
                 ramBytesTransferred, ramBytesToTransfer, served>>

(* Its RAM is stored.  That a start does so after the game is the same to  *)
(* the host as a store before the reset (SaveLifecycle has the difference). *)
StoreGame ==
  /\ playing # NoGame
  /\ SaveChunks[playing] > 0
  /\ \E data \in Whole(playing) : saves' = [saves EXCEPT ![playing] = data]
  /\ UNCHANGED <<roms, romTransferActive, ramTransferActive, fileVars, gameVars, host>>

Next ==
  \/ GetRamDownloadChunk \/ TransferRamUploadChunk
  \/ RequestRomInfo \/ StartRomUpload \/ HostLeaves \/ Reset
  \/ GameBoyAppears \/ StoreGame
  \/ \E g \in Games :
       \/ Refuse(g) \/ StartRamDownload(g) \/ StartRamUpload(g)
       \/ DeleteRom(g) \/ FinishRomUpload(g) \/ PlayGame(g)

Spec == Init /\ [][Next]_vars

(* A host in a transfer sends the next chunk, and usb_run answers it as    *)
(* long as it is called: both actions ask for served.                      *)
FairSpec ==
  Spec /\ WF_vars(GetRamDownloadChunk) /\ WF_vars(TransferRamUploadChunk)

-----------------------------------------------------------------------------
(* The values of the state; what is counted of a transfer stays within it. *)
TypeOK ==
  /\ roms \subseteq Games
  /\ \A g \in Games : saves[g] = Absent \/ saves[g] \in Contents
  /\ romTransferActive \in BOOLEAN
  /\ ramTransferActive \in BOOLEAN
  /\ ramTransferFile.game \in Games \cup {NoGame}
  /\ ramTransferFile.mode \in {"closed", "read", "write"}
  /\ ramTransferFile.pos \in Nat
  /\ ramTransferFile.torn \in BOOLEAN
  /\ ramBytesToTransfer \in {SaveChunks[g] : g \in Games} \cup {0}
  /\ ramBytesTransferred \in 0 .. ramBytesToTransfer
  /\ served \in BOOLEAN
  /\ playing \in Games \cup {NoGame}
  /\ host.sent \in Nat
  /\ host.op \in {"idle", "download", "upload", "have", "stored", "rom"}
  /\ host.game \in Games \cup {NoGame}

(***************************************************************************)
(* Whatever breaks off and whenever: a save file is empty or one complete  *)
(* save, never a part of one or a mixture of two (StartRamUpload opens it  *)
(* without truncating it).                                                 *)
(***************************************************************************)
SavesWhole ==
  \A g \in Games : saves[g] \in {Absent, <<>>} \cup Whole(g)

(***************************************************************************)
(* The host and the cartridge agree on the transfer and on how far it is,  *)
(* though the cartridge may still count for a host that has left           *)
(* (_ramTransferActive, _ramBytesTransferred).                             *)
(***************************************************************************)
InStep ==
  host.op \in {"download", "upload"} =>
    /\ ramTransferActive
    /\ ramTransferFile.game = host.game
    /\ ramTransferFile.mode = IF host.op = "upload" THEN "write" ELSE "read"
    /\ ramTransferFile.pos = ramBytesTransferred
    /\ ramBytesTransferred < ramBytesToTransfer
    /\ ramBytesToTransfer = SaveChunks[host.game]
    /\ host.sent = ramBytesTransferred

(***************************************************************************)
(* Chunk by chunk the cartridge does what the whole transfer promises: the *)
(* host has the save as it is stored, and a confirmed upload is stored.    *)
(***************************************************************************)
Service ==
  INSTANCE SaveService WITH
    Empty <- <<>>,
    Values <- UNION {Whole(g) : g \in Games},
    host <- [op |-> IF host.op = "rom" THEN "idle" ELSE host.op,
             game |-> host.game,
             data |-> IF host.op = "download" THEN <<>> ELSE host.data]

ImplementsService == Service!Spec

(***************************************************************************)
(* A host that stays gets to the end of its transfer, or an error, unless  *)
(* the Game Boy's first bus access comes first: then it has no answer.     *)
(***************************************************************************)
TransferEnds == host.op \in {"download", "upload"} ~> Free \/ ~served
=============================================================================
