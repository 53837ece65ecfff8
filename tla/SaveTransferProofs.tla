------------------------- MODULE SaveTransferProofs --------------------------
(***************************************************************************)
(* What SaveTransfer promises, proved for every set of games, every size of *)
(* save, every cache and every way a file may fail.                        *)
(*                                                                         *)
(* The invariant says what has been moved of a transfer that is under way: *)
(* the host holds a prefix of the save it downloads (Downloading), the open *)
(* file begins with a prefix of the save it uploads (Uploading), and       *)
(* nobody else has used the buffer since.  It needs a host that sends no   *)
(* other command in between.                                               *)
(***************************************************************************)
EXTENDS SaveTransfer, TLAPS

Bytes == Chunks \cup {Torn}
Transfers == {"download", "upload"}

Files ==
  [game: Games \cup {NoGame}, mode: {"closed", "read", "write"},
   content: Seq(Bytes), pos: Nat, torn: BOOLEAN]

Hosts ==
  [op: {"idle", "download", "upload", "have", "stored", "rom"},
   game: Games \cup {NoGame}, data: Seq(Chunks), sent: Nat]

Types ==
  /\ roms \subseteq Games
  /\ saves = [g \in Games |-> saves[g]]
  /\ romTransferActive \in BOOLEAN
  /\ ramTransferActive \in BOOLEAN
  /\ ramTransferFile \in Files
  /\ ramBytesToTransfer \in {SaveChunks[g] : g \in Games} \cup {0}
  /\ ramBytesTransferred \in 0 .. ramBytesToTransfer
  /\ served \in BOOLEAN
  /\ playing \in Games \cup {NoGame}
  /\ host \in Hosts

Downloading ==
  host.op = "download" =>
    /\ host.game \in Games
    /\ saves[host.game] # Absent
    /\ ramTransferFile.content = saves[host.game]
    /\ Len(host.data) = host.sent
    /\ \A i \in 1 .. host.sent : host.data[i] = saves[host.game][i]

Uploading ==
  host.op = "upload" =>
    /\ host.game \in Games
    /\ host.data \in Whole(host.game)
    /\ ramTransferFile.content \in Seq(Chunks)
    /\ Len(ramTransferFile.content) \in {ramTransferFile.pos, SaveChunks[host.game]}
    /\ ramTransferFile.pos <= Len(ramTransferFile.content)
    /\ \A i \in 1 .. ramTransferFile.pos : ramTransferFile.content[i] = host.data[i]

Calm == host.op \in Transfers => ~ramTransferFile.torn

(* A game only runs once USB is shut down. *)
Unplugged == playing # NoGame => ~served /\ host = Idle

IInv == Types /\ SavesWhole /\ InStep /\ Downloading /\ Uploading /\ Calm /\ Unplugged

-----------------------------------------------------------------------------
(* A complete save is a sequence of chunks. *)
LEMMA WholeIsSeq ==
  ASSUME NEW g \in Games, NEW data \in Whole(g)
  PROVE  /\ SaveChunks[g] \in Nat
         /\ data \in Seq(Chunks)
         /\ Len(data) = SaveChunks[g]
         /\ data \in Seq(Bytes)
<1>1. SaveChunks[g] \in Nat
  BY TransferAssumption
<1>2. data \in [1 .. SaveChunks[g] -> Chunks]
  BY DEF Whole
<1>3. data \in Seq(Chunks) /\ Len(data) = SaveChunks[g]
  BY <1>1, <1>2
<1> QED
  BY <1>1, <1>3 DEF Bytes

(* Two sequences of the length of a save that agree everywhere are one. *)
LEMMA SameSave ==
  ASSUME NEW g \in Games, NEW s \in Seq(Chunks), NEW data \in Whole(g),
         Len(s) = SaveChunks[g], \A i \in 1 .. SaveChunks[g] : s[i] = data[i]
  PROVE  s = data
<1>1. Len(data) = SaveChunks[g] /\ data \in Seq(Chunks)
  BY WholeIsSeq
<1>2. DOMAIN s = 1 .. SaveChunks[g] /\ DOMAIN data = 1 .. SaveChunks[g]
  BY <1>1
<1>3. s = [i \in DOMAIN s |-> s[i]] /\ data = [i \in DOMAIN data |-> data[i]]
  BY <1>1
<1> QED
  BY <1>2, <1>3

(* Files are empty or whole, so what is stored of a game is a sequence. *)
LEMMA StoredIsSeq ==
  ASSUME SavesWhole, NEW g \in Games, saves[g] # Absent
  PROVE  /\ saves[g] \in Seq(Chunks) /\ saves[g] \in Seq(Bytes)
         /\ saves[g] = <<>> \/ saves[g] \in Whole(g)
         /\ Len(saves[g]) \in {0, SaveChunks[g]}
<1>1. saves[g] = <<>> \/ saves[g] \in Whole(g)
  BY DEF SavesWhole
<1>2. <<>> \in Seq(Chunks) /\ <<>> \in Seq(Bytes) /\ Len(<<>>) = 0
  OBVIOUS
<1> QED
  BY <1>1, <1>2, WholeIsSeq

(* Without a transfer only types and files matter. *)
LEMMA NoTransfer ==
  ASSUME Types', SavesWhole', Unplugged', host'.op \notin Transfers
  PROVE  IInv'
BY DEF IInv, InStep, Downloading, Uploading, Calm, Transfers

LEMMA InvImplies == IInv => TypeOK /\ SavesWhole /\ InStep
<1> SUFFICES ASSUME IInv PROVE TypeOK
  BY DEF IInv
<1>1. ASSUME NEW g \in Games, saves[g] # Absent PROVE saves[g] \in Contents
  <2>1. CASE saves[g] = <<>>
    <3>1. <<>> \in Contents
      BY Zenon DEF Contents
    <3> QED
      BY <2>1, <3>1
  <2>2. CASE saves[g] \in Whole(g)
    <3>1. saves[g] \in [1 .. SaveChunks[g] -> Chunks \cup {Torn}]
      BY <2>2 DEF Whole
    <3>2. SaveChunks[g] \in {SaveChunks[h] : h \in Games}
      OBVIOUS
    <3> QED
      BY <3>1, <3>2 DEF Contents
  <2> QED
    BY <1>1, <2>1, <2>2, StoredIsSeq DEF IInv
<1> QED
  BY <1>1 DEF IInv, Types, TypeOK, Files, Hosts

-----------------------------------------------------------------------------
(* The helpers that make files and hosts. *)

LEMMA HostsMade ==
  /\ Idle \in Hosts
  /\ [Idle EXCEPT !.op = "rom"] \in Hosts
  /\ \A op \in Transfers, g \in Games, data \in Seq(Chunks) :
       [Idle EXCEPT !.op = op, !.game = g, !.data = data] \in Hosts
<1>1. <<>> \in Seq(Chunks)
  OBVIOUS
<1> QED
  BY <1>1 DEF Idle, Hosts, Transfers

LEMMA FilesMade ==
  /\ NoFile \in Files
  /\ \A g \in Games, mode \in {"read", "write"}, content \in Seq(Bytes) :
       Opened(g, mode, content) \in Files
BY DEF NoFile, Opened, Files

LEMMA FileDisturbed ==
  ASSUME NEW file \in Files
  PROVE  Disturbed(file) \in Files /\ Disturbed(file).game = file.game
<1>1. CASE file.mode = "write"
  <2> DEFINE Left(i) == IF i \in file.pos - InCache(file.pos) + 1 .. file.pos
                        THEN Torn ELSE file.content[i]
  <2>1. file.content \in Seq(Bytes)
    BY DEF Files
  <2>2. [i \in DOMAIN file.content |-> Left(i)] \in Seq(Bytes)
    <3>1. \A i \in DOMAIN file.content : Left(i) \in Bytes
      BY <2>1 DEF Bytes
    <3>2. DOMAIN file.content = 1 .. Len(file.content) /\ Len(file.content) \in Nat
      BY <2>1
    <3> HIDE DEF Left
    <3> QED
      BY <3>1, <3>2
  <2>3. Disturbed(file) = [file EXCEPT !.content = [i \in DOMAIN file.content |-> Left(i)]]
    BY <1>1 DEF Disturbed
  <2> HIDE DEF Left
  <2> QED
    BY <2>2, <2>3 DEF Files
<1>2. CASE file.mode # "write"
  BY <1>2 DEF Disturbed, Files
<1> QED
  BY <1>1, <1>2

(* A save that is replaced by nothing, an empty file or a whole save. *)
LEMMA SaveReplaced ==
  ASSUME Types, SavesWhole, NEW g \in Games, NEW v \in {Absent, <<>>} \cup Whole(g),
         saves' = [saves EXCEPT ![g] = v]
  PROVE  SavesWhole' /\ saves' = [h \in Games |-> saves'[h]]
<1>1. \A h \in Games : saves'[h] = IF h = g THEN v ELSE saves[h]
  BY DEF Types
<1>2. saves' = [h \in Games |-> saves'[h]]
  BY DEF Types
<1> QED
  BY <1>1, <1>2 DEF SavesWhole, Whole

LEMMA InitInv == Init => IInv
<1> SUFFICES ASSUME Init PROVE IInv
  OBVIOUS
<1>1. Types
  <2>1. /\ ramBytesTransferred \in 0 .. ramBytesToTransfer
        /\ ramBytesToTransfer \in {SaveChunks[g] : g \in Games} \cup {0}
    BY DEF Init
  <2>2. saves = [g \in Games |-> saves[g]]
    BY DEF Init
  <2> QED
    BY <2>1, <2>2, FilesMade, HostsMade DEF Init, Types
<1>2. SavesWhole
  BY DEF Init, SavesWhole
<1> QED
  BY <1>1, <1>2 DEF Init, IInv, InStep, Downloading, Uploading, Calm, Unplugged,
     Transfers, Idle

-----------------------------------------------------------------------------
(* Steps after which no transfer is under way. *)

(* While USB is served no game runs. *)
LEMMA ServedIdle ==
  ASSUME IInv, UsbRuns
  PROVE  Unplugged' /\ served' \in BOOLEAN /\ playing' \in Games \cup {NoGame}
BY DEF IInv, Types, Unplugged, UsbRuns, gameVars

LEMMA IdleStep ==
  ASSUME IInv, UNCHANGED <<roms, saves, fileVars>>, host' = Idle,
         romTransferActive' \in BOOLEAN, ramTransferActive' \in BOOLEAN,
         UNCHANGED gameVars
  PROVE  IInv'
<1>1. Types'
  BY HostsMade DEF IInv, Types, fileVars, gameVars
<1>2. SavesWhole'
  BY DEF IInv, SavesWhole, Whole
<1>3. Unplugged'
  BY DEF IInv, Unplugged, gameVars, Idle
<1> QED
  BY <1>1, <1>2, <1>3, NoTransfer DEF Idle, Transfers

LEMMA RequestStep ==
  ASSUME IInv, ~Interleaves, RequestRomInfo
  PROVE  IInv'
<1>1. Types'
  BY FileDisturbed, ServedIdle DEF IInv, Types, RequestRomInfo
<1>2. SavesWhole'
  BY DEF IInv, SavesWhole, Whole, RequestRomInfo
<1> QED
  BY <1>1, <1>2, NoTransfer, ServedIdle DEF RequestRomInfo, MaySend, Free, Transfers

LEMMA RomUploadSteps ==
  ASSUME IInv
  PROVE  /\ StartRomUpload => IInv'
         /\ \A g \in Games : FinishRomUpload(g) => IInv'
<1>1. ASSUME StartRomUpload PROVE IInv'
  <2>1. Types'
    BY <1>1, HostsMade, ServedIdle DEF IInv, Types, StartRomUpload, fileVars
  <2>2. SavesWhole'
    BY <1>1 DEF IInv, SavesWhole, Whole, StartRomUpload
  <2> QED
    BY <1>1, <2>1, <2>2, NoTransfer, ServedIdle DEF StartRomUpload, Idle, Transfers
<1>2. ASSUME NEW g \in Games, FinishRomUpload(g) PROVE IInv'
  <2>1. Types'
    BY <1>2, FileDisturbed, HostsMade, ServedIdle DEF IInv, Types, FinishRomUpload
  <2>2. SavesWhole'
    BY <1>2 DEF IInv, SavesWhole, Whole, FinishRomUpload
  <2> QED
    BY <1>2, <2>1, <2>2, NoTransfer, ServedIdle DEF FinishRomUpload, Idle, Transfers
<1> QED
  BY <1>1, <1>2

LEMMA DeleteStep ==
  ASSUME IInv, ~Interleaves, NEW g \in Games, DeleteRom(g)
  PROVE  IInv'
<1>1. SavesWhole' /\ saves' = [h \in Games |-> saves'[h]]
  <2>1. CASE UNCHANGED saves
    BY <2>1 DEF IInv, Types, SavesWhole, Whole
  <2>2. CASE saves' = [saves EXCEPT ![g] = Absent]
    BY <2>2, SaveReplaced DEF IInv
  <2> QED
    BY <2>1, <2>2 DEF DeleteRom
<1>2. ramTransferFile' \in Files
  <2>1. Disturbed(ramTransferFile) \in Files
    BY FileDisturbed DEF IInv, Types
  <2>2. [Disturbed(ramTransferFile) EXCEPT !.game = NoGame] \in Files
    BY <2>1 DEF Files
  <2> QED
    BY <2>1, <2>2 DEF DeleteRom
<1>3. Free /\ host' = Idle
  BY DEF DeleteRom, MaySend
<1>4. roms' \subseteq Games
  BY DEF DeleteRom, IInv, Types
<1>5. Types'
  BY <1>1, <1>2, <1>3, <1>4, HostsMade, ServedIdle DEF DeleteRom, IInv, Types
<1> QED
  BY <1>1, <1>3, <1>5, NoTransfer, ServedIdle DEF Idle, Transfers, DeleteRom

(* The Game Boy's first access leaves everything else as it is. *)
LEMMA GameBoyStep ==
  ASSUME IInv, GameBoyAppears
  PROVE  IInv'
<1>1. UNCHANGED <<roms, saves, romTransferActive, ramTransferActive, ramTransferFile,
                  ramBytesTransferred, ramBytesToTransfer, playing, host>>
      /\ served' = FALSE
  BY DEF GameBoyAppears, fileVars
<1>2. Types'
  BY <1>1 DEF IInv, Types
<1>3. SavesWhole' /\ InStep' /\ Calm' /\ Unplugged'
  BY <1>1 DEF IInv, SavesWhole, Whole, InStep, Calm, Unplugged
<1>4. Downloading' /\ Uploading'
  BY <1>1 DEF IInv, Downloading, Uploading, Whole
<1> QED
  BY <1>2, <1>3, <1>4 DEF IInv

LEMMA GameSteps ==
  ASSUME IInv
  PROVE  /\ StoreGame => IInv'
         /\ \A g \in Games : PlayGame(g) => IInv'
<1>1. ASSUME StoreGame PROVE IInv'
  <2>1. PICK data \in Whole(playing) : saves' = [saves EXCEPT ![playing] = data]
    BY <1>1 DEF StoreGame
  <2>2. playing \in Games
    BY <1>1 DEF StoreGame, IInv, Types
  <2>3. SavesWhole' /\ saves' = [h \in Games |-> saves'[h]]
    BY <2>1, <2>2, SaveReplaced DEF IInv
  <2>4. host' = Idle /\ Unplugged'
    BY <1>1 DEF StoreGame, IInv, Unplugged, gameVars
  <2>5. Types'
    BY <1>1, <2>3 DEF StoreGame, IInv, Types, fileVars, gameVars
  <2> QED
    BY <2>3, <2>4, <2>5, NoTransfer DEF Idle, Transfers
<1>2. ASSUME NEW g \in Games, PlayGame(g) PROVE IInv'
  <2>1. Types'
    BY <1>2, FileDisturbed, HostsMade DEF PlayGame, IInv, Types
  <2>2. SavesWhole'
    BY <1>2 DEF IInv, SavesWhole, Whole, PlayGame
  <2>3. host' = Idle /\ Unplugged'
    BY <1>2 DEF PlayGame, Unplugged, Idle
  <2> QED
    BY <2>1, <2>2, <2>3, NoTransfer DEF Idle, Transfers
<1> QED
  BY <1>1, <1>2

LEMMA ResetStep ==
  ASSUME IInv, Reset
  PROVE  IInv'
<1>1. /\ 0 \in 0 .. 0 /\ NoGame \in Games \cup {NoGame}
  OBVIOUS
<1>2. Types'
  BY <1>1, FilesMade, HostsMade DEF Reset, Restart, IInv, Types
<1>3. SavesWhole' /\ Unplugged'
  BY DEF Reset, Restart, IInv, SavesWhole, Whole, Unplugged
<1> QED
  BY <1>2, <1>3, NoTransfer DEF Reset, Restart, Idle, Transfers

LEMMA OtherSteps ==
  ASSUME IInv
  PROVE  /\ HostLeaves => IInv'
         /\ \A g \in Games : Refuse(g) => IInv'
<1>1. ASSUME HostLeaves PROVE IInv'
  BY <1>1, IdleStep DEF HostLeaves, IInv, Types
<1>2. ASSUME NEW g \in Games, Refuse(g) PROVE IInv'
  BY <1>2, IdleStep DEF Refuse, UsbRuns, IInv, Types
<1> QED
  BY <1>1, <1>2

-----------------------------------------------------------------------------
(* The start of a transfer. *)

LEMMA StartSteps ==
  ASSUME IInv, NEW g \in Games, NEW content, NEW data,
         NEW mode \in {"read", "write"}, NEW op \in Transfers,
         StartTransfer(g), OpenTransferFile(g, mode, content, op, data),
         mode = (IF op = "upload" THEN "write" ELSE "read"),
         content = <<>> \/ content \in Whole(g), data \in Seq(Chunks),
         saves' = [h \in Games |-> saves'[h]], SavesWhole',
         op = "download" => saves'[g] # Absent /\ content = saves'[g] /\ data = <<>>,
         op = "upload" => data \in Whole(g)
  PROVE  IInv'
<1>0. SaveChunks[g] \in Nat /\ SaveChunks[g] > 0
  BY TransferAssumption DEF StartTransfer, Refused
<1>1. /\ content \in Seq(Chunks) /\ content \in Seq(Bytes)
      /\ Len(content) \in {0, SaveChunks[g]}
  <2>1. <<>> \in Seq(Chunks) /\ <<>> \in Seq(Bytes) /\ Len(<<>>) = 0
    OBVIOUS
  <2> QED
    BY <2>1, WholeIsSeq
<1>2. /\ ramTransferFile' \in Files
      /\ ramTransferFile'.game = g /\ ramTransferFile'.mode = mode
      /\ ramTransferFile'.content = content /\ ramTransferFile'.pos = 0
      /\ ramTransferFile'.torn = FALSE
  BY <1>1, FilesMade DEF OpenTransferFile, Opened
<1>3. /\ host' \in Hosts
      /\ host'.op = op /\ host'.game = g /\ host'.data = data /\ host'.sent = 0
  BY HostsMade DEF OpenTransferFile, Idle
<1>4. Types' /\ Unplugged'
  BY <1>0, <1>2, <1>3, ServedIdle DEF StartTransfer, OpenTransferFile, IInv, Types
<1>5. InStep'
  BY <1>0, <1>2, <1>3 DEF StartTransfer, OpenTransferFile, InStep, Transfers
<1>6. Downloading'
  BY <1>2, <1>3 DEF Downloading
<1>7. Uploading'
  <2>1. Whole(g)' = Whole(g)
    BY DEF Whole
  <2> QED
    BY <1>0, <1>1, <1>2, <1>3, <2>1 DEF Uploading
<1>8. Calm'
  BY <1>2 DEF Calm
<1> QED
  BY <1>4, <1>5, <1>6, <1>7, <1>8 DEF IInv

LEMMA OpenFailsStep ==
  ASSUME IInv, NEW g \in Games, StartTransfer(g), OpenFails
  PROVE  IInv'
BY IdleStep DEF StartTransfer, UsbRuns, OpenFails, IInv, Types

LEMMA DownloadStarts ==
  ASSUME IInv, NEW g \in Games, StartRamDownload(g)
  PROVE  IInv'
<1>1. CASE OpenFails
  BY <1>1, OpenFailsStep DEF StartRamDownload
<1>2. CASE /\ saves[g] # Absent
           /\ OpenTransferFile(g, "read", saves[g], "download", <<>>)
           /\ UNCHANGED saves
  <2>1. saves[g] = <<>> \/ saves[g] \in Whole(g)
    BY <1>2, StoredIsSeq DEF IInv
  <2>2. SavesWhole' /\ saves' = [h \in Games |-> saves'[h]]
    BY <1>2 DEF IInv, Types, SavesWhole, Whole
  <2>3. <<>> \in Seq(Chunks)
    OBVIOUS
  <2>4. saves'[g] = saves[g]
    BY <1>2
  <2> QED
    BY <1>2, <2>1, <2>2, <2>3, <2>4, StartSteps DEF StartRamDownload, Transfers
<1> QED
  BY <1>1, <1>2 DEF StartRamDownload

LEMMA UploadStarts ==
  ASSUME IInv, NEW g \in Games, StartRamUpload(g)
  PROVE  IInv'
<1>1. CASE OpenFails
  BY <1>1, OpenFailsStep DEF StartRamUpload
<1>2. ASSUME NEW data \in Whole(g), NEW old,
             old = (IF saves[g] = Absent THEN <<>> ELSE saves[g]),
             saves' = [saves EXCEPT ![g] = old],
             OpenTransferFile(g, "write", old, "upload", data)
      PROVE  IInv'
  <2>1. old = <<>> \/ old \in Whole(g)
    BY <1>2, StoredIsSeq DEF IInv
  <2>2. SavesWhole' /\ saves' = [h \in Games |-> saves'[h]]
    BY <1>2, <2>1, SaveReplaced DEF IInv
  <2>3. data \in Seq(Chunks)
    BY <1>2, WholeIsSeq
  <2> QED
    BY <1>2, <2>1, <2>2, <2>3, StartSteps DEF StartRamUpload, Transfers
<1> QED
  BY <1>1, <1>2 DEF StartRamUpload

-----------------------------------------------------------------------------
(* A chunk. *)

(* Host and cartridge count the same chunks. *)
LEMMA Counts ==
  ASSUME IInv, host.op \in Transfers
  PROVE  /\ host.game \in Games /\ ramTransferFile.game = host.game
         /\ SaveChunks[host.game] \in Nat
         /\ ramTransferFile.pos = host.sent /\ ramBytesTransferred = host.sent
         /\ host.sent \in Nat /\ host.sent < SaveChunks[host.game]
         /\ ramBytesToTransfer = SaveChunks[host.game]
         /\ ramTransferActive
         /\ IsLast <=> host.sent + 1 = SaveChunks[host.game]
<1>1. host.game \in Games
  BY DEF IInv, Downloading, Uploading, Transfers
<1>2. SaveChunks[host.game] \in Nat /\ host.sent \in Nat
  BY <1>1, TransferAssumption DEF IInv, Types, Hosts
<1> QED
  BY <1>1, <1>2 DEF IInv, InStep, Transfers, IsLast

(* What a download has delivered after another chunk. *)
LEMMA ChunkRead ==
  ASSUME IInv, host.op = "download",
         ramTransferFile.pos < Len(ramTransferFile.content),
         NEW data, data = Append(host.data, ReadChunk(ramTransferFile))
  PROVE  /\ data \in Seq(Chunks) /\ Len(data) = host.sent + 1
         /\ \A i \in 1 .. host.sent + 1 : data[i] = saves[host.game][i]
         /\ IsLast => data = saves[host.game]
<1>0. host.op \in Transfers
  BY DEF Transfers
<1>1. /\ saves[host.game] \in Seq(Chunks)
      /\ saves[host.game] = <<>> \/ saves[host.game] \in Whole(host.game)
  BY <1>0, Counts, StoredIsSeq DEF IInv, Downloading
<1>2. ramTransferFile.content = saves[host.game] /\ ramTransferFile.pos = host.sent
  BY <1>0, Counts DEF IInv, Downloading
<1>3. /\ ReadChunk(ramTransferFile) = saves[host.game][host.sent + 1]
      /\ ReadChunk(ramTransferFile) \in Chunks
  <2>1. ReadChunk(ramTransferFile) = saves[host.game][host.sent + 1]
    BY <1>0, <1>2 DEF ReadChunk, IInv, Calm
  <2>2. host.sent + 1 \in 1 .. Len(saves[host.game])
    BY <1>0, <1>1, <1>2, Counts
  <2> QED
    BY <1>1, <2>1, <2>2
<1>4. host.data \in Seq(Chunks) /\ Len(host.data) = host.sent /\ host.sent \in Nat
  BY DEF IInv, Types, Hosts, Downloading
<1>5. data \in Seq(Chunks) /\ Len(data) = host.sent + 1
  BY <1>3, <1>4
<1>6. ASSUME NEW i \in 1 .. host.sent + 1 PROVE data[i] = saves[host.game][i]
  <2>1. CASE i = host.sent + 1
    BY <1>3, <1>4, <2>1
  <2>2. CASE i \in 1 .. host.sent
    <3>1. host.data[i] = saves[host.game][i]
      BY <2>2 DEF IInv, Downloading
    <3> QED
      BY <1>3, <1>4, <2>2, <3>1
  <2> QED
    BY <1>4, <1>6, <2>1, <2>2
<1>7. ASSUME IsLast PROVE data = saves[host.game]
  <2>1. host.sent + 1 = SaveChunks[host.game] /\ host.game \in Games
    BY <1>0, <1>7, Counts
  <2>2. saves[host.game] \in Whole(host.game)
    <3>1. Len(<<>>) = 0
      OBVIOUS
    <3> QED
      BY <1>1, <1>2, <1>4, <3>1
  <2> QED
    BY <1>5, <1>6, <2>1, <2>2, SameSave
<1> QED
  BY <1>5, <1>6, <1>7

(* What the file of an upload holds after another chunk. *)
LEMMA ChunkWritten ==
  ASSUME IInv, host.op = "upload", NEW content,
         content = Overwritten(ramTransferFile.content, ramTransferFile.pos,
                               host.data[host.sent + 1])
  PROVE  /\ content \in Seq(Chunks) /\ content \in Seq(Bytes)
         /\ Len(content) \in {host.sent + 1, SaveChunks[host.game]}
         /\ host.sent + 1 <= Len(content)
         /\ \A i \in 1 .. host.sent + 1 : content[i] = host.data[i]
         /\ IsLast => content = host.data
<1> DEFINE old == ramTransferFile.content
           n == IF host.sent >= Len(old) THEN host.sent + 1 ELSE Len(old)
<1>0. host.op \in Transfers
  BY DEF Transfers
<1>1. /\ host.sent \in Nat /\ SaveChunks[host.game] \in Nat
      /\ host.sent < SaveChunks[host.game] /\ host.game \in Games
      /\ ramTransferFile.pos = host.sent
  BY <1>0, Counts
<1>2. /\ old \in Seq(Chunks) /\ Len(old) \in {host.sent, SaveChunks[host.game]}
      /\ host.sent <= Len(old)
      /\ \A i \in 1 .. host.sent : old[i] = host.data[i]
      /\ host.data \in Whole(host.game)
  BY <1>1 DEF IInv, Uploading
<1>3. host.data \in Seq(Chunks) /\ Len(host.data) = SaveChunks[host.game]
  BY <1>1, <1>2, WholeIsSeq
<1>4. content = [i \in 1 .. n |-> IF i = host.sent + 1 THEN host.data[host.sent + 1] ELSE old[i]]
  BY <1>1 DEF Overwritten
<1>5. n \in Nat /\ n \in {host.sent + 1, SaveChunks[host.game]} /\ host.sent + 1 <= n
  BY <1>1, <1>2
<1>6. ASSUME NEW i \in 1 .. n
      PROVE  (IF i = host.sent + 1 THEN host.data[host.sent + 1] ELSE old[i]) \in Chunks
  <2>1. host.data[host.sent + 1] \in Chunks
    BY <1>1, <1>3
  <2>2. i # host.sent + 1 => i \in 1 .. Len(old)
    BY <1>1, <1>2, <1>6
  <2> QED
    BY <1>2, <2>1, <2>2
<1> HIDE DEF n, old
<1>7. content \in Seq(Chunks) /\ Len(content) = n
  BY <1>4, <1>5, <1>6
<1>8. \A i \in 1 .. host.sent + 1 : content[i] = host.data[i]
  BY <1>1, <1>2, <1>4, <1>5
<1>9. ASSUME IsLast PROVE content = host.data
  <2>1. host.sent + 1 = SaveChunks[host.game]
    BY <1>0, <1>9, Counts
  <2> QED
    BY <1>1, <1>2, <1>5, <1>7, <1>8, <2>1, SameSave
<1> QED
  BY <1>5, <1>7, <1>8, <1>9 DEF Bytes

LEMMA FileAdvanced ==
  ASSUME NEW file \in Files
  PROVE  /\ Advanced(file) \in Files
         /\ Advanced(file).game = file.game /\ Advanced(file).mode = file.mode
         /\ Advanced(file).content = file.content
         /\ Advanced(file).pos = file.pos + 1
         /\ ~file.torn => ~Advanced(file).torn
<1>1. /\ file.pos + 1 \in Nat
      /\ (file.torn /\ InCache(file.pos + 1) # 0) \in BOOLEAN
  BY DEF Files
<1> DEFINE torn == file.torn /\ InCache(file.pos + 1) # 0
<1>2. Advanced(file) = [file EXCEPT !.pos = file.pos + 1, !.torn = torn]
  BY Zenon DEF Advanced
<1>3. torn \in BOOLEAN /\ (~file.torn => ~torn)
  BY <1>1
<1> HIDE DEF torn
<1> QED
  BY <1>1, <1>2, <1>3 DEF Files

(* The open file of a transfer and the next position in it. *)
LEMMA FileOfTransfer ==
  ASSUME IInv, host.op \in Transfers, NEW file, file = Advanced(ramTransferFile)
  PROVE  /\ file \in Files /\ file.game = ramTransferFile.game
         /\ file.mode = ramTransferFile.mode
         /\ file.content = ramTransferFile.content
         /\ file.pos = host.sent + 1 /\ ~file.torn
<1>1. ramTransferFile \in Files /\ ~ramTransferFile.torn
  BY DEF IInv, Types, Calm
<1>2. ramTransferFile.pos = host.sent
  BY Counts
<1> QED
  BY <1>1, <1>2, FileAdvanced

LEMMA HostCounted ==
  ASSUME IInv, host.op \in Transfers, NEW done \in {"have", "stored"},
         NEW data \in Seq(Chunks), HostCounts(done, data)
  PROVE  /\ host' \in Hosts
         /\ host'.game = host.game /\ host'.data = data /\ host'.sent = host.sent + 1
         /\ host'.op = IF IsLast THEN done ELSE host.op
<1>1. IsLast <=> host.sent + 1 = SaveChunks[host.game]
  BY Counts
<1>2. host \in Hosts /\ host.sent \in Nat
  BY DEF IInv, Types, Hosts
<1> DEFINE op == IF host.sent + 1 = SaveChunks[host.game] THEN done ELSE host.op
<1>3. host' = [op |-> op, game |-> host.game, data |-> data, sent |-> host.sent + 1]
  BY <1>2 DEF HostCounts, Hosts
<1>4. op = IF IsLast THEN done ELSE host.op
  BY <1>1
<1>5. op \in {"idle", "download", "upload", "have", "stored", "rom"}
  BY <1>4 DEF Transfers
<1> HIDE DEF op
<1> QED
  BY <1>2, <1>3, <1>4, <1>5 DEF Hosts

(* Both kinds of chunk: nothing is left to show but what was moved. *)
LEMMA ChunkStep ==
  ASSUME IInv, host.op \in Transfers, NEW file, NEW done \in {"have", "stored"},
         NEW data \in Seq(Chunks),
         file \in Files, file.game = ramTransferFile.game,
         file.mode = ramTransferFile.mode, file.pos = host.sent + 1, ~file.torn,
         CountChunk(file), HostCounts(done, data),
         UNCHANGED <<roms, romTransferActive>>, UsbRuns,
         SavesWhole', saves' = [g \in Games |-> saves'[g]],
         ~IsLast => Downloading' /\ Uploading'
  PROVE  IInv'
<1>1. /\ host' \in Hosts /\ host'.game = host.game /\ host'.sent = host.sent + 1
      /\ host'.op = IF IsLast THEN done ELSE host.op
  BY HostCounted
<1>2. ramTransferFile' = IF IsLast THEN NoFile ELSE file
  BY DEF CountChunk
<1>3. /\ ramBytesTransferred = host.sent /\ host.sent \in Nat
      /\ host.sent < SaveChunks[host.game] /\ SaveChunks[host.game] \in Nat
      /\ ramBytesToTransfer = SaveChunks[host.game]
      /\ IsLast <=> host.sent + 1 = SaveChunks[host.game]
      /\ ramTransferActive /\ ramTransferFile.game = host.game
  BY Counts
<1>4. Types' /\ Unplugged'
  <2>1. ramBytesTransferred' \in 0 .. ramBytesToTransfer'
    BY <1>3 DEF CountChunk
  <2> QED
    BY <1>1, <1>2, <1>3, <2>1, FilesMade, ServedIdle DEF CountChunk, IInv, Types
<1>5. CASE IsLast
  BY <1>1, <1>4, <1>5, NoTransfer DEF Transfers
<1>6. CASE ~IsLast
  <2>1. InStep'
    <3>1. ramTransferFile.mode = IF host.op = "upload" THEN "write" ELSE "read"
      BY DEF IInv, InStep, Transfers
    <3>2. ramTransferActive' /\ ramBytesTransferred' = host.sent + 1
      BY <1>3, <1>6 DEF CountChunk
    <3>3. ramTransferFile' = file /\ host'.op = host.op
      BY <1>1, <1>2, <1>6
    <3>4. ramBytesToTransfer' = SaveChunks[host'.game]
      BY <1>1, <1>3 DEF CountChunk
    <3>5. host.sent + 1 < ramBytesToTransfer'
      BY <1>1, <1>3, <1>6, <3>4
    <3> QED
      BY <1>1, <1>3, <3>1, <3>2, <3>3, <3>4, <3>5 DEF InStep
  <2>2. Calm'
    BY <1>2, <1>6 DEF Calm
  <2> QED
    BY <1>4, <1>6, <2>1, <2>2 DEF IInv
<1> QED
  BY <1>5, <1>6

LEMMA ChunkFailsStep ==
  ASSUME IInv, UsbRuns, ChunkFails, UNCHANGED <<roms, romTransferActive>>
  PROVE  IInv'
BY IdleStep DEF UsbRuns, ChunkFails, IInv, Types

LEMMA DownloadGoesOn ==
  ASSUME IInv, GetRamDownloadChunk
  PROVE  IInv'
<1>1. CASE ChunkFails
  BY <1>1, ChunkFailsStep DEF GetRamDownloadChunk
<1>2. CASE ~ChunkFails
  <2> DEFINE data == Append(host.data, ReadChunk(ramTransferFile))
             file == Advanced(ramTransferFile)
  <2>1. /\ host.op = "download"
        /\ ramTransferFile.pos < Len(ramTransferFile.content)
        /\ HostCounts("have", data) /\ CountChunk(file)
        /\ UsbRuns /\ UNCHANGED <<saves, roms, romTransferActive>>
    BY <1>2 DEF GetRamDownloadChunk
  <2>2. host.op \in Transfers
    BY <2>1 DEF Transfers
  <2>3. /\ data \in Seq(Chunks) /\ Len(data) = host.sent + 1
        /\ \A i \in 1 .. host.sent + 1 : data[i] = saves[host.game][i]
    BY <2>1, ChunkRead
  <2>4. /\ file \in Files /\ file.game = ramTransferFile.game
        /\ file.mode = ramTransferFile.mode /\ file.content = ramTransferFile.content
        /\ file.pos = host.sent + 1 /\ ~file.torn
    BY <2>2, FileOfTransfer
  <2> HIDE DEF data, file
  <2>5. SavesWhole' /\ saves' = [g \in Games |-> saves'[g]]
    BY <2>1 DEF IInv, Types, SavesWhole, Whole
  <2>6. /\ host'.game = host.game /\ host'.data = data /\ host'.sent = host.sent + 1
        /\ host'.op \in {"have", "download"}
    BY <2>1, <2>2, <2>3, HostCounted
  <2>7. ASSUME ~IsLast PROVE Downloading' /\ Uploading'
    <3>1. ramTransferFile'.content = ramTransferFile.content
      BY <2>1, <2>4, <2>7 DEF CountChunk
    <3> QED
      BY <2>1, <2>3, <2>6, <3>1 DEF IInv, Downloading, Uploading
  <2> QED
    BY <2>1, <2>2, <2>3, <2>4, <2>5, <2>7, ChunkStep
<1> QED
  BY <1>1, <1>2

(* What the last chunk of an upload leaves in the file. *)
LEMMA UploadedSave ==
  ASSUME IInv, host.op = "upload", NEW content,
         content = Overwritten(ramTransferFile.content, ramTransferFile.pos,
                               host.data[host.sent + 1]),
         \/ /\ IsLast /\ ramTransferFile.game # NoGame
            /\ saves' = [saves EXCEPT ![ramTransferFile.game] = content]
         \/ UNCHANGED saves
  PROVE  SavesWhole' /\ saves' = [g \in Games |-> saves'[g]]
<1>1. CASE UNCHANGED saves
  BY <1>1 DEF IInv, Types, SavesWhole, Whole
<1>2. CASE ~UNCHANGED saves
  <2>1. content = host.data
    BY <1>2, ChunkWritten
  <2>2. /\ ramTransferFile.game = host.game /\ host.game \in Games
        /\ host.data \in Whole(host.game)
    BY Counts DEF Transfers, IInv, Uploading
  <2> QED
    BY <1>2, <2>1, <2>2, SaveReplaced DEF IInv
<1> QED
  BY <1>1, <1>2

LEMMA UploadGoesOn ==
  ASSUME IInv, TransferRamUploadChunk
  PROVE  IInv'
<1>1. CASE ChunkFails
  BY <1>1, ChunkFailsStep DEF TransferRamUploadChunk
<1>2. CASE ~ChunkFails
  <2> DEFINE content == Overwritten(ramTransferFile.content, ramTransferFile.pos,
                                    host.data[host.sent + 1])
             file == [Advanced(ramTransferFile) EXCEPT !.content = content]
  <2>1. /\ host.op = "upload"
        /\ HostCounts("stored", host.data) /\ CountChunk(file)
        /\ \/ /\ IsLast /\ ramTransferFile.game # NoGame
              /\ saves' = [saves EXCEPT ![ramTransferFile.game] = content]
           \/ UNCHANGED saves
        /\ UsbRuns /\ UNCHANGED <<roms, romTransferActive>>
    BY <1>2 DEF TransferRamUploadChunk
  <2>2. host.op \in Transfers
    BY <2>1 DEF Transfers
  <2>3. /\ content \in Seq(Chunks) /\ content \in Seq(Bytes)
        /\ Len(content) \in {host.sent + 1, SaveChunks[host.game]}
        /\ host.sent + 1 <= Len(content)
        /\ \A i \in 1 .. host.sent + 1 : content[i] = host.data[i]
    BY <2>1, ChunkWritten
  <2>4. SavesWhole' /\ saves' = [g \in Games |-> saves'[g]]
    BY <2>1, UploadedSave
  <2> HIDE DEF content
  <2>5. /\ file \in Files /\ file.game = ramTransferFile.game
        /\ file.mode = ramTransferFile.mode /\ file.content = content
        /\ file.pos = host.sent + 1 /\ ~file.torn
    BY <2>2, <2>3, FileOfTransfer DEF Files
  <2> HIDE DEF file
  <2>6. host.data \in Seq(Chunks)
    BY DEF IInv, Types, Hosts
  <2>7. /\ host'.game = host.game /\ host'.data = host.data /\ host'.sent = host.sent + 1
        /\ host'.op \in {"stored", "upload"}
    BY <2>1, <2>2, <2>6, HostCounted
  <2>8. ASSUME ~IsLast PROVE Downloading' /\ Uploading'
    <3>1. ramTransferFile'.content = content /\ ramTransferFile'.pos = host.sent + 1
      BY <2>1, <2>5, <2>8 DEF CountChunk
    <3>2. host.game \in Games /\ host.data \in Whole(host.game)
      BY <2>1 DEF IInv, Uploading
    <3>3. Whole(host.game)' = [1 .. SaveChunks[host'.game] -> Chunks]
      BY DEF Whole
    <3> QED
      BY <2>3, <2>7, <3>1, <3>2, <3>3 DEF Downloading, Uploading, Whole
  <2> QED
    BY <2>1, <2>2, <2>4, <2>5, <2>6, <2>8, ChunkStep
<1> QED
  BY <1>1, <1>2

LEMMA StepInv == ~Interleaves /\ IInv /\ [Next]_vars => IInv'
<1> SUFFICES ASSUME ~Interleaves, IInv, [Next]_vars PROVE IInv'
  OBVIOUS
<1>1. CASE UNCHANGED vars
  <2>1. UNCHANGED <<roms, saves, romTransferActive, ramTransferActive, ramTransferFile,
                    ramBytesTransferred, ramBytesToTransfer, served, playing, host>>
    BY <1>1 DEF vars
  <2>2. Types'
    BY <2>1 DEF IInv, Types
  <2>3. SavesWhole' /\ InStep' /\ Calm' /\ Unplugged'
    BY <2>1 DEF IInv, SavesWhole, Whole, InStep, Calm, Unplugged
  <2>4. Downloading' /\ Uploading'
    BY <2>1 DEF IInv, Downloading, Uploading, Whole
  <2> QED
    BY <2>2, <2>3, <2>4 DEF IInv
<1>2. CASE GetRamDownloadChunk
  BY <1>2, DownloadGoesOn
<1>3. CASE TransferRamUploadChunk
  BY <1>3, UploadGoesOn
<1>4. CASE RequestRomInfo
  BY <1>4, RequestStep
<1>5. CASE StartRomUpload
  BY <1>5, RomUploadSteps
<1>6. CASE HostLeaves
  BY <1>6, OtherSteps
<1>7. CASE Reset
  BY <1>7, ResetStep
<1>8. CASE GameBoyAppears
  BY <1>8, GameBoyStep
<1>9. CASE StoreGame
  BY <1>9, GameSteps
<1>10. ASSUME NEW g \in Games, Refuse(g) \/ FinishRomUpload(g) \/ PlayGame(g)
       PROVE  IInv'
  BY <1>10, OtherSteps, RomUploadSteps, GameSteps
<1>11. ASSUME NEW g \in Games, DeleteRom(g) PROVE IInv'
  BY <1>11, DeleteStep
<1>12. ASSUME NEW g \in Games, StartRamDownload(g) PROVE IInv'
  BY <1>12, DownloadStarts
<1>13. ASSUME NEW g \in Games, StartRamUpload(g) PROVE IInv'
  BY <1>13, UploadStarts
<1> QED
  BY <1>1, <1>2, <1>3, <1>4, <1>5, <1>6, <1>7, <1>8, <1>9, <1>10, <1>11, <1>12, <1>13
     DEF Next

-----------------------------------------------------------------------------
(* Theorems about the files and about the two ends of a transfer. *)

LEMMA Invariance ==
  ASSUME ~Interleaves
  PROVE  Spec => []IInv
<1>1. IInv /\ [Next]_vars => IInv'
  BY StepInv
<1> QED
  BY InitInv, <1>1, PTL DEF Spec

\* The state of the transfer commands keeps its types, and the bytes counted of a transfer
\* never exceed the bytes of the save (_ramBytesTransferred, RomStorage.c, webusb.c).
THEOREM TransferTypesKept ==
  ASSUME ~Interleaves
  PROVE  Spec => []TypeOK
<1>1. IInv => TypeOK
  BY InvImplies
<1> QED
  BY <1>1, Invariance, PTL

\* Whatever breaks off a transfer, and whatever fails in the file system, a save file is
\* empty or one complete save: RomStorage_StartRamUpload opens the file for writing in
\* place and littlefs shows the new content only once the last chunk closed it.
THEOREM SavesStayWhole ==
  ASSUME ~Interleaves
  PROVE  Spec => []SavesWhole
<1>1. IInv => SavesWhole
  BY InvImplies
<1> QED
  BY <1>1, Invariance, PTL

\* The chunk that the host awaits is the one that RomStorage.c counts next, of the file
\* that the host named, for every size of save.
THEOREM HostStaysInStep ==
  ASSUME ~Interleaves
  PROVE  Spec => []InStep
<1>1. IInv => InStep
  BY InvImplies
<1> QED
  BY <1>1, Invariance, PTL

-----------------------------------------------------------------------------
(* The chunk commands implement the transfer of whole saves. *)

(* The transfer as SaveService sees it. *)
Seen == [op |-> IF host.op = "rom" THEN "idle" ELSE host.op,
         game |-> host.game,
         data |-> IF host.op = "download" THEN <<>> ELSE host.data]
Promised == <<saves, Seen>>

LEMMA SeenFree == Free => Service!Free
BY DEF Free, Service!Free

LEMMA BrokenOff ==
  ASSUME UNCHANGED saves, host' = Idle \/ host' = [Idle EXCEPT !.op = "rom"]
  PROVE  Service!BreakOff
BY DEF Idle, Service!BreakOff, Service!Idle

LEMMA StartImplements ==
  ASSUME IInv, NEW g \in Games
  PROVE  StartRamDownload(g) \/ StartRamUpload(g) => Service!Next
<1>1. ASSUME StartRamDownload(g) \/ StartRamUpload(g), OpenFails PROVE Service!Next
  BY <1>1, BrokenOff DEF OpenFails, Service!Next
<1>2. ASSUME StartTransfer(g), OpenTransferFile(g, "read", saves[g], "download", <<>>),
             UNCHANGED saves
      PROVE  Service!Next
  <2>1. Service!Ask(g)
    BY <1>2, SeenFree DEF StartTransfer, OpenTransferFile, Idle, Service!Ask
  <2> QED
    BY <2>1 DEF Service!Next
<1>3. ASSUME StartTransfer(g), NEW data \in Whole(g), NEW old,
             old = (IF saves[g] = Absent THEN <<>> ELSE saves[g]),
             saves' = [saves EXCEPT ![g] = old],
             OpenTransferFile(g, "write", old, "upload", data)
      PROVE  Service!Next
  <2>1. data \in UNION {Whole(h) : h \in Games}
    BY <1>3
  <2>2. \/ UNCHANGED saves
        \/ saves[g] = Absent /\ saves' = [saves EXCEPT ![g] = <<>>]
    BY <1>3 DEF IInv, Types
  <2>3. Seen' = [op |-> "upload", game |-> g, data |-> data]
    BY <1>3 DEF OpenTransferFile, Idle, Seen
  <2>4. Service!Offer(g, data)
    BY <1>3, <2>2, <2>3, SeenFree DEF StartTransfer, Seen, Service!Offer
  <2> QED
    BY <2>1, <2>4 DEF Service!Next
<1> QED
  BY <1>1, <1>2, <1>3 DEF StartRamDownload, StartRamUpload

LEMMA DownloadImplements ==
  ASSUME IInv, GetRamDownloadChunk
  PROVE  Service!Next \/ UNCHANGED Promised
<1>1. CASE ChunkFails
  BY <1>1, BrokenOff DEF ChunkFails, Service!Next
<1>2. CASE ~ChunkFails
  <2> DEFINE data == Append(host.data, ReadChunk(ramTransferFile))
  <2>1. /\ host.op = "download" /\ host.op \in Transfers
        /\ ramTransferFile.pos < Len(ramTransferFile.content)
        /\ HostCounts("have", data) /\ UNCHANGED saves
    BY <1>2 DEF GetRamDownloadChunk, Transfers
  <2>2. data \in Seq(Chunks) /\ (IsLast => data = saves[host.game])
    BY <2>1, ChunkRead
  <2> HIDE DEF data
  <2>3. /\ host'.game = host.game /\ host'.data = data
        /\ host'.op = IF IsLast THEN "have" ELSE "download"
    BY <2>1, <2>2, HostCounted
  <2>4. CASE IsLast
    <3>1. saves[host.game] # Absent
      BY <2>1 DEF IInv, Downloading
    <3>2. Seen' = [op |-> "have", game |-> host.game, data |-> saves[host.game]]
      <4>1. host'.op = "have" /\ host'.data = saves[host.game]
        BY <2>2, <2>3, <2>4
      <4> QED
        BY <2>3, <4>1 DEF Seen
    <3>3. Seen = [op |-> "download", game |-> host.game, data |-> <<>>]
      BY <2>1 DEF Seen
    <3>4. Service!Deliver
      BY <2>1, <3>1, <3>2, <3>3 DEF Seen, Service!Deliver
    <3> QED
      BY <3>4 DEF Service!Next
  <2>5. CASE ~IsLast
    BY <2>1, <2>3, <2>5 DEF Promised, Seen
  <2> QED
    BY <2>4, <2>5
<1> QED
  BY <1>1, <1>2

LEMMA UploadImplements ==
  ASSUME IInv, TransferRamUploadChunk, "close" \notin FlashErrors
  PROVE  Service!Next \/ UNCHANGED Promised
<1>1. CASE ChunkFails
  BY <1>1, BrokenOff DEF ChunkFails, Service!Next
<1>2. CASE ~ChunkFails
  <2> DEFINE content == Overwritten(ramTransferFile.content, ramTransferFile.pos,
                                    host.data[host.sent + 1])
  <2>1. /\ host.op = "upload" /\ host.op \in Transfers
        /\ HostCounts("stored", host.data)
        /\ \/ /\ IsLast
              /\ saves' = [saves EXCEPT ![ramTransferFile.game] = content]
           \/ /\ ~IsLast \/ ramTransferFile.game = NoGame
              /\ UNCHANGED saves
    BY <1>2 DEF TransferRamUploadChunk, Fails, Transfers
  <2>2. IsLast => content = host.data
    BY <2>1, ChunkWritten
  <2> HIDE DEF content
  <2>3. ramTransferFile.game = host.game /\ host.game # NoGame
    BY <2>1, Counts, TransferAssumption
  <2>4. host.data \in Seq(Chunks)
    BY DEF IInv, Types, Hosts
  <2>5. /\ host'.game = host.game /\ host'.data = host.data
        /\ host'.op = IF IsLast THEN "stored" ELSE "upload"
    BY <2>1, <2>4, HostCounted
  <2>6. CASE IsLast
    <3>1. saves' = [saves EXCEPT ![host.game] = host.data]
      BY <2>1, <2>2, <2>3, <2>6
    <3>2. Seen' = [Seen EXCEPT !.op = "stored"]
      BY <2>1, <2>5, <2>6 DEF Seen
    <3>3. Service!Confirm
      BY <2>1, <3>1, <3>2 DEF Seen, Service!Confirm
    <3> QED
      BY <3>3 DEF Service!Next
  <2>7. CASE ~IsLast
    BY <2>1, <2>5, <2>7 DEF Promised, Seen
  <2> QED
    BY <2>6, <2>7
<1> QED
  BY <1>1, <1>2

LEMMA ServiceStep ==
  ASSUME ~Interleaves, "close" \notin FlashErrors, IInv, [Next]_vars
  PROVE  Service!Next \/ UNCHANGED Promised
<1>1. CASE UNCHANGED vars
  BY <1>1 DEF vars, Promised, Seen
<1>2. CASE GetRamDownloadChunk
  BY <1>2, DownloadImplements
<1>3. CASE TransferRamUploadChunk
  BY <1>3, UploadImplements
<1>4. CASE RequestRomInfo
  BY <1>4 DEF RequestRomInfo, Promised, Seen
<1>5. CASE StartRomUpload \/ HostLeaves \/ Reset
  BY <1>5, BrokenOff
     DEF StartRomUpload, HostLeaves, Reset, Restart, Service!Next
<1>6. ASSUME NEW g \in Games, Refuse(g) \/ FinishRomUpload(g) PROVE Service!Next
  BY <1>6, BrokenOff DEF Refuse, FinishRomUpload, Service!Next
<1>7. ASSUME NEW g \in Games, StartRamDownload(g) \/ StartRamUpload(g) PROVE Service!Next
  BY <1>7, StartImplements
<1>8. ASSUME NEW g \in Games, DeleteRom(g) PROVE Service!Next
  <2>1. Free /\ host' = Idle
    BY <1>8 DEF DeleteRom, MaySend
  <2>2. CASE UNCHANGED saves
    BY <2>1, <2>2, BrokenOff DEF Service!Next
  <2>3. CASE saves' = [saves EXCEPT ![g] = Absent]
    <3>1. Service!Delete(g)
      BY <2>1, <2>3, SeenFree DEF Idle, Service!Delete, Service!Idle
    <3> QED
      BY <3>1 DEF Service!Next
  <2> QED
    BY <1>8, <2>2, <2>3 DEF DeleteRom
<1>9. CASE GameBoyAppears
  BY <1>9 DEF GameBoyAppears, Promised, Seen
<1>10. ASSUME NEW g \in Games, PlayGame(g) PROVE Service!Next
  BY <1>10, BrokenOff DEF PlayGame, Service!Next
<1>11. CASE StoreGame
  <2>1. PICK data \in Whole(playing) : saves' = [saves EXCEPT ![playing] = data]
    BY <1>11 DEF StoreGame
  <2>2. playing \in Games /\ host' = Idle
    BY <1>11 DEF StoreGame, IInv, Types, Unplugged
  <2>3. Service!Play(playing, data)
    BY <2>1, <2>2 DEF Idle, Service!Play, Service!Idle
  <2>4. data \in UNION {Whole(h) : h \in Games}
    BY <2>2
  <2> QED
    BY <2>2, <2>3, <2>4 DEF Service!Next
<1> QED
  BY <1>1, <1>2, <1>3, <1>4, <1>5, <1>6, <1>7, <1>8, <1>9, <1>10, <1>11 DEF Next

\* With a host that waits for its answers and a file system whose close succeeds, chunk by
\* chunk the commands do what SaveService promises: a download is the stored save, a
\* confirmed upload is stored, and a transfer that breaks off changes nothing.
THEOREM TransferImplementsService ==
  ASSUME ~Interleaves, "close" \notin FlashErrors
  PROVE  Spec => ImplementsService
<1>1. Init => Service!Init
  BY DEF Init, Idle, Service!Init, Service!Idle
<1>2. IInv /\ [Next]_vars => [Service!Next]_Promised
  BY ServiceStep
<1> QED
  BY <1>1, <1>2, Invariance, PTL
     DEF Spec, ImplementsService, Service!Spec, Service!vars, Promised, Seen

=============================================================================
