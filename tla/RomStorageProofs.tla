-------------------------- MODULE RomStorageProofs --------------------------
(***************************************************************************)
(* Proofs about RomStorage, for every number of names, banks, chunks and   *)
(* images.  The type invariant needs nothing of the host.  That stored     *)
(* ROMs stay whole needs a host that sends no other command while an       *)
(* upload is active, and that the search for banks never fails needs one   *)
(* that also never starts an upload over.                                  *)
(***************************************************************************)
EXTENDS RomStorage, TLAPS, FiniteSetTheorems, WellFoundedInduction

USE DEF Unset, NoName, NoGame

Directories == [Names -> Files \cup {NoFile, EmptyFile}]

-----------------------------------------------------------------------------
\* Reading the directory.

\* A finite, non-empty set of numbers has a largest element, and Max finds it.
LEMMA MaxProperty ==
  ASSUME NEW S, S \subseteq Nat, IsFiniteSet(S), S # {}
  PROVE  Max(S) \in S /\ \A y \in S : y <= Max(S)
<1> DEFINE Above(x) == {y \in S : y > x}
           T == {Above(x) : x \in S}
           R == StrictSubsetOrdering(S)
<1>1. IsWellFoundedOn(R, FiniteSubsetsOf(S))
  BY FS_StrictSubsetOrderingWellFounded
<1>2. T \subseteq FiniteSubsetsOf(S)
  <2>1. \A x \in S : Above(x) \in SUBSET S /\ IsFiniteSet(Above(x))
    BY FS_Subset
  <2>2. QED BY <2>1 DEF FiniteSubsetsOf
<1>3. T # {} OBVIOUS
<1>4. PICK A \in T : \A B \in T : <<B, A>> \notin R
  BY <1>1, <1>2, <1>3, WFMin
<1>5. PICK x \in S : A = Above(x) OBVIOUS
<1>6. \A y \in S : y <= x
  <2>1. SUFFICES ASSUME NEW y \in S, y > x PROVE FALSE BY SMT
  <2>2. \A z \in S : z \in Nat OBVIOUS
  <2>3. Above(y) \subseteq Above(x)
    <3>1. \A z \in S : z > y => z > x BY <2>1, <2>2
    <3>2. QED BY <3>1
  <2>4. y \in Above(x) /\ y \notin Above(y) BY <2>1, <2>2
  <2>5. <<Above(y), Above(x)>> \in R
    BY <2>3, <2>4 DEF StrictSubsetOrdering
  <2>6. QED BY <2>5, <1>4, <1>5
<1>7. \E m \in S : \A y \in S : m >= y
  <2>1. \A z \in S : z \in Nat OBVIOUS
  <2>2. QED BY <1>6, <2>1
<1>8. Max(S) \in S /\ \A y \in S : Max(S) >= y BY <1>7, Zenon DEF Max
<1>9. QED
  <2>1. \A z \in S : z \in Nat OBVIOUS
  <2>2. QED BY <1>8, <2>1

\* Whatever is read, in whatever order, the buffer keeps its type.
LEMMA ReadFilesType ==
  ASSUME NEW fs \in Directories, NEW info \in RomInfos, NEW S
  PROVE  ReadFiles(fs, info, S) \in RomInfos
<1> DEFINE read == S \cap Written(fs)
           holding(i) == {m \in read : i < fs[m].numBanks}
<1>1. /\ read \subseteq Names
      /\ \A m \in read : fs[m] \in Files
  BY DEF Written, Present, Directories
<1>2. ASSUME NEW U, U \subseteq read, U # {} PROVE Max(U) \in U
  BY <1>1, <1>2, NamesAssumption, FS_Subset, MaxProperty
<1>3. CASE read = {} BY <1>3 DEF ReadFiles
<1>4. CASE read # {}
  <2> DEFINE header == fs[Max(read)].numBanks
             bank(i) == IF holding(i) = {} THEN info.banks[i]
                        ELSE fs[Max(holding(i))].banks[i]
  <2>1. header \in 0..MaxBanksPerRom BY <1>1, <1>2, <1>4 DEF Files
  <2>2. ASSUME NEW i \in 0..MaxBanksPerRom - 1 PROVE bank(i) \in Banks
    <3>1. CASE holding(i) = {} BY <3>1 DEF RomInfos
    <3>2. CASE holding(i) # {}
      <4>1. Max(holding(i)) \in read BY <3>2, <1>2
      <4>2. QED BY <3>2, <4>1, <1>1 DEF Files
    <3>3. QED BY <3>1, <3>2
  <2>3. ReadFiles(fs, info, S) =
          [numBanks |-> header, banks |-> [i \in 0..MaxBanksPerRom - 1 |-> bank(i)]]
    BY <1>4 DEF ReadFiles
  <2> HIDE DEF header, bank
  <2>4. QED BY <2>1, <2>2, <2>3 DEF RomInfos
<1>5. QED BY <1>3, <1>4

\* A file that is there is what the buffer holds once it has been read last.
LEMMA ReadLast ==
  ASSUME NEW fs \in Directories, NEW info \in RomInfos, NEW S,
         NEW n \in Written(fs), n \in S, \A m \in S \cap Names : m <= n
  PROVE  /\ ReadFiles(fs, info, S).numBanks = fs[n].numBanks
         /\ \A i \in 0..fs[n].numBanks - 1 :
              ReadFiles(fs, info, S).banks[i] = fs[n].banks[i]
<1> DEFINE read == S \cap Written(fs)
           holding(i) == {m \in read : i < fs[m].numBanks}
<1>1. /\ read \subseteq Names /\ n \in read /\ Names \subseteq Nat
      /\ \A m \in read : fs[m] \in Files /\ m <= n /\ m \in Nat
  BY NamesAssumption DEF Written, Present, Directories
<1>2. ASSUME NEW U, U \subseteq read, n \in U PROVE Max(U) = n
  <2>1. Max(U) \in U /\ \A y \in U : y <= Max(U)
    BY <1>1, <1>2, NamesAssumption, FS_Subset, MaxProperty
  <2>2. QED BY <2>1, <1>1, <1>2
<1>3. ASSUME NEW i \in 0..fs[n].numBanks - 1
      PROVE  i \in 0..MaxBanksPerRom - 1 /\ Max(holding(i)) = n /\ holding(i) # {}
  <2>1. fs[n].numBanks \in 0..MaxBanksPerRom BY <1>1 DEF Files
  <2>2. n \in holding(i) BY <1>1, <2>1
  <2>3. Max(holding(i)) = n BY <1>2, <2>2
  <2>4. QED BY <2>1, <2>2, <2>3, SizesAssumption
<1>4. Max(read) = n BY <1>1, <1>2
<1>5. read # {} BY <1>1
<1> DEFINE bank(i) == IF holding(i) = {} THEN info.banks[i]
                      ELSE fs[Max(holding(i))].banks[i]
<1>6. ReadFiles(fs, info, S) =
        [numBanks |-> fs[Max(read)].numBanks,
         banks |-> [i \in 0..MaxBanksPerRom - 1 |-> bank(i)]]
  BY <1>5 DEF ReadFiles
<1>7. \A i \in 0..fs[n].numBanks - 1 : bank(i) = fs[n].banks[i] BY <1>3
<1> HIDE DEF bank, holding
<1>8. QED BY <1>3, <1>4, <1>6, <1>7

\* So RomStorage_init counts for a file exactly the banks the file names.
LEMMA HeaderOfWritten ==
  ASSUME NEW fs \in Directories, NEW info \in RomInfos, NEW n \in Written(fs)
  PROVE  BanksOf(HeaderAt(fs, info, n)) = BanksOf(fs[n])
<1> DEFINE S == {m \in Names : m <= n}
<1>1. n \in S /\ n \in Names BY NamesAssumption DEF Written, Present
<1>2. \A m \in S \cap Names : m <= n OBVIOUS
<1> HIDE DEF S
<1>3. /\ ReadFiles(fs, info, S).numBanks = fs[n].numBanks
      /\ \A i \in 0..fs[n].numBanks - 1 :
           ReadFiles(fs, info, S).banks[i] = fs[n].banks[i]
  BY <1>1, <1>2, ReadLast
<1>4. HeaderAt(fs, info, n) = ReadFiles(fs, info, S) BY DEF HeaderAt, S
<1>5. QED BY <1>3, <1>4 DEF BanksOf

\* The index RomStorage_init builds has the right type and covers every file.
LEMMA IndexType ==
  ASSUME NEW fs \in Directories, NEW info \in RomInfos
  PROVE  /\ UsedFlags(fs, info) \subseteq Banks
         /\ UsedCount(fs, info) \in Nat
         /\ Cardinality(Present(fs)) \in Nat
         /\ \A n \in Written(fs) : BanksOf(fs[n]) \subseteq UsedFlags(fs, info)
<1>1. \A n \in Present(fs) : HeaderAt(fs, info, n) \in RomInfos
  BY ReadFilesType DEF HeaderAt
<1>2. UsedFlags(fs, info) \subseteq Banks
  <2>1. ASSUME NEW n \in Present(fs) PROVE BanksOf(HeaderAt(fs, info, n)) \subseteq Banks
    BY <1>1, SizesAssumption DEF BanksOf, RomInfos
  <2>2. QED BY <2>1 DEF UsedFlags
<1>3. IsFiniteSet(Present(fs)) BY NamesAssumption, FS_Subset DEF Present
<1>4. UsedCount(fs, info) \in Nat
  <2>1. IsFiniteSet(Present(fs) \X (0..MaxBanksPerRom - 1))
    <3>1. 0 \in Int /\ MaxBanksPerRom - 1 \in Int BY SizesAssumption
    <3>2. IsFiniteSet(0..MaxBanksPerRom - 1) BY <3>1, FS_Interval
    <3>3. QED BY <1>3, <3>2, FS_Product
  <2>2. QED BY <2>1, FS_Subset, FS_CardinalityType DEF UsedCount
<1>5. \A n \in Written(fs) : BanksOf(fs[n]) \subseteq UsedFlags(fs, info)
  BY HeaderOfWritten DEF UsedFlags, Written
<1>6. QED BY <1>2, <1>3, <1>4, <1>5, FS_CardinalityType

-----------------------------------------------------------------------------
\* The type invariant.

(***************************************************************************)
(* TypeOK is not inductive alone: the data of a chunk has the type of data *)
(* only because the host that sends chunks has announced an image, and a   *)
(* game stores its save under a name only because it has been loaded.      *)
(***************************************************************************)
TypeInv ==
  /\ TypeOK
  /\ romTransferActive \/ pc \in {"create", "write"} => upload \in Images
  /\ pc = "game" => loadedName \in Names

LEMMA TypeInit == Init => TypeInv
<1> SUFFICES ASSUME Init PROVE TypeInv OBVIOUS
<1>1. 0 \in Banks /\ 0 \in 0..MaxBanksPerRom BY SizesAssumption DEF Banks
<1>2. ZeroInfo \in RomInfos BY <1>1 DEF ZeroInfo, RomInfos
<1>3. flash \in [Banks -> BankContents] /\ bankBuffer \in BankContents
  BY DEF Init, ErasedBank, ZeroBuffer, BankContents
<1>4. QED BY <1>2, <1>3 DEF Init, TypeInv, TypeOK, Pcs

\* Starting an upload: the banks handed out are banks of the store.
LEMMA TypeStart ==
  ASSUME TypeInv, NEW num_banks \in RomSizes, NEW name \in Names, NEW img \in Images,
         StartNewRomTransfer(num_banks, name, img)
  PROVE  TypeInv'
<1> USE DEF StartNewRomTransfer, TypeInv, TypeOK, HostCommand, gameVars, noInitVars
<1>1. PICK alloc \in [0..num_banks - 1 -> FreeBanks] :
        /\ romInfo' = [numBanks |-> num_banks,
                       banks |-> [i \in 0..MaxBanksPerRom - 1 |->
                         IF i < num_banks THEN alloc[i] ELSE romInfo.banks[i]]]
        /\ usedBanksFlags' = usedBanksFlags \cup {alloc[i] : i \in 0..num_banks - 1}
        /\ EraseBanks({alloc[i] : i \in 0..num_banks - 1})
  OBVIOUS
<1>2. num_banks \in 0..MaxBanksPerRom BY SizesAssumption
<1>3. romInfo' \in RomInfos
  <2>1. \A i \in 0..MaxBanksPerRom - 1 :
          (IF i < num_banks THEN alloc[i] ELSE romInfo.banks[i]) \in Banks
    BY <1>2, SizesAssumption DEF RomInfos, FreeBanks
  <2>2. QED BY <1>1, <1>2, <2>1 DEF RomInfos
<1>4. usedBanksFlags' \subseteq Banks BY <1>1 DEF FreeBanks
<1>5. flash' \in [Banks -> BankContents]
  BY <1>1 DEF EraseBanks, ErasedBank, BankContents
<1>6. QED BY <1>3, <1>4, <1>5

\* A chunk, the host's image in hand.
LEMMA TypeChunk ==
  ASSUME TypeInv, SendChunk
  PROVE  TypeInv'
<1> USE DEF TypeInv, TypeOK
<1>1. PICK bank \in 0..MaxBanksPerRom - 1, chunk \in Chunks :
        TransferRomChunk(bank, chunk, <<upload, bank>>)
  BY DEF SendChunk
<1>2. <<upload, bank>> \in Data BY <1>1 DEF TransferRomChunk, Data
<1>3. bankBuffer' \in BankContents
  BY <1>1, <1>2 DEF TransferRomChunk, BankContents
<1>4. flash' \in [Banks -> BankContents]
  <2>1. CASE UNCHANGED flash BY <2>1
  <2>2. CASE flash' = [flash EXCEPT ![romInfo.banks[bank]] = Programmed(@, bankBuffer')]
    <3>1. romInfo.banks[bank] \in Banks BY DEF RomInfos
    <3>2. Programmed(flash[romInfo.banks[bank]], bankBuffer') \in BankContents
      BY <1>3 DEF Programmed, BankContents
    <3>3. QED BY <2>2, <3>1, <3>2
  <2>3. QED BY <1>1, <2>1, <2>2 DEF TransferRomChunk
<1>5. pc' \in {pc, "create", "idle"} /\ (pc' # "write") /\ lastChunk' \in {Unset} \cup Chunks
  BY <1>1 DEF TransferRomChunk
<1>6. upload \in Images BY <1>1 DEF TransferRomChunk
<1>7. QED
  BY <1>1, <1>3, <1>4, <1>5, <1>6 DEF TransferRomChunk, indexVars, gameVars, noInitVars, Pcs

\* A rebuilt index has the right type.
LEMMA TypeIndex ==
  ASSUME NEW fs \in Directories, NEW info \in RomInfos
  PROVE  /\ UsedFlags(fs, info) \subseteq Banks
         /\ UsedCount(fs, info) \in Nat
         /\ Cardinality(Present(fs)) \in Nat
         /\ ReadFiles(fs, info, Names) \in RomInfos
BY IndexType, ReadFilesType

LEMMA TypeStep == TypeInv /\ [Next]_vars => TypeInv'
<1> SUFFICES ASSUME TypeInv, [Next]_vars PROVE TypeInv' OBVIOUS
<1> USE DEF TypeInv, TypeOK
<1>f. files \in Directories BY DEF Directories
<1>1. CASE StartCommand
  <2>1. PICK num_banks \in RomSizes, name \in Names :
          \/ \E img \in Images : StartNewRomTransfer(num_banks, name, img)
          \/ StartExistingName(num_banks, name)
          \/ StartOverrun(num_banks, name)
    BY <1>1 DEF StartCommand
  <2>2. CASE \E img \in Images : StartNewRomTransfer(num_banks, name, img)
    BY <2>2, TypeStart
  <2>3. CASE StartExistingName(num_banks, name)
    BY <2>3 DEF StartExistingName, flashVars, indexVars, transferVars, gameVars, noInitVars
  <2>4. CASE StartOverrun(num_banks, name)
    BY <2>4 DEF StartOverrun, flashVars, indexVars, transferVars, gameVars, noInitVars, Pcs
  <2>5. QED BY <2>1, <2>2, <2>3, <2>4
<1>2. CASE SendChunk BY <1>2, TypeChunk
<1>3. CASE CreateRomFile
  BY <1>3 DEF CreateRomFile, indexVars, transferVars, gameVars, noInitVars, Pcs
<1>4. CASE CreateRomFileFails \/ WriteRomFileFails
  BY <1>4 DEF CreateRomFileFails, WriteRomFileFails, flashVars, indexVars, transferVars,
     gameVars, noInitVars, Pcs
<1>5. CASE WriteRomFile
  <2>1. files' \in Directories
    BY <1>5, <1>f DEF WriteRomFile, RomInfos, Files, Directories
  <2>2. QED
    BY <1>5, <2>1, TypeIndex DEF WriteRomFile, RomStorage_init, Directories, gameVars,
       noInitVars, Pcs
<1>i. \A n : LoadRomInfo(n) => romInfo' \in RomInfos
  BY <1>f, ReadFilesType DEF LoadRomInfo
<1>6. CASE RomCommand
  <2>1. PICK rom \in 0..MaxRoms - 1 :
          RequestRomInfo(rom) \/ DeleteRom(rom) \/ StartRamTransfer(rom)
    BY <1>6 DEF RomCommand
  <2>2. CASE RequestRomInfo(rom)
    BY <1>i, <2>2 DEF RequestRomInfo, flashVars, transferVars, gameVars, noInitVars
  <2>3. CASE DeleteRom(rom)
    BY <1>i, <2>3 DEF DeleteRom, HostCommand, transferVars, noInitVars, Pcs
  <2>4. CASE StartRamTransfer(rom)
    BY <1>i, <2>4 DEF StartRamTransfer, transferVars
  <2>5. QED BY <2>1, <2>2, <2>3, <2>4
<1>7. CASE RemoveRomFile
  <2>1. files' \in Directories BY <1>7, <1>f DEF RemoveRomFile, Directories
  <2>2. QED
    BY <1>7, <2>1, TypeIndex DEF RemoveRomFile, RomStorage_init, transferVars, gameVars,
       noInitVars, Directories, Pcs
<1>g. CASE StepOfGame
  <2>1. CASE GameBoyAppears
    BY <2>1 DEF GameBoyAppears, flashVars, indexVars, transferVars, noInitVars
  <2>2. CASE \E rom \in 0..MaxRoms - 1 : ChooseGame(rom)
    BY <2>2 DEF ChooseGame, flashVars, indexVars, transferVars, Pcs
  <2>3. CASE LoadRom
    BY <1>i, <2>3 DEF LoadRom, flashVars, transferVars, Pcs
  <2>4. CASE LoadRomFails
    BY <2>4 DEF LoadRomFails, flashVars, indexVars, transferVars, Pcs
  <2>5. CASE GameStoresSave
    <3>1. loadedName \in Names BY <2>5 DEF GameStoresSave
    <3> QED BY <2>5, <3>1 DEF GameStoresSave, indexVars, transferVars, gameVars, noInitVars
  <2>6. QED BY <1>g, <2>1, <2>2, <2>3, <2>4, <2>5 DEF StepOfGame
<1>b. CASE StepOfStart
  <2>1. CASE StoreLastGame
    BY <2>1 DEF StoreLastGame, indexVars, transferVars, Pcs
  <2>2. CASE NothingToStore
    BY <2>2 DEF NothingToStore, flashVars, indexVars, transferVars, gameVars, noInitVars, Pcs
  <2>3. QED BY <1>b, <2>1, <2>2 DEF StepOfStart
<1>8. CASE Reset
  <2>1. files' \in Directories /\ saves' \subseteq Names /\ strays' \subseteq Names
    BY <1>8, <1>f DEF Reset, Directories
  <2>2. ZeroInfo \in RomInfos /\ ZeroBuffer \in BankContents
    BY SizesAssumption DEF ZeroInfo, RomInfos, Banks, ZeroBuffer, BankContents
  <2>3. QED
    BY <1>8, <2>1, <2>2, TypeIndex DEF Reset, RomStorage_init, Directories, Pcs, noInitVars
<1>9. CASE UNCHANGED vars
  BY <1>9 DEF vars, flashVars, indexVars, transferVars, gameVars, noInitVars
<1>10. QED
  BY <1>1, <1>2, <1>3, <1>4, <1>5, <1>6, <1>7, <1>g, <1>b, <1>8, <1>9
     DEF Next, StepOfUpload

(***************************************************************************)
(* The variables of RomStorage.c keep their types under any sequence of    *)
(* host commands, errors and resets; in particular every bank it ever      *)
(* erases, programs or hands to a game lies inside the ROM store, as long  *)
(* as the bank search does not run past its bit map.                       *)
(***************************************************************************)
THEOREM TypeCorrect == Spec => []TypeOK
<1>1. TypeInv => TypeOK BY DEF TypeInv
<1>2. QED BY <1>1, TypeInit, TypeStep, PTL DEF Spec

-----------------------------------------------------------------------------
\* Stored ROMs stay whole.

\* The number of banks of the running upload that are in flash.
NextBank == IF lastBank = Unset THEN 0
            ELSE IF lastChunk = Unset THEN lastBank + 1 ELSE lastBank

\* The banks of the running upload are its own, ...
TransferOwnsBanks ==
  /\ BanksOf(romInfo) \subseteq usedBanksFlags
  /\ \A i, j \in 0..romInfo.numBanks - 1 : romInfo.banks[i] = romInfo.banks[j] => i = j
  /\ \A n \in Written(files) : BanksOf(files[n]) \cap BanksOf(romInfo) = {}

\* ... the finished ones hold their part of the image, the others are erased, ...
TransferOnFlash ==
  \A i \in 0..romInfo.numBanks - 1 :
    flash[romInfo.banks[i]] =
      IF i < NextBank THEN ImageBank(upload, i) ELSE ErasedBank

\* ... and the buffer holds the first chunks of the next one.
TransferInBuffer ==
  lastChunk # Unset =>
    /\ lastBank # Unset
    /\ \A c \in 0..lastChunk : bankBuffer[c] = <<upload, lastBank>>

TransferInv ==
  /\ fileName \in Names
  /\ TransferOwnsBanks
  /\ TransferOnFlash
  /\ TransferInBuffer
  /\ pc = "idle" => NextBank < romInfo.numBanks
  /\ pc \in {"create", "write"} => NextBank = romInfo.numBanks

FlagsCoverFiles == \A n \in Written(files) : BanksOf(files[n]) \subseteq usedBanksFlags

(***************************************************************************)
(* StoredRomsIntact is not inductive: a step that programs or records a    *)
(* bank keeps it only if the upload owns that bank, and has filled it.     *)
(***************************************************************************)
SafeInv ==
  /\ TypeInv
  /\ StoredRomsIntact
  /\ BanksNotShared
  /\ FlagsCoverFiles
  /\ romTransferActive => TransferInv
  /\ pc \in {"create", "write"} => romTransferActive
  /\ pc \in {"remove", "boot"} => ~romTransferActive
  /\ pc = "write" => files[fileName] = EmptyFile

LEMMA SafeInit == Init => SafeInv
<1> SUFFICES ASSUME Init PROVE SafeInv OBVIOUS
<1>1. Written(files) = {} BY DEF Init, Written, Present
<1>2. TypeInv BY TypeInit
<1>3. QED
  BY <1>1, <1>2 DEF Init, SafeInv, StoredRomsIntact, BanksNotShared, FlagsCoverFiles

\* What holds of the files holds of any directory with fewer of them, over the
\* same flash and a rebuilt index, when no upload runs.
LEMMA SafeRebuild ==
  ASSUME SafeInv, TypeInv', NEW info \in RomInfos,
         UNCHANGED flash,
         files' \in Directories,
         \A n \in Written(files') : n \in Written(files) /\ files'[n] = files[n],
         RomStorage_init(files', info),
         ~romTransferActive', pc' \in {"idle", "boot"}
  PROVE  SafeInv'
<1>1. StoredRomsIntact' /\ BanksNotShared'
  BY DEF SafeInv, StoredRomsIntact, Intact, BanksNotShared
<1>2. FlagsCoverFiles'
  BY IndexType DEF FlagsCoverFiles, RomStorage_init
<1>3. QED BY <1>1, <1>2 DEF SafeInv

\* A new upload takes banks that belong to nobody and erases only those.
LEMMA SafeStart ==
  ASSUME SafeInv, TypeInv', 0 \notin RomSizes,
         NEW num_banks \in RomSizes, NEW name \in Names, NEW img \in Images,
         StartNewRomTransfer(num_banks, name, img)
  PROVE  SafeInv'
<1> USE DEF SafeInv
<1>1. PICK alloc \in [0..num_banks - 1 -> FreeBanks] :
        /\ IsFirstFit(alloc, num_banks)
        /\ romInfo' = [numBanks |-> num_banks,
                       banks |-> [i \in 0..MaxBanksPerRom - 1 |->
                         IF i < num_banks THEN alloc[i] ELSE romInfo.banks[i]]]
        /\ usedBanksFlags' = usedBanksFlags \cup {alloc[i] : i \in 0..num_banks - 1}
        /\ EraseBanks({alloc[i] : i \in 0..num_banks - 1})
  BY DEF StartNewRomTransfer
<1> DEFINE new == {alloc[i] : i \in 0..num_banks - 1}
<1>2. num_banks \in 1..MaxBanksPerRom BY SizesAssumption
<1>3. /\ files' = files /\ fileName' = name /\ upload' = img /\ romTransferActive'
      /\ lastBank' = Unset /\ lastChunk' = Unset /\ pc' = "idle"
  BY DEF StartNewRomTransfer, HostCommand
<1>4. new \cap usedBanksFlags = {} /\ new \subseteq Banks
  BY DEF FreeBanks
<1>5. \A b \in Banks : flash'[b] = IF b \in new THEN ErasedBank ELSE flash[b]
  BY <1>1 DEF EraseBanks
<1>6. \A i \in 0..num_banks - 1 : romInfo'.banks[i] = alloc[i] /\ alloc[i] \in new
  <2>1. \A i \in 0..num_banks - 1 : i \in 0..MaxBanksPerRom - 1 /\ i < num_banks
    BY <1>2, SizesAssumption
  <2>2. QED BY <1>1, <2>1
<1>7. romInfo'.numBanks = num_banks /\ BanksOf(romInfo)' = new
  BY <1>1, <1>6 DEF BanksOf
<1>8. \A n \in Written(files) : \A i \in 0..files[n].numBanks - 1 :
        /\ files[n].banks[i] \in Banks
        /\ files[n].banks[i] \in usedBanksFlags
  BY DEF FlagsCoverFiles, BanksOf, TypeInv, TypeOK
<1>9. StoredRomsIntact'
  BY <1>3, <1>4, <1>5, <1>8 DEF StoredRomsIntact, Intact
<1>10. BanksNotShared' BY <1>3 DEF BanksNotShared
<1>11. FlagsCoverFiles' BY <1>1, <1>3 DEF FlagsCoverFiles
<1>12. TransferOwnsBanks'
  <2>1. \A i, j \in 0..num_banks - 1 : alloc[i] = alloc[j] => i = j
    <3>1. \A i \in 0..num_banks - 1 : alloc[i] \in Nat BY DEF FreeBanks, Banks
    <3>2. \A i, j \in 0..num_banks - 1 : i < j => alloc[i] < alloc[j]
      BY <1>1 DEF IsFirstFit
    <3>3. \A i, j \in 0..num_banks - 1 : i < j \/ j < i \/ i = j BY <1>2
    <3>4. \A i, j \in 0..num_banks - 1 : i < j => alloc[i] # alloc[j]
      BY <3>1, <3>2
    <3>5. QED BY <3>3, <3>4, Zenon
  <2>2. \A n \in Written(files) : BanksOf(files[n]) \cap new = {}
    BY <1>4 DEF FlagsCoverFiles
  <2>3. new \subseteq usedBanksFlags' BY <1>1
  <2>4. QED BY <1>3, <1>6, <1>7, <2>1, <2>2, <2>3 DEF TransferOwnsBanks
<1>13. NextBank' = 0 BY <1>3 DEF NextBank
<1>14. TransferOnFlash'
  <2>1. \A i \in 0..num_banks - 1 : ~(i < 0) /\ flash'[alloc[i]] = ErasedBank
    BY <1>2, <1>4, <1>5
  <2>2. QED BY <1>6, <1>7, <1>13, <2>1 DEF TransferOnFlash
<1>15. TransferInBuffer' BY <1>3 DEF TransferInBuffer
<1>16. TransferInv'
  BY <1>2, <1>3, <1>7, <1>12, <1>13, <1>14, <1>15 DEF TransferInv
<1>17. QED BY <1>3, <1>9, <1>10, <1>11, <1>16

\* A chunk goes to the buffer; the last one of a bank puts the bank where the
\* upload has its own erased space.
LEMMA SafeChunk ==
  ASSUME SafeInv, TypeInv', SendChunk
  PROVE  SafeInv'
<1> USE DEF SafeInv
<1>1. PICK bank \in 0..MaxBanksPerRom - 1, chunk \in Chunks :
        TransferRomChunk(bank, chunk, <<upload, bank>>)
  BY DEF SendChunk
<1> USE <1>1 DEF TransferRomChunk
<1>2. /\ files' = files /\ fileName' = fileName /\ upload' = upload /\ pc = "idle"
      /\ romInfo' = romInfo /\ usedBanksFlags' = usedBanksFlags
      /\ romTransferActive /\ romTransferActive' /\ lastBank' = bank
  BY DEF indexVars
<1>3. TransferInv /\ TypeOK BY DEF TypeInv
<1> DEFINE n == romInfo.numBanks
           b == romInfo.banks[bank]
<1>4. n \in 0..MaxBanksPerRom /\ MaxBanksPerRom \in Nat /\ ChunksPerBank \in Nat \ {0}
  BY <1>3, SizesAssumption DEF TypeOK, RomInfos
<1>5. NextBank = bank
  <2>1. lastBank \in {Unset} \cup 0..MaxBanksPerRom - 1 BY <1>3 DEF TypeOK
  <2>2. QED BY <2>1 DEF InOrder, NextBank
<1>6. bank \in 0..n - 1 BY <1>2, <1>3, <1>4, <1>5 DEF TransferInv
<1>7. b \in Banks BY <1>3 DEF TypeOK, RomInfos
<1>8. \A c \in 0..chunk : bankBuffer'[c] = <<upload, bank>>
  <2>1. bankBuffer' = [bankBuffer EXCEPT ![chunk] = <<upload, bank>>]
        /\ bankBuffer \in BankContents
    BY <1>3 DEF TypeOK
  <2>2. bankBuffer'[chunk] = <<upload, bank>> BY <2>1 DEF BankContents
  <2>3. CASE lastChunk = Unset
    <3>1. chunk = 0 BY <2>3, <1>4 DEF InOrder, Chunks
    <3>2. QED BY <2>2, <3>1
  <2>4. CASE lastChunk # Unset
    <3>1. lastChunk \in Chunks /\ chunk = lastChunk + 1 /\ lastBank = bank
      BY <2>4, <1>3 DEF InOrder, TypeOK, TransferInv, TransferInBuffer
    <3>2. \A c \in 0..lastChunk : bankBuffer[c] = <<upload, bank>>
      BY <2>4, <1>3, <3>1 DEF TransferInv, TransferInBuffer
    <3>3. \A c \in 0..chunk : c # chunk => c \in 0..lastChunk /\ c \in Chunks
      BY <3>1, <1>4 DEF Chunks
    <3>4. \A c \in Chunks : c # chunk => bankBuffer'[c] = bankBuffer[c]
      BY <2>1 DEF BankContents
    <3>5. QED BY <2>2, <3>2, <3>3, <3>4
  <2>5. QED BY <2>3, <2>4
<1>9. FlagsCoverFiles' /\ BanksNotShared' /\ TransferOwnsBanks'
  BY <1>2, <1>3 DEF FlagsCoverFiles, BanksNotShared, TransferInv, TransferOwnsBanks
<1>10. CASE chunk # ChunksPerBank - 1
  <2>1. lastChunk' = chunk /\ flash' = flash /\ pc' = pc BY <1>10
  <2>2. NextBank' = bank /\ lastChunk' # Unset /\ lastBank' # Unset
    BY <2>1, <1>2, <1>4 DEF NextBank, Chunks
  <2>3. StoredRomsIntact' BY <1>2, <2>1 DEF StoredRomsIntact, Intact
  <2>4. TransferOnFlash'
    BY <1>2, <1>3, <1>5, <2>1, <2>2 DEF TransferInv, TransferOnFlash
  <2>5. TransferInBuffer' BY <1>2, <1>8, <2>1, <2>2 DEF TransferInBuffer
  <2>6. TransferInv'
    BY <1>2, <1>3, <1>5, <1>9, <2>1, <2>2, <2>4, <2>5 DEF TransferInv
  <2>7. QED BY <1>2, <1>9, <2>1, <2>3, <2>6
<1>11. CASE chunk = ChunksPerBank - 1
  <2>1. /\ lastChunk' = Unset
        /\ flash' = [flash EXCEPT ![b] = Programmed(flash[b], bankBuffer')]
        /\ pc' = IF bank = n - 1 THEN "create" ELSE "idle"
    BY <1>11
  <2>2. NextBank' = bank + 1 BY <1>2, <2>1 DEF NextBank
  <2>3. flash[b] = ErasedBank
    BY <1>3, <1>5, <1>6 DEF TransferInv, TransferOnFlash
  <2>4. Programmed(ErasedBank, bankBuffer') = ImageBank(upload, bank)
    <3>1. \A c \in Chunks : bankBuffer'[c] = <<upload, bank>>
      BY <1>8, <1>11 DEF Chunks
    <3>2. QED BY <3>1, Zenon DEF Programmed, ErasedBank, ImageBank
  <2>5. /\ flash'[b] = ImageBank(upload, bank)
        /\ \A x \in Banks : x # b => flash'[x] = flash[x]
    BY <1>3, <1>7, <2>1, <2>3, <2>4 DEF TypeOK
  <2>6. b \in BanksOf(romInfo) BY <1>6 DEF BanksOf
  <2>7. StoredRomsIntact'
    <3>1. ASSUME NEW m \in Written(files), NEW i \in 0..files[m].numBanks - 1
          PROVE  files[m].banks[i] \in Banks /\ files[m].banks[i] # b
      BY <1>3, <2>6 DEF TypeOK, TransferInv, TransferOwnsBanks, BanksOf,
         FlagsCoverFiles
    <3>2. QED BY <1>2, <2>5, <3>1 DEF StoredRomsIntact, Intact
  <2>8. TransferOnFlash'
    <3>1. ASSUME NEW i \in 0..n - 1
          PROVE  flash'[romInfo.banks[i]] =
                   IF i < bank + 1 THEN ImageBank(upload, i) ELSE ErasedBank
      <4>1. CASE i = bank BY <4>1, <2>5, <1>4, <1>6
      <4>2. CASE i # bank
        <5>1. romInfo.banks[i] \in Banks BY <1>3, <1>4 DEF TypeOK, RomInfos
        <5>2. romInfo.banks[i] # b
          BY <4>2, <1>3, <1>6 DEF TransferInv, TransferOwnsBanks
        <5>3. flash'[romInfo.banks[i]] =
                IF i < bank THEN ImageBank(upload, i) ELSE ErasedBank
          BY <1>3, <1>5, <2>5, <5>1, <5>2 DEF TransferInv, TransferOnFlash
        <5>4. i < bank <=> i < bank + 1 BY <4>2, <1>4
        <5>5. QED BY <5>3, <5>4
      <4>3. QED BY <4>1, <4>2
    <3>2. QED BY <1>2, <2>2, <3>1 DEF TransferOnFlash
  <2>9. TransferInBuffer' BY <2>1 DEF TransferInBuffer
  <2>10. TransferInv'
    <3>1. pc' = "idle" => NextBank' < n BY <2>1, <2>2, <1>4, <1>6
    <3>2. pc' \in {"create", "write"} => NextBank' = n BY <2>1, <2>2, <1>4, <1>6
    <3>3. QED BY <1>2, <1>3, <1>9, <2>8, <2>9, <3>1, <3>2 DEF TransferInv
  <2>11. QED BY <1>2, <1>9, <2>1, <2>7, <2>10
<1>12. QED BY <1>10, <1>11

\* The end of an upload: the file names what the flash holds.
LEMMA SafeWrite ==
  ASSUME SafeInv, TypeInv', WriteRomFile
  PROVE  SafeInv'
<1> USE DEF SafeInv
<1>1. /\ TransferInv /\ TypeOK /\ files[fileName] = EmptyFile /\ upload \in Images
      /\ NextBank = romInfo.numBanks /\ fileName \in Names
  BY DEF WriteRomFile, TransferInv, TypeInv
<1> DEFINE new == [numBanks |-> romInfo.numBanks, banks |-> romInfo.banks,
                   image |-> upload]
<1>2. /\ files' = [files EXCEPT ![fileName] = new] /\ flash' = flash
      /\ RomStorage_init(files', romInfo) /\ ~romTransferActive' /\ pc' = "idle"
      /\ fileName' = fileName
  BY DEF WriteRomFile
<1>3. files \in Directories /\ romInfo \in RomInfos BY <1>1 DEF TypeOK, Directories
<1>4. files' \in Directories BY DEF TypeInv, TypeOK, Directories
<1>5. new \in Files BY <1>1, <1>3 DEF RomInfos, Files
<1>6. /\ Written(files') = Written(files) \cup {fileName}
      /\ files'[fileName] = new /\ fileName \notin Written(files)
      /\ \A n \in Written(files) : files'[n] = files[n]
  <2>1. new # NoFile /\ new # EmptyFile BY <1>5, ValuesAssumption
  <2> HIDE DEF new
  <2>2. /\ files'[fileName] = new
        /\ \A n \in Names : n # fileName => files'[n] = files[n]
    BY <1>1, <1>2, <1>3 DEF Directories
  <2>3. QED BY <1>1, <2>1, <2>2 DEF Written, Present
<1>7. StoredRomsIntact'
  <2>1. \A i \in 0..romInfo.numBanks - 1 :
          flash[romInfo.banks[i]] = ImageBank(upload, i)
    <3>1. \A i \in 0..romInfo.numBanks - 1 : i < NextBank BY <1>1, <1>3 DEF RomInfos
    <3>2. QED BY <1>1, <3>1 DEF TransferInv, TransferOnFlash
  <2>2. \A i \in 0..files'[fileName].numBanks - 1 :
          flash'[files'[fileName].banks[i]] = ImageBank(files'[fileName].image, i)
    BY <1>2, <1>6, <2>1
  <2>3. \A n \in Written(files) : \A i \in 0..files'[n].numBanks - 1 :
          flash'[files'[n].banks[i]] = ImageBank(files'[n].image, i)
    BY <1>2, <1>6 DEF StoredRomsIntact, Intact
  <2>4. QED BY <1>6, <2>2, <2>3 DEF StoredRomsIntact, Intact
<1>8. BanksNotShared'
  <2>1. SUFFICES ASSUME NEW m \in Written(files'), NEW n \in Written(files'),
                        NEW i \in 0..files'[m].numBanks - 1,
                        NEW j \in 0..files'[n].numBanks - 1,
                        files'[m].banks[i] = files'[n].banks[j]
                 PROVE  m = n /\ i = j
    BY DEF BanksNotShared
  <2>2. \A k \in 0..romInfo.numBanks - 1 : romInfo.banks[k] \in BanksOf(romInfo)
    BY DEF BanksOf
  <2>3. \A k \in Written(files) : \A l \in 0..files[k].numBanks - 1 :
          files[k].banks[l] \in BanksOf(files[k])
    BY DEF BanksOf
  <2>4. CASE m \in Written(files) /\ n \in Written(files)
    BY <1>6, <2>1, <2>4 DEF BanksNotShared
  <2>5. CASE m = fileName /\ n = fileName
    BY <1>1, <1>6, <2>1, <2>5 DEF TransferInv, TransferOwnsBanks
  <2>6. CASE m = fileName /\ n \in Written(files)
    BY <1>1, <1>6, <2>1, <2>2, <2>3, <2>6 DEF TransferInv, TransferOwnsBanks
  <2>7. CASE m \in Written(files) /\ n = fileName
    BY <1>1, <1>6, <2>1, <2>2, <2>3, <2>7 DEF TransferInv, TransferOwnsBanks
  <2>8. QED BY <1>6, <2>4, <2>5, <2>6, <2>7
<1>9. FlagsCoverFiles'
  BY <1>2, <1>3, <1>4, IndexType DEF FlagsCoverFiles, RomStorage_init
<1>10. QED BY <1>2, <1>7, <1>8, <1>9

LEMMA SafeStep ==
  ASSUME ~HostInterleaves, 0 \notin RomSizes
  PROVE  SafeInv /\ [Next]_vars => SafeInv'
<1> SUFFICES ASSUME SafeInv, [Next]_vars PROVE SafeInv' OBVIOUS
<1>t. TypeInv' /\ TypeInv /\ files \in Directories /\ romInfo \in RomInfos
  BY TypeStep DEF SafeInv, TypeInv, TypeOK, Directories
<1>d. files' \in Directories BY <1>t DEF TypeInv, TypeOK, Directories
\* Steps that leave the flash, the directory and the bit map as they are.
<1>s. ASSUME UNCHANGED <<flash, files, usedBanksFlags>>,
             romTransferActive' => TransferInv',
             pc' \in {"create", "write"} => romTransferActive',
             pc' \in {"remove", "boot"} => ~romTransferActive',
             pc' # "write"
      PROVE  SafeInv'
  BY <1>t, <1>s DEF SafeInv, StoredRomsIntact, Intact, BanksNotShared, FlagsCoverFiles
<1>k. ASSUME UNCHANGED <<flash, files, indexVars, transferVars, fileName>>,
             romTransferActive, pc' \notin {"idle", "create", "write"} \/ pc' = pc
      PROVE  TransferInv'
  BY <1>k DEF SafeInv, indexVars, transferVars, TransferInv, TransferOwnsBanks,
     TransferOnFlash, TransferInBuffer, NextBank
<1>1. CASE StartCommand
  <2>1. PICK num_banks \in RomSizes, name \in Names :
          \/ \E img \in Images : StartNewRomTransfer(num_banks, name, img)
          \/ StartExistingName(num_banks, name)
          \/ StartOverrun(num_banks, name)
    BY <1>1 DEF StartCommand
  <2>2. CASE \E img \in Images : StartNewRomTransfer(num_banks, name, img)
    BY <2>2, <1>t, SafeStart
  <2>3. CASE StartExistingName(num_banks, name)
    <3>1. /\ UNCHANGED <<flash, files, indexVars, transferVars, pc>>
          /\ fileName' = name /\ pc = "idle"
      BY <2>3 DEF StartExistingName, HostCommand, flashVars
    <3>2. romTransferActive' => TransferInv'
      BY <3>1 DEF SafeInv, indexVars, transferVars, TransferInv, TransferOwnsBanks,
         TransferOnFlash, TransferInBuffer, NextBank
    <3>3. QED BY <3>1, <3>2, <1>s DEF indexVars, transferVars
  <2>4. CASE StartOverrun(num_banks, name)
    BY <2>4, <1>s, <1>k DEF StartOverrun, flashVars, indexVars, transferVars
  <2>5. QED BY <2>1, <2>2, <2>3, <2>4
<1>2. CASE SendChunk BY <1>2, <1>t, SafeChunk
<1>3. CASE CreateRomFile
  <2>1. /\ UNCHANGED <<flash, indexVars, transferVars, fileName>>
        /\ files' = [files EXCEPT ![fileName] = EmptyFile]
        /\ files[fileName] = NoFile /\ pc = "create" /\ pc' = "write"
    BY <1>3 DEF CreateRomFile
  <2>2. romTransferActive /\ TransferInv /\ fileName \in Names
    BY <2>1 DEF SafeInv, TransferInv
  <2>3. /\ Written(files') = Written(files)
        /\ \A n \in Written(files) : files'[n] = files[n]
        /\ files'[fileName] = EmptyFile
    BY <1>t, <2>1, <2>2 DEF Written, Present, Directories
  <2>4. TransferInv'
    BY <2>1, <2>2, <2>3 DEF TransferInv, indexVars, transferVars, TransferOwnsBanks,
       TransferOnFlash, TransferInBuffer, NextBank
  <2>5. StoredRomsIntact' BY <2>1, <2>3 DEF SafeInv, StoredRomsIntact, Intact
  <2>6. BanksNotShared' BY <2>1, <2>3 DEF SafeInv, BanksNotShared
  <2>7. FlagsCoverFiles' BY <2>1, <2>3 DEF SafeInv, FlagsCoverFiles, indexVars
  <2>8. QED BY <1>t, <2>1, <2>2, <2>3, <2>4, <2>5, <2>6, <2>7 DEF SafeInv, transferVars
<1>4. CASE CreateRomFileFails \/ WriteRomFileFails
  BY <1>4, <1>s, <1>k DEF SafeInv, CreateRomFileFails, WriteRomFileFails,
     flashVars, indexVars, transferVars
<1>5. CASE WriteRomFile BY <1>5, <1>t, SafeWrite
<1>6. CASE RomCommand
  BY <1>6, <1>s DEF RomCommand, RequestRomInfo, DeleteRom, StartRamTransfer, HostCommand,
     flashVars, transferVars
<1>g. CASE StepOfGame
  <2>1. CASE GameBoyAppears
    BY <2>1, <1>s, <1>k DEF GameBoyAppears, flashVars, indexVars, transferVars
  <2>2. CASE \E rom \in 0..MaxRoms - 1 : ChooseGame(rom)
    BY <2>2, <1>s, <1>k DEF ChooseGame, flashVars, indexVars, transferVars
  <2>3. CASE LoadRom
    BY <2>3, <1>s DEF LoadRom, flashVars, transferVars
  <2>4. CASE LoadRomFails
    <3>1. CASE romTransferActive
      <4>1. UNCHANGED <<flash, files, indexVars, transferVars, fileName>> /\ pc' = "hang"
        BY <2>4, <3>1 DEF LoadRomFails, flashVars
      <4> QED BY <3>1, <4>1, <1>s, <1>k DEF indexVars, transferVars
    <3>2. CASE ~romTransferActive
      BY <2>4, <3>2, <1>s DEF LoadRomFails, flashVars, indexVars, transferVars
    <3> QED BY <3>1, <3>2
  <2>5. CASE GameStoresSave
    BY <2>5, <1>s, <1>k DEF GameStoresSave, indexVars, transferVars
  <2>6. QED BY <1>g, <2>1, <2>2, <2>3, <2>4, <2>5 DEF StepOfGame
<1>b. CASE StepOfStart
  <2>1. /\ UNCHANGED <<flash, files, usedBanksFlags, romTransferActive>>
        /\ pc = "boot" /\ pc' \in {"idle", "undefined"}
    BY <1>b DEF StepOfStart, StoreLastGame, NothingToStore, flashVars, indexVars, transferVars
  <2>2. ~romTransferActive' BY <2>1 DEF SafeInv
  <2>3. QED BY <2>1, <2>2, <1>s
<1>7. CASE RemoveRomFile
  <2>1. /\ files' = [files EXCEPT ![fileName] = NoFile] \/ files' = files
        /\ flash' = flash
        /\ RomStorage_init(files', romInfo) /\ pc' = "idle" /\ ~romTransferActive'
    BY <1>7 DEF SafeInv, RemoveRomFile, transferVars
  <2>2. \A n \in Written(files') : n \in Written(files) /\ files'[n] = files[n]
    BY <1>t, <2>1 DEF Written, Present, Directories
  <2>3. QED BY <1>t, <1>d, <2>1, <2>2, SafeRebuild
<1>8. CASE Reset
  <2>1. /\ flash' = flash /\ RomStorage_init(files', ZeroInfo) /\ pc' = "boot"
        /\ ~romTransferActive' /\ (files' = files \/ files' = [n \in Names |-> NoFile])
    BY <1>8 DEF Reset
  <2>2. \A n \in Written(files') : n \in Written(files) /\ files'[n] = files[n]
    BY <2>1 DEF Written, Present
  <2>3. ZeroInfo \in RomInfos BY SizesAssumption DEF ZeroInfo, RomInfos, Banks
  <2>4. QED BY <1>t, <1>d, <2>1, <2>2, <2>3, SafeRebuild
<1>9. CASE UNCHANGED vars
  <2>1. UNCHANGED <<flash, files, indexVars, transferVars, fileName, pc>>
    BY <1>9 DEF vars, flashVars
  <2>2. romTransferActive' => TransferInv' BY <2>1, <1>k DEF transferVars
  <2>3. StoredRomsIntact' BY <2>1 DEF SafeInv, StoredRomsIntact, Intact
  <2>4. BanksNotShared' BY <2>1 DEF SafeInv, BanksNotShared
  <2>5. FlagsCoverFiles' BY <2>1 DEF SafeInv, FlagsCoverFiles, indexVars
  <2>6. QED BY <1>t, <2>1, <2>2, <2>3, <2>4, <2>5 DEF SafeInv, transferVars
<1>10. QED
  BY <1>1, <1>2, <1>3, <1>4, <1>5, <1>6, <1>7, <1>g, <1>b, <1>8, <1>9
     DEF Next, StepOfUpload

(***************************************************************************)
(* For every size of the store: with a host that sends nothing but chunks  *)
(* while an upload is active, though it may start the upload over at any   *)
(* time, and with a power cut or a file system error at any point, a ROM   *)
(* in the directory holds the image that was uploaded for it.              *)
(***************************************************************************)
THEOREM StoredRomsStayIntact ==
  ASSUME ~HostInterleaves, 0 \notin RomSizes
  PROVE  Spec => []StoredRomsIntact
<1>1. SafeInv => StoredRomsIntact BY DEF SafeInv
<1>2. SafeInv /\ [Next]_vars => SafeInv' BY SafeStep
<1>3. QED BY <1>1, <1>2, SafeInit, PTL DEF Spec

\* Under the same conditions no bank ever belongs to two stored ROMs.
THEOREM StoredRomsShareNoBank ==
  ASSUME ~HostInterleaves, 0 \notin RomSizes
  PROVE  Spec => []BanksNotShared
<1>1. SafeInv => BanksNotShared BY DEF SafeInv
<1>2. SafeInv /\ [Next]_vars => SafeInv' BY SafeStep
<1>3. QED BY <1>1, <1>2, SafeInit, PTL DEF Spec

\* And the bit map in RAM marks every bank that a file or the upload uses.
THEOREM BitmapIsComplete ==
  ASSUME ~HostInterleaves, 0 \notin RomSizes
  PROVE  Spec => []BitmapCoversUse
<1>1. SafeInv => BitmapCoversUse
  BY DEF SafeInv, BitmapCoversUse, FlagsCoverFiles, TransferInv, TransferOwnsBanks
<1>2. SafeInv /\ [Next]_vars => SafeInv' BY SafeStep
<1>3. QED BY <1>1, <1>2, SafeInit, PTL DEF Spec

-----------------------------------------------------------------------------
\* The search for banks never runs past the bit map.

\* RomStorage_init counts at least as many banks as it marks.
LEMMA CountCoversFlags ==
  ASSUME NEW fs \in Directories, NEW info \in RomInfos
  PROVE  Cardinality(UsedFlags(fs, info)) <= UsedCount(fs, info)
<1> DEFINE all == Present(fs) \X (0..MaxBanksPerRom - 1)
           pairs == {e \in all : e[2] < HeaderAt(fs, info, e[1]).numBanks}
           f == [e \in pairs |-> HeaderAt(fs, info, e[1]).banks[e[2]]]
<1>1. IsFiniteSet(pairs)
  <2>1. IsFiniteSet(Present(fs)) BY NamesAssumption, FS_Subset DEF Present
  <2>2. 0 \in Int /\ MaxBanksPerRom - 1 \in Int BY SizesAssumption
  <2>3. IsFiniteSet(0..MaxBanksPerRom - 1) BY <2>2, FS_Interval
  <2>4. IsFiniteSet(all) BY <2>1, <2>3, FS_Product
  <2>5. QED BY <2>4, FS_Subset
<1>2. \A n \in Present(fs) : HeaderAt(fs, info, n).numBanks \in 0..MaxBanksPerRom
  BY ReadFilesType DEF HeaderAt, RomInfos
<1>3. f \in Surjection(pairs, UsedFlags(fs, info))
  <2>1. \A e \in pairs : f[e] \in UsedFlags(fs, info)
    <3>1. SUFFICES ASSUME NEW n \in Present(fs), NEW i \in 0..MaxBanksPerRom - 1,
                          i < HeaderAt(fs, info, n).numBanks
                   PROVE  HeaderAt(fs, info, n).banks[i] \in UsedFlags(fs, info)
      OBVIOUS
    <3>2. i \in 0..HeaderAt(fs, info, n).numBanks - 1
      BY <3>1, <1>2, SizesAssumption
    <3>3. QED BY <3>2 DEF UsedFlags, BanksOf
  <2>2. \A b \in UsedFlags(fs, info) : \E e \in pairs : f[e] = b
    <3>1. SUFFICES ASSUME NEW b \in UsedFlags(fs, info) PROVE \E e \in pairs : f[e] = b
      OBVIOUS
    <3>2. PICK n \in Present(fs) : b \in BanksOf(HeaderAt(fs, info, n)) BY DEF UsedFlags
    <3>3. PICK i \in 0..HeaderAt(fs, info, n).numBanks - 1 :
            b = HeaderAt(fs, info, n).banks[i]
      BY <3>2 DEF BanksOf
    <3>4. i \in 0..MaxBanksPerRom - 1 /\ i < HeaderAt(fs, info, n).numBanks
      BY <1>2, SizesAssumption
    <3>5. <<n, i>> \in pairs BY <3>4
    <3>6. QED BY <3>3, <3>5
  <2> HIDE DEF pairs
  <2>3. f \in [pairs -> UsedFlags(fs, info)] BY <2>1
  <2>4. QED BY <2>2, <2>3 DEF Surjection
<1>4. Cardinality(UsedFlags(fs, info)) <= Cardinality(pairs)
  BY <1>1, <1>3, FS_Surjection
<1>5. QED BY <1>4 DEF UsedCount

\* Between two uploads the counter bounds the number of marked banks.
CountInv ==
  /\ TypeInv
  /\ pc # "overrun"
  /\ ~romTransferActive => Cardinality(usedBanksFlags) <= usedBanks

LEMMA CountStep ==
  ASSUME ~HostInterleaves, ~HostRestarts
  PROVE  CountInv /\ [Next]_vars => CountInv'
<1> SUFFICES ASSUME CountInv, [Next]_vars PROVE CountInv' OBVIOUS
<1>t. TypeInv' /\ romInfo \in RomInfos BY TypeStep DEF CountInv, TypeInv, TypeOK
<1>d. files' \in Directories BY <1>t DEF TypeInv, TypeOK, Directories
<1>u. ASSUME UNCHANGED <<usedBanksFlags, usedBanks>>, pc' # "overrun",
             romTransferActive' = romTransferActive
      PROVE  CountInv'
  BY <1>t, <1>u DEF CountInv
<1>r. ASSUME NEW info \in RomInfos, RomStorage_init(files', info), pc' # "overrun"
      PROVE  CountInv'
  BY <1>t, <1>d, <1>r, CountCoversFlags DEF CountInv, RomStorage_init
<1>1. CASE StartCommand
  <2>1. PICK num_banks \in RomSizes, name \in Names :
          \/ \E img \in Images : StartNewRomTransfer(num_banks, name, img)
          \/ StartExistingName(num_banks, name)
          \/ StartOverrun(num_banks, name)
    BY <1>1 DEF StartCommand
  <2>2. CASE \E img \in Images : StartNewRomTransfer(num_banks, name, img)
    BY <2>2, <1>t DEF StartNewRomTransfer, CountInv
  <2>3. CASE StartExistingName(num_banks, name)
    BY <2>3, <1>u DEF StartExistingName, CountInv, indexVars, transferVars
  <2>4. CASE StartOverrun(num_banks, name)
    <3>1. /\ ~romTransferActive /\ num_banks + usedBanks <= MaxBanks
          /\ Cardinality(FreeBanks) < num_banks
      BY <2>4 DEF StartOverrun, HostCommand, RoomFor
    <3>2. IsFiniteSet(Banks) /\ Cardinality(Banks) = MaxBanks
      <4>1. 0 \in Int /\ MaxBanks - 1 \in Int /\ ~(0 > MaxBanks - 1) BY SizesAssumption
      <4>2. IsFiniteSet(Banks) /\ Cardinality(Banks) = (MaxBanks - 1) - 0 + 1
        BY <4>1, FS_Interval DEF Banks
      <4>3. QED BY <4>2, SizesAssumption
    <3>3. usedBanksFlags \subseteq Banks /\ usedBanks \in Nat BY DEF CountInv, TypeInv, TypeOK
    <3>4. Banks \cap usedBanksFlags = usedBanksFlags BY <3>3
    <3>5. Cardinality(FreeBanks) = MaxBanks - Cardinality(usedBanksFlags)
      BY <3>2, <3>4, FS_Difference DEF FreeBanks
    <3>6. Cardinality(usedBanksFlags) \in Nat
      BY <3>2, <3>3, FS_Subset, FS_CardinalityType
    <3>7. Cardinality(usedBanksFlags) <= usedBanks BY <3>1 DEF CountInv
    <3>8. num_banks \in Nat /\ MaxBanks \in Nat BY SizesAssumption
    <3>9. FALSE BY <3>1, <3>3, <3>5, <3>6, <3>7, <3>8
    <3>10. QED BY <3>9
  <2>5. QED BY <2>1, <2>2, <2>3, <2>4
<1>2. CASE SendChunk
  BY <1>2, <1>u DEF SendChunk, TransferRomChunk, CountInv, indexVars
<1>3. CASE CreateRomFile \/ CreateRomFileFails \/ WriteRomFileFails
  BY <1>3, <1>u DEF CreateRomFile, CreateRomFileFails, WriteRomFileFails, indexVars,
     transferVars
<1>4. CASE WriteRomFile BY <1>4, <1>t, <1>r DEF WriteRomFile
<1>5. CASE RomCommand
  BY <1>5, <1>u DEF CountInv, RomCommand, RequestRomInfo, DeleteRom, StartRamTransfer,
     transferVars
<1>g. CASE StepOfGame \/ StepOfStart
  BY <1>g, <1>u DEF CountInv, StepOfGame, GameBoyAppears, ChooseGame, LoadRom,
     LoadRomFails, GameStoresSave, StepOfStart, StoreLastGame, NothingToStore,
     indexVars, transferVars
<1>6. CASE RemoveRomFile BY <1>6, <1>t, <1>r DEF RemoveRomFile
<1>7. CASE Reset
  <2>1. ZeroInfo \in RomInfos BY SizesAssumption DEF ZeroInfo, RomInfos, Banks
  <2>2. QED BY <1>7, <2>1, <1>r DEF Reset
<1>8. CASE UNCHANGED vars
  BY <1>8, <1>u DEF CountInv, vars, indexVars, transferVars
<1>9. QED
  BY <1>1, <1>2, <1>3, <1>4, <1>5, <1>g, <1>6, <1>7, <1>8 DEF Next, StepOfUpload

(***************************************************************************)
(* For every size of the store: assert(current_search_bank < MAX_BANKS)    *)
(* never fails for a host that finishes, or resets the device, before it   *)
(* starts another upload.  Empty files a power cut left behind may make    *)
(* _usedBanks too large, never too small.                                  *)
(***************************************************************************)
THEOREM SerialHostNeverOverruns ==
  ASSUME ~HostInterleaves, ~HostRestarts
  PROVE  Spec => []AllocationSucceeds
<1>1. Init => CountInv
  BY TypeInit, FS_EmptySet DEF Init, CountInv
<1>2. CountInv => AllocationSucceeds BY DEF CountInv, AllocationSucceeds
<1>3. CountInv /\ [Next]_vars => CountInv' BY CountStep
<1>4. QED BY <1>1, <1>2, <1>3, PTL DEF Spec

-----------------------------------------------------------------------------
\* The store implements the library.

\* What a reader finds is what the directory says, since no ROM is damaged.
Shelf == [n \in Names |-> Holding(n)]

LEMMA HoldingStored ==
  ASSUME StoredRomsIntact, NEW n \in Names
  PROVE  Holding(n) = IF n \in Written(files) THEN files[n].image ELSE NoImage
BY DEF Holding, StoredRomsIntact

LEMMA ShelfStep ==
  ASSUME SafeInv, SafeInv', CountInv, [Next]_vars
  PROVE  \/ Shelf' = Shelf
         \/ \E n \in Names : Library!Remove(n)
         \/ \E n \in Names, img \in Images : Library!Store(n, img)
<1> DEFINE content(n) == IF n \in Written(files) THEN files[n].image ELSE NoImage
<1>1. \A n \in Names : Holding(n) = content(n) BY HoldingStored DEF SafeInv
<1>2. \A n \in Names : Holding(n)' = content(n)'
  <2>1. StoredRomsIntact' BY DEF SafeInv
  <2>2. QED BY <2>1 DEF Holding, StoredRomsIntact
<1>t. files \in Directories /\ files' \in Directories
  BY DEF SafeInv, TypeInv, TypeOK, Directories
<1>s. ASSUME \A n \in Names : content(n)' = content(n) PROVE Shelf' = Shelf
  BY <1>1, <1>2, <1>s DEF Shelf
<1>e. ASSUME NEW n \in Names, NEW v, content(n)' = v,
             \A m \in Names \ {n} : content(m)' = content(m)
      PROVE  Shelf' = [Shelf EXCEPT ![n] = v]
  <2>1. \A m \in Names : Holding(m)' = IF m = n THEN v ELSE Holding(m)
    BY <1>1, <1>2, <1>e
  <2>2. QED BY <2>1 DEF Shelf
<1>3. CASE files' = files
  BY <1>3, <1>s
<1>4. CASE CreateRomFile
  <2>1. files[fileName] = NoFile /\ files' = [files EXCEPT ![fileName] = EmptyFile]
    BY <1>4 DEF CreateRomFile
  <2>2. \A n \in Names : content(n)' = content(n)
    BY <1>t, <2>1 DEF Directories, Written, Present
  <2>3. QED BY <2>2, <1>s
<1>5. CASE WriteRomFile
  <2> DEFINE new == [numBanks |-> romInfo.numBanks, banks |-> romInfo.banks,
                     image |-> upload]
  <2>1. /\ files' = [files EXCEPT ![fileName] = new] /\ files[fileName] = EmptyFile
        /\ fileName \in Names /\ upload \in Images /\ romInfo \in RomInfos
    BY <1>5 DEF WriteRomFile, SafeInv, TransferInv, TypeInv, TypeOK
  <2>2. new \notin {NoFile, EmptyFile} /\ new.image = upload
    BY <2>1, ValuesAssumption DEF Files, RomInfos
  <2>3. content(fileName) = NoImage BY <2>1 DEF Written
  <2> HIDE DEF new
  <2>4. files'[fileName] = new /\ \A m \in Names \ {fileName} : files'[m] = files[m]
    BY <1>t, <2>1 DEF Directories
  <2>5. content(fileName)' = upload
    <3>1. fileName' = fileName BY <1>5 DEF WriteRomFile
    <3>2. QED BY <2>1, <2>2, <2>4, <3>1 DEF Written, Present
  <2>6. \A m \in Names \ {fileName} : content(m)' = content(m)
    BY <2>4 DEF Written, Present
  <2>7. /\ Shelf[fileName] = NoImage
        /\ Shelf' = [Shelf EXCEPT ![fileName] = upload]
    <3>1. fileName' = fileName BY <1>5 DEF WriteRomFile
    <3>2. QED BY <1>1, <1>e, <2>1, <2>3, <2>5, <2>6, <3>1 DEF Shelf
  <2>8. QED BY <2>1, <2>7 DEF Library!Store, Shelf
<1>6. CASE RemoveRomFile
  <2>0. CASE files' = files BY <2>0, <1>3
  <2> SUFFICES ASSUME files' # files
               PROVE  Shelf' = Shelf \/ \E n \in Names : Library!Remove(n)
    BY <2>0
  <2>1. files' = [files EXCEPT ![fileName] = NoFile] BY <1>6 DEF RemoveRomFile
  <2>2. \A m \in Names \ {fileName} : files'[m] = files[m]
    BY <1>t, <2>1 DEF Directories
  <2>3. \A m \in Names \ {fileName} : content(m)' = content(m)
    BY <2>2 DEF Written, Present
  <2>4. CASE fileName \notin Written(files)
    <3>1. \A m \in Names : content(m)' = content(m)
      BY <1>t, <2>1, <2>3, <2>4 DEF Directories, Written, Present
    <3>2. QED BY <3>1, <1>s
  <2>5. CASE fileName \in Written(files)
    <3>1. fileName \in Names /\ files[fileName] \in Files
      BY <1>t, <2>5 DEF Written, Present, Directories
    <3>2. files'[fileName] = NoFile BY <1>t, <2>1, <3>1 DEF Directories
    <3>3. \A m \in Names : m = fileName => content(m)' = NoImage
      BY <3>1, <3>2 DEF Written, Present
    <3>4. Shelf' = [Shelf EXCEPT ![fileName] = NoImage]
      <4>1. PICK n \in Names : n = fileName BY <3>1
      <4>2. content(n)' = NoImage BY <3>3, <4>1
      <4>3. \A m \in Names \ {n} : content(m)' = content(m) BY <2>3, <4>1
      <4>4. Shelf' = [Shelf EXCEPT ![n] = NoImage] BY <1>e, <4>2, <4>3
      <4>5. QED BY <4>1, <4>4
    <3>5. Shelf[fileName] # NoImage
      BY <1>1, <2>5, <3>1, ValuesAssumption DEF Files, Shelf
    <3>6. QED BY <3>1, <3>4, <3>5 DEF Library!Remove, Shelf
  <2>6. QED BY <2>4, <2>5
<1>7. CASE ~(CreateRomFile \/ WriteRomFile \/ RemoveRomFile)
  <2>1. files' = files
    BY <1>7 DEF Next, CountInv, vars, flashVars, StartCommand, StartNewRomTransfer,
       StartExistingName, StartOverrun, SendChunk, TransferRomChunk, StepOfUpload,
       CreateRomFileFails, WriteRomFileFails, RomCommand, RequestRomInfo, DeleteRom,
       StartRamTransfer, StepOfGame, GameBoyAppears, ChooseGame, LoadRom, LoadRomFails,
       GameStoresSave, StepOfStart, StoreLastGame, NothingToStore, Reset
  <2>2. QED BY <2>1, <1>3
<1>8. QED BY <1>4, <1>5, <1>6, <1>7

(***************************************************************************)
(* For every size of the store: with a host that does one thing at a time  *)
(* the store is a shelf of whole images on which uploads and deletions are *)
(* atomic, power cuts and file system errors included.                     *)
(***************************************************************************)
THEOREM StoreImplementsLibrary ==
  ASSUME ~HostInterleaves, ~HostRestarts, 0 \notin RomSizes
  PROVE  Spec => ImplementsLibrary
<1>1. Init => Library!Init
  <2>1. Init => Written(files) = {} BY DEF Init, Written, Present
  <2>2. QED BY <2>1 DEF Library!Init, Holding
<1>2. Init => SafeInv /\ CountInv
  BY SafeInit, TypeInit, FS_EmptySet DEF Init, CountInv
<1>3. SafeInv /\ CountInv /\ [Next]_vars => SafeInv' /\ CountInv'
  BY SafeStep, CountStep
<1>4. SafeInv /\ CountInv /\ [Next]_vars => [Library!Next]_Shelf
  BY <1>3, ShelfStep DEF Library!Next
<1>5. QED BY <1>1, <1>2, <1>3, <1>4, PTL DEF Spec, ImplementsLibrary, Library!Spec, Shelf

-----------------------------------------------------------------------------
\* Save games go with their ROMs.

(***************************************************************************)
(* A deletion has removed the save game, or noted that it could not,       *)
(* before the ROM goes.  A save is stored under the name of a ROM that is  *)
(* there: while a game runs, and at the start after it, because nothing    *)
(* deletes a ROM in between and the index counts the same files again.     *)
(***************************************************************************)
OrphanInv ==
  /\ NoOrphanSave
  /\ pc = "remove" => fileName \in Names \ (saves \ strays)
  /\ pc \notin {"write", "undefined"} => numRoms = Cardinality(Present(files))
  /\ pc = "game" => loadedName \in Present(files)
  /\ lastRunningGame # NoGame /\ ~unread =>
       /\ pc \in {"game", "hang", "boot"}
       /\ loadedName \in Present(files)
       /\ lastRunningGame < Cardinality(Present(files))

\* Steps of the host, and of the loop before a game is chosen.
LEMMA OrphanKept ==
  ASSUME OrphanInv, UNCHANGED <<files, saves, strays, numRoms>>,
         pc \notin {"write", "undefined"}, pc' # "game", pc' # "remove",
         lastRunningGame # NoGame => unread,
         UNCHANGED <<lastRunningGame, unread>>
  PROVE  OrphanInv'
BY DEF OrphanInv, NoOrphanSave

LEMMA OrphanStep ==
  ASSUME TypeInv, TypeInv', OrphanInv, [Next]_vars
  PROVE  OrphanInv'
<1> USE DEF OrphanInv, NoOrphanSave, TypeInv, TypeOK
<1>1. ASSUME pc \in {"idle", "create", "write", "remove", "load"} PROVE
        lastRunningGame # NoGame => unread
  BY <1>1
<1>2. CASE StartCommand \/ SendChunk
  <2>1. /\ UNCHANGED <<files, saves, strays, numRoms, lastRunningGame, unread>>
        /\ pc = "idle" /\ pc' \notin {"game", "remove"}
    BY <1>2 DEF StartCommand, StartNewRomTransfer, StartExistingName, StartOverrun,
       HostCommand, SendChunk, TransferRomChunk, flashVars, indexVars, gameVars, noInitVars
  <2> QED BY <1>1, <2>1, OrphanKept
<1>3. CASE StepOfUpload
  <2>0. /\ pc \in {"create", "write"}
        /\ UNCHANGED <<saves, strays, lastRunningGame, unread, loadedName>>
    BY <1>3 DEF StepOfUpload, CreateRomFile, CreateRomFileFails, WriteRomFile,
       WriteRomFileFails, flashVars, gameVars, noInitVars
  <2>1. /\ pc' \in {"write", "undefined", "idle"}
        /\ \A n \in saves : files[n] # NoFile => files'[n] # NoFile
        /\ pc' = "idle" => numRoms' = Cardinality(Present(files'))
    <3>1. CASE CreateRomFile BY <3>1, ValuesAssumption DEF CreateRomFile
    <3>2. CASE WriteRomFile
      <4> DEFINE new == [numBanks |-> romInfo.numBanks, banks |-> romInfo.banks,
                         image |-> upload]
      <4>1. new \in Files BY <3>2 DEF WriteRomFile, RomInfos, Files
      <4> HIDE DEF new
      <4>2. files' = [files EXCEPT ![fileName] = new]
        BY <3>2 DEF WriteRomFile, new
      <4>3. new # NoFile BY <4>1, ValuesAssumption
      <4> QED BY <3>2, <4>2, <4>3 DEF WriteRomFile, RomStorage_init
    <3>3. CASE CreateRomFileFails \/ WriteRomFileFails
      BY <3>3 DEF CreateRomFileFails, WriteRomFileFails, flashVars
    <3> QED BY <1>3, <3>1, <3>2, <3>3 DEF StepOfUpload
  <2> QED BY <1>1, <2>0, <2>1
<1>4. CASE RomCommand
  <2>1. PICK rom \in 0..MaxRoms - 1 :
          RequestRomInfo(rom) \/ DeleteRom(rom) \/ StartRamTransfer(rom)
    BY <1>4 DEF RomCommand
  <2>2. CASE RequestRomInfo(rom)
    <3>1. /\ UNCHANGED <<files, saves, strays, numRoms, lastRunningGame, unread>>
          /\ pc = "idle" /\ pc' = pc
      BY <2>2 DEF RequestRomInfo, HostCommand, flashVars, gameVars, noInitVars
    <3> QED BY <1>1, <3>1, OrphanKept
  <2>3. CASE DeleteRom(rom)
    <3>1. PICK n \in Names :
            /\ fileName' = n
            /\ \/ saves' = saves \ {n} /\ strays' = strays \ {n}
               \/ saves' = saves /\ strays' = strays \cup ({n} \cap saves)
      BY <2>3 DEF DeleteRom
    <3>2. /\ UNCHANGED <<files, numRoms, lastRunningGame, unread>>
          /\ pc = "idle" /\ pc' = "remove"
      BY <2>3 DEF DeleteRom, HostCommand, noInitVars
    <3>3. saves' \ strays' \subseteq saves \ strays /\ n \notin saves' \ strays'
      BY <3>1
    <3> QED BY <1>1, <3>1, <3>2, <3>3
  <2>4. CASE StartRamTransfer(rom)
    <3>1. PICK n \in Names : n \in Present(files) /\ saves' \in {saves, saves \cup {n}}
      BY <2>4 DEF StartRamTransfer, IsNth
    <3>2. /\ UNCHANGED <<files, strays, numRoms, lastRunningGame, unread>>
          /\ pc = "idle" /\ pc' = pc
      BY <2>4 DEF StartRamTransfer, HostCommand
    <3>3. \A m \in saves' \ strays' : files[m] # NoFile BY <3>1, <3>2 DEF Present
    <3> QED BY <1>1, <3>2, <3>3
  <2> QED BY <2>1, <2>2, <2>3, <2>4
<1>5. CASE RemoveRomFile
  <2>1. /\ \A n \in Names \ {fileName} : files'[n] = files[n]
        /\ UNCHANGED <<saves, strays, lastRunningGame, unread>>
        /\ numRoms' = Cardinality(Present(files'))
        /\ pc = "remove" /\ pc' = "idle"
    BY <1>5 DEF RemoveRomFile, RomStorage_init, gameVars, noInitVars
  <2>2. \A n \in saves' \ strays' : files'[n] # NoFile BY <2>1
  <2> QED BY <1>1, <2>1, <2>2
<1>6. CASE StepOfGame
  <2>1. CASE GameBoyAppears
    <3>1. /\ UNCHANGED <<files, saves, strays, numRoms, lastRunningGame, unread>>
          /\ pc = "idle" /\ pc' = pc
      BY <2>1 DEF GameBoyAppears, flashVars, indexVars, noInitVars
    <3> QED BY <1>1, <3>1, OrphanKept
  <2>2. CASE \E rom \in 0..MaxRoms - 1 : ChooseGame(rom)
    BY <2>2 DEF ChooseGame, flashVars, indexVars
  <2>3. CASE LoadRom
    <3>1. PICK n \in Names :
            /\ n \in Present(files) /\ loadedName' = n
            /\ unread' = FALSE \/ unread' = unread
      BY <2>3 DEF LoadRom, IsNth
    <3>2. /\ UNCHANGED <<files, saves, strays, numRoms, lastRunningGame>>
          /\ pc = "load" /\ pc' = "game" /\ lastRunningGame < numRoms
      BY <2>3 DEF LoadRom, IsMarked, flashVars
    <3> QED BY <3>1, <3>2
  <2>4. CASE LoadRomFails
    <3>1. /\ UNCHANGED <<files, saves, strays, numRoms, lastRunningGame>>
          /\ pc = "load" /\ pc' = "hang"
      BY <2>4 DEF LoadRomFails, flashVars, indexVars
    <3>2. CASE unread' = unread BY <1>1, <3>1, <3>2
    <3>3. CASE unread' # unread
      <4>1. lastRunningGame < numRoms /\ loadedName' \in Present(files)
        BY <2>4, <3>3 DEF LoadRomFails, IsMarked, IsNth
      <4> QED BY <3>1, <4>1
    <3> QED BY <3>2, <3>3
  <2>5. CASE GameStoresSave
    <3>1. /\ UNCHANGED <<files, strays, numRoms, lastRunningGame, unread, loadedName, pc>>
          /\ saves' = saves \cup {loadedName} /\ pc = "game"
      BY <2>5 DEF GameStoresSave, indexVars, gameVars, noInitVars
    <3>2. \A n \in saves' \ strays' : files[n] # NoFile BY <3>1 DEF Present
    <3> QED BY <3>1, <3>2
  <2> QED BY <1>6, <2>1, <2>2, <2>3, <2>4, <2>5 DEF StepOfGame
<1>7. CASE StepOfStart
  <2>1. CASE StoreLastGame
    <3>1. /\ UNCHANGED <<files, numRoms, loadedName>>
          /\ lastRunningGame # NoGame /\ lastRunningGame' = NoGame
          /\ pc' \in {"idle", "undefined"} /\ pc = "boot"
      BY <2>1 DEF StoreLastGame, IsMarked, indexVars
    <3>2. \A n \in saves' \ strays' : files[n] # NoFile
      <4>1. CASE UNCHANGED <<saves, strays>> BY <4>1
      <4>2. CASE /\ saves' \in {saves, saves \cup {loadedName}}
                 /\ strays' = IF unread THEN strays \cup (saves' \ saves) ELSE strays
        <5>1. CASE unread BY <4>2, <5>1
        <5>2. CASE ~unread
          <6>1. loadedName \in Present(files) BY <3>1, <5>2
          <6> QED BY <4>2, <5>2, <6>1 DEF Present
        <5> QED BY <5>1, <5>2
      <4> QED BY <2>1, <4>1, <4>2 DEF StoreLastGame
    <3> QED BY <3>1, <3>2
  <2>2. CASE NothingToStore
    <3>1. /\ UNCHANGED <<files, saves, strays, numRoms, lastRunningGame, unread>>
          /\ pc = "boot" /\ pc' = "idle"
          /\ lastRunningGame # NoGame => ~(lastRunningGame < numRoms)
      BY <2>2 DEF NothingToStore, IsMarked, flashVars, indexVars, gameVars, noInitVars
    <3>2. lastRunningGame # NoGame => unread BY <3>1
    <3> QED BY <3>1, <3>2, OrphanKept
  <2> QED BY <1>7, <2>1, <2>2 DEF StepOfStart
<1>8. CASE Reset
  <2>1. /\ pc' = "boot" /\ numRoms' = Cardinality(Present(files'))
        /\ \/ UNCHANGED <<files, saves, strays>>
           \/ pc = "overrun" /\ saves' = {}
        /\ \/ UNCHANGED <<loadedName, lastRunningGame, unread>>
           \/ lastRunningGame' = NoGame
    BY <1>8 DEF Reset, RomStorage_init, noInitVars
  <2> QED BY <2>1
<1>9. CASE UNCHANGED vars
  BY <1>9 DEF vars, flashVars, indexVars, gameVars, noInitVars
<1> QED BY <1>2, <1>3, <1>4, <1>5, <1>6, <1>7, <1>8, <1>9 DEF Next

(***************************************************************************)
(* Under any sequence of host commands, games, errors, resets and power    *)
(* cuts, a save game without its ROM is one whose removal failed, or one   *)
(* that a start stored for a game that was chosen and not read before the  *)
(* reset: what a running game stores, what a start stores after it and     *)
(* what the host uploads goes with a ROM that is there, and a deletion     *)
(* takes the save game first.                                              *)
(***************************************************************************)
THEOREM NoSaveIsOrphaned == Spec => []NoOrphanSave
<1>1. Init => OrphanInv
  <2>1. ASSUME Init PROVE Present(files) = {} BY <2>1 DEF Init, Present
  <2>2. QED BY <2>1, FS_EmptySet DEF Init, OrphanInv, NoOrphanSave
<1>2. OrphanInv => NoOrphanSave BY DEF OrphanInv
<1>3. TypeInv /\ OrphanInv /\ [Next]_vars => TypeInv' /\ OrphanInv'
  BY TypeStep, OrphanStep
<1>4. QED BY <1>1, <1>2, <1>3, TypeInit, PTL DEF Spec

-----------------------------------------------------------------------------
\* A game is run from its own banks.

GameInv == RunningGameIsWhole /\ (pc = "game" => loadedName \in Present(files))

\* LoadRom copies the bank list that it has just read.
LEMMA GameLoaded ==
  ASSUME SafeInv, LoadRom
  PROVE  GameInv'
<1> USE DEF SafeInv, TypeInv, TypeOK
<1>1. PICK n \in Names :
        /\ n \in Present(files)
        /\ romInfo' = ReadFiles(files, romInfo, {n})
        /\ loaded' = romInfo'
        /\ loadedName' = n
  BY DEF LoadRom, IsNth, LoadRomInfo
<1>2. UNCHANGED <<flash, files>> BY DEF LoadRom, flashVars
<1>3. ASSUME files[n] # EmptyFile
      PROVE  /\ loaded'.numBanks = files[n].numBanks
             /\ \A i \in 0..files[n].numBanks - 1 :
                  flash[loaded'.banks[i]] = ImageBank(files[n].image, i)
  <2>1. n \in Written(files) BY <1>1, <1>3 DEF Written, Present
  <2>2. files \in Directories BY DEF Directories
  <2>3. n \in Nat BY NamesAssumption
  <2>4. /\ romInfo'.numBanks = files[n].numBanks
        /\ \A i \in 0..files[n].numBanks - 1 : romInfo'.banks[i] = files[n].banks[i]
    <3> DEFINE S == {n}
    <3>1. n \in S /\ \A m \in S \cap Names : m <= n BY <2>3
    <3>2. romInfo \in RomInfos OBVIOUS
    <3> HIDE DEF S
    <3>3. /\ ReadFiles(files, romInfo, S).numBanks = files[n].numBanks
          /\ \A i \in 0..files[n].numBanks - 1 :
               ReadFiles(files, romInfo, S).banks[i] = files[n].banks[i]
      BY <2>1, <2>2, <3>1, <3>2, ReadLast
    <3> QED BY <1>1, <3>3 DEF S
  <2>5. Intact(n) BY <2>1 DEF StoredRomsIntact
  <2> QED BY <1>1, <2>4, <2>5 DEF Intact
<1> QED BY <1>1, <1>2, <1>3 DEF Present, GameInv, RunningGameIsWhole

LEMMA GameStep ==
  ASSUME SafeInv, GameInv, [Next]_vars
  PROVE  GameInv'
<1>1. CASE pc' # "game" BY <1>1 DEF GameInv, RunningGameIsWhole
<1>2. CASE LoadRom BY <1>2, GameLoaded
<1>3. CASE UNCHANGED vars \/ GameStoresSave
  BY <1>3 DEF GameStoresSave, vars, flashVars, gameVars, noInitVars, GameInv,
     RunningGameIsWhole
<1>4. CASE Next /\ ~LoadRom /\ ~GameStoresSave
  <2>1. pc' # "game"
    BY <1>4 DEF Next, StartCommand, StartNewRomTransfer, StartExistingName, StartOverrun,
       HostCommand, SendChunk, TransferRomChunk, StepOfUpload, CreateRomFile,
       CreateRomFileFails, WriteRomFile, WriteRomFileFails, RomCommand, RequestRomInfo,
       DeleteRom, StartRamTransfer, RemoveRomFile, StepOfGame, GameBoyAppears, ChooseGame,
       LoadRomFails, StepOfStart, StoreLastGame, NothingToStore, Reset
  <2> QED BY <1>1, <2>1
<1> QED BY <1>2, <1>3, <1>4

(***************************************************************************)
(* With a host that sends nothing but chunks while an upload is active,    *)
(* a game runs from the banks that hold its image, whatever the header of  *)
(* the file before left in the shared _romInfoFile.                        *)
(***************************************************************************)
THEOREM RunningGameStaysWhole ==
  ASSUME ~HostInterleaves, 0 \notin RomSizes
  PROVE  Spec => []RunningGameIsWhole
<1>1. Init => GameInv BY DEF Init, GameInv, RunningGameIsWhole
<1>2. GameInv => RunningGameIsWhole BY DEF GameInv
<1>3. SafeInv /\ GameInv /\ [Next]_vars => SafeInv' /\ GameInv'
  BY SafeStep, GameStep
<1>4. QED BY <1>1, <1>2, <1>3, SafeInit, PTL DEF Spec

=============================================================================
