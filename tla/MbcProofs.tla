------------------------------ MODULE MbcProofs ------------------------------
(***************************************************************************)
(* Proofs about Mbc: for every cartridge the bank registers stay below the *)
(* number of banks, and the bases handed to the DMA channels lead into the *)
(* ROM that is loaded and into ram_memory, whatever a game writes; a bus   *)
(* cycle leaves nothing behind for the next; unsaved RAM shows red; and    *)
(* each cycle is answered as CartridgeBus says.                            *)
(***************************************************************************)
EXTENDS Mbc, SequenceTheorems, TLAPS

Cells == [mem: {"rom", "ram", "rtc"}, bank: Nat, page: {0, TopPage}]
Destinations ==
  {"ctrl", "write", "writeOr", "read", "readOrGo", "readGo", "devNull"}
Sources ==
  {"rxRomLow", "rxRomHigh", "rxRamRead", "rxRamWrite", "rom_low_base",
   "rom_high_base", "ram_base", "rtcLatchPtr", "txFifo", "rxFifoRamWrite",
   "devNullPtr", "RAM_READ_DMA_CTRL", "RAM_WRITE_DMA_CTRL"}
Commands == [from: Sources, to: Destinations]
AccessorFields == {"chainTo", "paced", "read", "write", "busy"}

Cpus ==
  [romBank: Nat, romBankLow: 1 .. 31, romBankHigh: 0 .. 3, ramBank: 0 .. 255,
   modeSelect: BOOLEAN, ramEnabled: BOOLEAN, rtcLatch: BOOLEAN]
Bases == [romLow: Cells, romHigh: Cells, ram: Cells, latch: Cells]

(* The main loop: its registers and what it hands to the channels. *)
CpuTypes ==
  /\ cartridge \in Cartridges
  /\ cpu \in Cpus
  /\ cpu.romBank < cartridge.romBanks
  /\ currentRegister \in 0 .. 4
  /\ ramDirty \in BOOLEAN
  /\ led \in {"off", "red", "green"}
  /\ bases \in Bases
  /\ bases.romHigh = RomCell(cpu.romBank)
  /\ bases.ram.bank < GB_MAX_RAM_BANKS
  /\ ramReadCommands \in Seq(Commands)
  /\ ramWriteCommands \in Seq(Commands)

(* The channels: a command does what the code knows, and the accessor arms *)
(* one of the channels.                                                    *)
DmaTypes ==
  /\ armed \subseteq Machines
  /\ chain \in Seq(Commands)
  /\ DOMAIN accessor = AccessorFields
  /\ accessor.chainTo \in Machines

(* The FIFO of the main loop holds the cycle under way and nothing else:   *)
(* no word of an earlier cycle is taken for the address of this one, and   *)
(* the data of a write is a byte.                                          *)
Queue ==
  \/ bus.op = "none" /\ main = <<>>
  \/ bus.op = "read" /\ (main = <<>> \/ \E w : main = <<w>> /\ ~ w.write)
  \/ /\ bus.op = "address"
     /\ bus.data \in 0 .. 255
     /\ main = <<>> \/ \E w : main = <<w>> /\ w.write
  \/ /\ bus.op = "write"
     /\ main = <<>> \/ \E w : \E d \in 0 .. 255 : main = <<w, d>> /\ w.write

BusTypes ==
  /\ Queue
  /\ "op" \in DOMAIN bus
  /\ Mbc = 0 => main = <<>>
  /\ bus.op = "address" /\ Mbc # 0 => main # <<>>

MbcInv == CpuTypes /\ DmaTypes /\ BusTypes

-----------------------------------------------------------------------------
(* Words and sequences.                                                    *)

LEMMA OneWord ==
  ASSUME NEW w
  PROVE  /\ Append(<<>>, w) = <<w>> /\ <<w>> # <<>> /\ <<w>>[1] = w
         /\ Len(<<w>>) = 1 /\ SubSeq(<<w>>, 2, Len(<<w>>)) = <<>>
  OBVIOUS

LEMMA AppendToOne ==
  ASSUME NEW w, NEW d
  PROVE  Append(<<w>>, d) = <<w, d>>
<1> DEFINE s == <<w>>
           S == {w, d}
<1>1. s \in Seq(S) /\ Len(s) = 1 /\ s[1] = w
  OBVIOUS
<1>2. d \in S
  OBVIOUS
<1> HIDE DEF s, S
<1>3. /\ Append(s, d) \in Seq(S)
      /\ Len(Append(s, d)) = Len(s) + 1
      /\ Append(s, d)[Len(s) + 1] = d
  BY <1>1, <1>2, AppendProperties
<1>4. \A i \in 1 .. Len(s) : Append(s, d)[i] = s[i]
  BY <1>1, <1>2, AppendProperties
<1>5. 1 \in 1 .. Len(s) /\ Len(s) + 1 = 2
  BY <1>1
<1>6. Append(s, d)[1] = s[1]
  BY <1>4, <1>5
<1>7. Len(Append(s, d)) = 2 /\ Append(s, d)[1] = w /\ Append(s, d)[2] = d
  BY <1>1, <1>3, <1>5, <1>6
<1>8. \A t \in Seq(S) : Len(t) = 2 /\ t[1] = w /\ t[2] = d => t = <<w, d>>
  OBVIOUS
<1> QED
  BY <1>3, <1>7, <1>8 DEF s

LEMMA TwoWords ==
  ASSUME NEW w, NEW d
  PROVE  /\ <<w, d>> # <<>> /\ <<w, d>>[1] = w /\ <<w, d>>[2] = d
         /\ Len(<<w, d>>) = 2
         /\ SubSeq(<<w, d>>, 3, Len(<<w, d>>)) = <<>>
<1>1. /\ <<w, d>> # <<>> /\ <<w, d>>[1] = w /\ <<w, d>>[2] = d
      /\ Len(<<w, d>>) = 2
  OBVIOUS
<1>2. \A s : s \in Seq({w, d}) /\ Len(s) = 2 => SubSeq(s, 3, Len(s)) = <<>>
  OBVIOUS
<1>3. <<w, d>> \in Seq({w, d})
  OBVIOUS
<1> QED
  BY <1>1, <1>2, <1>3

\* Every chain is a sequence of commands.
LEMMA ChainsAreCommands ==
  /\ LOWER_ROM_READ \in Seq(Commands) /\ DIRECT_SSI \in Seq(Commands)
  /\ RAM_READ \in Seq(Commands) /\ RAM_WRITE \in Seq(Commands)
  /\ RAM_DUMMY_READ \in Seq(Commands) /\ RAM_DUMMY_WRITE \in Seq(Commands)
  /\ RTC_READ \in Seq(Commands)
<1>1. \A from \in Sources, to \in Destinations : Cmd(from, to) \in Commands
  BY DEF Cmd, Commands
<1>2. ASSUME NEW a \in Commands, NEW b \in Commands
      PROVE  <<a, b>> \in Seq(Commands)
  OBVIOUS
<1>3. ASSUME NEW a \in Commands, NEW b \in Commands, NEW c \in Commands,
             NEW d \in Commands
      PROVE  <<a, b, c, d>> \in Seq(Commands)
  OBVIOUS
<1>4. LOWER_ROM_READ \in Seq(Commands) /\ DIRECT_SSI \in Seq(Commands)
  BY <1>1, <1>2 DEF LOWER_ROM_READ, DIRECT_SSI, Sources, Destinations
<1>5. RAM_READ \in Seq(Commands)
  BY <1>1, <1>3 DEF RAM_READ, Sources, Destinations
<1>6. RAM_WRITE \in Seq(Commands)
  BY <1>1, <1>3 DEF RAM_WRITE, Sources, Destinations
<1>7. RAM_DUMMY_READ \in Seq(Commands)
  BY <1>1, <1>3 DEF RAM_DUMMY_READ, Sources, Destinations
<1>8. RAM_DUMMY_WRITE \in Seq(Commands)
  BY <1>1, <1>3 DEF RAM_DUMMY_WRITE, Sources, Destinations
<1>9. RTC_READ \in Seq(Commands)
  BY <1>1, <1>3 DEF RTC_READ, Sources, Destinations
<1> QED
  BY <1>4, <1>5, <1>6, <1>7, <1>8, <1>9

-----------------------------------------------------------------------------
(* Fields of the records.                                                  *)

LEMMA CpuFields ==
  ASSUME NEW r \in Cpus
  PROVE  /\ r.romBank \in Nat /\ r.romBankLow \in 1 .. 31
         /\ r.romBankHigh \in 0 .. 3 /\ r.ramBank \in 0 .. 255
         /\ r.modeSelect \in BOOLEAN /\ r.ramEnabled \in BOOLEAN
         /\ r.rtcLatch \in BOOLEAN
         /\ \A v \in Nat : /\ [r EXCEPT !.romBank = v] \in Cpus
                           /\ [r EXCEPT !.romBank = v].romBank = v
         /\ \A v \in 1 .. 31 : /\ [r EXCEPT !.romBankLow = v] \in Cpus
                               /\ [r EXCEPT !.romBankLow = v].romBank = r.romBank
         /\ \A v \in 0 .. 3 : /\ [r EXCEPT !.romBankHigh = v] \in Cpus
                              /\ [r EXCEPT !.romBankHigh = v].romBank = r.romBank
         /\ \A v \in 0 .. 255 : /\ [r EXCEPT !.ramBank = v] \in Cpus
                                /\ [r EXCEPT !.ramBank = v].romBank = r.romBank
         /\ \A v \in BOOLEAN : /\ [r EXCEPT !.modeSelect = v] \in Cpus
                               /\ [r EXCEPT !.modeSelect = v].romBank = r.romBank
         /\ \A v \in BOOLEAN : /\ [r EXCEPT !.ramEnabled = v] \in Cpus
                               /\ [r EXCEPT !.ramEnabled = v].romBank = r.romBank
         /\ \A v \in BOOLEAN : /\ [r EXCEPT !.rtcLatch = v] \in Cpus
                               /\ [r EXCEPT !.rtcLatch = v].romBank = r.romBank
<1>1. /\ r.romBank \in Nat /\ r.romBankLow \in 1 .. 31
      /\ r.romBankHigh \in 0 .. 3 /\ r.ramBank \in 0 .. 255
      /\ r.modeSelect \in BOOLEAN /\ r.ramEnabled \in BOOLEAN
      /\ r.rtcLatch \in BOOLEAN
  BY DEF Cpus
<1>2. \A v \in Nat : /\ [r EXCEPT !.romBank = v] \in Cpus
                     /\ [r EXCEPT !.romBank = v].romBank = v
  BY DEF Cpus
<1>3. \A v \in 1 .. 31 : /\ [r EXCEPT !.romBankLow = v] \in Cpus
                         /\ [r EXCEPT !.romBankLow = v].romBank = r.romBank
  BY DEF Cpus
<1>4. \A v \in 0 .. 3 : /\ [r EXCEPT !.romBankHigh = v] \in Cpus
                        /\ [r EXCEPT !.romBankHigh = v].romBank = r.romBank
  BY DEF Cpus
<1>5. \A v \in 0 .. 255 : /\ [r EXCEPT !.ramBank = v] \in Cpus
                          /\ [r EXCEPT !.ramBank = v].romBank = r.romBank
  BY DEF Cpus
<1>6. \A v \in BOOLEAN : /\ [r EXCEPT !.modeSelect = v] \in Cpus
                         /\ [r EXCEPT !.modeSelect = v].romBank = r.romBank
  BY DEF Cpus
<1>7. \A v \in BOOLEAN : /\ [r EXCEPT !.ramEnabled = v] \in Cpus
                         /\ [r EXCEPT !.ramEnabled = v].romBank = r.romBank
  BY DEF Cpus
<1>8. \A v \in BOOLEAN : /\ [r EXCEPT !.rtcLatch = v] \in Cpus
                         /\ [r EXCEPT !.rtcLatch = v].romBank = r.romBank
  BY DEF Cpus
<1> QED
  BY <1>1, <1>2, <1>3, <1>4, <1>5, <1>6, <1>7, <1>8

LEMMA BasesFields ==
  ASSUME NEW r \in Bases
  PROVE  /\ r.ram \in Cells /\ r.romHigh \in Cells
         /\ \A v \in Cells : /\ [r EXCEPT !.romHigh = v] \in Bases
                             /\ [r EXCEPT !.romHigh = v].romHigh = v
                             /\ [r EXCEPT !.romHigh = v].ram = r.ram
         /\ \A v \in Cells : /\ [r EXCEPT !.ram = v] \in Bases
                             /\ [r EXCEPT !.ram = v].ram = v
                             /\ [r EXCEPT !.ram = v].romHigh = r.romHigh
         /\ \A v \in Cells : /\ [r EXCEPT !.latch = v] \in Bases
                             /\ [r EXCEPT !.latch = v].ram = r.ram
                             /\ [r EXCEPT !.latch = v].romHigh = r.romHigh
         /\ \A v, w \in Cells :
              /\ [r EXCEPT !.ram = v, !.romHigh = w] \in Bases
              /\ [r EXCEPT !.ram = v, !.romHigh = w].ram = v
              /\ [r EXCEPT !.ram = v, !.romHigh = w].romHigh = w
  BY DEF Bases

LEMMA BankCells ==
  ASSUME NEW bank \in Nat
  PROVE  /\ RomCell(bank) \in Cells /\ RamBase(bank) \in Cells
         /\ RamBase(bank).bank = bank
         /\ Cell("rtc", bank, 0) \in Cells
  BY DEF RomCell, RamBase, Cell, Cells

LEMMA CartridgeFacts ==
  ASSUME cartridge \in Cartridges
  PROVE  /\ Mbc \in {0, 1, 2, 3, 5} /\ Mbc \in DOMAIN DataFor
         /\ cartridge.romBanks \in Nat /\ cartridge.romBanks > 1
         /\ cartridge.ramBanks \in Nat
         /\ cartridge.ramBanks <= GB_MAX_RAM_BANKS
         /\ GB_MAX_RAM_BANKS \in Nat /\ GB_MAX_RAM_BANKS >= 4
  BY MbcAssumption DEF Mbc

LEMMA RomSizes ==
  ASSUME cartridge \in Cartridges
  PROVE  cartridge.romBanks \in {2, 4, 8, 16, 32, 64, 128, 256, 512}
  BY MbcAssumption

LEMMA GameData ==
  ASSUME cartridge \in Cartridges, NEW area \in DOMAIN DataFor[Mbc]
  PROVE  area \in 0 .. 15 /\ DataFor[Mbc][area] \subseteq 0 .. 255
<1>1. Mbc \in DOMAIN DataFor
  BY CartridgeFacts
<1>2. DOMAIN DataFor[Mbc] \subseteq 0 .. 15
  BY <1>1, MbcAssumption
<1>3. DataFor[Mbc][area] \subseteq 0 .. 255
  BY <1>1, MbcAssumption
<1> QED
  BY <1>2, <1>3

-----------------------------------------------------------------------------
(* The main loop: what it takes from the FIFO is a whole write, and what   *)
(* it makes of the data is a bank that exists.                             *)

LEMMA WriteFrame ==
  ASSUME MbcInv, NEW mbc, NEW areas, HandleWrite(mbc, areas)
  PROVE  /\ Mbc = mbc /\ cartridge' = cartridge
         /\ Data \in 0 .. 255
         /\ bus.op = "write" /\ main # <<>> /\ main' = <<>>
         /\ DmaTypes' /\ BusTypes'
<1>1. Mbc = mbc /\ UNCHANGED <<cartridge, bus, armed, chain, accessor>>
  BY DEF HandleWrite, gameVars
<1>2. \E w : \E d \in 0 .. 255 : main = <<w, d>> /\ bus.op = "write"
  <2>1. main # <<>> /\ main[1].write /\ Len(main) > 1
    BY DEF HandleWrite, CpuCanStep
  <2>2. ASSUME NEW w, main = <<w>>
        PROVE  FALSE
    BY <2>1, <2>2, OneWord
  <2>3. bus.op = "write" /\ \E w : \E d \in 0 .. 255 : main = <<w, d>>
    <3>1. Queue
      BY DEF MbcInv, BusTypes
    <3>2. ~ \E w : main = <<w>>
      BY <2>2
    <3> QED
      BY <2>1, <3>1, <3>2, Zenon DEF Queue
  <2> QED
    BY <2>3, Zenon
<1>3. PICK w : \E d \in 0 .. 255 : main = <<w, d>> /\ bus.op = "write"
  BY <1>2, Zenon
<1>4. PICK d \in 0 .. 255 : main = <<w, d>> /\ bus.op = "write"
  BY <1>3, Zenon
<1>5. Data \in 0 .. 255
  BY <1>4, TwoWords DEF Data
<1>6. main' = <<>>
  <2>1. main' = SubSeq(main, 2 + 1, Len(main))
    BY DEF HandleWrite, Take
  <2>2. main' = SubSeq(<<w, d>>, 3, Len(<<w, d>>))
    BY <2>1, <1>4
  <2> QED
    BY <2>2, TwoWords
<1>7. DmaTypes'
  BY <1>1 DEF MbcInv, DmaTypes
<1>8. BusTypes'
  BY <1>1, <1>4, <1>6 DEF MbcInv, BusTypes, Queue, Mbc
<1>9. main # <<>>
  BY <1>4, TwoWords
<1> QED
  BY <1>1, <1>4, <1>5, <1>6, <1>7, <1>8, <1>9

LEMMA Remainders ==
  ASSUME NEW x \in 0 .. 255
  PROVE  /\ x % 32 \in 0 .. 31 /\ x % 4 \in 0 .. 3 /\ x % 4 < 4
         /\ x \in Nat /\ x % 4 \in Nat /\ x % 8 \in Nat /\ x % 8 < 8
         /\ NonZero(x % 32) \in 1 .. 31
  BY DEF NonZero

LEMMA BankSum ==
  ASSUME NEW low \in 1 .. 31, NEW high \in 0 .. 3
  PROVE  low + 0 \in Nat /\ low + 32 * high \in Nat
  OBVIOUS

LEMMA SwitchesStay ==
  ASSUME CpuTypes
  PROVE  /\ RamSwitchesStay => /\ ramReadCommands' \in Seq(Commands)
                               /\ ramWriteCommands' \in Seq(Commands)
         /\ \A on : SwitchRam(on) => /\ ramReadCommands' \in Seq(Commands)
                                     /\ ramWriteCommands' \in Seq(Commands)
         /\ GbDma_EnableSaveRam => /\ ramReadCommands' \in Seq(Commands)
                                   /\ ramWriteCommands' \in Seq(Commands)
         /\ GbDma_EnableRtc => /\ ramReadCommands' \in Seq(Commands)
                               /\ ramWriteCommands' \in Seq(Commands)
         /\ NotDirtied => ramDirty' \in BOOLEAN /\ led' \in {"off", "red", "green"}
         /\ MarkDirty => ramDirty' \in BOOLEAN /\ led' \in {"off", "red", "green"}
  BY ChainsAreCommands
     DEF CpuTypes, RamSwitchesStay, SwitchRam, GbDma_EnableSaveRam,
         GbDma_DisableSaveRam, GbDma_EnableRtc, NotDirtied, MarkDirty

LEMMA SwitchRomSafe ==
  ASSUME CpuTypes, cartridge' = cartridge, NEW bank \in Nat,
         bank < cartridge.romBanks, SwitchRom(bank)
  PROVE  CpuTypes'
<1>1. /\ cpu' = [cpu EXCEPT !.romBank = bank]
      /\ bases' = [bases EXCEPT !.romHigh = RomCell(bank)]
      /\ RamSwitchesStay /\ NotDirtied /\ UNCHANGED currentRegister
  BY DEF SwitchRom
<1>2. cpu' \in Cpus /\ cpu'.romBank = bank
  BY <1>1, CpuFields DEF CpuTypes
<1>3. /\ bases' \in Bases /\ bases'.romHigh = RomCell(bank)
      /\ bases'.ram = bases.ram
  <2> DEFINE cell == RomCell(bank)
  <2>1. cell \in Cells
    BY BankCells
  <2>2. bases' = [bases EXCEPT !.romHigh = cell] /\ bases \in Bases
    BY <1>1 DEF CpuTypes
  <2> HIDE DEF cell
  <2>3. bases' \in Bases /\ bases'.romHigh = cell /\ bases'.ram = bases.ram
    BY <2>1, <2>2 DEF Bases
  <2> QED
    BY <2>3 DEF cell
<1> QED
  BY <1>1, <1>2, <1>3, SwitchesStay DEF CpuTypes

LEMMA Mbc1SwitchSafe ==
  ASSUME CpuTypes, cartridge' = cartridge, NEW c \in Cpus, NEW ram \in Cells,
         ram.bank < GB_MAX_RAM_BANKS, Mbc1Switch(c, ram),
         ramReadCommands' \in Seq(Commands), ramWriteCommands' \in Seq(Commands)
  PROVE  CpuTypes'
<1> DEFINE bank == Mbc1Bank(c)
<1>1. bank \in Nat /\ bank < cartridge.romBanks
  <2> DEFINE sum == c.romBankLow + IF c.modeSelect THEN 0 ELSE 32 * c.romBankHigh
  <2>1. sum \in Nat
    <3>1. c.romBankLow \in 1 .. 31 /\ c.romBankHigh \in 0 .. 3
      BY CpuFields
    <3>2. CASE c.modeSelect
      <4>1. sum = c.romBankLow + 0
        BY <3>2
      <4> HIDE DEF sum
      <4>2. sum \in Nat
        BY <3>1, <4>1, BankSum
      <4> QED
        BY <4>2 DEF sum
    <3>3. CASE ~c.modeSelect
      <4>1. sum = c.romBankLow + 32 * c.romBankHigh
        BY <3>3
      <4> HIDE DEF sum
      <4>2. sum \in Nat
        BY <3>1, <4>1, BankSum
      <4> QED
        BY <4>2 DEF sum
    <3> QED
      BY <3>2, <3>3
  <2>2. bank = sum % cartridge.romBanks
    BY DEF Mbc1Bank
  <2> HIDE DEF sum
  <2> QED
    BY <2>1, <2>2, CartridgeFacts DEF CpuTypes
<1> HIDE DEF bank
<1>2. /\ cpu' = [c EXCEPT !.romBank = bank]
      /\ bases' = [bases EXCEPT !.ram = ram,
                     !.romHigh = IF bank = cpu.romBank THEN @ ELSE RomCell(bank)]
      /\ NotDirtied /\ UNCHANGED currentRegister
  BY DEF Mbc1Switch, bank
<1>3. bases' = [bases EXCEPT !.ram = ram, !.romHigh = RomCell(bank)]
  BY <1>2 DEF CpuTypes
<1>4. cpu' \in Cpus /\ cpu'.romBank = bank
  BY <1>1, <1>2, CpuFields
<1>5. /\ bases' \in Bases /\ bases'.romHigh = RomCell(bank)
      /\ bases'.ram = ram
  <2>1. RomCell(bank) \in Cells /\ bases \in Bases
    BY <1>1, BankCells DEF CpuTypes
  <2> DEFINE cell == RomCell(bank)
  <2>2. cell \in Cells /\ bases' = [bases EXCEPT !.ram = ram, !.romHigh = cell]
    BY <1>3, <2>1
  <2> HIDE DEF cell
  <2>3. bases' \in Bases /\ bases'.romHigh = cell /\ bases'.ram = ram
    BY <2>1, <2>2 DEF Bases
  <2> QED
    BY <2>3 DEF cell
<1> QED
  BY <1>1, <1>2, <1>4, <1>5, SwitchesStay DEF CpuTypes

-----------------------------------------------------------------------------
(* An MBC5 without RAM is left out: it keeps all bits of the number of a   *)
(* bank that it does not have.                                             *)
Mbc5HasRam == \A c \in Cartridges : c.mbc = 5 => c.ramBanks > 0

LEMMA RamBases ==
  ASSUME CpuTypes
  PROVE  /\ bases.ram \in Cells /\ bases.ram.bank < GB_MAX_RAM_BANKS
         /\ \A b \in Nat : b < GB_MAX_RAM_BANKS =>
              /\ RamBase(b) \in Cells /\ RamBase(b).bank < GB_MAX_RAM_BANKS
              /\ [bases EXCEPT !.ram = RamBase(b)] \in Bases
              /\ [bases EXCEPT !.ram = RamBase(b)].ram = RamBase(b)
              /\ [bases EXCEPT !.ram = RamBase(b)].romHigh = bases.romHigh
<1>1. bases \in Bases /\ bases.ram.bank < GB_MAX_RAM_BANKS
  BY DEF CpuTypes
<1>2. bases.ram \in Cells
  BY <1>1, BasesFields
<1>3. ASSUME NEW b \in Nat, b < GB_MAX_RAM_BANKS
      PROVE  /\ RamBase(b) \in Cells /\ RamBase(b).bank < GB_MAX_RAM_BANKS
             /\ [bases EXCEPT !.ram = RamBase(b)] \in Bases
             /\ [bases EXCEPT !.ram = RamBase(b)].ram = RamBase(b)
             /\ [bases EXCEPT !.ram = RamBase(b)].romHigh = bases.romHigh
  <2>1. RamBase(b) \in Cells /\ RamBase(b).bank = b
    BY BankCells
  <2> DEFINE cell == RamBase(b)
  <2> HIDE DEF cell
  <2>2. cell \in Cells
    BY <2>1 DEF cell
  <2>3. /\ [bases EXCEPT !.ram = cell] \in Bases
        /\ [bases EXCEPT !.ram = cell].ram = cell
        /\ [bases EXCEPT !.ram = cell].romHigh = bases.romHigh
    BY <1>1, <2>2 DEF Bases
  <2> QED
    BY <1>3, <2>1, <2>3 DEF cell
<1> QED
  BY <1>1, <1>2, <1>3

LEMMA Mbc1Safe ==
  ASSUME MbcInv, Mbc1
  PROVE  CpuTypes'
<1>1. CpuTypes /\ cpu \in Cpus
  BY DEF MbcInv, CpuTypes
<1>2. GB_MAX_RAM_BANKS >= 4 /\ GB_MAX_RAM_BANKS \in Nat
  BY <1>1, CartridgeFacts DEF CpuTypes
<1>3. \A areas : HandleWrite(1, areas) =>
        cartridge' = cartridge /\ Data \in 0 .. 255
  BY WriteFrame
<1>4. bases.ram \in Cells /\ bases.ram.bank < GB_MAX_RAM_BANKS
  BY <1>1, RamBases
<1>5. CASE Mbc1EnableRam
  <2>1. HandleWrite(1, {0, 1}) /\ SwitchRam(Data % 16 = 10)
    BY <1>5 DEF Mbc1EnableRam
  <2> DEFINE on == Data % 16 = 10
             c == [cpu EXCEPT !.ramEnabled = on]
  <2>2. Mbc1Switch(c, bases.ram)
    BY <1>5 DEF Mbc1EnableRam
  <2>3. c \in Cpus
    BY <1>1, CpuFields
  <2>4. ramReadCommands' \in Seq(Commands) /\ ramWriteCommands' \in Seq(Commands)
    BY <1>1, <2>1, SwitchesStay
  <2> HIDE DEF c
  <2> QED
    BY <1>1, <1>3, <1>4, <2>1, <2>2, <2>3, <2>4, Mbc1SwitchSafe
<1>6. CASE Mbc1LowBits
  <2> DEFINE c == [cpu EXCEPT !.romBankLow = NonZero(Data % 32)]
  <2>1. HandleWrite(1, {2, 3}) /\ RamSwitchesStay /\ Mbc1Switch(c, bases.ram)
    BY <1>6 DEF Mbc1LowBits
  <2>2. NonZero(Data % 32) \in 1 .. 31
    BY <1>3, <2>1, Remainders
  <2>3. c \in Cpus
    BY <1>1, <2>2, CpuFields
  <2>4. ramReadCommands' \in Seq(Commands) /\ ramWriteCommands' \in Seq(Commands)
    BY <1>1, <2>1, SwitchesStay
  <2> HIDE DEF c
  <2> QED
    BY <1>1, <1>3, <1>4, <2>1, <2>3, <2>4, Mbc1SwitchSafe
<1>7. CASE Mbc1HighBits
  <2>1. HandleWrite(1, {4, 5}) /\ RamSwitchesStay
    BY <1>7 DEF Mbc1HighBits
  <2>2. Data % 4 \in 0 .. 3 /\ Data % 4 \in Nat /\ Data % 4 < 4
    BY <1>3, <2>1, Remainders
  <2>3. ramReadCommands' \in Seq(Commands) /\ ramWriteCommands' \in Seq(Commands)
    BY <1>1, <2>1, SwitchesStay
  <2> DEFINE c == [cpu EXCEPT !.ramBank = Data % 4]
             h == [cpu EXCEPT !.romBankHigh = Data % 4]
  <2>4. Data % 4 \in 0 .. 255
    BY <2>2
  <2>5. c \in Cpus /\ h \in Cpus
    BY <1>1, <2>2, <2>4, CpuFields
  <2>6. RamBase(Data % 4) \in Cells /\ RamBase(Data % 4).bank < GB_MAX_RAM_BANKS
    <3> DEFINE b == Data % 4
    <3>1. b \in Nat /\ b < GB_MAX_RAM_BANKS
      BY <1>2, <2>2
    <3> HIDE DEF b
    <3>2. RamBase(b) \in Cells /\ RamBase(b).bank < GB_MAX_RAM_BANKS
      BY <1>1, <3>1, RamBases
    <3> QED
      BY <3>2 DEF b
  <2>7. Mbc1Switch(c, RamBase(Data % 4)) \/ Mbc1Switch(h, bases.ram)
    BY <1>7 DEF Mbc1HighBits
  <2> HIDE DEF c, h
  <2>8. CASE Mbc1Switch(c, RamBase(Data % 4))
    BY <1>1, <1>3, <2>1, <2>3, <2>5, <2>6, <2>8, Mbc1SwitchSafe
  <2>9. CASE Mbc1Switch(h, bases.ram)
    BY <1>1, <1>3, <1>4, <2>1, <2>3, <2>5, <2>9, Mbc1SwitchSafe
  <2> QED
    BY <2>7, <2>8, <2>9
<1>8. CASE Mbc1Mode
  <2> DEFINE mode == Data % 2 = 1
             c == [cpu EXCEPT !.modeSelect = mode]
  <2>1. HandleWrite(1, {6, 7}) /\ RamSwitchesStay /\ Mbc1Switch(c, bases.ram)
    BY <1>8 DEF Mbc1Mode
  <2>3. c \in Cpus
    BY <1>1, CpuFields
  <2>4. ramReadCommands' \in Seq(Commands) /\ ramWriteCommands' \in Seq(Commands)
    BY <1>1, <2>1, SwitchesStay
  <2> HIDE DEF c
  <2> QED
    BY <1>1, <1>3, <1>4, <2>1, <2>3, <2>4, Mbc1SwitchSafe
<1> QED
  BY <1>5, <1>6, <1>7, <1>8 DEF Mbc1

LEMMA Modulo ==
  ASSUME NEW x \in Nat, NEW n \in Nat, n > 0
  PROVE  x % n \in Nat /\ x % n < n
  OBVIOUS

LEMMA RomBankSafe ==
  ASSUME CpuTypes, cartridge' = cartridge, NEW x \in Nat,
         \/ SwitchRom(x % cartridge.romBanks)
         \/ SwitchRom(NonZero(x % cartridge.romBanks))
  PROVE  CpuTypes'
<1>1. cartridge.romBanks \in Nat /\ cartridge.romBanks > 1
  BY CartridgeFacts DEF CpuTypes
<1> DEFINE bank == x % cartridge.romBanks
<1>2. bank \in Nat /\ bank < cartridge.romBanks
  BY <1>1, Modulo
<1>3. SwitchRom(bank) \/ SwitchRom(NonZero(bank))
  OBVIOUS
<1> HIDE DEF bank
<1>4. NonZero(bank) \in Nat /\ NonZero(bank) < cartridge.romBanks
  BY <1>1, <1>2 DEF NonZero
<1> QED
  BY <1>2, <1>3, <1>4, SwitchRomSafe

\* A write that leaves the number of the ROM bank and the bases of the ROM
\* alone.
LEMMA RegisterSafe ==
  ASSUME CpuTypes, cartridge' = cartridge,
         cpu' \in Cpus, cpu'.romBank = cpu.romBank,
         bases' \in Bases, bases'.romHigh = bases.romHigh,
         bases'.ram.bank < GB_MAX_RAM_BANKS,
         currentRegister' \in 0 .. 4,
         ramDirty' \in BOOLEAN, led' \in {"off", "red", "green"},
         ramReadCommands' \in Seq(Commands), ramWriteCommands' \in Seq(Commands)
  PROVE  CpuTypes'
  BY DEF CpuTypes

\* Enabling and disabling RAM.
LEMMA EnableRamSafe ==
  ASSUME CpuTypes, cartridge' = cartridge, NEW on \in BOOLEAN,
         cpu' = [cpu EXCEPT !.ramEnabled = on],
         ramReadCommands' \in Seq(Commands), ramWriteCommands' \in Seq(Commands),
         NotDirtied, UNCHANGED <<bases, currentRegister>>
  PROVE  CpuTypes'
<1>1. cpu' \in Cpus /\ cpu'.romBank = cpu.romBank
  BY CpuFields DEF CpuTypes
<1>2. ramDirty' \in BOOLEAN /\ led' \in {"off", "red", "green"}
  BY SwitchesStay
<1>3. /\ bases' \in Bases /\ bases'.romHigh = bases.romHigh
      /\ bases'.ram.bank < GB_MAX_RAM_BANKS /\ currentRegister' \in 0 .. 4
  BY DEF CpuTypes
<1> QED
  BY <1>1, <1>2, <1>3, RegisterSafe

LEMMA Mbc2Safe ==
  ASSUME MbcInv, Mbc2
  PROVE  CpuTypes'
<1>1. CpuTypes
  BY DEF MbcInv
<1>2. \A areas : HandleWrite(2, areas) =>
        cartridge' = cartridge /\ Data \in 0 .. 255
  BY WriteFrame
<1>3. CASE Mbc2EnableRam
  <2> DEFINE on == Data = 10
  <2>1. /\ HandleWrite(2, 0 .. 3) /\ SwitchRam(on)
        /\ cpu' = [cpu EXCEPT !.ramEnabled = on]
        /\ NotDirtied /\ UNCHANGED <<bases, currentRegister>>
    BY <1>3 DEF Mbc2EnableRam
  <2>2. ramReadCommands' \in Seq(Commands) /\ ramWriteCommands' \in Seq(Commands)
    BY <1>1, <2>1, SwitchesStay
  <2>3. on \in BOOLEAN
    OBVIOUS
  <2> HIDE DEF on
  <2> QED
    BY <1>1, <1>2, <2>1, <2>2, <2>3, EnableRamSafe
<1>4. CASE Mbc2RomBank
  <2>1. HandleWrite(2, 0 .. 3) /\ SwitchRom(NonZero(Data % cartridge.romBanks))
    BY <1>4 DEF Mbc2RomBank
  <2>2. Data \in Nat
    BY <1>2, <2>1, Remainders
  <2> QED
    BY <1>1, <1>2, <2>1, <2>2, RomBankSafe
<1> QED
  BY <1>3, <1>4 DEF Mbc2

LEMMA Mbc3Safe ==
  ASSUME MbcInv, Mbc3
  PROVE  CpuTypes'
<1>1. CpuTypes /\ cpu \in Cpus /\ bases \in Bases
  BY DEF MbcInv, CpuTypes
<1>2. \A areas : HandleWrite(3, areas) =>
        cartridge' = cartridge /\ Data \in 0 .. 255
  BY WriteFrame
<1>3. GB_MAX_RAM_BANKS >= 4 /\ GB_MAX_RAM_BANKS \in Nat
  BY <1>1, CartridgeFacts DEF CpuTypes
<1>4. CASE Mbc3EnableRam
  <2> DEFINE on == Data % 16 = 10
  <2>1. /\ HandleWrite(3, {0, 1})
        /\ cpu' = [cpu EXCEPT !.ramEnabled = on]
        /\ GbDma_EnableRtc \/ SwitchRam(on)
        /\ NotDirtied /\ UNCHANGED <<bases, currentRegister>>
    BY <1>4 DEF Mbc3EnableRam
  <2>2. ramReadCommands' \in Seq(Commands) /\ ramWriteCommands' \in Seq(Commands)
    BY <1>1, <2>1, SwitchesStay
  <2>3. on \in BOOLEAN
    OBVIOUS
  <2> HIDE DEF on
  <2> QED
    BY <1>1, <1>2, <2>1, <2>2, <2>3, EnableRamSafe
<1>5. CASE Mbc3RomBank
  <2>1. HandleWrite(3, {2, 3}) /\ SwitchRom(NonZero(Data % cartridge.romBanks))
    BY <1>5 DEF Mbc3RomBank
  <2>2. Data \in Nat
    BY <1>2, <2>1, Remainders
  <2> QED
    BY <1>1, <1>2, <2>1, <2>2, RomBankSafe
<1>6. CASE Mbc3RamBank
  <2>1. /\ HandleWrite(3, {4, 5})
        /\ cpu' = [cpu EXCEPT !.ramBank = Data]
        /\ NotDirtied
    BY <1>6 DEF Mbc3RamBank
  <2>2. Data \in 0 .. 255 /\ cartridge' = cartridge
    BY <1>2, <2>1
  <2>3. cpu' \in Cpus /\ cpu'.romBank = cpu.romBank
    BY <1>1, <2>1, <2>2, CpuFields
  <2>4. ramDirty' \in BOOLEAN /\ led' \in {"off", "red", "green"}
    BY <1>1, <2>1, SwitchesStay
  <2>5. CASE /\ GbRtc_ActivateRegister(Data % 8)
             /\ IF cpu.ramEnabled THEN GbDma_EnableRtc ELSE RamSwitchesStay
    <3>1. ramReadCommands' \in Seq(Commands) /\ ramWriteCommands' \in Seq(Commands)
      BY <1>1, <2>5, SwitchesStay
    <3> DEFINE r == Data % 8
    <3>2. r \in Nat
      BY <2>2, Remainders
    <3>3. GbRtc_ActivateRegister(r)
      BY <2>5
    <3> HIDE DEF r
    <3>4. /\ bases' \in Bases /\ bases'.romHigh = bases.romHigh
          /\ bases'.ram = bases.ram /\ currentRegister' \in 0 .. 4
      <4>1. CASE UNCHANGED <<bases, currentRegister>>
        BY <4>1 DEF CpuTypes, MbcInv
      <4>2. CASE ~(r >= 5) /\ ~ UNCHANGED <<bases, currentRegister>>
        <5> DEFINE cell == Cell("rtc", r, 0)
        <5>1. bases' = [bases EXCEPT !.latch = cell] /\ currentRegister' = r
          BY <3>3, <4>2 DEF GbRtc_ActivateRegister
        <5>2. cell \in Cells
          BY <3>2, BankCells
        <5> HIDE DEF cell
        <5>3. /\ bases' \in Bases /\ bases'.romHigh = bases.romHigh
              /\ bases'.ram = bases.ram
          BY <1>1, <5>1, <5>2 DEF Bases
        <5> QED
          BY <3>2, <4>2, <5>1, <5>3
      <4> QED
        BY <3>3, <4>1, <4>2 DEF GbRtc_ActivateRegister
    <3> QED
      BY <1>1, <2>2, <2>3, <2>4, <3>1, <3>4, RegisterSafe DEF CpuTypes
  <2>6. CASE /\ bases' = [bases EXCEPT !.ram = RamBase(Data % 4)]
             /\ IF cpu.ramEnabled THEN GbDma_EnableSaveRam ELSE RamSwitchesStay
             /\ UNCHANGED currentRegister
    <3>1. ramReadCommands' \in Seq(Commands) /\ ramWriteCommands' \in Seq(Commands)
      BY <1>1, <2>6, SwitchesStay
    <3> DEFINE b == Data % 4
    <3>2. b \in Nat /\ b < GB_MAX_RAM_BANKS
      BY <1>3, <2>2, Remainders
    <3>3. bases' = [bases EXCEPT !.ram = RamBase(b)]
      BY <2>6
    <3> HIDE DEF b
    <3>4. /\ bases' \in Bases /\ bases'.romHigh = bases.romHigh
          /\ bases'.ram.bank < GB_MAX_RAM_BANKS
      BY <1>1, <3>2, <3>3, RamBases
    <3> QED
      BY <1>1, <2>2, <2>3, <2>4, <2>6, <3>1, <3>4, RegisterSafe DEF CpuTypes
  <2> QED
    BY <1>6, <2>5, <2>6 DEF Mbc3RamBank
<1>7. CASE Mbc3Latch
  <2> DEFINE latch == Data # 0
  <2>1. /\ HandleWrite(3, {6, 7})
        /\ cpu' = [cpu EXCEPT !.rtcLatch = latch]
        /\ UNCHANGED <<switchVars, currentRegister, ramDirty, led>>
    BY <1>7 DEF Mbc3Latch
  <2>2. latch \in BOOLEAN
    OBVIOUS
  <2> HIDE DEF latch
  <2>3. cpu' \in Cpus /\ cpu'.romBank = cpu.romBank
    BY <1>1, <2>1, <2>2, CpuFields
  <2>4. cartridge' = cartridge
    BY <1>2, <2>1
  <2> QED
    BY <1>1, <2>1, <2>3, <2>4 DEF CpuTypes, switchVars
<1>8. CASE Mbc3RamWritten
  <2>1. /\ HandleWrite(3, {10, 11})
        /\ NotDirtied \/ MarkDirty
        /\ UNCHANGED <<switchVars, cpu, currentRegister>>
    BY <1>8 DEF Mbc3RamWritten
  <2>2. ramDirty' \in BOOLEAN /\ led' \in {"off", "red", "green"}
    BY <1>1, <2>1, SwitchesStay
  <2>3. cartridge' = cartridge
    BY <1>2, <2>1
  <2> QED
    BY <1>1, <2>1, <2>2, <2>3 DEF CpuTypes, switchVars
<1> QED
  BY <1>4, <1>5, <1>6, <1>7, <1>8 DEF Mbc3

LEMMA Mbc5Banks ==
  ASSUME NEW bank \in Nat, NEW x \in 0 .. 255
  PROVE  /\ 256 * (bank \div 256) + x \in Nat
         /\ (bank % 256) + 256 * (x % 2) \in Nat
<1>1. bank \div 256 \in Nat /\ bank % 256 \in Nat /\ x % 2 \in Nat
  OBVIOUS
<1>2. \A a, b \in Nat : 256 * a + b \in Nat /\ b + 256 * a \in Nat
  OBVIOUS
<1> QED
  BY <1>1, <1>2

LEMMA Mbc5Safe ==
  ASSUME Mbc5HasRam, MbcInv, Mbc5
  PROVE  CpuTypes'
<1>1. CpuTypes /\ cpu \in Cpus /\ bases \in Bases /\ cpu.romBank \in Nat
  BY CpuFields DEF MbcInv, CpuTypes
<1>2. \A areas : HandleWrite(5, areas) =>
        Mbc = 5 /\ cartridge' = cartridge /\ Data \in 0 .. 255
  BY WriteFrame
<1>3. CASE Mbc5EnableRam
  <2> DEFINE on == Data % 16 = 10
  <2>1. /\ HandleWrite(5, {0, 1}) /\ SwitchRam(on)
        /\ cpu' = [cpu EXCEPT !.ramEnabled = on]
        /\ NotDirtied /\ UNCHANGED <<bases, currentRegister>>
    BY <1>3 DEF Mbc5EnableRam
  <2>2. ramReadCommands' \in Seq(Commands) /\ ramWriteCommands' \in Seq(Commands)
    BY <1>1, <2>1, SwitchesStay
  <2>3. on \in BOOLEAN
    OBVIOUS
  <2> HIDE DEF on
  <2> QED
    BY <1>1, <1>2, <2>1, <2>2, <2>3, EnableRamSafe
<1>4. CASE Mbc5LowBits
  <2> DEFINE x == 256 * (cpu.romBank \div 256) + Data
  <2>1. HandleWrite(5, {2}) /\ SwitchRom(x % cartridge.romBanks)
    BY <1>4 DEF Mbc5LowBits
  <2>2. x \in Nat
    BY <1>1, <1>2, <2>1, Mbc5Banks
  <2> HIDE DEF x
  <2> QED
    BY <1>1, <1>2, <2>1, <2>2, RomBankSafe
<1>5. CASE Mbc5NinthBit
  <2> DEFINE x == (cpu.romBank % 256) + 256 * (Data % 2)
  <2>1. HandleWrite(5, {3}) /\ SwitchRom(x % cartridge.romBanks)
    BY <1>5 DEF Mbc5NinthBit
  <2>2. x \in Nat
    BY <1>1, <1>2, <2>1, Mbc5Banks
  <2> HIDE DEF x
  <2> QED
    BY <1>1, <1>2, <2>1, <2>2, RomBankSafe
<1>6. CASE Mbc5RamBank
  <2> DEFINE bank == Data % cartridge.ramBanks
  <2>1. HandleWrite(5, {4})
    BY <1>6 DEF Mbc5RamBank
  <2>2. /\ cartridge' = cartridge /\ cartridge \in Cartridges
        /\ Data \in 0 .. 255 /\ cartridge.mbc = 5
    BY <1>1, <1>2, <2>1 DEF CpuTypes, Mbc
  <2>3. /\ cartridge.ramBanks \in Nat /\ cartridge.ramBanks > 0
        /\ cartridge.ramBanks <= GB_MAX_RAM_BANKS
        /\ GB_MAX_RAM_BANKS \in Nat
    BY <2>2, CartridgeFacts DEF Mbc5HasRam
  <2>4. /\ cpu' = [cpu EXCEPT !.ramBank = bank]
        /\ bases' = [bases EXCEPT !.ram = RamBase(bank)]
        /\ RamSwitchesStay /\ NotDirtied /\ UNCHANGED currentRegister
    BY <1>6, <2>3 DEF Mbc5RamBank
  <2>5. bank \in 0 .. 255 /\ bank \in Nat /\ bank < GB_MAX_RAM_BANKS
    <3>1. bank \in Nat /\ bank < cartridge.ramBanks
      BY <2>2, <2>3, Modulo, Remainders
    <3>2. \A x \in 0 .. 255, n \in Nat : n > 0 => x % n <= x
      OBVIOUS
    <3>3. bank <= Data
      BY <2>2, <2>3, <3>2
    <3> QED
      BY <2>2, <2>3, <3>1, <3>3
  <2> HIDE DEF bank
  <2>6. cpu' \in Cpus /\ cpu'.romBank = cpu.romBank
    BY <1>1, <2>4, <2>5, CpuFields
  <2>7. /\ bases' \in Bases /\ bases'.romHigh = bases.romHigh
        /\ bases'.ram.bank < GB_MAX_RAM_BANKS
    BY <1>1, <2>4, <2>5, RamBases
  <2>8. /\ ramReadCommands' \in Seq(Commands) /\ ramWriteCommands' \in Seq(Commands)
        /\ ramDirty' \in BOOLEAN /\ led' \in {"off", "red", "green"}
    BY <1>1, <2>4, SwitchesStay
  <2> QED
    BY <1>1, <2>2, <2>4, <2>6, <2>7, <2>8, RegisterSafe DEF CpuTypes
<1> QED
  BY <1>3, <1>4, <1>5, <1>6 DEF Mbc5

LEMMA WriteSafe ==
  ASSUME Mbc5HasRam, MbcInv, Write
  PROVE  MbcInv'
<1>1. CpuTypes
  BY DEF MbcInv
<1>2. \A mbc, areas : HandleWrite(mbc, areas) =>
        cartridge' = cartridge /\ DmaTypes' /\ BusTypes'
  BY WriteFrame
<1>3. CASE Mbc1 \/ Mbc2 \/ Mbc3 \/ Mbc5
  <2>1. CpuTypes'
    BY <1>3, Mbc1Safe, Mbc2Safe, Mbc3Safe, Mbc5Safe
  <2>2. \E mbc, areas : HandleWrite(mbc, areas)
    <3>1. CASE Mbc1
      BY <3>1 DEF Mbc1, Mbc1EnableRam, Mbc1LowBits, Mbc1HighBits, Mbc1Mode
    <3>2. CASE Mbc2
      BY <3>2 DEF Mbc2, Mbc2EnableRam, Mbc2RomBank
    <3>3. CASE Mbc3
      BY <3>3 DEF Mbc3, Mbc3EnableRam, Mbc3RomBank, Mbc3RamBank, Mbc3Latch,
                  Mbc3RamWritten
    <3>4. CASE Mbc5
      BY <3>4 DEF Mbc5, Mbc5EnableRam, Mbc5LowBits, Mbc5NinthBit, Mbc5RamBank
    <3> QED
      BY <1>3, <3>1, <3>2, <3>3, <3>4
  <2> QED
    BY <1>2, <2>1, <2>2 DEF MbcInv
<1>4. ASSUME NEW mbc, NEW areas, RamWritten(mbc, areas)
      PROVE  MbcInv'
  <2>1. /\ HandleWrite(mbc, areas) /\ MarkDirty
        /\ UNCHANGED <<switchVars, cpu, currentRegister>>
    BY <1>4 DEF RamWritten
  <2>2. ramDirty' \in BOOLEAN /\ led' \in {"off", "red", "green"}
    BY <1>1, <2>1, SwitchesStay
  <2>3. CpuTypes'
    BY <1>1, <1>2, <2>1, <2>2 DEF CpuTypes, switchVars
  <2> QED
    BY <1>2, <2>1, <2>3 DEF MbcInv
<1>5. ASSUME NEW mbc, NEW areas, Ignored(mbc, areas)
      PROVE  MbcInv'
  <2>1. HandleWrite(mbc, areas) /\ UNCHANGED <<switchVars, cpuVars>>
    BY <1>5 DEF Ignored
  <2>2. CpuTypes'
    BY <1>1, <1>2, <2>1 DEF CpuTypes, switchVars, cpuVars
  <2> QED
    BY <1>2, <2>1, <2>2 DEF MbcInv
<1> QED
  BY <1>3, <1>4, <1>5 DEF Write

-----------------------------------------------------------------------------
(* The bus: a cycle begins when the FIFO of the main loop is empty, and    *)
(* ends when it is empty again.                                            *)

\* What the bus leaves alone.
LEMMA CpuFrame ==
  ASSUME CpuTypes, UNCHANGED <<switchVars, cpuVars, cartridge>>
  PROVE  CpuTypes'
  BY DEF CpuTypes, switchVars, cpuVars

LEMMA DmaFrame ==
  ASSUME DmaTypes, UNCHANGED <<armed, chain, accessor>>
  PROVE  DmaTypes'
  BY DEF DmaTypes

LEMMA PushedWord ==
  ASSUME NEW w, main = <<>>
  PROVE  /\ Mbc = 0 => Pushed(main, w) = <<>>
         /\ Mbc # 0 => Pushed(main, w) = <<w>> /\ Pushed(main, w) # <<>>
  BY OneWord DEF Pushed

LEMMA BeginReadSafe ==
  ASSUME MbcInv, NEW area, NEW page, BeginRead(area, page)
  PROVE  MbcInv'
<1> DEFINE w == [write |-> FALSE, area |-> area, odd |-> FALSE]
<1>1. /\ bus = NoCycle /\ main' = Pushed(main, w)
      /\ bus' = Cycle("read", area, FALSE, page, Nothing)
      /\ UNCHANGED <<switchVars, cpuVars, cartridge, armed, chain, accessor>>
  BY DEF BeginRead
<1>2. w.write = FALSE
  OBVIOUS
<1>3. CpuTypes' /\ DmaTypes'
  BY <1>1, CpuFrame, DmaFrame DEF MbcInv
<1>4. main = <<>>
  BY <1>1 DEF MbcInv, BusTypes, Queue, NoCycle
<1>5. bus'.op = "read" /\ "op" \in DOMAIN bus'
  BY <1>1 DEF Cycle
<1> HIDE DEF w
<1>6. main' = <<>> \/ (Mbc # 0 /\ main' = <<w>>)
  BY <1>1, <1>4, PushedWord
<1>7. BusTypes'
  BY <1>1, <1>2, <1>5, <1>6 DEF BusTypes, Queue, Mbc
<1> QED
  BY <1>3, <1>7 DEF MbcInv

LEMMA BeginWriteSafe ==
  ASSUME MbcInv, NEW area, NEW odd, NEW page, NEW data \in 0 .. 255,
         BeginWrite(area, odd, page, data)
  PROVE  MbcInv'
<1> DEFINE w == [write |-> TRUE, area |-> area, odd |-> odd]
<1>1. /\ bus = NoCycle /\ main' = Pushed(main, w)
      /\ bus' = Cycle("address", area, odd, page, data)
      /\ UNCHANGED <<switchVars, cpuVars, cartridge, armed, chain, accessor>>
  BY DEF BeginWrite
<1>2. w.write
  OBVIOUS
<1>3. CpuTypes' /\ DmaTypes'
  BY <1>1, CpuFrame, DmaFrame DEF MbcInv
<1>4. main = <<>>
  BY <1>1 DEF MbcInv, BusTypes, Queue, NoCycle
<1>5. bus'.op = "address" /\ bus'.data = data /\ "op" \in DOMAIN bus'
  BY <1>1 DEF Cycle
<1> HIDE DEF w
<1>6. /\ Mbc = 0 => main' = <<>>
      /\ Mbc # 0 => main' = <<w>> /\ main' # <<>>
  BY <1>1, <1>4, PushedWord
<1>7. BusTypes'
  BY <1>1, <1>2, <1>5, <1>6 DEF BusTypes, Queue, Mbc
<1> QED
  BY <1>3, <1>7 DEF MbcInv

LEMMA PutDataSafe ==
  ASSUME MbcInv, PutData
  PROVE  MbcInv'
<1>1. /\ bus.op = "address" /\ main' = Pushed(main, bus.data)
      /\ bus' = [bus EXCEPT !.op = "write"]
      /\ UNCHANGED <<switchVars, cpuVars, cartridge, armed, chain, accessor>>
  BY DEF PutData
<1>2. CpuTypes' /\ DmaTypes'
  BY <1>1, CpuFrame, DmaFrame DEF MbcInv
<1>3. bus'.op = "write" /\ "op" \in DOMAIN bus'
  BY <1>1 DEF MbcInv, BusTypes
<1>4. /\ bus.data \in 0 .. 255
      /\ main = <<>> \/ \E w : main = <<w>> /\ w.write
      /\ Mbc = 0 => main = <<>>
      /\ Mbc # 0 => main # <<>>
  BY <1>1 DEF MbcInv, BusTypes, Queue
<1>5. CASE Mbc = 0
  <2>1. main' = <<>>
    BY <1>1, <1>4, <1>5, PushedWord
  <2>2. BusTypes'
    BY <1>1, <1>3, <2>1 DEF BusTypes, Queue, Mbc
  <2> QED
    BY <1>2, <2>2 DEF MbcInv
<1>6. CASE Mbc # 0
  <2>1. PICK w : main = <<w>> /\ w.write
    BY <1>4, <1>6
  <2>2. main' = <<w, bus.data>>
    BY <1>1, <1>6, <2>1, AppendToOne DEF Pushed
  <2>3. BusTypes'
    BY <1>1, <1>3, <1>4, <1>6, <2>1, <2>2 DEF BusTypes, Queue, Mbc
  <2> QED
    BY <1>2, <2>3 DEF MbcInv
<1> QED
  BY <1>5, <1>6

LEMMA DriveDataSafe ==
  ASSUME MbcInv, DriveData
  PROVE  MbcInv'
<1>1. /\ bus.op = "read" /\ bus' = [bus EXCEPT !.driven = Head(tx)]
      /\ UNCHANGED <<switchVars, cpuVars, cartridge, armed, chain, accessor, main>>
  BY DEF DriveData
<1>2. CpuTypes' /\ DmaTypes'
  BY <1>1, CpuFrame, DmaFrame DEF MbcInv
<1>3. bus'.op = "read" /\ "op" \in DOMAIN bus'
  BY <1>1 DEF MbcInv, BusTypes
<1>4. BusTypes'
  BY <1>1, <1>3 DEF MbcInv, BusTypes, Queue, Mbc
<1> QED
  BY <1>2, <1>4 DEF MbcInv

LEMMA EndCycleSafe ==
  ASSUME MbcInv, EndCycle
  PROVE  MbcInv'
<1>1. /\ bus.op \in {"read", "write"} /\ ~CpuCanStep /\ bus' = NoCycle
      /\ UNCHANGED <<switchVars, cpuVars, cartridge, armed, chain, accessor, main>>
  BY DEF EndCycle, AtRest
<1>2. CpuTypes' /\ DmaTypes'
  BY <1>1, CpuFrame, DmaFrame DEF MbcInv
<1>3. bus'.op = "none" /\ "op" \in DOMAIN bus'
  BY <1>1 DEF NoCycle
<1>4. ASSUME NEW w, main = <<w>>, ~w.write
      PROVE  FALSE
  BY <1>1, <1>4, OneWord DEF CpuCanStep
<1>5. ASSUME NEW w, NEW d, main = <<w, d>>
      PROVE  FALSE
  BY <1>1, <1>5, TwoWords DEF CpuCanStep
<1>6. main = <<>>
  <2>1. Queue
    BY DEF MbcInv, BusTypes
  <2>2. ~ \E w : main = <<w>> /\ ~w.write
    BY <1>4, Zenon
  <2>3. ~ \E w : \E d \in 0 .. 255 : main = <<w, d>> /\ w.write
    BY <1>5, Zenon
  <2>4. bus.op = "read" \/ bus.op = "write"
    BY <1>1
  <2> QED
    BY <2>1, <2>2, <2>3, <2>4, Zenon DEF Queue
<1>7. BusTypes'
  BY <1>1, <1>3, <1>6 DEF BusTypes, Queue
<1> QED
  BY <1>2, <1>7 DEF MbcInv

LEMMA HandleReadSafe ==
  ASSUME MbcInv, HandleRead
  PROVE  MbcInv'
<1>1. /\ main # <<>> /\ ~main[1].write
      /\ main' = SubSeq(main, 1 + 1, Len(main))
      /\ UNCHANGED <<switchVars, cpuVars, cartridge, armed, chain, accessor, bus>>
  BY DEF HandleRead, Take, dmaVars, gameVars
<1>2. CpuTypes' /\ DmaTypes'
  BY <1>1, CpuFrame, DmaFrame DEF MbcInv
<1>3. ASSUME NEW w, main = <<w>>
      PROVE  main[1] = w /\ main' = <<>>
  BY <1>1, <1>3, OneWord
<1>4. ASSUME NEW w, NEW d, main = <<w, d>>, w.write
      PROVE  FALSE
  BY <1>1, <1>4, TwoWords
<1>5. bus.op = "read" /\ \E w : main = <<w>>
  <2>1. Queue
    BY DEF MbcInv, BusTypes
  <2>2. ~ \E w : main = <<w>> /\ w.write
    BY <1>1, <1>3, Zenon
  <2>3. ~ \E w : \E d \in 0 .. 255 : main = <<w, d>> /\ w.write
    BY <1>4, Zenon
  <2>4. main # <<>>
    BY <1>1
  <2> QED
    BY <2>1, <2>2, <2>3, <2>4, Zenon DEF Queue
<1>6. main' = <<>>
  BY <1>3, <1>5
<1>7. BusTypes'
  BY <1>1, <1>5, <1>6 DEF MbcInv, BusTypes, Queue
<1> QED
  BY <1>2, <1>7 DEF MbcInv

-----------------------------------------------------------------------------
(* The channels: each command leaves the accessor with the fields it has   *)
(* and with a channel to arm.                                              *)

LEMMA AccessorUpdates ==
  ASSUME NEW a, DOMAIN a = AccessorFields, a.chainTo \in Machines
  PROVE  /\ \A v : /\ DOMAIN [a EXCEPT !.read = v] = AccessorFields
                   /\ [a EXCEPT !.read = v].chainTo \in Machines
         /\ \A v : /\ DOMAIN [a EXCEPT !.write = v] = AccessorFields
                   /\ [a EXCEPT !.write = v].chainTo \in Machines
         /\ \A v : /\ DOMAIN [a EXCEPT !.read = v, !.busy = TRUE] = AccessorFields
                   /\ [a EXCEPT !.read = v, !.busy = TRUE].chainTo \in Machines
         /\ \A m \in Machines, p \in BOOLEAN :
              /\ DOMAIN [a EXCEPT !.chainTo = m, !.paced = p] = AccessorFields
              /\ [a EXCEPT !.chainTo = m, !.paced = p].chainTo \in Machines
  BY DEF AccessorFields

LEMMA DmaSafe ==
  ASSUME MbcInv, Dma
  PROVE  MbcInv'
<1>1. DmaStep /\ UNCHANGED <<switchVars, cpuVars, main, cartridge, bus>>
  BY DEF Dma, gameVars
<1>2. CpuTypes' /\ BusTypes'
  BY <1>1, CpuFrame DEF MbcInv, BusTypes, Queue, Mbc
<1>3. /\ armed \subseteq Machines /\ chain \in Seq(Commands)
      /\ DOMAIN accessor = AccessorFields /\ accessor.chainTo \in Machines
      /\ ramReadCommands \in Seq(Commands) /\ ramWriteCommands \in Seq(Commands)
  BY DEF MbcInv, DmaTypes, CpuTypes
<1>4. ASSUME NEW m \in Machines, Request(m)
      PROVE  DmaTypes'
  <2>1. armed' \subseteq Machines
    BY <1>3, <1>4 DEF Request
  <2>2. chain' \in Seq(Commands)
    BY <1>3, <1>4, ChainsAreCommands DEF Request, Machines
  <2>3. DOMAIN accessor' = AccessorFields /\ accessor'.chainTo \in Machines
    <3> DEFINE idle == [Idle EXCEPT !.chainTo = m, !.write = TxFifo]
    <3>1. DOMAIN idle = AccessorFields /\ idle.chainTo = m
      BY DEF Idle, AccessorFields
    <3> HIDE DEF idle
    <3>2. accessor' = idle \/ accessor' = accessor
      BY <1>4 DEF Request, idle
    <3> QED
      BY <1>3, <3>1, <3>2
  <2> QED
    BY <2>1, <2>2, <2>3 DEF DmaTypes
<1>5. ASSUME Execute
      PROVE  DmaTypes'
  <2> DEFINE c == Head(chain)
  <2>1. chain # <<>> /\ chain' = Tail(chain) /\ armed' = armed
    BY <1>5 DEF Execute, CanExecute
  <2>2. c \in Commands /\ chain' \in Seq(Commands)
    BY <1>3, <2>1
  <2>3. accessor' = IF c.to = "ctrl" THEN Controlled(accessor, c.from)
                    ELSE Loaded(accessor, c.to, Value(c.from))
    BY <1>5 DEF Execute
  <2>4. c.to \in Destinations
    BY <2>2 DEF Commands
  <2>5. DOMAIN accessor' = AccessorFields /\ accessor'.chainTo \in Machines
    <3>1. ASSUME NEW from
          PROVE  /\ DOMAIN Controlled(accessor, from) = AccessorFields
                 /\ Controlled(accessor, from).chainTo \in Machines
      BY <1>3, AccessorUpdates DEF Controlled, Machines
    <3>2. ASSUME NEW to \in Destinations, to # "ctrl", NEW v
          PROVE  /\ DOMAIN Loaded(accessor, to, v) = AccessorFields
                 /\ Loaded(accessor, to, v).chainTo \in Machines
      BY <1>3, <3>2, AccessorUpdates DEF Loaded, Destinations
    <3> QED
      BY <2>3, <2>4, <3>1, <3>2
  <2> QED
    BY <1>3, <2>1, <2>2, <2>5 DEF DmaTypes
<1>6. ASSUME Access
      PROVE  DmaTypes'
  <2>1. /\ accessor' = Idle /\ UNCHANGED chain
        /\ armed' = armed \cup {accessor.chainTo}
    BY <1>6 DEF Access
  <2>2. DOMAIN Idle = AccessorFields /\ Idle.chainTo \in Machines
    BY DEF Idle, AccessorFields, Machines
  <2> QED
    BY <1>3, <2>1, <2>2 DEF DmaTypes
<1>7. DmaTypes'
  BY <1>1, <1>4, <1>5, <1>6 DEF DmaStep
<1> QED
  BY <1>2, <1>7 DEF MbcInv

LEMMA StoreSaveGameSafe ==
  ASSUME MbcInv, StoreSaveGame
  PROVE  MbcInv'
<1>1. /\ UNCHANGED <<switchVars, cpu, currentRegister, cartridge, bus, main>>
      /\ UNCHANGED <<armed, chain, accessor>>
      /\ ramDirty' = FALSE /\ led' = "green"
  BY DEF StoreSaveGame, gameVars, dmaVars
<1>2. CpuTypes'
  BY <1>1 DEF MbcInv, CpuTypes, switchVars
<1>3. DmaTypes' /\ BusTypes'
  BY <1>1, DmaFrame DEF MbcInv, BusTypes, Queue, Mbc
<1> QED
  BY <1>2, <1>3 DEF MbcInv

-----------------------------------------------------------------------------
LEMMA InitSafe ==
  ASSUME Init
  PROVE  MbcInv
<1>1. cartridge \in Cartridges
  BY DEF Init
<1>2. /\ cartridge.romBanks > 1 /\ cartridge.romBanks \in Nat
      /\ GB_MAX_RAM_BANKS >= 4 /\ GB_MAX_RAM_BANKS \in Nat
  BY <1>1, CartridgeFacts
<1>3. /\ cpu = [romBank |-> 1, romBankLow |-> 1, romBankHigh |-> 0, ramBank |-> 0,
                modeSelect |-> FALSE, ramEnabled |-> FALSE, rtcLatch |-> FALSE]
      /\ currentRegister = 0 /\ ramDirty = FALSE /\ led = "off"
      /\ ramReadCommands = RAM_DUMMY_READ /\ ramWriteCommands = RAM_DUMMY_WRITE
  BY DEF Init
<1>4. cpu \in Cpus /\ cpu.romBank = 1
  BY <1>3 DEF Cpus
<1>5. bases \in Bases /\ bases.romHigh = RomCell(1) /\ bases.ram.bank = 0
  <2> DEFINE top == IF Mbc = 2 THEN TopPage ELSE 0
  <2>1. bases = [romLow |-> Cell("rom", 0, 0), romHigh |-> Cell("rom", 1, 0),
                 ram |-> Cell("ram", 0, top), latch |-> Cell("rtc", 0, 0)]
    BY DEF Init
  <2>2. top \in {0, TopPage}
    OBVIOUS
  <2> HIDE DEF top
  <2>3. /\ Cell("rom", 0, 0) \in Cells /\ Cell("rom", 1, 0) \in Cells
        /\ Cell("ram", 0, top) \in Cells /\ Cell("rtc", 0, 0) \in Cells
        /\ Cell("ram", 0, top).bank = 0
    BY <2>2 DEF Cells, Cell
  <2> QED
    BY <2>1, <2>3 DEF Bases, RomCell
<1>6. CpuTypes
  <2>1. cpu.romBank < cartridge.romBanks /\ bases.romHigh = RomCell(cpu.romBank)
    BY <1>2, <1>4, <1>5
  <2>2. bases.ram.bank < GB_MAX_RAM_BANKS
    BY <1>2, <1>5
  <2>3. ramReadCommands \in Seq(Commands) /\ ramWriteCommands \in Seq(Commands)
    BY <1>3, ChainsAreCommands, Zenon
  <2>4. currentRegister \in 0 .. 4
    <3>1. currentRegister = 0
      BY <1>3, Zenon
    <3> QED
      BY <3>1
  <2>5. ramDirty \in BOOLEAN /\ led \in {"off", "red", "green"}
    BY <1>3, Zenon
  <2> QED
    BY <1>1, <1>4, <1>5, <2>1, <2>2, <2>3, <2>4, <2>5 DEF CpuTypes
<1>7. DmaTypes
  BY DEF Init, DmaInit, DmaTypes, Idle, AccessorFields, Machines
<1>8. BusTypes
  BY DEF Init, BusTypes, Queue, NoCycle
<1> QED
  BY <1>6, <1>7, <1>8 DEF MbcInv

LEMMA StepSafe ==
  ASSUME Mbc5HasRam, MbcInv, [Next]_vars
  PROVE  MbcInv'
<1>1. CASE GameReads
  BY <1>1, BeginReadSafe DEF GameReads
<1>2. CASE GameWrites
  <2>1. PICK area \in DOMAIN DataFor[Mbc] : \E data \in DataFor[Mbc][area] :
          \E page, odd : BeginWrite(area, odd, page, data)
    BY <1>2 DEF GameWrites
  <2>2. PICK data \in DataFor[Mbc][area] :
          \E page, odd : BeginWrite(area, odd, page, data)
    BY <2>1
  <2>3. data \in 0 .. 255
    BY GameData DEF MbcInv, CpuTypes
  <2> QED
    BY <2>2, <2>3, BeginWriteSafe
<1>3. CASE UNCHANGED vars
  <2>1. /\ UNCHANGED <<switchVars, cpuVars, cartridge, bus, main>>
        /\ UNCHANGED <<armed, chain, accessor>>
    BY <1>3 DEF vars, dmaVars, gameVars
  <2>2. BusTypes'
    BY <2>1 DEF MbcInv, BusTypes, Queue, Mbc
  <2> QED
    BY <2>1, <2>2, CpuFrame, DmaFrame DEF MbcInv
<1> QED
  BY <1>1, <1>2, <1>3, PutDataSafe, DriveDataSafe, EndCycleSafe, HandleReadSafe,
     WriteSafe, DmaSafe, StoreSaveGameSafe DEF Next

LEMMA SafeIsTyped ==
  ASSUME MbcInv
  PROVE  TypeOK
<1>1. CpuTypes /\ armed \subseteq Machines
  BY DEF MbcInv, DmaTypes
<1>2. cpu \in Cpus /\ bases \in Bases
  BY <1>1 DEF CpuTypes
<1>3. /\ cpu.romBank \in Nat /\ cpu.romBankLow \in 1 .. 31
      /\ cpu.romBankHigh \in 0 .. 3 /\ cpu.ramBank \in 0 .. 255
      /\ cpu.modeSelect \in BOOLEAN /\ cpu.ramEnabled \in BOOLEAN
      /\ cpu.rtcLatch \in BOOLEAN
  BY <1>2 DEF Cpus
<1>4. cpu.romBank \in 0 .. cartridge.romBanks - 1
  BY <1>1, <1>3, CartridgeFacts DEF CpuTypes
<1>5. bases.ram.bank \in 0 .. GB_MAX_RAM_BANKS - 1
  <2>1. bases.ram.bank \in Nat
    BY <1>2, BasesFields DEF Cells
  <2> QED
    BY <1>1, <2>1, CartridgeFacts DEF CpuTypes
<1> QED
  BY <1>1, <1>3, <1>4, <1>5 DEF CpuTypes, TypeOK

(***************************************************************************)
(* Whatever a game writes to the registers of its controller, with any     *)
(* number of banks: the bank of the upper ROM area is one that was loaded  *)
(* (_numRomBanks), the RAM base stays in ram_memory (GB_MAX_RAM_BANKS),    *)
(* the clock register is one of the five, and the base that the DMA        *)
(* channels use is the bank the main loop believes it has selected.        *)
(***************************************************************************)
THEOREM BanksStayInRange ==
  ASSUME Mbc5HasRam
  PROVE  Spec => []TypeOK
<1>1. Init => MbcInv
  BY InitSafe
<1>2. MbcInv /\ [Next]_vars => MbcInv'
  BY StepSafe
<1>3. MbcInv => TypeOK
  BY SafeIsTyped
<1> QED
  BY <1>1, <1>2, <1>3, PTL DEF Spec

-----------------------------------------------------------------------------
(* Every bus cycle ends with nothing of it left in a FIFO or a channel, and *)
(* a write that reaches the RAM turns the LED red. Both need to know where  *)
(* a cycle is: which channel it has set off and how many commands of its    *)
(* chain have been executed (Stage), while the main loop handles the same   *)
(* cycle at any time in between.                                            *)

Words == {0, TopPage} \cup 0 .. 255
ForRom == {"romLow", "romHigh"}
Reads == ForRom \cup {"ramRead"}

Chains(m) ==
  CASE m = "romLow" -> {LOWER_ROM_READ}
    [] m = "romHigh" -> {DIRECT_SSI}
    [] m = "ramRead" -> {RAM_READ, RAM_DUMMY_READ, RTC_READ}
    [] m = "ramWrite" -> {RAM_WRITE, RAM_DUMMY_WRITE}

(* The command of a chain that takes the address out of the FIFO. *)
TakesAddress(m) == IF m = "ramRead" THEN 3 ELSE IF m = "ramWrite" THEN 2 ELSE 1

OnlyIn(m, n) ==
  /\ Len(rx[m]) = n
  /\ \A k \in Machines \ {m} : rx[k] = <<>>

Resting ==
  /\ armed = Machines /\ chain = <<>> /\ accessor = Idle
  /\ \A m \in Machines : rx[m] = <<>>

(* A cycle of channel m, with so many words of data in its FIFO: first     *)
(* nothing has happened, then n commands of the chain have been executed.  *)
Waiting(m, more) ==
  /\ armed = Machines /\ chain = <<>> /\ accessor = Idle
  /\ OnlyIn(m, 1 + more)

Stage(m, commands, n, more) ==
  /\ armed = Machines \ {m}
  /\ OnlyIn(m, more + IF n < TakesAddress(m) THEN 1 ELSE 0)
  /\ Len(chain) = Len(commands) - n
  /\ \A i \in 1 .. Len(chain) : chain[i] = commands[n + i]
  /\ accessor.busy <=> n = Len(commands)
  /\ n > 0 \/ m \in ForRom => accessor.chainTo = m
  /\ accessor.paced <=> m = "ramWrite" /\ n > 0
  /\ commands = RAM_DUMMY_WRITE /\ n > 2 => accessor.write = DevNull

Underway(m, more) ==
  \/ Waiting(m, more)
  \/ \E commands \in Chains(m) : \E n \in 0 .. Len(commands) :
       /\ Stage(m, commands, n, more)
       /\ m = "ramWrite" => commands = ramWriteCommands

WritesRam == bus.op \in {"address", "write"} /\ InRam(bus.area) /\ Mbc # 0

(* A read sets off one channel; a write to RAM the one for writes, which   *)
(* cannot end before the data has come.                                    *)
Place ==
  \/ Resting /\ (bus.op = "address" => ~WritesRam)
  \/ bus.op = "read" /\ \E m \in Reads : Underway(m, 0)
  \/ bus.op = "address" /\ WritesRam /\ Underway("ramWrite", 0)
  \/ bus.op = "write" /\ WritesRam /\ Underway("ramWrite", 1)

BusFields == {"op", "area", "odd", "page", "data", "driven"}

CycleInv ==
  /\ rx \in [Machines -> Seq(Words)]
  /\ bus.op # "read" => tx = <<>>
  /\ ramReadCommands \in Chains("ramRead")
  /\ ramWriteCommands \in Chains("ramWrite")
  /\ main # <<>> => main[1].area = bus.area
  /\ bus.op = "none" => bus = NoCycle
  /\ bus.op # "none" => DOMAIN bus = BusFields
  /\ Place

-----------------------------------------------------------------------------
(* The chains.                                                             *)

Fifos == {"rxRomLow", "rxRomHigh", "rxRamRead", "rxRamWrite"}

LEMMA FifoNames ==
  /\ DOMAIN FifoOf = Fifos
  /\ FifoOf["rxRomLow"] = "romLow" /\ FifoOf["rxRomHigh"] = "romHigh"
  /\ FifoOf["rxRamRead"] = "ramRead" /\ FifoOf["rxRamWrite"] = "ramWrite"
  BY DEF FifoOf, Fifos

\* A chain has one command for the address and ends with the one that goes.
ShapedLike(m, c) ==
  /\ c \in Seq(Commands)
  /\ Len(c) = IF m \in ForRom THEN 2 ELSE 4
  /\ \A i \in 1 .. Len(c) :
       /\ c[i].to \in Destinations
       /\ c[i].from \in Fifos <=> i = TakesAddress(m)
       /\ i = TakesAddress(m) => FifoOf[c[i].from] = m
       /\ c[i].to \in {"readGo", "readOrGo"} <=> i = Len(c)
       /\ c[i].to = "ctrl" <=> i = 1 /\ m \notin ForRom
  /\ m = "ramRead" => c[1].from = "RAM_READ_DMA_CTRL"
  /\ m = "ramWrite" => c[1].from = "RAM_WRITE_DMA_CTRL"

LEMMA TwoCommands ==
  ASSUME NEW a, NEW b
  PROVE  Len(<<a, b>>) = 2 /\ <<a, b>>[1] = a /\ <<a, b>>[2] = b
  OBVIOUS

LEMMA FourCommands ==
  ASSUME NEW a, NEW b, NEW c, NEW d
  PROVE  /\ Len(<<a, b, c, d>>) = 4 /\ <<a, b, c, d>>[1] = a
         /\ <<a, b, c, d>>[2] = b /\ <<a, b, c, d>>[3] = c /\ <<a, b, c, d>>[4] = d
  OBVIOUS

LEMMA RomShape ==
  /\ ShapedLike("romLow", LOWER_ROM_READ)
  /\ ShapedLike("romHigh", DIRECT_SSI)
<1>1. \A from, to : Cmd(from, to).from = from /\ Cmd(from, to).to = to
  BY DEF Cmd
<1>2. /\ Len(LOWER_ROM_READ) = 2
      /\ LOWER_ROM_READ[1].from = "rxRomLow" /\ LOWER_ROM_READ[1].to = "read"
      /\ LOWER_ROM_READ[2].from = "rom_low_base" /\ LOWER_ROM_READ[2].to = "readOrGo"
  BY <1>1, TwoCommands DEF LOWER_ROM_READ
<1>3. /\ Len(DIRECT_SSI) = 2
      /\ DIRECT_SSI[1].from = "rxRomHigh" /\ DIRECT_SSI[1].to = "read"
      /\ DIRECT_SSI[2].from = "rom_high_base" /\ DIRECT_SSI[2].to = "readOrGo"
  BY <1>1, TwoCommands DEF DIRECT_SSI
<1>4. ShapedLike("romLow", LOWER_ROM_READ)
  BY <1>2, FifoNames, ChainsAreCommands
     DEF ShapedLike, ForRom, Destinations, Fifos, TakesAddress
<1>5. ShapedLike("romHigh", DIRECT_SSI)
  BY <1>3, FifoNames, ChainsAreCommands
     DEF ShapedLike, ForRom, Destinations, Fifos, TakesAddress
<1> QED
  BY <1>4, <1>5

LEMMA RamReadShape ==
  /\ ShapedLike("ramRead", RAM_READ) /\ ShapedLike("ramRead", RAM_DUMMY_READ)
  /\ ShapedLike("ramRead", RTC_READ)
<1>1. \A from, to : Cmd(from, to).from = from /\ Cmd(from, to).to = to
  BY DEF Cmd
<1>2. ASSUME NEW c, c \in Seq(Commands), Len(c) = 4,
             c[1].from = "RAM_READ_DMA_CTRL", c[1].to = "ctrl",
             c[2].from \in {"txFifo", "devNullPtr"}, c[2].to = "write",
             c[3].from = "rxRamRead", c[3].to \in {"read", "devNull"},
             c[4].from \in {"ram_base", "rtcLatchPtr"},
             c[4].to \in {"readOrGo", "readGo"}
      PROVE  ShapedLike("ramRead", c)
  BY <1>2, FifoNames DEF ShapedLike, ForRom, Destinations, Fifos, TakesAddress
<1>3. ShapedLike("ramRead", RAM_READ)
  <2>1. /\ Len(RAM_READ) = 4
        /\ RAM_READ[1].from = "RAM_READ_DMA_CTRL" /\ RAM_READ[1].to = "ctrl"
        /\ RAM_READ[2].from = "txFifo" /\ RAM_READ[2].to = "write"
        /\ RAM_READ[3].from = "rxRamRead" /\ RAM_READ[3].to = "read"
        /\ RAM_READ[4].from = "ram_base" /\ RAM_READ[4].to = "readOrGo"
    BY <1>1, FourCommands DEF RAM_READ
  <2> QED
    BY <1>2, <2>1, ChainsAreCommands
<1>4. ShapedLike("ramRead", RAM_DUMMY_READ)
  <2> DEFINE c == RAM_DUMMY_READ
  <2>1. /\ Len(c) = 4
        /\ c[1].from = "RAM_READ_DMA_CTRL" /\ c[1].to = "ctrl"
        /\ c[2].from = "devNullPtr" /\ c[2].to = "write"
        /\ c[3].from = "rxRamRead" /\ c[3].to = "read"
        /\ c[4].from = "ram_base" /\ c[4].to = "readOrGo"
    BY <1>1, FourCommands DEF RAM_DUMMY_READ
  <2> QED
    BY <1>2, <2>1, ChainsAreCommands
<1>5. ShapedLike("ramRead", RTC_READ)
  <2> DEFINE c == RTC_READ
  <2>1. /\ Len(c) = 4
        /\ c[1].from = "RAM_READ_DMA_CTRL" /\ c[1].to = "ctrl"
        /\ c[2].from = "txFifo" /\ c[2].to = "write"
        /\ c[3].from = "rxRamRead" /\ c[3].to = "devNull"
        /\ c[4].from = "rtcLatchPtr" /\ c[4].to = "readGo"
    BY <1>1, FourCommands DEF RTC_READ
  <2> QED
    BY <1>2, <2>1, ChainsAreCommands
<1> QED
  BY <1>3, <1>4, <1>5

LEMMA RamWriteShape ==
  /\ ShapedLike("ramWrite", RAM_WRITE) /\ ShapedLike("ramWrite", RAM_DUMMY_WRITE)
  /\ RAM_DUMMY_WRITE[3].to = "write" /\ RAM_DUMMY_WRITE[3].from = "devNullPtr"
  /\ RAM_DUMMY_WRITE[4].to = "readGo" /\ Len(RAM_DUMMY_WRITE) = 4
  /\ RAM_WRITE # RAM_DUMMY_WRITE
<1>1. \A from, to : Cmd(from, to).from = from /\ Cmd(from, to).to = to
  BY DEF Cmd
<1>2. ASSUME NEW c, c \in Seq(Commands), Len(c) = 4,
             c[1].from = "RAM_WRITE_DMA_CTRL", c[1].to = "ctrl",
             c[2].from = "rxRamWrite", c[2].to \in {"write", "devNull"},
             c[3].from \in {"ram_base", "devNullPtr"},
             c[3].to \in {"writeOr", "write"},
             c[4].from = "rxFifoRamWrite", c[4].to = "readGo"
      PROVE  ShapedLike("ramWrite", c)
  BY <1>2, FifoNames DEF ShapedLike, ForRom, Destinations, Fifos, TakesAddress
<1>3. /\ Len(RAM_WRITE) = 4
      /\ RAM_WRITE[1].from = "RAM_WRITE_DMA_CTRL" /\ RAM_WRITE[1].to = "ctrl"
      /\ RAM_WRITE[2].from = "rxRamWrite" /\ RAM_WRITE[2].to = "write"
      /\ RAM_WRITE[3].from = "ram_base" /\ RAM_WRITE[3].to = "writeOr"
      /\ RAM_WRITE[4].from = "rxFifoRamWrite" /\ RAM_WRITE[4].to = "readGo"
  BY <1>1, FourCommands DEF RAM_WRITE
<1>4. /\ Len(RAM_DUMMY_WRITE) = 4
      /\ RAM_DUMMY_WRITE[1].from = "RAM_WRITE_DMA_CTRL"
      /\ RAM_DUMMY_WRITE[1].to = "ctrl"
      /\ RAM_DUMMY_WRITE[2].from = "rxRamWrite" /\ RAM_DUMMY_WRITE[2].to = "devNull"
      /\ RAM_DUMMY_WRITE[3].from = "devNullPtr" /\ RAM_DUMMY_WRITE[3].to = "write"
      /\ RAM_DUMMY_WRITE[4].from = "rxFifoRamWrite"
      /\ RAM_DUMMY_WRITE[4].to = "readGo"
  BY <1>1, FourCommands DEF RAM_DUMMY_WRITE
<1>5. ShapedLike("ramWrite", RAM_WRITE)
  BY <1>2, <1>3, ChainsAreCommands
<1>6. ShapedLike("ramWrite", RAM_DUMMY_WRITE)
  BY <1>2, <1>4, ChainsAreCommands
<1>7. RAM_WRITE # RAM_DUMMY_WRITE
  BY <1>3, <1>4
<1> QED
  BY <1>4, <1>5, <1>6, <1>7

LEMMA EveryShape ==
  ASSUME NEW m \in Machines, NEW c \in Chains(m)
  PROVE  ShapedLike(m, c)
  BY RomShape, RamReadShape, RamWriteShape DEF Machines, Chains

\* What one command does to the accessor.
LEMMA Updated ==
  ASSUME NEW a, DOMAIN a = AccessorFields, NEW v
  PROVE  /\ [a EXCEPT !.write = v].chainTo = a.chainTo
         /\ [a EXCEPT !.write = v].paced = a.paced
         /\ [a EXCEPT !.write = v].busy = a.busy
         /\ [a EXCEPT !.write = v].write = v
         /\ [a EXCEPT !.read = v].chainTo = a.chainTo
         /\ [a EXCEPT !.read = v].paced = a.paced
         /\ [a EXCEPT !.read = v].busy = a.busy
         /\ [a EXCEPT !.read = v, !.busy = TRUE].chainTo = a.chainTo
         /\ [a EXCEPT !.read = v, !.busy = TRUE].paced = a.paced
         /\ [a EXCEPT !.read = v, !.busy = TRUE].busy = TRUE
         /\ [a EXCEPT !.read = v, !.busy = TRUE].write = a.write
  BY DEF AccessorFields

LEMMA LoadedKeeps ==
  ASSUME NEW a, NEW to, NEW v,
         DOMAIN a = AccessorFields, to \in Destinations \ {"ctrl"}
  PROVE  /\ Loaded(a, to, v).chainTo = a.chainTo
         /\ Loaded(a, to, v).paced = a.paced
  BY Updated DEF Loaded, Destinations

LEMMA LoadedGoes ==
  ASSUME NEW a, NEW to, NEW v,
         DOMAIN a = AccessorFields, to \in {"readGo", "readOrGo"}
  PROVE  /\ Loaded(a, to, v).busy = TRUE
         /\ Loaded(a, to, v).write = a.write
  BY Updated DEF Loaded

LEMMA LoadedStays ==
  ASSUME NEW a, NEW to, NEW v, DOMAIN a = AccessorFields,
         to \in Destinations \ {"ctrl", "readGo", "readOrGo"}
  PROVE  Loaded(a, to, v).busy = a.busy
  BY Updated DEF Loaded, Destinations

LEMMA LoadedWrite ==
  ASSUME NEW a, NEW v, DOMAIN a = AccessorFields
  PROVE  Loaded(a, "write", v).write = v
  BY DEF Loaded, AccessorFields

LEMMA ControlledFields ==
  ASSUME NEW a, DOMAIN a = AccessorFields, NEW from
  PROVE  /\ Controlled(a, from).busy = a.busy
         /\ from = "RAM_READ_DMA_CTRL" =>
              /\ Controlled(a, from).chainTo = "ramRead"
              /\ Controlled(a, from).paced = FALSE
         /\ from = "RAM_WRITE_DMA_CTRL" =>
              /\ Controlled(a, from).chainTo = "ramWrite"
              /\ Controlled(a, from).paced = TRUE
  BY DEF Controlled, AccessorFields

-----------------------------------------------------------------------------
(* The steps of the channels.                                              *)

LEMMA ShapeSize ==
  ASSUME NEW m \in Machines, NEW c \in Chains(m)
  PROVE  /\ Len(c) \in {2, 4} /\ TakesAddress(m) \in 1 .. 3
         /\ TakesAddress(m) < Len(c) /\ RAM_DUMMY_WRITE \notin Chains("ramRead")
         /\ (c = RAM_DUMMY_WRITE => m = "ramWrite")
<1>1. ShapedLike(m, c)
  BY EveryShape
<1>2. Len(c) \in {2, 4} /\ TakesAddress(m) \in 1 .. 3 /\ TakesAddress(m) < Len(c)
  BY <1>1 DEF ShapedLike, TakesAddress, ForRom, Machines
<1>3. ASSUME NEW k \in Reads
      PROVE  RAM_DUMMY_WRITE \notin Chains(k)
  <2>1. ASSUME RAM_DUMMY_WRITE \in Chains(k)
        PROVE  FALSE
    <3>1. ShapedLike(k, RAM_DUMMY_WRITE)
      BY <2>1, EveryShape DEF Reads, ForRom, Machines
    <3>2. TakesAddress(k) \in {1, 3} /\ TakesAddress("ramWrite") = 2
      BY DEF TakesAddress, Reads, ForRom
    <3>3. Len(RAM_DUMMY_WRITE) = 4 /\ 2 \in 1 .. 4
      BY RamWriteShape
    <3>4. ShapedLike("ramWrite", RAM_DUMMY_WRITE)
      BY RamWriteShape
    <3>5. RAM_DUMMY_WRITE[2].from \in Fifos
      BY <3>2, <3>3, <3>4 DEF ShapedLike
    <3>6. 2 = TakesAddress(k)
      BY <3>1, <3>3, <3>5 DEF ShapedLike
    <3> QED
      BY <3>2, <3>6
  <2> QED
    BY <2>1
<1> QED
  BY <1>2, <1>3 DEF Reads, ForRom, Machines

LEMMA ExecuteStage ==
  ASSUME MbcInv, rx \in [Machines -> Seq(Words)],
         NEW m \in Machines, NEW c \in Chains(m), NEW n \in 0 .. Len(c),
         NEW more \in {0, 1}, Stage(m, c, n, more), Execute
  PROVE  /\ n + 1 \in 0 .. Len(c) /\ Stage(m, c, n + 1, more)'
         /\ rx' \in [Machines -> Seq(Words)] /\ UNCHANGED <<tx, wrote>>
<1> DEFINE k == c[n + 1]
<1>1. ShapedLike(m, c) /\ Len(c) \in {2, 4} /\ TakesAddress(m) \in 1 .. 3
  BY EveryShape, ShapeSize
<1>2. /\ DOMAIN accessor = AccessorFields /\ chain \in Seq(Commands)
  BY DEF MbcInv, DmaTypes
<1>3. /\ chain # <<>> /\ chain' = Tail(chain) /\ armed' = armed
      /\ Head(chain).from \in DOMAIN FifoOf => rx[FifoOf[Head(chain).from]] # <<>>
      /\ accessor' = IF Head(chain).to = "ctrl"
                     THEN Controlled(accessor, Head(chain).from)
                     ELSE Loaded(accessor, Head(chain).to, Value(Head(chain).from))
      /\ rx' = IF Head(chain).from \in DOMAIN FifoOf
               THEN [rx EXCEPT ![FifoOf[Head(chain).from]] = Tail(@)] ELSE rx
      /\ UNCHANGED <<tx, wrote>>
  BY DEF Execute, CanExecute
<1>4. /\ armed = Machines \ {m}
      /\ OnlyIn(m, more + IF n < TakesAddress(m) THEN 1 ELSE 0)
      /\ Len(chain) = Len(c) - n
      /\ \A i \in 1 .. Len(chain) : chain[i] = c[n + i]
      /\ accessor.busy <=> n = Len(c)
      /\ n > 0 \/ m \in ForRom => accessor.chainTo = m
      /\ accessor.paced <=> m = "ramWrite" /\ n > 0
      /\ c = RAM_DUMMY_WRITE /\ n > 2 => accessor.write = DevNull
  BY DEF Stage
<1>5. /\ Len(chain) \in Nat \ {0} /\ Head(chain) = chain[1]
      /\ Tail(chain) \in Seq(Commands) /\ Len(Tail(chain)) = Len(chain) - 1
      /\ \A i \in 1 .. Len(chain) - 1 : Tail(chain)[i] = chain[i + 1]
  BY <1>2, <1>3
<1>6. n + 1 \in 1 .. Len(c) /\ n \in Nat /\ Len(c) \in Nat
  BY <1>1, <1>4, <1>5
<1>7. Head(chain) = k
  BY <1>4, <1>5
<1>8. /\ Len(chain') = Len(c) - (n + 1)
      /\ \A i \in 1 .. Len(chain') : chain'[i] = c[(n + 1) + i]
  <2>1. Len(chain') = Len(c) - (n + 1)
    BY <1>3, <1>4, <1>5, <1>6
  <2>2. ASSUME NEW i \in 1 .. Len(chain')
        PROVE  chain'[i] = c[(n + 1) + i]
    <3>1. i \in 1 .. Len(chain) - 1 /\ i + 1 \in 1 .. Len(chain)
      BY <1>3, <1>5, <2>2
    <3>2. chain'[i] = c[n + (i + 1)]
      BY <1>3, <1>4, <1>5, <3>1
    <3>3. n + (i + 1) = (n + 1) + i
      BY <1>6, <3>1
    <3> QED
      BY <3>2, <3>3
  <2> QED
    BY <2>1, <2>2
<1>9. /\ k.to \in Destinations
      /\ k.from \in Fifos <=> n + 1 = TakesAddress(m)
      /\ n + 1 = TakesAddress(m) => FifoOf[k.from] = m
      /\ k.to \in {"readGo", "readOrGo"} <=> n + 1 = Len(c)
      /\ k.to = "ctrl" <=> n + 1 = 1 /\ m \notin ForRom
  BY <1>1, <1>6 DEF ShapedLike
<1> HIDE DEF k
<1>10. /\ rx' \in [Machines -> Seq(Words)]
       /\ OnlyIn(m, more + IF n + 1 < TakesAddress(m) THEN 1 ELSE 0)'
  <2>1. CASE n + 1 = TakesAddress(m)
    <3>1. rx[m] # <<>> /\ rx' = [rx EXCEPT ![m] = Tail(@)]
      BY <1>3, <1>7, <1>9, <2>1, FifoNames
    <3>2. Len(rx[m]) = more + 1 /\ \A j \in Machines \ {m} : rx[j] = <<>>
      BY <1>1, <1>4, <1>6, <2>1 DEF OnlyIn
    <3>3. Tail(rx[m]) \in Seq(Words) /\ Len(Tail(rx[m])) = Len(rx[m]) - 1
      BY <3>1
    <3>4. Len(Tail(rx[m])) = more + 0
      BY <3>2, <3>3
    <3>5. /\ rx' \in [Machines -> Seq(Words)] /\ rx'[m] = Tail(rx[m])
          /\ \A j \in Machines \ {m} : rx'[j] = <<>>
      BY <3>1, <3>2, <3>3
    <3>6. ~(n + 1 < TakesAddress(m))
      BY <1>1, <1>6, <2>1
    <3> QED
      BY <3>4, <3>5, <3>6 DEF OnlyIn
  <2>2. CASE n + 1 # TakesAddress(m)
    <3>1. rx' = rx
      BY <1>3, <1>7, <1>9, <2>2, FifoNames
    <3>2. n < TakesAddress(m) <=> n + 1 < TakesAddress(m)
      BY <1>1, <1>6, <2>2
    <3> QED
      BY <1>4, <3>1, <3>2 DEF OnlyIn
  <2> QED
    BY <2>1, <2>2
<1>11. /\ accessor'.busy <=> n + 1 = Len(c)
       /\ accessor'.chainTo = m
       /\ accessor'.paced <=> m = "ramWrite"
  <2>1. CASE k.to = "ctrl"
    <3>1. n = 0 /\ m \in {"ramRead", "ramWrite"} /\ accessor' = Controlled(accessor, k.from)
      BY <1>3, <1>6, <1>7, <1>9, <2>1 DEF Machines, ForRom
    <3>2. /\ m = "ramRead" => k.from = "RAM_READ_DMA_CTRL"
          /\ m = "ramWrite" => k.from = "RAM_WRITE_DMA_CTRL"
      BY <1>1, <3>1 DEF ShapedLike, k
    <3>3. n # Len(c) /\ n + 1 # Len(c)
      <4>1. n = 0 /\ (Len(c) = 2 \/ Len(c) = 4)
        BY <1>1, <3>1
      <4>2. ASSUME NEW i, NEW j, i = 0, j = 2 \/ j = 4
            PROVE  i # j /\ i + 1 # j
        BY ONLY <4>2
      <4> QED
        BY <4>1, <4>2, Zenon
    <3>4. ~accessor.busy
      BY <1>4, <3>3, Zenon
    <3>5. /\ accessor'.busy = accessor.busy /\ accessor'.chainTo = m
          /\ m = "ramRead" => accessor'.paced = FALSE
          /\ m = "ramWrite" => accessor'.paced = TRUE
      <4>1. /\ Controlled(accessor, k.from).busy = accessor.busy
            /\ k.from = "RAM_READ_DMA_CTRL" =>
                 /\ Controlled(accessor, k.from).chainTo = "ramRead"
                 /\ Controlled(accessor, k.from).paced = FALSE
            /\ k.from = "RAM_WRITE_DMA_CTRL" =>
                 /\ Controlled(accessor, k.from).chainTo = "ramWrite"
                 /\ Controlled(accessor, k.from).paced = TRUE
        BY <1>2, ControlledFields, Zenon
      <4> QED
        BY <3>1, <3>2, <4>1
    <3> QED
      BY <3>1, <3>3, <3>4, <3>5
  <2>2. CASE k.to # "ctrl"
    <3>1. /\ accessor' = Loaded(accessor, k.to, Value(k.from))
          /\ n > 0 \/ m \in ForRom
      BY <1>3, <1>6, <1>7, <1>9, <2>2
    <3> DEFINE v == Value(k.from)
    <3> HIDE DEF v
    <3>2. DOMAIN accessor = AccessorFields /\ k.to \in Destinations \ {"ctrl"}
      BY <1>2, <1>9, <2>2
    <3>3. /\ Loaded(accessor, k.to, v).chainTo = accessor.chainTo
          /\ Loaded(accessor, k.to, v).paced = accessor.paced
      BY <3>2, LoadedKeeps
    <3>4. k.to \in {"readGo", "readOrGo"} => Loaded(accessor, k.to, v).busy = TRUE
      BY <3>2, LoadedGoes
    <3>5. k.to \notin {"readGo", "readOrGo"} =>
             Loaded(accessor, k.to, v).busy = accessor.busy
      BY <3>2, LoadedStays
    <3>6. /\ accessor'.chainTo = accessor.chainTo /\ accessor'.paced = accessor.paced
          /\ k.to \in {"readGo", "readOrGo"} => accessor'.busy = TRUE
          /\ k.to \notin {"readGo", "readOrGo"} => accessor'.busy = accessor.busy
      BY <3>1, <3>3, <3>4, <3>5 DEF v
    <3>7. ~accessor.busy
      BY <1>4, <1>6
    <3>8. accessor'.busy <=> n + 1 = Len(c)
      BY <1>9, <3>6, <3>7
    <3>9. accessor'.paced <=> m = "ramWrite"
      BY <1>4, <3>1, <3>6 DEF ForRom
    <3> QED
      BY <1>4, <3>1, <3>6, <3>8, <3>9
  <2> QED
    BY <2>1, <2>2
<1>12. c = RAM_DUMMY_WRITE /\ n + 1 > 2 => accessor'.write = DevNull
  <2>1. SUFFICES ASSUME c = RAM_DUMMY_WRITE, n + 1 > 2
                 PROVE  accessor'.write = DevNull
    OBVIOUS
  <2>2. n \in {2, 3} /\ k.to # "ctrl"
    BY <1>6, <1>9, <2>1, RamWriteShape
  <2>3. accessor' = Loaded(accessor, k.to, Value(k.from))
    BY <1>3, <1>7, <2>2
  <2>4. CASE n = 2
    <3>1. k.to = "write" /\ k.from = "devNullPtr"
      BY <2>1, <2>4, RamWriteShape DEF k
    <3>2. Value("devNullPtr") = DevNull
      BY FifoNames DEF Value, Fifos
    <3>3. Loaded(accessor, "write", DevNull).write = DevNull
      BY <1>2, LoadedWrite, Zenon
    <3> QED
      BY <2>3, <3>1, <3>2, <3>3
  <2>5. CASE n = 3
    <3>1. k.to = "readGo"
      BY <2>1, <2>5, RamWriteShape DEF k
    <3>2. accessor.write = DevNull
      BY <1>4, <2>1, <2>5
    <3> DEFINE v == Value(k.from)
    <3> HIDE DEF v
    <3>3. Loaded(accessor, "readGo", v).write = accessor.write
      BY <1>2, LoadedGoes
    <3> QED
      BY <2>3, <3>1, <3>2, <3>3 DEF v
  <2> QED
    BY <2>2, <2>4, <2>5
<1>13. n + 1 \in 0 .. Len(c) /\ n + 1 > 0
  BY <1>6
<1>14. Stage(m, c, n + 1, more)'
  BY <1>3, <1>4, <1>8, <1>10, <1>11, <1>12, <1>13 DEF Stage
<1> QED
  BY <1>3, <1>10, <1>13, <1>14

LEMMA RequestStage ==
  ASSUME CycleInv, NEW m \in Machines, NEW more \in {0, 1}, Waiting(m, more),
         NEW k \in Machines, Request(k)
  PROVE  /\ \E c \in Chains(m) :
              /\ Stage(m, c, 0, more)'
              /\ m = "ramWrite" => c = ramWriteCommands
              /\ m = "ramRead" => c = ramReadCommands
         /\ m \in ForRom => accessor'.write = TxFifo
         /\ UNCHANGED <<rx, tx, wrote>>
<1>1. /\ armed = Machines /\ accessor = Idle /\ OnlyIn(m, 1 + more)
  BY DEF Waiting
<1>2. k = m
  BY <1>1 DEF Request, CanRequest, OnlyIn
<1>3. armed' = Machines \ {m} /\ UNCHANGED <<rx, tx, wrote>>
  BY <1>1, <1>2 DEF Request
<1>4. /\ chain' \in Chains(m)
      /\ m = "ramWrite" => chain' = ramWriteCommands
      /\ m = "ramRead" => chain' = ramReadCommands
  BY <1>2 DEF Request, Chains, Machines, CycleInv
<1>5. Len(chain') \in {2, 4} /\ TakesAddress(m) \in 1 .. 3
  BY <1>4, ShapeSize
<1>6. /\ ~accessor'.busy /\ ~accessor'.paced
      /\ m \in ForRom => accessor'.chainTo = m /\ accessor'.write = TxFifo
  BY <1>1, <1>2 DEF Request, Idle, ForRom
<1>7. OnlyIn(m, more + IF 0 < TakesAddress(m) THEN 1 ELSE 0)'
  BY <1>1, <1>3, <1>5 DEF OnlyIn
<1>8. PICK c \in Chains(m) : c = chain'
  BY <1>4
<1>9. Len(chain') \in Nat /\ Len(c) = Len(chain') /\ Len(c) # 0
  <2>1. Len(c) = 2 \/ Len(c) = 4
    BY <1>5, <1>8
  <2>2. ASSUME NEW l, l = 2 \/ l = 4
        PROVE  l \in Nat /\ l # 0
    BY ONLY <2>2
  <2>3. Len(c) = Len(chain')
    BY <1>8, Zenon
  <2> QED
    BY <2>1, <2>2, <2>3, Zenon
<1>10. /\ Len(chain') = Len(c) - 0
       /\ \A i \in 1 .. Len(chain') : chain'[i] = c[0 + i]
  BY <1>8, <1>9
<1>11. Stage(m, c, 0, more)'
  BY <1>3, <1>6, <1>7, <1>9, <1>10 DEF Stage
<1>12. /\ m = "ramWrite" => c = ramWriteCommands
       /\ m = "ramRead" => c = ramReadCommands
  BY <1>4, <1>8
<1> QED
  BY <1>3, <1>6, <1>11, <1>12

LEMMA AccessStage ==
  ASSUME MbcInv, rx \in [Machines -> Seq(Words)],
         NEW m \in Machines, NEW c \in Chains(m), NEW n \in 0 .. Len(c),
         NEW more \in {0, 1}, Stage(m, c, n, more), Access, m = "ramWrite" \/ more = 0
  PROVE  /\ Resting' /\ rx' \in [Machines -> Seq(Words)]
         /\ m # "ramWrite" => wrote' = wrote
         /\ m = "ramWrite" => more = 1 /\ tx' = tx
         /\ wrote' # wrote => c # RAM_DUMMY_WRITE
<1>1. /\ accessor.busy /\ (accessor.paced => rx["ramWrite"] # <<>>)
      /\ accessor' = Idle /\ armed' = armed \cup {accessor.chainTo} /\ chain' = chain
      /\ accessor.paced =>
           /\ rx' = [rx EXCEPT !["ramWrite"] = Tail(@)] /\ tx' = tx
           /\ wrote' # wrote => accessor.write # DevNull
      /\ ~accessor.paced => rx' = rx /\ wrote' = wrote
  BY DEF Access, CanAccess
<1>2. Len(c) \in {2, 4} /\ TakesAddress(m) < Len(c) /\ TakesAddress(m) \in 1 .. 3
  BY ShapeSize
<1>3. /\ armed = Machines \ {m}
      /\ OnlyIn(m, more + IF n < TakesAddress(m) THEN 1 ELSE 0)
      /\ Len(chain) = Len(c) - n
      /\ accessor.busy <=> n = Len(c)
      /\ n > 0 \/ m \in ForRom => accessor.chainTo = m
      /\ accessor.paced <=> m = "ramWrite" /\ n > 0
      /\ c = RAM_DUMMY_WRITE /\ n > 2 => accessor.write = DevNull
  BY DEF Stage
<1>4. n = Len(c)
  BY <1>1, <1>3, Zenon
<1>5. n \in Nat /\ n > 0 /\ ~(n < TakesAddress(m)) /\ Len(c) - n = 0
  BY <1>2, <1>4
<1>6. c = RAM_DUMMY_WRITE => n > 2
  <2>1. Len(RAM_DUMMY_WRITE) = 4
    BY RamWriteShape
  <2>2. c = RAM_DUMMY_WRITE => n = 4
    BY <1>4, <2>1, Zenon
  <2>3. n = 4 => n > 2
    OBVIOUS
  <2> QED
    BY <2>2, <2>3, Zenon
<1>7. /\ n = Len(c) /\ armed = Machines \ {m} /\ Len(chain) = 0
      /\ accessor.chainTo = m /\ (accessor.paced <=> m = "ramWrite")
      /\ OnlyIn(m, more + 0)
      /\ c = RAM_DUMMY_WRITE => accessor.write = DevNull
  BY <1>3, <1>4, <1>5, <1>6
<1>8. chain' = <<>> /\ armed' = Machines
  BY <1>1, <1>7 DEF MbcInv, DmaTypes
<1>9. CASE m = "ramWrite"
  <2>1. /\ rx["ramWrite"] # <<>> /\ rx' = [rx EXCEPT !["ramWrite"] = Tail(@)]
        /\ rx["ramWrite"] \in Seq(Words) /\ Len(rx["ramWrite"]) = more
        /\ \A j \in Machines \ {"ramWrite"} : rx[j] = <<>>
    BY <1>1, <1>7, <1>9 DEF OnlyIn
  <2>2. /\ Tail(rx["ramWrite"]) \in Seq(Words) /\ more # 0
        /\ Len(Tail(rx["ramWrite"])) = more - 1
    BY <2>1
  <2>3. more = 1
    BY <2>2
  <2>4. Tail(rx["ramWrite"]) = <<>>
    <3>1. \A q \in Seq(Words) : Len(q) = 0 => q = <<>>
      OBVIOUS
    <3>2. Len(Tail(rx["ramWrite"])) = 0
      BY <2>2, <2>3
    <3> QED
      BY <2>2, <3>1, <3>2
  <2>5. /\ rx' \in [Machines -> Seq(Words)] /\ rx'["ramWrite"] = <<>>
        /\ \A j \in Machines \ {"ramWrite"} : rx'[j] = <<>>
    BY <1>9, <2>1, <2>2, <2>4
  <2>6. Resting'
    BY <1>1, <1>8, <2>5 DEF Resting
  <2> QED
    BY <1>1, <1>7, <1>9, <2>3, <2>5, <2>6
<1>10. CASE m # "ramWrite"
  <2>1. rx' = rx /\ wrote' = wrote /\ more = 0
    BY <1>1, <1>7, <1>10
  <2>2. Len(rx[m]) = 0 /\ rx[m] \in Seq(Words)
        /\ \A j \in Machines \ {m} : rx[j] = <<>>
    BY <1>7, <2>1 DEF OnlyIn
  <2>3. \A j \in Machines : rx[j] = <<>>
    BY <2>2
  <2>4. Resting'
    BY <1>1, <1>8, <2>1, <2>3 DEF Resting
  <2> QED
    BY <1>10, <2>1, <2>4
<1> QED
  BY <1>9, <1>10

LEMMA UnderwayStep ==
  ASSUME MbcInv, CycleInv, NEW m \in Machines, NEW more \in {0, 1},
         m = "ramWrite" \/ more = 0, Underway(m, more), DmaStep,
         UNCHANGED switchVars
  PROVE  /\ rx' \in [Machines -> Seq(Words)]
         /\ Underway(m, more)' \/ (Resting' /\ (m = "ramWrite" => more = 1))
         /\ m = "ramWrite" => tx' = tx
         /\ wrote' # wrote =>
              m = "ramWrite" /\ more = 1 /\ ramWriteCommands # RAM_DUMMY_WRITE
<1>1. rx \in [Machines -> Seq(Words)] /\ ramWriteCommands' = ramWriteCommands
  BY DEF CycleInv, switchVars
<1>2. CASE Waiting(m, more)
  <2>1. ~Execute /\ ~Access
    <3>1. chain = <<>> /\ accessor = Idle
      BY <1>2 DEF Waiting
    <3>2. ~Idle.busy
      BY DEF Idle
    <3> QED
      BY <3>1, <3>2 DEF Execute, CanExecute, Access, CanAccess
  <2>2. PICK k \in Machines : Request(k)
    BY <2>1 DEF DmaStep
  <2>3. PICK c \in Chains(m) : /\ Stage(m, c, 0, more)'
                               /\ m = "ramWrite" => c = ramWriteCommands
    BY <1>2, <2>2, RequestStage
  <2>4. UNCHANGED <<rx, tx, wrote>>
    BY <1>2, <2>2, RequestStage
  <2>5. 0 \in 0 .. Len(c)
    <3>1. Len(c) = 2 \/ Len(c) = 4
      BY ShapeSize
    <3> QED
      BY <3>1
  <2>6. Underway(m, more)'
    BY <1>1, <2>3, <2>5 DEF Underway
  <2>7. rx' = rx /\ tx' = tx /\ wrote' = wrote
    BY <2>4
  <2>8. rx' \in [Machines -> Seq(Words)]
    BY <1>1, <2>7
  <2> QED
    BY <2>6, <2>7, <2>8, Zenon
<1>3. ASSUME NEW c \in Chains(m), NEW n \in 0 .. Len(c), Stage(m, c, n, more),
             m = "ramWrite" => c = ramWriteCommands
      PROVE  /\ rx' \in [Machines -> Seq(Words)]
             /\ Underway(m, more)' \/ (Resting' /\ (m = "ramWrite" => more = 1))
             /\ m = "ramWrite" => tx' = tx
             /\ wrote' # wrote =>
                  m = "ramWrite" /\ more = 1 /\ ramWriteCommands # RAM_DUMMY_WRITE
  <2>1. CASE Execute
    <3>1. /\ n + 1 \in 0 .. Len(c) /\ Stage(m, c, n + 1, more)'
          /\ rx' \in [Machines -> Seq(Words)] /\ UNCHANGED <<tx, wrote>>
      BY <1>1, <1>3, <2>1, ExecuteStage
    <3>2. Underway(m, more)'
      BY <1>1, <1>3, <3>1 DEF Underway
    <3>3. tx' = tx /\ wrote' = wrote
      BY <3>1
    <3> QED
      BY <3>1, <3>2, <3>3, Zenon
  <2>2. CASE Access
    <3>1. /\ Resting' /\ rx' \in [Machines -> Seq(Words)]
          /\ m # "ramWrite" => wrote' = wrote
          /\ m = "ramWrite" => more = 1 /\ tx' = tx
          /\ wrote' # wrote => c # RAM_DUMMY_WRITE
      BY <1>1, <1>3, <2>2, AccessStage
    <3> QED
      BY <1>3, <3>1
  <2>3. ASSUME NEW k \in Machines, Request(k)
        PROVE  FALSE
    <3>1. k \in armed /\ rx[k] # <<>>
      BY <2>3 DEF Request, CanRequest
    <3>2. armed = Machines \ {m} /\ \A j \in Machines \ {m} : rx[j] = <<>>
      BY <1>3 DEF Stage, OnlyIn
    <3> QED
      BY <3>1, <3>2
  <2> QED
    BY <2>1, <2>2, <2>3 DEF DmaStep
<1> QED
  BY <1>2, <1>3 DEF Underway

\* A cycle that is under way goes on, and at rest no channel moves.
LEMMA UnderwayMoves ==
  ASSUME CycleInv, NEW m \in Machines, NEW more \in {0, 1}, Underway(m, more),
         m = "ramWrite" => more = 1
  PROVE  DmaCanStep
<1>1. rx \in [Machines -> Seq(Words)]
  BY DEF CycleInv
<1>2. CASE Waiting(m, more)
  <2>1. Len(rx[m]) = 1 + more /\ m \in armed /\ chain = <<>>
    BY <1>2 DEF Waiting, OnlyIn
  <2>2. rx[m] # <<>>
    <3>1. Len(<<>>) = 0
      OBVIOUS
    <3> QED
      BY <2>1, <3>1
  <2>3. CanRequest(m)
    BY <2>1, <2>2 DEF CanRequest
  <2> QED
    BY <2>3 DEF DmaCanStep
<1>3. ASSUME NEW c \in Chains(m), NEW n \in 0 .. Len(c), Stage(m, c, n, more)
      PROVE  DmaCanStep
  <2>1. /\ OnlyIn(m, more + IF n < TakesAddress(m) THEN 1 ELSE 0)
        /\ Len(chain) = Len(c) - n
        /\ \A i \in 1 .. Len(chain) : chain[i] = c[n + i]
        /\ accessor.busy <=> n = Len(c)
        /\ accessor.paced <=> m = "ramWrite" /\ n > 0
    BY <1>3 DEF Stage
  <2>2. ShapedLike(m, c) /\ TakesAddress(m) \in 1 .. 3
    BY EveryShape, ShapeSize
  <2>3. Len(c) \in Nat /\ n \in Nat /\ TakesAddress(m) < Len(c)
    <3>1. Len(c) = 2 \/ Len(c) = 4
      BY ShapeSize
    <3> QED
      BY <3>1, ShapeSize
  <2>4. Len(<<>>) = 0
    OBVIOUS
  <2>5. CASE n # Len(c)
    <3>1. n + 1 \in 1 .. Len(c) /\ Len(chain) # 0 /\ 1 \in 1 .. Len(chain)
      BY <2>1, <2>3, <2>5
    <3>2. chain # <<>> /\ chain[1] = c[n + 1] /\ Head(chain) = chain[1]
      BY <2>1, <2>4, <3>1
    <3>3. /\ c[n + 1].from \in Fifos <=> n + 1 = TakesAddress(m)
          /\ n + 1 = TakesAddress(m) => FifoOf[c[n + 1].from] = m
      BY <2>2, <3>1 DEF ShapedLike
    <3>4. n + 1 = TakesAddress(m) => rx[m] # <<>>
      <4>1. n + 1 = TakesAddress(m) => n < TakesAddress(m)
        BY <2>2, <2>3
      <4>2. n + 1 = TakesAddress(m) => Len(rx[m]) = more + 1
        BY <2>1, <4>1 DEF OnlyIn
      <4>3. more + 1 # 0
        OBVIOUS
      <4> QED
        BY <2>4, <4>2, <4>3
    <3>5. CanExecute
      BY <3>2, <3>3, <3>4, FifoNames DEF CanExecute
    <3> QED
      BY <3>5 DEF DmaCanStep
  <2>6. CASE n = Len(c)
    <3>1. accessor.busy
      BY <2>1, <2>6
    <3>2. accessor.paced => rx["ramWrite"] # <<>>
      <4>1. ASSUME m = "ramWrite"
            PROVE  rx["ramWrite"] # <<>>
        <5>1. ~(n < TakesAddress(m)) /\ more = 1
          BY <2>2, <2>3, <2>6, <4>1
        <5>2. Len(rx[m]) = 1 + 0
          BY <2>1, <5>1 DEF OnlyIn
        <5> QED
          BY <2>4, <4>1, <5>2
      <4> QED
        BY <2>1, <4>1
    <3> QED
      BY <3>1, <3>2 DEF DmaCanStep, CanAccess
  <2> QED
    BY <2>5, <2>6
<1> QED
  BY <1>2, <1>3 DEF Underway

LEMMA RestingStays ==
  ASSUME Resting
  PROVE  ~DmaStep
<1>1. chain = <<>> /\ accessor = Idle /\ ~Idle.busy
  BY DEF Resting, Idle
<1>2. ~Execute /\ ~Access
  BY <1>1 DEF Execute, CanExecute, Access, CanAccess
<1>3. \A k \in Machines : ~Request(k)
  BY DEF Request, CanRequest, Resting
<1> QED
  BY <1>2, <1>3 DEF DmaStep

LEMMA UnderwayFrame ==
  ASSUME NEW m, NEW more, Underway(m, more),
         UNCHANGED <<rx, armed, chain, accessor, ramWriteCommands>>
  PROVE  Underway(m, more)'
<1>1. Waiting(m, more) => Waiting(m, more)'
  BY DEF Waiting, OnlyIn
<1>2. \A c, n : Stage(m, c, n, more) => Stage(m, c, n, more)'
  BY DEF Stage, OnlyIn
<1> QED
  BY <1>1, <1>2 DEF Underway

LEMMA DmaCycle ==
  ASSUME MbcInv, CycleInv, Dma
  PROVE  /\ CycleInv'
         /\ wrote' # wrote => /\ WritesRam /\ bus.op = "write"
                              /\ ramWriteCommands = RAM_WRITE
<1>1. DmaStep /\ UNCHANGED <<switchVars, main, cartridge, bus>>
  BY DEF Dma, gameVars
<1>2. WritesRam' = WritesRam
  BY <1>1 DEF WritesRam, Mbc
<1>3. ~Resting
  BY <1>1, RestingStays
<1>4. ramWriteCommands = RAM_WRITE \/ ramWriteCommands = RAM_DUMMY_WRITE
  BY DEF CycleInv, Chains
<1>5. CASE bus.op = "read" /\ \E m \in Reads : Underway(m, 0)
  <2>1. PICK m \in Reads : Underway(m, 0)
    BY <1>5
  <2>2. m \in Machines /\ m # "ramWrite"
    BY DEF Reads, ForRom, Machines
  <2>3. /\ rx' \in [Machines -> Seq(Words)] /\ wrote' = wrote
        /\ Underway(m, 0)' \/ Resting'
    BY <1>1, <2>1, <2>2, UnderwayStep
  <2>4. Place'
    BY <1>1, <1>5, <2>3 DEF Place
  <2> QED
    BY <1>1, <1>5, <2>3, <2>4 DEF CycleInv, switchVars
<1>6. CASE bus.op = "address" /\ WritesRam /\ Underway("ramWrite", 0)
  <2>1. /\ rx' \in [Machines -> Seq(Words)] /\ tx' = tx /\ wrote' = wrote
        /\ Underway("ramWrite", 0)'
    BY <1>1, <1>6, UnderwayStep DEF Machines
  <2>2. Place'
    BY <1>1, <1>2, <1>6, <2>1 DEF Place
  <2> QED
    BY <1>1, <2>1, <2>2 DEF CycleInv, switchVars
<1>7. CASE bus.op = "write" /\ WritesRam /\ Underway("ramWrite", 1)
  <2>1. /\ rx' \in [Machines -> Seq(Words)] /\ tx' = tx
        /\ Underway("ramWrite", 1)' \/ Resting'
        /\ wrote' # wrote => ramWriteCommands # RAM_DUMMY_WRITE
    BY <1>1, <1>7, UnderwayStep DEF Machines
  <2>2. Place'
    BY <1>1, <1>2, <1>7, <2>1 DEF Place
  <2> QED
    BY <1>1, <1>4, <1>7, <2>1, <2>2 DEF CycleInv, switchVars
<1> QED
  BY <1>3, <1>5, <1>6, <1>7 DEF CycleInv, Place

-----------------------------------------------------------------------------
(* The steps of the bus.                                                   *)

LEMMA BetweenCycles ==
  ASSUME MbcInv, CycleInv, bus = NoCycle
  PROVE  Resting /\ main = <<>> /\ tx = <<>> /\ ~WritesRam /\ bus.op = "none"
<1>1. bus.op = "none"
  BY DEF NoCycle
<1> QED
  BY <1>1 DEF MbcInv, BusTypes, Queue, CycleInv, Place, WritesRam

\* The word that begins a cycle of channel m.
LEMMA FirstWord ==
  ASSUME Resting, rx \in [Machines -> Seq(Words)], NEW m \in Machines,
         NEW w \in Words, rx' = [rx EXCEPT ![m] = Append(@, w)],
         UNCHANGED <<armed, chain, accessor>>
  PROVE  /\ rx' \in [Machines -> Seq(Words)] /\ Waiting(m, 0)'
         /\ rx'[m] = <<w>>
<1>1. rx[m] = <<>> /\ \A j \in Machines : rx[j] = <<>>
  BY DEF Resting
<1>2. Append(rx[m], w) \in Seq(Words) /\ Len(Append(rx[m], w)) = 1
  BY <1>1
<1>3. /\ rx' \in [Machines -> Seq(Words)] /\ rx'[m] = Append(rx[m], w)
      /\ \A j \in Machines \ {m} : rx'[j] = <<>>
  BY <1>1, <1>2
<1>4. Len(rx'[m]) = 1 + 0
  BY <1>2, <1>3
<1>5. rx'[m] = <<w>>
  BY <1>1, <1>3, OneWord
<1> QED
  BY <1>3, <1>4, <1>5 DEF Resting, Waiting, OnlyIn

LEMMA RestingFrame ==
  ASSUME Resting, UNCHANGED <<rx, armed, chain, accessor>>
  PROVE  Resting'
  BY DEF Resting

LEMMA CycleFields ==
  ASSUME NEW op, NEW area, NEW odd, NEW page, NEW data
  PROVE  /\ Cycle(op, area, odd, page, data).op = op
         /\ Cycle(op, area, odd, page, data).area = area
         /\ Cycle(op, area, odd, page, data).odd = odd
         /\ Cycle(op, area, odd, page, data).page = page
         /\ Cycle(op, area, odd, page, data).data = data
         /\ Cycle(op, area, odd, page, data).driven = Nothing
         /\ DOMAIN Cycle(op, area, odd, page, data) = BusFields
  BY DEF Cycle, BusFields

LEMMA PushedArea ==
  ASSUME NEW w, main = <<>>, main' = Pushed(main, w), main' # <<>>
  PROVE  main'[1] = w
  BY PushedWord, OneWord

LEMMA BeginReadCycle ==
  ASSUME MbcInv, CycleInv, NEW area, NEW page \in Words, BeginRead(area, page)
  PROVE  CycleInv'
<1> DEFINE w == [write |-> FALSE, area |-> area, odd |-> FALSE]
<1>1. /\ bus = NoCycle /\ main' = Pushed(main, w)
      /\ bus' = Cycle("read", area, FALSE, page, Nothing)
      /\ UNCHANGED <<switchVars, tx, armed, chain, accessor, cartridge>>
  BY DEF BeginRead
<1>2. /\ Resting /\ main = <<>> /\ rx \in [Machines -> Seq(Words)]
      /\ ramReadCommands \in Chains("ramRead")
      /\ ramWriteCommands \in Chains("ramWrite")
  BY <1>1, BetweenCycles DEF CycleInv
<1>3. /\ bus'.op = "read" /\ bus'.area = area /\ DOMAIN bus' = BusFields
  BY <1>1 DEF Cycle, BusFields
<1>4. w.area = area
  OBVIOUS
<1> HIDE DEF w
<1>5. main' # <<>> => main'[1].area = bus'.area
  BY <1>1, <1>2, <1>3, <1>4, PushedArea
<1>6. /\ rx' \in [Machines -> Seq(Words)]
      /\ Resting' \/ \E m \in Reads : Waiting(m, 0)'
  <2>1. ASSUME NEW m \in Reads, rx' = [rx EXCEPT ![m] = Append(@, page)]
        PROVE  /\ rx' \in [Machines -> Seq(Words)]
               /\ Resting' \/ \E k \in Reads : Waiting(k, 0)'
    <3>1. m \in Machines
      BY DEF Reads, ForRom, Machines
    <3>2. rx' \in [Machines -> Seq(Words)] /\ Waiting(m, 0)'
      BY <1>1, <1>2, <2>1, <3>1, FirstWord
    <3> QED
      BY <3>2
  <2>2. CASE rx' = rx
    <3>1. Resting'
      BY <1>1, <1>2, <2>2, RestingFrame
    <3> QED
      BY <1>2, <2>2, <3>1
  <2>3. CASE area \in 0 .. 3
    <3>1. rx' = [rx EXCEPT !["romLow"] = Append(@, page)]
      BY <2>3 DEF BeginRead, InRam
    <3> QED
      BY <2>1, <3>1 DEF Reads, ForRom
  <2>4. CASE area \in 4 .. 7
    <3>1. rx' = [rx EXCEPT !["romHigh"] = Append(@, page)]
      BY <2>4 DEF BeginRead, InRam
    <3> QED
      BY <2>1, <3>1 DEF Reads, ForRom
  <2>5. CASE InRam(area)
    <3>1. area \notin 0 .. 3 /\ area \notin 4 .. 7
      BY <2>5 DEF InRam
    <3>2. rx' = [rx EXCEPT !["ramRead"] = Pushed(@, page)]
      BY <2>5, <3>1 DEF BeginRead
    <3>3. \/ rx' = [rx EXCEPT !["ramRead"] = Append(@, page)]
          \/ rx' = [rx EXCEPT !["ramRead"] = @]
      BY <3>2 DEF Pushed
    <3>4. [rx EXCEPT !["ramRead"] = @] = rx
      BY <1>2 DEF Machines
    <3> QED
      BY <2>1, <2>2, <3>3, <3>4 DEF Reads
  <2>6. CASE area \notin 0 .. 3 /\ area \notin 4 .. 7 /\ ~InRam(area)
    <3>1. rx' = rx
      BY <2>6 DEF BeginRead
    <3> QED
      BY <2>2, <3>1
  <2> QED
    BY <2>3, <2>4, <2>5, <2>6
<1>7. Place'
  <2>1. \A m : Waiting(m, 0)' => Underway(m, 0)'
    BY DEF Underway
  <2> QED
    BY <1>3, <1>6, <2>1 DEF Place
<1> QED
  BY <1>1, <1>2, <1>3, <1>5, <1>6, <1>7 DEF CycleInv, switchVars

LEMMA BeginWriteCycle ==
  ASSUME MbcInv, CycleInv, NEW area, NEW odd, NEW page \in Words, NEW data,
         BeginWrite(area, odd, page, data)
  PROVE  CycleInv'
<1> DEFINE w == [write |-> TRUE, area |-> area, odd |-> odd]
<1>1. /\ bus = NoCycle /\ main' = Pushed(main, w)
      /\ bus' = Cycle("address", area, odd, page, data)
      /\ UNCHANGED <<switchVars, tx, armed, chain, accessor, cartridge>>
      /\ rx' = IF InRam(area) THEN [rx EXCEPT !["ramWrite"] = Pushed(@, page)]
                              ELSE rx
  BY DEF BeginWrite
<1>2. /\ Resting /\ main = <<>> /\ tx = <<>> /\ rx \in [Machines -> Seq(Words)]
      /\ ramReadCommands \in Chains("ramRead")
      /\ ramWriteCommands \in Chains("ramWrite")
  BY <1>1, BetweenCycles DEF CycleInv
<1>3. /\ bus'.op = "address" /\ bus'.area = area /\ DOMAIN bus' = BusFields
  BY <1>1, CycleFields
<1>4. w.area = area
  OBVIOUS
<1> HIDE DEF w
<1>5. main' # <<>> => main'[1].area = bus'.area
  BY <1>1, <1>2, <1>3, <1>4, PushedArea
<1>6. WritesRam' <=> InRam(area) /\ Mbc # 0
  BY <1>1, <1>3 DEF WritesRam, Mbc
<1>7. rx' \in [Machines -> Seq(Words)] /\ Place'
  <2>1. CASE InRam(area) /\ Mbc # 0
    <3>1. rx' = [rx EXCEPT !["ramWrite"] = Append(@, page)]
      BY <1>1, <2>1 DEF Pushed
    <3>2. rx' \in [Machines -> Seq(Words)] /\ Waiting("ramWrite", 0)'
      BY <1>1, <1>2, <3>1, FirstWord DEF Machines
    <3> QED
      BY <1>3, <1>6, <2>1, <3>2 DEF Place, Underway
  <2>2. CASE ~(InRam(area) /\ Mbc # 0)
    <3>1. rx' = rx
      BY <1>1, <1>2, <2>2 DEF Pushed, Machines
    <3>2. Resting'
      BY <1>1, <1>2, <3>1, RestingFrame
    <3> QED
      BY <1>2, <1>6, <2>2, <3>1, <3>2 DEF Place
  <2> QED
    BY <2>1, <2>2
<1> QED
  BY <1>1, <1>2, <1>3, <1>5, <1>7 DEF CycleInv, switchVars

\* The data joins the address, wherever the channel is.
LEMMA SecondWord ==
  ASSUME CycleInv, Underway("ramWrite", 0), NEW d \in Words,
         rx' = [rx EXCEPT !["ramWrite"] = Append(@, d)],
         UNCHANGED <<armed, chain, accessor, ramWriteCommands>>
  PROVE  /\ rx' \in [Machines -> Seq(Words)] /\ Underway("ramWrite", 1)'
         /\ rx'["ramWrite"] = Append(rx["ramWrite"], d)
         /\ Waiting("ramWrite", 0) => Waiting("ramWrite", 1)'
         /\ \A c, n : Stage("ramWrite", c, n, 0) => Stage("ramWrite", c, n, 1)'
<1>1. rx \in [Machines -> Seq(Words)] /\ "ramWrite" \in Machines
  BY DEF CycleInv, Machines
<1>2. /\ Append(rx["ramWrite"], d) \in Seq(Words)
      /\ Len(Append(rx["ramWrite"], d)) = Len(rx["ramWrite"]) + 1
      /\ Len(rx["ramWrite"]) \in Nat
  BY <1>1
<1>3. /\ rx' \in [Machines -> Seq(Words)]
      /\ rx'["ramWrite"] = Append(rx["ramWrite"], d)
      /\ \A j \in Machines \ {"ramWrite"} : rx'[j] = rx[j]
  BY <1>1, <1>2
<1>4. ASSUME NEW i \in {0, 1}, OnlyIn("ramWrite", 0 + i)
      PROVE  OnlyIn("ramWrite", 1 + i)'
  <2>1. Len(rx["ramWrite"]) = 0 + i
    BY <1>4 DEF OnlyIn
  <2>2. Len(rx'["ramWrite"]) = 1 + i
    BY <1>2, <1>3, <2>1
  <2> QED
    BY <1>3, <1>4, <2>2 DEF OnlyIn
<1>5. Waiting("ramWrite", 0) => Waiting("ramWrite", 1)'
  <2>1. OnlyIn("ramWrite", 1 + 0) => OnlyIn("ramWrite", 1 + 1)'
    <3>1. 1 + 0 = 0 + 1
      OBVIOUS
    <3> QED
      BY <1>4, <3>1
  <2> QED
    BY <2>1 DEF Waiting
<1>6. ASSUME NEW c, NEW n, Stage("ramWrite", c, n, 0)
      PROVE  Stage("ramWrite", c, n, 1)'
  <2> DEFINE i == IF n < TakesAddress("ramWrite") THEN 1 ELSE 0
  <2>1. i \in {0, 1}
    OBVIOUS
  <2>2. OnlyIn("ramWrite", 0 + i)
    BY <1>6 DEF Stage
  <2> HIDE DEF i
  <2>3. OnlyIn("ramWrite", 1 + i)'
    BY <1>4, <2>1, <2>2
  <2> QED
    BY <1>6, <2>3 DEF Stage, i
<1> QED
  BY <1>3, <1>5, <1>6 DEF Underway

LEMMA PutDataCycle ==
  ASSUME MbcInv, CycleInv, PutData
  PROVE  CycleInv' /\ (WritesRam' => main' # <<>>)
<1>1. /\ bus.op = "address" /\ main' = Pushed(main, bus.data)
      /\ bus' = [bus EXCEPT !.op = "write"]
      /\ UNCHANGED <<switchVars, tx, armed, chain, accessor, cartridge>>
      /\ rx' = IF InRam(bus.area)
               THEN [rx EXCEPT !["ramWrite"] = Pushed(@, bus.data)] ELSE rx
  BY DEF PutData
<1>2. /\ rx \in [Machines -> Seq(Words)] /\ DOMAIN bus = BusFields /\ tx = <<>>
      /\ ramReadCommands \in Chains("ramRead")
      /\ ramWriteCommands \in Chains("ramWrite")
      /\ main # <<>> => main[1].area = bus.area
  BY <1>1 DEF CycleInv
<1>3. bus'.op = "write" /\ bus'.area = bus.area /\ DOMAIN bus' = BusFields
  BY <1>1, <1>2 DEF BusFields
<1>4. bus.data \in Words
  BY <1>1 DEF MbcInv, BusTypes, Queue, Words
<1>5. /\ main' # <<>> => main'[1].area = bus'.area
      /\ Mbc # 0 => main' # <<>>
  <2>1. /\ main = <<>> \/ \E w : main = <<w>> /\ w.write
        /\ Mbc = 0 => main = <<>>
        /\ Mbc # 0 => main # <<>>
    BY <1>1 DEF MbcInv, BusTypes, Queue
  <2>2. CASE Mbc = 0
    BY <1>1, <2>1, <2>2, PushedWord
  <2>3. CASE Mbc # 0
    <3>1. PICK w : main = <<w>>
      BY <2>1, <2>3
    <3>2. main' = <<w, bus.data>>
      BY <1>1, <2>3, <3>1, AppendToOne DEF Pushed
    <3>3. main'[1] = main[1] /\ main # <<>> /\ main' # <<>>
      BY <3>1, <3>2, OneWord, TwoWords
    <3> QED
      BY <1>2, <1>3, <3>3
  <2> QED
    BY <2>2, <2>3
<1>6. WritesRam' = WritesRam /\ (WritesRam <=> InRam(bus.area) /\ Mbc # 0)
  BY <1>1, <1>3 DEF WritesRam, Mbc
<1>7. rx' \in [Machines -> Seq(Words)] /\ Place'
  <2>1. CASE WritesRam
    <3>1. Underway("ramWrite", 0)
      BY <1>1, <2>1 DEF CycleInv, Place
    <3>2. rx' = [rx EXCEPT !["ramWrite"] = Append(@, bus.data)]
      BY <1>1, <1>6, <2>1 DEF Pushed
    <3>3. rx' \in [Machines -> Seq(Words)] /\ Underway("ramWrite", 1)'
      BY <1>1, <1>4, <3>1, <3>2, SecondWord DEF switchVars
    <3> QED
      BY <1>3, <1>6, <2>1, <3>3 DEF Place
  <2>2. CASE ~WritesRam
    <3>1. rx' = rx
      BY <1>1, <1>2, <1>6, <2>2 DEF Pushed, Machines
    <3>2. Resting
      BY <1>1, <2>2 DEF CycleInv, Place
    <3>3. Resting'
      BY <1>1, <3>1, <3>2, RestingFrame
    <3> QED
      BY <1>2, <1>3, <3>1, <3>3 DEF Place
  <2> QED
    BY <2>1, <2>2
<1>8. CycleInv'
  BY <1>1, <1>2, <1>3, <1>5, <1>7 DEF CycleInv, switchVars
<1>9. WritesRam' => main' # <<>>
  BY <1>5, <1>6
<1> QED
  BY <1>8, <1>9

LEMMA DriveDataCycle ==
  ASSUME MbcInv, CycleInv, DriveData
  PROVE  CycleInv'
<1>1. /\ bus.op = "read" /\ bus' = [bus EXCEPT !.driven = Head(tx)]
      /\ UNCHANGED <<switchVars, rx, armed, chain, accessor, main, cartridge>>
  BY DEF DriveData
<1>2. DOMAIN bus = BusFields
  BY <1>1 DEF CycleInv
<1>3. bus'.op = "read" /\ bus'.area = bus.area /\ DOMAIN bus' = BusFields
  BY <1>1, <1>2 DEF BusFields
<1>4. Resting \/ \E m \in Reads : Underway(m, 0)
  BY <1>1 DEF CycleInv, Place
<1>5. Place'
  <2>1. Resting => Resting'
    BY <1>1, RestingFrame
  <2>2. \A m : Underway(m, 0) => Underway(m, 0)'
    BY <1>1, UnderwayFrame DEF switchVars
  <2> QED
    BY <1>3, <1>4, <2>1, <2>2 DEF Place
<1> QED
  BY <1>1, <1>3, <1>5 DEF CycleInv, switchVars

LEMMA EndCycleCycle ==
  ASSUME MbcInv, CycleInv, EndCycle
  PROVE  CycleInv' /\ main = <<>> /\ tx = <<>> /\ Resting
<1>1. /\ bus.op \in {"read", "write"} /\ ~DmaCanStep /\ tx = <<>> /\ bus' = NoCycle
      /\ UNCHANGED <<switchVars, rx, tx, armed, chain, accessor, main, cartridge>>
  BY DEF EndCycle, AtRest
<1>2. bus'.op = "none"
  BY <1>1 DEF NoCycle
<1>3. main = <<>>
  <2>1. BusTypes'
    BY EndCycleSafe DEF MbcInv
  <2>2. main' = <<>>
    BY <1>2, <2>1 DEF BusTypes, Queue
  <2> QED
    BY <1>1, <2>2
<1>4. Resting
  <2>1. \A m \in Reads : ~Underway(m, 0)
    BY <1>1, UnderwayMoves DEF Reads, ForRom, Machines
  <2>2. ~Underway("ramWrite", 1)
    BY <1>1, UnderwayMoves DEF Machines
  <2> QED
    BY <1>1, <2>1, <2>2 DEF CycleInv, Place
<1>5. Place'
  BY <1>1, <1>2, <1>4, RestingFrame DEF Place
<1>6. CycleInv'
  BY <1>1, <1>2, <1>3, <1>5 DEF CycleInv, switchVars
<1> QED
  BY <1>1, <1>3, <1>4, <1>6

LEMMA HandleReadCycle ==
  ASSUME MbcInv, CycleInv, HandleRead
  PROVE  CycleInv' /\ bus.op = "read" /\ main' = <<>>
<1>1. /\ main # <<>> /\ ~main[1].write
      /\ main' = SubSeq(main, 1 + 1, Len(main))
      /\ UNCHANGED <<switchVars, rx, tx, armed, chain, accessor, bus, cartridge>>
  BY DEF HandleRead, Take, dmaVars, gameVars
<1>2. ASSUME NEW w, main = <<w>>
      PROVE  main[1] = w /\ main' = <<>>
  BY <1>1, <1>2, OneWord
<1>3. ASSUME NEW w, NEW d, main = <<w, d>>, w.write
      PROVE  FALSE
  BY <1>1, <1>3, TwoWords
<1>4. bus.op = "read" /\ \E w : main = <<w>>
  <2>1. Queue
    BY DEF MbcInv, BusTypes
  <2>2. ~ \E w : main = <<w>> /\ w.write
    BY <1>1, <1>2, Zenon
  <2>3. ~ \E w : \E d \in 0 .. 255 : main = <<w, d>> /\ w.write
    BY <1>3, Zenon
  <2>4. main # <<>>
    BY <1>1
  <2> QED
    BY <2>1, <2>2, <2>3, <2>4, Zenon DEF Queue
<1>5. main' = <<>>
  BY <1>2, <1>4
<1>6. Place'
  <2>1. Resting => Resting'
    BY <1>1, RestingFrame
  <2>2. \A m : Underway(m, 0) => Underway(m, 0)'
    BY <1>1, UnderwayFrame DEF switchVars
  <2>3. Resting \/ \E m \in Reads : Underway(m, 0)
    BY <1>4 DEF CycleInv, Place
  <2> QED
    BY <1>1, <1>4, <2>1, <2>2, <2>3 DEF Place
<1>7. CycleInv'
  BY <1>1, <1>5, <1>6 DEF CycleInv, switchVars
<1> QED
  BY <1>4, <1>5, <1>7

LEMMA StoreSaveGameCycle ==
  ASSUME MbcInv, CycleInv, StoreSaveGame
  PROVE  CycleInv'
<1>1. /\ bus = NoCycle
      /\ UNCHANGED <<switchVars, rx, tx, armed, chain, accessor, bus, main>>
  BY DEF StoreSaveGame, dmaVars, gameVars
<1>2. Resting' /\ bus'.op = "none"
  BY <1>1, BetweenCycles, RestingFrame
<1> QED
  BY <1>1, <1>2 DEF CycleInv, Place, switchVars

-----------------------------------------------------------------------------
(* The main loop. A write to a register may give the game its RAM or take  *)
(* it; a write to RAM marks it, if the game has it.                        *)

RamGiven == cpu.ramEnabled /\ (Mbc = 3 => ~IsClock(cpu.ramBank))
OnlyIfGiven == ramWriteCommands = RAM_WRITE => RamGiven

RegisterWritten ==
  /\ ~InRam(main[1].area)
  /\ NotDirtied
  /\ ramReadCommands' \in Chains("ramRead")
  /\ ramWriteCommands' \in Chains("ramWrite")
  /\ OnlyIfGiven'

Marked ==
  /\ UNCHANGED <<ramReadCommands, ramWriteCommands, cpu>>
  /\ \/ MarkDirty
     \/ NotDirtied /\ ~(InRam(main[1].area) /\ RamGiven /\ (Mbc = 5 => main[1].area = 10))

LEMMA CpuKeeps ==
  ASSUME NEW r \in Cpus
  PROVE  /\ \A v : /\ [r EXCEPT !.romBank = v].ramEnabled = r.ramEnabled
                   /\ [r EXCEPT !.romBank = v].ramBank = r.ramBank
         /\ \A v : /\ [r EXCEPT !.romBankLow = v].ramEnabled = r.ramEnabled
                   /\ [r EXCEPT !.romBankHigh = v].ramEnabled = r.ramEnabled
                   /\ [r EXCEPT !.modeSelect = v].ramEnabled = r.ramEnabled
         /\ \A v : /\ [r EXCEPT !.ramBank = v].ramEnabled = r.ramEnabled
                   /\ [r EXCEPT !.ramBank = v].ramBank = v
         /\ \A v : /\ [r EXCEPT !.ramEnabled = v].ramEnabled = v
                   /\ [r EXCEPT !.ramEnabled = v].ramBank = r.ramBank
         /\ \A v : /\ [r EXCEPT !.rtcLatch = v].ramEnabled = r.ramEnabled
                   /\ [r EXCEPT !.rtcLatch = v].ramBank = r.ramBank
  BY DEF Cpus

LEMMA Switched ==
  ASSUME NEW on \in BOOLEAN
  PROVE  /\ SwitchRam(on) => /\ ramReadCommands' \in Chains("ramRead")
                             /\ ramWriteCommands' \in Chains("ramWrite")
                             /\ ramWriteCommands' = RAM_WRITE => on
         /\ GbDma_EnableSaveRam => /\ ramReadCommands' \in Chains("ramRead")
                                   /\ ramWriteCommands' \in Chains("ramWrite")
         /\ GbDma_EnableRtc => /\ ramReadCommands' \in Chains("ramRead")
                               /\ ramWriteCommands' \in Chains("ramWrite")
                               /\ ramWriteCommands' # RAM_WRITE
<1>1. RAM_WRITE # RAM_DUMMY_WRITE
  BY RamWriteShape
<1>2. /\ {RAM_READ, RAM_DUMMY_READ, RTC_READ} = Chains("ramRead")
      /\ {RAM_WRITE, RAM_DUMMY_WRITE} = Chains("ramWrite")
  BY DEF Chains
<1> QED
  BY <1>1, <1>2
     DEF SwitchRam, GbDma_EnableSaveRam, GbDma_DisableSaveRam, GbDma_EnableRtc

LEMMA SwitchesKept ==
  ASSUME CycleInv, OnlyIfGiven, RamSwitchesStay
  PROVE  /\ ramReadCommands' \in Chains("ramRead")
         /\ ramWriteCommands' \in Chains("ramWrite")
         /\ ramWriteCommands' = RAM_WRITE => RamGiven
  BY DEF CycleInv, OnlyIfGiven, RamSwitchesStay

\* Which areas a write is taken from.
LEMMA OutsideRam ==
  ASSUME NEW mbc, NEW areas, HandleWrite(mbc, areas), 10 \notin areas, 11 \notin areas
  PROVE  ~InRam(main[1].area)
  BY DEF HandleWrite, InRam

LEMMA SwitchRomWritten ==
  ASSUME MbcInv, CycleInv, OnlyIfGiven, cartridge' = cartridge,
         NEW bank, SwitchRom(bank), ~InRam(main[1].area)
  PROVE  RegisterWritten
<1>1. cpu \in Cpus
  BY DEF MbcInv, CpuTypes
<1>2. cpu' = [cpu EXCEPT !.romBank = bank] /\ RamSwitchesStay /\ NotDirtied
  BY DEF SwitchRom
<1>3. cpu'.ramEnabled = cpu.ramEnabled /\ cpu'.ramBank = cpu.ramBank
  BY <1>1, <1>2, CpuKeeps
<1>4. OnlyIfGiven'
  BY <1>2, <1>3, SwitchesKept DEF OnlyIfGiven, RamGiven, Mbc
<1> QED
  BY <1>2, <1>4, SwitchesKept DEF RegisterWritten

LEMMA Mbc1Written ==
  ASSUME MbcInv, CycleInv, OnlyIfGiven, Mbc1
  PROVE  RegisterWritten
<1>1. cpu \in Cpus
  BY DEF MbcInv, CpuTypes
<1>2. \A areas : HandleWrite(1, areas) => /\ cartridge' = cartridge /\ Mbc = 1
                                          /\ Data \in 0 .. 255
  BY WriteFrame
<1>3. ASSUME NEW c \in Cpus, NEW ram, Mbc1Switch(c, ram)
      PROVE  cpu'.ramEnabled = c.ramEnabled /\ NotDirtied
  <2>1. (\E b : cpu' = [c EXCEPT !.romBank = b]) /\ NotDirtied
    BY <1>3 DEF Mbc1Switch
  <2> QED
    BY <2>1, CpuKeeps
<1>4. CASE Mbc1EnableRam
  <2> DEFINE on == Data % 16 = 10
             c == [cpu EXCEPT !.ramEnabled = on]
  <2>1. HandleWrite(1, {0, 1}) /\ SwitchRam(on) /\ Mbc1Switch(c, bases.ram)
    BY <1>4 DEF Mbc1EnableRam
  <2>2. on \in BOOLEAN
    OBVIOUS
  <2> HIDE DEF on
  <2>3. c \in Cpus
    BY <1>1, <2>2, CpuFields
  <2>4. c.ramEnabled = on
    BY <1>1, CpuKeeps
  <2> HIDE DEF c
  <2>5. cpu'.ramEnabled = on /\ NotDirtied
    BY <1>3, <2>1, <2>3, <2>4
  <2>6. Mbc' = 1 /\ ~InRam(main[1].area)
    BY <1>2, <2>1, OutsideRam DEF Mbc
  <2> QED
    BY <2>1, <2>2, <2>5, <2>6, Switched DEF RegisterWritten, OnlyIfGiven, RamGiven
<1>5. ASSUME NEW c \in Cpus, c.ramEnabled = cpu.ramEnabled, NEW ram,
             Mbc1Switch(c, ram), RamSwitchesStay, NEW areas,
             HandleWrite(1, areas), 10 \notin areas, 11 \notin areas
      PROVE  RegisterWritten
  <2>1. cpu'.ramEnabled = cpu.ramEnabled /\ NotDirtied
    BY <1>3, <1>5
  <2>2. Mbc' = 1 /\ ~InRam(main[1].area)
    BY <1>2, <1>5, OutsideRam DEF Mbc
  <2>3. OnlyIfGiven'
    BY <1>5, <2>1, <2>2, SwitchesKept DEF OnlyIfGiven, RamGiven
  <2> QED
    BY <1>5, <2>1, <2>2, <2>3, SwitchesKept DEF RegisterWritten
<1>6. CASE Mbc1LowBits
  <2> DEFINE v == NonZero(Data % 32)
             c == [cpu EXCEPT !.romBankLow = v]
  <2>1. HandleWrite(1, {2, 3}) /\ Mbc1Switch(c, bases.ram) /\ RamSwitchesStay
    BY <1>6 DEF Mbc1LowBits
  <2>2. v \in 1 .. 31
    BY <1>2, <2>1, Remainders
  <2> HIDE DEF v
  <2>3. c \in Cpus /\ c.ramEnabled = cpu.ramEnabled
    BY <1>1, <2>2, CpuFields, CpuKeeps
  <2> HIDE DEF c
  <2> QED
    BY <1>5, <2>1, <2>3
<1>7. CASE Mbc1HighBits
  <2> DEFINE v == Data % 4
             c == [cpu EXCEPT !.ramBank = v]
             d == [cpu EXCEPT !.romBankHigh = v]
  <2>1. /\ HandleWrite(1, {4, 5}) /\ RamSwitchesStay
        /\ Mbc1Switch(c, RamBase(v)) \/ Mbc1Switch(d, bases.ram)
    BY <1>7 DEF Mbc1HighBits
  <2>2. v \in 0 .. 3 /\ v \in 0 .. 255
    BY <1>2, <2>1, Remainders
  <2> HIDE DEF v
  <2>3. c \in Cpus /\ c.ramEnabled = cpu.ramEnabled
    BY <1>1, <2>2, CpuFields, CpuKeeps
  <2>4. d \in Cpus /\ d.ramEnabled = cpu.ramEnabled
    BY <1>1, <2>2, CpuFields, CpuKeeps
  <2> HIDE DEF c, d
  <2>5. \A ram : Mbc1Switch(c, ram) => RegisterWritten
    BY <1>5, <2>1, <2>3
  <2>6. \A ram : Mbc1Switch(d, ram) => RegisterWritten
    BY <1>5, <2>1, <2>4
  <2> QED
    BY <2>1, <2>5, <2>6
<1>8. CASE Mbc1Mode
  <2> DEFINE v == Data % 2 = 1
             c == [cpu EXCEPT !.modeSelect = v]
  <2>1. HandleWrite(1, {6, 7}) /\ Mbc1Switch(c, bases.ram) /\ RamSwitchesStay
    BY <1>8 DEF Mbc1Mode
  <2>2. v \in BOOLEAN
    OBVIOUS
  <2> HIDE DEF v
  <2>3. c \in Cpus /\ c.ramEnabled = cpu.ramEnabled
    BY <1>1, <2>2, CpuFields, CpuKeeps
  <2> HIDE DEF c
  <2> QED
    BY <1>5, <2>1, <2>3
<1> QED
  BY <1>4, <1>6, <1>7, <1>8 DEF Mbc1

\* The register that enables the RAM and nothing else, of MBC2 and MBC5.
LEMMA EnableWritten ==
  ASSUME MbcInv, cartridge' = cartridge, Mbc # 3, NEW on \in BOOLEAN,
         cpu' = [cpu EXCEPT !.ramEnabled = on], SwitchRam(on), NotDirtied,
         ~InRam(main[1].area)
  PROVE  RegisterWritten
<1>1. cpu \in Cpus
  BY DEF MbcInv, CpuTypes
<1>2. cpu'.ramEnabled = on /\ Mbc' # 3
  BY <1>1, CpuKeeps DEF Mbc
<1> QED
  BY <1>2, Switched DEF RegisterWritten, OnlyIfGiven, RamGiven

LEMMA Mbc2Written ==
  ASSUME MbcInv, CycleInv, OnlyIfGiven, Mbc2
  PROVE  RegisterWritten
<1>1. \A areas : HandleWrite(2, areas) => cartridge' = cartridge /\ Mbc = 2
  BY WriteFrame
<1>2. HandleWrite(2, 0 .. 3)
  BY DEF Mbc2, Mbc2EnableRam, Mbc2RomBank
<1>3. cartridge' = cartridge /\ Mbc # 3 /\ ~InRam(main[1].area)
  BY <1>1, <1>2, OutsideRam
<1>4. CASE Mbc2EnableRam
  <2> DEFINE on == Data = 10
  <2>1. cpu' = [cpu EXCEPT !.ramEnabled = on] /\ SwitchRam(on) /\ NotDirtied
    BY <1>4 DEF Mbc2EnableRam
  <2>2. on \in BOOLEAN
    OBVIOUS
  <2> HIDE DEF on
  <2> QED
    BY <1>3, <2>1, <2>2, EnableWritten
<1>5. CASE Mbc2RomBank
  BY <1>3, <1>5, SwitchRomWritten DEF Mbc2RomBank
<1> QED
  BY <1>4, <1>5 DEF Mbc2

LEMMA Mbc5Written ==
  ASSUME MbcInv, CycleInv, OnlyIfGiven, Mbc5
  PROVE  RegisterWritten
<1>1. \A areas : HandleWrite(5, areas) => cartridge' = cartridge /\ Mbc = 5
  BY WriteFrame
<1>2. \E areas : HandleWrite(5, areas) /\ 10 \notin areas /\ 11 \notin areas
  BY DEF Mbc5, Mbc5EnableRam, Mbc5LowBits, Mbc5NinthBit, Mbc5RamBank
<1>3. cartridge' = cartridge /\ Mbc # 3 /\ ~InRam(main[1].area)
  BY <1>1, <1>2, OutsideRam
<1>4. CASE Mbc5EnableRam
  <2> DEFINE on == Data % 16 = 10
  <2>1. cpu' = [cpu EXCEPT !.ramEnabled = on] /\ SwitchRam(on) /\ NotDirtied
    BY <1>4 DEF Mbc5EnableRam
  <2>2. on \in BOOLEAN
    OBVIOUS
  <2> HIDE DEF on
  <2> QED
    BY <1>3, <2>1, <2>2, EnableWritten
<1>5. CASE Mbc5LowBits \/ Mbc5NinthBit
  BY <1>3, <1>5, SwitchRomWritten DEF Mbc5LowBits, Mbc5NinthBit
<1>6. CASE Mbc5RamBank
  <2>1. /\ \E bank : cpu' = [cpu EXCEPT !.ramBank = bank]
        /\ RamSwitchesStay /\ NotDirtied
    BY <1>6 DEF Mbc5RamBank
  <2>2. cpu'.ramEnabled = cpu.ramEnabled
    BY <2>1, CpuKeeps DEF MbcInv, CpuTypes
  <2>3. OnlyIfGiven'
    BY <1>3, <2>1, <2>2, SwitchesKept DEF OnlyIfGiven, RamGiven, Mbc
  <2> QED
    BY <1>3, <2>1, <2>3, SwitchesKept DEF RegisterWritten
<1> QED
  BY <1>4, <1>5, <1>6 DEF Mbc5

LEMMA Mbc3Written ==
  ASSUME MbcInv, CycleInv, OnlyIfGiven, Mbc3
  PROVE  RegisterWritten \/ Marked
<1>1. cpu \in Cpus
  BY DEF MbcInv, CpuTypes
<1>2. \A areas : HandleWrite(3, areas) => cartridge' = cartridge /\ Mbc = 3
  BY WriteFrame
<1>3. ASSUME NEW areas, HandleWrite(3, areas), 10 \notin areas, 11 \notin areas
      PROVE  cartridge' = cartridge /\ Mbc = 3 /\ Mbc' = 3 /\ ~InRam(main[1].area)
  BY <1>2, <1>3, OutsideRam DEF Mbc
<1>4. CASE Mbc3EnableRam
  <2> DEFINE on == Data % 16 = 10
  <2>1. /\ HandleWrite(3, {0, 1})
        /\ cpu' = [cpu EXCEPT !.ramEnabled = on] /\ NotDirtied
        /\ IF on /\ IsClock(cpu.ramBank) THEN GbDma_EnableRtc ELSE SwitchRam(on)
    BY <1>4 DEF Mbc3EnableRam
  <2>2. on \in BOOLEAN
    OBVIOUS
  <2> HIDE DEF on
  <2>3. Mbc' = 3 /\ ~InRam(main[1].area)
    BY <1>3, <2>1
  <2>4. cpu'.ramEnabled = on /\ cpu'.ramBank = cpu.ramBank
    BY <1>1, <2>1, CpuKeeps
  <2>5. /\ ramReadCommands' \in Chains("ramRead")
        /\ ramWriteCommands' \in Chains("ramWrite")
        /\ ramWriteCommands' = RAM_WRITE => on /\ ~IsClock(cpu.ramBank)
    BY <2>1, <2>2, Switched
  <2>6. OnlyIfGiven'
    BY <2>3, <2>4, <2>5 DEF OnlyIfGiven, RamGiven
  <2> QED
    BY <2>1, <2>3, <2>5, <2>6 DEF RegisterWritten
<1>5. CASE Mbc3RomBank
  <2>1. HandleWrite(3, {2, 3}) /\ \E bank : SwitchRom(bank)
    BY <1>5 DEF Mbc3RomBank
  <2> QED
    BY <1>3, <2>1, SwitchRomWritten
<1>6. CASE Mbc3RamBank
  <2>1. /\ HandleWrite(3, {4, 5})
        /\ cpu' = [cpu EXCEPT !.ramBank = Data] /\ NotDirtied
        /\ \/ IsClock(Data) /\ cpu.ramEnabled /\ GbDma_EnableRtc
           \/ ~IsClock(Data) /\ cpu.ramEnabled /\ GbDma_EnableSaveRam
           \/ ~cpu.ramEnabled /\ RamSwitchesStay
    BY <1>6 DEF Mbc3RamBank
  <2>2. Mbc' = 3 /\ ~InRam(main[1].area)
    BY <1>3, <2>1
  <2>3. cpu'.ramEnabled = cpu.ramEnabled /\ cpu'.ramBank = Data
    BY <1>1, <2>1, CpuKeeps
  <2>4. /\ ramReadCommands' \in Chains("ramRead")
        /\ ramWriteCommands' \in Chains("ramWrite")
        /\ ramWriteCommands' = RAM_WRITE => cpu.ramEnabled /\ ~IsClock(Data)
    <3>1. CASE IsClock(Data) /\ cpu.ramEnabled /\ GbDma_EnableRtc
      BY <3>1, Switched
    <3>2. CASE ~IsClock(Data) /\ cpu.ramEnabled /\ GbDma_EnableSaveRam
      BY <3>2, Switched
    <3>3. CASE ~cpu.ramEnabled /\ RamSwitchesStay
      BY <3>3, SwitchesKept DEF RamGiven
    <3> QED
      BY <2>1, <3>1, <3>2, <3>3
  <2>5. OnlyIfGiven'
    BY <2>2, <2>3, <2>4 DEF OnlyIfGiven, RamGiven
  <2> QED
    BY <2>1, <2>2, <2>4, <2>5 DEF RegisterWritten
<1>7. CASE Mbc3Latch
  <2>1. /\ HandleWrite(3, {6, 7}) /\ cpu' = [cpu EXCEPT !.rtcLatch = Data # 0]
        /\ RamSwitchesStay /\ NotDirtied
    BY <1>7 DEF Mbc3Latch, switchVars, RamSwitchesStay, NotDirtied
  <2>2. cpu'.ramEnabled = cpu.ramEnabled /\ cpu'.ramBank = cpu.ramBank
    BY <1>1, <2>1, CpuKeeps
  <2>3. cartridge' = cartridge /\ ~InRam(main[1].area)
    BY <1>3, <2>1
  <2>4. OnlyIfGiven'
    BY <2>1, <2>2, <2>3, SwitchesKept DEF OnlyIfGiven, RamGiven, Mbc
  <2> QED
    BY <2>1, <2>3, <2>4, SwitchesKept DEF RegisterWritten
<1>8. CASE Mbc3RamWritten
  <2>1. /\ HandleWrite(3, {10, 11})
        /\ UNCHANGED <<ramReadCommands, ramWriteCommands, cpu>>
        /\ \/ MarkDirty
           \/ NotDirtied /\ cpu.ramEnabled /\ IsClock(cpu.ramBank)
    BY <1>8 DEF Mbc3RamWritten, switchVars
  <2>2. Mbc = 3
    BY <1>2, <2>1
  <2> QED
    BY <2>1, <2>2 DEF Marked, RamGiven
<1> QED
  BY <1>4, <1>5, <1>6, <1>7, <1>8 DEF Mbc3

LEMMA WriteOutcome ==
  ASSUME MbcInv, CycleInv, OnlyIfGiven, Write
  PROVE  /\ RegisterWritten \/ Marked
         /\ bus.op = "write" /\ main # <<>> /\ main' = <<>> /\ Mbc # 0
         /\ UNCHANGED <<rx, tx, armed, chain, accessor, cartridge, bus, unsaved>>
<1>1. ASSUME NEW mbc, NEW areas, RamWritten(mbc, areas)
      PROVE  Marked
  BY <1>1 DEF RamWritten, Marked, switchVars
<1>2. ASSUME NEW mbc, NEW areas, Ignored(mbc, areas),
             10 \notin areas, 11 \notin areas \/ mbc = 5
      PROVE  Marked
  <2>1. /\ HandleWrite(mbc, areas) /\ NotDirtied
        /\ UNCHANGED <<ramReadCommands, ramWriteCommands, cpu>>
    BY <1>2 DEF Ignored, switchVars, cpuVars, NotDirtied
  <2>2. Mbc = mbc /\ main[1].area \in areas
    BY <2>1 DEF HandleWrite
  <2>3. ~(InRam(main[1].area) /\ (Mbc = 5 => main[1].area = 10))
    BY <1>2, <2>2 DEF InRam
  <2> QED
    BY <2>1, <2>3 DEF Marked
<1>3. RegisterWritten \/ Marked
  <2>1. CASE Mbc1 \/ Mbc2 \/ Mbc3 \/ Mbc5
    BY <2>1, Mbc1Written, Mbc2Written, Mbc3Written, Mbc5Written
  <2>2. CASE \E mbc, areas : RamWritten(mbc, areas)
    BY <1>1, <2>2
  <2>3. CASE \/ Ignored(1, {8, 9} \cup 12 .. 15)
             \/ Ignored(2, 4 .. 9 \cup 12 .. 15)
             \/ Ignored(3, {8, 9} \cup 12 .. 15)
             \/ Ignored(5, 5 .. 9 \cup 11 .. 15)
    <3>1. /\ 10 \notin {8, 9} \cup 12 .. 15 /\ 11 \notin {8, 9} \cup 12 .. 15
          /\ 10 \notin 4 .. 9 \cup 12 .. 15 /\ 11 \notin 4 .. 9 \cup 12 .. 15
          /\ 10 \notin 5 .. 9 \cup 11 .. 15
      OBVIOUS
    <3> QED
      BY <1>2, <2>3, <3>1
  <2> QED
    BY <2>1, <2>2, <2>3 DEF Write
<1>4. PICK mbc, areas : HandleWrite(mbc, areas) /\ mbc # 0
  <2>1. CASE Mbc1
    BY <2>1 DEF Mbc1, Mbc1EnableRam, Mbc1LowBits, Mbc1HighBits, Mbc1Mode
  <2>2. CASE Mbc2
    BY <2>2 DEF Mbc2, Mbc2EnableRam, Mbc2RomBank
  <2>3. CASE Mbc3
    BY <2>3 DEF Mbc3, Mbc3EnableRam, Mbc3RomBank, Mbc3RamBank, Mbc3Latch,
                Mbc3RamWritten
  <2>4. CASE Mbc5
    BY <2>4 DEF Mbc5, Mbc5EnableRam, Mbc5LowBits, Mbc5NinthBit, Mbc5RamBank
  <2>5. \A m, a : RamWritten(m, a) \/ Ignored(m, a) => HandleWrite(m, a)
    BY DEF RamWritten, Ignored
  <2> QED
    BY <2>1, <2>2, <2>3, <2>4, <2>5 DEF Write
<1>5. bus.op = "write" /\ main # <<>> /\ main' = <<>> /\ Mbc = mbc
  BY <1>4, WriteFrame
<1>6. UNCHANGED <<rx, tx, armed, chain, accessor, cartridge, bus, unsaved>>
  BY <1>4 DEF HandleWrite, gameVars
<1> QED
  BY <1>3, <1>4, <1>5, <1>6

LEMMA GivenFrame ==
  ASSUME UNCHANGED <<cpu, cartridge>>
  PROVE  /\ RamGiven' = RamGiven
         /\ ramWriteCommands' = ramWriteCommands => OnlyIfGiven' = OnlyIfGiven
  BY DEF RamGiven, OnlyIfGiven, Mbc

LEMMA WriteCycle ==
  ASSUME MbcInv, CycleInv, OnlyIfGiven, Write
  PROVE  CycleInv' /\ OnlyIfGiven'
<1>1. /\ RegisterWritten \/ Marked
      /\ bus.op = "write" /\ main # <<>> /\ main' = <<>>
      /\ UNCHANGED <<rx, tx, armed, chain, accessor, cartridge, bus>>
  BY WriteOutcome
<1>2. main[1].area = bus.area /\ WritesRam' = WritesRam
  BY <1>1 DEF CycleInv, WritesRam, Mbc
<1>3. CASE RegisterWritten
  <2>1. ~WritesRam
    BY <1>2, <1>3 DEF RegisterWritten, WritesRam
  <2>2. Resting'
    BY <1>1, <2>1, RestingFrame DEF CycleInv, Place
  <2>3. Place'
    BY <1>1, <2>2 DEF Place
  <2> QED
    BY <1>1, <1>3, <2>3 DEF CycleInv, RegisterWritten
<1>4. CASE Marked
  <2>1. UNCHANGED <<ramReadCommands, ramWriteCommands, cpu>>
    BY <1>4 DEF Marked
  <2>2. Resting => Resting'
    BY <1>1, RestingFrame
  <2>3. Underway("ramWrite", 1) => Underway("ramWrite", 1)'
    BY <1>1, <2>1, UnderwayFrame
  <2>4. Place'
    BY <1>1, <1>2, <2>2, <2>3 DEF CycleInv, Place
  <2>5. OnlyIfGiven'
    BY <1>1, <2>1, GivenFrame
  <2> QED
    BY <1>1, <2>1, <2>4, <2>5 DEF CycleInv
<1> QED
  BY <1>1, <1>3, <1>4

-----------------------------------------------------------------------------
LEMMA CycleInit ==
  ASSUME Init
  PROVE  CycleInv /\ OnlyIfGiven
<1>1. /\ rx = [m \in Machines |-> <<>>] /\ tx = <<>> /\ armed = Machines
      /\ chain = <<>> /\ accessor = Idle /\ main = <<>> /\ bus = NoCycle
      /\ ramReadCommands = RAM_DUMMY_READ /\ ramWriteCommands = RAM_DUMMY_WRITE
  BY DEF Init, DmaInit
<1>2. rx \in [Machines -> Seq(Words)] /\ Resting
  BY <1>1 DEF Resting
<1>3. bus.op = "none"
  BY <1>1 DEF NoCycle
<1>4. OnlyIfGiven
  BY <1>1, RamWriteShape DEF OnlyIfGiven
<1>5. CycleInv
  BY <1>1, <1>2, <1>3 DEF CycleInv, Place, Chains
<1> QED
  BY <1>4, <1>5

\* The cycles of the game.
LEMMA Begins ==
  ASSUME GameReads \/ GameWrites
  PROVE  \/ \E area : \E page \in Words : BeginRead(area, page)
         \/ \E area, odd, data : \E page \in Words :
              BeginWrite(area, odd, page, data)
<1>1. \A area : (IF InRam(area) THEN {0, TopPage} ELSE {0}) \subseteq Words
  BY DEF Words
<1>2. CASE GameReads
  BY <1>1, <1>2 DEF GameReads
<1>3. CASE GameWrites
  <2>1. PICK area : \E data :
          \E page \in IF InRam(area) THEN {0, TopPage} ELSE {0}, odd \in BOOLEAN :
               BeginWrite(area, odd, page, data)
    BY <1>3 DEF GameWrites
  <2>2. PICK data :
          \E page \in IF InRam(area) THEN {0, TopPage} ELSE {0}, odd \in BOOLEAN :
               BeginWrite(area, odd, page, data)
    BY <2>1
  <2>3. PICK page \in Words : \E odd : BeginWrite(area, odd, page, data)
    BY <1>1, <2>2
  <2>4. PICK odd : BeginWrite(area, odd, page, data)
    BY <2>3
  <2> QED
    BY <2>2, <2>4
<1> QED
  BY <1>2, <1>3

LEMMA CycleStep ==
  ASSUME MbcInv, CycleInv, OnlyIfGiven, [Next]_vars
  PROVE  CycleInv' /\ OnlyIfGiven'
<1>1. CASE GameReads \/ GameWrites
  <2>1. CycleInv'
    BY <1>1, Begins, BeginReadCycle, BeginWriteCycle
  <2>2. UNCHANGED <<cpu, cartridge, ramWriteCommands>>
    BY <1>1, Begins DEF BeginRead, BeginWrite, switchVars, cpuVars
  <2> QED
    BY <2>1, <2>2, GivenFrame
<1>2. CASE PutData
  BY <1>2, PutDataCycle, GivenFrame DEF PutData, switchVars, cpuVars
<1>3. CASE DriveData
  BY <1>3, DriveDataCycle, GivenFrame DEF DriveData, switchVars, cpuVars
<1>4. CASE EndCycle
  BY <1>4, EndCycleCycle, GivenFrame DEF EndCycle, switchVars, cpuVars
<1>5. CASE HandleRead
  BY <1>5, HandleReadCycle, GivenFrame
     DEF HandleRead, switchVars, cpuVars, gameVars
<1>6. CASE Write
  BY <1>6, WriteCycle
<1>7. CASE Dma
  BY <1>7, DmaCycle, GivenFrame DEF Dma, switchVars, cpuVars, gameVars
<1>8. CASE StoreSaveGame
  BY <1>8, StoreSaveGameCycle, GivenFrame
     DEF StoreSaveGame, switchVars, gameVars
<1>9. CASE UNCHANGED vars
  <2>1. UNCHANGED <<switchVars, dmaVars, cpu, main, cartridge, bus>>
    BY <1>9 DEF vars, cpuVars, gameVars
  <2>2. /\ Resting => Resting'
        /\ \A m, more : Underway(m, more) => Underway(m, more)'
    BY <2>1, RestingFrame, UnderwayFrame DEF dmaVars, switchVars
  <2>3. WritesRam' = WritesRam
    BY <2>1 DEF WritesRam, Mbc
  <2>4. Place'
    BY <2>1, <2>2, <2>3 DEF CycleInv, Place
  <2> QED
    BY <2>1, <2>4, GivenFrame DEF CycleInv, dmaVars, switchVars
<1> QED
  BY <1>1, <1>2, <1>3, <1>4, <1>5, <1>6, <1>7, <1>8, <1>9 DEF Next

(***************************************************************************)
(* Whatever the order in which main loop and channels handle a cycle, and  *)
(* whatever bank or chain it switches meanwhile: when the Game Boy begins  *)
(* the next one every channel waits for a word and every FIFO is empty, so *)
(* no word of one access is ever taken for the address of another (the     *)
(* chains of GbDma.c, the loop of each controller in mbc.c).               *)
(***************************************************************************)
THEOREM EveryCycleEnds ==
  ASSUME Mbc5HasRam
  PROVE  Spec => []ReadyForNext
<1>1. Init => MbcInv /\ CycleInv /\ OnlyIfGiven
  BY InitSafe, CycleInit
<1>2. MbcInv /\ CycleInv /\ OnlyIfGiven /\ [Next]_vars
        => (MbcInv /\ CycleInv /\ OnlyIfGiven)'
  BY StepSafe, CycleStep
<1>3. MbcInv /\ CycleInv /\ OnlyIfGiven => ReadyForNext
  <2>1. ASSUME MbcInv, CycleInv, bus = NoCycle
        PROVE  /\ armed = Machines /\ \A m \in Machines : rx[m] = <<>>
               /\ tx = <<>> /\ main = <<>> /\ chain = <<>> /\ ~accessor.busy
    BY <2>1, BetweenCycles DEF Resting, Idle
  <2> QED
    BY <2>1 DEF ReadyForNext
<1> QED
  BY <1>1, <1>2, <1>3, PTL DEF Spec

-----------------------------------------------------------------------------
(* The LED. A write to RAM is either marked already, or it waits in the    *)
(* FIFO of a main loop that will mark it.                                  *)

InWrite == WritesRam /\ bus.op = "write"

Watched == bus.area \notin Unwatched

DirtyInv ==
  /\ ramDirty => led = "red"
  /\ InWrite /\ main = <<>> /\ RamGiven /\ Watched => ramDirty
  /\ ~(unsaved \subseteq Unwatched) =>
       ramDirty \/ (InWrite /\ main # <<>> /\ RamGiven /\ Watched)

LEMMA NotInWrite ==
  ASSUME DirtyInv, ~InWrite \/ main = <<>>,
         UNCHANGED <<ramDirty, led, unsaved, cartridge>>, ~InWrite' \/ main' # <<>>
  PROVE  DirtyInv'
<1>1. Unwatched' = Unwatched
  BY DEF Unwatched, Mbc
<1> QED
  BY <1>1 DEF DirtyInv

LEMMA MarkedRed ==
  ASSUME ramDirty => led = "red", MarkDirty
  PROVE  /\ ramDirty' => led' = "red"
         /\ cpu.ramEnabled => ramDirty'
         /\ ramDirty => ramDirty'
  BY DEF MarkDirty, NotDirtied

LEMMA WriteDirty ==
  ASSUME MbcInv, CycleInv, OnlyIfGiven, DirtyInv, Write
  PROVE  DirtyInv'
<1>1. /\ RegisterWritten \/ Marked
      /\ bus.op = "write" /\ main # <<>> /\ main' = <<>>
      /\ UNCHANGED <<cartridge, bus, unsaved>>
  BY WriteOutcome
<1>2. /\ main[1].area = bus.area /\ InWrite' = InWrite /\ WritesRam' = WritesRam
      /\ Unwatched' = Unwatched /\ Watched' = Watched
  BY <1>1 DEF CycleInv, InWrite, WritesRam, Mbc, Unwatched, Watched
<1>3. CASE RegisterWritten
  <2>1. ~WritesRam
    BY <1>2, <1>3 DEF RegisterWritten, WritesRam
  <2>2. UNCHANGED <<ramDirty, led>>
    BY <1>3 DEF RegisterWritten, NotDirtied
  <2> QED
    BY <1>1, <1>2, <2>1, <2>2, NotInWrite DEF InWrite
<1>4. CASE Marked
  <2>1. RamGiven' = RamGiven
    BY <1>1, <1>4, GivenFrame DEF Marked
  <2>2. /\ ramDirty' => led' = "red"
        /\ InWrite /\ RamGiven /\ Watched => ramDirty'
        /\ ramDirty => ramDirty'
    <3>1. CASE MarkDirty
      BY <3>1, MarkedRed DEF DirtyInv, RamGiven
    <3>2. CASE /\ NotDirtied
               /\ ~(/\ InRam(main[1].area) /\ RamGiven
                    /\ Mbc = 5 => main[1].area = 10)
      BY <1>2, <3>2 DEF NotDirtied, DirtyInv, InWrite, WritesRam, InRam, Watched, Unwatched
    <3> QED
      BY <1>4, <3>1, <3>2 DEF Marked
  <2>4. ~(unsaved' \subseteq Unwatched') => ramDirty'
    BY <1>1, <1>2, <2>2 DEF DirtyInv
  <2> QED
    BY <1>1, <1>2, <2>1, <2>2, <2>4 DEF DirtyInv
<1> QED
  BY <1>1, <1>3, <1>4

LEMMA DmaDirty ==
  ASSUME MbcInv, CycleInv, OnlyIfGiven, DirtyInv, Dma
  PROVE  DirtyInv'
<1>1. /\ unsaved' = IF wrote' # wrote THEN unsaved \cup {bus.area} ELSE unsaved
      /\ UNCHANGED <<cpu, ramDirty, led, main, cartridge, bus>>
  BY DEF Dma, cpuVars, gameVars
<1>2. wrote' # wrote => InWrite /\ RamGiven
  BY DmaCycle DEF InWrite, OnlyIfGiven
<1>3. /\ InWrite' = InWrite /\ RamGiven' = RamGiven
      /\ Unwatched' = Unwatched /\ Watched' = Watched
  BY <1>1, GivenFrame DEF InWrite, WritesRam, Mbc, Unwatched, Watched
<1>4. ~(unsaved' \subseteq Unwatched) =>
        ~(unsaved \subseteq Unwatched) \/ (wrote' # wrote /\ Watched)
  BY <1>1 DEF Watched
<1> QED
  BY <1>1, <1>2, <1>3, <1>4 DEF DirtyInv

LEMMA DirtyStep ==
  ASSUME MbcInv, CycleInv, OnlyIfGiven, DirtyInv, [Next]_vars
  PROVE  DirtyInv'
<1>1. ASSUME bus.op # "write", UNCHANGED <<ramDirty, led, unsaved, cartridge>>,
             ~InWrite' \/ main' # <<>>
      PROVE  DirtyInv'
  BY <1>1, NotInWrite DEF InWrite
<1>2. bus = NoCycle => bus.op = "none"
  BY DEF NoCycle
<1>3. ASSUME NEW area, NEW page, BeginRead(area, page)
      PROVE  DirtyInv'
  <2>1. /\ bus = NoCycle /\ UNCHANGED <<ramDirty, led, unsaved, cartridge>>
        /\ bus'.op = "read"
    BY <1>3 DEF BeginRead, cpuVars, Cycle
  <2> QED
    BY <1>1, <1>2, <2>1 DEF InWrite, WritesRam
<1>4. ASSUME NEW area, NEW odd, NEW page, NEW data, BeginWrite(area, odd, page, data)
      PROVE  DirtyInv'
  <2>1. /\ bus = NoCycle /\ UNCHANGED <<ramDirty, led, unsaved, cartridge>>
        /\ bus' = Cycle("address", area, odd, page, data)
    BY <1>4 DEF BeginWrite, cpuVars
  <2>2. bus'.op = "address"
    BY <2>1, CycleFields
  <2> QED
    BY <1>1, <1>2, <2>1, <2>2 DEF InWrite
<1>5. CASE PutData
  <2>1. /\ bus.op = "address" /\ UNCHANGED <<ramDirty, led, unsaved, cartridge>>
        /\ bus' = [bus EXCEPT !.op = "write"]
    BY <1>5 DEF PutData, cpuVars
  <2>5. WritesRam' => main' # <<>>
    BY <1>5, PutDataCycle
  <2> QED
    BY <1>1, <2>1, <2>5 DEF InWrite
<1>6. CASE DriveData
  <2>1. /\ bus.op = "read" /\ UNCHANGED <<ramDirty, led, unsaved, cartridge>>
        /\ bus' = [bus EXCEPT !.driven = Head(tx)]
    BY <1>6 DEF DriveData, cpuVars
  <2>2. DOMAIN bus = BusFields
    BY <2>1 DEF CycleInv
  <2>3. bus'.op = "read"
    BY <2>1, <2>2 DEF BusFields
  <2> QED
    BY <1>1, <2>1, <2>3 DEF InWrite, WritesRam
<1>7. CASE EndCycle
  <2>1. bus'.op = "none" /\ UNCHANGED <<ramDirty, led, unsaved, cartridge>>
    BY <1>7 DEF EndCycle, cpuVars, NoCycle
  <2>2. main = <<>>
    BY <1>7, EndCycleCycle
  <2> QED
    BY <2>1, <2>2, NotInWrite DEF InWrite, WritesRam
<1>8. CASE HandleRead
  <2>1. bus.op = "read" /\ UNCHANGED <<ramDirty, led, unsaved, cartridge, bus>>
    BY <1>8, HandleReadCycle DEF HandleRead, cpuVars, gameVars
  <2> QED
    BY <1>1, <2>1 DEF InWrite, WritesRam
<1>9. CASE StoreSaveGame
  <2>1. /\ bus = NoCycle /\ UNCHANGED <<bus, cartridge>>
        /\ ramDirty' = FALSE /\ unsaved' = {}
    BY <1>9 DEF StoreSaveGame, gameVars
  <2>2. ~WritesRam'
    BY <1>2, <2>1 DEF WritesRam
  <2> QED
    BY <2>1, <2>2 DEF DirtyInv, InWrite
<1>10. CASE UNCHANGED vars
  <2>1. UNCHANGED <<cpu, ramDirty, led, unsaved, main, cartridge, bus>>
    BY <1>10 DEF vars, cpuVars, gameVars
  <2> QED
    BY <2>1, GivenFrame DEF DirtyInv, InWrite, WritesRam, Mbc, Watched, Unwatched
<1>11. CASE GameReads \/ GameWrites
  BY <1>3, <1>4, <1>11, Begins
<1> QED
  BY <1>5, <1>6, <1>7, <1>8, <1>9, <1>10, <1>11, WriteDirty, DmaDirty DEF Next

LEMMA DirtyInit ==
  ASSUME Init
  PROVE  DirtyInv
<1>1. ramDirty = FALSE /\ unsaved = {} /\ bus.op = "none"
  BY DEF Init, NoCycle
<1> QED
  BY <1>1 DEF DirtyInv, InWrite, WritesRam

(***************************************************************************)
(* The LED is red from the write to RAM until it is stored: the main loop  *)
(* that lights it (_ramDirty) and the channel that writes take the same    *)
(* cycle from two FIFOs, in any order, and the channel only writes if the  *)
(* main loop knows that RAM is enabled. What a game writes to the upper    *)
(* half of the RAM with an MBC5 is the one exception: its main loop does   *)
(* not look at it.                                                         *)
(***************************************************************************)
THEOREM RedUntilStored ==
  ASSUME Mbc5HasRam
  PROVE  Spec => []UnsavedIsRed
<1> DEFINE Inv == MbcInv /\ CycleInv /\ OnlyIfGiven /\ DirtyInv
<1>1. Init => Inv
  BY InitSafe, CycleInit, DirtyInit
<1>2. Inv /\ [Next]_vars => Inv'
  BY StepSafe, CycleStep, DirtyStep
<1>3. Inv => UnsavedIsRed
  <2>1. Inv /\ bus = NoCycle => ~InWrite
    BY BetweenCycles DEF InWrite
  <2> QED
    BY <2>1 DEF UnsavedIsRed, DirtyInv
<1> QED
  BY <1>1, <1>2, <1>3, PTL DEF Spec

-----------------------------------------------------------------------------
(* Every cycle is answered as a cartridge answers it. For this the main    *)
(* loop's registers have to be what the game wrote (Selects), and so have  *)
(* the chains and bases that it hands to the channels; and what a channel  *)
(* has in its FIFO and its accessor at each stage has to be this cycle's.  *)

Registers ==
  [ram: 0 .. 255, low: 0 .. 255, high: 0 .. 255, upper: 0 .. 255, bank: 0 .. 255,
   mode: 0 .. 1, clock: 0 .. 4]

ClockIsOn(w) == cpu.ramEnabled /\ Bus!SelectsClock(cartridge, w.bank)

RomSelects(w) ==
  /\ Mbc = 1 => /\ cpu.romBankLow = NonZero(w.low % 32)
                /\ cpu.romBankHigh = w.upper % 4
                /\ cpu.modeSelect <=> w.mode # 0
  /\ cpu.romBank = Bus!RomBank(cartridge, w)
  /\ bases.romLow = RomCell(0)

RamSelects(w) ==
  /\ Mbc = 3 => cpu.ramBank = w.bank
  /\ cpu.ramEnabled <=> Bus!RamIsOn(cartridge, w)
  /\ ~Bus!SelectsClock(cartridge, w.bank) => bases.ram = Bus!RamCell(cartridge, w, 0)
  /\ ramReadCommands = IF ~cpu.ramEnabled THEN RAM_DUMMY_READ
                       ELSE IF ClockIsOn(w) THEN RTC_READ ELSE RAM_READ
  /\ ramWriteCommands = IF ~cpu.ramEnabled \/ ClockIsOn(w) THEN RAM_DUMMY_WRITE
                        ELSE RAM_WRITE

ClockSelects(w) ==
  bases.latch = Bus!ClockCell(w.clock) /\ currentRegister = w.clock

Selects(w) == w \in Registers /\ RomSelects(w) /\ RamSelects(w) /\ ClockSelects(w)

(* The registers as the main loop knows them: those of a write that it has *)
(* handled, while the cycle lasts.                                         *)
AfterCycle == Bus!Written(cartridge, written, bus.area, bus.odd, bus.data)
Handled == IF bus.op = "write" /\ main = <<>> THEN AfterCycle ELSE written

Follows == \E w \in {Handled} : Selects(w)

(* The words of the cycle, in the FIFO of the main loop.                   *)
Told ==
  /\ bus.op \in {"address", "write"} => bus.data \in 0 .. 255
  /\ main # <<>> => main[1].odd = bus.odd
  /\ main # <<>> /\ bus.op = "write" => main[2] = bus.data

(* A read: what the channel has loaded when n commands are executed.       *)
Answer == Bus!Drives(cartridge, written, bus.area, bus.page)
Answered == tx = <<Answer>> \/ (tx = <<>> /\ bus.driven = Answer)

Serves(m) ==
  CASE m = "romLow" -> bus.area \in 0 .. 3
    [] m = "romHigh" -> bus.area \in 4 .. 7
    [] m = "ramRead" -> InRam(bus.area) /\ Mbc # 0

Loading(m, c, n) ==
  /\ m = "ramRead" => c = ramReadCommands
  /\ n < TakesAddress(m) => rx[m] = <<bus.page>>
  /\ m \in ForRom => accessor.write = TxFifo
  /\ m = "ramRead" /\ n > 1 =>
       accessor.write = IF c = RAM_DUMMY_READ THEN DevNull ELSE TxFifo
  /\ c # RTC_READ /\ TakesAddress(m) <= n /\ n < Len(c) =>
       accessor.read = Address(bus.page)
  /\ c # RAM_DUMMY_READ /\ n = Len(c) => accessor.read = Answer

Reading(m) ==
  /\ Serves(m) /\ tx = <<>> /\ bus.driven = Nothing
  /\ \/ Waiting(m, 0) /\ rx[m] = <<bus.page>>
     \/ \E c \in Chains(m) : \E n \in 0 .. Len(c) : Stage(m, c, n, 0) /\ Loading(m, c, n)

(* A write to RAM: its words, and where the channel is to put the data.    *)
Stored == Bus!Stores(cartridge, written, bus.page, bus.data)
DataWords == IF bus.op = "write" THEN <<bus.data>> ELSE <<>>
AllWords == IF bus.op = "write" THEN <<bus.page, bus.data>> ELSE <<bus.page>>
More == IF bus.op = "write" THEN 1 ELSE 0

Storing(c, n) ==
  /\ rx["ramWrite"] = IF n < 2 THEN AllWords ELSE DataWords
  /\ c = RAM_WRITE /\ n = 2 => accessor.write = Address(bus.page)
  /\ c = RAM_WRITE /\ n > 2 => accessor.write = Bus!RamCell(cartridge, written, bus.page)

Writing ==
  /\ wrote = IF ClockIsOn(written) /\ bus.op = "write" /\ main = <<>> THEN Stored
             ELSE Nothing
  /\ \E c \in {ramWriteCommands}, more \in {More} :
       \/ Waiting("ramWrite", more) /\ rx["ramWrite"] = AllWords
       \/ \E n \in 0 .. 4 : Stage("ramWrite", c, n, more) /\ Storing(c, n)

WrittenThrough ==
  /\ Resting /\ bus.op = "write"
  /\ wrote = IF ClockIsOn(written) /\ main # <<>> THEN Nothing ELSE Stored

Flow ==
  \/ bus.op = "none" /\ wrote = Nothing
  \/ /\ bus.op = "read" /\ wrote = Nothing
     /\ (Resting /\ Answered) \/ \E m \in Reads : Reading(m)
  \/ /\ bus.op \in {"address", "write"} /\ bus.driven = Nothing
     /\ IF WritesRam THEN Writing \/ WrittenThrough ELSE wrote = Nothing

FlowInv == Follows /\ Told /\ Flow

-----------------------------------------------------------------------------
(* What the registers select, and what a write to them changes.            *)

LEMMA RomBanks ==
  ASSUME cartridge \in Cartridges, NEW w
  PROVE  /\ Mbc = 0 => Bus!RomBank(cartridge, w) = 1
         /\ Mbc = 1 => Bus!RomBank(cartridge, w) =
              (NonZero(w.low % 32) + IF w.mode # 0 THEN 0 ELSE 32 * (w.upper % 4))
              % cartridge.romBanks
         /\ Mbc \in {2, 3} =>
              Bus!RomBank(cartridge, w) = NonZero(w.low % cartridge.romBanks)
         /\ Mbc = 5 => Bus!RomBank(cartridge, w) =
              (256 * (w.high % 2) + w.low) % cartridge.romBanks
  BY DEF Bus!RomBank, Bus!NonZero, NonZero, Mbc

LEMMA RamOn ==
  ASSUME cartridge \in Cartridges, NEW w
  PROVE  /\ Bus!RamIsOn(cartridge, w) \in BOOLEAN
         /\ Mbc = 0 => ~Bus!RamIsOn(cartridge, w)
         /\ Mbc = 2 => (Bus!RamIsOn(cartridge, w) <=> w.ram = 10)
         /\ Mbc \in {1, 3, 5} => (Bus!RamIsOn(cartridge, w) <=> w.ram % 16 = 10)
<1>1. Mbc = cartridge.mbc
  BY DEF Mbc
<1> QED
  BY <1>1 DEF Bus!RamIsOn

LEMMA ClockBit ==
  ASSUME NEW data
  PROVE  Bus!SelectsClock(cartridge, data) <=> Mbc = 3 /\ IsClock(data)
  BY DEF Bus!SelectsClock, IsClock, Mbc

LEMMA RamCells ==
  ASSUME cartridge \in Cartridges, NEW w, NEW page
  PROVE  /\ Mbc = 2 => Bus!RamCell(cartridge, w, page) = Cell("ram", 0, TopPage)
         /\ Mbc = 5 => Bus!RamCell(cartridge, w, page) =
              Cell("ram", w.bank % cartridge.ramBanks, page)
         /\ Mbc \notin {2, 5} =>
              Bus!RamCell(cartridge, w, page) = Cell("ram", w.bank % 4, page)
  BY DEF Bus!RamCell, Cell, Mbc

SameRom(r, w) ==
  r.low = w.low /\ r.high = w.high /\ r.upper = w.upper /\ r.mode = w.mode
SameRam(r, w) == r.ram = w.ram /\ r.bank = w.bank
SameClock(r, w) == r.clock = w.clock

LEMMA RamUpdate ==
  ASSUME NEW w \in Registers, NEW d \in 0 .. 255, NEW r, r = [w EXCEPT !.ram = d]
  PROVE  /\ r \in Registers /\ SameRom(r, w) /\ SameClock(r, w)
         /\ r.ram = d /\ r.bank = w.bank
  BY DEF Registers, SameRom, SameRam, SameClock

LEMMA LowUpdate ==
  ASSUME NEW w \in Registers, NEW d \in 0 .. 255, NEW r, r = [w EXCEPT !.low = d]
  PROVE  /\ r \in Registers /\ SameRam(r, w) /\ SameClock(r, w)
         /\ r.low = d /\ r.high = w.high /\ r.upper = w.upper /\ r.mode = w.mode
  BY DEF Registers, SameRom, SameRam, SameClock

LEMMA HighUpdate ==
  ASSUME NEW w \in Registers, NEW d \in 0 .. 255, NEW r, r = [w EXCEPT !.high = d]
  PROVE  /\ r \in Registers /\ SameRam(r, w) /\ SameClock(r, w)
         /\ r.low = w.low /\ r.high = d /\ r.upper = w.upper /\ r.mode = w.mode
  BY DEF Registers, SameRom, SameRam, SameClock

LEMMA UpperUpdate ==
  ASSUME NEW w \in Registers, NEW d \in 0 .. 255, NEW r, r = [w EXCEPT !.upper = d]
  PROVE  /\ r \in Registers /\ SameRam(r, w) /\ SameClock(r, w)
         /\ r.low = w.low /\ r.high = w.high /\ r.upper = d /\ r.mode = w.mode
  BY DEF Registers, SameRom, SameRam, SameClock

LEMMA BankUpdate ==
  ASSUME NEW w \in Registers, NEW d \in 0 .. 255, NEW r, r = [w EXCEPT !.bank = d]
  PROVE  /\ r \in Registers /\ SameRom(r, w) /\ SameClock(r, w)
         /\ r.ram = w.ram /\ r.bank = d
  BY DEF Registers, SameRom, SameRam, SameClock

LEMMA ModeUpdate ==
  ASSUME NEW w \in Registers, NEW d \in 0 .. 1, NEW r, r = [w EXCEPT !.mode = d]
  PROVE  /\ r \in Registers /\ SameRam(r, w) /\ SameClock(r, w)
         /\ r.low = w.low /\ r.high = w.high /\ r.upper = w.upper /\ r.mode = d
  BY DEF Registers, SameRom, SameRam, SameClock

LEMMA Written1 ==
  ASSUME NEW w, NEW area, NEW odd, NEW d, NEW r, Mbc = 1,
         r = Bus!Written(cartridge, w, area, odd, d)
  PROVE  /\ area \in {0, 1} => r = [w EXCEPT !.ram = d]
         /\ area \in {2, 3} => r = [w EXCEPT !.low = d]
         /\ area \in {4, 5} /\ w.mode = 0 => r = [w EXCEPT !.upper = d]
         /\ area \in {4, 5} /\ w.mode # 0 => r = [w EXCEPT !.bank = d]
         /\ area \in {6, 7} => r = [w EXCEPT !.mode = d % 2]
         /\ area \notin 0 .. 7 => r = w
<1>1. r = Bus!Mbc1Written(w, area, d)
  BY DEF Bus!Written, Mbc
<1> QED
  BY <1>1 DEF Bus!Mbc1Written

LEMMA Written2 ==
  ASSUME NEW w, NEW area, NEW odd, NEW d, NEW r, Mbc = 2,
         r = Bus!Written(cartridge, w, area, odd, d), ~odd \/ area \notin 0 .. 3
  PROVE  r = IF area \in 0 .. 3 THEN [w EXCEPT !.ram = d] ELSE w
<1>1. r = Bus!Mbc2Written(w, area, odd, d)
  BY DEF Bus!Written, Mbc
<1> QED
  BY <1>1 DEF Bus!Mbc2Written

LEMMA Written2Odd ==
  ASSUME NEW w, NEW area \in 0 .. 3, NEW odd, NEW d, NEW r, Mbc = 2,
         r = Bus!Written(cartridge, w, area, odd, d), odd
  PROVE  r = [w EXCEPT !.low = d]
<1>1. r = Bus!Mbc2Written(w, area, odd, d)
  BY DEF Bus!Written, Mbc
<1> QED
  BY <1>1 DEF Bus!Mbc2Written

LEMMA Written3 ==
  ASSUME NEW w, NEW area, NEW odd, NEW d, NEW r, Mbc = 3,
         r = Bus!Written(cartridge, w, area, odd, d)
  PROVE  /\ area \in {0, 1} => r = [w EXCEPT !.ram = d]
         /\ area \in {2, 3} => r = [w EXCEPT !.low = d]
         /\ area \notin 0 .. 5 => r = w
<1>1. r = Bus!Mbc3Written(w, area, d, Bus!ClockAfter(cartridge, w, d))
  BY DEF Bus!Written, Mbc
<1> QED
  BY <1>1 DEF Bus!Mbc3Written

Byte == 0 .. 255
ClockOf(d, old) == IF IsClock(d) /\ d % 8 < 5 THEN d % 8 ELSE old

LEMMA Written3Bank ==
  ASSUME NEW w \in Registers, NEW area \in {4, 5}, NEW odd, NEW d \in Byte,
         NEW r, NEW c, Mbc = 3, r = Bus!Written(cartridge, w, area, odd, d),
         c = ClockOf(d, w.clock)
  PROVE  /\ r \in Registers /\ SameRom(r, w)
         /\ r.ram = w.ram /\ r.bank = d /\ r.clock = c /\ c \in 0 .. 4
<1>1. Bus!SelectsClock(cartridge, d) <=> IsClock(d)
  BY ClockBit
<1>2. c = Bus!ClockAfter(cartridge, w, d)
  BY <1>1 DEF Bus!ClockAfter, Bus!ClockRegister, ClockOf
<1>3. r = Bus!Mbc3Written(w, area, d, c)
  BY <1>2 DEF Bus!Written, Mbc
<1>4. r = [w EXCEPT !.bank = d, !.clock = c]
  BY <1>3 DEF Bus!Mbc3Written
<1>5. c \in 0 .. 4
  BY DEF Registers, ClockOf, Byte
<1>6. /\ r.ram = w.ram /\ r.low = w.low /\ r.high = w.high /\ r.upper = w.upper
      /\ r.bank = d /\ r.mode = w.mode /\ r.clock = c
  BY <1>4 DEF Registers
<1>7. r = [ram |-> w.ram, low |-> w.low, high |-> w.high, upper |-> w.upper,
           bank |-> d, mode |-> w.mode, clock |-> c]
  BY <1>4 DEF Registers
<1>8. r \in Registers
  BY <1>5, <1>7 DEF Registers, Byte
<1> QED
  BY <1>5, <1>6, <1>8 DEF SameRom

LEMMA Written5 ==
  ASSUME NEW w, NEW area, NEW odd, NEW d, NEW r, Mbc \in {0, 5},
         r = Bus!Written(cartridge, w, area, odd, d)
  PROVE  /\ Mbc = 5 /\ area \in {0, 1} => r = [w EXCEPT !.ram = d]
         /\ Mbc = 5 /\ area = 2 => r = [w EXCEPT !.low = d]
         /\ Mbc = 5 /\ area = 3 => r = [w EXCEPT !.high = d]
         /\ Mbc = 5 /\ area = 4 => r = [w EXCEPT !.bank = d]
         /\ Mbc = 0 \/ area \notin 0 .. 4 => r = w
<1>1. Mbc = cartridge.mbc
  BY DEF Mbc
<1>2. CASE Mbc = 0
  BY <1>1, <1>2 DEF Bus!Written
<1>3. CASE Mbc = 5
  <2>1. r = Bus!Mbc5Written(w, area, d)
    BY <1>1, <1>3 DEF Bus!Written
  <2> QED
    BY <1>3, <2>1 DEF Bus!Mbc5Written
<1> QED
  BY <1>2, <1>3

Sizes == {2, 4, 8, 16, 32, 64, 128, 256, 512}
BankOf(n, low, size) == (256 * n + low) % size
NinthOf(bank) == bank \div 256

\* Eight bits are replaced in the bank, or the ninth, as if the rest had not
\* lost what is beyond the ROM.
LEMMA LowerBits ==
  ASSUME NEW size \in Sizes,
         NEW b \in {0, 1}, NEW low \in Byte, NEW bank,
         bank = BankOf(b, low, size), NEW d \in Byte
  PROVE  BankOf(NinthOf(bank), d, size) = BankOf(b, d, size)
<1>1. CASE size = 2
  BY <1>1 DEF Byte, BankOf, NinthOf
<1>2. CASE size = 4
  BY <1>2 DEF Byte, BankOf, NinthOf
<1>3. CASE size = 8
  BY <1>3 DEF Byte, BankOf, NinthOf
<1>4. CASE size = 16
  BY <1>4 DEF Byte, BankOf, NinthOf
<1>5. CASE size = 32
  BY <1>5 DEF Byte, BankOf, NinthOf
<1>6. CASE size = 64
  BY <1>6 DEF Byte, BankOf, NinthOf
<1>7. CASE size = 128
  BY <1>7 DEF Byte, BankOf, NinthOf
<1>8. CASE size = 256
  BY <1>8 DEF Byte, BankOf, NinthOf
<1>9. CASE size = 512
  BY <1>9 DEF Byte, BankOf, NinthOf
<1> QED
  BY <1>1, <1>2, <1>3, <1>4, <1>5, <1>6, <1>7, <1>8, <1>9 DEF Sizes

LEMMA NinthBit ==
  ASSUME NEW size \in Sizes,
         NEW b \in {0, 1}, NEW low \in Byte, NEW bank,
         bank = BankOf(b, low, size), NEW n \in {0, 1}
  PROVE  BankOf(n, bank % 256, size) = BankOf(n, low, size)
<1>1. CASE size = 2
  BY <1>1 DEF Byte, BankOf
<1>2. CASE size = 4
  BY <1>2 DEF Byte, BankOf
<1>3. CASE size = 8
  BY <1>3 DEF Byte, BankOf
<1>4. CASE size = 16
  BY <1>4 DEF Byte, BankOf
<1>5. CASE size = 32
  BY <1>5 DEF Byte, BankOf
<1>6. CASE size = 64
  BY <1>6 DEF Byte, BankOf
<1>7. CASE size = 128
  BY <1>7 DEF Byte, BankOf
<1>8. CASE size = 256
  BY <1>8 DEF Byte, BankOf
<1>9. CASE size = 512
  BY <1>9 DEF Byte, BankOf
<1> QED
  BY <1>1, <1>2, <1>3, <1>4, <1>5, <1>6, <1>7, <1>8, <1>9 DEF Sizes

LEMMA BankNumber ==
  ASSUME cartridge \in Cartridges, NEW w \in Registers
  PROVE  Bus!RomBank(cartridge, w) \in Nat
<1> DEFINE n == cartridge.romBanks
<1>1. n \in Nat /\ n > 1 /\ Mbc \in {0, 1, 2, 3, 5}
  BY CartridgeFacts
<1>2. /\ w.low \in 0 .. 255 /\ w.high \in 0 .. 255 /\ w.upper \in 0 .. 255
  BY DEF Registers
<1>3. NonZero(w.low % 32) \in 1 .. 31 /\ w.upper % 4 \in 0 .. 3
  BY <1>2, Remainders
<1> DEFINE one == NonZero(w.low % 32) + IF w.mode # 0 THEN 0 ELSE 32 * (w.upper % 4)
<1> DEFINE nine == 256 * (w.high % 2) + w.low
<1>4. one \in Nat
  BY <1>3
<1>5. nine \in Nat
  BY <1>2
<1>6. /\ Mbc = 0 => Bus!RomBank(cartridge, w) = 1
      /\ Mbc = 1 => Bus!RomBank(cartridge, w) = one % n
      /\ Mbc \in {2, 3} => Bus!RomBank(cartridge, w) = NonZero(w.low % n)
      /\ Mbc = 5 => Bus!RomBank(cartridge, w) = nine % n
  BY RomBanks
<1> HIDE DEF one, nine, n
<1>7. one % n \in Nat /\ nine % n \in Nat /\ w.low % n \in Nat
  BY <1>1, <1>2, <1>4, <1>5, Modulo
<1>8. NonZero(w.low % n) \in Nat
  BY <1>7 DEF NonZero
<1> QED
  BY <1>1, <1>6, <1>7, <1>8

-----------------------------------------------------------------------------
(* A write to a register: the main loop selects what the game does.        *)

RomFrame == cpu'.romBank = cpu.romBank /\ cpu'.romBankLow = cpu.romBankLow
            /\ cpu'.romBankHigh = cpu.romBankHigh
            /\ cpu'.modeSelect = cpu.modeSelect /\ bases'.romLow = bases.romLow
RamFrame == cpu'.ramBank = cpu.ramBank /\ cpu'.ramEnabled = cpu.ramEnabled
            /\ bases'.ram = bases.ram /\ RamSwitchesStay
ClockFrame == bases'.latch = bases.latch /\ currentRegister' = currentRegister

LEMMA RomKept ==
  ASSUME NEW w, NEW r, RomSelects(w), SameRom(r, w), RomFrame, cartridge' = cartridge
  PROVE  RomSelects(r)'
<1>1. Bus!RomBank(cartridge, r) = Bus!RomBank(cartridge, w)
  BY DEF SameRom, Bus!RomBank
<1> QED
  BY <1>1 DEF RomSelects, SameRom, RomFrame, Mbc

LEMMA RamKept ==
  ASSUME NEW w, NEW r, RamSelects(w), SameRam(r, w), RamFrame, cartridge' = cartridge
  PROVE  RamSelects(r)'
<1>1. Bus!RamIsOn(cartridge, r) = Bus!RamIsOn(cartridge, w)
  BY DEF SameRam, Bus!RamIsOn
<1>2. Bus!RamCell(cartridge, r, 0) = Bus!RamCell(cartridge, w, 0)
  BY DEF SameRam, Bus!RamCell
<1> QED
  BY <1>1, <1>2 DEF RamSelects, ClockIsOn, SameRam, RamFrame, RamSwitchesStay, Mbc

LEMMA ClockKept ==
  ASSUME NEW w, NEW r, ClockSelects(w), SameClock(r, w), ClockFrame
  PROVE  ClockSelects(r)'
  BY DEF ClockSelects, SameClock, ClockFrame

LEMMA WithRomBank ==
  ASSUME NEW c \in Cpus, NEW v \in Nat, NEW r, r = [c EXCEPT !.romBank = v]
  PROVE  /\ r \in Cpus
         /\ r.romBank = v /\ r.romBankLow = c.romBankLow
         /\ r.romBankHigh = c.romBankHigh /\ r.ramBank = c.ramBank
         /\ r.modeSelect = c.modeSelect /\ r.ramEnabled = c.ramEnabled
  BY DEF Cpus

LEMMA WithRomBankLow ==
  ASSUME NEW c \in Cpus, NEW v \in 1 .. 31, NEW r, r = [c EXCEPT !.romBankLow = v]
  PROVE  /\ r \in Cpus
         /\ r.romBank = c.romBank /\ r.romBankLow = v
         /\ r.romBankHigh = c.romBankHigh /\ r.ramBank = c.ramBank
         /\ r.modeSelect = c.modeSelect /\ r.ramEnabled = c.ramEnabled
  BY DEF Cpus

LEMMA WithRomBankHigh ==
  ASSUME NEW c \in Cpus, NEW v \in 0 .. 3, NEW r, r = [c EXCEPT !.romBankHigh = v]
  PROVE  /\ r \in Cpus
         /\ r.romBank = c.romBank /\ r.romBankLow = c.romBankLow
         /\ r.romBankHigh = v /\ r.ramBank = c.ramBank
         /\ r.modeSelect = c.modeSelect /\ r.ramEnabled = c.ramEnabled
  BY DEF Cpus

LEMMA WithRamBank ==
  ASSUME NEW c \in Cpus, NEW v \in 0 .. 255, NEW r, r = [c EXCEPT !.ramBank = v]
  PROVE  /\ r \in Cpus
         /\ r.romBank = c.romBank /\ r.romBankLow = c.romBankLow
         /\ r.romBankHigh = c.romBankHigh /\ r.ramBank = v
         /\ r.modeSelect = c.modeSelect /\ r.ramEnabled = c.ramEnabled
  BY DEF Cpus

LEMMA WithModeSelect ==
  ASSUME NEW c \in Cpus, NEW v \in BOOLEAN, NEW r, r = [c EXCEPT !.modeSelect = v]
  PROVE  /\ r \in Cpus
         /\ r.romBank = c.romBank /\ r.romBankLow = c.romBankLow
         /\ r.romBankHigh = c.romBankHigh /\ r.ramBank = c.ramBank
         /\ r.modeSelect = v /\ r.ramEnabled = c.ramEnabled
  BY DEF Cpus

LEMMA WithRamEnabled ==
  ASSUME NEW c \in Cpus, NEW v \in BOOLEAN, NEW r, r = [c EXCEPT !.ramEnabled = v]
  PROVE  /\ r \in Cpus
         /\ r.romBank = c.romBank /\ r.romBankLow = c.romBankLow
         /\ r.romBankHigh = c.romBankHigh /\ r.ramBank = c.ramBank
         /\ r.modeSelect = c.modeSelect /\ r.ramEnabled = v
  BY DEF Cpus

LEMMA WithRtcLatch ==
  ASSUME NEW c \in Cpus, NEW v \in BOOLEAN, NEW r, r = [c EXCEPT !.rtcLatch = v]
  PROVE  /\ r \in Cpus
         /\ r.romBank = c.romBank /\ r.romBankLow = c.romBankLow
         /\ r.romBankHigh = c.romBankHigh /\ r.ramBank = c.ramBank
         /\ r.modeSelect = c.modeSelect /\ r.ramEnabled = c.ramEnabled
  BY DEF Cpus

LEMMA BasesRecord ==
  ASSUME NEW b \in Bases, NEW v, NEW u
  PROVE  /\ [b EXCEPT !.romHigh = v].romLow = b.romLow
         /\ [b EXCEPT !.romHigh = v].ram = b.ram
         /\ [b EXCEPT !.romHigh = v].latch = b.latch
         /\ [b EXCEPT !.ram = v].romLow = b.romLow
         /\ [b EXCEPT !.ram = v].ram = v
         /\ [b EXCEPT !.ram = v].latch = b.latch
         /\ [b EXCEPT !.latch = v].romLow = b.romLow
         /\ [b EXCEPT !.latch = v].ram = b.ram
         /\ [b EXCEPT !.latch = v].latch = v
         /\ [b EXCEPT !.ram = v, !.romHigh = u].romLow = b.romLow
         /\ [b EXCEPT !.ram = v, !.romHigh = u].ram = v
         /\ [b EXCEPT !.ram = v, !.romHigh = u].latch = b.latch
  BY DEF Bases

LEMMA RomSwitched ==
  ASSUME MbcInv, cartridge' = cartridge, Mbc # 1, NEW w, NEW r, Selects(w),
         r \in Registers, SameRam(r, w), SameClock(r, w),
         NEW bank, bank = Bus!RomBank(cartridge, r), SwitchRom(bank)
  PROVE  Selects(r)'
<1>1. cpu \in Cpus /\ bases \in Bases
  BY DEF MbcInv, CpuTypes
<1>2. /\ cpu' = [cpu EXCEPT !.romBank = bank]
      /\ \E cell : bases' = [bases EXCEPT !.romHigh = cell]
      /\ RamSwitchesStay /\ currentRegister' = currentRegister
  BY DEF SwitchRom
<1>3. RamFrame /\ ClockFrame /\ bases'.romLow = bases.romLow /\ cpu'.romBank = bank
  <2>1. /\ cpu'.romBank = bank /\ cpu'.ramBank = cpu.ramBank
        /\ cpu'.ramEnabled = cpu.ramEnabled
    <3>1. bank \in Nat
      BY BankNumber DEF MbcInv, CpuTypes
    <3> QED
      BY <1>1, <1>2, <3>1, WithRomBank
  <2>2. /\ bases'.romLow = bases.romLow /\ bases'.ram = bases.ram
        /\ bases'.latch = bases.latch
    BY <1>1, <1>2, BasesRecord
  <2> QED
    BY <1>2, <2>1, <2>2 DEF RamFrame, ClockFrame
<1>4. RomSelects(r)'
  BY <1>3 DEF Selects, RomSelects, Mbc
<1>5. RamSelects(r)' /\ ClockSelects(r)'
  BY <1>3, RamKept, ClockKept DEF Selects
<1> QED
  BY <1>4, <1>5 DEF Selects

\* RAM on or off, with the bank as it was: MBC1, MBC2 and MBC5.
LEMMA RamEnabled ==
  ASSUME MbcInv, cartridge' = cartridge, Mbc # 3, NEW w, NEW r, Selects(w),
         r.bank = w.bank, NEW on \in BOOLEAN, on <=> Bus!RamIsOn(cartridge, r),
         SwitchRam(on), cpu'.ramBank = cpu.ramBank, cpu'.ramEnabled = on,
         bases'.ram = bases.ram
  PROVE  RamSelects(r)'
<1>1. ~Bus!SelectsClock(cartridge, w.bank) /\ ~Bus!SelectsClock(cartridge, r.bank)
  BY DEF Bus!SelectsClock, Mbc
<1>2. Bus!RamCell(cartridge, r, 0) = Bus!RamCell(cartridge, w, 0)
  BY DEF Bus!RamCell
<1>3. /\ ramReadCommands' = IF on THEN RAM_READ ELSE RAM_DUMMY_READ
      /\ ramWriteCommands' = IF on THEN RAM_WRITE ELSE RAM_DUMMY_WRITE
  BY DEF SwitchRam, GbDma_EnableSaveRam, GbDma_DisableSaveRam
<1> QED
  BY <1>1, <1>2, <1>3 DEF Selects, RamSelects, ClockIsOn, Mbc

\* What the main loop has from its FIFO is what is on the bus.
Known ==
  main[1].area = bus.area /\ main[1].odd = bus.odd /\ Data = bus.data

After(w) == Bus!Written(cartridge, w, bus.area, bus.odd, bus.data)

LEMMA Received ==
  ASSUME MbcInv, Known, NEW mbc, NEW areas, HandleWrite(mbc, areas)
  PROVE  /\ Mbc = mbc /\ cartridge' = cartridge /\ bus.area \in areas
         /\ bus.data \in 0 .. 255 /\ Data = bus.data
<1>1. main[1].area \in areas
  BY DEF HandleWrite
<1> QED
  BY <1>1, WriteFrame DEF Known

LEMMA Switching ==
  ASSUME NEW on \in BOOLEAN, SwitchRam(on)
  PROVE  /\ ramReadCommands' = IF on THEN RAM_READ ELSE RAM_DUMMY_READ
         /\ ramWriteCommands' = IF on THEN RAM_WRITE ELSE RAM_DUMMY_WRITE
  BY DEF SwitchRam, GbDma_EnableSaveRam, GbDma_DisableSaveRam

\* After each write an MBC1 computes the bank of the ROM anew.
LEMMA Mbc1Switched ==
  ASSUME MbcInv, cartridge' = cartridge, Mbc = 1, NEW w, NEW r, Selects(w),
         NEW c \in Cpus, NEW ram, Mbc1Switch(c, ram), r \in Registers,
         c.romBankLow = NonZero(r.low % 32), c.romBankHigh = r.upper % 4,
         c.modeSelect <=> r.mode # 0
  PROVE  /\ RomSelects(r)'
         /\ cpu'.ramBank = c.ramBank /\ cpu'.ramEnabled = c.ramEnabled
         /\ bases'.ram = ram /\ ClockFrame
<1> DEFINE bank == Mbc1Bank(c)
<1>1. bank = Bus!RomBank(cartridge, r)
  BY RomBanks DEF Mbc1Bank, MbcInv, CpuTypes
<1>2. /\ cpu' = [c EXCEPT !.romBank = bank] /\ currentRegister' = currentRegister
      /\ \E cell : bases' = [bases EXCEPT !.ram = ram, !.romHigh = cell]
  BY DEF Mbc1Switch
<1>0. bank \in Nat
  <2>1. /\ c.romBankLow \in 1 .. 31 /\ c.romBankHigh \in 0 .. 3
        /\ cartridge.romBanks \in Nat /\ cartridge.romBanks > 1
    BY CartridgeFacts DEF Cpus, MbcInv, CpuTypes
  <2> QED
    BY <2>1 DEF Mbc1Bank
<1> HIDE DEF bank
<1>3. /\ cpu'.romBank = bank /\ cpu'.romBankLow = c.romBankLow
      /\ cpu'.romBankHigh = c.romBankHigh /\ cpu'.modeSelect = c.modeSelect
      /\ cpu'.ramBank = c.ramBank /\ cpu'.ramEnabled = c.ramEnabled
  BY <1>0, <1>2, WithRomBank
<1>4. bases'.romLow = bases.romLow /\ bases'.ram = ram /\ bases'.latch = bases.latch
  BY <1>2, BasesRecord DEF MbcInv, CpuTypes
<1>5. RomSelects(r)'
  BY <1>1, <1>3, <1>4 DEF Selects, RomSelects, Mbc
<1> QED
  BY <1>2, <1>3, <1>4, <1>5 DEF ClockFrame

LEMMA Mbc1Selects ==
  ASSUME MbcInv, Known, NEW w, NEW r, Selects(w), r = After(w), Mbc1
  PROVE  Selects(r)'
<1>1. cpu \in Cpus /\ bases \in Bases /\ cartridge \in Cartridges /\ w \in Registers
  BY DEF MbcInv, CpuTypes, Selects
<1>2. Mbc = 1 => /\ cpu.romBankLow = NonZero(w.low % 32)
                 /\ cpu.romBankHigh = w.upper % 4
                 /\ cpu.modeSelect <=> w.mode # 0
  BY DEF Selects, RomSelects
<1>3. CASE Mbc1EnableRam
  <2> DEFINE on == Data % 16 = 10
  <2> DEFINE c == [cpu EXCEPT !.ramEnabled = on]
  <2>1. HandleWrite(1, {0, 1}) /\ SwitchRam(on) /\ Mbc1Switch(c, bases.ram)
    BY <1>3 DEF Mbc1EnableRam
  <2>2. /\ Mbc = 1 /\ cartridge' = cartridge /\ bus.area \in {0, 1}
        /\ bus.data \in 0 .. 255 /\ Data = bus.data
    BY <2>1, Received
  <2>3. r = [w EXCEPT !.ram = bus.data]
    BY <2>2, Written1 DEF After
  <2>4. /\ r \in Registers /\ SameRom(r, w) /\ SameClock(r, w)
        /\ r.ram = bus.data /\ r.bank = w.bank
    BY <1>1, <2>2, <2>3, RamUpdate
  <2>5. on \in BOOLEAN /\ (on <=> Bus!RamIsOn(cartridge, r))
    BY <1>1, <2>2, <2>4, RamOn
  <2> HIDE DEF on
  <2>0. c = [cpu EXCEPT !.ramEnabled = on]
    OBVIOUS
  <2> HIDE DEF c
  <2>6. /\ c \in Cpus /\ c.romBankLow = cpu.romBankLow
        /\ c.romBankHigh = cpu.romBankHigh /\ c.modeSelect = cpu.modeSelect
        /\ c.ramBank = cpu.ramBank /\ c.ramEnabled = on
    BY <1>1, <2>5, <2>0, WithRamEnabled
  <2>7. /\ c.romBankLow = NonZero(r.low % 32) /\ c.romBankHigh = r.upper % 4
        /\ c.modeSelect <=> r.mode # 0
    BY <1>2, <2>2, <2>4, <2>6 DEF SameRom
  <2>8. /\ RomSelects(r)' /\ ClockFrame /\ bases'.ram = bases.ram
        /\ cpu'.ramBank = cpu.ramBank /\ cpu'.ramEnabled = on
    BY <2>1, <2>2, <2>4, <2>6, <2>7, Mbc1Switched
  <2>9. RamSelects(r)'
    BY <2>1, <2>2, <2>4, <2>5, <2>8, RamEnabled
  <2>10. ClockSelects(r)'
    BY <2>4, <2>8, ClockKept DEF Selects
  <2> QED
    BY <2>4, <2>8, <2>9, <2>10 DEF Selects
<1>4. ASSUME NEW c \in Cpus, Mbc1Switch(c, bases.ram), RamSwitchesStay,
             cartridge' = cartridge, Mbc = 1, r \in Registers,
             SameRam(r, w), SameClock(r, w),
             c.ramBank = cpu.ramBank, c.ramEnabled = cpu.ramEnabled,
             c.romBankLow = NonZero(r.low % 32), c.romBankHigh = r.upper % 4,
             c.modeSelect <=> r.mode # 0
      PROVE  Selects(r)'
  <2>1. /\ RomSelects(r)' /\ ClockFrame /\ RamFrame
    BY <1>4, Mbc1Switched DEF RamFrame
  <2>2. RamSelects(r)' /\ ClockSelects(r)'
    BY <1>4, <2>1, RamKept, ClockKept DEF Selects
  <2> QED
    BY <1>4, <2>1, <2>2 DEF Selects
<1>5. CASE Mbc1LowBits
  <2>1. HandleWrite(1, {2, 3}) /\ RamSwitchesStay
    BY <1>5 DEF Mbc1LowBits
  <2>2. /\ Mbc = 1 /\ cartridge' = cartridge /\ bus.area \in {2, 3}
        /\ bus.data \in 0 .. 255 /\ Data = bus.data
    BY <2>1, Received
  <2>3. r = [w EXCEPT !.low = bus.data]
    BY <2>2, Written1 DEF After
  <2>4. /\ r \in Registers /\ SameRam(r, w) /\ SameClock(r, w)
        /\ r.low = bus.data /\ r.upper = w.upper /\ r.mode = w.mode
    BY ONLY <1>1, <2>2, <2>3, LowUpdate
  <2> DEFINE low == NonZero(Data % 32)
  <2> DEFINE c == [cpu EXCEPT !.romBankLow = low]
  <2>7. Mbc1Switch(c, bases.ram)
    BY <1>5 DEF Mbc1LowBits
  <2>5. low = NonZero(r.low % 32) /\ low \in 1 .. 31
    BY <2>2, <2>4, Remainders
  <2> HIDE DEF low
  <2>0. c = [cpu EXCEPT !.romBankLow = low]
    OBVIOUS
  <2> HIDE DEF c
  <2>6. /\ c \in Cpus /\ c.romBankLow = low
        /\ c.romBankHigh = cpu.romBankHigh /\ c.modeSelect = cpu.modeSelect
        /\ c.ramBank = cpu.ramBank /\ c.ramEnabled = cpu.ramEnabled
    BY <1>1, <2>5, <2>0, WithRomBankLow
  <2> QED
    BY <1>2, <1>4, <2>1, <2>2, <2>4, <2>5, <2>6, <2>7
<1>6. CASE Mbc1HighBits
  <2>1. HandleWrite(1, {4, 5}) /\ RamSwitchesStay
    BY <1>6 DEF Mbc1HighBits
  <2>2. /\ Mbc = 1 /\ cartridge' = cartridge /\ bus.area \in {4, 5}
        /\ bus.data \in 0 .. 255 /\ Data = bus.data
    BY <2>1, Received
  <2> DEFINE high == Data % 4
  <2>3. high \in 0 .. 3 /\ high = bus.data % 4 /\ 3 < 256 /\ high \in 0 .. 255
    BY <2>2, Remainders
  <2>4. CASE cpu.modeSelect
    <3> DEFINE c == [cpu EXCEPT !.ramBank = high]
    <3>1. Mbc1Switch(c, RamBase(high))
      BY <1>6, <2>4 DEF Mbc1HighBits
    <3>2. r = [w EXCEPT !.bank = bus.data]
      BY <1>2, <2>2, <2>4, Written1 DEF After
    <3>3. /\ r \in Registers /\ SameRom(r, w) /\ SameClock(r, w)
          /\ r.ram = w.ram /\ r.bank = bus.data
      BY <1>1, <2>2, <3>2, BankUpdate
    <3> HIDE DEF high
    <3>0. c = [cpu EXCEPT !.ramBank = high]
      OBVIOUS
    <3> HIDE DEF c
    <3>4. /\ c \in Cpus /\ c.romBankLow = cpu.romBankLow
          /\ c.romBankHigh = cpu.romBankHigh /\ c.modeSelect = cpu.modeSelect
          /\ c.ramBank = high /\ c.ramEnabled = cpu.ramEnabled
      BY <1>1, <2>3, <3>0, WithRamBank
    <3>5. /\ c.romBankLow = NonZero(r.low % 32) /\ c.romBankHigh = r.upper % 4
          /\ c.modeSelect <=> r.mode # 0
      BY <1>2, <2>2, <3>3, <3>4 DEF SameRom
    <3>6. /\ RomSelects(r)' /\ ClockFrame /\ bases'.ram = RamBase(high)
          /\ cpu'.ramEnabled = cpu.ramEnabled
      BY <2>2, <3>1, <3>3, <3>4, <3>5, Mbc1Switched
    <3>7. bases'.ram = Bus!RamCell(cartridge, r, 0)
      BY <1>1, <2>2, <2>3, <3>3, <3>6, RamCells DEF RamBase
    <3>8. Bus!RamIsOn(cartridge, r) = Bus!RamIsOn(cartridge, w)
      BY <3>3 DEF Bus!RamIsOn
    <3>9. \A b : ~Bus!SelectsClock(cartridge, b)
      BY <2>2 DEF Bus!SelectsClock, Mbc
    <3>10. RamSelects(r)'
      BY <2>1, <2>2, <3>6, <3>7, <3>8, <3>9
         DEF Selects, RamSelects, ClockIsOn, RamSwitchesStay, Mbc
    <3>11. ClockSelects(r)'
      BY <3>3, <3>6, ClockKept DEF Selects
    <3> QED
      BY <3>3, <3>6, <3>10, <3>11 DEF Selects
  <2>5. CASE ~cpu.modeSelect
    <3> DEFINE c == [cpu EXCEPT !.romBankHigh = high]
    <3>1. Mbc1Switch(c, bases.ram)
      BY <1>6, <2>5 DEF Mbc1HighBits
    <3>2. r = [w EXCEPT !.upper = bus.data]
      BY <1>2, <2>2, <2>5, Written1 DEF After
    <3>3. /\ r \in Registers /\ SameRam(r, w) /\ SameClock(r, w)
          /\ r.low = w.low /\ r.upper = bus.data /\ r.mode = w.mode
      BY ONLY <1>1, <2>2, <3>2, UpperUpdate
    <3> HIDE DEF high
    <3>0. c = [cpu EXCEPT !.romBankHigh = high]
      OBVIOUS
    <3> HIDE DEF c
    <3>4. /\ c \in Cpus /\ c.romBankLow = cpu.romBankLow
          /\ c.romBankHigh = high /\ c.modeSelect = cpu.modeSelect
          /\ c.ramBank = cpu.ramBank /\ c.ramEnabled = cpu.ramEnabled
      BY <1>1, <2>3, <3>0, WithRomBankHigh
    <3> QED
      BY <1>2, <1>4, <2>1, <2>2, <2>3, <3>1, <3>3, <3>4
  <2> QED
    BY <2>4, <2>5
<1>7. CASE Mbc1Mode
  <2> DEFINE mode == Data % 2 = 1
  <2> DEFINE c == [cpu EXCEPT !.modeSelect = mode]
  <2>1. HandleWrite(1, {6, 7}) /\ RamSwitchesStay /\ Mbc1Switch(c, bases.ram)
    BY <1>7 DEF Mbc1Mode
  <2>2. /\ Mbc = 1 /\ cartridge' = cartridge /\ bus.area \in {6, 7}
        /\ bus.data \in 0 .. 255 /\ Data = bus.data
    BY <2>1, Received
  <2>3. r = [w EXCEPT !.mode = bus.data % 2] /\ bus.data % 2 \in 0 .. 1
    BY <2>2, Written1 DEF After
  <2>4. /\ r \in Registers /\ SameRam(r, w) /\ SameClock(r, w)
        /\ r.low = w.low /\ r.upper = w.upper /\ r.mode = bus.data % 2
    BY <1>1, <2>3, ModeUpdate
  <2>5. mode \in BOOLEAN /\ (mode <=> r.mode # 0)
    BY <2>2, <2>3, <2>4
  <2> HIDE DEF mode
  <2>0. c = [cpu EXCEPT !.modeSelect = mode]
    OBVIOUS
  <2> HIDE DEF c
  <2>6. /\ c \in Cpus /\ c.romBankLow = cpu.romBankLow
        /\ c.romBankHigh = cpu.romBankHigh /\ c.modeSelect = mode
        /\ c.ramBank = cpu.ramBank /\ c.ramEnabled = cpu.ramEnabled
    BY <1>1, <2>5, <2>0, WithModeSelect
  <2> QED
    BY <1>2, <1>4, <2>1, <2>2, <2>4, <2>5, <2>6
<1> QED
  BY <1>3, <1>5, <1>6, <1>7 DEF Mbc1

LEMMA Mbc2Selects ==
  ASSUME MbcInv, Known, NEW w, NEW r, Selects(w), r = After(w), Mbc2
  PROVE  Selects(r)'
<1>1. cpu \in Cpus /\ bases \in Bases /\ cartridge \in Cartridges /\ w \in Registers
  BY DEF MbcInv, CpuTypes, Selects
<1>2. CASE Mbc2EnableRam
  <2> DEFINE on == Data = 10
  <2>1. /\ HandleWrite(2, 0 .. 3) /\ SwitchRam(on) /\ ~main[1].odd
        /\ cpu' = [cpu EXCEPT !.ramEnabled = on]
        /\ UNCHANGED <<bases, currentRegister>>
    BY <1>2 DEF Mbc2EnableRam
  <2>2. /\ Mbc = 2 /\ cartridge' = cartridge /\ bus.area \in 0 .. 3
        /\ bus.data \in 0 .. 255 /\ Data = bus.data /\ ~bus.odd
    BY <2>1, Received DEF Known
  <2>3. r = [w EXCEPT !.ram = bus.data]
    BY <2>2, Written2 DEF After
  <2>4. /\ r \in Registers /\ SameRom(r, w) /\ SameClock(r, w)
        /\ r.ram = bus.data /\ r.bank = w.bank
    BY ONLY <1>1, <2>2, <2>3, RamUpdate
  <2>5. on \in BOOLEAN /\ (on <=> Bus!RamIsOn(cartridge, r))
    BY <1>1, <2>2, <2>4, RamOn
  <2> HIDE DEF on
  <2>6. /\ cpu'.romBank = cpu.romBank /\ cpu'.romBankLow = cpu.romBankLow
        /\ cpu'.romBankHigh = cpu.romBankHigh /\ cpu'.modeSelect = cpu.modeSelect
        /\ cpu'.ramBank = cpu.ramBank /\ cpu'.ramEnabled = on
    BY <1>1, <2>1, <2>5, WithRamEnabled
  <2>7. RamSelects(r)'
    BY <2>1, <2>2, <2>4, <2>5, <2>6, RamEnabled
  <2>8. RomFrame /\ ClockFrame
    BY <2>1, <2>6 DEF RomFrame, ClockFrame
  <2>9. RomSelects(r)' /\ ClockSelects(r)'
    BY <2>2, <2>4, <2>8, RomKept, ClockKept DEF Selects
  <2> QED
    BY <2>4, <2>7, <2>9 DEF Selects
<1>3. CASE Mbc2RomBank
  <2> DEFINE bank == NonZero(Data % cartridge.romBanks)
  <2>1. HandleWrite(2, 0 .. 3) /\ SwitchRom(bank) /\ main[1].odd
    BY <1>3 DEF Mbc2RomBank
  <2>2. /\ Mbc = 2 /\ cartridge' = cartridge /\ bus.area \in 0 .. 3
        /\ bus.data \in 0 .. 255 /\ Data = bus.data /\ bus.odd
    BY <2>1, Received DEF Known
  <2>3. r = [w EXCEPT !.low = bus.data]
    BY <2>2, Written2Odd DEF After
  <2>4. /\ r \in Registers /\ SameRam(r, w) /\ SameClock(r, w) /\ r.low = bus.data
    BY ONLY <1>1, <2>2, <2>3, LowUpdate
  <2>5. bank = Bus!RomBank(cartridge, r)
    BY <1>1, <2>2, <2>4, RomBanks
  <2> HIDE DEF bank
  <2> QED
    BY <2>1, <2>2, <2>4, <2>5, RomSwitched
<1> QED
  BY <1>2, <1>3 DEF Mbc2

LEMMA Mbc5Selects ==
  ASSUME MbcInv, Known, Mbc5HasRam, NEW w, NEW r, Selects(w), r = After(w), Mbc5
  PROVE  Selects(r)'
<1>1. /\ cpu \in Cpus /\ bases \in Bases /\ cartridge \in Cartridges
      /\ w \in Registers
  BY DEF MbcInv, CpuTypes, Selects
<1>2. Mbc = 5 =>
        /\ cpu.romBank = BankOf(w.high % 2, w.low, cartridge.romBanks)
        /\ cartridge.romBanks \in {2, 4, 8, 16, 32, 64, 128, 256, 512}
        /\ w.high % 2 \in {0, 1} /\ w.low \in 0 .. 255
  <2>1. w.high \in 0 .. 255 /\ w.low \in 0 .. 255
    BY <1>1 DEF Registers
  <2> QED
    BY <1>1, <2>1, RomBanks, RomSizes DEF Selects, RomSelects, BankOf
<1>3. CASE Mbc5EnableRam
  <2> DEFINE on == Data % 16 = 10
  <2>1. /\ HandleWrite(5, {0, 1}) /\ SwitchRam(on)
        /\ cpu' = [cpu EXCEPT !.ramEnabled = on]
        /\ UNCHANGED <<bases, currentRegister>>
    BY <1>3 DEF Mbc5EnableRam
  <2>2. /\ Mbc = 5 /\ cartridge' = cartridge /\ bus.area \in {0, 1}
        /\ bus.data \in 0 .. 255 /\ Data = bus.data
    BY <2>1, Received
  <2>3. r = [w EXCEPT !.ram = bus.data]
    BY <2>2, Written5 DEF After
  <2>4. /\ r \in Registers /\ SameRom(r, w) /\ SameClock(r, w)
        /\ r.ram = bus.data /\ r.bank = w.bank
    BY ONLY <1>1, <2>2, <2>3, RamUpdate
  <2>5. on \in BOOLEAN /\ (on <=> Bus!RamIsOn(cartridge, r))
    BY <1>1, <2>2, <2>4, RamOn
  <2> HIDE DEF on
  <2>6. /\ cpu'.romBank = cpu.romBank /\ cpu'.romBankLow = cpu.romBankLow
        /\ cpu'.romBankHigh = cpu.romBankHigh /\ cpu'.modeSelect = cpu.modeSelect
        /\ cpu'.ramBank = cpu.ramBank /\ cpu'.ramEnabled = on
    BY <1>1, <2>1, <2>5, WithRamEnabled
  <2>7. RamSelects(r)'
    BY <2>1, <2>2, <2>4, <2>5, <2>6, RamEnabled
  <2>8. RomFrame /\ ClockFrame
    BY <2>1, <2>6 DEF RomFrame, ClockFrame
  <2>9. RomSelects(r)' /\ ClockSelects(r)'
    BY <2>2, <2>4, <2>8, RomKept, ClockKept DEF Selects
  <2> QED
    BY <2>4, <2>7, <2>9 DEF Selects
<1>4. CASE Mbc5LowBits
  <2> DEFINE bank == BankOf(NinthOf(cpu.romBank), Data, cartridge.romBanks)
  <2>1. HandleWrite(5, {2}) /\ SwitchRom(bank)
    BY <1>4 DEF Mbc5LowBits, BankOf, NinthOf
  <2>2. /\ Mbc = 5 /\ cartridge' = cartridge /\ bus.area = 2
        /\ bus.data \in 0 .. 255 /\ Data = bus.data
    BY <2>1, Received
  <2>3. r = [w EXCEPT !.low = bus.data]
    BY <2>2, Written5 DEF After
  <2>4. /\ r \in Registers /\ SameRam(r, w) /\ SameClock(r, w)
        /\ r.low = bus.data /\ r.high = w.high
    BY ONLY <1>1, <2>2, <2>3, LowUpdate
  <2>5. bank = BankOf(w.high % 2, bus.data, cartridge.romBanks)
    <3>1. PICK b, low, size, old, d :
            /\ b = w.high % 2 /\ low = w.low /\ size = cartridge.romBanks
            /\ old = cpu.romBank /\ d = bus.data
      OBVIOUS
    <3>2. /\ size \in Sizes /\ b \in {0, 1}
          /\ low \in Byte /\ d \in Byte /\ old = BankOf(b, low, size)
      BY <1>2, <2>2, <3>1 DEF Sizes, Byte
    <3>3. BankOf(NinthOf(old), d, size) = BankOf(b, d, size)
      BY ONLY <3>2, LowerBits
    <3> QED
      BY <2>2, <3>1, <3>3
  <2>6. bank = Bus!RomBank(cartridge, r)
    BY <1>1, <2>2, <2>4, <2>5, RomBanks DEF BankOf
  <2> HIDE DEF bank
  <2> QED
    BY <2>1, <2>2, <2>4, <2>6, RomSwitched
<1>5. CASE Mbc5NinthBit
  <2> DEFINE bank == BankOf(Data % 2, cpu.romBank % 256, cartridge.romBanks)
  <2>1. HandleWrite(5, {3}) /\ SwitchRom(bank)
    <3>1. HandleWrite(5, {3})
      BY <1>5 DEF Mbc5NinthBit
    <3>2. Data \in 0 .. 255 /\ cpu.romBank \in Nat
      BY <1>1, <3>1, WriteFrame DEF Cpus
    <3>3. (cpu.romBank % 256) + 256 * (Data % 2) = 256 * (Data % 2) + (cpu.romBank % 256)
      BY <3>2
    <3> QED
      BY <1>5, <3>1, <3>3 DEF Mbc5NinthBit, BankOf
  <2>2. /\ Mbc = 5 /\ cartridge' = cartridge /\ bus.area = 3
        /\ bus.data \in 0 .. 255 /\ Data = bus.data
    BY <2>1, Received
  <2>3. r = [w EXCEPT !.high = bus.data]
    BY <2>2, Written5 DEF After
  <2>4. /\ r \in Registers /\ SameRam(r, w) /\ SameClock(r, w)
        /\ r.low = w.low /\ r.high = bus.data
    BY ONLY <1>1, <2>2, <2>3, HighUpdate
  <2>5. bank = BankOf(bus.data % 2, w.low, cartridge.romBanks)
    <3>1. PICK b, low, size, old, n :
            /\ b = w.high % 2 /\ low = w.low /\ size = cartridge.romBanks
            /\ old = cpu.romBank /\ n = bus.data % 2
      OBVIOUS
    <3>2. /\ size \in Sizes /\ b \in {0, 1}
          /\ low \in Byte /\ n \in {0, 1} /\ old = BankOf(b, low, size)
      BY <1>2, <2>2, <3>1 DEF Sizes, Byte
    <3>3. BankOf(n, old % 256, size) = BankOf(n, low, size)
      BY ONLY <3>2, NinthBit
    <3> QED
      BY <2>2, <3>1, <3>3
  <2>6. bank = Bus!RomBank(cartridge, r)
    BY <1>1, <2>2, <2>4, <2>5, RomBanks DEF BankOf
  <2> HIDE DEF bank
  <2> QED
    BY <2>1, <2>2, <2>4, <2>6, RomSwitched
<1>6. CASE Mbc5RamBank
  <2>1. HandleWrite(5, {4}) /\ RamSwitchesStay /\ currentRegister' = currentRegister
    BY <1>6 DEF Mbc5RamBank
  <2>2. /\ Mbc = 5 /\ cartridge' = cartridge /\ bus.area = 4
        /\ bus.data \in 0 .. 255 /\ Data = bus.data
    BY <2>1, Received
  <2>3. r = [w EXCEPT !.bank = bus.data]
    BY <2>2, Written5 DEF After
  <2>4. /\ r \in Registers /\ SameRom(r, w) /\ SameClock(r, w)
        /\ r.ram = w.ram /\ r.bank = bus.data
    BY ONLY <1>1, <2>2, <2>3, BankUpdate
  <2> DEFINE bank == bus.data % cartridge.ramBanks
  <2>5. cartridge.ramBanks \in {1, 2, 4, 8, 16}
    BY <1>1, <2>2, MbcAssumption DEF Mbc5HasRam, Mbc
  <2>6. /\ cpu' = [cpu EXCEPT !.ramBank = bank]
        /\ bases' = [bases EXCEPT !.ram = RamBase(bank)]
    <3>1. cartridge.ramBanks # 0
      BY <2>5
    <3> QED
      BY <1>6, <2>2, <3>1 DEF Mbc5RamBank
  <2>7. bank \in 0 .. 255
    BY <2>2, <2>5
  <2>8. RamBase(bank) = Bus!RamCell(cartridge, r, 0)
    BY <1>1, <2>2, <2>4, RamCells DEF RamBase
  <2> HIDE DEF bank
  <2>9. /\ cpu'.romBank = cpu.romBank /\ cpu'.romBankLow = cpu.romBankLow
        /\ cpu'.romBankHigh = cpu.romBankHigh /\ cpu'.modeSelect = cpu.modeSelect
        /\ cpu'.ramEnabled = cpu.ramEnabled
    BY <1>1, <2>6, <2>7, WithRamBank
  <2>10. /\ bases'.romLow = bases.romLow /\ bases'.latch = bases.latch
         /\ bases'.ram = Bus!RamCell(cartridge, r, 0)
    BY <1>1, <2>6, <2>8, BasesRecord
  <2>11. RomFrame /\ ClockFrame
    BY <2>1, <2>9, <2>10 DEF RomFrame, ClockFrame
  <2>12. RomSelects(r)' /\ ClockSelects(r)'
    BY <2>2, <2>4, <2>11, RomKept, ClockKept DEF Selects
  <2>13. Bus!RamIsOn(cartridge, r) = Bus!RamIsOn(cartridge, w)
    BY <2>4 DEF Bus!RamIsOn
  <2>14. \A b : ~Bus!SelectsClock(cartridge, b)
    BY <2>2 DEF Bus!SelectsClock, Mbc
  <2>15. RamSelects(r)'
    BY <2>1, <2>2, <2>9, <2>10, <2>13, <2>14
       DEF Selects, RamSelects, ClockIsOn, RamSwitchesStay, Mbc
  <2> QED
    BY <2>4, <2>12, <2>15 DEF Selects
<1> QED
  BY <1>3, <1>4, <1>5, <1>6 DEF Mbc5

LEMMA Mbc3Selects ==
  ASSUME MbcInv, Known, NEW w, NEW r, Selects(w), r = After(w), Mbc3
  PROVE  Selects(r)'
<1>1. cpu \in Cpus /\ bases \in Bases /\ cartridge \in Cartridges /\ w \in Registers
  BY DEF MbcInv, CpuTypes, Selects
<1>2. \A b : Bus!SelectsClock(cartridge, b) <=> Mbc = 3 /\ IsClock(b)
  BY ClockBit
<1>3. /\ Mbc = 3 => cpu.ramBank = w.bank
      /\ cpu.ramEnabled <=> Bus!RamIsOn(cartridge, w)
      /\ ~(Mbc = 3 /\ IsClock(w.bank)) => bases.ram = Bus!RamCell(cartridge, w, 0)
      /\ ramReadCommands =
           IF ~cpu.ramEnabled THEN RAM_DUMMY_READ
           ELSE IF Mbc = 3 /\ IsClock(w.bank) THEN RTC_READ ELSE RAM_READ
      /\ ramWriteCommands =
           IF ~cpu.ramEnabled \/ (Mbc = 3 /\ IsClock(w.bank)) THEN RAM_DUMMY_WRITE
           ELSE RAM_WRITE
  BY <1>2 DEF Selects, RamSelects, ClockIsOn
<1>4. CASE Mbc3EnableRam
  <2> DEFINE on == Data % 16 = 10
  <2>1. /\ HandleWrite(3, {0, 1}) /\ cpu' = [cpu EXCEPT !.ramEnabled = on]
        /\ IF on /\ IsClock(cpu.ramBank) THEN GbDma_EnableRtc ELSE SwitchRam(on)
        /\ UNCHANGED <<bases, currentRegister>>
    BY <1>4 DEF Mbc3EnableRam
  <2>2. /\ Mbc = 3 /\ cartridge' = cartridge /\ bus.area \in {0, 1}
        /\ bus.data \in 0 .. 255 /\ Data = bus.data
    BY <2>1, Received
  <2>3. r = [w EXCEPT !.ram = bus.data]
    BY <2>2, Written3 DEF After
  <2>4. /\ r \in Registers /\ SameRom(r, w) /\ SameClock(r, w)
        /\ r.ram = bus.data /\ r.bank = w.bank
    BY ONLY <1>1, <2>2, <2>3, RamUpdate
  <2>5. on \in BOOLEAN /\ (on <=> Bus!RamIsOn(cartridge, r))
    BY <1>1, <2>2, <2>4, RamOn
  <2> HIDE DEF on
  <2>6. /\ cpu'.romBank = cpu.romBank /\ cpu'.romBankLow = cpu.romBankLow
        /\ cpu'.romBankHigh = cpu.romBankHigh /\ cpu'.modeSelect = cpu.modeSelect
        /\ cpu'.ramBank = cpu.ramBank /\ cpu'.ramEnabled = on
    BY <1>1, <2>1, <2>5, WithRamEnabled
  <2>7. /\ ramReadCommands' = IF ~on THEN RAM_DUMMY_READ
                              ELSE IF IsClock(w.bank) THEN RTC_READ ELSE RAM_READ
        /\ ramWriteCommands' = IF ~on \/ IsClock(w.bank) THEN RAM_DUMMY_WRITE
                               ELSE RAM_WRITE
    BY <1>3, <2>1, <2>2, <2>5, Switching DEF GbDma_EnableRtc
  <2>8. Bus!RamCell(cartridge, r, 0) = Bus!RamCell(cartridge, w, 0)
    BY <2>4 DEF Bus!RamCell
  <2>9. RamSelects(r)'
    BY <1>2, <1>3, <2>1, <2>2, <2>4, <2>5, <2>6, <2>7, <2>8
       DEF RamSelects, ClockIsOn, Mbc
  <2>10. RomFrame /\ ClockFrame
    BY <2>1, <2>6 DEF RomFrame, ClockFrame
  <2>11. RomSelects(r)' /\ ClockSelects(r)'
    BY <2>2, <2>4, <2>10, RomKept, ClockKept DEF Selects
  <2> QED
    BY <2>4, <2>9, <2>11 DEF Selects
<1>5. CASE Mbc3RomBank
  <2> DEFINE bank == NonZero(Data % cartridge.romBanks)
  <2>1. HandleWrite(3, {2, 3}) /\ SwitchRom(bank)
    BY <1>5 DEF Mbc3RomBank
  <2>2. /\ Mbc = 3 /\ cartridge' = cartridge /\ bus.area \in {2, 3}
        /\ bus.data \in 0 .. 255 /\ Data = bus.data
    BY <2>1, Received
  <2>3. r = [w EXCEPT !.low = bus.data]
    BY <2>2, Written3 DEF After
  <2>4. /\ r \in Registers /\ SameRam(r, w) /\ SameClock(r, w) /\ r.low = bus.data
    BY ONLY <1>1, <2>2, <2>3, LowUpdate
  <2>5. bank = Bus!RomBank(cartridge, r)
    BY <1>1, <2>2, <2>4, RomBanks
  <2> HIDE DEF bank
  <2> QED
    BY <2>1, <2>2, <2>4, <2>5, RomSwitched
<1>6. CASE Mbc3RamBank
  <2>1. HandleWrite(3, {4, 5}) /\ cpu' = [cpu EXCEPT !.ramBank = Data]
    BY <1>6 DEF Mbc3RamBank
  <2>2. /\ Mbc = 3 /\ cartridge' = cartridge /\ bus.area \in {4, 5}
        /\ bus.data \in 0 .. 255 /\ Data = bus.data
    BY <2>1, Received
  <2>3. PICK c : c = ClockOf(bus.data, w.clock)
    OBVIOUS
  <2>5. /\ r \in Registers /\ SameRom(r, w)
        /\ r.ram = w.ram /\ r.bank = bus.data /\ r.clock = c
    <3>1. r = Bus!Written(cartridge, w, bus.area, bus.odd, bus.data)
      BY DEF After
    <3>2. PICK data : data = bus.data
      OBVIOUS
    <3>3. /\ r = Bus!Written(cartridge, w, bus.area, bus.odd, data)
          /\ data \in Byte
      BY <2>2, <3>1, <3>2 DEF Byte
    <3>4. c = ClockOf(data, w.clock)
      BY <2>3, <3>2
    <3>5. bus.area \in {4, 5} /\ Mbc = 3
      BY <2>2
    <3>6. /\ r \in Registers /\ SameRom(r, w)
          /\ r.ram = w.ram /\ r.bank = data /\ r.clock = c
      BY ONLY <1>1, <3>3, <3>4, <3>5, Written3Bank
    <3> QED
      BY <3>2, <3>6
  <2>6. /\ cpu'.romBank = cpu.romBank /\ cpu'.romBankLow = cpu.romBankLow
        /\ cpu'.romBankHigh = cpu.romBankHigh /\ cpu'.modeSelect = cpu.modeSelect
        /\ cpu'.ramBank = bus.data /\ cpu'.ramEnabled = cpu.ramEnabled
    BY <1>1, <2>1, <2>2, WithRamBank
  <2>7. Bus!RamIsOn(cartridge, r) = Bus!RamIsOn(cartridge, w)
    BY <2>5 DEF Bus!RamIsOn
  <2>8. bases.latch = Cell("rtc", w.clock, 0) /\ currentRegister = w.clock
    BY DEF Selects, ClockSelects, Bus!ClockCell, Cell
  <2>9. CASE IsClock(bus.data)
    <3>1. /\ GbRtc_ActivateRegister(bus.data % 8)
          /\ IF cpu.ramEnabled THEN GbDma_EnableRtc ELSE RamSwitchesStay
      BY <1>6, <2>2, <2>9 DEF Mbc3RamBank
    <3>2. /\ bases'.romLow = bases.romLow /\ bases'.latch = Cell("rtc", c, 0)
          /\ currentRegister' = c
      <4>1. CASE bus.data % 8 < 5
        <5>1. c = bus.data % 8 /\ ~(bus.data % 8 >= 5)
          BY <2>2, <2>3, <2>9, <4>1 DEF ClockOf
        <5>2. bases' = [bases EXCEPT !.latch = Cell("rtc", c, 0)] /\ currentRegister' = c
          BY <3>1, <5>1 DEF GbRtc_ActivateRegister
        <5> QED
          BY <1>1, <5>2, BasesRecord
      <4>2. CASE ~(bus.data % 8 < 5)
        <5>1. c = w.clock /\ bus.data % 8 >= 5
          BY <2>2, <2>3, <2>9, <4>2 DEF ClockOf
        <5> QED
          BY <2>8, <3>1, <5>1 DEF GbRtc_ActivateRegister
      <4> QED
        BY <4>1, <4>2
    <3>3. /\ ramReadCommands' = IF ~cpu.ramEnabled THEN RAM_DUMMY_READ ELSE RTC_READ
          /\ ramWriteCommands' = RAM_DUMMY_WRITE
      BY <1>3, <3>1 DEF GbDma_EnableRtc, RamSwitchesStay
    <3>4. RamSelects(r)'
      BY <1>2, <1>3, <2>2, <2>5, <2>6, <2>7, <2>9, <3>3
         DEF RamSelects, ClockIsOn, Mbc
    <3>5. ClockSelects(r)'
      BY <2>5, <3>2 DEF ClockSelects, Bus!ClockCell, Cell
    <3>6. RomFrame
      BY <2>6, <3>2 DEF RomFrame
    <3>7. RomSelects(r)'
      BY <2>2, <2>5, <3>6, RomKept DEF Selects
    <3> QED
      BY <2>5, <3>4, <3>5, <3>7 DEF Selects
  <2>10. CASE ~IsClock(bus.data)
    <3> DEFINE cell == RamBase(bus.data % 4)
    <3>1. /\ bases' = [bases EXCEPT !.ram = cell]
          /\ IF cpu.ramEnabled THEN GbDma_EnableSaveRam ELSE RamSwitchesStay
          /\ currentRegister' = currentRegister
      BY <1>6, <2>2, <2>10 DEF Mbc3RamBank
    <3>2. cell = Bus!RamCell(cartridge, r, 0)
      BY <1>1, <2>2, <2>5, RamCells DEF RamBase
    <3> HIDE DEF cell
    <3>3. /\ bases'.romLow = bases.romLow /\ bases'.latch = bases.latch
          /\ bases'.ram = cell
      BY <1>1, <3>1, BasesRecord
    <3>4. /\ ramReadCommands' = IF ~cpu.ramEnabled THEN RAM_DUMMY_READ ELSE RAM_READ
          /\ ramWriteCommands' = IF ~cpu.ramEnabled THEN RAM_DUMMY_WRITE ELSE RAM_WRITE
      BY <1>3, <3>1 DEF GbDma_EnableSaveRam, RamSwitchesStay
    <3>5. RamSelects(r)'
      BY <1>2, <1>3, <2>2, <2>5, <2>6, <2>7, <2>10, <3>2, <3>3, <3>4
         DEF RamSelects, ClockIsOn, Mbc
    <3>6. RomFrame /\ ClockFrame
      BY <2>6, <3>1, <3>3 DEF RomFrame, ClockFrame
    <3>7. SameClock(r, w)
      BY <2>3, <2>5, <2>10 DEF SameClock, ClockOf
    <3>8. RomSelects(r)' /\ ClockSelects(r)'
      BY <2>2, <2>5, <3>6, <3>7, RomKept, ClockKept DEF Selects
    <3> QED
      BY <2>5, <3>5, <3>8 DEF Selects
  <2> QED
    BY <2>9, <2>10
<1>7. ASSUME NEW areas, HandleWrite(3, areas), areas \cap 0 .. 5 = {},
             UNCHANGED <<switchVars, currentRegister>>,
             cpu'.romBank = cpu.romBank, cpu'.romBankLow = cpu.romBankLow,
             cpu'.romBankHigh = cpu.romBankHigh, cpu'.modeSelect = cpu.modeSelect,
             cpu'.ramBank = cpu.ramBank, cpu'.ramEnabled = cpu.ramEnabled
      PROVE  Selects(r)'
  <2>1. Mbc = 3 /\ cartridge' = cartridge /\ bus.area \in areas
    BY <1>7, Received
  <2>2. r = w
    BY <1>7, <2>1, Written3 DEF After
  <2>3. RomFrame /\ RamFrame /\ ClockFrame
    BY <1>7 DEF RomFrame, RamFrame, ClockFrame, RamSwitchesStay, switchVars
  <2>4. SameRom(r, w) /\ SameRam(r, w) /\ SameClock(r, w)
    BY <2>2 DEF SameRom, SameRam, SameClock
  <2> QED
    BY <1>1, <2>1, <2>2, <2>3, <2>4, RomKept, RamKept, ClockKept DEF Selects
<1>8. CASE Mbc3Latch
  <2>1. /\ HandleWrite(3, {6, 7}) /\ UNCHANGED <<switchVars, currentRegister>>
        /\ cpu' = [cpu EXCEPT !.rtcLatch = Data # 0]
    BY <1>8 DEF Mbc3Latch
  <2>2. (Data # 0) \in BOOLEAN
    OBVIOUS
  <2>3. /\ cpu'.romBank = cpu.romBank /\ cpu'.romBankLow = cpu.romBankLow
        /\ cpu'.romBankHigh = cpu.romBankHigh /\ cpu'.modeSelect = cpu.modeSelect
        /\ cpu'.ramBank = cpu.ramBank /\ cpu'.ramEnabled = cpu.ramEnabled
    BY <1>1, <2>1, <2>2, WithRtcLatch
  <2>4. {6, 7} \cap 0 .. 5 = {}
    OBVIOUS
  <2> QED
    BY <1>7, <2>1, <2>3, <2>4
<1>9. CASE Mbc3RamWritten
  <2>1. HandleWrite(3, {10, 11}) /\ UNCHANGED <<switchVars, cpu, currentRegister>>
    BY <1>9 DEF Mbc3RamWritten
  <2>2. {10, 11} \cap 0 .. 5 = {}
    OBVIOUS
  <2> QED
    BY <1>7, <2>1, <2>2
<1> QED
  BY <1>4, <1>5, <1>6, <1>8, <1>9 DEF Mbc3

\* What else is written leaves the registers alone.
NoRegister(mbc, areas) ==
  \/ mbc = 1 /\ areas \cap 0 .. 7 = {}
  \/ mbc = 2 /\ areas \cap 0 .. 3 = {}
  \/ mbc = 3 /\ areas \cap 0 .. 5 = {}
  \/ mbc = 5 /\ areas \cap 0 .. 4 = {}

LEMMA OtherSelects ==
  ASSUME MbcInv, Known, NEW w, NEW r, Selects(w), r = After(w),
         NEW mbc, NEW areas, HandleWrite(mbc, areas),
         NoRegister(mbc, areas),
         UNCHANGED <<switchVars, cpu, currentRegister>>
  PROVE  Selects(r)'
<1>1. Mbc = mbc /\ cartridge' = cartridge /\ bus.area \in areas
  BY Received
<1>2. r = w
  <2>1. CASE mbc = 1 /\ areas \cap 0 .. 7 = {}
    BY <1>1, <2>1, Written1 DEF After
  <2>2. CASE mbc = 2 /\ areas \cap 0 .. 3 = {}
    BY <1>1, <2>2, Written2 DEF After
  <2>3. CASE mbc = 3 /\ areas \cap 0 .. 5 = {}
    BY <1>1, <2>3, Written3 DEF After
  <2>4. CASE mbc = 5 /\ areas \cap 0 .. 4 = {}
    BY <1>1, <2>4, Written5 DEF After
  <2> QED
    BY <2>1, <2>2, <2>3, <2>4 DEF NoRegister
<1>3. RomFrame /\ RamFrame /\ ClockFrame
  BY DEF RomFrame, RamFrame, ClockFrame, RamSwitchesStay, switchVars
<1>4. SameRom(r, w) /\ SameRam(r, w) /\ SameClock(r, w)
  BY <1>2 DEF SameRom, SameRam, SameClock
<1> QED
  BY <1>1, <1>2, <1>3, <1>4, RomKept, RamKept, ClockKept DEF Selects

LEMMA WriteSelects ==
  ASSUME MbcInv, Known, Mbc5HasRam, NEW w, NEW r, Selects(w), r = After(w), Write
  PROVE  Selects(r)'
<1>1. CASE Mbc1 \/ Mbc2 \/ Mbc3 \/ Mbc5
  BY <1>1, Mbc1Selects, Mbc2Selects, Mbc3Selects, Mbc5Selects
<1>2. ASSUME NEW mbc, NEW areas, RamWritten(mbc, areas) \/ Ignored(mbc, areas),
             NoRegister(mbc, areas)
      PROVE  Selects(r)'
  <2>1. HandleWrite(mbc, areas) /\ UNCHANGED <<switchVars, cpu, currentRegister>>
    BY <1>2 DEF RamWritten, Ignored, cpuVars
  <2> QED
    BY <1>2, <2>1, OtherSelects
<1>3. /\ NoRegister(1, {10, 11}) /\ NoRegister(2, {10, 11}) /\ NoRegister(5, {10})
      /\ NoRegister(1, {8, 9} \cup 12 .. 15) /\ NoRegister(3, {8, 9} \cup 12 .. 15)
      /\ NoRegister(2, 4 .. 9 \cup 12 .. 15)
      /\ NoRegister(5, 5 .. 9 \cup 11 .. 15)
  BY DEF NoRegister
<1>4. CASE RamWritten(1, {10, 11}) \/ RamWritten(2, {10, 11}) \/ RamWritten(5, {10})
  BY <1>2, <1>3, <1>4
<1>5. CASE \/ Ignored(1, {8, 9} \cup 12 .. 15) \/ Ignored(2, 4 .. 9 \cup 12 .. 15)
           \/ Ignored(3, {8, 9} \cup 12 .. 15) \/ Ignored(5, 5 .. 9 \cup 11 .. 15)
  BY <1>2, <1>3, <1>5, Zenon
<1> QED
  BY <1>1, <1>4, <1>5 DEF Write

-----------------------------------------------------------------------------
(* What the chains load is what the game has selected.                     *)

LEMMA ChainCommands ==
  /\ LOWER_ROM_READ[1] = Cmd("rxRomLow", "read")
  /\ LOWER_ROM_READ[2] = Cmd("rom_low_base", "readOrGo")
  /\ DIRECT_SSI[1] = Cmd("rxRomHigh", "read")
  /\ DIRECT_SSI[2] = Cmd("rom_high_base", "readOrGo")
  /\ RAM_READ[1] = Cmd("RAM_READ_DMA_CTRL", "ctrl")
  /\ RAM_READ[2] = Cmd("txFifo", "write")
  /\ RAM_READ[3] = Cmd("rxRamRead", "read")
  /\ RAM_READ[4] = Cmd("ram_base", "readOrGo")
  /\ RAM_DUMMY_READ[1] = Cmd("RAM_READ_DMA_CTRL", "ctrl")
  /\ RAM_DUMMY_READ[2] = Cmd("devNullPtr", "write")
  /\ RAM_DUMMY_READ[3] = Cmd("rxRamRead", "read")
  /\ RAM_DUMMY_READ[4] = Cmd("ram_base", "readOrGo")
  /\ RTC_READ[1] = Cmd("RAM_READ_DMA_CTRL", "ctrl")
  /\ RTC_READ[2] = Cmd("txFifo", "write")
  /\ RTC_READ[3] = Cmd("rxRamRead", "devNull")
  /\ RTC_READ[4] = Cmd("rtcLatchPtr", "readGo")
  /\ RAM_WRITE[1] = Cmd("RAM_WRITE_DMA_CTRL", "ctrl")
  /\ RAM_WRITE[2] = Cmd("rxRamWrite", "write")
  /\ RAM_WRITE[3] = Cmd("ram_base", "writeOr")
  /\ RAM_WRITE[4] = Cmd("rxFifoRamWrite", "readGo")
<1>1. /\ LOWER_ROM_READ[1] = Cmd("rxRomLow", "read")
      /\ LOWER_ROM_READ[2] = Cmd("rom_low_base", "readOrGo")
      /\ DIRECT_SSI[1] = Cmd("rxRomHigh", "read")
      /\ DIRECT_SSI[2] = Cmd("rom_high_base", "readOrGo")
  BY TwoCommands DEF LOWER_ROM_READ, DIRECT_SSI
<1>2. /\ RAM_READ[1] = Cmd("RAM_READ_DMA_CTRL", "ctrl")
      /\ RAM_READ[2] = Cmd("txFifo", "write")
      /\ RAM_READ[3] = Cmd("rxRamRead", "read")
      /\ RAM_READ[4] = Cmd("ram_base", "readOrGo")
  BY FourCommands DEF RAM_READ
<1>3. /\ RAM_DUMMY_READ[1] = Cmd("RAM_READ_DMA_CTRL", "ctrl")
      /\ RAM_DUMMY_READ[2] = Cmd("devNullPtr", "write")
      /\ RAM_DUMMY_READ[3] = Cmd("rxRamRead", "read")
      /\ RAM_DUMMY_READ[4] = Cmd("ram_base", "readOrGo")
  BY FourCommands DEF RAM_DUMMY_READ
<1>4. /\ RTC_READ[1] = Cmd("RAM_READ_DMA_CTRL", "ctrl")
      /\ RTC_READ[2] = Cmd("txFifo", "write")
      /\ RTC_READ[3] = Cmd("rxRamRead", "devNull")
      /\ RTC_READ[4] = Cmd("rtcLatchPtr", "readGo")
  BY FourCommands DEF RTC_READ
<1>5. /\ RAM_WRITE[1] = Cmd("RAM_WRITE_DMA_CTRL", "ctrl")
      /\ RAM_WRITE[2] = Cmd("rxRamWrite", "write")
      /\ RAM_WRITE[3] = Cmd("ram_base", "writeOr")
      /\ RAM_WRITE[4] = Cmd("rxFifoRamWrite", "readGo")
  BY FourCommands DEF RAM_WRITE
<1> QED
  BY <1>1, <1>2, <1>3, <1>4, <1>5

LEMMA CmdFields ==
  ASSUME NEW from, NEW to
  PROVE  Cmd(from, to).from = from /\ Cmd(from, to).to = to
  BY DEF Cmd

LEMMA ChainsDiffer ==
  RAM_READ # RAM_DUMMY_READ /\ RAM_READ # RTC_READ /\ RAM_DUMMY_READ # RTC_READ
<1>1. /\ RAM_READ[2].from = "txFifo" /\ RTC_READ[2].from = "txFifo"
      /\ RAM_DUMMY_READ[2].from = "devNullPtr"
      /\ RAM_READ[3].to = "read" /\ RTC_READ[3].to = "devNull"
  BY ChainCommands, CmdFields
<1> QED
  BY <1>1

LEMMA OrCell ==
  ASSUME NEW mem, NEW bank, NEW page, NEW word
  PROVE  Or(Cell(mem, bank, page), Address(word)) =
           Cell(mem, bank, IF page = TopPage THEN TopPage ELSE word)
  BY DEF Or, Cell, Address

LEMMA RamOrCell ==
  ASSUME NEW w, NEW word
  PROVE  Or(Bus!RamCell(cartridge, w, 0), Address(word)) =
           Bus!RamCell(cartridge, w, word)
<1>1. TopPage # 0
  BY MbcAssumption
<1> DEFINE bank == CASE cartridge.mbc = 2 -> 0
                     [] cartridge.mbc = 5 -> w.bank % cartridge.ramBanks
                     [] OTHER -> w.bank % 4
<1>2. \A p : Bus!RamCell(cartridge, w, p) =
               Cell("ram", bank, IF cartridge.mbc = 2 THEN TopPage ELSE p)
  BY DEF Bus!RamCell, Cell
<1> HIDE DEF bank
<1> QED
  BY <1>1, <1>2, OrCell

LEMMA Answers ==
  ASSUME MbcInv, Selects(written)
  PROVE  /\ bus.area \in 0 .. 3 => Answer = Or(bases.romLow, Address(bus.page))
         /\ bus.area \in 4 .. 7 => Answer = Or(bases.romHigh, Address(bus.page))
         /\ InRam(bus.area) =>
              /\ ramReadCommands = RAM_READ =>
                   Answer = Or(bases.ram, Address(bus.page))
              /\ ramReadCommands = RTC_READ => Answer = bases.latch
              /\ ramReadCommands = RAM_DUMMY_READ => Answer = Nothing
         /\ bus.area \notin 0 .. 7 /\ ~(InRam(bus.area) /\ Mbc # 0) =>
              Answer = Nothing
<1>1. /\ cpu.romBank = Bus!RomBank(cartridge, written) /\ bases.romLow = RomCell(0)
      /\ bases.romHigh = RomCell(cpu.romBank) /\ TopPage # 0
      /\ cartridge \in Cartridges
  BY MbcAssumption DEF Selects, RomSelects, MbcInv, CpuTypes
<1>2. \A b, page : Or(RomCell(b), Address(page)) = [mem |-> "rom", bank |-> b, page |-> page]
  BY <1>1, OrCell DEF RomCell, Cell
<1>3. CASE bus.area \in 0 .. 3
  <2>1. Answer = [mem |-> "rom", bank |-> 0, page |-> bus.page]
    BY <1>3 DEF Answer, Bus!Drives
  <2>2. ~InRam(bus.area) /\ bus.area \notin 4 .. 7
    BY <1>3 DEF InRam
  <2> QED
    BY <1>1, <1>2, <1>3, <2>1, <2>2
<1>4. CASE bus.area \in 4 .. 7
  <2>1. bus.area \notin 0 .. 3 /\ ~InRam(bus.area)
    BY <1>4 DEF InRam
  <2>2. Answer = [mem |-> "rom", bank |-> Bus!RomBank(cartridge, written), page |-> bus.page]
    BY <1>4, <2>1 DEF Answer, Bus!Drives
  <2> QED
    BY <1>1, <1>2, <1>4, <2>1, <2>2
<1>5. CASE InRam(bus.area)
  <2>1. bus.area \notin 0 .. 3 /\ bus.area \notin 4 .. 7 /\ bus.area \in 10 .. 11
    BY <1>5 DEF InRam
  <2> DEFINE on == Bus!RamIsOn(cartridge, written)
  <2> DEFINE clock == Bus!SelectsClock(cartridge, written.bank)
  <2>2. Answer = IF ~on THEN Nothing
                 ELSE IF clock THEN Bus!ClockCell(written.clock)
                 ELSE Bus!RamCell(cartridge, written, bus.page)
    BY <2>1 DEF Answer, Bus!Drives
  <2>3. /\ cpu.ramEnabled <=> on
        /\ ~clock => bases.ram = Bus!RamCell(cartridge, written, 0)
        /\ ramReadCommands = IF ~cpu.ramEnabled THEN RAM_DUMMY_READ
                             ELSE IF cpu.ramEnabled /\ clock THEN RTC_READ ELSE RAM_READ
        /\ bases.latch = Bus!ClockCell(written.clock)
    BY DEF Selects, RamSelects, ClockSelects, ClockIsOn
  <2>4. Mbc = 0 => ~on
    BY <1>1, RamOn
  <2>5. Or(Bus!RamCell(cartridge, written, 0), Address(bus.page)) =
          Bus!RamCell(cartridge, written, bus.page)
    BY RamOrCell
  <2> HIDE DEF on, clock
  <2> QED
    BY <1>5, <2>1, <2>2, <2>3, <2>4, <2>5, ChainsDiffer
<1>6. CASE bus.area \notin 0 .. 7 /\ ~InRam(bus.area)
  <2>1. bus.area \notin 0 .. 3 /\ bus.area \notin 4 .. 7 /\ bus.area \notin 10 .. 11
    BY <1>6 DEF InRam
  <2>2. Answer = Nothing
    BY <2>1 DEF Answer, Bus!Drives
  <2> QED
    BY <1>6, <2>1, <2>2
<1>7. bus.area \in 0 .. 7 => bus.area \in 0 .. 3 \/ bus.area \in 4 .. 7
  OBVIOUS
<1> QED
  BY <1>3, <1>4, <1>5, <1>6, <1>7

LEMMA Storage ==
  ASSUME MbcInv, Selects(written)
  PROVE  /\ ramWriteCommands = RAM_WRITE =>
              /\ ~ClockIsOn(written)
              /\ Or(bases.ram, Address(bus.page)) =
                   Bus!RamCell(cartridge, written, bus.page)
              /\ Stored = [cell |-> Bus!RamCell(cartridge, written, bus.page),
                           data |-> bus.data]
         /\ ramWriteCommands = RAM_DUMMY_WRITE /\ ~ClockIsOn(written) =>
              Stored = Nothing
         /\ ClockIsOn(written) =>
              /\ ramWriteCommands = RAM_DUMMY_WRITE
              /\ Mbc = 3 /\ cpu.ramEnabled /\ IsClock(cpu.ramBank)
              /\ Stored = [cell |-> Cell("rtc", currentRegister, 0), data |-> bus.data]
<1> DEFINE on == Bus!RamIsOn(cartridge, written)
<1> DEFINE clock == Bus!SelectsClock(cartridge, written.bank)
<1>1. /\ cpu.ramEnabled <=> on
      /\ ~clock => bases.ram = Bus!RamCell(cartridge, written, 0)
      /\ ramWriteCommands = IF ~cpu.ramEnabled \/ (cpu.ramEnabled /\ clock)
                            THEN RAM_DUMMY_WRITE ELSE RAM_WRITE
      /\ currentRegister = written.clock
      /\ Mbc = 3 => cpu.ramBank = written.bank
      /\ ClockIsOn(written) <=> cpu.ramEnabled /\ clock
  BY DEF Selects, RamSelects, ClockSelects, ClockIsOn
<1>2. Or(Bus!RamCell(cartridge, written, 0), Address(bus.page)) =
        Bus!RamCell(cartridge, written, bus.page)
  BY RamOrCell
<1>3. Stored = IF ~on THEN Nothing
               ELSE [cell |-> IF clock THEN Bus!ClockCell(written.clock)
                              ELSE Bus!RamCell(cartridge, written, bus.page),
                     data |-> bus.data]
  BY DEF Stored, Bus!Stores
<1>4. clock <=> Mbc = 3 /\ IsClock(written.bank)
  BY ClockBit
<1>5. Bus!ClockCell(written.clock) = Cell("rtc", written.clock, 0)
  BY DEF Bus!ClockCell, Cell
<1> HIDE DEF on, clock
<1> QED
  BY <1>1, <1>2, <1>3, <1>4, <1>5, RamWriteShape

\* The next command of a chain that is under way.
LEMMA Executed ==
  ASSUME MbcInv, NEW m \in Machines, NEW c \in Chains(m), NEW n \in 0 .. Len(c),
         NEW more, Stage(m, c, n, more), Execute
  PROVE  /\ n + 1 \in 1 .. Len(c)
         /\ accessor' = IF c[n + 1].to = "ctrl"
                        THEN Controlled(accessor, c[n + 1].from)
                        ELSE Loaded(accessor, c[n + 1].to, Value(c[n + 1].from))
         /\ rx' = IF n + 1 = TakesAddress(m) THEN [rx EXCEPT ![m] = Tail(@)] ELSE rx
<1>1. ShapedLike(m, c) /\ (Len(c) = 2 \/ Len(c) = 4)
  BY EveryShape, ShapeSize
<1>2. /\ chain # <<>>
      /\ accessor' = IF Head(chain).to = "ctrl"
                     THEN Controlled(accessor, Head(chain).from)
                     ELSE Loaded(accessor, Head(chain).to, Value(Head(chain).from))
      /\ rx' = IF Head(chain).from \in DOMAIN FifoOf
               THEN [rx EXCEPT ![FifoOf[Head(chain).from]] = Tail(@)] ELSE rx
      /\ chain \in Seq(Commands)
  BY DEF Execute, CanExecute, MbcInv, DmaTypes
<1>3. /\ Len(chain) = Len(c) - n
      /\ \A i \in 1 .. Len(chain) : chain[i] = c[n + i]
  BY DEF Stage
<1>4. Len(chain) \in Nat \ {0} /\ Head(chain) = chain[1]
  BY <1>2
<1>5. n + 1 \in 1 .. Len(c) /\ Head(chain) = c[n + 1]
  BY <1>1, <1>3, <1>4
<1>6. /\ c[n + 1].from \in Fifos <=> n + 1 = TakesAddress(m)
      /\ n + 1 = TakesAddress(m) => FifoOf[c[n + 1].from] = m
  BY <1>1, <1>5 DEF ShapedLike
<1> QED
  BY <1>2, <1>5, <1>6, FifoNames

LEMMA LoadedFields ==
  ASSUME NEW a, NEW v, DOMAIN a = AccessorFields
  PROVE  /\ Loaded(a, "read", v).read = v /\ Loaded(a, "read", v).write = a.write
         /\ Loaded(a, "readOrGo", v).read = Or(v, a.read)
         /\ Loaded(a, "readOrGo", v).write = a.write
         /\ Loaded(a, "readGo", v).read = v /\ Loaded(a, "readGo", v).write = a.write
         /\ Loaded(a, "write", v).write = v
         /\ Loaded(a, "writeOr", v).write = Or(v, a.write)
         /\ Loaded(a, "devNull", v) = a
  BY DEF Loaded, AccessorFields

LEMMA SourceValues ==
  /\ Value("rxRomLow") = Address(Head(rx["romLow"]))
  /\ Value("rxRomHigh") = Address(Head(rx["romHigh"]))
  /\ Value("rxRamRead") = Address(Head(rx["ramRead"]))
  /\ Value("rxRamWrite") = Address(Head(rx["ramWrite"]))
  /\ Value("rom_low_base") = bases.romLow /\ Value("rom_high_base") = bases.romHigh
  /\ Value("ram_base") = bases.ram /\ Value("rtcLatchPtr") = bases.latch
  /\ Value("txFifo") = TxFifo /\ Value("devNullPtr") = DevNull
  BY FifoNames DEF Value, Fifos

LEMMA RomLoads ==
  ASSUME MbcInv, Selects(written), NEW m \in ForRom, Serves(m),
         NEW c \in Chains(m), NEW n \in 0 .. Len(c),
         Stage(m, c, n, 0), Loading(m, c, n), Execute,
         UNCHANGED <<switchVars, gameVars>>
  PROVE  Loading(m, c, n + 1)'
<1>1. m \in Machines /\ DOMAIN accessor = AccessorFields /\ TakesAddress(m) = 1
  BY DEF ForRom, Machines, MbcInv, DmaTypes, TakesAddress
<1>2. /\ Len(c) = 2 /\ c[1].to = "read" /\ c[2].to = "readOrGo"
      /\ c # RAM_DUMMY_READ /\ c # RTC_READ /\ m # "ramRead"
      /\ m = "romLow" => c[1].from = "rxRomLow" /\ c[2].from = "rom_low_base"
      /\ m = "romHigh" => c[1].from = "rxRomHigh" /\ c[2].from = "rom_high_base"
  <2>1. \/ m = "romLow" /\ c = LOWER_ROM_READ
        \/ m = "romHigh" /\ c = DIRECT_SSI
    BY DEF ForRom, Chains
  <2>2. Len(RAM_DUMMY_READ) = 4 /\ Len(RTC_READ) = 4
    BY RamReadShape DEF ShapedLike, ForRom
  <2>3. Len(c) = 2
    BY <2>1, RomShape DEF ShapedLike, ForRom
  <2>4. c # RAM_DUMMY_READ /\ c # RTC_READ
    BY <2>2, <2>3
  <2> QED
    BY <2>1, <2>3, <2>4, ChainCommands, CmdFields
<1>0. n + 1 \in 1 .. Len(c)
  BY <1>1, Executed
<1>3. n \in {0, 1}
  BY <1>0, <1>2
<1>4. accessor.write = TxFifo
  BY DEF Loading
<1>5. bus' = bus /\ Answer' = Answer
  BY DEF Answer, gameVars
<1>6. CASE n = 0
  <2>1. rx[m] = <<bus.page>> /\ Head(<<bus.page>>) = bus.page
    BY <1>1, <1>6 DEF Loading
  <2>2. Value(c[1].from) = Address(bus.page)
    BY <1>2, <2>1, SourceValues DEF ForRom
  <2>3. accessor' = Loaded(accessor, "read", Address(bus.page))
    BY <1>1, <1>2, <1>6, <2>2, Executed
  <2>4. accessor'.read = Address(bus.page) /\ accessor'.write = TxFifo
    BY <1>1, <1>4, <2>3, LoadedFields
  <2> QED
    BY <1>1, <1>2, <1>4, <1>5, <1>6, <2>4 DEF Loading
<1>7. CASE n = 1
  <2>1. accessor.read = Address(bus.page)
    BY <1>1, <1>2, <1>7 DEF Loading
  <2> DEFINE v == Value(c[2].from)
  <2>2. Or(v, Address(bus.page)) = Answer
    BY <1>2, SourceValues, Answers DEF Serves, ForRom
  <2> HIDE DEF v
  <2>3. accessor' = Loaded(accessor, "readOrGo", v)
    BY <1>1, <1>2, <1>7, Executed DEF v
  <2>4. accessor'.read = Answer /\ accessor'.write = TxFifo
    BY <1>1, <1>4, <2>1, <2>2, <2>3, LoadedFields
  <2> QED
    BY <1>1, <1>2, <1>4, <1>5, <1>7, <2>4 DEF Loading
<1> QED
  BY <1>3, <1>6, <1>7

LEMMA RamLoads ==
  ASSUME MbcInv, Selects(written), Serves("ramRead"),
         NEW c \in Chains("ramRead"), NEW n \in 0 .. Len(c),
         Stage("ramRead", c, n, 0), Loading("ramRead", c, n), Execute,
         UNCHANGED <<switchVars, gameVars>>
  PROVE  Loading("ramRead", c, n + 1)'
<1>1. /\ "ramRead" \in Machines /\ DOMAIN accessor = AccessorFields
      /\ TakesAddress("ramRead") = 3 /\ "ramRead" \notin ForRom
  BY DEF ForRom, Machines, MbcInv, DmaTypes, TakesAddress
<1>2. /\ Len(c) = 4 /\ c[1].to = "ctrl" /\ c[2].to = "write"
      /\ c[2].from = IF c = RAM_DUMMY_READ THEN "devNullPtr" ELSE "txFifo"
      /\ c[3].from = "rxRamRead"
      /\ c[3].to = IF c = RTC_READ THEN "devNull" ELSE "read"
      /\ c[4].from = IF c = RTC_READ THEN "rtcLatchPtr" ELSE "ram_base"
      /\ c[4].to = IF c = RTC_READ THEN "readGo" ELSE "readOrGo"
  <2>1. c \in {RAM_READ, RAM_DUMMY_READ, RTC_READ}
    BY DEF Chains
  <2>2. Len(c) = 4
    BY <2>1, RamReadShape DEF ShapedLike, ForRom
  <2> QED
    BY <2>1, <2>2, ChainCommands, CmdFields, ChainsDiffer
<1>0. n + 1 \in 1 .. Len(c)
  BY <1>1, Executed
<1>3. n \in {0, 1, 2, 3}
  BY <1>0, <1>2
<1>4. bus' = bus /\ Answer' = Answer /\ c = ramReadCommands /\ ramReadCommands' = c
  BY DEF Answer, gameVars, switchVars, Loading
<1>5. n < 3 => rx["ramRead"] = <<bus.page>>
  BY <1>1 DEF Loading
<1>6. n > 1 => accessor.write = IF c = RAM_DUMMY_READ THEN DevNull ELSE TxFifo
  BY DEF Loading
<1>7. /\ accessor' = IF c[n + 1].to = "ctrl"
                     THEN Controlled(accessor, c[n + 1].from)
                     ELSE Loaded(accessor, c[n + 1].to, Value(c[n + 1].from))
      /\ rx' = IF n + 1 = 3 THEN [rx EXCEPT !["ramRead"] = Tail(@)] ELSE rx
  BY <1>1, Executed
<1>8. CASE n = 0
  <2>1. rx' = rx
    BY <1>7, <1>8
  <2> QED
    BY <1>1, <1>2, <1>4, <1>5, <1>8, <2>1 DEF Loading
<1>9. CASE n = 1
  <2> DEFINE v == IF c = RAM_DUMMY_READ THEN DevNull ELSE TxFifo
  <2>1. Value(c[2].from) = v
    BY <1>2, SourceValues
  <2>2. accessor' = Loaded(accessor, "write", v)
    BY <1>2, <1>7, <1>9, <2>1
  <2> HIDE DEF v
  <2>3. accessor'.write = v
    BY <1>1, <2>2, LoadedFields
  <2>4. rx' = rx
    BY <1>7, <1>9
  <2> QED
    BY <1>1, <1>2, <1>4, <1>5, <1>9, <2>3, <2>4 DEF Loading, v
<1>10. CASE n = 2
  <2>1. Value(c[3].from) = Address(bus.page)
    <3>1. rx["ramRead"] = <<bus.page>> /\ Head(<<bus.page>>) = bus.page
      BY <1>5, <1>10
    <3> QED
      BY <1>2, <3>1, SourceValues
  <2>2. CASE c = RTC_READ
    <3>1. accessor' = Loaded(accessor, "devNull", Address(bus.page))
      BY <1>2, <1>7, <1>10, <2>1, <2>2
    <3>2. accessor' = accessor
      BY <1>1, <3>1, LoadedFields
    <3> QED
      BY <1>1, <1>2, <1>4, <1>6, <1>10, <2>2, <3>2 DEF Loading
  <2>3. CASE c # RTC_READ
    <3>1. accessor' = Loaded(accessor, "read", Address(bus.page))
      BY <1>2, <1>7, <1>10, <2>1, <2>3
    <3>2. accessor'.read = Address(bus.page) /\ accessor'.write = accessor.write
      BY <1>1, <3>1, LoadedFields
    <3> QED
      BY <1>1, <1>2, <1>4, <1>6, <1>10, <3>2 DEF Loading
  <2> QED
    BY <2>2, <2>3
<1>11. CASE n = 3
  <2>1. /\ InRam(bus.area)
        /\ c = RAM_READ => Answer = Or(bases.ram, Address(bus.page))
        /\ c = RTC_READ => Answer = bases.latch
    BY <1>4, Answers DEF Serves
  <2>2. CASE c = RTC_READ
    <3>1. accessor' = Loaded(accessor, "readGo", bases.latch)
      BY <1>2, <1>7, <1>11, <2>2, SourceValues
    <3>2. accessor'.read = Answer /\ accessor'.write = accessor.write
      BY <1>1, <2>1, <2>2, <3>1, LoadedFields
    <3> QED
      BY <1>1, <1>2, <1>4, <1>6, <1>11, <3>2 DEF Loading
  <2>3. CASE c # RTC_READ
    <3>1. accessor' = Loaded(accessor, "readOrGo", bases.ram)
      BY <1>2, <1>7, <1>11, <2>3, SourceValues
    <3>2. accessor.read = Address(bus.page)
      BY <1>1, <1>2, <1>11, <2>3 DEF Loading
    <3>3. c = RAM_READ \/ c = RAM_DUMMY_READ
      BY <2>3 DEF Chains
    <3>4. /\ c = RAM_READ => accessor'.read = Answer
          /\ accessor'.write = accessor.write
      BY <1>1, <2>1, <3>1, <3>2, LoadedFields
    <3> QED
      BY <1>1, <1>2, <1>4, <1>6, <1>11, <3>3, <3>4 DEF Loading
  <2> QED
    BY <2>2, <2>3
<1> QED
  BY <1>3, <1>8, <1>9, <1>10, <1>11

\* The address of a write is or-ed with the base, and the data stays.
LEMMA AddressTaken ==
  Head(AllWords) = bus.page /\ Tail(AllWords) = DataWords
<1>1. \A p, d : Head(<<p, d>>) = p /\ Tail(<<p, d>>) = <<d>>
  OBVIOUS
<1>2. \A p : Head(<<p>>) = p /\ Tail(<<p>>) = <<>>
  OBVIOUS
<1> QED
  BY <1>1, <1>2 DEF AllWords, DataWords

LEMMA WriteLoads ==
  ASSUME MbcInv, CycleInv, Selects(written), NEW n \in 0 .. 4, NEW more,
         NEW c, c = ramWriteCommands, Stage("ramWrite", c, n, more),
         Storing(c, n), Execute, UNCHANGED <<switchVars, gameVars>>
  PROVE  n + 1 \in 0 .. 4 /\ Storing(c, n + 1)'
<1>1. /\ "ramWrite" \in Machines /\ DOMAIN accessor = AccessorFields
      /\ TakesAddress("ramWrite") = 2 /\ rx \in [Machines -> Seq(Words)]
      /\ c \in Chains("ramWrite")
  BY DEF Machines, MbcInv, DmaTypes, TakesAddress, CycleInv, switchVars
<1>2. /\ Len(c) = 4 /\ c[1].to = "ctrl"
      /\ c = RAM_WRITE => /\ c[2].from = "rxRamWrite" /\ c[2].to = "write"
                          /\ c[3].from = "ram_base" /\ c[3].to = "writeOr"
                          /\ c[4].to = "readGo"
  <2>1. ShapedLike("ramWrite", c)
    BY <1>1, EveryShape
  <2>2. Len(c) = 4 /\ c[1].to = "ctrl"
    BY <2>1 DEF ShapedLike, ForRom
  <2> QED
    BY <2>2, ChainCommands, CmdFields
<1>0. /\ n + 1 \in 1 .. 4
      /\ accessor' = IF c[n + 1].to = "ctrl"
                     THEN Controlled(accessor, c[n + 1].from)
                     ELSE Loaded(accessor, c[n + 1].to, Value(c[n + 1].from))
      /\ rx' = IF n + 1 = 2 THEN [rx EXCEPT !["ramWrite"] = Tail(@)] ELSE rx
  <2>1. n \in 0 .. Len(c)
    BY <1>2
  <2>2. /\ n + 1 \in 1 .. Len(c)
        /\ accessor' = IF c[n + 1].to = "ctrl"
                       THEN Controlled(accessor, c[n + 1].from)
                       ELSE Loaded(accessor, c[n + 1].to, Value(c[n + 1].from))
        /\ rx' = IF n + 1 = TakesAddress("ramWrite")
                 THEN [rx EXCEPT !["ramWrite"] = Tail(@)] ELSE rx
    BY <1>1, <2>1, Executed
  <2> QED
    BY <1>1, <1>2, <2>2
<1>3. n \in {0, 1, 2, 3}
  BY <1>0
<1>4. /\ bus' = bus /\ cartridge' = cartridge /\ written' = written
      /\ DataWords' = DataWords /\ AllWords' = AllWords
  BY DEF DataWords, AllWords, gameVars
<1>5. rx["ramWrite"] = IF n < 2 THEN AllWords ELSE DataWords
  BY DEF Storing
<1>6. Head(AllWords) = bus.page /\ Tail(AllWords) = DataWords
  BY AddressTaken
<1>7. rx'["ramWrite"] = IF n + 1 < 2 THEN AllWords ELSE DataWords
  <2>1. CASE n = 1
    <3>1. rx' = [rx EXCEPT !["ramWrite"] = Tail(@)]
      BY <1>0, <2>1
    <3>2. rx'["ramWrite"] = Tail(rx["ramWrite"])
      BY <1>1, <3>1
    <3> QED
      BY <1>5, <1>6, <2>1, <3>2
  <2>2. CASE n = 0
    BY <1>0, <1>5, <2>2
  <2>3. CASE n \in {2, 3}
    BY <1>0, <1>5, <2>3
  <2> QED
    BY <1>3, <2>1, <2>2, <2>3
<1>8. ASSUME c = RAM_WRITE
      PROVE  /\ n + 1 = 2 => accessor'.write = Address(bus.page)
             /\ n + 1 > 2 => accessor'.write = Bus!RamCell(cartridge, written, bus.page)
  <2> DEFINE cell == Bus!RamCell(cartridge, written, bus.page)
  <2>1. Or(bases.ram, Address(bus.page)) = cell
    BY <1>8, Storage
  <2>0. /\ n = 2 => accessor.write = Address(bus.page)
        /\ n > 2 => accessor.write = cell
    BY <1>8 DEF Storing
  <2> HIDE DEF cell
  <2>2. CASE n = 0
    BY <2>2
  <2>3. CASE n = 1
    <3>1. Value("rxRamWrite") = Address(bus.page)
      BY <1>5, <1>6, <2>3, SourceValues
    <3>2. accessor' = Loaded(accessor, "write", Address(bus.page))
      BY <1>0, <1>2, <1>8, <2>3, <3>1
    <3>3. accessor'.write = Address(bus.page)
      BY <1>1, <3>2, LoadedFields
    <3> QED
      BY <2>3, <3>3
  <2>4. CASE n = 2
    <3>1. accessor' = Loaded(accessor, "writeOr", bases.ram)
      BY <1>0, <1>2, <1>8, <2>4, SourceValues
    <3>2. accessor'.write = cell
      BY <1>1, <2>0, <2>1, <2>4, <3>1, LoadedFields
    <3> QED
      BY <2>4, <3>2 DEF cell
  <2>5. CASE n = 3
    <3> DEFINE v == Value(c[4].from)
    <3>1. accessor' = Loaded(accessor, "readGo", v)
      BY <1>0, <1>2, <1>8, <2>5
    <3> HIDE DEF v
    <3>2. accessor'.write = cell
      BY <1>1, <2>0, <2>5, <3>1, LoadedFields
    <3> QED
      BY <2>5, <3>2 DEF cell
  <2> QED
    BY <1>3, <2>2, <2>3, <2>4, <2>5
<1>9. Storing(c, n + 1)'
  BY <1>1, <1>4, <1>7, <1>8 DEF Storing
<1>10. n + 1 \in 0 .. 4
  BY <1>3
<1> QED
  BY <1>9, <1>10

-----------------------------------------------------------------------------
(* The steps of the channels.                                              *)

LEMMA Accessed ==
  ASSUME NEW m, NEW c, NEW n, NEW more, Stage(m, c, n, more), Access
  PROVE  n = Len(c)
  BY DEF Stage, Access, CanAccess

LEMMA ReadingStep ==
  ASSUME MbcInv, CycleInv, Selects(written), NEW m \in Reads, Reading(m),
         DmaStep, UNCHANGED <<switchVars, gameVars>>
  PROVE  Reading(m)' \/ (Resting' /\ Answered')
<1>1. m \in Machines /\ m # "ramWrite" /\ Serves(m) /\ tx = <<>> /\ bus.driven = Nothing
  BY DEF Reads, ForRom, Machines, Reading
<1>2. bus' = bus /\ cartridge' = cartridge /\ Answer' = Answer /\ Serves(m)'
  BY <1>1 DEF gameVars, Answer, Serves, Mbc
<1>3. CASE Waiting(m, 0) /\ rx[m] = <<bus.page>>
  <2>1. ~Execute /\ ~Access
    <3>1. chain = <<>> /\ accessor = Idle /\ ~Idle.busy
      BY <1>3 DEF Waiting, Idle
    <3> QED
      BY <3>1 DEF Execute, CanExecute, Access, CanAccess
  <2>2. PICK k \in Machines : Request(k)
    BY <2>1 DEF DmaStep
  <2>3. /\ \E c \in Chains(m) : /\ Stage(m, c, 0, 0)'
                                /\ m = "ramRead" => c = ramReadCommands
        /\ m \in ForRom => accessor'.write = TxFifo
        /\ UNCHANGED <<rx, tx, wrote>>
    BY <1>1, <1>3, <2>2, RequestStage
  <2>4. PICK c \in Chains(m) : /\ Stage(m, c, 0, 0)'
                               /\ m = "ramRead" => c = ramReadCommands
    BY <2>3
  <2>5. 0 \in 0 .. Len(c) /\ 0 # Len(c) /\ ~(TakesAddress(m) <= 0)
    <3>1. Len(c) = 2 \/ Len(c) = 4
      BY <1>1, ShapeSize
    <3>2. TakesAddress(m) \in 1 .. 3
      BY <1>1, ShapeSize
    <3> QED
      BY <3>1, <3>2
  <2>6. Loading(m, c, 0)'
    BY <1>2, <1>3, <2>3, <2>4, <2>5 DEF Loading, switchVars
  <2> QED
    BY <1>1, <1>2, <2>3, <2>4, <2>5, <2>6 DEF Reading
<1>4. ASSUME NEW c \in Chains(m), NEW n \in 0 .. Len(c), Stage(m, c, n, 0),
             Loading(m, c, n)
      PROVE  Reading(m)' \/ (Resting' /\ Answered')
  <2>1. CASE Execute
    <3>1. /\ n + 1 \in 0 .. Len(c) /\ Stage(m, c, n + 1, 0)' /\ tx' = tx
      BY <1>1, <1>4, <2>1, ExecuteStage DEF CycleInv
    <3>2. Loading(m, c, n + 1)'
      <4>1. CASE m \in ForRom
        BY <1>1, <1>4, <2>1, <4>1, RomLoads
      <4>2. CASE m = "ramRead"
        BY <1>1, <1>4, <2>1, <4>2, RamLoads
      <4> QED
        BY <4>1, <4>2 DEF Reads
    <3> QED
      BY <1>1, <1>2, <3>1, <3>2 DEF Reading
  <2>2. CASE Access
    <3>1. Resting' /\ n = Len(c)
      BY <1>1, <1>4, <2>2, Accessed, AccessStage DEF CycleInv
    <3>2. /\ tx' = IF accessor.write = DevNull THEN tx
                   ELSE Append(tx, accessor.read)
      <4>1. ~accessor.paced
        BY <1>1, <1>4 DEF Stage
      <4> QED
        BY <2>2, <4>1 DEF Access
    <3>3. DevNull # TxFifo
      BY DEF DevNull, TxFifo, Cell
    <3>4. n > 1 /\ (c # RAM_DUMMY_READ => accessor.read = Answer)
      <4>1. Len(c) = 2 \/ Len(c) = 4
        BY <1>1, ShapeSize
      <4>2. n > 1
        BY <3>1, <4>1
      <4> QED
        BY <1>4, <3>1, <4>2 DEF Loading
    <3>5. CASE m = "ramRead" /\ c = RAM_DUMMY_READ
      <4>1. accessor.write = DevNull /\ ramReadCommands = RAM_DUMMY_READ
        BY <1>4, <3>4, <3>5 DEF Loading, ForRom
      <4>2. tx' = <<>> /\ Answer = Nothing
        BY <1>1, <3>2, <3>5, <4>1, Answers DEF Serves
      <4> QED
        BY <1>1, <1>2, <3>1, <4>2 DEF Answered
    <3>6. CASE ~(m = "ramRead" /\ c = RAM_DUMMY_READ)
      <4>1. accessor.write = TxFifo
        BY <1>4, <3>4, <3>6 DEF Loading, Reads
      <4>2. c # RAM_DUMMY_READ
        <5>1. m \in ForRom => Len(c) = 2
          BY <1>1, EveryShape DEF ShapedLike
        <5>2. Len(RAM_DUMMY_READ) = 4
          BY RamReadShape DEF ShapedLike, ForRom
        <5>3. m = "ramRead" \/ m \in ForRom
          BY DEF Reads
        <5>4. m \in ForRom => Len(c) # 4
          BY <5>1
        <5> QED
          BY <3>6, <5>2, <5>3, <5>4
      <4>3. tx' = <<Answer>>
        BY <1>1, <3>2, <3>3, <3>4, <4>1, <4>2, OneWord
      <4> QED
        BY <1>2, <3>1, <4>3 DEF Answered
    <3> QED
      BY <3>5, <3>6
  <2>3. ASSUME NEW k \in Machines, Request(k)
        PROVE  FALSE
    <3>1. k \in armed /\ rx[k] # <<>>
      BY <2>3 DEF Request, CanRequest
    <3>2. armed = Machines \ {m} /\ \A j \in Machines \ {m} : rx[j] = <<>>
      BY <1>4 DEF Stage, OnlyIn
    <3> QED
      BY <3>1, <3>2
  <2> QED
    BY <2>1, <2>2, <2>3 DEF DmaStep
<1> QED
  BY <1>3, <1>4 DEF Reading

LEMMA WritingStep ==
  ASSUME MbcInv, CycleInv, Selects(written), bus.op \in {"address", "write"},
         Writing, DmaStep, UNCHANGED <<switchVars, cpu, gameVars, main>>
  PROVE  Writing' \/ WrittenThrough'
<1> PICK c, more : c = ramWriteCommands /\ more = More
  OBVIOUS
<1> DEFINE clock == ClockIsOn(written)
<1>1. /\ "ramWrite" \in Machines /\ more \in {0, 1} /\ c \in Chains("ramWrite")
      /\ rx \in [Machines -> Seq(Words)]
  BY DEF Machines, More, CycleInv
<1>2. /\ bus' = bus /\ main' = main /\ c = ramWriteCommands' /\ more = More' /\ AllWords' = AllWords
      /\ DataWords' = DataWords /\ clock' = clock /\ Stored' = Stored
  BY DEF gameVars, switchVars, More, AllWords, DataWords, ClockIsOn, Stored
<1>3. wrote = IF clock /\ bus.op = "write" /\ main = <<>> THEN Stored ELSE Nothing
  BY DEF Writing
<1> HIDE DEF clock
<1>4. CASE Waiting("ramWrite", more) /\ rx["ramWrite"] = AllWords
  <2>1. ~Execute /\ ~Access
    <3>1. chain = <<>> /\ accessor = Idle /\ ~Idle.busy
      BY <1>4 DEF Waiting, Idle
    <3> QED
      BY <3>1 DEF Execute, CanExecute, Access, CanAccess
  <2>2. PICK k \in Machines : Request(k)
    BY <2>1 DEF DmaStep
  <2>3. Stage("ramWrite", c, 0, more)' /\ rx' = rx /\ wrote' = wrote
    BY <1>1, <1>4, <2>2, RequestStage
  <2>4. Storing(c, 0)'
    BY <1>2, <1>4, <2>3 DEF Storing
  <2>5. wrote' = IF clock' /\ bus'.op = "write" /\ main' = <<>> THEN Stored' ELSE Nothing
    BY <1>2, <1>3, <2>3
  <2>6. Writing'
    BY <1>2, <2>3, <2>4, <2>5 DEF Writing, clock
  <2> QED
    BY <2>6
<1>5. ASSUME NEW n \in 0 .. 4, Stage("ramWrite", c, n, more), Storing(c, n)
      PROVE  Writing' \/ WrittenThrough'
  <2>0. Len(c) = 4
    BY <1>1, EveryShape DEF ShapedLike, ForRom
  <2>1. CASE Execute
    <3>1. Stage("ramWrite", c, n + 1, more)' /\ wrote' = wrote
      BY <1>1, <1>5, <2>0, <2>1, ExecuteStage
    <3>2. n + 1 \in 0 .. 4 /\ Storing(c, n + 1)'
      BY <1>5, <2>1, WriteLoads
    <3>3. wrote' = IF clock' /\ bus'.op = "write" /\ main' = <<>> THEN Stored' ELSE Nothing
      BY <1>2, <1>3, <3>1
    <3>4. Writing'
      BY <1>2, <3>1, <3>2, <3>3 DEF Writing, clock
    <3> QED
      BY <3>4
  <2>2. CASE Access
    <3>1. Resting' /\ n = 4 /\ more = 1
      BY <1>1, <1>5, <2>0, <2>2, Accessed, AccessStage
    <3>2. bus.op = "write" /\ rx["ramWrite"] = <<bus.data>>
      BY <1>5, <3>1 DEF More, Storing, DataWords
    <3>3. wrote' = IF accessor.write = DevNull THEN wrote
                   ELSE [cell |-> accessor.write, data |-> bus.data]
      <4>1. accessor.paced
        BY <1>5, <3>1 DEF Stage
      <4>2. Head(<<bus.data>>) = bus.data
        OBVIOUS
      <4> QED
        BY <2>2, <3>2, <4>1, <4>2 DEF Access
    <3>4. wrote' = IF clock /\ main # <<>> THEN Nothing ELSE Stored
      <4>1. CASE c = RAM_WRITE
        <5>1. /\ ~clock
              /\ Stored = [cell |-> Bus!RamCell(cartridge, written, bus.page),
                           data |-> bus.data]
          BY <4>1, Storage DEF clock
        <5>2. accessor.write = Bus!RamCell(cartridge, written, bus.page)
          BY <1>5, <3>1, <4>1 DEF Storing
        <5>3. accessor.write # DevNull
          BY <5>2 DEF Bus!RamCell, DevNull, Cell
        <5> QED
          BY <3>3, <5>1, <5>2, <5>3
      <4>2. CASE c = RAM_DUMMY_WRITE
        <5>1. accessor.write = DevNull
          BY <1>5, <3>1, <4>2 DEF Stage
        <5>2. ~clock => Stored = Nothing
          BY <4>2, Storage DEF clock
        <5> QED
          BY <1>3, <3>2, <3>3, <5>1, <5>2
      <4> QED
        BY <1>1, <4>1, <4>2 DEF Chains
    <3>5. wrote' = IF clock' /\ main' # <<>> THEN Nothing ELSE Stored'
      BY <1>2, <3>4
    <3>6. WrittenThrough'
      BY <1>2, <3>1, <3>2, <3>5 DEF WrittenThrough, clock
    <3> QED
      BY <3>6
  <2>3. ASSUME NEW k \in Machines, Request(k)
        PROVE  FALSE
    <3>1. k \in armed /\ rx[k] # <<>>
      BY <2>3 DEF Request, CanRequest
    <3>2. armed = Machines \ {"ramWrite"} /\ \A j \in Machines \ {"ramWrite"} : rx[j] = <<>>
      BY <1>5 DEF Stage, OnlyIn
    <3> QED
      BY <3>1, <3>2
  <2> QED
    BY <2>1, <2>2, <2>3 DEF DmaStep
<1> QED
  BY <1>4, <1>5 DEF Writing

LEMMA SelectsFrame ==
  ASSUME NEW w, Selects(w), UNCHANGED <<switchVars, cpu, currentRegister, cartridge>>
  PROVE  Selects(w)'
  BY DEF Selects, RomSelects, RamSelects, ClockSelects, ClockIsOn, Mbc, switchVars

LEMMA FollowsFrame ==
  ASSUME Follows, UNCHANGED <<switchVars, cpu, currentRegister, cartridge>>,
         Handled' = Handled
  PROVE  Follows'
<1>1. PICK w : w = Handled /\ Selects(w)
  BY DEF Follows
<1>2. Selects(w)'
  BY <1>1, SelectsFrame
<1> QED
  BY <1>1, <1>2 DEF Follows

\* A write to RAM reaches no register.
LEMMA RamIsNoRegister ==
  ASSUME MbcInv, InRam(bus.area)
  PROVE  AfterCycle = written
<1>1. bus.area \notin 0 .. 7
  BY DEF InRam
<1>2. bus.area \notin 0 .. 3 /\ bus.area \notin 0 .. 5 /\ bus.area \notin 0 .. 4
  BY <1>1
<1>3. Mbc \in {0, 1, 2, 3, 5}
  BY CartridgeFacts DEF MbcInv, CpuTypes
<1> QED
  BY <1>1, <1>2, <1>3, Written1, Written2, Written3, Written5 DEF AfterCycle

LEMMA WrittenSelects ==
  ASSUME MbcInv, Follows, bus.op # "write" \/ InRam(bus.area)
  PROVE  Selects(written)
<1>1. Handled = written
  BY RamIsNoRegister DEF Handled
<1> QED
  BY <1>1 DEF Follows

LEMMA DmaFlow ==
  ASSUME MbcInv, CycleInv, FlowInv, Dma
  PROVE  FlowInv'
<1>1. DmaStep /\ UNCHANGED <<switchVars, cpu, currentRegister, main, gameVars>>
  BY DEF Dma, cpuVars
<1>2. bus' = bus /\ cartridge' = cartridge /\ written' = written /\ main' = main
  BY <1>1 DEF gameVars
<1>3. Follows' /\ Told'
  <2>1. Handled' = Handled
    BY <1>2 DEF Handled, AfterCycle
  <2> QED
    BY <1>1, <1>2, <2>1, FollowsFrame DEF FlowInv, Told
<1>4. ~Resting /\ WritesRam' = WritesRam
  BY <1>1, <1>2, RestingStays DEF WritesRam, Mbc
<1>5. CASE bus.op = "read"
  <2>1. PICK m \in Reads : Reading(m)
    BY <1>4, <1>5 DEF FlowInv, Flow
  <2>2. Selects(written) /\ wrote = Nothing
    BY <1>5, WrittenSelects DEF FlowInv, Flow
  <2>3. Reading(m)' \/ (Resting' /\ Answered')
    BY <1>1, <2>1, <2>2, ReadingStep
  <2>4. wrote' = wrote
    BY <1>5, DmaCycle
  <2> QED
    BY <1>2, <1>3, <1>5, <2>2, <2>3, <2>4 DEF FlowInv, Flow
<1>6. CASE bus.op # "read"
  <2>1. bus.op \in {"address", "write"} /\ WritesRam /\ bus.driven = Nothing
    BY <1>4, <1>6 DEF CycleInv, Place, FlowInv, Flow
  <2>2. Selects(written) /\ Writing
    BY <1>4, <2>1, WrittenSelects DEF FlowInv, Flow, WritesRam, WrittenThrough
  <2>3. Writing' \/ WrittenThrough'
    BY <1>1, <2>1, <2>2, WritingStep
  <2> QED
    BY <1>2, <1>3, <1>4, <2>1, <2>3 DEF FlowInv, Flow
<1> QED
  BY <1>5, <1>6

-----------------------------------------------------------------------------
(* The steps of the main loop.                                             *)

LEMMA ClockWritten ==
  ASSUME Write, Mbc = 3, InRam(main[1].area)
  PROVE  Mbc3RamWritten
<1>1. ASSUME NEW mbc, NEW areas, HandleWrite(mbc, areas)
      PROVE  mbc = 3 /\ (10 \in areas \/ 11 \in areas)
  BY <1>1 DEF HandleWrite, InRam
<1>2. ~Mbc1 /\ ~Mbc2 /\ ~Mbc5
  BY <1>1 DEF Mbc1, Mbc1EnableRam, Mbc1LowBits, Mbc1HighBits, Mbc1Mode,
              Mbc2, Mbc2EnableRam, Mbc2RomBank,
              Mbc5, Mbc5EnableRam, Mbc5LowBits, Mbc5NinthBit, Mbc5RamBank
<1>3. ~Mbc3EnableRam /\ ~Mbc3RomBank /\ ~Mbc3RamBank /\ ~Mbc3Latch
  BY <1>1 DEF Mbc3EnableRam, Mbc3RomBank, Mbc3RamBank, Mbc3Latch
<1>4. \A mbc, areas : RamWritten(mbc, areas) \/ Ignored(mbc, areas) =>
                        mbc = 3 /\ (10 \in areas \/ 11 \in areas)
  BY <1>1 DEF RamWritten, Ignored
<1>5. 10 \notin {8, 9} \cup 12 .. 15 /\ 11 \notin {8, 9} \cup 12 .. 15
  OBVIOUS
<1>6. ~Ignored(3, {8, 9} \cup 12 .. 15)
  BY <1>4, <1>5
<1> QED
  BY <1>2, <1>3, <1>4, <1>6 DEF Write, Mbc3

LEMMA WriteFlow ==
  ASSUME MbcInv, CycleInv, OnlyIfGiven, FlowInv, Mbc5HasRam, Write
  PROVE  FlowInv'
<1>1. /\ RegisterWritten \/ Marked
      /\ bus.op = "write" /\ main # <<>> /\ main' = <<>>
      /\ UNCHANGED <<rx, tx, armed, chain, accessor, cartridge, bus>>
  BY WriteOutcome
<1>2. written' = written /\ (wrote' = wrote \/ Mbc3RamWritten)
  BY DEF Write, Mbc1, Mbc1EnableRam, Mbc1LowBits, Mbc1HighBits, Mbc1Mode, Mbc1Switch,
         Mbc2, Mbc2EnableRam, Mbc2RomBank, SwitchRom,
         Mbc3, Mbc3EnableRam, Mbc3RomBank, Mbc3RamBank, Mbc3Latch, Mbc3RamWritten,
         Mbc5, Mbc5EnableRam, Mbc5LowBits, Mbc5NinthBit, Mbc5RamBank,
         RamWritten, Ignored, HandleWrite, gameVars
<1>3. Known
  BY <1>1 DEF Known, CycleInv, FlowInv, Told, Data
<1>4. Selects(written)
  <2>1. Handled = written
    BY <1>1 DEF Handled
  <2> QED
    BY <2>1 DEF FlowInv, Follows
<1>5. PICK r : r = After(written)
  OBVIOUS
<1>6. Selects(r)'
  BY <1>3, <1>4, <1>5, WriteSelects
<1>7. Handled' = r
  BY <1>1, <1>2, <1>5 DEF Handled, AfterCycle, After
<1>8. Follows' /\ Told'
  BY <1>1, <1>6, <1>7 DEF Follows, Told, FlowInv
<1>9. WritesRam' = WritesRam /\ bus.driven = Nothing
  BY <1>1 DEF WritesRam, Mbc, FlowInv, Flow
<1>10. CASE ~WritesRam
  <2>1. ~Mbc3RamWritten
    <3>1. ASSUME Mbc3RamWritten
          PROVE  WritesRam
      <4>1. HandleWrite(3, {10, 11})
        BY <3>1 DEF Mbc3RamWritten
      <4>2. Mbc = 3 /\ main[1].area \in {10, 11}
        BY <4>1 DEF HandleWrite
      <4> QED
        BY <1>1, <1>3, <4>2 DEF WritesRam, InRam, Known
    <3> QED
      BY <1>10, <3>1
  <2> QED
    BY <1>1, <1>2, <1>8, <1>9, <1>10, <2>1 DEF FlowInv, Flow
<1>11. CASE WritesRam
  <2>1. main[1].area = bus.area /\ InRam(bus.area) /\ Data = bus.data
    BY <1>3, <1>11 DEF Known, WritesRam
  <2>2. Marked /\ UNCHANGED <<ramReadCommands, ramWriteCommands, cpu>>
    BY <1>1, <2>1 DEF RegisterWritten, Marked
  <2> DEFINE clock == ClockIsOn(written)
  <2>3. wrote' = IF clock THEN Stored ELSE wrote
    <3>1. CASE Mbc3RamWritten
      <4>1. /\ Mbc = 3
            /\ wrote' = IF cpu.ramEnabled /\ IsClock(cpu.ramBank)
                        THEN [cell |-> Cell("rtc", currentRegister, 0), data |-> Data]
                        ELSE wrote
        BY <3>1 DEF Mbc3RamWritten, HandleWrite
      <4>2. clock <=> cpu.ramEnabled /\ IsClock(cpu.ramBank)
        BY <1>4, <4>1, ClockBit DEF ClockIsOn, Selects, RamSelects
      <4> QED
        BY <1>4, <2>1, <4>1, <4>2, Storage
    <3>2. CASE ~Mbc3RamWritten
      <4>1. wrote' = wrote
        BY <1>2, <3>2
      <4>2. ~clock
        <5>1. clock => Mbc = 3
          BY <1>4, Storage
        <5>2. Mbc # 3
          BY <2>1, <3>2, ClockWritten
        <5> QED
          BY <5>1, <5>2
      <4> QED
        BY <4>1, <4>2
    <3> QED
      BY <3>1, <3>2
  <2>4. /\ clock' = clock /\ Stored' = Stored /\ AllWords' = AllWords
        /\ DataWords' = DataWords /\ More' = More
    BY <1>1, <1>2, <2>2 DEF ClockIsOn, Stored, AllWords, DataWords, More
  <2> HIDE DEF clock
  <2>5. CASE Writing
    <3>1. wrote' = IF clock' /\ bus'.op = "write" /\ main' = <<>> THEN Stored' ELSE Nothing
      <4>1. wrote = Nothing
        BY <1>1, <2>5 DEF Writing
      <4> QED
        BY <1>1, <2>3, <2>4, <4>1
    <3>2. PICK c, more : /\ c = ramWriteCommands /\ more = More
                         /\ \/ Waiting("ramWrite", more) /\ rx["ramWrite"] = AllWords
                            \/ \E n \in 0 .. 4 : Stage("ramWrite", c, n, more) /\ Storing(c, n)
      BY <2>5 DEF Writing
    <3>3. \/ Waiting("ramWrite", more)' /\ rx'["ramWrite"] = AllWords'
          \/ \E n \in 0 .. 4 : Stage("ramWrite", c, n, more)' /\ Storing(c, n)'
      <4>1. Waiting("ramWrite", more) => Waiting("ramWrite", more)'
        BY <1>1 DEF Waiting, OnlyIn
      <4>2. \A n : Stage("ramWrite", c, n, more) => Stage("ramWrite", c, n, more)'
        BY <1>1 DEF Stage, OnlyIn
      <4>3. \A n : Storing(c, n) => Storing(c, n)'
        BY <1>1, <1>2, <2>4 DEF Storing
      <4> QED
        BY <1>1, <2>4, <3>2, <4>1, <4>2, <4>3
    <3>4. Writing'
      BY <2>2, <2>4, <3>1, <3>2, <3>3 DEF Writing, clock
    <3> QED
      BY <1>1, <1>8, <1>9, <1>11, <3>4 DEF FlowInv, Flow
  <2>6. CASE WrittenThrough
    <3>1. Resting' /\ wrote = IF clock THEN Nothing ELSE Stored
      BY <1>1, <2>6, RestingFrame DEF WrittenThrough, clock
    <3>2. wrote' = IF clock' /\ main' # <<>> THEN Nothing ELSE Stored'
      BY <1>1, <2>3, <2>4, <3>1
    <3>3. WrittenThrough'
      BY <1>1, <3>1, <3>2 DEF WrittenThrough, clock
    <3> QED
      BY <1>1, <1>8, <1>9, <1>11, <3>3 DEF FlowInv, Flow
  <2> QED
    BY <1>1, <1>11, <2>5, <2>6 DEF FlowInv, Flow
<1> QED
  BY <1>10, <1>11

-----------------------------------------------------------------------------
(* The steps of the bus.                                                   *)

LEMMA FlowFrame ==
  ASSUME FlowInv, UNCHANGED <<switchVars, dmaVars, cpu, currentRegister>>,
         UNCHANGED <<cartridge, bus, written>>,
         main' = main \/ (main' = <<>> /\ bus.op = "read")
  PROVE  FlowInv'
<1>1. Handled' = Handled /\ Told'
  BY DEF Handled, AfterCycle, FlowInv, Told
<1>2. Follows'
  BY <1>1, FollowsFrame DEF FlowInv
<1>3. /\ Answer' = Answer /\ Stored' = Stored /\ AllWords' = AllWords
      /\ DataWords' = DataWords /\ More' = More /\ WritesRam' = WritesRam
      /\ ClockIsOn(written)' = ClockIsOn(written)
  BY DEF Answer, Stored, AllWords, DataWords, More, WritesRam, ClockIsOn, Mbc
<1>4. /\ rx' = rx /\ tx' = tx /\ armed' = armed /\ chain' = chain
      /\ accessor' = accessor /\ wrote' = wrote /\ ramReadCommands' = ramReadCommands
      /\ ramWriteCommands' = ramWriteCommands
  BY DEF switchVars, dmaVars
<1>5. /\ Resting => Resting'
      /\ \A m, more : Waiting(m, more) => Waiting(m, more)'
      /\ \A m, c, n, more : Stage(m, c, n, more) => Stage(m, c, n, more)'
  BY <1>4 DEF Resting, Waiting, Stage, OnlyIn
<1>6. CASE bus.op = "read"
  <2>1. Answered => Answered'
    BY <1>3, <1>4 DEF Answered
  <2>2. ASSUME NEW m \in Reads, Reading(m)
        PROVE  Reading(m)'
    <3>1. Serves(m)' /\ tx' = <<>> /\ bus'.driven = Nothing
      BY <1>4, <2>2 DEF Reading, Serves, Mbc
    <3>2. \A c, n : Loading(m, c, n) => Loading(m, c, n)'
      BY <1>3, <1>4 DEF Loading
    <3> QED
      BY <1>4, <1>5, <2>2, <3>1, <3>2 DEF Reading
  <2> QED
    BY <1>1, <1>2, <1>4, <1>5, <1>6, <2>1, <2>2 DEF FlowInv, Flow
<1>7. CASE bus.op # "read"
  <2>1. main' = main
    BY <1>7
  <2>2. Writing => Writing'
    <3>1. \A c, n : Storing(c, n) => Storing(c, n)'
      BY <1>3, <1>4 DEF Storing
    <3> QED
      BY <1>3, <1>4, <1>5, <2>1, <3>1 DEF Writing
  <2>3. WrittenThrough => WrittenThrough'
    BY <1>3, <1>4, <1>5, <2>1 DEF WrittenThrough
  <2> QED
    BY <1>1, <1>2, <1>3, <1>4, <1>7, <2>2, <2>3 DEF FlowInv, Flow
<1> QED
  BY <1>6, <1>7

\* Areas without memory are not driven.
LEMMA NotServed ==
  ASSUME NEW c, NEW r, NEW area, NEW page, area \notin 0 .. 7,
         ~InRam(area) \/ c.mbc = 0
  PROVE  Bus!Drives(c, r, area, page) = Nothing
<1>1. area \notin 0 .. 3 /\ area \notin 4 .. 7
  OBVIOUS
<1>2. area \in 10 .. 11 => InRam(area)
  BY DEF InRam
<1>3. c.mbc = 0 => ~Bus!RamIsOn(c, r)
  BY DEF Bus!RamIsOn
<1> QED
  BY <1>1, <1>2, <1>3 DEF Bus!Drives

GameBytes ==
  UNION {UNION {DataFor[m][a] : a \in DOMAIN DataFor[m]} : m \in DOMAIN DataFor}

LEMMA GameCycles ==
  ASSUME cartridge \in Cartridges, GameReads \/ GameWrites
  PROVE  \/ \E area \in 0 .. 15 : \E page \in {0, TopPage} : BeginRead(area, page)
         \/ \E area \in 0 .. 15, page \in {0, TopPage}, odd \in BOOLEAN :
            \E data \in GameBytes \cap 0 .. 255 : BeginWrite(area, odd, page, data)
<1>1. \A area : (IF InRam(area) THEN {0, TopPage} ELSE {0}) \subseteq {0, TopPage}
  OBVIOUS
<1>2. CASE GameReads
  BY <1>1, <1>2, GameData DEF GameReads
<1>3. CASE GameWrites
  <2>0. PICK area \in DOMAIN DataFor[Mbc] : \E data \in DataFor[Mbc][area] :
          \E page \in IF InRam(area) THEN {0, TopPage} ELSE {0},
             odd \in IF Mbc = 2 THEN BOOLEAN ELSE {FALSE} :
               BeginWrite(area, odd, page, data)
    BY <1>3 DEF GameWrites
  <2>1. PICK data \in DataFor[Mbc][area] :
          \E page \in IF InRam(area) THEN {0, TopPage} ELSE {0},
             odd \in IF Mbc = 2 THEN BOOLEAN ELSE {FALSE} :
               BeginWrite(area, odd, page, data)
    BY <2>0
  <2>2. area \in 0 .. 15 /\ data \in 0 .. 255
    BY GameData
  <2>3. data \in GameBytes
    BY CartridgeFacts DEF GameBytes
  <2>4. (IF Mbc = 2 THEN BOOLEAN ELSE {FALSE}) \subseteq BOOLEAN
    OBVIOUS
  <2> QED
    BY <1>1, <2>1, <2>2, <2>3, <2>4
<1> QED
  BY <1>2, <1>3

LEMMA BeginReadFlow ==
  ASSUME MbcInv, CycleInv, FlowInv, NEW area \in 0 .. 15, NEW page \in {0, TopPage},
         BeginRead(area, page)
  PROVE  FlowInv'
<1> DEFINE w == [write |-> FALSE, area |-> area, odd |-> FALSE]
<1>1. /\ bus = NoCycle /\ main' = Pushed(main, w)
      /\ bus' = Cycle("read", area, FALSE, page, Nothing)
      /\ UNCHANGED <<switchVars, cpu, currentRegister>>
      /\ UNCHANGED <<tx, armed, chain, accessor, wrote, cartridge, written>>
  BY DEF BeginRead, cpuVars
<1>2. Resting /\ main = <<>> /\ tx = <<>> /\ bus.op = "none" /\ rx \in [Machines -> Seq(Words)]
  BY <1>1, BetweenCycles DEF CycleInv
<1>3. /\ bus'.op = "read" /\ bus'.area = area /\ bus'.odd = FALSE
      /\ bus'.page = page /\ bus'.driven = Nothing
  BY <1>1 DEF Cycle
<1>4. wrote' = Nothing /\ tx' = <<>> /\ Mbc' = Mbc /\ page \in Words
  BY <1>1, <1>2 DEF FlowInv, Flow, Mbc, Words
<1>5. w.odd = FALSE
  OBVIOUS
<1> HIDE DEF w
<1>6. Told'
  <2>1. main' # <<>> => main'[1] = w
    BY <1>1, <1>2, PushedArea
  <2> QED
    BY <1>3, <1>5, <2>1 DEF Told
<1>7. Follows'
  <2>1. Handled' = Handled
    BY <1>1, <1>2, <1>3 DEF Handled
  <2> QED
    BY <1>1, <2>1, FollowsFrame DEF FlowInv
<1>8. ASSUME NEW m \in Reads, rx' = [rx EXCEPT ![m] = Append(@, page)], Serves(m)'
      PROVE  Reading(m)'
  <2>1. m \in Machines
    BY DEF Reads, ForRom, Machines
  <2>2. Waiting(m, 0)' /\ rx'[m] = <<page>>
    BY <1>1, <1>2, <1>4, <1>8, <2>1, FirstWord
  <2> QED
    BY <1>3, <1>4, <1>8, <2>2 DEF Reading
<1>9. CASE area \in 0 .. 3
  <2>1. rx' = [rx EXCEPT !["romLow"] = Append(@, page)]
    BY <1>9 DEF BeginRead, InRam
  <2>2. Serves("romLow")' /\ "romLow" \in Reads
    BY <1>3, <1>9 DEF Serves, Reads, ForRom
  <2> QED
    BY <1>3, <1>4, <1>6, <1>7, <1>8, <2>1, <2>2 DEF FlowInv, Flow
<1>10. CASE area \in 4 .. 7
  <2>1. rx' = [rx EXCEPT !["romHigh"] = Append(@, page)]
    BY <1>10 DEF BeginRead, InRam
  <2>2. Serves("romHigh")' /\ "romHigh" \in Reads
    BY <1>3, <1>10 DEF Serves, Reads, ForRom
  <2> QED
    BY <1>3, <1>4, <1>6, <1>7, <1>8, <2>1, <2>2 DEF FlowInv, Flow
<1>11. CASE area \notin 0 .. 7
  <2>1. rx' = IF InRam(area) THEN [rx EXCEPT !["ramRead"] = Pushed(@, page)] ELSE rx
    BY <1>11 DEF BeginRead
  <2>2. CASE InRam(area) /\ Mbc # 0
    <3>1. rx' = [rx EXCEPT !["ramRead"] = Append(@, page)]
      BY <2>1, <2>2 DEF Pushed
    <3>2. Serves("ramRead")' /\ "ramRead" \in Reads
      BY <1>3, <1>4, <2>2 DEF Serves, Reads
    <3> QED
      BY <1>3, <1>4, <1>6, <1>7, <1>8, <3>1, <3>2 DEF FlowInv, Flow
  <2>3. CASE ~InRam(area) \/ Mbc = 0
    <3>1. rx' = rx
      <4>1. [rx EXCEPT !["ramRead"] = @] = rx
        BY <1>2 DEF Machines
      <4> QED
        BY <2>1, <2>3, <4>1 DEF Pushed
    <3>2. Resting'
      BY <1>1, <1>2, <3>1, RestingFrame
    <3>3. Answer' = Bus!Drives(cartridge, written, area, page)
      BY <1>1, <1>3 DEF Answer
    <3>4. Answered'
      BY <1>3, <1>4, <1>11, <2>3, <3>3, NotServed DEF Answered, Mbc
    <3> QED
      BY <1>3, <1>4, <1>6, <1>7, <3>2, <3>4 DEF FlowInv, Flow
  <2> QED
    BY <2>2, <2>3
<1>12. area \in 0 .. 3 \/ area \in 4 .. 7 \/ area \notin 0 .. 7
  OBVIOUS
<1> QED
  BY <1>9, <1>10, <1>11, <1>12

LEMMA BeginWriteFlow ==
  ASSUME MbcInv, CycleInv, FlowInv, NEW area \in 0 .. 15, NEW odd \in BOOLEAN,
         NEW page \in {0, TopPage}, NEW data \in 0 .. 255,
         BeginWrite(area, odd, page, data)
  PROVE  FlowInv'
<1> DEFINE w == [write |-> TRUE, area |-> area, odd |-> odd]
<1>1. /\ bus = NoCycle /\ main' = Pushed(main, w)
      /\ bus' = Cycle("address", area, odd, page, data)
      /\ UNCHANGED <<switchVars, cpu, currentRegister>>
      /\ UNCHANGED <<tx, armed, chain, accessor, wrote, cartridge, written>>
      /\ rx' = IF InRam(area) THEN [rx EXCEPT !["ramWrite"] = Pushed(@, page)]
                              ELSE rx
  BY DEF BeginWrite, cpuVars
<1>2. Resting /\ main = <<>> /\ tx = <<>> /\ bus.op = "none" /\ rx \in [Machines -> Seq(Words)]
  BY <1>1, BetweenCycles DEF CycleInv
<1>3. /\ bus'.op = "address" /\ bus'.area = area /\ bus'.odd = odd
      /\ bus'.page = page /\ bus'.data = data /\ bus'.driven = Nothing
  BY <1>1, CycleFields
<1>4. wrote' = Nothing /\ page \in Words
  BY <1>1, <1>2 DEF FlowInv, Flow, Words
<1>5. w.odd = odd
  OBVIOUS
<1> HIDE DEF w
<1>6. Told'
  <2>1. main' # <<>> => main'[1] = w
    BY <1>1, <1>2, PushedArea
  <2> QED
    BY <1>3, <1>5, <2>1 DEF Told
<1>7. Follows'
  <2>1. Handled' = Handled
    BY <1>1, <1>2, <1>3 DEF Handled
  <2> QED
    BY <1>1, <2>1, FollowsFrame DEF FlowInv
<1>8. ASSUME WritesRam'
      PROVE  Writing'
  <2>1. InRam(area) /\ Mbc # 0
    BY <1>1, <1>3, <1>8 DEF WritesRam, Mbc
  <2>2. rx' = [rx EXCEPT !["ramWrite"] = Append(@, page)]
    BY <1>1, <2>1 DEF Pushed
  <2>3. Waiting("ramWrite", 0)' /\ rx'["ramWrite"] = <<page>>
    BY <1>1, <1>2, <1>4, <2>2, FirstWord DEF Machines
  <2>4. More' = 0 /\ AllWords' = <<page>>
    BY <1>3 DEF More, AllWords
  <2> QED
    BY <1>3, <1>4, <2>3, <2>4 DEF Writing
<1> QED
  BY <1>3, <1>4, <1>6, <1>7, <1>8 DEF FlowInv, Flow

LEMMA PutDataFlow ==
  ASSUME MbcInv, CycleInv, FlowInv, PutData
  PROVE  FlowInv'
<1>1. /\ bus.op = "address" /\ main' = Pushed(main, bus.data)
      /\ bus' = [bus EXCEPT !.op = "write"]
      /\ UNCHANGED <<switchVars, cpu, currentRegister>>
      /\ UNCHANGED <<tx, armed, chain, accessor, wrote, cartridge, written>>
      /\ rx' = IF InRam(bus.area)
               THEN [rx EXCEPT !["ramWrite"] = Pushed(@, bus.data)] ELSE rx
  BY DEF PutData, cpuVars
<1>2. /\ rx \in [Machines -> Seq(Words)] /\ DOMAIN bus = BusFields
      /\ bus.driven = Nothing /\ bus.data \in 0 .. 255 /\ bus.data \in Words
  BY <1>1 DEF CycleInv, FlowInv, Flow, Told, Words
<1>3. /\ bus'.op = "write" /\ bus'.area = bus.area /\ bus'.odd = bus.odd
      /\ bus'.page = bus.page /\ bus'.data = bus.data /\ bus'.driven = Nothing
  BY <1>1, <1>2 DEF BusFields
<1>4. \/ Mbc = 0 /\ main' = <<>>
      \/ Mbc # 0 /\ main' # <<>> /\ main'[1].odd = bus.odd /\ main'[2] = bus.data
  <2>1. /\ main = <<>> \/ \E w : main = <<w>> /\ w.write
        /\ Mbc = 0 => main = <<>>
        /\ Mbc # 0 => main # <<>>
    BY <1>1 DEF MbcInv, BusTypes, Queue
  <2>2. CASE Mbc = 0
    BY <1>1, <2>1, <2>2, PushedWord
  <2>3. CASE Mbc # 0
    <3>1. PICK w : main = <<w>>
      BY <2>1, <2>3
    <3>2. main' = <<w, bus.data>>
      BY <1>1, <2>3, <3>1, AppendToOne DEF Pushed
    <3>3. main'[1] = main[1] /\ main'[2] = bus.data /\ main # <<>> /\ main' # <<>>
      BY <3>1, <3>2, OneWord, TwoWords
    <3>4. main[1].odd = bus.odd
      BY <3>3 DEF FlowInv, Told
    <3> QED
      BY <2>3, <3>3, <3>4
  <2> QED
    BY <2>2, <2>3
<1>5. Told'
  BY <1>2, <1>3, <1>4 DEF Told
<1>6. Follows'
  <2>1. Handled = written
    BY <1>1 DEF Handled
  <2>2. CASE Mbc # 0
    <3>1. main' # <<>>
      BY <1>4, <2>2
    <3>2. Handled' = Handled
      BY <1>1, <2>1, <3>1 DEF Handled
    <3> QED
      BY <1>1, <3>2, FollowsFrame DEF FlowInv
  <2>3. CASE Mbc = 0
    <3>1. cartridge.mbc = 0
      BY <2>3 DEF Mbc
    <3>2. AfterCycle' = written'
      BY <1>1, <3>1 DEF AfterCycle, Bus!Written
    <3>3. Handled' = Handled
      BY <1>1, <2>1, <3>2 DEF Handled
    <3> QED
      BY <1>1, <3>3, FollowsFrame DEF FlowInv
  <2> QED
    BY <2>2, <2>3
<1>7. WritesRam' = WritesRam /\ (WritesRam <=> InRam(bus.area) /\ Mbc # 0)
  BY <1>1, <1>3 DEF WritesRam, Mbc
<1>8. CASE ~WritesRam
  <2>1. wrote' = Nothing
    BY <1>1, <1>8 DEF FlowInv, Flow
  <2> QED
    BY <1>3, <1>5, <1>6, <1>7, <1>8, <2>1 DEF FlowInv, Flow
<1>9. CASE WritesRam
  <2>1. Writing /\ main' # <<>>
    BY <1>1, <1>4, <1>7, <1>9 DEF FlowInv, Flow, WrittenThrough
  <2>2. rx' = [rx EXCEPT !["ramWrite"] = Append(@, bus.data)]
    BY <1>1, <1>7, <1>9 DEF Pushed
  <2>3. Underway("ramWrite", 0)
    BY <1>1, <1>9 DEF CycleInv, Place
  <2>4. /\ rx'["ramWrite"] = Append(rx["ramWrite"], bus.data)
        /\ Waiting("ramWrite", 0) => Waiting("ramWrite", 1)'
        /\ \A c, n : Stage("ramWrite", c, n, 0) => Stage("ramWrite", c, n, 1)'
    BY <1>1, <1>2, <2>2, <2>3, SecondWord DEF switchVars
  <2>5. /\ AllWords' = Append(AllWords, bus.data)
        /\ DataWords' = Append(DataWords, bus.data)
    <3>1. /\ AllWords = <<bus.page>> /\ AllWords' = <<bus.page, bus.data>>
          /\ DataWords = <<>> /\ DataWords' = <<bus.data>>
      BY <1>1, <1>3 DEF AllWords, DataWords
    <3> QED
      BY <3>1, AppendToOne, OneWord
  <2>6. PICK c : /\ c = ramWriteCommands
                 /\ \/ Waiting("ramWrite", 0) /\ rx["ramWrite"] = AllWords
                    \/ \E n \in 0 .. 4 : Stage("ramWrite", c, n, 0) /\ Storing(c, n)
    <3>1. More = 0
      BY <1>1 DEF More
    <3> QED
      BY <2>1, <3>1 DEF Writing
  <2>7. \A n : Storing(c, n) => Storing(c, n)'
    BY <1>1, <1>3, <2>4, <2>5 DEF Storing
  <2>8. wrote' = Nothing /\ More' = 1 /\ c = ramWriteCommands'
    BY <1>1, <1>3, <2>1, <2>6 DEF Writing, More, switchVars
  <2>9. Writing'
    BY <2>1, <2>4, <2>5, <2>6, <2>7, <2>8 DEF Writing
  <2> QED
    BY <1>3, <1>5, <1>6, <1>7, <1>9, <2>9 DEF FlowInv, Flow
<1> QED
  BY <1>8, <1>9

LEMMA DriveDataFlow ==
  ASSUME MbcInv, CycleInv, FlowInv, DriveData
  PROVE  FlowInv'
<1>1. /\ tx # <<>> /\ tx' = Tail(tx)
      /\ bus.op = "read" /\ bus' = [bus EXCEPT !.driven = Head(tx)]
      /\ UNCHANGED <<switchVars, cpu, currentRegister>>
      /\ UNCHANGED <<rx, armed, chain, accessor, wrote, main, cartridge, written>>
  BY DEF DriveData, cpuVars
<1>2. DOMAIN bus = BusFields
  BY <1>1 DEF CycleInv
<1>3. /\ bus'.op = "read" /\ bus'.area = bus.area /\ bus'.odd = bus.odd
      /\ bus'.page = bus.page /\ bus'.driven = Head(tx)
  BY <1>1, <1>2 DEF BusFields
<1>4. Resting /\ tx = <<Answer>> /\ wrote = Nothing
  BY <1>1 DEF FlowInv, Flow, Reading, Answered
<1>5. Head(tx) = Answer /\ Tail(tx) = <<>>
  <2>1. \A a : Head(<<a>>) = a /\ Tail(<<a>>) = <<>>
    OBVIOUS
  <2> QED
    BY <1>4, <2>1
<1>6. Answer' = Answer
  BY <1>1, <1>3 DEF Answer
<1>7. Resting' /\ Answered'
  BY <1>1, <1>3, <1>4, <1>5, <1>6, RestingFrame DEF Answered
<1>8. Handled' = Handled
  BY <1>1, <1>3 DEF Handled
<1>9. Follows' /\ Told'
  BY <1>1, <1>3, <1>8, FollowsFrame DEF FlowInv, Told
<1> QED
  BY <1>1, <1>3, <1>4, <1>7, <1>9 DEF FlowInv, Flow

LEMMA EndCycleFlow ==
  ASSUME MbcInv, CycleInv, FlowInv, EndCycle
  PROVE  FlowInv'
<1>1. /\ bus' = NoCycle /\ wrote' = Nothing
      /\ written' = IF bus.op = "write" THEN AfterCycle ELSE written
      /\ UNCHANGED <<switchVars, cpu, currentRegister, main, cartridge>>
  BY DEF EndCycle, cpuVars, AfterCycle
<1>2. main = <<>> /\ bus'.op = "none"
  BY <1>1, EndCycleCycle DEF NoCycle
<1>3. Handled' = Handled
  BY <1>1, <1>2 DEF Handled
<1>4. Follows'
  BY <1>1, <1>3, FollowsFrame DEF FlowInv
<1> QED
  BY <1>1, <1>2, <1>4 DEF FlowInv, Flow, Told

-----------------------------------------------------------------------------
LEMMA PoweredSelects ==
  ASSUME Init, Mbc5HasRam, NEW r, r = Bus!Powered
  PROVE  Selects(r)
<1>1. /\ cartridge \in Cartridges /\ ramReadCommands = RAM_DUMMY_READ
      /\ ramWriteCommands = RAM_DUMMY_WRITE /\ currentRegister = 0
      /\ bases = [romLow |-> Cell("rom", 0, 0), romHigh |-> Cell("rom", 1, 0),
                  ram |-> Cell("ram", 0, IF Mbc = 2 THEN TopPage ELSE 0),
                  latch |-> Cell("rtc", 0, 0)]
      /\ cpu = [romBank |-> 1, romBankLow |-> 1, romBankHigh |-> 0, ramBank |-> 0,
                modeSelect |-> FALSE, ramEnabled |-> FALSE, rtcLatch |-> FALSE]
  BY DEF Init
<1>2. /\ r.ram = 0 /\ r.low = 1 /\ r.high = 0 /\ r.upper = 0 /\ r.bank = 0
      /\ r.mode = 0 /\ r.clock = 0 /\ r \in Registers
  BY DEF Bus!Powered, Registers
<1>3. /\ cpu.romBank = 1 /\ cpu.romBankLow = 1 /\ cpu.romBankHigh = 0 /\ cpu.ramBank = 0
      /\ ~cpu.modeSelect /\ ~cpu.ramEnabled
  BY <1>1
<1>4. /\ bases.romLow = RomCell(0) /\ bases.latch = Cell("rtc", 0, 0)
      /\ bases.ram = Cell("ram", 0, IF Mbc = 2 THEN TopPage ELSE 0)
  BY <1>1 DEF RomCell
<1>5. /\ cartridge.romBanks \in Nat /\ cartridge.romBanks > 1
      /\ Mbc \in {0, 1, 2, 3, 5} /\ Mbc = cartridge.mbc
      /\ Mbc = 5 => cartridge.ramBanks \in Nat /\ cartridge.ramBanks > 0
  BY <1>1, CartridgeFacts DEF Mbc, Mbc5HasRam
<1>6. Bus!RomBank(cartridge, r) = 1
  <2>1. 1 % cartridge.romBanks = 1
    BY <1>5
  <2>2. /\ 1 % 32 = 1 /\ 0 % 2 = 0 /\ NonZero(1) = 1 /\ Bus!NonZero(1) = 1
    BY DEF NonZero, Bus!NonZero
  <2> QED
    BY <1>2, <1>5, <2>1, <2>2 DEF Bus!RomBank
<1>7. RomSelects(r)
  BY <1>2, <1>3, <1>4, <1>6 DEF RomSelects, NonZero
<1>8. ~Bus!RamIsOn(cartridge, r)
  BY <1>2 DEF Bus!RamIsOn
<1>9. bases.ram = Bus!RamCell(cartridge, r, 0)
  <2>1. Mbc = 5 => 0 % cartridge.ramBanks = 0
    BY <1>5
  <2> QED
    BY <1>2, <1>4, <1>5, <2>1 DEF Bus!RamCell, Cell
<1>10. RamSelects(r)
  BY <1>1, <1>2, <1>3, <1>8, <1>9 DEF RamSelects
<1>11. ClockSelects(r)
  BY <1>1, <1>2, <1>4 DEF ClockSelects, Bus!ClockCell, Cell
<1> QED
  BY <1>2, <1>7, <1>10, <1>11 DEF Selects

LEMMA FlowInit ==
  ASSUME Init, Mbc5HasRam
  PROVE  FlowInv
<1>1. bus.op = "none" /\ main = <<>> /\ written = Bus!Powered /\ wrote = Nothing
  BY DEF Init, DmaInit, NoCycle
<1>2. Follows
  <2>1. Handled = written
    BY <1>1 DEF Handled
  <2> QED
    BY <1>1, <2>1, PoweredSelects DEF Follows
<1> QED
  BY <1>1, <1>2 DEF FlowInv, Flow, Told

LEMMA FlowStep ==
  ASSUME Mbc5HasRam, MbcInv, CycleInv, OnlyIfGiven, FlowInv, [Next]_vars
  PROVE  FlowInv'
<1>1. CASE GameReads \/ GameWrites
  <2>1. cartridge \in Cartridges
    BY DEF MbcInv, CpuTypes
  <2>2. \/ \E area \in 0 .. 15 : \E page \in {0, TopPage} : BeginRead(area, page)
        \/ \E area \in 0 .. 15, page \in {0, TopPage}, odd \in BOOLEAN :
           \E data \in 0 .. 255 : BeginWrite(area, odd, page, data)
    BY <1>1, <2>1, GameCycles
  <2> QED
    BY <2>2, BeginReadFlow, BeginWriteFlow
<1>2. CASE HandleRead
  <2>1. main' = <<>> /\ bus.op = "read"
    BY <1>2, HandleReadCycle
  <2> QED
    BY <1>2, <2>1, FlowFrame DEF HandleRead, cpuVars, gameVars
<1>3. CASE StoreSaveGame
  BY <1>3, FlowFrame DEF StoreSaveGame, gameVars
<1>4. CASE UNCHANGED vars
  BY <1>4, FlowFrame DEF vars, cpuVars, gameVars
<1> QED
  BY <1>1, <1>2, <1>3, <1>4, PutDataFlow, DriveDataFlow, EndCycleFlow, WriteFlow,
     DmaFlow DEF Next

-----------------------------------------------------------------------------
(* The cartridge of CartridgeBus takes the step of the bus when the cycle  *)
(* begins and answers when it ends; whatever happens in between is hidden. *)

Seen ==
  IF bus = NoCycle THEN bus
  ELSE [op |-> IF bus.op = "read" THEN "read" ELSE "write",
        area |-> bus.area, odd |-> bus.odd, page |-> bus.page, data |-> bus.data]

LEMMA NotAtRest ==
  ASSUME Resting, NEW m \in Machines, NEW more \in {0, 1}
  PROVE  ~Waiting(m, more) /\ \A c, n : ~Stage(m, c, n, more)
<1>1. rx[m] = <<>> /\ Len(<<>>) = 0 /\ 1 + more # 0
  BY DEF Resting
<1>2. ~Waiting(m, more)
  BY <1>1 DEF Waiting, OnlyIn
<1>3. \A c, n : ~Stage(m, c, n, more)
  BY DEF Resting, Stage
<1> QED
  BY <1>2, <1>3

LEMMA BeginIsBegin ==
  ASSUME bus = NoCycle, NEW op \in {"read", "address"}, NEW area \in 0 .. 15,
         NEW odd \in BOOLEAN, NEW page \in {0, TopPage},
         NEW data \in {Nothing} \cup GameBytes,
         bus' = Cycle(op, area, odd, page, data), done' = Bus!Quiet,
         UNCHANGED <<cartridge, written>>
  PROVE  Bus!Begin
<1>1. /\ bus'.op = op /\ bus'.area = area /\ bus'.odd = odd /\ bus'.page = page
      /\ bus'.data = data
  BY DEF Cycle
<1>2. bus' # NoCycle
  BY <1>1 DEF NoCycle
<1> DEFINE kind == IF op = "read" THEN "read" ELSE "write"
<1>3. Seen' = [op |-> kind, area |-> area, odd |-> odd, page |-> page, data |-> data]
  BY <1>1, <1>2 DEF Seen
<1>4. kind \in {"read", "write"}
  OBVIOUS
<1> HIDE DEF kind
<1>5. Seen' \in [op: {"read", "write"}, area: 0 .. 15, odd: BOOLEAN,
                 page: {0, TopPage}, data: {Nothing} \cup GameBytes]
  BY <1>3, <1>4
<1>6. Seen = Bus!NoCycle
  BY DEF Seen, NoCycle, Bus!NoCycle
<1> QED
  BY <1>5, <1>6 DEF Bus!Begin, Bus!Cycles, Seen, GameBytes

LEMMA EndIsAnswer ==
  ASSUME MbcInv, CycleInv, FlowInv, EndCycle
  PROVE  Bus!Answer
<1>1. /\ bus.op \in {"read", "write"} /\ bus' = NoCycle
      /\ done' = [driven |-> bus.driven, wrote |-> wrote]
      /\ written' = IF bus.op = "write" THEN AfterCycle ELSE written
      /\ cartridge' = cartridge
  BY DEF EndCycle, AfterCycle
<1>2. main = <<>> /\ tx = <<>> /\ Resting
  BY EndCycleCycle
<1>3. Seen' = Bus!NoCycle
  BY <1>1 DEF Seen, NoCycle, Bus!NoCycle
<1>4. bus # NoCycle
  BY <1>1 DEF NoCycle
<1>5. Seen = [op |-> bus.op, area |-> bus.area, odd |-> bus.odd, page |-> bus.page,
              data |-> bus.data]
  BY <1>1, <1>4 DEF Seen
<1>6. /\ Seen.op = bus.op /\ Seen.area = bus.area /\ Seen.odd = bus.odd
      /\ Seen.page = bus.page /\ Seen.data = bus.data /\ Seen # Bus!NoCycle
  <2>1. Seen.op = bus.op
    BY <1>5
  <2> QED
    BY <1>1, <1>5, <2>1 DEF Bus!NoCycle
<1>7. CASE bus.op = "read"
  <2>1. \A m \in Reads : ~Reading(m)
    BY <1>2, NotAtRest DEF Reading, Reads, ForRom, Machines
  <2>2. bus.driven = Answer /\ wrote = Nothing
    BY <1>2, <1>7, <2>1 DEF FlowInv, Flow, Answered
  <2>3. done' = [Bus!Quiet EXCEPT !.driven = Bus!Drives(cartridge, written, Seen.area, Seen.page)]
    BY <1>1, <1>6, <2>2 DEF Answer, Bus!Quiet
  <2>4. written' = written
    BY <1>1, <1>7
  <2> QED
    BY <1>1, <1>3, <1>6, <1>7, <2>3, <2>4 DEF Bus!Answer, Seen
<1>8. CASE bus.op = "write"
  <2> DEFINE stored == IF bus.area \in {10, 11} THEN Stored ELSE Nothing
  <2>1. wrote = stored /\ bus.driven = Nothing
    <3>1. CASE WritesRam
      <4>1. ~Writing
        BY <1>2, NotAtRest DEF Writing, More, Machines
      <4>2. WrittenThrough
        BY <1>8, <3>1, <4>1 DEF FlowInv, Flow
      <4> QED
        BY <1>2, <1>8, <3>1, <4>2 DEF WrittenThrough, WritesRam, InRam, FlowInv, Flow
    <3>2. CASE ~WritesRam
      <4>1. wrote = Nothing /\ bus.driven = Nothing
        BY <1>8, <3>2 DEF FlowInv, Flow
      <4>2. bus.area \in {10, 11} => Stored = Nothing
        BY <1>8, <3>2 DEF WritesRam, InRam, Mbc, Stored, Bus!Stores, Bus!RamIsOn
      <4> QED
        BY <4>1, <4>2
    <3> QED
      BY <3>1, <3>2
  <2> HIDE DEF stored
  <2>2. done' = [Bus!Quiet EXCEPT !.wrote = stored]
    BY <1>1, <2>1 DEF Bus!Quiet
  <2>3. stored = IF Seen.area \in {10, 11}
                 THEN Bus!Stores(cartridge, written, Seen.page, Seen.data) ELSE Nothing
    BY <1>6 DEF stored, Stored
  <2>4. written' = Bus!Written(cartridge, written, Seen.area, Seen.odd, Seen.data)
    BY <1>1, <1>6, <1>8 DEF AfterCycle
  <2> QED
    BY <1>1, <1>3, <1>6, <1>8, <2>2, <2>3, <2>4 DEF Bus!Answer, Seen
<1> QED
  BY <1>1, <1>7, <1>8

LEMMA BusStep ==
  ASSUME MbcInv, CycleInv, FlowInv, [Next]_vars
  PROVE  [Bus!Next]_(Bus!vars)
<1>1. ASSUME Seen' = Seen, UNCHANGED <<cartridge, written, done>>
      PROVE  UNCHANGED Bus!vars
  BY <1>1 DEF Bus!vars, Seen
<1>2. CASE GameReads \/ GameWrites
  <2>1. cartridge \in Cartridges /\ FALSE \in BOOLEAN
    BY DEF MbcInv, CpuTypes
  <2>2. ASSUME NEW area \in 0 .. 15, NEW page \in {0, TopPage}, BeginRead(area, page)
        PROVE  Bus!Begin
    <3>1. /\ bus = NoCycle /\ bus' = Cycle("read", area, FALSE, page, Nothing)
          /\ done' = Bus!Quiet /\ UNCHANGED <<cartridge, written>>
      BY <2>2 DEF BeginRead
    <3> QED
      BY <2>1, <3>1, BeginIsBegin
  <2>3. ASSUME NEW area \in 0 .. 15, NEW page \in {0, TopPage}, NEW odd \in BOOLEAN,
               NEW data \in GameBytes, BeginWrite(area, odd, page, data)
        PROVE  Bus!Begin
    <3>1. /\ bus = NoCycle /\ bus' = Cycle("address", area, odd, page, data)
          /\ done' = Bus!Quiet /\ UNCHANGED <<cartridge, written>>
      BY <2>3 DEF BeginWrite
    <3> QED
      BY <3>1, BeginIsBegin
  <2>4. \/ \E area \in 0 .. 15 : \E page \in {0, TopPage} : BeginRead(area, page)
        \/ \E area \in 0 .. 15, page \in {0, TopPage}, odd \in BOOLEAN :
           \E data \in GameBytes : BeginWrite(area, odd, page, data)
    BY <1>2, <2>1, GameCycles
  <2> QED
    BY <2>2, <2>3, <2>4 DEF Bus!Next
<1>3. CASE PutData
  <2>1. /\ bus.op = "address" /\ bus' = [bus EXCEPT !.op = "write"]
        /\ UNCHANGED <<cartridge, written, done>> /\ DOMAIN bus = BusFields
    BY <1>3 DEF PutData, CycleInv
  <2>2. /\ bus'.op = "write" /\ bus'.area = bus.area /\ bus'.odd = bus.odd
        /\ bus'.page = bus.page /\ bus'.data = bus.data
    BY <2>1 DEF BusFields
  <2>3. bus # NoCycle /\ bus' # NoCycle
    BY <2>1, <2>2 DEF NoCycle
  <2>4. Seen' = Seen
    BY <2>1, <2>2, <2>3 DEF Seen
  <2> QED
    BY <1>1, <2>1, <2>4
<1>4. CASE DriveData
  <2>1. /\ bus.op = "read" /\ bus' = [bus EXCEPT !.driven = Head(tx)]
        /\ UNCHANGED <<cartridge, written, done>> /\ DOMAIN bus = BusFields
    BY <1>4 DEF DriveData, CycleInv
  <2>2. /\ bus'.op = "read" /\ bus'.area = bus.area /\ bus'.odd = bus.odd
        /\ bus'.page = bus.page /\ bus'.data = bus.data
    BY <2>1 DEF BusFields
  <2>3. bus # NoCycle /\ bus' # NoCycle
    BY <2>1, <2>2 DEF NoCycle
  <2>4. Seen' = Seen
    BY <2>1, <2>2, <2>3 DEF Seen
  <2> QED
    BY <1>1, <2>1, <2>4
<1>5. CASE EndCycle
  BY <1>5, EndIsAnswer DEF Bus!Next
<1>6. ASSUME UNCHANGED gameVars
      PROVE  UNCHANGED Bus!vars
  BY <1>1, <1>6 DEF gameVars, Seen
<1>7. Write => UNCHANGED gameVars
  BY DEF Write, Mbc1, Mbc1EnableRam, Mbc1LowBits, Mbc1HighBits, Mbc1Mode,
         Mbc2, Mbc2EnableRam, Mbc2RomBank,
         Mbc3, Mbc3EnableRam, Mbc3RomBank, Mbc3RamBank, Mbc3Latch, Mbc3RamWritten,
         Mbc5, Mbc5EnableRam, Mbc5LowBits, Mbc5NinthBit, Mbc5RamBank,
         RamWritten, Ignored, HandleWrite
<1>8. CASE HandleRead \/ Write \/ Dma \/ StoreSaveGame \/ UNCHANGED vars
  BY <1>6, <1>7, <1>8 DEF HandleRead, Dma, StoreSaveGame, vars
<1> QED
  BY <1>2, <1>3, <1>4, <1>5, <1>8 DEF Next

(***************************************************************************)
(* For every cartridge and whatever a game writes: the main loop, which    *)
(* switches bases and chains some time after the write, and the channels,  *)
(* which use them, are to the Game Boy the cartridge that answers each     *)
(* cycle at once (the loops of mbc.c, the chains of GbDma.c).              *)
(***************************************************************************)
THEOREM MbcImplementsBus ==
  ASSUME Mbc5HasRam
  PROVE  Spec => ImplementsBus
<1> DEFINE Inv == MbcInv /\ CycleInv /\ OnlyIfGiven /\ FlowInv
<1>1. Init => Inv
  BY InitSafe, CycleInit, FlowInit
<1>2. Inv /\ [Next]_vars => Inv'
  BY StepSafe, CycleStep, FlowStep
<1>3. Init => Bus!Init
  BY DEF Init, Bus!Init, NoCycle, Bus!NoCycle
<1>4. Inv /\ [Next]_vars => [Bus!Next]_(Bus!vars)
  BY BusStep
<1> QED
  BY <1>1, <1>2, <1>3, <1>4, PTL DEF Spec, ImplementsBus, Bus!Spec
=============================================================================
