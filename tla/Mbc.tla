-------------------------------- MODULE Mbc ---------------------------------
(***************************************************************************)
(* A game with a memory bank controller (mbc.c): the Game Boy's bus cycles *)
(* go through the FIFOs to the main loop of the controller, which follows  *)
(* the game's writes to the ROM's addresses and switches the bases and     *)
(* chains that the DMA channels (GbDma) use for the next access.           *)
(*                                                                         *)
(* A cycle takes the Game Boy a microsecond or half of one, for which the  *)
(* RP2040 has more than a hundred cycles of its own: the next one begins   *)
(* when everything has come to rest. Within a cycle main loop and DMA      *)
(* channels run in any order.                                              *)
(***************************************************************************)
EXTENDS GbDma

CONSTANTS
  Cartridges,       \* controllers, with the number of ROM and RAM banks
  DataFor,          \* for each controller and area, the data a game writes
  GB_MAX_RAM_BANKS  \* banks of ram_memory

(* The masks for bank numbers are remainders as the header knows only these *)
(* numbers of banks.                                                       *)
ASSUME MbcAssumption ==
  /\ \A c \in Cartridges :
       /\ c.mbc \in {0, 1, 2, 3, 5} \cap DOMAIN DataFor
       /\ c.romBanks \in {2, 4, 8, 16, 32, 64, 128, 256, 512}
       /\ c.ramBanks \in {0, 1, 2, 4, 8, 16} /\ c.ramBanks <= GB_MAX_RAM_BANKS
  /\ GB_MAX_RAM_BANKS \in Nat /\ GB_MAX_RAM_BANKS >= 4
  /\ \A m \in DOMAIN DataFor : DOMAIN DataFor[m] \subseteq 0 .. 15
  /\ \A m \in DOMAIN DataFor : \A area \in DOMAIN DataFor[m] :
       DataFor[m][area] \subseteq 0 .. 255
  /\ TopPage # 0

VARIABLES
  cartridge,        \* the controller, _numRomBanks and _numRamBanks
  cpu,              \* local variables of the main loop
  currentRegister,  \* _currentRegister
  ramDirty,         \* _ramDirty
  led,              \* colour of the LED
  main,             \* FIFO of SMC_GB_MAIN
  bus,              \* the cycle under way
  written,          \* what the game last wrote to each register
  done,             \* what the last cycle drove on the data bus, and wrote
  unsaved           \* the halves of the RAM written since it was stored

cpuVars == <<cpu, currentRegister, ramDirty, led>>
gameVars == <<cartridge, bus, written, done>>
vars == <<switchVars, dmaVars, cpuVars, main, gameVars, unsaved>>

NoCycle == [op |-> "none"]
Cycle(op, area, odd, page, data) ==
  [op |-> op, area |-> area, odd |-> odd, page |-> page, data |-> data,
   driven |-> Nothing]

Bus ==
  INSTANCE CartridgeBus WITH
    registers <- written,
    bus <- IF bus = NoCycle THEN bus
           ELSE [op |-> IF bus.op = "read" THEN "read" ELSE "write",
                 area |-> bus.area, odd |-> bus.odd, page |-> bus.page,
                 data |-> bus.data],
    Values <- {Nothing} \cup
              UNION {UNION {DataFor[m][a] : a \in DOMAIN DataFor[m]} :
                       m \in DOMAIN DataFor}

InRam(area) == area \in {10, 11}
Mbc == cartridge.mbc

(***************************************************************************)
(* The main loop of each controller as it is when the Game Boy is let go:  *)
(* RAM is disabled, and the base of an MBC2 is the end of a bank.          *)
(***************************************************************************)
Init ==
  /\ cartridge \in Cartridges
  /\ DmaInit
  /\ ramReadCommands = RAM_DUMMY_READ
  /\ ramWriteCommands = RAM_DUMMY_WRITE
  /\ bases = [romLow |-> Cell("rom", 0, 0), romHigh |-> Cell("rom", 1, 0),
              ram |-> Cell("ram", 0, IF Mbc = 2 THEN TopPage ELSE 0),
              latch |-> Cell("rtc", 0, 0)]
  /\ cpu = [romBank |-> 1, romBankLow |-> 1, romBankHigh |-> 0, ramBank |-> 0,
            modeSelect |-> FALSE, ramEnabled |-> FALSE, rtcLatch |-> FALSE]
  /\ currentRegister = 0
  /\ ramDirty = FALSE
  /\ led = "off"
  /\ main = <<>>
  /\ bus = NoCycle
  /\ written = Bus!Powered
  /\ done = Bus!Quiet
  /\ unsaved = {}

-----------------------------------------------------------------------------
(* The Game Boy's bus cycles, as the state machines of the PIOs see them.  *)
(* Without a controller those of the main loop and of the RAM are stopped. *)

Pushed(fifo, word) == IF Mbc = 0 THEN fifo ELSE Append(fifo, word)

BeginRead(area, page) ==
  /\ bus = NoCycle
  /\ done' = Bus!Quiet
  /\ bus' = Cycle("read", area, FALSE, page, Nothing)
  /\ main' = Pushed(main, [write |-> FALSE, area |-> area, odd |-> FALSE])
  /\ rx' = CASE area \in 0 .. 3 -> [rx EXCEPT !["romLow"] = Append(@, page)]
             [] area \in 4 .. 7 -> [rx EXCEPT !["romHigh"] = Append(@, page)]
             [] InRam(area) -> [rx EXCEPT !["ramRead"] = Pushed(@, page)]
             [] OTHER -> rx
  /\ UNCHANGED <<switchVars, tx, armed, chain, accessor, wrote, cpuVars,
                 cartridge, written, unsaved>>

BeginWrite(area, odd, page, data) ==
  /\ bus = NoCycle
  /\ done' = Bus!Quiet
  /\ bus' = Cycle("address", area, odd, page, data)
  /\ main' = Pushed(main, [write |-> TRUE, area |-> area, odd |-> odd])
  /\ rx' = IF InRam(area) THEN [rx EXCEPT !["ramWrite"] = Pushed(@, page)]
                          ELSE rx
  /\ UNCHANGED <<switchVars, tx, armed, chain, accessor, wrote, cpuVars,
                 cartridge, written, unsaved>>

(* The data follows the address at the falling edge of the clock. *)
PutData ==
  /\ bus.op = "address"
  /\ bus' = [bus EXCEPT !.op = "write"]
  /\ main' = Pushed(main, bus.data)
  /\ rx' = IF InRam(bus.area)
           THEN [rx EXCEPT !["ramWrite"] = Pushed(@, bus.data)] ELSE rx
  /\ UNCHANGED <<switchVars, tx, armed, chain, accessor, wrote, cpuVars,
                 cartridge, written, done, unsaved>>

(* SMC_GB_WRITE_DATA puts a word of its FIFO on the data bus. *)
DriveData ==
  /\ tx # <<>>
  /\ bus.op = "read"
  /\ tx' = Tail(tx)
  /\ bus' = [bus EXCEPT !.driven = Head(tx)]
  /\ UNCHANGED <<switchVars, rx, armed, chain, accessor, wrote, cpuVars, main,
                 cartridge, written, done, unsaved>>

CpuCanStep == main # <<>> /\ (main[1].write => Len(main) > 1)
AtRest == tx = <<>> /\ ~DmaCanStep /\ ~CpuCanStep

EndCycle ==
  /\ bus.op \in {"read", "write"}
  /\ AtRest
  /\ bus' = NoCycle
  /\ done' = [driven |-> bus.driven, wrote |-> wrote]
  /\ wrote' = Nothing
  /\ written' = IF bus.op = "write"
                THEN Bus!Written(cartridge, written, bus.area, bus.odd, bus.data)
                ELSE written
  /\ UNCHANGED <<switchVars, rx, tx, armed, chain, accessor, cpuVars, main,
                 cartridge, unsaved>>

-----------------------------------------------------------------------------
(* The main loops. Each takes a cycle from the FIFO, for a write with the  *)
(* data that follows.                                                      *)

Take(n) == main' = SubSeq(main, n + 1, Len(main))
Data == main[2]

HandleRead ==
  /\ main # <<>>
  /\ ~main[1].write
  /\ Take(1)
  /\ UNCHANGED <<switchVars, dmaVars, cpuVars, gameVars, unsaved>>

HandleWrite(mbc, areas) ==
  /\ Mbc = mbc
  /\ CpuCanStep
  /\ main[1].write
  /\ main[1].area \in areas
  /\ Take(2)
  /\ UNCHANGED <<rx, tx, armed, chain, accessor, gameVars, unsaved>>

RamSwitchesStay == UNCHANGED <<ramReadCommands, ramWriteCommands>>
NotDirtied == UNCHANGED <<ramDirty, led>>

SwitchRam(on) ==
  IF on THEN GbDma_EnableSaveRam ELSE GbDma_DisableSaveRam

(* A write to RAM; the DMA channels store it. *)
MarkDirty ==
  IF ~ramDirty /\ cpu.ramEnabled
  THEN ramDirty' = TRUE /\ led' = "red"
  ELSE NotDirtied

RamWritten(mbc, areas) ==
  /\ HandleWrite(mbc, areas)
  /\ MarkDirty
  /\ UNCHANGED <<switchVars, wrote, cpu, currentRegister>>

Ignored(mbc, areas) ==
  /\ HandleWrite(mbc, areas)
  /\ UNCHANGED <<switchVars, wrote, cpuVars>>

RomCell(bank) == Cell("rom", bank, 0)
RamBase(bank) == Cell("ram", bank, 0)
NonZero(bank) == IF bank = 0 THEN 1 ELSE bank

-----------------------------------------------------------------------------
(* MBC1: after each write the bank is put together and compared. *)

(* Wrong: bits beyond the ROM are kept. *)
Mbc1Bank_NoMask(c) ==
  c.romBankLow + IF c.modeSelect THEN 0 ELSE 32 * c.romBankHigh

Mbc1Bank(c) ==
  (c.romBankLow + IF c.modeSelect THEN 0 ELSE 32 * c.romBankHigh)
  % cartridge.romBanks

Mbc1Switch(c, ram) ==
  /\ cpu' = [c EXCEPT !.romBank = Mbc1Bank(c)]
  /\ bases' = [bases EXCEPT
                 !.ram = ram,
                 !.romHigh = IF Mbc1Bank(c) = cpu.romBank THEN @
                             ELSE RomCell(Mbc1Bank(c))]
  /\ NotDirtied
  /\ UNCHANGED <<currentRegister, wrote>>

Mbc1EnableRam ==
  /\ HandleWrite(1, {0, 1})
  /\ SwitchRam(Data % 16 = 10)
  /\ Mbc1Switch([cpu EXCEPT !.ramEnabled = Data % 16 = 10], bases.ram)

Mbc1LowBits ==
  /\ HandleWrite(1, {2, 3})
  /\ Mbc1Switch([cpu EXCEPT !.romBankLow = NonZero(Data % 32)], bases.ram)
  /\ RamSwitchesStay

Mbc1HighBits ==
  /\ HandleWrite(1, {4, 5})
  /\ \/ /\ cpu.modeSelect
        /\ Mbc1Switch([cpu EXCEPT !.ramBank = Data % 4], RamBase(Data % 4))
     \/ /\ ~cpu.modeSelect
        /\ Mbc1Switch([cpu EXCEPT !.romBankHigh = Data % 4], bases.ram)
  /\ RamSwitchesStay

Mbc1Mode ==
  /\ HandleWrite(1, {6, 7})
  /\ Mbc1Switch([cpu EXCEPT !.modeSelect = Data % 2 = 1], bases.ram)
  /\ RamSwitchesStay

Mbc1 == Mbc1EnableRam \/ Mbc1LowBits \/ Mbc1HighBits \/ Mbc1Mode

-----------------------------------------------------------------------------
(* MBC2: A8 tells the two registers apart. *)

Mbc2EnableRam ==
  /\ HandleWrite(2, 0 .. 3)
  /\ ~main[1].odd
  /\ cpu' = [cpu EXCEPT !.ramEnabled = Data = 10]
  /\ SwitchRam(Data = 10)
  /\ NotDirtied
  /\ UNCHANGED <<bases, currentRegister, wrote>>

SwitchRom(bank) ==
  /\ cpu' = [cpu EXCEPT !.romBank = bank]
  /\ bases' = [bases EXCEPT !.romHigh = RomCell(bank)]
  /\ RamSwitchesStay
  /\ NotDirtied
  /\ UNCHANGED <<currentRegister, wrote>>

Mbc2RomBank ==
  /\ HandleWrite(2, 0 .. 3)
  /\ main[1].odd
  /\ SwitchRom(NonZero(Data % cartridge.romBanks))

Mbc2 == Mbc2EnableRam \/ Mbc2RomBank

-----------------------------------------------------------------------------
(* MBC3: with bit 3 of the RAM bank set, a clock register takes its place. *)

IsClock(bank) == (bank \div 8) % 2 = 1

Mbc3EnableRam ==
  /\ HandleWrite(3, {0, 1})
  /\ cpu' = [cpu EXCEPT !.ramEnabled = Data % 16 = 10]
  /\ IF Data % 16 = 10 /\ IsClock(cpu.ramBank)
     THEN GbDma_EnableRtc ELSE SwitchRam(Data % 16 = 10)
  /\ NotDirtied
  /\ UNCHANGED <<bases, currentRegister, wrote>>

Mbc3RomBank ==
  /\ HandleWrite(3, {2, 3})
  /\ SwitchRom(NonZero(Data % cartridge.romBanks))

GbRtc_ActivateRegister(register) ==
  IF register >= 5 THEN UNCHANGED <<bases, currentRegister>>
  ELSE /\ bases' = [bases EXCEPT !.latch = Cell("rtc", register, 0)]
       /\ currentRegister' = register

Mbc3RamBank ==
  /\ HandleWrite(3, {4, 5})
  /\ cpu' = [cpu EXCEPT !.ramBank = Data]
  /\ \/ /\ IsClock(Data)
        /\ GbRtc_ActivateRegister(Data % 8)
        /\ IF cpu.ramEnabled THEN GbDma_EnableRtc ELSE RamSwitchesStay
     \/ /\ ~IsClock(Data)
        /\ bases' = [bases EXCEPT !.ram = RamBase(Data % 4)]
        /\ IF cpu.ramEnabled THEN GbDma_EnableSaveRam ELSE RamSwitchesStay
        /\ UNCHANGED currentRegister
  /\ NotDirtied
  /\ UNCHANGED wrote

(* The main loop itself writes to the clock; RAM is left to the DMA. *)
Mbc3RamWritten ==
  /\ HandleWrite(3, {10, 11})
  /\ IF cpu.ramEnabled /\ IsClock(cpu.ramBank)
     THEN /\ wrote' = [cell |-> Cell("rtc", currentRegister, 0), data |-> Data]
          /\ NotDirtied
     ELSE MarkDirty /\ UNCHANGED wrote
  /\ UNCHANGED <<switchVars, cpu, currentRegister>>

(* The clock's registers are copied as well (GbRtc). *)
Mbc3Latch ==
  /\ HandleWrite(3, {6, 7})
  /\ cpu' = [cpu EXCEPT !.rtcLatch = Data # 0]
  /\ UNCHANGED <<switchVars, wrote, currentRegister, ramDirty, led>>

Mbc3 ==
  Mbc3EnableRam \/ Mbc3RomBank \/ Mbc3RamBank \/ Mbc3Latch \/ Mbc3RamWritten

-----------------------------------------------------------------------------
(* MBC5: nine bits of ROM bank in two registers, and as many RAM banks as  *)
(* the game has.                                                           *)

Mbc5EnableRam ==
  /\ HandleWrite(5, {0, 1})
  /\ cpu' = [cpu EXCEPT !.ramEnabled = Data % 16 = 10]
  /\ SwitchRam(Data % 16 = 10)
  /\ NotDirtied
  /\ UNCHANGED <<bases, currentRegister, wrote>>

Mbc5LowBits ==
  /\ HandleWrite(5, {2})
  /\ SwitchRom((256 * (cpu.romBank \div 256) + Data) % cartridge.romBanks)

Mbc5NinthBit ==
  /\ HandleWrite(5, {3})
  /\ SwitchRom(((cpu.romBank % 256) + 256 * (Data % 2)) % cartridge.romBanks)

(* _numRamBanks - 1 as a byte: a game without RAM keeps all bits. *)
Mbc5RamBank ==
  /\ HandleWrite(5, {4})
  /\ LET bank == IF cartridge.ramBanks = 0 THEN Data ELSE Data % cartridge.ramBanks
     IN /\ cpu' = [cpu EXCEPT !.ramBank = bank]
        /\ bases' = [bases EXCEPT !.ram = RamBase(bank)]
  /\ RamSwitchesStay
  /\ NotDirtied
  /\ UNCHANGED <<currentRegister, wrote>>

Mbc5 == Mbc5EnableRam \/ Mbc5LowBits \/ Mbc5NinthBit \/ Mbc5RamBank

-----------------------------------------------------------------------------
Write ==
  \/ Mbc1 \/ Mbc2 \/ Mbc3 \/ Mbc5
  \/ RamWritten(1, {10, 11}) \/ RamWritten(2, {10, 11}) \/ RamWritten(5, {10})
  \/ Ignored(1, {8, 9} \cup 12 .. 15)
  \/ Ignored(2, 4 .. 9 \cup 12 .. 15)
  \/ Ignored(3, {8, 9} \cup 12 .. 15)
  \/ Ignored(5, 5 .. 9 \cup 11 .. 15)

(* Wrong: the RAM stays marked. *)
StoreSaveGame_StaysDirty ==
  /\ bus = NoCycle
  /\ Mbc # 0
  /\ led' = "green"
  /\ unsaved' = {}
  /\ UNCHANGED <<switchVars, dmaVars, cpu, currentRegister, ramDirty, main, gameVars>>

(* storeCurrentlyRunningSaveGame, when the Game Boy waits in the hook. *)
StoreSaveGame ==
  /\ bus = NoCycle
  /\ Mbc # 0
  /\ led' = "green"
  /\ ramDirty' = FALSE
  /\ unsaved' = {}
  /\ UNCHANGED <<switchVars, dmaVars, cpu, currentRegister, main, gameVars>>

Dma ==
  /\ DmaStep
  /\ unsaved' = IF wrote' # wrote THEN unsaved \cup {bus.area} ELSE unsaved
  /\ UNCHANGED <<switchVars, cpuVars, main, gameVars>>

(* Which cycles the games make. An MBC1 and an MBC3 have room for four     *)
(* banks of RAM: a game that has fewer selects only its own.               *)
OwnBank(area, data) ==
  area \in {4, 5} /\ (IF Mbc = 1 THEN cpu.modeSelect ELSE Mbc = 3 /\ ~IsClock(data))
    => data % 4 < cartridge.ramBanks

GameReads ==
  \E area \in DOMAIN DataFor[Mbc] : 
    \E page \in IF InRam(area) THEN {0, TopPage} ELSE {0} : BeginRead(area, page)

GameWrites ==
  \E area \in DOMAIN DataFor[Mbc] : \E data \in DataFor[Mbc][area] :
    /\ OwnBank(area, data)
    /\ \E page \in IF InRam(area) THEN {0, TopPage} ELSE {0},
          odd \in IF Mbc = 2 THEN BOOLEAN ELSE {FALSE} :
         BeginWrite(area, odd, page, data)

Next ==
  \/ GameReads \/ GameWrites \/ PutData \/ DriveData \/ EndCycle
  \/ HandleRead \/ Write \/ Dma \/ StoreSaveGame

Spec == Init /\ [][Next]_vars

-----------------------------------------------------------------------------
(* The values of the state. *)
TypeOK ==
  /\ cartridge \in Cartridges
  /\ cpu.romBank \in 0 .. cartridge.romBanks - 1
  /\ cpu.romBankLow \in 1 .. 31
  /\ cpu.romBankHigh \in 0 .. 3
  /\ cpu.ramBank \in 0 .. 255
  /\ cpu.modeSelect \in BOOLEAN
  /\ cpu.ramEnabled \in BOOLEAN
  /\ cpu.rtcLatch \in BOOLEAN
  /\ currentRegister \in 0 .. 4
  /\ ramDirty \in BOOLEAN
  /\ led \in {"off", "red", "green"}
  /\ bases.romHigh = RomCell(cpu.romBank)
  /\ bases.ram.bank \in 0 .. GB_MAX_RAM_BANKS - 1
  /\ armed \subseteq Machines

(***************************************************************************)
(* Between cycles nothing is left of the last one: each channel waits for  *)
(* a word, and each FIFO is empty. A word left in one would be taken for   *)
(* the address of the next access, and shift every access after it.        *)
(***************************************************************************)
ReadyForNext ==
  bus = NoCycle =>
    /\ armed = Machines
    /\ \A m \in Machines : rx[m] = <<>>
    /\ tx = <<>> /\ main = <<>> /\ chain = <<>>
    /\ ~accessor.busy

(* The main loop of the MBC5 looks at writes to 0xA000-0xAFFF only, though *)
(* the channel writes the upper half of the RAM as well.                   *)
Unwatched == IF Mbc = 5 THEN {11} ELSE {}

(***************************************************************************)
(* The LED is red whenever RAM was written and not stored since, though    *)
(* the main loop that lights it and the channel that writes share nothing. *)
(* The exception, against Readme.md, is a game on an MBC5 that has written *)
(* nothing but the upper half.                                             *)
(***************************************************************************)
UnsavedIsRed ==
  bus = NoCycle /\ ~(unsaved \subseteq Unwatched) => ramDirty /\ led = "red"

(***************************************************************************)
(* Main loop and DMA channels together are the cartridge that answers each *)
(* cycle at once: the bank, the cell or the clock register that the game   *)
(* has selected, and nothing while RAM is disabled.                        *)
(***************************************************************************)
ImplementsBus == Bus!Spec
=============================================================================
