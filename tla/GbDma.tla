------------------------------- MODULE GbDma --------------------------------
(***************************************************************************)
(* The DMA channels that answer the Game Boy's bus (GbDma.c). A state      *)
(* machine of the PIOs puts the address of an access in its FIFO; this     *)
(* starts a chain of commands, each of which moves one word, mostly to the *)
(* registers of the channel that makes the access in the end.              *)
(*                                                                         *)
(* Loader and executor trigger each other and are one step here, as are    *)
(* the channels that serve the ROM, which always run through one after the *)
(* other.                                                                  *)
(***************************************************************************)
EXTENDS Naturals, Sequences

CONSTANTS
  Nothing,  \* no write
  TopPage   \* see Or

VARIABLES
  ramReadCommands,   \* _ramReadCommands: the chain for a read from RAM
  ramWriteCommands,  \* _ramWriteCommands: the chain for a write to RAM
  bases,             \* rom_low_base, rom_high_base_flash_direct, ram_base and
                     \* _rtcLatchPtr
  rx,                \* receive FIFOs of the state machines
  tx,                \* transmit FIFO of SMC_GB_WRITE_DATA
  armed,             \* channels that wait for a word in their FIFO
  chain,             \* the chain that is executed and the next command
  accessor,          \* MEMORY_ACCESSOR, or its like that serves the ROM
  wrote              \* what was written last

switchVars == <<ramReadCommands, ramWriteCommands, bases>>
dmaVars == <<rx, tx, armed, chain, accessor, wrote>>

Machines == {"romLow", "romHigh", "ramRead", "ramWrite"}

Cell(mem, bank, page) == [mem |-> mem, bank |-> bank, page |-> page]

TxFifo == Cell("txFifo", 0, 0)
RxFifoRamWrite == Cell("rxFifoRamWrite", 0, 0)
DevNull == Cell("devNull", 0, 0)
Address(word) == Cell("address", 0, word)

(* An aligned base and an address, whose lines a base of MBC2 sets to 1. *)
Or(base, address) ==
  [base EXCEPT !.page = IF base.page = TopPage THEN TopPage ELSE address.page]

-----------------------------------------------------------------------------
(* The chains: what each command reads and where it writes. *)

Cmd(from, to) == [from |-> from, to |-> to]

LOWER_ROM_READ == << Cmd("rxRomLow", "read"), Cmd("rom_low_base", "readOrGo") >>

DIRECT_SSI == << Cmd("rxRomHigh", "read"), Cmd("rom_high_base", "readOrGo") >>

RAM_READ == << Cmd("RAM_READ_DMA_CTRL", "ctrl"), Cmd("txFifo", "write"),
               Cmd("rxRamRead", "read"), Cmd("ram_base", "readOrGo") >>

(* Wrong: the address is not or-ed with the base. *)
RAM_WRITE_NoBase ==
  << Cmd("RAM_WRITE_DMA_CTRL", "ctrl"), Cmd("rxRamWrite", "write"),
     Cmd("ram_base", "write"), Cmd("rxFifoRamWrite", "readGo") >>

RAM_WRITE == << Cmd("RAM_WRITE_DMA_CTRL", "ctrl"), Cmd("rxRamWrite", "write"),
                Cmd("ram_base", "writeOr"), Cmd("rxFifoRamWrite", "readGo") >>

RAM_DUMMY_READ ==
  << Cmd("RAM_READ_DMA_CTRL", "ctrl"), Cmd("devNullPtr", "write"),
     Cmd("rxRamRead", "read"), Cmd("ram_base", "readOrGo") >>

RAM_DUMMY_WRITE ==
  << Cmd("RAM_WRITE_DMA_CTRL", "ctrl"), Cmd("rxRamWrite", "devNull"),
     Cmd("devNullPtr", "write"), Cmd("rxFifoRamWrite", "readGo") >>

RTC_READ == << Cmd("RAM_READ_DMA_CTRL", "ctrl"), Cmd("txFifo", "write"),
               Cmd("rxRamRead", "devNull"), Cmd("rtcLatchPtr", "readGo") >>

-----------------------------------------------------------------------------
Idle == [chainTo |-> "romLow", paced |-> FALSE, read |-> DevNull,
         write |-> DevNull, busy |-> FALSE]

(* No access is under way, and each channel waits for the first. *)
DmaInit ==
  /\ rx = [m \in Machines |-> <<>>]
  /\ tx = <<>>
  /\ armed = Machines
  /\ chain = <<>>
  /\ accessor = Idle
  /\ wrote = Nothing

GbDma_EnableSaveRam ==
  /\ ramReadCommands' = RAM_READ
  /\ ramWriteCommands' = RAM_WRITE

GbDma_DisableSaveRam ==
  /\ ramReadCommands' = RAM_DUMMY_READ
  /\ ramWriteCommands' = RAM_DUMMY_WRITE

GbDma_EnableRtc ==
  /\ ramReadCommands' = RTC_READ
  /\ ramWriteCommands' = RAM_DUMMY_WRITE

-----------------------------------------------------------------------------
(* The channel that waits for a word triggers the loader; the channels for *)
(* the ROM keep their settings.                                            *)
CanRequest(m) == m \in armed /\ rx[m] # <<>> /\ chain = <<>>

Request(m) ==
  /\ CanRequest(m)
  /\ armed' = armed \ {m}
  /\ chain' = CASE m = "romLow" -> LOWER_ROM_READ
                [] m = "romHigh" -> DIRECT_SSI
                [] m = "ramRead" -> ramReadCommands
                [] m = "ramWrite" -> ramWriteCommands
  /\ accessor' = IF m \in {"romLow", "romHigh"}
                 THEN [Idle EXCEPT !.chainTo = m, !.write = TxFifo]
                 ELSE accessor
  /\ UNCHANGED <<rx, tx, wrote>>

FifoOf == [rxRomLow |-> "romLow", rxRomHigh |-> "romHigh",
           rxRamRead |-> "ramRead", rxRamWrite |-> "ramWrite"]

(* What a command reads: a word of a FIFO, or a variable that holds a base *)
(* or the address of a register.                                           *)
Value(from) ==
  CASE from \in DOMAIN FifoOf -> Address(Head(rx[FifoOf[from]]))
    [] from = "rom_low_base" -> bases.romLow
    [] from = "rom_high_base" -> bases.romHigh
    [] from = "ram_base" -> bases.ram
    [] from = "rtcLatchPtr" -> bases.latch
    [] from = "txFifo" -> TxFifo
    [] from = "rxFifoRamWrite" -> RxFifoRamWrite
    [] from = "devNullPtr" -> DevNull

(* Wrong: a write arms the channel for reads. *)
Controlled_ChainsToRead(a, from) ==
  [a EXCEPT !.chainTo = "ramRead", !.paced = from = "RAM_WRITE_DMA_CTRL"]

(* The settings of the access: the channel to arm again, and whether it    *)
(* waits for the data of a write.                                          *)
Controlled(a, from) ==
  IF from = "RAM_READ_DMA_CTRL"
  THEN [a EXCEPT !.chainTo = "ramRead", !.paced = FALSE]
  ELSE [a EXCEPT !.chainTo = "ramWrite", !.paced = TRUE]

(* What a command does to the accessor's registers. *)
Loaded(a, to, v) ==
  CASE to = "write" -> [a EXCEPT !.write = v]
    [] to = "writeOr" -> [a EXCEPT !.write = Or(v, @)]
    [] to = "read" -> [a EXCEPT !.read = v]
    [] to = "readOrGo" -> [a EXCEPT !.read = Or(v, @), !.busy = TRUE]
    [] to = "readGo" -> [a EXCEPT !.read = v, !.busy = TRUE]
    [] to = "devNull" -> a

CanExecute ==
  /\ chain # <<>>
  /\ Head(chain).from \in DOMAIN FifoOf => rx[FifoOf[Head(chain).from]] # <<>>

Execute ==
  /\ CanExecute
  /\ LET c == Head(chain) IN
     /\ accessor' = IF c.to = "ctrl" THEN Controlled(accessor, c.from)
                    ELSE Loaded(accessor, c.to, Value(c.from))
     /\ rx' = IF c.from \in DOMAIN FifoOf
              THEN [rx EXCEPT ![FifoOf[c.from]] = Tail(@)] ELSE rx
  /\ chain' = Tail(chain)
  /\ UNCHANGED <<tx, armed, wrote>>

(* The access itself, for which a write waits until the data is there; the *)
(* channel that started it is armed again. Every chain loads all registers *)
(* of the accessor, so what they hold in between is left out.              *)
CanAccess == accessor.busy /\ (accessor.paced => rx["ramWrite"] # <<>>)

Access ==
  /\ CanAccess
  /\ IF accessor.paced
     THEN /\ rx' = [rx EXCEPT !["ramWrite"] = Tail(@)]
          /\ wrote' = IF accessor.write = DevNull THEN wrote
                      ELSE [cell |-> accessor.write, data |-> Head(rx["ramWrite"])]
          /\ UNCHANGED tx
     ELSE /\ tx' = IF accessor.write = DevNull THEN tx
                   ELSE Append(tx, accessor.read)
          /\ UNCHANGED <<rx, wrote>>
  /\ accessor' = Idle
  /\ armed' = armed \cup {accessor.chainTo}
  /\ UNCHANGED chain

DmaStep == Execute \/ Access \/ \E m \in Machines : Request(m)

DmaCanStep == CanExecute \/ CanAccess \/ \E m \in Machines : CanRequest(m)
=============================================================================
