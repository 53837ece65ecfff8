---------------------------- MODULE CartridgeBus ----------------------------
(***************************************************************************)
(* What a cartridge with a memory bank controller is to the Game Boy: each *)
(* bus cycle is answered at once, by what was last written to each of the  *)
(* registers of the controller.                                            *)
(***************************************************************************)
EXTENDS Naturals

CONSTANTS
  Values,   \* data that a game writes
  Nothing,  \* the cartridge leaves the data bus alone, or writes nothing
  TopPage   \* value of the address lines above those of an MBC2's RAM

VARIABLES
  bus,        \* the cycle under way
  cartridge,  \* the controller and the size of ROM and RAM
  registers,  \* what was last written to each register
  done        \* what the last cycle drove on the data bus, and wrote

vars == <<bus, cartridge, registers, done>>

NonZero(bank) == IF bank = 0 THEN 1 ELSE bank

(* "upper" and "bank" are the values that an MBC1 got at 0x4000 in either  *)
(* mode, "clock" the last clock register that an MBC3 was told.            *)
Powered == [ram |-> 0, low |-> 1, high |-> 0, upper |-> 0, bank |-> 0,
            mode |-> 0, clock |-> 0]

Quiet == [driven |-> Nothing, wrote |-> Nothing]

NoCycle == [op |-> "none"]

Init ==
  /\ bus = NoCycle
  /\ registers = Powered
  /\ done = Quiet

-----------------------------------------------------------------------------
(* What the registers select. *)

RomBank(c, r) ==
  CASE c.mbc = 0 -> 1
    [] c.mbc = 1 -> (NonZero(r.low % 32)
                     + IF r.mode = 0 THEN 32 * (r.upper % 4) ELSE 0)
                    % c.romBanks
    [] c.mbc \in {2, 3} -> NonZero(r.low % c.romBanks)
    [] c.mbc = 5 -> (256 * (r.high % 2) + r.low) % c.romBanks

RamIsOn(c, r) ==
  c.mbc # 0 /\ IF c.mbc = 2 THEN r.ram = 10 ELSE r.ram % 16 = 10

SelectsClock(c, data) == c.mbc = 3 /\ (data \div 8) % 2 = 1
ClockRegister(data) == data % 8

RamCell(c, r, page) ==
  [mem |-> "ram",
   bank |-> CASE c.mbc = 2 -> 0
              [] c.mbc = 5 -> r.bank % c.ramBanks
              [] OTHER -> r.bank % 4,
   page |-> IF c.mbc = 2 THEN TopPage ELSE page]

ClockCell(register) == [mem |-> "rtc", bank |-> register, page |-> 0]

-----------------------------------------------------------------------------
(* Bus cycles: the area is A12 to A15, odd is A8, the page the lines below *)
(* A12 as far as they matter.                                              *)

Drives(c, r, area, page) ==
  CASE area \in 0 .. 3 -> [mem |-> "rom", bank |-> 0, page |-> page]
    [] area \in 4 .. 7 -> [mem |-> "rom", bank |-> RomBank(c, r), page |-> page]
    [] area \in 10 .. 11 ->
         IF ~RamIsOn(c, r) THEN Nothing
         ELSE IF SelectsClock(c, r.bank) THEN ClockCell(r.clock)
         ELSE RamCell(c, r, page)
    [] OTHER -> Nothing

Stores(c, r, page, data) ==
  IF ~RamIsOn(c, r) THEN Nothing
  ELSE [cell |-> IF SelectsClock(c, r.bank) THEN ClockCell(r.clock)
                 ELSE RamCell(c, r, page),
        data |-> data]

(* The register that a write to the ROM's addresses reaches. *)
Mbc1Written(r, area, data) ==
  CASE area \in {0, 1} -> [r EXCEPT !.ram = data]
    [] area \in {2, 3} -> [r EXCEPT !.low = data]
    [] area \in {4, 5} /\ r.mode = 0 -> [r EXCEPT !.upper = data]
    [] area \in {4, 5} /\ r.mode # 0 -> [r EXCEPT !.bank = data]
    [] area \in {6, 7} -> [r EXCEPT !.mode = data % 2]
    [] OTHER -> r

Mbc2Written(r, area, odd, data) ==
  CASE area \in 0 .. 3 /\ odd -> [r EXCEPT !.low = data]
    [] area \in 0 .. 3 /\ ~odd -> [r EXCEPT !.ram = data]
    [] OTHER -> r

Mbc3Written(r, area, data, clock) ==
  CASE area \in {0, 1} -> [r EXCEPT !.ram = data]
    [] area \in {2, 3} -> [r EXCEPT !.low = data]
    [] area \in {4, 5} -> [r EXCEPT !.bank = data, !.clock = clock]
    [] OTHER -> r

Mbc5Written(r, area, data) ==
  CASE area \in {0, 1} -> [r EXCEPT !.ram = data]
    [] area = 2 -> [r EXCEPT !.low = data]
    [] area = 3 -> [r EXCEPT !.high = data]
    [] area = 4 -> [r EXCEPT !.bank = data]
    [] OTHER -> r

ClockAfter(c, r, data) ==
  IF SelectsClock(c, data) /\ ClockRegister(data) < 5 THEN ClockRegister(data)
                                                     ELSE r.clock

Written(c, r, area, odd, data) ==
  CASE c.mbc = 1 -> Mbc1Written(r, area, data)
    [] c.mbc = 2 -> Mbc2Written(r, area, odd, data)
    [] c.mbc = 3 -> Mbc3Written(r, area, data, ClockAfter(c, r, data))
    [] c.mbc = 5 -> Mbc5Written(r, area, data)
    [] OTHER -> r

Cycles == [op: {"read", "write"}, area: 0 .. 15, odd: BOOLEAN,
           page: {0, TopPage}, data: Values]

Begin ==
  /\ bus = NoCycle
  /\ bus' \in Cycles
  /\ done' = Quiet
  /\ UNCHANGED <<cartridge, registers>>

Answer ==
  /\ bus # NoCycle
  /\ bus' = NoCycle
  /\ \/ /\ bus.op = "read"
        /\ done' = [Quiet EXCEPT !.driven =
                     Drives(cartridge, registers, bus.area, bus.page)]
        /\ UNCHANGED registers
     \/ /\ bus.op = "write"
        /\ done' = [Quiet EXCEPT !.wrote =
                     IF bus.area \in {10, 11}
                     THEN Stores(cartridge, registers, bus.page, bus.data)
                     ELSE Nothing]
        /\ registers' = Written(cartridge, registers, bus.area, bus.odd, bus.data)
  /\ UNCHANGED cartridge

Next == Begin \/ Answer

Spec == Init /\ [][Next]_vars
=============================================================================
