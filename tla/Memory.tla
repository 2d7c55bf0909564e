------------------------------- MODULE Memory -------------------------------
(***************************************************************************)
(* Memory and memory mapped I/O (src/emulator/src/memory.c). Everything a  *)
(* write on the CPU's bus can change is one record, and a write is an      *)
(* operator on it: an instruction makes up to five.                        *)
(*                                                                         *)
(* vram and ram are sparse: a cell no write has reached holds whatever     *)
(* malloc returned, junk. The flash image is sparse as well, and a cell it *)
(* does not list is an erased byte. A load past the end of a buffer also   *)
(* reads junk.                                                             *)
(***************************************************************************)
EXTENDS Naturals, Interrupts

CONSTANTS
  Images,    \* flash images that can be loaded: flash offset -> byte
  Junk       \* bytes that fresh memory can hold

Byte == 0 .. 255
Word == {n \in Nat : n < 65536}

ASSUME MemoryAssumption ==
  Junk \subseteq Byte /\ \A image \in Images : \A a \in DOMAIN image : image[a] \in Byte

VRAM_SIZE  == 32768
RAM_SIZE   == 16128
IO_SIZE    == 256
FLASH_SIZE == 262144
BANK_SIZE  == 16384
VRAM_START == 0
RAM_START  == VRAM_START + VRAM_SIZE
IO_START   == RAM_START + RAM_SIZE
BANK_START == IO_START + IO_SIZE

IO_INPUT  == 0
IO_OUTPUT == 1

OUT_CLKINTRST == 1
OUT_KEYINTRST == 2
OUT_STATUSLED == 4
OUT_KEYCLK    == 64
OUT_KEYDAT    == 128

ERASED == 255

HasBit(x, mask) == (x \div mask) % 2 = 1
Weight(level, mask) == IF level THEN mask ELSE 0

Cell(f, a, default) == IF a \in DOMAIN f THEN f[a] ELSE default
Store(f, a, d) == [x \in DOMAIN f \cup {a} |-> IF x = a THEN d ELSE f[x]]

InitMemory(image, rest) ==
  [vram |-> <<>>, ram |-> <<>>, flash |-> image, junk |-> rest, bank |-> 0,
   status_led |-> FALSE, irq |-> InitLatches, host_clock |-> TRUE, host_data |-> TRUE]

-----------------------------------------------------------------------------
(* dev is the state of the keyboard's end of the lines, [clock, data].     *)
ReadIO(bus, dev, select) ==
  IF select = IO_INPUT
  THEN Weight(GetInterrupt(bus.irq, INTER_0), 1) + Weight(GetInterrupt(bus.irq, INTER_1), 2)
       + Weight(bus.status_led, OUT_STATUSLED)
       + Weight(bus.host_clock /\ dev.clock, 64) + Weight(bus.host_data /\ dev.data, 128)
  ELSE 0

ReadFlash(bus, a) ==
  LET offset == (BANK_SIZE * bus.bank) + (a % BANK_SIZE) IN
  IF offset < FLASH_SIZE THEN Cell(bus.flash, offset, ERASED) ELSE bus.junk

ReadMemory(bus, dev, address) ==
  CASE address < RAM_START  -> Cell(bus.vram, address % VRAM_SIZE, bus.junk)
    [] address \in RAM_START .. IO_START - 1 -> Cell(bus.ram, address % BANK_SIZE, bus.junk)
    [] address \in IO_START .. BANK_START - 1 -> ReadIO(bus, dev, address % 8)
    [] address >= BANK_START -> ReadFlash(bus, address)

(* writeIO: the low bits clear interrupts while they are 0, the high bits  *)
(* pull a keyboard line low while they are 1.                              *)
WriteIO(bus, d, select) ==
  IF select = IO_OUTPUT
  THEN [bus EXCEPT
          !.irq = SetInterruptReset(
                    SetInterruptReset(@, INTER_0, HasBit(d, OUT_CLKINTRST)),
                    INTER_1, HasBit(d, OUT_KEYINTRST)),
          !.status_led = HasBit(d, OUT_STATUSLED),
          !.host_clock = ~HasBit(d, OUT_KEYCLK),
          !.host_data  = ~HasBit(d, OUT_KEYDAT)]
  ELSE bus

(* The conditions of writeMemory do not exclude each other: a write below  *)
(* the I/O page goes to every region at or above its address, and the      *)
(* index into ram can lie past its RAM_SIZE bytes.                         *)
WritesVram(address) == address < RAM_START
WritesRam(address)  == address < IO_START
WritesIO(address)   == address < BANK_START

WriteMemory(bus, d, address) ==
  LET stored ==
        [bus EXCEPT
           !.vram = IF WritesVram(address) THEN Store(@, address % VRAM_SIZE, d) ELSE @,
           !.ram  = IF WritesRam(address)  THEN Store(@, address % BANK_SIZE, d) ELSE @]
  IN IF WritesIO(address) THEN WriteIO(stored, d, address % 8) ELSE stored

SetBank(bus, b) == [bus EXCEPT !.bank = b]

(* Whether a write reaches the output register, and so the keyboard.       *)
HitsOutput(address) == WritesIO(address) /\ address % 8 = IO_OUTPUT

=============================================================================
