----------------------------- MODULE CpuLemmas ------------------------------
(***************************************************************************)
(* Lemmas about the processor, for every program and every content of the  *)
(* memory: what is in a word of the control ROM, that one clock keeps      *)
(* every register and memory cell within its width, and what the words of  *)
(* the reset sequence are.                                                 *)
(***************************************************************************)
EXTENDS Cpu, DataLemmas, FiniteSetTheorems

-----------------------------------------------------------------------------
(* Every word opens a pointer onto the address bus and has an operation of *)
(* the arithmetic unit: the cases of AddressBus and CalcALU are complete.  *)
GoodWord(w) == /\ \E m \in {"TO", "PO", "BO", "SO", "IO"} : m \in w
               /\ \E m \in {"ES", "ER", "EA", "EO"} : m \in w

GoodLines(s) == \E T : s \in Seq(T) /\ \A line \in T : GoodWord(line.word)

LEMMA LinesJoin ==
  ASSUME NEW s, GoodLines(s), NEW t, GoodLines(t)
  PROVE  GoodLines(s \o t)
<1>1. PICK S : s \in Seq(S) /\ \A line \in S : GoodWord(line.word)
  BY DEF GoodLines
<1>2. PICK T : t \in Seq(T) /\ \A line \in T : GoodWord(line.word)
  BY DEF GoodLines
<1>3. s \o t \in Seq(S \cup T) /\ \A line \in S \cup T : GoodWord(line.word)
  BY <1>1, <1>2
<1> QED
  BY <1>3 DEF GoodLines

LEMMA LinesGood ==
  ASSUME NEW T, \A line \in T : GoodWord(line.word), NEW s \in Seq(T)
  PROVE  GoodLines(s)
BY DEF GoodLines

LEMMA ProgramGood ==
  ASSUME NEW opcode \in Opcodes
  PROVE  GoodLines(Program(opcode))
<1>1. \A w, f : /\ Line(w).word = w /\ Under(Line(w), f).word = w
                /\ Under(Restart(Line(w)), f).word = w /\ Under(SameStep(Line(w)), f).word = w
  BY DEF Line, Under, Restart, SameStep
<1>2. /\ \A dst : GoodWord(NextByte(dst)) /\ GoodWord(Peek(dst)) /\ GoodWord(Pop(dst))
      /\ \A dst : GoodWord(Push(dst)) /\ \A d : GoodWord(Const(dst, d))
      /\ GoodWord(Fetch) /\ GoodWord(Drop) /\ GoodWord(Goto) /\ GoodWord(AfterT)
      /\ GoodWord(Take.word)
  BY <1>1 DEF GoodWord, NextByte, Peek, Pop, Push, Const, Fetch, Drop, Goto, AfterT, Take
<1>3. GoodLines(Indexed) /\ GoodLines(Operand) /\ GoodLines(Done)
  <2>1. Indexed \in Seq({Line(NextByte({"XI"}))})
    BY DEF Indexed
  <2>2. Operand \in Seq({Line(NextByte({"TL"})), Line(NextByte({"TH"}))})
    BY DEF Operand
  <2>3. Done \in Seq({Line(Fetch)})
    BY DEF Done
  <2>4. \A line \in {Line(NextByte({"XI"})), Line(NextByte({"TL"})), Line(NextByte({"TH"})), Line(Fetch)} :
          GoodWord(line.word)
    BY <1>1, <1>2
  <2> QED
    BY <2>1, <2>2, <2>3, <2>4, LinesGood
<1>4. \A a : GoodWord(a.word) => GoodLines(<<a>>)
  <2> SUFFICES ASSUME NEW a, GoodWord(a.word)
               PROVE  GoodLines(<<a>>)
    OBVIOUS
  <2>1. <<a>> \in Seq({a}) /\ \A line \in {a} : GoodWord(line.word)
    OBVIOUS
  <2> QED
    BY <2>1, LinesGood, Zenon
<1>5. \A a, b : GoodWord(a.word) /\ GoodWord(b.word) => GoodLines(<<a, b>>)
  <2> SUFFICES ASSUME NEW a, NEW b, GoodWord(a.word), GoodWord(b.word)
               PROVE  GoodLines(<<a, b>>)
    OBVIOUS
  <2>1. <<a, b>> \in Seq({a, b}) /\ \A line \in {a, b} : GoodWord(line.word)
    OBVIOUS
  <2> QED
    BY <2>1, LinesGood, Zenon
<1>6. \A a, b, c :
        GoodWord(a.word) /\ GoodWord(b.word) /\ GoodWord(c.word) => GoodLines(<<a, b, c>>)
  <2> SUFFICES ASSUME NEW a, NEW b, NEW c, GoodWord(a.word), GoodWord(b.word), GoodWord(c.word)
               PROVE  GoodLines(<<a, b, c>>)
    OBVIOUS
  <2>1. <<a, b, c>> \in Seq({a, b, c}) /\ \A line \in {a, b, c} : GoodWord(line.word)
    OBVIOUS
  <2> QED
    BY <2>1, LinesGood, Zenon
<1>7. \A a, b, c, d : GoodWord(a.word) /\ GoodWord(b.word) /\ GoodWord(c.word) /\ GoodWord(d.word)
        => GoodLines(<<a, b, c, d>>)
  <2> SUFFICES ASSUME NEW a, NEW b, NEW c, NEW d,
                      GoodWord(a.word), GoodWord(b.word), GoodWord(c.word), GoodWord(d.word)
               PROVE  GoodLines(<<a, b, c, d>>)
    OBVIOUS
  <2>1. <<a, b, c, d>> \in Seq({a, b, c, d}) /\ \A line \in {a, b, c, d} : GoodWord(line.word)
    OBVIOUS
  <2> QED
    BY <2>1, LinesGood, Zenon
<1>8. CASE opcode = 0
  BY <1>1, <1>2, <1>3, <1>4, <1>8, LinesJoin DEF Program
<1>9. CASE opcode = 2
  BY <1>1, <1>2, <1>3, <1>4, <1>9, LinesJoin DEF Program, GoodWord
<1>10. CASE opcode = 17
  BY <1>1, <1>2, <1>3, <1>4, <1>10, LinesJoin DEF Program, GoodWord
<1>11. CASE opcode = 18
  BY <1>1, <1>2, <1>3, <1>4, <1>11, LinesJoin DEF Program, GoodWord
<1>12. CASE opcode = 20
  BY <1>1, <1>2, <1>3, <1>4, <1>12, LinesJoin DEF Program, GoodWord
<1>13. CASE opcode = 25
  BY <1>1, <1>2, <1>3, <1>4, <1>13, LinesJoin DEF Program, GoodWord
<1>14. CASE opcode = 28
  BY <1>1, <1>2, <1>3, <1>4, <1>14, LinesJoin DEF Program, GoodWord
<1>15. CASE opcode = 34
  BY <1>1, <1>2, <1>3, <1>4, <1>15, LinesJoin DEF Program, GoodWord
<1>16. CASE opcode = 35
  BY <1>1, <1>2, <1>3, <1>4, <1>16, LinesJoin DEF Program, GoodWord
<1>17. CASE opcode = 80
  BY <1>1, <1>2, <1>3, <1>17 DEF Program
<1>18. CASE opcode = 120
  BY <1>1, <1>2, <1>3, <1>5, <1>18, LinesJoin DEF Program, GoodWord
<1>19. CASE opcode = 224
  BY <1>1, <1>2, <1>3, <1>6, <1>19, LinesJoin DEF Program
<1>20. CASE opcode = 236
  BY <1>1, <1>2, <1>3, <1>6, <1>20, LinesJoin DEF Program
<1>21. CASE opcode = 238
  BY <1>1, <1>2, <1>3, <1>7, <1>21 DEF Program, Take
<1>22. CASE opcode = 241
  BY <1>1, <1>2, <1>3, <1>5, <1>22 DEF Program, GoodWord
<1>23. CASE opcode = 244
  BY <1>1, <1>2, <1>3, <1>4, <1>23, LinesJoin DEF Program
<1>24. CASE opcode = 248
  BY <1>1, <1>2, <1>3, <1>6, <1>24, LinesJoin DEF Program
<1>25. CASE opcode = 250
  BY <1>1, <1>2, <1>3, <1>7, <1>25 DEF Program
<1>26. CASE opcode = 254
  <2>1. Program(opcode) \in Seq({line \in {Program(254)[k] : k \in 1 .. 7} : GoodWord(line.word)})
    BY <1>1, <1>2, <1>26 DEF Program
  <2> QED
    BY <2>1, LinesGood
<1>27. CASE opcode = 255
  <2>1. Program(opcode) \in Seq({line \in {Program(255)[k] : k \in 1 .. 11} : GoodWord(line.word)})
    BY <1>1, <1>2, <1>27 DEF Program, GoodWord
  <2> QED
    BY <2>1, LinesGood
<1> QED
  BY <1>8, <1>9, <1>10, <1>11, <1>12, <1>13, <1>14, <1>15, <1>16, <1>17, <1>18, <1>19, <1>20, <1>21, <1>22, <1>23, <1>24, <1>25, <1>26, <1>27 DEF Opcodes

(* The line that counts at an address is one of the sequence's lines.      *)
LEMMA CompiledGood ==
  ASSUME NEW lines, GoodLines(lines), NEW flags, NEW step
  PROVE  /\ Writes(lines, flags, step) # {} => GoodWord(LastWord(lines, flags, step))
         /\ GoodWord(Compiled(lines, flags, step))
<1>1. PICK T : lines \in Seq(T) /\ \A line \in T : GoodWord(line.word)
  BY DEF GoodLines
<1> DEFINE written == Writes(lines, flags, step)
<1>2. Len(lines) \in Nat /\ written \in SUBSET (0 .. Len(lines))
      /\ \A i \in written : GoodWord(lines[i].word)
  BY <1>1 DEF Writes
<1>3. LastWord(lines, flags, step) =
        lines[CHOOSE i \in written : \A j \in written : j <= i].word
  BY DEF LastWord
<1> HIDE DEF written
<1>4. written # {} => GoodWord(LastWord(lines, flags, step))
  <2> SUFFICES ASSUME written # {} PROVE GoodWord(LastWord(lines, flags, step))
    OBVIOUS
  <2>1. \E i \in written : \A j \in written : j <= i
    BY <1>2, MaxOfNats
  <2>2. (CHOOSE i \in written : \A j \in written : j <= i) \in written
    BY <2>1
  <2> QED
    BY <1>2, <1>3, <2>2
<1>5. GoodWord(Unwritten)
  BY DEF GoodWord, Unwritten
<1> QED
  BY <1>4, <1>5 DEF Compiled, written

LEMMA EntriesGood == GoodLines(InterruptLines) /\ GoodLines(ResetLines)
<1>1. GoodLines(InterruptLines)
  <2> DEFINE T == {InterruptLines[k] : k \in 1 .. 12}
  <2>1. \A k \in 1 .. 12 : GoodWord(InterruptLines[k].word)
    BY DEF InterruptLines, Under, Line, Push, Const, Goto, GoodWord
  <2>2. InterruptLines \in [1 .. 12 -> T]
    BY DEF InterruptLines
  <2> HIDE DEF T
  <2>3. InterruptLines \in Seq(T)
    BY <2>2, FunctionIsSeq
  <2> QED
    BY <2>1, <2>3, LinesGood DEF T
<1>2. GoodLines(ResetLines)
  <2> DEFINE T == {ResetLines[k] : k \in 1 .. 13}
  <2>1. \A k \in 1 .. 13 : GoodWord(ResetLines[k].word)
    BY DEF ResetLines, Line, Const, GoodWord
  <2>2. ResetLines \in [1 .. 13 -> T]
    BY DEF ResetLines
  <2> HIDE DEF T
  <2>3. ResetLines \in Seq(T)
    BY <2>2, FunctionIsSeq
  <2> QED
    BY <2>1, <2>3, LinesGood DEF T
<1> QED
  BY <1>1, <1>2

LEMMA ControlGood ==
  ASSUME cpu.step \in 0 .. 15, cpu.F \in Byte
  PROVE  GoodWord(Control)
<1> DEFINE flags == cpu.F % 16
<1>1. flags \in 0 .. 15
  BY DEF Byte
<1> HIDE DEF flags
<1>2. \A opcode, interrupt, reset : GoodWord(ReadControl(cpu.step, flags, opcode, interrupt, reset))
  <2> SUFFICES ASSUME NEW opcode, NEW interrupt, NEW reset
               PROVE  GoodWord(ReadControl(cpu.step, flags, opcode, interrupt, reset))
    OBVIOUS
  <2>1. ResetRom[flags][cpu.step] = Compiled(ResetLines, flags, cpu.step)
    BY <1>1 DEF ResetRom, RomPage
  <2>2. \A o \in Opcodes : OpcodeRom[o][flags][cpu.step] = Compiled(Program(o), flags, cpu.step)
    BY <1>1 DEF OpcodeRom, RomPage
  <2>3. cpu.step \in DOMAIN InterruptRom[flags] =>
          /\ Writes(InterruptLines, flags, cpu.step) # {}
          /\ InterruptRom[flags][cpu.step] = LastWord(InterruptLines, flags, cpu.step)
    BY <1>1 DEF InterruptRom
  <2>4. GoodWord(ResetRom[flags][cpu.step])
    BY <2>1, EntriesGood, CompiledGood
  <2>5. \A o \in Opcodes : GoodWord(OpcodeRom[o][flags][cpu.step])
    BY <2>2, ProgramGood, CompiledGood
  <2>6. cpu.step \in DOMAIN InterruptRom[flags] => GoodWord(InterruptRom[flags][cpu.step])
    BY <2>3, EntriesGood, CompiledGood
  <2>7. GoodWord(Unwritten)
    BY DEF GoodWord, Unwritten
  <2> QED
    BY <2>4, <2>5, <2>6, <2>7 DEF ReadControl
<1> QED
  BY <1>2 DEF Control, flags

-----------------------------------------------------------------------------
(* The arithmetic unit and the buses keep their widths.                    *)
LEMMA BitsFit == ASSUME NEW s PROVE FromBits(s) \in Byte
BY DEF FromBits, Byte

LEMMA FlagFits ==
  ASSUME NEW f \in Byte, NEW mask \in {1, 2, 4, 8}, NEW on \in BOOLEAN
  PROVE  WithFlag(f, mask, on) \in Byte
<1>1. CASE mask = 1
  BY <1>1 DEF WithFlag, Flag, Byte
<1>2. CASE mask = 2
  BY <1>2 DEF WithFlag, Flag, Byte
<1>3. CASE mask = 4
  BY <1>3 DEF WithFlag, Flag, Byte
<1>4. CASE mask = 8
  BY <1>4 DEF WithFlag, Flag, Byte
<1> QED
  BY <1>1, <1>2, <1>3, <1>4

LEMMA AluFits ==
  ASSUME NEW a \in Byte, NEW b \in Byte, NEW f \in Byte, NEW control, GoodWord(control)
  PROVE  /\ CalcALU(a, b, f, control).out \in Byte
         /\ CalcALU(a, b, f, control).flags \in Byte
<1> DEFINE x == IF "EZ" \in control THEN 0 ELSE a
           y == IF "EN" \in control THEN 255 - b ELSE b
           sum == x + y + (IF "EC" \in control THEN 1 ELSE 0)
           out == CASE "ES" \in control -> sum % 256
                    [] "ER" \in control -> y \div 2
                    [] "EA" \in control -> FromBits(BitsOf(x) \cap BitsOf(y))
                    [] "EO" \in control -> FromBits(BitsOf(x) \cup BitsOf(y))
           carried == CASE "ES" \in control -> WithFlag(f, FLAG_C, CarryOut(sum))
                        [] "ER" \in control -> WithFlag(f, FLAG_C, y % 2 = 1)
                        [] OTHER            -> f
<1>1. CalcALU(a, b, f, control) =
        [out |-> out, flags |-> IF "FI" \in control /\ "FD" \notin control
                                THEN WithNZ(carried, out) ELSE f]
  BY DEF CalcALU
<1>2. sum \in Nat /\ y \in Byte
  BY DEF Byte
<1>3. sum % 256 \in Byte /\ y \div 2 \in Byte
  BY <1>2 DEF Byte
<1>4. out \in Byte
  <2> HIDE DEF sum, y, x
  <2> QED
    BY <1>3, BitsFit DEF GoodWord
<1>5. carried \in Byte
  <2>1. CarryOut(sum) \in BOOLEAN /\ (y % 2 = 1) \in BOOLEAN /\ FLAG_C \in {1, 2, 4, 8}
    BY DEF CarryOut, FLAG_C
  <2> HIDE DEF sum, y, x
  <2>2. WithFlag(f, FLAG_C, CarryOut(sum)) \in Byte /\ WithFlag(f, FLAG_C, y % 2 = 1) \in Byte
    BY <2>1, FlagFits
  <2> QED
    BY <2>2
<1> HIDE DEF out, carried
<1>6. WithNZ(carried, out) \in Byte
  <2> DEFINE high == out >= 128
             zero == out = 0
             signed == WithFlag(carried, FLAG_N, high)
  <2>1. /\ high \in BOOLEAN /\ zero \in BOOLEAN
        /\ FLAG_N \in {1, 2, 4, 8} /\ FLAG_Z \in {1, 2, 4, 8}
    BY DEF FLAG_N, FLAG_Z
  <2>2. WithNZ(carried, out) = WithFlag(signed, FLAG_Z, zero)
    BY DEF WithNZ
  <2> HIDE DEF high, zero
  <2>3. signed \in Byte
    BY <1>5, <2>1, FlagFits
  <2> HIDE DEF signed
  <2> QED
    BY <2>1, <2>2, <2>3, FlagFits
<1> QED
  BY <1>1, <1>4, <1>6

-----------------------------------------------------------------------------
BusFields == {"vram", "ram", "flash", "junk", "bank", "status_led", "irq",
              "host_clock", "host_data"}

(* A latch is only set while its reset line is released.                   *)
GoodLatches(irq) ==
  /\ irq \in Latches
  /\ \A i \in Inter : irq.in[i] => irq.reset[i]

GoodBus(b) == b = [f \in BusFields |-> b[f]] /\ GoodLatches(b.irq)

-----------------------------------------------------------------------------
(* The functions of interrupt.c.                                           *)
LEMMA InitLatchesGood == GoodLatches(InitLatches)
BY DEF GoodLatches, Latches, InitLatches

LEMMA GenerateGood ==
  ASSUME NEW irq, GoodLatches(irq), NEW i \in Inter
  PROVE  GoodLatches(GenerateInterrupt(irq, i))
BY DEF GoodLatches, Latches, GenerateInterrupt

LEMMA ResetGood ==
  ASSUME NEW irq, GoodLatches(irq), NEW i \in Inter, NEW val \in BOOLEAN
  PROVE  GoodLatches(SetInterruptReset(irq, i, val))
BY DEF GoodLatches, Latches, SetInterruptReset

(* What the CPU samples is what is latched, and stays acknowledged.        *)
LEMMA ReadGood ==
  ASSUME NEW irq, GoodLatches(irq)
  PROVE  /\ GoodLatches(ReadInterrupts(irq))
         /\ \A i \in Inter : GetInterrupt(ReadInterrupts(irq), i)
              => ReadInterrupts(irq).in[i] /\ ReadInterrupts(irq).reset[i]
BY DEF GoodLatches, Latches, ReadInterrupts, GetInterrupt

(* The functions of memory.c.                                              *)
LEMMA InitMemoryGood ==
  ASSUME NEW image, NEW rest
  PROVE  GoodBus(InitMemory(image, rest)) /\ InitMemory(image, rest).host_clock
BY InitLatchesGood DEF GoodBus, BusFields, InitMemory

LEMMA IrqGood ==
  ASSUME NEW b, GoodBus(b), NEW irq, GoodLatches(irq)
  PROVE  /\ GoodBus([b EXCEPT !.irq = irq])
         /\ [b EXCEPT !.irq = irq].host_clock = b.host_clock
         /\ [b EXCEPT !.irq = irq].irq = irq
BY DEF GoodBus, BusFields

LEMMA BankGood ==
  ASSUME NEW b, GoodBus(b), NEW n
  PROVE  GoodBus(SetBank(b, n)) /\ SetBank(b, n).host_clock = b.host_clock
BY DEF GoodBus, BusFields, SetBank

LEMMA WriteIOGood ==
  ASSUME NEW b, GoodBus(b), NEW d, NEW select
  PROVE  /\ GoodBus(WriteIO(b, d, select))
         /\ select # IO_OUTPUT => WriteIO(b, d, select) = b
<1>1. HasBit(d, OUT_CLKINTRST) \in BOOLEAN /\ HasBit(d, OUT_KEYINTRST) \in BOOLEAN
  BY DEF HasBit
<1> DEFINE irq == SetInterruptReset(
                    SetInterruptReset(b.irq, INTER_0, HasBit(d, OUT_CLKINTRST)),
                    INTER_1, HasBit(d, OUT_KEYINTRST))
<1>2. GoodLatches(irq)
  BY <1>1, ResetGood DEF GoodBus, Inter
<1>3. CASE select = IO_OUTPUT
  <2>1. WriteIO(b, d, select) =
          [b EXCEPT !.irq = irq, !.status_led = HasBit(d, OUT_STATUSLED),
                    !.host_clock = ~HasBit(d, OUT_KEYCLK),
                    !.host_data  = ~HasBit(d, OUT_KEYDAT)]
    BY <1>3 DEF WriteIO, GoodBus, BusFields
  <2> HIDE DEF irq
  <2> QED
    BY <1>2, <1>3, <2>1 DEF GoodBus, BusFields
<1>4. CASE select # IO_OUTPUT
  BY <1>4 DEF WriteIO
<1> QED
  BY <1>3, <1>4

(* A write goes to the memories and then, if the address says so, to I/O.  *)
LEMMA StoreThenIO ==
  ASSUME NEW b, GoodBus(b), NEW d, NEW address
  PROVE  \E stored :
           /\ GoodBus(stored) /\ stored.irq = b.irq /\ stored.host_clock = b.host_clock
           /\ WriteMemory(b, d, address) =
                IF WritesIO(address) THEN WriteIO(stored, d, address % 8) ELSE stored
<1> DEFINE stored ==
        [b EXCEPT
           !.vram = IF WritesVram(address) THEN Store(@, address % VRAM_SIZE, d) ELSE @,
           !.ram  = IF WritesRam(address)  THEN Store(@, address % BANK_SIZE, d) ELSE @]
<1>1. GoodBus(stored) /\ stored.irq = b.irq /\ stored.host_clock = b.host_clock
  BY DEF GoodBus, BusFields
<1>2. WriteMemory(b, d, address) =
        IF WritesIO(address) THEN WriteIO(stored, d, address % 8) ELSE stored
  BY DEF WriteMemory
<1> HIDE DEF stored
<1> QED
  BY <1>1, <1>2

LEMMA WriteMemoryGood ==
  ASSUME NEW b, GoodBus(b), NEW d, NEW address
  PROVE  /\ GoodBus(WriteMemory(b, d, address))
         /\ ~HitsOutput(address) => WriteMemory(b, d, address).host_clock = b.host_clock
BY StoreThenIO, WriteIOGood DEF HitsOutput

-----------------------------------------------------------------------------
(* Memory cells and the bank number are bytes.                             *)
GoodCells(b) ==
  /\ \A a \in DOMAIN b.vram : a < VRAM_SIZE /\ b.vram[a] \in Byte
  /\ \A a \in DOMAIN b.ram : a < BANK_SIZE /\ b.ram[a] \in Byte
  /\ \A a \in DOMAIN b.flash : b.flash[a] \in Byte
  /\ b.junk \in Byte /\ b.bank \in Byte

LEMMA InitCells ==
  ASSUME NEW image \in Images, NEW rest \in Junk
  PROVE  GoodCells(InitMemory(image, rest))
BY MemoryAssumption DEF GoodCells, InitMemory, Byte

LEMMA StoreGood ==
  ASSUME NEW f, NEW size \in Nat \ {0}, \A a \in DOMAIN f : a < size /\ f[a] \in Byte,
         NEW d \in Byte, NEW address \in Nat
  PROVE  LET g == Store(f, address % size, d)
         IN  \A a \in DOMAIN g : a < size /\ g[a] \in Byte
<1>1. address % size < size
  OBVIOUS
<1> DEFINE at == address % size
<1> HIDE DEF at
<1> QED
  BY <1>1 DEF Store, at

LEMMA WriteIOCells ==
  ASSUME NEW b, GoodBus(b), NEW d, NEW select
  PROVE  \A f \in {"vram", "ram", "flash", "junk", "bank"} : WriteIO(b, d, select)[f] = b[f]
BY DEF WriteIO, GoodBus, BusFields

LEMMA WriteMemoryCells ==
  ASSUME NEW b, GoodBus(b), GoodCells(b), NEW d \in Byte, NEW address \in Word
  PROVE  /\ GoodCells(WriteMemory(b, d, address))
         /\ WriteMemory(b, d, address).flash = b.flash
         /\ WriteMemory(b, d, address).junk = b.junk
         /\ WriteMemory(b, d, address).bank = b.bank
<1> DEFINE stored ==
        [b EXCEPT
           !.vram = IF WritesVram(address) THEN Store(@, address % VRAM_SIZE, d) ELSE @,
           !.ram  = IF WritesRam(address)  THEN Store(@, address % BANK_SIZE, d) ELSE @]
<1>1. /\ stored.vram = IF WritesVram(address) THEN Store(b.vram, address % VRAM_SIZE, d) ELSE b.vram
      /\ stored.ram = IF WritesRam(address) THEN Store(b.ram, address % BANK_SIZE, d) ELSE b.ram
      /\ stored.flash = b.flash /\ stored.junk = b.junk /\ stored.bank = b.bank
      /\ GoodBus(stored)
  BY DEF GoodBus, BusFields
<1>2. WriteMemory(b, d, address) =
        IF WritesIO(address) THEN WriteIO(stored, d, address % 8) ELSE stored
  BY DEF WriteMemory
<1> HIDE DEF stored
<1>3. address \in Nat /\ VRAM_SIZE \in Nat \ {0} /\ BANK_SIZE \in Nat \ {0}
  BY DEF Word, VRAM_SIZE, BANK_SIZE
<1>4. GoodCells(stored)
  <2>1. \A a \in DOMAIN stored.vram : a < VRAM_SIZE /\ stored.vram[a] \in Byte
    <3>1. \A a \in DOMAIN b.vram : a < VRAM_SIZE /\ b.vram[a] \in Byte
      BY DEF GoodCells
    <3> DEFINE f == Store(b.vram, address % VRAM_SIZE, d)
    <3>2. \A a \in DOMAIN f : a < VRAM_SIZE /\ f[a] \in Byte
      BY <1>3, <3>1, StoreGood
    <3> HIDE DEF f
    <3>3. stored.vram = IF WritesVram(address) THEN f ELSE b.vram
      BY <1>1 DEF f
    <3> QED
      BY <3>1, <3>2, <3>3
  <2>2. \A a \in DOMAIN stored.ram : a < BANK_SIZE /\ stored.ram[a] \in Byte
    <3>1. \A a \in DOMAIN b.ram : a < BANK_SIZE /\ b.ram[a] \in Byte
      BY DEF GoodCells
    <3> DEFINE f == Store(b.ram, address % BANK_SIZE, d)
    <3>2. \A a \in DOMAIN f : a < BANK_SIZE /\ f[a] \in Byte
      BY <1>3, <3>1, StoreGood
    <3> HIDE DEF f
    <3>3. stored.ram = IF WritesRam(address) THEN f ELSE b.ram
      BY <1>1 DEF f
    <3> QED
      BY <3>1, <3>2, <3>3
  <2> QED
    BY <1>1, <2>1, <2>2 DEF GoodCells
<1>5. CASE WritesIO(address)
  BY <1>1, <1>2, <1>4, <1>5, WriteIOCells DEF GoodCells
<1>6. CASE ~WritesIO(address)
  BY <1>1, <1>2, <1>4, <1>6
<1> QED
  BY <1>5, <1>6

LEMMA ReadGoodByte ==
  ASSUME NEW b, GoodCells(b), NEW lines, NEW address \in Word
  PROVE  ReadMemory(b, lines, address) \in Byte
<1>1. /\ Cell(b.vram, address % VRAM_SIZE, b.junk) \in Byte
      /\ Cell(b.ram, address % BANK_SIZE, b.junk) \in Byte
  BY DEF Cell, GoodCells
<1>2. ReadIO(b, lines, address % 8) \in Byte
  <2>1. \A l, mask : Weight(l, mask) \in {0, mask}
    BY DEF Weight
  <2> QED
    BY <2>1 DEF ReadIO, Byte, OUT_STATUSLED
<1>3. ReadFlash(b, address) \in Byte
  <2>1. ERASED \in Byte
    BY DEF ERASED, Byte
  <2>2. b.junk \in Byte /\ \A a : Cell(b.flash, a, ERASED) \in Byte
    BY <2>1 DEF Cell, GoodCells
  <2> QED
    BY <2>2 DEF ReadFlash
<1>4. address < RAM_START \/ address \in RAM_START .. IO_START - 1
      \/ address \in IO_START .. BANK_START - 1 \/ address >= BANK_START
  <2>1. RAM_START \in Nat /\ IO_START \in Nat /\ BANK_START \in Nat /\ address \in Nat
    BY DEF RAM_START, IO_START, BANK_START, VRAM_START, VRAM_SIZE, RAM_SIZE, IO_SIZE, Word
  <2> QED
    BY <2>1
<1> DEFINE ram == RAM_START .. IO_START - 1  io == IO_START .. BANK_START - 1
           value == ReadMemory(b, lines, address)
           vcell == Cell(b.vram, address % VRAM_SIZE, b.junk)
           rcell == Cell(b.ram, address % BANK_SIZE, b.junk)
<1>5. value = CASE address < RAM_START -> vcell
                [] address \in ram -> rcell
                [] address \in io -> ReadIO(b, lines, address % 8)
                [] address >= BANK_START -> ReadFlash(b, address)
  BY DEF ReadMemory
<1>6. address < RAM_START \/ address \in ram \/ address \in io \/ address >= BANK_START
  BY <1>4
<1>7. vcell \in Byte /\ rcell \in Byte
  BY <1>1
<1> HIDE DEF ram, io, value, vcell, rcell
<1>8. value \in Byte
  BY <1>2, <1>3, <1>5, <1>6, <1>7
<1> QED
  BY <1>8 DEF value

-----------------------------------------------------------------------------
(* One clock keeps every register, latch and cell in its width.            *)
LEMMA HalvesGood ==
  ASSUME NEW w \in Word, NEW byte \in Byte
  PROVE  /\ Low(w) \in Byte /\ High(w) \in Byte
         /\ 256 * High(w) + byte \in Word /\ 256 * byte + Low(w) \in Word
<1>1. w \in Int /\ 0 <= w /\ w <= 65535
  BY DEF Word
<1>2. byte \in Int /\ 0 <= byte /\ byte <= 255
  BY DEF Byte
<1> DEFINE low == w % 256  high == w \div 256
<1>3. low \in Int /\ 0 <= low /\ low <= 255
  BY <1>1
<1>4. high \in Int /\ 0 <= high /\ high <= 255
  BY <1>1
<1>5. Low(w) = low /\ High(w) = high
  BY DEF Low, High
<1> HIDE DEF low, high
<1>6. low \in Byte /\ high \in Byte
  BY <1>3, <1>4 DEF Byte
<1>7. 256 * high + byte \in Word
  BY <1>2, <1>4 DEF Word
<1>8. 256 * byte + low \in Word
  BY <1>2, <1>3 DEF Word
<1> QED
  BY <1>5, <1>6, <1>7, <1>8

LEMMA AddressGood ==
  ASSUME cpu \in Registers, NEW control, GoodWord(control)
  PROVE  AddressOut(control) \in Word
<1> DEFINE index == IF "XZ" \in control THEN 0 ELSE cpu.X
           from  == AddressBus(control)
           step  == IF "XN" \in control THEN 65535 - index ELSE index
           one   == IF "XC" \in control THEN 1 ELSE 0
<1>1. from \in Word
  BY DEF AddressBus, GoodWord, Registers
<1>2. step \in Int /\ one \in Int
  BY DEF Registers, Byte
<1>3. AddressOut(control) = (from + step + one) % 65536
  BY DEF AddressOut
<1> HIDE DEF index, from, step, one
<1>4. from + step + one \in Int
  BY <1>1, <1>2 DEF Word
<1> DEFINE sum == from + step + one
<1> HIDE DEF sum
<1>5. sum % 65536 \in Word
  BY <1>4 DEF Word, sum
<1> QED
  BY <1>3, <1>5 DEF sum

LEMMA DataGood ==
  ASSUME cpu \in Registers, GoodCells(bus), NEW control, NEW address \in Word
  PROVE  DataBus(control, address) \in Byte
<1>1. \A w \in Word : Low(w) \in Byte /\ High(w) \in Byte
  <2>1. 0 \in Byte
    BY DEF Byte
  <2> QED
    BY <2>1, HalvesGood
<1>2. ReadMemory(bus, dev, address) \in Byte
  BY ReadGoodByte
<1>3. 0 \in Byte /\ 255 \in Byte
  BY DEF Byte
<1>4. /\ cpu.A \in Byte /\ cpu.F \in Byte /\ cpu.K \in Byte
      /\ cpu.P \in Word /\ cpu.B \in Word /\ cpu.I \in Word
  BY DEF Registers
<1> QED
  BY <1>1, <1>2, <1>3, <1>4 DEF DataBus

LEMMA LoadedGood ==
  ASSUME cpu \in Registers, NEW control, GoodWord(control), NEW address \in Word, NEW byte \in Byte
  PROVE  Loaded(control, address, byte) \in Registers
<1> DEFINE alu == CalcALU(cpu.A, byte, cpu.F, control)
<1>1. alu.out \in Byte /\ alu.flags \in Byte
  BY AluFits DEF Registers
<1> HIDE DEF alu
<1>2. 256 * High(cpu.T) + byte \in Word /\ 256 * byte + Low(cpu.T) \in Word
  BY HalvesGood DEF Registers
<1>3. NextStep(control) \in 0 .. 15 /\ ResetLasts(control) \in BOOLEAN
  BY DEF Registers, NextStep, ResetLasts
<1> DEFINE P == IF "PI" \in control THEN address ELSE cpu.P
           B == IF "BI" \in control THEN address ELSE cpu.B
           S == IF "SI" \in control THEN address ELSE cpu.S
           I == IF "II" \in control THEN address ELSE cpu.I
           F == IF "FI" \in control /\ "FD" \in control THEN byte
                ELSE IF "FI" \in control THEN alu.flags ELSE cpu.F
           A == IF "AI" \in control THEN alu.out ELSE cpu.A
           X == IF "XI" \in control THEN byte ELSE cpu.X
           K == IF "KI" \in control THEN byte ELSE cpu.K
           C == IF "CI" \in control THEN byte ELSE cpu.C
           T == CASE "TL" \in control -> 256 * High(cpu.T) + byte
                  [] "TH" \in control -> 256 * byte + Low(cpu.T)
                  [] OTHER            -> cpu.T
<1>4. Loaded(control, address, byte) =
        [cpu EXCEPT !.P = P, !.B = B, !.S = S, !.I = I, !.F = F, !.A = A, !.X = X, !.K = K,
                    !.C = C, !.T = T, !.reset = ResetLasts(control), !.step = NextStep(control)]
  BY DEF Loaded, alu, Registers
<1>5. P \in Word /\ B \in Word /\ S \in Word /\ I \in Word
  BY DEF Registers
<1>6. F \in Byte /\ A \in Byte /\ X \in Byte /\ K \in Byte /\ C \in Byte
  BY <1>1 DEF Registers
<1>7. T \in Word
  BY <1>2 DEF Registers
<1> DEFINE last == ResetLasts(control)  next == NextStep(control)
<1> HIDE DEF alu, P, B, S, I, F, A, X, K, C, T, last, next
<1>8. last \in BOOLEAN /\ next \in 0 .. 15
  BY <1>3 DEF last, next
<1>9. [cpu EXCEPT !.P = P, !.B = B, !.S = S, !.I = I, !.F = F, !.A = A, !.X = X, !.K = K,
                  !.C = C, !.T = T, !.reset = last, !.step = next] \in Registers
  BY <1>5, <1>6, <1>7, <1>8, Zenon DEF Registers
<1> QED
  BY <1>4, <1>9 DEF last, next

LEMMA DrivenGood ==
  ASSUME GoodBus(bus), GoodCells(bus), NEW control, NEW address \in Word, NEW byte \in Byte
  PROVE  LET b == Driven(control, address, byte) IN
         /\ GoodBus(b) /\ GoodCells(b) /\ b.flash = bus.flash /\ b.junk = bus.junk
         /\ b.bank = IF "KI" \in control /\ "CI" \notin control /\ "MI" \notin control
                     THEN byte ELSE bus.bank
<1> DEFINE fetched == [bus EXCEPT !.irq = ReadInterrupts(bus.irq)]
<1>1. CASE "CI" \in control
  <2>1. Driven(control, address, byte) = fetched
    BY <1>1 DEF Driven, GoodBus, BusFields
  <2>2. GoodBus(fetched)
    BY ReadGood, IrqGood DEF GoodBus
  <2>3. \A f \in BusFields \ {"irq"} : fetched[f] = bus[f]
    BY DEF GoodBus, BusFields
  <2> HIDE DEF fetched
  <2>4. /\ fetched.vram = bus.vram /\ fetched.ram = bus.ram /\ fetched.flash = bus.flash
        /\ fetched.junk = bus.junk /\ fetched.bank = bus.bank
    BY <2>3 DEF BusFields
  <2> QED
    BY <1>1, <2>1, <2>2, <2>4 DEF GoodCells
<1>2. CASE "CI" \notin control /\ "MI" \in control
  BY <1>2, WriteMemoryGood, WriteMemoryCells DEF Driven
<1>3. CASE "CI" \notin control /\ "MI" \notin control /\ "KI" \in control
  <2>1. Driven(control, address, byte) = SetBank(bus, byte)
    BY <1>3 DEF Driven
  <2>2. GoodBus(SetBank(bus, byte))
    BY BankGood
  <2>3. /\ SetBank(bus, byte).bank = byte
        /\ \A f \in {"vram", "ram", "flash", "junk"} : SetBank(bus, byte)[f] = bus[f]
    BY DEF SetBank, GoodBus, BusFields
  <2> QED
    BY <1>3, <2>1, <2>2, <2>3 DEF GoodCells
<1>4. CASE "CI" \notin control /\ "MI" \notin control /\ "KI" \notin control
  BY <1>4 DEF Driven
<1> QED
  BY <1>1, <1>2, <1>3, <1>4

LEMMA ClockGood ==
  ASSUME cpu \in Registers, GoodBus(bus), GoodCells(bus), ClockCPU
  PROVE  /\ cpu' \in Registers /\ GoodBus(bus)' /\ GoodCells(bus)'
         /\ bus'.flash = bus.flash /\ bus'.junk = bus.junk
<1> DEFINE control == Control
           address == AddressOut(control)
           byte    == DataBus(control, address)
<1>1. cpu' = Loaded(control, address, byte) /\ bus' = Driven(control, address, byte)
  BY DEF ClockCPU
<1>2. GoodWord(control)
  BY ControlGood DEF Registers
<1> HIDE DEF control
<1>3. address \in Word
  BY <1>2, AddressGood
<1> HIDE DEF address
<1>4. byte \in Byte
  BY <1>3, DataGood
<1> HIDE DEF byte
<1> QED
  BY <1>1, <1>2, <1>3, <1>4, LoadedGood, DrivenGood


-----------------------------------------------------------------------------
(* What the proof about a reset uses.                                      *)
LEMMA HalvesJoin ==
  ASSUME NEW h \in Byte, NEW l \in Byte
  PROVE  Low(256 * h + l) = l /\ High(256 * h + l) = h
BY DEF Low, High, Byte

LEMMA ZeroOut == FromBits(BitsOf(0) \cup BitsOf(0)) = 0
<1>1. \A p \in {1, 2, 4, 8, 16, 32, 64, 128} : (0 \div p) % 2 # 1
  OBVIOUS
<1>2. ASSUME NEW k \in 0 .. 7 PROVE (0 \div 2 ^ k) % 2 # 1
  <2> DEFINE Worth(n) == 2 ^ n
  <2>1. /\ Worth(0) = 1 /\ Worth(1) = 2 /\ Worth(2) = 4 /\ Worth(3) = 8
        /\ Worth(4) = 16 /\ Worth(5) = 32 /\ Worth(6) = 64 /\ Worth(7) = 128
    OBVIOUS
  <2>2. k \in {0, 1, 2, 3, 4, 5, 6, 7}
    OBVIOUS
  <2> HIDE DEF Worth
  <2>3. Worth(k) \in {1, 2, 4, 8, 16, 32, 64, 128}
    BY <2>1, <2>2
  <2> QED
    BY <1>1, <2>3 DEF Worth
<1>3. BitsOf(0) = {}
  BY <1>2 DEF BitsOf
<1> QED
  BY <1>3 DEF FromBits

LEMMA ZeroFlags == WithNZ(0, 0) = FLAG_Z
BY DEF WithNZ, WithFlag, Flag, FLAG_Z, FLAG_N

LEMMA ZeroAlu ==
  ASSUME NEW a, NEW f, NEW control, a = 0 \/ "EZ" \in control, "EO" \in control,
         "EN" \notin control, "ES" \notin control, "ER" \notin control, "EA" \notin control
  PROVE  LET alu == CalcALU(a, 0, f, control) IN
         /\ alu.out = 0
         /\ f = 0 /\ "FI" \in control /\ "FD" \notin control => alu.flags = FLAG_Z
BY ZeroOut, ZeroFlags DEF CalcALU

LEMMA RegisterFields ==
  ASSUME NEW r \in Registers
  PROVE  r = [step |-> r.step, reset |-> r.reset, A |-> r.A, X |-> r.X, K |-> r.K, C |-> r.C,
              F |-> r.F, P |-> r.P, B |-> r.B, S |-> r.S, I |-> r.I, T |-> r.T]
BY DEF Registers

LEMMA ReadsFlash ==
  ASSUME NEW b, NEW lines, NEW address \in Word, address >= BANK_START
  PROVE  ReadMemory(b, lines, address) = ReadFlash(b, address)
<1>1. /\ RAM_START \in Nat /\ IO_START \in Nat /\ BANK_START \in Nat /\ address \in Nat
      /\ RAM_START < IO_START /\ IO_START < BANK_START
  BY DEF RAM_START, IO_START, BANK_START, VRAM_START, VRAM_SIZE, RAM_SIZE, IO_SIZE, Word
<1>2. /\ ~(address < RAM_START) /\ address \notin RAM_START .. IO_START - 1
      /\ address \notin IO_START .. BANK_START - 1
  BY <1>1
<1> QED
  BY <1>2 DEF ReadMemory

LEMMA ResetControl ==
  ASSUME cpu \in Registers, cpu.reset
  PROVE  cpu.step \in 0 .. 12 => Control = ResetLines[cpu.step + 1].word
<1> SUFFICES ASSUME cpu.step \in 0 .. 12
             PROVE  Control = ResetLines[cpu.step + 1].word
  OBVIOUS
<1> DEFINE flags == cpu.F % 16  step == cpu.step
<1>1. flags \in 0 .. 15 /\ step \in 0 .. 15 /\ step + 1 \in 1 .. 13
  BY DEF Registers, Byte
<1> HIDE DEF flags
<1>2. DOMAIN ResetLines = 1 .. 13
      /\ \A i \in 1 .. 13 : ResetLines[i].at = "next" /\ ResetLines[i].on = {}
  BY DEF ResetLines, Line
<1>3. \A i \in 1 .. 13 : StepOf(ResetLines, i) = i - 1
  <2> SUFFICES ASSUME NEW i \in 1 .. 13 PROVE StepOf(ResetLines, i) = i - 1
    OBVIOUS
  <2>1. {j \in 1 .. i : ResetLines[j].at = "star"} = {}
    BY <1>2
  <2>2. {j \in 1 + 1 .. i : ResetLines[j].at = "same"} = {}
    BY <1>2
  <2> QED
    BY <2>1, <2>2, FS_EmptySet DEF StepOf
<1>4. Writes(ResetLines, flags, step) = {step + 1}
  BY <1>1, <1>2, <1>3 DEF Writes, Covers
<1>5. Compiled(ResetLines, flags, step) = ResetLines[step + 1].word
  BY <1>4 DEF Compiled, LastWord
<1>6. ResetRom[flags][step] = Compiled(ResetLines, flags, step)
  BY <1>1 DEF ResetRom, RomPage
<1> QED
  BY <1>5, <1>6 DEF Control, ReadControl, flags

(* What one clock loads.                                                   *)
LEMMA ClockLoads ==
  ASSUME cpu \in Registers, NEW control, NEW address, NEW byte, NEW regs,
         regs = Loaded(control, address, byte)
  PROVE  /\ regs.P = IF "PI" \in control THEN address ELSE cpu.P
         /\ regs.B = IF "BI" \in control THEN address ELSE cpu.B
         /\ regs.S = IF "SI" \in control THEN address ELSE cpu.S
         /\ regs.I = IF "II" \in control THEN address ELSE cpu.I
         /\ regs.F = IF "FI" \in control /\ "FD" \in control THEN byte
                     ELSE IF "FI" \in control
                     THEN CalcALU(cpu.A, byte, cpu.F, control).flags ELSE cpu.F
         /\ regs.A = IF "AI" \in control
                     THEN CalcALU(cpu.A, byte, cpu.F, control).out ELSE cpu.A
         /\ regs.X = IF "XI" \in control THEN byte ELSE cpu.X
         /\ regs.K = IF "KI" \in control THEN byte ELSE cpu.K
         /\ regs.T = CASE "TL" \in control -> 256 * High(cpu.T) + byte
                       [] "TH" \in control -> 256 * byte + Low(cpu.T)
                       [] OTHER            -> cpu.T
         /\ regs.reset = (cpu.reset /\ "CI" \notin control)
         /\ regs.step = IF "CI" \in control THEN 0 ELSE (cpu.step + 1) % 16
BY DEF Loaded, Registers, ResetLasts, NextStep

-----------------------------------------------------------------------------
(* The words of the control ROM, one by one. Lines that follow each other  *)
(* and are for all flags stand at the steps 0, 1, 2...                     *)
Linear(lines, n) == \A i \in 1 .. n : lines[i].at = "next" /\ lines[i].on = {}

LEMMA StepCounts ==
  ASSUME NEW lines, NEW i \in Nat, NEW skipped,
         {j \in 1 .. i : lines[j].at = "star"} = {},
         {j \in 2 .. i : lines[j].at = "same"} = skipped
  PROVE  StepOf(lines, i) = (i - 1) - Cardinality(skipped)
<1>1. 1 + 1 = 2
  OBVIOUS
<1> QED
  BY <1>1 DEF StepOf

LEMMA LinearSteps ==
  ASSUME NEW n \in Nat, NEW lines, DOMAIN lines = 1 .. n, Linear(lines, n),
         NEW flags, NEW step \in 0 .. n - 1
  PROVE  Compiled(lines, flags, step) = lines[step + 1].word
<1>1. \A i \in 1 .. n : StepOf(lines, i) = i - 1
  <2> SUFFICES ASSUME NEW i \in 1 .. n PROVE StepOf(lines, i) = i - 1
    OBVIOUS
  <2>1. {j \in 1 .. i : lines[j].at = "star"} = {}
    BY DEF Linear
  <2>2. {j \in 2 .. i : lines[j].at = "same"} = {}
    BY DEF Linear
  <2>3. i \in Nat /\ Cardinality({}) = 0
    BY FS_EmptySet
  <2>4. StepOf(lines, i) = (i - 1) - Cardinality({})
    BY <2>1, <2>2, <2>3, StepCounts
  <2> QED
    BY <2>3, <2>4
<1>2. Writes(lines, flags, step) = {step + 1}
  BY <1>1 DEF Writes, Covers, Linear
<1> QED
  BY <1>2 DEF Compiled, LastWord

(* Sequences of the same length with the same elements are the same.       *)
LEMMA SameSequence ==
  ASSUME NEW T, NEW s \in Seq(T), NEW t \in Seq(T), Len(s) = Len(t),
         \A i \in 1 .. Len(s) : s[i] = t[i]
  PROVE  s = t
OBVIOUS

(* The joined sequence is the given one.                                   *)
LEMMA JoinIs ==
  ASSUME NEW T, NEW s \in Seq(T), NEW t \in Seq(T), NEW u \in Seq(T), NEW n \in Nat, NEW k \in Nat,
         Len(s) = n, Len(t) = k, Len(u) = n + k,
         \A i \in 1 .. n : u[i] = s[i], \A i \in 1 .. k : u[n + i] = t[i]
  PROVE  s \o t = u
<1>1. s \o t \in Seq(T) /\ Len(s \o t) = n + k
  BY SMTT(30)
<1>2. ASSUME NEW i \in 1 .. n + k PROVE (s \o t)[i] = u[i]
  <2>1. (s \o t)[i] = IF i <= n THEN s[i] ELSE t[i - n]
    OBVIOUS
  <2>2. CASE i <= n
    <3>1. i \in 1 .. n
      BY <2>2
    <3> QED
      BY <2>1, <2>2, <3>1
  <2>3. CASE ~(i <= n)
    <3>1. i - n \in 1 .. k /\ n + (i - n) = i
      BY <2>3
    <3> QED
      BY <2>1, <2>3, <3>1
  <2> QED
    BY <2>2, <2>3
<1> QED
  BY <1>1, <1>2, SameSequence

LEMMA JoinTwo == ASSUME NEW a, NEW b PROVE <<a>> \o <<b>> = <<a, b>>
<1> DEFINE S == {a, b}  s == <<a>>  t == <<b>>  u == <<a, b>>  n == 1  k == 1
<1>1. s \in Seq(S) /\ t \in Seq(S) /\ u \in Seq(S) /\ Len(s) = n /\ Len(t) = k /\ Len(u) = n + k
      /\ n \in Nat /\ k \in Nat
  OBVIOUS
<1>2. (\A i \in 1 .. n : u[i] = s[i]) /\ \A i \in 1 .. k : u[n + i] = t[i]
  OBVIOUS
<1> HIDE DEF s, t, u, n, k, S
<1>3. s \o t = u
  BY <1>1, <1>2, JoinIs, ZenonT(60)
<1> QED
  BY <1>3 DEF s, t, u

LEMMA JoinThree == ASSUME NEW a, NEW b, NEW c PROVE <<a, b>> \o <<c>> = <<a, b, c>>
<1> DEFINE S == {a, b, c}  s == <<a, b>>  t == <<c>>  u == <<a, b, c>>  n == 2  k == 1
<1>1. s \in Seq(S) /\ t \in Seq(S) /\ u \in Seq(S) /\ Len(s) = n /\ Len(t) = k /\ Len(u) = n + k
      /\ n \in Nat /\ k \in Nat
  OBVIOUS
<1>2. (\A i \in 1 .. n : u[i] = s[i]) /\ \A i \in 1 .. k : u[n + i] = t[i]
  OBVIOUS
<1> HIDE DEF s, t, u, n, k, S
<1>3. s \o t = u
  BY <1>1, <1>2, JoinIs, ZenonT(60)
<1> QED
  BY <1>3 DEF s, t, u

LEMMA JoinFour == ASSUME NEW a, NEW b, NEW c, NEW d PROVE <<a, b, c>> \o <<d>> = <<a, b, c, d>>
<1> DEFINE S == {a, b, c, d}  s == <<a, b, c>>  t == <<d>>  u == <<a, b, c, d>>  n == 3  k == 1
<1>1. s \in Seq(S) /\ t \in Seq(S) /\ u \in Seq(S) /\ Len(s) = n /\ Len(t) = k /\ Len(u) = n + k
      /\ n \in Nat /\ k \in Nat
  OBVIOUS
<1>2. (\A i \in 1 .. n : u[i] = s[i]) /\ \A i \in 1 .. k : u[n + i] = t[i]
  OBVIOUS
<1> HIDE DEF s, t, u, n, k, S
<1>3. s \o t = u
  BY <1>1, <1>2, JoinIs, ZenonT(60)
<1> QED
  BY <1>3 DEF s, t, u

LEMMA JoinOneThree == ASSUME NEW a, NEW b, NEW c, NEW d PROVE <<a>> \o <<b, c, d>> = <<a, b, c, d>>
<1> DEFINE S == {a, b, c, d}  s == <<a>>  t == <<b, c, d>>  u == <<a, b, c, d>>  n == 1  k == 3
<1>1. s \in Seq(S) /\ t \in Seq(S) /\ u \in Seq(S) /\ Len(s) = n /\ Len(t) = k /\ Len(u) = n + k
      /\ n \in Nat /\ k \in Nat
  OBVIOUS
<1>2. (\A i \in 1 .. n : u[i] = s[i]) /\ \A i \in 1 .. k : u[n + i] = t[i]
  OBVIOUS
<1> HIDE DEF s, t, u, n, k, S
<1>3. s \o t = u
  BY <1>1, <1>2, JoinIs, ZenonT(60)
<1> QED
  BY <1>3 DEF s, t, u

LEMMA JoinTwoThree == ASSUME NEW a, NEW b, NEW c, NEW d, NEW e PROVE <<a, b>>
    \o <<c, d, e>> = <<a, b, c, d, e>>
<1> DEFINE S == {a, b, c, d, e}  s == <<a, b>>  t == <<c, d, e>>  u == <<a, b, c, d, e>>  n == 2  k == 3
<1>1. s \in Seq(S) /\ t \in Seq(S) /\ u \in Seq(S) /\ Len(s) = n /\ Len(t) = k /\ Len(u) = n + k
      /\ n \in Nat /\ k \in Nat
  OBVIOUS
<1>2. (\A i \in 1 .. n : u[i] = s[i]) /\ \A i \in 1 .. k : u[n + i] = t[i]
  OBVIOUS
<1> HIDE DEF s, t, u, n, k, S
<1>3. s \o t = u
  BY <1>1, <1>2, JoinIs, ZenonT(60)
<1> QED
  BY <1>3 DEF s, t, u

LEMMA JoinOneByOne == ASSUME NEW a, NEW b, NEW c PROVE <<a>> \o <<b>> \o <<c>> = <<a, b, c>>
<1>1. <<a>> \o <<b>> = <<a, b>>
  BY JoinTwo
<1> QED
  BY <1>1, JoinThree, Zenon

LEMMA JoinPair == ASSUME NEW a, NEW b, NEW c, NEW d PROVE <<a, b>> \o <<c>> \o <<d>> = <<a, b, c, d>>
<1>1. <<a, b>> \o <<c>> = <<a, b, c>>
  BY JoinThree
<1> QED
  BY <1>1, JoinFour, Zenon

(* The words of the opcodes whose lines are for all flags.                 *)
LEMMA ProgramWords ==
  ASSUME NEW f
  PROVE  /\ Compiled(Program(0), f, 0) = NextByte({"EZ", "AI", "FI"})
         /\ Compiled(Program(0), f, 1) = Fetch
         /\ Compiled(Program(2), f, 0) = NextByte({"XI"})
         /\ Compiled(Program(2), f, 1) = {"BO", "MO", "EZ", "EO", "AI", "FI"}
         /\ Compiled(Program(2), f, 2) = Fetch
         /\ Compiled(Program(28), f, 0) = NextByte({"XI"})
         /\ Compiled(Program(28), f, 1) = {"PO", "AO", "EO", "MI"}
         /\ Compiled(Program(28), f, 2) = Fetch
         /\ Compiled(Program(18), f, 0) = NextByte({"XI"})
         /\ Compiled(Program(18), f, 1) = {"BO", "PI", "ZO", "EO"}
         /\ Compiled(Program(18), f, 2) = Fetch
         /\ Compiled(Program(20), f, 0) = NextByte({"XI"})
         /\ Compiled(Program(20), f, 1) = {"PO", "PI", "ZO", "EO"}
         /\ Compiled(Program(20), f, 2) = Fetch
         /\ Compiled(Program(17), f, 0) = NextByte({"TL"})
         /\ Compiled(Program(17), f, 1) = NextByte({"TH"})
         /\ Compiled(Program(17), f, 2) = {"TO", "XZ", "PI", "ZO", "EO"}
         /\ Compiled(Program(17), f, 3) = Fetch
         /\ Compiled(Program(25), f, 0) = NextByte({"TL"})
         /\ Compiled(Program(25), f, 1) = NextByte({"TH"})
         /\ Compiled(Program(25), f, 2) = {"TO", "XZ", "AO", "EO", "MI"}
         /\ Compiled(Program(25), f, 3) = Fetch
         /\ Compiled(Program(34), f, 0) = {"PO", "XZ", "BI", "ZO", "EO"}
         /\ Compiled(Program(34), f, 1) = Fetch
         /\ Compiled(Program(35), f, 0) = {"PO", "XZ", "SI", "ZO", "EO"}
         /\ Compiled(Program(35), f, 1) = Fetch
         /\ Compiled(Program(80), f, 0) = Fetch
         /\ Compiled(Program(241), f, 0) = {"IO", "XZ", "XC", "MO", "EO", "XI"}
         /\ Compiled(Program(241), f, 1) = {"IO", "XN", "II", "MO", "EO", "CI"}
         /\ Compiled(Program(244), f, 0) = NextByte({"TL"})
         /\ Compiled(Program(244), f, 1) = NextByte({"TH"})
         /\ Compiled(Program(244), f, 2) = Goto
         /\ Compiled(Program(248), f, 0) = NextByte({"TL"})
         /\ Compiled(Program(248), f, 1) = NextByte({"TH"})
         /\ Compiled(Program(248), f, 2) = Push("IH")
         /\ Compiled(Program(248), f, 3) = Push("IL")
         /\ Compiled(Program(248), f, 4) = Goto
         /\ Compiled(Program(250), f, 0) = Peek({"TL"})
         /\ Compiled(Program(250), f, 1) = Pop({"TH"})
         /\ Compiled(Program(250), f, 2) = Drop
         /\ Compiled(Program(250), f, 3) = AfterT
         /\ Compiled(Program(254), f, 0) = Peek({"FI", "FD"})
         /\ Compiled(Program(254), f, 1) = Pop({"AI"})
         /\ Compiled(Program(254), f, 2) = Pop({"TL"})
         /\ Compiled(Program(254), f, 3) = Pop({"TH"})
         /\ Compiled(Program(254), f, 4) = Pop({"KI"})
         /\ Compiled(Program(254), f, 5) = Drop
         /\ Compiled(Program(254), f, 6) = AfterT
         /\ Compiled(Program(255), f, 0) = Push("KO")
         /\ Compiled(Program(255), f, 1) = Push("IH")
         /\ Compiled(Program(255), f, 2) = Push("IL")
         /\ Compiled(Program(255), f, 3) = Push("AO")
         /\ Compiled(Program(255), f, 4) = Push("FO")
         /\ Compiled(Program(255), f, 5) = Const("HO", {"TL"})
         /\ Compiled(Program(255), f, 6) = Const("HO", {"TH"})
         /\ Compiled(Program(255), f, 7) = {"TO", "XZ", "XN", "II", "ZO", "EO", "KI"}
         /\ Compiled(Program(255), f, 8) = {"IO", "XZ", "XN", "II", "MO", "EO", "TH"}
         /\ Compiled(Program(255), f, 9) = {"IO", "XZ", "XN", "MO", "EO", "TL"}
         /\ Compiled(Program(255), f, 10) = Goto
<1>1. Compiled(Program(0), f, 0) = NextByte({"EZ", "AI", "FI"}) /\ Compiled(Program(0), f, 1) = Fetch
  <2> DEFINE lines == Program(0)
  <2>1. lines = <<Line(NextByte({"EZ", "AI", "FI"})), Line(Fetch)>>
    <3>1. lines = <<Line(NextByte({"EZ", "AI", "FI"}))>> \o <<Line(Fetch)>>
      BY DEF Program, Indexed, Operand, Done
    <3> QED
      BY <3>1, JoinTwo, Zenon
  <2>2. DOMAIN lines = 1 .. 2 /\ Linear(lines, 2)
    BY <2>1 DEF Linear, Line
  <2>3. lines[1].word = NextByte({"EZ", "AI", "FI"}) /\ lines[2].word = Fetch
    BY <2>1 DEF Line
  <2> HIDE DEF lines
  <2>4. \A step \in 0 .. 2 - 1 : Compiled(lines, f, step) = lines[step + 1].word
    BY <2>2, LinearSteps
  <2> QED
    BY <2>3, <2>4 DEF lines
<1>2. /\ Compiled(Program(2), f, 0) = NextByte({"XI"})
      /\ Compiled(Program(2), f, 1) = {"BO", "MO", "EZ", "EO", "AI", "FI"}
      /\ Compiled(Program(2), f, 2) = Fetch
  <2> DEFINE lines == Program(2)
  <2>1. lines = <<Line(NextByte({"XI"})), Line({"BO", "MO", "EZ", "EO", "AI", "FI"}), Line(Fetch)>>
    <3>1. lines = <<Line(NextByte({"XI"}))>> \o <<Line({"BO", "MO", "EZ", "EO", "AI", "FI"})>>
              \o <<Line(Fetch)>>
      BY DEF Program, Indexed, Operand, Done
    <3> QED
      BY <3>1, JoinOneByOne, Zenon
  <2>2. DOMAIN lines = 1 .. 3 /\ Linear(lines, 3)
    BY <2>1 DEF Linear, Line
  <2>3. /\ lines[1].word = NextByte({"XI"})
        /\ lines[2].word = {"BO", "MO", "EZ", "EO", "AI", "FI"}
        /\ lines[3].word = Fetch
    BY <2>1 DEF Line
  <2> HIDE DEF lines
  <2>4. \A step \in 0 .. 3 - 1 : Compiled(lines, f, step) = lines[step + 1].word
    BY <2>2, LinearSteps
  <2> QED
    BY <2>3, <2>4 DEF lines
<1>3. /\ Compiled(Program(28), f, 0) = NextByte({"XI"})
      /\ Compiled(Program(28), f, 1) = {"PO", "AO", "EO", "MI"}
      /\ Compiled(Program(28), f, 2) = Fetch
  <2> DEFINE lines == Program(28)
  <2>1. lines = <<Line(NextByte({"XI"})), Line({"PO", "AO", "EO", "MI"}), Line(Fetch)>>
    <3>1. lines = <<Line(NextByte({"XI"}))>> \o <<Line({"PO", "AO", "EO", "MI"})>> \o <<Line(Fetch)>>
      BY DEF Program, Indexed, Operand, Done
    <3> QED
      BY <3>1, JoinOneByOne, Zenon
  <2>2. DOMAIN lines = 1 .. 3 /\ Linear(lines, 3)
    BY <2>1 DEF Linear, Line
  <2>3. /\ lines[1].word = NextByte({"XI"})
        /\ lines[2].word = {"PO", "AO", "EO", "MI"}
        /\ lines[3].word = Fetch
    BY <2>1 DEF Line
  <2> HIDE DEF lines
  <2>4. \A step \in 0 .. 3 - 1 : Compiled(lines, f, step) = lines[step + 1].word
    BY <2>2, LinearSteps
  <2> QED
    BY <2>3, <2>4 DEF lines
<1>4. /\ Compiled(Program(18), f, 0) = NextByte({"XI"})
      /\ Compiled(Program(18), f, 1) = {"BO", "PI", "ZO", "EO"}
      /\ Compiled(Program(18), f, 2) = Fetch
  <2> DEFINE lines == Program(18)
  <2>1. lines = <<Line(NextByte({"XI"})), Line({"BO", "PI", "ZO", "EO"}), Line(Fetch)>>
    <3>1. lines = <<Line(NextByte({"XI"}))>> \o <<Line({"BO", "PI", "ZO", "EO"})>> \o <<Line(Fetch)>>
      BY DEF Program, Indexed, Operand, Done
    <3> QED
      BY <3>1, JoinOneByOne, Zenon
  <2>2. DOMAIN lines = 1 .. 3 /\ Linear(lines, 3)
    BY <2>1 DEF Linear, Line
  <2>3. /\ lines[1].word = NextByte({"XI"})
        /\ lines[2].word = {"BO", "PI", "ZO", "EO"}
        /\ lines[3].word = Fetch
    BY <2>1 DEF Line
  <2> HIDE DEF lines
  <2>4. \A step \in 0 .. 3 - 1 : Compiled(lines, f, step) = lines[step + 1].word
    BY <2>2, LinearSteps
  <2> QED
    BY <2>3, <2>4 DEF lines
<1>5. /\ Compiled(Program(20), f, 0) = NextByte({"XI"})
      /\ Compiled(Program(20), f, 1) = {"PO", "PI", "ZO", "EO"}
      /\ Compiled(Program(20), f, 2) = Fetch
  <2> DEFINE lines == Program(20)
  <2>1. lines = <<Line(NextByte({"XI"})), Line({"PO", "PI", "ZO", "EO"}), Line(Fetch)>>
    <3>1. lines = <<Line(NextByte({"XI"}))>> \o <<Line({"PO", "PI", "ZO", "EO"})>> \o <<Line(Fetch)>>
      BY DEF Program, Indexed, Operand, Done
    <3> QED
      BY <3>1, JoinOneByOne, Zenon
  <2>2. DOMAIN lines = 1 .. 3 /\ Linear(lines, 3)
    BY <2>1 DEF Linear, Line
  <2>3. /\ lines[1].word = NextByte({"XI"})
        /\ lines[2].word = {"PO", "PI", "ZO", "EO"}
        /\ lines[3].word = Fetch
    BY <2>1 DEF Line
  <2> HIDE DEF lines
  <2>4. \A step \in 0 .. 3 - 1 : Compiled(lines, f, step) = lines[step + 1].word
    BY <2>2, LinearSteps
  <2> QED
    BY <2>3, <2>4 DEF lines
<1>6. /\ Compiled(Program(17), f, 0) = NextByte({"TL"})
      /\ Compiled(Program(17), f, 1) = NextByte({"TH"})
      /\ Compiled(Program(17), f, 2) = {"TO", "XZ", "PI", "ZO", "EO"}
      /\ Compiled(Program(17), f, 3) = Fetch
  <2> DEFINE lines == Program(17)
  <2>1. lines = <<Line(NextByte({"TL"})), Line(NextByte({"TH"})), Line({"TO", "XZ", "PI", "ZO", "EO"}),
            Line(Fetch)>>
    <3>1. lines = <<Line(NextByte({"TL"})), Line(NextByte({"TH"}))>>
              \o <<Line({"TO", "XZ", "PI", "ZO", "EO"})>> \o <<Line(Fetch)>>
      BY DEF Program, Indexed, Operand, Done
    <3> QED
      BY <3>1, JoinPair, Zenon
  <2>2. DOMAIN lines = 1 .. 4 /\ Linear(lines, 4)
    BY <2>1 DEF Linear, Line
  <2>3. /\ lines[1].word = NextByte({"TL"})
        /\ lines[2].word = NextByte({"TH"})
        /\ lines[3].word = {"TO", "XZ", "PI", "ZO", "EO"}
        /\ lines[4].word = Fetch
    BY <2>1 DEF Line
  <2> HIDE DEF lines
  <2>4. \A step \in 0 .. 4 - 1 : Compiled(lines, f, step) = lines[step + 1].word
    BY <2>2, LinearSteps
  <2> QED
    BY <2>3, <2>4 DEF lines
<1>7. /\ Compiled(Program(25), f, 0) = NextByte({"TL"})
      /\ Compiled(Program(25), f, 1) = NextByte({"TH"})
      /\ Compiled(Program(25), f, 2) = {"TO", "XZ", "AO", "EO", "MI"}
      /\ Compiled(Program(25), f, 3) = Fetch
  <2> DEFINE lines == Program(25)
  <2>1. lines = <<Line(NextByte({"TL"})), Line(NextByte({"TH"})), Line({"TO", "XZ", "AO", "EO", "MI"}),
            Line(Fetch)>>
    <3>1. lines = <<Line(NextByte({"TL"})), Line(NextByte({"TH"}))>>
              \o <<Line({"TO", "XZ", "AO", "EO", "MI"})>> \o <<Line(Fetch)>>
      BY DEF Program, Indexed, Operand, Done
    <3> QED
      BY <3>1, JoinPair, Zenon
  <2>2. DOMAIN lines = 1 .. 4 /\ Linear(lines, 4)
    BY <2>1 DEF Linear, Line
  <2>3. /\ lines[1].word = NextByte({"TL"})
        /\ lines[2].word = NextByte({"TH"})
        /\ lines[3].word = {"TO", "XZ", "AO", "EO", "MI"}
        /\ lines[4].word = Fetch
    BY <2>1 DEF Line
  <2> HIDE DEF lines
  <2>4. \A step \in 0 .. 4 - 1 : Compiled(lines, f, step) = lines[step + 1].word
    BY <2>2, LinearSteps
  <2> QED
    BY <2>3, <2>4 DEF lines
<1>8. Compiled(Program(34), f, 0) = {"PO", "XZ", "BI", "ZO", "EO"} /\ Compiled(Program(34), f, 1) = Fetch
  <2> DEFINE lines == Program(34)
  <2>1. lines = <<Line({"PO", "XZ", "BI", "ZO", "EO"}), Line(Fetch)>>
    <3>1. lines = <<Line({"PO", "XZ", "BI", "ZO", "EO"})>> \o <<Line(Fetch)>>
      BY DEF Program, Indexed, Operand, Done
    <3> QED
      BY <3>1, JoinTwo, Zenon
  <2>2. DOMAIN lines = 1 .. 2 /\ Linear(lines, 2)
    BY <2>1 DEF Linear, Line
  <2>3. lines[1].word = {"PO", "XZ", "BI", "ZO", "EO"} /\ lines[2].word = Fetch
    BY <2>1 DEF Line
  <2> HIDE DEF lines
  <2>4. \A step \in 0 .. 2 - 1 : Compiled(lines, f, step) = lines[step + 1].word
    BY <2>2, LinearSteps
  <2> QED
    BY <2>3, <2>4 DEF lines
<1>9. Compiled(Program(35), f, 0) = {"PO", "XZ", "SI", "ZO", "EO"} /\ Compiled(Program(35), f, 1) = Fetch
  <2> DEFINE lines == Program(35)
  <2>1. lines = <<Line({"PO", "XZ", "SI", "ZO", "EO"}), Line(Fetch)>>
    <3>1. lines = <<Line({"PO", "XZ", "SI", "ZO", "EO"})>> \o <<Line(Fetch)>>
      BY DEF Program, Indexed, Operand, Done
    <3> QED
      BY <3>1, JoinTwo, Zenon
  <2>2. DOMAIN lines = 1 .. 2 /\ Linear(lines, 2)
    BY <2>1 DEF Linear, Line
  <2>3. lines[1].word = {"PO", "XZ", "SI", "ZO", "EO"} /\ lines[2].word = Fetch
    BY <2>1 DEF Line
  <2> HIDE DEF lines
  <2>4. \A step \in 0 .. 2 - 1 : Compiled(lines, f, step) = lines[step + 1].word
    BY <2>2, LinearSteps
  <2> QED
    BY <2>3, <2>4 DEF lines
<1>10. Compiled(Program(80), f, 0) = Fetch
  <2> DEFINE lines == Program(80)
  <2>1. lines = <<Line(Fetch)>>
    BY DEF Program, Done
  <2>2. DOMAIN lines = 1 .. 1 /\ Linear(lines, 1)
    BY <2>1 DEF Linear, Line
  <2>3. lines[1].word = Fetch
    BY <2>1 DEF Line
  <2> HIDE DEF lines
  <2>4. \A step \in 0 .. 1 - 1 : Compiled(lines, f, step) = lines[step + 1].word
    BY <2>2, LinearSteps
  <2> QED
    BY <2>3, <2>4 DEF lines
<1>11. /\ Compiled(Program(241), f, 0) = {"IO", "XZ", "XC", "MO", "EO", "XI"}
       /\ Compiled(Program(241), f, 1) = {"IO", "XN", "II", "MO", "EO", "CI"}
  <2> DEFINE lines == Program(241)
  <2>1. lines = <<Line({"IO", "XZ", "XC", "MO", "EO", "XI"}), Line({"IO", "XN", "II", "MO", "EO", "CI"})>>
    BY DEF Program
  <2>2. DOMAIN lines = 1 .. 2 /\ Linear(lines, 2)
    BY <2>1 DEF Linear, Line
  <2>3. /\ lines[1].word = {"IO", "XZ", "XC", "MO", "EO", "XI"}
        /\ lines[2].word = {"IO", "XN", "II", "MO", "EO", "CI"}
    BY <2>1 DEF Line
  <2> HIDE DEF lines
  <2>4. \A step \in 0 .. 2 - 1 : Compiled(lines, f, step) = lines[step + 1].word
    BY <2>2, LinearSteps
  <2> QED
    BY <2>3, <2>4 DEF lines
<1>12. /\ Compiled(Program(244), f, 0) = NextByte({"TL"})
       /\ Compiled(Program(244), f, 1) = NextByte({"TH"})
       /\ Compiled(Program(244), f, 2) = Goto
  <2> DEFINE lines == Program(244)
  <2>1. lines = <<Line(NextByte({"TL"})), Line(NextByte({"TH"})), Line(Goto)>>
    <3>1. lines = <<Line(NextByte({"TL"})), Line(NextByte({"TH"}))>> \o <<Line(Goto)>>
      BY DEF Program, Indexed, Operand, Done
    <3> QED
      BY <3>1, JoinThree, Zenon
  <2>2. DOMAIN lines = 1 .. 3 /\ Linear(lines, 3)
    BY <2>1 DEF Linear, Line
  <2>3. lines[1].word = NextByte({"TL"}) /\ lines[2].word = NextByte({"TH"}) /\ lines[3].word = Goto
    BY <2>1 DEF Line
  <2> HIDE DEF lines
  <2>4. \A step \in 0 .. 3 - 1 : Compiled(lines, f, step) = lines[step + 1].word
    BY <2>2, LinearSteps
  <2> QED
    BY <2>3, <2>4 DEF lines
<1>13. /\ Compiled(Program(248), f, 0) = NextByte({"TL"})
       /\ Compiled(Program(248), f, 1) = NextByte({"TH"})
       /\ Compiled(Program(248), f, 2) = Push("IH")
       /\ Compiled(Program(248), f, 3) = Push("IL")
       /\ Compiled(Program(248), f, 4) = Goto
  <2> DEFINE lines == Program(248)
  <2>1. lines = <<Line(NextByte({"TL"})), Line(NextByte({"TH"})), Line(Push("IH")), Line(Push("IL")),
            Line(Goto)>>
    <3>1. lines = <<Line(NextByte({"TL"})), Line(NextByte({"TH"}))>>
              \o <<Line(Push("IH")), Line(Push("IL")), Line(Goto)>>
      BY DEF Program, Indexed, Operand, Done
    <3> QED
      BY <3>1, JoinTwoThree, ZenonT(60)
  <2>2. DOMAIN lines = 1 .. 5 /\ Linear(lines, 5)
    BY <2>1 DEF Linear, Line
  <2>3. /\ lines[1].word = NextByte({"TL"})
        /\ lines[2].word = NextByte({"TH"})
        /\ lines[3].word = Push("IH")
        /\ lines[4].word = Push("IL")
        /\ lines[5].word = Goto
    BY <2>1 DEF Line
  <2> HIDE DEF lines
  <2>4. \A step \in 0 .. 5 - 1 : Compiled(lines, f, step) = lines[step + 1].word
    BY <2>2, LinearSteps
  <2> QED
    BY <2>3, <2>4 DEF lines
<1>14. /\ Compiled(Program(250), f, 0) = Peek({"TL"})
       /\ Compiled(Program(250), f, 1) = Pop({"TH"})
       /\ Compiled(Program(250), f, 2) = Drop
       /\ Compiled(Program(250), f, 3) = AfterT
  <2> DEFINE lines == Program(250)
  <2>1. lines = <<Line(Peek({"TL"})), Line(Pop({"TH"})), Line(Drop), Line(AfterT)>>
    BY DEF Program
  <2>2. DOMAIN lines = 1 .. 4 /\ Linear(lines, 4)
    BY <2>1 DEF Linear, Line
  <2>3. /\ lines[1].word = Peek({"TL"})
        /\ lines[2].word = Pop({"TH"})
        /\ lines[3].word = Drop
        /\ lines[4].word = AfterT
    BY <2>1 DEF Line
  <2> HIDE DEF lines
  <2>4. \A step \in 0 .. 4 - 1 : Compiled(lines, f, step) = lines[step + 1].word
    BY <2>2, LinearSteps
  <2> QED
    BY <2>3, <2>4 DEF lines
<1>15. /\ Compiled(Program(254), f, 0) = Peek({"FI", "FD"})
       /\ Compiled(Program(254), f, 1) = Pop({"AI"})
       /\ Compiled(Program(254), f, 2) = Pop({"TL"})
       /\ Compiled(Program(254), f, 3) = Pop({"TH"})
       /\ Compiled(Program(254), f, 4) = Pop({"KI"})
       /\ Compiled(Program(254), f, 5) = Drop
       /\ Compiled(Program(254), f, 6) = AfterT
  <2> DEFINE lines == Program(254)
  <2>1. lines = <<Line(Peek({"FI", "FD"})), Line(Pop({"AI"})), Line(Pop({"TL"})), Line(Pop({"TH"})),
            Line(Pop({"KI"})), Line(Drop), Line(AfterT)>>
    BY DEF Program
  <2>2. DOMAIN lines = 1 .. 7 /\ Linear(lines, 7)
    BY <2>1 DEF Linear, Line
  <2>3. /\ lines[1].word = Peek({"FI", "FD"})
        /\ lines[2].word = Pop({"AI"})
        /\ lines[3].word = Pop({"TL"})
        /\ lines[4].word = Pop({"TH"})
        /\ lines[5].word = Pop({"KI"})
        /\ lines[6].word = Drop
        /\ lines[7].word = AfterT
    BY <2>1 DEF Line
  <2> HIDE DEF lines
  <2>4. \A step \in 0 .. 7 - 1 : Compiled(lines, f, step) = lines[step + 1].word
    BY <2>2, LinearSteps
  <2> QED
    BY <2>3, <2>4 DEF lines
<1>16. /\ Compiled(Program(255), f, 0) = Push("KO")
       /\ Compiled(Program(255), f, 1) = Push("IH")
       /\ Compiled(Program(255), f, 2) = Push("IL")
       /\ Compiled(Program(255), f, 3) = Push("AO")
       /\ Compiled(Program(255), f, 4) = Push("FO")
       /\ Compiled(Program(255), f, 5) = Const("HO", {"TL"})
       /\ Compiled(Program(255), f, 6) = Const("HO", {"TH"})
       /\ Compiled(Program(255), f, 7) = {"TO", "XZ", "XN", "II", "ZO", "EO", "KI"}
       /\ Compiled(Program(255), f, 8) = {"IO", "XZ", "XN", "II", "MO", "EO", "TH"}
       /\ Compiled(Program(255), f, 9) = {"IO", "XZ", "XN", "MO", "EO", "TL"}
       /\ Compiled(Program(255), f, 10) = Goto
  <2> DEFINE lines == Program(255)
  <2>1. lines = <<Line(Push("KO")), Line(Push("IH")), Line(Push("IL")), Line(Push("AO")),
            Line(Push("FO")), Line(Const("HO", {"TL"})), Line(Const("HO", {"TH"})),
                Line({"TO", "XZ", "XN", "II", "ZO", "EO", "KI"}),
                    Line({"IO", "XZ", "XN", "II", "MO", "EO", "TH"}),
                        Line({"IO", "XZ", "XN", "MO", "EO", "TL"}), Line(Goto)>>
    BY DEF Program
  <2>2. DOMAIN lines = 1 .. 11 /\ Linear(lines, 11)
    BY <2>1 DEF Linear, Line
  <2>3. /\ lines[1].word = Push("KO")
        /\ lines[2].word = Push("IH")
        /\ lines[3].word = Push("IL")
        /\ lines[4].word = Push("AO")
        /\ lines[5].word = Push("FO")
        /\ lines[6].word = Const("HO", {"TL"})
        /\ lines[7].word = Const("HO", {"TH"})
        /\ lines[8].word = {"TO", "XZ", "XN", "II", "ZO", "EO", "KI"}
        /\ lines[9].word = {"IO", "XZ", "XN", "II", "MO", "EO", "TH"}
        /\ lines[10].word = {"IO", "XZ", "XN", "MO", "EO", "TL"}
        /\ lines[11].word = Goto
    BY <2>1 DEF Line
  <2> HIDE DEF lines
  <2>4. \A step \in 0 .. 11 - 1 : Compiled(lines, f, step) = lines[step + 1].word
    BY <2>2, LinearSteps
  <2> QED
    BY <2>3, <2>4 DEF lines
<1> QED
  BY <1>1, <1>2, <1>3, <1>4, <1>5, <1>6, <1>7, <1>8, <1>9, <1>10, <1>11, <1>12, <1>13, <1>14, <1>15, <1>16

LEMMA StepRestarts ==
  ASSUME NEW lines, NEW i \in Nat, NEW first \in 1 .. i, lines[first].at = "star",
         \A j \in 1 .. i : j # first => lines[j].at = "next"
  PROVE  StepOf(lines, i) = i - first
<1>1. (CHOOSE j \in {first} : \A k \in {first} : k <= j) = first
  OBVIOUS
<1>2. /\ {j \in 1 .. i : lines[j].at = "star"} = {first}
      /\ {j \in first + 1 .. i : lines[j].at = "same"} = {}
  OBVIOUS
<1>3. Cardinality({}) = 0
  BY FS_EmptySet
<1>4. StepOf(lines, i) = (i - first) - Cardinality({})
  BY <1>1, <1>2, ZenonT(60) DEF StepOf
<1> QED
  BY <1>3, <1>4

LEMMA OneWrites ==
  ASSUME NEW lines, NEW f, NEW step, NEW i \in Nat, Writes(lines, f, step) = {i}
  PROVE  Compiled(lines, f, step) = lines[i].word
<1>1. (CHOOSE j \in {i} : \A k \in {i} : k <= j) = i
  OBVIOUS
<1> QED
  BY <1>1 DEF Compiled, LastWord

LEMMA LaterWrites ==
  ASSUME NEW lines, NEW f, NEW step, NEW h \in Nat, NEW i \in Nat, h < i, Writes(lines, f, step) = {h, i}
  PROVE  Compiled(lines, f, step) = lines[i].word
<1>1. (CHOOSE j \in {h, i} : \A k \in {h, i} : k <= j) = i
  OBVIOUS
<1> QED
  BY <1>1 DEF Compiled, LastWord

(* Two lines, and two more for some flags that start again at step 0: the  *)
(* later ones are what these flags find.                                   *)
Overwritten(a, b, c, d, on) ==
  <<Line(a), Line(b), Under(Restart(Line(c)), on), Under(Line(d), on)>>
Listed(on, f) == \E p \in on : Flag(f, p[1]) = p[2]

LEMMA OverwrittenSteps ==
  ASSUME NEW a, NEW b, NEW c, NEW d, NEW on, on # {}, NEW f
  PROVE  LET lines == Overwritten(a, b, c, d, on) IN
         /\ Listed(on, f)  => Compiled(lines, f, 0) = c /\ Compiled(lines, f, 1) = d
         /\ ~Listed(on, f) => Compiled(lines, f, 0) = a /\ Compiled(lines, f, 1) = b
<1> DEFINE lines == Overwritten(a, b, c, d, on)
<1>1. /\ DOMAIN lines = {1, 2, 3, 4}
      /\ lines[1] = Line(a) /\ lines[2] = Line(b)
      /\ lines[3] = Under(Restart(Line(c)), on) /\ lines[4] = Under(Line(d), on)
  BY DEF Overwritten
<1>2. /\ lines[1].at = "next" /\ lines[2].at = "next" /\ lines[3].at = "star" /\ lines[4].at = "next"
      /\ lines[1].on = {} /\ lines[2].on = {} /\ lines[3].on = on /\ lines[4].on = on
      /\ lines[1].word = a /\ lines[2].word = b /\ lines[3].word = c /\ lines[4].word = d
  BY <1>1 DEF Line, Under, Restart
<1> HIDE DEF lines
<1>3. StepOf(lines, 1) = 0 /\ StepOf(lines, 2) = 1
  <2>1. /\ {j \in 1 .. 1 : lines[j].at = "star"} = {} /\ {j \in 2 .. 1 : lines[j].at = "same"} = {}
        /\ {j \in 1 .. 2 : lines[j].at = "star"} = {} /\ {j \in 2 .. 2 : lines[j].at = "same"} = {}
    BY <1>2
  <2>2. /\ StepOf(lines, 1) = (1 - 1) - Cardinality({})
        /\ StepOf(lines, 2) = (2 - 1) - Cardinality({})
    BY <2>1, StepCounts
  <2> QED
    BY <2>2, FS_EmptySet
<1>4. StepOf(lines, 3) = 0 /\ StepOf(lines, 4) = 1
  <2>1. StepOf(lines, 3) = 3 - 3
    BY <1>2, StepRestarts
  <2>2. StepOf(lines, 4) = 4 - 3
    BY <1>2, StepRestarts
  <2> QED
    BY <2>1, <2>2
<1>5. \A i \in {1, 2, 3, 4} : Covers(lines[i], f) <=> i \in {1, 2} \/ Listed(on, f)
  BY <1>2 DEF Covers, Listed
<1>6. /\ Listed(on, f) => Writes(lines, f, 0) = {1, 3} /\ Writes(lines, f, 1) = {2, 4}
      /\ ~Listed(on, f) => Writes(lines, f, 0) = {1} /\ Writes(lines, f, 1) = {2}
  BY <1>1, <1>3, <1>4, <1>5 DEF Writes
<1>7. CASE Listed(on, f)
  <2>1. Compiled(lines, f, 0) = lines[3].word
    BY <1>6, <1>7, LaterWrites
  <2>2. Compiled(lines, f, 1) = lines[4].word
    BY <1>6, <1>7, LaterWrites
  <2> QED
    BY <1>2, <1>7, <2>1, <2>2 DEF lines
<1>8. CASE ~Listed(on, f)
  <2>1. Compiled(lines, f, 0) = lines[1].word
    BY <1>6, <1>8, OneWrites
  <2>2. Compiled(lines, f, 1) = lines[2].word
    BY <1>6, <1>8, OneWrites
  <2> QED
    BY <1>2, <1>8, <2>1, <2>2 DEF lines
<1> QED
  BY <1>7, <1>8

(* A step with one line for some flags and one for the others.             *)
Shared(a, b, c) ==
  <<Under(Line(a), {IfC(FALSE)}), Under(SameStep(Line(b)), {IfC(TRUE)}), Line(c)>>

LEMMA SharedStep ==
  ASSUME NEW a, NEW b, NEW c, NEW f
  PROVE  LET lines == Shared(a, b, c) IN
         /\ Flag(f, FLAG_C)  => Compiled(lines, f, 0) = b
         /\ ~Flag(f, FLAG_C) => Compiled(lines, f, 0) = a
         /\ Compiled(lines, f, 1) = c
<1> DEFINE lines == Shared(a, b, c)
<1>1. /\ DOMAIN lines = {1, 2, 3}
      /\ lines[1] = Under(Line(a), {IfC(FALSE)}) /\ lines[2] = Under(SameStep(Line(b)), {IfC(TRUE)})
      /\ lines[3] = Line(c)
  BY DEF Shared
<1> HIDE DEF lines
<1>2. /\ lines[1].at = "next" /\ lines[2].at = "same" /\ lines[3].at = "next"
      /\ lines[1].on = {IfC(FALSE)} /\ lines[2].on = {IfC(TRUE)} /\ lines[3].on = {}
      /\ lines[1].word = a /\ lines[2].word = b /\ lines[3].word = c
  BY <1>1 DEF Line, Under, SameStep
<1>3. StepOf(lines, 1) = 0 /\ StepOf(lines, 2) = 0 /\ StepOf(lines, 3) = 1
  <2>1. \A i \in 1 .. 3 : {j \in 1 .. i : lines[j].at = "star"} = {}
    BY <1>2
  <2>6. {j \in 2 .. 1 : lines[j].at = "same"} = {}
    OBVIOUS
  <2>3. {j \in 2 .. 2 : lines[j].at = "same"} = {2}
    BY <1>2
  <2>4. {j \in 2 .. 3 : lines[j].at = "same"} = {2}
    BY <1>2
  <2>5. Cardinality({}) = 0 /\ Cardinality({2}) = 1
    BY FS_EmptySet, FS_Singleton
  <2>2. /\ StepOf(lines, 1) = (1 - 1) - Cardinality({})
        /\ StepOf(lines, 2) = (2 - 1) - Cardinality({2})
        /\ StepOf(lines, 3) = (3 - 1) - Cardinality({2})
    BY <2>1, <2>3, <2>4, <2>6, StepCounts
  <2> QED
    BY <2>2, <2>5
<1>4. /\ Covers(lines[1], f) <=> ~Flag(f, FLAG_C)
      /\ Covers(lines[2], f) <=> Flag(f, FLAG_C)
      /\ Covers(lines[3], f)
  <2>1. IfC(FALSE)[1] = FLAG_C /\ IfC(FALSE)[2] = FALSE /\ IfC(TRUE)[1] = FLAG_C /\ IfC(TRUE)[2] = TRUE
    BY DEF IfC
  <2>2. Flag(f, FLAG_C) \in BOOLEAN
    BY DEF Flag
  <2> QED
    BY <1>2, <2>1, <2>2 DEF Covers
<1>5. /\ Flag(f, FLAG_C) => Writes(lines, f, 0) = {2}
      /\ ~Flag(f, FLAG_C) => Writes(lines, f, 0) = {1}
      /\ Writes(lines, f, 1) = {3}
  BY <1>1, <1>3, <1>4 DEF Writes
<1>6. Compiled(lines, f, 1) = lines[3].word
  BY <1>5, OneWrites
<1>7. Flag(f, FLAG_C) => Compiled(lines, f, 0) = lines[2].word
  BY <1>5, OneWrites
<1>8. ~Flag(f, FLAG_C) => Compiled(lines, f, 0) = lines[1].word
  BY <1>5, OneWrites
<1> QED
  BY <1>2, <1>6, <1>7, <1>8 DEF lines

(* The words of adc and of the conditional branches, for the flags that    *)
(* they look at.                                                           *)
LEMMA ConditionalWords ==
  ASSUME NEW f
  PROVE  LET sum   == {"IO", "XZ", "XC", "II", "MO", "ES", "AI", "FI"}
             below == Flag(f, FLAG_Z) \/ Flag(f, FLAG_N) IN
         /\ Compiled(Program(120), f, 1) = Fetch
         /\ Flag(f, FLAG_C)  => Compiled(Program(120), f, 0) = sum \cup {"EC"}
         /\ ~Flag(f, FLAG_C) => Compiled(Program(120), f, 0) = sum
         /\ Flag(f, FLAG_Z)  => /\ Compiled(Program(224), f, 0) = NextByte({"XI"})
                                /\ Compiled(Program(224), f, 1) = Take.word
         /\ ~Flag(f, FLAG_Z) => /\ Compiled(Program(224), f, 0) = NextByte({})
                                /\ Compiled(Program(224), f, 1) = Fetch
         /\ below  => /\ Compiled(Program(236), f, 0) = NextByte({})
                      /\ Compiled(Program(236), f, 1) = Fetch
                      /\ Compiled(Program(238), f, 0) = NextByte({"XI"})
                      /\ Compiled(Program(238), f, 1) = Take.word
         /\ ~below => /\ Compiled(Program(236), f, 0) = NextByte({"XI"})
                      /\ Compiled(Program(236), f, 1) = Take.word
                      /\ Compiled(Program(238), f, 0) = NextByte({})
                      /\ Compiled(Program(238), f, 1) = Fetch
<1> DEFINE sum == {"IO", "XZ", "XC", "II", "MO", "ES", "AI", "FI"}
           notZero == {IfZ(FALSE)}
           zeroOrMinus == {IfZ(TRUE), IfN(TRUE)}
<1>1. /\ Listed(notZero, f) <=> ~Flag(f, FLAG_Z)
      /\ Listed(zeroOrMinus, f) <=> Flag(f, FLAG_Z) \/ Flag(f, FLAG_N)
  <2>1. /\ IfZ(FALSE)[1] = FLAG_Z /\ IfZ(FALSE)[2] = FALSE /\ IfZ(TRUE)[1] = FLAG_Z /\ IfZ(TRUE)[2] = TRUE
        /\ IfN(TRUE)[1] = FLAG_N /\ IfN(TRUE)[2] = TRUE
    BY DEF IfZ, IfN
  <2>2. Flag(f, FLAG_Z) \in BOOLEAN /\ Flag(f, FLAG_N) \in BOOLEAN
    BY DEF Flag
  <2> QED
    BY <2>1, <2>2 DEF Listed
<1>2. notZero # {} /\ zeroOrMinus # {}
  OBVIOUS
<1>3. Take = Line(Take.word)
  BY DEF Take, Line
<1>4. Program(120) = Shared(sum, sum \cup {"EC"}, Fetch)
  <2>1. Program(120) = <<Under(Line(sum), {IfC(FALSE)}),
            Under(SameStep(Line(sum \cup {"EC"})), {IfC(TRUE)})>>
                       \o <<Line(Fetch)>>
    BY DEF Program, Done
  <2> QED
    BY <2>1, JoinThree, Zenon DEF Shared
<1>5. Program(224) = Overwritten(NextByte({"XI"}), Take.word, NextByte({}), Fetch, notZero)
  <2>1. Program(224) = <<Line(NextByte({"XI"}))>>
                       \o <<Take, Under(Restart(Line(NextByte({}))), notZero),
                           Under(Line(Fetch), notZero)>>
    BY DEF Program, Indexed
  <2> QED
    BY <1>3, <2>1, JoinOneThree, ZenonT(60) DEF Overwritten
<1>6. Program(236) = Overwritten(NextByte({"XI"}), Take.word, NextByte({}), Fetch, zeroOrMinus)
  <2>1. Program(236) = <<Line(NextByte({"XI"}))>>
                       \o <<Take, Under(Restart(Line(NextByte({}))), zeroOrMinus),
                           Under(Line(Fetch), zeroOrMinus)>>
    BY DEF Program, Indexed
  <2> QED
    BY <1>3, <2>1, JoinOneThree, ZenonT(60) DEF Overwritten
<1>7. Program(238) = Overwritten(NextByte({}), Fetch, NextByte({"XI"}), Take.word, zeroOrMinus)
  <2>1. Program(238) = <<Line(NextByte({})), Line(Fetch),
            Under(Restart(Line(NextByte({"XI"}))), zeroOrMinus),
                         Under(Take, zeroOrMinus)>>
    BY DEF Program
  <2> QED
    BY <1>3, <2>1, Zenon DEF Overwritten
<1> HIDE DEF sum, notZero, zeroOrMinus
<1>8. /\ Flag(f, FLAG_C)  => Compiled(Program(120), f, 0) = sum \cup {"EC"}
      /\ ~Flag(f, FLAG_C) => Compiled(Program(120), f, 0) = sum
      /\ Compiled(Program(120), f, 1) = Fetch
  BY <1>4, SharedStep
<1>9. /\ Flag(f, FLAG_Z)  => /\ Compiled(Program(224), f, 0) = NextByte({"XI"})
                             /\ Compiled(Program(224), f, 1) = Take.word
      /\ ~Flag(f, FLAG_Z) => /\ Compiled(Program(224), f, 0) = NextByte({})
                             /\ Compiled(Program(224), f, 1) = Fetch
  BY <1>1, <1>2, <1>5, OverwrittenSteps
<1>10. LET below == Flag(f, FLAG_Z) \/ Flag(f, FLAG_N) IN
       /\ below  => /\ Compiled(Program(236), f, 0) = NextByte({})
                    /\ Compiled(Program(236), f, 1) = Fetch
       /\ ~below => /\ Compiled(Program(236), f, 0) = NextByte({"XI"})
                    /\ Compiled(Program(236), f, 1) = Take.word
  BY <1>1, <1>2, <1>6, OverwrittenSteps
<1>11. LET below == Flag(f, FLAG_Z) \/ Flag(f, FLAG_N) IN
       /\ below  => /\ Compiled(Program(238), f, 0) = NextByte({"XI"})
                    /\ Compiled(Program(238), f, 1) = Take.word
       /\ ~below => /\ Compiled(Program(238), f, 0) = NextByte({})
                    /\ Compiled(Program(238), f, 1) = Fetch
  BY <1>1, <1>2, <1>7, OverwrittenSteps
<1> QED
  BY <1>8, <1>9, <1>10, <1>11 DEF sum

-----------------------------------------------------------------------------
(* What the arithmetic unit does for the words that use it.                *)
(* The bit numbers of a byte.                                              *)
LEMMA BitsIn ==
  ASSUME NEW b \in Byte
  PROVE  /\ 0 \in BitsOf(b) <=> b % 2 = 1
         /\ 1 \in BitsOf(b) <=> (b \div 2) % 2 = 1
         /\ 2 \in BitsOf(b) <=> (b \div 4) % 2 = 1
         /\ 3 \in BitsOf(b) <=> (b \div 8) % 2 = 1
         /\ 4 \in BitsOf(b) <=> (b \div 16) % 2 = 1
         /\ 5 \in BitsOf(b) <=> (b \div 32) % 2 = 1
         /\ 6 \in BitsOf(b) <=> (b \div 64) % 2 = 1
         /\ 7 \in BitsOf(b) <=> (b \div 128) % 2 = 1
<1> DEFINE Worth(n) == 2 ^ n
<1>1. /\ Worth(0) = 1 /\ Worth(1) = 2 /\ Worth(2) = 4 /\ Worth(3) = 8 /\ Worth(4) = 16
      /\ Worth(5) = 32 /\ Worth(6) = 64 /\ Worth(7) = 128
  OBVIOUS
<1>2. BitsOf(b) = {k \in 0 .. 7 : (b \div Worth(k)) % 2 = 1}
  BY DEF BitsOf
<1>3. b \div 1 = b
  BY DEF Byte
<1> HIDE DEF Worth
<1>4. \A k : k \in BitsOf(b) <=> k \in 0 .. 7 /\ (b \div Worth(k)) % 2 = 1
  BY <1>2
<1>5. /\ 0 \in 0 .. 7 /\ 1 \in 0 .. 7 /\ 2 \in 0 .. 7 /\ 3 \in 0 .. 7
      /\ 4 \in 0 .. 7 /\ 5 \in 0 .. 7 /\ 6 \in 0 .. 7 /\ 7 \in 0 .. 7
  OBVIOUS
<1> QED
  BY <1>1, <1>3, <1>4, <1>5

LEMMA HalfOf ==
  ASSUME NEW b \in Nat
  PROVE  b = 2 * (b \div 2) + (IF b % 2 = 1 THEN 1 ELSE 0)
OBVIOUS

(* An or with zero is the identity.                                        *)
LEMMA BitsJoin ==
  ASSUME NEW b \in Byte
  PROVE  FromBits(BitsOf(0) \cup BitsOf(b)) = b
<1> DEFINE s == BitsOf(0) \cup BitsOf(b)
           Bit(k) == IF k \in s THEN 1 ELSE 0
           h1 == b \div 2   h2 == b \div 4   h3 == b \div 8   h4 == b \div 16
           h5 == b \div 32  h6 == b \div 64  h7 == b \div 128
<1>1. 0 \in Byte /\ BitsOf(0) \subseteq 0 .. 7
  BY DEF Byte, BitsOf
<1>2. /\ 0 \notin BitsOf(0) /\ 1 \notin BitsOf(0) /\ 2 \notin BitsOf(0) /\ 3 \notin BitsOf(0)
      /\ 4 \notin BitsOf(0) /\ 5 \notin BitsOf(0) /\ 6 \notin BitsOf(0) /\ 7 \notin BitsOf(0)
  <2>1. \A p \in {1, 2, 4, 8, 16, 32, 64, 128} : (0 \div p) % 2 # 1
    OBVIOUS
  <2>2. 0 % 2 # 1
    OBVIOUS
  <2> QED
    BY <1>1, <2>1, <2>2, BitsIn
<1>3. /\ 0 \in s <=> b % 2 = 1
      /\ 1 \in s <=> h1 % 2 = 1
      /\ 2 \in s <=> h2 % 2 = 1
      /\ 3 \in s <=> h3 % 2 = 1
      /\ 4 \in s <=> h4 % 2 = 1
      /\ 5 \in s <=> h5 % 2 = 1
      /\ 6 \in s <=> h6 % 2 = 1
      /\ 7 \in s <=> h7 % 2 = 1
  BY <1>2, BitsIn
<1>4. /\ b \in Nat
      /\ h1 \in Nat
      /\ h2 \in Nat
      /\ h3 \in Nat
      /\ h4 \in Nat
      /\ h5 \in Nat
      /\ h6 \in Nat
      /\ h7 \in 0 .. 1
  BY DEF Byte
<1>5. /\ h1 \div 2 = h2 /\ h2 \div 2 = h3 /\ h3 \div 2 = h4
      /\ h4 \div 2 = h5 /\ h5 \div 2 = h6 /\ h6 \div 2 = h7
  BY DEF Byte
<1> HIDE DEF s
<1>6. b = 2 * h1 + Bit(0)
  BY <1>3, <1>4, HalfOf
<1> HIDE DEF h1, h2, h3, h4, h5, h6, h7
<1>7. h1 = 2 * h2 + Bit(1)
  BY <1>3, <1>4, <1>5, HalfOf
<1>8. h2 = 2 * h3 + Bit(2)
  BY <1>3, <1>4, <1>5, HalfOf
<1>9. h3 = 2 * h4 + Bit(3)
  BY <1>3, <1>4, <1>5, HalfOf
<1>10. h4 = 2 * h5 + Bit(4)
  BY <1>3, <1>4, <1>5, HalfOf
<1>11. h5 = 2 * h6 + Bit(5)
  BY <1>3, <1>4, <1>5, HalfOf
<1>12. h6 = 2 * h7 + Bit(6)
  BY <1>3, <1>4, <1>5, HalfOf
<1>13. h7 = Bit(7)
  BY <1>3, <1>4
<1>14. FromBits(s) = Bit(0) + 2 * Bit(1) + 4 * Bit(2) + 8 * Bit(3)
                     + 16 * Bit(4) + 32 * Bit(5) + 64 * Bit(6) + 128 * Bit(7)
  BY DEF FromBits
<1>15. \A k : Bit(k) \in Nat
  OBVIOUS
<1> HIDE DEF Bit
<1>16. FromBits(s) = b
  BY <1>4, <1>6, <1>7, <1>8, <1>9, <1>10, <1>11, <1>12, <1>13, <1>14, <1>15
<1> QED
  BY <1>16 DEF s

(* A byte through the arithmetic unit with EZ: itself, and its N and Z.    *)
LEMMA LoadAlu ==
  ASSUME NEW a, NEW byte \in Byte, NEW f, NEW w, "EZ" \in w, "EO" \in w,
         "EN" \notin w, "ES" \notin w, "ER" \notin w, "EA" \notin w, "FI" \in w, "FD" \notin w
  PROVE  CalcALU(a, byte, f, w).out = byte /\ CalcALU(a, byte, f, w).flags = WithNZ(f, byte)
BY BitsJoin DEF CalcALU

(* Without EZ: the bits of both.                                           *)
LEMMA MergeAlu ==
  ASSUME NEW a, NEW byte, NEW f, NEW w, "EZ" \notin w, "EO" \in w,
         "EN" \notin w, "ES" \notin w, "ER" \notin w, "EA" \notin w
  PROVE  CalcALU(a, byte, f, w).out = FromBits(BitsOf(a) \cup BitsOf(byte))
BY DEF CalcALU

(* Setting C and then N and Z is setting N and Z and then C.               *)
LEMMA FlagsCommute ==
  ASSUME NEW f \in 0 .. 15, NEW n \in BOOLEAN, NEW z \in BOOLEAN, NEW c \in BOOLEAN
  PROVE  WithFlag(WithFlag(WithFlag(f, 4, c), 2, n), 1, z) = WithFlag(WithFlag(WithFlag(f, 2, n), 1, z),
             4, c)
<1>1. \A g \in 0 .. 15 : /\ (g \div 4) % 2 = 1 <=> g \in {4, 5, 6, 7, 12, 13, 14, 15}
                         /\ (g \div 2) % 2 = 1 <=> g \in {2, 3, 6, 7, 10, 11, 14, 15}
                         /\ (g \div 1) % 2 = 1 <=> g \in {1, 3, 5, 7, 9, 11, 13, 15}
  OBVIOUS
<1> QED
  BY <1>1 DEF WithFlag, Flag

=============================================================================
