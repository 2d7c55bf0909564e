----------------------------- MODULE CpuProofs ------------------------------
(***************************************************************************)
(* Proofs about the processor running a program, for every flash image and *)
(* every content of fresh memory: that everything keeps its width, and     *)
(* that the microcode implements the instruction set.                      *)
(*                                                                         *)
(* The second needs an invariant that says, for every opcode and every     *)
(* step, what the words so far have done to the registers and the memory   *)
(* of the last boundary (Along). Each word's effect is a lemma, each       *)
(* opcode's lines are a lemma that follows its path to the fetch, and the  *)
(* fetch is the action of the instruction set (Isa).                       *)
(***************************************************************************)
EXTENDS CpuProgram, CpuLemmas

ProgramInv == cpu \in Registers /\ GoodBus(bus) /\ GoodCells(bus)

LEMMA ProgramInvStep == ProgramInv /\ [ProgramNext]_programVars => ProgramInv'
<1>1. CASE ProgramNext
  BY <1>1, ClockGood DEF ProgramInv, ProgramNext
<1>2. CASE UNCHANGED programVars
  BY <1>2 DEF ProgramInv, GoodBus, GoodCells, programVars, cpuVars
<1> QED
  BY <1>1, <1>2

(* Whatever bytes the program is made of, defined opcodes or not, no       *)
(* register, latch, bank number or memory cell ever leaves its width:      *)
(* every word of the control ROM drives both buses and the arithmetic unit *)
(* (cpu.c:46-126, alu.c, memory.c).                                        *)
THEOREM ProgramTypes == ProgramSpec => []TypeOK
<1>1. ProgramInit => ProgramInv
  <2> SUFFICES ASSUME ProgramInit PROVE ProgramInv
    OBVIOUS
  <2>1. PICK image \in Images, rest \in Junk : bus = InitMemory(image, rest)
    BY DEF ProgramInit
  <2>2. PowerOn \in Registers
    BY DEF PowerOn, Registers, Byte, Word
  <2> QED
    BY <2>1, <2>2, InitMemoryGood, InitCells DEF ProgramInit, ProgramInv
<1>2. ProgramInv => TypeOK
  BY DEF ProgramInv, TypeOK, GoodCells, GoodBus, GoodLatches
<1> QED
  BY <1>1, <1>2, ProgramInvStep, PTL DEF ProgramSpec

-----------------------------------------------------------------------------
(* What an instruction has done, word by word, to the registers r and the  *)
(* memory m of the last boundary; c and b are those after the words so far, *)
(* d is the keyboard's end of its lines.                                   *)
(* Sixteen bit sums and differences, the operands of the instruction and   *)
(* the top of the stack.                                                   *)
Fwd(w, n)  == (w + n) % 65536
Back(w, n) == (w + 65536 - n) % 65536
Next1(r, m, d) == ReadMemory(m, d, Fwd(r.I, 1))
Next2(r, m, d) == ReadMemory(m, d, Fwd(r.I, 2))
Operands(r, m, d) == 256 * Next2(r, m, d) + Next1(r, m, d)
Top(r, m, d, n) == ReadMemory(m, d, Fwd(r.S, n))
TopWord(r, m, d, n) == 256 * Top(r, m, d, n + 1) + Top(r, m, d, n)

(* The registers that a programmer sees, without the opcode.               *)
Regs(c, a, k, f, p, b, s, i) ==
  c.A = a /\ c.K = k /\ c.F = f /\ c.P = p /\ c.B = b /\ c.S = s /\ c.I = i
Kept(c, r, i) == Regs(c, r.A, r.K, r.F, r.P, r.B, r.S, i)

(* The reset sequence: T, P and the rest on the way to the reset vector.   *)
Booting(c, b, m, d) ==
  /\ c.reset /\ c.step \in 0 .. 12 /\ b = m /\ m.bank = 0
  /\ c.A = 0 /\ c.K = 0 /\ c.B = 0 /\ c.S = 0 /\ c.X = 0
  /\ c.F = IF c.step >= 5 THEN FLAG_Z ELSE 0
  /\ c.step = 0 => c.T = 0
  /\ c.step = 1 => c.T = 255
  /\ c.step \in 2 .. 5 => c.T = 65535
  /\ c.step = 3 => c.P = 65534
  /\ c.step = 4 => c.P = 65533
  /\ c.step = 5 => c.P = 65532
  /\ c.step = 6 => c.P = 65531 /\ c.T = 256 * ReadMemory(m, d, 65531) + 255
  /\ c.step = 7 => c.T = 256 * ReadMemory(m, d, 65531) + ReadMemory(m, d, 65530)
  /\ c.step >= 8 => c.I = 256 * ReadMemory(m, d, 65531) + ReadMemory(m, d, 65530)
  /\ c.step = 8 => Low(c.T) = 0
  /\ c.step = 9 => c.T = 0
  /\ c.step >= 10 => c.P = 0 /\ c.T = 0

(* lod #imm; mov P B, mov P S and nop; adc #imm.                           *)
AlongLod(c, b, r, m, d) ==
  c.C = 0 => c.step \in 0 .. 1 /\ (c.step = 1 =>
    b = m /\ Regs(c, Next1(r, m, d), r.K, WithNZ(r.F, Next1(r, m, d)), r.P, r.B, r.S, Fwd(r.I, 1)))
AlongMov(c, b, r, m) ==
  /\ c.C = 34 => c.step \in 0 .. 1 /\ (c.step = 1 => b = m /\ Regs(c, r.A, r.K, r.F, r.P, r.P, r.S, r.I))
  /\ c.C = 35 => c.step \in 0 .. 1 /\ (c.step = 1 => b = m /\ Regs(c, r.A, r.K, r.F, r.P, r.B, r.P, r.I))
  /\ c.C = 80 => c.step = 0
Sum(r, m, d) == r.A + Next1(r, m, d) + (IF Flag(r.F, FLAG_C) THEN 1 ELSE 0)
AlongAdc(c, b, r, m, d) ==
  c.C = 120 => c.step \in 0 .. 1 /\ (c.step = 1 =>
    b = m /\ Regs(c, Sum(r, m, d) % 256, r.K,
                  WithFlag(WithNZ(r.F, Sum(r, m, d) % 256), FLAG_C, Sum(r, m, d) >= 256),
                  r.P, r.B, r.S, Fwd(r.I, 1)))

(* lod B+#imm, sto P+#imm, lea B+#imm and lea P+#imm.                      *)
AlongIndexed(c, b, r, m, d) ==
  c.C \in {2, 28, 18, 20} =>
    /\ c.step \in 0 .. 2
    /\ c.step = 1 => c.X = Next1(r, m, d) /\ b = m /\ Kept(c, r, Fwd(r.I, 1))
    /\ c.step = 2 /\ c.C = 2 =>
         LET value == ReadMemory(m, d, Fwd(r.B, Next1(r, m, d))) IN
         b = m /\ Regs(c, value, r.K, WithNZ(r.F, value), r.P, r.B, r.S, Fwd(r.I, 1))
    /\ c.step = 2 /\ c.C = 28 =>
         b = WriteMemory(m, r.A, Fwd(r.P, Next1(r, m, d))) /\ Kept(c, r, Fwd(r.I, 1))
    /\ c.step = 2 /\ c.C = 18 =>
         b = m /\ Regs(c, r.A, r.K, r.F, Fwd(r.B, Next1(r, m, d)), r.B, r.S, Fwd(r.I, 1))
    /\ c.step = 2 /\ c.C = 20 =>
         b = m /\ Regs(c, r.A, r.K, r.F, Fwd(r.P, Next1(r, m, d)), r.B, r.S, Fwd(r.I, 1))

(* lea adr, sto adr, jmp and jsr.                                          *)
AlongOperand(c, b, r, m, d) ==
  c.C \in {17, 25, 244, 248} =>
    /\ c.step \in 0 .. 4 /\ (c.C \in {17, 25} => c.step <= 3) /\ (c.C = 244 => c.step <= 2)
    /\ c.step = 1 => Low(c.T) = Next1(r, m, d) /\ b = m /\ Kept(c, r, Fwd(r.I, 1))
    /\ c.step >= 2 => c.T = Operands(r, m, d)
    /\ c.step = 2 => b = m /\ Kept(c, r, Fwd(r.I, 2))
    /\ c.step = 3 /\ c.C = 17 => b = m /\ Regs(c, r.A, r.K, r.F, Operands(r, m, d), r.B, r.S, Fwd(r.I, 2))
    /\ c.step = 3 /\ c.C = 25 => b = WriteMemory(m, r.A, Operands(r, m, d)) /\ Kept(c, r, Fwd(r.I, 2))
    /\ c.step = 3 /\ c.C = 248 =>
         /\ b = WriteMemory(m, High(Fwd(r.I, 2)), Back(r.S, 1))
         /\ Regs(c, r.A, r.K, r.F, r.P, r.B, Back(r.S, 1), Fwd(r.I, 2))
    /\ c.step = 4 =>
         /\ b = WriteMemory(WriteMemory(m, High(Fwd(r.I, 2)), Back(r.S, 1)), Low(Fwd(r.I, 2)),
              Back(r.S, 2))
         /\ Regs(c, r.A, r.K, r.F, r.P, r.B, Back(r.S, 2), Fwd(r.I, 2))

(* The conditional branches, and bra.                                      *)
Taken(r) == \/ r.C = 224 /\ Flag(r.F, FLAG_Z)
            \/ r.C = 236 /\ ~Flag(r.F, FLAG_Z) /\ ~Flag(r.F, FLAG_N)
            \/ r.C = 238 /\ (Flag(r.F, FLAG_Z) \/ Flag(r.F, FLAG_N))
AlongBranch(c, b, r, m, d) ==
  /\ c.C \in {224, 236, 238} =>
       /\ c.step \in 0 .. 1
       /\ c.step = 1 => b = m /\ Kept(c, r, Fwd(r.I, 1)) /\ (Taken(r) => c.X = Next1(r, m, d))
  /\ c.C = 241 => c.step \in 0 .. 1 /\ (c.step = 1 => b = m /\ Kept(c, r, r.I) /\ c.X = Next1(r, m, d))

(* rts, rti and brk.                                                       *)
AlongRts(c, b, r, m, d) ==
  c.C = 250 =>
    /\ c.step \in 0 .. 3 /\ b = m
    /\ c.step = 1 => Low(c.T) = Top(r, m, d, 0) /\ Kept(c, r, r.I)
    /\ c.step = 2 => c.T = TopWord(r, m, d, 0) /\ Regs(c, r.A, r.K, r.F, r.P, r.B, Fwd(r.S, 1), r.I)
    /\ c.step = 3 => c.T = TopWord(r, m, d, 0) /\ Regs(c, r.A, r.K, r.F, r.P, r.B, Fwd(r.S, 2), r.I)
Merged(r, m, d) == FromBits(BitsOf(r.A) \cup BitsOf(Top(r, m, d, 1)))
AlongRti(c, b, r, m, d) ==
  c.C = 254 =>
    /\ c.step \in 0 .. 6
    /\ c.step <= 4 => b = m
    /\ c.step = 1 => Regs(c, r.A, r.K, Top(r, m, d, 0), r.P, r.B, r.S, r.I)
    /\ c.step \in 2 .. 4 => Regs(c, Merged(r, m, d), r.K, Top(r, m, d, 0), r.P, r.B, Fwd(r.S, c.step - 1),
         r.I)
    /\ c.step = 3 => Low(c.T) = Top(r, m, d, 2)
    /\ c.step >= 4 => c.T = TopWord(r, m, d, 2)
    /\ c.step >= 5 =>
         /\ b = SetBank(m, Top(r, m, d, 4))
         /\ Regs(c, Merged(r, m, d), Top(r, m, d, 4), Top(r, m, d, 0), r.P, r.B, Fwd(r.S, c.step - 1),
              r.I)
Push1(r, m) == WriteMemory(m, r.K, Back(r.S, 1))
Push2(r, m) == WriteMemory(Push1(r, m), High(r.I), Back(r.S, 2))
Push3(r, m) == WriteMemory(Push2(r, m), Low(r.I), Back(r.S, 3))
Push4(r, m) == WriteMemory(Push3(r, m), r.A, Back(r.S, 4))
Push5(r, m) == WriteMemory(Push4(r, m), r.F, Back(r.S, 5))
BrkVector(r, m, d) == 256 * ReadMemory(SetBank(Push5(r, m), 0), d,
    65533) + ReadMemory(SetBank(Push5(r, m), 0), d, 65532)
AlongBrk(c, b, r, m, d) ==
  c.C = 255 =>
    /\ c.step \in 0 .. 10
    /\ c.step = 1 => b = Push1(r, m)
    /\ c.step = 2 => b = Push2(r, m)
    /\ c.step = 3 => b = Push3(r, m)
    /\ c.step = 4 => b = Push4(r, m)
    /\ c.step \in 5 .. 7 => b = Push5(r, m)
    /\ c.step \in 1 .. 5 => Regs(c, r.A, r.K, r.F, r.P, r.B, Back(r.S, c.step), r.I)
    /\ c.step \in 6 .. 7 => Regs(c, r.A, r.K, r.F, r.P, r.B, Back(r.S, 5), r.I)
    /\ c.step = 6 => Low(c.T) = 255
    /\ c.step = 7 => c.T = 65535
    /\ c.step >= 8 => b = SetBank(Push5(r, m), 0)
    /\ c.step = 8 => Regs(c, r.A, 0, r.F, r.P, r.B, Back(r.S, 5), 65534)
    /\ c.step >= 9 => Regs(c, r.A, 0, r.F, r.P, r.B, Back(r.S, 5), 65533)
    /\ c.step = 9 => High(c.T) = ReadMemory(b, d, 65533)
    /\ c.step = 10 => c.T = BrkVector(r, m, d)

(* The path of the opcode of the last boundary.                            *)
Along(c, b, r, m, d) ==
  /\ r.reset => Booting(c, b, m, d)
  /\ ~r.reset =>
       /\ ~c.reset /\ c.C = r.C
       /\ c.step = 0 /\ c.C \in Opcodes => b = m /\ Kept(c, r, r.I)
       /\ AlongLod(c, b, r, m, d) /\ AlongMov(c, b, r, m) /\ AlongAdc(c, b, r, m, d)
       /\ AlongIndexed(c, b, r, m, d) /\ AlongOperand(c, b, r, m, d) /\ AlongBranch(c, b, r, m, d)
       /\ AlongRts(c, b, r, m, d) /\ AlongRti(c, b, r, m, d) /\ AlongBrk(c, b, r, m, d)
AlongInv == Along(cpu, bus, arch.regs, arch.bus, dev)

(* No device is there: no interrupt is ever latched.                       *)
Quiet == \A i \in Inter : ~bus.irq.in[i] /\ ~bus.irq.out[i]

-----------------------------------------------------------------------------
(* One clock of the word w.                                                *)
(* Between interrupts, and with four bits of flags, the control word is    *)
(* that of the opcode's program.                                           *)
LEMMA OpcodeControl ==
  ASSUME cpu \in Registers, ~cpu.reset, ~Pending, cpu.F < 16
  PROVE  Control = IF cpu.C \in Opcodes THEN Compiled(Program(cpu.C), cpu.F, cpu.step) ELSE Unwritten
<1>1. cpu.F \in 0 .. 15 /\ cpu.step \in 0 .. 15
  BY DEF Registers, Byte
<1>2. cpu.F \div 16 = 0 /\ cpu.F % 16 = cpu.F
  BY <1>1
<1>3. Control = ReadControl(cpu.step, cpu.F, cpu.C, FALSE, FALSE)
  BY <1>2 DEF Control, ReadControl
<1>4. cpu.C \in Opcodes => OpcodeRom[cpu.C][cpu.F][cpu.step] = Compiled(Program(cpu.C), cpu.F, cpu.step)
  BY <1>1 DEF OpcodeRom, RomPage
<1> QED
  BY <1>3, <1>4 DEF ReadControl

(* What the clock of the word w does.                                      *)
Clocked(w) ==
  LET address == AddressOut(w)
      byte == DataBus(w, address)
      alu  == CalcALU(cpu.A, byte, cpu.F, w) IN
  /\ GoodWord(w) /\ address \in Word /\ byte \in Byte
  /\ cpu'.P = IF "PI" \in w THEN address ELSE cpu.P
  /\ cpu'.B = IF "BI" \in w THEN address ELSE cpu.B
  /\ cpu'.S = IF "SI" \in w THEN address ELSE cpu.S
  /\ cpu'.I = IF "II" \in w THEN address ELSE cpu.I
  /\ cpu'.F = IF "FI" \in w /\ "FD" \in w THEN byte ELSE IF "FI" \in w THEN alu.flags ELSE cpu.F
  /\ cpu'.A = IF "AI" \in w THEN alu.out ELSE cpu.A
  /\ cpu'.X = IF "XI" \in w THEN byte ELSE cpu.X
  /\ cpu'.K = IF "KI" \in w THEN byte ELSE cpu.K
  /\ cpu'.C = IF "CI" \in w THEN byte ELSE cpu.C
  /\ cpu'.T = CASE "TL" \in w -> 256 * High(cpu.T) + byte
                [] "TH" \in w -> 256 * byte + Low(cpu.T)
                [] OTHER      -> cpu.T
  /\ cpu'.reset = (cpu.reset /\ "CI" \notin w)
  /\ cpu'.step = IF "CI" \in w THEN 0 ELSE (cpu.step + 1) % 16
  /\ bus' = Driven(w, address, byte)
  /\ arch' = IF "CI" \in w THEN Visible' ELSE arch

(* Every step of the program is the clock of its control word.             *)
LEMMA ClockIs ==
  ASSUME ProgramInv, ProgramNext
  PROVE  Clocked(Control)
<1> DEFINE w == Control
           address == AddressOut(w)
           byte == DataBus(w, address)
           alu == CalcALU(cpu.A, byte, cpu.F, w)
<1>1. cpu' = Loaded(w, address, byte) /\ bus' = Driven(w, address, byte)
  BY DEF ProgramNext, ClockCPU
<1>2. arch' = IF "CI" \in w THEN Visible' ELSE arch
  BY DEF ProgramNext, FetchesOpcode
<1>3. GoodWord(w)
  BY ControlGood DEF ProgramInv, Registers
<1> HIDE DEF w
<1>4. address \in Word
  BY <1>3, AddressGood DEF ProgramInv
<1>5. byte \in Byte
  BY <1>4, DataGood DEF ProgramInv
<1>6. cpu'.C = IF "CI" \in w THEN byte ELSE cpu.C
  <2> HIDE DEF address, byte
  <2> QED
    BY <1>1 DEF Loaded, ProgramInv, Registers
<1>7. Clocked(w)
  <2> HIDE DEF address, byte
  <2>1. /\ cpu'.P = IF "PI" \in w THEN address ELSE cpu.P
        /\ cpu'.B = IF "BI" \in w THEN address ELSE cpu.B
        /\ cpu'.S = IF "SI" \in w THEN address ELSE cpu.S
        /\ cpu'.I = IF "II" \in w THEN address ELSE cpu.I
        /\ cpu'.F = IF "FI" \in w /\ "FD" \in w THEN byte ELSE IF "FI" \in w THEN alu.flags ELSE cpu.F
        /\ cpu'.A = IF "AI" \in w THEN alu.out ELSE cpu.A
        /\ cpu'.X = IF "XI" \in w THEN byte ELSE cpu.X
        /\ cpu'.K = IF "KI" \in w THEN byte ELSE cpu.K
        /\ cpu'.T = CASE "TL" \in w -> 256 * High(cpu.T) + byte
                      [] "TH" \in w -> 256 * byte + Low(cpu.T)
                      [] OTHER      -> cpu.T
        /\ cpu'.reset = (cpu.reset /\ "CI" \notin w)
        /\ cpu'.step = IF "CI" \in w THEN 0 ELSE (cpu.step + 1) % 16
    BY <1>1, ClockLoads DEF ProgramInv
  <2> HIDE DEF alu
  <2> QED
    BY <1>1, <1>2, <1>3, <1>4, <1>5, <1>6, <2>1 DEF Clocked, address, byte, alu
<1> QED
  BY <1>7 DEF w

(* A word that does not end the instruction.                               *)
Inside == /\ cpu'.C = cpu.C /\ (cpu'.reset <=> cpu.reset) /\ cpu'.step = (cpu.step + 1) % 16
          /\ arch' = arch

-----------------------------------------------------------------------------
(* What each word of the opcodes does to registers that hold a, k, f, p,   *)
(* b, s and i. None of them ends the instruction.                          *)
LEMMA NextPlainEffect ==
  ASSUME ProgramInv, Clocked(NextByte({})),
         NEW a, NEW k, NEW f, NEW p, NEW b, NEW s, NEW i, Regs(cpu, a, k, f, p, b, s, i)
  PROVE  /\ Regs(cpu', a, k, f, p, b, s, Fwd(i, 1)) /\ bus' = bus /\ Inside
         /\ cpu'.X = cpu.X /\ cpu'.T = cpu.T
<1> DEFINE w == NextByte({})
<1>1. AddressOut(w) = Fwd(i, 1)
  BY DEF AddressOut, AddressBus, ProgramInv, Registers, Byte, Word, Regs, Fwd, Back, NextByte
<1>2. DataBus(w, Fwd(i, 1)) = ReadMemory(bus, dev, Fwd(i, 1))
  BY DEF DataBus, Regs, NextByte
<1>3. Driven(w, Fwd(i, 1), ReadMemory(bus, dev, Fwd(i, 1))) = bus
  BY DEF Driven, NextByte
<1>5. Regs(cpu', a, k, f, p, b, s, Fwd(i, 1))
  BY <1>1, <1>2 DEF Clocked, Regs, NextByte
<1>6. bus' = bus
  BY <1>1, <1>2, <1>3 DEF Clocked
<1>7. cpu'.X = cpu.X
  BY <1>1, <1>2 DEF Clocked, NextByte
<1>8. cpu'.T = cpu.T
  BY <1>1, <1>2 DEF Clocked, NextByte
<1>9. Inside
  BY DEF Clocked, Inside, NextByte
<1> QED
  BY <1>5, <1>6, <1>7, <1>8, <1>9

LEMMA NextIndexEffect ==
  ASSUME ProgramInv, Clocked(NextByte({"XI"})),
         NEW a, NEW k, NEW f, NEW p, NEW b, NEW s, NEW i, Regs(cpu, a, k, f, p, b, s, i)
  PROVE  /\ Regs(cpu', a, k, f, p, b, s, Fwd(i, 1)) /\ bus' = bus /\ Inside
         /\ cpu'.X = ReadMemory(bus, dev, Fwd(i, 1)) /\ cpu'.T = cpu.T
<1> DEFINE w == NextByte({"XI"})
<1>1. AddressOut(w) = Fwd(i, 1)
  BY DEF AddressOut, AddressBus, ProgramInv, Registers, Byte, Word, Regs, Fwd, Back, NextByte
<1>2. DataBus(w, Fwd(i, 1)) = ReadMemory(bus, dev, Fwd(i, 1))
  BY DEF DataBus, Regs, NextByte
<1>3. Driven(w, Fwd(i, 1), ReadMemory(bus, dev, Fwd(i, 1))) = bus
  BY DEF Driven, NextByte
<1>5. Regs(cpu', a, k, f, p, b, s, Fwd(i, 1))
  BY <1>1, <1>2 DEF Clocked, Regs, NextByte
<1>6. bus' = bus
  BY <1>1, <1>2, <1>3 DEF Clocked
<1>7. cpu'.X = ReadMemory(bus, dev, Fwd(i, 1))
  BY <1>1, <1>2 DEF Clocked, NextByte
<1>8. cpu'.T = cpu.T
  BY <1>1, <1>2 DEF Clocked, NextByte
<1>9. Inside
  BY DEF Clocked, Inside, NextByte
<1> QED
  BY <1>5, <1>6, <1>7, <1>8, <1>9

LEMMA NextLowEffect ==
  ASSUME ProgramInv, Clocked(NextByte({"TL"})),
         NEW a, NEW k, NEW f, NEW p, NEW b, NEW s, NEW i, Regs(cpu, a, k, f, p, b, s, i)
  PROVE  /\ Regs(cpu', a, k, f, p, b, s, Fwd(i, 1)) /\ bus' = bus /\ Inside
         /\ cpu'.X = cpu.X /\ cpu'.T = 256 * High(cpu.T) + ReadMemory(bus, dev, Fwd(i, 1))
<1> DEFINE w == NextByte({"TL"})
<1>1. AddressOut(w) = Fwd(i, 1)
  BY DEF AddressOut, AddressBus, ProgramInv, Registers, Byte, Word, Regs, Fwd, Back, NextByte
<1>2. DataBus(w, Fwd(i, 1)) = ReadMemory(bus, dev, Fwd(i, 1))
  BY DEF DataBus, Regs, NextByte
<1>3. Driven(w, Fwd(i, 1), ReadMemory(bus, dev, Fwd(i, 1))) = bus
  BY DEF Driven, NextByte
<1>5. Regs(cpu', a, k, f, p, b, s, Fwd(i, 1))
  BY <1>1, <1>2 DEF Clocked, Regs, NextByte
<1>6. bus' = bus
  BY <1>1, <1>2, <1>3 DEF Clocked
<1>7. cpu'.X = cpu.X
  BY <1>1, <1>2 DEF Clocked, NextByte
<1>8. cpu'.T = 256 * High(cpu.T) + ReadMemory(bus, dev, Fwd(i, 1))
  BY <1>1, <1>2 DEF Clocked, NextByte
<1>9. Inside
  BY DEF Clocked, Inside, NextByte
<1> QED
  BY <1>5, <1>6, <1>7, <1>8, <1>9

LEMMA NextHighEffect ==
  ASSUME ProgramInv, Clocked(NextByte({"TH"})),
         NEW a, NEW k, NEW f, NEW p, NEW b, NEW s, NEW i, Regs(cpu, a, k, f, p, b, s, i)
  PROVE  /\ Regs(cpu', a, k, f, p, b, s, Fwd(i, 1)) /\ bus' = bus /\ Inside
         /\ cpu'.X = cpu.X /\ cpu'.T = 256 * ReadMemory(bus, dev, Fwd(i, 1)) + Low(cpu.T)
<1> DEFINE w == NextByte({"TH"})
<1>1. AddressOut(w) = Fwd(i, 1)
  BY DEF AddressOut, AddressBus, ProgramInv, Registers, Byte, Word, Regs, Fwd, Back, NextByte
<1>2. DataBus(w, Fwd(i, 1)) = ReadMemory(bus, dev, Fwd(i, 1))
  BY DEF DataBus, Regs, NextByte
<1>3. Driven(w, Fwd(i, 1), ReadMemory(bus, dev, Fwd(i, 1))) = bus
  BY DEF Driven, NextByte
<1>5. Regs(cpu', a, k, f, p, b, s, Fwd(i, 1))
  BY <1>1, <1>2 DEF Clocked, Regs, NextByte
<1>6. bus' = bus
  BY <1>1, <1>2, <1>3 DEF Clocked
<1>7. cpu'.X = cpu.X
  BY <1>1, <1>2 DEF Clocked, NextByte
<1>8. cpu'.T = 256 * ReadMemory(bus, dev, Fwd(i, 1)) + Low(cpu.T)
  BY <1>1, <1>2 DEF Clocked, NextByte
<1>9. Inside
  BY DEF Clocked, Inside, NextByte
<1> QED
  BY <1>5, <1>6, <1>7, <1>8, <1>9

LEMMA LoadNextEffect ==
  ASSUME ProgramInv, Clocked(NextByte({"EZ", "AI", "FI"})),
         NEW a, NEW k, NEW f, NEW p, NEW b, NEW s, NEW i, Regs(cpu, a, k, f, p, b, s, i)
  PROVE  /\ Regs(cpu', ReadMemory(bus, dev, Fwd(i, 1)), k, WithNZ(f, ReadMemory(bus, dev, Fwd(i, 1))), p,
              b, s, Fwd(i, 1))
         /\ bus' = bus
         /\ Inside
         /\ cpu'.X = cpu.X /\ cpu'.T = cpu.T
<1> DEFINE w == NextByte({"EZ", "AI", "FI"})
<1>1. AddressOut(w) = Fwd(i, 1)
  BY DEF AddressOut, AddressBus, ProgramInv, Registers, Byte, Word, Regs, Fwd, Back, NextByte
<1>2. DataBus(w, Fwd(i, 1)) = ReadMemory(bus, dev, Fwd(i, 1))
  BY DEF DataBus, Regs, NextByte
<1>3. Driven(w, Fwd(i, 1), ReadMemory(bus, dev, Fwd(i, 1))) = bus
  BY DEF Driven, NextByte
<1>4. /\ CalcALU(a, ReadMemory(bus, dev, Fwd(i, 1)), f, w).out = ReadMemory(bus, dev, Fwd(i, 1))
      /\ CalcALU(a, ReadMemory(bus, dev, Fwd(i, 1)), f, w).flags = WithNZ(f,
           ReadMemory(bus, dev, Fwd(i, 1)))
  BY <1>1, <1>2, LoadAlu DEF Clocked, Regs, NextByte
<1>5. Regs(cpu', ReadMemory(bus, dev, Fwd(i, 1)), k, WithNZ(f, ReadMemory(bus, dev, Fwd(i, 1))), p, b, s,
          Fwd(i, 1))
  BY <1>1, <1>2, <1>4 DEF Clocked, Regs, NextByte
<1>6. bus' = bus
  BY <1>1, <1>2, <1>3 DEF Clocked
<1>7. cpu'.X = cpu.X
  BY <1>1, <1>2 DEF Clocked, NextByte
<1>8. cpu'.T = cpu.T
  BY <1>1, <1>2 DEF Clocked, NextByte
<1>9. Inside
  BY DEF Clocked, Inside, NextByte
<1> QED
  BY <1>5, <1>6, <1>7, <1>8, <1>9

LEMMA LoadBaseEffect ==
  ASSUME ProgramInv, Clocked({"BO", "MO", "EZ", "EO", "AI", "FI"}),
         NEW a, NEW k, NEW f, NEW p, NEW b, NEW s, NEW i, Regs(cpu, a, k, f, p, b, s, i)
  PROVE  /\ Regs(cpu', ReadMemory(bus, dev, (b + cpu.X) % 65536), k,
              WithNZ(f, ReadMemory(bus, dev, (b + cpu.X) % 65536)), p, b, s, i)
         /\ bus' = bus
         /\ Inside
         /\ cpu'.X = cpu.X /\ cpu'.T = cpu.T
<1> DEFINE w == {"BO", "MO", "EZ", "EO", "AI", "FI"}
<1>1. AddressOut(w) = (b + cpu.X) % 65536
  BY DEF AddressOut, AddressBus, ProgramInv, Registers, Byte, Word, Regs, Fwd, Back
<1>2. DataBus(w, (b + cpu.X) % 65536) = ReadMemory(bus, dev, (b + cpu.X) % 65536)
  BY DEF DataBus, Regs
<1>3. Driven(w, (b + cpu.X) % 65536, ReadMemory(bus, dev, (b + cpu.X) % 65536)) = bus
  BY DEF Driven
<1>4. /\ CalcALU(a, ReadMemory(bus, dev, (b + cpu.X) % 65536), f, w).out = ReadMemory(bus, dev,
           (b + cpu.X) % 65536)
      /\ CalcALU(a, ReadMemory(bus, dev, (b + cpu.X) % 65536), f, w).flags = WithNZ(f,
           ReadMemory(bus, dev, (b + cpu.X) % 65536))
  BY <1>1, <1>2, LoadAlu DEF Clocked, Regs
<1>5. Regs(cpu', ReadMemory(bus, dev, (b + cpu.X) % 65536), k,
          WithNZ(f, ReadMemory(bus, dev, (b + cpu.X) % 65536)), p, b, s, i)
  BY <1>1, <1>2, <1>4 DEF Clocked, Regs
<1>6. bus' = bus
  BY <1>1, <1>2, <1>3 DEF Clocked
<1>7. cpu'.X = cpu.X
  BY <1>1, <1>2 DEF Clocked
<1>8. cpu'.T = cpu.T
  BY <1>1, <1>2 DEF Clocked
<1>9. Inside
  BY DEF Clocked, Inside
<1> QED
  BY <1>5, <1>6, <1>7, <1>8, <1>9

LEMMA StorePtrEffect ==
  ASSUME ProgramInv, Clocked({"PO", "AO", "EO", "MI"}),
         NEW a, NEW k, NEW f, NEW p, NEW b, NEW s, NEW i, Regs(cpu, a, k, f, p, b, s, i)
  PROVE  /\ Regs(cpu', a, k, f, p, b, s, i) /\ bus' = WriteMemory(bus, a, (p + cpu.X) % 65536) /\ Inside
         /\ cpu'.X = cpu.X /\ cpu'.T = cpu.T
<1> DEFINE w == {"PO", "AO", "EO", "MI"}
<1>1. AddressOut(w) = (p + cpu.X) % 65536
  BY DEF AddressOut, AddressBus, ProgramInv, Registers, Byte, Word, Regs, Fwd, Back
<1>2. DataBus(w, (p + cpu.X) % 65536) = a
  BY DEF DataBus, Regs
<1>3. Driven(w, (p + cpu.X) % 65536, a) = WriteMemory(bus, a, (p + cpu.X) % 65536)
  BY DEF Driven
<1>5. Regs(cpu', a, k, f, p, b, s, i)
  BY <1>1, <1>2 DEF Clocked, Regs
<1>6. bus' = WriteMemory(bus, a, (p + cpu.X) % 65536)
  BY <1>1, <1>2, <1>3 DEF Clocked
<1>7. cpu'.X = cpu.X
  BY <1>1, <1>2 DEF Clocked
<1>8. cpu'.T = cpu.T
  BY <1>1, <1>2 DEF Clocked
<1>9. Inside
  BY DEF Clocked, Inside
<1> QED
  BY <1>5, <1>6, <1>7, <1>8, <1>9

LEMMA LeaBaseEffect ==
  ASSUME ProgramInv, Clocked({"BO", "PI", "ZO", "EO"}),
         NEW a, NEW k, NEW f, NEW p, NEW b, NEW s, NEW i, Regs(cpu, a, k, f, p, b, s, i)
  PROVE  /\ Regs(cpu', a, k, f, (b + cpu.X) % 65536, b, s, i) /\ bus' = bus /\ Inside
         /\ cpu'.X = cpu.X /\ cpu'.T = cpu.T
<1> DEFINE w == {"BO", "PI", "ZO", "EO"}
<1>1. AddressOut(w) = (b + cpu.X) % 65536
  BY DEF AddressOut, AddressBus, ProgramInv, Registers, Byte, Word, Regs, Fwd, Back
<1>2. DataBus(w, (b + cpu.X) % 65536) = 0
  BY DEF DataBus, Regs
<1>3. Driven(w, (b + cpu.X) % 65536, 0) = bus
  BY DEF Driven
<1>5. Regs(cpu', a, k, f, (b + cpu.X) % 65536, b, s, i)
  BY <1>1, <1>2 DEF Clocked, Regs
<1>6. bus' = bus
  BY <1>1, <1>2, <1>3 DEF Clocked
<1>7. cpu'.X = cpu.X
  BY <1>1, <1>2 DEF Clocked
<1>8. cpu'.T = cpu.T
  BY <1>1, <1>2 DEF Clocked
<1>9. Inside
  BY DEF Clocked, Inside
<1> QED
  BY <1>5, <1>6, <1>7, <1>8, <1>9

LEMMA LeaPtrEffect ==
  ASSUME ProgramInv, Clocked({"PO", "PI", "ZO", "EO"}),
         NEW a, NEW k, NEW f, NEW p, NEW b, NEW s, NEW i, Regs(cpu, a, k, f, p, b, s, i)
  PROVE  /\ Regs(cpu', a, k, f, (p + cpu.X) % 65536, b, s, i) /\ bus' = bus /\ Inside
         /\ cpu'.X = cpu.X /\ cpu'.T = cpu.T
<1> DEFINE w == {"PO", "PI", "ZO", "EO"}
<1>1. AddressOut(w) = (p + cpu.X) % 65536
  BY DEF AddressOut, AddressBus, ProgramInv, Registers, Byte, Word, Regs, Fwd, Back
<1>2. DataBus(w, (p + cpu.X) % 65536) = 0
  BY DEF DataBus, Regs
<1>3. Driven(w, (p + cpu.X) % 65536, 0) = bus
  BY DEF Driven
<1>5. Regs(cpu', a, k, f, (p + cpu.X) % 65536, b, s, i)
  BY <1>1, <1>2 DEF Clocked, Regs
<1>6. bus' = bus
  BY <1>1, <1>2, <1>3 DEF Clocked
<1>7. cpu'.X = cpu.X
  BY <1>1, <1>2 DEF Clocked
<1>8. cpu'.T = cpu.T
  BY <1>1, <1>2 DEF Clocked
<1>9. Inside
  BY DEF Clocked, Inside
<1> QED
  BY <1>5, <1>6, <1>7, <1>8, <1>9

LEMMA LeaAdrEffect ==
  ASSUME ProgramInv, Clocked({"TO", "XZ", "PI", "ZO", "EO"}),
         NEW a, NEW k, NEW f, NEW p, NEW b, NEW s, NEW i, Regs(cpu, a, k, f, p, b, s, i)
  PROVE  /\ Regs(cpu', a, k, f, cpu.T, b, s, i) /\ bus' = bus /\ Inside
         /\ cpu'.X = cpu.X /\ cpu'.T = cpu.T
<1> DEFINE w == {"TO", "XZ", "PI", "ZO", "EO"}
<1>1. AddressOut(w) = cpu.T
  BY DEF AddressOut, AddressBus, ProgramInv, Registers, Byte, Word, Regs, Fwd, Back
<1>2. DataBus(w, cpu.T) = 0
  BY DEF DataBus, Regs
<1>3. Driven(w, cpu.T, 0) = bus
  BY DEF Driven
<1>5. Regs(cpu', a, k, f, cpu.T, b, s, i)
  BY <1>1, <1>2 DEF Clocked, Regs
<1>6. bus' = bus
  BY <1>1, <1>2, <1>3 DEF Clocked
<1>7. cpu'.X = cpu.X
  BY <1>1, <1>2 DEF Clocked
<1>8. cpu'.T = cpu.T
  BY <1>1, <1>2 DEF Clocked
<1>9. Inside
  BY DEF Clocked, Inside
<1> QED
  BY <1>5, <1>6, <1>7, <1>8, <1>9

LEMMA StoreAdrEffect ==
  ASSUME ProgramInv, Clocked({"TO", "XZ", "AO", "EO", "MI"}),
         NEW a, NEW k, NEW f, NEW p, NEW b, NEW s, NEW i, Regs(cpu, a, k, f, p, b, s, i)
  PROVE  /\ Regs(cpu', a, k, f, p, b, s, i) /\ bus' = WriteMemory(bus, a, cpu.T) /\ Inside
         /\ cpu'.X = cpu.X /\ cpu'.T = cpu.T
<1> DEFINE w == {"TO", "XZ", "AO", "EO", "MI"}
<1>1. AddressOut(w) = cpu.T
  BY DEF AddressOut, AddressBus, ProgramInv, Registers, Byte, Word, Regs, Fwd, Back
<1>2. DataBus(w, cpu.T) = a
  BY DEF DataBus, Regs
<1>3. Driven(w, cpu.T, a) = WriteMemory(bus, a, cpu.T)
  BY DEF Driven
<1>5. Regs(cpu', a, k, f, p, b, s, i)
  BY <1>1, <1>2 DEF Clocked, Regs
<1>6. bus' = WriteMemory(bus, a, cpu.T)
  BY <1>1, <1>2, <1>3 DEF Clocked
<1>7. cpu'.X = cpu.X
  BY <1>1, <1>2 DEF Clocked
<1>8. cpu'.T = cpu.T
  BY <1>1, <1>2 DEF Clocked
<1>9. Inside
  BY DEF Clocked, Inside
<1> QED
  BY <1>5, <1>6, <1>7, <1>8, <1>9

LEMMA MovBaseEffect ==
  ASSUME ProgramInv, Clocked({"PO", "XZ", "BI", "ZO", "EO"}),
         NEW a, NEW k, NEW f, NEW p, NEW b, NEW s, NEW i, Regs(cpu, a, k, f, p, b, s, i)
  PROVE  /\ Regs(cpu', a, k, f, p, p, s, i) /\ bus' = bus /\ Inside
         /\ cpu'.X = cpu.X /\ cpu'.T = cpu.T
<1> DEFINE w == {"PO", "XZ", "BI", "ZO", "EO"}
<1>1. AddressOut(w) = p
  BY DEF AddressOut, AddressBus, ProgramInv, Registers, Byte, Word, Regs, Fwd, Back
<1>2. DataBus(w, p) = 0
  BY DEF DataBus, Regs
<1>3. Driven(w, p, 0) = bus
  BY DEF Driven
<1>5. Regs(cpu', a, k, f, p, p, s, i)
  BY <1>1, <1>2 DEF Clocked, Regs
<1>6. bus' = bus
  BY <1>1, <1>2, <1>3 DEF Clocked
<1>7. cpu'.X = cpu.X
  BY <1>1, <1>2 DEF Clocked
<1>8. cpu'.T = cpu.T
  BY <1>1, <1>2 DEF Clocked
<1>9. Inside
  BY DEF Clocked, Inside
<1> QED
  BY <1>5, <1>6, <1>7, <1>8, <1>9

LEMMA MovStackEffect ==
  ASSUME ProgramInv, Clocked({"PO", "XZ", "SI", "ZO", "EO"}),
         NEW a, NEW k, NEW f, NEW p, NEW b, NEW s, NEW i, Regs(cpu, a, k, f, p, b, s, i)
  PROVE  /\ Regs(cpu', a, k, f, p, b, p, i) /\ bus' = bus /\ Inside
         /\ cpu'.X = cpu.X /\ cpu'.T = cpu.T
<1> DEFINE w == {"PO", "XZ", "SI", "ZO", "EO"}
<1>1. AddressOut(w) = p
  BY DEF AddressOut, AddressBus, ProgramInv, Registers, Byte, Word, Regs, Fwd, Back
<1>2. DataBus(w, p) = 0
  BY DEF DataBus, Regs
<1>3. Driven(w, p, 0) = bus
  BY DEF Driven
<1>5. Regs(cpu', a, k, f, p, b, p, i)
  BY <1>1, <1>2 DEF Clocked, Regs
<1>6. bus' = bus
  BY <1>1, <1>2, <1>3 DEF Clocked
<1>7. cpu'.X = cpu.X
  BY <1>1, <1>2 DEF Clocked
<1>8. cpu'.T = cpu.T
  BY <1>1, <1>2 DEF Clocked
<1>9. Inside
  BY DEF Clocked, Inside
<1> QED
  BY <1>5, <1>6, <1>7, <1>8, <1>9

LEMMA BackOffsetEffect ==
  ASSUME ProgramInv, Clocked({"IO", "XZ", "XC", "MO", "EO", "XI"}),
         NEW a, NEW k, NEW f, NEW p, NEW b, NEW s, NEW i, Regs(cpu, a, k, f, p, b, s, i)
  PROVE  /\ Regs(cpu', a, k, f, p, b, s, i) /\ bus' = bus /\ Inside
         /\ cpu'.X = ReadMemory(bus, dev, Fwd(i, 1)) /\ cpu'.T = cpu.T
<1> DEFINE w == {"IO", "XZ", "XC", "MO", "EO", "XI"}
<1>1. AddressOut(w) = Fwd(i, 1)
  BY DEF AddressOut, AddressBus, ProgramInv, Registers, Byte, Word, Regs, Fwd, Back
<1>2. DataBus(w, Fwd(i, 1)) = ReadMemory(bus, dev, Fwd(i, 1))
  BY DEF DataBus, Regs
<1>3. Driven(w, Fwd(i, 1), ReadMemory(bus, dev, Fwd(i, 1))) = bus
  BY DEF Driven
<1>5. Regs(cpu', a, k, f, p, b, s, i)
  BY <1>1, <1>2 DEF Clocked, Regs
<1>6. bus' = bus
  BY <1>1, <1>2, <1>3 DEF Clocked
<1>7. cpu'.X = ReadMemory(bus, dev, Fwd(i, 1))
  BY <1>1, <1>2 DEF Clocked
<1>8. cpu'.T = cpu.T
  BY <1>1, <1>2 DEF Clocked
<1>9. Inside
  BY DEF Clocked, Inside
<1> QED
  BY <1>5, <1>6, <1>7, <1>8, <1>9

LEMMA PushKOEffect ==
  ASSUME ProgramInv, Clocked(Push("KO")),
         NEW a, NEW k, NEW f, NEW p, NEW b, NEW s, NEW i, Regs(cpu, a, k, f, p, b, s, i)
  PROVE  /\ Regs(cpu', a, k, f, p, b, Back(s, 1), i) /\ bus' = WriteMemory(bus, k, Back(s, 1)) /\ Inside
         /\ cpu'.X = cpu.X /\ cpu'.T = cpu.T
<1> DEFINE w == Push("KO")
<1>1. AddressOut(w) = Back(s, 1)
  BY DEF AddressOut, AddressBus, ProgramInv, Registers, Byte, Word, Regs, Fwd, Back, Push
<1>2. DataBus(w, Back(s, 1)) = k
  BY DEF DataBus, Regs, Push
<1>3. Driven(w, Back(s, 1), k) = WriteMemory(bus, k, Back(s, 1))
  BY DEF Driven, Push
<1>5. Regs(cpu', a, k, f, p, b, Back(s, 1), i)
  BY <1>1, <1>2 DEF Clocked, Regs, Push
<1>6. bus' = WriteMemory(bus, k, Back(s, 1))
  BY <1>1, <1>2, <1>3 DEF Clocked
<1>7. cpu'.X = cpu.X
  BY <1>1, <1>2 DEF Clocked, Push
<1>8. cpu'.T = cpu.T
  BY <1>1, <1>2 DEF Clocked, Push
<1>9. Inside
  BY DEF Clocked, Inside, Push
<1> QED
  BY <1>5, <1>6, <1>7, <1>8, <1>9

LEMMA PushIHEffect ==
  ASSUME ProgramInv, Clocked(Push("IH")),
         NEW a, NEW k, NEW f, NEW p, NEW b, NEW s, NEW i, Regs(cpu, a, k, f, p, b, s, i)
  PROVE  /\ Regs(cpu', a, k, f, p, b, Back(s, 1), i)
         /\ bus' = WriteMemory(bus, High(i), Back(s, 1))
         /\ Inside
         /\ cpu'.X = cpu.X /\ cpu'.T = cpu.T
<1> DEFINE w == Push("IH")
<1>1. AddressOut(w) = Back(s, 1)
  BY DEF AddressOut, AddressBus, ProgramInv, Registers, Byte, Word, Regs, Fwd, Back, Push
<1>2. DataBus(w, Back(s, 1)) = High(i)
  BY DEF DataBus, Regs, Push
<1>3. Driven(w, Back(s, 1), High(i)) = WriteMemory(bus, High(i), Back(s, 1))
  BY DEF Driven, Push
<1>5. Regs(cpu', a, k, f, p, b, Back(s, 1), i)
  BY <1>1, <1>2 DEF Clocked, Regs, Push
<1>6. bus' = WriteMemory(bus, High(i), Back(s, 1))
  BY <1>1, <1>2, <1>3 DEF Clocked
<1>7. cpu'.X = cpu.X
  BY <1>1, <1>2 DEF Clocked, Push
<1>8. cpu'.T = cpu.T
  BY <1>1, <1>2 DEF Clocked, Push
<1>9. Inside
  BY DEF Clocked, Inside, Push
<1> QED
  BY <1>5, <1>6, <1>7, <1>8, <1>9

LEMMA PushILEffect ==
  ASSUME ProgramInv, Clocked(Push("IL")),
         NEW a, NEW k, NEW f, NEW p, NEW b, NEW s, NEW i, Regs(cpu, a, k, f, p, b, s, i)
  PROVE  /\ Regs(cpu', a, k, f, p, b, Back(s, 1), i)
         /\ bus' = WriteMemory(bus, Low(i), Back(s, 1))
         /\ Inside
         /\ cpu'.X = cpu.X /\ cpu'.T = cpu.T
<1> DEFINE w == Push("IL")
<1>1. AddressOut(w) = Back(s, 1)
  BY DEF AddressOut, AddressBus, ProgramInv, Registers, Byte, Word, Regs, Fwd, Back, Push
<1>2. DataBus(w, Back(s, 1)) = Low(i)
  BY DEF DataBus, Regs, Push
<1>3. Driven(w, Back(s, 1), Low(i)) = WriteMemory(bus, Low(i), Back(s, 1))
  BY DEF Driven, Push
<1>5. Regs(cpu', a, k, f, p, b, Back(s, 1), i)
  BY <1>1, <1>2 DEF Clocked, Regs, Push
<1>6. bus' = WriteMemory(bus, Low(i), Back(s, 1))
  BY <1>1, <1>2, <1>3 DEF Clocked
<1>7. cpu'.X = cpu.X
  BY <1>1, <1>2 DEF Clocked, Push
<1>8. cpu'.T = cpu.T
  BY <1>1, <1>2 DEF Clocked, Push
<1>9. Inside
  BY DEF Clocked, Inside, Push
<1> QED
  BY <1>5, <1>6, <1>7, <1>8, <1>9

LEMMA PushAOEffect ==
  ASSUME ProgramInv, Clocked(Push("AO")),
         NEW a, NEW k, NEW f, NEW p, NEW b, NEW s, NEW i, Regs(cpu, a, k, f, p, b, s, i)
  PROVE  /\ Regs(cpu', a, k, f, p, b, Back(s, 1), i) /\ bus' = WriteMemory(bus, a, Back(s, 1)) /\ Inside
         /\ cpu'.X = cpu.X /\ cpu'.T = cpu.T
<1> DEFINE w == Push("AO")
<1>1. AddressOut(w) = Back(s, 1)
  BY DEF AddressOut, AddressBus, ProgramInv, Registers, Byte, Word, Regs, Fwd, Back, Push
<1>2. DataBus(w, Back(s, 1)) = a
  BY DEF DataBus, Regs, Push
<1>3. Driven(w, Back(s, 1), a) = WriteMemory(bus, a, Back(s, 1))
  BY DEF Driven, Push
<1>5. Regs(cpu', a, k, f, p, b, Back(s, 1), i)
  BY <1>1, <1>2 DEF Clocked, Regs, Push
<1>6. bus' = WriteMemory(bus, a, Back(s, 1))
  BY <1>1, <1>2, <1>3 DEF Clocked
<1>7. cpu'.X = cpu.X
  BY <1>1, <1>2 DEF Clocked, Push
<1>8. cpu'.T = cpu.T
  BY <1>1, <1>2 DEF Clocked, Push
<1>9. Inside
  BY DEF Clocked, Inside, Push
<1> QED
  BY <1>5, <1>6, <1>7, <1>8, <1>9

LEMMA PushFOEffect ==
  ASSUME ProgramInv, Clocked(Push("FO")),
         NEW a, NEW k, NEW f, NEW p, NEW b, NEW s, NEW i, Regs(cpu, a, k, f, p, b, s, i)
  PROVE  /\ Regs(cpu', a, k, f, p, b, Back(s, 1), i) /\ bus' = WriteMemory(bus, f, Back(s, 1)) /\ Inside
         /\ cpu'.X = cpu.X /\ cpu'.T = cpu.T
<1> DEFINE w == Push("FO")
<1>1. AddressOut(w) = Back(s, 1)
  BY DEF AddressOut, AddressBus, ProgramInv, Registers, Byte, Word, Regs, Fwd, Back, Push
<1>2. DataBus(w, Back(s, 1)) = f
  BY DEF DataBus, Regs, Push
<1>3. Driven(w, Back(s, 1), f) = WriteMemory(bus, f, Back(s, 1))
  BY DEF Driven, Push
<1>5. Regs(cpu', a, k, f, p, b, Back(s, 1), i)
  BY <1>1, <1>2 DEF Clocked, Regs, Push
<1>6. bus' = WriteMemory(bus, f, Back(s, 1))
  BY <1>1, <1>2, <1>3 DEF Clocked
<1>7. cpu'.X = cpu.X
  BY <1>1, <1>2 DEF Clocked, Push
<1>8. cpu'.T = cpu.T
  BY <1>1, <1>2 DEF Clocked, Push
<1>9. Inside
  BY DEF Clocked, Inside, Push
<1> QED
  BY <1>5, <1>6, <1>7, <1>8, <1>9

LEMMA PeekLowEffect ==
  ASSUME ProgramInv, Clocked(Peek({"TL"})),
         NEW a, NEW k, NEW f, NEW p, NEW b, NEW s, NEW i, Regs(cpu, a, k, f, p, b, s, i)
  PROVE  /\ Regs(cpu', a, k, f, p, b, s, i) /\ bus' = bus /\ Inside
         /\ cpu'.X = cpu.X /\ cpu'.T = 256 * High(cpu.T) + ReadMemory(bus, dev, s)
<1> DEFINE w == Peek({"TL"})
<1>1. AddressOut(w) = s
  BY DEF AddressOut, AddressBus, ProgramInv, Registers, Byte, Word, Regs, Fwd, Back, Peek
<1>2. DataBus(w, s) = ReadMemory(bus, dev, s)
  BY DEF DataBus, Regs, Peek
<1>3. Driven(w, s, ReadMemory(bus, dev, s)) = bus
  BY DEF Driven, Peek
<1>5. Regs(cpu', a, k, f, p, b, s, i)
  BY <1>1, <1>2 DEF Clocked, Regs, Peek
<1>6. bus' = bus
  BY <1>1, <1>2, <1>3 DEF Clocked
<1>7. cpu'.X = cpu.X
  BY <1>1, <1>2 DEF Clocked, Peek
<1>8. cpu'.T = 256 * High(cpu.T) + ReadMemory(bus, dev, s)
  BY <1>1, <1>2 DEF Clocked, Peek
<1>9. Inside
  BY DEF Clocked, Inside, Peek
<1> QED
  BY <1>5, <1>6, <1>7, <1>8, <1>9

LEMMA PeekFlagsEffect ==
  ASSUME ProgramInv, Clocked(Peek({"FI", "FD"})),
         NEW a, NEW k, NEW f, NEW p, NEW b, NEW s, NEW i, Regs(cpu, a, k, f, p, b, s, i)
  PROVE  /\ Regs(cpu', a, k, ReadMemory(bus, dev, s), p, b, s, i) /\ bus' = bus /\ Inside
         /\ cpu'.X = cpu.X /\ cpu'.T = cpu.T
<1> DEFINE w == Peek({"FI", "FD"})
<1>1. AddressOut(w) = s
  BY DEF AddressOut, AddressBus, ProgramInv, Registers, Byte, Word, Regs, Fwd, Back, Peek
<1>2. DataBus(w, s) = ReadMemory(bus, dev, s)
  BY DEF DataBus, Regs, Peek
<1>3. Driven(w, s, ReadMemory(bus, dev, s)) = bus
  BY DEF Driven, Peek
<1>5. Regs(cpu', a, k, ReadMemory(bus, dev, s), p, b, s, i)
  BY <1>1, <1>2 DEF Clocked, Regs, Peek
<1>6. bus' = bus
  BY <1>1, <1>2, <1>3 DEF Clocked
<1>7. cpu'.X = cpu.X
  BY <1>1, <1>2 DEF Clocked, Peek
<1>8. cpu'.T = cpu.T
  BY <1>1, <1>2 DEF Clocked, Peek
<1>9. Inside
  BY DEF Clocked, Inside, Peek
<1> QED
  BY <1>5, <1>6, <1>7, <1>8, <1>9

LEMMA PopLowEffect ==
  ASSUME ProgramInv, Clocked(Pop({"TL"})),
         NEW a, NEW k, NEW f, NEW p, NEW b, NEW s, NEW i, Regs(cpu, a, k, f, p, b, s, i)
  PROVE  /\ Regs(cpu', a, k, f, p, b, Fwd(s, 1), i) /\ bus' = bus /\ Inside
         /\ cpu'.X = cpu.X /\ cpu'.T = 256 * High(cpu.T) + ReadMemory(bus, dev, Fwd(s, 1))
<1> DEFINE w == Pop({"TL"})
<1>1. AddressOut(w) = Fwd(s, 1)
  BY DEF AddressOut, AddressBus, ProgramInv, Registers, Byte, Word, Regs, Fwd, Back, Pop
<1>2. DataBus(w, Fwd(s, 1)) = ReadMemory(bus, dev, Fwd(s, 1))
  BY DEF DataBus, Regs, Pop
<1>3. Driven(w, Fwd(s, 1), ReadMemory(bus, dev, Fwd(s, 1))) = bus
  BY DEF Driven, Pop
<1>5. Regs(cpu', a, k, f, p, b, Fwd(s, 1), i)
  BY <1>1, <1>2 DEF Clocked, Regs, Pop
<1>6. bus' = bus
  BY <1>1, <1>2, <1>3 DEF Clocked
<1>7. cpu'.X = cpu.X
  BY <1>1, <1>2 DEF Clocked, Pop
<1>8. cpu'.T = 256 * High(cpu.T) + ReadMemory(bus, dev, Fwd(s, 1))
  BY <1>1, <1>2 DEF Clocked, Pop
<1>9. Inside
  BY DEF Clocked, Inside, Pop
<1> QED
  BY <1>5, <1>6, <1>7, <1>8, <1>9

LEMMA PopHighEffect ==
  ASSUME ProgramInv, Clocked(Pop({"TH"})),
         NEW a, NEW k, NEW f, NEW p, NEW b, NEW s, NEW i, Regs(cpu, a, k, f, p, b, s, i)
  PROVE  /\ Regs(cpu', a, k, f, p, b, Fwd(s, 1), i) /\ bus' = bus /\ Inside
         /\ cpu'.X = cpu.X /\ cpu'.T = 256 * ReadMemory(bus, dev, Fwd(s, 1)) + Low(cpu.T)
<1> DEFINE w == Pop({"TH"})
<1>1. AddressOut(w) = Fwd(s, 1)
  BY DEF AddressOut, AddressBus, ProgramInv, Registers, Byte, Word, Regs, Fwd, Back, Pop
<1>2. DataBus(w, Fwd(s, 1)) = ReadMemory(bus, dev, Fwd(s, 1))
  BY DEF DataBus, Regs, Pop
<1>3. Driven(w, Fwd(s, 1), ReadMemory(bus, dev, Fwd(s, 1))) = bus
  BY DEF Driven, Pop
<1>5. Regs(cpu', a, k, f, p, b, Fwd(s, 1), i)
  BY <1>1, <1>2 DEF Clocked, Regs, Pop
<1>6. bus' = bus
  BY <1>1, <1>2, <1>3 DEF Clocked
<1>7. cpu'.X = cpu.X
  BY <1>1, <1>2 DEF Clocked, Pop
<1>8. cpu'.T = 256 * ReadMemory(bus, dev, Fwd(s, 1)) + Low(cpu.T)
  BY <1>1, <1>2 DEF Clocked, Pop
<1>9. Inside
  BY DEF Clocked, Inside, Pop
<1> QED
  BY <1>5, <1>6, <1>7, <1>8, <1>9

LEMMA PopAEffect ==
  ASSUME ProgramInv, Clocked(Pop({"AI"})),
         NEW a, NEW k, NEW f, NEW p, NEW b, NEW s, NEW i, Regs(cpu, a, k, f, p, b, s, i)
  PROVE  /\ Regs(cpu', FromBits(BitsOf(a) \cup BitsOf(ReadMemory(bus, dev, Fwd(s, 1)))), k, f, p, b,
              Fwd(s, 1), i)
         /\ bus' = bus
         /\ Inside
         /\ cpu'.X = cpu.X /\ cpu'.T = cpu.T
<1> DEFINE w == Pop({"AI"})
<1>1. AddressOut(w) = Fwd(s, 1)
  BY DEF AddressOut, AddressBus, ProgramInv, Registers, Byte, Word, Regs, Fwd, Back, Pop
<1>2. DataBus(w, Fwd(s, 1)) = ReadMemory(bus, dev, Fwd(s, 1))
  BY DEF DataBus, Regs, Pop
<1>3. Driven(w, Fwd(s, 1), ReadMemory(bus, dev, Fwd(s, 1))) = bus
  BY DEF Driven, Pop
<1>4. CalcALU(a, ReadMemory(bus, dev, Fwd(s, 1)), f,
          w).out = FromBits(BitsOf(a) \cup BitsOf(ReadMemory(bus, dev, Fwd(s, 1))))
  BY <1>1, <1>2, MergeAlu DEF Clocked, Regs, Pop
<1>5. Regs(cpu', FromBits(BitsOf(a) \cup BitsOf(ReadMemory(bus, dev, Fwd(s, 1)))), k, f, p, b, Fwd(s, 1),
          i)
  BY <1>1, <1>2, <1>4 DEF Clocked, Regs, Pop
<1>6. bus' = bus
  BY <1>1, <1>2, <1>3 DEF Clocked
<1>7. cpu'.X = cpu.X
  BY <1>1, <1>2 DEF Clocked, Pop
<1>8. cpu'.T = cpu.T
  BY <1>1, <1>2 DEF Clocked, Pop
<1>9. Inside
  BY DEF Clocked, Inside, Pop
<1> QED
  BY <1>5, <1>6, <1>7, <1>8, <1>9

LEMMA PopBankEffect ==
  ASSUME ProgramInv, Clocked(Pop({"KI"})),
         NEW a, NEW k, NEW f, NEW p, NEW b, NEW s, NEW i, Regs(cpu, a, k, f, p, b, s, i)
  PROVE  /\ Regs(cpu', a, ReadMemory(bus, dev, Fwd(s, 1)), f, p, b, Fwd(s, 1), i)
         /\ bus' = SetBank(bus, ReadMemory(bus, dev, Fwd(s, 1)))
         /\ Inside
         /\ cpu'.X = cpu.X /\ cpu'.T = cpu.T
<1> DEFINE w == Pop({"KI"})
<1>1. AddressOut(w) = Fwd(s, 1)
  BY DEF AddressOut, AddressBus, ProgramInv, Registers, Byte, Word, Regs, Fwd, Back, Pop
<1>2. DataBus(w, Fwd(s, 1)) = ReadMemory(bus, dev, Fwd(s, 1))
  BY DEF DataBus, Regs, Pop
<1>3. Driven(w, Fwd(s, 1), ReadMemory(bus, dev, Fwd(s, 1))) = SetBank(bus,
          ReadMemory(bus, dev, Fwd(s, 1)))
  BY DEF Driven, Pop
<1>5. Regs(cpu', a, ReadMemory(bus, dev, Fwd(s, 1)), f, p, b, Fwd(s, 1), i)
  BY <1>1, <1>2 DEF Clocked, Regs, Pop
<1>6. bus' = SetBank(bus, ReadMemory(bus, dev, Fwd(s, 1)))
  BY <1>1, <1>2, <1>3 DEF Clocked
<1>7. cpu'.X = cpu.X
  BY <1>1, <1>2 DEF Clocked, Pop
<1>8. cpu'.T = cpu.T
  BY <1>1, <1>2 DEF Clocked, Pop
<1>9. Inside
  BY DEF Clocked, Inside, Pop
<1> QED
  BY <1>5, <1>6, <1>7, <1>8, <1>9

LEMMA DropEffect ==
  ASSUME ProgramInv, Clocked(Drop),
         NEW a, NEW k, NEW f, NEW p, NEW b, NEW s, NEW i, Regs(cpu, a, k, f, p, b, s, i)
  PROVE  /\ Regs(cpu', a, k, f, p, b, Fwd(s, 1), i) /\ bus' = bus /\ Inside
         /\ cpu'.X = cpu.X /\ cpu'.T = cpu.T
<1> DEFINE w == Drop
<1>1. AddressOut(w) = Fwd(s, 1)
  BY DEF AddressOut, AddressBus, ProgramInv, Registers, Byte, Word, Regs, Fwd, Back, Drop
<1>2. DataBus(w, Fwd(s, 1)) = 0
  BY DEF DataBus, Regs, Drop
<1>3. Driven(w, Fwd(s, 1), 0) = bus
  BY DEF Driven, Drop
<1>5. Regs(cpu', a, k, f, p, b, Fwd(s, 1), i)
  BY <1>1, <1>2 DEF Clocked, Regs, Drop
<1>6. bus' = bus
  BY <1>1, <1>2, <1>3 DEF Clocked
<1>7. cpu'.X = cpu.X
  BY <1>1, <1>2 DEF Clocked, Drop
<1>8. cpu'.T = cpu.T
  BY <1>1, <1>2 DEF Clocked, Drop
<1>9. Inside
  BY DEF Clocked, Inside, Drop
<1> QED
  BY <1>5, <1>6, <1>7, <1>8, <1>9

LEMMA OnesLowEffect ==
  ASSUME ProgramInv, Clocked(Const("HO", {"TL"})),
         NEW a, NEW k, NEW f, NEW p, NEW b, NEW s, NEW i, Regs(cpu, a, k, f, p, b, s, i)
  PROVE  /\ Regs(cpu', a, k, f, p, b, s, i) /\ bus' = bus /\ Inside
         /\ cpu'.X = cpu.X /\ cpu'.T = 256 * High(cpu.T) + 255
<1> DEFINE w == Const("HO", {"TL"})
<1>1. AddressOut(w) = cpu.T
  BY DEF AddressOut, AddressBus, ProgramInv, Registers, Byte, Word, Regs, Fwd, Back, Const
<1>2. DataBus(w, cpu.T) = 255
  BY DEF DataBus, Regs, Const
<1>3. Driven(w, cpu.T, 255) = bus
  BY DEF Driven, Const
<1>5. Regs(cpu', a, k, f, p, b, s, i)
  BY <1>1, <1>2 DEF Clocked, Regs, Const
<1>6. bus' = bus
  BY <1>1, <1>2, <1>3 DEF Clocked
<1>7. cpu'.X = cpu.X
  BY <1>1, <1>2 DEF Clocked, Const
<1>8. cpu'.T = 256 * High(cpu.T) + 255
  BY <1>1, <1>2 DEF Clocked, Const
<1>9. Inside
  BY DEF Clocked, Inside, Const
<1> QED
  BY <1>5, <1>6, <1>7, <1>8, <1>9

LEMMA OnesHighEffect ==
  ASSUME ProgramInv, Clocked(Const("HO", {"TH"})),
         NEW a, NEW k, NEW f, NEW p, NEW b, NEW s, NEW i, Regs(cpu, a, k, f, p, b, s, i)
  PROVE  /\ Regs(cpu', a, k, f, p, b, s, i) /\ bus' = bus /\ Inside
         /\ cpu'.X = cpu.X /\ cpu'.T = 256 * 255 + Low(cpu.T)
<1> DEFINE w == Const("HO", {"TH"})
<1>1. AddressOut(w) = cpu.T
  BY DEF AddressOut, AddressBus, ProgramInv, Registers, Byte, Word, Regs, Fwd, Back, Const
<1>2. DataBus(w, cpu.T) = 255
  BY DEF DataBus, Regs, Const
<1>3. Driven(w, cpu.T, 255) = bus
  BY DEF Driven, Const
<1>5. Regs(cpu', a, k, f, p, b, s, i)
  BY <1>1, <1>2 DEF Clocked, Regs, Const
<1>6. bus' = bus
  BY <1>1, <1>2, <1>3 DEF Clocked
<1>7. cpu'.X = cpu.X
  BY <1>1, <1>2 DEF Clocked, Const
<1>8. cpu'.T = 256 * 255 + Low(cpu.T)
  BY <1>1, <1>2 DEF Clocked, Const
<1>9. Inside
  BY DEF Clocked, Inside, Const
<1> QED
  BY <1>5, <1>6, <1>7, <1>8, <1>9

LEMMA VectorBankEffect ==
  ASSUME ProgramInv, Clocked({"TO", "XZ", "XN", "II", "ZO", "EO", "KI"}),
         NEW a, NEW k, NEW f, NEW p, NEW b, NEW s, NEW i, Regs(cpu, a, k, f, p, b, s, i)
  PROVE  /\ Regs(cpu', a, 0, f, p, b, s, Back(cpu.T, 1)) /\ bus' = SetBank(bus, 0) /\ Inside
         /\ cpu'.X = cpu.X /\ cpu'.T = cpu.T
<1> DEFINE w == {"TO", "XZ", "XN", "II", "ZO", "EO", "KI"}
<1>1. AddressOut(w) = Back(cpu.T, 1)
  BY DEF AddressOut, AddressBus, ProgramInv, Registers, Byte, Word, Regs, Fwd, Back
<1>2. DataBus(w, Back(cpu.T, 1)) = 0
  BY DEF DataBus, Regs
<1>3. Driven(w, Back(cpu.T, 1), 0) = SetBank(bus, 0)
  BY DEF Driven
<1>5. Regs(cpu', a, 0, f, p, b, s, Back(cpu.T, 1))
  BY <1>1, <1>2 DEF Clocked, Regs
<1>6. bus' = SetBank(bus, 0)
  BY <1>1, <1>2, <1>3 DEF Clocked
<1>7. cpu'.X = cpu.X
  BY <1>1, <1>2 DEF Clocked
<1>8. cpu'.T = cpu.T
  BY <1>1, <1>2 DEF Clocked
<1>9. Inside
  BY DEF Clocked, Inside
<1> QED
  BY <1>5, <1>6, <1>7, <1>8, <1>9

LEMMA VectorHighEffect ==
  ASSUME ProgramInv, Clocked({"IO", "XZ", "XN", "II", "MO", "EO", "TH"}),
         NEW a, NEW k, NEW f, NEW p, NEW b, NEW s, NEW i, Regs(cpu, a, k, f, p, b, s, i)
  PROVE  /\ Regs(cpu', a, k, f, p, b, s, Back(i, 1)) /\ bus' = bus /\ Inside
         /\ cpu'.X = cpu.X /\ cpu'.T = 256 * ReadMemory(bus, dev, Back(i, 1)) + Low(cpu.T)
<1> DEFINE w == {"IO", "XZ", "XN", "II", "MO", "EO", "TH"}
<1>1. AddressOut(w) = Back(i, 1)
  BY DEF AddressOut, AddressBus, ProgramInv, Registers, Byte, Word, Regs, Fwd, Back
<1>2. DataBus(w, Back(i, 1)) = ReadMemory(bus, dev, Back(i, 1))
  BY DEF DataBus, Regs
<1>3. Driven(w, Back(i, 1), ReadMemory(bus, dev, Back(i, 1))) = bus
  BY DEF Driven
<1>5. Regs(cpu', a, k, f, p, b, s, Back(i, 1))
  BY <1>1, <1>2 DEF Clocked, Regs
<1>6. bus' = bus
  BY <1>1, <1>2, <1>3 DEF Clocked
<1>7. cpu'.X = cpu.X
  BY <1>1, <1>2 DEF Clocked
<1>8. cpu'.T = 256 * ReadMemory(bus, dev, Back(i, 1)) + Low(cpu.T)
  BY <1>1, <1>2 DEF Clocked
<1>9. Inside
  BY DEF Clocked, Inside
<1> QED
  BY <1>5, <1>6, <1>7, <1>8, <1>9

LEMMA VectorLowEffect ==
  ASSUME ProgramInv, Clocked({"IO", "XZ", "XN", "MO", "EO", "TL"}),
         NEW a, NEW k, NEW f, NEW p, NEW b, NEW s, NEW i, Regs(cpu, a, k, f, p, b, s, i)
  PROVE  /\ Regs(cpu', a, k, f, p, b, s, i) /\ bus' = bus /\ Inside
         /\ cpu'.X = cpu.X /\ cpu'.T = 256 * High(cpu.T) + ReadMemory(bus, dev, Back(i, 1))
<1> DEFINE w == {"IO", "XZ", "XN", "MO", "EO", "TL"}
<1>1. AddressOut(w) = Back(i, 1)
  BY DEF AddressOut, AddressBus, ProgramInv, Registers, Byte, Word, Regs, Fwd, Back
<1>2. DataBus(w, Back(i, 1)) = ReadMemory(bus, dev, Back(i, 1))
  BY DEF DataBus, Regs
<1>3. Driven(w, Back(i, 1), ReadMemory(bus, dev, Back(i, 1))) = bus
  BY DEF Driven
<1>5. Regs(cpu', a, k, f, p, b, s, i)
  BY <1>1, <1>2 DEF Clocked, Regs
<1>6. bus' = bus
  BY <1>1, <1>2, <1>3 DEF Clocked
<1>7. cpu'.X = cpu.X
  BY <1>1, <1>2 DEF Clocked
<1>8. cpu'.T = 256 * High(cpu.T) + ReadMemory(bus, dev, Back(i, 1))
  BY <1>1, <1>2 DEF Clocked
<1>9. Inside
  BY DEF Clocked, Inside
<1> QED
  BY <1>5, <1>6, <1>7, <1>8, <1>9

(* adc's word, without and with the carry flag.                            *)
LEMMA SumEffect ==
  ASSUME ProgramInv, Clocked({"IO", "XZ", "XC", "II", "MO", "ES", "AI", "FI"}),
         NEW a, NEW k, NEW f \in 0 .. 15, NEW p, NEW b, NEW s, NEW i, Regs(cpu, a, k, f, p, b, s, i)
  PROVE  LET sum == a + ReadMemory(bus, dev, Fwd(i, 1)) + 0 IN
         /\ Regs(cpu', sum % 256, k, WithFlag(WithNZ(f, sum % 256), FLAG_C, sum >= 256), p, b, s,
              Fwd(i, 1))
         /\ bus' = bus /\ Inside
<1> DEFINE w == {"IO", "XZ", "XC", "II", "MO", "ES", "AI", "FI"}
           byte == ReadMemory(bus, dev, Fwd(i, 1))
           sum == a + byte + 0
           flags == WithFlag(WithNZ(f, sum % 256), FLAG_C, sum >= 256)
<1>1. AddressOut(w) = Fwd(i, 1)
  BY DEF AddressOut, AddressBus, ProgramInv, Registers, Byte, Word, Regs, Fwd
<1>2. DataBus(w, Fwd(i, 1)) = byte
  BY DEF DataBus
<1>3. Driven(w, Fwd(i, 1), byte) = bus
  BY DEF Driven
<1>4. byte \in Byte /\ cpu.A = a /\ a \in Byte
  BY <1>1, <1>2 DEF Clocked, Regs, ProgramInv, Registers
<1>5. CalcALU(a, byte, f, w).out = sum % 256
  <2> HIDE DEF byte
  <2> QED
    BY <1>4 DEF CalcALU, Byte
<1>6. CalcALU(a, byte, f, w).flags = WithNZ(WithFlag(f, FLAG_C, sum >= 256), sum % 256)
  <2> HIDE DEF byte
  <2> QED
    BY <1>4 DEF CalcALU, Byte, CarryOut
<1>7. WithNZ(WithFlag(f, FLAG_C, sum >= 256), sum % 256) = flags
  <2> HIDE DEF sum
  <2>1. (sum >= 256) \in BOOLEAN /\ (sum % 256 >= 128) \in BOOLEAN /\ (sum % 256 = 0) \in BOOLEAN
    OBVIOUS
  <2> DEFINE carry == sum >= 256   minus == sum % 256 >= 128   zero == sum % 256 = 0
  <2>2. carry \in BOOLEAN /\ minus \in BOOLEAN /\ zero \in BOOLEAN
    BY <2>1
  <2>3. WithNZ(WithFlag(f, FLAG_C, carry),
            sum % 256) = WithFlag(WithFlag(WithFlag(f, 4, carry), 2, minus), 1, zero)
    BY Zenon DEF WithNZ, FLAG_C, FLAG_N, FLAG_Z
  <2>4. flags = WithFlag(WithFlag(WithFlag(f, 2, minus), 1, zero), 4, carry)
    BY Zenon DEF WithNZ, FLAG_C, FLAG_N, FLAG_Z
  <2> HIDE DEF carry, minus, zero, flags
  <2>5. WithNZ(WithFlag(f, FLAG_C, carry), sum % 256) = flags
    BY <2>2, <2>3, <2>4, FlagsCommute
  <2> QED
    BY <2>5 DEF carry
<1> HIDE DEF flags, sum
<1>8. Regs(cpu', sum % 256, k, flags, p, b, s, Fwd(i, 1))
  BY <1>1, <1>2, <1>5, <1>6, <1>7 DEF Clocked, Regs
<1>9. bus' = bus
  BY <1>1, <1>2, <1>3 DEF Clocked
<1>10. Inside
  BY DEF Clocked, Inside
<1> QED
  BY <1>8, <1>9, <1>10 DEF flags, sum

LEMMA SumCarryEffect ==
  ASSUME ProgramInv, Clocked({"IO", "XZ", "XC", "II", "MO", "ES", "AI", "FI"} \cup {"EC"}),
         NEW a, NEW k, NEW f \in 0 .. 15, NEW p, NEW b, NEW s, NEW i, Regs(cpu, a, k, f, p, b, s, i)
  PROVE  LET sum == a + ReadMemory(bus, dev, Fwd(i, 1)) + 1 IN
         /\ Regs(cpu', sum % 256, k, WithFlag(WithNZ(f, sum % 256), FLAG_C, sum >= 256), p, b, s,
              Fwd(i, 1))
         /\ bus' = bus /\ Inside
<1> DEFINE w == {"IO", "XZ", "XC", "II", "MO", "ES", "AI", "FI"} \cup {"EC"}
           byte == ReadMemory(bus, dev, Fwd(i, 1))
           sum == a + byte + 1
           flags == WithFlag(WithNZ(f, sum % 256), FLAG_C, sum >= 256)
<1>1. AddressOut(w) = Fwd(i, 1)
  BY DEF AddressOut, AddressBus, ProgramInv, Registers, Byte, Word, Regs, Fwd
<1>2. DataBus(w, Fwd(i, 1)) = byte
  BY DEF DataBus
<1>3. Driven(w, Fwd(i, 1), byte) = bus
  BY DEF Driven
<1>4. byte \in Byte /\ cpu.A = a /\ a \in Byte
  BY <1>1, <1>2 DEF Clocked, Regs, ProgramInv, Registers
<1>5. CalcALU(a, byte, f, w).out = sum % 256
  <2> HIDE DEF byte
  <2> QED
    BY <1>4 DEF CalcALU, Byte
<1>6. CalcALU(a, byte, f, w).flags = WithNZ(WithFlag(f, FLAG_C, sum >= 256), sum % 256)
  <2> HIDE DEF byte
  <2> QED
    BY <1>4 DEF CalcALU, Byte, CarryOut
<1>7. WithNZ(WithFlag(f, FLAG_C, sum >= 256), sum % 256) = flags
  <2> HIDE DEF sum
  <2>1. (sum >= 256) \in BOOLEAN /\ (sum % 256 >= 128) \in BOOLEAN /\ (sum % 256 = 0) \in BOOLEAN
    OBVIOUS
  <2> DEFINE carry == sum >= 256   minus == sum % 256 >= 128   zero == sum % 256 = 0
  <2>2. carry \in BOOLEAN /\ minus \in BOOLEAN /\ zero \in BOOLEAN
    BY <2>1
  <2>3. WithNZ(WithFlag(f, FLAG_C, carry),
            sum % 256) = WithFlag(WithFlag(WithFlag(f, 4, carry), 2, minus), 1, zero)
    BY Zenon DEF WithNZ, FLAG_C, FLAG_N, FLAG_Z
  <2>4. flags = WithFlag(WithFlag(WithFlag(f, 2, minus), 1, zero), 4, carry)
    BY Zenon DEF WithNZ, FLAG_C, FLAG_N, FLAG_Z
  <2> HIDE DEF carry, minus, zero, flags
  <2>5. WithNZ(WithFlag(f, FLAG_C, carry), sum % 256) = flags
    BY <2>2, <2>3, <2>4, FlagsCommute
  <2> QED
    BY <2>5 DEF carry
<1> HIDE DEF flags, sum
<1>8. Regs(cpu', sum % 256, k, flags, p, b, s, Fwd(i, 1))
  BY <1>1, <1>2, <1>5, <1>6, <1>7 DEF Clocked, Regs
<1>9. bus' = bus
  BY <1>1, <1>2, <1>3 DEF Clocked
<1>10. Inside
  BY DEF Clocked, Inside
<1> QED
  BY <1>8, <1>9, <1>10 DEF flags, sum

(* The end of an instruction: what its fetch leaves.                       *)
Ended(a, k, f, p, b, s, i) ==
  /\ Regs(cpu', a, k, f, p, b, s, i) /\ cpu'.C = ReadMemory(bus, dev, i)
  /\ cpu'.reset = FALSE /\ cpu'.step = 0 /\ arch' = Visible'
  /\ bus' = [bus EXCEPT !.irq = ReadInterrupts(@)]

(* The words that end an instruction, each with where it goes on.          *)
LEMMA FetchEnds ==
  ASSUME ProgramInv, Clocked(Fetch), NEW a, NEW k, NEW f, NEW p, NEW b, NEW s, NEW i,
         Regs(cpu, a, k, f, p, b, s, i)
  PROVE  Ended(a, k, f, p, b, s, Fwd(i, 1))
<1> DEFINE w == Fetch
<1>1. AddressOut(w) = Fwd(i, 1)
  BY DEF AddressOut, AddressBus, ProgramInv, Registers, Byte, Word, Regs, Fwd, Fetch, NextByte
<1>2. DataBus(w, Fwd(i, 1)) = ReadMemory(bus, dev, Fwd(i, 1))
  BY DEF DataBus, Fetch, NextByte
<1>3. Driven(w, Fwd(i, 1), ReadMemory(bus, dev, Fwd(i, 1))) = [bus EXCEPT !.irq = ReadInterrupts(@)]
  BY DEF Driven, Fetch, NextByte
<1>4. Regs(cpu', a, k, f, p, b, s, Fwd(i, 1))
  BY <1>1 DEF Clocked, Regs, Fetch, NextByte
<1>5. cpu'.C = ReadMemory(bus, dev, Fwd(i, 1))
  BY <1>1, <1>2 DEF Clocked, Fetch, NextByte
<1>6. bus' = [bus EXCEPT !.irq = ReadInterrupts(@)]
  BY <1>1, <1>2, <1>3 DEF Clocked
<1>7. cpu'.reset = FALSE /\ cpu'.step = 0 /\ arch' = Visible'
  BY DEF Clocked, Fetch, NextByte
<1> QED
  BY <1>4, <1>5, <1>6, <1>7 DEF Ended

LEMMA GotoEnds ==
  ASSUME ProgramInv, Clocked(Goto), NEW a, NEW k, NEW f, NEW p, NEW b, NEW s, NEW i,
         Regs(cpu, a, k, f, p, b, s, i)
  PROVE  Ended(a, k, f, p, b, s, cpu.T)
<1> DEFINE w == Goto
<1>1. AddressOut(w) = cpu.T
  BY DEF AddressOut, AddressBus, ProgramInv, Registers, Byte, Word, Regs, Fwd, Goto
<1>2. DataBus(w, cpu.T) = ReadMemory(bus, dev, cpu.T)
  BY DEF DataBus, Goto
<1>3. Driven(w, cpu.T, ReadMemory(bus, dev, cpu.T)) = [bus EXCEPT !.irq = ReadInterrupts(@)]
  BY DEF Driven, Goto
<1>4. Regs(cpu', a, k, f, p, b, s, cpu.T)
  BY <1>1 DEF Clocked, Regs, Goto
<1>5. cpu'.C = ReadMemory(bus, dev, cpu.T)
  BY <1>1, <1>2 DEF Clocked, Goto
<1>6. bus' = [bus EXCEPT !.irq = ReadInterrupts(@)]
  BY <1>1, <1>2, <1>3 DEF Clocked
<1>7. cpu'.reset = FALSE /\ cpu'.step = 0 /\ arch' = Visible'
  BY DEF Clocked, Goto
<1> QED
  BY <1>4, <1>5, <1>6, <1>7 DEF Ended

LEMMA AfterTEnds ==
  ASSUME ProgramInv, Clocked(AfterT), NEW a, NEW k, NEW f, NEW p, NEW b, NEW s, NEW i,
         Regs(cpu, a, k, f, p, b, s, i)
  PROVE  Ended(a, k, f, p, b, s, Fwd(cpu.T, 1))
<1> DEFINE w == AfterT
<1>1. AddressOut(w) = Fwd(cpu.T, 1)
  BY DEF AddressOut, AddressBus, ProgramInv, Registers, Byte, Word, Regs, Fwd, AfterT
<1>2. DataBus(w, Fwd(cpu.T, 1)) = ReadMemory(bus, dev, Fwd(cpu.T, 1))
  BY DEF DataBus, AfterT
<1>3. Driven(w, Fwd(cpu.T, 1), ReadMemory(bus, dev,
          Fwd(cpu.T, 1))) = [bus EXCEPT !.irq = ReadInterrupts(@)]
  BY DEF Driven, AfterT
<1>4. Regs(cpu', a, k, f, p, b, s, Fwd(cpu.T, 1))
  BY <1>1 DEF Clocked, Regs, AfterT
<1>5. cpu'.C = ReadMemory(bus, dev, Fwd(cpu.T, 1))
  BY <1>1, <1>2 DEF Clocked, AfterT
<1>6. bus' = [bus EXCEPT !.irq = ReadInterrupts(@)]
  BY <1>1, <1>2, <1>3 DEF Clocked
<1>7. cpu'.reset = FALSE /\ cpu'.step = 0 /\ arch' = Visible'
  BY DEF Clocked, AfterT
<1> QED
  BY <1>4, <1>5, <1>6, <1>7 DEF Ended

LEMMA TakeEnds ==
  ASSUME ProgramInv, Clocked(Take.word), NEW a, NEW k, NEW f, NEW p, NEW b, NEW s, NEW i,
         Regs(cpu, a, k, f, p, b, s, i)
  PROVE  Ended(a, k, f, p, b, s, (i + cpu.X + 1) % 65536)
<1> DEFINE w == Take.word
<1>1. AddressOut(w) = (i + cpu.X + 1) % 65536
  BY DEF AddressOut, AddressBus, ProgramInv, Registers, Byte, Word, Regs, Fwd, Take, Line
<1>2. DataBus(w, (i + cpu.X + 1) % 65536) = ReadMemory(bus, dev, (i + cpu.X + 1) % 65536)
  BY DEF DataBus, Take, Line
<1>3. Driven(w, (i + cpu.X + 1) % 65536,
          ReadMemory(bus, dev, (i + cpu.X + 1) % 65536)) = [bus EXCEPT !.irq = ReadInterrupts(@)]
  BY DEF Driven, Take, Line
<1>4. Regs(cpu', a, k, f, p, b, s, (i + cpu.X + 1) % 65536)
  BY <1>1 DEF Clocked, Regs, Take, Line
<1>5. cpu'.C = ReadMemory(bus, dev, (i + cpu.X + 1) % 65536)
  BY <1>1, <1>2 DEF Clocked, Take, Line
<1>6. bus' = [bus EXCEPT !.irq = ReadInterrupts(@)]
  BY <1>1, <1>2, <1>3 DEF Clocked
<1>7. cpu'.reset = FALSE /\ cpu'.step = 0 /\ arch' = Visible'
  BY DEF Clocked, Take, Line
<1> QED
  BY <1>4, <1>5, <1>6, <1>7 DEF Ended

LEMMA BackEnds ==
  ASSUME ProgramInv, Clocked({"IO", "XN", "II", "MO", "EO", "CI"}), NEW a, NEW k, NEW f, NEW p, NEW b,
         NEW s, NEW i, Regs(cpu, a, k, f, p, b, s, i)
  PROVE  Ended(a, k, f, p, b, s, (i + 65535 - cpu.X) % 65536)
<1> DEFINE w == {"IO", "XN", "II", "MO", "EO", "CI"}
<1>1. AddressOut(w) = (i + 65535 - cpu.X) % 65536
  BY DEF AddressOut, AddressBus, ProgramInv, Registers, Byte, Word, Regs, Fwd
<1>2. DataBus(w, (i + 65535 - cpu.X) % 65536) = ReadMemory(bus, dev, (i + 65535 - cpu.X) % 65536)
  BY DEF DataBus
<1>3. Driven(w, (i + 65535 - cpu.X) % 65536,
          ReadMemory(bus, dev, (i + 65535 - cpu.X) % 65536)) = [bus EXCEPT !.irq = ReadInterrupts(@)]
  BY DEF Driven
<1>4. Regs(cpu', a, k, f, p, b, s, (i + 65535 - cpu.X) % 65536)
  BY <1>1 DEF Clocked, Regs
<1>5. cpu'.C = ReadMemory(bus, dev, (i + 65535 - cpu.X) % 65536)
  BY <1>1, <1>2 DEF Clocked
<1>6. bus' = [bus EXCEPT !.irq = ReadInterrupts(@)]
  BY <1>1, <1>2, <1>3 DEF Clocked
<1>7. cpu'.reset = FALSE /\ cpu'.step = 0 /\ arch' = Visible'
  BY DEF Clocked
<1> QED
  BY <1>4, <1>5, <1>6, <1>7 DEF Ended

LEMMA BootEnds ==
  ASSUME ProgramInv, Clocked({"IO", "XZ", "MO", "EO", "CI"}), NEW a, NEW k, NEW f, NEW p, NEW b, NEW s,
         NEW i, Regs(cpu, a, k, f, p, b, s, i)
  PROVE  Ended(a, k, f, p, b, s, i)
<1> DEFINE w == {"IO", "XZ", "MO", "EO", "CI"}
<1>1. AddressOut(w) = i
  BY DEF AddressOut, AddressBus, ProgramInv, Registers, Byte, Word, Regs, Fwd
<1>2. DataBus(w, i) = ReadMemory(bus, dev, i)
  BY DEF DataBus
<1>3. Driven(w, i, ReadMemory(bus, dev, i)) = [bus EXCEPT !.irq = ReadInterrupts(@)]
  BY DEF Driven
<1>4. Regs(cpu', a, k, f, p, b, s, i)
  BY <1>1 DEF Clocked, Regs
<1>5. cpu'.C = ReadMemory(bus, dev, i)
  BY <1>1, <1>2 DEF Clocked
<1>6. bus' = [bus EXCEPT !.irq = ReadInterrupts(@)]
  BY <1>1, <1>2, <1>3 DEF Clocked
<1>7. cpu'.reset = FALSE /\ cpu'.step = 0 /\ arch' = Visible'
  BY DEF Clocked
<1> QED
  BY <1>4, <1>5, <1>6, <1>7 DEF Ended

(* The programmer's registers.                                             *)
Programmer == [reset : BOOLEAN, A : Byte, K : Byte, C : Byte, F : Byte, P : Word, B : Word, S : Word,
    I : Word]

(* What the boundary records.                                              *)
LEMMA VisibleIs ==
  /\ Visible'.regs = [reset |-> cpu'.reset, A |-> cpu'.A, K |-> cpu'.K, C |-> cpu'.C, F |-> cpu'.F,
                       P |-> cpu'.P, B |-> cpu'.B, S |-> cpu'.S, I |-> cpu'.I]
  /\ Visible'.bus = bus'
  /\ Visible'.regs.reset = cpu'.reset /\ Visible'.regs.A = cpu'.A /\ Visible'.regs.K = cpu'.K
  /\ Visible'.regs.C = cpu'.C /\ Visible'.regs.F = cpu'.F /\ Visible'.regs.P = cpu'.P
  /\ Visible'.regs.B = cpu'.B /\ Visible'.regs.S = cpu'.S /\ Visible'.regs.I = cpu'.I
BY DEF Visible

LEMMA VisibleTyped ==
  ASSUME cpu' \in Registers
  PROVE  Visible'.regs \in Programmer
<1>1. Visible'.regs = [reset |-> cpu'.reset, A |-> cpu'.A, K |-> cpu'.K, C |-> cpu'.C, F |-> cpu'.F,
                       P |-> cpu'.P, B |-> cpu'.B, S |-> cpu'.S, I |-> cpu'.I]
  BY DEF Visible
<1> QED
  BY <1>1 DEF Programmer, Registers

(* The instruction set reads, writes and computes with operators of its    *)
(* own instance, which are the processor's.                                *)
LEMMA SameReads == \A b, d, x : Architecture!ReadMemory(b, d, x) = ReadMemory(b, d, x)
<1>1. /\ Architecture!RAM_START = RAM_START
      /\ Architecture!IO_START = IO_START
      /\ Architecture!BANK_START = BANK_START
      /\ Architecture!VRAM_SIZE = VRAM_SIZE /\ Architecture!BANK_SIZE = BANK_SIZE
      /\ Architecture!FLASH_SIZE = FLASH_SIZE /\ Architecture!ERASED = ERASED
  BY DEF Architecture!RAM_START, RAM_START, Architecture!IO_START, IO_START,
         Architecture!BANK_START, BANK_START, Architecture!VRAM_SIZE, VRAM_SIZE,
         Architecture!BANK_SIZE, BANK_SIZE, Architecture!FLASH_SIZE, FLASH_SIZE,
         Architecture!ERASED, ERASED, Architecture!VRAM_START, VRAM_START,
         Architecture!RAM_SIZE, RAM_SIZE, Architecture!IO_SIZE, IO_SIZE
<1>2. \A g, x, y : Architecture!Cell(g, x, y) = Cell(g, x, y)
  BY DEF Architecture!Cell, Cell
<1>3. \A b, x : Architecture!ReadFlash(b, x) = ReadFlash(b, x)
  BY <1>1, <1>2, Zenon DEF Architecture!ReadFlash, ReadFlash
<1>4. \A b, d, x : Architecture!ReadIO(b, d, x) = ReadIO(b, d, x)
  BY Zenon DEF Architecture!ReadIO, ReadIO, Architecture!Weight, Weight, Architecture!GetInterrupt,
     GetInterrupt,
     Architecture!INTER_0, INTER_0, Architecture!INTER_1, INTER_1, Architecture!IO_INPUT, IO_INPUT,
     Architecture!OUT_STATUSLED, OUT_STATUSLED
<1> QED
  BY <1>1, <1>2, <1>3, <1>4, Zenon DEF Architecture!ReadMemory, ReadMemory

(* A fetch at i of registers and memory is the instruction set's end of an *)
(* instruction.                                                            *)
LEMMA EndExecutes ==
  ASSUME NEW a, NEW k, NEW f, NEW p, NEW b, NEW s, NEW i, NEW o, NEW off, Ended(a, k, f, p, b, s, i),
         UNCHANGED <<dev_clock, dev_data>>, off = FALSE,
         NEW r, r = [reset |-> off, A |-> a, K |-> k, C |-> o, F |-> f, P |-> p, B |-> b, S |-> s,
             I |-> i]
  PROVE  Architecture!Execute(r, bus)
<1> DEFINE c == ReadMemory(bus, dev, i)
           q == [r EXCEPT !.C = c]
<1>1. cpu'.reset = off /\ cpu'.C = c
  BY DEF Ended
<1>2. arch'.regs = [reset |-> off, A |-> a, K |-> k, C |-> c, F |-> f, P |-> p, B |-> b, S |-> s, I |-> i]
  BY <1>1, VisibleIs DEF Ended, Regs
<1>3. r.I = i
  OBVIOUS
<1>4. Architecture!ReadMemory(bus, dev, r.I) = c
  BY <1>3, SameReads DEF c
<1> HIDE DEF c
<1>5. q = [reset |-> off, A |-> a, K |-> k, C |-> c, F |-> f, P |-> p, B |-> b, S |-> s, I |-> i]
  OBVIOUS
<1>6. arch'.bus = [bus EXCEPT !.irq = ReadInterrupts(@)]
  BY VisibleIs DEF Ended
<1>7. [bus EXCEPT !.irq = Architecture!ReadInterrupts(@)] = [bus EXCEPT !.irq = ReadInterrupts(@)]
  BY DEF Architecture!ReadInterrupts, ReadInterrupts
<1>8. dev' = dev
  BY DEF dev
<1> QED
  BY <1>2, <1>4, <1>5, <1>6, <1>7, <1>8, Zenon DEF Architecture!Execute, q

LEMMA SameWrites ==
  /\ \A b, d, x : Architecture!WriteMemory(b, d, x) = WriteMemory(b, d, x)
  /\ \A b, n : Architecture!SetBank(b, n) = SetBank(b, n)
<1>1. /\ Architecture!RAM_START = RAM_START
      /\ Architecture!IO_START = IO_START
      /\ Architecture!BANK_START = BANK_START
      /\ Architecture!VRAM_SIZE = VRAM_SIZE /\ Architecture!BANK_SIZE = BANK_SIZE
  BY DEF Architecture!RAM_START, RAM_START, Architecture!RAM_SIZE, RAM_SIZE,
         Architecture!IO_START, IO_START, Architecture!IO_SIZE, IO_SIZE,
         Architecture!VRAM_START, VRAM_START, Architecture!VRAM_SIZE, VRAM_SIZE,
         Architecture!BANK_START, BANK_START, Architecture!BANK_SIZE, BANK_SIZE
<1>2. \A g, x, y : Architecture!Store(g, x, y) = Store(g, x, y)
  BY Zenon DEF Architecture!Store, Store
<1>3. \A q, i, v : Architecture!SetInterruptReset(q, i, v) = SetInterruptReset(q, i, v)
  BY Zenon DEF Architecture!SetInterruptReset, SetInterruptReset
<1>4. \A x, y : Architecture!HasBit(x, y) <=> HasBit(x, y)
  BY Zenon DEF Architecture!HasBit, HasBit
<1>5. \A b, d, x : Architecture!WriteIO(b, d, x) = WriteIO(b, d, x)
  <2>1. \A x, y : Architecture!HasBit(x, y) = HasBit(x, y)
    BY Zenon DEF Architecture!HasBit, HasBit
  <2> QED
    BY <1>3, <2>1, ZenonT(60)
       DEF Architecture!WriteIO, WriteIO, Architecture!IO_OUTPUT, IO_OUTPUT,
           Architecture!INTER_0, INTER_0, Architecture!INTER_1, INTER_1,
           Architecture!OUT_CLKINTRST, OUT_CLKINTRST, Architecture!OUT_KEYINTRST, OUT_KEYINTRST,
           Architecture!OUT_STATUSLED, OUT_STATUSLED, Architecture!OUT_KEYCLK, OUT_KEYCLK,
           Architecture!OUT_KEYDAT, OUT_KEYDAT
<1>6. \A b, d, x : Architecture!WriteMemory(b, d, x) = WriteMemory(b, d, x)
  <2>1. \A x : /\ Architecture!WritesVram(x) = WritesVram(x) /\ Architecture!WritesRam(x) = WritesRam(x)
             /\ Architecture!WritesIO(x) = WritesIO(x)
    BY <1>1, Zenon DEF Architecture!WritesVram, WritesVram, Architecture!WritesRam, WritesRam,
       Architecture!WritesIO, WritesIO
  <2> TAKE b, d, x
  <2> DEFINE stored == [b EXCEPT !.vram = IF WritesVram(x) THEN Store(@, x % VRAM_SIZE, d) ELSE @,
                                 !.ram  = IF WritesRam(x)  THEN Store(@, x % BANK_SIZE, d) ELSE @]
  <2>2. [b EXCEPT !.vram = IF Architecture!WritesVram(x) THEN Architecture!Store(@,
            x % Architecture!VRAM_SIZE, d) ELSE @,
                  !.ram  = IF Architecture!WritesRam(x)  THEN Architecture!Store(@,
                      x % Architecture!BANK_SIZE, d) ELSE @]
        = stored
    BY <1>1, <1>2, <2>1, Zenon
  <2>3. Architecture!WriteMemory(b, d, x)
        = IF Architecture!WritesIO(x) THEN Architecture!WriteIO(stored, d, x % 8) ELSE stored
    BY <2>2 DEF Architecture!WriteMemory
  <2>4. WriteMemory(b, d, x) = IF WritesIO(x) THEN WriteIO(stored, d, x % 8) ELSE stored
    BY DEF WriteMemory
  <2> HIDE DEF stored
  <2> QED
    BY <1>5, <2>1, <2>3, <2>4
<1>7. \A b, n : Architecture!SetBank(b, n) = SetBank(b, n)
  BY Zenon DEF Architecture!SetBank, SetBank
<1> QED
  BY <1>6, <1>7

LEMMA SameAlu ==
  /\ \A f, m : Architecture!Flag(f, m) = Flag(f, m)
  /\ \A f, m, v : Architecture!WithFlag(f, m, v) = WithFlag(f, m, v)
  /\ \A f, v : Architecture!WithNZ(f, v) = WithNZ(f, v)
  /\ Architecture!FLAG_C = FLAG_C /\ Architecture!FLAG_Z = FLAG_Z /\ Architecture!FLAG_N = FLAG_N
  /\ \A v : Architecture!BitsOf(v) = BitsOf(v)
  /\ \A v : Architecture!FromBits(v) = FromBits(v)
<1>1. \A f, m : Architecture!Flag(f, m) = Flag(f, m)
  BY Zenon DEF Architecture!Flag, Flag
<1>2. \A f, m, v : Architecture!WithFlag(f, m, v) = WithFlag(f, m, v)
  BY <1>1, Zenon DEF Architecture!WithFlag, WithFlag
<1>3. \A f, v : Architecture!WithNZ(f, v) = WithNZ(f, v)
  BY <1>2, Zenon DEF Architecture!WithNZ, WithNZ, Architecture!FLAG_N, FLAG_N, Architecture!FLAG_Z, FLAG_Z
<1>4. Architecture!FLAG_C = FLAG_C /\ Architecture!FLAG_Z = FLAG_Z /\ Architecture!FLAG_N = FLAG_N
  BY Zenon DEF Architecture!FLAG_C, FLAG_C, Architecture!FLAG_N, FLAG_N, Architecture!FLAG_Z, FLAG_Z
<1>5. \A v : Architecture!BitsOf(v) = BitsOf(v)
  BY Zenon DEF Architecture!BitsOf, BitsOf
<1>6. \A v : Architecture!FromBits(v) = FromBits(v)
  BY Zenon DEF Architecture!FromBits, FromBits
<1> QED
  BY <1>1, <1>2, <1>3, <1>4, <1>5, <1>6

(* What the processor needs of the record of the last boundary.            *)
ArchInv == arch.regs \in Programmer /\ GoodBus(arch.bus) /\ GoodCells(arch.bus)

LEMMA ArchFields ==
  ASSUME ArchInv
  PROVE  /\ arch.regs.A \in Byte /\ arch.regs.K \in Byte /\ arch.regs.C \in Byte /\ arch.regs.F \in Byte
         /\ arch.regs.P \in Word /\ arch.regs.B \in Word /\ arch.regs.S \in Word /\ arch.regs.I \in Word
BY DEF ArchInv, Programmer

(* Counting on and back around the address space.                          *)
LEMMA Around ==
  ASSUME NEW w \in Word, NEW n \in 0 .. 10
  PROVE  /\ Fwd(w, n) \in Word /\ Back(w, n) \in Word
         /\ \A k \in 0 .. 10 : Fwd(Fwd(w, n), k) = Fwd(w, n + k) /\ Back(Back(w, n), k) = Back(w, n + k)
BY DEF Fwd, Back, Word

(* The operands and the stack as the instruction set reads them.           *)
LEMMA ArchReads ==
  ASSUME ArchInv
  PROVE  /\ \A x : Architecture!Read(x) = ReadMemory(arch.bus, dev, x % 65536)
         /\ Architecture!Imm = Next1(arch.regs, arch.bus, dev)
         /\ Architecture!Adr = Operands(arch.regs, arch.bus, dev)
         /\ \A n \in Nat : Architecture!Advance(n) = Fwd(arch.regs.I, n)
         /\ \A n \in Nat : Architecture!Up(n) = Fwd(arch.regs.S, n)
         /\ \A n \in Nat : Architecture!Down(n) = Back(arch.regs.S, n)
         /\ \A n \in Nat : Architecture!Read(arch.regs.S + n) = Top(arch.regs, arch.bus, dev, n)
         /\ Next1(arch.regs, arch.bus, dev) \in Byte /\ Next2(arch.regs, arch.bus, dev) \in Byte
         /\ \A n \in 0 .. 9 : Top(arch.regs, arch.bus, dev, n) \in Byte
<1> DEFINE Reads(x) == ReadMemory(arch.bus, dev, x)
<1>1. \A x : Architecture!Read(x) = Reads(x % 65536)
  <2> TAKE x
  <2>1. Architecture!Read(x) = Architecture!ReadMemory(arch.bus, dev, x % 65536)
    BY DEF Architecture!Read
  <2> QED
    BY <2>1, SameReads
<1>0. /\ Next1(arch.regs, arch.bus, dev) = Reads((arch.regs.I + 1) % 65536)
      /\ Next2(arch.regs, arch.bus, dev) = Reads((arch.regs.I + 2) % 65536)
      /\ \A n : Top(arch.regs, arch.bus, dev, n) = Reads((arch.regs.S + n) % 65536)
  BY DEF Next1, Next2, Top, Fwd
<1> HIDE DEF Reads
<1>2. Architecture!Imm = Next1(arch.regs, arch.bus, dev)
  BY <1>0, <1>1 DEF Architecture!Imm
<1>3. /\ \A n \in Nat : Architecture!Advance(n) = Fwd(arch.regs.I, n)
      /\ \A n \in Nat : Architecture!Up(n) = Fwd(arch.regs.S, n)
      /\ \A n \in Nat : Architecture!Down(n) = Back(arch.regs.S, n)
  BY DEF Architecture!Advance, Architecture!Up, Architecture!Down, Fwd, Back
<1>4. \A n \in Nat : Architecture!Read(arch.regs.S + n) = Top(arch.regs, arch.bus, dev, n)
  BY <1>0, <1>1
<1>5. Next1(arch.regs, arch.bus, dev) \in Byte /\ Next2(arch.regs, arch.bus, dev) \in Byte
  <2>1. Fwd(arch.regs.I, 1) \in Word /\ Fwd(arch.regs.I, 2) \in Word
    BY ArchFields, Around
  <2> QED
    BY <2>1, ReadGoodByte DEF Next1, Next2, ArchInv
<1>6. \A n \in 0 .. 9 : Top(arch.regs, arch.bus, dev, n) \in Byte
  <2> TAKE n \in 0 .. 9
  <2>1. Fwd(arch.regs.S, n) \in Word
    BY ArchFields, Around
  <2> QED
    BY <2>1, ReadGoodByte DEF Top, ArchInv
<1>7. Architecture!Adr = Operands(arch.regs, arch.bus, dev)
  <2>1. Architecture!Adr = Next1(arch.regs, arch.bus, dev) + 256 * Next2(arch.regs, arch.bus, dev)
    BY <1>0, <1>1 DEF Architecture!Adr
  <2> DEFINE n1 == Next1(arch.regs, arch.bus, dev)   n2 == Next2(arch.regs, arch.bus, dev)
  <2>2. Operands(arch.regs, arch.bus, dev) = 256 * n2 + n1
    BY Zenon DEF Operands
  <2>3. n1 \in Nat /\ n2 \in Nat
    BY <1>5 DEF Byte
  <2> HIDE DEF n1, n2
  <2>4. n1 + 256 * n2 = 256 * n2 + n1
    BY <2>3
  <2> QED
    BY Zenon, <2>1, <2>2, <2>4 DEF n1, n2
<1> QED
  BY <1>1, <1>2, <1>3, <1>4, <1>5, <1>6, <1>7 DEF Reads

(* What the instructions change of the registers, field by field.          *)
Fields(off, a, k, o, f, p, b, s, i) ==
  [reset |-> off, A |-> a, K |-> k, C |-> o, F |-> f, P |-> p, B |-> b, S |-> s, I |-> i]

LEMMA ArchIs ==
  ASSUME ArchInv
  PROVE  LET r == arch.regs IN r = Fields(r.reset, r.A, r.K, r.C, r.F, r.P, r.B, r.S, r.I)
BY DEF ArchInv, Programmer, Fields

(* The fetch of an instruction that ran along with the last boundary.      *)
LEMMA Fetched ==
  ASSUME ArchInv, ~arch.regs.reset, NEW a, NEW k, NEW f, NEW p, NEW b, NEW s, NEW i,
         Ended(a, k, f, p, b, s, i),
         UNCHANGED <<dev_clock, dev_data>>
  PROVE  Architecture!Execute(Fields(arch.regs.reset, a, k, arch.regs.C, f, p, b, s, i), bus)
<1> DEFINE off == arch.regs.reset   o == arch.regs.C
<1>1. off = FALSE
  BY DEF ArchInv, Programmer
<1> HIDE DEF off, o
<1>2. Architecture!Execute(Fields(off, a, k, o, f, p, b, s, i), bus)
  BY <1>1, EndExecutes DEF Fields
<1> QED
  BY <1>2 DEF off, o

Goes(i) == [arch.regs EXCEPT !.I = i]
LEMMA EndGoes ==
  ASSUME ArchInv, ~arch.regs.reset, UNCHANGED <<dev_clock, dev_data>>, NEW i,
         Ended(arch.regs.A, arch.regs.K, arch.regs.F, arch.regs.P, arch.regs.B, arch.regs.S, i)
  PROVE  Architecture!Execute(Goes(i), bus)
<1> DEFINE r == arch.regs
<1>0. Architecture!Execute(Fields(r.reset, r.A, r.K, r.C, r.F, r.P, r.B, r.S, i), bus)
  BY Fetched
<1>1. r = Fields(r.reset, r.A, r.K, r.C, r.F, r.P, r.B, r.S, r.I)
  BY ArchIs
<1> HIDE DEF r
<1> DEFINE r1 == [r EXCEPT !.I = i]
<1>2. [r EXCEPT !.I = i] = r1
  BY Zenon
<1>3. r1 = Fields(r.reset, r.A, r.K, r.C, r.F, r.P, r.B, r.S, i)
  BY <1>1 DEF Fields
<1> HIDE DEF r1
<1> QED
  BY <1>0, <1>2, <1>3 DEF r, Goes

Loads(a, f, i) == [arch.regs EXCEPT !.A = a, !.F = f, !.I = i]
LEMMA EndLoads ==
  ASSUME ArchInv, ~arch.regs.reset, UNCHANGED <<dev_clock, dev_data>>, NEW a, NEW f, NEW i,
         Ended(a, arch.regs.K, f, arch.regs.P, arch.regs.B, arch.regs.S, i)
  PROVE  Architecture!Execute(Loads(a, f, i), bus)
<1> DEFINE r == arch.regs
<1>0. Architecture!Execute(Fields(r.reset, a, r.K, r.C, f, r.P, r.B, r.S, i), bus)
  BY Fetched
<1>1. r = Fields(r.reset, r.A, r.K, r.C, r.F, r.P, r.B, r.S, r.I)
  BY ArchIs
<1> HIDE DEF r
<1> DEFINE r1 == [r EXCEPT !.A = a]   r2 == [r1 EXCEPT !.F = f]   r3 == [r2 EXCEPT !.I = i]
<1>2. [r EXCEPT !.A = a, !.F = f, !.I = i] = r3
  BY Zenon
<1>3. r1 = Fields(r.reset, a, r.K, r.C, r.F, r.P, r.B, r.S, r.I)
  BY <1>1 DEF Fields
<1> HIDE DEF r1
<1>4. r2 = Fields(r.reset, a, r.K, r.C, f, r.P, r.B, r.S, r.I)
  BY <1>3 DEF Fields
<1> HIDE DEF r2
<1>5. r3 = Fields(r.reset, a, r.K, r.C, f, r.P, r.B, r.S, i)
  BY <1>4 DEF Fields
<1> HIDE DEF r3
<1> QED
  BY <1>0, <1>2, <1>5 DEF r, Loads

Adds(a, i, f) == [arch.regs EXCEPT !.A = a, !.I = i, !.F = f]
LEMMA EndAdds ==
  ASSUME ArchInv, ~arch.regs.reset, UNCHANGED <<dev_clock, dev_data>>, NEW a, NEW i, NEW f,
         Ended(a, arch.regs.K, f, arch.regs.P, arch.regs.B, arch.regs.S, i)
  PROVE  Architecture!Execute(Adds(a, i, f), bus)
<1> DEFINE r == arch.regs
<1>0. Architecture!Execute(Fields(r.reset, a, r.K, r.C, f, r.P, r.B, r.S, i), bus)
  BY Fetched
<1>1. r = Fields(r.reset, r.A, r.K, r.C, r.F, r.P, r.B, r.S, r.I)
  BY ArchIs
<1> HIDE DEF r
<1> DEFINE r1 == [r EXCEPT !.A = a]   r2 == [r1 EXCEPT !.I = i]   r3 == [r2 EXCEPT !.F = f]
<1>2. [r EXCEPT !.A = a, !.I = i, !.F = f] = r3
  BY Zenon
<1>3. r1 = Fields(r.reset, a, r.K, r.C, r.F, r.P, r.B, r.S, r.I)
  BY <1>1 DEF Fields
<1> HIDE DEF r1
<1>4. r2 = Fields(r.reset, a, r.K, r.C, r.F, r.P, r.B, r.S, i)
  BY <1>3 DEF Fields
<1> HIDE DEF r2
<1>5. r3 = Fields(r.reset, a, r.K, r.C, f, r.P, r.B, r.S, i)
  BY <1>4 DEF Fields
<1> HIDE DEF r3
<1> QED
  BY <1>0, <1>2, <1>5 DEF r, Adds

Points(p, i) == [arch.regs EXCEPT !.P = p, !.I = i]
LEMMA EndPoints ==
  ASSUME ArchInv, ~arch.regs.reset, UNCHANGED <<dev_clock, dev_data>>, NEW p, NEW i,
         Ended(arch.regs.A, arch.regs.K, arch.regs.F, p, arch.regs.B, arch.regs.S, i)
  PROVE  Architecture!Execute(Points(p, i), bus)
<1> DEFINE r == arch.regs
<1>0. Architecture!Execute(Fields(r.reset, r.A, r.K, r.C, r.F, p, r.B, r.S, i), bus)
  BY Fetched
<1>1. r = Fields(r.reset, r.A, r.K, r.C, r.F, r.P, r.B, r.S, r.I)
  BY ArchIs
<1> HIDE DEF r
<1> DEFINE r1 == [r EXCEPT !.P = p]   r2 == [r1 EXCEPT !.I = i]
<1>2. [r EXCEPT !.P = p, !.I = i] = r2
  BY Zenon
<1>3. r1 = Fields(r.reset, r.A, r.K, r.C, r.F, p, r.B, r.S, r.I)
  BY <1>1 DEF Fields
<1> HIDE DEF r1
<1>4. r2 = Fields(r.reset, r.A, r.K, r.C, r.F, p, r.B, r.S, i)
  BY <1>3 DEF Fields
<1> HIDE DEF r2
<1> QED
  BY <1>0, <1>2, <1>4 DEF r, Points

Bases(b, i) == [arch.regs EXCEPT !.B = b, !.I = i]
LEMMA EndBases ==
  ASSUME ArchInv, ~arch.regs.reset, UNCHANGED <<dev_clock, dev_data>>, NEW b, NEW i,
         Ended(arch.regs.A, arch.regs.K, arch.regs.F, arch.regs.P, b, arch.regs.S, i)
  PROVE  Architecture!Execute(Bases(b, i), bus)
<1> DEFINE r == arch.regs
<1>0. Architecture!Execute(Fields(r.reset, r.A, r.K, r.C, r.F, r.P, b, r.S, i), bus)
  BY Fetched
<1>1. r = Fields(r.reset, r.A, r.K, r.C, r.F, r.P, r.B, r.S, r.I)
  BY ArchIs
<1> HIDE DEF r
<1> DEFINE r1 == [r EXCEPT !.B = b]   r2 == [r1 EXCEPT !.I = i]
<1>2. [r EXCEPT !.B = b, !.I = i] = r2
  BY Zenon
<1>3. r1 = Fields(r.reset, r.A, r.K, r.C, r.F, r.P, b, r.S, r.I)
  BY <1>1 DEF Fields
<1> HIDE DEF r1
<1>4. r2 = Fields(r.reset, r.A, r.K, r.C, r.F, r.P, b, r.S, i)
  BY <1>3 DEF Fields
<1> HIDE DEF r2
<1> QED
  BY <1>0, <1>2, <1>4 DEF r, Bases

Stacks(s, i) == [arch.regs EXCEPT !.S = s, !.I = i]
LEMMA EndStacks ==
  ASSUME ArchInv, ~arch.regs.reset, UNCHANGED <<dev_clock, dev_data>>, NEW s, NEW i,
         Ended(arch.regs.A, arch.regs.K, arch.regs.F, arch.regs.P, arch.regs.B, s, i)
  PROVE  Architecture!Execute(Stacks(s, i), bus)
<1> DEFINE r == arch.regs
<1>0. Architecture!Execute(Fields(r.reset, r.A, r.K, r.C, r.F, r.P, r.B, s, i), bus)
  BY Fetched
<1>1. r = Fields(r.reset, r.A, r.K, r.C, r.F, r.P, r.B, r.S, r.I)
  BY ArchIs
<1> HIDE DEF r
<1> DEFINE r1 == [r EXCEPT !.S = s]   r2 == [r1 EXCEPT !.I = i]
<1>2. [r EXCEPT !.S = s, !.I = i] = r2
  BY Zenon
<1>3. r1 = Fields(r.reset, r.A, r.K, r.C, r.F, r.P, r.B, s, r.I)
  BY <1>1 DEF Fields
<1> HIDE DEF r1
<1>4. r2 = Fields(r.reset, r.A, r.K, r.C, r.F, r.P, r.B, s, i)
  BY <1>3 DEF Fields
<1> HIDE DEF r2
<1> QED
  BY <1>0, <1>2, <1>4 DEF r, Stacks

Breaks(s, k, i) == [arch.regs EXCEPT !.S = s, !.K = k, !.I = i]
LEMMA EndBreaks ==
  ASSUME ArchInv, ~arch.regs.reset, UNCHANGED <<dev_clock, dev_data>>, NEW s, NEW k, NEW i,
         Ended(arch.regs.A, k, arch.regs.F, arch.regs.P, arch.regs.B, s, i)
  PROVE  Architecture!Execute(Breaks(s, k, i), bus)
<1> DEFINE r == arch.regs
<1>0. Architecture!Execute(Fields(r.reset, r.A, k, r.C, r.F, r.P, r.B, s, i), bus)
  BY Fetched
<1>1. r = Fields(r.reset, r.A, r.K, r.C, r.F, r.P, r.B, r.S, r.I)
  BY ArchIs
<1> HIDE DEF r
<1> DEFINE r1 == [r EXCEPT !.S = s]   r2 == [r1 EXCEPT !.K = k]   r3 == [r2 EXCEPT !.I = i]
<1>2. [r EXCEPT !.S = s, !.K = k, !.I = i] = r3
  BY Zenon
<1>3. r1 = Fields(r.reset, r.A, r.K, r.C, r.F, r.P, r.B, s, r.I)
  BY <1>1 DEF Fields
<1> HIDE DEF r1
<1>4. r2 = Fields(r.reset, r.A, k, r.C, r.F, r.P, r.B, s, r.I)
  BY <1>3 DEF Fields
<1> HIDE DEF r2
<1>5. r3 = Fields(r.reset, r.A, k, r.C, r.F, r.P, r.B, s, i)
  BY <1>4 DEF Fields
<1> HIDE DEF r3
<1> QED
  BY <1>0, <1>2, <1>5 DEF r, Breaks

Returns(f, k, s, a, i) == [arch.regs EXCEPT !.F = f, !.K = k, !.S = s, !.A = a, !.I = i]
LEMMA EndReturns ==
  ASSUME ArchInv, ~arch.regs.reset, UNCHANGED <<dev_clock, dev_data>>, NEW f, NEW k, NEW s, NEW a, NEW i,
         Ended(a, k, f, arch.regs.P, arch.regs.B, s, i)
  PROVE  Architecture!Execute(Returns(f, k, s, a, i), bus)
<1> DEFINE r == arch.regs
<1>0. Architecture!Execute(Fields(r.reset, a, k, r.C, f, r.P, r.B, s, i), bus)
  BY Fetched
<1>1. r = Fields(r.reset, r.A, r.K, r.C, r.F, r.P, r.B, r.S, r.I)
  BY ArchIs
<1> HIDE DEF r
<1> DEFINE r1 == [r EXCEPT !.F = f]   r2 == [r1 EXCEPT !.K = k]   r3 == [r2 EXCEPT !.S = s]
           r4 == [r3 EXCEPT !.A = a]   r5 == [r4 EXCEPT !.I = i]
<1>2. [r EXCEPT !.F = f, !.K = k, !.S = s, !.A = a, !.I = i] = r5
  BY Zenon
<1>3. r1 = Fields(r.reset, r.A, r.K, r.C, f, r.P, r.B, r.S, r.I)
  BY <1>1 DEF Fields
<1> HIDE DEF r1
<1>4. r2 = Fields(r.reset, r.A, k, r.C, f, r.P, r.B, r.S, r.I)
  BY <1>3 DEF Fields
<1> HIDE DEF r2
<1>5. r3 = Fields(r.reset, r.A, k, r.C, f, r.P, r.B, s, r.I)
  BY <1>4 DEF Fields
<1> HIDE DEF r3
<1>6. r4 = Fields(r.reset, a, k, r.C, f, r.P, r.B, s, r.I)
  BY <1>5 DEF Fields
<1> HIDE DEF r4
<1>7. r5 = Fields(r.reset, a, k, r.C, f, r.P, r.B, s, i)
  BY <1>6 DEF Fields
<1> HIDE DEF r5
<1> QED
  BY <1>0, <1>2, <1>7 DEF r, Returns

-----------------------------------------------------------------------------
(* The opcodes: every clock of an instruction follows its path or ends it  *)
(* with what the instruction set says.                                     *)
RefineInv == ProgramInv /\ ArchInv /\ Quiet /\ AlongInv /\ cpu.F < 16

(* A clock in the middle of an instruction, and one that ends it.          *)
Proceeds == Inside /\ cpu'.step \in 1 .. 15
Starts == cpu'.reset = FALSE /\ cpu'.step = 0 /\ arch' = Visible'

(* In an instruction the control word is the one its opcode has at this    *)
(* step.                                                                   *)
LEMMA Running ==
  ASSUME RefineInv, ~arch.regs.reset
  PROVE  /\ cpu.C = arch.regs.C /\ ~cpu.reset
         /\ cpu.C \in Opcodes => Control = Compiled(Program(cpu.C), cpu.F, cpu.step)
         /\ cpu.C \notin Opcodes => Control = Unwritten
         /\ cpu.step = 0 /\ cpu.C \in Opcodes => bus = arch.bus /\ Kept(cpu, arch.regs, arch.regs.I)
<1>1. cpu.C = arch.regs.C /\ ~cpu.reset
  BY DEF RefineInv, AlongInv, Along
<1>2. ~Pending
  BY DEF RefineInv, Quiet, Pending, GetInterrupt
<1>3. cpu.C \in Opcodes => Control = Compiled(Program(cpu.C), cpu.F, cpu.step)
  BY <1>1, <1>2, OpcodeControl DEF RefineInv, ProgramInv
<1>4. cpu.C \notin Opcodes => Control = Unwritten
  BY <1>1, <1>2, OpcodeControl DEF RefineInv, ProgramInv
<1>5. cpu.step = 0 /\ cpu.C \in Opcodes => bus = arch.bus /\ Kept(cpu, arch.regs, arch.regs.I)
  BY <1>1 DEF RefineInv, AlongInv, Along
<1> QED
  BY <1>1, <1>3, <1>4, <1>5

LEMMA LodImmStep ==
  ASSUME RefineInv, Clocked(Control), UNCHANGED <<dev_clock, dev_data>>, ~arch.regs.reset, arch.regs.C = 0
  PROVE  /\ \/ Proceeds /\ AlongLod(cpu', bus', arch.regs, arch.bus, dev)
            \/ Starts /\ Architecture!LodImm
         /\ "FD" \notin Control
<1> DEFINE r == arch.regs   m == arch.bus
           i1 == Fwd(r.I, 1)   i2 == Fwd(r.I, 2)   value == Next1(r, m, dev)
<1>1. cpu.C = 0 /\ Control = Compiled(Program(0), cpu.F, cpu.step)
  BY Running DEF Opcodes
<1>2. ProgramInv /\ ArchInv /\ AlongLod(cpu, bus, arch.regs, arch.bus, dev)
  BY DEF RefineInv, AlongInv, Along
<1>3. cpu.step \in 0 .. 1
  BY <1>1, <1>2 DEF AlongLod
<1>4. i1 \in Word /\ Fwd(i1, 1) = i2 /\ r.I \in Word
  BY <1>2, ArchFields, Around
<1>10. CASE cpu.step = 0
  <2>1. Control = NextByte({"EZ", "AI", "FI"})
    BY <1>1, <1>10, ProgramWords
  <2>2. bus = m /\ Regs(cpu, r.A, r.K, r.F, r.P, r.B, r.S, r.I)
    BY <1>1, <1>10, Running DEF Opcodes, Kept
  <2>3. /\ Regs(cpu', ReadMemory(bus, dev, i1), r.K, WithNZ(r.F, ReadMemory(bus, dev, i1)), r.P, r.B, r.S,
             i1)
        /\ bus' = bus
        /\ Inside
    BY <1>2, <1>4, <2>1, <2>2, LoadNextEffect
  <2>4. cpu'.step = 1 /\ cpu'.C = 0
    BY <1>1, <1>10, <2>3 DEF Inside
  <2>5. AlongLod(cpu', bus', arch.regs, arch.bus, dev)
    BY <1>4, <2>2, <2>3, <2>4 DEF AlongLod, Kept, Next1
  <2>6. "FD" \notin Control
    BY <2>1 DEF NextByte
  <2> QED
    BY <1>10, <2>3, <2>4, <2>5, <2>6 DEF Proceeds
<1>11. CASE cpu.step = 1
  <2>1. Control = Fetch
    BY <1>1, <1>11, ProgramWords
  <2>2. bus = m /\ Regs(cpu, value, r.K, WithNZ(r.F, value), r.P, r.B, r.S, i1)
    BY <1>1, <1>2, <1>4, <1>11 DEF AlongLod, Kept, Next1
  <2>3. Ended(value, r.K, WithNZ(r.F, value), r.P, r.B, r.S, i2)
    BY <1>2, <1>4, <2>1, <2>2, FetchEnds
  <2>4. Architecture!Execute(Loads(value, WithNZ(r.F, value), i2), bus)
    BY <1>2, <2>3, EndLoads
  <2>5. /\ Architecture!Imm = value
        /\ Architecture!Advance(2) = i2
        /\ Architecture!WithNZ(r.F, value) = WithNZ(r.F, value)
    BY <1>2, ArchReads, SameAlu
  <2>6. Architecture!LodImm
    <3>1. Architecture!Opcode(0)
      BY DEF Architecture!Opcode
    <3> HIDE DEF i2, value
    <3> QED
      BY <2>2, <2>4, <2>5, <3>1, Zenon DEF Architecture!LodImm, Architecture!Load, Loads
  <2>7. "FD" \notin Control
    BY <2>1 DEF Fetch, NextByte
  <2> QED
    BY <1>11, <2>3, <2>6, <2>7 DEF Starts, Ended
<1> QED
  BY <1>3, <1>10, <1>11

LEMMA LodBaseStep ==
  ASSUME RefineInv, Clocked(Control), UNCHANGED <<dev_clock, dev_data>>, ~arch.regs.reset, arch.regs.C = 2
  PROVE  /\ \/ Proceeds /\ AlongIndexed(cpu', bus', arch.regs, arch.bus, dev)
            \/ Starts /\ Architecture!LodBase
         /\ "FD" \notin Control
<1> DEFINE r == arch.regs   m == arch.bus
           i1 == Fwd(r.I, 1)   i2 == Fwd(r.I, 2)   value == Next1(r, m, dev)
           loaded == ReadMemory(m, dev, Fwd(r.B, value))
<1>1. cpu.C = 2 /\ Control = Compiled(Program(2), cpu.F, cpu.step)
  BY Running DEF Opcodes
<1>2. ProgramInv /\ ArchInv /\ AlongIndexed(cpu, bus, arch.regs, arch.bus, dev)
  BY DEF RefineInv, AlongInv, Along
<1>3. cpu.step \in 0 .. 2
  BY <1>1, <1>2 DEF AlongIndexed
<1>4. i1 \in Word /\ Fwd(i1, 1) = i2 /\ r.I \in Word
  BY <1>2, ArchFields, Around
<1>10. CASE cpu.step = 0
  <2>1. Control = NextByte({"XI"})
    BY <1>1, <1>10, ProgramWords
  <2>2. bus = m /\ Regs(cpu, r.A, r.K, r.F, r.P, r.B, r.S, r.I)
    BY <1>1, <1>10, Running DEF Opcodes, Kept
  <2>3. /\ Regs(cpu', r.A, r.K, r.F, r.P, r.B, r.S, i1) /\ bus' = bus /\ Inside
        /\ cpu'.X = ReadMemory(bus, dev, i1)
    BY <1>2, <1>4, <2>1, <2>2, NextIndexEffect
  <2>4. cpu'.step = 1 /\ cpu'.C = 2
    BY <1>1, <1>10, <2>3 DEF Inside
  <2>5. AlongIndexed(cpu', bus', arch.regs, arch.bus, dev)
    BY <1>4, <2>2, <2>3, <2>4 DEF AlongIndexed, Kept, Next1
  <2>6. "FD" \notin Control
    BY <2>1 DEF NextByte
  <2> QED
    BY <1>10, <2>3, <2>4, <2>5, <2>6 DEF Proceeds
<1>11. CASE cpu.step = 1
  <2>1. Control = {"BO", "MO", "EZ", "EO", "AI", "FI"}
    BY <1>1, <1>11, ProgramWords
  <2>2. bus = m /\ Regs(cpu, r.A, r.K, r.F, r.P, r.B, r.S, i1) /\ cpu.X = value
    BY <1>1, <1>2, <1>4, <1>11 DEF AlongIndexed, Kept, Next1
  <2>3. /\ Regs(cpu', loaded, r.K, WithNZ(r.F, loaded), r.P, r.B, r.S, i1) /\ bus' = bus /\ Inside
    BY <1>2, <1>4, <2>1, <2>2, LoadBaseEffect DEF Fwd
  <2>4. cpu'.step = 2 /\ cpu'.C = 2
    BY <1>1, <1>11, <2>3 DEF Inside
  <2>5. AlongIndexed(cpu', bus', arch.regs, arch.bus, dev)
    BY <1>4, <2>2, <2>3, <2>4 DEF AlongIndexed, Kept, Next1
  <2>6. "FD" \notin Control
    BY <2>1
  <2> QED
    BY <1>11, <2>3, <2>4, <2>5, <2>6 DEF Proceeds
<1>12. CASE cpu.step = 2
  <2>1. Control = Fetch
    BY <1>1, <1>12, ProgramWords
  <2>2. bus = m /\ Regs(cpu, loaded, r.K, WithNZ(r.F, loaded), r.P, r.B, r.S, i1)
    BY <1>1, <1>2, <1>4, <1>12 DEF AlongIndexed, Kept, Next1
  <2>3. Ended(loaded, r.K, WithNZ(r.F, loaded), r.P, r.B, r.S, i2)
    BY <1>2, <1>4, <2>1, <2>2, FetchEnds
  <2>4. Architecture!Execute(Loads(loaded, WithNZ(r.F, loaded), i2), bus)
    BY <1>2, <2>3, EndLoads
  <2>5. /\ Architecture!Read(r.B + Architecture!Imm) = loaded /\ Architecture!Advance(2) = i2
        /\ Architecture!WithNZ(r.F, loaded) = WithNZ(r.F, loaded)
    BY <1>2, ArchReads, SameAlu DEF Fwd
  <2>6. Architecture!LodBase
    <3>1. Architecture!Opcode(2)
      BY DEF Architecture!Opcode
    <3> HIDE DEF i2, loaded
    <3> QED
      BY <2>2, <2>4, <2>5, <3>1, Zenon DEF Architecture!LodBase, Architecture!Load, Loads
  <2>7. "FD" \notin Control
    BY <2>1 DEF Fetch, NextByte
  <2> QED
    BY <1>12, <2>3, <2>6, <2>7 DEF Starts, Ended
<1> QED
  BY <1>3, <1>10, <1>11, <1>12

LEMMA StoPtrStep ==
  ASSUME RefineInv, Clocked(Control), UNCHANGED <<dev_clock, dev_data>>, ~arch.regs.reset,
         arch.regs.C = 28
  PROVE  /\ \/ Proceeds /\ AlongIndexed(cpu', bus', arch.regs, arch.bus, dev)
            \/ Starts /\ Architecture!StoPtr
         /\ "FD" \notin Control
<1> DEFINE r == arch.regs   m == arch.bus
           i1 == Fwd(r.I, 1)   i2 == Fwd(r.I, 2)   value == Next1(r, m, dev)
<1>1. cpu.C = 28 /\ Control = Compiled(Program(28), cpu.F, cpu.step)
  BY Running DEF Opcodes
<1>2. ProgramInv /\ ArchInv /\ AlongIndexed(cpu, bus, arch.regs, arch.bus, dev)
  BY DEF RefineInv, AlongInv, Along
<1>3. cpu.step \in 0 .. 2
  BY <1>1, <1>2 DEF AlongIndexed
<1>4. i1 \in Word /\ Fwd(i1, 1) = i2 /\ r.I \in Word
  BY <1>2, ArchFields, Around
<1>10. CASE cpu.step = 0
  <2>1. Control = NextByte({"XI"})
    BY <1>1, <1>10, ProgramWords
  <2>2. bus = m /\ Regs(cpu, r.A, r.K, r.F, r.P, r.B, r.S, r.I)
    BY <1>1, <1>10, Running DEF Opcodes, Kept
  <2>3. /\ Regs(cpu', r.A, r.K, r.F, r.P, r.B, r.S, i1) /\ bus' = bus /\ Inside
        /\ cpu'.X = ReadMemory(bus, dev, i1)
    BY <1>2, <1>4, <2>1, <2>2, NextIndexEffect
  <2>4. cpu'.step = 1 /\ cpu'.C = 28
    BY <1>1, <1>10, <2>3 DEF Inside
  <2>5. AlongIndexed(cpu', bus', arch.regs, arch.bus, dev)
    BY <1>4, <2>2, <2>3, <2>4 DEF AlongIndexed, Kept, Next1
  <2>6. "FD" \notin Control
    BY <2>1 DEF NextByte
  <2> QED
    BY <1>10, <2>3, <2>4, <2>5, <2>6 DEF Proceeds
<1>11. CASE cpu.step = 1
  <2>1. Control = {"PO", "AO", "EO", "MI"}
    BY <1>1, <1>11, ProgramWords
  <2>2. bus = m /\ Regs(cpu, r.A, r.K, r.F, r.P, r.B, r.S, i1) /\ cpu.X = value
    BY <1>1, <1>2, <1>4, <1>11 DEF AlongIndexed, Kept, Next1
  <2>3. /\ Regs(cpu', r.A, r.K, r.F, r.P, r.B, r.S, i1)
        /\ bus' = WriteMemory(bus, r.A, Fwd(r.P, value))
        /\ Inside
    BY <1>2, <1>4, <2>1, <2>2, StorePtrEffect DEF Fwd
  <2>4. cpu'.step = 2 /\ cpu'.C = 28
    BY <1>1, <1>11, <2>3 DEF Inside
  <2>5. AlongIndexed(cpu', bus', arch.regs, arch.bus, dev)
    BY <1>4, <2>2, <2>3, <2>4 DEF AlongIndexed, Kept, Next1
  <2>6. "FD" \notin Control
    BY <2>1
  <2> QED
    BY <1>11, <2>3, <2>4, <2>5, <2>6 DEF Proceeds
<1>12. CASE cpu.step = 2
  <2>1. Control = Fetch
    BY <1>1, <1>12, ProgramWords
  <2>2. bus = WriteMemory(m, r.A, Fwd(r.P, value)) /\ Regs(cpu, r.A, r.K, r.F, r.P, r.B, r.S, i1)
    BY <1>1, <1>2, <1>4, <1>12 DEF AlongIndexed, Kept, Next1
  <2>3. Ended(r.A, r.K, r.F, r.P, r.B, r.S, i2)
    BY <1>2, <1>4, <2>1, <2>2, FetchEnds
  <2>4. Architecture!Execute(Goes(i2), bus)
    BY <1>2, <2>3, EndGoes
  <2>5. /\ Architecture!WriteMemory(m, r.A, (r.P + Architecture!Imm) % 65536) = bus
        /\ [r EXCEPT !.I = Architecture!Advance(2)] = Goes(i2)
    BY <1>2, <2>2, ArchReads, SameWrites DEF Fwd, Goes
  <2>6. Architecture!StoPtr
    <3>1. Architecture!Opcode(28)
      BY DEF Architecture!Opcode
    <3> QED
      BY <2>2, <2>4, <2>5, <3>1 DEF Architecture!StoPtr, Goes
  <2>7. "FD" \notin Control
    BY <2>1 DEF Fetch, NextByte
  <2> QED
    BY <1>12, <2>3, <2>6, <2>7 DEF Starts, Ended
<1> QED
  BY <1>3, <1>10, <1>11, <1>12

LEMMA LeaBaseStep ==
  ASSUME RefineInv, Clocked(Control), UNCHANGED <<dev_clock, dev_data>>, ~arch.regs.reset,
         arch.regs.C = 18
  PROVE  /\ \/ Proceeds /\ AlongIndexed(cpu', bus', arch.regs, arch.bus, dev)
            \/ Starts /\ Architecture!LeaBase
         /\ "FD" \notin Control
<1> DEFINE r == arch.regs   m == arch.bus
           i1 == Fwd(r.I, 1)   i2 == Fwd(r.I, 2)   value == Next1(r, m, dev)
           to == Fwd(r.B, value)   target == (r.B + Architecture!Imm) % 65536
           advanced == Architecture!Advance(2)
<1>1. cpu.C = 18 /\ Control = Compiled(Program(18), cpu.F, cpu.step)
  BY Running DEF Opcodes
<1>2. ProgramInv /\ ArchInv /\ AlongIndexed(cpu, bus, arch.regs, arch.bus, dev)
  BY DEF RefineInv, AlongInv, Along
<1>3. cpu.step \in 0 .. 2
  BY <1>1, <1>2 DEF AlongIndexed
<1>4. i1 \in Word /\ Fwd(i1, 1) = i2 /\ r.I \in Word
  BY <1>2, ArchFields, Around
<1>10. CASE cpu.step = 0
  <2>1. Control = NextByte({"XI"})
    BY <1>1, <1>10, ProgramWords
  <2>2. bus = m /\ Regs(cpu, r.A, r.K, r.F, r.P, r.B, r.S, r.I)
    BY <1>1, <1>10, Running DEF Opcodes, Kept
  <2>3. /\ Regs(cpu', r.A, r.K, r.F, r.P, r.B, r.S, i1) /\ bus' = bus /\ Inside
        /\ cpu'.X = ReadMemory(bus, dev, i1)
    BY <1>2, <1>4, <2>1, <2>2, NextIndexEffect
  <2>4. cpu'.step = 1 /\ cpu'.C = 18
    BY <1>1, <1>10, <2>3 DEF Inside
  <2>5. AlongIndexed(cpu', bus', arch.regs, arch.bus, dev)
    BY <1>4, <2>2, <2>3, <2>4 DEF AlongIndexed, Kept, Next1
  <2>6. "FD" \notin Control
    BY <2>1 DEF NextByte
  <2> QED
    BY <1>10, <2>3, <2>4, <2>5, <2>6 DEF Proceeds
<1>11. CASE cpu.step = 1
  <2>1. Control = {"BO", "PI", "ZO", "EO"}
    BY <1>1, <1>11, ProgramWords
  <2>2. bus = m /\ Regs(cpu, r.A, r.K, r.F, r.P, r.B, r.S, i1) /\ cpu.X = value
    BY <1>1, <1>2, <1>4, <1>11 DEF AlongIndexed, Kept, Next1
  <2>3. /\ Regs(cpu', r.A, r.K, r.F, Fwd(r.B, value), r.B, r.S, i1) /\ bus' = bus /\ Inside
    BY <1>2, <1>4, <2>1, <2>2, LeaBaseEffect DEF Fwd
  <2>4. cpu'.step = 2 /\ cpu'.C = 18
    BY <1>1, <1>11, <2>3 DEF Inside
  <2>5. AlongIndexed(cpu', bus', arch.regs, arch.bus, dev)
    BY <1>4, <2>2, <2>3, <2>4 DEF AlongIndexed, Kept, Next1
  <2>6. "FD" \notin Control
    BY <2>1
  <2> QED
    BY <1>11, <2>3, <2>4, <2>5, <2>6 DEF Proceeds
<1>12. CASE cpu.step = 2
  <2>1. Control = Fetch
    BY <1>1, <1>12, ProgramWords
  <2>2. bus = m /\ Regs(cpu, r.A, r.K, r.F, Fwd(r.B, value), r.B, r.S, i1)
    BY <1>1, <1>2, <1>4, <1>12 DEF AlongIndexed, Kept, Next1
  <2>3. Ended(r.A, r.K, r.F, Fwd(r.B, value), r.B, r.S, i2)
    BY <1>2, <1>4, <2>1, <2>2, FetchEnds
  <2>4. Architecture!Execute(Points(to, i2), bus)
    BY <1>2, <2>3, EndPoints
  <2>5. target = to /\ advanced = i2
    BY <1>2, ArchReads DEF Fwd
  <2>6. Architecture!LeaBase
    <3>1. Architecture!Opcode(18)
      BY DEF Architecture!Opcode
    <3>2. Architecture!LeaBase <=> Architecture!Opcode(18) /\ Architecture!Execute([r EXCEPT !.P = target,
              !.I = advanced], m)
      BY DEF Architecture!LeaBase
    <3> HIDE DEF target, advanced, to, i2
    <3> QED
      BY <2>2, <2>4, <2>5, <3>1, <3>2, Zenon DEF Points
  <2>7. "FD" \notin Control
    BY <2>1 DEF Fetch, NextByte
  <2> QED
    BY <1>12, <2>3, <2>6, <2>7 DEF Starts, Ended
<1> QED
  BY <1>3, <1>10, <1>11, <1>12

LEMMA LeaPtrStep ==
  ASSUME RefineInv, Clocked(Control), UNCHANGED <<dev_clock, dev_data>>, ~arch.regs.reset,
         arch.regs.C = 20
  PROVE  /\ \/ Proceeds /\ AlongIndexed(cpu', bus', arch.regs, arch.bus, dev)
            \/ Starts /\ Architecture!LeaPtr
         /\ "FD" \notin Control
<1> DEFINE r == arch.regs   m == arch.bus
           i1 == Fwd(r.I, 1)   i2 == Fwd(r.I, 2)   value == Next1(r, m, dev)
           to == Fwd(r.P, value)   target == (r.P + Architecture!Imm) % 65536
           advanced == Architecture!Advance(2)
<1>1. cpu.C = 20 /\ Control = Compiled(Program(20), cpu.F, cpu.step)
  BY Running DEF Opcodes
<1>2. ProgramInv /\ ArchInv /\ AlongIndexed(cpu, bus, arch.regs, arch.bus, dev)
  BY DEF RefineInv, AlongInv, Along
<1>3. cpu.step \in 0 .. 2
  BY <1>1, <1>2 DEF AlongIndexed
<1>4. i1 \in Word /\ Fwd(i1, 1) = i2 /\ r.I \in Word
  BY <1>2, ArchFields, Around
<1>10. CASE cpu.step = 0
  <2>1. Control = NextByte({"XI"})
    BY <1>1, <1>10, ProgramWords
  <2>2. bus = m /\ Regs(cpu, r.A, r.K, r.F, r.P, r.B, r.S, r.I)
    BY <1>1, <1>10, Running DEF Opcodes, Kept
  <2>3. /\ Regs(cpu', r.A, r.K, r.F, r.P, r.B, r.S, i1) /\ bus' = bus /\ Inside
        /\ cpu'.X = ReadMemory(bus, dev, i1)
    BY <1>2, <1>4, <2>1, <2>2, NextIndexEffect
  <2>4. cpu'.step = 1 /\ cpu'.C = 20
    BY <1>1, <1>10, <2>3 DEF Inside
  <2>5. AlongIndexed(cpu', bus', arch.regs, arch.bus, dev)
    BY <1>4, <2>2, <2>3, <2>4 DEF AlongIndexed, Kept, Next1
  <2>6. "FD" \notin Control
    BY <2>1 DEF NextByte
  <2> QED
    BY <1>10, <2>3, <2>4, <2>5, <2>6 DEF Proceeds
<1>11. CASE cpu.step = 1
  <2>1. Control = {"PO", "PI", "ZO", "EO"}
    BY <1>1, <1>11, ProgramWords
  <2>2. bus = m /\ Regs(cpu, r.A, r.K, r.F, r.P, r.B, r.S, i1) /\ cpu.X = value
    BY <1>1, <1>2, <1>4, <1>11 DEF AlongIndexed, Kept, Next1
  <2>3. /\ Regs(cpu', r.A, r.K, r.F, Fwd(r.P, value), r.B, r.S, i1) /\ bus' = bus /\ Inside
    BY <1>2, <1>4, <2>1, <2>2, LeaPtrEffect DEF Fwd
  <2>4. cpu'.step = 2 /\ cpu'.C = 20
    BY <1>1, <1>11, <2>3 DEF Inside
  <2>5. AlongIndexed(cpu', bus', arch.regs, arch.bus, dev)
    BY <1>4, <2>2, <2>3, <2>4 DEF AlongIndexed, Kept, Next1
  <2>6. "FD" \notin Control
    BY <2>1
  <2> QED
    BY <1>11, <2>3, <2>4, <2>5, <2>6 DEF Proceeds
<1>12. CASE cpu.step = 2
  <2>1. Control = Fetch
    BY <1>1, <1>12, ProgramWords
  <2>2. bus = m /\ Regs(cpu, r.A, r.K, r.F, Fwd(r.P, value), r.B, r.S, i1)
    BY <1>1, <1>2, <1>4, <1>12 DEF AlongIndexed, Kept, Next1
  <2>3. Ended(r.A, r.K, r.F, Fwd(r.P, value), r.B, r.S, i2)
    BY <1>2, <1>4, <2>1, <2>2, FetchEnds
  <2>4. Architecture!Execute(Points(to, i2), bus)
    BY <1>2, <2>3, EndPoints
  <2>5. target = to /\ advanced = i2
    BY <1>2, ArchReads DEF Fwd
  <2>6. Architecture!LeaPtr
    <3>1. Architecture!Opcode(20)
      BY DEF Architecture!Opcode
    <3>2. Architecture!LeaPtr <=> Architecture!Opcode(20) /\ Architecture!Execute([r EXCEPT !.P = target,
              !.I = advanced], m)
      BY DEF Architecture!LeaPtr
    <3> HIDE DEF target, advanced, to, i2
    <3> QED
      BY <2>2, <2>4, <2>5, <3>1, <3>2, Zenon DEF Points
  <2>7. "FD" \notin Control
    BY <2>1 DEF Fetch, NextByte
  <2> QED
    BY <1>12, <2>3, <2>6, <2>7 DEF Starts, Ended
<1> QED
  BY <1>3, <1>10, <1>11, <1>12

(* The operands are bytes and the byte behind them is where they end.      *)
LEMMA OperandFacts ==
  ASSUME ProgramInv, ArchInv
  PROVE  LET r == arch.regs
             i1 == Fwd(r.I, 1)   i2 == Fwd(r.I, 2)   i3 == Fwd(r.I, 3) IN
         /\ r.I \in Word /\ i1 \in Word /\ Fwd(i1, 1) = i2 /\ i2 \in Word /\ Fwd(i2, 1) = i3
         /\ Next1(r, arch.bus, dev) \in Byte /\ Next2(r, arch.bus, dev) \in Byte
         /\ High(cpu.T) \in Byte /\ \A h, l \in Byte : Low(256 * h + l) = l /\ High(256 * h + l) = h
<1> DEFINE i == arch.regs.I
<1>1. i \in Word
  BY ArchFields
<1> HIDE DEF i
<1>2. Fwd(i, 1) \in Word /\ Fwd(Fwd(i, 1), 1) = Fwd(i, 2)
  BY <1>1, Around
<1>3. Fwd(i, 2) \in Word /\ Fwd(Fwd(i, 2), 1) = Fwd(i, 3)
  BY <1>1, Around
<1>4. Next1(arch.regs, arch.bus, dev) \in Byte /\ Next2(arch.regs, arch.bus, dev) \in Byte
  BY ArchReads
<1>5. High(cpu.T) \in Byte
  <2>1. 0 \in Byte
    BY DEF Byte
  <2> QED
    BY <2>1, HalvesGood DEF ProgramInv, Registers
<1>6. \A h, l \in Byte : Low(256 * h + l) = l /\ High(256 * h + l) = h
  BY HalvesJoin
<1> QED
  BY <1>1, <1>2, <1>3, <1>4, <1>5, <1>6 DEF i

LEMMA LeaAdrStep ==
  ASSUME RefineInv, Clocked(Control), UNCHANGED <<dev_clock, dev_data>>, ~arch.regs.reset,
         arch.regs.C = 17
  PROVE  /\ \/ Proceeds /\ AlongOperand(cpu', bus', arch.regs, arch.bus, dev)
            \/ Starts /\ Architecture!LeaAdr
         /\ "FD" \notin Control
<1> DEFINE r == arch.regs   m == arch.bus
           i1 == Fwd(r.I, 1)   i2 == Fwd(r.I, 2)   i3 == Fwd(r.I, 3)
           low == Next1(r, m, dev)   high == Next2(r, m, dev)   target == Operands(r, m, dev)
<1>1. cpu.C = 17 /\ Control = Compiled(Program(17), cpu.F, cpu.step)
  BY Running DEF Opcodes
<1>2. ProgramInv /\ ArchInv /\ AlongOperand(cpu, bus, arch.regs, arch.bus, dev)
  BY DEF RefineInv, AlongInv, Along
<1>3. cpu.step \in 0 .. 3
  BY <1>1, <1>2 DEF AlongOperand
<1>4. /\ i1 \in Word /\ Fwd(i1, 1) = i2 /\ i2 \in Word /\ Fwd(i2, 1) = i3 /\ r.I \in Word
      /\ low \in Byte /\ high \in Byte /\ High(cpu.T) \in Byte /\ \A h, l \in Byte : Low(256 * h + l) = l
  BY <1>2, OperandFacts
<1>10. CASE cpu.step = 0
  <2>1. Control = NextByte({"TL"})
    BY <1>1, <1>10, ProgramWords
  <2>2. bus = m /\ Regs(cpu, r.A, r.K, r.F, r.P, r.B, r.S, r.I)
    BY <1>1, <1>10, Running DEF Opcodes, Kept
  <2>3. /\ Regs(cpu', r.A, r.K, r.F, r.P, r.B, r.S, i1) /\ bus' = bus /\ Inside
        /\ cpu'.T = 256 * High(cpu.T) + ReadMemory(bus, dev, i1)
    BY <1>2, <1>4, <2>1, <2>2, NextLowEffect
  <2>4. cpu'.step = 1 /\ cpu'.C = 17
    BY <1>1, <1>10, <2>3 DEF Inside
  <2>5. AlongOperand(cpu', bus', arch.regs, arch.bus, dev)
    BY <1>4, <2>2, <2>3, <2>4 DEF AlongOperand, Kept, Next1, Next2, Operands
  <2>6. "FD" \notin Control
    BY <2>1 DEF NextByte
  <2> QED
    BY <1>10, <2>3, <2>4, <2>5, <2>6 DEF Proceeds
<1>11. CASE cpu.step = 1
  <2>1. Control = NextByte({"TH"})
    BY <1>1, <1>11, ProgramWords
  <2>2. bus = m /\ Regs(cpu, r.A, r.K, r.F, r.P, r.B, r.S, i1) /\ Low(cpu.T) = low
    BY <1>1, <1>2, <1>4, <1>11 DEF AlongOperand, Kept, Next1, Next2, Operands
  <2>3. /\ Regs(cpu', r.A, r.K, r.F, r.P, r.B, r.S, i2) /\ bus' = bus /\ Inside
        /\ cpu'.T = 256 * ReadMemory(bus, dev, i2) + Low(cpu.T)
    BY <1>2, <1>4, <2>1, <2>2, NextHighEffect
  <2>4. cpu'.step = 2 /\ cpu'.C = 17
    BY <1>1, <1>11, <2>3 DEF Inside
  <2>5. AlongOperand(cpu', bus', arch.regs, arch.bus, dev)
    BY <1>4, <2>2, <2>3, <2>4 DEF AlongOperand, Kept, Next1, Next2, Operands
  <2>6. "FD" \notin Control
    BY <2>1 DEF NextByte
  <2> QED
    BY <1>11, <2>3, <2>4, <2>5, <2>6 DEF Proceeds
<1>12. CASE cpu.step = 2
  <2>1. Control = {"TO", "XZ", "PI", "ZO", "EO"}
    BY <1>1, <1>12, ProgramWords
  <2>2. bus = m /\ Regs(cpu, r.A, r.K, r.F, r.P, r.B, r.S, i2) /\ cpu.T = target
    BY <1>1, <1>2, <1>4, <1>12 DEF AlongOperand, Kept, Next1, Next2, Operands
  <2>3. /\ Regs(cpu', r.A, r.K, r.F, target, r.B, r.S, i2) /\ bus' = bus /\ Inside
        /\ cpu'.T = cpu.T
    BY <1>2, <1>4, <2>1, <2>2, LeaAdrEffect
  <2>4. cpu'.step = 3 /\ cpu'.C = 17
    BY <1>1, <1>12, <2>3 DEF Inside
  <2>5. AlongOperand(cpu', bus', arch.regs, arch.bus, dev)
    BY <1>4, <2>2, <2>3, <2>4 DEF AlongOperand, Kept, Next1, Next2, Operands
  <2>6. "FD" \notin Control
    BY <2>1
  <2> QED
    BY <1>12, <2>3, <2>4, <2>5, <2>6 DEF Proceeds
<1>13. CASE cpu.step = 3
  <2>1. Control = Fetch
    BY <1>1, <1>13, ProgramWords
  <2>2. bus = m /\ Regs(cpu, r.A, r.K, r.F, target, r.B, r.S, i2)
    BY <1>1, <1>2, <1>4, <1>13 DEF AlongOperand, Kept, Next1, Next2, Operands
  <2>3. Ended(r.A, r.K, r.F, target, r.B, r.S, i3)
    BY <1>2, <1>4, <2>1, <2>2, FetchEnds
  <2>4. Architecture!Execute(Points(target, i3), bus)
    BY <1>2, <2>3, EndPoints
  <2>5. Architecture!Adr = target /\ Architecture!Advance(3) = i3
    BY <1>2, ArchReads
  <2>6. Architecture!LeaAdr
    <3>1. Architecture!Opcode(17)
      BY DEF Architecture!Opcode
    <3> HIDE DEF target, i3
    <3> QED
      BY <2>2, <2>4, <2>5, <3>1, Zenon DEF Architecture!LeaAdr, Points
  <2>7. "FD" \notin Control
    BY <2>1 DEF Fetch, NextByte
  <2> QED
    BY <1>13, <2>3, <2>6, <2>7 DEF Starts, Ended
<1> QED
  BY <1>3, <1>10, <1>11, <1>12, <1>13

LEMMA StoAdrStep ==
  ASSUME RefineInv, Clocked(Control), UNCHANGED <<dev_clock, dev_data>>, ~arch.regs.reset,
         arch.regs.C = 25
  PROVE  /\ \/ Proceeds /\ AlongOperand(cpu', bus', arch.regs, arch.bus, dev)
            \/ Starts /\ Architecture!StoAdr
         /\ "FD" \notin Control
<1> DEFINE r == arch.regs   m == arch.bus
           i1 == Fwd(r.I, 1)   i2 == Fwd(r.I, 2)   i3 == Fwd(r.I, 3)
           low == Next1(r, m, dev)   high == Next2(r, m, dev)   target == Operands(r, m, dev)
<1>1. cpu.C = 25 /\ Control = Compiled(Program(25), cpu.F, cpu.step)
  BY Running DEF Opcodes
<1>2. ProgramInv /\ ArchInv /\ AlongOperand(cpu, bus, arch.regs, arch.bus, dev)
  BY DEF RefineInv, AlongInv, Along
<1>3. cpu.step \in 0 .. 3
  BY <1>1, <1>2 DEF AlongOperand
<1>4. /\ i1 \in Word /\ Fwd(i1, 1) = i2 /\ i2 \in Word /\ Fwd(i2, 1) = i3 /\ r.I \in Word
      /\ low \in Byte /\ high \in Byte /\ High(cpu.T) \in Byte /\ \A h, l \in Byte : Low(256 * h + l) = l
  BY <1>2, OperandFacts
<1>10. CASE cpu.step = 0
  <2>1. Control = NextByte({"TL"})
    BY <1>1, <1>10, ProgramWords
  <2>2. bus = m /\ Regs(cpu, r.A, r.K, r.F, r.P, r.B, r.S, r.I)
    BY <1>1, <1>10, Running DEF Opcodes, Kept
  <2>3. /\ Regs(cpu', r.A, r.K, r.F, r.P, r.B, r.S, i1) /\ bus' = bus /\ Inside
        /\ cpu'.T = 256 * High(cpu.T) + ReadMemory(bus, dev, i1)
    BY <1>2, <1>4, <2>1, <2>2, NextLowEffect
  <2>4. cpu'.step = 1 /\ cpu'.C = 25
    BY <1>1, <1>10, <2>3 DEF Inside
  <2>5. AlongOperand(cpu', bus', arch.regs, arch.bus, dev)
    BY <1>4, <2>2, <2>3, <2>4 DEF AlongOperand, Kept, Next1, Next2, Operands
  <2>6. "FD" \notin Control
    BY <2>1 DEF NextByte
  <2> QED
    BY <1>10, <2>3, <2>4, <2>5, <2>6 DEF Proceeds
<1>11. CASE cpu.step = 1
  <2>1. Control = NextByte({"TH"})
    BY <1>1, <1>11, ProgramWords
  <2>2. bus = m /\ Regs(cpu, r.A, r.K, r.F, r.P, r.B, r.S, i1) /\ Low(cpu.T) = low
    BY <1>1, <1>2, <1>4, <1>11 DEF AlongOperand, Kept, Next1, Next2, Operands
  <2>3. /\ Regs(cpu', r.A, r.K, r.F, r.P, r.B, r.S, i2) /\ bus' = bus /\ Inside
        /\ cpu'.T = 256 * ReadMemory(bus, dev, i2) + Low(cpu.T)
    BY <1>2, <1>4, <2>1, <2>2, NextHighEffect
  <2>4. cpu'.step = 2 /\ cpu'.C = 25
    BY <1>1, <1>11, <2>3 DEF Inside
  <2>5. AlongOperand(cpu', bus', arch.regs, arch.bus, dev)
    BY <1>4, <2>2, <2>3, <2>4 DEF AlongOperand, Kept, Next1, Next2, Operands
  <2>6. "FD" \notin Control
    BY <2>1 DEF NextByte
  <2> QED
    BY <1>11, <2>3, <2>4, <2>5, <2>6 DEF Proceeds
<1>12. CASE cpu.step = 2
  <2>1. Control = {"TO", "XZ", "AO", "EO", "MI"}
    BY <1>1, <1>12, ProgramWords
  <2>2. bus = m /\ Regs(cpu, r.A, r.K, r.F, r.P, r.B, r.S, i2) /\ cpu.T = target
    BY <1>1, <1>2, <1>4, <1>12 DEF AlongOperand, Kept, Next1, Next2, Operands
  <2>3. /\ Regs(cpu', r.A, r.K, r.F, r.P, r.B, r.S, i2) /\ bus' = WriteMemory(bus, r.A, target) /\ Inside
        /\ cpu'.T = cpu.T
    BY <1>2, <1>4, <2>1, <2>2, StoreAdrEffect
  <2>4. cpu'.step = 3 /\ cpu'.C = 25
    BY <1>1, <1>12, <2>3 DEF Inside
  <2>5. AlongOperand(cpu', bus', arch.regs, arch.bus, dev)
    BY <1>4, <2>2, <2>3, <2>4 DEF AlongOperand, Kept, Next1, Next2, Operands
  <2>6. "FD" \notin Control
    BY <2>1
  <2> QED
    BY <1>12, <2>3, <2>4, <2>5, <2>6 DEF Proceeds
<1>13. CASE cpu.step = 3
  <2>1. Control = Fetch
    BY <1>1, <1>13, ProgramWords
  <2>2. bus = WriteMemory(m, r.A, target) /\ Regs(cpu, r.A, r.K, r.F, r.P, r.B, r.S, i2)
    BY <1>1, <1>2, <1>4, <1>13 DEF AlongOperand, Kept, Next1, Next2, Operands
  <2>3. Ended(r.A, r.K, r.F, r.P, r.B, r.S, i3)
    BY <1>2, <1>4, <2>1, <2>2, FetchEnds
  <2>4. Architecture!Execute(Goes(i3), bus)
    BY <1>2, <2>3, EndGoes
  <2>5. /\ Architecture!WriteMemory(m, r.A, Architecture!Adr) = bus
        /\ Architecture!Advance(3) = i3
    BY <1>2, <2>2, ArchReads, SameWrites
  <2>6. Architecture!StoAdr
    <3>1. Architecture!Opcode(25)
      BY DEF Architecture!Opcode
    <3> HIDE DEF i3, target
    <3> QED
      BY <2>2, <2>4, <2>5, <3>1, Zenon DEF Architecture!StoAdr, Goes
  <2>7. "FD" \notin Control
    BY <2>1 DEF Fetch, NextByte
  <2> QED
    BY <1>13, <2>3, <2>6, <2>7 DEF Starts, Ended
<1> QED
  BY <1>3, <1>10, <1>11, <1>12, <1>13

LEMMA JmpStep ==
  ASSUME RefineInv, Clocked(Control), UNCHANGED <<dev_clock, dev_data>>, ~arch.regs.reset,
         arch.regs.C = 244
  PROVE  /\ \/ Proceeds /\ AlongOperand(cpu', bus', arch.regs, arch.bus, dev)
            \/ Starts /\ Architecture!Jmp
         /\ "FD" \notin Control
<1> DEFINE r == arch.regs   m == arch.bus
           i1 == Fwd(r.I, 1)   i2 == Fwd(r.I, 2)   i3 == Fwd(r.I, 3)
           low == Next1(r, m, dev)   high == Next2(r, m, dev)   target == Operands(r, m, dev)
<1>1. cpu.C = 244 /\ Control = Compiled(Program(244), cpu.F, cpu.step)
  BY Running DEF Opcodes
<1>2. ProgramInv /\ ArchInv /\ AlongOperand(cpu, bus, arch.regs, arch.bus, dev)
  BY DEF RefineInv, AlongInv, Along
<1>3. cpu.step \in 0 .. 2
  BY <1>1, <1>2 DEF AlongOperand
<1>4. /\ i1 \in Word /\ Fwd(i1, 1) = i2 /\ i2 \in Word /\ Fwd(i2, 1) = i3 /\ r.I \in Word
      /\ low \in Byte /\ high \in Byte /\ High(cpu.T) \in Byte /\ \A h, l \in Byte : Low(256 * h + l) = l
  BY <1>2, OperandFacts
<1>10. CASE cpu.step = 0
  <2>1. Control = NextByte({"TL"})
    BY <1>1, <1>10, ProgramWords
  <2>2. bus = m /\ Regs(cpu, r.A, r.K, r.F, r.P, r.B, r.S, r.I)
    BY <1>1, <1>10, Running DEF Opcodes, Kept
  <2>3. /\ Regs(cpu', r.A, r.K, r.F, r.P, r.B, r.S, i1) /\ bus' = bus /\ Inside
        /\ cpu'.T = 256 * High(cpu.T) + ReadMemory(bus, dev, i1)
    BY <1>2, <1>4, <2>1, <2>2, NextLowEffect
  <2>4. cpu'.step = 1 /\ cpu'.C = 244
    BY <1>1, <1>10, <2>3 DEF Inside
  <2>5. AlongOperand(cpu', bus', arch.regs, arch.bus, dev)
    BY <1>4, <2>2, <2>3, <2>4 DEF AlongOperand, Kept, Next1, Next2, Operands
  <2>6. "FD" \notin Control
    BY <2>1 DEF NextByte
  <2> QED
    BY <1>10, <2>3, <2>4, <2>5, <2>6 DEF Proceeds
<1>11. CASE cpu.step = 1
  <2>1. Control = NextByte({"TH"})
    BY <1>1, <1>11, ProgramWords
  <2>2. bus = m /\ Regs(cpu, r.A, r.K, r.F, r.P, r.B, r.S, i1) /\ Low(cpu.T) = low
    BY <1>1, <1>2, <1>4, <1>11 DEF AlongOperand, Kept, Next1, Next2, Operands
  <2>3. /\ Regs(cpu', r.A, r.K, r.F, r.P, r.B, r.S, i2) /\ bus' = bus /\ Inside
        /\ cpu'.T = 256 * ReadMemory(bus, dev, i2) + Low(cpu.T)
    BY <1>2, <1>4, <2>1, <2>2, NextHighEffect
  <2>4. cpu'.step = 2 /\ cpu'.C = 244
    BY <1>1, <1>11, <2>3 DEF Inside
  <2>5. AlongOperand(cpu', bus', arch.regs, arch.bus, dev)
    BY <1>4, <2>2, <2>3, <2>4 DEF AlongOperand, Kept, Next1, Next2, Operands
  <2>6. "FD" \notin Control
    BY <2>1 DEF NextByte
  <2> QED
    BY <1>11, <2>3, <2>4, <2>5, <2>6 DEF Proceeds
<1>12. CASE cpu.step = 2
  <2>1. Control = Goto
    BY <1>1, <1>12, ProgramWords
  <2>2. bus = m /\ Regs(cpu, r.A, r.K, r.F, r.P, r.B, r.S, i2) /\ cpu.T = target
    BY <1>1, <1>2, <1>4, <1>12 DEF AlongOperand, Kept, Next1, Next2, Operands
  <2>3. Ended(r.A, r.K, r.F, r.P, r.B, r.S, target)
    BY <1>2, <1>4, <2>1, <2>2, GotoEnds
  <2>4. Architecture!Execute(Goes(target), bus)
    BY <1>2, <2>3, EndGoes
  <2>5. Architecture!Adr = target
    BY <1>2, ArchReads
  <2>6. Architecture!Jmp
    <3>1. Architecture!Opcode(244)
      BY DEF Architecture!Opcode
    <3> HIDE DEF target
    <3> QED
      BY <2>2, <2>4, <2>5, <3>1, Zenon DEF Architecture!Jmp, Goes
  <2>7. "FD" \notin Control
    BY <2>1 DEF Goto
  <2> QED
    BY <1>12, <2>3, <2>6, <2>7 DEF Starts, Ended
<1> QED
  BY <1>3, <1>10, <1>11, <1>12

LEMMA MovPBStep ==
  ASSUME RefineInv, Clocked(Control), UNCHANGED <<dev_clock, dev_data>>, ~arch.regs.reset,
         arch.regs.C = 34
  PROVE  /\ \/ Proceeds /\ AlongMov(cpu', bus', arch.regs, arch.bus)
            \/ Starts /\ Architecture!MovPB
         /\ "FD" \notin Control
<1> DEFINE r == arch.regs   m == arch.bus
           i1 == Fwd(r.I, 1)
<1>1. cpu.C = 34 /\ Control = Compiled(Program(34), cpu.F, cpu.step)
  BY Running DEF Opcodes
<1>2. ProgramInv /\ ArchInv /\ AlongMov(cpu, bus, arch.regs, arch.bus)
  BY DEF RefineInv, AlongInv, Along
<1>3. cpu.step \in 0 .. 1
  BY <1>1, <1>2 DEF AlongMov
<1>10. CASE cpu.step = 0
  <2>1. Control = {"PO", "XZ", "BI", "ZO", "EO"}
    BY <1>1, <1>10, ProgramWords
  <2>2. bus = m /\ Regs(cpu, r.A, r.K, r.F, r.P, r.B, r.S, r.I)
    BY <1>1, <1>10, Running DEF Opcodes, Kept
  <2>3. /\ Regs(cpu', r.A, r.K, r.F, r.P, r.P, r.S, r.I) /\ bus' = bus /\ Inside
    BY <1>2, <2>1, <2>2, MovBaseEffect
  <2>4. cpu'.step = 1 /\ cpu'.C = 34
    BY <1>1, <1>10, <2>3 DEF Inside
  <2>5. AlongMov(cpu', bus', arch.regs, arch.bus)
    BY <2>2, <2>3, <2>4 DEF AlongMov, Kept
  <2>6. "FD" \notin Control
    BY <2>1
  <2> QED
    BY <1>10, <2>3, <2>4, <2>5, <2>6 DEF Proceeds
<1>11. CASE cpu.step = 1
  <2>1. Control = Fetch
    BY <1>1, <1>11, ProgramWords
  <2>2. bus = m /\ Regs(cpu, r.A, r.K, r.F, r.P, r.P, r.S, r.I)
    BY <1>1, <1>2, <1>11 DEF AlongMov, Kept
  <2>3. Ended(r.A, r.K, r.F, r.P, r.P, r.S, i1)
    BY <1>2, <2>1, <2>2, FetchEnds
  <2>4. Architecture!Execute(Bases(r.P, i1), bus)
    BY <1>2, <2>3, EndBases
  <2>5. Architecture!Advance(1) = i1
    BY <1>2, ArchReads
  <2>6. Architecture!MovPB
    <3>1. Architecture!Opcode(34)
      BY DEF Architecture!Opcode
    <3> HIDE DEF i1
    <3> QED
      BY <2>2, <2>4, <2>5, <3>1, Zenon DEF Architecture!MovPB, Bases
  <2>7. "FD" \notin Control
    BY <2>1 DEF Fetch, NextByte
  <2> QED
    BY <1>11, <2>3, <2>6, <2>7 DEF Starts, Ended
<1> QED
  BY <1>3, <1>10, <1>11

LEMMA MovPSStep ==
  ASSUME RefineInv, Clocked(Control), UNCHANGED <<dev_clock, dev_data>>, ~arch.regs.reset,
         arch.regs.C = 35
  PROVE  /\ \/ Proceeds /\ AlongMov(cpu', bus', arch.regs, arch.bus)
            \/ Starts /\ Architecture!MovPS
         /\ "FD" \notin Control
<1> DEFINE r == arch.regs   m == arch.bus
           i1 == Fwd(r.I, 1)
<1>1. cpu.C = 35 /\ Control = Compiled(Program(35), cpu.F, cpu.step)
  BY Running DEF Opcodes
<1>2. ProgramInv /\ ArchInv /\ AlongMov(cpu, bus, arch.regs, arch.bus)
  BY DEF RefineInv, AlongInv, Along
<1>3. cpu.step \in 0 .. 1
  BY <1>1, <1>2 DEF AlongMov
<1>10. CASE cpu.step = 0
  <2>1. Control = {"PO", "XZ", "SI", "ZO", "EO"}
    BY <1>1, <1>10, ProgramWords
  <2>2. bus = m /\ Regs(cpu, r.A, r.K, r.F, r.P, r.B, r.S, r.I)
    BY <1>1, <1>10, Running DEF Opcodes, Kept
  <2>3. /\ Regs(cpu', r.A, r.K, r.F, r.P, r.B, r.P, r.I) /\ bus' = bus /\ Inside
    BY <1>2, <2>1, <2>2, MovStackEffect
  <2>4. cpu'.step = 1 /\ cpu'.C = 35
    BY <1>1, <1>10, <2>3 DEF Inside
  <2>5. AlongMov(cpu', bus', arch.regs, arch.bus)
    BY <2>2, <2>3, <2>4 DEF AlongMov, Kept
  <2>6. "FD" \notin Control
    BY <2>1
  <2> QED
    BY <1>10, <2>3, <2>4, <2>5, <2>6 DEF Proceeds
<1>11. CASE cpu.step = 1
  <2>1. Control = Fetch
    BY <1>1, <1>11, ProgramWords
  <2>2. bus = m /\ Regs(cpu, r.A, r.K, r.F, r.P, r.B, r.P, r.I)
    BY <1>1, <1>2, <1>11 DEF AlongMov, Kept
  <2>3. Ended(r.A, r.K, r.F, r.P, r.B, r.P, i1)
    BY <1>2, <2>1, <2>2, FetchEnds
  <2>4. Architecture!Execute(Stacks(r.P, i1), bus)
    BY <1>2, <2>3, EndStacks
  <2>5. Architecture!Advance(1) = i1
    BY <1>2, ArchReads
  <2>6. Architecture!MovPS
    <3>1. Architecture!Opcode(35)
      BY DEF Architecture!Opcode
    <3> HIDE DEF i1
    <3> QED
      BY <2>2, <2>4, <2>5, <3>1, Zenon DEF Architecture!MovPS, Stacks
  <2>7. "FD" \notin Control
    BY <2>1 DEF Fetch, NextByte
  <2> QED
    BY <1>11, <2>3, <2>6, <2>7 DEF Starts, Ended
<1> QED
  BY <1>3, <1>10, <1>11

LEMMA NopStep ==
  ASSUME RefineInv, Clocked(Control), UNCHANGED <<dev_clock, dev_data>>, ~arch.regs.reset,
         arch.regs.C = 80
  PROVE  /\ \/ Proceeds /\ AlongMov(cpu', bus', arch.regs, arch.bus)
            \/ Starts /\ Architecture!Nop
         /\ "FD" \notin Control
<1> DEFINE r == arch.regs   m == arch.bus
           i1 == Fwd(r.I, 1)
<1>1. cpu.C = 80 /\ Control = Compiled(Program(80), cpu.F, cpu.step)
  BY Running DEF Opcodes
<1>2. ProgramInv /\ ArchInv /\ AlongMov(cpu, bus, arch.regs, arch.bus)
  BY DEF RefineInv, AlongInv, Along
<1>3. cpu.step \in 0 .. 0
  BY <1>1, <1>2 DEF AlongMov
<1>10. CASE cpu.step = 0
  <2>1. Control = Fetch
    BY <1>1, <1>10, ProgramWords
  <2>2. bus = m /\ Regs(cpu, r.A, r.K, r.F, r.P, r.B, r.S, r.I)
    BY <1>1, <1>10, Running DEF Opcodes, Kept
  <2>3. Ended(r.A, r.K, r.F, r.P, r.B, r.S, i1)
    BY <1>2, <2>1, <2>2, FetchEnds
  <2>4. Architecture!Execute(Goes(i1), bus)
    BY <1>2, <2>3, EndGoes
  <2>5. Architecture!Advance(1) = i1
    BY <1>2, ArchReads
  <2>6. Architecture!Nop
    <3>1. Architecture!Opcode(80)
      BY DEF Architecture!Opcode
    <3> HIDE DEF i1
    <3> QED
      BY <2>2, <2>4, <2>5, <3>1, Zenon DEF Architecture!Nop, Goes
  <2>7. "FD" \notin Control
    BY <2>1 DEF Fetch, NextByte
  <2> QED
    BY <1>10, <2>3, <2>6, <2>7 DEF Starts, Ended
<1> QED
  BY <1>3, <1>10

(* What a push of two bytes, and of five, leaves in the memory.            *)
LEMMA PushedTwo ==
  ASSUME NEW x, NEW y
  PROVE  Architecture!Pushed(<<x, y>>)
         = WriteMemory(WriteMemory(arch.bus, x, Back(arch.regs.S, 1)), y, Back(arch.regs.S, 2))
<1> DEFINE bytes == <<x, y>>
           Down(k) == (arch.regs.S + 65536 - k) % 65536
           b == CHOOSE f : f = [k \in 0 .. Len(bytes) |->
                  IF k = 0 THEN arch.bus ELSE Architecture!WriteMemory(f[k - 1], bytes[k], Down(k))]
<1>1. Architecture!Pushed(bytes) = b[Len(bytes)]
  BY DEF Architecture!Pushed
<1>2. Len(bytes) = 2 /\ bytes[1] = x /\ bytes[2] = y
  OBVIOUS
<1> HIDE DEF bytes
<1>3. Down(1) = Back(arch.regs.S, 1) /\ Down(2) = Back(arch.regs.S, 2)
  BY DEF Back
<1> HIDE DEF Down
<1> DEFINE w0 == arch.bus
           w1 == Architecture!WriteMemory(w0, bytes[1], Down(1))
           w2 == Architecture!WriteMemory(w1, bytes[2], Down(2))
           g == [k \in 0 .. 2 |-> IF k = 0 THEN w0 ELSE IF k = 1 THEN w1 ELSE w2]
<1> HIDE DEF w0, w1, w2
<1>4. g = [k \in 0 .. Len(bytes) |-> IF k = 0 THEN arch.bus ELSE Architecture!WriteMemory(g[k - 1],
          bytes[k], Down(k))]
  <2>1. g[0] = w0 /\ g[1] = w1 /\ g[2] = w2
    OBVIOUS
  <2>2. \A k \in 0 .. 2 : g[k] = IF k = 0 THEN arch.bus ELSE Architecture!WriteMemory(g[k - 1], bytes[k],
            Down(k))
    BY <2>1 DEF w0, w1, w2
  <2>3. g = [k \in 0 .. 2 |-> g[k]]
    OBVIOUS
  <2> HIDE DEF g
  <2> QED
    BY <1>2, <2>2, <2>3
<1> HIDE DEF g
<1>5. b = [k \in 0 .. 2 |-> IF k = 0 THEN arch.bus ELSE Architecture!WriteMemory(b[k - 1], bytes[k],
          Down(k))]
  BY <1>2, <1>4
<1> HIDE DEF b
<1>6. b[0] = arch.bus
  BY <1>2, <1>3, <1>5, SameWrites
<1>7. b[1] = WriteMemory(arch.bus, x, Back(arch.regs.S, 1))
  BY <1>2, <1>3, <1>5, <1>6, SameWrites
<1>8. b[2] = WriteMemory(WriteMemory(arch.bus, x, Back(arch.regs.S, 1)), y, Back(arch.regs.S, 2))
  BY <1>2, <1>3, <1>5, <1>7, SameWrites
<1> QED
  BY <1>1, <1>2, <1>8 DEF bytes

LEMMA PushedFive ==
  ASSUME NEW v, NEW w, NEW x, NEW y, NEW z
  PROVE  Architecture!Pushed(<<v, w, x, y, z>>)
         = WriteMemory(WriteMemory(WriteMemory(WriteMemory(WriteMemory(arch.bus, v, Back(arch.regs.S, 1)),
             w, Back(arch.regs.S, 2)), x, Back(arch.regs.S, 3)), y, Back(arch.regs.S, 4)), z,
                 Back(arch.regs.S, 5))
<1> DEFINE bytes == <<v, w, x, y, z>>
           Down(k) == (arch.regs.S + 65536 - k) % 65536
           b == CHOOSE f : f = [k \in 0 .. Len(bytes) |->
                  IF k = 0 THEN arch.bus ELSE Architecture!WriteMemory(f[k - 1], bytes[k], Down(k))]
<1>1. Architecture!Pushed(bytes) = b[Len(bytes)]
  BY DEF Architecture!Pushed
<1>2. Len(bytes) = 5 /\ bytes[1] = v /\ bytes[2] = w /\ bytes[3] = x /\ bytes[4] = y /\ bytes[5] = z
  OBVIOUS
<1> HIDE DEF bytes
<1>3. /\ Down(1) = Back(arch.regs.S, 1)
      /\ Down(2) = Back(arch.regs.S, 2)
      /\ Down(3) = Back(arch.regs.S, 3)
      /\ Down(4) = Back(arch.regs.S, 4)
      /\ Down(5) = Back(arch.regs.S, 5)
  BY DEF Back
<1> HIDE DEF Down
<1> DEFINE w0 == arch.bus
           w1 == Architecture!WriteMemory(w0, bytes[1], Down(1))
           w2 == Architecture!WriteMemory(w1, bytes[2], Down(2))
           w3 == Architecture!WriteMemory(w2, bytes[3], Down(3))
           w4 == Architecture!WriteMemory(w3, bytes[4], Down(4))
           w5 == Architecture!WriteMemory(w4, bytes[5], Down(5))
           g == [k \in 0 .. 5 |->
                  IF k = 0 THEN w0 ELSE IF k = 1 THEN w1 ELSE IF k = 2 THEN w2
                  ELSE IF k = 3 THEN w3 ELSE IF k = 4 THEN w4 ELSE w5]
<1> HIDE DEF w0, w1, w2, w3, w4, w5
<1>4. g = [k \in 0 .. Len(bytes) |-> IF k = 0 THEN arch.bus ELSE Architecture!WriteMemory(g[k - 1],
          bytes[k], Down(k))]
  <2>1. g[0] = w0 /\ g[1] = w1 /\ g[2] = w2 /\ g[3] = w3 /\ g[4] = w4 /\ g[5] = w5
    OBVIOUS
  <2>2. \A k \in 0 .. 5 : g[k] = IF k = 0 THEN arch.bus ELSE Architecture!WriteMemory(g[k - 1], bytes[k],
            Down(k))
    BY <2>1 DEF w0, w1, w2, w3, w4, w5
  <2>3. g = [k \in 0 .. 5 |-> g[k]]
    OBVIOUS
  <2> HIDE DEF g
  <2> QED
    BY <1>2, <2>2, <2>3
<1> HIDE DEF g
<1>5. b = [k \in 0 .. 5 |-> IF k = 0 THEN arch.bus ELSE Architecture!WriteMemory(b[k - 1], bytes[k],
          Down(k))]
  BY <1>2, <1>4
<1> HIDE DEF b
<1>6. b[0] = arch.bus
  BY <1>2, <1>3, <1>5, SameWrites
<1>7. b[1] = WriteMemory(arch.bus, v, Back(arch.regs.S, 1))
  BY <1>2, <1>3, <1>5, <1>6, SameWrites
<1>8. b[2] = WriteMemory(WriteMemory(arch.bus, v, Back(arch.regs.S, 1)), w, Back(arch.regs.S, 2))
  BY <1>2, <1>3, <1>5, <1>7, SameWrites
<1>9. b[3] = WriteMemory(WriteMemory(WriteMemory(arch.bus, v, Back(arch.regs.S, 1)), w,
          Back(arch.regs.S, 2)), x, Back(arch.regs.S, 3))
  BY <1>2, <1>3, <1>5, <1>8, SameWrites
<1>10. b[4] = WriteMemory(WriteMemory(WriteMemory(WriteMemory(arch.bus, v, Back(arch.regs.S, 1)), w,
           Back(arch.regs.S, 2)), x, Back(arch.regs.S, 3)), y, Back(arch.regs.S, 4))
  BY <1>2, <1>3, <1>5, <1>9, SameWrites
<1>11. b[5] = WriteMemory(WriteMemory(WriteMemory(WriteMemory(WriteMemory(arch.bus, v,
           Back(arch.regs.S, 1)), w, Back(arch.regs.S, 2)), x, Back(arch.regs.S, 3)), y,
               Back(arch.regs.S, 4)), z, Back(arch.regs.S, 5))
  BY <1>2, <1>3, <1>5, <1>10, SameWrites
<1> QED
  BY <1>1, <1>2, <1>11 DEF bytes

(* The bytes on the stack, and the address they make.                      *)
LEMMA StackFacts ==
  ASSUME ProgramInv, ArchInv
  PROVE  LET s == arch.regs.S IN
         /\ s \in Word /\ Fwd(s, 0) = s
         /\ \A n \in 0 .. 9 : Fwd(s, n) \in Word /\ Back(s, n) \in Word
         /\ \A n \in 0 .. 9 : Fwd(Fwd(s, n), 1) = Fwd(s, n + 1) /\ Back(Back(s, n), 1) = Back(s, n + 1)
         /\ \A n \in 0 .. 9 : Top(arch.regs, arch.bus, dev, n) = ReadMemory(arch.bus, dev, Fwd(s, n))
         /\ \A n \in 0 .. 9 : Top(arch.regs, arch.bus, dev, n) \in Byte
<1> DEFINE s == arch.regs.S
<1>1. s \in Word
  BY ArchFields
<1> HIDE DEF s
<1>2. Fwd(s, 0) = s
  BY <1>1 DEF Fwd, Word
<1>3. \A n \in 0 .. 9 : Fwd(s, n) \in Word /\ Back(s, n) \in Word
  BY <1>1, Around
<1>4. \A n \in 0 .. 9 : Fwd(Fwd(s, n), 1) = Fwd(s, n + 1) /\ Back(Back(s, n), 1) = Back(s, n + 1)
  BY <1>1, Around
<1>5. \A n \in 0 .. 9 : Top(arch.regs, arch.bus, dev, n) = ReadMemory(arch.bus, dev, Fwd(s, n))
  BY DEF Top, s
<1>6. \A n \in 0 .. 9 : Top(arch.regs, arch.bus, dev, n) \in Byte
  BY ArchReads
<1> QED
  BY <1>1, <1>2, <1>3, <1>4, <1>5, <1>6 DEF s

LEMMA JsrStep ==
  ASSUME RefineInv, Clocked(Control), UNCHANGED <<dev_clock, dev_data>>, ~arch.regs.reset,
         arch.regs.C = 248
  PROVE  /\ \/ Proceeds /\ AlongOperand(cpu', bus', arch.regs, arch.bus, dev)
            \/ Starts /\ Architecture!Jsr
         /\ "FD" \notin Control
<1> DEFINE r == arch.regs   m == arch.bus
           i1 == Fwd(r.I, 1)   i2 == Fwd(r.I, 2)   i3 == Fwd(r.I, 3)
           low == Next1(r, m, dev)   high == Next2(r, m, dev)   target == Operands(r, m, dev)
           pushed == WriteMemory(WriteMemory(m, High(i2), Back(r.S, 1)), Low(i2), Back(r.S, 2))
<1>1. cpu.C = 248 /\ Control = Compiled(Program(248), cpu.F, cpu.step)
  BY Running DEF Opcodes
<1>2. ProgramInv /\ ArchInv /\ AlongOperand(cpu, bus, arch.regs, arch.bus, dev)
  BY DEF RefineInv, AlongInv, Along
<1>3. cpu.step \in 0 .. 4
  BY <1>1, <1>2 DEF AlongOperand
<1>4. /\ i1 \in Word /\ Fwd(i1, 1) = i2 /\ i2 \in Word /\ Fwd(i2, 1) = i3 /\ r.I \in Word
      /\ low \in Byte /\ high \in Byte /\ High(cpu.T) \in Byte /\ \A h, l \in Byte : Low(256 * h + l) = l
      /\ Back(Back(r.S, 1), 1) = Back(r.S, 2) /\ \A h, l \in Byte : High(256 * h + l) = h
  BY <1>2, OperandFacts, StackFacts
<1>10. CASE cpu.step = 0
  <2>1. Control = NextByte({"TL"})
    BY <1>1, <1>10, ProgramWords
  <2>2. bus = m /\ Regs(cpu, r.A, r.K, r.F, r.P, r.B, r.S, r.I)
    BY <1>1, <1>10, Running DEF Opcodes, Kept
  <2>3. /\ Regs(cpu', r.A, r.K, r.F, r.P, r.B, r.S, i1) /\ bus' = bus /\ Inside
        /\ cpu'.T = 256 * High(cpu.T) + ReadMemory(bus, dev, i1)
    BY <1>2, <1>4, <2>1, <2>2, NextLowEffect
  <2>4. cpu'.step = 1 /\ cpu'.C = 248
    BY <1>1, <1>10, <2>3 DEF Inside
  <2>5. AlongOperand(cpu', bus', arch.regs, arch.bus, dev)
    BY <1>4, <2>2, <2>3, <2>4 DEF AlongOperand, Kept, Next1, Next2, Operands
  <2>6. "FD" \notin Control
    BY <2>1 DEF NextByte
  <2> QED
    BY <1>10, <2>3, <2>4, <2>5, <2>6 DEF Proceeds
<1>11. CASE cpu.step = 1
  <2>1. Control = NextByte({"TH"})
    BY <1>1, <1>11, ProgramWords
  <2>2. bus = m /\ Regs(cpu, r.A, r.K, r.F, r.P, r.B, r.S, i1) /\ Low(cpu.T) = low
    BY <1>1, <1>2, <1>4, <1>11 DEF AlongOperand, Kept, Next1, Next2, Operands
  <2>3. /\ Regs(cpu', r.A, r.K, r.F, r.P, r.B, r.S, i2) /\ bus' = bus /\ Inside
        /\ cpu'.T = 256 * ReadMemory(bus, dev, i2) + Low(cpu.T)
    BY <1>2, <1>4, <2>1, <2>2, NextHighEffect
  <2>4. cpu'.step = 2 /\ cpu'.C = 248
    BY <1>1, <1>11, <2>3 DEF Inside
  <2>5. AlongOperand(cpu', bus', arch.regs, arch.bus, dev)
    BY <1>4, <2>2, <2>3, <2>4 DEF AlongOperand, Kept, Next1, Next2, Operands
  <2>6. "FD" \notin Control
    BY <2>1 DEF NextByte
  <2> QED
    BY <1>11, <2>3, <2>4, <2>5, <2>6 DEF Proceeds
<1>12. CASE cpu.step = 2
  <2>1. Control = Push("IH")
    BY <1>1, <1>12, ProgramWords
  <2>2. bus = m /\ Regs(cpu, r.A, r.K, r.F, r.P, r.B, r.S, i2) /\ cpu.T = target
    BY <1>1, <1>2, <1>4, <1>12 DEF AlongOperand, Kept, Next1, Next2, Operands
  <2>3. /\ Regs(cpu', r.A, r.K, r.F, r.P, r.B, Back(r.S, 1), i2)
        /\ bus' = WriteMemory(bus, High(i2), Back(r.S, 1))
        /\ Inside
        /\ cpu'.T = cpu.T
    BY <1>2, <1>4, <2>1, <2>2, PushIHEffect
  <2>4. cpu'.step = 3 /\ cpu'.C = 248
    BY <1>1, <1>12, <2>3 DEF Inside
  <2>5. AlongOperand(cpu', bus', arch.regs, arch.bus, dev)
    BY <1>4, <2>2, <2>3, <2>4 DEF AlongOperand, Kept, Next1, Next2, Operands
  <2>6. "FD" \notin Control
    BY <2>1 DEF Push
  <2> QED
    BY <1>12, <2>3, <2>4, <2>5, <2>6 DEF Proceeds
<1>13. CASE cpu.step = 3
  <2>1. Control = Push("IL")
    BY <1>1, <1>13, ProgramWords
  <2>2. /\ bus = WriteMemory(m, High(i2), Back(r.S, 1))
        /\ Regs(cpu, r.A, r.K, r.F, r.P, r.B, Back(r.S, 1), i2)
        /\ cpu.T = target
    BY <1>1, <1>2, <1>4, <1>13 DEF AlongOperand, Kept, Next1, Next2, Operands
  <2>3. /\ Regs(cpu', r.A, r.K, r.F, r.P, r.B, Back(r.S, 2), i2)
        /\ bus' = WriteMemory(bus, Low(i2), Back(r.S, 2))
        /\ Inside
        /\ cpu'.T = cpu.T
    BY <1>2, <1>4, <2>1, <2>2, PushILEffect
  <2>4. cpu'.step = 4 /\ cpu'.C = 248
    BY <1>1, <1>13, <2>3 DEF Inside
  <2>5. AlongOperand(cpu', bus', arch.regs, arch.bus, dev)
    BY <1>4, <2>2, <2>3, <2>4 DEF AlongOperand, Kept, Next1, Next2, Operands
  <2>6. "FD" \notin Control
    BY <2>1 DEF Push
  <2> QED
    BY <1>13, <2>3, <2>4, <2>5, <2>6 DEF Proceeds
<1>14. CASE cpu.step = 4
  <2>1. Control = Goto
    BY <1>1, <1>14, ProgramWords
  <2>2. bus = pushed /\ Regs(cpu, r.A, r.K, r.F, r.P, r.B, Back(r.S, 2), i2) /\ cpu.T = target
    BY <1>1, <1>2, <1>4, <1>14 DEF AlongOperand, Kept, Next1, Next2, Operands
  <2>3. Ended(r.A, r.K, r.F, r.P, r.B, Back(r.S, 2), target)
    BY <1>2, <1>4, <2>1, <2>2, GotoEnds
  <2>4. Architecture!Execute(Stacks(Back(r.S, 2), target), bus)
    BY <1>2, <2>3, EndStacks
  <2>5. /\ Architecture!Pushed(<<Architecture!Advance(2) \div 256,
             Architecture!Advance(2) % 256>>) = pushed
        /\ Architecture!Down(2) = Back(r.S, 2) /\ Architecture!Adr = target
    BY <1>2, ArchReads, PushedTwo DEF High, Low
  <2>6. Architecture!Jsr
    <3>1. Architecture!Opcode(248)
      BY DEF Architecture!Opcode
    <3> DEFINE bytes == <<Architecture!Advance(2) \div 256, Architecture!Advance(2) % 256>>
    <3>2. Architecture!Jsr <=> Architecture!Opcode(248)
            /\ Architecture!Execute([r EXCEPT !.S = Architecture!Down(2), !.I = Architecture!Adr],
                 Architecture!Pushed(bytes))
      BY DEF Architecture!Jsr
    <3>3. Architecture!Pushed(bytes) = pushed
      BY <2>5
    <3> HIDE DEF target, pushed, bytes
    <3> QED
      BY <2>2, <2>4, <2>5, <3>1, <3>2, <3>3, Zenon DEF Stacks
  <2>7. "FD" \notin Control
    BY <2>1 DEF Goto
  <2> QED
    BY <1>14, <2>3, <2>6, <2>7 DEF Starts, Ended
<1> QED
  BY <1>3, <1>10, <1>11, <1>12, <1>13, <1>14

LEMMA RtsStep ==
  ASSUME RefineInv, Clocked(Control), UNCHANGED <<dev_clock, dev_data>>, ~arch.regs.reset,
         arch.regs.C = 250
  PROVE  /\ \/ Proceeds /\ AlongRts(cpu', bus', arch.regs, arch.bus, dev)
            \/ Starts /\ Architecture!Rts
         /\ "FD" \notin Control
<1> DEFINE r == arch.regs   m == arch.bus
           target == TopWord(r, m, dev, 0)   to == Fwd(target, 1)
           next == (Architecture!WordAt(r.S) + 1) % 65536
<1>1. cpu.C = 250 /\ Control = Compiled(Program(250), cpu.F, cpu.step)
  BY Running DEF Opcodes
<1>2. ProgramInv /\ ArchInv /\ AlongRts(cpu, bus, arch.regs, arch.bus, dev)
  BY DEF RefineInv, AlongInv, Along
<1>3. cpu.step \in 0 .. 3
  BY <1>1, <1>2 DEF AlongRts
<1>4. /\ r.S \in Word /\ Fwd(r.S, 0) = r.S
      /\ \A n \in 0 .. 9 : Fwd(Fwd(r.S, n), 1) = Fwd(r.S, n + 1)
      /\ \A n \in 0 .. 9 : Top(r, m, dev, n) = ReadMemory(m, dev, Fwd(r.S, n)) /\ Top(r, m, dev,
           n) \in Byte
      /\ High(cpu.T) \in Byte /\ \A h, l \in Byte : Low(256 * h + l) = l
  BY <1>2, StackFacts, OperandFacts
<1>10. CASE cpu.step = 0
  <2>1. Control = Peek({"TL"})
    BY <1>1, <1>10, ProgramWords
  <2>2. bus = m /\ Regs(cpu, r.A, r.K, r.F, r.P, r.B, r.S, r.I)
    BY <1>1, <1>10, Running DEF Opcodes, Kept
  <2>3. /\ Regs(cpu', r.A, r.K, r.F, r.P, r.B, r.S, r.I) /\ bus' = bus /\ Inside
        /\ cpu'.T = 256 * High(cpu.T) + ReadMemory(bus, dev, Fwd(r.S, 0))
    BY <1>2, <1>4, <2>1, <2>2, PeekLowEffect
  <2>4. cpu'.step = 1 /\ cpu'.C = 250
    BY <1>1, <1>10, <2>3 DEF Inside
  <2>5. AlongRts(cpu', bus', arch.regs, arch.bus, dev)
    BY <1>4, <2>2, <2>3, <2>4 DEF AlongRts, Kept, TopWord
  <2>6. "FD" \notin Control
    BY <2>1 DEF Peek
  <2> QED
    BY <1>10, <2>3, <2>4, <2>5, <2>6 DEF Proceeds
<1>11. CASE cpu.step = 1
  <2>1. Control = Pop({"TH"})
    BY <1>1, <1>11, ProgramWords
  <2>2. bus = m /\ Regs(cpu, r.A, r.K, r.F, r.P, r.B, r.S, r.I) /\ Low(cpu.T) = Top(r, m, dev, 0)
    BY <1>1, <1>2, <1>4, <1>11 DEF AlongRts, Kept, TopWord
  <2>3. /\ Regs(cpu', r.A, r.K, r.F, r.P, r.B, Fwd(r.S, 1), r.I) /\ bus' = bus /\ Inside
        /\ cpu'.T = 256 * ReadMemory(bus, dev, Fwd(r.S, 1)) + Low(cpu.T)
    BY <1>2, <1>4, <2>1, <2>2, PopHighEffect
  <2>4. cpu'.step = 2 /\ cpu'.C = 250
    BY <1>1, <1>11, <2>3 DEF Inside
  <2>5. AlongRts(cpu', bus', arch.regs, arch.bus, dev)
    BY <1>4, <2>2, <2>3, <2>4 DEF AlongRts, Kept, TopWord
  <2>6. "FD" \notin Control
    BY <2>1 DEF Pop
  <2> QED
    BY <1>11, <2>3, <2>4, <2>5, <2>6 DEF Proceeds
<1>12. CASE cpu.step = 2
  <2>1. Control = Drop
    BY <1>1, <1>12, ProgramWords
  <2>2. bus = m /\ Regs(cpu, r.A, r.K, r.F, r.P, r.B, Fwd(r.S, 1), r.I) /\ cpu.T = target
    BY <1>1, <1>2, <1>4, <1>12 DEF AlongRts, Kept, TopWord
  <2>3. /\ Regs(cpu', r.A, r.K, r.F, r.P, r.B, Fwd(r.S, 2), r.I) /\ bus' = bus /\ Inside
        /\ cpu'.T = cpu.T
    BY <1>2, <1>4, <2>1, <2>2, DropEffect
  <2>4. cpu'.step = 3 /\ cpu'.C = 250
    BY <1>1, <1>12, <2>3 DEF Inside
  <2>5. AlongRts(cpu', bus', arch.regs, arch.bus, dev)
    BY <1>4, <2>2, <2>3, <2>4 DEF AlongRts, Kept, TopWord
  <2>6. "FD" \notin Control
    BY <2>1 DEF Drop
  <2> QED
    BY <1>12, <2>3, <2>4, <2>5, <2>6 DEF Proceeds
<1>13. CASE cpu.step = 3
  <2>1. Control = AfterT
    BY <1>1, <1>13, ProgramWords
  <2>2. bus = m /\ Regs(cpu, r.A, r.K, r.F, r.P, r.B, Fwd(r.S, 2), r.I) /\ cpu.T = target
    BY <1>1, <1>2, <1>4, <1>13 DEF AlongRts, Kept, TopWord
  <2>3. Ended(r.A, r.K, r.F, r.P, r.B, Fwd(r.S, 2), Fwd(target, 1))
    BY <1>2, <1>4, <2>1, <2>2, AfterTEnds
  <2>4. Architecture!Execute(Stacks(Fwd(r.S, 2), to), bus)
    BY <1>2, <2>3, EndStacks
  <2>5. next = to /\ Architecture!Up(2) = Fwd(r.S, 2)
    <3>1. Architecture!Read(r.S) = Top(r, m, dev, 0) /\ Architecture!Read(r.S + 1) = Top(r, m, dev, 1)
      <4>1. /\ Architecture!Read(r.S + 0) = Top(r, m, dev, 0)
            /\ Architecture!Read(r.S + 1) = Top(r, m, dev, 1)
        BY <1>2, ArchReads
      <4>2. r.S + 0 = r.S
        BY <1>4 DEF Word
      <4> QED
        BY <4>1, <4>2
    <3>2. Architecture!WordAt(r.S) = target
      <4> DEFINE l == Top(r, m, dev, 0)   h == Top(r, m, dev, 1)
      <4>1. l \in Byte /\ h \in Byte
        BY <1>4
      <4>2. target = 256 * h + l
        BY DEF TopWord
      <4>3. Architecture!WordAt(r.S) = l + 256 * h
        BY <3>1 DEF Architecture!WordAt
      <4> HIDE DEF l, h, target
      <4> QED
        BY <4>1, <4>2, <4>3 DEF Byte
    <3> QED
      BY <1>2, <3>2, ArchReads DEF Fwd
  <2>6. Architecture!Rts
    <3>1. Architecture!Opcode(250)
      BY DEF Architecture!Opcode
    <3>2. Architecture!Rts <=> Architecture!Opcode(250)
            /\ Architecture!Execute([r EXCEPT !.S = Architecture!Up(2), !.I = next], m)
      BY DEF Architecture!Rts
    <3> HIDE DEF next, to
    <3> QED
      BY <2>2, <2>4, <2>5, <3>1, <3>2, Zenon DEF Stacks
  <2>7. "FD" \notin Control
    BY <2>1 DEF AfterT
  <2> QED
    BY <1>13, <2>3, <2>6, <2>7 DEF Starts, Ended
<1> QED
  BY <1>3, <1>10, <1>11, <1>12, <1>13

LEMMA RtiStep ==
  ASSUME RefineInv, Clocked(Control), UNCHANGED <<dev_clock, dev_data>>, ~arch.regs.reset,
         arch.regs.C = 254
  PROVE  /\ \/ Proceeds /\ AlongRti(cpu', bus', arch.regs, arch.bus, dev)
            \/ Starts /\ Architecture!Rti
         /\ "FD" \in Control => cpu.step = 0
<1> DEFINE r == arch.regs   m == arch.bus
           t0 == Top(r, m, dev, 0)   t4 == Top(r, m, dev, 4)   merged == Merged(r, m, dev)
           target == TopWord(r, m, dev, 2)   to == Fwd(target, 1)
           next == (Architecture!WordAt(r.S + 2) + 1) % 65536
           flags == Architecture!Read(r.S)   bank == Architecture!Read(r.S + 4)
           accumulator == Architecture!FromBits(
                            Architecture!BitsOf(r.A) \cup Architecture!BitsOf(Architecture!Read(r.S + 1)))
           after == Architecture!SetBank(m, Architecture!Read(r.S + 4))
           banked == SetBank(m, Top(r, m, dev, 4))
<1>1. cpu.C = 254 /\ Control = Compiled(Program(254), cpu.F, cpu.step)
  BY Running DEF Opcodes
<1>2. ProgramInv /\ ArchInv /\ AlongRti(cpu, bus, arch.regs, arch.bus, dev)
  BY DEF RefineInv, AlongInv, Along
<1>3. cpu.step \in 0 .. 6
  BY <1>1, <1>2 DEF AlongRti
<1>4. /\ r.S \in Word /\ Fwd(r.S, 0) = r.S
      /\ \A n \in 0 .. 9 : Fwd(Fwd(r.S, n), 1) = Fwd(r.S, n + 1)
      /\ \A n \in 0 .. 9 : Top(r, m, dev, n) = ReadMemory(m, dev, Fwd(r.S, n)) /\ Top(r, m, dev,
           n) \in Byte
      /\ High(cpu.T) \in Byte /\ \A h, l \in Byte : Low(256 * h + l) = l
  BY <1>2, StackFacts, OperandFacts
<1>5. merged = FromBits(BitsOf(r.A) \cup BitsOf(ReadMemory(m, dev, Fwd(r.S, 1))))
  BY <1>4 DEF Merged
<1>10. CASE cpu.step = 0
  <2>1. Control = Peek({"FI", "FD"})
    BY <1>1, <1>10, ProgramWords
  <2>2. bus = m /\ Regs(cpu, r.A, r.K, r.F, r.P, r.B, r.S, r.I)
    BY <1>1, <1>10, Running DEF Opcodes, Kept
  <2>3. /\ Regs(cpu', r.A, r.K, ReadMemory(bus, dev, Fwd(r.S, 0)), r.P, r.B, r.S, r.I)
        /\ bus' = bus
        /\ Inside
    BY <1>2, <1>4, <2>1, <2>2, PeekFlagsEffect
  <2>4. cpu'.step = 1 /\ cpu'.C = 254
    BY <1>1, <1>10, <2>3 DEF Inside
  <2>5. AlongRti(cpu', bus', arch.regs, arch.bus, dev)
    BY <1>4, <2>2, <2>3, <2>4 DEF AlongRti, Kept, Merged, TopWord
  <2> QED
    BY <1>10, <2>3, <2>4, <2>5 DEF Proceeds
<1>11. CASE cpu.step = 1
  <2>1. Control = Pop({"AI"})
    BY <1>1, <1>11, ProgramWords
  <2>2. bus = m /\ Regs(cpu, r.A, r.K, t0, r.P, r.B, r.S, r.I)
    BY <1>1, <1>2, <1>4, <1>11 DEF AlongRti, Kept, Merged, TopWord
  <2>3. /\ Regs(cpu', merged, r.K, t0, r.P, r.B, Fwd(r.S, 1), r.I) /\ bus' = bus /\ Inside
    BY <1>2, <1>4, <1>5, <2>1, <2>2, PopAEffect, SMTT(30)
  <2>4. cpu'.step = 2 /\ cpu'.C = 254
    BY <1>1, <1>11, <2>3 DEF Inside
  <2>5. AlongRti(cpu', bus', arch.regs, arch.bus, dev)
    BY <1>4, <2>2, <2>3, <2>4 DEF AlongRti, Kept, Merged, TopWord
  <2>6. "FD" \notin Control
    BY <2>1 DEF Pop
  <2> QED
    BY <1>11, <2>3, <2>4, <2>5, <2>6 DEF Proceeds
<1>12. CASE cpu.step = 2
  <2>1. Control = Pop({"TL"})
    BY <1>1, <1>12, ProgramWords
  <2>2. bus = m /\ Regs(cpu, merged, r.K, t0, r.P, r.B, Fwd(r.S, 1), r.I)
    BY <1>1, <1>2, <1>4, <1>12 DEF AlongRti, Kept, Merged, TopWord
  <2>3. /\ Regs(cpu', merged, r.K, t0, r.P, r.B, Fwd(r.S, 2), r.I) /\ bus' = bus /\ Inside
        /\ cpu'.T = 256 * High(cpu.T) + ReadMemory(bus, dev, Fwd(r.S, 2))
    BY <1>2, <1>4, <2>1, <2>2, PopLowEffect
  <2>4. cpu'.step = 3 /\ cpu'.C = 254
    BY <1>1, <1>12, <2>3 DEF Inside
  <2>5. AlongRti(cpu', bus', arch.regs, arch.bus, dev)
    BY <1>4, <2>2, <2>3, <2>4 DEF AlongRti, Kept, Merged, TopWord
  <2>6. "FD" \notin Control
    BY <2>1 DEF Pop
  <2> QED
    BY <1>12, <2>3, <2>4, <2>5, <2>6 DEF Proceeds
<1>13. CASE cpu.step = 3
  <2>1. Control = Pop({"TH"})
    BY <1>1, <1>13, ProgramWords
  <2>2. /\ bus = m
        /\ Regs(cpu, merged, r.K, t0, r.P, r.B, Fwd(r.S, 2), r.I)
        /\ Low(cpu.T) = Top(r, m, dev, 2)
    BY <1>1, <1>2, <1>4, <1>13 DEF AlongRti, Kept, Merged, TopWord
  <2>3. /\ Regs(cpu', merged, r.K, t0, r.P, r.B, Fwd(r.S, 3), r.I) /\ bus' = bus /\ Inside
        /\ cpu'.T = 256 * ReadMemory(bus, dev, Fwd(r.S, 3)) + Low(cpu.T)
    BY <1>2, <1>4, <2>1, <2>2, PopHighEffect
  <2>4. cpu'.step = 4 /\ cpu'.C = 254
    BY <1>1, <1>13, <2>3 DEF Inside
  <2>5. AlongRti(cpu', bus', arch.regs, arch.bus, dev)
    BY <1>4, <2>2, <2>3, <2>4 DEF AlongRti, Kept, Merged, TopWord
  <2>6. "FD" \notin Control
    BY <2>1 DEF Pop
  <2> QED
    BY <1>13, <2>3, <2>4, <2>5, <2>6 DEF Proceeds
<1>14. CASE cpu.step = 4
  <2>1. Control = Pop({"KI"})
    BY <1>1, <1>14, ProgramWords
  <2>2. bus = m /\ Regs(cpu, merged, r.K, t0, r.P, r.B, Fwd(r.S, 3), r.I) /\ cpu.T = target
    BY <1>1, <1>2, <1>4, <1>14 DEF AlongRti, Kept, Merged, TopWord
  <2>3. /\ Regs(cpu', merged, ReadMemory(bus, dev, Fwd(r.S, 4)), t0, r.P, r.B, Fwd(r.S, 4), r.I)
        /\ bus' = SetBank(bus, ReadMemory(bus, dev, Fwd(r.S, 4)))
        /\ Inside
        /\ cpu'.T = cpu.T
    BY <1>2, <1>4, <2>1, <2>2, PopBankEffect
  <2>4. cpu'.step = 5 /\ cpu'.C = 254
    BY <1>1, <1>14, <2>3 DEF Inside
  <2>5. AlongRti(cpu', bus', arch.regs, arch.bus, dev)
    BY <1>4, <2>2, <2>3, <2>4 DEF AlongRti, Kept, Merged, TopWord
  <2>6. "FD" \notin Control
    BY <2>1 DEF Pop
  <2> QED
    BY <1>14, <2>3, <2>4, <2>5, <2>6 DEF Proceeds
<1>15. CASE cpu.step = 5
  <2>1. Control = Drop
    BY <1>1, <1>15, ProgramWords
  <2>2. bus = banked /\ Regs(cpu, merged, t4, t0, r.P, r.B, Fwd(r.S, 4), r.I) /\ cpu.T = target
    BY <1>1, <1>2, <1>4, <1>15 DEF AlongRti, Kept, Merged, TopWord
  <2>3. /\ Regs(cpu', merged, t4, t0, r.P, r.B, Fwd(r.S, 5), r.I) /\ bus' = bus /\ Inside
        /\ cpu'.T = cpu.T
    BY <1>2, <1>4, <2>1, <2>2, DropEffect
  <2>4. cpu'.step = 6 /\ cpu'.C = 254
    BY <1>1, <1>15, <2>3 DEF Inside
  <2>5. AlongRti(cpu', bus', arch.regs, arch.bus, dev)
    BY <1>4, <2>2, <2>3, <2>4 DEF AlongRti, Kept, Merged, TopWord
  <2>6. "FD" \notin Control
    BY <2>1 DEF Drop
  <2> QED
    BY <1>15, <2>3, <2>4, <2>5, <2>6 DEF Proceeds
<1>16. CASE cpu.step = 6
  <2>1. Control = AfterT
    BY <1>1, <1>16, ProgramWords
  <2>2. bus = banked /\ Regs(cpu, merged, t4, t0, r.P, r.B, Fwd(r.S, 5), r.I) /\ cpu.T = target
    BY <1>1, <1>2, <1>4, <1>16 DEF AlongRti, Kept, Merged, TopWord
  <2>3. Ended(merged, t4, t0, r.P, r.B, Fwd(r.S, 5), to)
    BY <1>2, <1>4, <2>1, <2>2, AfterTEnds
  <2>4. Architecture!Execute(Returns(t0, t4, Fwd(r.S, 5), merged, to), bus)
    BY <1>2, <2>3, EndReturns
  <2>5. /\ next = to /\ Architecture!Up(5) = Fwd(r.S, 5)
        /\ flags = t0 /\ bank = t4 /\ accumulator = merged /\ after = banked
    <3>1. \A n \in 0 .. 9 : Architecture!Read(r.S + n) = Top(r, m, dev, n)
      BY <1>2, ArchReads
    <3>2. r.S + 0 = r.S /\ (r.S + 2) + 1 = r.S + 3
      BY <1>4 DEF Word
    <3>3. flags = t0 /\ bank = t4 /\ Architecture!Read(r.S + 1) = Top(r, m, dev, 1)
      BY <3>1, <3>2
    <3>4. after = banked
      BY <3>1, SameWrites
    <3>5. accumulator = merged
      BY <3>3, SameAlu DEF Merged
    <3>6. Architecture!WordAt(r.S + 2) = target
      <4> DEFINE l == Top(r, m, dev, 2)   h == Top(r, m, dev, 3)
      <4>1. l \in Byte /\ h \in Byte
        BY <1>4
      <4>2. target = 256 * h + l
        BY DEF TopWord
      <4>3. Architecture!WordAt(r.S + 2) = l + 256 * h
        BY <3>1, <3>2 DEF Architecture!WordAt
      <4> HIDE DEF l, h, target
      <4> QED
        BY <4>1, <4>2, <4>3 DEF Byte
    <3>7. next = to
      BY <3>6 DEF Fwd
    <3> QED
      BY <1>2, <3>3, <3>4, <3>5, <3>7, ArchReads
  <2>6. Architecture!Rti
    <3>1. Architecture!Opcode(254)
      BY DEF Architecture!Opcode
    <3>2. Architecture!Rti <=> Architecture!Opcode(254)
            /\ Architecture!Execute([r EXCEPT !.F = flags, !.K = bank, !.S = Architecture!Up(5),
                 !.A = accumulator, !.I = next], after)
      BY DEF Architecture!Rti
    <3> HIDE DEF next, to, flags, bank, accumulator, after, t0, t4, merged, banked
    <3> QED
      BY <2>2, <2>4, <2>5, <3>1, <3>2, Zenon DEF Returns
  <2>7. "FD" \notin Control
    BY <2>1 DEF AfterT
  <2> QED
    BY <1>16, <2>3, <2>6, <2>7 DEF Starts, Ended
<1> QED
  BY <1>3, <1>10, <1>11, <1>12, <1>13, <1>14, <1>15, <1>16

(* The vector that brk goes to.                                            *)
LEMMA BrkFacts ==
  ASSUME ProgramInv, ArchInv
  PROVE  LET r == arch.regs IN
         /\ r.S \in Word /\ r.I \in Word /\ \A n \in 0 .. 9 : Back(Back(r.S, n), 1) = Back(r.S, n + 1)
         /\ High(cpu.T) \in Byte /\ Low(cpu.T) \in Byte /\ 255 \in Byte
         /\ \A h, l \in Byte : Low(256 * h + l) = l /\ High(256 * h + l) = h
         /\ ReadMemory(bus, dev, 65533) \in Byte /\ ReadMemory(bus, dev, 65532) \in Byte
         /\ Back(65535, 1) = 65534 /\ Back(65534, 1) = 65533 /\ Back(65533, 1) = 65532
<1>1. 65533 \in Word /\ 65532 \in Word /\ 255 \in Byte /\ 0 \in Byte
  BY DEF Word, Byte
<1>2. ReadMemory(bus, dev, 65533) \in Byte /\ ReadMemory(bus, dev, 65532) \in Byte
  BY <1>1, ReadGoodByte DEF ProgramInv
<1>3. High(cpu.T) \in Byte /\ Low(cpu.T) \in Byte
  BY <1>1, HalvesGood DEF ProgramInv, Registers
<1>4. Back(65535, 1) = 65534 /\ Back(65534, 1) = 65533 /\ Back(65533, 1) = 65532
  BY DEF Back
<1> QED
  BY <1>1, <1>2, <1>3, <1>4, StackFacts, OperandFacts

LEMMA BrkStep ==
  ASSUME RefineInv, Clocked(Control), UNCHANGED <<dev_clock, dev_data>>, ~arch.regs.reset,
         arch.regs.C = 255
  PROVE  /\ \/ Proceeds /\ AlongBrk(cpu', bus', arch.regs, arch.bus, dev)
            \/ Starts /\ Architecture!Brk
         /\ "FD" \notin Control
<1> DEFINE r == arch.regs   m == arch.bus
           frame == SetBank(Push5(r, m), 0)   vector == BrkVector(r, m, dev)
           pushed == Architecture!SetBank(Architecture!Pushed(Architecture!Frame), 0)
           target == Architecture!ReadMemory(pushed, dev, 65532) + 256 * Architecture!ReadMemory(pushed,
               dev, 65533)
<1>1. cpu.C = 255 /\ Control = Compiled(Program(255), cpu.F, cpu.step)
  BY Running DEF Opcodes
<1>2. ProgramInv /\ ArchInv /\ AlongBrk(cpu, bus, arch.regs, arch.bus, dev)
  BY DEF RefineInv, AlongInv, Along
<1>3. cpu.step \in 0 .. 10
  BY <1>1, <1>2 DEF AlongBrk
<1>4. /\ r.S \in Word /\ r.I \in Word /\ \A n \in 0 .. 9 : Back(Back(r.S, n), 1) = Back(r.S, n + 1)
      /\ High(cpu.T) \in Byte /\ Low(cpu.T) \in Byte /\ 255 \in Byte
      /\ \A h, l \in Byte : Low(256 * h + l) = l /\ High(256 * h + l) = h
      /\ ReadMemory(bus, dev, 65533) \in Byte /\ ReadMemory(bus, dev, 65532) \in Byte
      /\ Back(65535, 1) = 65534 /\ Back(65534, 1) = 65533 /\ Back(65533, 1) = 65532
  BY <1>2, BrkFacts
<1>10. CASE cpu.step = 0
  <2>1. Control = Push("KO")
    BY <1>1, <1>10, ProgramWords
  <2>2. bus = m /\ Regs(cpu, r.A, r.K, r.F, r.P, r.B, r.S, r.I)
    BY <1>1, <1>10, Running DEF Opcodes, Kept
  <2>3. /\ Regs(cpu', r.A, r.K, r.F, r.P, r.B, Back(r.S, 1), r.I)
        /\ bus' = WriteMemory(bus, r.K, Back(r.S, 1))
        /\ Inside
    BY <1>2, <1>4, <2>1, <2>2, PushKOEffect
  <2>4. cpu'.step = 1 /\ cpu'.C = 255
    BY <1>1, <1>10, <2>3 DEF Inside
  <2>5. AlongBrk(cpu', bus', arch.regs, arch.bus, dev)
    BY <1>4, <2>2, <2>3, <2>4 DEF AlongBrk, Kept, Push1, Push2, Push3, Push4, Push5, BrkVector
  <2>6. "FD" \notin Control
    BY <2>1 DEF Push
  <2> QED
    BY <1>10, <2>3, <2>4, <2>5, <2>6 DEF Proceeds
<1>11. CASE cpu.step = 1
  <2>1. Control = Push("IH")
    BY <1>1, <1>11, ProgramWords
  <2>2. bus = Push1(r, m) /\ Regs(cpu, r.A, r.K, r.F, r.P, r.B, Back(r.S, 1), r.I)
    BY <1>1, <1>2, <1>4, <1>11 DEF AlongBrk, Kept, Push1, Push2, Push3, Push4, Push5, BrkVector
  <2>3. /\ Regs(cpu', r.A, r.K, r.F, r.P, r.B, Back(r.S, 2), r.I)
        /\ bus' = WriteMemory(bus, High(r.I), Back(r.S, 2))
        /\ Inside
    BY <1>2, <1>4, <2>1, <2>2, PushIHEffect
  <2>4. cpu'.step = 2 /\ cpu'.C = 255
    BY <1>1, <1>11, <2>3 DEF Inside
  <2>5. AlongBrk(cpu', bus', arch.regs, arch.bus, dev)
    BY <1>4, <2>2, <2>3, <2>4 DEF AlongBrk, Kept, Push1, Push2, Push3, Push4, Push5, BrkVector
  <2>6. "FD" \notin Control
    BY <2>1 DEF Push
  <2> QED
    BY <1>11, <2>3, <2>4, <2>5, <2>6 DEF Proceeds
<1>12. CASE cpu.step = 2
  <2>1. Control = Push("IL")
    BY <1>1, <1>12, ProgramWords
  <2>2. bus = Push2(r, m) /\ Regs(cpu, r.A, r.K, r.F, r.P, r.B, Back(r.S, 2), r.I)
    BY <1>1, <1>2, <1>4, <1>12 DEF AlongBrk, Kept, Push1, Push2, Push3, Push4, Push5, BrkVector
  <2>3. /\ Regs(cpu', r.A, r.K, r.F, r.P, r.B, Back(r.S, 3), r.I)
        /\ bus' = WriteMemory(bus, Low(r.I), Back(r.S, 3))
        /\ Inside
    BY <1>2, <1>4, <2>1, <2>2, PushILEffect
  <2>4. cpu'.step = 3 /\ cpu'.C = 255
    BY <1>1, <1>12, <2>3 DEF Inside
  <2>5. AlongBrk(cpu', bus', arch.regs, arch.bus, dev)
    BY <1>4, <2>2, <2>3, <2>4 DEF AlongBrk, Kept, Push1, Push2, Push3, Push4, Push5, BrkVector
  <2>6. "FD" \notin Control
    BY <2>1 DEF Push
  <2> QED
    BY <1>12, <2>3, <2>4, <2>5, <2>6 DEF Proceeds
<1>13. CASE cpu.step = 3
  <2>1. Control = Push("AO")
    BY <1>1, <1>13, ProgramWords
  <2>2. bus = Push3(r, m) /\ Regs(cpu, r.A, r.K, r.F, r.P, r.B, Back(r.S, 3), r.I)
    BY <1>1, <1>2, <1>4, <1>13 DEF AlongBrk, Kept, Push1, Push2, Push3, Push4, Push5, BrkVector
  <2>3. /\ Regs(cpu', r.A, r.K, r.F, r.P, r.B, Back(r.S, 4), r.I)
        /\ bus' = WriteMemory(bus, r.A, Back(r.S, 4))
        /\ Inside
    BY <1>2, <1>4, <2>1, <2>2, PushAOEffect
  <2>4. cpu'.step = 4 /\ cpu'.C = 255
    BY <1>1, <1>13, <2>3 DEF Inside
  <2>5. AlongBrk(cpu', bus', arch.regs, arch.bus, dev)
    BY <1>4, <2>2, <2>3, <2>4 DEF AlongBrk, Kept, Push1, Push2, Push3, Push4, Push5, BrkVector
  <2>6. "FD" \notin Control
    BY <2>1 DEF Push
  <2> QED
    BY <1>13, <2>3, <2>4, <2>5, <2>6 DEF Proceeds
<1>14. CASE cpu.step = 4
  <2>1. Control = Push("FO")
    BY <1>1, <1>14, ProgramWords
  <2>2. bus = Push4(r, m) /\ Regs(cpu, r.A, r.K, r.F, r.P, r.B, Back(r.S, 4), r.I)
    BY <1>1, <1>2, <1>4, <1>14 DEF AlongBrk, Kept, Push1, Push2, Push3, Push4, Push5, BrkVector
  <2>3. /\ Regs(cpu', r.A, r.K, r.F, r.P, r.B, Back(r.S, 5), r.I)
        /\ bus' = WriteMemory(bus, r.F, Back(r.S, 5))
        /\ Inside
    BY <1>2, <1>4, <2>1, <2>2, PushFOEffect
  <2>4. cpu'.step = 5 /\ cpu'.C = 255
    BY <1>1, <1>14, <2>3 DEF Inside
  <2>5. AlongBrk(cpu', bus', arch.regs, arch.bus, dev)
    BY <1>4, <2>2, <2>3, <2>4 DEF AlongBrk, Kept, Push1, Push2, Push3, Push4, Push5, BrkVector
  <2>6. "FD" \notin Control
    BY <2>1 DEF Push
  <2> QED
    BY <1>14, <2>3, <2>4, <2>5, <2>6 DEF Proceeds
<1>15. CASE cpu.step = 5
  <2>1. Control = Const("HO", {"TL"})
    BY <1>1, <1>15, ProgramWords
  <2>2. bus = Push5(r, m) /\ Regs(cpu, r.A, r.K, r.F, r.P, r.B, Back(r.S, 5), r.I)
    BY <1>1, <1>2, <1>4, <1>15 DEF AlongBrk, Kept, Push1, Push2, Push3, Push4, Push5, BrkVector
  <2>3. /\ Regs(cpu', r.A, r.K, r.F, r.P, r.B, Back(r.S, 5), r.I) /\ bus' = bus /\ Inside
        /\ cpu'.T = 256 * High(cpu.T) + 255
    BY <1>2, <1>4, <2>1, <2>2, OnesLowEffect
  <2>4. cpu'.step = 6 /\ cpu'.C = 255
    BY <1>1, <1>15, <2>3 DEF Inside
  <2>5. AlongBrk(cpu', bus', arch.regs, arch.bus, dev)
    BY <1>4, <2>2, <2>3, <2>4 DEF AlongBrk, Kept, Push1, Push2, Push3, Push4, Push5, BrkVector
  <2>6. "FD" \notin Control
    BY <2>1 DEF Const
  <2> QED
    BY <1>15, <2>3, <2>4, <2>5, <2>6 DEF Proceeds
<1>16. CASE cpu.step = 6
  <2>1. Control = Const("HO", {"TH"})
    BY <1>1, <1>16, ProgramWords
  <2>2. bus = Push5(r, m) /\ Regs(cpu, r.A, r.K, r.F, r.P, r.B, Back(r.S, 5), r.I) /\ Low(cpu.T) = 255
    BY <1>1, <1>2, <1>4, <1>16 DEF AlongBrk, Kept, Push1, Push2, Push3, Push4, Push5, BrkVector
  <2>3. /\ Regs(cpu', r.A, r.K, r.F, r.P, r.B, Back(r.S, 5), r.I) /\ bus' = bus /\ Inside
        /\ cpu'.T = 256 * 255 + Low(cpu.T)
    BY <1>2, <1>4, <2>1, <2>2, OnesHighEffect
  <2>4. cpu'.step = 7 /\ cpu'.C = 255
    BY <1>1, <1>16, <2>3 DEF Inside
  <2>5. AlongBrk(cpu', bus', arch.regs, arch.bus, dev)
    BY <1>4, <2>2, <2>3, <2>4 DEF AlongBrk, Kept, Push1, Push2, Push3, Push4, Push5, BrkVector
  <2>6. "FD" \notin Control
    BY <2>1 DEF Const
  <2> QED
    BY <1>16, <2>3, <2>4, <2>5, <2>6 DEF Proceeds
<1>17. CASE cpu.step = 7
  <2>1. Control = {"TO", "XZ", "XN", "II", "ZO", "EO", "KI"}
    BY <1>1, <1>17, ProgramWords
  <2>2. bus = Push5(r, m) /\ Regs(cpu, r.A, r.K, r.F, r.P, r.B, Back(r.S, 5), r.I) /\ cpu.T = 65535
    BY <1>1, <1>2, <1>4, <1>17 DEF AlongBrk, Kept, Push1, Push2, Push3, Push4, Push5, BrkVector
  <2>3. /\ Regs(cpu', r.A, 0, r.F, r.P, r.B, Back(r.S, 5), 65534) /\ bus' = SetBank(bus, 0) /\ Inside
        /\ cpu'.T = cpu.T
    BY <1>2, <1>4, <2>1, <2>2, VectorBankEffect
  <2>4. cpu'.step = 8 /\ cpu'.C = 255
    BY <1>1, <1>17, <2>3 DEF Inside
  <2>5. AlongBrk(cpu', bus', arch.regs, arch.bus, dev)
    BY <1>4, <2>2, <2>3, <2>4 DEF AlongBrk, Kept, Push1, Push2, Push3, Push4, Push5, BrkVector
  <2>6. "FD" \notin Control
    BY <2>1
  <2> QED
    BY <1>17, <2>3, <2>4, <2>5, <2>6 DEF Proceeds
<1>18. CASE cpu.step = 8
  <2>1. Control = {"IO", "XZ", "XN", "II", "MO", "EO", "TH"}
    BY <1>1, <1>18, ProgramWords
  <2>2. bus = frame /\ Regs(cpu, r.A, 0, r.F, r.P, r.B, Back(r.S, 5), 65534)
    BY <1>1, <1>2, <1>4, <1>18 DEF AlongBrk, Kept, Push1, Push2, Push3, Push4, Push5, BrkVector
  <2>3. /\ Regs(cpu', r.A, 0, r.F, r.P, r.B, Back(r.S, 5), 65533) /\ bus' = bus /\ Inside
        /\ cpu'.T = 256 * ReadMemory(bus, dev, 65533) + Low(cpu.T)
    BY <1>2, <1>4, <2>1, <2>2, VectorHighEffect
  <2>4. cpu'.step = 9 /\ cpu'.C = 255
    BY <1>1, <1>18, <2>3 DEF Inside
  <2>5. AlongBrk(cpu', bus', arch.regs, arch.bus, dev)
    BY <1>4, <2>2, <2>3, <2>4 DEF AlongBrk, Kept, Push1, Push2, Push3, Push4, Push5, BrkVector
  <2>6. "FD" \notin Control
    BY <2>1
  <2> QED
    BY <1>18, <2>3, <2>4, <2>5, <2>6 DEF Proceeds
<1>19. CASE cpu.step = 9
  <2>1. Control = {"IO", "XZ", "XN", "MO", "EO", "TL"}
    BY <1>1, <1>19, ProgramWords
  <2>2. /\ bus = frame
        /\ Regs(cpu, r.A, 0, r.F, r.P, r.B, Back(r.S, 5), 65533)
        /\ High(cpu.T) = ReadMemory(bus, dev, 65533)
    BY <1>1, <1>2, <1>4, <1>19 DEF AlongBrk, Kept, Push1, Push2, Push3, Push4, Push5, BrkVector
  <2>3. /\ Regs(cpu', r.A, 0, r.F, r.P, r.B, Back(r.S, 5), 65533) /\ bus' = bus /\ Inside
        /\ cpu'.T = 256 * High(cpu.T) + ReadMemory(bus, dev, 65532)
    BY <1>2, <1>4, <2>1, <2>2, VectorLowEffect
  <2>4. cpu'.step = 10 /\ cpu'.C = 255
    BY <1>1, <1>19, <2>3 DEF Inside
  <2>5. AlongBrk(cpu', bus', arch.regs, arch.bus, dev)
    BY <1>4, <2>2, <2>3, <2>4 DEF AlongBrk, Kept, Push1, Push2, Push3, Push4, Push5, BrkVector
  <2>6. "FD" \notin Control
    BY <2>1
  <2> QED
    BY <1>19, <2>3, <2>4, <2>5, <2>6 DEF Proceeds
<1>20. CASE cpu.step = 10
  <2>1. Control = Goto
    BY <1>1, <1>20, ProgramWords
  <2>2. bus = frame /\ Regs(cpu, r.A, 0, r.F, r.P, r.B, Back(r.S, 5), 65533) /\ cpu.T = vector
    BY <1>1, <1>2, <1>4, <1>20 DEF AlongBrk, Kept, Push1, Push2, Push3, Push4, Push5, BrkVector
  <2>3. Ended(r.A, 0, r.F, r.P, r.B, Back(r.S, 5), vector)
    BY <1>2, <1>4, <2>1, <2>2, GotoEnds
  <2>4. Architecture!Execute(Breaks(Back(r.S, 5), 0, vector), bus)
    BY <1>2, <2>3, EndBreaks
  <2>5. pushed = frame /\ target = vector /\ Architecture!Down(5) = Back(r.S, 5)
    <3>1. Architecture!Pushed(Architecture!Frame) = Push5(r, m)
      <4>1. Architecture!Frame = <<r.K, High(r.I), Low(r.I), r.A, r.F>>
        BY DEF Architecture!Frame, High, Low
      <4> QED
        BY <4>1, PushedFive DEF Push1, Push2, Push3, Push4, Push5
    <3>2. pushed = frame
      BY <3>1, SameWrites
    <3>3. target = vector
      <4> DEFINE l == ReadMemory(frame, dev, 65532)   h == ReadMemory(frame, dev, 65533)
      <4>1. l \in Byte /\ h \in Byte
        BY <1>4, <2>2
      <4>2. target = l + 256 * h
        BY <3>2, SameReads
      <4>3. vector = 256 * h + l
        BY DEF BrkVector
      <4> HIDE DEF l, h, target, vector
      <4> QED
        BY <4>1, <4>2, <4>3 DEF Byte
    <3> QED
      BY <1>2, <3>2, <3>3, ArchReads
  <2>6. Architecture!Brk
    <3>1. Architecture!Opcode(255)
      BY DEF Architecture!Opcode
    <3>2. Architecture!Brk <=> Architecture!Opcode(255)
            /\ Architecture!Execute([r EXCEPT !.S = Architecture!Down(5), !.K = 0, !.I = target], pushed)
      BY DEF Architecture!Brk
    <3>3. bus = frame
      BY <2>2
    <3> HIDE DEF pushed, target, vector, frame
    <3> QED
      BY <3>3, <2>4, <2>5, <3>1, <3>2, Zenon DEF Breaks
  <2>7. "FD" \notin Control
    BY <2>1 DEF Goto
  <2> QED
    BY <1>20, <2>3, <2>6, <2>7 DEF Starts, Ended
<1> QED
  BY <1>3, <1>10, <1>11, <1>12, <1>13, <1>14, <1>15, <1>16, <1>17, <1>18, <1>19, <1>20

LEMMA BraStep ==
  ASSUME RefineInv, Clocked(Control), UNCHANGED <<dev_clock, dev_data>>, ~arch.regs.reset,
         arch.regs.C = 241
  PROVE  /\ \/ Proceeds /\ AlongBranch(cpu', bus', arch.regs, arch.bus, dev)
            \/ Starts /\ Architecture!Bra
         /\ "FD" \notin Control
<1> DEFINE r == arch.regs   m == arch.bus
           i1 == Fwd(r.I, 1)   value == Next1(r, m, dev)   to == (r.I + 65535 - value) % 65536
           target == (r.I + 65535 - Architecture!Imm) % 65536
<1>1. cpu.C = 241 /\ Control = Compiled(Program(241), cpu.F, cpu.step)
  BY Running DEF Opcodes
<1>2. ProgramInv /\ ArchInv /\ AlongBranch(cpu, bus, arch.regs, arch.bus, dev)
  BY DEF RefineInv, AlongInv, Along
<1>3. cpu.step \in 0 .. 1
  BY <1>1, <1>2 DEF AlongBranch
<1>10. CASE cpu.step = 0
  <2>1. Control = {"IO", "XZ", "XC", "MO", "EO", "XI"}
    BY <1>1, <1>10, ProgramWords
  <2>2. bus = m /\ Regs(cpu, r.A, r.K, r.F, r.P, r.B, r.S, r.I)
    BY <1>1, <1>10, Running DEF Opcodes, Kept
  <2>3. /\ Regs(cpu', r.A, r.K, r.F, r.P, r.B, r.S, r.I) /\ bus' = bus /\ Inside
        /\ cpu'.X = ReadMemory(bus, dev, i1)
    BY <1>2, <2>1, <2>2, BackOffsetEffect
  <2>4. cpu'.step = 1 /\ cpu'.C = 241
    BY <1>1, <1>10, <2>3 DEF Inside
  <2>5. AlongBranch(cpu', bus', arch.regs, arch.bus, dev)
    BY <2>2, <2>3, <2>4 DEF AlongBranch, Kept, Next1
  <2>6. "FD" \notin Control
    BY <2>1
  <2> QED
    BY <1>10, <2>3, <2>4, <2>5, <2>6 DEF Proceeds
<1>11. CASE cpu.step = 1
  <2>1. Control = {"IO", "XN", "II", "MO", "EO", "CI"}
    BY <1>1, <1>11, ProgramWords
  <2>2. bus = m /\ Regs(cpu, r.A, r.K, r.F, r.P, r.B, r.S, r.I) /\ cpu.X = value
    BY <1>1, <1>2, <1>11 DEF AlongBranch, Kept, Next1
  <2>3. Ended(r.A, r.K, r.F, r.P, r.B, r.S, to)
    BY <1>2, <2>1, <2>2, BackEnds
  <2>4. Architecture!Execute(Goes(to), bus)
    BY <1>2, <2>3, EndGoes
  <2>5. target = to
    BY <1>2, ArchReads
  <2>6. Architecture!Bra
    <3>1. Architecture!Opcode(241)
      BY DEF Architecture!Opcode
    <3>2. Architecture!Bra <=> Architecture!Opcode(241) /\ Architecture!Execute([r EXCEPT !.I = target],
              m)
      BY DEF Architecture!Bra
    <3> HIDE DEF target, to
    <3> QED
      BY <2>2, <2>4, <2>5, <3>1, <3>2, Zenon DEF Goes
  <2>7. "FD" \notin Control
    BY <2>1
  <2> QED
    BY <1>11, <2>3, <2>6, <2>7 DEF Starts, Ended
<1> QED
  BY <1>3, <1>10, <1>11

LEMMA AdcImmStep ==
  ASSUME RefineInv, Clocked(Control), UNCHANGED <<dev_clock, dev_data>>, ~arch.regs.reset,
         arch.regs.C = 120
  PROVE  /\ \/ Proceeds /\ AlongAdc(cpu', bus', arch.regs, arch.bus, dev)
            \/ Starts /\ Architecture!AdcImm
         /\ "FD" \notin Control
<1> DEFINE r == arch.regs   m == arch.bus
           i1 == Fwd(r.I, 1)   i2 == Fwd(r.I, 2)   sum == Sum(r, m, dev)
           flags == WithFlag(WithNZ(r.F, sum % 256), FLAG_C, sum >= 256)
<1>1. cpu.C = 120 /\ Control = Compiled(Program(120), cpu.F, cpu.step)
  BY Running DEF Opcodes
<1>2. ProgramInv /\ ArchInv /\ AlongAdc(cpu, bus, arch.regs, arch.bus, dev) /\ cpu.F < 16
  BY DEF RefineInv, AlongInv, Along
<1>3. cpu.step \in 0 .. 1
  BY <1>1, <1>2 DEF AlongAdc
<1>4. i1 \in Word /\ Fwd(i1, 1) = i2 /\ r.I \in Word /\ r.A \in Byte /\ Next1(r, m, dev) \in Byte
  BY <1>2, OperandFacts, ArchFields
<1>10. CASE cpu.step = 0
  <2> DEFINE words == {"IO", "XZ", "XC", "II", "MO", "ES", "AI", "FI"}
  <2>1. /\ Flag(cpu.F, FLAG_C)  => Control = words \cup {"EC"}
        /\ ~Flag(cpu.F, FLAG_C) => Control = words
    BY <1>1, <1>10, ConditionalWords
  <2>2. bus = m /\ Regs(cpu, r.A, r.K, r.F, r.P, r.B, r.S, r.I) /\ r.F = cpu.F
    BY <1>1, <1>10, Running DEF Opcodes, Kept, Regs
  <2>3. r.F \in 0 .. 15
    BY <1>2, <2>2 DEF ProgramInv, Registers, Byte
  <2> HIDE DEF words
  <2>4. Regs(cpu', sum % 256, r.K, flags, r.P, r.B, r.S, i1) /\ bus' = bus /\ Inside
    <3>1. CASE Flag(cpu.F, FLAG_C)
      <4> DEFINE total == r.A + ReadMemory(bus, dev, i1) + 1
      <4>1. total = sum
        BY <2>2, <3>1 DEF Sum, Next1
      <4>3. Clocked({"IO", "XZ", "XC", "II", "MO", "ES", "AI", "FI"} \cup {"EC"})
        BY <2>1, <3>1 DEF words
      <4>2. /\ Regs(cpu', total % 256, r.K, WithFlag(WithNZ(r.F, total % 256), FLAG_C, total >= 256), r.P,
                 r.B, r.S, i1)
            /\ bus' = bus /\ Inside
        BY <1>2, <2>2, <2>3, <4>3, SumCarryEffect
      <4> QED
        BY <4>1, <4>2
    <3>2. CASE ~Flag(cpu.F, FLAG_C)
      <4> DEFINE total == r.A + ReadMemory(bus, dev, i1) + 0
      <4>1. total = sum
        BY <2>2, <3>2 DEF Sum, Next1
      <4>3. Clocked({"IO", "XZ", "XC", "II", "MO", "ES", "AI", "FI"})
        BY <2>1, <3>2 DEF words
      <4>2. /\ Regs(cpu', total % 256, r.K, WithFlag(WithNZ(r.F, total % 256), FLAG_C, total >= 256), r.P,
                 r.B, r.S, i1)
            /\ bus' = bus /\ Inside
        BY <1>2, <2>2, <2>3, <4>3, SumEffect
      <4> QED
        BY <4>1, <4>2
    <3> QED
      BY <3>1, <3>2
  <2>5. cpu'.step = 1 /\ cpu'.C = 120
    BY <1>1, <1>10, <2>4 DEF Inside
  <2>6. AlongAdc(cpu', bus', arch.regs, arch.bus, dev)
    BY <2>2, <2>4, <2>5 DEF AlongAdc
  <2>7. "FD" \notin Control
    BY <2>1 DEF words
  <2> QED
    BY <2>4, <2>5, <2>6, <2>7 DEF Proceeds
<1>11. CASE cpu.step = 1
  <2>1. Control = Fetch
    BY <1>1, <1>11, ConditionalWords
  <2>2. bus = m /\ Regs(cpu, sum % 256, r.K, flags, r.P, r.B, r.S, i1)
    BY <1>1, <1>2, <1>11 DEF AlongAdc
  <2>3. Ended(sum % 256, r.K, flags, r.P, r.B, r.S, i2)
    BY <1>2, <1>4, <2>1, <2>2, FetchEnds
  <2>4. Architecture!Execute(Adds(sum % 256, i2, flags), bus)
    BY <1>2, <2>3, EndAdds
  <2>5. Architecture!AdcImm
    <3> DEFINE total == r.A + Architecture!Imm + (IF Architecture!Flag(r.F,
        Architecture!FLAG_C) THEN 1 ELSE 0)
               low == total % 256   to == Architecture!Advance(2)
               loaded == Architecture!WithFlag(Architecture!WithNZ(r.F, total % 256), Architecture!FLAG_C,
                   total >= 256)
               out == sum % 256
    <3>1. Architecture!AdcImm <=> Architecture!Opcode(120)
            /\ Architecture!Execute([r EXCEPT !.A = low, !.I = to, !.F = loaded], m)
      BY DEF Architecture!AdcImm
    <3>2. total = sum
      BY <1>2, ArchReads, SameAlu DEF Sum
    <3>3. low = out /\ to = i2 /\ loaded = flags
      <4> HIDE DEF total, sum
      <4> QED
        BY <1>2, <3>2, ArchReads, SameAlu
    <3>4. Architecture!Opcode(120)
      BY DEF Architecture!Opcode
    <3>5. bus = m
      BY <2>2
    <3>6. Architecture!Execute(Adds(out, i2, flags), bus)
      BY <2>4
    <3> HIDE DEF low, to, loaded, flags, out, i2
    <3> QED
      BY <3>1, <3>3, <3>4, <3>5, <3>6, Zenon DEF Adds
  <2>6. "FD" \notin Control
    BY <2>1 DEF Fetch, NextByte
  <2> QED
    BY <2>3, <2>5, <2>6 DEF Starts, Ended
<1> QED
  BY <1>3, <1>10, <1>11

(* The words of a branch by whether it is taken.                           *)
LEMMA BranchWords ==
  ASSUME NEW r, r.C \in {224, 236, 238}
  PROVE  /\ Taken(r)  => /\ Compiled(Program(r.C), r.F, 0) = NextByte({"XI"})
                         /\ Compiled(Program(r.C), r.F, 1) = Take.word
         /\ ~Taken(r) => /\ Compiled(Program(r.C), r.F, 0) = NextByte({})
                         /\ Compiled(Program(r.C), r.F, 1) = Fetch
<1> DEFINE f == r.F   zero == Flag(f, FLAG_Z)   minus == Flag(f, FLAG_N)
<1>1. zero \in BOOLEAN /\ minus \in BOOLEAN
  BY DEF Flag
<1>2. /\ zero  => /\ Compiled(Program(224), f, 0) = NextByte({"XI"})
                  /\ Compiled(Program(224), f, 1) = Take.word
      /\ ~zero => /\ Compiled(Program(224), f, 0) = NextByte({})
                  /\ Compiled(Program(224), f, 1) = Fetch
  BY ConditionalWords
<1>3. zero \/ minus => /\ Compiled(Program(236), f, 0) = NextByte({})
                       /\ Compiled(Program(236), f, 1) = Fetch
                       /\ Compiled(Program(238), f, 0) = NextByte({"XI"})
                       /\ Compiled(Program(238), f, 1) = Take.word
  BY ConditionalWords
<1>4. ~(zero \/ minus) => /\ Compiled(Program(236), f, 0) = NextByte({"XI"})
                          /\ Compiled(Program(236), f, 1) = Take.word
                          /\ Compiled(Program(238), f, 0) = NextByte({})
                          /\ Compiled(Program(238), f, 1) = Fetch
  BY ConditionalWords
<1>5. /\ r.C = 224 => (Taken(r) <=> zero)
      /\ r.C = 236 => (Taken(r) <=> ~zero /\ ~minus)
      /\ r.C = 238 => (Taken(r) <=> zero \/ minus)
  BY <1>1 DEF Taken
<1> HIDE DEF zero, minus
<1>6. CASE r.C = 224
  BY <1>2, <1>5, <1>6 DEF f
<1>7. CASE r.C = 236
  BY <1>3, <1>4, <1>5, <1>7 DEF f
<1>8. CASE r.C = 238
  BY <1>3, <1>4, <1>5, <1>8 DEF f
<1> QED
  BY <1>6, <1>7, <1>8

LEMMA BranchStep ==
  ASSUME RefineInv, Clocked(Control), UNCHANGED <<dev_clock, dev_data>>, ~arch.regs.reset,
         arch.regs.C \in {224, 236, 238}
  PROVE  /\ \/ Proceeds /\ AlongBranch(cpu', bus', arch.regs, arch.bus, dev)
            \/ Starts /\ Architecture!Branch(Taken(arch.regs))
         /\ "FD" \notin Control
<1> DEFINE r == arch.regs   m == arch.bus
           i1 == Fwd(r.I, 1)   i2 == Fwd(r.I, 2)   value == Next1(r, m, dev)
<1>1. cpu.C = r.C /\ Control = Compiled(Program(r.C), cpu.F, cpu.step)
  BY Running DEF Opcodes
<1>2. ProgramInv /\ ArchInv /\ AlongBranch(cpu, bus, arch.regs, arch.bus, dev)
  BY DEF RefineInv, AlongInv, Along
<1>3. cpu.step \in 0 .. 1
  BY <1>1, <1>2 DEF AlongBranch
<1>4. i1 \in Word /\ Fwd(i1, 1) = i2 /\ r.I \in Word /\ value \in Byte
  BY <1>2, OperandFacts
<1>10. CASE cpu.step = 0
  <2>2. bus = m /\ Regs(cpu, r.A, r.K, r.F, r.P, r.B, r.S, r.I) /\ r.F = cpu.F
    BY <1>1, <1>10, Running DEF Opcodes, Kept, Regs
  <2>1. /\ Taken(r)  => Control = NextByte({"XI"})
        /\ ~Taken(r) => Control = NextByte({})
    BY <1>1, <1>10, <2>2, BranchWords
  <2>3. /\ Regs(cpu', r.A, r.K, r.F, r.P, r.B, r.S, i1) /\ bus' = bus /\ Inside
        /\ Taken(r) => cpu'.X = value
    <3>1. CASE Taken(r)
      BY <1>2, <2>1, <2>2, <3>1, NextIndexEffect DEF Next1
    <3>2. CASE ~Taken(r)
      BY <1>2, <2>1, <2>2, <3>2, NextPlainEffect
    <3> QED
      BY <3>1, <3>2
  <2>4. cpu'.step = 1 /\ cpu'.C = r.C
    BY <1>1, <1>10, <2>3 DEF Inside
  <2>5. AlongBranch(cpu', bus', arch.regs, arch.bus, dev)
    BY <2>2, <2>3, <2>4 DEF AlongBranch, Kept
  <2>6. "FD" \notin Control
    BY <2>1 DEF NextByte
  <2> QED
    BY <2>3, <2>4, <2>5, <2>6 DEF Proceeds
<1>11. CASE cpu.step = 1
  <2>1. /\ bus = m
        /\ Regs(cpu, r.A, r.K, r.F, r.P, r.B, r.S, i1)
        /\ (Taken(r) => cpu.X = value)
        /\ r.F = cpu.F
    BY <1>1, <1>2, <1>11 DEF AlongBranch, Kept, Regs
  <2>2. /\ Taken(r)  => Control = Take.word
        /\ ~Taken(r) => Control = Fetch
    BY <1>1, <1>11, <2>1, BranchWords
  <2> DEFINE target == Architecture!Advance(2 + (IF Taken(r) THEN Architecture!Imm ELSE 0))
  <2>3. Ended(r.A, r.K, r.F, r.P, r.B, r.S, target)
    <3>1. CASE Taken(r)
      <4>1. target = (i1 + cpu.X + 1) % 65536
        <5>1. target = Fwd(r.I, 2 + value)
          <6>1. 2 + value \in Nat
            BY <1>4 DEF Byte
          <6>2. target = Architecture!Advance(2 + value)
            BY <1>2, <3>1, ArchReads
          <6> QED
            BY <1>2, <6>1, <6>2, ArchReads
        <5>2. (i1 + value + 1) % 65536 = Fwd(r.I, 2 + value)
          <6> HIDE DEF value
          <6> QED
            BY <1>4 DEF Fwd, Word, Byte
        <5> QED
          BY <2>1, <3>1, <5>1, <5>2
      <4>2. Clocked(Take.word)
        BY <2>2, <3>1
      <4> HIDE DEF target
      <4> QED
        BY <1>2, <2>1, <4>1, <4>2, TakeEnds
    <3>2. CASE ~Taken(r)
      <4>1. target = i2
        BY <1>2, <3>2, ArchReads
      <4>2. Clocked(Fetch)
        BY <2>2, <3>2
      <4> HIDE DEF target
      <4> QED
        BY <1>2, <1>4, <2>1, <4>1, <4>2, FetchEnds
    <3> QED
      BY <3>1, <3>2
  <2>4. Architecture!Branch(Taken(r))
    <3>1. Architecture!Branch(Taken(r)) <=> Architecture!Execute([r EXCEPT !.I = target], m)
      BY DEF Architecture!Branch
    <3> HIDE DEF target
    <3>2. Architecture!Execute(Goes(target), bus)
      BY <1>2, <2>3, EndGoes
    <3>3. bus = m
      BY <2>1
    <3> QED
      BY <3>1, <3>2, <3>3, Zenon DEF Goes
  <2>5. "FD" \notin Control
    BY <2>2 DEF Fetch, NextByte, Take, Line
  <2> QED
    BY <2>3, <2>4, <2>5 DEF Starts, Ended
<1> QED
  BY <1>3, <1>10, <1>11

(* The three conditions are those of brz, brg and bng.                     *)
LEMMA BranchTaken ==
  ASSUME ~arch.regs.reset, arch.regs.C \in {224, 236, 238}, Architecture!Branch(Taken(arch.regs))
  PROVE  Architecture!Brz \/ Architecture!Brg \/ Architecture!Bng
<1> DEFINE r == arch.regs
<1>1. /\ Architecture!Flag(r.F, Architecture!FLAG_Z) = Flag(r.F, FLAG_Z)
      /\ Architecture!Flag(r.F, Architecture!FLAG_N) = Flag(r.F, FLAG_N)
  BY SameAlu
<1> DEFINE zero == Flag(r.F, FLAG_Z)   minus == Flag(r.F, FLAG_N)   taken == Taken(r)
<1>2. zero \in BOOLEAN /\ minus \in BOOLEAN /\ taken \in BOOLEAN
  BY DEF Flag, Taken
<1>6. /\ r.C = 224 => (taken <=> zero)
      /\ r.C = 236 => (taken <=> ~zero /\ ~minus)
      /\ r.C = 238 => (taken <=> zero \/ minus)
  BY <1>2 DEF Taken
<1>7. Architecture!Branch(taken)
  OBVIOUS
<1> HIDE DEF zero, minus, taken
<1>3. CASE r.C = 224
  <2>1. taken = Flag(r.F, FLAG_Z)
    <3>1. CASE zero
      <4>1. zero = TRUE /\ taken = TRUE
        BY <1>2, <1>3, <1>6, <3>1, Zenon
      <4> QED
        BY <4>1, Zenon DEF zero
    <3>2. CASE ~zero
      <4>1. zero = FALSE /\ taken = FALSE
        BY <1>2, <1>3, <1>6, <3>2, Zenon
      <4> QED
        BY <4>1, Zenon DEF zero
    <3> QED
      BY <3>1, <3>2
  <2> QED
    BY <1>1, <1>3, <1>7, <2>1, Zenon DEF Architecture!Brz, Architecture!Opcode
<1>4. CASE r.C = 236
  <2>1. taken = (~Flag(r.F, FLAG_Z) /\ ~Flag(r.F, FLAG_N))
    BY <1>2, <1>4, <1>6, Zenon DEF zero, minus
  <2>2. taken = Architecture!Positive
    BY <1>1, <2>1, Zenon DEF Architecture!Positive
  <2> QED
    BY <1>4, <1>7, <2>2, Zenon DEF Architecture!Brg, Architecture!Opcode
<1>5. CASE r.C = 238
  <2>1. taken = (Flag(r.F, FLAG_Z) \/ Flag(r.F, FLAG_N))
    BY <1>2, <1>5, <1>6, Zenon DEF zero, minus
  <2>2. taken = ~Architecture!Positive
    BY <1>1, <2>1, Zenon DEF Architecture!Positive
  <2> QED
    BY <1>5, <1>7, <2>2, Zenon DEF Architecture!Bng, Architecture!Opcode
<1> QED
  BY <1>3, <1>4, <1>5

(* The flags register keeps four bits, unless a wider byte is loaded.      *)
LEMMA MaskFits ==
  ASSUME NEW f \in 0 .. 15, NEW mask \in {1, 2, 4, 8}, NEW on \in BOOLEAN
  PROVE  WithFlag(f, mask, on) \in 0 .. 15
<1>1. CASE mask = 1
  BY <1>1 DEF WithFlag, Flag
<1>2. CASE mask = 2
  BY <1>2 DEF WithFlag, Flag
<1>3. CASE mask = 4
  BY <1>3 DEF WithFlag, Flag
<1>4. CASE mask = 8
  BY <1>4 DEF WithFlag, Flag
<1> QED
  BY <1>1, <1>2, <1>3, <1>4

(* The flags register keeps four bits, unless a wider byte is loaded into  *)
(* it.                                                                     *)
LEMMA FlagsFit ==
  ASSUME ProgramInv, cpu.F < 16, Clocked(Control),
         "FI" \in Control /\ "FD" \in Control => cpu'.F < 16
  PROVE  cpu'.F < 16
<1> DEFINE w == Control
           f == cpu.F
           byte == DataBus(w, AddressOut(w))
           x == IF "EZ" \in w THEN 0 ELSE cpu.A
           y == IF "EN" \in w THEN 255 - byte ELSE byte
           sum == x + y + (IF "EC" \in w THEN 1 ELSE 0)
           out == CASE "ES" \in w -> sum % 256
                    [] "ER" \in w -> y \div 2
                    [] "EA" \in w -> FromBits(BitsOf(x) \cap BitsOf(y))
                    [] "EO" \in w -> FromBits(BitsOf(x) \cup BitsOf(y))
           carried == CASE "ES" \in w -> WithFlag(f, FLAG_C, CarryOut(sum))
                        [] "ER" \in w -> WithFlag(f, FLAG_C, y % 2 = 1)
                        [] OTHER       -> f
<1>1. "FI" \in w /\ "FD" \notin w => cpu'.F = WithNZ(carried, out)
  BY DEF Clocked, CalcALU
<1>2. "FI" \notin w => cpu'.F = cpu.F
  BY DEF Clocked
<1>3. f \in 0 .. 15
  BY DEF ProgramInv, Registers, Byte
<1>4. carried \in 0 .. 15
  <2>1. CarryOut(sum) \in BOOLEAN /\ (y % 2 = 1) \in BOOLEAN /\ FLAG_C \in {1, 2, 4, 8}
    BY DEF CarryOut, FLAG_C
  <2> HIDE DEF sum, y, x, f
  <2>2. WithFlag(f, FLAG_C, CarryOut(sum)) \in 0 .. 15 /\ WithFlag(f, FLAG_C, y % 2 = 1) \in 0 .. 15
    BY <1>3, <2>1, MaskFits
  <2> QED
    BY <1>3, <2>2
<1> HIDE DEF out, carried, w
<1>5. WithNZ(carried, out) \in 0 .. 15
  <2> DEFINE high == out >= 128
             zero == out = 0
             signed == WithFlag(carried, FLAG_N, high)
  <2>1. /\ high \in BOOLEAN /\ zero \in BOOLEAN
        /\ FLAG_N \in {1, 2, 4, 8} /\ FLAG_Z \in {1, 2, 4, 8}
    BY DEF FLAG_N, FLAG_Z
  <2>2. WithNZ(carried, out) = WithFlag(signed, FLAG_Z, zero)
    BY DEF WithNZ
  <2> HIDE DEF high, zero
  <2>3. signed \in 0 .. 15
    BY <1>4, <2>1, MaskFits
  <2> HIDE DEF signed
  <2> QED
    BY <2>1, <2>2, <2>3, MaskFits
<1> QED
  BY <1>1, <1>2, <1>5 DEF w

(* An opcode without a program counts its steps around and changes nothing *)
(* that a programmer sees, for ever.                                       *)
LEMMA UndefinedStep ==
  ASSUME RefineInv, Clocked(Control), ~arch.regs.reset, arch.regs.C \notin Opcodes
  PROVE  /\ cpu'.C = arch.regs.C /\ ~cpu'.reset /\ arch' = arch /\ bus' = bus
         /\ cpu'.F = cpu.F
<1>1. cpu.C = arch.regs.C /\ ~cpu.reset /\ Control = Unwritten
  BY Running
<1>2. bus' = Driven(Unwritten, AddressOut(Unwritten), DataBus(Unwritten, AddressOut(Unwritten)))
  BY <1>1 DEF Clocked
<1>3. bus' = bus
  BY <1>2 DEF Driven, Unwritten
<1>4. cpu'.C = cpu.C /\ cpu'.F = cpu.F /\ arch' = arch /\ ~cpu'.reset
  BY <1>1 DEF Clocked, Unwritten
<1> QED
  BY <1>1, <1>3, <1>4

(* The thirteen words of the reset, to the fetch at the reset vector.      *)
LEMMA ResetStep ==
  ASSUME RefineInv, Clocked(Control), UNCHANGED <<dev_clock, dev_data>>, arch.regs.reset
  PROVE  /\ \/ cpu'.reset /\ arch' = arch /\ Booting(cpu', bus', arch.bus, dev)
            \/ Starts /\ Architecture!Reset
         /\ cpu'.F < 16
<1> DEFINE m == arch.bus
           high == ReadMemory(m, dev, 65531)   low == ReadMemory(m, dev, 65530)
           w == Control   address == AddressOut(w)   byte == DataBus(w, address)
           alu == CalcALU(cpu.A, byte, cpu.F, w)
<1>1. Booting(cpu, bus, m, dev) /\ ProgramInv /\ cpu \in Registers /\ GoodBus(m) /\ GoodCells(m)
  BY DEF RefineInv, AlongInv, Along, ProgramInv, ArchInv
<1>2. cpu.reset /\ cpu.step \in 0 .. 12 /\ bus = m /\ m.bank = 0
  BY <1>1 DEF Booting
<1>3. w = ResetLines[cpu.step + 1].word
  BY <1>1, <1>2, ResetControl
<1>4. /\ address \in Word /\ byte \in Byte
      /\ cpu'.P = IF "PI" \in w THEN address ELSE cpu.P
      /\ cpu'.B = IF "BI" \in w THEN address ELSE cpu.B
      /\ cpu'.S = IF "SI" \in w THEN address ELSE cpu.S
      /\ cpu'.I = IF "II" \in w THEN address ELSE cpu.I
      /\ cpu'.F = IF "FI" \in w /\ "FD" \in w THEN byte ELSE IF "FI" \in w THEN alu.flags ELSE cpu.F
      /\ cpu'.A = IF "AI" \in w THEN alu.out ELSE cpu.A
      /\ cpu'.X = IF "XI" \in w THEN byte ELSE cpu.X
      /\ cpu'.K = IF "KI" \in w THEN byte ELSE cpu.K
      /\ cpu'.T = CASE "TL" \in w -> 256 * High(cpu.T) + byte
                    [] "TH" \in w -> 256 * byte + Low(cpu.T)
                    [] OTHER      -> cpu.T
      /\ "CI" \notin w => cpu'.reset = TRUE /\ cpu'.step = (cpu.step + 1) % 16 /\ arch' = arch
  BY <1>2 DEF Clocked
<1>5. bus' = Driven(w, address, byte)
  BY DEF Clocked
<1>6. "CI" \notin w /\ "MI" \notin w /\ ("KI" \in w => byte = 0) => bus' = m
  <2>1. "CI" \notin w /\ "MI" \notin w /\ "KI" \notin w => bus' = m
    BY <1>2, <1>5 DEF Driven
  <2>2. "CI" \notin w /\ "MI" \notin w /\ "KI" \in w => bus' = SetBank(m, byte)
    BY <1>2, <1>5 DEF Driven
  <2>3. SetBank(m, 0) = m
    BY <1>1, <1>2 DEF SetBank, GoodBus, BusFields
  <2> HIDE DEF w, byte, m
  <2> QED
    BY <2>1, <2>2, <2>3
<1>7. high \in Byte /\ low \in Byte
  <2>1. 65531 \in Word /\ 65530 \in Word
    BY DEF Word
  <2> QED
    BY <1>1, <2>1, ReadGoodByte
<1>8. High(cpu.T) \in Byte /\ Low(cpu.T) \in Byte /\ 0 \in Byte /\ 255 \in Byte
  <2>1. 0 \in Byte /\ 255 \in Byte
    BY DEF Byte
  <2> QED
    BY <1>1, <2>1, HalvesGood DEF Registers
<1>9. ASSUME NEW h \in Byte, NEW l \in Byte
      PROVE  Low(256 * h + l) = l /\ High(256 * h + l) = h
  BY <1>9, HalvesJoin
<1>10. /\ cpu.A = 0 \/ "EZ" \in w
       /\ "EO" \in w /\ "EN" \notin w /\ "ES" \notin w /\ "ER" \notin w /\ "EA" \notin w
       /\ byte = 0
       => /\ alu.out = 0
          /\ cpu.F = 0 /\ "FI" \in w /\ "FD" \notin w => alu.flags = FLAG_Z
  BY ZeroAlu
<1>11. byte = DataBus(w, address) /\ address = AddressOut(w)
  OBVIOUS
<1> HIDE DEF alu, byte, address, w, high, low, m
<1>20. CASE cpu.step = 0
  <2>1. w = {"TO", "XZ", "HO", "EO", "TL"}
    BY <1>3, <1>20 DEF ResetLines, Const, Line
  <2>3. byte = 255
    BY <1>11, <2>1 DEF DataBus
  <2>4. bus' = m /\ cpu'.reset /\ cpu'.step = 1 /\ arch' = arch
    BY <1>4, <1>6, <1>20, <2>1, <2>3
  <2>5. Booting(cpu', bus', m, dev)
    BY <1>1, <1>2, <1>4, <1>7, <1>8, <1>9, <1>10, <1>20, <2>1, <2>3, <2>4 DEF Booting, high, low
  <2> QED
    BY <2>4, <2>5 DEF Booting, FLAG_Z, m
<1>21. CASE cpu.step = 1
  <2>1. w = {"TO", "XZ", "HO", "EO", "TH"}
    BY <1>3, <1>21 DEF ResetLines, Const, Line
  <2>3. byte = 255
    BY <1>11, <2>1 DEF DataBus
  <2>4. bus' = m /\ cpu'.reset /\ cpu'.step = 2 /\ arch' = arch
    BY <1>4, <1>6, <1>21, <2>1, <2>3
  <2>5. Booting(cpu', bus', m, dev)
    BY <1>1, <1>2, <1>4, <1>7, <1>8, <1>9, <1>10, <1>21, <2>1, <2>3, <2>4 DEF Booting, high, low
  <2> QED
    BY <2>4, <2>5 DEF Booting, FLAG_Z, m
<1>22. CASE cpu.step = 2
  <2>1. w = {"TO", "XZ", "XN", "PI", "ZO", "EZ", "EO", "AI"}
    BY <1>3, <1>22 DEF ResetLines, Const, Line
  <2>2. address = 65534
    BY <1>1, <1>11, <1>22, <2>1 DEF Booting, AddressOut, AddressBus, Registers, Word
  <2>3. byte = 0
    BY <1>11, <2>1 DEF DataBus
  <2>4. bus' = m /\ cpu'.reset /\ cpu'.step = 3 /\ arch' = arch
    BY <1>4, <1>6, <1>22, <2>1, <2>3
  <2>5. Booting(cpu', bus', m, dev)
    BY <1>1, <1>2, <1>4, <1>7, <1>8, <1>9, <1>10, <1>22, <2>1, <2>2, <2>3, <2>4 DEF Booting, high, low
  <2> QED
    BY <2>4, <2>5 DEF Booting, FLAG_Z, m
<1>23. CASE cpu.step = 3
  <2>1. w = {"PO", "XZ", "XN", "PI", "ZO", "EO", "XI", "FI", "FD"}
    BY <1>3, <1>23 DEF ResetLines, Const, Line
  <2>2. address = 65533
    BY <1>1, <1>11, <1>23, <2>1 DEF Booting, AddressOut, AddressBus, Registers, Word
  <2>3. byte = 0
    BY <1>11, <2>1 DEF DataBus
  <2>4. bus' = m /\ cpu'.reset /\ cpu'.step = 4 /\ arch' = arch
    BY <1>4, <1>6, <1>23, <2>1, <2>3
  <2>5. Booting(cpu', bus', m, dev)
    BY <1>1, <1>2, <1>4, <1>7, <1>8, <1>9, <1>10, <1>23, <2>1, <2>2, <2>3, <2>4 DEF Booting, high, low
  <2> QED
    BY <2>4, <2>5 DEF Booting, FLAG_Z, m
<1>24. CASE cpu.step = 4
  <2>1. w = {"PO", "XZ", "XN", "PI", "ZO", "EO", "KI", "FI"}
    BY <1>3, <1>24 DEF ResetLines, Const, Line
  <2>2. address = 65532
    BY <1>1, <1>11, <1>24, <2>1 DEF Booting, AddressOut, AddressBus, Registers, Word
  <2>3. byte = 0
    BY <1>11, <2>1 DEF DataBus
  <2>4. bus' = m /\ cpu'.reset /\ cpu'.step = 5 /\ arch' = arch
    BY <1>4, <1>6, <1>24, <2>1, <2>3
  <2>5. Booting(cpu', bus', m, dev)
    BY <1>1, <1>2, <1>4, <1>7, <1>8, <1>9, <1>10, <1>24, <2>1, <2>2, <2>3, <2>4 DEF Booting, high, low
  <2> QED
    BY <2>4, <2>5 DEF Booting, FLAG_Z, m
<1>25. CASE cpu.step = 5
  <2>1. w = {"PO", "XZ", "XN", "PI", "MO", "EO", "TH"}
    BY <1>3, <1>25 DEF ResetLines, Const, Line
  <2>2. address = 65531
    BY <1>1, <1>11, <1>25, <2>1 DEF Booting, AddressOut, AddressBus, Registers, Word
  <2>3. byte = high
    BY <1>2, <1>11, <2>1, <2>2 DEF DataBus, high
  <2>4. bus' = m /\ cpu'.reset /\ cpu'.step = 6 /\ arch' = arch
    BY <1>4, <1>6, <1>25, <2>1, <2>3
  <2>5. Booting(cpu', bus', m, dev)
    BY <1>1, <1>2, <1>4, <1>7, <1>8, <1>9, <1>10, <1>25, <2>1, <2>2, <2>3, <2>4 DEF Booting, high, low
  <2> QED
    BY <2>4, <2>5 DEF Booting, FLAG_Z, m
<1>26. CASE cpu.step = 6
  <2>1. w = {"PO", "XZ", "XN", "MO", "EO", "TL"}
    BY <1>3, <1>26 DEF ResetLines, Const, Line
  <2>2. address = 65530
    BY <1>1, <1>11, <1>26, <2>1 DEF Booting, AddressOut, AddressBus, Registers, Word
  <2>3. byte = low
    BY <1>2, <1>11, <2>1, <2>2 DEF DataBus, low
  <2>4. bus' = m /\ cpu'.reset /\ cpu'.step = 7 /\ arch' = arch
    BY <1>4, <1>6, <1>26, <2>1, <2>3
  <2>5. Booting(cpu', bus', m, dev)
    BY <1>1, <1>2, <1>4, <1>7, <1>8, <1>9, <1>10, <1>26, <2>1, <2>2, <2>3, <2>4 DEF Booting, high, low
  <2> QED
    BY <2>4, <2>5 DEF Booting, FLAG_Z, m
<1>27. CASE cpu.step = 7
  <2>1. w = {"TO", "XZ", "II", "ZO", "EO", "TL"}
    BY <1>3, <1>27 DEF ResetLines, Const, Line
  <2>2. address = cpu.T
    BY <1>1, <1>11, <1>27, <2>1 DEF Booting, AddressOut, AddressBus, Registers, Word
  <2>3. byte = 0
    BY <1>11, <2>1 DEF DataBus
  <2>4. bus' = m /\ cpu'.reset /\ cpu'.step = 8 /\ arch' = arch
    BY <1>4, <1>6, <1>27, <2>1, <2>3
  <2>5. Booting(cpu', bus', m, dev)
    BY <1>1, <1>2, <1>4, <1>7, <1>8, <1>9, <1>10, <1>27, <2>1, <2>2, <2>3, <2>4 DEF Booting, high, low
  <2> QED
    BY <2>4, <2>5 DEF Booting, FLAG_Z, m
<1>28. CASE cpu.step = 8
  <2>1. w = {"TO", "XZ", "ZO", "EO", "TH"}
    BY <1>3, <1>28 DEF ResetLines, Const, Line
  <2>3. byte = 0
    BY <1>11, <2>1 DEF DataBus
  <2>4. bus' = m /\ cpu'.reset /\ cpu'.step = 9 /\ arch' = arch
    BY <1>4, <1>6, <1>28, <2>1, <2>3
  <2>5. Booting(cpu', bus', m, dev)
    BY <1>1, <1>2, <1>4, <1>7, <1>8, <1>9, <1>10, <1>28, <2>1, <2>3, <2>4 DEF Booting, high, low
  <2> QED
    BY <2>4, <2>5 DEF Booting, FLAG_Z, m
<1>29. CASE cpu.step = 9
  <2>1. w = {"TO", "XZ", "ZO", "EO", "PI"}
    BY <1>3, <1>29 DEF ResetLines, Const, Line
  <2>2. address = 0
    BY <1>1, <1>11, <1>29, <2>1 DEF Booting, AddressOut, AddressBus, Registers, Word
  <2>3. byte = 0
    BY <1>11, <2>1 DEF DataBus
  <2>4. bus' = m /\ cpu'.reset /\ cpu'.step = 10 /\ arch' = arch
    BY <1>4, <1>6, <1>29, <2>1, <2>3
  <2>5. Booting(cpu', bus', m, dev)
    BY <1>1, <1>2, <1>4, <1>7, <1>8, <1>9, <1>10, <1>29, <2>1, <2>2, <2>3, <2>4 DEF Booting, high, low
  <2> QED
    BY <2>4, <2>5 DEF Booting, FLAG_Z, m
<1>30. CASE cpu.step = 10
  <2>1. w = {"TO", "XZ", "ZO", "EO", "BI"}
    BY <1>3, <1>30 DEF ResetLines, Const, Line
  <2>2. address = 0
    BY <1>1, <1>11, <1>30, <2>1 DEF Booting, AddressOut, AddressBus, Registers, Word
  <2>3. byte = 0
    BY <1>11, <2>1 DEF DataBus
  <2>4. bus' = m /\ cpu'.reset /\ cpu'.step = 11 /\ arch' = arch
    BY <1>4, <1>6, <1>30, <2>1, <2>3
  <2>5. Booting(cpu', bus', m, dev)
    BY <1>1, <1>2, <1>4, <1>7, <1>8, <1>9, <1>10, <1>30, <2>1, <2>2, <2>3, <2>4 DEF Booting, high, low
  <2> QED
    BY <2>4, <2>5 DEF Booting, FLAG_Z, m
<1>31. CASE cpu.step = 11
  <2>1. w = {"TO", "XZ", "ZO", "EO", "SI"}
    BY <1>3, <1>31 DEF ResetLines, Const, Line
  <2>2. address = 0
    BY <1>1, <1>11, <1>31, <2>1 DEF Booting, AddressOut, AddressBus, Registers, Word
  <2>3. byte = 0
    BY <1>11, <2>1 DEF DataBus
  <2>4. bus' = m /\ cpu'.reset /\ cpu'.step = 12 /\ arch' = arch
    BY <1>4, <1>6, <1>31, <2>1, <2>3
  <2>5. Booting(cpu', bus', m, dev)
    BY <1>1, <1>2, <1>4, <1>7, <1>8, <1>9, <1>10, <1>31, <2>1, <2>2, <2>3, <2>4 DEF Booting, high, low
  <2> QED
    BY <2>4, <2>5 DEF Booting, FLAG_Z, m
<1>32. CASE cpu.step = 12
  <2>1. w = {"IO", "XZ", "MO", "EO", "CI"}
    BY <1>3, <1>32 DEF ResetLines, Const, Line
  <2>2. Regs(cpu, 0, 0, FLAG_Z, 0, 0, 0, cpu.I) /\ cpu.I = 256 * high + low
    BY <1>1, <1>32 DEF Booting, Regs, high, low
  <2>3. Clocked({"IO", "XZ", "MO", "EO", "CI"})
    BY <2>1 DEF w
  <2>4. Ended(0, 0, FLAG_Z, 0, 0, 0, cpu.I)
    BY <1>1, <2>2, <2>3, BootEnds
  <2>5. Architecture!Reset
    <3> DEFINE off == FALSE
               zero == 0
               vector == Architecture!ReadMemory(Architecture!SetBank(m, 0), dev, 65530)
                         + 256 * Architecture!ReadMemory(Architecture!SetBank(m, 0), dev, 65531)
               i == cpu.I
               r == [reset |-> off, A |-> zero, K |-> zero, C |-> zero, F |-> FLAG_Z,
                     P |-> zero, B |-> zero, S |-> zero, I |-> i]
               banked == Architecture!SetBank(m, 0)
    <3>1. Architecture!Reset <=> arch.regs.reset /\ Architecture!Execute(Architecture!Cleared(vector),
              banked)
      BY DEF Architecture!Reset, m
    <3>2. banked = m
      BY <1>1, <1>2 DEF Architecture!SetBank, GoodBus, BusFields
    <3>3. vector = i
      <4>1. vector = low + 256 * high
        <5> DEFINE Reads(x) == Architecture!ReadMemory(banked, dev, x)
        <5>1. vector = Reads(65530) + 256 * Reads(65531)
          OBVIOUS
        <5>2. \A x : Reads(x) = ReadMemory(m, dev, x)
          BY <3>2, SameReads, Zenon
        <5> HIDE DEF vector, Reads, banked
        <5> QED
          BY <5>1, <5>2 DEF high, low
      <4> HIDE DEF vector
      <4> QED
        BY <1>7, <2>2, <4>1 DEF Byte
    <3>4. Architecture!Cleared(vector) = [reset |-> off, A |-> zero, K |-> zero, C |-> zero, F |-> FLAG_Z,
                                          P |-> zero, B |-> zero, S |-> zero, I |-> vector]
      BY DEF Architecture!Cleared, Architecture!FLAG_Z, FLAG_Z
    <3>5. off = FALSE /\ Ended(zero, zero, FLAG_Z, zero, zero, zero, i)
      BY <2>4
    <3> HIDE DEF off, zero, vector, i, banked
    <3>6. Architecture!Execute(r, bus)
      BY <3>5, EndExecutes
    <3>7. Architecture!Cleared(vector) = r
      BY <3>3, <3>4, Zenon
    <3> HIDE DEF r
    <3> QED
      BY <1>2, <3>1, <3>2, <3>6, <3>7, Zenon
  <2>6. cpu'.F < 16
    BY <2>4 DEF Ended, Regs, FLAG_Z
  <2> QED
    BY <2>4, <2>5, <2>6 DEF Starts, Ended
<1> QED
  BY <1>2, <1>20, <1>21, <1>22, <1>23, <1>24, <1>25, <1>26, <1>27, <1>28, <1>29, <1>30, <1>31, <1>32

-----------------------------------------------------------------------------
(* The refinement.                                                         *)
(* Between two instructions the path starts.                               *)
(* At a boundary every path starts.                                        *)
LEMMA AlongStarts ==
  ASSUME NEW c, NEW b, NEW r, NEW m, NEW d, c.step = 0, b = m, ~r.reset, ~c.reset, c.C = r.C,
         Kept(c, r, r.I)
  PROVE  Along(c, b, r, m, d)
<1>1. AlongLod(c, b, r, m, d)
  BY DEF AlongLod
<1>2. AlongMov(c, b, r, m)
  BY DEF AlongMov
<1>3. AlongAdc(c, b, r, m, d)
  BY DEF AlongAdc
<1>4. AlongIndexed(c, b, r, m, d)
  BY DEF AlongIndexed
<1>5. AlongOperand(c, b, r, m, d)
  BY DEF AlongOperand
<1>6. AlongBranch(c, b, r, m, d)
  BY DEF AlongBranch
<1>7. AlongRts(c, b, r, m, d)
  BY DEF AlongRts
<1>8. AlongRti(c, b, r, m, d)
  BY DEF AlongRti
<1>9. AlongBrk(c, b, r, m, d)
  BY DEF AlongBrk
<1> QED
  BY <1>1, <1>2, <1>3, <1>4, <1>5, <1>6, <1>7, <1>8, <1>9 DEF Along

(* The path of the opcode at hand.                                        *)
OnPath(c, b, r, m, d) ==
  \/ c.C \in {0} /\ AlongLod(c, b, r, m, d)
  \/ c.C \in {34, 35, 80} /\ AlongMov(c, b, r, m)
  \/ c.C \in {120} /\ AlongAdc(c, b, r, m, d)
  \/ c.C \in {2, 28, 18, 20} /\ AlongIndexed(c, b, r, m, d)
  \/ c.C \in {17, 25, 244, 248} /\ AlongOperand(c, b, r, m, d)
  \/ c.C \in {224, 236, 238, 241} /\ AlongBranch(c, b, r, m, d)
  \/ c.C \in {250} /\ AlongRts(c, b, r, m, d)
  \/ c.C \in {254} /\ AlongRti(c, b, r, m, d)
  \/ c.C \in {255} /\ AlongBrk(c, b, r, m, d)

(* Inside an instruction only the path of its opcode counts.               *)
LEMMA AlongOne ==
  ASSUME NEW c, NEW b, NEW r, NEW m, NEW d, c.step \in 1 .. 15, ~r.reset, ~c.reset, c.C = r.C,
         OnPath(c, b, r, m, d)
  PROVE  Along(c, b, r, m, d)
<1>1. c.step # 0
  OBVIOUS
<1>2. c.C \notin {0} => AlongLod(c, b, r, m, d)
  BY DEF AlongLod
<1>3. c.C \notin {34, 35, 80} => AlongMov(c, b, r, m)
  BY DEF AlongMov
<1>4. c.C \notin {120} => AlongAdc(c, b, r, m, d)
  BY DEF AlongAdc
<1>5. c.C \notin {2, 28, 18, 20} => AlongIndexed(c, b, r, m, d)
  BY DEF AlongIndexed
<1>6. c.C \notin {17, 25, 244, 248} => AlongOperand(c, b, r, m, d)
  BY DEF AlongOperand
<1>7. c.C \notin {224, 236, 238, 241} => AlongBranch(c, b, r, m, d)
  BY DEF AlongBranch
<1>8. c.C \notin {250} => AlongRts(c, b, r, m, d)
  BY DEF AlongRts
<1>9. c.C \notin {254} => AlongRti(c, b, r, m, d)
  BY DEF AlongRti
<1>10. c.C \notin {255} => AlongBrk(c, b, r, m, d)
  BY DEF AlongBrk
<1>12. CASE c.C \in {0} /\ AlongLod(c, b, r, m, d)
  BY <1>1, <1>3, <1>4, <1>5, <1>6, <1>7, <1>8, <1>9, <1>10, <1>12 DEF Along
<1>13. CASE c.C \in {34, 35, 80} /\ AlongMov(c, b, r, m)
  BY <1>1, <1>2, <1>4, <1>5, <1>6, <1>7, <1>8, <1>9, <1>10, <1>13 DEF Along
<1>14. CASE c.C \in {120} /\ AlongAdc(c, b, r, m, d)
  BY <1>1, <1>2, <1>3, <1>5, <1>6, <1>7, <1>8, <1>9, <1>10, <1>14 DEF Along
<1>15. CASE c.C \in {2, 28, 18, 20} /\ AlongIndexed(c, b, r, m, d)
  BY <1>1, <1>2, <1>3, <1>4, <1>6, <1>7, <1>8, <1>9, <1>10, <1>15 DEF Along
<1>16. CASE c.C \in {17, 25, 244, 248} /\ AlongOperand(c, b, r, m, d)
  BY <1>1, <1>2, <1>3, <1>4, <1>5, <1>7, <1>8, <1>9, <1>10, <1>16 DEF Along
<1>17. CASE c.C \in {224, 236, 238, 241} /\ AlongBranch(c, b, r, m, d)
  BY <1>1, <1>2, <1>3, <1>4, <1>5, <1>6, <1>8, <1>9, <1>10, <1>17 DEF Along
<1>18. CASE c.C \in {250} /\ AlongRts(c, b, r, m, d)
  BY <1>1, <1>2, <1>3, <1>4, <1>5, <1>6, <1>7, <1>9, <1>10, <1>18 DEF Along
<1>19. CASE c.C \in {254} /\ AlongRti(c, b, r, m, d)
  BY <1>1, <1>2, <1>3, <1>4, <1>5, <1>6, <1>7, <1>8, <1>10, <1>19 DEF Along
<1>20. CASE c.C \in {255} /\ AlongBrk(c, b, r, m, d)
  BY <1>1, <1>2, <1>3, <1>4, <1>5, <1>6, <1>7, <1>8, <1>9, <1>20 DEF Along
<1> QED
  BY <1>12, <1>13, <1>14, <1>15, <1>16, <1>17, <1>18, <1>19, <1>20 DEF OnPath

(* A write to the output register clears latches and sets none.            *)
LatchesQuiet(irq) == \A i \in Inter : ~irq.in[i] /\ ~irq.out[i]

LEMMA ResetQuiet ==
  ASSUME NEW irq, GoodLatches(irq), LatchesQuiet(irq), NEW i \in Inter, NEW val \in BOOLEAN
  PROVE  LatchesQuiet(SetInterruptReset(irq, i, val))
BY DEF LatchesQuiet, SetInterruptReset, GoodLatches, Latches, Inter, INTER_0, INTER_1

LEMMA WriteIOQuiet ==
  ASSUME NEW b, GoodBus(b), LatchesQuiet(b.irq), NEW d, NEW select
  PROVE  LatchesQuiet(WriteIO(b, d, select).irq)
<1> DEFINE clock == HasBit(d, OUT_CLKINTRST)   key == HasBit(d, OUT_KEYINTRST)
           irq1 == SetInterruptReset(b.irq, INTER_0, clock)
           irq2 == SetInterruptReset(irq1, INTER_1, key)
<1>1. clock \in BOOLEAN /\ key \in BOOLEAN /\ INTER_0 \in Inter /\ INTER_1 \in Inter
  BY DEF HasBit, Inter
<1>2. GoodLatches(irq1) /\ LatchesQuiet(irq1)
  BY <1>1, ResetGood, ResetQuiet DEF GoodBus
<1> HIDE DEF clock, key, irq1
<1>3. LatchesQuiet(irq2)
  BY <1>1, <1>2, ResetQuiet
<1>4. CASE select = IO_OUTPUT
  <2>1. WriteIO(b, d, select) =
          [b EXCEPT !.irq = irq2, !.status_led = HasBit(d, OUT_STATUSLED),
                    !.host_clock = ~HasBit(d, OUT_KEYCLK),
                    !.host_data  = ~HasBit(d, OUT_KEYDAT)]
    BY <1>4 DEF WriteIO, GoodBus, BusFields, irq1, clock, key
  <2> HIDE DEF irq2
  <2> QED
    BY <1>3, <2>1 DEF GoodBus, BusFields
<1>5. CASE select # IO_OUTPUT
  BY <1>5 DEF WriteIO
<1> QED
  BY <1>4, <1>5

(* No clock latches an interrupt.                                          *)
LEMMA DrivenQuiet ==
  ASSUME GoodBus(bus), LatchesQuiet(bus.irq), NEW control, NEW address, NEW byte
  PROVE  LatchesQuiet(Driven(control, address, byte).irq)
<1>1. CASE "CI" \in control
  <2> DEFINE irq == ReadInterrupts(bus.irq)
  <2>1. Driven(control, address, byte) = [bus EXCEPT !.irq = irq]
    BY <1>1 DEF Driven
  <2>2. LatchesQuiet(irq)
    BY DEF LatchesQuiet, ReadInterrupts, GoodBus, GoodLatches, Latches
  <2> HIDE DEF irq
  <2>3. [bus EXCEPT !.irq = irq].irq = irq
    BY DEF GoodBus, BusFields
  <2> QED
    BY <2>1, <2>2, <2>3
<1>2. CASE "CI" \notin control /\ "MI" \in control
  <2>1. PICK stored :
          /\ GoodBus(stored) /\ stored.irq = bus.irq
          /\ WriteMemory(bus, byte, address) =
               IF WritesIO(address) THEN WriteIO(stored, byte, address % 8) ELSE stored
    BY StoreThenIO
  <2>2. Driven(control, address, byte) = WriteMemory(bus, byte, address)
    BY <1>2, Zenon DEF Driven
  <2> QED
    BY <2>1, <2>2, WriteIOQuiet
<1>3. CASE "CI" \notin control /\ "MI" \notin control
  BY <1>3 DEF Driven, SetBank, GoodBus, BusFields
<1> QED
  BY <1>1, <1>2, <1>3

(* Every clock of every defined opcode.                                    *)
LEMMA OpcodeStep ==
  ASSUME RefineInv, Clocked(Control), UNCHANGED <<dev_clock, dev_data>>, ~arch.regs.reset,
         arch.regs.C \in Opcodes
  PROVE  /\ \/ Proceeds /\ OnPath(cpu', bus', arch.regs, arch.bus, dev)
            \/ Starts /\ Architecture!Next
         /\ "FD" \in Control => arch.regs.C = 254 /\ cpu.step = 0
<1> DEFINE o == arch.regs.C
<1>1. Proceeds => cpu'.C = o
  BY Running DEF Proceeds, Inside
<1>10. CASE o = 0
  BY <1>1, <1>10, LodImmStep DEF OnPath, Architecture!Next
<1>11. CASE o = 2
  BY <1>1, <1>11, LodBaseStep DEF OnPath, Architecture!Next
<1>12. CASE o = 28
  BY <1>1, <1>12, StoPtrStep DEF OnPath, Architecture!Next
<1>13. CASE o = 18
  BY <1>1, <1>13, LeaBaseStep DEF OnPath, Architecture!Next
<1>14. CASE o = 20
  BY <1>1, <1>14, LeaPtrStep DEF OnPath, Architecture!Next
<1>15. CASE o = 17
  BY <1>1, <1>15, LeaAdrStep DEF OnPath, Architecture!Next
<1>16. CASE o = 25
  BY <1>1, <1>16, StoAdrStep DEF OnPath, Architecture!Next
<1>17. CASE o = 34
  BY <1>1, <1>17, MovPBStep DEF OnPath, Architecture!Next
<1>18. CASE o = 35
  BY <1>1, <1>18, MovPSStep DEF OnPath, Architecture!Next
<1>19. CASE o = 80
  BY <1>1, <1>19, NopStep DEF OnPath, Architecture!Next
<1>20. CASE o = 120
  BY <1>1, <1>20, AdcImmStep DEF OnPath, Architecture!Next
<1>21. CASE o = 241
  BY <1>1, <1>21, BraStep DEF OnPath, Architecture!Next
<1>22. CASE o = 244
  BY <1>1, <1>22, JmpStep DEF OnPath, Architecture!Next
<1>23. CASE o = 248
  BY <1>1, <1>23, JsrStep DEF OnPath, Architecture!Next
<1>24. CASE o = 250
  BY <1>1, <1>24, RtsStep DEF OnPath, Architecture!Next
<1>25. CASE o = 254
  BY <1>1, <1>25, RtiStep DEF OnPath, Architecture!Next
<1>26. CASE o = 255
  BY <1>1, <1>26, BrkStep DEF OnPath, Architecture!Next
<1>30. CASE o \in {224, 236, 238}
  <2>1. Architecture!Branch(Taken(arch.regs)) => Architecture!Next
    BY <1>30, BranchTaken DEF Architecture!Next
  <2> QED
    BY <1>1, <1>30, <2>1, BranchStep DEF OnPath
<1> QED
  BY <1>10, <1>11, <1>12, <1>13, <1>14, <1>15, <1>16, <1>17, <1>18, <1>19, <1>20, <1>21, <1>22, <1>23,
     <1>24, <1>25, <1>26, <1>30 DEF Opcodes

(* Every clock keeps the invariant, and is a step of the instruction set   *)
(* or none.                                                                *)
LEMMA RefineStep ==
  ASSUME RefineInv, RtiFindsFlags, ProgramNext
  PROVE  RefineInv' /\ [Architecture!Next]_<<arch.regs, arch.bus, dev>>
<1> DEFINE r == arch.regs
<1>1. /\ Clocked(Control) /\ UNCHANGED <<dev_clock, dev_data>> /\ dev' = dev
  BY ClockIs DEF RefineInv, ProgramNext, dev
<1>2. /\ cpu' \in Registers /\ GoodBus(bus)' /\ GoodCells(bus)' /\ ProgramInv'
  BY ClockGood DEF RefineInv, ProgramInv, ProgramNext
<1>3. Quiet'
  <2>1. bus' = Driven(Control, AddressOut(Control), DataBus(Control, AddressOut(Control)))
    BY <1>1 DEF Clocked
  <2>2. GoodBus(bus) /\ LatchesQuiet(bus.irq)
    BY DEF RefineInv, ProgramInv, Quiet, LatchesQuiet
  <2>3. LatchesQuiet(bus'.irq)
    BY <2>1, <2>2, DrivenQuiet
  <2> QED
    BY <2>3 DEF Quiet, LatchesQuiet
<1>4. ASSUME Starts PROVE ArchInv' /\ AlongInv'
  <2>1. /\ arch'.regs \in Programmer /\ arch'.bus = bus'
    BY <1>2, <1>4, VisibleTyped, VisibleIs DEF Starts
  <2>2. Kept(cpu', arch'.regs, arch'.regs.I) /\ cpu'.C = arch'.regs.C /\ ~arch'.regs.reset
    BY <1>4, VisibleIs DEF Starts, Kept, Regs
  <2>3. Along(cpu', bus', arch'.regs, arch'.bus, dev)
    BY <1>4, <2>1, <2>2, AlongStarts DEF Starts
  <2> QED
    BY <1>1, <1>2, <2>1, <2>3 DEF ArchInv, AlongInv
<1>5. ASSUME arch' = arch PROVE ArchInv' /\ UNCHANGED <<arch.regs, arch.bus, dev>>
  BY <1>1, <1>5 DEF RefineInv, ArchInv
<1>10. CASE r.reset
  <2>1. /\ \/ cpu'.reset /\ arch' = arch /\ Booting(cpu', bus', arch.bus, dev)
           \/ Starts /\ Architecture!Reset
        /\ cpu'.F < 16
    BY <1>1, <1>10, ResetStep
  <2>2. CASE cpu'.reset /\ arch' = arch /\ Booting(cpu', bus', arch.bus, dev)
    <3>1. AlongInv'
      BY <1>1, <1>10, <2>2 DEF AlongInv, Along
    <3> QED
      BY <1>2, <1>3, <1>5, <2>1, <2>2, <3>1 DEF RefineInv
  <2>3. CASE Starts /\ Architecture!Reset
    BY <1>2, <1>3, <1>4, <2>1, <2>3 DEF RefineInv, Architecture!Next
  <2> QED
    BY <2>1, <2>2, <2>3
<1>11. CASE ~r.reset /\ r.C \notin Opcodes
  <2>1. cpu'.C = r.C /\ ~cpu'.reset /\ arch' = arch /\ bus' = bus /\ cpu'.F = cpu.F
    BY <1>1, <1>11, UndefinedStep
  <2>2. Along(cpu', bus', arch.regs, arch.bus, dev)
    BY <1>11, <2>1 DEF Along, Opcodes, AlongLod, AlongMov, AlongAdc, AlongIndexed, AlongOperand,
       AlongBranch, AlongRts,
       AlongRti, AlongBrk
  <2>3. AlongInv'
    BY <1>1, <2>1, <2>2 DEF AlongInv
  <2>4. cpu'.F < 16
    BY <2>1 DEF RefineInv
  <2> QED
    BY <1>2, <1>3, <1>5, <2>1, <2>3, <2>4 DEF RefineInv
<1>12. CASE ~r.reset /\ r.C \in Opcodes
  <2>1. /\ \/ Proceeds /\ OnPath(cpu', bus', arch.regs, arch.bus, dev)
           \/ Starts /\ Architecture!Next
        /\ "FD" \in Control => r.C = 254 /\ cpu.step = 0
    BY <1>1, <1>12, OpcodeStep
  <2>2. cpu.C = r.C /\ ~cpu.reset
    BY <1>12, Running
  <2>3. cpu'.F < 16
    <3>1. CASE "FD" \in Control
      <4>1. cpu.C = 254 /\ cpu.step = 0 /\ ~cpu.reset
        BY <2>1, <2>2, <3>1
      <4>2. Control = Peek({"FI", "FD"})
        BY <1>12, <2>2, <4>1, Running, ProgramWords
      <4>3. AddressOut(Control) = cpu.S
        BY <4>2 DEF RefineInv, ProgramInv, AddressOut, AddressBus, Registers, Word, Peek
      <4>4. DataBus(Control, cpu.S) = ReadMemory(bus, dev, cpu.S)
        BY <4>2 DEF DataBus, Peek
      <4>5. cpu'.F = ReadMemory(bus, dev, cpu.S)
        BY <1>1, <4>2, <4>3, <4>4 DEF Clocked, Peek
      <4> QED
        BY <4>1, <4>5 DEF RtiFindsFlags
    <3>2. CASE "FD" \notin Control
      BY <1>1, <3>2, FlagsFit DEF RefineInv
    <3> QED
      BY <3>1, <3>2
  <2>4. CASE Proceeds /\ OnPath(cpu', bus', arch.regs, arch.bus, dev)
    <3>1. arch' = arch /\ cpu'.step \in 1 .. 15 /\ cpu'.C = r.C /\ ~cpu'.reset
      BY <2>2, <2>4 DEF Proceeds, Inside
    <3>2. Along(cpu', bus', arch.regs, arch.bus, dev)
      BY <1>12, <2>4, <3>1, AlongOne
    <3>3. AlongInv'
      BY <1>1, <3>1, <3>2 DEF AlongInv
    <3> QED
      BY <1>2, <1>3, <1>5, <2>3, <3>1, <3>3 DEF RefineInv
  <2>5. CASE Starts /\ Architecture!Next
    BY <1>2, <1>3, <1>4, <2>3, <2>5 DEF RefineInv
  <2> QED
    BY <2>1, <2>4, <2>5
<1> QED
  BY <1>10, <1>11, <1>12

(* So does a stutter.                                                      *)
LEMMA RefineStays == RefineInv /\ RtiFindsFlags /\ [ProgramNext]_programVars =>
                       RefineInv' /\ [Architecture!Next]_<<arch.regs, arch.bus, dev>>
<1>1. CASE RefineInv /\ RtiFindsFlags /\ ProgramNext
  BY <1>1, RefineStep
<1>2. CASE RefineInv /\ UNCHANGED programVars
  <2>1. cpu' = cpu /\ bus' = bus /\ arch' = arch /\ dev' = dev
    BY <1>2 DEF programVars, cpuVars, dev
  <2>2. ProgramInv' /\ ArchInv' /\ Quiet' /\ AlongInv' /\ cpu'.F < 16
    BY <1>2, <2>1 DEF RefineInv, ProgramInv, ArchInv, Quiet, AlongInv
  <2> QED
    BY <2>1, <2>2 DEF RefineInv
<1> QED
  BY <1>1, <1>2

(* The power-on state maps to a processor in reset.                        *)
LEMMA RefineInit == ProgramInit => RefineInv /\ arch.regs.reset
<1> SUFFICES ASSUME ProgramInit PROVE RefineInv /\ arch.regs.reset
  OBVIOUS
<1>1. PICK image \in Images, rest \in Junk : bus = InitMemory(image, rest)
  BY DEF ProgramInit
<1>2. cpu \in Registers /\ cpu = PowerOn
  BY DEF ProgramInit, PowerOn, Registers, Byte, Word
<1>3. ProgramInv
  BY <1>1, <1>2, InitMemoryGood, InitCells DEF ProgramInv
<1>4. /\ arch.bus = bus /\ arch.regs.reset = TRUE /\ arch.regs \in Programmer
  <2>1. arch.regs = [reset |-> cpu.reset, A |-> cpu.A, K |-> cpu.K, C |-> cpu.C, F |-> cpu.F,
                     P |-> cpu.P, B |-> cpu.B, S |-> cpu.S, I |-> cpu.I] /\ arch.bus = bus
    BY DEF ProgramInit, Visible
  <2> QED
    BY <1>2, <2>1 DEF Programmer, Registers, PowerOn
<1>5. Booting(cpu, bus, arch.bus, dev)
  BY <1>1, <1>2, <1>4 DEF Booting, PowerOn, InitMemory
<1>6. Quiet
  BY <1>1 DEF Quiet, InitMemory, InitLatches
<1> QED
  BY <1>2, <1>3, <1>4, <1>5, <1>6 DEF RefineInv, ArchInv, AlongInv, Along, ProgramInv, PowerOn

(* The microcode implements the instruction set, for every flash image,    *)
(* program and content of fresh memory: every instruction has its whole    *)
(* effect on registers, memory, bank and output register and no other, the *)
(* reset sequence ends in a cleared processor at the reset vector, and     *)
(* nothing leaks to the next instruction through X, T or the step counter  *)
(* (microcode.src, cpu.c:46-126). The hypothesis is about the program: its *)
(* rti finds the flags byte of a brk on the stack. Without it the flags    *)
(* widen and select other opcodes' words.                                  *)
THEOREM ProgramImplementsIsa == ProgramSpec /\ []RtiFindsFlags => ImplementsIsa
<1> QED
  BY RefineInit, RefineStays, PTL DEF ProgramSpec, ImplementsIsa, Architecture!Spec

(* Under the same hypothesis the flags register never gets a fifth bit:    *)
(* the arithmetic unit changes only the four flags there are, and rti is   *)
(* the one instruction that loads F from memory (alu.c, cpu.c:67).         *)
THEOREM FlagsFitFrames == ProgramSpec /\ []RtiFindsFlags => []FlagsStayFourBits
<1>1. RefineInv => FlagsStayFourBits
  BY DEF RefineInv, FlagsStayFourBits
<1> QED
  BY <1>1, RefineInit, RefineStays, PTL DEF ProgramSpec

=============================================================================
