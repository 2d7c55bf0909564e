--------------------------------- MODULE Isa --------------------------------
(***************************************************************************)
(* The instruction set as a programmer sees it: one step executes one      *)
(* whole instruction and fetches the next opcode. The index and transfer   *)
(* registers, the step counter and the control words do not exist here: no *)
(* instruction passes anything to the next one through them.               *)
(*                                                                         *)
(* The operand notation is that of the instruction names in                *)
(* src/microcode/microcode.src; regs has the registers a program can use.  *)
(***************************************************************************)
EXTENDS Memory, Alu, Sequences

VARIABLES regs, bus, dev

Read(address) == ReadMemory(bus, dev, address % 65536)

(* The bytes that follow the opcode.                                       *)
Imm == Read(regs.I + 1)
Adr == Read(regs.I + 1) + 256 * Read(regs.I + 2)
WordAt(address) == Read(address) + 256 * Read(address + 1)

(* Ends an instruction with the registers r and the memory b.              *)
Execute(r, b) ==
  /\ regs' = [r EXCEPT !.C = ReadMemory(b, dev, r.I)]
  /\ bus' = [b EXCEPT !.irq = ReadInterrupts(@)]
  /\ UNCHANGED dev

Advance(n) == (regs.I + n) % 65536

(* Pushes the bytes in order; the stack grows down, S is its last byte.    *)
Pushed(bytes) ==
  LET b[n \in 0 .. Len(bytes)] ==
        IF n = 0 THEN bus ELSE WriteMemory(b[n - 1], bytes[n], (regs.S + 65536 - n) % 65536)
  IN b[Len(bytes)]
Down(n) == (regs.S + 65536 - n) % 65536
Up(n)   == (regs.S + n) % 65536

Opcode(c) == ~regs.reset /\ regs.C = c

Load(value) ==
  Execute([regs EXCEPT !.A = value, !.F = WithNZ(@, value), !.I = Advance(2)], bus)

LodImm   == Opcode(0)  /\ Load(Imm)
LodBase  == Opcode(2)  /\ Load(Read(regs.B + Imm))
StoPtr   == Opcode(28) /\ Execute([regs EXCEPT !.I = Advance(2)],
                                  WriteMemory(bus, regs.A, (regs.P + Imm) % 65536))
StoAdr   == Opcode(25) /\ Execute([regs EXCEPT !.I = Advance(3)], WriteMemory(bus, regs.A, Adr))
LeaBase  == Opcode(18) /\ Execute([regs EXCEPT !.P = (regs.B + Imm) % 65536, !.I = Advance(2)], bus)
LeaPtr   == Opcode(20) /\ Execute([regs EXCEPT !.P = (@ + Imm) % 65536, !.I = Advance(2)], bus)
LeaAdr   == Opcode(17) /\ Execute([regs EXCEPT !.P = Adr, !.I = Advance(3)], bus)
MovPB    == Opcode(34) /\ Execute([regs EXCEPT !.B = regs.P, !.I = Advance(1)], bus)
MovPS    == Opcode(35) /\ Execute([regs EXCEPT !.S = regs.P, !.I = Advance(1)], bus)
Nop      == Opcode(80) /\ Execute([regs EXCEPT !.I = Advance(1)], bus)

AdcImm ==
  LET sum == regs.A + Imm + (IF Flag(regs.F, FLAG_C) THEN 1 ELSE 0) IN
  /\ Opcode(120)
  /\ Execute([regs EXCEPT !.A = sum % 256, !.I = Advance(2),
                          !.F = WithFlag(WithNZ(@, sum % 256), FLAG_C, sum >= 256)], bus)

(* brz, brg and bng skip Imm bytes when their condition holds.             *)
Positive == ~Flag(regs.F, FLAG_Z) /\ ~Flag(regs.F, FLAG_N)

Branch(taken) == Execute([regs EXCEPT !.I = Advance(2 + (IF taken THEN Imm ELSE 0))], bus)

Brz == Opcode(224) /\ Branch(Flag(regs.F, FLAG_Z))
Brg == Opcode(236) /\ Branch(Positive)
Bng == Opcode(238) /\ Branch(~Positive)
Bra == Opcode(241) /\ Execute([regs EXCEPT !.I = (@ + 65535 - Imm) % 65536], bus)
Jmp == Opcode(244) /\ Execute([regs EXCEPT !.I = Adr], bus)

(* A subroutine call pushes the address of its own last byte, and the      *)
(* return goes to the byte behind it.                                      *)
Jsr ==
  /\ Opcode(248)
  /\ Execute([regs EXCEPT !.S = Down(2), !.I = Adr],
             Pushed(<<Advance(2) \div 256, Advance(2) % 256>>))
Rts ==
  /\ Opcode(250)
  /\ Execute([regs EXCEPT !.S = Up(2), !.I = (WordAt(regs.S) + 1) % 65536], bus)

(* brk pushes what rti takes back, rti resumes behind the brk. The A of the *)
(* frame does not replace the handler's: rti leaves the bits of both.      *)
Frame == <<regs.K, regs.I \div 256, regs.I % 256, regs.A, regs.F>>
Brk ==
  /\ Opcode(255)
  /\ LET pushed == SetBank(Pushed(Frame), 0)
         vector == ReadMemory(pushed, dev, 65532) + 256 * ReadMemory(pushed, dev, 65533)
     IN Execute([regs EXCEPT !.S = Down(5), !.K = 0, !.I = vector], pushed)
Rti ==
  /\ Opcode(254)
  /\ Execute([regs EXCEPT !.F = Read(regs.S), !.K = Read(regs.S + 4), !.S = Up(5),
                          !.A = FromBits(BitsOf(@) \cup BitsOf(Read(regs.S + 1))),
                          !.I = (WordAt(regs.S + 2) + 1) % 65536],
             SetBank(bus, Read(regs.S + 4)))

(* A reset clears every register and starts at the reset vector.           *)
Cleared(vector) ==
  [reset |-> FALSE, A |-> 0, K |-> 0, C |-> 0, F |-> FLAG_Z,
   P |-> 0, B |-> 0, S |-> 0, I |-> vector]
Reset ==
  /\ regs.reset
  /\ LET banked == SetBank(bus, 0) IN
     Execute(Cleared(ReadMemory(banked, dev, 65530) + 256 * ReadMemory(banked, dev, 65531)), banked)

Next ==
  \/ LodImm \/ LodBase \/ StoPtr \/ StoAdr \/ LeaBase \/ LeaPtr \/ LeaAdr
  \/ MovPB \/ MovPS \/ Nop \/ AdcImm
  \/ Brz \/ Brg \/ Bng \/ Bra \/ Jmp \/ Jsr \/ Rts \/ Brk \/ Rti \/ Reset

Spec == regs.reset /\ [][Next]_<<regs, bus, dev>>

=============================================================================
