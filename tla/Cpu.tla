--------------------------------- MODULE Cpu --------------------------------
(***************************************************************************)
(* The emulated processor (src/emulator/src/cpu.c): one ClockCPU step is   *)
(* one microcode word. The word's mnemonics open one register onto each    *)
(* bus and load one register from each.                                    *)
(*                                                                         *)
(* Registers: A accumulator, X index, K bank, C opcode, F flags, and the   *)
(* pointers P, B base, S stack, I instruction, T transfer.                 *)
(***************************************************************************)
EXTENDS Memory, Microcode

VARIABLES
  cpu,   \* registers, step counter and reset line
  bus,   \* everything behind the buses: memory, latches, keyboard lines
  dev_clock, dev_data  \* the keyboard's end of its two lines

cpuVars == <<cpu, bus, dev_clock, dev_data>>

dev == [clock |-> dev_clock, data |-> dev_data]

Registers ==
  [step : 0 .. 15, reset : BOOLEAN, A : Byte, X : Byte, K : Byte, C : Byte, F : Byte,
   P : Word, B : Word, S : Word, I : Word, T : Word]

(* Static storage is zero; main calls resetCPU before the first clock.     *)
PowerOn ==
  [step |-> 0, reset |-> TRUE, A |-> 0, X |-> 0, K |-> 0, C |-> 0, F |-> 0,
   P |-> 0, B |-> 0, S |-> 0, I |-> 0, T |-> 0]

Low(w)  == w % 256
High(w) == w \div 256

Pending == \E i \in Inter : GetInterrupt(bus.irq, i)

(* The flags register is eight bits wide; in the ROM address its high half *)
(* falls on the opcode.                                                    *)
Control ==
  LET leak == cpu.F \div 16
      opcode == IF leak = 0 THEN cpu.C ELSE FromBits(BitsOf(cpu.C) \cup BitsOf(leak))
  IN ReadControl(cpu.step, cpu.F % 16, opcode, Pending, cpu.reset)

AddressBus(control) ==
  CASE "TO" \in control -> cpu.T
    [] "TO" \notin control /\ "PO" \in control -> cpu.P
    [] "TO" \notin control /\ "BO" \in control -> cpu.B
    [] "TO" \notin control /\ "SO" \in control -> cpu.S
    [] "TO" \notin control /\ "IO" \in control -> cpu.I

(* Mutant of AddressOut: the sum is not cut to 16 bits.                    *)
AddressCarried(control) ==
  LET index == IF "XZ" \in control THEN 0 ELSE cpu.X IN
  AddressBus(control) + (IF "XN" \in control THEN 65535 - index ELSE index)
   + (IF "XC" \in control THEN 1 ELSE 0)

AddressOut(control) ==
  LET index == IF "XZ" \in control THEN 0 ELSE cpu.X IN
  (AddressBus(control) + (IF "XN" \in control THEN 65535 - index ELSE index)
   + (IF "XC" \in control THEN 1 ELSE 0)) % 65536

DataBus(control, address) ==
  CASE "AO" \in control -> cpu.A
    [] "FO" \in control -> cpu.F
    [] "KO" \in control -> cpu.K
    [] "MO" \in control -> ReadMemory(bus, dev, address)
    [] "PL" \in control -> Low(cpu.P)
    [] "PH" \in control -> High(cpu.P)
    [] "BL" \in control -> Low(cpu.B)
    [] "BH" \in control -> High(cpu.B)
    [] "IL" \in control -> Low(cpu.I)
    [] "IH" \in control -> High(cpu.I)
    [] "HO" \in control -> 255
    [] OTHER            -> 0      \* ZO, or no register out

(* Mutants of NextStep and ResetLasts: the step counter stops at its last  *)
(* step, the fetch does not release the reset line.                        *)
StepStops(control)  == IF "CI" \in control THEN 0 ELSE IF cpu.step = 15 THEN 15 ELSE cpu.step + 1
ResetStays(control) == cpu.reset

(* The step counter and the reset line after one clock.                    *)
NextStep(control)   == IF "CI" \in control THEN 0 ELSE (cpu.step + 1) % 16
ResetLasts(control) == cpu.reset /\ "CI" \notin control

(* The registers after one clock.                                          *)
Loaded(control, address, byte) ==
  LET alu == CalcALU(cpu.A, byte, cpu.F, control) IN
  [cpu EXCEPT
     !.P = IF "PI" \in control THEN address ELSE @,
     !.B = IF "BI" \in control THEN address ELSE @,
     !.S = IF "SI" \in control THEN address ELSE @,
     !.I = IF "II" \in control THEN address ELSE @,
     !.F = IF "FI" \in control /\ "FD" \in control THEN byte
           ELSE IF "FI" \in control THEN alu.flags ELSE @,
     !.A = IF "AI" \in control THEN alu.out ELSE @,
     !.X = IF "XI" \in control THEN byte ELSE @,
     !.K = IF "KI" \in control THEN byte ELSE @,
     !.C = IF "CI" \in control THEN byte ELSE @,
     !.T = CASE "TL" \in control -> 256 * High(@) + byte
             [] "TH" \in control -> 256 * byte + Low(@)
             [] OTHER            -> @,
     !.reset = ResetLasts(control), !.step = NextStep(control)]

(* What the clock does behind the buses. The register in of a word is one  *)
(* field, so at most one of the three is there.                            *)
Driven(control, address, byte) ==
  IF "CI" \in control THEN [bus EXCEPT !.irq = ReadInterrupts(@)]
  ELSE IF "MI" \in control THEN WriteMemory(bus, byte, address)
  ELSE IF "KI" \in control THEN SetBank(bus, byte)
  ELSE bus

ClockCPU ==
  \E control \in {Control} : \E address \in {AddressOut(control)} :
    \E byte \in {DataBus(control, address)} :
      /\ cpu' = Loaded(control, address, byte)
      /\ bus' = Driven(control, address, byte)

(* This clock writes the output register, and so sets the keyboard lines.  *)
WritesLines == "MI" \in Control /\ HitsOutput(AddressOut(Control))

(* This clock ends an instruction.                                         *)
FetchesOpcode == "CI" \in Control

(* Mutant of ResetCPU: the step counter goes on.                           *)
ResetMidway == cpu' = [cpu EXCEPT !.reset = TRUE]

ResetCPU == cpu' = [cpu EXCEPT !.step = 0, !.reset = TRUE]

=============================================================================
