----------------------------- MODULE Interrupts -----------------------------
(***************************************************************************)
(* The interrupt latches of the emulated machine                           *)
(* (src/emulator/src/interrupt.c). A device pulse sets an input latch      *)
(* while its active low reset line is released; the CPU sees the input     *)
(* latches only as the copy it takes when it fetches an opcode.            *)
(*                                                                         *)
(* The latches are a record and every function of the file an operator on  *)
(* it, because one CPU clock calls several of them.                        *)
(***************************************************************************)

INTER_0 == 0   \* display (clock) interrupt
INTER_1 == 1   \* keyboard interrupt
Inter   == {INTER_0, INTER_1}

Latches == [in : [Inter -> BOOLEAN], out : [Inter -> BOOLEAN], reset : [Inter -> BOOLEAN]]

InitLatches ==
  [in    |-> [i \in Inter |-> FALSE],
   out   |-> [i \in Inter |-> FALSE],
   reset |-> [i \in Inter |-> FALSE]]

GetInterrupt(irq, i) == irq.out[i]

GenerateInterrupt(irq, i) ==
  IF irq.reset[i] THEN [irq EXCEPT !.in[i] = TRUE] ELSE irq

(* Mutant of SetInterruptReset: the latch keeps its interrupt.             *)
ResetLineOnly(irq, i, val) == [irq EXCEPT !.reset[i] = val]

SetInterruptReset(irq, i, val) ==
  [irq EXCEPT !.reset[i] = val, !.in[i] = @ /\ val]

ReadInterrupts(irq) == [irq EXCEPT !.out = irq.in]

=============================================================================
