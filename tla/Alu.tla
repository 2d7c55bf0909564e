--------------------------------- MODULE Alu --------------------------------
(***************************************************************************)
(* The arithmetic unit (src/emulator/src/alu.c). A control word is the set *)
(* of the mnemonics that are active in it (hdr/control.h), the flags       *)
(* register an integer made of the bits of enum Flag.                      *)
(***************************************************************************)
EXTENDS Naturals, FiniteSets

FLAG_Z == 1
FLAG_N == 2
FLAG_C == 4
FLAG_I == 8

Flag(f, mask) == (f \div mask) % 2 = 1

WithFlag(f, mask, on) ==
  f - (IF Flag(f, mask) THEN mask ELSE 0) + (IF on THEN mask ELSE 0)

(* Bytes as sets of bit numbers, for the two bitwise operations.           *)
BitsOf(b) == {k \in 0 .. 7 : (b \div 2^k) % 2 = 1}
FromBits(s) ==
  LET Worth(k, n) == IF k \in s THEN n ELSE 0
  IN  Worth(0, 1) + Worth(1, 2) + Worth(2, 4) + Worth(3, 8)
      + Worth(4, 16) + Worth(5, 32) + Worth(6, 64) + Worth(7, 128)

(* The N and Z flags of a result; the other flags stay.                    *)
WithNZ(f, result) ==
  WithFlag(WithFlag(f, FLAG_N, result >= 128), FLAG_Z, result = 0)

(* Mutant of CarryOut: one too early.                                      *)
CarryEarly(sum) == sum >= 255

CarryOut(sum) == sum >= 256

(* calcALU: the byte on the result bus and the flags register afterwards.  *)
(* EC is the carry in of a sum; a right shift tests it against the flags,  *)
(* where it is never set, and shifts in 0.                                 *)
CalcALU(in_a, in_b, flags, control) ==
  LET a == IF "EZ" \in control THEN 0 ELSE in_a
      b == IF "EN" \in control THEN 255 - in_b ELSE in_b
      sum == a + b + (IF "EC" \in control THEN 1 ELSE 0)
      out == CASE "ES" \in control -> sum % 256
               [] "ER" \in control -> b \div 2
               [] "EA" \in control -> FromBits(BitsOf(a) \cap BitsOf(b))
               [] "EO" \in control -> FromBits(BitsOf(a) \cup BitsOf(b))
      carried == CASE "ES" \in control -> WithFlag(flags, FLAG_C, CarryOut(sum))
                   [] "ER" \in control -> WithFlag(flags, FLAG_C, b % 2 = 1)
                   [] OTHER            -> flags
  IN [out |-> out,
      flags |-> IF "FI" \in control /\ "FD" \notin control
                THEN WithNZ(carried, out) ELSE flags]

=============================================================================
