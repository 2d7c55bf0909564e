------------------------------- MODULE Chips --------------------------------
(***************************************************************************)
(* The chips of the circuit simulator (src/simulator/src/chip.c and        *)
(* chip-data.c): what each schedules in a nanosecond, from the levels and  *)
(* the changed marks of the nets on its pins. A chip is a record with its  *)
(* number in the circuit (id), its type and its in and out pins; its local *)
(* nets, the latched inputs of the clocked chips, are <<id, i>>.           *)
(*                                                                         *)
(* Pins are numbered from 0 as in the code. Nothing a chip does in a step  *)
(* changes what another reads in it, so a step is the sequence of updates  *)
(* it adds.                                                                *)
(***************************************************************************)
EXTENDS Schedule, Sequences, SequencesExt

CONSTANT Null  \* the pin that a definition assigns null

(* The slowest output is one of the adder's.                               *)
ASSUME ChipsAssumption == MaxDelay >= 27 /\ Null \notin Nets

(* The pins and the local nets of CHIP_DATA.                               *)
ChipData(in, out, local) == [in |-> in, out |-> out, local |-> local]

CHIP_DATA ==
  [CLK40M   |-> ChipData(1, 2, 0),  _74HC00  |-> ChipData(8, 4, 0),
   _74HC30  |-> ChipData(8, 1, 0),  _74HC02  |-> ChipData(8, 4, 0),
   _74HC04  |-> ChipData(6, 6, 0),  _74HC08  |-> ChipData(8, 4, 0),
   _74HC21  |-> ChipData(8, 2, 0),  _74HC32  |-> ChipData(8, 4, 0),
   _74HC86  |-> ChipData(8, 4, 0),  _74AC157 |-> ChipData(10, 4, 0),
   _74AC153 |-> ChipData(12, 2, 0), _74AC161 |-> ChipData(9, 5, 7),
   _74HC283 |-> ChipData(9, 5, 0),  _74HC377 |-> ChipData(10, 8, 9)]

Net(pin)   == <<0, pin.net>>
Val(c, i)  == level[Net(c.in[i])]
High(c, i) == Val(c, i) = 1
Moved(c, i) == Net(c.in[i]) \in changed
Rises(c, i) == Moved(c, i) /\ High(c, i)
OutVal(c, i) == level[Net(c.out[i])]
Bit(b)     == IF b THEN 1 ELSE 0

Out(c, i, v, d) ==
  [target |-> IF c.out[i] = Null THEN Null ELSE Net(c.out[i]), val |-> v, delay |-> d]

Local(c, i) == level[<<c.id, i>>]

(* f[i] for the pins i of f, in ascending order.                           *)
Each(f) ==
  FlattenSeq([k \in 1 .. 12 |-> IF k - 1 \in DOMAIN f THEN <<f[k - 1]>> ELSE <<>>])

(* Inputs copied into the local net of the same number.                    *)
Latch(c, S, d) ==
  Each([i \in {j \in S : Moved(c, j)} |->
          [target |-> <<c.id, i>>, val |-> Val(c, i), delay |-> d]])

-----------------------------------------------------------------------------
(* Gates: the inputs of an output are neighbours.                          *)
Gate == [_74HC00 |-> [width |-> 2, delay |-> 7],  _74HC02 |-> [width |-> 2, delay |-> 7],
         _74HC08 |-> [width |-> 2, delay |-> 7],  _74HC32 |-> [width |-> 2, delay |-> 7],
         _74HC86 |-> [width |-> 2, delay |-> 11], _74HC04 |-> [width |-> 1, delay |-> 9],
         _74HC21 |-> [width |-> 4, delay |-> 12], _74HC30 |-> [width |-> 8, delay |-> 10]]

InputsOf(c, i) == LET w == Gate[c.type].width IN i * w .. i * w + w - 1

GateVal(c, i) ==
  LET ones == {j \in InputsOf(c, i) : High(c, j)}
      all  == ones = InputsOf(c, i)
  IN  CASE c.type \in {"_74HC08", "_74HC21"}            -> Bit(all)
        [] c.type \in {"_74HC00", "_74HC30", "_74HC04"} -> Bit(~all)
        [] c.type = "_74HC32"                           -> Bit(ones # {})
        [] c.type = "_74HC02"                           -> Bit(ones = {})
        [] c.type = "_74HC86"                           -> Bit(ones # {} /\ ~all)

(* Mutant of GateMoves: a fall of an input is not noticed.                 *)
GateRises(c, i) == \E j \in InputsOf(c, i) : Rises(c, j)

GateMoves(c, i) == \E j \in InputsOf(c, i) : Moved(c, j)

StepGate(c) ==
  Each([i \in {j \in DOMAIN c.out : GateMoves(c, j)} |->
          Out(c, i, GateVal(c, i), Gate[c.type].delay)])

-----------------------------------------------------------------------------
stepCLK40M(c) ==
  IF High(c, 0) /\ (Moved(c, 0) \/ Net(c.out[0]) \in changed)
    THEN <<Out(c, 0, 1 - OutVal(c, 0), IF OutVal(c, 0) = 1 THEN 12 ELSE 13)>>
    ELSE <<>>

(* Multiplexers: off when one of the enable inputs is high; the selected   *)
(* input of output i is i + offset.                                        *)
Enables(c) == IF c.type = "_74AC157" THEN {9} ELSE {10, 11}
Selects(c) == IF c.type = "_74AC157" THEN {8} ELSE {8, 9}
Disabled(c) == \E e \in Enables(c) : High(c, e)

Offset(c) == IF c.type = "_74AC157" THEN 4 * Val(c, 8) ELSE 2 * Val(c, 8) + 4 * Val(c, 9)

(* Mutant of ChosenMoves: a rise of the selected input is not noticed.     *)
ChosenFalls(c, i) == Moved(c, i + Offset(c)) /\ ~High(c, i + Offset(c))

ChosenMoves(c, i) == Moved(c, i + Offset(c))

StepMux(c) ==
  LET Show(S, d) == Each([i \in S |-> Out(c, i, Val(c, i + Offset(c)), d)])
  IN  IF \E e \in Enables(c) : Rises(c, e)
        THEN Each([i \in DOMAIN c.out |-> Out(c, i, 0, 6)])
      ELSE IF Disabled(c) THEN <<>>
      ELSE IF \E s \in Selects(c) : Moved(c, s)
        THEN Show(DOMAIN c.out, IF c.type = "_74AC157" THEN 6 ELSE 7)
      ELSE Show({i \in DOMAIN c.out : ChosenMoves(c, i)}, IF c.type = "_74AC157" THEN 4 ELSE 6)

(* Mutant of Toggled: the ripple does not reach the last output.           *)
ToggledShort(c) == {i \in 0 .. 2 : \A j \in 0 .. i - 1 : OutVal(c, j) = 1}

Toggled(c) == {i \in 0 .. 3 : \A j \in 0 .. i - 1 : OutVal(c, j) = 1}

(* The count toggles the outputs up to the first that is low. The carry    *)
(* follows output 0 while the other three are high.                        *)
step74AC161Count(c) ==
  Each([i \in Toggled(c) |-> Out(c, i, 1 - OutVal(c, i), 5)]) \o
  (IF \A i \in 1 .. 3 : OutVal(c, i) = 1
     THEN <<Out(c, 4, 1 - OutVal(c, 0), 7)>> ELSE <<>>)

(* Mutant of Clocked: the clock counts even in clear.                      *)
ClockedInClear(c) == Rises(c, 8)

Clocked(c) == High(c, 7) /\ Rises(c, 8)

step74AC161(c) ==
  LET full == High(c, 6) /\ \A i \in 0 .. 3 : OutVal(c, i) = 1
  IN  Latch(c, 0 .. 4, 4) \o Latch(c, 5 .. 6, 2) \o
      (IF Moved(c, 7) /\ ~High(c, 7)
         THEN Each([i \in 0 .. 4 |-> Out(c, i, 0, IF i = 4 THEN 9 ELSE 6)])
       ELSE IF ~Clocked(c) THEN <<>>
       ELSE IF Local(c, 4) = 0
         THEN Each([i \in 0 .. 3 |-> Out(c, i, Local(c, i), 5)])
       ELSE IF Local(c, 5) = 1 /\ Local(c, 6) = 1 THEN step74AC161Count(c)
       ELSE <<>>) \o
      (IF High(c, 7) /\ Moved(c, 6) THEN <<Out(c, 4, Bit(full), 5)>> ELSE <<>>)

(* The 4 bit adder: carry in on input 8, carry out on output 4.            *)
SumVal(c, i) ==
  LET Nibble(j) == Val(c, j) + 2 * Val(c, j + 1) + 4 * Val(c, j + 2) + 8 * Val(c, j + 3)
  IN  ((Nibble(0) + Nibble(4) + Val(c, 8)) \div 2 ^ i) % 2

step74HC283(c) ==
  LET delay == IF Moved(c, 8) THEN <<19, 21, 23, 27, 23>> ELSE <<25, 25, 25, 25, 23>>
  IN  IF \E j \in 0 .. 8 : Moved(c, j)
        THEN Each([i \in 0 .. 4 |-> Out(c, i, SumVal(c, i), delay[i + 1])])
        ELSE <<>>

step74HC377(c) ==
  Latch(c, 0 .. 7, 5) \o Latch(c, {8}, 2) \o
  (IF Rises(c, 9) /\ Local(c, 8) = 0
     THEN Each([i \in 0 .. 7 |-> Out(c, i, Local(c, i), 13)]) ELSE <<>>)

stepChip(c) ==
  CASE c.type \in DOMAIN Gate               -> StepGate(c)
    [] c.type \in {"_74AC157", "_74AC153"}  -> StepMux(c)
    [] c.type = "CLK40M"                    -> stepCLK40M(c)
    [] c.type = "_74AC161"                  -> step74AC161(c)
    [] c.type = "_74HC283"                  -> step74HC283(c)
    [] c.type = "_74HC377"                  -> step74HC377(c)

=============================================================================
