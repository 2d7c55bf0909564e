-------------------------- MODULE SimulatorProofs ---------------------------
(***************************************************************************)
(* Proofs about the circuit simulator, for every definition, every net     *)
(* limit and every user: the types, that parser, chips and commands use    *)
(* the event schedule only as ScheduleSpec allows, so that what            *)
(* ScheduleProofs shows of the schedule holds of the simulator, and, where *)
(* no net has two drivers, that the chips settle on their functions.       *)
(*                                                                         *)
(* The inductive invariant adds to the types that the tokens are tokens,   *)
(* that a bus lies inside the net vector, that a chip has the pins and     *)
(* local nets of its type, and that no update is for a net behind the      *)
(* vector's end. What the pins point at it need not say: a chip steps only *)
(* when all of them are live.                                              *)
(*                                                                         *)
(* That the chips settle needs what holds in the middle of a nanosecond,   *)
(* when some chips' updates are added and others still to be (SettleInv,   *)
(* in the second half): where each output heads once the rest of the list  *)
(* is added, as long as the inputs it follows rest or move in this very    *)
(* nanosecond.                                                             *)
(***************************************************************************)
EXTENDS Simulator, ScheduleProofs, DataLemmas, FiniteSetTheorems

InCircuit(n) == n \in Wires => n[2] < Len(names)

Added == [target : Nets \cup {Null}, val : Level, delay : 1 .. MaxDelay]
AddedNow == {u \in Added : u.target # Null => InCircuit(u.target)}

NetName == STRING \cup {""}  \* the nets of a bus have none

Bus == [name : STRING, width : Nat \ {0}, net_idx : Nat]

IsSeq(s) == s \in Seq({s[k] : k \in DOMAIN s})

ChipOK(c, k) == /\ DOMAIN c = {"id", "type", "in", "out"}
                /\ c.id = k
                /\ c.type \in DOMAIN CHIP_DATA
                /\ DOMAIN c.in = 0 .. CHIP_DATA[c.type].in - 1
                /\ DOMAIN c.out = 0 .. CHIP_DATA[c.type].out - 1
                /\ Locals(c) \subseteq Nets

ParserInv == /\ tokens \in Seq(Token)
             /\ names \in Seq(NetName) /\ Len(names) <= NetMax
             /\ cap \in Nat \ {0}
             /\ bus_vec \in Seq(Bus)
             /\ \A k \in DOMAIN bus_vec :
                  bus_vec[k].net_idx + bus_vec[k].width <= Len(names)
             /\ IsSeq(chip_vec)
             /\ \A k \in DOMAIN chip_vec : ChipOK(chip_vec[k], k)

UpdatesInv == /\ todo \in Seq(AddedNow)
              /\ \A u \in updates : InCircuit(u.target)

SimInv == SimulatorTypeOK /\ ParserInv /\ UpdatesInv

-----------------------------------------------------------------------------
(* A chip of the circuit all of whose pins can be read and written.        *)
Steps(c) == ChipOK(c, c.id) /\ c.id \in Nat \ {0} /\ Wired(c)

(* The nets that a chip drives, and the updates that are its to add.       *)
Driven(c) == {Net(c.out[i]) : i \in {j \in Writes(c) : c.out[j] # Null}}
AddedBy(c) == {u \in AddedNow : u.target \in Driven(c) \cup Locals(c) \cup {Null}}
OutsOf(c) == {u \in AddedBy(c) : u.target \notin Locals(c)}
LatchesOf(c) == {u \in AddedBy(c) : u.target \in Locals(c)}

(* A live pin is a net of the circuit.                                     *)
LEMMA LiveNet ==
  ASSUME SimInv, NEW pin, Live(pin)
  PROVE  Net(pin) \in Wires /\ Net(pin) \in Nets /\ InCircuit(Net(pin))
<1>1. Len(names) \in Nat /\ Len(names) <= NetMax /\ NetMax \in Nat
  BY CircuitAssumption DEF SimInv, ParserInv
<1>2. pin.net \in 0 .. NetMax - 1 /\ pin.net < Len(names)
  BY <1>1 DEF Live
<1>3. Net(pin) \in Wires
  BY <1>2, CircuitAssumption DEF Net
<1> QED
  BY <1>2, <1>3, ScheduleAssumption DEF InCircuit, Net

(* What a chip reads are levels, ...                                       *)
LEMMA InputLevel ==
  ASSUME SimInv, NEW c, Steps(c), NEW i \in DOMAIN c.in
  PROVE  Val(c, i) \in Level
<1>1. Net(c.in[i]) \in Nets
  BY LiveNet DEF Steps, Wired
<1> QED
  BY <1>1 DEF Val, SimInv, SimulatorTypeOK, ScheduleTypeOK

LEMMA OutputLevel ==
  ASSUME SimInv, NEW c, Steps(c), NEW i \in ReadsBack(c)
  PROVE  OutVal(c, i) \in Level
<1>1. Net(c.out[i]) \in Nets
  BY LiveNet DEF Steps, Wired
<1> QED
  BY <1>1 DEF OutVal, SimInv, SimulatorTypeOK, ScheduleTypeOK

LEMMA LocalLevel ==
  ASSUME SimInv, NEW c, Steps(c), NEW i \in 0 .. CHIP_DATA[c.type].local - 1
  PROVE  Local(c, i) \in Level
<1>1. <<c.id, i>> \in Nets
  BY DEF Steps, ChipOK, Locals
<1> QED
  BY <1>1 DEF Local, SimInv, SimulatorTypeOK, ScheduleTypeOK

(* ... and what it writes are updates of nets of the circuit, dropped for  *)
(* a null pin, or of its own.                                              *)
LEMMA OutAdded ==
  ASSUME SimInv, NEW c, Steps(c), NEW i \in Writes(c), NEW v \in Level, NEW d \in 1 .. 27
  PROVE  Out(c, i, v, d) \in OutsOf(c)
<1>1. d \in 1 .. MaxDelay
  BY ChipsAssumption, ScheduleAssumption
<1>2. \A m \in Locals(c) : m[1] # 0 /\ m \in Nets
  BY DEF Locals, Steps, ChipOK
<1>3. CASE c.out[i] = Null
  BY <1>1, <1>2, <1>3, ChipsAssumption DEF Out, OutsOf, AddedBy, AddedNow, Added
<1>4. CASE c.out[i] # Null
  <2>1. Live(c.out[i])
    BY <1>4 DEF Steps, Wired
  <2>2. Net(c.out[i]) \in Nets /\ InCircuit(Net(c.out[i]))
    BY <2>1, LiveNet
  <2> QED
    BY <1>1, <1>2, <1>4, <2>2 DEF Out, OutsOf, AddedBy, AddedNow, Added, Driven, Net
<1> QED
  BY <1>3, <1>4

LEMMA LocalAdded ==
  ASSUME SimInv, NEW c, Steps(c), NEW i \in 0 .. CHIP_DATA[c.type].local - 1,
         NEW v \in Level, NEW d \in 1 .. 27
  PROVE  [target |-> <<c.id, i>>, val |-> v, delay |-> d] \in LatchesOf(c)
<1>1. d \in 1 .. MaxDelay
  BY ChipsAssumption, ScheduleAssumption
<1>2. <<c.id, i>> \in Nets
  BY DEF Steps, ChipOK, Locals
<1>3. <<c.id, i>> \notin Wires
  BY CircuitAssumption DEF Steps
<1> QED
  BY <1>1, <1>2, <1>3 DEF LatchesOf, AddedBy, AddedNow, Added, InCircuit, Locals

(* What is scheduled pin by pin is a sequence.                             *)
LEMMA EachType ==
  ASSUME NEW T, NEW f, \A i \in DOMAIN f : f[i] \in T
  PROVE  Each(f) \in Seq(T)
<1> DEFINE ss == [k \in 1 .. 12 |-> IF k - 1 \in DOMAIN f THEN <<f[k - 1]>> ELSE <<>>]
<1>1. ASSUME NEW k \in 1 .. 12
      PROVE  ss[k] \in Seq(T)
  <2>1. CASE k - 1 \in DOMAIN f
    <3>1. f[k - 1] \in T
      BY <2>1
    <3>2. <<f[k - 1]>> \in Seq(T)
      BY <3>1
    <3> QED
      BY <2>1, <3>2
  <2>2. CASE k - 1 \notin DOMAIN f
    BY <2>2
  <2> QED
    BY <2>1, <2>2
<1>2. ss \in Seq(Seq(T))
  <2>1. ss \in [1 .. 12 -> Seq(T)]
    BY <1>1
  <2> HIDE DEF ss
  <2> QED
    BY <2>1, FunctionIsSeq, 12 \in Nat
<1> HIDE DEF ss
<1>3. FlattenSeq(ss) \in Seq(T)
  BY <1>2, FlattenSeqType
<1> QED
  BY <1>3 DEF Each, ss

(* Copied inputs, and outputs given pin by pin, are a chip's own updates.  *)
LEMMA Latched ==
  ASSUME SimInv, NEW c, Steps(c), NEW S \in SUBSET DOMAIN c.in,
         S \subseteq 0 .. CHIP_DATA[c.type].local - 1, NEW d \in 1 .. 27
  PROVE  Latch(c, S, d) \in Seq(LatchesOf(c))
<1> DEFINE f == [i \in {j \in S : Moved(c, j)} |->
                   [target |-> <<c.id, i>>, val |-> Val(c, i), delay |-> d]]
<1>1. ASSUME NEW i \in DOMAIN f
      PROVE  f[i] \in LatchesOf(c)
  <2>1. i \in DOMAIN c.in /\ i \in 0 .. CHIP_DATA[c.type].local - 1
    OBVIOUS
  <2>2. Val(c, i) \in Level
    BY <2>1, InputLevel
  <2> QED
    BY <2>1, <2>2, LocalAdded
<1> HIDE DEF f
<1>2. Each(f) \in Seq(LatchesOf(c))
  BY <1>1, EachType
<1> QED
  BY <1>2 DEF Latch, f

LEMMA OutsAdded ==
  ASSUME SimInv, NEW c, Steps(c), NEW f,
         \A i \in DOMAIN f : /\ i \in Writes(c)
                             /\ \E v \in Level, d \in 1 .. 27 : f[i] = Out(c, i, v, d)
  PROVE  Each(f) \in Seq(OutsOf(c))
<1>1. \A i \in DOMAIN f : f[i] \in OutsOf(c)
  BY OutAdded
<1> QED
  BY <1>1, EachType

-----------------------------------------------------------------------------
(* Chip by chip, in the order of Chips.                                    *)
LEMMA GateDelay == \A t \in DOMAIN Gate : Gate[t].delay \in 1 .. 27
BY DEF Gate

LEMMA GatesAdd ==
  ASSUME SimInv, NEW c, Steps(c), c.type \in DOMAIN Gate
  PROVE  StepGate(c) \in Seq(OutsOf(c))
<1> DEFINE f == [i \in {j \in DOMAIN c.out : GateMoves(c, j)} |->
                   Out(c, i, GateVal(c, i), Gate[c.type].delay)]
<1>1. Gate[c.type].delay \in 1 .. 27
  BY GateDelay
<1>2. \A i : GateVal(c, i) \in Level
  BY DEF GateVal, Gate, Bit, Level
<1>3. DOMAIN c.out = Writes(c)
  BY DEF Writes, Gate
<1>4. \A i \in DOMAIN f : /\ i \in Writes(c)
                          /\ \E v \in Level, d \in 1 .. 27 : f[i] = Out(c, i, v, d)
  BY <1>1, <1>2, <1>3
<1> HIDE DEF f
<1>5. Each(f) \in Seq(OutsOf(c))
  BY <1>4, OutsAdded
<1> QED
  BY <1>5 DEF StepGate, f

LEMMA ClockAdds ==
  ASSUME SimInv, NEW c, Steps(c), c.type = "CLK40M"
  PROVE  stepCLK40M(c) \in Seq(OutsOf(c))
<1>1. 0 \in ReadsBack(c) /\ 0 \in Writes(c)
  BY DEF ReadsBack, Writes
<1>2. 1 - OutVal(c, 0) \in Level
  <2>1. OutVal(c, 0) \in Level
    BY <1>1, OutputLevel
  <2> QED
    BY <2>1 DEF Level
<1>3. ASSUME NEW d \in {12, 13}
      PROVE  <<Out(c, 0, 1 - OutVal(c, 0), d)>> \in Seq(OutsOf(c))
  <2>1. Out(c, 0, 1 - OutVal(c, 0), d) \in OutsOf(c)
    BY <1>1, <1>2, OutAdded
  <2> QED
    BY <2>1
<1>4. <<>> \in Seq(OutsOf(c))
  OBVIOUS
<1> QED
  BY <1>3, <1>4 DEF stepCLK40M

LEMMA MuxesAdd ==
  ASSUME SimInv, NEW c, Steps(c), c.type \in {"_74AC157", "_74AC153"}
  PROVE  StepMux(c) \in Seq(OutsOf(c))
<1> DEFINE Chosen(i) == i + Offset(c)
           f(S, d) == [i \in S |-> Out(c, i, Val(c, Chosen(i)), d)]
           off == [i \in DOMAIN c.out |-> Out(c, i, 0, 6)]
<1>1. DOMAIN c.out = Writes(c)
  BY DEF Writes
<1>2. DOMAIN c.in = 0 .. CHIP_DATA[c.type].in - 1 /\ DOMAIN c.out = 0 .. CHIP_DATA[c.type].out - 1
  BY DEF Steps, ChipOK
<1>3. ASSUME NEW i \in DOMAIN c.out
      PROVE  Val(c, Chosen(i)) \in Level
  <2>1. CASE c.type = "_74AC157"
    <3>1. i \in 0 .. 3 /\ DOMAIN c.in = 0 .. 9
      BY <1>2, <2>1 DEF CHIP_DATA, ChipData
    <3>2. Val(c, 8) \in {0, 1}
      BY <3>1, InputLevel DEF Level
    <3>3. Chosen(i) = i + 4 * Val(c, 8)
      BY <2>1 DEF Offset
    <3>4. Chosen(i) \in DOMAIN c.in
      BY <3>1, <3>2, <3>3
    <3> QED
      BY <3>4, InputLevel
  <2>2. CASE c.type = "_74AC153"
    <3>1. i \in 0 .. 1 /\ DOMAIN c.in = 0 .. 11
      BY <1>2, <2>2 DEF CHIP_DATA, ChipData
    <3>2. Val(c, 8) \in {0, 1} /\ Val(c, 9) \in {0, 1}
      BY <3>1, InputLevel DEF Level
    <3>3. Chosen(i) = i + (2 * Val(c, 8) + 4 * Val(c, 9))
      BY <2>2 DEF Offset
    <3>4. Chosen(i) \in DOMAIN c.in
      BY <3>1, <3>2, <3>3
    <3> QED
      BY <3>4, InputLevel
  <2> QED
    BY <2>1, <2>2
<1>4. ASSUME NEW S \in SUBSET DOMAIN c.out, NEW d \in 1 .. 27
      PROVE  Each(f(S, d)) \in Seq(OutsOf(c))
  <2> DEFINE g == f(S, d)
  <2>1. \A i \in DOMAIN g : /\ i \in Writes(c)
                            /\ \E v \in Level, e \in 1 .. 27 : g[i] = Out(c, i, v, e)
    <3> HIDE DEF Chosen
    <3> QED
      BY <1>1, <1>3
  <2> HIDE DEF g
  <2>2. Each(g) \in Seq(OutsOf(c))
    BY <2>1, OutsAdded
  <2> QED
    BY <2>2 DEF g
<1>5. Each(off) \in Seq(OutsOf(c))
  <2>1. \A i \in DOMAIN off : /\ i \in Writes(c)
                              /\ \E v \in Level, d \in 1 .. 27 : off[i] = Out(c, i, v, d)
    BY <1>1 DEF Level
  <2> HIDE DEF off
  <2> QED
    BY <2>1, OutsAdded
<1>6. <<>> \in Seq(OutsOf(c))
  OBVIOUS
<1>7. Each(f(DOMAIN c.out, IF c.type = "_74AC157" THEN 6 ELSE 7)) \in Seq(OutsOf(c))
  <2>1. (IF c.type = "_74AC157" THEN 6 ELSE 7) \in 1 .. 27
    OBVIOUS
  <2> HIDE DEF f
  <2> QED
    BY <1>4, <2>1, Zenon
<1>8. Each(f({i \in DOMAIN c.out : Moved(c, Chosen(i))},
            IF c.type = "_74AC157" THEN 4 ELSE 6)) \in Seq(OutsOf(c))
  <2>1. (IF c.type = "_74AC157" THEN 4 ELSE 6) \in 1 .. 27
    OBVIOUS
  <2>2. {i \in DOMAIN c.out : Moved(c, Chosen(i))} \in SUBSET DOMAIN c.out
    OBVIOUS
  <2> HIDE DEF f
  <2> QED
    BY <1>4, <2>1, <2>2, Zenon
<1> QED
  BY <1>5, <1>6, <1>7, <1>8 DEF StepMux, ChosenMoves

(* The counter's outputs: what clear and the clock do, and the carry that  *)
(* follows its enable.                                                     *)
CounterActs(c) ==
  IF Moved(c, 7) /\ ~High(c, 7)
    THEN Each([i \in 0 .. 4 |-> Out(c, i, 0, IF i = 4 THEN 9 ELSE 6)])
  ELSE IF ~Clocked(c) THEN <<>>
  ELSE IF Local(c, 4) = 0 THEN Each([i \in 0 .. 3 |-> Out(c, i, Local(c, i), 5)])
  ELSE IF Local(c, 5) = 1 /\ Local(c, 6) = 1 THEN step74AC161Count(c)
  ELSE <<>>

CounterCarries(c) ==
  IF High(c, 7) /\ Moved(c, 6)
    THEN <<Out(c, 4, Bit(High(c, 6) /\ \A i \in 0 .. 3 : OutVal(c, i) = 1), 5)>>
    ELSE <<>>

LEMMA CounterOuts ==
  ASSUME SimInv, NEW c, Steps(c), c.type = "_74AC161"
  PROVE  CounterActs(c) \in Seq(OutsOf(c)) /\ CounterCarries(c) \in Seq(OutsOf(c))
<1> DEFINE S == Seq(OutsOf(c))
           full == High(c, 6) /\ \A i \in 0 .. 3 : OutVal(c, i) = 1
           toggle == [i \in Toggled(c) |-> Out(c, i, 1 - OutVal(c, i), 5)]
           clear  == [i \in 0 .. 4 |-> Out(c, i, 0, IF i = 4 THEN 9 ELSE 6)]
           load   == [i \in 0 .. 3 |-> Out(c, i, Local(c, i), 5)]
<1>1. DOMAIN c.in = 0 .. 8 /\ DOMAIN c.out = 0 .. 4
  BY DEF Steps, ChipOK, CHIP_DATA, ChipData
<1>2. Writes(c) = 0 .. 4 /\ ReadsBack(c) = 0 .. 3 /\ CHIP_DATA[c.type].local = 7
  BY <1>1 DEF Writes, ReadsBack, CHIP_DATA, ChipData
<1>3. \A i \in 0 .. 3 : OutVal(c, i) \in Level /\ 1 - OutVal(c, i) \in Level
  <2>1. \A i \in 0 .. 3 : OutVal(c, i) \in Level
    BY <1>2, OutputLevel
  <2> QED
    BY <2>1 DEF Level
<1>4. \A i \in 0 .. 6 : Local(c, i) \in Level
  BY <1>2, LocalLevel
<1>6. Each(clear) \in S
  <2>1. \A i \in DOMAIN clear : /\ i \in Writes(c)
                                /\ \E v \in Level, d \in 1 .. 27 : clear[i] = Out(c, i, v, d)
    BY <1>2 DEF Level
  <2> HIDE DEF clear
  <2> QED
    BY <2>1, OutsAdded
<1>7. Each(load) \in S
  <2>1. \A i \in DOMAIN load : /\ i \in Writes(c)
                               /\ \E v \in Level, d \in 1 .. 27 : load[i] = Out(c, i, v, d)
    BY <1>2, <1>4
  <2> HIDE DEF load
  <2> QED
    BY <2>1, OutsAdded
<1>8. Each(toggle) \in S
  <2>1. \A i \in DOMAIN toggle :
          /\ i \in Writes(c)
          /\ \E v \in Level, d \in 1 .. 27 : toggle[i] = Out(c, i, v, d)
    BY <1>2, <1>3 DEF Toggled
  <2> HIDE DEF toggle
  <2> QED
    BY <2>1, OutsAdded
<1>9. Out(c, 4, 1 - OutVal(c, 0), 7) \in OutsOf(c) /\ Out(c, 4, Bit(full), 5) \in OutsOf(c)
  <2>1. Bit(full) \in Level
    BY DEF Bit, Level
  <2>2. /\ 4 \in Writes(c) /\ 7 \in 1 .. 27 /\ 5 \in 1 .. 27
        /\ 1 - OutVal(c, 0) \in Level
    BY <1>2, <1>3
  <2> HIDE DEF full, S, toggle, clear, load
  <2> QED
    BY <2>1, <2>2, OutAdded
<1>10. <<>> \in S /\ \A x \in OutsOf(c) : <<x>> \in S
  OBVIOUS
<1>11. \A s, t \in S : s \o t \in S
  OBVIOUS
<1>12. step74AC161Count(c) \in S
  <2> HIDE DEF S, toggle
  <2>1. (IF \A i \in 1 .. 3 : OutVal(c, i) = 1
          THEN <<Out(c, 4, 1 - OutVal(c, 0), 7)>> ELSE <<>>) \in S
    BY <1>9, <1>10
  <2> QED
    BY <1>8, <1>11, <2>1 DEF step74AC161Count, toggle
<1>13. CounterActs(c) \in S /\ CounterCarries(c) \in S
  <2> HIDE DEF S, clear, load, full
  <2> QED
    BY <1>6, <1>7, <1>9, <1>10, <1>12 DEF CounterActs, CounterCarries, clear, load, full
<1> QED
  BY <1>13

LEMMA CounterParts ==
  ASSUME SimInv, NEW c, Steps(c), c.type = "_74AC161"
  PROVE  /\ Latch(c, 0 .. 4, 4) \in Seq(LatchesOf(c)) /\ Latch(c, 5 .. 6, 2) \in Seq(LatchesOf(c))
         /\ step74AC161(c) = Latch(c, 0 .. 4, 4) \o Latch(c, 5 .. 6, 2)
                             \o CounterActs(c) \o CounterCarries(c)
<1>1. DOMAIN c.in = 0 .. 8 /\ CHIP_DATA[c.type].local = 7
  BY DEF Steps, ChipOK, CHIP_DATA, ChipData
<1>2. \A T \in {0 .. 4, 5 .. 6} : /\ T \in SUBSET DOMAIN c.in
                             /\ T \subseteq 0 .. CHIP_DATA[c.type].local - 1
  BY <1>1
<1>3. \A T \in {0 .. 4, 5 .. 6} : \A d \in 1 .. 27 : Latch(c, T, d) \in Seq(LatchesOf(c))
  BY <1>2, Latched
<1>4. Latch(c, 0 .. 4, 4) \in Seq(LatchesOf(c)) /\ Latch(c, 5 .. 6, 2) \in Seq(LatchesOf(c))
  BY <1>3
<1> QED
  BY <1>4 DEF step74AC161, CounterActs, CounterCarries

LEMMA CounterAdds ==
  ASSUME SimInv, NEW c, Steps(c), c.type = "_74AC161"
  PROVE  step74AC161(c) \in Seq(AddedBy(c))
<1> DEFINE S == Seq(AddedBy(c))
<1>1. Seq(OutsOf(c)) \subseteq S /\ Seq(LatchesOf(c)) \subseteq S
  BY DEF OutsOf, LatchesOf
<1>2. /\ Latch(c, 0 .. 4, 4) \in S /\ Latch(c, 5 .. 6, 2) \in S
      /\ CounterActs(c) \in S /\ CounterCarries(c) \in S
  BY <1>1, CounterOuts, CounterParts, Zenon
<1>3. \A s, t \in S : s \o t \in S
  OBVIOUS
<1> HIDE DEF S
<1>4. Latch(c, 0 .. 4, 4) \o Latch(c, 5 .. 6, 2) \in S
  BY <1>2, <1>3
<1>5. Latch(c, 0 .. 4, 4) \o Latch(c, 5 .. 6, 2) \o CounterActs(c) \in S
  BY <1>2, <1>3, <1>4
<1>6. step74AC161(c) \in S
  BY <1>2, <1>3, <1>5, CounterParts
<1> QED
  BY <1>6 DEF S

LEMMA SumLevel ==
  ASSUME SimInv, NEW c, Steps(c), c.type = "_74HC283", NEW i \in 0 .. 4
  PROVE  SumVal(c, i) \in Level
<1>1. \A j \in 0 .. 8 : Val(c, j) \in {0, 1}
  <2>1. DOMAIN c.in = 0 .. 8
    BY DEF Steps, ChipOK, CHIP_DATA, ChipData
  <2> QED
    BY <2>1, InputLevel DEF Level
<1> DEFINE Nibble(j) == Val(c, j) + 2 * Val(c, j + 1) + 4 * Val(c, j + 2) + 8 * Val(c, j + 3)
           sum == Nibble(0) + Nibble(4) + Val(c, 8)
<1>2. sum \in Nat
  BY <1>1
<1>3. SumVal(c, i) = (sum \div 2 ^ i) % 2
  BY DEF SumVal
<1> HIDE DEF sum
<1>4. 2 ^ i \in {1, 2, 4, 8, 16}
  <2>1. 2 ^ 0 = 1 /\ 2 ^ 1 = 2 /\ 2 ^ 2 = 4 /\ 2 ^ 3 = 8 /\ 2 ^ 4 = 16
    OBVIOUS
  <2>2. i \in {0, 1, 2, 3, 4}
    OBVIOUS
  <2> QED
    BY <2>1, <2>2
<1>5. \A p \in {1, 2, 4, 8, 16} : (sum \div p) % 2 \in {0, 1}
  BY <1>2
<1> QED
  BY <1>3, <1>4, <1>5 DEF Level

LEMMA AdderAdds ==
  ASSUME SimInv, NEW c, Steps(c), c.type = "_74HC283"
  PROVE  step74HC283(c) \in Seq(OutsOf(c))
<1> DEFINE delay == IF Moved(c, 8) THEN <<19, 21, 23, 27, 23>> ELSE <<25, 25, 25, 25, 23>>
           f == [i \in 0 .. 4 |-> Out(c, i, SumVal(c, i), delay[i + 1])]
<1>1. DOMAIN c.in = 0 .. 8 /\ DOMAIN c.out = 0 .. 4 /\ Writes(c) = DOMAIN c.out
  BY DEF Steps, ChipOK, CHIP_DATA, ChipData, Writes
<1>2. \A i \in 0 .. 4 : delay[i + 1] \in 1 .. 27
  OBVIOUS
<1>3. \A i \in 0 .. 4 : SumVal(c, i) \in Level
  BY SumLevel
<1>4. \A i \in DOMAIN f : /\ i \in Writes(c)
                          /\ \E v \in Level, d \in 1 .. 27 : f[i] = Out(c, i, v, d)
  <2> HIDE DEF delay
  <2> QED
    BY <1>1, <1>2, <1>3
<1> HIDE DEF f
<1>5. Each(f) \in Seq(OutsOf(c))
  BY <1>4, OutsAdded
<1>6. <<>> \in Seq(OutsOf(c))
  OBVIOUS
<1> QED
  BY <1>5, <1>6 DEF step74HC283, f

(* The register's outputs when it is clocked.                              *)
RegisterLoads(c) ==
  IF Rises(c, 9) /\ Local(c, 8) = 0
    THEN Each([i \in 0 .. 7 |-> Out(c, i, Local(c, i), 13)]) ELSE <<>>

LEMMA RegisterParts ==
  ASSUME SimInv, NEW c, Steps(c), c.type = "_74HC377"
  PROVE  /\ Latch(c, 0 .. 7, 5) \in Seq(LatchesOf(c)) /\ Latch(c, {8}, 2) \in Seq(LatchesOf(c))
         /\ RegisterLoads(c) \in Seq(OutsOf(c))
         /\ step74HC377(c) = Latch(c, 0 .. 7, 5) \o Latch(c, {8}, 2) \o RegisterLoads(c)
<1> DEFINE S == Seq(OutsOf(c))
           load == [i \in 0 .. 7 |-> Out(c, i, Local(c, i), 13)]
<1>1. DOMAIN c.in = 0 .. 9 /\ DOMAIN c.out = 0 .. 7
  BY DEF Steps, ChipOK, CHIP_DATA, ChipData
<1>2. Writes(c) = 0 .. 7 /\ CHIP_DATA[c.type].local = 9
  BY <1>1 DEF Writes, CHIP_DATA, ChipData
<1>3. Latch(c, 0 .. 7, 5) \in Seq(LatchesOf(c)) /\ Latch(c, {8}, 2) \in Seq(LatchesOf(c))
  <2>1. \A T \in {0 .. 7, {8}} : /\ T \in SUBSET DOMAIN c.in
                               /\ T \subseteq 0 .. CHIP_DATA[c.type].local - 1
    BY <1>1, <1>2
  <2>2. \A T \in {0 .. 7, {8}} : \A d \in 1 .. 27 : Latch(c, T, d) \in Seq(LatchesOf(c))
    BY <2>1, Latched
  <2> QED
    BY <2>2
<1>4. Each(load) \in S
  <2>1. \A i \in 0 .. 7 : Local(c, i) \in Level
    BY <1>2, LocalLevel
  <2>2. \A i \in DOMAIN load : /\ i \in Writes(c)
                               /\ \E v \in Level, d \in 1 .. 27 : load[i] = Out(c, i, v, d)
    BY <1>2, <2>1
  <2> HIDE DEF load
  <2> QED
    BY <2>2, OutsAdded
<1>5. <<>> \in S
  OBVIOUS
<1> HIDE DEF S
<1>6. RegisterLoads(c) \in S
  BY <1>4, <1>5 DEF RegisterLoads
<1> QED
  BY <1>3, <1>6 DEF step74HC377, RegisterLoads, S

LEMMA RegisterAdds ==
  ASSUME SimInv, NEW c, Steps(c), c.type = "_74HC377"
  PROVE  step74HC377(c) \in Seq(AddedBy(c))
<1> DEFINE S == Seq(AddedBy(c))
<1>1. Seq(OutsOf(c)) \subseteq S /\ Seq(LatchesOf(c)) \subseteq S
  BY DEF OutsOf, LatchesOf
<1>2. Latch(c, 0 .. 7, 5) \in S /\ Latch(c, {8}, 2) \in S /\ RegisterLoads(c) \in S
  BY <1>1, RegisterParts, Zenon
<1>3. \A s, t \in S : s \o t \in S
  OBVIOUS
<1> HIDE DEF S
<1>4. Latch(c, 0 .. 7, 5) \o Latch(c, {8}, 2) \in S
  BY <1>2, <1>3
<1>5. step74HC377(c) \in S
  BY <1>2, <1>3, <1>4, RegisterParts
<1> QED
  BY <1>5 DEF S

(* Whatever its type, a chip adds updates of nets of the circuit.          *)
LEMMA ChipsAdd ==
  ASSUME SimInv, NEW c, Steps(c)
  PROVE  stepChip(c) \in Seq(AddedBy(c))
<1>1. c.type \in DOMAIN CHIP_DATA
  BY DEF Steps, ChipOK
<1>2. \/ c.type \in DOMAIN Gate
      \/ c.type \in {"_74AC157", "_74AC153"}
      \/ c.type \in {"CLK40M", "_74AC161", "_74HC283", "_74HC377"}
  BY <1>1 DEF CHIP_DATA, Gate
<1>0. Seq(OutsOf(c)) \subseteq Seq(AddedBy(c))
  BY DEF OutsOf
<1>3. CASE c.type \in DOMAIN Gate
  BY <1>0, <1>3, GatesAdd DEF stepChip, Gate
<1>4. CASE c.type \in {"_74AC157", "_74AC153"}
  BY <1>0, <1>4, MuxesAdd DEF stepChip, Gate
<1>5. CASE c.type = "CLK40M"
  BY <1>0, <1>5, ClockAdds DEF stepChip, Gate
<1>6. CASE c.type = "_74AC161"
  BY <1>6, CounterAdds DEF stepChip, Gate
<1>7. CASE c.type = "_74HC283"
  BY <1>0, <1>7, AdderAdds DEF stepChip, Gate
<1>8. CASE c.type = "_74HC377"
  BY <1>8, RegisterAdds DEF stepChip, Gate
<1> QED
  BY <1>2, <1>3, <1>4, <1>5, <1>6, <1>7, <1>8

-----------------------------------------------------------------------------
(* Sequences of which only the length and the domain matter.               *)
LEMMA AppendIsSeq ==
  ASSUME NEW s, IsSeq(s), NEW e
  PROVE  /\ IsSeq(Append(s, e))
         /\ DOMAIN Append(s, e) = 1 .. Len(s) + 1
         /\ \A k \in DOMAIN s : Append(s, e)[k] = s[k]
         /\ Append(s, e)[Len(s) + 1] = e
<1> DEFINE R == {s[k] : k \in DOMAIN s}
           t == Append(s, e)
<1>1. s \in Seq(R)
  BY DEF IsSeq
<1> HIDE DEF R
<1>2. s \in Seq(R \cup {e})
  BY <1>1
<1>3. /\ t \in Seq(R \cup {e}) /\ Len(t) = Len(s) + 1 /\ DOMAIN t = 1 .. Len(s) + 1
      /\ \A k \in DOMAIN s : t[k] = s[k]
      /\ t[Len(s) + 1] = e
  BY <1>2
<1> HIDE DEF t
<1>4. IsSeq(t)
  <2> DEFINE Q == {t[k] : k \in DOMAIN t}
  <2>1. Len(s) + 1 \in Nat
    BY <1>1
  <2>2. t \in [1 .. Len(s) + 1 -> Q]
    BY <1>3
  <2> HIDE DEF Q
  <2>3. t \in Seq(Q)
    BY <2>1, <2>2, FunctionIsSeq
  <2> QED
    BY <2>3 DEF IsSeq, Q
<1> QED
  BY <1>3, <1>4 DEF t

LEMMA SameDomainIsSeq ==
  ASSUME NEW s, IsSeq(s), NEW t, t = [k \in DOMAIN s |-> t[k]]
  PROVE  IsSeq(t)
<1> DEFINE Q == {t[k] : k \in DOMAIN t}
<1>1. DOMAIN s = 1 .. Len(s) /\ Len(s) \in Nat
  BY DEF IsSeq
<1>2. t \in [1 .. Len(s) -> Q]
  BY <1>1
<1> HIDE DEF Q
<1>3. t \in Seq(Q)
  BY <1>1, <1>2, FunctionIsSeq
<1> QED
  BY <1>3 DEF IsSeq, Q

(* Where a name is found.                                                  *)
LEMMA FoundNet ==
  ASSUME SimInv, NEW name
  PROVE  findNet(name) \in 0 .. Len(names)
<1> DEFINE I == {k \in 1 .. Len(names) : names[k] = name}
<1>1. Len(names) \in Nat
  BY DEF SimInv, ParserInv
<1>2. findNet(name) = IF I # {} THEN Min(I) ELSE 0
  BY DEF findNet, SelectInSeq
<1>3. I \in SUBSET Nat /\ I \subseteq 0 .. Len(names)
  BY <1>1
<1>4. I # {} => Min(I) \in I
  <2> HIDE DEF I
  <2> QED
    BY <1>3, MinOfNats
<1>5. 0 \in 0 .. Len(names)
  BY <1>1
<1> HIDE DEF I
<1> QED
  BY <1>2, <1>3, <1>4, <1>5

LEMMA FoundBus ==
  ASSUME SimInv, NEW name, findBus(name) # 0
  PROVE  findBus(name) \in DOMAIN bus_vec
<1> DEFINE I == {k \in 1 .. Len(bus_vec) : bus_vec[k].name = name}
<1>1. Len(bus_vec) \in Nat /\ DOMAIN bus_vec = 1 .. Len(bus_vec)
  BY DEF SimInv, ParserInv
<1>2. findBus(name) = IF I # {} THEN Min(I) ELSE 0
  BY DEF findBus, SelectInSeq
<1>3. I \in SUBSET Nat /\ I \subseteq DOMAIN bus_vec
  BY <1>1
<1>4. I # {} => Min(I) \in I
  <2> HIDE DEF I
  <2> QED
    BY <1>3, MinOfNats
<1> HIDE DEF I
<1> QED
  BY <1>2, <1>3, <1>4

-----------------------------------------------------------------------------
(* However many nets are added, the vector that was doubled whenever it    *)
(* was full has room for them.                                             *)
LEMMA DoubledFits ==
  ASSUME NEW k \in Nat \ {0}, NEW n \in Nat
  PROVE  Doubled(k, n) \in Nat \ {0} /\ n <= Doubled(k, n)
<1> DEFINE T == Nat \ {0}
           Body(h, i) == IF i = 0 THEN k ELSE IF h[i - 1] < i THEN 2 * h[i - 1] ELSE h[i - 1]
           g == [i \in 1 .. n |-> [r \in T |-> IF r < i THEN 2 * r ELSE r]]
           room[i \in 0 .. n] == IF i = 0 THEN k
                                 ELSE IF room[i - 1] < i THEN 2 * room[i - 1] ELSE room[i - 1]
<1>1. \E h : h = [i \in 0 .. n |-> Body(h, i)]
  <2>1. g \in [1 .. n -> [T -> T]]
    OBVIOUS
  <2>2. PICK f \in [0 .. n -> T] : Table(f, n, k, g)
    <3> HIDE DEF g, T
    <3>1. k \in T
      BY DEF T
    <3> QED
      BY <2>1, <3>1, RecursionExists
  <2>3. ASSUME NEW i \in 0 .. n
        PROVE  f[i] = Body(f, i)
    <3>1. CASE i = 0
      BY <2>2, <3>1 DEF Table
    <3>2. CASE i # 0
      <4>1. i \in 1 .. n /\ f[i - 1] \in T
        BY <3>2
      <4>2. f[i] = g[i][f[i - 1]]
        BY <2>2, <4>1 DEF Table
      <4> QED
        BY <3>2, <4>1, <4>2
    <3> QED
      BY <3>1, <3>2
  <2>4. f = [i \in 0 .. n |-> Body(f, i)]
    BY <2>3
  <2> QED
    BY <2>4
<1>2. room = [i \in 0 .. n |-> Body(room, i)]
  BY <1>1
<1> HIDE DEF room
<1> DEFINE Fits2 == {i \in Nat : i <= n => room[i] \in Nat \ {0} /\ i <= room[i]}
<1>3. 0 \in Fits2
  BY <1>2
<1>4. ASSUME NEW i \in Nat, i \in Fits2
      PROVE  i + 1 \in Fits2
  <2> SUFFICES ASSUME i + 1 <= n
               PROVE  room[i + 1] \in Nat \ {0} /\ i + 1 <= room[i + 1]
    OBVIOUS
  <2>1. room[i] \in Nat \ {0} /\ i <= room[i]
    BY <1>4
  <2>2. room[i + 1] = IF room[i] < i + 1 THEN 2 * room[i] ELSE room[i]
    <3>1. room[i + 1] = Body(room, i + 1)
      <4> HIDE DEF Body
      <4> QED
        BY <1>2
    <3>2. i + 1 - 1 = i /\ i + 1 # 0
      OBVIOUS
    <3> QED
      BY <3>1, <3>2
  <2> QED
    BY <2>1, <2>2
<1>5. n \in Fits2
  <2> HIDE DEF Fits2
  <2> QED
    BY <1>3, <1>4, SetInduction
<1>6. Doubled(k, n) = room[n]
  BY DEF Doubled, room
<1> QED
  BY <1>5, <1>6

-----------------------------------------------------------------------------
(* Adding nets is a step of the schedule that drives them, and leaves the  *)
(* vector with room for them all.                                          *)
LEMMA AddNetsDrive ==
  ASSUME SimInv, UNCHANGED updates, NEW new \in Seq(NetName), NEW val \in Level,
         AddNets(new, val)
  PROVE  /\ Drive /\ ScheduleTypeOK'
         /\ names' \in Seq(NetName) /\ Len(names') = Len(names) + Len(new)
         /\ Len(names') <= NetMax /\ Len(names') <= cap' /\ cap' \in Nat \ {0}
         /\ \A n \in changed' : n[2] < Len(names')
         /\ \A n : InCircuit(n) => InCircuit(n)'
<1> DEFINE n == Len(names) + Len(new)
           nets == {0} \X (Len(names) .. n - 1)
<1>1. Len(names) \in Nat /\ Len(new) \in Nat /\ names \in Seq(NetName) /\ cap \in Nat \ {0}
  BY DEF SimInv, ParserInv
<1>2. /\ names' = names \o new /\ n <= NetMax /\ cap' = Doubled(cap, n)
      /\ level' = [w \in Nets |-> IF w \in nets THEN val ELSE level[w]]
      /\ changed' = changed \cup nets
  BY DEF AddNets
<1>3. names' \in Seq(NetName) /\ Len(names') = n
  BY <1>1, <1>2
<1>4. cap' \in Nat \ {0} /\ n <= cap'
  BY <1>1, <1>2, DoubledFits
<1>5. nets \subseteq Wires
  <2>1. Len(names) .. n - 1 \subseteq 0 .. NetMax - 1
    BY <1>1, <1>2, CircuitAssumption
  <2> QED
    BY <2>1, CircuitAssumption
<1>6. level \in [Nets -> Level] /\ changed \subseteq Wires /\ updates \subseteq Update
  BY DEF SimInv, SimulatorTypeOK, ScheduleTypeOK
<1>7. ASSUME NEW w \in changed'
      PROVE  w[2] < Len(names')
  <2>1. CASE w \in changed
    <3>1. w[2] < Len(names) /\ w[2] \in Int
      BY <2>1, <1>6, CircuitAssumption DEF SimInv, SimulatorTypeOK
    <3> QED
      BY <3>1, <1>1, <1>3
  <2>2. CASE w \in nets
    BY <2>2, <1>1, <1>3
  <2> QED
    BY <1>2, <2>1, <2>2
<1>8. ASSUME NEW w, InCircuit(w)
      PROVE  InCircuit(w)'
  <2>1. w \in Wires => w[2] \in Int
    BY CircuitAssumption
  <2> QED
    BY <1>1, <1>3, <1>8, <2>1 DEF InCircuit
<1> HIDE DEF nets
<1>9. level' \in [Nets -> Level] /\ \A w \in Nets : level'[w] # level[w] => w \in changed'
  BY <1>2, <1>6
<1>10. changed \subseteq changed' /\ changed' \subseteq Wires
  BY <1>2, <1>5, <1>6
<1> QED
  BY <1>2, <1>3, <1>4, <1>6, <1>7, <1>8, <1>9, <1>10 DEF Drive, ScheduleTypeOK

(* What the user sets is a step of the schedule as well.                   *)
LEMMA SetNetsDrive ==
  ASSUME SimInv, NEW val, SetNets(val), DOMAIN val \subseteq {0} \X (0 .. Len(names) - 1),
         \A n \in DOMAIN val : val[n] \in Level
  PROVE  /\ Drive /\ ScheduleTypeOK'
         /\ \A n \in changed' : n[2] < Len(names)
<1>1. Len(names) \in Nat /\ Len(names) <= NetMax
  BY DEF SimInv, ParserInv
<1>2. {0} \X (0 .. Len(names) - 1) \subseteq Wires
  BY <1>1, CircuitAssumption
<1>3. level \in [Nets -> Level] /\ changed \subseteq Wires /\ updates \subseteq Update
  BY DEF SimInv, SimulatorTypeOK, ScheduleTypeOK
<1>4. /\ level' = [n \in Nets |-> IF n \in DOMAIN val THEN val[n] ELSE level[n]]
      /\ changed' = changed \cup {n \in DOMAIN val : level[n] # val[n]}
      /\ updates' = updates
  BY DEF SetNets
<1>5. level' \in [Nets -> Level] /\ \A n \in Nets : level'[n] # level[n] => n \in changed'
  BY <1>3, <1>4
<1>6. changed \subseteq changed' /\ changed' \subseteq Wires
  BY <1>2, <1>3, <1>4
<1>7. ASSUME NEW n \in changed'
      PROVE  n[2] < Len(names)
  BY <1>1, <1>4 DEF SimInv, SimulatorTypeOK
<1> QED
  BY <1>3, <1>4, <1>5, <1>6, <1>7 DEF Drive, ScheduleTypeOK

-----------------------------------------------------------------------------
LEMMA SimInvInit == Init => SimInv
<1> SUFFICES ASSUME Init
             PROVE  SimInv
  OBVIOUS
<1>1. /\ ScheduleInit /\ path \in DOMAIN Texts /\ tokens = Texts[path] /\ pc = "top"
      /\ names = <<>> /\ bus_vec = <<>> /\ chip_vec = <<>> /\ cap = NetCap /\ todo = <<>>
  BY DEF Init, CircuitInit
<1>2. SimulatorTypeOK
  BY <1>1, CircuitAssumption DEF SimulatorTypeOK, ScheduleInit, ScheduleTypeOK, Level
<1>3. ParserInv
  <2>1. IsSeq(<<>>)
    BY DEF IsSeq
  <2> QED
    BY <1>1, <2>1, CircuitAssumption DEF ParserInv
<1>4. UpdatesInv
  BY <1>1 DEF UpdatesInv, ScheduleInit
<1> QED
  BY <1>2, <1>3, <1>4 DEF SimInv

(* Most steps of the parser only move on in the text.                      *)
LEMMA SimInvKept ==
  ASSUME SimInv, UNCHANGED <<tokens, names, bus_vec, chip_vec, cap, level, changed, updates, todo>>,
         pc' \in {"top", "bus", "net", "chip", "pins", "idle", "nano", "abort", "quit", "undefined"},
         pc # "step"
  PROVE  SimInv'
<1>1. SimulatorTypeOK'
  BY DEF SimInv, SimulatorTypeOK, ScheduleTypeOK
<1>2. ParserInv'
  BY DEF SimInv, ParserInv
<1>3. UpdatesInv'
  BY DEF SimInv, UpdatesInv, AddedNow, InCircuit
<1> QED
  BY <1>1, <1>2, <1>3 DEF SimInv

LEMMA ParserMoves ==
  ASSUME SimInv, UNCHANGED todo, BeginSection \/ EndSection \/ EndOfFile \/ EndChip \/ (Unexpected /\ Abort)
  PROVE  SimInv' /\ UNCHANGED scheduleVars
<1>1. CASE BeginSection
  <2>1. pc' \in {"bus", "net", "chip"} /\ pc # "step"
    BY <1>1 DEF BeginSection
  <2> QED
    BY <1>1, <2>1, SimInvKept DEF BeginSection, scheduleVars
<1>2. CASE EndSection
  BY <1>2, SimInvKept DEF EndSection, scheduleVars
<1>3. CASE EndOfFile
  BY <1>3, SimInvKept DEF EndOfFile, scheduleVars
<1>4. CASE EndChip
  BY <1>4, SimInvKept DEF EndChip, scheduleVars
<1>5. CASE Unexpected /\ Abort
  <2>1. pc # "step"
    BY <1>5 DEF Unexpected
  <2> QED
    BY <1>5, <2>1, SimInvKept DEF Abort, scheduleVars
<1> QED
  BY <1>1, <1>2, <1>3, <1>4, <1>5

LEMMA TokenTyped ==
  ASSUME SimInv, NEW k
  PROVE  /\ Type(k) = "num" => Tok(k).num \in Nat
         /\ Type(k) = "symbol" => Tok(k).str \in STRING
<1>1. pos + k \in DOMAIN tokens => Tok(k) \in Token
  BY DEF SimInv, ParserInv, Tok
<1>2. Type(k) \in {"num", "symbol"} => pos + k \in DOMAIN tokens /\ Tok(k).type = Type(k)
  BY DEF Type
<1>3. \A t \in Token : /\ t.type = "num" => t.num \in Nat
                       /\ t.type = "symbol" => t.str \in STRING
  BY DEF Token
<1> QED
  BY <1>1, <1>2, <1>3

LEMMA NoNames ==
  ASSUME NEW width \in Nat
  PROVE  /\ [i \in 1 .. width |-> ""] \in Seq(NetName)
         /\ Len([i \in 1 .. width |-> ""]) = width
<1> DEFINE new == [i \in 1 .. width |-> ""]
<1>1. new \in [1 .. width -> NetName] /\ DOMAIN new = 1 .. width
  BY DEF NetName
<1> HIDE DEF new
<1>2. new \in Seq(NetName)
  BY <1>1, FunctionIsSeq
<1>3. Len(new) = width
  BY <1>1, <1>2
<1> QED
  BY <1>2, <1>3 DEF new

LEMMA BusDefInv ==
  ASSUME SimInv, parseBusDef, UNCHANGED todo
  PROVE  SimInv' /\ (Drive \/ UNCHANGED scheduleVars)
<1>1. /\ pc = "bus" /\ pc' = pc /\ Type(1) = "symbol" /\ Type(2) = "num"
      /\ UNCHANGED <<tokens, chip_vec, updates, todo>>
  BY DEF parseBusDef
<1>2. CASE Tok(2).num = 0
  BY <1>1, <1>2, SimInvKept DEF parseBusDef, scheduleVars
<1>3. CASE Tok(2).num # 0
  <2> DEFINE width == Tok(2).num
             new == [i \in 1 .. width |-> ""]
             bus == [name |-> Tok(1).str, width |-> width, net_idx |-> Len(names)]
  <2>1. width \in Nat \ {0} /\ Tok(1).str \in STRING
    BY <1>1, <1>3, TokenTyped
  <2>2. new \in Seq(NetName) /\ Len(new) = width
    BY <2>1, NoNames
  <2>3. AddNets(new, 0) /\ bus_vec' = Append(bus_vec, bus)
    BY <1>3 DEF parseBusDef
  <2>4. bus_vec \in Seq(Bus) /\ Len(names) \in Nat
    BY DEF SimInv, ParserInv
  <2>5. bus \in Bus /\ bus.net_idx + bus.width = Len(names) + Len(new)
    BY <2>1, <2>2, <2>4 DEF Bus
  <2> HIDE DEF new, bus
  <2>6. /\ Drive /\ ScheduleTypeOK'
        /\ names' \in Seq(NetName) /\ Len(names') = Len(names) + Len(new)
        /\ Len(names') <= NetMax /\ Len(names') <= cap' /\ cap' \in Nat \ {0}
        /\ \A n \in changed' : n[2] < Len(names')
        /\ \A n : InCircuit(n) => InCircuit(n)'
    BY <1>1, <2>2, <2>3, AddNetsDrive DEF Level
  <2>7. ASSUME NEW k \in DOMAIN bus_vec'
        PROVE  (bus_vec[k].net_idx + bus_vec[k].width <= Len(names))'
    <3>1. DOMAIN bus_vec' = 1 .. Len(bus_vec) + 1 /\ Len(bus_vec) \in Nat
          /\ DOMAIN bus_vec = 1 .. Len(bus_vec)
      BY <2>3, <2>4, <2>5
    <3>2. CASE k \in DOMAIN bus_vec
      <4>1. bus_vec'[k] = bus_vec[k] /\ bus_vec[k] \in Bus
        BY <2>3, <2>4, <2>5, <3>2
      <4>2. bus_vec[k].net_idx + bus_vec[k].width <= Len(names)
        BY <3>2 DEF SimInv, ParserInv
      <4>3. bus_vec[k].net_idx + bus_vec[k].width \in Nat
        BY <4>1 DEF Bus
      <4> QED
        BY <2>2, <2>4, <2>6, <4>1, <4>2, <4>3
    <3>3. CASE k = Len(bus_vec) + 1
      <4>1. bus_vec'[k] = bus
        BY <2>3, <2>4, <2>5, <3>3
      <4> QED
        BY <2>2, <2>4, <2>5, <2>6, <4>1
    <3> QED
      BY <3>1, <3>2, <3>3
  <2>8. ParserInv'
    <3>1. bus_vec' \in Seq(Bus)
      BY <2>3, <2>4, <2>5
    <3> QED
      BY <1>1, <2>6, <2>7, <3>1 DEF SimInv, ParserInv
  <2>9. SimulatorTypeOK'
    BY <1>1, <2>6 DEF SimInv, SimulatorTypeOK
  <2>10. UpdatesInv'
    <3>1. todo = <<>>
      BY <1>1 DEF SimInv, SimulatorTypeOK
    <3> QED
      BY <1>1, <2>6, <3>1 DEF SimInv, UpdatesInv
  <2> QED
    BY <2>6, <2>8, <2>9, <2>10 DEF SimInv
<1> QED
  BY <1>2, <1>3

LEMMA NetDefInv ==
  ASSUME SimInv, parseNetDef, UNCHANGED todo
  PROVE  SimInv' /\ Drive
<1>1. /\ pc = "net" /\ pc' = pc /\ Type(1) = "symbol"
      /\ UNCHANGED <<tokens, bus_vec, chip_vec, updates, todo>>
  BY DEF parseNetDef
<1>2. PICK val \in Level : AddNets(<<Tok(1).str>>, val)
  BY DEF parseNetDef, Level
<1>3. <<Tok(1).str>> \in Seq(NetName)
  <2>1. Tok(1).str \in NetName
    BY <1>1, TokenTyped DEF NetName
  <2> QED
    BY <2>1
<1>4. /\ Drive /\ ScheduleTypeOK'
      /\ names' \in Seq(NetName) /\ Len(names') = Len(names) + 1
      /\ Len(names') <= NetMax /\ Len(names') <= cap' /\ cap' \in Nat \ {0}
      /\ \A n \in changed' : n[2] < Len(names')
      /\ \A n : InCircuit(n) => InCircuit(n)'
  BY <1>1, <1>2, <1>3, AddNetsDrive
<1>5. SimulatorTypeOK'
  BY <1>1, <1>4 DEF SimInv, SimulatorTypeOK
<1>6. ASSUME NEW k \in DOMAIN bus_vec
      PROVE  (bus_vec[k].net_idx + bus_vec[k].width <= Len(names))'
  <2>1. bus_vec[k] \in Bus /\ Len(names) \in Nat
        /\ bus_vec[k].net_idx + bus_vec[k].width <= Len(names)
    BY DEF SimInv, ParserInv
  <2>2. bus_vec[k].net_idx + bus_vec[k].width \in Nat
    BY <2>1 DEF Bus
  <2> QED
    BY <1>1, <1>4, <2>1, <2>2
<1>7. ParserInv'
  BY <1>1, <1>4, <1>6 DEF SimInv, ParserInv
<1>8. UpdatesInv'
  <2>1. todo = <<>>
    BY <1>1 DEF SimInv, SimulatorTypeOK
  <2> QED
    BY <1>1, <1>4, <2>1 DEF SimInv, UpdatesInv
<1> QED
  BY <1>4, <1>5, <1>7, <1>8 DEF SimInv

LEMMA AddChipInv ==
  ASSUME SimInv, AddChip, UNCHANGED todo
  PROVE  SimInv' /\ UNCHANGED scheduleVars
<1> DEFINE c == initChip(Tok(1).str)
<1>1. /\ pc = "chip" /\ pc' = "pins" /\ Tok(1).str \in DOMAIN CHIP_DATA /\ Locals(c) \subseteq Nets
      /\ chip_vec' = Append(chip_vec, c)
      /\ UNCHANGED <<tokens, names, bus_vec, cap, level, changed, updates, todo>>
  BY DEF AddChip
<1>2. ChipOK(c, Len(chip_vec) + 1)
  BY <1>1 DEF ChipOK, initChip
<1>3. IsSeq(chip_vec) /\ DOMAIN chip_vec = 1 .. Len(chip_vec) /\ Len(chip_vec) \in Nat
  BY DEF SimInv, ParserInv, IsSeq
<1> HIDE DEF c
<1>4. IsSeq(chip_vec')
  BY <1>1, <1>3, AppendIsSeq
<1>5. ASSUME NEW k \in DOMAIN chip_vec'
      PROVE  ChipOK(chip_vec'[k], k)
  <2>1. CASE k \in DOMAIN chip_vec
    BY <1>1, <1>3, <2>1, AppendIsSeq DEF SimInv, ParserInv
  <2>2. CASE k \notin DOMAIN chip_vec
    <3>1. k = Len(chip_vec) + 1
      BY <1>1, <1>3, <2>2, AppendIsSeq
    <3> QED
      BY <1>1, <1>2, <1>3, <3>1, AppendIsSeq
  <2> QED
    BY <2>1, <2>2
<1>6. ParserInv'
  BY <1>1, <1>4, <1>5 DEF SimInv, ParserInv
<1>7. SimulatorTypeOK'
  BY <1>1 DEF SimInv, SimulatorTypeOK, ScheduleTypeOK
<1>8. UpdatesInv'
  BY <1>1 DEF SimInv, UpdatesInv, AddedNow, InCircuit
<1> QED
  BY <1>1, <1>6, <1>7, <1>8 DEF SimInv, scheduleVars

LEMMA AssignNetsInv ==
  ASSUME SimInv, assignNets, UNCHANGED todo
  PROVE  SimInv' /\ UNCHANGED scheduleVars
<1>1. CASE Abort
  BY <1>1, SimInvKept DEF assignNets, Abort, scheduleVars
<1>2. CASE ~Abort
  <2> DEFINE n == Len(chip_vec)
             pins == IF Type(1) = "in" THEN chip_vec[n].in ELSE chip_vec[n].out
  <2>1. PICK now :
          /\ DOMAIN now = DOMAIN pins
          /\ chip_vec' = IF Type(1) = "in" THEN [chip_vec EXCEPT ![n].in = now]
                                          ELSE [chip_vec EXCEPT ![n].out = now]
    BY <1>2 DEF assignNets, Assigned
  <2>2. /\ pc = "pins" /\ pc' \in {"pins", "undefined"}
        /\ UNCHANGED <<tokens, names, bus_vec, cap, level, changed, updates, todo>>
    BY <1>2 DEF assignNets
  <2>3. IsSeq(chip_vec) /\ DOMAIN chip_vec = 1 .. n /\ n \in Nat
    BY DEF SimInv, ParserInv, IsSeq
  <2>4. chip_vec' = [k \in DOMAIN chip_vec |-> chip_vec'[k]] /\ DOMAIN chip_vec' = DOMAIN chip_vec
    BY <2>1
  <2>5. ASSUME NEW k \in DOMAIN chip_vec'
        PROVE  ChipOK(chip_vec'[k], k)
    <3>1. ChipOK(chip_vec[k], k)
      BY <2>4 DEF SimInv, ParserInv
    <3>2. CASE k # n
      BY <2>1, <2>4, <3>1, <3>2
    <3>3. CASE k = n /\ Type(1) = "in"
      <4>1. chip_vec'[k] = [chip_vec[k] EXCEPT !.in = now]
        BY <2>1, <2>4, <3>3
      <4> QED
        BY <2>1, <3>1, <3>3, <4>1 DEF ChipOK, Locals
    <3>4. CASE k = n /\ Type(1) # "in"
      <4>1. chip_vec'[k] = [chip_vec[k] EXCEPT !.out = now]
        BY <2>1, <2>4, <3>4
      <4> QED
        BY <2>1, <3>1, <3>4, <4>1 DEF ChipOK, Locals
    <3> QED
      BY <3>2, <3>3, <3>4
  <2>6. IsSeq(chip_vec')
    BY <2>3, <2>4, SameDomainIsSeq
  <2>7. ParserInv'
    BY <2>2, <2>5, <2>6 DEF SimInv, ParserInv
  <2>8. SimulatorTypeOK'
    BY <2>2 DEF SimInv, SimulatorTypeOK, ScheduleTypeOK
  <2>9. UpdatesInv'
    BY <2>2 DEF SimInv, UpdatesInv, AddedNow, InCircuit
  <2> QED
    BY <2>2, <2>7, <2>8, <2>9 DEF SimInv, scheduleVars
<1> QED
  BY <1>1, <1>2

-----------------------------------------------------------------------------
(* A step of the circuit.                                                  *)
LEMMA StepChipsInv ==
  ASSUME SimInv, StepChips
  PROVE  SimInv' /\ UNCHANGED scheduleVars
<1>1. CASE ~AllWired
  BY <1>1, SimInvKept DEF StepChips, parserVars, scheduleVars
<1>2. CASE AllWired
  <2> DEFINE ss == [k \in DOMAIN chip_vec |-> stepChip(chip_vec[k])]
             S == Seq(AddedNow)
  <2>1. /\ pc = "nano" /\ pc' = "step" /\ todo' = FlattenSeq(ss)
        /\ UNCHANGED <<parserVars, scheduleVars>>
    BY <1>2 DEF StepChips
  <2>2. DOMAIN chip_vec = 1 .. Len(chip_vec) /\ Len(chip_vec) \in Nat
    BY DEF SimInv, ParserInv, IsSeq
  <2>3. ASSUME NEW k \in DOMAIN chip_vec
        PROVE  stepChip(chip_vec[k]) \in S
    <3>1. ChipOK(chip_vec[k], k) /\ Wired(chip_vec[k])
      BY <1>2 DEF SimInv, ParserInv, AllWired
    <3>2. k \in Nat \ {0}
      BY <2>2
    <3>3. Steps(chip_vec[k])
      BY <3>1, <3>2 DEF Steps, ChipOK
    <3>4. stepChip(chip_vec[k]) \in Seq(AddedBy(chip_vec[k]))
      BY <3>3, ChipsAdd
    <3> QED
      BY <3>4 DEF AddedBy
  <2>4. ss \in Seq(S)
    <3> HIDE DEF S
    <3>1. ss \in [1 .. Len(chip_vec) -> S]
      BY <2>2, <2>3
    <3> HIDE DEF ss
    <3> QED
      BY <2>2, <3>1, FunctionIsSeq
  <2> HIDE DEF ss
  <2>5. todo' \in Seq(AddedNow)
    BY <2>1, <2>4, FlattenSeqType
  <2>6. SimulatorTypeOK'
    <3>1. \A k \in DOMAIN todo' : todo'[k] \in Added
      BY <2>5 DEF AddedNow
    <3> QED
      BY <2>1, <3>1 DEF SimInv, SimulatorTypeOK, ScheduleTypeOK, scheduleVars, parserVars, Added
  <2>7. ParserInv'
    BY <2>1 DEF SimInv, ParserInv, parserVars
  <2>8. UpdatesInv'
    <3>1. AddedNow' = AddedNow /\ \A n : InCircuit(n)' = InCircuit(n)
      BY <2>1 DEF AddedNow, InCircuit, parserVars
    <3> QED
      BY <2>1, <2>5, <3>1 DEF SimInv, UpdatesInv, scheduleVars
  <2> QED
    BY <2>1, <2>6, <2>7, <2>8 DEF SimInv
<1> QED
  BY <1>1, <1>2

LEMMA AddUpdateInv ==
  ASSUME SimInv, AddUpdate
  PROVE  /\ SimInv'
         /\ (\E u \in updates' : u \in Update /\ addNetUpdate(u)) \/ UNCHANGED scheduleVars
<1> DEFINE u == Head(todo)
<1>1. /\ pc = "step" /\ todo # <<>> /\ todo' = Tail(todo)
      /\ UNCHANGED <<parserVars, pc>>
      /\ IF u.target = Null THEN UNCHANGED scheduleVars ELSE addNetUpdate(u)
  BY DEF AddUpdate
<1>2. todo \in Seq(AddedNow)
  BY DEF SimInv, UpdatesInv
<1>3. u \in AddedNow /\ todo' \in Seq(AddedNow)
  BY <1>1, <1>2
<1> HIDE DEF u
<1>4. u.target # Null => u \in Update /\ InCircuit(u.target)
  BY <1>3 DEF AddedNow, Added, Update
<1>5. (\E w \in updates' : w \in Update /\ addNetUpdate(w)) \/ UNCHANGED scheduleVars
  BY <1>1, <1>4 DEF addNetUpdate
<1>6. ScheduleTypeOK' /\ changed' = changed
      /\ \A w \in updates' : w \in updates \/ (w = u /\ u.target # Null)
  <2>1. CASE u.target = Null
    BY <1>1, <2>1 DEF SimInv, SimulatorTypeOK, ScheduleTypeOK, scheduleVars
  <2>2. CASE u.target # Null
    BY <1>1, <1>4, <2>2 DEF addNetUpdate, SimInv, SimulatorTypeOK, ScheduleTypeOK
  <2> QED
    BY <2>1, <2>2
<1>7. SimulatorTypeOK'
  <2>1. \A k \in DOMAIN todo' : todo'[k] \in Added
    BY <1>3 DEF AddedNow
  <2> QED
    BY <1>1, <1>6, <2>1 DEF SimInv, SimulatorTypeOK, parserVars, Added
<1>8. ParserInv'
  BY <1>1 DEF SimInv, ParserInv, parserVars
<1>9. UpdatesInv'
  <2>1. AddedNow' = AddedNow /\ \A n : InCircuit(n)' = InCircuit(n)
    BY <1>1 DEF AddedNow, InCircuit, parserVars
  <2> QED
    BY <1>3, <1>4, <1>6, <2>1 DEF SimInv, UpdatesInv
<1> QED
  BY <1>5, <1>7, <1>8, <1>9 DEF SimInv

LEMMA PassTimeInv ==
  ASSUME SimInv, SInv, PassTime
  PROVE  SimInv' /\ Pass
<1>1. pc = "step" /\ pc' = "nano" /\ todo = <<>> /\ Pass /\ UNCHANGED <<parserVars, todo>>
  BY DEF PassTime
<1>2. ScheduleTypeOK'
  BY <1>1, SInvNext DEF ScheduleNext, SInv
<1>3. \A n : InCircuit(n)' = InCircuit(n)
  BY <1>1 DEF InCircuit, parserVars
<1>4. ASSUME NEW n \in changed'
      PROVE  n[2] < Len(names)
  <2>1. n \in Wires /\ n \in Nets /\ Applied(n) # level[n]
    BY <1>1, ScheduleAssumption DEF Pass
  <2>2. PICK w \in Due : w.target = n
    BY <2>1, AppliedLevel
  <2> QED
    BY <2>1, <2>2 DEF Due, SimInv, UpdatesInv, InCircuit
<1>5. SimulatorTypeOK'
  BY <1>1, <1>2, <1>4 DEF SimInv, SimulatorTypeOK, parserVars
<1>6. ParserInv'
  BY <1>1 DEF SimInv, ParserInv, parserVars
<1>7. UpdatesInv'
  <2>1. \A u \in updates' : \E w \in updates : u.target = w.target
    BY <1>1, LaterShape DEF Pass
  <2> QED
    BY <1>1, <1>3, <2>1 DEF SimInv, UpdatesInv
<1> QED
  BY <1>1, <1>5, <1>6, <1>7 DEF SimInv

-----------------------------------------------------------------------------
(* The commands.                                                           *)
LEMMA SetInv ==
  ASSUME SimInv, pc = "idle", NEW val, SetNets(val),
         DOMAIN val \subseteq {0} \X (0 .. Len(names) - 1),
         \A n \in DOMAIN val : val[n] \in Level
  PROVE  SimInv' /\ Drive
<1>1. Drive /\ ScheduleTypeOK' /\ \A n \in changed' : n[2] < Len(names)
  BY SetNetsDrive
<1>2. UNCHANGED <<parserVars, updates, pc, todo>>
  BY DEF SetNets
<1>3. SimulatorTypeOK'
  BY <1>1, <1>2 DEF SimInv, SimulatorTypeOK, parserVars
<1>4. ParserInv'
  BY <1>2 DEF SimInv, ParserInv, parserVars
<1>5. UpdatesInv'
  BY <1>2 DEF SimInv, UpdatesInv, AddedNow, InCircuit, parserVars
<1> QED
  BY <1>1, <1>3, <1>4, <1>5 DEF SimInv

LEMMA CommandInv ==
  ASSUME SimInv, enterInterface
  PROVE  SimInv' /\ (Drive \/ UNCHANGED scheduleVars)
<1> DEFINE Result == SimInv' /\ (Drive \/ UNCHANGED scheduleVars)
<1>1. PICK c : /\ pc = "idle"
               /\ \/ runCommandNano(c) \/ setBus(c) \/ setNet(c) \/ setNetOfBus(c)
                  \/ runCommandQuit \/ Refuse
  BY DEF enterInterface
<1>2. Len(names) \in Nat
  BY DEF SimInv, ParserInv
<1>3. ASSUME NEW k \in DOMAIN bus_vec
      PROVE  /\ bus_vec[k].width \in Nat \ {0} /\ bus_vec[k].net_idx \in Nat
             /\ bus_vec[k].net_idx + bus_vec[k].width <= Len(names)
  <2>1. bus_vec[k] \in Bus /\ bus_vec[k].net_idx + bus_vec[k].width <= Len(names)
    BY DEF SimInv, ParserInv
  <2> QED
    BY <2>1 DEF Bus
<1>4. CASE Refuse
  BY <1>1, <1>4, SimInvKept DEF Refuse, parserVars, scheduleVars
<1>5. CASE runCommandNano(c)
  BY <1>1, <1>5, SimInvKept DEF runCommandNano, parserVars, scheduleVars
<1>6. CASE runCommandQuit
  BY <1>1, <1>6, SimInvKept DEF runCommandQuit, parserVars, scheduleVars
<1>7. CASE setBus(c)
  <2> DEFINE k == findBus(c.name)
             first == bus_vec[k].net_idx
             nets == {0} \X (first .. first + bus_vec[k].width - 1)
             val == [n \in nets |-> Bit((c.num \div 2 ^ (n[2] - first)) % 2 = 1)]
  <2>1. CASE Refuse
    BY <1>4, <2>1
  <2>2. CASE k # 0 /\ SetNets(val)
    <3>1. k \in DOMAIN bus_vec
      BY <2>2, FoundBus
    <3>2. DOMAIN val \subseteq {0} \X (0 .. Len(names) - 1)
      <4>1. first \in Nat /\ bus_vec[k].width \in Nat /\ first + bus_vec[k].width <= Len(names)
        BY <1>3, <3>1
      <4> HIDE DEF k
      <4>2. first .. first + bus_vec[k].width - 1 \subseteq 0 .. Len(names) - 1
        BY <1>2, <4>1
      <4> QED
        BY <4>2
    <3>3. \A n \in DOMAIN val : val[n] \in Level
      BY DEF Bit, Level
    <3> HIDE DEF val
    <3> QED
      BY <1>1, <2>2, <3>2, <3>3, SetInv
  <2> QED
    BY <1>7, <2>1, <2>2 DEF setBus
<1>8. CASE setNet(c)
  <2> DEFINE k == findNet(c.name)
             val == [n \in {<<0, k - 1>>} |-> c.num]
  <2>1. CASE Refuse
    BY <1>4, <2>1
  <2>2. CASE k # 0 /\ c.num \in Level /\ SetNets(val)
    <3>1. k - 1 \in 0 .. Len(names) - 1
      BY <1>2, <2>2, FoundNet
    <3>2. DOMAIN val \subseteq {0} \X (0 .. Len(names) - 1)
      BY <3>1
    <3>3. \A n \in DOMAIN val : val[n] \in Level
      BY <2>2
    <3> HIDE DEF val
    <3> QED
      BY <1>1, <2>2, <3>2, <3>3, SetInv
  <2> QED
    BY <1>8, <2>1, <2>2 DEF setNet
<1>9. CASE setNetOfBus(c)
  <2> DEFINE k == findBus(c.name)
             val == [n \in {<<0, bus_vec[k].net_idx + c.idx>>} |-> c.num]
  <2>1. CASE Refuse
    BY <1>4, <2>1
  <2>2. CASE /\ k # 0 /\ c.idx \in 0 .. bus_vec[k].width - 1 /\ c.num \in Level
             /\ SetNets(val)
    <3>1. k \in DOMAIN bus_vec
      BY <2>2, FoundBus
    <3>2. bus_vec[k].net_idx + c.idx \in 0 .. Len(names) - 1
      <4>1. bus_vec[k].net_idx \in Nat /\ bus_vec[k].width \in Nat
            /\ bus_vec[k].net_idx + bus_vec[k].width <= Len(names)
        BY <1>3, <3>1
      <4> HIDE DEF k
      <4> QED
        BY <1>2, <2>2, <4>1
    <3>3. DOMAIN val \subseteq {0} \X (0 .. Len(names) - 1)
      BY <3>2
    <3>4. \A n \in DOMAIN val : val[n] \in Level
      BY <2>2
    <3> HIDE DEF val
    <3> QED
      BY <1>1, <2>2, <3>3, <3>4, SetInv
  <2> QED
    BY <1>9, <2>1, <2>2 DEF setNetOfBus
<1> QED
  BY <1>1, <1>4, <1>5, <1>6, <1>7, <1>8, <1>9

-----------------------------------------------------------------------------
(* Every step keeps the invariant and is one of the schedule's.            *)
LEMMA SimStep ==
  ASSUME SimInv, SInv, Next
  PROVE  SimInv' /\ (ScheduleNext \/ UNCHANGED scheduleVars)
<1>1. CASE initCircuit /\ UNCHANGED <<todo, count, typed>>
  <2>1. CASE BeginSection \/ EndSection \/ EndOfFile \/ EndChip \/ (Unexpected /\ Abort)
    BY <1>1, <2>1, ParserMoves
  <2>2. CASE parseBusDef
    BY <1>1, <2>2, BusDefInv DEF ScheduleNext
  <2>3. CASE parseNetDef
    BY <1>1, <2>3, NetDefInv DEF ScheduleNext
  <2>4. CASE AddChip
    BY <1>1, <2>4, AddChipInv
  <2>5. CASE assignNets
    BY <1>1, <2>5, AssignNetsInv
  <2> QED
    BY <1>1, <2>1, <2>2, <2>3, <2>4, <2>5 DEF initCircuit
<1>2. CASE StepChips
  BY <1>2, StepChipsInv
<1>3. CASE AddUpdate
  BY <1>3, AddUpdateInv DEF ScheduleNext
<1>4. CASE PassTime
  BY <1>4, PassTimeInv DEF ScheduleNext
<1>5. CASE EndNano
  BY <1>5, SimInvKept DEF EndNano, parserVars, scheduleVars
<1>6. CASE enterInterface
  BY <1>6, CommandInv DEF ScheduleNext
<1> QED
  BY <1>1, <1>2, <1>3, <1>4, <1>5, <1>6 DEF Next

LEMMA SimInvStutter ==
  ASSUME SimInv, UNCHANGED simulatorVars
  PROVE  SimInv' /\ UNCHANGED scheduleVars
<1>1. UNCHANGED <<tokens, names, bus_vec, chip_vec, cap, level, changed, updates, todo, pc>>
  BY DEF simulatorVars, circuitVars
<1> QED
  BY <1>1 DEF SimInv, SimulatorTypeOK, ScheduleTypeOK, ParserInv, UpdatesInv, AddedNow,
              InCircuit, scheduleVars

LEMMA SimInvAlways == Spec => [](SimInv /\ SInv)
<1>1. Init => SimInv /\ SInv
  BY SimInvInit, SInvInit DEF Init, CircuitInit
<1>2. SimInv /\ SInv /\ [Next]_simulatorVars => (SimInv /\ SInv)'
  BY SimStep, SimInvStutter, SInvNext
<1> QED
  BY <1>1, <1>2, PTL DEF Spec

(* For every definition, net limit and user: the net vector has room for   *)
(* every net, no marked net lies behind its end, no update has a delay     *)
(* outside 1 .. MaxDelay or a net that does not exist, and no list of      *)
(* updates outlives its nanosecond (net.c:69-84, circuit.c:259-310,        *)
(* chip.c:90-356).                                                         *)
THEOREM SimulatorTypes == Spec => []SimulatorTypeOK
<1>1. SimInv => SimulatorTypeOK
  BY DEF SimInv
<1> QED
  BY <1>1, SimInvAlways, PTL

(* The simulator implements the schedule: whatever is parsed, wired and    *)
(* typed, nets change only when the schedule lets them (circuit.c, net.c,  *)
(* interface.c:181-248).                                                   *)
THEOREM Implements == Spec => ImplementsSchedule
<1>1. Init => ScheduleInit
  BY DEF Init, CircuitInit
<1>2. SimInv /\ SInv /\ [Next]_simulatorVars => [ScheduleNext]_scheduleVars
  BY SimStep, SimInvStutter
<1> QED
  BY <1>1, <1>2, SimInvAlways, PTL DEF Spec, ScheduleSpec, ImplementsSchedule

(* So no two pending updates of a net of the circuit are ever due          *)
(* together, in whatever order the definition gives the chips              *)
(* (circuit.c:286-299).                                                    *)
THEOREM SimulatorUpdatesDistinct == Spec => []DistinctDelays
BY Implements, UpdatesDistinct, PTL DEF ImplementsSchedule

(* And no nanosecond changes where a net of the circuit is heading         *)
(* (circuit.c:263-269, net.c:26-49).                                       *)
THEOREM SimulatorTimeKeeps == Spec => TimeKeepsHeading
BY Implements, TimeKeeps, PTL DEF ImplementsSchedule

-----------------------------------------------------------------------------
(* The last update of a concatenation for a net.                           *)

LEMMA ConcatSilent ==
  ASSUME NEW T, NEW s \in Seq(T), NEW t \in Seq(T), NEW n, Silent(s, n), Silent(t, n)
  PROVE  Silent(s \o t, n)
<1>1. ASSUME NEW k \in DOMAIN (s \o t)
      PROVE  (s \o t)[k].target # n
  <2>1. k \in 1 .. Len(s) + Len(t) /\ Len(s) \in Nat /\ Len(t) \in Nat
    OBVIOUS
  <2>2. CASE k <= Len(s)
    <3>1. k \in DOMAIN s /\ (s \o t)[k] = s[k]
      BY <2>1, <2>2
    <3> QED
      BY <3>1 DEF Silent
  <2>3. CASE k > Len(s)
    <3>1. k - Len(s) \in DOMAIN t /\ (s \o t)[k] = t[k - Len(s)]
      BY <2>1, <2>3
    <3> QED
      BY <3>1 DEF Silent
  <2> QED
    BY <2>1, <2>2, <2>3
<1> QED
  BY <1>1 DEF Silent

LEMMA ConcatEnds ==
  ASSUME NEW T, NEW s \in Seq(T), NEW t \in Seq(T), NEW n, NEW v,
         Ends(t, n, v) \/ (Ends(s, n, v) /\ Silent(t, n))
  PROVE  Ends(s \o t, n, v)
<1>1. /\ Len(s) \in Nat /\ Len(t) \in Nat /\ DOMAIN s = 1 .. Len(s) /\ DOMAIN t = 1 .. Len(t)
      /\ DOMAIN (s \o t) = 1 .. Len(s) + Len(t)
  OBVIOUS
<1>2. \A k \in DOMAIN s : (s \o t)[k] = s[k]
  OBVIOUS
<1>3. \A k \in DOMAIN t : (s \o t)[k + Len(s)] = t[k]
  BY <1>1
<1>4. CASE Ends(t, n, v)
  <2>1. PICK k \in DOMAIN t : /\ t[k].target = n /\ t[k].val = v
                              /\ \A j \in DOMAIN t : j > k => t[j].target # n
    BY <1>4 DEF Ends
  <2>2. k + Len(s) \in DOMAIN (s \o t) /\ (s \o t)[k + Len(s)] = t[k]
    BY <1>1, <1>3
  <2>3. ASSUME NEW j \in DOMAIN (s \o t), j > k + Len(s)
        PROVE  (s \o t)[j].target # n
    <3>1. j - Len(s) \in DOMAIN t /\ j - Len(s) > k /\ j = (j - Len(s)) + Len(s)
      BY <1>1, <2>3
    <3>2. (s \o t)[j] = t[j - Len(s)]
      BY <1>3, <3>1
    <3> QED
      BY <2>1, <3>1, <3>2
  <2> QED
    BY <2>1, <2>2, <2>3 DEF Ends
<1>5. CASE Ends(s, n, v) /\ Silent(t, n)
  <2>1. PICK k \in DOMAIN s : /\ s[k].target = n /\ s[k].val = v
                              /\ \A j \in DOMAIN s : j > k => s[j].target # n
    BY <1>5 DEF Ends
  <2>2. k \in DOMAIN (s \o t) /\ (s \o t)[k] = s[k]
    BY <1>1, <1>2
  <2>3. ASSUME NEW j \in DOMAIN (s \o t), j > k
        PROVE  (s \o t)[j].target # n
    <3>1. CASE j \in DOMAIN s
      BY <1>2, <2>1, <2>3, <3>1
    <3>2. CASE j \notin DOMAIN s
      <4>1. j - Len(s) \in DOMAIN t /\ j = (j - Len(s)) + Len(s)
        BY <1>1, <3>2
      <4>2. (s \o t)[j] = t[j - Len(s)]
        BY <1>3, <4>1
      <4> QED
        BY <1>5, <4>1, <4>2 DEF Silent
    <3> QED
      BY <3>1, <3>2
  <2> QED
    BY <2>1, <2>2, <2>3 DEF Ends
<1> QED
  BY <1>4, <1>5

(* In a flattened sequence the only part that has an update decides.       *)
LEMMA FlattenSilent ==
  ASSUME NEW T, NEW ss \in Seq(Seq(T)), NEW n, \A k \in DOMAIN ss : Silent(ss[k], n)
  PROVE  Silent(FlattenSeq(ss), n)
<1>1. PICK h \in [0 .. Len(ss) -> Seq(T)] : Flattens(h, ss)
  BY FlattenSteps
<1> DEFINE D == {k \in Nat : k <= Len(ss) => Silent(h[k], n)}
<1>2. Len(ss) \in Nat /\ DOMAIN ss = 1 .. Len(ss)
  OBVIOUS
<1>3. 0 \in D
  BY <1>1 DEF Flattens, Silent
<1>4. ASSUME NEW k \in Nat, k \in D
      PROVE  k + 1 \in D
  <2> SUFFICES ASSUME k + 1 <= Len(ss)
               PROVE  Silent(h[k + 1], n)
    OBVIOUS
  <2> DEFINE j == k + 1
  <2>1. j \in 1 .. Len(ss) /\ j - 1 = k /\ j - 1 \in 0 .. Len(ss)
    BY <1>2
  <2> HIDE DEF j
  <2>2. h[j - 1] \in Seq(T) /\ ss[j] \in Seq(T)
    <3>1. h[j - 1] \in Seq(T)
      BY <2>1, Zenon
    <3>2. ss[j] \in Seq(T)
      BY <2>1
    <3> QED
      BY <3>1, <3>2
  <2>3. Silent(h[j - 1], n)
    BY <1>4, <1>2, <2>1
  <2>4. h[j] = h[j - 1] \o ss[j]
    BY <1>1, <2>1 DEF Flattens
  <2>5. Silent(h[j], n)
    BY <1>2, <2>1, <2>2, <2>3, <2>4, ConcatSilent
  <2> QED
    BY <2>5 DEF j
<1>5. Len(ss) \in D
  <2> HIDE DEF D
  <2> QED
    BY <1>2, <1>3, <1>4, SetInduction
<1> QED
  BY <1>1, <1>2, <1>5 DEF Flattens

LEMMA FlattenEnds ==
  ASSUME NEW T, NEW ss \in Seq(Seq(T)), NEW n, NEW v, NEW i \in DOMAIN ss, Ends(ss[i], n, v),
         \A k \in DOMAIN ss \ {i} : Silent(ss[k], n)
  PROVE  Ends(FlattenSeq(ss), n, v)
<1>1. PICK h \in [0 .. Len(ss) -> Seq(T)] : Flattens(h, ss)
  BY FlattenSteps
<1> DEFINE D == {k \in Nat : i <= k /\ k <= Len(ss) => Ends(h[k], n, v)}
<1>2. Len(ss) \in Nat /\ DOMAIN ss = 1 .. Len(ss) /\ i \in 1 .. Len(ss)
  OBVIOUS
<1>3. 0 \in D
  BY <1>2
<1>4. ASSUME NEW k \in Nat, k \in D
      PROVE  k + 1 \in D
  <2> SUFFICES ASSUME i <= k + 1, k + 1 <= Len(ss)
               PROVE  Ends(h[k + 1], n, v)
    OBVIOUS
  <2> DEFINE j == k + 1
  <2>1. j \in 1 .. Len(ss) /\ j - 1 = k /\ j - 1 \in 0 .. Len(ss) /\ (j # i => i <= k)
    BY <1>2
  <2> HIDE DEF j
  <2>2. h[j - 1] \in Seq(T) /\ ss[j] \in Seq(T)
    <3>1. h[j - 1] \in Seq(T)
      BY <2>1, Zenon
    <3>2. ss[j] \in Seq(T)
      BY <2>1
    <3> QED
      BY <3>1, <3>2
  <2>3. j # i => Ends(h[j - 1], n, v) \/ i > k
    BY <1>4, <1>2, <2>1
  <2>4. h[j] = h[j - 1] \o ss[j]
    BY <1>1, <2>1 DEF Flattens
  <2>5. Ends(h[j], n, v)
    <3>1. CASE j = i
      BY <2>2, <2>4, <3>1, ConcatEnds
    <3>2. CASE j # i
      <4>1. Silent(ss[j], n)
        BY <1>2, <2>1, <3>2
      <4> QED
        BY <1>2, <2>1, <2>2, <2>3, <2>4, <3>2, <4>1, ConcatEnds
    <3> QED
      BY <3>1, <3>2
  <2> QED
    BY <2>5 DEF j
<1>5. Len(ss) \in D
  <2> HIDE DEF D
  <2> QED
    BY <1>2, <1>3, <1>4, SetInduction
<1> QED
  BY <1>1, <1>2, <1>5 DEF Flattens

(* The same of what is scheduled pin by pin.                               *)
Parts(ss, f) == /\ Each(f) = FlattenSeq(ss) /\ DOMAIN ss = 1 .. 12
                /\ \A k \in 1 .. 12 :
                     ss[k] = IF k - 1 \in DOMAIN f THEN <<f[k - 1]>> ELSE <<>>

LEMMA EachParts ==
  ASSUME NEW T, NEW f, \A i \in DOMAIN f : f[i] \in T
  PROVE  \E ss \in Seq(Seq(T)) : Parts(ss, f)
<1> DEFINE ss == [k \in 1 .. 12 |-> IF k - 1 \in DOMAIN f THEN <<f[k - 1]>> ELSE <<>>]
<1>1. ASSUME NEW k \in 1 .. 12
      PROVE  ss[k] \in Seq(T)
  <2>1. CASE k - 1 \in DOMAIN f
    <3>1. f[k - 1] \in T
      BY <2>1
    <3>2. <<f[k - 1]>> \in Seq(T)
      BY <3>1
    <3> QED
      BY <2>1, <3>2
  <2>2. CASE k - 1 \notin DOMAIN f
    BY <2>2
  <2> QED
    BY <2>1, <2>2
<1>2. \A k \in 1 .. 12 : ss[k] = IF k - 1 \in DOMAIN f THEN <<f[k - 1]>> ELSE <<>>
  OBVIOUS
<1>3. Each(f) = FlattenSeq(ss)
  BY DEF Each
<1>4. ss \in [1 .. 12 -> Seq(T)] /\ DOMAIN ss = 1 .. 12
  BY <1>1
<1> HIDE DEF ss
<1>5. ss \in Seq(Seq(T))
  BY <1>4, FunctionIsSeq, 12 \in Nat
<1> QED
  BY <1>2, <1>3, <1>4, <1>5 DEF Parts

LEMMA EachSilent ==
  ASSUME NEW T, NEW f, \A i \in DOMAIN f : f[i] \in T, NEW n,
         \A i \in DOMAIN f : f[i].target # n
  PROVE  Silent(Each(f), n)
<1>1. PICK ss \in Seq(Seq(T)) : Parts(ss, f)
  BY EachParts
<1>2. ASSUME NEW k \in DOMAIN ss
      PROVE  Silent(ss[k], n)
  <2>1. CASE k - 1 \in DOMAIN f
    <3>1. ss[k] = <<f[k - 1]>> /\ f[k - 1].target # n
      BY <1>1, <2>1 DEF Parts
    <3> QED
      BY <3>1 DEF Silent
  <2>2. CASE k - 1 \notin DOMAIN f
    <3>1. ss[k] = <<>>
      BY <1>1, <2>2 DEF Parts
    <3> QED
      BY <3>1 DEF Silent
  <2> QED
    BY <2>1, <2>2
<1> QED
  BY <1>1, <1>2, FlattenSilent DEF Parts

LEMMA EachEnds ==
  ASSUME NEW T, NEW f, \A i \in DOMAIN f : f[i] \in T, NEW n, NEW i \in 0 .. 11,
         i \in DOMAIN f, f[i].target = n, \A j \in DOMAIN f \ {i} : f[j].target # n
  PROVE  Ends(Each(f), n, f[i].val)
<1>1. PICK ss \in Seq(Seq(T)) : Parts(ss, f)
  BY EachParts
<1> DEFINE m == i + 1
<1>2. m \in DOMAIN ss /\ m - 1 = i
  BY <1>1 DEF Parts
<1> HIDE DEF m
<1>3. Ends(ss[m], n, f[i].val)
  <2>1. ss[m] = <<f[i]>>
    BY <1>1, <1>2 DEF Parts
  <2>2. 1 \in DOMAIN ss[m] /\ ss[m][1] = f[i] /\ \A j \in DOMAIN ss[m] : ~(j > 1)
    BY <2>1
  <2> QED
    BY <2>2 DEF Ends
<1>4. ASSUME NEW k \in DOMAIN ss \ {m}
      PROVE  Silent(ss[k], n)
  <2>1. CASE k - 1 \in DOMAIN f
    <3>1. k - 1 # i
      <4>1. k \in Int /\ m \in Int
        BY <1>1, <1>2
      <4> QED
        BY <1>2, <4>1
    <3>2. ss[k] = <<f[k - 1]>> /\ f[k - 1].target # n
      BY <1>1, <2>1, <3>1 DEF Parts
    <3> QED
      BY <3>2 DEF Silent
  <2>2. CASE k - 1 \notin DOMAIN f
    <3>1. ss[k] = <<>>
      BY <1>1, <2>2 DEF Parts
    <3> QED
      BY <3>1 DEF Silent
  <2> QED
    BY <2>1, <2>2
<1> QED
  BY <1>1, <1>2, <1>3, <1>4, FlattenEnds DEF Parts

-----------------------------------------------------------------------------
(* The chips settle. The input pins S of c have not moved, or their move   *)
(* is in s already.                                                        *)
Held(c, S, free) == free \/ Stable(c, S)

GatesFollow(c, s, free) ==
  c.type \in DOMAIN Gate => \A i \in DOMAIN c.out :
    Held(c, InputsOf(c, i), free) => Aims(c, s, i, GateVal(c, i))

AdderFollows(c, s, free) ==
  c.type = "_74HC283" /\ Held(c, 0 .. 8, free) =>
    \A i \in 0 .. 4 : Aims(c, s, i, SumVal(c, i))

LatchesFollow(c, s, free) ==
  \A i \in 0 .. CHIP_DATA[c.type].local - 1 :
    Held(c, {i}, free) => Then(s, <<c.id, i>>, Val(c, i))

IsMux(c) == c.type \in {"_74AC157", "_74AC153"}

MuxesOff(c, s, free) ==
  IsMux(c) => \A e \in Enables(c) : High(c, e) /\ Held(c, {e}, free) =>
    \A i \in DOMAIN c.out : Aims(c, s, i, 0)

MuxesShow(c, s, free) ==
  IsMux(c) => \A i \in DOMAIN c.out :
    Held(c, Selects(c) \cup {i + Offset(c)}, free) =>
      Aims(c, s, i, Val(c, i + Offset(c))) \/ Aims(c, s, i, 0)

(* Output i of a multiplexer shows the selected input, Shows if s is todo; *)
(* a step from s to t keeps that up.                                       *)
Shown(c, s, i, free) ==
  Held(c, Selects(c) \cup {i + Offset(c)}, free) => Aims(c, s, i, Val(c, i + Offset(c)))

Tracks(c, s, t, free, g) ==
  IsMux(c) => \A i \in DOMAIN c.out : Shown(c, s, i, free) => Shown(c, t, i, g)'

StaysClear(c, s, free) ==
  c.type = "_74AC161" /\ ~High(c, 7) /\ Held(c, {7}, free) =>
    \A i \in 0 .. 4 : Aims(c, s, i, 0)

Follows(c, s, free) ==
  /\ GatesFollow(c, s, free) /\ AdderFollows(c, s, free) /\ LatchesFollow(c, s, free)
  /\ MuxesOff(c, s, free) /\ MuxesShow(c, s, free) /\ StaysClear(c, s, free)

LEMMA ThenNow == \A n, v : Then(<<>>, n, v) <=> HeadsFor(n, v)
BY DEF Then, Ends, Silent

(* The pins that each of these reads are the chip's.                       *)
LEMMA PinsRead ==
  ASSUME SimInv, NEW c, Steps(c)
  PROVE  /\ c.type \in DOMAIN Gate => \A i \in DOMAIN c.out :
              /\ InputsOf(c, i) \in SUBSET DOMAIN c.in /\ InputsOf(c, i) # {}
         /\ c.type = "_74HC283" => DOMAIN c.in = 0 .. 8 /\ DOMAIN c.out = 0 .. 4
         /\ 0 .. CHIP_DATA[c.type].local - 1 \subseteq DOMAIN c.in
         /\ IsMux(c) => /\ Enables(c) \subseteq DOMAIN c.in /\ Selects(c) \subseteq DOMAIN c.in
                        /\ \A i \in DOMAIN c.out : i + Offset(c) \in DOMAIN c.in
         /\ c.type = "_74AC161" => DOMAIN c.in = 0 .. 8 /\ DOMAIN c.out = 0 .. 4
<1>1. DOMAIN c.in = 0 .. CHIP_DATA[c.type].in - 1 /\ DOMAIN c.out = 0 .. CHIP_DATA[c.type].out - 1
      /\ c.type \in DOMAIN CHIP_DATA
  BY DEF Steps, ChipOK
<1>2. ASSUME c.type \in DOMAIN Gate, NEW i \in DOMAIN c.out
      PROVE  InputsOf(c, i) \in SUBSET DOMAIN c.in /\ InputsOf(c, i) # {}
  <2> DEFINE w == Gate[c.type].width
  <2>1. <<w, CHIP_DATA[c.type].out, CHIP_DATA[c.type].in>> \in
          {<<1, 6, 6>>, <<2, 4, 8>>, <<4, 2, 8>>, <<8, 1, 8>>}
    BY <1>2 DEF Gate, CHIP_DATA, ChipData
  <2>2. i \in 0 .. CHIP_DATA[c.type].out - 1
    BY <1>1
  <2>3. InputsOf(c, i) = i * w .. i * w + w - 1
    BY DEF InputsOf
  <2> HIDE DEF w
  <2>4. ASSUME NEW m \in {1, 2, 4, 8}, w = m
        PROVE  i * m \in Nat /\ i * m + m <= CHIP_DATA[c.type].in
    BY <2>1, <2>2, <2>4
  <2>5. w \in {1, 2, 4, 8} /\ i * w \in Nat /\ i * w + w <= CHIP_DATA[c.type].in
        /\ CHIP_DATA[c.type].in \in Nat
    BY <2>1, <2>4
  <2> DEFINE m == i * w
  <2>6. InputsOf(c, i) = m .. m + w - 1 /\ m \in Nat /\ m + w <= CHIP_DATA[c.type].in
    BY <2>3, <2>5
  <2> HIDE DEF m
  <2>7. m .. m + w - 1 \subseteq DOMAIN c.in /\ m \in m .. m + w - 1
    BY <1>1, <2>5, <2>6
  <2> QED
    BY <2>6, <2>7
<1>3. 0 .. CHIP_DATA[c.type].local - 1 \subseteq DOMAIN c.in
  BY <1>1 DEF CHIP_DATA, ChipData
<1>4. ASSUME IsMux(c)
      PROVE  /\ Enables(c) \subseteq DOMAIN c.in /\ Selects(c) \subseteq DOMAIN c.in
             /\ \A i \in DOMAIN c.out : i + Offset(c) \in DOMAIN c.in
  <2>1. CASE c.type = "_74AC157"
    <3>1. DOMAIN c.out = 0 .. 3 /\ DOMAIN c.in = 0 .. 9
      BY <1>1, <2>1 DEF CHIP_DATA, ChipData
    <3>2. Val(c, 8) \in {0, 1}
      BY <3>1, InputLevel DEF Level
    <3>3. Offset(c) = 4 * Val(c, 8)
      BY <2>1 DEF Offset
    <3> QED
      BY <2>1, <3>1, <3>2, <3>3 DEF Enables, Selects
  <2>2. CASE c.type = "_74AC153"
    <3>1. DOMAIN c.out = 0 .. 1 /\ DOMAIN c.in = 0 .. 11
      BY <1>1, <2>2 DEF CHIP_DATA, ChipData
    <3>2. Val(c, 8) \in {0, 1} /\ Val(c, 9) \in {0, 1}
      BY <3>1, InputLevel DEF Level
    <3>3. Offset(c) = 2 * Val(c, 8) + 4 * Val(c, 9)
      BY <2>2 DEF Offset
    <3> QED
      BY <2>2, <3>1, <3>2, <3>3 DEF Enables, Selects
  <2> QED
    BY <1>4, <2>1, <2>2 DEF IsMux
<1>5. c.type = "_74HC283" => DOMAIN c.in = 0 .. 8 /\ DOMAIN c.out = 0 .. 4
  BY <1>1 DEF CHIP_DATA, ChipData
<1>6. c.type = "_74AC161" => DOMAIN c.in = 0 .. 8 /\ DOMAIN c.out = 0 .. 4
  BY <1>1 DEF CHIP_DATA, ChipData
<1> QED
  BY <1>2, <1>3, <1>4, <1>5, <1>6

(* Their levels.                                                           *)
LEMMA ValuesRead ==
  ASSUME SimInv, NEW c, Steps(c)
  PROVE  /\ c.type \in DOMAIN Gate => \A i : GateVal(c, i) \in Level
         /\ c.type = "_74HC283" => \A i \in 0 .. 4 : SumVal(c, i) \in Level
         /\ \A i \in DOMAIN c.in : Val(c, i) \in Level
<1>1. c.type \in DOMAIN Gate => \A i : GateVal(c, i) \in Level
  BY DEF GateVal, Gate, Bit, Level
<1>2. \A i \in DOMAIN c.in : Val(c, i) \in Level
  BY InputLevel
<1>3. c.type = "_74HC283" => \A i \in 0 .. 4 : SumVal(c, i) \in Level
  BY SumLevel
<1> QED
  BY <1>1, <1>2, <1>3


LEMMA FollowsKept ==
  ASSUME SimInv, NEW c, Steps(c), NEW s, NEW t, NEW free \in BOOLEAN, NEW g \in BOOLEAN,
         \A i \in DOMAIN c.in : g \/ ~Moved(c, i)' =>
           (free \/ ~Moved(c, i)) /\ Val(c, i)' = Val(c, i),
         \A n \in Driven(c) \cup Locals(c), v \in Level : Then(s, n, v) => Then(t, n, v)',
         Follows(c, s, free)
  PROVE  Follows(c, t, g)' /\ Tracks(c, s, t, free, g)
<1>1. ASSUME NEW S \in SUBSET DOMAIN c.in, Held(c, S, g)'
      PROVE  Held(c, S, free) /\ \A i \in S : Val(c, i)' = Val(c, i)
  BY <1>1 DEF Held, Stable
<1>2. ASSUME NEW i \in Writes(c), NEW v \in Level, Aims(c, s, i, v)
      PROVE  Aims(c, t, i, v)'
  BY <1>2 DEF Aims, Driven
<1>3. GatesFollow(c, t, g)'
  <2> SUFFICES ASSUME c.type \in DOMAIN Gate, NEW i \in DOMAIN c.out, Held(c, InputsOf(c, i), g)'
               PROVE  Aims(c, t, i, GateVal(c, i))'
    BY DEF GatesFollow
  <2>1. Held(c, InputsOf(c, i), free) /\ \A j \in InputsOf(c, i) : Val(c, j)' = Val(c, j)
    BY <1>1, PinsRead
  <2>2. GateVal(c, i)' = GateVal(c, i)
    BY <2>1 DEF GateVal, High
  <2>3. Aims(c, s, i, GateVal(c, i)) /\ GateVal(c, i) \in Level /\ i \in Writes(c)
    BY <2>1, ValuesRead DEF GatesFollow, Follows, Writes, Gate
  <2> QED
    BY <1>2, <2>2, <2>3
<1>4. AdderFollows(c, t, g)'
  <2> SUFFICES ASSUME c.type = "_74HC283", NEW i \in 0 .. 4, Held(c, 0 .. 8, g)'
               PROVE  Aims(c, t, i, SumVal(c, i))'
    BY DEF AdderFollows
  <2>1. Held(c, 0 .. 8, free) /\ \A j \in 0 .. 8 : Val(c, j)' = Val(c, j)
    BY <1>1, PinsRead
  <2>2. SumVal(c, i)' = SumVal(c, i)
    BY <2>1 DEF SumVal
  <2>3. Aims(c, s, i, SumVal(c, i)) /\ SumVal(c, i) \in Level /\ i \in Writes(c)
    BY <2>1, ValuesRead, PinsRead DEF AdderFollows, Follows, Writes
  <2> QED
    BY <1>2, <2>2, <2>3
<1>5. LatchesFollow(c, t, g)'
  <2> SUFFICES ASSUME NEW i \in 0 .. CHIP_DATA[c.type].local - 1, Held(c, {i}, g)'
               PROVE  Then(t, <<c.id, i>>, Val(c, i))'
    BY DEF LatchesFollow
  <2>1. i \in DOMAIN c.in /\ <<c.id, i>> \in Locals(c)
    BY PinsRead DEF Locals
  <2>2. Held(c, {i}, free) /\ Val(c, i)' = Val(c, i)
    BY <1>1, <2>1
  <2>3. Then(s, <<c.id, i>>, Val(c, i)) /\ Val(c, i) \in Level
    BY <2>1, <2>2, ValuesRead DEF LatchesFollow, Follows
  <2> QED
    BY <2>1, <2>2, <2>3
<1>6. MuxesOff(c, t, g)'
  <2> SUFFICES ASSUME IsMux(c), NEW e \in Enables(c), High(c, e)', Held(c, {e}, g)',
                      NEW i \in DOMAIN c.out
               PROVE  Aims(c, t, i, 0)'
    BY DEF MuxesOff
  <2>1. e \in DOMAIN c.in
    BY PinsRead
  <2>2. Held(c, {e}, free) /\ High(c, e)
    BY <1>1, <2>1 DEF High
  <2>3. Aims(c, s, i, 0) /\ i \in Writes(c) /\ 0 \in Level
    BY <2>2 DEF MuxesOff, Follows, Writes, IsMux, Level
  <2> QED
    BY <1>2, <2>3
<1>7. MuxesShow(c, t, g)'
  <2> SUFFICES ASSUME IsMux(c), NEW i \in DOMAIN c.out,
                      Held(c, Selects(c) \cup {i + Offset(c)}, g)'
               PROVE  (Aims(c, t, i, Val(c, i + Offset(c))) \/ Aims(c, t, i, 0))'
    BY DEF MuxesShow
  <2>1. Selects(c) \in SUBSET DOMAIN c.in
    BY PinsRead
  <2>2. Held(c, Selects(c), g)'
    BY DEF Held, Stable, Selects
  <2>3. Offset(c)' = Offset(c)
    <3>1. \A k \in Selects(c) : Val(c, k)' = Val(c, k)
      BY <1>1, <2>1, <2>2
    <3> QED
      BY <3>1 DEF Offset, Selects, IsMux
  <2> DEFINE j == i + Offset(c)
  <2>4. j \in DOMAIN c.in
    BY PinsRead
  <2>5. PICK m : m = j
    OBVIOUS
  <2>6. Held(c, Selects(c) \cup {m}, g)'
    BY <2>3, <2>5 DEF Held, Stable, Selects
  <2>7. Held(c, Selects(c) \cup {m}, free) /\ Val(c, m)' = Val(c, m)
    BY <1>1, <2>1, <2>4, <2>5, <2>6
  <2>8. /\ Aims(c, s, i, Val(c, m)) \/ Aims(c, s, i, 0)
        /\ i \in Writes(c) /\ Val(c, m) \in Level /\ 0 \in Level
    BY <2>4, <2>5, <2>7, ValuesRead DEF MuxesShow, Follows, Writes, IsMux, Level
  <2>9. PICK v : v = Val(c, m)
    OBVIOUS
  <2>10. Aims(c, t, i, v)' \/ Aims(c, t, i, 0)'
    BY <1>2, <2>8, <2>9
  <2>11. v = Val(c, i + Offset(c))'
    BY <2>3, <2>5, <2>7, <2>9 DEF Val
  <2> QED
    BY <2>10, <2>11
<1>8. StaysClear(c, t, g)'
  <2> SUFFICES ASSUME c.type = "_74AC161", ~High(c, 7)', Held(c, {7}, g)', NEW i \in 0 .. 4
               PROVE  Aims(c, t, i, 0)'
    BY DEF StaysClear
  <2>1. 7 \in DOMAIN c.in /\ i \in DOMAIN c.out
    BY PinsRead
  <2>2. Held(c, {7}, free) /\ ~High(c, 7)
    BY <1>1, <2>1 DEF High
  <2>3. Aims(c, s, i, 0) /\ i \in Writes(c) /\ 0 \in Level
    BY <2>1, <2>2 DEF StaysClear, Follows, Writes, Level
  <2> QED
    BY <1>2, <2>3
<1>9. Tracks(c, s, t, free, g)
  <2> SUFFICES ASSUME IsMux(c), NEW i \in DOMAIN c.out, Shown(c, s, i, free),
                      Held(c, Selects(c) \cup {i + Offset(c)}, g)'
               PROVE  Aims(c, t, i, Val(c, i + Offset(c)))'
    BY DEF Tracks, Shown
  <2>1. Selects(c) \in SUBSET DOMAIN c.in
    BY PinsRead
  <2>2. Held(c, Selects(c), g)'
    BY DEF Held, Stable, Selects
  <2>3. Offset(c)' = Offset(c)
    <3>1. \A k \in Selects(c) : Val(c, k)' = Val(c, k)
      BY <1>1, <2>1, <2>2
    <3> QED
      BY <3>1 DEF Offset, Selects, IsMux
  <2>4. PICK m : m = i + Offset(c)
    OBVIOUS
  <2>5. m \in DOMAIN c.in
    BY <2>4, PinsRead
  <2>6. Held(c, Selects(c) \cup {m}, g)'
    BY <2>3, <2>4 DEF Held, Stable, Selects
  <2>7. Held(c, Selects(c) \cup {m}, free) /\ Val(c, m)' = Val(c, m)
    BY <1>1, <2>1, <2>5, <2>6
  <2>8. Aims(c, s, i, Val(c, m)) /\ i \in Writes(c) /\ Val(c, m) \in Level
    BY <2>4, <2>5, <2>7, ValuesRead DEF Shown, Writes, IsMux
  <2>9. PICK v : v = Val(c, m)
    OBVIOUS
  <2>10. Aims(c, t, i, v)'
    BY <1>2, <2>8, <2>9
  <2>11. v = Val(c, i + Offset(c))'
    BY <2>3, <2>4, <2>7, <2>9 DEF Val
  <2> QED
    BY <2>10, <2>11
<1> QED
  BY <1>3, <1>4, <1>5, <1>6, <1>7, <1>8, <1>9 DEF Follows

(* While all nets are marked nothing is claimed.                           *)
LEMMA FollowsMarked ==
  ASSUME SimInv, NEW c, Steps(c), NEW s, {0} \X (0 .. Len(names) - 1) \subseteq changed
  PROVE  Follows(c, s, FALSE)
<1>1. ASSUME NEW i \in DOMAIN c.in
      PROVE  Moved(c, i)
  <2>1. Live(c.in[i])
    BY DEF Steps, Wired
  <2> QED
    BY <2>1 DEF Live, Moved, Net
<1>2. ASSUME NEW S \in SUBSET DOMAIN c.in, NEW i \in S
      PROVE  ~Held(c, S, FALSE)
  BY <1>1 DEF Held, Stable
<1>3. GatesFollow(c, s, FALSE)
  BY <1>2, PinsRead DEF GatesFollow
<1>4. AdderFollows(c, s, FALSE)
  <2>1. 0 \in 0 .. 8
    OBVIOUS
  <2> QED
    BY <1>2, <2>1, PinsRead DEF AdderFollows
<1>5. LatchesFollow(c, s, FALSE)
  BY <1>2, PinsRead DEF LatchesFollow
<1>6. MuxesOff(c, s, FALSE)
  BY <1>2, PinsRead DEF MuxesOff
<1>7. MuxesShow(c, s, FALSE)
  <2>1. IsMux(c) => 8 \in Selects(c)
    BY DEF Selects
  <2> QED
    BY <1>2, <2>1, PinsRead DEF MuxesShow
<1>8. StaysClear(c, s, FALSE)
  <2>1. c.type = "_74AC161" => 7 \in DOMAIN c.in
    BY PinsRead
  <2> QED
    BY <1>2, <2>1 DEF StaysClear
<1> QED
  BY <1>3, <1>4, <1>5, <1>6, <1>7, <1>8 DEF Follows

(* An update that is added decides where its net heads, and no other net.  *)
LEMMA ThenKept ==
  ASSUME SimInv, SInv, AddUpdate, NEW n \in Nets, NEW v \in Level, Then(todo, n, v)
  PROVE  Then(todo, n, v)'
<1> DEFINE u == Head(todo)
<1>1. /\ todo # <<>> /\ todo' = Tail(todo)
      /\ IF u.target = Null THEN UNCHANGED scheduleVars ELSE addNetUpdate(u)
  BY DEF AddUpdate
<1>2. todo \in Seq(AddedNow) /\ n # Null
  BY ChipsAssumption DEF SimInv, UpdatesInv
<1>3. /\ Len(todo) \in Nat /\ DOMAIN todo = 1 .. Len(todo) /\ 1 \in DOMAIN todo
      /\ u = todo[1] /\ u \in AddedNow
      /\ DOMAIN todo' = 1 .. Len(todo) - 1
      /\ \A k \in DOMAIN todo' : k + 1 \in DOMAIN todo /\ todo'[k] = todo[k + 1]
  BY <1>1, <1>2
<1> HIDE DEF u
<1>4. u.target # Null => u \in Update
  BY <1>3 DEF AddedNow, Added, Update
<1>5. /\ u.target # n /\ HeadsFor(n, v) => HeadsFor(n, v)'
      /\ u.target = n /\ u.val = v => HeadsFor(n, v)'
  <2>1. CASE u.target = Null
    BY <1>1, <1>2, <2>1 DEF HeadsFor, Pending, scheduleVars
  <2>2. CASE u.target # Null
    BY <1>1, <1>4, <2>2, NewestDecides
  <2> QED
    BY <2>1, <2>2
<1>6. CASE Silent(todo, n) /\ HeadsFor(n, v)
  <2>1. Silent(todo', n) /\ u.target # n
    BY <1>3, <1>6 DEF Silent
  <2> QED
    BY <1>5, <1>6, <2>1 DEF Then, Silent
<1>7. CASE Ends(todo, n, v)
  <2>1. PICK k \in DOMAIN todo : /\ todo[k].target = n /\ todo[k].val = v
                                 /\ \A j \in DOMAIN todo : j > k => todo[j].target # n
    BY <1>7 DEF Ends
  <2>2. CASE k = 1
    <3>1. \A j \in DOMAIN todo' : todo'[j].target # n
      BY <1>3, <2>1, <2>2
    <3>2. HeadsFor(n, v)'
      BY <1>3, <1>5, <2>1, <2>2
    <3> QED
      BY <3>1, <3>2 DEF Then, Silent
  <2>3. CASE k # 1
    <3>1. k - 1 \in DOMAIN todo' /\ (k - 1) + 1 = k
      BY <1>3, <2>3
    <3>2. todo'[k - 1] = todo[k]
      BY <1>3, <3>1
    <3>3. \A j \in DOMAIN todo' : j > k - 1 => todo'[j].target # n
      <4> TAKE j \in DOMAIN todo'
      <4>1. j + 1 \in DOMAIN todo /\ todo'[j] = todo[j + 1]
        BY <1>3
      <4>2. j > k - 1 => j + 1 > k
        BY <1>3
      <4> QED
        BY <2>1, <4>1, <4>2
    <3>4. Ends(todo, n, v)'
      BY <2>1, <3>1, <3>2, <3>3 DEF Ends
    <3> QED
      BY <3>4 DEF Then
  <2> QED
    BY <2>2, <2>3
<1> QED
  BY <1>6, <1>7 DEF Then

-----------------------------------------------------------------------------
(* No two outputs of the chip drive one net.                               *)
Apart(c) == \A i, j \in Writes(c) :
  c.out[i] # Null /\ c.out[j] # Null /\ i # j => Net(c.out[i]) # Net(c.out[j])

LEMMA OutsTarget ==
  ASSUME SimInv, NEW c, Steps(c), NEW f,
         \A i \in DOMAIN f : /\ i \in Writes(c)
                             /\ \E v \in Level, d \in 1 .. 27 : f[i] = Out(c, i, v, d)
  PROVE  \A j \in DOMAIN f : /\ f[j] \in OutsOf(c) /\ j \in Writes(c)
                             /\ f[j].target = IF c.out[j] = Null THEN Null ELSE Net(c.out[j])
<1> TAKE j \in DOMAIN f
<1>1. PICK v \in Level, d \in 1 .. 27 : f[j] = Out(c, j, v, d)
  OBVIOUS
<1>2. f[j] \in OutsOf(c)
  BY <1>1, OutAdded
<1> QED
  BY <1>1, <1>2 DEF Out

(* The outputs that are scheduled aim where that says, ...                 *)
LEMMA OutsAim ==
  ASSUME SimInv, NEW c, Steps(c), Apart(c), NEW f,
         \A i \in DOMAIN f : /\ i \in Writes(c)
                             /\ \E v \in Level, d \in 1 .. 27 : f[i] = Out(c, i, v, d),
         NEW i \in DOMAIN f
  PROVE  Aims(c, Each(f), i, f[i].val)
<1> SUFFICES ASSUME c.out[i] # Null
             PROVE  Ends(Each(f), Net(c.out[i]), f[i].val)
  BY DEF Aims, Then
<1> DEFINE n == Net(c.out[i])
<1>1. \A j \in DOMAIN f : /\ f[j] \in OutsOf(c) /\ j \in Writes(c)
                          /\ f[j].target = IF c.out[j] = Null THEN Null ELSE Net(c.out[j])
  BY OutsTarget
<1>2. i \in 0 .. 11
  BY <1>1 DEF Steps, ChipOK, Writes, CHIP_DATA, ChipData
<1>3. n # Null
  <2>1. Live(c.out[i])
    BY <1>1 DEF Steps, Wired
  <2> QED
    BY <2>1, LiveNet, ChipsAssumption
<1>4. f[i].target = n
  BY <1>1
<1>5. \A j \in DOMAIN f \ {i} : f[j].target # n
  BY <1>1, <1>3 DEF Apart
<1> HIDE DEF n
<1>6. Ends(Each(f), n, f[i].val)
  BY <1>1, <1>2, <1>4, <1>5, EachEnds
<1> QED
  BY <1>6 DEF n

(* ... and the others where they did.                                      *)
LEMMA OutsRest ==
  ASSUME SimInv, NEW c, Steps(c), Apart(c), NEW f,
         \A i \in DOMAIN f : /\ i \in Writes(c)
                             /\ \E v \in Level, d \in 1 .. 27 : f[i] = Out(c, i, v, d),
         NEW i \in Writes(c) \ DOMAIN f, NEW v, Aims(c, <<>>, i, v)
  PROVE  Aims(c, Each(f), i, v)
<1> SUFFICES ASSUME c.out[i] # Null
             PROVE  Then(Each(f), Net(c.out[i]), v)
  BY DEF Aims
<1> DEFINE n == Net(c.out[i])
<1>1. \A j \in DOMAIN f : /\ f[j] \in OutsOf(c) /\ j \in Writes(c)
                          /\ f[j].target = IF c.out[j] = Null THEN Null ELSE Net(c.out[j])
  BY OutsTarget
<1>2. n # Null
  <2>1. Live(c.out[i])
    BY DEF Steps, Wired
  <2> QED
    BY <2>1, LiveNet, ChipsAssumption
<1>3. \A j \in DOMAIN f : f[j].target # n
  BY <1>1, <1>2 DEF Apart
<1>4. HeadsFor(n, v)
  BY DEF Aims, Then, Ends
<1> HIDE DEF n
<1>5. Silent(Each(f), n)
  BY <1>1, <1>3, EachSilent
<1> QED
  BY <1>4, <1>5 DEF n, Then

(* What is claimed of other types of chips is no claim of c.               *)
LEMMA FollowsAlone ==
  ASSUME NEW c, NEW s, NEW free
  PROVE  /\ c.type \notin DOMAIN Gate => GatesFollow(c, s, free)
         /\ c.type # "_74HC283" => AdderFollows(c, s, free)
         /\ CHIP_DATA[c.type].local = 0 => LatchesFollow(c, s, free)
         /\ ~IsMux(c) => MuxesOff(c, s, free) /\ MuxesShow(c, s, free)
         /\ c.type # "_74AC161" => StaysClear(c, s, free)
<1>1. CHIP_DATA[c.type].local = 0 => LatchesFollow(c, s, free)
  BY DEF LatchesFollow
<1>2. ~IsMux(c) => MuxesOff(c, s, free) /\ MuxesShow(c, s, free)
  BY DEF MuxesOff, MuxesShow
<1> QED
  BY <1>1, <1>2 DEF GatesFollow, AdderFollows, StaysClear

LEMMA GatesFollowStep ==
  ASSUME SimInv, NEW c, Steps(c), Apart(c), c.type \in DOMAIN Gate, Follows(c, <<>>, FALSE)
  PROVE  Follows(c, StepGate(c), TRUE)
<1> DEFINE f == [i \in {j \in DOMAIN c.out : GateMoves(c, j)} |->
                   Out(c, i, GateVal(c, i), Gate[c.type].delay)]
<1>1. \A i \in DOMAIN f : /\ i \in Writes(c)
                          /\ \E v \in Level, d \in 1 .. 27 : f[i] = Out(c, i, v, d)
  <2>1. Gate[c.type].delay \in 1 .. 27
    BY GateDelay
  <2>3. DOMAIN c.out = Writes(c)
    BY DEF Gate, Writes
  <2>2. \A i : GateVal(c, i) \in Level
    BY ValuesRead
  <2> QED
    BY <2>1, <2>2, <2>3
<1>2. StepGate(c) = Each(f)
  BY DEF StepGate
<1>3. ASSUME NEW i \in DOMAIN c.out
      PROVE  Aims(c, StepGate(c), i, GateVal(c, i))
  <2>1. CASE GateMoves(c, i)
    <3>1. i \in DOMAIN f /\ f[i].val = GateVal(c, i)
      BY <2>1 DEF Out
    <3> HIDE DEF f
    <3> QED
      BY <1>1, <1>2, <3>1, OutsAim
  <2>2. CASE ~GateMoves(c, i)
    <3>1. i \in Writes(c) \ DOMAIN f
      BY <2>2 DEF Writes, Gate
    <3>2. Aims(c, <<>>, i, GateVal(c, i))
      BY <2>2 DEF Follows, GatesFollow, Held, Stable, GateMoves
    <3> HIDE DEF f
    <3> QED
      BY <1>1, <1>2, <3>1, <3>2, OutsRest
  <2> QED
    BY <2>1, <2>2
<1>4. CHIP_DATA[c.type].local = 0 /\ c.type \notin {"_74HC283", "_74AC157", "_74AC153", "_74AC161"}
  BY DEF Gate, CHIP_DATA, ChipData
<1>5. GatesFollow(c, StepGate(c), TRUE)
  BY <1>3 DEF GatesFollow
<1> QED
  BY <1>4, <1>5, FollowsAlone DEF Follows, IsMux

LEMMA AdderFollowsStep ==
  ASSUME SimInv, NEW c, Steps(c), Apart(c), c.type = "_74HC283", Follows(c, <<>>, FALSE)
  PROVE  Follows(c, step74HC283(c), TRUE)
<1> DEFINE delay == IF Moved(c, 8) THEN <<19, 21, 23, 27, 23>> ELSE <<25, 25, 25, 25, 23>>
           f == [i \in 0 .. 4 |-> Out(c, i, SumVal(c, i), delay[i + 1])]
<1>1. \A i \in DOMAIN f : /\ i \in Writes(c)
                          /\ \E v \in Level, d \in 1 .. 27 : f[i] = Out(c, i, v, d)
  <2>1. Writes(c) = 0 .. 4 /\ \A i \in 0 .. 4 : delay[i + 1] \in 1 .. 27
    BY PinsRead DEF Writes
  <2>2. \A i \in 0 .. 4 : SumVal(c, i) \in Level
    BY SumLevel
  <2> HIDE DEF delay
  <2> QED
    BY <2>1, <2>2
<1>2. \A i \in 0 .. 4 : i \in DOMAIN f /\ f[i].val = SumVal(c, i)
  <2> HIDE DEF delay
  <2> QED
    BY DEF Out
<1>3. step74HC283(c) = IF \E j \in 0 .. 8 : Moved(c, j) THEN Each(f) ELSE <<>>
  BY DEF step74HC283
<1> HIDE DEF f
<1>4. ASSUME NEW i \in 0 .. 4
      PROVE  Aims(c, step74HC283(c), i, SumVal(c, i))
  <2>1. CASE \E j \in 0 .. 8 : Moved(c, j)
    BY <1>1, <1>2, <1>3, <2>1, OutsAim
  <2>2. CASE ~\E j \in 0 .. 8 : Moved(c, j)
    BY <1>3, <2>2 DEF Follows, AdderFollows, Held, Stable
  <2> QED
    BY <2>1, <2>2
<1>5. CHIP_DATA[c.type].local = 0 /\ c.type \notin DOMAIN Gate
  BY DEF Gate, CHIP_DATA, ChipData
<1>6. AdderFollows(c, step74HC283(c), TRUE)
  BY <1>4 DEF AdderFollows
<1> QED
  BY <1>5, <1>6, FollowsAlone DEF Follows, IsMux

LEMMA MuxesFollowStep ==
  ASSUME SimInv, NEW c, Steps(c), Apart(c), IsMux(c), Follows(c, <<>>, FALSE)
  PROVE  /\ Follows(c, StepMux(c), TRUE)
         /\ ~Disabled(c) => \A i \in DOMAIN c.out :
              Shown(c, <<>>, i, FALSE) => Shown(c, StepMux(c), i, TRUE)
<1> DEFINE shown(i) == Val(c, i + Offset(c))
           f(S, d) == [i \in S |-> Out(c, i, shown(i), d)]
           off == [i \in DOMAIN c.out |-> Out(c, i, 0, 6)]
           slow == IF c.type = "_74AC157" THEN 6 ELSE 7
           fast == IF c.type = "_74AC157" THEN 4 ELSE 6
           moved == {i \in DOMAIN c.out : Moved(c, i + Offset(c))}
<1>1. DOMAIN c.out = Writes(c) /\ \A i \in DOMAIN c.out : shown(i) \in Level
  <2>1. DOMAIN c.out = Writes(c)
    BY DEF Writes, IsMux
  <2> QED
    BY <2>1, PinsRead, ValuesRead
<1>2. StepMux(c) = IF \E e \in Enables(c) : Rises(c, e) THEN Each(off)
                   ELSE IF Disabled(c) THEN <<>>
                   ELSE IF \E k \in Selects(c) : Moved(c, k) THEN Each(f(DOMAIN c.out, slow))
                   ELSE Each(f(moved, fast))
  BY DEF StepMux, ChosenMoves
<1> HIDE DEF shown
<1>3. ASSUME NEW S \in SUBSET DOMAIN c.out, NEW d \in 1 .. 27
      PROVE  /\ \A i \in S : Aims(c, Each(f(S, d)), i, shown(i))
             /\ \A i \in DOMAIN c.out \ S : \A v :
                  Aims(c, <<>>, i, v) => Aims(c, Each(f(S, d)), i, v)
  <2> DEFINE g == f(S, d)
  <2>1. \A i \in DOMAIN g : /\ i \in Writes(c)
                            /\ \E v \in Level, e \in 1 .. 27 : g[i] = Out(c, i, v, e)
    BY <1>1
  <2>2. DOMAIN g = S /\ \A i \in S : g[i].val = shown(i)
    BY DEF Out
  <2> HIDE DEF g
  <2>3. \A i \in S : Aims(c, Each(g), i, shown(i))
    BY <2>1, <2>2, OutsAim
  <2>4. \A i \in DOMAIN c.out \ S : \A v : Aims(c, <<>>, i, v) => Aims(c, Each(g), i, v)
    BY <1>1, <2>1, <2>2, OutsRest
  <2> QED
    BY <2>3, <2>4 DEF g
<1>4. \A i \in DOMAIN c.out : Aims(c, Each(off), i, 0)
  <2>1. \A i \in DOMAIN off : /\ i \in Writes(c)
                              /\ \E v \in Level, d \in 1 .. 27 : off[i] = Out(c, i, v, d)
    BY <1>1 DEF Level
  <2>2. \A i \in DOMAIN c.out : i \in DOMAIN off /\ off[i].val = 0
    BY DEF Out
  <2> HIDE DEF off
  <2> QED
    BY <2>1, <2>2, OutsAim
<1>5. slow \in 1 .. 27 /\ fast \in 1 .. 27 /\ moved \in SUBSET DOMAIN c.out
  OBVIOUS
<1> HIDE DEF f, off, slow, fast
<1> DEFINE s == StepMux(c)
<1>6. Disabled(c) => \A i \in DOMAIN c.out : Aims(c, s, i, 0)
  <2> SUFFICES ASSUME Disabled(c), NEW i \in DOMAIN c.out
               PROVE  Aims(c, s, i, 0)
    OBVIOUS
  <2>1. CASE \E e \in Enables(c) : Rises(c, e)
    BY <1>2, <1>4, <2>1
  <2>2. CASE ~\E e \in Enables(c) : Rises(c, e)
    <3>1. s = <<>>
      BY <1>2, <2>2
    <3>2. PICK e \in Enables(c) : High(c, e) /\ ~Moved(c, e)
      BY <2>2 DEF Disabled, Rises
    <3>3. Held(c, {e}, FALSE)
      BY <3>2 DEF Held, Stable
    <3> QED
      BY <3>1, <3>2, <3>3 DEF Follows, MuxesOff
  <2> QED
    BY <2>1, <2>2
<1>7. ASSUME NEW i \in DOMAIN c.out
      PROVE  Aims(c, s, i, shown(i)) \/ Aims(c, s, i, 0)
  <2>1. CASE Disabled(c) \/ \E e \in Enables(c) : Rises(c, e)
    <3>1. Disabled(c)
      BY <2>1 DEF Disabled, Rises
    <3> QED
      BY <1>6, <3>1
  <2>2. CASE /\ ~Disabled(c) /\ ~\E e \in Enables(c) : Rises(c, e)
             /\ \E k \in Selects(c) : Moved(c, k)
    <3>1. s = Each(f(DOMAIN c.out, slow))
      BY <1>2, <2>2
    <3> QED
      BY <1>3, <1>5, <3>1
  <2>3. CASE /\ ~Disabled(c) /\ ~\E e \in Enables(c) : Rises(c, e)
             /\ ~\E k \in Selects(c) : Moved(c, k)
    <3>1. s = Each(f(moved, fast))
      BY <1>2, <2>3
    <3>2. CASE i \in moved
      BY <1>3, <1>5, <3>1, <3>2
    <3>3. CASE i \notin moved
      <4>1. Held(c, Selects(c) \cup {i + Offset(c)}, FALSE)
        BY <2>3, <3>3 DEF Held, Stable
      <4>2. Aims(c, <<>>, i, shown(i)) \/ Aims(c, <<>>, i, 0)
        BY <4>1 DEF Follows, MuxesShow, shown
      <4> QED
        BY <1>3, <1>5, <3>1, <3>3, <4>2
    <3> QED
      BY <3>2, <3>3
  <2> QED
    BY <2>1, <2>2, <2>3
<1>11. ASSUME ~Disabled(c), NEW i \in DOMAIN c.out, Shown(c, <<>>, i, FALSE)
       PROVE  Aims(c, s, i, shown(i))
  <2>1. ~\E e \in Enables(c) : Rises(c, e)
    BY <1>11 DEF Disabled, Rises
  <2>2. CASE \E k \in Selects(c) : Moved(c, k)
    <3>1. s = Each(f(DOMAIN c.out, slow))
      BY <1>2, <1>11, <2>1, <2>2
    <3> QED
      BY <1>3, <1>5, <3>1
  <2>3. CASE ~\E k \in Selects(c) : Moved(c, k)
    <3>1. s = Each(f(moved, fast))
      BY <1>2, <1>11, <2>1, <2>3
    <3>2. CASE i \in moved
      BY <1>3, <1>5, <3>1, <3>2
    <3>3. CASE i \notin moved
      <4>1. Held(c, Selects(c) \cup {i + Offset(c)}, FALSE)
        BY <2>3, <3>3 DEF Held, Stable
      <4>2. Aims(c, <<>>, i, shown(i))
        BY <1>11, <4>1 DEF Shown, shown
      <4> QED
        BY <1>3, <1>5, <3>1, <3>3, <4>2
    <3> QED
      BY <3>2, <3>3
  <2> QED
    BY <2>2, <2>3
<1>12. ~Disabled(c) => \A i \in DOMAIN c.out :
         Shown(c, <<>>, i, FALSE) => Shown(c, s, i, TRUE)
  BY <1>11 DEF Shown, shown
<1>8. MuxesOff(c, s, TRUE)
  BY <1>6 DEF MuxesOff, Disabled
<1>9. MuxesShow(c, s, TRUE)
  BY <1>7 DEF MuxesShow, shown
<1>10. CHIP_DATA[c.type].local = 0 /\ c.type \notin DOMAIN Gate
       /\ c.type \notin {"_74HC283", "_74AC161"}
  BY DEF IsMux, Gate, CHIP_DATA, ChipData
<1> QED
  BY <1>8, <1>9, <1>10, <1>12, FollowsAlone DEF Follows

(* Of two parts of a sequence the one that is not silent decides.          *)
LEMMA ThenConcat ==
  ASSUME NEW T, NEW s \in Seq(T), NEW t \in Seq(T), NEW n, NEW v,
         (Then(s, n, v) /\ Silent(t, n)) \/ (Silent(s, n) /\ Then(t, n, v))
  PROVE  Then(s \o t, n, v)
<1>1. CASE Ends(t, n, v) \/ (Ends(s, n, v) /\ Silent(t, n))
  BY <1>1, ConcatEnds DEF Then
<1>2. CASE Silent(s, n) /\ Silent(t, n) /\ HeadsFor(n, v)
  BY <1>2, ConcatSilent DEF Then
<1> QED
  BY <1>1, <1>2 DEF Then

(* Latches are silent on outputs, and outputs on latches.                  *)
LEMMA LatchesOnly ==
  ASSUME NEW c, Steps(c), NEW s \in Seq(LatchesOf(c)), NEW pin
  PROVE  Silent(s, Net(pin))
<1>1. \A k \in DOMAIN s : s[k] \in LatchesOf(c)
  OBVIOUS
<1>2. \A n \in Locals(c) : n[1] = c.id
  BY DEF Locals
<1>3. Net(pin)[1] = 0 /\ c.id # 0
  BY DEF Net, Steps
<1> QED
  BY <1>1, <1>2, <1>3 DEF Silent, LatchesOf

LEMMA OutsOnly ==
  ASSUME NEW c, NEW s \in Seq(OutsOf(c)), NEW n \in Locals(c)
  PROVE  Silent(s, n)
<1>1. \A k \in DOMAIN s : s[k] \in OutsOf(c)
  OBVIOUS
<1> QED
  BY <1>1 DEF Silent, OutsOf

(* A latch aims for its input when that moves, and stays otherwise.        *)
LEMMA LatchAims ==
  ASSUME SimInv, NEW c, Steps(c), LatchesFollow(c, <<>>, FALSE),
         NEW S \in SUBSET (0 .. CHIP_DATA[c.type].local - 1), NEW d \in 1 .. 27
  PROVE  /\ \A i \in S : Then(Latch(c, S, d), <<c.id, i>>, Val(c, i))
         /\ \A i : i \notin S => Silent(Latch(c, S, d), <<c.id, i>>)
<1> DEFINE f == [i \in {j \in S : Moved(c, j)} |->
                   [target |-> <<c.id, i>>, val |-> Val(c, i), delay |-> d]]
           T == {f[i] : i \in DOMAIN f}
<1>1. Latch(c, S, d) = Each(f) /\ DOMAIN f = {j \in S : Moved(c, j)}
  BY DEF Latch
<1>2. \A i \in DOMAIN f : f[i].target = <<c.id, i>> /\ f[i].val = Val(c, i) /\ f[i] \in T
  OBVIOUS
<1> HIDE DEF f
<1>3. ASSUME NEW i, i \notin DOMAIN f
      PROVE  Silent(Each(f), <<c.id, i>>)
  <2>1. \A j \in DOMAIN f : f[j].target # <<c.id, i>>
    BY <1>2, <1>3
  <2> HIDE DEF T
  <2> QED
    BY <1>2, <2>1, EachSilent
<1>4. ASSUME NEW i \in S
      PROVE  Then(Latch(c, S, d), <<c.id, i>>, Val(c, i))
  <2>1. CASE Moved(c, i)
    <3>1. i \in DOMAIN f /\ i \in 0 .. 11
      BY <1>1, <2>1 DEF Steps, ChipOK, CHIP_DATA, ChipData
    <3>2. \A j \in DOMAIN f \ {i} : f[j].target # <<c.id, i>>
      BY <1>2
    <3> HIDE DEF T
    <3>3. Ends(Each(f), <<c.id, i>>, f[i].val)
      BY <1>2, <3>1, <3>2, EachEnds
    <3> QED
      BY <1>1, <1>2, <3>1, <3>3 DEF Then
  <2>2. CASE ~Moved(c, i)
    <3>1. Silent(Each(f), <<c.id, i>>)
      BY <1>1, <1>3, <2>2
    <3>2. Held(c, {i}, FALSE)
      BY <2>2 DEF Held, Stable
    <3>3. i \in 0 .. CHIP_DATA[c.type].local - 1
      OBVIOUS
    <3>4. Then(<<>>, <<c.id, i>>, Val(c, i))
      BY <3>2, <3>3 DEF LatchesFollow
    <3> QED
      BY <1>1, <3>1, <3>4, ThenNow DEF Then
  <2> QED
    BY <2>1, <2>2
<1> QED
  BY <1>1, <1>3, <1>4

LEMMA RegisterFollowsStep ==
  ASSUME SimInv, NEW c, Steps(c), c.type = "_74HC377", Follows(c, <<>>, FALSE)
  PROVE  Follows(c, step74HC377(c), TRUE)
<1> DEFINE low == Latch(c, 0 .. 7, 5)
           enable == Latch(c, {8}, 2)
           outs == RegisterLoads(c)
           T == AddedBy(c)
<1>1. /\ low \in Seq(LatchesOf(c)) /\ enable \in Seq(LatchesOf(c)) /\ outs \in Seq(OutsOf(c))
      /\ step74HC377(c) = low \o enable \o outs
  BY RegisterParts
<1>2. CHIP_DATA[c.type].local = 9
  BY DEF CHIP_DATA, ChipData
<1>3. \A S \in {0 .. 7, {8}} : S \in SUBSET (0 .. CHIP_DATA[c.type].local - 1)
  BY <1>2
<1>4. /\ \A i \in 0 .. 7 : Then(low, <<c.id, i>>, Val(c, i))
      /\ \A i : i \notin 0 .. 7 => Silent(low, <<c.id, i>>)
      /\ \A i \in {8} : Then(enable, <<c.id, i>>, Val(c, i))
      /\ \A i : i \notin {8} => Silent(enable, <<c.id, i>>)
  <2>1. LatchesFollow(c, <<>>, FALSE)
    BY DEF Follows
  <2>2. /\ 0 .. 7 \in SUBSET (0 .. CHIP_DATA[c.type].local - 1)
        /\ {8} \in SUBSET (0 .. CHIP_DATA[c.type].local - 1)
    BY <1>3
  <2>3. 5 \in 1 .. 27 /\ 2 \in 1 .. 27
    OBVIOUS
  <2> QED
    BY <2>1, <2>2, <2>3, LatchAims, Zenon
<1>5. low \in Seq(T) /\ enable \in Seq(T) /\ outs \in Seq(T)
  BY <1>1 DEF OutsOf, LatchesOf
<1> HIDE DEF low, enable, outs, T
<1>6. low \o enable \in Seq(T)
  BY <1>5
<1>7. ASSUME NEW i \in 0 .. 8
      PROVE  Then(step74HC377(c), <<c.id, i>>, Val(c, i))
  <2>1. Then(low \o enable, <<c.id, i>>, Val(c, i))
    <3>1. CASE i = 8
      <4>1. Silent(low, <<c.id, i>>) /\ Then(enable, <<c.id, i>>, Val(c, i))
        BY <1>4, <3>1
      <4> QED
        BY <1>5, <4>1, ThenConcat
    <3>2. CASE i # 8
      <4>1. Then(low, <<c.id, i>>, Val(c, i)) /\ Silent(enable, <<c.id, i>>)
        BY <1>4, <3>2
      <4> QED
        BY <1>5, <4>1, ThenConcat
    <3> QED
      BY <3>1, <3>2
  <2>2. Silent(outs, <<c.id, i>>)
    BY <1>1, <1>2, OutsOnly DEF Locals
  <2>3. Then((low \o enable) \o outs, <<c.id, i>>, Val(c, i))
    BY <1>5, <1>6, <2>1, <2>2, ThenConcat
  <2> QED
    BY <1>1, <2>3
<1>8. LatchesFollow(c, step74HC377(c), TRUE)
  <2>1. 0 .. CHIP_DATA[c.type].local - 1 = 0 .. 8
    BY <1>2
  <2> QED
    BY <1>7, <2>1 DEF LatchesFollow
<1>9. c.type \notin DOMAIN Gate /\ ~IsMux(c) /\ c.type \notin {"_74HC283", "_74AC161"}
  BY DEF IsMux, Gate
<1> QED
  BY <1>8, <1>9, FollowsAlone DEF Follows

LEMMA CounterFollowsStep ==
  ASSUME SimInv, NEW c, Steps(c), Apart(c), c.type = "_74AC161", Follows(c, <<>>, FALSE)
  PROVE  Follows(c, step74AC161(c), TRUE)
<1> DEFINE low == Latch(c, 0 .. 4, 4)
           high == Latch(c, 5 .. 6, 2)
           acts == CounterActs(c)
           carries == CounterCarries(c)
           T == AddedBy(c)
<1>1. /\ low \in Seq(LatchesOf(c)) /\ high \in Seq(LatchesOf(c))
      /\ acts \in Seq(OutsOf(c)) /\ carries \in Seq(OutsOf(c))
      /\ step74AC161(c) = low \o high \o acts \o carries
  BY CounterParts, CounterOuts
<1>2. CHIP_DATA[c.type].local = 7 /\ Writes(c) = 0 .. 4
  BY PinsRead DEF CHIP_DATA, ChipData, Writes
<1>3. \A S \in {0 .. 4, 5 .. 6} : S \in SUBSET (0 .. CHIP_DATA[c.type].local - 1)
  BY <1>2
<1>4. /\ \A i \in 0 .. 4 : Then(low, <<c.id, i>>, Val(c, i))
      /\ \A i : i \notin 0 .. 4 => Silent(low, <<c.id, i>>)
      /\ \A i \in 5 .. 6 : Then(high, <<c.id, i>>, Val(c, i))
      /\ \A i : i \notin 5 .. 6 => Silent(high, <<c.id, i>>)
  <2>1. LatchesFollow(c, <<>>, FALSE)
    BY DEF Follows
  <2>2. /\ 0 .. 4 \in SUBSET (0 .. CHIP_DATA[c.type].local - 1)
        /\ 5 .. 6 \in SUBSET (0 .. CHIP_DATA[c.type].local - 1)
    BY <1>3
  <2>3. 4 \in 1 .. 27 /\ 2 \in 1 .. 27
    OBVIOUS
  <2> QED
    BY <2>1, <2>2, <2>3, LatchAims, Zenon
<1>5. low \in Seq(T) /\ high \in Seq(T) /\ acts \in Seq(T) /\ carries \in Seq(T)
  BY <1>1 DEF OutsOf, LatchesOf
<1>6. ~High(c, 7) => /\ carries = <<>>
                     /\ \A i \in 0 .. 4 : Aims(c, acts, i, 0)
  <2> SUFFICES ASSUME ~High(c, 7)
               PROVE  carries = <<>> /\ \A i \in 0 .. 4 : Aims(c, acts, i, 0)
    OBVIOUS
  <2>1. CASE Moved(c, 7)
    <3> DEFINE f == [i \in 0 .. 4 |-> Out(c, i, 0, IF i = 4 THEN 9 ELSE 6)]
    <3>1. acts = Each(f)
      BY <2>1 DEF CounterActs
    <3>2. \A i \in DOMAIN f : /\ i \in Writes(c)
                              /\ \E v \in Level, d \in 1 .. 27 : f[i] = Out(c, i, v, d)
      <4>1. \A i \in 0 .. 4 : /\ i \in Writes(c) /\ 0 \in Level
                              /\ (IF i = 4 THEN 9 ELSE 6) \in 1 .. 27
        BY <1>2 DEF Level
      <4> QED
        BY <4>1
    <3>3. \A i \in 0 .. 4 : i \in DOMAIN f /\ f[i].val = 0
      BY DEF Out
    <3> HIDE DEF f, acts
    <3>4. \A i \in 0 .. 4 : Aims(c, acts, i, 0)
      BY <3>1, <3>2, <3>3, OutsAim
    <3> QED
      BY <3>4 DEF CounterCarries
  <2>2. CASE ~Moved(c, 7)
    <3>1. acts = <<>> /\ carries = <<>>
      BY <2>2 DEF CounterActs, CounterCarries, Clocked
    <3>2. Held(c, {7}, FALSE)
      BY <2>2 DEF Held, Stable
    <3> QED
      BY <3>1, <3>2 DEF Follows, StaysClear
  <2> QED
    BY <2>1, <2>2
<1> HIDE DEF low, high, acts, carries, T
<1>7. low \o high \in Seq(T) /\ low \o high \o acts \in Seq(T)
  BY <1>5
<1>8. ASSUME NEW i \in 0 .. 6
      PROVE  Then(step74AC161(c), <<c.id, i>>, Val(c, i))
  <2>1. Then(low \o high, <<c.id, i>>, Val(c, i))
    <3>1. CASE i \in 0 .. 4
      <4>1. Then(low, <<c.id, i>>, Val(c, i)) /\ Silent(high, <<c.id, i>>)
        BY <1>4, <3>1
      <4> QED
        BY <1>5, <4>1, ThenConcat
    <3>2. CASE i \in 5 .. 6
      <4>1. Silent(low, <<c.id, i>>) /\ Then(high, <<c.id, i>>, Val(c, i))
        BY <1>4, <3>2
      <4> QED
        BY <1>5, <4>1, ThenConcat
    <3> QED
      BY <3>1, <3>2
  <2>2. Silent(acts, <<c.id, i>>) /\ Silent(carries, <<c.id, i>>)
    <3>1. <<c.id, i>> \in Locals(c)
      BY <1>2 DEF Locals
    <3> QED
      BY <1>1, <3>1, OutsOnly
  <2>3. Then((low \o high) \o acts, <<c.id, i>>, Val(c, i))
    BY <1>5, <1>7, <2>1, <2>2, ThenConcat
  <2>4. Then(((low \o high) \o acts) \o carries, <<c.id, i>>, Val(c, i))
    BY <1>5, <1>7, <2>2, <2>3, ThenConcat
  <2> QED
    BY <1>1, <2>4
<1>9. LatchesFollow(c, step74AC161(c), TRUE)
  BY <1>2, <1>8 DEF LatchesFollow
<1>10. ASSUME ~High(c, 7), NEW i \in 0 .. 4
       PROVE  Aims(c, step74AC161(c), i, 0)
  <2> SUFFICES ASSUME c.out[i] # Null
               PROVE  Then(step74AC161(c), Net(c.out[i]), 0)
    BY DEF Aims
  <2> DEFINE n == Net(c.out[i])
  <2>1. Silent(low, n) /\ Silent(high, n)
    BY <1>1, LatchesOnly
  <2>2. Then(acts, n, 0)
    BY <1>6, <1>10 DEF Aims
  <2>3. Silent(carries, n)
    BY <1>6, <1>10 DEF Silent
  <2> HIDE DEF n
  <2>4. Silent(low \o high, n)
    BY <1>5, <2>1, ConcatSilent
  <2>5. Then((low \o high) \o acts, n, 0)
    BY <1>5, <1>7, <2>2, <2>4, ThenConcat
  <2>6. Then(((low \o high) \o acts) \o carries, n, 0)
    BY <1>5, <1>7, <2>3, <2>5, ThenConcat
  <2> QED
    BY <1>1, <2>6 DEF n
<1>11. StaysClear(c, step74AC161(c), TRUE)
  BY <1>10 DEF StaysClear
<1>12. c.type \notin DOMAIN Gate /\ ~IsMux(c) /\ c.type # "_74HC283"
  BY DEF IsMux, Gate
<1> QED
  BY <1>9, <1>11, <1>12, FollowsAlone DEF Follows

LEMMA ChipFollows ==
  ASSUME SimInv, NEW c, Steps(c), Apart(c), Follows(c, <<>>, FALSE)
  PROVE  Follows(c, stepChip(c), TRUE)
<1>1. c.type \in DOMAIN CHIP_DATA
  BY DEF Steps, ChipOK
<1>2. \/ c.type \in DOMAIN Gate
      \/ c.type \in {"_74AC157", "_74AC153"}
      \/ c.type \in {"CLK40M", "_74AC161", "_74HC283", "_74HC377"}
  BY <1>1 DEF CHIP_DATA, Gate
<1>3. CASE c.type \in DOMAIN Gate
  BY <1>3, GatesFollowStep DEF stepChip, Gate
<1>4. CASE c.type \in {"_74AC157", "_74AC153"}
  BY <1>4, MuxesFollowStep DEF stepChip, Gate, IsMux
<1>5. CASE c.type = "CLK40M"
  <2>1. CHIP_DATA[c.type].local = 0 /\ c.type \notin DOMAIN Gate /\ ~IsMux(c)
    BY <1>5 DEF IsMux, Gate, CHIP_DATA, ChipData
  <2> QED
    BY <1>5, <2>1, FollowsAlone DEF Follows
<1>6. CASE c.type = "_74AC161"
  BY <1>6, CounterFollowsStep DEF stepChip, Gate
<1>7. CASE c.type = "_74HC283"
  BY <1>7, AdderFollowsStep DEF stepChip, Gate
<1>8. CASE c.type = "_74HC377"
  BY <1>8, RegisterFollowsStep DEF stepChip, Gate
<1> QED
  BY <1>2, <1>3, <1>4, <1>5, <1>6, <1>7, <1>8

-----------------------------------------------------------------------------
(* No net is driven by two outputs.                                        *)
OneDriver ==
  \A j, k \in DOMAIN chip_vec : /\ Apart(chip_vec[j])
                                /\ j # k => Driven(chip_vec[j]) \cap Driven(chip_vec[k]) = {}

(* The user drives no net that a chip drives.                              *)
UserLeavesDriven ==
  pc = "idle" /\ AllWired =>
    \A k \in DOMAIN chip_vec : \A n \in Driven(chip_vec[k]) : level'[n] = level[n]

Marked == pc \in {"top", "bus", "net", "chip", "pins"} =>
            {0} \X (0 .. Len(names) - 1) \subseteq changed

SettleInv ==
  /\ Marked
  /\ pc \in {"idle", "nano", "step"} /\ AllWired =>
       \A k \in DOMAIN chip_vec : Follows(chip_vec[k], todo, pc = "step")

(* The multiplexer that is chip k goes on showing the selected inputs.     *)
ShowsOn(k) ==
  LET c == chip_vec[k] IN
    IsMux(c) /\ ~Disabled(c) => \A i \in DOMAIN c.out :
      Shown(c, todo, i, pc = "step") => Shown(c, todo, i, pc = "step")'

AllShowOn == Running /\ Running' => \A k \in DOMAIN chip_vec : ShowsOn(k)

LEMMA ChipSteps ==
  ASSUME SimInv, AllWired, NEW k \in DOMAIN chip_vec
  PROVE  Steps(chip_vec[k]) /\ chip_vec[k].id = k
<1>1. ChipOK(chip_vec[k], k) /\ Wired(chip_vec[k])
  BY DEF SimInv, ParserInv, AllWired
<1>2. k \in Nat \ {0}
  BY DEF SimInv, ParserInv, IsSeq
<1> QED
  BY <1>1, <1>2 DEF Steps, ChipOK

(* Whatever a chip's nets head for once its own updates are added, they    *)
(* head for once those of all chips are.                                   *)
LEMMA OthersSilent ==
  ASSUME SimInv, AllWired, OneDriver, NEW k \in DOMAIN chip_vec, NEW v,
         NEW n \in Driven(chip_vec[k]) \cup Locals(chip_vec[k]),
         Then(stepChip(chip_vec[k]), n, v)
  PROVE  Then(FlattenSeq([j \in DOMAIN chip_vec |-> stepChip(chip_vec[j])]), n, v)
<1> DEFINE ss == [j \in DOMAIN chip_vec |-> stepChip(chip_vec[j])]
           S == Seq(AddedNow)
<1>1. DOMAIN chip_vec = 1 .. Len(chip_vec) /\ Len(chip_vec) \in Nat
  BY DEF SimInv, ParserInv, IsSeq
<1>2. ASSUME NEW j \in DOMAIN chip_vec
      PROVE  /\ stepChip(chip_vec[j]) \in Seq(AddedBy(chip_vec[j]))
             /\ stepChip(chip_vec[j]) \in S
  <2>1. stepChip(chip_vec[j]) \in Seq(AddedBy(chip_vec[j]))
    BY ChipSteps, ChipsAdd
  <2> QED
    BY <2>1 DEF AddedBy
<1>3. ss \in Seq(S)
  <2>1. ss \in [1 .. Len(chip_vec) -> S]
    <3> HIDE DEF S
    <3> QED
      BY <1>1, <1>2
  <2> HIDE DEF ss, S
  <2> QED
    BY <1>1, <2>1, FunctionIsSeq
<1>4. n # Null /\ \A m : m \in Driven(chip_vec[k]) => m[1] = 0
  <2>1. \A m \in Driven(chip_vec[k]) : m \in Nets /\ m[1] = 0
    <3> TAKE m \in Driven(chip_vec[k])
    <3>1. PICK i \in Writes(chip_vec[k]) : /\ chip_vec[k].out[i] # Null
                                           /\ m = Net(chip_vec[k].out[i])
      BY DEF Driven
    <3>2. Live(chip_vec[k].out[i])
      BY <3>1 DEF AllWired, Wired
    <3> QED
      BY <3>1, <3>2, LiveNet DEF Net
  <2>2. Locals(chip_vec[k]) \subseteq Nets
    BY DEF SimInv, ParserInv, ChipOK
  <2> QED
    BY <2>1, <2>2, ChipsAssumption
<1>5. ASSUME NEW j \in DOMAIN chip_vec \ {k}
      PROVE  Silent(ss[j], n)
  <2> DEFINE s == stepChip(chip_vec[j])
  <2>1. \A i \in DOMAIN s : s[i].target \in Driven(chip_vec[j]) \cup Locals(chip_vec[j]) \cup {Null}
    <3>1. s \in Seq(AddedBy(chip_vec[j]))
      BY <1>2
    <3> HIDE DEF s
    <3>2. \A i \in DOMAIN s : s[i] \in AddedBy(chip_vec[j])
      BY <3>1
    <3> QED
      BY <3>2 DEF AddedBy
  <2>2. n \notin Driven(chip_vec[j]) \cup Locals(chip_vec[j]) \cup {Null}
    <3>1. \A m \in Locals(chip_vec[j]) : m[1] = j
      BY ChipSteps DEF Locals
    <3>2. \A m \in Locals(chip_vec[k]) : m[1] = k
      BY ChipSteps DEF Locals
    <3>3. \A m \in Driven(chip_vec[j]) : m[1] = 0
      BY DEF Driven, Net
    <3>4. j # k /\ j # 0 /\ k # 0
      BY <1>1
    <3> QED
      BY <1>4, <3>1, <3>2, <3>3, <3>4 DEF OneDriver
  <2> HIDE DEF s
  <2>3. Silent(s, n)
    BY <2>1, <2>2 DEF Silent
  <2> QED
    BY <2>3 DEF s
<1>6. DOMAIN ss = DOMAIN chip_vec /\ ss[k] = stepChip(chip_vec[k])
  OBVIOUS
<1> HIDE DEF ss
<1>7. CASE Ends(ss[k], n, v)
  <2>1. Ends(FlattenSeq(ss), n, v)
    BY <1>3, <1>5, <1>6, <1>7, FlattenEnds
  <2> QED
    BY <2>1 DEF Then, ss
<1>8. CASE Silent(ss[k], n) /\ HeadsFor(n, v)
  <2>1. \A j \in DOMAIN ss : Silent(ss[j], n)
    BY <1>5, <1>6, <1>8
  <2>2. Silent(FlattenSeq(ss), n)
    BY <1>3, <2>1, FlattenSilent
  <2> QED
    BY <1>8, <2>2 DEF Then, ss
<1> QED
  BY <1>6, <1>7, <1>8 DEF Then

LEMMA OwnNets ==
  ASSUME SimInv, NEW c, Steps(c), NEW n \in Driven(c) \cup Locals(c)
  PROVE  n \in Nets
<1>1. CASE n \in Driven(c)
  <2>1. PICK i \in Writes(c) : c.out[i] # Null /\ n = Net(c.out[i])
    BY <1>1 DEF Driven
  <2> QED
    BY <2>1, LiveNet DEF Steps, Wired
<1>2. CASE n \in Locals(c)
  BY <1>2 DEF Steps, ChipOK
<1> QED
  BY <1>1, <1>2

LEMMA SettleInit == Init => SettleInv
<1> SUFFICES ASSUME Init
             PROVE  SettleInv
  OBVIOUS
<1>1. pc = "top" /\ names = <<>>
  BY DEF Init, CircuitInit
<1>2. 0 .. Len(names) - 1 = {}
  BY <1>1
<1> QED
  BY <1>1, <1>2 DEF SettleInv, Marked

(* While nothing a chip reads or drives changes, what it follows holds on. *)
LEMMA SettleStays ==
  ASSUME SimInv, SettleInv, pc \in {"idle", "nano"}, pc' \in {"idle", "nano", "quit", "undefined"},
         UNCHANGED <<parserVars, updates, todo>>,
         \A n \in Nets : level'[n] # level[n] => n \in changed', changed \subseteq changed',
         (pc = "idle" /\ UserLeavesDriven) \/ level' = level,
         AllWired => \A k \in DOMAIN chip_vec : \A n \in Locals(chip_vec[k]) : level'[n] = level[n]
  PROVE  SettleInv' /\ AllShowOn
<1>1. Marked'
  BY DEF Marked
<1>2. AllWired' = AllWired
  BY DEF AllWired, Wired, Live, parserVars
<1>3. ASSUME AllWired, pc' \in {"idle", "nano"}, NEW k \in DOMAIN chip_vec
      PROVE  Follows(chip_vec[k], todo, pc = "step")' /\ ShowsOn(k)
  <2>1. PICK c, s : c = chip_vec[k] /\ s = todo
    OBVIOUS
  <2>2. c = chip_vec'[k] /\ s = todo' /\ Steps(c)
    BY <1>3, <2>1, ChipSteps DEF parserVars
  <2>3. Follows(c, s, FALSE)
    BY <1>3, <2>1 DEF SettleInv
  <2>4. ASSUME NEW i \in DOMAIN c.in
        PROVE  FALSE \/ ~Moved(c, i)' => (FALSE \/ ~Moved(c, i)) /\ Val(c, i)' = Val(c, i)
    <3>1. Live(c.in[i])
      BY <2>2 DEF Steps, Wired
    <3>2. Net(c.in[i]) \in Nets
      BY <3>1, LiveNet
    <3> QED
      BY <3>2 DEF Moved, Val
  <2>5. \A n \in Driven(c) \cup Locals(c) : level'[n] = level[n]
    BY <1>3, <2>1 DEF UserLeavesDriven
  <2>6. \A n \in Driven(c) \cup Locals(c), v \in Level : Then(s, n, v) => Then(s, n, v)'
    BY <2>5 DEF Then, HeadsFor, Pending
  <2>7. Follows(c, s, FALSE)' /\ Tracks(c, s, s, FALSE, FALSE)
    BY <2>2, <2>3, <2>4, <2>6, FollowsKept
  <2>8. ShowsOn(k)
    BY <1>3, <2>1, <2>2, <2>7 DEF ShowsOn, Tracks
  <2> QED
    BY <1>3, <2>2, <2>7, <2>8
<1>4. SettleInv'
  BY <1>1, <1>2, <1>3 DEF SettleInv, parserVars
<1>5. AllShowOn
  BY <1>3 DEF AllShowOn, Running
<1> QED
  BY <1>4, <1>5

LEMMA SettleAdded ==
  ASSUME SimInv, SInv, SettleInv, AddUpdate
  PROVE  SettleInv' /\ AllShowOn
<1>1. pc = "step" /\ pc' = "step" /\ UNCHANGED parserVars
  BY DEF AddUpdate
<1>2. UNCHANGED <<level, changed>>
  BY DEF AddUpdate, addNetUpdate, scheduleVars
<1>3. AllWired' = AllWired
  BY <1>1 DEF AllWired, Wired, Live, parserVars
<1>4. ASSUME AllWired, NEW k \in DOMAIN chip_vec
      PROVE  Follows(chip_vec[k], todo, TRUE)' /\ ShowsOn(k)
  <2>1. PICK c, s, t : c = chip_vec[k] /\ s = todo /\ t = todo'
    OBVIOUS
  <2>2. c = chip_vec'[k] /\ Steps(c)
    BY <1>1, <1>4, <2>1, ChipSteps DEF parserVars
  <2>3. Follows(c, s, TRUE)
    BY <1>1, <1>4, <2>1 DEF SettleInv
  <2>4. \A i \in DOMAIN c.in : TRUE \/ ~Moved(c, i)' =>
          (TRUE \/ ~Moved(c, i)) /\ Val(c, i)' = Val(c, i)
    BY <1>2 DEF Val
  <2>5. \A n \in Driven(c) \cup Locals(c) : n \in Nets
    BY <2>2, OwnNets
  <2>6. ASSUME NEW n \in Driven(c) \cup Locals(c), NEW v \in Level, Then(s, n, v)
        PROVE  Then(t, n, v)'
    <3>1. Then(todo, n, v)'
      BY <2>1, <2>5, <2>6, ThenKept
    <3> QED
      BY <2>1, <3>1 DEF Then
  <2>7. Follows(c, t, TRUE)' /\ Tracks(c, s, t, TRUE, TRUE)
    BY <2>2, <2>3, <2>4, <2>6, FollowsKept
  <2>8. ShowsOn(k)
    BY <1>1, <2>1, <2>2, <2>7 DEF ShowsOn, Tracks
  <2> QED
    BY <2>1, <2>2, <2>7, <2>8
<1>5. SettleInv'
  BY <1>1, <1>3, <1>4 DEF SettleInv, Marked, parserVars
<1>6. AllShowOn
  BY <1>4 DEF AllShowOn, Running
<1> QED
  BY <1>5, <1>6

LEMMA SettlePassed ==
  ASSUME SimInv, SInv, SettleInv, PassTime
  PROVE  SettleInv' /\ AllShowOn
<1>1. pc = "step" /\ pc' = "nano" /\ todo = <<>> /\ todo' = <<>> /\ Pass /\ UNCHANGED parserVars
  BY DEF PassTime
<1>2. AllWired' = AllWired
  BY <1>1 DEF AllWired, Wired, Live, parserVars
<1>3. ASSUME AllWired, NEW k \in DOMAIN chip_vec
      PROVE  Follows(chip_vec[k], todo, FALSE)' /\ ShowsOn(k)
  <2>1. PICK c, s : c = chip_vec[k] /\ s = todo
    OBVIOUS
  <2>2. c = chip_vec'[k] /\ Steps(c) /\ s = <<>> /\ s = todo'
    BY <1>1, <1>3, <2>1, ChipSteps DEF parserVars
  <2>3. Follows(c, s, TRUE)
    BY <1>1, <1>3, <2>1 DEF SettleInv
  <2>4. ASSUME NEW i \in DOMAIN c.in
        PROVE  FALSE \/ ~Moved(c, i)' => (TRUE \/ ~Moved(c, i)) /\ Val(c, i)' = Val(c, i)
    <3>1. Live(c.in[i])
      BY <2>2 DEF Steps, Wired
    <3>2. Net(c.in[i]) \in Wires /\ Net(c.in[i]) \in Nets
      BY <3>1, LiveNet
    <3> QED
      BY <1>1, <3>2 DEF Pass, Moved, Val
  <2>5. \A n \in Driven(c) \cup Locals(c) : n \in Nets
    BY <2>2, OwnNets
  <2>6. ASSUME NEW n \in Driven(c) \cup Locals(c), NEW v \in Level, Then(s, n, v)
        PROVE  Then(s, n, v)'
    <3>1. HeadsFor(n, v)
      BY <2>2, <2>6, ThenNow
    <3>2. HeadsFor(n, v)'
      BY <1>1, <2>5, <3>1, HeadingKept
    <3> QED
      BY <2>2, <3>2 DEF Then, Silent
  <2>7. Follows(c, s, FALSE)' /\ Tracks(c, s, s, TRUE, FALSE)
    BY <2>2, <2>3, <2>4, <2>6, FollowsKept
  <2>8. ShowsOn(k)
    BY <1>1, <2>1, <2>2, <2>7 DEF ShowsOn, Tracks
  <2> QED
    BY <2>2, <2>7, <2>8
<1>4. SettleInv'
  BY <1>1, <1>2, <1>3 DEF SettleInv, Marked, parserVars
<1>5. AllShowOn
  BY <1>3 DEF AllShowOn, Running
<1> QED
  BY <1>4, <1>5

LEMMA SettleStepped ==
  ASSUME SimInv, SettleInv, Ready => OneDriver, StepChips
  PROVE  SettleInv' /\ AllShowOn
<1>1. CASE ~AllWired
  BY <1>1 DEF SettleInv, Marked, StepChips, AllShowOn, Running
<1>2. CASE AllWired
  <2>1. /\ pc = "nano" /\ pc' = "step" /\ UNCHANGED <<parserVars, scheduleVars>>
        /\ todo' = FlattenSeq([j \in DOMAIN chip_vec |-> stepChip(chip_vec[j])])
    BY <1>2 DEF StepChips
  <2>2. todo = <<>> /\ OneDriver
    BY <1>2, <2>1 DEF SimInv, SimulatorTypeOK, Ready
  <2>3. ASSUME NEW k \in DOMAIN chip_vec
        PROVE  Follows(chip_vec[k], todo, TRUE)' /\ ShowsOn(k)
    <3>1. PICK c, s, t : c = chip_vec[k] /\ s = stepChip(chip_vec[k]) /\ t = todo'
      OBVIOUS
    <3>2. c = chip_vec'[k] /\ Steps(c) /\ Apart(c)
      BY <1>2, <2>1, <2>2, <3>1, ChipSteps DEF parserVars, OneDriver
    <3>3. Follows(c, <<>>, FALSE)
      BY <1>2, <2>1, <2>2, <3>1 DEF SettleInv
    <3>4. Follows(c, s, TRUE)
      BY <3>1, <3>2, <3>3, ChipFollows
    <3>5. \A i \in DOMAIN c.in : TRUE \/ ~Moved(c, i)' =>
            (TRUE \/ ~Moved(c, i)) /\ Val(c, i)' = Val(c, i)
      BY <2>1 DEF Val, scheduleVars
    <3>6. ASSUME NEW n \in Driven(c) \cup Locals(c), NEW v \in Level, Then(s, n, v)
          PROVE  Then(t, n, v)'
      <4>1. Then(t, n, v)
        BY <1>2, <2>1, <2>2, <3>1, <3>6, OthersSilent
      <4> QED
        BY <2>1, <4>1 DEF Then, HeadsFor, Pending, scheduleVars
    <3>7. Follows(c, t, TRUE)' /\ Tracks(c, s, t, TRUE, TRUE)
      BY <3>2, <3>4, <3>5, <3>6, FollowsKept
    <3>8. IsMux(c) /\ ~Disabled(c) => \A i \in DOMAIN c.out :
            Shown(c, <<>>, i, FALSE) => Shown(c, s, i, TRUE)
      <4>1. IsMux(c) => s = StepMux(c)
        BY <3>1 DEF IsMux, stepChip, Gate
      <4> QED
        BY <3>2, <3>3, <4>1, MuxesFollowStep
    <3>9. ShowsOn(k)
      BY <2>1, <2>2, <3>1, <3>2, <3>7, <3>8 DEF ShowsOn, Tracks
    <3> QED
      BY <3>1, <3>2, <3>7, <3>9
  <2>4. SettleInv'
    BY <2>1, <2>3 DEF SettleInv, Marked, parserVars
  <2>5. AllShowOn
    BY <2>3 DEF AllShowOn, Running
  <2> QED
    BY <2>4, <2>5
<1> QED
  BY <1>1, <1>2

LEMMA SettleCommand ==
  ASSUME SimInv, SettleInv, enterInterface, UserLeavesDriven
  PROVE  SettleInv' /\ AllShowOn
<1>1. /\ pc = "idle" /\ pc' \in {"idle", "nano", "quit"}
      /\ UNCHANGED <<parserVars, updates, todo>>
  BY DEF enterInterface, runCommandNano, runCommandQuit, setBus, setNet, setNetOfBus, SetNets,
         Refuse, scheduleVars
<1>2. Drive \/ UNCHANGED scheduleVars
  BY CommandInv
<1>3. /\ \A n \in Nets : level'[n] # level[n] => n \in changed'
      /\ changed \subseteq changed'
      /\ \A n \in Nets \ Wires : level'[n] = level[n]
  BY <1>2 DEF Drive, scheduleVars
<1>4. ASSUME AllWired, NEW k \in DOMAIN chip_vec, NEW n \in Locals(chip_vec[k])
      PROVE  n \in Nets \ Wires
  <2>1. Steps(chip_vec[k])
    BY <1>4, ChipSteps
  <2>2. n \in Nets
    BY <1>4, <2>1, OwnNets
  <2>3. n[1] # 0
    BY <1>4, <2>1 DEF Locals, Steps
  <2> QED
    BY <2>2, <2>3, CircuitAssumption
<1> QED
  BY <1>1, <1>3, <1>4, SettleStays

LEMMA SettleParsed ==
  ASSUME SimInv, SettleInv, initCircuit, UNCHANGED <<todo, count, typed>>
  PROVE  SettleInv'
<1>1. CASE EndOfFile
  <2>1. /\ pc = "top" /\ pc' = "idle"
        /\ UNCHANGED <<names, chip_vec, buf, level, changed, updates, todo>>
    BY <1>1 DEF EndOfFile
  <2>2. AllWired' = AllWired
    BY <1>1 DEF AllWired, Wired, Live, EndOfFile
  <2>3. ASSUME AllWired, NEW k \in DOMAIN chip_vec
        PROVE  Follows(chip_vec[k], todo, FALSE)'
    <3>1. PICK c, s : c = chip_vec[k] /\ s = todo
      OBVIOUS
    <3>2. c = chip_vec'[k] /\ s = todo' /\ Steps(c)
      BY <1>1, <2>3, <3>1, ChipSteps DEF EndOfFile
    <3>3. Follows(c, s, FALSE)
      BY <2>1, <3>2, FollowsMarked DEF SettleInv, Marked
    <3>4. \A i \in DOMAIN c.in : FALSE \/ ~Moved(c, i)' =>
            (FALSE \/ ~Moved(c, i)) /\ Val(c, i)' = Val(c, i)
      BY <1>1 DEF EndOfFile, Moved, Val
    <3>5. \A n \in Driven(c) \cup Locals(c), v \in Level : Then(s, n, v) => Then(s, n, v)'
      BY <1>1 DEF EndOfFile, Then, HeadsFor, Pending
    <3>6. Follows(c, s, FALSE)'
      BY <3>2, <3>3, <3>4, <3>5, FollowsKept
    <3> QED
      BY <3>2, <3>6
  <2> QED
    BY <1>1, <2>1, <2>2, <2>3 DEF SettleInv, Marked, EndOfFile
<1>2. CASE parseBusDef \/ parseNetDef
  <2>1. /\ pc' = pc /\ pc \in {"bus", "net"}
        /\ \/ UNCHANGED <<names, changed>>
           \/ \E new \in Seq(NetName), val \in Level : AddNets(new, val)
    <3>1. CASE parseBusDef
      <4>1. CASE Tok(2).num = 0
        BY <3>1, <4>1 DEF parseBusDef
      <4>2. CASE Tok(2).num # 0
        <5> DEFINE new == [i \in 1 .. Tok(2).num |-> ""]
        <5>1. Tok(2).num \in Nat
          BY <3>1, TokenTyped DEF parseBusDef
        <5>2. new \in Seq(NetName)
          BY <5>1, NoNames
        <5>3. AddNets(new, 0)
          BY <3>1, <4>2 DEF parseBusDef
        <5> HIDE DEF new
        <5> QED
          BY <3>1, <5>2, <5>3 DEF parseBusDef, Level
      <4> QED
        BY <4>1, <4>2
    <3>2. CASE parseNetDef
      <4>1. PICK val \in Level : AddNets(<<Tok(1).str>>, val)
        BY <3>2 DEF parseNetDef, Level
      <4>2. Tok(1).str \in NetName
        BY <3>2, TokenTyped DEF parseNetDef, NetName
      <4>3. <<Tok(1).str>> \in Seq(NetName)
        BY <4>2
      <4> QED
        BY <3>2, <4>1, <4>3 DEF parseNetDef
    <3> QED
      BY <1>2, <3>1, <3>2
  <2>2. ASSUME NEW new \in Seq(NetName), NEW val \in Level, AddNets(new, val)
        PROVE  {0} \X (0 .. Len(names') - 1) \subseteq changed'
    <3>1. /\ Len(names) \in Nat /\ Len(new) \in Nat /\ Len(names') = Len(names) + Len(new)
          /\ changed' = changed \cup ({0} \X (Len(names) .. Len(names) + Len(new) - 1))
      BY <2>2 DEF AddNets, SimInv, ParserInv
    <3>2. 0 .. Len(names') - 1 \subseteq 0 .. Len(names) - 1
                                        \cup (Len(names) .. Len(names) + Len(new) - 1)
      BY <3>1
    <3> QED
      BY <2>1, <3>1, <3>2 DEF SettleInv, Marked
  <2> QED
    BY <2>1, <2>2 DEF SettleInv, Marked
<1>3. CASE BeginSection \/ EndSection \/ AddChip \/ EndChip \/ assignNets \/ (Unexpected /\ Abort)
  BY <1>3 DEF BeginSection, EndSection, AddChip, EndChip, assignNets, Unexpected, Abort,
              SettleInv, Marked
<1> QED
  BY <1>1, <1>2, <1>3 DEF initCircuit

LEMMA SettleStutter ==
  ASSUME SimInv, SettleInv, UNCHANGED simulatorVars
  PROVE  SettleInv'
<1>1. UNCHANGED <<pc, names, chip_vec, buf, level, changed, updates, todo>>
  BY DEF simulatorVars, circuitVars
<1>2. AllWired' = AllWired /\ Marked' = Marked
  BY <1>1 DEF AllWired, Wired, Live, Marked
<1>3. ASSUME AllWired, pc \in {"idle", "nano", "step"}, NEW k \in DOMAIN chip_vec
      PROVE  Follows(chip_vec[k], todo, pc = "step")'
  <2>0. PICK free \in BOOLEAN : free = (pc = "step")
    OBVIOUS
  <2>1. PICK c, s : c = chip_vec[k] /\ s = todo
    OBVIOUS
  <2>2. Follows(c, s, free) /\ Steps(c)
    BY <1>3, <2>0, <2>1, ChipSteps DEF SettleInv
  <2>3. \A i \in DOMAIN c.in : free \/ ~Moved(c, i)' =>
          (free \/ ~Moved(c, i)) /\ Val(c, i)' = Val(c, i)
    BY <1>1 DEF Moved, Val
  <2>4. \A n \in Driven(c) \cup Locals(c), v \in Level : Then(s, n, v) => Then(s, n, v)'
    BY <1>1 DEF Then, HeadsFor, Pending
  <2>5. Follows(c, s, free)'
    BY <2>2, <2>3, <2>4, FollowsKept
  <2>6. c = chip_vec'[k] /\ s = todo' /\ free = (pc' = "step")
    BY <1>1, <2>0, <2>1
  <2> QED
    BY <2>5, <2>6
<1> QED
  BY <1>1, <1>2, <1>3 DEF SettleInv

LEMMA ParserRuns == initCircuit => pc \in {"top", "bus", "net", "chip", "pins"}
<1>1. BeginSection \/ EndSection \/ EndOfFile => pc \in {"top", "bus", "net", "chip", "pins"}
  BY DEF BeginSection, EndSection, EndOfFile
<1>2. parseBusDef \/ parseNetDef => pc \in {"top", "bus", "net", "chip", "pins"}
  BY DEF parseBusDef, parseNetDef
<1>3. AddChip \/ EndChip \/ assignNets => pc \in {"top", "bus", "net", "chip", "pins"}
  BY DEF AddChip, EndChip, assignNets
<1>4. Unexpected => pc \in {"top", "bus", "net", "chip", "pins"}
  BY DEF Unexpected
<1> QED
  BY <1>1, <1>2, <1>3, <1>4 DEF initCircuit

LEMMA SettleNext ==
  ASSUME SimInv, SInv, SettleInv, Ready => OneDriver, Next, [UserLeavesDriven]_simulatorVars
  PROVE  SettleInv' /\ (UNCHANGED simulatorVars \/ AllShowOn)
<1>1. CASE initCircuit /\ UNCHANGED <<todo, count, typed>>
  <2>1. AllShowOn
    BY <1>1, ParserRuns DEF AllShowOn, Running
  <2> QED
    BY <1>1, <2>1, SettleParsed
<1>2. CASE StepChips
  BY <1>2, SettleStepped
<1>3. CASE AddUpdate
  BY <1>3, SettleAdded
<1>4. CASE PassTime
  BY <1>4, SettlePassed
<1>5. CASE EndNano
  <2>1. /\ pc = "nano" /\ pc' = "idle" /\ UNCHANGED <<parserVars, updates, todo, level, changed>>
    BY <1>5 DEF EndNano, scheduleVars
  <2>2. \A k \in DOMAIN chip_vec : \A n \in Locals(chip_vec[k]) : level'[n] = level[n]
    BY <2>1
  <2> QED
    BY <2>1, <2>2, SettleStays
<1>6. CASE enterInterface
  <2>1. CASE UserLeavesDriven
    BY <1>6, <2>1, SettleCommand
  <2>2. CASE UNCHANGED simulatorVars
    BY <2>2, SettleStutter
  <2> QED
    BY <2>1, <2>2
<1> QED
  BY <1>1, <1>2, <1>3, <1>4, <1>5, <1>6 DEF Next

(* A circuit in which no net has two drivers, under a user who drives no   *)
(* net that a chip drives.                                                 *)
WellDriven == /\ Spec
              /\ [](Ready => OneDriver)
              /\ [][UserLeavesDriven]_simulatorVars

LEMMA SettleAlways == WellDriven => [](SimInv /\ SettleInv)
<1>1. SimInv /\ SInv /\ SettleInv /\ (Ready => OneDriver) /\ [Next]_simulatorVars
        /\ [UserLeavesDriven]_simulatorVars => SettleInv'
  BY SettleNext, SettleStutter
<1> QED
  BY <1>1, SettleInit, SimInvAlways, PTL DEF WellDriven, Spec

LEMMA ReadyFollows ==
  ASSUME SimInv, SettleInv, Ready, NEW k \in DOMAIN chip_vec
  PROVE  Follows(chip_vec[k], <<>>, FALSE) /\ Steps(chip_vec[k])
<1>1. pc # "step" /\ todo = <<>> /\ AllWired
  BY DEF SimInv, SimulatorTypeOK, Ready
<1> QED
  BY <1>1, ChipSteps DEF SettleInv, Ready

LEMMA AimsDrives == \A c, i, v : Aims(c, <<>>, i, v) => Drives(c, i, v)
BY ThenNow DEF Aims, Drives

(* In such a circuit, whatever its chips and whatever glitches passed      *)
(* through them, every gate and adder whose inputs rest heads for the      *)
(* function of those inputs, and every latch for its input                 *)
(* (chip.c:116-205, 274-278, 313-350).                                     *)
THEOREM OutputsSettle == WellDriven => []OutputsFollow
<1>1. SimInv /\ SettleInv => OutputsFollow
  <2> SUFFICES ASSUME SimInv, SettleInv, Ready, NEW k \in DOMAIN chip_vec
               PROVE  LET c == chip_vec[k] IN
                /\ c.type \in DOMAIN Gate => \A i \in DOMAIN c.out :
                     Stable(c, InputsOf(c, i)) => Drives(c, i, GateVal(c, i))
                /\ c.type = "_74HC283" /\ Stable(c, 0 .. 8) =>
                     \A i \in 0 .. 4 : Drives(c, i, SumVal(c, i))
                /\ c.type = "_74HC377" => \A i \in 0 .. 8 :
                     Stable(c, {i}) => HeadsFor(<<c.id, i>>, Val(c, i))
                /\ c.type = "_74AC161" => \A i \in 0 .. 6 :
                     Stable(c, {i}) => HeadsFor(<<c.id, i>>, Val(c, i))
    BY DEF OutputsFollow
  <2> DEFINE c == chip_vec[k]
  <2>1. Follows(c, <<>>, FALSE)
    BY ReadyFollows
  <2> HIDE DEF c
  <2>2. \A S : Stable(c, S) => Held(c, S, FALSE)
    BY DEF Held
  <2>3. c.type \in DOMAIN Gate => \A i \in DOMAIN c.out :
          Stable(c, InputsOf(c, i)) => Drives(c, i, GateVal(c, i))
    BY <2>1, <2>2, AimsDrives DEF Follows, GatesFollow
  <2>4. c.type = "_74HC283" /\ Stable(c, 0 .. 8) => \A i \in 0 .. 4 : Drives(c, i, SumVal(c, i))
    BY <2>1, <2>2, AimsDrives DEF Follows, AdderFollows
  <2>5. c.type = "_74HC377" => 0 .. CHIP_DATA[c.type].local - 1 = 0 .. 8
    BY DEF CHIP_DATA, ChipData
  <2>6. c.type = "_74AC161" => 0 .. CHIP_DATA[c.type].local - 1 = 0 .. 6
    BY DEF CHIP_DATA, ChipData
  <2>7. \A i \in 0 .. CHIP_DATA[c.type].local - 1 :
          Stable(c, {i}) => HeadsFor(<<c.id, i>>, Val(c, i))
    BY <2>1, <2>2, ThenNow DEF Follows, LatchesFollow
  <2> QED
    BY <2>3, <2>4, <2>5, <2>6, <2>7 DEF c
<1> QED
  BY <1>1, SettleAlways, PTL

(* And every counter held in clear heads for 0 (chip.c:279-286).           *)
THEOREM CountersClear == WellDriven => []ClearHolds
<1>1. SimInv /\ SettleInv => ClearHolds
  <2> SUFFICES ASSUME SimInv, SettleInv, Ready, NEW k \in DOMAIN chip_vec,
                      chip_vec[k].type = "_74AC161", ~High(chip_vec[k], 7),
                      ~Moved(chip_vec[k], 7), NEW i \in 0 .. 4
               PROVE  Drives(chip_vec[k], i, 0)
    BY DEF ClearHolds
  <2>1. Follows(chip_vec[k], <<>>, FALSE)
    BY ReadyFollows
  <2>2. Held(chip_vec[k], {7}, FALSE)
    BY DEF Held, Stable
  <2> QED
    BY <2>1, <2>2, AimsDrives DEF Follows, StaysClear
<1> QED
  BY <1>1, SettleAlways, PTL

(* Selects counts pins as Offset does.                                     *)
LEMMA SelectedIs ==
  ASSUME SimInv, NEW c, Steps(c), IsMux(c), NEW i \in DOMAIN c.out
  PROVE  Selected(c, i) = i + Offset(c)
<1>1. \/ c.type = "_74AC157" /\ DOMAIN c.out = 0 .. 3 /\ DOMAIN c.in = 0 .. 9
      \/ c.type = "_74AC153" /\ DOMAIN c.out = 0 .. 1 /\ DOMAIN c.in = 0 .. 11
  <2>1. /\ DOMAIN c.in = 0 .. CHIP_DATA[c.type].in - 1
        /\ DOMAIN c.out = 0 .. CHIP_DATA[c.type].out - 1
    BY DEF Steps, ChipOK
  <2>2. c.type = "_74AC157" \/ c.type = "_74AC153"
    BY DEF IsMux
  <2>3. CASE c.type = "_74AC157"
    BY <2>1, <2>3 DEF CHIP_DATA, ChipData
  <2>4. CASE c.type = "_74AC153"
    BY <2>1, <2>4 DEF CHIP_DATA, ChipData
  <2> QED
    BY <2>2, <2>3, <2>4
<1>2. Cardinality(0 .. 3) = 4 /\ Cardinality(0 .. 1) = 2
  <2>1. 0 \in Int /\ 1 \in Int /\ 3 \in Int
    OBVIOUS
  <2>2. Cardinality(0 .. 3) = IF 0 > 3 THEN 0 ELSE 3 - 0 + 1
    BY <2>1, FS_Interval, Zenon
  <2>3. Cardinality(0 .. 1) = IF 0 > 1 THEN 0 ELSE 1 - 0 + 1
    BY <2>1, FS_Interval, Zenon
  <2> QED
    BY <2>2, <2>3
<1>3. Val(c, 8) \in {0, 1} /\ Val(c, 9) \in {0, 1}
  BY <1>1, InputLevel DEF Level
<1>4. i \in Int
  BY <1>1
<1>5. CASE c.type = "_74AC157"
  <2>1. Cardinality(DOMAIN c.out) = 4
    BY <1>1, <1>2, <1>5
  <2>2. Selected(c, i) = i + 4 * (Val(c, 8) + 0)
    BY <1>5, <2>1 DEF Selected
  <2> QED
    BY <1>3, <1>4, <1>5, <2>2 DEF Offset
<1>6. CASE c.type = "_74AC153"
  <2>1. Cardinality(DOMAIN c.out) = 2
    BY <1>1, <1>2, <1>6
  <2>2. Selected(c, i) = i + 2 * (Val(c, 8) + 2 * Val(c, 9))
    BY <1>6, <2>1 DEF Selected
  <2> QED
    BY <1>3, <1>4, <1>6, <2>2 DEF Offset
<1> QED
  BY <1>1, <1>5, <1>6

ShowsIsShown ==
  AllWired => \A k \in DOMAIN chip_vec : LET c == chip_vec[k] IN
    IsMux(c) => \A i \in DOMAIN c.out : Shows(c, i) <=> Shown(c, todo, i, pc = "step")

LEMMA ShownAgrees == SimInv => ShowsIsShown
<1> SUFFICES ASSUME SimInv, AllWired, NEW k \in DOMAIN chip_vec, IsMux(chip_vec[k]),
                    NEW i \in DOMAIN chip_vec[k].out
             PROVE  Shows(chip_vec[k], i) <=> Shown(chip_vec[k], todo, i, pc = "step")
  BY DEF ShowsIsShown
<1>1. Selected(chip_vec[k], i) = i + Offset(chip_vec[k])
  BY ChipSteps, SelectedIs
<1> QED
  BY <1>1 DEF Shows, Shown, Seen, Held

(* And every multiplexer shows the input that its select inputs name, as   *)
(* soon as that or the selection moves and for as long as it is enabled,   *)
(* and before that the 0 of its enable (chip.c:207-250).                   *)
THEOREM MuxesSettle == WellDriven => MuxesSelect
<1> DEFINE Muxes ==
             Running /\ Running' =>
               \A k \in DOMAIN chip_vec : LET c == chip_vec[k] IN
                 c.type \in {"_74AC157", "_74AC153"} => \A i \in DOMAIN c.out :
                   /\ (\E e \in Enables(c) : High(c, e) /\ Seen(c, {e}))' => Aims(c, todo, i, 0)'
                   /\ \/ Shows(c, i)'
                      \/ Aims(c, todo, i, 0)' /\ (Disabled(c) \/ ~Shows(c, i))
<1>1. SimInv /\ SInv /\ SettleInv /\ (Ready => OneDriver) /\ ShowsIsShown
        /\ SettleInv' /\ ShowsIsShown'
        /\ [Next]_simulatorVars /\ [UserLeavesDriven]_simulatorVars => [Muxes]_simulatorVars
  <2> SUFFICES ASSUME AllShowOn, ShowsIsShown, SettleInv', ShowsIsShown', Running, Running',
                      UNCHANGED <<chip_vec>>,
                      NEW k \in DOMAIN chip_vec, IsMux(chip_vec[k]), NEW i \in DOMAIN chip_vec[k].out
               PROVE  LET c == chip_vec[k] IN
                        /\ (\E e \in Enables(c) : High(c, e) /\ Seen(c, {e}))' => Aims(c, todo, i, 0)'
                        /\ \/ Shows(c, i)'
                           \/ Aims(c, todo, i, 0)' /\ (Disabled(c) \/ ~Shows(c, i))
    <3>1. Running => ~initCircuit
      BY ParserRuns DEF Running
    <3>2. enterInterface => UNCHANGED parserVars
      BY DEF enterInterface, runCommandNano, runCommandQuit, setBus, setNet, setNetOfBus,
             SetNets, Refuse
    <3>3. Running /\ Next => UNCHANGED chip_vec
      BY <3>1, <3>2 DEF Next, StepChips, AddUpdate, PassTime, EndNano, parserVars
    <3> QED
      BY <3>3, SettleNext DEF Muxes, IsMux
  <2>1. AllWired /\ AllWired' /\ chip_vec' = chip_vec
    BY DEF Running
  <2>2. (IsMux(chip_vec[k]) /\ k \in DOMAIN chip_vec /\ i \in DOMAIN chip_vec[k].out)'
    BY <2>1 DEF IsMux
  <2>3. Follows(chip_vec[k], todo, pc = "step")'
    BY <2>1 DEF SettleInv, Running
  <2>4. Shows(chip_vec[k], i) <=> Shown(chip_vec[k], todo, i, pc = "step")
    BY <2>1 DEF ShowsIsShown
  <2>5. (Shows(chip_vec[k], i) <=> Shown(chip_vec[k], todo, i, pc = "step"))'
    BY <2>1, <2>2 DEF ShowsIsShown
  <2>6. (\E e \in Enables(chip_vec[k]) : High(chip_vec[k], e) /\ Seen(chip_vec[k], {e}))'
          => Aims(chip_vec[k], todo, i, 0)'
    BY <2>2, <2>3 DEF Follows, MuxesOff, Seen, Held
  <2>7. (Shown(chip_vec[k], todo, i, pc = "step") \/ Aims(chip_vec[k], todo, i, 0))'
    BY <2>2, <2>3 DEF Follows, MuxesShow, Shown
  <2>8. ~Disabled(chip_vec[k]) /\ Shows(chip_vec[k], i) => Shows(chip_vec[k], i)'
    BY <2>4, <2>5 DEF AllShowOn, ShowsOn
  <2> QED
    BY <2>5, <2>6, <2>7, <2>8
<1> HIDE DEF Muxes
<1> QED
  BY <1>1, SettleAlways, SimInvAlways, ShownAgrees, PTL
     DEF WellDriven, Spec, MuxesSelect, Muxes

=============================================================================
