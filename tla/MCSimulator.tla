---------------------------- MODULE MCSimulator -----------------------------
(***************************************************************************)
(* Six circuits: one of every gate, the two multiplexers, an eight bit     *)
(* counter of two chained counters behind the clock generator, an          *)
(* accumulator of an adder and a register that the user clocks by hand,    *)
(* one chip without wires, and one whose nets are defined behind a chip.   *)
(* Every other file is a beginning of one of them, or has one fault.       *)
(***************************************************************************)
EXTENDS CircuitText

Dual(type, a, b, out) ==
  Chip(type, <<[a EXCEPT !.dir = "in", !.to = <<<<0, 0>>, <<2, 2>>, <<4, 4>>, <<6, 6>>>>],
               [b EXCEPT !.dir = "in", !.to = <<<<1, 1>>, <<3, 3>>, <<5, 5>>, <<7, 7>>>>],
               Many("out", <<<<0, 0>>>>, "X", <<<<out, out>>>>),
               NullNet("out", <<<<1, 3>>>>)>>)
P(name) == One("in", <<>>, name)
X(k)    == Many("in", <<>>, "X", <<<<k, k>>>>)

GateCircuit ==
  <<NetsOf(<<[name |-> "P", val |-> 0], [name |-> "Q", val |-> 1]>>),
    Buses(<<[name |-> "X", width |-> 8]>>),
    Dual("_74HC00", P("P"), P("Q"), 0),
    Dual("_74HC02", P("P"), X(0), 1),
    Dual("_74HC86", X(0), P("Q"), 2),
    Chip("_74HC04", <<Many("in", <<<<0, 5>>>>, "X", <<<<2, 2>>>>),
                      NullNet("out", <<<<0, 5>>>>),
                      Many("out", <<<<3, 3>>>>, "X", <<<<3, 3>>>>)>>),
    Chip("_74HC21", <<One("in", <<<<0, 0>>, <<4, 4>>>>, "P"),
                      One("in", <<<<1, 1>>, <<5, 5>>>>, "Q"),
                      Many("in", <<<<2, 3>>>>, "X", <<<<2, 3>>>>),
                      Many("in", <<<<6, 7>>>>, "X", <<<<2, 3>>>>),
                      Many("out", <<<<0, 0>>>>, "X", <<<<4, 4>>>>),
                      NullNet("out", <<<<1, 1>>>>)>>),
    Dual("_74HC32", X(4), X(1), 5),
    Dual("_74HC08", X(5), P("P"), 6),
    Chip("_74HC30", <<Many("in", <<<<0, 6>>>>, "X", <<<<0, 6>>>>),
                      One("in", <<<<7, 7>>>>, "Q"),
                      Many("out", <<<<0, 0>>>>, "X", <<<<7, 7>>>>)>>)>>

(* The name D is given twice, and the first bus counts.                    *)
MuxCircuit ==
  <<Buses(<<[name |-> "D", width |-> 4], [name |-> "S", width |-> 2],
            [name |-> "Y", width |-> 4], [name |-> "D", width |-> 8]>>),
    NetsOf(<<[name |-> "E", val |-> 0], [name |-> "GND", val |-> 0]>>),
    Chip("_74AC157", <<Many("in", <<<<0, 3>>>>, "D", <<<<0, 3>>>>),
                       Many("in", <<<<4, 7>>>>, "D", <<<<1, 3>>, <<0, 0>>>>),
                       Many("in", <<<<8, 8>>>>, "S", <<<<0, 0>>>>),
                       One("in", <<<<9, 9>>>>, "E"),
                       NullNet("out", <<<<0, 1>>>>),
                       Many("out", <<<<2, 3>>>>, "Y", <<<<2, 3>>>>)>>),
    Chip("_74AC153", <<Many("in", <<<<0, 3>>>>, "D", <<<<0, 3>>>>),
                       Many("in", <<<<4, 7>>>>, "D", <<<<1, 3>>, <<0, 0>>>>),
                       Many("in", <<<<8, 9>>>>, "S", <<<<0, 1>>>>),
                       One("in", <<<<10, 10>>>>, "GND"),
                       One("in", <<<<11, 11>>>>, "E"),
                       Many("out", <<<<0, 1>>>>, "Y", <<<<0, 1>>>>)>>)>>

Counter(first, carryIn, carryOut) ==
  Chip("_74AC161", <<One("in", <<<<0, 0>>, <<2, 3>>>>, "ONE"),
                     One("in", <<<<1, 1>>>>, "ZERO"),
                     One("in", <<<<4, 4>>>>, "LOAD"),
                     One("in", <<<<5, 5>>>>, "ONE"),
                     carryIn,
                     One("in", <<<<7, 7>>>>, "CLEAR"),
                     One("in", <<<<8, 8>>>>, "CLK"),
                     Many("out", <<<<0, 3>>>>, "W", <<<<first, first + 3>>>>),
                     carryOut>>)

CounterCircuit ==
  <<NetsOf(<<[name |-> "RUN", val |-> 1], [name |-> "CLK", val |-> 0],
             [name |-> "CLEAR", val |-> 1], [name |-> "LOAD", val |-> 0],
             [name |-> "ONE", val |-> 1], [name |-> "ZERO", val |-> 0], [name |-> "CARRY", val |-> 0]>>),
    Buses(<<[name |-> "W", width |-> 8]>>),
    Chip("CLK40M", <<One("in", <<<<0, 0>>>>, "RUN"), One("out", <<<<0, 0>>>>, "CLK")>>),
    Counter(0, One("in", <<<<6, 6>>>>, "ONE"), One("out", <<<<4, 4>>>>, "CARRY")),
    Counter(4, One("in", <<<<6, 6>>>>, "CARRY"), NullNet("out", <<<<4, 4>>>>))>>

AccumulatorCircuit ==
  <<Buses(<<[name |-> "B", width |-> 4], [name |-> "W", width |-> 4],
            [name |-> "SUM", width |-> 5]>>),
    NetsOf(<<[name |-> "CLK", val |-> 0], [name |-> "HOLD", val |-> 0],
             [name |-> "CIN", val |-> 1]>>),
    Chip("_74HC283", <<Many("in", <<<<0, 7>>>>, "W", <<<<0, 0>>>>),
                       Many("in", <<<<1, 3>>>>, "W", <<<<1, 3>>>>),
                       Many("in", <<<<4, 7>>>>, "B", <<<<0, 3>>>>),
                       One("in", <<<<8, 8>>>>, "CIN"),
                       Many("out", <<<<0, 4>>>>, "SUM", <<<<0, 4>>>>)>>),
    Chip("_74HC377", <<Many("in", <<<<0, 3>>>>, "SUM", <<<<0, 3>>>>),
                       Many("in", <<<<4, 7>>>>, "SUM", <<<<4, 4>>>>),
                       One("in", <<<<8, 8>>>>, "HOLD"),
                       One("in", <<<<9, 9>>>>, "CLK"),
                       Many("out", <<<<0, 3>>>>, "W", <<<<0, 3>>>>),
                       NullNet("out", <<<<4, 7>>>>)>>)>>

(* Most pins of the chip are left unassigned, and a bus has no width.      *)
UnwiredCircuit ==
  <<Buses(<<[name |-> "X", width |-> 0]>>), NetsOf(<<[name |-> "P", val |-> 0]>>),
    Chip("_74HC04", <<One("in", <<<<0, 0>>>>, "P")>>)>>

(* A chip, then more nets than the vector has room for.                    *)
RearrangedCircuit ==
  <<NetsOf(<<[name |-> "P", val |-> 0], [name |-> "Q", val |-> 1]>>),
    Chip("_74HC04", <<One("in", <<<<0, 5>>>>, "P"), One("out", <<<<0, 0>>>>, "Q"),
                      NullNet("out", <<<<1, 5>>>>)>>),
    Buses(<<[name |-> "X", width |-> 24]>>)>>

MCDefinitions == {GateCircuit, MuxCircuit, CounterCircuit, AccumulatorCircuit, UnwiredCircuit}

-----------------------------------------------------------------------------
(* A file is a circuit without its last n tokens, or one with a fault.     *)
Circuits == [gates |-> Tokens(GateCircuit), mux |-> Tokens(MuxCircuit),
             counter |-> Tokens(CounterCircuit), acc |-> Tokens(AccumulatorCircuit), unwired |-> Tokens(UnwiredCircuit)]

S(kind, body) == <<T(kind), T("{")>> \o body \o <<T("}")>>
Two  == S("net", <<Sym("P"), Sym("Q")>>) \o S("bus", <<Sym("X"), Num(2)>>)
Inv4(to, from) ==
  Two \o S("chip", <<Sym("_74HC04"), Sym("U1"), T("{"), T("in"), T(":")>> \o to \o
                   <<T("=")>> \o from \o <<T("}")>>)
XY(list) == <<Sym("X"), T(":")>> \o list
From(a, b) == <<Num(a), T("-"), Num(b)>>

Faulty ==
  <<<<Sym("P")>>,
    S("bus", <<Sym("X"), Sym("Y")>>),
    S("net", <<Sym("P"), T("="), Num(2)>>),
    S("chip", <<Sym("_74HC05"), T("{"), T("}")>>),
    S("chip", <<Sym("_74HC04"), T("{"), Sym("P"), T("}")>>),
    Inv4(<<Num(6)>>, <<Sym("P")>>),
    Inv4(From(1, 1), <<Sym("P")>>),
    Inv4(From(0, 5) \o <<T(",")>> \o From(0, 5), <<Sym("P")>>),
    Inv4(<<Num(0)>>, <<Sym("Z")>>),
    Inv4(<<Num(0)>>, <<Sym("X")>>),
    Inv4(<<Num(0)>>, <<Sym("P"), T(":"), Num(0)>>),
    Inv4(From(0, 2), XY(From(0, 1))),
    Inv4(<<Num(0)>>, XY(<<Num(2)>>)),
    Inv4(From(4, 6), <<Sym("P")>>)>>

Files ==
  LET texts  == Circuits
      faulty == Faulty
  IN  [p \in {<<"acc", n>> : n \in 0 .. Len(texts["acc"])}
             \cup {<<c, 0>> : c \in DOMAIN texts}
             \cup {<<"faulty", n>> : n \in DOMAIN faulty} |->
         IF p[1] = "faulty" THEN faulty[p[2]]
         ELSE SubSeq(texts[p[1]], 1, Len(texts[p[1]]) - p[2])]

MCTexts == Files   \* a constant of its own is evaluated once

RearrangedTexts == [p \in {<<"rearranged", 0>>} |-> Tokens(RearrangedCircuit)]

-----------------------------------------------------------------------------
Nano(n)           == [op |-> "nano", num |-> n]
SetNet(name, v)   == [op |-> "set net", name |-> name, num |-> v]
SetBus(name, v)   == [op |-> "set bus", name |-> name, num |-> v]
SetPin(name, i, v) == [op |-> "set bus:", name |-> name, idx |-> i, num |-> v]

(* Only nets that no chip drives are set. After MaxCommands nothing more   *)
(* is typed; all but the gates alternate between settings and time. Eight  *)
(* commands for the multiplexers set data, disable, enable and set again.  *)
CONSTANT MaxCommands

MCCommands(p, n) ==
  CASE n >= MaxCommands[p[1]] -> {}
    [] p[2] > 0 \/ p[1] = "unwired" -> {[op |-> "quit"], Nano(1)}
    [] p[1] = "gates" ->
         {Nano(1), Nano(8), SetNet("P", 0), SetNet("P", 1), SetNet("Q", 0), SetNet("Q", 1)}
    [] p[1] = "mux" ->
         IF n % 2 = 0
         THEN {SetBus("D", 6), SetBus("D", 1), SetPin("S", 0, 1), SetPin("S", 1, 1),
               SetNet("E", 0), SetNet("E", 1)}
              \cup IF n > 0 THEN {} ELSE
                     {SetBus("D", 16), SetPin("S", 2, 1), SetBus("F", 1), SetPin("F", 0, 1),
                      SetNet("F", 1), [op |-> "other"]}
         ELSE {Nano(9)} \cup IF n < 6 THEN {Nano(2)} ELSE {}
    [] p[1] = "counter" ->
         IF n % 2 = 0 THEN {Nano(60)} \cup IF n = 2 THEN {Nano(4)} ELSE {}
         ELSE {SetNet("RUN", 0), SetNet("RUN", 1), SetNet("CLEAR", 0), SetNet("CLEAR", 1),
               SetNet("LOAD", 1)}
    [] p[1] = "acc" ->
         IF n % 2 = 0 THEN {SetNet("CLK", 0), SetNet("CLK", 1), SetNet("HOLD", 1), SetBus("B", 5)}
         ELSE {Nano(50)} \cup IF n = 5 THEN {Nano(7)} ELSE {}

Board   == {0} \X (0 .. 31)
Every   == Board \cup ((1 .. 3) \X (0 .. 8))
Most == [gates |-> 4, mux |-> 8, counter |-> 7, acc |-> 8, faulty |-> 1, unwired |-> 1, rearranged |-> 0]
MCWires == Board
MCNets  == Every

-----------------------------------------------------------------------------
(* The word that the clocked circuits should hold: expected follows the    *)
(* edges of CLK by the rules of a counter and of an accumulator, and is -1 *)
(* after an edge at which anything else was still moving.                  *)
VARIABLE expected

Counting == path[1] \in {"counter", "acc"} /\ path[2] = 0 /\ typed > 0
NetOf(name) == <<0, findNet(name) - 1>>
On(name) == level[NetOf(name)] = 1
Word(name) ==
  LET b == bus_vec[findBus(name)]
  IN  FoldFunction(+, 0, [i \in 0 .. b.width - 1 |-> 2 ^ i * level[<<0, b.net_idx + i>>]])

Quiet == /\ changed \subseteq {NetOf("CLK")}
         /\ \A u \in updates : u.target = NetOf("CLK")

Counted ==
  IF path[1] = "counter"
    THEN IF ~On("LOAD") THEN 17 * 13
         ELSE IF expected = -1 THEN -1 ELSE (expected + 1) % 256
  ELSE IF On("HOLD") \/ expected = -1 THEN expected
  ELSE (expected + Word("B") + 1) % 16

Edge == ~On("CLK") /\ On("CLK")'

MCInit == Init /\ expected = 0

MCNext ==
  /\ Next
  /\ expected' = IF pc \notin {"idle", "nano", "step"} \/ ~Counting THEN expected
                 ELSE IF path[1] = "counter" /\ ~On("CLEAR") THEN (IF Quiet THEN 0 ELSE -1)
                 ELSE IF Edge THEN (IF Quiet THEN Counted ELSE -1)
                 ELSE expected

MCSpec == MCInit /\ [][MCNext]_<<simulatorVars, expected>>

(* Through all glitches and ripples the clocked circuits hold the count of *)
(* the clock's edges, the loaded value, 0 after a clear, or the sum of the *)
(* summands, whatever was pending when the user typed, started and stopped *)
(* the clock (chip.c:109-114, 252-356, circuit.c:281-306).                 *)
WordAsClocked ==
  pc = "idle" /\ Counting /\ Quiet /\ changed = {} /\ expected # -1 => Word("W") = expected

=============================================================================
