------------------------------ MODULE Circuit -------------------------------
(***************************************************************************)
(* The circuit definition parser of the simulator                          *)
(* (src/simulator/src/circuit.c, token.c, and the vectors of net.c and     *)
(* chip.c): it reads the token queue, section by section, into nets, buses *)
(* and chips whose pins point into the net vector.                         *)
(*                                                                         *)
(* One action per iteration of a parser loop. pos is the current token.    *)
(* Lexing is left out: a token has a type and, for numbers and symbols, a  *)
(* value.                                                                  *)
(***************************************************************************)
EXTENDS Chips

CONSTANTS
  Texts,    \* the token vector that each file lexes to
  Unset,    \* a pin that no definition assigned: malloc's garbage
  NetCap,   \* the net vector's first capacity (256 in the code)
  MaxNets,  \* the most indices in one list (32 in the code)
  NetMax    \* bound: the most nets of a circuit

Token == [type : {"num"}, num : Nat] \cup [type : {"symbol"}, str : STRING]
         \cup [type : STRING \ {"num", "symbol"}]

ASSUME CircuitAssumption == /\ NetMax \in Nat /\ NetCap \in Nat \ {0}
                            /\ Wires = {0} \X (0 .. NetMax - 1)
                            /\ \A p \in DOMAIN Texts : Texts[p] \in Seq(Token)

VARIABLES
  path,     \* the circuit definition file
  tokens,   \* the token vector
  pos,      \* TokenQue.pos
  pc,       \* the parser's loop, or how the program ended
  names,    \* the name of each net, "" for a net of a bus
  bus_vec,
  chip_vec,
  cap,      \* NetVec.cap
  buf       \* which allocation NetVec.buf is

circuitVars == <<path, tokens, pos, pc, names, bus_vec, chip_vec, cap, buf, level, changed, updates>>

Tok(k)  == tokens[pos + k]
Type(k) == IF pos + k \in DOMAIN tokens THEN Tok(k).type ELSE "none"

(* raiseAbort: the program exits.                                          *)
Abort == pc' = "abort" /\ UNCHANGED <<path, tokens, pos, names, bus_vec, chip_vec, cap, buf,
                                       level, changed, updates>>

-----------------------------------------------------------------------------
(* Growing the vector moves the nets, unless realloc can extend the block. *)
Moves(n) == IF n > cap THEN {buf, buf + 1} ELSE {buf}

(* Mutant of Doubled: a bus enlarges the vector once, whatever its width.  *)
DoubledOnce(k, n) == IF n > k THEN 2 * k ELSE k

(* The capacity k once the vector has n nets: it is doubled for every net  *)
(* that finds it full.                                                     *)
Doubled(k, n) ==
  LET room[i \in 0 .. n] == IF i = 0 THEN k
                            ELSE IF room[i - 1] < i THEN 2 * room[i - 1] ELSE room[i - 1]
  IN  room[n]

(* Mutant of AddNets: new nets are not marked changed.                     *)
AddNetsUnmarked(new, val) ==
  LET n    == Len(names) + Len(new)
      nets == {0} \X (Len(names) .. n - 1)
  IN  /\ n <= NetMax
      /\ names'   = names \o new
      /\ cap'     = Doubled(cap, n)
      /\ buf'     \in Moves(n)
      /\ level'   = [w \in Nets |-> IF w \in nets THEN val ELSE level[w]]
      /\ UNCHANGED changed

(* addNet for n nets: each is 0, or val, and marked changed.               *)
AddNets(new, val) ==
  LET n    == Len(names) + Len(new)
      nets == {0} \X (Len(names) .. n - 1)
  IN  /\ n <= NetMax
      /\ names'   = names \o new
      /\ cap'     = Doubled(cap, n)
      /\ buf'     \in Moves(n)
      /\ level'   = [w \in Nets |-> IF w \in nets THEN val ELSE level[w]]
      /\ changed' = changed \cup nets

findNet(name) == SelectInSeq(names, LAMBDA n : n = name)

(* Mutant of findBus: the last bus of the name is taken.                   *)
findLastBus(name) == SelectLastInSeq(bus_vec, LAMBDA b : b.name = name)

findBus(name) == SelectInSeq(bus_vec, LAMBDA b : b.name = name)

-----------------------------------------------------------------------------
(* buildIdxArr behind token k: a list of numbers and ranges, of which each *)
(* first number must be below max. at is the last token it took.           *)
Bad == [ok |-> FALSE, at |-> 0, arr |-> <<>>]

buildIdxArr(k, max) ==
  LET Comma(p) == IF Type(p + 1) = "," THEN p + 1 ELSE p
      build[p \in Nat, arr \in Seq(Nat)] ==
        LET num   == Tok(p + 1).num
            end   == Tok(p + 3).num
            range == [i \in 1 .. end - num |-> num + i]
        IN  IF Type(p + 1) # "num" THEN [ok |-> TRUE, at |-> p, arr |-> arr]
            ELSE IF Len(arr) = MaxNets \/ num >= max THEN Bad
            ELSE IF Type(p + 2) = "," THEN build[p + 2, Append(arr, num)]
            ELSE IF Type(p + 2) # "-" THEN [ok |-> TRUE, at |-> p + 1, arr |-> Append(arr, num)]
            ELSE IF Type(p + 3) # "num" \/ end <= num \/ Len(arr) + 1 + end - num > MaxNets
                 THEN Bad
            ELSE build[Comma(p + 3), Append(arr, num) \o range]
  IN  build[k, <<>>]

(* Pins pointing at a net of the vector as it lies in memory now.          *)
Pointer(n) == [buf |-> buf, net |-> n]

-----------------------------------------------------------------------------
(* initCircuit's loop over the sections.                                   *)
BeginSection ==
  /\ pc = "top" /\ Type(0) \in {"bus", "net", "chip"} /\ Type(1) = "{"
  /\ pc' = Type(0) /\ pos' = pos + 1
  /\ UNCHANGED <<path, tokens, names, bus_vec, chip_vec, cap, buf, level, changed, updates>>

EndSection ==
  /\ pc \in {"bus", "net", "chip"} /\ Type(1) = "}"
  /\ pc' = "top" /\ pos' = pos + 2
  /\ UNCHANGED <<path, tokens, names, bus_vec, chip_vec, cap, buf, level, changed, updates>>

EndOfFile ==
  /\ pc = "top" /\ pos > Len(tokens)
  /\ pc' = "idle"
  /\ UNCHANGED <<path, tokens, pos, names, bus_vec, chip_vec, cap, buf, level, changed, updates>>

(* A bus of no width is reported and left out.                             *)
parseBusDef ==
  /\ pc = "bus" /\ Type(1) = "symbol" /\ Type(2) = "num"
  /\ pos' = pos + 2
  /\ IF Tok(2).num = 0
       THEN UNCHANGED <<names, bus_vec, cap, buf, level, changed>>
       ELSE /\ AddNets([i \in 1 .. Tok(2).num |-> ""], 0)
            /\ bus_vec' = Append(bus_vec, [name |-> Tok(1).str, width |-> Tok(2).num,
                                           net_idx |-> Len(names)])
  /\ UNCHANGED <<path, tokens, pc, chip_vec, updates>>

parseNetDef ==
  /\ pc = "net" /\ Type(1) = "symbol"
  /\ \/ Type(2) # "=" /\ AddNets(<<Tok(1).str>>, 0) /\ pos' = pos + 1
     \/ /\ Type(2) = "=" /\ Type(3) = "num" /\ Tok(3).num \in Level
        /\ AddNets(<<Tok(1).str>>, Tok(3).num) /\ pos' = pos + 3
  /\ UNCHANGED <<path, tokens, pc, bus_vec, chip_vec, updates>>

(* addChip, initChip: the pins are allocated and not set.                  *)
initChip(type) ==
  [id   |-> Len(chip_vec) + 1,
   type |-> type,
   in   |-> [i \in 0 .. CHIP_DATA[type].in - 1  |-> Unset],
   out  |-> [i \in 0 .. CHIP_DATA[type].out - 1 |-> Unset]]

(* The nets inside a chip; a circuit whose chips need more than Nets has   *)
(* is out of the model's bounds.                                           *)
Locals(c) == {<<c.id, i>> : i \in 0 .. CHIP_DATA[c.type].local - 1}

(* A chip's type and its name, if it has one.                              *)
Brace == IF Type(2) = "symbol" THEN 3 ELSE 2

AddChip ==
  /\ pc = "chip" /\ Type(1) = "symbol"
  /\ Tok(1).str \in DOMAIN CHIP_DATA /\ Type(Brace) = "{"
  /\ Locals(initChip(Tok(1).str)) \subseteq Nets
  /\ chip_vec' = Append(chip_vec, initChip(Tok(1).str))
  /\ pc' = "pins" /\ pos' = pos + Brace
  /\ UNCHANGED <<path, tokens, names, bus_vec, cap, buf, level, changed, updates>>

EndChip ==
  /\ pc = "pins" /\ Type(1) = "}"
  /\ pc' = "chip" /\ pos' = pos + 1
  /\ UNCHANGED <<path, tokens, names, bus_vec, chip_vec, cap, buf, level, changed, updates>>

-----------------------------------------------------------------------------
(* assignNets: a list of pins, "=", and what they are connected to: null,  *)
(* a net, or a list of nets of a bus, of which one is for all pins and     *)
(* several must be as many as the pins.                                    *)
Source(k) ==
  LET name == Tok(k).str
      b    == bus_vec[findBus(name)]
      list == buildIdxArr(k + 1, b.width)
  IN  IF Type(k) = "null" THEN [ok |-> TRUE, at |-> k, arr |-> <<Null>>]
      ELSE IF Type(k) # "symbol" THEN Bad
      ELSE IF Type(k + 1) # ":" THEN
        IF findNet(name) = 0 THEN Bad
        ELSE [ok |-> TRUE, at |-> k, arr |-> <<Pointer(findNet(name) - 1)>>]
      ELSE IF findBus(name) = 0 THEN Bad
      ELSE [list EXCEPT !.arr = [i \in DOMAIN @ |-> Pointer(b.net_idx + @[i])]]

Fits(dst, src) == Len(src) = 1 \/ Len(src) = Len(dst)

(* The pins of dst get the nets of src; with a pin given twice the last    *)
(* counts.                                                                 *)
Assigned(pins, dst, src) ==
  [i \in DOMAIN pins |->
     LET k == SelectLastInSeq(dst, LAMBDA j : j = i)
     IN  IF k = 0 THEN pins[i] ELSE src[IF Len(src) = 1 THEN 1 ELSE k]]

(* A range of pins may end behind the chip's pins: what is written over    *)
(* then, nothing says.                                                     *)
assignNets ==
  /\ pc = "pins" /\ Type(1) \in {"in", "out"}
  /\ LET n    == Len(chip_vec)
         pins == IF Type(1) = "in" THEN chip_vec[n].in ELSE chip_vec[n].out
         dst  == IF Type(2) = ":" THEN buildIdxArr(2, Cardinality(DOMAIN pins)) ELSE Bad
         src  == IF dst.ok /\ Type(dst.at + 1) = "=" THEN Source(dst.at + 2) ELSE Bad
         now  == Assigned(pins, dst.arr, src.arr)
     IN  IF ~src.ok \/ ~Fits(dst.arr, src.arr)
           THEN Abort
           ELSE /\ pos' = pos + src.at
                /\ pc' = IF ToSet(dst.arr) \subseteq DOMAIN pins THEN "pins" ELSE "undefined"
                /\ chip_vec' = IF Type(1) = "in" THEN [chip_vec EXCEPT ![n].in = now]
                                                 ELSE [chip_vec EXCEPT ![n].out = now]
                /\ UNCHANGED <<path, tokens, names, bus_vec, cap, buf, level, changed, updates>>

(* Every token that no loop takes ends the program.                        *)
Unexpected ==
  \/ /\ pc = "top" /\ pos <= Len(tokens)
     /\ ~(Type(0) \in {"bus", "net", "chip"} /\ Type(1) = "{")
  \/ /\ pc = "bus" /\ Type(1) # "}"
     /\ ~(Type(1) = "symbol" /\ Type(2) = "num")
  \/ /\ pc = "net" /\ Type(1) # "}"
     /\ Type(1) = "symbol" /\ Type(2) = "=" => ~(Type(3) = "num" /\ Tok(3).num \in Level)
     /\ Type(1) # "symbol" \/ Type(2) = "="
  \/ /\ pc = "chip" /\ Type(1) # "}"
     /\ ~(Type(1) = "symbol" /\ Tok(1).str \in DOMAIN CHIP_DATA /\ Type(Brace) = "{")
  \/ pc = "pins" /\ Type(1) \notin {"}", "in", "out"}

CircuitInit ==
  /\ ScheduleInit
  /\ path \in DOMAIN Texts /\ tokens = Texts[path]
  /\ pos = 1 /\ pc = "top"
  /\ names = <<>> /\ bus_vec = <<>> /\ chip_vec = <<>>
  /\ cap = NetCap /\ buf = 1

initCircuit ==
  \/ BeginSection \/ EndSection \/ EndOfFile
  \/ parseBusDef \/ parseNetDef \/ AddChip \/ EndChip \/ assignNets
  \/ Unexpected /\ Abort

=============================================================================
