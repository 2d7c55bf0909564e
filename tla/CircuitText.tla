---------------------------- MODULE CircuitText -----------------------------
(***************************************************************************)
(* What a circuit definition means, independently of the parser: a         *)
(* definition is a list of sections, each a list of buses, nets or chips;  *)
(* Tokens is its text, PinsOf the nets it connects each chip to. The       *)
(* simulator's parser is checked against PinsOf.                           *)
(***************************************************************************)
EXTENDS Simulator

CONSTANT Definitions

-----------------------------------------------------------------------------
(* Constructors: a list of pins or nets is a list of ranges.               *)
Buses(items) == [kind |-> "bus",  items |-> items]   \* of [name, width]
NetsOf(items) == [kind |-> "net", items |-> items]   \* of [name, val]
Chip(type, pins) == [kind |-> "chip", items |-> <<[type |-> type, pins |-> pins]>>]

NullNet(dir, to)       == [dir |-> dir, to |-> to, name |-> "", from |-> <<>>]
One(dir, to, name)     == [dir |-> dir, to |-> to, name |-> name, from |-> <<>>]
Many(dir, to, name, f) == [dir |-> dir, to |-> to, name |-> name, from |-> f]

-----------------------------------------------------------------------------
(* The tokens of a definition.                                             *)
T(type)  == [type |-> type]
Num(n)   == [type |-> "num", num |-> n]
Sym(s)   == [type |-> "symbol", str |-> s]
Concat(s, f(_)) == FlattenSeq([k \in DOMAIN s |-> f(s[k])])

RangeTokens(r) == IF r[1] = r[2] THEN <<Num(r[1])>> ELSE <<Num(r[1]), T("-"), Num(r[2])>>

ListTokens(rs) == Tail(Concat(rs, LAMBDA r : <<T(",")>> \o RangeTokens(r)))

PinTokens(p) ==
  <<T(p.dir), T(":")>> \o ListTokens(p.to) \o <<T("=")>> \o
  (IF p.name = "" THEN <<T("null")>>
   ELSE IF p.from = <<>> THEN <<Sym(p.name)>>
   ELSE <<Sym(p.name), T(":")>> \o ListTokens(p.from))

ItemTokens(kind, x) ==
  CASE kind = "bus"  -> <<Sym(x.name), Num(x.width)>>
    [] kind = "net"  -> IF x.val = 0 THEN <<Sym(x.name)>> ELSE <<Sym(x.name), T("="), Num(1)>>
    [] kind = "chip" -> <<Sym(x.type), T("{")>> \o Concat(x.pins, PinTokens) \o <<T("}")>>

Tokens(def) ==
  Concat(def, LAMBDA s : <<T(s.kind), T("{")>> \o
                         Concat(s.items, LAMBDA x : ItemTokens(s.kind, x)) \o <<T("}")>>)

-----------------------------------------------------------------------------
(* The declarations of a definition in their order, and the number of the  *)
(* first net of the declaration at k. A bus of no width is not declared.   *)
Declared(def) ==
  LET Decl(s) == [k \in DOMAIN s.items |->
        [name |-> s.items[k].name, isBus |-> s.kind = "bus",
         width |-> IF s.kind = "bus" THEN s.items[k].width ELSE 1]]
  IN  SelectSeq(Concat(SelectSeq(def, LAMBDA s : s.kind # "chip"), Decl),
                LAMBDA d : d.width > 0)

FirstNet(decl, k) == FoldLeft(LAMBDA sum, d : sum + d.width, 0, SubSeq(decl, 1, k - 1))

(* The net with index i of the first bus, or of the first net, of a name.  *)
NetNamed(def, name, isBus, i) ==
  LET decl == Declared(def)
  IN  FirstNet(decl, SelectInSeq(decl, LAMBDA d : d.name = name /\ d.isBus = isBus)) + i

Expand(rs) == Concat(rs, LAMBDA r : [j \in 1 .. r[2] - r[1] + 1 |-> r[1] + j - 1])

(* Where pin i of the direction ends up: the last assignment counts; one   *)
(* net may feed many pins, several nets are taken in order.                *)
PinOf(def, chip, dir, i) ==
  LET Hits(p) == p.dir = dir /\ i \in Range(Expand(p.to))
      k       == SelectLastInSeq(chip.pins, Hits)
      p       == chip.pins[k]
      from    == Expand(p.from)
      nth     == SelectLastInSeq(Expand(p.to), LAMBDA j : j = i)
  IN  IF k = 0           THEN Unset
      ELSE IF p.name = "" THEN Null
      ELSE Pointer(IF p.from = <<>> THEN NetNamed(def, p.name, FALSE, 0)
                   ELSE NetNamed(def, p.name, TRUE, from[IF Len(from) = 1 THEN 1 ELSE nth]))

ChipsOf(def) == Concat(def, LAMBDA s : IF s.kind = "chip" THEN s.items ELSE <<>>)

Reads(def) ==
  LET chips == ChipsOf(def)
  IN  /\ Len(chips) = Len(chip_vec)
      /\ \A k \in DOMAIN chips : LET c == chip_vec[k] IN
           /\ c.type = chips[k].type
           /\ \A i \in DOMAIN c.in  : c.in[i]  = PinOf(def, chips[k], "in", i)
           /\ \A i \in DOMAIN c.out : c.out[i] = PinOf(def, chips[k], "out", i)

(* What is left of a definition that ends behind a section.                *)
Whole  == UNION {{SubSeq(d, 1, k) : k \in 0 .. Len(d)} : d \in Definitions}
TextOf == [def \in Whole |-> Tokens(def)]

(* A definition that reaches the prompt was a list of whole sections, and  *)
(* every pin of every chip is the net that its last assignment names, in   *)
(* the vector as it lies in memory; any other text ends the program        *)
(* (circuit.c:102-257, net.c:65-119).                                      *)
PinsAsWritten ==
  pc = "idle" => \E def \in Whole : tokens = TextOf[def] /\ Reads(def)

(* docs/simulator.md:67 lets sections come in any order as long as what a  *)
(* chip references is defined before it: at the prompt every pin points    *)
(* into the net vector (net.c:66-77).                                      *)
PinsLive ==
  pc = "idle" => \A k \in DOMAIN chip_vec : LET c == chip_vec[k] IN
    /\ \A i \in DOMAIN c.in  : c.in[i]  \in {Unset, Null} \/ Live(c.in[i])
    /\ \A i \in DOMAIN c.out : c.out[i] \in {Unset, Null} \/ Live(c.out[i])

=============================================================================
