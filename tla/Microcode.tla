----------------------------- MODULE Microcode -----------------------------
(***************************************************************************)
(* The microcode program (src/microcode/microcode.src) and what its        *)
(* compiler (src/microcode/src/parser.c) puts at every address of the      *)
(* control ROM. A control word is the set of the mnemonics active in it.   *)
(*                                                                         *)
(* A line of the program is a word, where it goes relative to the line     *)
(* above (the "next" step, the "same" step for a tilde, step 0 again for a *)
(* "star") and the flag values it is for, any of them; none means all.     *)
(***************************************************************************)
EXTENDS Alu, Sequences

Line(word)             == [word |-> word, at |-> "next", on |-> {}]
Under(line, flags)     == [line EXCEPT !.on = flags]
Restart(line)          == [line EXCEPT !.at = "star"]
SameStep(line)         == [line EXCEPT !.at = "same"]

IfZ(value) == <<FLAG_Z, value>>
IfN(value) == <<FLAG_N, value>>
IfC(value) == <<FLAG_C, value>>
IfI(value) == <<FLAG_I, value>>

(* Words the program uses again and again.                                 *)
NextByte(dst)       == {"IO", "XZ", "XC", "II", "MO", "EO"} \cup dst  \* next program byte
Fetch           == NextByte({"CI"})
PushOther(src)  == {"SO", "XZ", "XN", "SI", IF src = "FO" THEN "AO" ELSE src, "EO", "MI"}  \* mutant of Push: A for F
Push(src)       == {"SO", "XZ", "XN", "SI", src, "EO", "MI"}
PeekNext(dst)   == {"SO", "XZ", "XC", "MO", "EO"} \cup dst        \* mutant of Peek: one byte further
Peek(dst)       == {"SO", "XZ", "MO", "EO"} \cup dst
Pop(dst)        == {"SO", "XZ", "XC", "SI", "MO", "EO"} \cup dst
Drop            == {"SO", "XZ", "XC", "SI", "ZO", "EO"}
GotoOnly        == {"TO", "XZ", "II", "MO", "EO"}                 \* mutant of Goto: no fetch
Goto            == {"TO", "XZ", "II", "MO", "EO", "CI"}           \* I = T, and fetch
AfterT          == {"TO", "XZ", "XC", "II", "MO", "EO", "CI"}     \* I = T + 1, and fetch
Const(src, dst) == {"TO", "XZ", src, "EO"} \cup dst

Operand == <<Line(NextByte({"TL"})), Line(NextByte({"TH"}))>>
Indexed == <<Line(NextByte({"XI"}))>>
Take    == Line({"IO", "XC", "II", "MO", "EO", "CI"})             \* I = I + X + 1, and fetch
Done    == <<Line(Fetch)>>

(* opcode |-> its lines; an opcode the program leaves out has none.        *)
Opcodes == {0, 2, 17, 18, 20, 25, 28, 34, 35, 80, 120, 224, 236, 238, 241, 244, 248, 250, 254, 255}

Program(opcode) ==
  CASE opcode = 0   -> <<Line(NextByte({"EZ", "AI", "FI"}))>> \o Done                      \* lod #imm
    [] opcode = 2   -> Indexed \o <<Line({"BO", "MO", "EZ", "EO", "AI", "FI"})>> \o Done \* lod B+#imm
    [] opcode = 28  -> Indexed \o <<Line({"PO", "AO", "EO", "MI"})>> \o Done            \* sto P+#imm
    [] opcode = 18  -> Indexed \o <<Line({"BO", "PI", "ZO", "EO"})>> \o Done            \* lea B+#imm
    [] opcode = 20  -> Indexed \o <<Line({"PO", "PI", "ZO", "EO"})>> \o Done            \* lea P+#imm
    [] opcode = 17  -> Operand \o <<Line({"TO", "XZ", "PI", "ZO", "EO"})>> \o Done      \* lea adr
    [] opcode = 25  -> Operand \o <<Line({"TO", "XZ", "AO", "EO", "MI"})>> \o Done      \* sto adr
    [] opcode = 34  -> <<Line({"PO", "XZ", "BI", "ZO", "EO"})>> \o Done                 \* mov P B
    [] opcode = 35  -> <<Line({"PO", "XZ", "SI", "ZO", "EO"})>> \o Done                 \* mov P S
    [] opcode = 80  -> Done                                                             \* nop
    [] opcode = 120 -> LET sum == {"IO", "XZ", "XC", "II", "MO", "ES", "AI", "FI"} IN   \* adc #imm
                       <<Under(Line(sum), {IfC(FALSE)}),
                         Under(SameStep(Line(sum \cup {"EC"})), {IfC(TRUE)})>> \o Done
    [] opcode = 224 -> Indexed \o <<Take, Under(Restart(Line(NextByte({}))), {IfZ(FALSE)}),   \* brz I+#imm
                                   Under(Line(Fetch), {IfZ(FALSE)})>>
    [] opcode = 236 -> Indexed \o <<Take,                                               \* brg I+#imm
                                   Under(Restart(Line(NextByte({}))), {IfZ(TRUE), IfN(TRUE)}),
                                   Under(Line(Fetch), {IfZ(TRUE), IfN(TRUE)})>>
    [] opcode = 238 -> <<Line(NextByte({})), Line(Fetch),                                   \* bng I+#imm
                         Under(Restart(Line(NextByte({"XI"}))), {IfZ(TRUE), IfN(TRUE)}),
                         Under(Take, {IfZ(TRUE), IfN(TRUE)})>>
    [] opcode = 241 -> <<Line({"IO", "XZ", "XC", "MO", "EO", "XI"}),                    \* bra I-#imm
                         Line({"IO", "XN", "II", "MO", "EO", "CI"})>>
    [] opcode = 244 -> Operand \o <<Line(Goto)>>                                        \* jmp adr
    [] opcode = 248 -> Operand \o <<Line(Push("IH")), Line(Push("IL")), Line(Goto)>>    \* jsr adr
    [] opcode = 250 -> <<Line(Peek({"TL"})), Line(Pop({"TH"})), Line(Drop), Line(AfterT)>> \* rts
    [] opcode = 254 -> <<Line(Peek({"FI", "FD"})), Line(Pop({"AI"})), Line(Pop({"TL"})), \* rti
                         Line(Pop({"TH"})), Line(Pop({"KI"})), Line(Drop), Line(AfterT)>>
    [] opcode = 255 -> <<Line(Push("KO")), Line(Push("IH")), Line(Push("IL")),          \* brk
                         Line(Push("AO")), Line(Push("FO")),
                         Line(Const("HO", {"TL"})), Line(Const("HO", {"TH"})),
                         Line({"TO", "XZ", "XN", "II", "ZO", "EO", "KI"}),
                         Line({"IO", "XZ", "XN", "II", "MO", "EO", "TH"}),
                         Line({"IO", "XZ", "XN", "MO", "EO", "TL"}), Line(Goto)>>
    [] OTHER        -> <<>>

InterruptLines ==
  LET body == <<Push("KO"), Push("IH"), Push("IL"), Push("AO"), Push("FO"),
                Const("ZO", {"KI"}), Const("ZO", {"FI", "FD"}),
                Const("HO", {"TL"}), Const("HO", {"TH"}),
                {"IO", "XZ", "II", "MO", "EO", "TH"},
                {"IO", "XZ", "XN", "MO", "EO", "TL"}, Goto>>
  IN [i \in 1 .. 12 |-> Under(Line(body[i]), {IfI(TRUE)})]

ResetLines ==
  LET body == <<Const("HO", {"TL"}), Const("HO", {"TH"}),
                {"TO", "XZ", "XN", "PI", "ZO", "EZ", "EO", "AI"},
                {"PO", "XZ", "XN", "PI", "ZO", "EO", "XI", "FI", "FD"},
                {"PO", "XZ", "XN", "PI", "ZO", "EO", "KI", "FI"},
                {"PO", "XZ", "XN", "PI", "MO", "EO", "TH"},
                {"PO", "XZ", "XN", "MO", "EO", "TL"},
                {"TO", "XZ", "II", "ZO", "EO", "TL"}, Const("ZO", {"TH"}),
                Const("ZO", {"PI"}), Const("ZO", {"BI"}), Const("ZO", {"SI"}),
                {"IO", "XZ", "MO", "EO", "CI"}>>
  IN [i \in 1 .. 13 |-> Line(body[i])]

-----------------------------------------------------------------------------
(* The compiler.                                                           *)

(* putSequence: the step of every line, counting on from the last restart. *)
StepOf(lines, i) ==
  LET restarts == {j \in 1 .. i : lines[j].at = "star"}
      from     == IF restarts = {} THEN 1 ELSE CHOOSE j \in restarts : \A k \in restarts : k <= j
  IN (i - from) - Cardinality({j \in from + 1 .. i : lines[j].at = "same"})

(* putOpcode: the flag values a line is written for.                       *)
Covers(line, flags) ==
  line.on = {} \/ \E f \in line.on : Flag(flags, f[1]) = f[2]

(* A later line overwrites an earlier one.                                 *)
Writes(lines, flags, step) ==
  {i \in DOMAIN lines : StepOf(lines, i) = step /\ Covers(lines[i], flags)}

LastWord(lines, flags, step) ==
  LET written == Writes(lines, flags, step) IN
  lines[CHOOSE i \in written : \A j \in written : j <= i].word

(* What the 0xFF bytes of a word no line wrote mean to the CPU.            *)
Unwritten == {"IO", "XN", "XC", "II", "EN", "EC", "EO", "FD"}

Compiled(lines, flags, step) ==
  IF Writes(lines, flags, step) = {} THEN Unwritten ELSE LastWord(lines, flags, step)

(* The control ROM (putControl): the reset lines own every address with    *)
(* the reset bit; the interrupt lines, which come last, overwrite those of *)
(* every opcode.                                                           *)
RomPage(lines) == [flags \in 0 .. 15 |-> [step \in 0 .. 15 |-> Compiled(lines, flags, step)]]

OpcodeRom == [opcode \in Opcodes |-> RomPage(Program(opcode))]
ResetRom  == RomPage(ResetLines)
InterruptRom ==
  [flags \in 0 .. 15 |->
    [step \in {n \in 0 .. 15 : Writes(InterruptLines, flags, n) # {}} |->
      LastWord(InterruptLines, flags, step)]]

(* readControl                                                             *)
ReadControl(step, flags, opcode, interrupt, reset) ==
  IF reset THEN ResetRom[flags][step]
  ELSE IF interrupt /\ step \in DOMAIN InterruptRom[flags]
  THEN InterruptRom[flags][step]
  ELSE IF opcode \in Opcodes THEN OpcodeRom[opcode][flags][step] ELSE Unwritten

=============================================================================
