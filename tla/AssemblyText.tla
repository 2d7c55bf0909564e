---------------------------- MODULE AssemblyText ----------------------------
(***************************************************************************)
(* What an assembly program means, independently of the assembler: a file  *)
(* is a list of statements, Text its tokens, Meaning the bytes its         *)
(* statements stand for at their addresses, with every name standing for   *)
(* its one definition wherever it is. The assembler's single pass with     *)
(* references is checked against Meaning.                                  *)
(***************************************************************************)
EXTENDS Assembler

CONSTANT Source(_)   \* the files of a program as statements

-----------------------------------------------------------------------------
(* Statements.                                                             *)
Org(at)             == [st |-> "origin", at |-> at]
Lab(name)           == [st |-> "label", name |-> name]
XLab(name)          == [st |-> "xlabel", name |-> name]
Open(name)          == [st |-> "scope", name |-> name]
XOpen(name)         == [st |-> "xscope", name |-> name]
Close               == [st |-> "end"]
Def(name, kind, n)  == [st |-> "define", name |-> name, kind |-> kind, num |-> n]
Data(size, items)   == [st |-> "data", size |-> size, items |-> items]
Strz(s)             == [st |-> "strz", str |-> s]
Raw(tokens)         == [st |-> "raw", tokens |-> tokens]

(* An instruction: the type of its operand, the operand's sign, its name   *)
(* or number, and an offset above 0 if it has one.                         *)
Inst(ins, type, sign, arg, off) ==
  [st |-> "ins", ins |-> ins, type |-> type, sign |-> sign, arg |-> arg, off |-> off]

T(type) == [type |-> type]
Num(n)  == [type |-> "DECIMAL", num |-> n]
Name(s) == [type |-> "NAME", str |-> s]
Nl      == T("NEWLINE")
ToFlat(ss) == FoldLeft(LAMBDA all, s : all \o s, <<>>, ss)

Forms == Operands \o Registers
FormOf(type) == Forms[SelectInSeq(Forms, LAMBDA row : row[1] = type)][2]

InsTokens(s) ==
  <<T(s.ins)>> \o
  [i \in DOMAIN FormOf(s.type) |->
     CASE FormOf(s.type)[i] = "NAME"   -> Name(s.arg)
       [] FormOf(s.type)[i] = "NUMBER" -> Num(s.arg)
       [] FormOf(s.type)[i] = "ARITH"  -> T(s.sign)
       [] OTHER                        -> T(FormOf(s.type)[i])] \o
  (IF s.off > 0 THEN <<T("PLUS"), T("HASH"), Num(s.off)>> ELSE <<>>) \o <<Nl>>

DefTokens(s) ==
  (CASE s.kind = "NUMBER"  -> <<>>
     [] s.kind = "B_PLUS"  -> <<T("B"), T("PLUS"), T("HASH")>>
     [] s.kind = "B_MINUS" -> <<T("B"), T("MINUS"), T("HASH")>>
     [] s.kind = "P_PLUS"  -> <<T("P"), T("PLUS"), T("HASH")>>) \o <<Num(s.num), Nl>>

StatementTokens(s) ==
  CASE s.st = "origin" -> <<T("ORIGIN"), [type |-> "HEX", num |-> s.at], Nl>>
    [] s.st = "label"  -> <<Name(s.name), Nl>>
    [] s.st = "xlabel" -> <<T("EXPORT"), Name(s.name), Nl>>
    [] s.st = "scope"  -> <<Name(s.name), T("LBRACE"), Nl>>
    [] s.st = "xscope" -> <<T("EXPORT"), Name(s.name), T("LBRACE"), Nl>>
    [] s.st = "end"    -> <<T("RBRACE"), Nl>>
    [] s.st = "define" -> <<Name(s.name), T("EQUALS")>> \o DefTokens(s)
    [] s.st = "data"   -> <<T(s.size)>> \o s.items \o <<Nl>>
    [] s.st = "strz"   -> <<T("STRZ"), [type |-> "STRING", str |-> s.str], Nl>>
    [] s.st = "raw"    -> s.tokens
    [] s.st = "ins"    -> InsTokens(s)

(* The lexer ends every file with a newline of its own.                    *)
Text(files) ==
  [f \in DOMAIN files |->
     ToFlat([k \in DOMAIN files[f] |-> StatementTokens(files[f][k])]) \o <<Nl>>]

-----------------------------------------------------------------------------
(* The statements of a program in their order, with their file.            *)
Listing(files) ==
  ToFlat([f \in DOMAIN files |-> [k \in DOMAIN files[f] |-> <<f, files[f][k]>>]])

Defining == {"label", "xlabel", "scope", "xscope", "define"}
Definitions(list, name) == {k \in DOMAIN list : list[k][2].st \in Defining /\ list[k][2].name = name}

(* The definition of a name, 0 if there is none.                           *)
DefOf(list, name) ==
  IF Definitions(list, name) = {} THEN 0 ELSE CHOOSE k \in Definitions(list, name) : TRUE
KindOf(list, name) ==
  LET k == DefOf(list, name)
  IN  IF k # 0 /\ list[k][2].st = "define" THEN list[k][2].kind ELSE "ADDRESS"

HasName(s) == s.st = "ins" /\ s.type \in {"IMMNAME", "NAME", "P_NAME"}

(* The addressing mode of an instruction in the terms of INS_TBL.          *)
Mode(list, s) ==
  LET kind == IF HasName(s) THEN KindOf(list, s.arg) ELSE "ADDRESS"
      Ptr  == [ABS |-> "P_ABS", B_IMM |-> "P_B_IMM"]
      near == CASE kind = "B_PLUS"  -> <<"B_IMM", TRUE>>
                [] kind = "B_MINUS" -> <<"B_IMM", FALSE>>
                [] kind = "P_PLUS"  -> <<"P_IMM", FALSE>>
                [] OTHER            -> <<"ABS", FALSE>>
  IN CASE s.type = "NAME" -> near
       [] s.type = "P_NAME" /\ near[1] \in DOMAIN Ptr -> <<Ptr[near[1]], near[2]>>
       [] s.type = "IMMNAME" -> <<"IMM", FALSE>>
       [] OTHER -> <<s.type, s.type \in {"B_IMM", "P_B_IMM"} /\ s.sign = "PLUS">>

Branching(s) == s.st = "ins" /\ s.ins \in Branches

OperandSize(list, s) ==
  IF Branching(s) THEN 1
  ELSE CASE Mode(list, s)[1] = "ABS" -> IF s.ins \in {"JPL", "JSL"} THEN 3 ELSE 2
         [] Mode(list, s)[1] = "P_ABS" -> 2
         [] Mode(list, s)[1] \in {"IMM", "B_IMM", "P_IMM", "P_B_IMM"} -> 1
         [] OTHER -> 0

Size(list, s) ==
  CASE s.st = "data" -> Sizes[s.size] * Len(s.items)
    [] s.st = "strz" -> 1
    [] s.st = "ins"  -> 1 + OperandSize(list, s)
    [] OTHER         -> 0

Address(list) ==
  LET at[k \in 1 .. Len(list) + 1] ==
        IF k = 1 THEN 0
        ELSE IF list[k - 1][2].st = "origin" THEN list[k - 1][2].at
        ELSE at[k - 1] + Size(list, list[k - 1][2])
  IN  at

NameValue(list, name) ==
  LET k == DefOf(list, name)
  IN  IF list[k][2].st = "define" THEN list[k][2].num ELSE Address(list)[k]

-----------------------------------------------------------------------------
(* Flash is seen through a window of 16 kB at $C000, one bank of it at a   *)
(* time: a word holds the place in the window, a long also the bank.       *)
Place(address) == 49152 + (address % 16384)
Far(address)   == Place(address) + 65536 * (address \div 16384)

(* Where a taken branch at address goes (Isa: forward the operand is added *)
(* behind the instruction, back it is taken from the byte before it).      *)
Lands(address, opcode, operand) ==
  IF opcode % 2 = 0 THEN address + 2 + operand ELSE address - 1 - operand

(* A branch by name is made to land on the byte before its label.          *)
BranchBytes(address, s, label) ==
  LET first == OpcodeOf(s.ins, <<"I_IMM", TRUE>>)
  IN  IF label > address THEN <<first, label - 1 - (address + 2)>>
      ELSE <<first + 1, address - 1 - (label - 1)>>

OperandValue(list, s) ==
  LET minus == ~Mode(list, s)[2] /\ Mode(list, s)[1] \in {"B_IMM", "P_B_IMM"}
      value == IF ~HasName(s) THEN s.arg
               ELSE IF KindOf(list, s.arg) # "ADDRESS" \/ s.type = "IMMNAME" THEN NameValue(list, s.arg)
               ELSE IF s.ins \in {"JPL", "JSL"} THEN Far(NameValue(list, s.arg))
               ELSE Place(NameValue(list, s.arg))
  IN  IF minus THEN value - 1 - s.off ELSE value + s.off

ItemValue(list, t) == IF t.type = "NAME" THEN NameValue(list, t.str) ELSE t.num

StatementBytes(list, k) ==
  LET s == list[k][2]
  IN CASE s.st = "data" -> ToFlat([i \in DOMAIN s.items |->
                                     Bytes(ItemValue(list, s.items[i]), Sizes[s.size])])
       [] s.st = "strz" -> <<0>>
       [] s.st = "ins" /\ Branching(s) -> BranchBytes(Address(list)[k], s, NameValue(list, s.arg))
       [] s.st = "ins" /\ ~Branching(s) ->
            <<OpcodeOf(s.ins, Mode(list, s))>> \o
            Bytes(IF OperandSize(list, s) = 0 THEN 0 ELSE OperandValue(list, s), OperandSize(list, s))
       [] OTHER -> <<>>

Meaning(files) ==
  LET list == Listing(files)
      at   == Address(list)
      last == [k \in DOMAIN list |-> at[k] + Size(list, list[k][2]) - 1]
  IN  [a \in UNION {at[k] .. last[k] : k \in DOMAIN list} |->
         LET k == CHOOSE k \in DOMAIN list : a \in at[k] .. last[k]
         IN  StatementBytes(list, k)[a - at[k] + 1]]

-----------------------------------------------------------------------------
(* The programs that Meaning speaks about: every file starts with an       *)
(* origin, every name has one definition, constants and the names of data  *)
(* lines and offsets are known before they are used, no segments overlap,  *)
(* and none of the forms is used that the assembler encodes in a way of    *)
(* its own (see the README).                                               *)
ScopeAt(list, k) ==
  LET ends == {j \in 1 .. k - 1 : list[j][2].st \in {"scope", "xscope", "end"}}
  IN  IF ends = {} \/ list[Max(ends)][2].st = "end" THEN 0 ELSE Max(ends)

Known(list, name, k) ==
  LET d == DefOf(list, name)
      unscoped == ScopeAt(list, d) = 0 \/ list[d][2].st \in {"scope", "xscope"}
  IN  /\ d \in 1 .. k - 1 /\ list[d][1] = list[k][1]
      /\ unscoped \/ ScopeAt(list, d) = ScopeAt(list, k)

PlainForm(s) ==
  /\ s.type # "I_IMM"
  /\ s.type = "B_IMM"   => s.sign = "MINUS" \/ s.off = 0
  /\ s.type = "P_B_IMM" => (s.sign = "MINUS") = (s.off > 0)
  /\ s.type = "ABS" /\ s.off > 0 => s.ins \notin {"JPL", "JSL"}

PlainUse(list, k) ==
  LET s == list[k][2]
  IN  /\ s.st = "data" => \A t \in ToSet(s.items) : t.type = "NAME" => Known(list, t.str, k)
      /\ s.st = "ins" => PlainForm(s)
      /\ HasName(s) => \/ Branching(s) /\ s.off = 0 /\ KindOf(list, s.arg) = "ADDRESS"
                       \/ ~Branching(s) /\ s.off = 0 /\ KindOf(list, s.arg) = "ADDRESS"
                       \/ ~Branching(s) /\ Known(list, s.arg, k)

Straight(files) ==
  LET list == Listing(files)
      at   == Address(list)
  IN  /\ \A f \in DOMAIN files : files[f] # <<>> /\ files[f][1].st = "origin"
      /\ \A f \in DOMAIN files : \A k \in 1 .. Len(files[f]) - 1 : files[f][k].st # "strz"
      /\ \A name \in Names : Cardinality(Definitions(list, name)) <= 1
      /\ \A k \in DOMAIN list : list[k][2].st # "raw" /\ PlainUse(list, k)
      /\ \A j, k \in DOMAIN list :
           j < k => \/ at[j] + Size(list, list[j][2]) <= at[k]
                    \/ at[k] + Size(list, list[k][2]) <= at[j]

-----------------------------------------------------------------------------
(* One pass with references gives the bytes that the program means: names  *)
(* used before and after their definition, in other files and in any scope *)
(* stand for the same address, and no statement's size changes what an     *)
(* earlier use assumed (parser.c:38-67, instruction.c:254-519,             *)
(* object.c:183-243, linker.c:38-69).                                      *)
BytesAsWritten ==
  pc = "done" /\ Straight(Source(program)) => output = Meaning(Source(program))

(* A branch to a name goes to the label (instruction.c:270, object.c:224:  *)
(* "Branch to '%s' is too far."). It does not, it goes one byte before it. *)
BranchesLand ==
  pc = "done" /\ Straight(Source(program)) =>
    LET list == Listing(Source(program))
        at   == Address(list)
    IN  \A k \in DOMAIN list :
          Branching(list[k][2]) =>
            Lands(at[k], output[at[k]], output[at[k] + 1]) = NameValue(list, list[k][2].arg)

=============================================================================
