---------------------------- MODULE Instructions ----------------------------
(***************************************************************************)
(* The instructions of the assembler (src/assembler/src/instruction.c and  *)
(* symbol.c): which opcode a pattern has, and what bytes its operand adds, *)
(* given the symbols that are known so far.                                *)
(***************************************************************************)
EXTENDS Matcher, Objects

VARIABLES
  symbol,  \* the symbols of the file, in their order
  scope    \* the number of the symbol of the open scope; 0 is NULL

instructionVars == <<symbol, scope>>

SymbolTypes == {"SCOPE", "LABEL", "NUMBER", "B_PLUS", "B_MINUS", "P_PLUS"}
Symbol == [type : SymbolTypes, name : Names, value : Nat, scope : Nat]

Tok(p, i) == token[p.at + i]

(* A scope stays the number of a symbol of the file that opened it, also   *)
(* in the next file, where that number is another symbol's.                *)
lookupSymbol(name) ==
  LET k == SelectInSeq(symbol, LAMBDA s : s.name = name /\ s.scope \in {0, scope})
  IN  IF k = 0 THEN [type |-> "NULL"] ELSE symbol[k]

-----------------------------------------------------------------------------
(* The operand of a pattern: its last token is the number or the name, an  *)
(* offset is the number behind + # that follow it.                         *)
Width(p) ==
  LET rows == Operands \o Registers
  IN  Len(rows[SelectInSeq(rows, LAMBDA row : row[1] = p.type)][2])

Offset(p)  == IF p.off THEN Tok(p, Width(p) + 3).num ELSE 0
Value(p)   == Tok(p, Width(p)).num
Operand(p) == lookupSymbol(Tok(p, Width(p)).str)
Sign(p)    == Tok(p, Width(p) - 2).type

IsBranch(p)  == Tok(p, 0).type \in Branches
IsLong(p)    == Tok(p, 0).type \in {"JPL", "JSL"}
IsAddress(s) == s.type \in {"SCOPE", "LABEL"}

-----------------------------------------------------------------------------
(* INS_TBL, in blocks of consecutive opcodes: the opcodes at which an      *)
(* instruction goes through a list of arguments. An argument is an operand *)
(* and whether its sign is plus.                                           *)
Plain(args) == [k \in DOMAIN args |-> <<args[k], FALSE>>]
Signed(arg) == <<<<arg, TRUE>>, <<arg, FALSE>>>>
AbsBase == Plain(<<"ABS">>) \o Signed("B_IMM")
Places  == AbsBase \o Plain(<<"P_IMM", "P_ABS">>) \o Signed("P_B_IMM")

Blocks(args, at) == {<<ins, args, at[ins]>> : ins \in DOMAIN at}

Tables ==
  Blocks(Plain(<<"IMM">>) \o Places,
         [LOD |-> 0, PSH |-> 48, AND |-> 96, ORA |-> 104, ADD |-> 112, ADC |-> 120,
          SUB |-> 128, SBC |-> 136, CMP |-> 144]) \cup
  Blocks(Places, [LDW |-> 9, LEA |-> 17, STO |-> 25, PHW |-> 57, PEA |-> 65, PUL |-> 73, PLW |-> 81]) \cup
  Blocks(Plain(<<"A">>) \o Places,
         [NOT |-> 88, ASR |-> 152, LSL |-> 160, LSR |-> 168, ROL |-> 176, ROR |-> 184,
          INC |-> 192, DEC |-> 200]) \cup
  Blocks(Plain(<<"A">>) \o AbsBase, [ICT |-> 208, DCT |-> 212]) \cup
  Blocks(Signed("I_IMM"),
         [BRZ |-> 224, BNZ |-> 226, BRC |-> 228, BNC |-> 230, BRN |-> 232, BNN |-> 234,
          BRG |-> 236, BNG |-> 238, BRA |-> 240]) \cup
  Blocks(Signed("P_B_IMM"), [VEC |-> 242]) \cup
  Blocks(Plain(<<"A_F", "F_A", "P_B", "P_S", "B_P", "B_S", "S_P", "S_B">>), [MOV |-> 32]) \cup
  Blocks(Plain(<<"A_K", "K_A">>), [MOV |-> 222]) \cup
  Blocks(Plain(<<"A", "F">>), [PSH |-> 40, PUL |-> 44]) \cup
  Blocks(Plain(<<"P", "B">>), [PHW |-> 42, PLW |-> 46]) \cup
  Blocks(Plain(<<"P">>), [INC |-> 216, DEC |-> 217, ICT |-> 218, DCT |-> 219]) \cup
  Blocks(Plain(<<"ABS">>), [STW |-> 8, JMP |-> 244, JPL |-> 245, JSR |-> 248, JSL |-> 249]) \cup
  Blocks(<<<<"B_IMM", TRUE>>>>, [STW |-> 16]) \cup Blocks(<<<<"B_IMM", FALSE>>>>, [STW |-> 24]) \cup
  Blocks(Plain(<<"IMM">>), [SET |-> 220, CLR |-> 221, ENT |-> 246, EXT |-> 247, RTS |-> 251, RTL |-> 253]) \cup
  Blocks(Plain(<<"INS">>), [COP |-> 56, CPW |-> 64, NOP |-> 80, RTS |-> 250, RTL |-> 252, RTI |-> 254, BRK |-> 255])

INS_TBL == UNION {{<<b[1], b[2][k], b[3] + k - 1>> : k \in DOMAIN b[2]} : b \in Tables}

NoOpcode == 256
OpcodeOf(ins, arg) ==
  LET rows == {row \in INS_TBL : row[1] = ins /\ row[2] = arg}
  IN  IF rows = {} THEN NoOpcode ELSE (CHOOSE row \in rows : TRUE)[3]

-----------------------------------------------------------------------------
(* The argument that a name stands for, and one behind p +.                *)
NameArg(s) ==
  CASE s.type = "B_PLUS"  -> <<"B_IMM", TRUE>>
    [] s.type = "B_MINUS" -> <<"B_IMM", FALSE>>
    [] s.type = "P_PLUS"  -> <<"P_IMM", TRUE>>
    [] OTHER              -> <<"ABS", FALSE>>

PNameArg(s) ==
  CASE s.type = "B_PLUS"  -> <<"P_B_IMM", TRUE>>
    [] s.type = "B_MINUS" -> <<"P_B_IMM", FALSE>>
    [] s.type = "P_PLUS"  -> <<"P_NAME", FALSE>>   \* no row of the table has it
    [] OTHER              -> <<"P_ABS", FALSE>>

ArgOf(p) ==
  CASE p.type = "NAME" /\ IsBranch(p)   -> <<"I_IMM", Operand(p).type = "NULL">>
    [] p.type = "NAME" /\ ~IsBranch(p)  -> NameArg(Operand(p))
    [] p.type = "P_NAME"                -> PNameArg(Operand(p))
    [] p.type = "IMMNAME"               -> <<"IMM", FALSE>>
    [] p.type \in {"B_IMM", "P_B_IMM"}  -> <<p.type, ~p.off /\ Sign(p) = "PLUS">>
    [] p.type = "I_IMM"                 -> <<p.type, Tok(p, 4).type = "PLUS">>  \* the number's place
    [] OTHER                            -> <<p.type, FALSE>>

getOpcode(p) == OpcodeOf(Tok(p, 0).type, ArgOf(p))

-----------------------------------------------------------------------------
(* What addArgData does: it adds the bytes of data, or refers to the name  *)
(* and adds zeros, or reports an error, or adds nothing. Every case counts *)
(* curr_address on by a number of its own, by.                             *)
Emit(data, size, by)  == [ok |-> TRUE, ref |-> "NONE", data |-> data, size |-> size, by |-> by]
Refer(type, size, by) == [ok |-> TRUE, ref |-> type, data |-> 0, size |-> size, by |-> by]
Refuse == [ok |-> FALSE, ref |-> "NONE", data |-> 0, size |-> 0, by |-> 0]

(* A branch back, to a symbol that is known; behind is curr_address,    *)
(* which is behind the opcode.                                             *)
BackBy(s, behind) == behind - s.value - 1

BranchData(s, behind) ==
  CASE s.type = "NULL"                         -> Refer("RELATIVE", 1, 1)
    [] IsAddress(s) /\ BackBy(s, behind) \in Byte -> Emit(BackBy(s, behind), 1, 1)
    [] OTHER                                   -> Refuse

ImmNameData(p, s) ==
  CASE s.type = "NULL"   -> Refer("DATA", 1, 1)
    [] s.type = "NUMBER" -> Emit(s.value + Offset(p), 1, 1)
    [] OTHER             -> Refuse

LongOrWord(p) == IF IsLong(p) THEN 3 ELSE 2
Normalized(p, value) == IF IsLong(p) THEN normalizeLong(value) ELSE normalizeWord(value)

(* Mutant of NameData: the address moves by a word when a label is known.  *)
NameDataByWord(p, s) ==
  CASE s.type = "NULL"    -> Refer("ABSOLUTE", LongOrWord(p), LongOrWord(p))
    [] IsAddress(s)       -> Emit(Normalized(p, s.value) + Offset(p), LongOrWord(p), 2)
    [] s.type = "NUMBER"  -> Emit(s.value + Offset(p), LongOrWord(p), LongOrWord(p))
    [] s.type = "B_MINUS" -> Emit(s.value - 1 - Offset(p), 1, 1)
    [] OTHER              -> Emit(s.value + Offset(p), 1, 1)

NameData(p, s) ==
  CASE s.type = "NULL"    -> Refer("ABSOLUTE", LongOrWord(p), LongOrWord(p))
    [] IsAddress(s)       -> Emit(Normalized(p, s.value) + Offset(p), LongOrWord(p), LongOrWord(p))
    [] s.type = "NUMBER"  -> Emit(s.value + Offset(p), LongOrWord(p), LongOrWord(p))
    [] s.type = "B_MINUS" -> Emit(s.value - 1 - Offset(p), 1, 1)
    [] OTHER              -> Emit(s.value + Offset(p), 1, 1)

PNameData(p, s) ==
  CASE s.type = "NULL"    -> Refer("ABSOLUTE", 2, 2)
    [] IsAddress(s)       -> Emit(Normalized(p, s.value) + Offset(p), 2, 2)
    [] s.type = "NUMBER"  -> Emit(s.value + Offset(p), 2, 2)
    [] s.type = "B_MINUS" -> Emit(s.value - 1 - Offset(p), 1, 1)
    [] OTHER              -> Emit(s.value + Offset(p), 1, 1)

NumberData(p) ==
  LET sum  == Value(p) + Offset(p)
      less == Value(p) - 1 - Offset(p)
  IN CASE p.type = "IMM"             -> Emit(sum, 1, 1)
       [] p.type = "ABS" /\ ~p.off   -> Emit(sum, LongOrWord(p), LongOrWord(p))
       [] p.type = "ABS" /\ p.off    -> Emit(sum, 2, 2)
       [] p.type = "P_ABS"           -> Emit(sum, 2, 2)
       [] p.type \in {"I_IMM", "P_IMM", "B_IMM"} ->
            Emit(IF Sign(p) = "MINUS" THEN less ELSE sum, 1, 1)
       [] p.type = "P_B_IMM"         -> Emit(IF p.off /\ Sign(p) = "MINUS" THEN less ELSE sum, 1, 1)
       [] OTHER                      -> Emit(0, 0, 0)

addArgData(p, behind) ==
  IF p.type = "NAME" /\ ~p.off /\ IsBranch(p) THEN BranchData(Operand(p), behind)
  ELSE CASE p.type = "IMMNAME" -> ImmNameData(p, Operand(p))
         [] p.type = "NAME"    -> NameData(p, Operand(p))
         [] p.type = "P_NAME"  -> PNameData(p, Operand(p))
         [] OTHER              -> NumberData(p)

=============================================================================
