------------------------------ MODULE Matcher -------------------------------
(***************************************************************************)
(* The assembler's matcher (src/assembler/src/matcher.c, token.c and       *)
(* pattern.c): it cuts the token list of a file into patterns, one per     *)
(* statement, by the first row of a table whose tokens come next.          *)
(*                                                                         *)
(* A token has a type and, if it is a name or a string, its text, if it is *)
(* a number its value: lexing is left out. A pattern has its type, whether *)
(* an offset follows its operand (the patterns ..._OFF), and the position  *)
(* of its first token. The lexer ends every file with a newline, and no    *)
(* row goes on behind one: the tokens never run out inside a row.          *)
(***************************************************************************)
EXTENDS Integers, Sequences, SequencesExt

VARIABLES
  token,       \* the tokens of the file
  token_pos,   \* the next of them
  pattern,     \* the patterns of the file
  pattern_pos  \* the next of them

matcherVars == <<token, token_pos, pattern, pattern_pos>>

Ins == {"LOD", "LDW", "LEA", "STO", "STW", "MOV", "PSH", "PHW", "PEA", "PUL", "PLW", "COP",
        "CPW", "NOP", "NOT", "AND", "ORA", "ADD", "ADC", "SUB", "SBC", "CMP", "ASR", "LSL",
        "LSR", "ROL", "ROR", "INC", "DEC", "ICT", "DCT", "SET", "CLR", "BRZ", "BNZ", "BRC",
        "BNC", "BRN", "BNN", "BRG", "BNG", "BRA", "VEC", "JMP", "JPL", "ENT", "EXT", "JSR",
        "JSL", "RTS", "RTL", "RTI", "BRK"}
Branches == {"BRZ", "BNZ", "BRC", "BNC", "BRN", "BNN", "BRG", "BNG", "BRA"}
Numbers  == {"DECIMAL", "HEX", "BINARY"}

Group(type) == CASE type \in Ins               -> "INS"
                 [] type \in Numbers           -> "NUMBER"
                 [] type \in {"PLUS", "MINUS"} -> "ARITH"
                 [] OTHER                      -> type

-----------------------------------------------------------------------------
(* PAT_TOK_TBL: the operands that an offset may follow, the other          *)
(* operands, and the lines without an instruction.                         *)
Operands ==
  <<<<"IMMNAME", <<"HASH", "NAME">>>>,
    <<"NAME",    <<"NAME">>>>,
    <<"P_NAME",  <<"P", "PLUS", "NAME">>>>,
    <<"IMM",     <<"HASH", "NUMBER">>>>,
    <<"ABS",     <<"NUMBER">>>>,
    <<"B_IMM",   <<"B", "ARITH", "HASH", "NUMBER">>>>,
    <<"P_IMM",   <<"P", "PLUS", "HASH", "NUMBER">>>>,
    <<"P_ABS",   <<"P", "PLUS", "NUMBER">>>>,
    <<"P_B_IMM", <<"P", "PLUS", "B", "ARITH", "HASH", "NUMBER">>>>>>

Registers ==
  <<<<"I_IMM", <<"I", "ARITH", "HASH", "NUMBER">>>>,
    <<"A_F", <<"A", "F">>>>, <<"F_A", <<"F", "A">>>>, <<"A_K", <<"A", "K">>>>,
    <<"K_A", <<"K", "A">>>>, <<"P_B", <<"P", "B">>>>, <<"P_S", <<"P", "S">>>>,
    <<"B_P", <<"B", "P">>>>, <<"B_S", <<"B", "S">>>>, <<"S_P", <<"S", "P">>>>,
    <<"S_B", <<"S", "B">>>>, <<"A", <<"A">>>>, <<"F", <<"F">>>>, <<"P", <<"P">>>>,
    <<"B", <<"B">>>>, <<"INS", <<>>>>>>

Lines ==
  <<<<"DEFINE",       <<"NAME", "EQUALS">>>>,
    <<"EXPORT_SCOPE", <<"EXPORT", "NAME", "LBRACE", "NEWLINE">>>>,
    <<"SCOPE",        <<"NAME", "LBRACE", "NEWLINE">>>>,
    <<"ENDSCOPE",     <<"RBRACE", "NEWLINE">>>>,
    <<"EXPORT_LABEL", <<"EXPORT", "NAME", "NEWLINE">>>>,
    <<"EXPORT_LABEL", <<"EXPORT", "NAME">>>>,
    <<"LABEL",        <<"NAME", "NEWLINE">>>>,
    <<"LABEL",        <<"NAME">>>>,
    <<"ORIGIN",       <<"ORIGIN", "HEX", "NEWLINE">>>>,
    <<"BYTE", <<"BYTE">>>>, <<"WORD", <<"WORD">>>>, <<"LONG", <<"LONG">>>>, <<"QUAD", <<"QUAD">>>>,
    <<"STRZ",         <<"STRZ", "STRING", "NEWLINE">>>>,
    <<"NUMBER",       <<"NUMBER", "NEWLINE">>>>,
    <<"B_PLUS_IMM",   <<"B", "PLUS", "HASH", "NUMBER", "NEWLINE">>>>,
    <<"B_MINUS_IMM",  <<"B", "MINUS", "HASH", "NUMBER", "NEWLINE">>>>,
    <<"P_PLUS_IMM",   <<"P", "PLUS", "HASH", "NUMBER", "NEWLINE">>>>>>

Rows(table, off, before, behind) ==
  [k \in DOMAIN table |->
     [type |-> table[k][1], off |-> off, token |-> before \o table[k][2] \o behind]]

PAT_TOK_TBL ==
  Rows(Operands, FALSE, <<"INS">>, <<"NEWLINE">>) \o
  Rows(Operands, TRUE, <<"INS">>, <<"PLUS", "HASH", "NUMBER", "NEWLINE">>) \o
  Rows(Registers, FALSE, <<"INS">>, <<"NEWLINE">>) \o
  Rows(Lines, FALSE, <<>>, <<>>)

Matches(row) ==
  \A j \in DOMAIN row.token :
    /\ token_pos + j - 1 <= Len(token)
    /\ row.token[j] \in {token[token_pos + j - 1].type, Group(token[token_pos + j - 1].type)}

matchPattern == SelectInSeq(PAT_TOK_TBL, Matches)

(* discardLine: behind the next newline.                                   *)
discardLine(from) ==
  LET n == SelectInSeq(SubSeq(token, from, Len(token)), LAMBDA t : t.type = "NEWLINE")
  IN  IF n = 0 THEN Len(token) + 1 ELSE from + n

-----------------------------------------------------------------------------
matchTokens(file) ==
  /\ token' = file /\ token_pos' = 1
  /\ pattern' = <<>> /\ pattern_pos' = 1

matchNewline ==
  /\ token_pos <= Len(token) /\ token[token_pos].type = "NEWLINE"
  /\ token_pos' = token_pos + 1
  /\ UNCHANGED <<token, pattern, pattern_pos>>

Discarded == {"BYTE", "WORD", "LONG", "QUAD", "STRZ"}

matchTokensIntoPatterns ==
  /\ token_pos <= Len(token) /\ token[token_pos].type # "NEWLINE"
  /\ \E k \in {matchPattern} :
         IF k = 0 THEN token_pos' = discardLine(token_pos + 1) /\ UNCHANGED pattern
         ELSE LET row == PAT_TOK_TBL[k]
                  end == token_pos + Len(row.token)
              IN  /\ pattern' = Append(pattern, [type |-> row.type, off |-> row.off, at |-> token_pos])
                  /\ token_pos' = IF row.type \in Discarded THEN discardLine(end) ELSE end
  /\ UNCHANGED <<token, pattern_pos>>

(* A line that starts with no pattern is dropped, and an error.            *)
Mismatch == pattern' = pattern

nextPattern(n) ==
  /\ pattern_pos' = pattern_pos + n
  /\ UNCHANGED <<token, token_pos, pattern>>

=============================================================================
