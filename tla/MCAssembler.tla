---------------------------- MODULE MCAssembler -----------------------------
(***************************************************************************)
(* Every instruction, six of them with every form of operand; every file   *)
(* of three statements of a menu; branches at the edge of their reach; two *)
(* files that use each other's names, also without an origin, with a scope *)
(* left open or past the end of the image.                                 *)
(***************************************************************************)
EXTENDS AssemblyText

MCNames == {"x", "y"}

Lod(type, arg, off) == Inst("LOD", type, "PLUS", arg, off)

(* One instruction between the definitions of its name.                    *)
Arg(type) == IF type \in {"IMMNAME", "NAME", "P_NAME"} THEN "x" ELSE 513
Types     == {row[1] : row \in ToSet(Forms)}
Offsets(type) == IF type \in {row[1] : row \in ToSet(Operands)} THEN {0, 3} ELSE {0}

InsKeys == {k \in {"ins"} \X Ins \X Types \X {"PLUS", "MINUS"} \X {0, 3} :
              /\ k[5] \in Offsets(k[3]) /\ (k[4] = "PLUS" \/ "ARITH" \in ToSet(FormOf(k[3])))
              /\ \/ k[2] \in {"LOD", "STW", "MOV", "BNZ", "VEC", "JSL"}
                 \/ k[3] \in {"INS", "A", "P", "IMM", "NAME", "P_NAME"} /\ k[5] = 0}
InsSource(k) == <<<<Org(16640), Inst(k[2], k[3], k[4], Arg(k[3]), k[5]), XLab("x")>>>>

(* Three statements of a menu.                                             *)
Menu ==
  <<Lab("x"), Lab("y"), Open("y"), Close, Def("x", "NUMBER", 5), Def("y", "B_MINUS", 4),
    Lod("NAME", "x", 0), Lod("IMMNAME", "x", 0), Inst("BRA", "NAME", "PLUS", "x", 0),
    Inst("JSL", "NAME", "PLUS", "y", 0), Inst("LDW", "P_NAME", "PLUS", "y", 2),
    Data("WORD", <<Name("x"), Num(300)>>), Org(1), Strz(""),
    Raw(<<T("RBRACE"), T("LBRACE"), Nl>>)>>

LineKeys == {"lines"} \X (1 .. Len(Menu)) \X (1 .. Len(Menu)) \X (1 .. Len(Menu))
LineSource(k) == <<<<Org(0), Menu[k[2]], Menu[k[3]], Menu[k[4]]>>>>

(* Branches forward and back over a gap of an origin.                      *)
ReachKeys == {"ahead", "behind"} \X {2, 3, 4, 253, 254, 255, 256, 257, 258, 259}
Bnz == Inst("BNZ", "NAME", "PLUS", "x", 0)
ReachSource(k) == IF k[1] = "ahead" THEN <<<<Org(0), Bnz, Org(k[2]), Lab("x"), Data("BYTE", <<Num(1)>>)>>>>
                  ELSE <<<<Org(0), Lab("x"), Data("BYTE", <<Num(1)>>), Org(k[2]), Bnz, Bnz>>>>

(* Two files.                                                              *)
First ==
  <<XLab("x"), XOpen("x"), Lab("x"), Open("x"), Lod("NAME", "y", 0), Inst("JSL", "NAME", "PLUS", "y", 0),
    Data("LONG", <<Name("y")>>), Bnz>>
Second ==
  <<XLab("y"), Lod("NAME", "x", 0), Inst("BRA", "NAME", "PLUS", "x", 0),
    Def("y", "P_PLUS", 3), Org(32769), Org(262143), Data("QUAD", <<Num(9), Num(10), Num(11)>>)>>
Starts == <<<<Org(32768), XLab("y")>>, <<Org(1)>>, <<XLab("y")>>>>

FileKeys == {"files"} \X (1 .. Len(First)) \X (1 .. Len(First)) \X (1 .. Len(Starts)) \X (1 .. Len(Second))
FileSource(k) == <<<<Org(0), First[k[2]], First[k[3]]>>, Starts[k[4]] \o <<Second[k[5]]>>>>

(* Files without an origin, with or without a later one with two segments. *)
NoOrigin == <<Def("x", "NUMBER", 1)>>
Bare == <<<<NoOrigin, <<Org(0), Org(8)>>>>, <<NoOrigin, <<Org(0), Strz("")>>>>,
          <<<<Org(0), Org(8)>>, NoOrigin>>, <<<<Org(0)>>, NoOrigin, <<Org(4), Org(8)>>>>>>

(* Texts that are no list of statements.                                   *)
OddTexts ==
  <<<<Raw(<<Name("x"), T("EQUALS")>>)>>,
    <<Raw(<<Name("x"), T("EQUALS"), Nl, Nl>>), Lod("IMM", 1, 0)>>,
    <<Raw(<<Num(7), Nl>>)>>,
    <<Org(0), Raw(<<T("EXPORT"), Name("x"), T("BYTE"), Num(1), Nl>>)>>,
    <<Org(0), Raw(<<Name("x"), T("WORD"), Name("x"), Num(1), T("A"), Nl>>), Lab("y")>>,
    <<Org(0), Raw(<<Name("x"), T("LOD"), T("HASH"), Num(1), Nl>>)>>,
    <<Org(0), Strz("\\"), Lab("x")>>, <<Strz("")>>, <<Data("BYTE", <<Num(1)>>)>>, <<Lod("IMM", 1, 0)>>,
    <<Org(0), Def("y", "P_PLUS", 1), Lod("NAME", "y", 0), Inst("VEC", "P_NAME", "PLUS", "y", 0)>>,
    <<Org(0), Def("y", "B_PLUS", 1), Lod("NAME", "y", 3), Inst("VEC", "P_NAME", "PLUS", "y", 1), Data("BYTE", <<Name("y")>>)>>,
    <<>>, <<Close>>, <<Def("x", "NUMBER", 1)>>, <<XLab("x")>>, <<XOpen("x")>>, <<Open("x")>>>>

-----------------------------------------------------------------------------
MCPrograms == InsKeys \cup LineKeys \cup ReachKeys \cup FileKeys \cup ({"bare"} \X DOMAIN Bare) \cup ({"odd"} \X DOMAIN OddTexts)

MCSource(k) ==
  CASE k[1] = "ins"                -> InsSource(k)
    [] k[1] = "lines"              -> LineSource(k)
    [] k[1] \in {"ahead","behind"} -> ReachSource(k)
    [] k[1] = "files"              -> FileSource(k)
    [] k[1] = "bare"               -> Bare[k[2]]
    [] k[1] = "odd"                -> <<OddTexts[k[2]]>>

MCFiles(k) == Text(MCSource(k))

=============================================================================
