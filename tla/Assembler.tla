----------------------------- MODULE Assembler ------------------------------
(***************************************************************************)
(* The assembler (src/assembler/src/assembler.c, parser.c and linker.c):   *)
(* every file is lexed, matched into patterns and parsed into an object,   *)
(* statement by statement; names that are not known yet become references, *)
(* filled in at the end of their file or by the linker, which copies the   *)
(* segments of all objects into one output image.                          *)
(*                                                                         *)
(* The state "undefined" is where the code writes through a null pointer   *)
(* or past the output, reads a segment that its object does not have, or   *)
(* prints an argument list that was never started. In the state "counting" *)
(* the linker counts to SIZE_MAX, the number of an object's segments less  *)
(* one if it has none: 2^64 - 1 rounds are taken for no end.               *)
(***************************************************************************)
EXTENDS Instructions, TLC

CONSTANTS
  Programs,    \* names of the inputs
  Files(_),    \* their files, each the sequence of its tokens
  OUTPUT_SIZE  \* bytes of the output image

VARIABLES
  program,   \* which of the inputs
  pc,        \* where main is
  item,      \* parseData's position in its line
  exports,   \* Object.symbol of all objects: the names the others see
  err,       \* whether err_ct of the running phase is above 0
  output     \* the image: bytes by address, where a segment has any

assemblerVars == <<matcherVars, objectVars, instructionVars, program, pc, item, exports, err, output>>

(* What the lexer makes of a file; it ends every file with a newline of    *)
(* its own (token.h, lexer.c).                                             *)
Words == Ins \cup {"NEWLINE", "LBRACE", "RBRACE", "HASH", "PLUS", "MINUS", "A", "F", "K", "P", "B", "S",
                  "I", "ORIGIN", "EXPORT", "BYTE", "WORD", "LONG", "QUAD", "STRZ", "EQUALS"}
Token == [type : Words] \cup [type : Numbers, num : Nat]
         \cup [type : {"NAME"}, str : Names] \cup [type : {"STRING"}, str : STRING]

ASSUME FilesAssumption ==
  \A p \in Programs :
    /\ Files(p) \in Seq(Seq(Token))
    /\ \A f \in DOMAIN Files(p) : /\ Files(p)[f] # <<>>
                                  /\ Files(p)[f][Len(Files(p)[f])].type = "NEWLINE"

ASSUME OutputAssumption == OUTPUT_SIZE \in Nat

Stopped == {"done", "failed", "undefined"}
Export == [object : Nat, name : Names, value : Nat]

AssemblerTypeOK ==
  /\ ObjectsTypeOK
  /\ pc \in Stopped \cup {"file", "match", "parse", "resolve", "link", "counting", "linkrefs", "write"}
  /\ symbol \in Seq(Symbol) /\ scope \in Nat
  /\ exports \in Seq(Export)
  /\ item \in Nat /\ err \in BOOLEAN
  /\ \A a \in DOMAIN output : a < OUTPUT_SIZE /\ output[a] \in Byte

-----------------------------------------------------------------------------
(* main: the files one after the other, then the linker.                   *)
lexFileIntoTokens ==
  /\ pc = "file" /\ object < Len(Files(program))
  /\ matchTokens(Files(program)[object + 1])
  /\ pc' = "match"
  /\ UNCHANGED <<objectVars, instructionVars, program, item, exports, err, output>>

Match ==
  /\ pc = "match"
  /\ \/ matchNewline /\ UNCHANGED err
     \/ matchTokensIntoPatterns /\ err' = (err \/ Mismatch)
  /\ UNCHANGED <<objectVars, instructionVars, program, pc, item, exports, output>>

Matched ==
  /\ pc = "match" /\ token_pos > Len(token)
  /\ IF err THEN pc' = "failed" /\ UNCHANGED <<objectVars, symbol>>
     ELSE pc' = "parse" /\ newObject /\ symbol' = <<>>
  /\ UNCHANGED <<matcherVars, scope, program, item, exports, err, output>>

-----------------------------------------------------------------------------
Parsing(types) ==
  /\ pc = "parse" /\ pattern_pos <= Len(pattern)
  /\ pattern[pattern_pos].type \in types
  /\ UNCHANGED <<program, output>>

curr_pattern == pattern[pattern_pos]
no_origin == segments = <<>>

Error(n) ==
  /\ err' = TRUE /\ nextPattern(n) /\ item' = 0
  /\ UNCHANGED <<objectVars, instructionVars, pc, exports>>

(* Where the statement's data has no segment, or error prints an argument: *)
(* it never starts its argument list, so what it prints is undefined.      *)
Undefined == /\ pc' = "undefined"
             /\ UNCHANGED <<matcherVars, objectVars, instructionVars, item, exports, err>>
ErrorNaming(n) == Error(n) \/ Undefined

addSymbol(type, name, value, in) ==
  symbol' = Append(symbol, [type |-> type, name |-> name, value |-> value, scope |-> in])

addExportSymbol(name) ==
  exports' = Append(exports, [object |-> object, name |-> name, value |-> curr_address])

OpenScope(name) ==
  /\ addSymbol("SCOPE", name, curr_address, 0)
  /\ scope' = Len(symbol) + 1
  /\ nextPattern(1)
  /\ UNCHANGED <<objectVars, pc, item, err>>

parseExportScope ==
  /\ Parsing({"EXPORT_SCOPE"})
  /\ IF no_origin \/ scope # 0 THEN Error(1)
     ELSE OpenScope(Tok(curr_pattern, 1).str) /\ addExportSymbol(Tok(curr_pattern, 1).str)

parseScope ==
  /\ Parsing({"SCOPE"})
  /\ IF no_origin \/ scope # 0 THEN Error(1)
     ELSE OpenScope(Tok(curr_pattern, 0).str) /\ UNCHANGED exports

parseEndscope ==
  /\ Parsing({"ENDSCOPE"})
  /\ IF scope = 0 THEN Error(1)
     ELSE /\ scope' = 0 /\ nextPattern(1)
          /\ UNCHANGED <<objectVars, symbol, pc, item, exports, err>>

Labelled(name) ==
  /\ addSymbol("LABEL", name, curr_address, scope)
  /\ nextPattern(1)
  /\ UNCHANGED <<objectVars, scope, pc, item, err>>

parseExportLabel ==
  /\ Parsing({"EXPORT_LABEL"})
  /\ IF no_origin \/ scope # 0 THEN Error(1)
     ELSE Labelled(Tok(curr_pattern, 1).str) /\ addExportSymbol(Tok(curr_pattern, 1).str)

parseLabel ==
  /\ Parsing({"LABEL"})
  /\ IF no_origin THEN Error(1) ELSE Labelled(Tok(curr_pattern, 0).str) /\ UNCHANGED exports

(* A definition takes two patterns: the name, and what it stands for.      *)
Definition == [NUMBER |-> "NUMBER", B_PLUS_IMM |-> "B_PLUS", B_MINUS_IMM |-> "B_MINUS",
               P_PLUS_IMM |-> "P_PLUS"]

parseDefine ==
  /\ Parsing({"DEFINE"})
  /\ IF pattern_pos = Len(pattern) THEN ErrorNaming(1)
     ELSE LET q == pattern[pattern_pos + 1]
          IN  IF q.type \notin DOMAIN Definition THEN Error(2)
              ELSE /\ addSymbol(Definition[q.type], Tok(curr_pattern, 0).str,
                                Tok(q, IF q.type = "NUMBER" THEN 0 ELSE 3).num, scope)
                   /\ nextPattern(2)
                   /\ UNCHANGED <<objectVars, scope, pc, item, exports, err>>

parseOrigin ==
  /\ Parsing({"ORIGIN"})
  /\ curr_address' = Tok(curr_pattern, 1).num
  /\ newSegment(curr_address')
  /\ nextPattern(1)
  /\ UNCHANGED <<object, references, instructionVars, pc, item, exports, err>>

-----------------------------------------------------------------------------
(* parseData: one number or name of the line at a time.                    *)
Sizes == [BYTE |-> 1, WORD |-> 2, LONG |-> 3, QUAD |-> 4]

AddItem(bytes, by) ==
  /\ addData(bytes)
  /\ curr_address' = curr_address + by
  /\ item' = item + 1
  /\ UNCHANGED <<matcherVars, object, instructionVars, pc, exports>>

(* A name that is not known adds its zeros, and its size to the address,   *)
(* twice: in parseName and again behind it. The mutant adds none.          *)
parseNameBare(name, size) ==
  /\ addReference("DATA", name, curr_address, 0, size)
  /\ AddItem(<<>>, 0)
  /\ UNCHANGED err

parseName(name, size) ==
  LET s == lookupSymbol(name)
  IN  IF s.type = "NULL"
        THEN /\ addReference("DATA", name, curr_address, 0, size)
             /\ AddItem(Bytes(0, size) \o Bytes(0, size), size + size)
             /\ UNCHANGED err
      ELSE IF IsAddress(s) \/ s.type = "NUMBER"
        THEN AddItem(Bytes(s.value, size), size) /\ UNCHANGED <<references, err>>
      ELSE \/ Undefined
           \/ AddItem(Bytes(0, size), size) /\ err' = TRUE /\ UNCHANGED references

parseData ==
  /\ Parsing(DOMAIN Sizes)
  /\ LET t == Tok(curr_pattern, 1 + item)
     IN CASE t.type = "NEWLINE" ->
               /\ nextPattern(1) /\ item' = 0
               /\ UNCHANGED <<objectVars, instructionVars, pc, exports, err>>
          [] t.type \in Numbers \cup {"NAME"} /\ no_origin -> Undefined
          [] t.type \in Numbers /\ ~no_origin ->
               /\ AddItem(Bytes(t.num, Sizes[curr_pattern.type]), Sizes[curr_pattern.type])
               /\ UNCHANGED <<references, err>>
          [] t.type = "NAME" /\ ~no_origin -> parseName(t.str, Sizes[curr_pattern.type])
          [] OTHER -> ErrorNaming(1)

(* parseStrz: the lexer reads one character of a string, so a string is    *)
(* empty, or a backslash, which is an error here.                          *)
parseStrz ==
  /\ Parsing({"STRZ"})
  /\ IF Tok(curr_pattern, 1).str # "" THEN ErrorNaming(1)
     ELSE IF no_origin THEN Undefined
     ELSE /\ addData(<<0>>) /\ curr_address' = curr_address + 1 /\ nextPattern(1)
          /\ UNCHANGED <<object, references, instructionVars, pc, item, exports, err>>

parseIns ==
  /\ Parsing({row[1] : row \in ToSet(Operands) \cup ToSet(Registers)})
  /\ IF getOpcode(curr_pattern) = NoOpcode THEN ErrorNaming(1)
     ELSE IF no_origin THEN Undefined
     ELSE LET behind == curr_address + 1
              arg    == addArgData(curr_pattern, behind)
          IN  \/ ~arg.ok /\ Undefined
              \/ /\ addData(<<getOpcode(curr_pattern)>> \o Bytes(arg.data, arg.size))
                 /\ curr_address' = behind + arg.by
                 /\ IF arg.ref = "NONE" THEN UNCHANGED references
                    ELSE addReference(arg.ref, Tok(curr_pattern, Width(curr_pattern)).str,
                                      behind, Offset(curr_pattern), arg.size)
                 /\ err' = (err \/ ~arg.ok)
                 /\ nextPattern(1)
                 /\ UNCHANGED <<object, instructionVars, pc, item, exports>>

(* What only stands behind a name and = is no statement of its own.        *)
InvalidPattern == Parsing(DOMAIN Definition) /\ Error(1)

Parsed ==
  /\ pc = "parse" /\ pattern_pos > Len(pattern)
  /\ pc' = "resolve"
  /\ UNCHANGED <<matcherVars, objectVars, instructionVars, program, item, exports, err, output>>

-----------------------------------------------------------------------------
(* resolveReferences, one reference at a time: the first symbol of the     *)
(* table with its name, in whatever scope and of whatever type.            *)
SymbolNamed(name) == SelectInSeq(symbol, LAMBDA s : s.name = name)

Fill(k, value) ==
  LET r == references[k]
  IN  IF TooFar(r, value)
        THEN /\ Resolved(k) /\ err' = TRUE
             /\ UNCHANGED <<object, segments, curr_address, pc>>
      ELSE IF Targets(r) = {}
        THEN pc' = "undefined" /\ UNCHANGED <<objectVars, err>>
      ELSE fillReference(k, Filling(r, value)) /\ UNCHANGED <<pc, err>>

Unresolved == SelectInSeq(references, LAMBDA r : /\ r.object = object /\ r.type # "RESOLVED"
                                                /\ SymbolNamed(r.name) # 0)

resolveReferences ==
  /\ pc = "resolve"
  /\ LET k == Unresolved
     IN  IF k # 0 THEN Fill(k, symbol[SymbolNamed(references[k].name)].value)
         ELSE /\ pc' = IF err THEN "failed"
                       ELSE IF object < Len(Files(program)) THEN "file" ELSE "link"
              /\ UNCHANGED <<objectVars, err>>
  /\ UNCHANGED <<matcherVars, instructionVars, program, item, exports, output>>

-----------------------------------------------------------------------------
(* linkObjectsIntoBinary.                                                  *)
(* Where a segment stands in the list of its own object.                   *)
SegmentsOf(i) == {s \in DOMAIN segments : segments[s].object = i}
Ordinal(s) == Cardinality({t \in SegmentsOf(segments[s].object) : t <= s})

(* Of two objects only a later segment of the second one is compared with  *)
(* an earlier one of the first, and never the last one of the first. The   *)
(* mutant misses neighbours.                                               *)
Compared(s, t) ==
  /\ segments[s].object <= segments[t].object
  /\ \E l \in SegmentsOf(segments[s].object) : s < l
  /\ Ordinal(s) < Ordinal(t)

IntersectsShort ==
  \E s, t \in DOMAIN segments :
    Compared(s, t) /\ Ordinal(t) # Ordinal(s) + 1 /\ intersecting(segments[s], segments[t])

Intersects ==
  \E s, t \in DOMAIN segments : Compared(s, t) /\ intersecting(segments[s], segments[t])

(* The first object without a segment stops the comparison: there are no   *)
(* rounds to compare anything in if no object from it on has two segments; *)
(* else it is asked for the segments it does not have.                     *)
Originless == {i \in 1 .. object : SegmentsOf(i) = {}}
Astray == \E k \in Min(Originless) .. object : Cardinality(SegmentsOf(k)) >= 2

LinkSegments ==
  /\ pc = "link"
  /\ \/ Originless # {} /\ pc' = "counting" /\ UNCHANGED err
     \/ Originless # {} /\ Astray /\ pc' = "undefined" /\ UNCHANGED err
     \/ Originless = {} /\ pc' = "linkrefs" /\ err' = Intersects
  /\ UNCHANGED <<matcherVars, objectVars, instructionVars, program, item, exports, output>>

(* The objects are asked in their order, all but the reference's own.      *)
Exporting(r) == SelectInSeq(exports, LAMBDA e : e.object # r.object /\ e.name = r.name)
Unlinked == SelectInSeq(references, LAMBDA r : r.type # "RESOLVED" /\ Exporting(r) # 0)

LinkReferences ==
  /\ pc = "linkrefs"
  /\ LET k == Unlinked
     IN  IF k # 0 THEN Fill(k, exports[Exporting(references[k])].value)
         ELSE /\ err' = (err \/ \E r \in ToSet(references) : r.type # "RESOLVED")
              /\ pc' = IF err' THEN "failed" ELSE "write"
              /\ UNCHANGED objectVars
  /\ UNCHANGED <<matcherVars, instructionVars, program, item, exports, output>>

(* The segments are copied into the image in their order. What no segment  *)
(* covers is what malloc left there.                                       *)
Covers(s, a) == s.address <= a /\ a < End(s)
Image ==
  [a \in UNION {s.address .. End(s) - 1 : s \in ToSet(segments)} |->
     LET s == segments[Max({k \in DOMAIN segments : Covers(segments[k], a)})]
     IN  s.data[a - s.address + 1]]

WriteImage ==
  /\ pc = "write"
  /\ IF \E s \in ToSet(segments) : s.data # <<>> /\ End(s) > OUTPUT_SIZE
       THEN pc' = "undefined" /\ UNCHANGED output
     ELSE pc' = "done" /\ output' = Image
  /\ UNCHANGED <<matcherVars, objectVars, instructionVars, program, item, exports, err>>

-----------------------------------------------------------------------------
Init ==
  /\ ObjectsInit
  /\ token = <<>> /\ token_pos = 1 /\ pattern = <<>> /\ pattern_pos = 1
  /\ symbol = <<>> /\ scope = 0
  /\ program \in Programs
  /\ pc = "file" /\ item = 0 /\ exports = <<>> /\ err = FALSE /\ output = <<>>

Next ==
  \/ lexFileIntoTokens \/ Match \/ Matched
  \/ parseExportScope \/ parseScope \/ parseEndscope \/ parseExportLabel \/ parseLabel
  \/ parseDefine \/ parseOrigin \/ parseData \/ parseStrz \/ parseIns \/ InvalidPattern \/ Parsed
  \/ resolveReferences \/ LinkSegments \/ LinkReferences \/ WriteImage

(* One thread, which is never kept waiting.                                *)
Spec == Init /\ [][Next]_assemblerVars /\ WF_assemblerVars(Next)

-----------------------------------------------------------------------------
(* What is written out is whole: no reference is left, no two segments of  *)
(* one object overlap, and a segment that no other object's meets is in    *)
(* the image byte for byte (linker.c:20-75).                               *)
ImageWhole ==
  pc = "done" =>
    /\ \A r \in ToSet(references) : r.type = "RESOLVED"
    /\ \A s, t \in DOMAIN segments :
         s < t /\ segments[s].object = segments[t].object => ~intersecting(segments[s], segments[t])
    /\ \A s \in ToSet(segments) :
         (\A t \in ToSet(segments) : t.object # s.object => ~intersecting(s, t)) =>
           \A i \in DOMAIN s.data : output[s.address + i - 1] = s.data[i]

(* The three phases and the linker only append to the newest segment and   *)
(* fill pending references (object.c, parser.c, instruction.c, linker.c).  *)
ImplementsObjects == ObjectSpec

(* Every run ends, for each token, pattern, data item and reference is     *)
(* passed (matcher.c:16-51, parser.c:42-61, object.c:189-197), but for the *)
(* one case: files without an error, one of which has no origin, keep the  *)
(* linker counting (linker.c:21).                                          *)
Finishes == \/ <>(pc \in Stopped)
            \/ <>[](pc = "counting" /\ ~err /\ Originless # {})

=============================================================================
