------------------------------ MODULE Objects -------------------------------
(***************************************************************************)
(* The object files of the assembler (src/assembler/src/object.c): the     *)
(* segments, which only grow at the end of the newest one, and the         *)
(* references, places in them to be filled in when a name is known.        *)
(*                                                                         *)
(* The segments and references of all objects are in one list each, in the *)
(* order of the objects. ObjectSpec, where anything may be appended and    *)
(* any reference filled at any time, is the abstract specification that    *)
(* Assembler implements.                                                   *)
(***************************************************************************)
EXTENDS Integers, Sequences, SequencesExt, FiniteSetsExt

CONSTANT Names

VARIABLES
  object,       \* the object being filled
  segments,     \* Object.segment of all objects; the last is the current one
  references,   \* Object.reference of all objects
  curr_address  \* where the next byte goes

objectVars == <<object, segments, references, curr_address>>

Byte      == 0 .. 255
Segment   == [object : Nat, address : Nat, data : Seq(Byte)]
Reference == [object : Nat, type : {"DATA", "RELATIVE", "ABSOLUTE", "RESOLVED"},
              name : Names, address : Nat, offset : Nat, size : 1 .. 4]

ObjectsTypeOK == /\ object \in Nat /\ curr_address \in Nat
                 /\ segments \in Seq(Segment)
                 /\ references \in Seq(Reference)

Newest == Len(segments)
End(s) == s.address + Len(s.data)

-----------------------------------------------------------------------------
(* addData's little endian bytes, of which at most four of the code's 32   *)
(* bits are taken; its mutant forgets the mask.                            *)
BytesUncut(data, size) == [i \in 1 .. size |-> data \div 256 ^ (i - 1)]
Bytes(data, size) == [i \in 1 .. size |-> (data \div 256 ^ (i - 1)) % 256]

(* The address is none of newSegment's and addData's business: each of     *)
(* their callers sets curr_address, or counts it on, by itself.            *)
newSegment(address) ==
  segments' = Append(segments, [object |-> object, address |-> address, data |-> <<>>])

addData(bytes) == segments' = [segments EXCEPT ![Newest].data = @ \o bytes]

(* Mutant of addReference: called when the zeros have been added.          *)
addReferenceBehind(type, name, address, offset, size) ==
  references' = Append(references, [object |-> object, type |-> type, name |-> name,
                                    address |-> address + size, offset |-> offset, size |-> size])

addReference(type, name, address, offset, size) ==
  references' = Append(references, [object |-> object, type |-> type, name |-> name,
                                    address |-> address, offset |-> offset, size |-> size])

normalizeWord(address) == (address % 16384) + 49152
normalizeLong(address) == normalizeWord(address) + 65536 * ((address \div 16384) % 16)

(* fillReference: the last segment of the object in which the address of   *)
(* the reference lies, and what goes there.                                *)
Targets(r) == {s \in DOMAIN segments : /\ segments[s].object = r.object
                                       /\ segments[s].address <= r.address
                                       /\ r.address < End(segments[s])}

(* Mutant of Distance: counted from the byte behind the operand.           *)
DistanceShort(r, value) == value - r.address - 1

Distance(r, value) == value - r.address - 2
TooFar(r, value)   == r.type = "RELATIVE" /\ Distance(r, value) \notin Byte

Filling(r, value) ==
  CASE r.type = "DATA"     -> Bytes(value, r.size)
    [] r.type = "RELATIVE" -> Bytes(Distance(r, value), 1)
    [] r.type = "ABSOLUTE" -> Bytes(IF r.size = 2 THEN normalizeWord(value) ELSE normalizeLong(value), r.size)

(* Mutant of Resolved: the reference stays pending.                        *)
ResolvedUnmarked(k) == k \in DOMAIN references /\ UNCHANGED references

Resolved(k) == references' = [references EXCEPT ![k].type = "RESOLVED"]

(* insertData: bytes over the data of s from offset from on. What falls    *)
(* behind its end is spare capacity. The mutant is one byte late.          *)
insertDataShifted(s, from, bytes) ==
  segments' = [segments EXCEPT ![s].data =
    [i \in DOMAIN @ |-> IF i \in from + 2 .. from + Len(bytes) + 1 THEN bytes[i - from - 1] ELSE @[i]]]

insertData(s, from, bytes) ==
  segments' = [segments EXCEPT ![s].data =
    [i \in DOMAIN @ |-> IF i \in from + 1 .. from + Len(bytes) THEN bytes[i - from] ELSE @[i]]]

fillReference(k, bytes) ==
  LET r == references[k]
      s == Max(Targets(r))
  IN  /\ insertData(s, r.address - segments[s].address, bytes)
      /\ Resolved(k)
      /\ UNCHANGED <<object, curr_address>>

newObject == object' = object + 1 /\ UNCHANGED <<segments, references, curr_address>>

-----------------------------------------------------------------------------
ObjectsInit == object = 0 /\ segments = <<>> /\ references = <<>> /\ curr_address = 0

(* A segment may begin at any address.                                     *)
BeginSegment ==
  /\ curr_address' \in Nat /\ newSegment(curr_address')
  /\ UNCHANGED <<object, references>>

(* Any bytes may be appended, and one reference into them recorded; what   *)
(* the callers owe is that the address then moves by as many bytes.        *)
Appended == LET old == Len(segments[Newest].data)
                new == segments'[Newest].data
            IN  SubSeq(new, old + 1, Len(new))

Referred(r) == /\ r \in Reference /\ r.object = object
               /\ curr_address <= r.address /\ r.address + r.size <= curr_address'

AppendData ==
  /\ segments # <<>>
  /\ Appended \in Seq(Byte) /\ addData(Appended)
  /\ curr_address' = curr_address + Len(Appended)
  /\ \/ UNCHANGED references
     \/ \E r \in ToSet(references') : Referred(r) /\ references' = Append(references, r)
  /\ UNCHANGED object

(* A pending reference is resolved: its bytes, or some of them, may change *)
(* in one segment, or it is given up with an error.                        *)
Patched(s, r) ==
  LET new == segments'[s].data
      at  == r.address - segments[s].address
  IN  [i \in 1 .. r.size |-> IF at + i \in DOMAIN new THEN new[at + i] ELSE 0]

Resolve ==
  \E k \in DOMAIN references :
    /\ references[k].type # "RESOLVED"
    /\ \/ Resolved(k) /\ UNCHANGED <<object, segments, curr_address>>
       \/ /\ Targets(references[k]) # {}
          /\ Patched(Max(Targets(references[k])), references[k]) \in [1 .. references[k].size -> Byte]
          /\ fillReference(k, Patched(Max(Targets(references[k])), references[k]))

ObjectNext == \/ newObject
              \/ BeginSegment
              \/ AppendData
              \/ Resolve

ObjectSpec == ObjectsInit /\ [][ObjectNext]_objectVars

-----------------------------------------------------------------------------
(* The address that labels and references get, which is counted beside the *)
(* data at every place that adds some, is the end of the newest segment    *)
(* (parser.c:139-207, 252, instruction.c:258-514).                         *)
AddressesAgree == segments # <<>> => curr_address = End(segments[Newest])

(* The bytes of a reference lie in one segment, the one that fillReference *)
(* finds, unless its object had no origin of its own yet; and any other    *)
(* segment that it may find instead overlaps this one (parser.c:247-252,   *)
(* instruction.c:262-264, object.c:208-215).                               *)
Inside(r, s) == s.address <= r.address /\ r.address + r.size <= End(s)

intersecting(a, b) ==
  \/ a.address < b.address /\ End(a) > b.address
  \/ b.address < a.address /\ End(b) > a.address
  \/ a.address = b.address

Holds(r, s) ==
  /\ Inside(r, segments[s])
  /\ s \in Targets(r) \/ \A t \in DOMAIN segments : segments[t].object = r.object => s < t
  /\ \A t \in Targets(r) : t = s \/ intersecting(segments[s], segments[t])

ReferencesInside == \A r \in ToSet(references) : \E s \in DOMAIN segments : Holds(r, s)

(* Bytes that were added never move, and one changes only inside of a      *)
(* reference that the step resolves (object.c:161-243).                    *)
PatchedAt(s, i) ==
  \E k \in DOMAIN references :
    LET r == references[k]
        at == segments[s].address + i - 1
    IN  /\ r.type # "RESOLVED" /\ references'[k].type = "RESOLVED"
        /\ r.address <= at /\ at < r.address + r.size

BytesStay ==
  \A s \in DOMAIN segments :
    /\ s \in DOMAIN segments' /\ segments'[s].address = segments[s].address
    /\ DOMAIN segments[s].data \subseteq DOMAIN segments'[s].data
    /\ \A i \in DOMAIN segments[s].data :
         segments'[s].data[i] = segments[s].data[i] \/ PatchedAt(s, i)

PatchesOnlyPending == [][BytesStay]_objectVars

=============================================================================
