-------------------------- MODULE AssemblerProofs --------------------------
(***************************************************************************)
(* Proofs about the assembler, for every text of every file, every name    *)
(* and every size of the output.                                           *)
(*                                                                         *)
(* First the object files by themselves, for any bytes added and any       *)
(* references filled in any order: every reference has its room, and bytes *)
(* change only inside of a reference that is being resolved.               *)
(*                                                                         *)
(* Then that the assembler uses them as it may. Every place that adds data *)
(* counts the address on by the bytes it adds, and a reference gets the    *)
(* size of its bytes (ArgGood), which the instruction's row of the         *)
(* argument table decides; the row's name is where the pattern says it is  *)
(* only if every pattern stands for the tokens of its row of the pattern   *)
(* table (TextInv), which is what the rewriting in the matcher must keep;  *)
(* and a line of data ends before the tokens do only because its newline   *)
(* is not an item (ItemInv). With these, each action is a step of the      *)
(* objects or leaves them alone, and what holds of the objects holds here. *)
(*                                                                         *)
(* At last the linker: the double loop of its test leaves out pairs, and   *)
(* that no two segments of one object overlap when it finds nothing needs  *)
(* an argument about where segments stand in their objects' lists          *)
(* (OrdinalsGrow); the image is what the segments hold if none overlap.    *)
(***************************************************************************)
EXTENDS Assembler, DataLemmas, TLAPS, SequenceTheorems, FiniteSetTheorems

(* Later segments are of later objects. A reference has its room in a      *)
(* segment of its own object or in one ahead of all of them.               *)
Ordered == /\ \A s \in DOMAIN segments : segments[s].object <= segments[Newest].object
           /\ segments # <<>> => segments[Newest].object <= object

Own(list, r, s) ==
  list[s].object = r.object \/ \A t \in DOMAIN list : list[t].object = r.object => s < t

Room == \A k \in DOMAIN references : \E s \in DOMAIN segments :
          Inside(references[k], segments[s]) /\ Own(segments, references[k], s)

OInv == ObjectsTypeOK /\ AddressesAgree /\ Ordered /\ Room

-----------------------------------------------------------------------------
(* What adding bytes does to the segments.                                 *)
LEMMA AddedData ==
  ASSUME ObjectsTypeOK, segments # <<>>, NEW bytes \in Seq(Byte), addData(bytes)
  PROVE  /\ segments' \in Seq(Segment) /\ Len(segments') = Len(segments)
         /\ \A s \in DOMAIN segments :
              /\ segments'[s].address = segments[s].address
              /\ segments'[s].object = segments[s].object
              /\ s # Newest => segments'[s] = segments[s]
         /\ Len(segments'[Newest].data) = Len(segments[Newest].data) + Len(bytes)
         /\ \A i \in 1 .. Len(segments[Newest].data) :
              segments'[Newest].data[i] = segments[Newest].data[i]
<1> DEFINE d == segments[Newest].data \o bytes
           e == [segments[Newest] EXCEPT !.data = d]
<1>1. Newest \in 1 .. Len(segments) /\ segments \in Seq(Segment)
  BY EmptySeq, LenProperties DEF ObjectsTypeOK, Newest
<1>2. segments[Newest] \in Segment
  BY <1>1, ElementOfSeq
<1>3. segments[Newest].data \in Seq(Byte)
  BY <1>2 DEF Segment
<1>4. /\ d \in Seq(Byte) /\ Len(d) = Len(segments[Newest].data) + Len(bytes)
      /\ \A i \in 1 .. Len(segments[Newest].data) : d[i] = segments[Newest].data[i]
  BY <1>3, ConcatProperties, LenProperties
<1> HIDE DEF d
<1>5. e \in Segment /\ e.data = d /\ e.address = segments[Newest].address /\ e.object = segments[Newest].object
  BY <1>2, <1>4 DEF Segment
<1>6. segments' = [segments EXCEPT ![Newest] = e]
  BY DEF addData, d
<1> HIDE DEF e
<1>7. segments' \in Seq(Segment) /\ Len(segments') = Len(segments)
  BY <1>1, <1>5, <1>6, ExceptSeq
<1>8. \A s \in DOMAIN segments : segments'[s] = IF s = Newest THEN e ELSE segments[s]
  BY <1>6
<1> QED
  BY <1>1, <1>4, <1>5, <1>7, <1>8, LenProperties

(* What overwriting bytes does to the segments: nothing, if there is no    *)
(* segment s.                                                              *)
LEMMA InsertedData ==
  ASSUME ObjectsTypeOK, NEW s, NEW size \in Nat, NEW bytes \in [1 .. size -> Byte],
         NEW from, s \in DOMAIN segments => from \in Int, insertData(s, from, bytes)
  PROVE  /\ segments' \in Seq(Segment) /\ Len(segments') = Len(segments)
         /\ \A t \in DOMAIN segments :
              /\ segments'[t].address = segments[t].address
              /\ segments'[t].object = segments[t].object
              /\ Len(segments'[t].data) = Len(segments[t].data)
              /\ \A i \in 1 .. Len(segments[t].data) :
                   segments'[t].data[i] # segments[t].data[i] =>
                     t = s /\ i \in from + 1 .. from + size
<1>1. bytes \in Seq(Byte) /\ Len(bytes) = size
  OBVIOUS
<1>2. CASE s \notin DOMAIN segments
  <2>1. segments' = segments
    BY <1>2 DEF insertData, ObjectsTypeOK
  <2> QED
    BY <2>1 DEF ObjectsTypeOK
<1>3. CASE s \in DOMAIN segments
  <2> DEFINE old == segments[s].data
             d == [i \in DOMAIN old |-> IF i \in from + 1 .. from + Len(bytes)
                                        THEN bytes[i - from] ELSE old[i]]
             e == [segments[s] EXCEPT !.data = d]
  <2>1. s \in 1 .. Len(segments) /\ segments \in Seq(Segment)
    BY <1>3, LenProperties DEF ObjectsTypeOK
  <2>2. segments[s] \in Segment
    BY <2>1, ElementOfSeq
  <2>2a. old \in Seq(Byte)
    BY <2>2 DEF Segment
  <2>3. DOMAIN old = 1 .. Len(old) /\ Len(old) \in Nat
    BY <2>2a, LenProperties
  <2>4. \A i \in 1 .. Len(old) : old[i] \in Byte
    BY <2>2a, ElementOfSeq
  <2>5. \A i \in 1 .. Len(old) : d[i] \in Byte
    BY <1>1, <1>3, <2>3, <2>4
  <2>6. d \in [1 .. Len(old) -> Byte]
    BY <2>3, <2>5
  <2>7. d \in Seq(Byte) /\ Len(d) = Len(old)
    BY <2>3, <2>6
  <2>8. \A i \in 1 .. Len(old) : d[i] # old[i] => i \in from + 1 .. from + size
    BY <1>1, <2>3
  <2> HIDE DEF d
  <2>9. e \in Segment /\ e.data = d /\ e.address = segments[s].address /\ e.object = segments[s].object
    BY <2>2, <2>7 DEF Segment
  <2>10. segments' = [segments EXCEPT ![s] = e]
    BY DEF insertData, d
  <2> HIDE DEF e
  <2>11. segments' \in Seq(Segment) /\ Len(segments') = Len(segments)
    BY <2>1, <2>9, <2>10, ExceptSeq
  <2>12. \A t \in DOMAIN segments : segments'[t] = IF t = s THEN e ELSE segments[t]
    BY <2>10
  <2> QED
    BY <2>7, <2>8, <2>9, <2>11, <2>12
<1> QED
  BY <1>2, <1>3

-----------------------------------------------------------------------------
(* The elements of the lists by their places.                              *)
LEMMA Elements ==
  ASSUME ObjectsTypeOK
  PROVE  /\ \A s \in DOMAIN segments : /\ segments[s] \in Segment /\ segments[s].data \in Seq(Byte)
                                       /\ segments[s].object \in Nat /\ segments[s].address \in Nat
                                       /\ Len(segments[s].data) \in Nat
                                       /\ DOMAIN segments[s].data = 1 .. Len(segments[s].data)
         /\ \A k \in DOMAIN references : /\ references[k] \in Reference
                                         /\ references[k].address \in Nat /\ references[k].size \in 1 .. 4
                                         /\ references[k].object \in Nat
         /\ DOMAIN segments = 1 .. Len(segments) /\ Len(segments) \in Nat
         /\ DOMAIN references = 1 .. Len(references) /\ Len(references) \in Nat
         /\ segments # <<>> => Newest \in DOMAIN segments
<1>1. /\ DOMAIN segments = 1 .. Len(segments) /\ Len(segments) \in Nat
      /\ DOMAIN references = 1 .. Len(references) /\ Len(references) \in Nat
  BY LenProperties DEF ObjectsTypeOK
<1>2. \A s \in DOMAIN segments : segments[s] \in Segment
  BY <1>1, ElementOfSeq DEF ObjectsTypeOK
<1>3. \A s \in DOMAIN segments : /\ segments[s].data \in Seq(Byte)
                                 /\ segments[s].object \in Nat /\ segments[s].address \in Nat
  BY <1>2 DEF Segment
<1>4. \A s \in DOMAIN segments : /\ Len(segments[s].data) \in Nat
                                 /\ DOMAIN segments[s].data = 1 .. Len(segments[s].data)
  BY <1>3, LenProperties
<1>5. \A k \in DOMAIN references : references[k] \in Reference
  BY <1>1, ElementOfSeq DEF ObjectsTypeOK
<1>6. \A k \in DOMAIN references : /\ references[k].address \in Nat /\ references[k].size \in 1 .. 4
                                    /\ references[k].object \in Nat
  BY <1>5 DEF Reference
<1>7. segments # <<>> => Newest \in DOMAIN segments
  BY <1>1, EmptySeq DEF ObjectsTypeOK, Newest
<1> QED
  BY <1>1, <1>2, <1>3, <1>4, <1>5, <1>6, <1>7

(* The segment that has the room is the one fillReference finds, if it is  *)
(* of the reference's object, and what else it may find has the byte at    *)
(* the reference's address too.                                            *)
LEMMA RoomIsHeld == OInv => ReferencesInside
<1> SUFFICES ASSUME OInv, NEW k \in DOMAIN references
             PROVE  \E s \in DOMAIN segments : Holds(references[k], s)
  BY DEF ReferencesInside, ToSet
<1> USE DEF OInv
<1> DEFINE r == references[k]
<1>1. r.address \in Nat /\ r.size \in 1 .. 4
  BY Elements
<1>2. PICK s \in DOMAIN segments : Inside(r, segments[s]) /\ Own(segments, r, s)
  BY DEF Room
<1>3. \A t \in DOMAIN segments : segments[t].address \in Nat /\ Len(segments[t].data) \in Nat
  BY Elements
<1> HIDE DEF r
<1>4. segments[s].address <= r.address /\ r.address < End(segments[s])
  BY <1>1, <1>2, <1>3 DEF Inside, End
<1>5. s \in Targets(r) \/ \A t \in DOMAIN segments : segments[t].object = r.object => s < t
  BY <1>2, <1>4 DEF Own, Targets
<1>6. ASSUME NEW t \in Targets(r)
      PROVE  intersecting(segments[s], segments[t])
  <2>1. t \in DOMAIN segments /\ segments[t].address <= r.address /\ r.address < End(segments[t])
    BY DEF Targets
  <2> QED
    BY <1>1, <1>3, <1>4, <2>1 DEF intersecting, End
<1>7. Holds(r, s)
  BY <1>2, <1>5, <1>6 DEF Holds
<1> QED
  BY <1>7 DEF r

(* A reference keeps its place, a segment its beginning and its bytes; new *)
(* segments come at the end.                                               *)
LEMMA RoomStays ==
  ASSUME ObjectsTypeOK, Room, NEW k \in DOMAIN references, NEW n \in Nat,
         DOMAIN segments' = 1 .. n, DOMAIN segments \subseteq DOMAIN segments',
         \A s \in DOMAIN segments : /\ segments'[s].address = segments[s].address
                                    /\ segments'[s].object = segments[s].object
                                    /\ Len(segments'[s].data) \in Nat
                                    /\ Len(segments'[s].data) >= Len(segments[s].data),
         NEW r, r.address = references[k].address, r.size = references[k].size, r.object = references[k].object
  PROVE  \E s \in DOMAIN segments' : Inside(r, segments'[s]) /\ Own(segments', r, s)
<1>1. PICK s \in DOMAIN segments : Inside(references[k], segments[s]) /\ Own(segments, references[k], s)
  BY DEF Room
<1>2. Inside(r, segments'[s])
  <2>1. /\ references[k].address \in Nat /\ references[k].size \in 1 .. 4
        /\ segments[s].address \in Nat /\ Len(segments[s].data) \in Nat
    BY Elements
  <2> DEFINE far == references[k].address + references[k].size
             mid == segments[s].address + Len(segments[s].data)
  <2>2. /\ segments'[s].address = segments[s].address
        /\ Len(segments'[s].data) \in Nat
        /\ Len(segments'[s].data) >= Len(segments[s].data)
    OBVIOUS
  <2>3. segments[s].address <= references[k].address /\ far <= mid
    BY <1>1 DEF Inside, End
  <2>4. far \in Nat /\ mid \in Nat /\ mid <= segments'[s].address + Len(segments'[s].data)
    BY <2>1, <2>2
  <2>5. r.address + r.size = far
    OBVIOUS
  <2> HIDE DEF far, mid
  <2> QED
    BY <2>1, <2>2, <2>3, <2>4, <2>5 DEF Inside, End
<1>3. segments'[s].object = r.object \/ \A t \in DOMAIN segments' : segments'[t].object = r.object => s < t
  <2>1. CASE segments[s].object = references[k].object
    BY <2>1
  <2>2. CASE \A t \in DOMAIN segments : segments[t].object = references[k].object => s < t
    <3> SUFFICES ASSUME NEW t \in DOMAIN segments', segments'[t].object = r.object
                 PROVE  s < t
      OBVIOUS
    <3>1. CASE t \in DOMAIN segments
      BY <2>2, <3>1
    <3>2. CASE t \notin DOMAIN segments
      BY <3>2, Elements
    <3> QED
      BY <3>1, <3>2
  <2> QED
    BY <1>1, <2>1, <2>2 DEF Own
<1>4. Own(segments', r, s)
  BY <1>3 DEF Own
<1> QED
  BY <1>1, <1>2, <1>4

-----------------------------------------------------------------------------
(* Each of the four abstract operations keeps the invariant.               *)
LEMMA NewObjectKeeps ==
  ASSUME OInv, newObject
  PROVE  OInv'
<1> USE DEF OInv
<1>1. UNCHANGED <<segments, references, curr_address>> /\ object' = object + 1
  BY DEF newObject
<1>2. ObjectsTypeOK' /\ AddressesAgree'
  BY <1>1 DEF ObjectsTypeOK, AddressesAgree, Newest, End
<1>3. Room'
  BY <1>1 DEF Room, Inside, End, Own
<1>4. Ordered'
  <2>1. segments # <<>> => segments[Newest].object \in Nat
    BY Elements
  <2> QED
    BY <1>1, <2>1 DEF Ordered, ObjectsTypeOK, Newest
<1> QED
  BY <1>2, <1>3, <1>4

LEMMA NewSegmentKeeps ==
  ASSUME OInv, BeginSegment
  PROVE  OInv'
<1> DEFINE e == [object |-> object, address |-> curr_address', data |-> <<>>]
<1> USE DEF OInv
<1>1. e \in Segment /\ e.address = curr_address' /\ Len(e.data) = 0 /\ e.object = object
  BY EmptySeq DEF ObjectsTypeOK, Segment, BeginSegment
<1>2. segments' = Append(segments, e) /\ UNCHANGED <<object, references>> /\ curr_address' \in Nat
  BY DEF newSegment, BeginSegment
<1> HIDE DEF e
<1>3. /\ segments' \in Seq(Segment) /\ Len(segments') = Len(segments) + 1
      /\ \A s \in 1 .. Len(segments) : segments'[s] = segments[s]
      /\ segments'[Len(segments) + 1] = e
  BY <1>1, <1>2, AppendProperties DEF ObjectsTypeOK
<1>4. ObjectsTypeOK'
  BY <1>2, <1>3 DEF ObjectsTypeOK
<1>5. AddressesAgree'
  BY <1>1, <1>2, <1>3 DEF AddressesAgree, Newest, End
<1>6. DOMAIN segments = 1 .. Len(segments) /\ DOMAIN segments' = 1 .. Len(segments')
  BY <1>3, LenProperties DEF ObjectsTypeOK
<1>7. ASSUME NEW k \in DOMAIN references
      PROVE  \E s \in DOMAIN segments' : Inside(references[k], segments'[s]) /\ Own(segments', references[k], s)
  BY <1>3, <1>6, RoomStays, Elements
<1>8. Room'
  <2>1. references' = references
    BY <1>2
  <2>2. \A k \in DOMAIN references' : \E s \in DOMAIN segments' :
          Inside(references'[k], segments'[s]) /\ Own(segments', references'[k], s)
    BY <1>7, <2>1, Zenon
  <2> QED
    BY <2>2, Zenon DEF Room
<1>9. Ordered'
  <2>1. Newest' = Len(segments) + 1 /\ segments'[Newest'].object = object
    BY <1>1, <1>3 DEF Newest
  <2>2. \A s \in DOMAIN segments : segments[s].object <= object
    BY <1>6, EmptySeq, Elements DEF Ordered, ObjectsTypeOK
  <2>3. \A s \in DOMAIN segments' : segments'[s].object <= object
    BY <1>1, <1>3, <1>6, <2>2, Elements DEF ObjectsTypeOK
  <2> QED
    BY <1>2, <2>1, <2>3 DEF Ordered, ObjectsTypeOK
<1> QED
  BY <1>4, <1>5, <1>8, <1>9

LEMMA AppendDataKeeps ==
  ASSUME OInv, AppendData
  PROVE  OInv'
<1> USE DEF OInv
<1>1. /\ segments # <<>> /\ Appended \in Seq(Byte) /\ addData(Appended) /\ UNCHANGED object
      /\ curr_address' = curr_address + Len(Appended)
      /\ \/ UNCHANGED references
         \/ \E r \in Reference : Referred(r) /\ references' = Append(references, r)
  BY DEF AppendData, Referred
<1> DEFINE n == Len(Appended)
<1>2. /\ segments' \in Seq(Segment) /\ Len(segments') = Len(segments)
      /\ \A s \in DOMAIN segments : /\ segments'[s].address = segments[s].address
                                    /\ segments'[s].object = segments[s].object
                                    /\ s # Newest => segments'[s] = segments[s]
      /\ Len(segments'[Newest].data) = Len(segments[Newest].data) + n
  BY <1>1, AddedData
<1>3. n \in Nat /\ curr_address' = curr_address + n
  BY <1>1, LenProperties
<1> HIDE DEF n
<1>4. Newest \in DOMAIN segments /\ Newest' = Newest
  BY <1>1, <1>2, Elements DEF Newest
<1>5. DOMAIN segments' = DOMAIN segments
  BY <1>2, LenProperties, Elements
<1>6. AddressesAgree'
  <2>1. /\ segments[Newest].address \in Nat /\ Len(segments[Newest].data) \in Nat
        /\ curr_address \in Nat /\ curr_address = End(segments[Newest])
    BY <1>1, <1>4, Elements DEF AddressesAgree, ObjectsTypeOK
  <2>2. segments'[Newest].address = segments[Newest].address
    BY <1>2, <1>4
  <2> QED
    BY <1>2, <1>3, <1>4, <2>1, <2>2 DEF AddressesAgree, End
<1>7. \A s \in DOMAIN segments : /\ Len(segments'[s].data) \in Nat
                                 /\ Len(segments'[s].data) >= Len(segments[s].data)
  <2> SUFFICES ASSUME NEW s \in DOMAIN segments
               PROVE  Len(segments[s].data) \in Nat /\ Len(segments'[s].data) >= Len(segments[s].data)
    OBVIOUS
  <2>1. Len(segments[s].data) \in Nat
    BY Elements
  <2>2. CASE s # Newest
    <3>1. Len(segments'[s].data) = Len(segments[s].data)
      BY <1>2, <2>2
    <3> QED
      BY <2>1, <3>1
  <2>3. CASE s = Newest
    <3>1. Len(segments'[s].data) = Len(segments[s].data) + n
      BY <1>2, <2>3
    <3> QED
      BY <2>1, <3>1, <1>3
  <2> QED
    BY <2>1, <2>2, <2>3
<1>8. ASSUME NEW k \in DOMAIN references
      PROVE  \E s \in DOMAIN segments' : Inside(references[k], segments'[s]) /\ Own(segments', references[k], s)
  BY <1>2, <1>5, <1>7, RoomStays, Elements
<1>9. Ordered'
  <2>1. segments'[Newest'].object = segments[Newest].object
    BY <1>2, <1>4
  <2> QED
    BY <1>1, <1>2, <1>5, <2>1 DEF Ordered
<1>10. curr_address' \in Nat
  BY <1>3 DEF ObjectsTypeOK
<1>11. CASE UNCHANGED references
  <2>1. ObjectsTypeOK'
    BY <1>1, <1>2, <1>10, <1>11 DEF ObjectsTypeOK
  <2>2. Room'
    BY <1>8, <1>11 DEF Room, Inside, End, Own
  <2> QED
    BY <1>6, <1>9, <2>1, <2>2
<1>12. CASE \E r \in Reference : Referred(r) /\ references' = Append(references, r)
  <2>1. PICK r \in Reference : Referred(r) /\ references' = Append(references, r)
    BY <1>12
  <2>2. /\ references' \in Seq(Reference) /\ Len(references') = Len(references) + 1
        /\ \A k \in 1 .. Len(references) : references'[k] = references[k]
        /\ references'[Len(references) + 1] = r
    BY <2>1, AppendProperties DEF ObjectsTypeOK
  <2>3. ObjectsTypeOK'
    BY <1>1, <1>2, <1>10, <2>2 DEF ObjectsTypeOK
  <2>4. r.address \in Nat /\ r.size \in Nat /\ r.object = object
    BY <2>1 DEF Reference, Referred
  <2>5. curr_address = End(segments[Newest]) /\ curr_address' = End(segments'[Newest])
    BY <1>1, <1>4, <1>6, <1>2, EmptySeq, Elements DEF AddressesAgree, End
  <2>6. segments[Newest].address \in Nat /\ Len(segments[Newest].data) \in Nat
    BY <1>4, Elements
  <2>7. segments'[Newest].address <= r.address /\ r.address + r.size <= curr_address'
    BY <1>2, <1>4, <2>1, <2>4, <2>5, <2>6 DEF Referred, End
  <2>8. Newest \in DOMAIN segments' /\ Inside(r, segments'[Newest])
    BY <1>4, <1>5, <2>5, <2>7 DEF Inside, End
  <2>9. Own(segments', r, Newest)
    <3>1. CASE segments[Newest].object = object
      BY <1>2, <1>4, <2>4, <3>1 DEF Own
    <3>2. CASE segments[Newest].object # object
      <4>1. \A t \in DOMAIN segments : segments[t].object # object
        BY <1>1, <1>4, <3>2, Elements DEF Ordered, ObjectsTypeOK
      <4> QED
        BY <1>2, <1>5, <2>4, <4>1 DEF Own
    <3> QED
      BY <3>1, <3>2
  <2>10. ASSUME NEW k \in 1 .. Len(references)
         PROVE  \E s \in DOMAIN segments' : Inside(references'[k], segments'[s]) /\ Own(segments', references'[k], s)
    BY <1>8, <2>2, Elements
  <2>11. DOMAIN references' = 1 .. Len(references) + 1
    BY <2>2, LenProperties
  <2>12. ASSUME NEW k \in DOMAIN references'
         PROVE  \E s \in DOMAIN segments' : Inside(references'[k], segments'[s]) /\ Own(segments', references'[k], s)
    <3>1. CASE k = Len(references) + 1
      <4>1. references'[k] = r
        BY <2>2, <3>1
      <4> QED
        BY <1>4, <2>8, <2>9, <4>1 DEF Own, Inside, End
    <3>2. CASE k \in 1 .. Len(references)
      BY <2>10, <3>2
    <3> QED
      BY <2>11, <3>1, <3>2, Elements
  <2>13. Room'
    BY <2>12 DEF Room, Inside, End, Own
  <2> QED
    BY <1>6, <1>9, <2>3, <2>13
<1> QED
  BY <1>1, <1>11, <1>12

(* Resolving a reference leaves its place, and the segments' lengths.      *)
LEMMA ResolvedReferences ==
  ASSUME ObjectsTypeOK, NEW k \in DOMAIN references, Resolved(k)
  PROVE  /\ references' \in Seq(Reference) /\ DOMAIN references' = DOMAIN references
         /\ references'[k].type = "RESOLVED"
         /\ \A j \in DOMAIN references : /\ references'[j].address = references[j].address
                                         /\ references'[j].size = references[j].size
                                         /\ references'[j].object = references[j].object
<1> DEFINE e == [references[k] EXCEPT !.type = "RESOLVED"]
<1>1. references[k] \in Reference /\ k \in 1 .. Len(references)
  BY Elements
<1>2. /\ e \in Reference /\ e.type = "RESOLVED"
      /\ e.address = references[k].address /\ e.size = references[k].size
      /\ e.object = references[k].object
  BY <1>1 DEF Reference
<1>3. references' = [references EXCEPT ![k] = e]
  BY DEF Resolved
<1> HIDE DEF e
<1>4. references' \in Seq(Reference)
  BY <1>1, <1>2, <1>3, ExceptSeq DEF ObjectsTypeOK
<1> QED
  BY <1>2, <1>3, <1>4

(* What a step of Resolve does, whether it writes or gives up.             *)
LEMMA ResolveStep ==
  ASSUME ObjectsTypeOK, Resolve
  PROVE  \E k \in DOMAIN references :
           /\ references[k].type # "RESOLVED" /\ Resolved(k)
           /\ UNCHANGED <<object, curr_address>>
           /\ segments' \in Seq(Segment) /\ Len(segments') = Len(segments)
           /\ \A t \in DOMAIN segments :
                /\ segments'[t].address = segments[t].address
                /\ segments'[t].object = segments[t].object
                /\ Len(segments'[t].data) = Len(segments[t].data)
                /\ \A i \in 1 .. Len(segments[t].data) :
                     segments'[t].data[i] # segments[t].data[i] =>
                       LET at == segments[t].address + i - 1
                       IN  /\ references[k].address <= at
                           /\ at < references[k].address + references[k].size
<1>1. PICK k \in DOMAIN references :
        /\ references[k].type # "RESOLVED"
        /\ \/ Resolved(k) /\ UNCHANGED <<object, segments, curr_address>>
           \/ /\ Patched(Max(Targets(references[k])), references[k]) \in [1 .. references[k].size -> Byte]
              /\ fillReference(k, Patched(Max(Targets(references[k])), references[k]))
  BY DEF Resolve
<1>2. CASE Resolved(k) /\ UNCHANGED <<object, segments, curr_address>>
  BY <1>1, <1>2 DEF ObjectsTypeOK
<1>3. CASE /\ Patched(Max(Targets(references[k])), references[k]) \in [1 .. references[k].size -> Byte]
           /\ fillReference(k, Patched(Max(Targets(references[k])), references[k]))
  <2> DEFINE s == Max(Targets(references[k]))
             from == references[k].address - segments[s].address
             bytes == Patched(s, references[k])
  <2>1. /\ bytes \in [1 .. references[k].size -> Byte]
        /\ insertData(s, from, bytes) /\ Resolved(k) /\ UNCHANGED <<object, curr_address>>
    BY <1>3 DEF fillReference
  <2>2. references[k].address \in Nat /\ references[k].size \in Nat
    BY Elements
  <2>3. \A t \in DOMAIN segments : segments[t].address \in Nat /\ Len(segments[t].data) \in Nat
    BY Elements
  <2>4. s \in DOMAIN segments => from \in Int /\ from = references[k].address - segments[s].address
    BY <2>2, <2>3
  <2> HIDE DEF s, bytes
  <2>5. /\ segments' \in Seq(Segment) /\ Len(segments') = Len(segments)
        /\ \A t \in DOMAIN segments :
             /\ segments'[t].address = segments[t].address
             /\ segments'[t].object = segments[t].object
             /\ Len(segments'[t].data) = Len(segments[t].data)
             /\ \A i \in 1 .. Len(segments[t].data) :
                  segments'[t].data[i] # segments[t].data[i] =>
                    t = s /\ i \in from + 1 .. from + references[k].size
    BY <2>1, <2>2, <2>4, InsertedData, SMTT(30)
  <2>6. ASSUME NEW t \in DOMAIN segments, NEW i \in 1 .. Len(segments[t].data),
               segments'[t].data[i] # segments[t].data[i]
        PROVE  /\ references[k].address <= segments[t].address + i - 1
               /\ segments[t].address + i - 1 < references[k].address + references[k].size
    <3>1. t = s /\ i \in from + 1 .. from + references[k].size
      BY <2>5, <2>6
    <3> QED
      BY <2>2, <2>3, <3>1
  <2> QED
    BY <1>1, <2>1, <2>5, <2>6
<1> QED
  BY <1>1, <1>2, <1>3

LEMMA ResolveKeeps ==
  ASSUME OInv, Resolve
  PROVE  OInv'
<1> USE DEF OInv
<1>1. PICK k \in DOMAIN references :
        /\ Resolved(k) /\ UNCHANGED <<object, curr_address>>
        /\ segments' \in Seq(Segment) /\ Len(segments') = Len(segments)
        /\ \A t \in DOMAIN segments : /\ segments'[t].address = segments[t].address
                                      /\ segments'[t].object = segments[t].object
                                      /\ Len(segments'[t].data) = Len(segments[t].data)
  BY ResolveStep
<1>2. /\ references' \in Seq(Reference) /\ DOMAIN references' = DOMAIN references
      /\ \A j \in DOMAIN references : /\ references'[j].address = references[j].address
                                      /\ references'[j].size = references[j].size
                                      /\ references'[j].object = references[j].object
  BY <1>1, ResolvedReferences
<1>3. ObjectsTypeOK'
  BY <1>1, <1>2 DEF ObjectsTypeOK
<1>4. DOMAIN segments' = DOMAIN segments /\ Newest' = Newest
  BY <1>1, LenProperties, Elements DEF Newest
<1>5. AddressesAgree'
  <2>1. segments' # <<>> => segments # <<>>
    BY <1>1, EmptySeq DEF ObjectsTypeOK
  <2> QED
    BY <1>1, <1>4, <2>1, Elements DEF AddressesAgree, End
<1>6. Ordered'
  <2>1. segments' # <<>> => segments # <<>> /\ segments'[Newest'].object = segments[Newest].object
    BY <1>1, <1>4, EmptySeq, Elements DEF ObjectsTypeOK
  <2>2. \A t \in DOMAIN segments : segments # <<>>
    BY EmptySeq
  <2>3. \A t \in DOMAIN segments : segments'[Newest'].object = segments[Newest].object
    BY <1>1, <1>4, <2>2, Elements
  <2> QED
    BY <1>1, <1>4, <2>1, <2>3 DEF Ordered
<1>7. ASSUME NEW j \in DOMAIN references'
      PROVE  \E s \in DOMAIN segments' : Inside(references'[j], segments'[s]) /\ Own(segments', references'[j], s)
  <2>1. \A s \in DOMAIN segments : /\ Len(segments'[s].data) \in Nat
                                   /\ Len(segments'[s].data) >= Len(segments[s].data)
    BY <1>1, Elements
  <2>2. DOMAIN segments' = 1 .. Len(segments) /\ Len(segments) \in Nat
    BY <1>4, Elements
  <2> QED
    BY <1>1, <1>2, <1>4, <2>1, <2>2, RoomStays
<1>8. Room'
  BY <1>7 DEF Room, Inside, End, Own
<1> QED
  BY <1>3, <1>5, <1>6, <1>8

-----------------------------------------------------------------------------
(* The invariant is inductive.                                             *)
LEMMA ObjectStep ==
  ASSUME OInv, [ObjectNext]_objectVars
  PROVE  OInv'
<1>1. CASE UNCHANGED objectVars
  BY <1>1 DEF OInv, objectVars, ObjectsTypeOK, AddressesAgree, Ordered, Room, Own, Newest, End, Inside
<1> QED
  BY <1>1, NewObjectKeeps, NewSegmentKeeps, AppendDataKeeps, ResolveKeeps DEF ObjectNext

LEMMA ObjectStarts == ObjectsInit => OInv
  BY EmptySeq DEF ObjectsInit, OInv, ObjectsTypeOK, AddressesAgree, Ordered, Room

LEMMA ObjectInvariant == ObjectSpec => []OInv
<1>1. OInv /\ [ObjectNext]_objectVars => OInv'
  BY ObjectStep
<1> QED
  BY <1>1, ObjectStarts, PTL DEF ObjectSpec

(* Lists of segments with bytes and of references with their places are    *)
(* all there ever is (object.h:5-20), whatever is added and resolved.      *)
THEOREM ObjectTypes == ObjectSpec => []ObjectsTypeOK
  BY ObjectInvariant, PTL DEF OInv

(* Only resolving a reference changes a byte, and only a byte of its own.  *)
THEOREM OnlyPatches == ObjectSpec => PatchesOnlyPending
<1>1. ObjectsTypeOK /\ [ObjectNext]_objectVars => [BytesStay]_objectVars
  <2> SUFFICES ASSUME ObjectsTypeOK, ObjectNext
               PROVE  BytesStay
    OBVIOUS
  <2>1. CASE newObject
    BY <2>1 DEF newObject, BytesStay
  <2>2. CASE BeginSegment
    <3> DEFINE e == [object |-> object, address |-> curr_address', data |-> <<>>]
    <3>1. segments' = Append(segments, e)
      BY <2>2 DEF BeginSegment, newSegment
    <3> HIDE DEF e
    <3>2. \A s \in DOMAIN segments : s \in DOMAIN segments' /\ segments'[s] = segments[s]
      BY <3>1 DEF ObjectsTypeOK
    <3> QED
      BY <3>2 DEF BytesStay
  <2>3. CASE AppendData
    <3>1. segments # <<>> /\ Appended \in Seq(Byte) /\ addData(Appended)
      BY <2>3 DEF AppendData
    <3>2. /\ segments' \in Seq(Segment) /\ Len(segments') = Len(segments)
          /\ \A s \in DOMAIN segments : /\ segments'[s].address = segments[s].address
                                        /\ s # Newest => segments'[s] = segments[s]
          /\ Len(segments'[Newest].data) = Len(segments[Newest].data) + Len(Appended)
          /\ \A i \in 1 .. Len(segments[Newest].data) :
               segments'[Newest].data[i] = segments[Newest].data[i]
      BY <3>1, AddedData
    <3>3. DOMAIN segments' = DOMAIN segments /\ Newest \in DOMAIN segments /\ Len(Appended) \in Nat
      BY <3>1, <3>2, Elements, LenProperties
    <3>4. segments'[Newest].data \in Seq(Byte)
      <4>1. segments'[Newest] \in Segment
        BY <3>2, <3>3, Elements, ElementOfSeq
      <4> QED
        BY <4>1 DEF Segment
    <3>5. ASSUME NEW s \in DOMAIN segments
          PROVE  /\ DOMAIN segments[s].data \subseteq DOMAIN segments'[s].data
                 /\ \A i \in DOMAIN segments[s].data : segments'[s].data[i] = segments[s].data[i]
      <4>1. CASE s # Newest
        BY <3>2, <4>1
      <4>2. CASE s = Newest
        <5>1. DOMAIN segments'[s].data = 1 .. Len(segments'[s].data)
          BY <3>4, <4>2, LenProperties
        <5>2. segments[s].data \in Seq(Byte) /\ Len(segments[s].data) \in Nat
          BY Elements
        <5>3. DOMAIN segments[s].data = 1 .. Len(segments[s].data)
          BY <5>2, LenProperties
        <5>4. Len(segments'[s].data) = Len(segments[s].data) + Len(Appended)
          BY <3>2, <4>2
        <5>5. DOMAIN segments[s].data \subseteq DOMAIN segments'[s].data
          BY <5>1, <5>2, <5>3, <5>4, <3>3
        <5> QED
          BY <3>2, <4>2, <5>3, <5>5
      <4> QED
        BY <4>1, <4>2
    <3> QED
      BY <3>2, <3>3, <3>5 DEF BytesStay
  <2>4. CASE Resolve
    <3>1. PICK k \in DOMAIN references :
            /\ references[k].type # "RESOLVED" /\ Resolved(k)
            /\ segments' \in Seq(Segment) /\ Len(segments') = Len(segments)
            /\ \A t \in DOMAIN segments :
                 /\ segments'[t].address = segments[t].address
                 /\ Len(segments'[t].data) = Len(segments[t].data)
                 /\ \A i \in 1 .. Len(segments[t].data) :
                      segments'[t].data[i] # segments[t].data[i] =>
                        LET at == segments[t].address + i - 1
                        IN  /\ references[k].address <= at
                            /\ at < references[k].address + references[k].size
      BY <2>4, ResolveStep
    <3>2. references'[k].type = "RESOLVED"
      BY <3>1, ResolvedReferences
    <3>3. DOMAIN segments' = DOMAIN segments
      BY <3>1, LenProperties, Elements
    <3>4. \A t \in DOMAIN segments : DOMAIN segments'[t].data = DOMAIN segments[t].data
      <4> SUFFICES ASSUME NEW t \in DOMAIN segments
                   PROVE  DOMAIN segments'[t].data = DOMAIN segments[t].data
        OBVIOUS
      <4>1. segments'[t] \in Segment
        BY <3>1, <3>3, Elements, ElementOfSeq
      <4>2. segments'[t].data \in Seq(Byte)
        BY <4>1 DEF Segment
      <4> QED
        BY <3>1, <4>2, Elements, LenProperties
    <3>5. ASSUME NEW t \in DOMAIN segments, NEW i \in DOMAIN segments[t].data,
                 segments'[t].data[i] # segments[t].data[i]
          PROVE  PatchedAt(t, i)
      BY <3>1, <3>2, <3>5, Elements DEF PatchedAt
    <3> QED
      BY <3>1, <3>3, <3>4, <3>5 DEF BytesStay
  <2> QED
    BY <2>1, <2>2, <2>3, <2>4 DEF ObjectNext
<1> QED
  BY <1>1, ObjectInvariant, PTL DEF ObjectSpec, OInv, PatchesOnlyPending

-----------------------------------------------------------------------------
(* The table of patterns by its parts.                                     *)
LEMMA TablesAreSequences ==
  /\ Operands \in Seq(ToSet(Operands)) /\ Len(Operands) = 9 /\ DOMAIN Operands = 1 .. 9
  /\ Registers \in Seq(ToSet(Registers)) /\ Len(Registers) = 16 /\ DOMAIN Registers = 1 .. 16
  /\ Lines \in Seq(ToSet(Lines)) /\ Len(Lines) = 18 /\ DOMAIN Lines = 1 .. 18
<1>1. Operands \in Seq(ToSet(Operands)) /\ Len(Operands) = 9 /\ DOMAIN Operands = 1 .. 9
  <2>1. DOMAIN Operands = 1 .. 9 /\ Len(Operands) = 9 /\ Operands = [i \in 1 .. 9 |-> Operands[i]]
    BY DEF Operands
  <2>2. Operands \in [1 .. 9 -> ToSet(Operands)]
    BY <2>1 DEF ToSet
  <2> QED
    BY <2>1, <2>2, FunctionIsSeq
<1>2. Registers \in Seq(ToSet(Registers)) /\ Len(Registers) = 16 /\ DOMAIN Registers = 1 .. 16
  <2>1. DOMAIN Registers = 1 .. 16 /\ Len(Registers) = 16 /\ Registers = [i \in 1 .. 16 |-> Registers[i]]
    BY DEF Registers
  <2>2. Registers \in [1 .. 16 -> ToSet(Registers)]
    BY <2>1 DEF ToSet
  <2> QED
    BY <2>1, <2>2, FunctionIsSeq
<1>3. Lines \in Seq(ToSet(Lines)) /\ Len(Lines) = 18 /\ DOMAIN Lines = 1 .. 18
  <2>1. DOMAIN Lines = 1 .. 18 /\ Len(Lines) = 18 /\ Lines = [i \in 1 .. 18 |-> Lines[i]]
    BY DEF Lines
  <2>2. Lines \in [1 .. 18 -> ToSet(Lines)]
    BY <2>1 DEF ToSet
  <2> QED
    BY <2>1, <2>2, FunctionIsSeq
<1> QED
  BY <1>1, <1>2, <1>3

JoinedAt(ab, a, b) ==
  /\ Len(ab) = Len(a) + Len(b)
  /\ \A j \in 1 .. Len(a) : ab[j] = a[j]
  /\ \A j \in 1 .. Len(b) : ab[j + Len(a)] = b[j]

(* Where the elements of a joined list come from.                          *)
LEMMA JoinedPlaces ==
  ASSUME NEW S, NEW T, NEW a, a \in Seq(S), NEW b, b \in Seq(T)
  PROVE  JoinedAt(a \o b, a, b)
<1>1. a \in Seq(S \cup T) /\ b \in Seq(S \cup T)
  OBVIOUS
<1> QED
  BY <1>1 DEF JoinedAt

FromEither(ab, a, b) ==
  \A i \in DOMAIN ab : (\E j \in DOMAIN a : ab[i] = a[j]) \/ (\E j \in DOMAIN b : ab[i] = b[j])

LEMMA JoinedType ==
  ASSUME NEW S, NEW T, NEW a, a \in Seq(S), NEW b, b \in Seq(T), NEW ab, ab = a \o b
  PROVE  ab \in Seq(S \cup T)
<1>1. a \in Seq(S \cup T) /\ b \in Seq(S \cup T)
  OBVIOUS
<1> QED
  BY <1>1

LEMMA InEither ==
  ASSUME NEW S, NEW T, NEW a, a \in Seq(S), NEW b, b \in Seq(T), NEW ab, ab = a \o b
  PROVE  FromEither(ab, a, b)
<1>1. /\ DOMAIN a = 1 .. Len(a) /\ Len(a) \in Nat
      /\ DOMAIN b = 1 .. Len(b) /\ Len(b) \in Nat
  BY LenProperties
<1>2. JoinedAt(ab, a, b)
  BY JoinedPlaces
<1>3. ab \in Seq(S \cup T)
  BY JoinedType
<1>4. ASSUME NEW i \in DOMAIN ab
      PROVE  (\E j \in DOMAIN a : ab[i] = a[j]) \/ (\E j \in DOMAIN b : ab[i] = b[j])
  <2>1. i \in 1 .. Len(a) + Len(b)
    BY <1>2, <1>3, LenProperties DEF JoinedAt
  <2>2. CASE i <= Len(a)
    BY <1>1, <1>2, <2>1, <2>2 DEF JoinedAt
  <2>3. CASE i > Len(a)
    <3>1. i - Len(a) \in 1 .. Len(b) /\ i = (i - Len(a)) + Len(a)
      BY <1>1, <2>1, <2>3
    <3> QED
      BY <1>1, <1>2, <3>1 DEF JoinedAt
  <2> QED
    BY <1>1, <2>1, <2>2, <2>3
<1> QED
  BY <1>4 DEF FromEither

Row(table, i, off, before, behind) ==
  [type |-> table[i][1], off |-> off, token |-> before \o table[i][2] \o behind]

RowsAre(rows, table, off, before, behind) ==
  \A i \in DOMAIN rows : i \in DOMAIN table /\ rows[i] = Row(table, i, off, before, behind)

(* A block of the table has a row for each form, between the line's first  *)
(* token and its end.                                                      *)
LEMMA RowsOf ==
  ASSUME NEW T, NEW table, table \in Seq(T), NEW off, NEW before, NEW behind, NEW rows,
         rows = Rows(table, off, before, behind)
  PROVE  rows \in Seq(ToSet(rows)) /\ RowsAre(rows, table, off, before, behind)
<1>1. rows = [i \in DOMAIN table |-> Row(table, i, off, before, behind)]
  BY DEF Rows, Row
<1>2. DOMAIN table = 1 .. Len(table) /\ Len(table) \in Nat
  OBVIOUS
<1>3. rows \in [1 .. Len(table) -> ToSet(rows)]
  BY <1>1, <1>2 DEF ToSet
<1>4. rows \in Seq(ToSet(rows))
  BY <1>2, <1>3, FunctionIsSeq
<1> QED
  BY <1>1, <1>4 DEF RowsAre

Behind(off) == IF off THEN <<"PLUS", "HASH", "NUMBER", "NEWLINE">> ELSE <<"NEWLINE">>

(* Every row of the table is an operand or a register form of an           *)
(* instruction line, or a line of its own.                                 *)
LEMMA TableRows ==
  ASSUME NEW k \in DOMAIN PAT_TOK_TBL
  PROVE  \/ \E i \in DOMAIN Operands, off \in BOOLEAN :
              PAT_TOK_TBL[k] = Row(Operands, i, off, <<"INS">>, Behind(off))
         \/ \E i \in DOMAIN Registers : PAT_TOK_TBL[k] = Row(Registers, i, FALSE, <<"INS">>, <<"NEWLINE">>)
         \/ \E i \in DOMAIN Lines : PAT_TOK_TBL[k] = Row(Lines, i, FALSE, <<>>, <<>>)
<1> DEFINE ins == <<"INS">>
           nl == <<"NEWLINE">>
           none == <<>>
           a == Rows(Operands, FALSE, ins, Behind(FALSE))
           b == Rows(Operands, TRUE, ins, Behind(TRUE))
           c == Rows(Registers, FALSE, ins, nl)
           d == Rows(Lines, FALSE, none, none)
           ab == a \o b
           abc == ab \o c
           all == abc \o d
<1>1. PAT_TOK_TBL = all
  BY DEF PAT_TOK_TBL, Behind
<1> HIDE DEF ins, nl, none
<1>a. a = Rows(Operands, FALSE, ins, Behind(FALSE))
  OBVIOUS
<1>b. b = Rows(Operands, TRUE, ins, Behind(TRUE))
  OBVIOUS
<1>c. c = Rows(Registers, FALSE, ins, nl)
  OBVIOUS
<1>d. d = Rows(Lines, FALSE, none, none)
  OBVIOUS
<1>e. ab = a \o b /\ abc = ab \o c /\ all = abc \o d
  OBVIOUS
<1> HIDE DEF a, b, c, d, ab, abc, all
<1>2. a \in Seq(ToSet(a)) /\ RowsAre(a, Operands, FALSE, ins, Behind(FALSE))
  BY <1>a, TablesAreSequences, RowsOf, Zenon
<1>3. b \in Seq(ToSet(b)) /\ RowsAre(b, Operands, TRUE, ins, Behind(TRUE))
  BY <1>b, TablesAreSequences, RowsOf, Zenon
<1>4. c \in Seq(ToSet(c)) /\ RowsAre(c, Registers, FALSE, ins, nl)
  BY <1>c, TablesAreSequences, RowsOf, Zenon
<1>5. d \in Seq(ToSet(d)) /\ RowsAre(d, Lines, FALSE, none, none)
  BY <1>d, TablesAreSequences, RowsOf, Zenon
<1>6. ab \in Seq(ToSet(a) \cup ToSet(b))
  BY <1>2, <1>3, <1>e, JoinedType, Zenon
<1>7. FromEither(ab, a, b)
  BY <1>2, <1>3, <1>e, InEither, Zenon
<1>8. abc \in Seq((ToSet(a) \cup ToSet(b)) \cup ToSet(c))
  BY <1>4, <1>6, <1>e, JoinedType, Zenon
<1>9. FromEither(abc, ab, c)
  BY <1>4, <1>6, <1>e, InEither, Zenon
<1>10. FromEither(all, abc, d)
  BY <1>5, <1>8, <1>e, InEither, Zenon
<1>11. \/ \E i \in DOMAIN a : PAT_TOK_TBL[k] = a[i]
       \/ \E i \in DOMAIN b : PAT_TOK_TBL[k] = b[i]
       \/ \E i \in DOMAIN c : PAT_TOK_TBL[k] = c[i]
       \/ \E i \in DOMAIN d : PAT_TOK_TBL[k] = d[i]
  BY <1>1, <1>7, <1>9, <1>10 DEF FromEither
<1> USE DEF ins, nl, none
<1> QED
  BY <1>2, <1>3, <1>4, <1>5, <1>11 DEF RowsAre

-----------------------------------------------------------------------------
(* The rows by their types, and how many tokens an operand takes.          *)
LEMMA FormsDistinct ==
  /\ \A i, j \in DOMAIN Operands : Operands[i][1] = Operands[j][1] => i = j
  /\ \A i, j \in DOMAIN Registers : Registers[i][1] = Registers[j][1] => i = j
  /\ \A i \in DOMAIN Operands, j \in DOMAIN Registers : Operands[i][1] # Registers[j][1]
<1>1. \A i, j \in DOMAIN Operands : Operands[i][1] = Operands[j][1] => i = j
  <2> SUFFICES ASSUME NEW i \in 1 .. 9, NEW j \in 1 .. 9, Operands[i][1] = Operands[j][1]
               PROVE  i = j
    BY TablesAreSequences
  <2>1. CASE 1 <= i /\ i <= 3
    BY <2>1 DEF Operands
  <2>2. CASE 4 <= i /\ i <= 6
    BY <2>2 DEF Operands
  <2>3. CASE 7 <= i /\ i <= 9
    BY <2>3 DEF Operands
  <2> QED
    BY <2>1, <2>2, <2>3
<1>2. \A i, j \in DOMAIN Registers : Registers[i][1] = Registers[j][1] => i = j
  <2> SUFFICES ASSUME NEW i \in 1 .. 16, NEW j \in 1 .. 16, Registers[i][1] = Registers[j][1]
               PROVE  i = j
    BY TablesAreSequences
  <2>1. CASE 1 <= i /\ i <= 4
    BY <2>1, SMTT(30) DEF Registers
  <2>2. CASE 5 <= i /\ i <= 8
    BY <2>2, SMTT(30) DEF Registers
  <2>3. CASE 9 <= i /\ i <= 12
    BY <2>3, SMTT(30) DEF Registers
  <2>4. CASE 13 <= i /\ i <= 14
    BY <2>4, SMTT(30) DEF Registers
  <2>5. CASE 15 <= i /\ i <= 16
    BY <2>5, SMTT(30) DEF Registers
  <2> QED
    BY <2>1, <2>2, <2>3, <2>4, <2>5
<1>3. \A i \in DOMAIN Operands, j \in DOMAIN Registers : Operands[i][1] # Registers[j][1]
  <2> DEFINE Types == {"IMMNAME", "NAME", "P_NAME", "IMM", "ABS", "B_IMM", "P_IMM", "P_ABS", "P_B_IMM"}
  <2>1. \A i \in DOMAIN Operands : Operands[i][1] \in Types
    BY DEF Operands
  <2>2. ASSUME NEW j \in 1 .. 16
        PROVE  Registers[j][1] \notin Types
    <3>1. CASE j <= 8
      BY <3>1, SMTT(30) DEF Registers
    <3>2. CASE j > 8
      BY <3>2, SMTT(30) DEF Registers
    <3> QED
      BY <3>1, <3>2
  <2> HIDE DEF Types
  <2> QED
    BY <2>1, <2>2, TablesAreSequences
<1> QED
  BY <1>1, <1>2, <1>3

LineTypes == {"DEFINE", "EXPORT_SCOPE", "SCOPE", "ENDSCOPE", "EXPORT_LABEL", "LABEL", "ORIGIN", "BYTE",
              "WORD", "LONG", "QUAD", "STRZ", "NUMBER", "B_PLUS_IMM", "B_MINUS_IMM", "P_PLUS_IMM"}

(* No line has the type of an operand's form.                              *)
LEMMA LinesDistinct ==
  /\ \A i \in DOMAIN Lines : Lines[i][1] \in LineTypes
  /\ \A i \in DOMAIN Operands : Operands[i][1] \notin LineTypes
  /\ \A i \in DOMAIN Registers : Registers[i][1] \notin LineTypes
<1>1. \A i \in DOMAIN Lines : Lines[i][1] \in LineTypes
  <2>1. DOMAIN Lines = 1 .. 18
    BY TablesAreSequences
  <2> SUFFICES ASSUME NEW i \in 1 .. 18
               PROVE  Lines[i][1] \in LineTypes
    BY <2>1
  <2>2. CASE i <= 9
    BY <2>2, SMTT(30) DEF Lines, LineTypes
  <2>3. CASE i > 9
    BY <2>3, SMTT(30) DEF Lines, LineTypes
  <2> QED
    BY <2>2, <2>3
<1>2. \A i \in DOMAIN Operands : Operands[i][1] \notin LineTypes
  BY DEF Operands, LineTypes
<1>3. \A i \in DOMAIN Registers : Registers[i][1] \notin LineTypes
  <2> SUFFICES ASSUME NEW i \in 1 .. 16
               PROVE  Registers[i][1] \notin LineTypes
    BY TablesAreSequences
  <2>1. CASE i <= 8
    BY <2>1, SMTT(30) DEF Registers, LineTypes
  <2>2. CASE i > 8
    BY <2>2, SMTT(30) DEF Registers, LineTypes
  <2> QED
    BY <2>1, <2>2
<1> QED
  BY <1>1, <1>2, <1>3

(* What SelectInSeq picks.                                                 *)
LEMMA FirstOf ==
  ASSUME NEW n \in Nat, NEW I, I \in SUBSET (1 .. n), NEW k, k = IF I # {} THEN Min(I) ELSE 0
  PROVE  k \in 0 .. n /\ (k # 0 => k \in I) /\ (k = 0 => I = {})
<1>1. I \in SUBSET Nat
  OBVIOUS
<1>2. I # {} => Min(I) \in I
  BY <1>1, MinOfNats
<1>3. CASE I = {}
  BY <1>3
<1>4. CASE I # {}
  <2>1. k = Min(I)
    BY <1>4
  <2>2. k \in I
    BY <1>2, <1>4, <2>1
  <2>3. k \in 1 .. n
    BY <2>2
  <2> QED
    BY <1>4, <2>2, <2>3
<1> QED
  BY <1>3, <1>4

(* The sets of the places of a type, and the one place that they hold.     *)
LEMMA OnlyOne ==
  ASSUME NEW i \in Nat
  PROVE  Min({i}) = i
BY DEF Min

LEMMA SplitPlaces == \A j \in 1 .. 25 : j \in 1 .. 9 \/ \E i \in 1 .. 16 : j = i + 9
<1>1. \A j \in 1 .. 25 : j \notin 1 .. 9 => j - 9 \in 1 .. 16 /\ j = (j - 9) + 9
  OBVIOUS
<1> QED
  BY <1>1

(* The width that the matcher rewrites is the number of tokens of the      *)
(* form, because the types are distinct.                                   *)
LEMMA Widths ==
  ASSUME NEW p
  PROVE  /\ \A i \in DOMAIN Operands : p.type = Operands[i][1] => Width(p) = Len(Operands[i][2])
         /\ \A i \in DOMAIN Registers : p.type = Registers[i][1] => Width(p) = Len(Registers[i][2])
<1> DEFINE rows == Operands \o Registers
           I == {j \in 1 .. Len(rows) : rows[j][1] = p.type}
<1>1. DOMAIN Operands = 1 .. 9 /\ DOMAIN Registers = 1 .. 16
  BY TablesAreSequences
<1>0. /\ Len(rows) = 25
      /\ \A j \in 1 .. 9 : rows[j] = Operands[j]
      /\ \A j \in 1 .. 16 : rows[j + 9] = Registers[j]
  <2>1. JoinedAt(rows, Operands, Registers)
    BY TablesAreSequences, JoinedPlaces, Zenon
  <2> HIDE DEF rows
  <2> QED
    BY <2>1, TablesAreSequences DEF JoinedAt
<1>2. Width(p) = Len(rows[IF I # {} THEN Min(I) ELSE 0][2])
  BY Zenon DEF Width, SelectInSeq
<1> HIDE DEF rows
<1>3. ASSUME NEW i \in DOMAIN Operands, p.type = Operands[i][1]
      PROVE  Width(p) = Len(Operands[i][2])
  <2>1. I = {i}
    <3>1. i \in 1 .. 25 /\ rows[i] = Operands[i]
      BY <1>0, <1>1
    <3>2. ASSUME NEW j \in 1 .. 25, rows[j][1] = p.type
          PROVE  j = i
      <4>1. CASE j \in 1 .. 9
        <5>1. j \in DOMAIN Operands /\ Operands[j][1] = p.type
          BY <1>0, <1>1, <3>2, <4>1
        <5> QED
          BY <1>3, <5>1, FormsDistinct
      <4>2. CASE \E m \in 1 .. 16 : j = m + 9
        <5>1. PICK m \in 1 .. 16 : j = m + 9
          BY <4>2
        <5>2. m \in DOMAIN Registers /\ Registers[m][1] = p.type
          BY <1>0, <1>1, <3>2, <5>1
        <5> QED
          BY <1>3, <5>1, <5>2, FormsDistinct
      <4> QED
        BY <4>1, <4>2, SplitPlaces
    <3> QED
      BY <1>0, <1>3, <3>1, <3>2
  <2> HIDE DEF I
  <2>2. Width(p) = Len(rows[Min({i})][2])
    BY <1>2, <2>1
  <2>3. Min({i}) = i
    BY <1>1, OnlyOne
  <2>4. rows[i] = Operands[i]
    BY <1>0, <1>1
  <2> QED
    BY <2>2, <2>3, <2>4 
<1>4. ASSUME NEW i \in DOMAIN Registers, p.type = Registers[i][1]
      PROVE  Width(p) = Len(Registers[i][2])
  <2>1. I = {i + 9}
    <3>1. i + 9 \in 1 .. 25 /\ rows[i + 9] = Registers[i]
      BY <1>0, <1>1
    <3>2. ASSUME NEW j \in 1 .. 25, rows[j][1] = p.type
          PROVE  j = i + 9
      <4>1. CASE j \in 1 .. 9
        <5>1. j \in DOMAIN Operands /\ Operands[j][1] = p.type
          BY <1>0, <1>1, <3>2, <4>1
        <5> QED
          BY <1>4, <5>1, FormsDistinct
      <4>2. CASE \E m \in 1 .. 16 : j = m + 9
        <5>1. PICK m \in 1 .. 16 : j = m + 9
          BY <4>2
        <5>2. m \in DOMAIN Registers /\ Registers[m][1] = p.type
          BY <1>0, <1>1, <3>2, <5>1
        <5> QED
          BY <1>4, <5>1, <5>2, FormsDistinct
      <4> QED
        BY <4>1, <4>2, SplitPlaces
    <3> QED
      BY <1>0, <1>4, <3>1, <3>2
  <2> HIDE DEF I
  <2>2. Width(p) = Len(rows[Min({i + 9})][2])
    BY <1>2, <2>1
  <2>3. Min({i + 9}) = i + 9
    BY <1>1, OnlyOne
  <2>4. rows[i + 9] = Registers[i]
    BY <1>0, <1>1
  <2> QED
    BY <2>2, <2>3, <2>4 
<1> QED
  BY <1>3, <1>4

-----------------------------------------------------------------------------
(* Where the rows have their names and numbers.                            *)
Has(t, i, type) == i \in DOMAIN t /\ t[i] = type

LineShape(type, t) ==
  /\ type \in {"EXPORT_SCOPE", "EXPORT_LABEL"} => Has(t, 2, "NAME")
  /\ type \in {"SCOPE", "LABEL", "DEFINE"} => Has(t, 1, "NAME")
  /\ type = "ORIGIN" => Has(t, 2, "HEX")
  /\ type = "NUMBER" => Has(t, 1, "NUMBER")
  /\ type \in {"B_PLUS_IMM", "B_MINUS_IMM", "P_PLUS_IMM"} => Has(t, 4, "NUMBER")
  /\ type \in {"BYTE", "WORD", "LONG", "QUAD"} => Has(t, 1, type)

Kinds == {"HASH", "NAME", "P", "PLUS", "NUMBER", "B", "ARITH", "I", "A", "F", "K", "S"}
NameForms == {"IMMNAME", "NAME", "P_NAME"}
NumberForms == {"IMM", "ABS", "B_IMM", "P_IMM", "P_ABS", "P_B_IMM", "I_IMM"}

FormShape(type, t) ==
  /\ t \in Seq(Kinds)
  /\ type \in NameForms => Has(t, Len(t), "NAME")
  /\ type \in NumberForms => Has(t, Len(t), "NUMBER")

(* The rows one by one: where each has its name, its number or its string. *)
LEMMA LineShapes == \A i \in DOMAIN Lines : LineShape(Lines[i][1], Lines[i][2])
<1>1. DOMAIN Lines = 1 .. 18
  BY TablesAreSequences
<1> SUFFICES ASSUME NEW i \in 1 .. 18
             PROVE  LineShape(Lines[i][1], Lines[i][2])
  BY <1>1
<1>2. CASE i <= 6
  BY <1>2 DEF Lines, LineShape, Has
<1>3. CASE i > 6 /\ i <= 12
  BY <1>3 DEF Lines, LineShape, Has
<1>4. CASE i > 12
  BY <1>4 DEF Lines, LineShape, Has
<1> QED
  BY <1>2, <1>3, <1>4

OperandShape(i)  == FormShape(Operands[i][1], Operands[i][2]) /\ Operands[i][1] \in NameForms \cup NumberForms
RegisterShape(i) == FormShape(Registers[i][1], Registers[i][2]) /\ Registers[i][1] \notin NameForms

LEMMA OperandShapes == \A i \in DOMAIN Operands : OperandShape(i)
<1>1. DOMAIN Operands = 1 .. 9
  BY TablesAreSequences
<1>2. /\ OperandShape(1)  /\ OperandShape(2)  /\ OperandShape(3)  /\ OperandShape(4)  /\ OperandShape(5)
  BY DEF Operands, OperandShape, FormShape, Has, Kinds, NameForms, NumberForms
<1>3. /\ OperandShape(6)  /\ OperandShape(7)  /\ OperandShape(8)  /\ OperandShape(9)
  BY DEF Operands, OperandShape, FormShape, Has, Kinds, NameForms, NumberForms
<1> QED
  BY <1>1, <1>2, <1>3

LEMMA RegisterShapes == \A i \in DOMAIN Registers : RegisterShape(i)
<1>1. DOMAIN Registers = 1 .. 16
  BY TablesAreSequences
<1>2. /\ RegisterShape(1)  /\ RegisterShape(2)  /\ RegisterShape(3)  /\ RegisterShape(4)  /\ RegisterShape(5)
  BY DEF Registers, RegisterShape, FormShape, Has, Kinds, NameForms, NumberForms
<1>3. /\ RegisterShape(6)  /\ RegisterShape(7)  /\ RegisterShape(8)  /\ RegisterShape(9)  /\ RegisterShape(10)
  BY DEF Registers, RegisterShape, FormShape, Has, Kinds, NameForms, NumberForms
<1>4. /\ RegisterShape(11)  /\ RegisterShape(12)  /\ RegisterShape(13)  /\ RegisterShape(14)  /\ RegisterShape(15)  /\ RegisterShape(16)
  BY DEF Registers, RegisterShape, FormShape, Has, Kinds, NameForms, NumberForms
<1> QED
  BY <1>1, <1>2, <1>3, <1>4

(* An operand within its row: behind the instruction, before an offset.    *)
LEMMA OperandWithin ==
  ASSUME NEW t, t \in Seq(Kinds), NEW off \in BOOLEAN, NEW row, row = <<"INS">> \o t \o Behind(off)
  PROVE  /\ Has(row, 1, "INS")
         /\ \A type : Has(t, Len(t), type) => Has(row, Len(t) + 1, type)
         /\ off => Has(row, Len(t) + 4, "NUMBER")
<1> DEFINE S == Kinds \cup {"INS", "NEWLINE"}
           head == <<"INS">>
           tail == Behind(off)
           ht == head \o t
<1>1. head \in Seq(S) /\ Len(head) = 1 /\ head[1] = "INS"
  OBVIOUS
<1>2. tail \in Seq(S) /\ (off => Len(tail) = 4 /\ tail[3] = "NUMBER")
  <2>1. CASE off
    BY <2>1 DEF Behind, Kinds
  <2>2. CASE ~off
    BY <2>2 DEF Behind, Kinds
  <2> QED
    BY <2>1, <2>2
<1>4. row = ht \o tail
  OBVIOUS
<1> HIDE DEF S, head, tail
<1>3. JoinedAt(ht, head, t) /\ ht \in Seq(S \cup Kinds)
  BY <1>1, JoinedPlaces, JoinedType, Zenon
<1> HIDE DEF ht
<1>5. JoinedAt(row, ht, tail) /\ row \in Seq((S \cup Kinds) \cup S)
  <2>1. JoinedAt(ht \o tail, ht, tail) /\ ht \o tail \in Seq((S \cup Kinds) \cup S)
    BY <1>2, <1>3, JoinedPlaces, JoinedType, Zenon
  <2> QED
    BY <1>4, <2>1
<1>6. Len(t) \in Nat /\ DOMAIN t = 1 .. Len(t) /\ Len(tail) \in Nat
  BY <1>2
<1>7. DOMAIN row = 1 .. Len(row) /\ Len(ht) = Len(t) + 1 /\ Len(row) = Len(t) + 1 + Len(tail)
  BY <1>1, <1>3, <1>5, <1>6 DEF JoinedAt
<1>8. Has(row, 1, "INS")
  BY <1>1, <1>3, <1>5, <1>6, <1>7 DEF Has, JoinedAt
<1>9. ASSUME NEW type, Has(t, Len(t), type)
      PROVE  Has(row, Len(t) + 1, type)
  BY <1>1, <1>3, <1>5, <1>6, <1>7, <1>9 DEF Has, JoinedAt
<1>10. ASSUME off
       PROVE  Has(row, Len(t) + 4, "NUMBER")
  <2>2. Len(tail) = 4 /\ tail[3] = "NUMBER"
    BY <1>2, <1>10
  <2>1. row[3 + Len(ht)] = tail[3]
    <3>1. \A j \in 1 .. Len(tail) : row[j + Len(ht)] = tail[j]
      BY <1>5 DEF JoinedAt
    <3>2. 3 \in 1 .. Len(tail)
      BY <2>2
    <3> QED
      BY <3>1, <3>2, Zenon
  <2>3. row[Len(t) + 4] = "NUMBER"
    <3>1. 3 + Len(ht) = Len(t) + 4
      BY <1>6, <1>7
    <3> QED
      BY <2>1, <2>2, <3>1
  <2>4. Len(t) + 4 \in 1 .. Len(row)
    BY <1>6, <1>7, <2>2
  <2> QED
    BY <1>7, <2>3, <2>4 DEF Has
<1> QED
  BY <1>8, <1>9, <1>10

-----------------------------------------------------------------------------
(* The front end's part of the invariant. A pattern has its tokens: those  *)
(* of a row of the table, where it says it begins.                         *)
Stands(t, type) == type \in {t.type, Group(t.type)}

Pattern == {[type |-> row.type, off |-> row.off, at |-> n] : row \in ToSet(PAT_TOK_TBL), n \in Nat \ {0}}

Fits(p) ==
  \E k \in DOMAIN PAT_TOK_TBL :
    /\ PAT_TOK_TBL[k].type = p.type /\ PAT_TOK_TBL[k].off = p.off
    /\ \A j \in DOMAIN PAT_TOK_TBL[k].token :
         /\ p.at + j - 1 <= Len(token)
         /\ Stands(token[p.at + j - 1], PAT_TOK_TBL[k].token[j])

TextInv ==
  /\ token \in Seq(Token) /\ token_pos \in Nat \ {0}
  /\ token # <<>> => token[Len(token)].type = "NEWLINE"
  /\ pattern \in Seq(Pattern) /\ pattern_pos \in Nat \ {0}
  /\ \A i \in DOMAIN pattern : Fits(pattern[i])

(* The newline that ends a line of data is never passed.                   *)
ItemInv ==
  /\ item \in Nat
  /\ item # 0 => /\ pc \in {"parse", "undefined"} /\ pattern_pos <= Len(pattern)
                 /\ pattern[pattern_pos].type \in DOMAIN Sizes
                 /\ pattern[pattern_pos].at + 1 + item <= Len(token)

SymbolInv == symbol \in Seq(Symbol) /\ scope \in Nat /\ exports \in Seq(Export)

MainInv ==
  /\ program \in Programs /\ err \in BOOLEAN
  /\ pc \in Stopped \cup {"file", "match", "parse", "resolve", "link", "counting", "linkrefs", "write"}

(* A relative reference is filled with the one byte it has room for.       *)
Sized == \A k \in DOMAIN references : /\ references[k].size \in 0 .. 4
                                      /\ references[k].type = "RELATIVE" => references[k].size = 1

(* The linker goes on only if nothing overlaps and nothing is left.        *)
Separate == \A s, t \in DOMAIN segments :
              s < t /\ segments[s].object = segments[t].object => ~intersecting(segments[s], segments[t])
LinkInv ==
  /\ pc = "linkrefs" /\ ~err => Separate
  /\ pc \in {"write", "done"} => Separate /\ \A r \in ToSet(references) : r.type = "RESOLVED"
  /\ pc = "done" => /\ output = Image
                    /\ \A s \in ToSet(segments) : s.data # <<>> => End(s) <= OUTPUT_SIZE
  /\ pc # "done" => output = <<>>

FrontInv == TextInv /\ ItemInv /\ SymbolInv /\ MainInv /\ Sized /\ LinkInv

-----------------------------------------------------------------------------
(* What a token that stands for a name or a number carries.                *)
LEMMA WordsDistinct ==
  /\ "NAME" \notin Words /\ "STRING" \notin Words /\ "NUMBER" \notin Words
  /\ "DECIMAL" \notin Words /\ "HEX" \notin Words /\ "BINARY" \notin Words
BY DEF Words, Ins

(* A token of a kind carries what the lexer puts in it.                    *)
LEMMA NameToken ==
  ASSUME NEW t \in Token, t.type = "NAME"
  PROVE  t.str \in Names
<1>1. t \notin [type : Words]
  BY WordsDistinct
<1>2. t \notin [type : Numbers, num : Nat]
  BY DEF Numbers
<1>3. t \notin [type : {"STRING"}, str : STRING]
  OBVIOUS
<1> QED
  BY <1>1, <1>2, <1>3 DEF Token

LEMMA NumberToken ==
  ASSUME NEW t \in Token, t.type \in Numbers
  PROVE  t.num \in Nat
<1>1. t \notin [type : Words]
  BY WordsDistinct DEF Numbers
<1>2. t \notin [type : {"NAME"}, str : Names]
  BY DEF Numbers
<1>3. t \notin [type : {"STRING"}, str : STRING]
  BY DEF Numbers
<1> QED
  BY <1>1, <1>2, <1>3 DEF Token

LEMMA TokenTypes ==
  ASSUME NEW t \in Token
  PROVE  t.type \in Words \cup Numbers \cup {"NAME", "STRING"}
<1>1. CASE t \in [type : Words]
  BY <1>1
<1>2. CASE t \in [type : Numbers, num : Nat]
  BY <1>2
<1>3. CASE t \in [type : {"NAME"}, str : Names]
  BY <1>3
<1>4. CASE t \in [type : {"STRING"}, str : STRING]
  BY <1>4
<1> QED
  BY <1>1, <1>2, <1>3, <1>4 DEF Token

(* A group stands only for the tokens that are its members.                *)
LEMMA GroupIs ==
  ASSUME NEW type
  PROVE  /\ Group(type) \in {"INS", "NUMBER", "ARITH", type}
         /\ Group(type) = "NUMBER" => type \in Numbers \cup {"NUMBER"}
<1>1. CASE type \in Ins
  BY <1>1 DEF Group
<1>2. CASE type \notin Ins
  BY <1>2 DEF Group
<1> QED
  BY <1>1, <1>2

LEMMA StandsFor ==
  ASSUME NEW t \in Token
  PROVE  /\ Stands(t, "NAME") => t.str \in Names
         /\ Stands(t, "NUMBER") => t.num \in Nat
         /\ Stands(t, "HEX") => t.num \in Nat
         /\ \A type \in {"BYTE", "WORD", "LONG", "QUAD"} : Stands(t, type) => t.type # "NEWLINE"
<1>1. ASSUME Stands(t, "NAME") PROVE t.str \in Names
  BY <1>1, GroupIs, NameToken DEF Stands
<1>2. ASSUME Stands(t, "NUMBER") PROVE t.num \in Nat
  <2>1. t.type \in Numbers \cup {"NUMBER"}
    BY <1>2, GroupIs DEF Stands
  <2>2. t.type # "NUMBER"
    BY TokenTypes, WordsDistinct DEF Numbers
  <2> QED
    BY <2>1, <2>2, NumberToken
<1>3. ASSUME Stands(t, "HEX") PROVE t.num \in Nat
  <2>1. t.type = "HEX"
    BY <1>3, GroupIs DEF Stands
  <2> QED
    BY <2>1, NumberToken DEF Numbers
<1>4. ASSUME NEW type \in {"BYTE", "WORD", "LONG", "QUAD"}, Stands(t, type)
      PROVE  t.type # "NEWLINE"
  BY <1>4, GroupIs DEF Stands
<1> QED
  BY <1>1, <1>2, <1>3, <1>4

-----------------------------------------------------------------------------
(* What a pattern's tokens carry, where the parser reads them.             *)
PatternGood(p) ==
  /\ p.at \in Nat \ {0} /\ p.off \in BOOLEAN
  /\ p.type \in {"EXPORT_SCOPE", "EXPORT_LABEL"} => Tok(p, 1).str \in Names
  /\ p.type \in {"SCOPE", "LABEL", "DEFINE"} => Tok(p, 0).str \in Names
  /\ p.type = "ORIGIN" => Tok(p, 1).num \in Nat
  /\ p.type = "NUMBER" => Tok(p, 0).num \in Nat
  /\ p.type \in {"B_PLUS_IMM", "B_MINUS_IMM", "P_PLUS_IMM"} => Tok(p, 3).num \in Nat
  /\ p.type \in {"BYTE", "WORD", "LONG", "QUAD"} => p.at + 1 <= Len(token)
  /\ p.type \in NameForms => Tok(p, Width(p)).str \in Names
  /\ p.type \in NumberForms => Tok(p, Width(p)).num \in Nat
  /\ p.off => Tok(p, Width(p) + 3).num \in Nat

(* A token of the row is among the tokens of the file.                     *)
LEMMA TokenThere ==
  ASSUME TextInv, NEW p, p.at \in Nat \ {0}, NEW row,
         \A j \in DOMAIN row : p.at + j - 1 <= Len(token) /\ Stands(token[p.at + j - 1], row[j]),
         NEW j \in Nat, NEW m, m = j + 1, NEW type, Has(row, m, type)
  PROVE  /\ p.at + j <= Len(token) /\ Tok(p, j) \in Token /\ Stands(Tok(p, j), type)
<1>1. p.at + (j + 1) - 1 <= Len(token) /\ Stands(token[p.at + (j + 1) - 1], type)
  BY DEF Has
<1>2. p.at + (j + 1) - 1 = p.at + j /\ p.at + j \in Nat \ {0}
  OBVIOUS
<1>3. p.at + j \in 1 .. Len(token)
  BY <1>1, <1>2, LenProperties DEF TextInv
<1>4. token[p.at + j] \in Token
  BY <1>3, ElementOfSeq DEF TextInv
<1> QED
  BY <1>1, <1>2, <1>4 DEF Tok

(* A pattern that stands for the tokens of its row can be read as the      *)
(* parser reads it: an operand first, then a line.                         *)
LEMMA OperandGood ==
  ASSUME TextInv, NEW p, p.at \in Nat \ {0}, NEW t, t \in Seq(Kinds), FormShape(p.type, t), Width(p) = Len(t),
         p.off \in BOOLEAN, p.type \notin LineTypes, NEW row, row = <<"INS">> \o t \o Behind(p.off),
         \A j \in DOMAIN row : p.at + j - 1 <= Len(token) /\ Stands(token[p.at + j - 1], row[j])
  PROVE  PatternGood(p)
<1>1. Len(t) \in Nat
  OBVIOUS
<1>2. p.type \in NameForms => Tok(p, Width(p)).str \in Names
  <2>1. SUFFICES ASSUME p.type \in NameForms PROVE Tok(p, Width(p)).str \in Names
    OBVIOUS
  <2>2. Has(row, Len(t) + 1, "NAME")
    BY <2>1, OperandWithin DEF FormShape
  <2>3. Tok(p, Len(t)) \in Token /\ Stands(Tok(p, Len(t)), "NAME")
    BY <1>1, <2>2, TokenThere
  <2> QED
    BY <2>3, StandsFor
<1>3. p.type \in NumberForms => Tok(p, Width(p)).num \in Nat
  <2>1. SUFFICES ASSUME p.type \in NumberForms PROVE Tok(p, Width(p)).num \in Nat
    OBVIOUS
  <2>2. Has(row, Len(t) + 1, "NUMBER")
    BY <2>1, OperandWithin DEF FormShape
  <2>3. Tok(p, Len(t)) \in Token /\ Stands(Tok(p, Len(t)), "NUMBER")
    BY <1>1, <2>2, TokenThere
  <2> QED
    BY <2>3, StandsFor
<1>4. p.off => Tok(p, Width(p) + 3).num \in Nat
  <2>1. SUFFICES ASSUME p.off PROVE Tok(p, Width(p) + 3).num \in Nat
    OBVIOUS
  <2>2. Has(row, Len(t) + 4, "NUMBER")
    BY <2>1, OperandWithin
  <2>3. Len(t) + 3 \in Nat /\ Len(t) + 4 = (Len(t) + 3) + 1
    BY <1>1
  <2>4. Tok(p, Len(t) + 3) \in Token /\ Stands(Tok(p, Len(t) + 3), "NUMBER")
    BY <2>2, <2>3, TokenThere
  <2> QED
    BY <2>4, StandsFor
<1> QED
  BY <1>2, <1>3, <1>4 DEF PatternGood, LineTypes

LEMMA LineGood ==
  ASSUME TextInv, NEW p, p.at \in Nat \ {0}, p.off = FALSE, NEW row, LineShape(p.type, row),
         p.type \in LineTypes,
         \A j \in DOMAIN row : p.at + j - 1 <= Len(token) /\ Stands(token[p.at + j - 1], row[j])
  PROVE  PatternGood(p)
<1>1. ASSUME p.type \in {"EXPORT_SCOPE", "EXPORT_LABEL"}
      PROVE  Tok(p, 1).str \in Names
  <2>1. Has(row, 2, "NAME")
    BY <1>1 DEF LineShape
  <2>2. Tok(p, 1) \in Token /\ Stands(Tok(p, 1), "NAME")
    BY <2>1, TokenThere
  <2> QED
    BY <2>2, StandsFor
<1>2. ASSUME p.type \in {"SCOPE", "LABEL", "DEFINE"}
      PROVE  Tok(p, 0).str \in Names
  <2>1. Has(row, 1, "NAME")
    BY <1>2 DEF LineShape
  <2>2. Tok(p, 0) \in Token /\ Stands(Tok(p, 0), "NAME")
    BY <2>1, TokenThere
  <2> QED
    BY <2>2, StandsFor
<1>3. ASSUME p.type = "ORIGIN"
      PROVE  Tok(p, 1).num \in Nat
  <2>1. Has(row, 2, "HEX")
    BY <1>3 DEF LineShape
  <2>2. Tok(p, 1) \in Token /\ Stands(Tok(p, 1), "HEX")
    BY <2>1, TokenThere
  <2> QED
    BY <2>2, StandsFor
<1>4. ASSUME p.type = "NUMBER"
      PROVE  Tok(p, 0).num \in Nat
  <2>1. Has(row, 1, "NUMBER")
    BY <1>4 DEF LineShape
  <2>2. Tok(p, 0) \in Token /\ Stands(Tok(p, 0), "NUMBER")
    BY <2>1, TokenThere
  <2> QED
    BY <2>2, StandsFor
<1>5. ASSUME p.type \in {"B_PLUS_IMM", "B_MINUS_IMM", "P_PLUS_IMM"}
      PROVE  Tok(p, 3).num \in Nat
  <2>1. Has(row, 4, "NUMBER")
    BY <1>5 DEF LineShape
  <2>2. Tok(p, 3) \in Token /\ Stands(Tok(p, 3), "NUMBER")
    BY <2>1, TokenThere
  <2> QED
    BY <2>2, StandsFor
<1>6. p.type \in {"BYTE", "WORD", "LONG", "QUAD"} => p.at + 1 <= Len(token)
  <2> SUFFICES ASSUME p.type \in {"BYTE", "WORD", "LONG", "QUAD"}
               PROVE  p.at + 1 <= Len(token)
    OBVIOUS
  <2>1. Has(row, 1, p.type)
    BY DEF LineShape
  <2>2. p.at + 0 <= Len(token) /\ Tok(p, 0) \in Token /\ Stands(Tok(p, 0), p.type)
    BY <2>1, TokenThere
  <2>3. Tok(p, 0).type # "NEWLINE"
    BY <2>2, StandsFor
  <2>4. token # <<>> /\ Len(token) \in Nat
    BY <2>2, EmptySeq, LenProperties DEF TextInv
  <2>5. p.at # Len(token)
    BY <2>3, <2>4 DEF Tok, TextInv
  <2> QED
    BY <2>2, <2>4, <2>5
<1>7. p.type \notin NameForms /\ p.type \notin NumberForms
  BY DEF LineTypes, NameForms, NumberForms
<1> QED
  BY <1>1, <1>2, <1>3, <1>4, <1>5, <1>6, <1>7 DEF PatternGood

LEMMA PatternTokens ==
  ASSUME TextInv, NEW i \in DOMAIN pattern
  PROVE  PatternGood(pattern[i])
<1> DEFINE p == pattern[i]
<1>1. p \in Pattern
  BY ElementOfSeq, LenProperties DEF TextInv
<1>2. p.at \in Nat \ {0}
  BY <1>1 DEF Pattern
<1>3. PICK k \in DOMAIN PAT_TOK_TBL :
        /\ PAT_TOK_TBL[k].type = p.type /\ PAT_TOK_TBL[k].off = p.off
        /\ \A j \in DOMAIN PAT_TOK_TBL[k].token :
             p.at + j - 1 <= Len(token) /\ Stands(token[p.at + j - 1], PAT_TOK_TBL[k].token[j])
  BY DEF TextInv, Fits
<1> HIDE DEF p
<1>4. CASE \E n \in DOMAIN Operands, off \in BOOLEAN :
             PAT_TOK_TBL[k] = Row(Operands, n, off, <<"INS">>, Behind(off))
  <2>1. PICK n \in DOMAIN Operands, off \in BOOLEAN :
          PAT_TOK_TBL[k] = Row(Operands, n, off, <<"INS">>, Behind(off))
    BY <1>4
  <2>2. /\ p.type = Operands[n][1] /\ p.off = off
        /\ PAT_TOK_TBL[k].token = <<"INS">> \o Operands[n][2] \o Behind(off)
    BY <1>3, <2>1 DEF Row
  <2>3. Width(p) = Len(Operands[n][2]) /\ p.type \notin LineTypes
    BY <2>2, Widths, LinesDistinct
  <2>4. FormShape(p.type, Operands[n][2]) /\ Operands[n][2] \in Seq(Kinds)
    BY <2>2, OperandShapes DEF OperandShape, FormShape
  <2> QED
    BY <1>2, <1>3, <2>2, <2>3, <2>4, OperandGood DEF p
<1>5. CASE \E n \in DOMAIN Registers : PAT_TOK_TBL[k] = Row(Registers, n, FALSE, <<"INS">>, <<"NEWLINE">>)
  <2>1. PICK n \in DOMAIN Registers : PAT_TOK_TBL[k] = Row(Registers, n, FALSE, <<"INS">>, <<"NEWLINE">>)
    BY <1>5
  <2>2. /\ p.type = Registers[n][1] /\ p.off = FALSE
        /\ PAT_TOK_TBL[k].token = <<"INS">> \o Registers[n][2] \o Behind(FALSE)
    <3> DEFINE no == FALSE
               tail == Behind(FALSE)
    <3>1. tail = <<"NEWLINE">>
      BY DEF Behind
    <3>2. PAT_TOK_TBL[k] = Row(Registers, n, no, <<"INS">>, tail)
      BY <2>1, <3>1
    <3> HIDE DEF no, tail
    <3>3. p.type = Registers[n][1] /\ p.off = no /\ PAT_TOK_TBL[k].token = <<"INS">> \o Registers[n][2] \o tail
      BY <1>3, <3>2 DEF Row
    <3> QED
      BY <3>3 DEF no, tail
  <2>3. Width(p) = Len(Registers[n][2]) /\ p.type \notin LineTypes
    BY <2>2, Widths, LinesDistinct
  <2>4. FormShape(p.type, Registers[n][2]) /\ Registers[n][2] \in Seq(Kinds)
    BY <2>2, RegisterShapes DEF RegisterShape, FormShape
  <2> QED
    BY <1>2, <1>3, <2>2, <2>3, <2>4, OperandGood DEF p
<1>6. CASE \E n \in DOMAIN Lines : PAT_TOK_TBL[k] = Row(Lines, n, FALSE, <<>>, <<>>)
  <2>1. PICK n \in DOMAIN Lines : PAT_TOK_TBL[k] = Row(Lines, n, FALSE, <<>>, <<>>)
    BY <1>6
  <2>2. p.type = Lines[n][1] /\ p.off = FALSE /\ PAT_TOK_TBL[k].token = <<>> \o Lines[n][2] \o <<>>
    <3> DEFINE no == FALSE
    <3>1. PAT_TOK_TBL[k] = Row(Lines, n, no, <<>>, <<>>)
      BY <2>1
    <3> HIDE DEF no
    <3>2. p.type = Lines[n][1] /\ p.off = no /\ PAT_TOK_TBL[k].token = <<>> \o Lines[n][2] \o <<>>
      BY <1>3, <3>1 DEF Row
    <3> QED
      BY <3>2 DEF no
  <2>3. <<>> \o Lines[n][2] \o <<>> = Lines[n][2]
    BY LineShapes
  <2>4. LineShape(p.type, Lines[n][2]) /\ p.type \in LineTypes
    BY <2>2, LineShapes, LinesDistinct DEF LineShape
  <2> QED
    BY <1>2, <1>3, <2>2, <2>3, <2>4, LineGood DEF p
<1> QED
  BY <1>4, <1>5, <1>6, TableRows

-----------------------------------------------------------------------------
(* Every row of the table of opcodes has a byte.                           *)
IsList(s, n) == \E S : s \in Seq(S) /\ Len(s) = n

(* How long the parts of the opcode tables are, so that a place in one     *)
(* gives a byte.                                                           *)
LEMMA ListsJoin ==
  ASSUME NEW m \in Nat, NEW n \in Nat, NEW a, IsList(a, m), NEW b, IsList(b, n), NEW k, k = m + n
  PROVE  IsList(a \o b, k)
<1>1. PICK S : a \in Seq(S) /\ Len(a) = m
  BY DEF IsList
<1>2. PICK T : b \in Seq(T) /\ Len(b) = n
  BY DEF IsList
<1> DEFINE ab == a \o b
<1>3. ab = a \o b
  OBVIOUS
<1> HIDE DEF ab
<1>4. ab \in Seq(S \cup T)
  BY <1>1, <1>2, <1>3, JoinedType, Zenon
<1>5. JoinedAt(a \o b, a, b)
  BY <1>1, <1>2, JoinedPlaces, Zenon
<1>6. Len(ab) = k
  BY <1>1, <1>2, <1>3, <1>5 DEF JoinedAt
<1> QED
  BY <1>3, <1>4, <1>6 DEF IsList

LEMMA PlainList ==
  ASSUME NEW n \in Nat, NEW args, IsList(args, n)
  PROVE  IsList(Plain(args), n)
<1>1. DOMAIN args = 1 .. n
  BY LenProperties DEF IsList
<1> DEFINE s == Plain(args)
           T == {<<args[k], FALSE>> : k \in 1 .. n}
<1>2. s \in [1 .. n -> T]
  BY <1>1 DEF Plain
<1> HIDE DEF s, T
<1>3. s \in Seq(T) /\ Len(s) = n
  BY <1>2, FunctionIsSeq
<1> QED
  BY <1>3 DEF IsList, s

LEMMA SignedList == ASSUME NEW arg PROVE IsList(Signed(arg), 2)
<1>1. Signed(arg) \in Seq({<<arg, TRUE>>, <<arg, FALSE>>}) /\ Len(Signed(arg)) = 2
  BY DEF Signed
<1> QED
  BY <1>1 DEF IsList

LEMMA TextLists ==
  /\ IsList(<<"IMM">>, 1) /\ IsList(<<"A">>, 1) /\ IsList(<<"P">>, 1) /\ IsList(<<"ABS">>, 1)
  /\ IsList(<<"INS">>, 1) /\ IsList(<<"P_IMM", "P_ABS">>, 2) /\ IsList(<<"A_K", "K_A">>, 2)
  /\ IsList(<<"A", "F">>, 2) /\ IsList(<<"P", "B">>, 2)
  /\ IsList(<<"A_F", "F_A", "P_B", "P_S", "B_P", "B_S", "S_P", "S_B">>, 8)
  /\ IsList(<<<<"B_IMM", TRUE>>>>, 1) /\ IsList(<<<<"B_IMM", FALSE>>>>, 1)
<1>1. ASSUME NEW a PROVE IsList(<<a>>, 1)
  <2>1. <<a>> \in Seq({a}) /\ Len(<<a>>) = 1
    OBVIOUS
  <2> QED
    BY <2>1 DEF IsList
<1>2. ASSUME NEW a, NEW b PROVE IsList(<<a, b>>, 2)
  <2>1. <<a, b>> \in Seq({a, b}) /\ Len(<<a, b>>) = 2
    OBVIOUS
  <2> QED
    BY <2>1 DEF IsList
<1>3. IsList(<<"A_F", "F_A", "P_B", "P_S", "B_P", "B_S", "S_P", "S_B">>, 8)
  <2>1. /\ <<"A_F", "F_A", "P_B", "P_S", "B_P", "B_S", "S_P", "S_B">>
             \in Seq({"A_F", "F_A", "P_B", "P_S", "B_P", "B_S", "S_P", "S_B"})
        /\ Len(<<"A_F", "F_A", "P_B", "P_S", "B_P", "B_S", "S_P", "S_B">>) = 8
    OBVIOUS
  <2> QED
    BY <2>1 DEF IsList
<1> QED
  BY <1>1, <1>2, <1>3, Zenon

LEMMA PlaceLists == IsList(AbsBase, 3) /\ IsList(Places, 7)
<1>1. IsList(Plain(<<"ABS">>), 1) /\ IsList(Plain(<<"P_IMM", "P_ABS">>), 2)
  BY TextLists, PlainList
<1>2. IsList(AbsBase, 3)
  <2>1. IsList(Signed("B_IMM"), 2)
    BY SignedList
  <2> QED
    BY <1>1, <2>1, ListsJoin DEF AbsBase
<1>3. IsList(AbsBase \o Plain(<<"P_IMM", "P_ABS">>), 5)
  BY <1>1, <1>2, ListsJoin
<1>4. IsList(Signed("P_B_IMM"), 2)
  BY SignedList
<1>5. IsList(Places, 7)
  BY <1>3, <1>4, ListsJoin DEF Places
<1> QED
  BY <1>2, <1>5

BlockGood(b) == \A k \in DOMAIN b[2] : b[3] + k - 1 \in Byte
AllGood(set) == \A b \in set : BlockGood(b)

(* A block of opcodes stays below 256 if its last one does.                *)
LEMMA BlocksGood ==
  ASSUME NEW n \in Nat, NEW args, IsList(args, n), NEW at,
         \A ins \in DOMAIN at : at[ins] \in Nat /\ at[ins] + n <= 256
  PROVE  AllGood(Blocks(args, at))
<1>1. DOMAIN args = 1 .. n
  BY LenProperties DEF IsList
<1>2. ASSUME NEW ins \in DOMAIN at, NEW k \in 1 .. n
      PROVE  at[ins] + k - 1 \in Byte
  <2> DEFINE x == at[ins]
  <2>1. x \in Nat /\ x + n <= 256
    OBVIOUS
  <2> HIDE DEF x
  <2>2. x + k - 1 \in Byte
    BY <2>1 DEF Byte
  <2> QED
    BY <2>2 DEF x
<1> QED
  BY <1>1, <1>2 DEF AllGood, BlockGood, Blocks

LEMMA TablesGood == \A b \in Tables : BlockGood(b)
<1> DEFINE imm == Plain(<<"IMM">>) \o Places
           a   == Plain(<<"A">>) \o Places
           ab  == Plain(<<"A">>) \o AbsBase
<1>1. IsList(imm, 8) /\ IsList(a, 8) /\ IsList(ab, 4) /\ IsList(Places, 7)
  <2>1. IsList(Plain(<<"IMM">>), 1) /\ IsList(Plain(<<"A">>), 1)
    BY TextLists, PlainList
  <2> QED
    BY <2>1, PlaceLists, ListsJoin
<1>2. IsList(Signed("I_IMM"), 2) /\ IsList(Signed("P_B_IMM"), 2)
  BY SignedList
<1>3. /\ IsList(Plain(<<"A_F", "F_A", "P_B", "P_S", "B_P", "B_S", "S_P", "S_B">>), 8)
      /\ IsList(Plain(<<"A_K", "K_A">>), 2) /\ IsList(Plain(<<"A", "F">>), 2) /\ IsList(Plain(<<"P", "B">>), 2)
      /\ IsList(Plain(<<"P">>), 1) /\ IsList(Plain(<<"ABS">>), 1) /\ IsList(Plain(<<"IMM">>), 1)
      /\ IsList(Plain(<<"INS">>), 1)
  BY TextLists, PlainList
<1> DEFINE at1 == [LOD |-> 0, PSH |-> 48, AND |-> 96, ORA |-> 104, ADD |-> 112, ADC |-> 120,
                   SUB |-> 128, SBC |-> 136, CMP |-> 144]
           at2 == [LDW |-> 9, LEA |-> 17, STO |-> 25, PHW |-> 57, PEA |-> 65, PUL |-> 73, PLW |-> 81]
           at3 == [NOT |-> 88, ASR |-> 152, LSL |-> 160, LSR |-> 168, ROL |-> 176, ROR |-> 184,
                   INC |-> 192, DEC |-> 200]
           at4 == [ICT |-> 208, DCT |-> 212]
           at5 == [BRZ |-> 224, BNZ |-> 226, BRC |-> 228, BNC |-> 230, BRN |-> 232, BNN |-> 234,
                   BRG |-> 236, BNG |-> 238, BRA |-> 240]
           at6 == [VEC |-> 242]
           at7 == [MOV |-> 32]
           at8 == [MOV |-> 222]
           at9 == [PSH |-> 40, PUL |-> 44]
           at10 == [PHW |-> 42, PLW |-> 46]
           at11 == [INC |-> 216, DEC |-> 217, ICT |-> 218, DCT |-> 219]
           at12 == [STW |-> 8, JMP |-> 244, JPL |-> 245, JSR |-> 248, JSL |-> 249]
           at13 == [STW |-> 16]
           at14 == [STW |-> 24]
           at15 == [SET |-> 220, CLR |-> 221, ENT |-> 246, EXT |-> 247, RTS |-> 251, RTL |-> 253]
           at16 == [COP |-> 56, CPW |-> 64, NOP |-> 80, RTS |-> 250, RTL |-> 252, RTI |-> 254, BRK |-> 255]
<1>4. /\ \A ins \in DOMAIN at1 : at1[ins] \in Nat /\ at1[ins] + 8 <= 256
      /\ \A ins \in DOMAIN at2 : at2[ins] \in Nat /\ at2[ins] + 7 <= 256
      /\ \A ins \in DOMAIN at3 : at3[ins] \in Nat /\ at3[ins] + 8 <= 256
      /\ \A ins \in DOMAIN at4 : at4[ins] \in Nat /\ at4[ins] + 4 <= 256
      /\ \A ins \in DOMAIN at5 : at5[ins] \in Nat /\ at5[ins] + 2 <= 256
      /\ \A ins \in DOMAIN at6 : at6[ins] \in Nat /\ at6[ins] + 2 <= 256
      /\ \A ins \in DOMAIN at7 : at7[ins] \in Nat /\ at7[ins] + 8 <= 256
      /\ \A ins \in DOMAIN at8 : at8[ins] \in Nat /\ at8[ins] + 2 <= 256
      /\ \A ins \in DOMAIN at9 : at9[ins] \in Nat /\ at9[ins] + 2 <= 256
      /\ \A ins \in DOMAIN at10 : at10[ins] \in Nat /\ at10[ins] + 2 <= 256
      /\ \A ins \in DOMAIN at11 : at11[ins] \in Nat /\ at11[ins] + 1 <= 256
      /\ \A ins \in DOMAIN at12 : at12[ins] \in Nat /\ at12[ins] + 1 <= 256
      /\ \A ins \in DOMAIN at13 : at13[ins] \in Nat /\ at13[ins] + 1 <= 256
      /\ \A ins \in DOMAIN at14 : at14[ins] \in Nat /\ at14[ins] + 1 <= 256
      /\ \A ins \in DOMAIN at15 : at15[ins] \in Nat /\ at15[ins] + 1 <= 256
      /\ \A ins \in DOMAIN at16 : at16[ins] \in Nat /\ at16[ins] + 1 <= 256
  OBVIOUS
<1>5. Tables = Blocks(imm, at1) \cup
               Blocks(Places, at2) \cup
               Blocks(a, at3) \cup
               Blocks(ab, at4) \cup
               Blocks(Signed("I_IMM"), at5) \cup
               Blocks(Signed("P_B_IMM"), at6) \cup
               Blocks(Plain(<<"A_F", "F_A", "P_B", "P_S", "B_P", "B_S", "S_P", "S_B">>), at7) \cup
               Blocks(Plain(<<"A_K", "K_A">>), at8) \cup
               Blocks(Plain(<<"A", "F">>), at9) \cup
               Blocks(Plain(<<"P", "B">>), at10) \cup
               Blocks(Plain(<<"P">>), at11) \cup
               Blocks(Plain(<<"ABS">>), at12) \cup
               Blocks(<<<<"B_IMM", TRUE>>>>, at13) \cup
               Blocks(<<<<"B_IMM", FALSE>>>>, at14) \cup
               Blocks(Plain(<<"IMM">>), at15) \cup
               Blocks(Plain(<<"INS">>), at16)
  BY Zenon DEF Tables
<1> HIDE DEF imm, a, ab, at1, at2, at3, at4, at5, at6, at7, at8, at9, at10, at11, at12, at13, at14, at15, at16
<1>6. AllGood(Blocks(imm, at1))
  BY <1>1, <1>4, BlocksGood
<1>7. AllGood(Blocks(Places, at2))
  BY <1>1, <1>4, BlocksGood
<1>8. AllGood(Blocks(a, at3))
  BY <1>1, <1>4, BlocksGood
<1>9. AllGood(Blocks(ab, at4))
  BY <1>1, <1>4, BlocksGood
<1>10. AllGood(Blocks(Signed("I_IMM"), at5))
  BY <1>2, <1>4, BlocksGood
<1>11. AllGood(Blocks(Signed("P_B_IMM"), at6))
  BY <1>2, <1>4, BlocksGood
<1>12. AllGood(Blocks(Plain(<<"A_F", "F_A", "P_B", "P_S", "B_P", "B_S", "S_P", "S_B">>), at7))
  BY <1>3, <1>4, BlocksGood
<1>13. AllGood(Blocks(Plain(<<"A_K", "K_A">>), at8))
  BY <1>3, <1>4, BlocksGood
<1>14. AllGood(Blocks(Plain(<<"A", "F">>), at9))
  BY <1>3, <1>4, BlocksGood
<1>15. AllGood(Blocks(Plain(<<"P", "B">>), at10))
  BY <1>3, <1>4, BlocksGood
<1>16. AllGood(Blocks(Plain(<<"P">>), at11))
  BY <1>3, <1>4, BlocksGood
<1>17. AllGood(Blocks(Plain(<<"ABS">>), at12))
  BY <1>3, <1>4, BlocksGood
<1>18. AllGood(Blocks(<<<<"B_IMM", TRUE>>>>, at13))
  BY TextLists, <1>4, BlocksGood
<1>19. AllGood(Blocks(<<<<"B_IMM", FALSE>>>>, at14))
  BY TextLists, <1>4, BlocksGood
<1>20. AllGood(Blocks(Plain(<<"IMM">>), at15))
  BY <1>3, <1>4, BlocksGood
<1>21. AllGood(Blocks(Plain(<<"INS">>), at16))
  BY <1>3, <1>4, BlocksGood
<1> QED
  BY <1>5, <1>6, <1>7, <1>8, <1>9, <1>10, <1>11, <1>12, <1>13, <1>14, <1>15, <1>16, <1>17, <1>18, <1>19, <1>20, <1>21, Zenon DEF AllGood

(* So an instruction with its operand is one byte.                         *)
LEMMA OpcodeByte ==
  ASSUME NEW ins, NEW arg, OpcodeOf(ins, arg) # NoOpcode
  PROVE  OpcodeOf(ins, arg) \in Byte
<1> DEFINE rows == {row \in INS_TBL : row[1] = ins /\ row[2] = arg}
<1>1. rows # {} /\ OpcodeOf(ins, arg) = (CHOOSE row \in rows : TRUE)[3]
  BY DEF OpcodeOf
<1>2. PICK row \in INS_TBL : OpcodeOf(ins, arg) = row[3]
  BY <1>1
<1>3. PICK b \in Tables : \E k \in DOMAIN b[2] : row = <<b[1], b[2][k], b[3] + k - 1>>
  BY <1>2, Zenon DEF INS_TBL
<1> QED
  BY <1>2, <1>3, TablesGood DEF BlockGood

-----------------------------------------------------------------------------
(* The bytes that data is written as.                                      *)
LEMMA BytesType ==
  ASSUME NEW data \in Int, NEW size \in 0 .. 4
  PROVE  /\ Bytes(data, size) \in [1 .. size -> Byte]
         /\ Bytes(data, size) \in Seq(Byte) /\ Len(Bytes(data, size)) = size
<1>1. ASSUME NEW i \in 1 .. size
      PROVE  (data \div 256 ^ (i - 1)) % 256 \in Byte
  <2> DEFINE Worth(n) == 256 ^ n
             q == data \div Worth(i - 1)
  <2>1. Worth(0) = 1 /\ Worth(1) = 256 /\ Worth(2) = 65536 /\ Worth(3) = 16777216
    OBVIOUS
  <2>2. i - 1 \in {0, 1, 2, 3}
    OBVIOUS
  <2> HIDE DEF Worth
  <2>3. Worth(i - 1) \in {1, 256, 65536, 16777216}
    BY <2>1, <2>2
  <2>4. q \in Int
    BY <2>3
  <2> HIDE DEF q
  <2>5. q % 256 \in Byte
    BY <2>4 DEF Byte
  <2> QED
    BY <2>5 DEF q, Worth
<1> DEFINE b == Bytes(data, size)
<1>2. b \in [1 .. size -> Byte]
  BY <1>1 DEF Bytes
<1> HIDE DEF b
<1>3. b \in Seq(Byte) /\ Len(b) = size
  BY <1>2, FunctionIsSeq
<1> QED
  BY <1>2, <1>3 DEF b

-----------------------------------------------------------------------------
(* What a name is looked up as, and what an operand adds.                  *)
KnownOrNull(s) == s.type = "NULL" \/ (s.type \in SymbolTypes /\ s.value \in Nat)

(* What lookupSymbol finds has a value, whether local or global.           *)
LEMMA LookedUp ==
  ASSUME SymbolInv, NEW name
  PROVE  KnownOrNull(lookupSymbol(name))
<1> DEFINE I == {i \in 1 .. Len(symbol) : symbol[i].name = name /\ symbol[i].scope \in {0, scope}}
           k == IF I # {} THEN Min(I) ELSE 0
<1>1. Len(symbol) \in Nat /\ I \in SUBSET (1 .. Len(symbol))
  BY LenProperties DEF SymbolInv
<1>2. k \in 0 .. Len(symbol)
  BY <1>1, FirstOf
<1>3. lookupSymbol(name) = IF k = 0 THEN [type |-> "NULL"] ELSE symbol[k]
  BY Zenon DEF lookupSymbol, SelectInSeq
<1> HIDE DEF k
<1>4. CASE k = 0
  BY <1>3, <1>4 DEF KnownOrNull
<1>5. CASE k # 0
  <2>1. symbol[k] \in Symbol
    BY <1>1, <1>2, <1>5, ElementOfSeq DEF SymbolInv
  <2> QED
    BY <1>3, <1>5, <2>1 DEF KnownOrNull, Symbol
<1> QED
  BY <1>4, <1>5

ArgGood(p, arg) ==
  /\ arg.data \in Int /\ arg.size \in 0 .. 4 /\ arg.by = arg.size
  /\ arg.ref \in {"NONE", "DATA", "RELATIVE", "ABSOLUTE"}
  /\ arg.ref = "RELATIVE" => arg.size = 1
  /\ arg.ref # "NONE" => p.type \in NameForms /\ arg.size \in 1 .. 4

(* Each way that an operand is written: as its bytes, as a reference and   *)
(* zeros for it, or refused. The address moves by what is written.         *)
LEMMA EmitGood ==
  ASSUME NEW p, NEW data \in Int, NEW size \in 0 .. 4
  PROVE  ArgGood(p, Emit(data, size, size))
<1> DEFINE yes == TRUE
           e == [ok |-> yes, ref |-> "NONE", data |-> data, size |-> size, by |-> size]
<1>1. Emit(data, size, size) = e
  BY DEF Emit
<1> HIDE DEF yes
<1>2. e.data = data /\ e.size = size /\ e.by = size /\ e.ref = "NONE"
  OBVIOUS
<1> QED
  BY <1>1, <1>2 DEF ArgGood

LEMMA ReferGood ==
  ASSUME NEW p, p.type \in NameForms, NEW type \in {"DATA", "RELATIVE", "ABSOLUTE"}, NEW size \in 1 .. 4,
         type = "RELATIVE" => size = 1
  PROVE  ArgGood(p, Refer(type, size, size))
<1> DEFINE yes == TRUE
           e == [ok |-> yes, ref |-> type, data |-> 0, size |-> size, by |-> size]
<1>1. Refer(type, size, size) = e
  BY DEF Refer
<1> HIDE DEF yes
<1>2. e.data = 0 /\ e.size = size /\ e.by = size /\ e.ref = type
  OBVIOUS
<1> QED
  BY <1>1, <1>2 DEF ArgGood

LEMMA RefuseGood == ASSUME NEW p PROVE ArgGood(p, Refuse)
<1> DEFINE no == FALSE
           e == [ok |-> no, ref |-> "NONE", data |-> 0, size |-> 0, by |-> 0]
<1>1. Refuse = e
  BY DEF Refuse
<1> HIDE DEF no
<1>2. e.data = 0 /\ e.size = 0 /\ e.by = 0 /\ e.ref = "NONE"
  OBVIOUS
<1> QED
  BY <1>1, <1>2 DEF ArgGood

(* The values may be negative before they are cut into bytes.              *)
LEMMA NormalizedInt ==
  ASSUME NEW v \in Nat
  PROVE  normalizeWord(v) \in Int /\ normalizeLong(v) \in Int
BY DEF normalizeWord, normalizeLong

(* A name's address or what it is defined as.                              *)
LEMMA NamedGood ==
  ASSUME NEW p, p.type \in NameForms, Offset(p) \in Nat, NEW s, KnownOrNull(s), NEW size \in 1 .. 4, NEW arg,
         \/ arg = Refer("ABSOLUTE", size, size)
         \/ /\ s.type # "NULL"
            /\ \/ arg = Emit(Normalized(p, s.value) + Offset(p), size, size)
               \/ arg = Emit(s.value + Offset(p), size, size)
               \/ arg = Emit(s.value - 1 - Offset(p), 1, 1)
               \/ arg = Emit(s.value + Offset(p), 1, 1)
  PROVE  ArgGood(p, arg)
<1>1. CASE arg = Refer("ABSOLUTE", size, size)
  BY <1>1, ReferGood
<1>2. CASE s.type # "NULL" /\ arg # Refer("ABSOLUTE", size, size)
  <2>1. s.value \in Nat
    BY <1>2 DEF KnownOrNull
  <2>2. Normalized(p, s.value) \in Int
    BY <2>1, NormalizedInt DEF Normalized
  <2> DEFINE there == Normalized(p, s.value) + Offset(p)
             plus  == s.value + Offset(p)
             minus == s.value - 1 - Offset(p)
  <2>3. there \in Int /\ plus \in Int /\ minus \in Int
    BY <2>1, <2>2
  <2>4. \/ arg = Emit(there, size, size) \/ arg = Emit(plus, size, size)
        \/ arg = Emit(minus, 1, 1) \/ arg = Emit(plus, 1, 1)
    BY <1>2
  <2> HIDE DEF there, plus, minus
  <2> QED
    BY <2>3, <2>4, EmitGood
<1> QED
  BY <1>1, <1>2

(* An operand that is a name adds bytes of one size, known or not.         *)
LEMMA NameArgs ==
  ASSUME NEW p, p.type \in NameForms, Offset(p) \in Nat, NEW s, KnownOrNull(s), NEW behind \in Nat
  PROVE  /\ ArgGood(p, BranchData(s, behind))
         /\ ArgGood(p, ImmNameData(p, s))
         /\ ArgGood(p, NameData(p, s))
         /\ ArgGood(p, PNameData(p, s))
<1>1. ArgGood(p, BranchData(s, behind))
  <2>1. CASE s.type = "NULL"
    <3>1. BranchData(s, behind) = Refer("RELATIVE", 1, 1)
      BY <2>1 DEF BranchData, IsAddress
    <3> QED
      BY <3>1, ReferGood
  <2>2. CASE s.type # "NULL" /\ IsAddress(s) /\ BackBy(s, behind) \in Byte
    <3>1. BranchData(s, behind) = Emit(BackBy(s, behind), 1, 1)
      BY <2>2 DEF BranchData
    <3>2. BackBy(s, behind) \in Int
      BY <2>2 DEF Byte
    <3> QED
      BY <3>1, <3>2, EmitGood
  <2>3. CASE s.type # "NULL" /\ ~(IsAddress(s) /\ BackBy(s, behind) \in Byte)
    <3>1. BranchData(s, behind) = Refuse
      BY <2>3 DEF BranchData
    <3> QED
      BY <3>1, RefuseGood
  <2> QED
    BY <2>1, <2>2, <2>3
<1>2. ArgGood(p, ImmNameData(p, s))
  <2>1. CASE s.type = "NULL"
    <3>1. ImmNameData(p, s) = Refer("DATA", 1, 1)
      BY <2>1 DEF ImmNameData
    <3> QED
      BY <3>1, ReferGood
  <2>2. CASE s.type = "NUMBER"
    <3>1. ImmNameData(p, s) = Emit(s.value + Offset(p), 1, 1)
      BY <2>2 DEF ImmNameData
    <3>2. s.value + Offset(p) \in Int
      BY <2>2 DEF KnownOrNull
    <3> QED
      BY <3>1, <3>2, EmitGood
  <2>3. CASE s.type \notin {"NULL", "NUMBER"}
    <3>1. ImmNameData(p, s) = Refuse
      BY <2>3 DEF ImmNameData
    <3> QED
      BY <3>1, RefuseGood
  <2> QED
    BY <2>1, <2>2, <2>3
<1>3. ArgGood(p, NameData(p, s))
  <2> DEFINE size == LongOrWord(p)
  <2>1. size \in 1 .. 4
    BY DEF LongOrWord
  <2>2. CASE s.type = "NULL"
    <3>1. NameData(p, s) = Refer("ABSOLUTE", size, size)
      BY <2>2 DEF NameData, IsAddress
    <3> HIDE DEF size
    <3> QED
      BY <2>1, <3>1, NamedGood
  <2>3. CASE s.type # "NULL"
    <3>1. \/ NameData(p, s) = Emit(Normalized(p, s.value) + Offset(p), size, size)
          \/ NameData(p, s) = Emit(s.value + Offset(p), size, size)
          \/ NameData(p, s) = Emit(s.value - 1 - Offset(p), 1, 1)
          \/ NameData(p, s) = Emit(s.value + Offset(p), 1, 1)
      BY <2>3 DEF NameData
    <3> HIDE DEF size
    <3> QED
      BY <2>1, <2>3, <3>1, NamedGood
  <2> QED
    BY <2>2, <2>3
<1>4. ArgGood(p, PNameData(p, s))
  <2> DEFINE size == 2
  <2>1. size \in 1 .. 4
    OBVIOUS
  <2>2. CASE s.type = "NULL"
    <3>1. PNameData(p, s) = Refer("ABSOLUTE", size, size)
      BY <2>2 DEF PNameData, IsAddress
    <3> HIDE DEF size
    <3> QED
      BY <2>1, <3>1, NamedGood
  <2>3. CASE s.type # "NULL"
    <3>1. \/ PNameData(p, s) = Emit(Normalized(p, s.value) + Offset(p), size, size)
          \/ PNameData(p, s) = Emit(s.value + Offset(p), size, size)
          \/ PNameData(p, s) = Emit(s.value - 1 - Offset(p), 1, 1)
          \/ PNameData(p, s) = Emit(s.value + Offset(p), 1, 1)
      BY <2>3 DEF PNameData
    <3> HIDE DEF size
    <3> QED
      BY <2>1, <2>3, <3>1, NamedGood
  <2> QED
    BY <2>2, <2>3
<1> QED
  BY <1>1, <1>2, <1>3, <1>4

LEMMA NumberArgs ==
  ASSUME NEW p, p.type \in NumberForms => Value(p) \in Nat, Offset(p) \in Nat
  PROVE  ArgGood(p, NumberData(p))
<1>1. CASE p.type \in NumberForms
  <2> DEFINE sum == Value(p) + Offset(p)
             less == Value(p) - 1 - Offset(p)
  <2>1. sum \in Int /\ less \in Int
    BY <1>1
  <2>2. \E data \in {sum, less}, size \in {1, 2, 3} : NumberData(p) = Emit(data, size, size)
    BY <1>1 DEF NumberData, NumberForms, LongOrWord
  <2> QED
    BY <2>1, <2>2, EmitGood
<1>2. CASE p.type \notin NumberForms
  <2>1. NumberData(p) = Emit(0, 0, 0)
    BY <1>2 DEF NumberData, NumberForms
  <2> QED
    BY <2>1, EmitGood
<1> QED
  BY <1>1, <1>2

(* Whatever the operand, what it adds is data with the size of its         *)
(* reference, and the address is counted on by that size.                  *)
LEMMA ArgsGood ==
  ASSUME SymbolInv, NEW p, PatternGood(p), NEW behind \in Nat
  PROVE  ArgGood(p, addArgData(p, behind))
<1>1. Offset(p) \in Nat
  BY DEF PatternGood, Offset
<1>2. p.type \in NumberForms => Value(p) \in Nat
  BY DEF PatternGood, Value
<1>3. KnownOrNull(Operand(p))
  BY LookedUp DEF Operand
<1>4. CASE p.type \in NameForms
  <2>1. \/ addArgData(p, behind) = BranchData(Operand(p), behind)
        \/ addArgData(p, behind) = ImmNameData(p, Operand(p))
        \/ addArgData(p, behind) = NameData(p, Operand(p))
        \/ addArgData(p, behind) = PNameData(p, Operand(p))
    BY <1>4 DEF addArgData, NameForms
  <2> QED
    BY <1>1, <1>3, <1>4, <2>1, NameArgs
<1>5. CASE p.type \notin NameForms
  <2>1. addArgData(p, behind) = NumberData(p)
    BY <1>5 DEF addArgData, NameForms
  <2> QED
    BY <1>1, <1>2, <2>1, NumberArgs
<1> QED
  BY <1>4, <1>5

-----------------------------------------------------------------------------
(* A statement's bytes are the bytes that the abstract step appends.       *)
LEMMA AppendedIs ==
  ASSUME ObjectsTypeOK, segments # <<>>, NEW bytes \in Seq(Byte), addData(bytes)
  PROVE  Appended = bytes
<1> DEFINE old == segments[Newest].data
           new == segments'[Newest].data
<1>1. Newest \in DOMAIN segments /\ old \in Seq(Byte)
  BY Elements
<1>2. new = old \o bytes
  <2> DEFINE d == old \o bytes
             e == [segments[Newest] EXCEPT !.data = d]
  <2>1. segments' = [segments EXCEPT ![Newest] = e]
    BY DEF addData
  <2>2. segments[Newest] \in Segment
    BY <1>1, Elements
  <2> HIDE DEF d
  <2>3. e.data = d
    BY <2>2 DEF Segment
  <2> HIDE DEF e
  <2>4. segments'[Newest] = e
    BY <1>1, <2>1
  <2> QED
    BY <2>3, <2>4 DEF d
<1>3. Appended = SubSeq(new, Len(old) + 1, Len(new))
  BY DEF Appended
<1> HIDE DEF old, new
<1>4. SubSeq(old \o bytes, Len(old) + 1, Len(old \o bytes)) = bytes
  BY <1>1
<1> QED
  BY <1>2, <1>3, <1>4

(* Data with or without a reference to it is one abstract step.            *)
LEMMA AddsData ==
  ASSUME ObjectsTypeOK, segments # <<>>, NEW bytes \in Seq(Byte), addData(bytes), UNCHANGED object,
         curr_address' = curr_address + Len(bytes),
         \/ UNCHANGED references
         \/ \E r \in Reference : Referred(r) /\ references' = Append(references, r)
  PROVE  AppendData
<1>1. Appended = bytes
  BY AppendedIs
<1>2. ASSUME NEW r \in Reference, Referred(r), references' = Append(references, r)
      PROVE  \E q \in ToSet(references') : Referred(q) /\ references' = Append(references, q)
  <2>1. r \in ToSet(references')
    BY <1>2, AppendProperties, LenProperties DEF ObjectsTypeOK, ToSet
  <2> QED
    BY <1>2, <2>1
<1> QED
  BY <1>1, <1>2 DEF AppendData

(* A reference into the bytes that are added, and its record.              *)
LEMMA Refers ==
  ASSUME OInv, segments # <<>>, NEW bytes \in Seq(Byte), addData(bytes), UNCHANGED object,
         curr_address' = curr_address + Len(bytes),
         NEW type \in {"DATA", "RELATIVE", "ABSOLUTE"}, NEW name \in Names, NEW address \in Nat,
         NEW offset \in Nat, NEW size \in 1 .. 4, addReference(type, name, address, offset, size),
         curr_address <= address, address + size <= curr_address + Len(bytes)
  PROVE  AppendData
<1> DEFINE r == [object |-> object, type |-> type, name |-> name,
                 address |-> address, offset |-> offset, size |-> size]
<1>1. r \in Reference
  BY DEF OInv, ObjectsTypeOK, Reference
<1>2. Referred(r)
  BY <1>1 DEF Referred
<1>3. references' = Append(references, r)
  BY DEF addReference
<1> QED
  BY <1>1, <1>2, <1>3, AddsData DEF OInv

(* A new reference has its size, a branch the size one.                    *)
LEMMA SizedStays ==
  ASSUME ObjectsTypeOK, Sized, NEW type \in {"DATA", "RELATIVE", "ABSOLUTE"}, NEW name \in Names, NEW address \in Nat,
         NEW offset \in Nat, NEW size \in 1 .. 4, type = "RELATIVE" => size = 1,
         addReference(type, name, address, offset, size)
  PROVE  Sized'
<1> DEFINE r == [object |-> object, type |-> type, name |-> name,
                 address |-> address, offset |-> offset, size |-> size]
<1>1. r \in Reference /\ r.size = size /\ r.type = type
  BY DEF ObjectsTypeOK, Reference
<1>2. references' = Append(references, r)
  BY DEF addReference
<1> HIDE DEF r
<1>3. /\ Len(references') = Len(references) + 1 /\ references' \in Seq(Reference)
      /\ \A k \in 1 .. Len(references) : references'[k] = references[k]
      /\ references'[Len(references) + 1] = r
  BY <1>1, <1>2, AppendProperties DEF ObjectsTypeOK
<1>4. /\ DOMAIN references = 1 .. Len(references) /\ Len(references) \in Nat
      /\ DOMAIN references' = 1 .. Len(references) + 1
  BY <1>3, LenProperties, Elements
<1> SUFFICES ASSUME NEW k \in DOMAIN references'
             PROVE  references'[k].size \in 0 .. 4 /\ (references'[k].type = "RELATIVE" => references'[k].size = 1)
  BY DEF Sized
<1>5. CASE k \in DOMAIN references
  BY <1>3, <1>4, <1>5 DEF Sized
<1>6. CASE k = Len(references) + 1
  BY <1>1, <1>3, <1>6
<1> QED
  BY <1>4, <1>5, <1>6

-----------------------------------------------------------------------------
AInv == OInv /\ FrontInv

(* What a step of the parser has to leave right.                           *)
LEMMA ParserStep ==
  ASSUME AInv, pc = "parse", pc' \in {"parse", "undefined", "resolve"}, err' \in BOOLEAN,
         UNCHANGED <<program, output>>, TextInv', ItemInv', SymbolInv', Sized'
  PROVE  FrontInv'
<1>1. MainInv'
  BY DEF AInv, FrontInv, MainInv, Stopped
<1>2. LinkInv'
  BY DEF AInv, FrontInv, LinkInv
<1> QED
  BY <1>1, <1>2 DEF FrontInv

(* The next pattern leaves the tokens alone.                               *)
LEMMA TextStays ==
  ASSUME TextInv, NEW n \in Nat, nextPattern(n)
  PROVE  TextInv'
<1>1. UNCHANGED <<token, token_pos, pattern>> /\ pattern_pos' = pattern_pos + n
  BY DEF nextPattern
<1>2. pattern_pos' \in Nat \ {0}
  BY <1>1 DEF TextInv
<1> QED
  BY <1>1, <1>2 DEF TextInv, Fits

LEMMA TextSame ==
  ASSUME TextInv, UNCHANGED matcherVars
  PROVE  TextInv'
BY DEF TextInv, Fits, matcherVars

LEMMA SameReferences ==
  ASSUME Sized, UNCHANGED references
  PROVE  Sized'
BY DEF Sized

LEMMA SameSymbols ==
  ASSUME SymbolInv, UNCHANGED <<symbol, scope, exports>>
  PROVE  SymbolInv'
BY DEF SymbolInv

(* Only a line of data is passed item by item.                             *)
LEMMA NoItem ==
  ASSUME ItemInv, pc = "parse", pattern_pos <= Len(pattern) => pattern[pattern_pos].type \notin DOMAIN Sizes
  PROVE  item = 0
BY DEF ItemInv

LEMMA ItemZero == ASSUME item' = 0 PROVE ItemInv'
BY DEF ItemInv

(* The pattern at hand stands for its tokens.                              *)
LEMMA HerePattern ==
  ASSUME TextInv, pattern_pos <= Len(pattern)
  PROVE  pattern_pos \in DOMAIN pattern /\ PatternGood(curr_pattern)
<1>1. pattern_pos \in DOMAIN pattern
  BY LenProperties DEF TextInv
<1> QED
  BY <1>1, PatternTokens DEF curr_pattern

(* An error ends a line and leaves the objects alone.                      *)
LEMMA ErrorStep ==
  ASSUME AInv, pc = "parse", UNCHANGED <<program, output>>, NEW n \in Nat, Error(n)
  PROVE  FrontInv' /\ UNCHANGED objectVars
<1>1. /\ err' = TRUE /\ nextPattern(n) /\ item' = 0
      /\ UNCHANGED objectVars /\ UNCHANGED <<symbol, scope, exports>> /\ UNCHANGED pc /\ UNCHANGED references
  BY DEF Error, objectVars, instructionVars
<1>2. TextInv' /\ ItemInv' /\ SymbolInv' /\ Sized'
  BY <1>1, TextStays, ItemZero, SameSymbols, SameReferences DEF AInv, FrontInv
<1> QED
  BY <1>1, <1>2, ParserStep

(* So does the uninitialised argument list of error, where the run is      *)
(* over.                                                                   *)
LEMMA UndefinedStep ==
  ASSUME AInv, pc = "parse", UNCHANGED <<program, output>>, Undefined
  PROVE  FrontInv' /\ UNCHANGED objectVars
<1>1. /\ pc' = "undefined" /\ UNCHANGED matcherVars /\ UNCHANGED objectVars
      /\ UNCHANGED <<symbol, scope, exports>> /\ UNCHANGED item /\ UNCHANGED err /\ UNCHANGED references
  BY DEF Undefined, objectVars, instructionVars
<1>2. TextInv' /\ SymbolInv' /\ Sized'
  BY <1>1, TextSame, SameSymbols, SameReferences DEF AInv, FrontInv
<1>3. ItemInv'
  BY <1>1 DEF AInv, FrontInv, ItemInv, matcherVars
<1>4. err' \in BOOLEAN
  BY <1>1 DEF AInv, FrontInv, MainInv
<1> QED
  BY <1>1, <1>2, <1>3, <1>4, ParserStep

(* A symbol and an export have values.                                     *)
LEMMA SymbolAdded ==
  ASSUME SymbolInv, NEW type \in SymbolTypes, NEW name \in Names, NEW value \in Nat, NEW in \in Nat,
         addSymbol(type, name, value, in)
  PROVE  symbol' \in Seq(Symbol)
<1> DEFINE s == [type |-> type, name |-> name, value |-> value, scope |-> in]
<1>1. s \in Symbol
  BY DEF Symbol
<1>2. symbol' = Append(symbol, s)
  BY DEF addSymbol
<1> HIDE DEF s
<1> QED
  BY <1>1, <1>2, AppendProperties DEF SymbolInv

LEMMA ExportAdded ==
  ASSUME SymbolInv, ObjectsTypeOK, NEW name \in Names, addExportSymbol(name)
  PROVE  exports' \in Seq(Export)
<1> DEFINE e == [object |-> object, name |-> name, value |-> curr_address]
<1>1. e \in Export
  BY DEF Export, ObjectsTypeOK
<1>2. exports' = Append(exports, e)
  BY DEF addExportSymbol
<1> HIDE DEF e
<1> QED
  BY <1>1, <1>2, AppendProperties DEF SymbolInv

(* A name is opened or set to the present address, and maybe exported.     *)
LEMMA NamesPlace ==
  ASSUME AInv, pc = "parse", UNCHANGED <<program, output>>, pattern_pos <= Len(pattern),
         curr_pattern.type \notin DOMAIN Sizes, NEW name \in Names,
         OpenScope(name) \/ Labelled(name), addExportSymbol(name) \/ UNCHANGED exports
  PROVE  FrontInv' /\ UNCHANGED objectVars
<1>1. /\ nextPattern(1) /\ UNCHANGED objectVars /\ UNCHANGED pc /\ UNCHANGED item /\ UNCHANGED err
      /\ UNCHANGED references
  BY DEF OpenScope, Labelled, objectVars
<1>2. item' = 0
  BY <1>1, NoItem DEF AInv, FrontInv, curr_pattern
<1>3. curr_address \in Nat /\ scope \in Nat /\ Len(symbol) \in Nat
  BY LenProperties DEF AInv, FrontInv, SymbolInv, OInv, ObjectsTypeOK
<1>4. symbol' \in Seq(Symbol) /\ scope' \in Nat
  <2>1. CASE OpenScope(name)
    BY <1>3, <2>1, SymbolAdded DEF OpenScope, AInv, FrontInv, SymbolTypes
  <2>2. CASE Labelled(name)
    BY <1>3, <2>2, SymbolAdded DEF Labelled, AInv, FrontInv, SymbolTypes
  <2> QED
    BY <2>1, <2>2
<1>5. exports' \in Seq(Export)
  BY ExportAdded DEF AInv, FrontInv, OInv, SymbolInv
<1>6. TextInv' /\ ItemInv' /\ Sized'
  BY <1>1, <1>2, TextStays, ItemZero, SameReferences DEF AInv, FrontInv
<1>7. SymbolInv'
  BY <1>4, <1>5 DEF SymbolInv
<1>8. err' \in BOOLEAN
  BY <1>1 DEF AInv, FrontInv, MainInv
<1> QED
  BY <1>1, <1>6, <1>7, <1>8, ParserStep

(* What a handler knows when it is called.                                 *)
LEMMA ParsingIs ==
  ASSUME AInv, NEW types, Parsing(types)
  PROVE  /\ pc = "parse" /\ UNCHANGED <<program, output>> /\ pattern_pos <= Len(pattern)
         /\ curr_pattern.type \in types /\ PatternGood(curr_pattern)
BY HerePattern DEF Parsing, curr_pattern, AInv, FrontInv

LEMMA SizesAre == DOMAIN Sizes = {"BYTE", "WORD", "LONG", "QUAD"} /\ \A type \in DOMAIN Sizes : Sizes[type] \in 1 .. 4
BY DEF Sizes

(* The handlers that only name the current address.                        *)
LEMMA ParseNames ==
  ASSUME AInv, parseExportScope \/ parseScope \/ parseExportLabel \/ parseLabel
  PROVE  FrontInv' /\ UNCHANGED objectVars
<1>1. CASE parseExportScope
  <2>1. Parsing({"EXPORT_SCOPE"})
    BY <1>1 DEF parseExportScope
  <2>2. curr_pattern.type = "EXPORT_SCOPE" /\ curr_pattern.type \notin DOMAIN Sizes
    BY <2>1, ParsingIs, SizesAre
  <2>3. Tok(curr_pattern, 1).str \in Names
    BY <2>1, <2>2, ParsingIs DEF PatternGood
  <2> QED
    BY <1>1, <2>1, <2>2, <2>3, ParsingIs, ErrorStep, NamesPlace DEF parseExportScope
<1>2. CASE parseScope
  <2>1. Parsing({"SCOPE"})
    BY <1>2 DEF parseScope
  <2>2. curr_pattern.type = "SCOPE" /\ curr_pattern.type \notin DOMAIN Sizes
    BY <2>1, ParsingIs, SizesAre
  <2>3. Tok(curr_pattern, 0).str \in Names
    BY <2>1, <2>2, ParsingIs DEF PatternGood
  <2> QED
    BY <1>2, <2>1, <2>2, <2>3, ParsingIs, ErrorStep, NamesPlace DEF parseScope
<1>3. CASE parseExportLabel
  <2>1. Parsing({"EXPORT_LABEL"})
    BY <1>3 DEF parseExportLabel
  <2>2. curr_pattern.type = "EXPORT_LABEL" /\ curr_pattern.type \notin DOMAIN Sizes
    BY <2>1, ParsingIs, SizesAre
  <2>3. Tok(curr_pattern, 1).str \in Names
    BY <2>1, <2>2, ParsingIs DEF PatternGood
  <2> QED
    BY <1>3, <2>1, <2>2, <2>3, ParsingIs, ErrorStep, NamesPlace DEF parseExportLabel
<1>4. CASE parseLabel
  <2>1. Parsing({"LABEL"})
    BY <1>4 DEF parseLabel
  <2>2. curr_pattern.type = "LABEL" /\ curr_pattern.type \notin DOMAIN Sizes
    BY <2>1, ParsingIs, SizesAre
  <2>3. Tok(curr_pattern, 0).str \in Names
    BY <2>1, <2>2, ParsingIs DEF PatternGood
  <2> QED
    BY <1>4, <2>1, <2>2, <2>3, ParsingIs, ErrorStep, NamesPlace DEF parseLabel
<1> QED
  BY <1>1, <1>2, <1>3, <1>4

-----------------------------------------------------------------------------
LEMMA ParseEndscope ==
  ASSUME AInv, parseEndscope
  PROVE  FrontInv' /\ UNCHANGED objectVars
<1>1. Parsing({"ENDSCOPE"})
  BY DEF parseEndscope
<1>2. curr_pattern.type \notin DOMAIN Sizes
  BY <1>1, ParsingIs, SizesAre
<1>3. CASE scope = 0
  BY <1>1, <1>3, ParsingIs, ErrorStep DEF parseEndscope
<1>4. CASE scope # 0
  <2>1. /\ scope' = 0 /\ nextPattern(1) /\ UNCHANGED objectVars /\ UNCHANGED references
        /\ symbol' = symbol /\ pc' = pc /\ item' = item /\ exports' = exports /\ err' = err
    BY <1>4 DEF parseEndscope, objectVars
  <2>2. item' = 0
    BY <1>1, <1>2, <2>1, NoItem, ParsingIs DEF AInv, FrontInv, curr_pattern
  <2>3. TextInv' /\ ItemInv' /\ Sized'
    BY <2>1, <2>2, TextStays, ItemZero, SameReferences DEF AInv, FrontInv
  <2>4. SymbolInv' /\ err' \in BOOLEAN
    BY <2>1 DEF AInv, FrontInv, SymbolInv, MainInv
  <2> QED
    BY <1>1, <2>1, <2>3, <2>4, ParsingIs, ParserStep
<1> QED
  BY <1>3, <1>4

(* A name's definition, by the two patterns it takes.                      *)
LEMMA Defines ==
  ASSUME AInv, Parsing({"DEFINE"}), NEW type \in SymbolTypes, NEW value \in Nat,
         addSymbol(type, Tok(curr_pattern, 0).str, value, scope), nextPattern(2),
         UNCHANGED <<objectVars, scope, pc, item, exports, err>>
  PROVE  FrontInv' /\ UNCHANGED objectVars
<1>1. Tok(curr_pattern, 0).str \in Names /\ curr_pattern.type \notin DOMAIN Sizes
  BY ParsingIs, SizesAre DEF PatternGood
<1>2. /\ UNCHANGED objectVars /\ UNCHANGED references
      /\ scope' = scope /\ pc' = pc /\ item' = item /\ exports' = exports /\ err' = err
  BY DEF objectVars
<1>3. item' = 0
  BY <1>1, <1>2, NoItem, ParsingIs DEF AInv, FrontInv, curr_pattern
<1>4. TextInv' /\ ItemInv' /\ Sized'
  BY <1>2, <1>3, TextStays, ItemZero, SameReferences DEF AInv, FrontInv
<1>5. symbol' \in Seq(Symbol)
  BY <1>1, SymbolAdded DEF AInv, FrontInv, SymbolInv
<1>6. SymbolInv' /\ err' \in BOOLEAN
  BY <1>2, <1>5 DEF AInv, FrontInv, SymbolInv, MainInv
<1> QED
  BY <1>2, <1>4, <1>6, ParsingIs, ParserStep

LEMMA ParseDefine ==
  ASSUME AInv, parseDefine
  PROVE  FrontInv' /\ UNCHANGED objectVars
<1>1. Parsing({"DEFINE"})
  BY DEF parseDefine
<1>2. /\ pc = "parse" /\ UNCHANGED <<program, output>> /\ pattern_pos <= Len(pattern)
  BY <1>1, ParsingIs
<1>3. CASE pattern_pos = Len(pattern)
  BY <1>2, <1>3, ErrorStep, UndefinedStep DEF parseDefine, ErrorNaming
<1>4. CASE pattern_pos # Len(pattern)
  <2> DEFINE q == pattern[pattern_pos + 1]
  <2>1. pattern_pos + 1 \in DOMAIN pattern
    BY <1>2, <1>4, LenProperties DEF AInv, FrontInv, TextInv
  <2>2. PatternGood(q)
    BY <2>1, PatternTokens DEF AInv, FrontInv
  <2>3. CASE q.type \notin DOMAIN Definition
    BY <1>2, <1>4, <2>3, ErrorStep DEF parseDefine
  <2>4. CASE q.type \in DOMAIN Definition
    <3> DEFINE number == Tok(q, IF q.type = "NUMBER" THEN 0 ELSE 3).num
    <3>1. /\ addSymbol(Definition[q.type], Tok(curr_pattern, 0).str, number, scope)
          /\ nextPattern(2) /\ UNCHANGED <<objectVars, scope, pc, item, exports, err>>
      BY <1>4, <2>4 DEF parseDefine
    <3>2. Definition[q.type] \in SymbolTypes
      BY <2>4 DEF Definition, SymbolTypes
    <3>3. number \in Nat
      BY <2>2, <2>4 DEF Definition, PatternGood
    <3> HIDE DEF number, q
    <3> QED
      BY <1>1, <3>1, <3>2, <3>3, Defines
  <2> QED
    BY <2>3, <2>4
<1> QED
  BY <1>3, <1>4

(* An origin opens a segment.                                              *)
LEMMA ParseOrigin ==
  ASSUME AInv, parseOrigin
  PROVE  FrontInv' /\ ObjectNext
<1>1. /\ Parsing({"ORIGIN"}) /\ nextPattern(1) /\ UNCHANGED <<object, references>>
      /\ curr_address' = Tok(curr_pattern, 1).num /\ newSegment(curr_address')
  BY DEF parseOrigin
<1>2. curr_pattern.type = "ORIGIN" /\ curr_pattern.type \notin DOMAIN Sizes
  BY <1>1, ParsingIs, SizesAre
<1>3. Tok(curr_pattern, 1).num \in Nat
  BY <1>1, <1>2, ParsingIs DEF PatternGood
<1>4. ObjectNext
  BY <1>1, <1>3 DEF ObjectNext, BeginSegment
<1>5. /\ UNCHANGED references /\ UNCHANGED <<symbol, scope, exports>>
      /\ pc' = pc /\ item' = item /\ err' = err
  BY DEF parseOrigin, instructionVars
<1>6. item' = 0
  BY <1>1, <1>2, <1>5, NoItem, ParsingIs DEF AInv, FrontInv, curr_pattern
<1>7. TextInv' /\ ItemInv' /\ Sized' /\ SymbolInv'
  BY <1>1, <1>5, <1>6, TextStays, ItemZero, SameReferences, SameSymbols DEF AInv, FrontInv
<1>8. err' \in BOOLEAN
  BY <1>5 DEF AInv, FrontInv, MainInv
<1> QED
  BY <1>1, <1>4, <1>5, <1>7, <1>8, ParsingIs, ParserStep

LEMMA ParseInvalid ==
  ASSUME AInv, InvalidPattern
  PROVE  FrontInv' /\ UNCHANGED objectVars
BY ParsingIs, ErrorStep DEF InvalidPattern

LEMMA ParseEnds ==
  ASSUME AInv, Parsed
  PROVE  FrontInv' /\ UNCHANGED objectVars
<1>1. /\ pc = "parse" /\ pattern_pos > Len(pattern) /\ pc' = "resolve"
      /\ UNCHANGED matcherVars /\ UNCHANGED objectVars /\ UNCHANGED <<symbol, scope, exports>>
      /\ UNCHANGED <<program, output>> /\ item' = item /\ err' = err /\ UNCHANGED references
  BY DEF Parsed, instructionVars, objectVars
<1>2. ~(pattern_pos <= Len(pattern))
  BY <1>1, LenProperties DEF AInv, FrontInv, TextInv
<1>3. item' = 0
  BY <1>1, <1>2, NoItem DEF AInv, FrontInv
<1>4. TextInv' /\ ItemInv' /\ Sized' /\ SymbolInv'
  BY <1>1, <1>3, TextSame, ItemZero, SameReferences, SameSymbols DEF AInv, FrontInv
<1>5. err' \in BOOLEAN
  BY <1>1 DEF AInv, FrontInv, MainInv
<1> QED
  BY <1>1, <1>4, <1>5, ParserStep

-----------------------------------------------------------------------------
(* The data of a line ends with its newline.                               *)
LEMMA HereItem ==
  ASSUME AInv, Parsing(DOMAIN Sizes), NEW t, t = Tok(curr_pattern, 1 + item)
  PROVE  /\ t \in Token
         /\ t.type # "NEWLINE" => curr_pattern.at + 1 + (item + 1) <= Len(token)
<1> DEFINE p == curr_pattern
<1>1. PatternGood(p) /\ p.type \in DOMAIN Sizes /\ p.type \in {"BYTE", "WORD", "LONG", "QUAD"}
  BY ParsingIs, SizesAre
<1>2. p.at \in Nat \ {0} /\ item \in Nat /\ Len(token) \in Nat
  BY <1>1, LenProperties DEF PatternGood, AInv, FrontInv, ItemInv, TextInv
<1>3. p.at + 1 + item <= Len(token)
  <2>1. CASE item = 0
    BY <1>1, <1>2, <2>1 DEF PatternGood
  <2>2. CASE item # 0
    BY <2>2 DEF AInv, FrontInv, ItemInv, curr_pattern
  <2> QED
    BY <2>1, <2>2
<1>4. t = token[p.at + 1 + item]
  <2>1. p.at + (1 + item) = p.at + 1 + item
    BY <1>2
  <2> QED
    BY <2>1 DEF Tok
<1> HIDE DEF p
<1>5. p.at + 1 + item \in 1 .. Len(token)
  BY <1>2, <1>3
<1>6. t \in Token
  BY <1>4, <1>5, ElementOfSeq DEF AInv, FrontInv, TextInv
<1>7. ASSUME t.type # "NEWLINE"
      PROVE  p.at + 1 + (item + 1) <= Len(token)
  <2>1. token # <<>>
    BY <1>5, EmptySeq
  <2>2. p.at + 1 + item # Len(token)
    BY <1>4, <1>7, <2>1 DEF AInv, FrontInv, TextInv
  <2> QED
    BY <1>2, <1>3, <2>2
<1> QED
  BY <1>6, <1>7 DEF p

(* An item of a line of data is added and the line is not yet at its       *)
(* newline.                                                                *)
LEMMA ItemAdded ==
  ASSUME AInv, Parsing(DOMAIN Sizes), NEW t, t = Tok(curr_pattern, 1 + item), t.type # "NEWLINE",
         NEW bytes \in Seq(Byte), NEW by, segments # <<>>, AddItem(bytes, by), err' \in BOOLEAN, Sized',
         AppendData
  PROVE  FrontInv' /\ ObjectNext
<1>1. /\ UNCHANGED matcherVars /\ UNCHANGED <<symbol, scope, exports>> /\ pc' = pc /\ item' = item + 1
  BY DEF AddItem, instructionVars
<1>2. TextInv' /\ SymbolInv'
  BY <1>1, TextSame, SameSymbols DEF AInv, FrontInv
<1>3. curr_pattern.at + 1 + (item + 1) <= Len(token)
  BY HereItem
<1>4. ItemInv'
  BY <1>1, <1>3, ParsingIs DEF ItemInv, AInv, FrontInv, matcherVars, curr_pattern
<1> QED
  BY <1>1, <1>2, <1>4, ParsingIs, ParserStep DEF ObjectNext

-----------------------------------------------------------------------------
LEMMA ParseName ==
  ASSUME AInv, Parsing(DOMAIN Sizes), NEW t, t = Tok(curr_pattern, 1 + item), t.type = "NAME",
         segments # <<>>, NEW size \in 1 .. 4, parseName(t.str, size)
  PROVE  FrontInv' /\ [ObjectNext]_objectVars
<1> DEFINE s == lookupSymbol(t.str)
           zeros == Bytes(0, size)
<1>0. pc = "parse" /\ UNCHANGED <<program, output>> /\ err \in BOOLEAN
  BY ParsingIs DEF AInv, FrontInv, MainInv
<1>1. t.str \in Names
  BY HereItem, NameToken
<1>2. KnownOrNull(s)
  BY LookedUp DEF AInv, FrontInv
<1>3. zeros \in Seq(Byte) /\ Len(zeros) = size
  <2>1. 0 \in Int /\ size \in 0 .. 4
    OBVIOUS
  <2> QED
    BY <2>1, BytesType
<1>4. CASE s.type = "NULL"
  <2> DEFINE bytes == zeros \o zeros
  <2>1. bytes \in Seq(Byte) /\ Len(bytes) = size + size
    BY <1>3, ConcatProperties
  <2>2. addReference("DATA", t.str, curr_address, 0, size) /\ AddItem(bytes, size + size) /\ UNCHANGED err
    BY <1>4 DEF parseName
  <2> HIDE DEF bytes
  <2>3. addData(bytes) /\ UNCHANGED object /\ curr_address' = curr_address + Len(bytes)
    BY <2>1, <2>2 DEF AddItem
  <2>4. curr_address \in Nat
    BY DEF AInv, OInv, ObjectsTypeOK
  <2>5. AppendData
    BY <1>1, <2>1, <2>2, <2>3, <2>4, Refers DEF AInv
  <2>6. Sized'
    BY <1>1, <2>2, <2>4, SizedStays DEF AInv, FrontInv, OInv
  <2>7. err' \in BOOLEAN
    BY <1>0, <2>2
  <2> QED
    BY <2>1, <2>2, <2>5, <2>6, <2>7, ItemAdded
<1>5. CASE IsAddress(s) \/ s.type = "NUMBER"
  <2> DEFINE bytes == Bytes(s.value, size)
  <2>1. s.type # "NULL" /\ s.value \in Int /\ size \in 0 .. 4
    BY <1>2, <1>5 DEF KnownOrNull, IsAddress
  <2>2. AddItem(bytes, size) /\ UNCHANGED references /\ UNCHANGED err
    BY <1>5, <2>1 DEF parseName
  <2>3. bytes \in Seq(Byte) /\ Len(bytes) = size
    BY <2>1, BytesType
  <2> HIDE DEF bytes, s
  <2>4. addData(bytes) /\ UNCHANGED object /\ curr_address' = curr_address + Len(bytes)
    BY <2>2, <2>3 DEF AddItem
  <2>5. AppendData /\ Sized'
    BY <2>2, <2>3, <2>4, AddsData, SameReferences DEF AInv, OInv, FrontInv
  <2>6. err' \in BOOLEAN
    BY <1>0, <2>2
  <2> QED
    BY <2>2, <2>3, <2>5, <2>6, ItemAdded
<1>6. CASE s.type # "NULL" /\ ~IsAddress(s) /\ s.type # "NUMBER"
  <2>1. CASE Undefined
    BY <1>0, <2>1, UndefinedStep
  <2>2. CASE AddItem(zeros, size) /\ err' = TRUE /\ UNCHANGED references
    <3> HIDE DEF zeros, s
    <3>1. addData(zeros) /\ UNCHANGED object /\ curr_address' = curr_address + Len(zeros)
      BY <1>3, <2>2 DEF AddItem
    <3>2. AppendData /\ Sized'
      BY <1>3, <2>2, <3>1, AddsData, SameReferences DEF AInv, OInv, FrontInv
    <3> QED
      BY <1>3, <2>2, <3>2, ItemAdded
  <2>3. Undefined \/ (AddItem(zeros, size) /\ err' = TRUE /\ UNCHANGED references)
    BY <1>6 DEF parseName
  <2> QED
    BY <2>1, <2>2, <2>3
<1> QED
  BY <1>4, <1>5, <1>6

LEMMA ParseData ==
  ASSUME AInv, parseData
  PROVE  FrontInv' /\ [ObjectNext]_objectVars
<1> DEFINE t == Tok(curr_pattern, 1 + item)
<1>1. Parsing(DOMAIN Sizes)
  BY DEF parseData
<1>2. pc = "parse" /\ UNCHANGED <<program, output>> /\ err \in BOOLEAN
  BY <1>1, ParsingIs DEF AInv, FrontInv, MainInv
<1>3. t \in Token
  BY <1>1, HereItem
<1>4. Sizes[curr_pattern.type] \in 1 .. 4
  BY <1>1, ParsingIs, SizesAre
<1>5. CASE t.type = "NEWLINE"
  <2>1. /\ nextPattern(1) /\ item' = 0 /\ UNCHANGED objectVars /\ UNCHANGED references
        /\ UNCHANGED <<symbol, scope, exports>> /\ pc' = pc /\ err' = err
    BY <1>5 DEF parseData, objectVars, instructionVars, Numbers
  <2>2. TextInv' /\ ItemInv' /\ Sized' /\ SymbolInv'
    BY <2>1, TextStays, ItemZero, SameReferences, SameSymbols DEF AInv, FrontInv
  <2> QED
    BY <1>2, <2>1, <2>2, ParserStep
<1>6. CASE t.type \in Numbers \cup {"NAME"} /\ no_origin
  <2>1. Undefined
    BY <1>6 DEF parseData, Numbers
  <2> QED
    BY <1>2, <2>1, UndefinedStep
<1>7. CASE t.type \in Numbers /\ ~no_origin
  <2> DEFINE size == Sizes[curr_pattern.type]
             bytes == Bytes(t.num, size)
  <2>1. t.type # "NEWLINE" /\ t.num \in Int /\ size \in 0 .. 4
    <3>1. t.num \in Nat
      BY <1>3, <1>7, NumberToken
    <3> QED
      BY <1>4, <1>7, <3>1 DEF Numbers
  <2>2. AddItem(bytes, size) /\ UNCHANGED references /\ UNCHANGED err
    BY <1>7, <2>1 DEF parseData, Numbers
  <2>3. bytes \in Seq(Byte) /\ Len(bytes) = size
    BY <2>1, BytesType
  <2> HIDE DEF bytes, t, size
  <2>4. /\ addData(bytes) /\ UNCHANGED object /\ segments # <<>>
        /\ curr_address' = curr_address + Len(bytes)
    BY <1>7, <2>2, <2>3 DEF AddItem, no_origin
  <2>5. AppendData /\ Sized'
    BY <2>2, <2>3, <2>4, AddsData, SameReferences DEF AInv, OInv, FrontInv
  <2>6. err' \in BOOLEAN
    BY <1>2, <2>2
  <2> USE DEF t
  <2> QED
    BY <1>1, <2>1, <2>2, <2>3, <2>4, <2>5, <2>6, ItemAdded
<1>8. CASE t.type = "NAME" /\ ~no_origin
  <2>1. parseName(t.str, Sizes[curr_pattern.type])
    BY <1>8 DEF parseData, Numbers
  <2> QED
    BY <1>1, <1>4, <1>8, <2>1, ParseName DEF no_origin
<1>9. CASE t.type \notin Numbers \cup {"NAME", "NEWLINE"}
  <2>1. ErrorNaming(1)
    BY <1>9 DEF parseData
  <2> QED
    BY <1>2, <2>1, ErrorStep, UndefinedStep DEF ErrorNaming
<1> QED
  BY <1>5, <1>6, <1>7, <1>8, <1>9

(* A string is added with its zero.                                        *)
LEMMA ParseStrz ==
  ASSUME AInv, parseStrz
  PROVE  FrontInv' /\ [ObjectNext]_objectVars
<1>1. Parsing({"STRZ"})
  BY DEF parseStrz
<1>2. pc = "parse" /\ UNCHANGED <<program, output>> /\ err \in BOOLEAN /\ curr_pattern.type \notin DOMAIN Sizes
  BY <1>1, ParsingIs, SizesAre DEF AInv, FrontInv, MainInv
<1>3. CASE ErrorNaming(1)
  BY <1>2, <1>3, ErrorStep, UndefinedStep DEF ErrorNaming
<1>4. CASE Undefined
  BY <1>2, <1>4, UndefinedStep
<1>5. CASE /\ segments # <<>> /\ addData(<<0>>) /\ curr_address' = curr_address + 1 /\ nextPattern(1)
           /\ UNCHANGED <<object, references, instructionVars, pc, item, exports, err>>
  <2>1. /\ UNCHANGED object /\ UNCHANGED references /\ UNCHANGED <<symbol, scope, exports>>
        /\ pc' = pc /\ item' = item /\ err' = err
    BY <1>5 DEF instructionVars
  <2>2. <<0>> \in Seq(Byte) /\ Len(<<0>>) = 1
    BY DEF Byte
  <2>3. item' = 0
    BY <1>1, <1>2, <2>1, NoItem, ParsingIs DEF AInv, FrontInv, curr_pattern
  <2>4. AppendData
    BY <1>5, <2>1, <2>2, AddsData DEF AInv, OInv
  <2>5. TextInv' /\ ItemInv' /\ Sized' /\ SymbolInv'
    BY <1>5, <2>1, <2>3, TextStays, ItemZero, SameReferences, SameSymbols DEF AInv, FrontInv
  <2> QED
    BY <1>2, <2>1, <2>4, <2>5, ParserStep DEF ObjectNext
<1> QED
  BY <1>3, <1>4, <1>5 DEF parseStrz, no_origin

(* An instruction line is none of the other lines.                         *)
LEMMA InstructionTypes ==
  /\ {row[1] : row \in ToSet(Operands) \cup ToSet(Registers)} \cap LineTypes = {}
  /\ DOMAIN Sizes \subseteq LineTypes
<1>1. ASSUME NEW row \in ToSet(Operands) \cup ToSet(Registers)
      PROVE  row[1] \notin LineTypes
  BY LinesDistinct DEF ToSet
<1> QED
  BY <1>1, SizesAre DEF LineTypes

(* An instruction adds its opcode and its operand as one piece of data.    *)
LEMMA ParseIns ==
  ASSUME AInv, parseIns
  PROVE  FrontInv' /\ [ObjectNext]_objectVars
<1> DEFINE p == curr_pattern
           op == getOpcode(p)
           behind == curr_address + 1
           arg == addArgData(p, behind)
           name == Tok(p, Width(p)).str
<1>1. Parsing({row[1] : row \in ToSet(Operands) \cup ToSet(Registers)})
  BY DEF parseIns
<1>2. /\ pc = "parse" /\ UNCHANGED <<program, output>> /\ err \in BOOLEAN
      /\ p.type \notin DOMAIN Sizes /\ PatternGood(p)
  BY <1>1, ParsingIs, InstructionTypes DEF AInv, FrontInv, MainInv
<1>3. CASE ErrorNaming(1)
  BY <1>2, <1>3, ErrorStep, UndefinedStep DEF ErrorNaming
<1>4. CASE Undefined
  BY <1>2, <1>4, UndefinedStep
<1> DEFINE bytes == <<op>> \o Bytes(arg.data, arg.size)
<1>5. CASE /\ op # NoOpcode /\ segments # <<>> /\ addData(bytes) /\ curr_address' = behind + arg.by
           /\ IF arg.ref = "NONE" THEN UNCHANGED references
              ELSE addReference(arg.ref, name, behind, Offset(p), arg.size)
           /\ err' = (err \/ ~arg.ok) /\ nextPattern(1)
           /\ UNCHANGED <<object, instructionVars, pc, item, exports>>
  <2>1. curr_address \in Nat /\ behind \in Nat
    BY DEF AInv, OInv, ObjectsTypeOK
  <2>2. ArgGood(p, arg)
    BY <1>2, <2>1, ArgsGood DEF AInv, FrontInv
  <2>3. op \in Byte
    BY <1>5, OpcodeByte DEF getOpcode
  <2> DEFINE head == <<op>>
             tail == Bytes(arg.data, arg.size)
  <2>4. head \in Seq(Byte) /\ Len(head) = 1
    <3> HIDE DEF op
    <3> QED
      BY <2>3
  <2>5. tail \in Seq(Byte) /\ Len(tail) = arg.size
    BY <2>2, BytesType DEF ArgGood
  <2>6. bytes = head \o tail
    OBVIOUS
  <2>7. /\ UNCHANGED object /\ UNCHANGED <<symbol, scope, exports>>
        /\ pc' = pc /\ item' = item
    BY <1>5 DEF instructionVars
  <2>8. item' = 0
    BY <1>1, <1>2, <2>7, NoItem, ParsingIs DEF AInv, FrontInv, curr_pattern
  <2>9. Offset(p) \in Nat
    BY <1>2 DEF PatternGood, Offset
  <2>10. p.type \in NameForms => name \in Names
    BY <1>2 DEF PatternGood
  <2>11. addData(bytes) /\ segments # <<>>
    BY <1>5
  <2>16. arg.size \in Nat /\ arg.by = arg.size
    BY <2>2 DEF ArgGood
  <2>17. behind = curr_address + 1 /\ curr_address' = behind + arg.by
    BY <1>5
  <2> HIDE DEF head, tail, arg, op, p, bytes, name, behind
  <2>12. bytes \in Seq(Byte) /\ Len(bytes) = 1 + arg.size
    <3>1. head \o tail \in Seq(Byte) /\ Len(head \o tail) = Len(head) + Len(tail)
      BY <2>4, <2>5, ConcatProperties
    <3> QED
      BY <2>4, <2>5, <2>6, <3>1
  <2>18. curr_address' = curr_address + Len(bytes)
    BY <2>1, <2>12, <2>16, <2>17
  <2>13. AppendData /\ Sized'
    <3>1. CASE arg.ref = "NONE"
      <4>1. UNCHANGED references
        BY <1>5, <3>1
      <4> QED
        BY <2>7, <2>11, <2>12, <2>18, <4>1, AddsData, SameReferences DEF AInv, OInv, FrontInv
    <3>2. CASE arg.ref # "NONE"
      <4>1. addReference(arg.ref, name, behind, Offset(p), arg.size)
        BY <1>5, <3>2
      <4>2. /\ name \in Names /\ arg.ref \in {"DATA", "RELATIVE", "ABSOLUTE"} /\ arg.size \in 1 .. 4
            /\ arg.ref = "RELATIVE" => arg.size = 1
        BY <2>2, <2>10, <3>2 DEF ArgGood
      <4>3. curr_address <= behind /\ behind + arg.size <= curr_address + Len(bytes)
        BY <2>1, <2>12, <2>16, <2>17
      <4>4. AppendData
        BY <2>1, <2>7, <2>9, <2>11, <2>12, <2>18, <4>1, <4>2, <4>3, Refers DEF AInv
      <4> QED
        BY <2>1, <2>9, <4>1, <4>2, <4>4, SizedStays DEF AInv, FrontInv, OInv
    <3> QED
      BY <3>1, <3>2
  <2>14. TextInv' /\ ItemInv' /\ SymbolInv'
    BY <1>5, <2>7, <2>8, TextStays, ItemZero, SameSymbols DEF AInv, FrontInv
  <2>15. err' \in BOOLEAN
    BY <1>5
  <2> QED
    BY <1>2, <2>7, <2>13, <2>14, <2>15, ParserStep DEF ObjectNext
<1> QED
  BY <1>3, <1>4, <1>5 DEF parseIns, no_origin

-----------------------------------------------------------------------------
(* The lexer's tokens and the matcher.                                     *)
LEMMA EarlyStep ==
  ASSUME AInv, pc \in {"file", "match", "parse", "resolve"},
         pc' \in {"file", "match", "parse", "resolve", "link", "failed", "undefined"}, err' \in BOOLEAN,
         UNCHANGED <<program, output>>, TextInv', ItemInv', SymbolInv', Sized'
  PROVE  FrontInv'
<1>1. MainInv'
  BY DEF AInv, FrontInv, MainInv, Stopped
<1>2. LinkInv'
  BY DEF AInv, FrontInv, LinkInv
<1> QED
  BY <1>1, <1>2 DEF FrontInv

(* A file is read as what the lexer makes of it.                           *)
LEMMA Lexed ==
  ASSUME AInv, lexFileIntoTokens
  PROVE  FrontInv' /\ UNCHANGED objectVars
<1> DEFINE file == Files(program)[object + 1]
<1>1. /\ pc = "file" /\ pc' = "match" /\ object < Len(Files(program)) /\ matchTokens(file)
      /\ UNCHANGED objectVars /\ UNCHANGED <<symbol, scope, exports>> /\ UNCHANGED <<program, output>>
      /\ UNCHANGED references /\ item' = item /\ err' = err
  BY DEF lexFileIntoTokens, objectVars, instructionVars
<1>2. program \in Programs /\ object \in Nat /\ err \in BOOLEAN
  BY DEF AInv, FrontInv, MainInv, OInv, ObjectsTypeOK
<1>3. Files(program) \in Seq(Seq(Token))
  BY <1>2, FilesAssumption
<1>4. object + 1 \in DOMAIN Files(program) /\ object + 1 \in 1 .. Len(Files(program))
  BY <1>1, <1>2, <1>3, LenProperties
<1>5. file \in Seq(Token)
  BY <1>3, <1>4, ElementOfSeq
<1>6. file # <<>> /\ file[Len(file)].type = "NEWLINE"
  BY <1>2, <1>4, FilesAssumption
<1> HIDE DEF file
<1>7. token' = file /\ token_pos' = 1 /\ pattern' = <<>> /\ pattern_pos' = 1
  BY <1>1 DEF matchTokens
<1>8. TextInv'
  <2>1. pattern' \in Seq(Pattern) /\ DOMAIN pattern' = {}
    BY <1>7, EmptySeq
  <2> QED
    BY <1>5, <1>6, <1>7, <2>1 DEF TextInv
<1>9. item' = 0
  BY <1>1 DEF AInv, FrontInv, ItemInv
<1>10. ItemInv' /\ SymbolInv' /\ Sized' /\ err' \in BOOLEAN
  BY <1>1, <1>2, <1>9, ItemZero, SameReferences, SameSymbols DEF AInv, FrontInv
<1> QED
  BY <1>1, <1>8, <1>10, EarlyStep

(* The table has a length, and so a last row.                              *)
LEMMA RowsList ==
  ASSUME NEW n \in Nat, NEW table, IsList(table, n), NEW off, NEW before, NEW behind
  PROVE  IsList(Rows(table, off, before, behind), n)
<1> DEFINE rows == Rows(table, off, before, behind)
<1>1. PICK T : table \in Seq(T) /\ Len(table) = n
  BY DEF IsList
<1>2. rows = Rows(table, off, before, behind)
  OBVIOUS
<1>3. DOMAIN table = 1 .. n
  BY <1>1, LenProperties
<1>4. rows = [i \in DOMAIN table |-> Row(table, i, off, before, behind)]
  BY DEF Rows, Row
<1>5. rows \in [1 .. n -> ToSet(rows)]
  BY <1>3, <1>4 DEF ToSet
<1> HIDE DEF rows
<1>6. rows \in Seq(ToSet(rows)) /\ Len(rows) = n
  <2> DEFINE S == ToSet(rows)
  <2>1. rows \in [1 .. n -> S]
    BY <1>5
  <2> HIDE DEF S
  <2>2. rows \in Seq(S) /\ Len(rows) = n
    BY <2>1, FunctionIsSeq
  <2> QED
    BY <2>2 DEF S
<1> QED
  BY <1>6 DEF IsList, rows

LEMMA TableList == DOMAIN PAT_TOK_TBL = 1 .. Len(PAT_TOK_TBL) /\ Len(PAT_TOK_TBL) \in Nat
<1> DEFINE ins == <<"INS">>
           nl == <<"NEWLINE">>
           more == <<"PLUS", "HASH", "NUMBER", "NEWLINE">>
           none == <<>>
           no == FALSE
           a == Rows(Operands, no, ins, nl)
           b == Rows(Operands, TRUE, ins, more)
           c == Rows(Registers, no, ins, nl)
           d == Rows(Lines, no, none, none)
<1>1. PAT_TOK_TBL = ((a \o b) \o c) \o d
  BY DEF PAT_TOK_TBL
<1>2. IsList(Operands, 9) /\ IsList(Registers, 16) /\ IsList(Lines, 18)
  BY TablesAreSequences DEF IsList
<1>3. IsList(a, 9) /\ IsList(b, 9) /\ IsList(c, 16) /\ IsList(d, 18)
  <2> HIDE DEF ins, nl, more, none, no
  <2> QED
    BY <1>2, RowsList
<1> HIDE DEF a, b, c, d
<1>4. IsList(a \o b, 18)
  BY <1>3, ListsJoin
<1>5. IsList((a \o b) \o c, 34)
  BY <1>3, <1>4, ListsJoin
<1>6. IsList(((a \o b) \o c) \o d, 52)
  BY <1>3, <1>5, ListsJoin
<1>7. IsList(PAT_TOK_TBL, 52)
  BY <1>1, <1>6
<1> QED
  BY <1>7, LenProperties DEF IsList

LineKinds == {"NAME", "EQUALS", "EXPORT", "LBRACE", "NEWLINE", "RBRACE", "ORIGIN", "HEX", "BYTE", "WORD",
              "LONG", "QUAD", "STRZ", "STRING", "NUMBER", "B", "PLUS", "HASH", "MINUS", "P"}
LineText(i) == Lines[i][2] \in Seq(LineKinds)

LEMMA LineTexts == \A i \in DOMAIN Lines : LineText(i)
<1>1. DOMAIN Lines = 1 .. 18
  BY TablesAreSequences
<1>2. LineText(1) /\ LineText(2) /\ LineText(3) /\ LineText(4) /\ LineText(5) /\ LineText(6)
  BY DEF Lines, LineText, LineKinds
<1>3. LineText(7) /\ LineText(8) /\ LineText(9) /\ LineText(10) /\ LineText(11) /\ LineText(12)
  BY DEF Lines, LineText, LineKinds
<1>4. LineText(13) /\ LineText(14) /\ LineText(15) /\ LineText(16) /\ LineText(17) /\ LineText(18)
  BY DEF Lines, LineText, LineKinds
<1> QED
  BY <1>1, <1>2, <1>3, <1>4

LEMMA RowLengths == \A k \in DOMAIN PAT_TOK_TBL : Len(PAT_TOK_TBL[k].token) \in Nat
<1> SUFFICES ASSUME NEW k \in DOMAIN PAT_TOK_TBL
             PROVE  Len(PAT_TOK_TBL[k].token) \in Nat
  OBVIOUS
<1> DEFINE S == Kinds \cup LineKinds \cup {"INS"}
           row == PAT_TOK_TBL[k]
<1>1. ASSUME NEW a, a \in Seq(S), NEW b, b \in Seq(S), NEW c, c \in Seq(S)
      PROVE  Len(a \o b \o c) \in Nat
  <2> HIDE DEF S
  <2>1. a \o b \in Seq(S)
    BY <1>1, ConcatProperties
  <2>2. a \o b \o c \in Seq(S)
    BY <1>1, <2>1, ConcatProperties
  <2> QED
    BY <2>2, LenProperties
<1>2. <<"INS">> \in Seq(S) /\ <<"NEWLINE">> \in Seq(S) /\ <<>> \in Seq(S)
  BY DEF LineKinds
<1>3. \A off \in BOOLEAN : Behind(off) \in Seq(S)
  <2>1. <<"PLUS", "HASH", "NUMBER", "NEWLINE">> \in Seq(S) /\ <<"NEWLINE">> \in Seq(S)
    BY DEF LineKinds
  <2> HIDE DEF S
  <2> QED
    BY <2>1 DEF Behind
<1>4. /\ \A i \in DOMAIN Operands : Operands[i][2] \in Seq(S)
      /\ \A i \in DOMAIN Registers : Registers[i][2] \in Seq(S)
      /\ \A i \in DOMAIN Lines : Lines[i][2] \in Seq(S)
  <2>1. /\ \A i \in DOMAIN Operands : Operands[i][2] \in Seq(Kinds)
        /\ \A i \in DOMAIN Registers : Registers[i][2] \in Seq(Kinds)
        /\ \A i \in DOMAIN Lines : Lines[i][2] \in Seq(LineKinds)
    BY OperandShapes, RegisterShapes, LineTexts DEF OperandShape, RegisterShape, FormShape, LineText
  <2>2. ASSUME NEW t PROVE (t \in Seq(Kinds) => t \in Seq(S)) /\ (t \in Seq(LineKinds) => t \in Seq(S))
    OBVIOUS
  <2> HIDE DEF S
  <2> QED
    BY <2>1, <2>2
<1> HIDE DEF S
<1>5. CASE \E i \in DOMAIN Operands, off \in BOOLEAN :
             PAT_TOK_TBL[k] = Row(Operands, i, off, <<"INS">>, Behind(off))
  <2>1. PICK i \in DOMAIN Operands, off \in BOOLEAN :
          PAT_TOK_TBL[k] = Row(Operands, i, off, <<"INS">>, Behind(off))
    BY <1>5
  <2>2. PAT_TOK_TBL[k].token = <<"INS">> \o Operands[i][2] \o Behind(off)
    BY <2>1 DEF Row
  <2> QED
    BY <1>1, <1>2, <1>3, <1>4, <2>2
<1>6. CASE \E i \in DOMAIN Registers : PAT_TOK_TBL[k] = Row(Registers, i, FALSE, <<"INS">>, <<"NEWLINE">>)
  <2> DEFINE no == FALSE
  <2>1. PICK i \in DOMAIN Registers : PAT_TOK_TBL[k] = Row(Registers, i, no, <<"INS">>, <<"NEWLINE">>)
    BY <1>6
  <2> HIDE DEF no
  <2>2. PAT_TOK_TBL[k].token = <<"INS">> \o Registers[i][2] \o <<"NEWLINE">>
    BY <2>1 DEF Row
  <2> QED
    BY <1>1, <1>2, <1>4, <2>2
<1>7. CASE \E i \in DOMAIN Lines : PAT_TOK_TBL[k] = Row(Lines, i, FALSE, <<>>, <<>>)
  <2> DEFINE no == FALSE
             none == <<>>
  <2>1. PICK i \in DOMAIN Lines : PAT_TOK_TBL[k] = Row(Lines, i, no, none, none)
    BY <1>7
  <2>2. none \in Seq(S)
    BY <1>2
  <2> HIDE DEF no, none
  <2>3. PAT_TOK_TBL[k].token = none \o Lines[i][2] \o none
    BY <2>1 DEF Row
  <2> QED
    BY <1>1, <1>4, <2>2, <2>3
<1> QED
  BY <1>5, <1>6, <1>7, TableRows

-----------------------------------------------------------------------------
(* A line is discarded up to some token, or the end.                       *)
LEMMA Discards ==
  ASSUME TextInv, NEW from \in Nat \ {0}
  PROVE  discardLine(from) \in Nat \ {0}
<1> DEFINE rest == SubSeq(token, from, Len(token))
           I == {i \in 1 .. Len(rest) : rest[i].type = "NEWLINE"}
           n == IF I # {} THEN Min(I) ELSE 0
<1>1. Len(token) \in Nat /\ \A i \in from .. Len(token) : token[i] \in Token
  BY LenProperties, ElementOfSeq DEF TextInv
<1>2. Len(rest) \in Nat
  BY <1>1, SubSeqProperties
<1>3. n \in 0 .. Len(rest)
  <2>1. I \in SUBSET (1 .. Len(rest))
    OBVIOUS
  <2> HIDE DEF I
  <2> QED
    BY <1>2, <2>1, FirstOf
<1>4. discardLine(from) = IF n = 0 THEN Len(token) + 1 ELSE from + n
  BY Zenon DEF discardLine, SelectInSeq
<1> HIDE DEF n
<1> QED
  BY <1>1, <1>2, <1>3, <1>4

(* The matcher picks a row that matches.                                   *)
LEMMA MatchPicks ==
  /\ matchPattern \in 0 .. Len(PAT_TOK_TBL)
  /\ matchPattern # 0 => matchPattern \in DOMAIN PAT_TOK_TBL /\ Matches(PAT_TOK_TBL[matchPattern])
<1> DEFINE I == {i \in 1 .. Len(PAT_TOK_TBL) : Matches(PAT_TOK_TBL[i])}
           k == IF I # {} THEN Min(I) ELSE 0
<1>1. matchPattern = k
  BY Zenon DEF matchPattern, SelectInSeq
<1>2. k \in 0 .. Len(PAT_TOK_TBL) /\ (k # 0 => k \in I)
  <2>1. I \in SUBSET (1 .. Len(PAT_TOK_TBL))
    OBVIOUS
  <2> HIDE DEF I
  <2> QED
    BY <2>1, TableList, FirstOf
<1> HIDE DEF k
<1> QED
  BY <1>1, <1>2, TableList

(* A match leaves a pattern that stands for the tokens of its row.         *)
LEMMA Matching ==
  ASSUME AInv, Match
  PROVE  FrontInv' /\ UNCHANGED objectVars
<1>1. /\ pc = "match" /\ pc' = pc /\ UNCHANGED objectVars /\ UNCHANGED <<symbol, scope, exports>>
      /\ UNCHANGED <<program, output>> /\ UNCHANGED references /\ item' = item
      /\ \/ matchNewline /\ UNCHANGED err
         \/ matchTokensIntoPatterns /\ err' = (err \/ Mismatch)
  BY DEF Match, objectVars, instructionVars
<1>2. item' = 0 /\ err \in BOOLEAN /\ err' \in BOOLEAN
  BY <1>1 DEF AInv, FrontInv, ItemInv, MainInv
<1>3. ItemInv' /\ SymbolInv' /\ Sized'
  BY <1>1, <1>2, ItemZero, SameReferences, SameSymbols DEF AInv, FrontInv
<1>4. CASE matchNewline
  <2>1. UNCHANGED <<token, pattern, pattern_pos>> /\ token_pos' = token_pos + 1
    BY <1>4 DEF matchNewline
  <2>2. TextInv'
    BY <2>1 DEF AInv, FrontInv, TextInv, Fits
  <2> QED
    BY <1>1, <1>2, <1>3, <2>2, EarlyStep
<1>5. CASE matchTokensIntoPatterns
  <2> DEFINE k == matchPattern
             row == PAT_TOK_TBL[k]
             end == token_pos + Len(row.token)
             p == [type |-> row.type, off |-> row.off, at |-> token_pos]
  <2>1. TextInv /\ token_pos \in Nat \ {0}
    BY DEF AInv, FrontInv, TextInv
  <2>2. UNCHANGED <<token, pattern_pos>>
    BY <1>5 DEF matchTokensIntoPatterns
  <2>3. CASE k = 0
    <3>1. token_pos' = discardLine(token_pos + 1) /\ UNCHANGED pattern
      BY <1>5, <2>3 DEF matchTokensIntoPatterns
    <3>2. token_pos' \in Nat \ {0}
      BY <2>1, <3>1, Discards
    <3>3. TextInv'
      BY <2>1, <2>2, <3>1, <3>2 DEF TextInv, Fits
    <3> QED
      BY <1>1, <1>2, <1>3, <3>3, EarlyStep
  <2>4. CASE k # 0
    <3>1. k \in DOMAIN PAT_TOK_TBL /\ Matches(row)
      BY <2>4, MatchPicks
    <3>2. end \in Nat \ {0}
      BY <2>1, <3>1, RowLengths
    <3>3. /\ pattern' = Append(pattern, p)
          /\ token_pos' = IF row.type \in Discarded THEN discardLine(end) ELSE end
      BY <1>5, <2>4 DEF matchTokensIntoPatterns
    <3>4. token_pos' \in Nat \ {0}
      BY <2>1, <3>2, <3>3, Discards
    <3>5. p \in Pattern
      BY <2>1, <3>1 DEF Pattern, ToSet
    <3>6. p.type = row.type /\ p.off = row.off /\ p.at = token_pos
      OBVIOUS
    <3>7. Fits(p)
      <4>1. \A j \in DOMAIN row.token :
              /\ p.at + j - 1 <= Len(token)
              /\ Stands(token[p.at + j - 1], row.token[j])
        BY <3>1, <3>6 DEF Matches, Stands
      <4> HIDE DEF p
      <4> QED
        BY <3>1, <3>6, <4>1 DEF Fits
    <3> HIDE DEF p
    <3>8. /\ pattern' \in Seq(Pattern) /\ Len(pattern') = Len(pattern) + 1
          /\ \A i \in 1 .. Len(pattern) : pattern'[i] = pattern[i]
          /\ pattern'[Len(pattern) + 1] = p
      BY <2>1, <3>3, <3>5, AppendProperties DEF TextInv
    <3>9. \A i \in DOMAIN pattern' : Fits(pattern'[i])
      <4>1. DOMAIN pattern = 1 .. Len(pattern) /\ Len(pattern) \in Nat /\ DOMAIN pattern' = 1 .. Len(pattern) + 1
        BY <2>1, <3>8, LenProperties DEF TextInv
      <4>2. \A i \in DOMAIN pattern : Fits(pattern[i])
        BY <2>1 DEF TextInv
      <4> QED
        BY <3>7, <3>8, <4>1, <4>2
    <3>10. TextInv'
      BY <2>1, <2>2, <3>4, <3>8, <3>9 DEF TextInv, Fits
    <3> QED
      BY <1>1, <1>2, <1>3, <3>10, EarlyStep
  <2> QED
    BY <2>3, <2>4
<1> QED
  BY <1>1, <1>4, <1>5

(* When the tokens are used up the parser begins with a new object.        *)
LEMMA MatchEnds ==
  ASSUME AInv, Matched
  PROVE  FrontInv' /\ [ObjectNext]_objectVars
<1>1. /\ pc = "match" /\ pc' \in {"failed", "parse"} /\ UNCHANGED matcherVars
      /\ UNCHANGED <<program, output>> /\ UNCHANGED references
      /\ scope' = scope /\ exports' = exports /\ item' = item /\ err' = err
      /\ symbol' = symbol \/ symbol' = <<>>
      /\ newObject \/ UNCHANGED objectVars
  BY DEF Matched, objectVars, newObject
<1>2. item' = 0 /\ err' \in BOOLEAN
  BY <1>1 DEF AInv, FrontInv, ItemInv, MainInv
<1>3. SymbolInv'
  <2>1. symbol' \in Seq(Symbol)
    BY <1>1, EmptySeq DEF AInv, FrontInv, SymbolInv
  <2> QED
    BY <1>1, <2>1 DEF AInv, FrontInv, SymbolInv
<1>4. TextInv' /\ ItemInv' /\ Sized'
  BY <1>1, <1>2, TextSame, ItemZero, SameReferences DEF AInv, FrontInv
<1> QED
  BY <1>1, <1>2, <1>3, <1>4, EarlyStep DEF ObjectNext

-----------------------------------------------------------------------------
(* What a reference is filled with has its size.                           *)
LEMMA FillingBytes ==
  ASSUME ObjectsTypeOK, Sized, NEW k \in DOMAIN references, references[k].type # "RESOLVED", NEW value \in Nat
  PROVE  /\ Filling(references[k], value) \in [1 .. references[k].size -> Byte]
         /\ Len(Filling(references[k], value)) = references[k].size
<1> DEFINE r == references[k]
<1>1. /\ r.type \in {"DATA", "RELATIVE", "ABSOLUTE"} /\ r.address \in Nat
      /\ r.size \in 0 .. 4 /\ (r.type = "RELATIVE" => r.size = 1)
  <2>1. r \in Reference
    BY Elements
  <2> QED
    BY <2>1 DEF Reference, Sized
<1> HIDE DEF r
<1>2. CASE r.type = "DATA"
  <2>1. Filling(r, value) = Bytes(value, r.size)
    BY <1>2 DEF Filling
  <2>2. value \in Int
    OBVIOUS
  <2> QED
    BY <1>1, <2>1, <2>2, BytesType DEF r
<1>3. CASE r.type = "RELATIVE"
  <2>1. Filling(r, value) = Bytes(Distance(r, value), 1)
    BY <1>3 DEF Filling
  <2>2. Distance(r, value) \in Int /\ 1 \in 0 .. 4
    BY <1>1 DEF Distance
  <2>3. r.size = 1
    BY <1>1, <1>3
  <2> QED
    BY <2>1, <2>2, <2>3, BytesType DEF r
<1>4. CASE r.type = "ABSOLUTE"
  <2> DEFINE at == IF r.size = 2 THEN normalizeWord(value) ELSE normalizeLong(value)
  <2>1. Filling(r, value) = Bytes(at, r.size)
    BY <1>4 DEF Filling
  <2>2. at \in Int
    BY NormalizedInt
  <2> HIDE DEF at
  <2> QED
    BY <1>1, <2>1, <2>2, BytesType DEF r
<1> QED
  BY <1>1, <1>2, <1>3, <1>4

(* The segment that a reference is filled in.                              *)
LEMMA TargetIs ==
  ASSUME ObjectsTypeOK, NEW r, Targets(r) # {}
  PROVE  Max(Targets(r)) \in DOMAIN segments
<1>1. Targets(r) \in SUBSET (0 .. Len(segments)) /\ Len(segments) \in Nat
  BY Elements DEF Targets
<1>2. Max(Targets(r)) \in Targets(r)
  BY <1>1, MaxOfNats
<1> QED
  BY <1>2 DEF Targets

(* Filling in a value is a step that patches what the value's bytes are.   *)
LEMMA FillPatches ==
  ASSUME ObjectsTypeOK, NEW k \in DOMAIN references, references[k].type # "RESOLVED",
         Targets(references[k]) # {}, NEW bytes, bytes \in [1 .. references[k].size -> Byte],
         Len(bytes) = references[k].size, fillReference(k, bytes)
  PROVE  Resolve
<1> DEFINE r == references[k]
           s == Max(Targets(r))
           from == r.address - segments[s].address
           old == segments[s].data
           patch == Patched(s, r)
<1>0. bytes \in [1 .. r.size -> Byte] /\ 0 \in Byte
  <2>1. 0 \in Byte
    BY DEF Byte
  <2> QED
    BY <2>1
<1>1. s \in DOMAIN segments
  BY TargetIs
<1>2. /\ segments[s] \in Segment /\ old \in Seq(Byte) /\ Len(old) \in Nat /\ DOMAIN old = 1 .. Len(old)
      /\ segments[s].address \in Nat /\ r.address \in Nat /\ r.size \in Nat
  BY <1>1, Elements
<1>3. from \in Int
  BY <1>2
<1>4. insertData(s, from, bytes) /\ Resolved(k) /\ UNCHANGED <<object, curr_address>>
  BY DEF fillReference
<1> DEFINE new == [i \in DOMAIN old |-> IF i \in from + 1 .. from + Len(bytes) THEN bytes[i - from] ELSE old[i]]
           e == [segments[s] EXCEPT !.data = new]
<1>5. segments' = [segments EXCEPT ![s] = e]
  BY <1>4 DEF insertData
<1>6. segments'[s].data = new
  <2> HIDE DEF new
  <2>1. e.data = new
    BY <1>2 DEF Segment
  <2> HIDE DEF e
  <2> QED
    BY <1>1, <1>5, <2>1
<1>7. patch = [i \in 1 .. r.size |-> IF from + i \in DOMAIN new THEN new[from + i] ELSE 0]
  BY <1>6 DEF Patched
<1>8. DOMAIN new = DOMAIN old
  OBVIOUS
<1>9. \A i \in 1 .. r.size : from + i \in DOMAIN old => new[from + i] = bytes[i]
  BY <1>2, <1>3
<1> HIDE DEF s, from, r, old, patch
<1>10. \A i \in 1 .. r.size : patch[i] \in Byte
  <2> SUFFICES ASSUME NEW i \in 1 .. r.size PROVE patch[i] \in Byte
    OBVIOUS
  <2>1. bytes[i] \in Byte /\ 0 \in Byte
    BY <1>0
  <2> HIDE DEF new
  <2> QED
    BY <1>7, <1>8, <1>9, <2>1
<1>11. patch \in [1 .. r.size -> Byte] /\ Len(patch) = r.size
  <2>1. patch \in [1 .. r.size -> Byte]
    <3> HIDE DEF new
    <3> QED
      BY <1>7, <1>10
  <2>2. patch \in Seq(Byte)
    BY <1>2, <2>1, FunctionIsSeq
  <2>3. DOMAIN patch = 1 .. r.size
    BY <2>1
  <2> QED
    BY <1>2, <2>1, <2>2, <2>3, LenProperties
<1> DEFINE same == [i \in DOMAIN old |-> IF i \in from + 1 .. from + Len(patch) THEN patch[i - from] ELSE old[i]]
<1>12. same = new
  <2>1. \A i \in DOMAIN old : same[i] = new[i]
    <3> SUFFICES ASSUME NEW i \in DOMAIN old PROVE same[i] = new[i]
      OBVIOUS
    <3>1. Len(patch) = r.size /\ Len(bytes) = r.size
      BY <1>11 DEF r
    <3>2. CASE i \in from + 1 .. from + r.size
      <4>1. same[i] = patch[i - from]
        BY <3>1, <3>2
      <4>2. i - from \in 1 .. r.size /\ from + (i - from) = i
        BY <1>2, <1>3, <3>2
      <4>3. patch[i - from] = new[i]
        <5> HIDE DEF new, same
        <5> QED
          BY <1>7, <1>8, <4>2
      <4> QED
        BY <4>1, <4>3
    <3>3. CASE i \notin from + 1 .. from + r.size
      BY <3>1, <3>3
    <3> QED
      BY <3>2, <3>3
  <2> QED
    BY <2>1
<1>13. insertData(s, from, patch)
  <2>1. insertData(s, from, patch) <=> segments' = [segments EXCEPT ![s] = [segments[s] EXCEPT !.data = same]]
    BY DEF insertData, old
  <2> HIDE DEF same, new
  <2> QED
    BY <1>5, <1>12, <2>1
<1>14. fillReference(k, patch)
  BY <1>4, <1>13 DEF fillReference, r, s, from
<1> QED
  BY <1>11, <1>14 DEF Resolve, r, s, patch

(* A resolved reference keeps its size.                                    *)
LEMMA ResolvedSized ==
  ASSUME ObjectsTypeOK, Sized, NEW k \in DOMAIN references, Resolved(k)
  PROVE  Sized'
<1> DEFINE e == [references[k] EXCEPT !.type = "RESOLVED"]
<1>1. references[k] \in Reference
  BY Elements
<1>2. e.type = "RESOLVED" /\ e.size = references[k].size
  BY <1>1 DEF Reference
<1>3. references' = [references EXCEPT ![k] = e]
  BY DEF Resolved
<1> HIDE DEF e
<1>4. /\ DOMAIN references' = DOMAIN references /\ references'[k] = e
      /\ \A j \in DOMAIN references : j # k => references'[j] = references[j]
  BY <1>3
<1> QED
  BY <1>2, <1>4 DEF Sized

(* A value filled in, given up or having no target.                        *)
LEMMA FillStep ==
  ASSUME ObjectsTypeOK, Sized, NEW k \in DOMAIN references, references[k].type # "RESOLVED",
         NEW value \in Nat, Fill(k, value), err \in BOOLEAN
  PROVE  /\ Sized' /\ err' \in BOOLEAN /\ (~err' => ~err)
         /\ \/ Resolve /\ pc' = pc
            \/ UNCHANGED objectVars /\ pc' = "undefined"
<1> DEFINE r == references[k]
<1>1. CASE TooFar(r, value)
  <2>1. Resolved(k) /\ err' = TRUE /\ UNCHANGED <<object, segments, curr_address>> /\ pc' = pc
    BY <1>1 DEF Fill
  <2>2. Resolve
    BY <2>1 DEF Resolve
  <2> QED
    BY <2>1, <2>2, ResolvedSized
<1>2. CASE ~TooFar(r, value) /\ Targets(r) = {}
  <2>1. pc' = "undefined" /\ UNCHANGED objectVars /\ err' = err
    BY <1>2 DEF Fill
  <2> QED
    BY <2>1, SameReferences DEF objectVars
<1>3. CASE ~TooFar(r, value) /\ Targets(r) # {}
  <2>1. fillReference(k, Filling(r, value)) /\ pc' = pc /\ err' = err
    BY <1>3 DEF Fill
  <2>2. Resolve
    BY <1>3, <2>1, FillingBytes, FillPatches
  <2>3. Resolved(k)
    BY <2>1 DEF fillReference
  <2> QED
    BY <2>1, <2>2, <2>3, ResolvedSized
<1> QED
  BY <1>1, <1>2, <1>3

-----------------------------------------------------------------------------
(* The first reference or symbol that is looked for.                       *)
LEMMA UnresolvedIs ==
  ASSUME OInv, SymbolInv, Unresolved # 0
  PROVE  /\ Unresolved \in DOMAIN references /\ references[Unresolved].type # "RESOLVED"
         /\ symbol[SymbolNamed(references[Unresolved].name)].value \in Nat
<1> DEFINE I == {i \in 1 .. Len(references) : /\ references[i].object = object /\ references[i].type # "RESOLVED"
                                              /\ SymbolNamed(references[i].name) # 0}
           k == IF I # {} THEN Min(I) ELSE 0
<1>1. Unresolved = k
  BY Zenon DEF Unresolved, SelectInSeq
<1>2. k \in I
  <2>1. I \in SUBSET (1 .. Len(references))
    OBVIOUS
  <2>2. Len(references) \in Nat
    BY Elements DEF OInv
  <2>3. k # 0
    BY <1>1
  <2> HIDE DEF I
  <2> QED
    BY <2>1, <2>2, <2>3, FirstOf
<1> DEFINE name == references[k].name
           J == {i \in 1 .. Len(symbol) : symbol[i].name = name}
           j == IF J # {} THEN Min(J) ELSE 0
<1>3. SymbolNamed(name) = j
  BY Zenon DEF SymbolNamed, SelectInSeq
<1>4. j \in 1 .. Len(symbol)
  <2>1. J \in SUBSET (1 .. Len(symbol))
    OBVIOUS
  <2>2. Len(symbol) \in Nat
    BY LenProperties DEF SymbolInv
  <2>3. j # 0
    BY <1>2, <1>3
  <2> HIDE DEF J, k
  <2>4. j \in J
    BY <2>1, <2>2, <2>3, FirstOf
  <2> QED
    BY <2>1, <2>4
<1>5. symbol[j].value \in Nat
  <2> HIDE DEF j
  <2>1. symbol[j] \in Symbol
    BY <1>4, ElementOfSeq DEF SymbolInv
  <2> QED
    BY <2>1 DEF Symbol
<1> HIDE DEF k, j
<1>6. k \in DOMAIN references
  BY <1>2, Elements DEF OInv
<1> QED
  BY <1>1, <1>2, <1>3, <1>5, <1>6

(* The same for the linker, which takes other objects' exports.            *)
LEMMA UnlinkedIs ==
  ASSUME OInv, SymbolInv, Unlinked # 0
  PROVE  /\ Unlinked \in DOMAIN references /\ references[Unlinked].type # "RESOLVED"
         /\ exports[Exporting(references[Unlinked])].value \in Nat
<1> DEFINE I == {i \in 1 .. Len(references) : references[i].type # "RESOLVED" /\ Exporting(references[i]) # 0}
           k == IF I # {} THEN Min(I) ELSE 0
<1>1. Unlinked = k
  BY Zenon DEF Unlinked, SelectInSeq
<1>2. k \in I
  <2>1. I \in SUBSET (1 .. Len(references))
    OBVIOUS
  <2>2. Len(references) \in Nat
    BY Elements DEF OInv
  <2>3. k # 0
    BY <1>1
  <2> HIDE DEF I
  <2> QED
    BY <2>1, <2>2, <2>3, FirstOf
<1> DEFINE r == references[k]
           J == {i \in 1 .. Len(exports) : exports[i].object # r.object /\ exports[i].name = r.name}
           j == IF J # {} THEN Min(J) ELSE 0
<1>3. Exporting(r) = j
  BY Zenon DEF Exporting, SelectInSeq
<1>4. j \in 1 .. Len(exports)
  <2>1. J \in SUBSET (1 .. Len(exports))
    OBVIOUS
  <2>2. Len(exports) \in Nat
    BY LenProperties DEF SymbolInv
  <2>3. j # 0
    BY <1>2, <1>3
  <2> HIDE DEF J, k
  <2>4. j \in J
    BY <2>1, <2>2, <2>3, FirstOf
  <2> QED
    BY <2>1, <2>4
<1>5. exports[j].value \in Nat
  <2> HIDE DEF j
  <2>1. exports[j] \in Export
    BY <1>4, ElementOfSeq DEF SymbolInv
  <2> QED
    BY <2>1 DEF Export
<1> HIDE DEF k, j
<1>6. k \in DOMAIN references
  BY <1>2, Elements DEF OInv
<1> QED
  BY <1>1, <1>2, <1>3, <1>5, <1>6

(* The local references of an object are filled one at a time.             *)
LEMMA Resolving ==
  ASSUME AInv, resolveReferences
  PROVE  FrontInv' /\ [ObjectNext]_objectVars
<1>1. /\ pc = "resolve" /\ UNCHANGED matcherVars /\ UNCHANGED <<symbol, scope, exports>>
      /\ UNCHANGED <<program, output>> /\ item' = item
  BY DEF resolveReferences, instructionVars
<1>2. item' = 0 /\ err \in BOOLEAN
  BY <1>1 DEF AInv, FrontInv, ItemInv, MainInv
<1>3. TextInv' /\ ItemInv' /\ SymbolInv'
  BY <1>1, <1>2, TextSame, ItemZero, SameSymbols DEF AInv, FrontInv
<1>4. CASE Unresolved # 0
  <2> DEFINE k == Unresolved
             value == symbol[SymbolNamed(references[k].name)].value
  <2>1. Fill(k, value)
    BY <1>4 DEF resolveReferences
  <2>2. k \in DOMAIN references /\ references[k].type # "RESOLVED" /\ value \in Nat
    BY <1>4, UnresolvedIs DEF AInv, FrontInv
  <2> HIDE DEF k, value
  <2>3. /\ Sized' /\ err' \in BOOLEAN
        /\ (Resolve /\ pc' = pc) \/ (UNCHANGED objectVars /\ pc' = "undefined")
    BY <1>2, <2>1, <2>2, FillStep DEF AInv, OInv, FrontInv
  <2> QED
    BY <1>1, <1>3, <2>3, EarlyStep DEF ObjectNext
<1>5. CASE Unresolved = 0
  <2>1. pc' \in {"failed", "file", "link"} /\ UNCHANGED objectVars /\ err' = err
    BY <1>5 DEF resolveReferences
  <2>2. Sized'
    BY <2>1, SameReferences DEF AInv, FrontInv, objectVars
  <2> QED
    BY <1>1, <1>2, <1>3, <2>1, <2>2, EarlyStep
<1> QED
  BY <1>4, <1>5

-----------------------------------------------------------------------------
(* Of two segments of an object the later has the larger ordinal.          *)
LEMMA OrdinalsGrow ==
  ASSUME ObjectsTypeOK, NEW s \in DOMAIN segments, NEW t \in DOMAIN segments, s < t,
         segments[s].object = segments[t].object
  PROVE  Ordinal(s) < Ordinal(t)
<1> DEFINE A == {u \in SegmentsOf(segments[s].object) : u <= s}
           B == {u \in SegmentsOf(segments[t].object) : u <= t}
<1>1. DOMAIN segments = 1 .. Len(segments) /\ Len(segments) \in Nat
  BY Elements
<1>2. A \subseteq B /\ t \in B /\ t \notin A
  BY <1>1 DEF SegmentsOf
<1>3. B \in SUBSET Nat /\ \A u \in B : u <= Len(segments)
  BY <1>1 DEF SegmentsOf
<1>4. Ordinal(s) = Cardinality(A) /\ Ordinal(t) = Cardinality(B)
  BY DEF Ordinal
<1> HIDE DEF A, B
<1>5. IsFiniteSet(B)
  BY <1>1, <1>3, FS_BoundedSetOfNaturals
<1>6. IsFiniteSet(A) /\ Cardinality(A) <= Cardinality(B) /\ Cardinality(A) # Cardinality(B)
  BY <1>2, <1>5, FS_Subset
<1>7. Cardinality(A) \in Nat /\ Cardinality(B) \in Nat
  BY <1>5, <1>6, FS_CardinalityType
<1> QED
  BY <1>4, <1>6, <1>7

(* So the linker's test, which compares a segment with those that have a   *)
(* larger ordinal, has compared every two segments of one object.          *)
LEMMA NoneIntersect == ObjectsTypeOK /\ ~Intersects => Separate
<1> SUFFICES ASSUME ObjectsTypeOK, ~Intersects, NEW s \in DOMAIN segments, NEW t \in DOMAIN segments, s < t,
                    segments[s].object = segments[t].object
             PROVE  ~intersecting(segments[s], segments[t])
  BY DEF Separate
<1>1. Ordinal(s) < Ordinal(t)
  BY OrdinalsGrow
<1>2. segments[s].object <= segments[t].object
  BY Elements
<1>3. t \in SegmentsOf(segments[s].object)
  BY DEF SegmentsOf
<1>4. Compared(s, t)
  BY <1>1, <1>2, <1>3 DEF Compared
<1> QED
  BY <1>4 DEF Intersects

(* Resolving moves no segment.                                             *)
LEMMA SeparateStays ==
  ASSUME ObjectsTypeOK, Separate, Resolve \/ UNCHANGED objectVars
  PROVE  Separate'
<1>1. CASE UNCHANGED objectVars
  BY <1>1 DEF Separate, objectVars, intersecting, End
<1>2. CASE Resolve
  <2>1. /\ segments' \in Seq(Segment) /\ Len(segments') = Len(segments)
        /\ \A t \in DOMAIN segments : /\ segments'[t].address = segments[t].address
                                      /\ segments'[t].object = segments[t].object
                                      /\ Len(segments'[t].data) = Len(segments[t].data)
    BY <1>2, ResolveStep
  <2>2. DOMAIN segments' = DOMAIN segments
    BY <2>1, LenProperties, Elements
  <2> SUFFICES ASSUME NEW s \in DOMAIN segments, NEW t \in DOMAIN segments, s < t,
                      segments'[s].object = segments'[t].object
               PROVE  ~intersecting(segments'[s], segments'[t])
    BY <2>2 DEF Separate, intersecting, End
  <2>3. ~intersecting(segments[s], segments[t])
    BY <2>1 DEF Separate
  <2> QED
    BY <2>1, <2>3 DEF intersecting, End
<1> QED
  BY <1>1, <1>2

(* What a step of the linker has to leave right.                           *)
LEMMA LinkerStep ==
  ASSUME AInv, pc \in {"link", "linkrefs", "write"}, pc' \in {"counting", "linkrefs", "write", "done", "failed", "undefined"},
         UNCHANGED <<matcherVars, instructionVars, program, item, exports>>, err' \in BOOLEAN, Sized', LinkInv'
  PROVE  FrontInv'
<1>1. /\ UNCHANGED matcherVars /\ UNCHANGED <<symbol, scope, exports>> /\ program' = program /\ item' = item
  BY DEF instructionVars
<1>2. item' = 0
  BY <1>1 DEF AInv, FrontInv, ItemInv
<1>3. TextInv' /\ ItemInv' /\ SymbolInv'
  BY <1>1, <1>2, TextSame, ItemZero, SameSymbols DEF AInv, FrontInv
<1>4. MainInv'
  BY <1>1 DEF AInv, FrontInv, MainInv, Stopped
<1> QED
  BY <1>3, <1>4 DEF FrontInv

LEMMA LinkingSegments ==
  ASSUME AInv, LinkSegments
  PROVE  FrontInv' /\ UNCHANGED objectVars
<1>1. /\ pc = "link" /\ UNCHANGED <<matcherVars, instructionVars, program, item, exports>>
      /\ UNCHANGED objectVars /\ output' = output
  BY DEF LinkSegments
<1>2. Sized' /\ output' = <<>> /\ err \in BOOLEAN
  BY <1>1, SameReferences DEF AInv, FrontInv, LinkInv, MainInv, objectVars
<1>3. CASE pc' \in {"counting", "undefined"} /\ err' = err
  <2>1. LinkInv'
    BY <1>2, <1>3 DEF LinkInv
  <2> QED
    BY <1>1, <1>2, <1>3, <2>1, LinkerStep
<1>4. CASE pc' = "linkrefs" /\ err' = Intersects
  <2>1. ~err' => Separate'
    BY <1>1, <1>4, NoneIntersect, SeparateStays DEF AInv, OInv
  <2>2. LinkInv'
    BY <1>2, <1>4, <2>1 DEF LinkInv
  <2>3. err' \in BOOLEAN
    BY <1>4 DEF Intersects
  <2> QED
    BY <1>1, <1>2, <1>4, <2>2, <2>3, LinkerStep
<1> QED
  BY <1>3, <1>4 DEF LinkSegments

(* The references that are left are filled from the exports of the other   *)
(* objects.                                                                *)
LEMMA LinkingReferences ==
  ASSUME AInv, LinkReferences
  PROVE  FrontInv' /\ [ObjectNext]_objectVars
<1>1. /\ pc = "linkrefs" /\ UNCHANGED <<matcherVars, instructionVars, program, item, exports>>
      /\ output' = output
  BY DEF LinkReferences
<1>2. output' = <<>> /\ err \in BOOLEAN /\ (~err => Separate)
  BY <1>1 DEF AInv, FrontInv, LinkInv, MainInv
<1>3. CASE Unlinked # 0
  <2> DEFINE k == Unlinked
             value == exports[Exporting(references[k])].value
  <2>1. Fill(k, value)
    BY <1>3 DEF LinkReferences
  <2>2. k \in DOMAIN references /\ references[k].type # "RESOLVED" /\ value \in Nat
    BY <1>3, UnlinkedIs DEF AInv, FrontInv
  <2> HIDE DEF k, value
  <2>3. /\ Sized' /\ err' \in BOOLEAN /\ (~err' => ~err)
        /\ (Resolve /\ pc' = pc) \/ (UNCHANGED objectVars /\ pc' = "undefined")
    BY <1>2, <2>1, <2>2, FillStep DEF AInv, OInv, FrontInv
  <2>4. ~err' => Separate'
    BY <1>2, <2>3, SeparateStays DEF AInv, OInv
  <2>5. LinkInv'
    BY <1>1, <1>2, <2>3, <2>4 DEF LinkInv
  <2>6. FrontInv'
    BY <1>1, <2>3, <2>5, LinkerStep
  <2> QED
    BY <2>3, <2>6 DEF ObjectNext
<1>4. CASE Unlinked = 0
  <2> DEFINE left == \E r \in ToSet(references) : r.type # "RESOLVED"
  <2>1. err' = (err \/ left) /\ pc' = (IF err' THEN "failed" ELSE "write") /\ UNCHANGED objectVars
    BY <1>4 DEF LinkReferences
  <2>2. Sized' /\ err' \in BOOLEAN
    BY <2>1, SameReferences DEF AInv, FrontInv, objectVars
  <2>3. pc' = "write" => Separate' /\ ~left'
    <3>1. pc' = "write" => ~err /\ ~left
      BY <2>1, <2>2
    <3>2. left' <=> left
      BY <2>1 DEF objectVars
    <3>3. ~err => Separate'
      BY <1>2, <2>1, SeparateStays DEF AInv, OInv
    <3> QED
      BY <3>1, <3>2, <3>3
  <2>4. pc' \in {"failed", "write"}
    BY <2>1
  <2>5. LinkInv'
    BY <1>2, <2>3, <2>4 DEF LinkInv
  <2> QED
    BY <1>1, <2>1, <2>2, <2>4, <2>5, LinkerStep
<1> QED
  BY <1>3, <1>4

(* The image is written when no reference is left and the test found       *)
(* nothing.                                                                *)
LEMMA WritingImage ==
  ASSUME AInv, WriteImage
  PROVE  FrontInv' /\ UNCHANGED objectVars
<1>1. /\ pc = "write" /\ UNCHANGED <<matcherVars, instructionVars, program, item, exports>>
      /\ UNCHANGED objectVars /\ err' = err
  BY DEF WriteImage
<1>2. Sized' /\ err' \in BOOLEAN /\ output = <<>>
  BY <1>1, SameReferences DEF AInv, FrontInv, LinkInv, MainInv, objectVars
<1>3. CASE pc' = "undefined" /\ output' = output
  <2>1. LinkInv'
    BY <1>2, <1>3 DEF LinkInv
  <2> QED
    BY <1>1, <1>2, <1>3, <2>1, LinkerStep
<1>4. CASE /\ pc' = "done" /\ output' = Image
           /\ \A s \in ToSet(segments) : s.data # <<>> => ~(End(s) > OUTPUT_SIZE)
  <2>1. Separate'
    BY <1>1, SeparateStays DEF AInv, OInv, FrontInv, LinkInv
  <2>2. \A r \in ToSet(references') : r.type = "RESOLVED"
    BY <1>1 DEF AInv, FrontInv, LinkInv, objectVars
  <2>3. segments' = segments
    BY <1>1 DEF objectVars
  <2>4. Image' = Image
    BY <2>3 DEF Image, Covers, End
  <2>5. \A s \in ToSet(segments) : s.data # <<>> => End(s) <= OUTPUT_SIZE
    <3> SUFFICES ASSUME NEW s \in ToSet(segments), s.data # <<>> PROVE End(s) <= OUTPUT_SIZE
      OBVIOUS
    <3>1. PICK m \in DOMAIN segments : s = segments[m]
      BY DEF ToSet
    <3>2. End(s) \in Nat
      BY <3>1, Elements DEF AInv, OInv, End
    <3> QED
      BY <1>4, <3>2, OutputAssumption
  <2>6. LinkInv'
    BY <1>4, <2>1, <2>2, <2>3, <2>4, <2>5 DEF LinkInv, End
  <2> QED
    BY <1>1, <1>2, <1>4, <2>6, LinkerStep
<1> QED
  BY <1>3, <1>4 DEF WriteImage

-----------------------------------------------------------------------------
(* The invariant holds at first, every action keeps it, and every action   *)
(* is a step of the objects or leaves them alone.                          *)
LEMMA AssemblerStarts == Init => AInv /\ ObjectsInit
<1> SUFFICES ASSUME Init PROVE AInv /\ ObjectsInit
  OBVIOUS
<1>1. /\ ObjectsInit /\ token = <<>> /\ token_pos = 1 /\ pattern = <<>> /\ pattern_pos = 1
      /\ symbol = <<>> /\ scope = 0 /\ program \in Programs /\ references = <<>>
      /\ pc = "file" /\ item = 0 /\ exports = <<>> /\ err = FALSE /\ output = <<>>
  BY DEF Init, ObjectsInit
<1>2. OInv
  BY <1>1, ObjectStarts
<1>3. TextInv
  BY <1>1, EmptySeq DEF TextInv
<1>4. ItemInv /\ SymbolInv /\ MainInv
  BY <1>1, EmptySeq DEF ItemInv, SymbolInv, MainInv
<1>5. Sized
  BY <1>1, EmptySeq DEF Sized
<1>6. LinkInv
  BY <1>1 DEF LinkInv
<1> QED
  BY <1>1, <1>2, <1>3, <1>4, <1>5, <1>6 DEF AInv, FrontInv

LEMMA AssemblerStep ==
  ASSUME AInv, [Next]_assemblerVars
  PROVE  FrontInv' /\ [ObjectNext]_objectVars
<1>1. CASE UNCHANGED assemblerVars
  <2>1. /\ UNCHANGED matcherVars /\ UNCHANGED objectVars /\ UNCHANGED <<symbol, scope, exports>> /\ item' = item
        /\ program' = program /\ pc' = pc /\ err' = err /\ output' = output
    BY <1>1 DEF assemblerVars, instructionVars
  <2>2. TextInv' /\ SymbolInv' /\ Sized'
    BY <2>1, TextSame, SameSymbols, SameReferences DEF AInv, FrontInv, objectVars
  <2>3. ItemInv'
    BY <2>1 DEF AInv, FrontInv, ItemInv, matcherVars
  <2>4. MainInv'
    BY <2>1 DEF AInv, FrontInv, MainInv
  <2>5. LinkInv'
    <3>1. segments' = segments /\ references' = references
      BY <2>1 DEF objectVars
    <3>2. Image' = Image
      BY <3>1 DEF Image, Covers, End
    <3>3. Separate => Separate'
      BY <2>1, SeparateStays DEF AInv, OInv
    <3> QED
      BY <2>1, <3>1, <3>2, <3>3 DEF AInv, FrontInv, LinkInv, End
  <2> QED
    BY <2>1, <2>2, <2>3, <2>4, <2>5 DEF FrontInv
<1>2. CASE lexFileIntoTokens \/ Match \/ Matched
  BY <1>2, Lexed, Matching, MatchEnds
<1>3. CASE parseExportScope \/ parseScope \/ parseEndscope \/ parseExportLabel \/ parseLabel
  BY <1>3, ParseNames, ParseEndscope
<1>4. CASE parseDefine \/ parseOrigin \/ parseData \/ parseStrz \/ parseIns \/ InvalidPattern \/ Parsed
  BY <1>4, ParseDefine, ParseOrigin, ParseData, ParseStrz, ParseIns, ParseInvalid, ParseEnds
<1>5. CASE resolveReferences \/ LinkSegments \/ LinkReferences \/ WriteImage
  BY <1>5, Resolving, LinkingSegments, LinkingReferences, WritingImage
<1> QED
  BY <1>1, <1>2, <1>3, <1>4, <1>5 DEF Next

LEMMA AssemblerInvariant == Spec => []AInv /\ ObjectSpec
<1>1. AInv /\ [Next]_assemblerVars => AInv' /\ [ObjectNext]_objectVars
  <2> SUFFICES ASSUME AInv, [Next]_assemblerVars
               PROVE  AInv' /\ [ObjectNext]_objectVars
    OBVIOUS
  <2>1. FrontInv' /\ [ObjectNext]_objectVars
    BY AssemblerStep
  <2>2. OInv'
    BY <2>1, ObjectStep DEF AInv
  <2> QED
    BY <2>1, <2>2 DEF AInv
<1> QED
  BY <1>1, AssemblerStarts, PTL DEF Spec, ObjectSpec

-----------------------------------------------------------------------------
(* What is in the image at an address that only one segment covers.        *)
LEMMA CoveredOnce ==
  ASSUME ObjectsTypeOK, Separate, NEW m \in DOMAIN segments,
         \A t \in ToSet(segments) : t.object # segments[m].object => ~intersecting(segments[m], t),
         NEW i \in DOMAIN segments[m].data
  PROVE  Image[segments[m].address + i - 1] = segments[m].data[i]
<1> DEFINE a == segments[m].address + i - 1
           K == {k \in DOMAIN segments : Covers(segments[k], a)}
           places == UNION {s.address .. End(s) - 1 : s \in ToSet(segments)}
<1>1. /\ segments[m].address \in Nat /\ i \in 1 .. Len(segments[m].data) /\ Len(segments[m].data) \in Nat
      /\ \A k \in DOMAIN segments : /\ segments[k].address \in Nat /\ Len(segments[k].data) \in Nat
      /\ DOMAIN segments = 1 .. Len(segments) /\ Len(segments) \in Nat
  BY Elements
<1>2. a \in segments[m].address .. End(segments[m]) - 1 /\ a \in Nat
  <2>1. segments[m].address \in Nat /\ i \in Nat /\ 1 <= i /\ i <= Len(segments[m].data)
    BY <1>1
  <2> QED
    BY <1>1, <2>1, SMTT(30) DEF End
<1>3. a \in places
  BY <1>2 DEF ToSet
<1>4. Covers(segments[m], a)
  BY <1>1 DEF Covers, End
<1>5. ASSUME NEW k \in DOMAIN segments, Covers(segments[k], a)
      PROVE  k = m
  <2>1. intersecting(segments[m], segments[k]) /\ intersecting(segments[k], segments[m])
    <3> HIDE DEF a
    <3> QED
      BY <1>1, <1>2, <1>4, <1>5, SMTT(30) DEF Covers, End, intersecting
  <2>2. segments[k].object = segments[m].object
    BY <2>1 DEF ToSet
  <2> QED
    BY <1>1, <2>1, <2>2 DEF Separate
<1>6. K = {m}
  BY <1>4, <1>5
<1>7. Max({m}) = m
  BY <1>1 DEF Max
<1>8. Image[a] = segments[Max(K)].data[a - segments[Max(K)].address + 1]
  <2> HIDE DEF a
  <2> QED
    BY <1>3, SMTT(30) DEF Image
<1>9. Max(K) = m
  BY <1>6, <1>7
<1>10. a - segments[m].address + 1 = i
  BY <1>1
<1> HIDE DEF a, K
<1> QED
  BY <1>8, <1>9, <1>10 DEF a

(* With no reference left and no overlap within an object, an image holds  *)
(* what its segments hold.                                                 *)
LEMMA Whole == AInv => ImageWhole
<1> SUFFICES ASSUME AInv, pc = "done" PROVE
      /\ \A r \in ToSet(references) : r.type = "RESOLVED"
      /\ \A s, t \in DOMAIN segments :
           s < t /\ segments[s].object = segments[t].object => ~intersecting(segments[s], segments[t])
      /\ \A s \in ToSet(segments) :
           (\A t \in ToSet(segments) : t.object # s.object => ~intersecting(s, t)) =>
             \A i \in DOMAIN s.data : output[s.address + i - 1] = s.data[i]
  BY DEF ImageWhole
<1>1. Separate /\ output = Image /\ \A r \in ToSet(references) : r.type = "RESOLVED"
  BY DEF AInv, FrontInv, LinkInv
<1>2. ASSUME NEW s \in ToSet(segments),
             \A t \in ToSet(segments) : t.object # s.object => ~intersecting(s, t),
             NEW i \in DOMAIN s.data
      PROVE  output[s.address + i - 1] = s.data[i]
  <2>1. PICK m \in DOMAIN segments : s = segments[m]
    BY DEF ToSet
  <2> QED
    BY <1>1, <1>2, <2>1, CoveredOnce DEF AInv, OInv
<1> QED
  BY <1>1, <1>2 DEF Separate

(* An image that fits has bytes below the size of the output.              *)
LEMMA ImageTypes ==
  ASSUME ObjectsTypeOK, \A s \in ToSet(segments) : s.data # <<>> => End(s) <= OUTPUT_SIZE,
         NEW a \in DOMAIN Image
  PROVE  a < OUTPUT_SIZE /\ Image[a] \in Byte
<1> DEFINE K == {k \in DOMAIN segments : Covers(segments[k], a)}
           n == Max(K)
           places == UNION {s.address .. End(s) - 1 : s \in ToSet(segments)}
<1>1. DOMAIN Image = places
  BY DEF Image
<1>2. PICK s \in ToSet(segments) : a \in s.address .. End(s) - 1
  BY <1>1
<1>3. PICK m \in DOMAIN segments : s = segments[m]
  BY DEF ToSet
<1>4. /\ s.address \in Nat /\ Len(s.data) \in Nat /\ s.data \in Seq(Byte)
      /\ DOMAIN segments = 1 .. Len(segments) /\ Len(segments) \in Nat
  BY <1>3, Elements
<1>5. Covers(s, a) /\ a \in Nat
  BY <1>2, <1>4 DEF Covers, End
<1>6. a < OUTPUT_SIZE
  <2>1. s.data # <<>>
    <3>1. Len(s.data) # 0
      BY <1>2, <1>4 DEF End
    <3> QED
      BY <3>1, EmptySeq
  <2>2. End(s) <= OUTPUT_SIZE /\ End(s) \in Nat
    BY <1>4, <2>1 DEF End
  <2> QED
    BY <1>2, <1>5, <2>2, OutputAssumption
<1>7. n \in K
  <2>1. K \in SUBSET (0 .. Len(segments)) /\ K # {}
    BY <1>3, <1>4, <1>5
  <2> HIDE DEF K
  <2> QED
    BY <1>4, <2>1, MaxOfNats
<1>8. Image[a] = segments[n].data[a - segments[n].address + 1]
  BY <1>1 DEF Image
<1> HIDE DEF n
<1>9. n \in DOMAIN segments /\ Covers(segments[n], a)
  BY <1>7
<1>10. /\ segments[n].address \in Nat /\ Len(segments[n].data) \in Nat /\ segments[n].data \in Seq(Byte)
  BY <1>9, Elements
<1>11. a - segments[n].address + 1 \in 1 .. Len(segments[n].data)
  BY <1>5, <1>9, <1>10 DEF Covers, End
<1>12. Image[a] \in Byte
  BY <1>8, <1>10, <1>11, ElementOfSeq
<1> QED
  BY <1>6, <1>12

LEMMA AssemblerTyped == AInv => AssemblerTypeOK
<1> SUFFICES ASSUME AInv PROVE AssemblerTypeOK
  OBVIOUS
<1>1. \A a \in DOMAIN output : a < OUTPUT_SIZE /\ output[a] \in Byte
  <2>1. CASE pc = "done"
    <3>1. output = Image /\ \A s \in ToSet(segments) : s.data # <<>> => End(s) <= OUTPUT_SIZE
      BY <2>1 DEF AInv, FrontInv, LinkInv
    <3> QED
      BY <3>1, ImageTypes DEF AInv, OInv
  <2>2. CASE pc # "done"
    <3>1. output = <<>>
      BY <2>2 DEF AInv, FrontInv, LinkInv
    <3>2. DOMAIN output = {}
      BY <3>1
    <3> QED
      BY <3>2
  <2> QED
    BY <2>1, <2>2
<1> QED
  BY <1>1 DEF AssemblerTypeOK, AInv, OInv, FrontInv, SymbolInv, MainInv, ItemInv

(* The refinement: whatever the texts of the files, every step of the      *)
(* assembler is a step of the abstract object files or leaves them alone.  *)
THEOREM AssemblerImplementsObjects == Spec => ImplementsObjects
  BY AssemblerInvariant DEF ImplementsObjects

(* What the assembler's variables hold, whatever the files' tokens are:    *)
(* the image has bytes only, and only below OUTPUT_SIZE.                   *)
THEOREM AssemblerTypes == Spec => []AssemblerTypeOK
  BY AssemblerInvariant, AssemblerTyped, PTL

(* An image that is written is whole: no reference is left, no two         *)
(* segments of one object overlap, and what nothing else meets is in it.   *)
THEOREM WrittenWhole == Spec => []ImageWhole
  BY AssemblerInvariant, Whole, PTL

(* The address that a label or a reference gets is where the next byte     *)
(* goes: every place that adds data counts it on by as many bytes as it    *)
(* adds (parser.c:139-207, 252, instruction.c:258-514).                    *)
THEOREM AddressesFollow == Spec => []AddressesAgree
  BY AssemblerInvariant, PTL DEF AInv, OInv

(* Patching a reference stays inside of the segment that was current when  *)
(* it was made, or goes to one that overlaps it; that segment is of the    *)
(* reference's object, or stands ahead of all of them (object.c:206-243).  *)
THEOREM ReferencesHaveRoom == Spec => []ReferencesInside
  BY AssemblerInvariant, RoomIsHeld, PTL DEF AInv

(* Only resolving a reference changes a byte of a file's data, and only    *)
(* one of its own (object.c:161-243).                                      *)
THEOREM AssemblerPatches == Spec => PatchesOnlyPending
  BY AssemblerInvariant, OnlyPatches

=============================================================================
