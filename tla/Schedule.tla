------------------------------ MODULE Schedule ------------------------------
(***************************************************************************)
(* The event schedule of the circuit simulator (src/simulator/src/net.c    *)
(* and circuit.c): the levels of the nets, the nets that changed in the    *)
(* last nanosecond, and the pending updates, each the level a net takes    *)
(* after a delay. The chips only add updates, time only carries them out,  *)
(* and the user may drive a net by hand.                                   *)
(*                                                                         *)
(* The list of pending updates is a set: its order would only matter       *)
(* between two updates of one net that are due together, and               *)
(* DistinctDelays says that there are none. The pool of free list nodes is *)
(* left out. ScheduleSpec, where any update may be added at any time, is   *)
(* the abstract specification that Simulator implements.                   *)
(***************************************************************************)
EXTENDS Integers

CONSTANTS
  Nets,     \* every net: those of the circuit and those inside the chips
  Wires,    \* the nets of the circuit (struct NetVec), which chips watch
  MaxDelay  \* the slowest output of any chip

ASSUME ScheduleAssumption == /\ Wires \subseteq Nets
                             /\ MaxDelay \in Nat \ {0}

VARIABLES
  level,    \* Net.val
  changed,  \* the wires whose Net.changed is set; nobody reads a local net's
  updates   \* Circuit.update_list

scheduleVars == <<level, changed, updates>>

Level  == {0, 1}
Update == [target : Nets, val : Level, delay : 1 .. MaxDelay]

ScheduleTypeOK == /\ level \in [Nets -> Level]
                  /\ changed \subseteq Wires
                  /\ updates \subseteq Update

-----------------------------------------------------------------------------
(* Mutant of Replaced: an update due at the same time stays.               *)
ReplacedIfLater(w, u) == w.target = u.target /\ w.delay > u.delay

(* addNetUpdate: the new update replaces those of its net that are not     *)
(* earlier than it; the earlier ones stay.                                 *)
Replaced(w, u) == w.target = u.target /\ w.delay >= u.delay

addNetUpdate(u) ==
  /\ updates' = {w \in updates : ~Replaced(w, u)} \cup {u}
  /\ UNCHANGED <<level, changed>>

(* stepNetUpdate: the updates whose delay runs out are applied.            *)
Due == {w \in updates : w.delay - 1 <= 0}

Later(w) == [w EXCEPT !.delay = @ - 1]

Applied(n) ==
  IF \E w \in Due : w.target = n
    THEN (CHOOSE w \in Due : w.target = n).val
    ELSE level[n]

(* Mutant of Pass: the update that is due takes the others of its net      *)
(* with it.                                                                *)
PassAlone ==
  /\ level'   = [n \in Nets |-> Applied(n)]
  /\ changed' = {n \in Wires : Applied(n) # level[n]}
  /\ updates' = {Later(w) : w \in {x \in updates : \A d \in Due : d.target # x.target}}

(* The end of stepCircuit: the changed marks of the last nanosecond are    *)
(* cleared and the pending updates stepped.                                *)
Pass ==
  /\ level'   = [n \in Nets |-> Applied(n)]
  /\ changed' = {n \in Wires : Applied(n) # level[n]}
  /\ updates' = {Later(w) : w \in updates \ Due}

(* A new net of a definition or one that the user sets: its level need not *)
(* come from the schedule, but whoever changes it marks it.                *)
Drive ==
  /\ level' \in [Nets -> Level]
  /\ changed \subseteq changed' /\ changed' \subseteq Wires
  /\ \A n \in Nets : level'[n] # level[n] => n \in changed'
  /\ UNCHANGED updates

ScheduleInit == /\ level = [n \in Nets |-> 0]
                /\ changed = {}
                /\ updates = {}

(* Any update may be added; it is then pending.                            *)
ScheduleNext == \/ \E u \in updates' : u \in Update /\ addNetUpdate(u)
                \/ Pass
                \/ Drive

ScheduleSpec == ScheduleInit /\ [][ScheduleNext]_scheduleVars

-----------------------------------------------------------------------------
(* Two pending updates of one net are never due at the same time, so the   *)
(* order in which the list holds them decides nothing                      *)
(* (circuit.c:286-299).                                                    *)
DistinctDelays ==
  \A u, w \in updates : u.target = w.target /\ u.delay = w.delay => u = w

(* A net heads for v: its last pending update, or its level, is v.         *)
Pending(n) == {w \in updates : w.target = n}

HeadsFor(n, v) ==
  \/ Pending(n) = {} /\ level[n] = v
  \/ \E w \in Pending(n) : /\ w.val = v
                           /\ \A x \in Pending(n) : x.delay <= w.delay

(* Passing time never changes where a net is heading: no update gets lost, *)
(* applied twice or overtaken on its way (circuit.c:263-269, net.c:26-49). *)
TimeKeepsHeading ==
  [][Pass => \A n \in Nets : \A v \in Level : HeadsFor(n, v)' <=> HeadsFor(n, v)]_scheduleVars

=============================================================================
