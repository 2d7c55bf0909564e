--------------------------- MODULE ScheduleProofs ---------------------------
(***************************************************************************)
(* Proofs about the event schedule, for every set of nets and every        *)
(* longest delay: whatever updates the chips add and whatever the user     *)
(* drives, the pending updates of a net have different delays, and passing *)
(* time leaves every net heading where it was. The first is inductive with *)
(* the types; the second needs the first, because of two updates of a net  *)
(* that are due together only one would be applied.                        *)
(***************************************************************************)
EXTENDS Schedule, TLAPS

SInv == ScheduleTypeOK /\ DistinctDelays

-----------------------------------------------------------------------------
(* What the next level of a net is: that of an update that is due, if any. *)
LEMMA AppliedLevel ==
  ASSUME SInv, NEW n \in Nets
  PROVE  /\ Applied(n) \in Level
         /\ \A w \in Due : w.target = n => Applied(n) = w.val
         /\ (\A w \in Due : w.target # n) => Applied(n) = level[n]
<1>1. CASE \A w \in Due : w.target # n
  <2>1. Applied(n) = level[n]
    BY <1>1 DEF Applied
  <2> QED
    BY <1>1, <2>1 DEF SInv, ScheduleTypeOK
<1>2. CASE \E w \in Due : w.target = n
  <2> DEFINE c == CHOOSE w \in Due : w.target = n
  <2>1. c \in Due /\ c.target = n
    BY <1>2
  <2>2. Applied(n) = c.val
    BY <1>2 DEF Applied
  <2> HIDE DEF c
  <2>3. ASSUME NEW w \in Due, w.target = n
        PROVE  w = c
    <3>1. w \in updates /\ c \in updates /\ w \in Update /\ c \in Update
      BY <2>1 DEF Due, SInv, ScheduleTypeOK
    <3>2. w.delay - 1 <= 0 /\ c.delay - 1 <= 0
      BY <2>1 DEF Due
    <3>3. w.delay = 1 /\ c.delay = 1
      BY <3>1, <3>2, ScheduleAssumption DEF Update
    <3> QED
      BY <2>1, <2>3, <3>1, <3>3 DEF SInv, DistinctDelays
  <2>4. c \in Update
    BY <2>1 DEF Due, SInv, ScheduleTypeOK
  <2> QED
    BY <1>2, <2>2, <2>3, <2>4 DEF Update
<1> QED
  BY <1>1, <1>2

(* What is not due moves one nanosecond closer and stays in its types.     *)
LEMMA LaterShape ==
  ASSUME SInv, NEW w \in updates \ Due
  PROVE  /\ Later(w) \in Update
         /\ Later(w).target = w.target
         /\ Later(w).val = w.val
         /\ Later(w).delay = w.delay - 1
<1>1. w \in Update /\ ~(w.delay - 1 <= 0)
  BY DEF Due, SInv, ScheduleTypeOK
<1>2. w.delay - 1 \in 1 .. MaxDelay
  BY <1>1, ScheduleAssumption DEF Update
<1> QED
  BY <1>1, <1>2 DEF Later, Update

-----------------------------------------------------------------------------
LEMMA SInvInit == ScheduleInit => SInv
BY DEF ScheduleInit, SInv, ScheduleTypeOK, DistinctDelays, Level

LEMMA SInvNext == SInv /\ [ScheduleNext]_scheduleVars => SInv'
<1> SUFFICES ASSUME SInv, [ScheduleNext]_scheduleVars
             PROVE  SInv'
  OBVIOUS
<1>1. ASSUME NEW u \in Update, addNetUpdate(u)
      PROVE  SInv'
  <2> DEFINE kept == {w \in updates : ~Replaced(w, u)}
  <2>1. updates' = kept \cup {u} /\ level' = level /\ changed' = changed
    BY <1>1 DEF addNetUpdate
  <2>2. ScheduleTypeOK'
    BY <2>1 DEF SInv, ScheduleTypeOK
  <2>3. \A w \in kept : w \in Update /\ (w.target = u.target => w.delay < u.delay)
    BY DEF SInv, ScheduleTypeOK, Replaced, Update
  <2>4. \A w \in kept : ~(w.target = u.target /\ w.delay = u.delay)
    <3> HIDE DEF kept
    <3> QED
      BY <2>3 DEF Update
  <2>5. DistinctDelays'
    BY <2>1, <2>4 DEF SInv, DistinctDelays
  <2> QED
    BY <2>2, <2>5 DEF SInv
<1>2. CASE Pass
  <2>1. level' = [n \in Nets |-> Applied(n)]
        /\ changed' = {n \in Wires : Applied(n) # level[n]}
        /\ updates' = {Later(w) : w \in updates \ Due}
    BY <1>2 DEF Pass
  <2>2. level' \in [Nets -> Level]
    BY <2>1, AppliedLevel
  <2>3. updates' \subseteq Update
    BY <2>1, LaterShape
  <2>4. ASSUME NEW x \in updates', NEW y \in updates',
               x.target = y.target, x.delay = y.delay
        PROVE  x = y
    <3>1. PICK v \in updates \ Due : x = Later(v)
      BY <2>1
    <3>2. PICK w \in updates \ Due : y = Later(w)
      BY <2>1
    <3>3. v.target = w.target /\ v.delay - 1 = w.delay - 1
      BY <2>4, <3>1, <3>2, LaterShape
    <3>4. v.delay \in Int /\ w.delay \in Int
      BY DEF SInv, ScheduleTypeOK, Update
    <3>5. v.delay = w.delay
      BY <3>3, <3>4
    <3>6. v = w
      BY <3>3, <3>5 DEF SInv, DistinctDelays
    <3> QED
      BY <3>1, <3>2, <3>6
  <2> QED
    BY <2>1, <2>2, <2>3, <2>4 DEF SInv, ScheduleTypeOK, DistinctDelays
<1>3. CASE Drive
  BY <1>3 DEF Drive, SInv, ScheduleTypeOK, DistinctDelays
<1>4. CASE UNCHANGED scheduleVars
  BY <1>4 DEF scheduleVars, SInv, ScheduleTypeOK, DistinctDelays
<1> QED
  BY <1>1, <1>2, <1>3, <1>4 DEF ScheduleNext

LEMMA SInvAlways == ScheduleSpec => []SInv
BY SInvInit, SInvNext, PTL DEF ScheduleSpec

(* The levels, the marks and the updates are what their declarations say,  *)
(* for every use of the schedule: no delay runs below 1 (circuit.c,        *)
(* net.c:26-49).                                                           *)
THEOREM ScheduleTypes == ScheduleSpec => []ScheduleTypeOK
<1>1. SInv => ScheduleTypeOK
  BY DEF SInv
<1> QED
  BY <1>1, SInvAlways, PTL

(* No two pending updates of a net are due at the same time                *)
(* (circuit.c:286-299).                                                    *)
THEOREM UpdatesDistinct == ScheduleSpec => []DistinctDelays
<1>1. SInv => DistinctDelays
  BY DEF SInv
<1> QED
  BY <1>1, SInvAlways, PTL

-----------------------------------------------------------------------------
(* After a nanosecond a net heads for v when it did before ...             *)
LEMMA HeadingKept ==
  ASSUME SInv, Pass, NEW n \in Nets, NEW v \in Level, HeadsFor(n, v)
  PROVE  HeadsFor(n, v)'
<1>1. level'[n] = Applied(n) /\ updates' = {Later(w) : w \in updates \ Due}
  BY DEF Pass
<1>2. CASE Pending(n) = {} /\ level[n] = v
  <2>1. \A w \in Due : w.target # n
    BY <1>2 DEF Pending, Due
  <2>2. level'[n] = v
    BY <1>1, <1>2, <2>1, AppliedLevel
  <2>3. \A x \in updates' : x.target # n
    BY <1>1, <1>2, LaterShape DEF Pending
  <2> QED
    BY <2>2, <2>3 DEF HeadsFor, Pending
<1>3. CASE \E w \in Pending(n) : w.val = v /\ \A x \in Pending(n) : x.delay <= w.delay
  <2>1. PICK w \in Pending(n) : w.val = v /\ \A x \in Pending(n) : x.delay <= w.delay
    BY <1>3
  <2>2. w \in updates /\ w.target = n /\ w \in Update
    BY DEF Pending, SInv, ScheduleTypeOK
  <2>3. CASE w \in Due
    <3>1. level'[n] = v
      BY <1>1, <2>1, <2>2, <2>3, AppliedLevel
    <3>2. \A x \in Pending(n) : x \in Due
      <4> TAKE x \in Pending(n)
      <4>1. x \in updates /\ x \in Update /\ x.delay <= w.delay
        BY <2>1 DEF Pending, SInv, ScheduleTypeOK
      <4>2. w.delay - 1 <= 0
        BY <2>3 DEF Due
      <4>3. x.delay - 1 <= 0
        BY <2>2, <4>1, <4>2, ScheduleAssumption DEF Update
      <4> QED
        BY <4>1, <4>3 DEF Due
    <3>3. \A x \in updates' : x.target # n
      BY <1>1, <3>2, LaterShape DEF Pending
    <3> QED
      BY <3>1, <3>3 DEF HeadsFor, Pending
  <2>4. CASE w \notin Due
    <3>1. Later(w) \in updates' /\ Later(w).target = n /\ Later(w).val = v
      BY <1>1, <2>1, <2>2, <2>4, LaterShape
    <3>2. ASSUME NEW x \in updates', x.target = n
          PROVE  x.delay <= Later(w).delay
      <4>1. PICK y \in updates \ Due : x = Later(y)
        BY <1>1
      <4>2. y.target = n /\ x.delay = y.delay - 1
        BY <3>2, <4>1, LaterShape
      <4>3. y.delay <= w.delay
        BY <2>1, <4>2 DEF Pending
      <4>4. Later(w).delay = w.delay - 1
        BY <2>2, <2>4, LaterShape
      <4>5. y.delay \in Int /\ w.delay \in Int
        BY <2>2 DEF SInv, ScheduleTypeOK, Update
      <4> QED
        BY <4>2, <4>3, <4>4, <4>5
    <3> QED
      BY <3>1, <3>2 DEF HeadsFor, Pending
  <2> QED
    BY <2>3, <2>4
<1> QED
  BY <1>2, <1>3 DEF HeadsFor

(* ... and only then.                                                      *)
LEMMA HeadingNew ==
  ASSUME SInv, Pass, NEW n \in Nets, NEW v \in Level, HeadsFor(n, v)'
  PROVE  HeadsFor(n, v)
<1>1. level'[n] = Applied(n) /\ updates' = {Later(w) : w \in updates \ Due}
  BY DEF Pass
<1>2. CASE Pending(n)' = {} /\ level'[n] = v
  <2>1. \A w \in Pending(n) : w \in Due
    <3> TAKE w \in Pending(n)
    <3>1. SUFFICES ASSUME w \notin Due
                   PROVE  FALSE
      OBVIOUS
    <3>2. w \in updates \ Due /\ w.target = n
      BY <3>1 DEF Pending
    <3>3. Later(w) \in updates' /\ Later(w).target = n
      BY <1>1, <3>2, LaterShape
    <3> QED
      BY <1>2, <3>3 DEF Pending
  <2>2. CASE Pending(n) = {}
    <3>1. \A w \in Due : w.target # n
      BY <2>2 DEF Pending, Due
    <3> QED
      BY <1>1, <1>2, <2>2, <3>1, AppliedLevel DEF HeadsFor
  <2>3. CASE Pending(n) # {}
    <3>1. PICK w \in Pending(n) : TRUE
      BY <2>3
    <3>2. w \in Due /\ w.target = n
      BY <2>1 DEF Pending
    <3>3. w.val = v
      BY <1>1, <1>2, <3>2, AppliedLevel
    <3>4. ASSUME NEW x \in Pending(n)
          PROVE  x.delay <= w.delay
      <4>1. x \in Due /\ x \in Update /\ w \in Update
        BY <2>1 DEF Pending, SInv, ScheduleTypeOK
      <4>2. x.delay - 1 <= 0
        BY <4>1 DEF Due
      <4> QED
        BY <4>1, <4>2, ScheduleAssumption DEF Update
    <3> QED
      BY <3>3, <3>4 DEF HeadsFor
  <2> QED
    BY <2>2, <2>3
<1>3. CASE \E w \in Pending(n)' : w.val = v /\ \A x \in Pending(n)' : x.delay <= w.delay
  <2>1. PICK z \in Pending(n)' : z.val = v /\ \A x \in Pending(n)' : x.delay <= z.delay
    BY <1>3
  <2>2. z \in updates' /\ z.target = n
    BY DEF Pending
  <2>3. PICK w \in updates \ Due : z = Later(w)
    BY <1>1, <2>2
  <2>4. w.target = n /\ w.val = v /\ z.delay = w.delay - 1
    BY <2>1, <2>2, <2>3, LaterShape
  <2>5. w \in Pending(n) /\ w.delay \in Int /\ ~(w.delay - 1 <= 0)
    BY <2>4 DEF Pending, Due, SInv, ScheduleTypeOK, Update
  <2>6. ASSUME NEW x \in Pending(n)
        PROVE  x.delay <= w.delay
    <3>1. x \in updates /\ x.target = n /\ x.delay \in Int
      BY DEF Pending, SInv, ScheduleTypeOK, Update
    <3>2. CASE x \in Due
      <4>1. x.delay - 1 <= 0
        BY <3>2 DEF Due
      <4> QED
        BY <2>5, <3>1, <4>1
    <3>3. CASE x \notin Due
      <4>1. Later(x) \in updates' /\ Later(x).target = n /\ Later(x).delay = x.delay - 1
        BY <1>1, <3>1, <3>3, LaterShape
      <4>2. Later(x).delay <= z.delay
        BY <2>1, <4>1 DEF Pending
      <4> QED
        BY <2>4, <2>5, <3>1, <4>1, <4>2
    <3> QED
      BY <3>2, <3>3
  <2> QED
    BY <2>4, <2>5, <2>6 DEF HeadsFor
<1> QED
  BY <1>2, <1>3 DEF HeadsFor

(* Passing time never changes where a net is heading, whatever was added   *)
(* and driven before (circuit.c:263-269, net.c:26-49).                     *)
THEOREM TimeKeeps == ScheduleSpec => TimeKeepsHeading
<1>1. SInv /\ [ScheduleNext]_scheduleVars =>
        [Pass => \A n \in Nets : \A v \in Level : HeadsFor(n, v)' <=> HeadsFor(n, v)]_scheduleVars
  BY HeadingKept, HeadingNew
<1> QED
  BY <1>1, SInvAlways, PTL DEF ScheduleSpec, TimeKeepsHeading

-----------------------------------------------------------------------------
(* The newest update of a net decides where the net is heading, whatever   *)
(* was pending before, and no other net is affected (circuit.c:281-306).   *)
THEOREM NewestDecides ==
  ASSUME SInv, NEW u \in Update, addNetUpdate(u)
  PROVE  /\ HeadsFor(u.target, u.val)'
         /\ \A n \in Nets \ {u.target} : \A v \in Level :
              HeadsFor(n, v)' <=> HeadsFor(n, v)
<1>1. updates' = {w \in updates : ~Replaced(w, u)} \cup {u} /\ level' = level
  BY DEF addNetUpdate
<1>2. \A w \in updates : w \in Update
  BY DEF SInv, ScheduleTypeOK
<1>3. u \in Pending(u.target)'
  BY <1>1 DEF Pending
<1>4. ASSUME NEW x \in Pending(u.target)'
      PROVE  x.delay <= u.delay
  <2>1. x = u \/ (x \in updates /\ ~Replaced(x, u) /\ x.target = u.target)
    BY <1>1 DEF Pending
  <2>2. CASE x = u
    BY <2>2 DEF Update
  <2>3. CASE x \in updates /\ ~Replaced(x, u) /\ x.target = u.target
    BY <1>2, <2>3 DEF Replaced, Update
  <2> QED
    BY <2>1, <2>2, <2>3
<1>5. HeadsFor(u.target, u.val)'
  BY <1>3, <1>4 DEF HeadsFor
<1>6. ASSUME NEW n \in Nets \ {u.target}, NEW v \in Level
      PROVE  HeadsFor(n, v)' <=> HeadsFor(n, v)
  <2>1. Pending(n)' = Pending(n)
    BY <1>1 DEF Pending, Replaced
  <2> QED
    BY <1>1, <2>1 DEF HeadsFor
<1> QED
  BY <1>5, <1>6

=============================================================================
