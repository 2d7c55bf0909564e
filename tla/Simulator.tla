----------------------------- MODULE Simulator ------------------------------
(***************************************************************************)
(* The circuit simulator (src/simulator): the definition is parsed, then   *)
(* the user's commands (interface.c) step the circuit one nanosecond at a  *)
(* time (circuit.c) or drive its nets. A step adds the updates of all      *)
(* chips, chip by chip, and then lets the nanosecond pass.                 *)
(*                                                                         *)
(* A command is a record of its operation and its parsed arguments; the    *)
(* commands that only print, and the lines that are refused before they    *)
(* do anything, are the operation "other". Elapsed time and the counts of  *)
(* updated nets are only printed and left out.                             *)
(***************************************************************************)
EXTENDS Circuit

CONSTANTS
  Commands(_, _)  \* what the user may type to a circuit next, after n commands

VARIABLES
  todo,   \* the updates of this nanosecond still to be added
  count,  \* runCommandNano: the nanoseconds left
  typed   \* how many commands the user typed

simulatorVars == <<circuitVars, todo, count, typed>>
parserVars    == <<path, tokens, pos, names, bus_vec, chip_vec, cap, buf>>

-----------------------------------------------------------------------------
(* Reading through a pin that was never assigned, that is null, or that    *)
(* points into a vector that has moved, is undefined. The clock and the    *)
(* counter also read their outputs.                                        *)
Live(pin) == pin \notin {Unset, Null} /\ pin.buf = buf /\ pin.net \in 0 .. Len(names) - 1

ReadsBack(c) == CASE c.type = "CLK40M"   -> {0}
                  [] c.type = "_74AC161" -> 0 .. 3
                  [] OTHER               -> {}

Writes(c) == IF c.type = "CLK40M" THEN {0} ELSE DOMAIN c.out

Wired(c) == /\ \A i \in DOMAIN c.in : Live(c.in[i])
            /\ \A i \in ReadsBack(c) : Live(c.out[i])
            /\ \A i \in Writes(c) : c.out[i] = Null \/ Live(c.out[i])

AllWired == \A k \in DOMAIN chip_vec : Wired(chip_vec[k])

(* stepCircuit: the updates of the chips ...                               *)
StepChips ==
  /\ pc = "nano" /\ count > 0
  /\ IF AllWired
       THEN /\ todo' = FlattenSeq([k \in DOMAIN chip_vec |-> stepChip(chip_vec[k])])
            /\ pc' = "step"
       ELSE /\ pc' = "undefined"
            /\ UNCHANGED todo
  /\ UNCHANGED <<parserVars, scheduleVars, count, typed>>

(* ... are added one by one, those for a null pin dropped, ...             *)
AddUpdate ==
  /\ pc = "step" /\ todo # <<>>
  /\ todo' = Tail(todo)
  /\ IF Head(todo).target = Null THEN UNCHANGED scheduleVars
                                 ELSE addNetUpdate(Head(todo))
  /\ UNCHANGED <<parserVars, pc, count, typed>>

(* ... and the nanosecond passes.                                          *)
PassTime ==
  /\ pc = "step" /\ todo = <<>>
  /\ Pass
  /\ count' = count - 1
  /\ pc' = "nano"
  /\ UNCHANGED <<parserVars, todo, typed>>

EndNano ==
  /\ pc = "nano" /\ count = 0
  /\ pc' = "idle"
  /\ UNCHANGED <<parserVars, scheduleVars, todo, count, typed>>

-----------------------------------------------------------------------------
(* The nets that the user sets to val are marked when that changes them.   *)
SetNets(val) ==
  /\ level'   = [n \in Nets |-> IF n \in DOMAIN val THEN val[n] ELSE level[n]]
  /\ changed' = changed \cup {n \in DOMAIN val : level[n] # val[n]}
  /\ UNCHANGED <<parserVars, updates, pc, todo, count>>

Refuse == UNCHANGED <<parserVars, scheduleVars, pc, todo, count>>

setBus(c) ==
  LET k == findBus(c.name)
  IN  IF k = 0 THEN Refuse
      ELSE IF c.num >= 2 ^ bus_vec[k].width THEN Refuse
      ELSE LET first == bus_vec[k].net_idx
           IN  SetNets([n \in {0} \X (first .. first + bus_vec[k].width - 1) |->
                          Bit((c.num \div 2 ^ (n[2] - first)) % 2 = 1)])

setNet(c) ==
  LET k == findNet(c.name)
  IN  IF k = 0 \/ c.num \notin Level THEN Refuse
      ELSE SetNets([n \in {<<0, k - 1>>} |-> c.num])

setNetOfBus(c) ==
  LET k == findBus(c.name)
  IN  IF k = 0 THEN Refuse
      ELSE IF c.idx \notin 0 .. bus_vec[k].width - 1 \/ c.num \notin Level THEN Refuse
      ELSE SetNets([n \in {<<0, bus_vec[k].net_idx + c.idx>>} |-> c.num])

runCommandNano(c) ==
  /\ pc' = "nano" /\ count' = c.num
  /\ UNCHANGED <<parserVars, scheduleVars, todo>>

runCommandQuit ==
  /\ pc' = "quit"
  /\ UNCHANGED <<parserVars, scheduleVars, todo, count>>

(* One turn of enterInterface's loop.                                      *)
enterInterface ==
  /\ pc = "idle"
  /\ typed' = typed + 1
  /\ \E c \in Commands(path, typed) :
       \/ c.op = "nano"       /\ runCommandNano(c)
       \/ c.op = "set bus"    /\ setBus(c)
       \/ c.op = "set net"    /\ setNet(c)
       \/ c.op = "set bus:"   /\ setNetOfBus(c)
       \/ c.op = "quit"       /\ runCommandQuit
       \/ c.op = "other"      /\ Refuse

Init ==
  /\ CircuitInit
  /\ todo = <<>> /\ count = 0 /\ typed = 0

Next ==
  \/ initCircuit /\ UNCHANGED <<todo, count, typed>>
  \/ StepChips \/ AddUpdate \/ PassTime \/ EndNano
  \/ enterInterface

Spec == Init /\ [][Next]_simulatorVars

-----------------------------------------------------------------------------
(* The nets, the chips and their pins, and the pending updates are what    *)
(* their declarations say; no list of updates outlives its nanosecond.     *)
SimulatorTypeOK ==
  /\ ScheduleTypeOK
  /\ pc \in {"top", "bus", "net", "chip", "pins", "idle", "nano", "step",
             "abort", "quit", "undefined"}
  /\ Len(names) <= cap
  /\ \A n \in changed : n[2] < Len(names)
  /\ \A k \in DOMAIN todo : 
       todo[k] \in [target : Nets \cup {Null}, val : Level, delay : 1 .. MaxDelay]
  /\ todo # <<>> => pc = "step"

(* The simulator only changes nets, marks and updates as the schedule      *)
(* allows: parser, chips and commands included (circuit.c, net.c,          *)
(* interface.c:181-248).                                                   *)
ImplementsSchedule == ScheduleSpec

(* Between two nanoseconds.                                                *)
Ready == pc \in {"idle", "nano"} /\ AllWired
Stable(c, S) == \A i \in S : ~Moved(c, i)
Drives(c, i, v) == c.out[i] # Null => HeadsFor(Net(c.out[i]), v)

(* Whatever glitches passed through it, a gate or adder whose inputs rest  *)
(* is heading for the function of those inputs, and so is the latch of a   *)
(* clocked chip for its input (chip.c:116-205, 274-278, 313-350).          *)
OutputsFollow ==
  Ready => \A k \in DOMAIN chip_vec : LET c == chip_vec[k] IN
    /\ c.type \in DOMAIN Gate => \A i \in DOMAIN c.out :
         Stable(c, InputsOf(c, i)) => Drives(c, i, GateVal(c, i))
    /\ c.type = "_74HC283" /\ Stable(c, 0 .. 8) =>
         \A i \in 0 .. 4 : Drives(c, i, SumVal(c, i))
    /\ c.type = "_74HC377" => \A i \in 0 .. 8 :
         Stable(c, {i}) => HeadsFor(<<c.id, i>>, Val(c, i))
    /\ c.type = "_74AC161" => \A i \in 0 .. 6 :
         Stable(c, {i}) => HeadsFor(<<c.id, i>>, Val(c, i))

(* The input that a multiplexer's select inputs name, as a binary number.  *)
Selected(c, i) ==
  i + Cardinality(DOMAIN c.out) *
      (Val(c, 8) + IF c.type = "_74AC153" THEN 2 * Val(c, 9) ELSE 0)

(* Within a nanosecond: once the updates s are added, net n heads for v;   *)
(* s still decides where, or leaves n alone. An output whose pin is null   *)
(* drives nothing.                                                         *)
Ends(s, n, v) == \E k \in DOMAIN s : /\ s[k].target = n /\ s[k].val = v
                                     /\ \A j \in DOMAIN s : j > k => s[j].target # n
Silent(s, n) == \A k \in DOMAIN s : s[k].target # n
Then(s, n, v) == Ends(s, n, v) \/ (Silent(s, n) /\ HeadsFor(n, v))
Aims(c, s, i, v) == c.out[i] # Null => Then(s, Net(c.out[i]), v)

(* The chip has looked at the input pins S since they last moved.          *)
Seen(c, S) == pc = "step" \/ Stable(c, S)

(* An output shows the selected input, unless that or the selection has    *)
(* just moved and the chip has not looked.                                 *)
Shows(c, i) ==
  Seen(c, Selects(c) \cup {Selected(c, i)}) => Aims(c, todo, i, Val(c, Selected(c, i)))

Running == pc \in {"idle", "nano", "step"} /\ AllWired

(* A disabled multiplexer is heading for 0. An enabled one that shows the  *)
(* selected input goes on showing it, whichever way the input and the      *)
(* selection move, until it is disabled; and one that does not is heading  *)
(* for the 0 that it was disabled with, never for another input's level.   *)
(* Whoever has yet to look at a move counts as showing it, so that 0 ends  *)
(* when the selected input or the selection moves (chip.c:207-250).        *)
MuxesSelect ==
  [][Running /\ Running' =>
       \A k \in DOMAIN chip_vec : LET c == chip_vec[k] IN
         c.type \in {"_74AC157", "_74AC153"} => \A i \in DOMAIN c.out :
           /\ (\E e \in Enables(c) : High(c, e) /\ Seen(c, {e}))' => Aims(c, todo, i, 0)'
           /\ \/ Shows(c, i)'
              \/ Aims(c, todo, i, 0)' /\ (Disabled(c) \/ ~Shows(c, i))]_simulatorVars

(* A counter held in clear is heading for 0 and no carry, whatever its     *)
(* clock and enables do meanwhile (chip.c:279-286).                        *)
ClearHolds ==
  Ready => \A k \in DOMAIN chip_vec : LET c == chip_vec[k] IN
    c.type = "_74AC161" /\ ~High(c, 7) /\ ~Moved(c, 7) =>
      \A i \in 0 .. 4 : Drives(c, i, 0)

=============================================================================
