----------------------------- MODULE KeyChannel -----------------------------
(***************************************************************************)
(* What the keyboard promises the computer, with no clock, no frames and   *)
(* no timer: key events are taken in the order they were queued, each      *)
(* becomes a sequence of scan codes, and the codes arrive one by one, in   *)
(* order, none twice and none invented. The computer can stop the keyboard *)
(* at any time. It then loses the rest of the event that is on its way,    *)
(* and nothing is taken from the queue before it lets the keyboard go on.  *)
(* Nothing else loses a code.                                              *)
(***************************************************************************)
EXTENDS Naturals, Sequences

CONSTANTS
  Event,       \* what can happen at the keyboard
  Known(_),    \* whether the keyboard sends anything for an event
  Codes(_)     \* the scan codes of an event

VARIABLES
  queue,       \* events that wait
  wire,        \* scan codes of the current event that have not arrived yet
  delivered,   \* scan codes that have arrived
  stopped      \* the computer holds the keyboard

vars == <<queue, wire, delivered, stopped>>

Init == queue = <<>> /\ wire = <<>> /\ delivered = <<>> /\ ~stopped

Press(e) == queue' = Append(queue, e) /\ UNCHANGED <<wire, delivered, stopped>>

Ignore ==
  /\ ~stopped
  /\ queue # <<>> /\ ~Known(Head(queue))
  /\ queue' = Tail(queue)
  /\ UNCHANGED <<wire, delivered, stopped>>

Take ==
  /\ ~stopped
  /\ wire = <<>> /\ queue # <<>> /\ Known(Head(queue))
  /\ queue' = Tail(queue)
  /\ wire' = Codes(Head(queue))
  /\ UNCHANGED <<delivered, stopped>>

Deliver ==
  /\ ~stopped
  /\ wire # <<>>
  /\ delivered' = Append(delivered, Head(wire))
  /\ wire' = Tail(wire)
  /\ UNCHANGED <<queue, stopped>>

Stop ==
  /\ stopped' = TRUE
  /\ wire' = <<>>
  /\ UNCHANGED <<queue, delivered>>

Resume ==
  /\ stopped
  /\ stopped' = FALSE
  /\ UNCHANGED <<queue, wire, delivered>>

Next == (\E e \in Event : Press(e)) \/ Ignore \/ Take \/ Deliver \/ Stop \/ Resume

Spec == Init /\ [][Next]_vars

=============================================================================
