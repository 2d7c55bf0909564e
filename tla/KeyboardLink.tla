---------------------------- MODULE KeyboardLink ----------------------------
(***************************************************************************)
(* The keyboard and the computer at the other end of its two lines. The    *)
(* computer drives the lines through writeIO (src/emulator/src/memory.c)   *)
(* and samples the data line when the clock line falls, as a PS/2 host     *)
(* does; when it pulls the clock line low it drops the bits of the frame   *)
(* it has not finished.                                                    *)
(***************************************************************************)
EXTENDS Keyboard

CONSTANTS
  MaxPresses,  \* bound: events the windowing library reports
  MaxHolds     \* bound: times the computer pulls the clock line low

VARIABLES
  rx,          \* levels sampled since the last complete frame
  received,    \* bytes of the complete frames
  fallen,      \* time since the clock line last fell, up to CLOCK_PERIOD
  presses,     \* events reported so far
  holds        \* times the clock line was pulled low so far

linkVars == <<vars, rx, received, fallen, presses, holds>>

BadFrame == 256

FrameOk(f) ==
  ~f[1] /\ f[11] /\ Cardinality({k \in 2 .. 10 : f[k]}) % 2 = 1

Decode(f) ==
  IF FrameOk(f)
  THEN CHOOSE b \in Byte : \A k \in 0 .. 7 : BitOf(b, k) = f[k + 2]
  ELSE BadFrame

LinkInit ==
  /\ Init
  /\ rx = <<>> /\ received = <<>> /\ fallen = CLOCK_PERIOD
  /\ presses = 0 /\ holds = 0

(* The computer takes a bit at a falling edge the keyboard made.           *)
Sample ==
  LET bits == Append(rx, KeyData') IN
  IF KeyClock /\ ~KeyClock'
  THEN IF Len(bits) = 11
       THEN rx' = <<>> /\ received' = Append(received, Decode(bits))
       ELSE rx' = bits /\ UNCHANGED received
  ELSE UNCHANGED <<rx, received>>

FallTime ==
  IF KeyClock /\ ~KeyClock' THEN 0
  ELSE IF fallen + STEP_TIME < CLOCK_PERIOD THEN fallen + STEP_TIME ELSE CLOCK_PERIOD

LinkClock ==
  /\ Clock /\ Sample
  /\ fallen' = FallTime
  /\ UNCHANGED <<presses, holds>>

Press(e) ==
  /\ presses < MaxPresses
  /\ KeyEvent(e)
  /\ presses' = presses + 1
  /\ UNCHANGED <<rx, received, fallen, holds>>

(* The computer pulls the clock line low, with or without the data line... *)
HoldClock(level) ==
  /\ holds < MaxHolds
  /\ PullKeyLines(FALSE, level)
  /\ rx' = <<>> /\ holds' = holds + 1
  /\ UNCHANGED <<received, fallen, presses>>

(* ...and releases both. It never drives the data line under a running     *)
(* frame: that would only corrupt what the computer itself receives.       *)
ReleaseClock ==
  /\ ~host_clock
  /\ PullKeyLines(TRUE, TRUE)
  /\ UNCHANGED <<rx, received, fallen, presses, holds>>

LinkNext ==
  \/ LinkClock
  \/ \E e \in Event : Press(e)
  \/ \E level \in BOOLEAN : HoldClock(level)
  \/ ReleaseClock

LinkSpec == LinkInit /\ [][LinkNext]_linkVars

(* The emulator's loop calls clockKeyboard for ever.                       *)
LinkFairSpec == LinkSpec /\ WF_linkVars(LinkClock)

-----------------------------------------------------------------------------
(* Properties                                                              *)

Sending == state \in {"DATA", "CLOCKDOWN", "CLOCKUP"}

(* Every variable has its type; the timer never runs past one pre-transmit *)
(* time and one clock period.                                              *)
TypeOK ==
  /\ state \in State /\ elapsed \in Nat
  /\ data \in [0 .. 3 -> Byte] /\ idx \in 0 .. 4 /\ byte \in Byte /\ bit \in 0 .. 10
  /\ host_clock \in BOOLEAN /\ host_data \in BOOLEAN
  /\ dev_clock \in BOOLEAN /\ dev_data \in BOOLEAN
  /\ queue \in Seq(Event)

(* The transmitter never passes the terminator of the event it sends, and  *)
(* so never runs off the end of data[4] (keyboard.c:104, data[idx]) or     *)
(* sends a code an earlier event left behind the terminator.               *)
TerminatorAhead ==
  Sending => \E z \in idx .. 3 : data[z] = 0 /\ \A j \in 0 .. z - 1 : data[j] # 0

(* The data line only moves while the keyboard leaves the clock line high, *)
(* whenever the computer interferes: a host that samples at the falling    *)
(* edge, or anywhere in the low phase, reads the same level.               *)
DataHeldWhileClockLow ==
  [][dev_data' # dev_data => dev_clock /\ dev_clock']_linkVars

(* The scan codes that have not arrived yet, as KeyChannel's wire.         *)
Terminator(i) == CHOOSE z \in i .. 3 : data[z] = 0 /\ \A j \in i .. z - 1 : data[j] # 0

ByteOpen ==
  idx > 0 /\ (bit < 10 \/ (state \in {"DATA", "CLOCKDOWN"} /\ dev_clock))

Unsent ==
  IF ~Sending THEN <<>>
  ELSE (IF ByteOpen THEN <<byte>> ELSE <<>>)
       \o [j \in 1 .. Terminator(idx) - idx |-> data[idx + j - 1]]

Channel == INSTANCE KeyChannel WITH
  wire <- Unsent, delivered <- received, stopped <- ~host_clock, Codes <- ScanCodes

(* What the computer reads off the two lines is what the keyboard promises:*)
(* eleven samples make one good frame, the frames carry the scan codes of  *)
(* the key events in order, and a code is lost only in the step in which   *)
(* the computer pulls the clock line low, with the rest of its event.      *)
ImplementsChannel == Channel!Spec

(* A transmission the computer interrupts while the keyboard itself holds  *)
(* the clock line low never ends: the switch leaves dev_clock FALSE.       *)
LockedUp == state = "INHIBIT" /\ ~dev_clock

(* Unless that happens, or the computer keeps the clock line low, every    *)
(* event is taken from the queue and sent to its end.                      *)
EventsSent ==
  []<>(queue = <<>> /\ state = "PRETRANSMIT") \/ <>[]LockedUp \/ <>[]~host_clock

(* keyboard.c:8: PRETRANSMIT_TIME is the time "to wait after an inhibit",  *)
(* so an inhibit ends, once the computer has released the clock line.      *)
InhibitEnds == <>[]host_clock => []<>(state # "INHIBIT")

(* keyboard.c:7 calls CLOCK_PERIOD the period of the clock, but the timer  *)
(* is not reduced when CLOCKUP ends, so the quarter of DATA is already     *)
(* over when it begins. What a host can rely on between two falls of the   *)
(* clock line is three quarters, give or take the step of the timer.       *)
FallsSpaced ==
  [][dev_clock /\ ~dev_clock' =>
       fallen + 2 * STEP_TIME > CLOCK_PERIOD \div 2 + CLOCK_PERIOD \div 4]_linkVars

=============================================================================
