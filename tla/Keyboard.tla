------------------------------ MODULE Keyboard ------------------------------
(***************************************************************************)
(* The emulated PS/2 keyboard (src/emulator/src/keyboard.c): a transmitter *)
(* that takes key events from the windowing library's event queue, turns   *)
(* each into scan code bytes and shifts every byte out as an 11 bit frame  *)
(* on a clock line and a data line that the computer can also pull low.    *)
(*                                                                         *)
(* The emulator calls clockKeyboard once per CPU clock; every call is one  *)
(* Clock step, whose cases are the cases of the C switch.                  *)
(***************************************************************************)
EXTENDS Naturals, Sequences, FiniteSets

CONSTANTS
  CLOCK_PERIOD,      \* nominal period of the keyboard clock (ns in the code)
  PRETRANSMIT_TIME,  \* idle time owed before a transmission
  STEP_TIME,         \* what every call of clockKeyboard adds to the timer
  KeyCodes,          \* key codes the windowing library can report
  KEY_TABLE,         \* known key code -> [code |-> 1..255, extended |-> BOOLEAN]
  MaxQueue           \* bound: events waiting in the library's queue

ASSUME TimesAssumption ==
  /\ CLOCK_PERIOD \in Nat /\ PRETRANSMIT_TIME \in Nat
  /\ STEP_TIME \in Nat \ {0}
  /\ MaxQueue \in Nat

ASSUME KeysAssumption ==
  /\ DOMAIN KEY_TABLE \subseteq KeyCodes
  /\ \A k \in DOMAIN KEY_TABLE :
       KEY_TABLE[k] \in [code : 1 .. 255, extended : BOOLEAN]

VARIABLES
  state,       \* state of the transmitter
  elapsed,     \* elapsed_time
  data,        \* data[4]: scan codes of the event being sent, 0 terminated
  idx,         \* index in data of the next byte to send
  byte,        \* byte being shifted out
  bit,         \* bit of the frame: 0 start, 1..8 data, 9 parity, 10 stop
  host_clock, host_data,  \* FALSE while the computer pulls the line low
  dev_clock, dev_data,    \* FALSE while the keyboard pulls the line low
  queue        \* events the library has queued

lines   == <<host_clock, host_data, dev_clock, dev_data>>
shifter == <<data, idx, byte, bit>>
vars    == <<state, elapsed, shifter, lines, queue>>

Byte  == 0 .. 255
State == {"INHIBIT", "PRETRANSMIT", "DATA", "CLOCKDOWN", "CLOCKUP"}
Event == [type : {"KEY_DOWN", "KEY_UP", "KEY_CHAR"}, keycode : KeyCodes]

-----------------------------------------------------------------------------
(* The bits of a byte and its frame on the wire.                           *)

BitOf(b, k) == (b \div 2^k) % 2 = 1

CalcOddParity(b) == Cardinality({k \in 0 .. 7 : BitOf(b, k)}) % 2 = 0

LineLevel(b, n) ==
  CASE n = 0      -> FALSE
    [] n \in 1..8 -> BitOf(b, n - 1)
    [] n = 9      -> CalcOddParity(b)
    [] n = 10     -> TRUE

KeyClock == host_clock /\ dev_clock
KeyData  == host_data /\ dev_data

(* getKeyCodes and searchKeyTable: the bytes written to data, in order; no *)
(* sequence at all for a key that the table does not list.                 *)
Known(e) == e.type = "KEY_CHAR" \/ e.keycode \in DOMAIN KEY_TABLE

ScanCodes(e) ==
  LET key == KEY_TABLE[e.keycode] IN
  IF e.type = "KEY_CHAR" THEN <<>>
  ELSE (IF key.extended THEN <<224>> ELSE <<>>)
       \o (IF e.type = "KEY_UP" THEN <<240>> ELSE <<>>) \o <<key.code>>

(* Only the written prefix changes: later cells keep what an earlier event *)
(* left there.                                                             *)
GetKeyCodes(e) ==
  LET written == Append(ScanCodes(e), 0) IN
  [i \in 0 .. 3 |-> IF i < Len(written) THEN written[i + 1] ELSE data[i]]

-----------------------------------------------------------------------------
Init ==
  /\ state = "PRETRANSMIT" /\ elapsed = 0
  /\ data = [i \in 0 .. 3 |-> 0] /\ idx = 0 /\ byte = 0 /\ bit = 0
  /\ host_clock = TRUE /\ host_data = TRUE
  /\ dev_clock = TRUE /\ dev_data = TRUE
  /\ queue = <<>>

(* elapsed_time after the increment every call of clockKeyboard starts with *)
Now == elapsed + STEP_TIME

ClockInhibit ==
  /\ state = "INHIBIT"
  /\ state' = IF KeyClock THEN "PRETRANSMIT" ELSE state
  /\ elapsed' = 0
  /\ UNCHANGED <<shifter, lines, queue>>

(* The next event is one that getKeyCodes accepts.                         *)
EventReady == queue # <<>> /\ Known(Head(queue))

(* Mutants of ClockPretransmit: an event without codes stays in the queue, *)
(* a new event starts where the last one ended.                            *)
PretransmitWith(rest, first) ==
  /\ state = "PRETRANSMIT"
  /\ IF Now >= PRETRANSMIT_TIME /\ EventReady
     THEN /\ queue' = Tail(queue) /\ data' = GetKeyCodes(Head(queue))
          /\ idx' = first /\ bit' = 10 /\ state' = "CLOCKUP" /\ elapsed' = 0
     ELSE /\ elapsed' = IF Now < PRETRANSMIT_TIME THEN Now ELSE PRETRANSMIT_TIME
          /\ queue' = rest
          /\ UNCHANGED <<state, data, idx, bit>>
  /\ UNCHANGED <<byte, lines>>
PretransmitPeeks    == PretransmitWith(queue, 0)
PretransmitKeepsIdx == PretransmitWith(IF queue = <<>> THEN queue ELSE Tail(queue), idx)

ClockPretransmit ==
  /\ state = "PRETRANSMIT"
  /\ \/ /\ Now < PRETRANSMIT_TIME
        /\ elapsed' = Now
        /\ UNCHANGED <<state, shifter, queue>>
     \/ /\ Now >= PRETRANSMIT_TIME
        /\ ~EventReady
        /\ elapsed' = PRETRANSMIT_TIME
        /\ queue' = IF queue = <<>> THEN queue ELSE Tail(queue)
        /\ UNCHANGED <<state, shifter>>
     \/ /\ Now >= PRETRANSMIT_TIME
        /\ EventReady
        /\ queue' = Tail(queue)
        /\ data' = GetKeyCodes(Head(queue))
        /\ idx' = 0 /\ bit' = 10
        /\ state' = "CLOCKUP" /\ elapsed' = 0
        /\ UNCHANGED byte
  /\ UNCHANGED lines

(* Mutant of ClockData: the timer is not reduced here either.              *)
DataKeepsTimer ==
  /\ state = "DATA"
  /\ dev_data' = LineLevel(byte, bit)
  /\ state' = IF Now >= CLOCK_PERIOD \div 4 THEN "CLOCKDOWN" ELSE state
  /\ elapsed' = Now
  /\ UNCHANGED <<shifter, host_clock, host_data, dev_clock, queue>>

ClockData ==
  /\ state = "DATA"
  /\ dev_data' = LineLevel(byte, bit)
  /\ \/ /\ Now >= CLOCK_PERIOD \div 4
        /\ state' = "CLOCKDOWN" /\ elapsed' = Now - CLOCK_PERIOD \div 4
     \/ /\ Now < CLOCK_PERIOD \div 4
        /\ elapsed' = Now
        /\ UNCHANGED state
  /\ UNCHANGED <<shifter, host_clock, host_data, dev_clock, queue>>

ClockDown ==
  /\ state = "CLOCKDOWN"
  /\ dev_clock' = FALSE
  /\ \/ /\ Now >= CLOCK_PERIOD \div 2
        /\ state' = "CLOCKUP" /\ elapsed' = Now - CLOCK_PERIOD \div 2
     \/ /\ Now < CLOCK_PERIOD \div 2
        /\ elapsed' = Now
        /\ UNCHANGED state
  /\ UNCHANGED <<shifter, host_clock, host_data, dev_data, queue>>

(* Mutants of ClockUp: the clock line stays low, the stop bit is missed,   *)
(* an event of several codes ends with its first.                          *)
ClockUpWith(level, last, codes) ==
  /\ state = "CLOCKUP"
  /\ dev_clock' = level
  /\ \/ /\ Now < CLOCK_PERIOD \div 4
        /\ elapsed' = Now
        /\ UNCHANGED <<state, shifter>>
     \/ /\ Now >= CLOCK_PERIOD \div 4 /\ bit # last
        /\ state' = "DATA" /\ bit' = bit + 1 /\ elapsed' = Now
        /\ UNCHANGED <<data, idx, byte>>
     \/ /\ Now >= CLOCK_PERIOD \div 4 /\ bit = last /\ (data[idx] = 0 \/ idx = codes)
        /\ state' = "PRETRANSMIT" /\ elapsed' = PRETRANSMIT_TIME
        /\ UNCHANGED shifter
     \/ /\ Now >= CLOCK_PERIOD \div 4 /\ bit = last /\ data[idx] # 0 /\ idx # codes
        /\ state' = "DATA" /\ elapsed' = 0
        /\ byte' = data[idx] /\ idx' = idx + 1 /\ bit' = 0
        /\ UNCHANGED data
  /\ UNCHANGED <<host_clock, host_data, dev_data, queue>>
ClockUpLow   == ClockUpWith(FALSE, 10, 4)
ClockUpLong  == ClockUpWith(TRUE, 9, 4)
ClockUpDrops == ClockUpWith(TRUE, 10, 1)

(* The last quarter of a bit. Between two bits of a frame the timer is not *)
(* reduced; after the stop bit it is, to 0 or to PRETRANSMIT_TIME.         *)
ClockUp ==
  /\ state = "CLOCKUP"
  /\ dev_clock' = TRUE
  /\ \/ /\ Now < CLOCK_PERIOD \div 4
        /\ elapsed' = Now
        /\ UNCHANGED <<state, shifter>>
     \/ /\ Now >= CLOCK_PERIOD \div 4 /\ bit # 10
        /\ state' = "DATA" /\ bit' = bit + 1 /\ elapsed' = Now
        /\ UNCHANGED <<data, idx, byte>>
     \/ /\ Now >= CLOCK_PERIOD \div 4 /\ bit = 10 /\ data[idx] = 0
        /\ state' = "PRETRANSMIT" /\ elapsed' = PRETRANSMIT_TIME
        /\ UNCHANGED shifter
     \/ /\ Now >= CLOCK_PERIOD \div 4 /\ bit = 10 /\ data[idx] # 0
        /\ state' = "DATA" /\ elapsed' = 0
        /\ byte' = data[idx] /\ idx' = idx + 1 /\ bit' = 0
        /\ UNCHANGED data
  /\ UNCHANGED <<host_clock, host_data, dev_data, queue>>

(* clockKeyboard *)
Clock ==
  ClockInhibit \/ ClockPretransmit \/ ClockData \/ ClockDown \/ ClockUp

(* The windowing library queues an event.                                  *)
KeyEvent(e) ==
  /\ Len(queue) < MaxQueue
  /\ queue' = Append(queue, e)
  /\ UNCHANGED <<state, elapsed, shifter, lines>>

(* Mutant of PullKeyLines: only a transmission is inhibited.               *)
PullDuringFrame(clock, level) ==
  /\ host_clock' = clock /\ host_data' = level
  /\ state' = IF clock \/ state = "PRETRANSMIT" THEN state ELSE "INHIBIT"
  /\ UNCHANGED <<elapsed, shifter, dev_clock, dev_data, queue>>

(* The computer sets both its lines at once: writeIO calls                 *)
(* pullKeyClockLow(clock) and then pullKeyDataLow(level), FALSE pulls low. *)
PullKeyLines(clock, level) ==
  /\ host_clock' = clock /\ host_data' = level
  /\ state' = IF clock THEN state ELSE "INHIBIT"
  /\ UNCHANGED <<elapsed, shifter, dev_clock, dev_data, queue>>

=============================================================================
