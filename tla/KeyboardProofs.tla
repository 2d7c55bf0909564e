--------------------------- MODULE KeyboardProofs ---------------------------
(***************************************************************************)
(* Proofs about the keyboard and its link, for every clock period, step    *)
(* time, key table and bound. The transmitter's registers and the clock    *)
(* line tell three facts apart that TypeOK, TerminatorAhead and            *)
(* DataHeldWhileClockLow need; together they are inductive. Timing and     *)
(* FrameInv are inductive on top of them: the one spaces the falls of the  *)
(* clock line, the other makes the link implement KeyChannel.              *)
(***************************************************************************)
EXTENDS KeyboardLink, DataLemmas, TLAPS, SequenceTheorems, FiniteSetTheorems,
        FunctionTheorems

(* The keyboard's end of the clock line is released wherever the data line *)
(* can move next.                                                          *)
ClockReleased == state \in {"DATA", "PRETRANSMIT"} => dev_clock

Inv == TypeOK /\ TerminatorAhead /\ ClockReleased

-----------------------------------------------------------------------------
(* getKeyCodes writes at most three codes, none of them 0, and then a 0.   *)
LEMMA CodesShape ==
  ASSUME NEW e \in Event, Known(e)
  PROVE  /\ ScanCodes(e) \in Seq(1 .. 255)
         /\ Len(ScanCodes(e)) \in 0 .. 3
<1>1. CASE e.type = "KEY_CHAR"
  BY <1>1 DEF ScanCodes
<1>2. CASE e.type # "KEY_CHAR"
  <2>1. e.keycode \in DOMAIN KEY_TABLE
    BY <1>2 DEF Known
  <2>2. KEY_TABLE[e.keycode].code \in 1 .. 255
    BY <2>1, KeysAssumption
  <2> DEFINE key  == KEY_TABLE[e.keycode]
             pre  == IF key.extended THEN <<224>> ELSE <<>>
             mid  == IF e.type = "KEY_UP" THEN <<240>> ELSE <<>>
  <2>3. pre \in Seq(1 .. 255) /\ Len(pre) \in 0 .. 1
    <3>1. CASE key.extended
      <4>1. pre = <<224>>
        BY <3>1
      <4> HIDE DEF pre, key
      <4> QED
        BY <4>1
    <3>2. CASE ~key.extended
      <4>1. pre = <<>>
        BY <3>2
      <4> HIDE DEF pre, key
      <4> QED
        BY <4>1
    <3> QED
      BY <3>1, <3>2
  <2>4. mid \in Seq(1 .. 255) /\ Len(mid) \in 0 .. 1
    <3>1. CASE e.type = "KEY_UP"
      BY <3>1
    <3>2. CASE e.type # "KEY_UP"
      BY <3>2
    <3> QED
      BY <3>1, <3>2
  <2>5. <<key.code>> \in Seq(1 .. 255) /\ Len(<<key.code>>) = 1
    BY <2>2
  <2>6. ScanCodes(e) = pre \o mid \o <<key.code>>
    BY <1>2 DEF ScanCodes
  <2> HIDE DEF pre, mid, key
  <2> QED
    BY <2>3, <2>4, <2>5, <2>6
<1> QED
  BY <1>1, <1>2

LEMMA CodesTerminated ==
  ASSUME NEW e \in Event, Known(e), data \in [0 .. 3 -> Byte]
  PROVE  /\ GetKeyCodes(e) \in [0 .. 3 -> Byte]
         /\ GetKeyCodes(e)[Len(ScanCodes(e))] = 0
         /\ \A j \in 1 .. Len(ScanCodes(e)) : /\ GetKeyCodes(e)[j - 1] = ScanCodes(e)[j]
                                               /\ GetKeyCodes(e)[j - 1] # 0
         /\ \E z \in 0 .. 3 : /\ GetKeyCodes(e)[z] = 0
                              /\ \A j \in 0 .. z - 1 : GetKeyCodes(e)[j] # 0
<1> DEFINE codes   == ScanCodes(e)
           n       == Len(codes)
           written == Append(codes, 0)
<1>1. codes \in Seq(1 .. 255) /\ n \in 0 .. 3
  BY CodesShape
<1>2. GetKeyCodes(e) =
        [i \in 0 .. 3 |-> IF i < Len(written) THEN written[i + 1] ELSE data[i]]
  BY DEF GetKeyCodes
<1> HIDE DEF codes
<1>3. Len(written) = n + 1 /\ written[n + 1] = 0
  BY <1>1
<1>4. \A i \in 1 .. n : written[i] = codes[i] /\ codes[i] \in 1 .. 255
  <2> TAKE i \in 1 .. n
  <2>1. codes[i] \in 1 .. 255
    BY <1>1, ElementOfSeq
  <2>2. written[i] = codes[i]
    BY <1>1, AppendProperties
  <2> QED
    BY <2>1, <2>2
<1>5. n \in 0 .. 3
  BY <1>1
<1> HIDE DEF written, n
<1>6. \A i \in 0 .. 3 :
        GetKeyCodes(e)[i] = IF i <= n THEN written[i + 1] ELSE data[i]
  BY <1>2, <1>3, <1>5
<1>7. \A i \in 0 .. n - 1 : GetKeyCodes(e)[i] \in 1 .. 255
  <2> TAKE i \in 0 .. n - 1
  <2>1. i \in 0 .. 3 /\ i <= n /\ i + 1 \in 1 .. n
    BY <1>5
  <2> QED
    <3>1. written[i + 1] = codes[i + 1] /\ codes[i + 1] \in 1 .. 255
      BY <1>4, <2>1, Zenon
    <3>2. GetKeyCodes(e)[i] = written[i + 1]
      BY <1>6, <2>1
    <3> QED
      BY <3>1, <3>2, Zenon
<1>8. GetKeyCodes(e)[n] = 0
  BY <1>3, <1>5, <1>6
<1>9. \A i \in 0 .. 3 : GetKeyCodes(e)[i] \in Byte
  <2> TAKE i \in 0 .. 3
  <2>1. CASE i < n
    BY <1>5, <1>7, <2>1 DEF Byte
  <2>2. CASE i = n
    BY <1>8, <2>2 DEF Byte
  <2>3. CASE i > n
    <3>1. GetKeyCodes(e)[i] = data[i]
      BY <1>5, <1>6, <2>3
    <3> QED
      BY <3>1
  <2> QED
    BY <1>5, <2>1, <2>2, <2>3
<1>10. GetKeyCodes(e) \in [0 .. 3 -> Byte]
  BY <1>2, <1>9
<1>11. \A j \in 0 .. n - 1 : GetKeyCodes(e)[j] # 0
  BY <1>7
<1>12. ASSUME NEW j \in 1 .. n
       PROVE  GetKeyCodes(e)[j - 1] = codes[j] /\ GetKeyCodes(e)[j - 1] # 0
  <2>1. j - 1 \in 0 .. 3 /\ j - 1 <= n /\ j - 1 \in 0 .. n - 1 /\ (j - 1) + 1 = j
    BY <1>5
  <2> QED
    BY <1>4, <1>6, <1>11, <2>1
<1> QED
  BY <1>5, <1>8, <1>10, <1>11, <1>12 DEF n, codes

-----------------------------------------------------------------------------
LEMMA InvInit == LinkInit => Inv
<1> SUFFICES ASSUME LinkInit PROVE Inv
  OBVIOUS
<1> USE DEF LinkInit, Init
<1>1. TypeOK
  BY DEF TypeOK, State, Byte
<1>2. TerminatorAhead /\ ClockReleased
  BY DEF TerminatorAhead, Sending, ClockReleased
<1> QED
  BY <1>1, <1>2 DEF Inv

(* A step that leaves the shifter alone and does not start to send keeps   *)
(* the terminator ahead.                                                   *)
LEMMA TerminatorStays ==
  ASSUME TerminatorAhead, UNCHANGED <<data, idx>>, Sending' => Sending
  PROVE  TerminatorAhead'
BY DEF TerminatorAhead

LEMMA NowTyped ==
  ASSUME TypeOK
  PROVE  /\ Now \in Nat /\ CLOCK_PERIOD \div 4 \in Nat /\ CLOCK_PERIOD \div 2 \in Nat
         /\ Now >= CLOCK_PERIOD \div 4 => Now - CLOCK_PERIOD \div 4 \in Nat
         /\ Now >= CLOCK_PERIOD \div 2 => Now - CLOCK_PERIOD \div 2 \in Nat
BY TimesAssumption DEF TypeOK, Now

LEMMA InvInhibit == Inv /\ ClockInhibit => Inv'
<1> SUFFICES ASSUME Inv, ClockInhibit PROVE Inv'
  OBVIOUS
<1> USE DEF Inv, ClockInhibit, shifter, lines
<1>1. TypeOK'
  BY DEF TypeOK, State
<1>2. TerminatorAhead'
  BY TerminatorStays DEF Sending
<1>3. ClockReleased'
  BY DEF ClockReleased, KeyClock
<1> QED
  BY <1>1, <1>2, <1>3

LEMMA InvPretransmit == Inv /\ ClockPretransmit => Inv'
<1> SUFFICES ASSUME Inv, ClockPretransmit PROVE Inv'
  OBVIOUS
<1> USE DEF Inv, lines
<1>1. CASE EventReady /\ data' = GetKeyCodes(Head(queue)) /\ idx' = 0 /\ bit' = 10
             /\ state' = "CLOCKUP" /\ elapsed' = 0 /\ queue' = Tail(queue) /\ UNCHANGED byte
  <2>1. queue \in Seq(Event) /\ queue # <<>> /\ Known(Head(queue))
    BY <1>1 DEF EventReady, TypeOK
  <2>2. Head(queue) \in Event /\ Tail(queue) \in Seq(Event)
    BY <2>1
  <2>3. /\ data' \in [0 .. 3 -> Byte]
        /\ \E z \in 0 .. 3 : data'[z] = 0 /\ \A j \in 0 .. z - 1 : data'[j] # 0
    BY <1>1, <2>1, <2>2, CodesTerminated DEF TypeOK
  <2>4. TypeOK'
    BY <1>1, <2>2, <2>3 DEF TypeOK, State, ClockPretransmit
  <2>5. TerminatorAhead'
    BY <1>1, <2>3 DEF TerminatorAhead
  <2>6. ClockReleased'
    BY <1>1 DEF ClockReleased
  <2> QED
    BY <2>4, <2>5, <2>6
<1>2. CASE UNCHANGED <<state, shifter>> /\ elapsed' \in Nat /\ queue' \in Seq(Event)
  <2>1. TypeOK'
    BY <1>2 DEF TypeOK, shifter, ClockPretransmit
  <2>2. TerminatorAhead'
    BY <1>2, TerminatorStays DEF Sending, shifter
  <2>3. ClockReleased'
    BY <1>2 DEF ClockReleased, ClockPretransmit
  <2> QED
    BY <2>1, <2>2, <2>3
<1>3. CASE Now < PRETRANSMIT_TIME /\ elapsed' = Now /\ UNCHANGED <<state, shifter, queue>>
  <2>1. elapsed' \in Nat /\ queue' \in Seq(Event)
    BY <1>3, NowTyped DEF TypeOK
  <2> QED
    BY <1>2, <1>3, <2>1
<1>4. CASE /\ ~EventReady /\ elapsed' = PRETRANSMIT_TIME
           /\ queue' = (IF queue = <<>> THEN queue ELSE Tail(queue))
           /\ UNCHANGED <<state, shifter>>
  <2>1. queue' \in Seq(Event)
    BY <1>4 DEF TypeOK
  <2>2. elapsed' \in Nat
    BY <1>4, TimesAssumption
  <2> QED
    BY <1>2, <1>4, <2>1, <2>2
<1> QED
  BY <1>1, <1>3, <1>4 DEF ClockPretransmit

LEMMA InvData == Inv /\ ClockData => Inv'
<1> SUFFICES ASSUME Inv, ClockData PROVE Inv'
  OBVIOUS
<1> USE DEF Inv, ClockData, shifter
<1>1. dev_data' \in BOOLEAN
  <2> \A n : BitOf(byte, n) \in BOOLEAN
    BY DEF BitOf
  <2> CalcOddParity(byte) \in BOOLEAN
    BY DEF CalcOddParity
  <2>1. bit = 0 \/ bit \in 1 .. 8 \/ bit = 9 \/ bit = 10
    BY DEF TypeOK
  <2> QED
    BY <2>1 DEF LineLevel
<1>2. TypeOK'
  BY <1>1, NowTyped DEF TypeOK, State
<1>3. TerminatorAhead'
  BY TerminatorStays DEF Sending
<1>4. ClockReleased'
  BY DEF ClockReleased
<1> QED
  BY <1>2, <1>3, <1>4

LEMMA InvDown == Inv /\ ClockDown => Inv'
<1> SUFFICES ASSUME Inv, ClockDown PROVE Inv'
  OBVIOUS
<1> USE DEF Inv, ClockDown, shifter
<1>1. TypeOK'
  BY NowTyped DEF TypeOK, State
<1>2. TerminatorAhead'
  BY TerminatorStays DEF Sending
<1>3. ClockReleased'
  BY DEF ClockReleased
<1> QED
  BY <1>1, <1>2, <1>3

(* The byte at idx is not the terminator, so the terminator is behind it.  *)
LEMMA InvUp == Inv /\ ClockUp => Inv'
<1> SUFFICES ASSUME Inv, ClockUp PROVE Inv'
  OBVIOUS
<1> USE DEF Inv
<1>1. ClockReleased'
  BY DEF ClockUp, ClockReleased, TypeOK
<1>2. CASE data[idx] # 0 /\ state' = "DATA" /\ elapsed' = 0 /\ byte' = data[idx]
             /\ idx' = idx + 1 /\ bit' = 0 /\ UNCHANGED data
  <2>1. PICK z \in idx .. 3 : data[z] = 0 /\ \A j \in 0 .. z - 1 : data[j] # 0
    BY DEF ClockUp, TerminatorAhead, Sending
  <2>2. idx \in 0 .. 3 /\ z \in idx + 1 .. 3
    BY <1>2, <2>1 DEF TypeOK
  <2>3. data[idx] \in Byte
    BY <2>2 DEF TypeOK
  <2>4. TypeOK'
    BY <1>2, <2>2, <2>3 DEF TypeOK, State, ClockUp
  <2>5. TerminatorAhead'
    BY <1>2, <2>1, <2>2 DEF TerminatorAhead
  <2> QED
    BY <1>1, <2>4, <2>5
<1>3. CASE UNCHANGED <<data, idx, byte>> /\ bit' \in 0 .. 10 /\ elapsed' \in Nat
             /\ state' \in {"CLOCKUP", "DATA", "PRETRANSMIT"}
  <2>1. TypeOK'
    BY <1>3 DEF TypeOK, State, ClockUp
  <2>2. TerminatorAhead'
    BY <1>3, TerminatorStays DEF Sending, ClockUp
  <2> QED
    BY <1>1, <2>1, <2>2
<1>4. CASE elapsed' = Now /\ UNCHANGED <<state, shifter>>
  BY <1>3, <1>4, NowTyped DEF TypeOK, shifter, ClockUp
<1>5. CASE bit # 10 /\ state' = "DATA" /\ bit' = bit + 1 /\ elapsed' = Now
             /\ UNCHANGED <<data, idx, byte>>
  BY <1>3, <1>5, NowTyped DEF TypeOK
<1>6. CASE state' = "PRETRANSMIT" /\ elapsed' = PRETRANSMIT_TIME /\ UNCHANGED shifter
  BY <1>3, <1>6, TimesAssumption DEF TypeOK, shifter
<1> QED
  BY <1>2, <1>4, <1>5, <1>6 DEF ClockUp

LEMMA InvHost ==
  ASSUME NEW clock \in BOOLEAN, NEW level \in BOOLEAN
  PROVE  Inv /\ PullKeyLines(clock, level) => Inv'
<1> SUFFICES ASSUME Inv, PullKeyLines(clock, level) PROVE Inv'
  OBVIOUS
<1> USE DEF Inv, PullKeyLines, shifter
<1>1. TypeOK'
  BY DEF TypeOK, State
<1>2. TerminatorAhead'
  BY TerminatorStays DEF Sending
<1>3. ClockReleased'
  BY DEF ClockReleased
<1> QED
  BY <1>1, <1>2, <1>3

LEMMA InvPress ==
  ASSUME NEW e \in Event
  PROVE  Inv /\ KeyEvent(e) => Inv'
<1> SUFFICES ASSUME Inv, KeyEvent(e) PROVE Inv'
  OBVIOUS
<1> USE DEF Inv, KeyEvent, shifter, lines
<1>1. queue' \in Seq(Event)
  BY DEF TypeOK
<1>2. TypeOK'
  BY <1>1 DEF TypeOK
<1>3. TerminatorAhead'
  BY TerminatorStays DEF Sending
<1>4. ClockReleased'
  BY DEF ClockReleased
<1> QED
  BY <1>2, <1>3, <1>4

LEMMA InvStep == Inv /\ [LinkNext]_linkVars => Inv'
<1> SUFFICES ASSUME Inv, [LinkNext]_linkVars PROVE Inv'
  OBVIOUS
<1>1. CASE LinkClock
  BY <1>1, InvInhibit, InvPretransmit, InvData, InvDown, InvUp DEF LinkClock, Clock
<1>2. CASE \E e \in Event : Press(e)
  BY <1>2, InvPress DEF Press
<1>3. CASE \E level \in BOOLEAN : HoldClock(level)
  BY <1>3, InvHost DEF HoldClock
<1>4. CASE ReleaseClock
  BY <1>4, InvHost DEF ReleaseClock
<1>5. CASE UNCHANGED linkVars
  BY <1>5 DEF Inv, TypeOK, TerminatorAhead, Sending, ClockReleased,
              linkVars, vars, shifter, lines
<1> QED
  BY <1>1, <1>2, <1>3, <1>4, <1>5 DEF LinkNext

LEMMA LinkInv == LinkSpec => []Inv
BY InvInit, InvStep, PTL DEF LinkSpec

(* Every register of the transmitter keeps its range, data[idx] included.  *)
THEOREM LinkTyped == LinkSpec => []TypeOK
<1>1. Inv => TypeOK
  BY DEF Inv
<1> QED
  BY <1>1, LinkInv, PTL

(* Whatever the keys and whenever the computer stops the clock, the        *)
(* transmitter ends an event at its own terminator.                        *)
THEOREM LinkTerminates == LinkSpec => []TerminatorAhead
<1>1. Inv => TerminatorAhead
  BY DEF Inv
<1> QED
  BY <1>1, LinkInv, PTL

(* The data line is stable for as long as the keyboard holds the clock     *)
(* line low, in every interleaving with the computer.                      *)
THEOREM LinkDataHeld == LinkSpec => DataHeldWhileClockLow
<1>1. Inv /\ [LinkNext]_linkVars
        => [dev_data' # dev_data => dev_clock /\ dev_clock']_linkVars
  <2> SUFFICES ASSUME Inv, [LinkNext]_linkVars, dev_data' # dev_data
               PROVE  dev_clock /\ dev_clock'
    OBVIOUS
  <2>1. ClockData
    BY DEF LinkNext, LinkClock, Clock, Press, HoldClock, ReleaseClock, KeyEvent,
           PullKeyLines, ClockInhibit, ClockPretransmit, ClockDown, ClockUp,
           linkVars, vars, lines
  <2> QED
    BY <2>1 DEF Inv, ClockReleased, ClockData
<1> QED
  BY <1>1, LinkInv, PTL DEF LinkSpec, DataHeldWhileClockLow

-----------------------------------------------------------------------------
(* Timing. Since the clock line last fell, at least as much time has       *)
(* passed as the timer has counted in CLOCKDOWN and CLOCKUP, less the      *)
(* three steps the timer may have been ahead when the line fell. That the  *)
(* line is about to fall again is known once DATA is left.                 *)
Quarter == CLOCK_PERIOD \div 4
Half    == CLOCK_PERIOD \div 2

TimerBounds ==
  /\ state = "CLOCKUP" => elapsed < Quarter
  /\ state = "CLOCKDOWN" => elapsed < Half /\ (dev_clock => elapsed < 2 * STEP_TIME)
  /\ state = "DATA" => elapsed < Quarter + STEP_TIME

SinceFall ==
  fallen < CLOCK_PERIOD =>
    /\ state = "CLOCKDOWN" /\ ~dev_clock => elapsed < fallen + 3 * STEP_TIME
    /\ state = "CLOCKUP" => elapsed + Half < fallen + 3 * STEP_TIME
    /\ state = "DATA" => Half + Quarter < fallen + 3 * STEP_TIME
    /\ state = "CLOCKDOWN" /\ dev_clock => Half + Quarter < fallen + 2 * STEP_TIME
    /\ state \in {"INHIBIT", "PRETRANSMIT"} /\ dev_clock => Half < fallen + 3 * STEP_TIME

Timing ==
  /\ fallen \in 0 .. CLOCK_PERIOD
  /\ ~host_clock => state = "INHIBIT"
  /\ TimerBounds
  /\ SinceFall

TimerIsFine == STEP_TIME <= Quarter

LEMMA TimesTyped ==
  /\ Quarter \in Nat /\ Half \in Nat /\ STEP_TIME \in Nat \ {0} /\ CLOCK_PERIOD \in Nat
  /\ 2 * Quarter <= Half /\ 2 * Half <= CLOCK_PERIOD
BY TimesAssumption DEF Quarter, Half

(* fallen, unless this step is a fall or fallen is at its cap.             *)
LEMMA FallenRuns ==
  ASSUME Timing, fallen' = FallTime
  PROVE  /\ fallen' \in 0 .. CLOCK_PERIOD
         /\ (KeyClock => KeyClock') /\ fallen' < CLOCK_PERIOD =>
              fallen < CLOCK_PERIOD /\ fallen' = fallen + STEP_TIME
BY TimesTyped DEF Timing, FallTime

LEMMA TimingInit == TimerIsFine /\ LinkInit => Timing
BY TimesTyped DEF TimerIsFine, LinkInit, Init, Timing, TimerBounds, SinceFall

LEMMA TimingClock ==
  ASSUME TimerIsFine, Inv, Timing, LinkClock
  PROVE  Timing'
<1> USE DEF TimerIsFine
<1>1. fallen' = FallTime /\ fallen' \in 0 .. CLOCK_PERIOD /\ elapsed \in Nat
  BY FallenRuns DEF LinkClock, Inv, TypeOK
<1>2. fallen \in 0 .. CLOCK_PERIOD /\ (~host_clock => state = "INHIBIT")
  BY DEF Timing
<1>3. UNCHANGED <<host_clock, host_data>>
  BY DEF LinkClock, Clock, ClockInhibit, ClockPretransmit, ClockData, ClockDown, ClockUp, lines
<1>4. CASE ClockInhibit
  <2>1. KeyClock => KeyClock'
    BY <1>3, <1>4 DEF ClockInhibit, KeyClock, lines
  <2> QED
    BY <1>1, <1>2, <1>3, <1>4, <2>1, FallenRuns, TimesTyped
       DEF Timing, TimerBounds, SinceFall, ClockInhibit, KeyClock, lines
<1>5. CASE ClockPretransmit
  <2>1. KeyClock => KeyClock'
    BY <1>3, <1>5 DEF ClockPretransmit, KeyClock, lines
  <2>2. dev_clock /\ dev_clock'
    BY <1>5 DEF ClockPretransmit, Inv, ClockReleased, lines
  <2>3. state' = state \/ (state' = "CLOCKUP" /\ elapsed' = 0)
    BY <1>5 DEF ClockPretransmit
  <2> QED
    BY <1>1, <1>2, <1>3, <1>5, <2>1, <2>2, <2>3, FallenRuns, TimesTyped
       DEF Timing, TimerBounds, SinceFall, ClockPretransmit
<1>6. CASE ClockData
  <2>1. dev_clock /\ dev_clock' /\ (KeyClock => KeyClock')
    BY <1>3, <1>6 DEF ClockData, KeyClock, Inv, ClockReleased
  <2> QED
    BY <1>1, <1>2, <1>3, <1>6, <2>1, FallenRuns, TimesTyped
       DEF Timing, TimerBounds, SinceFall, ClockData, Now, Quarter
<1>7. CASE ClockDown
  <2>1. host_clock /\ ~dev_clock' /\ ~KeyClock'
    BY <1>2, <1>7 DEF ClockDown, KeyClock
  <2>2. CASE dev_clock
    <3>1. fallen' = 0
      BY <1>1, <2>1, <2>2 DEF FallTime, KeyClock
    <3> QED
      BY <1>1, <1>2, <1>3, <1>7, <2>1, <2>2, <3>1, TimesTyped
         DEF Timing, TimerBounds, SinceFall, ClockDown, Now, Half
  <2>3. CASE ~dev_clock
    <3>1. KeyClock => KeyClock'
      BY <2>3 DEF KeyClock
    <3> QED
      BY <1>1, <1>2, <1>3, <1>7, <2>1, <2>3, <3>1, FallenRuns, TimesTyped
         DEF Timing, TimerBounds, SinceFall, ClockDown, Now, Half
  <2> QED
    BY <2>2, <2>3
<1>8. CASE ClockUp
  <2>1. dev_clock' /\ (KeyClock => KeyClock')
    BY <1>3, <1>8 DEF ClockUp, KeyClock
  <2>2. state' = "CLOCKUP" \/ state' = "DATA" \/ state' = "PRETRANSMIT"
    BY <1>8 DEF ClockUp
  <2>3. CASE state' = "CLOCKUP"
    BY <1>1, <1>2, <1>3, <1>8, <2>1, <2>3, FallenRuns, TimesTyped
       DEF Timing, TimerBounds, SinceFall, ClockUp, Now, Quarter
  <2>4. CASE state' # "CLOCKUP"
    <3>1. Now >= Quarter /\ elapsed' \in {Now, 0, PRETRANSMIT_TIME}
          /\ (state' = "DATA" => elapsed' < Quarter + STEP_TIME)
      BY <1>1, <1>8, <2>4, TimesTyped DEF ClockUp, Now, Timing, TimerBounds, Quarter
    <3>2. fallen' < CLOCK_PERIOD => Now + Half < fallen' + 3 * STEP_TIME
      BY <1>1, <1>2, <1>8, <2>1, FallenRuns, TimesTyped DEF Timing, SinceFall, ClockUp, Now
    <3>3. state' \in {"DATA", "PRETRANSMIT"} /\ dev_clock'
      BY <2>1, <2>2, <2>4
    <3>4. fallen' < CLOCK_PERIOD => Half + Quarter < fallen' + 3 * STEP_TIME
      BY <1>1, <3>1, <3>2, TimesTyped DEF Now
    <3>5. SinceFall'
      BY <1>1, <3>3, <3>4, TimesTyped DEF SinceFall
    <3>6. TimerBounds'
      BY <3>1, <3>3 DEF TimerBounds
    <3>7. host_clock'
      BY <1>2, <1>3, <1>8 DEF ClockUp
    <3> QED
      BY <1>1, <3>5, <3>6, <3>7 DEF Timing
  <2> QED
    BY <2>3, <2>4
<1> QED
  BY <1>4, <1>5, <1>6, <1>7, <1>8 DEF LinkClock, Clock

(* The computer never moves the timer; what it stops, it stops in INHIBIT. *)
LEMMA TimingHold ==
  ASSUME NEW level \in BOOLEAN, Inv, Timing, HoldClock(level)
  PROVE  Timing'
<1>1. state' = "INHIBIT" /\ UNCHANGED <<elapsed, fallen, dev_clock>>
  BY DEF HoldClock, PullKeyLines
<1>2. elapsed \in Nat /\ state \in State
  BY DEF Inv, TypeOK
<1> QED
  BY <1>1, <1>2, TimesTyped DEF State, Timing, TimerBounds, SinceFall

LEMMA TimingStep == TimerIsFine /\ Inv /\ Timing /\ [LinkNext]_linkVars => Timing'
<1> SUFFICES ASSUME TimerIsFine, Inv, Timing, [LinkNext]_linkVars PROVE Timing'
  OBVIOUS
<1>1. CASE LinkClock
  BY <1>1, TimingClock
<1>2. CASE \E level \in BOOLEAN : HoldClock(level)
  BY <1>2, TimingHold
<1>3. CASE ReleaseClock
  BY <1>3 DEF ReleaseClock, PullKeyLines, Timing, TimerBounds, SinceFall
<1>4. CASE \E e \in Event : Press(e)
  BY <1>4 DEF Press, KeyEvent, lines, Timing, TimerBounds, SinceFall
<1>5. CASE UNCHANGED linkVars
  BY <1>5 DEF linkVars, vars, lines, Timing, TimerBounds, SinceFall
<1> QED
  BY <1>1, <1>2, <1>3, <1>4, <1>5 DEF LinkNext

(* Provided the emulator's step is no longer than a quarter of the         *)
(* keyboard's period, two falls of the clock line are three quarters of a  *)
(* period apart, less at most two steps, whatever inhibits, retries and    *)
(* new events lie between them.                                            *)
THEOREM LinkFallsSpaced ==
  ASSUME TimerIsFine
  PROVE  LinkSpec => FallsSpaced
<1> DEFINE Fall == dev_clock /\ ~dev_clock' =>
                     fallen + 2 * STEP_TIME > CLOCK_PERIOD \div 2 + CLOCK_PERIOD \div 4
<1>1. LinkInit => Timing
  BY TimingInit
<1>2. Inv /\ Timing /\ [LinkNext]_linkVars => Timing'
  BY TimingStep
<1>3. Inv /\ Timing /\ [LinkNext]_linkVars => [Fall]_linkVars
  <2> SUFFICES ASSUME Inv, Timing, [LinkNext]_linkVars, dev_clock, ~dev_clock'
               PROVE  fallen + 2 * STEP_TIME > Half + Quarter
    BY DEF Half, Quarter
  <2>1. state = "CLOCKDOWN"
    BY DEF LinkNext, LinkClock, Clock, Press, HoldClock, ReleaseClock, KeyEvent,
           PullKeyLines, ClockInhibit, ClockPretransmit, ClockData, ClockDown, ClockUp,
           linkVars, vars, lines
  <2> QED
    BY <2>1, TimesTyped DEF Timing, SinceFall
<1> QED
  BY <1>1, <1>2, <1>3, LinkInv, PTL DEF LinkSpec, FallsSpaced

-----------------------------------------------------------------------------
(* What is on the wire. A byte is its eight bits...                        *)
LEMMA BitsTell ==
  ASSUME NEW a \in Byte, NEW b \in Byte, \A k \in 0 .. 7 : BitOf(a, k) <=> BitOf(b, k)
  PROVE  a = b
<1> DEFINE Worth(n) == 2 ^ n
<1>1. /\ Worth(0) = 1 /\ Worth(1) = 2 /\ Worth(2) = 4 /\ Worth(3) = 8 /\ Worth(4) = 16
      /\ Worth(5) = 32 /\ Worth(6) = 64 /\ Worth(7) = 128
  OBVIOUS
<1>2. \A k \in 0 .. 7 : (a \div Worth(k)) % 2 = 1 <=> (b \div Worth(k)) % 2 = 1
  BY DEF BitOf
<1> HIDE DEF Worth
<1>3. /\ (a \div 1) % 2 = 1 <=> (b \div 1) % 2 = 1
      /\ (a \div 2) % 2 = 1 <=> (b \div 2) % 2 = 1
      /\ (a \div 4) % 2 = 1 <=> (b \div 4) % 2 = 1
      /\ (a \div 8) % 2 = 1 <=> (b \div 8) % 2 = 1
      /\ (a \div 16) % 2 = 1 <=> (b \div 16) % 2 = 1
      /\ (a \div 32) % 2 = 1 <=> (b \div 32) % 2 = 1
      /\ (a \div 64) % 2 = 1 <=> (b \div 64) % 2 = 1
      /\ (a \div 128) % 2 = 1 <=> (b \div 128) % 2 = 1
  <2>1. /\ 0 \in 0 .. 7 /\ 1 \in 0 .. 7 /\ 2 \in 0 .. 7 /\ 3 \in 0 .. 7
        /\ 4 \in 0 .. 7 /\ 5 \in 0 .. 7 /\ 6 \in 0 .. 7 /\ 7 \in 0 .. 7
    OBVIOUS
  <2> QED
    BY <1>1, <1>2, <2>1
<1>4. /\ a \in Nat /\ a <= 255 /\ b \in Nat /\ b <= 255
  BY DEF Byte
<1>5. a \div 128 = b \div 128
  BY <1>3, <1>4
<1>6. a \div 64 = b \div 64
  BY <1>3, <1>4, <1>5
<1>7. a \div 32 = b \div 32
  BY <1>3, <1>4, <1>6
<1>8. a \div 16 = b \div 16
  BY <1>3, <1>4, <1>7
<1>9. a \div 8 = b \div 8
  BY <1>3, <1>4, <1>8
<1>10. a \div 4 = b \div 4
  BY <1>3, <1>4, <1>9
<1>11. a \div 2 = b \div 2
  BY <1>3, <1>4, <1>10
<1> QED
  BY <1>3, <1>4, <1>11

(* ...and a frame of it the first levels of the line.                      *)
Frame(b, n) == [k \in 1 .. n |-> LineLevel(b, k - 1)]

LEMMA LevelsOfLine ==
  ASSUME NEW b
  PROVE  /\ LineLevel(b, 0) = FALSE /\ LineLevel(b, 10) = TRUE /\ LineLevel(b, 9) = CalcOddParity(b)
         /\ \A n \in 1 .. 8 : LineLevel(b, n) = BitOf(b, n - 1)
         /\ \A n \in 0 .. 10 : LineLevel(b, n) \in BOOLEAN
<1>1. LineLevel(b, 0) = FALSE
  BY DEF LineLevel
<1>2. LineLevel(b, 10) = TRUE
  BY DEF LineLevel
<1>3. LineLevel(b, 9) = CalcOddParity(b)
  BY DEF LineLevel
<1>4. ASSUME NEW n \in 1 .. 8
      PROVE  LineLevel(b, n) = BitOf(b, n - 1)
  <2> DEFINE one == BitOf(b, n - 1)
             last == CalcOddParity(b)
  <2>1. LineLevel(b, n) = CASE n = 0 -> FALSE [] n \in 1 .. 8 -> one [] n = 9 -> last [] n = 10 -> TRUE
    BY DEF LineLevel
  <2>2. n # 0 /\ n # 9 /\ n # 10 /\ n \in 1 .. 8
    OBVIOUS
  <2> HIDE DEF one, last
  <2>3. LineLevel(b, n) = one
    BY <2>1, <2>2, Zenon
  <2> QED
    BY <2>3, Zenon DEF one
<1>5. ASSUME NEW n \in 0 .. 10
      PROVE  LineLevel(b, n) \in BOOLEAN
  <2>1. n = 0 \/ n \in 1 .. 8 \/ n = 9 \/ n = 10
    OBVIOUS
  <2>2. \A m : BitOf(b, m) \in BOOLEAN
    BY DEF BitOf
  <2>3. CalcOddParity(b) \in BOOLEAN
    BY DEF CalcOddParity
  <2> QED
    BY <1>1, <1>2, <1>3, <1>4, <2>1, <2>2, <2>3
<1> QED
  BY <1>1, <1>2, <1>3, <1>4, <1>5

LEMMA FrameGrows ==
  ASSUME NEW b, NEW n \in 0 .. 10
  PROVE  /\ Frame(b, n) \in Seq(BOOLEAN) /\ Len(Frame(b, n)) = n
         /\ Append(Frame(b, n), LineLevel(b, n)) = Frame(b, n + 1)
<1> DEFINE L(m) == LineLevel(b, m)
<1>1. \A m \in 0 .. 10 : L(m) \in BOOLEAN
  BY LevelsOfLine
<1> DEFINE f == [k \in 1 .. n |-> L(k - 1)]
<1>2. Frame(b, n) = f /\ Frame(b, n + 1) = [k \in 1 .. n + 1 |-> L(k - 1)]
  BY DEF Frame
<1> HIDE DEF L
<1>3. f \in [1 .. n -> BOOLEAN]
  BY <1>1
<1>4. f \in Seq(BOOLEAN) /\ Len(f) = n
  BY <1>3, FunctionIsSeq
<1>5. Append(f, L(n)) = [k \in 1 .. n + 1 |-> L(k - 1)]
  <2> DEFINE g == Append(f, L(n))
             h == [k \in 1 .. n + 1 |-> L(k - 1)]
  <2>1. g \in Seq(BOOLEAN) /\ Len(g) = n + 1 /\ g[n + 1] = L(n)
        /\ \A k \in 1 .. n : g[k] = f[k]
    <3> DEFINE last == L(n)
    <3>1. last \in BOOLEAN
      BY <1>1
    <3> HIDE DEF last, f
    <3>2. /\ Append(f, last) \in Seq(BOOLEAN) /\ Len(Append(f, last)) = n + 1
          /\ Append(f, last)[n + 1] = last /\ \A k \in 1 .. n : Append(f, last)[k] = f[k]
      BY <1>4, <3>1, AppendProperties
    <3> QED
      BY <3>2 DEF last
  <2>3. \A k \in 1 .. n + 1 : g[k] = h[k]
    <3> SUFFICES ASSUME NEW k \in 1 .. n + 1 PROVE g[k] = h[k]
      OBVIOUS
    <3>1. CASE k = n + 1
      BY <2>1, <3>1
    <3>2. CASE k \in 1 .. n
      <4>1. g[k] = f[k]
        BY <2>1, <3>2, Zenon
      <4>2. f[k] = L(k - 1)
        BY <3>2, Zenon DEF f
      <4>3. h[k] = L(k - 1)
        BY Zenon
      <4> QED
        BY <4>1, <4>2, <4>3, Zenon
    <3>3. k = n + 1 \/ k \in 1 .. n
      OBVIOUS
    <3> QED
      BY <3>1, <3>2, <3>3
  <2> DEFINE D == 1 .. n + 1
  <2>4. g = [k \in D |-> g[k]]
    <3>1. g \in Seq(BOOLEAN) /\ Len(g) = n + 1
      BY <2>1
    <3> HIDE DEF g
    <3>2. g \in [1 .. Len(g) -> BOOLEAN]
      BY <3>1, LenProperties
    <3>3. g \in [D -> BOOLEAN]
      BY <3>1, <3>2
    <3> HIDE DEF D
    <3> QED
      BY <3>3, Zenon
  <2>5. \A k \in D : g[k] = L(k - 1)
    BY <2>3
  <2> HIDE DEF g
  <2>6. g = [k \in D |-> L(k - 1)]
    BY <2>4, <2>5, Zenon
  <2> QED
    BY <2>6, Zenon DEF g, D
<1> QED
  BY <1>2, <1>4, <1>5 DEF L

(* The parity bit makes the ones of a frame odd.                           *)
LEMMA OddOnes ==
  ASSUME NEW b \in Byte
  PROVE  FrameOk(Frame(b, 11))
<1> DEFINE f == Frame(b, 11)
           A == {k \in 0 .. 7 : BitOf(b, k)}
           B == {k \in 2 .. 9 : f[k]}
           C == {k \in 2 .. 10 : f[k]}
<1>1. \A k \in 1 .. 11 : f[k] = LineLevel(b, k - 1)
  BY DEF Frame
<1>2. ~f[1] /\ f[11] /\ f[10] = CalcOddParity(b) /\ \A k \in 2 .. 9 : f[k] = BitOf(b, k - 2)
  <2>1. f[1] = LineLevel(b, 0) /\ f[11] = LineLevel(b, 10) /\ f[10] = LineLevel(b, 9)
    BY <1>1
  <2>2. ASSUME NEW k \in 2 .. 9
        PROVE  f[k] = BitOf(b, k - 2)
    <3>1. f[k] = LineLevel(b, k - 1) /\ k - 1 \in 1 .. 8 /\ (k - 1) - 1 = k - 2
      BY <1>1
    <3> QED
      BY <3>1, LevelsOfLine
  <2> QED
    BY <2>1, <2>2, LevelsOfLine
<1> HIDE DEF f
<1>3. IsFiniteSet(A)
  <2>1. IsFiniteSet(0 .. 7)
    <3>1. 0 \in Int /\ 7 \in Int
      OBVIOUS
    <3> QED
      BY <3>1, FS_Interval, Zenon
  <2> QED
    BY <2>1, FS_Subset
<1>4. ExistsBijection(A, B)
  <2> DEFINE F == [k \in A |-> k + 2]
  <2>1. F \in [A -> B]
    BY <1>2
  <2>2. \A j, k \in A : F[j] = F[k] => j = k
    OBVIOUS
  <2>3. \A t \in B : \E k \in A : F[k] = t
    <3> SUFFICES ASSUME NEW t \in B PROVE \E k \in A : F[k] = t
      OBVIOUS
    <3>1. t - 2 \in A
      BY <1>2
    <3>2. F[t - 2] = t
      BY <3>1
    <3> QED
      BY <3>1, <3>2
  <2>4. F \in Bijection(A, B)
    BY <2>1, <2>2, <2>3, Fun_IsBij
  <2> QED
    BY <2>4, Fun_ExistsBij
<1>5. IsFiniteSet(B) /\ Cardinality(B) = Cardinality(A) /\ Cardinality(A) \in Nat
  BY <1>3, <1>4, FS_Bijection, FS_CardinalityType
<1>6. 10 \notin B
  OBVIOUS
<1>7. CASE CalcOddParity(b)
  <2>1. C = B \cup {10}
    <3>1. f[10]
      BY <1>2, <1>7, Zenon
    <3>2. \A k : k \in 2 .. 10 <=> k \in 2 .. 9 \/ k = 10
      OBVIOUS
    <3> QED
      BY <3>1, <3>2, Zenon
  <2>2. Cardinality(C) = Cardinality(A) + 1
    <3> HIDE DEF A, B, C
    <3> QED
      BY <1>5, <1>6, <2>1, FS_AddElement
  <2>3. Cardinality(A) % 2 = 0
    BY <1>7 DEF CalcOddParity
  <2>4. Cardinality(C) % 2 = 1
    <3> HIDE DEF A, C
    <3> QED
      BY <1>5, <2>2, <2>3
  <2> QED
    BY <1>2, <2>4 DEF FrameOk, f
<1>8. CASE ~CalcOddParity(b)
  <2>1. C = B
    <3>1. ~f[10]
      BY <1>2, <1>8, Zenon
    <3>2. \A k : k \in 2 .. 10 <=> k \in 2 .. 9 \/ k = 10
      OBVIOUS
    <3> QED
      BY <3>1, <3>2, Zenon
  <2>2. Cardinality(A) % 2 # 0
    BY <1>8 DEF CalcOddParity
  <2>4. Cardinality(C) % 2 = 1
    <3>1. Cardinality(C) = Cardinality(A)
      BY <1>5, <2>1
    <3> HIDE DEF A, C
    <3> QED
      BY <1>5, <2>2, <3>1
  <2> QED
    BY <1>2, <2>4 DEF FrameOk, f
<1> QED
  BY <1>7, <1>8

(* So the computer reads the byte that was sent.                           *)
LEMMA DecodesByte ==
  ASSUME NEW b \in Byte
  PROVE  Decode(Frame(b, 11)) = b
<1> DEFINE f == Frame(b, 11)
           Fits(c) == \A k \in 0 .. 7 : BitOf(c, k) = f[k + 2]
<1>1. \A k \in 0 .. 7 : f[k + 2] = BitOf(b, k)
  <2> SUFFICES ASSUME NEW k \in 0 .. 7 PROVE f[k + 2] = BitOf(b, k)
    OBVIOUS
  <2>1. k + 2 \in 1 .. 11 /\ (k + 2) - 1 \in 1 .. 8 /\ ((k + 2) - 1) - 1 = k
    OBVIOUS
  <2>2. f[k + 2] = LineLevel(b, (k + 2) - 1)
    BY <2>1 DEF Frame
  <2> QED
    BY <2>1, <2>2, LevelsOfLine
<1> HIDE DEF f
<1>2. Fits(b)
  BY <1>1
<1>3. \A c \in Byte : Fits(c) => c = b
  BY <1>1, BitsTell
<1>4. (CHOOSE c \in Byte : Fits(c)) = b
  <2> HIDE DEF Fits
  <2> QED
    BY <1>2, <1>3
<1> QED
  BY <1>4, OddOnes DEF Decode, f

-----------------------------------------------------------------------------
(* The computer has the levels that the keyboard has clocked, and reads    *)
(* its own end of the data line high while the keyboard sends.             *)
Rising == state = "DATA" \/ (state = "CLOCKDOWN" /\ dev_clock)
Fallen == state = "CLOCKUP" \/ (state = "CLOCKDOWN" /\ ~dev_clock)

FrameInv ==
  /\ IF host_clock THEN host_data ELSE state = "INHIBIT"
  /\ Sending => idx > 0 \/ (state = "CLOCKUP" /\ bit = 10)
  /\ Rising => rx = Frame(byte, bit)
  /\ Fallen => rx = IF bit = 10 THEN <<>> ELSE Frame(byte, bit + 1)
  /\ ~Sending => rx = <<>>
  /\ state = "CLOCKDOWN" /\ dev_clock => dev_data = LineLevel(byte, bit)

(* What is left of an event.                                               *)
LEMMA TerminatorIs ==
  ASSUME NEW d, NEW i \in Nat, NEW z \in i .. 3, d[z] = 0, \A j \in 0 .. z - 1 : d[j] # 0
  PROVE  (CHOOSE y \in i .. 3 : d[y] = 0 /\ \A j \in i .. y - 1 : d[j] # 0) = z
<1> DEFINE Ends(y) == d[y] = 0 /\ \A j \in i .. y - 1 : d[j] # 0
<1>1. z \in i .. 3 /\ Ends(z)
  OBVIOUS
<1>2. ASSUME NEW y \in i .. 3, Ends(y)
      PROVE  y = z
  <2>1. ~(y < z)
    BY <1>2
  <2>2. ~(z < y)
    BY <1>2
  <2> QED
    BY <2>1, <2>2
<1> HIDE DEF Ends
<1>3. (CHOOSE y \in i .. 3 : Ends(y)) = z
  BY <1>1, <1>2
<1> QED
  BY <1>3 DEF Ends

Rest(d, i, z) == [j \in 1 .. z - i |-> d[i + j - 1]]

LEMMA RestSeq ==
  ASSUME NEW d \in [0 .. 3 -> Byte], NEW i \in Nat, NEW z \in i .. 3
  PROVE  Rest(d, i, z) \in Seq(Byte) /\ Len(Rest(d, i, z)) = z - i
<1>1. z - i \in Nat
  OBVIOUS
<1>2. Rest(d, i, z) \in [1 .. z - i -> Byte]
  BY DEF Rest
<1> QED
  BY <1>1, <1>2, FunctionIsSeq

LEMMA OneAhead ==
  ASSUME NEW b \in Byte, NEW R \in Seq(Byte)
  PROVE  /\ <<b>> \o R # <<>> /\ Head(<<b>> \o R) = b /\ Tail(<<b>> \o R) = R
         /\ <<>> \o R = R
OBVIOUS

LEMMA RestShrinks ==
  ASSUME NEW d \in [0 .. 3 -> Byte], NEW i \in 0 .. 3, NEW z \in i + 1 .. 3
  PROVE  Rest(d, i, z) = <<d[i]>> \o Rest(d, i + 1, z)
<1> DEFINE R == Rest(d, i, z)
           T == Rest(d, i + 1, z)
<1>1. R \in Seq(Byte) /\ Len(R) = z - i /\ T \in Seq(Byte) /\ Len(T) = z - (i + 1)
  <2>1. i \in Nat /\ i + 1 \in Nat /\ z \in i .. 3
    OBVIOUS
  <2> QED
    BY <2>1, RestSeq
<1>2. R # <<>> /\ Head(R) = d[i]
  BY <1>1 DEF Rest
<1>3. Tail(R) = T
  <2>1. Tail(R) \in Seq(Byte) /\ Len(Tail(R)) = z - (i + 1)
    BY <1>1, <1>2
  <2>2. ASSUME NEW j \in 1 .. z - (i + 1)
        PROVE  Tail(R)[j] = T[j]
    <3>1. Tail(R)[j] = R[j + 1]
      BY <1>1, <1>2, <2>1
    <3>2. R[j + 1] = d[i + (j + 1) - 1] /\ T[j] = d[(i + 1) + j - 1]
      BY DEF Rest
    <3>3. i + (j + 1) - 1 = (i + 1) + j - 1
      OBVIOUS
    <3> HIDE DEF R, T
    <3> QED
      BY <3>1, <3>2, <3>3
  <2> HIDE DEF R, T
  <2> QED
    BY <1>1, <2>1, <2>2
<1> HIDE DEF R, T
<1>4. d[i] \in Byte
  OBVIOUS
<1>5. R = <<Head(R)>> \o Tail(R)
  BY <1>1, <1>2
<1> QED
  BY <1>2, <1>3, <1>5, Zenon DEF R, T

LEMMA UnsentStays ==
  ASSUME UNCHANGED <<data, idx, byte>>, Sending' <=> Sending, Sending => (ByteOpen' <=> ByteOpen)
  PROVE  Unsent' = Unsent
BY DEF Unsent, Terminator

LEMMA UnsentIs ==
  ASSUME Inv, Sending
  PROVE  \E z \in idx .. 3 :
           /\ data[z] = 0 /\ \A j \in 0 .. z - 1 : data[j] # 0
           /\ Unsent = (IF ByteOpen THEN <<byte>> ELSE <<>>) \o Rest(data, idx, z)
<1>1. PICK z \in idx .. 3 : data[z] = 0 /\ \A j \in 0 .. z - 1 : data[j] # 0
  BY DEF Inv, TerminatorAhead
<1>2. idx \in Nat
  BY DEF Inv, TypeOK
<1>3. Terminator(idx) = z
  BY <1>1, <1>2, TerminatorIs DEF Terminator
<1> QED
  BY <1>1, <1>3 DEF Unsent, Rest

-----------------------------------------------------------------------------
(* Every step keeps the frame and is a step of the channel, or leaves the  *)
(* channel alone.                                                          *)
Waits == UNCHANGED <<queue, Unsent, received, host_clock>>

LEMMA WaitsIs == Waits => [Channel!Next]_(Channel!vars)
BY DEF Waits, Channel!vars

(* The clock line falls only when the keyboard pulls it.                   *)
LEMMA NoFall ==
  ASSUME Sample, KeyClock => KeyClock'
  PROVE  UNCHANGED <<rx, received>>
BY DEF Sample

LEMMA FrameInhibit ==
  ASSUME Inv, FrameInv, ClockInhibit, Sample
  PROVE  FrameInv' /\ Waits
<1>1. UNCHANGED <<shifter, lines, queue>> /\ UNCHANGED <<rx, received>>
  BY NoFall DEF ClockInhibit, lines, KeyClock
<1>2. ~Sending /\ ~Sending'
  BY DEF ClockInhibit, Sending
<1>3. Waits
  BY <1>1, <1>2 DEF Waits, Unsent, lines
<1>4. FrameInv'
  BY <1>1, <1>2 DEF FrameInv, ClockInhibit, Sending, Rising, Fallen, KeyClock, lines
<1> QED
  BY <1>3, <1>4

LEMMA FramePretransmit ==
  ASSUME Inv, FrameInv, ClockPretransmit, Sample
  PROVE  FrameInv' /\ [Channel!Next]_(Channel!vars)
<1>1. /\ UNCHANGED lines /\ UNCHANGED <<rx, received>> /\ rx = <<>> /\ Unsent = <<>>
      /\ ~Sending /\ host_clock /\ host_clock'
  BY NoFall DEF ClockPretransmit, lines, KeyClock, FrameInv, Sending, Unsent
<1>2. CASE UNCHANGED <<state, shifter>> /\ queue' = queue
  <2>1. Waits
    BY <1>1, <1>2 DEF Waits, Unsent, Sending, lines
  <2>2. FrameInv'
    BY <1>1, <1>2 DEF FrameInv, Sending, Rising, Fallen, lines, shifter
  <2> QED
    BY <2>1, <2>2, WaitsIs
<1>3. CASE UNCHANGED <<state, shifter>> /\ ~EventReady /\ queue # <<>> /\ queue' = Tail(queue)
  <2>1. Unsent' = Unsent
    BY <1>1, <1>3 DEF Unsent, Sending
  <2>2. Channel!Ignore
    BY <1>1, <1>3, <2>1 DEF Channel!Ignore, EventReady
  <2>3. FrameInv'
    BY <1>1, <1>3 DEF FrameInv, Sending, Rising, Fallen, lines, shifter
  <2> QED
    BY <2>2, <2>3 DEF Channel!Next
<1>4. CASE EventReady /\ data' = GetKeyCodes(Head(queue)) /\ idx' = 0 /\ bit' = 10
             /\ state' = "CLOCKUP" /\ queue' = Tail(queue) /\ UNCHANGED byte
  <2> DEFINE e == Head(queue)
             n == Len(ScanCodes(e))
  <2>1. queue # <<>> /\ Known(e) /\ e \in Event
    BY <1>4 DEF EventReady, Inv, TypeOK
  <2>2. ScanCodes(e) \in Seq(1 .. 255) /\ n \in 0 .. 3
    BY <2>1, CodesShape
  <2>3. /\ data'[n] = 0
        /\ \A j \in 1 .. n : data'[j - 1] = ScanCodes(e)[j] /\ data'[j - 1] # 0
    BY <1>4, <2>1, CodesTerminated DEF Inv, TypeOK
  <2> DEFINE codes == ScanCodes(e)
             d == data'
  <2>4. n \in 0 .. 3 /\ d[n] = 0 /\ \A j \in 0 .. n - 1 : d[j] # 0
    <3>1. \A j \in 0 .. n - 1 : j + 1 \in 1 .. n /\ (j + 1) - 1 = j
      BY <2>2
    <3> HIDE DEF n
    <3> QED
      BY <2>2, <2>3, <3>1
  <2>5. Terminator(idx)' = n
    <3> HIDE DEF n
    <3>1. (CHOOSE y \in 0 .. 3 : d[y] = 0 /\ \A j \in 0 .. y - 1 : d[j] # 0) = n
      <4>1. 0 \in Nat
        OBVIOUS
      <4> HIDE DEF d
      <4> QED
        BY <2>4, <4>1, TerminatorIs
    <3> QED
      BY <1>4, <3>1 DEF Terminator
  <2>6. Rest(d, 0, n) = codes
    <3>1. Rest(d, 0, n) = [j \in 1 .. n |-> d[j - 1]]
      BY <2>2 DEF Rest
    <3>2. codes = [j \in 1 .. n |-> codes[j]]
      BY <2>2
    <3> HIDE DEF n, codes
    <3> QED
      BY <2>3, <3>1, <3>2 DEF codes
  <2>7. Unsent' = codes
    <3>1. Sending' /\ ~ByteOpen'
      BY <1>4 DEF Sending, ByteOpen
    <3>2. Unsent' = <<>> \o [j \in 1 .. n - 0 |-> data'[0 + j - 1]]
      BY <1>4, <2>5, <3>1 DEF Unsent
    <3>3. Unsent' = <<>> \o codes
      BY <2>6, <3>2 DEF Rest
    <3> QED
      BY <2>2, <3>3
  <2>8. Channel!Take
    BY <1>1, <1>4, <2>1, <2>7 DEF Channel!Take
  <2>9. FrameInv'
    <3>1. /\ UNCHANGED <<host_clock, host_data>> /\ host_clock /\ host_data
          /\ state' = "CLOCKUP" /\ bit' = 10 /\ rx' = <<>>
      BY <1>1, <1>4 DEF FrameInv, ClockPretransmit, lines
    <3> HIDE DEF e, n, codes, d
    <3> QED
      BY <3>1 DEF FrameInv, Sending, Rising, Fallen
  <2> QED
    BY <2>8, <2>9 DEF Channel!Next
<1> QED
  BY <1>2, <1>3, <1>4 DEF ClockPretransmit

LEMMA FrameData ==
  ASSUME Inv, FrameInv, ClockData, Sample
  PROVE  FrameInv' /\ Waits
<1>1. UNCHANGED <<shifter, host_clock, host_data, dev_clock, queue>> /\ UNCHANGED <<rx, received>>
  BY NoFall DEF ClockData, KeyClock
<1>2. dev_clock /\ dev_data' = LineLevel(byte, bit) /\ state = "DATA" /\ state' \in {"DATA", "CLOCKDOWN"}
  BY DEF Inv, ClockReleased, ClockData
<1>3. Waits
  <2>1. Sending /\ Sending' /\ (ByteOpen' <=> ByteOpen)
    BY <1>1, <1>2 DEF Sending, ByteOpen, shifter
  <2> QED
    BY <1>1, <2>1, UnsentStays DEF Waits, shifter
<1>4. FrameInv'
  <2>1. Frame(byte, bit)' = Frame(byte, bit) /\ LineLevel(byte, bit)' = LineLevel(byte, bit)
    BY <1>1 DEF shifter
  <2> QED
    BY <1>1, <1>2, <2>1 DEF FrameInv, Sending, Rising, Fallen, shifter
<1> QED
  BY <1>3, <1>4

(* The eleventh level of a frame completes the byte, which is the first    *)
(* that has not arrived.                                                   *)
LEMMA FrameDown ==
  ASSUME Inv, FrameInv, ClockDown, Sample
  PROVE  FrameInv' /\ [Channel!Next]_(Channel!vars)
<1>1. /\ UNCHANGED <<shifter, host_clock, host_data, dev_data, queue>> /\ ~dev_clock'
      /\ state = "CLOCKDOWN" /\ state' \in {"CLOCKDOWN", "CLOCKUP"}
  BY DEF ClockDown
<1>2. /\ host_clock /\ host_data /\ idx > 0 /\ Sending /\ Sending'
      /\ bit \in 0 .. 10 /\ byte \in Byte /\ idx \in 0 .. 4 /\ ~KeyClock'
  BY <1>1 DEF FrameInv, Sending, Inv, TypeOK, KeyClock
<1>3. CASE ~dev_clock
  <2>1. UNCHANGED <<rx, received>>
    BY <1>3, NoFall DEF KeyClock
  <2>2. ByteOpen' <=> ByteOpen
    BY <1>1, <1>2, <1>3 DEF ByteOpen, shifter
  <2>3. Waits
    BY <1>1, <1>2, <2>1, <2>2, UnsentStays DEF Waits, shifter
  <2>4. FrameInv'
    BY <1>1, <1>2, <1>3, <2>1 DEF FrameInv, Sending, Rising, Fallen, shifter
  <2> QED
    BY <2>3, <2>4, WaitsIs
<1>4. CASE dev_clock
  <2>1. rx = Frame(byte, bit) /\ dev_data = LineLevel(byte, bit)
    BY <1>1, <1>4 DEF FrameInv, Rising
  <2>2. KeyClock /\ KeyData' = LineLevel(byte, bit)
    <3>1. dev_data \in BOOLEAN /\ dev_data' = dev_data /\ host_data' = host_data
      BY <1>1 DEF Inv, TypeOK
    <3> QED
      BY <1>2, <1>4, <2>1, <3>1 DEF KeyClock, KeyData
  <2> DEFINE bits == Append(rx, KeyData')
  <2>3. bits = Frame(byte, bit + 1) /\ Len(bits) = bit + 1
    <3>1. bits = Frame(byte, bit + 1)
      BY <1>2, <2>1, <2>2, FrameGrows
    <3>2. Len(bits) = bit + 1
      <4>1. rx \in Seq(BOOLEAN) /\ Len(rx) = bit
        BY <1>2, <2>1, FrameGrows
      <4> QED
        BY <4>1
    <3> QED
      BY <3>1, <3>2
  <2> HIDE DEF bits
  <2>4. IF bit + 1 = 11 THEN rx' = <<>> /\ received' = Append(received, Decode(bits))
                        ELSE rx' = bits /\ UNCHANGED received
    BY <1>2, <2>2, <2>3 DEF Sample, bits
  <2>5. FrameInv'
    BY <1>1, <1>2, <2>3, <2>4 DEF FrameInv, Sending, Rising, Fallen, shifter
  <2>6. CASE bit # 10
    <3>1. UNCHANGED received
      BY <1>2, <2>4, <2>6
    <3>2. ByteOpen' <=> ByteOpen
      BY <1>1, <1>2, <2>6 DEF ByteOpen, shifter
    <3>3. Waits
      BY <1>1, <1>2, <3>1, <3>2, UnsentStays DEF Waits, shifter
    <3> QED
      BY <2>5, <3>3, WaitsIs
  <2>7. CASE bit = 10
    <3>1. received' = Append(received, byte)
      BY <1>2, <2>3, <2>4, <2>7, DecodesByte
    <3>2. ByteOpen /\ ~ByteOpen'
      BY <1>1, <1>2, <1>4, <2>7 DEF ByteOpen, shifter
    <3>3. PICK z \in idx .. 3 :
            /\ data[z] = 0 /\ \A j \in 0 .. z - 1 : data[j] # 0
            /\ Unsent = <<byte>> \o Rest(data, idx, z)
      BY <1>2, <3>2, UnsentIs
    <3>4. Rest(data, idx, z) \in Seq(Byte)
      BY <1>2, RestSeq DEF Inv, TypeOK
    <3>5. Unsent # <<>> /\ Head(Unsent) = byte /\ Tail(Unsent) = Rest(data, idx, z)
      BY <1>2, <3>3, <3>4, OneAhead
    <3>6. Unsent' = Rest(data, idx, z)
      <4>1. Terminator(idx)' = z
        <5>1. Terminator(idx) = z
          BY <1>2, <3>3, TerminatorIs DEF Terminator
        <5> QED
          BY <1>1, <5>1 DEF Terminator, shifter
      <4>2. Unsent' = <<>> \o Rest(data, idx, z)
        BY <1>1, <1>2, <3>2, <4>1 DEF Unsent, Rest, shifter
      <4> QED
        BY <1>2, <3>4, <4>2, OneAhead
    <3>7. Channel!Deliver
      <4>1. host_clock /\ host_clock' /\ (~host_clock)' = ~host_clock /\ UNCHANGED queue
        BY <1>1, <1>2
      <4> QED
        BY <3>1, <3>5, <3>6, <4>1 DEF Channel!Deliver
    <3> QED
      BY <2>5, <3>7 DEF Channel!Next
  <2> QED
    BY <2>6, <2>7
<1> QED
  BY <1>3, <1>4

-----------------------------------------------------------------------------
(* A byte that the transmitter takes from data was the next one unsent.    *)
LEMMA FrameUp ==
  ASSUME Inv, FrameInv, ClockUp, Sample
  PROVE  FrameInv' /\ Waits
<1>1. /\ UNCHANGED <<host_clock, host_data, dev_data, queue, data>> /\ dev_clock'
      /\ UNCHANGED <<rx, received>> /\ state = "CLOCKUP"
  BY NoFall DEF ClockUp, KeyClock, shifter
<1>2. /\ host_clock /\ host_data /\ Sending /\ bit \in 0 .. 10 /\ byte \in Byte
      /\ idx \in 0 .. 4 /\ data \in [0 .. 3 -> Byte]
      /\ rx = IF bit = 10 THEN <<>> ELSE Frame(byte, bit + 1)
      /\ (bit # 10 => idx > 0) /\ idx \in Nat
  BY <1>1 DEF FrameInv, Sending, Fallen, Inv, TypeOK
<1>3. CASE UNCHANGED <<state, shifter>>
  <2>1. Waits
    <3>1. Sending' /\ (ByteOpen' <=> ByteOpen)
      BY <1>1, <1>2, <1>3 DEF Sending, ByteOpen, shifter
    <3> QED
      BY <1>1, <1>2, <1>3, <3>1, UnsentStays DEF Waits, shifter
  <2>2. FrameInv'
    BY <1>1, <1>2, <1>3 DEF FrameInv, Sending, Rising, Fallen, shifter
  <2> QED
    BY <2>1, <2>2
<1>4. CASE bit # 10 /\ state' = "DATA" /\ bit' = bit + 1 /\ UNCHANGED <<data, idx, byte>>
  <2>1. Waits
    <3>1. Sending' /\ (ByteOpen' <=> ByteOpen)
      BY <1>1, <1>2, <1>4 DEF Sending, ByteOpen
    <3> QED
      BY <1>1, <1>2, <1>4, <3>1, UnsentStays DEF Waits
  <2>2. rx' = Frame(byte, bit)'
    BY <1>1, <1>2, <1>4
  <2>3. FrameInv'
    BY <1>1, <1>2, <1>4, <2>2 DEF FrameInv, Sending, Rising, Fallen
  <2> QED
    BY <2>1, <2>3
<1>5. ASSUME bit = 10
      PROVE  /\ rx' = <<>>
             /\ \E z \in idx .. 3 :
                  /\ data[z] = 0 /\ \A j \in 0 .. z - 1 : data[j] # 0
                  /\ Unsent = Rest(data, idx, z)
  <2>1. PICK z \in idx .. 3 :
          /\ data[z] = 0 /\ \A j \in 0 .. z - 1 : data[j] # 0
          /\ Unsent = (IF ByteOpen THEN <<byte>> ELSE <<>>) \o Rest(data, idx, z)
    BY <1>2, UnsentIs
  <2>2. ~ByteOpen
    BY <1>1, <1>5 DEF ByteOpen
  <2>3. Rest(data, idx, z) \in Seq(Byte)
    BY <1>2, RestSeq
  <2>4. Unsent = Rest(data, idx, z)
    BY <1>2, <2>1, <2>2, <2>3, OneAhead
  <2> QED
    BY <1>1, <1>2, <1>5, <2>1, <2>4
<1>6. CASE bit = 10 /\ data[idx] = 0 /\ state' = "PRETRANSMIT" /\ UNCHANGED shifter
  <2>1. PICK z \in idx .. 3 :
          /\ data[z] = 0 /\ \A j \in 0 .. z - 1 : data[j] # 0
          /\ Unsent = Rest(data, idx, z)
    BY <1>5, <1>6
  <2>2. z = idx
    BY <1>2, <1>6, <2>1
  <2>3. Unsent = <<>>
    <3>1. Rest(data, idx, z) \in Seq(Byte) /\ Len(Rest(data, idx, z)) = z - idx
      BY <1>2, RestSeq
    <3>2. z - idx = 0
      BY <1>2, <2>2
    <3> QED
      BY <2>1, <3>1, <3>2
  <2>4. Unsent' = <<>>
    BY <1>6 DEF Unsent, Sending
  <2>5. FrameInv'
    BY <1>1, <1>2, <1>5, <1>6 DEF FrameInv, Sending, Rising, Fallen
  <2> QED
    BY <1>1, <2>3, <2>4, <2>5 DEF Waits
<1>7. CASE /\ bit = 10 /\ data[idx] # 0 /\ state' = "DATA"
           /\ byte' = data[idx] /\ idx' = idx + 1 /\ bit' = 0
  <2>1. PICK z \in idx .. 3 :
          /\ data[z] = 0 /\ \A j \in 0 .. z - 1 : data[j] # 0
          /\ Unsent = Rest(data, idx, z)
    BY <1>5, <1>7
  <2>2. idx \in 0 .. 3 /\ z \in idx + 1 .. 3
    BY <1>2, <1>7, <2>1
  <2>3. Unsent = <<data[idx]>> \o Rest(data, idx + 1, z)
    <3>1. data \in [0 .. 3 -> Byte]
      BY <1>2
    <3> DEFINE A == 0 .. 3
               B == idx + 1 .. 3
    <3>2. idx \in A /\ z \in B
      BY <2>2
    <3>3. \A d \in [A -> Byte] : \A i \in A : \A y \in i + 1 .. 3 :
            Rest(d, i, y) = <<d[i]>> \o Rest(d, i + 1, y)
      BY RestShrinks
    <3>4. Rest(data, idx, z) = <<data[idx]>> \o Rest(data, idx + 1, z)
      BY <3>1, <3>2, <3>3, Zenon
    <3> QED
      BY <2>1, <3>4, Zenon
  <2>4. Terminator(idx)' = z
    <3>1. idx + 1 \in Nat
      BY <2>2
    <3>2. (CHOOSE y \in idx + 1 .. 3 : data[y] = 0 /\ \A j \in idx + 1 .. y - 1 : data[j] # 0) = z
      BY <2>1, <2>2, <3>1, TerminatorIs
    <3> QED
      BY <1>1, <1>7, <3>2 DEF Terminator
  <2>5. Sending' /\ ByteOpen'
    BY <1>1, <1>7, <2>2 DEF Sending, ByteOpen
  <2>6. Unsent' = <<data[idx]>> \o Rest(data, idx + 1, z)
    BY <1>1, <1>7, <2>4, <2>5 DEF Unsent, Rest
  <2>7. Frame(byte, bit)' = <<>>
    <3>1. Len(Frame(byte', 0)) = 0 /\ Frame(byte', 0) \in Seq(BOOLEAN)
      BY FrameGrows
    <3>2. Frame(byte', 0) = <<>>
      BY <3>1
    <3> QED
      BY <1>7, <3>2
  <2>8. rx' = Frame(byte, bit)' /\ idx' > 0
    BY <1>5, <1>7, <2>2, <2>7
  <2>9. FrameInv'
    BY <1>1, <1>2, <1>7, <2>8 DEF FrameInv, Sending, Rising, Fallen
  <2> QED
    BY <1>1, <2>3, <2>6, <2>9 DEF Waits
<1> QED
  BY <1>3, <1>4, <1>6, <1>7 DEF ClockUp

(* What the computer does to the lines, and what happens at the keyboard.  *)
LEMMA FrameHold ==
  ASSUME NEW level \in BOOLEAN, HoldClock(level)
  PROVE  FrameInv' /\ [Channel!Next]_(Channel!vars)
<1>1. state' = "INHIBIT" /\ ~host_clock' /\ rx' = <<>> /\ UNCHANGED <<queue, received>>
  BY DEF HoldClock, PullKeyLines
<1>2. FrameInv'
  BY <1>1 DEF FrameInv, Sending, Rising, Fallen
<1>3. Channel!Stop
  BY <1>1 DEF Channel!Stop, Unsent, Sending
<1> QED
  BY <1>2, <1>3 DEF Channel!Next

LEMMA FrameRelease ==
  ASSUME FrameInv, ReleaseClock
  PROVE  FrameInv' /\ [Channel!Next]_(Channel!vars)
<1>1. /\ state = "INHIBIT" /\ state' = "INHIBIT" /\ ~host_clock /\ host_clock' /\ host_data'
      /\ UNCHANGED <<queue, received, rx>>
  BY DEF FrameInv, ReleaseClock, PullKeyLines
<1>2. FrameInv'
  BY <1>1 DEF FrameInv, Sending, Rising, Fallen
<1>3. Channel!Resume
  BY <1>1 DEF Channel!Resume, Unsent, Sending
<1> QED
  BY <1>2, <1>3 DEF Channel!Next

LEMMA FrameSame ==
  ASSUME FrameInv, UNCHANGED <<state, shifter, lines, rx>>
  PROVE  FrameInv' /\ Unsent' = Unsent
<1>1. FrameInv'
  BY DEF FrameInv, Sending, Rising, Fallen, shifter, lines
<1>2. Unsent' = Unsent
  BY UnsentStays DEF Sending, ByteOpen, shifter, lines
<1> QED
  BY <1>1, <1>2

LEMMA FrameStep ==
  ASSUME Inv, FrameInv, [LinkNext]_linkVars
  PROVE  FrameInv' /\ [Channel!Next]_(Channel!vars)
<1>1. CASE LinkClock
  BY <1>1, FrameInhibit, FramePretransmit, FrameData, FrameDown, FrameUp, WaitsIs
     DEF LinkClock, Clock
<1>2. ASSUME NEW e \in Event, Press(e)
      PROVE  FrameInv' /\ [Channel!Next]_(Channel!vars)
  <2>1. UNCHANGED <<state, shifter, lines, rx, received>> /\ queue' = Append(queue, e)
    BY <1>2 DEF Press, KeyEvent
  <2>2. FrameInv' /\ Unsent' = Unsent
    BY <2>1, FrameSame
  <2>3. Channel!Press(e)
    BY <2>1, <2>2 DEF Channel!Press, lines
  <2> QED
    BY <2>2, <2>3 DEF Channel!Next
<1>3. CASE \E level \in BOOLEAN : HoldClock(level)
  BY <1>3, FrameHold
<1>4. CASE ReleaseClock
  BY <1>4, FrameRelease
<1>5. CASE UNCHANGED linkVars
  <2>1. UNCHANGED <<state, shifter, lines, rx, received, queue>>
    BY <1>5 DEF linkVars, vars
  <2> QED
    BY <2>1, FrameSame, WaitsIs DEF Waits, lines
<1> QED
  BY <1>1, <1>2, <1>3, <1>4, <1>5 DEF LinkNext

LEMMA FrameInit == LinkInit => FrameInv /\ Channel!Init
BY DEF LinkInit, Init, FrameInv, Sending, Rising, Fallen, Unsent, Channel!Init

(* Clocking a byte out bit by bit, through every delay, hold and key event *)
(* between two bits, is for the computer to receive the scan codes of the  *)
(* events whole, in order and once.                                        *)
THEOREM LinkImplementsChannel == LinkSpec => ImplementsChannel
<1>1. LinkInit => FrameInv /\ Channel!Init
  BY FrameInit
<1>2. Inv /\ FrameInv /\ [LinkNext]_linkVars => FrameInv' /\ [Channel!Next]_(Channel!vars)
  BY FrameStep
<1> QED
  BY <1>1, <1>2, LinkInv, PTL DEF LinkSpec, ImplementsChannel, Channel!Spec

=============================================================================
