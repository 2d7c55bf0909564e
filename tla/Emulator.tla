------------------------------ MODULE Emulator ------------------------------
(***************************************************************************)
(* The whole emulator: the loop of src/emulator/src/interface.c, which     *)
(* polls the terminal and clocks the keyboard, the processor and the       *)
(* display in that order, and the user, the keyboard library and the       *)
(* window, which act between any two of its steps.                         *)
(*                                                                         *)
(* pc is where the one thread of the program is:                           *)
(*   "terminal"  about to call updateTerminal                              *)
(*   "running"   about to test running                                     *)
(*   "keyboard", "cpu", "display"   inside clockSystem                     *)
(*   "exited"    after exit(0)                                             *)
(* and caller is what clockSystem returns to: the loop, the single clock   *)
(* of inputCode, or stepInstruction.                                       *)
(***************************************************************************)
EXTENDS Cpu, Display

CONSTANTS
  CLOCK_PERIOD,              \* of a system clock, 400 ns in the code
  KEYBOARD_PERIOD, PRETRANSMIT_TIME, KeyCodes, KEY_TABLE, MaxQueue,  \* see Keyboard
  RunOption,                 \* whether --run was given: TRUE, FALSE or either
  MaxPresses,                \* bound: key events
  MaxInputs                  \* bound: keys typed at the terminal

ASSUME EmulatorAssumption ==
  /\ CLOCK_PERIOD \in 1 .. INTERRUPT_TIME  \* no clock is longer than a frame
  /\ RunOption \subseteq BOOLEAN

VARIABLES
  kstate, kelapsed, kdata, kidx, kbyte, kbit, kqueue,  \* the keyboard, see Keyboard
  pc, caller,
  running,                   \* running of interface.c
  focus,                     \* "CONSOLE" or "CODE", the window that has the focus
  typed,                     \* key or command line the terminal has not read yet
  presses, inputs            \* counters behind the two bounds

keyboardVars == <<dev_clock, dev_data, kstate, kelapsed, kdata, kidx, kbyte, kbit, kqueue>>
loopVars     == <<pc, caller, running, focus>>
userVars     == <<typed, presses, inputs>>
emulatorVars == <<cpu, bus, displayVars, keyboardVars, loopVars, userVars>>

(* The lines' far ends are fields of bus; the near ends are shared by name. *)
Kbd == INSTANCE Keyboard WITH
  CLOCK_PERIOD <- KEYBOARD_PERIOD, STEP_TIME <- CLOCK_PERIOD,
  state <- kstate, elapsed <- kelapsed, data <- kdata, idx <- kidx, byte <- kbyte,
  bit <- kbit, queue <- kqueue,
  host_clock <- bus.host_clock, host_data <- bus.host_data

NoInput  == "none"
Commands == {"run", "halt", "reset", "quit"}
Keys     == {"F2", "F6", "UP", "RIGHT", "other"} \cup Commands

EmulatorInit ==
  /\ cpu = PowerOn
  /\ \E image \in Images, rest \in Junk : bus = InitMemory(image, rest)
  /\ Kbd!Init
  /\ DisplayInit
  /\ pc = "terminal" /\ caller = "loop" /\ running \in RunOption
  /\ focus = "CONSOLE"
  /\ typed = NoInput /\ presses = 0 /\ inputs = 0

-----------------------------------------------------------------------------
(* The loop.                                                               *)

(* updateTerminal: the function keys move the focus, and all but F2 halt   *)
(* the machine; other keys go to the window that has the focus.            *)
FunctionKey ==
  /\ typed \in {"F2", "F6"}
  /\ focus' = IF typed = "F2" THEN "CONSOLE" ELSE "CODE"
  /\ running' = (running /\ typed = "F2")
  /\ pc' = "running"
  /\ UNCHANGED <<cpu, caller>>

(* inputCode: one clock, or the clocks of one instruction.                 *)
StepKey ==
  /\ focus = "CODE" /\ typed \in {"UP", "RIGHT"}
  /\ pc' = "keyboard"
  /\ caller' = IF typed = "UP" THEN "clock" ELSE "step"
  /\ UNCHANGED <<cpu, running, focus>>

(* runCommand                                                              *)
Command ==
  /\ focus = "CONSOLE" /\ typed \in Commands
  /\ running' = CASE typed = "run" -> TRUE [] typed = "halt" -> FALSE [] OTHER -> running
  /\ IF typed = "reset" THEN ResetCPU ELSE UNCHANGED cpu
  /\ pc' = IF typed = "quit" THEN "exited" ELSE "running"
  /\ UNCHANGED <<caller, focus>>

NothingToDo ==
  /\ \/ typed \in {NoInput, "other"}
     \/ focus = "CODE" /\ typed \in Commands
     \/ focus = "CONSOLE" /\ typed \in {"UP", "RIGHT"}
  /\ pc' = "running"
  /\ UNCHANGED <<cpu, caller, running, focus>>

UpdateTerminal ==
  /\ pc = "terminal"
  /\ FunctionKey \/ StepKey \/ Command \/ NothingToDo
  /\ typed' = NoInput
  /\ UNCHANGED <<bus, displayVars, keyboardVars, presses, inputs>>

(* clockDisplay: the frame interrupt, then at most one window event.       *)
DisplayFor(step_time, return) ==
  /\ ClockDisplay(step_time)
  /\ bus' = IF FrameDone(step_time)
            THEN [bus EXCEPT !.irq = GenerateInterrupt(@, INTER_0)] ELSE bus
  /\ pc' = IF Closes THEN "exited" ELSE return
  /\ UNCHANGED <<cpu, keyboardVars, caller, running, focus, userVars>>

(* A halted machine only keeps its window alive.                           *)
EnterClockSystem ==
  /\ pc = "running" /\ running
  /\ pc' = "keyboard" /\ caller' = "loop"
  /\ UNCHANGED <<cpu, bus, displayVars, keyboardVars, running, focus, userVars>>

Idle == pc = "running" /\ ~running /\ DisplayFor(0, "terminal")

(* clockSystem                                                             *)
ClockKeyboard ==
  /\ pc = "keyboard"
  /\ UNCHANGED bus
  /\ Kbd!Clock
  /\ pc' = "cpu"
  /\ UNCHANGED <<cpu, displayVars, caller, running, focus, userVars>>

ClockProcessor ==
  /\ pc = "cpu"
  /\ ClockCPU
  /\ IF WritesLines
     THEN Kbd!PullKeyLines(bus'.host_clock, bus'.host_data)
     ELSE UNCHANGED keyboardVars
  /\ pc' = "display"
  /\ UNCHANGED <<displayVars, caller, running, focus, userVars>>

ClockScreen ==
  /\ pc = "display"
  /\ DisplayFor(CLOCK_PERIOD,
       CASE caller = "loop"  -> "terminal"
         [] caller = "clock" -> "running"
         [] caller = "step"  -> IF cpu.step = 0 THEN "running" ELSE "keyboard")

Thread ==
  UpdateTerminal \/ EnterClockSystem \/ Idle \/ ClockKeyboard \/ ClockProcessor \/ ClockScreen

-----------------------------------------------------------------------------
(* The world around it. What arrives between two polls waits for the next  *)
(* one, so it arrives here just before the poll: a key of the terminal     *)
(* before updateTerminal, an event of either library before the clock call *)
(* that takes it.                                                          *)

Type(key) ==
  /\ pc = "terminal" /\ typed = NoInput /\ inputs < MaxInputs
  /\ typed' = key /\ inputs' = inputs + 1
  /\ UNCHANGED <<cpu, bus, displayVars, keyboardVars, loopVars, presses>>

PressKey(e) ==
  /\ pc = "keyboard" /\ presses < MaxPresses
  /\ UNCHANGED bus
  /\ Kbd!KeyEvent(e)
  /\ presses' = presses + 1
  /\ UNCHANGED <<cpu, displayVars, loopVars, typed, inputs>>

UseWindow(e) ==
  /\ pc = "display" \/ (pc = "running" /\ ~running)
  /\ WindowEvent(e)
  /\ UNCHANGED <<cpu, bus, keyboardVars, loopVars, userVars>>

EmulatorNext ==
  \/ Thread
  \/ \E key \in Keys : Type(key)
  \/ \E e \in Kbd!Event : PressKey(e)
  \/ \E e \in {"CLOSE", "OTHER"} : UseWindow(e)

EmulatorSpec == EmulatorInit /\ [][EmulatorNext]_emulatorVars

(* The operating system keeps running the one thread of the program.       *)
EmulatorFairSpec == EmulatorSpec /\ WF_emulatorVars(Thread)

-----------------------------------------------------------------------------
(* Properties                                                              *)

TypeOK ==
  /\ cpu \in Registers
  /\ bus.irq \in Latches
  /\ frame_elapsed \in 0 .. INTERRUPT_TIME - 1
  /\ pc \in {"terminal", "running", "keyboard", "cpu", "display", "exited"}
  /\ caller \in {"loop", "clock", "step"} /\ running \in BOOLEAN

(* While the computer holds the keyboard's clock line low the keyboard     *)
(* does not transmit, whatever state the write found it in.                *)
HoldStopsKeyboard == ~bus.host_clock => kstate = "INHIBIT"

(* An acknowledged interrupt is gone by the next instruction: although the *)
(* CPU only sees the latches as they were when it fetched an opcode, no    *)
(* fetch brings back an interrupt whose reset line is low or whose latch   *)
(* the program has cleared.                                                *)
NoStaleInterrupt ==
  [][FetchesOpcode /\ pc = "cpu" /\ pc' = "display" =>
       \A i \in Inter : GetInterrupt(bus'.irq, i) => bus'.irq.in[i] /\ bus'.irq.reset[i]
    ]_emulatorVars

(* A reset, whenever it comes, even inside an instruction, an interrupt    *)
(* entry or an opcode that never ends, leaves the machine in the one state *)
(* a program can rely on.                                                  *)
Vector(address) == ReadFlash([bus EXCEPT !.bank = 0], address) +
                   256 * ReadFlash([bus EXCEPT !.bank = 0], address + 1)

Booted ==
  [step |-> 0, reset |-> FALSE, A |-> 0, X |-> 0, K |-> 0, C |-> 0, F |-> FLAG_Z,
   P |-> 0, B |-> 0, S |-> 0, I |-> Vector(65530), T |-> 0]

ResetBoots ==
  [][cpu.reset /\ ~cpu'.reset => [cpu' EXCEPT !.C = 0] = Booted]_emulatorVars

(* ... and a running machine gets there.                                   *)
ResetEnds == (cpu.reset /\ running) ~> (~cpu.reset \/ ~running \/ pc = "exited")

(* stepInstruction always comes back to the user, whatever opcode it meets.*)
StepReturns == (pc = "keyboard" /\ caller = "step") ~> (pc \in {"running", "exited"})

(* The five bytes an interrupt entry pushes are the interrupted program's  *)
(* flags, accumulator, instruction pointer and bank, ready for rti.        *)
InInterrupt == ~cpu.reset /\ Pending /\ Flag(cpu.F, FLAG_I) /\ cpu.F < 16

StackByte(n) == ReadMemory(bus, dev, (cpu.S + n) % 65536)

InterruptSavesState ==
  InInterrupt /\ cpu.step = 5 /\ cpu.S \in RAM_START .. IO_START - 8 =>
    /\ StackByte(0) = cpu.F /\ StackByte(1) = cpu.A
    /\ StackByte(2) = Low(cpu.I) /\ StackByte(3) = High(cpu.I) /\ StackByte(4) = cpu.K

(* microcode.src:127: an interrupt entry ends with "I=[$FFFE]", in the     *)
(* handler.                                                                *)
HandlerReached ==
  (InInterrupt /\ cpu.step = 5) ~> (cpu.step = 0 /\ cpu.I = Vector(65534))

=============================================================================
