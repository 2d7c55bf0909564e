--------------------------- MODULE EmulatorProofs ---------------------------
(***************************************************************************)
(* Proofs about the whole emulator, for every flash image, every content   *)
(* of fresh memory, every microcode word and every period and bound: what  *)
(* the processor does to the interrupt latches, to the keyboard's lines    *)
(* and to its own registers does not depend on the program it runs, and a  *)
(* reset leads to one state from wherever it comes.                        *)
(***************************************************************************)
EXTENDS Emulator, CpuLemmas

(* A keyboard that is held low is inhibited; the bus stays good.           *)
Inv == GoodBus(bus) /\ HoldStopsKeyboard

LEMMA InvInit == EmulatorInit => Inv
<1> SUFFICES ASSUME EmulatorInit PROVE Inv
  OBVIOUS
<1>1. PICK image \in Images, rest \in Junk : bus = InitMemory(image, rest)
  BY DEF EmulatorInit
<1> QED
  BY <1>1, InitMemoryGood DEF Inv, HoldStopsKeyboard

(* A clock of the processor: a write to the output register tells the      *)
(* keyboard, and nothing else moves its clock line.                        *)
LEMMA InvProcessor == Inv /\ ClockProcessor => Inv'
<1> SUFFICES ASSUME Inv, ClockProcessor PROVE Inv'
  OBVIOUS
<1> DEFINE control == Control
           address == AddressOut(control)
           byte    == DataBus(control, address)
<1>1. bus' = Driven(control, address, byte)
  BY DEF ClockProcessor, ClockCPU
<1>2. GoodBus(bus)
  BY DEF Inv
<1>3. WritesLines <=> "MI" \in control /\ HitsOutput(address)
  BY DEF WritesLines
<1> HIDE DEF control, address, byte
<1>4. GoodBus(bus') /\ (bus'.host_clock # bus.host_clock => "MI" \in control /\ HitsOutput(address))
  <2>1. CASE "CI" \in control
    <3>1. bus' = [bus EXCEPT !.irq = ReadInterrupts(bus.irq)]
      BY <1>1, <1>2, <2>1 DEF Driven, GoodBus, BusFields
    <3> QED
      BY <1>2, <3>1, IrqGood, ReadGood DEF GoodBus
  <2>2. CASE "CI" \notin control /\ "MI" \in control
    BY <1>1, <1>2, <2>2, WriteMemoryGood DEF Driven
  <2>3. CASE "CI" \notin control /\ "MI" \notin control
    BY <1>1, <1>2, <2>3, BankGood DEF Driven
  <2> QED
    BY <2>1, <2>2, <2>3
<1>5. CASE WritesLines
  BY <1>4, <1>5 DEF ClockProcessor, Kbd!PullKeyLines, Inv, HoldStopsKeyboard
<1>6. CASE ~WritesLines
  <2>1. bus'.host_clock = bus.host_clock /\ UNCHANGED kstate
    BY <1>3, <1>4, <1>6 DEF ClockProcessor, keyboardVars
  <2> QED
    BY <1>4, <2>1 DEF Inv, HoldStopsKeyboard
<1> QED
  BY <1>5, <1>6

(* The frame interrupt only touches the latches.                           *)
LEMMA InvDisplay ==
  ASSUME NEW step_time, NEW return
  PROVE  Inv /\ DisplayFor(step_time, return) => Inv'
<1> SUFFICES ASSUME Inv, DisplayFor(step_time, return) PROVE Inv'
  OBVIOUS
<1>1. UNCHANGED kstate
  BY DEF DisplayFor, keyboardVars
<1>2. CASE FrameDone(step_time)
  <2>1. bus' = [bus EXCEPT !.irq = GenerateInterrupt(bus.irq, INTER_0)]
    BY <1>2 DEF DisplayFor, Inv, GoodBus, BusFields
  <2>2. GoodLatches(GenerateInterrupt(bus.irq, INTER_0))
    BY GenerateGood DEF Inv, GoodBus, Inter
  <2> QED
    BY <1>1, <2>1, <2>2, IrqGood DEF Inv, HoldStopsKeyboard
<1>3. CASE ~FrameDone(step_time)
  BY <1>1, <1>3 DEF DisplayFor, Inv, HoldStopsKeyboard
<1> QED
  BY <1>2, <1>3

(* A clock of the keyboard does not leave INHIBIT on a line held low.      *)
LEMMA InvKeyboard == Inv /\ ClockKeyboard => Inv'
BY DEF ClockKeyboard, Kbd!Clock, Kbd!ClockInhibit, Kbd!ClockPretransmit, Kbd!ClockData,
       Kbd!ClockDown, Kbd!ClockUp, Kbd!KeyClock, Inv, HoldStopsKeyboard

LEMMA InvStep == Inv /\ [EmulatorNext]_emulatorVars => Inv'
<1> SUFFICES ASSUME Inv, [EmulatorNext]_emulatorVars PROVE Inv'
  OBVIOUS
<1> USE DEF Inv, HoldStopsKeyboard
<1>1. CASE UpdateTerminal
  BY <1>1 DEF UpdateTerminal, keyboardVars
<1>2. CASE EnterClockSystem
  BY <1>2 DEF EnterClockSystem, keyboardVars
<1>3. CASE Idle
  BY <1>3, InvDisplay DEF Idle
<1>4. CASE ClockKeyboard
  BY <1>4, InvKeyboard
<1>5. CASE ClockProcessor
  BY <1>5, InvProcessor
<1>6. CASE ClockScreen
  BY <1>6, InvDisplay DEF ClockScreen
<1>7. CASE \E key \in Keys : Type(key)
  BY <1>7 DEF Type, keyboardVars
<1>8. CASE \E e \in Kbd!Event : PressKey(e)
  BY <1>8 DEF PressKey, Kbd!KeyEvent
<1>9. CASE \E e \in {"CLOSE", "OTHER"} : UseWindow(e)
  BY <1>9 DEF UseWindow, keyboardVars
<1>10. CASE UNCHANGED emulatorVars
  BY <1>10 DEF emulatorVars, keyboardVars
<1> QED
  BY <1>1, <1>2, <1>3, <1>4, <1>5, <1>6, <1>7, <1>8, <1>9, <1>10 DEF EmulatorNext, Thread

LEMMA EmulatorInv == EmulatorSpec => []Inv
BY InvInit, InvStep, PTL DEF EmulatorSpec

(* Whatever program runs, and however its stores hit the output register,  *)
(* the keyboard does not transmit while the computer holds its clock line. *)
THEOREM EmulatorHoldsKeyboard == EmulatorSpec => []HoldStopsKeyboard
<1>1. Inv => HoldStopsKeyboard
  BY DEF Inv
<1> QED
  BY <1>1, EmulatorInv, PTL

(* No instruction fetch brings back an acknowledged interrupt, whatever    *)
(* the order of frames, fetches, acknowledgements and resets.              *)
THEOREM EmulatorForgetsInterrupts == EmulatorSpec => NoStaleInterrupt
<1> DEFINE Fresh ==
      FetchesOpcode /\ pc = "cpu" /\ pc' = "display" =>
        \A i \in Inter : GetInterrupt(bus'.irq, i) => bus'.irq.in[i] /\ bus'.irq.reset[i]
<1>1. Inv /\ [EmulatorNext]_emulatorVars => [Fresh]_emulatorVars
  <2> SUFFICES ASSUME Inv, [EmulatorNext]_emulatorVars, FetchesOpcode, pc = "cpu", pc' = "display",
                      NEW i \in Inter, GetInterrupt(bus'.irq, i)
               PROVE  bus'.irq.in[i] /\ bus'.irq.reset[i]
    OBVIOUS
  <2>1. ClockProcessor
    BY DEF EmulatorNext, Thread, UpdateTerminal, EnterClockSystem, Idle, ClockKeyboard,
           ClockScreen, Type, PressKey, UseWindow, emulatorVars, loopVars
  <2>2. bus' = [bus EXCEPT !.irq = ReadInterrupts(bus.irq)]
    BY <2>1 DEF ClockProcessor, ClockCPU, Driven, FetchesOpcode, Inv, GoodBus, BusFields
  <2>3. bus'.irq = ReadInterrupts(bus.irq)
    BY <2>2, IrqGood, ReadGood DEF Inv, GoodBus
  <2> QED
    BY <2>3, ReadGood DEF Inv, GoodBus
<1> QED
  BY <1>1, EmulatorInv, PTL DEF EmulatorSpec, NoStaleInterrupt


-----------------------------------------------------------------------------
(* Types.                                                                  *)
TypeInv ==
  /\ cpu \in Registers /\ GoodCells(bus)
  /\ frame_elapsed \in 0 .. INTERRUPT_TIME - 1
  /\ pc \in {"terminal", "running", "keyboard", "cpu", "display", "exited"}
  /\ caller \in {"loop", "clock", "step"} /\ running \in BOOLEAN

LEMMA IrqCells ==
  ASSUME NEW b, GoodBus(b), NEW irq
  PROVE  LET c == [b EXCEPT !.irq = irq]
         IN  /\ c.vram = b.vram /\ c.ram = b.ram /\ c.flash = b.flash
             /\ c.junk = b.junk /\ c.bank = b.bank
BY DEF GoodBus, BusFields

LEMMA ResetRegisters ==
  ASSUME cpu \in Registers, ResetCPU
  PROVE  cpu' \in Registers
<1> DEFINE first == 0
           yes == TRUE
<1>1. first \in 0 .. 15 /\ yes \in BOOLEAN
  OBVIOUS
<1>2. cpu' = [cpu EXCEPT !.step = first, !.reset = yes]
  BY DEF ResetCPU
<1> HIDE DEF first, yes
<1> QED
  BY <1>1, <1>2, Zenon DEF Registers

(* The frame interrupt leaves memory and processor alone.                  *)
LEMMA DisplayKeeps ==
  ASSUME NEW step_time, NEW return, GoodBus(bus), DisplayFor(step_time, return)
  PROVE  /\ cpu' = cpu /\ bus'.flash = bus.flash /\ bus'.junk = bus.junk /\ bus'.bank = bus.bank
         /\ GoodCells(bus) => GoodCells(bus)'
<1>1. \/ bus' = [bus EXCEPT !.irq = GenerateInterrupt(bus.irq, INTER_0)]
      \/ bus' = bus
  BY DEF DisplayFor, GoodBus, BusFields
<1> QED
  BY <1>1, IrqCells DEF DisplayFor, GoodCells

LEMMA TypesDisplay ==
  ASSUME NEW step_time \in 0 .. INTERRUPT_TIME, NEW return \in {"terminal", "running", "keyboard"}
  PROVE  Inv /\ TypeInv /\ DisplayFor(step_time, return) => TypeInv'
<1> SUFFICES ASSUME Inv, TypeInv, DisplayFor(step_time, return) PROVE TypeInv'
  OBVIOUS
<1>1. cpu' = cpu /\ GoodCells(bus)'
  BY DisplayKeeps DEF Inv, TypeInv
<1>2. frame_elapsed' \in 0 .. INTERRUPT_TIME - 1
  BY FrameAssumption DEF DisplayFor, ClockDisplay, FrameDone, TypeInv
<1>3. pc' \in {"exited", return} /\ caller' = caller /\ running' = running
  BY DEF DisplayFor
<1> QED
  BY <1>1, <1>2, <1>3 DEF TypeInv

LEMMA TypesStep == Inv /\ TypeInv /\ [EmulatorNext]_emulatorVars => TypeInv'
<1> SUFFICES ASSUME Inv, TypeInv, [EmulatorNext]_emulatorVars PROVE TypeInv'
  OBVIOUS
<1>1. ASSUME UNCHANGED <<cpu, bus, displayVars>>,
             pc' \in {"terminal", "running", "keyboard", "cpu", "display", "exited"},
             caller' \in {"loop", "clock", "step"}, running' \in BOOLEAN
      PROVE  TypeInv'
  BY <1>1 DEF TypeInv, GoodCells, displayVars
<1>2. CASE UpdateTerminal
  <2>1. cpu' \in Registers
    BY <1>2, ResetRegisters
       DEF UpdateTerminal, FunctionKey, StepKey, Command, NothingToDo, TypeInv
  <2>2. /\ pc' \in {"running", "keyboard", "exited"} /\ running' \in BOOLEAN
        /\ caller' \in {"loop", "clock", "step"} /\ UNCHANGED <<bus, displayVars>>
    BY <1>2 DEF UpdateTerminal, FunctionKey, StepKey, Command, NothingToDo, TypeInv
  <2> QED
    BY <2>1, <2>2 DEF TypeInv, GoodCells, displayVars
<1>3. CASE EnterClockSystem
  BY <1>1, <1>3 DEF EnterClockSystem, TypeInv
<1>4. CASE Idle
  <2>1. 0 \in 0 .. INTERRUPT_TIME
    BY FrameAssumption
  <2> QED
    BY <1>4, <2>1, TypesDisplay DEF Idle
<1>5. CASE ClockKeyboard
  BY <1>1, <1>5 DEF ClockKeyboard, TypeInv
<1>6. CASE ClockProcessor
  <2>1. cpu' \in Registers /\ GoodCells(bus)'
    BY <1>6, ClockGood DEF ClockProcessor, Inv, TypeInv
  <2> QED
    BY <1>6, <2>1 DEF ClockProcessor, displayVars, TypeInv
<1>7. CASE ClockScreen
  <2> DEFINE return == CASE caller = "loop"  -> "terminal"
                         [] caller = "clock" -> "running"
                         [] caller = "step"  -> IF cpu.step = 0 THEN "running" ELSE "keyboard"
  <2>1. return \in {"terminal", "running", "keyboard"}
    BY DEF TypeInv
  <2>2. DisplayFor(CLOCK_PERIOD, return)
    BY <1>7 DEF ClockScreen
  <2> HIDE DEF return
  <2>3. CLOCK_PERIOD \in 0 .. INTERRUPT_TIME
    BY EmulatorAssumption, FrameAssumption
  <2> QED
    BY <2>1, <2>2, <2>3, TypesDisplay
<1>8. CASE \E key \in Keys : Type(key)
  BY <1>1, <1>8 DEF Type, loopVars, TypeInv
<1>9. CASE \E e \in Kbd!Event : PressKey(e)
  BY <1>1, <1>9 DEF PressKey, loopVars, TypeInv
<1>10. CASE \E e \in {"CLOSE", "OTHER"} : UseWindow(e)
  BY <1>10 DEF UseWindow, WindowEvent, loopVars, TypeInv, GoodCells
<1>11. CASE UNCHANGED emulatorVars
  BY <1>1, <1>11 DEF emulatorVars, loopVars, TypeInv
<1> QED
  BY <1>2, <1>3, <1>4, <1>5, <1>6, <1>7, <1>8, <1>9, <1>10, <1>11 DEF EmulatorNext, Thread

LEMMA EmulatorTypeInv == EmulatorSpec => []TypeInv
<1>1. EmulatorInit => TypeInv
  <2> SUFFICES ASSUME EmulatorInit PROVE TypeInv
    OBVIOUS
  <2>1. PICK image \in Images, rest \in Junk : bus = InitMemory(image, rest)
    BY DEF EmulatorInit
  <2>2. PowerOn \in Registers
    BY DEF PowerOn, Registers, Byte, Word
  <2> QED
    BY <2>1, <2>2, InitCells, FrameAssumption, EmulatorAssumption
       DEF EmulatorInit, DisplayInit, TypeInv
<1> QED
  BY <1>1, TypesStep, EmulatorInv, PTL DEF EmulatorSpec

(* Every register, latch and timer keeps its width and the loop never      *)
(* loses its place, whatever bytes are executed, typed or clicked on.      *)
THEOREM EmulatorTypes == EmulatorSpec => []TypeOK
<1>1. Inv /\ TypeInv => TypeOK
  BY DEF Inv, TypeInv, TypeOK, GoodBus, GoodLatches
<1> QED
  BY <1>1, EmulatorInv, EmulatorTypeInv, PTL

-----------------------------------------------------------------------------
(* What the steps of a reset have done so far.                             *)
Rom(address) == ReadFlash([bus EXCEPT !.bank = 0], address)

BootInv ==
  cpu.reset =>
    /\ cpu.step \in 0 .. 12
    /\ cpu.step = 1 => Low(cpu.T) = 255
    /\ cpu.step \in 2 .. 5 => cpu.T = 65535
    /\ cpu.step \in 3 .. 6 => cpu.P = 65537 - cpu.step
    /\ cpu.step >= 3 => cpu.A = 0
    /\ cpu.step >= 4 => cpu.X = 0
    /\ cpu.step = 4 => cpu.F = 0
    /\ cpu.step >= 5 => cpu.K = 0 /\ cpu.F = FLAG_Z /\ bus.bank = 0
    /\ cpu.step = 6 => cpu.T = 256 * Rom(65531) + 255
    /\ cpu.step = 7 => cpu.T = Vector(65530)
    /\ cpu.step >= 8 => cpu.I = Vector(65530)
    /\ cpu.step = 8 => Low(cpu.T) = 0
    /\ cpu.step >= 9 => cpu.T = 0
    /\ cpu.step >= 10 => cpu.P = 0
    /\ cpu.step >= 11 => cpu.B = 0
    /\ cpu.step >= 12 => cpu.S = 0

LEMMA RomSame ==
  ASSUME GoodBus(bus), GoodBus(bus)', bus'.flash = bus.flash, bus'.junk = bus.junk, NEW address
  PROVE  Rom(address)' = Rom(address)
BY DEF Rom, ReadFlash, GoodBus, BusFields

LEMMA RomIs ==
  ASSUME GoodBus(bus), bus.bank = 0, NEW address
  PROVE  ReadFlash(bus, address) = Rom(address)
BY DEF Rom, ReadFlash, GoodBus, BusFields

LEMMA RomByte ==
  ASSUME GoodBus(bus), GoodCells(bus), NEW address
  PROVE  Rom(address) \in Byte
<1> DEFINE b == [bus EXCEPT !.bank = 0]
<1>1. b.flash = bus.flash /\ b.junk = bus.junk
  BY DEF GoodBus, BusFields
<1>2. \A a : Cell(bus.flash, a, ERASED) \in Byte
  BY DEF Cell, GoodCells, ERASED, Byte
<1>3. bus.junk \in Byte
  BY DEF GoodCells
<1> HIDE DEF b
<1>4. ReadFlash(b, address) \in Byte
  BY <1>1, <1>2, <1>3 DEF ReadFlash
<1> QED
  BY <1>4 DEF Rom, b

LEMMA VectorIs ==
  ASSUME GoodBus(bus), GoodCells(bus)
  PROVE  Vector(65530) = 256 * Rom(65531) + Rom(65530)
<1> DEFINE low == Rom(65530)  high == Rom(65531)
<1>1. Vector(65530) = low + 256 * high
  BY DEF Vector, Rom
<1>2. low \in Byte /\ high \in Byte
  BY RomByte
<1> HIDE DEF low, high
<1>3. low + 256 * high = 256 * high + low
  BY <1>2 DEF Byte
<1> QED
  BY <1>1, <1>3 DEF low, high

LEMMA BootClock ==
  ASSUME cpu \in Registers, GoodBus(bus), GoodCells(bus), BootInv, cpu.reset, ClockCPU
  PROVE  BootInv' /\ (~cpu'.reset => [cpu' EXCEPT !.C = 0] = Booted)
<1> DEFINE control == Control
           address == AddressOut(control)
           byte    == DataBus(control, address)
           alu     == CalcALU(cpu.A, byte, cpu.F, control)
<1>1. cpu' = Loaded(control, address, byte) /\ bus' = Driven(control, address, byte)
  BY DEF ClockCPU
<1>2. cpu.step \in 0 .. 12 /\ control = ResetLines[cpu.step + 1].word
  BY ResetControl DEF BootInv
<1>3. AddressOut(control) = address /\ DataBus(control, address) = byte
  OBVIOUS
<1> HIDE DEF control
<1>4. GoodWord(control)
  BY ControlGood DEF Registers, control
<1>5. address \in Word
  BY <1>4, AddressGood
<1> HIDE DEF address
<1>6. byte \in Byte
  BY <1>5, DataGood
<1> HIDE DEF byte
<1>7. /\ cpu'.P = IF "PI" \in control THEN address ELSE cpu.P
      /\ cpu'.B = IF "BI" \in control THEN address ELSE cpu.B
      /\ cpu'.S = IF "SI" \in control THEN address ELSE cpu.S
      /\ cpu'.I = IF "II" \in control THEN address ELSE cpu.I
      /\ cpu'.F = IF "FI" \in control /\ "FD" \in control THEN byte
                  ELSE IF "FI" \in control THEN alu.flags ELSE cpu.F
      /\ cpu'.A = IF "AI" \in control THEN alu.out ELSE cpu.A
      /\ cpu'.X = IF "XI" \in control THEN byte ELSE cpu.X
      /\ cpu'.K = IF "KI" \in control THEN byte ELSE cpu.K
      /\ cpu'.T = CASE "TL" \in control -> 256 * High(cpu.T) + byte
                    [] "TH" \in control -> 256 * byte + Low(cpu.T)
                    [] OTHER            -> cpu.T
      /\ cpu'.reset = (cpu.reset /\ "CI" \notin control)
      /\ cpu'.step = IF "CI" \in control THEN 0 ELSE (cpu.step + 1) % 16
  BY <1>1, ClockLoads
<1>8. /\ cpu' \in Registers /\ GoodBus(bus)' /\ bus'.flash = bus.flash /\ bus'.junk = bus.junk
      /\ bus'.bank = IF "KI" \in control /\ "CI" \notin control /\ "MI" \notin control
                     THEN byte ELSE bus.bank
  BY <1>1, <1>5, <1>6, ClockGood, DrivenGood
<1>9. \A a : Rom(a)' = Rom(a) /\ Rom(a) \in Byte
  BY <1>8, RomSame, RomByte
<1>10. Vector(65530)' = Vector(65530) /\ Vector(65530) = 256 * Rom(65531) + Rom(65530)
  BY <1>8, RomSame, VectorIs DEF Vector, Rom
<1>13. /\ cpu.A = 0 \/ "EZ" \in control
       /\ "EO" \in control /\ "EN" \notin control /\ "ES" \notin control
       /\ "ER" \notin control /\ "EA" \notin control
       /\ byte = 0
       => /\ alu.out = 0
          /\ cpu.F = 0 /\ "FI" \in control /\ "FD" \notin control => alu.flags = FLAG_Z
  BY ZeroAlu
<1>14. ASSUME NEW a \in {65530, 65531}, bus.bank = 0
       PROVE  ReadMemory(bus, dev, a) = Rom(a)
  <2>1. a \in Word /\ a >= BANK_START
    BY DEF Word, BANK_START, IO_START, RAM_START, VRAM_START, VRAM_SIZE, RAM_SIZE, IO_SIZE
  <2> QED
    BY <1>14, <2>1, ReadsFlash, RomIs
<1> HIDE DEF alu
<1>11. High(cpu.T) \in Byte /\ Low(cpu.T) \in Byte /\ 0 \in Byte /\ 255 \in Byte
  <2>1. 0 \in Byte /\ 255 \in Byte
    BY DEF Byte
  <2> QED
    BY <2>1, HalvesGood DEF Registers
<1>12. \A h, l \in Byte : Low(256 * h + l) = l /\ High(256 * h + l) = h
  BY HalvesJoin
<1>20. CASE cpu.step = 0
  <2>1. control = {"TO", "XZ", "HO", "EO", "TL"}
    BY <1>2, <1>20 DEF ResetLines, Const, Line
  <2>2. byte = 255
    BY <1>3, <2>1 DEF DataBus
  <2>3. cpu'.T = 256 * High(cpu.T) + 255
    BY <1>7, <2>1, <2>2
  <2>4. cpu'.step = 1 /\ cpu'.reset /\ Low(cpu'.T) = 255
    BY <1>7, <1>11, <1>12, <1>20, <2>1, <2>2, <2>3 DEF BootInv, Registers
  <2> QED
    BY <1>7, <1>8, <1>9, <1>10, <1>20, <2>1, <2>4 DEF BootInv
<1>21. CASE cpu.step = 1
  <2>1. control = {"TO", "XZ", "HO", "EO", "TH"}
    BY <1>2, <1>21 DEF ResetLines, Const, Line
  <2>2. byte = 255
    BY <1>3, <2>1 DEF DataBus
  <2>3. cpu'.step = 2 /\ cpu'.reset /\ cpu'.T = 65535
    BY <1>7, <1>11, <1>12, <1>21, <2>1, <2>2 DEF BootInv, Registers
  <2> QED
    BY <1>7, <1>8, <1>9, <1>10, <1>21, <2>1, <2>3 DEF BootInv
<1>22. CASE cpu.step = 2
  <2>1. control = {"TO", "XZ", "XN", "PI", "ZO", "EZ", "EO", "AI"}
    BY <1>2, <1>22 DEF ResetLines, Const, Line
  <2>2. byte = 0 /\ address = 65534
    BY <1>3, <1>22, <2>1 DEF BootInv, DataBus, AddressOut, AddressBus, Registers, Word
  <2>3. cpu'.step = 3 /\ cpu'.reset /\ cpu'.T = 65535 /\ cpu'.P = 65534 /\ cpu'.A = 0
    BY <1>7, <1>13, <1>22, <2>1, <2>2 DEF BootInv, Registers
  <2> QED
    BY <1>7, <1>8, <1>9, <1>10, <1>22, <2>1, <2>3 DEF BootInv
<1>23. CASE cpu.step = 3
  <2>1. control = {"PO", "XZ", "XN", "PI", "ZO", "EO", "XI", "FI", "FD"}
    BY <1>2, <1>23 DEF ResetLines, Const, Line
  <2>2. byte = 0 /\ address = 65533
    BY <1>3, <1>23, <2>1 DEF BootInv, DataBus, AddressOut, AddressBus, Registers, Word
  <2>3. cpu'.step = 4 /\ cpu'.reset /\ cpu'.T = 65535 /\ cpu'.P = 65533 /\ cpu'.A = 0 /\ cpu'.X = 0 /\ cpu'.F = 0
    BY <1>7, <1>23, <2>1, <2>2 DEF BootInv, Registers
  <2> QED
    BY <1>7, <1>8, <1>9, <1>10, <1>23, <2>1, <2>3 DEF BootInv
<1>24. CASE cpu.step = 4
  <2>1. control = {"PO", "XZ", "XN", "PI", "ZO", "EO", "KI", "FI"}
    BY <1>2, <1>24 DEF ResetLines, Const, Line
  <2>2. byte = 0 /\ address = 65532
    BY <1>3, <1>24, <2>1 DEF BootInv, DataBus, AddressOut, AddressBus, Registers, Word
  <2>3. cpu'.step = 5 /\ cpu'.reset /\ cpu'.T = 65535 /\ cpu'.P = 65532 /\ cpu'.A = 0 /\ cpu'.X = 0 /\ cpu'.F = FLAG_Z
        /\ cpu'.K = 0 /\ bus'.bank = 0
    BY <1>7, <1>8, <1>13, <1>24, <2>1, <2>2 DEF BootInv, Registers
  <2> QED
    BY <1>7, <1>8, <1>9, <1>10, <1>24, <2>1, <2>3 DEF BootInv
<1>25. CASE cpu.step = 5
  <2>1. control = {"PO", "XZ", "XN", "PI", "MO", "EO", "TH"}
    BY <1>2, <1>25 DEF ResetLines, Const, Line
  <2>2. address = 65531
    BY <1>3, <1>25, <2>1 DEF BootInv, DataBus, AddressOut, AddressBus, Registers, Word
  <2>3. byte = Rom(65531)
    BY <1>3, <1>14, <1>25, <2>1, <2>2 DEF BootInv, DataBus
  <2>4. cpu'.step = 6 /\ cpu'.reset /\ cpu'.T = 256 * Rom(65531) + 255 /\ cpu'.P = 65531
    BY <1>7, <1>11, <1>12, <1>25, <2>1, <2>2, <2>3 DEF BootInv, Registers
  <2> QED
    BY <1>7, <1>8, <1>9, <1>10, <1>25, <2>1, <2>4 DEF BootInv
<1>26. CASE cpu.step = 6
  <2>1. control = {"PO", "XZ", "XN", "MO", "EO", "TL"}
    BY <1>2, <1>26 DEF ResetLines, Const, Line
  <2>2. address = 65530
    BY <1>3, <1>26, <2>1 DEF BootInv, DataBus, AddressOut, AddressBus, Registers, Word
  <2>3. byte = Rom(65530)
    BY <1>3, <1>14, <1>26, <2>1, <2>2 DEF BootInv, DataBus
  <2>4. High(cpu.T) = Rom(65531)
    BY <1>9, <1>11, <1>12, <1>26 DEF BootInv
  <2>5. cpu'.step = 7 /\ cpu'.reset /\ cpu'.T = Vector(65530)
    BY <1>7, <1>10, <1>26, <2>1, <2>2, <2>3, <2>4 DEF BootInv, Registers
  <2> QED
    BY <1>7, <1>8, <1>9, <1>10, <1>26, <2>1, <2>5 DEF BootInv
<1>27. CASE cpu.step = 7
  <2>1. control = {"TO", "XZ", "II", "ZO", "EO", "TL"}
    BY <1>2, <1>27 DEF ResetLines, Const, Line
  <2>2. byte = 0 /\ address = cpu.T
    BY <1>3, <1>27, <2>1 DEF BootInv, DataBus, AddressOut, AddressBus, Registers, Word
  <2>3. cpu'.step = 8 /\ cpu'.reset /\ cpu'.I = Vector(65530) /\ Low(cpu'.T) = 0
    BY <1>7, <1>11, <1>12, <1>27, <2>1, <2>2 DEF BootInv, Registers
  <2> QED
    BY <1>7, <1>8, <1>9, <1>10, <1>27, <2>1, <2>3 DEF BootInv
<1>28. CASE cpu.step = 8
  <2>1. control = {"TO", "XZ", "ZO", "EO", "TH"}
    BY <1>2, <1>28 DEF ResetLines, Const, Line
  <2>2. byte = 0
    BY <1>3, <2>1 DEF DataBus
  <2>3. cpu'.step = 9 /\ cpu'.reset /\ cpu'.T = 0
    BY <1>7, <1>28, <2>1, <2>2 DEF BootInv, Registers
  <2> QED
    BY <1>7, <1>8, <1>9, <1>10, <1>28, <2>1, <2>3 DEF BootInv
<1>29. CASE cpu.step = 9
  <2>1. control = {"TO", "XZ", "ZO", "EO", "PI"}
    BY <1>2, <1>29 DEF ResetLines, Const, Line
  <2>2. address = 0
    BY <1>3, <1>29, <2>1 DEF BootInv, DataBus, AddressOut, AddressBus, Registers, Word
  <2>3. cpu'.step = 10 /\ cpu'.reset /\ cpu'.P = 0
    BY <1>7, <1>29, <2>1, <2>2 DEF BootInv, Registers
  <2> QED
    BY <1>7, <1>8, <1>9, <1>10, <1>29, <2>1, <2>3 DEF BootInv
<1>30. CASE cpu.step = 10
  <2>1. control = {"TO", "XZ", "ZO", "EO", "BI"}
    BY <1>2, <1>30 DEF ResetLines, Const, Line
  <2>2. address = 0
    BY <1>3, <1>30, <2>1 DEF BootInv, DataBus, AddressOut, AddressBus, Registers, Word
  <2>3. cpu'.step = 11 /\ cpu'.reset /\ cpu'.B = 0
    BY <1>7, <1>30, <2>1, <2>2 DEF BootInv, Registers
  <2> QED
    BY <1>7, <1>8, <1>9, <1>10, <1>30, <2>1, <2>3 DEF BootInv
<1>31. CASE cpu.step = 11
  <2>1. control = {"TO", "XZ", "ZO", "EO", "SI"}
    BY <1>2, <1>31 DEF ResetLines, Const, Line
  <2>2. address = 0
    BY <1>3, <1>31, <2>1 DEF BootInv, DataBus, AddressOut, AddressBus, Registers, Word
  <2>3. cpu'.step = 12 /\ cpu'.reset /\ cpu'.S = 0
    BY <1>7, <1>31, <2>1, <2>2 DEF BootInv, Registers
  <2> QED
    BY <1>7, <1>8, <1>9, <1>10, <1>31, <2>1, <2>3 DEF BootInv
<1>32. CASE cpu.step = 12
  <2>1. control = {"IO", "XZ", "MO", "EO", "CI"}
    BY <1>2, <1>32 DEF ResetLines, Line
  <2>2. /\ cpu'.P = cpu.P /\ cpu'.B = cpu.B /\ cpu'.S = cpu.S /\ cpu'.I = cpu.I /\ cpu'.F = cpu.F
        /\ cpu'.A = cpu.A /\ cpu'.X = cpu.X /\ cpu'.K = cpu.K /\ cpu'.T = cpu.T
        /\ cpu'.reset = FALSE /\ cpu'.step = 0
    BY <1>7, <2>1
  <2> DEFINE r == [cpu' EXCEPT !.C = 0]
  <2>3. /\ r.step = 0 /\ r.reset = FALSE /\ r.A = 0 /\ r.X = 0 /\ r.K = 0 /\ r.C = 0
        /\ r.F = FLAG_Z /\ r.P = 0 /\ r.B = 0 /\ r.S = 0 /\ r.I = Vector(65530) /\ r.T = 0
    BY <1>8, <1>32, <2>2 DEF BootInv, Registers
  <2>4. r \in Registers
    BY <1>8, <1>11 DEF Registers
  <2> HIDE DEF r
  <2>5. r = Booted
    BY <2>3, <2>4, RegisterFields DEF Booted
  <2> QED
    BY <2>2, <2>5 DEF BootInv, r
<1> QED
  BY <1>2, <1>20, <1>21, <1>22, <1>23, <1>24, <1>25, <1>26, <1>27, <1>28, <1>29, <1>30, <1>31, <1>32

(* A step that leaves the processor, the bank and the flash alone.         *)
LEMMA BootStays ==
  ASSUME Inv, Inv', BootInv, cpu' = cpu, bus'.flash = bus.flash, bus'.junk = bus.junk,
         bus'.bank = bus.bank
  PROVE  BootInv'
<1>1. Rom(65531)' = Rom(65531) /\ Vector(65530)' = Vector(65530)
  BY RomSame DEF Inv, Vector, Rom
<1> QED
  BY <1>1 DEF BootInv

LEMMA BootStep ==
  ASSUME Inv, TypeInv, BootInv, [EmulatorNext]_emulatorVars
  PROVE  /\ BootInv'
         /\ cpu.reset /\ ~cpu'.reset => [cpu' EXCEPT !.C = 0] = Booted
<1>1. Inv'
  BY InvStep
<1>2. CASE UNCHANGED cpu /\ bus'.flash = bus.flash /\ bus'.junk = bus.junk /\ bus'.bank = bus.bank
  BY <1>1, <1>2, BootStays
<1>3. CASE ResetCPU
  <2>1. cpu'.reset /\ cpu'.step = 0
    BY <1>3 DEF ResetCPU, TypeInv, Registers
  <2> QED
    BY <2>1 DEF BootInv
<1>4. CASE ClockProcessor
  <2>1. CASE cpu.reset
    BY <1>4, <2>1, BootClock DEF ClockProcessor, Inv, TypeInv
  <2>2. CASE ~cpu.reset
    <3>1. PICK control, address, byte : cpu' = Loaded(control, address, byte)
      BY <1>4 DEF ClockProcessor, ClockCPU
    <3>2. ~cpu'.reset
      BY <2>2, <3>1, ClockLoads DEF TypeInv
    <3> QED
      BY <2>2, <3>2 DEF BootInv
  <2> QED
    BY <2>1, <2>2
<1>5. CASE Idle \/ ClockScreen
  BY <1>2, <1>5, DisplayKeeps DEF Idle, ClockScreen, Inv
<1>6. CASE UpdateTerminal
  BY <1>2, <1>3, <1>6 DEF UpdateTerminal, FunctionKey, StepKey, Command, NothingToDo
<1>7. CASE EnterClockSystem \/ ClockKeyboard \/ UNCHANGED emulatorVars
  BY <1>2, <1>7 DEF EnterClockSystem, ClockKeyboard, emulatorVars
<1>8. CASE \/ \E key \in Keys : Type(key)
           \/ \E e \in Kbd!Event : PressKey(e)
           \/ \E e \in {"CLOSE", "OTHER"} : UseWindow(e)
  BY <1>2, <1>8 DEF Type, PressKey, UseWindow
<1> QED
  BY <1>4, <1>5, <1>6, <1>7, <1>8 DEF EmulatorNext, Thread

(* However the machine was interrupted, a reset leads to the one state a   *)
(* program can rely on: the thirteen words of the reset sequence clear     *)
(* every register and load the instruction pointer from the vector, for    *)
(* every flash image and whatever the registers held before                *)
(* (microcode.src:129-142, cpu.c:9-12).                                  *)
THEOREM EmulatorResetBoots == EmulatorSpec => ResetBoots
<1> DEFINE Boots == cpu.reset /\ ~cpu'.reset => [cpu' EXCEPT !.C = 0] = Booted
<1>1. EmulatorInit => BootInv
  BY DEF EmulatorInit, PowerOn, BootInv
<1>2. Inv /\ TypeInv /\ BootInv /\ [EmulatorNext]_emulatorVars => BootInv' /\ [Boots]_emulatorVars
  BY BootStep
<1> HIDE DEF Boots
<1>3. EmulatorSpec => [][Boots]_emulatorVars
  BY <1>1, <1>2, EmulatorInv, EmulatorTypeInv, PTL DEF EmulatorSpec
<1> QED
  BY <1>3 DEF ResetBoots, Boots

=============================================================================
