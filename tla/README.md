# The 8602 computer in TLA+

Formal models of the programs of this repository: the emulator of the 8602
computer with the microcode it runs, the circuit simulator, and the assembler
with its linker. Every module names the source file it models, and
`PROJECT.json` maps each definition to its lines.

## 1. The system

The repository holds a home-built 8 bit computer and its tools, all plain C,
all single threaded:

| Part | Source | State it keeps | What makes it hard |
| --- | --- | --- | --- |
| Emulator: keyboard | `src/emulator/src/keyboard.c` | transmitter state, timer, frame shifter, two open collector lines, event queue | the computer can seize the lines between any two steps; a timer with remainders; a buffer that keeps old bytes |
| Emulator: interrupt latches | `interrupt.c` | latch, sampled copy and reset line per source | the CPU decides on a copy that can be stale |
| Emulator: memory and I/O | `memory.c` | VRAM, RAM, flash, bank, LED | a write has side effects on interrupts and keyboard; regions overlap in `writeMemory` |
| Emulator: ALU, control, processor | `alu.c`, `control.c`, `cpu.c` | registers, step counter, reset line | behaviour is data: 2^19 control words; flags are part of the ROM address |
| Microcode | `src/microcode/microcode.src` | none | lines overwrite each other, interrupt lines overwrite every instruction |
| Microcode compiler | `src/microcode/src/` | token position, output image | the order of lines, stars and tildes decides the ROM |
| Emulator: display | `display.c` | frame timer, window queue | raises the interrupt, may end the process in the middle of an instruction |
| Emulator: interface | `interface.c`, `terminal.c`, `input.c`, `command.c`, `arguments.c` | running flag, focus, input line | stepping loops until an instruction ends; commands act between any two clocks |
| Simulator: schedule | `src/simulator/src/net.c`, `circuit.c` | levels and change marks of nets, list of pending updates | updates replace each other by delay; glitches shorter than a delay |
| Simulator: chips | `chip.c`, `chip-data.c` | pins of 14 chip types, nets inside the chips | chips see each other's changes nanoseconds later; the clock feeds itself |
| Simulator: circuit parser | `circuit.c`, `token.c` | token position, buses, net vector | pins point into a vector that moves when it grows |
| Simulator: commands | `interface.c` | command line | commands act between nanoseconds |
| Assembler: matcher | `src/assembler/src/matcher.c`, `token.c`, `pattern.c` | token and pattern queues | the first row of a table that fits decides |
| Assembler: parser, instructions | `parser.c`, `symbol.c`, `instruction.c` | symbols, open scope, current segment and address | one pass: a name is encoded by what is known when it is met |
| Assembler: objects, linker | `object.c`, `linker.c` | segments, exports and references per file, output image | references are patched long after they were written, across files |
| Video timing | `src/video/timing.c` | none | a pure table |

**How the parts interact.** The emulator's `main` initialises memory, display
and keyboard, calls `resetCPU` and enters `enterInterface`. Its loop polls the
terminal and then either calls `clockSystem` - `clockKeyboard`, `clockCPU`,
`clockDisplay`, in this order - or, when the machine is halted,
`clockDisplay(0)`. `clockCPU` reads one control word and moves bytes between
registers and `memory.c`; a write to the output register calls
`setInterruptReset` twice and the two keyboard line functions. `clockDisplay`
calls `generateInterrupt`; a fetch calls `readInterrupts`. Key and window events
come from Allegro's queues, keys of the terminal from ncurses.
The simulator reads a circuit file once (`initCircuit`), then a loop reads
commands; `nano` lets every chip look at its pins and add updates
(`addNetUpdate`) and then lets one nanosecond pass (`stepCircuit`), over and over.
The assembler takes its files one after the other through lexer, matcher and
parser into an object each, and links the objects at the end. What it writes is
the emulator's flash.
There are no threads, no persistence and no network: the interleavings are
those of the user, the event queues, the program in flash and the delays of
chips with the fixed loops.

**What makes each part correct.**
Keyboard: what a host samples is the scan codes of the events, in order, with
correct frames, and an interruption costs one event at most. Latches: an
acknowledged interrupt does not come back. Memory: a store reaches the cell the
memory map names. Processor and microcode: an instruction has the effect of its
name, and only that; every instruction ends; an interrupt saves and returns;
a reset always boots. Interface: stepping returns, commands take effect.
Simulator: pins are those the circuit file names; nets settle at the level
their drivers define, whatever glitches came before; clocked chips count the
edges of their clock. Assembler: the bytes in the image are what the statements
mean, wherever a name is defined; segments linked together do not overwrite
each other; branches land where they say.

## 2. Plan

Done, in this order:

1. `Keyboard`, `KeyChannel`, `KeyboardLink`, `KeyboardProofs`.
2. `Interrupts`, `Memory`, `Alu`, `Microcode`, `Cpu`, `Isa`, `CpuProgram`,
   `CpuLemmas`, `CpuProofs`.
3. `Display`, `Emulator`, `EmulatorProofs`.
4. `Schedule`, `ScheduleProofs`, `Chips`, `Circuit`, `Simulator`, `CircuitText`,
   `SimulatorProofs`.
5. `Matcher`, `Objects`, `Instructions`, `Assembler`, `AssemblyText`,
   `AssemblerProofs`.

Left: the line editor and tokenizer of the emulator's interface, the token
rules of the microcode compiler, the video timing table, the lexers, and a
proof that what the assembler writes is what the statements mean.

## 3. Modules

| Module | Models | State and actions |
| --- | --- | --- |
| `Keyboard` | `keyboard.c` | the statics of the file and of `clockKeyboard`; one action per case of the switch, `PullKeyLines` for the two calls of `writeIO`, `KeyEvent` for the library |
| `KeyChannel` | the promise of a keyboard | events queued, codes of the current event on the wire, codes delivered; the computer stops the keyboard, which loses what is on the wire, and lets it go on; nothing else loses a code |
| `KeyboardLink` | keyboard and host | host samples at falling edges, holds and releases the clock line; the time since the last fall |
| `Interrupts`, `Memory`, `Alu` | `interrupt.c`, `memory.c`, `alu.c` | operators on records: one clock of the CPU calls several of them |
| `Microcode` | `microcode.src`, `parser.c`, `control.c` | the lines as sequences of records, the ROM they compile to as functions, `ReadControl` |
| `Cpu` | `cpu.c` | `ClockCPU` is one call of `clockCPU`: control word, address bus, data bus, ALU, loads, side effects, step counter |
| `Isa` | the instruction names of `microcode.src` | one action per instruction, and reset |
| `CpuProgram` | the CPU with a program in flash | adds `arch`, what was visible at the last fetch |
| `Display` | `clockDisplay` | frame timer, window queue |
| `Emulator` | `interface.c`, `terminal.c`, `input.c`, `command.c` | `pc` is the place of the one thread in the loop, `caller` the return address of `clockSystem`; the world acts between steps |
| `Schedule` | `net.c`, `stepCircuit`, `addNetUpdate` | levels, change marks, pending updates; `ScheduleSpec`, where anything may be added at any time, is the promise the simulator is shown to keep |
| `Chips` | `chip.c`, `chip-data.c` | what each type of chip adds to the updates in one nanosecond |
| `Circuit` | `circuit.c`, `token.c`, `addNet`, `addBus`, `initChip` | one action per section, definition, chip and assignment; `pc` is the parser's loop and `pos` the token it is at |
| `Simulator` | `simulator.c`, `interface.c` | parser, then commands; `StepChips` lets every chip look, `PassTime` a nanosecond pass |
| `CircuitText` | circuits as definitions | the tokens of a definition and the pins it means, independent of the parser |
| `Matcher` | `matcher.c`, `token.c`, `pattern.c` | token and pattern queues with their positions; one line or newline a step |
| `Objects` | `object.c` | segments, references, the current address, which the callers set and count beside the data; `ObjectSpec`, where any bytes may be appended, any segment begun and any reference filled, is the promise the assembler is shown to keep |
| `Instructions` | `instruction.c`, `symbol.c` | symbols and scope; the opcode of a pattern, the bytes or the reference of its operand, and how far each of them counts the address on |
| `Assembler` | `assembler.c`, `parser.c`, `linker.c` | one action per kind of statement, one step per data item, per reference, and per phase of the linker |
| `AssemblyText` | assembly as statements | the tokens of a statement and the bytes a program means, in two passes and independent of the assembler |
| `MCKeyboard`, `MCCpu`, `MCEmulator`, `MCSimulator`, `MCAssembler` | - | constants for the runs |
| `DataLemmas`, `CpuLemmas` | - | lemmas about numbers, sequences and recursive functions, and about the control words and one clock of the processor |
| `KeyboardProofs`, `CpuProofs`, `EmulatorProofs`, `ScheduleProofs`, `SimulatorProofs`, `AssemblerProofs` | - | theorems |

Some choices of abstraction, for the emulator:

- A control word is the set of the mnemonics active in it. Active low bits are
  inverted as `writeOutput` does, and the word that no line wrote is the set the
  erased bytes 0xFF decode to (`Unwritten`). The ROM compiled from
  `microcode.src` was compared with `ReadControl` at all 2^19 addresses and
  agrees. The image in `src/emulator/res/microcode.bin` is an older one: it has
  `nop` at $48 and `adc` at $58 instead of $50 and $78; the model follows the
  source.
- Memory is sparse. A cell that was never written holds `junk`, a constant of
  the run, because `malloc` returns anything; reads behind a buffer give `junk`
  too.
- The picture, the register and code views and all wording are left out:
  nothing in the machine reads them back.
- Time is counted in steps of `STEP_TIME`, which is the 400 ns of
  `CLOCK_PERIOD` of `interface.c`. The runs use small numbers with the same
  relations, the proofs any.
- F3 to F7 all move the focus away from the console and halt; they are one
  key, "F6". Left and down in the code window call empty functions.
- In `Emulator` a key or an event arrives just before the call that polls for
  it. An earlier arrival would wait unseen, so nothing is lost, and the state
  space is a tenth.

For the simulator:

- The list of pending updates is a set. Its order would only matter between two
  updates of one net that are due together, and `DistinctDelays` (checked and
  proved) says that there are none. The pool of list nodes is left out.
- The change mark of a net inside a chip is never read and never cleared with
  the others; only wires have one.
- Files are sequences of tokens. A name, a number and a punctuation mark is one
  token each; how characters make them is the lexer's.
- `addNet` grows the vector with `realloc`, which may move it or not: a
  nondeterministic choice, recorded in `buf`, and a pin is a place in one of the
  buffers. The runs start with room for 4 nets (`NetCap`, 256 in the code) and
  allow 8 indices in a list (`MaxNets`, 32 in the code): growing is the case
  that matters, and it happens in most circuits. `NetMax` bounds the nets of a
  circuit.
- A pin that is unassigned, null where the chip reads it, behind the pins of
  the chip or in freed memory makes the result of the next nanosecond undefined:
  the model stops in the state "undefined" (`Wired`, slightly stricter than the
  code, which may never reach such a pin).
- Commands are records. Those that print and those that are refused change
  nothing and are one command. The user only sets nets no chip drives, and at
  most `MaxCommands` commands a circuit.

For the assembler:

- Tokens have their type and text or value. The lexer's newline at the end of
  every file is part of the input; the parser's number conversions are the
  lexer's and are left out. A string token is empty or a backslash: `lexString`
  does not read on, so no other ever reaches the parser.
- Segments and references of all files are in one list each, tagged with their
  object. Capacities and failing allocations are left out.
- `pc = "undefined"` is where the code writes through a null pointer or past
  the output image, reads a segment its object does not have, or prints an
  argument list that `error` never started (`parser.c:275`): after such a
  message the model goes on or ends there.
- `pc = "counting"` is the linker at an object without segments: its bound
  `segment_len - 1` is SIZE_MAX (`linker.c:21`), and a run through 2^64 - 1
  rounds is taken for one that never ends. The rounds compare nothing unless a
  later object has two or more segments (`Astray`); then they index the missing
  segments of this one, which is undefined.
- `OUTPUT_SIZE` is the code's 262144. The image maps the addresses that some
  segment covers; the rest is what `malloc` left.
- The model was compared with a debug build of the assembler over all 5277
  programs of the run. It writes 1300 images, each with the bytes the model
  gives the covered addresses; it reports errors for 3311; it is still counting
  after three seconds for 176, those that the model keeps in "counting", for two
  of them as one of two outcomes; and it crashes on 490. On 3 of these the model
  has no outcome but "undefined"; on the other 487, the messages without an
  argument list, it allows the crash or an ordinary failure. Likewise one
  counter circuit was compared with the compiled simulator.

## 4. Runs

| Run | Spec | What it shows |
| --- | --- | --- |
| `keyboard` | `LinkFairSpec` | types; the terminator is always ahead; data never moves while the clock is low; spacing of clock falls; the link implements `KeyChannel`; every event is sent |
| `keyboard_inhibit` (violation) | `LinkFairSpec` | an inhibit does not always end |
| `cpu` | `ProgramFairSpec` | the microcode implements `Isa`; the flags stay four bits wide, and `rti` finds what `brk` pushed for them; the processor always fetches again |
| `store_aliasing` (violation) | `ProgramSpec` | a store to RAM also writes the output register |
| `emulator` | `EmulatorSpec` | types; a held clock line stops the keyboard; no stale interrupt; every reset boots |
| `emulator_live` | `EmulatorFairSpec` | a reset ends, stepping returns, even on an undefined opcode |
| `interrupt_entry` (violation) | `EmulatorSpec` | an interrupt under `rti` does not save what it should |
| `interrupt_handler` (violation) | `EmulatorFairSpec` | an interrupt entry does not reach its handler |
| `simulator` | `MCSpec` | the pins are those the definition means; gates, latches and counters settle on their functions; a multiplexer that has shown its selected input goes on showing it; a counter counts its clock's edges; parser, chips and commands implement `ScheduleSpec` |
| `pins_dangling` (violation) | `MCSpec` | a section of nets behind a chip leaves its pins in freed memory |
| `assembler` | `Spec` | the image is what the statements mean; addresses, references and segments agree; parser and linker implement `ObjectSpec`; every run ends, but for the linker's counting over a file without an origin |
| `branch_target` (violation) | `Spec` | a branch by name lands one byte before its label |

**Bounds, and why they are enough.**
`keyboard`: three keys - plain, extended, unknown - give the sequences of 0, 1, 2
and 3 bytes; two events give every pair of a longer and a shorter one, which is
what leaves stale bytes behind; one hold at any step with either data level
reaches every state of the transmitter. The period 12 and step 2 keep what
14970 ns and 400 ns have: a quarter that is no multiple of the step (3 and 2).
`cpu`: a prologue that sets A, the carry and all pointers, then every ordered
pair of 22 instructions with operands, for two values of A (together they reach
every flag that can be set before a branch), then a loop; the menu covers each
of the 20 opcodes, as later instructions of calls and handlers where it cannot
come first. `emulator`: one frame every 15 clocks of the CPU lets the interrupt
fall on every step of the loop's instructions; one command (reset, halt, run,
quit) and one key event come at any point. `emulator_live`: two inputs, because
stepping takes two keys (focus, then step).
`simulator`: five circuits that have every type of chip, one of them also cut
off at every token, and fourteen files with one fault each. Four commands on the
gates give every order of input changes within one delay; eight on the
multiplexers, settings and two or nine nanoseconds in turn, disable, enable and
switch them before, during and after their delays, which is what leaves the 0 of
the disabled time behind and ends it; seven on the chained counters run the
clock past the carry into the second counter, stop it, clear it and start it;
eight on the accumulator clock it twice by hand. The counters load 13: a load
leaves the carry as it was, and at 13 that is harmless.
`assembler`: every instruction with one operand by name or number, six of them
with every form of operand, sign and offset; all files of three statements of a
menu of 15 - definitions, uses, scopes, data, origins - over two names, which is
every order of a definition, a use and something between them; branches at
distances around their reach; pairs of files that use each other's names, with
and without origins, left open scopes and segments past the image; files
without an origin before and after files with one or two; and texts that
match badly.
`MaxQueue`, `MaxPresses`, `MaxHolds`, `MaxInputs`, `MaxWindowEvents` and
`MaxCommands` bound what the environment does, never what the program does.
`CHECK_DEADLOCK FALSE` stands where the program can end: the emulator and the
simulator exit, the assembler is done. The keyboard and the processor never
stop, and there deadlock is checked.

`MuxesSelect` is about steps: a disabled multiplexer heads for 0, one that shows
the selected input goes on showing it until it is disabled, and one that does
not heads for the 0 of its disabled time, which ends when the selected input or
the selection moves. `AddressesAgree` compares two counts: `addData` appends,
and each of the code's places that add data counts `curr_address` on by a number
of its own (the `by` of `NameData`, `PNameData` and the others).
`ReferencesInside` says of the segment that holds a reference which one it is:
one of its object or, for a reference before the object's first origin, an older
one; and that whatever other segment `fillReference` may find overlaps it, which
the linker reports for segments of one object. `Finishes` has one exception, the
linker counting over an object without segments, and demands for it that no
error came before.
`BytesAsWritten` speaks about programs whose meaning is plain (`Straight`):
every file starts with an origin, every name has one definition, constants and
names in data lines and with offsets are known before they are used. Left out
are the forms that the assembler encodes in a way of its own: `I+#n` written as
an operand (always the opcode of the other direction) and `P+B-#n` (not
decremented), which `docs/assembly.md:33` and `:37` describe, and, in no
document, `B+#n+#m` and `P+B+#n+#m` (never the plus opcode), `jpl` and `jsl`
with a number and an offset (two bytes), a branch to a name with an offset, a
string that is not the last line of its file (the next line is dropped), and
names patched later with an offset, across scopes, or as constants.
`ImageWhole` does not claim that segments of two files never overlap: the
linker's check misses some such pairs (`linker.c:21-24`).

**Fairness.** `WF(LinkClock)`, `WF(ProgramNext)`, `WF(Thread)` and the
assembler's `WF(Next)` say that the operating system keeps running the program's
one thread. Nothing is assumed of users, keys or the host.

**Mutants.** Every property of a passing run has a mutant, a definition with a
plausible bug (a stop bit missed, a timer not reduced, an update that stays
pending, a reference recorded one call too late), under which the run fails.
They stand before the definition they change and are used by nothing else.

## 5. Disagreements between the code and what is said of it

1. *A keyboard inhibited at the wrong moment is dead* (`keyboard_inhibit`).
   `pullKeyClockLow` sets the state but leaves `dev_clock`; if the keyboard was
   holding the line low itself, INHIBIT waits for a line nobody releases.
   `EventsSent` of the passing run names this case (`LockedUp`) and shows that
   it is the only one in which events are not sent.
2. *Stores below the I/O page reach it* (`store_aliasing`): four independent
   ifs in `writeMemory` where the memory map has disjoint regions. In `Isa`
   stores use the same `WriteMemory`, so `ImplementsIsa` is about the microcode
   and not about the memory map.
3. *`rti` under a sampled interrupt* (`interrupt_entry`): its first word turns
   interrupts on and the rest of it is overwritten by the entry's lines.
4. *The interrupt entry never arrives* (`interrupt_handler`): its step 6 clears
   the flag its later lines are conditioned on.
5. *Sections of a circuit file cannot come in any order* (`pins_dangling`):
   `docs/simulator.md` says they can, but nets defined behind a chip may move
   the vector its pins point into.
6. *A branch by name misses its label by one* (`branch_target`): forward and
   back, the displacement the assembler writes takes the processor to the byte
   before the label. `BytesAsWritten` fixes exactly this displacement.

`CLOCK_PERIOD` of `keyboard.c` is called the period of the clock but bits are
three quarters of it apart; this is stated as `FallsSpaced`, what a host can
rely on, rather than as a violation. The comment at `microcode.src:132` expects
F = 0 after a reset; the ALU leaves Z set, which `Booted` states. `rti` does not
give back the A that `brk` saved: the word that pops it (`microcode.src:95`) ors
it into the A of the handler, where the words of `lod` clear the ALU's first
operand. No document says which registers `rti` restores, so `Isa` has the or, and
`ProgramImplementsIsa` proves that this is what the microcode does; it could not
tell a slip in that word from the intent.

`docs/simulator.md:242-260` calls the outputs of the multiplexers the selected
data. After `~enable` falls they keep the 0 of the disabled time, because the
chips schedule nothing for that edge (`chip.c:213`, `:237`), until the selected
input or the selection moves. `docs/assembly.md:33` and `:37` list `I+#imm` and
`P+B-#imm` as operands; the first gets the opcode of the other direction, the
second an offset that is not decremented as the others are. And a file without
an origin, which `docs/assembly.md` does not forbid, keeps the linker counting
for 2^64 - 1 rounds (`linker.c:21`). These are stated in `MuxesSelect`, left out by
`Straight`, and the exception in `Finishes`.

## 6. Proofs

The theorems hold for every value of the constants under the assumptions that
the modules name, which TLC evaluates in the runs: `TimesAssumption` and
`KeysAssumption` (the keyboard's times are numbers, its key table gives scan
codes), `MemoryAssumption` (flash and fresh memory hold bytes),
`FrameAssumption` and `EmulatorAssumption` (no clock is longer than a frame),
`ScheduleAssumption`, `ChipsAssumption` (the longest delay of `chip.c` is
allowed) and `CircuitAssumption` (the wires are those of a net vector),
`FilesAssumption` (a file is tokens of the lexer and ends with the newline it
adds) and `OutputAssumption`. Files, programs, users, texts and bounds are
arbitrary.

**Keyboard** (`KeyboardProofs`).

- `LinkTyped`, `LinkTerminates`, `LinkDataHeld`: `TypeOK`, `TerminatorAhead` and
  `DataHeldWhileClockLow` of every behaviour of `LinkSpec`. `TypeOK` alone is
  not inductive: idx stays in 0..4 only because a terminator lies at or behind
  it, and that only because an event with codes starts with `bit` 10 and an
  idle clock line. The invariant `Inv` is the conjunction of the types,
  `TerminatorAhead` and `ClockReleased` (outside INHIBIT, CLOCKDOWN and the
  first step of CLOCKUP the keyboard does not hold the clock line).
- `LinkFallsSpaced`: `FallsSpaced`, under the extra assumption that a step is
  at most a quarter of the period (400 ns of 14970). The invariant bounds the
  timer per state and relates it to the time since the last fall (`SinceFall`):
  after a fall the states CLOCKDOWN, CLOCKUP and DATA each owe their share.
- `LinkImplementsChannel`: `LinkSpec` implements `KeyChannel`, with `Unsent` as
  its wire and `~host_clock` for `stopped`: the wire may only be dropped in the
  step that pulls the clock line low, and nothing is taken or delivered until
  the line is released. The invariant `FrameInv` says that what the computer has
  sampled is exactly the part of the frame the keyboard has clocked - one level
  more from the fall of the clock line on, none once the stop bit has fallen -
  and that the computer's end of the data line is high while the keyboard sends.
  Three facts turn it into bytes: a byte is determined by its eight bits
  (`BitsTell`), the parity bit makes the ones of a frame odd (`OddOnes`, by
  counting), so the eleventh level decodes to the byte that was sent
  (`DecodesByte`). On the other side the codes that have not arrived are what
  lies in `data` between `idx` and the terminator, after the open byte; taking a
  byte from `data` leaves that sequence as it was, completing a frame removes
  its head, and an inhibit empties it. Taking an event writes its codes and
  nothing of an older event (`CodesTerminated`).

**Processor** (`CpuLemmas`, `CpuProofs`). `ProgramTypes`: for every flash image,
defined opcodes or not, the registers, latches, bank and memory cells keep their
widths. The step is a fact about one clock, `ClockGood`, and needs of every one
of the 2^19 control words that it opens an address source and has an ALU
operation. `CpuLemmas` shows this of every line of `microcode.src`, then that a
word of the ROM is one of those lines or the one of erased bytes (`Unwritten`).
Bytes, the carry and the two halves of a word are arithmetic lemmas of their own.

`ProgramImplementsIsa` (`ImplementsIsa`): for every flash image and content of
fresh memory, the microcode implements the instruction set, with what was
visible at the last fetch (`arch`) as the state of `Isa`. An instruction takes
up to thirteen clocks, of which all but the last must be stutters of `Isa` and
the last the whole instruction, so the invariant `RefineInv` has to say what the
words so far have done. `Along` does, opcode by opcode and step by step, in terms
of the registers and the memory of the last fetch: at step 3 of `jsr`
the high byte of the return address lies on the stack and T holds the operand.
X and T occur in it only between the word that loads them and the last that
reads them, which is why nothing leaks through them. The rest of `RefineInv` is
the types, `Quiet` (without devices no interrupt is latched) and F below 16.
TLC finds it in all 89539 states of the `cpu` run.
The proof has four layers:

- the words: which control word stands at a step of an opcode. Most sequences
  are for all flags and lie at the steps 0, 1, 2... (`LinearSteps`); those of
  `adc` and the conditional branches overwrite each other, and stars restart the
  steps (`ProgramWords`, `ConditionalWords`);
- their effects: `Clocked` is `clockCPU` for one given word, and there is a lemma
  for each word of the microcode saying what it does to the registers and memory;
- the paths: a lemma per opcode that goes through its steps and, at the fetch,
  compares with the action of `Isa`. The pushes of `brk` and `jsr` are five and
  two nested `WriteMemory`, in both;
- the copy of `Memory` and `Alu` that `Isa` uses is the one `Cpu` uses (`SameReads`,
  `SameWrites`).

An opcode that is not defined has only the words of erased flash, which never
fetch again: `Isa` has no step for it, and the processor takes none.

The theorem has one hypothesis, `[]RtiFindsFlags`: what `rti` finds on the stack
for F has only the four flags. It is about the program, not the processor, and
without it the theorem is false: F addresses the control ROM together with the
opcode, so that a fifth bit of F runs the words of another opcode. The `cpu` run
checks that its 968 programs satisfy it. `FlagsFitFrames`
(`FlagsStayFourBits`) is a part of `RefineInv` under the same hypothesis: `rti`
is the only instruction whose word loads F from memory.

**Emulator** (`EmulatorProofs`).

- `EmulatorHoldsKeyboard` and `EmulatorForgetsInterrupts`. The invariant
  `GoodBus` says that the latches are typed and a set latch has its reset line
  released; the step lemma splits a clock of the CPU into the three things it
  can do behind the buses (fetch, write, change the bank). Neither needs the
  microcode: they hold for any control words.
- `EmulatorTypes`: `TypeOK`, the registers, latches, the frame timer and the
  loop's place. `TypeInv` adds to it that memory cells are bytes; the processor's
  part comes from `ClockGood`. The frame timer stays below a frame because no
  clock is longer than one (`EmulatorAssumption`).
- `EmulatorResetBoots`: `ResetBoots`. The invariant `BootInv` says, for each of
  the thirteen words of the reset sequence, which registers it has cleared or
  loaded so far; TLC found it to hold in the 3947470 states of the `emulator`
  run before it was proved. That the words of the sequence are what they are,
  for all flags, is a lemma per word; that nobody changes the vector's bytes in
  between follows from flash being read only.

**Simulator** (`ScheduleProofs`, `SimulatorProofs`).

- About `ScheduleSpec`: `ScheduleTypes`; `UpdatesDistinct` (`DistinctDelays`,
  inductive together with the types); `TimeKeeps` (`TimeKeepsHeading`, which
  needs `DistinctDelays`: of two updates of a net due together only one would be
  applied); and `NewestDecides`, that an added update decides where its net is
  heading.
- `SimulatorTypes` and `Implements` (`ImplementsSchedule`): parser, chips and
  commands use the schedule as it allows. The invariant `SimInv` adds to the
  types that tokens are tokens, that a bus lies inside the net vector, that a
  chip has the pins and local nets of its type, and that no update is for a net
  behind the vector's end. Nothing is said of where pins point: a chip steps
  only when all its pins are live. `SimulatorUpdatesDistinct` and
  `SimulatorTimeKeeps` follow.
- `OutputsSettle`, `CountersClear`, `MuxesSettle`: `OutputsFollow`, `ClearHolds`
  and `MuxesSelect`. They are about `WellDriven` behaviours, those of `Spec` in
  which a finished circuit has one driver for each net (`OneDriver`) and the
  user sets no driven net (`UserLeavesDriven`); with two drivers on a net the
  properties are false, the last update wins. The runs' circuits and users are
  such: TLC finds both, and the invariant, in all 137438 states of the
  `simulator` run. `MuxesSettle` is an action property: once the selected input
  is shown it stays so until `~enable` rises (`AllShowOn`), and where it is not
  shown yet, the output heads for 0. The other properties speak of the time
  between two nanoseconds, but the invariant `SettleInv` has to hold in the
  middle of one, when some updates are added and others are to be: it says where
  an output *will* head when the rest of the list is added, provided that the
  inputs it follows rest or move in this very nanosecond.

**Assembler** (`AssemblerProofs`).

- About `ObjectSpec`, for every set of names: `ObjectTypes`, and `OnlyPatches`
  (`PatchesOnlyPending`). The invariant is the types with `AddressesAgree`,
  `Ordered` (the newest segment is of the latest object that has one) and
  `Room`: each reference has a segment that holds its bytes, one of its own
  object or one older than all of them.
- `AssemblerImplementsObjects` (`ImplementsObjects`): each action of the
  assembler is a step of the objects or leaves them alone. `ObjectSpec` asks of
  whoever appends data that the address moves by as much and that the reference
  lies in between, so this is where every place that counts the address by
  itself is compared with the bytes it adds: for constants, names, offsets and
  pointers, a lemma for each form of operand. From it follow `AddressesFollow`
  (`AddressesAgree`), `ReferencesHaveRoom` (`ReferencesInside`) and
  `AssemblerPatches` (`PatchesOnlyPending`), about the assembler for every text.
  In the second the segment that `fillReference` takes, the last of the object
  that holds the address, need not be the one of `Room`; then both hold the
  reference's first byte and overlap.
  `AssemblerTypes` (`AssemblerTypeOK`). The invariant `AInv` has, besides that
  of the objects: `TextInv`, that a pattern stands for the tokens of its row in
  the table at the place it names, which is why a handler finds its name or
  number there; `ItemInv`, that a line of data ends before the tokens do, for
  its newline is not an item; `SymbolInv`; `Sized`, that a reference has the
  size that its type is filled with; and `LinkInv`, what the linker's phases
  have established. TLC finds it in all 88794 states of the `assembler` run.
  The tables (18 kinds of lines, 25 forms of operands, the 256 opcodes) are
  taken apart row by row in lemmas.
- `WrittenWhole` (`ImageWhole`): the linker compares a segment with those of a
  larger ordinal only, in its own or a later object. For two segments of one
  object these are all pairs, because the earlier has the smaller ordinal
  (`OrdinalsGrow`, by counting); so the image, where a later segment is copied
  over an earlier, holds every segment that no other object's meets.

Recursion over data is within reach where the property is written as a set of
numbers: the library's induction theorems take the property as an operator,
which no prover here instantiates, but `DataLemmas` derives induction for sets
(`SetInduction`) and the existence of recursive functions (`RecursionExists`)
from the well-foundedness of `<`, and the lemmas about folds use those.

**Only model-checked.** Liveness (`EventsSent`, `KeepsFetching`, `ResetEnds`,
`StepReturns`, `Finishes`), which the prover does not handle; `KeepsFetching` is
false, besides, of programs that reach an undefined opcode. `RtiFindsFlags`: it
holds of programs that return from an interrupt with the frame it pushed, and
`rti` takes any byte for the flags, so it is a hypothesis and no theorem. What
texts mean, `PinsAsWritten`, `WordAsClocked` and `BytesAsWritten`: each compares
a whole pass over a text, or a whole run of commands, with a second definition
of its result, over the menus of the runs.

## 7. Not modelled

The lexers of all tools: text to tokens, with no state that outlives a token.
The microcode compiler's command line and output file; what its tokens mean is
in `Microcode`. The video timing ROM, a pure table that no program of the
repository reads back. Drawing, formatting, argument parsing and file reading:
no state of the machines depends on how they do it. The line editor and the
command tokenizers: the models' users type whole commands. Failing allocations
end every program at once. `readme.md` promises a keyboard interrupt; no code
generates INTER_1, so its latch stays empty in the model as well.
