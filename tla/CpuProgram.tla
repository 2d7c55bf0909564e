----------------------------- MODULE CpuProgram -----------------------------
(***************************************************************************)
(* The processor running a program from flash, with nothing but the memory *)
(* around it, and a record of what a programmer could see at the last      *)
(* instruction boundary.                                                   *)
(***************************************************************************)
EXTENDS Cpu

VARIABLE arch  \* registers and memory after the last opcode fetch

programVars == <<cpuVars, arch>>

Visible ==
  [regs |-> [r \in {"reset", "A", "K", "C", "F", "P", "B", "S", "I"} |-> cpu[r]],
   bus  |-> bus]

ProgramInit ==
  /\ cpu = PowerOn
  /\ \E image \in Images, rest \in Junk : bus = InitMemory(image, rest)
  /\ dev_clock = TRUE /\ dev_data = TRUE
  /\ arch = Visible

ProgramNext ==
  /\ ClockCPU
  /\ arch' = IF FetchesOpcode THEN Visible' ELSE arch
  /\ UNCHANGED <<dev_clock, dev_data>>

ProgramSpec == ProgramInit /\ [][ProgramNext]_programVars
ProgramFairSpec == ProgramSpec /\ WF_programVars(ProgramNext)

-----------------------------------------------------------------------------
(* Properties                                                              *)

(* Registers, counters and memory cells keep their widths.                 *)
TypeOK ==
  /\ cpu \in Registers
  /\ \A a \in DOMAIN bus.vram : a < VRAM_SIZE /\ bus.vram[a] \in Byte
  /\ \A a \in DOMAIN bus.ram : a < BANK_SIZE /\ bus.ram[a] \in Byte
  /\ bus.irq \in Latches /\ bus.bank \in Byte

Architecture == INSTANCE Isa WITH regs <- arch.regs, bus <- arch.bus

(* The microcode, run word by word, does what the instruction set says:    *)
(* every instruction of every program has its whole effect and no other,   *)
(* and nothing leaks to the next instruction through X, T or a flag.       *)
ImplementsIsa == Architecture!Spec

(* No instruction of the menu, and no brk or rti it leads to, keeps the    *)
(* processor from the next opcode fetch.                                   *)
KeepsFetching == []<>FetchesOpcode

(* docs/arch.md:50-53 gives the flags register four bits. Nothing widens   *)
(* it as long as rti only restores frames that brk pushed, and so the      *)
(* flags never reach the opcode bits of the ROM address.                   *)
FlagsStayFourBits == cpu.F < 16

(* The rti of a program's handlers finds on the stack the flags byte that  *)
(* brk pushed, whatever the handler and the subroutines did in between.    *)
RtiFindsFlags ==
  cpu.C = 254 /\ ~cpu.reset /\ cpu.step = 0 => ReadMemory(bus, dev, cpu.S) < 16

(* docs/system.md:31-34, the memory map: a write below $BF00 is a write to *)
(* one memory and none to the output register at $BF01.                    *)
StoresStayInMemory ==
  [][("MI" \in Control /\ AddressOut(Control) < IO_START)
       => bus'.irq.reset = bus.irq.reset /\ bus'.status_led = bus.status_led
          /\ bus'.host_clock = bus.host_clock]_programVars

=============================================================================
