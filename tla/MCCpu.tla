-------------------------------- MODULE MCCpu -------------------------------
(* Programs made of a prologue that sets A and the pointers, two           *)
(* instructions out of a menu that has every opcode of the microcode, and  *)
(* a loop; with a subroutine that calls another one and a brk handler.     *)
EXTENDS CpuProgram

(* The bytes from an address of the flash window on, in bank 0.            *)
At(address, bytes) == [a \in address - 49152 .. address - 49153 + Len(bytes) |-> bytes[a - address + 49153]]
Join(f, g) == [a \in DOMAIN f \cup DOMAIN g |-> IF a \in DOMAIN f THEN f[a] ELSE g[a]]

(* Each menu entry fills a slot of four bytes; a branch skips a slot.      *)
Slot(bytes) == bytes \o [i \in 1 .. 4 - Len(bytes) |-> 80]
Menu == {Slot(bytes) : bytes \in
  {<<0, 0>>, <<0, 200>>, <<2, 0>>, <<2, 16>>, <<28, 3>>, <<28, 7>>, <<18, 5>>, <<20, 255>>,
   <<17, 52, 18>>, <<25, 3, 144>>, <<25, 1, 191>>, <<34>>, <<35>>, <<80>>,
   <<120, 1>>, <<120, 255>>, <<224, 6>>, <<236, 6>>, <<238, 6>>,
   <<244, 64, 192>>, <<248, 128, 192>>, <<255>>}}

(* lea $8032; mov P S; lea $8022; mov P B; lod #a; adc #$80                *)
Prologue(a) == <<17, 50, 128, 35, 17, 34, 128, 34, 0, a, 120, 128>>
Loop        == <<80, 241, 0>>

MCImage(a, first, second) ==
  Join(At(49152, Prologue(a) \o first \o second \o Loop),
  Join(At(49152 + 64, Loop),
  Join(At(49152 + 128, <<248, 144, 192, 120, 2, 250>>),   \* jsr $C090; adc #2; rts
  Join(At(49152 + 144, <<28, 4, 250>>),                   \* sto P+#4; rts
  Join(At(49152 + 160, <<0, 5, 254>>),                    \* lod #5; rti
       At(65530, <<0, 192, 160, 192, 160, 192>>))))))     \* reset, brk, interrupt vectors

MCImages == {MCImage(a, first, second) : a \in {1, 128}, first \in Menu, second \in Menu}

=============================================================================
