----------------------------- MODULE MCEmulator -----------------------------
(* Flash images. MCImages enters its loop through an rti that sets the     *)
(* interrupt flag from a frame in flash; the loop holds and releases the   *)
(* keyboard's clock line for ever, with the display interrupt enabled.     *)
(* ShortImages meets an opcode the microcode does not define. EntryImages  *)
(* enables the interrupt and then builds the frame of its rti in RAM.      *)
EXTENDS Emulator

At(address, bytes) == [a \in address - 49152 .. address - 49153 + Len(bytes) |-> bytes[a - address + 49153]]
Join(f, g) == [a \in DOMAIN f \cup DOMAIN g |-> IF a \in DOMAIN f THEN f[a] ELSE g[a]]

Frame  == <<8, 0, 63, 192, 0>>          \* F, A, I = $C03F (rti goes one further), K
Start  == <<17, 32, 192, 35, 254>>      \* lea $C020; mov P S; rti
Stack  == <<17, 50, 128, 35>>           \* lea $8032; mov P S
Enable == <<0, 1, 25, 1, 191>>          \* lod #$01; sto $BF01
Hold   == <<0, 65, 25, 1, 191>>         \* lod #$41; sto $BF01
Repeat == <<244, 68, 192>>              \* jmp $C044

Vectors == At(65530, <<0, 192, 128, 192, 128, 192>>)

MCImages ==
  {Join(At(49152, Start), Join(At(49152 + 32, Frame),
   Join(At(49152 + 64, Stack \o Hold \o Enable \o Repeat),
   Join(At(49152 + 128, <<80, 244, 128, 192>>), Vectors))))}

EntryImages ==
  {Join(At(49152, Stack \o Enable \o <<0, 8, 25, 50, 128, 0, 63, 25, 52, 128, 0, 192, 25, 53, 128>>
                  \o <<0, 0, 25, 54, 128, 254>>),
   Join(At(49152 + 64, Repeat), Vectors))}

ShortImages == {Join(At(49152, <<80, 1>>), Vectors)}

MCKeyTable == [k \in {"A"} |-> [code |-> 28, extended |-> FALSE]]

=============================================================================
