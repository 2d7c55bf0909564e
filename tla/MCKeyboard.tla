----------------------------- MODULE MCKeyboard -----------------------------
(* Three keys: one plain, one extended, one the table does not list. Their *)
(* codes differ in parity and in their low and high bits. The quarter of a *)
(* period is no multiple of the step, as 14970 ns is none of 400 ns.       *)
EXTENDS KeyboardLink

MCKeyCodes == {"A", "UP", "PAUSE"}

MCKeyTable ==
  [k \in {"A", "UP"} |->
     IF k = "A" THEN [code |-> 28, extended |-> FALSE]
                ELSE [code |-> 117, extended |-> TRUE]]

=============================================================================
