----------------------------- MODULE MCKbdStuff -----------------------------
(* The ring with its real size and offsets.                                  *)
EXTENDS KbdStuff

\* Fewer than the ring takes, together with two keys typed.
ShortString == [n \in 1..9 |-> n]

\* As many as the ring has words.
LongString == [n \in 1..16 |-> n]
=============================================================================
