----------------------------- MODULE DmaReader -----------------------------
(***************************************************************************)
(* What a sound card's play engine promises to the program that fills its  *)
(* ring buffer: while it runs it reads the ring's Size places one after    *)
(* the other, from place 0, and never jumps, whatever DMA and DSP mode it  *)
(* was set up in.  SbDma implements it for a Sound Blaster; SoundPlay is   *)
(* the program that relies on it.                                          *)
(***************************************************************************)
EXTENDS Naturals

CONSTANT Size       \* places in the ring, at least one

VARIABLES
    pos,            \* the place the card reads next
    running

readerVars == <<pos, running>>

Places == 0 .. Size - 1

\* The place after i, where the ring wraps.
Succ(i) == IF i + 1 = Size THEN 0 ELSE i + 1

Init == pos = 0 /\ running = FALSE

Arm     == ~running /\ pos' = 0 /\ UNCHANGED running
Start   == ~running /\ pos = 0 /\ running' = TRUE /\ UNCHANGED pos
Advance == running /\ pos' = Succ(pos) /\ UNCHANGED running
Stop    == running /\ running' = FALSE /\ UNCHANGED pos

Next == Arm \/ Start \/ Advance \/ Stop

Spec == Init /\ [][Next]_readerVars

=============================================================================
