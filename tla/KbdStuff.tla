------------------------------ MODULE KbdStuff ------------------------------
(***************************************************************************)
(* The command stuffkey: the client sends one key after the other and the  *)
(* server puts each into the keyboard buffer of the BIOS, a ring of 16     *)
(* words in the BIOS data area at 40:1E..40:3D with its pointers head      *)
(* (40:1A) and tail (40:1C), both offsets in segment 40h.                  *)
(*                                                                         *)
(* The server handles a packet with interrupts off, so each access to the  *)
(* ring is one step.  A BIOS may keep its ring elsewhere in segment 40h;   *)
(* the server only knows the usual place.  INT 16h, by which the program   *)
(* reads keys, and INT 9, by which somebody types at the machine, are the  *)
(* BIOS's.                                                                 *)
(***************************************************************************)
EXTENDS Integers, Sequences

CONSTANTS
    Keys,           \* the keys that stuffkey -mstr sends
    RingBases,      \* where the BIOS may keep its ring
    TypedMax        \* bound: keys typed at the machine

ASSUME KeysAssumption  == Keys \in Seq(Nat \ {0})
\* A ring elsewhere has no word in common with the usual place.
ASSUME BasesAssumption ==
    RingBases \subseteq { b \in Nat : b = 30 \/ b + 32 <= 30 \/ b >= 62 }
ASSUME TypedAssumption == TypedMax \in Nat

First == 30             \* 0x1E, where the server expects the ring
End   == 62             \* 0x3E, and its end

\* What the ring holds for a key typed at the machine.
UserKey == 0

VARIABLES
    base,           \* (BIOS) offset of the ring
    head,           \* (BIOS) offset of the next key to read
    tail,           \* (BIOS) offset of the next word to fill
    ring,           \* (BIOS) the words of the ring
    next,           \* index of the key that do_stuff_key() is to send
    reply,          \* the last answer of the server
    typed,          \* how many keys were typed
    waiting         \* history: keys taken over, not yet read by the program

vars == <<base, head, tail, ring, next, reply, typed, waiting>>

\* The words of the ring, and the one after a word.
Words == {base + 2 * n : n \in 0..15}
After(offset) == IF offset + 2 = base + 32 THEN base ELSE offset + 2

TypeOK ==
    /\ base \in RingBases
    /\ head \in Words /\ tail \in Words
    /\ ring \in [Words -> Nat]
    /\ next \in 1..(Len(Keys) + 1)
    /\ reply \in {"none", "STUFFED", "FULL", "ERROR"}
    /\ typed \in 0..TypedMax
    /\ waiting \in Seq(Nat)

\* An empty buffer, wherever the keys of the past have left its pointers.
Init ==
    /\ base \in RingBases /\ head \in Words /\ tail = head
    /\ ring = [w \in Words |-> 0]
    /\ next = 1 /\ reply = "none"
    /\ typed = 0 /\ waiting = <<>>

-----------------------------------------------------------------------------
(* The server: do_dos_stuff_bios_keyboard_command().                       *)

\* Mutant: the range ends one word early.
InRangeMut(offset) == offset >= First /\ offset < End - 2

InRange(offset) == offset >= First /\ offset < End

\* ((head+2-0x1E)&0x1F) == (tail-0x1E)
Rejects(h, t) == (h + 2 - First) % 32 = t - First

\* Mutant: the last word of the ring is left out.
NextTailMut(t) == IF t + 2 = End - 2 THEN First ELSE t + 2

\* Mutant: the tail wraps one word late.
NextTailLateMut(t) == IF t = End THEN First ELSE t + 2

NextTail(t) == IF t + 2 = End THEN First ELSE t + 2

\* The server's answer to a key, and what it does to the buffer.
Stuff(key) ==
    \/ /\ ~(InRange(head) /\ InRange(tail))
       /\ reply' = "ERROR"
       /\ UNCHANGED <<tail, ring, waiting>>
    \/ /\ InRange(head) /\ InRange(tail)
       /\ Rejects(head, tail)
       /\ reply' = "FULL"
       /\ UNCHANGED <<tail, ring, waiting>>
    \/ /\ InRange(head) /\ InRange(tail)
       /\ ~Rejects(head, tail)
       /\ ring' = [ring EXCEPT ![tail] = key]
       /\ tail' = NextTail(tail)
       /\ reply' = "STUFFED"
       /\ waiting' = Append(waiting, key)

-----------------------------------------------------------------------------
(* The client, and the BIOS.                                               *)

\* do_stuff_key() is repeated while the buffer is full and given up, with the
\* rest of the string, at an error.
GoOn == IF reply' = "STUFFED" THEN next + 1 ELSE next

StuffKey ==
    /\ next <= Len(Keys) /\ reply # "ERROR"
    /\ Stuff(Keys[next])
    /\ next' = GoOn
    /\ UNCHANGED <<base, head, typed>>

\* INT 16h: the program reads a key.
ReadKey ==
    /\ head # tail
    /\ head' = After(head)
    /\ waiting' = IF waiting = <<>> THEN <<>> ELSE Tail(waiting)
    /\ UNCHANGED <<base, tail, ring, next, reply, typed>>

\* INT 9: a key is typed, and ignored if the buffer is full.
TypeKey ==
    /\ typed < TypedMax
    /\ typed' = typed + 1
    /\ IF After(tail) = head
         THEN UNCHANGED <<tail, ring, waiting>>
         ELSE /\ ring' = [ring EXCEPT ![tail] = UserKey]
              /\ tail' = After(tail)
              /\ waiting' = Append(waiting, UserKey)
    /\ UNCHANGED <<base, head, next, reply>>

Next == StuffKey \/ ReadKey \/ TypeKey

Spec == Init /\ [][Next]_vars

\* The client retries, and the program reads its keys.
LiveSpec == Spec /\ WF_vars(StuffKey) /\ WF_vars(ReadKey)

-----------------------------------------------------------------------------

\* How many keys the BIOS finds in the ring, and which ones.
Pending  == ((tail - head) % 32) \div 2
Contents == [n \in 1..Pending |->
                ring[base + ((head - base + 2 * (n - 1)) % 32)]]

\* What the program will read is what was stuffed and typed, in that order:
\* no key that the client was told is stuffed gets lost or doubled.
NoKeyLost == Contents = waiting

\* Every key of the string reaches the program, unless the ring is not where
\* the server can find it: then the client is told.
AllArrive ==
    <>(IF base = First THEN next > Len(Keys) /\ waiting = <<>> ELSE reply = "ERROR")
=============================================================================
