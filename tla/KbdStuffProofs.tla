--------------------------- MODULE KbdStuffProofs ---------------------------
(***************************************************************************)
(* Stuffing keys, for every string, every place of the ring and any number *)
(* of keys typed: the pointers stay in the ring, and no key is lost as     *)
(* long as all of them together have room in it.  That they must have room *)
(* is the server's test for a full ring, which does not see one.           *)
(***************************************************************************)
EXTENDS KbdStuff, TLAPS

\* Fifteen keys fill a ring of sixteen words.
Room == Len(Keys) + TypedMax <= 15

\* The place of the k-th word behind the head.
Slot(k) == IF head + 2 * k >= base + 32 THEN head + 2 * k - 32 ELSE head + 2 * k

\* What waits is in the ring, one word behind the other from head to tail, and
\* came from the string or from the keyboard.
Holds(size) ==
    /\ Len(waiting) = size
    /\ size + 1 <= typed + next
    /\ tail = Slot(size)
    /\ \A n \in 1 .. size : ring[Slot(n - 1)] = waiting[n]

InRing == \E size \in 0 .. 15 : Holds(size)

IInv == TypeOK /\ InRing

-----------------------------------------------------------------------------
(* Places in the ring.                                                     *)

LEMMA BaseFacts ==
    ASSUME TypeOK
    PROVE  base \in Nat /\ (base = 30 \/ base + 32 <= 30 \/ base >= 62)
BY BasesAssumption DEF TypeOK

LEMMA AfterIsWord ==
    ASSUME TypeOK, NEW w \in Words
    PROVE  /\ After(w) \in Words
           /\ w \in Nat /\ base <= w /\ w < base + 32
<1>1. PICK n \in 0 .. 15 : w = base + 2 * n
  BY DEF Words
<1>2. CASE n = 15
  <2>1. After(w) = base + 2 * 0 /\ 0 \in 0 .. 15
    BY <1>1, <1>2, BaseFacts DEF After
  <2> QED
    BY <1>1, <1>2, <2>1, BaseFacts DEF Words
<1>3. CASE n # 15
  <2>1. After(w) = base + 2 * (n + 1) /\ n + 1 \in 0 .. 15
    BY <1>1, <1>3, BaseFacts DEF After
  <2> QED
    BY <1>1, <1>3, <2>1, BaseFacts DEF Words
<1> QED
  BY <1>2, <1>3

\* The server stores keys only in the ring it knows, and there it goes on like
\* the BIOS.
LEMMA ServerIsRight ==
    ASSUME TypeOK, InRange(head), InRange(tail)
    PROVE  base = First /\ NextTail(tail) = After(tail)
<1>1. base <= head /\ head < base + 32 /\ head \in Nat
  BY AfterIsWord DEF TypeOK
<1>2. base = First
  BY <1>1, BaseFacts DEF InRange, First, End
<1> QED
  BY <1>2 DEF NextTail, After, First, End

-----------------------------------------------------------------------------
LEMMA TypeInit == Init => TypeOK
<1> SUFFICES ASSUME Init PROVE TypeOK
  OBVIOUS
<1> QED
  BY KeysAssumption, TypedAssumption DEF Init, TypeOK

\* Storing a key at the tail, by the server or by the BIOS.
LEMMA StoreType ==
    ASSUME TypeOK, NEW key \in Nat,
           ring' = [ring EXCEPT ![tail] = key], tail' = After(tail),
           waiting' = Append(waiting, key)
    PROVE  tail' \in Words /\ ring' \in [Words -> Nat] /\ waiting' \in Seq(Nat)
BY AfterIsWord DEF TypeOK

LEMMA StuffCases ==
    ASSUME TypeOK, StuffKey
    PROVE  /\ UNCHANGED <<base, head, typed>> /\ next \in 1 .. Len(Keys)
           /\ \/ /\ reply' \in {"ERROR", "FULL"}
                 /\ UNCHANGED <<tail, ring, waiting, next>>
              \/ /\ ring' = [ring EXCEPT ![tail] = Keys[next]] /\ Keys[next] \in Nat
                 /\ tail' = After(tail) /\ waiting' = Append(waiting, Keys[next])
                 /\ reply' = "STUFFED" /\ next' = next + 1
<1>1. next \in 1 .. Len(Keys) /\ UNCHANGED <<base, head, typed>>
  BY KeysAssumption DEF StuffKey, TypeOK
<1>2. Keys[next] \in Nat
  BY <1>1, KeysAssumption
<1>3. CASE reply' \in {"ERROR", "FULL"}
  BY <1>1, <1>3 DEF StuffKey, Stuff, GoOn
<1>4. CASE reply' \notin {"ERROR", "FULL"}
  <2>1. /\ InRange(head) /\ InRange(tail) /\ reply' = "STUFFED"
        /\ ring' = [ring EXCEPT ![tail] = Keys[next]]
        /\ tail' = NextTail(tail) /\ waiting' = Append(waiting, Keys[next])
    BY <1>4 DEF StuffKey, Stuff
  <2>2. next' = next + 1
    BY <2>1 DEF StuffKey, GoOn
  <2> QED
    BY <1>1, <1>2, <2>1, <2>2, ServerIsRight
<1> QED
  BY <1>3, <1>4

LEMMA TypeNext == TypeOK /\ [Next]_vars => TypeOK'
<1> SUFFICES ASSUME TypeOK, [Next]_vars PROVE TypeOK'
  OBVIOUS
<1>1. CASE StuffKey
  <2>1. CASE UNCHANGED <<tail, ring, waiting, next>>
    <3>1. UNCHANGED <<base, head, typed>> /\ reply' \in {"STUFFED", "ERROR", "FULL"}
      BY <1>1, StuffCases
    <3> QED
      BY <2>1, <3>1 DEF TypeOK, Words
  <2>2. CASE ~UNCHANGED <<tail, ring, waiting, next>>
    <3>1. /\ ring' = [ring EXCEPT ![tail] = Keys[next]] /\ Keys[next] \in Nat
          /\ tail' = After(tail) /\ waiting' = Append(waiting, Keys[next])
          /\ reply' = "STUFFED" /\ next' = next + 1 /\ next \in 1 .. Len(Keys)
          /\ UNCHANGED <<base, head, typed>>
      BY <1>1, <2>2, StuffCases
    <3>2. tail' \in Words /\ ring' \in [Words -> Nat] /\ waiting' \in Seq(Nat)
      BY <3>1, StoreType
    <3>3. next' \in 1 .. (Len(Keys) + 1)
      BY <3>1, KeysAssumption
    <3> QED
      BY <3>1, <3>2, <3>3 DEF TypeOK, Words
  <2> QED
    BY <2>1, <2>2
<1>2. CASE ReadKey
  <2>1. /\ head' = After(head) /\ UNCHANGED <<base, tail, ring, next, reply, typed>>
        /\ waiting' = IF waiting = <<>> THEN <<>> ELSE Tail(waiting)
    BY <1>2 DEF ReadKey
  <2>2. head' \in Words /\ waiting' \in Seq(Nat)
    BY <2>1, AfterIsWord DEF TypeOK
  <2> QED
    BY <2>1, <2>2 DEF TypeOK, Words
<1>3. CASE TypeKey
  <2>1. /\ typed' \in 0 .. TypedMax /\ UNCHANGED <<base, head, next, reply>>
    BY <1>3, TypedAssumption DEF TypeKey, TypeOK
  <2>2. CASE After(tail) = head
    BY <1>3, <2>1, <2>2 DEF TypeKey, TypeOK, Words
  <2>3. CASE After(tail) # head
    <3>1. /\ ring' = [ring EXCEPT ![tail] = UserKey] /\ UserKey \in Nat
          /\ tail' = After(tail) /\ waiting' = Append(waiting, UserKey)
      BY <1>3, <2>3 DEF TypeKey, UserKey
    <3>2. tail' \in Words /\ ring' \in [Words -> Nat] /\ waiting' \in Seq(Nat)
      BY <3>1, StoreType
    <3> QED
      BY <2>1, <3>2 DEF TypeOK, Words
  <2> QED
    BY <2>2, <2>3
<1>4. CASE UNCHANGED vars
  BY <1>4 DEF TypeOK, Words, vars
<1> QED
  BY <1>1, <1>2, <1>3, <1>4 DEF Next

\* Head and tail stay in the ring, wherever it is.
THEOREM TypeCorrect == Spec => []TypeOK
BY TypeInit, TypeNext, PTL DEF Spec

-----------------------------------------------------------------------------
(* A ring with room for every key.                                         *)

\* Up to fifteen words behind the head, places are words, no two are the same,
\* and the BIOS counts the words between them right.
LEMMA SlotFacts ==
    ASSUME TypeOK, NEW k \in 0 .. 15
    PROVE  /\ Slot(k) \in Words
           /\ \A m \in 0 .. 15 : Slot(m) = Slot(k) => m = k
           /\ k < 15 => After(Slot(k)) = Slot(k + 1)
           /\ k = 15 => After(Slot(k)) = head
<1>1. PICK h \in 0 .. 15 : head = base + 2 * h
  BY DEF TypeOK, Words
<1>2. base \in Nat
  BY BaseFacts
<1>3. \A m \in 0 .. 15 : Slot(m) = IF h + m >= 16 THEN base + 2 * (h + m - 16)
                                   ELSE base + 2 * (h + m)
  BY <1>1, <1>2 DEF Slot
<1>4. Slot(k) \in Words
  <2>1. PICK n \in 0 .. 15 : n = IF h + k >= 16 THEN h + k - 16 ELSE h + k
    BY <1>1
  <2>2. Slot(k) = base + 2 * n
    BY <1>3, <2>1
  <2> QED
    BY <2>2 DEF Words
<1>5. \A m \in 0 .. 15 : Slot(m) = Slot(k) => m = k
  BY <1>2, <1>3
<1>6. k < 15 => After(Slot(k)) = Slot(k + 1)
  BY <1>2, <1>3 DEF After
<1>7. k = 15 => After(Slot(k)) = head
  BY <1>1, <1>2, <1>3 DEF After
<1> QED
  BY <1>4, <1>5, <1>6, <1>7

\* While there is a key to come, there is room for it.
LEMMA RoomFacts ==
    ASSUME TypeOK, Room, NEW size \in 0 .. 15, Holds(size)
    PROVE  /\ next \in 1 .. Len(Keys) => size < 15
           /\ typed < TypedMax => size < 15
<1>1. PICK keys \in Nat : keys = Len(Keys)
  BY KeysAssumption
<1>2. /\ next \in Nat /\ next <= keys + 1
      /\ typed \in Nat /\ typed <= TypedMax /\ TypedMax \in Nat
      /\ keys + TypedMax <= 15
  BY <1>1, TypedAssumption DEF TypeOK, Room
<1>3. size + 1 <= typed + next
  BY DEF Holds
<1>4. (next <= keys => size < 15) /\ (typed < TypedMax => size < 15)
  BY <1>2, <1>3
<1> QED
  BY <1>1, <1>4

\* One more key at the tail.
LEMMA StoreInRing ==
    ASSUME TypeOK, NEW size \in 0 .. 14, Holds(size), NEW key \in Nat,
           UNCHANGED <<base, head>>,
           ring' = [ring EXCEPT ![tail] = key], tail' = After(tail),
           waiting' = Append(waiting, key),
           typed' + next' = typed + next + 1
    PROVE  InRing'
<1>1. waiting \in Seq(Nat) /\ ring \in [Words -> Nat] /\ tail = Slot(size)
  BY DEF Holds, TypeOK
<1>2. /\ Len(waiting') = size + 1 /\ waiting'[size + 1] = key
      /\ \A n \in 1 .. size : waiting'[n] = waiting[n]
  BY <1>1 DEF Holds
<1>3. \A k \in 0 .. 15 : Slot(k)' = Slot(k)
  BY DEF Slot
<1>4. size < 15 /\ size \in 0 .. 15 /\ size + 1 \in 0 .. 15
  OBVIOUS
<1>5. tail' = Slot(size + 1)'
  BY <1>1, <1>3, <1>4, SlotFacts
<1>6. ASSUME NEW n \in 1 .. size + 1 PROVE ring'[Slot(n - 1)'] = waiting'[n]
  <2>1. n - 1 \in 0 .. 15 /\ n - 1 \in 0 .. size
    BY <1>4
  <2>2. Slot(n - 1)' = Slot(n - 1) /\ Slot(n - 1) \in Words /\ Slot(size) \in Words
    BY <1>3, <1>4, <2>1, SlotFacts
  <2>3. CASE n = size + 1
    BY <1>1, <1>2, <1>4, <2>2, <2>3
  <2>4. CASE n # size + 1
    <3>1. n \in 1 .. size /\ n - 1 # size
      BY <2>1, <2>4, <1>4
    <3>2. Slot(n - 1) # tail
      BY <1>1, <1>4, <2>1, <3>1, SlotFacts
    <3>3. ring[Slot(n - 1)] = waiting[n]
      BY <3>1 DEF Holds
    <3> QED
      BY <1>1, <1>2, <2>2, <3>1, <3>2, <3>3
  <2> QED
    BY <2>3, <2>4
<1>7. (size + 1) + 1 <= typed' + next'
  <2>1. size + 1 <= typed + next
    BY DEF Holds
  <2>2. typed \in Nat /\ next \in Nat
    BY KeysAssumption, TypedAssumption DEF TypeOK
  <2> QED
    BY <1>4, <2>1, <2>2
<1>8. Holds(size + 1)'
  BY <1>2, <1>5, <1>6, <1>7 DEF Holds
<1> QED
  BY <1>4, <1>8 DEF InRing

LEMMA InvInit == Init => IInv
<1> SUFFICES ASSUME Init PROVE IInv
  OBVIOUS
<1>1. TypeOK
  BY TypeInit
<1>2. head < base + 32 /\ head \in Nat /\ base \in Nat
  BY <1>1, AfterIsWord, BaseFacts DEF TypeOK
<1>3. Slot(0) = head
  BY <1>2 DEF Slot
<1>4. Holds(0) /\ 0 \in 0 .. 15
  BY <1>3 DEF Init, Holds
<1> QED
  BY <1>1, <1>4 DEF IInv, InRing

\* The program reads the first key.
LEMMA ReadInRing ==
    ASSUME TypeOK, NEW size \in 0 .. 15, Holds(size), ReadKey
    PROVE  InRing'
<1>1. /\ head # tail /\ head' = After(head)
      /\ UNCHANGED <<base, tail, ring, next, reply, typed>>
      /\ waiting' = IF waiting = <<>> THEN <<>> ELSE Tail(waiting)
  BY DEF ReadKey
<1>2. PICK h \in 0 .. 15 : head = base + 2 * h
  BY DEF TypeOK, Words
<1>3. base \in Nat /\ Slot(0) = head
  BY <1>2, BaseFacts DEF Slot
<1>4. size # 0
  BY <1>1, <1>3 DEF Holds
<1>5. PICK less \in 0 .. 14 : size = less + 1
  <2>1. size - 1 \in 0 .. 14
    BY <1>4
  <2> QED
    BY <2>1
<1>6. waiting \in Seq(Nat) /\ Len(waiting) = less + 1
  BY <1>5 DEF TypeOK, Holds
<1>7. /\ Len(waiting') = less
      /\ \A n \in 1 .. less : waiting'[n] = waiting[n + 1]
  <2>1. waiting # <<>>
    BY <1>4, <1>5, <1>6
  <2>2. waiting' = Tail(waiting)
    BY <1>1, <2>1
  <2> QED
    BY <1>6, <2>1, <2>2
<1>8. \A k \in 0 .. 14 : Slot(k)' = Slot(k + 1)
  <2> SUFFICES ASSUME NEW k \in 0 .. 14 PROVE Slot(k)' = Slot(k + 1)
    OBVIOUS
  <2>1. PICK q \in Nat : q = head' /\ q = IF h = 15 THEN base ELSE base + 2 * h + 2
    BY <1>1, <1>2, <1>3 DEF After
  <2>2. Slot(k)' = IF q + 2 * k >= base + 32 THEN q + 2 * k - 32 ELSE q + 2 * k
    BY <1>1, <2>1 DEF Slot
  <2>3. Slot(k + 1) = IF base + 2 * h + 2 * (k + 1) >= base + 32
                      THEN base + 2 * h + 2 * (k + 1) - 32
                      ELSE base + 2 * h + 2 * (k + 1)
    BY <1>2 DEF Slot
  <2> QED
    BY <1>2, <1>3, <2>1, <2>2, <2>3
<1>9. tail' = Slot(less)'
  <2>1. tail = Slot(less + 1)
    BY <1>5 DEF Holds
  <2> QED
    BY <1>1, <1>8, <2>1
<1>10. ASSUME NEW n \in 1 .. less PROVE ring'[Slot(n - 1)'] = waiting'[n]
  <2>1. n - 1 \in 0 .. 14 /\ n + 1 \in 1 .. size /\ (n - 1) + 1 = (n + 1) - 1
    BY <1>5
  <2>2. Slot(n - 1)' = Slot((n + 1) - 1)
    BY <1>8, <2>1
  <2>3. ring[Slot((n + 1) - 1)] = waiting[n + 1]
    BY <2>1 DEF Holds
  <2> QED
    BY <1>1, <1>7, <2>1, <2>2, <2>3
<1>11. less + 1 <= typed' + next'
  <2>1. size + 1 <= typed + next
    BY DEF Holds
  <2>2. typed \in Nat /\ next \in Nat
    BY KeysAssumption, TypedAssumption DEF TypeOK
  <2> QED
    BY <1>1, <1>5, <2>1, <2>2
<1>12. Holds(less)'
  BY <1>7, <1>9, <1>10, <1>11 DEF Holds
<1>13. less \in 0 .. 15
  OBVIOUS
<1> QED
  BY <1>12, <1>13 DEF InRing

LEMMA InvNext == Room /\ IInv /\ [Next]_vars => IInv'
<1> SUFFICES ASSUME Room, TypeOK, InRing, [Next]_vars PROVE IInv'
  BY DEF IInv
<1>1. TypeOK'
  BY TypeNext
<1> SUFFICES InRing'
  BY <1>1 DEF IInv
<1>2. PICK size \in 0 .. 15 : Holds(size)
  BY DEF InRing
<1>3. typed \in Nat /\ next \in Nat
  BY KeysAssumption, TypedAssumption DEF TypeOK
<1>4. CASE StuffKey
  <2>1. CASE UNCHANGED <<tail, ring, waiting, next>>
    <3>1. Holds(size)'
      BY <1>2, <1>4, <2>1, StuffCases DEF Holds, Slot
    <3> QED
      BY <3>1 DEF InRing
  <2>2. CASE ~UNCHANGED <<tail, ring, waiting, next>>
    <3>1. /\ ring' = [ring EXCEPT ![tail] = Keys[next]] /\ Keys[next] \in Nat
          /\ tail' = After(tail) /\ waiting' = Append(waiting, Keys[next])
          /\ next' = next + 1 /\ next \in 1 .. Len(Keys)
          /\ UNCHANGED <<base, head, typed>>
      BY <1>4, <2>2, StuffCases
    <3>2. typed' + next' = typed + next + 1
      BY <1>3, <3>1
    <3>3. size < 15
      BY <1>2, <3>1, RoomFacts
    <3>4. size \in 0 .. 14
      BY <3>3
    <3> QED
      BY <1>2, <3>1, <3>2, <3>4, StoreInRing
  <2> QED
    BY <2>1, <2>2
<1>5. CASE ReadKey
  BY <1>2, <1>5, ReadInRing
<1>6. CASE TypeKey
  <2>1. /\ typed < TypedMax /\ typed' = typed + 1 /\ UNCHANGED <<base, head, next, reply>>
    BY <1>6 DEF TypeKey
  <2>2. CASE After(tail) = head
    <3>1. UNCHANGED <<tail, ring, waiting>>
      BY <1>6, <2>2 DEF TypeKey
    <3>2. size + 1 <= typed' + next'
      BY <1>2, <1>3, <2>1 DEF Holds
    <3>3. Holds(size)'
      BY <1>2, <2>1, <3>1, <3>2 DEF Holds, Slot
    <3> QED
      BY <3>3 DEF InRing
  <2>3. CASE After(tail) # head
    <3>1. /\ ring' = [ring EXCEPT ![tail] = UserKey] /\ UserKey \in Nat
          /\ tail' = After(tail) /\ waiting' = Append(waiting, UserKey)
      BY <1>6, <2>3 DEF TypeKey, UserKey
    <3>2. typed' + next' = typed + next + 1
      BY <1>3, <2>1
    <3>3. size < 15
      BY <1>2, <2>1, RoomFacts
    <3>4. size \in 0 .. 14
      BY <3>3
    <3> QED
      BY <1>2, <2>1, <3>1, <3>2, <3>4, StoreInRing
  <2> QED
    BY <2>2, <2>3
<1>7. CASE UNCHANGED vars
  <2>1. Holds(size)'
    BY <1>2, <1>7 DEF Holds, Slot, vars
  <2> QED
    BY <2>1 DEF InRing
<1> QED
  BY <1>4, <1>5, <1>6, <1>7 DEF Next

\* What the BIOS finds between head and tail.
LEMMA ContentsAreWaiting == IInv => NoKeyLost
<1> SUFFICES ASSUME TypeOK, InRing PROVE Contents = waiting
  BY DEF NoKeyLost, IInv
<1>1. PICK k \in 0 .. 15 : Holds(k)
  BY DEF InRing
<1>2. PICK h \in 0 .. 15 : head = base + 2 * h /\ base \in Nat
  BY BaseFacts DEF TypeOK, Words
<1>3. Pending = k
  <2>1. tail = IF base + 2 * h + 2 * k >= base + 32 THEN base + 2 * h + 2 * k - 32
               ELSE base + 2 * h + 2 * k
    BY <1>1, <1>2 DEF Holds, Slot
  <2>2. tail - head = IF h + k >= 16 THEN 2 * k - 32 ELSE 2 * k
    BY <1>2, <2>1
  <2>3. (2 * k) % 32 = 2 * k /\ (2 * k - 32) % 32 = 2 * k /\ (2 * k) \div 2 = k
    OBVIOUS
  <2> QED
    BY <2>2, <2>3 DEF Pending
<1>4. ASSUME NEW n \in 1 .. k
      PROVE  ring[base + ((head - base + 2 * (n - 1)) % 32)] = waiting[n]
  <2>1. PICK m \in 0 .. 14 : m = n - 1
    <3>1. n - 1 \in 0 .. 14
      OBVIOUS
    <3> QED
      BY <3>1
  <2>2. (2 * (h + m)) % 32 = IF h + m >= 16 THEN 2 * (h + m) - 32 ELSE 2 * (h + m)
    OBVIOUS
  <2>3. head - base + 2 * (n - 1) = 2 * (h + m)
    BY <1>2, <2>1
  <2>4. base + ((2 * (h + m)) % 32) = Slot(m)
    BY <1>2, <2>2 DEF Slot
  <2> QED
    BY <1>1, <2>1, <2>3, <2>4 DEF Holds
<1>5. waiting = [n \in 1 .. k |-> waiting[n]]
  BY <1>1 DEF TypeOK, Holds
<1> QED
  BY <1>3, <1>4, <1>5 DEF Contents

\* As long as all keys have room in the ring, what the program reads is what
\* was stuffed and typed, in that order, wherever head and tail started.
THEOREM NoKeyLostWithRoom == Room => (Spec => []NoKeyLost)
<1> SUFFICES ASSUME Room PROVE Spec => []NoKeyLost
  OBVIOUS
<1>1. IInv /\ [Next]_vars => IInv'
  BY InvNext
<1> QED
  BY InvInit, <1>1, ContentsAreWaiting, PTL DEF Spec

=============================================================================
