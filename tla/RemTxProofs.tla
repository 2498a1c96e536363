---------------------------- MODULE RemTxProofs ----------------------------
(***************************************************************************)
(* What RemTx promises for every width, header and request: the index and  *)
(* the line never part company in a reply that the index can count, and a  *)
(* reply that comes to its end is whole.                                   *)
(***************************************************************************)
EXTENDS RemTx, TLAPS

\* The inductive invariant: between replies the index is back at the mark,
\* and a reply being sent that the index can count is not complete yet.
Inv ==
    /\ TypeOK /\ InOrder /\ SentWhole
    /\ length <= ReadMax + 2
    /\ mark = 0 => cur_pkt_out_write = 0
    /\ mark = Mark /\ Indexable => sent < HdrSize + length

\* Lengths of answers: two bytes more than the data, and at most ReadMax of it.
LEMMA ReadLengthBounds ==
    ASSUME NEW n \in Requests, NEW got \in 0..n
    PROVE  ReadLength(got) \in 2..(ReadMax + 2) /\ ReadLength(got) <= ReadLength(n)
  BY ReadAssumption DEF ReadLength

\* A reply, however short, has at least one byte to send.
LEMMA HeaderComesFirst == \A n \in Nat : 0 < HdrSize + n
  BY WidthAssumption

\* The type invariant: no answer to a FILE READ, however long a one is asked
\* for, is longer than do_file_read_command() allows.
THEOREM TypeCorrect == Spec => []TypeOK
<1>1. Init => TypeOK
  BY WidthAssumption, ReadAssumption DEF Init, Mark, TypeOK
<1>2. TypeOK /\ [Next]_vars => TypeOK'
  <2> SUFFICES ASSUME TypeOK, [Next]_vars PROVE TypeOK'
    OBVIOUS
  <2>1. CASE FileRead
    BY <2>1, ReadLengthBounds, ReadAssumption DEF FileRead, Mark, TypeOK
  <2>2. CASE WriteByte
    BY <2>2, WidthAssumption DEF WriteByte, Mark, Step, Incremented, TypeOK
  <2>3. CASE UNCHANGED vars
    BY <2>3 DEF vars, TypeOK
  <2> QED
    BY <2>1, <2>2, <2>3 DEF Next
<1> QED
  BY <1>1, <1>2, PTL DEF Spec

\* The invariant is inductive: a reply that the index cannot count never ends,
\* so that the index is back at the mark whenever another one is begun.
LEMMA InvIsInductive == Spec => []Inv
<1>1. Init => Inv
  BY WidthAssumption, ReadAssumption
  DEF Init, Mark, Inv, TypeOK, InOrder, SentWhole, Indexable
<1>2. Inv /\ [Next]_vars => Inv'
  <2> SUFFICES ASSUME Inv, [Next]_vars PROVE Inv'
    OBVIOUS
  <2>1. CASE FileRead
    <3>1. length' \in Nat /\ length' <= ReadMax + 2
      BY <2>1, ReadLengthBounds, ReadAssumption DEF FileRead
    <3>2. /\ mark = 0 /\ mark' = Mark /\ sent' = 0
          /\ cur_pkt_out_write' = cur_pkt_out_write /\ cur_pkt_out_write = 0
      BY <2>1 DEF FileRead, Inv
    <3>3. TypeOK'
      BY <3>1, <3>2, WidthAssumption, ReadAssumption DEF TypeOK
    <3>4. InOrder' /\ SentWhole'
      BY <3>2 DEF Mark, InOrder, SentWhole
    <3>5. sent' < HdrSize + length'
      BY <3>1, <3>2, HeaderComesFirst
    <3> QED
      BY <3>1, <3>2, <3>3, <3>4, <3>5 DEF Inv, Mark
  <2>2. CASE WriteByte
    <3> USE WidthAssumption, ReadAssumption
    <3>1. TypeOK'
      BY <2>2 DEF WriteByte, Mark, Step, Incremented, Inv, TypeOK
    <3>2. InOrder' /\ SentWhole'
      BY <2>2 DEF WriteByte, Mark, Step, Incremented, Inv, TypeOK, InOrder, SentWhole,
                  Indexable
    <3>3. /\ mark' = 0 => cur_pkt_out_write' = 0
          /\ mark' = Mark /\ Indexable' => sent' < HdrSize + length'
      BY <2>2 DEF WriteByte, Mark, Step, Incremented, Inv, TypeOK, InOrder, Indexable
    <3> QED
      BY <2>2, <3>1, <3>2, <3>3 DEF Inv, WriteByte
  <2>3. CASE UNCHANGED vars
    BY <2>3 DEF vars, Inv, TypeOK, InOrder, SentWhole, Indexable
  <2> QED
    BY <2>1, <2>2, <2>3 DEF Next
<1> QED
  BY <1>1, <1>2, PTL DEF Spec

\* Every byte on the line is the next one of the reply, whatever the widths and
\* whatever was sent before, as long as the index can count the reply.
THEOREM RepliesAreSentInOrder == Spec => []InOrder
  BY InvIsInductive, PTL DEF Inv

\* A reply is whole, as long as its header says, when the transmitter stops.
THEOREM RepliesAreSentWhole == Spec => []SentWhole
  BY InvIsInductive, PTL DEF Inv
=============================================================================
