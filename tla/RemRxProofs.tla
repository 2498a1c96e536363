---------------------------- MODULE RemRxProofs ----------------------------
(***************************************************************************)
(* Proofs about RemRx: the receiver is in step after a flood, for every    *)
(* width of its count, every header size and every flood that is at least  *)
(* as long as the count can go (300 >= 256 in the code).                   *)
(***************************************************************************)
EXTENDS RemRx, TLAPS

\* What the receiver has on a clean line.  Why a flood works: as long as the
\* packet that was begun before it is not complete, every byte of the flood
\* has moved cur_pkt_in_write, which wraps before the flood is over.
Clean ==
    /\ sending = "nothing" => AtBoundary
    /\ sending = "flood" => AtBoundary \/ cur_pkt_in_write > sent
    /\ sending = "packet" /\ sent = 0 => AtBoundary
    /\ sending = "packet" /\ sent > 0 => cur_pkt_in_write = sent
    /\ sending = "packet" /\ sent > 1 => length = len

Count ==
    /\ sending # "nothing" => sent < Total
    /\ sending = "packet" => len \in PacketLens

IInv ==
    /\ TypeOK
    /\ Complete => blocked
    /\ Count
    /\ intact => Clean

ConstantTypes == /\ WriteMod \in Nat /\ HdrSize \in Nat /\ FloodLen \in Nat
                 /\ 2 <= HdrSize /\ HdrSize < WriteMod /\ FloodLen >= WriteMod
                 /\ Mark \in Nat /\ FloodByte \in Nat /\ Mark # FloodByte

LEMMA Constants == ConstantTypes
BY WidthAssumption, ByteAssumption, FloodAssumption DEF ConstantTypes

LEMMA AnyByteFacts ==
    /\ \A b \in AnyByte : b \in Nat
    /\ Mark \in AnyByte /\ FloodByte \in AnyByte /\ 0 \in AnyByte
    /\ \A b \in DataBytes : b \in AnyByte
    /\ \A n \in PacketLens : n \in AnyByte /\ n \in Nat /\ HdrSize + n < WriteMod
BY ByteAssumption, LengthAssumption DEF AnyByte

LEMMA InitIInv == Init => IInv
<1> SUFFICES ASSUME Init PROVE IInv
  OBVIOUS
<1>1. TypeOK
  <2>1. 0 \in 0..(WriteMod - 1)
    BY Constants DEF ConstantTypes
  <2> QED
    BY <2>1, AnyByteFacts DEF Init, TypeOK
<1>2. ~Complete
  BY Constants DEF Init, Complete, ConstantTypes
<1> QED
  BY <1>1, <1>2 DEF Init, IInv, Count, Clean, AtBoundary

\* One byte: what process_input() does with it.
LEMMA StoreFacts ==
    ASSUME TypeOK, Reads, Complete => blocked,
           NEW b \in AnyByte, Store(b)
    PROVE  /\ cur_pkt_in_write' \in 0..(WriteMod - 1)
           /\ length' \in AnyByte
           /\ length' = IF cur_pkt_in_write = 1 THEN b ELSE length
           /\ blocked' \in BOOLEAN
           /\ Complete' => blocked'
           /\ cur_pkt_in_write = 0 /\ b # Mark => cur_pkt_in_write' = 0
           /\ \/ cur_pkt_in_write' = 0
              \/ cur_pkt_in_write' = cur_pkt_in_write + 1
           /\ b = Mark /\ cur_pkt_in_write = 0 => cur_pkt_in_write' = 1
           /\ cur_pkt_in_write # 0 /\ cur_pkt_in_write + 1 < WriteMod
              /\ cur_pkt_in_write + 1 < HdrSize + length'
                => cur_pkt_in_write' = cur_pkt_in_write + 1
           /\ cur_pkt_in_write # 0 /\ cur_pkt_in_write + 1 < WriteMod
              /\ cur_pkt_in_write + 1 = HdrSize + length'
                => AtBoundary'
<1> USE Constants DEF ConstantTypes
<1>1. cur_pkt_in_write \in 0..(WriteMod - 1) /\ length \in Nat /\ blocked \in BOOLEAN
  BY AnyByteFacts DEF TypeOK
<1>2. b \in Nat
  BY AnyByteFacts
<1>3. length' \in Nat /\ length' = IF cur_pkt_in_write = 1 THEN b ELSE length
  BY <1>1, <1>2 DEF Store
<1>4. length' \in AnyByte
  BY <1>3 DEF TypeOK
<1> DEFINE w == Incremented(cur_pkt_in_write)
<1>5. w \in 0..(WriteMod - 1) /\ (w = 0 \/ w = cur_pkt_in_write + 1)
      /\ (cur_pkt_in_write + 1 < WriteMod => w = cur_pkt_in_write + 1)
  BY <1>1 DEF Incremented
<1>6. CASE cur_pkt_in_write = 0 /\ b # Mark
  <2>1. cur_pkt_in_write' = 0 /\ blocked' = blocked
    BY <1>6 DEF Store
  <2> QED
    BY <1>1, <1>3, <1>4, <1>6, <2>1 DEF Complete
<1>7. CASE ~(cur_pkt_in_write = 0 /\ b # Mark) /\ w >= HdrSize + length' /\ ~blocked
  <2>1. cur_pkt_in_write' = 0 /\ blocked' \in BOOLEAN
    BY <1>7 DEF Store, Handled
  <2>2. cur_pkt_in_write # 0
    BY <1>1, <1>3, <1>5, <1>7
  <2> QED
    BY <1>1, <1>3, <1>4, <1>5, <1>7, <2>1, <2>2 DEF Complete, AtBoundary
<1>8. CASE ~(cur_pkt_in_write = 0 /\ b # Mark) /\ ~(w >= HdrSize + length' /\ ~blocked)
  <2>1. cur_pkt_in_write' = w /\ blocked' = blocked
    BY <1>8 DEF Store
  <2> QED
    BY <1>1, <1>3, <1>4, <1>5, <1>8, <2>1 DEF Complete, AtBoundary
<1> QED
  BY <1>6, <1>7, <1>8

LEMMA Inductive == IInv /\ [Next]_vars => IInv'
<1> SUFFICES ASSUME IInv, [Next]_vars PROVE IInv'
  OBVIOUS
<1> USE Constants DEF ConstantTypes
<1>1. /\ cur_pkt_in_write \in 0..(WriteMod - 1) /\ length \in Nat /\ len \in Nat
      /\ blocked \in BOOLEAN /\ intact \in BOOLEAN /\ sent \in Nat
      /\ TypeOK /\ (Complete => blocked)
  BY AnyByteFacts DEF IInv, TypeOK
\* A byte that arrives; in a flood it is FloodByte.
<1>2. ASSUME NEW b \in AnyByte,
             sending # "nothing", Reads, Store(b), Sent,
             intact' \in BOOLEAN, intact' => intact /\ Comes(b)
      PROVE  IInv'
  <2>1. /\ cur_pkt_in_write' \in 0..(WriteMod - 1)
        /\ length' \in AnyByte
        /\ length' = IF cur_pkt_in_write = 1 THEN b ELSE length
        /\ blocked' \in BOOLEAN
        /\ Complete' => blocked'
        /\ cur_pkt_in_write = 0 /\ b # Mark => cur_pkt_in_write' = 0
        /\ cur_pkt_in_write' = 0 \/ cur_pkt_in_write' = cur_pkt_in_write + 1
        /\ b = Mark /\ cur_pkt_in_write = 0 => cur_pkt_in_write' = 1
        /\ cur_pkt_in_write # 0 /\ cur_pkt_in_write + 1 < WriteMod
           /\ cur_pkt_in_write + 1 < HdrSize + length'
             => cur_pkt_in_write' = cur_pkt_in_write + 1
        /\ cur_pkt_in_write # 0 /\ cur_pkt_in_write + 1 < WriteMod
           /\ cur_pkt_in_write + 1 = HdrSize + length'
             => AtBoundary'
    BY <1>1, <1>2, StoreFacts
  <2>2. /\ sent' = sent + 1 /\ len' = len
        /\ sending' = (IF sent + 1 = Total THEN "nothing" ELSE sending)
        /\ sent < Total
    BY <1>2 DEF Sent, IInv, Count
  <2>3. sending \in {"packet", "flood"} /\ Total \in Nat
    BY <1>1, <1>2 DEF TypeOK, Total
  <2>4. TypeOK'
    BY <1>1, <1>2, <2>1, <2>2, <2>3 DEF TypeOK
  <2>5. Count'
    <3>1. sending' # "nothing" => sending' = sending /\ Total' = Total
                                  /\ sent' < Total
      BY <1>1, <2>2, <2>3 DEF Total
    <3> QED
      BY <2>2, <3>1 DEF IInv, Count
  <2>6. ASSUME intact', sending = "flood" PROVE Clean'
    <3>1. b = FloodByte /\ Total = FloodLen /\ Clean
      BY <1>2, <2>6 DEF Comes, Total, IInv
    <3>2. AtBoundary => cur_pkt_in_write' = 0
      BY <1>2, <2>1, <3>1 DEF AtBoundary, Reads
    <3>3. ~AtBoundary => AtBoundary' \/ cur_pkt_in_write' > sent'
      BY <1>1, <2>1, <2>2, <2>6, <3>1 DEF Clean, AtBoundary
    <3>4. AtBoundary' \/ cur_pkt_in_write' > sent'
      BY <3>2, <3>3 DEF AtBoundary
    <3>5. sending' = "nothing" => AtBoundary'
      BY <1>1, <2>1, <2>2, <2>6, <3>1, <3>4
    <3>6. sending' = "flood" \/ sending' = "nothing"
      BY <2>2, <2>6
    <3> QED
      BY <3>4, <3>5, <3>6 DEF Clean
  <2>7. ASSUME intact', sending = "packet" PROVE Clean'
    <3>1. /\ Comes(b) /\ Clean
          /\ Total = HdrSize + len /\ HdrSize + len < WriteMod
      BY <1>2, <2>7, AnyByteFacts DEF Total, IInv, Count
    <3>2. cur_pkt_in_write = sent
      BY <1>1, <1>2, <2>7, <3>1 DEF Clean, AtBoundary, Reads
    <3>3. (sent = 0 => b = Mark) /\ (sent = 1 => b = len)
      BY <2>7, <3>1 DEF Comes
    <3>4. sent >= 1 => length' = len
      BY <1>1, <2>1, <2>7, <3>1, <3>2, <3>3 DEF Clean
    <3>5. CASE sent + 1 = Total
      <4>1. sending' = "nothing" /\ sent >= 1
        BY <1>1, <2>2, <3>1, <3>5
      <4>2. AtBoundary'
        BY <1>1, <2>1, <3>1, <3>2, <3>4, <3>5, <4>1
      <4> QED
        BY <4>1, <4>2 DEF Clean
    <3>6. CASE sent + 1 # Total
      <4>1. sending' = "packet" /\ sent + 1 < Total
        BY <1>1, <2>2, <2>3, <2>7, <3>6
      <4>2. cur_pkt_in_write' = sent + 1
        <5>1. CASE sent = 0
          BY <2>1, <3>2, <3>3, <5>1
        <5>2. CASE sent # 0
          BY <1>1, <2>1, <3>1, <3>2, <3>4, <4>1, <5>2
        <5> QED
          BY <5>1, <5>2
      <4>3. sent' # 0 /\ (sent' > 1 => length' = len')
        BY <1>1, <2>2, <3>4
      <4> QED
        BY <2>2, <4>1, <4>2, <4>3 DEF Clean
    <3> QED
      BY <3>5, <3>6
  <2> QED
    BY <2>1, <2>3, <2>4, <2>5, <2>6, <2>7 DEF IInv
<1>3. CASE Unblock
  <2>1. UNCHANGED <<length, sending, len, sent, intact>> /\ Total' = Total
    BY <1>3 DEF Unblock, Total
  <2>2. TypeOK' /\ Count'
    <3>1. cur_pkt_in_write' \in {0, cur_pkt_in_write} /\ blocked' \in BOOLEAN
      BY <1>3 DEF Unblock, Handled
    <3>2. cur_pkt_in_write' \in 0..(WriteMod - 1)
      BY <1>1, <3>1
    <3> QED
      BY <1>1, <2>1, <3>1, <3>2 DEF IInv, TypeOK, Count
  <2>3. CASE Complete
    <3>1. cur_pkt_in_write' = 0 /\ AtBoundary
      BY <1>1, <1>3, <2>3 DEF Unblock, Handled, AtBoundary
    <3>2. ~Complete' /\ AtBoundary'
      BY <1>1, <2>1, <3>1 DEF Complete, AtBoundary
    <3>3. intact => ~(sending = "packet" /\ sent > 0)
      \* A packet that is being sent is not complete yet.
      BY <1>1, <2>3, LengthAssumption DEF IInv, Clean, Count, Complete, Total
    <3> QED
      BY <1>1, <2>1, <2>2, <3>2, <3>3 DEF IInv, Clean
  <2>4. CASE ~Complete
    <3>1. cur_pkt_in_write' = cur_pkt_in_write /\ ~Complete'
      BY <1>3, <2>1, <2>4 DEF Unblock, Complete
    <3>2. AtBoundary => AtBoundary'
      BY <2>4, <3>1 DEF AtBoundary
    <3> QED
      BY <2>1, <2>2, <3>1, <3>2 DEF IInv, Clean
  <2> QED
    BY <2>3, <2>4
<1>4. CASE StartPacket
  <2>1. /\ sending = "nothing" /\ sending' = "packet" /\ sent' = 0
        /\ len' \in PacketLens /\ intact' = intact
        /\ (Complete' <=> Complete) /\ blocked' = blocked /\ (AtBoundary' <=> AtBoundary)
    BY <1>4 DEF StartPacket, server, Complete, AtBoundary
  <2>2. TypeOK'
    BY <1>1, <1>4, <2>1 DEF StartPacket, server, TypeOK
  <2>3. Count'
    BY <2>1, AnyByteFacts DEF Count, Total
  <2> QED
    BY <1>1, <2>1, <2>2, <2>3 DEF IInv, Clean
<1>5. CASE StartFlood
  <2>1. /\ sending' = "flood" /\ sent' = 0
        /\ (Complete' <=> Complete) /\ blocked' = blocked
        /\ cur_pkt_in_write' = cur_pkt_in_write
    BY <1>5 DEF StartFlood, server, Complete
  <2>2. TypeOK'
    BY <1>1, <1>5, <2>1 DEF StartFlood, server, TypeOK
  <2>3. Count' /\ Clean'
    BY <1>1, <2>1 DEF Count, Clean, Total, AtBoundary
  <2> QED
    BY <1>1, <2>1, <2>2, <2>3 DEF IInv
<1>6. CASE ByteArrives
  <2> PICK b \in AnyByte : Comes(b) /\ Store(b)
    BY <1>6 DEF ByteArrives
  <2>1. sending # "nothing" /\ Reads /\ Sent /\ intact' = intact
    BY <1>6 DEF ByteArrives
  <2>2. intact' \in BOOLEAN
    BY <1>1, <2>1
  <2> QED
    BY <1>2, <2>1, <2>2
<1>7. CASE ByteChanged
  <2> PICK b \in AnyByte : Store(b)
    BY <1>7 DEF ByteChanged
  <2>1. sending # "nothing" /\ Reads /\ Sent /\ intact' = FALSE
    BY <1>7 DEF ByteChanged
  <2> QED
    BY <1>2, <2>1
<1>8. CASE ByteLost \/ Overrun
  <2>1. /\ sending \in {"packet", "flood"} /\ sent' = sent + 1 /\ len' = len
        /\ sending' = IF sent + 1 = Total THEN "nothing" ELSE sending
        /\ UNCHANGED server
    BY <1>1, <1>8 DEF ByteLost, Overrun, Sent, TypeOK
  <2>2. (Complete' <=> Complete) /\ blocked' = blocked /\ (AtBoundary' <=> AtBoundary)
    BY <2>1 DEF server, Complete, AtBoundary
  <2>3. TypeOK'
    <3>1. intact' = FALSE \/ intact' = intact
      BY <1>8 DEF ByteLost, Overrun
    <3>2. intact' \in BOOLEAN
      BY <1>1, <3>1
    <3>3. sending' \in {"nothing", "packet", "flood"} /\ sent' \in Nat
      BY <1>1, <2>1
    <3> QED
      BY <1>1, <2>1, <3>2, <3>3 DEF server, TypeOK
  <2>4. Count'
    <3>1. Total \in Nat /\ sent < Total
      BY <1>1, <2>1 DEF Total, IInv, Count
    <3>2. sending' # "nothing" => sending' = sending /\ Total' = Total
                                  /\ sent' < Total
      BY <1>1, <2>1, <3>1 DEF Total
    <3> QED
      BY <2>1, <3>2 DEF IInv, Count
  <2>5. intact' => Clean'
    <3>1. intact' => Overrun
      BY <1>8 DEF ByteLost
    <3>2. Overrun => sending = "flood" /\ AtBoundary
      BY DEF Overrun, Reads, AtBoundary
    <3>3. sending = "flood" => sending' \in {"nothing", "flood"}
      BY <2>1
    <3> QED
      BY <2>2, <3>1, <3>2, <3>3 DEF Clean
  <2> QED
    BY <1>1, <2>2, <2>3, <2>4, <2>5 DEF IInv
<1>9. CASE UNCHANGED vars
  <2>1. Total' = Total /\ (Complete' <=> Complete) /\ (AtBoundary' <=> AtBoundary)
    BY <1>9 DEF vars, Total, Complete, AtBoundary
  <2>2. TypeOK' /\ Count' /\ (Clean' <=> Clean)
    BY <1>9, <2>1 DEF vars, IInv, TypeOK, Count, Clean
  <2> QED
    BY <1>9, <2>1, <2>2 DEF vars, IInv
<1> QED
  BY <1>3, <1>4, <1>5, <1>6, <1>7, <1>8, <1>9 DEF Next

THEOREM InvariantHolds == Spec => []IInv
BY InitIInv, Inductive, PTL DEF Spec

-----------------------------------------------------------------------------

\* cur_pkt_in_write and length stay bytes.
THEOREM TypeCorrect == Spec => []TypeOK
<1>1. IInv => TypeOK
  BY DEF IInv
<1> QED
  BY <1>1, InvariantHolds, PTL

\* A flood that arrives puts the server in step, from every state that any
\* loss or change of bytes can have left it in, and it stays in step.
THEOREM FloodResynchronizes == Spec => []InStep
<1>1. IInv => InStep
  BY DEF IInv, Clean, InStep
<1> QED
  BY <1>1, InvariantHolds, PTL

\* On a clean line no packet is cut, merged or misplaced.
THEOREM PacketsAreTracked == Spec => []Tracking
<1>1. IInv => Tracking
  BY DEF IInv, Clean, Tracking
<1> QED
  BY <1>1, InvariantHolds, PTL

\* What comes after the partial packet in a flood is skipped.
THEOREM RestOfFloodIsSkipped == Spec => FloodSkipped
<1>1. IInv /\ [Next]_vars
        => [intact' /\ sending = "flood" /\ AtBoundary => AtBoundary']_vars
  <2> SUFFICES ASSUME IInv, Next, intact', sending = "flood", AtBoundary
               PROVE  AtBoundary'
    BY DEF vars, AtBoundary, Complete
  <2> USE Constants DEF ConstantTypes
  <2>1. cur_pkt_in_write \in 0..(WriteMod - 1) /\ length \in Nat
    BY AnyByteFacts DEF IInv, TypeOK
  <2>2. CASE ByteArrives
    <3> PICK b \in AnyByte : Comes(b) /\ Store(b)
      BY <2>2 DEF ByteArrives
    <3>1. b # Mark /\ cur_pkt_in_write = 0
      BY <2>2 DEF Comes, ByteArrives, Reads, AtBoundary
    <3> QED
      BY <3>1 DEF Store, AtBoundary
  <2>3. CASE Unblock
    BY <2>1, <2>3 DEF Unblock, Handled, AtBoundary
  <2>4. CASE Overrun
    BY <2>4 DEF Overrun, server, AtBoundary, Complete
  <2>5. CASE StartPacket \/ StartFlood \/ ByteLost \/ ByteChanged
    BY <2>5 DEF StartPacket, StartFlood, ByteLost, ByteChanged
  <2> QED
    BY <2>2, <2>3, <2>4, <2>5 DEF Next
<1> QED
  BY <1>1, InvariantHolds, PTL DEF Spec, FloodSkipped
=============================================================================
