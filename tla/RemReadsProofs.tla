--------------------------- MODULE RemReadsProofs ---------------------------
(***************************************************************************)
(* The commands that read, for every size, every number of faults and any  *)
(* count of sequence numbers: what of RemReads's safety holds, and on what *)
(* condition.                                                              *)
(*                                                                         *)
(* memdump and download do not depend on the sequence numbers: a memdump   *)
(* without late replies never has more than one packet on the line, and a  *)
(* download goes on after a failure only by way of a SEEK that ends it if  *)
(* anything but its own reply comes back.  dir does: the one thing that    *)
(* shows it a lost entry is the number of the next one.                    *)
(***************************************************************************)
EXTENDS RemReads, TLAPS

\* The packets of all the commands.
Ops == {"FIND", "NEXT", "FINISHED", "MEMREAD", "OPEN", "SEEK", "READ", "CLOSE",
        "BUSY", "ERROR", "MSDOS_ERROR"}
Packets == [seq : Int, good : BOOLEAN, body : [op : Ops, arg : Int]]

LinkTypes ==
    /\ c2s \in Seq(Packets) /\ s2c \in Seq(Packets)
    /\ cur_pkt_seq \in Int /\ cur_pkt_recv_seq \in Int
    /\ cur_pkt_in_seq \in Int /\ cur_pkt_out_seq \in Int
    /\ connected \in BOOLEAN /\ waiting \in BOOLEAN

-----------------------------------------------------------------------------
(* Sequences and packets.                                                  *)

LEMMA TailFacts ==
    ASSUME NEW S, NEW s \in Seq(S), s # <<>>
    PROVE  /\ Head(s) = s[1] /\ Head(s) \in S /\ Len(s) \in Nat \ {0}
           /\ Tail(s) \in Seq(S) /\ Len(Tail(s)) = Len(s) - 1
           /\ \A i \in 1 .. Len(Tail(s)) : Tail(s)[i] = s[i + 1]
OBVIOUS

LEMMA AppendFacts ==
    ASSUME NEW S, NEW s \in Seq(S), NEW e \in S
    PROVE  /\ Append(s, e) \in Seq(S) /\ Len(Append(s, e)) = Len(s) + 1
           /\ \A i \in 1 .. Len(s) : Append(s, e)[i] = s[i]
           /\ Append(s, e)[Len(s) + 1] = e
OBVIOUS

LEMMA EmptySeq == ASSUME NEW S, NEW s \in Seq(S), Len(s) = 0 PROVE s = <<>>
OBVIOUS

\* What is left of a packet that may be dropped.
LEMMA SuffixFacts ==
    ASSUME NEW S, NEW s \in Seq(S), Len(s) <= 1, NEW n \in 0 .. Len(s)
    PROVE  SubSeq(s, n + 1, Len(s)) \in {s, <<>>}
<1>1. Len(s) \in Nat
  OBVIOUS
<1>2. n = 0 \/ n = Len(s)
  BY <1>1
<1>3. CASE n = 0
  <2> DEFINE t == SubSeq(s, 1, Len(s))
  <2>1. /\ t \in Seq(S) /\ Len(t) = Len(s)
        /\ \A i \in 1 .. Len(s) : t[i] = s[i]
    BY <1>1
  <2> HIDE DEF t
  <2>2. t = s
    BY <1>1, <2>1
  <2> QED
    BY <1>3, <2>2 DEF t
<1>4. CASE n = Len(s)
  BY <1>1, <1>4
<1> QED
  BY <1>2, <1>3, <1>4

\* A damaged packet keeps its number and its body.
LEMMA DamagedFacts ==
    ASSUME NEW s \in Seq(Packets), s # <<>>
    PROVE  /\ [s EXCEPT ![1].good = FALSE] \in Seq(Packets)
           /\ Len([s EXCEPT ![1].good = FALSE]) = Len(s)
           /\ \A i \in 1 .. Len(s) : /\ [s EXCEPT ![1].good = FALSE][i].body = s[i].body
                                     /\ [s EXCEPT ![1].good = FALSE][i].seq = s[i].seq
<1>1. Len(s) \in Nat /\ 1 \in 1 .. Len(s) /\ s[1] \in Packets
  OBVIOUS
<1> DEFINE bad == [s[1] EXCEPT !.good = FALSE]
<1>2. bad \in Packets /\ bad.body = s[1].body /\ bad.seq = s[1].seq
  BY <1>1 DEF Packets
<1>3. [s EXCEPT ![1].good = FALSE] = [s EXCEPT ![1] = bad]
  OBVIOUS
<1> HIDE DEF bad
<1>4. /\ [s EXCEPT ![1] = bad] \in Seq(Packets) /\ Len([s EXCEPT ![1] = bad]) = Len(s)
      /\ \A i \in 1 .. Len(s) : [s EXCEPT ![1] = bad][i] = IF i = 1 THEN bad ELSE s[i]
  BY <1>1, <1>2
<1> QED
  BY <1>2, <1>3, <1>4

\* What the line does to the packets: the oldest one of a direction is lost or
\* damaged.
Lost == \/ c2s # <<>> /\ c2s' = Tail(c2s) /\ s2c' = s2c
        \/ s2c # <<>> /\ s2c' = Tail(s2c) /\ c2s' = c2s
Damaged == \/ c2s # <<>> /\ c2s' = [c2s EXCEPT ![1].good = FALSE] /\ s2c' = s2c
           \/ s2c # <<>> /\ s2c' = [s2c EXCEPT ![1].good = FALSE] /\ c2s' = c2s

Shorter(s, t) == Len(t) = Len(s) - 1 /\ \A i \in 1 .. Len(t) : t[i] = s[i + 1]
Alike(s, t)   == /\ Len(t) = Len(s)
                 /\ \A i \in 1 .. Len(s) : t[i].body = s[i].body /\ t[i].seq = s[i].seq

LEMMA LineFacts ==
    ASSUME LinkTypes, Lost \/ Damaged
    PROVE  /\ c2s' \in Seq(Packets) /\ s2c' \in Seq(Packets)
           /\ \/ Shorter(c2s, c2s') /\ c2s # <<>> /\ s2c' = s2c
              \/ Shorter(s2c, s2c') /\ s2c # <<>> /\ c2s' = c2s
              \/ Alike(c2s, c2s') /\ Alike(s2c, s2c')
<1>1. c2s \in Seq(Packets) /\ s2c \in Seq(Packets)
  BY DEF LinkTypes
<1>2. CASE Lost
  BY <1>1, <1>2, TailFacts DEF Lost, Shorter
<1>3. CASE Damaged
  <2>1. CASE c2s # <<>> /\ c2s' = [c2s EXCEPT ![1].good = FALSE] /\ s2c' = s2c
    BY <1>1, <2>1, DamagedFacts DEF Alike
  <2>2. CASE s2c # <<>> /\ s2c' = [s2c EXCEPT ![1].good = FALSE] /\ c2s' = c2s
    BY <1>1, <2>2, DamagedFacts DEF Alike
  <2> QED
    BY <1>3, <2>1, <2>2 DEF Damaged
<1> QED
  BY <1>2, <1>3

-----------------------------------------------------------------------------
(* memdump.                                                                *)

\* No reply is late.
DumpInTime == "late" \notin DumpFaults

\* Of the one block that is asked for: its request, or the reply to it, or
\* neither.
Block ==
    /\ Len(c2s) + Len(s2c) <= 1
    /\ \A i \in 1 .. Len(c2s) : c2s[i].body.op = "MEMREAD" => c2s[i].body.arg = Len(dump) + 1
    /\ \A i \in 1 .. Len(s2c) : s2c[i].body.op = "MEMREAD" => s2c[i].body.arg = Len(dump) + 1

DumpInv ==
    /\ LinkTypes /\ dump \in Seq(Int) /\ call \in {"MEMREAD", "END"}
    /\ ~waiting => c2s = <<>> /\ s2c = <<>>
    /\ Block
    /\ Memdump!DumpIsMemory

LEMMA DumpInit == ASSUME Memdump!Init PROVE DumpInv
<1>1. LinkTypes
  <2>1. SeqMod \in Int
    BY LinkAssumption
  <2>2. cur_pkt_in_seq \in Int /\ cur_pkt_out_seq \in Int
    BY <2>1 DEF Memdump!Init, Memdump!LinkInit, Memdump!NoSeq
  <2>3. c2s \in Seq(Packets) /\ s2c \in Seq(Packets)
    BY DEF Memdump!Init, Memdump!LinkInit
  <2>4. connected \in BOOLEAN /\ waiting \in BOOLEAN
    BY DEF Memdump!Init, Memdump!LinkInit
  <2>5. cur_pkt_seq \in Int /\ cur_pkt_recv_seq \in Int
    BY DEF Memdump!Init, Memdump!LinkInit, Memdump!NoSeq
  <2> QED
    BY <2>2, <2>3, <2>4, <2>5 DEF LinkTypes
<1>2. dump \in Seq(Int) /\ call \in {"MEMREAD", "END"} /\ Memdump!DumpIsMemory
  BY DEF Memdump!Init, Memdump!DumpIsMemory
<1>3. c2s = <<>> /\ s2c = <<>>
  BY DEF Memdump!Init, Memdump!LinkInit
<1> QED
  BY <1>1, <1>2, <1>3 DEF DumpInv, Block

\* With nothing on the line the rest is the dump.
LEMMA DumpClear ==
    ASSUME LinkTypes', (dump \in Seq(Int))', (call \in {"MEMREAD", "END"})',
           c2s' = <<>>, s2c' = <<>>, Memdump!DumpIsMemory'
    PROVE  DumpInv'
BY DEF DumpInv, Block

LEMMA NextSeqInt == ASSUME NEW seq \in Int PROVE Memdump!NextSeq(seq) \in Int
BY LinkAssumption DEF Memdump!NextSeq

LEMMA DumpSend == ASSUME DumpInv, Memdump!SendRequest PROVE DumpInv'
<1> DEFINE pkt == [seq |-> cur_pkt_seq, body |-> Memdump!Body(call, Len(dump) + 1), good |-> TRUE]
<1>1. /\ call = "MEMREAD" /\ ~waiting /\ waiting' = TRUE /\ c2s' = Append(c2s, pkt)
      /\ cur_pkt_seq' = Memdump!NextSeq(cur_pkt_seq)
      /\ UNCHANGED <<s2c, call, cur_pkt_recv_seq, connected, cur_pkt_in_seq, cur_pkt_out_seq, dump>>
  BY DEF Memdump!SendRequest, Memdump!Send, Memdump!Wanted, Memdump!serverSeqs
<1>2. pkt \in Packets /\ pkt.body.arg = Len(dump) + 1
  BY <1>1 DEF Packets, Memdump!Body, DumpInv, LinkTypes, Ops
<1> HIDE DEF pkt
<1>3. c2s = <<>> /\ s2c = <<>>
  BY <1>1 DEF DumpInv
<1>4. c2s' \in Seq(Packets) /\ Len(c2s') = 1 /\ c2s'[1] = pkt
  BY <1>1, <1>2, <1>3, AppendFacts DEF DumpInv, LinkTypes
<1>5. LinkTypes'
  BY <1>1, <1>4, NextSeqInt DEF DumpInv, LinkTypes
<1>6. Block'
  BY <1>1, <1>2, <1>3, <1>4 DEF Block
<1> QED
  BY <1>1, <1>5, <1>6 DEF DumpInv, Memdump!DumpIsMemory

LEMMA DumpReceive == ASSUME DumpInv, Memdump!Receive PROVE DumpInv'
<1>1. /\ waiting /\ s2c # <<>> /\ s2c' = Tail(s2c) /\ waiting' = FALSE
      /\ cur_pkt_recv_seq' = Memdump!NextSeq(Head(s2c).seq)
      /\ UNCHANGED <<c2s, cur_pkt_seq, connected, cur_pkt_in_seq, cur_pkt_out_seq>>
  BY DEF Memdump!Receive, Memdump!Received, Memdump!serverSeqs
<1>2. /\ Head(s2c) = s2c[1] /\ Head(s2c) \in Packets /\ Len(s2c) \in Nat \ {0}
      /\ s2c' \in Seq(Packets) /\ Len(s2c') = Len(s2c) - 1
      /\ c2s \in Seq(Packets) /\ Len(c2s) \in Nat
  BY <1>1, TailFacts DEF DumpInv, LinkTypes
<1>3. Len(c2s) = 0 /\ Len(s2c) = 1
  BY <1>2 DEF DumpInv, Block
<1>4. c2s' = <<>> /\ s2c' = <<>>
  BY <1>1, <1>2, <1>3, EmptySeq
<1>5. LinkTypes'
  BY <1>1, <1>2, NextSeqInt DEF DumpInv, LinkTypes, Packets
<1>6. CASE Memdump!Fits(Memdump!TheReply)
  <2>1. dump' = Append(dump, Memdump!TheReply.arg) /\ call' \in {"MEMREAD", "END"}
    BY <1>6 DEF Memdump!Receive
  <2>2. Memdump!TheReply.arg = Len(dump) + 1
    BY <1>2, <1>3, <1>6 DEF Memdump!Fits, Memdump!TheReply, DumpInv, Block
  <2>3. dump \in Seq(Int) /\ Len(dump) \in Nat
    BY DEF DumpInv
  <2>4. /\ dump' \in Seq(Int) /\ Len(dump') = Len(dump) + 1
        /\ \A n \in 1 .. Len(dump) : dump'[n] = dump[n]
        /\ dump'[Len(dump) + 1] = Len(dump) + 1
    BY <2>1, <2>2, <2>3
  <2>5. Memdump!DumpIsMemory'
    BY <2>3, <2>4 DEF DumpInv, Memdump!DumpIsMemory
  <2> QED
    BY <1>4, <1>5, <2>1, <2>4, <2>5, DumpClear
<1>7. CASE ~Memdump!Fits(Memdump!TheReply)
  <2>1. UNCHANGED <<call, dump>>
    BY <1>7 DEF Memdump!Receive, Memdump!NotGot
  <2> QED
    BY <1>4, <1>5, <2>1, DumpClear DEF DumpInv, Memdump!DumpIsMemory
<1> QED
  BY <1>6, <1>7

LEMMA DumpNoReply == ASSUME DumpInv, DumpInTime, Memdump!NoReply PROVE DumpInv'
<1>1. UNCHANGED <<call, dump>> /\ (Memdump!Refused \/ Memdump!TimedOut)
  BY DEF Memdump!NoReply, Memdump!NotGot
<1>2. /\ c2s \in Seq(Packets) /\ s2c \in Seq(Packets) /\ Len(c2s) \in Nat /\ Len(s2c) \in Nat
      /\ Len(c2s) + Len(s2c) <= 1
  BY DEF DumpInv, LinkTypes, Block
<1>3. CASE Memdump!Refused
  <2>1. /\ s2c # <<>> /\ s2c' = Tail(s2c) /\ connected' = FALSE /\ waiting' = FALSE
        /\ UNCHANGED <<c2s, cur_pkt_seq, cur_pkt_recv_seq, cur_pkt_in_seq, cur_pkt_out_seq>>
    BY <1>3 DEF Memdump!Refused, Memdump!clientSeqs, Memdump!serverSeqs
  <2>2. s2c' \in Seq(Packets) /\ Len(s2c') = Len(s2c) - 1 /\ Len(s2c) \in Nat \ {0}
    BY <1>2, <2>1, TailFacts
  <2>3. c2s' = <<>> /\ s2c' = <<>>
    BY <1>2, <2>1, <2>2, EmptySeq
  <2>4. LinkTypes'
    BY <2>1, <2>2 DEF DumpInv, LinkTypes
  <2> QED
    BY <1>1, <2>3, <2>4, DumpClear DEF DumpInv, Memdump!DumpIsMemory
<1>4. CASE Memdump!TimedOut
  <2>1. /\ s2c = <<>> /\ c2s = <<>> /\ connected' = FALSE /\ waiting' = FALSE
        /\ cur_pkt_seq' = -1 /\ cur_pkt_recv_seq' = -1
        /\ UNCHANGED <<c2s, s2c, cur_pkt_in_seq, cur_pkt_out_seq>>
    BY <1>4 DEF Memdump!TimedOut, Memdump!TimedOutUnless, Memdump!Fault, Memdump!ResetSeqs,
       Memdump!NoSeq, Memdump!serverSeqs, DumpInTime
  <2>2. cur_pkt_seq' \in Int /\ cur_pkt_recv_seq' \in Int
    BY <2>1
  <2>3. connected' \in BOOLEAN /\ waiting' \in BOOLEAN
    BY <2>1
  <2>4. LinkTypes'
    BY <2>1, <2>2, <2>3 DEF DumpInv, LinkTypes
  <2> QED
    BY <1>1, <2>1, <2>4, DumpClear DEF DumpInv, Memdump!DumpIsMemory
<1> QED
  BY <1>1, <1>3, <1>4

LEMMA DumpReconnect == ASSUME DumpInv, Memdump!Reconnect PROVE DumpInv'
<1>1. /\ UNCHANGED <<call, dump, c2s, cur_pkt_recv_seq, waiting,
                     cur_pkt_in_seq, cur_pkt_out_seq>>
      /\ cur_pkt_seq' \in {cur_pkt_seq, Memdump!NextSeq(cur_pkt_seq)}
      /\ s2c' = s2c \/ \E n \in 0 .. Len(s2c) : s2c' = SubSeq(s2c, n + 1, Len(s2c))
  BY DEF Memdump!Reconnect, Memdump!Reconnected, Memdump!Offline, Memdump!clientSeqs,
     Memdump!serverSeqs
<1>2. s2c \in Seq(Packets) /\ Len(c2s) \in Nat
  BY DEF DumpInv, LinkTypes
<1>3. s2c' = s2c \/ s2c' = <<>>
  <2> SUFFICES ASSUME s2c' # s2c PROVE s2c' = <<>>
    OBVIOUS
  <2>1. Len(s2c) \in Nat /\ Len(s2c) <= 1
    BY <1>2 DEF DumpInv, Block
  <2>2. PICK n \in 0 .. Len(s2c) : s2c' = SubSeq(s2c, n + 1, Len(s2c))
    BY <1>1
  <2> QED
    BY <1>2, <2>1, <2>2, SuffixFacts
<1>4. s2c' \in Seq(Packets)
  <2>1. CASE s2c' = s2c
    BY <1>2, <2>1
  <2>2. CASE s2c' = <<>>
    BY <2>2
  <2> QED
    BY <1>3, <2>1, <2>2
<1>5. LinkTypes'
  <2>1. connected' \in BOOLEAN
    BY DEF Memdump!Reconnect, Memdump!Reconnected, Memdump!Offline, DumpInv, LinkTypes
  <2>2. cur_pkt_seq' \in Int
    BY <1>1, NextSeqInt DEF DumpInv, LinkTypes
  <2> QED
    BY <1>1, <1>4, <2>1, <2>2 DEF DumpInv, LinkTypes
<1>6. Block'
  <2>1. CASE s2c' = s2c
    BY <1>1, <2>1 DEF DumpInv, Block
  <2>2. CASE s2c' = <<>>
    BY <1>1, <1>2, <2>2 DEF DumpInv, Block, LinkTypes
  <2> QED
    BY <1>3, <2>1, <2>2
<1>7. ~waiting' => c2s' = <<>> /\ s2c' = <<>>
  BY <1>1, <1>3 DEF DumpInv
<1> QED
  BY <1>1, <1>5, <1>6, <1>7 DEF DumpInv, Memdump!DumpIsMemory

LEMMA DumpServer == ASSUME DumpInv, Memdump!Server PROVE DumpInv'
<1>1. PICK body \in {Memdump!Body("ERROR", 0)} \cup {Memdump!Body("MEMREAD", n) : n \in 1 .. Blocks} :
        /\ c2s # <<>> /\ Memdump!Reply(body)
        /\ body.op = "MEMREAD" => Head(c2s).body = body
        /\ cur_pkt_in_seq' \in Int /\ cur_pkt_out_seq' \in Int /\ dump' = dump
  <2>1. c2s # <<>> => Head(c2s) \in Packets
    BY TailFacts DEF DumpInv, LinkTypes
  <2>2. CASE Memdump!Memread
    BY <2>1, <2>2, NextSeqInt DEF Memdump!Memread, Memdump!Request, Memdump!Answer, DumpInv,
       LinkTypes, Packets
  <2>3. CASE Memdump!Reject
    BY <2>3 DEF Memdump!Reject, Memdump!RejectRequest, Memdump!NoSeq, Memdump!Body,
       DumpInv, LinkTypes
  <2> QED
    BY <2>2, <2>3 DEF Memdump!Server
<1> DEFINE pkt == [seq |-> cur_pkt_out_seq, body |-> body, good |-> TRUE]
<1>2. /\ c2s' = Tail(c2s) /\ s2c' = Append(s2c, pkt)
      /\ UNCHANGED <<call, cur_pkt_seq, cur_pkt_recv_seq, connected, waiting>>
  BY <1>1 DEF Memdump!Reply, Memdump!clientSeqs
<1>3. pkt \in Packets /\ pkt.body = body
  <2>1. cur_pkt_out_seq \in Int /\ Blocks \in Nat
    BY SizeAssumption DEF DumpInv, LinkTypes
  <2>2. body \in [op : Ops, arg : Int]
    BY <2>1 DEF Memdump!Body, Ops
  <2> QED
    BY <2>1, <2>2 DEF Packets
<1> HIDE DEF pkt
<1>4. /\ Head(c2s) = c2s[1] /\ Len(c2s) \in Nat \ {0} /\ c2s' \in Seq(Packets)
      /\ Len(c2s') = Len(c2s) - 1 /\ Len(s2c) \in Nat
  BY <1>1, <1>2, TailFacts DEF DumpInv, LinkTypes
<1>5. Len(c2s') = 0 /\ Len(s2c) = 0 /\ waiting
  BY <1>1, <1>4 DEF DumpInv, Block
<1>6. s2c' \in Seq(Packets) /\ Len(s2c') = 1 /\ s2c'[1] = pkt
  BY <1>2, <1>3, <1>5, AppendFacts DEF DumpInv, LinkTypes
<1>7. LinkTypes'
  BY <1>1, <1>2, <1>4, <1>6 DEF DumpInv, LinkTypes
<1>8. Block'
  <2>1. body.op = "MEMREAD" => body.arg = Len(dump) + 1
    BY <1>1, <1>4 DEF DumpInv, Block
  <2> QED
    BY <1>1, <1>3, <1>5, <1>6, <2>1 DEF Block
<1> QED
  BY <1>1, <1>2, <1>5, <1>7, <1>8 DEF DumpInv, Memdump!DumpIsMemory

LEMMA DumpLine == ASSUME DumpInv, Memdump!Line PROVE DumpInv'
<1>1. /\ UNCHANGED <<call, cur_pkt_seq, cur_pkt_recv_seq, connected, waiting,
                     cur_pkt_in_seq, cur_pkt_out_seq, dump>>
      /\ Lost \/ Damaged
  BY DEF Memdump!Line, Memdump!Lose, Memdump!Damage, Memdump!clientSeqs, Memdump!serverSeqs,
     Lost, Damaged
<1>2. /\ c2s' \in Seq(Packets) /\ s2c' \in Seq(Packets)
      /\ \/ Shorter(c2s, c2s') /\ c2s # <<>> /\ s2c' = s2c
         \/ Shorter(s2c, s2c') /\ s2c # <<>> /\ c2s' = c2s
         \/ Alike(c2s, c2s') /\ Alike(s2c, s2c')
  BY <1>1, LineFacts DEF DumpInv
<1>3. /\ c2s \in Seq(Packets) /\ s2c \in Seq(Packets) /\ Len(c2s) \in Nat /\ Len(s2c) \in Nat
      /\ Len(c2s') \in Nat /\ Len(s2c') \in Nat /\ Len(c2s) + Len(s2c) <= 1
  BY <1>2 DEF DumpInv, LinkTypes, Block
<1>4. LinkTypes'
  BY <1>1, <1>2 DEF DumpInv, LinkTypes
<1>5. Len(c2s') <= Len(c2s) /\ Len(s2c') <= Len(s2c)
  BY <1>2, <1>3 DEF Shorter, Alike
<1>6. \A i \in 1 .. Len(c2s') : i = 1 /\ 1 \in 1 .. Len(c2s) /\ c2s'[i].body = c2s[i].body
  BY <1>2, <1>3 DEF Shorter, Alike
<1>7. \A i \in 1 .. Len(s2c') : i = 1 /\ 1 \in 1 .. Len(s2c) /\ s2c'[i].body = s2c[i].body
  BY <1>2, <1>3 DEF Shorter, Alike
<1>8. Block'
  BY <1>1, <1>3, <1>5, <1>6, <1>7 DEF DumpInv, Block
<1>9. ~waiting' => c2s' = <<>> /\ s2c' = <<>>
  <2>1. ~waiting => Len(c2s) = 0 /\ Len(s2c) = 0
    BY DEF DumpInv
  <2> QED
    BY <1>1, <1>2, <1>3, <1>5, <2>1, EmptySeq
<1> QED
  BY <1>1, <1>4, <1>8, <1>9 DEF DumpInv, Memdump!DumpIsMemory

LEMMA DumpStep == ASSUME DumpInv, DumpInTime, Memdump!Next PROVE DumpInv'
BY DumpSend, DumpReceive, DumpNoReply, DumpReconnect, DumpServer, DumpLine
   DEF Memdump!Next, Memdump!Client

-----------------------------------------------------------------------------
(* dir.                                                                    *)

\* Not so much is lost that the sequence numbers come round.
FewFaults == FaultMax < SeqMod

\* DOS finds all there is.
DosFinds == "dos" \notin DirFaults

Seqs == 0 .. SeqMod - 1

\* The sequence number d packets after the one that is expected.
Ahead(seq, d) == IF seq + d < SeqMod THEN seq + d ELSE seq + d - SeqMod

\* The entries on the line are the ones after the first n, in their order and
\* without a gap, up to the one the server sends next; FINISHED comes last.
Stream(n) ==
    /\ c2s = <<>>
    /\ \A i \in 1 .. Len(s2c) :
           \/ s2c[i].body.op = "FIND" /\ s2c[i].body.arg = n + i
           \/ /\ s2c[i].body.op = "FINISHED" /\ i = Len(s2c) /\ next = 0
              /\ DosFinds => n + i = Entries + 1
    /\ next # 0 => next = n + Len(s2c) + 1

\* Each has the sequence number after the one before.
Chained ==
    /\ \A i \in 1 .. Len(s2c) : s2c[i].seq \in Seqs
    /\ \A i \in 1 .. Len(s2c) : i + 1 \in 1 .. Len(s2c) =>
           s2c[i + 1].seq = Dir!NextSeq(s2c[i].seq)
    /\ next # 0 => cur_pkt_out_seq \in Seqs
    /\ next # 0 /\ s2c # <<>> => cur_pkt_out_seq = Dir!NextSeq(s2c[Len(s2c)].seq)

\* The sequence number of the first of them, which is d after the one that the
\* client expects.
First == IF s2c # <<>> THEN s2c[1].seq ELSE cur_pkt_out_seq
FirstIs(d) == s2c # <<>> \/ next # 0 => First = Ahead(cur_pkt_recv_seq, d)

\* FIND is asked for, or refused.
Asked ==
    /\ next = 0 /\ Len(c2s) + Len(s2c) <= 1
    /\ \A i \in 1 .. Len(s2c) : s2c[i].body.op \notin {"FIND", "FINISHED"}

\* As many entries are missing as were lost, at most.
Listing ==
    /\ cur_pkt_recv_seq \in Seqs
    /\ Chained
    /\ \E d \in 0 .. faults : Stream(listed[Len(listed)] + d) /\ FirstIs(d)

DirTypes ==
    /\ LinkTypes
    /\ call \in {"FIND", "NEXT", "END"} /\ listed \in Seq(Nat)
    /\ next \in 0 .. Entries + 1 /\ cur_pkt_out_seq \in -1 .. SeqMod - 1
    /\ faults \in 0 .. FaultMax
    /\ r # 1 => call = "END"
    /\ call = "END" => ~waiting

DirInv ==
    /\ DirTypes
    /\ Dir!NoGap
    /\ DosFinds => Dir!FinishedMeansToTheEnd
    /\ call = "FIND" => listed = <<>>
    /\ call = "FIND" /\ ~waiting => c2s = <<>> /\ s2c = <<>> /\ next = 0
    /\ call = "FIND" /\ waiting => Asked \/ (Chained /\ \E n \in Nat : Stream(n))
    /\ call = "NEXT" => listed # <<>> /\ Listing

LEMMA NextSeqs ==
    ASSUME NEW seq \in -1 .. SeqMod - 1
    PROVE  Dir!NextSeq(seq) \in Seqs
BY LinkAssumption DEF Dir!NextSeq, Seqs

LEMMA DirNextInt == ASSUME NEW seq \in Int PROVE Dir!NextSeq(seq) \in Int
BY LinkAssumption DEF Dir!NextSeq

LEMMA AheadFacts ==
    ASSUME NEW seq \in Seqs, NEW d \in Nat, d < SeqMod
    PROVE  /\ Ahead(seq, 0) = seq
           /\ Ahead(seq, d) = seq => d = 0
           /\ d + 1 < SeqMod => Dir!NextSeq(Ahead(seq, d)) = Ahead(seq, d + 1)
BY LinkAssumption DEF Ahead, Seqs, Dir!NextSeq

\* The first one is taken from the line.
LEMMA StreamTail ==
    ASSUME s2c \in Seq(Packets), s2c' \in Seq(Packets), s2c # <<>>, Shorter(s2c, s2c'),
           c2s' = c2s, UNCHANGED <<next, cur_pkt_out_seq>>,
           NEW n \in Nat, Stream(n), Chained
    PROVE  /\ Stream(n + 1)' /\ Chained'
           /\ s2c[1].seq \in Seqs
           /\ s2c' # <<>> \/ next # 0 => First' = Dir!NextSeq(s2c[1].seq)
<1>1. /\ Len(s2c) \in Nat \ {0} /\ Len(s2c') = Len(s2c) - 1
      /\ \A i \in 1 .. Len(s2c') : s2c'[i] = s2c[i + 1] /\ i + 1 \in 1 .. Len(s2c)
  <2>1. Len(s2c) \in Nat \ {0} /\ Len(s2c') \in Nat
    OBVIOUS
  <2> QED
    BY <2>1 DEF Shorter
<1>2. 1 \in 1 .. Len(s2c) /\ Len(s2c) \in 1 .. Len(s2c)
  BY <1>1
<1>3. Stream(n + 1)'
  <2>1. c2s' = <<>>
    BY DEF Stream
  <2>2. ASSUME NEW i \in 1 .. Len(s2c')
        PROVE  \/ s2c'[i].body.op = "FIND" /\ s2c'[i].body.arg = n + 1 + i
               \/ /\ s2c'[i].body.op = "FINISHED" /\ i = Len(s2c') /\ next' = 0
                  /\ DosFinds => n + 1 + i = Entries + 1
    <3>1. s2c'[i] = s2c[i + 1] /\ i + 1 \in 1 .. Len(s2c)
      BY <1>1
    <3>2. \/ s2c[i + 1].body.op = "FIND" /\ s2c[i + 1].body.arg = n + (i + 1)
          \/ /\ s2c[i + 1].body.op = "FINISHED" /\ i + 1 = Len(s2c) /\ next = 0
             /\ DosFinds => n + (i + 1) = Entries + 1
      BY <3>1 DEF Stream
    <3>3. n + (i + 1) = n + 1 + i /\ (i + 1 = Len(s2c) => i = Len(s2c'))
      BY <1>1
    <3> QED
      BY <3>1, <3>2, <3>3
  <2>3. next' # 0 => next' = n + 1 + Len(s2c') + 1
    BY <1>1 DEF Stream
  <2> QED
    BY <2>1, <2>2, <2>3 DEF Stream
<1>4. Chained'
  <2>1. \A i \in 1 .. Len(s2c') : s2c'[i].seq \in Seqs
    BY <1>1 DEF Chained
  <2>2. ASSUME NEW i \in 1 .. Len(s2c'), i + 1 \in 1 .. Len(s2c')
        PROVE  s2c'[i + 1].seq = Dir!NextSeq(s2c'[i].seq)
    <3>1. /\ s2c'[i] = s2c[i + 1] /\ i + 1 \in 1 .. Len(s2c)
          /\ s2c'[i + 1] = s2c[i + 2] /\ i + 2 \in 1 .. Len(s2c) /\ i + 2 = (i + 1) + 1
      BY <1>1, <2>2
    <3> QED
      BY <3>1 DEF Chained
  <2>3. next' # 0 /\ s2c' # <<>> => s2c'[Len(s2c')] = s2c[Len(s2c)]
    <3>1. s2c' # <<>> => Len(s2c') \in 1 .. Len(s2c')
      OBVIOUS
    <3> QED
      BY <1>1, <3>1
  <2>4. next' # 0 => cur_pkt_out_seq' \in Seqs
    BY DEF Chained
  <2>5. next' # 0 /\ s2c' # <<>> => cur_pkt_out_seq' = Dir!NextSeq(s2c'[Len(s2c')].seq)
    BY <2>3 DEF Chained
  <2> QED
    BY <2>1, <2>2, <2>4, <2>5 DEF Chained
<1>5. s2c[1].seq \in Seqs
  BY <1>2 DEF Chained
<1>6. s2c' # <<>> \/ next # 0 => First' = Dir!NextSeq(s2c[1].seq)
  <2>1. CASE s2c' # <<>>
    <3>1. 1 \in 1 .. Len(s2c')
      BY <2>1
    <3>2. s2c'[1] = s2c[2] /\ 2 \in 1 .. Len(s2c) /\ 2 = 1 + 1
      BY <1>1, <3>1
    <3> QED
      BY <1>2, <2>1, <3>2 DEF First, Chained
  <2>2. CASE s2c' = <<>>
    <3>1. Len(s2c) = 1
      BY <1>1, <2>2
    <3> QED
      BY <2>2, <3>1 DEF First, Chained
  <2> QED
    BY <2>1, <2>2
<1> QED
  BY <1>3, <1>4, <1>5, <1>6

\* The server adds one at the end.
LEMMA StreamEmit ==
    ASSUME s2c \in Seq(Packets), next \in Nat \ {0}, cur_pkt_out_seq \in -1 .. SeqMod - 1,
           NEW pkt \in Packets, s2c' = Append(s2c, pkt), c2s' = c2s,
           pkt.seq = cur_pkt_out_seq, cur_pkt_out_seq' = Dir!NextSeq(cur_pkt_out_seq),
           \/ pkt.body.op = "FIND" /\ pkt.body.arg = next /\ next' = next + 1
           \/ pkt.body.op = "FINISHED" /\ next' = 0 /\ (DosFinds => next = Entries + 1),
           NEW n \in Nat, Stream(n), Chained
    PROVE  Stream(n)' /\ Chained' /\ First' = First
<1>1. /\ Len(s2c) \in Nat /\ s2c' \in Seq(Packets) /\ Len(s2c') = Len(s2c) + 1
      /\ \A i \in 1 .. Len(s2c) : s2c'[i] = s2c[i]
      /\ s2c'[Len(s2c) + 1] = pkt
  BY AppendFacts
<1>2. \A i \in 1 .. Len(s2c') : i \in 1 .. Len(s2c) \/ i = Len(s2c) + 1
  BY <1>1
<1>3. next = n + Len(s2c) + 1
  BY DEF Stream
<1>4. Stream(n)'
  <2>1. c2s' = <<>>
    BY DEF Stream
  <2>2. ASSUME NEW i \in 1 .. Len(s2c')
        PROVE  \/ s2c'[i].body.op = "FIND" /\ s2c'[i].body.arg = n + i
               \/ /\ s2c'[i].body.op = "FINISHED" /\ i = Len(s2c') /\ next' = 0
                  /\ DosFinds => n + i = Entries + 1
    <3>1. CASE i \in 1 .. Len(s2c)
      BY <1>1, <3>1 DEF Stream
    <3>2. CASE i = Len(s2c) + 1
      BY <1>1, <1>3, <3>2
    <3> QED
      BY <1>2, <3>1, <3>2
  <2>3. next' # 0 => next' = n + Len(s2c') + 1
    BY <1>1, <1>3
  <2> QED
    BY <2>1, <2>2, <2>3 DEF Stream
<1>5. Chained'
  <2>1. cur_pkt_out_seq \in Seqs /\ cur_pkt_out_seq' \in Seqs
    BY NextSeqs DEF Chained
  <2>2. \A i \in 1 .. Len(s2c') : s2c'[i].seq \in Seqs
    BY <1>1, <1>2, <2>1 DEF Chained
  <2>3. ASSUME NEW i \in 1 .. Len(s2c'), i + 1 \in 1 .. Len(s2c')
        PROVE  s2c'[i + 1].seq = Dir!NextSeq(s2c'[i].seq)
    <3>1. i \in 1 .. Len(s2c) /\ s2c'[i] = s2c[i]
      BY <1>1, <2>3
    <3>2. CASE i + 1 \in 1 .. Len(s2c)
      BY <1>1, <3>1, <3>2 DEF Chained
    <3>3. CASE i + 1 = Len(s2c) + 1
      <4>1. i = Len(s2c) /\ s2c # <<>> /\ s2c'[i + 1] = pkt
        BY <1>1, <3>1, <3>3
      <4> QED
        BY <3>1, <4>1 DEF Chained
    <3> QED
      BY <1>2, <2>3, <3>2, <3>3
  <2>4. s2c'[Len(s2c')] = pkt
    BY <1>1
  <2> QED
    BY <2>1, <2>2, <2>3, <2>4 DEF Chained
<1>6. First' = First
  <2>1. s2c' # <<>> /\ s2c'[1] = IF s2c # <<>> THEN s2c[1] ELSE pkt
    <3>1. s2c' # <<>>
      BY <1>1
    <3>2. CASE s2c # <<>>
      <4>1. 1 \in 1 .. Len(s2c)
        BY <3>2
      <4> QED
        BY <1>1, <3>1, <3>2, <4>1
    <3>3. CASE s2c = <<>>
      BY <1>1, <3>1, <3>3
    <3> QED
      BY <3>2, <3>3
  <2> QED
    BY <2>1 DEF First
<1> QED
  BY <1>4, <1>5, <1>6

\* The line damages one.
LEMMA StreamAlike ==
    ASSUME s2c \in Seq(Packets), s2c' \in Seq(Packets), Alike(s2c, s2c'), c2s' = c2s,
           UNCHANGED <<next, cur_pkt_out_seq>>,
           NEW n \in Nat, Stream(n), Chained
    PROVE  Stream(n)' /\ Chained' /\ First' = First
<1>1. Len(s2c) \in Nat /\ Len(s2c') = Len(s2c) /\ (s2c = <<>> <=> s2c' = <<>>)
  BY EmptySeq DEF Alike
<1>2. Stream(n)'
  BY <1>1 DEF Stream, Alike
<1>3. Chained'
  <2>1. s2c # <<>> => Len(s2c) \in 1 .. Len(s2c)
    BY <1>1
  <2>2. next' # 0 /\ s2c' # <<>> => cur_pkt_out_seq' = Dir!NextSeq(s2c'[Len(s2c')].seq)
    BY <1>1, <2>1 DEF Chained, Alike
  <2> QED
    BY <1>1, <2>2 DEF Chained, Alike
<1>4. First' = First
  <2>1. s2c # <<>> => 1 \in 1 .. Len(s2c)
    BY <1>1
  <2> QED
    BY <1>1, <2>1 DEF First, Alike
<1> QED
  BY <1>2, <1>3, <1>4

LEMMA DirInit == ASSUME Dir!Init PROVE DirInv
<1>1. SeqMod \in Nat \ {0} /\ FaultMax \in Nat /\ Entries \in Nat
  BY LinkAssumption, SizeAssumption
<1>2. /\ c2s = <<>> /\ s2c = <<>> /\ next = 0 /\ listed = <<>> /\ r = 1
      /\ call = "FIND" /\ faults = 0 /\ ~waiting
      /\ cur_pkt_seq = -1 /\ cur_pkt_recv_seq = -1
  BY DEF Dir!Init, Dir!LinkInit, Dir!NoSeq
<1>3. cur_pkt_in_seq \in Int /\ cur_pkt_out_seq \in -1 .. SeqMod - 1
  BY <1>1 DEF Dir!Init, Dir!LinkInit, Dir!NoSeq
<1>4. connected \in BOOLEAN /\ waiting \in BOOLEAN
  BY DEF Dir!Init, Dir!LinkInit
<1>5. LinkTypes
  BY <1>1, <1>2, <1>3, <1>4 DEF LinkTypes
<1>6. DirTypes
  BY <1>1, <1>2, <1>3, <1>5 DEF DirTypes
<1>7. Dir!NoGap /\ Dir!FinishedMeansToTheEnd
  BY <1>2 DEF Dir!NoGap, Dir!FinishedMeansToTheEnd
<1> QED
  BY <1>2, <1>6, <1>7 DEF DirInv

\* The listing is what it was, or it has ended, but not with FINISHED after
\* some entry.
LEMMA DirSame ==
    ASSUME DirInv, listed' = listed, r' = r \/ r' # 0 \/ listed = <<>>
    PROVE  Dir!NoGap' /\ (DosFinds => Dir!FinishedMeansToTheEnd')
BY DEF DirInv, Dir!NoGap, Dir!FinishedMeansToTheEnd

\* A command that has ended asks for nothing more.
LEMMA DirEnds ==
    ASSUME DirTypes', call' = "END", Dir!NoGap', DosFinds => Dir!FinishedMeansToTheEnd'
    PROVE  DirInv'
BY DEF DirInv

LEMMA ListingFacts ==
    ASSUME DirTypes, listed # <<>>, Listing
    PROVE  /\ Chained /\ cur_pkt_recv_seq \in Seqs /\ faults \in Nat
           /\ Len(listed) \in Nat \ {0} /\ listed[Len(listed)] \in Nat
           /\ \E d \in 0 .. faults, n \in Nat :
                 n = listed[Len(listed)] + d /\ Stream(n) /\ FirstIs(d)
<1>1. Len(listed) \in Nat \ {0} /\ listed[Len(listed)] \in Nat /\ faults \in Nat
  <2>1. listed \in Seq(Nat)
    BY DEF DirTypes
  <2>2. Len(listed) \in 1 .. Len(listed)
    BY <2>1
  <2> QED
    BY <2>1, <2>2 DEF DirTypes
<1>2. PICK d \in 0 .. faults : Stream(listed[Len(listed)] + d) /\ FirstIs(d)
  BY DEF Listing
<1>3. listed[Len(listed)] + d \in Nat
  BY <1>1
<1> QED
  BY <1>1, <1>2, <1>3 DEF Listing

LEMMA DirSend == ASSUME DirInv, Dir!SendRequest PROVE DirInv'
<1> DEFINE pkt == [seq |-> cur_pkt_seq, body |-> Dir!Body(call, 0), good |-> TRUE]
<1>1. /\ call = "FIND" /\ ~waiting /\ waiting' = TRUE /\ c2s' = Append(c2s, pkt)
      /\ cur_pkt_seq' = Dir!NextSeq(cur_pkt_seq)
      /\ UNCHANGED <<s2c, call, cur_pkt_recv_seq, connected, cur_pkt_in_seq, cur_pkt_out_seq,
                     faults, listed, r, next>>
  BY DEF Dir!SendRequest, Dir!Send, Dir!serverSeqs
<1>2. pkt \in Packets
  BY <1>1 DEF Packets, Dir!Body, DirInv, DirTypes, LinkTypes, Ops
<1> HIDE DEF pkt
<1>3. c2s = <<>> /\ s2c = <<>> /\ next = 0 /\ listed = <<>>
  BY <1>1 DEF DirInv
<1>4. c2s' \in Seq(Packets) /\ Len(c2s') = 1
  BY <1>1, <1>2, <1>3, AppendFacts DEF DirInv, DirTypes, LinkTypes
<1>5. LinkTypes'
  BY <1>1, <1>4, DirNextInt DEF DirInv, DirTypes, LinkTypes
<1>6. DirTypes'
  BY <1>1, <1>5 DEF DirInv, DirTypes
<1>7. Asked'
  BY <1>1, <1>3, <1>4 DEF Asked
<1> QED
  BY <1>1, <1>3, <1>6, <1>7, DirSame DEF DirInv

LEMMA DirAwait == ASSUME DirInv, Dir!AwaitNext PROVE DirInv'
<1>1. /\ call = "NEXT" /\ waiting' = TRUE
      /\ UNCHANGED <<c2s, s2c, call, cur_pkt_seq, cur_pkt_recv_seq, connected, cur_pkt_in_seq,
                     cur_pkt_out_seq, faults, listed, r, next>>
  BY DEF Dir!AwaitNext, Dir!clientSeqs, Dir!serverSeqs
<1>2. DirTypes'
  BY <1>1 DEF DirInv, DirTypes, LinkTypes
<1>3. Listing'
  <2>1. Chained' /\ cur_pkt_recv_seq' \in Seqs
    BY <1>1 DEF DirInv, Listing, Chained
  <2>2. PICK d \in 0 .. faults : Stream(listed[Len(listed)] + d) /\ FirstIs(d)
    BY <1>1 DEF DirInv, Listing
  <2>3. Stream(listed[Len(listed)] + d)' /\ FirstIs(d)'
    BY <1>1, <2>2 DEF Stream, FirstIs, First
  <2> QED
    BY <1>1, <2>1, <2>3 DEF Listing
<1> QED
  BY <1>1, <1>2, <1>3, DirSame DEF DirInv

LEMMA DirReceivedFacts ==
    ASSUME DirInv, Dir!Received
    PROVE  /\ waiting /\ s2c # <<>> /\ s2c' = Tail(s2c) /\ waiting' = FALSE
           /\ UNCHANGED <<c2s, cur_pkt_seq, connected, cur_pkt_in_seq, cur_pkt_out_seq, faults>>
           /\ cur_pkt_recv_seq' = Dir!NextSeq(s2c[1].seq)
           /\ Dir!TheReply = s2c[1].body /\ Dir!TheReply.arg \in Int
           /\ Dir!Accepts(s2c[1]) /\ Shorter(s2c, s2c')
           /\ s2c' \in Seq(Packets) /\ Len(s2c) \in Nat \ {0} /\ Len(s2c') = Len(s2c) - 1
           /\ LinkTypes'
<1>1. /\ waiting /\ s2c # <<>> /\ s2c' = Tail(s2c) /\ waiting' = FALSE
      /\ cur_pkt_recv_seq' = Dir!NextSeq(Head(s2c).seq) /\ Dir!Accepts(Head(s2c))
      /\ UNCHANGED <<c2s, cur_pkt_seq, connected, cur_pkt_in_seq, cur_pkt_out_seq, faults>>
  BY DEF Dir!Received, Dir!serverSeqs
<1>2. /\ Head(s2c) = s2c[1] /\ Head(s2c) \in Packets /\ Shorter(s2c, s2c')
      /\ s2c' \in Seq(Packets) /\ Len(s2c) \in Nat \ {0} /\ Len(s2c') = Len(s2c) - 1
  BY <1>1, TailFacts DEF DirInv, DirTypes, LinkTypes, Shorter
<1>3. cur_pkt_recv_seq' \in Int
  BY <1>1, <1>2, DirNextInt DEF Packets
<1>4. LinkTypes'
  BY <1>1, <1>2, <1>3 DEF DirInv, DirTypes, LinkTypes
<1>5. Dir!TheReply = s2c[1].body /\ Dir!TheReply.arg \in Int
  BY <1>2 DEF Dir!TheReply, Packets
<1> QED
  BY <1>1, <1>2, <1>4, <1>5

\* An entry that is shown is the one that the rest of the stream follows.
LEMMA DirShow ==
    ASSUME DirInv, Dir!Received, NEW n \in Nat, Stream(n), Chained,
           listed \in Seq(Nat), listed # <<>> => n = listed[Len(listed)],
           Dir!TheReply.op = "FIND", Dir!Show(Dir!TheReply.arg), next' = next
    PROVE  DirInv'
<1>1. /\ s2c # <<>> /\ waiting' = FALSE /\ Shorter(s2c, s2c') /\ s2c' \in Seq(Packets)
      /\ UNCHANGED <<c2s, cur_pkt_out_seq, faults>> /\ s2c \in Seq(Packets)
      /\ cur_pkt_recv_seq' = Dir!NextSeq(s2c[1].seq) /\ LinkTypes'
      /\ Dir!TheReply = s2c[1].body /\ Len(s2c) \in Nat \ {0}
  BY DirReceivedFacts DEF DirInv, DirTypes, LinkTypes
<1>2. call' = "NEXT" /\ listed' = Append(listed, Dir!TheReply.arg) /\ r' = 1
  BY DEF Dir!Show
<1>3. Dir!TheReply.arg = n + 1
  <2>1. 1 \in 1 .. Len(s2c) /\ s2c[1].body.op = "FIND"
    BY <1>1
  <2> QED
    BY <1>1, <2>1 DEF Stream
<1>4. /\ listed' \in Seq(Nat) /\ Len(listed') = Len(listed) + 1 /\ Len(listed) \in Nat
      /\ \A i \in 1 .. Len(listed) : listed'[i] = listed[i]
      /\ listed'[Len(listed')] = n + 1
  <2>1. n + 1 \in Nat
    OBVIOUS
  <2> QED
    BY <1>2, <1>3, <2>1, AppendFacts
<1>5. DirTypes'
  BY <1>1, <1>2, <1>4 DEF DirInv, DirTypes
<1>6. Dir!NoGap'
  <2> SUFFICES ASSUME NEW i \in 2 .. Len(listed') PROVE listed'[i] = listed'[i - 1] + 1
    BY DEF Dir!NoGap
  <2>1. CASE i \in 2 .. Len(listed)
    <3>1. i \in 1 .. Len(listed) /\ i - 1 \in 1 .. Len(listed)
      BY <1>4, <2>1
    <3> QED
      BY <1>4, <2>1, <3>1 DEF DirInv, Dir!NoGap
  <2>2. CASE i = Len(listed) + 1
    <3>1. i - 1 = Len(listed) /\ Len(listed) \in 1 .. Len(listed) /\ listed # <<>>
      BY <1>4, <2>2
    <3> QED
      BY <1>4, <2>2, <3>1
  <2> QED
    BY <1>4, <2>1, <2>2
<1>7. Dir!FinishedMeansToTheEnd'
  BY <1>2 DEF Dir!FinishedMeansToTheEnd
<1>8. Listing'
  <2>1. /\ Stream(n + 1)' /\ Chained' /\ s2c[1].seq \in Seqs
        /\ s2c' # <<>> \/ next # 0 => First' = Dir!NextSeq(s2c[1].seq)
    BY <1>1, StreamTail
  <2>2. cur_pkt_recv_seq' \in Seqs
    <3>1. s2c[1].seq \in -1 .. SeqMod - 1
      BY <2>1, LinkAssumption DEF Seqs
    <3> QED
      BY <1>1, <3>1, NextSeqs
  <2>3. Ahead(cur_pkt_recv_seq', 0) = cur_pkt_recv_seq'
    <3>1. ASSUME NEW seq \in Seqs PROVE Ahead(seq, 0) = seq
      BY LinkAssumption DEF Ahead, Seqs
    <3> QED
      BY <2>2, <3>1
  <2>4. FirstIs(0)'
    BY <1>1, <2>1, <2>3 DEF FirstIs
  <2>5. listed'[Len(listed')] + 0 = n + 1
    BY <1>4
  <2>6. 0 \in 0 .. faults'
    BY <1>1 DEF DirInv, DirTypes
  <2>7. Stream(listed[Len(listed)] + 0)'
    BY <2>1, <2>5 DEF Stream
  <2> QED
    BY <2>1, <2>2, <2>4, <2>6, <2>7 DEF Listing
<1>9. listed' # <<>>
  BY <1>4
<1> QED
  BY <1>2, <1>5, <1>6, <1>7, <1>8, <1>9 DEF DirInv

LEMMA DirReceive == ASSUME DirInv, FewFaults, Dir!Receive PROVE DirInv'
<1>1. Dir!Received /\ next' = next
      /\ (IF call = "FIND" THEN Dir!Begin(Dir!TheReply) ELSE Dir!Continue(Dir!TheReply))
  BY DEF Dir!Receive
<1>2. /\ waiting /\ s2c # <<>> /\ waiting' = FALSE /\ Shorter(s2c, s2c') /\ s2c' \in Seq(Packets)
      /\ UNCHANGED <<c2s, cur_pkt_out_seq, faults>>
      /\ cur_pkt_recv_seq' = Dir!NextSeq(s2c[1].seq) /\ LinkTypes' /\ Dir!Accepts(s2c[1])
      /\ Dir!TheReply = s2c[1].body
      /\ Len(s2c) \in Nat \ {0} /\ Len(s2c') = Len(s2c) - 1
  BY <1>1, DirReceivedFacts
<1>3. c2s \in Seq(Packets) /\ Len(c2s) \in Nat /\ listed \in Seq(Nat)
  BY DEF DirInv, DirTypes, LinkTypes
<1>4. ASSUME call' \in {"FIND", "NEXT", "END"}, listed' = listed,
             r' # 1 => call' = "END"
      PROVE  DirTypes'
  BY <1>1, <1>2, <1>4 DEF DirInv, DirTypes
<1>5. ASSUME NEW n \in {0, -1}, Dir!End(n), n = -1 \/ listed = <<>> PROVE DirInv'
  <2>1. call' = "END" /\ listed' = listed /\ (r' # 0 \/ listed = <<>>)
    BY <1>5 DEF Dir!End
  <2> QED
    BY <1>4, <2>1, DirSame, DirEnds
<1>6. 1 \in 1 .. Len(s2c)
  BY <1>2
<1>7. CASE call = "FIND" /\ Asked
  <2>1. Dir!TheReply.op \notin {"FIND", "FINISHED"}
    BY <1>2, <1>6, <1>7 DEF Asked
  <2>2. CASE Dir!TheReply.op = "BUSY"
    <3>1. UNCHANGED <<call, listed, r>>
      BY <1>1, <1>7, <2>1, <2>2 DEF Dir!Begin
    <3>2. Len(c2s) = 0 /\ Len(s2c') = 0 /\ next = 0
      BY <1>2, <1>3, <1>7 DEF Asked
    <3>3. c2s' = <<>> /\ s2c' = <<>> /\ next' = 0
      BY <1>1, <1>2, <1>3, <3>2, EmptySeq
    <3>4. DirTypes'
      BY <1>4, <3>1 DEF DirInv, DirTypes
    <3>5. listed' = <<>>
      BY <1>7, <3>1 DEF DirInv
    <3> QED
      BY <1>2, <1>7, <3>1, <3>3, <3>4, <3>5, DirSame DEF DirInv
  <2>3. CASE Dir!TheReply.op # "BUSY"
    BY <1>1, <1>5, <1>7, <2>1, <2>3 DEF Dir!Begin
  <2> QED
    BY <2>2, <2>3
<1>8. CASE call = "FIND" /\ ~Asked
  <2>1. PICK n \in Nat : Stream(n) /\ Chained
    BY <1>2, <1>8 DEF DirInv
  <2>2. Dir!TheReply.op \in {"FIND", "FINISHED"}
    BY <1>2, <1>6, <2>1 DEF Stream
  <2>3. CASE Dir!TheReply.op = "FIND"
    <3>1. Dir!Show(Dir!TheReply.arg) /\ listed = <<>>
      BY <1>1, <1>8, <2>3 DEF Dir!Begin, DirInv
    <3> QED
      BY <1>1, <1>3, <2>1, <2>3, <3>1, DirShow
  <2>4. CASE Dir!TheReply.op = "FINISHED"
    BY <1>1, <1>5, <1>8, <2>4 DEF Dir!Begin, DirInv
  <2> QED
    BY <2>2, <2>3, <2>4
<1>9. CASE call = "NEXT"
  <2>1. listed # <<>> /\ Listing
    BY <1>9 DEF DirInv
  <2>2. /\ Chained /\ cur_pkt_recv_seq \in Seqs /\ faults \in 0 .. FaultMax
        /\ Len(listed) \in Nat \ {0} /\ listed[Len(listed)] \in Nat
        /\ \E d \in 0 .. faults, n \in Nat :
              n = listed[Len(listed)] + d /\ Stream(n) /\ FirstIs(d)
    BY <2>1, ListingFacts DEF DirInv, DirTypes
  <2>3. PICK d \in 0 .. faults, n \in Nat :
              n = listed[Len(listed)] + d /\ Stream(n) /\ FirstIs(d)
    BY <2>2
  <2>4. d = 0
    <3>1. s2c[1].seq \in Seqs
      BY <1>6, <2>2 DEF Chained
    <3>2. s2c[1].seq = cur_pkt_recv_seq
      <4>1. Dir!NoSeq \notin Seqs
        BY LinkAssumption DEF Seqs, Dir!NoSeq
      <4> QED
        BY <1>2, <2>2, <3>1, <4>1 DEF Dir!Accepts
    <3>3. Ahead(cur_pkt_recv_seq, d) = cur_pkt_recv_seq
      BY <1>2, <2>3, <3>2 DEF FirstIs, First
    <3>4. d \in Nat /\ d < SeqMod
      BY <2>2, LinkAssumption DEF FewFaults
    <3> QED
      BY <2>2, <3>3, <3>4, AheadFacts
  <2>5. n = listed[Len(listed)]
    BY <2>2, <2>3, <2>4
  <2>6. CASE Dir!TheReply.op = "FIND"
    <3>1. Dir!Show(Dir!TheReply.arg)
      BY <1>1, <1>9, <2>6 DEF Dir!Continue
    <3> QED
      BY <1>1, <1>3, <2>2, <2>3, <2>5, <2>6, <3>1, DirShow
  <2>7. CASE Dir!TheReply.op = "FINISHED"
    <3>1. call' = "END" /\ r' = 0 /\ listed' = listed
      BY <1>1, <1>9, <2>7 DEF Dir!Continue, Dir!End
    <3>2. DosFinds => n + 1 = Entries + 1
      BY <1>2, <1>6, <2>3, <2>7 DEF Stream
    <3>3. DosFinds => listed[Len(listed)] = Entries
      BY <2>2, <2>5, <3>2, SizeAssumption
    <3>4. DosFinds => Dir!FinishedMeansToTheEnd'
      BY <3>1, <3>3 DEF Dir!FinishedMeansToTheEnd
    <3>5. Dir!NoGap'
      BY <3>1 DEF DirInv, Dir!NoGap
    <3> QED
      BY <1>4, <3>1, <3>4, <3>5, DirEnds
  <2>8. CASE Dir!TheReply.op \notin {"FIND", "FINISHED"}
    BY <1>1, <1>5, <1>9, <2>8 DEF Dir!Continue
  <2> QED
    BY <2>6, <2>7, <2>8
<1> QED
  BY <1>2, <1>7, <1>8, <1>9 DEF DirInv, DirTypes

LEMMA DirNoReply == ASSUME DirInv, Dir!NoReply PROVE DirInv'
<1>1. /\ call' = "END" /\ r' = -1 /\ listed' = listed /\ next' = next
      /\ Dir!Refused \/ Dir!TimedOutUnless(c2s # <<>> \/ next # 0)
  BY DEF Dir!NoReply, Dir!End
<1>2. CASE Dir!Refused
  <2>1. /\ s2c # <<>> /\ s2c' = Tail(s2c) /\ connected' = FALSE /\ waiting' = FALSE
        /\ UNCHANGED <<c2s, cur_pkt_seq, cur_pkt_recv_seq, cur_pkt_in_seq, cur_pkt_out_seq, faults>>
    BY <1>2 DEF Dir!Refused, Dir!clientSeqs, Dir!serverSeqs
  <2>2. s2c' \in Seq(Packets)
    BY <2>1, TailFacts DEF DirInv, DirTypes, LinkTypes
  <2>3. LinkTypes'
    BY <2>1, <2>2 DEF DirInv, DirTypes, LinkTypes
  <2>4. DirTypes'
    BY <1>1, <2>1, <2>3 DEF DirInv, DirTypes
  <2> QED
    BY <1>1, <2>4, DirSame, DirEnds
<1>3. CASE Dir!TimedOutUnless(c2s # <<>> \/ next # 0)
  <2>1. /\ UNCHANGED <<c2s, s2c, cur_pkt_in_seq, cur_pkt_out_seq>>
        /\ cur_pkt_seq' = -1 /\ cur_pkt_recv_seq' = -1
        /\ faults' = faults \/ (faults < FaultMax /\ faults' = faults + 1)
    BY <1>3 DEF Dir!TimedOutUnless, Dir!Fault, Dir!ResetSeqs, Dir!NoSeq, Dir!serverSeqs
  <2>2. connected' = FALSE /\ waiting' = FALSE
    BY <1>3 DEF Dir!TimedOutUnless
  <2>3. faults' \in 0 .. FaultMax
    BY <2>1, LinkAssumption DEF DirInv, DirTypes
  <2>4. cur_pkt_seq' \in Int /\ cur_pkt_recv_seq' \in Int
    BY <2>1
  <2>5. LinkTypes'
    BY <2>1, <2>2, <2>4 DEF DirInv, DirTypes, LinkTypes
  <2>6. DirTypes'
    BY <1>1, <2>1, <2>2, <2>3, <2>5 DEF DirInv, DirTypes
  <2> QED
    BY <1>1, <2>6, DirSame, DirEnds
<1> QED
  BY <1>1, <1>2, <1>3

\* A request on the line is a FIND that the client waits for, or comes too late.
LEMMA DirRequestFacts ==
    ASSUME DirInv, c2s # <<>>
    PROVE  /\ Head(c2s) \in Packets /\ Tail(c2s) \in Seq(Packets)
           /\ call = "END" \/ (/\ call = "FIND" /\ waiting /\ Asked
                               /\ Tail(c2s) = <<>> /\ s2c = <<>>)
<1>1. /\ Head(c2s) \in Packets /\ Tail(c2s) \in Seq(Packets) /\ Len(c2s) \in Nat \ {0}
      /\ Len(Tail(c2s)) = Len(c2s) - 1
  BY TailFacts DEF DirInv, DirTypes, LinkTypes
<1>2. call # "NEXT"
  BY DEF DirInv, Listing, Stream
<1>3. call = "FIND" => waiting /\ Asked
  BY DEF DirInv, Stream
<1>4. Asked => Len(Tail(c2s)) = 0 /\ Len(s2c) = 0
  <2>1. Len(s2c) \in Nat
    BY DEF DirInv, DirTypes, LinkTypes
  <2> QED
    BY <1>1, <2>1 DEF Asked
<1>5. Asked => Tail(c2s) = <<>> /\ s2c = <<>>
  BY <1>1, <1>4, EmptySeq DEF DirInv, DirTypes, LinkTypes
<1>6. call \in {"FIND", "NEXT", "END"}
  BY DEF DirInv, DirTypes
<1> QED
  BY <1>1, <1>2, <1>3, <1>5, <1>6

LEMMA DirFind == ASSUME DirInv, Dir!Find PROVE DirInv'
<1>1. /\ c2s # <<>> /\ c2s' = Tail(c2s) /\ next' = 1
      /\ cur_pkt_in_seq' = Dir!NextSeq(Head(c2s).seq)
      /\ cur_pkt_out_seq' = Dir!NextSeq(cur_pkt_out_seq)
      /\ UNCHANGED <<s2c, call, cur_pkt_seq, cur_pkt_recv_seq, connected, waiting, faults,
                     listed, r>>
  BY DEF Dir!Find, Dir!Request, Dir!clientSeqs
<1>2. /\ Head(c2s) \in Packets /\ c2s' \in Seq(Packets)
      /\ call = "END" \/ (/\ call = "FIND" /\ waiting /\ Asked
                          /\ c2s' = <<>> /\ s2c = <<>>)
  BY <1>1, DirRequestFacts
<1>3. cur_pkt_out_seq' \in Seqs
  BY <1>1, NextSeqs DEF DirInv, DirTypes
<1>4. /\ cur_pkt_in_seq' \in Int /\ cur_pkt_out_seq' \in -1 .. SeqMod - 1
      /\ cur_pkt_out_seq' \in Int
  <2>1. Seqs \subseteq -1 .. SeqMod - 1 /\ Seqs \subseteq Int
    BY LinkAssumption DEF Seqs
  <2>2. cur_pkt_in_seq' \in Int
    BY <1>1, <1>2, DirNextInt DEF Packets
  <2> QED
    BY <1>3, <2>1, <2>2
<1>5. LinkTypes'
  BY <1>1, <1>2, <1>4 DEF DirInv, DirTypes, LinkTypes
<1>6. DirTypes'
  <2>1. next' \in 0 .. Entries + 1
    BY <1>1, SizeAssumption
  <2> QED
    BY <1>1, <1>4, <1>5, <2>1 DEF DirInv, DirTypes
<1>7. call = "FIND" => (Chained /\ Stream(0))'
  BY <1>1, <1>2, <1>3 DEF Chained, Stream
<1>8. call = "FIND" => Chained' /\ (\E n \in Nat : Stream(n))'
  BY <1>7
<1>9. call # "NEXT"
  BY <1>2
<1> QED
  BY <1>1, <1>2, <1>6, <1>8, <1>9, DirSame DEF DirInv

\* The server goes on with the search.
LEMMA DirEmit ==
    ASSUME DirInv, next # 0, NEW op \in {"FIND", "FINISHED"}, NEW arg \in Int,
           Dir!Emit(Dir!Body(op, arg)),
           \/ op = "FIND" /\ arg = next /\ next \in 1 .. Entries /\ next' = next + 1
           \/ op = "FINISHED" /\ next' = 0 /\ (DosFinds => next = Entries + 1),
           faults' \in faults .. FaultMax
    PROVE  DirInv'
<1> DEFINE pkt == [seq |-> cur_pkt_out_seq, body |-> Dir!Body(op, arg), good |-> TRUE]
<1>1. /\ s2c' = Append(s2c, pkt) /\ cur_pkt_out_seq' = Dir!NextSeq(cur_pkt_out_seq)
      /\ UNCHANGED <<c2s, call, cur_pkt_seq, cur_pkt_recv_seq, connected, waiting,
                     cur_pkt_in_seq, listed, r>>
  BY DEF Dir!Emit, Dir!clientSeqs
<1>2. /\ s2c \in Seq(Packets) /\ next \in Nat \ {0} /\ cur_pkt_out_seq \in -1 .. SeqMod - 1
      /\ faults \in 0 .. FaultMax
  BY SizeAssumption DEF DirInv, DirTypes, LinkTypes
<1>3. pkt \in Packets
  BY <1>2, LinkAssumption DEF Packets, Ops, Dir!Body
<1>4. pkt.seq = cur_pkt_out_seq /\ pkt.body.op = op /\ pkt.body.arg = arg
  BY DEF Dir!Body
<1> HIDE DEF pkt
<1>5. s2c' \in Seq(Packets) /\ cur_pkt_out_seq' \in Seqs
  BY <1>1, <1>2, <1>3, AppendFacts, NextSeqs
<1>6. cur_pkt_out_seq' \in -1 .. SeqMod - 1 /\ cur_pkt_out_seq' \in Int
  <2>1. Seqs \subseteq -1 .. SeqMod - 1 /\ Seqs \subseteq Int
    BY LinkAssumption DEF Seqs
  <2> QED
    BY <1>5, <2>1
<1>7. LinkTypes'
  BY <1>1, <1>5, <1>6 DEF DirInv, DirTypes, LinkTypes
<1>8. DirTypes'
  <2>1. next' \in 0 .. Entries + 1
    BY SizeAssumption
  <2>2. faults' \in 0 .. FaultMax
    BY <1>2, LinkAssumption
  <2> QED
    BY <1>1, <1>6, <1>7, <2>1, <2>2 DEF DirInv, DirTypes
<1>9. ASSUME NEW n \in Nat, Stream(n), Chained
      PROVE  Stream(n)' /\ Chained' /\ First' = First
  <2>1. \/ pkt.body.op = "FIND" /\ pkt.body.arg = next /\ next' = next + 1
        \/ pkt.body.op = "FINISHED" /\ next' = 0 /\ (DosFinds => next = Entries + 1)
    BY <1>4
  <2> QED
    BY <1>1, <1>2, <1>3, <1>4, <1>9, <2>1, StreamEmit
<1>10. CASE call = "FIND"
  <2>1. waiting /\ ~Asked
    BY <1>10 DEF DirInv, Asked
  <2>2. PICK n \in Nat : Stream(n) /\ Chained
    BY <1>10, <2>1 DEF DirInv
  <2>3. Stream(n)' /\ Chained'
    BY <1>9, <2>2
  <2>4. (\E m \in Nat : Stream(m))'
    BY <2>3
  <2> QED
    BY <1>1, <1>8, <1>10, <2>1, <2>3, <2>4, DirSame DEF DirInv
<1>11. CASE call = "NEXT"
  <2>1. /\ Chained /\ cur_pkt_recv_seq \in Seqs
        /\ \E d \in 0 .. faults, n \in Nat :
              n = listed[Len(listed)] + d /\ Stream(n) /\ FirstIs(d)
    BY <1>11, ListingFacts DEF DirInv
  <2>2. PICK d \in 0 .. faults, n \in Nat :
              n = listed[Len(listed)] + d /\ Stream(n) /\ FirstIs(d)
    BY <2>1
  <2>3. Stream(n)' /\ Chained' /\ First' = First
    BY <1>9, <2>1, <2>2
  <2>4. Stream(listed[Len(listed)] + d)'
    BY <1>1, <2>2, <2>3 DEF Stream
  <2>5. FirstIs(d)'
    BY <1>1, <2>2, <2>3 DEF FirstIs
  <2>6. d \in 0 .. faults'
    BY <1>2
  <2>7. Listing'
    BY <1>1, <2>1, <2>3, <2>4, <2>5, <2>6 DEF Listing
  <2> QED
    BY <1>1, <1>8, <1>11, <2>7, DirSame DEF DirInv
<1>12. CASE call = "END"
  BY <1>1, <1>8, <1>12, DirSame, DirEnds
<1> QED
  BY <1>10, <1>11, <1>12 DEF DirInv, DirTypes

LEMMA DirSearch == ASSUME DirInv, Dir!SendEntry \/ Dir!SendFinished PROVE DirInv'
<1>1. faults \in 0 .. FaultMax /\ next \in 0 .. Entries + 1 /\ Entries \in Nat
  BY SizeAssumption DEF DirInv, DirTypes
<1>2. CASE Dir!SendEntry
  <2>1. /\ next \in 1 .. Entries /\ Dir!Emit(Dir!Body("FIND", next))
        /\ next' = next + 1 /\ faults' = faults
    BY <1>2 DEF Dir!SendEntry
  <2>2. PICK n \in 1 .. Entries : n = next
    BY <2>1
  <2>3. n \in Int /\ next # 0 /\ faults' \in faults .. FaultMax
    BY <1>1, <2>1
  <2>4. Dir!Emit(Dir!Body("FIND", n))
    BY <2>1, <2>2
  <2> QED
    BY <2>1, <2>2, <2>3, <2>4, DirEmit
<1>3. CASE Dir!SendFinished
  <2>1. /\ next # 0 /\ Dir!Emit(Dir!Body("FINISHED", 0)) /\ next' = 0
        /\ IF next > Entries THEN faults' = faults ELSE Dir!Fault("dos")
    BY <1>3 DEF Dir!SendFinished
  <2>2. faults' \in faults .. FaultMax
    BY <1>1, <2>1, LinkAssumption DEF Dir!Fault
  <2>3. DosFinds => next = Entries + 1
    BY <1>1, <2>1 DEF DosFinds, Dir!Fault
  <2> QED
    BY <2>1, <2>2, <2>3, DirEmit
<1> QED
  BY <1>2, <1>3

LEMMA DirRefuse == ASSUME DirInv, Dir!Busy \/ Dir!Reject PROVE DirInv'
<1>1. PICK op \in {"BUSY", "ERROR"} :
        /\ c2s # <<>> /\ Dir!Reply(Dir!Body(op, 0)) /\ next = 0
        /\ cur_pkt_in_seq' \in Int /\ cur_pkt_out_seq' \in -1 .. SeqMod - 1
        /\ UNCHANGED <<faults, listed, r, next>>
  <2>1. CASE Dir!Busy
    <3>1. /\ c2s # <<>> /\ Dir!Answer(Dir!Body("BUSY", 0)) /\ next = 0
          /\ UNCHANGED <<faults, listed, r, next>>
      BY <2>1 DEF Dir!Busy, Dir!AnswerBusy
    <3>2. Head(c2s) \in Packets
      BY <3>1, DirRequestFacts
    <3>3. cur_pkt_in_seq' \in Int
      BY <3>1, <3>2, DirNextInt DEF Dir!Answer, Packets
    <3>4. cur_pkt_out_seq' \in Seqs
      BY <3>1, NextSeqs DEF Dir!Answer, DirInv, DirTypes
    <3>5. Seqs \subseteq -1 .. SeqMod - 1
      BY LinkAssumption DEF Seqs
    <3> QED
      BY <3>1, <3>3, <3>4, <3>5 DEF Dir!Answer
  <2>2. CASE Dir!Reject
    <3>1. /\ c2s # <<>> /\ Dir!Reply(Dir!Body("ERROR", 0)) /\ next = 0
          /\ cur_pkt_out_seq' = -1 /\ UNCHANGED <<cur_pkt_in_seq, faults, listed, r, next>>
      BY <2>2 DEF Dir!Reject, Dir!RejectRequest, Dir!NoSeq
    <3>2. cur_pkt_in_seq' \in Int /\ cur_pkt_out_seq' \in -1 .. SeqMod - 1
      BY <3>1, LinkAssumption DEF DirInv, DirTypes, LinkTypes
    <3> QED
      BY <3>1, <3>2
  <2> QED
    BY <2>1, <2>2
<1> DEFINE pkt == [seq |-> cur_pkt_out_seq, body |-> Dir!Body(op, 0), good |-> TRUE]
<1>2. /\ c2s' = Tail(c2s) /\ s2c' = Append(s2c, pkt)
      /\ UNCHANGED <<call, cur_pkt_seq, cur_pkt_recv_seq, connected, waiting>>
  BY <1>1 DEF Dir!Reply, Dir!clientSeqs
<1>3. pkt \in Packets /\ pkt.body.op = op
  BY DEF Packets, Ops, Dir!Body, DirInv, DirTypes, LinkTypes
<1> HIDE DEF pkt
<1>4. /\ c2s' \in Seq(Packets) /\ s2c' \in Seq(Packets)
      /\ call = "END" \/ (/\ call = "FIND" /\ waiting /\ Asked
                          /\ c2s' = <<>> /\ s2c = <<>>)
  BY <1>1, <1>2, <1>3, DirRequestFacts, AppendFacts DEF DirInv, DirTypes, LinkTypes
<1>5. LinkTypes'
  <2>1. cur_pkt_out_seq' \in Int
    BY <1>1
  <2> QED
    BY <1>1, <1>2, <1>4, <2>1 DEF DirInv, DirTypes, LinkTypes
<1>6. DirTypes'
  BY <1>1, <1>2, <1>5 DEF DirInv, DirTypes
<1>7. CASE call = "END"
  BY <1>1, <1>2, <1>6, <1>7, DirSame, DirEnds
<1>8. CASE call = "FIND" /\ waiting /\ c2s' = <<>> /\ s2c = <<>>
  <2>1. Len(s2c') = 1 /\ s2c'[1] = pkt
    BY <1>2, <1>3, <1>8, AppendFacts
  <2>2. Asked'
    BY <1>1, <1>3, <1>8, <2>1 DEF Asked
  <2> QED
    BY <1>1, <1>2, <1>6, <1>8, <2>2, DirSame DEF DirInv
<1> QED
  BY <1>4, <1>7, <1>8

LEMMA DirLine == ASSUME DirInv, FewFaults, Dir!Line PROVE DirInv'
<1>1. /\ UNCHANGED <<call, cur_pkt_seq, cur_pkt_recv_seq, connected, waiting,
                     cur_pkt_in_seq, cur_pkt_out_seq, listed, r, next>>
      /\ faults < FaultMax /\ faults' = faults + 1
      /\ Lost \/ Damaged
  BY DEF Dir!Line, Dir!Lose, Dir!Damage, Dir!Fault, Dir!clientSeqs, Dir!serverSeqs,
     Lost, Damaged
<1>2. /\ c2s' \in Seq(Packets) /\ s2c' \in Seq(Packets)
      /\ \/ Shorter(c2s, c2s') /\ c2s # <<>> /\ s2c' = s2c
         \/ Shorter(s2c, s2c') /\ s2c # <<>> /\ c2s' = c2s
         \/ Alike(c2s, c2s') /\ Alike(s2c, s2c')
  BY <1>1, LineFacts DEF DirInv, DirTypes
<1>3. /\ c2s \in Seq(Packets) /\ s2c \in Seq(Packets) /\ Len(c2s) \in Nat /\ Len(s2c) \in Nat
      /\ Len(c2s') \in Nat /\ Len(s2c') \in Nat
  BY <1>2 DEF DirInv, DirTypes, LinkTypes
<1>4. LinkTypes'
  BY <1>1, <1>2 DEF DirInv, DirTypes, LinkTypes
<1>5. faults \in Nat /\ FaultMax \in Nat /\ SeqMod \in Nat
  BY LinkAssumption DEF DirInv, DirTypes
<1>6. DirTypes'
  <2>1. faults' \in 0 .. FaultMax
    BY <1>1, <1>5
  <2> QED
    BY <1>1, <1>4, <2>1 DEF DirInv, DirTypes
<1>7. Len(c2s') <= Len(c2s) /\ Len(s2c') <= Len(s2c)
  BY <1>2, <1>3 DEF Shorter, Alike
<1>8. (c2s = <<>> => c2s' = <<>>) /\ (s2c = <<>> => s2c' = <<>>)
  <2>1. (c2s = <<>> => Len(c2s) = 0) /\ (s2c = <<>> => Len(s2c) = 0)
    OBVIOUS
  <2> QED
    BY <1>2, <1>3, <1>7, <2>1, EmptySeq
<1>9. Asked => Asked'
  <2> SUFFICES ASSUME Asked PROVE Asked'
    OBVIOUS
  <2>1. next' = 0 /\ Len(c2s') + Len(s2c') <= 1
    BY <1>1, <1>3, <1>7 DEF Asked
  <2>2. ASSUME NEW i \in 1 .. Len(s2c')
        PROVE  \E k \in 1 .. Len(s2c) : s2c'[i].body = s2c[k].body
    <3>1. CASE Shorter(s2c, s2c')
      <4>1. i + 1 \in 1 .. Len(s2c) /\ s2c'[i] = s2c[i + 1]
        BY <1>3, <3>1 DEF Shorter
      <4> QED
        BY <4>1
    <3>2. CASE Alike(s2c, s2c')
      <4>1. i \in 1 .. Len(s2c) /\ s2c'[i].body = s2c[i].body
        BY <1>3, <3>2 DEF Alike
      <4> QED
        BY <4>1
    <3>3. CASE s2c' = s2c
      BY <3>3
    <3> QED
      BY <1>2, <3>1, <3>2, <3>3
  <2>3. \A i \in 1 .. Len(s2c') : s2c'[i].body.op \notin {"FIND", "FINISHED"}
    BY <2>2 DEF Asked
  <2> QED
    BY <2>1, <2>3 DEF Asked
<1>10. ASSUME NEW n \in Nat, Stream(n), Chained
       PROVE  /\ Chained'
              /\ \/ Stream(n)' /\ First' = First
                 \/ /\ Stream(n + 1)' /\ s2c # <<>>
                    /\ s2c' # <<>> \/ next # 0 => First' = Dir!NextSeq(First)
  <2>1. c2s' = c2s /\ c2s = <<>>
    BY <1>8, <1>10 DEF Stream
  <2>2. CASE Shorter(s2c, s2c') /\ s2c # <<>>
    BY <1>1, <1>2, <1>3, <1>10, <2>1, <2>2, StreamTail DEF First
  <2>3. CASE Alike(s2c, s2c')
    BY <1>1, <1>2, <1>3, <1>10, <2>1, <2>3, StreamAlike
  <2> QED
    BY <1>2, <2>1, <2>2, <2>3
<1>11. CASE call = "FIND" /\ ~waiting
  BY <1>1, <1>6, <1>8, <1>11, DirSame DEF DirInv
<1>12. CASE call = "FIND" /\ waiting
  <2>1. Asked \/ \E n \in Nat : Stream(n) /\ Chained
    BY <1>12 DEF DirInv
  <2>2. CASE Asked
    BY <1>1, <1>6, <1>9, <1>12, <2>2, DirSame DEF DirInv
  <2>3. CASE \E n \in Nat : Stream(n) /\ Chained
    <3>1. PICK n \in Nat : Stream(n) /\ Chained
      BY <2>3
    <3>2. Chained' /\ (Stream(n)' \/ Stream(n + 1)')
      BY <1>10, <3>1
    <3>3. n + 1 \in Nat
      OBVIOUS
    <3>4. (\E m \in Nat : Stream(m))'
      BY <3>2, <3>3
    <3> QED
      BY <1>1, <1>6, <1>12, <3>2, <3>4, DirSame DEF DirInv
  <2> QED
    BY <2>1, <2>2, <2>3
<1>13. CASE call = "NEXT"
  <2>1. /\ Chained /\ cur_pkt_recv_seq \in Seqs
        /\ Len(listed) \in Nat \ {0} /\ listed[Len(listed)] \in Nat
        /\ \E d \in 0 .. faults, n \in Nat :
              n = listed[Len(listed)] + d /\ Stream(n) /\ FirstIs(d)
    BY <1>13, ListingFacts DEF DirInv
  <2>2. PICK d \in 0 .. faults, n \in Nat :
              n = listed[Len(listed)] + d /\ Stream(n) /\ FirstIs(d)
    BY <2>1
  <2>3. d \in Nat /\ d < SeqMod /\ d + 1 < SeqMod
    BY <1>1, <1>5 DEF FewFaults
  <2>4. Chained' /\ cur_pkt_recv_seq' \in Seqs
    BY <1>1, <1>10, <2>1, <2>2
  <2>5. ASSUME Stream(n)', First' = First
        PROVE  Listing'
    <3>1. Stream(listed[Len(listed)] + d)'
      BY <1>1, <2>2, <2>5 DEF Stream
    <3>2. FirstIs(d)'
      BY <1>1, <1>8, <2>2, <2>5 DEF FirstIs
    <3>3. d \in 0 .. faults'
      BY <1>1, <1>5
    <3> QED
      BY <2>4, <3>1, <3>2, <3>3 DEF Listing
  <2>6. ASSUME Stream(n + 1)', s2c # <<>>,
               s2c' # <<>> \/ next # 0 => First' = Dir!NextSeq(First)
        PROVE  Listing'
    <3>1. listed'[Len(listed')] + (d + 1) = n + 1
      BY <1>1, <2>1, <2>2
    <3>2. Stream(listed[Len(listed)] + (d + 1))'
      BY <2>6, <3>1 DEF Stream
    <3>3. First = Ahead(cur_pkt_recv_seq, d)
      BY <2>2, <2>6 DEF FirstIs
    <3>4. Dir!NextSeq(First) = Ahead(cur_pkt_recv_seq, d + 1)
      BY <2>1, <2>3, <3>3, AheadFacts
    <3>5. FirstIs(d + 1)'
      BY <1>1, <2>6, <3>4 DEF FirstIs
    <3>6. d + 1 \in 0 .. faults'
      BY <1>1, <1>5
    <3> QED
      BY <2>4, <3>2, <3>5, <3>6 DEF Listing
  <2>7. Listing'
    BY <1>10, <2>1, <2>2, <2>5, <2>6
  <2> QED
    BY <1>1, <1>6, <1>13, <2>7, DirSame DEF DirInv
<1>14. CASE call = "END"
  BY <1>1, <1>6, <1>14, DirSame, DirEnds
<1> QED
  BY <1>11, <1>12, <1>13, <1>14 DEF DirInv, DirTypes

LEMMA DirStep == ASSUME DirInv, FewFaults, Dir!Next PROVE DirInv'
BY DirSend, DirAwait, DirReceive, DirNoReply, DirFind, DirSearch, DirRefuse, DirLine
   DEF Dir!Next, Dir!Client, Dir!Server

-----------------------------------------------------------------------------
(* download.                                                               *)

\* A late answer is never BUSY.
CopyBusyInTime == "busylate" \notin CopyFaults

Steps == {"open", "size", "rewind", "read", "reconnect", "back", "close", "end"}

CopyTypes ==
    /\ LinkTypes
    /\ step \in Steps /\ call = Download!CallOf[step]
    /\ file_size \in Int /\ copy \in Seq(Nat) /\ result \in Download!Copy!Results
    /\ is_open \in BOOLEAN /\ pos \in Int /\ size \in Int

\* What the client has come to.
Progress ==
    /\ waiting => step \notin {"reconnect", "end"}
    /\ step = "end" <=> result # "none"
    /\ result = "OK" => Len(copy) = Chunks
    /\ step \in {"open", "size", "rewind"} => copy = <<>> /\ size = Chunks
    /\ step \in {"rewind", "read", "reconnect", "back", "close"} => file_size = Chunks
    /\ step = "read" => Len(copy) < Chunks
    /\ step = "read" /\ ~waiting => pos = Len(copy)

Prefix == Len(copy) <= Chunks /\ \A n \in 1 .. Len(copy) : copy[n] = n

\* Requests that are still to be handled do no harm, however late they are.
Harmless(body) ==
    /\ step = "size" /\ body.op = "SEEK" => body.arg = Download!ToEnd
    /\ step = "rewind" /\ body.op = "SEEK" => body.arg = 0
    /\ step = "read" /\ body.op = "READ" => pos = Len(copy)
    /\ step = "back" /\ body.op = "SEEK" => body.arg = Len(copy)

Requests == \A i \in 1 .. Len(c2s) : Harmless(c2s[i].body)

\* What a reply that the client takes for its own says is so.
Truthful(body) ==
    /\ step = "size" /\ body.op = "SEEK" => body.arg = Chunks
    /\ step = "rewind" /\ body.op = "SEEK" => pos = 0
    /\ step = "read" /\ body.op = "READ" =>
           body.arg = 0 \/ (body.arg = Len(copy) + 1 /\ pos = Len(copy) + 1)
    /\ step = "read" /\ body.op = "BUSY" => pos = Len(copy)
    /\ step = "back" /\ body.op = "SEEK" => body.arg = Len(copy) /\ pos = Len(copy)

Replies == \A i \in 1 .. Len(s2c) : Truthful(s2c[i].body)

\* What is on the line: nothing; one packet; the request of the command being
\* carried out; what is left of a READ that was given up; that, and behind it
\* the SEEK that follows or the reply to it.
Clear      == c2s = <<>> /\ s2c = <<>>
Few        == Len(c2s) + Len(s2c) <= 1
OwnRequest == \A i \in 1 .. Len(c2s) : c2s[i].body.op = call
OldRead    == /\ \A i \in 1 .. Len(c2s) : c2s[i].body.op = "READ"
              /\ \A i \in 1 .. Len(s2c) : s2c[i].body.op \notin {"SEEK", "BUSY"}
SeekLast ==
    /\ \A i \in 1 .. Len(c2s) : c2s[i].body.op = IF i = Len(c2s) THEN "SEEK" ELSE "READ"
    /\ \A i \in 1 .. Len(s2c) :
           s2c[i].body.op \in {"SEEK", "BUSY"} => i = Len(s2c) /\ c2s = <<>>

OneExchange ==
    /\ step \in {"open", "size", "rewind", "read", "close"} /\ ~waiting => Clear
    /\ step \in {"open", "size", "rewind", "read", "close"} /\ waiting => Few /\ OwnRequest
    /\ step = "reconnect" \/ (step = "back" /\ ~waiting) => Few /\ OldRead
    /\ step = "back" /\ waiting => SeekLast

CopyInv == CopyTypes /\ Progress /\ Prefix /\ Requests /\ Replies /\ OneExchange

LEMMA CallFacts ==
    ASSUME NEW s \in Steps
    PROVE  LET c == Download!CallOf[s]
           IN  /\ c = "OPEN" <=> s = "open"
               /\ c = "SEEK" <=> s \in {"size", "rewind", "back"}
               /\ c = "READ" <=> s = "read"
               /\ c = "CLOSE" <=> s = "close"
               /\ c = "RECONNECT" <=> s = "reconnect"
               /\ c = "END" <=> s = "end"
BY DEF Steps, Download!CallOf

LEMMA CopyNextInt == ASSUME NEW seq \in Int PROVE Download!NextSeq(seq) \in Int
BY LinkAssumption DEF Download!NextSeq

LEMMA CopyInit == ASSUME Download!Init PROVE CopyInv
<1>1. Chunks \in Nat /\ SeqMod \in Nat
  BY LinkAssumption, SizeAssumption
<1>2. /\ c2s = <<>> /\ s2c = <<>> /\ step = "open" /\ call = "OPEN" /\ file_size = 0
      /\ copy = <<>> /\ result = "none" /\ pos = 0 /\ size = Chunks
      /\ cur_pkt_seq = -1 /\ cur_pkt_recv_seq = -1 /\ ~waiting
  BY DEF Download!Init, Download!LinkInit, Download!NoSeq
<1>3. cur_pkt_in_seq \in Int /\ cur_pkt_out_seq \in Int
  BY <1>1 DEF Download!Init, Download!LinkInit, Download!NoSeq
<1>4. connected \in BOOLEAN /\ waiting \in BOOLEAN /\ is_open \in BOOLEAN
  BY DEF Download!Init, Download!LinkInit
<1>5. LinkTypes
  BY <1>2, <1>3, <1>4 DEF LinkTypes
<1>6. call = Download!CallOf[step]
  BY <1>2 DEF Download!CallOf
<1>7. CopyTypes
  BY <1>1, <1>2, <1>4, <1>5, <1>6 DEF CopyTypes, Steps, Download!Copy!Results
<1>8. Progress /\ Prefix
  BY <1>1, <1>2 DEF Progress, Prefix
<1>9. Requests /\ Replies /\ OneExchange
  BY <1>2 DEF Requests, Replies, OneExchange, Clear, Few, OwnRequest, OldRead, SeekLast
<1> QED
  BY <1>7, <1>8, <1>9 DEF CopyInv

LEMMA CopySend == ASSUME CopyInv, Download!SendRequest PROVE CopyInv'
<1> DEFINE pkt == [seq |-> cur_pkt_seq, body |-> Download!Body(call, Download!Arg), good |-> TRUE]
<1>1. /\ call \in {"OPEN", "SEEK", "READ", "CLOSE"} /\ ~waiting /\ waiting' = TRUE
      /\ c2s' = Append(c2s, pkt) /\ cur_pkt_seq' = Download!NextSeq(cur_pkt_seq)
      /\ UNCHANGED <<s2c, call, cur_pkt_recv_seq, connected, cur_pkt_in_seq, cur_pkt_out_seq,
                     step, file_size, copy, result, is_open, pos, size>>
  BY DEF Download!SendRequest, Download!Send, Download!serverSeqs, Download!clientVars,
     Download!fileVars
<1>2. /\ Download!Arg \in Int
      /\ step = "size" => Download!Arg = Download!ToEnd
      /\ step = "rewind" => Download!Arg = 0
      /\ step = "back" => Download!Arg = Len(copy)
  BY DEF Download!Arg, Download!ToEnd, CopyInv, CopyTypes
<1>3. pkt \in Packets /\ pkt.body.op = call /\ pkt.body.arg = Download!Arg
  BY <1>1, <1>2 DEF Packets, Ops, Download!Body, CopyInv, CopyTypes, LinkTypes
<1> HIDE DEF pkt
<1>4. step \in {"open", "size", "rewind", "read", "back", "close"}
  BY <1>1, CallFacts DEF CopyInv, CopyTypes, Steps
<1>5. /\ c2s' \in Seq(Packets) /\ Len(c2s') = Len(c2s) + 1 /\ Len(c2s) \in Nat
      /\ \A i \in 1 .. Len(c2s) : c2s'[i] = c2s[i]
      /\ c2s'[Len(c2s) + 1] = pkt
  BY <1>1, <1>3, AppendFacts DEF CopyInv, CopyTypes, LinkTypes
<1>6. \A i \in 1 .. Len(c2s') : i \in 1 .. Len(c2s) \/ i = Len(c2s) + 1
  BY <1>5
<1>7. LinkTypes'
  BY <1>1, <1>5, CopyNextInt DEF CopyInv, CopyTypes, LinkTypes
<1>8. CopyTypes'
  BY <1>1, <1>7 DEF CopyInv, CopyTypes
<1>9. Progress' /\ Prefix' /\ Replies'
  BY <1>1, <1>4 DEF CopyInv, Progress, Prefix, Replies, Truthful
<1>10. CASE step = "back"
  <2>1. OldRead /\ Few
    BY <1>1, <1>10 DEF CopyInv, OneExchange
  <2>2. call = "SEEK"
    BY <1>10, CallFacts DEF CopyInv, CopyTypes
  <2>3. Requests'
    <3> SUFFICES ASSUME NEW i \in 1 .. Len(c2s') PROVE Harmless(c2s[i].body)'
      BY DEF Requests
    <3>1. CASE i \in 1 .. Len(c2s)
      BY <1>1, <1>5, <1>10, <2>1, <3>1 DEF OldRead, Harmless
    <3>2. CASE i = Len(c2s) + 1
      BY <1>1, <1>2, <1>3, <1>5, <1>10, <3>2 DEF Harmless
    <3> QED
      BY <1>6, <3>1, <3>2
  <2>4. SeekLast'
    <3>1. ASSUME NEW i \in 1 .. Len(c2s')
          PROVE  c2s'[i].body.op = IF i = Len(c2s') THEN "SEEK" ELSE "READ"
      BY <1>3, <1>5, <1>6, <2>1, <2>2 DEF OldRead
    <3>2. \A i \in 1 .. Len(s2c') : s2c'[i].body.op \notin {"SEEK", "BUSY"}
      BY <1>1, <2>1 DEF OldRead
    <3> QED
      BY <3>1, <3>2 DEF SeekLast
  <2>5. OneExchange'
    BY <1>1, <1>10, <2>4 DEF OneExchange
  <2> QED
    BY <1>8, <1>9, <2>3, <2>5 DEF CopyInv
<1>11. CASE step # "back"
  <2>1. Clear
    BY <1>1, <1>4, <1>11 DEF CopyInv, OneExchange
  <2>2. Len(c2s) = 0 /\ Len(s2c') = 0
    BY <1>1, <2>1 DEF Clear
  <2>3. \A i \in 1 .. Len(c2s') : c2s'[i] = pkt
    BY <1>5, <1>6, <2>2
  <2>4. Requests'
    <3>1. step = "read" => pos = Len(copy)
      BY <1>1 DEF CopyInv, Progress
    <3> QED
      BY <1>1, <1>2, <1>3, <1>11, <2>3, <3>1 DEF Requests, Harmless
  <2>5. Few' /\ OwnRequest'
    BY <1>1, <1>3, <1>5, <2>2, <2>3 DEF Few, OwnRequest
  <2>6. OneExchange'
    BY <1>1, <1>4, <1>11, <2>5 DEF OneExchange
  <2> QED
    BY <1>8, <1>9, <2>4, <2>6 DEF CopyInv
<1> QED
  BY <1>10, <1>11

\* A line with nothing on it suits every place in the command.
LEMMA CopyClear ==
    ASSUME CopyTypes', Progress', Prefix', c2s' = <<>>, s2c' = <<>>, waiting' = FALSE
    PROVE  CopyInv'
<1>1. Requests' /\ Replies' /\ OneExchange'
  BY DEF Requests, Replies, OneExchange, Clear, Few, OwnRequest, OldRead, SeekLast
<1> QED
  BY <1>1 DEF CopyInv

\* When the command is over it does not matter what is on the line.
LEMMA CopyOver ==
    ASSUME CopyTypes', Progress', Prefix', step' = "end", waiting' = FALSE
    PROVE  CopyInv'
<1>1. Requests' /\ Replies' /\ OneExchange'
  BY DEF Requests, Replies, Harmless, Truthful, OneExchange
<1> QED
  BY <1>1 DEF CopyInv

\* Giving up, whatever is left on the line.
LEMMA CopyGiveUp ==
    ASSUME CopyInv, step # "end", step' = "end", call' = "END", result' = "failed",
           waiting' = FALSE, LinkTypes', UNCHANGED <<file_size, copy, is_open, pos, size>>
    PROVE  CopyInv'
<1>1. call' = Download!CallOf[step']
  BY DEF Download!CallOf
<1>2. CopyTypes'
  BY <1>1 DEF CopyInv, CopyTypes, Steps, Download!Copy!Results
<1>3. Progress' /\ Prefix'
  BY DEF CopyInv, Progress, Prefix
<1> QED
  BY <1>2, <1>3, CopyOver

LEMMA CopyReceivedFacts ==
    ASSUME CopyInv, Download!Received
    PROVE  /\ step \notin {"reconnect", "end"} /\ result = "none" /\ waiting' = FALSE
           /\ LinkTypes' /\ Download!TheReply.arg \in Int /\ Truthful(Download!TheReply)
           /\ step # "back" \/ Download!TheReply.op \in {"SEEK", "BUSY"} =>
                  c2s' = <<>> /\ s2c' = <<>>
<1>1. /\ waiting /\ s2c # <<>> /\ s2c' = Tail(s2c) /\ waiting' = FALSE
      /\ cur_pkt_recv_seq' = Download!NextSeq(Head(s2c).seq)
      /\ UNCHANGED <<c2s, cur_pkt_seq, connected, cur_pkt_in_seq, cur_pkt_out_seq>>
  BY DEF Download!Received, Download!serverSeqs
<1>2. /\ Head(s2c) = s2c[1] /\ Head(s2c) \in Packets /\ Len(s2c) \in Nat \ {0}
      /\ s2c' \in Seq(Packets) /\ Len(s2c') = Len(s2c) - 1
  BY <1>1, TailFacts DEF CopyInv, CopyTypes, LinkTypes
<1>3. step \notin {"reconnect", "end"} /\ result = "none"
  BY <1>1 DEF CopyInv, Progress
<1>4. 1 \in 1 .. Len(s2c)
  BY <1>2
<1>5. /\ Download!TheReply = s2c[1].body /\ Download!TheReply.arg \in Int
      /\ Truthful(Download!TheReply)
  BY <1>2, <1>4 DEF Download!TheReply, Packets, CopyInv, Replies
<1>6. LinkTypes'
  <2>1. cur_pkt_recv_seq' \in Int
    BY <1>1, <1>2, CopyNextInt DEF Packets
  <2> QED
    BY <1>1, <1>2, <2>1 DEF CopyInv, CopyTypes, LinkTypes
<1>7. ASSUME step # "back" \/ Download!TheReply.op \in {"SEEK", "BUSY"}
      PROVE  c2s' = <<>> /\ s2c' = <<>>
  <2>1. c2s \in Seq(Packets) /\ Len(c2s) \in Nat
    BY DEF CopyInv, CopyTypes, LinkTypes
  <2>2. Len(c2s) = 0 /\ Len(s2c) = 1
    <3>1. CASE step # "back"
      <4>1. step \in {"open", "size", "rewind", "read", "close"}
        BY <1>3, <3>1 DEF CopyInv, CopyTypes, Steps
      <4>2. Len(c2s) + Len(s2c) <= 1
        BY <1>1, <4>1 DEF CopyInv, OneExchange, Few
      <4> QED
        BY <1>2, <2>1, <4>2
    <3>2. CASE step = "back"
      <4>1. SeekLast /\ s2c[1].body.op \in {"SEEK", "BUSY"}
        BY <1>1, <1>5, <1>7, <3>2 DEF CopyInv, OneExchange
      <4>2. 1 = Len(s2c) /\ c2s = <<>>
        BY <1>4, <4>1 DEF SeekLast
      <4> QED
        BY <4>2
    <3> QED
      BY <3>1, <3>2
  <2> QED
    BY <1>1, <1>2, <2>1, <2>2, EmptySeq
<1> QED
  BY <1>1, <1>3, <1>5, <1>6, <1>7

\* A step of the client that leaves the line empty.
LEMMA CopyGoOn ==
    ASSUME CopyInv, LinkTypes', waiting' = FALSE, c2s' = <<>>, s2c' = <<>>,
           NEW s \in Steps \ {"end"}, Download!GoTo(s),
           UNCHANGED <<is_open, pos, size>>, result = "none",
           file_size' \in Int, copy' \in Seq(Nat), Prefix',
           s \in {"open", "size", "rewind"} => copy' = <<>> /\ size = Chunks,
           s \in {"rewind", "read", "reconnect", "back", "close"} => file_size' = Chunks,
           s = "read" => Len(copy') < Chunks /\ pos = Len(copy')
    PROVE  CopyInv'
<1>1. step' = s /\ call' = Download!CallOf[s] /\ result' = "none"
  BY DEF Download!GoTo
<1>2. CopyTypes'
  BY <1>1 DEF CopyInv, CopyTypes, Download!Copy!Results
<1>3. Progress'
  BY <1>1 DEF Progress
<1> QED
  BY <1>2, <1>3, CopyClear

\* The head of the loop: the next chunk, or CLOSE.
LEMMA CopyLoop ==
    ASSUME CopyInv, LinkTypes', waiting' = FALSE, c2s' = <<>>, s2c' = <<>>,
           Download!Loop, UNCHANGED <<is_open, pos, size>>, result = "none",
           file_size' = Chunks, copy' \in Seq(Nat), Prefix', pos = Len(copy')
    PROVE  CopyInv'
<1>1. Chunks \in Int /\ Len(copy') \in Nat
  BY SizeAssumption
<1>2. CASE Len(copy') < file_size'
  <2>1. Download!GoTo("read")
    BY <1>2 DEF Download!Loop
  <2> QED
    BY <1>1, <1>2, <2>1, CopyGoOn DEF Steps
<1>3. CASE ~(Len(copy') < file_size')
  <2>1. Download!GoTo("close")
    BY <1>3 DEF Download!Loop
  <2> QED
    BY <1>1, <1>3, <2>1, CopyGoOn DEF Steps
<1> QED
  BY <1>2, <1>3

LEMMA CopyReceive == ASSUME CopyInv, Download!Receive PROVE CopyInv'
<1> DEFINE n == Download!TheReply.arg
<1>1. /\ Download!Received /\ Download!ReceiveReply(Download!TheReply)
      /\ UNCHANGED <<is_open, pos, size>>
  BY DEF Download!Receive, Download!fileVars
<1>2. /\ step \notin {"reconnect", "end"} /\ result = "none" /\ waiting' = FALSE
      /\ LinkTypes' /\ n \in Int /\ Truthful(Download!TheReply)
      /\ step # "back" \/ Download!TheReply.op \in {"SEEK", "BUSY"} =>
             c2s' = <<>> /\ s2c' = <<>>
  BY <1>1, CopyReceivedFacts
<1>3. /\ step \in Steps /\ call = Download!CallOf[step] /\ Chunks \in Nat
      /\ file_size \in Int /\ copy \in Seq(Nat) /\ Len(copy) \in Nat
  BY SizeAssumption DEF CopyInv, CopyTypes
<1>4. copy' = copy => Prefix'
  BY DEF CopyInv, Prefix
<1>5. CASE Download!TheReply.op = "BUSY"
  <2>1. UNCHANGED <<call, step, file_size, copy, result>>
    BY <1>1, <1>5 DEF Download!ReceiveReply, Download!clientVars
  <2>2. CopyTypes'
    BY <1>1, <1>2, <2>1 DEF CopyInv, CopyTypes
  <2>3. Progress' /\ Prefix'
    BY <1>1, <1>2, <1>5, <2>1 DEF CopyInv, Progress, Prefix, Truthful
  <2> QED
    BY <1>2, <1>5, <2>2, <2>3, CopyClear
<1>6. CASE Download!TheReply.op # "BUSY" /\ Download!TheReply.op = call
  <2>1. Download!Succeed(n)
    BY <1>1, <1>6 DEF Download!ReceiveReply
  <2>2. c2s' = <<>> /\ s2c' = <<>>
    <3>1. step = "back" => call = "SEEK"
      BY <1>3, CallFacts
    <3> QED
      BY <1>2, <1>6, <3>1
  <2> HIDE DEF n
  <2>3. CASE step = "open" /\ Download!GoTo("size") /\ UNCHANGED <<file_size, copy>>
    <3>1. copy = <<>> /\ size = Chunks
      BY <2>3 DEF CopyInv, Progress
    <3> QED
      BY <1>1, <1>2, <1>3, <1>4, <2>2, <2>3, <3>1, CopyGoOn DEF Steps
  <2>4. CASE step = "size" /\ file_size' = n /\ copy' = copy /\ Download!GoTo("rewind")
    <3>1. copy = <<>> /\ size = Chunks
      BY <2>4 DEF CopyInv, Progress
    <3>2. n = Chunks
      BY <1>2, <1>3, <1>6, <2>4, CallFacts DEF Truthful, n
    <3> QED
      BY <1>1, <1>2, <1>3, <1>4, <2>2, <2>4, <3>1, <3>2, CopyGoOn DEF Steps
  <2>5. CASE step = "rewind" /\ UNCHANGED <<file_size, copy>> /\ Download!Loop
    <3>1. copy = <<>> /\ file_size = Chunks /\ pos = 0
      <4>1. call = "SEEK"
        BY <1>3, <2>5, CallFacts
      <4> QED
        BY <1>2, <1>6, <2>5, <4>1 DEF CopyInv, Progress, Truthful
    <3>2. Len(copy') = 0
      BY <2>5, <3>1
    <3> QED
      BY <1>1, <1>2, <1>3, <1>4, <2>2, <2>5, <3>1, <3>2, CopyLoop
  <2>6. CASE step = "read" /\ Download!Got(n)
    <3>1. file_size = Chunks /\ Len(copy) < Chunks
      BY <2>6 DEF CopyInv, Progress
    <3>2. CASE n = 0
      <4>1. file_size' = file_size /\ copy' = copy /\ Download!GoTo("close")
        BY <2>6, <3>2 DEF Download!Got
      <4> QED
        BY <1>1, <1>2, <1>3, <1>4, <2>2, <3>1, <4>1, CopyGoOn DEF Steps
    <3>3. CASE n # 0
      <4>1. file_size' = file_size /\ copy' = Append(copy, n) /\ Download!Loop
        BY <2>6, <3>3 DEF Download!Got
      <4>2. n = Len(copy) + 1 /\ pos = Len(copy) + 1
        <5>1. call = "READ"
          BY <1>3, <2>6, CallFacts
        <5> QED
          BY <1>2, <1>6, <2>6, <3>3, <5>1 DEF Truthful, n
      <4>3. /\ copy' \in Seq(Nat) /\ Len(copy') = Len(copy) + 1
            /\ \A i \in 1 .. Len(copy) : copy'[i] = copy[i]
            /\ copy'[Len(copy) + 1] = Len(copy) + 1
        BY <1>3, <4>1, <4>2, AppendFacts
      <4>4. Prefix'
        BY <1>3, <3>1, <4>3 DEF CopyInv, Prefix
      <4> QED
        BY <1>1, <1>2, <1>3, <2>2, <3>1, <4>1, <4>2, <4>3, <4>4, CopyLoop
    <3> QED
      BY <3>2, <3>3
  <2>7. CASE step = "back" /\ UNCHANGED <<file_size, copy>> /\ Download!Back(n)
    <3>1. n = Len(copy) /\ pos = Len(copy) /\ file_size = Chunks
      <4>1. call = "SEEK"
        BY <1>3, <2>7, CallFacts
      <4> QED
        BY <1>2, <1>6, <2>7, <4>1 DEF CopyInv, Progress, Truthful, n
    <3>2. Download!Loop
      BY <2>7, <3>1 DEF Download!Back
    <3>3. pos = Len(copy')
      BY <2>7, <3>1
    <3> QED
      BY <1>1, <1>2, <1>3, <1>4, <2>2, <2>7, <3>1, <3>2, <3>3, CopyLoop
  <2>8. CASE step = "close" /\ Download!Closed /\ UNCHANGED <<file_size, copy>>
    <3>1. file_size = Chunks
      BY <2>8 DEF CopyInv, Progress
    <3>2. /\ step' = "end" /\ call' = "END" /\ result' \in {"OK", "incomplete"}
          /\ result' = "OK" => Len(copy) = Chunks
      BY <2>8, <3>1 DEF Download!Closed, Download!End
    <3>3. call' = Download!CallOf[step']
      BY <3>2 DEF Download!CallOf
    <3>4. CopyTypes'
      BY <1>1, <1>2, <2>8, <3>2, <3>3
         DEF CopyInv, CopyTypes, Steps, Download!Copy!Results
    <3>5. Progress'
      BY <1>2, <2>8, <3>2 DEF Progress
    <3> QED
      BY <1>2, <1>4, <2>8, <3>2, <3>4, <3>5, CopyOver
  <2> QED
    BY <2>1, <2>3, <2>4, <2>5, <2>6, <2>7, <2>8 DEF Download!Succeed
<1>7. CASE Download!TheReply.op # "BUSY" /\ Download!TheReply.op # call
  <2>1. Download!Fail
    BY <1>1, <1>7 DEF Download!ReceiveReply
  <2>2. CASE step = "read"
    <3>1. Download!GoTo("reconnect") /\ UNCHANGED <<file_size, copy>>
      BY <2>1, <2>2 DEF Download!Fail
    <3>2. file_size = Chunks
      BY <2>2 DEF CopyInv, Progress
    <3> QED
      BY <1>1, <1>2, <1>3, <1>4, <2>2, <3>1, <3>2, CopyGoOn DEF Steps
  <2>3. CASE step # "read"
    <3>1. /\ step' = "end" /\ call' = "END" /\ result' = "failed"
          /\ UNCHANGED <<file_size, copy>>
      BY <2>1, <2>3 DEF Download!Fail, Download!End
    <3> QED
      BY <1>1, <1>2, <3>1, CopyGiveUp
  <2> QED
    BY <2>2, <2>3
<1> QED
  BY <1>5, <1>6, <1>7

LEMMA CopyNoReply == ASSUME CopyInv, Download!NoReply PROVE CopyInv'
<1>1. /\ Download!Fail /\ UNCHANGED <<is_open, pos, size>>
      /\ Download!Refused \/ Download!TimedOut
  BY DEF Download!NoReply, Download!fileVars
<1>2. waiting /\ step # "end" /\ result = "none"
  <2>1. waiting
    BY <1>1 DEF Download!Refused, Download!TimedOut, Download!TimedOutUnless
  <2> QED
    BY <2>1 DEF CopyInv, Progress
<1>3. waiting' = FALSE /\ c2s' = c2s /\ LinkTypes' /\ (step = "read" => s2c' = <<>>)
  <2>1. CASE Download!Refused
    <3>1. /\ s2c # <<>> /\ s2c' = Tail(s2c) /\ connected' = FALSE /\ waiting' = FALSE
          /\ UNCHANGED <<c2s, cur_pkt_seq, cur_pkt_recv_seq, cur_pkt_in_seq, cur_pkt_out_seq>>
      BY <2>1 DEF Download!Refused, Download!clientSeqs, Download!serverSeqs
    <3>2. /\ s2c' \in Seq(Packets) /\ Len(s2c') = Len(s2c) - 1 /\ Len(c2s) \in Nat
          /\ Len(s2c) \in Nat \ {0}
      BY <3>1, TailFacts DEF CopyInv, CopyTypes, LinkTypes
    <3>3. step = "read" => Len(s2c') = 0
      BY <1>2, <3>2 DEF CopyInv, OneExchange, Few
    <3>4. LinkTypes'
      BY <3>1, <3>2 DEF CopyInv, CopyTypes, LinkTypes
    <3> QED
      BY <3>1, <3>2, <3>3, <3>4, EmptySeq
  <2>2. CASE Download!TimedOut
    <3>1. /\ s2c = <<>> /\ cur_pkt_seq' = -1 /\ cur_pkt_recv_seq' = -1
          /\ UNCHANGED <<c2s, s2c, cur_pkt_in_seq, cur_pkt_out_seq>>
      BY <2>2 DEF Download!TimedOut, Download!TimedOutUnless, Download!ResetSeqs,
         Download!NoSeq, Download!serverSeqs
    <3>2. connected' = FALSE /\ waiting' = FALSE
      BY <2>2 DEF Download!TimedOut, Download!TimedOutUnless
    <3>3. cur_pkt_seq' \in Int /\ cur_pkt_recv_seq' \in Int
      BY <3>1
    <3>4. LinkTypes'
      BY <3>1, <3>2, <3>3 DEF CopyInv, CopyTypes, LinkTypes
    <3> QED
      BY <3>1, <3>2, <3>4
  <2> QED
    BY <1>1, <2>1, <2>2
<1>4. CASE step = "read"
  <2>1. Download!GoTo("reconnect") /\ UNCHANGED <<file_size, copy>>
    BY <1>1, <1>4 DEF Download!Fail
  <2>2. step' = "reconnect" /\ call' = Download!CallOf[step'] /\ result' = "none"
    BY <1>2, <2>1 DEF Download!GoTo
  <2>3. CopyTypes'
    BY <1>1, <1>3, <2>1, <2>2 DEF CopyInv, CopyTypes, Steps, Download!Copy!Results
  <2>4. Progress' /\ Prefix'
    BY <1>3, <1>4, <2>1, <2>2 DEF CopyInv, Progress, Prefix
  <2>5. Requests' /\ Replies'
    BY <2>2 DEF Requests, Harmless, Replies, Truthful
  <2>6. Few' /\ OldRead'
    <3>1. Few /\ OwnRequest /\ call = "READ"
      BY <1>2, <1>4, CallFacts DEF CopyInv, OneExchange, CopyTypes
    <3>2. Len(c2s) \in Nat /\ Len(s2c) \in Nat /\ Len(s2c') = 0
      BY <1>3, <1>4 DEF CopyInv, CopyTypes, LinkTypes
    <3> QED
      BY <1>3, <3>1, <3>2 DEF Few, OwnRequest, OldRead
  <2>7. OneExchange'
    BY <2>2, <2>6 DEF OneExchange
  <2> QED
    BY <2>3, <2>4, <2>5, <2>7 DEF CopyInv
<1>5. CASE step # "read"
  <2>1. /\ step' = "end" /\ call' = "END" /\ result' = "failed"
        /\ UNCHANGED <<file_size, copy>>
    BY <1>1, <1>5 DEF Download!Fail, Download!End
  <2> QED
    BY <1>1, <1>2, <1>3, <2>1, CopyGiveUp
<1> QED
  BY <1>4, <1>5

LEMMA CopyReconnect == ASSUME CopyInv, Download!Reconnect PROVE CopyInv'
<1>1. step = "reconnect" /\ UNCHANGED <<file_size, copy, is_open, pos, size>>
  BY DEF Download!Reconnect, Download!fileVars
<1>2. ~waiting /\ result = "none" /\ file_size = Chunks /\ Few /\ OldRead
  BY <1>1 DEF CopyInv, Progress, OneExchange
<1>3. /\ s2c \in Seq(Packets) /\ Len(s2c) \in Nat /\ Len(c2s) \in Nat
  BY DEF CopyInv, CopyTypes, LinkTypes
<1>4. ASSUME Download!GoTo("back"), waiting' = waiting, LinkTypes', c2s' = c2s,
             s2c' = s2c \/ s2c' = <<>>
      PROVE  CopyInv'
  <2>1. step' = "back" /\ call' = Download!CallOf[step'] /\ result' = "none"
    BY <1>2, <1>4 DEF Download!GoTo
  <2>2. CopyTypes'
    BY <1>1, <1>4, <2>1 DEF CopyInv, CopyTypes, Steps, Download!Copy!Results
  <2>3. Progress' /\ Prefix'
    BY <1>1, <1>2, <1>4, <2>1 DEF CopyInv, Progress, Prefix
  <2>4. Few' /\ OldRead'
    <3>1. CASE s2c' = s2c
      BY <1>2, <1>4, <3>1 DEF Few, OldRead
    <3>2. CASE s2c' = <<>>
      BY <1>2, <1>3, <1>4, <3>2 DEF Few, OldRead
    <3> QED
      BY <1>4, <3>1, <3>2
  <2>5. Requests' /\ Replies'
    BY <2>1, <2>4 DEF Requests, Harmless, Replies, Truthful, OldRead
  <2>6. OneExchange'
    BY <1>2, <1>4, <2>1, <2>4 DEF OneExchange
  <2> QED
    BY <2>2, <2>3, <2>5, <2>6 DEF CopyInv
<1>5. CASE connected /\ UNCHANGED Download!linkVars /\ Download!GoTo("back")
  <2>1. /\ UNCHANGED <<c2s, s2c, cur_pkt_seq, cur_pkt_recv_seq, connected, waiting,
                       cur_pkt_in_seq, cur_pkt_out_seq>>
    BY <1>5 DEF Download!linkVars, Download!clientSeqs, Download!serverSeqs
  <2>2. LinkTypes'
    BY <2>1 DEF CopyInv, CopyTypes, LinkTypes
  <2> QED
    BY <1>4, <1>5, <2>1, <2>2
<1>6. CASE Download!Reconnected /\ Download!GoTo("back")
  <2>1. /\ UNCHANGED <<c2s, cur_pkt_seq, cur_pkt_recv_seq, waiting, cur_pkt_in_seq,
                       cur_pkt_out_seq>>
        /\ \E n \in 0 .. Len(s2c) : s2c' = SubSeq(s2c, n + 1, Len(s2c))
    BY <1>6 DEF Download!Reconnected, Download!clientSeqs, Download!serverSeqs
  <2>2. s2c' = s2c \/ s2c' = <<>>
    <3>1. PICK n \in 0 .. Len(s2c) : s2c' = SubSeq(s2c, n + 1, Len(s2c))
      BY <2>1
    <3>2. Len(s2c) <= 1
      BY <1>2, <1>3 DEF Few
    <3> QED
      BY <1>3, <3>1, <3>2, SuffixFacts
  <2>3. s2c' \in Seq(Packets)
    <3>1. CASE s2c' = s2c
      BY <1>3, <3>1
    <3>2. CASE s2c' = <<>>
      BY <3>2
    <3> QED
      BY <2>2, <3>1, <3>2
  <2>4. connected' \in BOOLEAN
    BY <1>6 DEF Download!Reconnected
  <2>5. LinkTypes'
    BY <2>1, <2>3, <2>4 DEF CopyInv, CopyTypes, LinkTypes
  <2> QED
    BY <1>4, <1>6, <2>1, <2>2, <2>5
<1>7. CASE Download!Offline /\ Download!End("failed")
  <2>1. /\ UNCHANGED <<c2s, s2c, cur_pkt_recv_seq, connected, waiting,
                       cur_pkt_in_seq, cur_pkt_out_seq>>
        /\ cur_pkt_seq' = Download!NextSeq(cur_pkt_seq)
        /\ step' = "end" /\ call' = "END" /\ result' = "failed"
    BY <1>7 DEF Download!Offline, Download!End, Download!clientSeqs, Download!serverSeqs
  <2>2. LinkTypes'
    BY <2>1, CopyNextInt DEF CopyInv, CopyTypes, LinkTypes
  <2>3. waiting' = FALSE
    BY <1>2, <2>1 DEF CopyInv, CopyTypes, LinkTypes
  <2> QED
    BY <1>1, <2>1, <2>2, <2>3, CopyGiveUp
<1> QED
  BY <1>5, <1>6, <1>7 DEF Download!Reconnect

LEMMA CopyHead ==
    ASSUME CopyInv, c2s # <<>>
    PROVE  /\ Head(c2s) = c2s[1] /\ Head(c2s) \in Packets /\ Len(c2s) \in Nat \ {0}
           /\ Harmless(Head(c2s).body)
           /\ step \in {"open", "size", "rewind", "read", "close"} =>
                  /\ waiting /\ Head(c2s).body.op = call
                  /\ Len(c2s) = 1 /\ s2c = <<>>
           /\ step \in {"reconnect", "back"} =>
                  \A i \in 1 .. Len(s2c) : s2c[i].body.op \notin {"SEEK", "BUSY"}
<1>1. Head(c2s) = c2s[1] /\ Head(c2s) \in Packets /\ Len(c2s) \in Nat \ {0}
  BY TailFacts DEF CopyInv, CopyTypes, LinkTypes
<1>2. 1 \in 1 .. Len(c2s)
  BY <1>1
<1>3. Harmless(Head(c2s).body)
  BY <1>1, <1>2 DEF CopyInv, Requests
<1>4. ASSUME step \in {"open", "size", "rewind", "read", "close"}
      PROVE  /\ waiting /\ Head(c2s).body.op = call
             /\ Len(c2s) = 1 /\ s2c = <<>>
  <2>1. waiting /\ Few /\ OwnRequest
    BY <1>4 DEF CopyInv, OneExchange, Clear
  <2>2. s2c \in Seq(Packets) /\ Len(s2c) \in Nat
    BY DEF CopyInv, CopyTypes, LinkTypes
  <2>3. Len(c2s) = 1 /\ Len(s2c) = 0
    <3>1. Len(c2s) + Len(s2c) <= 1
      <4>1. Few
        BY <2>1
      <4> QED
        BY <4>1 DEF Few
    <3>2. \A a \in Nat \ {0}, b \in Nat : a + b <= 1 => a = 1 /\ b = 0
      OBVIOUS
    <3>3. Len(c2s) \in Nat \ {0}
      BY <1>1
    <3> QED
      BY <2>2, <3>1, <3>2, <3>3, Zenon
  <2> QED
    BY <1>1, <1>2, <2>1, <2>2, <2>3, EmptySeq DEF OwnRequest
<1>5. ASSUME step \in {"reconnect", "back"}
      PROVE  \A i \in 1 .. Len(s2c) : s2c[i].body.op \notin {"SEEK", "BUSY"}
  <2>1. OldRead \/ SeekLast
    BY <1>5 DEF CopyInv, OneExchange
  <2> QED
    BY <2>1 DEF OldRead, SeekLast
<1> QED
  BY <1>1, <1>3, <1>4, <1>5

\* One request is taken from the line and one reply is put on it.
LEMMA CopyServerStep ==
    ASSUME CopyInv, c2s # <<>>, NEW body, Download!Reply(body),
           body.op \in Ops, body.arg \in Int, body = [op |-> body.op, arg |-> body.arg],
           cur_pkt_in_seq' \in Int, cur_pkt_out_seq' \in Int,
           is_open' \in BOOLEAN, pos' \in Int, size' = size,
           UNCHANGED <<step, file_size, copy, result>>,
           body.op = "SEEK" => Head(c2s).body.op = "SEEK",
           body.op = "BUSY" => waiting /\ Len(c2s) = 1,
           Truthful(body)'
    PROVE  CopyInv'
<1> DEFINE pkt == [seq |-> cur_pkt_out_seq, body |-> body, good |-> TRUE]
<1>1. /\ c2s' = Tail(c2s) /\ s2c' = Append(s2c, pkt)
      /\ UNCHANGED <<call, cur_pkt_seq, cur_pkt_recv_seq, connected, waiting>>
  BY DEF Download!Reply, Download!clientSeqs
<1>2. pkt \in Packets /\ pkt.body = body
  <2>1. cur_pkt_out_seq \in Int
    BY DEF CopyInv, CopyTypes, LinkTypes
  <2> QED
    BY <2>1 DEF Packets
<1> HIDE DEF pkt
<1>3. /\ c2s' \in Seq(Packets) /\ Len(c2s') = Len(c2s) - 1 /\ Len(c2s) \in Nat \ {0}
      /\ \A i \in 1 .. Len(c2s') : c2s'[i] = c2s[i + 1]
  BY <1>1, TailFacts DEF CopyInv, CopyTypes, LinkTypes
<1>4. /\ s2c' \in Seq(Packets) /\ Len(s2c') = Len(s2c) + 1 /\ Len(s2c) \in Nat
      /\ \A i \in 1 .. Len(s2c) : s2c'[i] = s2c[i]
      /\ s2c'[Len(s2c) + 1] = pkt
  BY <1>1, <1>2, AppendFacts DEF CopyInv, CopyTypes, LinkTypes
<1>5. \A i \in 1 .. Len(s2c') : i \in 1 .. Len(s2c) \/ i = Len(s2c) + 1
  BY <1>4
<1>6. \A i \in 1 .. Len(c2s') : i + 1 \in 1 .. Len(c2s)
  BY <1>3
<1>7. LinkTypes'
  BY <1>1, <1>3, <1>4 DEF CopyInv, CopyTypes, LinkTypes
<1>8. CopyTypes'
  BY <1>1, <1>7 DEF CopyInv, CopyTypes
<1>9. Prefix'
  BY DEF CopyInv, Prefix
<1>10. Progress'
  <2>1. ~(step = "read" /\ ~waiting)
    BY CopyHead
  <2> QED
    BY <1>1, <2>1 DEF CopyInv, Progress
<1>11. CASE step \in {"open", "size", "rewind", "read", "close"}
  <2>1. waiting /\ Len(c2s') = 0 /\ Len(s2c') = 1 /\ Len(s2c) = 0
    <3>1. waiting /\ Len(c2s) = 1 /\ s2c = <<>>
      BY <1>11, CopyHead
    <3> QED
      BY <1>3, <1>4, <3>1
  <2>2. Requests' /\ OwnRequest'
    BY <2>1 DEF Requests, OwnRequest
  <2>3. Replies'
    <3>1. \A i \in 1 .. Len(s2c') : s2c'[i].body = body
      BY <1>2, <1>4, <1>5, <2>1
    <3> QED
      BY <3>1 DEF Replies
  <2>4. Few'
    BY <2>1 DEF Few
  <2>5. OneExchange'
    BY <1>1, <1>11, <2>1, <2>2, <2>4 DEF OneExchange
  <2> QED
    BY <1>8, <1>9, <1>10, <2>2, <2>3, <2>5 DEF CopyInv
<1>12. CASE step \in {"reconnect", "back"}
  <2>1. \A i \in 1 .. Len(s2c) : s2c[i].body.op \notin {"SEEK", "BUSY"}
    BY <1>12, CopyHead
  <2>2. Requests'
    <3> SUFFICES ASSUME NEW i \in 1 .. Len(c2s') PROVE Harmless(c2s[i].body)'
      BY DEF Requests
    <3>1. Harmless(c2s[i + 1].body)
      BY <1>6 DEF CopyInv, Requests
    <3> QED
      BY <1>3, <1>12, <3>1 DEF Harmless
  <2>3. Replies'
    <3> SUFFICES ASSUME NEW i \in 1 .. Len(s2c') PROVE Truthful(s2c[i].body)'
      BY DEF Replies
    <3>1. CASE i \in 1 .. Len(s2c)
      BY <1>4, <1>12, <2>1, <3>1 DEF Truthful
    <3>2. CASE i = Len(s2c) + 1
      BY <1>2, <1>4, <3>2
    <3> QED
      BY <1>5, <3>1, <3>2
  <2>4. CASE step = "reconnect" \/ ~waiting
    <3>1. ~waiting /\ Few /\ OldRead
      BY <1>12, <2>4 DEF CopyInv, Progress, OneExchange
    <3>2. Few'
      BY <1>3, <1>4, <3>1 DEF Few
    <3>3. Head(c2s).body.op = "READ"
      <4>1. 1 \in 1 .. Len(c2s)
        BY <1>3
      <4> QED
        BY <3>1, <4>1, CopyHead DEF OldRead
    <3>4. body.op \notin {"SEEK", "BUSY"}
      BY <3>1, <3>3
    <3>5. \A i \in 1 .. Len(c2s') : c2s'[i].body.op = "READ"
      BY <1>3, <1>6, <3>1 DEF OldRead
    <3>6. \A i \in 1 .. Len(s2c') : s2c'[i].body.op \notin {"SEEK", "BUSY"}
      BY <1>2, <1>4, <1>5, <2>1, <3>4
    <3>7. OldRead'
      BY <3>5, <3>6 DEF OldRead
    <3>8. OneExchange'
      BY <1>1, <1>12, <3>1, <3>2, <3>7 DEF OneExchange
    <3> QED
      BY <1>8, <1>9, <1>10, <2>2, <2>3, <3>8 DEF CopyInv
  <2>5. CASE step = "back" /\ waiting
    <3>1. SeekLast
      BY <2>5 DEF CopyInv, OneExchange
    <3>2. body.op \in {"SEEK", "BUSY"} => Len(c2s) = 1
      <4>1. 1 \in 1 .. Len(c2s)
        BY <1>3
      <4>2. Head(c2s).body.op = "SEEK" => Len(c2s) = 1
        BY <3>1, <4>1, CopyHead DEF SeekLast
      <4> QED
        BY <4>2
    <3>3. body.op \in {"SEEK", "BUSY"} => c2s' = <<>>
      <4>1. Len(c2s) = 1 => Len(c2s') = 0
        BY <1>3
      <4> QED
        BY <1>3, <3>2, <4>1, EmptySeq
    <3>4. ASSUME NEW i \in 1 .. Len(c2s')
          PROVE  c2s'[i].body.op = IF i = Len(c2s') THEN "SEEK" ELSE "READ"
      <4>1. /\ c2s'[i] = c2s[i + 1] /\ i + 1 \in 1 .. Len(c2s)
            /\ i + 1 = Len(c2s) <=> i = Len(c2s')
        BY <1>3, <1>6
      <4> QED
        BY <3>1, <4>1 DEF SeekLast
    <3>5. ASSUME NEW i \in 1 .. Len(s2c'), s2c'[i].body.op \in {"SEEK", "BUSY"}
          PROVE  i = Len(s2c') /\ c2s' = <<>>
      <4>1. i = Len(s2c) + 1
        BY <1>4, <1>5, <2>1, <3>5
      <4>2. s2c'[i].body = body
        BY <1>2, <1>4, <4>1
      <4> QED
        BY <1>4, <3>3, <3>5, <4>1, <4>2
    <3>6. SeekLast'
      BY <3>4, <3>5 DEF SeekLast
    <3>7. OneExchange'
      BY <1>1, <2>5, <3>6 DEF OneExchange
    <3> QED
      BY <1>8, <1>9, <1>10, <2>2, <2>3, <3>7 DEF CopyInv
  <2> QED
    BY <1>12, <2>4, <2>5
<1>13. CASE step = "end"
  <2>1. ~waiting
    BY <1>13 DEF CopyInv, Progress
  <2>2. step' = "end" /\ waiting' = FALSE
    BY <1>1, <1>13, <2>1 DEF CopyInv, CopyTypes, LinkTypes
  <2> QED
    BY <1>8, <1>9, <1>10, <2>2, CopyOver
<1> QED
  BY <1>11, <1>12, <1>13 DEF CopyInv, CopyTypes, Steps

LEMMA CopyAnswer ==
    ASSUME CopyInv, c2s # <<>>, NEW body, Download!Answer(body)
    PROVE  /\ Download!Reply(body)
           /\ cur_pkt_in_seq' \in Int /\ cur_pkt_out_seq' \in Int
<1>1. Head(c2s).seq \in Int /\ cur_pkt_out_seq \in Int
  BY CopyHead DEF Packets, CopyInv, CopyTypes, LinkTypes
<1> QED
  BY <1>1, CopyNextInt DEF Download!Answer

\* A reply that says nothing of the file.
LEMMA CopyIdleAnswer ==
    ASSUME CopyInv, c2s # <<>>, NEW op, Download!Reply(Download!Body(op, 0)),
           cur_pkt_in_seq' \in Int, cur_pkt_out_seq' \in Int, is_open' \in BOOLEAN,
           UNCHANGED <<step, file_size, copy, result, pos, size>>,
           \/ op \in {"OPEN", "CLOSE", "ERROR", "MSDOS_ERROR"}
           \/ op = "BUSY" /\ waiting /\ Len(c2s) = 1
    PROVE  CopyInv'
<1> DEFINE body == Download!Body(op, 0)
<1>1. body.op = op /\ body.arg = 0 /\ body = [op |-> body.op, arg |-> body.arg]
  BY DEF Download!Body
<1>2. op \in Ops /\ op # "SEEK" /\ op # "READ"
  BY DEF Ops
<1>3. op = "BUSY" /\ step = "read" => pos = Len(copy)
  <2> SUFFICES ASSUME step = "read" PROVE pos = Len(copy)
    OBVIOUS
  <2>1. call = "READ"
    BY CallFacts DEF CopyInv, CopyTypes
  <2> QED
    BY <2>1, CopyHead DEF Harmless
<1>4. Truthful(body)'
  BY <1>1, <1>2, <1>3 DEF Truthful
<1>5. pos' \in Int
  BY DEF CopyInv, CopyTypes
<1> HIDE DEF body
<1>6. Download!Reply(body)
  BY DEF body
<1> QED
  BY <1>1, <1>2, <1>4, <1>5, <1>6, CopyServerStep

LEMMA CopyRefuse ==
    ASSUME CopyInv, c2s # <<>>, NEW cause, Download!Refuse(cause), is_open' \in BOOLEAN,
           UNCHANGED <<step, file_size, copy, result, pos, size>>
    PROVE  CopyInv'
<1>1. Download!Answer(Download!Body("MSDOS_ERROR", 0))
  BY DEF Download!Refuse
<1> QED
  BY <1>1, CopyAnswer, CopyIdleAnswer

\* Every refusal, of a request that does not validate too.
LEMMA CopyRefusal ==
    ASSUME CopyInv, Download!Reject \/ Download!Busy, CopyBusyInTime
    PROVE  CopyInv'
<1>1. CASE Download!Reject
  <2>1. /\ c2s # <<>> /\ Download!Reply(Download!Body("ERROR", 0)) /\ cur_pkt_out_seq' = -1
        /\ UNCHANGED <<cur_pkt_in_seq, step, file_size, copy, result, is_open, pos, size>>
    BY <1>1 DEF Download!Reject, Download!RejectRequest, Download!NoSeq,
       Download!clientVars, Download!fileVars
  <2>2. cur_pkt_in_seq' \in Int /\ cur_pkt_out_seq' \in Int /\ is_open' \in BOOLEAN
    BY <2>1 DEF CopyInv, CopyTypes, LinkTypes
  <2> QED
    BY <2>1, <2>2, CopyIdleAnswer
<1>2. CASE Download!Busy
  <2>1. /\ Download!Awaited /\ c2s # <<>> /\ Download!Answer(Download!Body("BUSY", 0))
        /\ UNCHANGED <<step, file_size, copy, result, is_open, pos, size>>
    BY <1>2 DEF Download!Busy, Download!AnswerBusy, CopyBusyInTime, Download!clientVars,
       Download!fileVars
  <2>2. waiting /\ Len(c2s) = 1 /\ is_open' \in BOOLEAN
    BY <2>1 DEF Download!Awaited, CopyInv, CopyTypes
  <2> QED
    BY <2>1, <2>2, CopyAnswer, CopyIdleAnswer
<1> QED
  BY <1>1, <1>2

LEMMA CopyOpen == ASSUME CopyInv, Download!Open PROVE CopyInv'
<1>1. /\ c2s # <<>> /\ Head(c2s).body = Download!Body("OPEN", 0)
      /\ UNCHANGED <<step, file_size, copy, result, size>>
  BY DEF Download!Open, Download!Request, Download!clientVars
<1>2. CASE Download!Answer(Download!Body("OPEN", 0)) /\ is_open' = TRUE /\ pos' = 0
  <2> DEFINE body == Download!Body("OPEN", 0)
  <2>1. body.op = "OPEN" /\ body.arg = 0 /\ body = [op |-> body.op, arg |-> body.arg]
    BY DEF Download!Body
  <2>2. Truthful(body)'
    BY <2>1 DEF Truthful
  <2>3. body.op \in Ops
    BY <2>1 DEF Ops
  <2>4. Download!Reply(body) /\ cur_pkt_in_seq' \in Int /\ cur_pkt_out_seq' \in Int
    BY <1>1, <1>2, CopyAnswer
  <2>5. is_open' \in BOOLEAN
    BY <1>2
  <2> HIDE DEF body
  <2> QED
    BY <1>1, <1>2, <2>1, <2>2, <2>3, <2>4, <2>5, CopyServerStep
<1>3. CASE Download!Refuse(FALSE) /\ is_open' = FALSE /\ pos' = pos
  <2>1. is_open' \in BOOLEAN
    BY <1>3
  <2> QED
    BY <1>1, <1>3, <2>1, CopyRefuse
<1> QED
  BY <1>2, <1>3 DEF Download!Open

LEMMA CopySeek == ASSUME CopyInv, Download!Seek PROVE CopyInv'
<1>1. UNCHANGED <<step, file_size, copy, result, is_open, size>> /\ is_open' \in BOOLEAN
  BY DEF Download!Seek, Download!clientVars, CopyInv, CopyTypes
<1>2. PICK n \in Download!ToEnd .. Chunks :
         /\ Download!Request("SEEK", n)
         /\ \/ /\ is_open
               /\ pos' = Download!SeekTo(n)
               /\ Download!Answer(Download!Body("SEEK", pos')) /\ UNCHANGED <<faults, busy>>
            \/ Download!Refuse(~is_open) /\ pos' = pos
  BY DEF Download!Seek
<1>3. c2s # <<>> /\ Head(c2s).body.op = "SEEK" /\ Head(c2s).body.arg = n
  BY <1>2 DEF Download!Request, Download!Body
<1>4. CASE pos' = Download!SeekTo(n) /\ Download!Answer(Download!Body("SEEK", pos'))
  <2>1. Download!SeekTo(n) \in Int
    <3>1. n \in Int /\ size \in Int
      BY SizeAssumption DEF Download!ToEnd, CopyInv, CopyTypes
    <3> QED
      BY <3>1 DEF Download!SeekTo
  <2>2. PICK place \in Int : place = Download!SeekTo(n)
    BY <2>1
  <2>3. /\ step = "size" => place = Chunks
        /\ step = "rewind" => place = 0
        /\ step = "back" => place = Len(copy)
    <3>1. /\ step = "size" => n = -1 /\ size = Chunks
          /\ step = "rewind" => n = 0
          /\ step = "back" => n = Len(copy)
      BY <1>3, CopyHead DEF Harmless, Download!ToEnd, CopyInv, Progress
    <3>2. Len(copy) \in Nat
      BY DEF CopyInv, CopyTypes
    <3> QED
      BY <2>2, <3>1, <3>2 DEF Download!SeekTo, Download!ToEnd
  <2> DEFINE body == Download!Body("SEEK", place)
  <2>4. body.op = "SEEK" /\ body.arg = place /\ body = [op |-> body.op, arg |-> body.arg]
    BY DEF Download!Body
  <2>5. pos' = place /\ Download!Answer(body)
    BY <1>4, <2>2
  <2> HIDE DEF body
  <2>6. Truthful(body)'
    <3>1. step' = step /\ copy' = copy
      BY <1>1
    <3>2. body' = body
      BY DEF body, Download!Body
    <3> QED
      BY <2>3, <2>4, <2>5, <3>1, <3>2 DEF Truthful
  <2>7. Download!Reply(body) /\ cur_pkt_in_seq' \in Int /\ cur_pkt_out_seq' \in Int
    BY <1>3, <2>5, CopyAnswer
  <2>8. body.op \in Ops /\ body.op # "BUSY" /\ body.arg \in Int
    BY <2>4 DEF Ops
  <2>9. pos' \in Int
    BY <2>5
  <2> QED
    BY <1>1, <1>3, <2>4, <2>6, <2>7, <2>8, <2>9, CopyServerStep
<1>5. CASE Download!Refuse(~is_open) /\ pos' = pos
  BY <1>1, <1>3, <1>5, CopyRefuse
<1> QED
  BY <1>2, <1>4, <1>5

LEMMA CopyRead == ASSUME CopyInv, Download!Read PROVE CopyInv'
<1>1. /\ c2s # <<>> /\ Head(c2s).body = Download!Body("READ", 0) /\ is_open' \in BOOLEAN
      /\ UNCHANGED <<step, file_size, copy, result, is_open, size>>
  BY DEF Download!Read, Download!Request, Download!clientVars, CopyInv, CopyTypes
<1>2. step = "read" => pos = Len(copy)
  BY <1>1, CopyHead DEF Harmless, Download!Body
<1>3. ASSUME NEW n \in Int, Download!Answer(Download!Body("READ", n)), pos' \in Int,
             n = 0 \/ (n = pos + 1 /\ pos' = pos + 1)
      PROVE  CopyInv'
  <2> DEFINE body == Download!Body("READ", n)
  <2>1. body.op = "READ" /\ body.arg = n /\ body = [op |-> body.op, arg |-> body.arg]
    BY DEF Download!Body
  <2>2. Truthful(body)'
    BY <1>1, <1>2, <1>3, <2>1 DEF Truthful
  <2>3. body.op \in Ops
    BY <2>1 DEF Ops
  <2>4. Download!Reply(body) /\ cur_pkt_in_seq' \in Int /\ cur_pkt_out_seq' \in Int
    BY <1>1, <1>3, CopyAnswer
  <2> HIDE DEF body
  <2> QED
    BY <1>1, <1>3, <2>1, <2>2, <2>3, <2>4, CopyServerStep
<1>4. pos \in Int /\ pos + 1 \in Int
  BY DEF CopyInv, CopyTypes
<1>5. CASE Download!Answer(Download!Body("READ", pos + 1)) /\ pos' = pos + 1
  BY <1>3, <1>4, <1>5
<1>6. CASE Download!Answer(Download!Body("READ", 0)) /\ pos' = pos
  BY <1>3, <1>4, <1>6
<1>7. CASE Download!Refuse(~is_open) /\ pos' = pos
  BY <1>1, <1>7, CopyRefuse
<1> QED
  BY <1>5, <1>6, <1>7 DEF Download!Read

LEMMA CopyClose == ASSUME CopyInv, Download!Close PROVE CopyInv'
<1>1. /\ c2s # <<>> /\ is_open' = FALSE
      /\ UNCHANGED <<step, file_size, copy, result, pos, size>>
      /\ Download!Answer(Download!Body("CLOSE", 0)) \/ Download!Refuse(TRUE)
  BY DEF Download!Close, Download!Request, Download!clientVars
<1>2. is_open' \in BOOLEAN
  BY <1>1
<1>3. CASE Download!Answer(Download!Body("CLOSE", 0))
  BY <1>1, <1>2, <1>3, CopyAnswer, CopyIdleAnswer
<1>4. CASE Download!Refuse(TRUE)
  BY <1>1, <1>2, <1>4, CopyRefuse
<1> QED
  BY <1>1, <1>3, <1>4

\* The file gets shorter only when its size has been read.
LEMMA CopyShrink == ASSUME CopyInv, Download!Shrink PROVE CopyInv'
<1>1. /\ step = "read" /\ size' \in Int
      /\ UNCHANGED <<c2s, s2c, call, cur_pkt_seq, cur_pkt_recv_seq, connected, waiting,
                     cur_pkt_in_seq, cur_pkt_out_seq>>
      /\ UNCHANGED <<step, file_size, copy, result, is_open, pos>>
  <2>1. size' \in 0 .. (size - 1) /\ size \in Int
    BY DEF Download!Shrink, CopyInv, CopyTypes
  <2>2. size' \in Int
    BY <2>1
  <2> QED
    BY <2>2 DEF Download!Shrink, Download!clientSeqs, Download!serverSeqs, Download!clientVars
<1>2. CopyTypes'
  BY <1>1 DEF CopyInv, CopyTypes, LinkTypes
<1>3. Progress' /\ Prefix'
  BY <1>1 DEF CopyInv, Progress, Prefix
<1>4. Requests' /\ Replies'
  BY <1>1 DEF CopyInv, Requests, Harmless, Replies, Truthful
<1>5. OneExchange'
  BY <1>1 DEF CopyInv, OneExchange, Clear, Few, OwnRequest, OldRead, SeekLast
<1> QED
  BY <1>2, <1>3, <1>4, <1>5 DEF CopyInv

\* A packet that is lost makes room, and what is said of the others stays true.
LEMMA CopyLine == ASSUME CopyInv, Download!Line PROVE CopyInv'
<1>1. /\ UNCHANGED <<call, cur_pkt_seq, cur_pkt_recv_seq, connected, waiting,
                     cur_pkt_in_seq, cur_pkt_out_seq>>
      /\ UNCHANGED <<step, file_size, copy, result, is_open, pos, size>>
      /\ Lost \/ Damaged
  BY DEF Download!Line, Download!Lose, Download!Damage, Lost, Damaged, Download!clientSeqs,
     Download!serverSeqs, Download!clientVars, Download!fileVars
<1>2. /\ c2s' \in Seq(Packets) /\ s2c' \in Seq(Packets)
      /\ \/ Shorter(c2s, c2s') /\ c2s # <<>> /\ s2c' = s2c
         \/ Shorter(s2c, s2c') /\ s2c # <<>> /\ c2s' = c2s
         \/ Alike(c2s, c2s') /\ Alike(s2c, s2c')
  BY <1>1, LineFacts DEF CopyInv, CopyTypes
<1>3. CopyTypes'
  BY <1>1, <1>2 DEF CopyInv, CopyTypes, LinkTypes
<1>4. Progress' /\ Prefix'
  BY <1>1 DEF CopyInv, Progress, Prefix
<1>5. c2s \in Seq(Packets) /\ s2c \in Seq(Packets) /\ Len(c2s) \in Nat /\ Len(s2c) \in Nat
  BY DEF CopyInv, CopyTypes, LinkTypes
<1>6. CASE Shorter(c2s, c2s') /\ c2s # <<>> /\ s2c' = s2c
  <2>1. /\ Len(c2s') = Len(c2s) - 1 /\ Len(c2s) \in Nat \ {0}
        /\ \A i \in 1 .. Len(c2s') : c2s'[i] = c2s[i + 1]
    BY <1>5, <1>6, EmptySeq DEF Shorter
  <2>2. \A i \in 1 .. Len(c2s') : i + 1 \in 1 .. Len(c2s)
    BY <2>1
  <2>3. Requests'
    BY <1>1, <2>1, <2>2 DEF CopyInv, Requests, Harmless
  <2>4. Replies'
    BY <1>1, <1>6 DEF CopyInv, Replies, Truthful
  <2>5. ~Clear /\ (Few => Few') /\ (OwnRequest => OwnRequest') /\ (OldRead => OldRead')
    <3>1. ~Clear
      BY <1>6 DEF Clear
    <3>2. Few => Few'
      BY <1>5, <1>6, <2>1 DEF Few
    <3>3. (OwnRequest => OwnRequest') /\ (OldRead => OldRead')
      BY <1>1, <1>6, <2>1, <2>2 DEF OwnRequest, OldRead
    <3> QED
      BY <3>1, <3>2, <3>3
  <2>6. ASSUME SeekLast PROVE SeekLast'
    <3>1. ASSUME NEW i \in 1 .. Len(c2s')
          PROVE  c2s'[i].body.op = IF i = Len(c2s') THEN "SEEK" ELSE "READ"
      <4>1. c2s[i + 1].body.op = IF i + 1 = Len(c2s) THEN "SEEK" ELSE "READ"
        BY <2>2, <2>6 DEF SeekLast
      <4> QED
        BY <2>1, <4>1
    <3>2. \A i \in 1 .. Len(s2c') : s2c'[i].body.op \notin {"SEEK", "BUSY"}
      BY <1>6, <2>6 DEF SeekLast
    <3> QED
      BY <3>1, <3>2 DEF SeekLast
  <2>7. OneExchange'
    BY <1>1, <2>5, <2>6 DEF CopyInv, OneExchange
  <2> QED
    BY <1>3, <1>4, <2>3, <2>4, <2>7 DEF CopyInv
<1>7. CASE Shorter(s2c, s2c') /\ s2c # <<>> /\ c2s' = c2s
  <2>1. /\ Len(s2c') = Len(s2c) - 1 /\ Len(s2c) \in Nat \ {0}
        /\ \A i \in 1 .. Len(s2c') : s2c'[i] = s2c[i + 1]
    BY <1>5, <1>7, EmptySeq DEF Shorter
  <2>2. \A i \in 1 .. Len(s2c') : i + 1 \in 1 .. Len(s2c)
    BY <2>1
  <2>3. Requests'
    BY <1>1, <1>7 DEF CopyInv, Requests, Harmless
  <2>4. Replies'
    BY <1>1, <2>1, <2>2 DEF CopyInv, Replies, Truthful
  <2>5. ~Clear /\ (Few => Few') /\ (OwnRequest => OwnRequest') /\ (OldRead => OldRead')
    <3>1. ~Clear
      BY <1>7 DEF Clear
    <3>2. Few => Few'
      BY <1>5, <1>7, <2>1 DEF Few
    <3>3. (OwnRequest => OwnRequest') /\ (OldRead => OldRead')
      BY <1>1, <1>7, <2>1, <2>2 DEF OwnRequest, OldRead
    <3> QED
      BY <3>1, <3>2, <3>3
  <2>6. ASSUME SeekLast PROVE SeekLast'
    <3>1. ASSUME NEW i \in 1 .. Len(s2c'), s2c'[i].body.op \in {"SEEK", "BUSY"}
          PROVE  i = Len(s2c') /\ c2s' = <<>>
      <4>1. i + 1 = Len(s2c) /\ c2s = <<>>
        BY <2>1, <2>2, <2>6, <3>1 DEF SeekLast
      <4>2. i = Len(s2c')
        BY <2>1, <4>1
      <4> QED
        BY <1>7, <4>1, <4>2
    <3> QED
      BY <1>7, <2>6, <3>1 DEF SeekLast
  <2>7. OneExchange'
    BY <1>1, <2>5, <2>6 DEF CopyInv, OneExchange
  <2> QED
    BY <1>3, <1>4, <2>3, <2>4, <2>7 DEF CopyInv
<1>8. CASE Alike(c2s, c2s') /\ Alike(s2c, s2c')
  <2>1. /\ Len(c2s') = Len(c2s) /\ \A i \in 1 .. Len(c2s) : c2s'[i].body = c2s[i].body
        /\ Len(s2c') = Len(s2c) /\ \A i \in 1 .. Len(s2c) : s2c'[i].body = s2c[i].body
    BY <1>8 DEF Alike
  <2>2. Requests' /\ Replies'
    BY <1>1, <2>1 DEF CopyInv, Requests, Harmless, Replies, Truthful
  <2>3. c2s = <<>> => c2s' = <<>>
    BY <1>2, <2>1, EmptySeq
  <2>4. s2c = <<>> => s2c' = <<>>
    BY <1>2, <2>1, EmptySeq
  <2>5. (Clear => Clear') /\ (Few => Few')
    BY <2>1, <2>3, <2>4 DEF Clear, Few
  <2>6. (OwnRequest => OwnRequest') /\ (OldRead => OldRead')
    BY <1>1, <2>1 DEF OwnRequest, OldRead
  <2>7. SeekLast => SeekLast'
    BY <2>1, <2>3 DEF SeekLast
  <2>8. OneExchange'
    BY <1>1, <2>5, <2>6, <2>7 DEF CopyInv, OneExchange
  <2> QED
    BY <1>3, <1>4, <2>2, <2>8 DEF CopyInv
<1> QED
  BY <1>2, <1>6, <1>7, <1>8

LEMMA CopyStep == ASSUME CopyInv, CopyBusyInTime, Download!Next PROVE CopyInv'
<1>1. CASE Download!Client
  BY <1>1, CopySend, CopyReceive, CopyNoReply, CopyReconnect DEF Download!Client
<1>2. CASE Download!Server
  BY <1>2, CopyOpen, CopySeek, CopyRead, CopyClose, CopyRefusal DEF Download!Server
<1>3. CASE Download!Shrink \/ Download!Line
  BY <1>3, CopyShrink, CopyLine
<1> QED
  BY <1>1, <1>2, <1>3 DEF Download!Next

-----------------------------------------------------------------------------
(* All of them: each keeps its own invariant, and leaves the variables of  *)
(* the others alone.                                                       *)

DirPart  == IF cmd = "dir" THEN DirInv ELSE NoDir
DumpPart == IF cmd = "memdump" THEN DumpInv ELSE NoDump
CopyPart == cmd = "download" => CopyInv

LEMMA WhichStep ==
    ASSUME Next
    PROVE  /\ cmd' = cmd
           /\ \/ cmd = "dir" /\ Dir!Next /\ UNCHANGED <<dump, copy, result>>
              \/ cmd = "memdump" /\ Memdump!Next
                 /\ UNCHANGED <<listed, r, next, copy, result>>
              \/ cmd = "download" /\ Download!Next /\ UNCHANGED <<listed, r, next, dump>>
BY DEF Next, Client, Server, World, Only, dirVars, copyVars, Dir!Next, Memdump!Next,
   Download!Next

LEMMA Stutter ==
    ASSUME UNCHANGED vars
    PROVE  /\ UNCHANGED <<cmd, c2s, s2c, call, cur_pkt_seq, cur_pkt_recv_seq, connected,
                          waiting, cur_pkt_in_seq, cur_pkt_out_seq, faults, busy>>
           /\ UNCHANGED <<listed, r, next, dump>>
           /\ UNCHANGED <<step, file_size, copy, result, is_open, pos, size>>
BY DEF vars, linkVars, dirVars, copyVars

LEMMA DirHolds == FewFaults => (Spec => []DirPart)
<1> SUFFICES ASSUME FewFaults PROVE Spec => []DirPart
  OBVIOUS
<1>1. Init => DirPart
  BY DirInit DEF Init, DirPart
<1>2. DirPart /\ [Next]_vars => DirPart'
  <2> SUFFICES ASSUME DirPart, [Next]_vars PROVE DirPart'
    OBVIOUS
  <2>1. CASE Next
    BY <2>1, WhichStep, DirStep DEF DirPart, NoDir
  <2>2. CASE UNCHANGED vars
    <3>1. DirTypes => DirTypes'
      BY <2>2, Stutter DEF DirTypes, LinkTypes
    <3>2. (Asked => Asked') /\ (Chained => Chained')
      BY <2>2, Stutter DEF Asked, Chained
    <3>3. ASSUME NEW n, Stream(n) PROVE Stream(n)'
      BY <2>2, <3>3, Stutter DEF Stream
    <3>4. ASSUME NEW d, FirstIs(d) PROVE FirstIs(d)'
      BY <2>2, <3>4, Stutter DEF FirstIs, First
    <3>5. Listing => Listing'
      <4> SUFFICES ASSUME Listing PROVE Listing'
        OBVIOUS
      <4>1. PICK d \in 0 .. faults : Stream(listed[Len(listed)] + d) /\ FirstIs(d)
        BY DEF Listing
      <4>2. Stream(listed[Len(listed)] + d)'
        BY <2>2, <4>1, Stutter DEF Stream
      <4> QED
        BY <2>2, <3>2, <3>4, <4>1, <4>2, Stutter DEF Listing
    <3>6. Dir!NoGap => Dir!NoGap'
      BY <2>2, Stutter DEF Dir!NoGap
    <3>7. Dir!FinishedMeansToTheEnd => Dir!FinishedMeansToTheEnd'
      BY <2>2, Stutter DEF Dir!FinishedMeansToTheEnd
    <3>8. (\E n \in Nat : Stream(n)) => (\E n \in Nat : Stream(n)')
      BY <3>3
    <3>9. DirInv => DirInv'
      BY <2>2, <3>1, <3>2, <3>5, <3>6, <3>7, <3>8, Stutter DEF DirInv
    <3> QED
      BY <2>2, <3>9, Stutter DEF DirPart, NoDir
  <2> QED
    BY <2>1, <2>2
<1> QED
  BY <1>1, <1>2, PTL DEF Spec

LEMMA DumpHolds == DumpInTime => (Spec => []DumpPart)
<1> SUFFICES ASSUME DumpInTime PROVE Spec => []DumpPart
  OBVIOUS
<1>1. Init => DumpPart
  BY DumpInit DEF Init, DumpPart
<1>2. DumpPart /\ [Next]_vars => DumpPart'
  <2> SUFFICES ASSUME DumpPart, [Next]_vars PROVE DumpPart'
    OBVIOUS
  <2>1. CASE Next
    BY <2>1, WhichStep, DumpStep DEF DumpPart, NoDump
  <2>2. CASE UNCHANGED vars
    BY <2>2, Stutter DEF DumpPart, NoDump, DumpInv, LinkTypes, Block, Memdump!DumpIsMemory
  <2> QED
    BY <2>1, <2>2
<1> QED
  BY <1>1, <1>2, PTL DEF Spec

LEMMA CopyHolds == CopyBusyInTime => (Spec => []CopyPart)
<1> SUFFICES ASSUME CopyBusyInTime PROVE Spec => []CopyPart
  OBVIOUS
<1>1. Init => CopyPart
  BY CopyInit DEF Init, CopyPart
<1>2. CopyPart /\ [Next]_vars => CopyPart'
  <2> SUFFICES ASSUME CopyPart, [Next]_vars PROVE CopyPart'
    OBVIOUS
  <2>1. CASE Next
    BY <2>1, WhichStep, CopyStep DEF CopyPart
  <2>2. CASE UNCHANGED vars
    <3>1. (CopyTypes => CopyTypes') /\ (Progress => Progress') /\ (Prefix => Prefix')
      BY <2>2, Stutter DEF CopyTypes, LinkTypes, Progress, Prefix
    <3>2. (Requests => Requests') /\ (Replies => Replies')
      BY <2>2, Stutter DEF Requests, Harmless, Replies, Truthful
    <3>3. OneExchange => OneExchange'
      BY <2>2, Stutter DEF OneExchange, Clear, Few, OwnRequest, OldRead, SeekLast
    <3> QED
      BY <2>2, <3>1, <3>2, <3>3, Stutter DEF CopyPart, CopyInv
  <2> QED
    BY <2>1, <2>2
<1> QED
  BY <1>1, <1>2, PTL DEF Spec

\* However many packets are lost or damaged, what is listed has no gap and
\* nothing twice, as long as they are fewer than the sequence numbers.
THEOREM ListingHasNoGap == FewFaults => (Spec => []NoGap)
<1> SUFFICES ASSUME FewFaults PROVE Spec => []NoGap
  OBVIOUS
<1>1. DirPart => NoGap
  BY DEF DirPart, DirInv, NoDir, NoGap, Dir!NoGap
<1> QED
  BY <1>1, DirHolds, PTL

\* A listing that ends without an error message (do_next_dir() has returned 0)
\* goes on to the last entry, if DOS finds all there is; of one that was cut
\* short, which main() calls done as well, nothing is said.
THEOREM ListingIsComplete == FewFaults /\ DosFinds => (Spec => []FinishedMeansToTheEnd)
<1> SUFFICES ASSUME FewFaults, DosFinds PROVE Spec => []FinishedMeansToTheEnd
  OBVIOUS
<1>1. DirPart => FinishedMeansToTheEnd
  BY DEF DirPart, DirInv, NoDir, FinishedMeansToTheEnd, Dir!FinishedMeansToTheEnd
<1> QED
  BY <1>1, DirHolds, PTL

\* Every block of a dump is the one of memory in that place, as long as no
\* reply comes after the client has stopped waiting for it.
THEOREM DumpIsTrue == DumpInTime => (Spec => []DumpIsMemory)
<1> SUFFICES ASSUME DumpInTime PROVE Spec => []DumpIsMemory
  OBVIOUS
<1>1. DumpPart => DumpIsMemory
  BY DEF DumpPart, DumpInv, NoDump, DumpIsMemory, Memdump!DumpIsMemory
<1> QED
  BY <1>1, DumpHolds, PTL

\* What a step of the client of a download does to its copy and to what the
\* user has been told: the next chunk, or the end, or nothing.
LEMMA ClientCopies ==
    ASSUME CopyInv, Download!Client
    PROVE  \/ UNCHANGED <<copy, result>>
           \/ result = "none" /\ copy' = copy
           \/ /\ result = "none" /\ result' = result /\ Len(copy) < Chunks
              /\ \E n \in Int : copy' = Append(copy, n)
<1>1. CASE Download!SendRequest
  BY <1>1 DEF Download!SendRequest, Download!clientVars
<1>2. CASE Download!NoReply \/ Download!Reconnect
  <2>1. copy' = copy
    BY <1>2 DEF Download!NoReply, Download!Fail, Download!Reconnect
  <2>2. step # "end"
    BY <1>2 DEF Download!NoReply, Download!Refused, Download!TimedOut,
       Download!TimedOutUnless, Download!Reconnect, CopyInv, Progress
  <2> QED
    BY <2>1, <2>2 DEF CopyInv, Progress
<1>3. CASE Download!Receive
  <2> DEFINE n == Download!TheReply.arg
  <2>1. result = "none" /\ n \in Int
    BY <1>3, CopyReceivedFacts DEF Download!Receive
  <2>2. Download!ReceiveReply(Download!TheReply)
    BY <1>3 DEF Download!Receive
  <2>3. \/ copy' = copy
        \/ step = "read" /\ Download!Got(n)
    BY <2>2 DEF Download!ReceiveReply, Download!Succeed, Download!Fail, Download!clientVars
  <2> HIDE DEF n
  <2>4. ASSUME step = "read", Download!Got(n), copy' # copy
        PROVE  result' = result /\ Len(copy) < Chunks /\ copy' = Append(copy, n)
    BY <2>4 DEF Download!Got, Download!Loop, Download!GoTo, CopyInv, Progress
  <2> QED
    BY <2>1, <2>3, <2>4
<1> QED
  BY <1>1, <1>2, <1>3 DEF Download!Client

LEMMA DownloadExtends ==
    ASSUME CopyInv, CopyInv', Download!Next
    PROVE  Download!Copy!Next \/ UNCHANGED <<copy, result>>
<1>1. Chunks \in Nat /\ copy \in Seq(Nat) /\ Len(copy) \in Nat
  BY SizeAssumption DEF CopyInv, CopyTypes
<1>2. CASE ~Download!Client
  BY <1>2 DEF Download!Next, Download!Server, Download!Open, Download!Seek, Download!Read,
     Download!Close, Download!Busy, Download!Reject, Download!Shrink, Download!Line,
     Download!clientVars
<1>3. CASE result = "none" /\ copy' = copy /\ result' # result
  <2>1. result' \in Download!Copy!Results \ {"none"}
    BY <1>3 DEF CopyInv, CopyTypes
  <2>2. result' = "OK" => copy = Download!Copy!Original
    <3> SUFFICES ASSUME result' = "OK" PROVE copy = Download!Copy!Original
      OBVIOUS
    <3>1. Len(copy) = Chunks
      BY <1>3 DEF CopyInv, Progress
    <3>2. \A n \in 1 .. Chunks : copy[n] = n
      BY <3>1 DEF CopyInv, Prefix
    <3>3. copy = [n \in 1 .. Chunks |-> n]
      BY <1>1, <3>1, <3>2
    <3> QED
      BY <3>3 DEF Download!Copy!Original
  <2> QED
    BY <1>3, <2>1, <2>2 DEF Download!Copy!Next, Download!Copy!Conclude
<1>4. CASE /\ result = "none" /\ result' = result /\ Len(copy) < Chunks
           /\ \E n \in Int : copy' = Append(copy, n)
  <2>1. PICK n \in Int : copy' = Append(copy, n)
    BY <1>4
  <2>2. Len(copy') = Len(copy) + 1 /\ copy'[Len(copy) + 1] = n
    BY <1>1, <2>1
  <2>3. n = Len(copy) + 1
    <3>1. Len(copy) + 1 \in 1 .. Len(copy')
      BY <1>1, <2>2
    <3>2. copy'[Len(copy) + 1] = Len(copy) + 1
      BY <3>1 DEF CopyInv, Prefix
    <3> QED
      BY <2>2, <3>2
  <2> QED
    BY <1>4, <2>1, <2>3 DEF Download!Copy!Next, Download!Copy!Extend
<1> QED
  BY <1>2, <1>3, <1>4, ClientCopies

\* Download implements FileCopy: the output file is at any time the beginning
\* of the file, grows by one chunk at a time, and is the file when the user is
\* told so.  The other commands have nothing to do with it.
THEOREM DownloadIsACopy == CopyBusyInTime => (Spec => DownloadCopies)
<1> SUFFICES ASSUME CopyBusyInTime PROVE Spec => DownloadCopies
  OBVIOUS
<1>1. Init => Download!Copy!Init
  BY DEF Init, NoCopy, Download!Init, Download!Copy!Init
<1>2. CopyPart /\ CopyPart' /\ [Next]_vars => [Download!Copy!Next]_<<copy, result>>
  <2> SUFFICES ASSUME CopyPart, CopyPart', [Next]_vars
               PROVE  Download!Copy!Next \/ UNCHANGED <<copy, result>>
    OBVIOUS
  <2>1. CASE UNCHANGED vars
    BY <2>1, Stutter
  <2>2. CASE Next
    BY <2>2, WhichStep, DownloadExtends DEF CopyPart
  <2> QED
    BY <2>1, <2>2
<1> QED
  BY <1>1, <1>2, CopyHolds, PTL DEF Spec, DownloadCopies, Download!CopySpec,
     Download!Copy!Spec

=============================================================================
