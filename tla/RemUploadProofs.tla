-------------------------- MODULE RemUploadProofs --------------------------
(***************************************************************************)
(* Upload, for every file, every disk, every number of faults and every    *)
(* count of sequence numbers: it implements FileCopy as long as no answer  *)
(* that is late says BUSY.  It does not depend on the sequence numbers:    *)
(* the client goes on only when nothing of an earlier exchange is left on  *)
(* the line, because the one command it sends after a failure, SEEK, ends  *)
(* the upload if anything but its own reply comes back.                    *)
(***************************************************************************)
EXTENDS RemUpload, TLAPS

\* A late answer is never BUSY; RemUpload_doubled shows what it does.
BusyInTime == "busylate" \notin Faults

Asks    == {"CREATE", "WRITE", "SEEK", "CLOSE"}
Packets == [seq : Int, good : BOOLEAN,
            body : [op : Asks \cup {"BUSY", "ERROR", "MSDOS_ERROR"}, arg : Int]]

Types ==
    /\ c2s \in Seq(Packets) /\ s2c \in Seq(Packets)
    /\ cur_pkt_seq \in Int /\ cur_pkt_recv_seq \in Int
    /\ cur_pkt_in_seq \in Int /\ cur_pkt_out_seq \in Int
    /\ connected \in BOOLEAN /\ waiting \in BOOLEAN /\ is_open \in BOOLEAN
    /\ call \in Asks \cup {"RECONNECT", "END"}
    /\ result \in Copy!Results
    /\ count \in 0 .. Chunks /\ pos \in Nat /\ file \in Seq(Nat)

\* What the client has come to.
Progress ==
    /\ waiting => call \in Asks
    /\ call = "END" <=> result # "none"
    /\ result = "OK" => count = Chunks
    /\ call = "CREATE" => count = 0 /\ file = <<>>
    /\ call = "WRITE" => count < Chunks
    /\ call = "WRITE" /\ ~waiting => pos = count

\* The destination is the beginning of the source, at most one chunk ahead of
\* what the client knows of.
Prefix ==
    /\ Len(file) \in count .. count + 1 /\ Len(file) <= Chunks
    /\ \A n \in 1 .. Len(file) : file[n] = n

\* Requests that are still to be handled do no harm, however late they are.
Harmless(i, body) ==
    /\ body.op \in Asks
    /\ body.op = "CREATE" => Len(c2s) = 1 /\ file = <<>> /\ count = 0
    /\ body.op = "WRITE"  => i = 1 /\ body.arg = count + 1 /\ pos = count
    /\ body.op = "WRITE"  => count < Chunks
    /\ body.op = "SEEK"   => body.arg = count
    /\ body.op \in {"CREATE", "WRITE"} => result # "OK"

Requests == \A i \in 1 .. Len(c2s) : Harmless(i, c2s[i].body)

\* What a reply that the client takes for its own says is so.
Truthful(body) ==
    /\ call = "CREATE" /\ body.op = "CREATE" => pos = 0
    /\ call = "WRITE" /\ body.op = "WRITE" =>
           body.arg = 0 \/ (pos = count + 1 /\ Len(file) = count + 1)
    /\ call = "WRITE" /\ body.op = "BUSY" => pos = count
    /\ call = "SEEK" /\ body.op = "SEEK" => body.arg = count /\ pos = count

Replies == \A i \in 1 .. Len(s2c) : Truthful(s2c[i].body)

\* What is on the line: nothing; one packet; the request of the command being
\* carried out; what is left of a WRITE that was given up; that, and behind it
\* the SEEK that follows or the reply to it.
Clear      == c2s = <<>> /\ s2c = <<>>
Few        == Len(c2s) + Len(s2c) <= 1
OwnRequest == \A i \in 1 .. Len(c2s) : c2s[i].body.op = call
OldWrite   == /\ \A i \in 1 .. Len(c2s) : c2s[i].body.op = "WRITE"
              /\ \A i \in 1 .. Len(s2c) : s2c[i].body.op \notin {"SEEK", "BUSY"}
SeekLast ==
    /\ \A i \in 1 .. Len(c2s) : c2s[i].body.op = IF i = Len(c2s) THEN "SEEK" ELSE "WRITE"
    /\ \A i \in 1 .. Len(s2c) :
           s2c[i].body.op \in {"SEEK", "BUSY"} => i = Len(s2c) /\ c2s = <<>>

OneExchange ==
    /\ call \in {"CREATE", "WRITE", "CLOSE"} /\ ~waiting => Clear
    /\ call \in {"CREATE", "WRITE", "CLOSE"} /\ waiting => Few /\ OwnRequest
    /\ call = "RECONNECT" \/ (call = "SEEK" /\ ~waiting) => Few /\ OldWrite
    /\ call = "SEEK" /\ waiting => SeekLast

Inv == Types /\ Progress /\ Prefix /\ Requests /\ Replies /\ OneExchange

-----------------------------------------------------------------------------
(* Sequences and packets.                                                  *)

LEMMA TailFacts ==
    ASSUME NEW S, NEW s \in Seq(S), s # <<>>
    PROVE  /\ Head(s) = s[1] /\ Head(s) \in S /\ Len(s) \in Nat \ {0}
           /\ Tail(s) \in Seq(S) /\ Len(Tail(s)) = Len(s) - 1
           /\ \A i \in 1 .. Len(Tail(s)) : Tail(s)[i] = s[i + 1]
OBVIOUS

LEMMA AppendFacts ==
    ASSUME NEW S, NEW s \in Seq(S), NEW e \in S
    PROVE  /\ Append(s, e) \in Seq(S) /\ Len(Append(s, e)) = Len(s) + 1
           /\ \A i \in 1 .. Len(s) : Append(s, e)[i] = s[i]
           /\ Append(s, e)[Len(s) + 1] = e
OBVIOUS

LEMMA EmptySeq == ASSUME NEW S, NEW s \in Seq(S), Len(s) = 0 PROVE s = <<>>
OBVIOUS

LEMMA NextSeqInt == ASSUME NEW seq \in Int PROVE NextSeq(seq) \in Int
BY SeqAssumption DEF NextSeq

LEMMA InvInit == Init => Inv
<1> SUFFICES ASSUME Init PROVE Inv
  OBVIOUS
<1>1. Types
  <2>1. Chunks \in Nat /\ SeqMod \in Nat /\ 0 \in 0 .. Chunks
    BY SeqAssumption, SizeAssumption
  <2>2. cur_pkt_in_seq \in Int /\ cur_pkt_out_seq \in Int
    BY <2>1 DEF Init, LinkInit, NoSeq
  <2>3. c2s \in Seq(Packets) /\ s2c \in Seq(Packets) /\ file \in Seq(Nat)
    BY DEF Init, LinkInit
  <2>6. connected \in BOOLEAN /\ waiting \in BOOLEAN /\ is_open \in BOOLEAN
    BY DEF Init, LinkInit
  <2>4. /\ cur_pkt_seq \in Int /\ cur_pkt_recv_seq \in Int
        /\ count \in 0 .. Chunks /\ pos \in Nat
    BY <2>1 DEF Init, LinkInit, NoSeq
  <2>5. call \in Asks \cup {"RECONNECT", "END"} /\ result \in Copy!Results
    BY DEF Init, Asks, Copy!Results
  <2> QED
    BY <2>2, <2>3, <2>4, <2>5, <2>6 DEF Types
<1>2. Progress /\ Prefix
  BY SizeAssumption DEF Init, LinkInit, Progress, Prefix
<1>3. Requests /\ Replies /\ OneExchange
  BY DEF Init, LinkInit, Requests, Replies, OneExchange, Clear, Few, OwnRequest, OldWrite, SeekLast
<1> QED
  BY <1>1, <1>2, <1>3 DEF Inv

-----------------------------------------------------------------------------
(* The client.                                                             *)

LEMMA SendStep == ASSUME Inv, SendRequest PROVE Inv'
<1> DEFINE pkt == [seq |-> cur_pkt_seq, body |-> Body(call, Arg), good |-> TRUE]
<1>1. /\ call \in Asks /\ ~waiting /\ waiting' = TRUE /\ c2s' = Append(c2s, pkt)
      /\ cur_pkt_seq' = NextSeq(cur_pkt_seq)
      /\ UNCHANGED <<s2c, call, cur_pkt_recv_seq, connected, serverSeqs, clientVars, fileVars>>
  BY DEF SendRequest, Send, Asks
<1>2. Arg \in Int /\ (call = "WRITE" => Arg = count + 1) /\ (call = "SEEK" => Arg = count)
  BY DEF Arg, Inv, Types
<1>3. pkt \in Packets /\ pkt.body.op = call /\ pkt.body.arg = Arg
  BY <1>1, <1>2 DEF Packets, Body, Inv, Types
<1> HIDE DEF pkt
<1>4. /\ c2s' \in Seq(Packets) /\ Len(c2s') = Len(c2s) + 1
      /\ \A i \in 1 .. Len(c2s) : c2s'[i] = c2s[i]
      /\ c2s'[Len(c2s) + 1] = pkt
  BY <1>1, <1>3, AppendFacts DEF Inv, Types
<1>5. Types'
  BY <1>1, <1>4, NextSeqInt DEF Inv, Types, clientVars, fileVars, serverSeqs
<1>6. Progress' /\ Prefix' /\ Replies'
  BY <1>1 DEF Inv, Progress, Prefix, Replies, Truthful, clientVars, fileVars
<1>7. Requests'
  <2> SUFFICES ASSUME NEW i \in 1 .. Len(c2s') PROVE Harmless(i, c2s[i].body)'
    BY DEF Requests
  <2>1. CASE i \in 1 .. Len(c2s)
    <3>1. call = "SEEK" /\ c2s[i].body.op = "WRITE"
      BY <1>1, <2>1 DEF Inv, Types, OneExchange, Clear, Few, OwnRequest, OldWrite, SeekLast, Asks
    <3>2. Harmless(i, c2s[i].body)
      BY <2>1 DEF Inv, Requests
    <3> QED
      BY <1>1, <1>4, <2>1, <3>1, <3>2 DEF Harmless, clientVars, fileVars
  <2>2. CASE i = Len(c2s) + 1
    <3>1. call # "SEEK" => Len(c2s) = 0
      BY <1>1 DEF Inv, OneExchange, Clear, Few, OwnRequest, OldWrite, SeekLast, Asks
    <3>2. result = "none"
      BY <1>1 DEF Inv, Progress, Types, Asks
    <3> QED
      BY <1>1, <1>2, <1>3, <1>4, <2>2, <3>1, <3>2
         DEF Inv, Progress, Harmless, clientVars, fileVars
  <2> QED
    BY <1>4, <2>1, <2>2 DEF Inv, Types
<1>8. OneExchange'
  <2>1. CASE call = "SEEK"
    BY <1>1, <1>3, <1>4, <2>1 DEF Inv, OneExchange, Clear, Few, OwnRequest, OldWrite, SeekLast, Types
  <2>2. CASE call # "SEEK"
    <3>1. Len(c2s) = 0 /\ Len(s2c) = 0
      BY <1>1, <2>2 DEF Inv, OneExchange, Clear, Few, OwnRequest, OldWrite, SeekLast, Asks
    <3> QED
      BY <1>1, <1>3, <1>4, <2>2, <3>1 DEF OneExchange, Clear, Few, OwnRequest, OldWrite, SeekLast, Asks
  <2> QED
    BY <2>1, <2>2
<1> QED
  BY <1>5, <1>6, <1>7, <1>8 DEF Inv

\* A line with nothing on it suits every place in the command.
LEMMA ClearStep ==
    ASSUME Types', Progress', Prefix', c2s' = <<>>, s2c' = <<>>, waiting' = FALSE
    PROVE  Inv'
<1>1. Requests' /\ Replies' /\ OneExchange'
  BY DEF Requests, Replies, OneExchange, Clear, Few, OwnRequest, OldWrite, SeekLast
<1> QED
  BY <1>1 DEF Inv

\* Giving up, whatever is left on the line.
LEMMA GiveUpStep ==
    ASSUME Inv, call # "END", call' = "END", result' = "failed", waiting' = FALSE,
           s2c' \in Seq(Packets), connected' \in BOOLEAN,
           cur_pkt_seq' \in Int, cur_pkt_recv_seq' \in Int,
           UNCHANGED <<c2s, serverSeqs, count, fileVars>>
    PROVE  Inv'
<1>1. Types'
  BY DEF Inv, Types, fileVars, serverSeqs, Copy!Results
<1>2. Progress' /\ Prefix' /\ Replies' /\ OneExchange'
  BY DEF Inv, Progress, Prefix, Replies, Truthful, OneExchange, Clear, Few, OwnRequest, OldWrite, SeekLast, fileVars
<1>3. Requests'
  BY DEF Inv, Requests, Harmless, fileVars
<1> QED
  BY <1>1, <1>2, <1>3 DEF Inv

LEMMA ReceivedFacts ==
    ASSUME Inv, Received
    PROVE  /\ call \in Asks /\ call # "END" /\ waiting' = FALSE
           /\ UNCHANGED <<c2s, cur_pkt_seq, connected, serverSeqs>>
           /\ s2c' \in Seq(Packets) /\ cur_pkt_recv_seq' \in Int
           /\ TheReply.arg \in Int /\ Truthful(TheReply)
           /\ call # "SEEK" \/ TheReply.op \in {"SEEK", "BUSY"} =>
                  c2s' = <<>> /\ s2c' = <<>>
<1>1. /\ waiting /\ s2c # <<>> /\ s2c' = Tail(s2c) /\ waiting' = FALSE
      /\ cur_pkt_recv_seq' = NextSeq(Head(s2c).seq)
      /\ UNCHANGED <<c2s, cur_pkt_seq, connected, serverSeqs>>
  BY DEF Received
<1>2. /\ Head(s2c) = s2c[1] /\ Head(s2c) \in Packets /\ Len(s2c) \in Nat \ {0}
      /\ s2c' \in Seq(Packets) /\ Len(s2c') = Len(s2c) - 1
  BY <1>1, TailFacts DEF Inv, Types
<1>3. call \in Asks /\ call # "END"
  BY <1>1 DEF Inv, Progress, Asks
<1>4. TheReply = s2c[1].body /\ TheReply.arg \in Int /\ Truthful(TheReply)
  BY <1>2 DEF TheReply, Packets, Inv, Replies
<1>5. cur_pkt_recv_seq' \in Int
  BY <1>1, <1>2, NextSeqInt DEF Packets
<1>6. ASSUME call # "SEEK" \/ TheReply.op \in {"SEEK", "BUSY"}
      PROVE  c2s' = <<>> /\ s2c' = <<>>
  <2>1. c2s \in Seq(Packets) /\ Len(c2s) \in Nat
    BY DEF Inv, Types
  <2>2. Len(c2s) = 0 /\ Len(s2c) = 1
    <3>1. CASE call # "SEEK"
      <4>1. Len(c2s) + Len(s2c) <= 1
        BY <1>1, <1>3, <3>1 DEF Inv, OneExchange, Clear, Few, OwnRequest, OldWrite, SeekLast, Asks
      <4> QED
        BY <1>2, <2>1, <4>1
    <3>2. CASE call = "SEEK"
      <4>1. 1 \in 1 .. Len(s2c) /\ s2c[1].body.op \in {"SEEK", "BUSY"}
        BY <1>2, <1>4, <1>6, <3>2
      <4>2. 1 = Len(s2c) /\ c2s = <<>>
        BY <1>1, <3>2, <4>1 DEF Inv, OneExchange, Clear, Few, OwnRequest, OldWrite, SeekLast
      <4> QED
        BY <4>2
    <3> QED
      BY <3>1, <3>2
  <2> QED
    BY <1>1, <1>2, <2>1, <2>2
<1> QED
  BY <1>1, <1>2, <1>3, <1>4, <1>5, <1>6

LEMMA ReceiveStep == ASSUME Inv, Receive PROVE Inv'
<1>1. Received /\ ReceiveReply(TheReply) /\ UNCHANGED fileVars
  BY DEF Receive
<1>2. /\ call \in Asks /\ call # "END" /\ waiting' = FALSE
      /\ UNCHANGED <<c2s, cur_pkt_seq, connected, serverSeqs, fileVars>>
      /\ s2c' \in Seq(Packets) /\ cur_pkt_recv_seq' \in Int
      /\ TheReply.arg \in Int /\ Truthful(TheReply)
      /\ call # "SEEK" \/ TheReply.op \in {"SEEK", "BUSY"} =>
             c2s' = <<>> /\ s2c' = <<>>
  BY <1>1, ReceivedFacts
<1>3. result = "none"
  BY <1>2 DEF Inv, Progress
<1>4. ASSUME count' \in 0 .. Chunks, call' \in Asks \cup {"RECONNECT", "END"},
             result' \in Copy!Results
      PROVE  Types'
  BY <1>2, <1>4 DEF Inv, Types, fileVars, serverSeqs
<1>5. CASE TheReply.op = "BUSY"
  <2>1. UNCHANGED <<call, clientVars>>
    BY <1>1, <1>5 DEF ReceiveReply
  <2>2. Types'
    BY <1>4, <2>1 DEF clientVars, Inv, Types
  <2>3. Progress' /\ Prefix'
    BY <1>2, <1>5, <2>1 DEF Inv, Progress, Prefix, Truthful, clientVars, fileVars
  <2> QED
    BY <1>2, <1>5, <2>2, <2>3, ClearStep
<1>6. CASE TheReply.op # "BUSY" /\ TheReply.op = call
  <2>1. Succeed(TheReply.arg)
    BY <1>1, <1>6 DEF ReceiveReply
  <2> DEFINE n == TheReply.arg
  <2>2. CASE call = "CREATE" /\ count' = count /\ GoOn(0)
    <3>1. count = 0 /\ pos = 0 /\ Chunks \in Nat
      BY <1>2, <1>6, <2>2, SizeAssumption DEF Inv, Progress, Truthful
    <3>2. /\ call' \in {"WRITE", "CLOSE"} /\ result' = "none"
          /\ call' = "WRITE" => 0 < Chunks
      BY <1>3, <2>2 DEF GoOn
    <3>3. Types'
      BY <1>4, <2>2, <3>2 DEF Asks, Copy!Results, Inv, Types
    <3>4. Progress' /\ Prefix'
      BY <1>2, <2>2, <3>1, <3>2 DEF Inv, Progress, Prefix, fileVars
    <3> QED
      BY <1>2, <2>2, <3>3, <3>4, ClearStep
  <2>3. CASE call = "WRITE" /\ Written(n)
    <3>1. count < Chunks /\ count \in Nat /\ Chunks \in Nat
      BY <2>3, SizeAssumption DEF Inv, Progress, Types
    <3>2. CASE n = 0
      <4>1. count' = count /\ call' = "CLOSE" /\ result' = "none"
        BY <1>3, <2>3, <3>2 DEF Written
      <4>2. Types'
        BY <1>4, <4>1 DEF Asks, Copy!Results, Inv, Types
      <4>3. Progress' /\ Prefix'
        BY <1>2, <4>1 DEF Inv, Progress, Prefix, Asks, fileVars
      <4> QED
        BY <1>2, <2>3, <4>2, <4>3, ClearStep
    <3>3. CASE n # 0
      <4>1. /\ count' = count + 1 /\ call' \in {"WRITE", "CLOSE"} /\ result' = "none"
            /\ call' = "WRITE" => count' < Chunks
        BY <1>3, <2>3, <3>3 DEF Written, GoOn
      <4>2. pos = count + 1 /\ Len(file) = count + 1
        BY <1>2, <1>6, <2>3, <3>3 DEF Truthful
      <4>3. Types'
        BY <1>4, <3>1, <4>1 DEF Asks, Copy!Results
      <4>4. Progress' /\ Prefix'
        BY <1>2, <3>1, <4>1, <4>2 DEF Inv, Progress, Prefix, Asks, fileVars
      <4> QED
        BY <1>2, <2>3, <4>3, <4>4, ClearStep
    <3> QED
      BY <3>2, <3>3
  <2>4. CASE call = "SEEK" /\ Sought(n)
    <3>1. n = count /\ pos = count
      BY <1>2, <1>6, <2>4 DEF Truthful
    <3>2. /\ count' = count /\ call' \in {"WRITE", "CLOSE"} /\ result' = "none"
          /\ call' = "WRITE" => count < Chunks
      BY <1>3, <2>4, <3>1 DEF Sought, GoOn
    <3>3. Types'
      BY <1>4, <3>2 DEF Asks, Copy!Results, Inv, Types
    <3>4. Progress' /\ Prefix'
      BY <1>2, <3>1, <3>2 DEF Inv, Progress, Prefix, Asks, fileVars
    <3> QED
      BY <1>2, <1>6, <2>4, <3>3, <3>4, ClearStep
  <2>5. CASE call = "CLOSE" /\ count' = count /\ End(IF count = Chunks THEN "OK" ELSE "incomplete")
    <3>1. /\ call' = "END" /\ result' \in {"OK", "incomplete"}
          /\ result' = "OK" => count = Chunks
      BY <2>5 DEF End
    <3>2. Types'
      BY <1>4, <2>5, <3>1 DEF Asks, Copy!Results, Inv, Types
    <3>3. Progress' /\ Prefix'
      BY <1>2, <2>5, <3>1 DEF Inv, Progress, Prefix, Asks, fileVars
    <3> QED
      BY <1>2, <2>5, <3>2, <3>3, ClearStep
  <2> QED
    BY <2>1, <2>2, <2>3, <2>4, <2>5 DEF Succeed
<1>7. CASE TheReply.op # "BUSY" /\ TheReply.op # call
  <2>1. Fail
    BY <1>1, <1>7 DEF ReceiveReply
  <2>2. CASE call = "WRITE"
    <3>1. count' = count /\ call' = "RECONNECT" /\ result' = "none"
      BY <1>3, <2>1, <2>2 DEF Fail
    <3>2. Types'
      BY <1>4, <3>1 DEF Asks, Copy!Results, Inv, Types
    <3>3. Progress' /\ Prefix'
      BY <1>2, <3>1 DEF Inv, Progress, Prefix, Asks, fileVars
    <3> QED
      BY <1>2, <2>2, <3>2, <3>3, ClearStep
  <2>3. CASE call # "WRITE"
    <3>1. count' = count /\ call' = "END" /\ result' = "failed"
      BY <2>1, <2>3 DEF Fail, End
    <3> QED
      BY <1>2, <3>1, GiveUpStep DEF Inv, Types
  <2> QED
    BY <2>2, <2>3
<1> QED
  BY <1>5, <1>6, <1>7

LEMMA NoReplyStep == ASSUME Inv, NoReply PROVE Inv'
<1>1. Fail /\ UNCHANGED fileVars /\ (Refused \/ TimedOut)
  BY DEF NoReply
<1>2. call \in Asks /\ call # "END" /\ result = "none" /\ waiting
  <2>1. waiting
    BY <1>1 DEF Refused, TimedOut, TimedOutUnless
  <2> QED
    BY <2>1 DEF Inv, Progress, Asks
<1>3. /\ waiting' = FALSE /\ connected' = FALSE /\ UNCHANGED <<c2s, serverSeqs>>
      /\ cur_pkt_seq' \in Int /\ cur_pkt_recv_seq' \in Int
      /\ s2c' \in Seq(Packets)
      /\ call = "WRITE" => s2c' = <<>>
  <2>1. CASE Refused
    <3>1. /\ s2c # <<>> /\ s2c' = Tail(s2c)
          /\ waiting' = FALSE /\ connected' = FALSE /\ UNCHANGED <<c2s, clientSeqs, serverSeqs>>
      BY <2>1 DEF Refused
    <3>2. s2c' \in Seq(Packets) /\ Len(s2c') = Len(s2c) - 1 /\ Len(c2s) \in Nat
      BY <3>1, TailFacts DEF Inv, Types
    <3>3. call = "WRITE" => Len(s2c') = 0
      BY <1>2, <3>2 DEF Inv, OneExchange, Clear, Few, OwnRequest, OldWrite, SeekLast
    <3>4. call = "WRITE" => s2c' = <<>>
      BY <3>2, <3>3, EmptySeq
    <3>5. cur_pkt_seq' \in Int /\ cur_pkt_recv_seq' \in Int
      BY <3>1 DEF clientSeqs, Inv, Types
    <3> QED
      BY <3>1, <3>2, <3>4, <3>5
  <2>2. CASE TimedOut
    <3>1. /\ s2c = <<>> /\ s2c' = s2c /\ cur_pkt_seq' = NoSeq /\ cur_pkt_recv_seq' = NoSeq
          /\ waiting' = FALSE /\ connected' = FALSE /\ UNCHANGED <<c2s, serverSeqs>>
      BY <2>2 DEF TimedOut, TimedOutUnless, ResetSeqs
    <3> QED
      BY <3>1 DEF NoSeq
  <2> QED
    BY <1>1, <2>1, <2>2
<1>4. CASE call = "WRITE"
  <2>1. count' = count /\ call' = "RECONNECT" /\ result' = "none"
    BY <1>1, <1>2, <1>4 DEF Fail
  <2>2. Types'
    BY <1>1, <1>3, <2>1 DEF Inv, Types, Copy!Results, fileVars, serverSeqs
  <2>3. Progress' /\ Prefix' /\ Replies'
    BY <1>1, <1>3, <1>4, <2>1 DEF Inv, Progress, Prefix, Replies, Asks, fileVars
  <2>4. Requests'
    BY <1>1, <1>2, <1>3, <2>1 DEF Inv, Requests, Harmless, fileVars
  <2>5. OneExchange'
    <3>1. Len(c2s) + Len(s2c) <= 1 /\ \A i \in 1 .. Len(c2s) : c2s[i].body.op = "WRITE"
      BY <1>2, <1>4 DEF Inv, OneExchange, Clear, Few, OwnRequest, OldWrite, SeekLast
    <3>2. Len(c2s) \in Nat /\ Len(s2c) \in Nat
      BY DEF Inv, Types
    <3> QED
      BY <1>3, <1>4, <2>1, <3>1, <3>2 DEF OneExchange, Clear, Few, OwnRequest, OldWrite, SeekLast
  <2> QED
    BY <2>2, <2>3, <2>4, <2>5 DEF Inv
<1>5. CASE call # "WRITE"
  <2>1. count' = count /\ call' = "END" /\ result' = "failed"
    BY <1>1, <1>5 DEF Fail, End
  <2> QED
    BY <1>1, <1>2, <1>3, <2>1, GiveUpStep
<1> QED
  BY <1>4, <1>5

LEMMA ReconnectStep == ASSUME Inv, Reconnect PROVE Inv'
<1>1. /\ call = "RECONNECT" /\ UNCHANGED <<count, fileVars>>
      /\ waiting = FALSE /\ result = "none"
  BY DEF Reconnect, Inv, Progress, Types, Asks
<1>2. /\ Len(c2s) + Len(s2c) <= 1 /\ Len(c2s) \in Nat /\ Len(s2c) \in Nat
      /\ \A i \in 1 .. Len(c2s) : c2s[i].body.op = "WRITE"
      /\ \A i \in 1 .. Len(s2c) : s2c[i].body.op \notin {"SEEK", "BUSY"}
  BY <1>1 DEF Inv, Types, OneExchange, Clear, Few, OwnRequest, OldWrite, SeekLast
<1>3. ASSUME call' = "SEEK", result' = result, waiting' = FALSE, connected' \in BOOLEAN,
             UNCHANGED <<c2s, clientSeqs, serverSeqs>>, s2c' \in Seq(Packets),
             Len(s2c') <= Len(s2c),
             \A i \in 1 .. Len(s2c') : s2c'[i].body.op \notin {"SEEK", "BUSY"}
      PROVE  Inv'
  <2>1. Types'
    BY <1>1, <1>3 DEF Inv, Types, Asks, clientSeqs, serverSeqs, fileVars
  <2>2. Progress' /\ Prefix'
    BY <1>1, <1>3 DEF Inv, Progress, Prefix, Asks, fileVars
  <2>3. Requests'
    BY <1>1, <1>3 DEF Inv, Requests, Harmless, fileVars
  <2>4. Replies'
    BY <1>1, <1>3 DEF Replies, Truthful
  <2>5. OneExchange'
    <3>1. Len(s2c') \in Nat
      BY <1>3
    <3>2. Len(c2s') + Len(s2c') <= 1
      BY <1>2, <1>3, <3>1
    <3> QED
      BY <1>1, <1>2, <1>3, <3>2 DEF OneExchange, Clear, Few, OwnRequest, OldWrite, SeekLast
  <2> QED
    BY <2>1, <2>2, <2>3, <2>4, <2>5 DEF Inv
<1>4. CASE connected /\ UNCHANGED linkVars /\ call' = "SEEK" /\ result' = result
  <2>1. UNCHANGED <<c2s, s2c, clientSeqs, connected, waiting, serverSeqs>>
    BY <1>4 DEF linkVars
  <2>2. s2c \in Seq(Packets) /\ Len(s2c') = Len(s2c) /\ connected \in BOOLEAN
    BY <2>1 DEF Inv, Types
  <2>3. waiting' = FALSE /\ connected' \in BOOLEAN
    BY <1>1, <2>1, <2>2
  <2>4. /\ s2c' \in Seq(Packets) /\ Len(s2c') <= Len(s2c)
        /\ \A i \in 1 .. Len(s2c') : s2c'[i].body.op \notin {"SEEK", "BUSY"}
    BY <1>2, <2>1, <2>2
  <2> QED
    BY <1>3, <1>4, <2>1, <2>3, <2>4
<1>5. CASE Reconnected /\ call' = "SEEK" /\ result' = result
  <2>1. /\ connected' = TRUE /\ UNCHANGED <<c2s, clientSeqs, waiting, serverSeqs>>
        /\ \E n \in 0 .. Len(s2c) : s2c' = SubSeq(s2c, n + 1, Len(s2c))
    BY <1>5 DEF Reconnected
  <2>2. PICK n \in 0 .. Len(s2c) : s2c' = SubSeq(s2c, n + 1, Len(s2c))
    BY <2>1
  <2>3. n = 0 \/ n = Len(s2c)
    BY <1>2
  <2>4. s2c \in Seq(Packets)
    BY DEF Inv, Types
  <2>5. s2c' = s2c \/ s2c' = <<>>
    BY <1>2, <2>2, <2>3, <2>4
  <2>6. /\ s2c' \in Seq(Packets) /\ Len(s2c') <= Len(s2c)
        /\ \A i \in 1 .. Len(s2c') : s2c'[i].body.op \notin {"SEEK", "BUSY"}
    <3>1. CASE s2c' = s2c
      BY <1>2, <2>4, <3>1
    <3>2. CASE s2c' = <<>>
      BY <1>2, <3>2
    <3> QED
      BY <2>5, <3>1, <3>2
  <2> QED
    BY <1>1, <1>3, <1>5, <2>1, <2>6
<1>6. CASE Offline /\ End("failed")
  <2>1. /\ call' = "END" /\ result' = "failed"
        /\ UNCHANGED <<c2s, s2c, cur_pkt_recv_seq, connected, waiting, serverSeqs>>
        /\ cur_pkt_seq' = NextSeq(cur_pkt_seq)
    BY <1>6 DEF Offline, End
  <2>2. cur_pkt_seq' \in Int
    BY <2>1, NextSeqInt DEF Inv, Types
  <2> QED
    BY <1>1, <2>1, <2>2, GiveUpStep DEF Inv, Types
<1> QED
  BY <1>4, <1>5, <1>6 DEF Reconnect

-----------------------------------------------------------------------------
(* The line.                                                               *)

\* Without the first request, the others move up.
LEMMA RequestsMoveUp ==
    ASSUME Inv, c2s # <<>>, c2s' = Tail(c2s), UNCHANGED <<count, result>>
    PROVE  /\ c2s' \in Seq(Packets) /\ Len(c2s') = Len(c2s) - 1 /\ Requests'
           /\ \A i \in 1 .. Len(c2s') : c2s'[i] = c2s[i + 1]
           /\ Len(c2s) \in Nat \ {0}
<1>1. /\ Head(c2s) = c2s[1] /\ Len(c2s) \in Nat \ {0}
      /\ c2s' \in Seq(Packets) /\ Len(c2s') = Len(c2s) - 1
      /\ \A i \in 1 .. Len(c2s') : c2s'[i] = c2s[i + 1]
  BY TailFacts DEF Inv, Types
<1>2. ASSUME NEW i \in 1 .. Len(c2s') PROVE Harmless(i, c2s[i].body)'
  <2>1. i + 1 \in 1 .. Len(c2s) /\ i + 1 # 1 /\ Len(c2s) # 1
    BY <1>1
  <2>2. Harmless(i + 1, c2s[i + 1].body)
    BY <2>1 DEF Inv, Requests
  <2>3. c2s'[i].body = c2s[i + 1].body
    BY <1>1
  <2> QED
    BY <2>1, <2>2, <2>3 DEF Harmless, Asks
<1> QED
  BY <1>1, <1>2 DEF Requests

LEMMA LineStep == ASSUME Inv, Line PROVE Inv'
<1>1. /\ UNCHANGED <<call, clientSeqs, connected, waiting, serverSeqs, clientVars, fileVars>>
      /\ Lose \/ Damage
  BY DEF Line, Lose, Damage
<1>2. ASSUME c2s' \in Seq(Packets), s2c' \in Seq(Packets) PROVE Types'
  BY <1>1, <1>2 DEF Inv, Types, clientSeqs, serverSeqs, clientVars, fileVars
<1>3. Progress' /\ Prefix'
  BY <1>1 DEF Inv, Progress, Prefix, clientVars, fileVars
<1>4. c2s \in Seq(Packets) /\ s2c \in Seq(Packets) /\ Len(c2s) \in Nat /\ Len(s2c) \in Nat
  BY DEF Inv, Types
<1>5. CASE c2s # <<>> /\ c2s' = Tail(c2s) /\ s2c' = s2c
  <2>1. /\ c2s' \in Seq(Packets) /\ Len(c2s') = Len(c2s) - 1 /\ Requests'
        /\ \A i \in 1 .. Len(c2s') : c2s'[i] = c2s[i + 1]
        /\ Len(c2s) \in Nat \ {0}
    BY <1>1, <1>5, RequestsMoveUp DEF clientVars
  <2>2. Replies'
    BY <1>1, <1>5 DEF Inv, Replies, Truthful, clientVars, fileVars
  <2>3. \A i \in 1 .. Len(c2s') : i + 1 \in 1 .. Len(c2s) /\ i + 1 # 1
    BY <2>1
  <2>4. ~Clear /\ (Few => Few') /\ (OwnRequest => OwnRequest') /\ (OldWrite => OldWrite')
    BY <1>1, <1>4, <1>5, <2>1, <2>3 DEF Clear, Few, OwnRequest, OldWrite
  <2>5. ASSUME SeekLast PROVE SeekLast'
    <3>1. ASSUME NEW i \in 1 .. Len(c2s')
          PROVE  c2s'[i].body.op = IF i = Len(c2s') THEN "SEEK" ELSE "WRITE"
      <4>1. c2s[i + 1].body.op = IF i + 1 = Len(c2s) THEN "SEEK" ELSE "WRITE"
        BY <2>3, <2>5 DEF SeekLast
      <4> QED
        BY <2>1, <4>1
    <3>2. \A i \in 1 .. Len(s2c') : s2c'[i].body.op \notin {"SEEK", "BUSY"}
      BY <1>5, <2>5 DEF SeekLast
    <3> QED
      BY <3>1, <3>2 DEF SeekLast
  <2>6. OneExchange'
    BY <1>1, <2>4, <2>5 DEF Inv, OneExchange
  <2> QED
    BY <1>2, <1>3, <1>4, <1>5, <2>1, <2>2, <2>6 DEF Inv
<1>6. CASE s2c # <<>> /\ s2c' = Tail(s2c) /\ c2s' = c2s
  <2>1. /\ s2c' \in Seq(Packets) /\ Len(s2c') = Len(s2c) - 1
        /\ \A i \in 1 .. Len(s2c') : s2c'[i] = s2c[i + 1]
        /\ Len(s2c) \in Nat \ {0}
    BY <1>4, <1>6, TailFacts
  <2>2. \A i \in 1 .. Len(s2c') : i + 1 \in 1 .. Len(s2c)
    BY <2>1
  <2>3. Requests'
    BY <1>1, <1>6 DEF Inv, Requests, Harmless, clientVars, fileVars
  <2>4. Replies'
    BY <1>1, <2>1, <2>2 DEF Inv, Replies, Truthful, clientVars, fileVars
  <2>5. ~Clear /\ (Few => Few') /\ (OwnRequest => OwnRequest') /\ (OldWrite => OldWrite')
    BY <1>1, <1>4, <1>6, <2>1, <2>2 DEF Clear, Few, OwnRequest, OldWrite
  <2>6. ASSUME SeekLast PROVE SeekLast'
    <3>1. ASSUME NEW i \in 1 .. Len(s2c'), s2c'[i].body.op \in {"SEEK", "BUSY"}
          PROVE  i = Len(s2c') /\ c2s' = <<>>
      <4>1. i + 1 = Len(s2c) /\ c2s = <<>>
        BY <2>1, <2>2, <2>6, <3>1 DEF SeekLast
      <4>2. i = Len(s2c')
        BY <2>1, <4>1
      <4> QED
        BY <1>6, <4>1, <4>2
    <3> QED
      BY <1>6, <2>6, <3>1 DEF SeekLast
  <2>7. OneExchange'
    BY <1>1, <2>5, <2>6 DEF Inv, OneExchange
  <2> QED
    BY <1>2, <1>3, <1>4, <1>6, <2>1, <2>3, <2>4, <2>7 DEF Inv
<1>7. ASSUME NEW s \in Seq(Packets), s # <<>>
      PROVE  /\ [s EXCEPT ![1].good = FALSE] \in Seq(Packets)
             /\ Len([s EXCEPT ![1].good = FALSE]) = Len(s)
             /\ \A i \in 1 .. Len(s) : [s EXCEPT ![1].good = FALSE][i].body = s[i].body
  <2>1. Len(s) \in Nat /\ 1 \in 1 .. Len(s) /\ s[1] \in Packets
    BY <1>7
  <2> DEFINE bad == [s[1] EXCEPT !.good = FALSE]
  <2>2. bad \in Packets /\ bad.body = s[1].body
    BY <2>1 DEF Packets
  <2>3. [s EXCEPT ![1].good = FALSE] = [s EXCEPT ![1] = bad]
    OBVIOUS
  <2> HIDE DEF bad
  <2>4. /\ [s EXCEPT ![1] = bad] \in Seq(Packets) /\ Len([s EXCEPT ![1] = bad]) = Len(s)
        /\ \A i \in 1 .. Len(s) : [s EXCEPT ![1] = bad][i] = IF i = 1 THEN bad ELSE s[i]
    BY <2>1, <2>2
  <2> QED
    BY <2>2, <2>3, <2>4
<1>8. CASE /\ c2s' \in Seq(Packets) /\ s2c' \in Seq(Packets)
           /\ Len(c2s') = Len(c2s) /\ Len(s2c') = Len(s2c)
           /\ \A i \in 1 .. Len(c2s) : c2s'[i].body = c2s[i].body
           /\ \A i \in 1 .. Len(s2c) : s2c'[i].body = s2c[i].body
  <2>1. Requests'
    BY <1>1, <1>8 DEF Inv, Requests, Harmless, clientVars, fileVars
  <2>2. Replies'
    BY <1>1, <1>8 DEF Inv, Replies, Truthful, clientVars, fileVars
  <2>3. OneExchange'
    <3>1. (Clear => Clear') /\ (Few => Few') /\ (OwnRequest => OwnRequest')
      BY <1>1, <1>4, <1>8, EmptySeq DEF Clear, Few, OwnRequest
    <3>2. OldWrite => OldWrite'
      BY <1>8 DEF OldWrite
    <3>3. Len(c2s) = Len(c2s') /\ (c2s = <<>> => c2s' = <<>>)
      BY <1>4, <1>8, EmptySeq
    <3>4. SeekLast => SeekLast'
      BY <1>4, <1>8, <3>3 DEF SeekLast
    <3> QED
      BY <1>1, <3>1, <3>2, <3>4 DEF Inv, OneExchange
  <2> QED
    BY <1>2, <1>3, <1>8, <2>1, <2>2, <2>3 DEF Inv
<1>9. CASE Lose
  BY <1>5, <1>6, <1>9 DEF Lose
<1>10. CASE Damage
  <2>1. CASE c2s # <<>> /\ c2s' = [c2s EXCEPT ![1].good = FALSE] /\ s2c' = s2c
    BY <1>4, <1>7, <1>8, <2>1
  <2>2. CASE s2c # <<>> /\ s2c' = [s2c EXCEPT ![1].good = FALSE] /\ c2s' = c2s
    BY <1>4, <1>7, <1>8, <2>2
  <2> QED
    BY <1>10, <2>1, <2>2 DEF Damage
<1> QED
  BY <1>1, <1>9, <1>10

-----------------------------------------------------------------------------
(* The server.                                                             *)

\* A request that waits for the server while the client has its command: the
\* client waits too, and the request is its own, or an old WRITE.
LEMMA HeadFacts ==
    ASSUME Inv, c2s # <<>>
    PROVE  /\ Head(c2s) = c2s[1] /\ Head(c2s) \in Packets /\ Len(c2s) \in Nat \ {0}
           /\ Harmless(1, Head(c2s).body)
           /\ call = "CREATE" => Head(c2s).body.op = "CREATE"
           /\ call = "WRITE"  => waiting
<1>1. Head(c2s) = c2s[1] /\ Head(c2s) \in Packets /\ Len(c2s) \in Nat \ {0}
  BY TailFacts DEF Inv, Types
<1>2. 1 \in 1 .. Len(c2s)
  BY <1>1
<1>3. Harmless(1, Head(c2s).body)
  BY <1>1, <1>2 DEF Inv, Requests
<1>4. call \in {"CREATE", "WRITE"} => waiting /\ OwnRequest
  BY DEF Inv, OneExchange, Clear
<1>5. call = "CREATE" => Head(c2s).body.op = "CREATE"
  BY <1>1, <1>2, <1>4 DEF OwnRequest
<1> QED
  BY <1>1, <1>3, <1>4, <1>5

\* One request is taken from the line and one reply is put on it.
LEMMA ServerStep ==
    ASSUME Inv, c2s # <<>>, NEW body, Reply(body),
           body.op \in Asks \cup {"BUSY", "ERROR", "MSDOS_ERROR"}, body.arg \in Int,
           body = [op |-> body.op, arg |-> body.arg],
           cur_pkt_in_seq' \in Int, cur_pkt_out_seq' \in Int,
           is_open' \in BOOLEAN, pos' \in Nat, file' \in Seq(Nat),
           UNCHANGED clientVars,
           body.op = "SEEK" => Head(c2s).body.op = "SEEK",
           body.op = "BUSY" => waiting /\ Len(c2s) = 1,
           call = "CREATE" => file' = file,
           Prefix', Truthful(body)'
    PROVE  Inv'
<1> DEFINE pkt == [seq |-> cur_pkt_out_seq, body |-> body, good |-> TRUE]
<1>1. /\ c2s' = Tail(c2s) /\ s2c' = Append(s2c, pkt) /\ UNCHANGED <<count, result>>
      /\ UNCHANGED <<call, clientSeqs, connected, waiting>>
  BY DEF Reply, clientVars
<1>2. pkt \in Packets /\ pkt.body = body
  <2>1. cur_pkt_out_seq \in Int
    BY DEF Inv, Types
  <2> QED
    BY <2>1 DEF Packets
<1> HIDE DEF pkt
<1>3. /\ c2s' \in Seq(Packets) /\ Len(c2s') = Len(c2s) - 1 /\ Requests'
      /\ \A i \in 1 .. Len(c2s') : c2s'[i] = c2s[i + 1]
      /\ Len(c2s) \in Nat \ {0}
  BY <1>1, RequestsMoveUp
<1>4. /\ s2c' \in Seq(Packets) /\ Len(s2c') = Len(s2c) + 1 /\ Len(s2c) \in Nat
      /\ \A i \in 1 .. Len(s2c) : s2c'[i] = s2c[i]
      /\ s2c'[Len(s2c) + 1] = pkt
  BY <1>1, <1>2, AppendFacts DEF Inv, Types
<1>5. \A i \in 1 .. Len(s2c') : i \in 1 .. Len(s2c) \/ i = Len(s2c) + 1
  BY <1>4
<1>6. \A i \in 1 .. Len(c2s') : i + 1 \in 1 .. Len(c2s) /\ i + 1 # 1
  BY <1>3
<1>7. Types'
  BY <1>1, <1>3, <1>4 DEF Inv, Types, clientSeqs
<1>8. Progress'
  <2>1. call = "WRITE" => waiting
    BY HeadFacts
  <2> QED
    BY <1>1, <2>1 DEF Inv, Progress
<1>9. ASSUME NEW i \in 1 .. Len(s2c)
      PROVE  /\ call \in {"SEEK", "RECONNECT", "END"}
             /\ call = "SEEK" => s2c[i].body.op # "SEEK"
  <2>1. ~Clear
    BY DEF Clear
  <2>2. ~Few
    BY <1>3, <1>4 DEF Few
  <2>3. call \in Asks \cup {"RECONNECT", "END"}
    BY DEF Inv, Types
  <2>4. call = "SEEK" => SeekLast \/ OldWrite
    BY DEF Inv, OneExchange
  <2>5. call = "SEEK" => s2c[i].body.op # "SEEK"
    BY <2>4 DEF SeekLast, OldWrite
  <2> QED
    BY <2>1, <2>2, <2>3, <2>5 DEF Inv, OneExchange, Asks
<1>10. Replies'
  <2> SUFFICES ASSUME NEW i \in 1 .. Len(s2c') PROVE Truthful(s2c[i].body)'
    BY DEF Replies
  <2>1. CASE i \in 1 .. Len(s2c)
    BY <1>1, <1>4, <1>9, <2>1 DEF Truthful
  <2>2. CASE i = Len(s2c) + 1
    BY <1>2, <1>4, <2>2
  <2> QED
    BY <1>5, <2>1, <2>2
<1>11. OneExchange'
  <2>1. ~Clear
    BY DEF Clear
  <2>2. Few => Few' /\ Len(c2s') = 0 /\ Len(s2c) = 0
    BY <1>3, <1>4 DEF Few
  <2>3. Few => OwnRequest'
    BY <2>2 DEF OwnRequest
  <2>4. ASSUME Few, OldWrite, call = "RECONNECT" \/ (call = "SEEK" /\ ~waiting) PROVE OldWrite'
    <3>1. Head(c2s).body.op = "WRITE" /\ ~waiting
      <4>1. Head(c2s).body.op = "WRITE"
        BY <1>3, <2>4, HeadFacts DEF OldWrite
      <4>2. ~waiting
        BY <2>4 DEF Inv, Progress, Asks
      <4> QED
        BY <4>1, <4>2
    <3>2. body.op \notin {"SEEK", "BUSY"}
      BY <3>1
    <3>3. Len(c2s') = 0 /\ \A i \in 1 .. Len(s2c') : s2c'[i] = pkt
      BY <1>4, <1>5, <2>2, <2>4
    <3> QED
      BY <1>2, <3>2, <3>3 DEF OldWrite
  <2>5. ASSUME SeekLast PROVE SeekLast'
    <3>1. ASSUME NEW i \in 1 .. Len(c2s')
          PROVE  c2s'[i].body.op = IF i = Len(c2s') THEN "SEEK" ELSE "WRITE"
      <4>1. c2s[i + 1].body.op = IF i + 1 = Len(c2s) THEN "SEEK" ELSE "WRITE"
        BY <1>6, <2>5 DEF SeekLast
      <4> QED
        BY <1>3, <4>1
    <3>2. \A i \in 1 .. Len(s2c) : s2c[i].body.op \notin {"SEEK", "BUSY"}
      BY <2>5 DEF SeekLast
    <3>3. ASSUME body.op \in {"SEEK", "BUSY"} PROVE c2s' = <<>>
      <4>1. Len(c2s) = 1
        <5>1. CASE body.op = "SEEK"
          <6>1. c2s[1].body.op = "SEEK"
            BY <5>1, HeadFacts
          <6> QED
            BY <1>3, <2>5, <6>1 DEF SeekLast
        <5>2. CASE body.op = "BUSY"
          BY <5>2
        <5> QED
          BY <3>3, <5>1, <5>2
      <4> QED
        BY <1>3, <4>1, EmptySeq
    <3>4. ASSUME NEW i \in 1 .. Len(s2c'), s2c'[i].body.op \in {"SEEK", "BUSY"}
          PROVE  i = Len(s2c') /\ c2s' = <<>>
      <4>1. i = Len(s2c) + 1
        BY <1>4, <1>5, <3>2, <3>4
      <4> QED
        BY <1>2, <1>4, <3>3, <3>4, <4>1
    <3> QED
      BY <3>1, <3>4 DEF SeekLast
  <2> QED
    BY <1>1, <2>1, <2>2, <2>3, <2>4, <2>5 DEF Inv, OneExchange
<1> QED
  BY <1>3, <1>7, <1>8, <1>10, <1>11 DEF Inv

\* Sequence numbers after an answer.
LEMMA AnswerFacts ==
    ASSUME Inv, c2s # <<>>, NEW body, Answer(body)
    PROVE  Reply(body) /\ cur_pkt_in_seq' \in Int /\ cur_pkt_out_seq' \in Int
<1>1. Reply(body) /\ cur_pkt_in_seq' = NextSeq(Head(c2s).seq)
      /\ cur_pkt_out_seq' = NextSeq(cur_pkt_out_seq)
  BY DEF Answer
<1>2. Head(c2s).seq \in Int /\ cur_pkt_out_seq \in Int
  BY HeadFacts DEF Packets, Inv, Types
<1> QED
  BY <1>1, <1>2, NextSeqInt

\* An answer that changes nothing in DOS.
LEMMA IdleAnswerStep ==
    ASSUME Inv, c2s # <<>>, NEW op, NEW arg \in Int, Reply(Body(op, arg)),
           cur_pkt_in_seq' \in Int, cur_pkt_out_seq' \in Int,
           UNCHANGED <<clientVars, pos, file>>, is_open' \in BOOLEAN,
           \/ op \in {"ERROR", "MSDOS_ERROR", "CLOSE"}
           \/ op = "WRITE" /\ arg = 0
           \/ op = "BUSY" /\ waiting /\ Len(c2s) = 1
    PROVE  Inv'
<1> DEFINE body == Body(op, arg)
<1>1. body.op = op /\ body.arg = arg /\ body = [op |-> body.op, arg |-> body.arg]
  BY DEF Body
<1>2. op \in Asks \cup {"BUSY", "ERROR", "MSDOS_ERROR"} /\ op # "SEEK"
  BY DEF Asks
<1>3. Prefix'
  BY DEF Inv, Prefix, clientVars
<1>4. pos' \in Nat /\ file' \in Seq(Nat)
  BY DEF Inv, Types
<1>5. Truthful(body)'
  <2>1. CASE op = "BUSY"
    <3>1. call' = call /\ count' = count /\ pos' = pos
      BY DEF Reply, clientVars
    <3>2. call = "WRITE" => pos = count
      <4> SUFFICES ASSUME call = "WRITE" PROVE pos = count
        OBVIOUS
      <4>1. OwnRequest
        BY <2>1 DEF Inv, OneExchange
      <4>2. Head(c2s).body.op = "WRITE"
        BY <4>1, HeadFacts DEF OwnRequest
      <4> QED
        BY <4>2, HeadFacts DEF Harmless
    <3> QED
      BY <1>1, <2>1, <3>1, <3>2 DEF Truthful
  <2>2. CASE op # "BUSY"
    BY <1>1, <2>2 DEF Truthful
  <2> QED
    BY <2>1, <2>2
<1> HIDE DEF body
<1>6. Reply(body)
  BY DEF body
<1> QED
  BY <1>1, <1>2, <1>3, <1>4, <1>5, <1>6, ServerStep

\* Every refusal, of a request that does not validate too.
LEMMA RefusalStep ==
    ASSUME Inv, Reject \/ Busy, BusyInTime
    PROVE  Inv'
<1>1. CASE Reject
  <2>1. /\ c2s # <<>> /\ Reply(Body("ERROR", 0)) /\ cur_pkt_out_seq' = NoSeq
        /\ cur_pkt_in_seq' = cur_pkt_in_seq /\ UNCHANGED <<clientVars, fileVars>>
    BY <1>1 DEF Reject, RejectRequest
  <2>2. /\ cur_pkt_in_seq' \in Int /\ cur_pkt_out_seq' \in Int
        /\ is_open' \in BOOLEAN /\ UNCHANGED <<clientVars, pos, file>>
    BY <2>1 DEF Inv, Types, NoSeq, fileVars
  <2> QED
    BY <2>1, <2>2, IdleAnswerStep
<1>2. CASE Busy
  <2>1. /\ Awaited /\ c2s # <<>> /\ Answer(Body("BUSY", 0))
        /\ UNCHANGED <<clientVars, fileVars>>
    BY <1>2 DEF Busy, AnswerBusy, BusyInTime
  <2>2. waiting /\ Len(c2s) = 1 /\ is_open' \in BOOLEAN /\ UNCHANGED <<clientVars, pos, file>>
    BY <2>1 DEF Awaited, Inv, Types, fileVars
  <2> QED
    BY <2>1, <2>2, AnswerFacts, IdleAnswerStep
<1> QED
  BY <1>1, <1>2

LEMMA CreateStep == ASSUME Inv, Create PROVE Inv'
<1>1. c2s # <<>> /\ Head(c2s).body = Body("CREATE", 0) /\ UNCHANGED clientVars
  BY DEF Create, Request
<1>2. file = <<>> /\ count = 0
  BY <1>1, HeadFacts DEF Harmless, Body
<1>3. CASE Answer(Body("CREATE", 0)) /\ is_open' = TRUE /\ pos' = 0 /\ file' = <<>>
  <2> DEFINE body == Body("CREATE", 0)
  <2>1. body.op = "CREATE" /\ body.arg = 0 /\ body = [op |-> body.op, arg |-> body.arg]
    BY DEF Body
  <2>2. Prefix'
    BY <1>1, <1>2, <1>3 DEF Inv, Prefix, clientVars
  <2>3. Truthful(body)'
    BY <1>3, <2>1 DEF Truthful
  <2>4. file' = file /\ file' \in Seq(Nat) /\ pos' \in Nat
    BY <1>2, <1>3
  <2>5. is_open' \in BOOLEAN
    BY <1>3
  <2>6. Reply(body) /\ cur_pkt_in_seq' \in Int /\ cur_pkt_out_seq' \in Int
    BY <1>1, <1>3, AnswerFacts
  <2>7. body.op \in Asks \cup {"BUSY", "ERROR", "MSDOS_ERROR"}
    BY <2>1 DEF Asks
  <2>8. body.arg \in Int /\ body.op # "SEEK" /\ body.op # "BUSY"
    BY <2>1
  <2>9. c2s # <<>> /\ UNCHANGED clientVars
    BY <1>1
  <2> HIDE DEF body
  <2> QED
    BY <2>1, <2>2, <2>3, <2>4, <2>5, <2>6, <2>7, <2>8, <2>9, ServerStep
<1>4. CASE DosError /\ is_open' = FALSE /\ UNCHANGED <<pos, file>>
  <2>1. Answer(Body("MSDOS_ERROR", 0))
    BY <1>4 DEF DosError
  <2>2. /\ Reply(Body("MSDOS_ERROR", 0)) /\ UNCHANGED <<clientVars, pos, file>>
        /\ cur_pkt_in_seq' \in Int /\ cur_pkt_out_seq' \in Int
    BY <1>1, <1>4, <2>1, AnswerFacts
  <2>3. is_open' \in BOOLEAN
    BY <1>4
  <2> QED
    BY <1>1, <2>2, <2>3, IdleAnswerStep
<1> QED
  BY <1>3, <1>4 DEF Create

\* Chunk count + 1 written at its place, for the first or the second time.
LEMMA OverwrittenFacts ==
    ASSUME Inv, pos = count, count < Chunks
    PROVE  /\ Overwritten(count + 1) \in Seq(Nat)
           /\ Len(Overwritten(count + 1)) = count + 1
           /\ \A n \in 1 .. count + 1 : Overwritten(count + 1)[n] = n
           /\ Overwritten(count + 1) = file \/ Overwritten(count + 1) = Append(file, Len(file) + 1)
<1>1. /\ count \in Nat /\ Chunks \in Nat /\ file \in Seq(Nat)
      /\ Len(file) = count \/ Len(file) = count + 1
      /\ \A n \in 1 .. Len(file) : file[n] = n
  BY SizeAssumption DEF Inv, Types, Prefix
<1>2. Overwritten(count + 1) = [i \in 1 .. count + 1 |-> i]
  <2>1. (IF pos < Len(file) THEN Len(file) ELSE pos + 1) = count + 1
    BY <1>1
  <2>2. \A i \in 1 .. count + 1 :
          (IF i = pos + 1 THEN count + 1 ELSE IF i <= Len(file) THEN file[i] ELSE Gap) = i
    BY <1>1
  <2> QED
    BY <2>1, <2>2 DEF Overwritten
<1>3. CASE Len(file) = count + 1
  <2>1. file = [i \in 1 .. count + 1 |-> i]
    BY <1>1, <1>3
  <2> QED
    BY <1>1, <1>2, <1>3, <2>1
<1>4. CASE Len(file) = count
  <2> DEFINE longer == Append(file, Len(file) + 1)
  <2>1. longer \in Seq(Nat) /\ Len(longer) = count + 1
    BY <1>1, <1>4
  <2>2. \A n \in 1 .. count + 1 : longer[n] = n
    BY <1>1, <1>4
  <2> HIDE DEF longer
  <2>3. longer = [i \in 1 .. count + 1 |-> i]
    BY <1>1, <2>1, <2>2
  <2> QED
    BY <1>2, <2>1, <2>2, <2>3 DEF longer
<1> QED
  BY <1>1, <1>3, <1>4

LEMMA WriteFacts ==
    ASSUME Inv, Write
    PROVE  /\ c2s # <<>> /\ Head(c2s).body.op = "WRITE"
           /\ pos = count /\ count < Chunks /\ result # "OK"
           /\ UNCHANGED <<clientVars, is_open>>
           /\ \/ /\ Answer(Body("WRITE", 1)) /\ pos' = pos + 1
                 /\ file' = Overwritten(count + 1)
              \/ \/ Answer(Body("WRITE", 0)) /\ UNCHANGED <<file, pos>>
                 \/ DosError /\ UNCHANGED <<file, pos>>
<1>1. PICK n \in 1 .. Chunks :
         /\ Request("WRITE", n)
         /\ \/ /\ Answer(Body("WRITE", 1)) /\ pos' = pos + 1 /\ file' = Overwritten(n)
            \/ Answer(Body("WRITE", 0)) /\ UNCHANGED <<file, pos>>
            \/ DosError /\ UNCHANGED <<file, pos>>
  BY DEF Write
<1>2. c2s # <<>> /\ Head(c2s).body.op = "WRITE" /\ Head(c2s).body.arg = n
  BY <1>1 DEF Request, Body
<1>3. n = count + 1 /\ pos = count /\ count < Chunks /\ result # "OK"
  BY <1>2, HeadFacts DEF Harmless
<1> QED
  BY <1>1, <1>2, <1>3 DEF Write

LEMMA WriteStep == ASSUME Inv, Write PROVE Inv'
<1>1. /\ c2s # <<>> /\ Head(c2s).body.op = "WRITE"
      /\ pos = count /\ count < Chunks
      /\ UNCHANGED clientVars /\ is_open' \in BOOLEAN
  BY WriteFacts DEF Inv, Types
<1>2. CASE Answer(Body("WRITE", 1)) /\ pos' = pos + 1 /\ file' = Overwritten(count + 1)
  <2> DEFINE body == Body("WRITE", 1)
  <2>1. body.op = "WRITE" /\ body.arg = 1 /\ body = [op |-> body.op, arg |-> body.arg]
    BY DEF Body
  <2>2. /\ count \in Nat /\ Chunks \in Nat /\ count' = count /\ file' \in Seq(Nat)
        /\ Len(file') = count + 1 /\ \A n \in 1 .. count + 1 : file'[n] = n
    BY <1>1, <1>2, OverwrittenFacts, SizeAssumption DEF Inv, Types, clientVars
  <2>3. Prefix'
    BY <1>1, <2>2 DEF Prefix
  <2>4. Truthful(body)'
    BY <1>1, <1>2, <2>1, <2>2 DEF Truthful
  <2>5. Reply(body) /\ cur_pkt_in_seq' \in Int /\ cur_pkt_out_seq' \in Int
    BY <1>1, <1>2, AnswerFacts
  <2>6. pos' \in Nat /\ call # "CREATE"
    BY <1>1, <1>2, <2>2, HeadFacts
  <2> HIDE DEF body
  <2> QED
    BY <1>1, <2>1, <2>2, <2>3, <2>4, <2>5, <2>6, ServerStep DEF Asks
<1>3. CASE Answer(Body("WRITE", 0)) /\ UNCHANGED <<file, pos>>
  BY <1>1, <1>3, AnswerFacts, IdleAnswerStep
<1>4. CASE DosError /\ UNCHANGED <<file, pos>>
  BY <1>1, <1>4, AnswerFacts, IdleAnswerStep DEF DosError
<1> QED
  BY <1>2, <1>3, <1>4, WriteFacts

LEMMA SeekStep == ASSUME Inv, Seek PROVE Inv'
<1>1. /\ UNCHANGED <<clientVars, is_open, file>>
      /\ \E n \in 0 .. Chunks :
            /\ Request("SEEK", n)
            /\ \/ Answer(Body("SEEK", n)) /\ pos' = n
               \/ DosError /\ pos' = pos
  BY DEF Seek
<1>2. PICK n \in 0 .. Chunks :
         /\ Request("SEEK", n)
         /\ \/ Answer(Body("SEEK", n)) /\ pos' = n
            \/ DosError /\ pos' = pos
  BY <1>1
<1>3. c2s # <<>> /\ Head(c2s).body.op = "SEEK" /\ Head(c2s).body.arg = n
  BY <1>2 DEF Request, Body
<1>4. n = count /\ count \in Nat
  BY <1>3, HeadFacts DEF Harmless, Inv, Types
<1>5. Prefix' /\ is_open' \in BOOLEAN /\ file' \in Seq(Nat)
  BY <1>1 DEF Inv, Types, Prefix, clientVars
<1>6. CASE Answer(Body("SEEK", n)) /\ pos' = n
  <2> DEFINE body == Body("SEEK", n)
  <2>1. body.op = "SEEK" /\ body.arg = n /\ body = [op |-> body.op, arg |-> body.arg]
    BY DEF Body
  <2>2. Truthful(body)'
    BY <1>1, <1>4, <1>6, <2>1 DEF Truthful, clientVars
  <2>3. Reply(body) /\ cur_pkt_in_seq' \in Int /\ cur_pkt_out_seq' \in Int
    BY <1>3, <1>6, AnswerFacts
  <2>4. pos' \in Nat /\ body.arg \in Int /\ file' = file
    BY <1>1, <1>4, <1>6, <2>1
  <2> HIDE DEF body
  <2> QED
    BY <1>1, <1>3, <1>5, <2>1, <2>2, <2>3, <2>4, ServerStep DEF Asks
<1>7. CASE DosError /\ pos' = pos
  BY <1>1, <1>3, <1>5, <1>7, AnswerFacts, IdleAnswerStep DEF DosError
<1> QED
  BY <1>2, <1>6, <1>7

LEMMA CloseStep == ASSUME Inv, Close PROVE Inv'
<1>1. /\ c2s # <<>> /\ is_open' \in BOOLEAN /\ UNCHANGED <<clientVars, pos, file>>
      /\ Answer(Body("CLOSE", 0)) \/ Answer(Body("MSDOS_ERROR", 0))
  BY DEF Close, Request, DosError
<1> QED
  BY <1>1, AnswerFacts, IdleAnswerStep

-----------------------------------------------------------------------------
(* The invariant, and what it is for.                                      *)

LEMMA InvNext == BusyInTime /\ Inv /\ [Next]_vars => Inv'
<1> SUFFICES ASSUME BusyInTime, Inv, [Next]_vars PROVE Inv'
  OBVIOUS
<1>1. CASE Client
  BY <1>1, SendStep, ReceiveStep, NoReplyStep, ReconnectStep DEF Client
<1>2. CASE Server
  BY <1>2, CreateStep, WriteStep, SeekStep, CloseStep, RefusalStep DEF Server
<1>3. CASE Line
  BY <1>3, LineStep
<1>4. CASE UNCHANGED vars
  <2>1. /\ UNCHANGED <<c2s, s2c, call, connected, waiting, count, result, is_open, pos, file>>
        /\ UNCHANGED <<cur_pkt_seq, cur_pkt_recv_seq, cur_pkt_in_seq, cur_pkt_out_seq>>
    BY <1>4 DEF vars, linkVars, clientSeqs, serverSeqs, clientVars, fileVars
  <2>2. Types' /\ Progress' /\ Prefix'
    BY <2>1 DEF Inv, Types, Progress, Prefix
  <2>3. Requests' /\ Replies'
    BY <2>1 DEF Inv, Requests, Harmless, Replies, Truthful
  <2>4. OneExchange'
    BY <2>1 DEF Inv, OneExchange, Clear, Few, OwnRequest, OldWrite, SeekLast
  <2> QED
    BY <2>2, <2>3, <2>4 DEF Inv
<1> QED
  BY <1>1, <1>2, <1>3, <1>4 DEF Next

LEMMA InvHolds == BusyInTime => (Spec => []Inv)
<1> SUFFICES ASSUME BusyInTime PROVE Spec => []Inv
  OBVIOUS
<1>1. Inv /\ [Next]_vars => Inv'
  BY InvNext
<1> QED
  BY InvInit, <1>1, PTL DEF Spec

\* What the client takes for written is in the file, in its place, however
\* often the line, the server or DOS fail.
THEOREM WrittenIsThere == BusyInTime => (Spec => []AckedIsWritten)
<1> SUFFICES ASSUME BusyInTime PROVE Spec => []AckedIsWritten
  OBVIOUS
<1>1. Inv => AckedIsWritten
  BY DEF Inv, Types, Prefix, AckedIsWritten
<1> QED
  BY <1>1, InvHolds, PTL

LEMMA WholeIsOriginal ==
    ASSUME Inv, count = Chunks
    PROVE  file = Copy!Original
<1>1. /\ count \in Nat /\ file \in Seq(Nat) /\ Len(file) = Chunks
      /\ \A n \in 1 .. Len(file) : file[n] = n
  BY SizeAssumption DEF Inv, Types, Prefix
<1> QED
  BY <1>1 DEF Copy!Original

\* "Upload OK" is said of a destination that is the source.
THEOREM OkMeansSource == BusyInTime => (Spec => []OkMeansWhole)
<1> SUFFICES ASSUME BusyInTime PROVE Spec => []OkMeansWhole
  OBVIOUS
<1>1. Inv => OkMeansWhole
  BY WholeIsOriginal DEF Inv, Progress, OkMeansWhole, Copy!Original
<1> QED
  BY <1>1, InvHolds, PTL

\* The client tells the user how it ended once, and it is good only if the
\* file is whole.
LEMMA ClientConcludes ==
    ASSUME Inv, Inv', Client
    PROVE  Copy!Next \/ UNCHANGED <<file, result>>
<1>1. UNCHANGED file
  BY DEF Client, SendRequest, Receive, NoReply, Reconnect, fileVars
<1>2. result' = "OK" => file' = Copy!Original
  <2> SUFFICES ASSUME result' = "OK" PROVE file' = Copy!Original
    OBVIOUS
  <2>1. Len(file') = Chunks
    BY SizeAssumption DEF Inv, Types, Progress, Prefix
  <2>2. file' \in Seq(Nat) /\ \A n \in 1 .. Chunks : file'[n] = n
    BY <2>1 DEF Inv, Types, Prefix
  <2>3. file' = [n \in 1 .. Chunks |-> n]
    BY <2>1, <2>2
  <2> QED
    BY <2>3 DEF Copy!Original
<1>3. result' = result \/ (result = "none" /\ result' # "none")
  <2>1. CASE SendRequest
    BY <2>1 DEF SendRequest, clientVars
  <2>2. CASE ~SendRequest
    <3>1. call # "END"
      BY <2>2, ReceivedFacts DEF Client, Receive, NoReply, Reconnect, Refused, TimedOut,
         TimedOutUnless, Inv, Progress, Asks
    <3> QED
      BY <3>1 DEF Inv, Progress
  <2> QED
    BY <2>1, <2>2
<1>4. result' \in Copy!Results
  BY DEF Inv, Types
<1> QED
  BY <1>1, <1>2, <1>3, <1>4 DEF Copy!Next, Copy!Conclude

\* The server adds the next chunk, or leaves the file as it is.
LEMMA ServerExtends ==
    ASSUME Inv, Server
    PROVE  Copy!Next \/ UNCHANGED <<file, result>>
<1>1. result' = result
  BY DEF Server, Create, Write, Seek, Close, Busy, Reject, clientVars
<1>2. CASE Create
  <2>1. c2s # <<>> /\ Head(c2s).body.op = "CREATE" /\ (file' = <<>> \/ file' = file)
    BY <1>2 DEF Create, Request, Body
  <2>2. file = <<>>
    BY <2>1, HeadFacts DEF Harmless
  <2> QED
    BY <1>1, <2>1, <2>2
<1>3. CASE Write
  <2>1. /\ pos = count /\ count < Chunks /\ result # "OK"
        /\ file' = file \/ file' = Overwritten(count + 1)
    BY <1>3, WriteFacts
  <2>2. CASE file' = file
    BY <1>1, <2>2
  <2>3. CASE file' # file
    <3>1. file' = Append(file, Len(file) + 1) /\ Len(file') = count + 1
      BY <2>1, <2>3, OverwrittenFacts
    <3>2. Len(file') = Len(file) + 1 /\ Len(file) \in Nat
      BY <3>1 DEF Inv, Types
    <3>3. Len(file) < Chunks
      BY <2>1, <3>1, <3>2, SizeAssumption DEF Inv, Types
    <3> QED
      BY <1>1, <2>1, <3>1, <3>3 DEF Copy!Next, Copy!Extend
  <2> QED
    BY <2>2, <2>3
<1>4. CASE Seek \/ Close \/ Busy \/ Reject
  BY <1>1, <1>4 DEF Seek, Close, Busy, Reject, fileVars
<1> QED
  BY <1>2, <1>3, <1>4 DEF Server

\* Upload implements FileCopy: the destination is at any time the beginning of
\* the source, grows by one chunk at a time, and is the source when the user
\* is told so.
THEOREM UploadCopies == BusyInTime => (Spec => CopySpec)
<1> SUFFICES ASSUME BusyInTime PROVE Spec => CopySpec
  OBVIOUS
<1>1. Init => Copy!Init
  BY DEF Init, Copy!Init
<1>2. Inv /\ Inv' /\ [Next]_vars => [Copy!Next]_<<file, result>>
  <2> SUFFICES ASSUME Inv, Inv', [Next]_vars PROVE Copy!Next \/ UNCHANGED <<file, result>>
    OBVIOUS
  <2>1. CASE Client
    BY <2>1, ClientConcludes
  <2>2. CASE Server
    BY <2>2, ServerExtends
  <2>3. CASE Line \/ UNCHANGED vars
    BY <2>3 DEF Line, vars, clientVars, fileVars
  <2> QED
    BY <2>1, <2>2, <2>3 DEF Next
<1> QED
  BY <1>1, <1>2, InvHolds, PTL DEF Spec, CopySpec, Copy!Spec

=============================================================================
