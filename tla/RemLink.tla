------------------------------ MODULE RemLink ------------------------------
(***************************************************************************)
(* The packets of the remote control tool between the client               *)
(* (remctlclient.c) and REMSRV (remsrv.c): sequence numbers on both sides, *)
(* and what either end makes of a packet that is lost, damaged or late.    *)
(* RemUpload, RemDownload and RemMemdump add what is sent, and what for.   *)
(*                                                                         *)
(* A packet is lost or damaged as a whole: RemRx shows that the bytes of a *)
(* partial one do not outlive the flood of 0xFF that follows a timeout, so *)
(* the flood itself is not a packet here.  A damaged packet is assumed to  *)
(* fail its 8-bit checksum.                                                *)
(***************************************************************************)
EXTENDS Integers, Sequences

CONSTANTS
    SeqMod,         \* 128: sequence numbers are masked with 0x7F
    Faults,         \* what may go wrong: a subset of AllFaults
    FaultMax,       \* bound: how often, until the command has ended
    BusyMax         \* bound: how often DOS is busy

\* lost, damaged: a request or a reply;  late: the server answers after the
\* client has stopped waiting;  dos: DOS fails;  offline: no reconnection;
\* busylate: a late answer may be BUSY.
AllFaults == {"lost", "damaged", "late", "dos", "offline", "busylate"}

ASSUME SeqAssumption   == SeqMod \in Nat \ {0}
ASSUME FaultAssumption == /\ Faults \subseteq AllFaults
                          /\ FaultMax \in Nat /\ BusyMax \in Nat

VARIABLES
    c2s, s2c,           \* packets on the line, oldest first
    call,               \* (client) the command it is carrying out
    cur_pkt_seq,        \* (client) sequence number of its next packet
    cur_pkt_recv_seq,   \* (client) the one it expects
    connected,          \* (client) conn_fd >= 0
    waiting,            \* (client) in do_recv_packet()
    cur_pkt_in_seq,     \* (server) the one it expects
    cur_pkt_out_seq,    \* (server) sequence number of its next packet
    faults, busy        \* how much went wrong, how often DOS was busy

clientSeqs == <<cur_pkt_seq, cur_pkt_recv_seq>>
serverSeqs == <<cur_pkt_in_seq, cur_pkt_out_seq>>
linkVars   == <<c2s, s2c, clientSeqs, connected, waiting, serverSeqs, faults, busy>>

\* 0xFF: the sequence starts over with this packet.
NoSeq == -1

\* (seq + 1) & 0x7F; in particular 0xFF + 1 is 0.
NextSeq(seq) == IF seq = SeqMod - 1 THEN 0 ELSE seq + 1

\* The client starts and connects; the server has just started, or it has
\* served other clients before, however much and however they ended.
LinkInit ==
    /\ c2s = <<>> /\ s2c = <<>>
    /\ cur_pkt_seq = NoSeq /\ cur_pkt_recv_seq = NoSeq
    /\ connected = TRUE /\ waiting = FALSE
    /\ \/ cur_pkt_in_seq = NoSeq /\ cur_pkt_out_seq = NoSeq
       \/ cur_pkt_in_seq \in 0..(SeqMod - 1) /\ cur_pkt_out_seq \in NoSeq..(SeqMod - 1)
    /\ faults = 0 /\ busy = 0

Body(op, arg) == [op |-> op, arg |-> arg]

Fault(kind) ==
    /\ kind \in Faults /\ call # "END"
    /\ faults < FaultMax /\ faults' = faults + 1

-----------------------------------------------------------------------------
(* The client.                                                             *)

\* remctl_serial_packet_begin(), do_send_packet()
Send(arg) ==
    /\ connected /\ ~waiting
    /\ c2s' = Append(c2s, [seq |-> cur_pkt_seq, body |-> Body(call, arg), good |-> TRUE])
    /\ cur_pkt_seq' = NextSeq(cur_pkt_seq)
    /\ waiting' = TRUE
    /\ UNCHANGED <<s2c, call, cur_pkt_recv_seq, connected, serverSeqs, faults, busy>>

\* Mutant: the sequence number is not looked at.
AcceptsMut(pkt) == pkt.good

\* Checksum and sequence number, in do_recv_packet().
Accepts(pkt) ==
    /\ pkt.good
    /\ pkt.seq = NoSeq \/ cur_pkt_recv_seq = NoSeq \/ pkt.seq = cur_pkt_recv_seq

TheReply == Head(s2c).body

\* do_recv_packet() returns a packet: the command goes on with TheReply.
Received ==
    /\ waiting /\ s2c # <<>> /\ Accepts(Head(s2c))
    /\ s2c' = Tail(s2c)
    /\ cur_pkt_recv_seq' = NextSeq(Head(s2c).seq)
    /\ waiting' = FALSE
    /\ UNCHANGED <<c2s, cur_pkt_seq, connected, serverSeqs, faults, busy>>

\* "Checksum failed", "Sequence failure"
Refused ==
    /\ waiting /\ s2c # <<>> /\ ~Accepts(Head(s2c))
    /\ s2c' = Tail(s2c)
    /\ connected' = FALSE /\ waiting' = FALSE
    /\ UNCHANGED <<c2s, clientSeqs, serverSeqs, faults, busy>>

\* reset_packet_io()
ResetSeqs == cur_pkt_seq' = NoSeq /\ cur_pkt_recv_seq' = NoSeq

\* Mutant: the patience of read_persistent() never ends.
TimedOutMut(late) == FALSE /\ ResetSeqs /\ UNCHANGED <<s2c, faults>>

\* Nothing has come for five seconds: request or reply was lost, or the server
\* is late.  It is late, too, with the ERROR for a request that was cut short
\* and that only the flood completes.
TimedOutUnless(late) ==
    /\ waiting /\ s2c = <<>>
    /\ IF late THEN Fault("late") ELSE faults' = faults
    /\ ResetSeqs
    /\ connected' = FALSE /\ waiting' = FALSE
    /\ UNCHANGED <<c2s, s2c, serverSeqs, busy>>

TimedOut == TimedOutUnless(c2s # <<>>)

\* do_connection(): tcflush() drops what has arrived before the tty is opened.
Reconnected ==
    /\ ~connected /\ connected' = TRUE
    /\ \E n \in 0..Len(s2c) : s2c' = SubSeq(s2c, n + 1, Len(s2c))
    /\ UNCHANGED <<c2s, clientSeqs, waiting, serverSeqs, faults, busy>>

\* do_connect() fails, and with it the next request: do_send_packet() sends
\* nothing, but remctl_serial_packet_begin() has used up its sequence number,
\* which after reset_packet_io() is 0xFF itself.
Offline ==
    /\ ~connected /\ Fault("offline")
    /\ cur_pkt_seq' = NextSeq(cur_pkt_seq)
    /\ UNCHANGED <<c2s, s2c, cur_pkt_recv_seq, connected, waiting, serverSeqs, busy>>

-----------------------------------------------------------------------------
(* The line.                                                               *)

Lose ==
    /\ Fault("lost")
    /\ \/ c2s # <<>> /\ c2s' = Tail(c2s) /\ s2c' = s2c
       \/ s2c # <<>> /\ s2c' = Tail(s2c) /\ c2s' = c2s
    /\ UNCHANGED <<call, clientSeqs, connected, waiting, serverSeqs, busy>>

Damage ==
    /\ Fault("damaged")
    /\ \/ c2s # <<>> /\ c2s' = [c2s EXCEPT ![1].good = FALSE] /\ s2c' = s2c
       \/ s2c # <<>> /\ s2c' = [s2c EXCEPT ![1].good = FALSE] /\ c2s' = c2s
    /\ UNCHANGED <<call, clientSeqs, connected, waiting, serverSeqs, busy>>

-----------------------------------------------------------------------------
(* The server.                                                             *)

\* inpkt_validate()
Valid(pkt) == pkt.good /\ (pkt.seq = NoSeq \/ pkt.seq = cur_pkt_in_seq)

Reply(body) ==
    /\ c2s' = Tail(c2s)
    /\ s2c' = Append(s2c, [seq |-> cur_pkt_out_seq, body |-> body, good |-> TRUE])
    /\ UNCHANGED <<call, clientSeqs, connected, waiting>>

\* process_input_packet() on a packet that does not validate.
RejectRequest ==
    /\ c2s # <<>> /\ ~Valid(Head(c2s))
    /\ Reply(Body("ERROR", 0))
    /\ cur_pkt_out_seq' = NoSeq
    /\ UNCHANGED <<cur_pkt_in_seq, faults, busy>>

\* handle_packet() on one that does.
Answer(body) ==
    /\ Reply(body)
    /\ cur_pkt_in_seq' = NextSeq(Head(c2s).seq)
    /\ cur_pkt_out_seq' = NextSeq(cur_pkt_out_seq)

\* A command that arrives and what it asks for.
Request(op, arg) == c2s # <<>> /\ Valid(Head(c2s)) /\ Head(c2s).body = Body(op, arg)

\* The client still waits for the answer to the request that is handled, as it
\* does if nothing but a DOS call can hold the server up.
Awaited == waiting /\ Len(c2s) = 1

\* safe_to_use_msdos_fs_io() says no.
AnswerBusy(Ops) ==
    /\ Awaited \/ "busylate" \in Faults
    /\ c2s # <<>> /\ Valid(Head(c2s)) /\ Head(c2s).body.op \in Ops
    /\ busy < BusyMax /\ busy' = busy + 1
    /\ Answer(Body("BUSY", 0))
    /\ faults' = faults
=============================================================================
