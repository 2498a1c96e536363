------------------------------- MODULE RemDir -------------------------------
(***************************************************************************)
(* The command "dir" of remctlclient.c against FILE FIND of remsrv.c, over *)
(* the link of RemLink: the only request that is answered by many packets, *)
(* one for each directory entry and one that says FINISHED.                *)
(***************************************************************************)
EXTENDS RemLink

CONSTANT Entries        \* how many entries the search finds

VARIABLES
    listed,             \* (client) the entries it has printed
    r,                  \* (client) what do_begin_dir() or do_next_dir() returned last
    next                \* (server) entry to send; 0: not in do_file_find_command()

vars == <<linkVars, call, listed, r, next>>

Init ==
    /\ LinkInit
    /\ call = "FIND" /\ listed = <<>> /\ r = 1 /\ next = 0

-----------------------------------------------------------------------------
(* The client.                                                             *)

\* The call returns n, 0 or -1.  Once an entry is listed main() says "* done" and
\* exits with 0 after either; only what do_next_dir() tells stderr, and the
\* value itself, tells a listing that was cut short.
End(n) == call' = "END" /\ r' = n /\ listed' = listed

\* The call returns 1: do_print_dir().
Show(n) == call' = "NEXT" /\ r' = 1 /\ listed' = Append(listed, n)

SendRequest == call = "FIND" /\ Send(0) /\ UNCHANGED <<listed, r, next>>

\* do_next_dir() sends nothing.
AwaitNext ==
    /\ call = "NEXT" /\ connected /\ ~waiting /\ waiting' = TRUE
    /\ UNCHANGED <<c2s, s2c, call, clientSeqs, connected, serverSeqs, faults, busy,
                   listed, r, next>>

\* Mutant: every other reply is taken for BUSY.
BeginMut(body) ==
    CASE body.op = "FIND"     -> Show(body.arg)
      [] body.op = "FINISHED" -> End(0)
      [] OTHER                -> UNCHANGED <<call, listed, r>>

\* do_begin_dir(): only here BUSY makes it try again.
Begin(body) ==
    CASE body.op = "FIND"     -> Show(body.arg)
      [] body.op = "FINISHED" -> End(0)
      [] body.op = "BUSY"     -> UNCHANGED <<call, listed, r>>
      [] OTHER                -> End(-1)

\* do_next_dir()
Continue(body) ==
    CASE body.op = "FIND"     -> Show(body.arg)
      [] body.op = "FINISHED" -> End(0)
      [] OTHER                -> End(-1)

Receive ==
    /\ Received
    /\ IF call = "FIND" THEN Begin(TheReply) ELSE Continue(TheReply)
    /\ next' = next

NoReply ==
    /\ Refused \/ TimedOutUnless(c2s # <<>> \/ next # 0)
    /\ End(-1)
    /\ next' = next

-----------------------------------------------------------------------------
(* The server.                                                             *)

\* handle_packet() begins a reply, which do_file_find_command() never sends:
\* its sequence number is used up.
Find ==
    /\ next = 0 /\ Request("FIND", 0)
    /\ c2s' = Tail(c2s)
    /\ cur_pkt_in_seq' = NextSeq(Head(c2s).seq)
    /\ cur_pkt_out_seq' = NextSeq(cur_pkt_out_seq)
    /\ next' = 1
    /\ UNCHANGED <<s2c, call, clientSeqs, connected, waiting, faults, busy, listed, r>>

Emit(body) ==
    /\ s2c' = Append(s2c, [seq |-> cur_pkt_out_seq, body |-> body, good |-> TRUE])
    /\ cur_pkt_out_seq' = NextSeq(cur_pkt_out_seq)
    /\ UNCHANGED <<c2s, call, clientSeqs, connected, waiting, cur_pkt_in_seq, busy,
                   listed, r>>

\* send_dta_find()
SendEntry ==
    /\ next \in 1..Entries
    /\ Emit(Body("FIND", next))
    /\ next' = next + 1 /\ faults' = faults

\* DOS finds no more; any other error of DOS looks the same.
SendFinished ==
    /\ next # 0
    /\ IF next > Entries THEN faults' = faults ELSE Fault("dos")
    /\ Emit(Body("FINISHED", 0))
    /\ next' = 0

Busy == next = 0 /\ AnswerBusy({"FIND"}) /\ UNCHANGED <<listed, r, next>>

Reject == next = 0 /\ RejectRequest /\ UNCHANGED <<listed, r, next>>

Line == (Lose \/ Damage) /\ UNCHANGED <<listed, r, next>>

Client == SendRequest \/ AwaitNext \/ Receive \/ NoReply
Server == Find \/ SendEntry \/ SendFinished \/ Busy \/ Reject
Next   == Client \/ Server \/ Line

Spec == Init /\ [][Next]_vars

\* The client goes on, if only by running out of patience, and the server
\* handles what arrives.
LiveSpec == Spec /\ WF_vars(Client) /\ WF_vars(Server)

-----------------------------------------------------------------------------

\* Whatever is lost on the line, the listing has no gap after its first entry
\* and nothing twice: do_recv_packet() sees from the sequence numbers that an
\* entry is missing.
NoGap == \A i \in 2..Len(listed) : listed[i] = listed[i - 1] + 1

\* do_next_dir() returns 0, not -1 with a message on stderr, only after the last
\* entry: no loss on the line is taken for the end of the directory.  main()
\* says "* done" in either case.
FinishedMeansToTheEnd == r = 0 /\ listed # <<>> => listed[Len(listed)] = Entries

\* The listing comes to an end, good or bad.
Finishes == <>(call = "END")
=============================================================================
