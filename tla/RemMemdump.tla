----------------------------- MODULE RemMemdump -----------------------------
(***************************************************************************)
(* The command "memdump" of remctlclient.c, over the link of RemLink:      *)
(* MEMREAD block by block, each repeated, after do_connect(), until it     *)
(* succeeds.                                                               *)
(*                                                                         *)
(* Memory is a sequence of blocks of 192 bytes, the last of which may be   *)
(* shorter; the contents of block n is n.  The reply repeats address and   *)
(* length of the request; the client compares the length only.             *)
(***************************************************************************)
EXTENDS RemLink

CONSTANTS
    Blocks,             \* how many blocks are dumped
    LastIsShort         \* whether the last one is shorter

VARIABLES
    dump                \* (client) the blocks written to the output file

vars == <<linkVars, call, dump>>

Init ==
    /\ LinkInit
    /\ call = IF Blocks = 0 THEN "END" ELSE "MEMREAD"
    /\ dump = <<>>

-----------------------------------------------------------------------------
(* The client.                                                             *)

\* memaddr + what has been read
Wanted == Len(dump) + 1

\* data[4], the length of a block.
IsShort(n) == LastIsShort /\ n = Blocks

SendRequest == call = "MEMREAD" /\ Send(Wanted) /\ dump' = dump

\* Mutant: only the length is compared, which an ERROR leaves in cur_pkt.
FitsMut(body) == body.op = "ERROR" \/ (IsShort(body.arg) <=> IsShort(Wanted))

\* What do_memread() takes for the answer.
Fits(body) == body.op = "MEMREAD" /\ (IsShort(body.arg) <=> IsShort(Wanted))

\* "Reconnecting...": the block is read again.
NotGot == UNCHANGED <<call, dump>>

Receive ==
    /\ Received
    /\ IF Fits(TheReply)
         THEN /\ dump' = Append(dump, TheReply.arg)
              /\ call' = IF Len(dump') < Blocks THEN "MEMREAD" ELSE "END"
         ELSE NotGot

NoReply == (Refused \/ TimedOut) /\ NotGot

\* do_connect(): without -waitconn it may fail, and with it the next try.
Reconnect == call = "MEMREAD" /\ (Reconnected \/ Offline) /\ UNCHANGED <<call, dump>>

-----------------------------------------------------------------------------
(* The server, and the line.                                               *)

Memread ==
    /\ \E n \in 1..Blocks :
         Request("MEMREAD", n) /\ Answer(Body("MEMREAD", n))
    /\ UNCHANGED <<faults, busy, dump>>

Reject == RejectRequest /\ dump' = dump

Line == (Lose \/ Damage) /\ dump' = dump

Client == SendRequest \/ Receive \/ NoReply \/ Reconnect
Server == Memread \/ Reject
Next   == Client \/ Server \/ Line

Spec == Init /\ [][Next]_vars

\* The client goes on, if only by running out of patience, and the server
\* handles what arrives.
LiveSpec == Spec /\ WF_vars(Client) /\ WF_vars(Server)

-----------------------------------------------------------------------------

\* "Dump memory starting at -maddr": each block of the output file is the one
\* of memory in that place.
DumpIsMemory == \A n \in 1..Len(dump) : dump[n] = n

\* Every dump comes to its end: with the sequence numbers of the two sides out
\* of step the request is repeated until they meet again, whatever number a try
\* without a connection has used up.  The exception is a server that never got
\* its first packet right: it waits for 0xFF, which the client does not repeat.
Finishes == <>(call = "END") \/ <>[](cur_pkt_in_seq = NoSeq)
=============================================================================
