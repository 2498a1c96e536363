------------------------------- MODULE RemTx -------------------------------
(***************************************************************************)
(* The transmitter of REMSRV, do_process_output() in remsrv.c, and the     *)
(* longest reply there is, the data of FILE READ.  cur_pkt_out_write is an *)
(* unsigned char: it counts modulo WriteMod = 256, though the packet it    *)
(* indexes has 261 bytes.                                                  *)
(*                                                                         *)
(* The contents of a reply are abstracted away: of a byte on the line we   *)
(* only ask which one of cur_pkt_out it is.                                *)
(***************************************************************************)
EXTENDS Integers

\* REMCTL_SERIAL_MARK
Mark == 1

CONSTANTS
    WriteMod,       \* 256: cur_pkt_out_write is 8 bits wide
    HdrSize,        \* 5: sizeof(struct remctl_serial_packet_header)
    ReadMax,        \* 252: the most do_file_read_command() puts in a reply
    Requests,       \* how much the client asks for in a FILE READ
    SentMax         \* bound: bytes put on the line for one reply

ASSUME WidthAssumption == /\ WriteMod \in Nat
                          /\ HdrSize \in Nat \ {0}
                          /\ HdrSize + 2 < WriteMod
ASSUME ReadAssumption  == ReadMax \in Nat /\ Requests \subseteq Nat
ASSUME SentAssumption  == SentMax \in Nat

VARIABLES
    cur_pkt_out_write,  \* index of the next byte of cur_pkt_out to send
    length,             \* cur_pkt_out.hdr.length
    mark,               \* cur_pkt_out.hdr.mark: Mark if a reply is to be sent
    sent                \* bytes of this reply that are on the line

vars == <<cur_pkt_out_write, length, mark, sent>>

TypeOK ==
    /\ cur_pkt_out_write \in 0..(WriteMod - 1)
    /\ length \in 0..(ReadMax + 2)
    /\ mark \in {0, Mark}
    /\ sent \in Nat

Init == cur_pkt_out_write = 0 /\ length = 0 /\ mark = 0 /\ sent = 0

-----------------------------------------------------------------------------

\* Mutant: what DOS returned is not limited.
ReadLengthMut(got) == 2 + got

\* hdr.length of the answer to a FILE READ for which DOS returned got bytes.
ReadLength(got) == 2 + (IF got > ReadMax THEN ReadMax ELSE got)

\* do_file_read_command(): the file may end anywhere, and DOS may refuse, so
\* that the reply is one byte of error code.
FileRead ==
    /\ mark = 0
    /\ \/ \E n \in Requests : \E got \in 0..n : length' = ReadLength(got)
       \/ length' = 1
    /\ mark' = Mark /\ sent' = 0
    /\ UNCHANGED cur_pkt_out_write

\* Mutant: the index is not set back after the last byte of a reply.
StepMut(next) ==
    /\ cur_pkt_out_write' = next
    /\ mark' = IF next < HdrSize + length THEN mark ELSE 0

\* Mutant: the last byte is not sent.
StepShortMut(next) ==
    IF next + 1 >= HdrSize + length
      THEN cur_pkt_out_write' = 0 /\ mark' = 0
      ELSE cur_pkt_out_write' = next /\ mark' = mark

\* Mutant: the mark is not cleared after the last byte.
StepAgainMut(next) ==
    /\ cur_pkt_out_write' = IF next >= HdrSize + length THEN 0 ELSE next
    /\ mark' = mark

\* After ++cur_pkt_out_write: the reply is complete, or there is more of it.
Step(next) ==
    IF next >= HdrSize + length
      THEN cur_pkt_out_write' = 0 /\ mark' = 0
      ELSE cur_pkt_out_write' = next /\ mark' = mark

\* ++cur_pkt_out_write, which is an unsigned char.
Incremented(n) == IF n + 1 = WriteMod THEN 0 ELSE n + 1

\* One round of the loop: the UART has room for a byte.
WriteByte ==
    /\ mark = Mark
    /\ sent < SentMax
    /\ Step(Incremented(cur_pkt_out_write))
    /\ sent' = sent + 1
    /\ UNCHANGED length

Next == FileRead \/ WriteByte

Spec == Init /\ [][Next]_vars
LiveSpec == Spec /\ WF_vars(WriteByte)

-----------------------------------------------------------------------------

\* The reply can be counted with the 8-bit index.  A READ of 249 bytes or more
\* has one that cannot: the index starts over before the end is reached, and
\* the reply is sent for ever.
Indexable == HdrSize + length < WriteMod

\* The next byte sent is the next byte of the reply: no part of it is left
\* out or sent again, and the first byte is the mark, as long as the index can
\* count the reply.
InOrder == Indexable => cur_pkt_out_write = IF mark = Mark THEN sent ELSE 0

\* When the transmitter falls silent the client has all of the reply its
\* header announces, so that do_recv_packet() does not wait for the rest.
SentWhole == sent > 0 /\ mark = 0 => sent = HdrSize + length

\* Every reply that the index can count comes to its end, and the next request
\* can be handled.
ReplyEnds == mark = Mark /\ Indexable ~> mark = 0
=============================================================================
