------------------------------- MODULE RemRx -------------------------------
(***************************************************************************)
(* The receiver of REMSRV, process_input() in remsrv.c, byte by byte, and  *)
(* the way the client gets it back in step: reset_packet_io() in           *)
(* remctlclient.c floods the line with 0xFF after a reply has not come.    *)
(*                                                                         *)
(* cur_pkt_in_write is an unsigned char although the packet it indexes has *)
(* 261 bytes, so it counts modulo WriteMod = 256.  Of a byte only three    *)
(* things matter: whether it is the mark, what it means as a length, and   *)
(* that it is one of the flood.  The UART FIFO is part of the line: a byte *)
(* that the server does not read yet has not been sent yet.                *)
(***************************************************************************)
EXTENDS Integers

CONSTANTS
    WriteMod,       \* 256: cur_pkt_in_write is 8 bits wide
    HdrSize,        \* 5: sizeof(struct remctl_serial_packet_header)
    Mark,           \* REMCTL_SERIAL_MARK
    FloodByte,      \* 0xFF
    FloodLen,       \* 300: sizeof(tmp) in reset_packet_io()
    PacketLens,     \* data lengths of the packets the client sends
    DataBytes       \* values of the other bytes of a packet

ASSUME WidthAssumption == WriteMod \in Nat /\ HdrSize \in 2..(WriteMod - 1)
ASSUME ByteAssumption  == /\ Mark \in Nat /\ FloodByte \in Nat /\ Mark # FloodByte
                          /\ DataBytes \subseteq Nat
\* A packet the client sends ends before cur_pkt_in_write wraps: the largest
\* are 197 bytes of data (do_memwrite: 5 + 192), and 191 of a FILE command.
ASSUME LengthAssumption ==
    PacketLens \subseteq {n \in Nat : HdrSize + n < WriteMod}
\* A flood is longer than any packet the receiver may be waiting for.
ASSUME FloodAssumption == FloodLen \in Nat /\ FloodLen >= WriteMod

VARIABLES
    cur_pkt_in_write,   \* bytes of the current packet that were stored
    length,             \* cur_pkt_in.hdr.length
    blocked,            \* a reply is being sent, or a packet being handled
    sending,            \* what the client sends: "nothing", "packet", "flood"
    len,                \* data length of the packet it sends
    sent,               \* how much of it is out
    intact              \* nothing was lost or changed since the last flood began

vars == <<cur_pkt_in_write, length, blocked, sending, len, sent, intact>>
server == <<cur_pkt_in_write, length, blocked>>

\* Every byte that occurs.
AnyByte == DataBytes \cup PacketLens \cup {0, Mark, FloodByte}

TypeOK ==
    /\ cur_pkt_in_write \in 0..(WriteMod - 1)
    /\ length \in AnyByte
    /\ blocked \in BOOLEAN
    /\ sending \in {"nothing", "packet", "flood"}
    /\ len \in PacketLens \cup {0}
    /\ sent \in Nat
    /\ intact \in BOOLEAN

Init ==
    /\ cur_pkt_in_write = 0 /\ length = 0
    /\ blocked = FALSE
    /\ sending = "nothing" /\ len = 0 /\ sent = 0
    /\ intact = TRUE

-----------------------------------------------------------------------------
(* The server.                                                             *)

\* ++cur_pkt_in_write, which is an unsigned char.
Incremented(n) == IF n + 1 = WriteMod THEN 0 ELSE n + 1

\* cur_pkt_in holds a whole packet.
Complete == cur_pkt_in_write >= HdrSize + length

\* process_input_packet() releases the packet; the reply may block the next.
Handled == cur_pkt_in_write' = 0 /\ blocked' \in BOOLEAN

\* A reply has been sent and a handler looks at the packet that waited for it.
Unblock ==
    /\ blocked
    /\ IF Complete THEN Handled ELSE cur_pkt_in_write' = cur_pkt_in_write /\ blocked' = FALSE
    /\ UNCHANGED <<length, sending, len, sent, intact>>

\* Mutant: the bytes before the mark are stored, too.
StoreMut(b) ==
    LET write == Incremented(cur_pkt_in_write)
    IN  /\ length' = IF cur_pkt_in_write = 1 THEN b ELSE length
        /\ IF write >= HdrSize + length' /\ ~blocked
             THEN Handled
             ELSE cur_pkt_in_write' = write /\ blocked' = blocked

\* Mutant: the count is compared before it is incremented.
OffByOneMut(b) ==
    /\ length' = IF cur_pkt_in_write = 1 THEN b ELSE length
    /\ IF cur_pkt_in_write = 0 /\ b # Mark
         THEN UNCHANGED <<cur_pkt_in_write, blocked>>
         ELSE IF cur_pkt_in_write >= HdrSize + length' /\ ~blocked
                THEN Handled
                ELSE /\ cur_pkt_in_write' = Incremented(cur_pkt_in_write)
                     /\ blocked' = blocked

\* Mutant: the count is wider than a byte.
WideMut(b) ==
    LET write == cur_pkt_in_write + 1
    IN  /\ length' = IF cur_pkt_in_write = 1 THEN b ELSE length
        /\ IF cur_pkt_in_write = 0 /\ b # Mark
             THEN UNCHANGED <<cur_pkt_in_write, blocked>>
             ELSE IF write >= HdrSize + length' /\ ~blocked
                    THEN Handled
                    ELSE cur_pkt_in_write' = write /\ blocked' = blocked

\* One round of the loop of process_input(), for a byte b it has read.
Store(b) ==
    LET write == Incremented(cur_pkt_in_write)
    IN  /\ length' = IF cur_pkt_in_write = 1 THEN b ELSE length
        /\ IF cur_pkt_in_write = 0 /\ b # Mark
             THEN UNCHANGED <<cur_pkt_in_write, blocked>>
             ELSE IF write >= HdrSize + length' /\ ~blocked
                    THEN Handled
                    ELSE cur_pkt_in_write' = write /\ blocked' = blocked

\* The loop is left, or not entered, while a whole packet is blocked.
Reads == ~(blocked /\ Complete)

-----------------------------------------------------------------------------
(* The client and the line.                                                *)

StartPacket ==
    /\ sending = "nothing"
    /\ sending' = "packet" /\ sent' = 0
    /\ len' \in PacketLens
    /\ UNCHANGED <<server, intact>>

\* reset_packet_io()
StartFlood ==
    /\ sending = "nothing"
    /\ sending' = "flood" /\ sent' = 0
    /\ intact' = TRUE
    /\ UNCHANGED <<server, len>>

\* Mutant: the flood is as long as the longest packet the client sends.
TotalMut == IF sending = "flood" THEN 202 ELSE HdrSize + len

Total == IF sending = "flood" THEN FloodLen ELSE HdrSize + len

\* The byte that comes next.
Comes(b) ==
    \/ sending = "flood" /\ b = FloodByte
    \/ sending = "packet" /\ sent = 0 /\ b = Mark
    \/ sending = "packet" /\ sent = 1 /\ b = len
    \/ sending = "packet" /\ sent > 1 /\ b \in DataBytes

Sent ==
    /\ sent' = sent + 1
    /\ sending' = IF sent + 1 = Total THEN "nothing" ELSE sending
    /\ len' = len

ByteArrives ==
    /\ sending # "nothing" /\ Reads
    /\ \E b \in AnyByte : Comes(b) /\ Store(b)
    /\ Sent /\ intact' = intact

\* A byte gets lost, or another one takes its place.
ByteLost ==
    /\ sending # "nothing"
    /\ Sent /\ intact' = FALSE
    /\ UNCHANGED server

ByteChanged ==
    /\ sending # "nothing" /\ Reads
    /\ \E b \in AnyByte : ~Comes(b) /\ Store(b)
    /\ Sent /\ intact' = FALSE

\* The FIFO overruns while a whole packet is blocked: this part of a flood
\* would have been skipped anyway.
Overrun ==
    /\ sending = "flood" /\ ~Reads
    /\ Sent
    /\ UNCHANGED <<server, intact>>

Next ==
    \/ Unblock
    \/ StartPacket \/ StartFlood
    \/ ByteArrives \/ ByteLost \/ ByteChanged \/ Overrun

Spec == Init /\ [][Next]_vars

-----------------------------------------------------------------------------

\* The server is at the beginning of a packet, or has the whole last one and
\* waits to handle it.
AtBoundary == cur_pkt_in_write = 0 \/ (blocked /\ Complete)

\* reset_packet_io: "to force reset it, we have to flood it with bytes".
\* Once a flood has arrived the server is in step, whatever was lost before,
\* and it stays so between the packets of the client.
InStep == intact /\ sending = "nothing" => AtBoundary

\* Of a packet on a clean line the server has stored what was sent of it, at
\* its place: a shorter or longer one is never handled instead.
Tracking ==
    intact /\ sending = "packet" /\ sent > 0 =>
        /\ cur_pkt_in_write = sent
        /\ sent > 1 => length = len

\* The part of a flood that comes after the partial packet is skipped: it
\* never looks like the beginning of another packet.
FloodSkipped ==
    [][intact' /\ sending = "flood" /\ AtBoundary => AtBoundary']_vars
=============================================================================
