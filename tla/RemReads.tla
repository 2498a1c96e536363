------------------------------ MODULE RemReads ------------------------------
(***************************************************************************)
(* The commands that read from the server, one for each run of the client: *)
(* which one is chosen at the start.                                       *)
(***************************************************************************)
EXTENDS Integers, Sequences

CONSTANTS
    SeqMod, FaultMax, BusyMax,          \* as in RemLink
    DirFaults, DumpFaults, CopyFaults,  \* what may go wrong in each
    Entries,                            \* dir: how many the search finds
    Blocks, LastIsShort,                \* memdump: how many, and the last one
    Chunks                              \* download: how many the file has

ASSUME LinkAssumption == SeqMod \in Nat \ {0} /\ FaultMax \in Nat /\ BusyMax \in Nat
ASSUME SizeAssumption == Entries \in Nat /\ Blocks \in Nat /\ Chunks \in Nat

VARIABLES
    cmd,
    c2s, s2c, call, cur_pkt_seq, cur_pkt_recv_seq, connected, waiting,
    cur_pkt_in_seq, cur_pkt_out_seq, faults, busy,
    listed, r, next,                            \* dir
    dump,                                           \* memdump
    step, file_size, copy, result, is_open, pos, size   \* download

dirVars  == <<listed, r, next>>
copyVars == <<step, file_size, copy, result, is_open, pos, size>>
linkVars == <<c2s, s2c, call, cur_pkt_seq, cur_pkt_recv_seq, connected, waiting,
              cur_pkt_in_seq, cur_pkt_out_seq, faults, busy>>
vars     == <<cmd, linkVars, dirVars, dump, copyVars>>

Dir      == INSTANCE RemDir WITH Faults <- DirFaults
Memdump  == INSTANCE RemMemdump WITH Faults <- DumpFaults
Download == INSTANCE RemDownload WITH Faults <- CopyFaults

\* The variables of a command that is not carried out.
NoDir  == listed = <<>> /\ r = 1 /\ next = 0
NoDump == dump = <<>>
NoCopy == /\ step = "open" /\ file_size = 0 /\ copy = <<>> /\ result = "none"
          /\ is_open = FALSE /\ pos = 0 /\ size = Chunks

Init ==
    \/ cmd = "dir" /\ Dir!Init /\ NoDump /\ NoCopy
    \/ cmd = "memdump" /\ Memdump!Init /\ NoDir /\ NoCopy
    \/ cmd = "download" /\ Download!Init /\ NoDir /\ NoDump

Only(command, others) == cmd = command /\ UNCHANGED <<cmd, others>>

Client ==
    \/ Only("dir", <<dump, copyVars>>) /\ Dir!Client
    \/ Only("memdump", <<dirVars, copyVars>>) /\ Memdump!Client
    \/ Only("download", <<dirVars, dump>>) /\ Download!Client
Server ==
    \/ Only("dir", <<dump, copyVars>>) /\ Dir!Server
    \/ Only("memdump", <<dirVars, copyVars>>) /\ Memdump!Server
    \/ Only("download", <<dirVars, dump>>) /\ Download!Server
World ==
    \/ Only("dir", <<dump, copyVars>>) /\ Dir!Line
    \/ Only("memdump", <<dirVars, copyVars>>) /\ Memdump!Line
    \/ Only("download", <<dirVars, dump>>) /\ (Download!Line \/ Download!Shrink)

Next == Client \/ Server \/ World

Spec == Init /\ [][Next]_vars

\* The client goes on, if only by running out of patience, and the server
\* handles what arrives.
LiveSpec == Spec /\ WF_vars(Client) /\ WF_vars(Server)

\* Whatever is lost on the line, a listing has no gap after its first entry and
\* nothing twice.
NoGap == Dir!NoGap

\* A listing that ends without an error, do_next_dir() having returned 0, goes
\* on to the last entry; "* done" says less.
FinishedMeansToTheEnd == Dir!FinishedMeansToTheEnd

\* Each block of a dump is the one of memory in that place.
DumpIsMemory == Memdump!DumpIsMemory

\* "Download OK" and nothing less: download implements FileCopy.
DownloadCopies == Download!CopySpec

\* Every one of the commands comes to an end, but for a dump from a server that
\* never had its first packet right: it waits for 0xFF.
Finishes ==
    /\ cmd = "dir" => Dir!Finishes
    /\ cmd = "memdump" => Memdump!Finishes
    /\ cmd = "download" => Download!Finishes
=============================================================================
