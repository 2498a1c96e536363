---------------------------- MODULE RemDownload ----------------------------
(***************************************************************************)
(* The command "download" of remctlclient.c against the FILE commands of   *)
(* remsrv.c, over the link of RemLink: OPEN, SEEK to the end for the size, *)
(* SEEK to the start, READ chunk by chunk; after a failed READ reconnect   *)
(* and SEEK back; then CLOSE.                                              *)
(*                                                                         *)
(* A chunk of up to 188 bytes is one number, its place in the file.        *)
(***************************************************************************)
EXTENDS RemLink

CONSTANT Chunks         \* how many chunks the file has

VARIABLES
    step,               \* (client) what it is doing, more precisely than call
    file_size,          \* (client) the size it was told
    copy,               \* (client) what it has written to its output file
    result,             \* (client) what the user is told
    is_open,            \* (server) open_file_fd >= 0
    pos,                \* (DOS) the file pointer
    size                \* (DOS) the size of the file

clientVars == <<step, file_size, copy, result>>
fileVars   == <<is_open, pos, size>>
vars       == <<linkVars, call, clientVars, fileVars>>

\* The command that a step sends.
CallOf == [open |-> "OPEN", size |-> "SEEK", rewind |-> "SEEK", read |-> "READ",
           reconnect |-> "RECONNECT", back |-> "SEEK", close |-> "CLOSE", end |-> "END"]

ToEnd  == -1            \* the SEEK to the end of the file

Init ==
    /\ LinkInit
    /\ step = "open" /\ call = "OPEN"
    /\ file_size = 0 /\ copy = <<>> /\ result = "none"
    /\ is_open = FALSE /\ pos = 0 /\ size = Chunks

-----------------------------------------------------------------------------
(* The client.                                                             *)

Arg == CASE step = "size" -> ToEnd [] step = "back" -> Len(copy) [] OTHER -> 0

SendRequest ==
    /\ call \in {"OPEN", "SEEK", "READ", "CLOSE"}
    /\ Send(Arg)
    /\ UNCHANGED <<clientVars, fileVars>>

GoTo(s) == step' = s /\ call' = CallOf[s] /\ result' = result
End(how) == step' = "end" /\ call' = "END" /\ result' = how

\* A do_file_...() returns -1: only for a READ there is another try.
Fail ==
    /\ IF step = "read" THEN GoTo("reconnect") ELSE End("failed")
    /\ UNCHANGED <<file_size, copy>>

\* while (count < file_size)
Loop == GoTo(IF Len(copy') < file_size' THEN "read" ELSE "close")

\* Mutant: what was read before the end of the file came up is called good.
CloseMut == End("OK")

\* CLOSE has succeeded.
Closed == End(IF Len(copy) = file_size THEN "OK" ELSE "incomplete")

\* Mutant: an empty answer is asked for again.
GotMut(n) ==
    /\ file_size' = file_size
    /\ IF n = 0 THEN GoTo("read") /\ copy' = copy
                ELSE copy' = Append(copy, n) /\ Loop

\* A READ returns chunk n, or nothing at the end of the file.
Got(n) ==
    /\ file_size' = file_size
    /\ IF n = 0 THEN GoTo("close") /\ copy' = copy
                ELSE copy' = Append(copy, n) /\ Loop

\* The SEEK after a reconnection returns a place.
Back(n) == IF n = Len(copy) THEN Loop ELSE End("failed")

\* The step that was carried out succeeds.
Succeed(n) ==
    \/ step = "open"   /\ GoTo("size") /\ UNCHANGED <<file_size, copy>>
    \/ step = "size"   /\ file_size' = n /\ copy' = copy /\ GoTo("rewind")
    \/ step = "rewind" /\ UNCHANGED <<file_size, copy>> /\ Loop
    \/ step = "read"   /\ Got(n)
    \/ step = "back"   /\ UNCHANGED <<file_size, copy>> /\ Back(n)
    \/ step = "close"  /\ Closed /\ UNCHANGED <<file_size, copy>>

\* BUSY: try again; the reply to another command: "I/O write failed".
ReceiveReply(body) ==
    IF body.op = "BUSY" THEN UNCHANGED <<call, clientVars>>
    ELSE IF body.op = call THEN Succeed(body.arg)
    ELSE Fail

Receive ==
    /\ Received
    /\ ReceiveReply(TheReply)
    /\ UNCHANGED fileVars

NoReply ==
    /\ Refused \/ TimedOut
    /\ Fail
    /\ UNCHANGED fileVars

\* do_connect(); without a connection the SEEK fails, and with it the download.
Reconnect ==
    /\ step = "reconnect"
    /\ \/ connected /\ UNCHANGED linkVars /\ GoTo("back")
       \/ Reconnected /\ GoTo("back")
       \/ Offline /\ End("failed")
    /\ UNCHANGED <<file_size, copy, fileVars>>

-----------------------------------------------------------------------------
(* The server.                                                             *)

\* DOS refuses: a file that is not open, or some error of its own.
Refuse(cause) ==
    /\ Answer(Body("MSDOS_ERROR", 0)) /\ busy' = busy
    /\ IF cause THEN faults' = faults ELSE Fault("dos")

\* do_file_open_command(): the prior file is closed in any case.
Open ==
    /\ Request("OPEN", 0)
    /\ \/ Answer(Body("OPEN", 0)) /\ is_open' = TRUE /\ pos' = 0 /\ UNCHANGED <<faults, busy>>
       \/ Refuse(FALSE) /\ is_open' = FALSE /\ pos' = pos
    /\ UNCHANGED <<clientVars, size>>

\* INT 21h, AH = 42h
SeekTo(n) == IF n = ToEnd THEN size ELSE n

\* do_file_seek_command()
Seek ==
    /\ \E n \in ToEnd..Chunks :
         /\ Request("SEEK", n)
         /\ \/ /\ is_open
               /\ pos' = SeekTo(n)
               /\ Answer(Body("SEEK", pos')) /\ UNCHANGED <<faults, busy>>
            \/ Refuse(~is_open) /\ pos' = pos
    /\ UNCHANGED <<clientVars, is_open, size>>

\* do_file_read_command()
Read ==
    /\ Request("READ", 0)
    /\ \/ /\ is_open
          /\ IF pos < size
               THEN Answer(Body("READ", pos + 1)) /\ pos' = pos + 1
               ELSE Answer(Body("READ", 0)) /\ pos' = pos
          /\ UNCHANGED <<faults, busy>>
       \/ Refuse(~is_open) /\ pos' = pos
    /\ UNCHANGED <<clientVars, is_open, size>>

\* REMCTL_SERIAL_TYPE_FILE_CLOSE
Close ==
    /\ Request("CLOSE", 0)
    /\ IF is_open THEN Answer(Body("CLOSE", 0)) /\ UNCHANGED <<faults, busy>> ELSE Refuse(TRUE)
    /\ is_open' = FALSE
    /\ UNCHANGED <<pos, size, clientVars>>

\* The program that runs on the server cuts the file short while it is read.
Shrink ==
    /\ step = "read" /\ Fault("dos")
    /\ size' \in 0..(size - 1)
    /\ UNCHANGED <<c2s, s2c, call, clientSeqs, connected, waiting, serverSeqs, busy,
                   clientVars, is_open, pos>>

Busy ==
    /\ AnswerBusy({"OPEN", "SEEK", "READ", "CLOSE"})
    /\ UNCHANGED <<clientVars, fileVars>>

Reject == RejectRequest /\ UNCHANGED <<clientVars, fileVars>>

Line == (Lose \/ Damage) /\ UNCHANGED <<clientVars, fileVars>>

Client == SendRequest \/ Receive \/ NoReply \/ Reconnect
Server == Open \/ Seek \/ Read \/ Close \/ Busy \/ Reject
Next   == Client \/ Server \/ Shrink \/ Line

Spec == Init /\ [][Next]_vars

\* The client goes on, if only by running out of patience, and the server
\* handles what arrives.
LiveSpec == Spec /\ WF_vars(Client) /\ WF_vars(Server)

-----------------------------------------------------------------------------

\* "Download OK" and nothing less: the output file is at any time the
\* beginning of the file on the server, and all of it when the client says so.
Copy == INSTANCE FileCopy
CopySpec == Copy!Spec

\* The download comes to an end, good or bad.
Finishes == <>(step = "end")
=============================================================================
