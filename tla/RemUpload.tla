----------------------------- MODULE RemUpload -----------------------------
(***************************************************************************)
(* The command "upload" of remctlclient.c against the FILE commands of     *)
(* remsrv.c, over the link of RemLink: CREATE, then WRITE chunk by chunk;  *)
(* after a failed WRITE reconnect and SEEK back; then CLOSE.               *)
(*                                                                         *)
(* A chunk of up to 188 bytes is one number, its place in the source file; *)
(* the file pointer counts chunks.  A short write (a full disk) writes     *)
(* nothing.                                                                *)
(***************************************************************************)
EXTENDS RemLink

CONSTANTS
    Chunks,             \* how many chunks the source file has
    DiskSize            \* how many chunks the disk of the DOS machine takes

ASSUME SizeAssumption == Chunks \in Nat /\ DiskSize \in Nat

VARIABLES
    count,              \* (client) chunks that are written, as far as it knows
    result,             \* (client) what the user is told
    is_open,            \* (server) open_file_fd >= 0
    pos,                \* (DOS) the file pointer
    file                \* (DOS) the chunks of the destination file

clientVars == <<count, result>>
fileVars   == <<is_open, pos, file>>
vars       == <<linkVars, call, clientVars, fileVars>>

Gap == 0                \* what a SEEK beyond the end of the file leaves behind

Init ==
    /\ LinkInit
    /\ call = "CREATE" /\ count = 0 /\ result = "none"
    /\ is_open = FALSE /\ pos = 0 /\ file = <<>>

-----------------------------------------------------------------------------
(* The client.                                                             *)

\* The argument of the command: the chunk to write, or the place to seek.
Arg == CASE call = "WRITE" -> count + 1 [] call = "SEEK" -> count [] OTHER -> 0

SendRequest ==
    /\ call \in {"CREATE", "WRITE", "SEEK", "CLOSE"}
    /\ Send(Arg)
    /\ UNCHANGED <<clientVars, fileVars>>

End(how) == call' = "END" /\ result' = how

\* A do_file_...() returns -1: only for a WRITE there is another try.
Fail ==
    /\ count' = count
    /\ IF call = "WRITE" THEN call' = "RECONNECT" /\ result' = result
                         ELSE End("failed")

GoOn(n) == call' = (IF n < Chunks THEN "WRITE" ELSE "CLOSE") /\ result' = result

\* Mutant: what was not written is sent again.
WrittenAgainMut(n) ==
    IF n = 0 THEN count' = count /\ call' = "WRITE" /\ result' = result
             ELSE count' = count + 1 /\ GoOn(count')

\* A WRITE succeeds, perhaps for fewer bytes than asked for.
Written(n) ==
    IF n = 0 THEN count' = count /\ call' = "CLOSE" /\ result' = result
             ELSE count' = count + 1 /\ GoOn(count')

\* SEEK returns the new file pointer.
Sought(n) == count' = count /\ IF n = count THEN GoOn(count) ELSE End("failed")

\* Mutant: a file of which all is written is called good before CLOSE.
SucceedMut(n) ==
    \/ call = "CREATE" /\ count' = count /\ GoOn(0)
    \/ call = "WRITE" /\ Written(n)
    \/ call = "SEEK" /\ Sought(n)
    \/ call = "CLOSE" /\ count' = count /\ End("OK")

\* The command that was carried out succeeds.
Succeed(n) ==
    \/ call = "CREATE" /\ count' = count /\ GoOn(0)
    \/ call = "WRITE" /\ Written(n)
    \/ call = "SEEK" /\ Sought(n)
    \/ call = "CLOSE" /\ count' = count /\ End(IF count = Chunks THEN "OK" ELSE "incomplete")

\* Mutant: BUSY is taken for success: the rest of cur_pkt is still the request.
ReceiveBusyMut(body) ==
    IF body.op = "BUSY" THEN Succeed(IF call = "SEEK" THEN count ELSE 1)
    ELSE IF body.op = call THEN Succeed(body.arg)
    ELSE Fail

\* BUSY: try again; the reply to another command: "I/O write failed".
ReceiveReply(body) ==
    IF body.op = "BUSY" THEN UNCHANGED <<call, clientVars>>
    ELSE IF body.op = call THEN Succeed(body.arg)
    ELSE Fail

Receive ==
    /\ Received
    /\ ReceiveReply(TheReply)
    /\ UNCHANGED fileVars

NoReply ==
    /\ Refused \/ TimedOut
    /\ Fail
    /\ UNCHANGED fileVars

\* do_connect(); without a connection the SEEK fails, and with it the upload.
Reconnect ==
    /\ call = "RECONNECT"
    /\ \/ connected /\ UNCHANGED linkVars /\ call' = "SEEK" /\ result' = result
       \/ Reconnected /\ call' = "SEEK" /\ result' = result
       \/ Offline /\ End("failed")
    /\ UNCHANGED <<count, fileVars>>

-----------------------------------------------------------------------------
(* The server.                                                             *)

DosError == Answer(Body("MSDOS_ERROR", 0)) /\ busy' = busy

\* do_file_create_command(): the prior file is closed in any case.
Create ==
    /\ Request("CREATE", 0)
    /\ \/ /\ Answer(Body("CREATE", 0))
          /\ is_open' = TRUE /\ pos' = 0 /\ file' = <<>>
          /\ UNCHANGED <<faults, busy>>
       \/ /\ DosError /\ Fault("dos")
          /\ is_open' = FALSE /\ UNCHANGED <<pos, file>>
    /\ UNCHANGED clientVars

\* The file once chunk n is at the file pointer.
Overwritten(n) ==
    [i \in 1..(IF pos < Len(file) THEN Len(file) ELSE pos + 1) |->
        IF i = pos + 1 THEN n ELSE IF i <= Len(file) THEN file[i] ELSE Gap]

\* do_file_write_command()
Write ==
    /\ \E n \in 1..Chunks :
         /\ Request("WRITE", n)
         /\ \/ /\ is_open /\ pos < DiskSize
               /\ Answer(Body("WRITE", 1)) /\ busy' = busy
               /\ file' = Overwritten(n) /\ pos' = pos + 1
               /\ faults' = faults
            \/ /\ is_open /\ pos >= DiskSize
               /\ Answer(Body("WRITE", 0)) /\ busy' = busy
               /\ UNCHANGED <<file, pos, faults>>
            \/ /\ DosError
               /\ IF is_open THEN Fault("dos") ELSE faults' = faults
               /\ UNCHANGED <<file, pos>>
    /\ UNCHANGED <<clientVars, is_open>>

\* do_file_seek_command()
Seek ==
    /\ \E n \in 0..Chunks :
         /\ Request("SEEK", n)
         /\ \/ /\ is_open
               /\ Answer(Body("SEEK", n)) /\ busy' = busy
               /\ pos' = n /\ faults' = faults
            \/ /\ DosError
               /\ IF is_open THEN Fault("dos") ELSE faults' = faults
               /\ pos' = pos
    /\ UNCHANGED <<clientVars, is_open, file>>

\* REMCTL_SERIAL_TYPE_FILE_CLOSE
Close ==
    /\ Request("CLOSE", 0)
    /\ IF is_open THEN Answer(Body("CLOSE", 0)) /\ busy' = busy ELSE DosError
    /\ is_open' = FALSE
    /\ UNCHANGED <<faults, pos, file, clientVars>>

Busy ==
    /\ AnswerBusy({"CREATE", "WRITE", "SEEK", "CLOSE"})
    /\ UNCHANGED <<clientVars, fileVars>>

Reject == RejectRequest /\ UNCHANGED <<clientVars, fileVars>>

Line == (Lose \/ Damage) /\ UNCHANGED <<clientVars, fileVars>>

Client == SendRequest \/ Receive \/ NoReply \/ Reconnect
Server == Create \/ Write \/ Seek \/ Close \/ Busy \/ Reject
Next   == Client \/ Server \/ Line

Spec == Init /\ [][Next]_vars

\* The client goes on, if only by running out of patience, and the server
\* handles what arrives.
LiveSpec == Spec /\ WF_vars(Client) /\ WF_vars(Server)

-----------------------------------------------------------------------------

\* "Upload OK" and nothing less: the destination is at any time the beginning
\* of the source, and it is all of it when the client says so.
Copy == INSTANCE FileCopy WITH copy <- file
CopySpec == Copy!Spec

\* What the client takes for written is in the file, in its place: it never
\* goes back too little after a failure, and never takes the reply to one
\* request for the reply to another.
AckedIsWritten == \A n \in 1..count : n <= Len(file) /\ file[n] = n

\* main(), upload: "Upload OK" is said of a destination file that is the source.
OkMeansWhole == result = "OK" => file = [n \in 1..Chunks |-> n]

\* The upload comes to an end, good or bad.
Finishes == <>(call = "END")
=============================================================================
