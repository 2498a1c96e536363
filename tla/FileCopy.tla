------------------------------ MODULE FileCopy ------------------------------
(***************************************************************************)
(* What copying a file in chunks promises, whatever happens to the line:   *)
(* the copy is at all times the beginning of the original, and it is only  *)
(* called good when it is all of it.  Upload and download implement it.    *)
(***************************************************************************)
EXTENDS Integers, Sequences

CONSTANT Chunks         \* how many chunks the original has

VARIABLES
    copy,               \* the copy: chunk numbers, in order
    result              \* what the user is told

Original == [n \in 1..Chunks |-> n]
Results  == {"none", "OK", "incomplete", "failed"}

Init == copy = <<>> /\ result = "none"

\* The next chunk is added, possibly after the user has been told that the
\* copy failed: a packet may still be on its way.
Extend ==
    /\ Len(copy) < Chunks /\ result # "OK"
    /\ copy' = Append(copy, Len(copy) + 1)
    /\ result' = result

Conclude ==
    /\ result = "none" /\ result' \in Results \ {"none"}
    /\ result' = "OK" => copy = Original
    /\ copy' = copy

Next == Extend \/ Conclude

Spec == Init /\ [][Next]_<<copy, result>>
=============================================================================
