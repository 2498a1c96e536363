------------------------------ MODULE MCRemTx ------------------------------
(* RemTx with the real sizes.                                                *)
EXTENDS RemTx

\* What the protocol can ask for: the length is a byte.
AnyRequest == 0..255
=============================================================================
