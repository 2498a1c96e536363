------------------------------ MODULE MCRemRx ------------------------------
(* RemRx with the real sizes; the bytes that matter: zero, the mark, lengths *)
(* around the wrap of cur_pkt_in_write and the flood byte.                   *)
EXTENDS RemRx

Bytes == {0, 1, 100, 250, 251, 255}

\* PING and the longest packet of the client (do_memwrite of 192 bytes).
Lens == {4, 197}
============================================================================
