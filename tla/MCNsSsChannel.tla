--------------------------- MODULE MCNsSsChannel ---------------------------
(* Small instances of NsSsChannel for TLC. *)
EXTENDS NsSsChannel
=============================================================================
