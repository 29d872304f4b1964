--------------------------- MODULE MCClientSession ---------------------------
(* Values of the constants of ClientSession for TLC. *)
EXTENDS ClientSession
=============================================================================
