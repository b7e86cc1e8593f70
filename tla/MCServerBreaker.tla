--------------------------- MODULE MCServerBreaker ---------------------------
(* A breaker with a few callers for TLC. *)
EXTENDS ServerBreaker
=============================================================================
