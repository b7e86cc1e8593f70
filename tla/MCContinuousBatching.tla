------------------------ MODULE MCContinuousBatching ------------------------
(* Requests for TLC: a critical one and up to three of normal priority. *)
EXTENDS ContinuousBatching, TLC

CONSTANTS critical, normal1, normal2, normal3

Priorities == [r \in Requests |-> IF r = critical THEN 0 ELSE 2]
OneBlockEach == [r \in Requests |-> 1]
(* With MaxPrefill = 3: the critical prompt fits its enlarged first chunk, *)
(* the two longest take two chunks, and one of them preempted while the    *)
(* other is between its chunks finds no tokens left to come back at once.  *)
Mixed == [r \in Requests |-> CASE r = critical -> 4 [] r = normal3 -> 1 [] OTHER -> 6]
AllShort == [r \in Requests |-> 1]
=============================================================================
