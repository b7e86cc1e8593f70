--------------------------- MODULE MCNodeRecovery ---------------------------
(* Three workers over five layers, the middle one with a single layer, or   *)
(* two workers.                                                             *)
EXTENDS NodeRecovery

ThreeNodes == <<[s |-> 0, e |-> 1], [s |-> 2, e |-> 2], [s |-> 3, e |-> 4]>>
TwoNodes == <<[s |-> 0, e |-> 1], [s |-> 2, e |-> 3]>>
=============================================================================
