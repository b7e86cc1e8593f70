-------------------------- MODULE MCRecoveryDrill --------------------------
(* Two workers, one of which fails while a drill is run.                    *)
EXTENDS RecoveryDrill

TwoNodes == <<[s |-> 0, e |-> 1], [s |-> 2, e |-> 3]>>
============================================================================
