---------------------------- MODULE MCHAElection ----------------------------
(***************************************************************************)
(* Instances of HAElection for TLC.                                        *)
(***************************************************************************)
EXTENDS HAElection

\* Every coordinator is configured with every other one.
FullMesh == [c \in Coordinator |-> Coordinator \ {c}]

\* Coordinator 1 is not configured with 3: it only learns of it from 3's
\* heartbeats, and counts a cluster of two.
PartialMesh == [c \in Coordinator |->
                    IF c = 1 THEN Coordinator \ {1, 3} ELSE Coordinator \ {c}]

=============================================================================
