--------------------------- MODULE LayerOwnership ---------------------------
(***************************************************************************)
(* What NodeRecoveryManager (dist/recovery.py) promises about layers: the  *)
(* registered topology, the survivors that still have weights to load, and *)
(* how a failure changes them, as if a recovery were one step.             *)
(* NodeRecovery, where it takes many, is shown to implement this.          *)
(***************************************************************************)
EXTENDS LayerRedistribution

CONSTANTS
    Node,        \* the worker nodes
    Layouts      \* the topologies set_layer_assignments may be given

ASSUME NodeAssumption == Node \subseteq Nat /\ IsFiniteSet(Node)
ASSUME LayoutsAssumption ==
    \A a \in Layouts : /\ DOMAIN a \subseteq Node
                       /\ a \in [DOMAIN a -> LayerRange]

VARIABLES
    assignments,   \* _layer_assignments
    pending        \* _pending_weight_reload

vars == <<assignments, pending>>

TypeOK ==
    /\ DOMAIN assignments \subseteq Node
    /\ assignments \in [DOMAIN assignments -> LayerRange]
    /\ pending \subseteq Node

Init ==
    /\ assignments \in Layouts
    /\ pending = {}

\* A node fails: step 5 of _on_node_failure_impl.  Without a redistribution (the
\* last node failed) the topology is left as it was, the failed node included.
Fail(n) ==
    /\ n \in DOMAIN assignments
    /\ \E plan \in ComputeRedistributions(Without(assignments, n), assignments[n]) :
          IF DOMAIN plan = {}
          THEN UNCHANGED vars
          ELSE /\ assignments' = Refreshed(Without(assignments, n), plan)
               /\ pending' = pending \cup Flagged(plan)

\* mark_weights_loaded.
MarkWeightsLoaded(n) ==
    /\ pending' = pending \ {n}
    /\ UNCHANGED assignments

Next == \E n \in Node : Fail(n) \/ MarkWeightsLoaded(n)

Spec == Init /\ [][Next]_vars

-----------------------------------------------------------------------------
(* Properties.                                                             *)

\* A failure never makes two nodes claim one layer: however many nodes have
\* failed, a topology that was disjoint still is ("no layer index is claimed by
\* two nodes").
DisjointKept == [][Disjoint(assignments) => Disjoint(assignments)']_vars

\* Nor does it drop a layer: what a disjoint topology served before the failure,
\* it serves after it.
CoverageKept ==
    [][Disjoint(assignments) => Owned(assignments) \subseteq Owned(assignments)']_vars

\* Even where ranges overlapped and everything is partitioned anew, each layer of
\* the node that went is owned by a survivor.
OrphansAdopted ==
    [][\A n \in DOMAIN assignments \ DOMAIN assignments' :
          Layers(assignments[n]) \subseteq Owned(assignments)']_vars

\* The ranges follow one another without a gap.
Gapless(layout) ==
    \A n, m \in DOMAIN layout :
        layout[n].e + 1 < layout[m].s =>
            \E k \in DOMAIN layout : layout[k].s = layout[n].e + 1

\* In a disjoint topology without gaps, a node that a failure gives layers it did
\* not have is marked as having weights to load ("Entries that change ownership
\* have requires_weight_load=True").
GainsFlagged ==
    [][Disjoint(assignments) /\ Gapless(assignments) =>
          \A n \in DOMAIN assignments' :
              Layers(assignments'[n]) \subseteq Layers(assignments[n]) \/ n \in pending']_vars
=============================================================================
