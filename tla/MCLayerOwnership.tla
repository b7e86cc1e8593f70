-------------------------- MODULE MCLayerOwnership --------------------------
(* Every topology of five layers on four nodes: disjoint ones, with and    *)
(* without gaps, and overlapping ones.                                     *)
EXTENDS LayerOwnership

MCRange == {r \in [s : 0 .. 4, e : 0 .. 4] : r.s <= r.e}
AllLayouts == [Node -> MCRange]
=============================================================================
