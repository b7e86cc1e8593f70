----------------------- MODULE LayerOwnership_proofs -----------------------
(***************************************************************************)
(* Proofs about LayerOwnership, for any nodes, any number of layers, any   *)
(* topology to start from and any sequence of failures.                    *)
(***************************************************************************)
EXTENDS LayerOwnership, LayerRedistribution_proofs

-----------------------------------------------------------------------------
(* Any topology.                                                            *)

\* What the failure of n does, whether ranges overlap or not.
LEMMA FailSound ==
    ASSUME TypeOK, NEW n \in Node, Fail(n), ~ UNCHANGED vars
    PROVE  /\ DOMAIN assignments' = DOMAIN assignments \ {n}
           /\ assignments' \in [DOMAIN assignments' -> LayerRange]
           /\ Layers(assignments[n]) \subseteq Owned(assignments')
           /\ pending' \subseteq Node
<1> DEFINE survivors == Without(assignments, n)
           failed == assignments[n]
<1>1. /\ DOMAIN survivors = DOMAIN assignments \ {n}
      /\ \A m \in DOMAIN survivors : survivors[m] = assignments[m]
      /\ survivors = [m \in DOMAIN survivors |-> survivors[m]]
      /\ n \in DOMAIN assignments
    BY DEF Without, Fail
<1>2. PICK plan \in ComputeRedistributions(survivors, failed) :
        /\ DOMAIN plan # {}
        /\ assignments' = Refreshed(survivors, plan)
        /\ pending' = pending \cup Flagged(plan)
    BY DEF Fail
<1> HIDE DEF survivors
<1>3. Survivors(survivors) /\ failed \in LayerRange
    <2>1. DOMAIN survivors \subseteq Nat /\ IsFiniteSet(DOMAIN survivors)
        BY <1>1, NodeAssumption, FS_Subset DEF TypeOK
    <2>2. \A m \in DOMAIN survivors : survivors[m] \in LayerRange
        BY <1>1 DEF TypeOK
    <2>3. survivors \in [DOMAIN survivors -> LayerRange]
        BY <1>1, <2>2
    <2> QED BY <1>1, <2>1, <2>3 DEF Survivors, TypeOK
<1>4. DOMAIN survivors # {}
    BY <1>2 DEF ComputeRedistributions
<1> HIDE DEF failed
<1>5. /\ DOMAIN plan \subseteq DOMAIN survivors
      /\ assignments' \in [DOMAIN survivors -> LayerRange]
      /\ Layers(failed) \subseteq Owned(assignments')
    BY <1>2, <1>3, <1>4, PlanSound
<1>6. Flagged(plan) \subseteq Node
    BY <1>1, <1>5 DEF Flagged, TypeOK
<1>7. DOMAIN assignments' = DOMAIN survivors
    BY <1>5
<1>8. pending' \subseteq Node
    BY <1>2, <1>6 DEF TypeOK
<1> QED BY <1>1, <1>5, <1>7, <1>8 DEF failed

LEMMA TypeStep == TypeOK /\ [Next]_vars => TypeOK'
<1> SUFFICES ASSUME TypeOK, [Next]_vars PROVE TypeOK'
    OBVIOUS
<1>1. CASE UNCHANGED vars
    BY <1>1 DEF TypeOK, vars
<1>2. ASSUME NEW n \in Node, Fail(n), ~ UNCHANGED vars PROVE TypeOK'
    <2>1. /\ DOMAIN assignments' = DOMAIN assignments \ {n}
          /\ assignments' \in [DOMAIN assignments' -> LayerRange]
          /\ pending' \subseteq Node
        BY <1>2, FailSound
    <2> QED BY <2>1 DEF TypeOK
<1>3. ASSUME NEW n \in Node, MarkWeightsLoaded(n) PROVE TypeOK'
    BY <1>3 DEF TypeOK, MarkWeightsLoaded
<1> QED BY <1>1, <1>2, <1>3 DEF Next

\* Whatever topology was registered, after any failures every node left has a range of
\* layers that is not empty: neither absorption nor re-partition ever breaks one.
THEOREM OwnershipTypes == Spec => []TypeOK
<1>1. Init => TypeOK
    BY LayoutsAssumption DEF Init, TypeOK
<1> QED BY <1>1, TypeStep, PTL DEF Spec

\* Whatever topology was registered, overlaps and gaps included, each layer of a node that
\* _on_node_failure_impl takes out is owned by a survivor.
THEOREM OrphansAreAdopted == Spec => OrphansAdopted
<1>1. TypeOK /\ [Next]_vars =>
        [\A n \in DOMAIN assignments \ DOMAIN assignments' :
           Layers(assignments[n]) \subseteq Owned(assignments)']_vars
    <2> SUFFICES ASSUME TypeOK, Next, ~ UNCHANGED vars,
                        NEW n \in DOMAIN assignments \ DOMAIN assignments'
                 PROVE  Layers(assignments[n]) \subseteq Owned(assignments)'
        OBVIOUS
    <2>1. ASSUME NEW f \in Node, Fail(f) PROVE Layers(assignments[n]) \subseteq Owned(assignments)'
        <3>1. /\ DOMAIN assignments' = DOMAIN assignments \ {f}
              /\ Layers(assignments[f]) \subseteq Owned(assignments')
            BY <2>1, FailSound
        <3>2. n = f
            BY <3>1
        <3> QED BY <3>1, <3>2 DEF Owned, Layers
    <2>2. ASSUME NEW f \in Node, MarkWeightsLoaded(f) PROVE FALSE
        BY <2>2 DEF MarkWeightsLoaded
    <2> QED BY <2>1, <2>2 DEF Next
<1> QED BY <1>1, OwnershipTypes, PTL DEF Spec, OrphansAdopted

-----------------------------------------------------------------------------
(* A topology without overlaps.                                             *)

\* Overlap would send a failure down the path of the full re-partition; without it every
\* failure is one of neighbour absorption.
Inv == TypeOK /\ Disjoint(assignments)

\* What the failure of n does to a disjoint topology.
LEMMA FailStep ==
    ASSUME Inv, NEW n \in Node, Fail(n)
    PROVE  LET survivors == Without(assignments, n)
           IN  \/ UNCHANGED vars
               \/ /\ Clean(survivors, assignments[n])
                  /\ DOMAIN survivors # {}
                  /\ assignments' = Refreshed(survivors, Absorption(survivors, assignments[n]))
                  /\ pending' = pending \cup Flagged(Absorption(survivors, assignments[n]))
<1> DEFINE survivors == Without(assignments, n)
           failed == assignments[n]
<1>1. /\ survivors = [m \in DOMAIN assignments \ {n} |-> assignments[m]]
      /\ n \in DOMAIN assignments
    BY DEF Without, Fail
<1>2. Clean(survivors, failed)
    <2>1. survivors \in [DOMAIN survivors -> LayerRange] /\ failed \in LayerRange
        BY <1>1 DEF Inv, TypeOK
    <2>2. Disjoint(survivors)
        BY <1>1 DEF Inv, Disjoint
    <2>3. \A m \in DOMAIN survivors : Apart(survivors[m], failed)
        BY <1>1 DEF Inv, Disjoint
    <2> QED BY <2>1, <2>2, <2>3 DEF Clean, CleanTiling
<1>3. CASE DOMAIN survivors = {}
    <2>1. ComputeRedistributions(survivors, failed) = {survivors}
        BY <1>3 DEF ComputeRedistributions
    <2> QED BY <1>3, <2>1 DEF Fail
<1>4. CASE DOMAIN survivors # {}
    <2>1. ComputeRedistributions(survivors, failed) = {Absorption(survivors, failed)}
        BY <1>2, <1>4 DEF ComputeRedistributions, Clean
    <2>2. DOMAIN Absorption(survivors, failed) # {}
        <3> HIDE DEF survivors, failed
        <3>1. Left(survivors, failed) # {} \/ Right(survivors, failed) # {}
            BY <1>2, <1>4, NeighbourExists
        <3>2. DOMAIN Absorption(survivors, failed)
                = Left(survivors, failed) \cup Right(survivors, failed)
            BY <1>2, <1>4, AbsorptionShape
        <3> QED BY <3>1, <3>2
    <2>3. PICK plan \in ComputeRedistributions(survivors, failed) :
              IF DOMAIN plan = {}
              THEN UNCHANGED vars
              ELSE /\ assignments' = Refreshed(survivors, plan)
                   /\ pending' = pending \cup Flagged(plan)
        BY DEF Fail
    <2>4. plan = Absorption(survivors, failed)
        BY <2>1, <2>3
    <2> QED BY <1>2, <1>4, <2>2, <2>3, <2>4
<1> QED BY <1>3, <1>4

LEMMA InvStep == Inv /\ [Next]_vars => Inv'
<1> SUFFICES ASSUME Inv, [Next]_vars PROVE Inv'
    OBVIOUS
<1>1. CASE UNCHANGED vars
    BY <1>1 DEF Inv, TypeOK, Disjoint, vars
<1>2. ASSUME NEW n \in Node, Fail(n), ~ UNCHANGED vars PROVE Inv'
    <2> DEFINE survivors == Without(assignments, n)
               plan == Absorption(survivors, assignments[n])
    <2>1. /\ Clean(survivors, assignments[n]) /\ DOMAIN survivors # {}
          /\ assignments' = Refreshed(survivors, plan)
          /\ pending' = pending \cup Flagged(plan)
        BY <1>2, FailStep
    <2>2. /\ assignments' \in [DOMAIN survivors -> LayerRange]
          /\ Disjoint(assignments')
        BY <2>1, AbsorptionSound
    <2>3. DOMAIN survivors \subseteq Node
        BY DEF Inv, TypeOK, Without
    <2>4. Flagged(plan) \subseteq Node
        <3>1. DOMAIN plan = Left(survivors, assignments[n]) \cup Right(survivors, assignments[n])
            BY <2>1, AbsorptionShape
        <3> QED BY <2>3, <3>1 DEF Flagged, Left, Right
    <2> HIDE DEF survivors, plan
    <2>5. Disjoint(assignments)'
        BY <2>2 DEF Disjoint
    <2> QED BY <2>1, <2>2, <2>3, <2>4, <2>5 DEF Inv, TypeOK
<1>3. ASSUME NEW n \in Node, MarkWeightsLoaded(n) PROVE Inv'
    BY <1>3 DEF Inv, TypeOK, Disjoint, MarkWeightsLoaded
<1> QED BY <1>1, <1>2, <1>3 DEF Next

\* Started from a topology where no layer is claimed twice, no sequence of failures
\* of _on_node_failure_impl ever makes two nodes claim one layer.
THEOREM NeverTwoOwners ==
    ASSUME \A a \in Layouts : Disjoint(a)
    PROVE  Spec => []Disjoint(assignments)
<1>1. Init => Inv
    BY LayoutsAssumption DEF Init, Inv, TypeOK
<1>2. Inv => Disjoint(assignments)
    BY DEF Inv
<1> QED BY <1>1, <1>2, InvStep, PTL DEF Spec

\* The same step by step, from any topology: a failure keeps a disjoint one disjoint.
THEOREM FailureKeepsDisjoint == Spec => DisjointKept
<1>1. TypeOK /\ [Next]_vars => [Disjoint(assignments) => Disjoint(assignments)']_vars
    BY InvStep DEF Inv
<1> QED BY <1>1, OwnershipTypes, PTL DEF Spec, DisjointKept

\* No failure drops a layer: what was served before is served after, for as long
\* as one node is left.
THEOREM FailureKeepsCoverage == Spec => CoverageKept
<1>1. TypeOK /\ [Next]_vars =>
        [Disjoint(assignments) => Owned(assignments) \subseteq Owned(assignments)']_vars
    <2> SUFFICES ASSUME Inv, Next, ~ UNCHANGED vars
                 PROVE  Owned(assignments) \subseteq Owned(assignments)'
        BY DEF Inv
    <2>1. ASSUME NEW n \in Node, Fail(n) PROVE Owned(assignments) \subseteq Owned(assignments)'
        <3> DEFINE survivors == Without(assignments, n)
                   new == Refreshed(survivors, Absorption(survivors, assignments[n]))
        <3>1. /\ Clean(survivors, assignments[n]) /\ DOMAIN survivors # {}
              /\ assignments' = new
            BY <2>1, FailStep
        <3>2. /\ \A m \in DOMAIN survivors : Layers(survivors[m]) \subseteq Layers(new[m])
              /\ Layers(assignments[n]) \subseteq Owned(new)
              /\ new \in [DOMAIN survivors -> LayerRange]
            BY <3>1, AbsorptionSound
        <3>3. /\ DOMAIN survivors = DOMAIN assignments \ {n}
              /\ \A m \in DOMAIN survivors : survivors[m] = assignments[m]
            BY DEF Without
        <3> HIDE DEF survivors, new
        <3>4. Owned(assignments) \subseteq Owned(new)
            BY <3>2, <3>3 DEF Owned
        <3> QED BY <3>1, <3>4 DEF Owned
    <2>2. ASSUME NEW n \in Node, MarkWeightsLoaded(n)
          PROVE  Owned(assignments) \subseteq Owned(assignments)'
        BY <2>2 DEF MarkWeightsLoaded, Owned
    <2> QED BY <2>1, <2>2 DEF Next
<1> QED BY <1>1, OwnershipTypes, PTL DEF Spec, CoverageKept

\* In a topology without gaps, a survivor that absorption gives layers is flagged.
LEMMA AbsorptionFlags ==
    ASSUME Inv, Gapless(assignments), NEW n \in DOMAIN assignments,
           Clean(Without(assignments, n), assignments[n]),
           DOMAIN Without(assignments, n) # {}
    PROVE  LET survivors == Without(assignments, n)
               plan == Absorption(survivors, assignments[n])
               new == Refreshed(survivors, plan)
           IN  \A m \in DOMAIN survivors :
                   Layers(new[m]) \subseteq Layers(assignments[m]) \/ m \in Flagged(plan)
<1> DEFINE survivors == Without(assignments, n)
           failed == assignments[n]
           left == Left(survivors, failed)
           right == Right(survivors, failed)
           share == LeftShare(survivors, failed)
           mid == failed.s + share
           plan == Absorption(survivors, failed)
           new == Refreshed(survivors, plan)
<1>1. /\ DOMAIN survivors = DOMAIN assignments \ {n}
      /\ \A m \in DOMAIN survivors : survivors[m] = assignments[m]
    BY DEF Without
<1>2. \A m \in DOMAIN assignments :
          /\ assignments[m].s \in Nat /\ assignments[m].e \in Nat
          /\ assignments[m].s <= assignments[m].e
    BY DEF Inv, TypeOK, LayerRange
<1>3. \A m, k \in DOMAIN assignments :
          m # k => assignments[m].e < assignments[k].s \/ assignments[k].e < assignments[m].s
    BY DEF Inv, Disjoint, Apart
<1>4. /\ left \subseteq DOMAIN survivors /\ right \subseteq DOMAIN survivors
      /\ \A m \in left : assignments[m].e < failed.s
      /\ \A m \in right : assignments[m].s > failed.e
      /\ \A m \in left, k \in DOMAIN survivors :
            assignments[k].e < failed.s => assignments[k].s <= assignments[m].s
      /\ \A m \in right, k \in DOMAIN survivors :
            assignments[k].s > failed.e => assignments[m].s <= assignments[k].s
    BY <1>1 DEF Left, Right
<1>5. /\ DOMAIN plan = left \cup right
      /\ \A m \in left : new[m].s = survivors[m].s /\ new[m].e = mid - 1
      /\ \A m \in right : new[m].s = mid /\ new[m].e = survivors[m].e
      /\ \A m \in DOMAIN survivors \ (left \cup right) : new[m] = survivors[m]
    BY AbsorptionShape
<1>6. share \in 0 .. Size(failed) /\ failed.s \in Nat /\ failed.e \in Nat
      /\ Size(failed) = failed.e - failed.s + 1 /\ failed.s <= failed.e
    <2>1. share \in 0 .. Size(failed)
        BY ShareSplits
    <2> QED BY <1>2, <2>1 DEF Size
<1>7. /\ \A m \in left : plan[m].load = (share > 0)
      /\ \A m \in right : m \notin left => plan[m].load = (share < Size(failed))
    BY DEF Absorption, ExtendLeft, ExtendRight
<1> HIDE DEF survivors, left, right, share, plan, new
<1>8. ASSUME NEW m \in left, share = 0 PROVE Layers(new[m]) \subseteq Layers(assignments[m])
    <2>1. assignments[m].e + 1 = failed.s
        <3> SUFFICES ASSUME assignments[m].e + 1 < failed.s PROVE FALSE
            BY <1>1, <1>2, <1>4, <1>6
        <3>1. PICK k \in DOMAIN assignments : assignments[k].s = assignments[m].e + 1
            BY <1>1, <1>4 DEF Gapless
        <3>2. k \in DOMAIN survivors
            BY <1>1, <1>6, <3>1
        <3>3. assignments[k].e < failed.s
            BY <1>1, <1>2, <1>3, <1>6, <3>1, <3>2
        <3> QED BY <1>1, <1>2, <1>4, <3>1, <3>2, <3>3
    <2>2. new[m].s = assignments[m].s /\ new[m].e = assignments[m].e
        BY <1>1, <1>2, <1>4, <1>5, <1>6, <1>8, <2>1
    <2> QED BY <2>2 DEF Layers
<1>9. ASSUME NEW m \in right, share = Size(failed)
      PROVE  Layers(new[m]) \subseteq Layers(assignments[m])
    <2>1. assignments[m].s = failed.e + 1
        <3> SUFFICES ASSUME failed.e + 1 < assignments[m].s PROVE FALSE
            BY <1>1, <1>2, <1>4, <1>6
        <3>1. PICK k \in DOMAIN assignments : assignments[k].s = failed.e + 1
            BY <1>1, <1>4 DEF Gapless
        <3>2. k \in DOMAIN survivors
            BY <1>1, <1>6, <3>1
        <3> QED BY <1>1, <1>2, <1>4, <1>6, <3>1, <3>2
    <2>2. new[m].s = assignments[m].s /\ new[m].e = assignments[m].e
        BY <1>1, <1>2, <1>4, <1>5, <1>6, <1>9, <2>1
    <2> QED BY <2>2 DEF Layers
<1>10. ASSUME NEW m \in DOMAIN survivors
       PROVE  Layers(new[m]) \subseteq Layers(assignments[m]) \/ m \in Flagged(plan)
    <2>1. CASE m \in left
        <3>1. CASE share = 0
            BY <1>8, <2>1, <3>1
        <3>2. CASE share > 0
            BY <1>5, <1>7, <2>1, <3>2 DEF Flagged
        <3> QED BY <1>6, <3>1, <3>2
    <2>2. CASE m \in right /\ m \notin left
        <3>1. CASE share = Size(failed)
            BY <1>9, <2>2, <3>1
        <3>2. CASE share < Size(failed)
            BY <1>5, <1>7, <2>2, <3>2 DEF Flagged
        <3> QED BY <1>6, <3>1, <3>2
    <2>3. CASE m \notin left \cup right
        BY <1>1, <1>5, <2>3
    <2> QED BY <2>1, <2>2, <2>3
<1> QED BY <1>10 DEF survivors, plan, new

\* In a topology without overlaps or gaps, a failure gives nobody layers without
\* recording that their weights must be loaded.
THEOREM FailureFlagsGains == Spec => GainsFlagged
<1>1. TypeOK /\ [Next]_vars =>
        [Disjoint(assignments) /\ Gapless(assignments) =>
          \A n \in DOMAIN assignments' :
              Layers(assignments'[n]) \subseteq Layers(assignments[n]) \/ n \in pending']_vars
    <2> SUFFICES ASSUME Inv, Next, ~ UNCHANGED vars, Gapless(assignments),
                        NEW m \in DOMAIN assignments'
                 PROVE  Layers(assignments'[m]) \subseteq Layers(assignments[m]) \/ m \in pending'
        BY DEF Inv
    <2>1. ASSUME NEW n \in Node, Fail(n)
          PROVE  Layers(assignments'[m]) \subseteq Layers(assignments[m]) \/ m \in pending'
        <3> DEFINE survivors == Without(assignments, n)
                   plan == Absorption(survivors, assignments[n])
                   new == Refreshed(survivors, plan)
        <3>1. /\ Clean(survivors, assignments[n]) /\ DOMAIN survivors # {}
              /\ assignments' = new /\ pending' = pending \cup Flagged(plan)
            BY <2>1, FailStep
        <3>2. n \in DOMAIN assignments
            BY <2>1 DEF Fail
        <3>3. \A k \in DOMAIN survivors :
                  Layers(new[k]) \subseteq Layers(assignments[k]) \/ k \in Flagged(plan)
            BY <3>1, <3>2, AbsorptionFlags
        <3>4. DOMAIN new = DOMAIN survivors
            BY DEF Refreshed
        <3> HIDE DEF survivors, plan, new
        <3> QED BY <3>1, <3>3, <3>4
    <2>2. ASSUME NEW n \in Node, MarkWeightsLoaded(n)
          PROVE  Layers(assignments'[m]) \subseteq Layers(assignments[m])
        <3>1. assignments' = assignments
            BY <2>2 DEF MarkWeightsLoaded
        <3> QED BY <3>1
    <2> QED BY <2>1, <2>2 DEF Next
<1> QED BY <1>1, OwnershipTypes, PTL DEF Spec, GainsFlagged
============================================================================
