------------------------ MODULE LayerRedistribution ------------------------
(***************************************************************************)
(* The planner of dist/recovery.py: compute_redistributions, which says    *)
(* how the layers of a failed node are shared out among the survivors.     *)
(* Pure definitions, without state.                                        *)
(*                                                                         *)
(* A layer range is [s, e], first and last layer, never empty.  A layout   *)
(* maps nodes to their ranges.  A plan maps the survivors it names to      *)
(* their new range and to requires_weight_load.                            *)
(***************************************************************************)
EXTENDS Integers, FiniteSetsExt

LayerRange == {r \in [s : Nat, e : Nat] : r.s <= r.e}

Layers(r) == r.s .. r.e
Size(r) == r.e - r.s + 1
Apart(r, q) == r.e < q.s \/ q.e < r.s

Larger(x, y) == IF x > y THEN x ELSE y
Smaller(x, y) == IF x < y THEN x ELSE y

\* No layer index is claimed by two nodes.
Disjoint(layout) ==
    \A n, m \in DOMAIN layout : n # m => Apart(layout[n], layout[m])

Owned(layout) == UNION {Layers(layout[n]) : n \in DOMAIN layout}

\* _is_clean_tiling.  It compares each survivor with the next one in the order
\* of their ranges, which for non-empty ranges compares each with every other.
CleanTiling(survivors, failed) ==
    /\ Disjoint(survivors)
    /\ \A n \in DOMAIN survivors : Apart(survivors[n], failed)

-----------------------------------------------------------------------------
(* Neighbour absorption.                                                   *)

\* The closest survivor that ends below the failed range, if there is one.
Left(survivors, failed) ==
    {n \in DOMAIN survivors :
        /\ survivors[n].e < failed.s
        /\ \A m \in DOMAIN survivors :
              survivors[m].e < failed.s => survivors[m].s <= survivors[n].s}

\* The closest survivor that starts above it, if there is one.
Right(survivors, failed) ==
    {n \in DOMAIN survivors :
        /\ survivors[n].s > failed.e
        /\ \A m \in DOMAIN survivors :
              survivors[m].s > failed.e => survivors[n].s <= survivors[m].s}

\* The part of dead layers that goes left when there are two neighbours.
ProportionalShare(dead, lsize, rsize) == (dead * lsize) \div (lsize + rsize)

LeftShare(survivors, failed) ==
    LET left == Left(survivors, failed)
        right == Right(survivors, failed)
    IN  IF right = {} THEN Size(failed)
        ELSE IF left = {} THEN 0
        ELSE LET l == CHOOSE n \in left : TRUE
                 r == CHOOSE n \in right : TRUE
             IN  ProportionalShare(Size(failed), Size(survivors[l]), Size(survivors[r]))

\* Mutant: the left neighbour also takes the first layer of the right one's part.
ExtendLeftOneMore(range, failed, share) ==
    [s |-> range.s, e |-> Larger(range.e, failed.s + share), load |-> share > 0]

\* The left neighbour takes the first share layers, the right one the others.
ExtendLeft(range, failed, share) ==
    [s |-> range.s, e |-> Larger(range.e, failed.s + share - 1), load |-> share > 0]

\* Mutant: the right neighbour is not told to load anything.
ExtendRightUnflagged(range, failed, share) ==
    [s |-> Smaller(range.s, failed.s + share), e |-> range.e, load |-> FALSE]

\* Mutant: it starts one layer too late.
ExtendRightOneLess(range, failed, share) ==
    [s |-> Smaller(range.s, failed.s + share + 1), e |-> range.e, load |-> share < Size(failed)]

ExtendRight(range, failed, share) ==
    [s |-> Smaller(range.s, failed.s + share), e |-> range.e, load |-> share < Size(failed)]

Absorption(survivors, failed) ==
    LET left == Left(survivors, failed)
        share == LeftShare(survivors, failed)
    IN  [n \in left \cup Right(survivors, failed) |->
            IF n \in left THEN ExtendLeft(survivors[n], failed, share)
                          ELSE ExtendRight(survivors[n], failed, share)]

-----------------------------------------------------------------------------
(* Full re-partition.                                                      *)

\* The order of sorted(..., key = (start, end)); equal ranges keep the order in
\* which their nodes were registered, which is that of their ids.
Precedes(layout, n, m) ==
    \/ layout[n].s < layout[m].s
    \/ layout[n].s = layout[m].s /\ layout[n].e < layout[m].e
    \/ layout[n] = layout[m] /\ n < m

SumOver(f, S) == LET at(x) == f[x] IN MapThenSumSet(at, S)

\* Mutant: the units left over are handed to nobody.
WholePartsOnly(total, weights) ==
    {[n \in DOMAIN weights |-> (total * weights[n]) \div SumOver(weights, DOMAIN weights)]}

\* _largest_remainder_split: every key gets the whole part of its share, and the
\* units left over go to the largest remainders.  Which of two equal remainders
\* is larger is decided by the rounding of a float division, so either may be.
\* (The branch for a total weight of 0 is not reached: weights are range sizes.)
LargestRemainderSplits(total, weights) ==
    LET keys == DOMAIN weights
        total_weight == SumOver(weights, keys)
        floors == [n \in keys |-> (total * weights[n]) \div total_weight]
        rest == [n \in keys |-> (total * weights[n]) % total_weight]
        deficit == total - SumOver(floors, keys)
    IN  {[n \in keys |-> IF n \in up THEN floors[n] + 1 ELSE floors[n]] :
            up \in {S \in kSubset(deficit, keys) :
                       \A n \in S, m \in keys \ S : rest[n] >= rest[m]}}

\* Mutant: a survivor that gets no layer is in the plan all the same.
EverySurvivor(counts) == DOMAIN counts

\* Survivors that receive zero layers are skipped: they keep the range they have.
Receivers(counts) == {n \in DOMAIN counts : counts[n] > 0}

\* _retiling_redistributions of the span compute_redistributions gives it.  The
\* span ends where the LAST survivor in the order ends, or the failed node.
Retilings(survivors, failed) ==
    LET nodes == DOMAIN survivors
        last == CHOOSE n \in nodes : \A m \in nodes \ {n} : Precedes(survivors, m, n)
        span_start == Min({survivors[n].s : n \in nodes} \cup {failed.s})
        span_end == Larger(survivors[last].e, failed.e)
        start(counts, n) ==
            span_start + SumOver(counts, {m \in nodes : Precedes(survivors, m, n)})
    IN  {[n \in Receivers(counts) |->
            [s |-> start(counts, n), e |-> start(counts, n) + counts[n] - 1, load |-> TRUE]] :
         counts \in LargestRemainderSplits(span_end - span_start + 1,
                                           [n \in nodes |-> Size(survivors[n])])}

-----------------------------------------------------------------------------
\* compute_redistributions: the plans it can return.  (A clean tiling always
\* has a neighbour on one side, so its second call of the re-partition, for
\* survivors without one, is never reached.)
ComputeRedistributions(survivors, failed) ==
    IF DOMAIN survivors = {} THEN {survivors}
    ELSE IF CleanTiling(survivors, failed) THEN {Absorption(survivors, failed)}
    ELSE Retilings(survivors, failed)

\* The layout without the failed node.
Without(layout, n) == [m \in DOMAIN layout \ {n} |-> layout[m]]

\* The refreshed topology: the survivors' layout, with the new ranges of the plan.
Refreshed(survivors, plan) ==
    [m \in DOMAIN survivors |->
        IF m \in DOMAIN plan THEN [s |-> plan[m].s, e |-> plan[m].e] ELSE survivors[m]]

\* _flag_weight_reloads: the survivors of the plan that have weights to load.
Flagged(plan) == {m \in DOMAIN plan : plan[m].load}
============================================================================
