---------------------- MODULE LayerRedistribution_proofs ----------------------
(***************************************************************************)
(* What compute_redistributions does to a topology, for any nodes and any  *)
(* number of layers: neighbour absorption where no ranges overlap, the     *)
(* full re-partition where some do.                                        *)
(***************************************************************************)
EXTENDS LayerRedistribution, FiniteSetTheorems, WellFoundedInduction, TLAPS

\* The share of the left neighbour is between nothing and all of the dead layers.
LEMMA ShareBound ==
    ASSUME NEW dead \in Nat, NEW lsize \in Nat \ {0}, NEW rsize \in Nat \ {0}
    PROVE  ProportionalShare(dead, lsize, rsize) \in 0 .. dead
<1> DEFINE w == lsize + rsize
           q == (dead * lsize) \div w
<1>1. w \in Nat \ {0} /\ dead * lsize \in Nat
    BY SMT
<1>2. q \in Nat /\ q * w <= dead * lsize
    <2> HIDE DEF w
    <2>1. \A x \in Nat, y \in Nat \ {0} : x \div y \in Nat /\ (x \div y) * y <= x
        BY SMT
    <2> QED BY <1>1, <2>1
<1>3. dead * lsize <= dead * w
    BY SMT
<1>4. q <= dead
    <2> SUFFICES ASSUME q > dead PROVE FALSE
        BY <1>2, SMT
    <2>1. q * w > dead * w
        <3> HIDE DEF w, q
        <3>1. \A x, y \in Nat, z \in Nat \ {0} : x > y => x * z > y * z
            BY SMT
        <3> QED BY <3>1, <1>1, <1>2
    <2> QED BY <2>1, <1>1, <1>2, <1>3, SMT
<1> QED BY <1>2, <1>4, SMT DEF ProportionalShare

\* A non-empty set of naturals has a least element.
LEMMA LeastNatural ==
    ASSUME NEW T, T \subseteq Nat, T # {}
    PROVE  \E x \in T : \A y \in T : x <= y
<1> DEFINE R == OpToRel(<, Nat)
<1>1. \E x \in T : \A y \in T : ~ (<<y, x>> \in R)
    <2> HIDE DEF R
    <2>1. IsWellFoundedOn(R, Nat)
        BY NatLessThanWellFounded DEF R
    <2> QED BY <2>1, WFMin
<1>2. \A x, y \in Nat : y < x => <<y, x>> \in R
    BY DEF OpToRel
<1> HIDE DEF R
<1>3. PICK x \in T : \A y \in T : ~ (<<y, x>> \in R)
    BY <1>1
<1>4. ASSUME NEW y \in T PROVE x <= y
    <2>1. ~ (y < x)
        BY <1>2, <1>3
    <2> QED BY <2>1
<1> QED BY <1>4

\* Induction over the subsets of a finite set: a set of them has a minimal one.
LEMMA LeastSubset ==
    ASSUME NEW S, IsFiniteSet(S), NEW B \in SUBSET SUBSET S, B # {}
    PROVE  \E s \in B : \A u \in SUBSET s : u # s => u \notin B
<1> DEFINE T == {Cardinality(s) : s \in B}
<1>1. \A s \in SUBSET S : IsFiniteSet(s) /\ Cardinality(s) \in Nat
    BY FS_Subset, FS_CardinalityType
<1>2. T \subseteq Nat /\ T # {}
    BY <1>1
<1>3. PICK s \in B : \A u \in B : Cardinality(s) <= Cardinality(u)
    <2> HIDE DEF T
    <2>1. PICK k \in T : \A j \in T : k <= j
        BY <1>2, LeastNatural
    <2> QED BY <2>1 DEF T
<1>4. ASSUME NEW u \in SUBSET s, u # s, u \in B PROVE FALSE
    <2>1. Cardinality(u) <= Cardinality(s) /\ (Cardinality(s) = Cardinality(u) => s = u)
        BY <1>1, FS_Subset
    <2>2. Cardinality(s) \in Nat /\ Cardinality(u) \in Nat /\ Cardinality(s) <= Cardinality(u)
        BY <1>1, <1>3, <1>4
    <2> QED BY <1>4, <2>1, <2>2
<1> QED BY <1>3, <1>4

-----------------------------------------------------------------------------
(* A clean tiling and a failed range: what the neighbours absorb.           *)

Clean(survivors, failed) ==
    /\ survivors \in [DOMAIN survivors -> LayerRange]
    /\ failed \in LayerRange
    /\ CleanTiling(survivors, failed)

\* There is a neighbour on one side at least.
LEMMA NeighbourExists ==
    ASSUME NEW survivors, NEW failed, Clean(survivors, failed), DOMAIN survivors # {}
    PROVE  Left(survivors, failed) # {} \/ Right(survivors, failed) # {}
<1> USE DEF LayerRange
<1>1. PICK n \in DOMAIN survivors : survivors[n].e < failed.s \/ survivors[n].s > failed.e
    BY DEF Clean, CleanTiling, Apart
<1>2. CASE survivors[n].e < failed.s
    <2> DEFINE below == {m \in DOMAIN survivors : survivors[m].e < failed.s}
               T == {failed.s - survivors[m].s : m \in below}
    <2>1. T \subseteq Nat /\ T # {}
        BY <1>2 DEF Clean
    <2>2. PICK x \in T : \A y \in T : x <= y
        BY <2>1, LeastNatural
    <2>3. PICK k \in below : x = failed.s - survivors[k].s
        BY <2>2
    <2>4. ASSUME NEW m \in below PROVE survivors[m].s <= survivors[k].s
        <3>1. failed.s - survivors[k].s <= failed.s - survivors[m].s
            BY <2>2, <2>3
        <3> QED BY <3>1 DEF Clean
    <2> QED BY <2>3, <2>4 DEF Left
<1>3. CASE survivors[n].s > failed.e
    <2> DEFINE above == {m \in DOMAIN survivors : survivors[m].s > failed.e}
               T == {survivors[m].s : m \in above}
    <2>1. T \subseteq Nat /\ T # {}
        BY <1>3 DEF Clean
    <2>2. PICK x \in T : \A y \in T : x <= y
        BY <2>1, LeastNatural
    <2>3. PICK k \in above : x = survivors[k].s
        BY <2>2
    <2> QED BY <2>2, <2>3 DEF Right
<1> QED BY <1>1, <1>2, <1>3

\* The left share is between nothing and everything; it is nothing without a left
\* neighbour, and everything without a right one.
LEMMA ShareSplits ==
    ASSUME NEW survivors, NEW failed, Clean(survivors, failed), DOMAIN survivors # {}
    PROVE  LET share == LeftShare(survivors, failed)
           IN  /\ share \in 0 .. Size(failed)
               /\ Left(survivors, failed) = {} => share = 0
               /\ Right(survivors, failed) = {} => share = Size(failed)
<1> DEFINE left == Left(survivors, failed)
           right == Right(survivors, failed)
           l == CHOOSE n \in left : TRUE
           r == CHOOSE n \in right : TRUE
<1>1. Size(failed) \in Nat
    BY DEF Clean, LayerRange, Size
<1>2. left # {} \/ right # {}
    BY NeighbourExists
<1>3. CASE right = {}
    BY <1>1, <1>2, <1>3 DEF LeftShare
<1>4. CASE right # {} /\ left = {}
    BY <1>1, <1>4 DEF LeftShare
<1>5. CASE right # {} /\ left # {}
    <2>1. l \in DOMAIN survivors /\ r \in DOMAIN survivors
        <3>1. l \in left /\ r \in right
            BY <1>5
        <3> QED BY <3>1 DEF Left, Right
    <2>2. Size(survivors[l]) \in Nat \ {0} /\ Size(survivors[r]) \in Nat \ {0}
        <3> HIDE DEF l, r
        <3> QED BY <2>1 DEF Clean, LayerRange, Size
    <2>3. LeftShare(survivors, failed)
            = ProportionalShare(Size(failed), Size(survivors[l]), Size(survivors[r]))
        BY <1>5 DEF LeftShare
    <2>4. LeftShare(survivors, failed) \in 0 .. Size(failed)
        <3> HIDE DEF l, r
        <3> QED BY <1>1, <2>2, <2>3, ShareBound
    <2> QED BY <1>5, <2>4
<1> QED BY <1>3, <1>4, <1>5

\* After absorption the left neighbour ends, and the right one starts, where the
\* failed range was split; the others keep their range.
LEMMA AbsorptionShape ==
    ASSUME NEW survivors, NEW failed, Clean(survivors, failed), DOMAIN survivors # {}
    PROVE  LET left == Left(survivors, failed)
               right == Right(survivors, failed)
               mid == failed.s + LeftShare(survivors, failed)
               new == Refreshed(survivors, Absorption(survivors, failed))
           IN  /\ DOMAIN new = DOMAIN survivors
               /\ DOMAIN Absorption(survivors, failed) = left \cup right
               /\ \A n \in left : new[n].s = survivors[n].s /\ new[n].e = mid - 1
               /\ \A n \in right : new[n].s = mid /\ new[n].e = survivors[n].e
               /\ \A n \in DOMAIN survivors \ (left \cup right) : new[n] = survivors[n]
<1> DEFINE left == Left(survivors, failed)
           right == Right(survivors, failed)
           share == LeftShare(survivors, failed)
           mid == failed.s + share
           plan == Absorption(survivors, failed)
           new == Refreshed(survivors, plan)
<1>1. /\ share \in Nat /\ share <= Size(failed)
      /\ failed.s \in Nat /\ failed.e \in Nat /\ Size(failed) = failed.e - failed.s + 1
    BY ShareSplits DEF Clean, LayerRange, Size
<1>2. left \subseteq DOMAIN survivors /\ right \subseteq DOMAIN survivors
    BY DEF Left, Right
<1>3. \A n \in left : /\ survivors[n].s \in Nat /\ survivors[n].e \in Nat
                       /\ survivors[n].e < failed.s
    BY <1>2 DEF Left, Clean, LayerRange
<1>4. \A n \in right : /\ survivors[n].s \in Nat /\ survivors[n].e \in Nat
                        /\ survivors[n].s > failed.e
    BY <1>2 DEF Right, Clean, LayerRange
<1>5. \A n \in right : n \notin left /\ survivors[n].s <= survivors[n].e
    <2>1. failed.s <= failed.e /\ \A n \in DOMAIN survivors : survivors[n].s <= survivors[n].e
        BY DEF Clean, LayerRange
    <2> QED BY <1>1, <1>2, <1>3, <1>4, <2>1
<1>6. DOMAIN plan = left \cup right
    BY DEF Absorption
<1>7. DOMAIN new = DOMAIN survivors
    BY DEF Refreshed
<1>8. ASSUME NEW n \in left PROVE new[n].s = survivors[n].s /\ new[n].e = mid - 1
    <2>1. plan[n] = ExtendLeft(survivors[n], failed, share)
        BY DEF Absorption
    <2>2. new[n] = [s |-> plan[n].s, e |-> plan[n].e]
        BY <1>2, <1>6 DEF Refreshed
    <2>3. Larger(survivors[n].e, failed.s + share - 1) = mid - 1
        BY <1>1, <1>3 DEF Larger
    <2> QED BY <2>1, <2>2, <2>3 DEF ExtendLeft
<1>9. ASSUME NEW n \in right PROVE new[n].s = mid /\ new[n].e = survivors[n].e
    <2>1. plan[n] = ExtendRight(survivors[n], failed, share)
        BY <1>5 DEF Absorption
    <2>2. new[n] = [s |-> plan[n].s, e |-> plan[n].e]
        BY <1>2, <1>6 DEF Refreshed
    <2>3. Smaller(survivors[n].s, failed.s + share) = mid
        BY <1>1, <1>4 DEF Smaller
    <2> QED BY <2>1, <2>2, <2>3 DEF ExtendRight
<1>10. \A n \in DOMAIN survivors \ (left \cup right) : new[n] = survivors[n]
    BY <1>6 DEF Refreshed
<1> QED BY <1>6, <1>7, <1>8, <1>9, <1>10

\* Absorption makes no two nodes claim one layer, and leaves no layer behind.
LEMMA AbsorptionSound ==
    ASSUME NEW survivors, NEW failed, Clean(survivors, failed), DOMAIN survivors # {}
    PROVE  LET new == Refreshed(survivors, Absorption(survivors, failed))
           IN  /\ new \in [DOMAIN survivors -> LayerRange]
               /\ Disjoint(new)
               /\ \A n \in DOMAIN survivors : Layers(survivors[n]) \subseteq Layers(new[n])
               /\ Layers(failed) \subseteq Owned(new)
<1> DEFINE left == Left(survivors, failed)
           right == Right(survivors, failed)
           others == DOMAIN survivors \ (left \cup right)
           share == LeftShare(survivors, failed)
           mid == failed.s + share
           new == Refreshed(survivors, Absorption(survivors, failed))
<1>1. /\ DOMAIN new = DOMAIN survivors
      /\ \A n \in left : new[n].s = survivors[n].s /\ new[n].e = mid - 1
      /\ \A n \in right : new[n].s = mid /\ new[n].e = survivors[n].e
      /\ \A n \in others : new[n] = survivors[n]
    BY AbsorptionShape
<1>2. /\ failed.s \in Nat /\ failed.e \in Nat /\ failed.s <= failed.e
      /\ mid \in Nat /\ failed.s <= mid /\ mid <= failed.e + 1
      /\ left = {} => mid = failed.s
      /\ right = {} => mid = failed.e + 1
    BY ShareSplits DEF Clean, LayerRange, Size
<1>3. \A n \in DOMAIN survivors :
          /\ survivors[n].s \in Nat /\ survivors[n].e \in Nat
          /\ survivors[n].s <= survivors[n].e
          /\ survivors[n] \in LayerRange
    BY DEF Clean, LayerRange
<1>4. /\ left \subseteq DOMAIN survivors /\ right \subseteq DOMAIN survivors
      /\ \A n \in left : survivors[n].e < failed.s
      /\ \A n \in right : survivors[n].s > failed.e
      /\ \A n \in left, m \in DOMAIN survivors :
            survivors[m].e < failed.s => survivors[m].s <= survivors[n].s
      /\ \A n \in right, m \in DOMAIN survivors :
            survivors[m].s > failed.e => survivors[n].s <= survivors[m].s
    BY DEF Left, Right
<1>5. /\ \A n, m \in DOMAIN survivors : n # m => Apart(survivors[n], survivors[m])
      /\ \A n \in DOMAIN survivors : Apart(survivors[n], failed)
    BY DEF Clean, CleanTiling, Disjoint
<1>13. ASSUME NEW n \in left \cup right
       PROVE  new[n] \in [s : {new[n].s}, e : {new[n].e}]
    <2>1. n \in DOMAIN Absorption(survivors, failed) /\ n \in DOMAIN survivors
        BY <1>4, AbsorptionShape
    <2> DEFINE x == Absorption(survivors, failed)[n].s
               y == Absorption(survivors, failed)[n].e
    <2>2. new[n] = [s |-> x, e |-> y]
        BY <2>1 DEF Refreshed
    <2> HIDE DEF x, y, new
    <2> QED BY <2>2
<1>12. new = [n \in DOMAIN survivors |-> new[n]]
    BY DEF Refreshed
<1> HIDE DEF left, right, share, mid, new
\* Where each survivor's new range lies with respect to the split.
<1>6. ASSUME NEW n \in left, NEW m \in DOMAIN survivors, m # n, m \notin right
      PROVE  new[m].e < new[n].s \/ mid <= new[m].s
    <2>1. m \notin left
        BY <1>6, <1>3, <1>4, <1>5 DEF Apart
    <2>2. new[m] = survivors[m] /\ new[n].s = survivors[n].s
        BY <1>6, <1>1, <2>1
    <2>3. CASE survivors[m].e < failed.s
        <3>1. survivors[m].s <= survivors[n].s
            BY <1>4, <2>3
        <3> QED BY <1>6, <1>3, <1>4, <1>5, <2>2, <3>1 DEF Apart
    <2>4. CASE failed.e < survivors[m].s
        BY <1>2, <1>3, <2>2, <2>4
    <2> QED BY <1>5, <2>3, <2>4 DEF Apart
<1>7. ASSUME NEW n \in right, NEW m \in DOMAIN survivors, m # n, m \notin left
      PROVE  new[n].e < new[m].s \/ new[m].e < mid
    <2>1. m \notin right
        <3> SUFFICES ASSUME m \in right PROVE FALSE
            OBVIOUS
        <3>1. survivors[m].s = survivors[n].s
            BY <1>3, <1>4
        <3> QED BY <1>7, <1>3, <1>4, <1>5, <3>1 DEF Apart
    <2>2. new[m] = survivors[m] /\ new[n].e = survivors[n].e
        BY <1>7, <1>1, <2>1
    <2>3. CASE failed.e < survivors[m].s
        <3>1. survivors[n].s <= survivors[m].s
            BY <1>4, <2>3
        <3> QED BY <1>7, <1>3, <1>4, <1>5, <2>2, <3>1 DEF Apart
    <2>4. CASE survivors[m].e < failed.s
        BY <1>2, <1>3, <2>2, <2>4
    <2> QED BY <1>5, <2>3, <2>4 DEF Apart
<1>8. new \in [DOMAIN survivors -> LayerRange]
    <2>1. ASSUME NEW n \in DOMAIN survivors PROVE new[n] \in LayerRange
        <3>1. CASE n \in left
            <4>1. new[n].s \in Nat /\ new[n].e \in Nat /\ new[n].s <= new[n].e
                BY <1>1, <1>2, <1>3, <1>4, <3>1
            <4> QED BY <1>13, <3>1, <4>1 DEF LayerRange
        <3>2. CASE n \in right
            <4>1. new[n].s \in Nat /\ new[n].e \in Nat /\ new[n].s <= new[n].e
                BY <1>1, <1>2, <1>3, <1>4, <3>2
            <4> QED BY <1>13, <3>2, <4>1 DEF LayerRange
        <3>3. CASE n \in others
            BY <1>1, <1>3, <3>3
        <3> QED BY <3>1, <3>2, <3>3
    <2> QED BY <1>12, <2>1
<1>9. Disjoint(new)
    <2> SUFFICES ASSUME NEW n \in DOMAIN survivors, NEW m \in DOMAIN survivors, n # m
                 PROVE  Apart(new[n], new[m])
        BY <1>1 DEF Disjoint
    <2>1. /\ new[n].s \in Nat /\ new[n].e \in Nat /\ new[n].s <= new[n].e
          /\ new[m].s \in Nat /\ new[m].e \in Nat /\ new[m].s <= new[m].e
        BY <1>8 DEF LayerRange
    <2>2. CASE n \in left /\ m \in right
        BY <1>1, <1>2, <2>2 DEF Apart
    <2>3. CASE m \in left /\ n \in right
        BY <1>1, <1>2, <2>3 DEF Apart
    <2>4. CASE n \in left /\ m \notin right
        BY <1>1, <1>2, <1>6, <2>1, <2>4 DEF Apart
    <2>5. CASE m \in left /\ n \notin right
        BY <1>1, <1>2, <1>6, <2>1, <2>5 DEF Apart
    <2>6. CASE n \in right /\ m \notin left
        BY <1>1, <1>2, <1>7, <2>1, <2>6 DEF Apart
    <2>7. CASE m \in right /\ n \notin left
        BY <1>1, <1>2, <1>7, <2>1, <2>7 DEF Apart
    <2>8. CASE n \in others /\ m \in others
        BY <1>1, <1>5, <2>8
    <2> QED BY <2>2, <2>3, <2>4, <2>5, <2>6, <2>7, <2>8
<1>10. \A n \in DOMAIN survivors : Layers(survivors[n]) \subseteq Layers(new[n])
    <2> SUFFICES ASSUME NEW n \in DOMAIN survivors
                 PROVE  survivors[n].s >= new[n].s /\ survivors[n].e <= new[n].e
        BY <1>3, <1>8 DEF Layers, LayerRange
    <2>1. CASE n \in left
        BY <1>1, <1>2, <1>3, <1>4, <2>1
    <2>2. CASE n \in right
        BY <1>1, <1>2, <1>3, <1>4, <2>2
    <2>3. CASE n \in others
        BY <1>1, <1>3, <2>3
    <2> QED BY <2>1, <2>2, <2>3
<1>11. Layers(failed) \subseteq Owned(new)
    <2> SUFFICES ASSUME NEW x \in failed.s .. failed.e
                 PROVE  \E n \in DOMAIN survivors : x \in new[n].s .. new[n].e
        BY <1>1 DEF Owned, Layers
    <2>1. CASE x < mid
        <3>1. PICK n \in left : TRUE
            BY <1>2, <2>1
        <3> QED BY <1>1, <1>2, <1>3, <1>4, <2>1
    <2>2. CASE x >= mid
        <3>1. PICK n \in right : TRUE
            BY <1>2, <2>2
        <3> QED BY <1>1, <1>2, <1>3, <1>4, <2>2
    <2> QED BY <1>2, <2>1, <2>2
<1> QED BY <1>8, <1>9, <1>10, <1>11 DEF new

-----------------------------------------------------------------------------
(* Sums.                                                                    *)

Pick(s) == CHOOSE x \in s : TRUE

\* g sums f over every subset of S, in the order in which Pick takes elements out.
Sums(g, f, S) ==
    g = [s \in SUBSET S |-> IF s = {} THEN 0 ELSE f[Pick(s)] + g[s \ {Pick(s)}]]

LEMMA SumIs == ASSUME NEW f, NEW S PROVE SumOver(f, S) = (CHOOSE g : Sums(g, f, S))[S]
BY DEF SumOver, MapThenSumSet, MapThenFoldSet, Sums, Pick

LEMMA Picked == ASSUME NEW s, s # {} PROVE Pick(s) \in s
BY DEF Pick

\* Such a function exists: one for the subsets of k elements is extended to those of k + 1.
LEMMA SumsExist == ASSUME NEW f, NEW S, IsFiniteSet(S) PROVE \E g : Sums(g, f, S)
<1> DEFINE Small(k) == {s \in SUBSET S : Cardinality(s) <= k}
           Term(g, s) == IF s = {} THEN 0 ELSE f[Pick(s)] + g[s \ {Pick(s)}]
           SumsTo(g, k) == g = [s \in Small(k) |-> Term(g, s)]
           Bad == {k \in Nat : \A g : ~SumsTo(g, k)}
<1>1. \A s \in SUBSET S : IsFiniteSet(s) /\ Cardinality(s) \in Nat
    BY FS_Subset, FS_CardinalityType
<1>2. Cardinality({}) = 0 /\ \A s \in SUBSET S : Cardinality(s) <= 0 => s = {}
    BY <1>1, FS_EmptySet
<1>3. ASSUME NEW s \in SUBSET S, s # {}
      PROVE  /\ s \ {Pick(s)} \in SUBSET S
             /\ Cardinality(s \ {Pick(s)}) = Cardinality(s) - 1
    BY <1>1, <1>3, Picked, FS_RemoveElement
<1>4. Bad = {}
    <2> SUFFICES ASSUME Bad # {} PROVE FALSE
        OBVIOUS
    <2>1. PICK k \in Bad : \A j \in Bad : k <= j
        <3> HIDE DEF SumsTo
        <3> QED BY LeastNatural
    <2>2. k \in Nat /\ \A g : ~SumsTo(g, k)
        BY <2>1
    <2>3. k # 0
        <3> SUFFICES ASSUME k = 0 PROVE FALSE
            OBVIOUS
        <3> DEFINE g == [s \in Small(0) |-> 0]
        <3>1. \A s \in Small(0) : s = {}
            BY <1>2
        <3>2. SumsTo(g, 0)
            BY <3>1
        <3> HIDE DEF SumsTo, g
        <3> QED BY <2>2, <3>2
    <2>4. k - 1 \in Nat /\ k - 1 \notin Bad
        <3> HIDE DEF Bad
        <3> QED BY <2>1, <2>2, <2>3
    <2>5. PICK g : SumsTo(g, k - 1)
        <3> HIDE DEF SumsTo
        <3> QED BY <2>4
    <2> DEFINE h == [s \in Small(k) |-> IF s \in Small(k - 1) THEN g[s] ELSE Term(g, s)]
    <2>6. ASSUME NEW s \in Small(k) PROVE h[s] = Term(h, s)
        <3>1. \A u \in Small(k - 1) : u \in Small(k) /\ h[u] = g[u] /\ g[u] = Term(g, u)
            <4>1. Small(k - 1) \subseteq Small(k)
                BY <1>1, <2>2
            <4>2. \A u \in Small(k - 1) : g[u] = Term(g, u)
                <5> HIDE DEF Small, Term
                <5> QED BY <2>5
            <4> HIDE DEF Small, Term
            <4> QED BY <4>1, <4>2
        <3>2. CASE s = {}
            BY <1>2, <2>4, <3>1, <3>2
        <3>3. CASE s # {}
            <4>1. s \ {Pick(s)} \in Small(k - 1)
                BY <1>1, <1>3, <2>2, <3>3
            <4>2. h[s] = Term(g, s)
                BY <3>1
            <4>3. h[s \ {Pick(s)}] = g[s \ {Pick(s)}]
                BY <3>1, <4>1
            <4> HIDE DEF h
            <4> QED BY <3>3, <4>2, <4>3
        <3> QED BY <3>2, <3>3
    <2>7. SumsTo(h, k)
        <3>1. h = [s \in Small(k) |-> h[s]]
            OBVIOUS
        <3> HIDE DEF h, Small, Term
        <3> QED BY <2>6, <3>1
    <2> HIDE DEF SumsTo, h
    <2> QED BY <2>2, <2>7
<1>5. Cardinality(S) \in Nat /\ Small(Cardinality(S)) = SUBSET S
    BY <1>1, FS_Subset
<1>6. PICK g : SumsTo(g, Cardinality(S))
    <2> HIDE DEF SumsTo
    <2> QED BY <1>4, <1>5
<1>7. Sums(g, f, S)
    <2> HIDE DEF Small
    <2> QED BY <1>5, <1>6 DEF Sums
<1> QED BY <1>7

\* Two such functions agree where both are defined.
LEMMA SumsAgree ==
    ASSUME NEW f, NEW S, IsFiniteSet(S), NEW T, T \subseteq S,
           NEW g, Sums(g, f, S), NEW h, Sums(h, f, T)
    PROVE  \A s \in SUBSET T : g[s] = h[s]
<1> DEFINE B == {s \in SUBSET T : g[s] # h[s]}
<1> SUFFICES ASSUME B # {} PROVE FALSE
    OBVIOUS
<1>1. B \in SUBSET SUBSET S
    OBVIOUS
<1>2. PICK s \in B : \A u \in SUBSET s : u # s => u \notin B
    <2> HIDE DEF B
    <2> QED BY <1>1, LeastSubset
<1>3. /\ g[s] = IF s = {} THEN 0 ELSE f[Pick(s)] + g[s \ {Pick(s)}]
      /\ h[s] = IF s = {} THEN 0 ELSE f[Pick(s)] + h[s \ {Pick(s)}]
    BY DEF Sums
<1>4. CASE s # {}
    <2>1. s \ {Pick(s)} \in SUBSET s /\ s \ {Pick(s)} # s
        BY <1>4, Picked
    <2>2. g[s \ {Pick(s)}] = h[s \ {Pick(s)}]
        BY <1>2, <2>1
    <2> QED BY <1>2, <1>3, <1>4, <2>2
<1> QED BY <1>2, <1>3, <1>4

LEMMA SumUnfolds ==
    ASSUME NEW f, NEW S, IsFiniteSet(S)
    PROVE  SumOver(f, S) = IF S = {} THEN 0 ELSE f[Pick(S)] + SumOver(f, S \ {Pick(S)})
<1> DEFINE R == S \ {Pick(S)}
<1>1. IsFiniteSet(R) /\ R \subseteq S
    BY FS_Subset
<1>2. \A T : IsFiniteSet(T) => \E g : Sums(g, f, T) /\ SumOver(f, T) = g[T]
    <2> SUFFICES ASSUME NEW T, IsFiniteSet(T)
                 PROVE  \E g : Sums(g, f, T) /\ SumOver(f, T) = g[T]
        OBVIOUS
    <2>1. \E g : Sums(g, f, T)
        BY SumsExist
    <2>2. Sums(CHOOSE g : Sums(g, f, T), f, T)
        BY <2>1
    <2> QED BY <2>2, SumIs
<1>3. PICK g : Sums(g, f, S) /\ SumOver(f, S) = g[S]
    BY <1>2
<1> HIDE DEF R
<1>4. PICK h : Sums(h, f, R) /\ SumOver(f, R) = h[R]
    BY <1>1, <1>2
<1>5. g[S] = IF S = {} THEN 0 ELSE f[Pick(S)] + g[R]
    BY <1>3 DEF Sums, R
<1>6. g[R] = h[R]
    BY <1>1, <1>3, <1>4, SumsAgree
<1> QED BY <1>3, <1>4, <1>5, <1>6 DEF R

\* A sum of naturals is one, and any element may be taken out of it first.
LEMMA SumPops ==
    ASSUME NEW f, NEW S, IsFiniteSet(S), \A x \in S : f[x] \in Nat
    PROVE  /\ SumOver(f, S) \in Nat
           /\ SumOver(f, {}) = 0
           /\ \A x \in S : SumOver(f, S) = f[x] + SumOver(f, S \ {x})
<1>1. \A s \in SUBSET S : IsFiniteSet(s)
    BY FS_Subset
<1>2. SumOver(f, {}) = 0
    BY FS_EmptySet, SumUnfolds
<1>3. ASSUME NEW s \in SUBSET S, s # {}
      PROVE  /\ Pick(s) \in s /\ s \ {Pick(s)} \in SUBSET S
             /\ SumOver(f, s) = f[Pick(s)] + SumOver(f, s \ {Pick(s)})
    BY <1>1, <1>3, Picked, SumUnfolds
<1>4. \A s \in SUBSET S : SumOver(f, s) \in Nat
    <2> DEFINE B == {s \in SUBSET S : SumOver(f, s) \notin Nat}
    <2> SUFFICES ASSUME B # {} PROVE FALSE
        OBVIOUS
    <2>1. PICK s \in B : \A u \in SUBSET s : u # s => u \notin B
        <3>1. B \in SUBSET SUBSET S
            OBVIOUS
        <3> HIDE DEF B
        <3> QED BY <3>1, LeastSubset
    <2>2. s # {}
        <3>1. SumOver(f, s) \notin Nat
            BY <2>1
        <3> QED BY <1>2, <3>1
    <2>3. SumOver(f, s \ {Pick(s)}) \in Nat
        BY <1>3, <2>1, <2>2
    <2>4. f[Pick(s)] \in Nat /\ SumOver(f, s) = f[Pick(s)] + SumOver(f, s \ {Pick(s)})
        BY <1>3, <2>2
    <2> QED BY <2>1, <2>3, <2>4
<1>5. \A s \in SUBSET S : \A x \in s : SumOver(f, s) = f[x] + SumOver(f, s \ {x})
    <2> DEFINE Pops(s) == \A x \in s : SumOver(f, s) = f[x] + SumOver(f, s \ {x})
               B == {s \in SUBSET S : ~Pops(s)}
    <2> SUFFICES ASSUME B # {} PROVE FALSE
        OBVIOUS
    <2>1. PICK s \in B : \A u \in SUBSET s : u # s => u \notin B
        <3>1. B \in SUBSET SUBSET S
            OBVIOUS
        <3> HIDE DEF B
        <3> QED BY <3>1, LeastSubset
    <2>2. PICK x \in s : SumOver(f, s) # f[x] + SumOver(f, s \ {x})
        BY <2>1
    <2>3. s # {} /\ s \in SUBSET S
        BY <2>1, <2>2
    <2> DEFINE y == Pick(s)
               a == s \ {y}
               b == s \ {x}
               c == s \ {x, y}
    <2>4. y \in s /\ SumOver(f, s) = f[y] + SumOver(f, a)
        BY <1>3, <2>3
    <2>5. x # y
        BY <2>2, <2>4
    <2>6. Pops(a) /\ Pops(b)
        <3>1. a \in SUBSET s /\ a # s /\ b \in SUBSET s /\ b # s
            BY <2>2, <2>4
        <3>2. a \in SUBSET S /\ b \in SUBSET S /\ a \notin B /\ b \notin B
            BY <2>1, <2>3, <3>1
        <3> HIDE DEF Pops, a, b
        <3> QED BY <3>2
    <2>7. x \in a /\ a \ {x} = c /\ y \in b /\ b \ {y} = c
        BY <2>2, <2>4, <2>5
    <2>8. SumOver(f, a) = f[x] + SumOver(f, c) /\ SumOver(f, b) = f[y] + SumOver(f, c)
        <3> HIDE DEF a, b, c, y
        <3> QED BY <2>6, <2>7
    <2>9. SumOver(f, c) \in Nat /\ f[x] \in Nat /\ f[y] \in Nat
        BY <1>4, <2>2, <2>3, <2>4
    <2> HIDE DEF a, b, c, y
    <2>10. SumOver(f, b) = SumOver(f, s \ {x})
        BY DEF b
    <2> QED BY <2>2, <2>4, <2>8, <2>9, <2>10
<1> QED BY <1>2, <1>4, <1>5

\* A larger set has a larger sum.
LEMMA SumGrows ==
    ASSUME NEW f, NEW S, IsFiniteSet(S), \A x \in S : f[x] \in Nat, NEW T \in SUBSET S
    PROVE  SumOver(f, T) <= SumOver(f, S)
<1> DEFINE B == {s \in SUBSET S : T \subseteq s /\ ~(SumOver(f, T) <= SumOver(f, s))}
<1> SUFFICES ASSUME B # {} PROVE FALSE
    OBVIOUS
<1>1. PICK s \in B : \A u \in SUBSET s : u # s => u \notin B
    <2>1. B \in SUBSET SUBSET S
        OBVIOUS
    <2> HIDE DEF B
    <2> QED BY <2>1, LeastSubset
<1>2. \A u \in SUBSET S : /\ SumOver(f, u) \in Nat
                          /\ \A x \in u : SumOver(f, u) = f[x] + SumOver(f, u \ {x})
    <2>1. \A u \in SUBSET S : IsFiniteSet(u) /\ \A x \in u : f[x] \in Nat
        BY FS_Subset
    <2> QED BY <2>1, SumPops
<1>3. /\ s \in SUBSET S /\ T \subseteq s /\ ~(SumOver(f, T) <= SumOver(f, s))
    BY <1>1
<1>4. s # T
    BY <1>2, <1>3
<1>5. PICK x \in s : x \notin T
    BY <1>3, <1>4
<1>6. s \ {x} \in SUBSET S /\ T \subseteq s \ {x} /\ SumOver(f, T) <= SumOver(f, s \ {x})
    BY <1>1, <1>3, <1>5
<1>7. f[x] \in Nat /\ SumOver(f, s) = f[x] + SumOver(f, s \ {x})
    BY <1>2, <1>3, <1>5
<1> QED BY <1>2, <1>3, <1>6, <1>7

\* Adding one to some of the terms.
LEMMA SumLifted ==
    ASSUME NEW S, IsFiniteSet(S), NEW f \in [S -> Nat], NEW up \in SUBSET S
    PROVE  SumOver([x \in S |-> IF x \in up THEN f[x] + 1 ELSE f[x]], S)
             = SumOver(f, S) + Cardinality(up)
<1> DEFINE g == [x \in S |-> IF x \in up THEN f[x] + 1 ELSE f[x]]
           Lifted(s) == SumOver(g, s) = SumOver(f, s) + Cardinality(up \cap s)
           B == {s \in SUBSET S : ~Lifted(s)}
<1>1. \A x \in S : g[x] \in Nat /\ f[x] \in Nat /\ g[x] = IF x \in up THEN f[x] + 1 ELSE f[x]
    OBVIOUS
<1> HIDE DEF g
<1>2. \A u \in SUBSET S : IsFiniteSet(u) /\ IsFiniteSet(up \cap u) /\ Cardinality(up \cap u) \in Nat
    BY FS_Subset, FS_CardinalityType
<1>3. \A u \in SUBSET S :
        /\ SumOver(f, u) \in Nat /\ SumOver(g, u) \in Nat
        /\ SumOver(f, {}) = 0 /\ SumOver(g, {}) = 0
        /\ \A x \in u : /\ SumOver(f, u) = f[x] + SumOver(f, u \ {x})
                        /\ SumOver(g, u) = g[x] + SumOver(g, u \ {x})
    <2> SUFFICES ASSUME NEW u \in SUBSET S
                 PROVE  /\ SumOver(f, u) \in Nat /\ SumOver(g, u) \in Nat
                        /\ SumOver(f, {}) = 0 /\ SumOver(g, {}) = 0
                        /\ \A x \in u : /\ SumOver(f, u) = f[x] + SumOver(f, u \ {x})
                                        /\ SumOver(g, u) = g[x] + SumOver(g, u \ {x})
        OBVIOUS
    <2>1. IsFiniteSet(u) /\ (\A x \in u : f[x] \in Nat) /\ (\A x \in u : g[x] \in Nat)
        BY <1>1, <1>2
    <2>2. /\ SumOver(f, u) \in Nat /\ SumOver(f, {}) = 0
          /\ \A x \in u : SumOver(f, u) = f[x] + SumOver(f, u \ {x})
        BY <2>1, SumPops
    <2>3. /\ SumOver(g, u) \in Nat /\ SumOver(g, {}) = 0
          /\ \A x \in u : SumOver(g, u) = g[x] + SumOver(g, u \ {x})
        BY <2>1, SumPops
    <2> QED BY <2>2, <2>3
<1>4. B = {}
    <2> SUFFICES ASSUME B # {} PROVE FALSE
        OBVIOUS
    <2>1. PICK s \in B : \A u \in SUBSET s : u # s => u \notin B
        <3>1. B \in SUBSET SUBSET S
            OBVIOUS
        <3> HIDE DEF B
        <3> QED BY <3>1, LeastSubset
    <2>2. s \in SUBSET S /\ ~Lifted(s)
        BY <2>1
    <2>3. s # {}
        <3>1. Lifted({})
            <4>1. up \cap {} = {} /\ Cardinality({}) = 0
                BY FS_EmptySet
            <4> QED BY <1>3, <4>1
        <3> HIDE DEF Lifted
        <3> QED BY <2>2, <3>1
    <2>4. PICK x \in s : TRUE
        BY <2>3
    <2> DEFINE r == s \ {x}
    <2>5. r \in SUBSET S /\ Lifted(r)
        <3>1. r \in SUBSET s /\ r # s /\ r \in SUBSET S
            BY <2>2, <2>4
        <3> HIDE DEF Lifted, r
        <3> QED BY <2>1, <3>1
    <2>6. Cardinality(up \cap s) = Cardinality(up \cap r) + (IF x \in up THEN 1 ELSE 0)
        <3>1. CASE x \in up
            <4>1. up \cap r = (up \cap s) \ {x} /\ x \in up \cap s
                BY <2>4, <3>1
            <4> DEFINE a == up \cap s
            <4>2. IsFiniteSet(a) /\ Cardinality(a) \in Nat
                BY <1>2, <2>2
            <4> HIDE DEF a
            <4>3. Cardinality(a \ {x}) = Cardinality(a) - 1
                BY <4>1, <4>2, FS_RemoveElement DEF a
            <4>4. Cardinality(up \cap r) = Cardinality(up \cap s) - 1
                BY <4>1, <4>3 DEF a
            <4> QED BY <3>1, <4>2, <4>4 DEF a
        <3>2. CASE x \notin up
            <4>1. up \cap r = up \cap s
                BY <3>2
            <4> QED BY <1>2, <2>2, <3>2, <4>1
        <3> QED BY <3>1, <3>2
    <2>7. /\ SumOver(f, s) = f[x] + SumOver(f, r) /\ SumOver(g, s) = g[x] + SumOver(g, r)
          /\ SumOver(f, r) \in Nat /\ SumOver(g, r) \in Nat
          /\ f[x] \in Nat /\ g[x] = IF x \in up THEN f[x] + 1 ELSE f[x]
        BY <1>1, <1>3, <2>2, <2>4, <2>5
    <2> HIDE DEF r
    <2> QED BY <1>2, <2>2, <2>5, <2>6, <2>7
<1>5. Lifted(S)
    <2> HIDE DEF Lifted
    <2> QED BY <1>4
<1>6. up \cap S = up
    OBVIOUS
<1> QED BY <1>5, <1>6 DEF g

\* _largest_remainder_split hands out the whole total, to the keys of the weights.
LEMMA SplitSums ==
    ASSUME NEW weights, IsFiniteSet(DOMAIN weights), DOMAIN weights # {},
           weights \in [DOMAIN weights -> Nat \ {0}],
           NEW total \in Nat, NEW counts \in LargestRemainderSplits(total, weights)
    PROVE  counts \in [DOMAIN weights -> Nat] /\ SumOver(counts, DOMAIN weights) = total
<1> DEFINE keys == DOMAIN weights
           tw == SumOver(weights, keys)
           floors == [n \in keys |-> (total * weights[n]) \div tw]
           rest == [n \in keys |-> (total * weights[n]) % tw]
           deficit == total - SumOver(floors, keys)
<1>1. tw \in Nat \ {0}
    <2>1. PICK x \in keys : TRUE
        OBVIOUS
    <2>2. tw \in Nat /\ tw = weights[x] + SumOver(weights, keys \ {x})
        BY SumPops
    <2>3. IsFiniteSet(keys \ {x})
        BY FS_Subset
    <2>4. SumOver(weights, keys \ {x}) \in Nat
        BY <2>3, SumPops
    <2>5. weights[x] \in Nat \ {0}
        OBVIOUS
    <2> HIDE DEF tw
    <2> QED BY <2>2, <2>4, <2>5
<1> DEFINE ups == {S \in kSubset(deficit, keys) :
                      \A n \in S, m \in keys \ S : rest[n] >= rest[m]}
           lift(up) == [n \in keys |-> IF n \in up THEN floors[n] + 1 ELSE floors[n]]
<1>2. LargestRemainderSplits(total, weights) = {lift(up) : up \in ups}
    BY Zenon DEF LargestRemainderSplits
<1>3. PICK up \in ups : counts = lift(up)
    <2> HIDE DEF ups, lift
    <2> QED BY <1>2
<1>4. up \in SUBSET keys /\ Cardinality(up) = deficit
    BY <1>3 DEF kSubset
<1>5. floors \in [keys -> Nat]
    <2>1. \A n \in keys : total * weights[n] \in Nat
        <3>1. \A n \in keys : weights[n] \in Nat
            OBVIOUS
        <3> QED BY <3>1
    <2> HIDE DEF tw
    <2>2. \A n \in keys : (total * weights[n]) \div tw \in Nat
        <3>1. \A x \in Nat, y \in Nat \ {0} : x \div y \in Nat
            OBVIOUS
        <3> QED BY <1>1, <2>1, <3>1
    <2> QED BY <2>2
<1> HIDE DEF floors, deficit
<1>6. counts \in [keys -> Nat]
    BY <1>3, <1>5
<1>7. SumOver(counts, keys) = SumOver(floors, keys) + Cardinality(up)
    BY <1>3, <1>4, <1>5, SumLifted
<1>8. SumOver(floors, keys) \in Nat
    BY <1>5, SumPops
<1> QED BY <1>4, <1>6, <1>7, <1>8 DEF deficit

-----------------------------------------------------------------------------
(* The full re-partition.                                                   *)

\* A layout as _retiling_redistributions meets one.
Survivors(layout) ==
    /\ DOMAIN layout \subseteq Nat /\ IsFiniteSet(DOMAIN layout)
    /\ layout \in [DOMAIN layout -> LayerRange]

Below(layout, n) == {m \in DOMAIN layout : Precedes(layout, m, n)}

\* The sort key orders the nodes.
LEMMA Ordered ==
    ASSUME NEW layout, Survivors(layout)
    PROVE  /\ \A n \in DOMAIN layout : ~Precedes(layout, n, n)
           /\ \A n, m \in DOMAIN layout :
                n # m => Precedes(layout, n, m) \/ Precedes(layout, m, n)
           /\ \A n, m, k \in DOMAIN layout :
                Precedes(layout, n, m) /\ Precedes(layout, m, k) => Precedes(layout, n, k)
<1>1. ASSUME NEW n \in DOMAIN layout
      PROVE  /\ n \in Nat /\ layout[n].s \in Nat /\ layout[n].e \in Nat
             /\ layout[n] \in [s : Nat, e : Nat]
    BY DEF Survivors, LayerRange
<1>2. ASSUME NEW n \in DOMAIN layout, NEW m \in DOMAIN layout
      PROVE  layout[n] = layout[m] <=> layout[n].s = layout[m].s /\ layout[n].e = layout[m].e
    BY <1>1
<1> QED BY <1>1, <1>2 DEF Precedes

\* A non-empty set of nodes has a last one.
LEMMA LastExists ==
    ASSUME NEW layout, Survivors(layout), NEW D \in SUBSET DOMAIN layout, D # {}
    PROVE  \E n \in D : \A m \in D \ {n} : Precedes(layout, m, n)
<1> DEFINE Above(n) == {m \in D : Precedes(layout, n, m)}
           B == {Above(n) : n \in D}
<1>1. IsFiniteSet(D)
    BY FS_Subset DEF Survivors
<1>2. B \in SUBSET SUBSET D /\ B # {}
    OBVIOUS
<1>3. PICK a \in B : \A u \in SUBSET a : u # a => u \notin B
    <2> HIDE DEF B
    <2> QED BY <1>1, <1>2, LeastSubset
<1>4. PICK n \in D : a = Above(n)
    OBVIOUS
<1>5. ASSUME NEW m \in D, Precedes(layout, n, m) PROVE FALSE
    <2>1. Above(m) \subseteq Above(n) /\ m \in Above(n) /\ m \notin Above(m)
        BY <1>5, Ordered
    <2>2. Above(m) \in B
        OBVIOUS
    <2> HIDE DEF Above, B
    <2> QED BY <1>3, <1>4, <2>1, <2>2
<1> QED BY <1>5, Ordered

\* Laid end to end in that order, counts of layers leave no layer out ...
LEMMA PrefixCovers ==
    ASSUME NEW layout, Survivors(layout), NEW counts \in [DOMAIN layout -> Nat],
           NEW x \in Nat, x < SumOver(counts, DOMAIN layout)
    PROVE  \E n \in DOMAIN layout :
             /\ SumOver(counts, Below(layout, n)) <= x
             /\ x < SumOver(counts, Below(layout, n)) + counts[n]
<1> DEFINE nodes == DOMAIN layout
           Closed(D) == \A n \in D : \A m \in nodes : Precedes(layout, m, n) => m \in D
           B == {D \in SUBSET nodes : Closed(D) /\ x < SumOver(counts, D)}
<1>1. IsFiniteSet(nodes) /\ B \in SUBSET SUBSET nodes /\ B # {}
    <2>1. nodes \in B
        OBVIOUS
    <2> QED BY <2>1 DEF Survivors
<1>2. \A D \in SUBSET nodes : /\ SumOver(counts, D) \in Nat /\ SumOver(counts, {}) = 0
                              /\ \A n \in D : SumOver(counts, D) = counts[n] + SumOver(counts, D \ {n})
    <2>1. \A D \in SUBSET nodes : IsFiniteSet(D) /\ \A n \in D : counts[n] \in Nat
        BY <1>1, FS_Subset
    <2> QED BY <2>1, SumPops
<1>3. PICK D \in B : \A u \in SUBSET D : u # D => u \notin B
    <2> HIDE DEF B
    <2> QED BY <1>1, LeastSubset
<1>4. D \in SUBSET nodes /\ Closed(D) /\ x < SumOver(counts, D)
    BY <1>3
<1>5. D # {}
    <2>1. ~(x < SumOver(counts, {}))
        BY <1>2
    <2> QED BY <1>4, <2>1
<1>6. PICK n \in D : \A m \in D \ {n} : Precedes(layout, m, n)
    BY <1>4, <1>5, LastExists
<1>7. D \ {n} = Below(layout, n)
    <2>1. ~Precedes(layout, n, n)
        BY <1>4, Ordered
    <2> QED BY <1>4, <1>6, <2>1 DEF Below
<1>8. Closed(D \ {n})
    BY <1>4, <1>6, Ordered
<1>9. ~(x < SumOver(counts, D \ {n}))
    <2>1. D \ {n} \in SUBSET D /\ D \ {n} # D /\ D \ {n} \in SUBSET nodes
        BY <1>4
    <2>2. D \ {n} \notin B
        BY <1>3, <2>1
    <2> HIDE DEF Closed
    <2> QED BY <1>8, <2>1, <2>2
<1>10. SumOver(counts, D) = counts[n] + SumOver(counts, D \ {n}) /\ counts[n] \in Nat
       /\ SumOver(counts, D \ {n}) \in Nat
    BY <1>2, <1>4
<1>11. /\ SumOver(counts, D \ {n}) <= x
       /\ x < SumOver(counts, D \ {n}) + counts[n]
    BY <1>4, <1>9, <1>10
<1> QED BY <1>4, <1>7, <1>11

\* ... and reach no further than their sum ...
LEMMA PrefixBounded ==
    ASSUME NEW layout, Survivors(layout), NEW counts \in [DOMAIN layout -> Nat],
           NEW n \in DOMAIN layout
    PROVE  /\ SumOver(counts, Below(layout, n)) \in Nat
           /\ SumOver(counts, DOMAIN layout) \in Nat
           /\ SumOver(counts, Below(layout, n)) + counts[n] <= SumOver(counts, DOMAIN layout)
<1> DEFINE D == Below(layout, n) \cup {n}
           M == DOMAIN layout
<1>1. D \subseteq M /\ D \ {n} = Below(layout, n) /\ n \in D
    BY Ordered DEF Below
<1>2. IsFiniteSet(M) /\ IsFiniteSet(D) /\ IsFiniteSet(Below(layout, n))
    BY <1>1, FS_Subset DEF Survivors
<1>3. (\A x \in M : counts[x] \in Nat) /\ (\A x \in D : counts[x] \in Nat)
      /\ (\A x \in Below(layout, n) : counts[x] \in Nat)
    BY <1>1
<1> HIDE DEF D, M
<1>4. SumOver(counts, D) <= SumOver(counts, M)
    BY <1>1, <1>2, <1>3, SumGrows
<1>5. SumOver(counts, D) = counts[n] + SumOver(counts, D \ {n}) /\ SumOver(counts, M) \in Nat
    BY <1>1, <1>2, <1>3, SumPops
<1>6. SumOver(counts, Below(layout, n)) \in Nat
    BY <1>2, <1>3, SumPops
<1>7. counts[n] \in Nat
    OBVIOUS
<1> QED BY <1>1, <1>4, <1>5, <1>6, <1>7 DEF M

\* ... and give none twice.
LEMMA PrefixApart ==
    ASSUME NEW layout, Survivors(layout), NEW counts \in [DOMAIN layout -> Nat],
           NEW n \in DOMAIN layout, NEW m \in DOMAIN layout, Precedes(layout, n, m)
    PROVE  /\ SumOver(counts, Below(layout, n)) \in Nat
           /\ SumOver(counts, Below(layout, m)) \in Nat
           /\ SumOver(counts, Below(layout, n)) + counts[n] <= SumOver(counts, Below(layout, m))
<1> DEFINE D == Below(layout, n) \cup {n}
           M == Below(layout, m)
<1>1. D \subseteq M /\ M \subseteq DOMAIN layout /\ D \ {n} = Below(layout, n) /\ n \in D
    BY Ordered DEF Below
<1>2. IsFiniteSet(M) /\ IsFiniteSet(D) /\ IsFiniteSet(Below(layout, n))
    BY <1>1, FS_Subset DEF Survivors
<1>3. (\A x \in M : counts[x] \in Nat) /\ (\A x \in D : counts[x] \in Nat)
      /\ (\A x \in Below(layout, n) : counts[x] \in Nat)
    BY <1>1
<1> HIDE DEF D, M
<1>4. SumOver(counts, D) <= SumOver(counts, M)
    BY <1>1, <1>2, <1>3, SumGrows
<1>5. SumOver(counts, D) = counts[n] + SumOver(counts, D \ {n}) /\ SumOver(counts, M) \in Nat
    BY <1>1, <1>2, <1>3, SumPops
<1>6. SumOver(counts, Below(layout, n)) \in Nat
    BY <1>2, <1>3, SumPops
<1>7. counts[n] \in Nat
    OBVIOUS
<1> QED BY <1>1, <1>4, <1>5, <1>6, <1>7 DEF M

\* The layers the re-partition hands out.
SpanStart(survivors, failed) ==
    Min({survivors[n].s : n \in DOMAIN survivors} \cup {failed.s})
SpanEnd(survivors, failed) ==
    LET nodes == DOMAIN survivors
        last == CHOOSE n \in nodes : \A m \in nodes \ {n} : Precedes(survivors, m, n)
    IN  Larger(survivors[last].e, failed.e)

LEMMA Span ==
    ASSUME NEW survivors, Survivors(survivors), DOMAIN survivors # {}, NEW failed \in LayerRange
    PROVE  /\ SpanStart(survivors, failed) \in Nat /\ SpanEnd(survivors, failed) \in Nat
           /\ SpanStart(survivors, failed) <= failed.s /\ failed.e <= SpanEnd(survivors, failed)
           /\ failed.s <= failed.e
<1> DEFINE nodes == DOMAIN survivors
           starts == {survivors[n].s : n \in nodes} \cup {failed.s}
           last == CHOOSE n \in nodes : \A m \in nodes \ {n} : Precedes(survivors, m, n)
<1>1. failed.s \in Nat /\ failed.e \in Nat /\ failed.s <= failed.e
      /\ \A n \in nodes : survivors[n].s \in Nat /\ survivors[n].e \in Nat
    BY DEF Survivors, LayerRange
<1>2. starts \subseteq Nat /\ failed.s \in starts
    BY <1>1
<1>3. Min(starts) \in starts /\ \A y \in starts : Min(starts) <= y
    <2> HIDE DEF starts
    <2>1. \E x \in starts : \A y \in starts : x <= y
        BY <1>2, LeastNatural
    <2> QED BY <2>1 DEF Min
<1>4. last \in nodes
    <2>1. nodes \in SUBSET nodes
        OBVIOUS
    <2>2. \E n \in nodes : \A m \in nodes \ {n} : Precedes(survivors, m, n)
        BY <2>1, LastExists
    <2> QED BY <2>2
<1>5. SpanEnd(survivors, failed) = Larger(survivors[last].e, failed.e)
    BY DEF SpanEnd
<1>6. SpanStart(survivors, failed) = Min(starts)
    BY DEF SpanStart
<1> HIDE DEF starts, last
<1>7. survivors[last].e \in Nat
    BY <1>1, <1>4
<1>8. Min(starts) \in Nat /\ Min(starts) <= failed.s
    BY <1>2, <1>3
<1>9. /\ Larger(survivors[last].e, failed.e) \in Nat
      /\ failed.e <= Larger(survivors[last].e, failed.e)
    <2> DEFINE x == survivors[last].e
               y == failed.e
    <2>1. x \in Nat /\ y \in Nat
        BY <1>1, <1>7
    <2> HIDE DEF x, y
    <2>2. Larger(x, y) \in Nat /\ y <= Larger(x, y)
        BY <2>1 DEF Larger
    <2> QED BY <2>2 DEF x, y
<1> QED BY <1>1, <1>5, <1>6, <1>8, <1>9

\* The plan that gives the nodes counts layers each, end to end.
Tiling(survivors, failed, counts) ==
    LET start(n) == SpanStart(survivors, failed) + SumOver(counts, Below(survivors, n))
    IN  [n \in Receivers(counts) |->
            [s |-> start(n), e |-> start(n) + counts[n] - 1, load |-> TRUE]]

LEMMA RetilingShape ==
    ASSUME NEW survivors, Survivors(survivors), DOMAIN survivors # {}, NEW failed \in LayerRange,
           NEW plan \in Retilings(survivors, failed)
    PROVE  \E counts \in [DOMAIN survivors -> Nat] :
             /\ SumOver(counts, DOMAIN survivors)
                  = SpanEnd(survivors, failed) - SpanStart(survivors, failed) + 1
             /\ plan = Tiling(survivors, failed, counts)
<1> DEFINE nodes == DOMAIN survivors
           sizes == [n \in nodes |-> Size(survivors[n])]
           total == SpanEnd(survivors, failed) - SpanStart(survivors, failed) + 1
<1>1. Retilings(survivors, failed)
        = {Tiling(survivors, failed, counts) : counts \in LargestRemainderSplits(total, sizes)}
    BY Zenon DEF Retilings, Tiling, SpanStart, SpanEnd, Below
<1> HIDE DEF total
<1>2. PICK counts \in LargestRemainderSplits(total, sizes) :
        plan = Tiling(survivors, failed, counts)
    <2> HIDE DEF sizes
    <2> QED BY <1>1
<1>3. total \in Nat
    <2> DEFINE a == SpanStart(survivors, failed)
               z == SpanEnd(survivors, failed)
    <2>1. /\ a \in Nat /\ z \in Nat /\ a <= failed.s /\ failed.e <= z /\ failed.s <= failed.e
          /\ failed.s \in Nat /\ failed.e \in Nat
        BY Span DEF LayerRange
    <2> HIDE DEF a, z
    <2>2. z - a + 1 \in Nat
        BY <2>1
    <2> QED BY <2>2 DEF total, a, z
<1>4. DOMAIN sizes = nodes /\ sizes \in [DOMAIN sizes -> Nat \ {0}]
    <2>1. \A n \in nodes : Size(survivors[n]) \in Nat \ {0}
        BY DEF Survivors, LayerRange, Size
    <2> QED BY <2>1
<1>5. IsFiniteSet(nodes)
    BY DEF Survivors
<1> HIDE DEF sizes
<1>6. counts \in [nodes -> Nat] /\ SumOver(counts, nodes) = total
    BY <1>2, <1>3, <1>4, <1>5, SplitSums
<1> QED BY <1>2, <1>6 DEF total

\* compute_redistributions' re-partition is one: the survivors its plan names are given
\* every layer of the span, each to one of them, the failed node's layers among them.
THEOREM RetilingPartitions ==
    ASSUME NEW survivors, Survivors(survivors), DOMAIN survivors # {}, NEW failed \in LayerRange,
           NEW plan \in Retilings(survivors, failed)
    PROVE  /\ DOMAIN plan \subseteq DOMAIN survivors
           /\ \A n \in DOMAIN plan : /\ plan[n].s \in Nat /\ plan[n].e \in Nat
                                     /\ plan[n].s <= plan[n].e /\ plan[n].load
           /\ Disjoint(plan)
           /\ Owned(plan) = SpanStart(survivors, failed) .. SpanEnd(survivors, failed)
           /\ Layers(failed) \subseteq Owned(plan)
<1> DEFINE nodes == DOMAIN survivors
           a == SpanStart(survivors, failed)
           z == SpanEnd(survivors, failed)
<1>1. a \in Nat /\ z \in Nat /\ a <= failed.s /\ failed.e <= z /\ failed.s <= failed.e
    BY Span
<1>2. PICK counts \in [nodes -> Nat] :
        SumOver(counts, nodes) = z - a + 1 /\ plan = Tiling(survivors, failed, counts)
    BY RetilingShape
<1> DEFINE before(n) == SumOver(counts, Below(survivors, n))
<1>3. /\ DOMAIN plan = {n \in nodes : counts[n] > 0}
      /\ \A n \in DOMAIN plan : /\ plan[n].s = a + before(n)
                                /\ plan[n].e = a + before(n) + counts[n] - 1
                                /\ plan[n].load
    BY <1>2 DEF Tiling, Receivers
<1>4. \A n \in nodes : /\ before(n) \in Nat /\ counts[n] \in Nat
                       /\ before(n) + counts[n] <= z - a + 1
    BY <1>2, PrefixBounded
<1>5. \A n, m \in nodes : Precedes(survivors, n, m) => before(n) + counts[n] <= before(m)
    BY PrefixApart
<1>6. \A x \in Nat : x < z - a + 1 =>
        \E n \in nodes : before(n) <= x /\ x < before(n) + counts[n]
    BY <1>2, PrefixCovers
<1> HIDE DEF a, z, before
<1>7. \A n \in DOMAIN plan : /\ plan[n].s \in Nat /\ plan[n].e \in Nat
                             /\ plan[n].s <= plan[n].e /\ plan[n].load
    BY <1>1, <1>3, <1>4
<1>8. Disjoint(plan)
    <2> SUFFICES ASSUME NEW n \in DOMAIN plan, NEW m \in DOMAIN plan, n # m
                 PROVE  Apart(plan[n], plan[m])
        BY DEF Disjoint
    <2>1. n \in nodes /\ m \in nodes /\ (Precedes(survivors, n, m) \/ Precedes(survivors, m, n))
        BY <1>3, Ordered
    <2> QED BY <1>1, <1>3, <1>4, <1>5, <2>1 DEF Apart
<1>9. Owned(plan) = a .. z
    <2>1. ASSUME NEW n \in DOMAIN plan PROVE Layers(plan[n]) \subseteq a .. z
        BY <1>1, <1>3, <1>4 DEF Layers
    <2>2. ASSUME NEW x \in a .. z PROVE \E n \in DOMAIN plan : x \in Layers(plan[n])
        <3>1. x - a \in Nat /\ x - a < z - a + 1
            BY <1>1
        <3>2. PICK n \in nodes : before(n) <= x - a /\ x - a < before(n) + counts[n]
            BY <1>6, <3>1
        <3>3. n \in DOMAIN plan
            BY <1>3, <1>4, <3>1, <3>2
        <3>4. x \in Layers(plan[n])
            BY <1>1, <1>3, <1>4, <3>1, <3>2, <3>3 DEF Layers
        <3> QED BY <3>3, <3>4
    <2> QED BY <2>1, <2>2 DEF Owned
<1>10. Layers(failed) \subseteq a .. z
    BY <1>1 DEF Layers, LayerRange
<1> QED BY <1>3, <1>7, <1>8, <1>9, <1>10 DEF a, z

\* Whichever way it goes, a plan of compute_redistributions leaves every survivor with a
\* range, and each layer of the failed node with a survivor.
THEOREM PlanSound ==
    ASSUME NEW survivors, Survivors(survivors), DOMAIN survivors # {}, NEW failed \in LayerRange,
           NEW plan \in ComputeRedistributions(survivors, failed)
    PROVE  LET new == Refreshed(survivors, plan)
           IN  /\ DOMAIN plan \subseteq DOMAIN survivors
               /\ new \in [DOMAIN survivors -> LayerRange]
               /\ Layers(failed) \subseteq Owned(new)
<1> DEFINE new == Refreshed(survivors, plan)
<1>1. CASE CleanTiling(survivors, failed)
    <2>1. plan = Absorption(survivors, failed)
        BY <1>1 DEF ComputeRedistributions
    <2>2. Clean(survivors, failed)
        BY <1>1 DEF Clean, Survivors
    <2>3. DOMAIN plan = Left(survivors, failed) \cup Right(survivors, failed)
        BY <2>1, <2>2, AbsorptionShape
    <2>4. DOMAIN plan \subseteq DOMAIN survivors
        BY <2>3 DEF Left, Right
    <2> QED BY <2>1, <2>2, <2>4, AbsorptionSound
<1>2. CASE ~CleanTiling(survivors, failed)
    <2>1. plan \in Retilings(survivors, failed)
        BY <1>2 DEF ComputeRedistributions
    <2>2. /\ DOMAIN plan \subseteq DOMAIN survivors
          /\ \A n \in DOMAIN plan : /\ plan[n].s \in Nat /\ plan[n].e \in Nat
                                    /\ plan[n].s <= plan[n].e
          /\ Layers(failed) \subseteq Owned(plan)
        BY <2>1, RetilingPartitions
    <2>3. /\ DOMAIN new = DOMAIN survivors
          /\ \A n \in DOMAIN survivors :
               new[n] = IF n \in DOMAIN plan THEN [s |-> plan[n].s, e |-> plan[n].e] ELSE survivors[n]
          /\ new = [n \in DOMAIN survivors |-> new[n]]
        BY DEF Refreshed
    <2> HIDE DEF new
    <2>4. ASSUME NEW n \in DOMAIN plan
          PROVE  /\ new[n] \in LayerRange /\ Layers(new[n]) = Layers(plan[n])
        <3>1. new[n] = [s |-> plan[n].s, e |-> plan[n].e]
            BY <2>2, <2>3
        <3> QED BY <2>2, <3>1 DEF LayerRange, Layers
    <2>5. \A n \in DOMAIN survivors : new[n] \in LayerRange
        BY <2>3, <2>4 DEF Survivors
    <2>6. new \in [DOMAIN survivors -> LayerRange]
        BY <2>3, <2>5
    <2>7. Owned(plan) \subseteq Owned(new)
        BY <2>2, <2>3, <2>4 DEF Owned
    <2> QED BY <2>2, <2>6, <2>7 DEF new
<1> QED BY <1>1, <1>2
===============================================================================
