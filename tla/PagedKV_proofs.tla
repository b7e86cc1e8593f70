--------------------------- MODULE PagedKV_proofs ---------------------------
(***************************************************************************)
(* Safety of the paged KV-cache manager for any pool, any number of        *)
(* threads and sequences and any assignment of sequences to shard locks.   *)
(* The types and the feasibility of compaction plans hold always, the      *)
(* reference counts and what rests on them until a copy_on_write copies    *)
(* references while the pool is being compacted.                           *)
(***************************************************************************)
EXTENDS PagedKV, FiniteSetTheorems, TLAPS

(***************************************************************************)
(* Counting                                                                *)
(***************************************************************************)
(* A part of a finite set counts no more than the whole. *)
LEMMA FewerCounted ==
  ASSUME NEW S, IsFiniteSet(S), NEW T \in SUBSET S
  PROVE  Cardinality(T) \in Nat /\ Cardinality(T) <= Cardinality(S)
  BY FS_Subset, FS_CardinalityType

(* Removing a member counts one less. *)
LEMMA OneCountedLess ==
  ASSUME NEW S, IsFiniteSet(S), NEW x \in S, NEW T \in SUBSET (S \ {x})
  PROVE  Cardinality(T) \in Nat /\ Cardinality(T) <= Cardinality(S) - 1
<1>1. IsFiniteSet(S \ {x}) /\ Cardinality(S \ {x}) = Cardinality(S) - 1
  BY FS_RemoveElement
<1>. QED
  BY <1>1, FS_Subset, FS_CardinalityType

(* Adding a new member counts one more. *)
LEMMA OneCountedMore ==
  ASSUME NEW S, IsFiniteSet(S), NEW x, NEW T \in SUBSET (S \cup {x})
  PROVE  Cardinality(T) \in Nat /\ Cardinality(T) <= Cardinality(S) + 1
<1>1. /\ IsFiniteSet(S \cup {x})
      /\ Cardinality(S \cup {x}) = IF x \in S THEN Cardinality(S) ELSE Cardinality(S) + 1
  BY FS_AddElement
<1>2. Cardinality(T) \in Nat /\ Cardinality(T) <= Cardinality(S \cup {x})
  BY <1>1, FewerCounted
<1>. QED
  BY <1>1, <1>2, FS_CardinalityType

(* A set of at most one element counts at most one. *)
LEMMA AtMostOne ==
  ASSUME NEW S, IsFiniteSet(S), Cardinality(S) <= 1, NEW x \in S, NEW y \in S
  PROVE  x = y
<1>1. Cardinality(S \ {x}) = Cardinality(S) - 1 /\ IsFiniteSet(S \ {x})
  BY FS_RemoveElement
<1>2. Cardinality(S) \in Nat /\ Cardinality(S \ {x}) \in Nat
  BY <1>1, FS_CardinalityType
<1>3. Cardinality(S \ {x}) = 0
  BY <1>1, <1>2
<1>. QED
  BY <1>1, <1>3, FS_EmptySet

(* The pool has finitely many blocks. *)
LEMMA BlocksFinite == IsFiniteSet(Blocks)
  BY PagedAssumption, FS_Interval DEF Blocks

(* The references to a block that are counted are finitely many. *)
LEMMA CountedFinite ==
  ASSUME NEW b \in Blocks
  PROVE  /\ Counted(b) \subseteq Seqs /\ Counted(b)' \subseteq Seqs
         /\ IsFiniteSet(Counted(b)) /\ IsFiniteSet(Counted(b)')
         /\ Cardinality(Counted(b)) \in Nat /\ Cardinality(Counted(b)') \in Nat
<1>1. Counted(b) \subseteq Seqs /\ Counted(b)' \subseteq Seqs
  BY DEF Counted
<1>. QED
  BY <1>1, PagedAssumption, FS_Subset, FS_CardinalityType

(***************************************************************************)
(* The compaction plan pairs blocks one to one: the rank of a block is     *)
(* strictly monotonic in its number.                                       *)
(***************************************************************************)
(* Among the blocks from the top, a lower one has a higher rank. *)
LEMMA RankAbove ==
  ASSUME NEW S \in SUBSET Int, IsFiniteSet(S), NEW x \in S, NEW y \in S, x < y
  PROVE  Cardinality({k \in S : k > x}) # Cardinality({k \in S : k > y})
<1>. DEFINE A == {k \in S : k > x}
            B == {k \in S : k > y}
<1>1. x \in Int /\ y \in Int
  OBVIOUS
<1>2. ASSUME NEW k \in B PROVE k \in A
  <2>1. k \in Int /\ k \in S /\ k > y
    OBVIOUS
  <2>. QED
    BY <1>1, <2>1
<1>3. y \in A /\ y \notin B
  BY <1>1
<1>4. IsFiniteSet(A)
  BY FS_Subset
<1>5. B \in SUBSET A /\ A # B
  BY <1>2, <1>3
<1>. HIDE DEF A, B
<1>6. Cardinality(A) # Cardinality(B)
  BY <1>4, <1>5, FS_Subset
<1>. QED
  BY <1>6 DEF A, B

(* Among the blocks from the bottom, a higher one has a higher rank. *)
LEMMA RankBelow ==
  ASSUME NEW S \in SUBSET Int, IsFiniteSet(S), NEW x \in S, NEW y \in S, x < y
  PROVE  Cardinality({k \in S : k < x}) # Cardinality({k \in S : k < y})
<1>. DEFINE A == {k \in S : k < x}
            B == {k \in S : k < y}
<1>1. x \in Int /\ y \in Int
  OBVIOUS
<1>2. ASSUME NEW k \in A PROVE k \in B
  <2>1. k \in Int /\ k \in S /\ k < x
    OBVIOUS
  <2>. QED
    BY <1>1, <2>1
<1>3. x \in B /\ x \notin A
  BY <1>1
<1>4. IsFiniteSet(B)
  BY FS_Subset
<1>5. A \in SUBSET B /\ A # B
  BY <1>2, <1>3
<1>. HIDE DEF A, B
<1>6. Cardinality(A) # Cardinality(B)
  BY <1>4, <1>5, FS_Subset
<1>. QED
  BY <1>6 DEF A, B

(* No two moves of a plan have the same target. *)
LEMMA PlanOneToOne ==
  ASSUME TypeOK, NEW m \in CompactionPlan, NEW n \in CompactionPlan,
         m[1] = n[1] \/ m[2] = n[2]
  PROVE  m[1] = n[1] /\ m[2] = n[2]
<1>1. Movable \in SUBSET Int /\ free \in SUBSET Int /\ IsFiniteSet(Movable) /\ IsFiniteSet(free)
  <2>1. Movable \subseteq Blocks /\ free \subseteq Blocks /\ Blocks \subseteq Int
    BY PagedAssumption DEF Movable, TypeOK, Blocks
  <2>. QED
    BY <2>1, BlocksFinite, FS_Subset
<1>2. /\ m[1] \in Movable /\ n[1] \in Movable /\ m[2] \in free /\ n[2] \in free
      /\ Cardinality({b \in Movable : b > m[1]}) = Cardinality({f \in free : f < m[2]})
      /\ Cardinality({b \in Movable : b > n[1]}) = Cardinality({f \in free : f < n[2]})
  BY DEF CompactionPlan
<1>3. m[1] \in Int /\ n[1] \in Int /\ m[2] \in Int /\ n[2] \in Int
  BY <1>1, <1>2
<1>4. CASE m[1] = n[1]
  <2>1. ~(m[2] < n[2]) /\ ~(n[2] < m[2])
    BY <1>1, <1>2, <1>4, RankBelow
  <2>. QED
    BY <1>3, <1>4, <2>1
<1>5. CASE m[2] = n[2]
  <2>1. ~(m[1] < n[1]) /\ ~(n[1] < m[1])
    BY <1>1, <1>2, <1>5, RankAbove
  <2>. QED
    BY <1>3, <1>5, <2>1
<1>. QED
  BY <1>4, <1>5

(***************************************************************************)
(* Locks                                                                   *)
(***************************************************************************)
(* What a thread is in is a call or nothing. *)
LEMMA CallTyped ==
  ASSUME TypeOK, NEW t \in Threads, call[t].op # "idle"
  PROVE  /\ call[t] \in Calls /\ call[t].seq \in Seqs /\ call[t].dest \in Seqs
         /\ call[t].at \in Nat
  BY DEF TypeOK, Calls, Idle

(***************************************************************************)
(* Types                                                                   *)
(***************************************************************************)
LEMMA TypeInit == Init => TypeOK
<1>. SUFFICES ASSUME Init PROVE TypeOK
  OBVIOUS
<1>1. <<>> \in Seq(Blocks) /\ 0 \in 0..BlockSize
  BY PagedAssumption
<1>2. overlapped \in BOOLEAN
  BY DEF Init
<1>. QED
  BY <1>1, <1>2 DEF Init, TypeOK

(* A thread that returns is in no call. *)
LEMMA ReturnTyped ==
  ASSUME TypeOK, NEW t \in Threads, Return(t)
  PROVE  call' \in [Threads -> {Idle} \cup Calls]
  BY DEF TypeOK, Return

(* What append_token puts in place of the last block and its count. *)
LEMMA OwnBlockTyped ==
  ASSUME TypeOK, NEW s \in Seqs, table[s] # <<>>, NEW w \in OwnBlock(s)
  PROVE  /\ LastOf(s) \in Blocks /\ w \in Blocks
         /\ Unshared(s, w) \in Seq(Blocks)
         /\ UnsharedRef(s, w) \in [Blocks -> Nat]
<1>1. table[s] \in Seq(Blocks) /\ ref \in [Blocks -> Nat] /\ free \subseteq Blocks
  BY DEF TypeOK
<1>2. LastOf(s) \in Blocks
  BY <1>1 DEF LastOf
<1>3. w \in Blocks /\ (w # LastOf(s) => ref[LastOf(s)] > 1)
  BY <1>1, <1>2 DEF OwnBlock
<1>4. Unshared(s, w) \in Seq(Blocks)
  BY <1>1, <1>3 DEF Unshared
<1>5. UnsharedRef(s, w) \in [Blocks -> Nat]
  BY <1>1, <1>2, <1>3 DEF UnsharedRef
<1>. QED
  BY <1>2, <1>3, <1>4, <1>5

(* The three ways to append keep the types, the fill of a block included. *)
LEMMA AppendTyped ==
  ASSUME TypeOK, NEW t \in Threads,
         AppendInBlock(t) \/ AppendNewBlock(t) \/ AppendExhausted(t)
  PROVE  TypeOK'
<1>1. /\ call[t].op = "append" /\ Return(t) /\ UNCHANGED <<plan, toSwap, overlapped>>
      /\ table[call[t].seq] # <<>>
  BY DEF AppendInBlock, AppendNewBlock, AppendExhausted, InLock
<1>2. PICK s \in Seqs : s = call[t].seq
  BY <1>1, CallTyped
<1>3. call' \in [Threads -> {Idle} \cup Calls]
  BY <1>1, ReturnTyped
<1>4. /\ filled \in [Blocks -> 0..BlockSize] /\ BlockSize \in Nat \ {0} /\ free \subseteq Blocks
      /\ table \in [Seqs -> Seq(Blocks)]
  BY PagedAssumption DEF TypeOK
<1>5. CASE AppendInBlock(t)
  <2>1. PICK w \in OwnBlock(s) :
          /\ free' = free \ {w}
          /\ ref' = UnsharedRef(s, w)
          /\ filled' = [filled EXCEPT ![w] = filled[LastOf(s)] + 1]
          /\ table' = [table EXCEPT ![s] = Unshared(s, w)]
    BY <1>2, <1>5 DEF AppendInBlock
  <2>2. /\ LastOf(s) \in Blocks /\ Unshared(s, w) \in Seq(Blocks)
        /\ UnsharedRef(s, w) \in [Blocks -> Nat]
    BY <1>1, <1>2, OwnBlockTyped
  <2>3. filled[LastOf(s)] + 1 \in 0..BlockSize
    BY <1>2, <1>4, <1>5, <2>2 DEF AppendInBlock
  <2>4. filled' \in [Blocks -> 0..BlockSize] /\ table' \in [Seqs -> Seq(Blocks)]
        /\ free' \subseteq Blocks
    BY <1>4, <2>1, <2>2, <2>3
  <2>. QED
    BY <1>1, <1>3, <2>1, <2>2, <2>4 DEF TypeOK
<1>6. CASE AppendNewBlock(t)
  <2>1. PICK w \in OwnBlock(s) : \E n \in free \ {w} :
          /\ free' = free \ {w, n}
          /\ ref' = [UnsharedRef(s, w) EXCEPT ![n] = 1]
          /\ filled' = [filled EXCEPT ![w] = filled[LastOf(s)], ![n] = 1]
          /\ table' = [table EXCEPT ![s] = Append(Unshared(s, w), n)]
    BY <1>2, <1>6 DEF AppendNewBlock
  <2>2. PICK n \in free \ {w} :
          /\ free' = free \ {w, n}
          /\ ref' = [UnsharedRef(s, w) EXCEPT ![n] = 1]
          /\ filled' = [filled EXCEPT ![w] = filled[LastOf(s)], ![n] = 1]
          /\ table' = [table EXCEPT ![s] = Append(Unshared(s, w), n)]
    BY <2>1
  <2>3. /\ LastOf(s) \in Blocks /\ Unshared(s, w) \in Seq(Blocks)
        /\ UnsharedRef(s, w) \in [Blocks -> Nat]
    BY <1>1, <1>2, OwnBlockTyped
  <2>4. n \in Blocks /\ Append(Unshared(s, w), n) \in Seq(Blocks)
    BY <1>4, <2>3
  <2>5. filled[LastOf(s)] \in 0..BlockSize /\ 1 \in 0..BlockSize
    BY <1>4, <2>3
  <2>6. filled' \in [Blocks -> 0..BlockSize] /\ table' \in [Seqs -> Seq(Blocks)]
        /\ free' \subseteq Blocks /\ ref' \in [Blocks -> Nat]
    BY <1>4, <2>2, <2>3, <2>4, <2>5
  <2>. QED
    BY <1>1, <1>3, <2>6 DEF TypeOK
<1>7. CASE AppendExhausted(t)
  <2>1. PICK w \in OwnBlock(s) :
          /\ free' = {}
          /\ ref' = UnsharedRef(s, w)
          /\ filled' = [filled EXCEPT ![w] = filled[LastOf(s)]]
          /\ table' = [table EXCEPT ![s] = Unshared(s, w)]
    BY <1>2, <1>7 DEF AppendExhausted
  <2>2. /\ LastOf(s) \in Blocks /\ Unshared(s, w) \in Seq(Blocks)
        /\ UnsharedRef(s, w) \in [Blocks -> Nat]
    BY <1>1, <1>2, OwnBlockTyped
  <2>3. filled' \in [Blocks -> 0..BlockSize] /\ table' \in [Seqs -> Seq(Blocks)]
        /\ free' \subseteq Blocks
    BY <1>4, <2>1, <2>2
  <2>. QED
    BY <1>1, <1>3, <2>1, <2>2, <2>3 DEF TypeOK
<1>. QED
  BY <1>5, <1>6, <1>7

(* The moves of a compaction keep the types. *)
LEMMA MoveTyped == ASSUME TypeOK, DefragMove PROVE TypeOK'
<1>1. /\ plan \subseteq Blocks \X Blocks \X {0, 1} /\ ref \in [Blocks -> Nat]
      /\ filled \in [Blocks -> 0..BlockSize] /\ table \in [Seqs -> Seq(Blocks)]
      /\ 0 \in 0..BlockSize
  BY PagedAssumption DEF TypeOK
<1>2. ASSUME NEW b, MovedTo(b) # {} PROVE (CHOOSE m \in MovedTo(b) : TRUE) \in plan
  <2>1. (CHOOSE m \in MovedTo(b) : TRUE) \in MovedTo(b)
    BY <1>2
  <2>. QED
    BY <2>1 DEF MovedTo
<1>3. ASSUME NEW b, MovedFrom(b) # {} PROVE (CHOOSE m \in MovedFrom(b) : TRUE) \in plan
  <2>1. (CHOOSE m \in MovedFrom(b) : TRUE) \in MovedFrom(b)
    BY <1>3
  <2>. QED
    BY <2>1 DEF MovedFrom
<1>4. ASSUME NEW m \in plan PROVE m[1] \in Blocks /\ m[2] \in Blocks /\ m[3] \in Nat
  <2>1. m \in Blocks \X Blocks \X {0, 1}
    BY <1>1
  <2>2. m[3] \in {0, 1}
    BY <2>1
  <2>. QED
    BY <2>1, <2>2
<1>5. \A b \in Blocks : Relinked(b) \in Blocks
  BY <1>2, <1>4 DEF Relinked
<1>6. ref' \in [Blocks -> Nat]
  <2>1. \A b \in Blocks : MovedFrom(b) # {} => (CHOOSE m \in MovedFrom(b) : TRUE)[3] \in Nat
    BY <1>3, <1>4
  <2>. QED
    BY <1>1, <2>1 DEF DefragMove
<1>7. filled' \in [Blocks -> 0..BlockSize]
  <2>1. \A b \in Blocks : MovedFrom(b) # {} =>
                            filled[(CHOOSE m \in MovedFrom(b) : TRUE)[1]] \in 0..BlockSize
    BY <1>1, <1>3, <1>4
  <2>. QED
    BY <1>1, <2>1 DEF DefragMove
<1>8. table' \in [Seqs -> Seq(Blocks)]
  <2>1. ASSUME NEW s \in Seqs
        PROVE  [i \in DOMAIN table[s] |-> Relinked(table[s][i])] \in Seq(Blocks)
    <3>1. table[s] \in Seq(Blocks)
      BY <1>1
    <3>2. \A i \in DOMAIN table[s] : Relinked(table[s][i]) \in Blocks
      BY <1>5, <3>1
    <3>. QED
      BY <3>1, <3>2
  <2>. QED
    BY <2>1 DEF DefragMove
<1>. QED
  BY <1>6, <1>7, <1>8 DEF DefragMove, TypeOK

LEMMA TypeStep == ASSUME TypeOK, [Next]_vars PROVE TypeOK'
<1>1. ASSUME NEW t \in Threads, NEW op \in LockedOps, NEW s \in Seqs, Begin(t, op, s)
      PROVE  TypeOK'
  <2>1. [op |-> op, seq |-> s, dest |-> s, at |-> 0] \in Calls
    BY DEF Calls
  <2>. QED
    BY <1>1, <2>1 DEF Begin, TypeOK, pool
<1>2. ASSUME NEW t \in Threads, NEW p \in CowPairs, BeginCopy(t, p)
      PROVE  TypeOK'
  <2>1. [op |-> "copy", seq |-> p[1], dest |-> p[2], at |-> 0] \in Calls
    BY PagedAssumption DEF Calls
  <2>. QED
    BY <1>2, <2>1 DEF BeginCopy, TypeOK, pool
<1>3. ASSUME NEW t \in Threads, AllocateFails(t) \/ AppendRaises(t)
      PROVE  TypeOK'
  BY <1>3, ReturnTyped DEF AllocateFails, AppendRaises, TypeOK, pool
<1>4. ASSUME NEW t \in Threads, Allocate(t)
      PROVE  TypeOK'
  <2>1. call[t].seq \in Seqs /\ call' \in [Threads -> {Idle} \cup Calls]
    BY <1>4, CallTyped, ReturnTyped DEF Allocate, InLock
  <2>2. PICK n \in 1..Cardinality(free) : \E bs \in [1..n -> free] :
          /\ free' = {b \in free : \A i \in 1..n : bs[i] # b}
          /\ ref' = [b \in Blocks |-> IF \E i \in 1..n : bs[i] = b THEN 1 ELSE ref[b]]
          /\ filled' = [b \in Blocks |-> IF \E i \in 1..n : bs[i] = b THEN 0 ELSE filled[b]]
          /\ table' = [table EXCEPT ![call[t].seq] = bs]
    BY <1>4 DEF Allocate
  <2>3. PICK bs \in [1..n -> free] :
          /\ free' = {b \in free : \A i \in 1..n : bs[i] # b}
          /\ ref' = [b \in Blocks |-> IF \E i \in 1..n : bs[i] = b THEN 1 ELSE ref[b]]
          /\ filled' = [b \in Blocks |-> IF \E i \in 1..n : bs[i] = b THEN 0 ELSE filled[b]]
          /\ table' = [table EXCEPT ![call[t].seq] = bs]
    BY <2>2
  <2>4. n \in Nat /\ free \subseteq Blocks
    <3>1. free \subseteq Blocks
      BY DEF TypeOK
    <3>2. Cardinality(free) \in Nat
      BY <3>1, BlocksFinite, FS_Subset, FS_CardinalityType
    <3>. QED
      BY <3>1, <3>2
  <2>5. bs \in Seq(Blocks)
    BY <2>4
  <2>6. ref' \in [Blocks -> Nat] /\ filled' \in [Blocks -> 0..BlockSize]
    BY <2>3, PagedAssumption DEF TypeOK
  <2>7. free' \subseteq Blocks /\ table' \in [Seqs -> Seq(Blocks)]
    BY <2>1, <2>3, <2>4, <2>5 DEF TypeOK
  <2>. QED
    BY <1>4, <2>1, <2>6, <2>7 DEF Allocate, TypeOK
<1>5. ASSUME NEW t \in Threads, FreeSequence(t)
      PROVE  TypeOK'
  <2>1. call[t].seq \in Seqs /\ call' \in [Threads -> {Idle} \cup Calls]
    BY <1>5, CallTyped, ReturnTyped DEF FreeSequence, InLock
  <2>2. Held(call[t].seq) \subseteq Blocks
    BY <2>1 DEF Held, TypeOK
  <2>3. <<>> \in Seq(Blocks) /\ 0 \in 0..BlockSize
    BY PagedAssumption
  <2>4. ref' \in [Blocks -> Nat]
    BY <1>5 DEF FreeSequence, TypeOK
  <2>5. filled' \in [Blocks -> 0..BlockSize] /\ free' \subseteq Blocks
        /\ table' \in [Seqs -> Seq(Blocks)]
    BY <1>5, <2>2, <2>3 DEF FreeSequence, TypeOK
  <2>. QED
    BY <1>5, <2>1, <2>4, <2>5 DEF FreeSequence, TypeOK
<1>6. ASSUME NEW t \in Threads, CopyTable(t)
      PROVE  TypeOK'
  <2>1. call[t] \in Calls /\ call[t].seq \in Seqs
    BY <1>6, CallTyped DEF CopyTable
  <2>2. [call[t] EXCEPT !.op = "count", !.at = 1] \in Calls
    BY <2>1 DEF Calls
  <2>3. call' \in [Threads -> {Idle} \cup Calls]
    BY <1>6, <2>2, ReturnTyped DEF CopyTable, TypeOK
  <2>4. table' \in [Seqs -> Seq(Blocks)] /\ overlapped' \in BOOLEAN
    BY <1>6, <2>1 DEF CopyTable, TypeOK
  <2>. QED
    BY <1>6, <2>3, <2>4 DEF CopyTable, TypeOK
<1>7. ASSUME NEW t \in Threads, CountReference(t)
      PROVE  TypeOK'
  <2>1. call[t] \in Calls /\ call[t].at \in Nat
    BY <1>7, CallTyped DEF CountReference
  <2>2. [call[t] EXCEPT !.at = call[t].at + 1] \in Calls
    BY <2>1 DEF Calls
  <2>3. call' \in [Threads -> {Idle} \cup Calls]
    BY <1>7, <2>2, ReturnTyped DEF CountReference, TypeOK
  <2>4. ref' \in [Blocks -> Nat]
    <3>1. PICK x : ref' = [ref EXCEPT ![x] = ref[x] + 1]
      BY <1>7 DEF CountReference
    <3>2. ref \in [Blocks -> Nat]
      BY DEF TypeOK
    <3>3. ref' = [b \in Blocks |-> IF b = x THEN ref[b] + 1 ELSE ref[b]]
      BY <3>1, <3>2
    <3>4. \A b \in Blocks : ref[b] \in Nat /\ ref[b] + 1 \in Nat
      BY <3>2
    <3>. QED
      BY <3>3, <3>4
  <2>. QED
    BY <1>7, <2>3, <2>4 DEF CountReference, TypeOK
<1>8. ASSUME DefragPlan PROVE TypeOK'
  <2>1. PICK moves \in SUBSET CompactionPlan :
          plan' = {<<m[1], m[2], ref[m[1]]>> : m \in moves}
    BY <1>8 DEF DefragPlan
  <2>2. ASSUME NEW m \in moves
        PROVE  m[1] \in Blocks /\ m[2] \in Blocks /\ ref[m[1]] \in {0, 1}
    <3>1. m[1] \in Movable /\ m[2] \in free
      BY DEF CompactionPlan
    <3>. QED
      BY <3>1 DEF Movable, TypeOK
  <2>3. plan' \subseteq Blocks \X Blocks \X {0, 1}
    BY <2>1, <2>2
  <2>4. toSwap' \subseteq Seqs /\ overlapped' \in BOOLEAN
    BY <1>8 DEF DefragPlan, TypeOK
  <2>. QED
    BY <1>8, <2>3, <2>4 DEF DefragPlan, TypeOK, pool
<1>9. ASSUME NEW s \in Seqs, DefragSwap(s) PROVE TypeOK'
  BY <1>9 DEF DefragSwap, TypeOK, pool
<1>10. ASSUME Reset PROVE TypeOK'
  <2>1. <<>> \in Seq(Blocks) /\ 0 \in 0..BlockSize
    BY PagedAssumption
  <2>. QED
    BY <1>10, <2>1 DEF Reset, TypeOK
<1>11. ASSUME UNCHANGED vars PROVE TypeOK'
  BY <1>11 DEF vars, TypeOK
<1>. QED
  BY <1>1, <1>2, <1>3, <1>4, <1>5, <1>6, <1>7, <1>8, <1>9, <1>10, <1>11, AppendTyped, MoveTyped
  DEF Next, ThreadStep

(* Only calls that wait for _lock take or release blocks. *)
LEMMA FeasibleStep ==
  ASSUME TypeOK, PlanStaysFeasible, [Next]_vars
  PROVE  PlanStaysFeasible'
<1>1. ASSUME plan' = {} PROVE PlanStaysFeasible'
  BY <1>1 DEF PlanStaysFeasible
<1>2. ASSUME UNCHANGED <<free, plan>> PROVE PlanStaysFeasible'
  BY <1>2 DEF PlanStaysFeasible
<1>3. ASSUME NEW t \in Threads, ThreadStep(t) PROVE plan' = {} \/ UNCHANGED <<free, plan>>
  BY <1>3 DEF ThreadStep, Begin, BeginCopy, Allocate, AllocateFails, FreeSequence, AppendRaises,
              AppendInBlock, AppendNewBlock, AppendExhausted, CopyTable, CountReference, InLock,
              LockFree, pool
<1>4. CASE DefragPlan
  <2>1. UNCHANGED free
    BY <1>4 DEF DefragPlan, pool
  <2>2. PICK moves \in SUBSET CompactionPlan : plan' = {<<m[1], m[2], ref[m[1]]>> : m \in moves}
    BY <1>4 DEF DefragPlan
  <2>3. \A m \in moves : m[1] \in Blocks \ free /\ m[2] \in free
    BY DEF CompactionPlan, Movable
  <2>4. \A m, n \in moves : m[1] = n[1] \/ m[2] = n[2] => m[1] = n[1] /\ m[2] = n[2]
    BY PlanOneToOne
  <2>5. ASSUME NEW m \in plan', NEW n \in plan', m[1] = n[1] \/ m[2] = n[2]
        PROVE  m = n
    <3>1. PICK k \in moves : m = <<k[1], k[2], ref[k[1]]>>
      BY <2>2
    <3>2. PICK l \in moves : n = <<l[1], l[2], ref[l[1]]>>
      BY <2>2
    <3>. QED
      BY <2>4, <2>5, <3>1, <3>2
  <2>6. \A m \in plan' : m[1] \in Blocks \ free /\ m[2] \in free
    BY <2>2, <2>3
  <2>. QED
    BY <2>1, <2>5, <2>6 DEF PlanStaysFeasible
<1>5. CASE DefragMove \/ Reset
  BY <1>1, <1>5 DEF DefragMove, Reset, LockFree
<1>6. CASE UNCHANGED vars \/ \E s \in Seqs : DefragSwap(s)
  BY <1>2, <1>6 DEF vars, DefragSwap, pool
<1>. QED
  BY <1>1, <1>2, <1>3, <1>4, <1>5, <1>6 DEF Next

(***************************************************************************)
(* References                                                              *)
(***************************************************************************)
(* While a locked call works on s, no copy is handing references to s. *)
LEMMA NotADestination ==
  ASSUME TypeOK, ShardsExclusive, NEW t \in Threads, call[t].op \in LockedOps,
         NEW u \in Threads, call[u].op = "count"
  PROVE  call[t].seq \in Seqs /\ call[u].dest # call[t].seq /\ call[u].seq # call[t].seq
<1>1. call[t] \in Calls /\ call[u] \in Calls /\ t # u
  BY DEF TypeOK, Idle, LockedOps
<1>2. call[t].seq \in Seqs /\ HoldsShard(t, Shard[call[t].seq])
  BY <1>1 DEF HoldsShard, Calls, LockedOps
<1>3. ~HoldsShard(u, Shard[call[t].seq])
  BY <1>1, <1>2 DEF ShardsExclusive
<1>. QED
  BY <1>2, <1>3 DEF HoldsShard

(* A block in a table is counted there, or the table is being filled from *)
(* one where it is.                                                       *)
LEMMA HeldIsCounted ==
  ASSUME TypeOK, CopyInProgress, ShardsExclusive,
         NEW s \in Seqs, NEW b \in Held(s)
  PROVE  \/ s \in Counted(b)
         \/ \E u \in Threads : /\ call[u].op = "count" /\ call[u].dest = s
                              /\ call[u].seq \in Counted(b)
<1>. SUFFICES ASSUME s \notin Counted(b)
              PROVE  \E u \in Threads : /\ call[u].op = "count" /\ call[u].dest = s
                                       /\ call[u].seq \in Counted(b)
  OBVIOUS
<1>1. PICK u \in Threads : call[u].op = "count" /\ call[u].dest = s
  BY DEF Counted, Held
<1>2. /\ call[u].seq \in Seqs /\ call[u].seq # s /\ table[call[u].seq] = table[s]
      /\ HoldsShard(u, Shard[call[u].seq])
  BY <1>1 DEF CopyInProgress, TypeOK, Calls, Idle, HoldsShard
<1>3. ASSUME NEW v \in Threads, call[v].op = "count"
      PROVE  call[v].dest # call[u].seq
  <2>. SUFFICES ASSUME call[v].dest = call[u].seq
                PROVE  FALSE
    OBVIOUS
  <2>1. HoldsShard(v, Shard[call[u].seq])
    BY <1>3 DEF HoldsShard
  <2>2. u = v
    BY <1>2, <2>1 DEF ShardsExclusive
  <2>. QED
    BY <1>1, <1>2, <2>2
<1>4. \E i \in DOMAIN table[call[u].seq] : table[call[u].seq][i] = b
  BY <1>2 DEF Held
<1>5. call[u].seq \in Counted(b)
  BY <1>2, <1>3, <1>4 DEF Counted
<1>. QED
  BY <1>1, <1>5

(* A block in a table is counted and not free. *)
LEMMA HeldIsUsed ==
  ASSUME Inv, NEW s \in Seqs, NEW b \in Held(s)
  PROVE  b \in Blocks /\ Counted(b) # {} /\ ref[b] >= 1 /\ b \notin free
<1>1. b \in Blocks
  BY DEF Inv, TypeOK, Held
<1>2. Counted(b) # {}
  BY HeldIsCounted DEF Inv
<1>3. Cardinality(Counted(b)) # 0
  BY <1>1, <1>2, CountedFinite, FS_EmptySet
<1>. QED
  BY <1>1, <1>2, <1>3, CountedFinite DEF Inv, TypeOK, CountsCover, FreeIsUncounted

(* What a step does to the calls in progress. *)
LEMMA CallSteps ==
  ASSUME [Next]_vars
  PROVE  \/ UNCHANGED call
         \/ \E t \in Threads :
              \/ \E op \in LockedOps, s \in Seqs : Begin(t, op, s)
              \/ \E p \in CowPairs : BeginCopy(t, p)
              \/ Return(t)
              \/ CopyTable(t)
              \/ CountReference(t)
<1>1. ASSUME NEW t \in Threads,
             \/ Allocate(t) \/ AllocateFails(t) \/ FreeSequence(t) \/ AppendRaises(t)
             \/ AppendInBlock(t) \/ AppendNewBlock(t) \/ AppendExhausted(t)
      PROVE  Return(t)
  BY <1>1 DEF Allocate, AllocateFails, FreeSequence, AppendRaises, AppendInBlock,
              AppendNewBlock, AppendExhausted
<1>2. ASSUME DefragPlan \/ (\E s \in Seqs : DefragSwap(s)) \/ DefragMove \/ Reset
      PROVE  UNCHANGED call
  BY <1>2 DEF DefragPlan, DefragSwap, DefragMove, Reset
<1>3. ASSUME UNCHANGED vars
      PROVE  UNCHANGED call
  BY <1>3 DEF vars
<1>. QED
  BY <1>1, <1>2, <1>3 DEF Next, ThreadStep

(* A shard lock keeps having one holder. *)
LEMMA ShardsStep ==
  ASSUME TypeOK, ShardsExclusive, [Next]_vars
  PROVE  ShardsExclusive'
<1>1. ASSUME NEW t \in Threads, NEW op \in LockedOps, NEW s \in Seqs, Begin(t, op, s)
      PROVE  ShardsExclusive'
  BY <1>1 DEF Begin, ShardsExclusive, HoldsShard, ShardFree, TypeOK, Idle, Calls, LockedOps
<1>2. ASSUME NEW t \in Threads, NEW p \in CowPairs, BeginCopy(t, p)
      PROVE  ShardsExclusive'
  BY <1>2, PagedAssumption
  DEF BeginCopy, ShardsExclusive, HoldsShard, ShardFree, TypeOK, Idle, Calls, LockedOps
<1>3. ASSUME NEW t \in Threads, Return(t)
      PROVE  ShardsExclusive'
  BY <1>3 DEF Return, ShardsExclusive, HoldsShard, TypeOK, Idle, Calls, LockedOps
<1>4. ASSUME NEW t \in Threads, CopyTable(t)
      PROVE  ShardsExclusive'
  <2>1. CASE Return(t)
    BY <1>3, <2>1
  <2>2. CASE call' = [call EXCEPT ![t].op = "count", ![t].at = 1]
    <3>1. /\ call[t] \in Calls /\ call'[t].op = "count" /\ call'[t].seq = call[t].seq
          /\ call'[t].dest = call[t].dest /\ \A u \in Threads \ {t} : call'[u] = call[u]
      BY <1>4, <2>2 DEF CopyTable, TypeOK, Idle, Calls
    <3>2. /\ \A u \in Threads \ {t} : ~HoldsShard(u, Shard[call[t].dest])
          /\ \A u \in Threads \ {t} : ~HoldsShard(u, Shard[call[t].seq])
      BY <1>4, <3>1 DEF CopyTable, ShardFree, ShardsExclusive, HoldsShard, Calls
    <3>. QED
      BY <3>1, <3>2 DEF ShardsExclusive, HoldsShard
  <2>. QED
    BY <1>4, <2>1, <2>2 DEF CopyTable
<1>5. ASSUME NEW t \in Threads, CountReference(t)
      PROVE  ShardsExclusive'
  <2>1. CASE Return(t)
    BY <1>3, <2>1
  <2>2. CASE call' = [call EXCEPT ![t].at = call[t].at + 1]
    <3>1. /\ call[t] \in Calls /\ call'[t].op = call[t].op /\ call'[t].seq = call[t].seq
          /\ call'[t].dest = call[t].dest /\ \A u \in Threads \ {t} : call'[u] = call[u]
      BY <1>5, <2>2 DEF CountReference, TypeOK, Idle, Calls
    <3>. QED
      BY <3>1 DEF ShardsExclusive, HoldsShard
  <2>. QED
    BY <1>5, <2>1, <2>2 DEF CountReference
<1>6. ASSUME UNCHANGED call
      PROVE  ShardsExclusive'
  BY <1>6 DEF ShardsExclusive, HoldsShard
<1>. QED
  BY <1>1, <1>2, <1>3, <1>4, <1>5, <1>6, CallSteps

(***************************************************************************)
(* Calls under _lock                                                       *)
(***************************************************************************)
(* What a call that replaces the table of its sequence s, and returns,     *)
(* does to the copies in progress and to the counted references.           *)
LEMMA LockedStep ==
  ASSUME Inv, LockFree, NEW t \in Threads, call[t].op \in LockedOps, Return(t),
         UNCHANGED <<plan, toSwap>>,
         NEW s \in Seqs, s = call[t].seq, NEW q \in Seq(Blocks),
         table' = [table EXCEPT ![s] = q],
         \A i, j \in DOMAIN q : q[i] = q[j] => i = j
  PROVE  /\ table' \in [Seqs -> Seq(Blocks)]
         /\ \A u \in Seqs : \A i, j \in DOMAIN table'[u] : table'[u][i] = table'[u][j] => i = j
         /\ call' \in [Threads -> {Idle} \cup Calls]
         /\ CopyInProgress' /\ PlanIsCurrent'
         /\ \A b \in Blocks :
              /\ Cardinality(Counted(b)') <= Cardinality(Counted(b)) + 1
              /\ b \in Held(s) => Cardinality(Counted(b)') <= Cardinality(Counted(b))
              /\ b \notin Held(s)' => Cardinality(Counted(b)') <= Cardinality(Counted(b))
              /\ b \in Held(s) /\ b \notin Held(s)' =>
                   Cardinality(Counted(b)') <= Cardinality(Counted(b)) - 1
<1>1. /\ table \in [Seqs -> Seq(Blocks)] /\ call \in [Threads -> {Idle} \cup Calls]
      /\ \A u \in Seqs : \A i, j \in DOMAIN table[u] : table[u][i] = table[u][j] => i = j
  BY DEF Inv, TypeOK, NoBlockTwice
<1>2. /\ table'[s] = q /\ \A u \in Seqs \ {s} : table'[u] = table[u]
      /\ table' \in [Seqs -> Seq(Blocks)]
  BY <1>1
<1>3. /\ call'[t] = Idle /\ \A u \in Threads \ {t} : call'[u] = call[u]
      /\ call' \in [Threads -> {Idle} \cup Calls]
  BY <1>1 DEF Return
<1>4. ASSUME NEW u \in Threads, call[u].op = "count"
      PROVE  u # t /\ call[u].dest # s /\ call[u].seq # s /\ call[u].dest \in Seqs
             /\ call[u].seq \in Seqs /\ call[u].at \in Nat /\ call'[u] = call[u]
  <2>1. u # t /\ call[u] \in Calls
    BY <1>1, <1>4 DEF LockedOps, Idle
  <2>. QED
    BY <1>3, <1>4, <2>1, NotADestination DEF Inv, Calls
<1>5. \A u \in Threads : call'[u].op = "count" => call[u].op = "count" /\ u # t
  BY <1>3 DEF Idle
<1>6. \A u \in Seqs : \A i, j \in DOMAIN table'[u] : table'[u][i] = table'[u][j] => i = j
  <2>. TAKE u \in Seqs
  <2>1. CASE u = s
    BY <1>2, <2>1
  <2>2. CASE u # s
    BY <1>1, <1>2, <2>2
  <2>. QED
    BY <2>1, <2>2
<1>7. CopyInProgress'
  <2>1. \A u \in Threads : call'[u].op \in {"copy", "count"} => call'[u].dest # call'[u].seq
    BY <1>3 DEF CopyInProgress, Inv, Idle
  <2>2. ASSUME NEW u \in Threads, call'[u].op = "count"
        PROVE  /\ table'[call'[u].dest] = table'[call'[u].seq]
               /\ call'[u].at \in 1..Len(table'[call'[u].seq])
    BY <1>2, <1>4, <1>5, <2>2 DEF CopyInProgress, Inv
  <2>. QED
    BY <2>1, <2>2 DEF CopyInProgress
<1>8. PlanIsCurrent'
  BY DEF PlanIsCurrent, PlanStaysFeasible, LockFree
<1>9. ASSUME NEW b \in Blocks
      PROVE  /\ s \in Counted(b) <=> b \in Held(s)
             /\ s \in Counted(b)' <=> b \in Held(s)'
             /\ \A u \in Seqs \ {s} : u \in Counted(b)' => u \in Counted(b)
  <2>1. s \in Counted(b) <=> b \in Held(s)
    BY <1>4 DEF Counted, Held
  <2>2. s \in Counted(b)' <=> b \in Held(s)'
    BY <1>4, <1>5 DEF Counted, Held
  <2>3. ASSUME NEW u \in Seqs \ {s}, u \in Counted(b)'
        PROVE  u \in Counted(b)
    <3>1. PICK i \in DOMAIN table[u] :
             /\ table[u][i] = b
             /\ \A v \in Threads : call'[v].op = "count" /\ call'[v].dest = u => i < call'[v].at
      BY <1>2, <2>3 DEF Counted
    <3>. QED
      BY <1>4, <3>1 DEF Counted
  <2>. QED
    BY <2>1, <2>2, <2>3
<1>10. ASSUME NEW b \in Blocks
       PROVE  /\ Cardinality(Counted(b)') <= Cardinality(Counted(b)) + 1
              /\ b \in Held(s) => Cardinality(Counted(b)') <= Cardinality(Counted(b))
              /\ b \notin Held(s)' => Cardinality(Counted(b)') <= Cardinality(Counted(b))
              /\ b \in Held(s) /\ b \notin Held(s)' =>
                   Cardinality(Counted(b)') <= Cardinality(Counted(b)) - 1
  <2>. DEFINE C == Counted(b)
              D == Counted(b)'
  <2>1. IsFiniteSet(C) /\ D \subseteq C \cup {s}
    BY <1>9, CountedFinite
  <2>2. (b \in Held(s) <=> s \in C) /\ (b \in Held(s)' <=> s \in D)
    BY <1>9
  <2>. HIDE DEF C, D
  <2>3. Cardinality(D) <= Cardinality(C) + 1
    BY <2>1, OneCountedMore
  <2>4. ASSUME s \in C \/ s \notin D PROVE Cardinality(D) <= Cardinality(C)
    <3>1. D \in SUBSET C
      BY <2>1, <2>4
    <3>. QED
      BY <2>1, <3>1, FewerCounted
  <2>5. ASSUME s \in C, s \notin D PROVE Cardinality(D) <= Cardinality(C) - 1
    <3>1. D \in SUBSET (C \ {s})
      BY <2>1, <2>5
    <3>. QED
      BY <2>1, <2>5, <3>1, OneCountedLess
  <2>6. /\ Cardinality(D) <= Cardinality(C) + 1
        /\ b \in Held(s) => Cardinality(D) <= Cardinality(C)
        /\ b \notin Held(s)' => Cardinality(D) <= Cardinality(C)
        /\ b \in Held(s) /\ b \notin Held(s)' => Cardinality(D) <= Cardinality(C) - 1
    BY <2>2, <2>3, <2>4, <2>5
  <2>. QED
    BY <2>6 DEF C, D
<1>. QED
  BY <1>2, <1>3, <1>6, <1>7, <1>8, <1>10

(* The part of Inv that the locked calls and the defragmenter can disturb. *)
PoolInv == NoBlockTwice /\ CopyInProgress /\ PlanIsCurrent /\ FreeIsUncounted /\ CountsCover

(* allocate_sequence keeps the invariant. *)
LEMMA AllocateStep ==
  ASSUME Inv, NEW t \in Threads, Allocate(t)
  PROVE  PoolInv'
<1>1. LockFree /\ call[t].op \in LockedOps /\ Return(t) /\ UNCHANGED <<plan, toSwap>>
  BY DEF Allocate, InLock, LockedOps
<1>s. PICK s \in Seqs : s = call[t].seq
  BY <1>1, CallTyped DEF Inv, LockedOps
<1>0. PICK n \in 1..Cardinality(free) : \E bs \in [1..n -> free] :
        /\ \A i, j \in 1..n : bs[i] = bs[j] => i = j
        /\ free' = {b \in free : \A i \in 1..n : bs[i] # b}
        /\ ref' = [b \in Blocks |-> IF \E i \in 1..n : bs[i] = b THEN 1 ELSE ref[b]]
        /\ filled' = [b \in Blocks |-> IF \E i \in 1..n : bs[i] = b THEN 0 ELSE filled[b]]
        /\ table' = [table EXCEPT ![s] = bs]
  BY <1>s DEF Allocate
<1>2. PICK bs \in [1..n -> free] :
        /\ \A i, j \in 1..n : bs[i] = bs[j] => i = j
        /\ free' = {b \in free : \A i \in 1..n : bs[i] # b}
        /\ ref' = [b \in Blocks |-> IF \E i \in 1..n : bs[i] = b THEN 1 ELSE ref[b]]
        /\ filled' = [b \in Blocks |-> IF \E i \in 1..n : bs[i] = b THEN 0 ELSE filled[b]]
        /\ table' = [table EXCEPT ![s] = bs]
  BY <1>0
<1>3. free \subseteq Blocks /\ Cardinality(free) \in Nat /\ n \in Nat
  <2>1. free \subseteq Blocks
    BY DEF Inv, TypeOK
  <2>2. Cardinality(free) \in Nat
    BY <2>1, BlocksFinite, FS_Subset, FS_CardinalityType
  <2>. QED
    BY <2>1, <2>2
<1>4. /\ bs \in Seq(Blocks) /\ DOMAIN bs = 1..n
      /\ \A i, j \in DOMAIN bs : bs[i] = bs[j] => i = j
  BY <1>2, <1>3
<1>5. /\ table' \in [Seqs -> Seq(Blocks)]
      /\ \A u \in Seqs : \A i, j \in DOMAIN table'[u] : table'[u][i] = table'[u][j] => i = j
      /\ call' \in [Threads -> {Idle} \cup Calls]
      /\ CopyInProgress' /\ PlanIsCurrent'
      /\ \A b \in Blocks :
           /\ Cardinality(Counted(b)') <= Cardinality(Counted(b)) + 1
           /\ b \notin Held(s)' => Cardinality(Counted(b)') <= Cardinality(Counted(b))
  BY <1>1, <1>2, <1>4, <1>s, LockedStep
<1>6. ASSUME NEW b \in Blocks
      PROVE  b \in Held(s)' <=> \E i \in 1..n : bs[i] = b
  <2>1. table'[s] = bs
    BY <1>1, <1>2 DEF Inv, TypeOK
  <2>. QED
    BY <1>4, <2>1 DEF Held
<1>7. ref \in [Blocks -> Nat] /\ filled \in [Blocks -> 0..BlockSize] /\ BlockSize \in Nat
  BY PagedAssumption DEF Inv, TypeOK
<1>8. NoBlockTwice'
  BY <1>5 DEF NoBlockTwice
<1>9. FreeIsUncounted'
  BY <1>2, <1>3 DEF FreeIsUncounted, Inv
<1>10. ASSUME NEW b \in Blocks
       PROVE  Cardinality(Counted(b)') <= ref'[b]
  <2>1. Cardinality(Counted(b)) <= ref[b] /\ Cardinality(Counted(b)) \in Nat
        /\ Cardinality(Counted(b)') \in Nat
    BY CountedFinite DEF Inv, CountsCover
  <2>2. CASE \E i \in 1..n : bs[i] = b
    <3>1. ref[b] = 0 /\ ref'[b] = 1
      BY <1>2, <2>2 DEF Inv, FreeIsUncounted
    <3>. QED
      BY <1>5, <2>1, <3>1
  <2>3. CASE ~\E i \in 1..n : bs[i] = b
    <3>1. ref'[b] = ref[b] /\ b \notin Held(s)'
      BY <1>2, <1>6, <2>3
    <3>. QED
      BY <1>5, <1>7, <2>1, <3>1
  <2>. QED
    BY <2>2, <2>3
<1>. QED
  BY <1>5, <1>8, <1>9, <1>10 DEF PoolInv, CountsCover

(* free_sequence keeps the invariant. *)
LEMMA FreeStep ==
  ASSUME Inv, NEW t \in Threads, FreeSequence(t)
  PROVE  PoolInv'
<1>1. LockFree /\ call[t].op \in LockedOps /\ Return(t) /\ UNCHANGED <<plan, toSwap>>
  BY DEF FreeSequence, InLock, LockedOps
<1>s. PICK s \in Seqs : s = call[t].seq
  BY <1>1, CallTyped DEF Inv, LockedOps
<1>. DEFINE released == {b \in Held(s) : ref[b] <= 1}
<1>2. /\ free' = free \cup released
      /\ ref' = [b \in Blocks |-> IF b \in released THEN 0
                                  ELSE IF b \in Held(s) THEN ref[b] - 1 ELSE ref[b]]
      /\ filled' = [b \in Blocks |-> IF b \in released THEN 0 ELSE filled[b]]
      /\ table' = [table EXCEPT ![s] = <<>>]
  BY <1>s DEF FreeSequence
<1>3. /\ table' \in [Seqs -> Seq(Blocks)]
      /\ \A u \in Seqs : \A i, j \in DOMAIN table'[u] : table'[u][i] = table'[u][j] => i = j
      /\ call' \in [Threads -> {Idle} \cup Calls]
      /\ CopyInProgress' /\ PlanIsCurrent'
      /\ \A b \in Blocks :
           /\ b \notin Held(s)' => Cardinality(Counted(b)') <= Cardinality(Counted(b))
           /\ b \in Held(s) /\ b \notin Held(s)' =>
                Cardinality(Counted(b)') <= Cardinality(Counted(b)) - 1
  <2>1. <<>> \in Seq(Blocks) /\ \A i, j \in DOMAIN <<>> : <<>>[i] = <<>>[j] => i = j
    OBVIOUS
  <2>. QED
    BY <1>1, <1>2, <2>1, <1>s, LockedStep
<1>4. Held(s)' = {}
  BY <1>1, <1>2 DEF Held, Inv, TypeOK
<1>5. /\ ref \in [Blocks -> Nat] /\ filled \in [Blocks -> 0..BlockSize] /\ BlockSize \in Nat
      /\ free \subseteq Blocks /\ Held(s) \subseteq Blocks
  BY <1>1, PagedAssumption DEF Inv, TypeOK, Held
<1>7. NoBlockTwice'
  BY <1>3 DEF NoBlockTwice
<1>8. FreeIsUncounted'
  BY <1>2, <1>5, HeldIsUsed DEF FreeIsUncounted, Inv
<1>9. ASSUME NEW b \in Blocks
      PROVE  Cardinality(Counted(b)') <= ref'[b]
  <2>1. Cardinality(Counted(b)) <= ref[b] /\ Cardinality(Counted(b)) \in Nat
        /\ Cardinality(Counted(b)') \in Nat
    BY CountedFinite DEF Inv, CountsCover
  <2>. QED
    BY <1>2, <1>3, <1>4, <1>5, <2>1
<1>. QED
  BY <1>3, <1>7, <1>8, <1>9 DEF PoolInv, CountsCover

(* append_token's own block w: the last block itself, held by s alone, or  *)
(* a free one that replaces it in the table.                               *)
LEMMA OwnBlockFacts ==
  ASSUME Inv, NEW s \in Seqs, table[s] # <<>>, NEW w \in OwnBlock(s)
  PROVE  /\ LastOf(s) \in Held(s) /\ LastOf(s) \in Blocks /\ LastOf(s) \notin free
         /\ w \in Blocks /\ ref[LastOf(s)] \in Nat /\ ref[LastOf(s)] >= 1
         /\ \/ w = LastOf(s) /\ ref[w] = 1
            \/ w \in free /\ w # LastOf(s) /\ w \notin Held(s) /\ ref[w] = 0 /\ ref[LastOf(s)] > 1
         /\ Unshared(s, w) \in Seq(Blocks)
         /\ \A i, j \in DOMAIN Unshared(s, w) : Unshared(s, w)[i] = Unshared(s, w)[j] => i = j
         /\ {Unshared(s, w)[i] : i \in DOMAIN Unshared(s, w)} = (Held(s) \ {LastOf(s)}) \cup {w}
         /\ UnsharedRef(s, w) \in [Blocks -> Nat]
<1>. DEFINE q == table[s]
            k == Len(q)
            L == LastOf(s)
<1>1. /\ q \in Seq(Blocks) /\ k \in Nat \ {0} /\ DOMAIN q = 1..k /\ L = q[k]
      /\ \A i, j \in 1..k : q[i] = q[j] => i = j
  BY DEF Inv, TypeOK, NoBlockTwice, LastOf
<1>2. L \in Held(s) /\ L \in Blocks
  BY <1>1 DEF Held
<1>3. L \notin free /\ ref[L] \in Nat /\ ref[L] >= 1
  BY <1>2, HeldIsUsed DEF Inv, TypeOK
<1>4. \/ w = L /\ ref[w] = 1
      \/ w \in free /\ w # L /\ w \notin Held(s) /\ ref[w] = 0 /\ ref[L] > 1
  BY <1>3, HeldIsUsed DEF OwnBlock, Inv, FreeIsUncounted
<1>5. w \in Blocks
  BY <1>2, <1>4 DEF Inv, TypeOK
<1>6. /\ Unshared(s, w) \in Seq(Blocks) /\ DOMAIN Unshared(s, w) = 1..k
      /\ Unshared(s, w)[k] = w /\ \A i \in 1..(k - 1) : Unshared(s, w)[i] = q[i]
  BY <1>1, <1>5 DEF Unshared
<1>7. \A i \in 1..(k - 1) : q[i] \in Held(s) /\ q[i] # L /\ q[i] # w
  BY <1>1, <1>4 DEF Held
<1>8. \A i, j \in 1..k : Unshared(s, w)[i] = Unshared(s, w)[j] => i = j
  <2>. TAKE i, j \in 1..k
  <2>1. CASE i = k /\ j = k
    BY <2>1
  <2>2. CASE i \in 1..(k - 1) /\ j = k
    BY <1>6, <1>7, <2>2
  <2>3. CASE i = k /\ j \in 1..(k - 1)
    BY <1>6, <1>7, <2>3
  <2>4. CASE i \in 1..(k - 1) /\ j \in 1..(k - 1)
    BY <1>1, <1>6, <2>4
  <2>. QED
    BY <1>1, <2>1, <2>2, <2>3, <2>4
<1>9. {Unshared(s, w)[i] : i \in 1..k} = (Held(s) \ {L}) \cup {w}
  <2>1. ASSUME NEW i \in 1..k PROVE Unshared(s, w)[i] \in (Held(s) \ {L}) \cup {w}
    BY <1>1, <1>6, <1>7
  <2>2. ASSUME NEW x \in Held(s) \ {L} PROVE \E i \in 1..k : Unshared(s, w)[i] = x
    <3>1. PICK i \in 1..k : q[i] = x
      BY <1>1, <2>2 DEF Held
    <3>2. i \in 1..(k - 1)
      BY <1>1, <2>2, <3>1
    <3>. QED
      BY <1>6, <3>1, <3>2
  <2>3. \E i \in 1..k : Unshared(s, w)[i] = w
    BY <1>1, <1>6
  <2>. QED
    BY <2>1, <2>2, <2>3
<1>10. UnsharedRef(s, w) \in [Blocks -> Nat]
  BY <1>3 DEF UnsharedRef, Inv, TypeOK
<1>. QED
  BY <1>2, <1>3, <1>4, <1>5, <1>6, <1>8, <1>9, <1>10

(* append_token in general: s goes on with its own block w, and a set of   *)
(* at most one further block, both no longer free.                         *)
AppendsTo(t, s, w, N, q) ==
  /\ LockFree /\ call[t].op \in LockedOps /\ Return(t) /\ UNCHANGED <<plan, toSwap>>
  /\ filled' \in [Blocks -> 0..BlockSize]
  /\ s = call[t].seq /\ table[s] # <<>>
  /\ w \in OwnBlock(s) /\ N \in SUBSET (free \ {w})
  /\ q \in Seq(Blocks) /\ \A i, j \in DOMAIN q : q[i] = q[j] => i = j
  /\ {q[i] : i \in DOMAIN q} = (Held(s) \ {LastOf(s)}) \cup {w} \cup N
  /\ table' = [table EXCEPT ![s] = q]
  /\ free' = (free \ {w}) \ N
  /\ ref' = [b \in Blocks |-> IF b \in N THEN 1 ELSE UnsharedRef(s, w)[b]]

(* An append of the form above keeps the invariant. *)
LEMMA AppendStep ==
  ASSUME Inv, NEW t \in Threads, NEW s \in Seqs, NEW w, NEW N, NEW q, AppendsTo(t, s, w, N, q)
  PROVE  PoolInv'
<1>. USE DEF AppendsTo
<1>1. /\ table' \in [Seqs -> Seq(Blocks)]
      /\ \A u \in Seqs : \A i, j \in DOMAIN table'[u] : table'[u][i] = table'[u][j] => i = j
      /\ call' \in [Threads -> {Idle} \cup Calls]
      /\ CopyInProgress' /\ PlanIsCurrent'
      /\ \A b \in Blocks :
           /\ Cardinality(Counted(b)') <= Cardinality(Counted(b)) + 1
           /\ b \in Held(s) => Cardinality(Counted(b)') <= Cardinality(Counted(b))
           /\ b \notin Held(s)' => Cardinality(Counted(b)') <= Cardinality(Counted(b))
           /\ b \in Held(s) /\ b \notin Held(s)' =>
                Cardinality(Counted(b)') <= Cardinality(Counted(b)) - 1
  BY LockedStep
<1>2. Held(s)' = (Held(s) \ {LastOf(s)}) \cup {w} \cup N
  <2>1. table'[s] = q
    BY DEF Inv, TypeOK
  <2>. QED
    BY <2>1 DEF Held
<1>. DEFINE L == LastOf(s)
<1>3. /\ L \in Held(s) /\ L \in Blocks /\ L \notin free /\ w \in Blocks
      /\ ref[L] \in Nat /\ ref[L] >= 1
      /\ \/ w = L /\ ref[w] = 1
         \/ w \in free /\ w # L /\ w \notin Held(s) /\ ref[w] = 0 /\ ref[L] > 1
      /\ UnsharedRef(s, w) \in [Blocks -> Nat]
  BY OwnBlockFacts
<1>4. /\ ref \in [Blocks -> Nat] /\ free \subseteq Blocks /\ \A b \in free : ref[b] = 0
  BY DEF Inv, TypeOK, FreeIsUncounted
<1>5. NoBlockTwice'
  BY <1>1 DEF NoBlockTwice
<1>6. \A b \in Blocks :
        ref'[b] = IF b \in N THEN 1 ELSE IF w = L THEN ref[b] ELSE IF b = w THEN 1
                  ELSE IF b = L THEN ref[b] - 1 ELSE ref[b]
  BY DEF UnsharedRef
<1>. HIDE DEF L
<1>7. FreeIsUncounted'
  <2>. SUFFICES ASSUME NEW b \in free' PROVE ref'[b] = 0
    BY DEF FreeIsUncounted
  <2>1. b \in free /\ b # w /\ b \notin N /\ b # L /\ b \in Blocks
    BY <1>3, <1>4
  <2>. QED
    BY <1>4, <1>6, <2>1
<1>8. ASSUME NEW b \in Blocks
      PROVE  Cardinality(Counted(b)') <= ref'[b]
  <2>. DEFINE c == Cardinality(Counted(b))
              d == Cardinality(Counted(b)')
  <2>1. c <= ref[b] /\ c \in Nat /\ d \in Nat /\ ref[b] \in Nat
    BY <1>4, CountedFinite DEF Inv, CountsCover
  <2>2. /\ d <= c + 1
        /\ b \in Held(s) => d <= c
        /\ b \notin Held(s)' => d <= c
        /\ b \in Held(s) /\ b \notin Held(s)' => d <= c - 1
    BY <1>1
  <2>. HIDE DEF c, d
  <2>3. CASE b \in N
    <3>1. ref[b] = 0 /\ ref'[b] = 1
      BY <1>4, <1>6, <2>3
    <3>. QED
      BY <2>1, <2>2, <3>1 DEF d
  <2>4. CASE b \notin N /\ b = w /\ w # L
    <3>1. ref[b] = 0 /\ ref'[b] = 1
      BY <1>3, <1>6, <2>4
    <3>. QED
      BY <2>1, <2>2, <3>1 DEF d
  <2>5. CASE b \notin N /\ b = L /\ w # L
    <3>1. ref'[b] = ref[b] - 1 /\ b \in Held(s) /\ b \notin Held(s)'
      BY <1>2, <1>3, <1>6, <2>5 DEF L
    <3>. QED
      BY <2>1, <2>2, <3>1 DEF d
  <2>6. CASE b \notin N /\ (w = L \/ (b # w /\ b # L))
    <3>1. ref'[b] = ref[b] /\ (b \in Held(s) \/ b \notin Held(s)')
      BY <1>2, <1>3, <1>6, <2>6 DEF L
    <3>. QED
      BY <2>1, <2>2, <3>1 DEF d
  <2>. QED
    BY <2>3, <2>4, <2>5, <2>6
<1>. QED
  BY <1>1, <1>5, <1>7, <1>8 DEF PoolInv, CountsCover

(* The three ways to append are of this form; they fill no other block.    *)
LEMMA AppendShape ==
  ASSUME Inv, NEW t \in Threads,
         AppendInBlock(t) \/ AppendNewBlock(t) \/ AppendExhausted(t)
  PROVE  \E s \in Seqs : \E w, N, q : /\ AppendsTo(t, s, w, N, q)
                                    /\ \A b \in Blocks \ (N \cup {w}) : filled'[b] = filled[b]
<1>1. LockFree /\ call[t].op \in LockedOps /\ Return(t) /\ UNCHANGED <<plan, toSwap>>
  BY DEF AppendInBlock, AppendNewBlock, AppendExhausted, InLock, LockedOps
<1>s. PICK s \in Seqs : s = call[t].seq
  BY <1>1, CallTyped DEF Inv, LockedOps
<1>2. table[s] # <<>>
  BY <1>s DEF AppendInBlock, AppendNewBlock, AppendExhausted
<1>3. filled \in [Blocks -> 0..BlockSize] /\ BlockSize \in Nat \ {0} /\ free \subseteq Blocks
  BY PagedAssumption DEF Inv, TypeOK
<1>4. CASE AppendInBlock(t)
  <2>1. PICK w \in OwnBlock(s) :
          /\ free' = free \ {w}
          /\ ref' = UnsharedRef(s, w)
          /\ filled' = [filled EXCEPT ![w] = filled[LastOf(s)] + 1]
          /\ table' = [table EXCEPT ![s] = Unshared(s, w)]
    BY <1>4, <1>s DEF AppendInBlock
  <2>2. /\ LastOf(s) \in Blocks /\ Unshared(s, w) \in Seq(Blocks)
        /\ \A i, j \in DOMAIN Unshared(s, w) : Unshared(s, w)[i] = Unshared(s, w)[j] => i = j
        /\ {Unshared(s, w)[i] : i \in DOMAIN Unshared(s, w)} = (Held(s) \ {LastOf(s)}) \cup {w}
        /\ UnsharedRef(s, w) \in [Blocks -> Nat]
    BY <1>2, OwnBlockFacts
  <2>3. filled' \in [Blocks -> 0..BlockSize]
    <3>1. filled[LastOf(s)] < BlockSize
      BY <1>4, <1>s DEF AppendInBlock
    <3>2. filled[LastOf(s)] + 1 \in 0..BlockSize
      BY <1>3, <2>2, <3>1
    <3>. QED
      BY <1>3, <2>1, <3>2
  <2>4. /\ ref' = [b \in Blocks |-> IF b \in {} THEN 1 ELSE UnsharedRef(s, w)[b]]
        /\ free' = (free \ {w}) \ {} /\ {} \in SUBSET (free \ {w})
        /\ {Unshared(s, w)[i] : i \in DOMAIN Unshared(s, w)}
             = (Held(s) \ {LastOf(s)}) \cup {w} \cup {}
    BY <2>1, <2>2
  <2>. QED
    <3>1. AppendsTo(t, s, w, {}, Unshared(s, w))
      BY <1>1, <1>s, <1>2, <2>1, <2>2, <2>3, <2>4 DEF AppendsTo
    <3>2. \A b \in Blocks \ ({} \cup {w}) : filled'[b] = filled[b]
      BY <1>3, <2>1
    <3>. QED
      BY <3>1, <3>2
<1>5. CASE AppendNewBlock(t)
  <2>0. PICK w \in OwnBlock(s) : \E n \in free \ {w} :
          /\ free' = free \ {w, n}
          /\ ref' = [UnsharedRef(s, w) EXCEPT ![n] = 1]
          /\ filled' = [filled EXCEPT ![w] = filled[LastOf(s)], ![n] = 1]
          /\ table' = [table EXCEPT ![s] = Append(Unshared(s, w), n)]
    BY <1>5, <1>s DEF AppendNewBlock
  <2>1. PICK n \in free \ {w} :
          /\ free' = free \ {w, n}
          /\ ref' = [UnsharedRef(s, w) EXCEPT ![n] = 1]
          /\ filled' = [filled EXCEPT ![w] = filled[LastOf(s)], ![n] = 1]
          /\ table' = [table EXCEPT ![s] = Append(Unshared(s, w), n)]
    BY <2>0
  <2>. DEFINE q == Unshared(s, w)
              k == Len(q)
  <2>2. /\ LastOf(s) \in Blocks /\ w \in Blocks /\ q \in Seq(Blocks)
        /\ \A i, j \in DOMAIN q : q[i] = q[j] => i = j
        /\ {q[i] : i \in DOMAIN q} = (Held(s) \ {LastOf(s)}) \cup {w}
        /\ UnsharedRef(s, w) \in [Blocks -> Nat]
    BY <1>2, OwnBlockFacts
  <2>3. filled' \in [Blocks -> 0..BlockSize]
    <3>1. filled[LastOf(s)] \in 0..BlockSize /\ 1 \in 0..BlockSize
      BY <1>3, <2>2
    <3>. QED
      BY <1>3, <2>1, <3>1
  <2>4. ref' = [b \in Blocks |-> IF b \in {n} THEN 1 ELSE UnsharedRef(s, w)[b]]
    BY <2>1, <2>2, <1>3
  <2>5. n \notin Held(s) /\ n # w /\ n \in Blocks
    BY <1>3, <2>1, HeldIsUsed
  <2>. HIDE DEF q
  <2>6. /\ k \in Nat /\ DOMAIN q = 1..k /\ Append(q, n) \in Seq(Blocks)
        /\ DOMAIN Append(q, n) = 1..(k + 1) /\ Append(q, n)[k + 1] = n
        /\ \A i \in 1..k : Append(q, n)[i] = q[i] /\ q[i] # n
    BY <2>2, <2>5
  <2>7. \A i, j \in 1..(k + 1) : Append(q, n)[i] = Append(q, n)[j] => i = j
    <3>. TAKE i, j \in 1..(k + 1)
    <3>1. CASE i \in 1..k /\ j \in 1..k
      BY <2>2, <2>6, <3>1
    <3>2. CASE i = k + 1 /\ j \in 1..k
      BY <2>6, <3>2
    <3>3. CASE i \in 1..k /\ j = k + 1
      BY <2>6, <3>3
    <3>. QED
      BY <2>6, <3>1, <3>2, <3>3
  <2>8. {Append(q, n)[i] : i \in 1..(k + 1)} = {q[i] : i \in 1..k} \cup {n}
    <3>1. ASSUME NEW i \in 1..(k + 1) PROVE Append(q, n)[i] \in {q[j] : j \in 1..k} \cup {n}
      BY <2>6
    <3>2. ASSUME NEW i \in 1..k PROVE q[i] \in {Append(q, n)[j] : j \in 1..(k + 1)}
      BY <2>6
    <3>3. n \in {Append(q, n)[j] : j \in 1..(k + 1)}
      BY <2>6
    <3>. QED
      BY <3>1, <3>2, <3>3
  <2>9. {Append(q, n)[i] : i \in DOMAIN Append(q, n)}
          = (Held(s) \ {LastOf(s)}) \cup {w} \cup {n}
    BY <2>2, <2>6, <2>8
  <2>10. free' = (free \ {w}) \ {n} /\ table' = [table EXCEPT ![s] = Append(q, n)]
    BY <2>1 DEF q
  <2>11. \A i, j \in DOMAIN Append(q, n) : Append(q, n)[i] = Append(q, n)[j] => i = j
    BY <2>6, <2>7
  <2>. QED
    <3>1. AppendsTo(t, s, w, {n}, Append(q, n))
      BY <1>1, <1>s, <1>2, <2>3, <2>4, <2>6, <2>9, <2>10, <2>11 DEF AppendsTo
    <3>2. \A b \in Blocks \ ({n} \cup {w}) : filled'[b] = filled[b]
      BY <1>3, <2>1
    <3>. QED
      BY <3>1, <3>2
<1>6. CASE AppendExhausted(t)
  <2>1. PICK w \in OwnBlock(s) :
          /\ free \ {w} = {}
          /\ free' = {}
          /\ ref' = UnsharedRef(s, w)
          /\ filled' = [filled EXCEPT ![w] = filled[LastOf(s)]]
          /\ table' = [table EXCEPT ![s] = Unshared(s, w)]
    BY <1>6, <1>s DEF AppendExhausted
  <2>2. /\ LastOf(s) \in Blocks /\ Unshared(s, w) \in Seq(Blocks)
        /\ \A i, j \in DOMAIN Unshared(s, w) : Unshared(s, w)[i] = Unshared(s, w)[j] => i = j
        /\ {Unshared(s, w)[i] : i \in DOMAIN Unshared(s, w)} = (Held(s) \ {LastOf(s)}) \cup {w}
        /\ UnsharedRef(s, w) \in [Blocks -> Nat]
    BY <1>2, OwnBlockFacts
  <2>3. filled' \in [Blocks -> 0..BlockSize]
    BY <1>3, <2>1, <2>2
  <2>4. /\ ref' = [b \in Blocks |-> IF b \in {} THEN 1 ELSE UnsharedRef(s, w)[b]]
        /\ free' = (free \ {w}) \ {} /\ {} \in SUBSET (free \ {w})
        /\ {Unshared(s, w)[i] : i \in DOMAIN Unshared(s, w)}
             = (Held(s) \ {LastOf(s)}) \cup {w} \cup {}
    BY <2>1, <2>2
  <2>. QED
    <3>1. AppendsTo(t, s, w, {}, Unshared(s, w))
      BY <1>1, <1>s, <1>2, <2>1, <2>2, <2>3, <2>4 DEF AppendsTo
    <3>2. \A b \in Blocks \ ({} \cup {w}) : filled'[b] = filled[b]
      BY <1>3, <2>1
    <3>. QED
      BY <3>1, <3>2
<1>. QED
  BY <1>4, <1>5, <1>6

(* append_token keeps the invariant, whatever way it ends. *)
LEMMA AppendSteps ==
  ASSUME Inv, NEW t \in Threads,
         AppendInBlock(t) \/ AppendNewBlock(t) \/ AppendExhausted(t)
  PROVE  PoolInv'
  BY AppendShape, AppendStep

(***************************************************************************)
(* Steps that only enter or leave a call                                   *)
(***************************************************************************)
(* Steps that change no table, count or block keep the invariant. *)
LEMMA CallOnlyStep ==
  ASSUME Inv, UNCHANGED <<pool, plan>>, NEW t \in Threads,
         NEW c \in {Idle} \cup Calls, call' = [call EXCEPT ![t] = c],
         call[t].op # "count", c.op # "count",
         c.op = "copy" => c.dest # c.seq
  PROVE  PoolInv'
<1>1. /\ call' \in [Threads -> {Idle} \cup Calls] /\ call'[t] = c
      /\ \A u \in Threads \ {t} : call'[u] = call[u]
  BY DEF Inv, TypeOK
<1>2. NoBlockTwice'
  BY DEF Inv, NoBlockTwice, pool
<1>3. CopyInProgress'
  BY <1>1 DEF Inv, CopyInProgress, pool
<1>4. PlanIsCurrent'
  BY <1>1 DEF Inv, PlanIsCurrent, PlanStaysFeasible, Counting, pool
<1>5. FreeIsUncounted'
  BY DEF Inv, FreeIsUncounted, pool
<1>6. ASSUME NEW b \in Blocks PROVE Cardinality(Counted(b)') <= ref'[b]
  <2>1. Counted(b)' = Counted(b)
    BY <1>1 DEF Counted, pool
  <2>. QED
    BY <2>1 DEF Inv, CountsCover, pool
<1>. QED
  BY <1>2, <1>3, <1>4, <1>5, <1>6 DEF PoolInv, CountsCover

(***************************************************************************)
(* copy_on_write                                                           *)
(***************************************************************************)
(* The copy of the table keeps the invariant: its references are not counted yet. *)
LEMMA CopyTableStep ==
  ASSUME Inv, NEW t \in Threads, CopyTable(t), ~overlapped'
  PROVE  PoolInv'
<1>1. /\ call[t].op = "copy" /\ call[t].seq \in Seqs /\ call[t].dest \in Seqs
      /\ ShardFree(t, Shard[call[t].dest]) /\ UNCHANGED <<free, ref, filled, plan>>
  BY CallTyped DEF CopyTable, Inv
<1>2. CASE table[call[t].seq] = <<>>
  <2>1. UNCHANGED <<pool, plan>> /\ call' = [call EXCEPT ![t] = Idle]
    BY <1>1, <1>2 DEF CopyTable, Return, pool
  <2>2. Idle.op # "count" /\ Idle.op # "copy"
    BY DEF Idle
  <2>. QED
    BY <1>1, <2>1, <2>2, CallOnlyStep
<1>3. CASE table[call[t].seq] # <<>>
  <2>s. PICK s \in Seqs, d \in Seqs : s = call[t].seq /\ d = call[t].dest
    BY <1>1
  <2>1. /\ table' = [table EXCEPT ![d] = table[s]]
        /\ call' = [call EXCEPT ![t].op = "count", ![t].at = 1]
    BY <1>3, <2>s DEF CopyTable
  <2>2. /\ table' \in [Seqs -> Seq(Blocks)] /\ table'[d] = table[s]
        /\ \A u \in Seqs \ {d} : table'[u] = table[u]
        /\ \A u \in Seqs : \A i, j \in DOMAIN table'[u] : table'[u][i] = table'[u][j] => i = j
    BY <2>1 DEF Inv, TypeOK, NoBlockTwice
  <2>3. /\ call' \in [Threads -> {Idle} \cup Calls] /\ call'[t].op = "count" /\ call'[t].at = 1
        /\ call'[t].seq = s /\ call'[t].dest = d
        /\ \A u \in Threads \ {t} : call'[u] = call[u]
    <3>1. call[t] \in Calls /\ call \in [Threads -> {Idle} \cup Calls]
      BY <1>1, CallTyped DEF Inv, TypeOK
    <3>2. [call[t] EXCEPT !.op = "count", !.at = 1] \in Calls
      BY <3>1 DEF Calls
    <3>. QED
      BY <2>1, <2>s, <3>1, <3>2 DEF Calls
  <2>4. ASSUME NEW u \in Threads \ {t}, call[u].op = "count"
        PROVE  /\ call[u].dest # d /\ call[u].seq # d /\ call[u].dest # s
               /\ call[u].seq \in Seqs /\ call[u].dest \in Seqs
    <3>1. ~HoldsShard(u, Shard[d])
      BY <1>1, <2>s DEF ShardFree
    <3>2. HoldsShard(t, Shard[s])
      BY <1>1, <2>s DEF HoldsShard
    <3>3. ~HoldsShard(u, Shard[s])
      BY <3>2 DEF Inv, ShardsExclusive
    <3>. QED
      BY <2>4, <3>1, <3>3, CallTyped DEF HoldsShard, Inv
  <2>5. s # d
    BY <1>1, <2>s DEF Inv, CopyInProgress
  <2>6. NoBlockTwice'
    BY <2>2 DEF NoBlockTwice
  <2>7. CopyInProgress'
    <3>0. \A u \in Threads :
            call'[u].op \in {"copy", "count"} => call'[u].dest # call'[u].seq
      BY <2>3, <2>5 DEF Inv, CopyInProgress
    <3>. SUFFICES ASSUME NEW u \in Threads, call'[u].op = "count"
                  PROVE  /\ table'[call'[u].dest] = table'[call'[u].seq]
                         /\ call'[u].at \in 1..Len(table'[call'[u].seq])
      BY <3>0 DEF CopyInProgress
    <3>1. CASE u = t
      <4>1. Len(table[s]) \in Nat \ {0}
        BY <1>3, <2>s DEF Inv, TypeOK
      <4>. QED
        BY <2>2, <2>3, <2>5, <3>1, <4>1
    <3>2. CASE u # t
      BY <2>2, <2>3, <2>4, <3>2 DEF Inv, CopyInProgress
    <3>. QED
      BY <3>1, <3>2
  <2>8. PlanIsCurrent'
    <3>1. plan = {}
      BY <1>3 DEF CopyTable, LockFree
    <3>. QED
      BY <1>1, <3>1 DEF PlanIsCurrent, PlanStaysFeasible
  <2>9. FreeIsUncounted'
    BY <1>1 DEF Inv, FreeIsUncounted
  <2>10. ASSUME NEW b \in Blocks PROVE Cardinality(Counted(b)') <= ref'[b]
    <3>1. ASSUME NEW u \in Counted(b)' PROVE u \in Counted(b)
      <4>1. u \in Seqs
        BY <3>1 DEF Counted
      <4>2. PICK i \in DOMAIN table'[u] :
              /\ table'[u][i] = b
              /\ \A v \in Threads : call'[v].op = "count" /\ call'[v].dest = u => i < call'[v].at
        BY <3>1 DEF Counted
      <4>3. u # d
        <5>. SUFFICES ASSUME u = d PROVE FALSE
          OBVIOUS
        <5>1. i \in Nat \ {0}
          BY <2>2, <4>1, <4>2
        <5>2. i < 1
          BY <2>3, <4>2
        <5>. QED
          BY <5>1, <5>2
      <4>4. /\ table'[u] = table[u]
            /\ \A v \in Threads : call[v].op = "count" /\ call[v].dest = u => call'[v] = call[v]
        BY <1>1, <2>2, <2>3, <4>1, <4>3
      <4>. QED
        BY <4>1, <4>2, <4>4 DEF Counted
    <3>2. Cardinality(Counted(b)') <= Cardinality(Counted(b))
      <4>1. Counted(b)' \in SUBSET Counted(b)
        BY <3>1
      <4>. QED
        BY <4>1, CountedFinite, FewerCounted
    <3>. QED
      BY <1>1, <3>2, CountedFinite DEF Inv, CountsCover, TypeOK
  <2>. QED
    BY <2>6, <2>7, <2>8, <2>9, <2>10 DEF PoolInv, CountsCover
<1>. QED
  BY <1>2, <1>3

(* Counting one of the copied references keeps the invariant. *)
LEMMA CountStep ==
  ASSUME Inv, NEW t \in Threads, CountReference(t)
  PROVE  PoolInv'
<1>1. /\ call[t].op = "count" /\ call[t] \in Calls
      /\ UNCHANGED <<free, filled, table, plan, toSwap>>
  BY CallTyped DEF CountReference, Inv
<1>s. PICK s \in Seqs, d \in Seqs, i \in Nat :
        s = call[t].seq /\ d = call[t].dest /\ i = call[t].at
  BY <1>1 DEF Calls
<1>2. /\ s # d /\ table[d] = table[s] /\ i \in 1..Len(table[s])
      /\ table[s] \in Seq(Blocks) /\ table[s][i] \in Blocks
      /\ Len(table[s]) \in Nat /\ DOMAIN table[s] = 1..Len(table[s])
      /\ \A j, k \in DOMAIN table[s] : table[s][j] = table[s][k] => j = k
  BY <1>1, <1>s DEF Inv, CopyInProgress, TypeOK, NoBlockTwice
<1>3. PICK x \in Blocks : x = table[s][i]
  BY <1>2
<1>4. ref' = [ref EXCEPT ![x] = ref[x] + 1]
  BY <1>s, <1>3 DEF CountReference
<1>5. ref \in [Blocks -> Nat] /\ ref' \in [Blocks -> Nat]
  BY <1>3, <1>4 DEF Inv, TypeOK
<1>6. /\ call' \in [Threads -> {Idle} \cup Calls]
      /\ \A u \in Threads \ {t} : call'[u] = call[u]
      /\ \/ i = Len(table[s]) /\ call'[t] = Idle
         \/ i < Len(table[s]) /\ call'[t] = [call[t] EXCEPT !.at = i + 1]
  <2>1. call \in [Threads -> {Idle} \cup Calls] /\ [call[t] EXCEPT !.at = i + 1] \in Calls
    <3>1. i + 1 \in Nat
      OBVIOUS
    <3>2. [call[t] EXCEPT !.at = i + 1] \in Calls
      BY <1>1, <3>1 DEF Calls
    <3>. QED
      BY <3>2 DEF Inv, TypeOK
  <2>2. CASE i = Len(table[s])
    BY <1>s, <2>1, <2>2 DEF CountReference, Return
  <2>3. CASE i # Len(table[s])
    <3>1. call' = [call EXCEPT ![t].at = i + 1] /\ i < Len(table[s])
      BY <1>s, <1>2, <2>3 DEF CountReference
    <3>. QED
      BY <2>1, <3>1
  <2>. QED
    BY <2>2, <2>3
<1>7. i < Len(table[s]) =>
        call'[t].op = "count" /\ call'[t].seq = s /\ call'[t].dest = d /\ call'[t].at = i + 1
  BY <1>1, <1>s, <1>2, <1>6 DEF Calls, Idle
<1>8. NoBlockTwice'
  BY <1>1 DEF Inv, NoBlockTwice
<1>9. CopyInProgress'
  <2>1. ASSUME NEW u \in Threads \ {t}
        PROVE  /\ call'[u].op \in {"copy", "count"} => call'[u].dest # call'[u].seq
               /\ call'[u].op = "count" => /\ table'[call'[u].dest] = table'[call'[u].seq]
                                           /\ call'[u].at \in 1..Len(table'[call'[u].seq])
    BY <1>1, <1>6 DEF Inv, CopyInProgress
  <2>2. CASE call'[t] = Idle
    BY <2>1, <2>2 DEF CopyInProgress, Idle
  <2>3. CASE i < Len(table[s])
    BY <1>1, <1>2, <1>7, <2>1, <2>3 DEF CopyInProgress
  <2>. QED
    BY <1>6, <2>2, <2>3
<1>10. plan = {}
  BY <1>1 DEF Inv, PlanIsCurrent, Counting
<1>11. PlanIsCurrent'
  BY <1>1, <1>10 DEF PlanIsCurrent, PlanStaysFeasible
<1>12. x \notin free
  BY <1>2, <1>3, HeldIsUsed DEF Held
<1>13. FreeIsUncounted'
  BY <1>1, <1>4, <1>5, <1>12 DEF Inv, FreeIsUncounted, TypeOK
<1>14. ASSUME NEW b \in Blocks, NEW u \in Counted(b)', u # d \/ b # x
       PROVE  u \in Counted(b)
  <2>1. u \in Seqs
    BY <1>14 DEF Counted
  <2>2. PICK j \in DOMAIN table[u] :
          /\ table[u][j] = b
          /\ \A v \in Threads : call'[v].op = "count" /\ call'[v].dest = u => j < call'[v].at
    BY <1>1, <1>14 DEF Counted
  <2>3. ASSUME NEW v \in Threads \ {t}, call[v].op = "count", call[v].dest = u
        PROVE  j < call[v].at
    BY <1>6, <2>2, <2>3
  <2>4. ASSUME u = d PROVE j < i
    <3>1. j \in 1..Len(table[s]) /\ table[s][j] = b /\ j # i
      BY <1>2, <1>3, <1>14, <2>2, <2>4
    <3>2. CASE i = Len(table[s])
      BY <1>2, <3>1, <3>2
    <3>3. CASE i < Len(table[s])
      <4>1. j < i + 1
        BY <1>7, <2>2, <2>4, <3>3
      <4>. QED
        BY <3>1, <4>1
    <3>. QED
      BY <1>2, <3>2, <3>3
  <2>5. \A v \in Threads : call[v].op = "count" /\ call[v].dest = u => j < call[v].at
    BY <1>s, <2>3, <2>4
  <2>. QED
    BY <2>1, <2>2, <2>5 DEF Counted
<1>15. ASSUME NEW b \in Blocks PROVE Cardinality(Counted(b)') <= ref'[b]
  <2>1. /\ Cardinality(Counted(b)) <= ref[b] /\ IsFiniteSet(Counted(b)) /\ ref[b] \in Nat
        /\ Cardinality(Counted(b)) \in Nat /\ Cardinality(Counted(b)') \in Nat
    BY <1>5, CountedFinite DEF Inv, CountsCover
  <2>2. CASE b = x
    <3>1. Counted(b)' \in SUBSET (Counted(b) \cup {d})
      BY <1>14
    <3>2. Cardinality(Counted(b)') <= Cardinality(Counted(b)) + 1
      BY <2>1, <3>1, OneCountedMore
    <3>3. ref'[b] = ref[b] + 1
      BY <1>4, <1>5, <2>2
    <3>. QED
      BY <2>1, <3>2, <3>3
  <2>3. CASE b # x
    <3>1. Counted(b)' \in SUBSET Counted(b)
      BY <1>14, <2>3
    <3>2. Cardinality(Counted(b)') <= Cardinality(Counted(b))
      BY <2>1, <3>1, FewerCounted
    <3>3. ref'[b] = ref[b]
      BY <1>4, <1>5, <2>3
    <3>. QED
      BY <2>1, <3>2, <3>3
  <2>. QED
    BY <2>2, <2>3
<1>. QED
  BY <1>8, <1>9, <1>11, <1>13, <1>15 DEF PoolInv, CountsCover

(***************************************************************************)
(* The defragmenter                                                        *)
(***************************************************************************)
(* A new plan is current. *)
LEMMA DefragPlanStep ==
  ASSUME Inv, DefragPlan, ~overlapped'
  PROVE  PoolInv'
<1>1. UNCHANGED <<free, ref, filled, table, call>> /\ ~Counting
  BY DEF DefragPlan, pool
<1>2. PICK moves \in SUBSET CompactionPlan : plan' = {<<m[1], m[2], ref[m[1]]>> : m \in moves}
  BY DEF DefragPlan
<1>3. \A m \in moves : /\ m[1] \in Blocks \ free /\ m[2] \in free /\ m[2] \in Blocks
                       /\ ref[m[1]] \in {0, 1}
  <2>. TAKE m \in moves
  <2>1. m[1] \in Movable /\ m[2] \in free
    BY DEF CompactionPlan
  <2>. QED
    BY <2>1 DEF Movable, Inv, TypeOK
<1>6. NoBlockTwice'
  BY <1>1 DEF Inv, NoBlockTwice
<1>7. \A m, n \in moves : m[1] = n[1] \/ m[2] = n[2] => m[1] = n[1] /\ m[2] = n[2]
  BY PlanOneToOne DEF Inv
<1>8. PlanIsCurrent'
  <2>1. ~Counting'
    BY <1>1 DEF Counting
  <2>2. \A m \in plan' : m[1] \in Blocks \ free /\ m[2] \in free /\ m[3] = ref[m[1]] /\ ref[m[1]] <= 1
    BY <1>2, <1>3
  <2>3. ASSUME NEW m \in plan', NEW n \in plan', m[1] = n[1] \/ m[2] = n[2]
        PROVE  m = n
    <3>1. PICK k \in moves : m = <<k[1], k[2], ref[k[1]]>>
      BY <1>2
    <3>2. PICK l \in moves : n = <<l[1], l[2], ref[l[1]]>>
      BY <1>2
    <3>. QED
      BY <1>7, <2>3, <3>1, <3>2
  <2>. QED
    BY <1>1, <2>1, <2>2, <2>3 DEF PlanIsCurrent, PlanStaysFeasible
<1>9. CopyInProgress' /\ FreeIsUncounted'
  BY <1>1 DEF Inv, CopyInProgress, FreeIsUncounted
<1>10. CountsCover'
  BY <1>1 DEF Inv, CountsCover, Counted
<1>. QED
  BY <1>6, <1>8, <1>9, <1>10 DEF PoolInv

(* Where the moves take the blocks: those that move leave used places for  *)
(* free ones, no two of them to the same one, and nothing else moves.      *)
LEMMA MoveFacts ==
  ASSUME Inv
  PROVE  /\ \A m \in plan : /\ MovedTo(m[1]) = {m} /\ MovedFrom(m[2]) = {m}
                            /\ MovedTo(m[2]) = {} /\ MovedFrom(m[1]) = {}
                            /\ Relinked(m[1]) = m[2] /\ m[1] \in Blocks /\ m[2] \in Blocks
                            /\ m[1] \notin free /\ m[2] \in free
         /\ \A b : MovedTo(b) = {} => Relinked(b) = b
         /\ \A b \in Blocks : Relinked(b) \in Blocks
         /\ \A b, c : b \notin free /\ c \notin free /\ Relinked(b) = Relinked(c) => b = c
<1>1. /\ \A m \in plan : m[1] \in Blocks \ free /\ m[2] \in free /\ m[2] \in Blocks
      /\ \A m, n \in plan : m[1] = n[1] \/ m[2] = n[2] => m = n
  BY DEF Inv, TypeOK, PlanIsCurrent, PlanStaysFeasible
<1>2. ASSUME NEW m \in plan
      PROVE  /\ MovedTo(m[1]) = {m} /\ MovedFrom(m[2]) = {m}
             /\ MovedTo(m[2]) = {} /\ MovedFrom(m[1]) = {}
  BY <1>1 DEF MovedTo, MovedFrom
<1>3. ASSUME NEW m \in plan PROVE Relinked(m[1]) = m[2]
  <2>1. (CHOOSE n \in {m} : TRUE) = m
    OBVIOUS
  <2>. QED
    BY <1>2, <2>1 DEF Relinked
<1>4. \A b : MovedTo(b) = {} => Relinked(b) = b
  BY DEF Relinked
<1>5. \A b : MovedTo(b) # {} => \E m \in plan : m[1] = b
  BY DEF MovedTo
<1>6. \A b \in Blocks : Relinked(b) \in Blocks
  BY <1>1, <1>3, <1>4, <1>5
<1>7. ASSUME NEW b, NEW c, b \notin free, c \notin free, Relinked(b) = Relinked(c)
      PROVE  b = c
  <2>1. CASE MovedTo(b) = {} /\ MovedTo(c) = {}
    BY <1>4, <1>7, <2>1
  <2>2. CASE MovedTo(b) = {} /\ MovedTo(c) # {}
    BY <1>1, <1>3, <1>4, <1>5, <1>7, <2>2
  <2>3. CASE MovedTo(b) # {} /\ MovedTo(c) = {}
    BY <1>1, <1>3, <1>4, <1>5, <1>7, <2>3
  <2>4. CASE MovedTo(b) # {} /\ MovedTo(c) # {}
    BY <1>1, <1>3, <1>5, <1>7, <2>4
  <2>. QED
    BY <2>1, <2>2, <2>3, <2>4
<1>. QED
  BY <1>1, <1>2, <1>3, <1>4, <1>6, <1>7

(* The moves of a compaction keep the invariant. *)
LEMMA DefragMoveStep ==
  ASSUME Inv, DefragMove
  PROVE  /\ PoolInv'
         /\ \A m \in plan : ref'[m[2]] = ref[m[1]] /\ filled'[m[2]] = filled[m[1]]
         /\ \A b \in Blocks : MovedTo(b) = {} /\ MovedFrom(b) = {} => filled'[b] = filled[b]
<1>1. /\ plan # {} /\ plan' = {} /\ UNCHANGED <<call, toSwap>> /\ ~Counting
      /\ free' = {b \in Blocks : MovedFrom(b) = {} /\ (b \in free \/ MovedTo(b) # {})}
      /\ table' = [s \in Seqs |-> [i \in DOMAIN table[s] |-> Relinked(table[s][i])]]
  BY DEF DefragMove, Inv, PlanIsCurrent
<1>2. /\ \A m \in plan : /\ MovedTo(m[1]) = {m} /\ MovedFrom(m[2]) = {m}
                         /\ MovedTo(m[2]) = {} /\ MovedFrom(m[1]) = {}
                         /\ Relinked(m[1]) = m[2] /\ m[1] \in Blocks /\ m[2] \in Blocks
                         /\ m[1] \notin free /\ m[2] \in free
      /\ \A b : MovedTo(b) = {} => Relinked(b) = b
      /\ \A b \in Blocks : Relinked(b) \in Blocks
      /\ \A b, c : b \notin free /\ c \notin free /\ Relinked(b) = Relinked(c) => b = c
  BY MoveFacts
<1>3. /\ \A b : MovedTo(b) # {} => \E m \in plan : m[1] = b
      /\ \A b : MovedFrom(b) # {} => \E m \in plan : m[2] = b
  BY DEF MovedTo, MovedFrom
<1>4. ASSUME NEW m \in plan
      PROVE  ref'[m[2]] = ref[m[1]] /\ filled'[m[2]] = filled[m[1]]
  <2>1. (CHOOSE n \in {m} : TRUE) = m /\ m[3] = ref[m[1]]
    BY DEF Inv, PlanIsCurrent
  <2>2. /\ ref'[m[2]] = (CHOOSE n \in MovedFrom(m[2]) : TRUE)[3]
        /\ filled'[m[2]] = filled[(CHOOSE n \in MovedFrom(m[2]) : TRUE)[1]]
    <3>1. m[2] \in Blocks /\ MovedTo(m[2]) = {} /\ MovedFrom(m[2]) # {}
      BY <1>2
    <3>. QED
      BY <3>1 DEF DefragMove
  <2>3. MovedFrom(m[2]) = {m}
    BY <1>2
  <2>. QED
    BY <2>1, <2>2, <2>3
<1>5. \A b \in Blocks : MovedTo(b) # {} => ref'[b] = 0 /\ filled'[b] = 0
  BY DEF DefragMove
<1>6. \A b \in Blocks : MovedTo(b) = {} /\ MovedFrom(b) = {} =>
                         ref'[b] = ref[b] /\ filled'[b] = filled[b]
  BY DEF DefragMove
<1>7. ref \in [Blocks -> Nat] /\ filled \in [Blocks -> 0..BlockSize] /\ BlockSize \in Nat \ {0}
  BY PagedAssumption DEF Inv, TypeOK
<1>8. \A b \in Blocks : ref'[b] \in Nat /\ filled'[b] \in 0..BlockSize
  BY <1>2, <1>3, <1>4, <1>5, <1>6, <1>7
<1>10. ASSUME NEW s \in Seqs
       PROVE  /\ table'[s] \in Seq(Blocks) /\ DOMAIN table'[s] = DOMAIN table[s]
              /\ \A i \in DOMAIN table[s] : table'[s][i] = Relinked(table[s][i])
              /\ \A i \in DOMAIN table[s] : table[s][i] \in Held(s)
              /\ \A i, j \in DOMAIN table[s] : table'[s][i] = table'[s][j] => i = j
  <2>1. table[s] \in Seq(Blocks) /\ \A i, j \in DOMAIN table[s] : table[s][i] = table[s][j] => i = j
    BY DEF Inv, TypeOK, NoBlockTwice
  <2>2. table'[s] = [i \in DOMAIN table[s] |-> Relinked(table[s][i])]
    BY <1>1
  <2>3. \A i \in DOMAIN table[s] : table[s][i] \in Held(s) /\ table[s][i] \notin free
    BY HeldIsUsed DEF Held
  <2>4. table'[s] \in Seq(Blocks) /\ DOMAIN table'[s] = DOMAIN table[s]
    BY <1>2, <2>1, <2>2
  <2>. QED
    BY <1>2, <2>1, <2>2, <2>3, <2>4
<1>11. NoBlockTwice'
  BY <1>10 DEF NoBlockTwice
<1>12. CopyInProgress'
  BY <1>1 DEF Inv, Counting, CopyInProgress
<1>13. PlanIsCurrent'
  BY <1>1 DEF PlanIsCurrent, PlanStaysFeasible
<1>14. FreeIsUncounted'
  BY <1>1, <1>5, <1>6 DEF Inv, FreeIsUncounted
<1>15. ASSUME NEW b \in Blocks, NEW s \in Counted(b)'
       PROVE  /\ MovedTo(b) = {}
              /\ MovedFrom(b) = {} => s \in Counted(b)
              /\ \A m \in plan : m[2] = b => s \in Counted(m[1])
  <2>1. s \in Seqs
    BY <1>15 DEF Counted
  <2>2. PICK i \in DOMAIN table[s] : Relinked(table[s][i]) = b
    BY <1>10, <1>15, <2>1 DEF Counted
  <2>3. PICK x \in Held(s) : x = table[s][i]
    BY <1>10, <2>1, <2>2
  <2>4. s \in Counted(x)
    BY <1>1, <2>1, <2>2, <2>3 DEF Counted, Counting
  <2>5. x \notin free
    BY <2>1, HeldIsUsed
  <2>6. CASE MovedTo(x) = {}
    BY <1>2, <2>2, <2>3, <2>4, <2>5, <2>6
  <2>7. CASE MovedTo(x) # {}
    <3>1. PICK n \in plan : n[1] = x
      BY <1>3, <2>7
    <3>2. n[2] = b
      BY <1>2, <2>2, <2>3, <3>1
    <3>3. MovedTo(b) = {} /\ MovedFrom(b) = {n}
      BY <1>2, <3>2
    <3>4. \A m \in plan : m[2] = b => m = n
      BY <3>3 DEF MovedFrom
    <3>. QED
      BY <2>4, <3>1, <3>3, <3>4
  <2>. QED
    BY <2>6, <2>7
<1>16. ASSUME NEW b \in Blocks PROVE Cardinality(Counted(b)') <= ref'[b]
  <2>1. CASE MovedTo(b) # {}
    <3>1. Counted(b)' = {}
      BY <1>15, <2>1
    <3>. QED
      BY <1>5, <2>1, <3>1, FS_EmptySet
  <2>2. CASE MovedFrom(b) # {}
    <3>1. PICK m \in plan : m[2] = b
      BY <1>3, <2>2
    <3>2. m[1] \in Blocks /\ ref'[b] = ref[m[1]]
      BY <1>2, <1>4, <3>1
    <3>3. Counted(b)' \in SUBSET Counted(m[1])
      BY <1>15, <3>1
    <3>4. Cardinality(Counted(b)') <= Cardinality(Counted(m[1]))
      BY <3>2, <3>3, CountedFinite, FewerCounted
    <3>5. Cardinality(Counted(m[1])) <= ref[m[1]]
      BY <3>2 DEF Inv, CountsCover
    <3>. QED
      BY <1>7, <3>2, <3>4, <3>5, CountedFinite
  <2>3. CASE MovedTo(b) = {} /\ MovedFrom(b) = {}
    <3>1. Counted(b)' \in SUBSET Counted(b) /\ ref'[b] = ref[b]
      BY <1>6, <1>15, <2>3
    <3>2. Cardinality(Counted(b)') <= Cardinality(Counted(b))
      BY <3>1, CountedFinite, FewerCounted
    <3>3. Cardinality(Counted(b)) <= ref[b]
      BY DEF Inv, CountsCover
    <3>. QED
      BY <1>7, <3>1, <3>2, <3>3, CountedFinite
  <2>. QED
    BY <2>1, <2>2, <2>3
<1>. QED
  BY <1>4, <1>6, <1>11, <1>12, <1>13, <1>14, <1>16 DEF PoolInv, CountsCover

(* reset() keeps the invariant. *)
LEMMA ResetStep ==
  ASSUME Inv, Reset
  PROVE  PoolInv'
<1>1. /\ free' = Blocks /\ ref' = [b \in Blocks |-> 0] /\ filled' = [b \in Blocks |-> 0]
      /\ table' = [s \in Seqs |-> <<>>] /\ plan = {} /\ UNCHANGED <<call, plan, toSwap>> /\ ~Copying
  BY DEF Reset, LockFree
<1>2. NoBlockTwice'
  <2>1. DOMAIN <<>> = {}
    OBVIOUS
  <2>. QED
    BY <1>1, <2>1 DEF NoBlockTwice
<1>3. CopyInProgress' /\ PlanIsCurrent' /\ FreeIsUncounted'
  BY <1>1 DEF CopyInProgress, Copying, PlanIsCurrent, PlanStaysFeasible, FreeIsUncounted
<1>4. \A b \in Blocks : Counted(b)' = {}
  BY <1>1 DEF Counted
<1>5. \A b \in Blocks : Cardinality(Counted(b)') = 0 /\ ref'[b] = 0
  BY <1>1, <1>4, FS_EmptySet
<1>6. CountsCover'
  BY <1>5 DEF CountsCover
<1>. QED
  BY <1>2, <1>3, <1>6 DEF PoolInv

(***************************************************************************)
(* The theorems                                                            *)
(***************************************************************************)
(* The initial pool satisfies the invariant. *)
LEMMA InvInit == Init => Inv
<1>. SUFFICES ASSUME Init PROVE Inv
  OBVIOUS
<1>1. TypeOK
  BY TypeInit
<1>2. NoBlockTwice /\ CopyInProgress /\ ShardsExclusive /\ PlanIsCurrent /\ FreeIsUncounted
  BY DEF Init, Idle, CopyInProgress, ShardsExclusive, HoldsShard, PlanIsCurrent, PlanStaysFeasible,
         FreeIsUncounted, NoBlockTwice
<1>3. \A b \in Blocks : Counted(b) = {}
  BY DEF Init, Counted
<1>4. \A b \in Blocks : Cardinality(Counted(b)) = 0 /\ ref[b] = 0
  BY <1>3, FS_EmptySet DEF Init
<1>5. CountsCover
  BY <1>4 DEF CountsCover
<1>. QED
  BY <1>1, <1>2, <1>5 DEF Inv

(* Every step after which no copy has overlapped a compaction keeps the    *)
(* invariant.                                                              *)
LEMMA InvStep ==
  ASSUME Inv, [Next]_vars, ~overlapped'
  PROVE  Inv'
<1>1. ShardsExclusive'
  BY ShardsStep DEF Inv
<1>2. ASSUME NEW t \in Threads, NEW op \in LockedOps, NEW s \in Seqs, Begin(t, op, s)
      PROVE  PoolInv'
  <2>. DEFINE c == [op |-> op, seq |-> s, dest |-> s, at |-> 0]
  <2>1. c \in Calls /\ c.op # "count" /\ c.op # "copy"
    BY DEF Calls, LockedOps
  <2>2. /\ UNCHANGED <<pool, plan>> /\ call[t].op # "count"
        /\ call' = [call EXCEPT ![t] = c]
    BY <1>2 DEF Begin
  <2>. HIDE DEF c
  <2>. QED
    BY <2>1, <2>2, CallOnlyStep
<1>3. ASSUME NEW t \in Threads, NEW p \in CowPairs, BeginCopy(t, p)
      PROVE  PoolInv'
  <2>. DEFINE c == [op |-> "copy", seq |-> p[1], dest |-> p[2], at |-> 0]
  <2>1. c \in Calls /\ c.op = "copy" /\ c.dest # c.seq
    BY PagedAssumption DEF Calls, LockedOps
  <2>2. /\ UNCHANGED <<pool, plan>> /\ call[t].op # "count"
        /\ call' = [call EXCEPT ![t] = c]
    BY <1>3 DEF BeginCopy
  <2>. HIDE DEF c
  <2>. QED
    BY <2>1, <2>2, CallOnlyStep
<1>4. ASSUME NEW t \in Threads, AllocateFails(t) \/ AppendRaises(t)
      PROVE  PoolInv'
  <2>1. /\ UNCHANGED <<pool, plan>> /\ call[t].op # "count"
        /\ call' = [call EXCEPT ![t] = Idle]
    BY <1>4 DEF AllocateFails, AppendRaises, InLock, Return
  <2>2. Idle.op # "count" /\ Idle.op # "copy"
    BY DEF Idle
  <2>. QED
    BY <2>1, <2>2, CallOnlyStep
<1>5. ASSUME NEW s \in Seqs, DefragSwap(s)
      PROVE  PoolInv'
  <2>1. UNCHANGED <<free, ref, filled, table, call, plan>>
    BY <1>5 DEF DefragSwap, pool
  <2>. QED
    BY <2>1 DEF PoolInv, Inv, NoBlockTwice, CopyInProgress, PlanIsCurrent, PlanStaysFeasible,
                Counting, FreeIsUncounted, CountsCover, Counted
<1>6. ASSUME UNCHANGED vars
      PROVE  PoolInv'
  BY <1>6 DEF vars, PoolInv, Inv, NoBlockTwice, CopyInProgress, PlanIsCurrent,
              PlanStaysFeasible, Counting, FreeIsUncounted, CountsCover, Counted
<1>7. PoolInv'
  BY <1>2, <1>3, <1>4, <1>5, <1>6, AllocateStep, FreeStep, AppendSteps, CopyTableStep,
     CountStep, DefragPlanStep, DefragMoveStep, ResetStep
  DEF Next, ThreadStep
<1>. QED
  BY <1>1, <1>7, TypeStep DEF Inv, PoolInv

(* What has overlapped stays so. *)
LEMMA OverlapStays == ASSUME [Next]_vars, overlapped PROVE overlapped'
<1>1. ASSUME NEW t \in Threads, ThreadStep(t) PROVE overlapped'
  BY <1>1 DEF ThreadStep, Begin, BeginCopy, Allocate, AllocateFails, FreeSequence, AppendRaises,
              AppendInBlock, AppendNewBlock, AppendExhausted, CopyTable, CountReference
<1>2. ASSUME DefragPlan \/ (\E s \in Seqs : DefragSwap(s)) \/ DefragMove \/ Reset
      PROVE  overlapped'
  BY <1>2 DEF DefragPlan, DefragSwap, DefragMove, Reset
<1>. QED
  BY <1>1, <1>2 DEF Next, vars

(***************************************************************************)
(* The types, and that no block holds more than BlockSize tokens: whatever *)
(* runs at the same time.                                                  *)
(***************************************************************************)
THEOREM PoolTypes == Spec => []TypeOK
<1>1. TypeOK /\ [Next]_vars => TypeOK'
  BY TypeStep
<1>. QED
  BY <1>1, TypeInit, PTL DEF Spec

(***************************************************************************)
(* Holding _lock from the plan to the moves keeps every move possible,     *)
(* whatever runs at the same time: only calls that wait for _lock take or  *)
(* release blocks.                                                         *)
(***************************************************************************)
THEOREM PlansStayFeasible == Spec => []PlanStaysFeasible
<1>1. Init => TypeOK /\ PlanStaysFeasible
  BY TypeInit DEF Init, PlanStaysFeasible
<1>2. TypeOK /\ PlanStaysFeasible /\ [Next]_vars => TypeOK' /\ PlanStaysFeasible'
  BY TypeStep, FeasibleStep
<1>. QED
  BY <1>1, <1>2, PTL DEF Spec

(***************************************************************************)
(* Until a copy_on_write overlaps a compaction, the counts, the locks and  *)
(* the plans are as Inv says.                                              *)
(***************************************************************************)
THEOREM PoolInvariant == Spec => [](overlapped \/ Inv)
<1>1. (overlapped \/ Inv) /\ [Next]_vars => (overlapped \/ Inv)'
  BY InvStep, OverlapStays
<1>. QED
  BY <1>1, InvInit, PTL DEF Spec

(***************************************************************************)
(* ref_count covers every counted reference, for any number of threads in  *)
(* allocate_sequence, append_token, free_sequence, half-way through        *)
(* copy_on_write and beside compactions, until a copy of references        *)
(* overlaps a compaction.                                                  *)
(***************************************************************************)
THEOREM CountsCoverReferences == Spec => []ReferencesCovered
<1>1. overlapped \/ Inv => ReferencesCovered
  BY DEF Inv, ReferencesCovered
<1>. QED
  BY <1>1, PoolInvariant, PTL

(***************************************************************************)
(* Until then no table names a free block, although copy_on_write hands    *)
(* out references before it counts them: the source's own reference, which *)
(* its shard lock protects, keeps the block alive.                         *)
(***************************************************************************)
THEOREM NoBlockUsedAfterFree == Spec => []NoUseAfterFree
<1>1. overlapped \/ Inv => NoUseAfterFree
  BY HeldIsUsed DEF NoUseAfterFree
<1>. QED
  BY <1>1, PoolInvariant, PTL

(***************************************************************************)
(* Writes                                                                  *)
(***************************************************************************)
Private(b) == \A s, u \in Seqs : b \in Held(s) /\ b \in Held(u) => s = u

(* A block that append_token may write is in no other table. *)
LEMMA CallerHoldsAlone ==
  ASSUME Inv, NEW t \in Threads, call[t].op \in LockedOps,
         NEW s \in Seqs, s = call[t].seq, NEW b \in Held(s), ref[b] <= 1,
         NEW u \in Seqs, b \in Held(u)
  PROVE  u = s
<1>1. b \in Blocks
  BY HeldIsUsed
<1>2. \A x, y \in Counted(b) : x = y
  <2>1. Cardinality(Counted(b)) <= 1 /\ IsFiniteSet(Counted(b))
    BY <1>1, CountedFinite DEF Inv, CountsCover, TypeOK
  <2>. QED
    BY <2>1, AtMostOne
<1>3. s \in Counted(b)
  BY HeldIsCounted, NotADestination DEF Inv
<1>4. u \in Counted(b) \/ \E v \in Threads : call[v].op = "count" /\ call[v].seq \in Counted(b)
  BY HeldIsCounted DEF Inv
<1>. QED
  BY <1>2, <1>3, <1>4, NotADestination DEF Inv

(* append_token writes private blocks only. *)
LEMMA AppendWrites ==
  ASSUME Inv, NEW t \in Threads, NEW s \in Seqs, NEW w, NEW N, NEW q, AppendsTo(t, s, w, N, q),
         NEW b \in N \cup {w}
  PROVE  Private(b)'
<1>. USE DEF AppendsTo
<1>1. ASSUME NEW u \in Seqs \ {s}
      PROVE  Held(u)' = Held(u)
  <2>1. table'[u] = table[u]
    BY DEF Inv, TypeOK
  <2>. QED
    BY <2>1 DEF Held
<1>2. ASSUME NEW u \in Seqs, b \in Held(u)
      PROVE  u = s
  <2>1. b \notin free
    BY <1>2, HeldIsUsed
  <2>2. b = w /\ w = LastOf(s) /\ ref[w] = 1 /\ w \in Held(s)
    BY <2>1, OwnBlockFacts
  <2>. QED
    BY <1>2, <2>2, CallerHoldsAlone
<1>. QED
  BY <1>1, <1>2 DEF Private

(* Whatever an append fills is private. *)
LEMMA AppendFills ==
  ASSUME Inv, NEW t \in Threads,
         AppendInBlock(t) \/ AppendNewBlock(t) \/ AppendExhausted(t),
         NEW b \in Blocks, filled'[b] > filled[b]
  PROVE  Private(b)'
<1>1. PICK s, w, N, q :
        /\ s \in Seqs
        /\ AppendsTo(t, s, w, N, q)
        /\ \A x \in Blocks \ (N \cup {w}) : filled'[x] = filled[x]
  BY AppendShape
<1>2. filled[b] \in Int
  BY PagedAssumption DEF Inv, TypeOK
<1>3. b \in N \cup {w}
  BY <1>1, <1>2
<1>. QED
  BY <1>1, <1>3, AppendWrites

(* Whatever a compaction fills is private. *)
LEMMA MoveFills ==
  ASSUME Inv, DefragMove, NEW b \in Blocks, filled'[b] > filled[b]
  PROVE  Private(b)'
<1>1. /\ \A m \in plan : filled'[m[2]] = filled[m[1]]
      /\ \A x \in Blocks : MovedTo(x) = {} /\ MovedFrom(x) = {} => filled'[x] = filled[x]
      /\ \A x \in Blocks : MovedTo(x) # {} => filled'[x] = 0
  BY DefragMoveStep DEF DefragMove
<1>2. filled \in [Blocks -> 0..BlockSize] /\ BlockSize \in Nat
  BY PagedAssumption DEF Inv, TypeOK
<1>3. MovedTo(b) = {} /\ MovedFrom(b) # {}
  BY <1>1, <1>2
<1>4. PICK m \in plan : m[2] = b /\ m[1] \in Blocks /\ m[1] \notin free /\ b \in free /\ MovedFrom(b) = {m}
  <2>1. PICK m \in plan : m[2] = b
    BY <1>3 DEF MovedFrom
  <2>. QED
    BY <2>1, MoveFacts
<1>5. \A x, y \in Counted(m[1]) : x = y
  <2>1. ref[m[1]] \in Nat /\ ref[m[1]] <= 1
    BY <1>4 DEF Inv, PlanIsCurrent, TypeOK
  <2>2. Cardinality(Counted(m[1])) <= 1 /\ IsFiniteSet(Counted(m[1]))
    BY <1>4, <2>1, CountedFinite DEF Inv, CountsCover
  <2>. QED
    BY <2>2, AtMostOne
<1>6. ASSUME NEW s \in Seqs, b \in Held(s)'
      PROVE  s \in Counted(m[1])
  <2>1. PICK i \in DOMAIN table[s] : Relinked(table[s][i]) = b
    BY <1>6 DEF Held, DefragMove
  <2>2. PICK x \in Held(s) : x = table[s][i]
    BY <2>1 DEF Held
  <2>3. x \notin free
    BY HeldIsUsed
  <2>4. x # b
    BY <1>4, <2>3
  <2>5. PICK n \in plan : n[1] = x
    BY <2>1, <2>2, <2>4, MoveFacts DEF MovedTo
  <2>6. n[2] = b
    BY <2>1, <2>2, <2>5, MoveFacts
  <2>7. x = m[1]
    BY <1>4, <2>5, <2>6 DEF Inv, PlanIsCurrent, PlanStaysFeasible
  <2>8. ~Counting
    BY DEF DefragMove, Inv, PlanIsCurrent
  <2>. QED
    BY <2>7, <2>8, HeldIsCounted DEF Inv, Counting
<1>. QED
  BY <1>5, <1>6 DEF Private

(***************************************************************************)
(* Until a copy overlaps a compaction, nothing is written into a block     *)
(* that two sequences share.                                               *)
(***************************************************************************)
THEOREM WritesArePrivate == Spec => PrivateWrites
<1>1. ASSUME Inv, [Next]_vars, NEW b \in Blocks, filled'[b] > filled[b]
      PROVE  Private(b)'
  <2>1. filled \in [Blocks -> 0..BlockSize] /\ filled[b] \in Int /\ BlockSize \in Nat
        /\ filled[b] >= 0 /\ ~(filled[b] > filled[b])
    BY <1>1, PagedAssumption DEF Inv, TypeOK
  <2>2. filled'[b] # filled[b] /\ filled'[b] # 0
    BY <1>1, <2>1
  <2>3. ASSUME NEW t \in Threads, Allocate(t) PROVE FALSE
    <3>1. filled'[b] \in {0, filled[b]}
      BY <2>3 DEF Allocate
    <3>. QED
      BY <2>2, <3>1
  <2>4. ASSUME NEW t \in Threads, FreeSequence(t) PROVE FALSE
    <3>1. filled'[b] \in {0, filled[b]}
      BY <2>4 DEF FreeSequence
    <3>. QED
      BY <2>2, <3>1
  <2>5. ~Reset
    BY <2>2 DEF Reset
  <2>6. ASSUME NEW t \in Threads,
               \/ \E op \in LockedOps, s \in Seqs : Begin(t, op, s)
               \/ \E p \in CowPairs : BeginCopy(t, p)
               \/ AllocateFails(t) \/ AppendRaises(t) \/ CopyTable(t) \/ CountReference(t)
        PROVE  FALSE
    BY <2>2, <2>6 DEF Begin, BeginCopy, AllocateFails, AppendRaises, CopyTable, CountReference, pool
  <2>7. ~DefragPlan /\ (\A s \in Seqs : ~DefragSwap(s)) /\ ~UNCHANGED vars
    BY <2>2 DEF DefragPlan, DefragSwap, pool, vars
  <2>. QED
    BY <1>1, <2>3, <2>4, <2>5, <2>6, <2>7, AppendFills, MoveFills DEF Next, ThreadStep
<1>2. (overlapped \/ Inv) /\ [Next]_vars =>
        [~overlapped' =>
           \A b \in Blocks : filled'[b] > filled[b] =>
             \A s, u \in Seqs : b \in Held(s)' /\ b \in Held(u)' => s = u]_vars
  BY <1>1, OverlapStays DEF Private
<1>. QED
  BY <1>2, PoolInvariant, PTL DEF Spec, PrivateWrites

(* Only the moves themselves end a plan. *)
LEMMA PlanEnds == ASSUME [Next]_vars, plan # {}, plan' = {} PROVE DefragMove
<1>1. ASSUME NEW t \in Threads, ThreadStep(t) PROVE UNCHANGED plan
  BY <1>1 DEF ThreadStep, Begin, BeginCopy, Allocate, AllocateFails, FreeSequence, AppendRaises,
              AppendInBlock, AppendNewBlock, AppendExhausted, CopyTable, CountReference
<1>2. ~UNCHANGED plan /\ ~DefragPlan
  BY DEF DefragPlan, LockFree
<1>3. ~Reset /\ (\A s \in Seqs : ~DefragSwap(s)) /\ ~UNCHANGED vars
  BY <1>2 DEF Reset, DefragSwap, vars
<1>. QED
  BY <1>1, <1>2, <1>3 DEF Next

(***************************************************************************)
(* Until a copy overlaps it, a compaction moves the blocks of every        *)
(* sequence with their contents.                                           *)
(***************************************************************************)
THEOREM CompactionIsTransparent == Spec => CompactionKeepsViews
<1>1. ASSUME Inv, DefragMove, NEW s \in Seqs
      PROVE  /\ Len(table'[s]) = Len(table[s])
             /\ \A i \in DOMAIN table[s] : filled'[table'[s][i]] = filled[table[s][i]]
  <2>1. table'[s] = [i \in DOMAIN table[s] |-> Relinked(table[s][i])] /\ table[s] \in Seq(Blocks)
    BY <1>1 DEF DefragMove, Inv, TypeOK
  <2>2. Len(table'[s]) = Len(table[s])
    BY <2>1
  <2>3. ASSUME NEW i \in DOMAIN table[s]
        PROVE  filled'[table'[s][i]] = filled[table[s][i]]
    <3>1. PICK x \in Held(s) : x = table[s][i]
      BY DEF Held
    <3>2. x \in Blocks /\ x \notin free
      BY <1>1, HeldIsUsed
    <3>3. table'[s][i] = Relinked(x)
      BY <2>1, <3>1
    <3>4. CASE MovedTo(x) # {}
      <4>1. PICK m \in plan : m[1] = x
        BY <3>4 DEF MovedTo
      <4>. QED
        BY <1>1, <3>1, <3>3, <4>1, MoveFacts, DefragMoveStep
    <3>5. CASE MovedTo(x) = {}
      <4>1. MovedFrom(x) = {}
        BY <1>1, <3>2, MoveFacts DEF MovedFrom
      <4>2. Relinked(x) = x
        BY <3>5 DEF Relinked
      <4>. QED
        BY <1>1, <3>1, <3>2, <3>3, <3>5, <4>1, <4>2, DefragMoveStep
    <3>. QED
      BY <3>4, <3>5
  <2>. QED
    BY <2>2, <2>3
<1>2. (overlapped \/ Inv) /\ [Next]_vars =>
        [~overlapped' /\ plan # {} /\ plan' = {} =>
           \A s \in Seqs :
             /\ Len(table'[s]) = Len(table[s])
             /\ \A i \in DOMAIN table[s] : filled'[table'[s][i]] = filled[table[s][i]]]_vars
  BY <1>1, PlanEnds, OverlapStays
<1>. QED
  BY <1>2, PoolInvariant, PTL DEF Spec, CompactionKeepsViews
=============================================================================
