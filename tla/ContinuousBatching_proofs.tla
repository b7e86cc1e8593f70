--------------------- MODULE ContinuousBatching_proofs ---------------------
(***************************************************************************)
(* Proofs about ContinuousBatching, for any requests, priorities, prompts, *)
(* blocks and limits.                                                      *)
(***************************************************************************)
EXTENDS ContinuousBatching, FiniteSetTheorems, SequenceTheorems, TLAPS

-----------------------------------------------------------------------------
(* Pairs of numbers, the queue, and finite sets of requests.                *)

LEMMA PairBounds ==
  ASSUME NEW a \in Int, NEW b \in Int
  PROVE  /\ Max({a, b}) \in {a, b} /\ Max({a, b}) >= a /\ Max({a, b}) >= b
         /\ Min({a, b}) \in {a, b} /\ Min({a, b}) <= a /\ Min({a, b}) <= b
<1>1. \E x \in {a, b} : \A y \in {a, b} : x >= y
  <2>1. CASE a >= b
    BY <2>1
  <2>2. CASE b >= a
    BY <2>2
  <2> QED BY <2>1, <2>2
<1>2. \E x \in {a, b} : \A y \in {a, b} : x <= y
  <2>1. CASE a <= b
    BY <2>1
  <2>2. CASE b <= a
    BY <2>2
  <2> QED BY <2>1, <2>2
<1>3. Max({a, b}) \in {a, b} /\ \A y \in {a, b} : Max({a, b}) >= y
  BY <1>1 DEF Max
<1>4. Min({a, b}) \in {a, b} /\ \A y \in {a, b} : Min({a, b}) <= y
  BY <1>2 DEF Min
<1> QED BY <1>3, <1>4

Distinct(s) == \A i, j \in 1 .. Len(s) : s[i] = s[j] => i = j

\* The elements of a sequence of requests.
LEMMA SeqElements ==
  ASSUME NEW s \in Seq(Requests)
  PROVE  ToSet(s) \subseteq Requests
BY ElementOfSeq, LenProperties DEF ToSet

LEMMA EmptyElements == ToSet(<<>>) = {} /\ Distinct(<<>>) /\ <<>> \in Seq(Requests)
BY DEF ToSet, Distinct

\* A request appended to a sequence.
LEMMA AppendElements ==
  ASSUME NEW s \in Seq(Requests), NEW r \in Requests
  PROVE  /\ Append(s, r) \in Seq(Requests)
         /\ ToSet(Append(s, r)) = ToSet(s) \cup {r}
         /\ Distinct(s) /\ r \notin ToSet(s) => Distinct(Append(s, r))
<1> DEFINE q == Append(s, r)
<1>1. /\ q \in Seq(Requests) /\ Len(q) = Len(s) + 1 /\ Len(s) \in Nat
      /\ \A i \in 1 .. Len(s) : q[i] = s[i]
      /\ q[Len(s) + 1] = r
      /\ DOMAIN q = 1 .. Len(s) + 1 /\ DOMAIN s = 1 .. Len(s)
  BY AppendProperties, LenProperties
<1> HIDE DEF q
<1>2. \A i \in 1 .. Len(q) : i \in 1 .. Len(s) \/ i = Len(s) + 1
  BY <1>1
<1>3. ToSet(q) = ToSet(s) \cup {r}
  BY <1>1, <1>2 DEF ToSet
<1>4. ASSUME Distinct(s), r \notin ToSet(s) PROVE Distinct(q)
  <2>1. \A i \in 1 .. Len(s) : s[i] # r
    BY <1>1, <1>4 DEF ToSet
  <2> QED BY <1>1, <1>2, <1>4, <2>1 DEF Distinct
<1> QED BY <1>1, <1>3, <1>4 DEF q

\* The first request taken off a sequence.
LEMMA TailElements ==
  ASSUME NEW s \in Seq(Requests), s # <<>>
  PROVE  /\ Head(s) \in Requests
         /\ Tail(s) \in Seq(Requests)
         /\ ToSet(s) = {Head(s)} \cup ToSet(Tail(s))
         /\ Distinct(s) => Distinct(Tail(s)) /\ Head(s) \notin ToSet(Tail(s))
<1> DEFINE q == Tail(s)
           n == Len(s)
<1>1. /\ Head(s) \in Requests /\ q \in Seq(Requests) /\ Len(q) = n - 1
      /\ \A i \in 1 .. Len(q) : q[i] = s[i + 1]
  BY HeadTailProperties
<1>2. /\ n \in Nat \ {0} /\ DOMAIN s = 1 .. n /\ DOMAIN q = 1 .. n - 1
      /\ Head(s) = s[1]
  BY <1>1, LenProperties, EmptySeq, HeadTailProperties
<1> HIDE DEF q, n
<1>3. \A i \in 1 .. n : i = 1 \/ (i - 1 \in 1 .. n - 1 /\ s[i] = q[i - 1])
  BY <1>1, <1>2
<1>4. \A i \in 1 .. n - 1 : i + 1 \in 1 .. n /\ i + 1 # 1 /\ q[i] = s[i + 1]
  BY <1>1, <1>2
<1>5. ToSet(s) = {Head(s)} \cup ToSet(q)
  <2>1. 1 \in 1 .. n
    BY <1>2
  <2>2. ToSet(s) = {s[i] : i \in 1 .. n} /\ ToSet(q) = {q[i] : i \in 1 .. n - 1}
    BY <1>2 DEF ToSet
  <2>3. \A i \in 1 .. n : s[i] = s[1] \/ s[i] \in ToSet(q)
    BY <1>3, <2>2
  <2>4. \A i \in 1 .. n - 1 : q[i] \in ToSet(s)
    BY <1>4, <2>2
  <2> QED BY <1>2, <2>1, <2>2, <2>3, <2>4
<1>6. ASSUME Distinct(s) PROVE Distinct(q) /\ Head(s) \notin ToSet(q)
  <2>1. \A i, j \in 1 .. n : s[i] = s[j] => i = j
    BY <1>6 DEF Distinct, n
  <2>2. 1 \in 1 .. n
    BY <1>2
  <2>3. Head(s) \notin ToSet(q)
    BY <1>2, <1>4, <2>1, <2>2 DEF ToSet
  <2>4. ASSUME NEW i \in 1 .. n - 1, NEW j \in 1 .. n - 1, q[i] = q[j] PROVE i = j
    <3>1. s[i + 1] = s[j + 1] /\ i + 1 \in 1 .. n /\ j + 1 \in 1 .. n
      BY <1>4, <2>4
    <3>2. i + 1 = j + 1
      BY <2>1, <3>1
    <3> QED BY <3>2
  <2> QED BY <1>1, <2>3, <2>4 DEF Distinct
<1> QED BY <1>1, <1>5, <1>6 DEF q

\* Sets of requests are finite.
LEMMA FiniteRequests ==
  ASSUME NEW S, S \subseteq Requests
  PROVE  IsFiniteSet(S) /\ Cardinality(S) \in Nat
BY BatchAssumption, FS_Subset, FS_CardinalityType

-----------------------------------------------------------------------------
(* Types.                                                                   *)

LEMMA GenTypes ==
  ASSUME TypeOK, NEW r \in Requests
  PROVE  gen[r] \in Nat /\ Prompt[r] \in Nat
<1>1. gen[r] \in 0 .. (MaxNew - 1) /\ MaxNew \in Nat /\ Prompt[r] \in Nat
  BY BatchAssumption DEF TypeOK
<1> QED BY <1>1

\* What a chunk is advanced to.
LEMMA AdvancedTypes ==
  ASSUME TypeOK, NEW r \in Requests
  PROVE  /\ ChunkSize(r) \in Nat \ {0}
         /\ Advanced(r) \in [done : Nat, total : Nat]
         /\ Advanced(r) # NoChunk => Advanced(r).total = chunk[r].total
         /\ Advanced(r) = NoChunk /\ chunk[r].done = 0 /\ chunk[r].total > 0
              => ChunkSize(r) >= chunk[r].total
<1> DEFINE c == chunk[r]
           step == c.done + ChunkSize(r)
           done == Max({c.done, Min({step, Prompt[r]})})
<1>1. (MaxPrefill * Weight(r)) \div 4 \in Int
  <2>1. Weight(r) \in Nat /\ MaxPrefill \in Nat
    BY BatchAssumption DEF Weight
  <2>2. MaxPrefill * Weight(r) \in Nat
    BY <2>1
  <2> HIDE DEF Weight
  <2> QED BY <2>2
<1>2. ChunkSize(r) \in Nat \ {0}
  <2> DEFINE x == (MaxPrefill * Weight(r)) \div 4
  <2>1. ChunkSize(r) = Max({1, x})
    BY DEF ChunkSize
  <2> HIDE DEF x
  <2>2. x \in Int /\ 1 \in Int
    BY <1>1 DEF x
  <2>3. Max({1, x}) \in {1, x} /\ Max({1, x}) >= 1
    BY <2>2, PairBounds
  <2> QED BY <2>1, <2>2, <2>3
<1>3. c \in [done : Nat, total : Nat] /\ Prompt[r] \in Nat
  BY BatchAssumption DEF TypeOK
<1>4. c.done \in Nat /\ c.total \in Nat /\ step \in Nat
  BY <1>2, <1>3
<1>5. Min({step, Prompt[r]}) \in Nat
  <2> DEFINE p == Prompt[r]
  <2>1. step \in Int /\ p \in Int /\ step \in Nat /\ p \in Nat
    BY <1>3, <1>4
  <2> HIDE DEF step, p
  <2>2. Min({step, p}) \in {step, p}
    BY <2>1, PairBounds
  <2> QED BY <2>1, <2>2 DEF p
<1>6. done \in Nat
  <2> DEFINE m == Min({step, Prompt[r]})
             d == c.done
  <2>1. m \in Nat /\ d \in Nat /\ m \in Int /\ d \in Int
    BY <1>4, <1>5
  <2> HIDE DEF m, d
  <2>2. Max({d, m}) \in {d, m}
    BY <2>1, PairBounds
  <2>3. Max({d, m}) \in Nat
    BY <2>1, <2>2
  <2> QED BY <2>3 DEF m, d
<1>7. Advanced(r) = IF done >= c.total THEN NoChunk ELSE [c EXCEPT !.done = done]
  BY DEF Advanced
<1> HIDE DEF done
<1>8. /\ Advanced(r) \in [done : Nat, total : Nat]
      /\ Advanced(r) # NoChunk => Advanced(r).total = c.total
      /\ Advanced(r) = NoChunk /\ c.total > 0 => done >= c.total
  <2>1. CASE done >= c.total
    BY <1>7, <2>1 DEF NoChunk
  <2>2. CASE ~(done >= c.total)
    <3>1. Advanced(r) = [c EXCEPT !.done = done]
      BY <1>7, <2>2
    <3> HIDE DEF c
    <3>2. Advanced(r) \in [done : Nat, total : Nat] /\ Advanced(r).total = c.total
      BY <1>3, <1>6, <3>1
    <3>3. NoChunk.total = 0
      BY DEF NoChunk
    <3> QED BY <3>2, <3>3
  <2> QED BY <2>1, <2>2
<1>9. ASSUME c.done = 0, c.total > 0, done >= c.total PROVE ChunkSize(r) >= c.total
  <2> DEFINE m == Min({step, Prompt[r]})
             p == Prompt[r]
             t == c.total
             d == c.done
  <2>1. m \in Nat /\ m \in Int /\ p \in Int /\ step \in Int /\ step = ChunkSize(r)
    BY <1>2, <1>3, <1>4, <1>5, <1>9
  <2>2. Max({d, m}) >= t /\ t \in Nat /\ d = 0 /\ t > 0 /\ d \in Int
    BY <1>4, <1>9 DEF done
  <2>3. m <= step
    <3> HIDE DEF step, p
    <3>1. Min({step, p}) <= step
      BY <2>1, PairBounds
    <3> QED BY <3>1 DEF p
  <2> HIDE DEF m, t, d, step
  <2>4. Max({d, m}) \in {d, m}
    BY <2>1, <2>2, PairBounds
  <2>5. ChunkSize(r) >= t
    BY <1>2, <2>1, <2>2, <2>3, <2>4
  <2> QED BY <2>5 DEF t
<1> QED BY <1>2, <1>8, <1>9

\* The entries of the preemption manager after a preemption, and after requests are
\* done: one more at most, and not one forgotten.
LEMMA PreemptedCount ==
  ASSUME TypeOK, NEW S, S \subseteq Requests
  PROVE  /\ IsFiniteSet(preempted) /\ Cardinality(preempted) \in Nat
         /\ Cardinality(preempted \cap S) \in Nat
         /\ Cardinality(preempted \ S) = Cardinality(preempted) - Cardinality(preempted \cap S)
         /\ \A v \in Requests : Cardinality(preempted \cup {v}) <= Cardinality(preempted) + 1
<1>1. preempted \subseteq Requests
  BY SeqElements DEF TypeOK
<1>2. IsFiniteSet(preempted) /\ Cardinality(preempted) \in Nat
  BY <1>1, FiniteRequests
<1>3. Cardinality(preempted \cap S) \in Nat
  BY <1>1, FiniteRequests
<1>4. Cardinality(preempted \ S) = Cardinality(preempted) - Cardinality(preempted \cap S)
  BY <1>2, FS_Difference
<1>5. ASSUME NEW v \in Requests
      PROVE  Cardinality(preempted \cup {v}) <= Cardinality(preempted) + 1
  BY <1>2, FS_AddElement
<1> QED BY <1>2, <1>3, <1>4, <1>5

\* A run of the pipeline: what becomes of the batch, done being its finished requests.
Finished(bad, done) ==
  /\ pc = "awaiting" /\ pc' = "top" /\ batch' = Nothing
  /\ future' = [r \in Requests |->
       IF future[r] # "waiting" THEN future[r]
       ELSE IF r \in Failing(bad) THEN "failed"
       ELSE IF r \in done THEN "ok" ELSE "waiting"]
  /\ kv' = (kv \cup active) \ (Failing(bad) \cup done)
  /\ gen' = [r \in Requests |-> IF r \in done THEN 0
                                ELSE IF r \in active THEN gen[r] + 1 ELSE gen[r]]
  /\ active' = active \ done
  /\ chunk' = [r \in Requests |-> IF r \in done THEN NoChunk ELSE chunk[r]]
  /\ preempted' = preempted \ done
  /\ spent' = spent + Cardinality(preempted \cap done)
  /\ held' = [r \in Requests |-> IF r \in done THEN {} ELSE held[r]]
  /\ free' = free \cup UNION {held[r] : r \in done}
  /\ UNCHANGED <<queue, pending, entry, counter, ordered, rejected, carried, refused, lost,
                 raised>>

LEMMA FinishParts ==
  ASSUME TypeOK, Finish
  PROVE  \E bad \in SUBSET active, done \in SUBSET active :
           /\ \A r \in active \ done : ~(gen[r] + 1 >= MaxNew)
           /\ Finished(bad, done)
<1>1. DOMAIN batch = active
  BY DEF TypeOK, Finish
<1>2. PICK bad \in SUBSET DOMAIN batch, stopped \in SUBSET DOMAIN batch :
        Finished(bad, Complete(stopped))
  <2>1. PICK bad \in SUBSET DOMAIN batch, stopped \in SUBSET DOMAIN batch :
       LET done == Complete(stopped)
       IN /\ future' = [r \in Requests |->
               IF future[r] # "waiting" THEN future[r]
               ELSE IF r \in Failing(bad) THEN "failed"
               ELSE IF r \in done THEN "ok" ELSE "waiting"]
          /\ kv' = (kv \cup DOMAIN batch) \ (Failing(bad) \cup done)
          /\ gen' = [r \in Requests |-> IF r \in done THEN 0
                                        ELSE IF r \in DOMAIN batch THEN gen[r] + 1 ELSE gen[r]]
          /\ active' = active \ done
          /\ chunk' = [r \in Requests |-> IF r \in done THEN NoChunk ELSE chunk[r]]
          /\ preempted' = preempted \ done
          /\ spent' = spent + Cardinality(preempted \cap done)
          /\ held' = [r \in Requests |-> IF r \in done THEN {} ELSE held[r]]
          /\ free' = free \cup UNION {held[r] : r \in done}
    BY DEF Finish
  <2>2. /\ pc = "awaiting" /\ pc' = "top" /\ batch' = Nothing
        /\ UNCHANGED <<queue, heap, promotion, failures>>
    BY DEF Finish
  <2>3. Finished(bad, Complete(stopped))
    BY <1>1, <2>1, <2>2 DEF Finished, heap, promotion, failures
  <2> QED BY <2>3
<1>3. Complete(stopped) = {r \in active : r \in stopped \/ gen[r] + 1 >= MaxNew}
  BY <1>1 DEF Complete
<1> DEFINE done == Complete(stopped)
<1>4. /\ done \in SUBSET active /\ bad \in SUBSET active
      /\ \A r \in active \ done : ~(gen[r] + 1 >= MaxNew)
  BY <1>1, <1>3
<1> HIDE DEF done
<1>5. Finished(bad, done)
  BY <1>2 DEF done
<1> QED BY <1>4, <1>5

\* What a promotion does to the places of requests.
LEMMA PromoteParts ==
  ASSUME TypeOK, NEW r \in pending, Promote(r)
  PROVE  /\ r \in Requests /\ pc = "promoting" /\ pc' = "promoting"
         /\ pending' = pending \ {r}
         /\ UNCHANGED <<queue, future, kv, counter, ordered, gen, preempted, spent, carried,
                        batch, refused, lost, raised>>
         /\ \/ Admit(r) /\ Fits(r) /\ UNCHANGED rejected
            \/ /\ rejected' = Append(rejected, r)
               /\ UNCHANGED <<active, left, chunk, entry, held, free>>
BY DEF TypeOK, Promote, Admit, Reject, Examines, failures

\* The blocks a request gets when it is admitted.
LEMMA AllocateParts ==
  ASSUME TypeOK, NEW r \in Requests, Allocate(r)
  PROVE  \/ UNCHANGED <<held, free>>
         \/ \E got \in SUBSET free : held' = [held EXCEPT ![r] = got] /\ free' = free \ got
BY DEF Allocate, kSubset

\* The victim of a preemption, if there is one.
LEMMA GatherParts ==
  ASSUME TypeOK, Gather
  PROVE  \E victims \in SUBSET active :
           /\ pending' = pending \cup victims
           /\ active' = active \ victims
           /\ carried' = active \ victims
           /\ preempted' = preempted \cup victims
           /\ entry' = [r \in Requests |-> IF r \in victims THEN counter + 1 ELSE entry[r]]
           /\ counter' \in Nat /\ counter' >= counter
           /\ victims = {} => counter' = counter
           /\ victims # {} => counter' = counter + 1
           /\ spent + Cardinality(preempted \cup victims) <= MaxPreempted
           /\ pc = "top" /\ pc' = "promoting"
           /\ UNCHANGED <<queue, future, kv, ordered, gen, chunk, spent, held, free, rejected,
                          batch, refused, lost, raised>>
<1>1. PICK victims \in {{}} \cup {{v} : v \in Victims} :
        /\ pending' = Queued(victims)
        /\ entry' = [r \in Requests |-> IF r \in victims THEN counter + 1 ELSE entry[r]]
        /\ counter' = counter + Cardinality(victims)
        /\ active' = active \ victims
        /\ preempted' = preempted \cup victims
        /\ carried' = active \ victims
  BY DEF Gather
<1>2. Victims \subseteq active
  BY DEF Victims
<1>3. victims \in SUBSET active
  BY <1>1, <1>2
<1>4. /\ spent \in Nat /\ spent + Cardinality(preempted) <= MaxPreempted
      /\ active \subseteq Requests /\ preempted \subseteq Requests /\ counter \in Nat
  BY SeqElements DEF TypeOK
<1>5. CASE victims = {}
  <2>1. preempted \cup victims = preempted /\ Cardinality(victims) = 0
    BY <1>5, FS_EmptySet
  <2>2. counter' = counter
    BY <1>1, <1>4, <2>1
  <2>3. pending' = pending \cup victims
    BY <1>1 DEF Queued
  <2>4. /\ pc = "top" /\ pc' = "promoting"
        /\ UNCHANGED <<queue, future, kv, ordered, gen, chunk, spent, held, free, rejected,
                       batch, refused, lost, raised>>
    BY DEF Gather, failures
  <2>5. /\ counter' \in Nat /\ counter' >= counter
        /\ victims = {} => counter' = counter
        /\ victims # {} => counter' = counter + 1
        /\ spent + Cardinality(preempted \cup victims) <= MaxPreempted
    BY <1>4, <1>5, <2>1, <2>2
  <2> QED BY <1>1, <1>3, <2>3, <2>4, <2>5, Zenon
<1>6. ASSUME NEW v \in Victims, victims = {v}
      PROVE  /\ spent + Cardinality(preempted \cup victims) <= MaxPreempted
             /\ Cardinality(victims) = 1
  <2>1. ~(Cardinality(preempted) + spent >= MaxPreempted)
    BY <1>6 DEF Victims
  <2>2. /\ Cardinality(preempted) \in Nat
        /\ Cardinality(preempted \cup {v}) <= Cardinality(preempted) + 1
    BY <1>2, <1>4, PreemptedCount
  <2>3. Cardinality(preempted \cup {v}) \in Nat
    <3>1. preempted \cup {v} \subseteq Requests
      BY <1>2, <1>4
    <3> QED BY <3>1, FiniteRequests
  <2>4. Cardinality({v}) = 1
    BY FS_Singleton
  <2> QED BY <1>4, <1>6, <2>1, <2>2, <2>3, <2>4, BatchAssumption
<1>7. ASSUME NEW v \in Victims, victims = {v}
      PROVE  counter' = counter + 1 /\ counter' \in Nat /\ counter' >= counter
  BY <1>1, <1>4, <1>6, <1>7
<1>8. CASE victims # {}
  <2>1. PICK v \in Victims : victims = {v}
    BY <1>1, <1>8
  <2> QED BY <1>1, <1>3, <1>6, <1>7, <1>8, <2>1 DEF Gather, Queued, failures
<1> QED BY <1>5, <1>8

\* Pushing back the first of the rejected: it goes on, or it raises and drops the others.
LEMMA RequeueParts ==
  ASSUME TypeOK, Requeue
  PROVE  /\ rejected # <<>> /\ pc \in {"promoting", "requeueing"}
         /\ pending' = pending \cup {Head(rejected)}
         /\ UNCHANGED <<queue, future, kv, entry, counter, ordered, running, batch, refused>>
         /\ \/ /\ pc' = "requeueing" /\ rejected' = Tail(rejected)
               /\ UNCHANGED <<carried, left, lost, raised>>
            \/ /\ TRUE \in PushRaises(Head(rejected), entry[Head(rejected)])
               /\ pc' = "asleep" /\ rejected' = <<>> /\ carried' = {} /\ raised' = TRUE
               /\ lost' = lost \cup ToSet(Tail(rejected))
BY DEF Requeue, Requeues

LEMMA TypeStep == TypeOK /\ [Next]_vars => TypeOK'
<1> SUFFICES ASSUME TypeOK, [Next]_vars PROVE TypeOK'
  OBVIOUS
<1> USE DEF TypeOK, heap, running, promotion, failures
<1>1. CASE UNCHANGED vars
  BY <1>1 DEF vars
<1>2. ASSUME NEW r \in Requests, Submit(r) PROVE TypeOK'
  <2>1. queue' \in Seq(Requests)
    BY <1>2, AppendElements DEF Submit
  <2> QED BY <1>2, <2>1 DEF Submit
<1>3. CASE Start
  BY <1>3 DEF Start
<1>4. CASE Stop
  BY <1>4 DEF Stop, Nothing
<1>5. CASE Add
  <2>1. queue # <<>> /\ pc = "top" /\ rejected = <<>> /\ carried = {}
    BY <1>5 DEF Add
  <2>2. Head(queue) \in Requests /\ Tail(queue) \in Seq(Requests)
    BY <2>1, TailElements
  <2>3. PICK raises \in PushRaises(Head(queue), counter) :
          /\ pending' = pending \cup {Head(queue)}
          /\ entry' = [entry EXCEPT ![Head(queue)] = counter]
          /\ counter' = NextCounter(raises)
          /\ pc' = IF raises THEN "asleep" ELSE "top"
          /\ raised' = (raised \/ raises)
    BY <1>5 DEF Add
  <2>4. raises \in BOOLEAN
    BY <2>3 DEF PushRaises
  <2>5. counter' \in {counter, counter + 1}
    BY <2>3 DEF NextCounter
  <2>6. counter' \in Nat /\ entry' \in [Requests -> 0 .. counter']
    <3>0. counter \in Nat
      OBVIOUS
    <3> HIDE DEF TypeOK
    <3>1. counter' \in Nat /\ 0 .. counter \subseteq 0 .. counter' /\ counter \in 0 .. counter'
      BY <2>5, <3>0
    <3> USE DEF TypeOK
    <3>2. entry \in [Requests -> 0 .. counter']
      BY <3>1
    <3> QED BY <2>2, <2>3, <3>1, <3>2
  <2>7. pending' \subseteq Requests /\ pending \subseteq pending' /\ queue' \in Seq(Requests)
    BY <1>5, <2>2, <2>3 DEF Add
  <2>8. pc' \in {"asleep", "top"} /\ raised' \in BOOLEAN
    BY <2>3, <2>4
  <2>9. UNCHANGED <<future, kv, ordered, running, promotion, batch, refused, lost>>
    BY <1>5 DEF Add
  <2> QED BY <2>1, <2>6, <2>7, <2>8, <2>9
<1>6. CASE AddRefused
  <2>1. queue # <<>> /\ pc = "top"
    BY <1>6 DEF AddRefused
  <2>2. Head(queue) \in Requests /\ Tail(queue) \in Seq(Requests)
    BY <2>1, TailElements
  <2> QED BY <1>6, <2>1, <2>2 DEF AddRefused
<1>7. CASE Gather
  <2>1. PICK victims \in SUBSET active :
           /\ pending' = pending \cup victims
           /\ active' = active \ victims
           /\ carried' = active \ victims
           /\ preempted' = preempted \cup victims
           /\ entry' = [r \in Requests |-> IF r \in victims THEN counter + 1 ELSE entry[r]]
           /\ counter' \in Nat /\ counter' >= counter
           /\ victims # {} => counter' = counter + 1
           /\ spent + Cardinality(preempted \cup victims) <= MaxPreempted
           /\ pc = "top" /\ pc' = "promoting"
           /\ UNCHANGED <<queue, future, kv, ordered, gen, chunk, spent, held, free, rejected,
                          batch, refused, lost, raised>>
    BY <1>7, GatherParts
  <2>2. entry' \in [Requests -> 0 .. counter']
    <3>1. \A r \in Requests : entry[r] \in 0 .. counter' /\ (r \in victims => counter + 1 \in 0 .. counter')
      BY <2>1
    <3> QED BY <2>1, <3>1
  <2> QED BY <2>1, <2>2
<1>8. ASSUME NEW r \in pending, Promote(r) PROVE TypeOK'
  <2>1. /\ r \in Requests /\ pc = "promoting" /\ pc' = "promoting"
        /\ pending' = pending \ {r}
        /\ UNCHANGED <<queue, future, kv, counter, ordered, gen, preempted, spent, carried,
                       batch, refused, lost, raised>>
    BY <1>8, PromoteParts
  <2>2. ASSUME rejected' = Append(rejected, r),
               UNCHANGED <<active, left, chunk, entry, held, free>>
        PROVE  TypeOK'
    <3>1. rejected' \in Seq(Requests) /\ ToSet(rejected') = ToSet(rejected) \cup {r}
      BY <2>1, <2>2, AppendElements
    <3> QED BY <2>1, <2>2, <3>1
  <2>3. ASSUME Admit(r), UNCHANGED rejected PROVE TypeOK'
    <3>1. TotalLen(r) \in Nat
      BY <2>1, GenTypes DEF TotalLen
    <3>2. chunk' \in [Requests -> [done : Nat, total : Nat]]
      <4>1. [done |-> 0, total |-> TotalLen(r)] \in [done : Nat, total : Nat]
        BY <3>1
      <4> QED BY <2>1, <2>3, <4>1 DEF Admit
    <3>3. held' \in [Requests -> SUBSET Blocks] /\ free' \subseteq Blocks
      BY <2>1, <2>3, AllocateParts DEF Admit
    <3>4. active' = active \cup {r} /\ entry' = [entry EXCEPT ![r] = 0]
      BY <2>3 DEF Admit
    <3>5. entry' \in [Requests -> 0 .. counter']
      BY <2>1, <3>4
    <3> QED BY <2>1, <2>3, <3>2, <3>3, <3>4, <3>5
  <2> QED BY <1>8, <2>2, <2>3, PromoteParts
<1>9. ASSUME NEW r \in pending, PromoteRaises(r) PROVE TypeOK'
  <2>1. /\ pending' = pending \ {r} /\ lost' = lost \cup {r} \cup ToSet(rejected)
        /\ rejected' = <<>> /\ carried' = {} /\ raised' = TRUE /\ ordered' \in BOOLEAN
        /\ pc = "promoting" /\ pc' = "asleep"
        /\ UNCHANGED <<queue, future, kv, entry, counter, running, batch, refused>>
    BY <1>9 DEF PromoteRaises, Examines
  <2>2. lost' \subseteq Requests
    BY <2>1, SeqElements
  <2>3. rejected' \in Seq(Requests)
    BY <2>1
  <2> QED BY <2>1, <2>2, <2>3
<1>10. CASE Requeue
  <2>1. /\ rejected # <<>> /\ pc \in {"promoting", "requeueing"}
        /\ pending' = pending \cup {Head(rejected)}
        /\ UNCHANGED <<queue, future, kv, entry, counter, ordered, running, batch, refused>>
    BY <1>10, RequeueParts
  <2>2. /\ Head(rejected) \in Requests /\ Tail(rejected) \in Seq(Requests)
        /\ ToSet(rejected) = {Head(rejected)} \cup ToSet(Tail(rejected))
    BY <2>1, TailElements
  <2>3. ASSUME pc' = "requeueing", rejected' = Tail(rejected), UNCHANGED <<carried, lost, raised>>
        PROVE  TypeOK'
    BY <2>1, <2>2, <2>3
  <2>4. ASSUME pc' = "asleep", rejected' = <<>>, carried' = {}, raised' = TRUE,
               lost' = lost \cup ToSet(Tail(rejected))
        PROVE  TypeOK'
    <3>1. lost' \subseteq Requests /\ rejected' \in Seq(Requests)
      BY <2>2, <2>4, SeqElements
    <3> QED BY <2>1, <2>2, <2>4, <3>1
  <2> QED BY <1>10, <2>3, <2>4, RequeueParts
<1>11. CASE BuildBatch
  <2>1. chunk' \in [Requests -> [done : Nat, total : Nat]]
    BY <1>11, AdvancedTypes DEF BuildBatch
  <2>2. \A r \in active : Runs(r) \in {"prefill", "decode"}
    BY DEF Runs
  <2>3. batch' \in [IF pc' = "awaiting" THEN active' ELSE {} -> {"prefill", "decode"}]
    BY <1>11, <2>2 DEF BuildBatch
  <2>4. carried' = {} /\ rejected' = <<>> /\ rejected = <<>> /\ pc' \in {"asleep", "awaiting"}
    BY <1>11 DEF BuildBatch
  <2> QED BY <1>11, <2>1, <2>3, <2>4 DEF BuildBatch
<1>12. CASE Wake
  BY <1>12 DEF Wake
<1>13. CASE Finish
  <2>1. PICK bad \in SUBSET active, done \in SUBSET active :
          /\ \A r \in active \ done : ~(gen[r] + 1 >= MaxNew)
          /\ Finished(bad, done)
    BY <1>13, FinishParts
  <2>2. gen' \in [Requests -> 0 .. (MaxNew - 1)]
    <3>1. /\ gen \in [Requests -> 0 .. (MaxNew - 1)] /\ MaxNew \in Nat \ {0}
          /\ \A r \in active \ done : ~(gen[r] + 1 >= MaxNew)
          /\ gen' = [r \in Requests |-> IF r \in done THEN 0
                                        ELSE IF r \in active THEN gen[r] + 1 ELSE gen[r]]
      BY <2>1, BatchAssumption DEF Finished
    <3> HIDE DEF TypeOK
    <3>2. \A r \in Requests : gen'[r] \in 0 .. (MaxNew - 1)
      BY <3>1
    <3> QED BY <3>1, <3>2
  <2>3. chunk' \in [Requests -> [done : Nat, total : Nat]]
    BY <2>1 DEF NoChunk, Finished
  <2>4. spent' \in Nat /\ spent' + Cardinality(preempted') <= MaxPreempted
    <3>1. done \subseteq Requests
      OBVIOUS
    <3>2. /\ Cardinality(preempted) \in Nat /\ Cardinality(preempted \cap done) \in Nat
          /\ Cardinality(preempted \ done) = Cardinality(preempted) - Cardinality(preempted \cap done)
      BY <3>1, PreemptedCount
    <3>3. spent' = spent + Cardinality(preempted \cap done) /\ preempted' = preempted \ done
      BY <2>1 DEF Finished
    <3>4. spent \in Nat /\ MaxPreempted \in Nat /\ spent + Cardinality(preempted) <= MaxPreempted
      BY BatchAssumption
    <3> HIDE DEF TypeOK
    <3> QED BY <3>2, <3>3, <3>4
  <2>5. held' \in [Requests -> SUBSET Blocks] /\ free' \subseteq Blocks
    BY <2>1 DEF Finished
  <2>6. future' \in [Requests -> {"none", "waiting", "ok", "failed"}]
    BY <2>1 DEF Finished
  <2>7. /\ pc' = "top" /\ pc = "awaiting" /\ batch' \in [{} -> {"prefill", "decode"}]
        /\ UNCHANGED <<queue, pending, entry, counter, ordered, rejected, carried, refused, lost,
                       raised>>
    BY <2>1 DEF Nothing, Finished
  <2>8. /\ kv' \subseteq Requests /\ active' \subseteq Requests
        /\ preempted' \subseteq pending \cup active' \cup ToSet(rejected) \cup lost
        /\ carried' \subseteq active'
    BY <2>1, <2>7 DEF Finished
  <2> QED BY <2>2, <2>3, <2>4, <2>5, <2>6, <2>7, <2>8
<1> HIDE DEF TypeOK
<1> QED BY <1>1, <1>2, <1>3, <1>4, <1>5, <1>6, <1>7, <1>8, <1>9, <1>10, <1>11, <1>12, <1>13
        DEF Next, Loop

-----------------------------------------------------------------------------
(* Where the requests are.                                                  *)

\* No request is in the queue, or rejected, twice.
QueueInv == Distinct(queue) /\ Distinct(rejected)

\* A request nobody has submitted yet is nowhere, and has no token.
Scheduled == pending \cup ToSet(rejected) \cup active \cup lost
Places == ToSet(queue) \cup Scheduled
FreshInv == \A r \in Requests : future[r] = "none" => r \notin Places /\ gen[r] = 0

LEMMA PlacesStep ==
  TypeOK /\ QueueInv /\ FreshInv /\ NoRequestLost /\ [Next]_vars => NoRequestLost' /\ QueueInv'
<1> SUFFICES ASSUME TypeOK, QueueInv, FreshInv, NoRequestLost, [Next]_vars
             PROVE  NoRequestLost' /\ QueueInv'
  OBVIOUS
<1> DEFINE Goal == NoRequestLost' /\ QueueInv'
<1> USE DEF QueueInv
<1>1. ASSUME UNCHANGED <<queue, pending, rejected, active, refused, lost>>,
             \A r \in Requests : future'[r] = "waiting" => future[r] = "waiting"
      PROVE  Goal
  BY <1>1 DEF NoRequestLost
<1>2. ASSUME NEW r \in Requests, Submit(r) PROVE Goal
  <2>1. /\ queue' = Append(queue, r) /\ r \notin Places
        /\ UNCHANGED <<pending, rejected, active, refused, lost>>
        /\ \A u \in Requests \ {r} : future'[u] = future[u]
    BY <1>2 DEF Submit, FreshInv, heap, running, promotion, failures, TypeOK
  <2>2. QueueInv' /\ ToSet(queue') = ToSet(queue) \cup {r}
    BY <2>1, AppendElements DEF Places, Scheduled, TypeOK
  <2>3. NoRequestLost'
    BY <2>1, <2>2 DEF Places, Scheduled, NoRequestLost
  <2> QED BY <2>2, <2>3
<1>3. CASE UNCHANGED vars \/ Start \/ Wake \/ BuildBatch
  BY <1>1, <1>3 DEF vars, Start, Wake, BuildBatch, heap, running, promotion, failures
<1>4. CASE Stop
  BY <1>1, <1>4 DEF Stop, heap, running, promotion, failures
<1>5. CASE Add
  <2>1. /\ queue # <<>> /\ pending' = pending \cup {Head(queue)} /\ queue' = Tail(queue)
        /\ UNCHANGED <<future, rejected, active, refused, lost>>
    BY <1>5 DEF Add, running, promotion
  <2>2. /\ ToSet(queue) = {Head(queue)} \cup ToSet(queue')
        /\ Distinct(queue') /\ Head(queue) \notin ToSet(queue')
    BY <2>1, TailElements DEF TypeOK
  <2>3. NoRequestLost'
    BY <2>1, <2>2 DEF NoRequestLost
  <2> QED BY <2>1, <2>2, <2>3
<1>6. CASE AddRefused
  <2>1. /\ queue # <<>> /\ queue' = Tail(queue) /\ refused' = refused \cup {Head(queue)}
        /\ UNCHANGED <<future, pending, rejected, active, lost>>
    BY <1>6 DEF AddRefused, heap, running, promotion
  <2>2. ToSet(queue) = {Head(queue)} \cup ToSet(queue') /\ Distinct(queue')
    BY <2>1, TailElements DEF TypeOK
  <2>3. NoRequestLost'
    BY <2>1, <2>2 DEF NoRequestLost
  <2> QED BY <2>1, <2>2, <2>3
<1>7. CASE Gather
  <2>1. PICK victims \in SUBSET active :
           /\ pending' = pending \cup victims /\ active' = active \ victims
           /\ UNCHANGED <<queue, future, rejected, refused, lost>>
    BY <1>7, GatherParts
  <2> QED BY <2>1 DEF NoRequestLost
<1>8. ASSUME NEW r \in pending, Promote(r) PROVE Goal
  <2>1. /\ r \in Requests /\ pending' = pending \ {r}
        /\ UNCHANGED <<queue, future, refused, lost>>
    BY <1>8, PromoteParts
  <2>2. ASSUME rejected' = Append(rejected, r), UNCHANGED active PROVE Goal
    <3>1. r \notin ToSet(rejected)
      BY DEF NoRequestLost
    <3>2. Distinct(rejected') /\ ToSet(rejected') = ToSet(rejected) \cup {r}
      BY <2>1, <2>2, <3>1, AppendElements DEF TypeOK
    <3>3. NoRequestLost'
      BY <2>1, <2>2, <3>2 DEF NoRequestLost
    <3> QED BY <2>1, <3>2, <3>3
  <2>3. ASSUME active' = active \cup {r}, UNCHANGED rejected PROVE Goal
    BY <2>1, <2>3 DEF NoRequestLost
  <2> QED BY <1>8, <2>2, <2>3, PromoteParts DEF Admit
<1>9. ASSUME NEW r \in pending, PromoteRaises(r) PROVE Goal
  <2>1. /\ pending' = pending \ {r} /\ lost' = lost \cup {r} \cup ToSet(rejected)
        /\ rejected' = <<>> /\ UNCHANGED <<queue, future, active, refused>>
    BY <1>9 DEF PromoteRaises, running
  <2>2. ToSet(rejected') = {} /\ Distinct(rejected')
    BY <2>1, EmptyElements
  <2>3. NoRequestLost'
    BY <2>1, <2>2 DEF NoRequestLost
  <2> QED BY <2>1, <2>2, <2>3
<1>10. CASE Requeue
  <2>1. /\ rejected # <<>> /\ pending' = pending \cup {Head(rejected)}
        /\ UNCHANGED <<queue, future, active, refused>>
    BY <1>10, RequeueParts DEF running
  <2>2. /\ ToSet(rejected) = {Head(rejected)} \cup ToSet(Tail(rejected))
        /\ Distinct(Tail(rejected)) /\ Head(rejected) \notin ToSet(Tail(rejected))
    BY <2>1, TailElements DEF TypeOK
  <2>3. ASSUME rejected' = Tail(rejected), UNCHANGED lost PROVE Goal
    <3>1. NoRequestLost'
      BY <2>1, <2>2, <2>3 DEF NoRequestLost
    <3> QED BY <2>1, <2>2, <2>3, <3>1
  <2>4. ASSUME rejected' = <<>>, lost' = lost \cup ToSet(Tail(rejected)) PROVE Goal
    <3>1. ToSet(rejected') = {} /\ Distinct(rejected')
      BY <2>4, EmptyElements
    <3>2. NoRequestLost'
      BY <2>1, <2>2, <2>4, <3>1 DEF NoRequestLost
    <3> QED BY <2>1, <3>1, <3>2
  <2> QED BY <1>10, <2>3, <2>4, RequeueParts
<1>11. CASE Finish
  <2>1. PICK bad \in SUBSET active, done \in SUBSET active : Finished(bad, done)
    BY <1>11, FinishParts
  <2>2. \A r \in Requests : future'[r] = "waiting" => future[r] = "waiting" /\ r \notin done
    BY <2>1 DEF Finished, TypeOK
  <2>3. active' = active \ done /\ UNCHANGED <<queue, pending, rejected, refused, lost>>
    BY <2>1 DEF Finished
  <2> QED BY <2>2, <2>3 DEF NoRequestLost
<1> QED BY <1>2, <1>3, <1>4, <1>5, <1>6, <1>7, <1>8, <1>9, <1>10, <1>11 DEF Next, Loop

LEMMA FreshStep == TypeOK /\ FreshInv /\ [Next]_vars => FreshInv'
<1> SUFFICES ASSUME TypeOK, FreshInv, [Next]_vars PROVE FreshInv'
  OBVIOUS
<1>1. ASSUME Places' \subseteq Places,
             \A r \in Requests : future'[r] = "none" => future[r] = "none" /\ gen'[r] = gen[r]
      PROVE  FreshInv'
  BY <1>1 DEF FreshInv
<1>2. ASSUME NEW r \in Requests, Submit(r) PROVE FreshInv'
  <2>1. /\ queue' = Append(queue, r) /\ UNCHANGED <<pending, rejected, active, lost, gen>>
        /\ future' = [future EXCEPT ![r] = "waiting"]
    BY <1>2 DEF Submit, heap, running, promotion, failures
  <2>2. ToSet(queue') = ToSet(queue) \cup {r}
    BY <2>1, AppendElements DEF TypeOK
  <2>3. Places' = Places \cup {r}
    BY <2>1, <2>2 DEF Places, Scheduled
  <2>4. \A u \in Requests : future'[u] = "none" => u # r /\ future[u] = "none" /\ gen'[u] = gen[u]
    BY <2>1 DEF TypeOK
  <2> QED BY <2>3, <2>4 DEF FreshInv
<1>3. CASE UNCHANGED vars \/ Start \/ Wake \/ BuildBatch
  BY <1>1, <1>3 DEF vars, Start, Wake, BuildBatch, heap, running, promotion, failures, Places, Scheduled
<1>4. CASE Stop
  BY <1>1, <1>4 DEF Stop, heap, running, promotion, failures, Places, Scheduled
<1>5. CASE Add \/ AddRefused
  <2>1. /\ queue # <<>> /\ queue' = Tail(queue) /\ pending' \subseteq pending \cup {Head(queue)}
        /\ UNCHANGED <<future, rejected, active, lost, gen>>
    BY <1>5 DEF Add, AddRefused, heap, running, promotion
  <2>2. ToSet(queue) = {Head(queue)} \cup ToSet(queue')
    BY <2>1, TailElements DEF TypeOK
  <2> QED BY <1>1, <2>1, <2>2 DEF Places, Scheduled
<1>6. CASE Gather
  <2>1. PICK victims \in SUBSET active :
           /\ pending' = pending \cup victims /\ active' = active \ victims
           /\ UNCHANGED <<queue, future, rejected, lost, gen>>
    BY <1>6, GatherParts
  <2> QED BY <1>1, <2>1 DEF Places, Scheduled
<1>7. ASSUME NEW r \in pending, Promote(r) PROVE FreshInv'
  <2>1. r \in Requests /\ pending' = pending \ {r} /\ UNCHANGED <<queue, future, lost, gen>>
    BY <1>7, PromoteParts
  <2>2. ASSUME rejected' = Append(rejected, r), UNCHANGED active PROVE FreshInv'
    <3>1. ToSet(rejected') = ToSet(rejected) \cup {r}
      BY <2>1, <2>2, AppendElements DEF TypeOK
    <3> QED BY <1>1, <2>1, <2>2, <3>1 DEF Places, Scheduled
  <2>3. ASSUME active' = active \cup {r}, UNCHANGED rejected PROVE FreshInv'
    BY <1>1, <2>1, <2>3 DEF Places, Scheduled
  <2> QED BY <1>7, <2>2, <2>3, PromoteParts DEF Admit
<1>8. ASSUME NEW r \in pending, PromoteRaises(r) PROVE FreshInv'
  <2>1. /\ pending' = pending \ {r} /\ lost' = lost \cup {r} \cup ToSet(rejected)
        /\ rejected' = <<>> /\ UNCHANGED <<queue, future, active, gen>>
    BY <1>8 DEF PromoteRaises, running
  <2>2. ToSet(rejected') = {}
    BY <2>1, EmptyElements
  <2> QED BY <1>1, <2>1, <2>2 DEF Places, Scheduled
<1>9. CASE Requeue
  <2>1. /\ rejected # <<>> /\ pending' = pending \cup {Head(rejected)}
        /\ UNCHANGED <<queue, future, active, gen>>
    BY <1>9, RequeueParts DEF running
  <2>2. ToSet(rejected) = {Head(rejected)} \cup ToSet(Tail(rejected))
    BY <2>1, TailElements DEF TypeOK
  <2>3. ASSUME rejected' = Tail(rejected), UNCHANGED lost PROVE FreshInv'
    BY <1>1, <2>1, <2>2, <2>3 DEF Places, Scheduled
  <2>4. ASSUME rejected' = <<>>, lost' = lost \cup ToSet(Tail(rejected)) PROVE FreshInv'
    <3>1. ToSet(rejected') = {}
      BY <2>4, EmptyElements
    <3> QED BY <1>1, <2>1, <2>2, <2>4, <3>1 DEF Places, Scheduled
  <2> QED BY <1>9, <2>3, <2>4, RequeueParts
<1>10. CASE Finish
  <2>1. PICK bad \in SUBSET active, done \in SUBSET active : Finished(bad, done)
    BY <1>10, FinishParts
  <2>2. /\ active' = active \ done /\ UNCHANGED <<queue, pending, rejected, lost>>
        /\ gen' = [r \in Requests |-> IF r \in done THEN 0
                                      ELSE IF r \in active THEN gen[r] + 1 ELSE gen[r]]
    BY <2>1 DEF Finished
  <2>3. \A r \in Requests : future'[r] = "none" => future[r] = "none"
    BY <2>1 DEF Finished
  <2>4. Places' \subseteq Places
    BY <2>2 DEF Places, Scheduled
  <2>5. \A r \in Requests : future[r] = "none" => r \notin active /\ r \notin done
    BY DEF FreshInv, Places, Scheduled
  <2> QED BY <1>1, <2>2, <2>3, <2>4, <2>5
<1> QED BY <1>2, <1>3, <1>4, <1>5, <1>6, <1>7, <1>8, <1>9, <1>10 DEF Next, Loop

-----------------------------------------------------------------------------
(* Ties in the heap.                                                        *)

Waiting == pending \cup ToSet(rejected)
Calm == preempted = {} /\ spent = 0

\* Until the first preemption the counter is ahead of every entry.
CounterInv == Calm => \A r \in Waiting : entry[r] < counter

\* Whoever was once preempted is counted for good.
LEMMA CalmBefore ==
  ASSUME TypeOK, [Next]_vars, Calm'
  PROVE  Calm
<1>1. CASE UNCHANGED <<preempted, spent>>
  BY <1>1 DEF Calm
<1>2. CASE Gather
  <2>1. PICK victims \in SUBSET active : preempted' = preempted \cup victims /\ UNCHANGED spent
    BY <1>2, GatherParts
  <2> QED BY <2>1 DEF Calm
<1>3. CASE Finish
  <2>1. PICK bad \in SUBSET active, done \in SUBSET active : Finished(bad, done)
    BY <1>3, FinishParts
  <2>2. preempted' = preempted \ done /\ spent' = spent + Cardinality(preempted \cap done)
    BY <2>1 DEF Finished
  <2>3. IsFiniteSet(preempted \cap done) /\ Cardinality(preempted \cap done) \in Nat
    <3>1. preempted \cap done \subseteq Requests
      BY DEF TypeOK
    <3> QED BY <3>1, FiniteRequests
  <2>4. spent = 0 /\ Cardinality(preempted \cap done) = 0
    BY <2>2, <2>3 DEF TypeOK, Calm
  <2>5. preempted \cap done = {}
    BY <2>3, <2>4, FS_EmptySet
  <2> QED BY <2>2, <2>4, <2>5 DEF Calm
<1>4. CASE \/ \E r \in Requests : Submit(r)
           \/ Start \/ Stop \/ Add \/ AddRefused \/ Requeue \/ BuildBatch \/ Wake
           \/ \E r \in pending : Promote(r) \/ PromoteRaises(r)
           \/ UNCHANGED vars
  BY <1>1, <1>4 DEF Submit, Start, Stop, Add, AddRefused, Requeue, BuildBatch, Wake, Promote,
    PromoteRaises, vars, running
<1> QED BY <1>2, <1>3, <1>4 DEF Next, Loop

LEMMA TieStep ==
  TypeOK /\ QueueInv /\ NoRequestLost /\ CounterInv /\ TiesNeedPreemption /\ [Next]_vars
    => CounterInv' /\ TiesNeedPreemption'
<1> SUFFICES ASSUME TypeOK, QueueInv, NoRequestLost, CounterInv, TiesNeedPreemption,
                    [Next]_vars, Calm'
             PROVE  /\ ~raised' /\ lost' = {}
                    /\ \A r \in Waiting' : entry'[r] < counter'
                    /\ \A r, u \in Waiting' : Pri[r] = Pri[u] /\ entry'[r] = entry'[u] => r = u
  BY DEF CounterInv, TiesNeedPreemption, Calm, Waiting
<1> DEFINE Goal == /\ ~raised' /\ lost' = {}
                   /\ \A r \in Waiting' : entry'[r] < counter'
                   /\ \A r, u \in Waiting' : Pri[r] = Pri[u] /\ entry'[r] = entry'[u] => r = u
<1>1. /\ ~raised /\ lost = {}
      /\ \A r \in Waiting : entry[r] < counter
      /\ \A r, u \in Waiting : Pri[r] = Pri[u] /\ entry[r] = entry[u] => r = u
  <2>1. Calm
    BY CalmBefore
  <2> QED BY <2>1 DEF CounterInv, TiesNeedPreemption, Calm, Waiting
<1>2. Waiting \subseteq Requests /\ counter \in Nat /\ entry \in [Requests -> 0 .. counter]
  BY SeqElements DEF Waiting, TypeOK
<1>3. ASSUME Waiting' \subseteq Waiting, UNCHANGED <<counter, lost, raised>>,
             \A r \in Waiting' : entry'[r] = entry[r]
      PROVE  Goal
  BY <1>1, <1>3
<1>4. CASE \/ \E r \in Requests : Submit(r)
           \/ Start \/ Stop \/ AddRefused \/ BuildBatch \/ Wake \/ UNCHANGED vars
  <2>1. UNCHANGED <<pending, rejected, entry, counter, lost, raised>>
    BY <1>4 DEF Submit, Start, Stop, AddRefused, BuildBatch, Wake, vars, heap, promotion, failures
  <2> QED BY <1>3, <2>1 DEF Waiting
<1>5. CASE Finish
  <2>1. UNCHANGED <<pending, rejected, entry, counter, lost, raised>>
    BY <1>5 DEF Finish, heap, promotion, failures
  <2> QED BY <1>3, <2>1 DEF Waiting
<1>6. CASE Add
  <2> DEFINE h == Head(queue)
  <2>1. PICK raises \in PushRaises(h, counter) :
          /\ pending' = pending \cup {h}
          /\ entry' = [entry EXCEPT ![h] = counter]
          /\ counter' = NextCounter(raises)
          /\ raised' = (raised \/ raises)
    BY <1>6 DEF Add
  <2>2. queue # <<>> /\ UNCHANGED <<rejected, lost>>
    BY <1>6 DEF Add, promotion
  <2>3. h \in Requests /\ h \in ToSet(queue)
    BY <2>2, TailElements DEF TypeOK
  <2>4. h \notin Waiting /\ Waiting' = Waiting \cup {h}
    BY <2>1, <2>2, <2>3 DEF Waiting, NoRequestLost
  <2>5. Ties(h, counter) = {}
    BY <1>1, <1>2 DEF Ties, Waiting
  <2>6. ~raises
    BY <2>1, <2>5 DEF PushRaises
  <2>7. counter' = counter + 1 /\ ~raised'
    BY <1>1, <2>1, <2>6 DEF NextCounter
  <2> HIDE DEF h
  <2>8. entry'[h] = counter /\ \A r \in Waiting : entry'[r] = entry[r] /\ entry[r] \in Nat
    BY <1>2, <2>1, <2>3, <2>4
  <2>9. \A r \in Waiting' : entry'[r] < counter'
    BY <1>1, <1>2, <2>4, <2>7, <2>8
  <2>10. \A r, u \in Waiting' : Pri[r] = Pri[u] /\ entry'[r] = entry'[u] => r = u
    BY <1>1, <1>2, <2>4, <2>8
  <2> QED BY <1>1, <2>2, <2>7, <2>9, <2>10
<1>7. CASE Gather
  <2>1. PICK victims \in SUBSET active :
           /\ pending' = pending \cup victims
           /\ preempted' = preempted \cup victims
           /\ entry' = [r \in Requests |-> IF r \in victims THEN counter + 1 ELSE entry[r]]
           /\ victims = {} => counter' = counter
           /\ UNCHANGED <<rejected, lost, raised>>
    BY <1>7, GatherParts
  <2>2. victims = {}
    BY <2>1 DEF Calm
  <2>3. Waiting' = Waiting /\ counter' = counter /\ \A r \in Waiting : entry'[r] = entry[r]
    BY <1>2, <2>1, <2>2 DEF Waiting
  <2> QED BY <1>3, <2>1, <2>3
<1>8. ASSUME NEW r \in pending, Promote(r) PROVE Goal
  <2>1. r \in Requests /\ pending' = pending \ {r} /\ UNCHANGED <<counter, lost, raised>>
    BY <1>8, PromoteParts
  <2>2. ASSUME rejected' = Append(rejected, r), UNCHANGED entry PROVE Goal
    <3>1. ToSet(rejected') = ToSet(rejected) \cup {r}
      BY <2>1, <2>2, AppendElements DEF TypeOK
    <3> QED BY <1>3, <2>1, <2>2, <3>1 DEF Waiting
  <2>3. ASSUME Admit(r), UNCHANGED rejected PROVE Goal
    <3>1. r \notin Waiting' /\ Waiting' \subseteq Waiting
      BY <2>1, <2>3 DEF Waiting, NoRequestLost
    <3>2. \A u \in Waiting' : entry'[u] = entry[u]
      BY <1>2, <2>3, <3>1 DEF Admit
    <3> QED BY <1>3, <2>1, <3>1, <3>2
  <2> QED BY <1>8, <2>2, <2>3, PromoteParts
<1>9. ASSUME NEW r \in pending, PromoteRaises(r) PROVE Goal
  <2>1. TRUE \in PopRaises(r)
    BY <1>9 DEF PromoteRaises
  <2>2. \E u \in pending \ {r} : Ties(u, entry[u]) \ {r} # {}
    BY <2>1 DEF PopRaises
  <2> QED BY <1>1, <2>2 DEF Ties, Waiting
<1>10. CASE Requeue
  <2> DEFINE h == Head(rejected)
  <2>1. rejected # <<>> /\ pending' = pending \cup {h} /\ UNCHANGED <<entry, counter>>
    BY <1>10, RequeueParts
  <2>2. ToSet(rejected) = {h} \cup ToSet(Tail(rejected))
    BY <2>1, TailElements DEF TypeOK
  <2>3. Ties(h, entry[h]) = {}
    BY <1>1, <2>2 DEF Ties, Waiting
  <2>4. TRUE \notin PushRaises(h, entry[h])
    BY <2>3 DEF PushRaises
  <2>5. rejected' = Tail(rejected) /\ UNCHANGED <<lost, raised>>
    BY <1>10, <2>4, RequeueParts
  <2>6. Waiting' \subseteq Waiting
    BY <2>1, <2>2, <2>5 DEF Waiting
  <2> QED BY <1>3, <2>1, <2>5, <2>6
<1> QED BY <1>4, <1>5, <1>6, <1>7, <1>8, <1>9, <1>10 DEF Next, Loop

-----------------------------------------------------------------------------
(* The batch, and the pool's blocks.                                        *)

LEMMA SlotsStep == TypeOK /\ SlotsRespected /\ [Next]_vars => SlotsRespected'
<1> SUFFICES ASSUME TypeOK, SlotsRespected, [Next]_vars PROVE SlotsRespected'
  OBVIOUS
<1>1. IsFiniteSet(active) /\ Cardinality(active) \in Nat
  BY FiniteRequests DEF TypeOK
<1>2. ASSUME active' \subseteq active PROVE SlotsRespected'
  <2>1. Cardinality(active') <= Cardinality(active) /\ IsFiniteSet(active')
    BY <1>1, <1>2, FS_Subset
  <2>2. Cardinality(active') \in Nat
    BY <2>1, FS_CardinalityType
  <2> QED BY <1>1, <2>1, <2>2, BatchAssumption DEF SlotsRespected
<1>3. ASSUME NEW r \in pending, Promote(r), Admit(r), Fits(r) PROVE SlotsRespected'
  <2>1. active' = active \cup {r}
    BY <1>3 DEF Admit
  <2>2. Cardinality(active) < MaxBatch
    BY <1>3 DEF Fits
  <2>3. Cardinality(active') <= Cardinality(active) + 1 /\ Cardinality(active') \in Nat
    <3>1. Cardinality(active') = IF r \in active THEN Cardinality(active)
                                 ELSE Cardinality(active) + 1
      BY <1>1, <2>1, FS_AddElement
    <3> QED BY <1>1, <3>1
  <2> QED BY <1>1, <2>2, <2>3, BatchAssumption DEF SlotsRespected
<1>4. ASSUME NEW r \in pending, Promote(r) PROVE SlotsRespected'
  BY <1>2, <1>3, <1>4, PromoteParts
<1>5. CASE Finish
  <2>1. PICK bad \in SUBSET active, done \in SUBSET active : Finished(bad, done)
    BY <1>5, FinishParts
  <2> QED BY <1>2, <2>1 DEF Finished
<1>6. CASE Gather
  BY <1>2, <1>6 DEF Gather
<1>7. CASE UNCHANGED active
  BY <1>2, <1>7
<1>8. CASE \/ \E r \in Requests : Submit(r)
           \/ Start \/ Stop \/ Add \/ AddRefused \/ Requeue \/ BuildBatch \/ Wake
           \/ \E r \in pending : PromoteRaises(r)
           \/ UNCHANGED vars
  BY <1>7, <1>8 DEF Submit, Start, Stop, Add, AddRefused, Requeue, BuildBatch, Wake,
    PromoteRaises, vars, running
<1> QED BY <1>4, <1>5, <1>6, <1>8 DEF Next, Loop

LEMMA BlocksStep == TypeOK /\ NoRequestLost /\ BlocksReturned /\ [Next]_vars => BlocksReturned'
<1> SUFFICES ASSUME TypeOK, NoRequestLost, BlocksReturned, [Next]_vars PROVE BlocksReturned'
  OBVIOUS
<1>1. ASSUME UNCHANGED <<active, preempted, spent, held, free>> PROVE BlocksReturned'
  BY <1>1 DEF BlocksReturned
<1>2. CASE Gather
  <2>1. PICK victims \in SUBSET active :
          /\ active' = active \ victims /\ preempted' = preempted \cup victims
          /\ UNCHANGED <<spent, held, free>>
    BY <1>2, GatherParts
  <2>2. active' \cup preempted' = active \cup preempted /\ (preempted' = {} => preempted = {})
    BY <2>1
  <2> QED BY <2>1, <2>2 DEF BlocksReturned
<1>3. ASSUME NEW r \in pending, Promote(r), Admit(r) PROVE BlocksReturned'
  <2>1. /\ active' = active \cup {r} /\ UNCHANGED <<preempted, spent>>
        /\ Allocate(r) /\ r \in pending /\ r \in Requests
    BY <1>3, PromoteParts DEF Admit
  <2>2. CASE UNCHANGED <<held, free>>
    BY <2>1, <2>2 DEF BlocksReturned
  <2>3. ASSUME NEW got \in SUBSET free,
               held' = [held EXCEPT ![r] = got], free' = free \ got
        PROVE  BlocksReturned'
    <3>1. held'[r] = got /\ \A u \in Requests \ {r} : held'[u] = held[u]
      BY <2>1, <2>3 DEF TypeOK
    <3>2. \A u \in Requests \ (active \cup preempted)' : held'[u] = {}
      BY <2>1, <3>1 DEF BlocksReturned
    <3>3. ASSUME NEW u \in Requests
          PROVE  /\ held'[u] \cap free' = {}
                 /\ \A w \in Requests \ {u} : held'[u] \cap held'[w] = {}
      BY <2>3, <3>1 DEF BlocksReturned
    <3>4. ASSUME preempted' = {}, spent' = 0
          PROVE  Blocks = free' \cup UNION {held'[u] : u \in Requests}
      <4>1. held[r] = {}
        BY <2>1, <3>4 DEF BlocksReturned, NoRequestLost
      <4>2. Blocks = free \cup UNION {held[u] : u \in Requests}
        BY <2>1, <3>4 DEF BlocksReturned
      <4>3. \A b \in UNION {held[u] : u \in Requests} : \E u \in Requests : b \in held'[u]
        BY <3>1, <4>1
      <4>4. \A b \in free : b \in free' \/ b \in held'[r]
        BY <2>3, <3>1
      <4>5. \A u \in Requests : held'[u] \subseteq Blocks
        BY <2>3, <3>1 DEF TypeOK
      <4>6. free' \subseteq Blocks
        BY <2>3 DEF TypeOK
      <4> QED BY <2>1, <4>2, <4>3, <4>4, <4>5, <4>6
    <3> QED BY <3>2, <3>3, <3>4 DEF BlocksReturned
  <2> QED BY <2>1, <2>2, <2>3, AllocateParts
<1>4. ASSUME NEW r \in pending, Promote(r) PROVE BlocksReturned'
  BY <1>1, <1>3, <1>4, PromoteParts
<1>5. CASE Finish
  <2>1. PICK bad \in SUBSET active, done \in SUBSET active : Finished(bad, done)
    BY <1>5, FinishParts
  <2>2. /\ active' = active \ done /\ preempted' = preempted \ done
        /\ spent' = spent + Cardinality(preempted \cap done)
        /\ free' = free \cup UNION {held[r] : r \in done}
    BY <2>1 DEF Finished
  <2>3. \A r \in Requests : held'[r] = IF r \in done THEN {} ELSE held[r]
    BY <2>1 DEF Finished
  <2>4. done \subseteq Requests
    BY DEF TypeOK
  <2>5. \A r \in Requests \ (active \cup preempted)' : held'[r] = {}
    BY <2>2, <2>3 DEF BlocksReturned
  <2>6. ASSUME NEW r \in Requests
        PROVE  /\ held'[r] \cap free' = {}
               /\ \A u \in Requests \ {r} : held'[r] \cap held'[u] = {}
    <3>1. CASE r \in done
      BY <2>3, <3>1
    <3>2. CASE r \notin done
      <4>1. \A u \in Requests \ {r} : held[r] \cap held[u] = {}
        BY DEF BlocksReturned
      <4>2. held[r] \cap free = {} /\ held'[r] = held[r]
        BY <2>3, <3>2 DEF BlocksReturned
      <4>3. \A u \in done : held[r] \cap held[u] = {}
        BY <2>4, <3>2, <4>1
      <4> QED BY <2>2, <2>3, <4>1, <4>2, <4>3
    <3> QED BY <3>1, <3>2
  <2>7. ASSUME preempted' = {}, spent' = 0
        PROVE  Blocks = free' \cup UNION {held'[r] : r \in Requests}
    <3>1. /\ IsFiniteSet(preempted \cap done) /\ Cardinality(preempted \cap done) \in Nat
      <4>1. preempted \cap done \subseteq Requests
        BY <2>4
      <4> QED BY <4>1, FiniteRequests
    <3>2. spent = 0 /\ Cardinality(preempted \cap done) = 0
      BY <2>2, <2>7, <3>1 DEF TypeOK
    <3>3. preempted \cap done = {}
      BY <3>1, <3>2, FS_EmptySet
    <3>4. preempted = {}
      BY <2>2, <2>7, <3>3
    <3>5. Blocks = free \cup UNION {held[r] : r \in Requests}
      BY <3>2, <3>4 DEF BlocksReturned
    <3>6. \A r \in Requests : \A b \in held[r] : b \in free' \/ b \in held'[r]
      BY <2>2, <2>3
    <3>7. \A r \in Requests : held'[r] \subseteq held[r]
      BY <2>3
    <3>8. free \subseteq free' /\ free' \subseteq free \cup UNION {held[r] : r \in Requests}
      BY <2>2, <2>4
    <3> QED BY <3>5, <3>6, <3>7, <3>8
  <2> QED BY <2>5, <2>6, <2>7 DEF BlocksReturned
<1>6. CASE \/ \E r \in Requests : Submit(r)
           \/ Start \/ Stop \/ Add \/ AddRefused \/ Requeue \/ BuildBatch \/ Wake
           \/ \E r \in pending : PromoteRaises(r)
           \/ UNCHANGED vars
  BY <1>1, <1>6 DEF Submit, Start, Stop, Add, AddRefused, Requeue, BuildBatch, Wake,
    PromoteRaises, vars, running
<1> QED BY <1>2, <1>4, <1>5, <1>6 DEF Next, Loop

-----------------------------------------------------------------------------
(* Caches and chunks.                                                       *)

\* A request that has a token, and a caller, has its cache.
KvInv == \A r \in Requests : future[r] = "waiting" /\ gen[r] > 0 => r \in kv

\* A chunked prefill is that of a prompt above MaxPrefill, with the tokens generated when
\* it was admitted; one that was begun and is not in the pipeline has been through it.
ChunkInv ==
  \A r \in Requests :
    /\ chunk[r] # NoChunk =>
         /\ r \in Scheduled
         /\ chunk[r].total > MaxPrefill
         /\ chunk[r].total \in Prompt[r] .. Prompt[r] + gen[r]
    /\ future[r] = "waiting" /\ chunk[r].done > 0 /\ r \notin DOMAIN batch => gen[r] > 0

LEMMA KvStep == TypeOK /\ FreshInv /\ KvInv /\ [Next]_vars => KvInv'
<1> SUFFICES ASSUME TypeOK, FreshInv, KvInv, [Next]_vars PROVE KvInv'
  OBVIOUS
<1>1. CASE UNCHANGED <<future, gen, kv>>
  BY <1>1 DEF KvInv
<1>2. ASSUME NEW r \in Requests, Submit(r) PROVE KvInv'
  <2>1. /\ future[r] = "none" /\ future' = [future EXCEPT ![r] = "waiting"]
        /\ UNCHANGED <<gen, kv>>
    BY <1>2 DEF Submit, running
  <2>2. gen[r] = 0
    BY <2>1 DEF FreshInv
  <2> QED BY <2>1, <2>2 DEF KvInv, TypeOK
<1>3. CASE Stop
  BY <1>3 DEF Stop, KvInv, running
<1>4. CASE Finish
  <2>1. PICK bad \in SUBSET active, done \in SUBSET active : Finished(bad, done)
    BY <1>4, FinishParts
  <2>2. /\ kv' = (kv \cup active) \ (Failing(bad) \cup done)
        /\ gen' = [r \in Requests |-> IF r \in done THEN 0
                                      ELSE IF r \in active THEN gen[r] + 1 ELSE gen[r]]
    BY <2>1 DEF Finished
  <2>3. Failing(bad) \subseteq active
    BY DEF Failing, TypeOK
  <2>4. \A r \in Requests : future'[r] = "waiting" =>
          future[r] = "waiting" /\ r \notin Failing(bad) /\ r \notin done
    BY <2>1 DEF Finished
  <2>5. ASSUME NEW r \in Requests, future'[r] = "waiting", gen'[r] > 0 PROVE r \in kv'
    <3>1. CASE r \in active
      BY <2>2, <2>4, <2>5, <3>1
    <3>2. CASE r \notin active
      BY <2>2, <2>3, <2>4, <2>5, <3>2 DEF KvInv
    <3> QED BY <3>1, <3>2
  <2> QED BY <2>5 DEF KvInv
<1>5. CASE \/ Start \/ Add \/ AddRefused \/ Gather \/ Requeue \/ BuildBatch \/ Wake
           \/ \E r \in pending : Promote(r) \/ PromoteRaises(r)
           \/ UNCHANGED vars
  BY <1>1, <1>5
    DEF Start, Add, AddRefused, Gather, Promote, PromoteRaises, Requeue, BuildBatch, Wake, vars,
        running
<1> QED BY <1>2, <1>3, <1>4, <1>5 DEF Next, Loop

LEMMA ChunkStep == TypeOK /\ FreshInv /\ ChunkInv /\ [Next]_vars => ChunkInv'
<1> SUFFICES ASSUME TypeOK, FreshInv, ChunkInv, [Next]_vars PROVE ChunkInv'
  OBVIOUS
<1>1. NoChunk.done = 0
  BY DEF NoChunk
<1>2. ASSUME UNCHANGED <<chunk, gen, batch>>, Scheduled \subseteq Scheduled',
             \A r \in Requests : future'[r] = "waiting" => future[r] = "waiting"
      PROVE  ChunkInv'
  BY <1>2 DEF ChunkInv
<1>3. ASSUME NEW r \in Requests, Submit(r) PROVE ChunkInv'
  <2>1. /\ future[r] = "none" /\ future' = [future EXCEPT ![r] = "waiting"]
        /\ UNCHANGED <<pending, rejected, active, lost, gen, chunk, batch>>
    BY <1>3 DEF Submit, heap, running, promotion, failures
  <2>2. chunk[r] = NoChunk
    BY <2>1 DEF ChunkInv, FreshInv, Places, Scheduled
  <2>4. Scheduled \subseteq Scheduled'
    BY <2>1 DEF Scheduled
  <2>5. \A u \in Requests \ {r} : future'[u] = future[u]
    BY <2>1 DEF TypeOK
  <2>6. ASSUME NEW u \in Requests
        PROVE  /\ chunk'[u] # NoChunk =>
                    /\ u \in Scheduled'
                    /\ chunk'[u].total > MaxPrefill
                    /\ chunk'[u].total \in Prompt[u] .. Prompt[u] + gen'[u]
               /\ future'[u] = "waiting" /\ chunk'[u].done > 0 /\ u \notin DOMAIN batch'
                    => gen'[u] > 0
    <3>1. CASE u = r
      BY <1>1, <2>1, <2>2, <3>1
    <3>2. CASE u # r
      BY <2>1, <2>4, <2>5, <3>2 DEF ChunkInv
    <3> QED BY <3>1, <3>2
  <2> QED BY <2>6 DEF ChunkInv
<1>4. CASE UNCHANGED vars \/ Start \/ Wake
  BY <1>2, <1>4 DEF vars, Start, Wake, heap, running, promotion, failures, Scheduled
<1>5. CASE Stop
  BY <1>5 DEF Stop, heap, running, promotion, failures, ChunkInv, Scheduled
<1>6. CASE Gather
  <2>1. PICK victims \in SUBSET active :
          /\ pending' = pending \cup victims /\ active' = active \ victims
          /\ UNCHANGED <<queue, future, gen, chunk, rejected, batch, lost>>
    BY <1>6, GatherParts
  <2> QED BY <1>2, <2>1 DEF Scheduled
<1>7. ASSUME NEW r \in pending, Promote(r), rejected' = Append(rejected, r),
             UNCHANGED <<active, chunk>>
      PROVE  ChunkInv'
  <2>1. r \in Requests /\ pending' = pending \ {r} /\ UNCHANGED <<queue, future, gen, batch, lost>>
    BY <1>7, PromoteParts
  <2>2. ToSet(rejected') = ToSet(rejected) \cup {r}
    BY <1>7, <2>1, AppendElements DEF TypeOK
  <2> QED BY <1>2, <1>7, <2>1, <2>2 DEF Scheduled
<1>8. ASSUME NEW r \in pending, Promote(r), Admit(r), UNCHANGED rejected PROVE ChunkInv'
  <2>1. /\ pending' = pending \ {r} /\ active' = active \cup {r}
        /\ chunk' = IF Long(r) THEN [chunk EXCEPT ![r] = [done |-> 0, total |-> TotalLen(r)]]
                    ELSE chunk
        /\ UNCHANGED <<queue, rejected, lost, future, gen, batch>> /\ r \in Requests
    BY <1>8, PromoteParts DEF Admit
  <2>2. Scheduled' = Scheduled
    BY <2>1 DEF Scheduled
  <2>3. CASE ~Long(r)
    BY <1>2, <2>1, <2>2, <2>3
  <2>4. CASE Long(r)
    <3>1. chunk'[r] = [done |-> 0, total |-> TotalLen(r)]
          /\ \A u \in Requests \ {r} : chunk'[u] = chunk[u]
      BY <2>1, <2>4 DEF TypeOK
    <3>2. chunk'[r].done = 0 /\ chunk'[r].total = TotalLen(r)
      BY <3>1
    <3>3. TotalLen(r) > MaxPrefill /\ TotalLen(r) \in Prompt[r] .. Prompt[r] + gen[r]
      <4>1. gen[r] \in Nat /\ Prompt[r] \in Nat
        BY <2>1, GenTypes
      <4> QED BY <2>4, <4>1 DEF Long, TotalLen
    <3>4. r \in Scheduled
      BY DEF Scheduled
    <3> QED BY <2>1, <2>2, <3>1, <3>2, <3>3, <3>4 DEF ChunkInv
  <2> QED BY <2>3, <2>4
<1>9. CASE BuildBatch
  <2>1. /\ chunk' = [r \in Requests |->
             IF r \in active /\ chunk[r] # NoChunk THEN Advanced(r) ELSE chunk[r]]
        /\ DOMAIN batch' = active /\ DOMAIN batch = {}
        /\ UNCHANGED <<future, queue, pending, active, rejected, lost, gen>>
    BY <1>9 DEF BuildBatch, Requeues, TypeOK, heap, failures
  <2>2. ASSUME NEW r \in Requests, chunk'[r] # NoChunk
        PROVE  chunk[r] # NoChunk /\ chunk'[r].total = chunk[r].total
    BY <2>1, <2>2, AdvancedTypes
  <2>3. \A r \in Requests \ active : chunk'[r] = chunk[r]
    BY <2>1
  <2>4. Scheduled' = Scheduled
    BY <2>1 DEF Scheduled
  <2> QED BY <2>1, <2>2, <2>3, <2>4 DEF ChunkInv
<1>10. CASE Add
  <2>1. /\ pending \subseteq pending'
        /\ UNCHANGED <<future, rejected, active, lost, gen, chunk, batch>>
    BY <1>10 DEF Add, running, promotion
  <2> QED BY <1>2, <2>1 DEF Scheduled
<1>11. CASE AddRefused
  BY <1>2, <1>11 DEF AddRefused, heap, running, promotion, Scheduled
<1>12. ASSUME NEW r \in pending, PromoteRaises(r) PROVE ChunkInv'
  <2>1. /\ pending' = pending \ {r} /\ lost' = lost \cup {r} \cup ToSet(rejected)
        /\ rejected' = <<>> /\ UNCHANGED <<queue, future, active, gen, chunk, batch>>
    BY <1>12 DEF PromoteRaises, running
  <2> QED BY <1>2, <2>1 DEF Scheduled
<1>13. CASE Requeue
  <2>1. /\ rejected # <<>> /\ pending' = pending \cup {Head(rejected)}
        /\ UNCHANGED <<queue, future, active, gen, chunk, batch>>
    BY <1>13, RequeueParts DEF running
  <2>2. ToSet(rejected) = {Head(rejected)} \cup ToSet(Tail(rejected))
    BY <2>1, TailElements DEF TypeOK
  <2>3. \/ rejected' = Tail(rejected) /\ UNCHANGED lost
        \/ lost' = lost \cup ToSet(Tail(rejected))
    BY <1>13, RequeueParts
  <2>4. Scheduled \subseteq Scheduled'
    BY <2>1, <2>2, <2>3 DEF Scheduled
  <2> QED BY <1>2, <2>1, <2>4
<1>14. CASE Finish
  <2>1. PICK bad \in SUBSET active, done \in SUBSET active : Finished(bad, done)
    BY <1>14, FinishParts
  <2>2. /\ active' = active \ done /\ UNCHANGED <<queue, pending, rejected, lost>>
        /\ DOMAIN batch = active
        /\ gen' = [r \in Requests |-> IF r \in done THEN 0
                                      ELSE IF r \in active THEN gen[r] + 1 ELSE gen[r]]
        /\ chunk' = [r \in Requests |-> IF r \in done THEN NoChunk ELSE chunk[r]]
    BY <2>1 DEF Finished, TypeOK
  <2>3. \A r \in Requests : future'[r] = "waiting" => future[r] = "waiting"
    BY <2>1 DEF Finished
  <2>4. ASSUME NEW r \in Requests, chunk'[r] # NoChunk
        PROVE  /\ r \in Scheduled'
               /\ chunk'[r].total > MaxPrefill
               /\ chunk'[r].total \in Prompt[r] .. Prompt[r] + gen'[r]
    <3>1. r \notin done /\ chunk'[r] = chunk[r]
      BY <2>2, <2>4
    <3>2. /\ r \in Scheduled /\ chunk[r].total > MaxPrefill
          /\ chunk[r].total \in Prompt[r] .. Prompt[r] + gen[r]
      BY <2>4, <3>1 DEF ChunkInv
    <3>3. gen[r] \in Nat /\ gen'[r] \in {gen[r], gen[r] + 1} /\ Prompt[r] \in Nat
      BY <2>2, <3>1, BatchAssumption DEF TypeOK
    <3>4. r \in Scheduled'
      BY <2>2, <3>1, <3>2 DEF Scheduled
    <3> QED BY <2>2, <3>1, <3>2, <3>3, <3>4
  <2>5. ASSUME NEW r \in Requests, future'[r] = "waiting", chunk'[r].done > 0
        PROVE  gen'[r] > 0
    <3>1. gen[r] \in Nat
      BY BatchAssumption DEF TypeOK
    <3>2. CASE r \in active
      <4>1. r \notin done
        BY <1>1, <2>2, <2>5
      <4> QED BY <2>2, <3>1, <3>2, <4>1
    <3>3. CASE r \notin active
      <4>1. chunk'[r] = chunk[r] /\ gen'[r] = gen[r]
        BY <2>2, <3>3
      <4> QED BY <2>2, <2>3, <2>5, <3>3, <4>1 DEF ChunkInv
    <3> QED BY <3>2, <3>3
  <2> QED BY <2>4, <2>5 DEF ChunkInv
<1>15. ASSUME NEW r \in pending, Promote(r) PROVE ChunkInv'
  BY <1>7, <1>8, <1>15, PromoteParts
<1> QED BY <1>3, <1>4, <1>5, <1>6, <1>9, <1>10, <1>11, <1>12, <1>13, <1>14, <1>15
        DEF Next, Loop

LEMMA DecodeStep ==
  TypeOK /\ FreshInv /\ KvInv /\ ChunkInv /\ DecodesWithCache /\ [Next]_vars
    => DecodesWithCache'
<1> SUFFICES ASSUME TypeOK, FreshInv, KvInv, ChunkInv, DecodesWithCache, [Next]_vars
             PROVE  DecodesWithCache'
  OBVIOUS
<1>1. ASSUME batch' = Nothing PROVE DecodesWithCache'
  BY <1>1 DEF Nothing, DecodesWithCache
<1>2. CASE UNCHANGED <<batch, future, kv>>
  BY <1>2 DEF DecodesWithCache
<1>3. ASSUME NEW r \in Requests, Submit(r) PROVE DecodesWithCache'
  <2>1. DOMAIN batch \subseteq active /\ r \notin active /\ active \subseteq Requests
    BY <1>3 DEF TypeOK, Submit, FreshInv, Places, Scheduled
  <2>2. /\ UNCHANGED <<batch, kv>>
        /\ \A u \in Requests \ {r} : future'[u] = future[u]
    BY <1>3 DEF Submit, TypeOK
  <2> QED BY <2>1, <2>2 DEF DecodesWithCache
<1>4. CASE BuildBatch
  <2>1. /\ batch' = [r \in active |-> Runs(r)] /\ UNCHANGED <<future, kv>>
        /\ DOMAIN batch = {} /\ active \subseteq Requests
    BY <1>4 DEF BuildBatch, Requeues, TypeOK
  <2>2. ASSUME NEW r \in active, Runs(r) = "decode", future[r] = "waiting",
               ~(Prompt[r] > MaxPrefill /\ Prompt[r] <= ChunkSize(r))
        PROVE  r \in kv
    <3>1. r \in Requests /\ gen[r] \in Nat /\ Prompt[r] \in Nat /\ MaxPrefill \in Nat
      BY <2>1, BatchAssumption DEF TypeOK
    <3>2. CASE gen[r] > 0
      BY <2>2, <3>1, <3>2 DEF KvInv
    <3>3. CASE gen[r] = 0
      <4>1. chunk[r] # NoChunk /\ Advanced(r) = NoChunk
        BY <2>2, <3>3 DEF Runs
      <4>2. chunk[r].total > MaxPrefill /\ chunk[r].total \in Prompt[r] .. Prompt[r] + gen[r]
        BY <3>1, <4>1 DEF ChunkInv
      <4>3. chunk[r].total = Prompt[r]
        BY <3>1, <3>3, <4>2
      <4>4. chunk[r].done \in Nat /\ ~(chunk[r].done > 0)
        BY <2>1, <2>2, <3>1, <3>3 DEF ChunkInv, TypeOK
      <4>5. ChunkSize(r) >= chunk[r].total /\ ChunkSize(r) \in Nat
        BY <3>1, <4>1, <4>2, <4>3, <4>4, AdvancedTypes
      <4> QED BY <2>2, <3>1, <4>2, <4>3, <4>5
    <3> QED BY <3>1, <3>2, <3>3
  <2> QED BY <2>1, <2>2 DEF DecodesWithCache
<1>5. CASE Stop
  BY <1>1, <1>5 DEF Stop
<1>6. CASE Finish
  BY <1>1, <1>6 DEF Finish
<1>7. CASE \/ Start \/ Add \/ AddRefused \/ Gather \/ Requeue \/ Wake \/ UNCHANGED vars
           \/ \E r \in pending : Promote(r) \/ PromoteRaises(r)
  BY <1>2, <1>7 DEF Start, Add, AddRefused, Gather, Requeue, Promote, PromoteRaises, Wake, vars
<1> QED BY <1>3, <1>4, <1>5, <1>6, <1>7 DEF Next, Loop

-----------------------------------------------------------------------------
(* The theorems.                                                            *)

LEMMA InitHolds ==
  Init => /\ TypeOK /\ QueueInv /\ FreshInv /\ NoRequestLost /\ CounterInv /\ TiesNeedPreemption
          /\ SlotsRespected /\ BlocksReturned /\ KvInv /\ ChunkInv /\ DecodesWithCache
<1> SUFFICES ASSUME Init
             PROVE  /\ TypeOK /\ QueueInv /\ FreshInv /\ NoRequestLost
                    /\ CounterInv /\ TiesNeedPreemption
                    /\ SlotsRespected /\ BlocksReturned /\ KvInv /\ ChunkInv /\ DecodesWithCache
  OBVIOUS
<1>1. Cardinality({}) = 0
  BY FS_EmptySet
<1>2. ToSet(queue) = {} /\ ToSet(rejected) = {} /\ QueueInv
  BY EmptyElements DEF Init, QueueInv
<1>3. TypeOK
  <2>1. /\ queue \in Seq(Requests) /\ rejected \in Seq(Requests)
        /\ entry \in [Requests -> 0 .. counter] /\ gen \in [Requests -> 0 .. (MaxNew - 1)]
    BY BatchAssumption DEF Init
  <2>2. /\ chunk \in [Requests -> [done : Nat, total : Nat]]
        /\ batch \in [IF pc = "awaiting" THEN active ELSE {} -> {"prefill", "decode"}]
    BY DEF Init, NoChunk, Nothing
  <2>3. spent \in Nat /\ spent + Cardinality(preempted) <= MaxPreempted
    BY <1>1, BatchAssumption DEF Init
  <2> QED BY <2>1, <2>2, <2>3 DEF Init, TypeOK
<1>4. NoRequestLost /\ FreshInv
  BY <1>2 DEF Init, NoRequestLost, FreshInv, Places, Scheduled
<1>5. CounterInv /\ TiesNeedPreemption
  BY <1>2 DEF Init, CounterInv, TiesNeedPreemption, Waiting
<1>6. SlotsRespected
  BY <1>1, BatchAssumption DEF Init, SlotsRespected
<1>7. BlocksReturned
  BY DEF Init, BlocksReturned
<1>8. KvInv /\ DecodesWithCache
  BY DEF Init, KvInv, DecodesWithCache, Nothing
<1>9. ChunkInv
  BY DEF Init, ChunkInv, NoChunk
<1> QED BY <1>2, <1>3, <1>4, <1>5, <1>6, <1>7, <1>8, <1>9

\* The engine and its scheduler keep their types in every interleaving of submit(), start()
\* and stop() with the loop: the batch in the pipeline is the active set, nobody generates
\* more than max_new_tokens, and the preemption manager stays within its limit.
THEOREM BatchTypes == Spec => []TypeOK
<1>1. Init => TypeOK
  BY InitHolds
<1>2. TypeOK /\ [Next]_vars => TypeOK'
  BY TypeStep
<1> QED BY <1>1, <1>2, PTL DEF Spec

\* Nobody is in the queue, or rejected, twice, and whoever is not submitted is nowhere.
LEMMA QueueHolds == Spec => [](QueueInv /\ FreshInv /\ NoRequestLost)
<1> DEFINE Inv == QueueInv /\ FreshInv /\ NoRequestLost
<1>1. Init => Inv
  BY InitHolds
<1>2. TypeOK /\ Inv /\ [Next]_vars => Inv'
  BY PlacesStep, FreshStep
<1> QED BY <1>1, <1>2, BatchTypes, PTL DEF Spec

\* Submitting, draining, preempting, promoting, pushing back, refusing, failing and
\* restarting never lose a request a caller waits for, unless add() refused it or a heap
\* operation raised while _promote_pending held it, and never have it twice; whatever the
\* priorities are.
THEOREM RequestsKept == Spec => []NoRequestLost
BY QueueHolds, PTL

\* Until the first preemption the counter tells the heap entries of one priority apart, so
\* that no heap operation raises and no request is dropped by one.
THEOREM OrderlyUntilPreempted == Spec => []TiesNeedPreemption
<1> DEFINE Inv == CounterInv /\ TiesNeedPreemption
<1>1. Init => Inv
  BY InitHolds
<1>2. TypeOK /\ QueueInv /\ NoRequestLost /\ Inv /\ [Next]_vars => Inv'
  BY TieStep
<1>3. Inv => TiesNeedPreemption
  OBVIOUS
<1> QED BY <1>1, <1>2, <1>3, BatchTypes, QueueHolds, PTL DEF Spec

\* No more requests run than max_batch_size allows, whatever is preempted and promoted.
THEOREM BatchBounded == Spec => []SlotsRespected
<1>1. Init => SlotsRespected
  BY InitHolds
<1>2. TypeOK /\ SlotsRespected /\ [Next]_vars => SlotsRespected'
  BY SlotsStep
<1> QED BY <1>1, <1>2, BatchTypes, PTL DEF Spec

\* Block tables are disjoint from one another and from the free list, finished requests
\* have given their blocks back, and until the first preemption no block is lost.
THEOREM BlocksKept == Spec => []BlocksReturned
<1>1. Init => BlocksReturned
  BY InitHolds
<1>2. TypeOK /\ NoRequestLost /\ BlocksReturned /\ [Next]_vars => BlocksReturned'
  BY BlocksStep
<1> QED BY <1>1, <1>2, BatchTypes, RequestsKept, PTL DEF Spec

\* Whoever is decoded for a caller has its cache, but for the enlarged first chunks of
\* critical and high requests: chunked prefills and preemptions never cost one its cache.
THEOREM DecodesCached == Spec => []DecodesWithCache
<1> DEFINE Inv == KvInv /\ ChunkInv /\ DecodesWithCache
<1>1. Init => Inv
  BY InitHolds
<1>2. TypeOK /\ FreshInv /\ Inv /\ [Next]_vars => Inv'
  BY KvStep, ChunkStep, DecodeStep
<1>3. Inv => DecodesWithCache
  OBVIOUS
<1> QED BY <1>1, <1>2, <1>3, BatchTypes, QueueHolds, PTL DEF Spec

=============================================================================
