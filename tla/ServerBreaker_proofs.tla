------------------------ MODULE ServerBreaker_proofs ------------------------
(* Proofs about the circuit breaker of the HTTP API, for any number of     *)
(* callers, any thresholds and any window.                                 *)
EXTENDS ServerBreaker, FiniteSetTheorems, SequenceTheorems, TLAPS

(* The streak the breaker counts is never longer than the real one. *)
StreakCovered == state = "closed" => failures <= streak

BreakerInv == TypeOK /\ NoSlotLost /\ ProbesAccounted /\ StreakCovered

(* A window with a further result, pruned, is a window. *)
LEMMA LoggedType ==
  ASSUME recent \in Seq(Result), NEW result \in Result
  PROVE  Logged(result) \subseteq Seq(Result)
<1>1. Append(recent, result) \in Seq(Result) /\ Len(Append(recent, result)) = Len(recent) + 1
  OBVIOUS
<1>2. SUFFICES ASSUME NEW k \in 1..(Len(recent) + 1)
               PROVE  SubSeq(Append(recent, result), k, Len(recent) + 1) \in Seq(Result)
  BY DEF Logged
<1>3. \A i \in k..(Len(recent) + 1) : Append(recent, result)[i] \in Result
  BY <1>1
<1>4. Len(recent) + 1 \in Int /\ k \in Int
  OBVIOUS
<1> QED
  BY <1>3, <1>4, SubSeqProperties

(* The probes are finitely many. *)
LEMMA ProbesFinite ==
  IsFiniteSet(Probes) /\ Cardinality(Probes) \in Nat
<1>1. Probes \in SUBSET Callers /\ IsFiniteSet(Callers)
  BY BreakerAssumption DEF Probes
<1> QED
  BY <1>1, FS_Subset, FS_CardinalityType

(* A request admitted as a probe is one probe more. *)
LEMMA ProbeAdded ==
  ASSUME NEW c \in Callers, request[c] = "none",
         request \in [Callers -> {"none", "running", "probe"}],
         request' = [request EXCEPT ![c] = "probe"]
  PROVE  Cardinality(Probes') = Cardinality(Probes) + 1
<1>1. Probes' = Probes \cup {c} /\ c \notin Probes
  BY DEF Probes
<1> QED
  BY <1>1, ProbesFinite, FS_AddElement

(* A request that ends within its phase is one probe less, if it was one. *)
LEMMA ProbeRemoved ==
  ASSUME NEW c \in Callers,
         request \in [Callers -> {"none", "running", "probe"}],
         Over(c)
  PROVE  Cardinality(Probes') = IF request[c] = "probe" THEN Cardinality(Probes) - 1
                                ELSE Cardinality(Probes)
<1>1. Probes' = Probes \ {c} /\ (c \in Probes <=> request[c] = "probe")
  BY DEF Probes, Over
<1> QED
  BY <1>1, ProbesFinite, FS_RemoveElement

(* The probes change with the requests only. *)
LEMMA ProbesKept ==
  ASSUME request' = request PROVE Probes' = Probes
BY DEF Probes

(* A new breaker satisfies the invariant. *)
LEMMA BreakerInit == Init => BreakerInv
<1> SUFFICES ASSUME Init PROVE BreakerInv
  OBVIOUS
<1>1. Probes = {}
  BY DEF Init, Probes
<1>2. TypeOK
  BY BreakerAssumption DEF Init, TypeOK, Result
<1> QED
  BY <1>1, <1>2 DEF Init, BreakerInv, NoSlotLost, ProbesAccounted, StreakCovered

(* Every step keeps the invariant. *)
LEMMA BreakerStep == BreakerInv /\ [Next]_vars => BreakerInv'
<1> SUFFICES ASSUME BreakerInv, [Next]_vars PROVE BreakerInv'
  OBVIOUS
<1> USE BreakerAssumption
<1>a. TypeOK /\ NoSlotLost /\ ProbesAccounted /\ StreakCovered
  BY DEF BreakerInv
<1>b. Logged("ok") \subseteq Seq(Result) /\ Logged("failed") \subseteq Seq(Result)
  BY <1>a, LoggedType DEF TypeOK, Result
<1>c. IsFiniteSet(Probes) /\ Cardinality(Probes) \in Nat
  BY ProbesFinite
<1>1. ASSUME NEW c \in Callers, Admit(c) PROVE BreakerInv'
  <2>1. TypeOK'
    BY <1>a, <1>1 DEF TypeOK, Admit, counters
  <2>2. Probes' = Probes
    BY <1>a, <1>1 DEF TypeOK, Admit, Probes
  <2> QED
    BY <1>a, <1>1, <2>1, <2>2
    DEF BreakerInv, NoSlotLost, ProbesAccounted, StreakCovered, Admit, counters
<1>2. ASSUME NEW c \in Callers, AdmitProbe(c) PROVE BreakerInv'
  <2>1. TypeOK'
    BY <1>a, <1>2 DEF TypeOK, AdmitProbe
  <2>2. Cardinality(Probes') = Cardinality(Probes) + 1
    BY <1>a, <1>2, ProbeAdded DEF TypeOK, AdmitProbe
  <2> QED
    BY <1>a, <1>c, <1>2, <2>1, <2>2
    DEF BreakerInv, NoSlotLost, ProbesAccounted, StreakCovered, AdmitProbe, TypeOK
<1>3. ASSUME NEW c \in Callers, AdmitFirstProbe(c) PROVE BreakerInv'
  <2>1. TypeOK'
    BY <1>a, <1>3 DEF TypeOK, AdmitFirstProbe, EnterHalfOpen, CooldownOver
  <2>2. Cardinality(Probes') = Cardinality(Probes) + 1
    BY <1>a, <1>3, ProbeAdded DEF TypeOK, AdmitFirstProbe
  <2>3. Cardinality(Probes) = 0
    BY <1>a, <1>3, FS_EmptySet DEF ProbesAccounted, AdmitFirstProbe, CooldownOver
  <2> QED
    BY <1>3, <2>1, <2>2, <2>3
    DEF BreakerInv, NoSlotLost, ProbesAccounted, StreakCovered, AdmitFirstProbe, EnterHalfOpen
<1>4. CASE Observe
  <2>1. TypeOK'
    BY <1>a, <1>4 DEF TypeOK, Observe, EnterHalfOpen, CooldownOver
  <2>2. Cardinality(Probes') = 0
    BY <1>a, <1>4, ProbesKept, FS_EmptySet DEF ProbesAccounted, Observe, CooldownOver
  <2> QED
    BY <1>4, <2>1, <2>2
    DEF BreakerInv, NoSlotLost, ProbesAccounted, StreakCovered, Observe, EnterHalfOpen
<1>5. ASSUME NEW c \in Callers, ProbeSucceeds(c) PROVE BreakerInv'
  <2>1. TypeOK'
    BY <1>a, <1>b, <1>5 DEF TypeOK, ProbeSucceeds, Over, SlotReleased
  <2>2. Cardinality(Probes') = IF request[c] = "probe" THEN Cardinality(Probes) - 1
                               ELSE Cardinality(Probes)
    BY <1>a, <1>5, ProbeRemoved DEF TypeOK, ProbeSucceeds
  <2>3. request[c] = "probe" => Cardinality(Probes) > 0
    <3>1. request[c] = "probe" => c \in Probes
      BY DEF Probes
    <3> QED
      BY <3>1, <1>c, FS_EmptySet
  <2>4. NoSlotLost'
    BY <1>a, <1>c, <1>5, <2>2, <2>3 DEF NoSlotLost, ProbeSucceeds, SlotReleased, TypeOK
  <2>5. ProbesAccounted'
    BY <1>a, <1>c, <1>5, <2>2, <2>3 DEF ProbesAccounted, ProbeSucceeds, SlotReleased, TypeOK
  <2> QED
    BY <1>5, <2>1, <2>4, <2>5 DEF BreakerInv, StreakCovered, ProbeSucceeds
<1>6. ASSUME NEW c \in Callers, LastProbeSucceeds(c) PROVE BreakerInv'
  <2>1. TypeOK'
    BY <1>a, <1>b, <1>6 DEF TypeOK, LastProbeSucceeds, OverWithPhase
  <2>2. Probes' = {}
    BY <1>6 DEF Probes, LastProbeSucceeds, OverWithPhase
  <2> QED
    BY <1>6, <2>1, <2>2
    DEF BreakerInv, NoSlotLost, ProbesAccounted, StreakCovered, LastProbeSucceeds
<1>7. ASSUME NEW c \in Callers, Succeeds(c) PROVE BreakerInv'
  <2>1. TypeOK'
    BY <1>a, <1>b, <1>7 DEF TypeOK, Succeeds, Over, StreakAfterSuccess
  <2>2. Probes' = {}
    BY <1>a, <1>7 DEF TypeOK, Probes, ProbesAccounted, Succeeds, Over
  <2> QED
    BY <1>7, <2>1, <2>2
    DEF BreakerInv, NoSlotLost, ProbesAccounted, StreakCovered, Succeeds, StreakAfterSuccess
<1>8. ASSUME NEW c \in Callers, ProbeFails(c) PROVE BreakerInv'
  <2>1. failures' \in 0..FailureThreshold /\ streak' \in 0..FailureThreshold
    BY <1>a, <1>8 DEF TypeOK, ProbeFails, OneMore, AtMost
  <2>2. calls' \in 0..HalfOpenMax
    BY <1>a, <1>8 DEF TypeOK, ProbeFails, SlotReleased
  <2>3. request' \in [Callers -> {"none", "running", "probe"}] /\ Probes' = {}
    BY <1>8 DEF Probes, ProbeFails, OverWithPhase
  <2>4. recent' \in Seq(Result)
    BY <1>b, <1>8 DEF ProbeFails
  <2>5. TypeOK'
    BY <1>a, <1>8, <2>1, <2>2, <2>3, <2>4 DEF TypeOK, ProbeFails
  <2>6. StreakCovered'
    BY <1>a, <1>8 DEF StreakCovered, ProbeFails
  <2> QED
    BY <1>8, <2>3, <2>5, <2>6
    DEF BreakerInv, NoSlotLost, ProbesAccounted, ProbeFails
<1>9. ASSUME NEW c \in Callers, Fails(c) PROVE BreakerInv'
  <2>1. failures' \in 0..FailureThreshold /\ streak' \in 0..FailureThreshold
    BY <1>a, <1>9 DEF TypeOK, Fails, OneMore, AtMost
  <2>2. state' \in {"closed", "open", "half_open"} /\ state' # "half_open"
    BY <1>a, <1>9 DEF TypeOK, Fails
  <2>3. state' = "closed" => failures' < FailureThreshold
    BY <1>a, <1>9, <2>1 DEF TypeOK, Fails, Trips
  <2>4. TypeOK'
    BY <1>a, <1>b, <1>9, <2>1, <2>2, <2>3 DEF TypeOK, Fails, Over
  <2>5. Probes' = {}
    BY <1>a, <1>9 DEF TypeOK, Probes, ProbesAccounted, Fails, Over
  <2>6. StreakCovered'
    BY <1>a, <1>9 DEF StreakCovered, Fails, OneMore, AtMost, TypeOK
  <2> QED
    BY <2>2, <2>4, <2>5, <2>6 DEF BreakerInv, NoSlotLost, ProbesAccounted
<1>10. CASE Reset
  <2>1. TypeOK'
    BY <1>a, <1>10 DEF TypeOK, Reset
  <2>2. Probes' = {}
    BY <1>10 DEF Probes, Reset
  <2> QED
    BY <1>a, <1>10, <2>1, <2>2
    DEF BreakerInv, NoSlotLost, ProbesAccounted, StreakCovered, Reset, TypeOK
<1>11. CASE Cooldown
  BY <1>a, <1>11, ProbesKept
  DEF BreakerInv, NoSlotLost, ProbesAccounted, StreakCovered, Cooldown, TypeOK, counters
<1>12. CASE ServiceChanges
  BY <1>a, <1>12, ProbesKept
  DEF BreakerInv, NoSlotLost, ProbesAccounted, StreakCovered, ServiceChanges, TypeOK, counters
<1>13. CASE UNCHANGED vars
  BY <1>a, <1>13, ProbesKept
  DEF BreakerInv, NoSlotLost, ProbesAccounted, StreakCovered, vars, TypeOK, counters
<1> QED
  BY <1>1, <1>2, <1>3, <1>4, <1>5, <1>6, <1>7, <1>8, <1>9, <1>10, <1>11, <1>12, <1>13
  DEF Next, Allow, End

(* The invariant of the breaker, on which the theorems below rest. *)
THEOREM BreakerInvariant == Spec => []BreakerInv
BY BreakerInit, BreakerStep, PTL DEF Spec

(* The counters of ServerCircuitBreaker keep their ranges, in particular   *)
(* _half_open_calls between 0 and half_open_max_calls.                     *)
THEOREM BreakerTypes == Spec => []TypeOK
<1>1. BreakerInv => TypeOK
  BY DEF BreakerInv
<1> QED
  BY <1>1, BreakerInvariant, PTL

(* A slot that is taken belongs to a probe that runs: no phase starts with *)
(* slots lost to the one before.                                           *)
THEOREM SlotsAreProbes == Spec => []NoSlotLost
<1>1. BreakerInv => NoSlotLost
  BY DEF BreakerInv
<1> QED
  BY <1>1, BreakerInvariant, PTL

(* More than half_open_max_calls probes run only by as many as requests    *)
(* from before the phase have ended in it.                                 *)
THEOREM ProbesAreBounded == Spec => []ProbesBounded
<1>1. BreakerInv => ProbesBounded
  <2> SUFFICES ASSUME BreakerInv PROVE ProbesBounded
    OBVIOUS
  <2>1. CASE state = "half_open"
    BY <2>1, ProbesFinite, BreakerAssumption
    DEF BreakerInv, TypeOK, ProbesAccounted, ProbesBounded
  <2>2. CASE state # "half_open"
    <3>1. Cardinality(Probes) = 0
      BY <2>2, FS_EmptySet DEF BreakerInv, ProbesAccounted
    <3> QED
      BY <3>1, BreakerAssumption DEF BreakerInv, TypeOK, ProbesBounded
  <2> QED
    BY <2>1, <2>2
<1> QED
  BY <1>1, BreakerInvariant, PTL

(* The circuit trips on an unbroken run of failures, or on the rate. *)
THEOREM TripsAreJustified == Spec => TripJustified
<1>1. BreakerInv /\ BreakerInv' /\ [Next]_vars =>
        [state = "closed" /\ state' = "open" =>
           streak' >= FailureThreshold \/ TripsOnRate(recent')]_vars
  <2> SUFFICES ASSUME BreakerInv, Next, state = "closed", state' = "open"
               PROVE  streak' >= FailureThreshold \/ TripsOnRate(recent')
    OBVIOUS
  <2>1. PICK c \in Callers : Fails(c)
    BY DEF Next, Allow, End, Admit, AdmitProbe, AdmitFirstProbe, CooldownOver, ProbeSucceeds,
           LastProbeSucceeds, Succeeds, ProbeFails, Observe, Reset, Cooldown, ServiceChanges
  <2>2. failures' >= FailureThreshold \/ TripsOnRate(recent')
    BY <2>1 DEF Fails, Trips
  <2>3. failures' >= FailureThreshold => streak' >= FailureThreshold
    BY <2>1, BreakerAssumption
    DEF BreakerInv, TypeOK, StreakCovered, Fails, OneMore, AtMost
  <2> QED
    BY <2>2, <2>3
<1> QED
  BY <1>1, BreakerInvariant, PTL DEF Spec, TripJustified
=============================================================================
