---------------------------- MODULE ServerBreaker ----------------------------
(***************************************************************************)
(* The circuit breaker in front of the HTTP API: ServerCircuitBreaker and  *)
(* CircuitBreakerMiddleware of api/circuit_breaker_middleware.py. Every    *)
(* method holds the breaker's lock, so it is one step here; a request runs *)
(* between allow_request() and the recording of its result, while others   *)
(* are admitted, end, and move the breaker through its states. A request   *)
(* may last 300 s, ten times the cooldown.                                 *)
(*                                                                         *)
(* Time is abstract: cooled says whether recovery_timeout_s has passed     *)
(* since the last failure, and any number of the oldest results may be out *)
(* of the window when it is pruned.                                        *)
(***************************************************************************)
EXTENDS Integers, Sequences, FiniteSets

CONSTANTS
  Callers,           \* request tasks, each with one request at a time
  FailureThreshold,  \* failure_threshold
  HalfOpenMax,       \* half_open_max_calls
  SuccessThreshold,  \* success_threshold
  MinSamples,        \* min_window_samples
  RatePercent,       \* error_rate_threshold, in per cent
  MaxRecent          \* bound: results in the window

ASSUME BreakerAssumption ==
  /\ IsFiniteSet(Callers)
  /\ FailureThreshold \in Nat \ {0}
  /\ HalfOpenMax \in Nat \ {0}
  /\ SuccessThreshold \in Nat \ {0}
  /\ MinSamples \in Nat /\ RatePercent \in Nat
  /\ MaxRecent \in Nat \ {0}

VARIABLES
  state,      \* _state
  failures,   \* _failures; it stops at FailureThreshold, where it is compared
  calls,      \* _half_open_calls
  successes,  \* _half_open_successes
  cooled,     \* recovery_timeout_s has passed since _last_failure_time
  recent,     \* _recent_results, oldest first
  request,    \* what each caller's request is: none, a probe admitted in the
              \* HALF_OPEN phase under way, or any other request that runs
  healthy,    \* whether the service behind the breaker works
  strays,     \* history: results recorded in this HALF_OPEN phase of requests
              \* that are not its probes
  streak      \* history: failures recorded since the last success, as failures

counters == <<failures, calls, successes>>
vars == <<state, counters, cooled, recent, request, healthy, strays, streak>>

Probes == {c \in Callers : request[c] = "probe"}

Init ==
  /\ state = "closed"
  /\ failures = 0 /\ calls = 0 /\ successes = 0
  /\ cooled = TRUE
  /\ recent = <<>>
  /\ request = [c \in Callers |-> "none"]
  /\ healthy \in BOOLEAN
  /\ strays = 0 /\ streak = 0

(***************************************************************************)
(* Admission                                                               *)
(***************************************************************************)
(* _check_recovery_locked: the cooldown is noticed by whoever looks next.  *)
CooldownOver == state = "open" /\ cooled

(* Mutant: the slots of the last phase are not given back. *)
EnterHalfOpenKeepsSlots(taken) ==
  /\ state' = "half_open"
  /\ calls' = calls + taken
  /\ successes' = 0
  /\ strays' = 0
EnterHalfOpen(taken) ==
  /\ state' = "half_open"
  /\ calls' = taken
  /\ successes' = 0
  /\ strays' = 0

(* allow_request. A request that is turned away leaves no trace. *)
Admit(c) ==
  /\ request[c] = "none"
  /\ state = "closed"
  /\ request' = [request EXCEPT ![c] = "running"]
  /\ UNCHANGED <<state, counters, cooled, recent, healthy, strays, streak>>

(* Mutant: one probe too many. *)
AdmitProbeOneMore(c) ==
  /\ request[c] = "none"
  /\ state = "half_open"
  /\ calls <= HalfOpenMax
  /\ calls' = calls + 1
  /\ request' = [request EXCEPT ![c] = "probe"]
  /\ UNCHANGED <<state, failures, successes, cooled, recent, healthy, strays, streak>>

AdmitProbe(c) ==
  /\ request[c] = "none"
  /\ state = "half_open"
  /\ calls < HalfOpenMax
  /\ calls' = calls + 1
  /\ request' = [request EXCEPT ![c] = "probe"]
  /\ UNCHANGED <<state, failures, successes, cooled, recent, healthy, strays, streak>>

AdmitFirstProbe(c) ==
  /\ request[c] = "none"
  /\ CooldownOver
  /\ EnterHalfOpen(1)
  /\ request' = [request EXCEPT ![c] = "probe"]
  /\ UNCHANGED <<failures, cooled, recent, healthy, streak>>

Allow(c) == Admit(c) \/ AdmitProbe(c) \/ AdmitFirstProbe(c)

(* state, is_open() and stats() notice the cooldown as well. *)
Observe ==
  /\ CooldownOver
  /\ EnterHalfOpen(0)
  /\ UNCHANGED <<failures, cooled, recent, request, healthy, streak>>

(***************************************************************************)
(* Results                                                                 *)
(***************************************************************************)
Result == {"ok", "failed"}
AtMost(n, bound) == IF n < bound THEN n ELSE bound
OneMore(n) == AtMost(n + 1, FailureThreshold)

(* The window with the new result, pruned. *)
Logged(result) ==
  {w \in {SubSeq(Append(recent, result), k, Len(recent) + 1) : k \in 1..(Len(recent) + 1)} :
     Len(w) <= MaxRecent}

(* _should_trip_on_rate *)
TripsOnRate(w) ==
  /\ Len(w) >= MinSamples
  /\ 100 * Cardinality({i \in DOMAIN w : w[i] = "failed"}) >= RatePercent * Len(w)

(* Mutant: trips one failure too late. *)
TripsLate(n, w) == n > FailureThreshold \/ TripsOnRate(w)
Trips(n, w) == n >= FailureThreshold \/ TripsOnRate(w)

(* The request of c is over; in the same HALF_OPEN phase the others are    *)
(* what they were, otherwise none of them is a probe any more.             *)
Over(c) == request' = [request EXCEPT ![c] = "none"]
OverWithPhase(c) ==
  request' = [d \in Callers |-> IF d = c \/ request[d] = "none" THEN "none" ELSE "running"]

(* Mutant: no slot is released. *)
SlotReleasedNever == calls
(* _release_probe_slot: whoever's result it is, and never below zero. *)
SlotReleased == IF calls > 0 THEN calls - 1 ELSE 0

(* record_success, in HALF_OPEN... *)
ProbeSucceeds(c) ==
  /\ request[c] # "none"
  /\ state = "half_open"
  /\ successes + 1 < SuccessThreshold
  /\ calls' = SlotReleased
  /\ successes' = successes + 1
  /\ recent' \in Logged("ok")
  /\ Over(c)
  /\ strays' = IF request[c] = "probe" THEN strays ELSE strays + 1
  /\ streak' = 0
  /\ UNCHANGED <<state, failures, cooled, healthy>>

(* ... which the last of SuccessThreshold successes ends... *)
LastProbeSucceeds(c) ==
  /\ request[c] # "none"
  /\ state = "half_open"
  /\ successes + 1 >= SuccessThreshold
  /\ state' = "closed"
  /\ failures' = 0 /\ calls' = 0 /\ successes' = 0
  /\ recent' \in Logged("ok")
  /\ OverWithPhase(c)
  /\ strays' = 0
  /\ streak' = 0
  /\ UNCHANGED <<cooled, healthy>>

(* Mutant: a success in CLOSED does not break the streak. *)
StreakAfterSuccessKept == failures
(* ... and in the other states: in CLOSED a success breaks the streak. *)
StreakAfterSuccess == IF state = "closed" THEN 0 ELSE failures
Succeeds(c) ==
  /\ request[c] # "none"
  /\ state # "half_open"
  /\ failures' = StreakAfterSuccess
  /\ recent' \in Logged("ok")
  /\ Over(c)
  /\ streak' = 0
  /\ UNCHANGED <<state, calls, successes, cooled, healthy, strays>>

(* record_failure, in HALF_OPEN: the circuit opens again... *)
ProbeFails(c) ==
  /\ request[c] # "none" /\ ~healthy
  /\ state = "half_open"
  /\ state' = "open"
  /\ failures' = OneMore(failures)
  /\ calls' = SlotReleased
  /\ cooled' = FALSE
  /\ recent' \in Logged("failed")
  /\ OverWithPhase(c)
  /\ strays' = 0
  /\ streak' = OneMore(streak)
  /\ UNCHANGED <<successes, healthy>>

(* ... in CLOSED, where it may trip the circuit, and in OPEN, where it     *)
(* starts the cooldown anew.                                               *)
Fails(c) ==
  /\ request[c] # "none" /\ ~healthy
  /\ state # "half_open"
  /\ failures' = OneMore(failures)
  /\ cooled' = FALSE
  /\ recent' \in Logged("failed")
  /\ state' = IF state = "closed" /\ Trips(failures', recent') THEN "open" ELSE state
  /\ Over(c)
  /\ streak' = OneMore(streak)
  /\ UNCHANGED <<calls, successes, healthy, strays>>

End(c) ==
  ProbeSucceeds(c) \/ LastProbeSucceeds(c) \/ Succeeds(c) \/ ProbeFails(c) \/ Fails(c)

(* reset(), by hand. The clock of the last failure starts at 0 again. *)
Reset ==
  /\ state' = "closed"
  /\ failures' = 0 /\ calls' = 0 /\ successes' = 0
  /\ cooled' = TRUE
  /\ recent' = <<>>
  /\ request' = [c \in Callers |-> IF request[c] = "none" THEN "none" ELSE "running"]
  /\ strays' = 0
  /\ UNCHANGED <<healthy, streak>>

(* Time passes; the service breaks or is repaired. *)
Cooldown ==
  /\ ~cooled
  /\ cooled' = TRUE
  /\ UNCHANGED <<state, counters, recent, request, healthy, strays, streak>>

ServiceChanges ==
  /\ healthy' = ~healthy
  /\ UNCHANGED <<state, counters, cooled, recent, request, strays, streak>>

Next ==
  \/ \E c \in Callers : Allow(c) \/ End(c)
  \/ Observe \/ Reset \/ Cooldown \/ ServiceChanges

Spec == Init /\ [][Next]_vars

(* Clients keep sending requests, every request ends (TimeoutMiddleware is *)
(* inside the breaker), and time passes.                                   *)
FairSpec ==
  /\ Spec
  /\ \A c \in Callers : WF_vars(Allow(c)) /\ WF_vars(End(c))
  /\ WF_vars(Cooldown)

(***************************************************************************)
(* Properties                                                              *)
(***************************************************************************)
(* The variables' types. While the circuit is closed the streak is below   *)
(* the threshold, and while it is half open successes are missing.         *)
TypeOK ==
  /\ state \in {"closed", "open", "half_open"}
  /\ failures \in 0..FailureThreshold
  /\ calls \in 0..HalfOpenMax
  /\ successes \in 0..(SuccessThreshold - 1)
  /\ cooled \in BOOLEAN /\ healthy \in BOOLEAN
  /\ recent \in Seq(Result)
  /\ request \in [Callers -> {"none", "running", "probe"}]
  /\ strays \in Nat
  /\ streak \in 0..FailureThreshold
  /\ state = "closed" => failures < FailureThreshold

(* No slot is lost: every slot taken belongs to a probe that still runs,   *)
(* so that a request is only turned away in HALF_OPEN while as many probes *)
(* as slots are under way, whatever phases they outlived.                  *)
NoSlotLost == state = "half_open" => calls <= Cardinality(Probes)

(* What makes the two inductive: a probe belongs to the phase under way,   *)
(* and the probes that hold no slot any more are as many as the strays     *)
(* that released one, at the most.                                         *)
ProbesAccounted ==
  /\ state = "half_open" => Cardinality(Probes) <= calls + strays
  /\ state # "half_open" => Probes = {}

(* "At most half_open_max_calls concurrent probe requests are admitted     *)
(* during the HALF_OPEN phase": what allow_request and the release of      *)
(* slots in _release_probe_slot are said to ensure together.               *)
ProbeLimit == Cardinality(Probes) <= HalfOpenMax

(* What they do ensure: more probes run only if requests admitted before   *)
(* the phase ended in it, one for each of them, which released a slot that *)
(* it had not taken.                                                       *)
ProbesBounded == Cardinality(Probes) <= HalfOpenMax + strays

(* "isolated historical failures can never accumulate into a trip": the    *)
(* circuit opens on FailureThreshold failures with no success in between,  *)
(* or on the rate.                                                         *)
TripJustified ==
  [][state = "closed" /\ state' = "open" =>
       streak' >= FailureThreshold \/ TripsOnRate(recent')]_vars

(* Once the service works for good the circuit closes for good: no         *)
(* sequence of trips, phases and requests that outlive them leaves it      *)
(* rejecting for ever.                                                     *)
HealsWhenHealthy == <>[]healthy => <>[](state = "closed")
=============================================================================
