------------------------- MODULE ContinuousBatching -------------------------
(***************************************************************************)
(* Continuous batching: the engine of dist/pipeline/continuous_batching.py *)
(* driving the scheduler of core/batch_scheduler.py, with the preemption   *)
(* manager and the KV cache manager of core/scheduler/. Requests are       *)
(* submitted to a queue; the engine's loop drains it into the scheduler's  *)
(* pending heap, has a batch scheduled, runs it through the pipeline,      *)
(* appends one token to every sequence of the batch and answers the        *)
(* futures of the finished ones.                                           *)
(*                                                                         *)
(* All of it runs on one event loop: submit() and stop() only interleave   *)
(* where the loop awaits, in the pipeline or in its sleep. Adding one      *)
(* request, examining one candidate and pushing one back are steps of      *)
(* their own here, between which nobody else runs.                         *)
(*                                                                         *)
(* The heap orders (priority, counter, Sequence) tuples, and Sequence has  *)
(* no order: an operation that compares two entries with one priority and  *)
(* one counter raises TypeError.                                           *)
(***************************************************************************)
EXTENDS Integers, Sequences, FiniteSets, SequencesExt

CONSTANTS
  Requests,      \* request ids
  Pri,           \* Sequence.priority, 0 the most important
  Prompt,        \* len(prompt_tokens)
  Need,          \* KV blocks for the prompt and MaxNew tokens
  MaxNew,        \* max_new_tokens
  MaxBatch,      \* max_batch_size
  Budget,        \* max_total_tokens of an iteration
  MaxPrefill,    \* max_prefill_tokens: longer prompts are prefilled in chunks
  MaxPending,    \* _max_pending: the heap's limit, where add() refuses
  MaxPreempted,  \* _max_preempted
  Policy,        \* whether a preemption policy is connected
  Blocks         \* blocks of the KV pool

ASSUME BatchAssumption ==
  /\ IsFiniteSet(Requests)
  /\ Pri \in [Requests -> Nat] /\ Need \in [Requests -> Nat]
  /\ Prompt \in [Requests -> Nat \ {0}]
  /\ \A r \in Requests : Prompt[r] + MaxNew + MaxBatch <= Budget
  /\ MaxNew \in Nat \ {0} /\ MaxBatch \in Nat \ {0} /\ MaxPrefill \in Nat \ {0}
  /\ MaxPending \in Nat /\ MaxPreempted \in Nat /\ Budget \in Nat
  /\ Policy \in BOOLEAN

VARIABLES
  pc,         \* the engine's loop: off, at the top, promoting, pushing back the
              \* rejected, awaiting the pipeline, asleep
  queue,      \* _request_queue
  future,     \* the caller's future of each request
  kv,         \* _kv_caches: the requests that have a cache on the nodes
  pending,    \* the requests in the scheduler's _pending_heap
  entry,      \* the counter in the heap entry of each of them, 0 once it is active
  counter,    \* _counter
  ordered,    \* whether its first entry is sure to be its least
  active,     \* the scheduler's active
  gen,        \* len(generated_tokens), 0 again once the sequence is complete
  chunk,      \* _chunked_prefill; total = 0 for no entry
  batch,      \* the batch in the pipeline: what runs for each of its requests
  preempted,  \* the unfinished requests in _preempted
  spent,      \* how many entries of _preempted are of finished requests
  held,       \* the blocks in the request's block table
  free,       \* the blocks on the pool's free list
  rejected,   \* _promote_pending: the candidates it popped and will push back,
  carried,    \* the requests that were active before it,
  left,       \* and remain_t, the tokens left of the iteration's budget
  refused,    \* requests drained from the queue that add() refused
  lost,       \* requests that were in nobody's hands but those of a
              \* _promote_pending that raised
  raised      \* whether a heap operation has raised

heap == <<pending, entry, counter, ordered>>
running == <<active, gen, chunk, preempted, spent, held, free>>
promotion == <<rejected, carried, left>>
failures == <<refused, lost, raised>>
vars == <<pc, queue, future, kv, heap, running, promotion, batch, failures>>

NoChunk == [done |-> 0, total |-> 0]
Nothing == [r \in {} |-> "prefill"]

Init ==
  /\ pc = "off"
  /\ queue = <<>>
  /\ future = [r \in Requests |-> "none"]
  /\ kv = {}
  /\ pending = {} /\ active = {}
  /\ entry = [r \in Requests |-> 0] /\ counter = 0 /\ ordered = TRUE
  /\ gen = [r \in Requests |-> 0]
  /\ chunk = [r \in Requests |-> NoChunk]
  /\ batch = Nothing
  /\ preempted = {} /\ spent = 0
  /\ held = [r \in Requests |-> {}] /\ free = Blocks
  /\ rejected = <<>> /\ carried = {} /\ left = 0
  /\ refused = {} /\ lost = {} /\ raised = FALSE

(***************************************************************************)
(* Callers                                                                 *)
(***************************************************************************)
Submit(r) ==
  /\ pc \notin {"top", "promoting", "requeueing"}
  /\ future[r] = "none"
  /\ queue' = Append(queue, r)
  /\ future' = [future EXCEPT ![r] = "waiting"]
  /\ UNCHANGED <<pc, kv, heap, running, promotion, batch, failures>>

Start ==
  /\ pc = "off"
  /\ pc' = "asleep"
  /\ UNCHANGED <<queue, future, kv, heap, running, promotion, batch, failures>>

(* The loop's task is cancelled where it awaits: every future still open   *)
(* fails. The queue and the scheduler keep what they hold.                 *)
Stop ==
  /\ pc \in {"asleep", "awaiting"}
  /\ pc' = "off"
  /\ future' = [r \in Requests |-> IF future[r] = "waiting" THEN "failed" ELSE future[r]]
  /\ kv' = {}
  /\ batch' = Nothing
  /\ UNCHANGED <<queue, heap, running, promotion, failures>>

(***************************************************************************)
(* _pending_heap, through heapq                                            *)
(***************************************************************************)
Before(r, u) == Pri[r] < Pri[u] \/ (Pri[r] = Pri[u] /\ entry[r] < entry[u])
Least(S) == {r \in S : \A u \in S : ~Before(u, r)}
(* The entries that have r's priority and the counter n. *)
Ties(r, n) == {u \in pending \ {r} : Pri[u] = Pri[r] /\ entry[u] = n}

(* heappush appends the entry and compares it with its parents up to where *)
(* it belongs: with the first entry at once when the heap has two at most, *)
(* and certainly with one that it ties with for the first place. A push    *)
(* that raises leaves the entry in the heap, in order.                     *)
PushRaises(r, n) ==
  {raises \in BOOLEAN :
     IF raises THEN Ties(r, n) \cap Least(pending) # {}
                    \/ (Ties(r, n) # {} /\ (~ordered \/ Cardinality(pending) > 2))
     ELSE ~ordered \/ Ties(r, n) \cap Least(pending) = {}}

(* heappop takes off the first entry, and compares the others with each    *)
(* other to fill its place: the two of them, when there are two. When that *)
(* raises the first entry is gone, and of more than two the order is lost. *)
First(r) == r \in pending /\ (ordered => r \in Least(pending))
PopRaises(r) ==
  {raises \in BOOLEAN :
     LET tied == \E u \in pending \ {r} : Ties(u, entry[u]) \ {r} # {}
     IN IF raises THEN tied ELSE ~tied \/ Cardinality(pending) > 3}

(***************************************************************************)
(* One iteration up to the pipeline: drain, preempt, schedule              *)
(***************************************************************************)
(* Mutant: the counter is not advanced. *)
NextCounterStays(raises) == counter
NextCounter(raises) == IF raises THEN counter ELSE counter + 1

(* The engine drains its queue into the heap. At the limit add() refuses:  *)
(* the request is off the queue and in no heap, and the loop logs the      *)
(* error and sleeps. It does so too when the push raises, with the request *)
(* in the heap and the counter not advanced.                               *)
Add ==
  /\ pc = "top" /\ queue # <<>>
  /\ Cardinality(pending) < MaxPending
  /\ \E raises \in PushRaises(Head(queue), counter) :
       /\ pending' = pending \cup {Head(queue)}
       /\ entry' = [entry EXCEPT ![Head(queue)] = counter]
       /\ counter' = NextCounter(raises)
       /\ pc' = IF raises THEN "asleep" ELSE "top"
       /\ raised' = (raised \/ raises)
  /\ queue' = Tail(queue)
  /\ UNCHANGED <<future, kv, ordered, running, promotion, batch, refused, lost>>

AddRefused ==
  /\ pc = "top" /\ queue # <<>>
  /\ Cardinality(pending) >= MaxPending
  /\ refused' = refused \cup {Head(queue)}
  /\ queue' = Tail(queue)
  /\ pc' = "asleep"
  /\ UNCHANGED <<future, kv, heap, running, promotion, batch, lost, raised>>

TotalLen(r) == Prompt[r] + gen[r]

(* preempt_lowest(min_priority=2), when the policy asks for it: the least  *)
(* important active request of normal priority or below.                   *)
Victims ==
  IF ~Policy \/ Cardinality(preempted) + spent >= MaxPreempted THEN {}
  ELSE {v \in active : Pri[v] >= 2 /\ \A u \in active : Pri[u] <= Pri[v]}

(* Mutant: the victim is not queued again. *)
QueuedWithoutVictim(victims) == pending
(* The heap once the victim is back on it, under a counter of its own. *)
Queued(victims) == pending \cup victims

(* _build_active_batch: every active request is in the batch again, one    *)
(* token each, and chunks of long prompts up to MaxPrefill in all.         *)
ChunkCharge(S) == Min({MaxPrefill, MapThenSumSet(LAMBDA r : chunk[r].total - chunk[r].done, S)})

Gather ==
  /\ pc = "top" /\ queue = <<>>
  /\ \E victims \in {{}} \cup {{v} : v \in Victims} :
       /\ pending' = Queued(victims)
       /\ entry' = [r \in Requests |-> IF r \in victims THEN counter + 1 ELSE entry[r]]
       /\ counter' = counter + Cardinality(victims)
       /\ active' = active \ victims
       /\ preempted' = preempted \cup victims
       /\ carried' = active \ victims
       /\ left' = Budget - Cardinality(active \ victims) - ChunkCharge(active \ victims)
  /\ pc' = "promoting"
  /\ UNCHANGED <<queue, future, kv, ordered, gen, chunk, spent, held, free, rejected, batch,
                 failures>>

(* _promote_pending for one candidate: a free slot, tokens left, and room  *)
(* for the running decodes (prefill_slack_ratio = 0.3), which a long       *)
(* prompt makes by taking less.                                            *)
Long(r) == TotalLen(r) > MaxPrefill
Squeezes(tokens) == 10 * (left - tokens) < 3 * Cardinality(carried)
(* Mutant: one slot too many. *)
FitsOneOver(r) ==
  /\ Cardinality(active) <= MaxBatch
  /\ TotalLen(r) <= left
  /\ Squeezes(TotalLen(r)) => Long(r)
(* Mutant: a prompt above the prefill budget is rejected, not chunked. *)
FitsUnchunked(r) ==
  /\ Cardinality(active) < MaxBatch
  /\ TotalLen(r) <= Min({left, MaxPrefill})
  /\ ~Squeezes(TotalLen(r))
Fits(r) ==
  /\ Cardinality(active) < MaxBatch
  /\ TotalLen(r) <= left
  /\ Squeezes(TotalLen(r)) => Long(r)
Charge(r) ==
  IF ~Long(r) THEN TotalLen(r)
  ELSE IF Squeezes(MaxPrefill) THEN Min({MaxPrefill, (7 * left) \div 10})
  ELSE MaxPrefill

(* Mutant: the blocks are not taken off the free list. *)
AllocateShared(r) ==
  /\ \E got \in kSubset(Need[r], free) : held' = [held EXCEPT ![r] = got]
  /\ UNCHANGED free
(* allocate_paged_blocks: a new block table, whatever the old one held;    *)
(* with too few free blocks it fails, and the request is admitted all the  *)
(* same.                                                                   *)
Allocate(r) ==
  IF kSubset(Need[r], free) = {} THEN UNCHANGED <<held, free>>
  ELSE \E got \in kSubset(Need[r], free) :
         /\ held' = [held EXCEPT ![r] = got]
         /\ free' = free \ got

Admit(r) ==
  /\ active' = active \cup {r}
  /\ left' = left - Charge(r)
  /\ chunk' = IF Long(r) THEN [chunk EXCEPT ![r] = [done |-> 0, total |-> TotalLen(r)]]
              ELSE chunk
  /\ entry' = [entry EXCEPT ![r] = 0]
  /\ Allocate(r)
  /\ UNCHANGED rejected

Reject(r) ==
  /\ rejected' = Append(rejected, r)
  /\ UNCHANGED <<active, left, chunk, entry, held, free>>

(* Candidates are popped until max_examine are in the batch or rejected.   *)
Examines ==
  /\ pc = "promoting" /\ pending # {}
  /\ Cardinality(active) + Len(rejected) < Max({10, 2 * (MaxBatch - Cardinality(carried))})

Promote(r) ==
  /\ Examines /\ First(r) /\ FALSE \in PopRaises(r)
  /\ pending' = pending \ {r}
  /\ IF Fits(r) THEN Admit(r) ELSE Reject(r)
  /\ UNCHANGED <<pc, queue, future, kv, counter, ordered, gen, preempted, spent, carried,
                 batch, failures>>

(* The pop raises: its entry, and the list of rejected ones, are gone.     *)
PromoteRaises(r) ==
  /\ Examines /\ First(r) /\ TRUE \in PopRaises(r)
  /\ pending' = pending \ {r}
  /\ ordered' = (ordered /\ Cardinality(pending) <= 3)
  /\ lost' = lost \cup {r} \cup ToSet(rejected)
  /\ raised' = TRUE
  /\ pc' = "asleep"
  /\ rejected' = <<>> /\ carried' = {} /\ left' = 0
  /\ UNCHANGED <<queue, future, kv, entry, counter, running, batch, refused>>

(* The rejected candidates are pushed back under their old entries; when a *)
(* push raises, those after it are gone.                                   *)
Requeues == pc = "requeueing" \/ (pc = "promoting" /\ ~Examines)

Requeue ==
  /\ Requeues /\ rejected # <<>>
  /\ pending' = pending \cup {Head(rejected)}
  /\ \/ /\ FALSE \in PushRaises(Head(rejected), entry[Head(rejected)])
        /\ pc' = "requeueing"
        /\ rejected' = Tail(rejected)
        /\ UNCHANGED <<carried, left, lost, raised>>
     \/ /\ TRUE \in PushRaises(Head(rejected), entry[Head(rejected)])
        /\ pc' = "asleep"
        /\ lost' = lost \cup ToSet(Tail(rejected))
        /\ raised' = TRUE
        /\ rejected' = <<>> /\ carried' = {} /\ left' = 0
  /\ UNCHANGED <<queue, future, kv, entry, counter, ordered, running, batch, refused>>

(* _build_seq_tokens. A chunked prompt advances by a chunk weighted with   *)
(* the priority; its last chunk already counts as decoding.                *)
Weight(r) == CASE Pri[r] = 0 -> 6 [] Pri[r] = 1 -> 5 [] Pri[r] = 3 -> 2 [] OTHER -> 4
ChunkSize(r) == Max({1, (MaxPrefill * Weight(r)) \div 4})
Advanced(r) ==
  LET done == Max({chunk[r].done, Min({chunk[r].done + ChunkSize(r), Prompt[r]})})
  IN IF done >= chunk[r].total THEN NoChunk ELSE [chunk[r] EXCEPT !.done = done]
(* Mutant: every chunk leaves the sequence DECODING. *)
RunsChunkAsDecode(r) == IF chunk[r] # NoChunk \/ gen[r] > 0 THEN "decode" ELSE "prefill"
Runs(r) ==
  IF chunk[r] # NoChunk THEN (IF Advanced(r) = NoChunk THEN "decode" ELSE "prefill")
  ELSE IF gen[r] = 0 THEN "prefill" ELSE "decode"

(* _build_scheduled_batch. *)
BuildBatch ==
  /\ Requeues /\ rejected = <<>>
  /\ batch' = [r \in active |-> Runs(r)]
  /\ chunk' = [r \in Requests |->
       IF r \in active /\ chunk[r] # NoChunk THEN Advanced(r) ELSE chunk[r]]
  /\ pc' = IF active = {} THEN "asleep" ELSE "awaiting"
  /\ carried' = {} /\ left' = 0
  /\ UNCHANGED <<queue, future, kv, heap, active, gen, preempted, spent, held, free,
                 rejected, failures>>

Wake ==
  /\ pc = "asleep"
  /\ pc' = "top"
  /\ UNCHANGED <<queue, future, kv, heap, running, promotion, batch, failures>>

(***************************************************************************)
(* _execute_batch, step and _finalize_completed                            *)
(***************************************************************************)
(* The pipeline raises for the requests in bad; a decode without a cache   *)
(* fails without it. Either fails the future and drops the cache, and      *)
(* yields token 0: the sequence itself goes on. In stopped are those whose *)
(* token is one of their stop tokens.                                      *)
Failing(bad) == {r \in DOMAIN batch : r \in bad \/ (batch[r] = "decode" /\ r \notin kv)}
(* Mutant: complete one token too late. *)
CompleteLate(stopped) == {r \in DOMAIN batch : r \in stopped \/ gen[r] >= MaxNew}
Complete(stopped) == {r \in DOMAIN batch : r \in stopped \/ gen[r] + 1 >= MaxNew}

Finish ==
  /\ pc = "awaiting"
  /\ pc' = "top"
  /\ batch' = Nothing
  /\ \E bad, stopped \in SUBSET DOMAIN batch :
       LET done == Complete(stopped)
       IN /\ future' = [r \in Requests |->
               IF future[r] # "waiting" THEN future[r]
               ELSE IF r \in Failing(bad) THEN "failed"
               ELSE IF r \in done THEN "ok" ELSE "waiting"]
          /\ kv' = (kv \cup DOMAIN batch) \ (Failing(bad) \cup done)
          /\ gen' = [r \in Requests |-> IF r \in done THEN 0
                                        ELSE IF r \in DOMAIN batch THEN gen[r] + 1 ELSE gen[r]]
          /\ active' = active \ done
          /\ chunk' = [r \in Requests |-> IF r \in done THEN NoChunk ELSE chunk[r]]
          /\ preempted' = preempted \ done
          /\ spent' = spent + Cardinality(preempted \cap done)
          /\ held' = [r \in Requests |-> IF r \in done THEN {} ELSE held[r]]
          /\ free' = free \cup UNION {held[r] : r \in done}
  /\ UNCHANGED <<queue, heap, promotion, failures>>

Loop ==
  \/ Add \/ AddRefused
  \/ Gather
  \/ \E r \in pending : Promote(r) \/ PromoteRaises(r)
  \/ Requeue
  \/ BuildBatch
  \/ Wake \/ Finish

Next ==
  \/ \E r \in Requests : Submit(r)
  \/ Start \/ Stop
  \/ Loop

Spec == Init /\ [][Next]_vars

(* The event loop resumes the engine's task, and a pipeline run returns or *)
(* raises: every hop has a timeout.                                        *)
FairSpec == Spec /\ WF_vars(Loop)

(***************************************************************************)
(* Properties                                                              *)
(***************************************************************************)
(* The variables' types; the batch in the pipeline is the active set, and  *)
(* the preemption manager's entries stay within their limit.               *)
TypeOK ==
  /\ pc \in {"off", "top", "promoting", "requeueing", "awaiting", "asleep"}
  /\ queue \in Seq(Requests)
  /\ future \in [Requests -> {"none", "waiting", "ok", "failed"}]
  /\ kv \subseteq Requests /\ pending \subseteq Requests /\ active \subseteq Requests
  /\ entry \in [Requests -> 0..counter] /\ counter \in Nat
  /\ ordered \in BOOLEAN /\ raised \in BOOLEAN
  /\ gen \in [Requests -> 0..(MaxNew - 1)]
  /\ chunk \in [Requests -> [done : Nat, total : Nat]]
  /\ batch \in [IF pc = "awaiting" THEN active ELSE {} -> {"prefill", "decode"}]
  /\ preempted \subseteq pending \cup active \cup ToSet(rejected) \cup lost
  /\ spent \in Nat /\ spent + Cardinality(preempted) <= MaxPreempted
  /\ held \in [Requests -> SUBSET Blocks] /\ free \subseteq Blocks
  /\ rejected \in Seq(Requests)
  /\ pc \notin {"promoting", "requeueing"} => rejected = <<>> /\ carried = {}
  /\ carried \subseteq active
  /\ refused \subseteq Requests /\ lost \subseteq Requests

(* A request whose caller waits is in one place exactly, from where it     *)
(* will reach the pipeline, unless add() refused it or a heap operation    *)
(* raised while _promote_pending had it off the heap: preemption, failures *)
(* of others, other errors and a restart of the engine neither lose nor    *)
(* duplicate it.                                                           *)
NoRequestLost ==
  /\ \A r \in Requests : future[r] = "waiting" /\ r \notin refused \cup lost =>
       r \in ToSet(queue) \cup pending \cup ToSet(rejected) \cup active
  /\ pending \cap active = {}
  /\ ToSet(rejected) \cap (pending \cup active) = {}
  /\ ToSet(queue) \cap (pending \cup ToSet(rejected) \cup active) = {}

(* "Tiebreaker for FIFO within same priority": until the first preemption  *)
(* the counter tells any two heap entries of one priority apart, whatever  *)
(* is refused, pushed back or restarted, so that no heap operation raises. *)
TiesNeedPreemption ==
  preempted = {} /\ spent = 0 =>
    /\ ~raised /\ lost = {}
    /\ \A r, u \in pending \cup ToSet(rejected) :
         Pri[r] = Pri[u] /\ entry[r] = entry[u] => r = u

(* No more requests run than max_batch_size allows.                        *)
SlotsRespected == Cardinality(active) <= MaxBatch

(* Whoever is neither running nor preempted has given its blocks back; a   *)
(* block is in one block table at most, and not on the free list then; and *)
(* until the first preemption every block is in one of these places.       *)
BlocksReturned ==
  /\ \A r \in Requests \ (active \cup preempted) : held[r] = {}
  /\ \A r \in Requests : /\ held[r] \cap free = {}
                         /\ \A u \in Requests \ {r} : held[r] \cap held[u] = {}
  /\ preempted = {} /\ spent = 0 => Blocks = free \cup UNION {held[r] : r \in Requests}

(* A request that is decoded for a caller has its cache, so that it is     *)
(* never failed for a missing one: but for a critical or high one whose    *)
(* long prompt fits its first, enlarged chunk, which is decoded at once.   *)
DecodesWithCache ==
  \A r \in DOMAIN batch :
    /\ batch[r] = "decode" /\ future[r] = "waiting"
    /\ ~(Prompt[r] > MaxPrefill /\ Prompt[r] <= ChunkSize(r))
    => r \in kv

(* Every request submitted to a running engine gets its answer, as long as *)
(* no heap operation raises.                                               *)
EveryRequestAnswered ==
  \A r \in Requests :
    future[r] = "waiting" /\ r \notin refused /\ pc # "off"
      ~> future[r] # "waiting" \/ r \in refused \/ pc = "off" \/ raised

(* "Returns a Future that resolves to the list of generated tokens": every *)
(* request submitted to a running engine gets its answer.                  *)
FutureResolves ==
  \A r \in Requests :
    future[r] = "waiting" /\ r \notin refused /\ pc # "off"
      ~> future[r] # "waiting" \/ r \in refused \/ pc = "off"
=============================================================================
