# A TLA+ model of distributed-llm: failover, recovery, KV cache, batching, admission

distributed-llm runs one large model over several worker nodes, each holding a
range of layers; a coordinator drives the pipeline, and several coordinators can
form a high-available group. This project models the parts of it that keep shared
state under concurrency and failure: who leads among coordinators, what happens to
the pipeline when a worker fails, how sequences share the paged KV cache, how
requests are batched, preempted and answered, and how the API's circuit breaker
admits requests. Paths are relative to `src/src/distllm/`.

## Inventory

| Component | State | Operations | Talks to |
|---|---|---|---|
| Leader election, `core/ha_coordinator.py`, `core/coordinator_election.py` | `_state`, `_leader_id`, `_current_term`, `_voted_for`, `_peers` with `last_seen` and `online` | election round (probe all peers, expire, decide), inbound heartbeat, `add_peer`, `start` | peers, by `POST /api/v1/ha/heartbeat` |
| Redistribution planner, `dist/recovery.py` | none (pure) | `compute_redistributions`: neighbours absorb a failed range, or the whole span is partitioned anew | called by the recovery manager |
| Recovery manager, `dist/recovery.py` | `_dead_nodes`, `_draining`, `_layer_assignments`, `_pending_weight_reload`, `_checkpoints`, `_recovered_requests`, `_dry_run` | `on_node_failure` (seven steps under `_recovery_serializer`), `mark_alive`, `save_checkpoint`, eviction, `mark_weights_loaded`, `dry_run_recovery` | callbacks of the coordinator on the pipeline |
| Health manager, `core/health_manager.py`, `health/failover.py`, `health/state.py` | a `HealthRecord` per node | probe loop, one probe thread per node, state machine, straggler report | recovery manager, pipeline nodes |
| Pipeline orchestrator, `dist/pipeline/orchestrator.py` | `_nodes` with layer range and `is_healthy`, `_node_order` | register, remove, health check, run | workers, by gRPC |
| Recovery drill, `dist/recovery_drill.py` | history | periodic `dry_run_recovery` of a synthetic node | recovery manager |
| Coordinator, `core/coordinator.py`, `core/coordinator_subsystem.py` | the above | four recovery callbacks, straggler callback, wiring | everything |
| Paged KV cache, `backends/paged_attention.py`, and defragmenter, `core/memory_defragmenter.py` | `_blocks` with `ref_count` and `num_tokens`, `_free_blocks`, `_seq_blocks`, 16 shard locks, `_lock` | allocate, append (with unsharing), free, `copy_on_write`, reset; compaction | scheduler, coordinator's maintenance |
| Batch scheduler, `core/batch_scheduler.py`, with `core/scheduler/` | `_pending_heap`, `active`, `_chunked_prefill`, `_preempted`, block tables | `add`, `schedule`, `step`, `preempt_lowest` | KV cache, engine |
| Continuous batching engine, `dist/pipeline/continuous_batching.py` | `_request_queue`, `_results`, `_kv_caches`, its task | submit, start, stop, decode loop | scheduler, pipeline |
| HTTP circuit breaker, `api/circuit_breaker_middleware.py` | `_state`, `_failures`, `_half_open_calls`, `_half_open_successes`, `_recent_results` | `allow_request`, `record_success`, `record_failure`, `reset` | every request of `api/server.py` |
| Node circuit breaker, `core/resource_manager.py` | breaker state per node | record, check | health checks |
| State replication and standbys, `core/coordinator_election.py`, `core/state_replication.py`, `core/coordinator_failover.py`, `core/split_brain.py` | snapshots, versions, fencing | push, apply, promote, resolve | peers |
| Topology consensus, `dist/topology_consensus.py`; gossip, `dist/p2p/gossip.py`; distributed block pool, `dist/block_pool.py` | logs; CRDT state; blocks | propose, append, merge | nothing: not imported |

Much else in the repository (API server, SDKs, integrations, kernels,
marketplaces, dashboards) is I/O, numerics or product surface and is left aside.

What is hard, and what would make each part correct:

* **Election.** Each coordinator runs a thread that waits in the network, without
  the lock, while inbound heartbeats change everything it decides on. Nothing is
  persisted. A leader should always count a quorum, hold one term per tenure, give
  way to lower ids, and leadership must settle after faults. There are no votes, so
  two leaders are possible.
* **Planner.** Integer shares of a range given to two neighbours, over and over
  from the last result: no layer may be owned twice or lost, and whoever gains
  layers must be marked as having weights to load.
* **Recovery.** A recovery takes many steps and runs beside probe threads, other
  callers in the queue, generation threads and registrations. The dead set, the
  pipeline and the cached topology are updated at different moments and must agree
  when it is over; and a failed node must leave in the end.

* **KV cache.** Blocks are shared by reference counts that `copy_on_write` updates
  one by one without the free-list lock, beside threads that free and append, and a
  compaction that moves blocks and rewrites every table. No block may be freed,
  written or moved while another sequence uses it, and threads must not wait for
  each other.
* **Batching.** One event loop, but three owners of a request (queue, heap, active
  set), a preemption, failures in the pipeline and a stop at every await. A request
  must be in one place, give back what it holds, and be answered.
* **Circuit breaker.** Every method is atomic, but a request lives between two of
  them and may outlive several of the breaker's phases. Slots must not be lost,
  trips must be justified, and the circuit must close again once the service works.

`PROJECT.json` lists the hazards one by one, with their lines and the properties
about them.

## Modules

| Module | What it is |
|---|---|
| `HAElection` | the election between coordinators |
| `LayerRedistribution` | the planner, as operators |
| `LayerOwnership` | the abstract specification of recovery: topology and weight flags, a failure being one step |
| `NodeRecovery` | health probes, failover states, recovery and its callbacks, step by step; implements `LayerOwnership` |
| `RecoveryDrill` | `NodeRecovery` composed with drills |
| `PagedKV` | the block pool with its locks, and the defragmenter |
| `ContinuousBatching` | engine, scheduler, preemption and the blocks they hold |
| `ServerBreaker` | the circuit breaker in front of the API |
| `HAElection_proofs`, `LayerRedistribution_proofs`, `LayerOwnership_proofs`, `NodeRecovery_proofs`, `PagedKV_proofs`, `ContinuousBatching_proofs`, `ServerBreaker_proofs` | theorems |
| `MCHAElection`, `MCLayerOwnership`, `MCNodeRecovery`, `MCRecoveryDrill`, `MCPagedKV`, `MCContinuousBatching`, `MCServerBreaker` | instances for TLC |

### HAElection

Variables are the fields of `RayFaultTolerance` per coordinator, what its thread is
doing (`pc`, `todo`, `target`), and the network (`request`, `reply`, `cut`). Each
critical section under `_lock` is one action: `SendProbe` reads the payload,
`HandleHeartbeat` is the whole of `handle_heartbeat_request`, `ProbeReply` what
follows the transport's return, `RoundWithoutQuorum` and `RoundElects` the closing
section of a round. A request may be handled after its sender gave up on it, or
crashed. `Crash` loses everything, as `save_election_state` has no caller.

Abstractions: ids are numbers with the order of the strings; time is a set of peers
not heard of for `election_timeout_s`, which grows for unreachable peers freely and
for reachable ones at the price of a fault; the replicated state in heartbeats,
empty in practice, is left out; one heartbeat is in flight per ordered pair. The
HTTP endpoint nests the answer under `"peer"`, so a prober finds no `"term"` in it;
a transport that returns the handler's dict does show it. `TermInReply` selects.
Either transport dials host and port, so a peer known only from its own heartbeats
(host `""`, port 0) cannot be probed.

### LayerRedistribution and LayerOwnership

`ComputeRedistributions` gives the plans `compute_redistributions` can return. It
is a set because the largest-remainder split breaks ties between equal remainders
by the rounding of a float division; otherwise it has one element. Ranges are not
empty. `LayerOwnership` has the manager's topology and its set of pending weight
loads; `Fail` is step 5 of a recovery. The capacity-aware planner has no caller in
the code and is left out.

### NodeRecovery and RecoveryDrill

The steps of `_on_node_failure_impl` are separate actions wherever another thread
can come in between: `Enter` or `Refuse`, `Drain`, `SnapshotSequences`,
`RecoverSequences`, `MarkDead`, `Plan`, `Dispatch`, one `Apply` per survivor and
thread, `Finish`. `calls` holds the calls waiting for the serializer. A probe is
`BeginCycle`, `HealthCheck`, `Evaluate`, and then the recovery it may wait for; a
removed node is probed to the end through an orphaned object. `dead` stands for
`_dead_nodes` and `_draining`, which always change together. Counters of a
`HealthRecord` saturate where no comparison tells values apart. Two constants stand
for how the manager is set up, because the tests and the shipped code differ:
`ProbesNodes` (the pipeline has `snapshot_nodes()` and clients) and `Topology` (what
`set_layer_assignments` was given). The coordinator's callbacks and the ones the
health manager installs by default do the same to the modelled state.

Left out: metrics, history and logs, circuit breaker and reputation updates (none
of them is read by the modelled code), contents of checkpoints and their writing
to disk, `stop()`.

`RecoveryDrill` adds a drill that sets `_dry_run`, calls `on_node_failure` on a
synthetic node and restores the flag.

### PagedKV

`free`, `ref`, `filled` and `table` are the manager's fields; `call` says what call
each thread is in and so which shard locks it holds. `allocate_sequence`,
`free_sequence` and `append_token` are two steps: taking the shard (`Begin`), and
the work under `_lock`, which fails or succeeds in one of several ways (`Allocate`,
`AllocateFails`, `FreeSequence`, `AppendInBlock`, `AppendNewBlock`, `AppendRaises`,
`AppendExhausted`). `copy_on_write` is `BeginCopy`, `CopyTable` and one
`CountReference` per block: it never takes `_lock`, so all other calls come in
between. A single `ref_count += 1` is atomic in CPython, which switches threads at
calls and backward jumps only. A compaction is `DefragPlan`, `DefragSwap` for every
sequence in the upper tiers, and `DefragMove`, holding `_lock` throughout.

Abstractions: tensors are left out, `filled` stands for the contents of a block;
which free blocks an allocation prefers is open; how many tokens an allocation is
for is open; the cooldown of recently moved blocks is any subset of the moves;
`max_blocks_per_pass` has its default (unlimited). Swapping to the CPU changes none
of the modelled state, only the locks it takes matter. `append_token` and `reset`
are called by tests only; `reset` is modelled as they use it, with no copy under way.

Nothing keeps a `copy_on_write` from running while a compaction is between its plan
and its moves: the one takes shard locks, the other `_lock`. The history variable
`overlapped` records that references were copied in that time, by a copy that was
already counting when the plan was made or one that copied its table after it.

* Whatever overlaps, types are kept and the planned moves stay possible
  (`PlanStaysFeasible`): frees, allocations and appends wait for `_lock`.
* Until the first overlap no block is freed, written or moved under somebody else
  (`NoUseAfterFree`, `ReferencesCovered`, `PrivateWrites`, `CompactionKeepsViews`).
* With an overlap the defragmenter's claim that shared blocks are not moved fails
  (`MovesOnlyUnshared`, run `paged_overlap`): the moved block gets the planned count 1
  while two tables name it. After that the next free releases a block in use, so the
  four properties above cannot hold any longer and nothing more is claimed.

After an overlap the code can do still more than the model: the loop that rewrites the
tables iterates over `_seq_blocks` while a copy may add to it, and a copy may store a
list it took before the tables were rewritten. The model makes `DefragMove` and
`CopyTable` one step each; as all claims about states after an overlap are about types
and plans, which neither of these touches, that grain is fine enough for them.

### ContinuousBatching

`Add` and `AddRefused` drain one request from the queue into the heap; `Gather` is the
preemption and what `_schedule_with_budget` takes over from the active set; `Promote`
is one iteration of `_promote_pending` over the candidate popped from the heap,
`Requeue` the push of one rejected candidate back on it; `BuildBatch` is
`_build_scheduled_batch`, up to the pipeline. Nobody else runs between these: they are
one stretch between two awaits of the engine's task, cut into steps so that each can
be reasoned about without recursion. `Finish` is what follows the pipeline, `step()`
and `_finalize_completed` included, `Wake` the end of a sleep; `Submit`, `Start` and
`Stop` come from callers. A preemption that the policy asks for is a choice, as the
policy's inputs are latencies. The pipeline fails for any subset of the batch, and any
subset of the tokens are stop tokens. Blocks have identities: `held` is the block table
of each request and `free` the pool's free list, so that a block given to two requests
would show.

Requests may have equal priorities, as by default they all do. The heap's entries are
`(priority, counter, Sequence)`, and a comparison that gets as far as the sequences
raises `TypeError`. `entry` holds the counters; whether a heap operation meets a tied
pair depends on the heap's shape, which is abstracted: `PushRaises` and `PopRaises`
give the outcomes that are possible, exactly for heaps of up to three entries. A push
that raises leaves its entry in the heap, a pop that raises takes it off; the loop logs
the error and sleeps (`Add`, `PromoteRaises`, `Requeue`), and whatever
`_promote_pending` held in its local list then is in `lost`. `ordered` says whether the
heap still is one; if not, any entry may be popped.

What the code does and the model keeps: a failed request stays active and is run
on until it would have been complete; a failed block allocation admits the request
without blocks; a request admitted again allocates over its old table; the last chunk
of a prompt is run as a decode; entries of `_preempted` are not removed when their
request ends; the engine restarted has its old scheduler.

Abstractions: memory pressure is low, so budgets are constant; decode slots are not
scarcer than batch slots; a drain takes the whole queue (`_max_queue_drain` is not
reached); the slack of 0.3 is taken exactly, not as a float. The KV manager has no
`pool` attribute, so the scheduler's check for 90% of the pool never applies.
`restore_preempted` and `promote_request` have no caller in the engine. Every request
is submitted once, and fits the budget of an iteration with room for the running decodes
(`BatchAssumption`); one that does not is never admitted by the code.

### ServerBreaker

`request` says for every caller whether its request is a probe of the HALF_OPEN
phase under way or any other that runs; the breaker does not know the difference,
the properties do. `Allow` is `allow_request`, with the lazily noticed cooldown
(`AdmitFirstProbe`); `End` is the recording of a result, split by state and outcome;
`Observe` is `state`, `is_open()` or `stats()`. Time is `cooled` and the choice of how
many of the oldest results are pruned. Requests fail only while the service is not
healthy, and may succeed then too. `strays` and `streak` are history variables.
`ProbeLimit` is the limit as the docstring states it, which the code does not keep (run
`breaker_probes`); `ProbesBounded` is the one it does keep. A task that is cancelled
records nothing and would keep its slot; requests are only cancelled by the end of the
server, so this is left out.

## Runs

| Run | Result | Instance |
|---|---|---|
| `ha` | holds | 3 coordinators, 1 not configured with 3, answers carry terms, 5 terms (2 while a link is cut), 1 fault |
| `ha_split_brain` | violated | 3 coordinators, 2 terms, 1 fault |
| `redistribution` | holds | all topologies of 4 nodes over 5 layers |
| `recovery` | holds | 3 workers on 5 layers; 1 outage, 1 straggler, 1 registration |
| `recovery_liveness` | holds | 2 workers, 1 request; 1 outage, 1 straggler |
| `recovery_drill` | violated | 2 workers, 1 drill |
| `paged` | holds | 2 threads, 3 sequences on 2 shards, 3 blocks of 2 tokens |
| `paged_overlap` | violated | the same |
| `batch` | holds | 4 requests, 3 of one priority, 2 slots, 1 block, 1 preemption, heap of 3 |
| `batch_ties` | violated | 3 requests of one priority, 1 slot, 1 block, 1 preemption |
| `breaker` | holds | 4 callers, threshold 2, 2 slots, 3 successes, window of 3 |
| `breaker_probes` | violated | the same |

What the passing runs show:

* `LeaderHasQuorum`, `LeaderOutranksOnline`, `TenureIsOneTerm`: what a coordinator
  can rely on about itself, under any interleaving and an arbitrary fault. In
  `ha` coordinator 1 learns of 3 by its heartbeats alone, so peers that do
  not count in the quorum's size occur.
* `LeadershipSettles`: after a fault anywhere, leadership ends with the lowest
  running id if it has a quorum, and with nobody otherwise.
* `DisjointKept`, `CoverageKept`, `OrphansAdopted`, `GainsFlagged`: what a failure
  never does to a topology. `GainsFlagged` is about topologies without gaps: over a
  gap the left neighbour takes the gap's layers without being flagged.
* `DeadIsOut`, `PipelineMatchesTopology`, `PipelineServesModel`: between recoveries
  the dead are out of the pipeline, the pipeline's ranges are the cached ones, and
  every layer is served once, by the nodes that were not registered anew. A node
  registered anew brings its configured range with it and overlaps those who had
  absorbed it; that is why these are stated for the others.
* `OwnershipSpec`: `NodeRecovery` implements `LayerOwnership` under the mapping
  that takes `assignments` and `pending` as they are.
* `FailedNodeLeaves`: a worker that stops answering for good is removed.

* `PlanStaysFeasible`: whatever runs between a compaction's plan and its moves, each
  move still goes from a block in use to a free one, and no two of them meet.
* `NoUseAfterFree`, `ReferencesCovered`, `PrivateWrites`: until a copy overlaps a
  compaction, no interleaving of half counted copies with frees, appends, allocations
  and compactions frees a block in use or writes a shared one. The source's own
  reference, which its shard lock keeps in place, protects a block until the copy has
  counted it.
* `CompactionKeepsViews`: until then a compaction is invisible to the sequences.
* `NoRequestLost`, `TiesNeedPreemption`, `SlotsRespected`, `BlocksReturned`,
  `DecodesWithCache`, `EveryRequestAnswered`: every submitted request is in one place
  and is answered, with two exceptions. One that `add()` refused at the heap's limit
  while the queue was drained is nowhere, and its caller waits until the engine stops.
  And once a heap operation raises, requests can be lost and none need be answered;
  `TiesNeedPreemption` says that this cannot happen before the first preemption.
  `BlocksReturned` balances the pool only until the first preemption, because a request
  admitted again leaks the blocks of its first table. `DecodesWithCache` excepts
  critical and high requests whose long prompt fits one enlarged chunk: that chunk is
  run as a decode without a cache and fails.
* `NoSlotLost`, `ProbesBounded`, `TripJustified`, `HealsWhenHealthy`: the breaker
  under requests that outlive its phases. `ProbesBounded` is what is left of "at most
  `half_open_max_calls` concurrent probe requests": one more probe may run for each
  request from before the phase that has ended in it.

What the violated ones show is in the findings of `PROJECT.json`, with the lines
they contradict:

* `ha_split_brain`: two leaders in one term.
* `recovery_drill`: a drill switches off a real recovery.
* `paged_overlap`: a copy counts a block between the plan and the moves of a
  compaction, in eight states; the moved block gets the planned count and the copy's
  reference is lost.
* `batch_ties`: three requests of the default priority, one of them preempted. The
  counter of its new heap entry is used again by the next `add()`, the heap raises when
  it compares the two, and from then on every iteration raises when it pushes the
  rejected pair back: no batch is built and the callers wait until the engine stops.
* `breaker_probes`: a request admitted in CLOSED ends in HALF_OPEN and releases a slot
  it never took; three probes run with two slots. A request may last 300 s, the
  cooldown is 30 s.

Other disagreements the models show under TLC, with no run kept for them (each
needs only other constants or a line of TLA+):

* With nobody up at first (`Booted = {}`), the first coordinator elects itself before
  it has contacted anyone: configured peers count as online (`core/ha_coordinator.py`
  line 164, against the comment at line 413).
* The probe loop calls `snapshot_nodes()`, which the `PipelineOrchestrator` it is
  given does not have (`core/health_manager.py` line 303), so no node is ever probed
  in the shipped program: with `ProbesNodes = FALSE`, `FailedNodeLeaves` is violated.
* No code outside the tests calls `set_layer_assignments`; with an empty `Topology`
  the layers of a removed node go to nobody and `PipelineServesModel` is violated.
* A node removed as a straggler while HEALTHY, registered again and then failing
  is refused (`dist/recovery.py` line 955) and stays for ever: `FailedNodeLeaves`
  without the exception for `rejoined` is violated.
* Checkpoints are replayed (step 3) after the failed node is marked unhealthy and
  before its layers have a new owner (step 5), that is without its layers.
* A prompt of three chunks or more is prefilled again after its first token.
* Two copies in opposite directions take the two shard locks in opposite order
  (`backends/paged_attention.py` line 458) and wait for each other for ever, against the
  lock order of lines 143-146: `paged` without `CHECK_DEADLOCK FALSE` reports it in three
  states. A tiered compaction, which takes shards while it holds `_lock`
  (`core/memory_defragmenter.py` line 530), is another way to it.
* A low request is never scheduled while more important ones keep coming
  (`core/batch_scheduler.py` lines 791-800, against lines 447-449): its aged priority is
  computed and orders nothing. This needs requests that are submitted again, a line
  more in `Finish`.

Bounds. Three coordinators are the least number in which a minority and a third
party exist; one fault of any kind already reaches every branch, and `MaxTerm`
leaves room for the terms one fault can cause. While a link is cut, two
coordinators can outbid each other's terms through the third for ever, so
elections in that time are bounded apart (`MaxCutTerm`); the cut ends by fairness.
Three workers give a failed node two neighbours and, after a second failure, none
on one side; five layers make shares uneven. Thresholds are 2 failures for
UNHEALTHY and 3 for OFFLINE, the least that are different from each other and from
1. In `recovery` there are no requests, as checkpoints do not influence the
topology; `recovery_liveness` has one. Two threads are enough for a copy and
whoever interferes with it, three sequences for a source, a destination and a third
that shares a shard with one of them, three blocks for a compaction that moves one
past another; `MaxRef` bounds how often a block is shared. Of the behaviours in which a
copy overlaps a compaction, `paged` follows what happens until that compaction has
moved its blocks (`UntilMoved`): after that only types and plans are left to check,
which the proofs cover without a bound. `ha` passes with `TermInReply = FALSE`, the
shipped transport, too. In `batch`, two slots and one block for four requests, one of
which may be preempted and keep its block, make every resource scarce at once, and
three normal requests are the least with which two tie while one runs; prompts of 4, 6
and 1 tokens with `MaxPrefill = 3` give an enlarged, a two-chunk and an unchunked
prefill, and a budget of 10 is short enough that a preempted request may have to wait.
In `breaker` four callers leave two
outside when both slots are taken, and three successes take more than one round of
probes. `CHECK_DEADLOCK FALSE` in the runs of `PagedKV`: its threads can really block each
other, as said above.

Fairness. Weak fairness for threads that exist as long as their process (election
thread, health loop, probe threads, the thread that runs a recovery), for the
handling of a heartbeat over a link that stays up, for the passing of
`election_timeout_s`, for the end of a health check (its RPC fails if it does not
answer), and for a waiting caller to get a lock that is free. The last is more
than `threading.Lock` promises in principle; with finitely many callers at a time,
each of which must return before it calls again, it is what happens. A cut link
heals eventually. Nothing makes a node fail, answer again or be registered.
`ContinuousBatching`: weak fairness of the engine's loop, as the event loop resumes
its task and every hop of the pipeline has a timeout; nothing makes callers submit or
stop. `ServerBreaker`: clients keep sending, every request ends (the timeout
middleware is inside the breaker), and time passes; nothing makes the service heal.

## Proofs

`HAElection_proofs`, for any coordinators, configuration and bounds, from the named
assumptions of `HAElection`:

* `TypeCorrect`. `TypeOK` is not inductive: an answer must find a target. `ProbeInv`
  adds what a thread knows of its own round.
* `QuorumSafety`. The only step that takes peers offline is the closing section of
  a round, which decides again; the others only add peers. Needs that nobody is its
  own peer and that `online` is finite.
* `Outranking`. A lower id enters `online` by its heartbeat, which makes the leader
  yield at once, or by an answer, in the middle of a round; so the inductive form
  says where in the round such a peer can be.
* `Tenure`, an action property, from the type invariant.

`LayerRedistribution_proofs`, about the planner's operators, for any nodes and layers:

* `AbsorptionSound`: with disjoint ranges only neighbour absorption is used; the two
  extended ranges meet without overlap, stay clear of all others and cover the failed
  one. It rests on `NeighbourExists` (a closest survivor, by the least element of a set
  of naturals) and `ShareBound` (the share lies between 0 and all).
* `RetilingPartitions`: every plan of the full re-partition gives each layer of the
  span to exactly one survivor. `SplitSums` says that the largest-remainder split hands
  out the whole total, and the spans then follow one another in the order of the nodes
  (`PrefixBounded`, `PrefixApart`, `PrefixCovers`). Sums over a set are a fold whose
  order is open; that all orders agree (`SumsAgree`), and so that a sum unfolds
  (`SumUnfolds`), is proved without an induction scheme: `LeastSubset` gives a minimal
  set among the finite ones for which a claim would fail, and one step from it
  contradicts that.
* `PlanSound`: any plan, from any topology, overlapping or not, leaves every survivor a
  non-empty range and every layer of the failed node an owner.

`LayerOwnership_proofs`, for any finite set of nodes, any number of layers, any
topologies given and any sequence of failures:

* `OwnershipTypes` and `OrphansAreAdopted`, from `PlanSound`.
* `FailureKeepsDisjoint`, `FailureKeepsCoverage` and `FailureFlagsGains`, from
  `AbsorptionSound`: the conditions (disjoint before, no gaps) are part of the
  properties.
* `NeverTwoOwners`: if the topologies given are disjoint, the topology always is.

`NodeRecovery_proofs`, for any nodes, layout, thresholds and limits, and any
interleaving of probes, reports, registrations and queued recoveries. `Shape` says
which call is in progress and where; `StepKinds` sorts the actions by what they do to
the recovery's own variables, so that each invariant has a handful of cases.

* `DeadNodesAreOut`. `DeadIsOut` speaks of the moments between recoveries; `DeadInv`
  adds that during one the only dead member is the node it is about, before its
  mark-dead callback.
* `PipelineTracksTopology`, assuming that the manager was given the layout the nodes
  are registered with (`Topology = Layout`). `MatchInv` says that between the plan and
  the last callback the topology is ahead of the pipeline by what is left of the plan.
* `PipelineKeepsModel`, assuming moreover that the layout is that of a whole model
  (`WholeModel`: layers from 0 without a gap). `CoverInv` says that the topology serves
  the layout's layers and lists nobody but members, and until the plan the node just
  removed.
* `RecoveryTypes`, for any topology. `TypeInv` adds that the ranges still to be
  dispatched are ranges, and that a node under probe is in the pipeline or orphaned.
* `RecoveryImplementsOwnership`, for any topology: initial states are initial states
  of `LayerOwnership`; `Plan` is its `Fail`, and every other step is a stutter.

Both assumptions are met by the instances of the runs. Without `Topology = Layout`
the two properties fail, as said above.

`PagedKV_proofs`, for any threads, sequences, blocks and shards:

* `PoolTypes` and `PlansStayFeasible`, whatever overlaps: each call takes `_lock` for
  everything it does to the free list, and a copy changes neither it nor the fill of a
  block. `PlanOneToOne` says that a plan pairs blocks one to one, by ranks in finite sets.
* `PoolInvariant`: `Inv` is inductive until `overlapped` is set, and `overlapped` is
  never reset. `ReferencesCovered` alone is not inductive, as a copy
  in progress has handed out references that are not counted. `CopyInProgress` says
  that both tables of a counting copy are equal and stay so, which needs
  `ShardsExclusive`: both shards are held, so no other call touches either table.
  `PlanIsCurrent` says that a plan describes the pool as it is until its moves are
  done, which is what an overlap breaks, and `FreeIsUncounted` that free blocks have
  count 0. There is a lemma per call and one per phase of a compaction; `LockedStep`
  says what any call under `_lock` does to the copies in progress.
* `CountsCoverReferences` and `NoBlockUsedAfterFree` follow. For the second,
  `HeldIsCounted`: a block in a table is counted there, or in the table it is being
  copied from.
* `WritesArePrivate` and `CompactionIsTransparent`, action properties, from `Inv`.

`ContinuousBatching_proofs`, for any requests, priorities, prompts, needs, budgets and
limits, from `BatchAssumption`:

* `BatchTypes`. `TypeOK` bounds generated tokens and preempted entries, neither of which
  is inductive alone: `GenInv` says that whoever waits or runs has a token left to
  generate, which needs that a request is in one place (`NoRequestLost`), which needs
  that neither the queue nor the rejected list names anybody twice (`QueueInv`).
* `RequestsKept`, along `PlacesStep`: where each action moves a request, the ones in
  which a heap operation raises included.
* `OrderlyUntilPreempted`. `TiesNeedPreemption` is not inductive: `CounterInv` adds
  that before a preemption the counter is ahead of every entry, so that the next one is
  new. `FreshInv` says that a request nobody has submitted yet is nowhere.
* `BatchBounded`: a promotion needs a free slot and nothing else makes a request active.
* `BlocksKept`: a request that is neither running nor preempted holds nothing when it
  is admitted, so overwriting its table leaks nothing before the first preemption.
* `DecodesCached`. `KvInv` says that a request with a token and a waiting caller has
  its cache; `ChunkInv` that a chunked prefill is that of a prompt above `MaxPrefill`
  and that one which was begun has been through the pipeline. An entry of
  `_chunked_prefill` survives a preemption and a stop, so both speak of every request
  and not of the batch only.

`left` (`remain_t`) has no type in `TypeOK`: nothing proved depends on its value.

`ServerBreaker_proofs`, for any callers, thresholds and window:

* `BreakerInvariant`: neither bound on probes is inductive alone. `ProbesAccounted`
  relates slots and probes both ways, up to the strays that released a slot each;
  `StreakCovered` says that the counted streak is no longer than the real one.
* `BreakerTypes`, `SlotsAreProbes`, `ProbesAreBounded`, `TripsAreJustified` follow.

Every safety property of the passing runs, invariants and action properties, is
stated by a theorem, with the exceptions that are part of it (`overlapped`, `lost`,
`refused`). Model-checked only: liveness (`LeadershipSettles`,
`FailedNodeLeaves`, `EveryRequestAnswered`, `HealsWhenHealthy`), as the prover has
neither fairness nor `ENABLED`; and what the violated runs show.

## Not modelled

* State replication, standby promotion, topology consensus, gossip, the distributed
  block pool, pipeline reconfiguration: no part of the program calls them. The
  consensus module's peers are stubs, so there is no protocol to model.
* The split-brain resolver serves the federation of clusters, not the election.
* The contents of checkpoints, their files, and so which node's state a checkpoint
  restores.
* Batching with adapted budgets, and the iteration scheduler.
* Straggler statistics, the API's request plumbing, kernels, sampling, integrations,
  marketplaces, dashboards, SDKs: I/O, numerics or product surface. They are most of
  the repository's lines.

## Plan

1. What can still be said of the pool after a copy has overlapped a compaction, and
   the state in which a proposed fix (a copy that takes `_lock`) would leave it.
2. Lemmas towards liveness that are safety: what a step of a round or of a recovery
   never undoes.
3. The circuit breaker per node of `core/resource_manager.py`, beside the probes.
4. Checkpoint contents and their owners in `NodeRecovery`.
