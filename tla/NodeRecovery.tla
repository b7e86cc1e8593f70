---------------------------- MODULE NodeRecovery ----------------------------
(***************************************************************************)
(* Self-healing of the worker pipeline: HealthManager (core/health_manager.*)
(* py) probes the workers, FailoverEngine (health/failover.py) turns probe *)
(* results into states, and NodeRecoveryManager (dist/recovery.py) takes a *)
(* failed worker out, with the callbacks of Coordinator (core/coordinator. *)
(* py) on the PipelineOrchestrator (dist/pipeline/orchestrator.py).        *)
(*                                                                         *)
(* Threads: one probe thread per node and health cycle, the generation     *)
(* threads (they save checkpoints, and one of them may report a straggler) *)
(* and whoever registers nodes.  Recoveries exclude each other through     *)
(* _recovery_serializer but not the other threads: each section of a       *)
(* recovery between two accesses to shared state is a step here.           *)
(*                                                                         *)
(* Left out: metrics, history, logs; the circuit breaker, reputation and   *)
(* straggler baselines that some handlers also notify and none of them     *)
(* reads; the contents of checkpoints.                                     *)
(***************************************************************************)
EXTENDS LayerRedistribution

CONSTANTS
    Node,               \* the worker nodes
    Layout,             \* the layer ranges they are registered with
    Topology,           \* what set_layer_assignments was given: the tests give it
                        \* the layout; no code calls it, which leaves it empty
    Request,            \* the requests being generated
    Synthetic,          \* the id, of no node, that drills are run on
    None,
    FailureThreshold, OfflineThreshold, RecoveryThreshold,
    ProbesNodes,        \* whether probes reach the nodes: the pipelines of the tests
                        \* have snapshot_nodes() and clients attached to their
                        \* nodes, a bare PipelineOrchestrator has neither
    MaxOutages,         \* bound: times a node stops answering
    MaxReports,         \* bound: stragglers reported
    MaxJoins,           \* bound: nodes registered again
    MaxSweeps           \* bound: rounds of checkpoints

\* Who calls on_node_failure: a probe thread, a generation thread, a drill.
Caller == {"probe", "straggler", "drill"}
Call == [by : Caller, node : Node \cup {Synthetic}]

ASSUME NodeAssumption == Node \subseteq Nat /\ IsFiniteSet(Node)
ASSUME LayoutAssumption == Layout \in [Node -> LayerRange] /\ Disjoint(Layout)
ASSUME TopologyAssumption ==
    DOMAIN Topology \subseteq Node /\ Topology \in [DOMAIN Topology -> LayerRange]
ASSUME IdAssumption == None \notin Node \cup Call /\ Synthetic \notin Node \cup {None}
ASSUME ThresholdAssumption ==
    /\ FailureThreshold \in Nat \ {0} /\ RecoveryThreshold \in Nat \ {0}
    /\ OfflineThreshold \in Nat /\ OfflineThreshold > FailureThreshold

VARIABLES
    answers,       \* the nodes that answer a health check with healthy = True
    state,         \* state[n], fails[n], succs[n]: n's HealthRecord; the counters
    fails,         \* stop where no comparison can tell the difference any more
    succs,
    probe,         \* probe[n]: where n's probe of this health cycle is
    registered,    \* the keys of the pipeline's _nodes
    range,         \* range[n]: start_layer and end_layer of n's PipelineNode
    is_healthy,    \* the registered nodes whose is_healthy is True
    dead,          \* _dead_nodes, and _draining: they always change together
    assignments,   \* _layer_assignments
    pending,       \* _pending_weight_reload
    checkpoint,    \* checkpoint[r]: node_id of r's checkpoint
    sweep,         \* sweep[r]: the nodes r's checkpoint is still to be saved for
    recovered,     \* _recovered_requests
    dry_run,       \* _dry_run
    calls,         \* calls of on_node_failure waiting for the serializer
    active,        \* the call that holds it
    step,          \* how far its recovery has come
    seqs,          \* its recovered_ids
    plan,          \* its redistributions not dispatched yet
    rejoined,      \* history: the nodes registered again, until they are removed
    outages, reports, joins, sweeps    \* counters for the bounds

recordVars == <<state, fails, succs>>
pipelineVars == <<registered, range, is_healthy>>
topologyVars == <<assignments, pending>>
checkpointVars == <<checkpoint, sweep, recovered>>
callVars == <<calls, active, step, seqs, plan>>
boundVars == <<outages, reports, joins, sweeps>>
vars == <<answers, recordVars, probe, pipelineVars, dead, topologyVars,
          checkpointVars, dry_run, callVars, rejoined, boundVars>>

NodeState == {"HEALTHY", "DEGRADED", "UNHEALTHY", "OFFLINE"}
NoPlan == [n \in {} |-> None]

TypeOK ==
    /\ answers \subseteq Node
    /\ state \in [Node -> NodeState]
    /\ fails \in [Node -> 0 .. OfflineThreshold]
    /\ succs \in [Node -> 0 .. RecoveryThreshold]
    /\ probe \in [Node -> {"none", "sent", "orphan", "up", "down", "call"}]
    /\ registered \subseteq Node
    /\ range \in [Node -> LayerRange]
    /\ is_healthy \subseteq registered
    /\ dead \subseteq Node \cup {Synthetic}
    /\ DOMAIN assignments \subseteq Node
    /\ assignments \in [DOMAIN assignments -> LayerRange]
    /\ pending \subseteq Node
    /\ checkpoint \in [Request -> Node \cup {None}]
    /\ sweep \in [Request -> SUBSET Node]
    /\ recovered \subseteq Request
    /\ dry_run \in BOOLEAN
    /\ calls \subseteq Call
    /\ active \in Call \cup {None}
    /\ step \in {"idle", "drain", "snapshot", "recover", "mark_dead", "plan",
                 "dispatch", "apply"}
    /\ seqs \subseteq Request
    /\ DOMAIN plan \subseteq Node
    /\ rejoined \subseteq registered

Init ==
    /\ answers = Node
    /\ state = [n \in Node |-> "OFFLINE"]
    /\ fails = [n \in Node |-> 0]
    /\ succs = [n \in Node |-> 0]
    /\ probe = [n \in Node |-> "none"]
    /\ registered = Node
    /\ range = Layout
    /\ is_healthy = Node
    /\ dead = {}
    /\ assignments = Topology
    /\ pending = {}
    /\ checkpoint = [r \in Request |-> None]
    /\ sweep = [r \in Request |-> {}]
    /\ recovered = {}
    /\ dry_run = FALSE
    /\ calls = {}
    /\ active = None
    /\ step = "idle"
    /\ seqs = {}
    /\ plan = NoPlan
    /\ rejoined = {}
    /\ outages = 0 /\ reports = 0 /\ joins = 0 /\ sweeps = 0

-----------------------------------------------------------------------------
(* The health cycle.                                                       *)

\* A cycle of _health_probe_loop begins once every probe of the last one has
\* returned.  First any checkpoints that have outlived their TTL are evicted; then
\* the nodes are listed, which raises if the pipeline has no snapshot_nodes.
BeginCycle(old) ==
    /\ \A n \in Node : probe[n] = "none"
    /\ checkpoint' = [r \in Request |-> IF r \in old THEN None ELSE checkpoint[r]]
    /\ probe' = [n \in Node |-> IF ProbesNodes /\ n \in registered THEN "sent" ELSE "none"]
    /\ UNCHANGED <<answers, recordVars, pipelineVars, dead, topologyVars, sweep,
                   recovered, dry_run, callVars, rejoined, boundVars>>

\* PipelineNode.health_check: the RPC, and what it leaves in is_healthy.  A node
\* that was removed meanwhile is still probed, through an object nobody reads.
HealthCheck(n) ==
    /\ probe[n] \in {"sent", "orphan"}
    /\ probe' = [probe EXCEPT ![n] = IF n \in answers THEN "up" ELSE "down"]
    /\ is_healthy' = IF probe[n] = "orphan" THEN is_healthy
                     ELSE IF n \in answers THEN is_healthy \cup {n}
                     ELSE is_healthy \ {n}
    /\ UNCHANGED <<answers, recordVars, registered, range, dead, topologyVars,
                   checkpointVars, dry_run, callVars, rejoined, boundVars>>

\* FailoverEngine.evaluate: the state after a probe that succeeded, slow being a
\* latency above the threshold...
AfterSuccess(old, successes, slow) ==
    CASE old = "OFFLINE" -> "DEGRADED"
      [] old = "UNHEALTHY" /\ successes >= RecoveryThreshold -> "DEGRADED"
      [] old = "DEGRADED" /\ successes >= RecoveryThreshold -> "HEALTHY"
      [] old = "HEALTHY" /\ slow -> "DEGRADED"
      [] OTHER -> old

\* Mutant: a node that has failed for long is set to draining.
DrainsAfterFailures(failures) ==
    IF failures >= OfflineThreshold THEN "DRAINING" ELSE "DEGRADED"

\* ... and after one that failed.
AfterFailure(failures) ==
    CASE failures >= OfflineThreshold -> "OFFLINE"
      [] failures >= FailureThreshold /\ failures < OfflineThreshold -> "UNHEALTHY"
      [] OTHER -> "DEGRADED"

\* Mutant: only a node that was healthy is recovered.
CallsRecoveryOfHealthy(old, new) == old = "HEALTHY" /\ new \in {"UNHEALTHY", "OFFLINE"}

\* HealthManager._on_state_change: what the new state makes it do.
CallsRecovery(old, new) == new # old /\ new \in {"UNHEALTHY", "OFFLINE"}
MarksAlive(old, new) ==
    \/ new = "DEGRADED" /\ old \in {"OFFLINE", "UNHEALTHY"}
    \/ new = "HEALTHY" /\ old = "DEGRADED"

\* The rest of _probe_single_node.  The probe thread goes on to wait for the
\* recovery it calls.
Evaluate(n, slow) ==
    LET ok == probe[n] = "up"
        successes == IF ok THEN Smaller(succs[n] + 1, RecoveryThreshold) ELSE 0
        failures == IF ok THEN 0 ELSE Smaller(fails[n] + 1, OfflineThreshold)
        new == IF ok THEN AfterSuccess(state[n], successes, slow) ELSE AfterFailure(failures)
        recovers == CallsRecovery(state[n], new)
    IN  /\ probe[n] \in {"up", "down"}
        /\ state' = [state EXCEPT ![n] = new]
        /\ fails' = [fails EXCEPT ![n] = failures]
        /\ succs' = [succs EXCEPT ![n] = successes]
        /\ dead' = IF MarksAlive(state[n], new) THEN dead \ {n} ELSE dead
        /\ calls' = IF recovers THEN calls \cup {[by |-> "probe", node |-> n]} ELSE calls
        /\ probe' = [probe EXCEPT ![n] = IF recovers THEN "call" ELSE "none"]
        /\ UNCHANGED <<answers, pipelineVars, topologyVars, checkpointVars, dry_run,
                       active, step, seqs, plan, rejoined, boundVars>>

\* _on_straggler_detected with "reassign_layers": a generation thread reports a
\* slow node, and waits in turn.
ReportStraggler(n) ==
    /\ n \in registered /\ reports < MaxReports
    /\ calls' = calls \cup {[by |-> "straggler", node |-> n]}
    /\ reports' = reports + 1
    /\ UNCHANGED <<answers, recordVars, probe, pipelineVars, dead, topologyVars,
                   checkpointVars, dry_run, active, step, seqs, plan, rejoined,
                   outages, joins, sweeps>>

-----------------------------------------------------------------------------
(* A recovery: on_node_failure and _on_node_failure_impl.                  *)

\* The probe thread that made the call goes on to its end.
Returned(c) == IF c.by = "probe" THEN [probe EXCEPT ![c.node] = "none"] ELSE probe

\* The serializer is taken; a node already dead or draining is not recovered.
Refuse(c) ==
    /\ active = None /\ c \in calls /\ c.node \in dead
    /\ calls' = calls \ {c}
    /\ probe' = Returned(c)
    /\ UNCHANGED <<answers, recordVars, pipelineVars, dead, topologyVars, checkpointVars,
                   dry_run, active, step, seqs, plan, rejoined, boundVars>>

\* Step 1, up to the drain callback.
Enter(c) ==
    /\ active = None /\ c \in calls /\ c.node \notin dead
    /\ calls' = calls \ {c}
    /\ active' = c
    /\ step' = "drain"
    /\ dead' = dead \cup {c.node}
    /\ UNCHANGED <<answers, recordVars, probe, pipelineVars, topologyVars, checkpointVars,
                   dry_run, seqs, plan, rejoined, boundVars>>

At(s) == active # None /\ step = s

\* The drain callback: Coordinator._on_node_drain, or HealthManager's own, which
\* leaves the same in is_healthy.
Drain ==
    /\ At("drain")
    /\ step' = "snapshot"
    /\ is_healthy' = IF dry_run THEN is_healthy ELSE is_healthy \ {active.node}
    /\ UNCHANGED <<answers, recordVars, probe, registered, range, dead, topologyVars,
                   checkpointVars, dry_run, calls, active, seqs, plan, rejoined, boundVars>>

\* Step 2.
SnapshotSequences ==
    /\ At("snapshot")
    /\ step' = "recover"
    /\ seqs' = {r \in Request : checkpoint[r] = active.node}
    /\ UNCHANGED <<answers, recordVars, probe, pipelineVars, dead, topologyVars,
                   checkpointVars, dry_run, calls, active, plan, rejoined, boundVars>>

\* Step 3: Coordinator._on_node_recover replays the sequences through the pipeline
\* (and never raises); then they are flagged, and their checkpoints dropped.
RecoverSequences ==
    /\ At("recover")
    /\ step' = "mark_dead"
    /\ recovered' = recovered \cup seqs
    /\ checkpoint' = [r \in Request |-> IF r \in seqs /\ ~dry_run THEN None ELSE checkpoint[r]]
    /\ seqs' = {}
    /\ UNCHANGED <<answers, recordVars, probe, pipelineVars, dead, topologyVars, sweep,
                   dry_run, calls, active, plan, rejoined, boundVars>>

\* Mutant: the node is drained but stays in the pipeline.
KeepNode ==
    /\ At("mark_dead")
    /\ step' = "plan"
    /\ UNCHANGED <<answers, recordVars, probe, pipelineVars, dead, topologyVars,
                   checkpointVars, dry_run, calls, active, seqs, plan, rejoined, boundVars>>

\* Step 4: Coordinator._on_node_mark_dead removes the node from the pipeline.
MarkDead ==
    LET gone == IF dry_run THEN {} ELSE {active.node}
    IN  /\ At("mark_dead")
        /\ step' = "plan"
        /\ registered' = registered \ gone
        /\ is_healthy' = is_healthy \ gone
        /\ rejoined' = rejoined \ gone
        /\ probe' = [n \in Node |-> IF n \in gone /\ probe[n] = "sent" THEN "orphan"
                                    ELSE probe[n]]
        /\ UNCHANGED <<answers, recordVars, range, dead, topologyVars, checkpointVars,
                       dry_run, calls, active, seqs, plan, boundVars>>

\* Mutant: the cached topology is not refreshed.
PlanWithoutRefresh(p) ==
    /\ pending' = pending \cup Flagged(p)
    /\ UNCHANGED assignments

\* Mutant: the survivors' weight loads are not recorded.
PlanWithoutFlags(p) ==
    /\ assignments' = Refreshed(Without(assignments, active.node), p)
    /\ UNCHANGED pending

\* Applying a plan to the manager's own topology: the weight loads it needs are
\* recorded and the cached topology is refreshed.
RefreshTopology(p) ==
    /\ assignments' = Refreshed(Without(assignments, active.node), p)
    /\ pending' = pending \cup Flagged(p)

\* Step 5: the plan.
Plan ==
    /\ At("plan")
    /\ step' = "dispatch"
    /\ \E p \in IF active.node \in DOMAIN assignments
                THEN ComputeRedistributions(Without(assignments, active.node),
                                            assignments[active.node])
                ELSE {NoPlan} :
          /\ plan' = p
          /\ IF DOMAIN p # {} /\ ~dry_run THEN RefreshTopology(p) ELSE UNCHANGED topologyVars
    /\ UNCHANGED <<answers, recordVars, probe, pipelineVars, dead, checkpointVars, dry_run,
                   calls, active, seqs, rejoined, boundVars>>

\* _redistribute_parallel: every redistribution goes to a thread of its own.
Dispatch ==
    /\ At("dispatch")
    /\ step' = "apply"
    /\ plan' = IF dry_run THEN NoPlan ELSE plan
    /\ UNCHANGED <<answers, recordVars, probe, pipelineVars, dead, topologyVars,
                   checkpointVars, dry_run, calls, active, seqs, rejoined, boundVars>>

\* Mutant: the survivor's range is extended to the right only.
ApplyEndOnly(n) == [range EXCEPT ![n].e = plan[n].e]

\* The redistribute callback for one survivor that is in the pipeline: Coordinator.
\* _on_node_redistribute and HealthManager's own assign the same two layers.
ApplyRange(n) == [range EXCEPT ![n] = [s |-> plan[n].s, e |-> plan[n].e]]

Apply(n) ==
    /\ At("apply") /\ n \in DOMAIN plan
    /\ range' = IF n \in registered THEN ApplyRange(n) ELSE range
    /\ plan' = [m \in DOMAIN plan \ {n} |-> plan[m]]
    /\ UNCHANGED <<answers, recordVars, probe, registered, is_healthy, dead, topologyVars,
                   checkpointVars, dry_run, calls, active, step, seqs, rejoined, boundVars>>

\* Steps 6 and 7 record; the serializer is released and the call returns.
Finish ==
    /\ At("apply") /\ DOMAIN plan = {}
    /\ active' = None
    /\ step' = "idle"
    /\ plan' = NoPlan
    /\ probe' = Returned(active)
    /\ UNCHANGED <<answers, recordVars, pipelineVars, dead, topologyVars, checkpointVars,
                   dry_run, calls, seqs, rejoined, boundVars>>

-----------------------------------------------------------------------------
(* The other threads, and the environment.                                 *)

\* A generation loop starts a round of checkpoints over the nodes in order.
BeginSweep(r) ==
    /\ sweep[r] = {} /\ sweeps < MaxSweeps
    /\ sweep' = [sweep EXCEPT ![r] = registered]
    /\ sweeps' = sweeps + 1
    /\ UNCHANGED <<answers, recordVars, probe, pipelineVars, dead, topologyVars, checkpoint,
                   recovered, dry_run, callVars, rejoined, outages, reports, joins>>

\* save_checkpoint for the next node of the round, by layer order.  A request has
\* one checkpoint: it becomes that node's.
SaveCheckpoint(r, n) ==
    /\ n \in sweep[r] /\ \A m \in sweep[r] : range[n].s <= range[m].s
    /\ checkpoint' = [checkpoint EXCEPT ![r] = n]
    /\ sweep' = [sweep EXCEPT ![r] = @ \ {n}]
    /\ UNCHANGED <<answers, recordVars, probe, pipelineVars, dead, topologyVars, recovered,
                   dry_run, callVars, rejoined, boundVars>>

\* register_node, for a node that was removed: a new PipelineNode, with the layers
\* it was configured with.  The recovery manager is not told.
Register(n) ==
    /\ n \notin registered /\ joins < MaxJoins
    /\ registered' = registered \cup {n}
    /\ range' = [range EXCEPT ![n] = Layout[n]]
    /\ is_healthy' = is_healthy \cup {n}
    /\ rejoined' = rejoined \cup {n}
    /\ joins' = joins + 1
    /\ UNCHANGED <<answers, recordVars, probe, dead, topologyVars, checkpointVars, dry_run,
                   callVars, outages, reports, sweeps>>

\* mark_weights_loaded, once an operator has pulled the weights.
MarkWeightsLoaded(n) ==
    /\ n \in pending
    /\ pending' = pending \ {n}
    /\ UNCHANGED <<answers, recordVars, probe, pipelineVars, dead, assignments,
                   checkpointVars, dry_run, callVars, rejoined, boundVars>>

\* A node stops answering, or answers again.
GoDown(n) ==
    /\ n \in answers /\ outages < MaxOutages
    /\ answers' = answers \ {n}
    /\ outages' = outages + 1
    /\ UNCHANGED <<recordVars, probe, pipelineVars, dead, topologyVars, checkpointVars,
                   dry_run, callVars, rejoined, reports, joins, sweeps>>

ComeBack(n) ==
    /\ n \notin answers
    /\ answers' = answers \cup {n}
    /\ UNCHANGED <<recordVars, probe, pipelineVars, dead, topologyVars, checkpointVars,
                   dry_run, callVars, rejoined, boundVars>>

-----------------------------------------------------------------------------
RecoveryStep ==
    \/ Drain
    \/ SnapshotSequences
    \/ RecoverSequences
    \/ MarkDead
    \/ Plan
    \/ Dispatch
    \/ \E n \in Node : Apply(n)
    \/ Finish

ProbeStep(n) == HealthCheck(n) \/ \E slow \in BOOLEAN : Evaluate(n, slow)

Serve(c) == Refuse(c) \/ Enter(c)

GenerationStep ==
    \/ \E r \in Request : BeginSweep(r) \/ \E n \in Node : SaveCheckpoint(r, n)
    \/ \E n \in Node : ReportStraggler(n)

OperatorStep(n) == Register(n) \/ MarkWeightsLoaded(n) \/ GoDown(n) \/ ComeBack(n)

Next ==
    \/ \E old \in SUBSET Request : BeginCycle(old)
    \/ \E n \in Node : ProbeStep(n)
    \/ \E c \in calls : Serve(c)
    \/ RecoveryStep
    \/ GenerationStep
    \/ \E n \in Node : OperatorStep(n)

\* The health loop and its probe threads run, a health check ends (the RPC has a
\* deadline), a released lock goes to a waiting thread, and a recovery's callbacks
\* return.  Nothing makes nodes fail, come back or join.
Fairness ==
    /\ WF_vars(\E old \in SUBSET Request : BeginCycle(old))
    /\ \A n \in Node : WF_vars(ProbeStep(n))
    /\ \A c \in [by : {"probe", "straggler"}, node : Node] : WF_vars(Serve(c))
    /\ WF_vars(RecoveryStep)

Spec == Init /\ [][Next]_vars
FairSpec == Spec /\ Fairness

-----------------------------------------------------------------------------
(* Properties.                                                             *)

\* The nodes that have been in the pipeline since they last counted as dead.
Members == registered \ rejoined
Served(nodes) == UNION {Layers(range[n]) : n \in nodes}

\* Between recoveries no dead node is in the pipeline, unless it was registered
\* again: whatever probes and registrations did during the recovery, its mark-dead
\* callback "removes from pipeline.nodes" the node it is about.
DeadIsOut == active = None => dead \cap Members = {}

\* Between recoveries the pipeline's ranges are those of the cached topology, the
\* one the next failure is planned against: the callbacks that ran in parallel
\* applied the plan the manager had recorded.
PipelineMatchesTopology ==
    active = None =>
        \A n \in Members : n \in DOMAIN assignments /\ range[n] = assignments[n]

\* Between recoveries, after any number of failures, the nodes that remain serve
\* every layer, each by one node.
PipelineServesModel ==
    active = None /\ Members # {} =>
        /\ Served(Members) = Owned(Layout)
        /\ \A n, m \in Members : n # m => Apart(range[n], range[m])

\* With all its steps, interleaved with everything else, a recovery does to the
\* topology what LayerOwnership says a failure does in one step.
Ownership == INSTANCE LayerOwnership WITH Layouts <- {Topology}
OwnershipSpec == Ownership!Spec

\* A node of the pipeline that stops answering for good is taken out of it.
FailedNodeLeaves ==
    \A n \in Node :
        n \in Members \ answers ~> n \notin registered \/ n \in answers \cup rejoined
=============================================================================
