------------------------- MODULE NodeRecovery_proofs -------------------------
(***************************************************************************)
(* Proofs about NodeRecovery, for any nodes, layers, requests and bounds   *)
(* and any interleaving of probes, recoveries, generation and operators.   *)
(***************************************************************************)
EXTENDS NodeRecovery, LayerRedistribution_proofs

-----------------------------------------------------------------------------
(* The kinds of step, as far as the pipeline and the topology are concerned.*)

\* What the invariants below are about.
core == <<registered, range, dead, assignments, plan, active, step, rejoined, dry_run>>

\* A probe finds a dead node alive: only the dead set shrinks.
Revive ==
    /\ dead' \subseteq dead
    /\ UNCHANGED <<registered, range, assignments, plan, active, step, rejoined, dry_run>>

\* The recovery goes on, up to the mark-dead callback.
Advance ==
    /\ \/ step = "drain" /\ step' = "snapshot"
       \/ step = "snapshot" /\ step' = "recover"
       \/ step = "recover" /\ step' = "mark_dead"
    /\ UNCHANGED <<registered, range, dead, assignments, plan, active, rejoined, dry_run>>

\* Every step that is not one of a recovery or a registration leaves the core alone,
\* but for probes that mark a node alive.
LEMMA StepKinds ==
    ASSUME [Next]_vars
    PROVE  \/ UNCHANGED core
           \/ Revive
           \/ Advance
           \/ \E c \in calls : Enter(c)
           \/ MarkDead
           \/ Plan
           \/ Dispatch
           \/ \E n \in Node : Apply(n)
           \/ Finish
           \/ \E n \in Node : Register(n)
<1> USE DEF core, pipelineVars, topologyVars, callVars
<1>1. CASE UNCHANGED vars
    BY <1>1 DEF vars
<1>2. ASSUME NEW old \in SUBSET Request, BeginCycle(old) PROVE UNCHANGED core
    BY <1>2 DEF BeginCycle
<1>3. ASSUME NEW n \in Node, HealthCheck(n) PROVE UNCHANGED core
    BY <1>3 DEF HealthCheck
<1>4. ASSUME NEW n \in Node, NEW slow \in BOOLEAN, Evaluate(n, slow) PROVE Revive
    BY <1>4 DEF Evaluate, Revive
<1>5. ASSUME NEW c \in calls, Refuse(c) PROVE UNCHANGED core
    BY <1>5 DEF Refuse
<1>6. CASE Drain
    BY <1>6 DEF Drain, At, Advance
<1>7. CASE SnapshotSequences
    BY <1>7 DEF SnapshotSequences, At, Advance
<1>8. CASE RecoverSequences
    BY <1>8 DEF RecoverSequences, At, Advance
<1>9. CASE GenerationStep
    BY <1>9 DEF GenerationStep, BeginSweep, SaveCheckpoint, ReportStraggler
<1>10. ASSUME NEW n \in Node, OperatorStep(n) PROVE UNCHANGED core \/ Register(n)
    BY <1>10 DEF OperatorStep, MarkWeightsLoaded, GoDown, ComeBack
<1> QED BY <1>1, <1>2, <1>3, <1>4, <1>5, <1>6, <1>7, <1>8, <1>9, <1>10
        DEF Next, ProbeStep, Serve, RecoveryStep

-----------------------------------------------------------------------------
(* The shape of the state, whatever topology the manager was given.         *)

\* Without a drill, the calls are about nodes and nothing is a dry run.
RealCall == [by : {"probe", "straggler"}, node : Node]

Steps == {"idle", "drain", "snapshot", "recover", "mark_dead", "plan", "dispatch", "apply"}

Shape ==
    /\ registered \subseteq Node
    /\ rejoined \subseteq registered
    /\ range = [n \in Node |-> range[n]]
    /\ calls \subseteq RealCall
    /\ active \in RealCall \cup {None}
    /\ step \in Steps
    /\ step = "idle" <=> active = None
    /\ dry_run = FALSE
    /\ DOMAIN assignments \subseteq Node
    /\ DOMAIN plan \subseteq Node

\* A real call is none of the ids that stand for no call or no node.
LEMMA RealCalls ==
    /\ RealCall \subseteq Call
    /\ \A c \in RealCall : c # None /\ c.node \in Node /\ c.by \in {"probe", "straggler"}
<1>1. RealCall \subseteq Call
    BY DEF RealCall, Call, Caller
<1> QED BY <1>1, IdAssumption DEF RealCall

\* compute_redistributions names survivors only.
LEMMA PlanDomain ==
    ASSUME NEW survivors, NEW failed, NEW p \in ComputeRedistributions(survivors, failed)
    PROVE  DOMAIN p \subseteq DOMAIN survivors
<1>1. CASE DOMAIN survivors = {}
    BY <1>1 DEF ComputeRedistributions
<1>2. CASE DOMAIN survivors # {} /\ CleanTiling(survivors, failed)
    <2>1. p = Absorption(survivors, failed)
        BY <1>2 DEF ComputeRedistributions
    <2> QED BY <2>1 DEF Absorption, Left, Right
<1>3. CASE DOMAIN survivors # {} /\ ~ CleanTiling(survivors, failed)
    <2> DEFINE weights == [n \in DOMAIN survivors |-> Size(survivors[n])]
    <2>1. p \in Retilings(survivors, failed)
        BY <1>3 DEF ComputeRedistributions
    <2>2. ASSUME NEW total, NEW counts \in LargestRemainderSplits(total, weights)
          PROVE  Receivers(counts) \subseteq DOMAIN survivors
        <3>1. DOMAIN counts = DOMAIN weights
            BY DEF LargestRemainderSplits
        <3> QED BY <3>1 DEF Receivers
    <2>3. \E total : \E counts \in LargestRemainderSplits(total, weights) :
              DOMAIN p = Receivers(counts)
        BY <2>1, Zenon DEF Retilings
    <2> QED BY <2>2, <2>3
<1> QED BY <1>1, <1>2, <1>3

\* Callers are probes and generation threads, each of a node.
LEMMA CallsStep == ASSUME Shape, [Next]_vars PROVE calls' \subseteq RealCall
<1> USE DEF Shape, callVars
<1>1. CASE UNCHANGED vars
    BY <1>1 DEF vars
<1>2. ASSUME NEW old \in SUBSET Request, BeginCycle(old) PROVE UNCHANGED calls
    BY <1>2 DEF BeginCycle
<1>3. ASSUME NEW n \in Node, HealthCheck(n) PROVE UNCHANGED calls
    BY <1>3 DEF HealthCheck
<1>4. ASSUME NEW n \in Node, NEW slow \in BOOLEAN, Evaluate(n, slow)
      PROVE  calls' \subseteq RealCall
    <2>1. calls' \subseteq calls \cup {[by |-> "probe", node |-> n]}
        BY <1>4 DEF Evaluate
    <2> QED BY <2>1 DEF RealCall
<1>5. ASSUME NEW c \in calls, Serve(c) PROVE calls' \subseteq calls
    BY <1>5 DEF Serve, Refuse, Enter
<1>6. CASE RecoveryStep
    BY <1>6 DEF RecoveryStep, Drain, SnapshotSequences, RecoverSequences, MarkDead, Plan,
                Dispatch, Apply, Finish
<1>7. CASE GenerationStep
    BY <1>7 DEF GenerationStep, BeginSweep, SaveCheckpoint, ReportStraggler, RealCall
<1>8. ASSUME NEW n \in Node, OperatorStep(n) PROVE UNCHANGED calls
    BY <1>8 DEF OperatorStep, Register, MarkWeightsLoaded, GoDown, ComeBack
<1> QED BY <1>1, <1>2, <1>3, <1>4, <1>5, <1>6, <1>7, <1>8 DEF Next, ProbeStep

\* What a plan step does to the topology.
LEMMA PlanStep ==
    ASSUME Shape, Plan
    PROVE  LET survivors == Without(assignments, active.node)
           IN  \/ /\ UNCHANGED topologyVars
                  /\ plan' = NoPlan
                  /\ active.node \notin DOMAIN assignments
               \/ /\ active.node \in DOMAIN assignments
                  /\ plan' \in ComputeRedistributions(survivors, assignments[active.node])
                  /\ DOMAIN plan' = {}
                  /\ UNCHANGED topologyVars
               \/ /\ active.node \in DOMAIN assignments
                  /\ plan' \in ComputeRedistributions(survivors, assignments[active.node])
                  /\ DOMAIN plan' # {}
                  /\ assignments' = Refreshed(survivors, plan')
                  /\ pending' = pending \cup Flagged(plan')
<1> DEFINE plans == IF active.node \in DOMAIN assignments
                    THEN ComputeRedistributions(Without(assignments, active.node),
                                                assignments[active.node])
                    ELSE {NoPlan}
<1>1. PICK p \in plans :
          /\ plan' = p
          /\ IF DOMAIN p # {} /\ ~dry_run THEN RefreshTopology(p) ELSE UNCHANGED topologyVars
    BY DEF Plan
<1>2. IF DOMAIN plan' # {} THEN RefreshTopology(plan') ELSE UNCHANGED topologyVars
    BY <1>1 DEF Shape
<1>3. CASE active.node \in DOMAIN assignments
    BY <1>1, <1>2, <1>3 DEF RefreshTopology
<1>4. CASE active.node \notin DOMAIN assignments
    <2>1. plan' = NoPlan
        BY <1>1, <1>4
    <2>2. DOMAIN plan' = {}
        BY <2>1 DEF NoPlan
    <2> QED BY <1>2, <1>4, <2>1, <2>2
<1> QED BY <1>3, <1>4

LEMMA ShapeStep == Shape /\ [Next]_vars => Shape'
<1> SUFFICES ASSUME Shape, [Next]_vars PROVE Shape'
    OBVIOUS
<1> USE DEF Shape, pipelineVars, topologyVars, At
<1>0. calls' \subseteq RealCall
    BY CallsStep
<1>1. CASE UNCHANGED core
    BY <1>0, <1>1 DEF core
<1>2. CASE Revive
    BY <1>0, <1>2 DEF Revive
<1>3. CASE Advance
    BY <1>0, <1>3 DEF Advance, Steps
<1>4. ASSUME NEW c \in calls, Enter(c) PROVE Shape'
    BY <1>0, <1>4, RealCalls DEF Enter, Steps
<1>5. CASE MarkDead
    BY <1>0, <1>5 DEF MarkDead, Steps
<1>6. CASE Plan
    <2>1. DOMAIN assignments' \subseteq Node /\ DOMAIN plan' \subseteq Node
        <3>1. DOMAIN Without(assignments, active.node) \subseteq Node
            BY DEF Without
        <3>2. DOMAIN NoPlan = {}
            BY DEF NoPlan
        <3> DEFINE survivors == Without(assignments, active.node)
        <3>3. ASSUME NEW p \in ComputeRedistributions(survivors, assignments[active.node])
              PROVE  DOMAIN p \subseteq Node
            BY <3>1, PlanDomain
        <3>4. \A p : DOMAIN Refreshed(survivors, p) = DOMAIN survivors
            BY DEF Refreshed
        <3> HIDE DEF survivors
        <3>5. \/ UNCHANGED assignments /\ plan' = NoPlan
              \/ /\ plan' \in ComputeRedistributions(survivors, assignments[active.node])
                 /\ UNCHANGED assignments \/ assignments' = Refreshed(survivors, plan')
            BY <1>6, PlanStep DEF survivors
        <3> QED BY <3>1, <3>2, <3>3, <3>4, <3>5 DEF survivors
    <2> QED BY <1>0, <1>6, <2>1 DEF Plan, Steps
<1>7. CASE Dispatch
    BY <1>0, <1>7 DEF Dispatch, Steps
<1>8. ASSUME NEW n \in Node, Apply(n) PROVE Shape'
    <2>1. range' = [m \in Node |-> range'[m]]
        BY <1>8 DEF Apply, ApplyRange
    <2> QED BY <1>0, <1>8, <2>1 DEF Apply
<1>9. CASE Finish
    <2>1. DOMAIN plan' = {}
        BY <1>9 DEF Finish, NoPlan
    <2> QED BY <1>0, <1>9, <2>1 DEF Finish, Steps
<1>10. ASSUME NEW n \in Node, Register(n) PROVE Shape'
    <2>1. range' = [m \in Node |-> range'[m]]
        BY <1>10 DEF Register
    <2> QED BY <1>0, <1>10, <2>1 DEF Register, callVars
<1> QED BY <1>1, <1>2, <1>3, <1>4, <1>5, <1>6, <1>7, <1>8, <1>9, <1>10, StepKinds

LEMMA ShapeInit == Init => Shape
BY LayoutAssumption, TopologyAssumption DEF Init, Shape, Steps, NoPlan

-----------------------------------------------------------------------------
(* Dead nodes.                                                              *)

\* The members of the pipeline change in one place: a recovery's mark-dead callback
\* takes its node out.  A node registered again is no member.
LEMMA MembersStep ==
    ASSUME Shape, [Next]_vars
    PROVE  Members' = IF MarkDead THEN Members \ {active.node} ELSE Members
<1> USE DEF Shape, Members, pipelineVars, callVars, At
<1>1. CASE MarkDead
    BY <1>1 DEF MarkDead
<1>2. CASE ~ MarkDead
    <2>1. ASSUME NEW c \in calls, Enter(c) PROVE Members' = Members
        BY <2>1 DEF Enter
    <2>2. ASSUME NEW n \in Node, Apply(n) PROVE Members' = Members
        BY <2>2 DEF Apply
    <2>3. ASSUME NEW n \in Node, Register(n) PROVE Members' = Members
        BY <2>3 DEF Register
    <2> QED BY <1>2, <2>1, <2>2, <2>3, StepKinds
            DEF core, Revive, Advance, Plan, Dispatch, Finish
<1> QED BY <1>1, <1>2

\* A dead node is still a member only while its own recovery has not come to the
\* mark-dead callback.
DeadInv ==
    \A n \in dead \cap Members :
        active # None /\ active.node = n /\ step \in {"drain", "snapshot", "recover", "mark_dead"}

LEMMA DeadStep == Shape /\ DeadInv /\ [Next]_vars => DeadInv'
<1> SUFFICES ASSUME Shape, DeadInv, [Next]_vars PROVE DeadInv'
    OBVIOUS
<1>0. Members' = IF MarkDead THEN Members \ {active.node} ELSE Members
    BY MembersStep
<1>1. CASE UNCHANGED core
    BY <1>0, <1>1 DEF core, DeadInv
<1>2. CASE Revive
    BY <1>0, <1>2 DEF Revive, DeadInv
<1>3. CASE Advance
    BY <1>0, <1>3 DEF Advance, DeadInv
<1>4. ASSUME NEW c \in calls, Enter(c) PROVE DeadInv'
    <2>1. dead \cap Members = {}
        BY <1>4 DEF Enter, DeadInv
    <2>2. dead' = dead \cup {c.node} /\ active' = c /\ step' = "drain" /\ c # None
        BY <1>4, RealCalls DEF Enter, Shape
    <2>3. Members' \subseteq Members
        BY <1>0
    <2> QED BY <2>1, <2>2, <2>3 DEF DeadInv
<1>5. CASE MarkDead
    <2>1. UNCHANGED <<dead, active>> /\ Members' = Members \ {active.node}
        BY <1>0, <1>5 DEF MarkDead, callVars
    <2> QED BY <2>1 DEF DeadInv
<1>6. CASE Plan \/ Dispatch \/ Finish \/ \E n \in Node : Apply(n)
    <2>1. dead' = dead /\ step \in {"plan", "dispatch", "apply"}
        BY <1>6 DEF Plan, Dispatch, Finish, Apply, At
    <2>2. Members' \subseteq Members
        BY <1>0
    <2> QED BY <2>1, <2>2 DEF DeadInv
<1>7. ASSUME NEW n \in Node, Register(n) PROVE DeadInv'
    <2>1. UNCHANGED <<dead, active, step>>
        BY <1>7 DEF Register, callVars
    <2>2. Members' \subseteq Members
        BY <1>0
    <2> QED BY <2>1, <2>2 DEF DeadInv
<1> QED BY <1>1, <1>2, <1>3, <1>4, <1>5, <1>6, <1>7, StepKinds

\* Whatever topology the manager was given, and whatever probes, stragglers and
\* registrations come between the steps of a recovery, no recovery ends with its
\* node still in the pipeline.
THEOREM DeadNodesAreOut == Spec => []DeadIsOut
<1>1. Init => Shape /\ DeadInv
    BY ShapeInit DEF Init, DeadInv
<1>2. Shape /\ DeadInv => DeadIsOut
    BY DEF DeadInv, DeadIsOut
<1> QED BY <1>1, <1>2, ShapeStep, DeadStep, PTL DEF Spec

-----------------------------------------------------------------------------
(* The pipeline and the cached topology, when set_layer_assignments was     *)
(* given the layout the nodes are registered with.                          *)

Ranges(p) == [n \in DOMAIN p |-> [s |-> p[n].s, e |-> p[n].e]]

\* Between the plan and the last callback the topology is ahead of the pipeline,
\* by what is left of the plan; and the plan is made without the failed node.
MatchInv ==
    /\ \A n \in Members :
          /\ n \in DOMAIN assignments
          /\ assignments[n] = IF step \in {"dispatch", "apply"} /\ n \in DOMAIN plan
                              THEN Ranges(plan)[n] ELSE range[n]
    /\ step = "plan" => active.node \notin Members

LEMMA MatchStep == Shape /\ MatchInv /\ [Next]_vars => MatchInv'
<1> SUFFICES ASSUME Shape, MatchInv, [Next]_vars PROVE MatchInv'
    OBVIOUS
<1>0. Members' = IF MarkDead THEN Members \ {active.node} ELSE Members
    BY MembersStep
<1>1. CASE UNCHANGED core
    BY <1>0, <1>1 DEF core, MatchInv, Ranges
<1>2. CASE Revive
    BY <1>0, <1>2 DEF Revive, MatchInv, Ranges
<1>3. CASE Advance
    BY <1>0, <1>3 DEF Advance, MatchInv
<1>4. ASSUME NEW c \in calls, Enter(c) PROVE MatchInv'
    <2>1. /\ step = "idle" /\ step' = "drain"
          /\ UNCHANGED <<assignments, range>>
        BY <1>4 DEF Enter, Shape, pipelineVars, topologyVars
    <2>2. Members' \subseteq Members
        BY <1>0
    <2> QED BY <2>1, <2>2 DEF MatchInv
<1>5. CASE MarkDead
    <2>1. /\ step = "mark_dead" /\ step' = "plan"
          /\ UNCHANGED <<assignments, range, active>>
          /\ Members' = Members \ {active.node}
        BY <1>0, <1>5 DEF MarkDead, At, topologyVars
    <2> QED BY <2>1 DEF MatchInv
<1>6. CASE Plan
    <2> DEFINE survivors == Without(assignments, active.node)
    <2>1. /\ step = "plan" /\ step' = "dispatch" /\ UNCHANGED <<range, active>>
          /\ Members' \subseteq Members
        BY <1>0, <1>6 DEF Plan, At, pipelineVars
    <2>2. \A n \in Members : /\ n \in DOMAIN survivors
                             /\ survivors[n] = assignments[n]
                             /\ assignments[n] = range[n]
        BY <2>1 DEF MatchInv, Without
    <2>3. CASE UNCHANGED assignments /\ DOMAIN plan' = {}
        BY <2>1, <2>2, <2>3 DEF MatchInv, Without
    <2>4. CASE assignments' = Refreshed(survivors, plan')
        <3> SUFFICES ASSUME NEW n \in Members
                     PROVE  /\ n \in DOMAIN assignments'
                            /\ assignments'[n] = IF n \in DOMAIN plan' THEN Ranges(plan')[n]
                                                 ELSE range[n]
            BY <2>1 DEF MatchInv, Ranges
        <3> HIDE DEF survivors
        <3> QED BY <2>2, <2>4 DEF Refreshed, Ranges
    <2> QED BY <1>6, <2>3, <2>4, PlanStep DEF topologyVars, NoPlan
<1>7. CASE Dispatch
    <2>1. /\ step = "dispatch" /\ step' = "apply"
          /\ UNCHANGED <<assignments, range, plan>>
          /\ Members' \subseteq Members
        BY <1>0, <1>7 DEF Dispatch, Shape, At, pipelineVars, topologyVars
    <2> QED BY <2>1 DEF MatchInv, Ranges
<1>8. ASSUME NEW n \in Node, Apply(n) PROVE MatchInv'
    <2>1. /\ step = "apply" /\ step' = "apply" /\ UNCHANGED assignments
          /\ n \in DOMAIN plan
          /\ plan' = [m \in DOMAIN plan \ {n} |-> plan[m]]
          /\ range' = IF n \in registered THEN ApplyRange(n) ELSE range
          /\ Members' \subseteq Members
        BY <1>0, <1>8 DEF Apply, At, topologyVars
    <2> SUFFICES ASSUME NEW m \in Members
                 PROVE  /\ m \in DOMAIN assignments
                        /\ assignments[m] = IF m \in DOMAIN plan' THEN Ranges(plan')[m]
                                            ELSE range'[m]
        BY <2>1 DEF MatchInv, Ranges
    <2>2. /\ m \in DOMAIN assignments /\ m \in registered /\ m \in Node
          /\ assignments[m] = IF m \in DOMAIN plan THEN Ranges(plan)[m] ELSE range[m]
        BY <2>1 DEF MatchInv, Members, Shape
    <2>3. CASE m = n
        BY <2>1, <2>2, <2>3 DEF ApplyRange, Ranges, Shape
    <2>4. CASE m # n
        <3>1. range'[m] = range[m]
            BY <2>1, <2>2, <2>4 DEF ApplyRange, Shape
        <3> QED BY <2>1, <2>2, <2>4, <3>1 DEF Ranges
    <2> QED BY <2>3, <2>4
<1>9. CASE Finish
    <2>1. /\ step' = "idle" /\ DOMAIN plan = {}
          /\ UNCHANGED <<assignments, range>>
          /\ Members' \subseteq Members
        BY <1>0, <1>9 DEF Finish, pipelineVars, topologyVars
    <2> QED BY <2>1 DEF MatchInv
<1>10. ASSUME NEW n \in Node, Register(n) PROVE MatchInv'
    <2>1. /\ UNCHANGED <<assignments, plan, step, active>>
          /\ n \notin registered
          /\ range' = [range EXCEPT ![n] = Layout[n]]
          /\ Members' \subseteq Members
        BY <1>0, <1>10 DEF Register, callVars, topologyVars
    <2>2. \A m \in Members : range'[m] = range[m]
        BY <2>1 DEF Members, Shape
    <2> QED BY <2>1, <2>2 DEF MatchInv, Ranges
<1> QED BY <1>1, <1>2, <1>3, <1>4, <1>5, <1>6, <1>7, <1>8, <1>9, <1>10, StepKinds

LEMMA MatchInit == ASSUME Topology = Layout, Init PROVE MatchInv
BY LayoutAssumption DEF Init, MatchInv, Members

\* Between recoveries the pipeline's ranges are the cached topology's, however the
\* callbacks that applied the plans were interleaved with each other, with probes,
\* with registrations and with later failures.
THEOREM PipelineTracksTopology ==
    ASSUME Topology = Layout
    PROVE  Spec => []PipelineMatchesTopology
<1>1. Init => Shape /\ MatchInv
    BY ShapeInit, MatchInit
<1>2. Shape /\ MatchInv => PipelineMatchesTopology
    BY DEF Shape, MatchInv, PipelineMatchesTopology
<1> QED BY <1>1, <1>2, ShapeStep, MatchStep, PTL DEF Spec

-----------------------------------------------------------------------------
(* Types, for any topology.                                                 *)

Ranged == assignments \in [DOMAIN assignments -> LayerRange]

\* A plan and the topology it leaves hold real layer ranges, whether ranges overlapped
\* before or not.
LEMMA RangedPlanStep ==
    ASSUME Shape, Ranged, Plan
    PROVE  \/ UNCHANGED topologyVars /\ DOMAIN plan' = {}
           \/ /\ Ranged' /\ pending' = pending \cup Flagged(plan')
              /\ \A n \in DOMAIN plan' : Ranges(plan')[n] \in LayerRange
<1> DEFINE a == active.node
           failed == assignments[a]
           survivors == Without(assignments, a)
<1>1. CASE DOMAIN plan' = {}
    BY <1>1, PlanStep
<1>2. CASE DOMAIN plan' # {}
    <2>1. /\ a \in DOMAIN assignments
          /\ plan' \in ComputeRedistributions(survivors, failed)
          /\ assignments' = Refreshed(survivors, plan')
          /\ pending' = pending \cup Flagged(plan')
        BY <1>2, PlanStep DEF NoPlan
    <2>2. /\ DOMAIN survivors = DOMAIN assignments \ {a}
          /\ \A m \in DOMAIN survivors : survivors[m] = assignments[m]
          /\ survivors = [m \in DOMAIN survivors |-> survivors[m]]
        BY DEF Without
    <2>3. failed \in LayerRange
        BY <2>1 DEF Ranged
    <2> HIDE DEF survivors, failed
    <2>4. Survivors(survivors)
        <3>1. DOMAIN survivors \subseteq Node
            BY <2>2 DEF Shape
        <3>2. DOMAIN survivors \subseteq Nat /\ IsFiniteSet(DOMAIN survivors)
            BY <3>1, NodeAssumption, FS_Subset
        <3>3. \A m \in DOMAIN survivors : survivors[m] \in LayerRange
            BY <2>2 DEF Ranged
        <3>4. survivors \in [DOMAIN survivors -> LayerRange]
            BY <2>2, <3>3
        <3> QED BY <3>2, <3>4 DEF Survivors
    <2>5. DOMAIN survivors # {}
        BY <1>2, <2>1 DEF ComputeRedistributions
    <2>6. /\ DOMAIN plan' \subseteq DOMAIN survivors
          /\ assignments' \in [DOMAIN survivors -> LayerRange]
        BY <2>1, <2>3, <2>4, <2>5, PlanSound
    <2>7. \A n \in DOMAIN plan' : assignments'[n] = Ranges(plan')[n]
        BY <2>1, <2>6 DEF Refreshed, Ranges
    <2>8. \A n \in DOMAIN plan' : Ranges(plan')[n] \in LayerRange
        BY <2>6, <2>7
    <2>9. Ranged'
        BY <2>6 DEF Ranged
    <2> QED BY <2>1, <2>8, <2>9
<1> QED BY <1>1, <1>2

LEMMA RangedStep == Shape /\ Ranged /\ [Next]_vars => Ranged'
<1> SUFFICES ASSUME Shape, Ranged, [Next]_vars PROVE Ranged'
    OBVIOUS
<1>1. CASE UNCHANGED assignments
    BY <1>1 DEF Ranged
<1>2. CASE Plan
    BY <1>1, <1>2, RangedPlanStep DEF topologyVars
<1>3. CASE ~ Plan
    <2>1. UNCHANGED assignments
        BY <1>3, StepKinds DEF core, Revive, Advance, Enter, MarkDead, Dispatch, Apply, Finish,
                               Register, topologyVars
    <2> QED BY <1>1, <2>1
<1> QED BY <1>2, <1>3

\* TypeOK, the types of the ranges that are still to be dispatched, and why a probe
\* marks no removed node healthy: it is still in the pipeline, or orphaned.
TypeInv ==
    /\ TypeOK
    /\ \A n \in Node : probe[n] = "sent" => n \in registered
    /\ \A n \in DOMAIN plan : Ranges(plan)[n] \in LayerRange

\* FailoverEngine.evaluate stays within the four states, and the counters within
\* their thresholds.
LEMMA EvaluateTypes ==
    ASSUME TypeOK, NEW n \in Node, NEW slow \in BOOLEAN, Evaluate(n, slow)
    PROVE  /\ state' \in [Node -> NodeState]
           /\ fails' \in [Node -> 0 .. OfflineThreshold]
           /\ succs' \in [Node -> 0 .. RecoveryThreshold]
<1> DEFINE ok == probe[n] = "up"
           successes == IF ok THEN Smaller(succs[n] + 1, RecoveryThreshold) ELSE 0
           failures == IF ok THEN 0 ELSE Smaller(fails[n] + 1, OfflineThreshold)
           new == IF ok THEN AfterSuccess(state[n], successes, slow) ELSE AfterFailure(failures)
<1>1. /\ state' = [state EXCEPT ![n] = new]
      /\ fails' = [fails EXCEPT ![n] = failures]
      /\ succs' = [succs EXCEPT ![n] = successes]
    BY DEF Evaluate
<1>2. successes \in 0 .. RecoveryThreshold /\ failures \in 0 .. OfflineThreshold
    BY ThresholdAssumption DEF TypeOK, Smaller
<1> HIDE DEF successes, failures, ok
<1>3. new \in NodeState
    <2>1. AfterFailure(failures) \in NodeState
        BY DEF AfterFailure, NodeState
    <2>2. AfterSuccess(state[n], successes, slow) \in NodeState
        BY DEF AfterSuccess, NodeState, TypeOK
    <2> QED BY <2>1, <2>2
<1> HIDE DEF new
<1> QED BY <1>1, <1>2, <1>3 DEF TypeOK

LEMMA TypeStep == Shape /\ Ranged /\ TypeInv /\ [Next]_vars => TypeInv'
<1> SUFFICES ASSUME Shape, Ranged, TypeInv, [Next]_vars PROVE TypeInv'
    OBVIOUS
<1> USE DEF TypeInv, TypeOK, recordVars, pipelineVars, topologyVars, checkpointVars, callVars,
            boundVars
<1>0. /\ assignments' \in [DOMAIN assignments' -> LayerRange]
      /\ DOMAIN assignments' \subseteq Node /\ DOMAIN plan' \subseteq Node
      /\ rejoined' \subseteq registered' /\ registered' \subseteq Node
      /\ calls' \subseteq Call
      /\ active' \in Call \cup {None} /\ dry_run' \in BOOLEAN
      /\ step' \in Steps
    BY ShapeStep, RangedStep, RealCalls DEF Shape, Ranged
<1>1. CASE UNCHANGED vars
    BY <1>1 DEF vars, Ranges
<1>2. ASSUME NEW old \in SUBSET Request, BeginCycle(old) PROVE TypeInv'
    BY <1>0, <1>2 DEF BeginCycle, Steps, Ranges
<1>3. ASSUME NEW n \in Node, HealthCheck(n) PROVE TypeInv'
    BY <1>0, <1>3 DEF HealthCheck, Steps, Ranges
<1>4. ASSUME NEW n \in Node, NEW slow \in BOOLEAN, Evaluate(n, slow) PROVE TypeInv'
    <2>1. /\ state' \in [Node -> NodeState]
          /\ fails' \in [Node -> 0 .. OfflineThreshold]
          /\ succs' \in [Node -> 0 .. RecoveryThreshold]
        BY <1>4, EvaluateTypes
    <2> QED BY <1>0, <1>4, <2>1 DEF Evaluate, Steps, Ranges
<1>5. ASSUME NEW c \in calls, Refuse(c) PROVE TypeInv'
    BY <1>0, <1>5 DEF Refuse, Returned, Steps, Ranges
<1>6. ASSUME NEW c \in calls, Enter(c) PROVE TypeInv'
    BY <1>0, <1>6, RealCalls DEF Enter, Shape, Steps, Ranges
<1>7. CASE Drain
    BY <1>0, <1>7 DEF Drain, Steps, Ranges
<1>8. CASE SnapshotSequences
    BY <1>0, <1>8 DEF SnapshotSequences, Steps, Ranges
<1>9. CASE RecoverSequences
    BY <1>0, <1>9 DEF RecoverSequences, Steps, Ranges
<1>10. CASE MarkDead
    BY <1>0, <1>10 DEF MarkDead, Steps, Ranges
<1>11. CASE Plan
    <2>1. \/ UNCHANGED pending /\ DOMAIN plan' = {}
          \/ /\ pending' = pending \cup Flagged(plan')
             /\ \A n \in DOMAIN plan' : Ranges(plan')[n] \in LayerRange
        BY <1>11, RangedPlanStep
    <2>2. pending' \subseteq Node
        BY <1>0, <2>1 DEF Flagged
    <2>3. (\A n \in DOMAIN plan : Ranges(plan)[n] \in LayerRange)'
        BY <2>1 DEF Ranges
    <2> QED BY <1>0, <1>11, <2>2, <2>3 DEF Plan, Steps
<1>12. CASE Dispatch
    BY <1>0, <1>12 DEF Dispatch, Shape, Steps, Ranges
<1>13. ASSUME NEW n \in Node, Apply(n) PROVE TypeInv'
    <2>1. range' \in [Node -> LayerRange]
        <3>1. [s |-> plan[n].s, e |-> plan[n].e] \in LayerRange
            BY <1>13 DEF Apply, Ranges
        <3>2. range' = range \/ range' = [range EXCEPT ![n] = [s |-> plan[n].s, e |-> plan[n].e]]
            BY <1>13 DEF Apply, ApplyRange
        <3> QED BY <3>1, <3>2
    <2>2. (\A m \in DOMAIN plan : Ranges(plan)[m] \in LayerRange)'
        BY <1>13 DEF Apply, Ranges
    <2> QED BY <1>0, <1>13, <2>1, <2>2 DEF Apply, Steps
<1>14. CASE Finish
    <2>1. DOMAIN plan' = {}
        BY <1>14 DEF Finish, NoPlan
    <2> QED BY <1>0, <1>14, <2>1 DEF Finish, Returned, Steps
<1>15. CASE GenerationStep
    <2>1. ASSUME NEW r \in Request, BeginSweep(r) PROVE TypeInv'
        BY <1>0, <2>1 DEF BeginSweep, Steps, Ranges
    <2>2. ASSUME NEW r \in Request, NEW n \in Node, SaveCheckpoint(r, n) PROVE TypeInv'
        BY <1>0, <2>2 DEF SaveCheckpoint, Steps, Ranges
    <2>3. ASSUME NEW n \in Node, ReportStraggler(n) PROVE TypeInv'
        BY <1>0, <2>3 DEF ReportStraggler, Steps, Ranges
    <2> QED BY <1>15, <2>1, <2>2, <2>3 DEF GenerationStep
<1>16. ASSUME NEW n \in Node, Register(n) PROVE TypeInv'
    BY <1>0, <1>16, LayoutAssumption DEF Register, Steps, Ranges
<1>17. ASSUME NEW n \in Node, MarkWeightsLoaded(n) \/ GoDown(n) \/ ComeBack(n) PROVE TypeInv'
    BY <1>0, <1>17 DEF MarkWeightsLoaded, GoDown, ComeBack, Steps, Ranges
<1> HIDE DEF TypeInv
<1> QED BY <1>1, <1>2, <1>3, <1>4, <1>5, <1>6, <1>7, <1>8, <1>9, <1>10, <1>11, <1>12, <1>13,
           <1>14, <1>15, <1>16, <1>17
        DEF Next, ProbeStep, Serve, RecoveryStep, OperatorStep

\* Whatever topology was registered, every part of the state keeps its type; the topology
\* and the pipeline hold real layer ranges throughout.
THEOREM RecoveryTypes == Spec => []TypeOK
<1>1. Init => Ranged
    BY TopologyAssumption DEF Init, Ranged
<1>2. ASSUME Init PROVE TypeInv
    <2>1. DOMAIN plan = {}
        BY <1>2 DEF Init, NoPlan
    <2>2. fails \in [Node -> 0 .. OfflineThreshold] /\ succs \in [Node -> 0 .. RecoveryThreshold]
        BY <1>2, ThresholdAssumption DEF Init
    <2>3. range \in [Node -> LayerRange] /\ DOMAIN assignments \subseteq Node
          /\ assignments \in [DOMAIN assignments -> LayerRange]
        BY <1>2, LayoutAssumption, TopologyAssumption DEF Init
    <2>4. state \in [Node -> NodeState]
        BY <1>2 DEF Init, NodeState
    <2> QED BY <1>2, <2>1, <2>2, <2>3, <2>4 DEF Init, TypeInv, TypeOK
<1>3. TypeInv => TypeOK
    BY DEF TypeInv
<1> QED BY <1>1, <1>2, <1>3, ShapeInit, ShapeStep, RangedStep, TypeStep, PTL DEF Spec

-----------------------------------------------------------------------------
(* Topologies without overlaps, the empty one among them: every plan is one *)
(* of neighbour absorption.                                                 *)

Tiled ==
    /\ assignments \in [DOMAIN assignments -> LayerRange]
    /\ Disjoint(assignments)

\* What a recovery does to a topology without overlaps.
LEMMA TiledPlanStep ==
    ASSUME Shape, Tiled, Plan
    PROVE  LET failed == assignments[active.node]
               survivors == Without(assignments, active.node)
           IN  \/ /\ UNCHANGED topologyVars
                  /\ DOMAIN plan' = {}
                  /\ active.node \notin DOMAIN assignments \/ DOMAIN survivors = {}
               \/ /\ active.node \in DOMAIN assignments
                  /\ DOMAIN survivors # {}
                  /\ Clean(survivors, failed)
                  /\ plan' = Absorption(survivors, failed)
                  /\ assignments' = Refreshed(survivors, Absorption(survivors, failed))
                  /\ pending' = pending \cup Flagged(plan')
<1> DEFINE a == active.node
           failed == assignments[a]
           survivors == Without(assignments, a)
<1>1. CASE a \notin DOMAIN assignments
    BY <1>1, PlanStep DEF NoPlan
<1>2. CASE a \in DOMAIN assignments /\ DOMAIN survivors = {}
    <2>1. ComputeRedistributions(survivors, failed) = {survivors}
        BY <1>2 DEF ComputeRedistributions
    <2> QED BY <1>2, <2>1, PlanStep
<1>3. CASE a \in DOMAIN assignments /\ DOMAIN survivors # {}
    <2>1. Clean(survivors, failed)
        <3>1. survivors = [m \in DOMAIN assignments \ {a} |-> assignments[m]]
            BY DEF Without
        <3>2. survivors \in [DOMAIN survivors -> LayerRange] /\ failed \in LayerRange
            BY <1>3, <3>1 DEF Tiled
        <3>3. Disjoint(survivors) /\ \A m \in DOMAIN survivors : Apart(survivors[m], failed)
            BY <1>3, <3>1 DEF Tiled, Disjoint
        <3> QED BY <3>2, <3>3 DEF Clean, CleanTiling
    <2>2. ComputeRedistributions(survivors, failed) = {Absorption(survivors, failed)}
        BY <1>3, <2>1 DEF ComputeRedistributions, Clean
    <2>3. DOMAIN Absorption(survivors, failed) # {}
        <3> HIDE DEF survivors, failed
        <3>1. Left(survivors, failed) # {} \/ Right(survivors, failed) # {}
            BY <1>3, <2>1, NeighbourExists
        <3>2. DOMAIN Absorption(survivors, failed)
                = Left(survivors, failed) \cup Right(survivors, failed)
            BY <1>3, <2>1, AbsorptionShape
        <3> QED BY <3>1, <3>2
    <2> QED BY <1>3, <2>1, <2>2, <2>3, PlanStep
<1> QED BY <1>1, <1>2, <1>3

LEMMA TiledStep == Shape /\ Tiled /\ [Next]_vars => Tiled'
<1> SUFFICES ASSUME Shape, Tiled, [Next]_vars PROVE Tiled'
    OBVIOUS
<1>1. CASE UNCHANGED assignments
    BY <1>1 DEF Tiled, Disjoint
<1>2. CASE Plan /\ ~ UNCHANGED assignments
    <2> DEFINE failed == assignments[active.node]
               survivors == Without(assignments, active.node)
    <2>1. /\ DOMAIN survivors # {} /\ Clean(survivors, failed)
          /\ assignments' = Refreshed(survivors, Absorption(survivors, failed))
        BY <1>2, TiledPlanStep DEF topologyVars
    <2> HIDE DEF survivors, failed
    <2>2. /\ assignments' \in [DOMAIN survivors -> LayerRange]
          /\ Disjoint(assignments')
        BY <2>1, AbsorptionSound
    <2> QED BY <2>2 DEF Tiled, Disjoint
<1>3. CASE ~ Plan
    <2>1. UNCHANGED assignments
        BY <1>3, StepKinds DEF core, Revive, Advance, Enter, MarkDead, Dispatch, Apply, Finish,
                               Register, topologyVars
    <2> QED BY <1>1, <2>1
<1> QED BY <1>1, <1>2, <1>3

-----------------------------------------------------------------------------
(* The model stays served.                                                  *)

\* The layout is one of a whole model: its layers are numbered from 0 without a gap.
WholeModel == \E top \in Nat : Owned(Layout) = 0 .. top

\* Absorption serves what was served, and nothing beyond it.
LEMMA AbsorptionKeepsModel ==
    ASSUME NEW layout, layout \in [DOMAIN layout -> LayerRange], NEW a \in DOMAIN layout,
           NEW top \in Nat, Owned(layout) = 0 .. top,
           DOMAIN Without(layout, a) # {}, Clean(Without(layout, a), layout[a])
    PROVE  LET survivors == Without(layout, a)
           IN  Owned(Refreshed(survivors, Absorption(survivors, layout[a]))) = 0 .. top
<1> DEFINE survivors == Without(layout, a)
           failed == layout[a]
           left == Left(survivors, failed)
           right == Right(survivors, failed)
           mid == failed.s + LeftShare(survivors, failed)
           new == Refreshed(survivors, Absorption(survivors, failed))
<1>1. /\ DOMAIN survivors = DOMAIN layout \ {a}
      /\ \A n \in DOMAIN survivors : survivors[n] = layout[n]
    BY DEF Without
<1>2. \A n \in DOMAIN layout : /\ layout[n].s \in Nat /\ layout[n].e \in Nat
                               /\ layout[n].s <= layout[n].e /\ layout[n].e <= top
    <2> SUFFICES ASSUME NEW n \in DOMAIN layout
                 PROVE  /\ layout[n].s \in Nat /\ layout[n].e \in Nat
                        /\ layout[n].s <= layout[n].e /\ layout[n].e <= top
        OBVIOUS
    <2>1. layout[n].s \in Nat /\ layout[n].e \in Nat /\ layout[n].s <= layout[n].e
        BY DEF LayerRange
    <2>2. layout[n].e \in Owned(layout)
        BY <2>1 DEF Owned, Layers
    <2> QED BY <2>1, <2>2
<1>0. Clean(survivors, failed) /\ DOMAIN survivors # {}
    OBVIOUS
<1> HIDE DEF survivors
<1>3. /\ DOMAIN new = DOMAIN survivors
      /\ \A n \in left : new[n].s = survivors[n].s /\ new[n].e = mid - 1
      /\ \A n \in right : new[n].s = mid /\ new[n].e = survivors[n].e
      /\ \A n \in DOMAIN survivors \ (left \cup right) : new[n] = survivors[n]
    <2> HIDE DEF failed
    <2> QED BY <1>0, AbsorptionShape
<1>4. /\ new \in [DOMAIN survivors -> LayerRange]
      /\ \A n \in DOMAIN survivors : Layers(survivors[n]) \subseteq Layers(new[n])
      /\ Layers(failed) \subseteq Owned(new)
    BY <1>0, AbsorptionSound
<1>5. mid \in Nat /\ mid - 1 <= failed.e
    <2>1. LeftShare(survivors, failed) \in 0 .. Size(failed)
        BY <1>0, ShareSplits
    <2> QED BY <1>2, <2>1 DEF Size
<1> HIDE DEF left, right, mid, new
<1>6. Owned(layout) \subseteq Owned(new)
    BY <1>1, <1>3, <1>4 DEF Owned
<1>7. ASSUME NEW n \in DOMAIN survivors PROVE Layers(new[n]) \subseteq 0 .. top
    <2>1. new[n].s \in Nat /\ new[n].e \in Nat
        BY <1>4 DEF LayerRange
    <2>2. new[n].e <= top
        <3>1. CASE n \in left
            BY <1>2, <1>3, <1>5, <2>1, <3>1
        <3>2. CASE n \notin left
            <4>1. new[n].e = layout[n].e
                BY <1>1, <1>3, <3>2
            <4> QED BY <1>1, <1>2, <4>1
        <3> QED BY <3>1, <3>2
    <2> QED BY <2>1, <2>2 DEF Layers
<1>8. Owned(new) \subseteq 0 .. top
    BY <1>3, <1>7 DEF Owned
<1> QED BY <1>6, <1>8 DEF new, survivors

\* The topology serves the layers of the layout; and as long as somebody is left,
\* it lists nobody but members, until a recovery's plan a node just removed.
CoverInv ==
    /\ Owned(assignments) = Owned(Layout)
    /\ Members # {} =>
          \A n \in DOMAIN assignments \ Members : step = "plan" /\ n = active.node

LEMMA CoverStep ==
    ASSUME WholeModel, Shape, Tiled, MatchInv, CoverInv, [Next]_vars
    PROVE  CoverInv'
<1>0. Members' = IF MarkDead THEN Members \ {active.node} ELSE Members
    BY MembersStep
<1>1. CASE UNCHANGED <<assignments, active, step>> /\ ~ MarkDead
    BY <1>0, <1>1 DEF CoverInv, Owned
<1>2. CASE MarkDead
    <2>1. /\ step = "mark_dead" /\ step' = "plan"
          /\ UNCHANGED <<assignments, active>>
          /\ Members' = Members \ {active.node}
        BY <1>0, <1>2 DEF MarkDead, At, topologyVars
    <2>2. Owned(assignments)' = Owned(Layout)
        BY <2>1 DEF CoverInv, Owned
    <2> QED BY <2>1, <2>2 DEF CoverInv
<1>3. CASE Plan
    <2> DEFINE a == active.node
               survivors == Without(assignments, a)
    <2>1. Members' \subseteq Members /\ Members \subseteq Members' /\ step = "plan"
          /\ active' = active
        BY <1>0, <1>3 DEF Plan, MarkDead, At
    <2>2. /\ DOMAIN survivors = DOMAIN assignments \ {a}
          /\ Members \subseteq DOMAIN survivors
        BY <2>1 DEF MatchInv, Without
    <2>3. CASE /\ UNCHANGED assignments
               /\ a \notin DOMAIN assignments \/ DOMAIN survivors = {}
        <3>1. Members' # {} => DOMAIN assignments \subseteq Members
            BY <2>1, <2>2, <2>3 DEF CoverInv
        <3> QED BY <2>1, <2>3, <3>1 DEF CoverInv, Owned
    <2>4. CASE /\ a \in DOMAIN assignments
               /\ DOMAIN survivors # {}
               /\ Clean(survivors, assignments[a])
               /\ assignments' = Refreshed(survivors, Absorption(survivors, assignments[a]))
        <3>1. PICK top \in Nat : Owned(Layout) = 0 .. top
            BY DEF WholeModel
        <3>2. Owned(assignments') = 0 .. top
            BY <2>4, <3>1, AbsorptionKeepsModel DEF Tiled, CoverInv
        <3>3. Owned(assignments)' = Owned(Layout)
            BY <3>1, <3>2 DEF Owned
        <3>4. DOMAIN assignments' = DOMAIN survivors
            BY <2>4 DEF Refreshed
        <3>5. Members' # {} => DOMAIN assignments' \subseteq Members'
            BY <2>1, <2>2, <3>4 DEF CoverInv
        <3> QED BY <3>3, <3>5 DEF CoverInv
    <2> QED BY <1>3, <2>3, <2>4, TiledPlanStep DEF topologyVars
<1>4. CASE UNCHANGED assignments /\ step # "plan" /\ ~ MarkDead
    BY <1>0, <1>4 DEF CoverInv, Owned
<1>5. ASSUME NEW c \in calls, Enter(c) PROVE CoverInv'
    BY <1>4, <1>5 DEF Enter, MarkDead, Shape, At, topologyVars
<1>6. ASSUME NEW n \in Node, Apply(n) \/ Register(n) PROVE CoverInv'
    <2>1. UNCHANGED <<assignments, active, step>>
        BY <1>6 DEF Apply, Register, topologyVars, callVars
    <2> QED BY <1>1, <1>2, <2>1
<1> QED BY <1>1, <1>2, <1>3, <1>4, <1>5, <1>6, StepKinds
        DEF core, Revive, Advance, Dispatch, Finish, At, topologyVars

\* Between recoveries, after any sequence of failures and with any interleaving of
\* their recoveries' callbacks, the members of the pipeline serve every layer of the
\* model, each by one node, for as long as one is left.
THEOREM PipelineKeepsModel ==
    ASSUME Topology = Layout, WholeModel
    PROVE  Spec => []PipelineServesModel
<1>1. Init => Tiled /\ CoverInv
    BY LayoutAssumption, TopologyAssumption DEF Init, Tiled, CoverInv, Members
<1>2. Init => Shape /\ MatchInv
    BY ShapeInit, MatchInit
<1>3. ASSUME Shape, Tiled, MatchInv, CoverInv PROVE PipelineServesModel
    <2> SUFFICES ASSUME active = None, Members # {}
                 PROVE  /\ Served(Members) = Owned(Layout)
                        /\ \A n, m \in Members : n # m => Apart(range[n], range[m])
        BY DEF PipelineServesModel
    <2>1. step = "idle"
        BY <1>3 DEF Shape
    <2>2. Members = DOMAIN assignments /\ \A n \in Members : range[n] = assignments[n]
        BY <1>3, <2>1 DEF MatchInv, CoverInv
    <2>3. Served(Members) = Owned(assignments)
        BY <2>2 DEF Served, Owned
    <2> QED BY <1>3, <2>2, <2>3 DEF CoverInv, Tiled, Disjoint
<1>4. Shape /\ Tiled /\ MatchInv /\ CoverInv /\ [Next]_vars => CoverInv'
    BY CoverStep
<1> QED BY <1>1, <1>2, <1>3, <1>4, ShapeStep, TiledStep, MatchStep, PTL DEF Spec

-----------------------------------------------------------------------------
(* A recovery implements a failure of LayerOwnership.  The instance has its *)
(* own copies of the planner's operators: first, that they are the same.    *)

LEMMA SameTiling ==
    ASSUME NEW survivors, NEW failed
    PROVE  Ownership!CleanTiling(survivors, failed) <=> CleanTiling(survivors, failed)
BY DEF Ownership!CleanTiling, CleanTiling, Ownership!Disjoint, Disjoint, Ownership!Apart, Apart

LEMMA SameAbsorption ==
    ASSUME NEW survivors, NEW failed
    PROVE  Ownership!Absorption(survivors, failed) = Absorption(survivors, failed)
BY Zenon DEF Ownership!Absorption, Absorption, Ownership!Left, Left, Ownership!Right, Right,
             Ownership!LeftShare, LeftShare, Ownership!Size, Size,
             Ownership!ProportionalShare, ProportionalShare,
             Ownership!ExtendLeft, ExtendLeft, Ownership!ExtendRight, ExtendRight,
             Ownership!Larger, Larger, Ownership!Smaller, Smaller

LEMMA SameSums == ASSUME NEW f, NEW S PROVE Ownership!SumOver(f, S) = SumOver(f, S)
BY DEF Ownership!SumOver, SumOver, Ownership!MapThenSumSet, MapThenSumSet,
       Ownership!MapThenFoldSet, MapThenFoldSet

LEMMA SameSplits ==
    ASSUME NEW total, NEW weights
    PROVE  Ownership!LargestRemainderSplits(total, weights)
             = LargestRemainderSplits(total, weights)
<1> DEFINE keys == DOMAIN weights
           floors(w) == [n \in keys |-> (total * weights[n]) \div w]
           rest(w) == [n \in keys |-> (total * weights[n]) % w]
           ups(subsets, w) ==
               {S \in subsets : \A n \in S, m \in keys \ S : rest(w)[n] >= rest(w)[m]}
           splits(subsets, w) ==
               {[n \in keys |-> IF n \in up THEN floors(w)[n] + 1 ELSE floors(w)[n]] :
                   up \in ups(subsets, w)}
<1>1. \A f, S : Ownership!SumOver(f, S) = SumOver(f, S)
    BY SameSums
<1>2. \A k, S : Ownership!kSubset(k, S) = kSubset(k, S)
    BY DEF Ownership!kSubset, kSubset, Ownership!Cardinality, Cardinality
<1>3. LET w == SumOver(weights, keys)
      IN  LargestRemainderSplits(total, weights)
            = splits(kSubset(total - SumOver(floors(w), keys), keys), w)
    BY Zenon DEF LargestRemainderSplits
<1>4. LET w == Ownership!SumOver(weights, keys)
      IN  Ownership!LargestRemainderSplits(total, weights)
            = splits(Ownership!kSubset(total - Ownership!SumOver(floors(w), keys), keys), w)
    BY Zenon DEF Ownership!LargestRemainderSplits
<1> HIDE DEF splits, floors
<1> QED BY <1>1, <1>2, <1>3, <1>4

LEMMA SameRetilings ==
    ASSUME NEW survivors, NEW failed
    PROVE  Ownership!Retilings(survivors, failed) = Retilings(survivors, failed)
<1> DEFINE nodes == DOMAIN survivors
           last == CHOOSE n \in nodes : \A m \in nodes \ {n} : Precedes(survivors, m, n)
           first == Min({survivors[n].s : n \in nodes} \cup {failed.s})
           end == Larger(survivors[last].e, failed.e)
           sizes == [n \in nodes |-> Size(survivors[n])]
           start(c, n) == first + SumOver(c, {m \in nodes : Precedes(survivors, m, n)})
           tiling(c) == [n \in Receivers(c) |->
                            [s |-> start(c, n), e |-> start(c, n) + c[n] - 1, load |-> TRUE]]
           lastO == CHOOSE n \in nodes :
                        \A m \in nodes \ {n} : Ownership!Precedes(survivors, m, n)
           firstO == Ownership!Min({survivors[n].s : n \in nodes} \cup {failed.s})
           endO == Ownership!Larger(survivors[lastO].e, failed.e)
           sizesO == [n \in nodes |-> Ownership!Size(survivors[n])]
           startO(c, n) == firstO + Ownership!SumOver(c,
                               {m \in nodes : Ownership!Precedes(survivors, m, n)})
           tilingO(c) == [n \in Ownership!Receivers(c) |->
                            [s |-> startO(c, n), e |-> startO(c, n) + c[n] - 1, load |-> TRUE]]
<1>1. Retilings(survivors, failed)
        = {tiling(c) : c \in LargestRemainderSplits(end - first + 1, sizes)}
    BY Zenon DEF Retilings
<1>2. Ownership!Retilings(survivors, failed)
        = {tilingO(c) : c \in Ownership!LargestRemainderSplits(endO - firstO + 1, sizesO)}
    BY Zenon DEF Ownership!Retilings
<1>3. firstO = first
    BY DEF Ownership!Min, Min
<1>4. \A n, m : Ownership!Precedes(survivors, n, m) = Precedes(survivors, n, m)
    BY DEF Ownership!Precedes, Precedes
<1>5. lastO = last
    BY <1>4, Zenon
<1>6. endO = end
    <2> HIDE DEF last, lastO
    <2> QED BY <1>5 DEF Ownership!Larger, Larger
<1>7. sizesO = sizes
    BY DEF Ownership!Size, Size
<1>8. ASSUME NEW c PROVE tilingO(c) = tiling(c)
    <2>1. Ownership!Receivers(c) = Receivers(c)
        BY DEF Ownership!Receivers, Receivers
    <2>2. ASSUME NEW n PROVE startO(c, n) = start(c, n)
        <3> DEFINE before == {m \in nodes : Precedes(survivors, m, n)}
        <3>1. {m \in nodes : Ownership!Precedes(survivors, m, n)} = before
            BY <1>4, Zenon
        <3>2. Ownership!SumOver(c, before) = SumOver(c, before)
            BY SameSums
        <3> QED BY <1>3, <3>1, <3>2, Zenon
    <2> HIDE DEF start, startO
    <2> QED BY <2>1, <2>2
<1>9. \A t, w : Ownership!LargestRemainderSplits(t, w) = LargestRemainderSplits(t, w)
    BY SameSplits
<1> HIDE DEF tiling, tilingO, first, firstO, end, endO, sizes, sizesO
<1> QED BY <1>1, <1>2, <1>3, <1>6, <1>7, <1>8, <1>9

LEMMA SamePlans ==
    ASSUME NEW survivors, NEW failed
    PROVE  Ownership!ComputeRedistributions(survivors, failed)
             = ComputeRedistributions(survivors, failed)
BY SameTiling, SameAbsorption, SameRetilings, Zenon
DEF Ownership!ComputeRedistributions, ComputeRedistributions

\* For every topology, with overlaps or without: a recovery of on_node_failure,
\* however many steps it takes and whatever runs between them, changes the manager's
\* topology and its pending weight loads in one step, the one LayerOwnership allows
\* for the failure of its node.  What is proved of LayerOwnership holds here.
THEOREM RecoveryImplementsOwnership == Spec => OwnershipSpec
<1>1. Init => Ownership!Init
    BY DEF Init, Ownership!Init
<1>2. Shape /\ [Next]_vars => [Ownership!Next]_(Ownership!vars)
    <2> SUFFICES ASSUME Shape, [Next]_vars, ~ UNCHANGED topologyVars PROVE Ownership!Next
        BY DEF Ownership!vars, topologyVars
    <2>1. CASE Plan
        <3> DEFINE a == active.node
                   survivors == Without(assignments, a)
        <3>1. /\ a \in DOMAIN assignments
              /\ plan' \in ComputeRedistributions(survivors, assignments[a])
              /\ DOMAIN plan' # {}
              /\ assignments' = Refreshed(survivors, plan')
              /\ pending' = pending \cup Flagged(plan')
            BY <2>1, PlanStep
        <3>2. Ownership!Without(assignments, a) = survivors
            BY DEF Ownership!Without, Without
        <3>3. /\ Ownership!Refreshed(survivors, plan') = Refreshed(survivors, plan')
              /\ Ownership!Flagged(plan') = Flagged(plan')
            BY DEF Ownership!Refreshed, Refreshed, Ownership!Flagged, Flagged
        <3> HIDE DEF survivors
        <3>4. plan' \in Ownership!ComputeRedistributions(survivors, assignments[a])
            BY <3>1, SamePlans
        <3>5. Ownership!Fail(a)
            BY <3>1, <3>2, <3>3, <3>4 DEF Ownership!Fail
        <3>6. a \in Node
            BY <3>1 DEF Shape
        <3> QED BY <3>5, <3>6 DEF Ownership!Next
    <2>2. ASSUME NEW n \in Node, MarkWeightsLoaded(n) PROVE Ownership!Next
        BY <2>2 DEF MarkWeightsLoaded, Ownership!MarkWeightsLoaded, Ownership!Next
    <2>3. CASE \/ \E old \in SUBSET Request : BeginCycle(old)
               \/ \E n \in Node : ProbeStep(n)
               \/ \E c \in calls : Serve(c)
               \/ GenerationStep
        BY <2>3 DEF BeginCycle, ProbeStep, HealthCheck, Evaluate, Serve, Refuse, Enter,
                    GenerationStep, BeginSweep, SaveCheckpoint, ReportStraggler
    <2>4. CASE RecoveryStep /\ ~ Plan
        BY <2>4 DEF RecoveryStep, Drain, SnapshotSequences, RecoverSequences, MarkDead,
                    Dispatch, Apply, Finish
    <2>5. ASSUME NEW n \in Node, OperatorStep(n), ~ MarkWeightsLoaded(n) PROVE FALSE
        BY <2>5 DEF OperatorStep, Register, GoDown, ComeBack
    <2>6. CASE UNCHANGED vars
        BY <2>6 DEF vars
    <2> QED BY <2>1, <2>2, <2>3, <2>4, <2>5, <2>6 DEF Next
<1> QED BY <1>1, <1>2, ShapeInit, ShapeStep, PTL DEF Spec, OwnershipSpec, Ownership!Spec
=============================================================================
