--------------------------- MODULE RecoveryDrill ---------------------------
(***************************************************************************)
(* Recovery drills beside real recoveries: RecoveryDrill (dist/recovery_   *)
(* drill.py) calls NodeRecoveryManager.dry_run_recovery, which sets        *)
(* _dry_run for the whole manager while it waits for the serializer and    *)
(* until after it has released it.                                        *)
(***************************************************************************)
EXTENDS NodeRecovery

CONSTANT MaxDrills      \* bound: drills that are run

VARIABLES
    drilling,      \* whether a drill is in progress
    original,      \* the value of _dry_run it will put back
    drills

drillVars == <<drilling, original, drills>>

\* The drill's target is never a node: _select_drill_target has no list of nodes to
\* choose from and falls back to "drill-target-synthetic".
DrillCall == [by |-> "drill", node |-> Synthetic]

DrillInit ==
    /\ Init
    /\ drilling = FALSE /\ original = FALSE /\ drills = 0

\* dry_run_recovery, up to on_node_failure.
BeginDrill ==
    /\ ~drilling /\ drills < MaxDrills
    /\ drilling' = TRUE
    /\ original' = dry_run
    /\ dry_run' = TRUE
    /\ drills' = drills + 1
    /\ calls' = calls \cup {DrillCall}
    /\ UNCHANGED <<answers, recordVars, probe, pipelineVars, dead, topologyVars,
                   checkpointVars, active, step, seqs, plan, rejoined, boundVars>>

\* Its finally clause.
EndDrill ==
    /\ drilling /\ DrillCall \notin calls /\ active # DrillCall
    /\ drilling' = FALSE
    /\ dry_run' = original
    /\ UNCHANGED <<original, drills>>
    /\ UNCHANGED <<answers, recordVars, probe, pipelineVars, dead, topologyVars,
                   checkpointVars, callVars, rejoined, boundVars>>

DrillNext ==
    \/ Next /\ UNCHANGED drillVars
    \/ BeginDrill
    \/ EndDrill

DrillSpec == DrillInit /\ [][DrillNext]_<<vars, drillVars>>
============================================================================
