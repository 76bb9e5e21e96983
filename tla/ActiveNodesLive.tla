-------------------------- MODULE ActiveNodesLive --------------------------
(***************************************************************************)
(* ActiveNodes with an environment that calms down: what the manager sees  *)
(* of the replicas changes, calls fail, managers die and the operator      *)
(* gives commands only MaxDisturbances times.  After that the passes of    *)
(* stateManager, which the ticker of App.Run starts again and again, have  *)
(* to bring the three settings together.                                   *)
(***************************************************************************)
EXTENDS ActiveNodes

CONSTANT MaxDisturbances

ASSUME DisturbancesAssumption == MaxDisturbances \in Nat

VARIABLES view, masterStable,   \* what every pass sees until it changes
          disturbances,         \* how often the environment has interfered
          raised                \* history: repairLocalNode has raised the quorum since
                                \* enterMaintenance last set it to 0

liveVars == <<vars, view, masterStable, disturbances, raised>>

LiveInit ==
    /\ Init
    /\ view = [h \in Replicas |-> "replicating"]
    /\ masterStable = TRUE
    /\ disturbances = 0
    /\ raised = FALSE

Disturb ==
    /\ disturbances < MaxDisturbances
    /\ disturbances' = disturbances + 1

ViewChanges ==
    /\ Disturb
    /\ view' \in Views
    /\ masterStable' \in BOOLEAN
    /\ UNCHANGED <<vars, raised>>

\* a host that is still in stateMaintenance takes over after the record is gone
LateLeave == LeaveMaintenance /\ ~maintenance.exists

Interference ==
    /\ Disturb
    /\ \/ RepairLocalNode /\ raised' = TRUE
       \/ (Abort \/ LateLeave \/ CliEnableMaintenance \/ CliDisableGet) /\ UNCHANGED raised
    /\ UNCHANGED <<view, masterStable>>

Operator ==
    /\ CliDisableSet
    /\ UNCHANGED <<view, masterStable, disturbances, raised>>

ManagerStep ==
    /\ \/ ManagerPass
       \/ RepairShard
       \/ updateActiveNodes(view, masterStable)
       \/ applyActiveNodesTransition
       \/ EnterMaintenance \/ EnterNum \/ EnterDelete \/ EnterPause
       \/ LeaveMaintenance /\ maintenance.exists
       \/ LeaveCheck \/ LeaveRepair \/ LeaveDelete
    /\ raised' = (raised /\ pc # "enterNum")
    /\ UNCHANGED <<view, masterStable, disturbances>>

LiveNext == ManagerStep \/ ViewChanges \/ Interference \/ Operator

\* The ticker starts passes for ever; the command line tool finishes.
LiveSpec ==
    /\ LiveInit
    /\ [][LiveNext]_liveVars
    /\ WF_liveVars(ManagerStep)
    /\ WF_liveVars(Operator)

-----------------------------------------------------------------------------
\* the settings agree with each other and with what the manager sees
Agreed ==
    /\ activeNodes = calcActiveNodes(view, masterStable, activeNodes)
    /\ quorumReplicas = activeNodes \ {Master}
    /\ numQuorumReplicas = getNumReplicasToWrite(activeNodes)

\* maintenance: no failover is possible and nothing is waited for, unless the
\* master was opened between the two writes of enterMaintenance: the quorum that
\* repairLocalNode then sets stays for the whole maintenance
Suspended ==
    /\ maintenance.exists /\ maintenance.RdSyncPaused
    /\ activeNodes = {} /\ (numQuorumReplicas = 0 \/ raised)

\* Once calls stop failing and the view stops changing, active_nodes,
\* quorum-replicas and quorum-replicas-to-write end up consistent and stay so,
\* whichever call of updateActiveNodes, enterMaintenance or leaveMaintenance the
\* last failure interrupted; in particular no interrupted transition leaves the
\* master waiting for more replicas than may acknowledge.
Converges == <>[](Agreed \/ Suspended)

\* A maintenance record that asks to leave is eventually removed: what
\* "maintenance disable scheduled" of rdsync maint off tells the operator.
DisableIsHonoured ==
    (maintenance.exists /\ maintenance.ShouldLeave) ~> ~maintenance.exists
=============================================================================
