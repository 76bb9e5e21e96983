---------------------------- MODULE ActiveNodes ----------------------------
(***************************************************************************)
(* The three places that decide which writes survive a failover, and the   *)
(* manager that keeps them consistent:                                     *)
(*                                                                         *)
(*   - activeNodes, the DCS key active_nodes ({} when the key is absent,   *)
(*     as GetActiveNodes reports it);                                      *)
(*   - quorumReplicas, the replicas whose acknowledgement counts on the    *)
(*     master (valkey option quorum-replicas);                             *)
(*   - numQuorumReplicas, how many of them WAITQUORUM waits for on the     *)
(*     master (valkey option quorum-replicas-to-write).                    *)
(*                                                                         *)
(* No two of them can be written together, any write may fail, and the     *)
(* manager may die between two of them.  Maintenance, the other writer of  *)
(* all three, and the operator's commands that start and stop it are here  *)
(* as well.  The master does not change in this module: a switchover,      *)
(* which writes active_nodes in phase 6, and rdsync switch --force, which  *)
(* writes it before it starts one, are in module Switchover.               *)
(***************************************************************************)
EXTENDS Integers, FiniteSets

CONSTANTS Hosts,    \* the hosts of the shard (DCS path ha_nodes)
          Master    \* the host the DCS path master names

ASSUME HostsAssumption == IsFiniteSet(Hosts) /\ Master \in Hosts

VARIABLES
    activeNodes,        \* DCS: active_nodes
    quorumReplicas,     \* master: quorum-replicas, without the master itself
    numQuorumReplicas,  \* master: quorum-replicas-to-write
    maintenance,        \* DCS: maintenance
    pc,                 \* manager: the call it makes next
    old, new, actual,   \* manager: oldActiveNodes, activeNodes, actualNumReplicas
    leaving,            \* manager: updateActiveNodes was called by leaveMaintenance
    seen,               \* manager: the maintenance record enterMaintenance was given
    cli                 \* maint off: the record it has read and not written yet

dcsVars == <<activeNodes, maintenance>>
masterVars == <<quorumReplicas, numQuorumReplicas>>
localVars == <<old, new, actual, leaving, seen>>
vars == <<dcsVars, masterVars, pc, localVars, cli>>

Replicas == Hosts \ {Master}

NoMaintenance == [exists |-> FALSE, RdSyncPaused |-> FALSE, ShouldLeave |-> FALSE]
MaintenanceRecord(paused, leave) ==
    [exists |-> TRUE, RdSyncPaused |-> paused, ShouldLeave |-> leave]
Maintenances == [exists : BOOLEAN, RdSyncPaused : BOOLEAN, ShouldLeave : BOOLEAN]

-----------------------------------------------------------------------------
(* What one pass of the manager sees of a replica: the cases that          *)
(* calcActiveNodes distinguishes.                                          *)
(*   dcsLockOnly     no ping, but health/<host> is still there             *)
(*   failing         no ping, no health key, InactivationDelay not over    *)
(*   down            the same, InactivationDelay over                      *)
(*   lostMaster      pings, but has no replica state                       *)
(*   notReplicating  pings, but does not replicate from the master         *)
(*   replicating     pings and replicates with its link up                 *)
Observations == {"dcsLockOnly", "failing", "down",
                 "lostMaster", "notReplicating", "replicating"}
Views == [Replicas -> Observations]

\* masterStable: the master answers pings and has done so for the whole window
calcActiveNodes(view, masterStable, oldActiveNodes) ==
    {Master} \cup
    {h \in Replicas :
        \/ view[h] \in {"dcsLockOnly", "failing"} /\ h \in oldActiveNodes
        \/ view[h] = "notReplicating" /\ ~masterStable
        \/ view[h] = "replicating"}

getNumReplicasToWrite(nodes) == Cardinality(nodes) \div 2

\* mutant: one replica less
FailoverQuorumLess(nodes) ==
    LET fq == Cardinality(nodes) - getNumReplicasToWrite(nodes) - 1
    IN  IF fq < 1 THEN 1 ELSE fq

getFailoverQuorum(nodes) ==
    LET fq == Cardinality(nodes) - getNumReplicasToWrite(nodes)
    IN  IF fq < 1 THEN 1 ELSE fq

-----------------------------------------------------------------------------
(* applyActiveNodesTransition: which of its three branches, and the first  *)
(* call of each.  The later calls are one action each below.               *)
expected == getNumReplicasToWrite(new)

\* mutant: a larger set instead of a new member
HasMoreActiveNodes(oldNodes, nodes) == Cardinality(nodes) > Cardinality(oldNodes)

hasAddedActiveNodes(oldNodes, nodes) == nodes \ oldNodes # {}

firstCall(oldNodes, nodes, num) ==
    IF oldNodes = nodes
    THEN IF num < getNumReplicasToWrite(nodes) THEN "raise" ELSE "equalQuorum"
    ELSE IF hasAddedActiveNodes(oldNodes, nodes) \/ getNumReplicasToWrite(nodes) > num
    THEN "growCommon"
    ELSE "shrinkActive"

-----------------------------------------------------------------------------
Init ==
    /\ activeNodes = {}
    /\ quorumReplicas = {}
    /\ numQuorumReplicas = 0
    /\ maintenance = NoMaintenance
    /\ pc = "idle"
    /\ old = {} /\ new = {} /\ actual = 0
    /\ leaving = FALSE
    /\ seen = NoMaintenance
    /\ cli = NoMaintenance

(* The steps of one pass of stateManager that touch this state.            *)

\* No maintenance: the pass reads active_nodes and goes on to repairShard.
ManagerPass ==
    /\ pc = "idle"
    /\ ~maintenance.exists
    /\ old' = activeNodes
    /\ leaving' = FALSE
    /\ pc' = "repairMaster"
    /\ UNCHANGED <<dcsVars, masterVars, new, actual, seen, cli>>

\* repairMaster only ever raises the quorum; when the master does not answer
\* it is skipped, and its errors are only logged.
repairMaster(nodes) ==
    \/ numQuorumReplicas' = numQuorumReplicas
    \/ /\ getNumReplicasToWrite(nodes) > numQuorumReplicas
       /\ numQuorumReplicas' = getNumReplicasToWrite(nodes)

RepairShard ==
    /\ pc = "repairMaster"
    /\ repairMaster(old)
    /\ pc' = "update"
    /\ UNCHANGED <<dcsVars, quorumReplicas, localVars, cli>>

\* updateActiveNodes up to the first call of applyActiveNodesTransition
updateActiveNodes(view, masterStable) ==
    /\ pc = "update"
    /\ new' = calcActiveNodes(view, masterStable, old)
    /\ actual' = numQuorumReplicas
    /\ pc' = firstCall(old, new', actual')
    /\ UNCHANGED <<dcsVars, masterVars, old, leaving, seen, cli>>

\* updateActiveNodes returns nil: to leaveMaintenance, or to the main loop
returned == IF leaving THEN "leaveCheck" ELSE "idle"

SetNum(at, num, next) ==
    /\ pc = at
    /\ numQuorumReplicas' = num
    /\ pc' = next
    /\ UNCHANGED <<dcsVars, quorumReplicas, localVars, cli>>

\* mutant: the master stays in its own list
SetQuorumWithMaster(at, nodes, next) ==
    /\ pc = at
    /\ quorumReplicas' = nodes
    /\ pc' = next
    /\ UNCHANGED <<dcsVars, numQuorumReplicas, localVars, cli>>

SetQuorumReplicas(at, nodes, next) ==
    /\ pc = at
    /\ quorumReplicas' = nodes \ {Master}
    /\ pc' = next
    /\ UNCHANGED <<dcsVars, numQuorumReplicas, localVars, cli>>

SetActiveNodes(at, next) ==
    /\ pc = at
    /\ activeNodes' = new
    /\ pc' = next
    /\ UNCHANGED <<maintenance, masterVars, localVars, cli>>

\* the quorum is raised: the first call when the set stays as it is, the second
\* when it grows
Raise == SetNum("raise", expected, IF old = new THEN "equalQuorum" ELSE "growActive")

\* mutant: a quorum that is too high is left as it is
EqualQuorumKeepsNum == SetQuorumReplicas("equalQuorum", new, returned)

\* the active set stays as it is
EqualQuorum == SetQuorumReplicas("equalQuorum", new,
                    IF actual > expected THEN "equalLower" ELSE returned)
EqualLower == SetNum("equalLower", expected, returned)

\* mutant: active_nodes is published before the quorum is raised
GrowCommonPublishes == SetQuorumReplicas("growCommon", old \cap new, "growActive")

\* a host joins, or the quorum has to grow: acknowledgements are first
\* restricted to the hosts of both sets
GrowCommon == SetQuorumReplicas("growCommon", old \cap new,
                    IF actual < expected THEN "raise" ELSE "growActive")
GrowActive == SetActiveNodes("growActive", "growQuorum")
GrowQuorum == SetQuorumReplicas("growQuorum", new,
                    IF actual > expected THEN "growLower" ELSE returned)
GrowLower == SetNum("growLower", expected, returned)

\* hosts only leave
ShrinkActive == SetActiveNodes("shrinkActive", "shrinkQuorum")
ShrinkQuorum == SetQuorumReplicas("shrinkQuorum", new,
                    IF actual # expected THEN "shrinkNum" ELSE returned)
ShrinkNum == SetNum("shrinkNum", expected, returned)

applyActiveNodesTransition ==
    \/ Raise \/ EqualQuorum \/ EqualLower
    \/ GrowCommon \/ GrowActive \/ GrowQuorum \/ GrowLower
    \/ ShrinkActive \/ ShrinkQuorum \/ ShrinkNum

-----------------------------------------------------------------------------
\* repairLocalNode of the master's own rdsync, which is not the manager: before an
\* offline master is opened its quorum is raised.  The calls are one step, as
\* nobody else reaches an offline server between them.
RepairLocalNode ==
    /\ ~maintenance.RdSyncPaused
    /\ getNumReplicasToWrite(activeNodes) > numQuorumReplicas
    /\ numQuorumReplicas' = getNumReplicasToWrite(activeNodes)
    /\ UNCHANGED <<dcsVars, quorumReplicas, pc, localVars, cli>>

-----------------------------------------------------------------------------
(* enterMaintenance: quorum to 0, active_nodes deleted, record updated.    *)

\* A pass that finds a maintenance record it has not entered yet.
EnterMaintenance ==
    /\ pc = "idle"
    /\ maintenance.exists /\ ~maintenance.RdSyncPaused
    /\ seen' = maintenance
    /\ pc' = "enterNum"
    /\ UNCHANGED <<dcsVars, masterVars, old, new, actual, leaving, cli>>

EnterNum == SetNum("enterNum", 0, "enterDelete")

EnterDelete ==
    /\ pc = "enterDelete"
    /\ activeNodes' = {}
    /\ pc' = "enterPause"
    /\ UNCHANGED <<maintenance, masterVars, localVars, cli>>

\* The whole record is written back as it was read at the start of the pass.
EnterPause ==
    /\ pc = "enterPause"
    /\ maintenance' = [seen EXCEPT !.RdSyncPaused = TRUE]
    /\ pc' = "idle"
    /\ UNCHANGED <<activeNodes, masterVars, localVars, cli>>

\* stateMaintenance with the manager lock: the record is gone or asks to
\* leave.  updateActiveNodes starts from an empty old set.
LeaveMaintenance ==
    /\ pc = "idle"
    /\ ~maintenance.exists \/ maintenance.ShouldLeave
    /\ old' = {}
    /\ leaving' = TRUE
    /\ pc' = "update"
    /\ UNCHANGED <<dcsVars, masterVars, new, actual, seen, cli>>

\* GetActiveNodes after updateActiveNodes; an empty answer is an error
LeaveCheck ==
    /\ pc = "leaveCheck"
    /\ old' = activeNodes
    /\ pc' = IF activeNodes = {} THEN "idle" ELSE "leaveRepair"
    /\ UNCHANGED <<dcsVars, masterVars, new, actual, leaving, seen, cli>>

LeaveRepair ==
    /\ pc = "leaveRepair"
    /\ repairMaster(old)
    /\ pc' = "leaveDelete"
    /\ UNCHANGED <<dcsVars, quorumReplicas, localVars, cli>>

LeaveDelete ==
    /\ pc = "leaveDelete"
    /\ maintenance' = NoMaintenance
    /\ pc' = "idle"
    /\ UNCHANGED <<activeNodes, masterVars, localVars, cli>>

\* Any call may return an error, which ends the pass, and the manager may die
\* and another take over: either way the next pass starts afresh.
Abort ==
    /\ pc # "idle"
    /\ pc' = "idle"
    /\ UNCHANGED <<dcsVars, masterVars, localVars, cli>>

-----------------------------------------------------------------------------
(* The operator: rdsync maint on, and maint off, whose Get and Set are two *)
(* requests.                                                               *)

CliEnableMaintenance ==
    /\ ~maintenance.exists
    /\ maintenance' = MaintenanceRecord(FALSE, FALSE)
    /\ UNCHANGED <<activeNodes, masterVars, pc, localVars, cli>>

CliDisableGet ==
    /\ ~cli.exists
    /\ maintenance.exists
    /\ cli' = maintenance
    /\ UNCHANGED <<dcsVars, masterVars, pc, localVars>>

CliDisableSet ==
    /\ cli.exists
    /\ maintenance' = [cli EXCEPT !.ShouldLeave = TRUE]
    /\ cli' = NoMaintenance
    /\ UNCHANGED <<activeNodes, masterVars, pc, localVars>>

CliDisableMaintenance == CliDisableGet \/ CliDisableSet

-----------------------------------------------------------------------------
Manager ==
    \/ ManagerPass
    \/ RepairShard
    \/ \E view \in Views, masterStable \in BOOLEAN :
            updateActiveNodes(view, masterStable)
    \/ applyActiveNodesTransition
    \/ EnterMaintenance \/ EnterNum \/ EnterDelete \/ EnterPause
    \/ LeaveMaintenance \/ LeaveCheck \/ LeaveRepair \/ LeaveDelete

Next == Manager \/ RepairLocalNode \/ Abort \/ CliEnableMaintenance \/ CliDisableMaintenance

Spec == Init /\ [][Next]_vars

-----------------------------------------------------------------------------
PCs == {"idle", "repairMaster", "update",
        "raise", "equalQuorum", "equalLower",
        "growCommon", "growActive", "growQuorum", "growLower",
        "shrinkActive", "shrinkQuorum", "shrinkNum",
        "enterNum", "enterDelete", "enterPause",
        "leaveCheck", "leaveRepair", "leaveDelete"}

\* The type invariant of the three settings, the maintenance record and the
\* manager's locals (active_nodes.go, maintenance.go).
TypeOK ==
    /\ activeNodes \in SUBSET Hosts
    /\ quorumReplicas \in SUBSET Replicas
    /\ numQuorumReplicas \in Nat
    /\ maintenance \in Maintenances
    /\ pc \in PCs
    /\ old \in SUBSET Hosts /\ new \in SUBSET Hosts /\ actual \in Nat
    /\ leaving \in BOOLEAN
    /\ seen \in Maintenances
    /\ cli \in Maintenances

\* Whenever failover is possible (no maintenance record), the master waits for
\* at least half of the active nodes: at every point between the calls of
\* applyActiveNodesTransition, and whatever call failed or was never made.
MajorityAcknowledges ==
    ~maintenance.exists =>
        numQuorumReplicas >= getNumReplicasToWrite(activeNodes)

\* When acknowledgements come only from active nodes, the replicas that let
\* WAITQUORUM return and the replicas that are enough for approveFailover have
\* a host in common, so that host's data is among those failover chooses from.
QuorumsIntersect ==
    (~maintenance.exists /\ quorumReplicas \subseteq activeNodes) =>
        \A acked \in SUBSET quorumReplicas,
           alive \in SUBSET (activeNodes \ {Master}) :
              (/\ Cardinality(acked) >= numQuorumReplicas
               /\ Cardinality(alive) >= getFailoverQuorum(activeNodes))
              => acked \cap alive # {}

\* A step that adds a host to active_nodes is taken only when no host outside
\* the new set can acknowledge a write on the master (the branch of
\* applyActiveNodesTransition that first restricts quorum-replicas).
JoinsAreCovered ==
    [][activeNodes' \ activeNodes # {} => quorumReplicas \subseteq activeNodes']_vars
=============================================================================
