------------------------- MODULE ActiveNodesProofs -------------------------
(***************************************************************************)
(* What ActiveNodes guarantees for every shard size: the type invariant,   *)
(* that the master always waits for at least half of the active nodes      *)
(* (MajorityAcknowledges), hence that acknowledgements and failovers       *)
(* intersect (QuorumsIntersect), and that a joining host never finds a     *)
(* foreign acknowledger on the master (JoinsAreCovered).                   *)
(***************************************************************************)
EXTENDS ActiveNodes, FiniteSetTheorems, TLAPS

\* the master waits for at least half of the given nodes
Waits(nodes) == numQuorumReplicas >= getNumReplicasToWrite(nodes)

\* updateActiveNodes has computed new; the DCS still holds the old set
BeforeActive == {"raise", "equalQuorum", "equalLower",
                 "growCommon", "growActive", "shrinkActive"}
\* the new set is in the DCS
AfterActive == {"growQuorum", "growLower", "shrinkQuorum", "shrinkNum"}
Entering == {"enterNum", "enterDelete", "enterPause"}
Leaving == {"leaveCheck", "leaveRepair", "leaveDelete"}

\* a pass of stateManager works on the active set it has read, and that set
\* was covered when the pass began
PassInv ==
    /\ (pc \in {"repairMaster", "update"} \cup BeforeActive /\ ~leaving) =>
           (activeNodes = old /\ Waits(activeNodes))
    /\ (pc = "repairMaster" => ~leaving)
    /\ (leaving /\ pc \in {"update"} \cup BeforeActive) => old = {}

\* what each call of applyActiveNodesTransition relies on; repairLocalNode may have
\* raised the quorum since the manager has read it
TransitionInv ==
    /\ pc \in BeforeActive \cup AfterActive => Master \in new
    /\ pc \in {"equalQuorum", "equalLower"} => old = new
    /\ pc \in {"raise", "growCommon", "shrinkActive"} =>
           actual <= numQuorumReplicas
    /\ pc \in {"raise", "growCommon"} /\ (leaving => ~maintenance.exists) =>
           actual >= getNumReplicasToWrite(activeNodes)
    /\ pc = "raise" => actual < expected
    /\ pc = "raise" /\ old # new => quorumReplicas \subseteq new
    /\ pc = "growActive" => quorumReplicas \subseteq new /\ Waits(new)
    /\ pc = "shrinkActive" => new \subseteq old /\ Waits(new) /\ ~leaving
    /\ pc \in AfterActive => activeNodes = new /\ Waits(new)

\* maintenance suspends the requirement; it is restored before it ends
MaintenanceInv ==
    /\ pc \in Entering => maintenance.exists /\ seen.exists
    /\ pc \in Leaving => Waits(activeNodes)

MasterActive == activeNodes = {} \/ Master \in activeNodes

IndInv ==
    /\ TypeOK
    /\ MajorityAcknowledges
    /\ MasterActive
    /\ PassInv
    /\ TransitionInv
    /\ MaintenanceInv

-----------------------------------------------------------------------------
\* Half of a set of hosts is a natural number (getNumReplicasToWrite).
LEMMA NumReplicasType ==
    ASSUME NEW nodes \in SUBSET Hosts
    PROVE  /\ Cardinality(nodes) \in Nat
           /\ getNumReplicasToWrite(nodes) \in Nat
<1>1. IsFiniteSet(nodes)
    BY HostsAssumption, FS_Subset
<1>2. Cardinality(nodes) \in Nat
    BY <1>1, FS_CardinalityType
<1> QED
    BY <1>2, SMT DEF getNumReplicasToWrite

\* The active set that calcActiveNodes returns always contains the master.
LEMMA CalcType ==
    ASSUME NEW view, NEW stable, NEW nodes
    PROVE  /\ calcActiveNodes(view, stable, nodes) \in SUBSET Hosts
           /\ Master \in calcActiveNodes(view, stable, nodes)
BY HostsAssumption DEF calcActiveNodes, Replicas

\* The records the CLI and the manager write are maintenance records.
LEMMA MaintenanceType ==
    /\ NoMaintenance \in Maintenances /\ ~NoMaintenance.exists
    /\ MaintenanceRecord(FALSE, FALSE) \in Maintenances
    /\ MaintenanceRecord(FALSE, FALSE).exists
    /\ \A r \in Maintenances : r.exists =>
           /\ [r EXCEPT !.RdSyncPaused = TRUE] \in Maintenances
           /\ [r EXCEPT !.RdSyncPaused = TRUE].exists
           /\ [r EXCEPT !.ShouldLeave = TRUE] \in Maintenances
           /\ [r EXCEPT !.ShouldLeave = TRUE].exists
BY DEF Maintenances, NoMaintenance, MaintenanceRecord

\* The initial state satisfies the inductive invariant.
LEMMA InitInv == Init => IndInv
<1> SUFFICES ASSUME Init PROVE IndInv
    OBVIOUS
<1>1. TypeOK
    BY MaintenanceType DEF Init, TypeOK, PCs
<1>2. getNumReplicasToWrite({}) = 0
    BY FS_EmptySet, SMT DEF getNumReplicasToWrite
<1> QED
    BY <1>1, <1>2, SMT DEF Init, IndInv, MajorityAcknowledges, MasterActive, PassInv,
        TransitionInv, MaintenanceInv, Waits, BeforeActive, AfterActive, Entering, Leaving

\* Every step keeps the types.
LEMMA TypeStep == TypeOK /\ [Next]_vars => TypeOK'
<1> SUFFICES ASSUME TypeOK, [Next]_vars PROVE TypeOK'
    OBVIOUS
<1> USE DEF TypeOK, PCs, Replicas, dcsVars, masterVars, localVars
<1>0. /\ getNumReplicasToWrite(old) \in Nat
      /\ getNumReplicasToWrite(new) \in Nat
    BY NumReplicasType
<1>1. CASE ManagerPass
    BY <1>0, <1>1 DEF ManagerPass
<1>2. CASE RepairShard
    BY <1>0, <1>2 DEF RepairShard, repairMaster
<1>3. CASE Raise
    BY <1>0, <1>3 DEF Raise, SetNum, expected
<1>4. CASE EqualQuorum
    BY <1>0, <1>4 DEF EqualQuorum, SetQuorumReplicas, returned
<1>5. CASE EqualLower
    BY <1>0, <1>5 DEF EqualLower, SetNum, expected, returned
<1>6. CASE GrowCommon
    BY <1>0, <1>6 DEF GrowCommon, SetQuorumReplicas, returned
<1>7. CASE RepairLocalNode
    BY <1>7, NumReplicasType DEF RepairLocalNode
<1>8. CASE GrowActive
    BY <1>0, <1>8 DEF GrowActive, SetActiveNodes
<1>9. CASE GrowQuorum
    BY <1>0, <1>9 DEF GrowQuorum, SetQuorumReplicas, returned
<1>10. CASE GrowLower
    BY <1>0, <1>10 DEF GrowLower, SetNum, expected, returned
<1>11. CASE ShrinkActive
    BY <1>0, <1>11 DEF ShrinkActive, SetActiveNodes
<1>12. CASE ShrinkQuorum
    BY <1>0, <1>12 DEF ShrinkQuorum, SetQuorumReplicas, returned
<1>13. CASE ShrinkNum
    BY <1>0, <1>13 DEF ShrinkNum, SetNum, expected, returned
<1>14. CASE EnterMaintenance
    BY <1>14, MaintenanceType DEF EnterMaintenance
<1>15. CASE EnterNum
    BY <1>0, <1>15 DEF EnterNum, SetNum
<1>16. CASE EnterDelete
    BY <1>0, <1>16 DEF EnterDelete
<1>17. CASE EnterPause
    BY <1>17 DEF EnterPause, Maintenances
<1>18. CASE LeaveMaintenance
    BY <1>0, <1>18 DEF LeaveMaintenance
<1>19. CASE LeaveCheck
    BY <1>0, <1>19 DEF LeaveCheck
<1>20. CASE LeaveRepair
    BY <1>0, <1>20 DEF LeaveRepair, repairMaster
<1>21. CASE LeaveDelete
    BY <1>21, MaintenanceType DEF LeaveDelete
<1>22. CASE Abort
    BY <1>0, <1>22 DEF Abort
<1>23. CASE CliEnableMaintenance
    BY <1>23, MaintenanceType DEF CliEnableMaintenance
<1>24. CASE CliDisableGet
    BY <1>24, MaintenanceType DEF CliDisableGet
<1>25. CASE CliDisableSet
    BY <1>25 DEF CliDisableSet, Maintenances, NoMaintenance
<1>26. ASSUME NEW view \in Views, NEW stable \in BOOLEAN, updateActiveNodes(view, stable)
      PROVE  TypeOK'
    BY <1>26, CalcType DEF updateActiveNodes, firstCall
<1>27. CASE UNCHANGED vars
    BY <1>27 DEF vars
<1> QED
    BY <1>1, <1>2, <1>3, <1>4, <1>5, <1>6, <1>7, <1>8, <1>9, <1>10, <1>11,
       <1>12, <1>13, <1>14, <1>15, <1>16, <1>17, <1>18, <1>19, <1>20, <1>21,
       <1>22, <1>23, <1>24, <1>25, <1>26, <1>27
    DEF Next, Manager, applyActiveNodesTransition, CliDisableMaintenance

\* Every step keeps the inductive invariant.
LEMMA IndStep == IndInv /\ [Next]_vars => IndInv'
<1> SUFFICES ASSUME IndInv, [Next]_vars PROVE IndInv'
    OBVIOUS
<1> DEFINE Rest == MajorityAcknowledges /\ MasterActive /\ PassInv
                       /\ TransitionInv /\ MaintenanceInv
<1>t. TypeOK /\ TypeOK'
    BY TypeStep DEF IndInv
<1>n. /\ getNumReplicasToWrite(old) \in Nat
      /\ getNumReplicasToWrite(new) \in Nat
      /\ getNumReplicasToWrite(activeNodes) \in Nat
      /\ getNumReplicasToWrite({}) = 0
      /\ numQuorumReplicas \in Nat /\ actual \in Nat
    BY <1>t, NumReplicasType, FS_EmptySet, SMT DEF TypeOK, getNumReplicasToWrite
<1> USE DEF IndInv, MajorityAcknowledges, MasterActive, PassInv, TransitionInv,
        MaintenanceInv, Waits, BeforeActive, AfterActive, Entering, Leaving,
        expected, dcsVars, masterVars, localVars
<1>1. ASSUME ManagerPass PROVE Rest'
    BY <1>n, <1>1 DEF ManagerPass
<1>2. ASSUME RepairShard PROVE Rest'
    BY <1>n, <1>2 DEF RepairShard, repairMaster
<1>3. ASSUME Raise PROVE Rest'
    BY <1>n, <1>3 DEF Raise, SetNum
<1>4. ASSUME EqualQuorum PROVE Rest'
    BY <1>n, <1>4 DEF EqualQuorum, SetQuorumReplicas, returned
<1>5. ASSUME EqualLower PROVE Rest'
    BY <1>n, <1>5 DEF EqualLower, SetNum, returned
<1>6. ASSUME GrowCommon PROVE Rest'
    BY <1>n, <1>6 DEF GrowCommon, SetQuorumReplicas
<1>7. ASSUME RepairLocalNode PROVE Rest'
    BY <1>n, <1>7 DEF RepairLocalNode
<1>8. ASSUME GrowActive PROVE Rest'
    BY <1>n, <1>8 DEF GrowActive, SetActiveNodes
<1>9. ASSUME GrowQuorum PROVE Rest'
    BY <1>n, <1>9 DEF GrowQuorum, SetQuorumReplicas, returned
<1>10. ASSUME GrowLower PROVE Rest'
    BY <1>n, <1>10 DEF GrowLower, SetNum, returned
<1>11. ASSUME ShrinkActive PROVE Rest'
    BY <1>n, <1>11 DEF ShrinkActive, SetActiveNodes
<1>12. ASSUME ShrinkQuorum PROVE Rest'
    BY <1>n, <1>12 DEF ShrinkQuorum, SetQuorumReplicas, returned
<1>13. ASSUME ShrinkNum PROVE Rest'
    BY <1>n, <1>13 DEF ShrinkNum, SetNum, returned
<1>14. ASSUME EnterMaintenance PROVE Rest'
    BY <1>t, <1>n, <1>14, MaintenanceType DEF EnterMaintenance, TypeOK
<1>15. ASSUME EnterNum PROVE Rest'
    BY <1>n, <1>15 DEF EnterNum, SetNum
<1>16. ASSUME EnterDelete PROVE Rest'
    BY <1>n, <1>16 DEF EnterDelete
<1>17. ASSUME EnterPause PROVE Rest'
    BY <1>t, <1>n, <1>17, MaintenanceType DEF EnterPause, TypeOK
<1>18. ASSUME LeaveMaintenance PROVE Rest'
    BY <1>n, <1>18 DEF LeaveMaintenance
<1>19. ASSUME LeaveCheck PROVE Rest'
    BY <1>n, <1>19 DEF LeaveCheck
<1>20. ASSUME LeaveRepair PROVE Rest'
    BY <1>n, <1>20 DEF LeaveRepair, repairMaster
<1>21. ASSUME LeaveDelete PROVE Rest'
    BY <1>t, <1>n, <1>21, MaintenanceType DEF LeaveDelete, TypeOK
<1>22. ASSUME Abort PROVE Rest'
    BY <1>n, <1>22 DEF Abort
<1>23. ASSUME CliEnableMaintenance PROVE Rest'
    BY <1>t, <1>n, <1>23, MaintenanceType DEF CliEnableMaintenance, TypeOK
<1>24. ASSUME CliDisableGet PROVE Rest'
    BY <1>t, <1>n, <1>24, MaintenanceType DEF CliDisableGet, TypeOK
<1>25. ASSUME CliDisableSet PROVE Rest'
    BY <1>t, <1>n, <1>25, MaintenanceType DEF CliDisableSet, TypeOK
<1>26. ASSUME NEW view \in Views, NEW stable \in BOOLEAN, updateActiveNodes(view, stable)
      PROVE  Rest'
    BY <1>t, <1>n, <1>26, CalcType, NumReplicasType
    DEF updateActiveNodes, firstCall, hasAddedActiveNodes
<1>27. ASSUME UNCHANGED vars PROVE Rest'
    BY <1>27 DEF vars
<1>28. Rest'
    BY <1>1, <1>2, <1>3, <1>4, <1>5, <1>6, <1>7, <1>8, <1>9, <1>10, <1>11,
       <1>12, <1>13, <1>14, <1>15, <1>16, <1>17, <1>18, <1>19, <1>20, <1>21,
       <1>22, <1>23, <1>24, <1>25, <1>26, <1>27
    DEF Next, Manager, applyActiveNodesTransition, CliDisableMaintenance
<1> QED
    BY <1>t, <1>28

\* The inductive invariant is an invariant of the specification.
LEMMA Inductive == Spec => []IndInv
BY InitInv, IndStep, PTL DEF Spec

\* The DCS keys, the master's settings and the manager's locals keep their
\* types, for every set of hosts.
THEOREM TypeCorrect == Spec => []TypeOK
<1>1. IndInv => TypeOK
    BY DEF IndInv
<1> QED
    BY <1>1, Inductive, PTL

\* Outside maintenance the master waits for at least half of the active nodes,
\* at every point between the calls of updateActiveNodes, enterMaintenance and
\* leaveMaintenance, and after any of them fails.
THEOREM MajorityAlways == Spec => []MajorityAcknowledges
<1>1. IndInv => MajorityAcknowledges
    BY DEF IndInv
<1> QED
    BY <1>1, Inductive, PTL

\* Half of the active nodes acknowledging and enough of them alive for
\* getFailoverQuorum have a replica in common.
LEMMA QuorumOverlap ==
    ASSUME NEW nodes \in SUBSET Hosts, nodes = {} \/ Master \in nodes,
           NEW acked \in SUBSET (nodes \ {Master}),
           NEW alive \in SUBSET (nodes \ {Master}),
           Cardinality(acked) >= getNumReplicasToWrite(nodes),
           Cardinality(alive) >= getFailoverQuorum(nodes)
    PROVE  acked \cap alive # {}
<1> DEFINE U == nodes \ {Master}
<1>1. IsFiniteSet(nodes) /\ IsFiniteSet(U)
    BY HostsAssumption, FS_Subset
<1>2. IsFiniteSet(acked) /\ IsFiniteSet(alive)
    BY <1>1, FS_Subset
<1>3. /\ Cardinality(nodes) \in Nat /\ Cardinality(U) \in Nat
      /\ Cardinality(acked) \in Nat /\ Cardinality(alive) \in Nat
    BY <1>1, <1>2, FS_CardinalityType
<1>4. CASE nodes = {}
    <2>1. Cardinality(alive) = 0
        BY <1>4, FS_EmptySet
    <2>2. getFailoverQuorum(nodes) \in Int /\ getFailoverQuorum(nodes) >= 1
        BY <1>3, SMT DEF getFailoverQuorum, getNumReplicasToWrite
    <2> QED
        BY <1>3, <2>1, <2>2
<1>5. CASE Master \in nodes
    <2>1. Cardinality(U) = Cardinality(nodes) - 1
        BY <1>1, <1>5, FS_RemoveElement
    <2>2. getNumReplicasToWrite(nodes) + getFailoverQuorum(nodes) >= Cardinality(nodes)
        BY <1>3, SMT DEF getFailoverQuorum, getNumReplicasToWrite
    <2>3. getNumReplicasToWrite(nodes) \in Int /\ getFailoverQuorum(nodes) \in Int
        BY <1>3, SMT DEF getFailoverQuorum, getNumReplicasToWrite
    <2>4. Cardinality(acked) + Cardinality(alive) > Cardinality(U)
        BY <1>3, <2>1, <2>2, <2>3
    <2> HIDE DEF U
    <2>5. acked \subseteq U /\ alive \subseteq U
        BY DEF U
    <2> QED
        BY <1>1, <2>4, <2>5, FS_MajoritiesIntersect
<1> QED
    BY <1>4, <1>5

\* Whatever replicas acknowledged a write and whatever replicas a failover is
\* approved with, outside maintenance and outside the window in which a
\* removed host may still acknowledge, they share a host.
THEOREM QuorumsAlwaysIntersect == Spec => []QuorumsIntersect
<1>1. IndInv => QuorumsIntersect
    <2> SUFFICES ASSUME IndInv, ~maintenance.exists, quorumReplicas \subseteq activeNodes,
                        NEW acked \in SUBSET quorumReplicas,
                        NEW alive \in SUBSET (activeNodes \ {Master}),
                        Cardinality(acked) >= numQuorumReplicas,
                        Cardinality(alive) >= getFailoverQuorum(activeNodes)
                 PROVE  acked \cap alive # {}
        BY DEF QuorumsIntersect
    <2>1. activeNodes \in SUBSET Hosts /\ acked \in SUBSET (activeNodes \ {Master})
        BY DEF IndInv, TypeOK, Replicas
    <2>2. Cardinality(acked) >= getNumReplicasToWrite(activeNodes)
        <3>1. getNumReplicasToWrite(activeNodes) \in Nat
            BY <2>1, NumReplicasType
        <3>2. Cardinality(acked) \in Nat
            BY <2>1, NumReplicasType
        <3> QED
            BY <3>1, <3>2 DEF IndInv, TypeOK, MajorityAcknowledges
    <2> QED
        BY <2>1, <2>2, QuorumOverlap DEF IndInv, MasterActive
<1> QED
    BY <1>1, Inductive, PTL

\* No host joins the active set while a host outside the new set may still
\* acknowledge writes on the master.
THEOREM JoinsAlwaysCovered == Spec => JoinsAreCovered
<1> DEFINE Covered == activeNodes' \ activeNodes # {} => quorumReplicas \subseteq activeNodes'
<1>1. IndInv /\ [Next]_vars => [Covered]_vars
    <2> SUFFICES ASSUME IndInv, Next, activeNodes' \ activeNodes # {}
                 PROVE  quorumReplicas \subseteq activeNodes'
        OBVIOUS
    <2>1. GrowActive \/ ShrinkActive
        BY DEF Next, Manager, ManagerPass, RepairShard, updateActiveNodes,
            applyActiveNodesTransition, Raise, EqualQuorum, EqualLower,
            GrowCommon, GrowQuorum, GrowLower, ShrinkQuorum, ShrinkNum,
            SetNum, SetQuorumReplicas, EnterMaintenance, EnterNum, EnterDelete,
            EnterPause, LeaveMaintenance, LeaveCheck, LeaveRepair, LeaveDelete,
            RepairLocalNode, Abort,
            CliEnableMaintenance, CliDisableMaintenance, CliDisableGet, CliDisableSet,
            dcsVars
    <2>2. CASE GrowActive
        BY <2>2 DEF GrowActive, SetActiveNodes, IndInv, TransitionInv
    <2>3. CASE ShrinkActive
        BY <2>3 DEF ShrinkActive, SetActiveNodes, IndInv, PassInv, TransitionInv, BeforeActive
    <2> QED
        BY <2>1, <2>2, <2>3
<1> QED
    BY <1>1, Inductive, PTL DEF Spec, JoinsAreCovered
=============================================================================
