----------------------- MODULE ActiveNodesLiveProofs -----------------------
(***************************************************************************)
(* The passes of ActiveNodesLive, whose environment calms down and whose   *)
(* view of the replicas is a variable, are passes of ActiveNodes: what is  *)
(* proved of ActiveNodes holds of them, for every shard and any number of  *)
(* disturbances.                                                           *)
(***************************************************************************)
EXTENDS ActiveNodesLive, ActiveNodesProofs

ViewTypes == view \in Views /\ masterStable \in BOOLEAN

\* Every pass works with a view that updateActiveNodes can have.
LEMMA ViewTypesInvariant == LiveSpec => []ViewTypes
<1>1. LiveInit => ViewTypes
    BY DEF LiveInit, ViewTypes, Views, Observations
<1>2. ViewTypes /\ [LiveNext]_liveVars => ViewTypes'
    BY DEF ViewTypes, LiveNext, ManagerStep, ViewChanges, Interference, Operator, liveVars
<1> QED
    BY <1>1, <1>2, PTL DEF LiveSpec

\* ActiveNodesLive implements ActiveNodes: it bounds the disturbances and assumes
\* fairness of the ticker, and adds no step of its own to the settings.
THEOREM LiveImplementsActiveNodes == LiveSpec => Spec
<1>1. LiveInit => Init
    BY DEF LiveInit
<1>2. ViewTypes /\ [LiveNext]_liveVars => [Next]_vars
    <2> SUFFICES ASSUME ViewTypes, [LiveNext]_liveVars
                 PROVE  [Next]_vars
        OBVIOUS
    <2>1. CASE ManagerStep
        <3>1. updateActiveNodes(view, masterStable) => Manager
            BY DEF ViewTypes, Manager
        <3> QED
            BY <2>1, <3>1 DEF ManagerStep, Next, Manager
    <2>2. CASE ViewChanges
        BY <2>2 DEF ViewChanges
    <2>3. CASE Interference
        BY <2>3 DEF Interference, LateLeave, Next, Manager, CliDisableMaintenance
    <2>4. CASE Operator
        BY <2>4 DEF Operator, Next, CliDisableMaintenance
    <2>5. CASE UNCHANGED liveVars
        BY <2>5 DEF liveVars
    <2> QED
        BY <2>1, <2>2, <2>3, <2>4, <2>5 DEF LiveNext
<1> QED
    BY <1>1, <1>2, ViewTypesInvariant, PTL DEF LiveSpec, Spec

\* The safety properties of the run hold of the specification that it checks, for
\* every shard and any number of disturbances.
THEOREM LiveIsSafe ==
    LiveSpec => [](TypeOK /\ MajorityAcknowledges /\ QuorumsIntersect) /\ JoinsAreCovered
BY LiveImplementsActiveNodes, TypeCorrect, MajorityAlways, QuorumsAlwaysIntersect,
   JoinsAlwaysCovered, PTL
=============================================================================
