-------------------------- MODULE SwitchoverProofs --------------------------
(***************************************************************************)
(* What Switchover guarantees for every shard, every number of writes and  *)
(* every budget of disturbances, changes of the network among them: its    *)
(* types, that the positions a new master is chosen by cover every quorum  *)
(* of the active nodes (PositionsCoverQuorum), and that the choice stands  *)
(* until the record is gone (ChoiceStands); and what the refinement of     *)
(* Shard, which TLC checks, implies.                                       *)
(***************************************************************************)
EXTENDS Switchover, FiniteSetTheorems, WellFoundedInduction, TLAPS

Managers == [pc : PCs, sw : Records, oldMaster : Hosts \cup {NoHost},
             snap : SUBSET Hosts, links : SUBSET Hosts, act : SUBSET Hosts,
             fq : Int, alive : SUBSET Hosts, behind : BOOLEAN]

Writes == [state : {"none", "waiting", "acked", "unknown"},
           host : Hosts \cup {NoHost}, need : Nat]

ServerTypes ==
    /\ src \in [Hosts -> Hosts]
    /\ ro \subseteq Hosts /\ paused \subseteq Hosts /\ offline \subseteq Hosts
    /\ lasting \subseteq Hosts
    /\ num \in [Hosts -> 0 .. Cardinality(Hosts)]
    /\ quorum \in [Hosts -> SUBSET Hosts]
    /\ log \in [Hosts -> SUBSET WriteIds]

DcsTypes ==
    /\ dcsMaster \in Hosts /\ active \subseteq Hosts
    /\ current \in Records
    /\ pill \in [host : Hosts \cup {NoHost}, Applied : BOOLEAN]

EnvTypes ==
    /\ local \in Hosts /\ reach \subseteq Hosts /\ broken \subseteq Hosts
    /\ writes \in [WriteIds -> Writes]
    /\ spent \in [Kinds -> Nat]
    /\ forcing \in Hosts \cup {NoHost}

\* a record has its hosts from phase 3 on
Named(record) == record.phase >= 3 => record.newMaster \in Hosts /\ record.mostRecent \in Hosts

\* the calls that act on the new master
Acting == {"catchup", "wait", "refresh", "setMaster", "secondPill", "secondWait",
           "setNum", "promote", "phase6", "setActive", "open", "turn", "turned"}

MgrTypes ==
    /\ mgr \in Managers
    /\ Named(current) /\ Named(mgr.sw)
    /\ mgr.pc \in Acting => mgr.sw.phase >= 3

TypeInv == ServerTypes /\ DcsTypes /\ EnvTypes /\ MgrTypes

\* the calls before the hosts are made read-only, and those between that and the
\* comparison of the positions
Reading == {"start", "progress", "target"}
Stopping == {"firstPill", "firstWait", "pause"}

\* What the manager counts on is what active_nodes still says: the set it has
\* read, then the quorum of that set and members of it.
CountInv ==
    spent["forced"] = 0 =>
        /\ mgr.pc \in Reading => mgr.act = active
        /\ mgr.pc \in Stopping \cup Compared =>
               mgr.alive \subseteq active /\ mgr.fq = getFailoverQuorum(active)
        /\ mgr.pc \in Compared => Cardinality(mgr.alive) >= mgr.fq

\* A host that is counted stays read-only, unless it is the new master.
StoppedInv ==
    /\ mgr.pc \in (Stopping \cup Compared) \ Opened => mgr.alive \subseteq ro
    /\ mgr.pc \in Opened => mgr.alive \subseteq ro \cup {mgr.sw.newMaster}

\* a manager at work has the choice that the record in the DCS has, if any
SameChoice ==
    mgr.pc # "idle" /\ current.exists /\ current.phase >= 3 =>
        mgr.sw.phase >= 3 /\ mgr.sw.newMaster = current.newMaster

IndInv == TypeInv /\ CountInv /\ StoppedInv /\ SameChoice

-----------------------------------------------------------------------------
\* The smallest of a set of writes exists.
LEMMA Smallest ==
    ASSUME NEW T \in SUBSET Nat, T # {}
    PROVE  \E x \in T : \A y \in T : x <= y
<1> DEFINE R == OpToRel(<, Nat)
<1>1. IsWellFoundedOn(R, Nat)
    BY NatLessThanWellFounded, Zenon
<1>2. \A x, y \in Nat : <<x, y>> \in R <=> x < y
    BY DEF OpToRel
<1> HIDE DEF R
<1>3. PICK x \in T : \A y \in T : ~ (<<y, x>> \in R)
    BY <1>1, WFMin
<1>4. ASSUME NEW y \in T PROVE x <= y
    <2>1. x \in Nat /\ y \in Nat
        OBVIOUS
    <2>2. ~(y < x)
        BY <1>2, <1>3, <2>1, Zenon
    <2> QED
        BY <2>1, <2>2
<1> QED
    BY <1>4

\* Half of the hosts, or of some of them, is a number of hosts.
LEMMA NumReplicasType ==
    ASSUME NEW nodes \in SUBSET Hosts
    PROVE  /\ IsFiniteSet(nodes) /\ Cardinality(nodes) \in 0 .. Cardinality(Hosts)
           /\ getNumReplicasToWrite(nodes) \in 0 .. Cardinality(Hosts)
           /\ getFailoverQuorum(nodes) \in Int
           /\ Cardinality(Hosts) \in Nat
<1>1. /\ IsFiniteSet(nodes) /\ Cardinality(nodes) <= Cardinality(Hosts)
      /\ IsFiniteSet(Hosts)
    BY SwitchoverAssumption, FS_Subset
<1>2. Cardinality(nodes) \in Nat /\ Cardinality(Hosts) \in Nat
    BY <1>1, FS_CardinalityType
<1> QED
    BY <1>1, <1>2 DEF getNumReplicasToWrite, getFailoverQuorum

\* The records that the operator and the manager make are records.
LEMMA RecordTypes ==
    /\ \A auto, retried \in BOOLEAN, from, to \in Hosts \cup {NoHost} :
           /\ Switch(auto, from, to, retried) \in Records
           /\ Switch(auto, from, to, retried).exists
           /\ Switch(auto, from, to, retried).phase = 0
    /\ NoSwitch \in Records /\ ~NoSwitch.exists /\ NoSwitch.phase = 0
    /\ Idle \in Managers /\ Idle.pc = "idle" /\ Idle.sw = NoSwitch
    /\ NoPill \in [host : Hosts \cup {NoHost}, Applied : BOOLEAN]
<1>1. \A auto, retried \in BOOLEAN, from, to \in Hosts \cup {NoHost} :
           /\ Switch(auto, from, to, retried) \in Records
           /\ Switch(auto, from, to, retried).exists
           /\ Switch(auto, from, to, retried).phase = 0
    BY DEF Switch, Records
<1>2. NoSwitch \in Records /\ ~NoSwitch.exists /\ NoSwitch.phase = 0
    BY DEF NoSwitch, Switch, Records
<1>3. Idle \in Managers /\ Idle.pc = "idle" /\ Idle.sw = NoSwitch
    BY <1>2 DEF Idle, Managers, PCs
<1> QED
    BY <1>1, <1>2, <1>3 DEF NoPill, Pill

\* The initial state satisfies the inductive invariant.
LEMMA InitInv == Init => IndInv
<1> SUFFICES ASSUME Init PROVE IndInv
    OBVIOUS
<1>1. ServerTypes
    BY SwitchoverAssumption, NumReplicasType DEF Init, ServerTypes
<1>2. DcsTypes
    BY SwitchoverAssumption, RecordTypes DEF Init, DcsTypes
<1>3. EnvTypes
    <2>1. NoWrite \in Writes
        BY DEF NoWrite, Writes
    <2> QED
        BY <2>1 DEF Init, EnvTypes
<1>4. MgrTypes
    BY RecordTypes DEF Init, MgrTypes, Named, Acting
<1>5. CountInv /\ StoppedInv /\ SameChoice
    BY RecordTypes
    DEF Init, CountInv, StoppedInv, SameChoice, Reading, Stopping, Compared, Opened
<1> QED
    BY <1>1, <1>2, <1>3, <1>4, <1>5 DEF IndInv, TypeInv

-----------------------------------------------------------------------------
(* What the helpers of the actions return.                                 *)

\* The master that a pass works with is a host of the shard (getCurrentMaster).
LEMMA CurrentMasterType ==
    ASSUME TypeInv
    PROVE  currentMaster \in Hosts
<1> DEFINE masters == {h \in reach : isMaster(h)}
<1>1. Cardinality(masters) = 1 => masters # {}
    BY FS_EmptySet
<1>2. masters \subseteq Hosts
    BY DEF TypeInv, EnvTypes
<1> QED
    BY <1>1, <1>2 DEF currentMaster, TypeInv, DcsTypes

\* The hosts that answer the manager are hosts in its reach (SetOffline).
LEMMA AnswersType ==
    ASSUME TypeInv
    PROVE  /\ answers \subseteq reach /\ answers \subseteq Hosts
           /\ psyncNodes \subseteq answers /\ psyncNodes \subseteq Hosts
BY DEF answers, psyncNodes, TypeInv, EnvTypes

\* The links that last are those of hosts of the shard.
LEMMA KeepLinksType ==
    ASSUME keepLinks
    PROVE  lasting' \subseteq Hosts
BY DEF keepLinks

\* Clients that are disconnected leave writes of the right type.
LEMMA DropClientsType ==
    ASSUME TypeInv, NEW hs, dropClients(hs)
    PROVE  writes' \in [WriteIds -> Writes]
<1>1. \A n \in WriteIds : [writes[n] EXCEPT !.state = "unknown"] \in Writes
    BY DEF TypeInv, EnvTypes, Writes
<1> QED
    BY <1>1 DEF dropClients, TypeInv, EnvTypes

\* A budget is spent in natural numbers, and nothing is ever given back.
LEMMA SpendType ==
    ASSUME TypeInv, NEW kinds, Spend(kinds)
    PROVE  spent' \in [Kinds -> Nat] /\ \A k \in Kinds : spent'[k] >= spent[k]
BY DEF TypeInv, EnvTypes, Spend

\* REPLICAOF and resume keep the types (repairReplica).
LEMMA RepairReplicaType ==
    ASSUME TypeInv, NEW hs, NEW master \in Hosts, repairReplica(hs, master)
    PROVE  /\ src' \in [Hosts -> Hosts] /\ quorum' \in [Hosts -> SUBSET Hosts]
           /\ paused' \subseteq Hosts /\ writes' \in [WriteIds -> Writes]
<1>1. writes' \in [WriteIds -> Writes]
    BY DropClientsType DEF repairReplica
<1> QED
    BY <1>1 DEF repairReplica, TypeInv, ServerTypes

\* The next write of the stream is one that the source holds (replication).
LEMMA ReplicateType ==
    ASSUME TypeInv, NEW r \in Hosts, Replicate(r)
    PROVE  log' \in [Hosts -> SUBSET WriteIds]
<1> DEFINE missing == log[src[r]] \ log[r]
           next == CHOOSE x \in missing : \A y \in missing : x <= y
<1>1. log[r] \subseteq WriteIds /\ log[src[r]] \subseteq WriteIds /\ WriteIds \subseteq Nat
    BY SwitchoverAssumption DEF TypeInv, ServerTypes, WriteIds
<1>2. CASE isPrefix(log[r], log[src[r]])
    <2>1. missing # {} /\ missing \in SUBSET Nat
        BY <1>1, <1>2 DEF Replicate, isPrefix
    <2>2. next \in missing
        BY <2>1, Smallest
    <2>3. log' = [log EXCEPT ![r] = log[r] \cup {next}]
        BY <1>2 DEF Replicate
    <2> HIDE DEF next
    <2> QED
        BY <1>1, <2>2, <2>3 DEF TypeInv, ServerTypes
<1>3. CASE ~isPrefix(log[r], log[src[r]])
    BY <1>1, <1>3 DEF Replicate, TypeInv, ServerTypes
<1> QED
    BY <1>2, <1>3

-----------------------------------------------------------------------------
(* The types, one group of variables at a time: most actions leave most    *)
(* groups alone.                                                           *)

\* A server's settings keep their types under every call of the manager, of the
\* host's own rdsync and under every write.
LEMMA ServerStep == TypeInv /\ [Next]_vars => ServerTypes'
<1> SUFFICES ASSUME TypeInv, [Next]_vars
             PROVE  ServerTypes'
    OBVIOUS
<1> USE DEF TypeInv, serverVars, dcsVars, envVars
<1>0. /\ 0 \in 0 .. Cardinality(Hosts)
      /\ \A nodes \in SUBSET Hosts : getNumReplicasToWrite(nodes) \in 0 .. Cardinality(Hosts)
    BY NumReplicasType
<1>1. CASE UNCHANGED serverVars
    BY <1>1 DEF ServerTypes
<1>2. ASSUME NEW h \in Hosts, NEW n \in WriteIds, ClientWrite(h, n)
      PROVE  ServerTypes'
    BY <1>2 DEF ClientWrite, ServerTypes
<1>3. ASSUME NEW h \in Hosts, Replicate(h)
      PROVE  ServerTypes'
    BY <1>3, ReplicateType DEF Replicate, ServerTypes
<1>4. ASSUME NEW h \in Hosts, applyPoisonPill(h)
      PROVE  ServerTypes'
    BY <1>4, KeepLinksType DEF applyPoisonPill, ServerTypes
<1>5. ASSUME NEW h \in Hosts, repairLocalNode(h)
      PROVE  ServerTypes'
    <2>1. CASE OpenMaster(h)
        <3>1. num' \in [Hosts -> 0 .. Cardinality(Hosts)]
            BY <1>0, <2>1 DEF OpenMaster, ServerTypes, DcsTypes
        <3> QED
            BY <1>5, <2>1, <3>1, KeepLinksType DEF repairLocalNode, OpenMaster, ServerTypes
    <2>2. CASE OpenReplica(h)
        <3>1. /\ src' \in [Hosts -> Hosts] /\ quorum' \in [Hosts -> SUBSET Hosts]
              /\ paused' \subseteq Hosts
            BY <2>2, RepairReplicaType DEF OpenReplica, ServerTypes, DcsTypes
        <3> QED
            BY <1>5, <2>2, <3>1, KeepLinksType DEF repairLocalNode, OpenReplica, ServerTypes
    <2> QED
        BY <1>5, <2>1, <2>2 DEF repairLocalNode
<1>6. ASSUME NEW repaired \in SUBSET Hosts, NEW kept \in SUBSET (active \ answers),
             NEW update \in BOOLEAN, RepairPass(repaired, kept, update)
      PROVE  ServerTypes'
    <2> DEFINE master == currentMaster
               replicas == answers \ {master}
               nodes == IF ~update THEN active
                        ELSE {master} \cup kept \cup {r \in replicas : src[r] = master /\ linked(r)}
    <2>1. master \in Hosts
        BY CurrentMasterType
    <2>2. nodes \in SUBSET Hosts
        BY <2>1, AnswersType DEF DcsTypes, EnvTypes
    <2>3. /\ src' = [h \in Hosts |-> IF h \in repaired THEN master ELSE src[h]]
          /\ quorum' = [h \in Hosts |-> CASE h = master /\ update -> nodes \ {master}
                                          [] h \in repaired /\ src[h] # master -> {}
                                          [] OTHER -> quorum[h]]
          /\ num' = [num EXCEPT ![master] =
                        IF update \/ getNumReplicasToWrite(nodes) > @
                        THEN getNumReplicasToWrite(nodes) ELSE @]
          /\ ro' = (ro \ {master}) \cup replicas
          /\ paused' = paused \ ({master} \cup repaired)
          /\ UNCHANGED <<offline, log>> /\ keepLinks
        BY <1>6 DEF RepairPass
    <2> HIDE DEF nodes, master
    <2>4. num' \in [Hosts -> 0 .. Cardinality(Hosts)]
        <3>1. getNumReplicasToWrite(nodes) \in 0 .. Cardinality(Hosts)
            BY <1>0, <2>2
        <3> QED
            BY <2>1, <2>3, <3>1 DEF ServerTypes
    <2>5. src' \in [Hosts -> Hosts] /\ quorum' \in [Hosts -> SUBSET Hosts]
        BY <2>1, <2>2, <2>3 DEF ServerTypes
    <2> QED
        BY <2>1, <2>3, <2>4, <2>5, AnswersType, KeepLinksType DEF ServerTypes, EnvTypes
<1>7. CASE ReadOnly
    BY <1>7, AnswersType DEF ReadOnly, ServerTypes, EnvTypes
<1>8. CASE Pause \/ ChooseFails
    <2>1. mgr.act \subseteq Hosts
        BY DEF MgrTypes, Managers
    <2> QED
        BY <1>8, <2>1, KeepLinksType DEF Pause, ChooseFails, ServerTypes
<1>9. ASSUME mgr.pc \in Acting
      PROVE  sw.newMaster \in Hosts /\ sw.mostRecent \in Hosts
    BY <1>9 DEF MgrTypes, Named, sw
<1>10. CASE Attach
    <2>1. sw.newMaster \in Hosts /\ sw.mostRecent \in Hosts
        BY <1>9, <1>10 DEF Attach, At, Acting
    <2>2. paused' \subseteq Hosts
        BY <1>10, <2>1 DEF Attach, ServerTypes
    <2>3. src' \in [Hosts -> Hosts] /\ quorum' \in [Hosts -> SUBSET Hosts]
        BY <1>10, <2>1 DEF Attach, ServerTypes
    <2> QED
        BY <1>10, <2>2, <2>3, KeepLinksType DEF Attach, ServerTypes
<1>11. CASE SetNumQuorumReplicas
    <2>1. mgr.alive \in SUBSET Hosts
        BY DEF MgrTypes, Managers
    <2>2. num' \in [Hosts -> 0 .. Cardinality(Hosts)]
        BY <1>0, <1>11, <2>1 DEF SetNumQuorumReplicas, ServerTypes
    <2> QED
        BY <1>11, <2>2 DEF SetNumQuorumReplicas, ServerTypes
<1>12. CASE promote
    <2>1. sw.newMaster \in Hosts
        BY <1>9, <1>12 DEF promote, At, Acting
    <2> QED
        BY <1>12, <2>1, KeepLinksType DEF promote, ServerTypes
<1>13. CASE OpenNewMaster
    <2>1. mgr.act \in SUBSET Hosts
        BY DEF MgrTypes, Managers
    <2>2. num' \in [Hosts -> 0 .. Cardinality(Hosts)]
        BY <1>0, <1>13, <2>1 DEF OpenNewMaster, ServerTypes
    <2> QED
        BY <1>13, <2>2 DEF OpenNewMaster, ServerTypes
<1>14. CASE TurnReplicas
    <2>1. sw.newMaster \in Hosts
        BY <1>9, <1>14 DEF TurnReplicas, At, Acting
    <2> QED
        BY <1>14, <2>1, RepairReplicaType, KeepLinksType DEF TurnReplicas, ServerTypes
<1>15. CASE \/ WaitPass \/ FailoverPass \/ NotApproved \/ TimedOut \/ BeginSwitchover
            \/ Crash \/ NewManager
    BY <1>1, <1>15
    DEF WaitPass, FailoverPass, NotApproved, TimedOut, RejectSwitchover, BeginSwitchover, Crash,
        NewManager
<1>16. CASE \/ startSwitchover \/ InitProgress \/ FirstPill \/ waitPoisonPill("firstWait", "pause")
            \/ (\E mostRecent, newMaster \in Hosts : Choose(mostRecent, newMaster))
            \/ ChosenBefore \/ WaitForCatchup \/ Refresh
    BY <1>1, <1>16
    DEF startSwitchover, InitProgress, FirstPill, issuePoisonPill, waitPoisonPill, Choose,
        ChosenBefore, WaitForCatchup, Refresh
<1>17. CASE \/ SetMaster \/ SecondPill \/ waitPoisonPill("secondWait", "setNum") \/ SavePhase6
            \/ SetActiveNodes \/ Turned \/ CheckAborted \/ failSwitchover \/ finishSwitchover
    BY <1>1, <1>17
    DEF SetMaster, SecondPill, issuePoisonPill, waitPoisonPill, SavePhase6, SetActiveNodes,
        Turned, CheckAborted, failSwitchover, finishSwitchover
<1>18. ASSUME NEW h \in Hosts, NetworkChange(h) \/ CliSwitchTo(h) \/ CliForceActive(h)
       PROVE  ServerTypes'
    BY <1>1, <1>18, KeepLinksType
    DEF NetworkChange, CliSwitchTo, CliForceActive, CliSwitch, ServerTypes
<1>19. CASE (\E n \in WriteIds : Acknowledge(n)) \/ CliSwitchFrom \/ CliForceSwitch \/ CliAbort
    BY <1>1, <1>19 DEF Acknowledge, CliSwitchFrom, CliForceSwitch, CliAbort, CliSwitch
<1>20. CASE UNCHANGED vars
    BY <1>1, <1>20 DEF vars
<1> QED
    BY <1>2, <1>3, <1>4, <1>5, <1>6, <1>7, <1>8, <1>10, <1>11, <1>12, <1>13, <1>14,
       <1>15, <1>16, <1>17, <1>18, <1>19, <1>20
    DEF Next, stateManager, performSwitchover

\* The paths of the DCS keep their types: every host name that is written there is
\* that of a host of the shard.
LEMMA DcsStep == TypeInv /\ [Next]_vars => DcsTypes'
<1> SUFFICES ASSUME TypeInv, [Next]_vars
             PROVE  DcsTypes'
    OBVIOUS
<1> USE DEF TypeInv, serverVars, dcsVars, envVars
<1> DEFINE Pills == [host : Hosts \cup {NoHost}, Applied : BOOLEAN]
<1>1. CASE UNCHANGED dcsVars
    BY <1>1 DEF DcsTypes
<1>2. /\ currentMaster \in Hosts /\ NoSwitch \in Records /\ NoPill \in Pills
      /\ sw \in Records /\ mgr.act \subseteq Hosts /\ mgr.alive \subseteq Hosts
    BY CurrentMasterType, RecordTypes DEF MgrTypes, Managers, sw
<1>3. ASSUME NEW h \in Hosts, applyPoisonPill(h)
      PROVE  DcsTypes'
    BY <1>3 DEF applyPoisonPill, DcsTypes
<1>4. CASE WaitPass \/ FailoverPass
    <2>1. Switch(TRUE, currentMaster, NoHost, FALSE) \in Records
        BY <1>2, RecordTypes
    <2> QED
        BY <1>2, <1>4, <2>1 DEF WaitPass, FailoverPass, DcsTypes
<1>5. CASE NotApproved \/ TimedOut \/ BeginSwitchover
    BY <1>2, <1>5 DEF NotApproved, TimedOut, RejectSwitchover, BeginSwitchover, DcsTypes
<1>6. ASSUME NEW repaired \in SUBSET Hosts, NEW kept \in SUBSET (active \ answers),
             NEW update \in BOOLEAN, RepairPass(repaired, kept, update)
      PROVE  DcsTypes'
    <2>1. active' \subseteq Hosts
        BY <1>2, <1>6, AnswersType DEF RepairPass, DcsTypes, EnvTypes
    <2> QED
        BY <1>2, <1>6, <2>1 DEF RepairPass, DcsTypes
<1>7. CASE startSwitchover \/ InitProgress
    <2>1. [sw EXCEPT !.phase = 1] \in Records
        BY <1>2 DEF Records
    <2> QED
        BY <1>2, <1>7, <2>1 DEF startSwitchover, InitProgress, updateSwitchover, DcsTypes
<1>8. ASSUME NEW label, issuePoisonPill(label)
      PROVE  DcsTypes'
    <2>1. Pill(mgr.oldMaster) \in Pills
        BY DEF Pill, MgrTypes, Managers
    <2> QED
        BY <1>8, <2>1 DEF issuePoisonPill, DcsTypes
<1>9. CASE FirstPill \/ SecondPill
    BY <1>1, <1>8, <1>9 DEF FirstPill, SecondPill
<1>10. ASSUME NEW mostRecent \in Hosts, NEW newMaster \in Hosts, Choose(mostRecent, newMaster)
       PROVE  DcsTypes'
    <2>1. [sw EXCEPT !.phase = 3, !.newMaster = newMaster, !.mostRecent = mostRecent] \in Records
        BY <1>2 DEF Records
    <2> QED
        BY <1>10, <2>1 DEF Choose, DcsTypes
<1>11. CASE Refresh \/ SavePhase6
    <2>1. [sw EXCEPT !.phase = 5] \in Records /\ [sw EXCEPT !.phase = 6] \in Records
        BY <1>2 DEF Records
    <2> QED
        BY <1>11, <2>1 DEF Refresh, SavePhase6, updateSwitchover, DcsTypes
<1>12. CASE SetMaster \/ SetActiveNodes
    <2>1. sw.newMaster \in Hosts
        BY <1>12 DEF SetMaster, SetActiveNodes, At, Acting, MgrTypes, Named, sw
    <2> QED
        BY <1>2, <1>12, <2>1 DEF SetMaster, SetActiveNodes, DcsTypes
<1>13. CASE failSwitchover \/ finishSwitchover
    <2>1. Switch(sw.auto, sw.from, sw.to, TRUE) \in Records
        BY <1>2, RecordTypes DEF Records
    <2> QED
        BY <1>2, <1>13, <2>1 DEF failSwitchover, finishSwitchover, DcsTypes
<1>14. CASE CliSwitchFrom \/ CliForceSwitch \/ CliAbort
    <2>1. /\ Switch(FALSE, dcsMaster, NoHost, FALSE) \in Records
          /\ Switch(FALSE, NoHost, forcing, TRUE) \in Records
        BY RecordTypes DEF DcsTypes, EnvTypes
    <2> QED
        BY <1>2, <1>14, <2>1 DEF CliSwitchFrom, CliForceSwitch, CliAbort, CliSwitch, DcsTypes
<1>15. ASSUME NEW h \in Hosts, CliSwitchTo(h) \/ CliForceActive(h)
       PROVE  DcsTypes'
    <2>1. Switch(FALSE, NoHost, h, FALSE) \in Records
        BY RecordTypes
    <2> QED
        BY <1>15, <2>1 DEF CliSwitchTo, CliForceActive, CliSwitch, DcsTypes
<1>16. CASE \/ ReadOnly \/ waitPoisonPill("firstWait", "pause") \/ Pause \/ ChooseFails
            \/ ChosenBefore \/ Attach \/ WaitForCatchup
    BY <1>1, <1>16
    DEF ReadOnly, waitPoisonPill, Pause, ChooseFails, ChosenBefore, Attach, WaitForCatchup
<1>17. CASE \/ waitPoisonPill("secondWait", "setNum") \/ SetNumQuorumReplicas \/ promote
            \/ OpenNewMaster \/ TurnReplicas \/ Turned \/ CheckAborted \/ Crash \/ NewManager
    BY <1>1, <1>17
    DEF waitPoisonPill, SetNumQuorumReplicas, promote, OpenNewMaster, TurnReplicas, Turned,
        CheckAborted, Crash, NewManager
<1>18. ASSUME NEW h \in Hosts, repairLocalNode(h) \/ Replicate(h) \/ NetworkChange(h)
       PROVE  DcsTypes'
    BY <1>1, <1>18 DEF repairLocalNode, Replicate, NetworkChange
<1>19. ASSUME NEW n \in WriteIds, Acknowledge(n) \/ (\E h \in Hosts : ClientWrite(h, n))
       PROVE  DcsTypes'
    BY <1>1, <1>19 DEF Acknowledge, ClientWrite
<1>20. CASE UNCHANGED vars
    BY <1>1, <1>20 DEF vars
<1> QED
    BY <1>3, <1>4, <1>5, <1>6, <1>7, <1>9, <1>10, <1>11, <1>12, <1>13, <1>14, <1>15,
       <1>16, <1>17, <1>18, <1>19, <1>20
    DEF Next, stateManager, performSwitchover

\* The network, the clients' writes and the budgets keep their types.
LEMMA EnvStep == TypeInv /\ [Next]_vars => EnvTypes'
<1> SUFFICES ASSUME TypeInv, [Next]_vars
             PROVE  EnvTypes'
    OBVIOUS
<1> USE DEF TypeInv, serverVars, dcsVars, envVars
<1>1. CASE UNCHANGED envVars
    BY <1>1 DEF EnvTypes
<1>2. ASSUME NEW h \in Hosts, NEW n \in WriteIds, ClientWrite(h, n)
      PROVE  EnvTypes'
    <2>1. num[h] \in Nat
        BY NumReplicasType DEF ServerTypes
    <2>2. writes' \in [WriteIds -> Writes]
        BY <1>2, <2>1 DEF ClientWrite, EnvTypes, Writes
    <2> QED
        BY <1>2, <2>2, SpendType DEF ClientWrite, EnvTypes
<1>3. ASSUME NEW n \in WriteIds, Acknowledge(n)
      PROVE  EnvTypes'
    <2>1. writes' \in [WriteIds -> Writes]
        BY <1>3 DEF Acknowledge, EnvTypes, Writes
    <2> QED
        BY <1>3, <2>1 DEF Acknowledge, EnvTypes
<1>4. ASSUME NEW h \in Hosts, NetworkChange(h)
      PROVE  EnvTypes'
    BY <1>4, SpendType DEF NetworkChange, EnvTypes
<1>5. ASSUME NEW h \in Hosts, applyPoisonPill(h)
      PROVE  EnvTypes'
    BY <1>5, DropClientsType DEF applyPoisonPill, EnvTypes
<1>6. ASSUME NEW h \in Hosts, repairLocalNode(h)
      PROVE  EnvTypes'
    <2>1. writes' \in [WriteIds -> Writes]
        BY <1>6, RepairReplicaType
        DEF repairLocalNode, OpenMaster, OpenReplica, EnvTypes, DcsTypes
    <2> QED
        BY <1>6, <2>1 DEF repairLocalNode, EnvTypes
<1>7. ASSUME NEW repaired \in SUBSET Hosts, NEW kept \in SUBSET (active \ answers),
             NEW update \in BOOLEAN, RepairPass(repaired, kept, update)
      PROVE  EnvTypes'
    <2>1. writes' \in [WriteIds -> Writes]
        BY <1>7, DropClientsType DEF RepairPass
    <2> QED
        BY <1>7, <2>1 DEF RepairPass, EnvTypes
<1>8. CASE ReadOnly
    <2>1. writes' \in [WriteIds -> Writes]
        BY <1>8, DropClientsType DEF ReadOnly, EnvTypes
    <2> QED
        BY <1>8, <2>1 DEF ReadOnly, EnvTypes
<1>9. CASE Attach
    <2>1. writes' \in [WriteIds -> Writes]
        BY <1>9, DropClientsType DEF Attach, EnvTypes
    <2> QED
        BY <1>9, <2>1 DEF Attach, EnvTypes
<1>10. CASE TurnReplicas
    <2>1. sw.newMaster \in Hosts
        BY <1>10 DEF TurnReplicas, At, Acting, MgrTypes, Named, sw
    <2>2. writes' \in [WriteIds -> Writes]
        BY <1>10, <2>1, RepairReplicaType DEF TurnReplicas
    <2> QED
        BY <1>10, <2>2 DEF TurnReplicas, EnvTypes
<1>11. ASSUME NEW h \in Hosts, CliSwitchTo(h) \/ CliForceActive(h)
       PROVE  EnvTypes'
    BY <1>11, SpendType DEF CliSwitchTo, CliForceActive, CliSwitch, EnvTypes
<1>12. CASE \/ CliSwitchFrom \/ CliForceSwitch \/ CliAbort \/ TimedOut
            \/ Crash \/ NewManager
    BY <1>12, SpendType
    DEF CliSwitchFrom, CliForceSwitch, CliAbort, CliSwitch, TimedOut, RejectSwitchover, Crash,
        Interrupted, NewManager, candidates, EnvTypes
<1>13. CASE waitPoisonPill("firstWait", "pause") \/ waitPoisonPill("secondWait", "setNum")
    BY <1>13, SpendType DEF waitPoisonPill, EnvTypes
<1>14. CASE WaitPass \/ FailoverPass \/ NotApproved \/ BeginSwitchover
    BY <1>1, <1>14 DEF WaitPass, FailoverPass, NotApproved, RejectSwitchover, BeginSwitchover
<1>15. CASE \/ startSwitchover \/ InitProgress \/ FirstPill \/ Pause
            \/ (\E mostRecent, newMaster \in Hosts : Choose(mostRecent, newMaster))
            \/ ChooseFails \/ ChosenBefore \/ WaitForCatchup \/ Refresh
    BY <1>1, <1>15
    DEF startSwitchover, InitProgress, FirstPill, issuePoisonPill, Pause, Choose, ChooseFails,
        ChosenBefore, WaitForCatchup, Refresh
<1>16. CASE \/ SetMaster \/ SecondPill \/ SetNumQuorumReplicas \/ promote \/ SavePhase6
            \/ SetActiveNodes \/ OpenNewMaster \/ Turned \/ CheckAborted \/ failSwitchover
            \/ finishSwitchover
    BY <1>1, <1>16
    DEF SetMaster, SecondPill, issuePoisonPill, SetNumQuorumReplicas, promote, SavePhase6,
        SetActiveNodes, OpenNewMaster, Turned, CheckAborted, failSwitchover, finishSwitchover
<1>17. ASSUME NEW h \in Hosts, Replicate(h)
       PROVE  EnvTypes'
    BY <1>1, <1>17 DEF Replicate
<1>18. CASE UNCHANGED vars
    BY <1>1, <1>18 DEF vars
<1> QED
    BY <1>2, <1>3, <1>4, <1>5, <1>6, <1>7, <1>8, <1>9, <1>10, <1>11, <1>12, <1>13, <1>14,
       <1>15, <1>16, <1>17, <1>18
    DEF Next, stateManager, performSwitchover

\* A manager that goes on to its next call keeps its local variables.
LEMMA GotoType ==
    ASSUME TypeInv, NEW label \in PCs, Goto(label)
    PROVE  mgr' \in Managers /\ mgr'.pc = label /\ mgr'.sw = mgr.sw
BY DEF Goto, TypeInv, MgrTypes, Managers

\* The manager acts on a new master only after the choice of one, and every record
\* that it reads back from the DCS at phase 3 or later names its hosts.
LEMMA MgrStep == TypeInv /\ [Next]_vars => MgrTypes'
<1> SUFFICES ASSUME TypeInv, [Next]_vars
             PROVE  MgrTypes'
    OBVIOUS
<1> USE DEF TypeInv, serverVars, dcsVars, envVars
<1>1. CASE UNCHANGED <<current, mgr>>
    BY <1>1 DEF MgrTypes, Named
<1>2. ASSUME NEW label \in PCs, Goto(label), label \in Acting => sw.phase >= 3,
             UNCHANGED current
      PROVE  MgrTypes'
    BY <1>2, GotoType DEF MgrTypes, Named, sw
<1>3. /\ sw \in Records /\ Named(sw) /\ Named(current)
      /\ mgr.pc \in Acting => sw.phase >= 3
    BY DEF MgrTypes, Managers, sw
<1>4. ASSUME mgr' = Idle, Named(current)'
      PROVE  MgrTypes'
    BY <1>4, RecordTypes DEF MgrTypes, Named, Acting
<1>5. ASSUME UNCHANGED mgr, current'.phase = 0
      PROVE  MgrTypes'
    BY <1>5 DEF MgrTypes, Named
<1>6. CASE FailoverPass \/ NotApproved \/ TimedOut
    <2>1. currentMaster \in Hosts
        BY CurrentMasterType
    <2>2. Switch(TRUE, currentMaster, NoHost, FALSE).phase = 0 /\ NoSwitch.phase = 0
        BY <2>1, RecordTypes
    <2> QED
        BY <1>5, <1>6, <2>2 DEF FailoverPass, NotApproved, TimedOut, RejectSwitchover
<1>7. CASE BeginSwitchover
    <2>1. currentMaster \in Hosts
        BY CurrentMasterType
    <2>2. mgr' \in Managers /\ mgr'.pc = "start" /\ mgr'.sw = current
        BY <1>7, <2>1, RecordTypes, AnswersType
        DEF BeginSwitchover, Managers, PCs, DcsTypes, EnvTypes
    <2> QED
        BY <1>3, <1>7, <2>2 DEF BeginSwitchover, MgrTypes, Named, Acting
<1>8. ASSUME NEW record \in Records, NEW label \in PCs, updateSwitchover(record, label),
             Named(record), label \in Acting => record.phase >= 3
      PROVE  MgrTypes'
    <2>1. mgr' \in Managers /\ mgr'.pc = label /\ mgr'.sw = record /\ current' = record
        BY <1>8 DEF updateSwitchover, MgrTypes, Managers
    <2> QED
        BY <1>8, <2>1 DEF MgrTypes, Named
<1>9. CASE startSwitchover
    <2> DEFINE label == IF sw.phase = 0 THEN "progress" ELSE "target"
    <2>1. label \in PCs /\ label \notin Acting
        BY DEF PCs, Acting
    <2>2. updateSwitchover(sw, label)
        BY <1>9 DEF startSwitchover
    <2> HIDE DEF label
    <2> QED
        BY <1>3, <1>8, <2>1, <2>2
<1>10. CASE InitProgress
    <2> DEFINE record == [sw EXCEPT !.phase = 1]
    <2>1. record \in Records /\ Named(record) /\ updateSwitchover(record, "target")
        BY <1>3, <1>10 DEF InitProgress, Records, Named
    <2>2. "target" \in PCs /\ "target" \notin Acting
        BY DEF PCs, Acting
    <2> HIDE DEF record
    <2> QED
        BY <1>8, <2>1, <2>2
<1>11. CASE ReadOnly
    <2>1. CASE sw.to # NoHost /\ sw.to \notin mgr.act
        <3>1. Goto("failed") /\ UNCHANGED current
            BY <1>11, <2>1 DEF ReadOnly
        <3> QED
            BY <1>2, <3>1 DEF PCs, Acting
    <2>2. CASE ~(sw.to # NoHost /\ sw.to \notin mgr.act)
        <3>1. getFailoverQuorum(mgr.act) \in Int
            BY NumReplicasType DEF MgrTypes, Managers
        <3>2. PICK pc \in {"failed", "firstPill"}, act \in SUBSET Hosts, alive \in SUBSET Hosts :
                  mgr' = [mgr EXCEPT !.pc = pc, !.act = act, !.alive = alive,
                                     !.fq = getFailoverQuorum(mgr.act)]
            BY <1>11, <2>2 DEF ReadOnly, MgrTypes, Managers
        <3>3. mgr' \in Managers /\ mgr'.pc \in {"failed", "firstPill"} /\ mgr'.sw = mgr.sw
            BY <3>1, <3>2 DEF MgrTypes, Managers, PCs
        <3>4. UNCHANGED current
            BY <1>11 DEF ReadOnly
        <3> QED
            BY <3>3, <3>4 DEF MgrTypes, Named, Acting
    <2> QED
        BY <2>1, <2>2
<1>12. CASE FirstPill \/ waitPoisonPill("firstWait", "pause")
    BY <1>2, <1>12 DEF FirstPill, waitPoisonPill, issuePoisonPill, PCs, Acting
<1>13. CASE Pause
    <2>1. /\ mgr' \in Managers /\ mgr'.pc \in {"failed", "choose"} /\ mgr'.sw = mgr.sw
          /\ UNCHANGED current
        BY <1>13 DEF Pause, MgrTypes, Managers, PCs
    <2> QED
        BY <2>1 DEF MgrTypes, Named, Acting
<1>14. ASSUME NEW mostRecent \in Hosts, NEW newMaster \in Hosts, Choose(mostRecent, newMaster)
       PROVE  MgrTypes'
    <2> DEFINE record == [sw EXCEPT !.phase = 3, !.newMaster = newMaster,
                                    !.mostRecent = mostRecent]
    <2>1. /\ record \in Records /\ record.phase = 3
          /\ record.newMaster \in Hosts /\ record.mostRecent \in Hosts
        BY <1>3 DEF Records
    <2>2. /\ mgr' = [mgr EXCEPT !.sw = record, !.behind = lags(newMaster, mostRecent),
                                !.pc = "catchup"]
          /\ current' = record
        BY <1>14 DEF Choose
    <2> HIDE DEF record
    <2>3. lags(newMaster, mostRecent) \in BOOLEAN
        BY DEF lags
    <2>4. mgr' \in Managers /\ mgr'.sw = record
        BY <2>1, <2>2, <2>3 DEF MgrTypes, Managers, PCs
    <2> QED
        BY <2>1, <2>2, <2>4 DEF MgrTypes, Named
<1>15. CASE ChooseFails
    BY <1>2, <1>15 DEF ChooseFails, PCs, Acting
<1>16. CASE ChosenBefore
    <2>1. lags(sw.newMaster, sw.mostRecent) \in BOOLEAN
        BY DEF lags
    <2>2. mgr' \in Managers /\ mgr'.sw = mgr.sw /\ sw.phase >= 3 /\ UNCHANGED current
        BY <1>16, <2>1 DEF ChosenBefore, MgrTypes, Managers, PCs
    <2> QED
        BY <2>2 DEF MgrTypes, Named, sw
<1>17. CASE Attach \/ WaitForCatchup
    <2>1. sw.phase >= 3
        BY <1>3, <1>17 DEF Attach, WaitForCatchup, At, Acting
    <2> QED
        BY <1>2, <1>17, <2>1 DEF Attach, WaitForCatchup, PCs
<1>18. CASE Refresh
    <2> DEFINE record == [sw EXCEPT !.phase = 5]
    <2>1. sw.phase >= 3
        BY <1>3, <1>18 DEF Refresh, At, Acting
    <2>2. CASE sw.newMaster \notin answers
        BY <1>2, <1>18, <2>2 DEF Refresh, PCs, Acting
    <2>3. CASE sw.newMaster \in answers /\ sw.phase = 6
        <3>1. mgr' = [mgr EXCEPT !.snap = psyncNodes, !.pc = "phase6"] /\ UNCHANGED current
            BY <1>18, <2>3 DEF Refresh
        <3>2. mgr' \in Managers /\ mgr'.sw = mgr.sw
            BY <3>1, AnswersType DEF MgrTypes, Managers, PCs
        <3> QED
            BY <2>1, <3>1, <3>2 DEF MgrTypes, Named, sw
    <2>4. CASE sw.newMaster \in answers /\ sw.phase # 6
        <3>1. record \in Records /\ Named(record) /\ record.phase >= 3
            BY <1>3, <2>1 DEF Records, Named
        <3>2. /\ mgr' = [mgr EXCEPT !.snap = answers, !.sw = record, !.pc = "setMaster"]
              /\ current' = record
            BY <1>18, <2>4 DEF Refresh
        <3> HIDE DEF record
        <3>3. mgr' \in Managers /\ mgr'.sw = record
            BY <3>1, <3>2, AnswersType DEF MgrTypes, Managers, PCs
        <3> QED
            BY <3>1, <3>2, <3>3 DEF MgrTypes, Named
    <2> QED
        BY <2>2, <2>3, <2>4
<1>19. CASE \/ SetMaster \/ SecondPill \/ waitPoisonPill("secondWait", "setNum")
            \/ SetNumQuorumReplicas \/ TurnReplicas \/ Turned
    <2>1. sw.phase >= 3
        BY <1>3, <1>19
        DEF SetMaster, SecondPill, waitPoisonPill, SetNumQuorumReplicas, TurnReplicas, Turned,
            At, Acting
    <2> QED
        BY <1>2, <1>19, <2>1
        DEF SetMaster, SecondPill, issuePoisonPill, waitPoisonPill, SetNumQuorumReplicas,
            TurnReplicas, Turned, PCs
<1>20. CASE promote \/ SetActiveNodes \/ OpenNewMaster
    <2>1. sw.phase >= 3
        BY <1>3, <1>20 DEF promote, SetActiveNodes, OpenNewMaster, At, Acting
    <2>2. active' \subseteq Hosts
        BY DcsStep DEF DcsTypes
    <2>3. mgr' \in Managers /\ mgr'.sw = mgr.sw /\ UNCHANGED current
        BY <1>20, <2>2, AnswersType
        DEF promote, SetActiveNodes, OpenNewMaster, Goto, MgrTypes, Managers, PCs
    <2> QED
        BY <2>1, <2>3 DEF MgrTypes, Named, sw
<1>21. CASE SavePhase6
    <2> DEFINE record == [sw EXCEPT !.phase = 6]
    <2>1. sw.phase >= 3
        BY <1>3, <1>21 DEF SavePhase6, At, Acting
    <2>2. record \in Records /\ Named(record) /\ record.phase >= 3
        BY <1>3, <2>1 DEF Records, Named
    <2>3. updateSwitchover(record, "setActive") /\ "setActive" \in PCs
        BY <1>21 DEF SavePhase6, PCs
    <2> HIDE DEF record
    <2> QED
        BY <1>8, <2>2, <2>3
<1>22. CASE CheckAborted \/ Crash
    <2>1. UNCHANGED current /\ (mgr' = Idle \/ Goto("failed") \/ Goto("failSwitchover"))
        BY <1>22 DEF CheckAborted, Crash
    <2>2. Named(current)'
        BY <1>3, <2>1 DEF Named
    <2>3. {"failed", "failSwitchover"} \subseteq PCs \ Acting
        BY DEF PCs, Acting
    <2> QED
        BY <1>2, <1>4, <2>1, <2>2, <2>3
<1>23. CASE failSwitchover \/ finishSwitchover
    <2>1. Switch(sw.auto, sw.from, sw.to, TRUE).phase = 0 /\ NoSwitch.phase = 0
        BY <1>3, RecordTypes DEF Records, Switch
    <2>2. mgr' = Idle /\ current'.phase = 0
        BY <1>23, <2>1 DEF failSwitchover, finishSwitchover
    <2>3. Named(current)'
        BY <2>2 DEF Named
    <2> QED
        BY <1>4, <2>2, <2>3
<1>24. CASE CliSwitchFrom \/ CliForceSwitch \/ CliAbort
    <2>1. /\ Switch(FALSE, dcsMaster, NoHost, FALSE).phase = 0
          /\ Switch(FALSE, NoHost, forcing, TRUE).phase = 0 /\ NoSwitch.phase = 0
        BY RecordTypes DEF DcsTypes, EnvTypes
    <2> QED
        BY <1>1, <1>5, <1>24, <2>1 DEF CliSwitchFrom, CliForceSwitch, CliAbort, CliSwitch
<1>25. ASSUME NEW h \in Hosts, CliSwitchTo(h) \/ CliForceActive(h)
       PROVE  MgrTypes'
    <2>1. Switch(FALSE, NoHost, h, FALSE).phase = 0
        BY RecordTypes
    <2> QED
        BY <1>1, <1>5, <1>25, <2>1 DEF CliSwitchTo, CliForceActive, CliSwitch
<1>26. ASSUME NEW h \in Hosts,
              applyPoisonPill(h) \/ repairLocalNode(h) \/ Replicate(h) \/ NetworkChange(h)
       PROVE  MgrTypes'
    BY <1>1, <1>26 DEF applyPoisonPill, repairLocalNode, Replicate, NetworkChange
<1>27. ASSUME NEW n \in WriteIds, Acknowledge(n) \/ (\E h \in Hosts : ClientWrite(h, n))
       PROVE  MgrTypes'
    BY <1>1, <1>27 DEF Acknowledge, ClientWrite
<1>28. CASE WaitPass \/ NewManager \/ UNCHANGED vars
    BY <1>1, <1>28 DEF WaitPass, NewManager, vars
<1>29. ASSUME NEW repaired \in SUBSET Hosts, NEW kept \in SUBSET (active \ answers),
              NEW update \in BOOLEAN, RepairPass(repaired, kept, update)
       PROVE  MgrTypes'
    BY <1>1, <1>29 DEF RepairPass
<1> QED
    BY <1>6, <1>7, <1>9, <1>10, <1>11, <1>12, <1>13, <1>14, <1>15, <1>16, <1>17, <1>18, <1>19,
       <1>20, <1>21, <1>22, <1>23, <1>24, <1>25, <1>26, <1>27, <1>28, <1>29
    DEF Next, stateManager, performSwitchover

-----------------------------------------------------------------------------
(* The count of the positions and the choice.                              *)

\* No step gives back a --force: a switchover without one has seen none before.
LEMMA ForcedGrows == TypeInv /\ [Next]_vars => spent'["forced"] >= spent["forced"]
<1> SUFFICES ASSUME TypeInv, [Next]_vars
             PROVE  spent'["forced"] >= spent["forced"]
    OBVIOUS
<1> USE DEF dcsVars, envVars
<1>1. CASE UNCHANGED spent
    <2>1. spent["forced"] \in Nat
        BY DEF TypeInv, EnvTypes, Kinds
    <2> QED
        BY <1>1, <2>1
<1>2. ASSUME NEW kinds, Spend(kinds)
      PROVE  spent'["forced"] >= spent["forced"]
    BY <1>2, SpendType DEF Kinds
<1>3. CASE stateManager
    BY <1>1, <1>2, <1>3
    DEF stateManager, WaitPass, FailoverPass, NotApproved, TimedOut, BeginSwitchover, RepairPass
<1>4. CASE \/ waitPoisonPill("firstWait", "pause") \/ waitPoisonPill("secondWait", "setNum")
           \/ Crash \/ NewManager
    BY <1>1, <1>2, <1>4 DEF waitPoisonPill, Crash, Interrupted, NewManager
<1>5. CASE \/ startSwitchover \/ InitProgress \/ ReadOnly \/ FirstPill \/ Pause
           \/ (\E mostRecent, newMaster \in Hosts : Choose(mostRecent, newMaster))
           \/ ChooseFails \/ ChosenBefore \/ Attach \/ WaitForCatchup \/ Refresh
    BY <1>1, <1>5
    DEF startSwitchover, InitProgress, ReadOnly, FirstPill, issuePoisonPill, Pause, Choose,
        ChooseFails, ChosenBefore, Attach, WaitForCatchup, Refresh
<1>6. CASE \/ SetMaster \/ SecondPill \/ SetNumQuorumReplicas \/ promote \/ SavePhase6
           \/ SetActiveNodes \/ OpenNewMaster \/ TurnReplicas \/ Turned \/ CheckAborted
           \/ failSwitchover \/ finishSwitchover
    BY <1>1, <1>6
    DEF SetMaster, SecondPill, issuePoisonPill, SetNumQuorumReplicas, promote, SavePhase6,
        SetActiveNodes, OpenNewMaster, TurnReplicas, Turned, CheckAborted, failSwitchover,
        finishSwitchover
<1>7. ASSUME NEW h \in Hosts,
             \/ applyPoisonPill(h) \/ repairLocalNode(h) \/ Replicate(h) \/ NetworkChange(h)
             \/ CliSwitchTo(h) \/ CliForceActive(h)
      PROVE  spent'["forced"] >= spent["forced"]
    BY <1>1, <1>2, <1>7
    DEF applyPoisonPill, repairLocalNode, Replicate, NetworkChange, CliSwitchTo, CliForceActive
<1>8. ASSUME NEW n \in WriteIds, Acknowledge(n) \/ (\E h \in Hosts : ClientWrite(h, n))
      PROVE  spent'["forced"] >= spent["forced"]
    BY <1>1, <1>2, <1>8 DEF Acknowledge, ClientWrite
<1>9. CASE CliSwitchFrom \/ CliForceSwitch \/ CliAbort \/ UNCHANGED vars
    BY <1>1, <1>2, <1>9 DEF CliSwitchFrom, CliForceSwitch, CliAbort, vars
<1> QED
    BY <1>3, <1>4, <1>5, <1>6, <1>7, <1>8, <1>9 DEF Next, performSwitchover

\* What the manager has counted stays true of active_nodes until it has compared
\* the positions: every other writer of active_nodes waits for it, or is --force.
LEMMA CountStep == TypeInv /\ CountInv /\ [Next]_vars => CountInv'
<1> SUFFICES ASSUME TypeInv, CountInv, [Next]_vars, spent'["forced"] = 0
             PROVE  /\ mgr'.pc \in Reading => mgr'.act = active'
                    /\ mgr'.pc \in Stopping \cup Compared =>
                           mgr'.alive \subseteq active' /\ mgr'.fq = getFailoverQuorum(active')
                    /\ mgr'.pc \in Compared => Cardinality(mgr'.alive) >= mgr'.fq
    BY DEF CountInv, getFailoverQuorum, getNumReplicasToWrite
<1> USE DEF serverVars, dcsVars, envVars
<1> DEFINE Counting == Reading \cup Stopping \cup Compared
<1>1. spent["forced"] = 0
    BY ForcedGrows DEF TypeInv, EnvTypes, Kinds
<1>2. /\ mgr.pc \in Reading => mgr.act = active
      /\ mgr.pc \in Stopping \cup Compared =>
             mgr.alive \subseteq active /\ mgr.fq = getFailoverQuorum(active)
      /\ mgr.pc \in Compared => Cardinality(mgr.alive) >= mgr.fq
    BY <1>1 DEF CountInv
<1>3. mgr \in Managers
    BY DEF TypeInv, MgrTypes
<1>4. CASE UNCHANGED <<mgr, active>>
    BY <1>2, <1>4
<1>5. CASE mgr'.pc \notin Counting
    BY <1>5
<1>6. /\ "idle" \notin Counting /\ "failed" \notin Counting /\ "failSwitchover" \notin Counting
      /\ "open" \notin Counting /\ "turn" \notin Counting /\ "turned" \notin Counting
      /\ "finished" \notin Counting
    BY DEF Reading, Stopping, Compared, Opened
<1>7. CASE /\ mgr.pc \in Compared /\ mgr'.pc \in Compared \cup {"failed"}
           /\ UNCHANGED active /\ mgr'.alive = mgr.alive /\ mgr'.fq = mgr.fq
    BY <1>2, <1>7 DEF Reading, Stopping, Compared, Opened
<1>8. CASE WaitPass \/ FailoverPass \/ NotApproved \/ TimedOut \/ NewManager
    BY <1>4, <1>8 DEF WaitPass, FailoverPass, NotApproved, TimedOut, RejectSwitchover, NewManager
<1>9. CASE BeginSwitchover
    BY <1>9 DEF BeginSwitchover, Idle, Stopping, Compared, Opened
<1>10. ASSUME NEW repaired \in SUBSET Hosts, NEW kept \in SUBSET (active \ answers),
              NEW update \in BOOLEAN, RepairPass(repaired, kept, update)
       PROVE  mgr'.pc \notin Counting
    BY <1>6, <1>10 DEF RepairPass
<1>11. CASE startSwitchover \/ InitProgress
    <2>1. /\ mgr'.act = mgr.act /\ mgr'.pc \in {"progress", "target"} /\ UNCHANGED active
          /\ mgr.pc \in {"start", "progress"}
        BY <1>3, <1>11 DEF startSwitchover, InitProgress, updateSwitchover, At, Managers
    <2> QED
        BY <1>2, <2>1 DEF Reading, Stopping, Compared, Opened
<1>12. CASE ReadOnly
    <2>1. mgr.act = active /\ UNCHANGED active
        BY <1>2, <1>12 DEF ReadOnly, At, Reading
    <2>2. CASE sw.to # NoHost /\ sw.to \notin mgr.act
        <3>1. mgr'.pc = "failed"
            BY <1>3, <1>12, <2>2 DEF ReadOnly, Goto, Managers
        <3> QED
            BY <1>5, <1>6, <3>1
    <2>3. CASE ~(sw.to # NoHost /\ sw.to \notin mgr.act)
        <3>1. PICK pc \in {"failed", "firstPill"}, act \in SUBSET Hosts,
                   alive \in SUBSET mgr.act :
                  mgr' = [mgr EXCEPT !.pc = pc, !.act = act, !.alive = alive,
                                     !.fq = getFailoverQuorum(mgr.act)]
            BY <1>3, <1>12, <2>3 DEF ReadOnly, Managers
        <3>2. /\ mgr'.pc \in {"failed", "firstPill"} /\ mgr'.alive \subseteq mgr.act
              /\ mgr'.fq = getFailoverQuorum(mgr.act)
            BY <1>3, <3>1 DEF Managers
        <3> QED
            BY <2>1, <3>2 DEF Reading, Compared, Opened
    <2> QED
        BY <2>2, <2>3
<1>13. CASE FirstPill \/ waitPoisonPill("firstWait", "pause")
    <2>1. /\ mgr.pc \in {"firstPill", "firstWait"} /\ UNCHANGED active
          /\ Goto("firstWait") \/ Goto("pause")
        BY <1>13 DEF FirstPill, issuePoisonPill, waitPoisonPill, At
    <2>2. mgr'.pc \in {"firstWait", "pause"} /\ mgr'.alive = mgr.alive /\ mgr'.fq = mgr.fq
        BY <1>3, <2>1 DEF Goto, Managers
    <2> QED
        BY <1>2, <2>1, <2>2 DEF Reading, Stopping, Compared, Opened
<1>14. CASE Pause
    <2>1. PICK alive \in SUBSET mgr.alive :
              mgr' = [mgr EXCEPT !.alive = alive,
                                 !.pc = IF Cardinality(alive) < mgr.fq THEN "failed" ELSE "choose"]
        BY <1>14 DEF Pause
    <2>2. Cardinality(alive) \in Int /\ mgr.fq \in Int
        BY <1>3, NumReplicasType DEF Managers
    <2>3. /\ mgr'.alive = alive /\ mgr'.fq = mgr.fq /\ mgr'.pc \in {"failed", "choose"}
          /\ mgr'.pc = "choose" => Cardinality(alive) >= mgr.fq
        BY <1>3, <2>1, <2>2 DEF Managers
    <2>4. mgr.pc = "pause" /\ UNCHANGED active
        BY <1>14 DEF Pause, At
    <2> QED
        BY <1>2, <2>3, <2>4 DEF Reading, Stopping, Compared, Opened
<1>15. CASE \/ (\E mostRecent, newMaster \in Hosts : Choose(mostRecent, newMaster))
            \/ ChosenBefore \/ Refresh \/ promote \/ SavePhase6
    <2>1. /\ mgr.pc \in {"choose", "refresh", "promote", "phase6"} /\ UNCHANGED active
          /\ mgr'.pc \in {"catchup", "failed", "phase6", "setMaster", "setActive"}
          /\ mgr'.alive = mgr.alive /\ mgr'.fq = mgr.fq
        BY <1>3, <1>15
        DEF Choose, ChosenBefore, Refresh, promote, SavePhase6, updateSwitchover, Goto, At, Managers
    <2> QED
        BY <1>7, <2>1 DEF Compared, Opened
<1>16. CASE \/ ChooseFails \/ Attach \/ WaitForCatchup \/ SetMaster \/ SecondPill
            \/ waitPoisonPill("secondWait", "setNum") \/ SetNumQuorumReplicas
    <2>1. /\ mgr.pc \in Compared /\ UNCHANGED active
          /\ \E label \in Compared \cup {"failed"} : Goto(label)
        BY <1>16
        DEF ChooseFails, Attach, WaitForCatchup, SetMaster, SecondPill, issuePoisonPill,
            waitPoisonPill, SetNumQuorumReplicas, At, Compared, Opened
    <2>2. mgr'.pc \in Compared \cup {"failed"} /\ mgr'.alive = mgr.alive /\ mgr'.fq = mgr.fq
        BY <1>3, <2>1 DEF Goto, Managers
    <2> QED
        BY <1>7, <2>1, <2>2
<1>17. CASE \/ SetActiveNodes \/ OpenNewMaster \/ TurnReplicas \/ Turned \/ CheckAborted
            \/ failSwitchover \/ finishSwitchover \/ Crash
    <2>1. mgr'.pc \in {"open", "turn", "turned", "finished", "failed", "failSwitchover", "idle"}
        BY <1>3, <1>17, RecordTypes
        DEF SetActiveNodes, OpenNewMaster, TurnReplicas, Turned, CheckAborted, failSwitchover,
            finishSwitchover, Crash, Goto, Managers
    <2> QED
        BY <1>5, <1>6, <2>1
<1>18. CASE CliSwitchFrom \/ CliForceSwitch \/ CliAbort \/ UNCHANGED vars
    BY <1>4, <1>18 DEF CliSwitchFrom, CliForceSwitch, CliAbort, CliSwitch, vars
<1>19. ASSUME NEW h \in Hosts, CliForceActive(h)
       PROVE  FALSE
    BY <1>1, <1>19 DEF CliForceActive, Spend, Kinds
<1>20. ASSUME NEW h \in Hosts,
              \/ applyPoisonPill(h) \/ repairLocalNode(h) \/ Replicate(h) \/ NetworkChange(h)
              \/ CliSwitchTo(h)
       PROVE  UNCHANGED <<mgr, active>>
    BY <1>20
    DEF applyPoisonPill, repairLocalNode, Replicate, NetworkChange, CliSwitchTo, CliSwitch
<1>21. ASSUME NEW n \in WriteIds, Acknowledge(n) \/ (\E h \in Hosts : ClientWrite(h, n))
       PROVE  UNCHANGED <<mgr, active>>
    BY <1>21 DEF Acknowledge, ClientWrite
<1> HIDE DEF Counting
<1> QED
    BY <1>4, <1>5, <1>8, <1>9, <1>10, <1>11, <1>12, <1>13, <1>14, <1>15, <1>16, <1>17, <1>18,
       <1>19, <1>20, <1>21
    DEF Next, stateManager, performSwitchover

\* Nothing opens a counted host for writes before the new active nodes are written:
\* repairMaster of a repair pass waits for the manager, and a host's own rdsync
\* only ever adds to the read-only hosts.
LEMMA StoppedStep == TypeInv /\ StoppedInv /\ [Next]_vars => StoppedInv'
<1> SUFFICES ASSUME TypeInv, StoppedInv, [Next]_vars
             PROVE  StoppedInv'
    OBVIOUS
<1> USE DEF serverVars, dcsVars, envVars
<1> DEFINE Stopped == Stopping \cup Compared
<1>1. mgr \in Managers /\ ro \subseteq Hosts /\ sw = mgr.sw
    BY DEF TypeInv, MgrTypes, ServerTypes, sw
<1>2. CASE mgr' = mgr /\ ro \subseteq ro'
    BY <1>2 DEF StoppedInv
<1>3. CASE mgr'.pc \notin Stopped
    BY <1>3 DEF StoppedInv, Compared
<1>4. CASE /\ mgr.pc \in Stopped \ Opened /\ mgr'.pc \in Stopped \cup {"failed"}
           /\ mgr'.alive \subseteq mgr.alive /\ ro \subseteq ro'
    BY <1>4 DEF StoppedInv, Stopping, Compared, Opened
<1>5. CASE /\ mgr.pc \in Opened /\ mgr'.pc \in Opened \cup {"failed"}
           /\ mgr'.alive = mgr.alive /\ mgr'.sw.newMaster = mgr.sw.newMaster /\ ro' = ro
    BY <1>5 DEF StoppedInv, Stopping, Compared, Opened
<1>6. CASE BeginSwitchover \/ startSwitchover \/ InitProgress
    <2>1. mgr'.pc \in {"start", "progress", "target"}
        BY <1>1, <1>6
        DEF BeginSwitchover, Idle, startSwitchover, InitProgress, updateSwitchover, Managers
    <2> QED
        BY <1>3, <2>1 DEF Stopping, Compared, Opened
<1>7. ASSUME NEW repaired \in SUBSET Hosts, NEW kept \in SUBSET (active \ answers),
             NEW update \in BOOLEAN, RepairPass(repaired, kept, update)
      PROVE  mgr'.pc \notin Stopped
    BY <1>7 DEF RepairPass, Stopping, Compared, Opened
<1>8. CASE ReadOnly
    <2>1. CASE sw.to # NoHost /\ sw.to \notin mgr.act
        <3>1. mgr'.pc = "failed"
            BY <1>1, <1>8, <2>1 DEF ReadOnly, Goto, Managers
        <3> QED
            BY <1>3, <3>1 DEF Stopping, Compared, Opened
    <2>2. CASE ~(sw.to # NoHost /\ sw.to \notin mgr.act)
        <3>1. PICK pc \in {"failed", "firstPill"}, act \in SUBSET Hosts, done \in SUBSET Hosts :
                  /\ mgr' = [mgr EXCEPT !.pc = pc, !.act = act, !.alive = done,
                                        !.fq = getFailoverQuorum(mgr.act)]
                  /\ ro' = ro \cup done
            BY <1>1, <1>8, <2>2 DEF ReadOnly, Managers
        <3>2. mgr'.pc \in {"failed", "firstPill"} /\ mgr'.alive \subseteq ro'
            BY <1>1, <3>1 DEF Managers
        <3> QED
            BY <3>2 DEF StoppedInv, Opened
    <2> QED
        BY <2>1, <2>2
<1>9. CASE FirstPill \/ waitPoisonPill("firstWait", "pause") \/ Pause
    <2>1. /\ mgr.pc \in {"firstPill", "firstWait", "pause"} /\ UNCHANGED ro
          /\ mgr'.pc \in {"firstWait", "pause", "failed", "choose"}
          /\ mgr'.alive \subseteq mgr.alive
        <3>1. CASE Pause
            <4>1. PICK alive \in SUBSET mgr.alive, pc \in {"failed", "choose"} :
                      mgr' = [mgr EXCEPT !.alive = alive, !.pc = pc]
                BY <3>1 DEF Pause
            <4>2. mgr'.pc = pc /\ mgr'.alive = alive
                BY <1>1, <4>1 DEF Managers
            <4> QED
                BY <3>1, <4>2 DEF Pause, At
        <3>2. CASE FirstPill \/ waitPoisonPill("firstWait", "pause")
            BY <1>1, <3>2
            DEF FirstPill, issuePoisonPill, waitPoisonPill, At, Goto, Managers
        <3> QED
            BY <1>9, <3>1, <3>2
    <2> QED
        BY <1>4, <2>1 DEF Stopping, Compared, Opened
<1>10. CASE \/ (\E mostRecent, newMaster \in Hosts : Choose(mostRecent, newMaster))
            \/ ChosenBefore \/ ChooseFails \/ Attach \/ WaitForCatchup \/ Refresh
    <2>1. /\ mgr.pc \in {"choose", "catchup", "wait", "refresh"} /\ UNCHANGED ro
          /\ mgr'.pc \in {"catchup", "wait", "refresh", "failed", "phase6", "setMaster"}
          /\ mgr'.alive = mgr.alive
        BY <1>1, <1>10
        DEF Choose, ChosenBefore, ChooseFails, Attach, WaitForCatchup, Refresh, At, Goto, Managers
    <2> QED
        BY <1>4, <2>1 DEF Stopping, Compared, Opened
<1>11. CASE SetMaster \/ SecondPill \/ waitPoisonPill("secondWait", "setNum")
    <2>1. /\ mgr.pc \in {"setMaster", "secondPill", "secondWait"} /\ UNCHANGED ro
          /\ mgr'.pc \in {"secondPill", "secondWait", "setNum"} /\ mgr'.alive = mgr.alive
        BY <1>1, <1>11
        DEF SetMaster, SecondPill, issuePoisonPill, waitPoisonPill, At, Goto, Managers
    <2> QED
        BY <1>4, <2>1 DEF Stopping, Compared, Opened
<1>12. CASE SetNumQuorumReplicas
    <2>1. /\ mgr.pc = "setNum" /\ mgr'.pc \in {"promote", "failed"} /\ mgr'.alive = mgr.alive
          /\ mgr'.sw = mgr.sw /\ ro \ {mgr.sw.newMaster} \subseteq ro'
        BY <1>1, <1>12 DEF SetNumQuorumReplicas, At, Goto, Managers
    <2> QED
        BY <2>1 DEF StoppedInv, Stopping, Compared, Opened
<1>13. CASE promote \/ SavePhase6
    <2>1. mgr.pc \in {"promote", "phase6"} /\ UNCHANGED ro
        BY <1>13 DEF promote, SavePhase6, At
    <2>2. mgr'.pc \in {"phase6", "failed", "setActive"} /\ mgr'.alive = mgr.alive
        BY <1>1, <1>13 DEF promote, SavePhase6, updateSwitchover, Goto, Managers
    <2>3. mgr'.sw.newMaster = mgr.sw.newMaster
        BY <1>1, <1>13 DEF promote, SavePhase6, updateSwitchover, Goto, Managers, Records
    <2> QED
        BY <1>5, <2>1, <2>2, <2>3 DEF Opened
<1>14. CASE \/ SetActiveNodes \/ OpenNewMaster \/ TurnReplicas \/ Turned \/ CheckAborted
            \/ failSwitchover \/ finishSwitchover \/ Crash
    <2>1. mgr'.pc \in {"open", "turn", "turned", "finished", "failed", "failSwitchover", "idle"}
        BY <1>1, <1>14, RecordTypes
        DEF SetActiveNodes, OpenNewMaster, TurnReplicas, Turned, CheckAborted, failSwitchover,
            finishSwitchover, Crash, Goto, Managers
    <2> QED
        BY <1>3, <2>1 DEF Stopping, Compared, Opened
<1>15. CASE \/ WaitPass \/ FailoverPass \/ NotApproved \/ TimedOut \/ NewManager
            \/ CliSwitchFrom \/ CliForceSwitch \/ CliAbort \/ UNCHANGED vars
    BY <1>2, <1>15
    DEF WaitPass, FailoverPass, NotApproved, TimedOut, RejectSwitchover, NewManager,
        CliSwitchFrom, CliForceSwitch, CliAbort, CliSwitch, vars
<1>16. ASSUME NEW h \in Hosts,
              \/ applyPoisonPill(h) \/ repairLocalNode(h) \/ Replicate(h) \/ NetworkChange(h)
              \/ CliSwitchTo(h) \/ CliForceActive(h)
       PROVE  mgr' = mgr /\ ro \subseteq ro'
    BY <1>16
    DEF applyPoisonPill, repairLocalNode, Replicate, NetworkChange, CliSwitchTo, CliForceActive,
        CliSwitch
<1>17. ASSUME NEW n \in WriteIds, Acknowledge(n) \/ (\E h \in Hosts : ClientWrite(h, n))
       PROVE  mgr' = mgr /\ ro \subseteq ro'
    BY <1>17 DEF Acknowledge, ClientWrite
<1> HIDE DEF Stopped
<1> QED
    BY <1>2, <1>3, <1>6, <1>7, <1>8, <1>9, <1>10, <1>11, <1>12, <1>13, <1>14, <1>15, <1>16, <1>17
    DEF Next, stateManager, performSwitchover

\* What can become of current_switch and of the manager's copy of it in one step.
LEMMA RecordStep ==
    ASSUME TypeInv, [Next]_vars
    PROVE  \/ UNCHANGED current /\ mgr' = mgr
           \/ UNCHANGED current /\ mgr'.sw = mgr.sw /\ mgr.pc # "idle"
           \/ UNCHANGED current /\ mgr'.sw = current
           \/ UNCHANGED current /\ mgr'.pc = "idle"
           \/ current'.phase = 0
           \/ /\ mgr.pc # "idle" /\ mgr'.sw = current'
              /\ \/ current'.newMaster = mgr.sw.newMaster /\ (current'.phase >= 3 => mgr.sw.phase >= 3)
                 \/ mgr.sw.phase < 3
<1> DEFINE Goal == \/ UNCHANGED current /\ mgr' = mgr
                   \/ UNCHANGED current /\ mgr'.sw = mgr.sw /\ mgr.pc # "idle"
                   \/ UNCHANGED current /\ mgr'.sw = current
                   \/ UNCHANGED current /\ mgr'.pc = "idle"
                   \/ current'.phase = 0
                   \/ /\ mgr.pc # "idle" /\ mgr'.sw = current'
                      /\ \/ /\ current'.newMaster = mgr.sw.newMaster
                            /\ current'.phase >= 3 => mgr.sw.phase >= 3
                         \/ mgr.sw.phase < 3
<1> SUFFICES Goal
    OBVIOUS
<1> USE DEF serverVars, dcsVars, envVars
<1>1. mgr \in Managers /\ sw \in Records /\ sw = mgr.sw
    BY DEF TypeInv, MgrTypes, Managers, sw
<1>2. /\ NoSwitch.phase = 0 /\ Idle.pc = "idle"
      /\ \A auto, retried \in BOOLEAN, from, to \in Hosts \cup {NoHost} :
             Switch(auto, from, to, retried).phase = 0
    BY RecordTypes
<1>3. CASE FailoverPass \/ NotApproved \/ TimedOut
    <2>1. Switch(TRUE, currentMaster, NoHost, FALSE).phase = 0
        BY <1>2, CurrentMasterType
    <2> QED
        BY <1>2, <1>3, <2>1 DEF FailoverPass, NotApproved, TimedOut, RejectSwitchover
<1>4. CASE BeginSwitchover
    BY <1>4 DEF BeginSwitchover, Idle
<1>5. CASE startSwitchover \/ InitProgress \/ SavePhase6
    <2>1. PICK record \in {sw, [sw EXCEPT !.phase = 1], [sw EXCEPT !.phase = 6]}, label \in PCs :
              /\ updateSwitchover(record, label) /\ mgr.pc # "idle"
              /\ record.phase = 6 => mgr.pc = "phase6" \/ record = sw
        BY <1>1, <1>5 DEF startSwitchover, InitProgress, SavePhase6, At, PCs, Records
    <2>2. current' = record /\ mgr'.sw = record /\ record.newMaster = mgr.sw.newMaster
        BY <1>1, <2>1 DEF updateSwitchover, Managers, Records
    <2>3. record.phase >= 3 => mgr.sw.phase >= 3
        BY <1>1, <2>1 DEF Records, TypeInv, MgrTypes, Acting
    <2> QED
        BY <2>1, <2>2, <2>3
<1>6. ASSUME NEW mostRecent \in Hosts, NEW newMaster \in Hosts, Choose(mostRecent, newMaster)
      PROVE  Goal
    <2>1. mgr.pc # "idle" /\ mgr.sw.phase < 3
        BY <1>1, <1>6 DEF Choose, At
    <2>2. mgr'.sw = current'
        BY <1>1, <1>6 DEF Choose, Managers
    <2> QED
        BY <2>1, <2>2
<1>7. CASE Refresh
    <2>1. mgr.pc # "idle" /\ mgr.sw.phase >= 3
        BY <1>7 DEF Refresh, At, Acting, TypeInv, MgrTypes
    <2>2. CASE sw.newMaster \notin answers \/ sw.phase = 6
        <3>1. UNCHANGED current /\ mgr'.sw = mgr.sw
            BY <1>1, <1>7, <2>2 DEF Refresh, Goto, Managers
        <3> QED
            BY <2>1, <3>1
    <2>3. CASE sw.newMaster \in answers /\ sw.phase # 6
        <3>1. mgr'.sw = current' /\ current'.newMaster = sw.newMaster
            BY <1>1, <1>7, <2>3 DEF Refresh, Managers, Records
        <3> QED
            BY <1>1, <2>1, <3>1
    <2> QED
        BY <2>2, <2>3
<1>8. CASE ReadOnly
    <2>1. mgr.pc # "idle" /\ UNCHANGED current
        BY <1>8 DEF ReadOnly, At
    <2>2. mgr'.sw = mgr.sw
        BY <1>1, <1>8 DEF ReadOnly, Goto, Managers
    <2> QED
        BY <2>1, <2>2
<1>9. CASE \/ Pause \/ ChosenBefore \/ promote \/ SetActiveNodes \/ OpenNewMaster
    <2>1. mgr.pc # "idle" /\ UNCHANGED current
        BY <1>9 DEF Pause, ChosenBefore, promote, SetActiveNodes, OpenNewMaster, At
    <2>2. mgr'.sw = mgr.sw
        BY <1>1, <1>9
        DEF Pause, ChosenBefore, promote, SetActiveNodes, OpenNewMaster, Goto, Managers
    <2> QED
        BY <2>1, <2>2
<1>10. ASSUME NEW label, Goto(label)
       PROVE  mgr'.sw = mgr.sw
    BY <1>1, <1>10 DEF Goto, Managers
<1>11. CASE \/ FirstPill \/ waitPoisonPill("firstWait", "pause") \/ ChooseFails \/ Attach
            \/ WaitForCatchup
    <2>1. mgr.pc # "idle" /\ UNCHANGED current /\ \E label \in PCs : Goto(label)
        BY <1>11
        DEF FirstPill, issuePoisonPill, waitPoisonPill, ChooseFails, Attach, WaitForCatchup, At, PCs
    <2> QED
        BY <1>10, <2>1
<1>12. CASE \/ SetMaster \/ SecondPill \/ waitPoisonPill("secondWait", "setNum")
            \/ SetNumQuorumReplicas \/ TurnReplicas \/ Turned
    <2>1. mgr.pc # "idle" /\ UNCHANGED current /\ \E label \in PCs : Goto(label)
        BY <1>12
        DEF SetMaster, SecondPill, issuePoisonPill, waitPoisonPill, SetNumQuorumReplicas,
            TurnReplicas, Turned, At, PCs
    <2> QED
        BY <1>10, <2>1
<1>13. CASE CheckAborted \/ Crash
    <2>1. /\ mgr.pc # "idle" /\ UNCHANGED current
          /\ mgr' = Idle \/ \E label \in PCs : Goto(label)
        BY <1>13 DEF CheckAborted, Crash, At, PCs
    <2> QED
        BY <1>2, <1>10, <2>1
<1>14. CASE failSwitchover \/ finishSwitchover
    <2>1. Switch(sw.auto, sw.from, sw.to, TRUE).phase = 0
        BY <1>1, <1>2 DEF Records, Switch
    <2> QED
        BY <1>2, <1>14, <2>1 DEF failSwitchover, finishSwitchover
<1>15. CASE CliSwitchFrom \/ CliForceSwitch \/ CliAbort
    <2>1. /\ Switch(FALSE, dcsMaster, NoHost, FALSE).phase = 0
          /\ Switch(FALSE, NoHost, forcing, TRUE).phase = 0
        BY <1>2 DEF TypeInv, DcsTypes, EnvTypes
    <2> QED
        BY <1>2, <1>15, <2>1 DEF CliSwitchFrom, CliForceSwitch, CliAbort, CliSwitch
<1>16. ASSUME NEW h \in Hosts, CliSwitchTo(h) \/ CliForceActive(h)
       PROVE  Goal
    <2>1. Switch(FALSE, NoHost, h, FALSE).phase = 0
        BY <1>2
    <2> QED
        BY <1>16, <2>1 DEF CliSwitchTo, CliForceActive, CliSwitch
<1>17. ASSUME NEW h \in Hosts,
              applyPoisonPill(h) \/ repairLocalNode(h) \/ Replicate(h) \/ NetworkChange(h)
       PROVE  Goal
    BY <1>17 DEF applyPoisonPill, repairLocalNode, Replicate, NetworkChange
<1>18. ASSUME NEW n \in WriteIds, Acknowledge(n) \/ (\E h \in Hosts : ClientWrite(h, n))
       PROVE  Goal
    BY <1>18 DEF Acknowledge, ClientWrite
<1>19. CASE \/ WaitPass \/ NewManager \/ UNCHANGED vars
            \/ \E repaired \in SUBSET Hosts, kept \in SUBSET (active \ answers), update \in BOOLEAN :
                   RepairPass(repaired, kept, update)
    BY <1>19 DEF WaitPass, NewManager, RepairPass, vars
<1> HIDE DEF Goal
<1> QED
    BY <1>3, <1>4, <1>5, <1>6, <1>7, <1>8, <1>9, <1>11, <1>12, <1>13, <1>14, <1>15, <1>16,
       <1>17, <1>18, <1>19
    DEF Next, stateManager, performSwitchover

\* The manager's copy and the record in the DCS never name different hosts.
LEMMA ChoiceStep == TypeInv /\ SameChoice /\ [Next]_vars => SameChoice'
BY RecordStep DEF SameChoice

\* IndInv holds in every reachable state.
LEMMA Inductive == Spec => []IndInv
<1>1. IndInv /\ [Next]_vars => IndInv'
    <2> SUFFICES ASSUME IndInv, [Next]_vars
                 PROVE  IndInv'
        OBVIOUS
    <2>1. TypeInv /\ CountInv /\ StoppedInv /\ SameChoice
        BY DEF IndInv
    <2>2. TypeInv'
        BY <2>1, ServerStep, DcsStep, EnvStep, MgrStep DEF TypeInv
    <2> QED
        BY <2>1, <2>2, CountStep, StoppedStep, ChoiceStep DEF IndInv
<1> QED
    BY <1>1, InitInv, PTL DEF Spec

\* The type invariant of Switchover: the path master always names a host of the
\* shard, whatever getCurrentMaster, rdsync switch or a new master writes there.
THEOREM TypeCorrect == Spec => []TypeOK
<1>1. IndInv => TypeOK
    <2> SUFFICES ASSUME TypeInv
                 PROVE  TypeOK
        BY DEF IndInv
    <2>1. /\ mgr.sw \in Records /\ mgr.pc \in PCs /\ mgr.oldMaster \in Hosts \cup {NoHost}
          /\ {mgr.snap, mgr.links, mgr.act, mgr.alive} \subseteq SUBSET Hosts
        BY DEF TypeInv, MgrTypes, Managers
    <2>2. \A n \in WriteIds : writes[n].state \in {"none", "waiting", "acked", "unknown"}
        BY DEF TypeInv, EnvTypes, Writes
    <2> QED
        BY <2>1, <2>2 DEF TypeOK, TypeInv, ServerTypes, DcsTypes, EnvTypes
<1> QED
    BY <1>1, Inductive, PTL

\* As many hosts as the failover quorum of the active nodes asks for share one with
\* any hosts that can have acknowledged a write: the master and half of the others.
LEMMA QuorumCovers ==
    ASSUME NEW nodes \in SUBSET Hosts, NEW alive \in SUBSET nodes, NEW holders \in SUBSET nodes,
           Cardinality(alive) >= getFailoverQuorum(nodes),
           Cardinality(holders) > getNumReplicasToWrite(nodes)
    PROVE  holders \cap alive # {}
<1>1. IsFiniteSet(nodes) /\ IsFiniteSet(alive) /\ IsFiniteSet(holders)
    BY NumReplicasType
<1>2. /\ Cardinality(nodes) \in Nat /\ Cardinality(alive) \in Nat
      /\ Cardinality(holders) \in Nat
    BY <1>1, FS_CardinalityType
<1>3. Cardinality(holders) + Cardinality(alive) > Cardinality(nodes)
    BY <1>2 DEF getFailoverQuorum, getNumReplicasToWrite
<1> QED
    BY <1>1, <1>3, FS_MajoritiesIntersect

\* From the comparison of positions until the new active nodes are written, every
\* quorum of the active nodes has a member that was stopped and is still read-only,
\* or is the new master, as long as nobody used --force.
THEOREM PositionsAlwaysCoverQuorum == Spec => []PositionsCoverQuorum
<1>1. IndInv => PositionsCoverQuorum
    <2> SUFFICES ASSUME IndInv, mgr.pc \in Compared, spent.forced = 0,
                        NEW holders \in SUBSET active,
                        Cardinality(holders) > getNumReplicasToWrite(active)
                 PROVE  \E h \in holders \cap mgr.alive :
                            h \in ro \/ (mgr.pc \in Opened /\ h = sw.newMaster)
        BY DEF PositionsCoverQuorum
    <2>1. /\ mgr.alive \subseteq active /\ active \subseteq Hosts
          /\ Cardinality(mgr.alive) >= getFailoverQuorum(active)
        BY DEF IndInv, CountInv, TypeInv, DcsTypes
    <2>2. PICK h \in holders : h \in mgr.alive
        BY <2>1, QuorumCovers
    <2>3. h \in ro \/ (mgr.pc \in Opened /\ h = sw.newMaster)
        BY <2>2 DEF IndInv, StoppedInv, sw
    <2> QED
        BY <2>2, <2>3
<1> QED
    BY <1>1, Inductive, PTL

\* No step replaces the new master that current_switch names by another, whichever
\* manager takes the step and however many have died before it.
THEOREM ChoiceAlwaysStands == Spec => ChoiceStands
<1> DEFINE Stands == current.exists /\ current.phase >= 3 /\ current'.exists /\ current'.phase >= 3
                     => current'.newMaster = current.newMaster
<1>1. IndInv /\ [Next]_vars => [Stands]_vars
    <2> SUFFICES ASSUME IndInv, [Next]_vars, current.exists, current.phase >= 3,
                        current'.exists, current'.phase >= 3
                 PROVE  current'.newMaster = current.newMaster
        OBVIOUS
    <2>1. TypeInv
        BY DEF IndInv
    <2>2. mgr.pc # "idle" => mgr.sw.phase >= 3 /\ mgr.sw.newMaster = current.newMaster
        BY DEF IndInv, SameChoice
    <2>3. mgr.sw.phase \in Int
        BY <2>1 DEF TypeInv, MgrTypes, Managers, Records
    <2> QED
        BY <2>1, <2>2, <2>3, RecordStep
<1> QED
    BY <1>1, Inductive, PTL DEF Spec, ChoiceStands

-----------------------------------------------------------------------------
(* What the refinement of Shard means for the servers.                     *)

SP == INSTANCE ShardProofs WITH
        held <- IF primary = NoHost THEN {} ELSE log[primary],
        kept <- spent.forced = 0 /\ spent.faults <= 1 /\ spent.late = 0

\* A shard whose steps implement Shard keeps acknowledged writes wherever there is
\* one master: AckedKept is what the promise of Shard means for the servers' logs.
THEOREM ShardKeepsAcked == ImplementsShard => [](OneMaster => AckedKept)
<1>1. S!Durable /\ OneMaster => AckedKept
    <2> SUFFICES ASSUME S!Durable, OneMaster, spent.forced = 0, spent.faults <= 1,
                        spent.late = 0, NEW h \in acknowledging
                 PROVE  acked \subseteq log[h]
        BY DEF AckedKept
    <2>1. IsFiniteSet(acknowledging)
        BY SwitchoverAssumption, FS_Subset DEF acknowledging
    <2>2. Cardinality(acknowledging) = 1
        <3>1. Cardinality(acknowledging) \in Nat /\ Cardinality(acknowledging) # 0
            BY <2>1, FS_CardinalityType, FS_EmptySet
        <3> QED
            BY <3>1 DEF OneMaster
    <2>3. acknowledging = {h}
        BY <2>1, <2>2, FS_Singleton
    <2>4. primary = h /\ h # NoHost
        BY <2>2, <2>3, SwitchoverAssumption DEF primary, acknowledging
    <2> QED
        BY <2>4 DEF S!Durable
<1>2. S!Spec => []S!Durable
    BY SP!AlwaysDurable, PTL
    DEF S!Spec, S!Init, S!Next, S!vars, S!Durable, S!Write, S!Acknowledge, S!TakeOver, S!StepDown,
        S!GiveUp, SP!Spec, SP!Init, SP!Next, SP!vars, SP!Durable, SP!Write, SP!Acknowledge,
        SP!TakeOver, SP!StepDown, SP!GiveUp
<1> QED
    BY <1>1, <1>2, PTL DEF ImplementsShard
=============================================================================
