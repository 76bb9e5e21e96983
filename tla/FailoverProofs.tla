--------------------------- MODULE FailoverProofs ---------------------------
(***************************************************************************)
(* One failure of a host, or one planned switchover, costs no acknowledged *)
(* write and never gives the shard two masters: AckedKept, OneMaster and   *)
(* ImplementsShard of Switchover for every number of hosts and of writes,  *)
(* for every max_parallel_syncs and replication backlog, and however often *)
(* the manager dies, the operator aborts, a record times out or a pill     *)
(* comes late.  What is excluded is named in the theorems: a second        *)
(* failure, a second switchover, --force, and a manager that dies, or      *)
(* whose call fails, between the write of the path master and the end of   *)
(* the switchover.                                                         *)
(***************************************************************************)
EXTENDS SwitchoverProofs

\* One failure or one planned switchover: the network changes once or the operator
\* asks once, and never with --force.
Limited == spent["forced"] = 0 /\ spent["faults"] + spent["switches"] <= 1

\* No manager dies, and no call fails, once the path master names a new master.
DiesEarly == Crash => dcsMaster = InitialMaster

M == InitialMaster
Replicas == Hosts \ {M}

\* the initial master is out of reach of the manager and of its replicas
Down == reach = Replicas /\ broken = {M}

\* the operator has asked for a switchover, in a network that works
Planned == spent["switches"] > 0 /\ reach = Hosts /\ broken = {}

\* nothing has happened that a master is replaced for
Undisturbed == spent["faults"] = 0 /\ spent["switches"] = 0

\* the calls up to the write of the path master; those of them after the call that
\* makes the hosts read-only; the calls from there to promote; those after promote
Before == {"idle", "start", "progress", "target", "firstPill", "firstWait", "pause", "choose",
           "catchup", "wait", "refresh", "setMaster", "failed", "failSwitchover"}
Closed == {"firstPill", "firstWait", "pause", "choose", "catchup", "wait", "refresh", "setMaster"}
Unopened == {"secondPill", "secondWait", "setNum", "promote"}
After == {"idle", "phase6", "setActive", "open", "turn", "turned", "finished"}

Waiting(n, h) == writes[n].state = "waiting" /\ writes[n].host = h

\* the initial master acknowledges nothing without a replica
Waits == num[M] >= 1 /\ \A n \in WriteIds : Waiting(n, M) => writes[n].need >= 1

\* it acknowledges nothing at all: no replica reaches it, or it is read-only and
\* its clients are gone
Fenced == \/ Down /\ Waits
          \/ M \in ro /\ \A n \in WriteIds : ~Waiting(n, M)

\* every acknowledged write has a copy on a replica
Copied == \A n \in acked : \E r \in Replicas : n \in log[r]

\* a history without a gap
Segment(T) == \A x \in T, y \in WriteIds : y < x => y \in T

\* there is one stream of writes, that of the initial master
Stream ==
    /\ \A h \in Hosts : Segment(log[h])
    /\ \A n \in WriteIds : writes[n].state # "none" => n \in log[M]

\* a replica has a source, and no write that its source has not
Following == \A r \in Replicas : src[r] # r /\ log[r] \subseteq log[src[r]]

\* the initial master is the one that clients write to
OneSource ==
    /\ src[M] = M
    /\ \A h \in Hosts : log[h] \subseteq log[M]
    /\ \A n \in WriteIds : writes[n].state = "waiting" => writes[n].host = M

\* the new master has caught up with the most recent host
Synced(record) == log[record.mostRecent] \subseteq log[record.newMaster]

\* The choice in a record: both hosts answer, no host that answers is ahead of the
\* most recent one, and it holds what has been acknowledged and ever will be.
Chosen(record) ==
    /\ record.newMaster \in reach \ {M} /\ record.mostRecent \in reach
    /\ \A h \in reach : log[h] \subseteq log[record.mostRecent]
    /\ acked \subseteq log[record.mostRecent]
    /\ Fenced

Sound(record) ==
    /\ record.exists
    /\ record.to \in (reach \ {M}) \cup {NoHost} /\ (record.to = NoHost => record.from = M)
    /\ record.phase # 6 /\ (Planned => ~record.auto)
    /\ record.phase >= 3 => Chosen(record)
    /\ record.phase >= 5 => Synced(record)

\* what can have happened to the network
Net ==
    /\ Limited /\ forcing = NoHost
    /\ spent["faults"] = 0 => reach = Hosts /\ broken = {}
    /\ \E h \in Hosts : reach \in {Hosts, Hosts \ {h}} /\ broken \in {{}, {h}}

\* The first of three stages: the initial master serves, and no failover is
\* approved (a replica failed, or a master that only the manager has lost).
Steady ==
    /\ spent["switches"] = 0 /\ ~Down
    /\ dcsMaster = M /\ M \in active /\ mgr.pc = "idle" /\ ~current.exists
    /\ pill.host = NoHost /\ offline = {} /\ paused = {}
    /\ \A h \in Hosts : src[h] = M
    /\ Stream /\ OneSource
    /\ Undisturbed /\ Replicas # {} => Waits /\ Copied

Pills ==
    /\ pill.host \in {M, NoHost} /\ offline \subseteq {M}
    /\ Planned => pill.host = NoHost /\ offline = {}

\* an attempt to replace it: the record, and the manager that performs it
Attempt ==
    /\ mgr.pc \in Before
    /\ current.exists => Sound(current)
    /\ mgr.pc # "idle" => /\ Sound(mgr.sw) /\ mgr.oldMaster = M
                          /\ Planned => mgr.snap = Hosts
    /\ mgr.pc \in Closed => Fenced
    /\ mgr.pc \in {"refresh", "setMaster"} \/ (mgr.pc = "catchup" /\ ~mgr.behind) =>
           Synced(mgr.sw)

\* The second: it is down or to be replaced, and the path master still names it.
Replacing ==
    /\ Down \/ Planned
    /\ dcsMaster = M /\ M \in active
    /\ Stream /\ Following /\ OneSource
    /\ Down /\ Replicas # {} => Waits /\ Copied
    /\ current.exists \/ mgr.pc # "idle" => Replicas # {}
    /\ Pills /\ Attempt

\* a new master is not promoted yet, or is the only other master
Promotion ==
    /\ mgr.pc \in Unopened => Stream /\ Following
    /\ Planned /\ mgr.pc \in Unopened => src[M] = M /\ (offline # {} => pill.host = M)
    /\ mgr.pc \in After => src[dcsMaster] = dcsMaster
    /\ \A h \in Replicas \ {dcsMaster} : src[h] # h

\* the manager that promotes it, or has finished
Manager ==
    /\ mgr.pc \in Unopened \cup After
    /\ mgr.pc # "idle" => mgr.sw.newMaster = dcsMaster /\ mgr.oldMaster = M
    /\ mgr.pc \in After => mgr.snap \subseteq reach
    /\ mgr.pc \in {"phase6", "setActive"} => M \notin mgr.snap
    /\ mgr.pc \in {"open", "turn", "turned"} => M \notin mgr.act
    /\ mgr.pc = "idle" => ~current.exists
    /\ mgr.pc = "turned" => \A h \in (mgr.act \cap mgr.snap) \ {dcsMaster} :
                                src[h] = dcsMaster /\ h \notin paused

\* The third: the path master names another host, which holds every acknowledged
\* write, and the initial master acknowledges no more.
Replaced ==
    /\ Down \/ Planned
    /\ dcsMaster \in reach \ {M}
    /\ pill.host \in {M, NoHost} /\ offline \subseteq {M}
    /\ Fenced
    /\ acked \subseteq log[dcsMaster]
    /\ \A n \in WriteIds : writes[n].state = "waiting" =>
           writes[n].host = M \/ (writes[n].host = dcsMaster /\ n \in log[dcsMaster])
    /\ Promotion /\ Manager

Staged == Net /\ spent["late"] = 0 /\ (Steady \/ Replacing \/ Replaced)

-----------------------------------------------------------------------------
(* Histories without gaps.                                                 *)

\* The initial master is a host, and NoHost is none.
LEMMA HostFacts == M \in Hosts /\ NoHost \notin Hosts /\ M # NoHost /\ WriteIds \subseteq Nat
BY SwitchoverAssumption DEF M, WriteIds

\* Of two histories without gaps one is a prefix of the other.
LEMMA SegmentsNest ==
    ASSUME NEW a \in SUBSET WriteIds, NEW b \in SUBSET WriteIds, Segment(a), Segment(b)
    PROVE  /\ a \subseteq b \/ b \subseteq a
           /\ a \subseteq b => isPrefix(a, b)
<1>1. a \subseteq Nat /\ b \subseteq Nat
    BY HostFacts
<1>2. a \subseteq b \/ b \subseteq a
    BY <1>1 DEF Segment
<1>3. a \subseteq b => isPrefix(a, b)
    BY <1>1 DEF Segment, isPrefix
<1> QED
    BY <1>2, <1>3

\* A history is finite: it has a size.
LEMMA FiniteHistories == \A a \in SUBSET WriteIds : IsFiniteSet(a)
<1>1. IsFiniteSet(WriteIds)
    BY SwitchoverAssumption, FS_Interval DEF WriteIds
<1> QED
    BY <1>1, FS_Subset

\* The longer one has all that the other has: an offset says which writes a host
\* holds (getOffset).
LEMMA SegmentSize ==
    ASSUME NEW a \in SUBSET WriteIds, NEW b \in SUBSET WriteIds, Segment(a), Segment(b),
           Cardinality(a) <= Cardinality(b)
    PROVE  a \subseteq b
<1>1. IsFiniteSet(a) /\ IsFiniteSet(b)
    BY FiniteHistories
<1>2. Cardinality(a) \in Nat /\ Cardinality(b) \in Nat
    BY <1>1, FS_CardinalityType
<1>3. CASE b \subseteq a
    <2>1. Cardinality(b) = Cardinality(a) => a = b
        BY <1>1, <1>3, FS_Subset
    <2>2. Cardinality(b) <= Cardinality(a)
        BY <1>1, <1>3, FS_Subset
    <2> QED
        BY <1>2, <2>1, <2>2
<1> QED
    BY <1>3, SegmentsNest

-----------------------------------------------------------------------------
(* What a step can do to the writes, the histories and the network.        *)

\* some clients are disconnected; the others wait on
Dropped ==
    \A n \in WriteIds :
        /\ writes'[n].state = "none" <=> writes[n].state = "none"
        /\ writes'[n].state = "acked" <=> writes[n].state = "acked"
        /\ writes'[n].state = "waiting" =>
               writes[n].state = "waiting" /\ writes'[n].host = writes[n].host
               /\ writes'[n].need = writes[n].need

\* Clients that are disconnected learn nothing, and those of hs wait no more.
LEMMA DropClients ==
    ASSUME TypeInv, NEW hs, dropClients(hs)
    PROVE  /\ Dropped
           /\ \A n \in WriteIds : writes'[n].state = "waiting" => writes'[n].host \notin hs
<1>1. \A n \in WriteIds : writes[n] \in Writes
    BY DEF TypeInv, EnvTypes
<1>2. ASSUME NEW n \in WriteIds
      PROVE  IF writes[n].state = "waiting" /\ writes[n].host \in hs
             THEN writes'[n].state = "unknown"
             ELSE writes'[n] = writes[n]
    BY <1>1 DEF dropClients, Writes
<1> QED
    BY <1>1, <1>2 DEF Dropped, Writes

\* A replica that replicates gains writes of its source and loses none.
LEMMA ReplicateGrows ==
    ASSUME TypeInv, NEW r \in Hosts, Replicate(r), Segment(log[r]), Segment(log[src[r]]),
           log[r] \subseteq log[src[r]]
    PROVE  /\ log[r] \subseteq log'[r] /\ log'[r] \subseteq log[src[r]]
           /\ Segment(log'[r])
           /\ \A h \in Hosts : h # r => log'[h] = log[h]
<1> DEFINE missing == log[src[r]] \ log[r]
           next == CHOOSE x \in missing : \A y \in missing : x <= y
<1>1. log[r] \in SUBSET WriteIds /\ log[src[r]] \in SUBSET WriteIds /\ WriteIds \subseteq Nat
    BY HostFacts DEF TypeInv, ServerTypes
<1>2. isPrefix(log[r], log[src[r]])
    BY <1>1, SegmentsNest
<1>3. missing # {} /\ missing \in SUBSET Nat
    BY <1>1 DEF Replicate
<1>4. next \in missing /\ \A y \in missing : next <= y
    BY <1>3, Smallest
<1>5. log' = [log EXCEPT ![r] = log[r] \cup {next}]
    BY <1>2 DEF Replicate
<1> HIDE DEF next
<1>6. log'[r] = log[r] \cup {next} /\ \A h \in Hosts : h # r => log'[h] = log[h]
    BY <1>5 DEF TypeInv, ServerTypes
<1>7. Segment(log[r] \cup {next})
    <2> SUFFICES ASSUME NEW x \in log[r] \cup {next}, NEW y \in WriteIds, y < x
                 PROVE  y \in log[r] \cup {next}
        BY DEF Segment
    <2>1. CASE x \in log[r]
        BY <2>1 DEF Segment
    <2>2. CASE x = next
        <3>1. y \in log[src[r]]
            BY <1>4, <2>2 DEF Segment
        <3>2. next \in Nat /\ y \in Nat
            BY <1>1, <1>3, <1>4
        <3>3. ~(next <= y)
            BY <2>2, <3>2
        <3> QED
            BY <1>4, <3>1, <3>3
    <2> QED
        BY <2>1, <2>2
<1> QED
    BY <1>4, <1>6, <1>7

\* A write on the initial master is the next one of its stream.
LEMMA WriteGrows ==
    ASSUME TypeInv, Stream, NEW n \in WriteIds, ClientWrite(M, n)
    PROVE  /\ log'[M] = log[M] \cup {n} /\ Segment(log'[M])
           /\ \A h \in Hosts : h # M => log'[h] = log[h]
           /\ writes'[n].state \in {"acked", "waiting"}
           /\ writes'[n].host = M /\ writes'[n].need = num[M]
           /\ writes'[n].state = "acked" <=> num[M] = 0
           /\ writes[n].state = "none"
           /\ \A k \in WriteIds : k # n => writes'[k] = writes[k]
<1>1. M \in Hosts /\ WriteIds = 1 .. MaxWrites /\ MaxWrites \in Nat
    BY HostFacts, SwitchoverAssumption DEF WriteIds
<1>2. /\ log' = [log EXCEPT ![M] = @ \cup {n}]
      /\ writes' = [writes EXCEPT ![n] = [state |-> IF num[M] = 0 THEN "acked" ELSE "waiting",
                                          host |-> M, need |-> num[M]]]
      /\ writes[n].state = "none"
      /\ \A k \in 1 .. n - 1 : writes[k].state # "none"
    BY DEF ClientWrite
<1>3. log'[M] = log[M] \cup {n} /\ \A h \in Hosts : h # M => log'[h] = log[h]
    BY <1>1, <1>2 DEF TypeInv, ServerTypes
<1>4. Segment(log[M] \cup {n})
    <2> SUFFICES ASSUME NEW x \in log[M] \cup {n}, NEW y \in WriteIds, y < x
                 PROVE  y \in log[M]
        BY DEF Segment
    <2>1. CASE x \in log[M]
        BY <1>1, <2>1 DEF Stream, Segment
    <2>2. CASE x = n
        <3>1. y \in 1 .. n - 1
            BY <1>1, <2>2
        <3> QED
            BY <1>2, <3>1 DEF Stream
    <2> QED
        BY <2>1, <2>2
<1>5. writes'[n] = [state |-> IF num[M] = 0 THEN "acked" ELSE "waiting",
                    host |-> M, need |-> num[M]]
      /\ \A k \in WriteIds : k # n => writes'[k] = writes[k]
    BY <1>2 DEF TypeInv, EnvTypes
<1> QED
    BY <1>2, <1>3, <1>4, <1>5

\* Every step is a write, an acknowledgement, one of replication, or leaves the
\* histories alone and acknowledges nothing.
LEMMA Histories ==
    ASSUME TypeInv, [Next]_vars
    PROVE  \/ \E h \in Hosts, n \in WriteIds : ClientWrite(h, n)
           \/ \E n \in WriteIds : Acknowledge(n)
           \/ \E r \in Hosts : Replicate(r)
           \/ UNCHANGED log /\ Dropped
<1> USE DEF serverVars, dcsVars, envVars
<1>1. UNCHANGED writes => Dropped
    BY DEF Dropped
<1>2. \A hs : dropClients(hs) => Dropped
    BY DropClients
<1>3. \A hs, master : repairReplica(hs, master) => Dropped
    BY <1>2 DEF repairReplica
<1>4. CASE stateManager
    BY <1>1, <1>2, <1>4
    DEF stateManager, WaitPass, FailoverPass, NotApproved, TimedOut, RejectSwitchover,
        BeginSwitchover, RepairPass
<1>5. CASE \/ waitPoisonPill("firstWait", "pause") \/ waitPoisonPill("secondWait", "setNum")
           \/ Crash \/ NewManager \/ CliSwitchFrom \/ CliForceSwitch \/ CliAbort \/ UNCHANGED vars
    BY <1>1, <1>5
    DEF waitPoisonPill, Crash, NewManager, CliSwitchFrom, CliForceSwitch, CliAbort, CliSwitch, vars
<1>6. CASE \/ startSwitchover \/ InitProgress \/ FirstPill \/ Pause
           \/ (\E mostRecent, newMaster \in Hosts : Choose(mostRecent, newMaster))
           \/ ChooseFails \/ ChosenBefore \/ WaitForCatchup \/ Refresh
    BY <1>1, <1>6
    DEF startSwitchover, InitProgress, FirstPill, issuePoisonPill, Pause, Choose,
        ChooseFails, ChosenBefore, WaitForCatchup, Refresh
<1>7. CASE ReadOnly \/ Attach
    <2>1. UNCHANGED log
        BY <1>7 DEF ReadOnly, Attach
    <2>2. UNCHANGED writes \/ \E hs : dropClients(hs)
        BY <1>7 DEF ReadOnly, Attach
    <2> QED
        BY <1>1, <1>2, <2>1, <2>2
<1>8. CASE \/ SetMaster \/ SecondPill \/ SetNumQuorumReplicas \/ promote \/ SavePhase6
           \/ SetActiveNodes \/ OpenNewMaster \/ Turned \/ CheckAborted \/ failSwitchover
           \/ finishSwitchover
    BY <1>1, <1>8
    DEF SetMaster, SecondPill, issuePoisonPill, SetNumQuorumReplicas, promote, SavePhase6,
        SetActiveNodes, OpenNewMaster, Turned, CheckAborted, failSwitchover, finishSwitchover
<1>9. CASE TurnReplicas
    BY <1>3, <1>9 DEF TurnReplicas
<1>10. ASSUME NEW h \in Hosts,
              applyPoisonPill(h) \/ NetworkChange(h) \/ CliSwitchTo(h) \/ CliForceActive(h)
       PROVE  UNCHANGED log /\ Dropped
    BY <1>1, <1>2, <1>10
    DEF applyPoisonPill, NetworkChange, CliSwitchTo, CliForceActive, CliSwitch
<1>11. ASSUME NEW h \in Hosts, repairLocalNode(h)
       PROVE  UNCHANGED log /\ Dropped
    BY <1>1, <1>3, <1>11 DEF repairLocalNode, OpenMaster, OpenReplica
<1> QED
    BY <1>4, <1>5, <1>6, <1>7, <1>8, <1>9, <1>10, <1>11 DEF Next, performSwitchover

\* The network and the counts of failures and switchovers change in three ways
\* only, each of them in an undisturbed shard.
LEMMA NetStep ==
    ASSUME TypeInv, Net, [Next]_vars, Limited'
    PROVE  /\ Net'
           /\ ~CliForceSwitch /\ \A h \in Hosts : ~CliForceActive(h)
           /\ Crash \/ UNCHANGED spent["late"]
           /\ \/ UNCHANGED <<reach, broken, spent["faults"], spent["switches"]>>
              \/ /\ Undisturbed /\ spent'["switches"] = 0 /\ spent'["faults"] = 1
                 /\ \E h \in Hosts : NetworkChange(h)
              \/ /\ Undisturbed /\ spent'["switches"] = 1 /\ spent'["faults"] = 0
                 /\ UNCHANGED <<reach, broken>>
                 /\ CliSwitchFrom \/ \E h \in Hosts : CliSwitchTo(h)
<1> DEFINE Early == Crash \/ spent'["late"] = spent["late"]
           Same == UNCHANGED <<reach, broken, forcing, spent["faults"], spent["switches"]>> /\ Early
           Fault == /\ Early
                    /\ spent'["switches"] = spent["switches"] /\ spent'["faults"] = spent["faults"] + 1
                    /\ UNCHANGED forcing /\ \E h \in Hosts : NetworkChange(h)
           Asked == /\ Early
                    /\ spent'["switches"] = spent["switches"] + 1 /\ spent'["faults"] = spent["faults"]
                    /\ UNCHANGED <<reach, broken, forcing>>
                    /\ CliSwitchFrom \/ \E h \in Hosts : CliSwitchTo(h)
<1> USE DEF serverVars, dcsVars, envVars
<1>1. /\ \A k \in Kinds : spent[k] \in Nat
      /\ {"faults", "switches", "forced", "late"} \subseteq Kinds
    BY DEF TypeInv, EnvTypes, Kinds
<1>2. ASSUME NEW kinds, Spend(kinds), NEW k \in Kinds
      PROVE  spent'[k] = IF k \in kinds THEN spent[k] + 1 ELSE spent[k]
    BY <1>2 DEF Spend
<1>3. ~CliForceSwitch
    BY DEF Net, CliForceSwitch
<1>4. ASSUME NEW h \in Hosts
      PROVE  ~CliForceActive(h)
    <2> SUFFICES ASSUME CliForceActive(h) PROVE FALSE
        OBVIOUS
    <2>1. spent'["forced"] = spent["forced"] + 1
        BY <1>1, <1>2 DEF CliForceActive
    <2> QED
        BY <1>1, <2>1 DEF Limited
<1>5. ASSUME stateManager
      PROVE  Same
    <2>1. UNCHANGED spent \/ Spend({"timeouts"})
        BY <1>5
        DEF stateManager, WaitPass, FailoverPass, NotApproved, TimedOut, BeginSwitchover, RepairPass
    <2>2. UNCHANGED <<reach, broken, forcing>>
        BY <1>5
        DEF stateManager, WaitPass, FailoverPass, NotApproved, TimedOut, RejectSwitchover,
            BeginSwitchover, RepairPass
    <2> QED
        BY <1>1, <1>2, <2>1, <2>2
<1>6. ASSUME \/ waitPoisonPill("firstWait", "pause") \/ waitPoisonPill("secondWait", "setNum")
             \/ Crash \/ NewManager \/ CliAbort \/ UNCHANGED vars
      PROVE  Same
    <2>1. \/ UNCHANGED spent \/ Spend({"pills"}) \/ Spend({"aborts"})
          \/ Spend({"crashes"}) \/ (Crash /\ Spend({"crashes", "late"}))
        BY <1>6 DEF waitPoisonPill, Crash, Interrupted, NewManager, CliAbort, vars
    <2>2. UNCHANGED <<reach, broken, forcing>>
        BY <1>6 DEF waitPoisonPill, Crash, NewManager, CliAbort, vars
    <2> QED
        BY <1>1, <1>2, <2>1, <2>2
<1>7. ASSUME \/ startSwitchover \/ InitProgress \/ ReadOnly \/ FirstPill \/ Pause
             \/ (\E mostRecent, newMaster \in Hosts : Choose(mostRecent, newMaster))
             \/ ChooseFails \/ ChosenBefore \/ Attach \/ WaitForCatchup \/ Refresh
      PROVE  Same
    BY <1>7
    DEF startSwitchover, InitProgress, ReadOnly, FirstPill, issuePoisonPill, Pause, Choose,
        ChooseFails, ChosenBefore, Attach, WaitForCatchup, Refresh
<1>8. ASSUME \/ SetMaster \/ SecondPill \/ SetNumQuorumReplicas \/ promote \/ SavePhase6
             \/ SetActiveNodes \/ OpenNewMaster \/ TurnReplicas \/ Turned \/ CheckAborted
             \/ failSwitchover \/ finishSwitchover
      PROVE  Same
    BY <1>8
    DEF SetMaster, SecondPill, issuePoisonPill, SetNumQuorumReplicas, promote, SavePhase6,
        SetActiveNodes, OpenNewMaster, TurnReplicas, Turned, CheckAborted, failSwitchover,
        finishSwitchover
<1>9. ASSUME NEW h \in Hosts, applyPoisonPill(h) \/ repairLocalNode(h) \/ Replicate(h)
      PROVE  Same
    BY <1>9 DEF applyPoisonPill, repairLocalNode, Replicate
<1>10. ASSUME NEW n \in WriteIds, Acknowledge(n) \/ \E h \in Hosts : ClientWrite(h, n)
       PROVE  Same
    <2>1. UNCHANGED <<reach, broken, forcing>> /\ (UNCHANGED spent \/ Spend({"writes"}))
        BY <1>10 DEF Acknowledge, ClientWrite
    <2> QED
        BY <1>1, <1>2, <2>1
<1>11. ASSUME NEW h \in Hosts, NetworkChange(h)
       PROVE  Fault
    BY <1>1, <1>2, <1>11 DEF NetworkChange
<1>12. ASSUME CliSwitchFrom \/ \E h \in Hosts : CliSwitchTo(h)
       PROVE  Asked
    <2>1. Spend({"switches"}) /\ UNCHANGED <<reach, broken, forcing>>
        BY <1>12 DEF CliSwitchFrom, CliSwitchTo, CliSwitch
    <2> QED
        BY <1>1, <1>2, <1>12, <2>1
<1>13. Same \/ Fault \/ Asked
    <2> HIDE DEF Same, Fault, Asked
    <2> QED
        BY <1>3, <1>4, <1>5, <1>6, <1>7, <1>8, <1>9, <1>10, <1>11, <1>12
        DEF Next, performSwitchover
<1> HIDE DEF Early
<1>14. spent["faults"] \in Nat /\ spent["switches"] \in Nat
    BY <1>1
<1>15. Fault \/ Asked => Undisturbed
    BY <1>14 DEF Limited, Undisturbed
<1>16. Net'
    <2>1. CASE Same
        BY <2>1 DEF Net
    <2>2. CASE Fault
        <3>1. PICK h \in Hosts : NetworkChange(h)
            BY <2>2
        <3>2. reach = Hosts /\ broken = {}
            BY <1>15, <2>2 DEF Net, Undisturbed
        <3>3. reach' \in {Hosts, Hosts \ {h}} /\ broken' \in {{}, {h}}
            BY <3>1, <3>2 DEF NetworkChange
        <3> QED
            BY <1>14, <2>2, <3>3 DEF Net
    <2>3. CASE Asked
        BY <1>14, <2>3 DEF Net
    <2> QED
        BY <1>13, <2>1, <2>2, <2>3
<1>17. Early
    BY <1>13
<1> QED
    BY <1>3, <1>4, <1>13, <1>15, <1>16, <1>17 DEF Undisturbed, Early

\* Once the master is down or is to be replaced, the network stays as it is and the
\* operator can only abort.
LEMMA Disturbed ==
    ASSUME TypeInv, Net, Down \/ Planned, [Next]_vars, Limited'
    PROVE  /\ Net' /\ UNCHANGED <<reach, broken>>
           /\ Down' = Down /\ Planned' = Planned /\ ~(Down /\ Planned)
           /\ Planned => reach = Hosts /\ broken = {}
           /\ ~CliForceSwitch /\ ~CliSwitchFrom
           /\ \A h \in Hosts : ~CliForceActive(h) /\ ~NetworkChange(h) /\ ~CliSwitchTo(h)
<1>1. M \in Hosts /\ M \notin Replicas
    BY HostFacts DEF Replicas
<1>2. ~Undisturbed
    BY <1>1 DEF Down, Planned, Undisturbed, Net
<1>3. UNCHANGED <<reach, broken, spent["faults"], spent["switches"]>>
    BY <1>2, NetStep
<1>4. spent["faults"] \in Nat /\ spent["switches"] \in Nat /\ {"faults", "switches"} \subseteq Kinds
    BY DEF TypeInv, EnvTypes, Kinds
<1>5. ASSUME Spend({"switches"}) PROVE FALSE
    BY <1>3, <1>4, <1>5 DEF Spend
<1>6. ASSUME Spend({"faults"}) PROVE FALSE
    BY <1>3, <1>4, <1>6 DEF Spend
<1>7. Down' = Down /\ Planned' = Planned
    BY <1>3 DEF Down, Planned
<1> QED
    BY <1>1, <1>3, <1>5, <1>6, <1>7, NetStep
    DEF CliSwitchFrom, CliSwitchTo, NetworkChange, Down, Planned

-----------------------------------------------------------------------------
(* The path master, the links, and what keeps the initial master fenced.   *)

\* A pass keeps the path master when it names the only master, or one of several
\* (getCurrentMaster).
LEMMA PathStands ==
    ASSUME TypeInv,
           \/ \A h \in reach : isMaster(h) => h = dcsMaster
           \/ dcsMaster \in reach /\ isMaster(dcsMaster)
    PROVE  currentMaster = dcsMaster
<1> DEFINE masters == {h \in reach : isMaster(h)}
<1>1. CASE Cardinality(masters) = 1
    <2>1. IsFiniteSet(masters)
        BY NumReplicasType DEF TypeInv, EnvTypes
    <2>2. PICK h : masters = {h}
        BY <1>1, <2>1, FS_Singleton
    <2>3. h = dcsMaster
        BY <2>2
    <2>4. \A g \in masters : g = dcsMaster
        BY <2>2, <2>3
    <2>5. masters # {}
        BY <2>2
    <2> QED
        BY <2>4, <2>5 DEF currentMaster
<1> QED
    BY <1>1 DEF currentMaster

\* A link works between hosts that answer the manager.
LEMMA LinksInReach ==
    ASSUME TypeInv, Down \/ Planned, NEW r \in Hosts, connected(r)
    PROVE  r \in reach /\ src[r] \in reach
BY DEF TypeInv, ServerTypes, connected, admitted, Down, Planned, Replicas

\* An offline host answers its own rdsync only.  The initial master is the only host
\* that goes offline, and none does that a manager has to reach.
LEMMA StageAnswers ==
    ASSUME TypeInv
    PROVE  /\ Steady \/ Replacing => answers = reach
           /\ Replaced => /\ answers \subseteq reach /\ reach \ {M} \subseteq answers
                          /\ dcsMaster \in answers
                          /\ Down => answers = reach
<1>1. Down => M \notin reach
    BY DEF Down, Replicas
<1>2. Steady => answers = reach
    BY DEF Steady, answers
<1>3. Replacing => answers = reach
    BY <1>1 DEF Replacing, Pills, answers
<1> QED
    BY <1>1, <1>2, <1>3 DEF Replaced, answers

\* A fenced master acknowledges no write, neither one it has nor another.
LEMMA FencedIsSilent ==
    ASSUME TypeInv, Fenced
    PROVE  /\ \A n \in WriteIds : ~(Acknowledge(n) /\ writes[n].host = M)
           /\ M \notin acknowledging
<1>1. M \in Hosts /\ quorum[M] \subseteq Hosts /\ num[M] \in Int
    BY HostFacts, NumReplicasType DEF TypeInv, ServerTypes
<1>2. ASSUME Down PROVE {r \in quorum[M] : src[r] = M /\ linked(r)} = {}
    BY <1>2 DEF Down, linked, connected, admitted
<1>3. ASSUME NEW n \in WriteIds, Acknowledge(n), writes[n].host = M
      PROVE  FALSE
    <2>1. Waiting(n, M) /\ writes[n].need \in Nat
        BY <1>3 DEF Acknowledge, Waiting, TypeInv, EnvTypes, Writes
    <2>2. Down /\ writes[n].need >= 1
        BY <2>1 DEF Fenced, Waits
    <2>3. {r \in quorum[M] : src[r] = M /\ linked(r) /\ n \in log[r]} = {}
        BY <1>2, <2>2
    <2>4. acknowledgements(M, n) = 0
        BY <2>3, FS_EmptySet DEF acknowledgements
    <2> QED
        BY <1>3, <2>1, <2>2, <2>4 DEF Acknowledge
<1>4. ASSUME M \in acknowledging PROVE FALSE
    <2>1. M \notin ro
        BY <1>4 DEF acknowledging, writable
    <2>2. Down /\ num[M] >= 1
        BY <2>1 DEF Fenced, Waits
    <2>3. Cardinality({r \in quorum[M] : src[r] = M /\ linked(r)}) = 0
        BY <1>2, <2>2, FS_EmptySet
    <2> QED
        BY <1>1, <1>4, <2>2, <2>3 DEF acknowledging
<1> QED
    BY <1>3, <1>4

\* no pass is about to repair the initial master as the master of the shard, and no
\* manager is about to open it
Untouched ==
    /\ M \notin reach \/ currentMaster # M \/ current.exists \/ mgr.pc # "idle"
    /\ mgr.pc \in {"setNum", "open"} => mgr.sw.newMaster # M

\* Only a pass, or performSwitchover on the new master, opens a host for writes or
\* lowers quorum-replicas-to-write.
LEMMA SettingsStep ==
    ASSUME TypeInv, [Next]_vars, Untouched
    PROVE  (M \in ro => M \in ro') /\ (num[M] >= 1 => num'[M] >= 1)
<1> DEFINE Same == UNCHANGED num /\ ro \subseteq ro'
<1> USE DEF serverVars, dcsVars, envVars
<1>1. M \in Hosts /\ num \in [Hosts -> Int] /\ ro \subseteq Hosts
    BY HostFacts, NumReplicasType DEF TypeInv, ServerTypes
<1>2. ASSUME WaitPass \/ FailoverPass \/ NotApproved \/ TimedOut \/ BeginSwitchover
      PROVE  Same
    BY <1>2
    DEF WaitPass, FailoverPass, NotApproved, TimedOut, RejectSwitchover, BeginSwitchover
<1>3. ASSUME NEW repaired \in SUBSET Hosts, NEW kept \in SUBSET (active \ answers),
             NEW update \in BOOLEAN, RepairPass(repaired, kept, update)
      PROVE  (M \in ro => M \in ro') /\ num'[M] = num[M]
    <2>1. currentMaster # M /\ currentMaster \in Hosts
        <3>1. currentMaster \in reach
            BY <1>3 DEF RepairPass, masterFailed
        <3> QED
            BY <1>3, <3>1, CurrentMasterType DEF Untouched, RepairPass
    <2>2. \E x : num' = [num EXCEPT ![currentMaster] = x]
        BY <1>3 DEF RepairPass
    <2>3. ro' = (ro \ {currentMaster}) \cup (answers \ {currentMaster})
        BY <1>3 DEF RepairPass
    <2> QED
        BY <1>1, <2>1, <2>2, <2>3
<1>4. ASSUME \/ waitPoisonPill("firstWait", "pause") \/ waitPoisonPill("secondWait", "setNum")
             \/ Crash \/ NewManager \/ CliSwitchFrom \/ CliForceSwitch \/ CliAbort \/ UNCHANGED vars
      PROVE  Same
    BY <1>4
    DEF waitPoisonPill, Crash, NewManager, CliSwitchFrom, CliForceSwitch, CliAbort, CliSwitch, vars
<1>5. ASSUME \/ startSwitchover \/ InitProgress \/ ReadOnly \/ FirstPill \/ Pause
             \/ (\E mostRecent, newMaster \in Hosts : Choose(mostRecent, newMaster))
             \/ ChooseFails \/ ChosenBefore \/ Attach \/ WaitForCatchup \/ Refresh
      PROVE  Same
    BY <1>5
    DEF startSwitchover, InitProgress, ReadOnly, FirstPill, issuePoisonPill, Pause, Choose,
        ChooseFails, ChosenBefore, Attach, WaitForCatchup, Refresh
<1>6. ASSUME \/ SetMaster \/ SecondPill \/ promote \/ SavePhase6
             \/ SetActiveNodes \/ TurnReplicas \/ Turned \/ CheckAborted
             \/ failSwitchover \/ finishSwitchover
      PROVE  Same
    BY <1>6
    DEF SetMaster, SecondPill, issuePoisonPill, promote, SavePhase6,
        SetActiveNodes, TurnReplicas, Turned, CheckAborted, failSwitchover, finishSwitchover
<1>7. ASSUME SetNumQuorumReplicas \/ OpenNewMaster
      PROVE  (M \in ro => M \in ro') /\ num'[M] = num[M]
    <2>1. mgr.sw.newMaster # M
        BY <1>7 DEF Untouched, SetNumQuorumReplicas, OpenNewMaster, At
    <2>2. UNCHANGED num \/ \E x : num' = [num EXCEPT ![mgr.sw.newMaster] = x]
        BY <1>7 DEF SetNumQuorumReplicas, OpenNewMaster, sw
    <2>3. ro \subseteq ro' \cup {mgr.sw.newMaster}
        BY <1>7 DEF SetNumQuorumReplicas, OpenNewMaster, sw
    <2> QED
        BY <1>1, <2>1, <2>2, <2>3
<1>8. ASSUME NEW h \in Hosts,
             \/ applyPoisonPill(h) \/ Replicate(h) \/ NetworkChange(h)
             \/ CliSwitchTo(h) \/ CliForceActive(h)
      PROVE  Same
    BY <1>8
    DEF applyPoisonPill, Replicate, NetworkChange, CliSwitchTo, CliForceActive, CliSwitch
<1>9. ASSUME NEW h \in Hosts, repairLocalNode(h)
      PROVE  UNCHANGED ro /\ (num[M] >= 1 => num'[M] >= 1)
    <2>1. getNumReplicasToWrite(active) \in Int
        BY NumReplicasType DEF TypeInv, DcsTypes
    <2> QED
        BY <1>1, <1>9, <2>1 DEF repairLocalNode, OpenMaster, OpenReplica
<1>10. ASSUME NEW n \in WriteIds, Acknowledge(n) \/ \E h \in Hosts : ClientWrite(h, n)
       PROVE  Same
    BY <1>10 DEF Acknowledge, ClientWrite
<1>11. Same => (M \in ro => M \in ro') /\ (num[M] >= 1 => num'[M] >= 1)
    OBVIOUS
<1>12. num'[M] = num[M] => (num[M] >= 1 => num'[M] >= 1)
    BY <1>1
<1> HIDE DEF Same
<1> QED
    BY <1>2, <1>3, <1>4, <1>5, <1>6, <1>7, <1>8, <1>9, <1>10, <1>11, <1>12
    DEF Next, stateManager, performSwitchover

\* A client that waits has waited before, or has just written.
LEMMA WaitingStep ==
    ASSUME TypeInv, [Next]_vars, NEW n \in WriteIds, writes'[n].state = "waiting"
    PROVE  \/ /\ writes[n].state = "waiting" /\ writes'[n].host = writes[n].host
              /\ writes'[n].need = writes[n].need
           \/ \E h \in Hosts : /\ ClientWrite(h, n) /\ writes'[n].host = h
                               /\ writes'[n].need = num[h] /\ num[h] # 0
<1>1. writes \in [WriteIds -> Writes]
    BY DEF TypeInv, EnvTypes
<1>2. CASE Dropped
    BY <1>2 DEF Dropped
<1>3. ASSUME NEW k \in WriteIds, Acknowledge(k)
      PROVE  writes'[n] = writes[n]
    <2>1. writes' = [writes EXCEPT ![k].state = "acked"]
        BY <1>3 DEF Acknowledge
    <2>2. writes'[k].state = "acked" /\ (n # k => writes'[n] = writes[n])
        BY <1>1, <2>1 DEF Writes
    <2> QED
        BY <2>2
<1>4. ASSUME NEW g \in Hosts, NEW k \in WriteIds, ClientWrite(g, k), writes'[n] # writes[n]
      PROVE  /\ ClientWrite(g, n) /\ writes'[n].host = g
             /\ writes'[n].need = num[g] /\ num[g] # 0
    <2>1. writes' = [writes EXCEPT ![k] = [state |-> IF num[g] = 0 THEN "acked" ELSE "waiting",
                                           host |-> g, need |-> num[g]]]
        BY <1>4 DEF ClientWrite
    <2>2. /\ writes'[k] = [state |-> IF num[g] = 0 THEN "acked" ELSE "waiting",
                           host |-> g, need |-> num[g]]
          /\ n # k => writes'[n] = writes[n]
        BY <1>1, <2>1
    <2> QED
        BY <1>4, <2>2
<1>5. ASSUME NEW r \in Hosts, Replicate(r)
      PROVE  UNCHANGED writes
    BY <1>5 DEF Replicate, envVars
<1> QED
    BY <1>2, <1>3, <1>4, <1>5, Histories

\* What keeps the initial master from acknowledging stays.
LEMMA WaitsStep ==
    ASSUME TypeInv, [Next]_vars, Untouched, Waits
    PROVE  Waits'
<1>1. M \in Hosts /\ num[M] \in Int /\ \A n \in WriteIds : writes[n].need \in Int
    BY HostFacts, NumReplicasType DEF TypeInv, ServerTypes, EnvTypes, Writes
<1>2. num'[M] >= 1
    BY SettingsStep DEF Waits
<1>3. ASSUME NEW n \in WriteIds, Waiting(n, M)'
      PROVE  writes'[n].need >= 1
    BY <1>1, <1>3, WaitingStep DEF Waits, Waiting
<1> QED
    BY <1>2, <1>3 DEF Waits

\* A fenced master stays fenced, whichever of the two it is.
LEMMA FencedStep ==
    ASSUME TypeInv, Net, Down \/ Planned, [Next]_vars, Limited', Untouched, Fenced
    PROVE  Fenced'
<1>1. CASE Down /\ Waits
    BY <1>1, WaitsStep, Disturbed DEF Fenced
<1>2. CASE M \in ro /\ \A n \in WriteIds : ~Waiting(n, M)
    <2>1. M \in ro'
        BY <1>2, SettingsStep
    <2>2. \A n \in WriteIds : ~ClientWrite(M, n)
        BY <1>2 DEF ClientWrite, writable
    <2>3. \A n \in WriteIds : ~Waiting(n, M)'
        BY <1>2, <2>2, WaitingStep DEF Waiting
    <2> QED
        BY <2>1, <2>3 DEF Fenced
<1> QED
    BY <1>1, <1>2 DEF Fenced

\* What is acknowledged in a step, and by whom.
LEMMA AckedStep ==
    ASSUME TypeInv, [Next]_vars
    PROVE  \/ acked' = acked
           \/ \E n \in WriteIds : Acknowledge(n) /\ acked' = acked \cup {n}
           \/ \E h \in Hosts, n \in WriteIds :
                  ClientWrite(h, n) /\ num[h] = 0 /\ acked' = acked \cup {n}
<1>1. writes \in [WriteIds -> Writes]
    BY DEF TypeInv, EnvTypes
<1>2. CASE Dropped
    BY <1>2 DEF Dropped, acked
<1>3. ASSUME NEW n \in WriteIds, Acknowledge(n)
      PROVE  acked' = acked \cup {n}
    <2>1. writes' = [writes EXCEPT ![n].state = "acked"]
        BY <1>3 DEF Acknowledge
    <2>2. /\ writes'[n].state = "acked"
          /\ \A k \in WriteIds : k # n => writes'[k] = writes[k]
        BY <1>1, <2>1 DEF Writes
    <2> QED
        BY <2>2 DEF acked
<1>4. ASSUME NEW h \in Hosts, NEW n \in WriteIds, ClientWrite(h, n)
      PROVE  acked' = IF num[h] = 0 THEN acked \cup {n} ELSE acked
    <2>1. /\ writes' = [writes EXCEPT ![n] = [state |-> IF num[h] = 0 THEN "acked" ELSE "waiting",
                                              host |-> h, need |-> num[h]]]
          /\ writes[n].state = "none"
        BY <1>4 DEF ClientWrite
    <2>2. /\ writes'[n].state = IF num[h] = 0 THEN "acked" ELSE "waiting"
          /\ \A k \in WriteIds : k # n => writes'[k] = writes[k]
        BY <1>1, <2>1
    <2> QED
        BY <2>1, <2>2 DEF acked
<1>5. ASSUME NEW r \in Hosts, Replicate(r)
      PROVE  acked' = acked
    BY <1>5 DEF Replicate, envVars, acked
<1> QED
    BY <1>2, <1>3, <1>4, <1>5, Histories

\* As long as only the initial master is written to and every replica follows, the
\* histories grow along its stream.
LEMMA StreamStep ==
    ASSUME TypeInv, Stream, Following, [Next]_vars, ~Replicate(M)
    PROVE  /\ Stream'
           /\ \A h \in Hosts : log[h] \subseteq log'[h]
           /\ \A r \in Replicas :
                  log'[r] = log[r] \/ (Replicate(r) /\ log'[r] \subseteq log[src[r]])
           /\ log'[M] = log[M] \/ \E n \in WriteIds : ClientWrite(M, n)
           /\ UNCHANGED src => Following'
           /\ (\A h \in Hosts : log[h] \subseteq log[M]) => \A h \in Hosts : log'[h] \subseteq log'[M]
<1> DEFINE Goal ==
        /\ Stream'
        /\ \A h \in Hosts : log[h] \subseteq log'[h]
        /\ \A r \in Replicas :
               log'[r] = log[r] \/ (Replicate(r) /\ log'[r] \subseteq log[src[r]])
        /\ log'[M] = log[M] \/ \E n \in WriteIds : ClientWrite(M, n)
<1>1. M \in Hosts /\ Replicas \subseteq Hosts /\ src \in [Hosts -> Hosts]
      /\ \A h \in Hosts : h = M \/ h \in Replicas
    BY HostFacts DEF Replicas, TypeInv, ServerTypes
<1>2. ASSUME NEW h \in Hosts, NEW n \in WriteIds, ClientWrite(h, n)
      PROVE  Goal
    <2>1. h = M
        BY <1>1, <1>2 DEF ClientWrite, writable, isMaster, Following
    <2>2. /\ log'[M] = log[M] \cup {n} /\ Segment(log'[M])
          /\ \A g \in Hosts : g # M => log'[g] = log[g]
          /\ \A k \in WriteIds : k # n => writes'[k] = writes[k]
        BY <1>2, <2>1, WriteGrows
    <2>3. Stream'
        BY <1>1, <2>2 DEF Stream, Segment
    <2>4. M \notin Replicas
        BY DEF Replicas
    <2> QED
        BY <1>1, <1>2, <2>1, <2>2, <2>3, <2>4
<1>3. ASSUME NEW r \in Hosts, Replicate(r)
      PROVE  Goal
    <2>1. r # M /\ r \in Replicas /\ M \notin Replicas
        BY <1>1, <1>3 DEF Replicas
    <2>2. /\ log[r] \subseteq log'[r] /\ log'[r] \subseteq log[src[r]]
          /\ Segment(log'[r])
          /\ \A h \in Hosts : h # r => log'[h] = log[h]
        BY <1>1, <1>3, <2>1, ReplicateGrows DEF Stream, Following
    <2>3. UNCHANGED writes
        BY <1>3 DEF Replicate, envVars
    <2>4. Stream'
        BY <1>1, <2>1, <2>2, <2>3 DEF Stream, Segment
    <2> QED
        BY <1>1, <1>3, <2>1, <2>2, <2>4
<1>4. CASE UNCHANGED log /\ Dropped
    <2>1. Stream'
        BY <1>4 DEF Stream, Segment, Dropped
    <2> QED
        BY <1>4, <2>1 DEF Following
<1>5. ASSUME NEW n \in WriteIds, Acknowledge(n)
      PROVE  Goal
    <2>1. UNCHANGED log /\ writes' = [writes EXCEPT ![n].state = "acked"]
          /\ writes[n].state = "waiting"
        BY <1>5 DEF Acknowledge, serverVars
    <2>2. \A k \in WriteIds : writes'[k].state # "none" => writes[k].state # "none"
        BY <2>1 DEF TypeInv, EnvTypes, Writes
    <2>3. Stream'
        BY <2>1, <2>2 DEF Stream, Segment
    <2> QED
        BY <2>1, <2>3
<1>6. Goal
    <2>1. UNCHANGED log /\ Dropped => Goal
        BY <1>4
    <2> HIDE DEF Goal
    <2> QED
        BY <1>2, <1>3, <1>5, <2>1, Histories
<1>7. UNCHANGED src => Following'
    BY <1>1, <1>6 DEF Following
<1>8. ASSUME \A h \in Hosts : log[h] \subseteq log[M]
      PROVE  \A h \in Hosts : log'[h] \subseteq log'[M]
    BY <1>1, <1>6, <1>8
<1> QED
    BY <1>6, <1>7, <1>8

-----------------------------------------------------------------------------
(* The first stage.                                                        *)

\* Without a manager at work no call of performSwitchover is made.
LEMMA NeedsManager == performSwitchover \/ Crash => mgr.pc # "idle"
BY DEF performSwitchover, Crash, startSwitchover, InitProgress, ReadOnly, FirstPill,
       waitPoisonPill, Pause, Choose, ChooseFails, ChosenBefore, Attach, WaitForCatchup, Refresh,
       SetMaster, SecondPill, SetNumQuorumReplicas, promote, SavePhase6, SetActiveNodes,
       OpenNewMaster, TurnReplicas, Turned, CheckAborted, failSwitchover, finishSwitchover, At

\* With a replica among the active nodes of the whole shard a write needs one.
LEMMA WholeShardWaits ==
    /\ getNumReplicasToWrite(Hosts) \in Int
    /\ Replicas # {} => getNumReplicasToWrite(Hosts) >= 1
<1>1. IsFiniteSet(Hosts) /\ IsFiniteSet(Replicas) /\ M \in Hosts
    BY SwitchoverAssumption, HostFacts, FS_Subset DEF Replicas
<1>2. Cardinality(Replicas) \in Nat /\ Cardinality(Hosts) \in Nat
      /\ (Replicas # {} => Cardinality(Replicas) # 0)
    BY <1>1, FS_CardinalityType, FS_EmptySet
<1>3. Cardinality(Replicas) = Cardinality(Hosts) - 1
    BY <1>1, FS_RemoveElement DEF Replicas
<1> QED
    BY <1>2, <1>3 DEF getNumReplicasToWrite

\* A master that the manager has lost while every replica still replicates is not
\* replaced (approveFailover), and neither is one that answers.
LEMMA SteadyApproves ==
    ASSUME TypeInv, Net, Steady
    PROVE  ~FailoverPass
<1> SUFFICES ASSUME FailoverPass PROVE FALSE
    OBVIOUS
<1>1. M \in Hosts
    BY HostFacts
<1>2. currentMaster = M
    BY PathStands DEF Steady, isMaster, TypeInv, EnvTypes
<1>3. M \notin reach
    BY <1>2 DEF FailoverPass, masterFailed, Steady
<1>4. reach = Replicas /\ broken = {}
    BY <1>1, <1>3 DEF Net, Steady, Down, Replicas
<1>5. runningHAReplicas = Replicas
    BY <1>1, <1>4 DEF runningHAReplicas, connected, admitted, serves, isMaster, Steady, Replicas
<1>6. Cardinality(Replicas) = Cardinality(Hosts) - 1
    BY <1>1, SwitchoverAssumption, FS_RemoveElement DEF Replicas
<1> QED
    BY <1>5, <1>6 DEF FailoverPass, approveFailover

\* A pass over an undisturbed shard finds every replica replicating, and leaves the
\* number of replicas to wait for at half of the hosts.
LEMMA SteadyRepair ==
    ASSUME TypeInv, Net, Steady,
           NEW repaired \in SUBSET Hosts, NEW kept \in SUBSET (active \ answers),
           NEW update \in BOOLEAN, RepairPass(repaired, kept, update)
    PROVE  /\ UNCHANGED <<src, offline, log, dcsMaster, current, mgr, reach, broken, spent>>
           /\ paused' = {} /\ pill'.host = NoHost /\ M \in active' /\ Dropped
           /\ Undisturbed /\ Replicas # {} => num'[M] >= 1
<1>1. M \in Hosts /\ src \in [Hosts -> Hosts] /\ num \in [Hosts -> Int]
    BY HostFacts, NumReplicasType DEF TypeInv, ServerTypes
<1>2. currentMaster = M /\ answers = reach
    BY PathStands, StageAnswers DEF Steady, isMaster, TypeInv, EnvTypes
<1> DEFINE nodes == IF ~update THEN active
                    ELSE {M} \cup kept \cup {r \in answers \ {M} : src[r] = M /\ linked(r)}
<1>3. /\ repaired \subseteq {r \in answers \ {M} : src[r] # M \/ r \in paused}
      /\ update \/ local \in offline
      /\ pill' = NoPill /\ dcsMaster' = M /\ active' = nodes
      /\ src' = [h \in Hosts |-> IF h \in repaired THEN M ELSE src[h]]
      /\ num' = [num EXCEPT ![M] = IF update \/ getNumReplicasToWrite(nodes) > @
                                   THEN getNumReplicasToWrite(nodes) ELSE @]
      /\ paused' = paused \ ({M} \cup repaired)
      /\ dropClients({h \in repaired : src[h] # M})
      /\ UNCHANGED <<offline, log, current, mgr, reach, broken, spent>>
    BY <1>2, Zenon DEF RepairPass
<1>4. repaired = {} /\ update = TRUE
    BY <1>3, AnswersType DEF Steady
<1>5. src' = src
    BY <1>1, <1>3, <1>4
<1>6. ASSUME Undisturbed, Replicas # {}
      PROVE  num'[M] >= 1
    <2>1. reach = Hosts /\ broken = {} /\ answers = Hosts
        BY <1>6, StageAnswers DEF Net, Undisturbed
    <2>2. ASSUME NEW r \in Replicas
          PROVE  src[r] = M /\ linked(r)
        <3>1. connected(r)
            BY <1>1, <2>1, <2>2 DEF connected, admitted, serves, isMaster, Steady, Replicas
        <3>2. log[r] \in SUBSET WriteIds /\ log[M] \in SUBSET WriteIds
              /\ Segment(log[r]) /\ Segment(log[M]) /\ log[r] \subseteq log[M]
            BY <1>1, <2>2 DEF Steady, Stream, OneSource, Replicas, TypeInv, ServerTypes
        <3>3. isPrefix(log[r], log[M])
            BY <3>2, SegmentsNest
        <3> QED
            BY <3>1, <3>3, <2>2 DEF linked, Steady, Replicas
    <2>3. nodes = Hosts
        BY <1>1, <1>4, <2>1, <2>2 DEF Replicas, TypeInv, DcsTypes
    <2> QED
        BY <1>1, <1>3, <1>4, <1>6, <2>3, WholeShardWaits
<1>7. Dropped
    BY <1>3, DropClients
<1> QED
    BY <1>3, <1>4, <1>5, <1>6, <1>7 DEF Steady, NoPill, Pill

\* The initial master serves until a failure that replaces it or a request for a
\* switchover, and what it has acknowledged has then a copy.
LEMMA SteadyStep ==
    ASSUME TypeInv, Net, Steady, [Next]_vars, Limited'
    PROVE  Steady' \/ Replacing'
<1> USE DEF serverVars, dcsVars, envVars
<1>1. /\ M \in Hosts /\ Replicas \subseteq Hosts /\ M \notin Replicas
      /\ src \in [Hosts -> Hosts] /\ num[M] \in Int
      /\ \A h \in Hosts : h = M \/ h \in Replicas
      /\ \A n \in WriteIds : writes[n].need \in Int
    BY HostFacts, NumReplicasType DEF Replicas, TypeInv, ServerTypes, EnvTypes, Writes
<1>2. currentMaster = M
    BY PathStands DEF Steady, isMaster, TypeInv, EnvTypes
<1>3. Following
    BY <1>1 DEF Following, Steady, OneSource
<1>4. ~Replicate(M)
    BY <1>1 DEF Replicate, connected, admitted, isMaster, Steady
<1>5. /\ Stream' /\ \A h \in Hosts : log[h] \subseteq log'[h]
      /\ \A h \in Hosts : log'[h] \subseteq log'[M]
    BY <1>3, <1>4, StreamStep DEF Steady, OneSource
<1>6. \A h \in Hosts, n \in WriteIds : ClientWrite(h, n) => h = M
    BY DEF ClientWrite, writable, isMaster, Steady
<1>7. \A n \in WriteIds : writes'[n].state = "waiting" => writes'[n].host = M
    BY <1>6, WaitingStep DEF Steady, OneSource
<1> DEFINE Quiet == /\ UNCHANGED <<src, offline, dcsMaster, current, mgr>>
                    /\ paused' = {} /\ pill'.host = NoHost /\ M \in active'
                    /\ Undisturbed /\ Replicas # {} => num'[M] >= 1
           Asked == CliSwitchFrom \/ \E h \in Hosts : CliSwitchTo(h)
<1>8. ASSUME UNCHANGED <<src, offline, paused, dcsMaster, active, current, mgr, num>>,
             pill'.host = NoHost
      PROVE  Quiet
    BY <1>8 DEF Steady, Waits
<1>9. Quiet \/ Asked
    <2>1. CASE stateManager
        <3>1. ~FailoverPass
            BY SteadyApproves
        <3>2. ~(NotApproved \/ TimedOut \/ BeginSwitchover)
            BY DEF NotApproved, TimedOut, RejectSwitchover, BeginSwitchover, Steady
        <3>3. ASSUME WaitPass PROVE Quiet
            BY <1>2, <1>8, <3>3 DEF WaitPass, NoPill, Pill, Steady
        <3>4. ASSUME NEW repaired \in SUBSET Hosts, NEW kept \in SUBSET (active \ answers),
                     NEW update \in BOOLEAN, RepairPass(repaired, kept, update)
              PROVE  Quiet
            BY <3>4, SteadyRepair
        <3> HIDE DEF Quiet
        <3> QED
            BY <2>1, <3>1, <3>2, <3>3, <3>4 DEF stateManager
    <2>2. ~performSwitchover /\ ~Crash
        BY NeedsManager DEF Steady
    <2>3. ASSUME NEW h \in Hosts
          PROVE  ~applyPoisonPill(h) /\ ~repairLocalNode(h)
        BY HostFacts DEF applyPoisonPill, repairLocalNode, Steady
    <2>4. ASSUME NEW h \in Hosts, Replicate(h) \/ NetworkChange(h)
          PROVE  Quiet
        BY <1>8, <2>4 DEF Replicate, NetworkChange, Steady
    <2>5. ASSUME NEW n \in WriteIds, Acknowledge(n) \/ \E h \in Hosts : ClientWrite(h, n)
          PROVE  Quiet
        BY <1>8, <2>5 DEF Acknowledge, ClientWrite, Steady
    <2>6. ASSUME NewManager \/ UNCHANGED vars PROVE Quiet
        BY <1>8, <2>6 DEF NewManager, vars, Steady
    <2>7. ~CliAbort /\ ~CliForceSwitch /\ \A h \in Hosts : ~CliForceActive(h)
        BY NetStep DEF CliAbort, Steady
    <2> HIDE DEF Quiet
    <2> QED
        BY <2>1, <2>2, <2>3, <2>4, <2>5, <2>6, <2>7 DEF Next
<1>10. ASSUME Undisturbed, Replicas # {}
       PROVE  Copied'
    <2>1. Waits /\ Copied
        BY <1>10 DEF Steady
    <2>2. ASSUME NEW n \in WriteIds, Acknowledge(n)
          PROVE  \E r \in Replicas : n \in log[r]
        <3> DEFINE holders == {r \in quorum[M] : src[r] = M /\ linked(r) /\ n \in log[r]}
        <3>1. Waiting(n, M)
            BY <2>2 DEF Acknowledge, Waiting, Steady, OneSource
        <3>2. writes[n].need >= 1 /\ Cardinality(holders) >= writes[n].need
            BY <2>1, <2>2, <3>1 DEF Waits, Acknowledge, acknowledgements, Waiting
        <3>3. holders # {}
            <4>1. holders = {} => Cardinality(holders) = 0
                BY FS_EmptySet
            <4> HIDE DEF holders
            <4> QED
                BY <1>1, <3>2, <4>1
        <3>4. quorum[M] \subseteq Hosts
            BY <1>1 DEF TypeInv, ServerTypes
        <3> QED
            BY <1>1, <3>3, <3>4 DEF linked, connected, admitted, isMaster
    <2>3. \A h \in Hosts, n \in WriteIds : ~(ClientWrite(h, n) /\ num[h] = 0)
        BY <1>1, <1>6, <2>1 DEF Waits
    <2>4. \A n \in acked' : \E r \in Replicas : n \in log[r]
        BY <2>1, <2>2, <2>3, AckedStep DEF Copied
    <2> QED
        BY <1>1, <1>5, <2>4 DEF Copied
<1>11. ASSUME Undisturbed, Replicas # {}, num'[M] >= 1
       PROVE  Waits'
    <2>1. Waits
        BY <1>11 DEF Steady
    <2>2. ASSUME NEW n \in WriteIds, Waiting(n, M)'
          PROVE  writes'[n].need >= 1
        BY <1>1, <2>1, <2>2, WaitingStep, <1>6 DEF Waits, Waiting
    <2> QED
        BY <1>11, <2>2 DEF Waits
<1>12. ASSUME UNCHANGED src
       PROVE  OneSource' /\ Following' /\ \A h \in Hosts : src'[h] = M
    BY <1>1, <1>3, <1>4, <1>5, <1>7, <1>12, StreamStep DEF OneSource, Steady
<1>13. CASE Asked
    <2>1. /\ UNCHANGED <<src, offline, paused, num, dcsMaster, active, pill, mgr>>
          /\ Spend({"switches"})
        BY <1>13 DEF CliSwitchFrom, CliSwitchTo, CliSwitch
    <2>2. PICK from \in {M, NoHost}, to \in Replicas \cup {NoHost} :
              /\ current' = Switch(FALSE, from, to, FALSE)
              /\ to = NoHost => from = M
              /\ Replicas # {}
        <3>1. dcsMaster = M /\ active \ {M} \subseteq Replicas
            BY DEF Steady, Replicas, TypeInv, DcsTypes
        <3>2. CASE CliSwitchFrom
            BY <3>1, <3>2 DEF CliSwitchFrom, CliSwitch
        <3>3. ASSUME NEW h \in Hosts, CliSwitchTo(h)
              PROVE  h \in Replicas /\ h # NoHost /\ current' = Switch(FALSE, NoHost, h, FALSE)
            BY <3>1, <3>3, HostFacts DEF CliSwitchTo, CliSwitch
        <3> QED
            BY <1>13, <3>2, <3>3
    <2>3. Undisturbed /\ spent'["switches"] = 1 /\ UNCHANGED <<reach, broken>>
        <3>1. spent'["switches"] = spent["switches"] + 1 /\ spent["switches"] \in Nat
            BY <2>1 DEF Spend, Kinds, TypeInv, EnvTypes
        <3> QED
            BY <3>1, NetStep
    <2>4. Planned' /\ ~Down'
        BY <1>1, <2>3 DEF Net, Planned, Down, Undisturbed
    <2>5. Sound(current)'
        <3>1. to \in (reach' \ {M}) \cup {NoHost}
            BY <2>4 DEF Planned, Replicas
        <3> QED
            BY <1>1, <2>2, <3>1, HostFacts DEF Sound, Switch
    <2>6. Attempt' /\ Pills'
        BY <2>1, <2>5 DEF Attempt, Pills, Before, Closed, Steady
    <2> QED
        BY <1>5, <1>12, <2>1, <2>2, <2>4, <2>6 DEF Replacing, Steady
<1>14. CASE Quiet /\ ~Asked
    <2>1. CASE UNCHANGED <<reach, broken, spent["faults"], spent["switches"]>>
        <3>1. Undisturbed' = Undisturbed /\ Down' = Down /\ spent'["switches"] = 0
            BY <2>1 DEF Undisturbed, Down, Steady
        <3> QED
            BY <1>5, <1>10, <1>11, <1>12, <1>14, <3>1 DEF Steady
    <2>2. CASE Undisturbed /\ spent'["switches"] = 0 /\ spent'["faults"] = 1
        <3>1. CASE ~Down'
            BY <1>5, <1>12, <1>14, <2>2, <3>1 DEF Steady, Undisturbed
        <3>2. CASE Down'
            <4>1. ~Planned'
                BY <2>2 DEF Planned
            <4>2. Attempt' /\ Pills'
                BY <1>14, <4>1 DEF Attempt, Pills, Before, Closed, Steady
            <4> QED
                BY <1>5, <1>10, <1>11, <1>12, <1>14, <2>2, <3>2, <4>1, <4>2 DEF Replacing, Steady
        <3> QED
            BY <3>1, <3>2
    <2> QED
        BY <1>14, <2>1, <2>2, NetStep
<1> QED
    BY <1>9, <1>13, <1>14

-----------------------------------------------------------------------------
(* The second stage.                                                       *)

\* While the initial master is being replaced it is the only master, and a pass
\* keeps it in the path master.
LEMMA ReplacingFacts ==
    ASSUME TypeInv, Net, Replacing
    PROVE  /\ M \in Hosts /\ Replicas \subseteq Hosts /\ M \notin Replicas
           /\ \A h \in Hosts : h = M \/ h \in Replicas
           /\ src \in [Hosts -> Hosts] /\ reach \subseteq Hosts
           /\ currentMaster = M /\ ~Replicate(M)
           /\ \A h \in Hosts, n \in WriteIds : ClientWrite(h, n) => h = M
           /\ Down \/ current.exists \/ mgr.pc # "idle" => Untouched
<1>1. /\ M \in Hosts /\ Replicas \subseteq Hosts /\ M \notin Replicas
      /\ \A h \in Hosts : h = M \/ h \in Replicas
      /\ src \in [Hosts -> Hosts] /\ reach \subseteq Hosts
    BY HostFacts DEF Replicas, TypeInv, ServerTypes, EnvTypes
<1>2. \A h \in Hosts : isMaster(h) => h = M
    BY <1>1 DEF Replacing, Following, isMaster
<1>3. currentMaster = M
    BY <1>1, <1>2, PathStands DEF Replacing
<1>4. ~Replicate(M)
    BY DEF Replicate, connected, admitted, isMaster, Replacing, OneSource
<1>5. \A h \in Hosts, n \in WriteIds : ClientWrite(h, n) => h = M
    BY <1>2 DEF ClientWrite, writable
<1>6. ASSUME Down \/ current.exists \/ mgr.pc # "idle"
      PROVE  Untouched
    BY <1>1, <1>6 DEF Untouched, Down, Replacing, Attempt, Before
<1> QED
    BY <1>1, <1>3, <1>4, <1>5, <1>6

\* Fenced, the initial master acknowledges nothing, and nobody else can.
LEMMA ReplacingAcked ==
    ASSUME TypeInv, Net, Replacing, Fenced, [Next]_vars
    PROVE  acked' = acked
<1>1. \A n \in WriteIds : ~Acknowledge(n)
    BY FencedIsSilent DEF Replacing, OneSource, Acknowledge
<1>2. \A h \in Hosts, n \in WriteIds : ~(ClientWrite(h, n) /\ num[h] = 0)
    BY ReplacingFacts DEF Fenced, Waits, ClientWrite, writable
<1> QED
    BY <1>1, <1>2, AckedStep

\* Replication is re-attached only to a host that has all that the replica has: to
\* the initial master by a pass, to the most recent host by performSwitchover.
LEMMA ReplacingSources ==
    ASSUME TypeInv, Net, Replacing, [Next]_vars, Limited'
    PROVE  \/ UNCHANGED src
           \/ /\ UNCHANGED log /\ src'[M] = M
              /\ \A r \in Replicas : \/ src'[r] = src[r]
                                     \/ src'[r] # r /\ log[r] \subseteq log[src'[r]]
<1> DEFINE Moved == /\ UNCHANGED log /\ src'[M] = M
                    /\ \A r \in Replicas : \/ src'[r] = src[r]
                                           \/ src'[r] # r /\ log[r] \subseteq log[src'[r]]
<1> USE DEF serverVars, dcsVars, envVars
<1>1. /\ M \in Hosts /\ Replicas \subseteq Hosts /\ M \notin Replicas
      /\ src \in [Hosts -> Hosts] /\ reach \subseteq Hosts /\ currentMaster = M
    BY ReplacingFacts
<1>2. ASSUME WaitPass \/ FailoverPass \/ NotApproved \/ TimedOut \/ BeginSwitchover
      PROVE  UNCHANGED src
    BY <1>2 DEF WaitPass, FailoverPass, NotApproved, TimedOut, RejectSwitchover, BeginSwitchover
<1>3. ASSUME NEW repaired \in SUBSET Hosts, NEW kept \in SUBSET (active \ answers),
             NEW update \in BOOLEAN, RepairPass(repaired, kept, update)
      PROVE  Moved
    <2>1. /\ src' = [h \in Hosts |-> IF h \in repaired THEN M ELSE src[h]]
          /\ repaired \subseteq reach \ {M} /\ UNCHANGED log
        BY <1>1, <1>3, StageAnswers DEF RepairPass
    <2> QED
        BY <1>1, <2>1 DEF Replacing, OneSource
<1>4. ASSUME \/ waitPoisonPill("firstWait", "pause") \/ waitPoisonPill("secondWait", "setNum")
             \/ Crash \/ NewManager \/ CliAbort \/ UNCHANGED vars
      PROVE  UNCHANGED src
    BY <1>4 DEF waitPoisonPill, Crash, NewManager, CliAbort, vars
<1>5. ASSUME \/ startSwitchover \/ InitProgress \/ ReadOnly \/ FirstPill \/ Pause
             \/ (\E mostRecent, newMaster \in Hosts : Choose(mostRecent, newMaster))
             \/ ChooseFails \/ ChosenBefore \/ WaitForCatchup \/ Refresh
      PROVE  UNCHANGED src
    BY <1>5
    DEF startSwitchover, InitProgress, ReadOnly, FirstPill, issuePoisonPill, Pause, Choose,
        ChooseFails, ChosenBefore, WaitForCatchup, Refresh
<1>6. ASSUME Attach, src' # src
      PROVE  Moved
    <2>1. mgr.sw.phase >= 3 /\ Sound(mgr.sw)
        BY <1>6 DEF Attach, At, Acting, Replacing, Attempt, TypeInv, MgrTypes
    <2>2. Chosen(mgr.sw)
        BY <2>1 DEF Sound
    <2>3. /\ src' = [src EXCEPT ![mgr.sw.newMaster] = mgr.sw.mostRecent]
          /\ mgr.sw.newMaster # mgr.sw.mostRecent /\ UNCHANGED log
        BY <1>6 DEF Attach, sw
    <2> QED
        BY <1>1, <2>2, <2>3 DEF Chosen, Replacing, OneSource
<1>7. ASSUME SetMaster \/ CheckAborted \/ failSwitchover
      PROVE  UNCHANGED src
    BY <1>7 DEF SetMaster, CheckAborted, failSwitchover
<1>8. ~(\/ SecondPill \/ SetNumQuorumReplicas \/ promote \/ SavePhase6 \/ SetActiveNodes
        \/ OpenNewMaster \/ TurnReplicas \/ Turned \/ finishSwitchover)
    BY DEF SecondPill, SetNumQuorumReplicas, promote, SavePhase6, SetActiveNodes,
           OpenNewMaster, TurnReplicas, Turned, finishSwitchover, At, Replacing, Attempt, Before
<1>9. ASSUME NEW h \in Hosts, applyPoisonPill(h) \/ Replicate(h)
      PROVE  UNCHANGED src
    BY <1>9 DEF applyPoisonPill, Replicate
<1>10. ASSUME NEW h \in Hosts, repairLocalNode(h)
       PROVE  UNCHANGED src
    <2>1. h = M /\ dcsMaster = M
        BY <1>10 DEF repairLocalNode, Replacing, Pills
    <2> QED
        BY <1>10, <2>1 DEF repairLocalNode, OpenMaster, OpenReplica
<1>11. ASSUME NEW n \in WriteIds, Acknowledge(n) \/ \E h \in Hosts : ClientWrite(h, n)
       PROVE  UNCHANGED src
    BY <1>11 DEF Acknowledge, ClientWrite
<1>12. /\ ~CliForceSwitch /\ ~CliSwitchFrom
       /\ \A h \in Hosts : ~CliForceActive(h) /\ ~NetworkChange(h) /\ ~CliSwitchTo(h)
    BY Disturbed DEF Replacing
<1> HIDE DEF Moved
<1>13. UNCHANGED src \/ Moved
    BY <1>2, <1>3, <1>4, <1>5, <1>6, <1>7, <1>8, <1>9, <1>10, <1>11, <1>12
    DEF Next, stateManager, performSwitchover
<1> QED
    BY <1>13 DEF Moved

\* One stream, followed by every replica, until the new master is written to.
LEMMA ReplacingServers ==
    ASSUME TypeInv, Net, Replacing, [Next]_vars, Limited'
    PROVE  Stream' /\ Following' /\ OneSource' /\ (Down /\ Replicas # {} => Waits' /\ Copied')
<1>1. /\ M \in Hosts /\ Replicas \subseteq Hosts /\ M \notin Replicas
      /\ src \in [Hosts -> Hosts] /\ ~Replicate(M)
      /\ \A h \in Hosts, n \in WriteIds : ClientWrite(h, n) => h = M
      /\ Down => Untouched
    BY ReplacingFacts
<1>2. /\ Stream' /\ \A h \in Hosts : log[h] \subseteq log'[h]
      /\ \A h \in Hosts : log'[h] \subseteq log'[M]
      /\ UNCHANGED src => Following'
    BY <1>1, StreamStep DEF Replacing, OneSource
<1>3. Following' /\ src'[M] = M
    BY <1>1, <1>2, ReplacingSources DEF Following, Replacing, OneSource
<1>4. \A n \in WriteIds : writes'[n].state = "waiting" => writes'[n].host = M
    BY <1>1, WaitingStep DEF Replacing, OneSource
<1>5. ASSUME Down, Replicas # {}
      PROVE  Waits' /\ Copied'
    <2>1. Waits /\ Copied /\ Fenced
        BY <1>5 DEF Replacing, Fenced
    <2>2. acked' = acked
        BY <2>1, ReplacingAcked
    <2> QED
        BY <1>1, <1>2, <1>5, <2>1, <2>2, WaitsStep DEF Copied
<1> QED
    BY <1>2, <1>3, <1>4, <1>5 DEF OneSource

\* A sound choice stays sound: no host that answers overtakes the most recent one,
\* and a new master that has caught up with it stays so.
LEMMA ChoiceKept ==
    ASSUME TypeInv, Net, Replacing, Fenced, [Next]_vars, Limited',
           NEW new \in reach, NEW recent \in reach,
           \A h \in reach : log[h] \subseteq log[recent], acked \subseteq log[recent]
    PROVE  /\ \A h \in reach : log'[h] \subseteq log'[recent]
           /\ acked' \subseteq log'[recent]
           /\ log[recent] \subseteq log[new] => log'[recent] \subseteq log'[new]
<1>1. /\ M \in Hosts /\ Replicas \subseteq Hosts /\ M \notin Replicas
      /\ \A h \in Hosts : h = M \/ h \in Replicas
      /\ src \in [Hosts -> Hosts] /\ ~Replicate(M) /\ reach \subseteq Hosts
    BY ReplacingFacts
<1>2. /\ \A h \in Hosts : log[h] \subseteq log'[h]
      /\ \A r \in Replicas :
             log'[r] = log[r] \/ (Replicate(r) /\ log'[r] \subseteq log[src[r]])
      /\ log'[M] = log[M] \/ \E n \in WriteIds : ClientWrite(M, n)
    BY <1>1, StreamStep DEF Replacing
<1>3. M \in reach => log'[M] = log[M]
    <2>1. M \in reach => M \in ro
        BY <1>1 DEF Fenced, Down
    <2> QED
        BY <1>2, <2>1 DEF ClientWrite, writable
<1>4. ASSUME NEW r \in Replicas, Replicate(r)
      PROVE  src[r] \in reach /\ log[r] # log[src[r]] /\ log[r] \subseteq log[src[r]]
    BY <1>1, <1>4, LinksInReach DEF Replicate, Replacing, Following
<1>5. log'[recent] = log[recent]
    <2>1. CASE recent = M
        BY <1>3, <2>1
    <2>2. CASE recent \in Replicas
        BY <1>2, <1>4, <2>2
    <2> QED
        BY <1>1, <2>1, <2>2
<1>6. ASSUME NEW h \in reach PROVE log'[h] \subseteq log[recent]
    <2>1. CASE h = M
        BY <1>3, <2>1
    <2>2. CASE h \in Replicas
        BY <1>2, <1>4, <2>2
    <2> QED
        BY <1>1, <2>1, <2>2
<1>7. acked' = acked
    BY ReplacingAcked
<1> QED
    BY <1>1, <1>2, <1>5, <1>6, <1>7

\* Sound(record) after a step, for a record of the state before it or after it
SoundAfter(record) ==
    /\ record.exists
    /\ record.to \in (reach \ {M}) \cup {NoHost} /\ (record.to = NoHost => record.from = M)
    /\ record.phase # 6 /\ (Planned => ~record.auto)
    /\ record.phase >= 3 =>
        /\ record.newMaster \in reach \ {M} /\ record.mostRecent \in reach
        /\ \A h \in reach : log'[h] \subseteq log'[record.mostRecent]
        /\ acked' \subseteq log'[record.mostRecent]
        /\ Fenced'
    /\ record.phase >= 5 => log'[record.mostRecent] \subseteq log'[record.newMaster]

\* Records and the fence outlive every step of an attempt.
LEMMA SoundKept ==
    ASSUME TypeInv, Net, Replacing, [Next]_vars, Limited', current.exists \/ mgr.pc # "idle"
    PROVE  /\ current.exists => SoundAfter(current)
           /\ mgr.pc # "idle" => SoundAfter(mgr.sw)
           /\ mgr.pc # "idle" /\ mgr.sw.phase >= 3 /\ Synced(mgr.sw) =>
                  log'[mgr.sw.mostRecent] \subseteq log'[mgr.sw.newMaster]
           /\ Fenced => Fenced'
<1>1. Fenced => Fenced'
    BY ReplacingFacts, FencedStep DEF Replacing
<1>2. ASSUME NEW record \in Records, Sound(record)
      PROVE  /\ SoundAfter(record)
             /\ record.phase >= 3 /\ Synced(record) =>
                    log'[record.mostRecent] \subseteq log'[record.newMaster]
    <2>1. CASE record.phase >= 3
        <3>1. Chosen(record)
            BY <1>2, <2>1 DEF Sound
        <3>2. /\ Fenced /\ record.newMaster \in reach /\ record.mostRecent \in reach
              /\ \A h \in reach : log[h] \subseteq log[record.mostRecent]
              /\ acked \subseteq log[record.mostRecent]
            BY <3>1 DEF Chosen
        <3>3. /\ \A h \in reach : log'[h] \subseteq log'[record.mostRecent]
              /\ acked' \subseteq log'[record.mostRecent]
              /\ log[record.mostRecent] \subseteq log[record.newMaster] =>
                     log'[record.mostRecent] \subseteq log'[record.newMaster]
            BY <3>2, ChoiceKept
        <3> QED
            BY <1>1, <1>2, <3>1, <3>3 DEF Sound, SoundAfter, Chosen, Synced
    <2>2. CASE ~(record.phase >= 3)
        BY <1>2, <2>2 DEF Sound, SoundAfter, Records
    <2> QED
        BY <2>1, <2>2
<1>3. current \in Records /\ mgr.sw \in Records
    BY DEF TypeInv, DcsTypes, MgrTypes, Managers
<1> QED
    BY <1>1, <1>2, <1>3 DEF Replacing, Attempt

\* An offset tells which writes a host holds.
LEMMA OffsetTells ==
    ASSUME TypeInv, Stream, NEW g \in Hosts, NEW h \in Hosts, getOffset(g) <= getOffset(h)
    PROVE  log[g] \subseteq log[h]
<1>1. /\ log[g] \in SUBSET WriteIds /\ log[h] \in SUBSET WriteIds
      /\ Segment(log[g]) /\ Segment(log[h])
    BY DEF TypeInv, ServerTypes, Stream
<1>2. IsFiniteSet(log[g]) /\ IsFiniteSet(log[h])
    BY <1>1, FiniteHistories
<1>3. Cardinality(log[g]) \in Nat /\ Cardinality(log[h]) \in Nat
    BY <1>2, FS_CardinalityType
<1>4. Cardinality(log[g]) <= Cardinality(log[h])
    BY <1>3 DEF getOffset
<1> QED
    BY <1>1, <1>4, SegmentSize

\* A new master that does not lag holds what the most recent host holds.
LEMMA NotLagging ==
    ASSUME TypeInv, Stream, NEW new \in answers, NEW recent \in answers, ~lags(new, recent)
    PROVE  log[recent] \subseteq log[new]
<1>1. new \in Hosts /\ recent \in Hosts
    BY AnswersType
<1>2. IsFiniteSet(log[new]) /\ IsFiniteSet(log[recent])
    BY <1>1, FiniteHistories DEF TypeInv, ServerTypes
<1>3. getOffset(new) = getOffset(recent)
    BY DEF lags
<1>4. getOffset(new) \in Nat
    BY <1>2, FS_CardinalityType DEF getOffset
<1> QED
    BY <1>1, <1>3, <1>4, OffsetTells

\* The most recent of the hosts that answer holds every acknowledged write, when the
\* initial master answers and has been closed, or has acknowledged only what has a
\* copy on the others.
LEMMA MostRecentHolds ==
    ASSUME TypeInv, Net, Replacing, Replicas # {}, NEW recent \in mostRecentNodes
    PROVE  /\ recent \in reach /\ acked \subseteq log[recent]
           /\ \A h \in reach : log[h] \subseteq log[recent]
<1>1. /\ recent \in reach /\ reach \subseteq Hosts
      /\ \A g \in reach : getOffset(g) <= getOffset(recent)
    BY StageAnswers DEF mostRecentNodes, TypeInv, EnvTypes
<1>2. ASSUME NEW h \in reach PROVE log[h] \subseteq log[recent]
    <2>1. Stream /\ h \in Hosts /\ recent \in Hosts /\ getOffset(h) <= getOffset(recent)
        BY <1>1 DEF Replacing
    <2> QED
        BY <2>1, OffsetTells
<1>3. CASE Down
    BY <1>1, <1>2, <1>3 DEF Replacing, Copied, Down
<1>4. CASE Planned
    <2>1. M \in reach /\ acked \subseteq log[M]
        BY <1>4, HostFacts DEF Planned, Replacing, Stream, acked
    <2> QED
        BY <1>1, <1>2, <2>1
<1> QED
    BY <1>1, <1>2, <1>3, <1>4 DEF Replacing

\* The calls that a manager makes before the path master is written.
LEMMA ReplacingCalls ==
    ASSUME Replacing
    PROVE  ~(\/ SecondPill \/ waitPoisonPill("secondWait", "setNum") \/ SetNumQuorumReplicas
             \/ promote \/ SavePhase6 \/ SetActiveNodes \/ OpenNewMaster \/ TurnReplicas \/ Turned
             \/ finishSwitchover)
BY DEF SecondPill, waitPoisonPill, SetNumQuorumReplicas, promote, SavePhase6, SetActiveNodes,
       OpenNewMaster, TurnReplicas, Turned, finishSwitchover, At, Replacing, Attempt, Before

\* The initial master is closed before the positions are compared: it is down, or
\* it answers and SetReadOnly has disconnected its clients (phase 1).
LEMMA ReadOnlyCloses ==
    ASSUME IndInv, Net, Replacing, [Next]_vars, Limited', ReadOnly, mgr'.pc = "firstPill"
    PROVE  Fenced'
<1>0. TypeInv
    BY DEF IndInv
<1>1. mgr.pc = "target" /\ Sound(mgr.sw) /\ mgr.oldMaster = M /\ Replicas # {}
    BY DEF ReadOnly, At, Replacing, Attempt
<1>2. CASE Down
    BY <1>0, <1>1, <1>2, ReplacingServers, Disturbed DEF Fenced, Replacing
<1>3. CASE Planned
    <2>1. M \in mgr.act
        <3>1. spent["forced"] = 0
            BY DEF Net, Limited
        <3> QED
            BY <1>1, <3>1 DEF IndInv, CountInv, Reading, Replacing
    <2>2. M \in mgr.snap /\ M \in answers /\ ~mgr.sw.auto
        BY <1>0, <1>1, <1>3, HostFacts, StageAnswers DEF Replacing, Attempt, Planned, Sound
    <2>3. ~(sw.to # NoHost /\ sw.to \notin mgr.act)
        BY <1>0 DEF ReadOnly, Goto, TypeInv, MgrTypes, Managers
    <2> DEFINE done == mgr.act \cap mgr.snap \cap answers
    <2>4. ro' = ro \cup done /\ dropClients(done \cap {mgr.oldMaster})
        BY <2>2, <2>3 DEF ReadOnly, sw
    <2>5. M \in done \cap {mgr.oldMaster}
        BY <1>1, <2>1, <2>2
    <2>6. M \in ro'
        BY <2>4, <2>5
    <2> HIDE DEF done
    <2>7. \A n \in WriteIds : ~Waiting(n, M)'
        BY <1>0, <2>4, <2>5, DropClients DEF Waiting
    <2> QED
        BY <2>6, <2>7 DEF Fenced
<1> QED
    BY <1>2, <1>3 DEF Replacing

\* Every step of an attempt leaves a sound record and a manager that works on one.
LEMMA AttemptStep ==
    ASSUME IndInv, Net, Replacing, [Next]_vars, Limited', ~SetMaster
    PROVE  Attempt'
<1> USE DEF serverVars, dcsVars, envVars
<1>0. TypeInv
    BY DEF IndInv
<1>1. /\ mgr \in Managers /\ mgr.sw \in Records /\ sw = mgr.sw /\ current \in Records
      /\ Attempt /\ M \in Hosts /\ reach \subseteq Hosts /\ currentMaster = M /\ Stream
      /\ answers = reach
    BY <1>0, ReplacingFacts, StageAnswers DEF TypeInv, MgrTypes, Managers, DcsTypes, sw, Replacing
<1>2. /\ UNCHANGED <<reach, broken>> /\ Planned' = Planned
      /\ Planned => reach = Hosts /\ ~Down
      /\ ~CliForceSwitch /\ ~CliSwitchFrom
      /\ \A h \in Hosts : ~CliForceActive(h) /\ ~NetworkChange(h) /\ ~CliSwitchTo(h)
    BY <1>0, Disturbed DEF Replacing
<1>3. /\ NoSwitch.exists = FALSE /\ Idle.pc = "idle"
      /\ "idle" \notin Closed
    BY DEF NoSwitch, Switch, Idle, Closed
<1>4. ASSUME current.exists \/ mgr.pc # "idle"
      PROVE  /\ current.exists => SoundAfter(current)
             /\ mgr.pc # "idle" => SoundAfter(mgr.sw)
             /\ mgr.pc # "idle" /\ mgr.sw.phase >= 3 /\ Synced(mgr.sw) =>
                    log'[mgr.sw.mostRecent] \subseteq log'[mgr.sw.newMaster]
             /\ Fenced => Fenced'
    BY <1>0, <1>4, SoundKept
<1>5. mgr.pc \in Acting => mgr.sw.phase >= 3
    BY <1>0 DEF TypeInv, MgrTypes
\* how each case ends
<1>6. ASSUME mgr'.pc = "idle", current'.exists => SoundAfter(current')
      PROVE  Attempt'
    BY <1>2, <1>3, <1>6 DEF Attempt, Before, Sound, SoundAfter, Chosen, Synced
<1>7. ASSUME mgr'.pc \in Before, mgr'.oldMaster = M, Planned => mgr'.snap = Hosts,
             SoundAfter(mgr'.sw), current'.exists => SoundAfter(current'),
             mgr'.pc \in Closed => Fenced',
             mgr'.pc \in {"refresh", "setMaster"} \/ (mgr'.pc = "catchup" /\ ~mgr'.behind) =>
                 log'[mgr'.sw.mostRecent] \subseteq log'[mgr'.sw.newMaster]
      PROVE  Attempt'
    BY <1>2, <1>7 DEF Attempt, Sound, SoundAfter, Chosen, Synced
<1>8. ASSUME mgr' = mgr, current' = current \/ current' = NoSwitch
      PROVE  Attempt'
    <2>1. CASE mgr.pc = "idle"
        <3>1. current'.exists => current' = current /\ SoundAfter(current)
            BY <1>3, <1>4, <1>8
        <3> QED
            BY <1>6, <1>8, <2>1, <3>1
    <2>2. CASE mgr.pc # "idle"
        <3>1. current'.exists => current' = current /\ SoundAfter(current)
            BY <1>3, <1>4, <1>8, <2>2
        <3>2. mgr.pc \in {"refresh", "setMaster"} \/ (mgr.pc = "catchup" /\ ~mgr.behind) =>
                  log'[mgr.sw.mostRecent] \subseteq log'[mgr.sw.newMaster]
            BY <1>1, <1>4, <1>5, <2>2 DEF Attempt, Acting
        <3> QED
            BY <1>1, <1>4, <1>7, <1>8, <2>2, <3>1, <3>2 DEF Attempt
    <2> QED
        BY <2>1, <2>2
<1>9. ASSUME mgr.pc # "idle", UNCHANGED current, mgr' = Idle
      PROVE  Attempt'
    BY <1>3, <1>4, <1>6, <1>9
\* the manager goes on to another call with the same record
<1>10. ASSUME mgr.pc # "idle", UNCHANGED current, mgr'.sw = mgr.sw, mgr'.oldMaster = mgr.oldMaster,
              mgr'.snap = mgr.snap, mgr'.pc \in Before, mgr'.pc \in Closed => Fenced',
              mgr'.pc \in {"refresh", "setMaster"} \/ (mgr'.pc = "catchup" /\ ~mgr'.behind) =>
                  Synced(mgr.sw) /\ mgr.sw.phase >= 3
       PROVE  Attempt'
    <2>1. SoundAfter(mgr'.sw) /\ (current'.exists => SoundAfter(current'))
        BY <1>4, <1>10
    <2>2. mgr'.oldMaster = M /\ (Planned => mgr'.snap = Hosts)
        BY <1>1, <1>10 DEF Attempt
    <2>3. mgr'.pc \in {"refresh", "setMaster"} \/ (mgr'.pc = "catchup" /\ ~mgr'.behind) =>
              log'[mgr'.sw.mostRecent] \subseteq log'[mgr'.sw.newMaster]
        BY <1>4, <1>10
    <2> QED
        BY <1>7, <1>10, <2>1, <2>2, <2>3
\* the manager has written its record
<1>11. ASSUME mgr.pc # "idle", mgr'.sw = current', mgr'.oldMaster = mgr.oldMaster,
              mgr'.snap = mgr.snap \/ mgr'.snap = reach, mgr'.pc \in Before, SoundAfter(current'),
              mgr'.pc \in Closed => Fenced',
              mgr'.pc = "setMaster" \/ (mgr'.pc = "catchup" /\ ~mgr'.behind) =>
                  log'[current'.mostRecent] \subseteq log'[current'.newMaster],
              mgr'.pc # "refresh"
       PROVE  Attempt'
    BY <1>1, <1>2, <1>7, <1>11 DEF Attempt
\* the cases
<1>12. CASE WaitPass \/ NotApproved \/ TimedOut \/ NewManager \/ CliAbort \/ UNCHANGED vars
    BY <1>8, <1>12
    DEF WaitPass, NotApproved, TimedOut, RejectSwitchover, NewManager, CliAbort, CliSwitch, vars
<1>13. ASSUME NEW repaired \in SUBSET Hosts, NEW kept \in SUBSET (active \ answers),
              NEW update \in BOOLEAN, RepairPass(repaired, kept, update)
       PROVE  Attempt'
    <2>1. UNCHANGED <<mgr, current>>
        BY <1>13 DEF RepairPass
    <2> QED
        BY <1>8, <2>1
<1>14. ASSUME NEW h \in Hosts, applyPoisonPill(h) \/ repairLocalNode(h) \/ Replicate(h)
       PROVE  Attempt'
    BY <1>8, <1>14 DEF applyPoisonPill, repairLocalNode, Replicate
<1>15. ASSUME NEW n \in WriteIds, Acknowledge(n) \/ \E h \in Hosts : ClientWrite(h, n)
       PROVE  Attempt'
    BY <1>8, <1>15 DEF Acknowledge, ClientWrite
<1>16. CASE FailoverPass
    <2>1. /\ mgr'.pc = "idle" /\ current' = Switch(TRUE, M, NoHost, FALSE) /\ masterFailed(M)
        BY <1>1, <1>16 DEF FailoverPass
    <2>2. ~Planned
        BY <1>1, <2>1 DEF masterFailed, Planned, Replacing, Pills
    <2>3. SoundAfter(current')
        BY <2>1, <2>2, HostFacts DEF SoundAfter, Switch
    <2> QED
        BY <1>6, <2>1, <2>3
<1>17. CASE BeginSwitchover
    <2>1. /\ mgr' = [Idle EXCEPT !.pc = "start", !.sw = current, !.oldMaster = M, !.snap = reach,
                                 !.links = {h \in reach : linked(h)}, !.act = active]
          /\ UNCHANGED current /\ current.exists
        BY <1>1, <1>17 DEF BeginSwitchover
    <2>2. mgr'.pc = "start" /\ mgr'.sw = current /\ mgr'.oldMaster = M /\ mgr'.snap = reach
        BY <2>1 DEF Idle
    <2>3. SoundAfter(current)
        BY <1>4, <2>1
    <2> QED
        BY <1>2, <1>7, <2>1, <2>2, <2>3 DEF Before, Closed
<1>18. CASE startSwitchover
    <2>1. /\ mgr.pc # "idle" /\ current' = mgr.sw /\ mgr'.sw = mgr.sw
          /\ mgr'.oldMaster = mgr.oldMaster /\ mgr'.snap = mgr.snap
          /\ mgr'.pc \in {"progress", "target"}
        BY <1>1, <1>18 DEF startSwitchover, updateSwitchover, At, Managers
    <2> QED
        BY <1>4, <1>11, <2>1 DEF Before, Closed
<1>19. CASE InitProgress
    <2> DEFINE record == [mgr.sw EXCEPT !.phase = 1]
    <2>1. /\ mgr.pc # "idle" /\ current' = record /\ mgr'.sw = record
          /\ mgr'.oldMaster = mgr.oldMaster /\ mgr'.snap = mgr.snap /\ mgr'.pc = "target"
        BY <1>1, <1>19 DEF InitProgress, updateSwitchover, At, Managers
    <2>2. SoundAfter(record)
        BY <1>1, <1>4, <2>1 DEF SoundAfter, Records
    <2> QED
        BY <1>11, <2>1, <2>2 DEF Before, Closed
<1>20. CASE ReadOnly
    <2>1. /\ mgr.pc # "idle" /\ UNCHANGED current /\ mgr'.sw = mgr.sw
          /\ mgr'.oldMaster = mgr.oldMaster /\ mgr'.snap = mgr.snap
          /\ mgr'.pc \in {"failed", "firstPill"}
        BY <1>1, <1>20 DEF ReadOnly, Goto, At, Managers
    <2>2. mgr'.pc = "firstPill" => Fenced'
        BY <1>20, ReadOnlyCloses
    <2> QED
        BY <1>10, <2>1, <2>2 DEF Before, Closed
<1>21. ASSUME NEW label \in Before, Goto(label), UNCHANGED current, mgr.pc # "idle",
              label \in Closed => mgr.pc \in Closed,
              label \notin {"refresh", "setMaster", "catchup"}
       PROVE  Attempt'
    <2>1. /\ mgr'.sw = mgr.sw /\ mgr'.oldMaster = mgr.oldMaster /\ mgr'.snap = mgr.snap
          /\ mgr'.pc = label
        BY <1>1, <1>21 DEF Goto, Managers
    <2>2. label \in Closed => Fenced'
        BY <1>1, <1>4, <1>21 DEF Attempt
    <2> QED
        BY <1>10, <1>21, <2>1, <2>2
<1>22. CASE FirstPill
    BY <1>21, <1>22 DEF FirstPill, issuePoisonPill, At, Before, Closed
<1>23. CASE waitPoisonPill("firstWait", "pause")
    BY <1>21, <1>23 DEF waitPoisonPill, At, Before, Closed
<1>24. CASE Pause
    <2>1. /\ mgr.pc = "pause" /\ UNCHANGED current /\ mgr'.sw = mgr.sw
          /\ mgr'.oldMaster = mgr.oldMaster /\ mgr'.snap = mgr.snap
          /\ mgr'.pc \in {"failed", "choose"}
        BY <1>1, <1>24 DEF Pause, At, Managers
    <2>2. Fenced'
        BY <1>1, <1>4, <2>1 DEF Attempt, Closed
    <2> QED
        BY <1>10, <2>1, <2>2 DEF Before
<1>25. ASSUME NEW mostRecent \in Hosts, NEW newMaster \in Hosts, Choose(mostRecent, newMaster)
       PROVE  Attempt'
    <2> DEFINE record == [mgr.sw EXCEPT !.phase = 3, !.newMaster = newMaster,
                                        !.mostRecent = mostRecent]
    <2>1. /\ mgr.pc = "choose" /\ current' = record /\ mgr'.sw = record
          /\ mgr'.oldMaster = mgr.oldMaster /\ mgr'.snap = mgr.snap /\ mgr'.pc = "catchup"
          /\ mgr'.behind = lags(newMaster, mostRecent)
          /\ UNCHANGED <<log, writes>>
        BY <1>1, <1>25 DEF Choose, At, Managers
    <2>2. /\ mostRecent \in mostRecentNodes
          /\ IF mgr.sw.to # NoHost THEN newMaster = mgr.sw.to
             ELSE newMaster \in desirableNodes(mostRecent)
        BY <1>1, <1>25 DEF Choose
    <2>3. /\ mostRecent \in reach /\ acked \subseteq log[mostRecent]
          /\ \A h \in reach : log[h] \subseteq log[mostRecent]
        BY <1>0, <2>1, <2>2, MostRecentHolds DEF Replacing
    <2>4. newMaster \in reach \ {M}
        <3>1. Sound(mgr.sw)
            BY <1>1, <2>1 DEF Attempt
        <3> QED
            BY <1>1, <2>2, <3>1 DEF Sound, desirableNodes, sw
    <2>5. Fenced'
        BY <1>1, <1>4, <2>1 DEF Attempt, Closed
    <2>6. acked' = acked
        BY <2>1 DEF acked
    <2>7. SoundAfter(mgr.sw)
        BY <1>4, <2>1
    <2>8. SoundAfter(record)
        BY <1>1, <2>1, <2>3, <2>4, <2>5, <2>6, <2>7 DEF SoundAfter, Records
    <2>9. ~mgr'.behind => log'[mostRecent] \subseteq log'[newMaster]
        BY <1>0, <1>1, <2>1, <2>3, <2>4, NotLagging
    <2> QED
        BY <1>1, <1>11, <2>1, <2>5, <2>8, <2>9 DEF Before, Records
<1>26. CASE ChooseFails
    BY <1>21, <1>26 DEF ChooseFails, At, Before, Closed
<1>27. ASSUME mgr.pc \in Acting \/ mgr.sw.phase >= 3, mgr.pc # "idle"
       PROVE  mgr.sw.phase >= 3 /\ Chosen(mgr.sw) /\ Fenced'
    BY <1>1, <1>4, <1>5, <1>27 DEF Attempt, Sound, Chosen
<1>28. CASE ChosenBefore
    <2>1. /\ mgr.pc = "choose" /\ UNCHANGED current /\ mgr'.sw = mgr.sw
          /\ mgr'.oldMaster = mgr.oldMaster /\ mgr'.snap = mgr.snap /\ mgr'.pc = "catchup"
          /\ mgr'.behind = lags(mgr.sw.newMaster, mgr.sw.mostRecent)
          /\ mgr.sw.phase >= 3
        BY <1>1, <1>28 DEF ChosenBefore, At, Managers
    <2>2. Chosen(mgr.sw) /\ Fenced'
        BY <1>27, <2>1
    <2>3. ~mgr'.behind => Synced(mgr.sw)
        BY <1>0, <1>1, <2>1, <2>2, NotLagging DEF Chosen, Synced
    <2> QED
        BY <1>10, <2>1, <2>2, <2>3 DEF Before
<1>29. CASE Attach
    <2>1. /\ mgr.pc = "catchup" /\ UNCHANGED current
          /\ Goto("failed") \/ Goto("wait") \/ Goto("refresh")
        BY <1>29 DEF Attach, At
    <2>2. CASE Goto("failed") \/ Goto("wait")
        BY <1>21, <2>1, <2>2 DEF Before, Closed
    <2>3. CASE Goto("refresh")
        <3>1. /\ mgr'.sw = mgr.sw /\ mgr'.oldMaster = mgr.oldMaster /\ mgr'.snap = mgr.snap
              /\ mgr'.pc = "refresh"
            BY <1>1, <2>3 DEF Goto, Managers
        <3>2. ~(mgr.sw.phase < 5 /\ mgr.sw.newMaster # mgr.sw.mostRecent /\ mgr.behind)
            BY <1>1, <1>29, <3>1 DEF Attach, Goto, Managers
        <3>3. mgr.sw.phase \in Int
            BY <1>1 DEF Records
        <3>4. Synced(mgr.sw)
            BY <1>1, <2>1, <3>2, <3>3 DEF Attempt, Sound, Synced
        <3>5. mgr.sw.phase >= 3 /\ Fenced'
            BY <1>27, <2>1 DEF Acting
        <3> QED
            BY <1>10, <2>1, <3>1, <3>4, <3>5 DEF Before
    <2> QED
        BY <2>1, <2>2, <2>3
<1>30. CASE WaitForCatchup
    <2>1. /\ mgr.pc = "wait" /\ UNCHANGED current
          /\ Goto("failed") \/ Goto("refresh")
        BY <1>30 DEF WaitForCatchup, At
    <2>2. CASE Goto("failed")
        BY <1>21, <2>1, <2>2 DEF Before, Closed
    <2>3. CASE Goto("refresh")
        <3>1. /\ mgr'.sw = mgr.sw /\ mgr'.oldMaster = mgr.oldMaster /\ mgr'.snap = mgr.snap
              /\ mgr'.pc = "refresh"
            BY <1>1, <2>3 DEF Goto, Managers
        <3>2. mgr.sw.phase >= 3 /\ Chosen(mgr.sw) /\ Fenced'
            BY <1>27, <2>1 DEF Acting
        <3>3. /\ mgr.sw.newMaster \in Hosts /\ mgr.sw.mostRecent \in Hosts
              /\ getOffset(mgr.sw.mostRecent) <= getOffset(mgr.sw.newMaster)
            BY <1>1, <1>30, <3>1, <3>2 DEF WaitForCatchup, Goto, Managers, Chosen
        <3>4. Synced(mgr.sw)
            BY <1>0, <1>1, <3>3, OffsetTells DEF Synced
        <3> QED
            BY <1>10, <2>1, <3>1, <3>2, <3>4 DEF Before
    <2> QED
        BY <2>1, <2>2, <2>3
<1>31. CASE Refresh
    <2>1. mgr.pc = "refresh" /\ Synced(mgr.sw) /\ Sound(mgr.sw)
        BY <1>1, <1>31 DEF Refresh, At, Attempt
    <2>2. mgr.sw.phase >= 3 /\ Chosen(mgr.sw) /\ Fenced'
        BY <1>27, <2>1 DEF Acting
    <2> DEFINE record == [mgr.sw EXCEPT !.phase = 5]
    <2>3. /\ current' = record
          /\ mgr' = [mgr EXCEPT !.snap = reach, !.sw = record, !.pc = "setMaster"]
        BY <1>1, <1>31, <2>1, <2>2 DEF Refresh, Sound, Chosen
    <2>4. /\ mgr'.sw = record /\ mgr'.oldMaster = mgr.oldMaster /\ mgr'.snap = reach
          /\ mgr'.pc = "setMaster"
        BY <1>1, <2>3 DEF Managers
    <2>5. SoundAfter(mgr.sw) /\ log'[mgr.sw.mostRecent] \subseteq log'[mgr.sw.newMaster]
        BY <1>4, <2>1, <2>2
    <2>6. /\ SoundAfter(record)
          /\ log'[record.mostRecent] \subseteq log'[record.newMaster]
        BY <1>1, <2>2, <2>5 DEF SoundAfter, Records
    <2> QED
        BY <1>11, <2>1, <2>2, <2>3, <2>4, <2>6 DEF Before
<1>32. CASE CheckAborted
    <2>1. mgr.pc = "failed" /\ UNCHANGED current /\ (Goto("failSwitchover") \/ mgr' = Idle)
        BY <1>32 DEF CheckAborted, At
    <2> QED
        BY <1>9, <1>21, <2>1 DEF Before, Closed
<1>33. CASE failSwitchover
    <2>1. /\ mgr.pc # "idle" /\ mgr'.pc = "idle"
          /\ current' = Switch(mgr.sw.auto, mgr.sw.from, mgr.sw.to, TRUE)
        BY <1>1, <1>3, <1>33 DEF failSwitchover, At
    <2>2. SoundAfter(mgr.sw)
        BY <1>4, <2>1
    <2>3. SoundAfter(current')
        BY <2>1, <2>2 DEF SoundAfter, Switch
    <2> QED
        BY <1>6, <2>1, <2>3
<1>34. CASE Crash
    <2>1. mgr.pc # "idle" /\ UNCHANGED current /\ (Goto("failed") \/ mgr' = Idle)
        BY <1>34 DEF Crash
    <2> QED
        BY <1>9, <1>21, <2>1 DEF Before, Closed
<1> QED
    BY <1>2, <1>12, <1>13, <1>14, <1>15, <1>16, <1>17, <1>18, <1>19, <1>20, <1>22, <1>23, <1>24,
       <1>25, <1>26, <1>28, <1>29, <1>30, <1>31, <1>32, <1>33, <1>34, ReplacingCalls
    DEF Next, stateManager, performSwitchover

\* Until the path master is written it names the initial master, which stays among
\* the active nodes; only this host is given a pill, and only one that is down.
LEMMA ReplacingDcs ==
    ASSUME TypeInv, Net, Replacing, [Next]_vars, Limited'
    PROVE  Pills' /\ M \in active' /\ (SetMaster \/ dcsMaster' = M)
<1> USE DEF serverVars, dcsVars, envVars
<1>1. /\ M \in Hosts /\ currentMaster = M /\ dcsMaster = M /\ M \in active /\ Pills
      /\ NoPill.host = NoHost
      /\ mgr.pc # "idle" => mgr.oldMaster = M
    BY ReplacingFacts DEF Replacing, Attempt, NoPill, Pill
<1>2. /\ UNCHANGED <<reach, broken>> /\ Planned' = Planned
      /\ ~CliForceSwitch /\ ~CliSwitchFrom
      /\ \A h \in Hosts : ~CliForceActive(h) /\ ~NetworkChange(h) /\ ~CliSwitchTo(h)
    BY Disturbed DEF Replacing
<1>3. ASSUME pill' = pill \/ pill' = NoPill, offline' = offline
      PROVE  Pills'
    BY <1>1, <1>2, <1>3 DEF Pills
<1>4. CASE WaitPass \/ FailoverPass \/ NotApproved \/ TimedOut \/ BeginSwitchover
    BY <1>1, <1>3, <1>4
    DEF WaitPass, FailoverPass, NotApproved, TimedOut, RejectSwitchover, BeginSwitchover
<1>5. ASSUME NEW repaired \in SUBSET Hosts, NEW kept \in SUBSET (active \ answers),
             NEW update \in BOOLEAN, RepairPass(repaired, kept, update)
      PROVE  Pills' /\ M \in active' /\ dcsMaster' = M
    <2>1. pill' = NoPill /\ UNCHANGED offline /\ dcsMaster' = M /\ M \in active'
        BY <1>1, <1>5 DEF RepairPass
    <2> QED
        BY <1>3, <2>1
<1>6. CASE \/ startSwitchover \/ InitProgress \/ ReadOnly \/ waitPoisonPill("firstWait", "pause")
           \/ Pause \/ (\E mostRecent, newMaster \in Hosts : Choose(mostRecent, newMaster))
           \/ ChooseFails \/ ChosenBefore \/ Attach \/ WaitForCatchup \/ Refresh
    BY <1>1, <1>3, <1>6
    DEF startSwitchover, InitProgress, ReadOnly, waitPoisonPill, Pause, Choose, ChooseFails,
        ChosenBefore, Attach, WaitForCatchup, Refresh
<1>7. CASE FirstPill
    <2>1. UNCHANGED <<offline, dcsMaster, active>> /\ mgr.pc # "idle"
        BY <1>7 DEF FirstPill, issuePoisonPill, At
    <2>2. CASE mgr.oldMaster \in mgr.snap
        BY <1>1, <1>3, <1>7, <2>1, <2>2 DEF FirstPill
    <2>3. CASE mgr.oldMaster \notin mgr.snap
        <3>1. ~Planned
            BY <1>1, <2>1, <2>3 DEF Replacing, Attempt
        <3>2. pill' = pill \/ pill' = Pill(M)
            BY <1>1, <1>7, <2>1, <2>3 DEF FirstPill, issuePoisonPill
        <3> QED
            BY <1>1, <1>2, <2>1, <3>1, <3>2 DEF Pills, Pill
    <2> QED
        BY <2>2, <2>3
<1>8. CASE \/ SetMaster \/ CheckAborted \/ failSwitchover \/ Crash \/ NewManager \/ CliAbort
           \/ UNCHANGED vars
    BY <1>1, <1>3, <1>8
    DEF SetMaster, CheckAborted, failSwitchover, Crash, NewManager, CliAbort, vars
<1>9. ASSUME NEW h \in Hosts, applyPoisonPill(h)
      PROVE  Pills' /\ M \in active' /\ dcsMaster' = M
    <2>1. h = M /\ ~Planned
        BY <1>1, <1>9, HostFacts DEF applyPoisonPill, Pills
    <2>2. pill'.host = pill.host
        BY <1>9 DEF applyPoisonPill, TypeInv, DcsTypes
    <2> QED
        BY <1>1, <1>2, <1>9, <2>1, <2>2 DEF applyPoisonPill, Pills
<1>10. ASSUME NEW h \in Hosts, repairLocalNode(h)
       PROVE  Pills' /\ M \in active' /\ dcsMaster' = M
    <2>1. UNCHANGED <<pill, dcsMaster, active>>
        BY <1>10 DEF repairLocalNode
    <2>2. offline' \subseteq offline
        BY <1>10 DEF repairLocalNode, OpenMaster, OpenReplica
    <2> QED
        BY <1>1, <1>2, <2>1, <2>2 DEF Pills
<1>11. ASSUME NEW n \in WriteIds,
              Acknowledge(n) \/ \E h \in Hosts : ClientWrite(h, n)
       PROVE  Pills' /\ M \in active' /\ dcsMaster' = M
    BY <1>1, <1>3, <1>11 DEF Acknowledge, ClientWrite
<1>12. ASSUME NEW h \in Hosts, Replicate(h)
       PROVE  Pills' /\ M \in active' /\ dcsMaster' = M
    BY <1>1, <1>3, <1>12 DEF Replicate
<1> QED
    BY <1>2, <1>4, <1>5, <1>6, <1>7, <1>8, <1>9, <1>10, <1>11, <1>12, ReplacingCalls
    DEF Next, stateManager, performSwitchover

\* A shard of one host has nobody to replace it with: no failover is approved.
LEMMA ReplacingBusy ==
    ASSUME TypeInv, Net, Replacing, [Next]_vars, Limited', current'.exists \/ mgr'.pc # "idle"
    PROVE  Replicas # {}
<1> USE DEF serverVars, dcsVars, envVars
<1>1. current.exists \/ mgr.pc # "idle" => Replicas # {}
    BY DEF Replacing
<1>2. ASSUME FailoverPass
      PROVE  Replicas # {}
    <2> SUFFICES ASSUME Replicas = {} PROVE FALSE
        OBVIOUS
    <2>1. Hosts = {M} /\ ~connected(M)
        BY HostFacts DEF Replicas, connected, admitted, isMaster, Replacing, OneSource
    <2>2. runningHAReplicas = {}
        BY <2>1 DEF runningHAReplicas, TypeInv, EnvTypes
    <2>3. Cardinality(runningHAReplicas) = 0 /\ Cardinality(Hosts) = 1
        BY <2>1, <2>2, FS_EmptySet, FS_Singleton
    <2> QED
        BY <1>2, <2>3 DEF FailoverPass, approveFailover
<1>3. ASSUME performSwitchover \/ Crash
      PROVE  Replicas # {}
    BY <1>1, <1>3, NeedsManager
<1>4. ASSUME \/ WaitPass \/ NotApproved \/ TimedOut \/ BeginSwitchover \/ NewManager \/ CliAbort
             \/ UNCHANGED vars
      PROVE  Replicas # {}
    BY <1>1, <1>4
    DEF WaitPass, NotApproved, TimedOut, RejectSwitchover, BeginSwitchover, NewManager, CliAbort,
        vars, NoSwitch, Switch
<1>5. ASSUME NEW repaired \in SUBSET Hosts, NEW kept \in SUBSET (active \ answers),
             NEW update \in BOOLEAN, RepairPass(repaired, kept, update)
      PROVE  Replicas # {}
    <2>1. UNCHANGED <<mgr, current>>
        BY <1>5 DEF RepairPass
    <2> QED
        BY <1>1, <2>1
<1>6. ASSUME NEW h \in Hosts, applyPoisonPill(h) \/ repairLocalNode(h) \/ Replicate(h)
      PROVE  Replicas # {}
    BY <1>1, <1>6 DEF applyPoisonPill, repairLocalNode, Replicate
<1>7. ASSUME NEW n \in WriteIds, Acknowledge(n) \/ \E h \in Hosts : ClientWrite(h, n)
      PROVE  Replicas # {}
    BY <1>1, <1>7 DEF Acknowledge, ClientWrite
<1>8. /\ ~CliForceSwitch /\ ~CliSwitchFrom
      /\ \A h \in Hosts : ~CliForceActive(h) /\ ~NetworkChange(h) /\ ~CliSwitchTo(h)
    BY Disturbed DEF Replacing
<1> QED
    BY <1>2, <1>3, <1>4, <1>5, <1>6, <1>7, <1>8 DEF Next, stateManager

\* The path master is written once the new master holds every acknowledged write and
\* the initial master acknowledges no more (phase 5).
LEMMA SetMasterReplaces ==
    ASSUME TypeInv, Net, Replacing, [Next]_vars, Limited', SetMaster
    PROVE  Replaced'
<1> USE DEF serverVars, dcsVars, envVars
<1>1. /\ mgr.pc = "setMaster" /\ dcsMaster' = mgr.sw.newMaster
      /\ mgr' = [mgr EXCEPT !.pc = "secondPill"]
      /\ UNCHANGED <<src, ro, paused, offline, num, quorum, log, pill, writes>>
    BY DEF SetMaster, At, sw, Goto
<1>2. mgr'.pc = "secondPill" /\ mgr'.sw = mgr.sw /\ mgr'.oldMaster = mgr.oldMaster
    BY <1>1 DEF TypeInv, MgrTypes, Managers
<1>3. Sound(mgr.sw) /\ Synced(mgr.sw) /\ Fenced /\ mgr.oldMaster = M
    BY <1>1 DEF Replacing, Attempt, Closed
<1>4. Chosen(mgr.sw)
    BY <1>1, <1>3 DEF Sound, TypeInv, MgrTypes, Acting
<1>5. /\ UNCHANGED <<reach, broken>> /\ Planned' = Planned /\ Down' = Down
    BY Disturbed DEF Replacing
<1>6. Fenced'
    BY <1>1, <1>3, <1>5 DEF Fenced, Waits, Waiting
<1>7. acked' = acked
    BY <1>1 DEF acked
<1>8. Stream' /\ Following'
    BY ReplacingServers
<1>9. Promotion'
    <2>1. src[M] = M /\ (Planned => offline = {}) /\ \A h \in Replicas : src[h] # h
        BY DEF Replacing, OneSource, Pills, Following
    <2> QED
        BY <1>1, <1>2, <1>5, <1>8, <2>1 DEF Promotion, After
<1>10. Manager'
    BY <1>1, <1>2, <1>3 DEF Manager, Unopened, After
<1>11. acked' \subseteq log'[dcsMaster']
    BY <1>1, <1>3, <1>4, <1>7 DEF Chosen, Synced
<1>12. \A n \in WriteIds : writes'[n].state = "waiting" => writes'[n].host = M
    BY <1>1 DEF Replacing, OneSource
<1> QED
    BY <1>1, <1>4, <1>5, <1>6, <1>9, <1>10, <1>11, <1>12 DEF Replaced, Replacing, Pills, Chosen

\* The second stage lasts until the path master is written.
LEMMA ReplacingStep ==
    ASSUME IndInv, Net, Replacing, [Next]_vars, Limited'
    PROVE  Replacing' \/ Replaced'
<1>0. TypeInv
    BY DEF IndInv
<1>1. CASE SetMaster
    BY <1>0, <1>1, SetMasterReplaces
<1>2. CASE ~SetMaster
    <2>1. Attempt'
        BY <1>2, AttemptStep
    <2>2. Pills' /\ M \in active' /\ dcsMaster' = M
        BY <1>0, <1>2, ReplacingDcs
    <2>3. current'.exists \/ mgr'.pc # "idle" => Replicas # {}
        BY <1>0, ReplacingBusy
    <2>4. Stream' /\ Following' /\ OneSource' /\ (Down /\ Replicas # {} => Waits' /\ Copied')
        BY <1>0, ReplacingServers
    <2>5. Down' = Down /\ Planned' = Planned /\ (Down \/ Planned)
        BY <1>0, Disturbed DEF Replacing
    <2> QED
        BY <2>1, <2>2, <2>3, <2>4, <2>5 DEF Replacing
<1> QED
    BY <1>1, <1>2

-----------------------------------------------------------------------------
(* The third stage: the new master is promoted and the replicas follow it. *)

\* What holds of the hosts once the path master names the new one.
LEMMA ReplacedFacts ==
    ASSUME TypeInv, Net, Replaced
    PROVE  /\ M \in Hosts /\ dcsMaster \in Hosts /\ dcsMaster # M /\ dcsMaster \in reach
           /\ reach \subseteq Hosts /\ src \in [Hosts -> Hosts] /\ mgr \in Managers
           /\ \A h \in Hosts : h = M \/ h \in Replicas
           /\ dcsMaster \in Replicas /\ M \notin Replicas
           /\ mgr.pc = "idle" => currentMaster = dcsMaster
           /\ ~masterFailed(dcsMaster)
           /\ \A h \in Hosts : isMaster(h) => h \in {M, dcsMaster}
           /\ mgr.pc \in Unopened => ~isMaster(dcsMaster) /\ ~Replicate(M)
           /\ Untouched
<1>1. /\ M \in Hosts /\ dcsMaster \in Hosts /\ dcsMaster # M /\ dcsMaster \in reach
      /\ reach \subseteq Hosts /\ src \in [Hosts -> Hosts] /\ mgr \in Managers
      /\ \A h \in Hosts : h = M \/ h \in Replicas
      /\ dcsMaster \in Replicas /\ M \notin Replicas
    BY HostFacts DEF TypeInv, ServerTypes, EnvTypes, MgrTypes, Replicas, Replaced
<1>2. mgr.pc = "idle" => currentMaster = dcsMaster
    BY <1>1, PathStands DEF Replaced, Promotion, After, isMaster
<1>3. ~masterFailed(dcsMaster)
    BY <1>1 DEF masterFailed, Replaced
<1>4. \A h \in Hosts : isMaster(h) => h \in {M, dcsMaster}
    BY <1>1 DEF isMaster, Replaced, Promotion
<1>5. ASSUME mgr.pc \in Unopened
      PROVE  ~isMaster(dcsMaster) /\ ~Replicate(M)
    <2>1. ~isMaster(dcsMaster)
        BY <1>1, <1>5 DEF Replaced, Promotion, Following, isMaster
    <2>2. CASE Down
        BY <2>1, <2>2 DEF Down, Replicate, connected, admitted
    <2>3. CASE Planned
        BY <1>5, <2>1, <2>3 DEF Replaced, Promotion, Replicate, connected, admitted, isMaster
    <2> QED
        BY <2>1, <2>2, <2>3 DEF Replaced
<1>6. Untouched
    BY <1>1, <1>2 DEF Untouched, Replaced, Manager
<1> QED
    BY <1>1, <1>2, <1>3, <1>4, <1>5, <1>6

\* The steps that are left: the manager that promotes does not come back to an
\* earlier call, and no pass finds a failed master or a record.
LEMMA ReplacedMoves ==
    ASSUME TypeInv, Net, Replaced, [Next]_vars, Limited', ~Crash
    PROVE  \/ \E repaired \in SUBSET Hosts, kept \in SUBSET (active \ answers), update \in BOOLEAN :
                  RepairPass(repaired, kept, update)
           \/ SecondPill \/ waitPoisonPill("secondWait", "setNum") \/ SetNumQuorumReplicas \/ promote
           \/ SavePhase6 \/ SetActiveNodes \/ OpenNewMaster \/ TurnReplicas \/ Turned
           \/ finishSwitchover \/ NewManager \/ CliAbort \/ UNCHANGED vars
           \/ \E h \in Hosts : applyPoisonPill(h) \/ repairLocalNode(h) \/ Replicate(h)
           \/ \E h \in Hosts, n \in WriteIds : ClientWrite(h, n)
           \/ \E n \in WriteIds : Acknowledge(n)
<1>1. /\ mgr.pc \in Unopened \cup After /\ (mgr.pc = "idle" => ~current.exists)
      /\ mgr.pc = "idle" => ~masterFailed(currentMaster)
    BY ReplacedFacts DEF Replaced, Manager
<1>2. ~(WaitPass \/ FailoverPass \/ NotApproved \/ TimedOut \/ BeginSwitchover)
    BY <1>1 DEF WaitPass, FailoverPass, NotApproved, TimedOut, RejectSwitchover, BeginSwitchover
<1>3. ~(\/ startSwitchover \/ InitProgress \/ ReadOnly \/ FirstPill
        \/ waitPoisonPill("firstWait", "pause") \/ Pause
        \/ (\E mostRecent, newMaster \in Hosts : Choose(mostRecent, newMaster)))
    BY <1>1
    DEF startSwitchover, InitProgress, ReadOnly, FirstPill, waitPoisonPill, Pause, Choose, At,
        Unopened, After
<1>4. ~(\/ ChooseFails \/ ChosenBefore \/ Attach \/ WaitForCatchup \/ Refresh \/ SetMaster
        \/ CheckAborted \/ failSwitchover)
    BY <1>1
    DEF ChooseFails, ChosenBefore, Attach, WaitForCatchup, Refresh, SetMaster, CheckAborted,
        failSwitchover, At, Unopened, After
<1>5. /\ ~CliForceSwitch /\ ~CliSwitchFrom
      /\ \A h \in Hosts : ~CliForceActive(h) /\ ~NetworkChange(h) /\ ~CliSwitchTo(h)
    BY Disturbed DEF Replaced
<1> QED
    BY <1>2, <1>3, <1>4, <1>5 DEF Next, stateManager, performSwitchover

\* The path master stands, and only the initial master is fenced off.
LEMMA ReplacedDcs ==
    ASSUME TypeInv, Net, Replaced, [Next]_vars, Limited', ~Crash
    PROVE  /\ dcsMaster' = dcsMaster /\ pill'.host \in {M, NoHost} /\ offline' \subseteq {M}
           /\ Planned /\ mgr.pc \in Unopened /\ offline' # {} => pill'.host = M
<1> DEFINE Kept == /\ dcsMaster' = dcsMaster /\ pill'.host \in {M, NoHost} /\ offline' \subseteq {M}
                   /\ Planned /\ mgr.pc \in Unopened /\ offline' # {} => pill'.host = M
<1> USE DEF serverVars, dcsVars, envVars
<1>1. /\ pill.host \in {M, NoHost} /\ offline \subseteq {M}
      /\ Planned /\ mgr.pc \in Unopened /\ offline # {} => pill.host = M
      /\ mgr.pc # "idle" => mgr.oldMaster = M
      /\ mgr.pc = "idle" => currentMaster = dcsMaster
      /\ "idle" \notin Unopened
    BY ReplacedFacts DEF Replaced, Promotion, Manager, Unopened
<1>2. ASSUME UNCHANGED <<dcsMaster, pill>>, offline' \subseteq offline
      PROVE  Kept
    BY <1>1, <1>2
<1>3. ASSUME NEW repaired \in SUBSET Hosts, NEW kept \in SUBSET (active \ answers),
             NEW update \in BOOLEAN, RepairPass(repaired, kept, update)
      PROVE  Kept
    <2>1. mgr.pc = "idle" /\ pill' = NoPill /\ UNCHANGED offline /\ dcsMaster' = currentMaster
        BY <1>3 DEF RepairPass
    <2> QED
        BY <1>1, <2>1 DEF NoPill, Pill
<1>4. ASSUME SecondPill
      PROVE  Kept
    <2>1. mgr.pc # "idle" /\ UNCHANGED <<dcsMaster, offline>>
          /\ (pill' = Pill(M) \/ (pill' = pill /\ pill.host = M))
        BY <1>1, <1>4 DEF SecondPill, issuePoisonPill, At
    <2> QED
        BY <1>1, <2>1 DEF Pill
<1>5. ASSUME \/ waitPoisonPill("secondWait", "setNum") \/ SetNumQuorumReplicas \/ promote
             \/ SavePhase6 \/ SetActiveNodes \/ OpenNewMaster \/ TurnReplicas \/ Turned
             \/ finishSwitchover \/ NewManager \/ CliAbort \/ UNCHANGED vars
      PROVE  Kept
    <2>1. UNCHANGED <<dcsMaster, pill, offline>>
        BY <1>5
        DEF waitPoisonPill, SetNumQuorumReplicas, promote, SavePhase6, SetActiveNodes,
            OpenNewMaster, TurnReplicas, Turned, finishSwitchover, NewManager, CliAbort, vars
    <2> QED
        BY <1>2, <2>1
<1>6. ASSUME NEW h \in Hosts, applyPoisonPill(h)
      PROVE  Kept
    <2>1. h = M /\ pill.host = M
        BY <1>1, <1>6, HostFacts DEF applyPoisonPill
    <2>2. pill'.host = pill.host /\ offline' = offline \cup {h} /\ UNCHANGED dcsMaster
        BY <1>6 DEF applyPoisonPill, TypeInv, DcsTypes
    <2> QED
        BY <1>1, <2>1, <2>2
<1>7. ASSUME NEW h \in Hosts, repairLocalNode(h)
      PROVE  Kept
    <2>1. UNCHANGED <<pill, dcsMaster>> /\ offline' \subseteq offline
        BY <1>7 DEF repairLocalNode, OpenMaster, OpenReplica
    <2> QED
        BY <1>2, <2>1
<1>8. ASSUME NEW h \in Hosts, Replicate(h) \/ \E n \in WriteIds : ClientWrite(h, n)
      PROVE  Kept
    BY <1>2, <1>8 DEF Replicate, ClientWrite
<1>9. ASSUME NEW n \in WriteIds, Acknowledge(n)
      PROVE  Kept
    BY <1>2, <1>9 DEF Acknowledge
<1> HIDE DEF Kept
<1>10. Kept
    BY <1>3, <1>4, <1>5, <1>6, <1>7, <1>8, <1>9, ReplacedMoves
<1> QED
    BY <1>10 DEF Kept

\* The new master is promoted once; nothing undoes it, and no other replica is.
LEMMA ReplacedSources ==
    ASSUME TypeInv, Net, Replaced, [Next]_vars, Limited', ~Crash
    PROVE  /\ \A h \in Replicas \ {dcsMaster} : src'[h] # h
           /\ mgr.pc \in After \/ promote => src'[dcsMaster] = dcsMaster
           /\ mgr.pc \in Unopened /\ ~promote =>
                  /\ \A r \in Replicas : src'[r] = src[r]
                  /\ Planned => src'[M] = src[M]
<1> DEFINE Kept == /\ \A h \in Replicas \ {dcsMaster} : src'[h] # h
                   /\ mgr.pc \in After \/ promote => src'[dcsMaster] = dcsMaster
                   /\ mgr.pc \in Unopened /\ ~promote =>
                          /\ \A r \in Replicas : src'[r] = src[r]
                          /\ Planned => src'[M] = src[M]
<1> USE DEF serverVars, dcsVars, envVars
<1>1. /\ M \in Hosts /\ dcsMaster \in Hosts /\ dcsMaster # M /\ src \in [Hosts -> Hosts]
      /\ Replicas \subseteq Hosts /\ M \notin Replicas
      /\ mgr.pc = "idle" => currentMaster = dcsMaster
      /\ mgr.pc # "idle" => mgr.sw.newMaster = dcsMaster
      /\ \A h \in Replicas \ {dcsMaster} : src[h] # h
      /\ mgr.pc \in After => src[dcsMaster] = dcsMaster
    BY ReplacedFacts DEF Replaced, Promotion, Manager, Replicas
<1>2. ASSUME UNCHANGED src, ~promote
      PROVE  Kept
    BY <1>1, <1>2
<1>3. ASSUME promote
      PROVE  Kept
    <2>1. src' = [src EXCEPT ![dcsMaster] = dcsMaster]
        BY <1>1, <1>3, StageAnswers DEF promote, At, sw
    <2> QED
        BY <1>1, <1>3, <2>1
\* hosts other than the new master are attached to it
<1>4. ASSUME NEW hs \in SUBSET (Hosts \ {dcsMaster}), ~promote, mgr.pc \in After,
             src' = [h \in Hosts |-> IF h \in hs THEN dcsMaster ELSE src[h]]
      PROVE  Kept
    <2>1. mgr.pc \notin Unopened
        BY <1>4 DEF After, Unopened
    <2> QED
        BY <1>1, <1>4, <2>1
<1>5. ASSUME NEW repaired \in SUBSET Hosts, NEW kept \in SUBSET (active \ answers),
             NEW update \in BOOLEAN, RepairPass(repaired, kept, update)
      PROVE  Kept
    <2>1. /\ mgr.pc = "idle" /\ ~promote
          /\ src' = [h \in Hosts |-> IF h \in repaired THEN dcsMaster ELSE src[h]]
          /\ repaired \in SUBSET (Hosts \ {dcsMaster})
        BY <1>1, <1>5 DEF RepairPass, promote, At
    <2> QED
        BY <1>4, <2>1 DEF After
<1>6. ASSUME TurnReplicas
      PROVE  Kept
    <2>1. mgr.pc = "turn" /\ ~promote /\ mgr.sw.newMaster = dcsMaster
        BY <1>1, <1>6 DEF TurnReplicas, promote, At
    <2> DEFINE hs == {h \in turning \cap answers : src[h] # dcsMaster}
    <2>2. src' = [h \in Hosts |-> IF h \in hs THEN dcsMaster ELSE src[h]]
        BY <1>6, <2>1 DEF TurnReplicas, repairReplica, sw
    <2>3. hs \in SUBSET (Hosts \ {dcsMaster})
        BY <2>1, AnswersType DEF turning, sw
    <2> HIDE DEF hs
    <2> QED
        BY <1>4, <2>1, <2>2, <2>3 DEF After
<1>7. ASSUME NEW h \in Hosts, repairLocalNode(h)
      PROVE  Kept
    <2>1. h = M /\ h \in offline
        BY <1>7 DEF repairLocalNode, Replaced
    <2>2. UNCHANGED mgr /\ (UNCHANGED src \/ repairReplica({M}, dcsMaster))
        BY <1>7, <2>1 DEF repairLocalNode, OpenMaster, OpenReplica
    <2>3. \A g \in Replicas : src'[g] = src[g]
        BY <1>1, <2>2 DEF repairReplica
    <2>4. ~(Planned /\ mgr.pc \in Unopened)
        BY <1>7, <2>1 DEF repairLocalNode, Replaced, Promotion, Unopened
    <2>5. dcsMaster \in Replicas /\ ~promote
        BY <1>1, <2>2, ReplacedFacts DEF promote, At, Goto, Managers
    <2> QED
        BY <1>1, <2>3, <2>4, <2>5
<1>8. ASSUME \/ SecondPill \/ waitPoisonPill("secondWait", "setNum") \/ SetNumQuorumReplicas
             \/ SavePhase6 \/ SetActiveNodes \/ OpenNewMaster \/ Turned
             \/ finishSwitchover \/ NewManager \/ CliAbort \/ UNCHANGED vars
      PROVE  Kept
    <2>1. UNCHANGED src
        BY <1>8
        DEF SecondPill, issuePoisonPill, waitPoisonPill, SetNumQuorumReplicas, SavePhase6,
            SetActiveNodes, OpenNewMaster, Turned, finishSwitchover, NewManager, CliAbort, vars
    <2> QED
        BY <1>2, <1>3, <2>1
<1>9. ASSUME NEW h \in Hosts,
             applyPoisonPill(h) \/ Replicate(h) \/ \E n \in WriteIds : ClientWrite(h, n)
      PROVE  Kept
    BY <1>2, <1>3, <1>9 DEF applyPoisonPill, Replicate, ClientWrite
<1>10. ASSUME NEW n \in WriteIds, Acknowledge(n)
       PROVE  Kept
    BY <1>2, <1>3, <1>10 DEF Acknowledge
<1> HIDE DEF Kept
<1>11. Kept
    BY <1>3, <1>5, <1>6, <1>7, <1>8, <1>9, <1>10, ReplacedMoves
<1> QED
    BY <1>11 DEF Kept

\* The manager goes on to the end: the new master and the replicas to turn answer,
\* so that no call fails, and every changeMaster sees its link.
LEMMA ReplacedManager ==
    ASSUME TypeInv, Net, Replaced, [Next]_vars, Limited', ~Crash
    PROVE  /\ Manager'
           /\ mgr'.pc \in Unopened => mgr.pc \in Unopened
           /\ mgr.pc \in Unopened /\ mgr'.pc \in After => promote
           /\ promote => mgr'.pc \in After
<1> DEFINE Goes == /\ Manager'
                   /\ mgr'.pc \in Unopened => mgr.pc \in Unopened
                   /\ mgr.pc \in Unopened /\ mgr'.pc \in After => promote
                   /\ promote => mgr'.pc \in After
<1> USE DEF serverVars, dcsVars, envVars
<1>1. /\ M \in Hosts /\ dcsMaster \in Hosts /\ dcsMaster # M /\ dcsMaster \in reach
      /\ mgr \in Managers /\ sw = mgr.sw /\ reach \subseteq Hosts /\ src \in [Hosts -> Hosts]
      /\ answers \subseteq reach /\ reach \ {M} \subseteq answers /\ dcsMaster \in answers
    BY ReplacedFacts, StageAnswers DEF sw
<1>2. /\ mgr.pc \in Unopened \cup After
      /\ mgr.pc # "idle" => mgr.sw.newMaster = dcsMaster /\ mgr.oldMaster = M
      /\ mgr.pc \in After => mgr.snap \subseteq reach
      /\ mgr.pc \in {"phase6", "setActive"} => M \notin mgr.snap
      /\ mgr.pc \in {"open", "turn", "turned"} => M \notin mgr.act
      /\ mgr.pc = "idle" => ~current.exists
      /\ mgr.pc = "turned" => \A h \in (mgr.act \cap mgr.snap) \ {dcsMaster} :
                                  src[h] = dcsMaster /\ h \notin paused
    BY DEF Replaced, Manager
<1>3. dcsMaster' = dcsMaster /\ UNCHANGED reach
    BY ReplacedDcs, Disturbed DEF Replaced
<1>4. \A label : ~(label \in Unopened /\ label \in After)
    BY DEF Unopened, After
<1>5. NoSwitch.exists = FALSE /\ Idle.pc = "idle" /\ Idle.snap = {}
    BY DEF NoSwitch, Switch, Idle
\* a step of somebody else
<1>6. ASSUME UNCHANGED mgr, current' = current \/ current' = NoSwitch,
             \A h \in Hosts : src[h] = dcsMaster /\ h \notin paused =>
                                  src'[h] = dcsMaster /\ h \notin paused'
      PROVE  Goes
    <2>1. ~promote
        BY <1>1, <1>6 DEF promote, At, Goto, Managers
    <2>2. mgr.act \subseteq Hosts
        BY <1>1 DEF Managers
    <2> QED
        BY <1>2, <1>3, <1>4, <1>5, <1>6, <2>1, <2>2 DEF Manager
\* the manager goes on to another call
<1>7. ASSUME mgr.pc # "idle", mgr'.sw.newMaster = mgr.sw.newMaster, mgr'.oldMaster = mgr.oldMaster,
             mgr'.pc # "idle", mgr'.pc # "turned",
             \/ mgr.pc \in Unopened /\ mgr'.pc \in Unopened /\ ~promote
             \/ mgr.pc \in After /\ mgr'.pc \in After /\ ~promote
             \/ mgr'.pc \in After /\ promote,
             mgr'.pc \in After => mgr'.snap \subseteq reach,
             mgr'.pc \in {"phase6", "setActive"} => M \notin mgr'.snap,
             mgr'.pc \in {"open", "turn"} => M \notin mgr'.act
      PROVE  Goes
    BY <1>2, <1>3, <1>4, <1>7 DEF Manager
<1>8. ASSUME NEW repaired \in SUBSET Hosts, NEW kept \in SUBSET (active \ answers),
             NEW update \in BOOLEAN, RepairPass(repaired, kept, update)
      PROVE  Goes
    <2>1. mgr.pc = "idle" /\ ~current.exists /\ UNCHANGED <<mgr, current>> /\ ~promote
        BY <1>8 DEF RepairPass, promote, At
    <2> QED
        BY <1>2, <1>3, <1>4, <2>1 DEF Manager
<1>9. ASSUME SecondPill
      PROVE  Goes
    <2>1. mgr.pc = "secondPill" /\ mgr' = [mgr EXCEPT !.pc = "secondWait"]
        BY <1>9 DEF SecondPill, issuePoisonPill, At, Goto
    <2>2. mgr'.sw = mgr.sw /\ mgr'.oldMaster = mgr.oldMaster /\ mgr'.pc = "secondWait" /\ ~promote
        BY <1>1, <2>1 DEF Managers, promote, At
    <2> QED
        BY <1>7, <2>1, <2>2 DEF Unopened, After
<1>10. ASSUME waitPoisonPill("secondWait", "setNum")
       PROVE  Goes
    <2>1. mgr.pc = "secondWait" /\ mgr' = [mgr EXCEPT !.pc = "setNum"]
        BY <1>10 DEF waitPoisonPill, At, Goto
    <2>2. mgr'.sw = mgr.sw /\ mgr'.oldMaster = mgr.oldMaster /\ mgr'.pc = "setNum" /\ ~promote
        BY <1>1, <2>1 DEF Managers, promote, At
    <2> QED
        BY <1>7, <2>1, <2>2 DEF Unopened, After
<1>11. ASSUME SetNumQuorumReplicas
       PROVE  Goes
    <2>1. mgr.pc = "setNum" /\ mgr' = [mgr EXCEPT !.pc = "promote"]
        BY <1>1, <1>2, <1>11 DEF SetNumQuorumReplicas, At, Goto
    <2>2. mgr'.sw = mgr.sw /\ mgr'.oldMaster = mgr.oldMaster /\ mgr'.pc = "promote" /\ ~promote
        BY <1>1, <2>1 DEF Managers, promote, At
    <2> QED
        BY <1>7, <2>1, <2>2 DEF Unopened, After
<1>12. ASSUME promote
       PROVE  Goes
    <2>1. mgr.pc = "promote" /\ mgr' = [mgr EXCEPT !.snap = psyncNodes, !.pc = "phase6"]
        BY <1>1, <1>2, <1>12 DEF promote, At
    <2>2. /\ mgr'.sw = mgr.sw /\ mgr'.oldMaster = mgr.oldMaster /\ mgr'.pc = "phase6"
          /\ mgr'.snap = psyncNodes
        BY <1>1, <2>1 DEF Managers
    <2>3. psyncNodes \subseteq reach
        BY <1>1 DEF psyncNodes
    <2>4. CASE Down
        <3>1. M \notin psyncNodes
            BY <2>3, <2>4 DEF Down, Replicas
        <3> QED
            BY <1>7, <1>12, <2>1, <2>2, <2>3, <3>1 DEF After
    <2>5. CASE Planned
        <3>1. isMaster(M)
            BY <2>1, <2>5 DEF Replaced, Promotion, Unopened, isMaster
        <3>2. M \notin psyncNodes
            BY <3>1 DEF psyncNodes, isPartialSyncPossible
        <3> QED
            BY <1>7, <1>12, <2>1, <2>2, <2>3, <3>2 DEF After
    <2> QED
        BY <2>4, <2>5 DEF Replaced
<1>13. ASSUME SavePhase6 \/ SetActiveNodes \/ OpenNewMaster
       PROVE  Goes
    <2>1. /\ mgr.pc \in {"phase6", "setActive", "open"} /\ mgr'.pc \in {"setActive", "open", "turn"}
          /\ mgr'.sw.newMaster = mgr.sw.newMaster /\ mgr'.oldMaster = mgr.oldMaster
          /\ mgr'.snap \in {answers, mgr.snap}
          /\ mgr'.pc = "setActive" => mgr.pc = "phase6" /\ mgr'.snap = mgr.snap
          /\ mgr'.pc \in {"open", "turn"} => M \notin mgr'.act
        <3>1. CASE SavePhase6
            <4>1. mgr.sw \in Records
                BY <1>1 DEF Managers
            <4> QED
                BY <1>1, <3>1, <4>1 DEF SavePhase6, updateSwitchover, At, Managers, Records
        <3>2. CASE SetActiveNodes
            <4>1. mgr.pc = "setActive" /\ M \notin (mgr.alive \cap mgr.snap) \cup {mgr.sw.newMaster}
                BY <1>1, <1>2, <3>2 DEF SetActiveNodes, At
            <4> QED
                BY <1>1, <3>2, <4>1 DEF SetActiveNodes, At, Managers
        <3>3. CASE OpenNewMaster
            BY <1>1, <1>2, <3>3 DEF OpenNewMaster, At, Managers
        <3> QED
            BY <1>13, <3>1, <3>2, <3>3
    <2>2. ~promote
        BY <2>1 DEF promote, At
    <2>3. mgr'.snap \subseteq reach /\ (mgr'.pc = "setActive" => M \notin mgr'.snap)
        BY <1>1, <1>2, <2>1 DEF After
    <2> QED
        BY <1>7, <2>1, <2>2, <2>3 DEF After
<1>14. ASSUME TurnReplicas
       PROVE  Goes
    <2>1. mgr.pc = "turn" /\ mgr' = [mgr EXCEPT !.pc = "turned"] /\ ~promote
          /\ repairReplica(turning \cap answers, dcsMaster)
        BY <1>1, <1>2, <1>14 DEF TurnReplicas, At, Goto, promote
    <2>2. /\ mgr'.sw = mgr.sw /\ mgr'.oldMaster = mgr.oldMaster /\ mgr'.pc = "turned"
          /\ mgr'.snap = mgr.snap /\ mgr'.act = mgr.act
        BY <1>1, <2>1 DEF Managers
    <2>3. turning = (mgr.act \cap mgr.snap) \ {dcsMaster} /\ turning \subseteq answers
          /\ turning \subseteq Hosts
        BY <1>1, <1>2, <2>1 DEF turning, After
    <2>4. \A h \in turning : src'[h] = dcsMaster /\ h \notin paused'
        BY <1>1, <2>1, <2>3 DEF repairReplica
    <2> QED
        BY <1>2, <1>3, <1>4, <2>1, <2>2, <2>3, <2>4 DEF Manager, After
<1>15. ASSUME Turned
       PROVE  Goes
    <2>1. mgr.pc = "turned" /\ ~promote
        BY <1>15 DEF Turned, promote, At
    <2>2. turning = (mgr.act \cap mgr.snap) \ {dcsMaster} /\ turning \subseteq answers
          /\ isMaster(dcsMaster)
        BY <1>1, <1>2, <2>1 DEF turning, After, isMaster, Replaced, Promotion
    <2>3. \A h \in reach : h \notin broken
        BY DEF Replaced, Down, Planned, Replicas
    <2>4. ASSUME NEW h \in turning
          PROVE  h \in answers /\ connected(h)
        <3>1. h \in answers /\ src[h] = dcsMaster /\ h \notin paused /\ h # dcsMaster
            BY <1>2, <2>1, <2>2
        <3>2. dcsMaster \notin offline
            BY <1>1 DEF Replaced
        <3> QED
            BY <1>1, <2>2, <2>3, <3>1, <3>2 DEF connected, admitted, serves, isMaster
    <2>5. mgr' = [mgr EXCEPT !.pc = "finished"]
        BY <1>15, <2>4 DEF Turned, Goto
    <2>6. /\ mgr'.sw = mgr.sw /\ mgr'.oldMaster = mgr.oldMaster /\ mgr'.pc = "finished"
          /\ mgr'.snap = mgr.snap
        BY <1>1, <2>5 DEF Managers
    <2> QED
        BY <1>2, <1>7, <2>1, <2>6 DEF After
<1>16. ASSUME finishSwitchover
       PROVE  Goes
    <2>1. mgr.pc = "finished" /\ mgr' = Idle /\ current' = NoSwitch /\ ~promote
        BY <1>16 DEF finishSwitchover, At, promote
    <2> QED
        BY <1>3, <1>5, <2>1 DEF Manager, After, Unopened
<1>17. ASSUME NewManager \/ CliAbort \/ UNCHANGED vars
       PROVE  Goes
    BY <1>6, <1>17 DEF NewManager, CliAbort, vars
<1>18. ASSUME NEW h \in Hosts,
              applyPoisonPill(h) \/ Replicate(h) \/ \E n \in WriteIds : ClientWrite(h, n)
       PROVE  Goes
    BY <1>6, <1>18 DEF applyPoisonPill, Replicate, ClientWrite
<1>19. ASSUME NEW h \in Hosts, repairLocalNode(h)
       PROVE  Goes
    <2>1. UNCHANGED <<mgr, current>>
        BY <1>19 DEF repairLocalNode
    <2>2. UNCHANGED <<src, paused>> \/ repairReplica({h}, dcsMaster)
        BY <1>19 DEF repairLocalNode, OpenMaster, OpenReplica
    <2>3. \A g \in Hosts : src[g] = dcsMaster /\ g \notin paused =>
                               src'[g] = dcsMaster /\ g \notin paused'
        BY <2>2 DEF repairReplica
    <2> QED
        BY <1>6, <2>1, <2>3
<1>20. ASSUME NEW n \in WriteIds, Acknowledge(n)
       PROVE  Goes
    BY <1>6, <1>20 DEF Acknowledge
<1> HIDE DEF Goes
<1>21. Goes
    BY <1>8, <1>9, <1>10, <1>11, <1>12, <1>13, <1>14, <1>15, <1>16, <1>17, <1>18, <1>19, <1>20,
       ReplacedMoves
<1> QED
    BY <1>21 DEF Goes

\* The new master loses no write, and what it is still asked to acknowledge it has.
LEMMA ReplacedHistories ==
    ASSUME TypeInv, Net, Replaced, [Next]_vars, Limited', ~Crash
    PROVE  /\ log[dcsMaster] \subseteq log'[dcsMaster] /\ acked' \subseteq log'[dcsMaster]
           /\ \A n \in WriteIds : writes'[n].state = "waiting" =>
                  \/ writes'[n].host = M
                  \/ writes'[n].host = dcsMaster /\ n \in log'[dcsMaster]
<1>1. /\ M \in Hosts /\ dcsMaster \in Hosts /\ dcsMaster # M
      /\ \A h \in Hosts : isMaster(h) => h \in {M, dcsMaster}
      /\ log \in [Hosts -> SUBSET WriteIds] /\ writes \in [WriteIds -> Writes]
    BY ReplacedFacts DEF TypeInv, ServerTypes, EnvTypes
<1>2. /\ Fenced /\ acked \subseteq log[dcsMaster] /\ mgr.pc \in Unopened \cup After
      /\ \A n \in WriteIds : writes[n].state = "waiting" =>
             writes[n].host = M \/ (writes[n].host = dcsMaster /\ n \in log[dcsMaster])
    BY DEF Replaced, Manager
<1>3. ASSUME NEW h \in Hosts, NEW n \in WriteIds, ClientWrite(h, n)
      PROVE  /\ h \in {M, dcsMaster} /\ log' = [log EXCEPT ![h] = @ \cup {n}]
             /\ h = dcsMaster => n \in log'[dcsMaster]
             /\ h = M => num[M] # 0
    <2>1. isMaster(h) /\ h \notin ro /\ log' = [log EXCEPT ![h] = @ \cup {n}]
        BY <1>3 DEF ClientWrite, writable
    <2>2. h = M => num[M] # 0
        BY <1>2, <2>1, NumReplicasType DEF Fenced, Waits, TypeInv, ServerTypes
    <2> QED
        BY <1>1, <2>1, <2>2
<1>4. log[dcsMaster] \subseteq log'[dcsMaster]
    <2>1. CASE mgr.pc \in Unopened
        <3>1. Stream /\ Following /\ ~Replicate(M)
            BY <2>1, ReplacedFacts DEF Replaced, Promotion
        <3> QED
            BY <1>1, <3>1, StreamStep
    <2>2. CASE mgr.pc \in After
        <3>1. isMaster(dcsMaster)
            BY <2>2 DEF Replaced, Promotion, isMaster
        <3>2. ASSUME NEW r \in Hosts, Replicate(r)
              PROVE  log'[dcsMaster] = log[dcsMaster]
            <4>1. r # dcsMaster
                BY <3>1, <3>2 DEF Replicate, connected, admitted
            <4>2. \E x : log' = [log EXCEPT ![r] = x]
                BY <3>2 DEF Replicate
            <4> QED
                BY <1>1, <4>1, <4>2
        <3>3. ASSUME NEW n \in WriteIds, Acknowledge(n)
              PROVE  log' = log
            BY <3>3 DEF Acknowledge, serverVars
        <3>4. ASSUME NEW h \in Hosts, NEW n \in WriteIds, ClientWrite(h, n)
              PROVE  log[dcsMaster] \subseteq log'[dcsMaster]
            BY <1>1, <1>3, <3>4
        <3> QED
            BY <3>2, <3>3, <3>4, Histories
    <2> QED
        BY <1>2, <2>1, <2>2
<1>5. acked' \subseteq log'[dcsMaster]
    <2>1. ASSUME NEW n \in WriteIds, Acknowledge(n)
          PROVE  n \in log[dcsMaster]
        BY <1>2, <2>1, FencedIsSilent DEF Acknowledge
    <2>2. ASSUME NEW h \in Hosts, NEW n \in WriteIds, ClientWrite(h, n), num[h] = 0
          PROVE  n \in log'[dcsMaster]
        BY <1>3, <2>2
    <2> QED
        BY <1>2, <1>4, <2>1, <2>2, AckedStep
<1>6. ASSUME NEW n \in WriteIds, writes'[n].state = "waiting"
      PROVE  writes'[n].host = M \/ (writes'[n].host = dcsMaster /\ n \in log'[dcsMaster])
    BY <1>2, <1>3, <1>4, <1>6, WaitingStep
<1> QED
    BY <1>4, <1>5, <1>6

\* The third stage is the last.
LEMMA ReplacedStep ==
    ASSUME TypeInv, Net, Replaced, [Next]_vars, Limited', ~Crash
    PROVE  Replaced'
<1>1. /\ Down' = Down /\ Planned' = Planned /\ UNCHANGED reach /\ (Down \/ Planned)
    BY Disturbed DEF Replaced
<1>2. /\ dcsMaster' = dcsMaster /\ pill'.host \in {M, NoHost} /\ offline' \subseteq {M}
      /\ Planned /\ mgr.pc \in Unopened /\ offline' # {} => pill'.host = M
    BY ReplacedDcs
<1>3. Fenced'
    BY <1>1, ReplacedFacts, FencedStep DEF Replaced
<1>4. /\ Manager'
      /\ mgr'.pc \in Unopened => mgr.pc \in Unopened
      /\ mgr.pc \in Unopened /\ mgr'.pc \in After => promote
      /\ promote => mgr'.pc \in After
    BY ReplacedManager
<1>5. \A label : ~(label \in Unopened /\ label \in After)
    BY DEF Unopened, After
<1>6. /\ \A h \in Replicas \ {dcsMaster} : src'[h] # h
      /\ mgr.pc \in After \/ promote => src'[dcsMaster] = dcsMaster
      /\ mgr.pc \in Unopened /\ ~promote =>
             /\ \A r \in Replicas : src'[r] = src[r]
             /\ Planned => src'[M] = src[M]
    BY ReplacedSources
<1>7. ASSUME mgr'.pc \in Unopened
      PROVE  /\ Stream' /\ Following'
             /\ Planned => src'[M] = M /\ (offline' # {} => pill'.host = M)
    <2>1. mgr.pc \in Unopened /\ ~promote
        BY <1>4, <1>5, <1>7
    <2>2. Stream /\ Following /\ ~Replicate(M) /\ (Planned => src[M] = M)
        BY <2>1, ReplacedFacts DEF Replaced, Promotion
    <2>3. /\ Stream' /\ \A h \in Hosts : log[h] \subseteq log'[h]
          /\ \A r \in Replicas :
                 log'[r] = log[r] \/ (Replicate(r) /\ log'[r] \subseteq log[src[r]])
        BY <2>2, StreamStep
    <2>4. Following'
        <3> SUFFICES ASSUME NEW r \in Replicas
                     PROVE  src'[r] # r /\ log'[r] \subseteq log'[src'[r]]
            BY DEF Following
        <3>1. src'[r] = src[r] /\ src[r] # r /\ log[r] \subseteq log[src[r]]
            BY <1>6, <2>1, <2>2 DEF Following
        <3>2. r \in Hosts /\ src[r] \in Hosts
            BY DEF Replicas, TypeInv, ServerTypes
        <3> QED
            BY <2>3, <3>1, <3>2
    <2> QED
        BY <1>2, <1>6, <2>1, <2>2, <2>3, <2>4
<1>8. Promotion'
    <2>1. mgr'.pc \in After => src'[dcsMaster] = dcsMaster
        BY <1>4, <1>6 DEF Replaced, Manager
    <2> QED
        BY <1>1, <1>2, <1>6, <1>7, <2>1 DEF Promotion
<1>9. /\ acked' \subseteq log'[dcsMaster]
      /\ \A n \in WriteIds : writes'[n].state = "waiting" =>
             \/ writes'[n].host = M
             \/ writes'[n].host = dcsMaster /\ n \in log'[dcsMaster]
    BY ReplacedHistories
<1>10. dcsMaster \in reach \ {M}
    BY DEF Replaced
<1> QED
    BY <1>1, <1>2, <1>3, <1>4, <1>8, <1>9, <1>10 DEF Replaced

-----------------------------------------------------------------------------
(* One failure, or one planned switchover.                                 *)

\* A shard starts undisturbed.
LEMMA InitStaged == Init => Staged
<1> SUFFICES ASSUME Init
             PROVE  Staged
    OBVIOUS
<1>1. M \in Hosts /\ {"forced", "faults", "switches", "late"} \subseteq Kinds
    BY HostFacts DEF Kinds
<1>2. /\ reach = Hosts /\ broken = {} /\ forcing = NoHost
      /\ spent["late"] = 0 /\ spent["forced"] = 0 /\ spent["faults"] = 0 /\ spent["switches"] = 0
    BY <1>1 DEF Init
<1>3. Net
    BY <1>1, <1>2 DEF Net, Limited
<1>4. \A n \in WriteIds : writes[n].state = "none"
    BY DEF Init, NoWrite
<1>5. \A h \in Hosts : src[h] = M /\ log[h] = {}
    BY DEF Init, M
<1>6. /\ dcsMaster = M /\ M \in active /\ mgr.pc = "idle" /\ ~current.exists
      /\ pill.host = NoHost /\ offline = {} /\ paused = {}
    BY <1>1 DEF Init, M, Idle, NoSwitch, Switch, NoPill, Pill
<1>7. ~Down
    BY <1>1, <1>2 DEF Down, Replicas
<1>8. Stream /\ OneSource
    BY <1>1, <1>4, <1>5 DEF Stream, Segment, OneSource
<1>9. Replicas # {} => Waits /\ Copied
    <2>1. num[M] = getNumReplicasToWrite(Hosts)
        BY <1>1 DEF Init, M
    <2>2. \A n \in WriteIds : writes[n].state \notin {"waiting", "acked"}
        BY <1>4
    <2> QED
        BY <2>1, <2>2, WholeShardWaits DEF Waits, Waiting, Copied, acked
<1> QED
    BY <1>2, <1>3, <1>5, <1>6, <1>7, <1>8, <1>9 DEF Staged, Steady

\* No manager dies in the third stage.
LEMMA NoLateCrash ==
    ASSUME TypeInv, Replaced, [DiesEarly]_vars
    PROVE  ~Crash
<1>1. Crash => spent'["crashes"] = spent["crashes"] + 1 /\ spent["crashes"] \in Nat
    BY DEF Crash, Interrupted, Spend, Kinds, TypeInv, EnvTypes
<1>2. ~(Crash /\ DiesEarly)
    BY DEF DiesEarly, Replaced, M
<1> QED
    BY <1>1, <1>2 DEF vars, envVars

\* A manager that dies has not written the path master: the attempt after its own
\* has the initial master to replace.
LEMMA CrashIsEarly ==
    ASSUME TypeInv, Staged, [DiesEarly]_vars, Crash
    PROVE  spent'["late"] = spent["late"]
<1>1. ~Replaced
    BY NoLateCrash
<1>2. mgr.pc \in Before
    BY <1>1 DEF Staged, Steady, Replacing, Attempt, Before
<1>3. mgr.pc \notin Renamed
    BY <1>2 DEF Before, Renamed
<1>4. Spend({"crashes"})
    BY <1>3 DEF Crash, Interrupted
<1> QED
    BY <1>4 DEF Spend, Kinds, TypeInv, EnvTypes

\* The stages follow each other, and there is no way out of them.
LEMMA StagedStep ==
    ASSUME IndInv, Staged, [Next]_vars, Limited', [DiesEarly]_vars
    PROVE  Staged'
<1>1. TypeInv /\ Net
    BY DEF IndInv, Staged
<1>2. Net' /\ spent'["late"] = 0
    BY <1>1, NetStep, CrashIsEarly DEF Staged
<1>3. CASE Steady
    BY <1>1, <1>2, <1>3, SteadyStep DEF Staged
<1>4. CASE Replacing
    BY <1>1, <1>2, <1>4, ReplacingStep DEF Staged
<1>5. CASE Replaced
    BY <1>1, <1>2, <1>5, NoLateCrash, ReplacedStep DEF Staged
<1> QED
    BY <1>3, <1>4, <1>5 DEF Staged

\* In every stage at most one host can acknowledge, the one that the path master
\* names, and it holds what has been acknowledged.
LEMMA StagedKeeps ==
    ASSUME TypeInv, Staged
    PROVE  acknowledging \subseteq {dcsMaster} /\ \A h \in acknowledging : acked \subseteq log[h]
<1>1. M \in Hosts /\ \A h \in Hosts : h = M \/ h \in Replicas
    BY HostFacts DEF Replicas
<1>2. \A h \in acknowledging : h \in Hosts /\ src[h] = h
    BY DEF acknowledging, writable, isMaster
<1>3. CASE Steady \/ Replacing
    <2>1. dcsMaster = M /\ Stream /\ \A r \in Replicas : src[r] # r
        BY <1>3 DEF Steady, Replacing, Following, Replicas
    <2> QED
        BY <1>1, <1>2, <2>1 DEF Stream, acked
<1>4. CASE Replaced
    <2>1. M \notin acknowledging
        BY <1>4, FencedIsSilent DEF Replaced
    <2> QED
        BY <1>1, <1>2, <1>4, <2>1 DEF Replaced, Promotion
<1> QED
    BY <1>3, <1>4 DEF Staged

\* The inductive invariant holds as long as its hypotheses do.
LEMMA AlwaysStaged == Spec /\ []Limited /\ [][DiesEarly]_vars => []Staged
<1>1. IndInv /\ Staged /\ [Next]_vars /\ Limited' /\ [DiesEarly]_vars => Staged'
    BY StagedStep
<1> QED
    BY <1>1, InitStaged, Inductive, PTL DEF Spec

\* AckedKept: a write that WAITQUORUM has acknowledged is on every host where
\* another can be acknowledged.  performSwitchover loses none when one host fails
\* or one switchover is asked for, however many hosts, writes, retries, aborts and
\* timeouts there are, and however often the manager dies before it has written
\* the path master.
THEOREM OneFailureKeepsAcked == Spec /\ []Limited /\ [][DiesEarly]_vars => []AckedKept
<1>1. TypeInv /\ Staged => AckedKept
    BY StagedKeeps DEF AckedKept
<1>2. IndInv => TypeInv
    BY DEF IndInv
<1> QED
    BY <1>1, <1>2, AlwaysStaged, Inductive, PTL

\* OneMaster: under the same hypotheses no two hosts can acknowledge a write at one
\* time: the old master is closed, or cut off from the replicas it waits for, before
\* performSwitchover opens the new one.
THEOREM OneFailureOneMaster == Spec /\ []Limited /\ [][DiesEarly]_vars => []OneMaster
<1>1. TypeInv /\ Staged => OneMaster
    <2> SUFFICES ASSUME TypeInv, Staged
                 PROVE  OneMaster
        OBVIOUS
    <2>1. acknowledging \subseteq {dcsMaster}
        BY StagedKeeps
    <2>2. IsFiniteSet({dcsMaster}) /\ Cardinality({dcsMaster}) = 1
        BY FS_Singleton
    <2>3. Cardinality(acknowledging) <= Cardinality({dcsMaster})
        BY <2>1, <2>2, FS_Subset
    <2> QED
        BY <2>2, <2>3 DEF OneMaster
<1>2. IndInv => TypeInv
    BY DEF IndInv
<1> QED
    BY <1>1, <1>2, AlwaysStaged, Inductive, PTL

-----------------------------------------------------------------------------
(* The promise of Shard: no host acknowledges a write of an earlier time   *)
(* while nobody can acknowledge a new one.                                 *)

\* the replicas that h counts on replicate from it, and are enough
Ready(h) ==
    /\ \A r \in quorum[h] : src[r] = h /\ linked(r)
    /\ num[h] <= Cardinality(quorum[h])

\* writes are numbered in the order they are made
Numbered ==
    /\ \A h \in Hosts : \A n \in log[h] : writes[n].state # "none"
    /\ \A n, k \in WriteIds : k < n /\ writes[n].state # "none" => writes[k].state # "none"

NeedsOne == \A n \in WriteIds : writes[n].state = "waiting" => writes[n].need >= 1

\* in a shard of one host nobody waits
Alone == Replicas = {} => num[M] = 0 /\ \A n \in WriteIds : writes[n].state # "waiting"

SteadyAnswers ==
    /\ M \notin ro /\ num[M] = getNumReplicasToWrite(active)
    /\ {r \in reach : linked(r)} \subseteq active
    /\ \A n \in WriteIds : Waiting(n, M) => writes[n].need >= num[M]
    /\ Undisturbed => Ready(M)

ReplacingAnswers ==
    Planned => IF M \in ro THEN \A n \in WriteIds : ~Waiting(n, M) ELSE Ready(M)

\* the calls once the new active nodes are written, and the passes after them
Settled == {"idle", "open", "turn", "turned", "finished"}

ReplacedAnswers ==
    /\ \A n \in WriteIds : Waiting(n, dcsMaster) => dcsMaster \notin ro
    /\ quorum[dcsMaster] # {} =>
           /\ mgr.pc = "idle" /\ Ready(dcsMaster)
           /\ getNumReplicasToWrite(active) <= Cardinality(quorum[dcsMaster])
    /\ mgr.pc \in Settled =>
           /\ active \subseteq reach
           /\ M \in active => mgr.pc = "idle" /\ src[M] = dcsMaster /\ linked(M)

\* what a host that acknowledges an old write has, in each of the stages
Answers ==
    /\ Numbered /\ NeedsOne /\ Alone
    /\ dcsMaster = M => \A r \in Replicas : quorum[r] = {}
    /\ Steady => SteadyAnswers
    /\ Replacing => ReplacingAnswers
    /\ Replaced => ReplacedAnswers

\* What replication does to a history: the next write of the source's, or all.
LEMMA ReplicateNext ==
    ASSUME TypeInv, NEW r \in Hosts, Replicate(r)
    PROVE  /\ \A h \in Hosts : h # r => log'[h] = log[h]
           /\ log'[r] \subseteq log[r] \cup log[src[r]]
           /\ isPrefix(log[r], log[src[r]]) => isPrefix(log'[r], log[src[r]])
<1> DEFINE missing == log[src[r]] \ log[r]
           next == CHOOSE x \in missing : \A y \in missing : x <= y
<1>1. /\ log \in [Hosts -> SUBSET WriteIds] /\ WriteIds \subseteq Nat
      /\ log[r] \subseteq Nat /\ log[src[r]] \subseteq Nat
    BY HostFacts DEF TypeInv, ServerTypes
<1>2. CASE isPrefix(log[r], log[src[r]])
    <2>1. missing # {} /\ missing \in SUBSET Nat
        BY <1>1, <1>2 DEF Replicate, isPrefix
    <2>2. next \in missing /\ \A y \in missing : next <= y
        BY <2>1, Smallest
    <2>3. log' = [log EXCEPT ![r] = log[r] \cup {next}]
        BY <1>2 DEF Replicate
    <2> HIDE DEF next
    <2>4. log'[r] = log[r] \cup {next}
        BY <1>1, <2>3
    <2>5. isPrefix(log[r] \cup {next}, log[src[r]])
        <3> SUFFICES ASSUME NEW x \in log[src[r]] \ (log[r] \cup {next}), NEW y \in log[r] \cup {next}
                     PROVE  y < x
            BY <1>2, <2>2 DEF isPrefix
        <3>1. x \in missing /\ x # next /\ x \in Nat /\ next \in Nat /\ next <= x
            BY <1>1, <2>2
        <3> QED
            BY <1>1, <1>2, <3>1 DEF isPrefix
    <2> QED
        BY <1>1, <2>2, <2>3, <2>4, <2>5
<1>3. CASE ~isPrefix(log[r], log[src[r]])
    BY <1>1, <1>3 DEF Replicate
<1> QED
    BY <1>2, <1>3

\* Writes are made in the order of their numbers, whoever the client writes to.
LEMMA NumberedStep ==
    ASSUME TypeInv, Numbered, [Next]_vars
    PROVE  Numbered'
<1>1. /\ log \in [Hosts -> SUBSET WriteIds] /\ writes \in [WriteIds -> Writes]
      /\ src \in [Hosts -> Hosts] /\ WriteIds = 1 .. MaxWrites /\ MaxWrites \in Nat
    BY SwitchoverAssumption DEF TypeInv, ServerTypes, EnvTypes, WriteIds
<1>2. ASSUME NEW h \in Hosts, NEW n \in WriteIds, ClientWrite(h, n)
      PROVE  Numbered'
    <2>1. /\ log' = [log EXCEPT ![h] = @ \cup {n}]
          /\ writes' = [writes EXCEPT ![n] = [state |-> IF num[h] = 0 THEN "acked" ELSE "waiting",
                                              host |-> h, need |-> num[h]]]
          /\ \A k \in 1 .. n - 1 : writes[k].state # "none"
        BY <1>2 DEF ClientWrite
    <2>2. writes'[n].state # "none" /\ \A k \in WriteIds : k # n => writes'[k] = writes[k]
        BY <1>1, <2>1
    <2>3. \A g \in Hosts : log'[g] \subseteq log[g] \cup {n}
        BY <1>1, <2>1
    <2>4. \A k \in WriteIds : k < n => writes[k].state # "none"
        BY <1>1, <2>1
    <2>5. \A k \in WriteIds : writes[k].state # "none" => writes'[k].state # "none"
        BY <2>2
    <2>6. ASSUME NEW i \in WriteIds, NEW k \in WriteIds, k < i, writes'[i].state # "none"
          PROVE  writes'[k].state # "none"
        BY <2>2, <2>4, <2>5, <2>6 DEF Numbered
    <2>7. ASSUME NEW g \in Hosts, NEW k \in log'[g] PROVE writes'[k].state # "none"
        <3>1. k \in log[g] \/ k = n
            BY <2>3
        <3>2. k \in log[g] => k \in WriteIds
            BY <1>1
        <3> QED
            BY <2>2, <2>5, <3>1, <3>2 DEF Numbered
    <2> QED
        BY <2>6, <2>7 DEF Numbered
<1>3. ASSUME NEW n \in WriteIds, Acknowledge(n)
      PROVE  Numbered'
    <2>1. /\ writes' = [writes EXCEPT ![n].state = "acked"] /\ log' = log
          /\ writes[n].state = "waiting"
        BY <1>3 DEF Acknowledge, serverVars
    <2>2. \A k \in WriteIds : writes'[k].state = "none" <=> writes[k].state = "none"
        BY <1>1, <2>1 DEF Writes
    <2> QED
        BY <1>1, <2>1, <2>2 DEF Numbered
<1>4. ASSUME NEW r \in Hosts, Replicate(r)
      PROVE  Numbered'
    <2>1. writes' = writes
        BY <1>4 DEF Replicate, envVars
    <2>2. ASSUME NEW g \in Hosts
          PROVE  log'[g] = log[g] \/ log'[g] \subseteq log[g] \cup log[src[g]]
        BY <1>4, ReplicateNext
    <2> QED
        BY <1>1, <2>1, <2>2 DEF Numbered
<1>5. CASE UNCHANGED log /\ Dropped
    BY <1>1, <1>5 DEF Numbered, Dropped
<1> QED
    BY <1>2, <1>3, <1>4, <1>5, Histories

\* A link that is up stays up as long as nothing is done to it: what the source
\* writes and what the replica receives keep one a prefix of the other.
LEMMA LinkedStep ==
    ASSUME TypeInv, Numbered, [Next]_vars, NEW h \in Hosts, NEW r \in Hosts,
           src[h] = h, src[r] = h, linked(r),
           src'[h] = h, src'[r] = h, r \notin paused', {r, h} \cap broken' = {}, h \notin offline'
    PROVE  linked(r)'
<1>1. /\ log \in [Hosts -> SUBSET WriteIds] /\ WriteIds \subseteq Nat /\ r # h
      /\ isPrefix(log[r], log[h])
    BY HostFacts DEF TypeInv, ServerTypes, linked, connected, admitted, isMaster
<1>2. connected(r)'
    BY <1>1 DEF connected, admitted, serves, isMaster
<1>3. isPrefix(log'[r], log'[h])
    <2>1. ASSUME NEW g \in Hosts, NEW n \in WriteIds, ClientWrite(g, n)
          PROVE  isPrefix(log'[r], log'[h])
        <3>1. /\ log' = [log EXCEPT ![g] = @ \cup {n}] /\ src[g] = g
              /\ writes[n].state = "none"
            BY <2>1 DEF ClientWrite, writable, isMaster
        <3>2. log'[r] = log[r]
            BY <1>1, <3>1
        <3>3. CASE g = h
            <4>1. log'[h] = log[h] \cup {n} /\ n \in Nat
                BY <1>1, <3>1, <3>3
            <4>2. ASSUME NEW y \in log[r] PROVE y < n
                <5>1. y \in WriteIds /\ y \in Nat /\ writes[y].state # "none"
                    BY <1>1 DEF Numbered
                <5>2. y # n /\ ~(n < y)
                    BY <3>1, <5>1 DEF Numbered
                <5> QED
                    BY <4>1, <5>1, <5>2
            <4> QED
                BY <1>1, <3>2, <4>1, <4>2 DEF isPrefix
        <3>4. CASE g # h
            BY <1>1, <3>1, <3>2, <3>4
        <3> QED
            BY <3>3, <3>4
    <2>2. ASSUME NEW n \in WriteIds, Acknowledge(n)
          PROVE  log' = log
        BY <2>2 DEF Acknowledge, serverVars
    <2>3. ASSUME NEW g \in Hosts, Replicate(g)
          PROVE  isPrefix(log'[r], log'[h])
        <3>1. g # h
            BY <2>3 DEF Replicate, connected, admitted, isMaster
        <3>2. log'[h] = log[h] /\ (g # r => log'[r] = log[r])
            BY <2>3, <3>1, ReplicateNext
        <3>3. g = r => isPrefix(log'[r], log[h])
            BY <1>1, <2>3, ReplicateNext
        <3> QED
            BY <1>1, <3>2, <3>3
    <2> QED
        BY <1>1, <2>1, <2>2, <2>3, Histories
<1> QED
    BY <1>2, <1>3 DEF linked

\* The replicas that a master counts on stay enough.
LEMMA ReadyStep ==
    ASSUME TypeInv, Numbered, [Next]_vars, NEW h \in Hosts, src[h] = h, src'[h] = h, Ready(h),
           quorum'[h] = quorum[h], num'[h] <= Cardinality(quorum[h]), h \notin offline',
           \A r \in quorum[h] : src'[r] = h /\ r \notin paused' /\ {r, h} \cap broken' = {}
    PROVE  Ready(h)'
<1>1. quorum[h] \subseteq Hosts
    BY DEF TypeInv, ServerTypes
<1>2. \A r \in quorum[h] : linked(r)'
    BY <1>1, LinkedStep DEF Ready
<1> QED
    BY <1>2 DEF Ready

\* A pass that writes the active nodes leaves the master with replicas that
\* replicate from it, and waits for half of the nodes (updateActiveNodes).
LEMMA RepairReady ==
    ASSUME TypeInv, NEW repaired \in SUBSET Hosts, NEW kept \in SUBSET (reach \ answers),
           RepairPass(repaired, kept, TRUE),
           NEW master \in Hosts, currentMaster = master, src[master] = master,
           \A r \in kept : src[r] = master /\ linked(r)
    PROVE  /\ Ready(master)' /\ num'[master] = getNumReplicasToWrite(active')
           /\ active' \subseteq reach /\ quorum'[master] = active' \ {master}
           /\ getNumReplicasToWrite(active') <= Cardinality(quorum'[master])
<1> DEFINE seen == {r \in answers \ {master} : src[r] = master /\ linked(r)}
           fine == kept \cup seen
<1>1. /\ src \in [Hosts -> Hosts] /\ num \in [Hosts -> Int]
      /\ reach \subseteq Hosts /\ answers \subseteq reach /\ fine \subseteq Hosts
    BY NumReplicasType, AnswersType DEF TypeInv, ServerTypes, EnvTypes
<1>2. master \in reach /\ master \notin offline
    BY DEF RepairPass, masterFailed
<1>3. /\ repaired \subseteq {r \in answers \ {master} : src[r] # master \/ r \in paused}
      /\ active' = {master} \cup kept \cup seen
      /\ src' = [h \in Hosts |-> IF h \in repaired THEN master ELSE src[h]]
      /\ quorum' = [h \in Hosts |-> CASE h = master /\ TRUE -> ({master} \cup kept \cup seen) \ {master}
                                      [] h \in repaired /\ src[h] # master -> {}
                                      [] OTHER -> quorum[h]]
      /\ num' = [num EXCEPT ![master] = IF TRUE \/ getNumReplicasToWrite({master} \cup kept \cup seen) > @
                                        THEN getNumReplicasToWrite({master} \cup kept \cup seen) ELSE @]
      /\ paused' = paused \ ({master} \cup repaired)
      /\ UNCHANGED <<offline, log, broken>>
    BY Zenon DEF RepairPass
<1> HIDE DEF fine, seen
<1>4. active' = {master} \cup fine /\ master \notin fine
    BY <1>2, <1>3 DEF fine, seen, answers
<1>5. quorum'[master] = fine /\ num'[master] = getNumReplicasToWrite(active')
    <2>1. {master} \cup kept \cup seen = {master} \cup fine
        BY DEF fine
    <2> QED
        BY <1>1, <1>3, <1>4, <2>1
<1>6. ASSUME NEW r \in fine
      PROVE  src'[r] = master /\ linked(r)'
    <2>1. r \in Hosts /\ src[r] = master /\ linked(r) /\ r # master /\ connected(r)
        BY <1>1, <1>4, <1>6 DEF fine, seen, linked
    <2>2. src'[r] = master /\ src'[master] = master /\ r \notin paused'
        BY <1>1, <1>3, <2>1 DEF connected, admitted
    <2>3. connected(r)'
        BY <1>2, <1>3, <2>1, <2>2 DEF connected, admitted, serves, isMaster
    <2> QED
        BY <1>3, <2>1, <2>2, <2>3 DEF linked
<1>7. getNumReplicasToWrite(active') <= Cardinality(fine)
    <2>1. IsFiniteSet(fine) /\ Cardinality(fine) \in Nat
        BY <1>1, NumReplicasType
    <2>2. Cardinality(active') = Cardinality(fine) + 1
        <3>1. active' = fine \cup {master}
            BY <1>4
        <3>2. Cardinality(fine \cup {master}) = Cardinality(fine) + 1
            BY <1>4, <2>1, FS_AddElement
        <3> QED
            BY <3>1, <3>2
    <2> QED
        BY <2>1, <2>2 DEF getNumReplicasToWrite
<1>8. active' \subseteq reach
    BY <1>1, <1>2, <1>4 DEF fine, seen
<1> QED
    BY <1>4, <1>5, <1>6, <1>7, <1>8 DEF Ready

\* A master that clients can write to and whose replicas are enough acknowledges.
LEMMA ReadyAcknowledges ==
    ASSUME NEW h \in Hosts, writable(h), Ready(h)
    PROVE  h \in acknowledging
<1>1. {r \in quorum[h] : src[r] = h /\ linked(r)} = quorum[h]
    BY DEF Ready
<1> QED
    BY <1>1 DEF Ready, acknowledging

\* A client waits for one replica at least: without any it is answered at once.
LEMMA NeedsOneStep ==
    ASSUME TypeInv, NeedsOne, [Next]_vars
    PROVE  NeedsOne'
<1>1. \A h \in Hosts : num[h] \in Nat
    BY NumReplicasType DEF TypeInv, ServerTypes
<1> QED
    BY <1>1, WaitingStep DEF NeedsOne

\* Only a pass gives a host replicas to wait for, and only the master of the shard.
LEMMA QuorumStep ==
    ASSUME TypeInv, [Next]_vars, NEW h \in Hosts, quorum'[h] # quorum[h], quorum'[h] # {}
    PROVE  /\ h = currentMaster
           /\ \E repaired \in SUBSET Hosts, kept \in SUBSET (active \ answers) :
                  RepairPass(repaired, kept, TRUE)
<1> DEFINE Same == quorum'[h] = quorum[h] \/ quorum'[h] = {}
<1> USE DEF serverVars, dcsVars, envVars
<1>1. quorum \in [Hosts -> SUBSET Hosts]
    BY DEF TypeInv, ServerTypes
<1>2. ~(WaitPass \/ FailoverPass \/ NotApproved \/ TimedOut \/ BeginSwitchover)
    BY DEF WaitPass, FailoverPass, NotApproved, TimedOut, RejectSwitchover, BeginSwitchover
<1>3. ~(\/ waitPoisonPill("firstWait", "pause") \/ waitPoisonPill("secondWait", "setNum")
        \/ Crash \/ NewManager \/ CliSwitchFrom \/ CliForceSwitch \/ CliAbort \/ UNCHANGED vars)
    BY DEF waitPoisonPill, Crash, NewManager, CliSwitchFrom, CliForceSwitch, CliAbort, CliSwitch,
           vars
<1>4. ~(\/ startSwitchover \/ InitProgress \/ ReadOnly \/ FirstPill \/ Pause
        \/ (\E mostRecent, newMaster \in Hosts : Choose(mostRecent, newMaster))
        \/ ChooseFails \/ ChosenBefore \/ WaitForCatchup \/ Refresh)
    BY DEF startSwitchover, InitProgress, ReadOnly, FirstPill, issuePoisonPill, Pause, Choose,
           ChooseFails, ChosenBefore, WaitForCatchup, Refresh
<1>5. ~(\/ SetMaster \/ SecondPill \/ SetNumQuorumReplicas \/ promote \/ SavePhase6
        \/ SetActiveNodes \/ OpenNewMaster \/ Turned \/ CheckAborted \/ failSwitchover
        \/ finishSwitchover)
    BY DEF SetMaster, SecondPill, issuePoisonPill, SetNumQuorumReplicas, promote, SavePhase6,
           SetActiveNodes, OpenNewMaster, Turned, CheckAborted, failSwitchover, finishSwitchover
<1>6. ~Attach
    <2> SUFFICES ASSUME Attach PROVE FALSE
        OBVIOUS
    <2>1. \/ UNCHANGED quorum
          \/ quorum' = [quorum EXCEPT ![sw.newMaster] = IF src[sw.newMaster] = sw.mostRecent
                                                       THEN @ ELSE {}]
        BY DEF Attach
    <2> QED
        BY <1>1, <2>1
<1>7. \A hs, master : repairReplica(hs, master) => Same
    BY <1>1 DEF repairReplica
<1>8. ~TurnReplicas
    BY <1>7 DEF TurnReplicas
<1>9. \A g \in Hosts : ~repairLocalNode(g)
    BY <1>7 DEF repairLocalNode, OpenMaster, OpenReplica
<1>10. \A g \in Hosts : ~(\/ applyPoisonPill(g) \/ Replicate(g) \/ NetworkChange(g)
                          \/ CliSwitchTo(g) \/ CliForceActive(g))
    BY DEF applyPoisonPill, Replicate, NetworkChange, CliSwitchTo, CliForceActive, CliSwitch
<1>11. \A n \in WriteIds : ~Acknowledge(n) /\ \A g \in Hosts : ~ClientWrite(g, n)
    BY DEF Acknowledge, ClientWrite
<1>12. PICK repaired \in SUBSET Hosts, kept \in SUBSET (active \ answers), update \in BOOLEAN :
           RepairPass(repaired, kept, update)
    BY <1>2, <1>3, <1>4, <1>5, <1>6, <1>8, <1>9, <1>10, <1>11
    DEF Next, stateManager, performSwitchover
<1>13. h = currentMaster /\ update
    <2> DEFINE nodes == IF ~update THEN active
                        ELSE {currentMaster} \cup kept
                             \cup {r \in answers \ {currentMaster} : src[r] = currentMaster /\ linked(r)}
    <2>1. quorum' = [g \in Hosts |-> CASE g = currentMaster /\ update -> nodes \ {currentMaster}
                                        [] g \in repaired /\ src[g] # currentMaster -> {}
                                        [] OTHER -> quorum[g]]
        BY <1>12, Zenon DEF RepairPass
    <2> HIDE DEF nodes
    <2> QED
        BY <1>1, <2>1
<1> QED
    BY <1>12, <1>13

\* What can happen in the first stage.
LEMMA SteadyMoves ==
    ASSUME TypeInv, Net, Steady, [Next]_vars, Limited'
    PROVE  \/ \E repaired \in SUBSET Hosts, kept \in SUBSET (active \ answers), update \in BOOLEAN :
                  RepairPass(repaired, kept, update)
           \/ WaitPass \/ NewManager \/ CliSwitchFrom \/ UNCHANGED vars
           \/ \E h \in Hosts : Replicate(h) \/ NetworkChange(h) \/ CliSwitchTo(h)
           \/ \E h \in Hosts, n \in WriteIds : ClientWrite(h, n)
           \/ \E n \in WriteIds : Acknowledge(n)
<1>1. ~(FailoverPass \/ NotApproved \/ TimedOut \/ BeginSwitchover)
    BY SteadyApproves DEF NotApproved, TimedOut, RejectSwitchover, BeginSwitchover, Steady
<1>2. ~performSwitchover /\ ~Crash
    BY NeedsManager DEF Steady
<1>3. \A h \in Hosts : ~applyPoisonPill(h) /\ ~repairLocalNode(h)
    BY HostFacts DEF applyPoisonPill, repairLocalNode, Steady
<1>4. ~CliAbort /\ ~CliForceSwitch /\ \A h \in Hosts : ~CliForceActive(h)
    BY NetStep DEF CliAbort, Steady
<1> QED
    BY <1>1, <1>2, <1>3, <1>4 DEF Next, stateManager

\* A replica is linked unless the network is in the way.
LEMMA SteadyLinks ==
    ASSUME TypeInv, Steady, NEW r \in Hosts
    PROVE  linked(r) <=> r # M /\ {r, M} \cap broken = {}
<1>1. /\ M \in Hosts /\ src[r] = M /\ src[M] = M /\ paused = {} /\ offline = {}
      /\ log[r] \in SUBSET WriteIds /\ log[M] \in SUBSET WriteIds
      /\ Segment(log[r]) /\ Segment(log[M]) /\ log[r] \subseteq log[M]
    BY HostFacts DEF Steady, Stream, OneSource, TypeInv, ServerTypes
<1>2. isPrefix(log[r], log[M])
    BY <1>1, SegmentsNest
<1> QED
    BY <1>1, <1>2 DEF linked, connected, admitted, serves, isMaster

\* In an undisturbed shard every host is an active node.
LEMMA UndisturbedActive ==
    ASSUME TypeInv, Net, Steady, SteadyAnswers, Undisturbed
    PROVE  reach = Hosts /\ broken = {} /\ active = Hosts
<1>1. reach = Hosts /\ broken = {}
    BY DEF Net, Undisturbed
<1>2. ASSUME NEW r \in Hosts PROVE r \in active
    BY <1>1, SteadyLinks DEF SteadyAnswers, Steady
<1> QED
    BY <1>1, <1>2 DEF TypeInv, DcsTypes

\* Fewer nodes, no more replicas to wait for.
LEMMA FewerNodes ==
    ASSUME NEW a \in SUBSET Hosts, NEW b \in SUBSET a
    PROVE  getNumReplicasToWrite(b) <= getNumReplicasToWrite(a)
<1>1. /\ IsFiniteSet(a) /\ Cardinality(a) \in Nat /\ Cardinality(b) \in Nat
      /\ Cardinality(b) <= Cardinality(a)
    BY NumReplicasType, FS_Subset
<1> QED
    BY <1>1 DEF getNumReplicasToWrite

\* The active nodes of the first stage only become fewer, and the replicas to wait
\* for with them: who waits for more than is needed now is not kept waiting.
LEMMA SteadyRepairAnswers ==
    ASSUME TypeInv, Net, Steady, Steady', SteadyAnswers, [Next]_vars,
           NEW repaired \in SUBSET Hosts, NEW kept \in SUBSET (active \ answers),
           NEW update \in BOOLEAN, RepairPass(repaired, kept, update)
    PROVE  SteadyAnswers'
<1>1. /\ M \in Hosts /\ src \in [Hosts -> Hosts] /\ num \in [Hosts -> Int] /\ TypeInv
      /\ active \subseteq Hosts /\ reach \subseteq Hosts
      /\ \A n \in WriteIds : writes[n].need \in Int
    BY HostFacts, NumReplicasType DEF TypeInv, ServerTypes, DcsTypes, EnvTypes, Writes
<1>2. currentMaster = M /\ answers = reach
    BY PathStands, StageAnswers DEF Steady, isMaster, TypeInv, EnvTypes
<1> DEFINE nodes == IF ~update THEN active
                    ELSE {M} \cup kept \cup {r \in answers \ {M} : src[r] = M /\ linked(r)}
<1>3. /\ update \/ local \in offline
      /\ active' = nodes
      /\ num' = [num EXCEPT ![M] = IF update \/ getNumReplicasToWrite(nodes) > @
                                   THEN getNumReplicasToWrite(nodes) ELSE @]
      /\ ro' = (ro \ {M}) \cup (answers \ {M})
      /\ dropClients({h \in repaired : src[h] # M})
      /\ UNCHANGED <<reach, broken, spent>>
    BY <1>2, Zenon DEF RepairPass
<1>4. update = TRUE
    BY <1>3 DEF Steady
<1>5. /\ active' = {M} \cup kept \cup {r \in reach \ {M} : src[r] = M /\ linked(r)}
      /\ num'[M] = getNumReplicasToWrite(active')
    BY <1>1, <1>2, <1>3, <1>4
<1>6. active' \subseteq active
    BY <1>1, <1>5 DEF Steady, SteadyAnswers
<1>7. num'[M] <= num[M] /\ num'[M] \in Int
    BY <1>1, <1>5, <1>6, FewerNodes, NumReplicasType DEF SteadyAnswers
<1>8. {r \in reach' : linked(r)'} \subseteq active'
    <2> SUFFICES ASSUME NEW r \in reach', linked(r)'
                 PROVE  r \in active'
        OBVIOUS
    <2>1. r # M /\ {r, M} \cap broken = {} /\ r \in Hosts
        <3>1. r \in Hosts /\ src'[r] = M /\ src'[M] = M
            BY <1>1, <1>3 DEF Steady
        <3> QED
            BY <1>3, <3>1 DEF linked, connected, admitted, isMaster
    <2>2. linked(r) /\ src[r] = M
        BY <2>1, SteadyLinks DEF Steady
    <2> QED
        BY <1>3, <1>5, <2>1, <2>2
<1>9. ASSUME NEW n \in WriteIds, Waiting(n, M)'
      PROVE  writes'[n].need >= num'[M]
    <2>1. Waiting(n, M) /\ writes'[n].need = writes[n].need
        BY <1>3, <1>9, DropClients DEF Dropped, Waiting
    <2> QED
        BY <1>1, <1>7, <2>1 DEF SteadyAnswers
<1>10. ASSUME Undisturbed'
       PROVE  Ready(M)'
    <2>1. reach = Hosts
        BY <1>3, <1>10, UndisturbedActive DEF Undisturbed
    <2>2. kept = {} /\ RepairPass(repaired, {}, TRUE)
        BY <1>1, <1>2, <1>4, <2>1
    <2>3. src[M] = M
        BY <1>1 DEF Steady
    <2> QED
        BY <1>1, <1>2, <2>2, <2>3, RepairReady
<1> QED
    BY <1>3, <1>5, <1>8, <1>9, <1>10 DEF SteadyAnswers

\* The first stage: a client that waits does so on the initial master, for at least
\* as many replicas as the next one will.
LEMMA SteadyAnswersStep ==
    ASSUME TypeInv, Net, Steady, Steady', Numbered, SteadyAnswers, [Next]_vars, Limited'
    PROVE  SteadyAnswers'
<1> USE DEF serverVars, dcsVars, envVars
<1>1. /\ M \in Hosts /\ src \in [Hosts -> Hosts] /\ num[M] \in Int /\ reach \subseteq Hosts
      /\ quorum[M] \subseteq Hosts
    BY HostFacts, NumReplicasType DEF TypeInv, ServerTypes, EnvTypes
<1>2. ASSUME NEW repaired \in SUBSET Hosts, NEW kept \in SUBSET (active \ answers),
             NEW update \in BOOLEAN, RepairPass(repaired, kept, update)
      PROVE  SteadyAnswers'
    BY <1>2, SteadyRepairAnswers
<1>3. ASSUME UNCHANGED <<src, ro, paused, num, quorum, active>>
      PROVE  SteadyAnswers'
    <2>1. \/ UNCHANGED <<reach, broken, spent["faults"], spent["switches"]>>
          \/ Undisturbed /\ ~Undisturbed'
        BY NetStep DEF Undisturbed
    <2>2. {r \in reach' : linked(r)'} \subseteq active'
        <3> SUFFICES ASSUME NEW r \in reach', linked(r)'
                     PROVE  r \in active
            BY <1>3
        <3>1. CASE Undisturbed
            <4>1. reach' \subseteq Hosts
                BY EnvStep DEF EnvTypes
            <4> QED
                BY <3>1, <4>1, UndisturbedActive
        <3>2. CASE ~Undisturbed
            <4>1. UNCHANGED <<reach, broken>>
                BY <2>1, <3>2
            <4>2. r \in Hosts /\ src[r] = M
                BY <1>1, <4>1 DEF Steady
            <4>3. r # M /\ {r, M} \cap broken = {}
                BY <1>1, <1>3, <4>1, <4>2 DEF linked, connected, admitted, isMaster, Steady
            <4> QED
                BY <4>1, <4>2, <4>3, SteadyLinks DEF SteadyAnswers
        <3> QED
            BY <3>1, <3>2
    <2>3. ASSUME NEW n \in WriteIds, Waiting(n, M)'
          PROVE  writes'[n].need >= num'[M]
        <3>1. \/ Waiting(n, M) /\ writes'[n].need = writes[n].need
              \/ writes'[n].need = num[M]
            BY <2>3, WaitingStep DEF Waiting
        <3> QED
            BY <1>1, <1>3, <3>1 DEF SteadyAnswers
    <2>4. ASSUME Undisturbed'
          PROVE  Ready(M)'
        <3>1. Undisturbed /\ Ready(M) /\ broken' = {}
            BY <2>1, <2>4, UndisturbedActive DEF SteadyAnswers, Undisturbed
        <3>2. \A r \in quorum[M] : src'[r] = M /\ r \notin paused' /\ {r, M} \cap broken' = {}
            BY <1>1, <1>3, <3>1 DEF Steady
        <3>3. src[M] = M /\ src'[M] = M /\ num'[M] <= Cardinality(quorum[M])
            BY <1>1, <1>3, <3>1 DEF Steady, Ready
        <3>4. M \notin offline'
            BY DEF Steady
        <3> QED
            BY <1>1, <1>3, <3>1, <3>2, <3>3, <3>4, ReadyStep
    <2> QED
        BY <1>3, <2>2, <2>3, <2>4 DEF SteadyAnswers
<1>4. ASSUME WaitPass \/ NewManager \/ UNCHANGED vars
      PROVE  SteadyAnswers'
    BY <1>3, <1>4 DEF WaitPass, NewManager, vars
<1>5. ~(CliSwitchFrom \/ \E h \in Hosts : CliSwitchTo(h))
    BY DEF CliSwitchFrom, CliSwitchTo, CliSwitch, Switch, Steady
<1>6. ASSUME NEW h \in Hosts,
             Replicate(h) \/ NetworkChange(h) \/ \E n \in WriteIds : ClientWrite(h, n)
      PROVE  SteadyAnswers'
    BY <1>3, <1>6 DEF Replicate, NetworkChange, ClientWrite
<1>7. ASSUME NEW n \in WriteIds, Acknowledge(n)
      PROVE  SteadyAnswers'
    BY <1>3, <1>7 DEF Acknowledge
<1> QED
    BY <1>2, <1>4, <1>5, <1>6, <1>7, SteadyMoves

\* The end of the first stage: a request for a switchover finds the master with its
\* replicas.
LEMMA SteadyEndAnswers ==
    ASSUME TypeInv, Net, Steady, Replacing', Numbered, SteadyAnswers, [Next]_vars, Limited'
    PROVE  ReplacingAnswers'
<1> USE DEF serverVars, dcsVars, envVars
<1>1. M \in Hosts /\ quorum[M] \subseteq Hosts
    BY HostFacts DEF TypeInv, ServerTypes
<1>2. SUFFICES ASSUME Planned'
               PROVE  M \notin ro' /\ Ready(M)'
    BY DEF ReplacingAnswers
<1>3. Undisturbed /\ (CliSwitchFrom \/ \E h \in Hosts : CliSwitchTo(h))
    BY <1>2, NetStep DEF Planned, Steady
<1>4. UNCHANGED <<src, ro, paused, offline, num, quorum, reach, broken>>
    BY <1>3 DEF CliSwitchFrom, CliSwitchTo, CliSwitch
<1>5. Ready(M) /\ broken' = {} /\ M \notin ro'
    BY <1>3, <1>4, UndisturbedActive DEF SteadyAnswers
<1>6. \A r \in quorum[M] : src'[r] = M /\ r \notin paused' /\ {r, M} \cap broken' = {}
    BY <1>1, <1>4, <1>5 DEF Steady
<1>7. src[M] = M /\ src'[M] = M /\ num'[M] <= Cardinality(quorum[M]) /\ M \notin offline'
    BY <1>1, <1>4, <1>5 DEF Steady, Ready
<1> QED
    BY <1>1, <1>4, <1>5, <1>6, <1>7, ReadyStep

\* As long as the master of a planned switchover takes writes, only a pass touches
\* its replicas; it is closed by performSwitchover.
LEMMA PlannedMoves ==
    ASSUME TypeInv, Net, Replacing, Planned, [Next]_vars, Limited'
    PROVE  \/ \E repaired \in SUBSET Hosts, kept \in SUBSET (active \ answers), update \in BOOLEAN :
                  RepairPass(repaired, kept, update)
           \/ /\ UNCHANGED ro \/ ReadOnly
              /\ M \notin ro => UNCHANGED <<src, paused, quorum, num>>
<1> DEFINE Same == /\ UNCHANGED ro \/ ReadOnly
                   /\ M \notin ro => UNCHANGED <<src, paused, quorum, num>>
<1> USE DEF serverVars, dcsVars, envVars
<1>1. ~Down /\ pill.host = NoHost /\ offline = {}
    BY HostFacts DEF Planned, Down, Replicas, Replacing, Pills
<1>2. M \notin ro => mgr.pc \notin Closed
    BY <1>1 DEF Replacing, Attempt, Fenced
<1>3. ASSUME WaitPass \/ FailoverPass \/ NotApproved \/ TimedOut \/ BeginSwitchover
      PROVE  Same
    BY <1>3 DEF WaitPass, FailoverPass, NotApproved, TimedOut, RejectSwitchover, BeginSwitchover
<1>4. ASSUME startSwitchover \/ InitProgress \/ ReadOnly \/ FirstPill
             \/ waitPoisonPill("firstWait", "pause")
      PROVE  Same
    BY <1>4 DEF startSwitchover, InitProgress, ReadOnly, FirstPill, issuePoisonPill, waitPoisonPill
<1>5. ASSUME \/ Pause \/ ChooseFails \/ ChosenBefore \/ Attach
             \/ (\E mostRecent, newMaster \in Hosts : Choose(mostRecent, newMaster))
      PROVE  Same
    <2>1. UNCHANGED ro /\ mgr.pc \in Closed
        BY <1>5 DEF Pause, ChooseFails, ChosenBefore, Attach, Choose, At, Closed
    <2> QED
        BY <1>2, <2>1
<1>6. ASSUME \/ WaitForCatchup \/ Refresh \/ SetMaster \/ CheckAborted \/ failSwitchover \/ Crash
             \/ NewManager \/ CliAbort \/ UNCHANGED vars
      PROVE  Same
    BY <1>6
    DEF WaitForCatchup, Refresh, SetMaster, CheckAborted, failSwitchover, Crash, NewManager,
        CliAbort, vars
<1>7. \A h \in Hosts : ~applyPoisonPill(h) /\ ~repairLocalNode(h)
    BY <1>1, HostFacts DEF applyPoisonPill, repairLocalNode
<1>8. ASSUME NEW h \in Hosts, Replicate(h) \/ \E n \in WriteIds : ClientWrite(h, n)
      PROVE  Same
    BY <1>8 DEF Replicate, ClientWrite
<1>9. ASSUME NEW n \in WriteIds, Acknowledge(n)
      PROVE  Same
    BY <1>9 DEF Acknowledge
<1>10. /\ ~CliForceSwitch /\ ~CliSwitchFrom
       /\ \A h \in Hosts : ~CliForceActive(h) /\ ~NetworkChange(h) /\ ~CliSwitchTo(h)
    BY Disturbed DEF Replacing
<1> HIDE DEF Same
<1>11. \/ Same
       \/ \E repaired \in SUBSET Hosts, kept \in SUBSET (active \ answers), update \in BOOLEAN :
              RepairPass(repaired, kept, update)
    BY <1>3, <1>4, <1>5, <1>6, <1>7, <1>8, <1>9, <1>10, ReplacingCalls
    DEF Next, stateManager, performSwitchover
<1> QED
    BY <1>11 DEF Same

\* The second stage: a planned switchover disconnects the clients of the master
\* before it takes its replicas away (SetReadOnly of phase 1).
LEMMA ReplacingAnswersStep ==
    ASSUME TypeInv, Net, Replacing, Replacing', Numbered, ReplacingAnswers, [Next]_vars, Limited'
    PROVE  ReplacingAnswers'
<1> USE DEF serverVars, dcsVars, envVars
<1>1. /\ M \in Hosts /\ quorum[M] \subseteq Hosts /\ num[M] \in Int /\ src[M] = M /\ src'[M] = M
      /\ currentMaster = M /\ answers = reach
      /\ UNCHANGED <<reach, broken>> /\ Planned' = Planned
    BY ReplacingFacts, NumReplicasType, Disturbed, StageAnswers DEF TypeInv, ServerTypes, Replacing, OneSource
<1>2. SUFFICES ASSUME Planned
               PROVE  IF M \in ro' THEN \A n \in WriteIds : ~Waiting(n, M)' ELSE Ready(M)'
    BY <1>1 DEF ReplacingAnswers
<1>3. ASSUME NEW repaired \in SUBSET Hosts, NEW kept \in SUBSET (active \ answers),
             NEW update \in BOOLEAN, RepairPass(repaired, kept, update)
      PROVE  M \notin ro' /\ Ready(M)'
    <2>1. kept = {}
        BY <1>1, <1>2 DEF Planned, TypeInv, DcsTypes
    <2>2. update = TRUE
        BY <1>2, <1>3 DEF RepairPass, Replacing, Pills
    <2>3. Ready(M)'
        BY <1>1, <1>3, <2>1, <2>2, RepairReady
    <2> QED
        BY <1>1, <1>3, <2>3 DEF RepairPass
<1>4. ASSUME UNCHANGED ro \/ ReadOnly, M \notin ro => UNCHANGED <<src, paused, quorum, num>>
      PROVE  IF M \in ro' THEN \A n \in WriteIds : ~Waiting(n, M)' ELSE Ready(M)'
    <2>1. CASE M \in ro
        <3>1. M \in ro'
            BY <1>4, <2>1 DEF ReadOnly
        <3>2. \A n \in WriteIds : ~Waiting(n, M) /\ ~ClientWrite(M, n)
            BY <1>2, <2>1 DEF ReplacingAnswers, ClientWrite, writable
        <3> QED
            BY <3>1, <3>2, WaitingStep DEF Waiting
    <2>2. CASE M \notin ro /\ M \in ro'
        <3>1. ReadOnly /\ mgr.oldMaster = M /\ ~mgr.sw.auto
            BY <1>2, <1>4, <2>2 DEF ReadOnly, At, Replacing, Attempt, Sound
        <3> DEFINE done == mgr.act \cap mgr.snap \cap answers
        <3>2. ro' = ro \cup done /\ dropClients(done \cap {mgr.oldMaster})
            BY <2>2, <3>1 DEF ReadOnly, sw
        <3>3. M \in done \cap {mgr.oldMaster}
            BY <2>2, <3>1, <3>2
        <3> HIDE DEF done
        <3> QED
            BY <2>2, <3>2, <3>3, DropClients DEF Waiting
    <2>3. CASE M \notin ro /\ M \notin ro'
        <3>1. Ready(M) /\ broken' = {} /\ UNCHANGED <<src, paused, quorum, num>>
            BY <1>1, <1>2, <1>4, <2>3 DEF ReplacingAnswers, Planned
        <3>2. \A r \in quorum[M] : src'[r] = M /\ r \notin paused' /\ {r, M} \cap broken' = {}
            BY <3>1 DEF Ready, linked, connected, admitted
        <3>3. num'[M] <= Cardinality(quorum[M]) /\ M \notin offline'
            BY <1>1, <1>2, <3>1 DEF Ready, Replacing, Pills
        <3>4. Ready(M)'
            BY <1>1, <3>1, <3>2, <3>3, ReadyStep
        <3> QED
            BY <2>3, <3>4
    <2> QED
        BY <2>1, <2>2, <2>3
<1> QED
    BY <1>2, <1>3, <1>4, PlannedMoves

\* Nobody has waited on the new master when the path master is written.
LEMMA ReplacingEndAnswers ==
    ASSUME TypeInv, Net, Replacing, Replaced', [Next]_vars, Limited',
           \A r \in Replicas : quorum[r] = {}
    PROVE  ReplacedAnswers'
<1> USE DEF serverVars, dcsVars, envVars
<1>1. SetMaster
    BY ReplacingDcs DEF Replaced
<1>2. /\ mgr.pc = "setMaster" /\ dcsMaster' = mgr.sw.newMaster
      /\ mgr' = [mgr EXCEPT !.pc = "secondPill"] /\ UNCHANGED <<quorum, writes>>
    BY <1>1 DEF SetMaster, At, sw, Goto
<1>3. mgr'.pc = "secondPill"
    BY <1>2 DEF TypeInv, MgrTypes, Managers
<1>4. dcsMaster' \in Replicas /\ dcsMaster' # M
    <2>1. dcsMaster' \in Hosts
        BY DcsStep DEF DcsTypes
    <2> QED
        BY <2>1 DEF Replaced, Replicas
<1>5. \A n \in WriteIds : writes'[n].state = "waiting" => writes'[n].host # dcsMaster'
    BY <1>2, <1>4 DEF Replacing, OneSource
<1>6. quorum'[dcsMaster'] = {}
    BY <1>2, <1>4
<1> QED
    BY <1>3, <1>5, <1>6 DEF ReplacedAnswers, Waiting, Settled

\* quorum-replicas-to-write is half of some hosts of the shard, or nothing.
LEMMA NumStep ==
    ASSUME TypeInv, [Next]_vars, NEW h \in Hosts
    PROVE  \/ num'[h] \in {num[h], 0}
           \/ \E nodes \in SUBSET Hosts : num'[h] = getNumReplicasToWrite(nodes)
<1> DEFINE Half == \/ num'[h] \in {num[h], 0}
                   \/ \E nodes \in SUBSET Hosts : num'[h] = getNumReplicasToWrite(nodes)
<1> USE DEF serverVars, dcsVars, envVars
<1>1. num \in [Hosts -> 0 .. Cardinality(Hosts)] /\ active \subseteq Hosts /\ mgr \in Managers
    BY DEF TypeInv, ServerTypes, DcsTypes, MgrTypes
<1>2. UNCHANGED num => Half
    OBVIOUS
<1>3. ASSUME NEW g, NEW nodes \in SUBSET Hosts, NEW x \in {num[g], 0, getNumReplicasToWrite(nodes)},
             num' = [num EXCEPT ![g] = x]
      PROVE  Half
    BY <1>1, <1>3
<1>4. ASSUME NEW repaired \in SUBSET Hosts, NEW kept \in SUBSET (active \ answers),
             NEW update \in BOOLEAN, RepairPass(repaired, kept, update)
      PROVE  Half
    <2>1. active' \subseteq Hosts
        BY DcsStep DEF DcsTypes
    <2>2. num' = [num EXCEPT ![currentMaster] =
                      IF update \/ getNumReplicasToWrite(active') > @
                      THEN getNumReplicasToWrite(active') ELSE @]
        BY <1>4 DEF RepairPass
    <2> QED
        BY <1>3, <2>1, <2>2
<1>5. ASSUME SetNumQuorumReplicas PROVE Half
    BY <1>1, <1>2, <1>3, <1>5 DEF SetNumQuorumReplicas, Managers
<1>6. ASSUME OpenNewMaster PROVE Half
    BY <1>1, <1>2, <1>3, <1>6 DEF OpenNewMaster, Managers
<1>7. ASSUME NEW g \in Hosts, repairLocalNode(g) PROVE Half
    BY <1>1, <1>2, <1>3, <1>7 DEF repairLocalNode, OpenMaster, OpenReplica
<1>8. ASSUME \/ WaitPass \/ FailoverPass \/ NotApproved \/ TimedOut \/ BeginSwitchover \/ Crash
             \/ NewManager \/ CliSwitchFrom \/ CliForceSwitch \/ CliAbort \/ UNCHANGED vars
             \/ waitPoisonPill("firstWait", "pause") \/ waitPoisonPill("secondWait", "setNum")
      PROVE  Half
    BY <1>2, <1>8
    DEF WaitPass, FailoverPass, NotApproved, TimedOut, RejectSwitchover, BeginSwitchover, Crash,
        NewManager, CliSwitchFrom, CliForceSwitch, CliAbort, CliSwitch, waitPoisonPill, vars
<1>9. ASSUME \/ startSwitchover \/ InitProgress \/ ReadOnly \/ FirstPill \/ Pause
             \/ (\E mostRecent, newMaster \in Hosts : Choose(mostRecent, newMaster))
             \/ ChooseFails \/ ChosenBefore \/ Attach \/ WaitForCatchup \/ Refresh
      PROVE  Half
    BY <1>2, <1>9
    DEF startSwitchover, InitProgress, ReadOnly, FirstPill, issuePoisonPill, Pause, Choose,
        ChooseFails, ChosenBefore, Attach, WaitForCatchup, Refresh
<1>10. ASSUME \/ SetMaster \/ SecondPill \/ promote \/ SavePhase6 \/ SetActiveNodes
              \/ TurnReplicas \/ Turned \/ CheckAborted \/ failSwitchover \/ finishSwitchover
       PROVE  Half
    BY <1>2, <1>10
    DEF SetMaster, SecondPill, issuePoisonPill, promote, SavePhase6, SetActiveNodes, TurnReplicas,
        Turned, CheckAborted, failSwitchover, finishSwitchover
<1>11. ASSUME NEW g \in Hosts,
              \/ applyPoisonPill(g) \/ Replicate(g) \/ NetworkChange(g) \/ CliSwitchTo(g)
              \/ CliForceActive(g) \/ (\E n \in WriteIds : ClientWrite(g, n))
       PROVE  Half
    BY <1>2, <1>11
    DEF applyPoisonPill, Replicate, NetworkChange, CliSwitchTo, CliForceActive, CliSwitch, ClientWrite
<1>12. ASSUME NEW n \in WriteIds, Acknowledge(n) PROVE Half
    BY <1>2, <1>12 DEF Acknowledge
<1> HIDE DEF Half
<1>13. Half
    BY <1>4, <1>5, <1>6, <1>7, <1>8, <1>9, <1>10, <1>11, <1>12
    DEF Next, stateManager, performSwitchover
<1> QED
    BY <1>13 DEF Half

\* A host that is the whole shard waits for nobody.
LEMMA AloneStep ==
    ASSUME TypeInv, Alone, [Next]_vars
    PROVE  Alone'
<1> SUFFICES ASSUME Replicas = {}
             PROVE  num'[M] = 0 /\ \A n \in WriteIds : writes'[n].state # "waiting"
    BY DEF Alone
<1>1. Hosts = {M} /\ M \in Hosts
    BY HostFacts DEF Replicas
<1>2. ASSUME NEW nodes \in SUBSET Hosts PROVE getNumReplicasToWrite(nodes) = 0
    <2>1. nodes = {} \/ nodes = {M}
        BY <1>1
    <2>2. Cardinality(nodes) \in {0, 1}
        BY <2>1, FS_EmptySet, FS_Singleton
    <2> QED
        BY <2>2 DEF getNumReplicasToWrite
<1>3. num'[M] = 0
    BY <1>1, <1>2, NumStep DEF Alone
<1>4. \A n \in WriteIds : writes'[n].state # "waiting"
    BY <1>1, WaitingStep DEF Alone
<1> QED
    BY <1>3, <1>4

\* The third stage: whoever waits on the new master waits on one that is open, and
\* the replicas it counts on, once a pass has named them, keep replicating from it.
LEMMA ReplacedAnswersStep ==
    ASSUME TypeInv, Net, Replaced, Numbered, ReplacedAnswers, [Next]_vars, Limited', ~Crash
    PROVE  ReplacedAnswers'
<1>0. PICK new \in Hosts : dcsMaster = new
    BY ReplacedFacts
<1> USE DEF serverVars, dcsVars, envVars
<1>1. /\ M \in Hosts /\ new \in Hosts /\ new # M /\ new \in reach /\ reach \subseteq Hosts
      /\ src \in [Hosts -> Hosts] /\ quorum \in [Hosts -> SUBSET Hosts] /\ num \in [Hosts -> Int]
      /\ mgr \in Managers /\ active \subseteq Hosts
      /\ mgr.pc = "idle" => currentMaster = new /\ src[new] = new
      /\ mgr.pc # "idle" => mgr.sw.newMaster = new
    BY <1>0, ReplacedFacts, NumReplicasType
    DEF TypeInv, ServerTypes, DcsTypes, Replaced, Promotion, Manager, After
<1>2. UNCHANGED <<reach, broken>> /\ dcsMaster' = new /\ new \notin offline'
    BY <1>0, <1>1, Disturbed, ReplacedDcs DEF Replaced
<1>3. ASSUME new \notin ro => new \notin ro', NEW n \in WriteIds, Waiting(n, new)'
      PROVE  new \notin ro'
    <2>1. Waiting(n, new) \/ ClientWrite(new, n)
        BY <1>3, WaitingStep DEF Waiting
    <2> QED
        BY <1>0, <1>3, <2>1 DEF ReplacedAnswers, ClientWrite, writable
\* a step that leaves the manager and the replicas of the new master alone
<1>4. ASSUME UNCHANGED <<mgr, active>>, new \notin ro => new \notin ro',
             quorum'[new] = quorum[new], src'[new] = src[new],
             \A r \in quorum[new] : src'[r] = src[r] /\ r \notin paused',
             quorum[new] # {} => num'[new] <= Cardinality(quorum[new]),
             src[M] = new /\ linked(M) => src'[M] = src[M] /\ M \notin paused'
      PROVE  ReplacedAnswers'
    <2>1. ASSUME quorum[new] # {}
          PROVE  Ready(new)'
        <3>1. /\ Ready(new) /\ mgr.pc = "idle" /\ src[new] = new
              /\ \A r \in quorum[new] : src[r] = new /\ {r, new} \cap broken = {}
            BY <1>0, <1>1, <2>1 DEF ReplacedAnswers, Ready, linked, connected, admitted
        <3>2. \A r \in quorum[new] : src'[r] = new /\ r \notin paused' /\ {r, new} \cap broken' = {}
            BY <1>2, <1>4, <3>1
        <3>3. src'[new] = new /\ num'[new] <= Cardinality(quorum[new])
            BY <1>4, <2>1, <3>1
        <3> QED
            BY <1>1, <1>2, <1>4, <3>1, <3>2, <3>3, ReadyStep
    <2>2. \A n \in WriteIds : Waiting(n, new)' => new \notin ro'
        BY <1>3, <1>4
    <2>3. ASSUME mgr.pc \in Settled, M \in active
          PROVE  mgr'.pc = "idle" /\ src'[M] = dcsMaster' /\ linked(M)'
        <3>1. mgr.pc = "idle" /\ src[M] = new /\ linked(M)
            BY <1>0, <2>3 DEF ReplacedAnswers
        <3>2. {M, new} \cap broken' = {}
            BY <1>2, <3>1 DEF linked, connected, admitted
        <3> QED
            BY <1>1, <1>2, <1>4, <3>1, <3>2, LinkedStep
    <2> QED
        BY <1>0, <1>2, <1>4, <2>1, <2>2, <2>3 DEF ReplacedAnswers, Ready, Waiting
<1>5. ASSUME NEW repaired \in SUBSET Hosts, NEW kept \in SUBSET (active \ answers),
             NEW update \in BOOLEAN, RepairPass(repaired, kept, update)
      PROVE  ReplacedAnswers'
    <2>1. mgr.pc = "idle" /\ mgr' = mgr /\ new \notin ro'
        BY <1>1, <1>5 DEF RepairPass
    <2>2. currentMaster = new /\ src[new] = new
        BY <1>1, <2>1
    <2>3. CASE update
        <3>1. RepairPass(repaired, kept, TRUE)
            BY <1>5, <2>3
        <3>2. kept \in SUBSET (reach \ answers) /\ \A r \in kept : r = M /\ src[r] = new /\ linked(r)
            BY <1>0, <2>1, StageAnswers DEF ReplacedAnswers, Settled
        <3>3. /\ Ready(new)' /\ active' \subseteq reach
              /\ getNumReplicasToWrite(active') <= Cardinality(quorum'[new])
              /\ quorum'[new] = active' \ {new}
            BY <1>1, <2>2, <3>1, <3>2, RepairReady
        <3>4. M \in active' => src'[M] = new /\ linked(M)'
            BY <1>1, <3>3 DEF Ready
        <3> QED
            BY <1>0, <1>2, <2>1, <3>3, <3>4 DEF ReplacedAnswers, Ready, Waiting
    <2>4. CASE ~update
        <3>1. /\ repaired \subseteq {r \in reach \ {new} : src[r] # new \/ r \in paused}
              /\ active' = active
              /\ src' = [h \in Hosts |-> IF h \in repaired THEN new ELSE src[h]]
              /\ quorum' = [h \in Hosts |-> CASE h = new /\ update -> active \ {new}
                                              [] h \in repaired /\ src[h] # new -> {}
                                              [] OTHER -> quorum[h]]
              /\ num' = [num EXCEPT ![new] = IF update \/ getNumReplicasToWrite(active) > @
                                             THEN getNumReplicasToWrite(active) ELSE @]
              /\ paused' = paused \ ({new} \cup repaired)
            BY <1>5, <2>2, <2>4, AnswersType DEF RepairPass
        <3>2. quorum'[new] = quorum[new] /\ src'[new] = src[new] /\ new \notin repaired
            BY <1>1, <2>4, <3>1
        <3>3. \A r \in quorum[new] : src[r] = new /\ r \notin paused /\ r \in Hosts
            BY <1>0, <1>1 DEF ReplacedAnswers, Ready, linked, connected, admitted
        <3>4. \A r \in quorum[new] : src'[r] = src[r] /\ r \notin paused'
            BY <3>1, <3>3
        <3>5. num'[new] \in {num[new], getNumReplicasToWrite(active)}
            BY <1>1, <3>1
        <3>6. quorum[new] # {} => num'[new] <= Cardinality(quorum[new])
            BY <1>0, <3>5 DEF ReplacedAnswers, Ready
        <3>7. src[M] = new /\ linked(M) => src'[M] = src[M] /\ M \notin paused'
            BY <1>1, <3>1 DEF linked, connected
        <3> QED
            BY <1>4, <2>1, <3>1, <3>2, <3>4, <3>6, <3>7
    <2> QED
        BY <2>3, <2>4
<1>6. ASSUME NEW h \in Hosts, repairLocalNode(h)
      PROVE  ReplacedAnswers'
    <2>1. h = M /\ OpenReplica(M) /\ UNCHANGED <<ro, active, mgr, num>>
        BY <1>0, <1>1, <1>6 DEF repairLocalNode, OpenMaster, OpenReplica, Replaced
    <2>2. quorum[new] # {} => num[new] <= Cardinality(quorum[new])
        BY <1>0 DEF ReplacedAnswers, Ready
    <2>3. \A r \in quorum[new] : linked(r) /\ r \notin paused /\ r \in Hosts
        BY <1>0, <1>1 DEF ReplacedAnswers, Ready, linked, connected, admitted
    <2>4. CASE UNCHANGED <<src, paused, quorum>>
        BY <1>4, <2>1, <2>2, <2>3, <2>4 DEF linked, connected
    <2>5. CASE ~linked(M) /\ repairReplica({M}, new)
        <3>1. /\ src' = [g \in Hosts |-> IF g \in {x \in {M} : src[x] # new} THEN new ELSE src[g]]
              /\ quorum' = [g \in Hosts |-> IF g \in {x \in {M} : src[x] # new} THEN {} ELSE quorum[g]]
              /\ paused' = paused \ {M}
            BY <2>5 DEF repairReplica
        <3>2. quorum'[new] = quorum[new] /\ src'[new] = src[new]
            BY <1>1, <3>1
        <3>3. \A r \in quorum[new] : src'[r] = src[r] /\ r \notin paused'
            BY <2>3, <2>5, <3>1
        <3> QED
            BY <1>4, <2>1, <2>2, <2>5, <3>2, <3>3
    <2> QED
        BY <1>0, <2>1, <2>4, <2>5 DEF OpenReplica
<1>7. ASSUME \/ NewManager \/ CliAbort \/ UNCHANGED vars
             \/ \E n \in WriteIds : Acknowledge(n)
             \/ \E h \in Hosts : \/ applyPoisonPill(h) \/ Replicate(h)
                                 \/ \E n \in WriteIds : ClientWrite(h, n)
      PROVE  ReplacedAnswers'
    <2>1. UNCHANGED <<mgr, active, quorum, src, paused, num>>
        BY <1>7 DEF NewManager, CliAbort, vars, Acknowledge, applyPoisonPill, Replicate, ClientWrite
    <2>2. new \notin ro => new \notin ro'
        <3>1. UNCHANGED ro \/ \E h \in Hosts : applyPoisonPill(h)
            BY <1>7 DEF NewManager, CliAbort, vars, Acknowledge, Replicate, ClientWrite
        <3>2. ASSUME NEW h \in Hosts, applyPoisonPill(h)
              PROVE  h = M /\ ro' \subseteq ro \cup {h}
            BY <3>2, HostFacts DEF applyPoisonPill, Replaced
        <3> QED
            BY <1>1, <3>1, <3>2
    <2>3. /\ \A r \in quorum[new] : r \notin paused
          /\ linked(M) => M \notin paused
          /\ quorum[new] # {} => num[new] <= Cardinality(quorum[new])
        BY <1>0 DEF ReplacedAnswers, Ready, linked, connected, admitted
    <2> QED
        BY <1>4, <2>1, <2>2, <2>3
\* a call of performSwitchover: the new master counts on nobody yet
<1>8. ASSUME mgr.pc # "idle", new \notin ro => new \notin ro',
             mgr'.pc \in Settled => active' \subseteq reach \ {M}
      PROVE  ReplacedAnswers'
    <2>1. quorum[new] = {}
        BY <1>0, <1>8 DEF ReplacedAnswers
    <2>2. quorum'[new] = {}
        <3>1. \A repaired, kept : ~RepairPass(repaired, kept, TRUE)
            BY <1>8 DEF RepairPass
        <3> QED
            BY <1>1, <2>1, <3>1, QuorumStep
    <2>3. \A n \in WriteIds : Waiting(n, new)' => new \notin ro'
        BY <1>3, <1>8
    <2> QED
        BY <1>0, <1>2, <1>8, <2>2, <2>3 DEF ReplacedAnswers, Waiting
<1>9. ASSUME \/ SecondPill \/ waitPoisonPill("secondWait", "setNum") \/ SetNumQuorumReplicas
             \/ promote \/ SavePhase6
      PROVE  ReplacedAnswers'
    <2>1. mgr.pc # "idle" /\ ro' \subseteq ro
        BY <1>9
        DEF SecondPill, issuePoisonPill, waitPoisonPill, SetNumQuorumReplicas, promote, SavePhase6, At
    <2>2. mgr'.pc \in {"secondWait", "setNum", "promote", "phase6", "setActive", "failed"}
        BY <1>1, <1>9
        DEF SecondPill, issuePoisonPill, waitPoisonPill, SetNumQuorumReplicas, promote, SavePhase6,
            updateSwitchover, Goto, Managers
    <2>3. mgr'.pc \notin Settled
        BY <2>2 DEF Settled
    <2> QED
        BY <1>8, <2>1, <2>3
<1>10. ASSUME SetActiveNodes
       PROVE  ReplacedAnswers'
    <2>1. mgr.pc = "setActive" /\ UNCHANGED ro
        BY <1>10 DEF SetActiveNodes, At
    <2>2. mgr.snap \subseteq reach \ {M} /\ mgr.sw.newMaster = new
        BY <1>1, <2>1 DEF Replaced, Manager, After
    <2>3. active' \subseteq mgr.snap \cup {new}
        BY <1>10, <2>2 DEF SetActiveNodes, sw
    <2> QED
        BY <1>1, <1>8, <2>1, <2>2, <2>3
<1>11. ASSUME OpenNewMaster \/ TurnReplicas \/ Turned \/ finishSwitchover
       PROVE  ReplacedAnswers'
    <2>1. /\ mgr.pc \in {"open", "turn", "turned", "finished"} /\ UNCHANGED active /\ ro' \subseteq ro
        BY <1>11 DEF OpenNewMaster, TurnReplicas, Turned, finishSwitchover, At
    <2>2. active' \subseteq reach \ {M}
        BY <1>0, <2>1 DEF ReplacedAnswers, Settled
    <2> QED
        BY <1>8, <2>1, <2>2
<1> QED
    BY <1>5, <1>6, <1>7, <1>9, <1>10, <1>11, ReplacedMoves

\* The stages exclude each other.
LEMMA OneStage == ~(Steady /\ Replacing) /\ ~(Steady /\ Replaced) /\ ~(Replacing /\ Replaced)
BY DEF Steady, Replacing, Replaced, Planned

\* A shard starts with every replica linked to the master.
LEMMA InitAnswers ==
    ASSUME TypeInv, Init
    PROVE  Answers
<1>1. M \in Hosts /\ Staged /\ dcsMaster = M
    BY HostFacts, InitStaged DEF Init, M
<1>2. /\ reach = Hosts /\ broken = {} /\ active = Hosts /\ ro = Hosts \ {M}
      /\ num[M] = getNumReplicasToWrite(Hosts) /\ quorum[M] = Replicas
      /\ \A r \in Replicas : quorum[r] = {}
    BY <1>1 DEF Init, M, Replicas
<1>3. \A n \in WriteIds : writes[n].state = "none"
    BY DEF Init, NoWrite
<1>4. \A h \in Hosts : log[h] = {}
    BY DEF Init
<1>5. Numbered /\ NeedsOne
    BY <1>3, <1>4 DEF Numbered, NeedsOne
<1>6. IsFiniteSet(Replicas) /\ Cardinality(Replicas) \in Nat
    BY <1>1, NumReplicasType DEF Replicas
<1>7. Cardinality(Hosts) = Cardinality(Replicas) + 1
    <2>1. Hosts = Replicas \cup {M} /\ M \notin Replicas
        BY <1>1 DEF Replicas
    <2> QED
        BY <1>6, <2>1, FS_AddElement
<1>8. num[M] <= Cardinality(Replicas) /\ (Cardinality(Replicas) = 0 => num[M] = 0)
    BY <1>2, <1>6, <1>7 DEF getNumReplicasToWrite
<1>9. Alone
    BY <1>3, <1>8, FS_EmptySet DEF Alone
<1>10. ASSUME Steady PROVE SteadyAnswers
    <2>1. \A r \in Replicas : src[r] = M /\ linked(r)
        BY <1>1, <1>2, <1>10, SteadyLinks DEF Steady, Replicas
    <2>2. Ready(M)
        BY <1>2, <1>8, <2>1 DEF Ready
    <2> QED
        BY <1>1, <1>2, <1>3, <2>2 DEF SteadyAnswers, Waiting
<1>11. Steady
    <2>1. spent["switches"] = 0 /\ M \in reach
        BY <1>1, <1>2 DEF Init, Kinds
    <2>2. ~Replacing /\ ~Replaced
        BY <1>1, <2>1 DEF Replacing, Replaced, Down, Planned, Replicas
    <2> QED
        BY <1>1, <2>2 DEF Staged
<1> QED
    BY <1>2, <1>5, <1>9, <1>10, <1>11, OneStage DEF Answers

\* Each stage keeps its promise, and the next one finds what it needs.
LEMMA AnswersStep ==
    ASSUME IndInv, Staged, Answers, [Next]_vars, Limited', [DiesEarly]_vars
    PROVE  Answers'
<1>1. TypeInv /\ Net /\ Numbered /\ NeedsOne /\ Alone
    BY DEF IndInv, Staged, Answers
<1>2. Numbered' /\ NeedsOne' /\ Alone'
    BY <1>1, NumberedStep, NeedsOneStep, AloneStep
<1>3. ~(Steady' /\ Replacing') /\ ~(Steady' /\ Replaced') /\ ~(Replacing' /\ Replaced')
    BY DEF Steady, Replacing, Replaced, Planned
<1>4. ASSUME Steady \/ Replacing
      PROVE  \A r \in Replicas : quorum'[r] = {}
    <2>1. currentMaster = M
        <3>1. Steady => currentMaster = M
            BY <1>1, PathStands DEF Steady, isMaster, TypeInv, EnvTypes
        <3> QED
            BY <1>1, <1>4, <3>1, ReplacingFacts
    <2>2. \A r \in Replicas : r \in Hosts /\ r # M /\ quorum[r] = {}
        BY <1>4 DEF Answers, Steady, Replacing, Replicas
    <2> QED
        BY <1>1, <2>1, <2>2, QuorumStep
<1>5. CASE Steady
    <2>1. Steady' => SteadyAnswers'
        BY <1>1, <1>5, SteadyAnswersStep DEF Answers
    <2>2. Replacing' => ReplacingAnswers'
        BY <1>1, <1>5, SteadyEndAnswers DEF Answers
    <2>3. Steady' \/ Replacing'
        BY <1>1, <1>5, SteadyStep
    <2> QED
        BY <1>2, <1>3, <1>4, <1>5, <2>1, <2>2, <2>3 DEF Answers
<1>6. CASE Replacing
    <2>1. Replacing' => ReplacingAnswers'
        BY <1>1, <1>6, ReplacingAnswersStep DEF Answers
    <2>2. Replaced' => ReplacedAnswers'
        <3>1. \A r \in Replicas : quorum[r] = {}
            BY <1>6 DEF Answers, Replacing
        <3> QED
            BY <1>1, <1>6, <3>1, ReplacingEndAnswers
    <2>3. Replacing' \/ Replaced'
        BY <1>1, <1>6, ReplacingStep
    <2> QED
        BY <1>2, <1>3, <1>4, <1>6, <2>1, <2>2, <2>3 DEF Answers
<1>7. CASE Replaced
    <2>1. ~Crash
        BY <1>1, <1>7, NoLateCrash
    <2>2. Replaced' /\ ReplacedAnswers'
        BY <1>1, <1>7, <2>1, ReplacedStep, ReplacedAnswersStep DEF Answers
    <2>3. dcsMaster' # M
        BY <2>2 DEF Replaced
    <2> QED
        BY <1>2, <1>3, <2>2, <2>3 DEF Answers
<1> QED
    BY <1>5, <1>6, <1>7 DEF Staged

\* Both invariants hold as long as the hypotheses do.
LEMMA AlwaysAnswers == Spec /\ []Limited /\ [][DiesEarly]_vars => []Answers
<1>1. IndInv /\ Staged /\ Answers /\ [Next]_vars /\ Limited' /\ [DiesEarly]_vars => Answers'
    BY AnswersStep
<1>2. TypeInv /\ Init => Answers
    BY InitAnswers
<1>3. IndInv => TypeInv
    BY DEF IndInv
<1> QED
    BY <1>1, <1>2, <1>3, AlwaysStaged, Inductive, PTL DEF Spec

\* An old write is acknowledged only while a new one could be, by the host that the
\* path master names.
LEMMA AcknowledgedByPrimary ==
    ASSUME TypeInv, Staged, Answers, NEW n \in WriteIds, Acknowledge(n)
    PROVE  dcsMaster \in acknowledging /\ n \in log[dcsMaster]
<1>1. /\ M \in Hosts /\ dcsMaster \in Hosts /\ \A h \in Hosts : quorum[h] \subseteq Hosts
      /\ num[M] \in Int /\ writes[n] \in Writes
    BY HostFacts, NumReplicasType DEF TypeInv, ServerTypes, DcsTypes, EnvTypes
<1>2. /\ writes[n].state = "waiting" /\ writes[n].need >= 1 /\ writes[n].need \in Nat
      /\ acknowledgements(writes[n].host, n) >= writes[n].need /\ Replicas # {}
    BY <1>1 DEF Acknowledge, Answers, NeedsOne, Alone, Writes
<1>3. ~(Fenced /\ writes[n].host = M)
    BY FencedIsSilent
<1>4. CASE Steady
    <2>1. /\ writes[n].host = M /\ dcsMaster = M /\ n \in log[M] /\ src[M] = M /\ offline = {}
          /\ M \notin ro /\ writes[n].need >= num[M]
        BY <1>2, <1>4 DEF Steady, OneSource, Stream, Answers, SteadyAnswers, Waiting
    <2> DEFINE linkedTo == {r \in quorum[M] : src[r] = M /\ linked(r)}
               holding == {r \in quorum[M] : src[r] = M /\ linked(r) /\ n \in log[r]}
    <2>2. linkedTo \in SUBSET Hosts /\ holding \subseteq linkedTo
        BY <1>1
    <2>3. /\ Cardinality(holding) <= Cardinality(linkedTo) /\ Cardinality(linkedTo) \in Int
          /\ Cardinality(holding) \in Int
        BY <2>2, NumReplicasType, FS_Subset
    <2>4. Cardinality(holding) >= writes[n].need
        BY <1>2, <2>1 DEF acknowledgements
    <2>5. Cardinality(linkedTo) >= num[M]
        BY <1>1, <1>2, <2>1, <2>3, <2>4
    <2> QED
        BY <1>1, <2>1, <2>5 DEF acknowledging, writable, isMaster
<1>5. CASE Replacing
    <2>1. writes[n].host = M /\ dcsMaster = M /\ n \in log[M] /\ src[M] = M /\ ~Fenced
        BY <1>2, <1>3, <1>5 DEF Replacing, OneSource, Stream
    <2>2. Planned
        BY <1>2, <1>5, <2>1 DEF Replacing, Fenced
    <2>3. M \notin ro /\ Ready(M) /\ offline = {}
        BY <1>2, <1>5, <2>1, <2>2 DEF Answers, ReplacingAnswers, Waiting, Replacing, Pills
    <2>4. writable(M)
        BY <2>1, <2>3 DEF writable, isMaster
    <2> QED
        BY <1>1, <2>1, <2>3, <2>4, ReadyAcknowledges
<1>6. CASE Replaced
    <2>1. writes[n].host = dcsMaster /\ n \in log[dcsMaster]
        BY <1>2, <1>3, <1>6 DEF Replaced
    <2>2. quorum[dcsMaster] # {}
        <3> SUFFICES ASSUME quorum[dcsMaster] = {}
                     PROVE  FALSE
            OBVIOUS
        <3>1. acknowledgements(dcsMaster, n) = 0
            BY FS_EmptySet DEF acknowledgements
        <3> QED
            BY <1>2, <2>1, <3>1
    <2>3. mgr.pc = "idle" /\ Ready(dcsMaster) /\ dcsMaster \notin ro
        BY <1>2, <1>6, <2>1, <2>2 DEF Answers, ReplacedAnswers, Waiting
    <2>4. writable(dcsMaster)
        BY <1>6, <2>3 DEF writable, isMaster, Replaced, Promotion, After
    <2> QED
        BY <1>1, <2>1, <2>3, <2>4, ReadyAcknowledges
<1> QED
    BY <1>4, <1>5, <1>6 DEF Staged

\* who has the role of acknowledging writes
Role ==
    /\ primary = IF acknowledging = {} THEN NoHost ELSE dcsMaster
    /\ acknowledging \subseteq {dcsMaster} /\ dcsMaster \in Hosts
    /\ \A h \in acknowledging : acked \subseteq log[h]
    /\ spent.forced = 0 /\ spent.faults <= 1 /\ spent.late = 0

\* The path master names the host that has the role.
LEMMA StagedRole ==
    ASSUME TypeInv, Staged
    PROVE  Role
<1>1. acknowledging \subseteq {dcsMaster} /\ \A h \in acknowledging : acked \subseteq log[h]
    BY StagedKeeps
<1>2. dcsMaster \in Hosts
    BY DEF TypeInv, DcsTypes
<1>3. primary = IF acknowledging = {} THEN NoHost ELSE dcsMaster
    <2>1. Cardinality({}) = 0 /\ Cardinality({dcsMaster}) = 1
        BY FS_EmptySet, FS_Singleton
    <2>2. CASE acknowledging = {}
        BY <2>1, <2>2 DEF primary
    <2>3. CASE acknowledging = {dcsMaster}
        BY <2>1, <2>3 DEF primary
    <2> QED
        BY <1>1, <2>2, <2>3
<1>4. spent["faults"] \in Nat /\ spent["switches"] \in Nat
    BY DEF TypeInv, EnvTypes, Kinds
<1>5. spent.forced = 0 /\ spent.faults <= 1 /\ spent.late = 0
    BY <1>4 DEF Staged, Net, Limited
<1> QED
    BY <1>1, <1>2, <1>3, <1>5 DEF Role

\* A host keeps or takes over the role with every acknowledged write, and nothing is
\* acknowledged while none has it: every step is one of Shard, or changes nothing.
LEMMA ShardStep ==
    ASSUME TypeInv, Staged, Answers, Role, Role', [Next]_vars
    PROVE  [S!Next]_S!vars
<1> DEFINE held == IF primary = NoHost THEN {} ELSE log[primary]
           kept == spent.forced = 0 /\ spent.faults <= 1 /\ spent.late = 0
<1>1. kept /\ kept' /\ NoHost \notin Hosts /\ dcsMaster \in Hosts /\ dcsMaster' \in Hosts
    BY HostFacts DEF Role
<1>2. /\ log \in [Hosts -> SUBSET WriteIds] /\ \A h \in Hosts : log'[h] \in SUBSET WriteIds
    BY ServerStep DEF TypeInv, ServerTypes
<1>3. /\ acknowledging = {} => primary = NoHost /\ held = {}
      /\ acknowledging # {} => /\ dcsMaster \in acknowledging /\ primary = dcsMaster
                               /\ held = log[dcsMaster]
    BY <1>1 DEF Role
<1>4. /\ acknowledging' = {} => primary' = NoHost /\ held' = {}
      /\ acknowledging' # {} => /\ dcsMaster' \in acknowledging' /\ primary' = dcsMaster'
                                /\ held' = log'[dcsMaster'] /\ acked' \subseteq held'
    BY <1>1 DEF Role
<1>5. CASE acked' = acked
    <2>1. CASE acknowledging' = {}
        <3>1. S!StepDown
            BY <1>1, <1>4, <1>5, <2>1 DEF S!StepDown
        <3> QED
            BY <3>1 DEF S!Next
    <2>2. CASE acknowledging' # {} /\ primary # primary'
        <3>1. S!TakeOver(dcsMaster')
            BY <1>1, <1>2, <1>4, <1>5, <2>2 DEF S!TakeOver
        <3> QED
            BY <1>1, <3>1 DEF S!Next
    <2>3. CASE acknowledging' # {} /\ primary = primary'
        <3>1. /\ acknowledging # {} /\ dcsMaster' = dcsMaster /\ src[dcsMaster] = dcsMaster
              /\ held = log[dcsMaster] /\ held' = log'[dcsMaster] /\ primary # NoHost
            BY <1>1, <1>3, <1>4, <2>3 DEF acknowledging, writable, isMaster
        <3>2. ASSUME held' = held
              PROVE  UNCHANGED S!vars
            BY <1>1, <1>5, <2>3, <3>2 DEF S!vars
        <3>3. ASSUME NEW h \in Hosts, NEW n \in WriteIds, ClientWrite(h, n)
              PROVE  [S!Next]_S!vars
            <4>1. log' = [log EXCEPT ![h] = @ \cup {n}]
                BY <3>3 DEF ClientWrite
            <4>2. CASE h = dcsMaster
                <5>1. held' = held \cup {n}
                    BY <1>2, <3>1, <4>1, <4>2
                <5>2. S!Write(n)
                    BY <1>1, <1>5, <2>3, <3>1, <5>1 DEF S!Write
                <5> QED
                    BY <5>2 DEF S!Next
            <4>3. CASE h # dcsMaster
                <5>1. held' = held
                    BY <1>1, <1>2, <3>1, <4>1, <4>3
                <5> QED
                    BY <3>2, <5>1
            <4> QED
                BY <4>2, <4>3
        <3>4. ASSUME NEW n \in WriteIds, Acknowledge(n)
              PROVE  UNCHANGED log
            BY <3>4 DEF Acknowledge, serverVars
        <3>5. ASSUME NEW r \in Hosts, Replicate(r)
              PROVE  log'[dcsMaster] = log[dcsMaster]
            <4>1. r # dcsMaster
                BY <3>1, <3>5 DEF Replicate, connected, admitted, isMaster
            <4> QED
                BY <1>1, <3>5, <4>1, ReplicateNext
        <3> QED
            BY <3>1, <3>2, <3>3, <3>4, <3>5, Histories
    <2> QED
        BY <2>1, <2>2, <2>3
<1>6. ASSUME NEW n \in WriteIds, Acknowledge(n), acked' = acked \cup {n}
      PROVE  [S!Next]_S!vars
    <2>1. dcsMaster \in acknowledging /\ n \in log[dcsMaster]
        BY <1>6, AcknowledgedByPrimary
    <2>2. UNCHANGED <<serverVars, dcsMaster, broken>>
        BY <1>6 DEF Acknowledge, dcsVars
    <2>3. acknowledging' = acknowledging /\ log' = log
        BY <2>2 DEF serverVars, acknowledging, writable, isMaster, linked, connected, admitted, serves, isPrefix
    <2>4. /\ primary = dcsMaster /\ primary' = primary /\ held = log[dcsMaster] /\ held' = held
        BY <1>3, <1>4, <2>1, <2>2, <2>3
    <2>5. S!Acknowledge(n)
        BY <1>1, <1>6, <2>1, <2>4 DEF S!Acknowledge
    <2> QED
        BY <2>5 DEF S!Next
<1>7. ASSUME NEW h \in Hosts, NEW n \in WriteIds, ClientWrite(h, n), num[h] = 0,
             acked' = acked \cup {n}
      PROVE  [S!Next]_S!vars
    <2>1. /\ writable(h) /\ log' = [log EXCEPT ![h] = @ \cup {n}]
          /\ UNCHANGED <<src, ro, offline, num, quorum, dcsMaster>>
        BY <1>7 DEF ClientWrite, dcsVars
    <2>2. \A T \in SUBSET quorum[h] : Cardinality(T) >= 0
        BY NumReplicasType DEF TypeInv, ServerTypes
    <2>3. h \in acknowledging
        BY <1>7, <2>1, <2>2 DEF acknowledging
    <2>4. h \in acknowledging'
        BY <1>7, <2>1, <2>2 DEF acknowledging, writable, isMaster
    <2>5. h = dcsMaster /\ dcsMaster' = dcsMaster
        BY <2>1, <2>3 DEF Role
    <2>6. /\ primary = h /\ primary' = h /\ held = log[h] /\ held' = log[h] \cup {n}
        BY <1>2, <1>3, <1>4, <2>1, <2>3, <2>4, <2>5
    <2>7. S!Write(n)
        BY <1>1, <1>7, <2>6 DEF S!Write
    <2> QED
        BY <2>7 DEF S!Next
<1> QED
    BY <1>5, <1>6, <1>7, AckedStep

\* ImplementsShard: under the same hypotheses the shard keeps the promise of Shard,
\* step by step.  One host at a time acknowledges writes, a new one takes over with
\* every acknowledged write and forgets none, and also a client that has waited
\* since before the switchover is answered only by the host that has the role.
THEOREM OneFailureImplementsShard == Spec /\ []Limited /\ [][DiesEarly]_vars => ImplementsShard
<1>1. Init /\ Role /\ Answers /\ TypeInv /\ Staged => S!Init
    <2> SUFFICES ASSUME Init, Role, Answers, TypeInv, Staged
                 PROVE  S!Init
        OBVIOUS
    <2>1. /\ dcsMaster = M /\ M \in Hosts /\ M # NoHost /\ M = InitialMaster
          /\ \A h \in Hosts : log[h] = {} /\ src[h] = M
          /\ ro = Hosts \ {M} /\ offline = {}
        BY HostFacts DEF Init, M
    <2>2. acked = {}
        BY DEF Init, NoWrite, acked
    <2>3. Ready(M)
        <3>1. Undisturbed
            BY DEF Init, Kinds, Undisturbed
        <3>2. Steady
            BY <2>1, <3>1 DEF Staged, Replacing, Replaced, Planned, Down, Init, Undisturbed, Replicas
        <3> QED
            BY <3>1, <3>2 DEF Answers, SteadyAnswers
    <2>4. M \in acknowledging
        BY <2>1, <2>3, ReadyAcknowledges DEF writable, isMaster
    <2>5. primary = M
        BY <2>1, <2>4 DEF Role
    <2> QED
        BY <2>1, <2>2, <2>5 DEF S!Init, Role
<1>2. TypeInv /\ Staged => Role
    BY StagedRole
<1>3. TypeInv /\ Staged /\ Answers /\ Role /\ Role' /\ [Next]_vars => [S!Next]_S!vars
    BY ShardStep
<1>4. IndInv => TypeInv
    BY DEF IndInv
<1> QED
    BY <1>1, <1>2, <1>3, <1>4, AlwaysStaged, AlwaysAnswers, Inductive, PTL
    DEF Spec, ImplementsShard, S!Spec
=============================================================================
