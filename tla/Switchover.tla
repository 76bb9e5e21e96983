----------------------------- MODULE Switchover -----------------------------
(***************************************************************************)
(* How the master of a shard is replaced: the record current_switch, the   *)
(* manager that performs it step by step (performSwitchover) and may die,  *)
(* or be replaced, between any two calls, the poison pill that fences the  *)
(* old master, and the valkey servers the calls act on.                    *)
(*                                                                         *)
(* Sentinel mode, with the default turn_before_switchover = false and      *)
(* allow_data_loss = false.  A switchover is driven by the hosts that      *)
(* answer the manager; a host that does not may still serve clients,       *)
(* replicate and read the DCS.  An offline host listens on the loopback    *)
(* interface only: it answers its own rdsync and nobody else, and takes no *)
(* new replication link, while those that it has go on.                    *)
(*                                                                         *)
(* A server's history is the set of client writes it holds: writes are     *)
(* numbered in the order they are made, so a set stands for one sequence,  *)
(* its size for the replication offset.                                    *)
(***************************************************************************)
EXTENDS Integers, FiniteSets

CONSTANTS Hosts,            \* the hosts of the shard
          InitialMaster,
          NoHost,           \* an empty host name
          MaxWrites,        \* bound: client writes
          Budgets,          \* bound: how often disturbances may happen together
          MaxUnreachable,   \* bound: hosts that are out of reach at one time
          MaxParallelSyncs, \* option max_parallel_syncs
          Backlog           \* how many writes the replication backlog holds

\* What a budget counts: client writes, changes of the network, managers that are
\* replaced or interrupted and those of them that are so late that the attempt after
\* theirs turns on the new master (Interrupted), rdsync switch of any kind and those
\* of them with --force, rdsync abort, records that time out, and waits for a pill
\* that a live host does not apply in time.
Kinds == {"writes", "faults", "crashes", "late", "switches", "forced", "aborts", "timeouts",
          "pills"}

ASSUME SwitchoverAssumption ==
    /\ IsFiniteSet(Hosts) /\ InitialMaster \in Hosts /\ NoHost \notin Hosts
    /\ Budgets \subseteq [Kinds -> Nat]
    /\ {MaxWrites, MaxUnreachable, MaxParallelSyncs, Backlog} \subseteq Nat

VARIABLES
    \* the servers
    src,        \* src[h]: the host h replicates from; src[h] = h on a master
    ro,         \* hosts with min-replicas-to-write at its highest (read-only)
    paused,     \* hosts with repl-paused
    offline,    \* hosts with the option offline
    num,        \* num[h]: quorum-replicas-to-write
    quorum,     \* quorum[h]: quorum-replicas
    log,        \* log[h]: the writes h holds
    lasting,    \* replicas whose link has been up since before its source went offline
    \* the DCS
    dcsMaster, active, current, pill,
    forcing,    \* rdsync switch --force: the host, between its two requests
    \* the manager: the next call of performSwitchover and its local variables
    mgr,
    local,      \* the host whose rdsync is the manager
    \* the network, the clients and what the bounds have left
    reach,      \* hosts that work, as far as the manager can tell
    broken,     \* hosts that no replication link works with
    writes,     \* writes[n]: the n-th write and its WAITQUORUM
    spent       \* how often each of Kinds has happened

serverVars == <<src, ro, paused, offline, num, quorum, log, lasting>>
dcsVars == <<dcsMaster, active, current, pill>>
envVars == <<local, reach, broken, writes, spent, forcing>>
vars == <<serverVars, dcsVars, mgr, envVars>>

WriteIds == 1 .. MaxWrites

\* one more of each of these kinds, as long as some budget has room for all that
\* has happened
Spend(kinds) ==
    /\ spent' = [k \in Kinds |-> IF k \in kinds THEN spent[k] + 1 ELSE spent[k]]
    /\ \E budget \in Budgets : \A k \in Kinds : spent'[k] <= budget[k]

-----------------------------------------------------------------------------
(* The record current_switch; phase 0 is Progress = nil.                   *)
Switch(auto, from, to, retried) ==
    [exists |-> TRUE, auto |-> auto, from |-> from, to |-> to, phase |-> 0,
     newMaster |-> NoHost, mostRecent |-> NoHost, retried |-> retried]
NoSwitch == [Switch(FALSE, NoHost, NoHost, FALSE) EXCEPT !.exists = FALSE]

Idle == [pc |-> "idle", sw |-> NoSwitch, oldMaster |-> NoHost,
         snap |-> {}, links |-> {}, act |-> {}, fq |-> 0, alive |-> {}, behind |-> FALSE]

\* the record poison_pill
Pill(host) == [host |-> host, Applied |-> FALSE]
NoPill == Pill(NoHost)

getNumReplicasToWrite(nodes) == Cardinality(nodes) \div 2

\* mutant: one replica less
FailoverQuorumLess(nodes) ==
    LET fq == Cardinality(nodes) - getNumReplicasToWrite(nodes) - 1
    IN  IF fq < 1 THEN 1 ELSE fq

getFailoverQuorum(nodes) ==
    LET fq == Cardinality(nodes) - getNumReplicasToWrite(nodes)
    IN  IF fq < 1 THEN 1 ELSE fq

-----------------------------------------------------------------------------
(* The servers.                                                            *)

isMaster(h) == src[h] = h

\* the network and the source of h let it have its link: SetOffline refuses new
\* connections and kills those of clients, not those of replicas
admitted(h) == {h, src[h]} \cap broken = {} /\ (src[h] \notin offline \/ h \in lasting)

\* a replica that is itself without a master does not serve others, unless
\* its replication is paused
serves(h) == isMaster(h) \/ h \in paused \/ (isMaster(src[h]) /\ admitted(h))

connected(h) == ~isMaster(h) /\ h \notin paused /\ admitted(h) /\ serves(src[h])

\* the links that outlast a step: those that it neither cuts, stops nor turns
keepLinks ==
    lasting' = {h \in Hosts : /\ connected(h)
                              /\ src'[h] = src[h] /\ src[h] \in offline'
                              /\ h \notin paused' /\ {h, src[h]} \cap broken' = {}}

isPrefix(a, b) == a \subseteq b /\ \A x \in b \ a, y \in a : y < x

\* the replication link is up; it is not while the replica needs a full sync
linked(h) == connected(h) /\ isPrefix(log[h], log[src[h]])

\* never 0 on a host that answers: the stream holds more than client writes
getOffset(h) == 1 + Cardinality(log[h])

\* a master has no replica state
isPartialSyncPossible(replica, master) ==
    /\ ~isMaster(replica)
    /\ isPrefix(log[replica], log[master])
    /\ Cardinality(log[master] \ log[replica]) <= Backlog

\* WAITQUORUM on h returns once write n has this many acknowledgements
acknowledgements(h, n) ==
    Cardinality({r \in quorum[h] : src[r] = h /\ linked(r) /\ n \in log[r]})

\* the clients of hs are disconnected and never learn the fate of their writes
dropClients(hs) ==
    writes' = [n \in WriteIds |->
                 IF writes[n].state = "waiting" /\ writes[n].host \in hs
                 THEN [writes[n] EXCEPT !.state = "unknown"] ELSE writes[n]]

NoWrite == [state |-> "none", host |-> NoHost, need |-> 0]

Init ==
    /\ src = [h \in Hosts |-> InitialMaster]
    /\ ro = Hosts \ {InitialMaster}
    /\ paused = {} /\ offline = {} /\ lasting = {}
    /\ num = [h \in Hosts |-> IF h = InitialMaster
                              THEN getNumReplicasToWrite(Hosts) ELSE 0]
    /\ quorum = [h \in Hosts |-> IF h = InitialMaster
                                 THEN Hosts \ {InitialMaster} ELSE {}]
    /\ log = [h \in Hosts |-> {}]
    /\ dcsMaster = InitialMaster /\ active = Hosts
    /\ current = NoSwitch /\ pill = NoPill
    /\ mgr = Idle /\ local \in Hosts /\ forcing = NoHost
    /\ reach = Hosts /\ broken = {}
    /\ writes = [n \in WriteIds |-> NoWrite]
    /\ spent = [k \in Kinds |-> 0]

acked == {n \in WriteIds : writes[n].state = "acked"}

-----------------------------------------------------------------------------
(* Clients, replication, faults.                                           *)

writable(h) == isMaster(h) /\ h \notin ro \cup offline

\* a write on h and the WAITQUORUM behind it
ClientWrite(h, n) ==
    /\ writable(h)
    /\ writes[n].state = "none"
    /\ \A k \in 1 .. n - 1 : writes[k].state # "none"
    /\ log' = [log EXCEPT ![h] = @ \cup {n}]
    /\ writes' = [writes EXCEPT ![n] = [state |-> IF num[h] = 0 THEN "acked" ELSE "waiting",
                                         host |-> h, need |-> num[h]]]
    /\ Spend({"writes"})
    /\ UNCHANGED <<src, ro, paused, offline, num, quorum, lasting, dcsVars, mgr, local,
                   reach, broken, forcing>>

Acknowledge(n) ==
    /\ writes[n].state = "waiting"
    /\ acknowledgements(writes[n].host, n) >= writes[n].need
    /\ writes' = [writes EXCEPT ![n].state = "acked"]
    /\ UNCHANGED <<serverVars, dcsVars, mgr, local, reach, broken, spent, forcing>>

\* the next write of the stream, or a full synchronisation
Replicate(r) ==
    /\ connected(r)
    /\ log[r] # log[src[r]]
    /\ log' = [log EXCEPT ![r] =
                 IF isPrefix(@, log[src[r]])
                 THEN @ \cup {CHOOSE x \in log[src[r]] \ @ :
                                \A y \in log[src[r]] \ @ : x <= y}
                 ELSE log[src[r]]]
    /\ UNCHANGED <<src, ro, paused, offline, num, quorum, lasting, dcsVars, mgr, envVars>>

\* what the manager sees of a host and whether other hosts can replicate with
\* it change independently: a host may be dead, cut off, or hidden from one side
NetworkChange(h) ==
    /\ Spend({"faults"})
    /\ reach' \in {reach \cup {h}, reach \ {h}}
    /\ broken' \in {broken \cup {h}, broken \ {h}}
    /\ <<reach', broken'>> # <<reach, broken>>
    /\ Cardinality(Hosts \ reach') <= MaxUnreachable
    /\ UNCHANGED <<src, ro, paused, offline, num, quorum, log, dcsVars, mgr, local, writes,
                   forcing>>
    /\ keepLinks

-----------------------------------------------------------------------------
(* A host with its own rdsync: the poison pill and repairLocalNode.        *)

\* applyPoisonPill, of a candidate or, when the pill is for the manager's own host,
\* in waitPoisonPill: SetOffline, and the record is written back (HostHealth has
\* them as steps of their own)
applyPoisonPill(h) ==
    /\ pill.host = h
    /\ h # local \/ (mgr.pc \in {"firstWait", "secondWait"} /\ ~mgr.sw.auto)
    /\ h \notin offline \/ ~pill.Applied
    /\ offline' = offline \cup {h}
    /\ ro' = IF h \in offline THEN ro ELSE ro \cup {h}
    /\ IF h \in offline THEN UNCHANGED writes ELSE dropClients({h})
    /\ pill' = [pill EXCEPT !.Applied = TRUE]
    /\ UNCHANGED <<src, paused, num, quorum, log, dcsMaster, active, current, mgr, local,
                   reach, broken, spent, forcing>>
    /\ keepLinks

\* the hosts that answer the manager
answers == {h \in reach : h \notin offline \/ h = local}

\* the hosts that answer the rdsync of h
seenBy(h) == {h} \cup (IF h \in reach THEN reach \ offline ELSE {})

\* repairReplica on each of hs: REPLICAOF where it changes something, and resume
repairReplica(hs, master) ==
    LET turned == {h \in hs : src[h] # master}
    IN  /\ src' = [h \in Hosts |-> IF h \in turned THEN master ELSE src[h]]
        /\ quorum' = [h \in Hosts |-> IF h \in turned THEN {} ELSE quorum[h]]
        /\ paused' = paused \ hs
        /\ dropClients(turned)

\* the replicas of master that a full synchronisation is under way on
syncing(master) == {r \in Hosts : src[r] = master /\ connected(r) /\ ~linked(r)}

\* the DCS names h as master: no active host may be ahead of it
OpenMaster(h) ==
    /\ h = dcsMaster
    /\ \A g \in active \cap seenBy(h) : getOffset(g) <= getOffset(h)
    /\ num' = [num EXCEPT ![h] = IF @ < getNumReplicasToWrite(active)
                                 THEN getNumReplicasToWrite(active) ELSE @]
    /\ offline' = offline \ {h}
    /\ UNCHANGED <<src, paused, quorum, writes>>

\* A replica that replicates goes online, and so does a host that is a master
\* against the DCS, until it has been one for stale_replica_lag_open; any other
\* is pointed at the master, unless max_parallel_syncs forbids it, and stays
\* offline while the DCS reports the master healthy.
OpenReplica(h) ==
    /\ h # dcsMaster
    /\ \/ /\ linked(h) \/ isMaster(h)
          /\ offline' = offline \ {h}
          /\ UNCHANGED <<src, paused, quorum, writes>>
       \/ /\ ~linked(h)
          /\ \/ repairReplica({h}, dcsMaster)
             \/ Cardinality(syncing(dcsMaster)) >= MaxParallelSyncs /\ UNCHANGED <<src, paused, quorum, writes>>
          /\ \/ dcsMaster \notin reach /\ offline' = offline \ {h}
             \/ UNCHANGED offline
    /\ UNCHANGED num

\* A candidate leaves a host with a pill alone.  A manager does not look for a
\* pill, and comes here at the start of a pass.
repairLocalNode(h) ==
    /\ h \in offline
    /\ IF h = local THEN mgr.pc = "idle" ELSE pill.host # h
    /\ OpenMaster(h) \/ OpenReplica(h)
    /\ UNCHANGED <<ro, log, dcsVars, mgr, local, reach, broken, spent, forcing>>
    /\ keepLinks

-----------------------------------------------------------------------------
(* One pass of stateManager without and with a current_switch.             *)

\* getCurrentMaster: a single other master wins over the DCS when every host
\* answers and none is offline
currentMaster ==
    LET masters == {h \in reach : isMaster(h)}
    IN  IF Cardinality(masters) = 1 /\ reach = Hosts /\ offline = {}
        THEN CHOOSE h \in masters : TRUE
        ELSE dcsMaster

aliveHAReplicas == {h \in active \cap answers : ~isMaster(h)}

runningHAReplicas == {h \in reach \ offline : connected(h)}

\* A master is not there for the manager, or its health key says that it is offline.
\* What the keys say of an unreachable master is left out: it decides whether this
\* manager waits, or gives its role up, before the failover (HostHealth, ManagerLock).
masterFailed(master) == master \notin reach \/ master \in offline

\* mutant: more than the quorum
ApproveMoreThanQuorum == Cardinality(aliveHAReplicas) > getFailoverQuorum(active)

approveFailover ==
    /\ Cardinality(runningHAReplicas) # Cardinality(Hosts) - 1
    /\ Cardinality(aliveHAReplicas) >= getFailoverQuorum(active)

\* A pass without a record removes the pill.  The master has failed, and a
\* failover has to wait (for failover_timeout, a quorum, the cooldown) ...
WaitPass ==
    /\ mgr.pc = "idle" /\ ~current.exists
    /\ pill' = NoPill
    /\ dcsMaster' = currentMaster
    /\ masterFailed(dcsMaster')
    /\ UNCHANGED <<serverVars, active, current, mgr, envVars>>

\* ... or is started (performFailover)
FailoverPass ==
    /\ mgr.pc = "idle" /\ ~current.exists
    /\ pill' = NoPill
    /\ dcsMaster' = currentMaster
    /\ masterFailed(dcsMaster')
    /\ approveFailover
    /\ current' = Switch(TRUE, dcsMaster', NoHost, FALSE)
    /\ UNCHANGED <<serverVars, active, mgr, envVars>>

\* Assumption on the environment, not a guard of the code, which looks at the
\* link only: a replica whose link is up has caught up by the end of the pass.
PromptReplication == \A r \in Hosts : linked(r) => log[r] = log[src[r]]

\* repairShard, and updateActiveNodes as one step: ActiveNodes has its steps.
\*   repaired  the replicas that repairReplica is called for
\*   kept      the hosts that do not answer and stay active: their health key says
\*             that they are well, or inactivation_delay is not over
\*   update    updateActive: repairLocalNode has not left the local host offline
RepairPass(repaired, kept, update) ==
    LET master == currentMaster
        replicas == answers \ {master}
        broke == {r \in replicas : src[r] # master \/ r \in paused}
        room == MaxParallelSyncs - Cardinality(syncing(master))
        nodes == IF ~update THEN active
                 ELSE {master} \cup kept \cup {r \in replicas : src[r] = master /\ linked(r)}
        expected == getNumReplicasToWrite(nodes)
    IN  /\ mgr.pc = "idle" /\ ~current.exists
        /\ ~masterFailed(master)
        /\ PromptReplication
        /\ repaired \subseteq broke
        /\ repaired = broke \/ Cardinality(repaired) >= room
        /\ repaired = {} \/ Cardinality(repaired) <= room
        /\ update \/ local \in offline
        /\ pill' = NoPill
        /\ dcsMaster' = master
        /\ active' = nodes
        /\ src' = [h \in Hosts |-> IF h \in repaired THEN master ELSE src[h]]
        /\ quorum' = [h \in Hosts |-> CASE h = master /\ update -> nodes \ {master}
                                        [] h \in repaired /\ src[h] # master -> {}
                                        [] OTHER -> quorum[h]]
        /\ num' = [num EXCEPT ![master] = IF update \/ expected > @ THEN expected ELSE @]
        /\ ro' = (ro \ {master}) \cup replicas
        /\ paused' = paused \ ({master} \cup repaired)
        /\ dropClients({h \in repaired : src[h] # master})
        /\ UNCHANGED <<offline, log, current, mgr, local, reach, broken, spent, forcing>>
        /\ keepLinks

approveSwitchover ==
    current.retried \/ Cardinality(aliveHAReplicas) >= getFailoverQuorum(active)

\* finishSwitchover as rejected: a record that is not approved or has timed out
RejectSwitchover ==
    /\ mgr.pc = "idle" /\ current.exists
    /\ dcsMaster' = currentMaster
    /\ current' = NoSwitch
    /\ UNCHANGED <<serverVars, active, pill, mgr, local, reach, broken, writes, forcing>>

NotApproved == ~approveSwitchover /\ RejectSwitchover /\ UNCHANGED spent

TimedOut == RejectSwitchover /\ Spend({"timeouts"})

\* the pass up to startSwitchover
BeginSwitchover ==
    /\ mgr.pc = "idle" /\ current.exists
    /\ approveSwitchover
    /\ dcsMaster' = currentMaster
    /\ mgr' = [Idle EXCEPT !.pc = "start", !.sw = current, !.oldMaster = dcsMaster',
                           !.snap = answers, !.links = {h \in answers : linked(h)},
                           !.act = active]
    /\ UNCHANGED <<serverVars, active, current, pill, envVars>>

-----------------------------------------------------------------------------
(* performSwitchover, one action per call that something else can see.     *)

sw == mgr.sw
At(label) == mgr.pc = label
Goto(label) == mgr' = [mgr EXCEPT !.pc = label]

\* dcs.Set of the record: it creates the key when it is not there
updateSwitchover(record, label) ==
    /\ current' = record
    /\ mgr' = [mgr EXCEPT !.sw = record, !.pc = label]

startSwitchover ==
    /\ At("start")
    /\ updateSwitchover(sw, IF sw.phase = 0 THEN "progress" ELSE "target")
    /\ UNCHANGED <<serverVars, dcsMaster, active, pill, envVars>>

InitProgress ==
    /\ At("progress")
    /\ updateSwitchover([sw EXCEPT !.phase = 1], "target")
    /\ UNCHANGED <<serverVars, dcsMaster, active, pill, envVars>>

\* phase 1: the hosts that answered at the start of the pass become read-only
ReadOnly ==
    LET act == IF sw.auto /\ sw.from = mgr.oldMaster
               THEN mgr.act \ {mgr.oldMaster} ELSE mgr.act
        done == act \cap mgr.snap \cap answers
        masterFails == mgr.oldMaster \in (act \cap mgr.snap) \ done
    IN  /\ At("target")
        /\ IF sw.to # NoHost /\ sw.to \notin mgr.act
           THEN Goto("failed") /\ UNCHANGED <<ro, writes>>
           ELSE /\ ro' = ro \cup done
                /\ dropClients(done \cap {mgr.oldMaster})
                /\ mgr' = [mgr EXCEPT !.pc = IF masterFails THEN "failed" ELSE "firstPill",
                                      !.act = act, !.alive = done,
                                      !.fq = getFailoverQuorum(mgr.act)]
        /\ UNCHANGED <<src, paused, offline, num, quorum, log, lasting, dcsVars, local,
                       reach, broken, spent, forcing>>

\* A pill for the old master; one for another host is removed first.
issuePoisonPill(label) ==
    /\ pill' = IF pill.host = mgr.oldMaster THEN pill ELSE Pill(mgr.oldMaster)
    /\ Goto(label)
    /\ UNCHANGED <<serverVars, dcsMaster, active, current, envVars>>

\* mutant: the manager does not wait for the pill
NoPillWait(at, label) ==
    /\ At(at)
    /\ Goto(label)
    /\ UNCHANGED <<serverVars, dcsVars, envVars>>

\* Unless this is a failover, the manager waits until the pill is applied or
\* wait_poison_pill_timeout is over.
waitPoisonPill(at, label) ==
    /\ At(at)
    /\ \/ /\ sw.auto \/ pill.Applied \/ mgr.oldMaster \notin reach
          /\ UNCHANGED spent
       \/ Spend({"pills"})
    /\ Goto(label)
    /\ UNCHANGED <<serverVars, dcsVars, local, reach, broken, writes, forcing>>

\* before phase 2, only when the old master does not answer
FirstPill ==
    /\ At("firstPill")
    /\ IF mgr.oldMaster \in mgr.snap
       THEN Goto("pause") /\ UNCHANGED <<serverVars, dcsVars, envVars>>
       ELSE issuePoisonPill("firstWait")

\* mutant: replication is not stopped
PauseNobody ==
    /\ At("pause")
    /\ mgr' = [mgr EXCEPT !.pc = IF Cardinality(mgr.alive) < mgr.fq THEN "failed" ELSE "choose"]
    /\ UNCHANGED <<serverVars, dcsVars, envVars>>

\* phase 2: replicas that had no link at the start of the pass are skipped and
\* count as stopped
Pause ==
    LET skipped == (mgr.act \cap mgr.snap) \ mgr.links
        done == (mgr.act \cap mgr.snap \cap answers) \ skipped
        alive == mgr.alive \cap (skipped \cup done)
    IN  /\ At("pause")
        /\ paused' = paused \cup done
        /\ mgr' = [mgr EXCEPT !.alive = alive,
                              !.pc = IF Cardinality(alive) < mgr.fq THEN "failed" ELSE "choose"]
        /\ UNCHANGED <<src, ro, offline, num, quorum, log, dcsVars, envVars>>
        /\ keepLinks

\* mutant: the least recent instead of the most recent
LeastRecentNodes == {h \in answers : \A g \in answers : getOffset(h) <= getOffset(g)}

\* phase 3: over every host that answers, not only the active ones
mostRecentNodes == {h \in answers : \A g \in answers : getOffset(g) <= getOffset(h)}

desirableNodes(recent) ==
    {h \in answers \ {sw.from} : h = recent \/ isPartialSyncPossible(h, recent)}

lags(newMaster, mostRecent) ==
    LET offset(h) == IF h \in answers THEN getOffset(h) ELSE 0
    IN  offset(newMaster) # offset(mostRecent)

\* mutant: every attempt chooses anew
ChooseAgain(mostRecent, newMaster) ==
    LET record == [sw EXCEPT !.phase = 3, !.newMaster = newMaster, !.mostRecent = mostRecent]
    IN  /\ At("choose")
        /\ mostRecent \in mostRecentNodes /\ newMaster \in desirableNodes(mostRecent)
        /\ current' = record
        /\ mgr' = [mgr EXCEPT !.sw = record, !.behind = lags(newMaster, mostRecent), !.pc = "catchup"]
        /\ UNCHANGED <<serverVars, dcsMaster, active, pill, envVars>>

Choose(mostRecent, newMaster) ==
    /\ At("choose") /\ sw.phase < 3
    /\ mostRecent \in mostRecentNodes
    /\ IF sw.to # NoHost THEN newMaster = sw.to ELSE newMaster \in desirableNodes(mostRecent)
    /\ LET record == [sw EXCEPT !.phase = 3, !.newMaster = newMaster, !.mostRecent = mostRecent]
       IN  /\ current' = record
           /\ mgr' = [mgr EXCEPT !.sw = record, !.behind = lags(newMaster, mostRecent),
                                 !.pc = "catchup"]
    /\ UNCHANGED <<serverVars, dcsMaster, active, pill, envVars>>

\* getMostDesirableNode found none: replication is resumed
ChooseFails ==
    /\ At("choose") /\ sw.phase < 3
    /\ sw.to = NoHost
    /\ \E recent \in mostRecentNodes : desirableNodes(recent) = {}
    /\ paused' = paused \ (mgr.act \cap mgr.snap \cap answers)
    /\ Goto("failed")
    /\ UNCHANGED <<src, ro, offline, num, quorum, log, lasting, dcsVars, envVars>>

\* the choice of an earlier attempt stands
ChosenBefore ==
    /\ At("choose") /\ sw.phase >= 3
    /\ mgr' = [mgr EXCEPT !.behind = lags(sw.newMaster, sw.mostRecent), !.pc = "catchup"]
    /\ UNCHANGED <<serverVars, dcsVars, envVars>>

\* mutant: the new master is not made to catch up
AttachNever ==
    /\ At("catchup")
    /\ Goto("refresh")
    /\ UNCHANGED <<serverVars, dcsVars, envVars>>

\* phase 4: the new master is attached to the most recent host
Attach ==
    LET new == sw.newMaster
        recent == sw.mostRecent
        needed == sw.phase < 5 /\ new # recent /\ mgr.behind
    IN  /\ At("catchup")
        /\ \/ ~needed /\ Goto("refresh") /\ UNCHANGED <<src, quorum, paused, writes>>
           \/ /\ needed /\ {recent, new} \ answers # {}
              /\ paused' = paused \cup ({recent} \cap answers)
              /\ Goto("failed") /\ UNCHANGED <<src, quorum, writes>>
           \/ /\ needed /\ {recent, new} \subseteq answers
              /\ src' = [src EXCEPT ![new] = recent]
              /\ quorum' = [quorum EXCEPT ![new] = IF src[new] = recent THEN @ ELSE {}]
              /\ paused' = (paused \cup {recent}) \ {new}
              /\ dropClients({h \in {new} : src[h] # recent})
              /\ Goto("wait")
        /\ UNCHANGED <<ro, offline, num, log, dcsVars, local, reach, broken, spent, forcing>>
        /\ keepLinks

\* changeMaster and waitForCatchup return, or give up
WaitForCatchup ==
    /\ At("wait")
    /\ IF {sw.newMaster, sw.mostRecent} \subseteq answers /\ connected(sw.newMaster)
       THEN /\ linked(sw.newMaster)
            /\ getOffset(sw.mostRecent) <= getOffset(sw.newMaster)
            /\ Goto("refresh")
       ELSE Goto("failed")
    /\ UNCHANGED <<serverVars, dcsVars, envVars>>

\* what the look at the hosts before phase 6 is for
psyncNodes == {h \in answers \ {sw.newMaster} : isPartialSyncPossible(h, sw.newMaster)}

Refresh ==
    /\ At("refresh")
    /\ LET record == [sw EXCEPT !.phase = 5]
       IN  CASE sw.newMaster \notin answers -> Goto("failed") /\ UNCHANGED current
             [] sw.newMaster \in answers /\ sw.phase = 6 ->
                    /\ mgr' = [mgr EXCEPT !.snap = psyncNodes, !.pc = "phase6"]
                    /\ UNCHANGED current
             [] OTHER ->
                    /\ mgr' = [mgr EXCEPT !.snap = answers, !.sw = record, !.pc = "setMaster"]
                    /\ current' = record
    /\ UNCHANGED <<serverVars, dcsMaster, active, pill, envVars>>

\* mutant: the requested host is written instead of the chosen one
SetMasterTo ==
    /\ At("setMaster")
    /\ dcsMaster' = sw.to
    /\ Goto("secondPill")
    /\ UNCHANGED <<serverVars, active, current, pill, envVars>>

\* phase 5
SetMaster ==
    /\ At("setMaster")
    /\ dcsMaster' = sw.newMaster
    /\ Goto("secondPill")
    /\ UNCHANGED <<serverVars, active, current, pill, envVars>>

SecondPill == At("secondPill") /\ issuePoisonPill("secondWait")

\* a new master that is the only one left is opened for writes at once
SetNumQuorumReplicas ==
    /\ At("setNum")
    /\ \/ /\ sw.newMaster \in answers
          /\ num' = [num EXCEPT ![sw.newMaster] = IF Cardinality(mgr.alive) = 1 THEN 0
                                                 ELSE getNumReplicasToWrite(mgr.alive)]
          /\ ro' = IF Cardinality(mgr.alive) = 1 THEN ro \ {sw.newMaster} ELSE ro
          /\ Goto("promote")
       \/ /\ sw.newMaster \notin answers
          /\ Goto("failed") /\ UNCHANGED <<num, ro>>
    /\ UNCHANGED <<src, paused, offline, quorum, log, lasting, dcsVars, envVars>>

\* REPLICAOF NO ONE, unless it is a master already, and a look at the hosts
promote ==
    /\ At("promote")
    /\ \/ /\ sw.newMaster \in answers
          /\ src' = [src EXCEPT ![sw.newMaster] = sw.newMaster]
          /\ mgr' = [mgr EXCEPT !.snap = psyncNodes, !.pc = "phase6"]
       \/ /\ sw.newMaster \notin answers
          /\ Goto("failed") /\ UNCHANGED src
    /\ UNCHANGED <<ro, paused, offline, num, quorum, log, dcsVars, envVars>>
    /\ keepLinks

\* phase 6
SavePhase6 ==
    /\ At("phase6")
    /\ updateSwitchover([sw EXCEPT !.phase = 6], "setActive")
    /\ UNCHANGED <<serverVars, dcsMaster, active, pill, envVars>>

SetActiveNodes ==
    /\ At("setActive")
    /\ active' = (mgr.alive \cap mgr.snap) \cup {sw.newMaster}
    /\ mgr' = [mgr EXCEPT !.act = active', !.pc = "open"]
    /\ UNCHANGED <<serverVars, dcsMaster, current, pill, envVars>>

\* repairMaster, whose errors are only logged, and the next look at the hosts
OpenNewMaster ==
    /\ At("open")
    /\ LET new == sw.newMaster
           expected == getNumReplicasToWrite(mgr.act)
       IN  IF new \in answers
           THEN /\ num' = [num EXCEPT ![new] = IF expected > @ THEN expected ELSE @]
                /\ ro' = ro \ {new}
                /\ paused' = paused \ {new}
           ELSE UNCHANGED <<num, ro, paused>>
    /\ mgr' = [mgr EXCEPT !.snap = answers, !.pc = "turn"]
    /\ UNCHANGED <<src, offline, quorum, log, lasting, dcsVars, envVars>>

turning == (mgr.act \cap mgr.snap) \ {sw.newMaster}

TurnReplicas ==
    /\ At("turn")
    /\ repairReplica(turning \cap answers, sw.newMaster)
    /\ Goto("turned")
    /\ UNCHANGED <<ro, offline, num, log, dcsVars, local, reach, broken, spent, forcing>>
    /\ keepLinks

\* every changeMaster returns; one that does not see its link up is an error
Turned ==
    /\ At("turned")
    /\ IF \A h \in turning : h \in answers /\ connected(h)
       THEN (\A h \in turning : linked(h)) /\ Goto("finished")
       ELSE Goto("failed")
    /\ UNCHANGED <<serverVars, dcsVars, envVars>>

-----------------------------------------------------------------------------
(* The end of the pass: an aborted switchover, failSwitchover or           *)
(* finishSwitchover.                                                       *)

CheckAborted ==
    /\ At("failed")
    /\ IF current.exists THEN Goto("failSwitchover") ELSE mgr' = Idle
    /\ UNCHANGED <<serverVars, dcsVars, envVars>>

failSwitchover ==
    /\ At("failSwitchover")
    /\ current' = Switch(sw.auto, sw.from, sw.to, TRUE)
    /\ mgr' = Idle
    /\ UNCHANGED <<serverVars, dcsMaster, active, pill, envVars>>

finishSwitchover ==
    /\ At("finished")
    /\ current' = NoSwitch
    /\ mgr' = Idle
    /\ UNCHANGED <<serverVars, dcsMaster, active, pill, envVars>>

performSwitchover ==
    \/ startSwitchover \/ InitProgress
    \/ ReadOnly \/ FirstPill \/ waitPoisonPill("firstWait", "pause") \/ Pause
    \/ \E mostRecent, newMaster \in Hosts : Choose(mostRecent, newMaster)
    \/ ChooseFails \/ ChosenBefore
    \/ Attach \/ WaitForCatchup \/ Refresh
    \/ SetMaster \/ SecondPill \/ waitPoisonPill("secondWait", "setNum") \/ SetNumQuorumReplicas \/ promote
    \/ SavePhase6 \/ SetActiveNodes \/ OpenNewMaster \/ TurnReplicas \/ Turned
    \/ CheckAborted \/ failSwitchover \/ finishSwitchover

\* a candidate that a pill is for does not ask for the lock
candidates == Hosts \ {pill.host}

\* the calls after the path master is written
Renamed == {"secondPill", "secondWait", "setNum", "promote", "phase6", "setActive", "open",
            "turn", "turned", "finished"}

\* late: the next attempt takes the new master for the one to be replaced
Interrupted(again) ==
    Spend(IF again /\ mgr.pc \in Renamed THEN {"crashes", "late"} ELSE {"crashes"})

\* The manager dies or stops in the middle, and there is another one; or a call fails,
\* and failSwitchover forgets what the switchover has come to.
Crash ==
    /\ mgr.pc # "idle"
    /\ \/ /\ Interrupted(sw.phase = 5)
          /\ mgr' = Idle /\ local' \in candidates
       \/ /\ Interrupted(TRUE)
          /\ mgr.pc \notin {"start", "failed", "failSwitchover", "finished"}
          /\ Goto("failed") /\ UNCHANGED local
    /\ UNCHANGED <<serverVars, dcsVars, reach, broken, writes, forcing>>

\* Between two passes the role moves to another host.
NewManager ==
    /\ mgr.pc = "idle"
    /\ Spend({"crashes"})
    /\ local' \in candidates \ {local}
    /\ UNCHANGED <<serverVars, dcsVars, mgr, reach, broken, writes, forcing>>

-----------------------------------------------------------------------------
(* The operator: rdsync switch and rdsync abort.                           *)

CliSwitch(record) ==
    /\ ~current.exists
    /\ current' = record
    /\ UNCHANGED <<serverVars, dcsMaster, active, pill, mgr, local, reach, broken, writes>>

CliSwitchFrom ==
    /\ Spend({"switches"})
    /\ active \ {dcsMaster} # {}
    /\ CliSwitch(Switch(FALSE, dcsMaster, NoHost, FALSE))
    /\ UNCHANGED forcing

CliSwitchTo(h) ==
    /\ Spend({"switches"})
    /\ h \in active \ {dcsMaster}
    /\ CliSwitch(Switch(FALSE, NoHost, h, FALSE))
    /\ UNCHANGED forcing

\* --force: the host becomes the only active one ...
CliForceActive(h) ==
    /\ Spend({"switches", "forced"})
    /\ ~current.exists
    /\ h \in active \ {dcsMaster}
    /\ active' = {h}
    /\ forcing' = h
    /\ UNCHANGED <<serverVars, dcsMaster, current, pill, mgr, local, reach, broken, writes>>

\* ... and the record, which needs no approval, is created unless there is one
CliForceSwitch ==
    /\ forcing # NoHost
    /\ forcing' = NoHost
    /\ IF current.exists
       THEN UNCHANGED <<serverVars, dcsVars, mgr, local, reach, broken, writes>>
       ELSE CliSwitch(Switch(FALSE, NoHost, forcing, TRUE))
    /\ UNCHANGED spent

CliAbort ==
    /\ current.exists
    /\ Spend({"aborts"})
    /\ current' = NoSwitch
    /\ UNCHANGED <<serverVars, dcsMaster, active, pill, mgr, local, reach, broken, writes, forcing>>

-----------------------------------------------------------------------------
stateManager ==
    \/ WaitPass \/ FailoverPass \/ NotApproved \/ TimedOut \/ BeginSwitchover
    \/ \E repaired \in SUBSET Hosts, kept \in SUBSET (active \ answers), update \in BOOLEAN :
            RepairPass(repaired, kept, update)

Next ==
    \/ stateManager \/ performSwitchover \/ Crash \/ NewManager
    \/ \E h \in Hosts : applyPoisonPill(h) \/ repairLocalNode(h)
    \/ \E h \in Hosts, n \in WriteIds : ClientWrite(h, n)
    \/ \E n \in WriteIds : Acknowledge(n)
    \/ \E h \in Hosts : Replicate(h) \/ NetworkChange(h)
    \/ CliSwitchFrom \/ CliForceSwitch \/ CliAbort
    \/ \E h \in Hosts : CliSwitchTo(h) \/ CliForceActive(h)

Spec == Init /\ [][Next]_vars

\* The ticker of App.Run starts passes for ever on every host, an approved
\* failover is made once failover_timeout and failover_cooldown are over, and
\* valkey replicates over a link that works.
Fairness ==
    /\ WF_vars(stateManager) /\ WF_vars(performSwitchover)
    /\ WF_vars(FailoverPass)
    /\ \A h \in Hosts :
            /\ WF_vars(Replicate(h))
            /\ WF_vars(applyPoisonPill(h))
            /\ WF_vars(repairLocalNode(h) /\ h \notin offline')

FairSpec == Spec /\ Fairness

-----------------------------------------------------------------------------
Records == [exists : BOOLEAN, auto : BOOLEAN, from : Hosts \cup {NoHost},
            to : Hosts \cup {NoHost}, phase : {0, 1, 3, 5, 6},
            newMaster : Hosts \cup {NoHost}, mostRecent : Hosts \cup {NoHost},
            retried : BOOLEAN]

PCs == {"idle", "start", "progress", "target", "firstPill", "firstWait", "pause",
        "choose", "catchup", "wait", "refresh", "setMaster", "secondPill",
        "secondWait", "setNum", "promote", "phase6", "setActive", "open", "turn",
        "turned", "failed", "failSwitchover", "finished"}

\* the calls between the comparison of the positions and the new active nodes, and
\* those of them before which the new master may have been opened
Opened == {"promote", "phase6", "setActive"}
Compared == Opened \cup {"choose", "catchup", "wait", "refresh", "setMaster", "secondPill",
                         "secondWait", "setNum"}

\* The type invariant: every host has a source, the DCS path master always names
\* a host of the shard, and the records are as types.go declares them.
TypeOK ==
    /\ src \in [Hosts -> Hosts]
    /\ {ro, paused, offline, lasting, active, reach, broken} \subseteq SUBSET Hosts
    /\ num \in [Hosts -> 0 .. Cardinality(Hosts)]
    /\ quorum \in [Hosts -> SUBSET Hosts]
    /\ log \in [Hosts -> SUBSET WriteIds]
    /\ dcsMaster \in Hosts
    /\ current \in Records /\ mgr.sw \in Records
    /\ pill \in [host : Hosts \cup {NoHost}, Applied : BOOLEAN]
    /\ mgr.pc \in PCs
    /\ {mgr.snap, mgr.links, mgr.act, mgr.alive} \subseteq SUBSET Hosts
    /\ mgr.oldMaster \in Hosts \cup {NoHost}
    /\ local \in Hosts /\ forcing \in Hosts \cup {NoHost}
    /\ \A n \in WriteIds : writes[n].state \in {"none", "waiting", "acked", "unknown"}

\* hosts on which a client's next write can be acknowledged as things stand
acknowledging ==
    {h \in Hosts : /\ writable(h)
                   /\ Cardinality({r \in quorum[h] : src[r] = h /\ linked(r)}) >= num[h]}

\* A write that WAITQUORUM has acknowledged to a client is in the history of every
\* host on which another write can be acknowledged: performSwitchover loses none,
\* whichever host it chooses and whatever dies while it works, until the operator
\* gives writes up with rdsync switch --force, the network changes once more, or the
\* manager is interrupted after the path master is written: the attempt after that
\* takes the new master offline and may choose a host without its writes.
AckedKept ==
    spent.forced = 0 /\ spent.faults <= 1 /\ spent.late = 0 =>
        \A h \in acknowledging : acked \subseteq log[h]

\* A write that WAITQUORUM has acknowledged is never lost, also when the network
\* changes more than once during a failover: what the checker of the Jepsen test
\* says of every element that was added.
NoAckedWriteLost == \A h \in acknowledging : acked \subseteq log[h]

\* There is never more than one host on which a client's write can be
\* acknowledged: performSwitchover opens a new master only when the old one is
\* read-only, offline or without the replicas it needs.
OneMaster == Cardinality(acknowledging) <= 1

\* From the comparison of the positions until the new active nodes are written,
\* the hosts that were made read-only and stopped cover every quorum of the active
\* nodes: whichever hosts hold a write that was acknowledged (the master and the
\* replicas it waits for), one of them was counted, and it is still read-only or is
\* the new master that has been opened.  The active nodes were read at the start
\* of the pass; only rdsync switch --force changes them meanwhile.
PositionsCoverQuorum ==
    mgr.pc \in Compared /\ spent.forced = 0 =>
        \A holders \in SUBSET active :
            Cardinality(holders) > getNumReplicasToWrite(active) =>
                \E h \in holders \cap mgr.alive :
                    h \in ro \/ (mgr.pc \in Opened /\ h = sw.newMaster)

\* The choice of a new master stands for as long as current_switch has one: a
\* manager that takes over from one that died, and one whose record was aborted
\* and replaced, go on with the host that may have been promoted already.
ChoiceStands ==
    [][current.exists /\ current.phase >= 3 /\ current'.exists /\ current'.phase >= 3
       => current'.newMaster = current.newMaster]_vars

\* the one host that can acknowledge, for the abstract specification
primary ==
    LET hosts == acknowledging
    IN  IF Cardinality(hosts) = 1 THEN CHOOSE h \in hosts : TRUE ELSE NoHost

S == INSTANCE Shard WITH
        held <- IF primary = NoHost THEN {} ELSE log[primary],
        kept <- spent.forced = 0 /\ spent.faults <= 1 /\ spent.late = 0

\* The calls of performSwitchover, of the passes of stateManager and of the hosts'
\* own rdsync implement the promise of Shard: a host takes over the role of
\* acknowledging writes with every acknowledged write, forgets none while it has
\* the role, and nothing is acknowledged while no host has it.
ImplementsShard == S!Spec

\* the DCS names a host that was never promoted, after an abort or a timeout
unpromoted == spent.aborts + spent.timeouts > 0 /\ ~isMaster(dcsMaster)

\* the switchover has taken its own new master offline, and cannot reach it
blocked == spent.late > 0 /\ current.exists /\ pill.host = dcsMaster /\ dcsMaster \in offline

\* After a failure of the master or of a replica, its return, or the death of the
\* manager in the middle of the failover, the shard ends up with the master that
\* the DCS names, and only with it, able to acknowledge writes, and with no
\* switchover under way: the passes of stateManager and repairLocalNode do not
\* wait for each other.  There are two ways out.  A failover that is aborted or times
\* out between the write of the path master and promote: nobody promotes then.  And
\* one that is interrupted there or later: the next attempt issues the pill for the
\* new master, which goes offline, answers no other host, and comes back only when
\* the record is gone, after switchover_timeout.
Recovers ==
    [](spent.faults <= 1) \/ <>[](broken \cap reach = {}) =>
        \/ <>[](/\ ~current.exists /\ mgr.pc = "idle"
                /\ acknowledging = {dcsMaster} \/ unpromoted)
        \/ <>[]blocked

\* A switchover that rdsync abort has removed stays removed: the manager that
\* performs it never puts current_switch back (updateSwitchover).
AbortedStaysAborted ==
    [][~current.exists /\ current'.exists => mgr.pc = "idle" \/ mgr' = mgr]_vars
=============================================================================
