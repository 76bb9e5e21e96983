# A TLA+ model of rdsync

rdsync keeps one shard of a patched valkey available: a daemon runs on every
host, one of the daemons is the manager, and ZooKeeper (the DCS) holds what they
agree on. This directory models the decisions that can lose data, leave a shard
with two masters or with none, or stall it; checks them with TLC on small shards;
and proves with TLAPS, for every shard and every bound, what does not depend on how
many things go wrong, and what one failure or one switchover cannot do.

## The system

| component (source) | state | operations | talks to |
|---|---|---|---|
| main loop and states (`app.go`, `init.go`, `candidate.go`) | `app.state`, `lostSince` | stateInit, stateCandidate, stateManager, stateLost, stateMaintenance, one per tick | everything |
| manager lock and session (`dcs/zk.go`, `critical.go`) | ephemeral key `manager`, `lockHeld`, `isConnected`, `closeTimer` | AcquireLock, ReleaseLock, session events, disconnectCallback | ZooKeeper; ends the process in a critical section |
| active nodes (`active_nodes.go`) | key `active_nodes`; on the master `quorum-replicas`, `quorum-replicas-to-write` | calcActiveNodes, applyActiveNodesTransition | DCS and master, one call after another |
| maintenance (`maintenance.go`, `cli.go`) | key `maintenance`, a file per host | enterMaintenance, leaveMaintenance, maint on/off | the same settings as active nodes |
| switchover and failover (`switchover.go`, `failover.go`, `master.go`, `lag.go`) | keys `current_switch`, `master`, `last_switch`, `last_rejected_switch` | performFailover, approve..., start..., perform..., fail..., finishSwitchover | every server, the DCS |
| poison pill (`poison_pill.go`) | key `poison_pill` | issue, apply, wait, clear | the old master's daemon |
| repair (`repair.go`, `replication.go`) | `nodeFailTime`, `replFailTime`, `dcsDivergeTime` | repairShard, repairMaster, repairReplica, repairLocalNode, closeStaleReplica | servers; the local one of each host |
| lost state (`lost.go`, `checks.go`) | - | the local server goes offline, or stays online with enough replicas | local server |
| health (`state.go`, `local.go`, `node.go`) | keys `health/<host>`, the window of pings | getHostState, healthChecker, EvaluatePing | input of every decision |
| membership (`valkey/shard.go`, `cli.go`) | children of `ha_nodes`, `shard.nodes` | host add, host remove, UpdateHostsInfo | every pass |
| valkey (`valkey_patches`, `node.go`) | role, read-only, offline, paused, quorum options, replication history | WAITQUORUM, REPLICAOF, CONFIG SET | clients, replicas |
| sentinel cache (`cache.go`, `senticache.go`) | the cache's view of the shard, `broken` | cacheUpdater, the notice of phase 6, Update | clients |
| command line (`cli.go`) | - | switch, abort, maint, hosts | DCS only |

What is hard: the settings of one decision live in several places and are written
one call at a time; a manager may die, lose its session or be replaced between
any two calls, and the next one resumes from what it finds; what a pass knows of a
host is a snapshot taken at its start; a host that the manager cannot reach may
still serve clients, replicate, and run its own daemon; the operator's commands
are read-modify-write sequences on the same keys; requests to ZooKeeper whose
answer is lost are sent again; one clock of failures serves repairs and failovers;
a cache is written by two processes that know nothing of each other. `PROJECT.json` lists these hazards at their lines
with the properties that cover them.

What makes it correct: acknowledged writes survive (active nodes, switchover); at
most one host acknowledges writes (switchover, pill, repair); the shard gets its
master back (all of them together); a failover is neither early nor forgotten, and
a host that can be open is (health, repair); clients are sent to a master that is
open (sentinel cache); there is one manager (lock); settings that a
failure has torn apart come together again (active nodes, maintenance); what the
operator was told happens (abort, maint off).

## The modules

**`ActiveNodes`** is `active_nodes.go` and `maintenance.go`, seen from the one
manager of a shard whose master does not change. `pc` is the next call; each call
of applyActiveNodesTransition, enterMaintenance and leaveMaintenance that changes
something is an action (`Raise` ... `ShrinkNum`, `EnterNum` ...
`LeaveDelete`). `updateActiveNodes` takes any view of the replicas:
`Observations` are the cases that calcActiveNodes tells apart. `Abort` ends the
pass anywhere: an error and the death of the manager leave the same state. That a
call which fails may have had its effect is covered by `Abort` right after it.
`RepairLocalNode` is the other writer of `quorum-replicas-to-write`: the rdsync of an
offline master raises the quorum before it opens the master, between any two calls of
the manager. `active_nodes` has two more writers, phase 6 and `switch --force`; both
come with a new master, therefore they are in `Switchover`.

**`ActiveNodesLive`** adds an environment that calms down (`MaxDisturbances`) and
fairness. In maintenance the quorum is 0, with one exception that TLC has found: when
repairLocalNode opens the master between the two writes of enterMaintenance, the quorum
that it has raised stays for the whole maintenance (`raised`). **`QuorumWrites`** adds one client write and WAITQUORUM as
`0004_Add_waitquorum_command.patch` implements it.

**`Switchover`** is a shard in sentinel mode: servers (`src`, `ro`, `paused`,
`offline`, `num`, `quorum`, `log`), the DCS keys `master`, `active_nodes`,
`current_switch` and `poison_pill`, and the manager, whose record `mgr` holds the
next call of performSwitchover (`pc`) and its local variables: the views `snap`
and `links` of the last look at the hosts, `act` (activeNodes), `alive`
(aliveActiveNodes), `fq` (failoverQuorum). Between two passes `mgr` is `Idle`; a
pass without a switchover is one action (`WaitPass`, `FailoverPass`,
`RepairPass`), performSwitchover one action per call whose effect another process
can see. Calls that runParallel makes are one action, in which the hosts that
cannot be reached fail. `Crash` ends the manager, or makes a call fail, at any
point. The following are merged and could be split: removing and issuing a pill;
SetReadWrite and SetNumQuorumReplicas before promote; REPLICAOF and resume in
repairReplica; the calls of updateActiveNodes (`ActiveNodes` splits those). The
daemons of the hosts act on their own: `applyPoisonPill` and `repairLocalNode`.

An offline server listens on the loopback address only (`0003_Add_offline_mode.patch`),
and SetOffline disconnects its clients. So the manager gets an answer from an offline host
only if it runs on that host (`local`, `answers`): any other manager counts it as dead, and
its calls to it fail. `NewManager` and `Crash` move the role to any host that has no pill
(`candidates`). No replica gets a new link to an offline host; one that it has, stays
(`lasting`, `admitted`), because CLIENT KILL is sent with the types normal and pubsub only.

How often writes, faults, crashes, operator's commands and so on have happened is
counted in `spent`, by `Kinds`; some record of `Budgets` has to have room for all of
them, so that one run covers several combinations without their product. What the manager reaches (`reach`) and what can
replicate (`broken`) change independently: a host may be dead, or cut off from either. A history is a set of
write numbers; offsets are their size.

**`Shard`** is what a shard promises its clients: a host (`primary`) acknowledges
writes, steps down and takes over, and takes over only with every acknowledged
write. `Switchover` implements it (`ImplementsShard`): `primary` is the one host on
which a write can be acknowledged as things stand, `held` its history, and `kept`
ends with the first `--force`, a second change of the network or an interruption after
the key `master` is written, as in `AckedKept`.
The refinement says more than the invariants: a step of Switchover never moves the
role and acknowledges at the same time, a host with the role never loses a write
it has, and nothing is acknowledged while no host has the role.

**`HostHealth`** is one host, a master to begin with, with its own rdsync and one
elsewhere, either of which may be the manager. In `Switchover` a host that has
failed is failed over at some time; here time is counted in ticks, in which each
rdsync makes a pass and healthChecker writes the health key once. The local pass
is repairLocalNode (`Open`, `RestartFailed`, `ScriptKill`), then, of a manager, the
decision (`LocalDecide`) on what it saw at its start; or applyPoisonPill and
`WriteBack`; or stateLost. `fail` is nodeFailTime of the host in both processes,
`misses` the window of pings, `seen` what the local manager saw. The host may
hang, crash, lose its data or its disk, load for `LoadTicks`, and lose the DCS; when it
is offline, the rdsync elsewhere gets no answer (`answers`). The other hosts are well, so
that a failover succeeds unless an attempt fails, before or after the key `master` is
written (`Perform`, with the pills of phases 1 and 5); whether they are stale or connected
is chosen freely.

**`SentiCache`** is one senticache, its two writers (`cacheUpdater` of the local
rdsync and `notifySentiCaches` of a manager in phase 6), the health keys with the
sessions that own them, and the members of the shard (`CliHostAdd`,
`CliHostRemove`, `UpdateHostsInfo`). Update is three steps: `ReadSentinels`, which
begins with the restart after an error, `ReadReplicas` and `CacheUpdate`. The
servers change freely. Which command line and which error a broken cache gives is
left out: a cache is up, or dead until Update restarts it.

**`ManagerLock`** is the key `manager`, the ZooKeeper session, and per host the
client (`zkDCS`) and the state of App.Run. AcquireLock is four steps (`Load`,
`GetOwner`, `CreateEphemeral`, `Store`), because the goroutine of the session
events runs in between. There is no clock: a timer may expire at any time, a
session that is not connected may be dropped at any time, an event may be handled
late; a process that stands still for a minute is among the behaviours. A
`Disconnect` may lose the answer of a create or a delete that was carried out.

The modules `...Proofs` hold the theorems, each about the module it is named after
(`FailoverProofs` about `Switchover`, on top of `SwitchoverProofs`); the `MC` modules give the constants their values.

## The runs

| run | bounds | checks | result |
|---|---|---|---|
| `active_nodes` | 3 hosts, 3 disturbances | TypeOK, MajorityAcknowledges, QuorumsIntersect, JoinsAreCovered, Converges | hold, 78 thousand states |
| `maintenance_off` | the same | DisableIsHonoured | violated |
| `quorum_writes` | 3 hosts, 1 write | AcknowledgedWriteSurvives | violated |
| `switchover` | 3 hosts, at most 2 out of the manager's reach; one of these budgets: 2 writes, 1 fault, 1 crash before the key `master` is written and 1 abort; 1 write, 1 fault, 1 crash at any time and 1 abort; 1 write, 2 faults and 1 abort; 2 writes, 1 switchover (`--from`, `--to`), 1 abort, 1 timeout, 1 pill not applied in time; the same with `--force` and every pill applied | TypeOK, AckedKept, OneMaster, PositionsCoverQuorum, ChoiceStands, ImplementsShard | hold, 777 thousand |
| `recovery` | 3 hosts; 1 write and 2 faults; 1 write, 1 fault, 1 crash at any time and 1 abort; 1 fault, 1 crash at any time and 1 timeout | Recovers | holds, 533 thousand |
| `failover_heals` | 3 hosts, 1 write, 2 faults | NoAckedWriteLost | violated |
| `abort_undone` | 3 hosts, 1 switchover, 1 abort | AbortedStaysAborted | violated |
| `manager_lock` | 2 hosts, 1 disconnect, 1 kill, 1 manager that gives up, 1 reconnect | TypeOK, KeptSessionExclusive, ManagersConverge | hold, 894 thousand |
| `release_lock` | 2 hosts, 1 disconnect, 1 manager that gives up | ReleasesOnlyItsOwn | violated |
| `senticache` | the cache of a replica, 3 hosts, 3 disturbances | TypeOK, AnnouncedWasOpen, CacheConverges | hold, 171 thousand |
| `host_health` | 2 disturbances; window of 2 pings, failover and restart after 2 ticks, SCRIPT KILL after 1, loading takes 4 | TypeOK, LoadingLeftAlone, FailoverNotEarly, Reopens, FailedOver | hold, 323 thousand |
| `failover_delay` | the same, 3 disturbances | FailoverDelayRespected | violated |

Why the bounds are enough to say something: three hosts, the size the repository
tests, are the smallest shard in which a quorum is not everybody, so that a
replica can be left behind, skipped or cut off while the others go on (the
theorems about the quorum hold for every size and both parities); two writes are
what it takes for one replica to be ahead of another and for a backlog
(`Backlog = 1`) to be too short; one fault and one crash reach every phase of a
switchover in every order; a second fault is the host that comes back. A record that
times out is, to the safety properties, one that is aborted between two passes, so that
only `recovery` has both with a failure. For the
lock, one host that has it and one that wants it are the whole conflict. Three
disturbances are a switchover seen through a dead cache and an expired session. A
server that loads for longer than restart_timeout and failover_timeout is the case
in which the clocks could go wrong; two disturbances are a crash with a loss of the
DCS, a manager that moves, or an attempt that fails.

Symmetry is used on the replicas in the runs without liveness properties: Init
and every property treat them alike, and the constants name only the master.

### Fairness

- `ActiveNodesLive`: the ticker of App.Run starts passes for ever, and a command
  that has read a key goes on to write it.
- `Switchover`: passes and the calls of performSwitchover go on; an approved
  failover is started (failover_timeout and failover_cooldown end); replication
  over a working link makes progress; a daemon applies its pill and brings its
  host online when it may. The network is not assumed to heal.
- `HostHealth`: time passes and every rdsync has its turn in every tick; the DCS
  comes back; a replica that is up gets its link. One assumption is of strong
  fairness: the manager's pass does not fall between the candidate's reading of
  the pill and its write-back in every tick for ever. Without it a removed pill is
  written back for ever, and the host stays offline; the processes have tickers of
  their own and the window is a call or two wide.
- `SentiCache`: the tickers of healthChecker, cacheUpdater and the main loop go on,
  an update that has begun is finished, and sessions that nobody keeps expire.
- `ManagerLock`: handlers and event goroutine run, the ZooKeeper client connects
  again (it retries for ever), cached answers age, the session of a dead process
  expires. No fairness for timers that may as well be stopped.

### Assumptions on the environment

- `PromptReplication`: a replica whose link is up has caught up when a repair pass
  takes it into the active nodes. The code looks at the link only, so that without
  the assumption a host that joins while it lags can be chosen over acknowledged
  writes.
- `QuorumWrites`: links do not come and go within a pass, and linked replicas
  receive a write before the manager's next call. Both only remove behaviours from
  a run that finds a violation.
- A pill that a live host does not apply within wait_poison_pill_timeout is
  considered for ordinary switchovers, not once `--force` was used: a forced
  switchover that goes on without the pill does lead to two masters.
- failover_timeout is not longer than restart_timeout (`HostHealthAssumption`):
  otherwise a manager on the host of the failed master puts the clock of the
  failover back with every restart. For the same reason `FailedOver` speaks of a
  master that loads and dies again and again only with a manager elsewhere.
- failover_cooldown is not modelled. A planned switchover and a crash right after it
  would let two passes undo each other's failover for ever in `recovery`; the
  cooldown is what prevents that, therefore no budget of that run has both.
- reconnectDCS comes after dcs_reconnect_timeout, longer than a session.
- `AckedKept` ends with the first `--force`, with which the operator makes one
  host the only active one; with a second change of the network, after which it
  does not hold (`failover_heals`); and with a manager that dies, or a call that fails,
  after the key `master` is written (the kind `late`), after which it does not hold
  either: see below.

## What the violated runs show

1. `maintenance_off`: enterMaintenance writes back the record as it was at the
   start of the pass. `rdsync maint off` in between prints "maintenance disable
   scheduled", and its flag is overwritten.
2. `quorum_writes`: when hosts leave, `active_nodes` shrinks before
   `quorum-replicas`. A host that has left can acknowledge a write in between,
   and a failover from the new set does not have it. The Jepsen checker calls such
   a run invalid.
3. `failover_heals`: a replica whose link is down is not paused in phase 2. When
   the old master comes back in the middle of its failover, the replica links up
   with it and acknowledges a write that the new master never gets.
4. `abort_undone`: the phases of performSwitchover write `current_switch` with
   Set, which creates it again after `rdsync abort` has printed "switchover
   aborted".
5. `release_lock`: a delete of the lock whose answer was lost is sent again, by
   version, and every lock has version 0: it may delete another host's lock. The
   two managers that can follow do not last (`ManagersConverge`).
6. `failover_delay`: the failure time of the master stays with a manager that loses
   the role. When it has the role again and finds the master failing in its first
   pass, it starts a failover at once, although the master was well in between. As
   long as the manager stays the same, the delay is respected (`FailoverNotEarly`).

### What the passing runs leave out

A manager that dies, or whose call fails, after SetMaster of phase 5 leaves a shard in which
the key `master` names the new host. The next attempt takes that host for the old master,
issues the pill of phase 5 for it (`switchover.go:348`), and its own rdsync takes it offline;
the manager on any other host cannot reach it from then on. Two things can follow, each from
one failed host and one such interruption:

- *The retries block themselves.* The promotion is refused, or a quorum is never found, and
  every retry fails in the same way. As long as `current_switch` exists the pill is not
  cleared, and the host does not come online, until switchover_timeout ends the record.
  `Recovers` names this case (`blocked`). If the host had not been promoted, the record's end
  leaves a shard whose key `master` names a replica: the next case of `Recovers`.
- *A write is lost.* The new master was open and has acknowledged a write before it goes
  offline. `active_nodes` may be two hosts by then, the failover quorum 1, and the retry
  promotes the other replica without that write. `AckedKept` and the `kept` of `Shard` end
  with such an interruption (`late`); OneMaster, PositionsCoverQuorum and ChoiceStands hold
  through it.

`Recovers` allows one more way out: a record that times out or is aborted between the write
of the key `master` and the promotion leaves a shard without a master (`unpromoted`). There is
no third.

With more faults or switchovers in a row, `AckedKept` and `OneMaster` do not hold either; the
causes that were found are hazards in `PROJECT.json`: repairLocalNode resumes a replica that
a switchover has paused; an inactive host, or the offline host of the manager itself, can be
chosen as new master.

## The proofs

`ActiveNodesProofs`, for every finite set of hosts:

- `TypeCorrect`, `MajorityAlways`, `QuorumsAlwaysIntersect`, `JoinsAlwaysCovered`:
  Spec => []TypeOK, []MajorityAcknowledges, []QuorumsIntersect, and the action
  property JoinsAreCovered.
- MajorityAcknowledges is not inductive: whether the next call keeps it depends on
  what the manager has read. `IndInv` adds that a pass works on the set that is in
  the DCS and was covered when it began (`PassInv`), what each call of a
  transition relies on (`TransitionInv`: before a set is published the quorum
  is already large enough for it, and in the growing branch nobody outside it
  can acknowledge), and that the requirement, suspended by maintenance, is restored
  before the record is deleted (`MaintenanceInv`). repairLocalNode may raise the quorum
  between any two calls, therefore the parts bound it from below and compare it with the
  value that a pass has read.
- QuorumsIntersect follows from it by counting (`QuorumOverlap`): at least half of
  the active nodes acknowledge, the rest plus the master is too few for a
  failover quorum.

`ManagerLockProofs`, for every set of hosts and every value of the bounds:

- `TypeCorrect` and `KeptSessionsExclude` (KeptSessionExclusive). The inductive
  invariant is that a belief is right: a host that has kept its session and has a
  cached answer, or is about to store one, or is in a pass, is the owner in the
  key, as long as no manager has given up. Only its own session's end or a release
  can take the key away, and both are excluded.

`ActiveNodesLiveProofs`: `LiveImplementsActiveNodes` (LiveSpec => Spec) and
`LiveIsSafe`. The run `active_nodes` checks ActiveNodesLive, whose view of the
replicas is a variable and whose disturbances are counted; the theorems above are
about ActiveNodes. Every step of the one is a step of the other or leaves its
variables alone, because the view is always one that updateActiveNodes may meet.

`SwitchoverProofs`, for every finite set of hosts and every set of budgets, so for any
number of faults, crashes, aborts, timeouts and commands in any order:

- `TypeCorrect`: the key `master`, the sources and the records never name anything but
  hosts of the shard. It needs to know that a record has its two hosts from phase 3
  on, in the DCS and in the manager's copy, and that no call acts on a new master
  before (`Named`, `Acting`). The proof goes by groups of variables (`ServerStep`,
  `DcsStep`, `EnvStep`, `MgrStep`).
- `PositionsAlwaysCoverQuorum`: from phase 3 until the new active nodes are written, every
  set of active nodes that can hold an acknowledged write has a member that was made
  read-only, was counted, and is read-only still, or is the new master. Two parts of
  the invariant carry it. `CountInv`: what the manager has read, and then the quorum
  and the members it has counted, are those of `active_nodes` as it still is, as only
  `--force` and the manager itself write that key during a switchover. `StoppedInv`: nobody
  opens a counted host; a host's own rdsync only adds to the read-only ones, and
  repairMaster waits for the manager. The rest is counting (`QuorumCovers`). This is
  the half of "no acknowledged write is lost" that holds whatever the network does;
  what fails with a second fault (`failover_heals`) is that a counted host is read-only
  but not always paused.
- `ChoiceAlwaysStands`: as long as `current_switch` names a new master, no step names
  another. The invariant (`SameChoice`) is that a manager at work has a copy with the
  same choice; a record that is aborted and made anew under its hands has none.
- `ShardKeepsAcked`: ImplementsShard implies AckedKept wherever there is one master. With
  `ShardProofs` (`TypeCorrect`, `AlwaysDurable`) it says what the refinement is worth.

`FailoverProofs`, for every finite set of hosts, every number of writes, every
max_parallel_syncs and every backlog: `OneFailureKeepsAcked` (AckedKept),
`OneFailureOneMaster` (OneMaster) and `OneFailureImplementsShard` (ImplementsShard). They
are about behaviours with one disturbance, and the statements say so:

- `Limited`, always: the network changes once or the operator asks for one switchover, not
  both, and never with `--force`;
- `DiesEarly`, of every step: no manager dies, and no call fails, while the key `master`
  names another host than the first master.

Within that anything may happen in any order and any number of times: managers that die
before the key is written, aborts, records that time out or are not approved, pills that are
not applied in time, retries of the failover. The two hypotheses are where the properties
end: a second change of the network costs writes (`failover_heals`), and so do the
sequences that the section above names.

The argument has three stages, and the invariant `Staged` says that the shard is in one of
them, with no interruption of the kind `late`. Only the first master ever goes offline, and
not before it has been replaced or cut off, so that every host the manager has to reach
answers it wherever it runs (`StageAnswers`). *Steady*: the first master serves. No failover is approved, also when only the manager
has lost the master, because every replica still runs (`SteadyApproves`). Until something is
disturbed every write needs a replica, so that each acknowledged one has a copy.
*Replacing*: the master is down or to be replaced, the key `master` still names it. It is
the only source of writes, so every history is a beginning of its own one, and the host with
the largest offset has what every other has (`SegmentSize`, `MostRecentHolds`). A choice that
is in a record or in the manager's hands (`Sound`, `Chosen`) was made when the master could
acknowledge no more (`Fenced`: it is cut off and waits for a replica, or it is read-only and
its clients are gone), hence it is still right when a later manager goes on with it.
*Replaced*: the key names the new host. The old master stays fenced, the new one has every
acknowledged write, no other replica is promoted, and the manager cannot be sent back to an
earlier call.

The refinement needs one more thing: a client that has been waiting since before is not
answered at a time when no host could acknowledge a new write. `Answers` adds what a host
that answers has in each stage: as long as it is open, its `quorum-replicas` are linked to
it and enough (`Ready`); the ones that wait on a steady master wait for at least as many
replicas as it needs now, because its active nodes only become fewer; and a new master is
open before anybody can wait on it, and counts on nobody before the first pass after the
switchover. With `Answers` each step is a Write, an Acknowledge, a StepDown or a TakeOver of
Shard, or a stutter (`ShardStep`). TLC checked `Staged` and `Answers` under the two
hypotheses on shards of one to four hosts before they were proved.

`HostHealthProofs`, for every ping window, timeout, loading time and number of
disturbances that `HostHealthAssumption` allows:

- `TypeCorrect`, `LoadingIsLeftAlone` (LoadingLeftAlone), `FailoverIsNotEarly`
  (FailoverNotEarly).
- FailoverNotEarly needs to know how a clock in one process relates to what has really
  happened to the host: `Timing` says that the failure time a manager keeps, as long as
  the role has not moved, is not ahead of the time the host has been unwell; in every
  tick that the entry survives, something was wrong with the host. `SoundHost` says
  what a sound host is (one that is offline is not), `DecideView` that what a local manager saw at the start of its
  pass is a reason to call the host unwell if it decides to fail it over, `NotManager`
  that an rdsync which has lost the DCS or applies a pill is not that manager. Types
  and these four are inductive together; TLC checked the conjunction with three
  disturbances first.

`SentiCacheProofs`, for every set of hosts and any number of disturbances:

- `TypeCorrect`, `AnnouncedAlwaysWasOpen` (AnnouncedWasOpen). What a writer is about to
  write was computed earlier, from keys that are older still: the invariant says that
  each of them, the master in an update under way included, was open once
  (`CalledMasterWasOpen`). The types need that a cache without a master is empty
  (`EmptyWithoutMaster`).

The assumptions are the named ASSUMEs of the modules: the set of hosts is finite,
the master is one of them, the markers are not; bounds and options are natural
numbers; the order of the timeouts in HostHealth.

Model-checked only:

- liveness (Converges, Recovers, ManagersConverge, CacheConverges, Reopens, FailedOver),
  which is out of the prover's reach;
- `AckedKept`, `OneMaster` and `ImplementsShard` beyond the hypotheses of `FailoverProofs`:
  with a manager that dies after the key `master` is written, with a switchover that is
  forced, with a second change of the network. They hold for the budgets of the run and are
  false for others: `--force` with a pill that is not applied gives two masters even in a
  network that never changes, and a switchover right before a failure loses writes (see
  above). There is nothing to prove for every value of `Budgets`. Nor is there a simpler fact
  of the same kind, that two hosts are never open for writes together, not even in a network
  without faults: after two switchovers in a row a manager on the former master chooses its
  own host, which is offline, and opens it for writes; a manager elsewhere cannot reach it to
  make it read-only, promotes another host, and the first one's own rdsync brings it online.
  Within the budgets of the run at most one of the two can acknowledge: a proof would have to
  follow `num` and `quorum` of every host, not only of the two masters of one switchover.

## Not modelled

Cluster mode (its promotion asks the other shards), turn_before_switchover,
allow_data_loss, shards of one or two hosts as special cases, priorities of hosts,
the history records and the cooldown, PingStable, the maintenance file and
candidates in maintenance, AOF mode, destructive repair, the reserved connections
watchdog, membership changes other than for the sentinel cache, configuration, DNS
and other I/O. `PROJECT.json` gives the reason for each component.

Hazards met while reading that no module reaches, besides those noted in
`PROJECT.json`: two replicas whose health keys still show each other alive may both
close as stale (`replication.go:100`); dcsDivergeTime is also set by another host's
missing replica state (`replication.go:29`); `rdsync host remove` of the local host
or of the master leads to a nil dereference (`cli.go:635`); leaveMaintenance deletes
a record that may have been enabled again (`maintenance.go:61`); healthChecker and
the main loop append to the window of pings without a lock (`node.go:469`); the
SentiCacheNodes of the notice are never closed (`switchover.go:491`); the callback
of the old DCS client may end the process after a reconnect (`app.go:112`); a
switchover may start between the loss of the connection and enterCritical
(`switchover.go:137`).

## Plan

1. `ActiveNodes`, `ActiveNodesLive`, `QuorumWrites`: done.
2. `Switchover` with its four questions (writes, masters, recovery, operator): done.
3. `ManagerLock`: done.
4. `Shard`, implemented by `Switchover`: done.
5. `HostHealth`: the clocks, the ping window, stateLost and the pill of one host: done.
6. `SentiCache` with health keys and membership: done.
7. Proofs: ActiveNodes, ActiveNodesLive, ManagerLock, SentiCache and HostHealth (every
   safety property that the runs check), Switchover (types, the quorum of the
   positions, the choice; with one failure or switchover also the acknowledged
   writes, the one master and the refinement of Shard), Shard: done.
8. Proofs left: a manager that dies after the key `master` is written; that the quorum
   settings alone keep a former master from acknowledging (OneMaster for a bounded
   number of switchovers); the safety of QuorumWrites outside the window that
   `quorum_writes` finds.
9. Left to model: stateLost and closeStaleReplica of several hosts together (do replicas
   never all close at once?); maintenance across hosts; `ManagerLock` composed with
   the passes of two managers.
