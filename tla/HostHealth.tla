----------------------------- MODULE HostHealth -----------------------------
(***************************************************************************)
(* One host of the shard, a master to begin with, and the two programs     *)
(* that watch it: the rdsync on the host itself ("local"), which repairs,  *)
(* restarts, opens and closes the server, and an rdsync elsewhere          *)
(* ("remote").  Either may be the manager, which decides on a failover     *)
(* once the master has failed for failover_timeout.  Both keep the map     *)
(* nodeFailTime, and the local one uses the same entry for both purposes.  *)
(*                                                                         *)
(* Time is counted in ticks: in every tick each rdsync makes one pass and  *)
(* healthChecker writes the health key once, in any order.  The other      *)
(* hosts of the shard are well, and an attempt of a failover is one step   *)
(* (module Switchover has it in detail).                                   *)
(***************************************************************************)
EXTENDS Integers

CONSTANTS PingStable, FailoverTimeout, RestartTimeout, BusyTimeout,  \* options
          LoadTicks,        \* how long a server loads its data
          MaxDisturbances   \* bound: crashes, hangs, lost connections, moves of the
                            \* manager, failed attempts of a switchover

\* A restart puts the clock back that a failover waits for when the manager runs
\* on the host itself, so failover_timeout has to be the shorter one.
ASSUME HostHealthAssumption ==
    /\ {PingStable, FailoverTimeout, RestartTimeout, BusyTimeout, LoadTicks} \subseteq Nat \ {0}
    /\ FailoverTimeout <= RestartTimeout
    /\ MaxDisturbances \in Nat

Rdsyncs == {"local", "remote"}

\* ticks are counted no further than the longest timeout needs
Cap == RestartTimeout + 2

VARIABLES
    server,    \* "up", "busy" (a script), "loading" or "dead"
    load,      \* ticks that loading still takes
    disk,      \* what a start leads to: "good"; "bad": loading fails; "none": nothing starts
    offline,   \* the option offline of the server
    behind,    \* the host has lost its data: an active one is ahead of it
    master,    \* the path master in the DCS names the host
    linked,    \* the host is a replica whose link is up and in use
    switch,    \* current_switch exists
    pill,      \* the poison pill for the host: "none", "issued" or "applied"
    manager,   \* who has the lock
    lost,      \* the local rdsync has no connection to the DCS
    pc,        \* where the local rdsync is in its pass
    seen,      \* what the local manager saw of the host at the start of its pass
    fail,      \* fail[r]: ticks + 1 since nodeFailTime of the host; 0 is none
    misses,    \* misses[r]: pings that have failed since the last success, up to PingStable
    key,       \* the health key of the host
    todo,      \* who has not had its turn in this tick
    sound,     \* history: the host has been well, and known to be, since the last tick
    down,      \* history: ticks since the host was last sound for a whole one
    moved,     \* history: a manager has taken over from another
    left       \* disturbances left

hostVars == <<server, load, disk, offline, behind>>
dcsVars == <<master, switch, pill, manager, key>>
rdsyncVars == <<pc, seen, fail, misses>>
history == <<sound, down>>
vars == <<hostVars, linked, dcsVars, rdsyncVars, lost, todo, history, moved, left>>

Key(ok, off) == [exists |-> TRUE, PingOk |-> ok, IsOffline |-> off]
NoKey == [exists |-> FALSE, PingOk |-> FALSE, IsOffline |-> FALSE]

Init ==
    /\ server = "up" /\ load = 0 /\ disk = "good" /\ offline = FALSE /\ behind = FALSE
    /\ master = TRUE /\ linked = FALSE /\ switch = FALSE /\ pill = "none"
    /\ manager \in Rdsyncs
    /\ key = Key(TRUE, FALSE)
    /\ lost = FALSE /\ pc = "idle" /\ seen = [ok |-> TRUE, dcs |-> key, master |-> TRUE]
    /\ fail = [r \in Rdsyncs |-> 0]
    /\ misses = [r \in Rdsyncs |-> 0]
    /\ todo = {}
    /\ sound = TRUE /\ down = 0 /\ moved = FALSE
    /\ left = MaxDisturbances

Disturb == left > 0 /\ left' = left - 1

min(a, b) == IF a < b THEN a ELSE b

-----------------------------------------------------------------------------
(* What happens to the host, and time.                                     *)

ServerFails ==
    /\ Disturb
    /\ \/ server' = "dead" /\ disk' \in {"good", "bad", "none"} /\ UNCHANGED behind
       \/ server' = "dead" /\ behind' = TRUE /\ UNCHANGED disk
       \/ server = "up" /\ server' = "busy" /\ UNCHANGED <<disk, behind>>
    /\ load' = 0
    /\ linked' = FALSE
    /\ sound' = FALSE
    /\ UNCHANGED <<offline, dcsVars, rdsyncVars, lost, todo, down, moved>>

\* the session ends, with it the key and the lock
LoseDcs ==
    /\ Disturb
    /\ ~lost /\ lost' = TRUE
    /\ key' = NoKey
    /\ manager' = "remote" /\ moved' = (moved \/ manager = "local")
    /\ UNCHANGED <<hostVars, linked, master, switch, pill, rdsyncVars, todo, history>>

RegainDcs ==
    /\ lost /\ lost' = FALSE
    /\ UNCHANGED <<hostVars, linked, dcsVars, rdsyncVars, todo, history, moved, left>>

ManagerMoves ==
    /\ Disturb
    /\ ~lost
    /\ manager' \in Rdsyncs \ {manager} /\ moved' = TRUE
    /\ UNCHANGED <<hostVars, linked, master, switch, pill, key, rdsyncVars, lost, todo, history>>

\* repairReplica has pointed the host at the new master, and it is in sync; an
\* offline host has to do this itself, in repairLocalNode
LinkUp ==
    /\ ~master /\ server = "up" /\ ~linked
    /\ offline => ~lost /\ (manager = "local" \/ pill = "none")
    /\ linked' = TRUE /\ behind' = FALSE
    /\ UNCHANGED <<server, load, disk, offline, dcsVars, rdsyncVars, lost, todo, history, moved, left>>

well == server = "up" /\ ~offline

Tick ==
    /\ todo = {} /\ todo' = Rdsyncs \cup {"healthChecker"}
    /\ fail' = [r \in Rdsyncs |-> IF fail[r] = 0 THEN 0 ELSE min(fail[r] + 1, Cap)]
    /\ IF server = "loading" /\ load <= 1
       THEN server' = (IF disk = "good" THEN "up" ELSE "dead") /\ load' = 0
       ELSE load' = (IF server = "loading" THEN load - 1 ELSE 0) /\ UNCHANGED server
    /\ sound' = (well /\ key.PingOk /\ ~key.IsOffline)
    /\ down' = IF sound /\ sound' THEN 0 ELSE min(down + 1, Cap)
    /\ UNCHANGED <<disk, offline, behind, linked, dcsVars, pc, seen, misses, lost, moved, left>>

-----------------------------------------------------------------------------
(* GetState and EvaluatePing: a window of PingStable results.  A ping that *)
(* fails while the window still holds a success is answered from the cache *)
(* of the last INFO, with all flags false.                                 *)

\* an offline server listens on the loopback address only, and has dropped the
\* connections of its clients: no rdsync but its own gets an answer
answers(r) == server = "up" /\ (r = "local" \/ ~offline)

getState(r, calls) == misses' = [misses EXCEPT ![r] = IF answers(r) THEN 0
                                                      ELSE min(@ + calls, PingStable)]

\* after one more ping
pingOk(r) == answers(r) \/ misses[r] + 1 < PingStable

healthChecker ==
    /\ "healthChecker" \in todo /\ todo' = todo \ {"healthChecker"}
    /\ getState("local", 1)
    /\ key' = IF lost THEN key ELSE Key(pingOk("local"), server = "up" /\ offline)
    /\ UNCHANGED <<hostVars, linked, master, switch, pill, manager, pc, seen, fail, lost, history, moved, left>>

-----------------------------------------------------------------------------
(* repairLocalNode, of the local candidate or manager.                     *)

\* mutant: every failing pass takes the time anew
StartAfresh(age) == 1

\* the time of the first failing pass is kept
start(age) == IF age = 0 THEN 1 ELSE age

\* mutant: a load that was under way does not start anew
RestartKeepsLoad ==
    /\ server' = IF disk = "none" THEN "dead" ELSE "loading"
    /\ offline' \in BOOLEAN
    /\ linked' = FALSE
    /\ UNCHANGED load

\* the configuration file decides whether a server starts offline
Restart ==
    /\ server' = IF disk = "none" THEN "dead" ELSE "loading"
    /\ load' = IF disk = "none" THEN 0 ELSE LoadTicks
    /\ offline' \in BOOLEAN
    /\ linked' = FALSE

\* mutant: a server that loads is restarted like one that is dead
RestartLoading(age) ==
    IF age - 1 > RestartTimeout
    THEN Restart /\ fail' = [fail EXCEPT !["local"] = 1]
    ELSE fail' = [fail EXCEPT !["local"] = age] /\ UNCHANGED <<server, load, offline, linked>>

\* the server does not answer: a clock that a loading server and a restart put back
RestartFailed(age) ==
    IF server = "loading" \/ age - 1 > RestartTimeout
    THEN /\ IF server = "loading" THEN UNCHANGED <<server, load, offline, linked>> ELSE Restart
         /\ fail' = [fail EXCEPT !["local"] = 1]
    ELSE fail' = [fail EXCEPT !["local"] = age] /\ UNCHANGED <<server, load, offline, linked>>

\* a host that goes offline is not well from then on
Unsound == sound' = (sound /\ ~offline') /\ UNCHANGED down

\* closeStaleReplica: a replica without a link may have been so for too long while
\* the DCS reports the master healthy
stale == IF master \/ linked THEN {FALSE} ELSE BOOLEAN

\* An open host is looked at for staleness; an offline one is opened unless an
\* active host is ahead of a master, or a replica is stale.
Open ==
    /\ server = "up"
    /\ offline' \in IF offline /\ master THEN {behind} ELSE stale
    /\ fail' = [fail EXCEPT !["local"] = IF offline /\ offline' THEN @ ELSE 0]
    /\ UNCHANGED <<server, load, linked>>

repairLocalNode ==
    \/ Open
    \/ server # "up" /\ RestartFailed(start(fail["local"]))

-----------------------------------------------------------------------------
(* A pass of the manager, after the repair of its own node.                *)

\* what manager r sees: the answer of the host, its health key and the master
look(r) == [ok |-> pingOk(r), dcs |-> key, master |-> master]

\* the host is master and does not answer, or its key says that it is offline
masterFailed(view) == view.master /\ (~view.ok \/ view.dcs.IsOffline)

\* the quorum and the cooldown are left to module Switchover
approveFailover(age) == age - 1 >= FailoverTimeout

\* mutant: the clock of a failure goes on after its end
DecideNeverClears(r, view) ==
    /\ ~switch
    /\ pill' = "none"
    /\ fail' = [fail EXCEPT ![r] = IF masterFailed(view) THEN start(@) ELSE @]
    /\ switch' = (masterFailed(view) /\ approveFailover(fail'[r]))
    /\ UNCHANGED master

\* mutant: the pill is left where it is
DecideKeepsPill(r, view) ==
    /\ ~switch
    /\ fail' = [fail EXCEPT ![r] = IF masterFailed(view) THEN start(@) ELSE 0]
    /\ switch' = (masterFailed(view) /\ approveFailover(fail'[r]))
    /\ UNCHANGED <<master, pill>>

\* No switchover is under way: the pill is removed; then a failover of the master,
\* which is not approved while all its replicas are connected, as they may be to
\* one that is busy or offline; or the clock of the host as calcActiveNodes keeps
\* it for a replica.
Decide(r, view) ==
    /\ ~switch
    /\ pill' = "none"
    /\ fail' = [fail EXCEPT ![r] =
                  CASE masterFailed(view) -> start(@)
                    [] ~view.master /\ ~view.ok /\ view.dcs.PingOk -> @
                    [] ~view.master /\ ~view.ok /\ ~view.dcs.PingOk -> start(@)
                    [] ~view.master /\ view.ok /\ view.dcs.IsOffline -> @
                    [] OTHER -> 0]
    /\ \/ switch' = (masterFailed(view) /\ approveFailover(fail'[r]))
       \/ (server = "busy" \/ (server = "up" /\ ~behind)) /\ UNCHANGED switch
    /\ UNCHANGED master

issue == IF pill = "none" THEN "issued" ELSE pill

\* performSwitchover: an attempt fails before phase 5, with a pill for an old master
\* that does not answer, or gets past it: the role goes to another host, and there
\* is a pill for the old master, which takes the place of one for another host.
Perform(view) ==
    /\ switch
    /\ \/ /\ master' = FALSE
          /\ pill' \in IF view.master THEN {issue} ELSE {pill, "none"}
          /\ \/ switch' = FALSE /\ UNCHANGED left
             \/ Disturb /\ UNCHANGED switch
       \/ /\ Disturb
          /\ pill' \in IF view.master /\ ~view.ok THEN {pill, issue} ELSE {pill}
          /\ UNCHANGED <<master, switch>>
    /\ UNCHANGED fail

stateManager(r, view) ==
    \/ Decide(r, view) /\ UNCHANGED left
    \/ Perform(view)

RemotePass ==
    /\ "remote" \in todo /\ todo' = todo \ {"remote"}
    /\ getState("remote", 1)
    /\ \/ manager = "remote" /\ stateManager("remote", look("remote"))
       \/ manager # "remote" /\ UNCHANGED <<master, switch, pill, fail, left>>
    /\ UNCHANGED <<hostVars, linked, manager, key, pc, seen, lost, history, moved>>

-----------------------------------------------------------------------------
(* A pass of the local rdsync.                                             *)

LocalTurn == "local" \in todo /\ pc = "idle"
done(next) == pc' = next /\ todo' = IF next = "idle" THEN todo \ {"local"} ELSE todo

\* stateCandidate without a pill, and the first half of stateManager
RepairPass ==
    /\ LocalTurn /\ ~lost
    /\ manager = "local" \/ pill = "none"
    /\ getState("local", 2)
    /\ repairLocalNode
    /\ seen' = look("local")
    /\ done(IF manager = "local" THEN "decide" ELSE "idle")
    /\ Unsound
    /\ UNCHANGED <<disk, behind, dcsVars, lost, moved, left>>

\* SCRIPT KILL succeeds (one that fails is a RepairPass): repairLocalNode calls
\* Error on a nil error, and the process ends; it is started again with a new
\* session and nothing in memory.
ScriptKill ==
    /\ LocalTurn /\ ~lost
    /\ manager = "local" \/ pill = "none"
    /\ server = "busy" /\ fail["local"] - 1 > BusyTimeout
    /\ server' = "up"
    /\ fail' = [fail EXCEPT !["local"] = 0]
    /\ misses' = [misses EXCEPT !["local"] = PingStable]
    /\ key' = NoKey
    /\ manager' = "remote" /\ moved' = (moved \/ manager = "local")
    /\ done("idle")
    /\ UNCHANGED <<load, disk, offline, behind, linked, master, switch, pill, seen, lost, history, left>>

\* the second half of stateManager; a manager that has lost its lock meanwhile
\* goes on all the same, one without the DCS cannot
LocalDecide ==
    /\ pc = "decide"
    /\ \/ ~lost /\ stateManager("local", seen)
       \/ lost /\ UNCHANGED <<master, switch, pill, fail, left>>
    /\ done("idle")
    /\ UNCHANGED <<hostVars, linked, manager, key, seen, misses, lost, history, moved>>

\* stateCandidate has read a pill for this host: a server that does not answer is
\* restarted, one that does goes offline ...
applyPoisonPill ==
    /\ LocalTurn /\ ~lost /\ manager # "local"
    /\ pill # "none"
    /\ IF server = "up"
       THEN offline' = TRUE /\ UNCHANGED <<server, load, linked>> /\ done("write")
       ELSE Restart /\ done("idle")
    /\ getState("local", 1)
    /\ Unsound
    /\ UNCHANGED <<disk, behind, dcsVars, seen, fail, lost, moved, left>>

\* ... and the pill is written back, whether it is still there or not
WriteBack ==
    /\ pc = "write"
    /\ pill' = IF lost THEN pill ELSE "applied"
    /\ done("idle")
    /\ UNCHANGED <<hostVars, linked, master, switch, manager, key, seen, fail, misses, lost, history, moved, left>>

\* a link to the master, or, of a server that is a master itself, enough replicas
\* (checkHAReplicasRunning); hosts that are ahead do not count
replicationAlive == IF linked THEN {TRUE} ELSE BOOLEAN

\* without the DCS the host is open as long as its replication is alive
stateLost ==
    /\ LocalTurn /\ lost
    /\ offline' \in IF server = "up" THEN {~alive : alive \in replicationAlive} ELSE {offline}
    /\ getState("local", 1)
    /\ done("idle")
    /\ Unsound
    /\ UNCHANGED <<server, load, disk, behind, linked, dcsVars, seen, fail, lost, moved, left>>

-----------------------------------------------------------------------------
LocalPass == RepairPass \/ ScriptKill \/ LocalDecide \/ applyPoisonPill \/ WriteBack \/ stateLost

Next ==
    \/ ServerFails \/ LoseDcs \/ RegainDcs \/ ManagerMoves \/ LinkUp
    \/ Tick \/ healthChecker \/ LocalPass \/ RemotePass

Spec == Init /\ [][Next]_vars

\* Time passes, every rdsync has its turn in every tick, the DCS comes back, and a
\* replica that is up gets its link.  The manager's pass does not fall between the
\* reading and the writing of the pill in every tick for ever: these are two
\* processes with tickers of their own, and the window is one call wide.
FairSpec ==
    /\ Spec
    /\ WF_vars(Tick) /\ WF_vars(healthChecker) /\ WF_vars(LocalPass) /\ WF_vars(RemotePass)
    /\ WF_vars(RegainDcs) /\ WF_vars(LinkUp)
    /\ SF_vars(RemotePass /\ pc = "idle")

-----------------------------------------------------------------------------
\* The type invariant: a server has ticks of loading left only while it loads.
TypeOK ==
    /\ server \in {"up", "busy", "loading", "dead"}
    /\ load \in 0 .. LoadTicks /\ (load > 0 <=> server = "loading")
    /\ disk \in {"good", "bad", "none"} /\ {offline, behind, linked, lost, sound, moved} \subseteq BOOLEAN
    /\ {master, switch} \subseteq BOOLEAN /\ pill \in {"none", "issued", "applied"}
    /\ pc \in {"idle", "decide", "write"}
    /\ fail \in [Rdsyncs -> 0 .. Cap] /\ misses \in [Rdsyncs -> 0 .. PingStable]

\* A server that loads its data is not restarted, however long it takes and
\* whatever put it there, except by a poison pill: repairLocalNode puts its clock
\* back at every LOADING, so that the timeout of a failure before or of the
\* restart itself never expires on it.
LoadingLeftAlone == [][server = "loading" /\ load' > load => pill # "none"]_vars

\* A failover starts only when the master has not been well for failover_timeout,
\* as long as the manager stays the same: a failure that ends takes its clock with
\* it (nodeFailTime), also when repairs of the host use the same clock.
FailoverNotEarly == [][~switch /\ switch' => moved \/ down >= FailoverTimeout]_vars

\* The same for whoever is manager: "failover delay is respected".
FailoverDelayRespected == [][~switch /\ switch' => down >= FailoverTimeout]_vars

\* A host whose server can be started is open again in the end, and no pill is
\* left for it: hangs, crashes, lost data, the loss of the DCS, a pill that is
\* written back after the manager has removed it, and the process that ends with
\* a successful SCRIPT KILL are all got over.
Reopens == <>[](disk = "good") => <>[](well /\ pill = "none" /\ ~switch)

\* A master that never answers again is replaced: one that is dead, whoever is the
\* manager and however often repairLocalNode restarts it; one that loads and dies
\* again and again, when the manager is on another host.
FailedOver ==
    <>[](server = "dead") \/ <>[](server # "up" /\ manager = "remote") => <>~master
=============================================================================
