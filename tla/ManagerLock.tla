---------------------------- MODULE ManagerLock ----------------------------
(***************************************************************************)
(* Which host is the manager: the ephemeral key "manager", the ZooKeeper   *)
(* sessions that it lives and dies with, the client of each host (zkDCS,   *)
(* with its cache lockHeld and its closeTimer) and the states of App.Run   *)
(* that ask for the lock.                                                  *)
(*                                                                         *)
(* There is no clock.  A timer may expire at any time after it was set,    *)
(* the server may drop a session at any time while its client is not       *)
(* connected, and the goroutine that handles session events may be late:   *)
(* a process that is paused and resumed is among the behaviours.           *)
(* Maintenance is left to ActiveNodes, a pass of stateManager to           *)
(* Switchover.                                                             *)
(***************************************************************************)
EXTENDS Integers, Sequences, FiniteSets

CONSTANTS Hosts,
          NoHost,          \* there is no key "manager"
          Orphan,          \* owner: a process that is gone, its session is not
          MaxDisconnects,  \* bound: connections that break
          MaxKills,        \* bound: processes that are killed
          MaxGiveUps,      \* bound: managers that give up their role
          MaxReconnects    \* bound: calls of reconnectDCS

ASSUME ManagerLockAssumption ==
    /\ IsFiniteSet(Hosts) /\ NoHost \notin Hosts /\ Orphan \notin Hosts \cup {NoHost}
    /\ {MaxDisconnects, MaxKills, MaxGiveUps, MaxReconnects} \subseteq Nat

VARIABLES
    \* the server
    lock,         \* the owner in the key "manager"
    alive,        \* hosts whose process has a session that has not expired
    \* the client of each host
    link,         \* hosts whose client is connected, in that session
    events,       \* session events that are not handled yet
    isConnected,  \* hosts with isConnected
    closeTimer,   \* "nil", "running" or "expired"
    due,          \* hosts with an expired timer whose function has not run yet
    lockHeld,     \* "none", "fresh" or "stale" (older than lock_held_ttl)
    \* App of each host
    state, pc,
    \* history, and what the bounds have left
    interrupted,  \* hosts that have lost a session or their process
    spent

serverVars == <<lock, alive>>
clientVars == <<events, isConnected, closeTimer, due, lockHeld>>
appVars == <<state, pc>>
vars == <<serverVars, link, clientVars, appVars, interrupted, spent>>

Counters == {"disconnects", "kills", "giveUps", "reconnects"}

Init ==
    /\ lock = NoHost /\ alive = {} /\ link = {}
    /\ events = [h \in Hosts |-> <<>>]
    /\ isConnected = {} /\ due = {}
    /\ closeTimer = [h \in Hosts |-> "nil"]
    /\ lockHeld = [h \in Hosts |-> "none"]
    /\ state = [h \in Hosts |-> "init"]
    /\ pc = [h \in Hosts |-> "tick"]
    /\ interrupted = {}
    /\ spent = [c \in Counters |-> 0]

\* one more of what the environment may do at most max times
spend(counter, max) ==
    spent[counter] < max /\ spent' = [spent EXCEPT ![counter] = @ + 1]

released(h) == IF lock = h THEN NoHost ELSE lock

-----------------------------------------------------------------------------
(* ZooKeeper and the connection to it.                                     *)

\* mutant: a session that has expired is taken up again
ConnectNoNewSession(h) ==
    /\ h \notin link
    /\ link' = link \cup {h}
    /\ events' = [events EXCEPT ![h] = @ \o <<"other", "hasSession">>]
    /\ UNCHANGED <<serverVars, isConnected, closeTimer, due, lockHeld, appVars, interrupted, spent>>

\* the client connects, in its session or, when that has expired, in a new one;
\* it reports every state on the way
Connect(h) ==
    /\ h \notin link
    /\ link' = link \cup {h}
    /\ alive' = alive \cup {h}
    /\ events' = [events EXCEPT ![h] = @ \o <<"other", "hasSession">>]
    /\ UNCHANGED <<lock, isConnected, closeTimer, due, lockHeld, appVars, interrupted, spent>>

\* The connection breaks.  A request that is under way may have been carried
\* out; its answer is lost and retryRequest sends it again.
Disconnect(h) ==
    /\ h \in link
    /\ spend("disconnects", MaxDisconnects)
    /\ link' = link \ {h}
    /\ events' = [events EXCEPT ![h] = Append(@, "other")]
    /\ \/ lock' = lock
       \/ pc[h] = "create" /\ lock = NoHost /\ lock' = h
       \/ pc[h] = "delete" /\ lock' = NoHost
    /\ UNCHANGED <<alive, isConnected, closeTimer, due, lockHeld, appVars, interrupted>>

Expire(h) ==
    /\ h \in alive \ link
    /\ alive' = alive \ {h}
    /\ lock' = released(h)
    /\ interrupted' = interrupted \cup {h}
    /\ UNCHANGED <<link, clientVars, appVars, spent>>

ExpireOrphan ==
    /\ lock = Orphan
    /\ lock' = NoHost
    /\ UNCHANGED <<alive, link, clientVars, appVars, interrupted, spent>>

-----------------------------------------------------------------------------
(* zkDCS.                                                                  *)

\* A new process, or a new client in the same one, starts with nothing.
freshClient(h) ==
    /\ link' = link \ {h} /\ alive' = alive \ {h}
    /\ events' = [events EXCEPT ![h] = <<>>]
    /\ isConnected' = isConnected \ {h} /\ due' = due \ {h}
    /\ closeTimer' = [closeTimer EXCEPT ![h] = "nil"]
    /\ lockHeld' = [lockHeld EXCEPT ![h] = "none"]
    /\ interrupted' = interrupted \cup {h}

\* The process ends without closing its session, and is started again.
exit(h) ==
    /\ freshClient(h)
    /\ lock' = IF lock = h THEN Orphan ELSE lock
    /\ state' = [state EXCEPT ![h] = "init"]
    /\ pc' = [pc EXCEPT ![h] = "tick"]

handleSessionEvent(h) ==
    /\ events[h] # <<>>
    /\ events' = [events EXCEPT ![h] = Tail(@)]
    /\ IF Head(events[h]) = "hasSession"
       THEN /\ closeTimer' = [closeTimer EXCEPT ![h] = "nil"]
            /\ isConnected' = isConnected \cup {h}
            /\ UNCHANGED lockHeld
       ELSE /\ lockHeld' = [lockHeld EXCEPT ![h] = "none"]
            /\ closeTimer' = [closeTimer EXCEPT ![h] = IF @ = "nil" THEN "running" ELSE @]
            /\ UNCHANGED isConnected
    /\ UNCHANGED <<serverVars, link, due, appVars, interrupted, spent>>

\* session_timeout is over: the timer's function is about to take connectedLock
CloseTimerExpires(h) ==
    /\ closeTimer[h] = "running"
    /\ closeTimer' = [closeTimer EXCEPT ![h] = "expired"]
    /\ due' = due \cup {h}
    /\ UNCHANGED <<serverVars, link, events, isConnected, lockHeld, appVars, interrupted, spent>>

\* the timer's function and handleCritical, which ends a process that is in
\* performSwitchover
disconnectCallback(h) ==
    /\ h \in due
    /\ IF h \in isConnected /\ closeTimer[h] # "nil" /\ pc[h] = "switchover"
       THEN exit(h)
       ELSE /\ due' = due \ {h}
            /\ isConnected' = IF closeTimer[h] # "nil" THEN isConnected \ {h} ELSE isConnected
            /\ UNCHANGED <<serverVars, link, events, closeTimer, lockHeld, appVars, interrupted>>
    /\ UNCHANGED spent

\* the cached answer gets older than lock_held_ttl
LockHeldAges(h) ==
    /\ lockHeld[h] = "fresh"
    /\ lockHeld' = [lockHeld EXCEPT ![h] = "stale"]
    /\ UNCHANGED <<serverVars, link, events, isConnected, closeTimer, due, appVars, interrupted, spent>>

-----------------------------------------------------------------------------
(* AcquireLock, called by stateInit, stateCandidate and stateManager, in   *)
(* four steps that the other goroutine of the process runs between.        *)

goto(h, label) == pc' = [pc EXCEPT ![h] = label] /\ UNCHANGED state
become(h, s) == state' = [state EXCEPT ![h] = s] /\ pc' = [pc EXCEPT ![h] = "tick"]

\* AcquireLock returns true, or false
granted(h) == IF state[h] = "manager" THEN goto(h, "pass") ELSE become(h, "manager")
refused(h) == become(h, "candidate")

\* mutant: lock_held_ttl is not looked at
LoadAnyAge(h) ==
    /\ pc[h] = "load"
    /\ IF lockHeld[h] # "none" THEN granted(h) ELSE goto(h, "get")
    /\ UNCHANGED <<serverVars, link, clientVars, interrupted, spent>>

\* lockHeld.Load
Load(h) ==
    /\ pc[h] = "load"
    /\ IF lockHeld[h] = "fresh"
       THEN granted(h) /\ UNCHANGED lockHeld
       ELSE goto(h, "get") /\ lockHeld' = [lockHeld EXCEPT ![h] = "none"]
    /\ UNCHANGED <<serverVars, link, events, isConnected, closeTimer, due, interrupted, spent>>

\* retryGet
GetOwner(h) ==
    /\ pc[h] = "get"
    /\ \/ h \in link /\ lock = NoHost /\ goto(h, "create")
       \/ h \in link /\ lock = h /\ goto(h, "store")
       \/ (h \notin link \/ lock \notin {NoHost, h}) /\ refused(h)
    /\ UNCHANGED <<serverVars, link, clientVars, interrupted, spent>>

\* mutant: a key that exists is taken for the lock
CreateOrExists(h) ==
    /\ pc[h] = "create"
    /\ IF h \in link
       THEN goto(h, "store") /\ lock' = IF lock = NoHost THEN h ELSE lock
       ELSE refused(h) /\ UNCHANGED lock
    /\ UNCHANGED <<alive, link, clientVars, interrupted, spent>>

\* retryCreate: ErrNodeExists, even of a key it has created itself, is a refusal
CreateEphemeral(h) ==
    /\ pc[h] = "create"
    /\ IF h \in link /\ lock = NoHost
       THEN goto(h, "store") /\ lock' = h
       ELSE refused(h) /\ UNCHANGED lock
    /\ UNCHANGED <<alive, link, clientVars, interrupted, spent>>

\* lockHeld.Store
Store(h) ==
    /\ pc[h] = "store"
    /\ lockHeld' = [lockHeld EXCEPT ![h] = "fresh"]
    /\ granted(h)
    /\ UNCHANGED <<serverVars, link, events, isConnected, closeTimer, due, interrupted, spent>>

AcquireLock(h) == Load(h) \/ GetOwner(h) \/ CreateEphemeral(h) \/ Store(h)

-----------------------------------------------------------------------------
(* ReleaseLockOrError.                                                     *)

ReleaseGet(h) ==
    /\ pc[h] = "release"
    /\ lockHeld' = [lockHeld EXCEPT ![h] = "none"]
    /\ goto(h, IF h \in link /\ lock = h THEN "delete" ELSE "await")
    /\ UNCHANGED <<serverVars, link, events, isConnected, closeTimer, due, interrupted, spent>>

\* retryDelete, of the version that was read: every lock has version 0
ReleaseDelete(h) ==
    /\ pc[h] = "delete"
    /\ lock' = IF h \in link THEN NoHost ELSE lock
    /\ goto(h, "await")
    /\ UNCHANGED <<alive, link, clientVars, interrupted, spent>>

-----------------------------------------------------------------------------
(* App.Run: the next handler.                                              *)

\* WaitConnected, IsConnected
Tick(h) ==
    /\ pc[h] = "tick"
    /\ \/ state[h] # "lost" /\ h \in isConnected /\ goto(h, "load")
       \/ state[h] \in {"candidate", "manager"} /\ h \notin isConnected /\ become(h, "lost")
       \/ state[h] = "lost" /\ h \in isConnected /\ become(h, "candidate")
    /\ UNCHANGED <<serverVars, link, clientVars, interrupted, spent>>

\* a pass of stateManager, with or without performSwitchover, and the loop that
\* follows ReleaseLock, which ends with a new manager or after failover_timeout
Pass(h) ==
    /\ \/ pc[h] = "pass" /\ (goto(h, "tick") \/ goto(h, "switchover"))
       \/ pc[h] = "switchover" /\ goto(h, "tick")
       \/ pc[h] = "await" /\ become(h, "candidate")
    /\ UNCHANGED <<serverVars, link, clientVars, interrupted, spent>>

\* needGiveUp
GiveUp(h) ==
    /\ pc[h] = "pass"
    /\ spend("giveUps", MaxGiveUps)
    /\ goto(h, "release")
    /\ UNCHANGED <<serverVars, link, clientVars, interrupted>>

\* stateLost after dcs_reconnect_timeout, which is long enough for the old
\* session to have expired; closing a client that is connected ends its session
reconnectDCS(h) ==
    /\ pc[h] = "tick" /\ state[h] = "lost"
    /\ h \notin isConnected /\ h \notin alive \ link
    /\ spend("reconnects", MaxReconnects)
    /\ freshClient(h)
    /\ lock' = released(h)
    /\ UNCHANGED appVars

Kill(h) ==
    /\ spend("kills", MaxKills)
    /\ h \in alive
    /\ exit(h)

Run(h) == Tick(h) \/ AcquireLock(h) \/ ReleaseGet(h) \/ ReleaseDelete(h) \/ Pass(h)

Next ==
    \/ \E h \in Hosts :
         \/ Run(h) \/ GiveUp(h) \/ reconnectDCS(h) \/ Kill(h)
         \/ Connect(h) \/ Disconnect(h) \/ Expire(h)
         \/ handleSessionEvent(h) \/ CloseTimerExpires(h) \/ disconnectCallback(h)
         \/ LockHeldAges(h)
    \/ ExpireOrphan

Spec == Init /\ [][Next]_vars

\* The ticker and the goroutine of the events go on for ever, the ZooKeeper
\* client connects again by itself, and time passes.
Fairness ==
    /\ \A h \in Hosts : /\ WF_vars(Run(h)) /\ WF_vars(Connect(h))
                        /\ WF_vars(handleSessionEvent(h))
                        /\ WF_vars(disconnectCallback(h)) /\ WF_vars(LockHeldAges(h))
    /\ WF_vars(ExpireOrphan)

FairSpec == Spec /\ Fairness

-----------------------------------------------------------------------------
States == {"init", "candidate", "manager", "lost"}
PCs == {"tick", "load", "get", "create", "store", "pass", "switchover",
        "release", "delete", "await"}

\* The type invariant of the lock, the client and App.
TypeOK ==
    /\ lock \in Hosts \cup {NoHost, Orphan}
    /\ {alive, link, isConnected, due, interrupted} \subseteq SUBSET Hosts
    /\ link \subseteq alive
    /\ events \in [Hosts -> Seq({"other", "hasSession"})]
    /\ closeTimer \in [Hosts -> {"nil", "running", "expired"}]
    /\ lockHeld \in [Hosts -> {"none", "fresh", "stale"}]
    /\ state \in [Hosts -> States]
    /\ pc \in [Hosts -> PCs]
    /\ spent \in [Counters -> Nat]

\* Until a manager gives up its role, at most one of the hosts that have kept
\* their session since they started is in a pass of stateManager, although
\* AcquireLock answers from lockHeld without asking ZooKeeper and although every
\* step of it races with the other hosts.
KeptSessionExclusive ==
    spent["giveUps"] = 0 =>
        Cardinality({h \in Hosts \ interrupted : pc[h] \in {"pass", "switchover"}}) <= 1

\* Whatever answers AcquireLock has cached, whatever lock a late ReleaseLock has
\* deleted and whichever process was killed: once the network is quiet the shard
\* ends up with one manager, which is the owner of the lock, and candidates.
ManagersConverge ==
    <>[](\E h \in Hosts : /\ lock = h /\ state[h] = "manager"
                          /\ \A g \in Hosts \ {h} : state[g] = "candidate")

\* ReleaseLockOrError deletes a lock only of the process that calls it: "failed
\* to release lock: process is not an owner".
ReleasesOnlyItsOwn ==
    [][\A h \in Hosts : ReleaseDelete(h) /\ lock' # lock => lock = h]_vars
=============================================================================
