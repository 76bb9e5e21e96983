----------------------------- MODULE SentiCache -----------------------------
(***************************************************************************)
(* What clients are told in sentinel mode.  Every host keeps a senticache, *)
(* which names the master, its replicas and the other senticaches; it has  *)
(* two writers that know nothing of each other: the goroutine cacheUpdater *)
(* of the host's own rdsync, which works from the health keys in the DCS,  *)
(* and the manager in phase 6 of a switchover, which works from what the   *)
(* servers answer.  Caches do not depend on each other, so the module has  *)
(* one, on the host Here, with everything that it is filled from: the      *)
(* servers, the ephemeral health keys that healthChecker keeps, and the    *)
(* hosts that the shard consists of (rdsync host add and host remove).     *)
(*                                                                         *)
(* What the servers do is free: any host may be in any state at any time,  *)
(* two open masters included.                                              *)
(***************************************************************************)
EXTENDS Integers, FiniteSets

CONSTANTS Hosts,          \* hosts that are, or may become, members of the shard
          Here,           \* the host of the cache
          InitialMaster,
          NoHost,         \* no master in the cache
          MaxDisturbances \* bound: changes of a server or of the members, sessions
                          \* that end, switchovers in phase 6, deaths of the cache

ASSUME SentiCacheAssumption ==
    /\ IsFiniteSet(Hosts) /\ {Here, InitialMaster} \subseteq Hosts /\ NoHost \notin Hosts
    /\ MaxDisturbances \in Nat

VARIABLES
    server,    \* server[h]: what h answers
    members,   \* the children of ha_nodes
    nodes,     \* shard.nodes of the rdsync on Here
    session,   \* session[h]: the session of the rdsync on h
    key,       \* key[h]: the health key of h
    cache,     \* the senticache on Here
    broken,    \* SentiCacheNode.broken of the rdsync on Here
    update,    \* update[w]: the Update that writer w is in the middle of
    opened,    \* history: hosts that have been open masters
    left       \* disturbances left

vars == <<server, members, nodes, session, key, cache, broken, update, opened, left>>

\* A master is open or read-only; an offline host may be either.  What a host that
\* does not answer leaves in its key or in a snapshot (no PingOk, or PingOk with
\* an Error while the ping window still holds a success) is "down" as well:
\* updateCache takes neither.
States == {"down", "master", "readonly", "replica", "offline"}

Writers == {"cacheUpdater", "manager"}

\* a health key: who owns it, and the state it was written with
NoKey == [exists |-> FALSE, owner |-> 0, state |-> "down"]
Key(owner, state) == [exists |-> TRUE, owner |-> owner, state |-> state]

EmptyCache == [up |-> TRUE, master |-> NoHost, replicas |-> {}, sentinels |-> {}]

\* SentiCacheState, and what Update has read of the cache
NoUpdate == [pc |-> "idle", master |-> NoHost, replicas |-> {}, sentinels |-> {},
             dropReplicas |-> {}, dropSentinels |-> {}]

Init ==
    /\ server = [h \in Hosts |-> IF h = InitialMaster THEN "master" ELSE "replica"]
    /\ members = Hosts /\ nodes = Hosts
    /\ session = [h \in Hosts |-> 1]
    /\ key = [h \in Hosts |-> Key(1, server[h])]
    /\ cache = [up |-> TRUE, master |-> InitialMaster, replicas |-> Hosts \ {InitialMaster},
                sentinels |-> Hosts \ {Here}]
    /\ broken = FALSE
    /\ update = [w \in Writers |-> NoUpdate]
    /\ opened = {InitialMaster}
    /\ left = MaxDisturbances

Disturb == left > 0 /\ left' = left - 1

-----------------------------------------------------------------------------
(* The servers and the members of the shard.                               *)

ServerChanges(h, state) ==
    /\ Disturb
    /\ server[h] # state
    /\ server' = [server EXCEPT ![h] = state]
    /\ opened' = IF state = "master" THEN opened \cup {h} ELSE opened
    /\ UNCHANGED <<members, nodes, session, key, cache, broken, update>>

\* without --skip-valkey-check the host has to answer; for a member it sets the
\* priority
CliHostAdd(h) ==
    /\ Disturb
    /\ h \notin members /\ server[h] # "down"
    /\ members' = members \cup {h}
    /\ UNCHANGED <<server, nodes, session, key, cache, broken, update, opened>>

\* nothing is looked at; the removal of Here ends its rdsync
CliHostRemove(h) ==
    /\ Disturb
    /\ h \in members \ {Here}
    /\ members' = members \ {h}
    /\ UNCHANGED <<server, nodes, session, key, cache, broken, update, opened>>

\* at the start of every pass of the candidate or the manager
UpdateHostsInfo ==
    /\ nodes' = members
    /\ UNCHANGED <<server, members, session, key, cache, broken, update, opened, left>>

-----------------------------------------------------------------------------
(* The health keys.                                                        *)

\* mutant: the key is only ever created
CreateHealthKey(h) ==
    /\ key' = [key EXCEPT ![h] = IF @.exists THEN @ ELSE Key(session[h], server[h])]
    /\ UNCHANGED <<server, members, nodes, session, cache, broken, update, opened, left>>

\* getLocalState and dcs.SetEphemeral: a key that is not there is created; a set
\* leaves the owner as it is, also when that session has been replaced.  A key
\* that expires between the two requests of SetEphemeral makes the second one
\* fail, as if there had been no health check.
healthChecker(h) ==
    /\ key' = [key EXCEPT ![h] = Key(IF @.exists THEN @.owner ELSE session[h], server[h])]
    /\ UNCHANGED <<server, members, nodes, session, cache, broken, update, opened, left>>

\* the session of h is lost, or its rdsync is started again
NewSession(h) ==
    /\ Disturb
    /\ session' = [session EXCEPT ![h] = @ + 1]
    /\ UNCHANGED <<server, members, nodes, key, cache, broken, update, opened>>

\* the server removes the key with the session that owns it, which may outlive
\* the process
OldSessionExpires(h) ==
    /\ key[h].exists /\ key[h].owner < session[h]
    /\ key' = [key EXCEPT ![h] = NoKey]
    /\ UNCHANGED <<server, members, nodes, session, cache, broken, update, opened, left>>

-----------------------------------------------------------------------------
(* updateCache: from the states of the hosts to the desired state of the   *)
(* cache; none without exactly one open master.                            *)

usable(states) == {h \in DOMAIN states : states[h] # "down"}

\* mutant: a read-only master is as good as an open one
AnyMaster(states) == {h \in usable(states) : states[h] \in {"master", "readonly"}}

openMasters(states) == {h \in usable(states) : states[h] = "master"}

updateCache(w, states, sentinels) ==
    /\ update[w].pc = "idle"
    /\ Cardinality(openMasters(states)) = 1
    /\ update' = [update EXCEPT ![w] =
                    [NoUpdate EXCEPT !.pc = "update",
                                     !.master = CHOOSE h \in openMasters(states) : TRUE,
                                     !.replicas = {h \in usable(states) : states[h] = "replica"},
                                     !.sentinels = sentinels]]
    /\ UNCHANGED <<server, members, nodes, session, key, cache, broken, opened>>

\* from the health keys of the hosts that this rdsync knows
cacheUpdater ==
    LET states == [h \in nodes |-> key[h].state]
    IN  updateCache("cacheUpdater", states, usable(states) \ {Here}) /\ UNCHANGED left

current == [h \in members |-> server[h]]

\* From what the servers answer.  Only the manager's own state names a senticache,
\* and updateCache leaves out the one of its own host.
notifySentiCaches ==
    /\ Disturb
    /\ updateCache("manager", current, {})

-----------------------------------------------------------------------------
(* SentiCacheNode.Update: a restart if the last one failed, the master and *)
(* the sentinels, the replicas, and one command.                           *)

\* broken belongs to the writer on Here; the manager makes a new SentiCacheNode
\* every time
fails(w, now) == broken' = IF w = "cacheUpdater" THEN ~now.up ELSE broken

\* a restart comes first; a cache without a master is read no further
ReadSentinels(w) ==
    LET now == IF w = "cacheUpdater" /\ broken THEN EmptyCache ELSE cache
    IN  /\ update[w].pc = "update"
        /\ cache' = now
        /\ fails(w, now)
        /\ update' = [update EXCEPT ![w] =
                        IF ~now.up THEN NoUpdate
                        ELSE [@ EXCEPT !.pc = IF now.master = NoHost THEN "command" ELSE "replicas",
                                       !.dropSentinels = now.sentinels \ update[w].sentinels]]
        /\ UNCHANGED <<server, members, nodes, session, key, opened, left>>

ReadReplicas(w) ==
    /\ update[w].pc = "replicas"
    /\ fails(w, cache)
    /\ update' = [update EXCEPT ![w] =
                    IF ~cache.up THEN NoUpdate
                    ELSE [@ EXCEPT !.pc = "command",
                                   !.dropReplicas = cache.replicas \ update[w].replicas]]
    /\ UNCHANGED <<server, members, nodes, session, key, cache, opened, left>>

\* The command SENTINEL CACHE-UPDATE as the senticache carries it out: the address
\* of another master empties the replicas.
applied(u) ==
    LET replicas == IF cache.master \in {NoHost, u.master} THEN cache.replicas ELSE {}
    IN  [up |-> TRUE, master |-> u.master,
         replicas |-> (replicas \ u.dropReplicas) \cup u.replicas,
         sentinels |-> (cache.sentinels \ u.dropSentinels) \cup u.sentinels]

\* mutant: the command does not name the master
UpdateWithoutMaster(w) ==
    /\ update[w].pc = "command"
    /\ cache' = [applied(update[w]) EXCEPT !.master = cache.master]
    /\ update' = [update EXCEPT ![w] = NoUpdate]
    /\ UNCHANGED <<server, members, nodes, session, key, broken, opened, left>>

CacheUpdate(w) ==
    /\ update[w].pc = "command"
    /\ cache' = IF cache.up THEN applied(update[w]) ELSE cache
    /\ fails(w, cache)
    /\ update' = [update EXCEPT ![w] = NoUpdate]
    /\ UNCHANGED <<server, members, nodes, session, key, opened, left>>

\* the senticache is killed, for want of memory for example
CacheDies ==
    /\ Disturb
    /\ cache.up
    /\ cache' = [EmptyCache EXCEPT !.up = FALSE]
    /\ UNCHANGED <<server, members, nodes, session, key, broken, update, opened>>

-----------------------------------------------------------------------------
Next ==
    \/ \E h \in Hosts, state \in States : ServerChanges(h, state)
    \/ \E h \in Hosts : CliHostAdd(h) \/ CliHostRemove(h)
    \/ UpdateHostsInfo
    \/ \E h \in Hosts : healthChecker(h) \/ NewSession(h) \/ OldSessionExpires(h)
    \/ cacheUpdater \/ notifySentiCaches
    \/ \E w \in Writers : ReadSentinels(w) \/ ReadReplicas(w) \/ CacheUpdate(w)
    \/ CacheDies

\* The tickers of healthChecker, cacheUpdater and the main loop go on for ever,
\* and ZooKeeper expires a session that nobody keeps up.
Spec ==
    /\ Init /\ [][Next]_vars
    /\ WF_vars(UpdateHostsInfo) /\ WF_vars(cacheUpdater)
    /\ \A h \in Hosts : WF_vars(healthChecker(h)) /\ WF_vars(OldSessionExpires(h))
    /\ \A w \in Writers : WF_vars(ReadSentinels(w) \/ ReadReplicas(w) \/ CacheUpdate(w))

-----------------------------------------------------------------------------
\* The type invariant: a cache that has no master has nothing else either.
TypeOK ==
    /\ server \in [Hosts -> States]
    /\ Here \in members /\ members \subseteq Hosts /\ nodes \subseteq Hosts
    /\ \A h \in Hosts : key[h].owner <= session[h] /\ key[h].state \in States
    /\ cache.master = NoHost => cache.replicas = {} /\ cache.sentinels = {}
    /\ cache.master \in Hosts \cup {NoHost}
    /\ cache.replicas \subseteq Hosts /\ cache.sentinels \subseteq Hosts \ {Here}

\* Clients are never sent to a master that has not been opened: performSwitchover
\* promotes the new master while it is read-only, and the keys and answers that
\* show it as a master at that time reach the cache through both writers.
AnnouncedWasOpen == cache.master \in opened \cup {NoHost}

\* the cache shows the shard as it is
Shown ==
    /\ cache.up
    /\ openMasters(current) = {cache.master}
    /\ cache.replicas = {h \in members : server[h] = "replica"}
    /\ cache.sentinels = usable(current) \ {Here}

\* When the servers have come to rest with one open master, the cache ends up with
\* that master, the replicas that are open and the senticaches of the members,
\* and with nothing of hosts that have left: whichever writer wrote last, from
\* keys and answers however old, through expired sessions and a senticache that
\* died between the read and the command of Update.
CacheConverges ==
    <>[](Cardinality(openMasters(current)) = 1) => <>[]Shown
=============================================================================
