-------------------------- MODULE SentiCacheProofs --------------------------
(***************************************************************************)
(* What the senticache promises for every shard and every number of        *)
(* disturbances: its types, and that clients are never sent to a host that *)
(* has not been an open master (AnnouncedWasOpen).                         *)
(*                                                                         *)
(* A name travels to the cache from a server's answer, through a health    *)
(* key or through a snapshot of the manager, and through the Update of a   *)
(* writer: what is proved about the cache has to hold at each of these.    *)
(***************************************************************************)
EXTENDS SentiCache, FiniteSetTheorems, TLAPS

Keys == [exists : BOOLEAN, owner : Nat, state : States]

Caches == [up : BOOLEAN, master : Hosts \cup {NoHost},
           replicas : SUBSET Hosts, sentinels : SUBSET (Hosts \ {Here})]

Updates == [pc : {"idle", "update", "replicas", "command"}, master : Hosts \cup {NoHost},
            replicas : SUBSET Hosts, sentinels : SUBSET (Hosts \ {Here}),
            dropReplicas : SUBSET Hosts, dropSentinels : SUBSET Hosts]

\* the variables that the servers, the members and the sessions change
EnvTypes ==
    /\ server \in [Hosts -> States]
    /\ Here \in members /\ members \subseteq Hosts /\ nodes \subseteq Hosts
    /\ session \in [Hosts -> Nat]
    /\ opened \subseteq Hosts
    /\ left \in Nat

KeyTypes ==
    /\ key \in [Hosts -> Keys]
    /\ \A h \in Hosts : key[h].owner <= session[h]

CacheTypes ==
    /\ cache \in Caches
    /\ broken \in BOOLEAN
    /\ update \in [Writers -> Updates]

\* a cache without a master is empty
EmptyWithoutMaster == cache.master = NoHost => cache.replicas = {} /\ cache.sentinels = {}

\* whoever is called an open master, at any place on the way, has been one
CalledMasterWasOpen ==
    /\ \A h \in Hosts : server[h] = "master" \/ key[h].state = "master" => h \in opened
    /\ \A w \in Writers : update[w].pc # "idle" => update[w].master \in opened

IndInv ==
    /\ EnvTypes /\ KeyTypes /\ CacheTypes
    /\ EmptyWithoutMaster /\ CalledMasterWasOpen /\ AnnouncedWasOpen

-----------------------------------------------------------------------------
\* The constant records of the module have their types.
LEMMA ConstantTypes ==
    /\ NoKey \in Keys /\ EmptyCache \in Caches /\ NoUpdate \in Updates
    /\ \A n \in Nat, s \in States : Key(n, s) \in Keys
BY DEF NoKey, Key, Keys, EmptyCache, Caches, NoUpdate, Updates, States

\* The initial state satisfies the inductive invariant.
LEMMA InitInv == Init => IndInv
<1> SUFFICES ASSUME Init PROVE IndInv
    OBVIOUS
<1>1. EnvTypes
    BY SentiCacheAssumption DEF Init, EnvTypes, States
<1>2. KeyTypes
    <2>1. \A h \in Hosts : Key(1, server[h]) \in Keys
        BY <1>1, ConstantTypes DEF EnvTypes
    <2> QED
        BY <2>1 DEF Init, KeyTypes, Key
<1>3. CacheTypes
    BY SentiCacheAssumption, ConstantTypes DEF Init, CacheTypes, Caches
<1>4. EmptyWithoutMaster /\ CalledMasterWasOpen /\ AnnouncedWasOpen
    BY SentiCacheAssumption
    DEF Init, EmptyWithoutMaster, CalledMasterWasOpen, AnnouncedWasOpen, Key, NoUpdate
<1> QED
    BY <1>1, <1>2, <1>3, <1>4 DEF IndInv

\* A state that names exactly one open master yields an Update that names it:
\* updateCache takes it out of the states it was given, and nothing else.
LEMMA UpdateCacheNames ==
    ASSUME NEW w \in Writers, NEW D \in SUBSET Hosts, NEW states \in [D -> States],
           NEW sentinels \in SUBSET (Hosts \ {Here}),
           CacheTypes, updateCache(w, states, sentinels)
    PROVE  /\ update' \in [Writers -> Updates]
           /\ update'[w].master \in D /\ states[update'[w].master] = "master"
           /\ \A v \in Writers \ {w} : update'[v] = update[v]
<1> DEFINE open == CHOOSE h \in openMasters(states) : TRUE
           next == [NoUpdate EXCEPT !.pc = "update", !.master = open,
                        !.replicas = {h \in usable(states) : states[h] = "replica"},
                        !.sentinels = sentinels]
<1>1. openMasters(states) # {}
    BY FS_EmptySet DEF updateCache
<1>2. open \in D /\ states[open] = "master"
    BY <1>1 DEF openMasters, usable
<1>3. next \in Updates
    BY <1>2 DEF NoUpdate, Updates, usable
<1>4. update' = [update EXCEPT ![w] = next]
    BY DEF updateCache
<1> HIDE DEF next
<1>5. next.master = open
    BY DEF next, NoUpdate
<1> QED
    BY <1>2, <1>3, <1>4, <1>5 DEF CacheTypes

\* The two writers start an Update only from a state that names an open master:
\* the health keys (cacheUpdater) or the servers' answers (notifySentiCaches).
LEMMA StartUpdate ==
    ASSUME IndInv, cacheUpdater \/ notifySentiCaches
    PROVE  IndInv'
<1> USE DEF IndInv
<1>1. ASSUME NEW w \in Writers, NEW D \in SUBSET Hosts, NEW states \in [D -> States],
             NEW sentinels \in SUBSET (Hosts \ {Here}),
             updateCache(w, states, sentinels),
             \A h \in D : states[h] = "master" => h \in opened,
             left' \in Nat
      PROVE  IndInv'
    <2>1. /\ update' \in [Writers -> Updates]
          /\ update'[w].master \in opened
          /\ \A v \in Writers \ {w} : update'[v] = update[v]
        BY <1>1, UpdateCacheNames
    <2>2. UNCHANGED <<server, members, nodes, session, key, cache, broken, opened>>
        BY <1>1 DEF updateCache
    <2>3. EnvTypes' /\ KeyTypes' /\ CacheTypes'
        BY <1>1, <2>1, <2>2 DEF EnvTypes, KeyTypes, CacheTypes
    <2>4. EmptyWithoutMaster' /\ AnnouncedWasOpen'
        BY <2>2 DEF EmptyWithoutMaster, AnnouncedWasOpen
    <2>5. CalledMasterWasOpen'
        BY <2>1, <2>2 DEF CalledMasterWasOpen
    <2> QED
        BY <2>3, <2>4, <2>5
<1>2. CASE cacheUpdater
    <2> DEFINE states == [h \in nodes |-> key[h].state]
    <2>1. nodes \in SUBSET Hosts /\ states \in [nodes -> States]
        BY DEF EnvTypes, KeyTypes, Keys
    <2>2. \A h \in nodes : states[h] = "master" => h \in opened
        BY <2>1 DEF CalledMasterWasOpen
    <2>3. usable(states) \ {Here} \in SUBSET (Hosts \ {Here})
        BY <2>1 DEF usable
    <2>4. updateCache("cacheUpdater", states, usable(states) \ {Here}) /\ left' \in Nat
        BY <1>2 DEF cacheUpdater, EnvTypes
    <2>5. "cacheUpdater" \in Writers
        BY DEF Writers
    <2> HIDE DEF states
    <2> QED
        BY <1>1, <2>1, <2>2, <2>3, <2>4, <2>5
<1>3. CASE notifySentiCaches
    <2>1. members \in SUBSET Hosts /\ current \in [members -> States]
        BY DEF EnvTypes, current
    <2>2. \A h \in members : current[h] = "master" => h \in opened
        BY DEF CalledMasterWasOpen, current, EnvTypes
    <2>3. updateCache("manager", current, {}) /\ left' \in Nat
        BY <1>3 DEF notifySentiCaches, Disturb, EnvTypes
    <2>4. "manager" \in Writers
        BY DEF Writers
    <2> QED
        BY <1>1, <2>1, <2>2, <2>3, <2>4
<1> QED
    BY <1>2, <1>3

\* What the steps of an Update have in common: they leave everything but the
\* cache, broken and the Update of their own writer alone, and the Update they
\* leave behind names the same master, or is over (SentiCacheNode.Update).
LEMMA UpdateStep ==
    ASSUME IndInv, NEW w \in Writers, NEW next \in Updates,
           update' = [update EXCEPT ![w] = next],
           next.pc # "idle" => next.master \in opened,
           cache' \in Caches, EmptyWithoutMaster', cache'.master \in opened \cup {NoHost},
           broken' \in BOOLEAN,
           UNCHANGED <<server, members, nodes, session, key, opened, left>>
    PROVE  IndInv'
<1> USE DEF IndInv
<1>1. EnvTypes' /\ KeyTypes' /\ CacheTypes'
    BY DEF EnvTypes, KeyTypes, CacheTypes
<1>2. CalledMasterWasOpen'
    BY DEF CalledMasterWasOpen, CacheTypes
<1>3. AnnouncedWasOpen'
    BY DEF AnnouncedWasOpen
<1> QED
    BY <1>1, <1>2, <1>3

\* The reads and the command of an Update keep the invariant, also when the cache
\* has died or was written by the other writer in between.
LEMMA RunUpdate ==
    ASSUME IndInv, NEW w \in Writers, ReadSentinels(w) \/ ReadReplicas(w) \/ CacheUpdate(w)
    PROVE  IndInv'
<1> USE DEF IndInv
<1>1. update[w] \in Updates /\ NoUpdate \in Updates /\ NoUpdate.pc = "idle"
    BY ConstantTypes DEF CacheTypes, NoUpdate
<1>2. cache \in Caches /\ EmptyCache \in Caches /\ cache.up \in BOOLEAN /\ broken \in BOOLEAN
    BY ConstantTypes DEF CacheTypes, Caches
<1>3. update[w].pc # "idle" => update[w].master \in opened
    BY DEF CalledMasterWasOpen
<1>4. opened \subseteq Hosts /\ NoHost \notin opened
    BY SentiCacheAssumption DEF EnvTypes
<1>5. CASE ReadSentinels(w)
    <2> DEFINE now == IF w = "cacheUpdater" /\ broken THEN EmptyCache ELSE cache
               next == IF ~now.up THEN NoUpdate
                       ELSE [update[w] EXCEPT
                                !.pc = IF now.master = NoHost THEN "command" ELSE "replicas",
                                !.dropSentinels = now.sentinels \ update[w].sentinels]
    <2>1. now \in Caches /\ cache' = now
        BY <1>2, <1>5 DEF ReadSentinels
    <2>2. EmptyWithoutMaster' /\ cache'.master \in opened \cup {NoHost}
        BY <2>1 DEF EmptyCache, EmptyWithoutMaster, AnnouncedWasOpen
    <2>3. broken' \in BOOLEAN
        BY <1>2, <1>5, <2>1 DEF ReadSentinels, fails, Caches
    <2>4. update' = [update EXCEPT ![w] = next]
        BY <1>5 DEF ReadSentinels, CacheTypes
    <2>5. next \in Updates /\ (next.pc # "idle" => next.master = update[w].master)
        BY <1>1, <2>1 DEF Updates, Caches
    <2>6. next.pc # "idle" => next.master \in opened
        BY <1>3, <1>5, <2>5 DEF ReadSentinels
    <2>7. UNCHANGED <<server, members, nodes, session, key, opened, left>>
        BY <1>5 DEF ReadSentinels
    <2> HIDE DEF now, next
    <2> QED
        BY <2>1, <2>2, <2>3, <2>4, <2>5, <2>6, <2>7, UpdateStep
<1>6. CASE ReadReplicas(w)
    <2> DEFINE next == IF ~cache.up THEN NoUpdate
                       ELSE [update[w] EXCEPT
                                !.pc = "command",
                                !.dropReplicas = cache.replicas \ update[w].replicas]
    <2>1. cache' = cache
        BY <1>6 DEF ReadReplicas
    <2>2. EmptyWithoutMaster' /\ cache'.master \in opened \cup {NoHost}
        BY <2>1 DEF EmptyWithoutMaster, AnnouncedWasOpen
    <2>3. broken' \in BOOLEAN
        BY <1>2, <1>6 DEF ReadReplicas, fails
    <2>4. update' = [update EXCEPT ![w] = next]
        BY <1>6 DEF ReadReplicas, CacheTypes
    <2>5. next \in Updates /\ (next.pc # "idle" => next.master = update[w].master)
        BY <1>1, <1>2 DEF Updates, Caches
    <2>6. next.pc # "idle" => next.master \in opened
        BY <1>3, <1>6, <2>5 DEF ReadReplicas
    <2>7. UNCHANGED <<server, members, nodes, session, key, opened, left>>
        BY <1>6 DEF ReadReplicas
    <2> HIDE DEF next
    <2> QED
        BY <1>2, <2>1, <2>2, <2>3, <2>4, <2>5, <2>6, <2>7, UpdateStep
<1>7. CASE CacheUpdate(w)
    <2>1. update[w].master \in opened
        BY <1>3, <1>7 DEF CacheUpdate
    <2>2. applied(update[w]) \in Caches /\ applied(update[w]).master = update[w].master
        BY <1>1, <1>2 DEF applied, Caches, Updates
    <2>3. /\ cache' \in Caches
          /\ cache' = cache \/ (cache' = applied(update[w]) /\ cache'.master = update[w].master)
        BY <1>2, <1>7, <2>2 DEF CacheUpdate
    <2>4. EmptyWithoutMaster' /\ cache'.master \in opened \cup {NoHost}
        BY <1>4, <2>1, <2>3 DEF EmptyWithoutMaster, AnnouncedWasOpen
    <2>5. broken' \in BOOLEAN
        BY <1>2, <1>7 DEF CacheUpdate, fails
    <2>6. /\ update' = [update EXCEPT ![w] = NoUpdate]
          /\ UNCHANGED <<server, members, nodes, session, key, opened, left>>
        BY <1>7 DEF CacheUpdate
    <2> QED
        BY <1>1, <2>3, <2>4, <2>5, <2>6, UpdateStep
<1> QED
    BY <1>5, <1>6, <1>7

\* Every step keeps the inductive invariant: the steps of the servers, the members,
\* the sessions and the keys one by one, then those of the writers.
LEMMA InvStep == IndInv /\ [Next]_vars => IndInv'
<1> SUFFICES ASSUME IndInv, [Next]_vars
             PROVE  IndInv'
    OBVIOUS
<1> USE DEF IndInv
<1>1. CASE UNCHANGED vars
    BY <1>1
    DEF vars, EnvTypes, KeyTypes, CacheTypes, EmptyWithoutMaster, CalledMasterWasOpen, AnnouncedWasOpen
<1>2. ASSUME NEW h \in Hosts, NEW state \in States, ServerChanges(h, state)
      PROVE  IndInv'
    <2> USE <1>2 DEF ServerChanges, Disturb
    <2>1. EnvTypes' /\ KeyTypes' /\ CacheTypes'
        BY DEF EnvTypes, KeyTypes, CacheTypes
    <2>2. EmptyWithoutMaster' /\ AnnouncedWasOpen'
        BY DEF EmptyWithoutMaster, AnnouncedWasOpen
    <2>3. CalledMasterWasOpen'
        BY DEF EnvTypes, CalledMasterWasOpen
    <2> QED
        BY <2>1, <2>2, <2>3
<1>3. ASSUME NEW h \in Hosts, CliHostAdd(h) \/ CliHostRemove(h)
      PROVE  IndInv'
    BY <1>3
    DEF CliHostAdd, CliHostRemove, Disturb,
        EnvTypes, KeyTypes, CacheTypes, EmptyWithoutMaster, CalledMasterWasOpen, AnnouncedWasOpen
<1>4. CASE UpdateHostsInfo
    BY <1>4
    DEF UpdateHostsInfo,
        EnvTypes, KeyTypes, CacheTypes, EmptyWithoutMaster, CalledMasterWasOpen, AnnouncedWasOpen
<1>5. ASSUME NEW h \in Hosts, healthChecker(h)
      PROVE  IndInv'
    <2> DEFINE owner == IF key[h].exists THEN key[h].owner ELSE session[h]
    <2>1. owner \in Nat /\ owner <= session[h]
        BY DEF EnvTypes, KeyTypes, Keys
    <2>2. key' = [key EXCEPT ![h] = Key(owner, server[h])] /\ UNCHANGED session
        BY <1>5 DEF healthChecker, KeyTypes
    <2> HIDE DEF owner
    <2>3. Key(owner, server[h]) \in Keys
        BY <2>1, ConstantTypes DEF EnvTypes
    <2>4. KeyTypes'
        BY <2>1, <2>2, <2>3 DEF KeyTypes, Key
    <2>5. CalledMasterWasOpen'
        BY <1>5, <2>2 DEF healthChecker, CalledMasterWasOpen, KeyTypes, Key
    <2> QED
        BY <1>5, <2>4, <2>5
        DEF healthChecker, EnvTypes, CacheTypes, EmptyWithoutMaster, AnnouncedWasOpen
<1>6. ASSUME NEW h \in Hosts, NewSession(h)
      PROVE  IndInv'
    <2> USE <1>6 DEF NewSession, Disturb
    <2>1. EnvTypes' /\ CacheTypes'
        BY DEF EnvTypes, CacheTypes
    <2>2. KeyTypes'
        BY DEF EnvTypes, KeyTypes, Keys
    <2> QED
        BY <2>1, <2>2 DEF EmptyWithoutMaster, CalledMasterWasOpen, AnnouncedWasOpen
<1>7. ASSUME NEW h \in Hosts, OldSessionExpires(h)
      PROVE  IndInv'
    <2> USE <1>7 DEF OldSessionExpires
    <2>1. KeyTypes'
        BY ConstantTypes DEF EnvTypes, KeyTypes, NoKey
    <2>2. CalledMasterWasOpen'
        BY DEF CalledMasterWasOpen, KeyTypes, NoKey
    <2> QED
        BY <2>1, <2>2 DEF EnvTypes, CacheTypes, EmptyWithoutMaster, AnnouncedWasOpen
<1>8. CASE cacheUpdater \/ notifySentiCaches
    BY <1>8, StartUpdate
<1>9. ASSUME NEW w \in Writers, ReadSentinels(w) \/ ReadReplicas(w) \/ CacheUpdate(w)
      PROVE  IndInv'
    BY <1>9, RunUpdate
<1>10. CASE CacheDies
    <2> USE <1>10 DEF CacheDies, Disturb
    <2>1. cache' \in Caches /\ cache'.master = NoHost /\ cache'.replicas = {} /\ cache'.sentinels = {}
        BY DEF EmptyCache, Caches
    <2>2. EnvTypes' /\ KeyTypes' /\ CacheTypes'
        BY <2>1 DEF EnvTypes, KeyTypes, CacheTypes
    <2> QED
        BY <2>1, <2>2 DEF EmptyWithoutMaster, CalledMasterWasOpen, AnnouncedWasOpen
<1> QED
    BY <1>1, <1>2, <1>3, <1>4, <1>5, <1>6, <1>7, <1>8, <1>9, <1>10 DEF Next

\* The inductive invariant holds in every reachable state.
LEMMA Inductive == Spec => []IndInv
BY InitInv, InvStep, PTL DEF Spec

-----------------------------------------------------------------------------
\* The types of the cache, the keys and the Updates, for every shard: SentiCacheNode
\* never leaves replicas or senticaches in a cache without a master, and never lists
\* a cache in itself.
THEOREM TypeCorrect == Spec => []TypeOK
<1>1. IndInv => TypeOK
    BY DEF IndInv, EnvTypes, KeyTypes, CacheTypes, EmptyWithoutMaster, Keys, Caches, TypeOK
<1> QED
    BY <1>1, Inductive, PTL

\* Whatever the two writers of the cache (cacheUpdater and the manager's
\* notifySentiCaches) read, from keys and answers however old, and however their
\* Updates interleave: the cache names no host that has not been an open master.
THEOREM AnnouncedAlwaysWasOpen == Spec => []AnnouncedWasOpen
<1>1. IndInv => AnnouncedWasOpen
    BY DEF IndInv
<1> QED
    BY <1>1, Inductive, PTL
=============================================================================
