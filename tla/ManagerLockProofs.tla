------------------------- MODULE ManagerLockProofs -------------------------
(***************************************************************************)
(* What ManagerLock guarantees for every number of hosts and of faults:    *)
(* its types, and that hosts which have kept their session are never in a  *)
(* pass of stateManager together (KeptSessionExclusive).                   *)
(***************************************************************************)
EXTENDS ManagerLock, FiniteSetTheorems, TLAPS

\* what a host that believes in its lock goes by
Believes(h) == lockHeld[h] # "none" \/ pc[h] \in {"store", "pass", "switchover"}

\* a belief is right as long as the session lasts and nobody has released a lock
BeliefIsRight ==
    spent["giveUps"] = 0 =>
        \A h \in Hosts :
            /\ pc[h] \notin {"release", "delete", "await"}
            /\ h \notin interrupted /\ Believes(h) => lock = h

IndInv == TypeOK /\ BeliefIsRight

-----------------------------------------------------------------------------
\* The initial state satisfies the inductive invariant.
LEMMA InitInv == Init => IndInv
BY ManagerLockAssumption DEF Init, Counters, States, PCs, IndInv, TypeOK, BeliefIsRight, Believes

\* A new client keeps the types of what it replaces (reconnectDCS, restart).
LEMMA FreshClientType ==
    ASSUME TypeOK, NEW h \in Hosts, freshClient(h)
    PROVE  /\ {alive', link', isConnected', due', interrupted'} \subseteq SUBSET Hosts
           /\ link' \subseteq alive'
           /\ events' \in [Hosts -> Seq({"other", "hasSession"})]
           /\ closeTimer' \in [Hosts -> {"nil", "running", "expired"}]
           /\ lockHeld' \in [Hosts -> {"none", "fresh", "stale"}]
BY DEF TypeOK, freshClient

\* A handler's answer, or the next step of a call, keeps the types (App.Run).
LEMMA ControlType ==
    ASSUME TypeOK, NEW h \in Hosts,
           \/ \E label \in PCs : goto(h, label)
           \/ \E s \in States : become(h, s)
    PROVE  state' \in [Hosts -> States] /\ pc' \in [Hosts -> PCs]
BY DEF TypeOK, goto, become, States, PCs

\* The counters of the bounds stay natural numbers.
LEMMA SpendType ==
    ASSUME TypeOK, NEW counter \in Counters, NEW max, spend(counter, max)
    PROVE  spent' \in [Counters -> Nat]
BY DEF TypeOK, spend

\* Every step keeps the types (zk.go, and the states of App.Run).
LEMMA TypeStep == TypeOK /\ [Next]_vars => TypeOK'
<1> SUFFICES ASSUME TypeOK, [Next]_vars
             PROVE  TypeOK'
    OBVIOUS
<1> USE DEF serverVars, clientVars, appVars, released
<1>1. CASE UNCHANGED vars
    BY <1>1 DEF vars, TypeOK
<1>2. CASE ExpireOrphan
    BY <1>2 DEF ExpireOrphan, TypeOK
<1>3. ASSUME NEW h \in Hosts, AcquireLock(h) \/ ReleaseGet(h) \/ ReleaseDelete(h)
      PROVE  TypeOK'
    <2>1. (granted(h) \/ refused(h)) => state' \in [Hosts -> States] /\ pc' \in [Hosts -> PCs]
        BY ControlType DEF granted, refused, PCs, States
    <2>2. ASSUME NEW label \in PCs, goto(h, label)
          PROVE  state' \in [Hosts -> States] /\ pc' \in [Hosts -> PCs]
        BY <2>2, ControlType
    <2>3. CASE Load(h)
        <3>1. state' \in [Hosts -> States] /\ pc' \in [Hosts -> PCs]
            BY <2>1, <2>2, <2>3 DEF Load, PCs
        <3> QED
            BY <2>3, <3>1 DEF Load, TypeOK
    <2>4. CASE GetOwner(h)
        <3>1. state' \in [Hosts -> States] /\ pc' \in [Hosts -> PCs]
            BY <2>1, <2>2, <2>4 DEF GetOwner, PCs
        <3> QED
            BY <2>4, <3>1 DEF GetOwner, TypeOK
    <2>5. CASE CreateEphemeral(h)
        <3>1. state' \in [Hosts -> States] /\ pc' \in [Hosts -> PCs]
            BY <2>1, <2>2, <2>5 DEF CreateEphemeral, PCs
        <3> QED
            BY <2>5, <3>1 DEF CreateEphemeral, TypeOK
    <2>6. CASE Store(h)
        <3>1. state' \in [Hosts -> States] /\ pc' \in [Hosts -> PCs]
            BY <2>1, <2>6 DEF Store
        <3> QED
            BY <2>6, <3>1 DEF Store, TypeOK
    <2>7. CASE ReleaseGet(h)
        <3>1. state' \in [Hosts -> States] /\ pc' \in [Hosts -> PCs]
            BY <2>2, <2>7 DEF ReleaseGet, PCs
        <3> QED
            BY <2>7, <3>1 DEF ReleaseGet, TypeOK
    <2>8. CASE ReleaseDelete(h)
        <3>1. state' \in [Hosts -> States] /\ pc' \in [Hosts -> PCs]
            BY <2>2, <2>8 DEF ReleaseDelete, PCs
        <3> QED
            BY <2>8, <3>1 DEF ReleaseDelete, TypeOK
    <2> QED
        BY <1>3, <2>3, <2>4, <2>5, <2>6, <2>7, <2>8 DEF AcquireLock
<1>4. ASSUME NEW h \in Hosts, Tick(h) \/ Pass(h)
      PROVE  TypeOK'
    <2>1. state' \in [Hosts -> States] /\ pc' \in [Hosts -> PCs]
        BY <1>4, ControlType DEF Tick, Pass, PCs, States
    <2> QED
        BY <1>4, <2>1 DEF Tick, Pass, TypeOK
<1>5. ASSUME NEW h \in Hosts, GiveUp(h)
      PROVE  TypeOK'
    <2>1. state' \in [Hosts -> States] /\ pc' \in [Hosts -> PCs]
        BY <1>5, ControlType DEF GiveUp, PCs, States
    <2>2. spent' \in [Counters -> Nat]
        BY <1>5, SpendType DEF GiveUp, Counters
    <2> QED
        BY <1>5, <2>1, <2>2 DEF GiveUp, TypeOK
<1>6. ASSUME NEW h \in Hosts, Connect(h)
      PROVE  TypeOK'
    <2>1. events[h] \o <<"other", "hasSession">> \in Seq({"other", "hasSession"})
        BY DEF TypeOK
    <2> QED
        BY <1>6, <2>1 DEF Connect, TypeOK
<1>7. ASSUME NEW h \in Hosts, Disconnect(h)
      PROVE  TypeOK'
    <2>1. Append(events[h], "other") \in Seq({"other", "hasSession"})
        BY DEF TypeOK
    <2>2. lock' \in Hosts \cup {NoHost, Orphan}
        BY <1>7 DEF Disconnect, TypeOK
    <2>3. spent' \in [Counters -> Nat]
        BY <1>7, SpendType DEF Disconnect, Counters
    <2> QED
        BY <1>7, <2>1, <2>2, <2>3 DEF Disconnect, TypeOK
<1>8. ASSUME NEW h \in Hosts, Expire(h)
      PROVE  TypeOK'
    BY <1>8 DEF Expire, TypeOK
<1>9. ASSUME NEW h \in Hosts, CloseTimerExpires(h) \/ LockHeldAges(h)
      PROVE  TypeOK'
    <2>1. CASE CloseTimerExpires(h)
        BY <2>1 DEF CloseTimerExpires, TypeOK
    <2>2. CASE LockHeldAges(h)
        BY <2>2 DEF LockHeldAges, TypeOK
    <2> QED
        BY <1>9, <2>1, <2>2
<1>10. ASSUME NEW h \in Hosts, handleSessionEvent(h)
       PROVE  TypeOK'
    <2>1. Tail(events[h]) \in Seq({"other", "hasSession"})
        BY <1>10 DEF handleSessionEvent, TypeOK
    <2>2. /\ events' \in [Hosts -> Seq({"other", "hasSession"})]
          /\ closeTimer' \in [Hosts -> {"nil", "running", "expired"}]
          /\ lockHeld' \in [Hosts -> {"none", "fresh", "stale"}]
          /\ isConnected' \in SUBSET Hosts
        BY <1>10, <2>1 DEF handleSessionEvent, TypeOK
    <2> QED
        BY <1>10, <2>2 DEF handleSessionEvent, TypeOK
<1>11. ASSUME NEW h \in Hosts, exit(h), spent' \in [Counters -> Nat]
       PROVE  TypeOK'
    BY <1>11, FreshClientType DEF exit, TypeOK, PCs, States
<1>12. ASSUME NEW h \in Hosts, disconnectCallback(h) \/ Kill(h) \/ reconnectDCS(h)
       PROVE  TypeOK'
    <2>1. CASE disconnectCallback(h)
        <3>1. CASE exit(h)
            BY <1>11, <2>1, <3>1 DEF disconnectCallback, TypeOK
        <3>2. CASE ~exit(h)
            BY <2>1, <3>2 DEF disconnectCallback, TypeOK
        <3> QED
            BY <3>1, <3>2
    <2>2. CASE Kill(h)
        <3>1. spent' \in [Counters -> Nat]
            BY <2>2, SpendType DEF Kill, Counters
        <3> QED
            BY <1>11, <2>2, <3>1 DEF Kill
    <2>3. CASE reconnectDCS(h)
        <3>1. spent' \in [Counters -> Nat]
            BY <2>3, SpendType DEF reconnectDCS, Counters
        <3> QED
            BY <2>3, <3>1, FreshClientType DEF reconnectDCS, TypeOK
    <2> QED
        BY <1>12, <2>1, <2>2, <2>3
<1> QED
    BY <1>1, <1>2, <1>3, <1>4, <1>5, <1>6, <1>7, <1>8, <1>9, <1>10, <1>12
    DEF Next, Run

-----------------------------------------------------------------------------
\* Every step keeps a host's belief in its lock right, as long as the host keeps
\* its session and no lock has been released (AcquireLock, handleSessionEvent).
LEMMA BeliefStep == IndInv /\ [Next]_vars => BeliefIsRight'
<1> SUFFICES ASSUME IndInv, [Next]_vars, spent'["giveUps"] = 0, NEW k \in Hosts
             PROVE  /\ pc'[k] \notin {"release", "delete", "await"}
                    /\ k \notin interrupted' /\ Believes(k)' => lock' = k
    BY DEF BeliefIsRight
<1> USE DEF serverVars, clientVars, appVars, released, Believes
<1>t. TypeOK /\ TypeOK'
    BY TypeStep DEF IndInv
<1>0. ASSUME spent'["giveUps"] = spent["giveUps"]
      PROVE  \A h \in Hosts : /\ pc[h] \notin {"release", "delete", "await"}
                              /\ h \notin interrupted /\ Believes(h) => lock = h
    BY <1>0 DEF IndInv, BeliefIsRight
<1>f. pc \in [Hosts -> PCs] /\ lockHeld \in [Hosts -> {"none", "fresh", "stale"}]
    BY <1>t DEF TypeOK
<1>1. CASE UNCHANGED vars
    BY <1>0, <1>1 DEF vars
<1>2. CASE ExpireOrphan
    BY <1>0, <1>2, ManagerLockAssumption DEF ExpireOrphan
<1>3. ASSUME NEW h \in Hosts, AcquireLock(h)
      PROVE  /\ pc'[k] \notin {"release", "delete", "await"}
             /\ k \notin interrupted' /\ Believes(k)' => lock' = k
    <2> USE DEF granted, refused, goto, become
    <2>1. CASE Load(h)
        BY <1>0, <1>f, <2>1 DEF Load
    <2>2. CASE GetOwner(h)
        BY <1>0, <1>f, <2>2 DEF GetOwner
    <2>3. CASE CreateEphemeral(h)
        BY <1>0, <1>f, <2>3, ManagerLockAssumption DEF CreateEphemeral
    <2>4. CASE Store(h)
        BY <1>0, <1>f, <2>4 DEF Store
    <2> QED
        BY <1>3, <2>1, <2>2, <2>3, <2>4 DEF AcquireLock
<1>4. ASSUME NEW h \in Hosts, ReleaseGet(h) \/ ReleaseDelete(h)
      PROVE  FALSE
    BY <1>0, <1>4 DEF ReleaseGet, ReleaseDelete
<1>5. ASSUME NEW h \in Hosts, Tick(h) \/ Pass(h)
      PROVE  /\ pc'[k] \notin {"release", "delete", "await"}
             /\ k \notin interrupted' /\ Believes(k)' => lock' = k
    BY <1>0, <1>f, <1>5 DEF Tick, Pass, goto, become
<1>6. ASSUME NEW h \in Hosts, GiveUp(h)
      PROVE  FALSE
    <2>1. spent'["giveUps"] = spent["giveUps"] + 1 /\ spent["giveUps"] \in Nat
        BY <1>t, <1>6 DEF GiveUp, spend, TypeOK, Counters
    <2> QED
        BY <2>1
<1>7. ASSUME NEW h \in Hosts, Connect(h) \/ handleSessionEvent(h) \/ CloseTimerExpires(h)
                              \/ LockHeldAges(h)
      PROVE  /\ pc'[k] \notin {"release", "delete", "await"}
             /\ k \notin interrupted' /\ Believes(k)' => lock' = k
    BY <1>0, <1>f, <1>7 DEF Connect, handleSessionEvent, CloseTimerExpires, LockHeldAges
<1>8. ASSUME NEW h \in Hosts, Disconnect(h)
      PROVE  /\ pc'[k] \notin {"release", "delete", "await"}
             /\ k \notin interrupted' /\ Believes(k)' => lock' = k
    <2>1. spent'["giveUps"] = spent["giveUps"]
        BY <1>t, <1>8 DEF Disconnect, spend, TypeOK, Counters
    <2> QED
        BY <1>0, <1>8, <2>1, ManagerLockAssumption DEF Disconnect
<1>9. ASSUME NEW h \in Hosts, Expire(h)
      PROVE  /\ pc'[k] \notin {"release", "delete", "await"}
             /\ k \notin interrupted' /\ Believes(k)' => lock' = k
    BY <1>0, <1>9 DEF Expire
<1>10. ASSUME NEW h \in Hosts, exit(h), spent'["giveUps"] = spent["giveUps"]
       PROVE  /\ pc'[k] \notin {"release", "delete", "await"}
              /\ k \notin interrupted' /\ Believes(k)' => lock' = k
    BY <1>0, <1>f, <1>10 DEF exit, freshClient
<1>11. ASSUME NEW h \in Hosts, disconnectCallback(h) \/ Kill(h) \/ reconnectDCS(h)
       PROVE  /\ pc'[k] \notin {"release", "delete", "await"}
              /\ k \notin interrupted' /\ Believes(k)' => lock' = k
    <2>1. CASE disconnectCallback(h) /\ exit(h)
        BY <1>10, <2>1 DEF disconnectCallback
    <2>2. CASE disconnectCallback(h) /\ ~exit(h)
        BY <1>0, <2>2 DEF disconnectCallback
    <2>3. CASE Kill(h)
        <3>1. spent'["giveUps"] = spent["giveUps"]
            BY <1>t, <2>3 DEF Kill, spend, TypeOK, Counters
        <3> QED
            BY <1>10, <2>3, <3>1 DEF Kill
    <2>4. CASE reconnectDCS(h)
        <3>1. spent'["giveUps"] = spent["giveUps"]
            BY <1>t, <2>4 DEF reconnectDCS, spend, TypeOK, Counters
        <3> QED
            BY <1>0, <1>f, <2>4, <3>1 DEF reconnectDCS, freshClient
    <2> QED
        BY <1>11, <2>1, <2>2, <2>3, <2>4
<1> QED
    BY <1>1, <1>2, <1>3, <1>4, <1>5, <1>6, <1>7, <1>8, <1>9, <1>11 DEF Next, Run

\* The inductive invariant is an invariant of the specification.
LEMMA Inductive == Spec => []IndInv
<1>1. IndInv /\ [Next]_vars => IndInv'
    BY TypeStep, BeliefStep DEF IndInv
<1> QED
    BY <1>1, InitInv, PTL DEF Spec

\* The key "manager", the client's cache and timer and the states of App.Run keep
\* their types, and a connected client always has a session, for every set of
\* hosts and every number of faults.
THEOREM TypeCorrect == Spec => []TypeOK
<1>1. IndInv => TypeOK
    BY DEF IndInv
<1> QED
    BY <1>1, Inductive, PTL

\* Two hosts that have kept their sessions are never in a pass of stateManager
\* together before a manager gives up its role: the answers that AcquireLock
\* takes from lockHeld are as good as the server's.
THEOREM KeptSessionsExclude == Spec => []KeptSessionExclusive
<1>1. IndInv => KeptSessionExclusive
    <2> SUFFICES ASSUME IndInv, spent["giveUps"] = 0
                 PROVE  Cardinality({h \in Hosts \ interrupted :
                                        pc[h] \in {"pass", "switchover"}}) <= 1
        BY DEF KeptSessionExclusive
    <2> DEFINE S == {h \in Hosts \ interrupted : pc[h] \in {"pass", "switchover"}}
    <2>1. S \in SUBSET {lock}
        BY DEF IndInv, BeliefIsRight, Believes
    <2>2. IsFiniteSet({lock}) /\ Cardinality({lock}) = 1
        BY FS_Singleton
    <2> HIDE DEF S
    <2>3. Cardinality(S) <= Cardinality({lock})
        BY <2>1, <2>2, FS_Subset
    <2> QED
        BY <2>2, <2>3 DEF S
<1> QED
    BY <1>1, Inductive, PTL
=============================================================================
