---------------------------- MODULE ShardProofs ----------------------------
(***************************************************************************)
(* What the promise of Shard amounts to, however often the role moves:     *)
(* acknowledged writes are where the next one is acknowledged.             *)
(***************************************************************************)
EXTENDS Shard, TLAPS

\* The variables of the promise keep their types.
THEOREM TypeCorrect ==
    ASSUME InitialMaster \in Hosts
    PROVE  Spec => []TypeOK
<1>1. Init => TypeOK
    BY DEF Init, TypeOK
<1>2. TypeOK /\ [Next]_vars => TypeOK'
    <2> SUFFICES ASSUME TypeOK, [Next]_vars
                 PROVE  TypeOK'
        OBVIOUS
    <2>1. ASSUME NEW n \in WriteIds, Write(n) \/ Acknowledge(n)
          PROVE  TypeOK'
        BY <2>1 DEF TypeOK, Write, Acknowledge
    <2>2. ASSUME NEW h \in Hosts, TakeOver(h)
          PROVE  TypeOK'
        BY <2>2 DEF TypeOK, TakeOver
    <2>3. CASE StepDown
        BY <2>3 DEF TypeOK, StepDown
    <2>4. CASE GiveUp
        BY <2>4 DEF TypeOK, GiveUp
    <2>5. CASE UNCHANGED vars
        BY <2>5 DEF TypeOK, vars
    <2> QED
        BY <2>1, <2>2, <2>3, <2>4, <2>5 DEF Next
<1> QED
    BY <1>1, <1>2, PTL DEF Spec

\* A shard that keeps the promise loses no acknowledged write.
THEOREM AlwaysDurable == Spec => []Durable
<1>1. Init => Durable
    BY DEF Init, Durable
<1>2. Durable /\ [Next]_vars => Durable'
    <2> SUFFICES ASSUME Durable, [Next]_vars
                 PROVE  Durable'
        OBVIOUS
    <2>1. ASSUME NEW n \in WriteIds, Write(n) \/ Acknowledge(n)
          PROVE  Durable'
        BY <2>1 DEF Durable, Write, Acknowledge
    <2>2. ASSUME NEW h \in Hosts, TakeOver(h)
          PROVE  Durable'
        BY <2>2 DEF Durable, TakeOver
    <2>3. CASE StepDown \/ GiveUp
        BY <2>3 DEF Durable, StepDown, GiveUp
    <2>4. CASE UNCHANGED vars
        BY <2>4 DEF Durable, vars
    <2> QED
        BY <2>1, <2>2, <2>3, <2>4 DEF Next
<1> QED
    BY <1>1, <1>2, PTL DEF Spec
=============================================================================
