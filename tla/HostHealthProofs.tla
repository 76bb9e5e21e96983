-------------------------- MODULE HostHealthProofs --------------------------
(***************************************************************************)
(* What HostHealth guarantees for every choice of the timeouts and every   *)
(* number of disturbances: its types, that only a poison pill restarts a   *)
(* server that loads its data (LoadingLeftAlone), and that a manager that  *)
(* stays manager never starts a failover before the master has been        *)
(* unwell for failover_timeout (FailoverNotEarly).                         *)
(*                                                                         *)
(* The last one rests on Timing, which relates the entry of nodeFailTime   *)
(* that the manager keeps to how long the host has really been unwell: in  *)
(* every tick that the entry survives, something was wrong with the host.  *)
(***************************************************************************)
EXTENDS HostHealth, TLAPS

Keys == [exists : BOOLEAN, PingOk : BOOLEAN, IsOffline : BOOLEAN]

\* the Boolean variables apart from the others, for the provers' sake
Flags ==
    /\ offline \in BOOLEAN /\ behind \in BOOLEAN /\ linked \in BOOLEAN
    /\ master \in BOOLEAN /\ switch \in BOOLEAN
    /\ lost \in BOOLEAN /\ sound \in BOOLEAN /\ moved \in BOOLEAN

HostTypes ==
    /\ server \in {"up", "busy", "loading", "dead"}
    /\ load \in 0 .. LoadTicks /\ (load > 0 <=> server = "loading")
    /\ disk \in {"good", "bad", "none"}

RdsyncTypes ==
    /\ pill \in {"none", "issued", "applied"}
    /\ manager \in Rdsyncs
    /\ key \in Keys
    /\ pc \in {"idle", "decide", "write"}
    /\ seen \in [ok : BOOLEAN, dcs : Keys, master : BOOLEAN]
    /\ todo \subseteq Rdsyncs \cup {"healthChecker"}

ClockTypes ==
    /\ fail \in [Rdsyncs -> 0 .. Cap] /\ misses \in [Rdsyncs -> 0 .. PingStable]
    /\ down \in 0 .. Cap /\ left \in Nat

TypeInv == Flags /\ HostTypes /\ RdsyncTypes /\ ClockTypes

\* something has been wrong with the host since the last tick, so that the next
\* one will count as down: it is not sound, or the key that has been written since
\* (and will not be written again before the tick) says so
Unwell == ~sound \/ ("healthChecker" \notin todo /\ (key.IsOffline \/ ~key.PingOk))

\* what the history variable sound stands for
SoundHost ==
    /\ sound => server = "up" /\ ~offline
    /\ sound /\ "healthChecker" \in todo => ~key.IsOffline

\* the local manager between the two halves of its pass
DecideView ==
    pc = "decide" =>
        /\ "local" \in todo
        /\ masterFailed(seen) => Unwell
        /\ ~moved => manager = "local" /\ seen.master = master

\* The clock of the one manager there has been, until its first failover: it is not
\* ahead of the time that the host has been unwell, and a pass that leaves it
\* running has found something wrong.
Timing ==
    ~moved /\ ~switch /\ master =>
        /\ fail[manager] <= down + 1
        /\ fail[manager] > 0 /\ manager \notin todo => Unwell

\* who has lost the DCS, or applies a pill, is not the one manager there has been
NotManager == (lost \/ pc = "write") /\ ~moved => manager = "remote"

IndInv == TypeInv /\ SoundHost /\ DecideView /\ Timing /\ NotManager

-----------------------------------------------------------------------------
\* The options are positive, and the cap of the clocks leaves room for all of them.
LEMMA Options ==
    /\ PingStable \in Nat /\ FailoverTimeout \in Nat /\ RestartTimeout \in Nat /\ LoadTicks \in Nat
    /\ PingStable > 0 /\ FailoverTimeout > 0 /\ RestartTimeout > 0 /\ LoadTicks > 0
    /\ Cap \in Nat /\ Cap > FailoverTimeout + 1
BY HostHealthAssumption DEF Cap

\* The initial state satisfies the inductive invariant.
LEMMA InitInv == Init => IndInv
<1> SUFFICES ASSUME Init PROVE IndInv
    OBVIOUS
<1>1. key \in Keys
    BY DEF Init, Key, Keys
<1>2. Flags
    BY DEF Init, Flags
<1>3. HostTypes
    BY Options DEF Init, HostTypes
<1>4. RdsyncTypes
    <2>1. seen \in [ok : BOOLEAN, dcs : Keys, master : BOOLEAN]
        BY <1>1 DEF Init
    <2> QED
        BY <1>1, <2>1 DEF Init, RdsyncTypes
<1>5. ClockTypes
    BY Options, HostHealthAssumption DEF Init, ClockTypes
<1>6. SoundHost /\ DecideView /\ Timing /\ NotManager
    BY DEF Init, Key, SoundHost, DecideView, Timing, NotManager, Rdsyncs
<1> QED
    BY <1>2, <1>3, <1>4, <1>5, <1>6 DEF IndInv, TypeInv

\* A ping keeps the window a number of results of at most ping_stable (EvaluatePing).
LEMMA GetStateType ==
    ASSUME TypeInv, NEW r \in Rdsyncs, NEW calls \in Nat, getState(r, calls)
    PROVE  misses' \in [Rdsyncs -> 0 .. PingStable]
BY Options DEF TypeInv, ClockTypes, getState, min

\* A server that is started loads its data or is dead at once (Node.Restart).
LEMMA RestartType ==
    ASSUME TypeInv, Restart, UNCHANGED disk
    PROVE  HostTypes' /\ offline' \in BOOLEAN /\ linked' \in BOOLEAN
<1>1. HostTypes'
    BY Options DEF TypeInv, HostTypes, Restart
<1>2. offline' \in BOOLEAN /\ linked' \in BOOLEAN
    BY DEF Restart
<1> QED
    BY <1>1, <1>2

\* The start of a clock is kept, or is now (nodeFailTime).
LEMMA StartType ==
    ASSUME NEW age \in 0 .. Cap
    PROVE  start(age) \in 1 .. Cap /\ (age > 0 => start(age) = age) /\ (age = 0 => start(age) = 1)
BY Options DEF start

\* What repairLocalNode leaves of the server and of its own clock.
LEMMA RepairType ==
    ASSUME TypeInv, repairLocalNode, UNCHANGED disk
    PROVE  /\ HostTypes' /\ offline' \in BOOLEAN /\ linked' \in BOOLEAN
           /\ fail' \in [Rdsyncs -> 0 .. Cap]
<1>1. fail["local"] \in 0 .. Cap /\ 0 \in 0 .. Cap /\ 1 \in 0 .. Cap
    BY Options DEF TypeInv, ClockTypes, Rdsyncs
<1>2. CASE Open
    <2>1. PICK age \in 0 .. Cap : fail' = [fail EXCEPT !["local"] = age]
        BY <1>1, <1>2 DEF Open
    <2>2. offline' \in BOOLEAN /\ linked' \in BOOLEAN
        BY <1>2 DEF Open, stale, TypeInv, Flags
    <2>3. HostTypes'
        BY <1>2 DEF Open, TypeInv, HostTypes
    <2> QED
        BY <2>1, <2>2, <2>3 DEF TypeInv, ClockTypes
<1>3. CASE RestartFailed(start(fail["local"]))
    <2>1. start(fail["local"]) \in 0 .. Cap
        BY <1>1, StartType, Options
    <2>2. PICK age \in 0 .. Cap : fail' = [fail EXCEPT !["local"] = age]
        BY <1>1, <1>3, <2>1 DEF RestartFailed
    <2>3. Restart \/ UNCHANGED <<server, load, offline, linked>>
        BY <1>3 DEF RestartFailed
    <2>4. HostTypes' /\ offline' \in BOOLEAN /\ linked' \in BOOLEAN
        BY <2>3, RestartType DEF TypeInv, HostTypes, Flags
    <2> QED
        BY <2>2, <2>4 DEF TypeInv, ClockTypes
<1> QED
    BY <1>2, <1>3 DEF repairLocalNode

\* What a pass of a manager leaves of the paths in the DCS and of its clock.
LEMMA StateManagerType ==
    ASSUME TypeInv, NEW r \in Rdsyncs, NEW view, stateManager(r, view)
    PROVE  /\ master' \in BOOLEAN /\ switch' \in BOOLEAN
           /\ pill' \in {"none", "issued", "applied"}
           /\ fail' \in [Rdsyncs -> 0 .. Cap] /\ left' \in Nat
<1>1. fail[r] \in 0 .. Cap /\ 0 \in 0 .. Cap
    BY Options DEF TypeInv, ClockTypes
<1>2. start(fail[r]) \in 0 .. Cap
    BY <1>1, StartType
<1>3. CASE Decide(r, view) /\ UNCHANGED left
    <2>1. PICK age \in 0 .. Cap : fail' = [fail EXCEPT ![r] = age]
        BY <1>1, <1>2, <1>3 DEF Decide, TypeInv, ClockTypes
    <2>2. fail' \in [Rdsyncs -> 0 .. Cap] /\ left' \in Nat
        BY <1>3, <2>1 DEF TypeInv, ClockTypes
    <2>3. master' \in BOOLEAN /\ switch' \in BOOLEAN
        BY <1>3 DEF Decide, TypeInv, Flags, masterFailed
    <2> QED
        BY <1>3, <2>2, <2>3 DEF Decide
<1>4. CASE Perform(view)
    <2>1. master' \in BOOLEAN /\ switch' \in BOOLEAN
        BY <1>4 DEF Perform, TypeInv, Flags
    <2>2. pill' \in {"none", "issued", "applied"} /\ fail' = fail
        BY <1>4 DEF Perform, issue, TypeInv, RdsyncTypes
    <2>3. left' \in Nat
        <3>1. UNCHANGED left \/ Disturb
            BY <1>4 DEF Perform
        <3> QED
            BY <3>1 DEF Disturb, TypeInv, ClockTypes
    <2> QED
        BY <2>1, <2>2, <2>3 DEF TypeInv, ClockTypes
<1> QED
    BY <1>3, <1>4 DEF stateManager

\* What manager r sees of the host has the type of a view.
LEMMA LookType ==
    ASSUME TypeInv, NEW r \in Rdsyncs
    PROVE  look(r) \in [ok : BOOLEAN, dcs : Keys, master : BOOLEAN]
BY DEF TypeInv, Flags, RdsyncTypes, look, pingOk, answers

\* Every step keeps the types.
LEMMA TypeStep == TypeInv /\ [Next]_vars => TypeInv'
<1> SUFFICES ASSUME TypeInv, [Next]_vars
             PROVE  TypeInv'
    OBVIOUS
<1> USE DEF TypeInv, hostVars, dcsVars, rdsyncVars, history
<1>0. /\ NoKey \in Keys /\ 1 \in Nat /\ 2 \in Nat
      /\ \A ok, off \in BOOLEAN : Key(ok, off) \in Keys
    BY DEF NoKey, Key, Keys
<1>1. CASE UNCHANGED vars
    BY <1>1 DEF vars, Flags, HostTypes, RdsyncTypes, ClockTypes
<1>2. CASE ServerFails
    <2> USE <1>2 DEF ServerFails
    <2>1. Flags'
        BY DEF Flags
    <2>2. HostTypes'
        BY Options DEF HostTypes
    <2>3. RdsyncTypes'
        BY DEF RdsyncTypes
    <2>4. ClockTypes'
        BY DEF ClockTypes, Disturb
    <2> QED
        BY <2>1, <2>2, <2>3, <2>4
<1>3. CASE LoseDcs
    <2> USE <1>3 DEF LoseDcs
    <2>1. Flags'
        BY DEF Flags
    <2>2. HostTypes'
        BY DEF HostTypes
    <2>3. RdsyncTypes'
        BY <1>0 DEF RdsyncTypes, Rdsyncs
    <2>4. ClockTypes'
        BY DEF ClockTypes, Disturb
    <2> QED
        BY <2>1, <2>2, <2>3, <2>4
<1>4. CASE RegainDcs
    <2>1. Flags'
        BY <1>4 DEF RegainDcs, Flags
    <2>2. HostTypes' /\ RdsyncTypes' /\ ClockTypes'
        BY <1>4 DEF RegainDcs, HostTypes, RdsyncTypes, ClockTypes
    <2> QED
        BY <2>1, <2>2
<1>5. CASE ManagerMoves
    <2> USE <1>5 DEF ManagerMoves
    <2>1. Flags'
        BY DEF Flags
    <2>2. HostTypes' /\ RdsyncTypes'
        BY DEF HostTypes, RdsyncTypes
    <2>3. ClockTypes'
        BY DEF ClockTypes, Disturb
    <2> QED
        BY <2>1, <2>2, <2>3
<1>6. CASE LinkUp
    <2>1. Flags'
        BY <1>6 DEF LinkUp, Flags
    <2>2. HostTypes' /\ RdsyncTypes' /\ ClockTypes'
        BY <1>6 DEF LinkUp, HostTypes, RdsyncTypes, ClockTypes
    <2> QED
        BY <2>1, <2>2
<1>7. CASE Tick
    <2> USE <1>7 DEF Tick
    <2>1. Flags'
        <3>1. key.PingOk \in BOOLEAN /\ key.IsOffline \in BOOLEAN
            BY DEF RdsyncTypes, Keys
        <3>2. sound' \in BOOLEAN
            BY <3>1 DEF well, Flags
        <3> QED
            BY <3>2 DEF Flags
    <2>2. HostTypes'
        <3>1. CASE server = "loading" /\ load <= 1
            BY <3>1, Options DEF HostTypes
        <3>2. CASE ~(server = "loading" /\ load <= 1)
            BY <3>2, Options DEF HostTypes
        <3> QED
            BY <3>1, <3>2
    <2>3. RdsyncTypes'
        BY DEF RdsyncTypes
    <2>4. ClockTypes'
        <3>1. down' \in 0 .. Cap
            BY Options DEF ClockTypes, min
        <3>2. \A age \in 0 .. Cap : (IF age = 0 THEN 0 ELSE min(age + 1, Cap)) \in 0 .. Cap
            BY Options DEF min
        <3>3. fail' \in [Rdsyncs -> 0 .. Cap]
            BY <3>2 DEF ClockTypes
        <3> QED
            BY <3>1, <3>3 DEF ClockTypes
    <2> QED
        BY <2>1, <2>2, <2>3, <2>4
<1>8. CASE healthChecker
    <2> USE <1>8 DEF healthChecker
    <2>1. Flags' /\ HostTypes'
        BY DEF Flags, HostTypes
    <2>2. RdsyncTypes'
        <3>1. key' \in Keys
            BY <1>0 DEF RdsyncTypes, pingOk, answers, Flags
        <3> QED
            BY <3>1 DEF RdsyncTypes
    <2>3. ClockTypes'
        BY <1>0, GetStateType DEF ClockTypes, Rdsyncs
    <2> QED
        BY <2>1, <2>2, <2>3
<1>9. CASE RepairPass
    <2> USE <1>9 DEF RepairPass
    <2>1. /\ HostTypes' /\ offline' \in BOOLEAN /\ linked' \in BOOLEAN
          /\ fail' \in [Rdsyncs -> 0 .. Cap]
        BY RepairType
    <2>2. Flags'
        BY <2>1 DEF Flags, Unsound
    <2>3. RdsyncTypes'
        BY LookType DEF RdsyncTypes, done, Rdsyncs
    <2>4. ClockTypes'
        BY <1>0, <2>1, GetStateType DEF ClockTypes, Rdsyncs, Unsound
    <2> QED
        BY <2>1, <2>2, <2>3, <2>4
<1>10. CASE ScriptKill
    <2> USE <1>10 DEF ScriptKill
    <2>1. Flags'
        BY DEF Flags
    <2>2. HostTypes'
        BY DEF HostTypes
    <2>3. RdsyncTypes'
        BY <1>0 DEF RdsyncTypes, done, Rdsyncs
    <2>4. ClockTypes'
        <3>1. /\ fail' = [fail EXCEPT !["local"] = 0]
              /\ misses' = [misses EXCEPT !["local"] = PingStable]
              /\ UNCHANGED <<down, left>>
            OBVIOUS
        <3>2. 0 \in 0 .. Cap /\ PingStable \in 0 .. PingStable
            BY Options
        <3> HIDE <1>10
        <3> QED
            BY <3>1, <3>2 DEF ClockTypes
    <2> QED
        BY <2>1, <2>2, <2>3, <2>4
<1>11. CASE LocalDecide
    <2> USE <1>11 DEF LocalDecide
    <2>1. /\ master' \in BOOLEAN /\ switch' \in BOOLEAN
          /\ pill' \in {"none", "issued", "applied"}
          /\ fail' \in [Rdsyncs -> 0 .. Cap] /\ left' \in Nat
        <3>1. CASE stateManager("local", seen)
            BY <3>1, StateManagerType DEF Rdsyncs
        <3>2. CASE UNCHANGED <<master, switch, pill, fail, left>>
            BY <3>2 DEF Flags, RdsyncTypes, ClockTypes
        <3> QED
            BY <3>1, <3>2
    <2>2. Flags'
        BY <2>1 DEF Flags
    <2>3. HostTypes' /\ ClockTypes'
        BY <2>1 DEF HostTypes, ClockTypes
    <2>4. RdsyncTypes'
        BY <2>1 DEF RdsyncTypes, done
    <2> QED
        BY <2>2, <2>3, <2>4
<1>12. CASE applyPoisonPill
    <2> USE <1>12 DEF applyPoisonPill
    <2>1. HostTypes' /\ offline' \in BOOLEAN /\ linked' \in BOOLEAN
        BY RestartType DEF HostTypes, Flags
    <2>2. Flags'
        BY <2>1 DEF Flags, Unsound
    <2>3. RdsyncTypes'
        BY DEF RdsyncTypes, done
    <2>4. ClockTypes'
        BY <1>0, GetStateType DEF ClockTypes, Rdsyncs, Unsound
    <2> QED
        BY <2>1, <2>2, <2>3, <2>4
<1>13. CASE WriteBack
    <2> USE <1>13 DEF WriteBack
    <2>1. Flags' /\ HostTypes' /\ ClockTypes'
        BY DEF Flags, HostTypes, ClockTypes
    <2>2. RdsyncTypes'
        BY DEF RdsyncTypes, done
    <2> QED
        BY <2>1, <2>2
<1>14. CASE stateLost
    <2> USE <1>14 DEF stateLost
    <2>1. Flags'
        BY DEF Flags, replicationAlive, Unsound
    <2>2. HostTypes'
        BY DEF HostTypes
    <2>3. RdsyncTypes'
        BY DEF RdsyncTypes, done
    <2>4. ClockTypes'
        BY <1>0, GetStateType DEF ClockTypes, Rdsyncs, Unsound
    <2> QED
        BY <2>1, <2>2, <2>3, <2>4
<1>15. CASE RemotePass
    <2> USE <1>15 DEF RemotePass
    <2>1. /\ master' \in BOOLEAN /\ switch' \in BOOLEAN
          /\ pill' \in {"none", "issued", "applied"}
          /\ fail' \in [Rdsyncs -> 0 .. Cap] /\ left' \in Nat
        BY StateManagerType DEF Rdsyncs, Flags, RdsyncTypes, ClockTypes
    <2>2. Flags'
        BY <2>1 DEF Flags
    <2>3. HostTypes'
        BY DEF HostTypes
    <2>4. RdsyncTypes'
        BY <2>1 DEF RdsyncTypes
    <2>5. ClockTypes'
        BY <1>0, <2>1, GetStateType DEF ClockTypes, Rdsyncs
    <2> QED
        BY <2>2, <2>3, <2>4, <2>5
<1> QED
    BY <1>1, <1>2, <1>3, <1>4, <1>5, <1>6, <1>7, <1>8, <1>9, <1>10, <1>11, <1>12, <1>13, <1>14, <1>15
    DEF Next, LocalPass

-----------------------------------------------------------------------------
\* every step but the tick
Within ==
    \/ ServerFails \/ LoseDcs \/ RegainDcs \/ ManagerMoves \/ LinkUp
    \/ healthChecker \/ LocalPass \/ RemotePass

\* Between two ticks nothing makes a host sound again, nobody gets a second turn,
\* only healthChecker writes the key (LoseDcs and ScriptKill remove it), and the
\* server stops answering only by a failure.
LEMMA WithinHost ==
    ASSUME TypeInv, Within
    PROVE  /\ sound' => sound
           /\ sound' /\ server = "up" /\ ~offline => server' = "up" /\ ~offline'
           /\ todo' \subseteq todo
           /\ \/ key' = key \/ key' = NoKey
              \/ "healthChecker" \in todo /\ "healthChecker" \notin todo'
           /\ down' = down
<1> USE DEF hostVars, dcsVars, rdsyncVars, history
<1>1. CASE ServerFails \/ LoseDcs \/ RegainDcs \/ ManagerMoves \/ LinkUp
    BY <1>1 DEF ServerFails, LoseDcs, RegainDcs, ManagerMoves, LinkUp
<1>2. CASE healthChecker
    BY <1>2 DEF healthChecker
<1>3. CASE RepairPass
    BY <1>3 DEF RepairPass, repairLocalNode, Open, Unsound, done
<1>4. CASE ScriptKill \/ LocalDecide \/ WriteBack
    BY <1>4 DEF ScriptKill, LocalDecide, WriteBack, done
<1>5. CASE stateLost
    <2>1. /\ UNCHANGED <<server, key, down>> /\ todo' \subseteq todo
          /\ sound' = (sound /\ ~offline')
        BY <1>5 DEF stateLost, Unsound, done
    <2> QED
        BY <2>1
<1>6. CASE applyPoisonPill
    BY <1>6 DEF applyPoisonPill, Unsound, done
<1>7. CASE RemotePass
    BY <1>7 DEF RemotePass
<1> QED
    BY <1>1, <1>2, <1>3, <1>4, <1>5, <1>6, <1>7 DEF Within, LocalPass

\* What went wrong since the last tick stays wrong until the next.
LEMMA UnwellLasts ==
    ASSUME TypeInv, Within, Unwell
    PROVE  Unwell'
<1>1. ~NoKey.PingOk
    BY DEF NoKey
<1> QED
    BY <1>1, WithinHost DEF Unwell

\* A manager that sees a failed master sees one that is unwell (EvaluatePing, and
\* the health key).
LEMMA SeenUnwell ==
    ASSUME TypeInv, SoundHost, NEW r \in Rdsyncs, masterFailed(look(r))
    PROVE  Unwell
BY DEF SoundHost, masterFailed, look, pingOk, answers, Unwell

\* A manager changes only by a move, a host never becomes master again, and a
\* switchover ends with the role of the host.
LEMMA WithinDcs ==
    ASSUME TypeInv, Within
    PROVE  /\ moved => moved'
           /\ ~moved' => manager' = manager
           /\ master' => master
           /\ master' /\ ~switch' => ~switch
<1> USE DEF hostVars, dcsVars, rdsyncVars, history
<1>1. CASE ServerFails \/ LoseDcs \/ RegainDcs \/ ManagerMoves \/ LinkUp
    <2>1. UNCHANGED <<master, switch>>
        BY <1>1 DEF ServerFails, LoseDcs, RegainDcs, ManagerMoves, LinkUp
    <2>2. (moved => moved') /\ (~moved' => manager' = manager)
        <3>1. manager \in {"local", "remote"}
            BY DEF TypeInv, RdsyncTypes, Rdsyncs
        <3>2. CASE LoseDcs
            BY <3>1, <3>2 DEF LoseDcs
        <3>3. CASE ServerFails \/ RegainDcs \/ ManagerMoves \/ LinkUp
            BY <3>3 DEF ServerFails, RegainDcs, ManagerMoves, LinkUp
        <3> QED
            BY <1>1, <3>2, <3>3
    <2> QED
        BY <2>1, <2>2
<1>2. CASE healthChecker \/ RepairPass \/ applyPoisonPill \/ WriteBack \/ stateLost
    BY <1>2 DEF healthChecker, RepairPass, applyPoisonPill, WriteBack, stateLost
<1>3. CASE ScriptKill
    BY <1>3 DEF ScriptKill, TypeInv, RdsyncTypes, Rdsyncs
<1>4. ASSUME NEW r, NEW view, stateManager(r, view) \/ UNCHANGED <<master, switch>>,
             UNCHANGED <<manager, moved>>
      PROVE  /\ moved => moved'
             /\ ~moved' => manager' = manager
             /\ master' => master
             /\ master' /\ ~switch' => ~switch
    BY <1>4 DEF stateManager, Decide, Perform
<1>5. CASE LocalDecide
    BY <1>4, <1>5 DEF LocalDecide
<1>6. CASE RemotePass
    BY <1>4, <1>6 DEF RemotePass
<1> QED
    BY <1>1, <1>2, <1>3, <1>5, <1>6 DEF Within, LocalPass

\* Every step keeps what sound stands for: the history variable, the server and the
\* key that healthChecker writes.
LEMMA SoundStep ==
    ASSUME TypeInv, SoundHost, Within \/ Tick
    PROVE  SoundHost'
<1>1. CASE Within
    <2>1. ~NoKey.IsOffline
        BY DEF NoKey
    <2> QED
        BY <1>1, <2>1, WithinHost DEF SoundHost
<1>2. CASE Tick
    <2>1. sound' => server = "up" /\ ~offline /\ ~offline' /\ ~key.IsOffline /\ key' = key
        BY <1>2 DEF Tick, well, dcsVars
    <2>2. server = "up" => server' = "up"
        BY <1>2 DEF Tick
    <2> QED
        BY <2>1, <2>2 DEF SoundHost
<1> QED
    BY <1>1, <1>2

\* The view of the local manager is as old as its pass, and nothing but its own
\* pass changes the master while it is the only manager there has been.
LEMMA DecideStep ==
    ASSUME IndInv, Within \/ Tick
    PROVE  DecideView'
<1> USE DEF IndInv
<1> SUFFICES ASSUME pc' = "decide"
             PROVE  /\ "local" \in todo'
                    /\ masterFailed(seen') => Unwell'
                    /\ ~moved' => manager' = "local" /\ seen'.master = master'
    BY DEF DecideView, masterFailed
<1>1. CASE Tick
    <2>1. pc = "decide" /\ todo = {}
        BY <1>1 DEF Tick
    <2> QED
        BY <2>1 DEF DecideView
<1>2. CASE RepairPass
    <2>1. manager = "local" /\ "local" \in todo' /\ seen' = look("local")
          /\ (sound' => sound)
          /\ UNCHANGED <<manager, master, key, moved>> /\ todo' = todo
        BY <1>2 DEF RepairPass, Unsound, done, LocalTurn, dcsVars
    <2>2. masterFailed(seen') => Unwell
        BY <2>1, SeenUnwell DEF Rdsyncs
    <2>3. Unwell => Unwell'
        BY <2>1 DEF Unwell
    <2>4. seen'.master = master
        BY <2>1 DEF look
    <2> QED
        BY <2>1, <2>2, <2>3, <2>4
<1>3. CASE Within /\ ~RepairPass
    <2>1. /\ pc = "decide" /\ UNCHANGED seen
          /\ "local" \in todo => "local" \in todo'
          /\ manager = "local" => UNCHANGED master
        <3> USE DEF hostVars, dcsVars, rdsyncVars, history
        <3>1. CASE ServerFails \/ LoseDcs \/ RegainDcs \/ ManagerMoves \/ LinkUp \/ healthChecker
            BY <3>1 DEF ServerFails, LoseDcs, RegainDcs, ManagerMoves, LinkUp, healthChecker
        <3>2. CASE ScriptKill \/ LocalDecide \/ applyPoisonPill \/ WriteBack \/ stateLost
            BY <3>2 DEF ScriptKill, LocalDecide, applyPoisonPill, WriteBack, stateLost, done
        <3>3. CASE RemotePass
            BY <3>3 DEF RemotePass
        <3> QED
            BY <1>3, <3>1, <3>2, <3>3 DEF Within, LocalPass
    <2>2. "local" \in todo'
        BY <2>1 DEF DecideView
    <2>3. masterFailed(seen') => Unwell'
        BY <1>3, <2>1, UnwellLasts DEF DecideView
    <2>4. ~moved' => manager' = "local" /\ seen'.master = master'
        BY <1>3, <2>1, WithinDcs DEF DecideView
    <2> QED
        BY <2>2, <2>3, <2>4
<1> QED
    BY <1>1, <1>2, <1>3

\* Only a host that is not the manager loses the DCS or begins to apply a pill
\* without a move of the manager.
LEMMA NotManagerStep ==
    ASSUME IndInv, Within \/ Tick
    PROVE  NotManager'
<1> USE DEF IndInv
<1> SUFFICES ASSUME lost' \/ pc' = "write", ~moved'
             PROVE  manager' = "remote"
    BY DEF NotManager
<1> USE DEF hostVars, dcsVars, rdsyncVars, history
<1>1. CASE Tick
    BY <1>1 DEF Tick, NotManager
<1>2. CASE LoseDcs
    BY <1>2 DEF LoseDcs
<1>3. CASE applyPoisonPill
    BY <1>3 DEF applyPoisonPill, TypeInv, RdsyncTypes, Rdsyncs
<1>4. CASE Within /\ ~LoseDcs /\ ~applyPoisonPill
    <2>1. (lost' => lost) /\ (pc' = "write" => pc = "write")
        <3>1. CASE ServerFails \/ RegainDcs \/ ManagerMoves \/ LinkUp \/ healthChecker \/ RemotePass
            BY <3>1 DEF ServerFails, RegainDcs, ManagerMoves, LinkUp, healthChecker, RemotePass
        <3>2. CASE RepairPass \/ ScriptKill \/ LocalDecide \/ WriteBack \/ stateLost
            BY <3>2 DEF RepairPass, ScriptKill, LocalDecide, WriteBack, stateLost, done
        <3> QED
            BY <1>4, <3>1, <3>2 DEF Within, LocalPass
    <2> QED
        BY <1>4, <2>1, WithinDcs DEF NotManager
<1> QED
    BY <1>1, <1>2, <1>3, <1>4

\* The clock of a master's failure after a pass of the manager that has found no
\* switchover: it goes on, or is gone (stateManager and nodeFailTime).
LEMMA DecideClock ==
    ASSUME TypeInv, NEW r \in Rdsyncs, NEW view, Decide(r, view), view.master
    PROVE  fail'[r] = IF masterFailed(view) THEN start(fail[r]) ELSE 0
BY DEF Decide, TypeInv, ClockTypes

\* A tick that finds the clock running counts as down as well.
LEMMA TimingTick ==
    ASSUME IndInv, Tick
    PROVE  Timing'
<1> USE DEF IndInv
<1> SUFFICES ASSUME ~moved, ~switch, master
             PROVE  fail'[manager] <= down' + 1 /\ manager \in todo'
    BY DEF Timing, Tick, dcsVars
<1>1. /\ manager \in Rdsyncs /\ fail[manager] \in 0 .. Cap /\ down \in 0 .. Cap
      /\ manager \notin todo /\ manager \in todo'
    BY DEF TypeInv, RdsyncTypes, ClockTypes, Tick
<1>2. fail[manager] <= down + 1 /\ (fail[manager] > 0 => Unwell)
    BY <1>1 DEF Timing
<1>3. fail'[manager] = IF fail[manager] = 0 THEN 0 ELSE min(fail[manager] + 1, Cap)
    BY <1>1 DEF Tick
<1>4. down' \in {0, min(down + 1, Cap)} /\ (Unwell => down' = min(down + 1, Cap))
    <2>1. Unwell => ~(sound /\ sound')
        BY DEF Tick, Unwell
    <2>2. down' = IF sound /\ sound' THEN 0 ELSE min(down + 1, Cap)
        BY DEF Tick
    <2> QED
        BY <2>1, <2>2
<1> QED
    BY <1>1, <1>2, <1>3, <1>4, Options DEF min

\* Between two ticks: a pass of the manager leaves its clock running only when the
\* host is unwell, and no one else has a part in its clock.
LEMMA TimingWithin ==
    ASSUME IndInv, Within
    PROVE  Timing'
<1> USE DEF IndInv
<1> SUFFICES ASSUME ~moved', ~switch', master'
             PROVE  /\ fail'[manager'] <= down' + 1
                    /\ fail'[manager'] > 0 /\ manager' \notin todo' => Unwell'
    BY DEF Timing
<1>1. /\ ~moved /\ ~switch /\ master /\ manager' = manager /\ down' = down
    BY WithinDcs, WithinHost
<1>2. /\ manager \in {"local", "remote"} /\ fail[manager] \in 0 .. Cap /\ down \in 0 .. Cap
      /\ fail \in [Rdsyncs -> 0 .. Cap]
    BY DEF TypeInv, RdsyncTypes, ClockTypes, Rdsyncs
<1>3. /\ fail[manager] <= down + 1
      /\ fail[manager] > 0 /\ manager \notin todo => Unwell
    BY <1>1 DEF Timing
<1>4. ASSUME fail'[manager] = fail[manager], manager \in todo => manager \in todo'
      PROVE  /\ fail'[manager'] <= down' + 1
             /\ fail'[manager'] > 0 /\ manager' \notin todo' => Unwell'
    BY <1>1, <1>3, <1>4, UnwellLasts
<1>5. ASSUME NEW view, Decide(manager, view), view.master, masterFailed(view) => Unwell
      PROVE  /\ fail'[manager'] <= down' + 1
             /\ fail'[manager'] > 0 /\ manager' \notin todo' => Unwell'
    <2>1. fail'[manager] = IF masterFailed(view) THEN start(fail[manager]) ELSE 0
        BY <1>2, <1>5, DecideClock DEF Rdsyncs
    <2>2. fail'[manager] <= down + 1
        BY <1>2, <1>3, <2>1, Options DEF start
    <2>3. fail'[manager] > 0 => Unwell
        BY <1>5, <2>1
    <2> QED
        BY <1>1, <2>2, <2>3, UnwellLasts
<1> USE DEF hostVars, dcsVars, rdsyncVars, history
<1>6. CASE ServerFails \/ LoseDcs \/ RegainDcs \/ ManagerMoves \/ LinkUp \/ healthChecker
    <2>1. fail' = fail /\ (manager \in todo => manager \in todo')
        BY <1>2, <1>6 DEF ServerFails, LoseDcs, RegainDcs, ManagerMoves, LinkUp, healthChecker
    <2> QED
        BY <1>4, <2>1
<1>7. CASE RepairPass
    <2>1. CASE manager = "remote"
        <3>1. \E age : fail' = [fail EXCEPT !["local"] = age]
            BY <1>7 DEF RepairPass, repairLocalNode, Open, RestartFailed
        <3>2. manager \in todo => manager \in todo'
            BY <1>7, <2>1 DEF RepairPass, done
        <3> QED
            BY <1>2, <1>4, <2>1, <3>1, <3>2
    <2>2. CASE manager = "local"
        <3>1. manager \in todo'
            BY <1>7, <2>2 DEF RepairPass, LocalTurn, done
        <3>2. \E age \in {0, 1, fail["local"], start(fail["local"])} :
                    fail' = [fail EXCEPT !["local"] = age]
            BY <1>7 DEF RepairPass, repairLocalNode, Open, RestartFailed
        <3>3. fail'[manager] \in {0, 1, fail[manager], start(fail[manager])}
            BY <1>2, <2>2, <3>2 DEF Rdsyncs
        <3>4. fail'[manager] <= down + 1
            BY <1>2, <1>3, <3>3, Options DEF start
        <3> QED
            BY <1>1, <3>1, <3>4
    <2> QED
        BY <1>2, <2>1, <2>2
<1>8. CASE ScriptKill
    <2>1. manager = "remote"
        BY <1>2, <1>8 DEF ScriptKill
    <2>2. fail'[manager] = fail[manager] /\ (manager \in todo => manager \in todo')
        BY <1>2, <1>8, <2>1 DEF ScriptKill, done, Rdsyncs
    <2> QED
        BY <1>4, <2>2
<1>9. CASE LocalDecide
    <2>1. pc = "decide" /\ manager = "local" /\ seen.master = master /\ ~lost
        BY <1>1, <1>9 DEF LocalDecide, DecideView, NotManager
    <2>2. Decide(manager, seen)
        BY <1>1, <1>9, <2>1 DEF LocalDecide, stateManager, Perform
    <2>3. seen.master /\ (masterFailed(seen) => Unwell)
        BY <1>1, <2>1 DEF DecideView
    <2> QED
        BY <1>5, <2>2, <2>3
<1>10. CASE applyPoisonPill \/ WriteBack \/ stateLost
    <2>1. manager = "remote"
        BY <1>1, <1>2, <1>10 DEF applyPoisonPill, WriteBack, stateLost, NotManager
    <2>2. fail' = fail /\ (manager \in todo => manager \in todo')
        BY <1>10, <2>1 DEF applyPoisonPill, WriteBack, stateLost, done
    <2> QED
        BY <1>4, <2>2
<1>11. CASE RemotePass
    <2>1. CASE manager = "remote"
        <3>1. Decide(manager, look("remote"))
            BY <1>1, <1>11, <2>1 DEF RemotePass, stateManager, Perform
        <3>2. look("remote").master
            BY <1>1 DEF look
        <3>3. masterFailed(look("remote")) => Unwell
            BY SeenUnwell DEF Rdsyncs
        <3> QED
            BY <1>5, <3>1, <3>2, <3>3
    <2>2. CASE manager = "local"
        <3>1. fail' = fail /\ (manager \in todo => manager \in todo')
            BY <1>11, <2>2 DEF RemotePass
        <3> QED
            BY <1>4, <3>1
    <2> QED
        BY <1>2, <2>1, <2>2
<1> QED
    BY <1>6, <1>7, <1>8, <1>9, <1>10, <1>11 DEF Within, LocalPass

\* Every step keeps the inductive invariant.
LEMMA InvStep == IndInv /\ [Next]_vars => IndInv'
<1> SUFFICES ASSUME IndInv, [Next]_vars
             PROVE  IndInv'
    OBVIOUS
<1>1. TypeInv'
    BY TypeStep DEF IndInv
<1>2. CASE UNCHANGED vars
    BY <1>1, <1>2
    DEF IndInv, SoundHost, DecideView, Timing, NotManager, Unwell, masterFailed,
        vars, hostVars, dcsVars, rdsyncVars, history
<1>3. CASE Within \/ Tick
    BY <1>1, <1>3, SoundStep, DecideStep, NotManagerStep, TimingTick, TimingWithin DEF IndInv
<1> QED
    BY <1>2, <1>3 DEF Next, Within

\* The inductive invariant holds in every reachable state.
LEMMA Inductive == Spec => []IndInv
BY InitInv, InvStep, PTL DEF Spec

-----------------------------------------------------------------------------
\* The types of the server, the records and the clocks, for every choice of the
\* options: a server that has been started loads for at most LoadTicks, and only
\* while it loads, and the ping windows never exceed ping_stable.
THEOREM TypeCorrect == Spec => []TypeOK
<1>1. IndInv => TypeOK
    BY DEF IndInv, TypeInv, Flags, HostTypes, RdsyncTypes, ClockTypes, TypeOK
<1> QED
    BY <1>1, Inductive, PTL

\* A server that loads is restarted by nobody but the rdsync that applies a poison
\* pill to its own host: not by repairLocalNode, whatever its clock says.
THEOREM LoadingIsLeftAlone == Spec => LoadingLeftAlone
<1>1. ASSUME IndInv, [Next]_vars, server = "loading", load' > load
      PROVE  pill # "none"
    <2>1. load \in Nat /\ load' \in Nat
        BY <1>1, TypeStep, Options DEF IndInv, TypeInv, HostTypes
    <2> SUFFICES ASSUME ~applyPoisonPill
                 PROVE  load' <= load
        BY <1>1, <2>1 DEF applyPoisonPill
    <2> USE DEF vars, hostVars, dcsVars, rdsyncVars, history
    <2>2. UNCHANGED load => load' <= load
        BY <2>1
    <2>3. CASE UNCHANGED vars
        BY <2>2, <2>3
    <2>4. CASE ServerFails
        BY <2>1, <2>4 DEF ServerFails
    <2>5. CASE LoseDcs \/ RegainDcs \/ ManagerMoves \/ LinkUp \/ healthChecker \/ RemotePass
        BY <2>2, <2>5 DEF LoseDcs, RegainDcs, ManagerMoves, LinkUp, healthChecker, RemotePass
    <2>6. CASE Tick
        <3>1. load' \in {0, load - 1}
            BY <1>1, <2>6 DEF Tick
        <3> QED
            BY <2>1, <3>1
    <2>7. CASE RepairPass
        BY <1>1, <2>2, <2>7 DEF RepairPass, repairLocalNode, Open, RestartFailed
    <2>8. CASE ScriptKill \/ LocalDecide \/ WriteBack \/ stateLost
        BY <2>2, <2>8 DEF ScriptKill, LocalDecide, WriteBack, stateLost
    <2> QED
        BY <1>1, <2>3, <2>4, <2>5, <2>6, <2>7, <2>8 DEF Next, LocalPass
<1>2. IndInv /\ [Next]_vars => [server = "loading" /\ load' > load => pill # "none"]_vars
    BY <1>1
<1> QED
    BY <1>2, Inductive, PTL DEF Spec, LoadingLeftAlone

\* A failover starts only with a clock that has run for failover_timeout, and the
\* clock of a manager that has always been the manager is not ahead of the time
\* that the host has been unwell (Timing): nodeFailTime is never left over from an
\* earlier failure, although repairLocalNode uses the same entry.
THEOREM FailoverIsNotEarly == Spec => FailoverNotEarly
<1>1. ASSUME IndInv, [Next]_vars, ~switch, switch'
      PROVE  moved \/ down >= FailoverTimeout
    <2> USE DEF IndInv
    <2>1. ASSUME NEW r \in Rdsyncs, NEW view, Decide(r, view),
                 ~moved => manager = r /\ view.master = master
          PROVE  moved \/ down >= FailoverTimeout
        <3> SUFFICES ASSUME ~moved PROVE down >= FailoverTimeout
            OBVIOUS
        <3>1. masterFailed(view) /\ approveFailover(fail'[r])
            BY <1>1, <2>1 DEF Decide
        <3>2. view.master /\ master
            BY <2>1, <3>1 DEF masterFailed
        <3>3. fail'[r] = start(fail[r])
            BY <1>1, <2>1, <3>1, <3>2, DecideClock
        <3>4. fail[r] \in 0 .. Cap /\ down \in 0 .. Cap
            BY <1>1 DEF TypeInv, ClockTypes
        <3>5. fail[r] <= down + 1
            BY <1>1, <2>1, <3>2 DEF Timing
        <3>6. fail'[r] - 1 >= FailoverTimeout
            BY <3>1 DEF approveFailover
        <3> QED
            BY <3>3, <3>4, <3>5, <3>6, Options DEF start
    <2> USE DEF vars, hostVars, dcsVars, rdsyncVars, history
    <2>2. CASE LocalDecide
        <3>1. Decide("local", seen)
            BY <1>1, <2>2 DEF LocalDecide, stateManager, Perform
        <3>2. ~moved => manager = "local" /\ seen.master = master
            BY <1>1, <2>2 DEF LocalDecide, DecideView
        <3> QED
            BY <2>1, <3>1, <3>2 DEF Rdsyncs
    <2>3. CASE RemotePass
        <3>1. manager = "remote" /\ Decide("remote", look("remote"))
            BY <1>1, <2>3 DEF RemotePass, stateManager, Perform
        <3> QED
            BY <2>1, <3>1 DEF Rdsyncs, look
    <2>4. CASE UNCHANGED switch
        BY <1>1, <2>4
    <2>5. CASE UNCHANGED vars \/ ServerFails \/ LoseDcs \/ RegainDcs \/ ManagerMoves \/ LinkUp
        BY <2>4, <2>5 DEF ServerFails, LoseDcs, RegainDcs, ManagerMoves, LinkUp
    <2>6. CASE Tick \/ healthChecker \/ RepairPass \/ ScriptKill \/ applyPoisonPill \/ WriteBack \/ stateLost
        BY <2>4, <2>6
        DEF Tick, healthChecker, RepairPass, ScriptKill, applyPoisonPill, WriteBack, stateLost
    <2> QED
        BY <1>1, <2>2, <2>3, <2>5, <2>6 DEF Next, LocalPass
<1>2. IndInv /\ [Next]_vars => [~switch /\ switch' => moved \/ down >= FailoverTimeout]_vars
    BY <1>1
<1> QED
    BY <1>2, Inductive, PTL DEF Spec, FailoverNotEarly
=============================================================================
