---------------------------- MODULE QuorumWrites ----------------------------
(***************************************************************************)
(* A client's write and its WAITQUORUM on the master, next to the manager  *)
(* of ActiveNodes.  The master is valkey with the patches of               *)
(* valkey_patches: WAITQUORUM returns once enough replicas that            *)
(* quorum-replicas names have acknowledged the write; how many is enough   *)
(* is read when the command blocks.                                        *)
(*                                                                         *)
(* Two assumptions rule out losses that are only a matter of slow          *)
(* replication, which makes any loss that remains stronger: while a pass   *)
(* of the manager is under way no replication link comes or goes, and      *)
(* every linked replica has received an acknowledged write by the time the *)
(* manager makes its next call.  What the manager sees of a replica and    *)
(* whether that replica is linked to the master are otherwise independent: *)
(* the network between the manager and a replica may be cut alone.         *)
(***************************************************************************)
EXTENDS ActiveNodes

VARIABLES linked,   \* replicas that are online on the master
          copies,   \* replicas that have received the write
          write,    \* "none", "waiting" in WAITQUORUM, "acked" to the client
          needed    \* acknowledgements WAITQUORUM has blocked for

clientVars == <<linked, copies, write, needed>>

WInit ==
    /\ Init
    /\ linked = Replicas
    /\ copies = {}
    /\ write = "none"
    /\ needed = 0

LinkChange ==
    /\ pc = "idle"
    /\ linked' \in SUBSET Replicas
    /\ UNCHANGED <<vars, copies, write, needed>>

\* replicationCountQuorumAcksByOffset
quorumAcks == Cardinality(copies \cap linked \cap quorumReplicas)

\* the write, and WAITQUORUM right behind it
waitquorumCommand ==
    /\ write = "none"
    /\ needed' = numQuorumReplicas
    /\ write' = IF numQuorumReplicas = 0 THEN "acked" ELSE "waiting"
    /\ UNCHANGED <<vars, linked, copies>>

Replicate ==
    /\ write # "none"
    /\ \E r \in linked \ copies : copies' = copies \cup {r}
    /\ UNCHANGED <<vars, linked, write, needed>>

processClientsWaitingReplicas ==
    /\ write = "waiting"
    /\ quorumAcks >= needed
    /\ write' = "acked"
    /\ UNCHANGED <<vars, linked, copies, needed>>

\* a pass sees a replica as replicating exactly when it reaches it and it is linked
Consistent(view) ==
    \A r \in Replicas :
        /\ view[r] = "replicating" => r \in linked
        /\ view[r] \in {"notReplicating", "lostMaster"} => r \notin linked

ManagerStep ==
    /\ write = "acked" => linked \subseteq copies
    /\ \/ ManagerPass \/ RepairShard \/ applyActiveNodesTransition
       \/ \E view \in {v \in Views : Consistent(v)} : updateActiveNodes(view, TRUE)
       \/ Abort
    /\ UNCHANGED clientVars

WNext ==
    \/ ManagerStep
    \/ LinkChange \/ waitquorumCommand \/ Replicate \/ processClientsWaitingReplicas

WSpec == WInit /\ [][WNext]_<<vars, clientVars>>

\* A write that WAITQUORUM has acknowledged is on a member of every set of
\* replicas that is large enough for a failover from the active nodes: the
\* Jepsen test calls a run valid only when every acknowledged element is read
\* in the end.
AcknowledgedWriteSurvives ==
    write = "acked" =>
        \A alive \in SUBSET (activeNodes \ {Master}) :
            Cardinality(alive) >= getFailoverQuorum(activeNodes)
            => alive \cap copies # {}
=============================================================================
