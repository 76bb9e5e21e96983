------------------------------- MODULE Shard -------------------------------
(***************************************************************************)
(* What a shard promises its clients, whatever rdsync does to keep it up:  *)
(* at most one host acknowledges writes, a host takes that role over only  *)
(* with every write that has been acknowledged before, and while it has    *)
(* the role it forgets nothing.  What is said about acknowledged writes    *)
(* ends when the operator or a second failure gives them up.               *)
(***************************************************************************)
CONSTANTS Hosts, InitialMaster, NoHost, WriteIds

VARIABLES primary,   \* the host that acknowledges writes, or NoHost
          held,      \* the writes that it holds
          acked,     \* the writes acknowledged to clients
          kept       \* acknowledged writes are to be kept

vars == <<primary, held, acked, kept>>

TypeOK ==
    /\ primary \in Hosts \cup {NoHost}
    /\ held \subseteq WriteIds /\ acked \subseteq WriteIds
    /\ kept \in BOOLEAN

Init ==
    /\ primary = InitialMaster
    /\ held = {} /\ acked = {}
    /\ kept = TRUE

Write(n) ==
    /\ primary # NoHost
    /\ held' = held \cup {n}
    /\ acked' \in {acked, acked \cup {n}}
    /\ UNCHANGED <<primary, kept>>

Acknowledge(n) ==
    /\ primary # NoHost /\ n \in held
    /\ acked' = acked \cup {n}
    /\ UNCHANGED <<primary, held, kept>>

StepDown ==
    /\ primary' = NoHost /\ held' = {}
    /\ UNCHANGED <<acked, kept>>

TakeOver(h) ==
    /\ primary' = h /\ primary # h
    /\ held' \subseteq WriteIds
    /\ kept => acked \subseteq held'
    /\ UNCHANGED <<acked, kept>>

\* the promise about acknowledged writes ends; this may cost the primary its role
\* or give it to one that had none
GiveUp ==
    /\ kept /\ kept' = FALSE
    /\ \/ UNCHANGED <<primary, held>>
       \/ /\ NoHost \in {primary, primary'}
          /\ primary' \in Hosts \cup {NoHost} /\ held' \in SUBSET WriteIds
    /\ UNCHANGED acked

Next ==
    \/ \E n \in WriteIds : Write(n) \/ Acknowledge(n)
    \/ \E h \in Hosts : TakeOver(h)
    \/ StepDown \/ GiveUp

Spec == Init /\ [][Next]_vars

\* Until it is given up, a host that can acknowledge writes holds every write that
\* has been acknowledged, by whichever host.
Durable == kept /\ primary # NoHost => acked \subseteq held
=============================================================================
