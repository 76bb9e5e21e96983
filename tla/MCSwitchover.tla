---------------------------- MODULE MCSwitchover ----------------------------
(* Switchover on a master and two replicas, the hosts of the repository's  *)
(* feature and Jepsen tests: the smallest shard with a quorum that is not  *)
(* everybody.  The two replicas are interchangeable.                       *)
EXTENDS Switchover, TLC

CONSTANTS m, r1, r2

MCHosts == {m, r1, r2}
MCSymmetry == Permutations({r1, r2})

Calm == [k \in Kinds |-> 0]

\* a host fails, the manager dies, and the operator aborts (a record that times out
\* is the same to the properties of safety as one that is aborted between two passes)
FailoverBudgets == {[Calm EXCEPT !.writes = 2, !.faults = 1, !.crashes = 1, !.aborts = 1],
                    [Calm EXCEPT !.writes = 1, !.faults = 1, !.crashes = 1, !.late = 1, !.aborts = 1]}
\* a host fails and comes back, or a second one is cut off
PartitionBudget == [Calm EXCEPT !.writes = 1, !.faults = 2, !.aborts = 1]
\* a switchover that the operator asks for and may abort; its pill may be late
PlannedBudget == [Calm EXCEPT !.writes = 2, !.switches = 1,
                              !.aborts = 1, !.timeouts = 1, !.pills = 1]
\* a forced one
ForcedBudget == [PlannedBudget EXCEPT !.forced = 1, !.pills = 0]

SafetyBudgets == FailoverBudgets \cup {PartitionBudget, PlannedBudget, ForcedBudget}

RecoveryBudgets == {[Calm EXCEPT !.writes = 1, !.faults = 2],
                    [Calm EXCEPT !.writes = 1, !.faults = 1, !.crashes = 1, !.late = 1, !.aborts = 1],
                    [Calm EXCEPT !.faults = 1, !.crashes = 1, !.late = 1, !.timeouts = 1]}

HealsBudgets == {[Calm EXCEPT !.writes = 1, !.faults = 2]}

AbortBudgets == {[Calm EXCEPT !.switches = 1, !.aborts = 1]}
=============================================================================
