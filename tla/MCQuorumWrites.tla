--------------------------- MODULE MCQuorumWrites ---------------------------
(* QuorumWrites on the three hosts of the Jepsen test. *)
EXTENDS QuorumWrites, TLC

CONSTANTS m, r1, r2

MCHosts == {m, r1, r2}
=============================================================================
