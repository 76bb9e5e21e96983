------------------------- MODULE MCActiveNodesLive -------------------------
(* ActiveNodesLive on a shard of three hosts. *)
EXTENDS ActiveNodesLive, TLC

CONSTANTS m, r1, r2

MCHosts == {m, r1, r2}
=============================================================================
