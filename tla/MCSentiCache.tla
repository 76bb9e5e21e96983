---------------------------- MODULE MCSentiCache ----------------------------
(* SentiCache on the cache of a replica in a shard of three hosts. *)
EXTENDS SentiCache

CONSTANTS m, r1, r2

MCHosts == {m, r1, r2}
=============================================================================
