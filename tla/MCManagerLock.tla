--------------------------- MODULE MCManagerLock ---------------------------
(* ManagerLock on two interchangeable hosts: one that holds, or held, the  *)
(* lock and one that wants it.                                             *)
EXTENDS ManagerLock, TLC

CONSTANTS h1, h2

MCHosts == {h1, h2}
MCSymmetry == Permutations(MCHosts)
=============================================================================
