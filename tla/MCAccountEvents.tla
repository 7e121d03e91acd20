---------------------------- MODULE MCAccountEvents ----------------------------
(* AccountEvents on small sets.  Handlers are only compared for equality.      *)
EXTENDS AccountEvents, TLC

Symmetry == Permutations(Procs)
=============================================================================
