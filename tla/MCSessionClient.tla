--------------------------- MODULE MCSessionClient ---------------------------
(* SessionClient on small sets: handlers, rows and devices are only compared  *)
(* for equality.                                                              *)
EXTENDS SessionClient, TLC

Symmetry == Permutations(Tokens) \cup Permutations(Procs) \cup Permutations(Devices)
=============================================================================
