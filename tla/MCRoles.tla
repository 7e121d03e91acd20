------------------------------- MODULE MCRoles -------------------------------
(* Roles on small sets.  Handlers and rows are only compared for equality.    *)
EXTENDS Roles, TLC

Symmetry == Permutations(Procs) \cup Permutations(Rows)
=============================================================================
