-------------------------- MODULE MCTokenBlacklist --------------------------
(* TokenBlacklist on small sets, whose elements are interchangeable. *)
EXTENDS TokenBlacklist, TLC

Symmetry == Permutations(Logins) \cup Permutations(Procs)
=============================================================================
