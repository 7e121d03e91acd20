----------------------------- MODULE MCAccounts -----------------------------
(* Accounts on small sets; handlers, users and instances are interchangeable. *)
EXTENDS Accounts, TLC

Symmetry == Permutations(Users) \cup Permutations(Procs) \cup Permutations(Jobs)
=============================================================================
