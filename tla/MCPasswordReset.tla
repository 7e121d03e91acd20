--------------------------- MODULE MCPasswordReset ---------------------------
(* PasswordReset on small sets, whose elements are interchangeable. *)
EXTENDS PasswordReset, TLC

Symmetry == Permutations(Users) \cup Permutations(Tokens) \cup Permutations(Procs)
=============================================================================
