--------------------------- MODULE MCRefreshTokens ---------------------------
(* RefreshTokens on small sets.  Handlers, users and row ids are only ever   *)
(* compared for equality, so permuting them is a symmetry.                   *)
EXTENDS RefreshTokens, TLC

Symmetry == Permutations(Tokens) \cup Permutations(Procs) \cup Permutations(Users)

(* The system while its clients only log in, list sessions and end them: no  *)
(* refresh inserts rows behind the back of the enforcement loops.            *)
LoginNext ==
    \/ \E p \in Procs : \/ \E u \in Users : BeginLogin(p, u)
                        \/ IssueLogin(p) \/ CountSessions(p)
                        \/ FindOldest(p) \/ EvictOldest(p)
    \/ \E t \in Tokens : RevokeSession(t)

LoginSpec == Init /\ [][LoginNext]_vars
=============================================================================
