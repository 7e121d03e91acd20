------------------------- MODULE RefreshTokensProofs -------------------------
(***************************************************************************)
(* Proofs about RefreshTokens, for every set of users, rows and handlers    *)
(* and every MaxSessions, and from "What a handler does to its own memory"   *)
(* on about SessionClient, its composition with any finite set of devices.   *)
(***************************************************************************)
EXTENDS SessionClient, FiniteSetTheorems, TLAPS

-----------------------------------------------------------------------------
(* What the statements do to the table. *)

(* revokeToken and revokeAllByUserId keep the table well-formed. *)
LEMMA RevokeTokenType ==
    ASSUME TypeOK, NEW t \in Tokens, RevokeToken(t)
    PROVE  TableOK'
  BY DEF TypeOK, TableOK, RevokeToken, Row, IsStored

LEMMA RevokeAllType ==
    ASSUME TypeOK, NEW u, RevokeAllByUserId(u)
    PROVE  TableOK'
  BY DEF TypeOK, TableOK, RevokeAllByUserId, Row, IsStored

LEMMA BlankType ==
    ASSUME NEW st \in {"unissued", "stored", "deleted"},
           NEW u \in Users \cup {None}, NEW at \in Nat
    PROVE  Blank(st, u, at) \in Row
  BY DEF Blank, Row, Fresh, Past

LEMMA UnissuedType == Unissued \in Row /\ Deleted \in Row
  BY BlankType DEF Unissued, Deleted

LEMMA CreateType ==
    ASSUME TypeOK, NEW t \in Tokens, NEW u \in Users, NEW from \in Tokens \cup {None},
           Create(t, u, from)
    PROVE  /\ TableOK'
           /\ clock' \in Nat
           /\ parent' \in [Tokens -> Tokens \cup {None}]
           /\ unenforced' \in [Users -> Nat]
  <1>1. clock' \in Nat /\ Blank("stored", u, clock') \in Row
    BY BlankType DEF TypeOK, Create
  <1>2. Blank("stored", u, clock').user = u
    BY DEF Blank
  <1>3. QED
    BY <1>1, <1>2 DEF TypeOK, TableOK, Create, IsStored

(* A handler that takes a step leaves the others alone. *)
LEMMA ReqUpdate ==
    ASSUME TypeOK, NEW p \in Procs, NEW r \in Req, Remembers(r),
           req' = [req EXCEPT ![p] = r]
    PROVE  req' \in [Procs -> Req] /\ \A q \in Procs : Remembers(req'[q])
  BY DEF TypeOK

LEMMA ActiveFinite ==
    ASSUME NEW u
    PROVE  IsFiniteSet(Active(u)) /\ Cardinality(Active(u)) \in Nat
  BY SessionsAssumption, FS_Subset, FS_CardinalityType DEF Active

LEMMA IdleType == Idle \in Req /\ Remembers(Idle)
  BY DEF Idle, Req, Remembers

LEMMA ThrowType ==
    ASSUME TypeOK, NEW p \in Procs, Throw(p)
    PROVE  req' \in [Procs -> Req] /\ \A q \in Procs : Remembers(req'[q])
  BY ReqUpdate, IdleType DEF Throw

LEMMA RespondType ==
    ASSUME TypeOK, NEW p \in Procs, NEW t \in Tokens, Respond(p, t)
    PROVE  /\ req' \in [Procs -> Req] /\ \A q \in Procs : Remembers(req'[q])
           /\ handed' \subseteq Tokens
  <1>1. handed' \subseteq Tokens
    BY DEF TypeOK, Respond
  <1>2. QED
    BY <1>1, ReqUpdate, IdleType DEF Respond

LEMMA ReqFind ==
    ASSUME NEW r \in Req, Remembers(r), r.pc \in {"count", "find", "evict"}, NEW n \in Nat
    PROVE  /\ [r EXCEPT !.pc = "find", !.left = n] \in Req
           /\ Remembers([r EXCEPT !.pc = "find", !.left = n])
           /\ [r EXCEPT !.pc = "find", !.left = n, !.target = None] \in Req
           /\ Remembers([r EXCEPT !.pc = "find", !.left = n, !.target = None])
  <1>1. r.user \in Users /\ r.token \in Tokens
    BY DEF Remembers
  <1>2. /\ [r EXCEPT !.pc = "find", !.left = n] \in Req
        /\ [r EXCEPT !.pc = "find", !.left = n, !.target = None] \in Req
    BY DEF Req
  <1>3. QED
    BY <1>1, <1>2 DEF Remembers, Req

LEMMA NextTurnType ==
    ASSUME TypeOK, NEW p \in Procs, req[p].pc \in {"find", "evict"}, NextTurn(p)
    PROVE  /\ req' \in [Procs -> Req] /\ \A q \in Procs : Remembers(req'[q])
           /\ handed' \subseteq Tokens
  <1>1. req[p] \in Req /\ Remembers(req[p])
    BY DEF TypeOK
  <1>2. req[p].token \in Tokens
    BY <1>1 DEF Remembers
  <1>3. CASE req[p].left > 1
    <2>1. req[p].left - 1 \in Nat /\ ~(req[p].left <= 1)
      BY <1>1, <1>3 DEF Req
    <2>2. /\ [req[p] EXCEPT !.pc = "find", !.left = req[p].left - 1, !.target = None] \in Req
          /\ Remembers([req[p] EXCEPT !.pc = "find", !.left = req[p].left - 1,
                                      !.target = None])
      BY <1>1, <2>1, ReqFind
    <2>3. /\ req' = [req EXCEPT ![p] = [req[p] EXCEPT !.pc = "find", !.left = req[p].left - 1,
                                                      !.target = None]]
          /\ handed' = handed
      BY <2>1 DEF NextTurn
    <2>4. QED
      BY <2>2, <2>3, ReqUpdate DEF TypeOK
  <1>4. CASE req[p].left <= 1
    <2>1. ~(req[p].left > 1)
      BY <1>1, <1>4 DEF Req
    <2>2. QED
      BY <1>2, <2>1, RespondType DEF NextTurn
  <1>5. QED
    BY <1>1, <1>3, <1>4 DEF NextTurn

-----------------------------------------------------------------------------
(* Type correctness. *)

LEMMA TypeInit == Init => TypeOK
  <1> SUFFICES ASSUME Init PROVE TypeOK
    OBVIOUS
  <1>2. row \in [Tokens -> Row]
    BY UnissuedType DEF Init
  <1>3. req \in [Procs -> Req] /\ \A p \in Procs : Remembers(req[p])
    BY IdleType DEF Init
  <1>4. \A t \in Tokens : ~IsStored(t)
    BY DEF Init, IsStored, Unissued, Blank
  <1>5. QED
    BY <1>2, <1>3, <1>4 DEF Init, TypeOK, TableOK

(* The first step of a handler. *)
LEMMA TypeBegin ==
    ASSUME TypeOK, NEW p \in Procs, Begin(p)
    PROVE  TypeOK'
  <1>1. ASSUME NEW u \in Users, BeginLogin(p, u) PROVE TypeOK'
    <2>1. /\ [Idle EXCEPT !.pc = "issue", !.user = u] \in Req
          /\ Remembers([Idle EXCEPT !.pc = "issue", !.user = u])
      BY DEF Idle, Req, Remembers
    <2>2. QED
      BY <1>1, <2>1, ReqUpdate DEF BeginLogin, TypeOK, TableOK, stored, IsStored
  <1>2. ASSUME NEW t \in Tokens, NEW pc \in {"rotate", "reuse", "logout"}, IsStored(t),
               req' = [req EXCEPT ![p] = [Idle EXCEPT !.pc = pc, !.token = t,
                                                      !.user = row[t].user]],
               UNCHANGED <<stored, aborts, parent, unenforced>>
        PROVE  TypeOK'
    <2>1. /\ [Idle EXCEPT !.pc = pc, !.token = t, !.user = row[t].user] \in Req
          /\ Remembers([Idle EXCEPT !.pc = pc, !.token = t, !.user = row[t].user])
      BY <1>2 DEF Idle, Req, Remembers, TypeOK, TableOK
    <2>2. QED
      BY <1>2, <2>1, ReqUpdate DEF TypeOK, TableOK, stored, IsStored
  <1>3. QED
    BY <1>1, <1>2 DEF Begin, RefreshAccepted, RefreshReused, BeginLogout

(* A later step of a handler. *)
LEMMA TypeStep ==
    ASSUME TypeOK, NEW p \in Procs, Step(p)
    PROVE  TypeOK'
  <1> USE DEF stored
  <1>1. req[p] \in Req /\ Remembers(req[p])
    BY DEF TypeOK
  <1>2. CASE IssueLogin(p)
    <2>1. req[p].user \in Users
      BY <1>1, <1>2 DEF Remembers, IssueLogin
    <2>2. CASE req[p].user \in accounts
      <3>1. PICK t \in Tokens :
              /\ Create(t, req[p].user, None)
              /\ req' = [req EXCEPT ![p] = [@ EXCEPT !.pc = "count", !.token = t]]
        BY <1>2, <2>2 DEF IssueLogin
      <3>2. /\ [req[p] EXCEPT !.pc = "count", !.token = t] \in Req
            /\ Remembers([req[p] EXCEPT !.pc = "count", !.token = t])
        BY <1>1, <2>1 DEF Req, Remembers
      <3>3. req' \in [Procs -> Req] /\ \A q \in Procs : Remembers(req'[q])
        BY <3>1, <3>2, ReqUpdate
      <3>4. QED
        BY <1>2, <2>1, <2>2, <3>1, <3>3, CreateType DEF IssueLogin, TypeOK
    <2>3. CASE req[p].user \notin accounts
      BY <1>2, <2>3, ThrowType DEF IssueLogin, TypeOK, TableOK, IsStored
    <2>4. QED
      BY <2>2, <2>3
  <1>3. CASE CountSessions(p)
    <2> DEFINE n == Cardinality(Active(req[p].user))
    <2>1. req[p].user \in Users /\ req[p].token \in Tokens
      BY <1>1, <1>3 DEF Remembers, CountSessions
    <2>2. unenforced' \in [Users -> Nat]
      BY <1>3, <2>1 DEF CountSessions, TypeOK
    <2>3. CASE n <= MaxSessions /\ Respond(p, req[p].token)
      BY <1>3, <2>1, <2>2, <2>3, RespondType DEF CountSessions, TypeOK, TableOK, IsStored
    <2>4. CASE /\ n > MaxSessions
               /\ req' = [req EXCEPT ![p] = [@ EXCEPT !.pc = "find", !.left = n - MaxSessions]]
               /\ UNCHANGED handed
      <3>1. n - MaxSessions \in Nat
        BY <2>4, ActiveFinite, SessionsAssumption
      <3>2. /\ [req[p] EXCEPT !.pc = "find", !.left = n - MaxSessions] \in Req
            /\ Remembers([req[p] EXCEPT !.pc = "find", !.left = n - MaxSessions])
        BY <1>1, <1>3, <3>1, ReqFind DEF CountSessions
      <3>3. req' \in [Procs -> Req] /\ \A q \in Procs : Remembers(req'[q])
        BY <2>4, <3>2, ReqUpdate
      <3>4. QED
        BY <1>3, <2>2, <2>4, <3>3 DEF CountSessions, TypeOK, TableOK, IsStored
    <2>5. QED
      BY <1>3, <2>3, <2>4 DEF CountSessions
  <1>4. CASE FindOldest(p)
    <2>1. CASE \E t \in Oldest(req[p].user) :
                  req' = [req EXCEPT ![p] = [@ EXCEPT !.pc = "evict", !.target = t]]
      <3>1. PICK t \in Tokens :
                req' = [req EXCEPT ![p] = [@ EXCEPT !.pc = "evict", !.target = t]]
        BY <2>1 DEF Oldest, Active
      <3>2. req[p].user \in Users /\ req[p].token \in Tokens
        BY <1>1, <1>4 DEF Remembers, FindOldest
      <3>3. /\ [req[p] EXCEPT !.pc = "evict", !.target = t] \in Req
            /\ Remembers([req[p] EXCEPT !.pc = "evict", !.target = t])
        BY <1>1, <3>2 DEF Req, Remembers
      <3>4. req' \in [Procs -> Req] /\ \A q \in Procs : Remembers(req'[q])
        BY <3>1, <3>3, ReqUpdate
      <3>5. handed' \subseteq Tokens
        BY <1>1, <1>4, NextTurnType DEF FindOldest, TypeOK
      <3>6. QED
        BY <1>4, <3>4, <3>5 DEF FindOldest, TypeOK, TableOK, IsStored
    <2>2. CASE NextTurn(p)
      BY <1>4, <2>2, NextTurnType DEF FindOldest, TypeOK, TableOK, IsStored
    <2>3. QED
      BY <1>4, <2>1, <2>2 DEF FindOldest
  <1>5. CASE EvictOldest(p)
    <2>1. req[p].target \in Tokens
      BY <1>1, <1>5 DEF Remembers, EvictOldest
    <2>2. QED
      BY <1>5, <2>1, NextTurnType, RevokeTokenType DEF EvictOldest, TypeOK
  <1>6. CASE Rotate(p)
    <2>1. req[p].user \in Users /\ req[p].token \in Tokens
      BY <1>1, <1>6 DEF Remembers, Rotate
    <2>2. /\ [req[p] EXCEPT !.pc = "reissue"] \in Req
          /\ Remembers([req[p] EXCEPT !.pc = "reissue"])
      BY <1>1, <2>1 DEF Req, Remembers
    <2>3. req' \in [Procs -> Req] /\ \A q \in Procs : Remembers(req'[q])
      BY <1>6, <2>2, ReqUpdate DEF Rotate
    <2>4. QED
      BY <1>6, <2>1, <2>3, RevokeTokenType DEF Rotate, TypeOK
  <1>7. CASE Reissue(p)
    <2>1. req[p].user \in Users /\ req[p].token \in Tokens
      BY <1>1, <1>7 DEF Remembers, Reissue
    <2>2. CASE req[p].user \in accounts
      <3>1. PICK t \in Tokens :
              /\ Create(t, req[p].user, req[p].token)
              /\ req' = [req EXCEPT ![p] = [@ EXCEPT !.pc = "link", !.target = t]]
        BY <1>7, <2>2 DEF Reissue
      <3>2. /\ [req[p] EXCEPT !.pc = "link", !.target = t] \in Req
            /\ Remembers([req[p] EXCEPT !.pc = "link", !.target = t])
        BY <1>1, <2>1 DEF Req, Remembers
      <3>3. req' \in [Procs -> Req] /\ \A q \in Procs : Remembers(req'[q])
        BY <3>1, <3>2, ReqUpdate
      <3>4. QED
        BY <1>7, <2>1, <2>2, <3>1, <3>3, CreateType DEF Reissue, TypeOK
    <2>3. CASE req[p].user \notin accounts
      BY <1>7, <2>3, ThrowType DEF Reissue, TypeOK, TableOK, IsStored
    <2>4. QED
      BY <2>2, <2>3
  <1>8. CASE Link(p)
    <2>1. req[p].token \in Tokens /\ req[p].target \in Tokens
      BY <1>1, <1>8 DEF Remembers, Link
    <2>2. TableOK'
      BY <1>8, <2>1 DEF Link, TypeOK, TableOK, Row, IsStored
    <2>3. QED
      BY <1>8, <2>1, <2>2, RespondType DEF Link, TypeOK
  <1>9. CASE RevokeReused(p)
    BY <1>9, RevokeAllType, ThrowType DEF RevokeReused, TypeOK
  <1>10. CASE Logout(p)
    <2>1. req[p].token \in Tokens
      BY <1>1, <1>10 DEF Remembers, Logout
    <2>2. QED
      BY <1>10, <2>1, RevokeTokenType, ThrowType DEF Logout, TypeOK
  <1>11. QED
    BY <1>2, <1>3, <1>4, <1>5, <1>6, <1>7, <1>8, <1>9, <1>10 DEF Step

(* A handler cut short. *)
LEMMA TypeAbort ==
    ASSUME TypeOK, NEW p \in Procs, Abort(p)
    PROVE  TypeOK'
  <1>1. \A u \in Users : unenforced'[u] \in Nat
    BY DEF Abort, TypeOK, Req
  <1>2. QED
    BY <1>1, ThrowType DEF Abort, TypeOK, TableOK, IsStored, stored

(* Operations of one statement, the job and time. *)
Background ==
    \/ \E t \in Tokens : RevokeSession(t) \/ Age(t) \/ SevenDaysPass(t)
    \/ \E u \in Users : RevokeAllUserTokens(u) \/ DeleteAccount(u)
    \/ Cleanup

LEMMA TypeBackground ==
    ASSUME TypeOK, Background
    PROVE  TypeOK'
  <1>1. ASSUME TableOK', accounts' \subseteq accounts,
               UNCHANGED <<req, handed, clock, aborts, parent, unenforced>>
        PROVE  TypeOK'
    BY <1>1 DEF TypeOK
  <1>2. ASSUME NEW t \in Tokens, RevokeSession(t) PROVE TypeOK'
    BY <1>1, <1>2, RevokeTokenType DEF RevokeSession
  <1>3. ASSUME NEW t \in Tokens, Age(t) PROVE TypeOK'
    <2>1. row[t] \in Row /\ row[t].age + 1 \in Fresh..Past
      BY <1>3 DEF Age, TypeOK, TableOK, Row, Fresh, Past
    <2>2. TableOK'
      BY <1>3, <2>1 DEF Age, TypeOK, TableOK, Row, IsStored
    <2>3. QED
      BY <1>1, <1>3, <2>2 DEF Age
  <1>4. ASSUME NEW t \in Tokens, SevenDaysPass(t) PROVE TypeOK'
    <2>1. TableOK'
      BY <1>4 DEF SevenDaysPass, TypeOK, TableOK, Row, IsStored
    <2>2. QED
      BY <1>1, <1>4, <2>1 DEF SevenDaysPass
  <1>5. ASSUME NEW u \in Users, RevokeAllUserTokens(u) PROVE TypeOK'
    BY <1>1, <1>5, RevokeAllType DEF RevokeAllUserTokens
  <1>6. Deleted \in Row /\ Deleted.st # "stored"
    BY UnissuedType DEF Deleted, Blank
  <1>7. ASSUME NEW u \in Users, DeleteAccount(u) PROVE TypeOK'
    <2>1. TableOK'
      BY <1>6, <1>7 DEF DeleteAccount, TypeOK, TableOK, IsStored
    <2>2. QED
      BY <1>1, <1>7, <2>1 DEF DeleteAccount
  <1>8. ASSUME Cleanup PROVE TypeOK'
    <2>1. TableOK'
      BY <1>6, <1>8 DEF Cleanup, TypeOK, TableOK, IsStored
    <2>2. QED
      BY <1>1, <1>8, <2>1 DEF Cleanup
  <1>9. QED
    BY <1>2, <1>3, <1>4, <1>5, <1>7, <1>8 DEF Background

LEMMA NextSplit ==
    ASSUME [Next]_vars
    PROVE  \/ \E p \in Procs : Begin(p) \/ Step(p) \/ Abort(p)
           \/ Background
           \/ UNCHANGED vars
  BY DEF Next, Background

LEMMA TypeNext == TypeOK /\ [Next]_vars => TypeOK'
  <1> SUFFICES ASSUME TypeOK, [Next]_vars PROVE TypeOK'
    OBVIOUS
  <1>1. CASE UNCHANGED vars
    BY <1>1 DEF vars, TypeOK, TableOK, IsStored
  <1>2. QED
    BY <1>1, NextSplit, TypeBegin, TypeStep, TypeAbort, TypeBackground

(* The table, the handlers and the ghosts keep their types whatever the      *)
(* interleaving of the handlers' statements.                                 *)
THEOREM TypeCorrect == Spec => []TypeOK
  BY TypeInit, TypeNext, PTL DEF Spec

-----------------------------------------------------------------------------
(* What a step does to one row: it is inserted by a login or a rotation, it   *)
(* is linked, or it fades: it may only be revoked, age or be deleted.         *)

FadesOrLinks(t) ==
    \/ row'[t] = row[t]
    \/ IsStored(t) /\ row'[t] = Deleted
    \/ /\ IsStored(t) /\ IsStored(t)'
       /\ row'[t].user = row[t].user /\ row'[t].issuedAt = row[t].issuedAt
       /\ row[t].revoked => row'[t].revoked
       /\ row[t].age # Fresh => row'[t].age # Fresh

Fades(t) == FadesOrLinks(t) /\ row'[t].replacedBy \in {row[t].replacedBy, None}

Inserting(p) == IssueLogin(p) \/ Reissue(p)

LEMMA RevokeTokenFades ==
    ASSUME TypeOK, NEW s \in Tokens, RevokeToken(s), NEW t \in Tokens
    PROVE  Fades(t) /\ (row[t].revoked => row'[t].revoked) /\ (IsStored(s) => row'[s].revoked)
  <1>1. row[t] \in Row /\ row[s] \in Row
    BY DEF TypeOK, TableOK
  <1>2. QED
    BY <1>1 DEF TypeOK, TableOK, RevokeToken, Fades, FadesOrLinks, IsStored, Row

LEMMA RevokeAllFades ==
    ASSUME TypeOK, NEW u, RevokeAllByUserId(u), NEW t \in Tokens
    PROVE  Fades(t)
  <1>1. row[t] \in Row
    BY DEF TypeOK, TableOK
  <1>2. QED
    BY <1>1 DEF TypeOK, TableOK, RevokeAllByUserId, Fades, FadesOrLinks, IsStored, Row

LEMMA BackgroundFades ==
    ASSUME TypeOK, Background, NEW t \in Tokens
    PROVE  Fades(t)
  <1>1. row[t] \in Row
    BY DEF TypeOK, TableOK
  <1>2. ASSUME NEW s \in Tokens, RevokeSession(s) PROVE Fades(t)
    BY <1>2, RevokeTokenFades DEF RevokeSession
  <1>3. ASSUME NEW s \in Tokens, Age(s) PROVE Fades(t)
    <2>1. row[s] \in Row /\ row[s].age + 1 # Fresh
      BY <1>3 DEF Age, TypeOK, TableOK, Row, Fresh, Past
    <2>2. QED
      BY <1>1, <1>3, <2>1 DEF Age, TypeOK, TableOK, Fades, FadesOrLinks, IsStored, Row
  <1>4. ASSUME NEW s \in Tokens, SevenDaysPass(s) PROVE Fades(t)
    BY <1>1, <1>4 DEF SevenDaysPass, TypeOK, TableOK, Fades, FadesOrLinks, IsStored, Row
  <1>5. ASSUME NEW u \in Users, RevokeAllUserTokens(u) PROVE Fades(t)
    BY <1>5, RevokeAllFades DEF RevokeAllUserTokens
  <1>6. Deleted.replacedBy = None
    BY DEF Deleted, Blank
  <1>7. ASSUME NEW u \in Users, DeleteAccount(u) PROVE Fades(t)
    BY <1>6, <1>7 DEF DeleteAccount, Fades, FadesOrLinks
  <1>8. ASSUME Cleanup PROVE Fades(t)
    BY <1>6, <1>8 DEF Cleanup, Purgeable, Fades, FadesOrLinks
  <1>9. QED
    BY <1>2, <1>3, <1>4, <1>5, <1>7, <1>8 DEF Background

(* A step of a handler that neither inserts nor links. *)
LEMMA HandlerFades ==
    ASSUME TypeOK, NEW p \in Procs, Begin(p) \/ Step(p) \/ Abort(p),
           ~Inserting(p), ~Link(p), NEW t \in Tokens
    PROVE  Fades(t)
  <1>1. req[p] \in Req /\ Remembers(req[p])
    BY DEF TypeOK
  <1>2. CASE row' = row
    BY <1>2 DEF Fades, FadesOrLinks
  <1>3. CASE EvictOldest(p)
    BY <1>1, <1>3, RevokeTokenFades DEF EvictOldest, Remembers
  <1>4. CASE Rotate(p)
    BY <1>1, <1>4, RevokeTokenFades DEF Rotate, Remembers
  <1>5. CASE Logout(p)
    BY <1>1, <1>5, RevokeTokenFades DEF Logout, Remembers
  <1>6. CASE RevokeReused(p)
    BY <1>6, RevokeAllFades DEF RevokeReused
  <1>7. QED
    BY <1>2, <1>3, <1>4, <1>5, <1>6
       DEF Begin, Step, Abort, Inserting, stored, BeginLogin, RefreshAccepted,
           RefreshReused, BeginLogout, CountSessions, FindOldest

LEMMA LinkFades ==
    ASSUME TypeOK, NEW p \in Procs, Link(p), NEW t \in Tokens
    PROVE  FadesOrLinks(t) /\ (row[t].revoked => row'[t].revoked)
  <1>1. req[p].token \in Tokens /\ req[p].target \in Tokens /\ row[t] \in Row
    BY DEF TypeOK, TableOK, Remembers, Link
  <1>2. QED
    BY <1>1 DEF Link, TypeOK, TableOK, FadesOrLinks, IsStored, Row

(* An insert touches one row, that was not issued before. *)
LEMMA InsertRow ==
    ASSUME TypeOK, NEW p \in Procs, Inserting(p), row' # row
    PROVE  /\ req[p].user \in Users
           /\ unenforced' = [unenforced EXCEPT ![req[p].user] = @ + 1]
           /\ \E t \in Tokens :
                /\ row[t].st = "unissued"
                /\ row' = [row EXCEPT ![t] = Blank("stored", req[p].user, clock + 1)]
  BY DEF Inserting, IssueLogin, Reissue, Create, stored, TypeOK, Remembers

-----------------------------------------------------------------------------
(* A session that is over stays over. *)

LEMMA FadedStaysDead ==
    ASSUME NEW t \in Tokens, FadesOrLinks(t), Dead(t)
    PROVE  Dead(t)'
  BY DEF FadesOrLinks, Dead, IsStored, Deleted, Blank

LEMMA DeadNext ==
    ASSUME TypeOK, [Next]_vars, NEW t \in Tokens, Dead(t)
    PROVE  Dead(t)'
  <1>1. CASE UNCHANGED vars
    BY <1>1 DEF vars, Dead, IsStored
  <1>2. CASE Background
    BY <1>2, BackgroundFades, FadedStaysDead DEF Fades
  <1>3. ASSUME NEW p \in Procs, Begin(p) \/ Step(p) \/ Abort(p) PROVE Dead(t)'
    <2>1. CASE Inserting(p)
      <3>1. CASE row' = row
        BY <3>1 DEF Dead, IsStored
      <3>2. CASE row' # row
        BY <2>1, <3>2, InsertRow DEF Dead, IsStored, TypeOK, TableOK
      <3>3. QED
        BY <3>1, <3>2
    <2>2. CASE Link(p)
      BY <2>2, LinkFades, FadedStaysDead
    <2>3. QED
      BY <1>3, <2>1, <2>2, HandlerFades, FadedStaysDead DEF Fades
  <1>4. QED
    BY <1>1, <1>2, <1>3, NextSplit

(* No late statement of any handler revives a revoked, expired or deleted    *)
(* session, for any number of handlers.                                      *)
THEOREM DeadSessionsStayDead == Spec => DeadStaysDead
  <1>1. TypeOK /\ [Next]_vars => [\A t \in Tokens : Dead(t) => Dead(t)']_vars
    BY DeadNext
  <1>2. QED
    BY <1>1, TypeCorrect, PTL DEF Spec, DeadStaysDead

-----------------------------------------------------------------------------
(* The session cap.  A running enforcement loop still owes the evictions     *)
(* left to it; one whose victim was taken by somebody else owes one fewer.   *)

Owed(p) == IF req[p].pc = "evict" /\ req[p].target \notin Active(req[p].user)
           THEN req[p].left - 1
           ELSE req[p].left

(* The loop that counted last owes at least the excess, unless it has ended  *)
(* and there is none.                                                        *)
CapInv(u) ==
    \/ Cardinality(Active(u)) <= MaxSessions + unenforced[u]
    \/ \E p \in Procs : /\ InLoop(p, u)
                        /\ Cardinality(Active(u)) <= MaxSessions + unenforced[u] + Owed(p)

LoopsOwe == \A p \in Procs : req[p].pc \in {"find", "evict"} => req[p].left >= 1

SessionInv == TypeOK /\ LoopsOwe /\ \A u \in Users : CapInv(u)

LEMMA FadedActive ==
    ASSUME \A t \in Tokens : FadesOrLinks(t), NEW u
    PROVE  Active(u)' \subseteq Active(u)
  BY DEF FadesOrLinks, Active, IsStored, Deleted, Blank

(* Fewer sessions, and one fewer for a victim that is gone. *)
LEMMA FewerSessions ==
    ASSUME NEW S, NEW T, IsFiniteSet(T), S \subseteq T
    PROVE  /\ Cardinality(S) \in Nat /\ Cardinality(T) \in Nat
           /\ Cardinality(S) <= Cardinality(T)
           /\ \A x \in T : x \notin S => Cardinality(S) <= Cardinality(T) - 1
  <1>1. /\ IsFiniteSet(S) /\ Cardinality(S) <= Cardinality(T)
        /\ Cardinality(S) \in Nat /\ Cardinality(T) \in Nat
    BY FS_Subset, FS_CardinalityType
  <1>2. ASSUME NEW x \in T, x \notin S PROVE Cardinality(S) <= Cardinality(T) - 1
    <2>1. IsFiniteSet(T \ {x}) /\ Cardinality(T \ {x}) = Cardinality(T) - 1
      BY FS_RemoveElement
    <2>2. S \subseteq T \ {x}
      BY <1>2
    <2>3. QED
      BY <2>1, <2>2, FS_Subset
  <1>3. QED
    BY <1>1, <1>2

(* What a handler owes shrinks only when somebody else takes its victim. *)
LEMMA LoopFades ==
    ASSUME TypeOK, TypeOK', NEW u \in Users, NEW q \in Procs, InLoop(q, u),
           Cardinality(Active(u)) <= MaxSessions + unenforced[u] + Owed(q),
           Active(u)' \subseteq Active(u),
           unenforced'[u] = unenforced[u],
           req'[q] = req[q]
    PROVE  CapInv(u)'
  <1>1. /\ Cardinality(Active(u)') \in Nat /\ Cardinality(Active(u)) \in Nat
        /\ Cardinality(Active(u)') <= Cardinality(Active(u))
        /\ \A x \in Active(u) : x \notin Active(u)'
               => Cardinality(Active(u)') <= Cardinality(Active(u)) - 1
    BY FewerSessions, ActiveFinite
  <1>2. unenforced[u] \in Nat /\ MaxSessions \in Nat
    BY SessionsAssumption DEF TypeOK
  <1>3. InLoop(q, u)' /\ req[q].user = u /\ req[q].left \in Nat
    BY DEF InLoop, TypeOK, Req
  <1>4. Owed(q)' = Owed(q) \/ (Owed(q)' = Owed(q) - 1 /\ req[q].target \in Active(u)
                                 /\ req[q].target \notin Active(u)')
    BY <1>1, <1>3 DEF Owed
  <1>5. Owed(q) \in Int
    BY <1>3 DEF Owed
  <1>6. Cardinality(Active(u)') <= MaxSessions + unenforced'[u] + Owed(q)'
    BY <1>1, <1>2, <1>4, <1>5
  <1>7. QED
    BY <1>3, <1>6 DEF CapInv

(* The bound of one user survives a step under which the user's sessions     *)
(* only fade and the handlers enforcing it stand still.                      *)
LEMMA CapFades ==
    ASSUME TypeOK, TypeOK', NEW u \in Users, CapInv(u),
           Active(u)' \subseteq Active(u),
           unenforced'[u] = unenforced[u],
           \A q \in Procs : InLoop(q, u) => req'[q] = req[q]
    PROVE  CapInv(u)'
  <1>1. CASE Cardinality(Active(u)) <= MaxSessions + unenforced[u]
    <2>1. /\ Cardinality(Active(u)') \in Nat /\ Cardinality(Active(u)) \in Nat
          /\ Cardinality(Active(u)') <= Cardinality(Active(u))
      BY FewerSessions, ActiveFinite
    <2>2. unenforced[u] \in Nat /\ MaxSessions \in Nat
      BY SessionsAssumption DEF TypeOK
    <2>3. QED
      BY <1>1, <2>1, <2>2 DEF CapInv
  <1>2. QED
    BY <1>1, LoopFades DEF CapInv

(* An insert adds at most one session, and adds it to unenforced. *)
LEMMA CapInsert ==
    ASSUME SessionInv, TypeOK', NEW p \in Procs, Inserting(p), NEW u \in Users
    PROVE  CapInv(u)'
  <1> USE DEF SessionInv
  <1>0. /\ req[p] \in Req
        /\ \A q \in Procs : InLoop(q, u) => req'[q] = req[q]
    BY DEF Inserting, IssueLogin, Reissue, Throw, InLoop, TypeOK
  <1>1. CASE row' = row
    <2>0. ASSUME NEW t \in Tokens, NEW v, NEW from, Create(t, v, from) PROVE FALSE
      BY <1>1, <2>0 DEF Create, Blank, TypeOK, TableOK
    <2>1. unenforced'[u] = unenforced[u]
      BY <2>0 DEF Inserting, IssueLogin, Reissue
    <2>2. Active(u)' = Active(u)
      BY <1>1 DEF Active, IsStored
    <2>3. QED
      BY <1>0, <2>1, <2>2, CapFades
  <1>2. CASE row' # row
    <2>1. PICK t \in Tokens :
             /\ row[t].st = "unissued"
             /\ row' = [row EXCEPT ![t] = Blank("stored", req[p].user, clock + 1)]
      BY <1>2, InsertRow
    <2>2. unenforced' = [unenforced EXCEPT ![req[p].user] = @ + 1]
      BY <1>2, InsertRow
    <2>3. CASE u # req[p].user
      <3>1. Active(u)' = Active(u) /\ unenforced'[u] = unenforced[u]
        BY <2>1, <2>2, <2>3 DEF Active, IsStored, Blank, TypeOK, TableOK
      <3>2. QED
        BY <1>0, <3>1, CapFades
    <2>4. CASE u = req[p].user
      <3>1. /\ Active(u) \subseteq Active(u)'
            /\ Active(u)' \subseteq Active(u) \cup {t}
        BY <2>1 DEF Active, IsStored, TypeOK, TableOK
      <3>2. unenforced'[u] = unenforced[u] + 1 /\ unenforced[u] \in Nat /\ MaxSessions \in Nat
        BY <2>2, <2>4, SessionsAssumption DEF TypeOK
      <3>3. /\ Cardinality(Active(u)) \in Nat /\ Cardinality(Active(u)') \in Nat
            /\ Cardinality(Active(u)') <= Cardinality(Active(u)) + 1
        <4>0. t \notin Active(u) /\ IsFiniteSet(Active(u)) /\ Cardinality(Active(u)) \in Nat
          BY <2>1, ActiveFinite DEF Active, IsStored
        <4>1. /\ IsFiniteSet(Active(u) \cup {t})
              /\ Cardinality(Active(u) \cup {t}) = Cardinality(Active(u)) + 1
          BY <4>0, FS_AddElement
        <4>2. QED
          BY <3>1, <4>0, <4>1, FS_Subset, FS_CardinalityType
      <3>4. CASE Cardinality(Active(u)) <= MaxSessions + unenforced[u]
        BY <3>2, <3>3, <3>4 DEF CapInv
      <3>5. CASE \E q \in Procs :
                /\ InLoop(q, u)
                /\ Cardinality(Active(u)) <= MaxSessions + unenforced[u] + Owed(q)
        <4>1. PICK q \in Procs :
                /\ InLoop(q, u)
                /\ Cardinality(Active(u)) <= MaxSessions + unenforced[u] + Owed(q)
          BY <3>5
        <4>2. req'[q] = req[q] /\ InLoop(q, u)' /\ req[q].user = u /\ req[q].left \in Nat
          BY <1>0, <4>1 DEF InLoop, TypeOK, Req
        <4>3. Owed(q)' \in {Owed(q), Owed(q) + 1} /\ Owed(q) \in Int
          <5>1. CASE req[q].pc = "evict" /\ req[q].target \notin Active(u)'
            <6>1. req[q].target \notin Active(u) /\ Owed(q) = req[q].left - 1
              BY <3>1, <4>2, <5>1 DEF Owed
            <6>2. Owed(q)' = req[q].left - 1
              BY <4>2, <5>1 DEF Owed
            <6>3. QED
              BY <4>2, <6>1, <6>2
          <5>2. CASE ~(req[q].pc = "evict" /\ req[q].target \notin Active(u)')
            <6>1. Owed(q)' = req[q].left
              BY <4>2, <5>2 DEF Owed
            <6>2. QED
              BY <4>2, <6>1 DEF Owed
          <5>3. QED
            BY <5>1, <5>2
        <4>4. Cardinality(Active(u)') <= MaxSessions + unenforced'[u] + Owed(q)'
          BY <3>2, <3>3, <4>1, <4>3
        <4>5. QED
          BY <4>2, <4>4 DEF CapInv
      <3>6. QED
        BY <3>4, <3>5 DEF CapInv
    <2>5. QED
      BY <2>3, <2>4
  <1>3. QED
    BY <1>1, <1>2

(* The count starts a loop that owes the whole excess it saw. *)
LEMMA CapCount ==
    ASSUME SessionInv, TypeOK', NEW p \in Procs, CountSessions(p), NEW u \in Users
    PROVE  CapInv(u)'
  <1> USE DEF SessionInv
  <1>1. req[p] \in Req /\ req[p].user \in Users /\ Active(u)' = Active(u)
    BY DEF CountSessions, TypeOK, Remembers, Active, IsStored
  <1>2. CASE u # req[p].user
    <2>1. /\ unenforced'[u] = unenforced[u]
          /\ \A q \in Procs : InLoop(q, u) => req'[q] = req[q]
      BY <1>2 DEF CountSessions, InLoop, Respond, TypeOK
    <2>2. QED
      BY <1>1, <2>1, CapFades
  <1>3. CASE u = req[p].user
    <2> DEFINE n == Cardinality(Active(u))
    <2>1. unenforced'[u] = 0 /\ n \in Nat /\ MaxSessions \in Nat
      BY <1>1, <1>3, SessionsAssumption, ActiveFinite DEF CountSessions, TypeOK
    <2>2. CASE n <= MaxSessions
      BY <1>1, <2>1, <2>2 DEF CapInv
    <2>3. CASE n > MaxSessions
      <3>1. req' = [req EXCEPT ![p] = [@ EXCEPT !.pc = "find", !.left = n - MaxSessions]]
        BY <1>3, <2>1, <2>3 DEF CountSessions
      <3>2. req'[p].pc = "find" /\ req'[p].left = n - MaxSessions /\ req'[p].user = u
        BY <1>1, <1>3, <3>1 DEF TypeOK, Req
      <3>3. InLoop(p, u)' /\ Owed(p)' = n - MaxSessions
        BY <3>2 DEF InLoop, Owed
      <3>4. QED
        BY <1>1, <2>1, <3>3 DEF CapInv
    <2>4. QED
      BY <2>1, <2>2, <2>3
  <1>4. QED
    BY <1>2, <1>3

(* Looking for a victim changes no session; the victim found is active. *)
LEMMA CapFind ==
    ASSUME SessionInv, TypeOK', NEW p \in Procs, FindOldest(p), NEW u \in Users
    PROVE  CapInv(u)'
  <1> USE DEF SessionInv
  <1>1. /\ req[p] \in Req /\ req[p].user \in Users /\ Active(u)' = Active(u)
        /\ unenforced'[u] = unenforced[u] /\ unenforced[u] \in Nat /\ MaxSessions \in Nat
    BY SessionsAssumption DEF FindOldest, TypeOK, Remembers, Active, IsStored
  <1>2. ASSUME NEW q \in Procs, q # p PROVE req'[q] = req[q]
    BY <1>2 DEF FindOldest, NextTurn, Respond, TypeOK
  <1>3. CASE u # req[p].user
    <2>1. \A q \in Procs : InLoop(q, u) => req'[q] = req[q]
      BY <1>2, <1>3 DEF InLoop
    <2>2. QED
      BY <1>1, <2>1, CapFades
  <1>4. CASE u = req[p].user /\ Active(u) = {}
    <2>1. Cardinality(Active(u)') = 0
      BY <1>1, <1>4, FS_EmptySet
    <2>2. QED
      BY <1>1, <2>1 DEF CapInv
  <1>5. CASE u = req[p].user /\ Active(u) # {}
    <2>1. PICK t \in Active(u) :
              req' = [req EXCEPT ![p] = [@ EXCEPT !.pc = "evict", !.target = t]]
      BY <1>5 DEF FindOldest, Oldest
    <2>2. /\ req'[p].pc = "evict" /\ req'[p].target = t
          /\ req'[p].left = req[p].left /\ req'[p].user = u
      BY <1>1, <1>5, <2>1 DEF TypeOK, Req
    <2>3. Owed(p)' = req[p].left /\ Owed(p) = req[p].left /\ InLoop(p, u)'
      BY <1>1, <2>1, <2>2 DEF Owed, InLoop, FindOldest
    <2>4. CASE Cardinality(Active(u)) <= MaxSessions + unenforced[u]
      BY <1>1, <2>4 DEF CapInv
    <2>5. CASE \E q \in Procs :
                /\ InLoop(q, u)
                /\ Cardinality(Active(u)) <= MaxSessions + unenforced[u] + Owed(q)
      <3>1. PICK q \in Procs :
                /\ InLoop(q, u)
                /\ Cardinality(Active(u)) <= MaxSessions + unenforced[u] + Owed(q)
        BY <2>5
      <3>2. InLoop(q, u)' /\ Owed(q)' = Owed(q)
        BY <1>1, <1>2, <2>3, <3>1 DEF InLoop, Owed
      <3>3. QED
        BY <1>1, <3>1, <3>2 DEF CapInv
    <2>6. QED
      BY <2>4, <2>5 DEF CapInv
  <1>6. QED
    BY <1>3, <1>4, <1>5

(* An eviction pays one turn, and the turn was owed only if the victim was    *)
(* still active.                                                              *)
LEMMA CapEvict ==
    ASSUME SessionInv, TypeOK', NEW p \in Procs, EvictOldest(p), NEW u \in Users
    PROVE  CapInv(u)'
  <1> USE DEF SessionInv
  <1>1. /\ req[p] \in Req /\ req[p].user \in Users /\ req[p].target \in Tokens
        /\ unenforced'[u] = unenforced[u] /\ unenforced[u] \in Nat /\ MaxSessions \in Nat
        /\ req[p].left \in Nat /\ req[p].left >= 1 /\ req[p].pc = "evict"
    BY SessionsAssumption DEF EvictOldest, TypeOK, Remembers, LoopsOwe, Req
  <1>2. Active(u)' \subseteq Active(u)
    BY <1>1, RevokeTokenFades, FadedActive DEF EvictOldest, Fades
  <1>3. ASSUME NEW q \in Procs, q # p PROVE req'[q] = req[q]
    BY <1>3 DEF EvictOldest, NextTurn, Respond, TypeOK
  <1>4. CASE u # req[p].user
    <2>1. \A q \in Procs : InLoop(q, u) => req'[q] = req[q]
      BY <1>3, <1>4 DEF InLoop
    <2>2. QED
      BY <1>1, <1>2, <2>1, CapFades
  <1>5. CASE u = req[p].user
    <2>1. /\ Cardinality(Active(u)') \in Nat /\ Cardinality(Active(u)) \in Nat
          /\ Cardinality(Active(u)') <= Cardinality(Active(u))
          /\ \A x \in Active(u) : x \notin Active(u)'
                 => Cardinality(Active(u)') <= Cardinality(Active(u)) - 1
      BY <1>2, FewerSessions, ActiveFinite
    <2>2. req[p].target \notin Active(u)'
      BY <1>1, RevokeTokenFades DEF EvictOldest, Active, IsStored, RevokeToken, TypeOK, TableOK
    <2>3. CASE Cardinality(Active(u)) <= MaxSessions + unenforced[u]
      BY <1>1, <2>1, <2>3 DEF CapInv
    <2>4. CASE \E q \in Procs :
                /\ InLoop(q, u)
                /\ Cardinality(Active(u)) <= MaxSessions + unenforced[u] + Owed(q)
      <3>1. PICK q \in Procs :
                /\ InLoop(q, u)
                /\ Cardinality(Active(u)) <= MaxSessions + unenforced[u] + Owed(q)
        BY <2>4
      <3>2. CASE q = p
        <4>1. Cardinality(Active(u)') <= MaxSessions + unenforced[u] + req[p].left - 1
          <5>1. CASE req[p].target \in Active(u)
            <6>1. Owed(p) = req[p].left
              BY <1>1, <1>5, <5>1 DEF Owed
            <6>2. QED
              BY <1>1, <2>1, <2>2, <3>1, <3>2, <5>1, <6>1
          <5>2. CASE req[p].target \notin Active(u)
            <6>1. Owed(p) = req[p].left - 1
              BY <1>1, <1>5, <5>2 DEF Owed
            <6>2. QED
              BY <1>1, <2>1, <3>1, <3>2, <6>1
          <5>3. QED
            BY <5>1, <5>2
        <4>2. CASE req[p].left <= 1
          BY <1>1, <2>1, <4>1, <4>2 DEF CapInv
        <4>3. CASE req[p].left > 1
          <5>1. req' = [req EXCEPT ![p] = [@ EXCEPT !.pc = "find", !.left = req[p].left - 1,
                                                    !.target = None]]
            BY <1>1, <4>3 DEF EvictOldest, NextTurn
          <5>2. req'[p].pc = "find" /\ req'[p].user = u /\ req'[p].left = req[p].left - 1
            BY <1>1, <1>5, <5>1 DEF TypeOK, Req
          <5>3. InLoop(p, u)' /\ Owed(p)' = req[p].left - 1
            BY <5>2 DEF InLoop, Owed
          <5>4. MaxSessions + unenforced[u] + (req[p].left - 1)
                   = MaxSessions + unenforced[u] + req[p].left - 1
            BY <1>1
          <5>5. QED
            BY <1>1, <4>1, <5>3, <5>4 DEF CapInv
        <4>4. QED
          BY <1>1, <4>2, <4>3
      <3>3. CASE q # p
        BY <1>1, <1>2, <1>3, <3>1, <3>3, LoopFades
      <3>4. QED
        BY <3>2, <3>3
    <2>5. QED
      BY <2>3, <2>4 DEF CapInv
  <1>6. QED
    BY <1>4, <1>5

(* What an interrupted loop still owed is added to unenforced. *)
LEMMA CapAbort ==
    ASSUME SessionInv, TypeOK', NEW p \in Procs, Abort(p), NEW u \in Users
    PROVE  CapInv(u)'
  <1> USE DEF SessionInv
  <1>1. /\ Active(u)' = Active(u) /\ req[p] \in Req
        /\ unenforced[u] \in Nat /\ MaxSessions \in Nat /\ req[p].left \in Nat
        /\ Cardinality(Active(u)) \in Nat
    BY SessionsAssumption, ActiveFinite DEF Abort, TypeOK, Req, Active, IsStored, stored
  <1>2. \A q \in Procs : q # p => req'[q] = req[q]
    BY DEF Abort, Throw, TypeOK
  <1>3. CASE ~InLoop(p, u)
    <2>1. /\ unenforced'[u] = unenforced[u]
          /\ \A q \in Procs : InLoop(q, u) => req'[q] = req[q]
      BY <1>2, <1>3 DEF Abort
    <2>2. QED
      BY <1>1, <2>1, CapFades
  <1>4. CASE InLoop(p, u)
    <2>1. unenforced'[u] = unenforced[u] + req[p].left
      BY <1>4 DEF Abort
    <2>2. CASE Cardinality(Active(u)) <= MaxSessions + unenforced[u]
      BY <1>1, <2>1, <2>2 DEF CapInv
    <2>3. ASSUME NEW q \in Procs, InLoop(q, u),
                 Cardinality(Active(u)) <= MaxSessions + unenforced[u] + Owed(q)
          PROVE  CapInv(u)'
      <3>1. Owed(q) \in {req[q].left, req[q].left - 1} /\ req[q].left \in Nat
        BY DEF Owed, TypeOK, Req
      <3>2. CASE q = p
        BY <1>1, <2>1, <2>3, <3>1, <3>2 DEF CapInv
      <3>3. CASE q # p
        <4>1. req'[q] = req[q]
          BY <1>2, <3>3
        <4>2. InLoop(q, u)' /\ Owed(q)' = Owed(q)
          <5>1. req[q].user = u
            BY <2>3 DEF InLoop
          <5>2. QED
            BY <1>1, <2>3, <4>1, <5>1 DEF InLoop, Owed
        <4>3. Cardinality(Active(u)') <= MaxSessions + unenforced'[u] + Owed(q)'
          BY <1>1, <2>1, <2>3, <3>1, <4>2
        <4>4. QED
          BY <4>2, <4>3 DEF CapInv
      <3>4. QED
        BY <3>2, <3>3
    <2>4. QED
      BY <2>2, <2>3 DEF CapInv
  <1>5. QED
    BY <1>3, <1>4

(* A running loop has at least one turn left. *)
LEMMA LoopsOweNext ==
    ASSUME TypeOK, LoopsOwe, [Next]_vars
    PROVE  LoopsOwe'
  <1>1. CASE req' = req
    BY <1>1 DEF LoopsOwe
  <1>2. ASSUME NEW p \in Procs, Begin(p) \/ Step(p) \/ Abort(p), NEW q \in Procs,
               req'[q].pc \in {"find", "evict"}
        PROVE  req'[q].left >= 1
    <2>1. CASE q # p
      <3>1. req'[q] = req[q]
        BY <1>2, <2>1 DEF TypeOK, Begin, Step, Abort, Throw, Respond, BeginLogin, IssueLogin,
           CountSessions, FindOldest, EvictOldest, NextTurn, RefreshAccepted, RefreshReused,
           RevokeReused, Rotate, Reissue, Link, BeginLogout, Logout
      <3>2. QED
        BY <1>2, <3>1 DEF LoopsOwe
    <2>2. CASE q = p
      <3>1. req[p] \in Req /\ Idle.pc = "idle"
        BY DEF TypeOK, Idle
      <3>2. CASE CountSessions(p)
        <4> DEFINE n == Cardinality(Active(req[p].user))
        <4>1. n > MaxSessions /\ req' = [req EXCEPT ![p] =
                                   [@ EXCEPT !.pc = "find", !.left = n - MaxSessions]]
          BY <1>2, <2>2, <3>1, <3>2 DEF CountSessions, Respond, TypeOK
        <4>2. req'[p].left = n - MaxSessions /\ n \in Nat /\ MaxSessions \in Nat
          BY <3>1, <4>1, ActiveFinite, SessionsAssumption DEF TypeOK, Req
        <4>3. QED
          BY <2>2, <4>1, <4>2
      <3>3. CASE (FindOldest(p) \/ EvictOldest(p)) /\ NextTurn(p)
        <4>1. req[p].left > 1 /\ req' = [req EXCEPT ![p] =
                 [@ EXCEPT !.pc = "find", !.left = req[p].left - 1, !.target = None]]
          BY <1>2, <2>2, <3>1, <3>3 DEF NextTurn, Respond, TypeOK
        <4>2. req'[p].left = req[p].left - 1 /\ req[p].left \in Nat
          BY <3>1, <4>1 DEF TypeOK, Req
        <4>3. QED
          BY <2>2, <4>1, <4>2
      <3>4. CASE FindOldest(p) /\ ~NextTurn(p)
        <4>1. req'[p].left = req[p].left /\ req[p].pc = "find"
          BY <3>1, <3>4 DEF FindOldest, TypeOK, Req
        <4>2. QED
          BY <2>2, <4>1 DEF LoopsOwe
      <3>5. CASE ~CountSessions(p) /\ ~FindOldest(p) /\ ~EvictOldest(p)
        <4>1. req'[p].pc \notin {"find", "evict"}
          <5>1. ASSUME NEW u, NEW t, NEW pc \in {"issue", "rotate", "reuse", "logout"},
                       \/ req' = [req EXCEPT ![p] = [Idle EXCEPT !.pc = pc, !.user = u]]
                       \/ req' = [req EXCEPT ![p] = [Idle EXCEPT !.pc = pc, !.token = t,
                                                                !.user = u]]
                PROVE  req'[p].pc \notin {"find", "evict"}
            BY <3>1, <5>1 DEF TypeOK, Idle
          <5>2. CASE req' = [req EXCEPT ![p] = Idle]
            BY <3>1, <5>2 DEF TypeOK
          <5>3. CASE IssueLogin(p) \/ Rotate(p) \/ Reissue(p)
            BY <3>1, <5>2, <5>3 DEF TypeOK, Req, IssueLogin, Rotate, Reissue, Throw
          <5>4. QED
            BY <1>2, <3>5, <5>1, <5>2, <5>3
               DEF Begin, BeginLogin, RefreshAccepted, RefreshReused, BeginLogout,
                   Step, Abort, Throw, Respond, Link, RevokeReused, Logout
        <4>2. QED
          BY <1>2, <2>2, <4>1
      <3>6. QED
        BY <3>2, <3>3, <3>4, <3>5 DEF EvictOldest
    <2>3. QED
      BY <2>1, <2>2
  <1>3. Background => req' = req
    BY DEF Background, RevokeSession, Age, SevenDaysPass, RevokeAllUserTokens,
           DeleteAccount, Cleanup
  <1>4. QED
    BY <1>1, <1>2, <1>3, NextSplit DEF LoopsOwe, vars

LEMMA SessionInvInit == Init => SessionInv
  <1> SUFFICES ASSUME Init PROVE SessionInv
    OBVIOUS
  <1>1. ASSUME NEW u \in Users PROVE CapInv(u)
    <2>1. Active(u) = {}
      BY DEF Init, Active, IsStored, Unissued, Blank
    <2>2. Cardinality(Active(u)) = 0 /\ MaxSessions \in Nat /\ unenforced[u] = 0
      BY <2>1, FS_EmptySet, SessionsAssumption DEF Init
    <2>3. QED
      BY <2>2 DEF CapInv
  <1>2. LoopsOwe
    BY DEF LoopsOwe, Init, Idle
  <1>3. QED
    BY <1>1, <1>2, TypeInit DEF SessionInv

LEMMA SessionInvNext == SessionInv /\ [Next]_vars => SessionInv'
  <1> SUFFICES ASSUME SessionInv, [Next]_vars PROVE SessionInv'
    OBVIOUS
  <1>1. TypeOK' /\ LoopsOwe' /\ TypeOK
    BY TypeNext, LoopsOweNext DEF SessionInv
  <1>2. ASSUME NEW u \in Users PROVE CapInv(u)'
    <2>1. CapInv(u)
      BY DEF SessionInv
    <2>2. CASE UNCHANGED vars
      <3>1. Active(u)' = Active(u)
        BY <2>2 DEF vars, Active, IsStored
      <3>2. QED
        BY <1>1, <2>1, <2>2, <3>1, CapFades DEF vars
    <2>3. CASE Background
      <3>1. unenforced' = unenforced /\ req' = req
        BY <2>3 DEF Background, RevokeSession, Age, SevenDaysPass, RevokeAllUserTokens,
           DeleteAccount, Cleanup
      <3>2. Active(u)' \subseteq Active(u)
        BY <1>1, <2>3, BackgroundFades, FadedActive DEF Fades
      <3>3. QED
        BY <1>1, <2>1, <3>1, <3>2, CapFades
    <2>4. ASSUME NEW p \in Procs, Begin(p) \/ Step(p) \/ Abort(p) PROVE CapInv(u)'
      <3>1. CASE Inserting(p) \/ CountSessions(p) \/ FindOldest(p) \/ EvictOldest(p) \/ Abort(p)
        BY <1>1, <3>1, CapInsert, CapCount, CapFind, CapEvict, CapAbort
      <3>2. CASE ~(Inserting(p) \/ CountSessions(p) \/ FindOldest(p) \/ EvictOldest(p)
                   \/ Abort(p))
        <4>1. Active(u)' \subseteq Active(u)
          BY <1>1, <2>4, <3>2, HandlerFades, LinkFades, FadedActive DEF Fades
        <4>2. /\ unenforced' = unenforced
              /\ \A q \in Procs : InLoop(q, u) => req'[q] = req[q]
          BY <1>1, <2>4, <3>2 DEF Begin, Step, Inserting, InLoop, TypeOK, BeginLogin,
             RefreshAccepted, RefreshReused, BeginLogout, Rotate, Link, RevokeReused,
             Logout, Throw, Respond
        <4>3. QED
          BY <1>1, <2>1, <4>1, <4>2, CapFades
      <3>3. QED
        BY <3>1, <3>2
    <2>5. QED
      BY <2>2, <2>3, <2>4, NextSplit
  <1>3. QED
    BY <1>1, <1>2 DEF SessionInv

(* Whatever the number of logins, refreshes, revocations and crashes that    *)
(* interleave: once no enforcement loop of a user runs, the active sessions  *)
(* exceed MaxSessions by no more than the inserts no login has counted yet.  *)
THEOREM SessionCapHolds == Spec => []SessionCap
  <1>1. SessionInv => SessionCap
    BY DEF SessionInv, CapInv, SessionCap
  <1>2. QED
    BY <1>1, SessionInvInit, SessionInvNext, PTL DEF Spec

-----------------------------------------------------------------------------
(* The rotation chain.  A handler writes replaced_by_token_id from what it    *)
(* read and inserted two statements earlier, so the invariant carries what    *)
(* the handler still relies on.                                               *)

(* A row that is not issued yet is blank; no row is newer than the clock. *)
RowsInOrder ==
    \A t \in Tokens : /\ row[t].st = "unissued" => row[t] = Unissued /\ parent[t] = None
                      /\ row[t].issuedAt <= clock

Links ==
    \A t \in Tokens : LET c == row[t].replacedBy IN
        c # None => /\ IsStored(t) /\ row[t].revoked
                    /\ parent[c] = t
                    /\ IsStored(c) => /\ row[c].user = row[t].user
                                      /\ row[c].issuedAt > row[t].issuedAt

(* What a rotation in flight knows of the row it exchanges and of the row it  *)
(* inserted.                                                                  *)
KnowsOld(table, r) ==
    /\ table[r.token].st # "unissued"
    /\ table[r.token].st = "stored" => /\ table[r.token].user = r.user
                                       /\ r.pc # "rotate" => table[r.token].revoked

KnowsNew(table, from, r) ==
    /\ table[r.target].st # "unissued"
    /\ from[r.target] = r.token
    /\ table[r.target].st = "stored" =>
          /\ table[r.target].user = r.user
          /\ table[r.token].st = "stored"
                => table[r.target].issuedAt > table[r.token].issuedAt

Rotations ==
    \A p \in Procs :
        /\ req[p].pc \in {"rotate", "reissue", "link"} => KnowsOld(row, req[p])
        /\ req[p].pc = "link" => KnowsNew(row, parent, req[p])

ChainInv == TypeOK /\ RowsInOrder /\ Links /\ Rotations

LEMMA ChainInit == Init => ChainInv
  <1> SUFFICES ASSUME Init PROVE ChainInv
    OBVIOUS
  <1>1. \A t \in Tokens : row[t] = Unissued
    BY DEF Init
  <1>2. /\ Unissued.st = "unissued" /\ Unissued.issuedAt = 0 /\ Unissued.replacedBy = None
        /\ Idle.pc = "idle"
    BY DEF Unissued, Blank, Idle
  <1>3. RowsInOrder
    BY <1>1, <1>2 DEF Init, RowsInOrder
  <1>4. Links
    BY <1>1, <1>2 DEF Links
  <1>5. Rotations
    BY <1>2 DEF Init, Rotations
  <1>6. QED
    BY <1>3, <1>4, <1>5, TypeInit DEF ChainInv

(* Rows that fade keep their links, and the handlers what they know. *)
LEMMA FadedFacts ==
    ASSUME TypeOK, NEW t \in Tokens, FadesOrLinks(t)
    PROVE  /\ row'[t].st = "unissued" <=> row[t].st = "unissued"
           /\ row[t].st = "unissued" => row'[t] = row[t]
           /\ IsStored(t)' => /\ IsStored(t)
                              /\ row'[t].user = row[t].user
                              /\ row'[t].issuedAt = row[t].issuedAt
                              /\ row[t].revoked => row'[t].revoked
           /\ row'[t].issuedAt \in {row[t].issuedAt, 0}
           /\ ~IsStored(t)' => row'[t] = row[t] \/ row'[t].replacedBy = None
  BY DEF FadesOrLinks, IsStored, Deleted, Blank, TypeOK, TableOK, Row

LEMMA KnowsFades ==
    ASSUME TypeOK, \A t \in Tokens : FadesOrLinks(t), NEW r, r.token \in Tokens,
           UNCHANGED parent
    PROVE  /\ KnowsOld(row, r) => KnowsOld(row', r)
           /\ r.target \in Tokens /\ KnowsNew(row, parent, r) => KnowsNew(row', parent', r)
  <1>1. KnowsOld(row, r) => KnowsOld(row', r)
    BY FadedFacts DEF KnowsOld, IsStored
  <1>2. r.target \in Tokens /\ KnowsNew(row, parent, r) => KnowsNew(row', parent', r)
    BY FadedFacts DEF KnowsNew, IsStored
  <1>3. QED
    BY <1>1, <1>2

LEMMA OrderFades ==
    ASSUME ChainInv, \A t \in Tokens : FadesOrLinks(t), UNCHANGED <<clock, parent>>
    PROVE  RowsInOrder'
  <1>1. \A t \in Tokens : row[t].issuedAt \in Nat /\ clock \in Nat
    BY DEF ChainInv, TypeOK, TableOK, Row
  <1>2. QED
    BY <1>1, FadedFacts DEF ChainInv, RowsInOrder

LEMMA LinksFade ==
    ASSUME ChainInv, \A t \in Tokens : Fades(t), UNCHANGED parent
    PROVE  Links'
  <1> SUFFICES ASSUME NEW t \in Tokens, NEW c, c = row'[t].replacedBy, c # None
               PROVE  /\ IsStored(t)' /\ row'[t].revoked
                      /\ parent'[c] = t
                      /\ IsStored(c)' => /\ row'[c].user = row'[t].user
                                         /\ row'[c].issuedAt > row'[t].issuedAt
    BY DEF Links
  <1>1. c = row[t].replacedBy /\ c \in Tokens
    BY DEF Fades, ChainInv, TypeOK, TableOK, Row
  <1>2. /\ IsStored(t) /\ row[t].revoked /\ parent[c] = t
        /\ IsStored(c) => /\ row[c].user = row[t].user
                          /\ row[c].issuedAt > row[t].issuedAt
    BY <1>1 DEF ChainInv, Links
  <1>3. IsStored(t)'
    BY <1>2 DEF Fades, FadesOrLinks, Deleted, Blank, IsStored
  <1>4. QED
    BY <1>1, <1>2, <1>3, FadedFacts DEF ChainInv, Fades

(* A new row is newer than all others and nothing refers to it yet. *)
LEMMA ChainCreate ==
    ASSUME ChainInv, TypeOK', NEW t \in Tokens, NEW u \in Users,
           NEW from \in Tokens \cup {None}, Create(t, u, from)
    PROVE  /\ RowsInOrder' /\ Links'
           /\ \A r \in Req : r.token \in Tokens /\ KnowsOld(row, r) => KnowsOld(row', r) /\ r.token # t
           /\ \A r \in Req : (r.token \in Tokens /\ r.target \in Tokens
                              /\ KnowsOld(row, r) /\ KnowsNew(row, parent, r))
                                => KnowsNew(row', parent', r)
           /\ row'[t] = Blank("stored", u, clock + 1) /\ parent'[t] = from
           /\ \A s \in Tokens : s # t => row'[s] = row[s] /\ parent'[s] = parent[s]
  <1>1. /\ row'[t] = Blank("stored", u, clock + 1) /\ parent'[t] = from
        /\ \A s \in Tokens : s # t => row'[s] = row[s] /\ parent'[s] = parent[s]
        /\ clock' = clock + 1 /\ clock \in Nat /\ row[t].st = "unissued"
    BY DEF Create, ChainInv, TypeOK, TableOK
  <1>2. /\ row'[t].st = "stored" /\ row'[t].issuedAt = clock + 1
        /\ row'[t].replacedBy = None /\ row'[t].user = u
    BY <1>1 DEF Blank
  <1>3. \A s \in Tokens : row[s].issuedAt <= clock /\ row[s].issuedAt \in Nat
    BY DEF ChainInv, RowsInOrder, TypeOK, TableOK, Row
  <1>4. RowsInOrder'
    BY <1>1, <1>2, <1>3 DEF RowsInOrder, ChainInv
  <1>5. ASSUME NEW s \in Tokens, NEW c, c = row'[s].replacedBy, c # None
        PROVE  /\ IsStored(s)' /\ row'[s].revoked
               /\ parent'[c] = s
               /\ IsStored(c)' => /\ row'[c].user = row'[s].user
                                  /\ row'[c].issuedAt > row'[s].issuedAt
    <2>1. s # t /\ row'[s] = row[s]
      BY <1>1, <1>2, <1>5
    <2>2. /\ IsStored(s) /\ row[s].revoked /\ parent[c] = s /\ c \in Tokens
          /\ IsStored(c) => /\ row[c].user = row[s].user
                            /\ row[c].issuedAt > row[s].issuedAt
      BY <1>5, <2>1 DEF ChainInv, Links, TypeOK, TableOK, Row
    <2>3. c # t
      BY <1>1, <2>2, SessionsAssumption DEF ChainInv, RowsInOrder
    <2>4. QED
      BY <1>1, <2>1, <2>2, <2>3 DEF IsStored
  <1>6. Links'
    BY <1>5 DEF Links
  <1>7. ASSUME NEW r \in Req, r.token \in Tokens, KnowsOld(row, r) PROVE KnowsOld(row', r) /\ r.token # t
    BY <1>1, <1>7 DEF KnowsOld, IsStored
  <1>8. ASSUME NEW r \in Req, r.token \in Tokens, r.target \in Tokens, KnowsOld(row, r), KnowsNew(row, parent, r)
        PROVE  KnowsNew(row', parent', r)
    BY <1>1, <1>7, <1>8 DEF KnowsNew, IsStored
  <1>9. /\ \A r \in Req : r.token \in Tokens /\ KnowsOld(row, r)
                           => KnowsOld(row', r) /\ r.token # t
        /\ \A r \in Req : /\ r.token \in Tokens /\ r.target \in Tokens
                          /\ KnowsOld(row, r) /\ KnowsNew(row, parent, r)
                          => KnowsNew(row', parent', r)
    BY <1>7, <1>8
  <1>10. QED
    BY <1>1, <1>4, <1>6, <1>9

LEMMA ChainInsert ==
    ASSUME ChainInv, TypeOK', NEW p \in Procs, Inserting(p), row' # row
    PROVE  ChainInv'
  <1>1. req[p] \in Req /\ Remembers(req[p]) /\ req[p].user \in Users
    BY InsertRow DEF ChainInv, TypeOK
  <1>2. \A q \in Procs : q # p => req'[q] = req[q]
    BY DEF Inserting, IssueLogin, Reissue, Throw, ChainInv, TypeOK
  <1>3. ASSUME NEW q \in Procs, q # p
        PROVE  /\ req'[q] = req[q] /\ req[q] \in Req
               /\ req[q].pc \in {"rotate", "reissue", "link"} =>
                     req[q].token \in Tokens /\ KnowsOld(row, req[q])
               /\ req[q].pc = "link" => req[q].target \in Tokens /\ KnowsNew(row, parent, req[q])
    BY <1>2, <1>3 DEF ChainInv, TypeOK, Remembers, Rotations
  <1>4. CASE IssueLogin(p)
    <2>1. PICK t \in Tokens :
             /\ Create(t, req[p].user, None)
             /\ req' = [req EXCEPT ![p] = [@ EXCEPT !.pc = "count", !.token = t]]
      BY <1>4 DEF IssueLogin, stored
    <2>2. req'[p].pc = "count"
      BY <1>1, <2>1 DEF ChainInv, TypeOK, Req
    <2>3. Rotations'
      BY <1>1, <1>3, <2>1, <2>2, ChainCreate DEF Rotations
    <2>4. QED
      BY <1>1, <2>1, <2>3, ChainCreate DEF ChainInv
  <1>5. CASE Reissue(p)
    <2>1. PICK t \in Tokens :
             /\ Create(t, req[p].user, req[p].token)
             /\ req' = [req EXCEPT ![p] = [@ EXCEPT !.pc = "link", !.target = t]]
      BY <1>5 DEF Reissue, stored
    <2>2. /\ req'[p].pc = "link" /\ req'[p].target = t /\ req'[p].token = req[p].token
          /\ req'[p].user = req[p].user /\ req[p].token \in Tokens /\ req[p].pc = "reissue"
      BY <1>1, <1>5, <2>1 DEF ChainInv, TypeOK, Req, Remembers, Reissue
    <2>3. KnowsOld(row, req[p]) /\ KnowsOld(row', req[p]) /\ req[p].token # t
      BY <1>1, <2>1, <2>2, ChainCreate DEF ChainInv, Rotations
    <2>4. KnowsOld(row', req'[p])
      BY <2>2, <2>3 DEF KnowsOld
    <2>5. KnowsNew(row', parent', req'[p])
      <3>1. /\ row'[t] = Blank("stored", req[p].user, clock + 1)
            /\ parent'[t] = req[p].token
            /\ row'[req[p].token] = row[req[p].token]
        BY <1>1, <2>1, <2>2, <2>3, ChainCreate
      <3>2. /\ row'[t].st = "stored" /\ row'[t].user = req[p].user
            /\ row'[t].issuedAt = clock + 1
        BY <3>1 DEF Blank
      <3>3. row[req[p].token].issuedAt <= clock /\ row[req[p].token].issuedAt \in Nat /\ clock \in Nat
        BY <2>2 DEF ChainInv, RowsInOrder, TypeOK, TableOK, Row
      <3>4. QED
        BY <2>2, <3>1, <3>2, <3>3 DEF KnowsNew
    <2>6. Rotations'
      <3>1. ASSUME NEW q \in Procs, q # p
            PROVE  /\ req'[q].pc \in {"rotate", "reissue", "link"} => KnowsOld(row', req'[q])
                   /\ req'[q].pc = "link" => KnowsNew(row', parent', req'[q])
        BY <1>1, <1>3, <2>1, <2>2, <3>1, ChainCreate
      <3>2. QED
        BY <2>2, <2>4, <2>5, <3>1 DEF Rotations
    <2>7. QED
      BY <1>1, <2>1, <2>2, <2>6, ChainCreate DEF ChainInv
  <1>6. QED
    BY <1>4, <1>5 DEF Inserting

(* Every other step of a handler: rows fade or are linked. *)
LEMMA RotationsStep ==
    ASSUME ChainInv, TypeOK', NEW p \in Procs, Begin(p) \/ Step(p) \/ Abort(p),
           ~(Inserting(p) /\ row' # row), \A t \in Tokens : FadesOrLinks(t)
    PROVE  Rotations' /\ UNCHANGED <<clock, parent>>
  <1>1. req[p] \in Req /\ Remembers(req[p])
    BY DEF ChainInv, TypeOK
  <1>2. ASSUME NEW t \in Tokens, NEW v, NEW from, Create(t, v, from) PROVE row' # row
    BY <1>2 DEF Create, Blank, ChainInv, TypeOK, TableOK
  <1>3. UNCHANGED <<clock, parent>>
    BY <1>2 DEF Begin, Step, Abort, Inserting, stored, BeginLogin, IssueLogin, CountSessions,
       FindOldest, EvictOldest, RefreshAccepted, RefreshReused, RevokeReused, Rotate,
       Reissue, Link, BeginLogout, Logout
  <1>4. ASSUME NEW q \in Procs, req'[q] = req[q]
        PROVE  /\ req'[q].pc \in {"rotate", "reissue", "link"} => KnowsOld(row', req'[q])
               /\ req'[q].pc = "link" => KnowsNew(row', parent', req'[q])
    <2>1. /\ req[q] \in Req
          /\ req[q].pc \in {"rotate", "reissue", "link"} =>
                req[q].token \in Tokens /\ KnowsOld(row, req[q])
          /\ req[q].pc = "link" => req[q].target \in Tokens /\ KnowsNew(row, parent, req[q])
      BY DEF ChainInv, TypeOK, Remembers, Rotations
    <2>2. QED
      BY <1>3, <1>4, <2>1, KnowsFades DEF ChainInv
  <1>5. \A q \in Procs : q # p => req'[q] = req[q]
    BY DEF Begin, Step, Abort, BeginLogin, IssueLogin, CountSessions, FindOldest, EvictOldest,
       NextTurn, RefreshAccepted, RefreshReused, RevokeReused, Rotate, Reissue, Link,
       BeginLogout, Logout, Throw, Respond, ChainInv, TypeOK
  <1>6. CASE \E t \in Tokens : RefreshAccepted(p, t)
    <2>1. PICK t \in Tokens : RefreshAccepted(p, t)
      BY <1>6
    <2>2. /\ req'[p] = [Idle EXCEPT !.pc = "rotate", !.token = t, !.user = row[t].user]
          /\ row' = row /\ IsStored(t)
      BY <1>1, <2>1 DEF RefreshAccepted, stored, ChainInv, TypeOK
    <2>3. req'[p].pc = "rotate" /\ req'[p].token = t /\ req'[p].user = row[t].user
      BY <2>2 DEF Idle
    <2>4. QED
      BY <1>3, <1>4, <1>5, <2>2, <2>3 DEF Rotations, KnowsOld, IsStored
  <1>7. CASE Rotate(p)
    <2>1. /\ req'[p].pc = "reissue" /\ req'[p].token = req[p].token
          /\ req'[p].user = req[p].user /\ req[p].token \in Tokens /\ req[p].pc = "rotate"
      BY <1>1, <1>7 DEF Rotate, Req, Remembers, ChainInv, TypeOK
    <2>2. KnowsOld(row, req[p])
      BY <2>1 DEF ChainInv, Rotations
    <2>3. RevokeToken(req[p].token)
      BY <1>7 DEF Rotate
    <2>4. KnowsOld(row', req'[p])
      BY <2>1, <2>2, <2>3, RevokeTokenFades, FadedFacts
         DEF KnowsOld, IsStored, ChainInv
    <2>5. QED
      BY <1>3, <1>4, <1>5, <2>1, <2>4 DEF Rotations
  <1>8. CASE ~Rotate(p) /\ ~(\E t \in Tokens : RefreshAccepted(p, t))
    <2>1. req'[p] = req[p] \/ req'[p].pc \notin {"rotate", "reissue", "link"}
      <3>1. req \in [Procs -> Req] /\ Idle.pc = "idle"
        BY DEF ChainInv, TypeOK, Idle
      <3>2. CASE req' = [req EXCEPT ![p] = Idle]
        BY <3>1, <3>2
      <3>3. CASE \E u \in Users : BeginLogin(p, u)
        BY <3>1, <3>3 DEF BeginLogin, Idle
      <3>4. CASE \E t \in Tokens : RefreshReused(p, t) \/ BeginLogout(p, t)
        <4>1. PICK t \in Tokens : RefreshReused(p, t) \/ BeginLogout(p, t)
          BY <3>4
        <4>2. \E pc \in {"reuse", "logout"} :
                 req'[p] = [Idle EXCEPT !.pc = pc, !.token = t, !.user = row[t].user]
          BY <3>1, <4>1 DEF RefreshReused, BeginLogout
        <4>3. QED
          BY <4>2 DEF Idle
      <3>5. CASE IssueLogin(p) \/ Reissue(p)
        BY <1>1, <1>2, <3>1, <3>2, <3>5 DEF IssueLogin, Reissue, Inserting, Throw, Req
      <3>6. CASE CountSessions(p)
        BY <1>1, <3>1, <3>2, <3>6 DEF CountSessions, Respond, Req
      <3>7. CASE FindOldest(p) \/ EvictOldest(p)
        <4>1. CASE NextTurn(p)
          <5>1. CASE req' = [req EXCEPT ![p] =
                   [@ EXCEPT !.pc = "find", !.left = req[p].left - 1, !.target = None]]
            BY <1>1, <3>1, <5>1 DEF Req
          <5>2. QED
            BY <3>2, <4>1, <5>1 DEF NextTurn, Respond
        <4>2. CASE ~NextTurn(p)
          BY <1>1, <3>1, <3>7, <4>2 DEF FindOldest, EvictOldest, Req
        <4>3. QED
          BY <4>1, <4>2
      <3>8. QED
        BY <1>8, <3>2, <3>3, <3>4, <3>5, <3>6, <3>7
           DEF Begin, Step, Link, RevokeReused, Logout, Abort, Throw, Respond
    <2>2. QED
      BY <1>3, <1>4, <1>5, <2>1 DEF Rotations
  <1>9. QED
    BY <1>6, <1>7, <1>8

(* setReplacedBy links a revoked row to the row inserted for it. *)
LEMMA LinkLinks ==
    ASSUME ChainInv, TypeOK', NEW p \in Procs, Link(p)
    PROVE  Links'
  <1>1. /\ req[p].token \in Tokens /\ req[p].target \in Tokens /\ req[p].pc = "link"
        /\ KnowsOld(row, req[p]) /\ KnowsNew(row, parent, req[p]) /\ UNCHANGED parent
    BY DEF ChainInv, TypeOK, Remembers, Rotations, Link
  <1>2. ASSUME NEW s \in Tokens
        PROVE  /\ row'[s].st = row[s].st /\ row'[s].user = row[s].user
               /\ row'[s].revoked = row[s].revoked /\ row'[s].issuedAt = row[s].issuedAt
               /\ row'[s].replacedBy = IF s = req[p].token /\ IsStored(s)
                                       THEN req[p].target ELSE row[s].replacedBy
    <2>1. row[s] \in Row
      BY DEF ChainInv, TypeOK, TableOK
    <2>2. QED
      BY <1>1, <2>1 DEF Link, ChainInv, TypeOK, TableOK, Row, IsStored
  <1>3. ASSUME NEW t \in Tokens, NEW c, c = row'[t].replacedBy, c # None
        PROVE  /\ IsStored(t)' /\ row'[t].revoked
               /\ parent'[c] = t
               /\ IsStored(c)' => /\ row'[c].user = row'[t].user
                                  /\ row'[c].issuedAt > row'[t].issuedAt
    <2>0. c \in Tokens
      BY <1>3 DEF TypeOK, TableOK, Row
    <2>1. CASE t = req[p].token /\ IsStored(t)
      BY <1>1, <1>2, <1>3, <2>0, <2>1 DEF KnowsOld, KnowsNew, IsStored
    <2>2. CASE ~(t = req[p].token /\ IsStored(t))
      <3>1. c = row[t].replacedBy
        BY <1>2, <1>3, <2>2
      <3>2. QED
        BY <1>1, <1>2, <1>3, <2>0, <3>1 DEF ChainInv, Links, IsStored
    <2>3. QED
      BY <2>1, <2>2
  <1>4. QED
    BY <1>3 DEF Links

LEMMA ChainNext == ChainInv /\ [Next]_vars => ChainInv'
  <1> SUFFICES ASSUME ChainInv, [Next]_vars PROVE ChainInv'
    OBVIOUS
  <1>1. TypeOK /\ TypeOK'
    BY TypeNext DEF ChainInv
  <1>2. CASE UNCHANGED vars
    BY <1>2 DEF vars, ChainInv, TypeOK, TableOK, IsStored, RowsInOrder, Links, Rotations
  <1>3. CASE Background
    <2>1. UNCHANGED <<req, clock, parent>>
      BY <1>3 DEF Background, RevokeSession, Age, SevenDaysPass, RevokeAllUserTokens,
         DeleteAccount, Cleanup
    <2>2. \A t \in Tokens : Fades(t) /\ FadesOrLinks(t)
      BY <1>1, <1>3, BackgroundFades DEF Fades
    <2>3. ASSUME NEW q \in Procs
          PROVE  /\ req'[q].pc \in {"rotate", "reissue", "link"} => KnowsOld(row', req'[q])
                 /\ req'[q].pc = "link" => KnowsNew(row', parent', req'[q])
      <3>1. /\ req[q] \in Req /\ req'[q] = req[q]
            /\ req[q].pc \in {"rotate", "reissue", "link"} =>
                  req[q].token \in Tokens /\ KnowsOld(row, req[q])
            /\ req[q].pc = "link" =>
                  req[q].target \in Tokens /\ KnowsNew(row, parent, req[q])
        BY <2>1 DEF ChainInv, TypeOK, Remembers, Rotations
      <3>2. QED
        BY <1>1, <2>1, <2>2, <3>1, KnowsFades
    <2>4. QED
      BY <1>1, <2>1, <2>2, <2>3, OrderFades, LinksFade DEF ChainInv, Rotations
  <1>4. ASSUME NEW p \in Procs, Begin(p) \/ Step(p) \/ Abort(p) PROVE ChainInv'
    <2>1. CASE Inserting(p) /\ row' # row
      BY <1>1, <2>1, ChainInsert
    <2>2. CASE Link(p)
      <3>1. \A t \in Tokens : FadesOrLinks(t)
        BY <1>1, <2>2, LinkFades
      <3>2. ~(Inserting(p) /\ row' # row)
        BY <2>2 DEF Inserting, Link, IssueLogin, Reissue
      <3>3. QED
        BY <1>1, <1>4, <2>2, <3>1, <3>2, RotationsStep, OrderFades, LinkLinks DEF ChainInv
    <2>3. CASE ~Link(p) /\ ~(Inserting(p) /\ row' # row)
      <3>1. \A t \in Tokens : Fades(t)
        <4>1. CASE row' = row
          BY <4>1 DEF Fades, FadesOrLinks
        <4>2. QED
          BY <1>1, <1>4, <2>3, <4>1, HandlerFades
      <3>2. \A t \in Tokens : FadesOrLinks(t)
        BY <3>1 DEF Fades
      <3>3. QED
        BY <1>1, <1>4, <2>3, <3>1, <3>2, RotationsStep, OrderFades, LinksFade DEF ChainInv
    <2>4. QED
      BY <2>1, <2>2, <2>3
  <1>5. QED
    BY <1>2, <1>3, <1>4, NextSplit

(* Concurrent rotations of one token, revocations and deletions in between:  *)
(* the links that setReplacedBy writes late never lead astray.               *)
THEOREM RotationChainHolds == Spec => []RotationChain
  <1>1. ChainInv => RotationChain
    BY DEF ChainInv, Links, RotationChain
  <1>2. QED
    BY <1>1, ChainInit, ChainNext, PTL DEF Spec


-----------------------------------------------------------------------------
(* What a handler does to its own memory and to the tokens of the clients:   *)
(* it inserts a row, goes on without one, fails, or answers with the row it   *)
(* has inserted.                                                             *)

Counting == {"count", "find", "evict"}
Presents == {"rotate", "reissue", "link", "reuse", "logout"}

(* The row a handler has inserted and will answer with. *)
Made(r) == IF r.pc \in Counting THEN r.token
           ELSE IF r.pc = "link" THEN r.target ELSE None

Issued(t) == row[t].st # "unissued"
Revoked(t) == IsStored(t) => row[t].revoked

Others(p) == \A q \in Procs : q # p => req'[q] = req[q]

Inserts(p, t) ==
    /\ ~Issued(t) /\ Issued(t)'
    /\ \A s \in Tokens : s # t => row'[s] = row[s]
    /\ \/ /\ req[p].pc = "issue" /\ req'[p].pc = "count" /\ req'[p].token = t
          /\ parent' = [parent EXCEPT ![t] = None]
       \/ /\ req[p].pc = "reissue" /\ req'[p].pc = "link" /\ req'[p].target = t
          /\ req'[p].token = req[p].token
          /\ parent' = [parent EXCEPT ![t] = req[p].token]
    /\ handed' = handed

GoesOn(p) ==
    /\ \/ req[p].pc \in Counting /\ req'[p].pc \in {"find", "evict"}
       \/ req[p].pc = "rotate" /\ req'[p].pc = "reissue" /\ Revoked(req[p].token)'
    /\ req'[p].token = req[p].token
    /\ \A t \in Tokens : FadesOrLinks(t)
    /\ handed' = handed /\ parent' = parent

Fails(p) ==
    /\ req[p].pc \in {"issue", "reissue", "reuse", "logout"}
    /\ req[p].pc = "logout" /\ row'[req[p].token].st = "stored" => row'[req[p].token].revoked
    /\ req'[p] = Idle
    /\ \A t \in Tokens : FadesOrLinks(t)
    /\ handed' = handed /\ parent' = parent

Answers(p) ==
    /\ req[p].pc \in Counting \cup {"link"}
    /\ Made(req[p]) \in Tokens
    /\ req'[p] = Idle
    /\ \A t \in Tokens : FadesOrLinks(t)
    /\ handed' = handed \cup {Made(req[p])} /\ parent' = parent

LEMMA OthersRest ==
    ASSUME TypeOK, NEW p \in Procs, Begin(p) \/ Step(p) \/ Abort(p)
    PROVE  Others(p)
  BY DEF Begin, Step, Abort, BeginLogin, IssueLogin, CountSessions, FindOldest, EvictOldest,
     NextTurn, RefreshAccepted, RefreshReused, RevokeReused, Rotate, Reissue, Link,
     BeginLogout, Logout, Throw, Respond, TypeOK, Others

LEMMA TurnShape ==
    ASSUME TypeOK, NEW p \in Procs, req[p].pc \in {"find", "evict"}, NextTurn(p),
           \A t \in Tokens : FadesOrLinks(t), parent' = parent
    PROVE  GoesOn(p) \/ Answers(p)
  <1>1. req[p] \in Req /\ req[p].token \in Tokens /\ req \in [Procs -> Req]
    BY DEF TypeOK, Remembers
  <1>2. CASE /\ req' = [req EXCEPT ![p] = [@ EXCEPT !.pc = "find", !.left = req[p].left - 1,
                                                    !.target = None]]
             /\ UNCHANGED handed
    <2>1. req'[p].pc = "find" /\ req'[p].token = req[p].token
      BY <1>1, <1>2 DEF Req
    <2>2. QED
      BY <1>2, <2>1 DEF GoesOn, Counting
  <1>3. CASE Respond(p, req[p].token)
    BY <1>1, <1>3 DEF Respond, Answers, Made, Counting
  <1>4. QED
    BY <1>2, <1>3 DEF NextTurn

LEMMA InsertShape ==
    ASSUME TypeOK, NEW p \in Procs, Inserting(p)
    PROVE  Fails(p) \/ \E t \in Tokens : Inserts(p, t)
  <1>1. req[p] \in Req /\ Remembers(req[p]) /\ req \in [Procs -> Req]
    BY DEF TypeOK
  <1>2. ASSUME NEW t \in Tokens, NEW u, NEW from, Create(t, u, from)
        PROVE  /\ ~Issued(t) /\ Issued(t)' /\ \A s \in Tokens : s # t => row'[s] = row[s]
               /\ parent' = [parent EXCEPT ![t] = from]
    BY <1>2 DEF Create, Blank, Issued, TypeOK, TableOK
  <1>3. CASE IssueLogin(p)
    <2>1. CASE \E t \in Tokens :
                 /\ Create(t, req[p].user, None)
                 /\ req' = [req EXCEPT ![p] = [@ EXCEPT !.pc = "count", !.token = t]]
      <3>1. PICK t \in Tokens :
                 /\ Create(t, req[p].user, None)
                 /\ req' = [req EXCEPT ![p] = [@ EXCEPT !.pc = "count", !.token = t]]
        BY <2>1
      <3>2. req'[p].pc = "count" /\ req'[p].token = t
        BY <1>1, <3>1 DEF Req
      <3>3. handed' = handed /\ req[p].pc = "issue"
        BY <1>3 DEF IssueLogin, stored
      <3>4. QED
        BY <1>2, <3>1, <3>2, <3>3 DEF Inserts
    <2>2. CASE Throw(p) /\ UNCHANGED <<stored, aborts, parent, unenforced>>
      BY <1>1, <1>3, <2>2 DEF IssueLogin, Throw, Fails, stored, FadesOrLinks
    <2>3. QED
      BY <1>3, <2>1, <2>2 DEF IssueLogin
  <1>4. CASE Reissue(p)
    <2>1. CASE \E t \in Tokens :
                 /\ Create(t, req[p].user, req[p].token)
                 /\ req' = [req EXCEPT ![p] = [@ EXCEPT !.pc = "link", !.target = t]]
      <3>1. PICK t \in Tokens :
                 /\ Create(t, req[p].user, req[p].token)
                 /\ req' = [req EXCEPT ![p] = [@ EXCEPT !.pc = "link", !.target = t]]
        BY <2>1
      <3>2. req'[p].pc = "link" /\ req'[p].target = t /\ req'[p].token = req[p].token
        BY <1>1, <3>1 DEF Req
      <3>3. handed' = handed /\ req[p].pc = "reissue"
        BY <1>4 DEF Reissue, stored
      <3>4. QED
        BY <1>2, <3>1, <3>2, <3>3 DEF Inserts
    <2>2. CASE Throw(p) /\ UNCHANGED <<stored, aborts, parent, unenforced>>
      BY <1>1, <1>4, <2>2 DEF Reissue, Throw, Fails, stored, FadesOrLinks
    <2>3. QED
      BY <1>4, <2>1, <2>2 DEF Reissue
  <1>5. QED
    BY <1>3, <1>4 DEF Inserting

LEMMA StepShape ==
    ASSUME TypeOK, NEW p \in Procs, Step(p)
    PROVE  \/ \E t \in Tokens : Inserts(p, t)
           \/ GoesOn(p) \/ Fails(p) \/ Answers(p)
  <1>1. req[p] \in Req /\ Remembers(req[p]) /\ req \in [Procs -> Req]
    BY DEF TypeOK
  <1>2. CASE Inserting(p)
    BY <1>2, InsertShape
  <1>3. CASE Link(p)
    <2>1. \A t \in Tokens : FadesOrLinks(t)
      BY <1>3, LinkFades
    <2>2. req[p].target \in Tokens /\ req[p].pc = "link"
      BY <1>1, <1>3 DEF Link, Remembers
    <2>3. Answers(p)
      BY <1>1, <1>3, <2>1, <2>2 DEF Link, Respond, Answers, Made, Counting
    <2>4. QED
      BY <2>3
  <1>4. CASE ~Inserting(p) /\ ~Link(p)
    <2>1. \A t \in Tokens : FadesOrLinks(t)
      BY <1>4, HandlerFades DEF Fades
    <2>2. CASE CountSessions(p)
      <3>1. req[p].pc = "count" /\ req[p].token \in Tokens /\ parent' = parent
        BY <1>1, <2>2 DEF CountSessions, Remembers
      <3>2. CASE Respond(p, req[p].token)
        BY <1>1, <2>1, <3>1, <3>2 DEF Respond, Answers, Made, Counting
      <3>3. CASE ~Respond(p, req[p].token)
        <4>1. req'[p].pc = "find" /\ req'[p].token = req[p].token /\ handed' = handed
          BY <1>1, <2>2, <3>3 DEF CountSessions, Req
        <4>2. QED
          BY <2>1, <3>1, <4>1 DEF GoesOn, Counting
      <3>4. QED
        BY <3>2, <3>3
    <2>3. CASE FindOldest(p)
      <3>1. req[p].pc = "find" /\ parent' = parent
        BY <2>3 DEF FindOldest
      <3>2. CASE NextTurn(p)
        BY <2>1, <3>1, <3>2, TurnShape
      <3>3. CASE ~NextTurn(p)
        <4>1. req'[p].pc = "evict" /\ req'[p].token = req[p].token /\ handed' = handed
          BY <1>1, <2>3, <3>3 DEF FindOldest, Req
        <4>2. QED
          BY <2>1, <3>1, <4>1 DEF GoesOn, Counting
      <3>4. QED
        BY <3>2, <3>3
    <2>4. CASE EvictOldest(p)
      <3>1. req[p].pc = "evict" /\ NextTurn(p) /\ parent' = parent
        BY <2>4 DEF EvictOldest
      <3>2. QED
        BY <2>1, <3>1, TurnShape
    <2>5. CASE Rotate(p)
      <3>1. req[p].token \in Tokens /\ req[p].pc = "rotate"
        BY <1>1, <2>5 DEF Rotate, Remembers
      <3>2. req'[p].pc = "reissue" /\ req'[p].token = req[p].token
        BY <1>1, <2>5 DEF Rotate, Req
      <3>3. Revoked(req[p].token)'
        <4>1. IsStored(req[p].token) => row'[req[p].token].revoked
          BY <2>5, <3>1, RevokeTokenFades DEF Rotate
        <4>2. ~IsStored(req[p].token) => ~IsStored(req[p].token)'
          BY <2>5 DEF Rotate, RevokeToken, IsStored
        <4>3. QED
          BY <3>2, <4>1, <4>2 DEF Revoked, IsStored
      <3>4. QED
        BY <2>1, <2>5, <3>1, <3>2, <3>3 DEF Rotate, GoesOn
    <2>6. CASE Logout(p)
      <3>1. req[p].token \in Tokens /\ req[p].pc = "logout"
        BY <1>1, <2>6 DEF Logout, Remembers
      <3>2. IsStored(req[p].token) => row'[req[p].token].revoked
        BY <2>6, <3>1, RevokeTokenFades DEF Logout
      <3>3. ~IsStored(req[p].token) => ~(row'[req[p].token].st = "stored")
        BY <2>6 DEF Logout, RevokeToken, IsStored
      <3>4. req'[p] = Idle /\ handed' = handed /\ parent' = parent
        BY <1>1, <2>6 DEF Logout, Throw
      <3>5. row'[req[p].token].st = "stored" => row'[req[p].token].revoked
        BY <3>2, <3>3
      <3>6. QED
        BY <2>1, <3>1, <3>4, <3>5 DEF Fails
    <2>7. CASE RevokeReused(p)
      BY <1>1, <2>1, <2>7 DEF RevokeReused, Throw, Fails
    <2>8. QED
      BY <1>4, <2>2, <2>3, <2>4, <2>5, <2>6, <2>7 DEF Step, Inserting
  <1>5. QED
    BY <1>2, <1>3, <1>4

LEMMA BeginShape ==
    ASSUME TypeOK, NEW p \in Procs, Begin(p)
    PROVE  /\ req[p].pc = "idle" /\ row' = row /\ handed' = handed /\ parent' = parent
           /\ \/ req'[p].pc = "issue"
              \/ /\ req'[p].pc \in {"rotate", "reuse", "logout"}
                 /\ req'[p].token \in handed
                 /\ req'[p].pc = "reuse" => Revoked(req'[p].token)
  <1>0. req \in [Procs -> Req]
    BY DEF TypeOK
  <1>1. ASSUME NEW u \in Users, BeginLogin(p, u)
        PROVE  /\ req[p].pc = "idle" /\ row' = row /\ handed' = handed /\ parent' = parent
               /\ req'[p].pc = "issue"
    BY <1>0, <1>1 DEF BeginLogin, Idle, stored
  <1>2. ASSUME NEW t \in Tokens, RefreshAccepted(p, t) \/ BeginLogout(p, t)
        PROVE  /\ req[p].pc = "idle" /\ row' = row /\ handed' = handed /\ parent' = parent
               /\ req'[p].pc \in {"rotate", "logout"} /\ req'[p].token \in handed
    BY <1>0, <1>2 DEF RefreshAccepted, BeginLogout, Idle, stored
  <1>3. ASSUME NEW t \in Tokens, RefreshReused(p, t)
        PROVE  /\ req[p].pc = "idle" /\ row' = row /\ handed' = handed /\ parent' = parent
               /\ req'[p].pc = "reuse" /\ req'[p].token \in handed /\ Revoked(req'[p].token)
    BY <1>0, <1>3 DEF RefreshReused, Idle, stored, Revoked
  <1>4. QED
    BY <1>1, <1>2, <1>3 DEF Begin

LEMMA AbortShape ==
    ASSUME TypeOK, NEW p \in Procs, Abort(p)
    PROVE  /\ req[p].pc # "idle" /\ req'[p] = Idle
           /\ row' = row /\ handed' = handed /\ parent' = parent
  BY DEF Abort, Throw, stored, TypeOK

LEMMA IdleShape == Idle.pc = "idle" /\ Made(Idle) = None
  BY DEF Idle, Made, Counting

LEMMA BackgroundShape ==
    ASSUME Background
    PROVE  req' = req /\ handed' = handed /\ parent' = parent
  BY DEF Background, RevokeSession, Age, SevenDaysPass, RevokeAllUserTokens, DeleteAccount,
     Cleanup

(* An issued row stays issued, and a revoked one revoked. *)
LEMMA FadedStaysOver ==
    ASSUME NEW t \in Tokens, FadesOrLinks(t)
    PROVE  /\ Issued(t) => Issued(t)'
           /\ Revoked(t) => Revoked(t)'
  BY DEF FadesOrLinks, Issued, Revoked, IsStored, Deleted, Blank

LEMMA OverNext ==
    ASSUME TypeOK, [Next]_vars, NEW t \in Tokens, Issued(t)
    PROVE  Issued(t)' /\ (Revoked(t) => Revoked(t)')
  <1>1. CASE row' = row
    BY <1>1 DEF Issued, Revoked, IsStored
  <1>2. CASE Background
    BY <1>2, BackgroundFades, FadedStaysOver DEF Fades
  <1>3. ASSUME NEW p \in Procs, Step(p) PROVE Issued(t)' /\ (Revoked(t) => Revoked(t)')
    <2>1. ASSUME NEW s \in Tokens, Inserts(p, s)
          PROVE  row'[t] = row[t]
      BY <2>1 DEF Inserts
    <2>2. CASE \A s \in Tokens : FadesOrLinks(s)
      BY <2>2, FadedStaysOver
    <2>3. CASE \E s \in Tokens : Inserts(p, s)
      BY <2>1, <2>3 DEF Issued, Revoked, IsStored
    <2>4. QED
      BY <1>3, <2>2, <2>3, StepShape DEF GoesOn, Fails, Answers
  <1>4. QED
    BY <1>1, <1>2, <1>3, NextSplit, BeginShape, AbortShape DEF vars

-----------------------------------------------------------------------------
(* What the handlers know, whoever waits for them: the token that one of them *)
(* presents has been handed out, and the row that it has inserted is its own  *)
(* until it answers.                                                         *)

Knows(r) ==
    /\ r.pc \in Presents => r.token \in handed
    /\ r.pc \in {"reissue", "link", "reuse"} => Revoked(r.token)
    /\ Made(r) # None => Made(r) \in Tokens /\ Issued(Made(r)) /\ Made(r) \notin handed

HandedIssued == \A t \in handed : Issued(t)
ParentsHanded == \A t \in Tokens : parent[t] # None => parent[t] \in handed
MadeApart ==
    \A p, q \in Procs : p # q /\ Made(req[p]) # None => Made(req[q]) # Made(req[p])

HandlerInv ==
    /\ TypeOK /\ HandedIssued /\ ParentsHanded /\ MadeApart
    /\ \A p \in Procs : Knows(req[p])

LEMMA HandlerInit == Init => HandlerInv
  <1> SUFFICES ASSUME Init PROVE HandlerInv
    OBVIOUS
  <1>1. \A p \in Procs : req[p] = Idle
    BY DEF Init
  <1>2. \A t \in Tokens : parent[t] = None
    BY DEF Init
  <1>3. HandedIssued /\ ParentsHanded
    BY <1>2 DEF Init, HandedIssued, ParentsHanded
  <1>4. MadeApart
    BY <1>1, IdleShape DEF MadeApart
  <1>5. \A p \in Procs : Knows(req[p])
    BY <1>1, IdleShape DEF Knows, Presents
  <1>6. QED
    BY <1>3, <1>4, <1>5, TypeInit DEF HandlerInv

LEMMA KnowsStays ==
    ASSUME HandlerInv, [Next]_vars, NEW q \in Procs, req'[q] = req[q],
           handed \subseteq handed', Made(req[q]) \notin handed' \ handed
    PROVE  Knows(req[q])'
  <1>1. Knows(req[q]) /\ TypeOK /\ HandedIssued
    BY DEF HandlerInv
  <1>2. handed \subseteq Tokens
    BY <1>1 DEF TypeOK
  <1>3. /\ req'[q].pc = req[q].pc /\ req'[q].token = req[q].token
        /\ Made(req'[q]) = Made(req[q])
    BY DEF Made
  <1>4. req[q].pc \in Presents => req[q].token \in handed'
    BY <1>1 DEF Knows
  <1>5. req[q].pc \in {"reissue", "link", "reuse"} => Revoked(req[q].token)'
    <2>1. SUFFICES ASSUME req[q].pc \in {"reissue", "link", "reuse"}
                   PROVE  Revoked(req[q].token)'
      OBVIOUS
    <2>2. req[q].token \in Tokens /\ Issued(req[q].token) /\ Revoked(req[q].token)
      BY <1>1, <1>2, <2>1 DEF Knows, Presents, HandedIssued
    <2>3. \A t \in Tokens : t = req[q].token => (row'[t].st = "stored" => row'[t].revoked)
      BY <1>1, <2>2, OverNext DEF Revoked, IsStored
    <2>4. QED
      BY <1>3, <2>2, <2>3 DEF Revoked, IsStored
  <1>6. Made(req[q]) # None => /\ Made(req[q]) \in Tokens /\ row'[Made(req[q])].st # "unissued"
                               /\ Made(req[q]) \notin handed'
    BY <1>1, OverNext DEF Knows, Issued
  <1>7. QED
    BY <1>3, <1>4, <1>5, <1>6 DEF Knows, Issued, Revoked, IsStored

(* A step that hands nothing out and after which p has no row but the one it  *)
(* had.                                                                      *)
LEMMA PlainStep ==
    ASSUME HandlerInv, TypeOK', [Next]_vars, NEW p \in Procs, Others(p),
           handed' = handed, parent' = parent,
           Made(req'[p]) \in {None, Made(req[p])}, Knows(req[p])'
    PROVE  HandlerInv'
  <1>1. \A q \in Procs : q # p => req'[q] = req[q]
    BY DEF Others
  <1>2. HandedIssued' /\ ParentsHanded'
    BY OverNext DEF HandlerInv, HandedIssued, ParentsHanded, TypeOK, Issued
  <1>3. \A q \in Procs : Knows(req[q])'
    <2>1. ASSUME NEW q \in Procs, q # p PROVE Knows(req[q])'
      BY <1>1, <2>1, KnowsStays
    <2>2. QED
      BY <2>1
  <1>4. MadeApart'
    <2>1. SUFFICES ASSUME NEW a \in Procs, NEW b \in Procs, a # b, Made(req'[a]) # None
                   PROVE  Made(req'[b]) # Made(req'[a])
      BY DEF MadeApart, Made
    <2>2. Made(req'[a]) = Made(req[a]) /\ Made(req'[b]) \in {None, Made(req[b])}
      BY <1>1, <2>1
    <2>3. Made(req[b]) # Made(req[a])
      BY <2>1, <2>2 DEF HandlerInv, MadeApart
    <2>4. QED
      BY <2>1, <2>2, <2>3
  <1>5. QED
    BY <1>2, <1>3, <1>4 DEF HandlerInv

LEMMA InsertKnown ==
    ASSUME HandlerInv, TypeOK', [Next]_vars, NEW p \in Procs, Others(p),
           NEW t \in Tokens, Inserts(p, t)
    PROVE  HandlerInv'
  <1>0. TypeOK /\ handed \subseteq Tokens /\ t # None /\ handed' = handed
        /\ parent \in [Tokens -> Tokens \cup {None}]
    BY SessionsAssumption DEF HandlerInv, TypeOK, Inserts
  <1>1. \A q \in Procs : q # p => req'[q] = req[q]
    BY DEF Others
  <1>2. t \notin handed /\ \A q \in Procs : Made(req[q]) # t
    <2>1. t \notin handed
      BY DEF HandlerInv, HandedIssued, Inserts
    <2>2. ASSUME NEW q \in Procs PROVE Made(req[q]) # t
      BY <1>0 DEF HandlerInv, Knows, Inserts
    <2>3. QED
      BY <2>1, <2>2
  <1>3. Made(req'[p]) = t
    BY DEF Inserts, Made, Counting
  <1>4. HandedIssued'
    BY <1>0, OverNext DEF HandlerInv, HandedIssued, Issued
  <1>5. ParentsHanded'
    <2>1. CASE req[p].pc = "issue"
      BY <1>0, <2>1 DEF Inserts, HandlerInv, ParentsHanded
    <2>2. CASE req[p].pc = "reissue"
      <3>1. req[p].token \in handed
        BY <2>2 DEF HandlerInv, Knows, Presents
      <3>2. QED
        BY <1>0, <2>2, <3>1 DEF Inserts, HandlerInv, ParentsHanded
    <2>3. QED
      BY <2>1, <2>2 DEF Inserts
  <1>6. Knows(req[p])'
    <2>1. Issued(t)' /\ row'[t].st # "unissued"
      BY DEF Inserts, Issued
    <2>2. Made(req'[p]) \in Tokens /\ row'[Made(req'[p])].st # "unissued"
          /\ Made(req'[p]) \notin handed'
      BY <1>0, <1>2, <1>3, <2>1
    <2>3. CASE req'[p].pc = "count"
      BY <2>2, <2>3 DEF Knows, Presents, Issued
    <2>4. CASE req[p].pc = "reissue" /\ req'[p].pc = "link" /\ req'[p].token = req[p].token
      <3>1. req[p].token \in handed /\ Revoked(req[p].token) /\ Issued(req[p].token)
        BY <2>4 DEF HandlerInv, Knows, Presents, HandedIssued
      <3>2. req[p].token # t
        BY <1>2, <3>1
      <3>3. row'[req[p].token] = row[req[p].token]
        BY <1>0, <3>1, <3>2 DEF Inserts
      <3>4. Revoked(req[p].token)'
        BY <2>4, <3>1, <3>3 DEF Revoked, IsStored
      <3>5. QED
        BY <1>0, <2>2, <2>4, <3>1, <3>4 DEF Knows, Issued
    <2>5. QED
      BY <2>3, <2>4 DEF Inserts
  <1>7. \A q \in Procs : Knows(req[q])'
    <2>1. ASSUME NEW q \in Procs, q # p PROVE Knows(req[q])'
      BY <1>0, <1>1, <2>1, KnowsStays
    <2>2. QED
      BY <1>6, <2>1
  <1>8. MadeApart'
    <2>1. SUFFICES ASSUME NEW a \in Procs, NEW b \in Procs, a # b, Made(req'[a]) # None
                   PROVE  Made(req'[b]) # Made(req'[a])
      BY DEF MadeApart, Made
    <2>2. CASE a = p
      BY <1>1, <1>2, <1>3, <2>1, <2>2
    <2>3. CASE b = p
      BY <1>1, <1>2, <1>3, <2>1, <2>3
    <2>4. CASE a # p /\ b # p
      <3>1. req'[a] = req[a] /\ req'[b] = req[b]
        BY <1>1, <2>4
      <3>2. QED
        BY <2>1, <3>1 DEF HandlerInv, MadeApart
    <2>5. QED
      BY <2>2, <2>3, <2>4
  <1>9. QED
    BY <1>4, <1>5, <1>7, <1>8 DEF HandlerInv

(* Going on keeps what the handler has made; an answer hands it out. *)
LEMMA AnswerKnown ==
    ASSUME HandlerInv, TypeOK', [Next]_vars, NEW p \in Procs, Others(p), Answers(p)
    PROVE  HandlerInv'
  <1>0. TypeOK /\ handed \subseteq Tokens /\ Made(req[p]) # None
        /\ handed' = handed \cup {Made(req[p])} /\ parent' = parent /\ req'[p] = Idle
    BY SessionsAssumption DEF HandlerInv, TypeOK, Answers
  <1>1. \A q \in Procs : q # p => req'[q] = req[q] /\ Made(req[q]) # Made(req[p])
    BY <1>0 DEF Others, HandlerInv, MadeApart
  <1>2. HandedIssued'
    <2>1. Made(req[p]) \in Tokens /\ Issued(Made(req[p]))
      BY <1>0 DEF HandlerInv, Knows
    <2>2. \A t \in handed' : t \in Tokens /\ Issued(t)
      BY <1>0, <2>1 DEF HandlerInv, HandedIssued
    <2>3. QED
      BY <1>0, <2>2, OverNext DEF HandedIssued, Issued
  <1>3. ParentsHanded'
    BY <1>0 DEF HandlerInv, ParentsHanded
  <1>4. \A q \in Procs : Knows(req[q])'
    <2>1. ASSUME NEW q \in Procs, q # p PROVE Knows(req[q])'
      BY <1>0, <1>1, <2>1, KnowsStays
    <2>2. Knows(req[p])'
      BY <1>0, IdleShape DEF Knows, Presents, Made, Counting
    <2>3. QED
      BY <2>1, <2>2
  <1>5. MadeApart'
    <2>1. SUFFICES ASSUME NEW a \in Procs, NEW b \in Procs, a # b, Made(req'[a]) # None
                   PROVE  Made(req'[b]) # Made(req'[a])
      BY DEF MadeApart, Made
    <2>2. CASE b = p
      BY <1>0, <2>1, <2>2, IdleShape
    <2>3. CASE b # p
      <3>1. a # p
        BY <1>0, <2>1, IdleShape
      <3>2. req'[a] = req[a] /\ req'[b] = req[b]
        BY <1>1, <2>3, <3>1
      <3>3. QED
        BY <2>1, <3>2 DEF HandlerInv, MadeApart
    <2>4. QED
      BY <2>2, <2>3
  <1>6. QED
    BY <1>2, <1>3, <1>4, <1>5 DEF HandlerInv

LEMMA HandlerNext == HandlerInv /\ [Next]_vars => HandlerInv'
  <1> SUFFICES ASSUME HandlerInv, [Next]_vars PROVE HandlerInv'
    OBVIOUS
  <1>0. TypeOK /\ TypeOK'
    BY TypeNext DEF HandlerInv
  <1>1. ASSUME req' = req, handed' = handed, parent' = parent
        PROVE  HandlerInv'
    <2>1. \A q \in Procs : Knows(req[q])'
      BY <1>1, KnowsStays
    <2>2. HandedIssued' /\ ParentsHanded'
      BY <1>0, <1>1, OverNext DEF HandlerInv, HandedIssued, ParentsHanded, TypeOK, Issued
    <2>3. MadeApart'
      BY <1>1 DEF HandlerInv, MadeApart, Made
    <2>4. QED
      BY <1>0, <2>1, <2>2, <2>3 DEF HandlerInv
  <1>2. ASSUME NEW p \in Procs, Begin(p) PROVE HandlerInv'
    <2>1. Others(p)
      BY <1>0, <1>2, OthersRest
    <2>2. Made(req'[p]) = None
      BY <1>0, <1>2, BeginShape DEF Made, Counting
    <2>3. Knows(req[p])'
      <3>1. row' = row /\ handed' = handed
        BY <1>0, <1>2, BeginShape
      <3>2. CASE req'[p].pc = "issue"
        BY <2>2, <3>2 DEF Knows, Presents, Made
      <3>3. CASE /\ req'[p].pc \in {"rotate", "reuse", "logout"}
                 /\ req'[p].token \in handed
                 /\ req'[p].pc = "reuse" => Revoked(req'[p].token)
        BY <2>2, <3>1, <3>3 DEF Knows, Made, Revoked, IsStored
      <3>4. QED
        BY <1>0, <1>2, <3>2, <3>3, BeginShape
    <2>4. QED
      BY <1>0, <1>2, <2>1, <2>2, <2>3, BeginShape, PlainStep
  <1>3. ASSUME NEW p \in Procs, Others(p), req'[p] = Idle, handed' = handed, parent' = parent
        PROVE  HandlerInv'
    <2>1. Made(req'[p]) = None /\ Knows(req[p])'
      BY <1>3, IdleShape DEF Knows, Presents, Made, Counting
    <2>2. QED
      BY <1>0, <1>3, <2>1, PlainStep
  <1>4. ASSUME NEW p \in Procs, Step(p) PROVE HandlerInv'
    <2>1. Others(p)
      BY <1>0, <1>4, OthersRest
    <2>2. CASE GoesOn(p)
      <3>1. CASE req[p].pc \in Counting /\ req'[p].pc \in {"find", "evict"}
        <4>1. Made(req'[p]) = Made(req[p])
          BY <2>2, <3>1 DEF GoesOn, Made, Counting
        <4>2. Made(req[p]) # None => /\ Made(req[p]) \in Tokens /\ Issued(Made(req[p]))
                                     /\ Made(req[p]) \notin handed
          BY DEF HandlerInv, Knows
        <4>3. Made(req[p]) # None => row'[Made(req[p])].st # "unissued"
          BY <1>0, <4>2, OverNext DEF Issued
        <4>4. handed' = handed /\ parent' = parent
          BY <2>2 DEF GoesOn
        <4>5. Knows(req[p])'
          BY <3>1, <4>1, <4>2, <4>3, <4>4 DEF Knows, Presents, Issued
        <4>6. QED
          BY <1>0, <2>1, <4>1, <4>4, <4>5, PlainStep
      <3>2. CASE req[p].pc = "rotate" /\ req'[p].pc = "reissue"
        <4>1. /\ Made(req'[p]) = None /\ req'[p].token = req[p].token
              /\ handed' = handed /\ parent' = parent /\ Revoked(req[p].token)'
          BY <2>2, <3>2 DEF GoesOn, Made, Counting
        <4>2. req[p].token \in handed
          BY <3>2 DEF HandlerInv, Knows, Presents
        <4>3. Knows(req[p])'
          BY <3>2, <4>1, <4>2 DEF Knows
        <4>4. QED
          BY <1>0, <2>1, <4>1, <4>3, PlainStep
      <3>3. QED
        BY <2>2, <3>1, <3>2 DEF GoesOn
    <2>3. QED
      BY <1>0, <1>3, <1>4, <2>1, <2>2, StepShape, InsertKnown, AnswerKnown DEF Fails
  <1>5. QED
    BY <1>0, <1>1, <1>2, <1>3, <1>4, NextSplit, BackgroundShape, AbortShape, OthersRest DEF vars

-----------------------------------------------------------------------------
(* The devices. *)

LEMMA RequestBegins ==
    ASSUME TypeOK, NEW d \in Devices, NEW p \in Procs, Requests(d, p)
    PROVE  Begin(p) /\ Sends(d, p)
  <1>1. CASE \E u \in Users : SendLogin(d, p, u)
    BY <1>1 DEF SendLogin, Begin
  <1>2. CASE SendLogout(d, p)
    BY <1>2 DEF SendLogout, Begin, BeginLogout, TypeOK
  <1>3. CASE SendRefresh(d, p)
    <2>1. holds[d] \in Tokens
      BY <1>3 DEF SendRefresh, RefreshAccepted, RefreshReused, TypeOK
    <2>2. QED
      BY <1>3, <2>1 DEF SendRefresh, Begin
  <1>4. QED
    BY <1>1, <1>2, <1>3 DEF Requests

LEMMA ClientSplit ==
    ASSUME TypeOK, [ClientNext]_allVars
    PROVE  /\ [Next]_vars
           /\ \/ \E d \in Devices, p \in Procs : Requests(d, p)
              \/ \E d \in Devices : Refused(d) \/ TimesOut(d)
              \/ \E p \in Procs : Serve(p) \/ Dies(p)
              \/ Elsewhere
              \/ UNCHANGED allVars
  <1>1. CASE \E d \in Devices, p \in Procs : Requests(d, p)
    BY <1>1, RequestBegins DEF Next
  <1>2. CASE \E d \in Devices : Refused(d) \/ TimesOut(d)
    BY <1>2 DEF Refused, TimesOut
  <1>3. CASE \E p \in Procs : Serve(p) \/ Dies(p)
    BY <1>3 DEF Serve, Dies, Next
  <1>4. CASE Elsewhere
    BY <1>4 DEF Elsewhere, Next
  <1>5. CASE UNCHANGED allVars
    BY <1>5 DEF allVars
  <1>6. QED
    BY <1>1, <1>2, <1>3, <1>4, <1>5 DEF ClientNext

(* What a device keeps while handler r serves it: the token r was sent. *)
Presented(r) == IF r.pc \in Presents THEN r.token ELSE None

DeviceTypes ==
    /\ holds \in [Devices -> handed \cup {None}]
    /\ serving \in [Devices -> Procs \cup {None}]
    /\ losses \in Nat /\ doubtful \subseteq handed /\ raced \subseteq handed

Served ==
    \A d \in Devices : serving[d] # None => /\ req[serving[d]].pc # "idle"
                                            /\ holds[d] = Presented(req[serving[d]])

DevicesApart ==
    \A d, e \in Devices : d # e => /\ serving[d] = serving[e] => serving[d] = None
                                   /\ holds[d] = holds[e] => holds[d] = None

DeviceInv == HandlerInv /\ DeviceTypes /\ Served /\ DevicesApart

LEMMA DeviceInit == ClientInit => DeviceInv
  BY HandlerInit DEF ClientInit, DeviceInv, DeviceTypes, Served, DevicesApart, Init

LEMMA DeviceOK == DeviceInv => ClientTypeOK
  BY DEF DeviceInv, HandlerInv, DeviceTypes, Served, DevicesApart, ClientTypeOK

(* A step of the service of which no device hears. *)
LEMMA UnheardStep ==
    ASSUME DeviceInv, HandlerInv', UNCHANGED <<holds, serving>>,
           handed \subseteq handed', losses' \in Nat, doubtful' \subseteq handed',
           raced' \subseteq handed',
           \A d \in Devices : serving[d] # None =>
               /\ req'[serving[d]].pc # "idle"
               /\ Presented(req'[serving[d]]) = Presented(req[serving[d]])
    PROVE  DeviceInv'
  <1>1. DeviceTypes'
    BY DEF DeviceInv, DeviceTypes
  <1>2. DevicesApart'
    BY DEF DeviceInv, DevicesApart
  <1>3. Served'
    BY DEF DeviceInv, Served, Presented
  <1>4. QED
    BY <1>1, <1>2, <1>3 DEF DeviceInv

(* A device sends a request to a handler that was idle. *)
LEMMA SentStep ==
    ASSUME DeviceInv, HandlerInv', NEW d \in Devices, NEW p \in Procs,
           Sends(d, p), Others(p), req[p].pc = "idle", handed' = handed,
           req'[p].pc # "idle", holds[d] = Presented(req'[p]), raced' \subseteq handed
    PROVE  DeviceInv'
  <1>1. /\ holds' = holds /\ losses' = losses /\ doubtful' = doubtful
        /\ serving' = [serving EXCEPT ![d] = p]
        /\ serving \in [Devices -> Procs \cup {None}]
    BY DEF Sends, DeviceInv, DeviceTypes
  <1>2. serving'[d] = p /\ \A e \in Devices : e # d => serving'[e] = serving[e]
    BY <1>1
  <1>3. \A e \in Devices : serving[e] # None => serving[e] \in Procs /\ serving[e] # p
    BY <1>1 DEF DeviceInv, Served
  <1>4. DeviceTypes'
    BY <1>1 DEF DeviceInv, DeviceTypes
  <1>5. DevicesApart'
    <2>1. SUFFICES ASSUME NEW a \in Devices, NEW b \in Devices, a # b
                   PROVE  /\ serving'[a] = serving'[b] => serving'[a] = None
                          /\ holds'[a] = holds'[b] => holds'[a] = None
      BY DEF DevicesApart
    <2>2. /\ serving[a] = serving[b] => serving[a] = None
          /\ holds[a] = holds[b] => holds[a] = None
      BY <2>1 DEF DeviceInv, DevicesApart
    <2>3. QED
      BY <1>1, <1>2, <1>3, <2>1, <2>2, ClientAssumption
  <1>6. Served'
    <2>1. SUFFICES ASSUME NEW a \in Devices, serving'[a] # None
                   PROVE  /\ req'[serving'[a]].pc # "idle"
                          /\ holds'[a] = Presented(req'[serving'[a]])
      BY DEF Served, Presented
    <2>2. CASE a = d
      BY <1>1, <1>2, <2>2
    <2>3. CASE a # d
      <3>1. /\ serving'[a] = serving[a] /\ req'[serving[a]] = req[serving[a]]
            /\ holds'[a] = holds[a]
        BY <1>1, <1>2, <1>3, <2>1, <2>3 DEF Others
      <3>2. /\ req[serving[a]].pc # "idle"
            /\ holds[a] = Presented(req[serving[a]])
        BY <2>1, <3>1 DEF DeviceInv, Served
      <3>3. QED
        BY <3>1, <3>2
    <2>4. QED
      BY <2>2, <2>3
  <1>7. QED
    BY <1>4, <1>5, <1>6 DEF DeviceInv

(* A device stops waiting, with an answer, without one, or refused. *)
LEMMA FreedStep ==
    ASSUME DeviceInv, HandlerInv', NEW d \in Devices, NEW h,
           serving' = [serving EXCEPT ![d] = None], holds' = [holds EXCEPT ![d] = h],
           h \in {None, holds[d]} \cup (handed' \ handed),
           \A q \in Procs : q # serving[d] => req'[q] = req[q],
           handed \subseteq handed', losses' \in Nat, doubtful' \subseteq handed',
           raced' \subseteq handed'
    PROVE  DeviceInv'
  <1>1. serving \in [Devices -> Procs \cup {None}] /\ holds \in [Devices -> handed \cup {None}]
    BY DEF DeviceInv, DeviceTypes
  <1>2. /\ serving'[d] = None /\ holds'[d] = h
        /\ \A e \in Devices : e # d => serving'[e] = serving[e] /\ holds'[e] = holds[e]
    BY <1>1
  <1>3. DeviceTypes'
    BY <1>1 DEF DeviceInv, DeviceTypes
  <1>4. DevicesApart'
    <2>1. SUFFICES ASSUME NEW a \in Devices, NEW b \in Devices, a # b
                   PROVE  /\ serving'[a] = serving'[b] => serving'[a] = None
                          /\ holds'[a] = holds'[b] => holds'[a] = None
      BY DEF DevicesApart
    <2>2. /\ serving[a] = serving[b] => serving[a] = None
          /\ holds[a] = holds[b] => holds[a] = None
      BY <2>1 DEF DeviceInv, DevicesApart
    <2>3. /\ holds[a] \in handed \cup {None} /\ holds[b] \in handed \cup {None}
      BY <1>1
    <2>4. serving'[a] = serving'[b] => serving'[a] = None
      BY <1>2, <2>2
    <2>5. holds'[a] = holds'[b] => holds'[a] = None
      <3>1. CASE a = d
        BY <1>2, <2>1, <2>2, <2>3, <3>1
      <3>2. CASE b = d
        BY <1>2, <2>1, <2>2, <2>3, <3>2
      <3>3. CASE a # d /\ b # d
        BY <1>2, <2>2, <3>3
      <3>4. QED
        BY <3>1, <3>2, <3>3
    <2>6. QED
      BY <2>4, <2>5
  <1>5. Served'
    <2>1. SUFFICES ASSUME NEW a \in Devices, serving'[a] # None
                   PROVE  /\ req'[serving'[a]].pc # "idle"
                          /\ holds'[a] = Presented(req'[serving'[a]])
      BY DEF Served, Presented
    <2>2. /\ a # d /\ serving'[a] = serving[a] /\ holds'[a] = holds[a] /\ serving[a] # None
          /\ serving[a] \in Procs
      BY <1>1, <1>2, <2>1
    <2>3. serving[a] # serving[d]
      BY <2>2 DEF DeviceInv, DevicesApart
    <2>4. /\ req[serving[a]].pc # "idle" /\ holds[a] = Presented(req[serving[a]])
      BY <2>2 DEF DeviceInv, Served
    <2>5. req'[serving[a]] = req[serving[a]]
      BY <2>2, <2>3
    <2>6. QED
      BY <2>2, <2>4, <2>5
  <1>6. QED
    BY <1>3, <1>4, <1>5 DEF DeviceInv

LEMMA RequestShape ==
    ASSUME DeviceInv, NEW d \in Devices, NEW p \in Procs, Requests(d, p)
    PROVE  /\ Begin(p) /\ Others(p) /\ Sends(d, p)
           /\ req[p].pc = "idle" /\ req'[p].pc # "idle"
           /\ row' = row /\ handed' = handed /\ parent' = parent
           /\ holds[d] = Presented(req'[p])
           /\ Made(req'[p]) = None
           /\ req'[p].pc \in {"rotate", "logout"} => req'[p].token = holds[d]
           /\ req'[p].pc \notin {"reissue", "link"}
           /\ req'[p].pc \in Presents => holds[d] # None
           /\ raced \subseteq raced' /\ raced' \subseteq handed
  <1>1. TypeOK /\ req \in [Procs -> Req]
    BY DEF DeviceInv, HandlerInv, TypeOK
  <1>2. Begin(p) /\ Sends(d, p) /\ Others(p)
    BY <1>1, RequestBegins, OthersRest
  <1>3. /\ req[p].pc = "idle" /\ row' = row /\ handed' = handed /\ parent' = parent
        /\ req'[p].pc \in {"issue", "rotate", "reuse", "logout"}
    BY <1>1, <1>2, BeginShape
  <1>4. \/ req'[p].pc = "issue" /\ holds[d] = None
        \/ req'[p].pc # "issue" /\ req'[p].token = holds[d] /\ holds[d] # None
    <2>1. CASE \E u \in Users : SendLogin(d, p, u)
      BY <1>1, <2>1 DEF SendLogin, BeginLogin, Idle
    <2>2. CASE SendLogout(d, p)
      BY <1>1, <2>2 DEF SendLogout, BeginLogout, Idle
    <2>3. CASE SendRefresh(d, p)
      <3>1. CASE RefreshAccepted(p, holds[d])
        BY <1>1, <2>3, <3>1 DEF SendRefresh, RefreshAccepted, Idle
      <3>2. CASE RefreshReused(p, holds[d])
        BY <1>1, <2>3, <3>2 DEF SendRefresh, RefreshReused, Idle
      <3>3. QED
        BY <2>3, <3>1, <3>2 DEF SendRefresh
    <2>4. QED
      BY <2>1, <2>2, <2>3 DEF Requests
  <1>5. raced \subseteq raced' /\ raced' \subseteq handed
    BY DEF Requests, SendLogin, SendRefresh, SendLogout, RefreshAccepted, DeviceInv, DeviceTypes
  <1>6. QED
    BY <1>2, <1>3, <1>4, <1>5 DEF Presented, Presents, Made, Counting

(* A step of handler p during which its device, if it has one, goes on        *)
(* waiting.                                                                  *)
LEMMA WaitingStep ==
    ASSUME DeviceInv, NEW p \in Procs, Step(p), req'[p].pc # "idle"
    PROVE  Presented(req'[p]) = Presented(req[p]) /\ handed' = handed
  <1>1. \A t \in Tokens : Inserts(p, t) \/ GoesOn(p) =>
           Presented(req'[p]) = Presented(req[p]) /\ handed' = handed
    BY DEF Inserts, GoesOn, Presented, Presents, Counting
  <1>2. GoesOn(p) => Presented(req'[p]) = Presented(req[p]) /\ handed' = handed
    BY DEF GoesOn, Presented, Presents, Counting
  <1>3. QED
    BY <1>1, <1>2, StepShape, IdleShape DEF DeviceInv, HandlerInv, Fails, Answers

(* With the last step its device gets what the handler has made, or nothing. *)
LEMMA AnswerShape ==
    ASSUME DeviceInv, NEW p \in Procs, Step(p), req'[p].pc = "idle"
    PROVE  /\ Fails(p) \/ Answers(p)
           /\ \A d \in Devices : Answer(d, p) =>
                 /\ serving[d] = p /\ serving' = [serving EXCEPT ![d] = None]
                 /\ Fails(p) => holds' = [holds EXCEPT ![d] = None]
                 /\ Answers(p) => /\ holds' = [holds EXCEPT ![d] = Made(req[p])]
                                  /\ Made(req[p]) \in handed' \ handed
  <1>1. Fails(p) \/ Answers(p)
    BY StepShape DEF DeviceInv, HandlerInv, Inserts, GoesOn
  <1>2. Answers(p) => Made(req[p]) \in handed' \ handed /\ handed' # handed
                      /\ handed' \ handed = {Made(req[p])}
    BY SessionsAssumption DEF Answers, DeviceInv, HandlerInv, Knows
  <1>3. Fails(p) => handed' = handed
    BY DEF Fails
  <1>4. QED
    BY <1>1, <1>2, <1>3 DEF Answer

LEMMA HandedGrows ==
    ASSUME HandlerInv, [Next]_vars
    PROVE  handed \subseteq handed'
  <1>1. ASSUME NEW p \in Procs, Step(p) PROVE handed \subseteq handed'
    BY <1>1, StepShape DEF HandlerInv, Inserts, GoesOn, Fails, Answers
  <1>2. QED
    BY <1>1, NextSplit, BackgroundShape, BeginShape, AbortShape DEF HandlerInv, vars

LEMMA UnansweredShape ==
    ASSUME DeviceInv, NEW d \in Devices, Unanswered(d), handed' = handed
    PROVE  /\ serving' = [serving EXCEPT ![d] = None]
           /\ \E h \in {None, holds[d]} : holds' = [holds EXCEPT ![d] = h]
           /\ losses' = losses + 1 /\ losses' \in Nat
           /\ doubtful' \subseteq handed'
           /\ doubtful' = doubtful \cup ({holds[d]} \ {None})
           /\ raced' = raced
  <1>1. /\ losses \in Nat /\ doubtful \subseteq handed /\ holds[d] \in handed \cup {None}
    BY DEF DeviceInv, DeviceTypes
  <1>2. \E h \in {None, holds[d]} : holds' = [holds EXCEPT ![d] = h]
    BY DEF Unanswered
  <1>3. /\ serving' = [serving EXCEPT ![d] = None] /\ losses' = losses + 1
        /\ doubtful' = doubtful \cup ({holds[d]} \ {None})
        /\ raced' = raced
    BY DEF Unanswered
  <1>4. losses' \in Nat /\ doubtful' \subseteq handed'
    BY <1>1, <1>3
  <1>5. QED
    BY ONLY <1>2, <1>3, <1>4

LEMMA DeviceNext == DeviceInv /\ [ClientNext]_allVars => DeviceInv'
  <1> SUFFICES ASSUME DeviceInv, [ClientNext]_allVars PROVE DeviceInv'
    OBVIOUS
  <1>1. TypeOK /\ HandlerInv
    BY DEF DeviceInv, HandlerInv
  <1>2. [Next]_vars /\ HandlerInv'
    BY <1>1, ClientSplit, HandlerNext
  <1>3. /\ losses \in Nat /\ doubtful \subseteq handed /\ raced \subseteq handed
        /\ handed \subseteq handed'
        /\ serving \in [Devices -> Procs \cup {None}]
        /\ holds \in [Devices -> handed \cup {None}]
    BY <1>1, <1>2, HandedGrows DEF DeviceInv, DeviceTypes
  <1>4. ASSUME NEW d \in Devices, NEW p \in Procs, Requests(d, p) PROVE DeviceInv'
    BY <1>2, <1>4, RequestShape, SentStep
  <1>5. ASSUME NEW d \in Devices, Refused(d) PROVE DeviceInv'
    <2>1. /\ serving' = [serving EXCEPT ![d] = None] /\ holds' = [holds EXCEPT ![d] = None]
          /\ req' = req /\ losses' = losses /\ doubtful' = doubtful /\ raced' = raced
      BY <1>3, <1>5 DEF Refused, Resting, vars
    <2>2. QED
      BY <1>2, <1>3, <2>1, FreedStep
  <1>6. ASSUME NEW d \in Devices, Unanswered(d), handed' = handed,
               \A q \in Procs : q # serving[d] => req'[q] = req[q]
        PROVE  DeviceInv'
    <2>1. PICK h \in {None, holds[d]} : holds' = [holds EXCEPT ![d] = h]
      BY <1>6, UnansweredShape
    <2>2. QED
      BY <1>2, <1>3, <1>6, <2>1, UnansweredShape, FreedStep
  <1>7. ASSUME NEW d \in Devices, TimesOut(d) PROVE DeviceInv'
    BY <1>6, <1>7 DEF TimesOut, vars
  <1>8. ASSUME NEW p \in Procs, Dies(p) PROVE DeviceInv'
    <2>1. Abort(p) /\ handed' = handed /\ Others(p)
      BY <1>1, <1>8, AbortShape, OthersRest DEF Dies
    <2>2. CASE (\A d \in Devices : serving[d] # p) /\ UNCHANGED device
      <3>1. \A d \in Devices : serving[d] # None => req'[serving[d]] = req[serving[d]]
        BY <1>3, <2>1, <2>2 DEF Others
      <3>2. QED
        BY <1>2, <1>3, <2>1, <2>2, <3>1, UnheardStep DEF device, DeviceInv, Served
    <2>3. CASE \E d \in Devices : serving[d] = p /\ Unanswered(d)
      BY <1>6, <2>1, <2>3 DEF Others
    <2>4. QED
      BY <1>8, <2>2, <2>3 DEF Dies
  <1>9. ASSUME NEW p \in Procs, Serve(p) PROVE DeviceInv'
    <2>1. Step(p) /\ Others(p) /\ losses' = losses /\ doubtful' = doubtful /\ raced' = raced
      BY <1>1, <1>9, OthersRest DEF Serve
    <2>2. CASE /\ req'[p].pc # "idle" \/ \A d \in Devices : serving[d] # p
               /\ UNCHANGED <<holds, serving>>
      <3>1. \A d \in Devices : serving[d] # None =>
               /\ req'[serving[d]].pc # "idle"
               /\ Presented(req'[serving[d]]) = Presented(req[serving[d]])
        <4>1. SUFFICES ASSUME NEW d \in Devices, serving[d] # None
                       PROVE  /\ req'[serving[d]].pc # "idle"
                              /\ Presented(req'[serving[d]]) = Presented(req[serving[d]])
          OBVIOUS
        <4>2. CASE serving[d] = p
          BY <2>1, <2>2, <4>2, WaitingStep
        <4>3. CASE serving[d] # p
          <5>1. req'[serving[d]] = req[serving[d]]
            BY <1>3, <2>1, <4>1, <4>3 DEF Others
          <5>2. QED
            BY <4>1, <5>1 DEF DeviceInv, Served
        <4>4. QED
          BY <4>2, <4>3
      <3>2. QED
        BY <1>2, <1>3, <2>1, <2>2, <3>1, UnheardStep
    <2>3. CASE req'[p].pc = "idle" /\ \E d \in Devices : Answer(d, p)
      <3>1. PICK d \in Devices : Answer(d, p)
        BY <2>3
      <3>2. /\ serving[d] = p /\ serving' = [serving EXCEPT ![d] = None]
            /\ \E h \in {None} \cup (handed' \ handed) : holds' = [holds EXCEPT ![d] = h]
        BY <2>1, <2>3, <3>1, AnswerShape
      <3>3. PICK h \in {None} \cup (handed' \ handed) : holds' = [holds EXCEPT ![d] = h]
        BY <3>2
      <3>4. \A q \in Procs : q # serving[d] => req'[q] = req[q]
        BY <2>1, <3>2 DEF Others
      <3>5. losses' \in Nat /\ doubtful' \subseteq handed' /\ raced' \subseteq handed'
        BY <1>3, <2>1
      <3>6. QED
        BY <1>2, <1>3, <3>2, <3>3, <3>4, <3>5, FreedStep
    <2>4. QED
      BY <1>9, <2>2, <2>3 DEF Serve
  <1>10. ASSUME req' = req, UNCHANGED device PROVE DeviceInv'
    BY <1>2, <1>3, <1>10, UnheardStep DEF device, DeviceInv, Served
  <1>11. CASE Elsewhere
    BY <1>10, <1>11, BackgroundShape DEF Elsewhere, Background
  <1>12. CASE UNCHANGED allVars
    BY <1>10, <1>12 DEF allVars, vars
  <1>13. QED
    BY <1>1, <1>4, <1>5, <1>7, <1>8, <1>9, <1>11, <1>12, ClientSplit

(* The devices and the handlers that serve them fit together whatever is      *)
(* lost: a device keeps a token of its own that was handed out, and a handler *)
(* that is waited for is at work and serves one device.                       *)
THEOREM ClientTypeCorrect == ClientSpec => []ClientTypeOK
  BY DeviceInit, DeviceNext, DeviceOK, PTL DEF ClientSpec

(* A service used by such devices is RefreshTokens: what the theorems above    *)
(* say of Spec (the cap, the chain, the dead sessions) holds with them too.   *)
THEOREM ClientsUseTheService == ClientSpec => Spec
  <1>1. DeviceInv /\ [ClientNext]_allVars => [Next]_vars
    BY ClientSplit DEF DeviceInv, HandlerInv
  <1>2. ClientInit => Init
    BY DEF ClientInit
  <1>3. QED
    BY <1>1, <1>2, DeviceInit, DeviceNext, PTL DEF ClientSpec, Spec

-----------------------------------------------------------------------------
(* Where reuse detection comes from.  A token that no lost answer makes        *)
(* doubtful has one presenter, its device; it is exchanged when the handler of *)
(* that device is about to link it, and the device forgets it with the answer. *)

Attended ==
    \A p \in Procs : req[p].pc \in Presents =>
        req[p].token \in doubtful \/ \E d \in Devices : serving[d] = p

Linking(d) == serving[d] # None /\ req[serving[d]].pc = "link"

Unspent ==
    \A d \in Devices, s \in Tokens :
        holds[d] # None /\ holds[d] \notin doubtful /\ parent[s] = holds[d] => Linking(d)

CauseInv == DeviceInv /\ Attended /\ Unspent

LEMMA CauseInit == ClientInit => CauseInv
  <1> SUFFICES ASSUME ClientInit PROVE CauseInv
    OBVIOUS
  <1>1. /\ \A p \in Procs : req[p] = Idle
        /\ \A t \in Tokens : parent[t] = None
        /\ \A d \in Devices : holds[d] = None
        /\ doubtful = {}
    BY DEF ClientInit, Init
  <1>2. QED
    BY <1>1, IdleShape, DeviceInit DEF CauseInv, Attended, Unspent, Presents

(* A step that exchanges no token. *)
LEMMA CauseStays ==
    ASSUME CauseInv, DeviceInv', parent' = parent, doubtful \subseteq doubtful',
           Attended',
           \A d \in Devices :
               \/ holds'[d] \in {None} \cup (handed' \ handed) \cup doubtful'
               \/ holds'[d] = holds[d] /\ (Linking(d) => Linking(d)')
    PROVE  CauseInv'
  <1>1. Unspent'
    <2>1. SUFFICES ASSUME NEW d \in Devices, NEW s \in Tokens, holds'[d] # None,
                          holds'[d] \notin doubtful', parent[s] = holds'[d]
                   PROVE  Linking(d)'
      BY DEF Unspent, Linking
    <2>2. parent[s] \in handed
      BY <2>1 DEF CauseInv, DeviceInv, HandlerInv, ParentsHanded
    <2>3. holds'[d] = holds[d] /\ (Linking(d) => Linking(d)')
      BY <2>1, <2>2
    <2>4. holds[d] # None /\ holds[d] \notin doubtful /\ parent[s] = holds[d]
      BY <2>1, <2>3
    <2>5. Linking(d)
      BY <2>4 DEF CauseInv, Unspent
    <2>6. QED
      BY <2>3, <2>5
  <1>2. QED
    BY <1>1 DEF CauseInv

(* The one statement that does: the insert of a successor. *)
LEMMA CauseInsert ==
    ASSUME CauseInv, DeviceInv', NEW p \in Procs, NEW t \in Tokens, Inserts(p, t), Others(p),
           UNCHANGED device
    PROVE  CauseInv'
  <1>0. /\ holds' = holds /\ serving' = serving /\ losses' = losses /\ doubtful' = doubtful
        /\ DeviceInv /\ parent \in [Tokens -> Tokens \cup {None}]
        /\ serving \in [Devices -> Procs \cup {None}]
    BY DEF device, CauseInv, DeviceInv, HandlerInv, TypeOK, DeviceTypes
  <1>1. /\ \A q \in Procs : q # p => req'[q] = req[q]
        /\ \A s \in Tokens : s # t => parent'[s] = parent[s]
    BY <1>0 DEF Others, Inserts
  <1>3. CASE /\ req[p].pc = "issue" /\ req'[p].pc = "count" /\ req'[p].token = t
             /\ parent' = [parent EXCEPT ![t] = None]
    <2>1. parent'[t] = None
      BY <1>0, <1>3
    <2>2. Attended'
      BY <1>0, <1>1, <1>3 DEF CauseInv, Attended, Presents
    <2>4. Unspent'
      <3>1. SUFFICES ASSUME NEW d \in Devices, NEW s \in Tokens, holds[d] # None,
                            holds[d] \notin doubtful, parent'[s] = holds[d]
                     PROVE  serving[d] # None /\ req'[serving[d]].pc = "link"
        BY <1>0 DEF Unspent, Linking
      <3>2. s # t /\ parent[s] = holds[d]
        BY <1>1, <2>1, <3>1
      <3>3. serving[d] # None /\ req[serving[d]].pc = "link"
        BY <3>1, <3>2 DEF CauseInv, Unspent, Linking
      <3>4. serving[d] # p
        BY <1>3, <3>3
      <3>5. QED
        BY <1>0, <1>1, <3>3, <3>4
    <2>5. QED
      BY <1>0, <2>2, <2>4 DEF CauseInv
  <1>4. CASE /\ req[p].pc = "reissue" /\ req'[p].pc = "link" /\ req'[p].target = t
             /\ req'[p].token = req[p].token
             /\ parent' = [parent EXCEPT ![t] = req[p].token]
    <2>1. parent'[t] = req[p].token
      BY <1>0, <1>4
    <2>2. Attended'
      BY <1>0, <1>1, <1>4 DEF CauseInv, Attended, Presents
    <2>3. ASSUME req[p].token \notin doubtful
          PROVE  \E d \in Devices : serving[d] = p /\ holds[d] = req[p].token
      <3>1. PICK d \in Devices : serving[d] = p
        BY <1>4, <2>3 DEF CauseInv, Attended, Presents
      <3>2. serving[d] # None
        BY <3>1, ClientAssumption
      <3>3. holds[d] = Presented(req[p])
        BY <1>0, <3>1, <3>2 DEF DeviceInv, Served
      <3>4. QED
        BY <1>4, <3>1, <3>3 DEF Presented, Presents
    <2>4. req[p].token # None
      BY <1>4, SessionsAssumption DEF CauseInv, DeviceInv, HandlerInv, TypeOK, Remembers
    <2>7. Unspent'
      <3>1. SUFFICES ASSUME NEW d \in Devices, NEW s \in Tokens, holds[d] # None,
                            holds[d] \notin doubtful, parent'[s] = holds[d]
                     PROVE  serving[d] # None /\ req'[serving[d]].pc = "link"
        BY <1>0 DEF Unspent, Linking
      <3>2. CASE s = t
        <4>1. holds[d] = req[p].token
          BY <2>1, <3>1, <3>2
        <4>2. PICK e \in Devices : serving[e] = p /\ holds[e] = req[p].token
          BY <2>3, <3>1, <4>1
        <4>3. d = e
          BY <1>0, <2>4, <4>1, <4>2 DEF DeviceInv, DevicesApart
        <4>4. QED
          BY <1>4, <4>2, <4>3, ClientAssumption
      <3>3. CASE s # t
        <4>1. serving[d] # None /\ req[serving[d]].pc = "link"
          BY <1>1, <3>1, <3>3 DEF CauseInv, Unspent, Linking
        <4>2. serving[d] # p
          BY <1>4, <4>1
        <4>3. QED
          BY <1>0, <1>1, <4>1, <4>2
      <3>4. QED
        BY <3>2, <3>3
    <2>8. QED
      BY <1>0, <2>2, <2>7 DEF CauseInv
  <1>5. QED
    BY <1>3, <1>4 DEF Inserts

LEMMA CauseLost ==
    ASSUME CauseInv, DeviceInv', NEW d \in Devices, Unanswered(d), serving[d] # None,
           parent' = parent, handed' = handed,
           \A q \in Procs : q # serving[d] => req'[q] = req[q],
           req'[serving[d]] \in {req[serving[d]], Idle}
    PROVE  CauseInv'
  <1>0. /\ DeviceInv /\ serving \in [Devices -> Procs \cup {None}]
        /\ holds \in [Devices -> handed \cup {None}] /\ losses \in Nat
        /\ None \notin handed /\ serving[d] \in Procs
    BY SessionsAssumption DEF CauseInv, DeviceInv, DeviceTypes, HandlerInv, TypeOK
  <1>1. /\ serving' = [serving EXCEPT ![d] = None] /\ losses' = losses + 1
        /\ doubtful' = doubtful \cup ({holds[d]} \ {None})
    BY <1>0, UnansweredShape
  <1>2. PICK h \in {None, holds[d]} : holds' = [holds EXCEPT ![d] = h]
    BY <1>0, UnansweredShape
  <1>4. Attended'
    <2>1. SUFFICES ASSUME NEW q \in Procs, req'[q].pc \in Presents, req'[q].token \notin doubtful'
                   PROVE  \E e \in Devices : serving'[e] = q
      BY DEF Attended
    <2>2. req'[q] = req[q]
      BY <1>0, <2>1, IdleShape DEF Presents
    <2>3. PICK e \in Devices : serving[e] = q
      BY <1>1, <2>1, <2>2 DEF CauseInv, Attended
    <2>4. holds[e] = req[q].token /\ req[q].token \in handed
      BY <2>1, <2>2, <2>3, ClientAssumption
         DEF CauseInv, DeviceInv, Served, Presented, HandlerInv, Knows
    <2>5. e # d
      BY <1>0, <1>1, <2>1, <2>2, <2>4
    <2>6. QED
      BY <1>0, <1>1, <2>3, <2>5
  <1>5. \A e \in Devices :
           \/ holds'[e] \in {None} \cup (handed' \ handed) \cup doubtful'
           \/ holds'[e] = holds[e] /\ (Linking(e) => Linking(e)')
    <2>1. SUFFICES ASSUME NEW e \in Devices
                   PROVE  \/ holds'[e] \in {None} \cup (handed' \ handed) \cup doubtful'
                          \/ holds'[e] = holds[e] /\ (Linking(e) => Linking(e)')
      OBVIOUS
    <2>2. CASE e = d
      BY <1>0, <1>1, <1>2, <2>2
    <2>3. CASE e # d
      <3>1. holds'[e] = holds[e] /\ serving'[e] = serving[e]
        BY <1>0, <1>1, <1>2, <2>3
      <3>2. serving[e] # None => serving[e] # serving[d] /\ serving[e] \in Procs
        BY <1>0, <2>3 DEF DeviceInv, DevicesApart
      <3>3. QED
        BY <3>1, <3>2 DEF Linking
    <2>4. QED
      BY <2>2, <2>3
  <1>6. QED
    BY <1>1, <1>4, <1>5, CauseStays

LEMMA CauseServe ==
    ASSUME CauseInv, DeviceInv', NEW p \in Procs, Serve(p)
    PROVE  CauseInv'
  <1>0. /\ DeviceInv /\ serving \in [Devices -> Procs \cup {None}] /\ TypeOK
        /\ holds \in [Devices -> handed \cup {None}]
        /\ losses' = losses /\ doubtful' = doubtful /\ raced' = raced /\ Step(p)
    BY DEF CauseInv, DeviceInv, DeviceTypes, HandlerInv, Serve
  <1>1. Others(p)
    BY <1>0, OthersRest
  <1>2. \A q \in Procs : q # p => req'[q] = req[q]
    BY <1>1 DEF Others
  <1>4. CASE /\ req'[p].pc # "idle" \/ \A d \in Devices : serving[d] # p
             /\ UNCHANGED <<holds, serving>>
    <2>1. UNCHANGED device
      BY <1>0, <1>4 DEF device
    <2>2. CASE \E t \in Tokens : Inserts(p, t)
      BY <1>1, <2>1, <2>2, CauseInsert
    <2>3. CASE GoesOn(p) \/ Fails(p) \/ Answers(p)
      <3>1. parent' = parent
        BY <2>3 DEF GoesOn, Fails, Answers
      <3>2. req'[p].pc \in Presents => req[p].pc \in Presents /\ req'[p].token = req[p].token
        BY <2>3, IdleShape DEF GoesOn, Fails, Answers, Presents, Counting
      <3>3. Attended'
        BY <1>0, <1>2, <1>4, <3>2 DEF CauseInv, Attended
      <3>4. \A d \in Devices : Linking(d) => Linking(d)'
        <4>1. SUFFICES ASSUME NEW d \in Devices, Linking(d) PROVE Linking(d)'
          OBVIOUS
        <4>2. serving[d] # p
          BY <1>4, <2>3, <4>1, IdleShape DEF Linking, GoesOn, Fails, Answers, Counting
        <4>3. serving[d] \in Procs
          BY <1>0, <4>1 DEF Linking
        <4>4. QED
          BY <1>2, <1>4, <4>1, <4>2, <4>3 DEF Linking
      <3>5. QED
        BY <1>0, <1>4, <3>1, <3>3, <3>4, CauseStays
    <2>4. QED
      BY <1>0, <2>2, <2>3, StepShape
  <1>5. CASE req'[p].pc = "idle" /\ \E d \in Devices : Answer(d, p)
    <2>1. PICK d \in Devices : Answer(d, p)
      BY <1>5
    <2>2. /\ serving[d] = p /\ serving' = [serving EXCEPT ![d] = None]
          /\ \E h \in {None} \cup (handed' \ handed) : holds' = [holds EXCEPT ![d] = h]
          /\ Fails(p) \/ Answers(p)
      BY <1>0, <1>5, <2>1, AnswerShape
    <2>3. PICK h \in {None} \cup (handed' \ handed) : holds' = [holds EXCEPT ![d] = h]
      BY <2>2
    <2>4. parent' = parent
      BY <2>2 DEF Fails, Answers
    <2>5. Attended'
      <3>1. SUFFICES ASSUME NEW q \in Procs, req'[q].pc \in Presents, req'[q].token \notin doubtful
                     PROVE  \E e \in Devices : serving'[e] = q
        BY <1>0 DEF Attended
      <3>2. q # p
        BY <1>5, <3>1 DEF Presents
      <3>3. PICK e \in Devices : serving[e] = q
        BY <1>2, <3>1, <3>2 DEF CauseInv, Attended
      <3>4. e # d
        BY <2>2, <3>2, <3>3
      <3>5. QED
        BY <1>0, <2>2, <3>3, <3>4
    <2>6. \A e \in Devices :
             \/ holds'[e] \in {None} \cup (handed' \ handed) \cup doubtful'
             \/ holds'[e] = holds[e] /\ (Linking(e) => Linking(e)')
      <3>1. SUFFICES ASSUME NEW e \in Devices
                     PROVE  \/ holds'[e] \in {None} \cup (handed' \ handed) \cup doubtful'
                            \/ holds'[e] = holds[e] /\ (Linking(e) => Linking(e)')
        OBVIOUS
      <3>2. CASE e = d
        BY <1>0, <2>3, <3>2
      <3>3. CASE e # d
        <4>1. holds'[e] = holds[e] /\ serving'[e] = serving[e]
          BY <1>0, <2>2, <2>3, <3>3
        <4>2. serving[e] # None => serving[e] # p /\ serving[e] \in Procs
          BY <1>0, <2>2, <3>3 DEF DeviceInv, DevicesApart
        <4>3. QED
          BY <1>2, <4>1, <4>2 DEF Linking
      <3>4. QED
        BY <3>2, <3>3
    <2>7. QED
      BY <1>0, <2>4, <2>5, <2>6, CauseStays
  <1>6. QED
    BY <1>4, <1>5 DEF Serve

LEMMA CauseNext == CauseInv /\ [ClientNext]_allVars => CauseInv'
  <1> SUFFICES ASSUME CauseInv, [ClientNext]_allVars PROVE CauseInv'
    OBVIOUS
  <1>0. /\ DeviceInv /\ DeviceInv' /\ TypeOK
        /\ serving \in [Devices -> Procs \cup {None}]
        /\ holds \in [Devices -> handed \cup {None}]
    BY DeviceNext DEF CauseInv, DeviceInv, HandlerInv, DeviceTypes
  <1>1. ASSUME NEW d \in Devices, NEW p \in Procs, Requests(d, p) PROVE CauseInv'
    <2>1. /\ Others(p) /\ Sends(d, p) /\ req[p].pc = "idle" /\ parent' = parent
          /\ handed' = handed
      BY <1>0, <1>1, RequestShape
    <2>2. /\ serving[d] = None /\ serving' = [serving EXCEPT ![d] = p]
          /\ UNCHANGED <<holds, losses, doubtful>>
          /\ \A q \in Procs : q # p => req'[q] = req[q]
      BY <2>1 DEF Sends, Resting, Others
    <2>3. Attended'
      <3>1. SUFFICES ASSUME NEW q \in Procs, req'[q].pc \in Presents, req'[q].token \notin doubtful
                     PROVE  \E e \in Devices : serving'[e] = q
        BY <2>2 DEF Attended
      <3>2. CASE q = p
        BY <1>0, <2>2, <3>2
      <3>3. CASE q # p
        <4>1. PICK e \in Devices : serving[e] = q
          BY <2>2, <3>1, <3>3 DEF CauseInv, Attended
        <4>2. e # d
          BY <2>2, <4>1, ClientAssumption
        <4>3. QED
          BY <1>0, <2>2, <4>1, <4>2
      <3>4. QED
        BY <3>2, <3>3
    <2>4. \A e \in Devices : Linking(e) => Linking(e)'
      <3>1. SUFFICES ASSUME NEW e \in Devices, Linking(e) PROVE Linking(e)'
        OBVIOUS
      <3>2. e # d /\ serving[e] # p /\ serving[e] \in Procs
        BY <1>0, <2>1, <2>2, <3>1 DEF Linking
      <3>3. QED
        BY <1>0, <2>2, <3>1, <3>2 DEF Linking
    <2>6. QED
      BY <1>0, <2>1, <2>2, <2>3, <2>4, CauseStays
  <1>2. ASSUME UNCHANGED <<req, parent, handed, serving, losses, doubtful>>,
               \A d \in Devices : holds'[d] \in {None, holds[d]}
        PROVE  CauseInv'
    BY <1>0, <1>2, CauseStays DEF CauseInv, Attended, Linking
  <1>3. ASSUME NEW d \in Devices, Refused(d) PROVE CauseInv'
    BY <1>0, <1>2, <1>3 DEF Refused, vars
  <1>4. ASSUME NEW d \in Devices, TimesOut(d) PROVE CauseInv'
    BY <1>0, <1>4, CauseLost DEF TimesOut, Resting, vars
  <1>5. ASSUME NEW p \in Procs, Dies(p) PROVE CauseInv'
    <2>1. /\ req'[p] = Idle /\ parent' = parent /\ handed' = handed
          /\ \A q \in Procs : q # p => req'[q] = req[q]
      BY <1>0, <1>5, AbortShape, OthersRest DEF Dies, Others
    <2>2. CASE (\A d \in Devices : serving[d] # p) /\ UNCHANGED device
      <3>1. holds' = holds /\ serving' = serving /\ losses' = losses /\ doubtful' = doubtful
        BY <2>2 DEF device
      <3>2. Attended'
        BY <2>1, <3>1, IdleShape DEF CauseInv, Attended, Presents
      <3>3. \A e \in Devices : Linking(e) => Linking(e)'
        BY <1>0, <2>1, <2>2, <3>1 DEF Linking
      <3>5. QED
        BY <1>0, <2>1, <3>1, <3>2, <3>3, CauseStays
    <2>3. CASE \E d \in Devices : serving[d] = p /\ Unanswered(d)
      <3>1. PICK d \in Devices : serving[d] = p /\ Unanswered(d)
        BY <2>3
      <3>2. QED
        BY <1>0, <2>1, <3>1, CauseLost, ClientAssumption
    <2>4. QED
      BY <1>5, <2>2, <2>3 DEF Dies
  <1>6. ASSUME NEW p \in Procs, Serve(p) PROVE CauseInv'
    BY <1>0, <1>6, CauseServe
  <1>7. CASE Elsewhere
    BY <1>2, <1>7, BackgroundShape DEF Elsewhere, Background, device
  <1>8. CASE UNCHANGED allVars
    BY <1>2, <1>8 DEF allVars, vars, device
  <1>9. QED
    BY <1>0, <1>1, <1>3, <1>4, <1>5, <1>6, <1>7, <1>8, ClientSplit

(* Reuse detection, run with a token that has been exchanged, is run for a     *)
(* device that was left without an answer when it presented that token.       *)
THEOREM ReuseAlwaysHasCause == ClientSpec => []ReuseHasCause
  <1>1. ASSUME CauseInv, NEW p \in Procs, req[p].pc = "reuse",
               req[p].token \notin doubtful, NEW s \in Tokens
        PROVE  parent[s] # req[p].token
    <2>1. PICK d \in Devices : serving[d] = p
      BY <1>1 DEF CauseInv, Attended, Presents
    <2>2. holds[d] = req[p].token
      BY <1>1, <2>1, ClientAssumption
         DEF CauseInv, DeviceInv, Served, Presented, Presents
    <2>3. req[p].token # None
      BY <1>1, SessionsAssumption DEF CauseInv, DeviceInv, HandlerInv, TypeOK, Remembers
    <2>4. ~Linking(d)
      BY <1>1, <2>1 DEF Linking
    <2>5. QED
      BY <1>1, <2>2, <2>3, <2>4 DEF CauseInv, Unspent
  <1>2. CauseInv => ReuseHasCause
    BY <1>1 DEF ReuseHasCause
  <1>3. QED
    BY <1>2, CauseInit, CauseNext, PTL DEF ClientSpec

-----------------------------------------------------------------------------
(* Single use.  A token that is not raced is in one exchange at a time.  While  *)
(* its second half runs, and from the successor on, the token is revoked, so   *)
(* that no request finds it active again.                                    *)

Exchanging(r) == r.pc \in {"rotate", "reissue"}

OneExchange ==
    \A p, q \in Procs :
        /\ Exchanging(req[p]) /\ Exchanging(req[q])
        /\ req[p].token = req[q].token /\ req[p].token \notin raced
        => p = q

OneSuccessor ==
    \A s, t \in Tokens :
        parent[s] # None /\ parent[s] = parent[t] /\ parent[s] \notin raced => s = t

SpentRevoked == \A s \in Tokens : parent[s] # None => Revoked(parent[s])

SpentRests ==
    \A s \in Tokens, p \in Procs :
        Exchanging(req[p]) /\ parent[s] = req[p].token => req[p].token \in raced

SpentInv == DeviceInv /\ OneExchange /\ OneSuccessor /\ SpentRevoked /\ SpentRests

LEMMA SpentInit == ClientInit => SpentInv
  <1> SUFFICES ASSUME ClientInit PROVE SpentInv
    OBVIOUS
  <1>1. /\ \A p \in Procs : ~Exchanging(req[p])
        /\ \A t \in Tokens : parent[t] = None
    BY IdleShape DEF ClientInit, Init, Exchanging
  <1>2. QED
    BY <1>1, DeviceInit DEF SpentInv, OneExchange, OneSuccessor, SpentRevoked, SpentRests

(* No exchange begins and none ends with a successor. *)
LEMMA SpentStays ==
    ASSUME SpentInv, DeviceInv', [Next]_vars, parent' = parent, raced \subseteq raced',
           \A q \in Procs : Exchanging(req'[q]) =>
               Exchanging(req[q]) /\ req'[q].token = req[q].token
    PROVE  SpentInv'
  <1>1. OneExchange'
    BY DEF SpentInv, OneExchange, Exchanging
  <1>2. OneSuccessor'
    BY DEF SpentInv, OneSuccessor
  <1>3. SpentRests'
    BY DEF SpentInv, SpentRests, Exchanging
  <1>4. SpentRevoked'
    <2>1. SUFFICES ASSUME NEW s \in Tokens, NEW t \in Tokens, parent[s] = t PROVE Revoked(t)'
      BY SessionsAssumption DEF SpentRevoked, SpentInv, DeviceInv, HandlerInv, TypeOK, Revoked, IsStored
    <2>2. Revoked(t) /\ Issued(t)
      BY <2>1, SessionsAssumption
         DEF SpentInv, SpentRevoked, DeviceInv, HandlerInv, ParentsHanded, HandedIssued
    <2>3. QED
      BY <2>2, OverNext DEF SpentInv, DeviceInv, HandlerInv
  <1>5. QED
    BY <1>1, <1>2, <1>3, <1>4 DEF SpentInv

(* An exchange begins: its token is found active, so it has no successor and  *)
(* no handler that has revoked it, and a handler about to makes it raced.      *)
LEMMA SpentBegins ==
    ASSUME SpentInv, DeviceInv', [Next]_vars, NEW d \in Devices, NEW p \in Procs, Requests(d, p)
    PROVE  SpentInv'
  <1>0. /\ DeviceInv /\ req \in [Procs -> Req]
        /\ \A q \in Procs : Knows(req[q])
    BY DEF SpentInv, DeviceInv, HandlerInv, TypeOK
  <1>1. /\ Others(p) /\ parent' = parent /\ row' = row /\ raced \subseteq raced'
        /\ req[p].pc = "idle" /\ req'[p].pc # "reissue"
        /\ req'[p].pc = "rotate" => req'[p].token = holds[d]
    BY <1>0, RequestShape
  <1>2. CASE req'[p].pc # "rotate"
    <2>1. \A q \in Procs : Exchanging(req'[q]) =>
             Exchanging(req[q]) /\ req'[q].token = req[q].token
      BY <1>1, <1>2 DEF Exchanging, Others
    <2>2. QED
      BY <1>1, <2>1, SpentStays
  <1>3. CASE req'[p].pc = "rotate"
    <2>1. SendRefresh(d, p)
      BY <1>0, <1>3 DEF Requests, SendLogin, BeginLogin, SendLogout, BeginLogout, Idle
    <2> PICK t : t = holds[d]
      OBVIOUS
    <2>2. RefreshReused(p, t) => req'[p].pc = "reuse"
      BY <1>0 DEF RefreshReused, Idle
    <2>3. /\ RefreshAccepted(p, t)
          /\ raced' = IF Rotating(t) THEN raced \cup {t} ELSE raced
      BY <1>3, <2>1, <2>2 DEF SendRefresh
    <2>4. ~Revoked(t) /\ t \in handed
      BY <2>3 DEF RefreshAccepted, Revoked
    <2>5. \A q \in Procs : Exchanging(req[q]) /\ req[q].token = t => t \in raced'
      <3>1. SUFFICES ASSUME NEW q \in Procs, Exchanging(req[q]), req[q].token = t
                     PROVE  t \in raced'
        OBVIOUS
      <3>2. req[q].pc # "reissue"
        BY <1>0, <2>4, <3>1 DEF Knows
      <3>3. Rotating(t)
        BY <3>1, <3>2 DEF Exchanging, Rotating
      <3>4. QED
        BY <2>3, <3>3
    <2>6. \A s \in Tokens : parent[s] # t
      BY <2>4, SessionsAssumption
         DEF SpentInv, SpentRevoked, DeviceInv, HandlerInv, TypeOK
    <2>7. /\ req'[p].token = t
          /\ \A q \in Procs : q # p => req'[q] = req[q]
      BY <1>1, <1>3 DEF Others
    <2>8. OneExchange'
      BY <1>1, <2>5, <2>7 DEF SpentInv, OneExchange, Exchanging
    <2>9. OneSuccessor' /\ SpentRevoked'
      BY <1>1 DEF SpentInv, OneSuccessor, SpentRevoked, Revoked, IsStored
    <2>10. SpentRests'
      BY <1>1, <2>6, <2>7 DEF SpentInv, SpentRests, Exchanging
    <2>11. QED
      BY <2>8, <2>9, <2>10 DEF SpentInv
  <1>4. QED
    BY <1>2, <1>3

(* An exchange ends with a successor. *)
LEMMA SpentInserts ==
    ASSUME SpentInv, DeviceInv', NEW p \in Procs, NEW t \in Tokens, Inserts(p, t), Others(p),
           raced' = raced
    PROVE  SpentInv'
  <1>0. /\ DeviceInv /\ parent \in [Tokens -> Tokens \cup {None}] /\ TypeOK
        /\ Knows(req[p]) /\ HandedIssued /\ ParentsHanded
    BY DEF SpentInv, DeviceInv, HandlerInv, TypeOK
  <1>1. /\ \A q \in Procs : q # p => req'[q] = req[q]
        /\ \A s \in Tokens : s # t => parent'[s] = parent[s] /\ row'[s] = row[s]
        /\ ~Exchanging(req'[p]) /\ ~Issued(t)
    BY <1>0 DEF Others, Inserts, Exchanging
  <1>2. OneExchange'
    BY <1>1 DEF SpentInv, OneExchange
  <1>3. \A s \in Tokens : s # t /\ Revoked(s) => Revoked(s)'
    BY <1>1 DEF Revoked, IsStored
  <1>4. \A s \in Tokens : s # t /\ parent[s] # None => Revoked(parent[s])' /\ parent[s] # t
    <2>1. SUFFICES ASSUME NEW s \in Tokens, s # t, NEW f \in Tokens, parent[s] = f
                   PROVE  Revoked(f)' /\ f # t
      BY <1>0, <1>1 DEF Revoked, IsStored
    <2>2. Revoked(f) /\ Issued(f)
      BY <1>0, <2>1, SessionsAssumption DEF SpentInv, SpentRevoked, ParentsHanded, HandedIssued
    <2>3. QED
      BY <1>1, <1>3, <2>2
  <1>5. CASE parent'[t] = None
    <2>1. OneSuccessor'
      BY <1>1, <1>5 DEF SpentInv, OneSuccessor
    <2>2. SpentRests'
      BY <1>0, <1>1, <1>5, SessionsAssumption DEF SpentInv, SpentRests, Exchanging, DeviceInv,
         HandlerInv, Knows, Presents, TypeOK
    <2>3. SpentRevoked'
      BY <1>1, <1>4, <1>5 DEF SpentRevoked
    <2>4. QED
      BY <1>2, <2>1, <2>2, <2>3 DEF SpentInv
  <1>6. CASE req[p].pc = "reissue" /\ parent'[t] = req[p].token
    <2> PICK f : f = req[p].token
      OBVIOUS
    <2>1. Exchanging(req[p]) /\ Revoked(f) /\ f \in handed /\ Issued(f) /\ f \in Tokens
      BY <1>0, <1>6 DEF Exchanging, Knows, Presents, HandedIssued, TypeOK
    <2>2. \A s \in Tokens : s # t /\ f \notin raced => parent'[s] # f
      BY <1>1, <2>1 DEF SpentInv, SpentRests
    <2>3. OneSuccessor'
      BY <1>1, <1>6, <2>2 DEF SpentInv, OneSuccessor
    <2>4. f # t /\ Revoked(f)'
      BY <1>1, <1>3, <2>1
    <2>5. SpentRevoked'
      BY <1>1, <1>4, <1>6, <2>4 DEF SpentRevoked
    <2>6. SpentRests'
      BY <1>1, <1>6, <2>1 DEF SpentInv, SpentRests, OneExchange
    <2>7. QED
      BY <1>2, <2>3, <2>5, <2>6 DEF SpentInv
  <1>7. QED
    BY <1>0, <1>5, <1>6 DEF Inserts

LEMMA SpentNext == SpentInv /\ [ClientNext]_allVars => SpentInv'
  <1> SUFFICES ASSUME SpentInv, [ClientNext]_allVars PROVE SpentInv'
    OBVIOUS
  <1>0. DeviceInv /\ DeviceInv' /\ TypeOK /\ [Next]_vars
    BY DeviceNext, ClientSplit DEF SpentInv, DeviceInv, HandlerInv
  <1>1. ASSUME NEW d \in Devices, NEW p \in Procs, Requests(d, p) PROVE SpentInv'
    BY <1>0, <1>1, SpentBegins
  <1>2. ASSUME UNCHANGED <<req, parent, raced>> PROVE SpentInv'
    BY <1>0, <1>2, SpentStays
  <1>3. ASSUME NEW d \in Devices, Refused(d) \/ TimesOut(d) PROVE SpentInv'
    BY <1>2, <1>3 DEF Refused, TimesOut, Unanswered, vars
  <1>4. ASSUME NEW p \in Procs, Dies(p) PROVE SpentInv'
    <2>1. raced' = raced
      BY <1>4 DEF Dies, Unanswered, device
    <2>2. Others(p) /\ req'[p] = Idle /\ parent' = parent
      BY <1>0, <1>4, OthersRest, AbortShape DEF Dies
    <2>3. QED
      BY <1>0, <2>1, <2>2, IdleShape, SpentStays DEF Others, Exchanging
  <1>5. ASSUME NEW p \in Procs, Serve(p) PROVE SpentInv'
    <2>1. Step(p) /\ raced' = raced /\ Others(p)
      BY <1>0, <1>5, OthersRest DEF Serve
    <2>2. CASE \E t \in Tokens : Inserts(p, t)
      BY <1>0, <2>1, <2>2, SpentInserts
    <2>3. CASE GoesOn(p) \/ Fails(p) \/ Answers(p)
      <3>1. parent' = parent
        BY <2>3 DEF GoesOn, Fails, Answers
      <3>2. Exchanging(req'[p]) => Exchanging(req[p]) /\ req'[p].token = req[p].token
        BY <2>3, IdleShape DEF GoesOn, Fails, Answers, Exchanging
      <3>3. QED
        BY <1>0, <2>1, <3>1, <3>2, SpentStays DEF Others
    <2>4. QED
      BY <1>0, <2>1, <2>2, <2>3, StepShape
  <1>6. CASE Elsewhere
    BY <1>2, <1>6, BackgroundShape DEF Elsewhere, Background, device
  <1>7. CASE UNCHANGED allVars
    BY <1>2, <1>7 DEF allVars, vars, device
  <1>8. QED
    BY <1>0, <1>1, <1>3, <1>4, <1>5, <1>6, <1>7, ClientSplit

(* refreshTokens tests revoked and revokes in two statements.  A token is      *)
(* exchanged twice only if a second refresh reads it between these two: once   *)
(* it is revoked, no repetition, whatever answers were lost and handlers cut   *)
(* short, gets a second successor.                                           *)
THEOREM SingleUseHolds == ClientSpec => []SingleUseUnlessRaced
  <1>1. SpentInv => SingleUseUnlessRaced
    BY DEF SpentInv, OneSuccessor, SingleUseUnlessRaced
  <1>2. QED
    BY <1>1, SpentInit, SpentNext, PTL DEF ClientSpec

-----------------------------------------------------------------------------
(* What repeated requests may cost.  An active session that no device keeps   *)
(* and no handler is about to hand out or to revoke is an orphan.  For each   *)
(* orphan, and for each handler at work that no device waits for and that may *)
(* still leave one behind, an answer was lost.                                *)

(* The active session a handler answers for: the one it will revoke by id, or *)
(* the one it has made.                                                      *)
Covers(r) == IF r.pc \in {"rotate", "logout"} THEN r.token ELSE Made(r)

Live(t) == IsStored(t) /\ ~row[t].revoked /\ row[t].age = Fresh

Orphans == {t \in Tokens : /\ Live(t)
                           /\ \A d \in Devices : holds[d] # t
                           /\ \A p \in Procs : Covers(req[p]) # t}

Unattended == {p \in Procs : req[p].pc # "idle" /\ \A d \in Devices : serving[d] # p}

BalanceInv == DeviceInv /\ Cardinality(Orphans) + Cardinality(Unattended) <= losses

LEMMA BalanceFinite ==
    /\ IsFiniteSet(Orphans) /\ Cardinality(Orphans) \in Nat
    /\ IsFiniteSet(Unattended) /\ Cardinality(Unattended) \in Nat
  <1>1. IsFiniteSet(Tokens) /\ IsFiniteSet(Procs)
    BY SessionsAssumption
  <1>2. Orphans \in SUBSET Tokens /\ Unattended \in SUBSET Procs
    BY DEF Orphans, Unattended
  <1>3. IsFiniteSet(Orphans) /\ IsFiniteSet(Unattended)
    BY <1>1, <1>2, FS_Subset
  <1>4. QED
    BY <1>3, FS_CardinalityType

LEMMA BalanceInit == ClientInit => BalanceInv
  <1> SUFFICES ASSUME ClientInit PROVE BalanceInv
    OBVIOUS
  <1>1. Orphans = {}
    BY DEF ClientInit, Init, Orphans, Live, IsStored, Unissued, Blank
  <1>2. Unattended = {}
    BY IdleShape DEF ClientInit, Init, Unattended
  <1>3. losses = 0
    BY DEF ClientInit
  <1>4. QED
    BY <1>1, <1>2, <1>3, DeviceInit, FS_EmptySet DEF BalanceInv

(* Cardinalities: no orphan and no unattended handler more; one handler less, *)
(* for one orphan; one loss more, for one of either.                         *)
LEMMA SubsetCard ==
    ASSUME NEW S, NEW T, IsFiniteSet(T), S \subseteq T
    PROVE  Cardinality(S) \in Nat /\ Cardinality(T) \in Nat /\ Cardinality(S) <= Cardinality(T)
  BY FS_Subset, FS_CardinalityType

LEMMA AddCard ==
    ASSUME NEW S, NEW T, NEW x, IsFiniteSet(T), S \subseteq T \cup {x}
    PROVE  /\ Cardinality(S) \in Nat /\ Cardinality(T) \in Nat
           /\ Cardinality(S) <= Cardinality(T) + 1
  <1>1. IsFiniteSet(T \cup {x}) /\ Cardinality(T \cup {x}) <= Cardinality(T) + 1
        /\ Cardinality(T) \in Nat
    BY FS_AddElement, FS_CardinalityType
  <1>2. Cardinality(S) \in Nat /\ Cardinality(S) <= Cardinality(T \cup {x})
        /\ Cardinality(T \cup {x}) \in Nat
    BY <1>1, SubsetCard
  <1>3. QED
    BY <1>1, <1>2

LEMMA UnionCard ==
    ASSUME NEW S, NEW T, IsFiniteSet(S), IsFiniteSet(T)
    PROVE  /\ IsFiniteSet(S \cup T) /\ Cardinality(S \cup T) \in Nat
           /\ Cardinality(S \cup T) <= Cardinality(S) + Cardinality(T)
  <1>1. /\ IsFiniteSet(S \cup T)
        /\ Cardinality(S \cup T) = Cardinality(S) + Cardinality(T) - Cardinality(S \cap T)
    BY FS_Union
  <1>2. /\ IsFiniteSet(S \cap T) /\ Cardinality(S) \in Nat /\ Cardinality(T) \in Nat
    BY FS_Intersection, FS_CardinalityType
  <1>3. Cardinality(S \cap T) \in Nat /\ Cardinality(S \cup T) \in Nat
    BY <1>1, <1>2, FS_CardinalityType
  <1>4. QED
    BY <1>1, <1>2, <1>3

LEMMA NothingLost ==
    ASSUME BalanceInv, DeviceInv', Orphans' \subseteq Orphans, Unattended' \subseteq Unattended,
           losses' = losses
    PROVE  BalanceInv'
  <1>1. /\ Cardinality(Orphans') \in Nat /\ Cardinality(Orphans') <= Cardinality(Orphans)
        /\ Cardinality(Unattended') \in Nat /\ Cardinality(Unattended') <= Cardinality(Unattended)
        /\ Cardinality(Orphans) \in Nat /\ Cardinality(Unattended) \in Nat
    BY BalanceFinite, SubsetCard
  <1>2. losses \in Nat /\ Cardinality(Orphans) + Cardinality(Unattended) <= losses
    BY DEF BalanceInv, DeviceInv, DeviceTypes
  <1>3. Cardinality(Orphans') + Cardinality(Unattended') <= losses'
    BY <1>1, <1>2
  <1>4. QED
    BY <1>3 DEF BalanceInv

LEMMA HandlerGone ==
    ASSUME BalanceInv, DeviceInv', NEW p \in Unattended, NEW x,
           Orphans' \subseteq Orphans \cup {x}, Unattended' \subseteq Unattended \ {p},
           losses' = losses
    PROVE  BalanceInv'
  <1>1. /\ Cardinality(Orphans') \in Nat /\ Cardinality(Orphans') <= Cardinality(Orphans) + 1
        /\ Cardinality(Orphans) \in Nat
    BY BalanceFinite, AddCard
  <1>2. /\ IsFiniteSet(Unattended \ {p}) /\ Cardinality(Unattended) \in Nat
        /\ Cardinality(Unattended \ {p}) = Cardinality(Unattended) - 1
    BY BalanceFinite, FS_RemoveElement
  <1>3. /\ Cardinality(Unattended') \in Nat
        /\ Cardinality(Unattended') <= Cardinality(Unattended) - 1
    BY <1>2, SubsetCard
  <1>4. losses \in Nat /\ Cardinality(Orphans) + Cardinality(Unattended) <= losses
    BY DEF BalanceInv, DeviceInv, DeviceTypes
  <1>5. Cardinality(Orphans') + Cardinality(Unattended') <= losses'
    BY <1>1, <1>2, <1>3, <1>4
  <1>6. QED
    BY <1>5 DEF BalanceInv

LEMMA AnswerLost ==
    ASSUME BalanceInv, DeviceInv', NEW x,
           \/ Orphans' \subseteq Orphans \cup {x} /\ Unattended' \subseteq Unattended
           \/ Orphans' \subseteq Orphans /\ Unattended' \subseteq Unattended \cup {x},
           losses' = losses + 1
    PROVE  BalanceInv'
  <1>1. losses \in Nat /\ Cardinality(Orphans) + Cardinality(Unattended) <= losses
    BY DEF BalanceInv, DeviceInv, DeviceTypes
  <1>2. CASE Orphans' \subseteq Orphans \cup {x} /\ Unattended' \subseteq Unattended
    <2>1. /\ Cardinality(Orphans') \in Nat /\ Cardinality(Orphans') <= Cardinality(Orphans) + 1
          /\ Cardinality(Unattended') \in Nat
          /\ Cardinality(Unattended') <= Cardinality(Unattended)
          /\ Cardinality(Orphans) \in Nat /\ Cardinality(Unattended) \in Nat
      BY <1>2, BalanceFinite, SubsetCard, AddCard
    <2>2. Cardinality(Orphans') + Cardinality(Unattended') <= losses'
      BY <1>1, <2>1
    <2>3. QED
      BY <2>2 DEF BalanceInv
  <1>3. CASE Orphans' \subseteq Orphans /\ Unattended' \subseteq Unattended \cup {x}
    <2>1. /\ Cardinality(Unattended') \in Nat
          /\ Cardinality(Unattended') <= Cardinality(Unattended) + 1
          /\ Cardinality(Orphans') \in Nat /\ Cardinality(Orphans') <= Cardinality(Orphans)
          /\ Cardinality(Orphans) \in Nat /\ Cardinality(Unattended) \in Nat
      BY <1>3, BalanceFinite, SubsetCard, AddCard
    <2>2. Cardinality(Orphans') + Cardinality(Unattended') <= losses'
      BY <1>1, <2>1
    <2>3. QED
      BY <2>2 DEF BalanceInv
  <1>4. QED
    BY <1>2, <1>3

LEMMA LiveFades ==
    ASSUME NEW t \in Tokens, FadesOrLinks(t), Live(t)'
    PROVE  Live(t)
  BY DEF FadesOrLinks, Live, IsStored, Deleted, Blank

LEMMA CoversIdle == Covers(Idle) = None
  BY IdleShape DEF Covers

(* An active session that a device keeps while a handler serves it is the one *)
(* the handler is about to revoke.                                           *)
LEMMA KeptIsCovered ==
    ASSUME DeviceInv, NEW d \in Devices, NEW t \in Tokens, holds[d] = t, Live(t),
           serving[d] # None
    PROVE  Covers(req[serving[d]]) = t
  <1>1. t # None /\ serving[d] \in Procs /\ Presented(req[serving[d]]) = t
    BY SessionsAssumption DEF DeviceInv, DeviceTypes, Served
  <1>2. req[serving[d]].pc \in Presents /\ req[serving[d]].token = t
    BY <1>1 DEF Presented
  <1>3. req[serving[d]].pc \in {"reissue", "link", "reuse"} => Revoked(t)
    BY <1>1, <1>2 DEF DeviceInv, HandlerInv, Knows
  <1>4. ~Revoked(t)
    BY DEF Live, Revoked
  <1>5. QED
    BY <1>2, <1>3, <1>4 DEF Presents, Covers

LEMMA BalanceRequest ==
    ASSUME BalanceInv, DeviceInv', NEW d \in Devices, NEW p \in Procs, Requests(d, p)
    PROVE  BalanceInv'
  <1>0. DeviceInv /\ serving \in [Devices -> Procs \cup {None}]
    BY DEF BalanceInv, DeviceInv, DeviceTypes
  <1>1. /\ row' = row /\ holds' = holds /\ losses' = losses
        /\ serving[d] = None /\ serving' = [serving EXCEPT ![d] = p]
        /\ req[p].pc = "idle" /\ \A q \in Procs : q # p => req'[q] = req[q]
    BY <1>0, RequestShape DEF Sends, Resting, Others
  <1>2. Covers(req[p]) = None
    BY <1>1 DEF Covers, Made, Counting
  <1>3. Orphans' \subseteq Orphans
    <2>1. ASSUME NEW t \in Orphans' PROVE t \in Orphans
      <3>1. /\ t \in Tokens /\ Live(t)' /\ \A e \in Devices : holds'[e] # t
            /\ \A q \in Procs : Covers(req'[q]) # t
        BY <2>1 DEF Orphans, Covers, Made
      <3>2. Live(t) /\ t # None
        BY <1>1, <3>1, SessionsAssumption DEF Live, IsStored
      <3>3. \A q \in Procs : Covers(req[q]) # t
        BY <1>1, <1>2, <3>1, <3>2
      <3>4. QED
        BY <1>1, <3>1, <3>2, <3>3 DEF Orphans
    <2>2. QED
      BY <2>1
  <1>4. Unattended' \subseteq Unattended
    <2>1. ASSUME NEW q \in Unattended' PROVE q \in Unattended
      <3>1. q \in Procs /\ req'[q].pc # "idle" /\ \A e \in Devices : serving'[e] # q
        BY <2>1 DEF Unattended
      <3>2. q # p
        BY <1>0, <1>1, <3>1
      <3>3. \A e \in Devices : serving[e] # q
        BY <1>0, <1>1, <3>1, ClientAssumption
      <3>4. QED
        BY <1>1, <3>1, <3>2, <3>3 DEF Unattended
    <2>2. QED
      BY <2>1
  <1>5. QED
    BY <1>1, <1>3, <1>4, NothingLost

(* The table fades or rests and no handler or device moves. *)
LEMMA BalanceFades ==
    ASSUME BalanceInv, DeviceInv', \A t \in Tokens : FadesOrLinks(t),
           UNCHANGED <<req, holds, serving, losses>>
    PROVE  BalanceInv'
  <1>1. Orphans' \subseteq Orphans
    BY LiveFades DEF Orphans, Covers, Made
  <1>2. Unattended' \subseteq Unattended
    BY DEF Unattended
  <1>3. QED
    BY <1>1, <1>2, NothingLost

LEMMA BalanceRefused ==
    ASSUME BalanceInv, DeviceInv', NEW d \in Devices, Refused(d)
    PROVE  BalanceInv'
  <1>1. /\ row' = row /\ req' = req /\ serving' = serving /\ losses' = losses
        /\ holds' = [holds EXCEPT ![d] = None]
    BY DEF Refused, vars
  <1>2. ~IsStored(holds[d]) \/ row[holds[d]].age = Past
    BY DEF Refused
  <1>3. Orphans' \subseteq Orphans
    <2>1. ASSUME NEW t \in Orphans' PROVE t \in Orphans
      <3>1. /\ t \in Tokens /\ Live(t)' /\ \A e \in Devices : holds'[e] # t
            /\ \A q \in Procs : Covers(req'[q]) # t
        BY <2>1 DEF Orphans, Covers, Made
      <3>2. Live(t)
        BY <1>1, <3>1 DEF Live, IsStored
      <3>3. holds[d] # t
        BY <1>2, <3>2 DEF Live, Fresh, Past
      <3>4. holds \in [Devices -> handed \cup {None}]
        BY DEF BalanceInv, DeviceInv, DeviceTypes
      <3>5. \A e \in Devices : holds[e] # t
        BY <1>1, <3>1, <3>3, <3>4
      <3>6. QED
        BY <1>1, <3>1, <3>2, <3>5 DEF Orphans
    <2>2. QED
      BY <2>1
  <1>4. Unattended' \subseteq Unattended
    BY <1>1 DEF Unattended
  <1>5. QED
    BY <1>1, <1>3, <1>4, NothingLost

LEMMA BalanceTimesOut ==
    ASSUME BalanceInv, DeviceInv', NEW d \in Devices, TimesOut(d)
    PROVE  BalanceInv'
  <1>0. /\ DeviceInv /\ serving \in [Devices -> Procs \cup {None}]
        /\ holds \in [Devices -> handed \cup {None}]
    BY DEF BalanceInv, DeviceInv, DeviceTypes
  <1>1. /\ row' = row /\ req' = req /\ handed' = handed /\ serving[d] # None
        /\ Unanswered(d)
    BY DEF TimesOut, Resting, vars
  <1>2. serving' = [serving EXCEPT ![d] = None] /\ losses' = losses + 1
    BY <1>0, <1>1, UnansweredShape
  <1>3. PICK h \in {None, holds[d]} : holds' = [holds EXCEPT ![d] = h]
    BY <1>0, <1>1, UnansweredShape
  <1>4. Orphans' \subseteq Orphans
    <2>1. ASSUME NEW t \in Orphans' PROVE t \in Orphans
      <3>1. /\ t \in Tokens /\ Live(t)' /\ \A e \in Devices : holds'[e] # t
            /\ \A q \in Procs : Covers(req'[q]) # t
        BY <2>1 DEF Orphans, Covers, Made
      <3>2. Live(t) /\ \A q \in Procs : Covers(req[q]) # t
        BY <1>1, <3>1 DEF Live, IsStored
      <3>3. holds[d] # t
        BY <1>0, <1>1, <3>1, <3>2, KeptIsCovered
      <3>4. \A e \in Devices : holds[e] # t
        BY <1>0, <1>3, <3>1, <3>3
      <3>5. QED
        BY <3>1, <3>2, <3>4 DEF Orphans
    <2>2. QED
      BY <2>1
  <1>5. Unattended' \subseteq Unattended \cup {serving[d]}
    <2>1. ASSUME NEW q \in Unattended', q # serving[d] PROVE q \in Unattended
      <3>1. q \in Procs /\ req'[q].pc # "idle" /\ \A e \in Devices : serving'[e] # q
        BY <2>1 DEF Unattended
      <3>2. \A e \in Devices : serving[e] # q
        BY <1>0, <1>2, <2>1, <3>1
      <3>3. QED
        BY <1>1, <3>1, <3>2 DEF Unattended
    <2>2. QED
      BY <2>1
  <1>6. QED
    BY <1>2, <1>4, <1>5, AnswerLost

LEMMA BalanceDies ==
    ASSUME BalanceInv, DeviceInv', NEW p \in Procs, Dies(p)
    PROVE  BalanceInv'
  <1>0. /\ DeviceInv /\ serving \in [Devices -> Procs \cup {None}] /\ TypeOK
        /\ holds \in [Devices -> handed \cup {None}]
    BY DEF BalanceInv, DeviceInv, HandlerInv, DeviceTypes
  <1>1. /\ row' = row /\ handed' = handed /\ req'[p] = Idle /\ req[p].pc # "idle"
        /\ \A q \in Procs : q # p => req'[q] = req[q]
    BY <1>0, AbortShape, OthersRest DEF Dies, Others
  <1>2. ASSUME NEW t \in Orphans', t # Covers(req[p])
        PROVE  /\ t \in Tokens /\ Live(t) /\ \A e \in Devices : holds'[e] # t
               /\ \A q \in Procs : Covers(req[q]) # t
    <2>1. /\ t \in Tokens /\ Live(t)' /\ \A e \in Devices : holds'[e] # t
          /\ \A q \in Procs : Covers(req'[q]) # t
      BY <1>2 DEF Orphans, Covers, Made
    <2>2. Live(t)
      BY <1>1, <2>1 DEF Live, IsStored
    <2>3. \A q \in Procs : Covers(req[q]) # t
      BY <1>1, <1>2, <2>1
    <2>4. QED
      BY <2>1, <2>2, <2>3
  <1>3. CASE (\A d \in Devices : serving[d] # p) /\ UNCHANGED device
    <2>1. holds' = holds /\ serving' = serving /\ losses' = losses
      BY <1>3 DEF device
    <2>2. p \in Unattended
      BY <1>1, <1>3 DEF Unattended
    <2>3. Orphans' \subseteq Orphans \cup {Covers(req[p])}
      BY <1>2, <2>1 DEF Orphans
    <2>4. Unattended' \subseteq Unattended \ {p}
      BY <1>1, <2>1, IdleShape DEF Unattended
    <2>5. QED
      BY <2>1, <2>2, <2>3, <2>4, HandlerGone
  <1>4. CASE \E d \in Devices : serving[d] = p /\ Unanswered(d)
    <2>1. PICK d \in Devices : serving[d] = p /\ Unanswered(d)
      BY <1>4
    <2>2. serving' = [serving EXCEPT ![d] = None] /\ losses' = losses + 1 /\ serving[d] # None
      BY <1>0, <1>1, <2>1, UnansweredShape, ClientAssumption
    <2>3. PICK h \in {None, holds[d]} : holds' = [holds EXCEPT ![d] = h]
      BY <1>0, <1>1, <2>1, UnansweredShape
    <2>4. Orphans' \subseteq Orphans \cup {Covers(req[p])}
      <3>1. ASSUME NEW t \in Orphans', t # Covers(req[p]) PROVE t \in Orphans
        <4>1. /\ t \in Tokens /\ Live(t) /\ \A e \in Devices : holds'[e] # t
              /\ \A q \in Procs : Covers(req[q]) # t
          BY <1>2, <3>1
        <4>2. holds[d] # t
          BY <1>0, <2>1, <2>2, <4>1, KeptIsCovered
        <4>3. \A e \in Devices : holds[e] # t
          BY <1>0, <2>3, <4>1, <4>2
        <4>4. QED
          BY <4>1, <4>3 DEF Orphans
      <3>2. QED
        BY <3>1
    <2>5. Unattended' \subseteq Unattended
      <3>1. ASSUME NEW q \in Unattended' PROVE q \in Unattended
        <4>1. q \in Procs /\ req'[q].pc # "idle" /\ \A e \in Devices : serving'[e] # q
          BY <3>1 DEF Unattended
        <4>2. q # p
          BY <1>1, <4>1, IdleShape
        <4>3. \A e \in Devices : serving[e] # q
          BY <1>0, <2>1, <2>2, <4>1, <4>2
        <4>4. QED
          BY <1>1, <4>1, <4>2, <4>3 DEF Unattended
      <3>2. QED
        BY <3>1
    <2>6. QED
      BY <2>2, <2>4, <2>5, AnswerLost
  <1>5. QED
    BY <1>3, <1>4 DEF Dies

(* After a statement of p, a session that is active was active before, or p    *)
(* has just made it; and p covers it still, has revoked it or is done.        *)
LEMMA StepSessions ==
    ASSUME DeviceInv, NEW p \in Procs, Step(p), NEW t \in Tokens, Live(t)',
           \A q \in Procs : Covers(req'[q]) # t
    PROVE  /\ Live(t)
           /\ req'[p].pc # "idle" => \A q \in Procs : Covers(req[q]) # t
           /\ \A q \in Procs : q # p => Covers(req[q]) # t
           /\ Covers(req[p]) = t => Answers(p) /\ Made(req[p]) = t
  <1>0. TypeOK /\ t # None
    BY SessionsAssumption DEF DeviceInv, HandlerInv
  <1>1. \A q \in Procs : q # p => req'[q] = req[q]
    BY <1>0, OthersRest DEF Others
  <1>2. \A q \in Procs : q # p => Covers(req[q]) # t
    BY <1>1
  <1>3. CASE \E s \in Tokens : Inserts(p, s)
    <2>1. PICK s \in Tokens : Inserts(p, s)
      BY <1>3
    <2>2. Covers(req'[p]) = s
      BY <2>1 DEF Inserts, Covers, Made, Counting
    <2>3. row'[t] = row[t]
      BY <2>1, <2>2 DEF Inserts
    <2>4. Covers(req[p]) = None
      BY <2>1 DEF Inserts, Covers, Made, Counting
    <2>5. QED
      BY <1>0, <1>2, <2>3, <2>4 DEF Live, IsStored
  <1>4. CASE GoesOn(p)
    <2>1. Live(t)
      BY <1>4, LiveFades DEF GoesOn
    <2>2. CASE req[p].pc \in Counting /\ req'[p].pc \in {"find", "evict"}
      <3>1. Covers(req[p]) = Covers(req'[p])
        BY <1>4, <2>2 DEF GoesOn, Covers, Made, Counting
      <3>2. QED
        BY <1>2, <2>1, <3>1
    <2>3. CASE req[p].pc = "rotate" /\ req'[p].pc = "reissue" /\ Revoked(req[p].token)'
      <3>1. Covers(req[p]) = req[p].token /\ req'[p].token = req[p].token
        BY <1>4, <2>3 DEF GoesOn, Covers
      <3>2. t # req[p].token
        BY <2>3, <3>1 DEF Live, Revoked
      <3>3. QED
        BY <1>2, <2>1, <3>1, <3>2
    <2>4. QED
      BY <1>4, <2>2, <2>3 DEF GoesOn
  <1>5. CASE Fails(p)
    <2>1. Live(t) /\ req'[p].pc = "idle"
      BY <1>5, LiveFades, IdleShape DEF Fails
    <2>2. req[p].pc # "logout" => Covers(req[p]) = None
      BY <1>5 DEF Fails, Covers, Made, Counting
    <2>3. req[p].pc = "logout" => Covers(req[p]) # t
      <3>1. SUFFICES ASSUME req[p].pc = "logout", req[p].token = t PROVE FALSE
        BY DEF Covers
      <3>2. row'[t].st = "stored" => row'[t].revoked
        BY <1>5, <3>1 DEF Fails
      <3>3. QED
        BY <3>2 DEF Live, IsStored
    <2>4. QED
      BY <1>0, <1>2, <2>1, <2>2, <2>3
  <1>6. CASE Answers(p)
    <2>1. Live(t) /\ req'[p].pc = "idle"
      BY <1>6, LiveFades, IdleShape DEF Answers
    <2>2. Covers(req[p]) = Made(req[p])
      BY <1>6 DEF Answers, Covers, Counting
    <2>3. QED
      BY <1>2, <1>6, <2>1, <2>2
  <1>7. QED
    BY <1>0, <1>3, <1>4, <1>5, <1>6, StepShape

LEMMA BalanceServe ==
    ASSUME BalanceInv, DeviceInv', NEW p \in Procs, Serve(p)
    PROVE  BalanceInv'
  <1>0. /\ DeviceInv /\ serving \in [Devices -> Procs \cup {None}] /\ TypeOK
        /\ holds \in [Devices -> handed \cup {None}]
        /\ losses' = losses /\ Step(p)
    BY DEF BalanceInv, DeviceInv, HandlerInv, DeviceTypes, Serve
  <1>1. /\ \A q \in Procs : q # p => req'[q] = req[q]
        /\ req[p].pc # "idle"
    BY <1>0, OthersRest, StepShape
       DEF Others, Inserts, GoesOn, Fails, Answers, Counting
  <1>2. ASSUME NEW t \in Orphans'
        PROVE  /\ t \in Tokens /\ Live(t)' /\ \A e \in Devices : holds'[e] # t
               /\ \A q \in Procs : Covers(req'[q]) # t
    BY <1>2 DEF Orphans, Covers, Made
  <1>3. CASE req'[p].pc # "idle" /\ UNCHANGED <<holds, serving>>
    <2>1. Orphans' \subseteq Orphans
      <3>1. ASSUME NEW t \in Orphans' PROVE t \in Orphans
        <4>1. /\ t \in Tokens /\ \A e \in Devices : holds[e] # t
          BY <1>2, <1>3, <3>1
        <4>2. Live(t) /\ \A q \in Procs : Covers(req[q]) # t
          BY <1>0, <1>2, <1>3, <3>1, StepSessions
        <4>3. QED
          BY <4>1, <4>2 DEF Orphans
      <3>2. QED
        BY <3>1
    <2>2. Unattended' \subseteq Unattended
      BY <1>1, <1>3 DEF Unattended
    <2>3. QED
      BY <1>0, <2>1, <2>2, NothingLost
  <1>4. CASE /\ req'[p].pc = "idle" /\ \A d \in Devices : serving[d] # p
             /\ UNCHANGED <<holds, serving>>
    <2>1. p \in Unattended
      BY <1>1, <1>4 DEF Unattended
    <2>2. Unattended' \subseteq Unattended \ {p}
      BY <1>1, <1>4 DEF Unattended
    <2>3. Orphans' \subseteq Orphans \cup {Covers(req[p])}
      <3>1. ASSUME NEW t \in Orphans', t # Covers(req[p]) PROVE t \in Orphans
        <4>1. /\ t \in Tokens /\ \A e \in Devices : holds[e] # t
          BY <1>2, <1>4, <3>1
        <4>2. Live(t) /\ \A q \in Procs : Covers(req[q]) # t
          BY <1>0, <1>2, <3>1, StepSessions
        <4>3. QED
          BY <4>1, <4>2 DEF Orphans
      <3>2. QED
        BY <3>1
    <2>4. QED
      BY <1>0, <2>1, <2>2, <2>3, HandlerGone
  <1>5. CASE req'[p].pc = "idle" /\ \E d \in Devices : Answer(d, p)
    <2>1. PICK d \in Devices : Answer(d, p)
      BY <1>5
    <2>2. /\ serving[d] = p /\ serving' = [serving EXCEPT ![d] = None]
          /\ Fails(p) => holds' = [holds EXCEPT ![d] = None]
          /\ Answers(p) => holds' = [holds EXCEPT ![d] = Made(req[p])]
          /\ Fails(p) \/ Answers(p)
      BY <1>0, <1>5, <2>1, AnswerShape
    <2>3. Orphans' \subseteq Orphans
      <3>1. ASSUME NEW t \in Orphans' PROVE t \in Orphans
        <4>1. /\ t \in Tokens /\ \A e \in Devices : holds'[e] # t
          BY <1>2, <3>1
        <4>2. /\ Live(t) /\ \A q \in Procs : q # p => Covers(req[q]) # t
              /\ Covers(req[p]) = t => Answers(p) /\ Made(req[p]) = t
          BY <1>0, <1>2, <3>1, StepSessions
        <4>3. Covers(req[p]) # t
          BY <1>0, <2>2, <4>1, <4>2
        <4>4. holds[d] # t
          BY <1>0, <2>2, <4>1, <4>2, <4>3, KeptIsCovered, ClientAssumption
        <4>5. \A e \in Devices : e # d => holds'[e] = holds[e]
          BY <1>0, <2>2
        <4>6. \A e \in Devices : holds[e] # t
          BY <4>1, <4>4, <4>5
        <4>7. QED
          BY <4>1, <4>2, <4>3, <4>6 DEF Orphans
      <3>2. QED
        BY <3>1
    <2>4. Unattended' \subseteq Unattended
      <3>1. ASSUME NEW q \in Unattended' PROVE q \in Unattended
        <4>1. q \in Procs /\ req'[q].pc # "idle" /\ \A e \in Devices : serving'[e] # q
          BY <3>1 DEF Unattended
        <4>2. q # p
          BY <1>5, <4>1
        <4>3. \A e \in Devices : serving[e] # q
          BY <1>0, <2>2, <4>1, <4>2
        <4>4. QED
          BY <1>1, <4>1, <4>2, <4>3 DEF Unattended
      <3>2. QED
        BY <3>1
    <2>5. QED
      BY <1>0, <2>3, <2>4, NothingLost
  <1>6. QED
    BY <1>3, <1>4, <1>5 DEF Serve

LEMMA BalanceNext == BalanceInv /\ [ClientNext]_allVars => BalanceInv'
  <1> SUFFICES ASSUME BalanceInv, [ClientNext]_allVars PROVE BalanceInv'
    OBVIOUS
  <1>0. DeviceInv /\ DeviceInv' /\ TypeOK
    BY DeviceNext DEF BalanceInv, DeviceInv, HandlerInv
  <1>1. CASE Elsewhere
    <2>1. Background /\ UNCHANGED device
      BY <1>1 DEF Elsewhere, Background
    <2>2. \A t \in Tokens : FadesOrLinks(t)
      BY <1>0, <2>1, BackgroundFades DEF Fades
    <2>3. QED
      BY <1>0, <2>1, <2>2, BackgroundShape, BalanceFades DEF device
  <1>2. CASE UNCHANGED allVars
    <2>1. /\ \A t \in Tokens : FadesOrLinks(t)
          /\ UNCHANGED <<req, holds, serving, losses>>
      BY <1>2 DEF allVars, vars, device, FadesOrLinks
    <2>2. QED
      BY <1>0, <2>1, BalanceFades
  <1>3. QED
    BY <1>0, <1>1, <1>2, ClientSplit, BalanceRequest, BalanceRefused, BalanceTimesOut,
       BalanceDies, BalanceServe

(* A function has no more values than arguments. *)
LEMMA ImageCard ==
    ASSUME NEW S, IsFiniteSet(S), NEW T, NEW f \in [S -> T],
           \A y \in T : \E x \in S : f[x] = y
    PROVE  /\ IsFiniteSet(T) /\ Cardinality(T) \in Nat /\ Cardinality(S) \in Nat
           /\ Cardinality(T) <= Cardinality(S)
  <1>1. f \in Surjection(S, T)
    BY DEF Surjection
  <1>2. QED
    BY <1>1, FS_Surjection, FS_CardinalityType

(* The session a device that keeps a token or waits for one stands for. *)
StandsFor(d) == IF Resting(d) THEN holds[d] ELSE Covers(req[serving[d]])

LEMMA SessionsSplit ==
    ASSUME DeviceInv, NEW t \in UNION {Active(u) : u \in Users}
    PROVE  \/ t \in Orphans
           \/ \E p \in Unattended : Covers(req[p]) = t
           \/ \E d \in Using : StandsFor(d) = t
  <1>1. t \in Tokens /\ Live(t) /\ t # None
    BY SessionsAssumption DEF Active, Live
  <1>2. CASE \E d \in Devices : holds[d] = t
    <2>1. PICK d \in Devices : holds[d] = t
      BY <1>2
    <2>2. d \in Using
      BY <1>1, <2>1 DEF Using
    <2>3. StandsFor(d) = t
      BY <1>1, <2>1, KeptIsCovered DEF StandsFor, Resting
    <2>4. QED
      BY <2>2, <2>3
  <1>3. CASE \E p \in Procs : Covers(req[p]) = t
    <2>1. PICK p \in Procs : Covers(req[p]) = t
      BY <1>3
    <2>2. req[p].pc # "idle"
      BY <1>1, <2>1 DEF Covers, Made, Counting
    <2>3. CASE \E d \in Devices : serving[d] = p
      <3>1. PICK d \in Devices : serving[d] = p
        BY <2>3
      <3>2. d \in Using /\ StandsFor(d) = t
        BY <2>1, <3>1, ClientAssumption DEF Using, StandsFor, Resting
      <3>3. QED
        BY <3>2
    <2>4. CASE \A d \in Devices : serving[d] # p
      BY <2>1, <2>2, <2>4 DEF Unattended
    <2>5. QED
      BY <2>3, <2>4
  <1>4. QED
    BY <1>1, <1>2, <1>3 DEF Orphans

LEMMA SessionsCounted ==
    ASSUME BalanceInv
    PROVE  SessionsAccounted
  <1> DEFINE F == {Covers(req[p]) : p \in Unattended}
             G == {StandsFor(d) : d \in Using}
             A == UNION {Active(u) : u \in Users}
  <1>1. /\ IsFiniteSet(Orphans) /\ Cardinality(Orphans) \in Nat
        /\ IsFiniteSet(Unattended) /\ Cardinality(Unattended) \in Nat
        /\ Cardinality(Orphans) + Cardinality(Unattended) <= losses /\ losses \in Nat
    BY BalanceFinite DEF BalanceInv, DeviceInv, DeviceTypes
  <1>2. IsFiniteSet(Using)
    BY ClientAssumption, FS_Subset DEF Using
  <1>3. /\ IsFiniteSet(F) /\ Cardinality(F) \in Nat /\ Cardinality(F) <= Cardinality(Unattended)
    <2> DEFINE f == [p \in Unattended |-> Covers(req[p])]
    <2>1. f \in [Unattended -> F] /\ \A t \in F : \E p \in Unattended : f[p] = t
      OBVIOUS
    <2> HIDE DEF f, F
    <2>2. QED
      BY <1>1, <2>1, ImageCard
  <1>4. /\ IsFiniteSet(G) /\ Cardinality(G) \in Nat /\ Cardinality(G) <= Cardinality(Using)
        /\ Cardinality(Using) \in Nat
    <2> DEFINE g == [d \in Using |-> StandsFor(d)]
    <2>1. g \in [Using -> G] /\ \A t \in G : \E d \in Using : g[d] = t
      OBVIOUS
    <2> HIDE DEF g, G
    <2>2. QED
      BY <1>2, <2>1, ImageCard
  <1>5. A \subseteq (Orphans \cup F) \cup G
    <2>1. ASSUME NEW t \in A PROVE t \in (Orphans \cup F) \cup G
      BY <2>1, SessionsSplit DEF BalanceInv
    <2>2. QED
      BY <2>1
  <1> HIDE DEF F, G, A
  <1>6. /\ IsFiniteSet(Orphans \cup F) /\ Cardinality(Orphans \cup F) \in Nat
        /\ Cardinality(Orphans \cup F) <= Cardinality(Orphans) + Cardinality(F)
    BY <1>1, <1>3, UnionCard
  <1>7. /\ IsFiniteSet((Orphans \cup F) \cup G) /\ Cardinality((Orphans \cup F) \cup G) \in Nat
        /\ Cardinality((Orphans \cup F) \cup G) <= Cardinality(Orphans \cup F) + Cardinality(G)
    BY <1>4, <1>6, UnionCard
  <1>8. Cardinality(A) \in Nat /\ Cardinality(A) <= Cardinality((Orphans \cup F) \cup G)
    BY <1>5, <1>7, SubsetCard
  <1>9. Cardinality(A) <= Cardinality(Using) + losses
    BY <1>1, <1>3, <1>4, <1>6, <1>7, <1>8
  <1>10. QED
    BY <1>9 DEF SessionsAccounted, A

(* A repeated request may leave a session behind that nobody keeps, but for    *)
(* each of them an answer was lost, for any number of devices, handlers and   *)
(* losses: retries of one request never add up to more.                       *)
THEOREM SessionsAreAccounted == ClientSpec => []SessionsAccounted
  BY BalanceInit, BalanceNext, SessionsCounted, PTL DEF ClientSpec
=============================================================================
