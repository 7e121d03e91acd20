---------------------------- MODULE RefreshTokens ----------------------------
(***************************************************************************)
(* The refresh_tokens table of the auth service and the request handlers   *)
(* that read and write it: the session part of login and register          *)
(* (generateRefreshToken, enforceMaxSessions), refreshTokens (rotation and  *)
(* reuse detection), logout, revokeSession, revokeAllUserTokens, the        *)
(* cascade of a deleted account and the nightly cleanup job.                *)
(*                                                                         *)
(* Every SQL statement is atomic; no handler opens a transaction.  So one  *)
(* action is one statement together with the synchronous code that runs    *)
(* until the next await, and req[p] holds what handler p remembers across  *)
(* its awaits.  Handlers of one or of several instances interleave freely. *)
(***************************************************************************)
EXTENDS Naturals, FiniteSets

CONSTANTS
    Users,          \* user_credentials ids
    Tokens,         \* ids of refresh_tokens rows; an id stands for its raw token too
    Procs,          \* request handlers that may be in flight at once
    MaxSessions,    \* session.maxConcurrent
    MaxAborts,      \* bound: handlers that may be cut short in a behaviour
    None            \* the NULL of a uuid column

ASSUME SessionsAssumption ==
    /\ MaxSessions \in Nat \ {0}
    /\ MaxAborts \in Nat
    /\ IsFiniteSet(Tokens)
    /\ IsFiniteSet(Procs)
    /\ None \notin Users \cup Tokens

VARIABLES
    row,            \* the refresh_tokens table
    accounts,       \* users that have a user_credentials row
    req,            \* the handlers in flight
    handed,         \* tokens whose raw value reached a client
    clock,          \* rows inserted so far
    aborts,         \* how many handlers were cut short
    parent,         \* auxiliary: the token a rotation exchanged for this one
    unenforced      \* auxiliary: see SessionCap

stored == <<row, accounts, handed, clock>>
vars == <<row, accounts, req, handed, clock, aborts, parent, unenforced>>

-----------------------------------------------------------------------------
(* Rows.  expires_at is seen through age: Fresh while expiresAt > now, Due   *)
(* in the instant the two are equal, Past once expiresAt < now.  stale says  *)
(* that revoked_at is more than seven days old.                              *)
Fresh == 0
Due == 1
Past == 2

Row == [st : {"unissued", "stored", "deleted"}, user : Users \cup {None},
        revoked : BOOLEAN, replacedBy : Tokens \cup {None},
        age : Fresh..Past, stale : BOOLEAN, issuedAt : Nat]

Blank(st, u, at) ==
    [st |-> st, user |-> u, revoked |-> FALSE, replacedBy |-> None,
     age |-> Fresh, stale |-> FALSE, issuedAt |-> at]

Unissued == Blank("unissued", None, 0)
Deleted == Blank("deleted", None, 0)

IsStored(t) == row[t].st = "stored"

(* countActiveByUserId, findActiveByUserId: not revoked and expiresAt > now. *)
Active(u) == {t \in Tokens : /\ IsStored(t)
                             /\ row[t].user = u
                             /\ ~row[t].revoked
                             /\ row[t].age = Fresh}

(* findOldestActiveByUserId: ORDER BY issued_at ASC. *)
Oldest(u) == {t \in Active(u) : \A s \in Active(u) : row[t].issuedAt <= row[s].issuedAt}

(* revokeToken: UPDATE ... WHERE id = t, whether or not it is revoked already, *)
(* so revoked_at is written anew; no row, no effect.                           *)
RevokeToken(t) ==
    row' = IF IsStored(t)
           THEN [row EXCEPT ![t] = [@ EXCEPT !.revoked = TRUE, !.stale = FALSE]]
           ELSE row

(* revokeAllByUserId: UPDATE ... WHERE user_id = u AND revoked = false. *)
RevokeAllByUserId(u) ==
    row' = [t \in Tokens |->
              IF IsStored(t) /\ row[t].user = u /\ ~row[t].revoked
              THEN [row[t] EXCEPT !.revoked = TRUE, !.stale = FALSE]
              ELSE row[t]]

(* create: a fresh uuid; issued_at is taken in the order of the inserts. *)
Create(t, u, from) ==
    /\ row[t].st = "unissued"
    /\ clock' = clock + 1
    /\ row' = [row EXCEPT ![t] = Blank("stored", u, clock')]
    /\ parent' = [parent EXCEPT ![t] = from]
    /\ unenforced' = [unenforced EXCEPT ![u] = @ + 1]

-----------------------------------------------------------------------------
(* Handlers. *)
Idle == [pc |-> "idle", user |-> None, token |-> None, target |-> None, left |-> 0]

Req == [pc : {"idle", "issue", "count", "find", "evict", "rotate", "reissue",
              "link", "reuse", "logout"},
        user : Users \cup {None}, token : Tokens \cup {None},
        target : Tokens \cup {None}, left : Nat]

(* What a handler has read or inserted by the time it needs it. *)
Remembers(r) ==
    /\ r.pc # "idle" => r.user \in Users
    /\ r.pc \notin {"idle", "issue"} => r.token \in Tokens
    /\ r.pc \in {"evict", "link"} => r.target \in Tokens

(* The handler ends and the client gets raw token t.  An answer lost on the  *)
(* way (the request timed out) is a token the client never presents.         *)
Respond(p, t) ==
    /\ req' = [req EXCEPT ![p] = Idle]
    /\ handed' = handed \cup {t}

Throw(p) == req' = [req EXCEPT ![p] = Idle]

Issuing(p) == req[p].pc \in {"issue", "rotate", "reissue"}

(* Bound: a handler that will insert a row starts only while a row is left. *)
RowLeft == Cardinality({t \in Tokens : row[t].st = "unissued"}) >
           Cardinality({p \in Procs : Issuing(p)})

(* login, register: the credentials of u have been accepted. *)
BeginLogin(p, u) ==
    /\ req[p].pc = "idle"
    /\ u \in accounts
    /\ RowLeft
    /\ req' = [req EXCEPT ![p] = [Idle EXCEPT !.pc = "issue", !.user = u]]
    /\ UNCHANGED <<stored, aborts, parent, unenforced>>

(* generateRefreshToken: the INSERT.  user_id is a foreign key, so it fails  *)
(* for an account that has been deleted in the meantime.                     *)
IssueLogin(p) ==
    LET u == req[p].user IN
    /\ req[p].pc = "issue"
    /\ \/ /\ u \in accounts
          /\ \E t \in Tokens :
                /\ Create(t, u, None)
                /\ req' = [req EXCEPT ![p] = [@ EXCEPT !.pc = "count", !.token = t]]
          /\ UNCHANGED <<accounts, handed, aborts>>
       \/ /\ u \notin accounts
          /\ Throw(p)
          /\ UNCHANGED <<stored, aborts, parent, unenforced>>

(* Mutant: tolerates one session too many. *)
CountSessionsLax(p) ==
    LET u == req[p].user
        activeCount == Cardinality(Active(u))
    IN
    /\ req[p].pc = "count"
    /\ unenforced' = [unenforced EXCEPT ![u] = 0]
    /\ \/ /\ activeCount <= MaxSessions + 1
          /\ Respond(p, req[p].token)
       \/ /\ activeCount > MaxSessions + 1
          /\ req' = [req EXCEPT ![p] = [@ EXCEPT !.pc = "find",
                                               !.left = activeCount - MaxSessions]]
          /\ UNCHANGED handed
    /\ UNCHANGED <<row, accounts, clock, aborts, parent>>

(* enforceMaxSessions: the count, read once before the loop. *)
CountSessions(p) ==
    LET u == req[p].user
        activeCount == Cardinality(Active(u))
    IN
    /\ req[p].pc = "count"
    /\ unenforced' = [unenforced EXCEPT ![u] = 0]
    /\ \/ /\ activeCount <= MaxSessions
          /\ Respond(p, req[p].token)
       \/ /\ activeCount > MaxSessions
          /\ req' = [req EXCEPT ![p] = [@ EXCEPT !.pc = "find",
                                               !.left = activeCount - MaxSessions]]
          /\ UNCHANGED handed
    /\ UNCHANGED <<row, accounts, clock, aborts, parent>>

(* One turn of the loop is over; the handler ends after the last. *)
NextTurn(p) ==
    \/ /\ req[p].left > 1
       /\ req' = [req EXCEPT ![p] = [@ EXCEPT !.pc = "find", !.left = req[p].left - 1,
                                                  !.target = None]]
       /\ UNCHANGED handed
    \/ /\ req[p].left <= 1
       /\ Respond(p, req[p].token)

(* Mutants: no test for null; a loop that waits for a session to appear. *)
FindOldestUnchecked(p) ==
    /\ req[p].pc = "find"
    /\ \E t \in Oldest(req[p].user) \cup {None} :
          req' = [req EXCEPT ![p] = [@ EXCEPT !.pc = "evict", !.target = t]]
    /\ UNCHANGED <<row, accounts, handed, clock, aborts, parent, unenforced>>

FindOldestWaiting(p) ==
    /\ req[p].pc = "find"
    /\ \E t \in Oldest(req[p].user) :
          req' = [req EXCEPT ![p] = [@ EXCEPT !.pc = "evict", !.target = t]]
    /\ UNCHANGED <<row, accounts, handed, clock, aborts, parent, unenforced>>

FindOldest(p) ==
    LET u == req[p].user IN
    /\ req[p].pc = "find"
    /\ \/ /\ \E t \in Oldest(u) :
                req' = [req EXCEPT ![p] = [@ EXCEPT !.pc = "evict", !.target = t]]
          /\ UNCHANGED handed
       \/ /\ Active(u) = {}
          /\ NextTurn(p)
    /\ UNCHANGED <<row, accounts, clock, aborts, parent, unenforced>>

(* revokeToken(oldestToken.id, 'max_sessions_exceeded') *)
EvictOldest(p) ==
    /\ req[p].pc = "evict"
    /\ RevokeToken(req[p].target)
    /\ NextTurn(p)
    /\ UNCHANGED <<accounts, clock, aborts, parent, unenforced>>

(* Mutant: the revoked row of a token is not looked at. *)
RefreshAcceptedRevoked(p, t) ==
    /\ req[p].pc = "idle"
    /\ t \in handed /\ IsStored(t)
    /\ row[t].age # Past
    /\ RowLeft
    /\ req' = [req EXCEPT ![p] = [Idle EXCEPT !.pc = "rotate", !.token = t,
                                              !.user = row[t].user]]
    /\ UNCHANGED <<stored, aborts, parent, unenforced>>

(* refreshTokens: findByTokenHash and the three checks on the row it read.   *)
(* A token not found, or expired and not revoked, is refused without effect. *)
RefreshAccepted(p, t) ==
    /\ req[p].pc = "idle"
    /\ t \in handed /\ IsStored(t)
    /\ ~row[t].revoked
    /\ row[t].age # Past
    /\ RowLeft
    /\ req' = [req EXCEPT ![p] = [Idle EXCEPT !.pc = "rotate", !.token = t,
                                              !.user = row[t].user]]
    /\ UNCHANGED <<stored, aborts, parent, unenforced>>

RefreshReused(p, t) ==
    /\ req[p].pc = "idle"
    /\ t \in handed /\ IsStored(t)
    /\ row[t].revoked
    /\ req' = [req EXCEPT ![p] = [Idle EXCEPT !.pc = "reuse", !.token = t,
                                              !.user = row[t].user]]
    /\ UNCHANGED <<stored, aborts, parent, unenforced>>

(* revokeAllUserTokens(userId, 'token_reuse_detected'), then throw. *)
RevokeReused(p) ==
    /\ req[p].pc = "reuse"
    /\ RevokeAllByUserId(req[p].user)
    /\ Throw(p)
    /\ UNCHANGED <<accounts, handed, clock, aborts, parent, unenforced>>

(* Mutant: no row is written. *)
RotateForgotten(p) ==
    /\ req[p].pc = "rotate"
    /\ req' = [req EXCEPT ![p] = [@ EXCEPT !.pc = "reissue"]]
    /\ UNCHANGED <<stored, aborts, parent, unenforced>>

(* revokeToken(existingToken.id, 'rotated') *)
Rotate(p) ==
    /\ req[p].pc = "rotate"
    /\ RevokeToken(req[p].token)
    /\ req' = [req EXCEPT ![p] = [@ EXCEPT !.pc = "reissue"]]
    /\ UNCHANGED <<accounts, handed, clock, aborts, parent, unenforced>>

(* generateRefreshToken of the successor, with the foreign key of a login. *)
Reissue(p) ==
    LET u == req[p].user IN
    /\ req[p].pc = "reissue"
    /\ \/ /\ u \in accounts
          /\ \E t \in Tokens :
                /\ Create(t, u, req[p].token)
                /\ req' = [req EXCEPT ![p] = [@ EXCEPT !.pc = "link", !.target = t]]
          /\ UNCHANGED <<accounts, handed, aborts>>
       \/ /\ u \notin accounts
          /\ Throw(p)
          /\ UNCHANGED <<stored, aborts, parent, unenforced>>

(* Mutants: the arguments swapped; the entity read at the start saved whole. *)
LinkSwapped(p) ==
    LET t == req[p].target IN
    /\ req[p].pc = "link"
    /\ row' = IF IsStored(t) THEN [row EXCEPT ![t].replacedBy = req[p].token] ELSE row
    /\ Respond(p, req[p].target)
    /\ UNCHANGED <<accounts, clock, aborts, parent, unenforced>>

LinkSavesEntity(p) ==
    LET t == req[p].token IN
    /\ req[p].pc = "link"
    /\ row' = IF IsStored(t) THEN [row EXCEPT ![t] = [@ EXCEPT !.replacedBy = req[p].target,
                                                              !.revoked = FALSE]]
                             ELSE row
    /\ Respond(p, req[p].target)
    /\ UNCHANGED <<accounts, clock, aborts, parent, unenforced>>

(* setReplacedBy.  What follows changes no column that is modelled           *)
(* (updateLastUsed) or loses the answer (the controller's findById of a      *)
(* deleted user).                                                            *)
Link(p) ==
    LET t == req[p].token IN
    /\ req[p].pc = "link"
    /\ row' = IF IsStored(t) THEN [row EXCEPT ![t].replacedBy = req[p].target] ELSE row
    /\ Respond(p, req[p].target)
    /\ UNCHANGED <<accounts, clock, aborts, parent, unenforced>>

(* logout: findByTokenHash has found the row, then revokeRefreshToken by id. *)
BeginLogout(p, t) ==
    /\ req[p].pc = "idle"
    /\ t \in handed /\ IsStored(t)
    /\ req' = [req EXCEPT ![p] = [Idle EXCEPT !.pc = "logout", !.token = t,
                                              !.user = row[t].user]]
    /\ UNCHANGED <<stored, aborts, parent, unenforced>>

Logout(p) ==
    /\ req[p].pc = "logout"
    /\ RevokeToken(req[p].token)
    /\ Throw(p)
    /\ UNCHANGED <<accounts, handed, clock, aborts, parent, unenforced>>

(* A query of the handler rejects, or its instance dies: the statements it   *)
(* has run stay, the rest never run.                                         *)
InLoop(p, u) == req[p].user = u /\ req[p].pc \in {"find", "evict"}

Abort(p) ==
    /\ req[p].pc # "idle"
    /\ aborts < MaxAborts
    /\ aborts' = aborts + 1
    /\ Throw(p)
    /\ unenforced' = [u \in Users |-> IF InLoop(p, u) THEN unenforced[u] + req[p].left
                                                      ELSE unenforced[u]]
    /\ UNCHANGED <<stored, parent>>

-----------------------------------------------------------------------------
(* Operations of a single statement, jobs and time. *)

(* revokeSession: by row id, no matter who asks or whether it is revoked. *)
RevokeSession(t) ==
    /\ IsStored(t)
    /\ RevokeToken(t)
    /\ UNCHANGED <<accounts, req, handed, clock, aborts, parent, unenforced>>

(* revokeAllUserTokens: lock, ban, role change, password reset, the endpoints. *)
RevokeAllUserTokens(u) ==
    /\ RevokeAllByUserId(u)
    /\ UNCHANGED <<accounts, req, handed, clock, aborts, parent, unenforced>>

(* deleteCredential: ON DELETE CASCADE takes the user's rows along. *)
DeleteAccount(u) ==
    /\ u \in accounts
    /\ accounts' = accounts \ {u}
    /\ row' = [t \in Tokens |-> IF IsStored(t) /\ row[t].user = u
                                THEN Deleted ELSE row[t]]
    /\ UNCHANGED <<req, handed, clock, aborts, parent, unenforced>>

(* Mutant: andWhere for orWhere. *)
PurgeableBoth(t) == IsStored(t) /\ row[t].age = Past /\ row[t].revoked /\ row[t].stale

(* deleteExpiredAndRevoked, one DELETE statement. *)
Purgeable(t) == IsStored(t) /\ (row[t].age = Past \/ (row[t].revoked /\ row[t].stale))

Cleanup ==
    /\ \E t \in Tokens : Purgeable(t)
    /\ row' = [t \in Tokens |-> IF Purgeable(t)
                                THEN Deleted ELSE row[t]]
    /\ UNCHANGED <<accounts, req, handed, clock, aborts, parent, unenforced>>

(* Time passes.  Every row lives equally long, so rows age in issue order. *)
Age(t) ==
    /\ IsStored(t) /\ row[t].age # Past
    /\ \A s \in Tokens : IsStored(s) /\ row[s].issuedAt < row[t].issuedAt
                            => row[s].age > row[t].age
    /\ row' = [row EXCEPT ![t].age = @ + 1]
    /\ UNCHANGED <<accounts, req, handed, clock, aborts, parent, unenforced>>

SevenDaysPass(t) ==
    /\ IsStored(t) /\ row[t].revoked /\ ~row[t].stale
    /\ row' = [row EXCEPT ![t].stale = TRUE]
    /\ UNCHANGED <<accounts, req, handed, clock, aborts, parent, unenforced>>

-----------------------------------------------------------------------------
Init ==
    /\ row = [t \in Tokens |-> Unissued]
    /\ accounts = Users
    /\ req = [p \in Procs |-> Idle]
    /\ handed = {}
    /\ clock = 0
    /\ aborts = 0
    /\ parent = [t \in Tokens |-> None]
    /\ unenforced = [u \in Users |-> 0]

(* The next statement of handler p. *)
Step(p) ==
    \/ IssueLogin(p) \/ CountSessions(p) \/ FindOldest(p) \/ EvictOldest(p)
    \/ Rotate(p) \/ Reissue(p) \/ Link(p) \/ RevokeReused(p) \/ Logout(p)

Begin(p) ==
    \/ \E u \in Users : BeginLogin(p, u)
    \/ \E t \in Tokens : RefreshAccepted(p, t) \/ RefreshReused(p, t) \/ BeginLogout(p, t)

Next ==
    \/ \E p \in Procs : Begin(p) \/ Step(p) \/ Abort(p)
    \/ \E t \in Tokens : RevokeSession(t) \/ Age(t) \/ SevenDaysPass(t)
    \/ \E u \in Users : RevokeAllUserTokens(u) \/ DeleteAccount(u)
    \/ Cleanup

Spec == Init /\ [][Next]_vars

(* Queries return, the cron job runs and time passes. *)
Fairness ==
    /\ \A p \in Procs : WF_vars(Step(p))
    /\ \A t \in Tokens : WF_vars(Age(t))
    /\ WF_vars(Cleanup)

FairSpec == Spec /\ Fairness

-----------------------------------------------------------------------------
(* Properties *)

(* A stored row has an owner. *)
TableOK ==
    /\ row \in [Tokens -> Row]
    /\ \A t \in Tokens : IsStored(t) => row[t].user \in Users

(* Every variable holds a value of its kind, and what a handler remembers is *)
(* there when its next statement needs it: the user, the row it was given or *)
(* inserted, the row it is about to evict or link to.                        *)
TypeOK ==
    /\ TableOK
    /\ accounts \subseteq Users
    /\ req \in [Procs -> Req]
    /\ \A p \in Procs : Remembers(req[p])
    /\ handed \subseteq Tokens
    /\ clock \in Nat
    /\ aborts \in Nat
    /\ parent \in [Tokens -> Tokens \cup {None}]
    /\ unenforced \in [Users -> Nat]

(* enforceMaxSessions is a count followed by a loop of find and revoke, run  *)
(* by several logins at once, and refreshTokens inserts without it.  Still,  *)
(* once no enforcement loop of a user is running, the user has at most       *)
(* MaxSessions active sessions more than the rows inserted since a login     *)
(* last counted them (and the turns that interrupted loops did not take).    *)
SessionCap ==
    \A u \in Users : (\A p \in Procs : ~InLoop(p, u))
                        => Cardinality(Active(u)) <= MaxSessions + unenforced[u]

(* replaced_by_token_id forms chains "token A -> token B -> token C": a link *)
(* leads from a token revoked before it to the row some rotation of that     *)
(* very token inserted for the same user, never to an older row, and no two  *)
(* tokens lead to one successor.  Link writes it long after the row was read.*)
RotationChain ==
    \A t \in Tokens : LET c == row[t].replacedBy IN
        c # None => /\ row[t].revoked
                    /\ parent[c] = t
                    /\ IsStored(c) => /\ row[c].user = row[t].user
                                      /\ row[c].issuedAt > row[t].issuedAt

(* Once a session is over, revoked, expired or deleted, no statement of any  *)
(* handler, however late it runs, makes it active again.                     *)
Dead(t) == row[t].st # "unissued" /\ (~IsStored(t) \/ row[t].revoked \/ row[t].age # Fresh)

DeadStaysDead == [][\A t \in Tokens : Dead(t) => Dead(t)']_vars

(* Every handler returns: the eviction loop ends even when other handlers    *)
(* take its victims or no active session is left.                            *)
HandlersReturn == \A p \in Procs : []<>(req[p].pc = "idle")

(* Every row is purged at last, however often revokeToken renews its         *)
(* revoked_at.                                                               *)
RowsPurged == \A t \in Tokens : (row[t].st = "stored") ~> (row[t].st = "deleted")

-----------------------------------------------------------------------------
(* What the documentation says, and the code does not guarantee. *)

(* README: refresh tokens are "single-use with rotation": a token is never   *)
(* exchanged for two successors.                                             *)
SingleUse ==
    \A s, t \in Tokens : parent[s] # None /\ parent[s] = parent[t] => s = t

(* README: "Max 5 concurrent sessions", whenever no login is under way. *)
MaxConcurrentSessions ==
    \A u \in Users :
        (\A p \in Procs : req[p].pc \in {"issue", "count", "find", "evict"} => req[p].user # u)
            => Cardinality(Active(u)) <= MaxSessions

(* enforceMaxSessions: "the oldest sessions are revoked until the count is   *)
(* within limits": it revokes an active session only while there are more    *)
(* than MaxSessions.                                                         *)
EvictOnlyExcess ==
    [][\A p \in Procs : EvictOldest(p) /\ req[p].target \in Active(req[p].user)
          => Cardinality(Active(req[p].user)) > MaxSessions]_vars
=============================================================================
