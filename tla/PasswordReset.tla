---------------------------- MODULE PasswordReset ----------------------------
(***************************************************************************)
(* forgotPassword and resetPassword with the password_reset_tokens table,    *)
(* the cleanup job, and the logins that verify a password meanwhile.  As in   *)
(* RefreshTokens, one action is one SQL statement and req[p] is what handler  *)
(* p holds across its awaits; nothing runs in a transaction.                 *)
(***************************************************************************)
EXTENDS Naturals, FiniteSets

CONSTANTS
    Users,          \* user_credentials ids
    Tokens,         \* password_reset_tokens ids; an id stands for its raw token too
    Procs,          \* request handlers that may be in flight at once
    MaxAborts,      \* bound: handlers that may be cut short
    None            \* NULL

ASSUME ResetAssumption ==
    /\ MaxAborts \in Nat
    /\ IsFiniteSet(Procs)
    /\ None \notin Users \cup Tokens

VARIABLES
    tok,            \* the password_reset_tokens table
    accounts,       \* users that have a user_credentials row
    password,       \* per user, the number of the password set last
    sessions,       \* per user, the passwords the active sessions were opened with
    req,            \* the handlers in flight
    aborts,         \* handlers cut short
    resets,         \* auxiliary: passwords set with a token
    lost            \* auxiliary: markAsUsed calls that were due and never ran

data == <<tok, accounts, password, sessions>>
aux == <<aborts, resets, lost>>
vars == <<data, req, aux>>

-----------------------------------------------------------------------------
Row == [st : {"unissued", "stored", "deleted"}, user : Users \cup {None},
        used : BOOLEAN, expired : BOOLEAN]

Blank(st, u) == [st |-> st, user |-> u, used |-> FALSE, expired |-> FALSE]

Stored(t) == tok[t].st = "stored"
Delete(S) == tok' = [t \in Tokens |-> IF t \in S THEN Blank("deleted", None) ELSE tok[t]]
OfUser(u) == {t \in Tokens : Stored(t) /\ tok[t].user = u}

Idle == [pc |-> "idle", user |-> None, token |-> None, pw |-> 0]
Req == [pc : {"idle", "clear", "create", "update", "mark", "delete", "revoke", "issue"},
        user : Users \cup {None}, token : Tokens \cup {None}, pw : Nat]

Start(p, pc, u, t, pw) ==
    /\ req[p].pc = "idle"
    /\ req' = [req EXCEPT ![p] = [pc |-> pc, user |-> u, token |-> t, pw |-> pw]]
Continue(p, pc) == req' = [req EXCEPT ![p].pc = pc]
Return(p) == req' = [req EXCEPT ![p] = Idle]

-----------------------------------------------------------------------------
(* forgotPassword: an unknown email ends it without effect. *)
BeginForgot(p, u) ==
    /\ u \in accounts
    /\ \E t \in Tokens : tok[t].st = "unissued"     \* bound: a token is left
    /\ Start(p, "clear", u, None, 0)
    /\ UNCHANGED <<data, aux>>

ClearTokens(p) ==
    /\ req[p].pc = "clear"
    /\ Delete(OfUser(req[p].user))
    /\ Continue(p, "create")
    /\ UNCHANGED <<accounts, password, sessions, aux>>

(* The insert, which the foreign key refuses to an account that is gone; the  *)
(* event carries the raw token to the user.                                  *)
CreateToken(p) ==
    LET u == req[p].user IN
    /\ req[p].pc = "create"
    /\ \/ /\ u \in accounts
          /\ \E t \in Tokens : /\ tok[t].st = "unissued"
                               /\ tok' = [tok EXCEPT ![t] = Blank("stored", u)]
       \/ /\ u \notin accounts
          /\ UNCHANGED tok
    /\ Return(p)
    /\ UNCHANGED <<accounts, password, sessions, aux>>

(* Mutant: no test for a token that is not found. *)
BeginResetUnchecked(p, t) ==
    /\ tok[t].st # "unissued" /\ ~tok[t].used /\ ~tok[t].expired
    /\ Start(p, "update", tok[t].user, t, 0)
    /\ UNCHANGED <<data, aux>>

(* resetPassword: findByTokenHash and the checks on the row it read. *)
BeginReset(p, t) ==
    /\ Stored(t) /\ ~tok[t].used /\ ~tok[t].expired
    /\ Start(p, "update", tok[t].user, t, 0)
    /\ UNCHANGED <<data, aux>>

UpdatePassword(p) ==
    LET u == req[p].user IN
    /\ req[p].pc = "update"
    /\ password' = IF u \in accounts THEN [password EXCEPT ![u] = @ + 1] ELSE password
    /\ resets' = [resets EXCEPT ![req[p].token] = @ + 1]
    /\ Continue(p, "mark")
    /\ UNCHANGED <<tok, accounts, sessions, aborts, lost>>

(* Mutants: save(entity), which inserts a row that is gone; no call at all. *)
MarkAsUsedBySave(p) ==
    LET t == req[p].token IN
    /\ req[p].pc = "mark"
    /\ tok' = [tok EXCEPT ![t] = [st |-> "stored", user |-> req[p].user,
                                  used |-> TRUE, expired |-> FALSE]]
    /\ Continue(p, "delete")
    /\ UNCHANGED <<accounts, password, sessions, aux>>

MarkAsUsedForgotten(p) ==
    /\ req[p].pc = "mark"
    /\ Continue(p, "delete")
    /\ UNCHANGED <<data, aux>>

(* markAsUsed: UPDATE ... WHERE id = t. *)
MarkAsUsed(p) ==
    LET t == req[p].token IN
    /\ req[p].pc = "mark"
    /\ tok' = IF Stored(t) THEN [tok EXCEPT ![t].used = TRUE] ELSE tok
    /\ Continue(p, "delete")
    /\ UNCHANGED <<accounts, password, sessions, aux>>

DeleteByUserId(p) ==
    /\ req[p].pc = "delete"
    /\ Delete(OfUser(req[p].user))
    /\ Continue(p, "revoke")
    /\ UNCHANGED <<accounts, password, sessions, aux>>

(* revokeAllUserTokens(userId, 'password_reset') *)
RevokeSessions(p) ==
    /\ req[p].pc = "revoke"
    /\ sessions' = [sessions EXCEPT ![req[p].user] = {}]
    /\ Return(p)
    /\ UNCHANGED <<tok, accounts, password, aux>>

-----------------------------------------------------------------------------
(* login: the password is compared with the hash findByEmail returned; the   *)
(* session is inserted later.                                                *)
BeginLogin(p, u) ==
    /\ u \in accounts
    /\ Start(p, "issue", u, None, password[u])
    /\ UNCHANGED <<data, aux>>

IssueSession(p) ==
    LET u == req[p].user IN
    /\ req[p].pc = "issue"
    /\ sessions' = IF u \in accounts THEN [sessions EXCEPT ![u] = @ \cup {req[p].pw}]
                                     ELSE sessions
    /\ Return(p)
    /\ UNCHANGED <<tok, accounts, password, aux>>

(* deleteCredentials, with what the foreign keys cascade to. *)
DeleteCredentials(u) ==
    /\ u \in accounts
    /\ accounts' = accounts \ {u}
    /\ Delete(OfUser(u))
    /\ sessions' = [sessions EXCEPT ![u] = {}]
    /\ UNCHANGED <<password, req, aux>>

(* A handler dies or a query of it rejects: the rest never runs. *)
Abort(p) ==
    /\ req[p].pc # "idle"
    /\ aborts < MaxAborts
    /\ aborts' = aborts + 1
    /\ lost' = [t \in Tokens |-> IF req[p].pc = "mark" /\ req[p].token = t
                                 THEN lost[t] + 1 ELSE lost[t]]
    /\ Return(p)
    /\ UNCHANGED <<data, resets>>

(* deleteExpiredOrUsed, at 3 AM. *)
Purgeable(t) == Stored(t) /\ (tok[t].expired \/ tok[t].used)

Cleanup ==
    /\ \E t \in Tokens : Purgeable(t)
    /\ Delete({t \in Tokens : Purgeable(t)})
    /\ UNCHANGED <<accounts, password, sessions, req, aux>>

Expire(t) ==
    /\ Stored(t) /\ ~tok[t].expired
    /\ tok' = [tok EXCEPT ![t].expired = TRUE]
    /\ UNCHANGED <<accounts, password, sessions, req, aux>>

-----------------------------------------------------------------------------
Init ==
    /\ tok = [t \in Tokens |-> Blank("unissued", None)]
    /\ accounts = Users
    /\ password = [u \in Users |-> 0]
    /\ sessions = [u \in Users |-> {}]
    /\ req = [p \in Procs |-> Idle]
    /\ aborts = 0
    /\ resets = [t \in Tokens |-> 0]
    /\ lost = [t \in Tokens |-> 0]

Begin(p) ==
    \/ \E u \in Users : BeginForgot(p, u) \/ BeginLogin(p, u)
    \/ \E t \in Tokens : BeginReset(p, t)

Step(p) ==
    \/ ClearTokens(p) \/ CreateToken(p)
    \/ UpdatePassword(p) \/ MarkAsUsed(p) \/ DeleteByUserId(p) \/ RevokeSessions(p)
    \/ IssueSession(p)

Next ==
    \/ \E p \in Procs : Begin(p) \/ Step(p) \/ Abort(p)
    \/ \E u \in Users : DeleteCredentials(u)
    \/ \E t \in Tokens : Expire(t)
    \/ Cleanup

Spec == Init /\ [][Next]_vars

-----------------------------------------------------------------------------
(* Properties *)

(* Every variable holds a value of its kind; a handler past its checks has    *)
(* the user, and a reset the token, it works for.                            *)
TypeOK ==
    /\ tok \in [Tokens -> Row]
    /\ \A t \in Tokens : Stored(t) => tok[t].user \in Users
    /\ accounts \subseteq Users
    /\ password \in [Users -> Nat]
    /\ sessions \in [Users -> SUBSET Nat]
    /\ req \in [Procs -> Req]
    /\ \A p \in Procs :
          /\ req[p].pc # "idle" => req[p].user \in Users
          /\ req[p].pc \in {"update", "mark", "delete", "revoke"} => req[p].token \in Tokens
    /\ aborts \in Nat
    /\ resets \in [Tokens -> Nat]
    /\ lost \in [Tokens -> Nat]

(* The check of used and markAsUsed are separate statements.  Still, a token *)
(* that would be accepted now has set a password only through handlers that   *)
(* are about to mark it, or died before they could.                          *)
Marking(t) == {p \in Procs : req[p].pc = "mark" /\ req[p].token = t}

ResetsAreMarked ==
    \A t \in Tokens : Stored(t) /\ ~tok[t].used
        => resets[t] <= Cardinality(Marking(t)) + lost[t]

(* A token that has been used or deleted is never usable again, whatever the  *)
(* handlers that read it before go on to write.                              *)
Spent(t) == tok[t].st = "deleted" \/ (Stored(t) /\ tok[t].used)

SpentStaysSpent ==
    [][\A t \in Tokens : Spent(t) => Spent(t)' /\ (Stored(t)' => Stored(t))]_vars

-----------------------------------------------------------------------------
(* What the documentation says, and the code does not guarantee. *)

(* password-reset-token.entity.ts: "Single-use only: once true, the token     *)
(* cannot be used again", "Tokens are single-use": one token, one new         *)
(* password.                                                                 *)
SingleUse == \A t \in Tokens : resets[t] <= 1

(* resetPassword: "Revoke all active sessions (security: force re-login with  *)
(* new password)": while no handler runs, every session of a user was opened  *)
(* with the password set last.                                               *)
SessionsOfNewPassword ==
    (\A p \in Procs : req[p].pc = "idle") => \A u \in Users : sessions[u] \subseteq {password[u]}
=============================================================================
