------------------------------ MODULE Accounts ------------------------------
(***************************************************************************)
(* The status of accounts: the login handler's checks and its failed        *)
(* attempts counter, the admin's lock, unlock, ban and delete, and the job   *)
(* that lifts expired locks every five minutes.                             *)
(*                                                                         *)
(* All of them read user_credentials in one statement and write it in a     *)
(* later one, on one or several instances, with no transaction and no       *)
(* condition on what the row holds by then.  One action is one statement.    *)
(***************************************************************************)
EXTENDS Naturals, FiniteSets

CONSTANTS
    Users,          \* user_credentials ids
    Procs,          \* request handlers that may be in flight at once
    Jobs,           \* instances, each running the unlock job
    MaxAttempts,    \* auth.maxLoginAttempts
    MaxAborts,      \* bound: statements that fail or handlers that die
    None            \* NULL

ASSUME AccountsAssumption ==
    /\ MaxAttempts \in Nat \ {0}
    /\ MaxAborts \in Nat
    /\ IsFiniteSet(Procs)
    /\ None \notin Users \cup {"ahead", "now", "passed"}

VARIABLES
    acct,           \* the user_credentials table
    session,        \* users with an active refresh token
    req,            \* the handlers in flight
    batch,          \* accounts a run of the job has found and not yet unlocked
    aborts,         \* statements that failed
    lost            \* auxiliary: lock writes that were due and never ran

vars == <<acct, session, req, batch, aborts, lost>>

-----------------------------------------------------------------------------
(* locked_until as the clock sees it: ahead, equal to now, or passed. *)
Clock == {"ahead", "now", "passed"}
Account == [status : {"ACTIVE", "LOCKED", "BANNED", "none"},   \* none: no row
            lockedUntil : Clock \cup {None},
            failed : Nat]

NoAccount == [status |-> "none", lockedUntil |-> None, failed |-> 0]
Exists(u) == acct[u].status # "none"

Idle == [pc |-> "idle", user |-> None, until |-> None]
Req == [pc : {"idle", "loginUnlock", "verify", "bruteLock", "reset", "issue", "revoke",
              "lock", "unlock", "ban"},
        user : Users \cup {None}, until : Clock \cup {None}]

Continue(p, pc) == req' = [req EXCEPT ![p].pc = pc]
Return(p) == req' = [req EXCEPT ![p] = Idle]
Start(p, pc, u, until) ==
    /\ req[p].pc = "idle"
    /\ req' = [req EXCEPT ![p] = [pc |-> pc, user |-> u, until |-> until]]

(* UPDATE ... WHERE id = u: nothing happens when the row is gone. *)
Update(u, a) == acct' = IF Exists(u) THEN [acct EXCEPT ![u] = a] ELSE acct

(* lockAccount leaves the counter, updateStatus everything else. *)
LockAccount(u, until) ==
    Update(u, [acct[u] EXCEPT !.status = "LOCKED", !.lockedUntil = until])
BanAccount(u) == Update(u, [acct[u] EXCEPT !.status = "BANNED"])

(* Mutant: forgets locked_until. *)
UnlockStatusOnly(u) ==
    Update(u, [acct[u] EXCEPT !.status = "ACTIVE", !.failed = 0])

(* unlockAccount resets all three columns. *)
UnlockAccount(u) ==
    Update(u, [status |-> "ACTIVE", lockedUntil |-> None, failed |-> 0])

-----------------------------------------------------------------------------
(* Mutant: no test for an email that is not found. *)
BeginLoginUnchecked(p, u) ==
    /\ \/ acct[u].status = "ACTIVE" /\ Start(p, "verify", u, None)
       \/ acct[u].status = "none" /\ Start(p, "verify", None, None)
    /\ UNCHANGED <<acct, session, batch, aborts, lost>>

(* login: findByEmail and the status checks on what it read.  A lock that    *)
(* has run out is lifted, another one or a ban refuses the login.            *)
BeginLogin(p, u) ==
    /\ \/ acct[u].status = "ACTIVE" /\ Start(p, "verify", u, None)
       \/ /\ acct[u].status = "LOCKED" /\ acct[u].lockedUntil \in {"now", "passed"}
          /\ Start(p, "loginUnlock", u, None)
    /\ UNCHANGED <<acct, session, batch, aborts, lost>>

LoginUnlock(p) ==
    /\ req[p].pc = "loginUnlock"
    /\ UnlockAccount(req[p].user)
    /\ Continue(p, "verify")
    /\ UNCHANGED <<session, batch, aborts, lost>>

(* Mutant: locks one attempt late. *)
WrongPasswordLate(p) ==
    LET u == req[p].user
        failed == acct[u].failed + 1
    IN
    /\ req[p].pc = "verify"
    /\ Exists(u)
    /\ acct' = [acct EXCEPT ![u].failed = failed]
    /\ \/ failed > MaxAttempts /\ Continue(p, "bruteLock")
       \/ failed <= MaxAttempts /\ Return(p)
    /\ UNCHANGED <<session, batch, aborts, lost>>

(* A wrong password: incrementFailedAttempts returns the new value and throws *)
(* when the row is gone.  The lock follows in a statement of its own.        *)
WrongPassword(p) ==
    LET u == req[p].user
        failed == acct[u].failed + 1
    IN
    /\ req[p].pc = "verify"
    /\ \/ /\ Exists(u)
          /\ acct' = [acct EXCEPT ![u].failed = failed]
          /\ \/ failed >= MaxAttempts /\ Continue(p, "bruteLock")
             \/ failed < MaxAttempts /\ Return(p)
       \/ /\ ~Exists(u)
          /\ Return(p)
          /\ UNCHANGED acct
    /\ UNCHANGED <<session, batch, aborts, lost>>

BruteForceLock(p) ==
    /\ req[p].pc = "bruteLock"
    /\ LockAccount(req[p].user, "ahead")
    /\ Continue(p, "revoke")
    /\ UNCHANGED <<session, batch, aborts, lost>>

(* revokeAllUserTokens, the last statement of a lock or a ban. *)
RevokeAll(p) ==
    /\ req[p].pc = "revoke"
    /\ session' = session \ {req[p].user}
    /\ Return(p)
    /\ UNCHANGED <<acct, batch, aborts, lost>>

(* The right password: resetFailedAttempts, then the refresh token, which    *)
(* the foreign key refuses to an account that is gone.                       *)
RightPassword(p) ==
    LET u == req[p].user IN
    /\ req[p].pc = "verify"
    /\ Update(u, [acct[u] EXCEPT !.failed = 0])
    /\ Continue(p, "issue")
    /\ UNCHANGED <<session, batch, aborts, lost>>

IssueSession(p) ==
    LET u == req[p].user IN
    /\ req[p].pc = "issue"
    /\ session' = IF Exists(u) THEN session \cup {u} ELSE session
    /\ Return(p)
    /\ UNCHANGED <<acct, batch, aborts, lost>>

-----------------------------------------------------------------------------
(* The admin's operations: findById, then the write. *)
BeginLock(p, u, until) ==
    /\ Exists(u)
    /\ Start(p, "lock", u, until)
    /\ UNCHANGED <<acct, session, batch, aborts, lost>>

AdminLock(p) ==
    /\ req[p].pc = "lock"
    /\ LockAccount(req[p].user, req[p].until)
    /\ Continue(p, "revoke")
    /\ UNCHANGED <<session, batch, aborts, lost>>

BeginUnlock(p, u) ==
    /\ Exists(u)
    /\ Start(p, "unlock", u, None)
    /\ UNCHANGED <<acct, session, batch, aborts, lost>>

AdminUnlock(p) ==
    /\ req[p].pc = "unlock"
    /\ UnlockAccount(req[p].user)
    /\ Return(p)
    /\ UNCHANGED <<session, batch, aborts, lost>>

BeginBan(p, u) ==
    /\ Exists(u)
    /\ Start(p, "ban", u, None)
    /\ UNCHANGED <<acct, session, batch, aborts, lost>>

AdminBan(p) ==
    /\ req[p].pc = "ban"
    /\ BanAccount(req[p].user)
    /\ Continue(p, "revoke")
    /\ UNCHANGED <<session, batch, aborts, lost>>

(* deleteCredentials: one DELETE, which takes the refresh tokens along. *)
DeleteCredentials(u) ==
    /\ acct' = [acct EXCEPT ![u] = NoAccount]
    /\ session' = session \ {u}
    /\ UNCHANGED <<req, batch, aborts, lost>>

-----------------------------------------------------------------------------
Expired(u) == acct[u].status = "LOCKED" /\ acct[u].lockedUntil = "passed"

(* Mutant: locked_until > now. *)
JobFindAhead(j) ==
    /\ batch[j] = {}
    /\ \E u \in Users : acct[u].lockedUntil = "ahead"
    /\ batch' = [batch EXCEPT ![j] = {u \in Users : acct[u].lockedUntil = "ahead"}]
    /\ UNCHANGED <<acct, session, req, aborts, lost>>

(* The job: find the locked accounts with locked_until < now, then unlock    *)
(* them one by one, whatever has become of them.  A failed unlock is logged  *)
(* and left to the next run.                                                 *)
JobFind(j) ==
    /\ batch[j] = {}
    /\ \E u \in Users : Expired(u)
    /\ batch' = [batch EXCEPT ![j] = {u \in Users : Expired(u)}]
    /\ UNCHANGED <<acct, session, req, aborts, lost>>

JobUnlock(j) ==
    \E u \in batch[j] :
        /\ UnlockAccount(u)
        /\ batch' = [batch EXCEPT ![j] = @ \ {u}]
        /\ UNCHANGED <<session, req, aborts, lost>>

JobSkip(j) ==
    \E u \in batch[j] :
        /\ aborts < MaxAborts
        /\ aborts' = aborts + 1
        /\ batch' = [batch EXCEPT ![j] = @ \ {u}]
        /\ UNCHANGED <<acct, session, req, lost>>

(* A handler dies or one of its statements rejects: the rest never runs. *)
Abort(p) ==
    /\ req[p].pc # "idle"
    /\ aborts < MaxAborts
    /\ aborts' = aborts + 1
    /\ lost' = [u \in Users |-> IF req[p].pc = "bruteLock" /\ req[p].user = u
                                THEN lost[u] + 1 ELSE lost[u]]
    /\ Return(p)
    /\ UNCHANGED <<acct, session, batch>>

Tick(u) ==
    /\ \/ acct[u].lockedUntil = "ahead" /\ acct' = [acct EXCEPT ![u].lockedUntil = "now"]
       \/ acct[u].lockedUntil = "now" /\ acct' = [acct EXCEPT ![u].lockedUntil = "passed"]
    /\ UNCHANGED <<session, req, batch, aborts, lost>>

-----------------------------------------------------------------------------
Init ==
    /\ acct = [u \in Users |-> [status |-> "ACTIVE", lockedUntil |-> None, failed |-> 0]]
    /\ session = {}
    /\ req = [p \in Procs |-> Idle]
    /\ batch = [j \in Jobs |-> {}]
    /\ aborts = 0
    /\ lost = [u \in Users |-> 0]

Begin(p) ==
    \E u \in Users : \/ BeginLogin(p, u) \/ BeginUnlock(p, u) \/ BeginBan(p, u)
                     \/ \E until \in {"ahead", None} : BeginLock(p, u, until)

Step(p) ==
    \/ LoginUnlock(p) \/ WrongPassword(p) \/ BruteForceLock(p) \/ RevokeAll(p)
    \/ RightPassword(p) \/ IssueSession(p)
    \/ AdminLock(p) \/ AdminUnlock(p) \/ AdminBan(p)

Next ==
    \/ \E p \in Procs : Begin(p) \/ Step(p) \/ Abort(p)
    \/ \E j \in Jobs : JobFind(j) \/ JobUnlock(j) \/ JobSkip(j)
    \/ \E u \in Users : DeleteCredentials(u) \/ Tick(u)

Spec == Init /\ [][Next]_vars

(* Cron fires again and again and its queries return; admitted requests end. *)
Fairness ==
    /\ \A p \in Procs : WF_vars(Step(p))
    /\ \A j \in Jobs : WF_vars(JobFind(j)) /\ WF_vars(JobUnlock(j))

FairSpec == Spec /\ Fairness

-----------------------------------------------------------------------------
(* Properties *)

(* Every variable holds a value of its kind, and a handler in flight has the *)
(* user it works for.                                                        *)
TypeOK ==
    /\ acct \in [Users -> Account]
    /\ session \subseteq Users
    /\ req \in [Procs -> Req]
    /\ \A p \in Procs : req[p].pc # "idle" => req[p].user \in Users
    /\ batch \in [Jobs -> SUBSET Users]
    /\ aborts \in Nat
    /\ lost \in [Users -> Nat]

(* The counter and the lock are separate statements, and other handlers and  *)
(* the job reset or unlock in between.  Still, an account that can be logged  *)
(* into has at most MaxAttempts - 1 wrong passwords on its counter, plus one  *)
(* for each handler about to lock it and each such handler that died.        *)
Pending(u) == {p \in Procs : req[p].pc = "bruteLock" /\ req[p].user = u}

BruteForceBound ==
    \A u \in Users : acct[u].status = "ACTIVE"
        => acct[u].failed <= MaxAttempts - 1 + Cardinality(Pending(u)) + lost[u]

(* Locks, bans and unlocks write different columns, in any order: an account  *)
(* that is active never carries the locked_until of an old lock, which the    *)
(* next login or the job would misread.                                      *)
ActiveIsUnlocked == \A u \in Users : acct[u].status = "ACTIVE" => acct[u].lockedUntil = None

(* A timed lock that has run out does not stay: the next run of the job that *)
(* gets through, or a login, lifts it.                                       *)
ExpiredLockLifted == \A u \in Users : Expired(u) ~> ~Expired(u)

-----------------------------------------------------------------------------
(* What the documentation says, and the code does not guarantee. *)

ByAdmin(p) == AdminLock(p) \/ AdminUnlock(p) \/ AdminBan(p)

(* banUser: "Banned accounts require explicit admin action to unban (no      *)
(* auto-unlock)": nothing but an admin's write changes a banned status.      *)
BanNeedsAdmin ==
    [][\A u \in Users : acct[u].status = "BANNED" /\ acct'[u].status # "BANNED"
          => DeleteCredentials(u) \/ \E p \in Procs : ByAdmin(p)]_vars

(* SECURITY.md: "Accounts with locked_until = NULL are permanently locked     *)
(* (admin intervention required)".                                           *)
Indefinite(a) == a.status = "LOCKED" /\ a.lockedUntil = None

IndefiniteLockNeedsAdmin ==
    [][\A u \in Users : Indefinite(acct[u]) /\ ~Indefinite(acct'[u])
          => DeleteCredentials(u) \/ \E p \in Procs : ByAdmin(p)]_vars

(* SECURITY.md gives the job as one UPDATE "WHERE status = 'LOCKED' AND       *)
(* locked_until IS NOT NULL AND locked_until < NOW()": it changes no account  *)
(* but an expired one.                                                       *)
JobUnlocksOnlyExpired ==
    [][\A j \in Jobs, u \in Users : JobUnlock(j) /\ acct'[u] # acct[u] => Expired(u)]_vars

(* lockAccount: "Revoke all active tokens to force immediate session          *)
(* invalidation": while no handler works on it, a locked or banned account    *)
(* has no session.                                                           *)
LockedOut ==
    \A u \in Users : acct[u].status \in {"LOCKED", "BANNED"}
                     /\ (\A p \in Procs : req[p].user # u)
        => u \notin session
=============================================================================
