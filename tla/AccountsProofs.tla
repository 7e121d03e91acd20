--------------------------- MODULE AccountsProofs ---------------------------
(***************************************************************************)
(* Proofs about Accounts, for any users, handlers, instances and limit of    *)
(* attempts.                                                                *)
(***************************************************************************)
EXTENDS Accounts, FiniteSetTheorems, TLAPS

-----------------------------------------------------------------------------
(* Types. *)

(* What a write leaves is an account. *)
LEMMA UpdateType ==
    ASSUME TypeOK, NEW u \in Users, NEW a \in Account, Update(u, a)
    PROVE  acct' \in [Users -> Account]
  BY DEF TypeOK, Update

LEMMA LockType ==
    ASSUME TypeOK, NEW u \in Users, NEW until \in Clock \cup {None}, LockAccount(u, until)
    PROVE  acct' \in [Users -> Account]
  <1>1. [acct[u] EXCEPT !.status = "LOCKED", !.lockedUntil = until] \in Account
    BY DEF TypeOK, Account
  <1>2. QED
    BY <1>1, UpdateType DEF LockAccount

LEMMA BanType ==
    ASSUME TypeOK, NEW u \in Users, BanAccount(u)
    PROVE  acct' \in [Users -> Account]
  <1>1. [acct[u] EXCEPT !.status = "BANNED"] \in Account
    BY DEF TypeOK, Account
  <1>2. QED
    BY <1>1, UpdateType DEF BanAccount

LEMMA UnlockType ==
    ASSUME TypeOK, NEW u \in Users, UnlockAccount(u)
    PROVE  acct' \in [Users -> Account]
  <1>1. [status |-> "ACTIVE", lockedUntil |-> None, failed |-> 0] \in Account
    BY DEF Account
  <1>2. QED
    BY <1>1, UpdateType DEF UnlockAccount

(* What a handler remembers. *)
ReqOK == /\ req \in [Procs -> Req]
         /\ \A p \in Procs : req[p].pc # "idle" => req[p].user \in Users

LEMMA StartType ==
    ASSUME TypeOK, NEW p \in Procs, NEW u \in Users, NEW until \in Clock \cup {None},
           NEW pc \in {"verify", "loginUnlock", "lock", "unlock", "ban"},
           Start(p, pc, u, until)
    PROVE  ReqOK'
  <1>1. [pc |-> pc, user |-> u, until |-> until] \in Req
    BY DEF Req
  <1>2. QED
    BY <1>1 DEF TypeOK, Start, ReqOK

LEMMA ContinueType ==
    ASSUME TypeOK, NEW p \in Procs, req[p].pc # "idle",
           NEW pc \in {"verify", "bruteLock", "issue", "revoke"}, Continue(p, pc)
    PROVE  ReqOK'
  <1>1. [req[p] EXCEPT !.pc = pc] \in Req /\ req[p].user \in Users
    BY DEF TypeOK, Req
  <1>2. QED
    BY <1>1 DEF TypeOK, Continue, ReqOK, Req

LEMMA ReturnType ==
    ASSUME TypeOK, NEW p \in Procs, Return(p)
    PROVE  ReqOK'
  <1>1. Idle \in Req /\ Idle.pc = "idle"
    BY DEF Idle, Req
  <1>2. QED
    BY <1>1 DEF TypeOK, Return, ReqOK

LEMMA TypeInit == Init => TypeOK
  BY AccountsAssumption DEF Init, TypeOK, Account, Idle, Req

LEMMA TypeBegin ==
    ASSUME TypeOK, NEW p \in Procs, Begin(p)
    PROVE  TypeOK'
  <1>1. UNCHANGED <<acct, session, batch, aborts, lost>>
    BY DEF Begin, BeginLogin, BeginUnlock, BeginBan, BeginLock
  <1>2. ReqOK'
    <2> SUFFICES ASSUME NEW u \in Users,
                        \/ BeginLogin(p, u) \/ BeginUnlock(p, u) \/ BeginBan(p, u)
                        \/ \E until \in {"ahead", None} : BeginLock(p, u, until)
                 PROVE  ReqOK'
      BY DEF Begin
    <2>1. CASE BeginLogin(p, u)
      BY <2>1, StartType DEF BeginLogin
    <2>2. CASE BeginUnlock(p, u)
      BY <2>2, StartType DEF BeginUnlock
    <2>3. CASE BeginBan(p, u)
      BY <2>3, StartType DEF BeginBan
    <2>4. CASE \E until \in {"ahead", None} : BeginLock(p, u, until)
      BY <2>4, StartType DEF BeginLock, Clock
    <2>5. QED
      BY <2>1, <2>2, <2>3, <2>4
  <1>3. QED
    BY <1>1, <1>2 DEF TypeOK, ReqOK

LEMMA TypeStep ==
    ASSUME TypeOK, NEW p \in Procs, Step(p)
    PROVE  TypeOK'
  <1> DEFINE u == req[p].user
  <1>u. req[p].pc # "idle" => u \in Users
    BY DEF TypeOK
  <1>a. u \in Users => acct[u] \in Account /\ acct[u].failed \in Nat
    BY DEF TypeOK, Account
  <1>1. CASE LoginUnlock(p)
    BY <1>1, <1>u, UnlockType, ContinueType DEF LoginUnlock, TypeOK, ReqOK
  <1>2. CASE WrongPassword(p)
    <2>1. u \in Users /\ ReqOK'
      BY <1>2, <1>u, ContinueType, ReturnType DEF WrongPassword
    <2>2. acct' \in [Users -> Account]
      <3>1. CASE Exists(u)
        <4>1. acct' = [acct EXCEPT ![u].failed = acct[u].failed + 1]
          BY <1>2, <3>1 DEF WrongPassword
        <4>2. [acct[u] EXCEPT !.failed = acct[u].failed + 1] \in Account
          BY <1>a, <2>1 DEF Account
        <4>3. QED
          BY <2>1, <4>1, <4>2 DEF TypeOK
      <3>2. CASE ~Exists(u)
        BY <1>2, <3>2 DEF WrongPassword, TypeOK
      <3>3. QED
        BY <3>1, <3>2
    <2>3. QED
      BY <1>2, <2>1, <2>2 DEF WrongPassword, TypeOK, ReqOK
  <1>3. CASE BruteForceLock(p)
    BY <1>3, <1>u, LockType, ContinueType DEF BruteForceLock, TypeOK, ReqOK, Clock
  <1>4. CASE RevokeAll(p)
    BY <1>4, ReturnType DEF RevokeAll, TypeOK, ReqOK
  <1>5. CASE RightPassword(p)
    <2>1. u \in Users /\ ReqOK'
      BY <1>5, <1>u, ContinueType DEF RightPassword
    <2>2. [acct[u] EXCEPT !.failed = 0] \in Account
      BY <1>a, <2>1 DEF Account
    <2>3. acct' \in [Users -> Account]
      BY <1>5, <2>1, <2>2, UpdateType DEF RightPassword
    <2>4. QED
      BY <1>5, <2>1, <2>3 DEF RightPassword, TypeOK, ReqOK
  <1>6. CASE IssueSession(p)
    BY <1>6, <1>u, ReturnType DEF IssueSession, TypeOK, ReqOK
  <1>7. CASE AdminLock(p)
    <2>1. req[p].until \in Clock \cup {None}
      BY DEF TypeOK, Req
    <2>2. QED
      BY <1>7, <1>u, <2>1, LockType, ContinueType DEF AdminLock, TypeOK, ReqOK
  <1>8. CASE AdminUnlock(p)
    BY <1>8, <1>u, UnlockType, ReturnType DEF AdminUnlock, TypeOK, ReqOK
  <1>9. CASE AdminBan(p)
    BY <1>9, <1>u, BanType, ContinueType DEF AdminBan, TypeOK, ReqOK
  <1>10. QED
    BY <1>1, <1>2, <1>3, <1>4, <1>5, <1>6, <1>7, <1>8, <1>9 DEF Step

LEMMA TypeAbort ==
    ASSUME TypeOK, NEW p \in Procs, Abort(p)
    PROVE  TypeOK'
  <1>1. ReqOK'
    BY ReturnType DEF Abort
  <1>2. lost' \in [Users -> Nat] /\ aborts' \in Nat
    BY DEF Abort, TypeOK
  <1>3. QED
    BY <1>1, <1>2 DEF Abort, TypeOK, ReqOK

LEMMA TypeJob ==
    ASSUME TypeOK, NEW j \in Jobs, JobFind(j) \/ JobUnlock(j) \/ JobSkip(j)
    PROVE  TypeOK'
  <1>1. CASE JobFind(j)
    BY <1>1 DEF JobFind, TypeOK
  <1>2. CASE JobUnlock(j)
    <2>1. PICK u \in batch[j] : /\ UnlockAccount(u)
                                /\ batch' = [batch EXCEPT ![j] = batch[j] \ {u}]
                                /\ UNCHANGED <<session, req, aborts, lost>>
      BY <1>2 DEF JobUnlock
    <2>2. u \in Users
      BY DEF TypeOK
    <2>3. QED
      BY <2>1, <2>2, UnlockType DEF TypeOK
  <1>3. CASE JobSkip(j)
    BY <1>3 DEF JobSkip, TypeOK
  <1>4. QED
    BY <1>1, <1>2, <1>3

LEMMA TypeUser ==
    ASSUME TypeOK, NEW u \in Users, DeleteCredentials(u) \/ Tick(u)
    PROVE  TypeOK'
  <1>1. CASE DeleteCredentials(u)
    <2>1. NoAccount \in Account
      BY DEF NoAccount, Account
    <2>2. QED
      BY <1>1, <2>1 DEF DeleteCredentials, TypeOK
  <1>2. CASE Tick(u)
    <2>1. PICK until \in Clock : acct' = [acct EXCEPT ![u].lockedUntil = until]
      BY <1>2 DEF Tick, Clock
    <2>2. [acct[u] EXCEPT !.lockedUntil = until] \in Account
      BY DEF TypeOK, Account
    <2>3. QED
      BY <1>2, <2>1, <2>2 DEF Tick, TypeOK
  <1>3. QED
    BY <1>1, <1>2

(* A step is one of these. *)
LEMMA NextSplit ==
    ASSUME [Next]_vars
    PROVE  \/ \E p \in Procs : Begin(p) \/ Step(p) \/ Abort(p)
           \/ \E j \in Jobs : JobFind(j) \/ JobUnlock(j) \/ JobSkip(j)
           \/ \E u \in Users : DeleteCredentials(u) \/ Tick(u)
           \/ UNCHANGED vars
  BY DEF Next

LEMMA TypeNext == TypeOK /\ [Next]_vars => TypeOK'
  <1> SUFFICES ASSUME TypeOK, [Next]_vars PROVE TypeOK'
    OBVIOUS
  <1>1. CASE UNCHANGED vars
    BY <1>1 DEF vars, TypeOK
  <1>2. QED
    BY <1>1, NextSplit, TypeBegin, TypeStep, TypeAbort, TypeJob, TypeUser

(* Every handler, every run of the job and the clock keep the tables and     *)
(* what handlers remember well-formed.                                       *)
THEOREM TypeCorrect == Spec => []TypeOK
  BY TypeInit, TypeNext, PTL DEF Spec

-----------------------------------------------------------------------------
(* What a step does to one account. *)

(* Every write but the counter's and the clock's leaves an account that is   *)
(* not active, or one just unlocked; resetFailedAttempts changes the counter  *)
(* alone.                                                                    *)
Unlocked(a) == a.status = "ACTIVE" /\ a.lockedUntil = None /\ a.failed = 0

Counted(a, b) == b.status = a.status /\ b.lockedUntil = a.lockedUntil

Written(a, b) ==
    \/ b.status # "ACTIVE"
    \/ Unlocked(b)
    \/ Counted(a, b) /\ (b.failed = a.failed \/ b.failed = 0)

LEMMA LockWrites ==
    ASSUME TypeOK, NEW u \in Users, NEW until, LockAccount(u, until) \/ BanAccount(u),
           NEW v \in Users
    PROVE  Written(acct[v], acct'[v])
           /\ (v = u => acct'[v].status # "ACTIVE")
  BY DEF TypeOK, Account, LockAccount, BanAccount, Update, Exists, Written, Counted

LEMMA UnlockWrites ==
    ASSUME TypeOK, NEW u \in Users, UnlockAccount(u), NEW v \in Users
    PROVE  Written(acct[v], acct'[v])
  BY DEF TypeOK, Account, UnlockAccount, Update, Written, Unlocked, Counted

LEMMA ResetWrites ==
    ASSUME TypeOK, NEW u \in Users, NEW v \in Users,
           Update(u, [acct[u] EXCEPT !.failed = 0])
    PROVE  Written(acct[v], acct'[v])
  BY DEF TypeOK, Account, Update, Written, Counted

LEMMA SameWrites ==
    ASSUME NEW v, UNCHANGED acct
    PROVE  Written(acct[v], acct'[v])
  BY DEF Written, Counted

LEMMA StepWrites ==
    ASSUME TypeOK, NEW p \in Procs, Step(p), ~WrongPassword(p), NEW v \in Users
    PROVE  Written(acct[v], acct'[v])
  <1> DEFINE u == req[p].user
  <1>u. req[p].pc # "idle" => u \in Users
    BY DEF TypeOK
  <1>1. CASE LoginUnlock(p) \/ AdminUnlock(p)
    BY <1>1, <1>u, UnlockWrites DEF LoginUnlock, AdminUnlock
  <1>2. CASE BruteForceLock(p) \/ AdminLock(p) \/ AdminBan(p)
    BY <1>2, <1>u, LockWrites DEF BruteForceLock, AdminLock, AdminBan
  <1>3. CASE RevokeAll(p) \/ IssueSession(p)
    BY <1>3, SameWrites DEF RevokeAll, IssueSession
  <1>4. CASE RightPassword(p)
    BY <1>4, <1>u, ResetWrites DEF RightPassword
  <1>5. QED
    BY <1>1, <1>2, <1>3, <1>4 DEF Step

LEMMA JobWrites ==
    ASSUME TypeOK, NEW j \in Jobs, JobFind(j) \/ JobUnlock(j) \/ JobSkip(j), NEW v \in Users
    PROVE  Written(acct[v], acct'[v])
  <1>1. CASE JobFind(j) \/ JobSkip(j)
    BY <1>1, SameWrites DEF JobFind, JobSkip
  <1>2. CASE JobUnlock(j)
    BY <1>2, UnlockWrites DEF JobUnlock, TypeOK
  <1>3. QED
    BY <1>1, <1>2

LEMMA BeginWrites ==
    ASSUME NEW p \in Procs, Begin(p) \/ Abort(p), NEW v \in Users
    PROVE  Written(acct[v], acct'[v])
  BY SameWrites DEF Begin, BeginLogin, BeginUnlock, BeginBan, BeginLock, Abort

LEMMA DeleteWrites ==
    ASSUME TypeOK, NEW u \in Users, DeleteCredentials(u), NEW v \in Users
    PROVE  Written(acct[v], acct'[v])
  BY DEF TypeOK, DeleteCredentials, NoAccount, Written, Counted

-----------------------------------------------------------------------------
(* An active account carries no locked_until. *)
Clear(a) == a.status = "ACTIVE" => a.lockedUntil = None

LEMMA WrittenClear ==
    ASSUME NEW a, NEW b, Clear(a), Written(a, b)
    PROVE  Clear(b)
  BY DEF Clear, Written, Unlocked, Counted

LEMMA WrongPasswordCounts ==
    ASSUME TypeOK, NEW p \in Procs, WrongPassword(p), NEW v \in Users
    PROVE  Counted(acct[v], acct'[v])
  BY DEF TypeOK, Account, WrongPassword, Counted

LEMMA TickClear ==
    ASSUME TypeOK, NEW u \in Users, Tick(u), NEW v \in Users, Clear(acct[v])
    PROVE  Clear(acct'[v])
  <1>1. CASE v # u
    BY <1>1 DEF Tick, TypeOK, Account
  <1>2. CASE v = u
    <2>1. acct[u].lockedUntil # None
      BY AccountsAssumption DEF Tick
    <2>2. acct'[u].status = acct[u].status
      BY DEF Tick, TypeOK, Account
    <2>3. QED
      BY <1>2, <2>1, <2>2 DEF Clear
  <1>3. QED
    BY <1>1, <1>2

LEMMA ClearNext ==
    ASSUME TypeOK, [Next]_vars, NEW v \in Users, Clear(acct[v])
    PROVE  Clear(acct'[v])
  <1>1. CASE \E p \in Procs : Begin(p) \/ Abort(p)
    BY <1>1, BeginWrites, WrittenClear
  <1>2. CASE \E p \in Procs : Step(p)
    <2>1. PICK p \in Procs : Step(p)
      BY <1>2
    <2>2. CASE WrongPassword(p)
      BY <2>2, WrongPasswordCounts DEF Clear, Counted
    <2>3. CASE ~WrongPassword(p)
      BY <2>1, <2>3, StepWrites, WrittenClear
    <2>4. QED
      BY <2>2, <2>3
  <1>3. CASE \E j \in Jobs : JobFind(j) \/ JobUnlock(j) \/ JobSkip(j)
    BY <1>3, JobWrites, WrittenClear
  <1>4. CASE \E u \in Users : DeleteCredentials(u)
    BY <1>4, DeleteWrites, WrittenClear
  <1>5. CASE \E u \in Users : Tick(u)
    BY <1>5, TickClear
  <1>6. CASE UNCHANGED vars
    BY <1>6 DEF vars
  <1>7. QED
    BY <1>1, <1>2, <1>3, <1>4, <1>5, <1>6, NextSplit

(* Bans, locks, unlocks and the counter, in any order and from any number of  *)
(* handlers and jobs, never leave an active account with the locked_until of  *)
(* an earlier lock.                                                          *)
THEOREM ActiveAccountsUnlocked == Spec => []ActiveIsUnlocked
  <1>1. Init => ActiveIsUnlocked
    BY DEF Init, ActiveIsUnlocked
  <1>2. TypeOK /\ ActiveIsUnlocked /\ [Next]_vars => ActiveIsUnlocked'
    <2> SUFFICES ASSUME TypeOK, ActiveIsUnlocked, [Next]_vars, NEW v \in Users
                 PROVE  Clear(acct'[v])
      BY DEF ActiveIsUnlocked, Clear
    <2>1. QED
      BY ClearNext DEF ActiveIsUnlocked, Clear
  <1>3. QED
    BY <1>1, <1>2, TypeCorrect, PTL DEF Spec

-----------------------------------------------------------------------------
(* The bound on wrong passwords. *)
Bounded(u) ==
    acct[u].status = "ACTIVE"
        => acct[u].failed <= MaxAttempts - 1 + Cardinality(Pending(u)) + lost[u]

LEMMA PendingFinite ==
    ASSUME NEW u
    PROVE  IsFiniteSet(Pending(u)) /\ Cardinality(Pending(u)) \in Nat
  BY AccountsAssumption, FS_Subset, FS_CardinalityType DEF Pending

(* A step that counts nothing and gives up no due lock keeps the bound. *)
LEMMA BoundKept ==
    ASSUME TypeOK, TypeOK', NEW u \in Users, Bounded(u), Written(acct[u], acct'[u]),
           Pending(u) \subseteq Pending(u)' \/ acct'[u].status # "ACTIVE",
           lost'[u] = lost[u]
    PROVE  Bounded(u)'
  <1> SUFFICES ASSUME acct'[u].status = "ACTIVE"
               PROVE  acct'[u].failed <= MaxAttempts - 1 + Cardinality(Pending(u)') + lost'[u]
    BY DEF Bounded
  <1>1. IsFiniteSet(Pending(u)') /\ Cardinality(Pending(u)') \in Nat
    BY AccountsAssumption, FS_Subset, FS_CardinalityType DEF Pending
  <1>2. Cardinality(Pending(u)) <= Cardinality(Pending(u)') /\ Cardinality(Pending(u)) \in Nat
    <2>1. Pending(u) \in SUBSET Pending(u)'
      OBVIOUS
    <2>2. QED
      BY <1>1, <2>1, FS_Subset, PendingFinite
  <1>3. /\ MaxAttempts \in Nat \ {0} /\ lost[u] \in Nat
        /\ acct[u].failed \in Nat /\ acct'[u].failed \in Nat
    BY AccountsAssumption DEF TypeOK, Account
  <1>4. CASE acct'[u].failed = 0
    BY <1>1, <1>3, <1>4
  <1>5. CASE acct'[u].failed = acct[u].failed /\ acct[u].status = "ACTIVE"
    BY <1>2, <1>1, <1>3, <1>5 DEF Bounded
  <1>6. QED
    BY <1>4, <1>5 DEF Written, Unlocked, Counted

(* Handlers that take a step elsewhere are still about to lock. *)
LEMMA PendingKept ==
    ASSUME TypeOK, NEW p \in Procs, \A q \in Procs \ {p} : req'[q] = req[q], NEW u \in Users,
           req[p].pc # "bruteLock" \/ req[p].user # u
    PROVE  Pending(u) \subseteq Pending(u)'
  BY DEF Pending

(* One more wrong password: below the limit, or paid for by a due lock. *)
LEMMA BoundCount ==
    ASSUME TypeOK, TypeOK', NEW p \in Procs, WrongPassword(p), NEW u \in Users, Bounded(u)
    PROVE  Bounded(u)'
  <1> DEFINE v == req[p].user
             failed == acct[v].failed + 1
  <1>1. /\ \A q \in Procs \ {p} : req'[q] = req[q]
        /\ req[p].pc = "verify" /\ v \in Users
    BY DEF WrongPassword, Continue, Return, TypeOK
  <1>2. Pending(u) \subseteq Pending(u)' /\ lost'[u] = lost[u]
    BY <1>1, PendingKept DEF WrongPassword
  <1>3. CASE u # v \/ ~Exists(v)
    <2>1. acct'[u] = acct[u]
      BY <1>1, <1>3 DEF WrongPassword, TypeOK
    <2>2. Written(acct[u], acct'[u])
      BY <2>1 DEF Written, Counted
    <2>3. QED
      BY <1>2, <2>2, BoundKept
  <1>4. CASE u = v /\ Exists(v)
    <2>1. acct[u] \in Account /\ acct[u].failed \in Nat /\ lost[u] \in Nat
      BY DEF TypeOK, Account
    <2>2. acct'[u].failed = acct[u].failed + 1 /\ acct'[u].status = acct[u].status
      BY <1>1, <1>4, <2>1 DEF WrongPassword, TypeOK, Account
    <2>3. /\ IsFiniteSet(Pending(u)') /\ Cardinality(Pending(u)') \in Nat
          /\ MaxAttempts \in Nat \ {0}
      BY AccountsAssumption, FS_Subset, FS_CardinalityType DEF Pending
    <2>4. CASE acct[u].failed + 1 < MaxAttempts
      BY <1>2, <2>1, <2>2, <2>3, <2>4 DEF Bounded
    <2>5. CASE acct[u].failed + 1 >= MaxAttempts
      <3>1. req'[p].pc = "bruteLock" /\ req'[p].user = u
        BY <1>1, <1>4, <2>1, <2>3, <2>5 DEF WrongPassword, Continue, TypeOK, Req
      <3>2. p \notin Pending(u) /\ Pending(u) \cup {p} \subseteq Pending(u)'
        BY <1>1, <1>2, <3>1 DEF Pending
      <3>3. /\ Cardinality(Pending(u) \cup {p}) = Cardinality(Pending(u)) + 1
            /\ Cardinality(Pending(u)) \in Nat
        BY <3>2, PendingFinite, FS_AddElement
      <3>4. Cardinality(Pending(u)) + 1 <= Cardinality(Pending(u)')
        BY <2>3, <3>2, <3>3, FS_Subset
      <3>5. QED
        BY <1>2, <2>1, <2>2, <2>3, <3>3, <3>4 DEF Bounded
    <2>6. QED
      BY <2>1, <2>3, <2>4, <2>5
  <1>5. QED
    BY <1>3, <1>4

(* A handler that dies before its lock is counted in lost. *)
LEMMA BoundAbort ==
    ASSUME TypeOK, TypeOK', NEW p \in Procs, Abort(p), NEW u \in Users, Bounded(u)
    PROVE  Bounded(u)'
  <1>1. \A q \in Procs \ {p} : req'[q] = req[q]
    BY DEF Abort, Return, TypeOK
  <1>2. CASE req[p].pc = "bruteLock" /\ req[p].user = u
    <2>1. lost'[u] = lost[u] + 1 /\ acct' = acct
      BY <1>2 DEF Abort
    <2>2. Pending(u) \ {p} \subseteq Pending(u)'
      BY <1>1 DEF Pending
    <2>3. IsFiniteSet(Pending(u)') /\ Cardinality(Pending(u)') \in Nat
      BY AccountsAssumption, FS_Subset, FS_CardinalityType DEF Pending
    <2>4. Cardinality(Pending(u) \ {p}) = Cardinality(Pending(u)) - 1
      <3>1. p \in Pending(u)
        BY <1>2 DEF Pending
      <3>2. QED
        BY <3>1, PendingFinite, FS_RemoveElement
    <2>5. Cardinality(Pending(u)) - 1 <= Cardinality(Pending(u)')
      BY <2>2, <2>3, <2>4, FS_Subset
    <2>6. lost[u] \in Nat /\ acct[u].failed \in Nat /\ MaxAttempts \in Nat
      BY AccountsAssumption DEF TypeOK, Account
    <2>7. QED
      BY <2>1, <2>3, <2>5, <2>6, PendingFinite DEF Bounded
  <1>3. CASE ~(req[p].pc = "bruteLock" /\ req[p].user = u)
    <2>1. lost'[u] = lost[u] /\ UNCHANGED acct
      BY <1>3 DEF Abort, TypeOK
    <2>2. Pending(u) \subseteq Pending(u)'
      BY <1>1, <1>3, PendingKept
    <2>3. QED
      BY <2>1, <2>2, SameWrites, BoundKept
  <1>4. QED
    BY <1>2, <1>3

LEMMA BoundStep ==
    ASSUME TypeOK, TypeOK', NEW p \in Procs, Step(p), ~WrongPassword(p),
           NEW u \in Users, Bounded(u)
    PROVE  Bounded(u)'
  <1>1. Written(acct[u], acct'[u])
    BY StepWrites
  <1>2. (\A q \in Procs \ {p} : req'[q] = req[q]) /\ lost' = lost
    BY DEF Step, LoginUnlock, BruteForceLock, RevokeAll, RightPassword, IssueSession,
           AdminLock, AdminUnlock, AdminBan, Continue, Return, TypeOK
  <1>3. CASE req[p].pc = "bruteLock" /\ req[p].user = u
    <2>1. BruteForceLock(p)
      BY <1>3 DEF Step, LoginUnlock, RevokeAll, RightPassword, IssueSession,
                  AdminLock, AdminUnlock, AdminBan
    <2>2. acct'[u].status # "ACTIVE"
      BY <1>3, <2>1, LockWrites DEF BruteForceLock
    <2>3. QED
      BY <1>1, <1>2, <2>2, BoundKept
  <1>4. CASE ~(req[p].pc = "bruteLock" /\ req[p].user = u)
    BY <1>1, <1>2, <1>4, PendingKept, BoundKept
  <1>5. QED
    BY <1>3, <1>4

LEMMA BoundBegin ==
    ASSUME TypeOK, TypeOK', NEW p \in Procs, Begin(p), NEW u \in Users, Bounded(u)
    PROVE  Bounded(u)'
  <1>1. /\ \A q \in Procs \ {p} : req'[q] = req[q]
        /\ req[p].pc = "idle" /\ lost' = lost
    BY DEF Begin, BeginLogin, BeginLock, BeginUnlock, BeginBan, Start, TypeOK
  <1>2. QED
    BY <1>1, BeginWrites, PendingKept, BoundKept

LEMMA BoundElsewhere ==
    ASSUME TypeOK, TypeOK', UNCHANGED <<req, lost>>, NEW u \in Users, Bounded(u),
           Written(acct[u], acct'[u])
    PROVE  Bounded(u)'
  <1>1. Pending(u)' = Pending(u)
    BY DEF Pending
  <1>2. QED
    BY <1>1, BoundKept

LEMMA BoundNext ==
    ASSUME TypeOK, TypeOK', [Next]_vars, NEW u \in Users, Bounded(u)
    PROVE  Bounded(u)'
  <1>1. CASE \E p \in Procs : Begin(p) \/ Step(p) \/ Abort(p)
    BY <1>1, BoundBegin, BoundStep, BoundCount, BoundAbort
  <1>2. CASE \E j \in Jobs : JobFind(j) \/ JobUnlock(j) \/ JobSkip(j)
    <2>1. UNCHANGED <<req, lost>>
      BY <1>2 DEF JobFind, JobUnlock, JobSkip
    <2>2. QED
      BY <1>2, <2>1, JobWrites, BoundElsewhere
  <1>3. CASE \E v \in Users : DeleteCredentials(v)
    BY <1>3, DeleteWrites, BoundElsewhere DEF DeleteCredentials
  <1>4. CASE \E v \in Users : Tick(v)
    <2>1. UNCHANGED <<req, lost>>
      BY <1>4 DEF Tick
    <2>2. acct'[u].failed = acct[u].failed /\ acct'[u].status = acct[u].status
      BY <1>4 DEF Tick, TypeOK, Account
    <2>3. Pending(u)' = Pending(u)
      BY <2>1 DEF Pending
    <2>4. QED
      BY <2>1, <2>2, <2>3 DEF Bounded
  <1>5. CASE UNCHANGED vars
    BY <1>5, SameWrites, BoundElsewhere DEF vars
  <1>6. QED
    BY <1>1, <1>2, <1>3, <1>4, <1>5, NextSplit

(* However logins, administrators and the job interleave, an account that     *)
(* can be logged into has at most MaxAttempts - 1 wrong passwords counted,    *)
(* plus one for each handler about to lock it or dead before it could.       *)
THEOREM BruteForceBounded == Spec => []BruteForceBound
  <1>1. Init => BruteForceBound
    <2> SUFFICES ASSUME Init, NEW u \in Users PROVE Bounded(u)
      BY DEF BruteForceBound, Bounded
    <2>1. acct[u].failed = 0 /\ lost[u] = 0
      BY DEF Init
    <2>2. QED
      BY <2>1, PendingFinite, AccountsAssumption DEF Bounded
  <1>2. TypeOK /\ TypeOK' /\ BruteForceBound /\ [Next]_vars => BruteForceBound'
    <2> SUFFICES ASSUME TypeOK, TypeOK', BruteForceBound, [Next]_vars, NEW u \in Users
                 PROVE  Bounded(u)'
      BY DEF BruteForceBound, Bounded
    <2>1. QED
      BY BoundNext DEF BruteForceBound, Bounded
  <1>3. QED
    BY <1>1, <1>2, TypeCorrect, PTL DEF Spec
=============================================================================
