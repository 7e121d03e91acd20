------------------------- MODULE PasswordResetProofs -------------------------
(***************************************************************************)
(* Proofs about PasswordReset, for any users and tokens and any finite set   *)
(* of handlers.                                                             *)
(***************************************************************************)
EXTENDS PasswordReset, FiniteSetTheorems, TLAPS

-----------------------------------------------------------------------------
(* Types. *)
TableOK == /\ tok \in [Tokens -> Row]
           /\ \A t \in Tokens : Stored(t) => tok[t].user \in Users

HandlersOK ==
    /\ req \in [Procs -> Req]
    /\ \A p \in Procs :
          /\ req[p].pc # "idle" => req[p].user \in Users
          /\ req[p].pc \in {"update", "mark", "delete", "revoke"} => req[p].token \in Tokens

LEMMA BlankType ==
    ASSUME NEW st \in {"unissued", "stored", "deleted"}, NEW u \in Users \cup {None}
    PROVE  Blank(st, u) \in Row /\ Blank(st, u).st = st /\ Blank(st, u).user = u
           /\ Blank(st, u).used = FALSE
  BY DEF Blank, Row

LEMMA DeleteType ==
    ASSUME TypeOK, NEW S, Delete(S)
    PROVE  TableOK'
  BY BlankType DEF TypeOK, TableOK, Delete, Stored

LEMMA StartType ==
    ASSUME TypeOK, NEW p \in Procs, NEW pc \in {"clear", "update", "issue"}, NEW u \in Users,
           NEW t \in Tokens \cup {None}, NEW pw \in Nat, pc = "update" => t \in Tokens,
           Start(p, pc, u, t, pw)
    PROVE  HandlersOK'
  <1>1. [pc |-> pc, user |-> u, token |-> t, pw |-> pw] \in Req
    BY DEF Req
  <1>2. QED
    BY <1>1 DEF TypeOK, Start, HandlersOK

LEMMA ContinueType ==
    ASSUME TypeOK, NEW p \in Procs, req[p].pc # "idle",
           NEW pc \in {"create", "mark", "delete", "revoke"},
           pc = "create" \/ req[p].token \in Tokens, Continue(p, pc)
    PROVE  HandlersOK'
  <1>1. [req[p] EXCEPT !.pc = pc] \in Req /\ req[p].user \in Users
    BY DEF TypeOK, Req
  <1>2. QED
    BY <1>1 DEF TypeOK, Continue, HandlersOK, Req

LEMMA ReturnType ==
    ASSUME TypeOK, NEW p \in Procs, Return(p)
    PROVE  HandlersOK'
  <1>1. Idle \in Req /\ Idle.pc = "idle"
    BY DEF Idle, Req
  <1>2. QED
    BY <1>1 DEF TypeOK, Return, HandlersOK

LEMMA TypeInit == Init => TypeOK
  <1> SUFFICES ASSUME Init PROVE TypeOK
    OBVIOUS
  <1>1. TableOK
    BY BlankType DEF Init, TableOK, Stored
  <1>2. Idle \in Req /\ Idle.pc = "idle"
    BY DEF Idle, Req
  <1>3. HandlersOK
    BY <1>2 DEF Init, HandlersOK
  <1>4. QED
    BY <1>1, <1>3, ResetAssumption DEF Init, TypeOK, TableOK, HandlersOK

LEMMA TypeBegin ==
    ASSUME TypeOK, NEW p \in Procs, Begin(p)
    PROVE  TypeOK'
  <1>1. CASE \E u \in Users : BeginForgot(p, u)
    BY <1>1, StartType DEF BeginForgot, TypeOK, TableOK, HandlersOK, data, aux, Stored
  <1>2. CASE \E u \in Users : BeginLogin(p, u)
    <2>1. PICK u \in Users : BeginLogin(p, u)
      BY <1>2
    <2>2. password[u] \in Nat
      BY DEF TypeOK
    <2>3. QED
      BY <2>1, <2>2, StartType DEF BeginLogin, TypeOK, HandlersOK, data, aux, Stored
  <1>3. CASE \E t \in Tokens : BeginReset(p, t)
    <2>1. PICK t \in Tokens : BeginReset(p, t)
      BY <1>3
    <2>2. tok[t].user \in Users
      BY <2>1 DEF BeginReset, TypeOK
    <2>3. QED
      BY <2>1, <2>2, StartType DEF BeginReset, TypeOK, HandlersOK, data, aux, Stored
  <1>4. QED
    BY <1>1, <1>2, <1>3 DEF Begin

LEMMA TypeStep ==
    ASSUME TypeOK, NEW p \in Procs, Step(p)
    PROVE  TypeOK'
  <1> DEFINE u == req[p].user
  <1>u. req[p].pc # "idle" => u \in Users
    BY DEF TypeOK
  <1>t. req[p].pc \in {"update", "mark", "delete", "revoke"} => req[p].token \in Tokens
    BY DEF TypeOK
  <1>1. CASE ClearTokens(p)
    BY <1>1, DeleteType, ContinueType DEF ClearTokens, TypeOK, TableOK, HandlersOK, aux
  <1>2. CASE CreateToken(p)
    <2>1. HandlersOK'
      BY <1>2, ReturnType DEF CreateToken
    <2>2. TableOK'
      <3>1. CASE UNCHANGED tok
        BY <3>1 DEF TypeOK, TableOK, Stored
      <3>2. CASE \E t \in Tokens : tok' = [tok EXCEPT ![t] = Blank("stored", u)]
        <4>1. PICK t \in Tokens : tok' = [tok EXCEPT ![t] = Blank("stored", u)]
          BY <3>2
        <4>2. u \in Users
          BY <1>2, <1>u DEF CreateToken
        <4>3. Blank("stored", u) \in Row /\ Blank("stored", u).user = u
          BY <4>2, BlankType
        <4>4. QED
          BY <4>1, <4>2, <4>3 DEF TypeOK, TableOK, Stored
      <3>3. QED
        BY <1>2, <3>1, <3>2 DEF CreateToken
    <2>3. QED
      BY <1>2, <2>1, <2>2 DEF CreateToken, TypeOK, TableOK, HandlersOK, aux
  <1>3. CASE UpdatePassword(p)
    <2>1. HandlersOK' /\ u \in Users /\ req[p].token \in Tokens
      BY <1>3, <1>u, <1>t, ContinueType DEF UpdatePassword
    <2>2. password' \in [Users -> Nat]
      BY <1>3, <2>1 DEF UpdatePassword, TypeOK
    <2>3. resets' \in [Tokens -> Nat]
      BY <1>3, <2>1 DEF UpdatePassword, TypeOK
    <2>4. QED
      BY <1>3, <2>1, <2>2, <2>3 DEF UpdatePassword, TypeOK, HandlersOK, Stored
  <1>4. CASE MarkAsUsed(p)
    <2>1. HandlersOK' /\ req[p].token \in Tokens
      BY <1>4, <1>t, ContinueType DEF MarkAsUsed
    <2>2. TableOK'
      BY <1>4, <2>1 DEF MarkAsUsed, TypeOK, TableOK, Stored, Row
    <2>3. QED
      BY <1>4, <2>1, <2>2 DEF MarkAsUsed, TypeOK, TableOK, HandlersOK, aux
  <1>5. CASE DeleteByUserId(p)
    BY <1>5, <1>t, DeleteType, ContinueType
       DEF DeleteByUserId, TypeOK, TableOK, HandlersOK, aux
  <1>6. CASE RevokeSessions(p)
    <2>1. sessions' \in [Users -> SUBSET Nat]
      BY <1>6 DEF RevokeSessions, TypeOK
    <2>2. QED
      BY <1>6, <2>1, ReturnType DEF RevokeSessions, TypeOK, HandlersOK, Stored, aux
  <1>7. CASE IssueSession(p)
    <2>1. req[p].pw \in Nat /\ u \in Users
      BY <1>7, <1>u DEF IssueSession, TypeOK, Req
    <2>2. sessions' \in [Users -> SUBSET Nat]
      BY <1>7, <2>1 DEF IssueSession, TypeOK
    <2>3. QED
      BY <1>7, <2>2, ReturnType DEF IssueSession, TypeOK, HandlersOK, Stored, aux
  <1>8. QED
    BY <1>1, <1>2, <1>3, <1>4, <1>5, <1>6, <1>7 DEF Step

LEMMA TypeAbort ==
    ASSUME TypeOK, NEW p \in Procs, Abort(p)
    PROVE  TypeOK'
  <1>1. lost' \in [Tokens -> Nat] /\ aborts' \in Nat
    BY DEF Abort, TypeOK
  <1>2. QED
    BY <1>1, ReturnType DEF Abort, TypeOK, HandlersOK, data, Stored

(* What happens without a handler. *)
Background ==
    \/ \E u \in Users : DeleteCredentials(u)
    \/ \E t \in Tokens : Expire(t)
    \/ Cleanup

LEMMA TypeBackground ==
    ASSUME TypeOK, Background
    PROVE  TypeOK'
  <1>1. CASE \E u \in Users : DeleteCredentials(u)
    <2>1. PICK u \in Users : DeleteCredentials(u)
      BY <1>1
    <2>2. sessions' \in [Users -> SUBSET Nat]
      BY <2>1 DEF DeleteCredentials, TypeOK
    <2>3. TableOK' /\ accounts' \subseteq Users
      BY <2>1, DeleteType DEF DeleteCredentials, TypeOK
    <2>4. QED
      BY <2>1, <2>2, <2>3 DEF DeleteCredentials, TypeOK, TableOK, aux
  <1>2. CASE \E t \in Tokens : Expire(t)
    <2>1. TableOK'
      <3>1. PICK t \in Tokens : tok' = [tok EXCEPT ![t].expired = TRUE]
        BY <1>2 DEF Expire
      <3>2. /\ [tok[t] EXCEPT !.expired = TRUE] \in Row
            /\ [tok[t] EXCEPT !.expired = TRUE].st = tok[t].st
            /\ [tok[t] EXCEPT !.expired = TRUE].user = tok[t].user
        BY DEF TypeOK, Row
      <3>3. QED
        BY <3>1, <3>2 DEF TypeOK, TableOK, Stored
    <2>2. QED
      BY <1>2, <2>1 DEF Expire, TypeOK, TableOK, aux
  <1>3. CASE Cleanup
    BY <1>3, DeleteType DEF Cleanup, TypeOK, TableOK, aux
  <1>4. QED
    BY <1>1, <1>2, <1>3 DEF Background

LEMMA NextSplit ==
    ASSUME [Next]_vars
    PROVE  \/ \E p \in Procs : Begin(p) \/ Step(p) \/ Abort(p)
           \/ Background
           \/ UNCHANGED vars
  BY DEF Next, Background

LEMMA TypeNext == TypeOK /\ [Next]_vars => TypeOK'
  <1> SUFFICES ASSUME TypeOK, [Next]_vars PROVE TypeOK'
    OBVIOUS
  <1>1. CASE UNCHANGED vars
    BY <1>1 DEF vars, data, aux, TypeOK, Stored
  <1>2. QED
    BY <1>1, NextSplit, TypeBegin, TypeStep, TypeAbort, TypeBackground

(* Every statement finds the user and the token it works for, and leaves the *)
(* tables well-formed.                                                       *)
THEOREM TypeCorrect == Spec => []TypeOK
  BY TypeInit, TypeNext, PTL DEF Spec

-----------------------------------------------------------------------------
(* What a statement does to the token table: it leaves a row, inserts one     *)
(* with a new id, or changes one that is there, never from used to unused.   *)
Evolves(a, b) ==
    \/ b = a
    \/ a.st = "unissued" /\ b.st = "stored"
    \/ b.st = "deleted"
    \/ a.st = "stored" /\ b.st = "stored" /\ (a.used => b.used)

LEMMA DeleteEvolves ==
    ASSUME NEW S, Delete(S), NEW t \in Tokens
    PROVE  Evolves(tok[t], tok'[t])
  BY DEF Delete, Blank, Evolves

LEMMA StepEvolves ==
    ASSUME TypeOK, NEW p \in Procs, Step(p), NEW t \in Tokens
    PROVE  Evolves(tok[t], tok'[t])
  <1>1. CASE ClearTokens(p) \/ DeleteByUserId(p)
    BY <1>1, DeleteEvolves DEF ClearTokens, DeleteByUserId
  <1>2. CASE CreateToken(p)
    BY <1>2 DEF CreateToken, Blank, TypeOK, Evolves
  <1>3. CASE MarkAsUsed(p)
    BY <1>3 DEF MarkAsUsed, TypeOK, Row, Stored, Evolves
  <1>4. CASE UpdatePassword(p) \/ RevokeSessions(p) \/ IssueSession(p)
    BY <1>4 DEF UpdatePassword, RevokeSessions, IssueSession, Evolves
  <1>5. QED
    BY <1>1, <1>2, <1>3, <1>4 DEF Step

LEMMA BackgroundEvolves ==
    ASSUME TypeOK, Background, NEW t \in Tokens
    PROVE  Evolves(tok[t], tok'[t])
  <1>1. CASE Cleanup \/ \E u \in Users : DeleteCredentials(u)
    BY <1>1, DeleteEvolves DEF Cleanup, DeleteCredentials
  <1>2. CASE \E s \in Tokens : Expire(s)
    BY <1>2 DEF Expire, TypeOK, Row, Stored, Evolves
  <1>3. QED
    BY <1>1, <1>2 DEF Background

LEMMA BeginAbortEvolves ==
    ASSUME NEW p \in Procs, Begin(p) \/ Abort(p), NEW t \in Tokens
    PROVE  Evolves(tok[t], tok'[t])
  BY DEF Begin, BeginForgot, BeginLogin, BeginReset, Abort, data, Evolves

LEMMA NextEvolves ==
    ASSUME TypeOK, [Next]_vars, NEW t \in Tokens
    PROVE  Evolves(tok[t], tok'[t])
  <1>1. CASE UNCHANGED vars
    BY <1>1 DEF vars, data, Evolves
  <1>2. QED
    BY <1>1, NextSplit, StepEvolves, BackgroundEvolves, BeginAbortEvolves

(* markAsUsed, the two deletions and the job write by id or by user, long     *)
(* after a token was read: none makes a used or deleted token usable again.   *)
THEOREM SpentTokensStaySpent == Spec => SpentStaysSpent
  <1> DEFINE Keeps == \A t \in Tokens : Spent(t) => Spent(t)' /\ (Stored(t)' => Stored(t))
  <1>1. TypeOK /\ [Next]_vars => [Keeps]_vars
    <2> SUFFICES ASSUME TypeOK, [Next]_vars, NEW t \in Tokens, Spent(t)
                 PROVE  Spent(t)' /\ (Stored(t)' => Stored(t))
      OBVIOUS
    <2>1. Evolves(tok[t], tok'[t])
      BY NextEvolves
    <2>2. QED
      BY <2>1 DEF Evolves, Spent, Stored
  <1>2. QED
    BY <1>1, TypeCorrect, PTL DEF Spec, SpentStaysSpent

-----------------------------------------------------------------------------
(* A token that may yet be accepted.  An id that is not issued counts as one: *)
(* it will be stored unused.                                                  *)
Usable(t) == tok[t].st = "unissued" \/ (Stored(t) /\ ~tok[t].used)

Bounded(t) == Usable(t) => resets[t] <= Cardinality(Marking(t)) + lost[t]

(* A reset holds a token that has been issued. *)
Issued ==
    \A p \in Procs : req[p].pc \in {"update", "mark"} => tok[req[p].token].st # "unissued"

ResetInv == TypeOK /\ Issued /\ \A t \in Tokens : Bounded(t)

LEMMA MarkingFinite ==
    ASSUME NEW t
    PROVE  IsFiniteSet(Marking(t)) /\ Cardinality(Marking(t)) \in Nat
  BY ResetAssumption, FS_Subset, FS_CardinalityType DEF Marking

LEMMA MarkingFiniteNext ==
    ASSUME NEW t
    PROVE  IsFiniteSet(Marking(t)') /\ Cardinality(Marking(t)') \in Nat
  BY ResetAssumption, FS_Subset, FS_CardinalityType DEF Marking

LEMMA UsableBefore ==
    ASSUME TypeOK, [Next]_vars, NEW t \in Tokens, Usable(t)'
    PROVE  Usable(t)
  <1>1. Evolves(tok[t], tok'[t])
    BY NextEvolves
  <1>2. tok[t] \in Row
    BY DEF TypeOK
  <1>3. QED
    BY <1>1, <1>2 DEF Evolves, Usable, Stored, Row

(* A step that sets no password and takes no handler away from its mark. *)
LEMMA BoundKept ==
    ASSUME TypeOK, TypeOK', [Next]_vars, NEW t \in Tokens, Bounded(t),
           Marking(t) \subseteq Marking(t)', resets'[t] = resets[t], lost'[t] = lost[t]
    PROVE  Bounded(t)'
  <1> SUFFICES ASSUME Usable(t)'
               PROVE  resets'[t] <= Cardinality(Marking(t)') + lost'[t]
    BY DEF Bounded
  <1>1. resets[t] <= Cardinality(Marking(t)) + lost[t]
    BY UsableBefore DEF Bounded
  <1>2. Cardinality(Marking(t)) <= Cardinality(Marking(t)')
    <2>1. Marking(t) \in SUBSET Marking(t)'
      OBVIOUS
    <2>2. QED
      BY <2>1, MarkingFiniteNext, FS_Subset
  <1>3. resets[t] \in Nat /\ lost[t] \in Nat
    BY DEF TypeOK
  <1>4. QED
    BY <1>1, <1>2, <1>3, MarkingFinite, MarkingFiniteNext

LEMMA MarkingKept ==
    ASSUME NEW p \in Procs, \A q \in Procs \ {p} : req'[q] = req[q], NEW t \in Tokens,
           req[p].pc # "mark" \/ req[p].token # t
    PROVE  Marking(t) \subseteq Marking(t)'
  BY DEF Marking

(* A password set with t is paid for by the handler that will mark t. *)
LEMMA BoundUpdate ==
    ASSUME ResetInv, TypeOK', NEW p \in Procs, UpdatePassword(p), NEW t \in Tokens
    PROVE  Bounded(t)'
  <1> USE DEF ResetInv
  <1>1. /\ \A q \in Procs \ {p} : req'[q] = req[q]
        /\ req[p].pc = "update" /\ req[p].token \in Tokens
        /\ req'[p].pc = "mark" /\ req'[p].token = req[p].token
    BY DEF UpdatePassword, Continue, TypeOK, Req
  <1>2. Marking(t) \subseteq Marking(t)' /\ lost'[t] = lost[t]
    BY <1>1, MarkingKept DEF UpdatePassword
  <1>3. [Next]_vars
    BY DEF Next, Step
  <1>4. CASE req[p].token # t
    <2>1. resets'[t] = resets[t]
      BY <1>4 DEF UpdatePassword, TypeOK
    <2>2. QED
      BY <1>2, <1>3, <2>1, BoundKept
  <1>5. CASE req[p].token = t
    <2>1. resets'[t] = resets[t] + 1 /\ UNCHANGED tok
      BY <1>5 DEF UpdatePassword, TypeOK
    <2>2. p \notin Marking(t) /\ Marking(t) \cup {p} \in SUBSET Marking(t)'
      BY <1>1, <1>2, <1>5 DEF Marking
    <2>3. Cardinality(Marking(t) \cup {p}) = Cardinality(Marking(t)) + 1
      BY <2>2, MarkingFinite, FS_AddElement
    <2>4. Cardinality(Marking(t)) + 1 <= Cardinality(Marking(t)')
      BY <2>2, <2>3, MarkingFiniteNext, FS_Subset
    <2>5. resets[t] \in Nat /\ lost[t] \in Nat
      BY DEF TypeOK
    <2>6. CASE Usable(t)'
      <3>1. resets[t] <= Cardinality(Marking(t)) + lost[t]
        BY <1>3, <2>6, UsableBefore DEF Bounded
      <3>2. resets'[t] <= Cardinality(Marking(t)') + lost'[t]
        BY <1>2, <2>1, <2>4, <2>5, <3>1, MarkingFinite, MarkingFiniteNext
      <3>3. QED
        BY <3>2 DEF Bounded
    <2>7. QED
      BY <2>6 DEF Bounded
  <1>6. QED
    BY <1>4, <1>5

(* Once t is marked it is not usable: it was issued, and is used or gone. *)
LEMMA BoundMark ==
    ASSUME ResetInv, TypeOK', NEW p \in Procs, MarkAsUsed(p), NEW t \in Tokens
    PROVE  Bounded(t)'
  <1> USE DEF ResetInv
  <1>1. /\ \A q \in Procs \ {p} : req'[q] = req[q]
        /\ req[p].pc = "mark" /\ req[p].token \in Tokens
    BY DEF MarkAsUsed, Continue, TypeOK
  <1>2. CASE req[p].token = t
    <2>1. tok[t].st \in {"stored", "deleted"} /\ tok[t] \in Row
      BY <1>1, <1>2 DEF Issued, TypeOK, Row
    <2>2. ~Usable(t)'
      BY <1>2, <2>1 DEF MarkAsUsed, TypeOK, Usable, Stored, Row
    <2>3. QED
      BY <2>2 DEF Bounded
  <1>3. CASE req[p].token # t
    <2>1. Marking(t) \subseteq Marking(t)'
      BY <1>1, <1>3, MarkingKept
    <2>2. [Next]_vars /\ resets' = resets /\ lost' = lost
      BY DEF MarkAsUsed, Next, Step, aux
    <2>3. QED
      BY <2>1, <2>2, BoundKept
  <1>4. QED
    BY <1>2, <1>3

LEMMA BoundAbort ==
    ASSUME ResetInv, TypeOK', NEW p \in Procs, Abort(p), NEW t \in Tokens
    PROVE  Bounded(t)'
  <1> USE DEF ResetInv
  <1>1. (\A q \in Procs \ {p} : req'[q] = req[q]) /\ resets' = resets /\ [Next]_vars
    BY DEF Abort, Return, TypeOK, Next
  <1>2. CASE req[p].pc = "mark" /\ req[p].token = t
    <2>1. lost'[t] = lost[t] + 1
      BY <1>2 DEF Abort
    <2>2. p \in Marking(t) /\ Marking(t) \ {p} \in SUBSET Marking(t)'
      BY <1>1, <1>2 DEF Marking
    <2>3. Cardinality(Marking(t) \ {p}) = Cardinality(Marking(t)) - 1
      BY <2>2, MarkingFinite, FS_RemoveElement
    <2>4. Cardinality(Marking(t)) - 1 <= Cardinality(Marking(t)')
      BY <2>2, <2>3, MarkingFiniteNext, FS_Subset
    <2>5. resets[t] \in Nat /\ lost[t] \in Nat
      BY DEF TypeOK
    <2>6. Usable(t)' => Usable(t)
      BY <1>1, UsableBefore
    <2>7. QED
      BY <1>1, <2>1, <2>4, <2>5, <2>6, MarkingFinite, MarkingFiniteNext DEF Bounded
  <1>3. CASE ~(req[p].pc = "mark" /\ req[p].token = t)
    <2>1. lost'[t] = lost[t]
      BY <1>3 DEF Abort, TypeOK
    <2>2. Marking(t) \subseteq Marking(t)'
      BY <1>1, <1>3, MarkingKept
    <2>3. QED
      BY <1>1, <2>1, <2>2, BoundKept
  <1>4. QED
    BY <1>2, <1>3

LEMMA BoundNext ==
    ASSUME ResetInv, TypeOK', [Next]_vars, NEW t \in Tokens
    PROVE  Bounded(t)'
  <1> USE DEF ResetInv
  <1>1. CASE UNCHANGED vars \/ Background
    <2>1. UNCHANGED <<req, resets, lost>>
      BY <1>1 DEF vars, data, aux, Background, DeleteCredentials, Expire, Cleanup
    <2>2. Marking(t)' = Marking(t)
      BY <2>1 DEF Marking
    <2>3. QED
      BY <2>1, <2>2, BoundKept
  <1>2. ASSUME NEW p \in Procs, Begin(p) \/ Step(p), ~UpdatePassword(p), ~MarkAsUsed(p)
        PROVE  Bounded(t)'
    <2>1. /\ \A q \in Procs \ {p} : req'[q] = req[q]
          /\ req[p].pc # "mark" /\ resets' = resets /\ lost' = lost
      BY <1>2 DEF Begin, Step, BeginForgot, BeginLogin, BeginReset, ClearTokens, CreateToken,
                  DeleteByUserId, RevokeSessions, IssueSession, Start, Continue, Return,
                  TypeOK, aux
    <2>2. QED
      BY <2>1, MarkingKept, BoundKept
  <1>3. QED
    BY <1>1, <1>2, NextSplit, BoundUpdate, BoundMark, BoundAbort

LEMMA IssuedNext ==
    ASSUME TypeOK, Issued, [Next]_vars
    PROVE  Issued'
  <1> SUFFICES ASSUME NEW q \in Procs, req'[q].pc \in {"update", "mark"}
               PROVE  tok'[req'[q].token].st # "unissued"
    BY DEF Issued
  <1>1. \A t \in Tokens : tok[t].st # "unissued" => tok'[t].st # "unissued"
    BY NextEvolves DEF Evolves
  <1>2. \/ req[q].pc \in {"update", "mark"} /\ req'[q].token = req[q].token
        \/ \E t \in Tokens : Stored(t) /\ req'[q].token = t
    <2>1. CASE \E p \in Procs : Begin(p)
      BY <2>1 DEF Begin, BeginForgot, BeginLogin, BeginReset, Start, TypeOK
    <2>2. CASE \E p \in Procs : Step(p)
      <3>1. PICK p \in Procs : Step(p)
        BY <2>2
      <3>2. CASE p = q
        BY <3>1, <3>2 DEF Step, ClearTokens, CreateToken, UpdatePassword, MarkAsUsed,
              DeleteByUserId, RevokeSessions, IssueSession, Continue, Return, Idle, TypeOK, Req
      <3>3. CASE p # q
        BY <3>1, <3>3 DEF Step, ClearTokens, CreateToken, UpdatePassword, MarkAsUsed,
              DeleteByUserId, RevokeSessions, IssueSession, Continue, Return, TypeOK
      <3>4. QED
        BY <3>2, <3>3
    <2>3. CASE \E p \in Procs : Abort(p)
      BY <2>3 DEF Abort, Return, Idle, TypeOK
    <2>4. CASE UNCHANGED vars \/ Background
      BY <2>4 DEF vars, data, aux, Background, DeleteCredentials, Expire, Cleanup
    <2>5. QED
      BY <2>1, <2>2, <2>3, <2>4, NextSplit
  <1>3. QED
    BY <1>1, <1>2 DEF Issued, TypeOK, Stored

(* Check and mark are three statements apart and a token may be deleted in     *)
(* between; still, a token that would be accepted has set a password only      *)
(* through handlers about to mark it or dead before they could.               *)
THEOREM ResetsAreMarkedAlways == Spec => []ResetsAreMarked
  <1>1. Init => ResetInv
    <2> SUFFICES ASSUME Init PROVE ResetInv
      OBVIOUS
    <2>1. TypeOK
      BY TypeInit
    <2>2. Issued
      BY DEF Init, Issued, Idle
    <2>3. ASSUME NEW t \in Tokens PROVE Bounded(t)
      <3>1. resets[t] = 0 /\ lost[t] = 0
        BY DEF Init
      <3>2. QED
        BY <3>1, MarkingFinite DEF Bounded
    <2>4. QED
      BY <2>1, <2>2, <2>3 DEF ResetInv
  <1>2. ResetInv /\ [Next]_vars => ResetInv'
    <2> SUFFICES ASSUME ResetInv, [Next]_vars PROVE ResetInv'
      OBVIOUS
    <2>1. TypeOK'
      BY TypeNext DEF ResetInv
    <2>2. Issued'
      BY IssuedNext DEF ResetInv
    <2>3. \A t \in Tokens : Bounded(t)'
      BY <2>1, BoundNext
    <2>4. QED
      BY <2>1, <2>2, <2>3 DEF ResetInv
  <1>3. ResetInv => ResetsAreMarked
    BY DEF ResetInv, Bounded, Usable, ResetsAreMarked
  <1>4. QED
    BY <1>1, <1>2, <1>3, PTL DEF Spec
=============================================================================
