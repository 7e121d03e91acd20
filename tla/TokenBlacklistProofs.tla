------------------------ MODULE TokenBlacklistProofs ------------------------
(***************************************************************************)
(* Proofs about TokenBlacklist, for any logins, handlers, ticks in a second, *)
(* lifetime and number of outages.                                          *)
(***************************************************************************)
EXTENDS TokenBlacklist, TLAPS

-----------------------------------------------------------------------------
(* Whole seconds and ticks. *)

LEMMA Division ==
    ASSUME NEW n \in Nat, NEW d \in Nat \ {0}
    PROVE  /\ n \div d \in Nat
           /\ d * (n \div d) <= n /\ n < d * (n \div d) + d
  OBVIOUS

LEMMA Product ==
    ASSUME NEW d \in Nat \ {0}, NEW m \in Nat, NEW n \in Nat, m <= n
    PROVE  m * d <= n * d
  OBVIOUS

(* A second has begun exactly when its first tick has. *)
LEMMA SecondsAreTicks ==
    ASSUME NEW n \in Nat, NEW d \in Nat \ {0}, NEW e \in Nat
    PROVE  n \div d >= e <=> n >= e * d
  <1> DEFINE s == n \div d
  <1>1. s \in Nat /\ d * s <= n /\ n < d * s + d
    BY Division
  <1> HIDE DEF s
  <1>2. CASE s >= e
    <2>1. e * d <= s * d
      BY <1>1, <1>2, Product
    <2>2. s * d = d * s /\ e * d \in Nat
      BY <1>1
    <2>3. QED
      BY <1>1, <1>2, <2>1, <2>2 DEF s
  <1>3. CASE s < e
    <2>1. (s + 1) * d <= e * d
      BY <1>1, <1>3, Product
    <2>2. (s + 1) * d = d * s + d /\ e * d \in Nat /\ d * s \in Nat
      BY <1>1
    <2>3. QED
      BY <1>1, <1>3, <2>1, <2>2 DEF s
  <1>4. QED
    BY <1>1, <1>2, <1>3

(* The key outlives the token: taken at second t, the ttl e - t set at a later *)
(* tick n reaches the first tick of second e.                                *)
LEMMA TtlReachesExp ==
    ASSUME NEW n \in Nat, NEW d \in Nat \ {0}, NEW e \in Nat, NEW ttl \in Nat,
           ttl >= e - n \div d
    PROVE  n + ttl * d \in Nat /\ n + ttl * d >= e * d
  <1> DEFINE s == n \div d
  <1>1. s \in Nat /\ d * s <= n
    BY Division
  <1>2. e <= ttl + s
    BY <1>1
  <1> HIDE DEF s
  <1>3. e * d <= (ttl + s) * d
    BY <1>1, <1>2, Product
  <1>4. /\ (ttl + s) * d = ttl * d + d * s
        /\ e * d \in Nat /\ ttl * d \in Nat /\ d * s \in Nat
    BY <1>1
  <1>5. QED
    BY <1>1, <1>3, <1>4

-----------------------------------------------------------------------------
(* Types, and what a handler knows of its login: it has happened. *)

Known == \A p \in Procs : req[p].pc # "idle" => exp[req[p].login] # 0

ReqOK == /\ req \in [Procs -> Req]
         /\ \A p \in Procs : req[p].pc # "idle" => req[p].login \in Logins

LEMMA SecondsType ==
    ASSUME TypeOK
    PROVE  Seconds \in Nat
  BY BlacklistAssumption, Division DEF TypeOK, Seconds

LEMMA TtlType ==
    ASSUME TypeOK, NEW l \in Logins
    PROVE  RemainingTtl(l) \in Nat /\ RemainingTtl(l) >= exp[l] - Seconds
  <1>1. Seconds \in Nat /\ exp[l] \in Nat
    BY SecondsType DEF TypeOK
  <1> HIDE DEF Seconds
  <1>2. QED
    BY <1>1 DEF RemainingTtl

(* The three ways a statement leaves its handler. *)
LEMMA StartReq ==
    ASSUME TypeOK, NEW p \in Procs, NEW l \in Logins, NEW ttl \in Nat,
           NEW pc \in {"blacklist", "revoke", "exists"}, Start(p, pc, l, ttl)
    PROVE  /\ ReqOK'
           /\ req'[p] = [pc |-> pc, login |-> l, ttl |-> ttl]
           /\ \A q \in Procs \ {p} : req'[q] = req[q]
  <1> DEFINE r == [pc |-> pc, login |-> l, ttl |-> ttl]
  <1>1. r \in Req /\ r.login = l
    BY DEF Req
  <1>2. req' = [req EXCEPT ![p] = r]
    BY DEF Start
  <1>3. req \in [Procs -> Req] /\ \A q \in Procs : req[q].pc # "idle" => req[q].login \in Logins
    BY DEF TypeOK
  <1> HIDE DEF r
  <1>4. req' \in [Procs -> Req] /\ req'[p] = r /\ \A q \in Procs \ {p} : req'[q] = req[q]
    BY <1>1, <1>2, <1>3
  <1>5. QED
    BY <1>1, <1>3, <1>4 DEF ReqOK, r

LEMMA ContinueReq ==
    ASSUME TypeOK, NEW p \in Procs, NEW pc \in {"revoke", "status"}, Continue(p, pc),
           req[p].pc # "idle"
    PROVE  /\ ReqOK'
           /\ req'[p].pc = pc /\ req'[p].login = req[p].login
           /\ \A q \in Procs \ {p} : req'[q] = req[q]
  <1> DEFINE r == [req[p] EXCEPT !.pc = pc]
  <1>1. r \in Req /\ r.pc = pc /\ r.login = req[p].login
    BY DEF TypeOK, Req
  <1>2. req' = [req EXCEPT ![p] = r]
    BY DEF Continue
  <1>3. req \in [Procs -> Req] /\ \A q \in Procs : req[q].pc # "idle" => req[q].login \in Logins
    BY DEF TypeOK
  <1> HIDE DEF r
  <1>4. req' \in [Procs -> Req] /\ req'[p] = r /\ \A q \in Procs \ {p} : req'[q] = req[q]
    BY <1>1, <1>2, <1>3
  <1>5. QED
    BY <1>1, <1>3, <1>4 DEF ReqOK

LEMMA ReturnReq ==
    ASSUME TypeOK, NEW p \in Procs, Return(p)
    PROVE  /\ ReqOK'
           /\ req'[p].pc = "idle"
           /\ \A q \in Procs \ {p} : req'[q] = req[q]
  <1>1. Idle \in Req /\ Idle.pc = "idle"
    BY DEF Idle, Req
  <1>2. req \in [Procs -> Req] /\ \A q \in Procs : req[q].pc # "idle" => req[q].login \in Logins
    BY DEF TypeOK
  <1>3. req' = [req EXCEPT ![p] = Idle]
    BY DEF Return
  <1>4. req' \in [Procs -> Req] /\ req'[p] = Idle /\ \A q \in Procs \ {p} : req'[q] = req[q]
    BY <1>1, <1>2, <1>3
  <1>5. QED
    BY <1>1, <1>2, <1>4 DEF ReqOK

-----------------------------------------------------------------------------
(* A handler between its ttl and its SET has a ttl that reaches exp; a handler *)
(* past the SET, and a logout that has returned, leave a key that does, or a  *)
(* token that has expired.                                                   *)

Covered(l) == Expired(l) \/ blacklist[l] >= exp[l] * Ticks

LogoutInv ==
    /\ TypeOK
    /\ Known
    /\ \A p \in Procs : req[p].pc = "blacklist"
          => req[p].ttl >= exp[req[p].login] - Seconds
    /\ \A p \in Procs : req[p].pc = "revoke" => Covered(req[p].login)
    /\ \A l \in loggedOut : exp[l] # 0 /\ l \notin session /\ Covered(l)

LEMMA InvInit == Init => LogoutInv
  <1> SUFFICES ASSUME Init PROVE LogoutInv
    OBVIOUS
  <1>1. Idle \in Req /\ Idle.pc = "idle"
    BY DEF Idle, Req
  <1>2. req \in [Procs -> Req] /\ \A p \in Procs : req[p].pc = "idle"
    BY <1>1 DEF Init
  <1>3. TypeOK
    BY <1>2 DEF Init, TypeOK
  <1>4. QED
    BY <1>2, <1>3 DEF Init, LogoutInv, Known

(* Time only adds to what has expired, and uses up no ttl. *)
LEMMA ClockMoves ==
    ASSUME TypeOK, now' \in Nat, now' >= now
    PROVE  Seconds' \in Nat /\ Seconds' >= Seconds
  <1>1. Seconds \in Nat /\ Seconds * Ticks <= now
    BY BlacklistAssumption, Division DEF TypeOK, Seconds
  <1>2. Seconds' \in Nat
    BY BlacklistAssumption, Division DEF Seconds
  <1>3. Seconds * Ticks \in Nat /\ now \in Nat
    BY <1>1, BlacklistAssumption DEF TypeOK
  <1>4. now' >= Seconds * Ticks
    BY <1>1, <1>3
  <1>5. now' \div Ticks >= Seconds
    BY <1>1, <1>4, BlacklistAssumption, SecondsAreTicks
  <1>6. QED
    BY <1>2, <1>5 DEF Seconds

(* Steps that leave logins and keys alone. *)
LEMMA InvAside ==
    ASSUME LogoutInv, TypeOK', UNCHANGED <<exp, blacklist>>, now' >= now,
           \A p \in Procs : \/ req'[p] = req[p]
                            \/ req'[p].pc \in {"exists", "status"} /\ exp[req'[p].login] # 0
                            \/ req'[p].pc = "idle",
           \A l \in loggedOut' : l \in loggedOut \/ (exp[l] # 0 /\ Covered(l)),
           \A l \in loggedOut' : l \notin session'
    PROVE  LogoutInv'
  <1>0. /\ TypeOK /\ Known
        /\ now' \in Nat
        /\ \A p \in Procs : req[p].pc # "idle" => exp[req[p].login] \in Nat
        /\ \A p \in Procs : req[p].ttl \in Nat
        /\ \A l \in Logins : exp[l] \in Nat
        /\ \A l \in loggedOut' : l \in Logins
    BY DEF LogoutInv, TypeOK, Req
  <1>1. Seconds \in Nat /\ Seconds' \in Nat /\ Seconds' >= Seconds
    BY <1>0, SecondsType, ClockMoves
  <1> HIDE DEF Seconds
  <1>2. ASSUME NEW l \in Logins, Covered(l)
        PROVE  Covered(l)'
    BY <1>0, <1>1, <1>2 DEF Covered, Expired
  <1>3. Known'
    BY <1>0 DEF Known
  <1>4. ASSUME NEW p \in Procs, req'[p].pc = "blacklist"
        PROVE  req'[p].ttl >= exp'[req'[p].login] - Seconds'
    <2>1. req'[p] = req[p]
      BY <1>4
    <2>2. req[p].ttl >= exp[req[p].login] - Seconds
      BY <1>4, <2>1 DEF LogoutInv
    <2>3. QED
      BY <1>0, <1>1, <1>4, <2>1, <2>2
  <1>5. ASSUME NEW p \in Procs, req'[p].pc = "revoke"
        PROVE  Covered(req[p].login)'
    <2>1. PICK l \in Logins : req'[p].login = l /\ Covered(l)
      BY <1>5 DEF LogoutInv, TypeOK
    <2>2. Covered(l)'
      BY <1>2, <2>1
    <2>3. QED
      BY <2>1, <2>2 DEF Covered, Expired
  <1>6. \A l \in loggedOut' : exp'[l] # 0 /\ l \notin session' /\ Covered(l)'
    BY <1>0, <1>2 DEF LogoutInv
  <1>7. QED
    BY <1>3, <1>4, <1>5, <1>6 DEF LogoutInv

-----------------------------------------------------------------------------
LEMMA LoginStep ==
    ASSUME LogoutInv, NEW l \in Logins, Login(l)
    PROVE  LogoutInv'
  <1>0. /\ TypeOK /\ Known
        /\ exp[l] = 0 /\ UNCHANGED <<now, blacklist, req, loggedOut, revokedAll, redisUp, outages>>
        /\ session' = session \cup {l}
    BY DEF LogoutInv, Login, redis, aux
  <1>1. Seconds \in Nat /\ Seconds + Expiry \in Nat \ {0} /\ Seconds' = Seconds
    BY <1>0, SecondsType, BlacklistAssumption DEF Seconds
  <1> DEFINE e == Seconds + Expiry
  <1>2. exp' = [exp EXCEPT ![l] = e] /\ e \in Nat \ {0}
    BY <1>1 DEF Login
  <1> HIDE DEF e, Seconds
  <1>3. /\ exp' \in [Logins -> Nat] /\ exp'[l] # 0
        /\ \A k \in Logins : exp[k] # 0 => exp'[k] = exp[k]
    BY <1>0, <1>2 DEF TypeOK
  <1>4. TypeOK'
    BY <1>0, <1>3 DEF TypeOK
  <1>5. \A p \in Procs : req[p].pc # "idle" =>
            req[p].login \in Logins /\ exp[req[p].login] # 0
    BY <1>0 DEF TypeOK, Known
  <1>6. Known'
    BY <1>0, <1>3, <1>5 DEF Known
  <1>7. \A p \in Procs : req'[p].pc = "blacklist"
            => req'[p].ttl >= exp'[req'[p].login] - Seconds'
    BY <1>0, <1>1, <1>3, <1>5 DEF LogoutInv
  <1>8. ASSUME NEW k \in Logins, exp[k] # 0, Covered(k)
        PROVE  Covered(k)'
    BY <1>0, <1>1, <1>3, <1>8 DEF Covered, Expired
  <1>9. ASSUME NEW p \in Procs, req'[p].pc = "revoke"
        PROVE  Covered(req[p].login)'
    <2>1. PICK k \in Logins : req'[p].login = k /\ exp[k] # 0 /\ Covered(k)
      BY <1>0, <1>5, <1>9 DEF LogoutInv
    <2>2. Covered(k)'
      BY <1>8, <2>1
    <2>3. QED
      BY <2>1, <2>2 DEF Covered, Expired
  <1>10. \A k \in loggedOut' : exp'[k] # 0 /\ k \notin session' /\ Covered(k)'
    <2>1. \A k \in loggedOut : k \in Logins /\ exp[k] # 0 /\ k \notin session /\ Covered(k)
      BY <1>0 DEF LogoutInv, TypeOK
    <2>2. QED
      BY <1>0, <1>3, <1>8, <2>1
  <1>11. QED
    BY <1>4, <1>6, <1>7, <1>9, <1>10 DEF LogoutInv

LEMMA BeginLogoutStep ==
    ASSUME LogoutInv, NEW p \in Procs, NEW l \in Logins, BeginLogout(p, l)
    PROVE  LogoutInv'
  <1> DEFINE ttl == RemainingTtl(l)
  <1>0. /\ TypeOK /\ Known /\ exp[l] # 0 /\ exp[l] \in Nat
        /\ UNCHANGED <<now, exp, blacklist, session, redisUp, outages, loggedOut, revokedAll>>
        /\ Seconds' = Seconds /\ Seconds \in Nat
    BY SecondsType DEF LogoutInv, BeginLogout, tokens, redis, aux, TypeOK, Seconds
  <1>1. ttl \in Nat /\ ttl >= exp[l] - Seconds
    BY <1>0, TtlType
  <1>2. \/ ttl > 0 /\ Start(p, "blacklist", l, ttl)
        \/ ttl = 0 /\ Start(p, "revoke", l, ttl)
    BY DEF BeginLogout
  <1>3. ttl = 0 => Covered(l)
    BY <1>0, <1>1 DEF Covered, Expired
  <1> HIDE DEF ttl, Seconds
  <1>4. PICK pc \in {"blacklist", "revoke"} :
            Start(p, pc, l, ttl) /\ (pc = "revoke" => Covered(l))
    BY <1>2, <1>3
  <1>5. /\ ReqOK'
        /\ req'[p] = [pc |-> pc, login |-> l, ttl |-> ttl]
        /\ \A q \in Procs \ {p} : req'[q] = req[q]
    <2>1. pc \in {"blacklist", "revoke", "exists"}
      OBVIOUS
    <2>2. QED
      BY <1>0, <1>1, <1>4, <2>1, StartReq
  <1>6. req'[p].pc = pc /\ req'[p].login = l /\ req'[p].ttl = ttl
    BY <1>5
  <1>7. TypeOK'
    BY <1>0, <1>5 DEF TypeOK, ReqOK
  <1>8. Known'
    BY <1>0, <1>5, <1>6 DEF Known
  <1>9. \A q \in Procs : req'[q].pc = "blacklist"
            => req'[q].ttl >= exp'[req'[q].login] - Seconds'
    BY <1>0, <1>1, <1>5, <1>6 DEF LogoutInv
  <1>10. ASSUME NEW q \in Procs, req'[q].pc = "revoke"
         PROVE  Covered(req[q].login)'
    <2>1. PICK k : req'[q].login = k /\ Covered(k)
      BY <1>4, <1>5, <1>6, <1>10 DEF LogoutInv
    <2>2. QED
      BY <1>0, <2>1 DEF Covered, Expired
  <1>11. \A k \in loggedOut' : exp'[k] # 0 /\ k \notin session' /\ Covered(k)'
    BY <1>0 DEF LogoutInv, Covered, Expired
  <1>12. QED
    BY <1>7, <1>8, <1>9, <1>10, <1>11 DEF LogoutInv

LEMMA BlacklistStep ==
    ASSUME LogoutInv, NEW p \in Procs, BlacklistToken(p)
    PROVE  LogoutInv'
  <1> DEFINE l == req[p].login
             until == now + req[p].ttl * Ticks
  <1>0. /\ TypeOK /\ Known /\ req[p].pc = "blacklist"
        /\ l \in Logins /\ req[p].ttl \in Nat /\ exp[l] \in Nat /\ now \in Nat
        /\ UNCHANGED <<now, exp, session, redisUp, outages, loggedOut, revokedAll>>
    BY DEF LogoutInv, BlacklistToken, redis, aux, TypeOK, Req
  <1>s. Seconds' = Seconds
    BY <1>0 DEF Seconds
  <1>1. CASE ~redisUp
    <2>1. Return(p) /\ UNCHANGED blacklist
      BY <1>1 DEF BlacklistToken
    <2>2. /\ ReqOK' /\ req'[p].pc = "idle"
          /\ \A q \in Procs \ {p} : req'[q] = req[q]
      BY <1>0, <2>1, ReturnReq
    <2>3. TypeOK'
      BY <1>0, <2>1, <2>2 DEF TypeOK, ReqOK
    <2>4. \A k \in loggedOut' : k \in loggedOut /\ k \notin session'
      BY <1>0 DEF LogoutInv
    <2>5. QED
      BY <1>0, <2>1, <2>2, <2>3, <2>4, InvAside
  <1>2. CASE redisUp
    <2>1. blacklist' = [blacklist EXCEPT ![l] = until] /\ Continue(p, "revoke")
      BY <1>2 DEF BlacklistToken
    <2>2. req[p].ttl >= exp[l] - now \div Ticks
      BY <1>0 DEF LogoutInv, Seconds
    <2>3. until \in Nat /\ until >= exp[l] * Ticks
      BY <1>0, <2>2, BlacklistAssumption, TtlReachesExp
    <2>4. /\ ReqOK' /\ req'[p].pc = "revoke" /\ req'[p].login = l
          /\ \A q \in Procs \ {p} : req'[q] = req[q]
      BY <1>0, <2>1, ContinueReq
    <2> HIDE DEF l, until, Seconds
    <2>5. TypeOK'
      BY <1>0, <2>1, <2>3, <2>4 DEF TypeOK, ReqOK
    <2>6. \A q \in Procs : req'[q].pc # "idle" =>
              req[q].pc # "idle" /\ req'[q].login = req[q].login
      BY <1>0, <2>4 DEF l
    <2>7. Known'
      BY <1>0, <2>6 DEF Known
    <2>8. \A q \in Procs : req'[q].pc = "blacklist"
              => req'[q].ttl >= exp'[req'[q].login] - Seconds'
      BY <1>0, <1>s, <2>4 DEF LogoutInv
    <2>9. ASSUME NEW k \in Logins, Covered(k) \/ k = l
          PROVE  Covered(k)'
      <3>1. blacklist'[l] = until /\ (k # l => blacklist'[k] = blacklist[k])
        BY <1>0, <2>1 DEF TypeOK
      <3>2. CASE k = l
        BY <1>0, <2>3, <3>1, <3>2 DEF Covered
      <3>3. CASE k # l
        BY <1>0, <1>s, <2>9, <3>1, <3>3 DEF Covered, Expired
      <3>4. QED
        BY <3>2, <3>3
    <2>10. ASSUME NEW q \in Procs, req'[q].pc = "revoke"
           PROVE  Covered(req[q].login)'
      <3>1. PICK k \in Logins : req'[q].login = k /\ (Covered(k) \/ k = l)
        BY <1>0, <2>4, <2>10 DEF LogoutInv, TypeOK
      <3>2. Covered(k)'
        BY <2>9, <3>1
      <3>3. QED
        BY <3>1, <3>2 DEF Covered, Expired
    <2>11. \A k \in loggedOut' : exp'[k] # 0 /\ k \notin session' /\ Covered(k)'
      BY <1>0, <2>9 DEF LogoutInv, TypeOK
    <2>12. QED
      BY <2>5, <2>7, <2>8, <2>10, <2>11 DEF LogoutInv
  <1>3. QED
    BY <1>1, <1>2

LEMMA RevokeStep ==
    ASSUME LogoutInv, NEW p \in Procs, RevokeRefreshToken(p)
    PROVE  LogoutInv'
  <1> DEFINE l == req[p].login
  <1>0. /\ TypeOK /\ Known /\ req[p].pc = "revoke"
        /\ l \in Logins /\ exp[l] # 0 /\ Covered(l) /\ now \in Nat
        /\ UNCHANGED <<now, exp, blacklist, redisUp, outages, revokedAll>>
        /\ session' = session \ {l} /\ loggedOut' = loggedOut \cup {l}
        /\ Return(p)
    BY DEF LogoutInv, RevokeRefreshToken, redis, TypeOK, Known
  <1>1. /\ ReqOK' /\ req'[p].pc = "idle"
        /\ \A q \in Procs \ {p} : req'[q] = req[q]
    BY <1>0, ReturnReq
  <1> HIDE DEF l
  <1>2. TypeOK'
    BY <1>0, <1>1 DEF TypeOK, ReqOK
  <1>3. \A k \in loggedOut' : /\ k \in loggedOut \/ (exp[k] # 0 /\ Covered(k))
                              /\ k \notin session'
    BY <1>0 DEF LogoutInv
  <1>4. QED
    BY <1>0, <1>1, <1>2, <1>3, InvAside

LEMMA ValidateStep ==
    ASSUME LogoutInv, NEW p \in Procs,
           \/ \E l \in Logins : BeginValidate(p, l)
           \/ IsTokenBlacklisted(p)
           \/ Accept(p)
    PROVE  LogoutInv'
  <1>0. /\ TypeOK /\ Known /\ now \in Nat
        /\ UNCHANGED <<now, exp, blacklist, session, redisUp, outages, loggedOut, revokedAll>>
    BY DEF LogoutInv, BeginValidate, IsTokenBlacklisted, Accept, tokens, redis, aux, TypeOK
  <1>1. /\ ReqOK'
        /\ \A q \in Procs \ {p} : req'[q] = req[q]
        /\ \/ req'[p].pc \in {"exists", "status"} /\ exp[req'[p].login] # 0
           \/ req'[p].pc = "idle"
    <2>1. CASE \E l \in Logins : BeginValidate(p, l)
      <3> PICK l \in Logins : BeginValidate(p, l)
        BY <2>1
      <3>1. Start(p, "exists", l, 0) /\ exp[l] # 0
        BY DEF BeginValidate
      <3>2. /\ ReqOK' /\ req'[p] = [pc |-> "exists", login |-> l, ttl |-> 0]
            /\ \A q \in Procs \ {p} : req'[q] = req[q]
        <4>1. 0 \in Nat /\ "exists" \in {"blacklist", "revoke", "exists"}
          OBVIOUS
        <4>2. QED
          BY <1>0, <3>1, <4>1, StartReq
      <3>3. QED
        BY <1>0, <3>1, <3>2
    <2>2. CASE IsTokenBlacklisted(p)
      <3>1. req[p].pc = "exists" /\ (Return(p) \/ Continue(p, "status"))
        BY <2>2 DEF IsTokenBlacklisted
      <3>2. exp[req[p].login] # 0
        BY <1>0, <3>1 DEF Known
      <3>3. QED
        BY <1>0, <3>1, <3>2, ReturnReq, ContinueReq
    <2>3. CASE Accept(p)
      BY <1>0, <2>3, ReturnReq DEF Accept
    <2>4. QED
      BY <2>1, <2>2, <2>3
  <1>2. TypeOK'
    BY <1>0, <1>1 DEF TypeOK, ReqOK
  <1>3. \A k \in loggedOut' : k \in loggedOut /\ k \notin session'
    BY <1>0 DEF LogoutInv
  <1>4. QED
    BY <1>0, <1>1, <1>2, <1>3, InvAside

LEMMA ElsewhereStep ==
    ASSUME LogoutInv,
           \/ \E S \in SUBSET Logins : RevokeAllUserTokens(S)
           \/ RedisDown \/ RedisBack \/ Tick \/ UNCHANGED vars
    PROVE  LogoutInv'
  <1>0. TypeOK /\ now \in Nat
    BY DEF LogoutInv, TypeOK
  <1>1. /\ UNCHANGED <<exp, blacklist, req, loggedOut>>
        /\ session' \subseteq session
        /\ now' \in {now, now + 1}
        /\ redisUp' \in BOOLEAN /\ outages' \in Nat
        /\ revokedAll' \subseteq Logins
    <2>1. CASE \E S \in SUBSET Logins : RevokeAllUserTokens(S)
      BY <1>0, <2>1 DEF RevokeAllUserTokens, TypeOK, redis
    <2>2. CASE RedisDown
      <3>1. redisUp' = FALSE /\ outages' = outages + 1 /\ outages \in Nat
        BY <1>0, <2>2 DEF RedisDown, TypeOK
      <3>2. redisUp' \in BOOLEAN
        BY <3>1
      <3>3. outages' \in Nat
        BY <3>1
      <3>4. UNCHANGED <<now, exp, blacklist, session, req, loggedOut, revokedAll>>
        BY <2>2 DEF RedisDown, tokens, aux
      <3>5. QED
        BY <1>0, <3>2, <3>3, <3>4 DEF TypeOK
    <2>3. CASE RedisBack
      BY <1>0, <2>3 DEF RedisBack, tokens, aux, TypeOK
    <2>4. CASE Tick
      BY <1>0, <2>4 DEF Tick, tokens, redis, aux, TypeOK
    <2>5. CASE UNCHANGED vars
      BY <1>0, <2>5 DEF vars, tokens, redis, aux, TypeOK
    <2>6. QED
      BY <2>1, <2>2, <2>3, <2>4, <2>5
  <1>2. now' \in Nat /\ now' >= now
    BY <1>0, <1>1
  <1>3. TypeOK'
    BY <1>0, <1>1, <1>2 DEF TypeOK
  <1>4. \A k \in loggedOut' : k \in loggedOut /\ k \notin session'
    BY <1>1 DEF LogoutInv
  <1>5. QED
    BY <1>1, <1>2, <1>3, <1>4, InvAside

LEMMA InvStep ==
    ASSUME LogoutInv, [Next]_vars
    PROVE  LogoutInv'
  <1>1. CASE \E l \in Logins : Login(l)
    BY <1>1, LoginStep
  <1>2. CASE \E p \in Procs, l \in Logins : BeginLogout(p, l)
    BY <1>2, BeginLogoutStep
  <1>3. CASE \E p \in Procs : BlacklistToken(p)
    BY <1>3, BlacklistStep
  <1>4. CASE \E p \in Procs : RevokeRefreshToken(p)
    BY <1>4, RevokeStep
  <1>5. CASE \E p \in Procs : \/ \E l \in Logins : BeginValidate(p, l)
                              \/ IsTokenBlacklisted(p) \/ Accept(p)
    BY <1>5, ValidateStep
  <1>6. CASE \/ \E S \in SUBSET Logins : RevokeAllUserTokens(S)
             \/ RedisDown \/ RedisBack \/ Tick \/ UNCHANGED vars
    BY <1>6, ElsewhereStep
  <1>7. QED
    BY <1>1, <1>2, <1>3, <1>4, <1>5, <1>6 DEF Next

(* A logout that has returned is good until the token expires. *)
LEMMA InvImplies == LogoutInv => LogoutHolds
  <1> SUFFICES ASSUME LogoutInv, NEW l \in loggedOut
               PROVE  l \notin session /\ (Expired(l) \/ Blacklisted(l))
    BY DEF LogoutHolds
  <1>1. /\ l \in Logins /\ exp[l] \in Nat /\ blacklist[l] \in Nat /\ now \in Nat
        /\ l \notin session /\ Covered(l)
    BY DEF LogoutInv, TypeOK
  <1>2. exp[l] * Ticks \in Nat
    BY <1>1, BlacklistAssumption
  <1>3. Expired(l) <=> now >= exp[l] * Ticks
    BY <1>1, BlacklistAssumption, SecondsAreTicks DEF Expired, Seconds
  <1>4. QED
    BY <1>1, <1>2, <1>3 DEF Covered, Blacklisted

-----------------------------------------------------------------------------
(* Whatever the handlers, Redis and the clock do, every statement finds the    *)
(* login it works for.                                                       *)
THEOREM TypeCorrect == Spec => []TypeOK
  <1>1. LogoutInv => TypeOK
    BY DEF LogoutInv
  <1>2. LogoutInv /\ [Next]_vars => LogoutInv'
    BY InvStep
  <1>3. QED
    BY <1>1, <1>2, InvInit, PTL DEF Spec

(* For any ticks in a second, so for any rounding of the clock against exp, a  *)
(* logout that returned without error leaves no gap between the end of the key *)
(* in Redis and the end of the token.                                        *)
THEOREM LogoutHoldsAlways == Spec => []LogoutHolds
  <1>1. LogoutInv /\ [Next]_vars => LogoutInv'
    BY InvStep
  <1>2. QED
    BY <1>1, InvInit, InvImplies, PTL DEF Spec

(* Redis answering, validateToken lets no token past the blacklist that a      *)
(* logout has covered, unless it expired between its verification and EXISTS. *)
THEOREM RefusedAlways == Spec => RefusedAfterLogout
  <1>1. TypeOK /\ LogoutHolds /\ [Next]_vars =>
            [\A p \in Procs : IsTokenBlacklisted(p) /\ req'[p].pc = "status"
                => req[p].login \notin loggedOut \/ ~redisUp \/ Expired(req[p].login)]_vars
    <2> SUFFICES ASSUME TypeOK, LogoutHolds, NEW p \in Procs, IsTokenBlacklisted(p),
                        req'[p].pc = "status", req[p].login \in loggedOut, redisUp
                 PROVE  Expired(req[p].login)
      OBVIOUS
    <2>1. ~Return(p)
      BY DEF Return, Idle, TypeOK
    <2>2. ~Blacklisted(req[p].login)
      BY <2>1 DEF IsTokenBlacklisted
    <2>3. QED
      BY <2>2 DEF LogoutHolds
  <1>2. QED
    BY <1>1, TypeCorrect, LogoutHoldsAlways, PTL DEF Spec, RefusedAfterLogout
=============================================================================
