---------------------------- MODULE TokenBlacklist ----------------------------
(***************************************************************************)
(* Access tokens from login to expiry: logout, which blacklists the token in  *)
(* Redis for the rest of its life and then revokes the refresh token,         *)
(* validateToken, which consults the blacklist and fails open, and            *)
(* revokeAllUserTokens.                                                      *)
(*                                                                         *)
(* exp and the clock of a JWT count whole seconds, the service and Redis      *)
(* count finer: a second has Ticks ticks.  Redis and the service agree on     *)
(* the time, and Redis keeps what it holds across an outage.                 *)
(***************************************************************************)
EXTENDS Integers

CONSTANTS
    Logins,         \* logins; each has one access and one refresh token
    Procs,          \* request handlers that may be in flight at once
    Ticks,          \* clock ticks in a second
    Expiry,         \* lifetime of an access token in seconds
    MaxTime,        \* bound: the last tick
    MaxOutages,     \* bound: outages of Redis
    None

ASSUME BlacklistAssumption ==
    /\ Ticks \in Nat \ {0}
    /\ Expiry \in Nat \ {0}
    /\ MaxTime \in Nat /\ MaxOutages \in Nat
    /\ None \notin Logins

VARIABLES
    now,            \* the clock, in ticks
    exp,            \* per login, the exp claim in seconds; 0 before the login
    blacklist,      \* per login, the tick when Redis evicts blacklist:<jti>
    session,        \* logins whose refresh token is stored and not revoked
    redisUp,        \* Redis answers
    outages,        \* outages so far
    req,            \* the handlers in flight
    loggedOut,      \* auxiliary: logins whose logout has returned without error
    revokedAll      \* auxiliary: logins covered by a revokeAllUserTokens

tokens == <<exp, blacklist, session>>
redis == <<redisUp, outages>>
aux == <<loggedOut, revokedAll>>
vars == <<now, tokens, redis, req, aux>>

-----------------------------------------------------------------------------
(* Math.floor(Date.now() / 1000) *)
Seconds == now \div Ticks

(* verifyAccessToken: jsonwebtoken refuses from exp on. *)
Expired(l) == Seconds >= exp[l]

(* Mutant: rounds to the nearest second. *)
RemainingTtlRounded(l) ==
    LET remaining == exp[l] - (now + Ticks \div 2) \div Ticks IN
        IF remaining > 0 THEN remaining ELSE 0

(* getRemainingTtl *)
RemainingTtl(l) ==
    LET remaining == exp[l] - Seconds IN IF remaining > 0 THEN remaining ELSE 0

(* EXISTS blacklist:<jti> *)
Blacklisted(l) == now < blacklist[l]

Idle == [pc |-> "idle", login |-> None, ttl |-> 0]
Req == [pc : {"idle", "blacklist", "revoke", "exists", "status"},
        login : Logins \cup {None}, ttl : Nat]

Start(p, pc, l, ttl) ==
    /\ req[p].pc = "idle"
    /\ req' = [req EXCEPT ![p] = [pc |-> pc, login |-> l, ttl |-> ttl]]
Continue(p, pc) == req' = [req EXCEPT ![p].pc = pc]
Return(p) == req' = [req EXCEPT ![p] = Idle]

-----------------------------------------------------------------------------
(* generateAccessToken and generateRefreshToken. *)
Login(l) ==
    /\ exp[l] = 0
    /\ exp' = [exp EXCEPT ![l] = Seconds + Expiry]
    /\ session' = session \cup {l}
    /\ UNCHANGED <<now, blacklist, redis, req, aux>>

(* Mutant: no test of the remaining lifetime. *)
BeginLogoutUnchecked(p, l) ==
    /\ exp[l] # 0
    /\ Start(p, "blacklist", l, exp[l] - Seconds)
    /\ UNCHANGED <<now, tokens, redis, aux>>

(* logout: revokeAccessToken computes the ttl and, for a token that has       *)
(* expired, leaves Redis alone.                                              *)
BeginLogout(p, l) ==
    LET ttl == RemainingTtl(l) IN
    /\ exp[l] # 0
    /\ \/ ttl > 0 /\ Start(p, "blacklist", l, ttl)
       \/ ttl = 0 /\ Start(p, "revoke", l, ttl)
    /\ UNCHANGED <<now, tokens, redis, aux>>

(* Mutant: a Redis error is logged, and the logout goes on. *)
BlacklistTokenOrIgnore(p) ==
    LET l == req[p].login IN
    /\ req[p].pc = "blacklist"
    /\ blacklist' = IF redisUp THEN [blacklist EXCEPT ![l] = now + req[p].ttl * Ticks]
                               ELSE blacklist
    /\ Continue(p, "revoke")
    /\ UNCHANGED <<now, exp, session, redis, aux>>

(* SET blacklist:<jti> EX ttl.  When Redis is out of reach it throws, and so  *)
(* does logout: the refresh token stays.                                     *)
BlacklistToken(p) ==
    LET l == req[p].login IN
    /\ req[p].pc = "blacklist"
    /\ \/ /\ redisUp
          /\ blacklist' = [blacklist EXCEPT ![l] = now + req[p].ttl * Ticks]
          /\ Continue(p, "revoke")
       \/ /\ ~redisUp
          /\ Return(p)
          /\ UNCHANGED blacklist
    /\ UNCHANGED <<now, exp, session, redis, aux>>

(* findByTokenHash and revokeRefreshToken; logout returns. *)
RevokeRefreshToken(p) ==
    LET l == req[p].login IN
    /\ req[p].pc = "revoke"
    /\ session' = session \ {l}
    /\ loggedOut' = loggedOut \cup {l}
    /\ Return(p)
    /\ UNCHANGED <<now, exp, blacklist, redis, revokedAll>>

(* revokeAllUserTokens of the user the logins in S belong to: the refresh     *)
(* tokens, and nothing in Redis.                                             *)
RevokeAllUserTokens(S) ==
    /\ session' = session \ S
    /\ revokedAll' = revokedAll \cup {l \in S : exp[l] # 0}
    /\ UNCHANGED <<now, exp, blacklist, redis, req, loggedOut>>

(* validateToken: verifyAccessToken, isTokenBlacklisted, then the account,    *)
(* which is in order here (see Accounts).                                    *)
BeginValidate(p, l) ==
    /\ exp[l] # 0 /\ ~Expired(l)
    /\ Start(p, "exists", l, 0)
    /\ UNCHANGED <<now, tokens, redis, aux>>

IsTokenBlacklisted(p) ==
    /\ req[p].pc = "exists"
    /\ \/ /\ redisUp /\ Blacklisted(req[p].login)
          /\ Return(p)
       \/ /\ ~redisUp \/ ~Blacklisted(req[p].login)
          /\ Continue(p, "status")
    /\ UNCHANGED <<now, tokens, redis, aux>>

Accept(p) ==
    /\ req[p].pc = "status"
    /\ Return(p)
    /\ UNCHANGED <<now, tokens, redis, aux>>

RedisDown ==
    /\ redisUp /\ outages < MaxOutages
    /\ redisUp' = FALSE
    /\ outages' = outages + 1
    /\ UNCHANGED <<now, tokens, req, aux>>

RedisBack ==
    /\ ~redisUp
    /\ redisUp' = TRUE
    /\ UNCHANGED <<now, tokens, outages, req, aux>>

Tick ==
    /\ now < MaxTime
    /\ now' = now + 1
    /\ UNCHANGED <<tokens, redis, req, aux>>

-----------------------------------------------------------------------------
Init ==
    /\ now = 0
    /\ exp = [l \in Logins |-> 0]
    /\ blacklist = [l \in Logins |-> 0]
    /\ session = {}
    /\ redisUp = TRUE /\ outages = 0
    /\ req = [p \in Procs |-> Idle]
    /\ loggedOut = {} /\ revokedAll = {}

Next ==
    \/ \E l \in Logins : Login(l)
    \/ \E p \in Procs : \/ \E l \in Logins : BeginLogout(p, l) \/ BeginValidate(p, l)
                        \/ BlacklistToken(p) \/ RevokeRefreshToken(p)
                        \/ IsTokenBlacklisted(p) \/ Accept(p)
    \/ \E S \in SUBSET Logins : RevokeAllUserTokens(S)
    \/ RedisDown \/ RedisBack \/ Tick

Spec == Init /\ [][Next]_vars

-----------------------------------------------------------------------------
(* Properties *)

(* Every variable holds a value of its kind, and a handler in flight has its  *)
(* login.                                                                    *)
TypeOK ==
    /\ now \in Nat
    /\ exp \in [Logins -> Nat] /\ blacklist \in [Logins -> Nat]
    /\ session \subseteq Logins
    /\ redisUp \in BOOLEAN /\ outages \in Nat
    /\ req \in [Procs -> Req]
    /\ \A p \in Procs : req[p].pc # "idle" => req[p].login \in Logins
    /\ loggedOut \subseteq Logins /\ revokedAll \subseteq Logins

(* A logout that returned without error has done both halves for good: the    *)
(* refresh token is revoked, and until the access token expires by its own    *)
(* clock the key is in Redis, though exp is in whole seconds, the ttl is       *)
(* taken before the key is set and the key may be set again.                  *)
LogoutHolds == \A l \in loggedOut : l \notin session /\ (Expired(l) \/ Blacklisted(l))

(* After such a logout a validation is let past the blacklist only while       *)
(* Redis is out of reach, or for a token that has expired since it was         *)
(* verified.                                                                  *)
RefusedAfterLogout ==
    [][\A p \in Procs : IsTokenBlacklisted(p) /\ req'[p].pc = "status"
          => req[p].login \notin loggedOut \/ ~redisUp \/ Expired(req[p].login)]_vars

-----------------------------------------------------------------------------
(* What the documentation says, and the code does not do. *)

(* revokeAllUserTokens: "Revokes ALL tokens for a user - both refresh tokens   *)
(* (in DB) and any known access token JTIs (in Redis blacklist)".             *)
RevokesAccessTokens == \A l \in revokedAll : Expired(l) \/ Blacklisted(l)
=============================================================================
