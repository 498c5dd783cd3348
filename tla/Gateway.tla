------------------------------- MODULE Gateway -------------------------------
(***************************************************************************)
(* What a call of the API meets before its handler: the rate limiter       *)
(* (core/api/middleware/rate_limiter.py) and validate_token with its cache *)
(* of Keycloak's signing keys (core/core/oidc.py).  A task is the          *)
(* coroutine that serves one call of one client address.                   *)
(*                                                                         *)
(* Time is relative: a call in the window is known by its age and its rank *)
(* among the calls of that age, and the cached keys are usable or not.     *)
(* Calls above the limit are not told apart.  The pipeline of the limiter  *)
(* is one Redis transaction, and two calls never share a time stamp.  A    *)
(* token past its exp is refused along the same path as one whose key was  *)
(* retired, and is not told apart.                                         *)
(***************************************************************************)
EXTENDS Integers, Sequences, FiniteSetsExt

CONSTANTS
  Tasks,
  RateLimit,   \* GET_RATE_LIMIT, WRITE_RATE_LIMIT
  Window,      \* WINDOW_SECONDS
  MaxTokens, MaxKey,  \* bounds
  None

ASSUME GatewayAssumption ==
  /\ None \notin Tasks
  /\ RateLimit \in Nat /\ Window \in Nat \ {0}
  /\ MaxTokens \in Nat /\ MaxKey \in Nat \ {0}

Methods == {"GET", "POST"}
Calls == (0..(Window - 1)) \X (1..(RateLimit + 1))  \* age and rank

VARIABLES
  zset,    \* rate:<ip>:<method>: the calls in the window
  passed,  \* history: those of them that were let through
  tok,     \* access tokens issued so far: the key that signed each
  kcKey,   \* the realm's signing key
  jwks,    \* _jwks_cache (0: empty, or fetched _JWKS_TTL ago)
  lock,    \* holder of _jwks_lock
  pc,      \* per task: "idle", a step, or "answered"
  call,    \* per task: [method, t]; t = 0 without a token
  key,     \* per task: the key the GET returned, 0 before
  forced,  \* per task: the fetch is the forced one
  answer   \* per task: "none", "ok", "401", "429", "5xx"

keyVars == <<jwks, lock>>
rateVars == <<zset, passed>>
kcVars == <<tok, kcKey>>
taskVars == <<pc, call, key, forced, answer>>
gVars == <<rateVars, kcVars, keyVars, taskVars>>

NoCall == [method |-> "GET", t |-> 0]

GInit ==
  /\ zset = [m \in Methods |-> {}] /\ passed = zset
  /\ tok = <<1>> /\ kcKey = 1
  /\ jwks = 0 /\ lock = None
  /\ pc = [k \in Tasks |-> "idle"] /\ call = [k \in Tasks |-> NoCall]
  /\ key = [k \in Tasks |-> 0] /\ forced = [k \in Tasks |-> FALSE]
  /\ answer = [k \in Tasks |-> "none"]

Older(calls) == {c \in Calls : c[1] > 0 /\ <<c[1] - 1, c[2]>> \in calls}
Arriving(calls) ==
  <<0, Min({Cardinality({c \in calls : c[1] = 0}) + 1, RateLimit + 1})>>

(* Keycloak and time (external).                                           *)
RotateKey ==
  /\ kcKey < MaxKey
  /\ kcKey' = kcKey + 1
  /\ UNCHANGED <<tok, rateVars, keyVars, taskVars>>

KeysAge ==
  /\ jwks # 0 /\ jwks' = 0
  /\ UNCHANGED <<lock, rateVars, kcVars, taskVars>>

(* zremrangebyscore drops what is Window old.                              *)
WindowMoves ==
  /\ \E m \in Methods : zset[m] # {}
  /\ zset' = [m \in Methods |-> Older(zset[m])]
  /\ passed' = [m \in Methods |-> Older(passed[m])]
  /\ UNCHANGED <<kcVars, keyVars, taskVars>>

-----------------------------------------------------------------------------
Answer(k, code) ==
  /\ pc' = [pc EXCEPT ![k] = "answered"]
  /\ answer' = [answer EXCEPT ![k] = code]
  /\ key' = [key EXCEPT ![k] = 0] /\ forced' = [forced EXCEPT ![k] = FALSE]

Goto(k, step) == pc' = [pc EXCEPT ![k] = step] /\ UNCHANGED answer

(* _decode: the first failure forces a fresh fetch, the second is final.   *)
Decode(k, t, signer) ==
  IF tok[t] = signer
  THEN /\ Goto(k, "handler")
       /\ key' = [key EXCEPT ![k] = 0] /\ forced' = [forced EXCEPT ![k] = FALSE]
  ELSE IF forced[k] THEN Answer(k, "401")
  ELSE /\ Goto(k, "lock")
       /\ forced' = [forced EXCEPT ![k] = TRUE] /\ UNCHANGED key

(* The authentication runs without an await while the keys are usable.     *)
Admit(k, t) ==
  IF t = 0 THEN Answer(k, "401")
  ELSE IF jwks # 0 THEN Decode(k, t, jwks)
  ELSE Goto(k, "lock") /\ UNCHANGED <<key, forced>>

LimitedTo(k, m, t, count) ==
  /\ pc[k] = "idle"
  /\ call' = [call EXCEPT ![k] = [method |-> m, t |-> t]]
  /\ zset' = [zset EXCEPT ![m] = @ \cup {Arriving(@)}]
  /\ IF count > RateLimit THEN Answer(k, "429") /\ UNCHANGED passed
     ELSE /\ Admit(k, t)
          /\ passed' = [passed EXCEPT ![m] = @ \cup {Arriving(zset[m])}]
  /\ UNCHANGED <<kcVars, keyVars>>

ArriveMutant(k, m, t) == LimitedTo(k, m, t, Cardinality(zset[m]))

(* dispatch of the rate limiter: a refused call is counted like any other. *)
Arrive(k, m, t) == LimitedTo(k, m, t, Cardinality(zset[m]) + 1)

(* Redis is down: reads go on uncounted, writes are refused.               *)
ArriveWithoutRedis(k, m, t) ==
  /\ pc[k] = "idle"
  /\ call' = [call EXCEPT ![k] = [method |-> m, t |-> t]]
  /\ IF m = "GET" THEN Admit(k, t) ELSE Answer(k, "5xx")
  /\ UNCHANGED <<rateVars, kcVars, keyVars>>

LockUnless(k, usable) ==
  /\ pc[k] = "lock" /\ lock = None
  /\ IF usable THEN Decode(k, call[k].t, jwks) /\ UNCHANGED lock
     ELSE Goto(k, "get") /\ lock' = k /\ UNCHANGED <<key, forced>>
  /\ UNCHANGED <<rateVars, kcVars, jwks, call>>

TakeLockMutant(k) == LockUnless(k, jwks # 0)

(* _fetch_jwks under the lock: another task may have filled the cache; if  *)
(* not, or if this fetch is forced, the lock is held across the GET.       *)
TakeLock(k) == LockUnless(k, ~forced[k] /\ jwks # 0)

GetCerts(k) ==
  /\ pc[k] = "get"
  /\ key' = [key EXCEPT ![k] = kcKey]
  /\ Goto(k, "store")
  /\ UNCHANGED <<rateVars, kcVars, keyVars, call, forced>>

StoreJwks(k) ==
  /\ pc[k] = "store"
  /\ jwks' = key[k] /\ lock' = None
  /\ Decode(k, call[k].t, key[k])
  /\ UNCHANGED <<rateVars, kcVars, call>>

FailReleasing(k, holder) ==
  /\ pc[k] = "get"
  /\ lock' = holder
  /\ Answer(k, "5xx")
  /\ UNCHANGED <<rateVars, kcVars, jwks, call>>

GetCertsFailsMutant(k) == FailReleasing(k, lock)

(* The GET raises: the block is left, the middleware answers 500.  (A 200  *)
(* of Keycloak is taken to hold keys: one that is no JSON ends in 401.)    *)
GetCertsFails(k) == FailReleasing(k, None)

(* The handler returns or raises.                                          *)
Handle(k, code) ==
  /\ pc[k] = "handler"
  /\ Answer(k, code)
  /\ UNCHANGED <<rateVars, kcVars, keyVars, call>>

ServerStep(k) ==
  \/ TakeLock(k) \/ GetCerts(k) \/ StoreJwks(k) \/ GetCertsFails(k)
  \/ \E code \in {"ok", "5xx"} : Handle(k, code)

Environment == RotateKey \/ KeysAge \/ WindowMoves

-----------------------------------------------------------------------------
(* While Redis answers, no more calls of one method are let through in a   *)
(* window than its limit, however refused calls fill and leave the window. *)
RateBound == \A m \in Methods : Cardinality(passed[m]) <= RateLimit

(* A key rotation locks nobody out: a token is refused only when it was    *)
(* signed with a retired key, however old the cached keys were when the    *)
(* call arrived, as long as Keycloak answers with keys or with an error.   *)
LiveKeyAccepted ==
  [][\A k \in Tasks :
       LET t == call'[k].t
       IN  answer[k] # "401" /\ answer'[k] = "401" =>
             t = 0 \/ tok[t] # kcKey]_gVars
=============================================================================
