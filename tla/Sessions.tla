------------------------------- MODULE Sessions ------------------------------
(***************************************************************************)
(* Sessions of one user: the OIDC router (core/features/auth/router.py),   *)
(* the HTTP middleware, and the gRPC interceptor and servicer.  Of         *)
(* validate_token only the expiry is left here, since every token of this  *)
(* user has a good signature; Gateway models the signing keys.  The        *)
(* operation "me" stands for every request that leaves the session alone.  *)
(*                                                                         *)
(* A request is a coroutine; one action is what it does between two        *)
(* awaits.  Access tokens are numbered as Keycloak issues them, and a      *)
(* token's number is its jti.  Keycloak and Redis are external.  Time is   *)
(* in whole seconds, as the claims and the TTLs are.                       *)
(*                                                                         *)
(* A request that fails the CSRF check, has no token or goes to a public   *)
(* path takes no step of the middleware and is left out.                   *)
(***************************************************************************)
EXTENDS Integers, Sequences, FiniteSets

CONSTANTS
  Reqs,       \* requests served, each once
  Logins,     \* PKCE states handed out by /login
  NoLogin,    \* a request that is no callback
  Lifespan,   \* seconds between iat and exp of an access token
  ErasureTTL, \* 86400 * 30
  NullableNames, \* users.first_name and last_name accept NULL (see CommitErase)
  MaxActive, MaxTokens, MaxTime  \* bounds

ASSUME SessionsAssumption ==
  /\ NoLogin \notin Logins
  /\ Lifespan \in Nat \ {0} /\ ErasureTTL \in Nat /\ NullableNames \in BOOLEAN
  /\ MaxActive \in Nat /\ MaxTokens \in Nat /\ MaxTime \in Nat

VARIABLES
  now,
  tok,        \* tokens issued so far: [sid, iat]
  kcUser,     \* the user exists in Keycloak
  kcLive,     \* Keycloak sessions whose refresh token works
  code,       \* per login: "unused", "issued" or "redeemed"
  states,     \* oidc:state:* keys in Redis
  blacklist,  \* oidc:blacklist:<jti>: when the key expires (0: never set)
  mark,       \* oidc:invalidated:<sub>: [iat, until]
  user,       \* the users row: [sub (linked), active, email (not anonymised)]
  pc, loc,    \* per request: next step or answer; its local variables
  out,        \* history: tokens whose logout was answered
  erased      \* history: an erasure was committed

kcVars == <<kcUser, kcLive, code>>
redisVars == <<states, blacklist, mark>>
history == <<out, erased>>
sessionVars == <<now, tok, kcVars, redisVars, user, pc, loc, history>>

Sids == {"web", "cli"}  \* the browser's session and the CLI's
Exp(t) == tok[t].iat + Lifespan

SessionSteps == {"blacklist", "mark", "select", "purge", "erase",
                 "emark", "ekc", "lblack", "lmark", "lkc", "state", "delstate",
                 "exchange", "find", "commit"}
NoLoc == [front |-> "none", op |-> "none", t |-> 0, login |-> NoLogin,
          black |-> FALSE, at |-> 0,
          linked |-> FALSE, late |-> FALSE]

SessionsInit ==
  /\ now = 0 /\ tok = <<>>
  /\ kcUser = TRUE /\ kcLive = {}
  /\ code = [s \in Logins |-> "unused"]
  /\ states = {} /\ blacklist = [t \in 1..MaxTokens |-> 0]
  /\ mark = [iat |-> 0, until |-> 0]
  /\ user \in [sub : BOOLEAN, active : {TRUE}, email : {TRUE}]
  /\ pc = [r \in Reqs |-> "idle"] /\ loc = [r \in Reqs |-> NoLoc]
  /\ out = {} /\ erased = FALSE

(* A request goes on with these local variables, or ends and drops them.   *)
Proceed(r, step, l) ==
  /\ pc' = [pc EXCEPT ![r] = step]
  /\ loc' = [loc EXCEPT ![r] = IF step = "done" THEN NoLoc ELSE l]

-----------------------------------------------------------------------------
(* Keycloak (external): a token of a session; an authorisation code.       *)
Issue(sid) ==
  /\ Len(tok) < MaxTokens
  /\ tok' = Append(tok, [sid |-> sid, iat |-> now])

(* login_pkce and login_password of the CLI: a session straight from       *)
(* Keycloak, without a callback.                                           *)
CliLogin ==
  /\ kcUser
  /\ Issue("cli")
  /\ kcLive' = kcLive \cup {"cli"}
  /\ UNCHANGED <<now, kcUser, code, redisVars, user,
                 pc, loc, history>>

(* POST /refresh, or the CLI's silent refresh.                             *)
Refresh(sid) ==
  /\ sid \in kcLive
  /\ Issue(sid)
  /\ UNCHANGED <<now, kcVars, redisVars, user,
                 pc, loc, history>>

(* GET /login keeps the verifier under a fresh state; the user signs in at *)
(* Keycloak and the browser has a code.                                    *)
Login(s) ==
  /\ code[s] = "unused" /\ kcUser
  /\ code' = [code EXCEPT ![s] = "issued"]
  /\ states' = states \cup {s}
  /\ UNCHANGED <<now, tok, kcUser, kcLive, blacklist, mark, user,
                 pc, loc, history>>

(* A second passes; a state may reach its five minutes at any time.        *)
Tick ==
  /\ now < MaxTime
  /\ now' = now + 1
  /\ \E kept \in {states, {}} : states' = kept
  /\ UNCHANGED <<tok, kcVars, blacklist, mark, user,
                 pc, loc, history>>

-----------------------------------------------------------------------------
(* At most MaxActive requests overlap.                                     *)
Arrives(r) ==
  /\ pc[r] = "idle"
  /\ Cardinality({q \in Reqs : pc[q] \in SessionSteps}) < MaxActive

(* Where validate_token returns to.                                        *)
Handler(op) == IF op = "logout" THEN "lblack" ELSE "select"
AfterDecode(l) ==
  CASE l.front = "http" -> "blacklist"
    [] l.front = "grpc" -> Handler(l.op)
    [] OTHER -> "find"

(* validate_token with keys in the cache: python-jose still accepts a      *)
(* token in the second of its exp.                                         *)
Validate(r, l) ==
  IF now <= tok'[l.t].iat + Lifespan THEN Proceed(r, AfterDecode(l), l)
  ELSE Proceed(r, "done", NoLoc)

(* A request with a token arrives at the middleware or the interceptor.    *)
(* DeleteMyAccount (gRPC) takes the time of the erasure here, at its first *)
(* line; late says that the token's logout had been answered.              *)
Start(r, front, op, t) ==
  /\ Arrives(r)
  /\ UNCHANGED <<now, tok, kcVars, redisVars, user, history>>
  /\ Validate(r, [NoLoc EXCEPT !.front = front, !.op = op, !.t = t,
                               !.late = t \in out,
                               !.at = IF op = "erase" THEN now ELSE 0])

(* A callback is late if it starts after the erasure.                      *)
StartCallback(r, s) ==
  /\ Arrives(r) /\ code[s] # "unused"
  /\ Proceed(r, "state", [NoLoc EXCEPT !.front = "public", !.login = s,
                                       !.late = erased])
  /\ UNCHANGED <<now, tok, kcVars, redisVars, user, history>>

-----------------------------------------------------------------------------
(* AuthMiddleware.dispatch: two reads of Redis, then the verdict.          *)
ReadBlacklist(r) ==
  /\ pc[r] = "blacklist"
  /\ Proceed(r, "mark", [loc[r] EXCEPT !.black = now < blacklist[loc[r].t]])
  /\ UNCHANGED <<now, tok, kcVars, redisVars, user, history>>

Marked(t) == now < mark.until /\ tok[t].iat <= mark.iat

ReadMark(r) ==
  /\ pc[r] = "mark"
  /\ IF loc[r].black \/ Marked(loc[r].t) THEN Proceed(r, "done", NoLoc)
     ELSE Proceed(r, Handler(loc[r].op), loc[r])
  /\ UNCHANGED <<now, tok, kcVars, redisVars, user, history>>

(* get_current_user asks for an active row, _get_user_by_sub (gRPC) does   *)
(* not.                                                                    *)
SelectUser(r) ==
  /\ pc[r] = "select"
  /\ Proceed(r, IF /\ user.sub /\ (loc[r].front = "grpc" \/ user.active)
                   /\ loc[r].op = "erase"
                THEN "purge" ELSE "done", loc[r])
  /\ UNCHANGED <<now, tok, kcVars, redisVars, user, history>>

-----------------------------------------------------------------------------
(* logout: the token's own key, then the user's mark, then Keycloak.       *)
TtlMutant(t) == Exp(t) - now - 1

Ttl(t) == IF Exp(t) > now THEN Exp(t) - now ELSE 1

LogoutWrites(r, until) ==
  /\ pc[r] = "lblack"
  /\ blacklist' = [blacklist EXCEPT ![loc[r].t] = until]
  /\ Proceed(r, "lmark", [loc[r] EXCEPT !.at = Ttl(loc[r].t)])
  /\ UNCHANGED <<now, tok, kcVars, states, mark, user, history>>

LogoutBlacklistMutant(r) == LogoutWrites(r, 0)

LogoutBlacklist(r) == LogoutWrites(r, now + Ttl(loc[r].t))

Answered(r) == out' = out \cup {loc[r].t} /\ UNCHANGED erased

LogoutMark(r) ==
  /\ pc[r] = "lmark"
  /\ mark' = [iat |-> tok[loc[r].t].iat, until |-> now + loc[r].at]
  /\ IF loc[r].front = "http" THEN Proceed(r, "lkc", loc[r]) /\ UNCHANGED history
     ELSE Proceed(r, "done", NoLoc) /\ Answered(r)
  /\ UNCHANGED <<now, tok, kcVars, states, blacklist, user>>

(* revoke_session with the refresh cookie, if there is one; best effort.   *)
LogoutKeycloak(r) ==
  /\ pc[r] = "lkc"
  /\ kcLive' \in {kcLive, kcLive \ {tok[loc[r].t].sid}}
  /\ Proceed(r, "done", NoLoc) /\ Answered(r)
  /\ UNCHANGED <<now, tok, kcUser, code, redisVars, user>>

(* Erasure: the KYC documents are deleted in the session (over HTTP, the   *)
(* time that goes into the mark is taken after that), the row is           *)
(* anonymised and all of it committed, the mark covers every token issued  *)
(* until that time, and the Keycloak user is deleted.                      *)
PurgeDocuments(r) ==
  /\ pc[r] = "purge"
  /\ Proceed(r, "erase", [loc[r] EXCEPT !.at = IF loc[r].front = "http" THEN now ELSE @])
  /\ UNCHANGED <<now, tok, kcVars, redisVars, user, history>>

(* The names are set to NULL: the models of the ORM allow it, and the      *)
(* schema of db/sql/01_schema.sql refuses the whole commit (Fault).        *)
CommitErase(r) ==
  /\ pc[r] = "erase" /\ NullableNames
  /\ user' = [sub |-> FALSE, active |-> FALSE, email |-> FALSE]
  /\ erased' = TRUE
  /\ Proceed(r, "emark", loc[r])
  /\ UNCHANGED <<now, tok, kcVars, redisVars, out>>

EraseMark(r) ==
  /\ pc[r] = "emark"
  /\ mark' = [iat |-> loc[r].at, until |-> now + ErasureTTL]
  /\ Proceed(r, "ekc", loc[r])
  /\ UNCHANGED <<now, tok, kcVars, states, blacklist, user, history>>

EraseKeycloak(r) ==
  /\ pc[r] = "ekc"
  /\ \/ kcUser' = FALSE /\ kcLive' = {}
     \/ UNCHANGED <<kcUser, kcLive>>
  /\ Proceed(r, "done", NoLoc)
  /\ UNCHANGED <<now, tok, code, redisVars, user, history>>

-----------------------------------------------------------------------------
(* callback: read the state, delete it, exchange the code, validate the    *)
(* token (above), find the row and write it back.                          *)
ReadState(r) ==
  /\ pc[r] = "state"
  /\ Proceed(r, IF loc[r].login \in states THEN "delstate" ELSE "done", loc[r])
  /\ UNCHANGED <<now, tok, kcVars, redisVars, user, history>>

DeleteState(r) ==
  /\ pc[r] = "delstate"
  /\ states' = states \ {loc[r].login}
  /\ Proceed(r, "exchange", loc[r])
  /\ UNCHANGED <<now, tok, kcVars, blacklist, mark, user, history>>

(* Keycloak redeems a code once.                                           *)
Exchange(r) ==
  /\ pc[r] = "exchange"
  /\ IF code[loc[r].login] = "issued" /\ kcUser
     THEN /\ Issue("web")
          /\ kcLive' = kcLive \cup {"web"}
          /\ code' = [code EXCEPT ![loc[r].login] = "redeemed"]
          /\ Validate(r, [loc[r] EXCEPT !.t = Len(tok) + 1])
     ELSE Proceed(r, "done", NoLoc) /\ UNCHANGED <<tok, kcLive, code>>
  /\ UNCHANGED <<now, kcUser, redisVars, user, history>>

(* _upsert_user: by sub, else by address among the active rows.            *)
FindUser(r) ==
  /\ pc[r] = "find"
  /\ Proceed(r, IF (user.sub \/ user.email) /\ user.active THEN "commit"
             ELSE "done", [loc[r] EXCEPT !.linked = user.sub])
  /\ UNCHANGED <<now, tok, kcVars, redisVars, user, history>>

CommitUserAs(r, row) ==
  /\ pc[r] = "commit"
  /\ user' = row
  /\ Proceed(r, "done", NoLoc)
  /\ UNCHANGED <<now, tok, kcVars, redisVars, history>>

CommitUserMutant(r) ==
  CommitUserAs(r, [sub |-> TRUE, active |-> TRUE, email |-> TRUE])

(* The UPDATE carries the columns that changed since the row was loaded:   *)
(* the link when it was missing (role and last_login are not modelled).    *)
CommitUser(r) == CommitUserAs(r, [user EXCEPT !.sub = @ \/ ~loc[r].linked])

-----------------------------------------------------------------------------
(* An awaited call of Redis, PostgreSQL or Keycloak raises: the request    *)
(* ends with what it has done so far.                                      *)
Fault(r) ==
  /\ pc[r] \in SessionSteps \ {"lkc", "ekc"}
  /\ Proceed(r, "done", NoLoc)
  /\ UNCHANGED <<now, tok, kcVars, redisVars, user, history>>

Step(r) ==
  \/ ReadBlacklist(r) \/ ReadMark(r) \/ SelectUser(r)
  \/ LogoutBlacklist(r) \/ LogoutMark(r) \/ LogoutKeycloak(r)
  \/ PurgeDocuments(r) \/ CommitErase(r) \/ EraseMark(r) \/ EraseKeycloak(r)
  \/ ReadState(r) \/ DeleteState(r) \/ Exchange(r) \/ FindUser(r)
  \/ CommitUser(r) \/ Fault(r)

SessionsNext ==
  \/ \E r \in Reqs :
       \/ Step(r)
       \/ \E front \in {"http", "grpc"}, op \in {"me", "logout", "erase"},
             t \in 1..Len(tok) : Start(r, front, op, t)
       \/ \E s \in Logins : StartCallback(r, s)
  \/ \E s \in Logins : Login(s)
  \/ \E sid \in kcLive : Refresh(sid)
  \/ CliLogin \/ Tick

SessionsSpec == SessionsInit /\ [][SessionsNext]_sessionVars

-----------------------------------------------------------------------------
Tokens == 1..Len(tok)
Locs == [front : {"none", "http", "grpc", "public"},
         op : {"none", "me", "logout", "erase"},
         t : 0..MaxTokens, login : Logins \cup {NoLogin}, 
         black : BOOLEAN, at : Nat, linked : BOOLEAN,
         late : BOOLEAN]

(* Type correctness.                                                       *)
SessionsTypeOK ==
  /\ now \in 0..MaxTime /\ kcUser \in BOOLEAN
  /\ tok \in Seq([sid : Sids, iat : 0..MaxTime])
  /\ Len(tok) <= MaxTokens
  /\ kcLive \subseteq Sids /\ out \subseteq Tokens /\ states \subseteq Logins
  /\ code \in [Logins -> {"unused", "issued", "redeemed"}]
  /\ blacklist \in [1..MaxTokens -> Nat]
  /\ mark \in [iat : Nat, until : Nat]
  /\ user \in [sub : BOOLEAN, active : BOOLEAN, email : BOOLEAN]
  /\ pc \in [Reqs -> SessionSteps \cup {"idle", "done"}]
  /\ loc \in [Reqs -> Locs]
  /\ erased \in BOOLEAN

(* A token whose logout was answered is not let through the HTTP           *)
(* middleware again before the second in which it expires, whatever other  *)
(* logouts and erasures write into the user's mark meanwhile.              *)
LogoutIsFinal ==
  \A r \in Reqs :
    /\ loc[r].front = "http" /\ loc[r].late
    /\ pc[r] \in {"select", "purge", "erase", "emark", "ekc",
                  "lblack", "lmark", "lkc"}
    => now >= Exp(loc[r].t)

(* What a login can do to an erased account.  Once an erasure is committed *)
(* the row stays inactive and anonymised, whichever callbacks race it, and *)
(* the one column that is ever written back is sub: by a callback that     *)
(* started before the erasure and had found the row unlinked.  (gRPC,      *)
(* which does not ask for an active row, then serves the erased account    *)
(* again; HTTP does not.)                                                  *)
ErasureIsFinal ==
  [][/\ erased' => ~user'.active /\ ~user'.email
     /\ erased /\ ~user.sub /\ user'.sub =>
          \E r \in Reqs : /\ pc[r] = "commit" /\ pc'[r] = "done"
                          /\ ~loc[r].late /\ ~loc[r].linked]_sessionVars
=============================================================================
