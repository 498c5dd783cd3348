------------------------------ MODULE CliClient ------------------------------
(***************************************************************************)
(* The command-line client on top of the API's gateway: request with its   *)
(* retries and its offline cache (cli/http/client.py, cli/cache.py), the   *)
(* silent refresh (cli/http/auth.py), the login, logout and refresh        *)
(* commands (cli/api/auth.py), and the token bundle that every CLI process *)
(* of a user shares in the OS keyring (cli/security/tokens.py).            *)
(*                                                                         *)
(* Bundle t is access token t with the refresh token that came with it.    *)
(* Keycloak may or may not accept a refresh token a second time, depending *)
(* on the realm.  A call that the client gave up on goes on at the server. *)
(***************************************************************************)
EXTENDS Gateway

(* The operations of cli/api by what request does for them: a "read" is a  *)
(* GET with a key of the local cache, a "get" one without, a "write"       *)
(* another method, without a key.  (The key of chat holds Python's hash of *)
(* the message, which no later process finds again.)                       *)
assetsApi ==
  [tokenize |-> "write", transfer |-> "write", freeze |-> "write",
   unfreeze |-> "write", valuate |-> "write", get |-> "read",
   history |-> "read", valuations |-> "read", list_assets |-> "get"]
complianceApi ==
  [summary |-> "read", alerts |-> "read", user_status |-> "get",
   kyc_submit |-> "write", kyc_approve |-> "write", screening_run |-> "write"]
auditApi ==
  [list_log |-> "get", asset_trail |-> "read", generate_report |-> "write",
   report_status |-> "get", fraud_scan |-> "write"]
agentApi ==
  [chat |-> "write", reindex |-> "write", search |-> "get", status |-> "read"]
organizationsApi ==
  [list_orgs |-> "read", list_users |-> "get", portfolio |-> "read"]
transactionsApi == [list_tx |-> "get", stats |-> "read", get |-> "read"]
tribunalApi ==
  [vote_commit |-> "write", vote_reveal |-> "write", tally |-> "write"]
zkpApi ==
  [setup_key |-> "write", verify |-> "write", status |-> "read",
   revoke |-> "write"]
accountApi == [me |-> "get", me_export |-> "get", me_delete |-> "write"]

KindsIn(api) == {api[f] : f \in DOMAIN api}
ApiKinds ==
  KindsIn(assetsApi) \cup KindsIn(complianceApi) \cup KindsIn(auditApi)
  \cup KindsIn(agentApi) \cup KindsIn(organizationsApi)
  \cup KindsIn(transactionsApi) \cup KindsIn(tribunalApi)
  \cup KindsIn(zkpApi) \cup KindsIn(accountApi)
AllKinds == ApiKinds \cup {"login", "logout", "refresh"}
MethodOf(kind) == IF kind = "write" THEN "POST" ELSE "GET"

CONSTANTS
  Procs,    \* commands, one CLI process each
  Kinds(_), \* the commands each may run
  Retries   \* _RETRY_ATTEMPTS

ASSUME CliAssumption ==
  /\ Retries \in Nat \ {0}
  /\ \A p \in Procs : Kinds(p) \subseteq AllKinds

VARIABLES
  keyring,   \* the stored bundle, 0 when there is none
  session,   \* the Keycloak session of the bundles lives
  cpc,       \* per command: its next step, or how it ended
  cmd,       \* per command: [kind, attempt, bundle, task, resent]
  cached,    \* the local cache holds an unexpired body of the read
  owner,     \* per task: the command that sent its call
  effects    \* per command: how often its write was carried out

userVars == <<keyring, session>>
vars == <<gVars, userVars, cpc, cmd, cached, owner, effects>>

Results == {"ok", "cached", "auth_error", "api_error", "error"}
Steps == {"send", "wait", "renew", "save", "start", "endsession", "delete"}
NewCmd(kind) ==
  [kind |-> kind, attempt |-> 0, bundle |-> 0, task |-> None, resent |-> FALSE]

Init ==
  /\ GInit
  /\ keyring = 1 /\ session = TRUE /\ cached = FALSE
  /\ cmd \in {c \in [Procs -> {NewCmd(kind) : kind \in AllKinds}] :
                \A p \in Procs : c[p].kind \in Kinds(p)}
  /\ cpc = [p \in Procs |-> IF cmd[p].kind \in ApiKinds THEN "send" ELSE "start"]
  /\ owner = [k \in Tasks |-> None] /\ effects = [p \in Procs |-> 0]

Step(p, step, c) ==
  /\ cpc' = [cpc EXCEPT ![p] = step]
  /\ cmd' = [cmd EXCEPT ![p] = c]

Ends(p, result) ==
  Step(p, result, [cmd[p] EXCEPT !.task = None, !.bundle = 0, !.resent = FALSE])

(* The token endpoint of Keycloak issues bundle Len(tok) + 1 (external).   *)
NextBundle == Len(tok) + 1
IssueBundle ==
  /\ NextBundle <= MaxTokens
  /\ tok' = Append(tok, kcKey)
  /\ UNCHANGED <<kcKey, rateVars, keyVars, taskVars>>

(* auth_flow reads the keyring for every attempt anew; a request that is   *)
(* sent again after a refresh carries the new token.                       *)
Send(p, k) ==
  /\ cpc[p] = "send"
  /\ LET t == IF cmd[p].resent THEN cmd[p].bundle ELSE keyring
     IN  /\ \/ Arrive(k, MethodOf(cmd[p].kind), t)
            \/ ArriveWithoutRedis(k, MethodOf(cmd[p].kind), t)
         /\ Step(p, "wait", [cmd[p] EXCEPT !.task = k, !.bundle = t])
  /\ owner' = [owner EXCEPT ![k] = p]
  /\ UNCHANGED <<userVars, cached, effects>>

(* A step of the server.  A write that reaches its handler may be carried  *)
(* out even when the answer is an error or nobody waits for it any more.   *)
Serve(k) ==
  /\ ServerStep(k)
  /\ \E done \in {0, 1} :
       /\ done = 1 => pc[k] = "handler" /\ call[k].method = "POST"
       /\ answer'[k] = "ok" /\ call[k].method = "POST" => done = 1
       /\ effects' = [effects EXCEPT ![owner[k]] = @ + done]
  /\ UNCHANGED <<userVars, cpc, cmd, cached, owner>>

Forget(k) ==
  /\ pc' = [pc EXCEPT ![k] = "idle"] /\ answer' = [answer EXCEPT ![k] = "none"]
  /\ owner' = [owner EXCEPT ![k] = None] /\ call' = [call EXCEPT ![k] = NoCall]
  /\ UNCHANGED <<rateVars, kcVars, keyVars, key, forced>>

(* After the last attempt: set_online(False), then the cache if there is a *)
(* cache key.                                                              *)
Offline(p) ==
  IF cmd[p].kind = "read" /\ cached THEN "cached" ELSE "api_error"

(* The loop of request: sleep and try again, or give up.                   *)
NextAttempt(p) ==
  IF cmd[p].attempt < Retries - 1
  THEN Step(p, "send", [cmd[p] EXCEPT !.attempt = @ + 1, !.task = None,
                                      !.bundle = 0, !.resent = FALSE])
  ELSE Ends(p, Offline(p))

ResendOn(p, codes) ==
  LET k == cmd[p].task
      code == answer[k]
      mayRenew == code \in codes /\ cmd[p].bundle # 0 /\ ~cmd[p].resent
      lastAttempt == cmd[p].attempt = Retries - 1
  IN /\ cpc[p] = "wait" /\ pc[k] = "answered"
     /\ \/ code = "ok" /\ Ends(p, "ok")
        \/ mayRenew /\ Step(p, "renew", [cmd[p] EXCEPT !.task = None])
        \/ ~mayRenew /\ code = "401" /\ Ends(p, "auth_error")
        \/ ~mayRenew /\ code = "429" /\ lastAttempt /\ Ends(p, "api_error")
        \/ /\ ~mayRenew /\ NextAttempt(p)
           /\ \/ code = "5xx"
              \/ code = "429" /\ ~lastAttempt
     /\ cached' = (cached \/ (code = "ok" /\ cmd[p].kind = "read"))
     /\ Forget(k)
     /\ UNCHANGED <<userVars, effects>>

ReceiveMutant(p) == ResendOn(p, {"401", "5xx"})

(* auth_flow renews the bundle after a 401, once per attempt; request      *)
(* retries 429 and 5xx, raises the other errors, and caches a read.  (The  *)
(* 403, 404 or 422 of a handler ends a command as TransportError does.)    *)
Receive(p) == ResendOn(p, {"401"})

(* httpx.TimeoutException and httpx.RequestError: the call stays with the  *)
(* server, or never reached it.                                            *)
TimeOut(p) ==
  /\ cpc[p] = "wait"
  /\ NextAttempt(p)
  /\ UNCHANGED <<gVars, userVars, cached, owner, effects>>

TransportError(p) ==
  /\ cpc[p] \in {"send", "wait"}
  /\ Ends(p, Offline(p))
  /\ UNCHANGED <<gVars, userVars, cached, owner, effects>>

DropAnswer(k) ==
  /\ pc[k] = "answered" /\ \A p \in Procs : cmd[p].task # k
  /\ Forget(k)
  /\ UNCHANGED <<userVars, cpc, cmd, cached, effects>>

-----------------------------------------------------------------------------
(* The commands of auth: logout and refresh without a stored bundle have   *)
(* nothing to ask of Keycloak.                                             *)
Start(p) ==
  /\ cpc[p] = "start"
  /\ LET kind == cmd[p].kind
     IN  \/ kind = "login" /\ Step(p, "renew", cmd[p])
         \/ kind = "logout" /\ Step(p, IF keyring = 0 THEN "delete" ELSE "endsession", cmd[p])
         \/ kind = "refresh" /\ Step(p, IF keyring = 0 THEN "error" ELSE "renew", cmd[p])
  /\ UNCHANGED <<gVars, userVars, cached, owner, effects>>

(* The token endpoint: _attempt_refresh, refresh_now, login_pkce,          *)
(* login_password.  An old refresh token may be taken again.               *)
Renew(p) ==
  /\ cpc[p] = "renew"
  /\ cmd[p].kind = "login" \/ session
  /\ IssueBundle
  /\ session' = TRUE
  /\ Step(p, "save", [cmd[p] EXCEPT !.bundle = NextBundle])
  /\ UNCHANGED <<keyring, cached, owner, effects>>

(* save_token_bundle; auth_flow then sends its request again.              *)
SaveBundle(p) ==
  /\ cpc[p] = "save"
  /\ keyring' = cmd[p].bundle
  /\ IF cmd[p].kind \in ApiKinds
     THEN Step(p, "send", [cmd[p] EXCEPT !.resent = TRUE])
     ELSE Ends(p, "ok")
  /\ UNCHANGED <<gVars, session, cached, owner, effects>>

(* Keycloak refuses or cannot be reached: auth_flow deletes whatever       *)
(* bundle is stored by now, login and refresh_now leave it.                *)
RenewFails(p) ==
  /\ cpc[p] = "renew"
  /\ IF cmd[p].kind \in ApiKinds
     THEN keyring' = 0 /\ Ends(p, "auth_error")
     ELSE Ends(p, "error") /\ UNCHANGED keyring
  /\ UNCHANGED <<gVars, session, cached, owner, effects>>

(* logout: the end_session call may fail, the tokens are deleted anyway.   *)
EndSession(p) ==
  /\ cpc[p] = "endsession"
  /\ session' \in {FALSE, session}
  /\ Step(p, "delete", cmd[p])
  /\ UNCHANGED <<gVars, keyring, cached, owner, effects>>

DeleteTokens(p) ==
  /\ cpc[p] = "delete"
  /\ keyring' = 0
  /\ Ends(p, "ok")
  /\ UNCHANGED <<gVars, session, cached, owner, effects>>

(* The cached body passes its ttl (CacheDB.get).                           *)
CacheExpires ==
  /\ cached /\ cached' = FALSE
  /\ UNCHANGED <<gVars, userVars, cpc, cmd, owner, effects>>

Done(p) == cpc[p] \in Results

ClientStep(p) ==
  \/ Start(p) \/ Receive(p) \/ Renew(p) \/ SaveBundle(p) \/ RenewFails(p)
  \/ EndSession(p) \/ DeleteTokens(p)
  \/ \E k \in Tasks : Send(p, k)

World == Environment /\ UNCHANGED <<userVars, cpc, cmd, cached, owner, effects>>

AllDone ==
  /\ \A p \in Procs : Done(p)
  /\ \A k \in Tasks : pc[k] = "idle"
  /\ UNCHANGED vars

Next ==
  \/ World \/ CacheExpires \/ AllDone
  \/ \E k \in Tasks : Serve(k) \/ DropAnswer(k)
  \/ \E p \in Procs : ClientStep(p) \/ TimeOut(p) \/ TransportError(p)

Spec == Init /\ [][Next]_vars

-----------------------------------------------------------------------------
(* Type correctness of the gateway, the shared keyring and the tasks.      *)
TypeOK ==
  /\ \A m \in Methods : zset[m] \subseteq Calls /\ passed[m] \subseteq zset[m]
  /\ tok \in Seq(1..MaxKey) /\ kcKey \in 1..MaxKey
  /\ jwks \in 0..MaxKey
  /\ lock # None => pc[lock] \in {"get", "store"}
  /\ pc \in [Tasks -> {"idle", "lock", "get", "store", "handler", "answered"}]
  /\ keyring \in 0..Len(tok) /\ session \in BOOLEAN /\ cached \in BOOLEAN
  /\ cpc \in [Procs -> Steps \cup Results]
  /\ \A p \in Procs :
       /\ cmd[p].kind \in Kinds(p) /\ cmd[p].attempt \in 0..(Retries - 1)
       /\ cmd[p].bundle \in 0..Len(tok)
       /\ cpc[p] = "wait" => pc[cmd[p].task] # "idle" /\ owner[cmd[p].task] = p

(* A write that is reported done was done, and however its retries, the    *)
(* resent call after a refresh and calls the client gave up on interleave, *)
(* it was carried out at most once per attempt of the loop of request.     *)
WritesCounted ==
  \A p \in Procs :
    /\ effects[p] <= cmd[p].attempt + 1
    /\ cpc[p] = "ok" /\ cmd[p].kind = "write" => effects[p] >= 1
=============================================================================
