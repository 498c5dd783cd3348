# Verification of Pxtly (aip-qx)

TLA+ models of the asset ledger, of the services that keep PostgreSQL in step
with it, of the gateway, sessions, compliance and credentials in front of it,
of the events, audits and the agent around it and of the command-line client;
TLC configurations that check them on small instances; and TLAPS proofs of
their safety properties for every instance. Paths are relative to the
repository (`src/chaincode/contract.go` is `chaincode/contract.go` there).

## 1. Inventory of the system

Pxtly tokenises real-world assets. An asset lives twice: on a Hyperledger Fabric
ledger (Go chaincode) and in PostgreSQL (Python services). Concurrency is
everywhere: every HTTP or gRPC request is an asyncio coroutine with its own
database session, Celery workers run tasks beside them, and Fabric itself runs
proposals concurrently.

| Component | State | Operations | Interacts with | What is hard |
|---|---|---|---|---|
| Asset chaincode `chaincode/*.go` | world state: one record per asset with its provenance trail | TokenizeAsset, TransferAsset, FreezeAsset, UnfreezeAsset; four queries | run by Fabric peers | invariants over long call sequences; one event per transaction |
| Fabric network (external) | committed state, key versions, transactions in flight | endorse, order, validate, commit | chaincode, client | concurrent endorsement, lost and late commits |
| Fabric client `core/fabric_client/network.py`, `retry.py` | shared failure counter and circuit flag; one `peer` process per attempt | submit_transaction, evaluate_transaction | ledger, every service | time-outs that race commits, retries of what was done, shared counters |
| Circuit breaker `core/core/circuit_breaker.py` | state, count, opening time | call | Neo4j, Vault, Groq | calls that end in another state than they began in |
| Asset service `core/features/assets/` | tables assets, transactions, valuations | tokenize, transfer, freeze, unfreeze_asset, record_valuation, synchronisation task | client, PostgreSQL, compliance, events | two stores without a common transaction; compensation; stale rows |
| Tribunal `core/features/tribunal/` | tables tribunal_sessions, tribunal_votes | commit_vote, reveal_vote, tally_and_slash | PostgreSQL | check-then-act between concurrent requests, repeated tallies |
| Compliance `core/features/compliance/` | compliance records, SARs, log rows, the signed lists in memory | submit, approve, full_check, screening | asset service, PostgreSQL | order of the checks, select-then-insert, files that lose their signature |
| Sessions `core/features/auth/`, `core/api/middleware/auth_middleware.py` | PKCE states and revocation marks in Redis, the users row | login, callback, refresh, logout, erasure, every authenticated request over REST and gRPC | Keycloak, Redis | get-then-delete, tokens issued around a logout, a login during an erasure |
| Gateway `core/api/middleware/rate_limiter.py`, `core/core/oidc.py` | sliding windows in Redis, cache of signing keys | admit a call, validate a token | Redis, Keycloak | refused calls that count, key rotation behind a cache |
| Credentials `core/features/zkp/` | credentials, nullifiers, sanctions tree | issue, verify, revoke | compliance records, PostgreSQL | proofs used once, revocation between two statements |
| Events `core/fabric_client/events.py`, `core/features/events/`, `core/main.py` | token bucket, subscriptions | start, stop, listen, publish, SSE stream, ingestion | Redis, Neo4j | reconnection, loss, bursts |
| Audit `core/features/audit/` | report files, log rows | integrity check, report task | the ledger, PostgreSQL | reads a trail and a state at two moments |
| Agent `core/features/agent/` | vector index, the shared breaker | chat (streamed or not), reindex | Groq, PostgreSQL | retries after part of the answer was sent |
| Command-line client `cli/` | token bundle in the OS keyring, offline cache | request with retries, silent refresh, login, logout, every command | gateway, Keycloak | two processes that share one bundle, calls given up on |
| Front ends: routers, `core/grpc_server/servicers/`, `cli/api`, `cli/commands` | none | validate a request, build an answer | all services | three descriptions of one interface |
| Wallet, FHE scoring, deployment, simulations | see `PROJECT.json` | | | |

What makes each of them correct, in one line each:

- chaincode: the trail of every asset is an unbroken, complete and immutable log
  from which its current fields follow;
- Fabric: concurrent execution is equivalent to running one handler at a time;
- client: a returned call was committed, a verdict of the chaincode means that
  nothing was written (any other error says nothing), retries do no harm where
  the chaincode makes them so, every call is answered;
- breaker: count and state agree, and it recovers once its dependency has and
  callers keep asking;
- asset service: PostgreSQL never says more than the ledger, and requests that
  do not overlap leave them apart only where one of them failed in a known way;
- Tribunal: votes are binding, verdicts agree with a decision that had its
  majority;
- compliance: nobody passes the gate whom no officer ever granted the level,
  every decision is logged, a rejected or stale list hides no name of the
  newest trusted one;
- sessions: over HTTP a logged-out token is refused until it expires; an erased
  row stays inactive and anonymised, though its link to Keycloak may come back;
- gateway: no window admits more than its limit, a good token is never refused
  while Keycloak answers with keys or with an error;
- credentials: a nullifier is accepted once, and no key in the very spelling
  that was revoked;
- events: what a subscriber gets is what was published, in order; the listener
  subscribes again, a stream while its token lasts;
- audit: a report shows a state the asset had, and never a false alarm;
- agent: the client can tell where one attempt ends and the next begins, and
  every chat ends;
- CLI: a reported write was done, at most once per attempt.

## 2. Plan

Built, in this order: the chaincode and its atomic specification
(`Chaincode`, `AssetContract`), its concurrent execution (`FabricLedger`), the
client on top of it (`FabricClient`), the breaker (`CircuitBreaker`), the two
stores (`AssetSaga`), the Tribunal (`Tribunal`), with a proof module for
chaincode, contract, ledger, breaker and Tribunal; then `Sessions`,
`Compliance`, `Credentials` on top of it and `Merkle`, `AuditReport` on top of
the contract, `Agent` and `Events` on top of the breaker, `Gateway` and
`CliClient` on top of it, and `Interface`.

Then the proofs: first the modules above that had none, each on top of the
proof module of the component it extends (section 5), so that now every
invariant and every safety action property of the runs is also a theorem.

Left, in this order:

1. weaker premises for the conditional results: what survives of
   `DivergenceIsExplained` once requests overlap, and of the verdicts once tallies
   do;
2. the other periodic tasks, and `process_fabric_event` once its INSERT names
   columns that exist;
3. a handler's 403, 404 and 422 in `CliClient`.

## 3. Modules

| Module | Models | State and actions |
|---|---|---|
| `Chaincode` | the handlers as operators on the world state: `Answer` (all checks, in code order) and `Write` (the record a successful handler puts) | no variables; shared by the ledger modules |
| `AssetContract` | the abstract specification: handlers run atomically | `world`, `events`; one action per transaction function |
| `AuditReport` | the report task on a ledger that moves on; extends `AssetContract` | `job`, `files`, `announced`; one action per read and write of the task |
| `FabricLedger` | endorse, order, validate, commit | `world`, `version`, `txn`; `Endorse`, `Refuse`, `Commit`, `Invalidate`. Refines `AssetContract` (`Serializable`) |
| `FabricClient` | `submit_transaction` under `fabric_retry`; extends `FabricLedger` | the decorator's shared variables under their own names, per call `pc`, `attempt`, `cur`; one action per step of the wrapper, `Peer` for the processes |
| `AssetSaga` | the six operations on the two stores | ledger (`world`, `used`, `stray`), tables (`db`, `rows`), per request `pc` and what its session loaded; one action per awaited step |
| `CircuitBreaker` | `CircuitBreaker.call` and `_record_failure` | one action per block under the lock, `Cancel` for a client that goes away, `Tick` for time |
| `Agent` | a chat from request to last chunk, with retries; extends `CircuitBreaker` | per chat `stage`, `attempt`, `out` (what its client was sent) |
| `Events` | ingestion, publication, listener, streams, start and stop; extends `CircuitBreaker` | `published`, per subscriber `conn`, `buf`, `got`; the bucket's `tokens` |
| `Tribunal` | one dispute | both tables; one action per statement of `commit_vote`, `reveal_vote`, `tally_and_slash` |
| `Sessions` | login to logout and erasure of one user | Redis keys, Keycloak's sessions, the users row; per request `pc`, `loc`; one action per stretch between two awaits |
| `Gateway` | rate limiter and key cache | `zset` and `passed`, the calls in the window with their ages; `jwks`, `lock`; one action per await |
| `CliClient` | `request`, silent refresh, login, logout; extends `Gateway` | the shared `keyring`, per process `cpc`, `cmd` |
| `Compliance` | records, approval, the gate, screening, SARs, lists | `recs`, `sars`, `log`; `file` on disk and `loaded`, what the process read of it; per request one action per database round trip, `EditFile`, `Restart` |
| `Credentials` | issue, verify, revoke, erase; extends `Compliance` | `creds`, `used`; one action per statement |
| `Merkle` | the sanctions tree and its proofs of absence | pure operators |
| `Interface` | what a request must carry and an answer finds, in REST, gRPC and CLI; the read-only endpoints | pure operators and tables |
| `*Proofs` | TLAPS proofs | |
| `MC*` | instances for TLC | |

Choices a reader of the code should know:

- A handler that returns an error writes nothing in Fabric, so `AssetContract`
  has successful steps only; `FabricLedger` keeps refused proposals with their
  answer because the client sees them. The four queries change nothing and are
  not actions. `EN_EMISSION` and `REMBOURSE` are declared by `models.go` and set
  by no handler. The format checks of `TokenizeAsset` (ISIN, LEI, currency,
  dates) are one Boolean. The comparison of MSPs ignores case in the code; the
  model's MSPs are already equal or different.
- `SetEvent` keeps one event per transaction, the last one (`Event`, external).
- In `FabricClient` the decorator's `wait_for` and `_exec_cli`'s have the same
  duration and the outer one starts first: it cancels the inner one before the
  `process.kill` of the inner handler is reached, so the process lives on.
  `ConnectionError` and gRPC errors take the same path as a time-out. `Classify`
  follows the substring tests of `network.py:190-198`: a refused unfreeze of an
  asset that is not frozen is reported as `AssetFrozenError`. A process may
  also exit with an error after its transaction was ordered (`Fail`): the
  orderer failed it, or `--waitForEvent` saw no event in time. The call then
  raises `FabricEndorsementError` and the transaction may still commit, so
  `AnswersAreTruthful` promises nothing of that exception.
- In `AssetSaga` the ledger is atomic, which `FabricLedger` justifies, and a
  call of the client ends in one of the ways `FabricClient` has: it returns, it
  raises, and attempts that timed out stay in `stray` and may commit later,
  several times if the chaincode allows it. A session keeps the row it loaded
  and its UPDATE carries the columns that differ from it
  (`expire_on_commit=False`, no autoflush, READ COMMITTED). `Payloads` covers
  what the peer CLI may print: the chaincode functions return only an error, so
  there may be no payload at all. The handler then raises `ValueError`
  (`service.py:54`, `144`, `228`, `307`) after the ledger has committed, without
  compensation and without a log line: such a request ends in `noPayload`. The
  database trigger
  `trg_update_asset_value` (`db/sql/06_views_functions.sql`) is part of
  `CommitUpdate`; unique and NOT NULL columns are `CommitMustFail`.
- `transfer` passes the price and the justification to `TransferAsset` in the
  order opposite to the one the chaincode declares (`service.py:139`,
  `contract.go:108-109`). `Submitted` does the same: a justification that is not
  a number is refused, one that is becomes the price. `NumOf` and `StrOf` are
  the two conversions.
- `evaluate_transaction` converts the keys of the ledger's JSON to snake case:
  the synchronisation finds `status` and `current_value`, but looks for
  `current_owner_id` where the record has `current_owner`. `SyncRead` to
  `SyncUpdate` write status and value, never the owner.
- No write of the gRPC asset service builds its schema (`SchemasBuilt` of
  `Interface`), so it adds no behaviour to `AssetSaga`.
- In `Tribunal` no code moves a session to REVEAL, a vote may be committed after
  others were revealed, and `tally_and_slash` does not look at the status. A
  commit hash is the pair that opens it (SHA-256 without collisions). A reveal
  whose salt is longer than the column fails in the database and changes
  nothing.
- In `Sessions` one token number is one jti; the mark left by a logout carries
  the iat of the token that logged out, and the middleware compares with it.
  "me" stands for every request that leaves the session alone. gRPC looks
  neither at the blacklist nor at the mark, and serves a logged-out token until
  it expires, which is why `LogoutIsFinal` speaks of the HTTP middleware. It
  does not ask whether the account is active either
  (`grpc_server/servicers/auth.py:230`): a callback that found the row before an
  erasure and links it again after it (`auth/router.py:433`) makes an erased
  account answer over gRPC. `ErasureIsFinal` says that this is the only way.
- The tables come from the ORM's models or from `db/sql`, which
  `db/migrations/README.md` tells the operator to apply, and the two differ.
  `users.first_name` and `last_name` are NOT NULL in `01_schema.sql:57-58`: the
  erasure, which sets them to None, is refused there as a whole
  (`NullableNames`). `kyc_status_enum` lacks the `VERIFIE` of the gRPC approval
  and `risk_category_enum` the `MOYEN` of a medium score (`01_schema.sql:12-17`),
  so that these commits are refused, and `08_zkp_tables.sql:23-24` allows one
  credential per user and text of a key, so that none is issued again after it
  was revoked or has expired (`SqlSchema`). The theorems hold for both values.
- In `Gateway` a refused call stays in the window and counts, as `zadd` runs
  before the count is known. Without Redis reads pass uncounted and writes are
  refused; `RateBound` is about the calls that Redis counted. A certificate
  answer of Keycloak holds keys or is an error: one that is no JSON is refused
  with 401 as well (`oidc.py:104`), whatever key signed the token, and is left
  out.
- In `CliClient` a call that timed out goes on at the server, so that a write
  may be carried out once per attempt: `WritesCounted` bounds it by that and no
  better bound holds. Chats are cached under Python's per-process hash of the
  message, so no later process finds them. A handler's 403, 404 or 422 is left
  out: it ends the command at its first answer, as a transport error without a
  cached answer does.
- In `Compliance` operators replace, sign, unsign and remove the fixture file
  at any time, and `Load` reads it through the cache by modification time; a
  version keeps its modification time, as a copy or a rename would. `seen`
  remembers the newest trusted version that the process has found. A restart
  forgets both: if the file is unsigned then, nobody is listed. Without a
  configured public key every file is trusted. The weekly screening runs in a
  worker process with a cache of its own, so it scores with any version.
- In `Compliance` a user may get two records from two submissions that overlap,
  and the gate reads the newest. `get_compliance_status`, which expects at most
  one row, then fails. The weights of the AML indicators are one base score per
  participant.
- In `Credentials` a proof is well formed and its Schnorr equation holds exactly
  if its prover knows the secret of the key's point; the unique columns decide
  races. A key is the text that a client sent. Claims and tables compare texts
  (`verifier.py:111`, `116`), and `point_from_hex` makes the point of the text
  (`crypto.py:176`): `PointOf` may give several texts one point, so a key that
  was revoked can be registered and accepted in another spelling.
  `AcceptanceIsEarned` is about one text. Nothing ties a nullifier to its proof:
  the same proof passes again under a fresh nullifier, though `models.py:46`
  speaks of replays. `NullifierOnce` is about nullifiers.
- `Merkle` is about the proofs of absence that the code builds.
  `verify_non_membership` does not check that the two leaves of a proof it is
  given are neighbours.
- In `Events` Redis forgets a message nobody is subscribed for: the listener and
  the streams lose what is published while they reconnect, and
  `DeliveryIsFaithful` speaks of what a subscription was given since it began.
  The CLI's `stream_events` reads its access token once, before its loop
  (`cli/api/events.py:171`): after the token has expired each reconnection is
  refused, sleeps and is refused again (`Refuse`), until the user starts it
  anew. The dashboard's `SseClient` reads a fresh header for each connection, but
  iterates over an asynchronous generator with a plain `for` (120) and never
  yields an event; it is left out.

## 4. Runs

| Run | Checks | Bounds, and why they are enough |
|---|---|---|
| `asset_contract` | `CustodyChain`, `FreezeDiscipline`, `TrailsAreTheLog`, `ImmutableHistory` of the contract; `ReportsAreConsistent`, `NoFalseAlarm` of the report task | four transactions on two assets, three clients, prices at zero and on both sides of the threshold, two report tasks within two seconds: a task reads before and after a freeze cycle, and two reports fall on one file name |
| `fabric_client` | `AnswersAreTruthful`, `RetryCommitsOnce`, `CircuitMatchesCount`, `CircuitTransitions`, `Serializable`, `EveryCallAnswers` | two calls of any function, two attempts each, four transactions, threshold 2, clock up to 2: a call, its orphan and a rival on one version; failures within and beyond one circuit window |
| `asset_saga` | `NoPhantomRows`, `DivergenceIsExplained` | three requests of any kind on one asset, five transactions, every failure and every payload allowed: a tokenisation and two requests that race |
| `saga_guarantee` | `SagaGuarantee` is violated | three requests, one failing commit |
| `tribunal` | `VerdictMatchesDecision`, `SupermajorityDecides`, `VotesAreBinding` | three auditors and votes, two requests at a time, two tallies: the second may reverse the first |
| `agent` | `AnswerShape`, `EveryChatEnds`, `Recovers` | two chats, threshold 2, cooldown 1, one retry: one chat's retry meets the circuit the other opened |
| `sessions` | `LogoutIsFinal`, `ErasureIsFinal` | three requests of which two overlap, two tokens, two logins, a lifespan of one second and a clock of one: a logout or erasure between the steps of a login or another logout, a callback that links an erased row again, and a token in the second of its expiry (one that is past it is refused at once; a longer clock is left to the proofs) |
| `cli` | `RateBound`, `WritesCounted`, `LiveKeyAccepted`; the facts of `Interface` as assumptions | two processes on one keyring, two server tasks, two attempts, limit 1 in a window of 2, two tokens, two keys: refused calls that fill the window, a rotation while a key is cached, a refresh that replaces the other's bundle; tables of up to three rows |
| `compliance` | `GateNeedsApproval`, `DecisionsLogged`, `ListedAreStopped` | one participant, two requests of any kind, submissions at level 1 and approvals at level 3, two versions of the manifest, each signed or not, of which one lists the participant and the other scores critical with the bonus of the amount: a file is replaced, rejected and restored around a check |
| `sar_filed` | `CriticalIsReported` is violated | the same participant, with submissions, approvals and full checks only |
| `credentials` | `NullifierOnce`, `AcceptanceIsEarned`; the tree's proofs on every list of up to seven names as assumptions | one participant, two requests of holders, one text of a key, provers of its point and of another, one nullifier, two credentials: two verifications of one proof, and a revocation between two statements of either (two texts of one point pass as well, in 3.6 million states) |
| `events` | `DeliveryIsFaithful`, `CallbacksAreBounded`, `EventuallyListening` | two operations, the listener and one stream, rate 1, threshold 1, time up to 2: a burst beyond the bucket, an open circuit, a gap around a reconnection, a restart, an expired header |

`fabric_client`, `asset_saga`, `agent`, `sessions`, `cli`, `credentials` and
`events` also check the type invariant of their module. Deadlock is checked in
`cli`, `compliance` and `credentials`, whose requests always come back; in the
other models requests, transactions, time or votes are used up in the end.
Symmetry is used where identifiers are interchangeable, and only in runs without
liveness properties.

The facts of `Interface` are evaluated, not explored: `EndpointsExist` (each
function of `cli/api` calls an endpoint that exists), `CommandsFit`, `PagesFit`,
`SchemasBuilt` and `AnswersBuilt` (exactly which requests and answers do not fit
together), `AlertPages`, `PortfoliosAddUp` and `StatsMatchList` (what the reads
return).

### What the violations show

- `saga_guarantee`: the compensation of an unfreeze carries the reference
  `SAGA-COMP`, which the chaincode rejects; one failed commit leaves the asset
  ACTIF on the ledger and GELE in PostgreSQL. `README.md:58` promises
  automated compensation.
- `sar_filed`: `full_check` files its report under a reason code of 22
  characters, and the column takes 20 (`service.py:102`): the INSERT is refused,
  its exception leaves `full_check` before the decision is logged, and nobody
  learns of a participant above the threshold. The weekly screening's code fits.

### Observed while modelling, without a run

- `CheckMiCAThreshold` sets an event that the handler's own `SetEvent` replaces
  (`compliance.go:112`): no listener sees `MiCAThresholdExceeded`.
- `freeze` may commit on the ledger before the tokenisation it overlaps has
  inserted the row; it then fails without compensating (`assets/service.py:236`).
- Two overlapping commits of one auditor both pass the double-vote check
  (`tribunal/service.py:59`).
- While one probe of a HALF_OPEN breaker runs, every other caller enters too
  (`circuit_breaker.py:93`; its doc says one).
- `transfer` passes price and justification in the order opposite to the
  chaincode's (`assets/service.py:139`).
- `CommandsFit`: eight commands of the CLI lack required fields (valuate,
  kyc_submit, kyc_approve, screening_run, vote_commit, vote_reveal, setup_key,
  verify) and four send fields nobody reads; `--limit` admits values the server
  refuses.
- `AnswersBuilt`: an asset or a trail read from the ledger lacks the fields its
  answer requires after the key conversion; the gRPC asset and valuation answers
  read attributes their rows lack, so `ValuateAsset` commits and then fails;
  `QueryAssets` is given the selector key `owner`, which no record has.
- The docstring of `cli/api/events.py` (15-16) says that the stream's header is
  fetched fresh after a 401; `stream_events` never does (171).
- Draft SARs appear on every page of the alerts, and beyond the limit on none.

### Fairness

`FabricClient!FairSpec` asks for weak fairness of each call's own steps: the
event loop runs ready coroutines and fires timers, so `wait_for` and `sleep`
end. Peers and orderer owe nothing. A call that has not started need not start.

`Agent!AgentFairSpec` asks that time passes and that each chat goes on: its
awaited calls end (the breaker's `wait_for`; a stream ends or breaks off) and
its sleeps fire. `Recovers` is conditional on users who keep asking and eventually stop
leaving, which the code cannot ensure and the property says.

`Events!EventsFairSpec` asks that each operation goes on, that a subscription
asked for is made and that a broken one is retried, the loops of
`events.py` and of the CLI. Redis and Neo4j owe nothing, and
`EventuallyListening` is conditional on the application and Redis staying up. A
stream's header may expire whenever it is not subscribed; the property then
promises no more than that it is refused for good.

## 5. Proofs

All proofs are for arbitrary sets of assets, transactions, clients, requests,
calls, chats, streams, participants and votes and for every value of the limits.
They assume only the named ASSUMEs, which TLC evaluates on the instances:

- data of a module is what the source declares, and a "no value" constant is not
  a value: `ClientAssumption`, `DataAssumption` and `NoAssetAssumption`
  (`Chaincode`), `SagaAssumption`, `AuditAssumption`, `ComplianceAssumption`,
  `CredAssumption`, `NoVoteAssumption`. Two facts of the code are among them:
  `SagaAssumption` says that the reference of the compensation is none that the
  chaincode accepts, and that its text is no number;
- limits are naturals, positive where the code divides by them or counts to
  them: `RetryAssumption`, `BreakerAssumption`, `AgentAssumption`,
  `EventsAssumption`, `GatewayAssumption`, `CliAssumption`,
  `SessionsAssumption`, `TallyAssumption` (which also says that there are
  finitely many votes).

The bounds on time, tokens and attempts (`MaxTime`, `MaxTokens`, ...) are
constants of the modules, so a theorem holds for each value of them.

**`ChaincodeProofs`**: what each handler's write is, as lemmas (types, the
appended record, the fields it touches).

**`AssetContractProofs`**: `TypeCorrect`, `CustodyChainHolds`,
`FreezeDisciplineHolds`, `TransfersCountedHolds`, `SeparationOfDutiesHolds`,
`TrailsAreTheLogHolds`, `HistoryIsImmutable`. Each property is a statement about
one asset's record; the proofs show that appending one record keeps it, once for
each handler, and that other assets are untouched. On top of them
`AuditOnlyReads` (`ASpec => Spec`: an audit never disturbs the contract),
`ReportsConsistent` and `NoFalseAlarms`. The invariant (`JobOK`, `FileOK`) is
that what a task has read is a prefix of what the ledger holds now, which every
step keeps because trails only grow, and that a prefix of a trail the chaincode
can write passes the check.

**`FabricLedgerProofs`**: `LedgerTypeCorrect`, `FreshnessHolds`,
`NoLostUpdateHolds`, and `Refinement` (`LSpec => Serializable`). The invariant is
that an endorsed transaction whose read version is still current was simulated
on the present record (`EndorsedIsFresh`): versions only grow, so a commit makes
every rival stale. With it `Commit` maps to a step of the atomic contract and
all other steps to stuttering. The seven theorems on the contract therefore hold
of the concurrent ledger.
The client: `ClientTypeCorrect`, `ClientRunsTheLedger` (`Spec => LSpec`), hence
`ClientIsSerializable`; `CircuitMatches` and `CircuitMoves` for the shared
circuit; `AnswersTruthful`, about the chaincode's own verdicts, and
`RetriesCommitOnce`. The invariant `FCInv` ties
each call to its processes (`CallOK`: an attempt is a process of its own, and a
call that never timed out has started no other; `TxOK`: a transaction carries
the request of the call that started it) and counts commits against the state of
the asset (`Counts`: one tokenisation if the asset exists, and one freeze more
than unfreezes exactly while it is frozen). The bound on retried freezes is that
count.

**`AssetSagaProofs`**: `SagaTypeCorrect`, `NothingPhantom`, `DivergenceExplained`.
`BaseInv` says what a request holds between two awaits: the row its session
loaded is of a row that still exists (`RowHeld`), and once its submission has
committed the ledger has the record under the TxID it got (`Landed`); the ledger
only appends, so this outlives every other request. While nothing was disturbed
(`InTurn`) at most one request is active, and each asset agrees in both stores,
or the active request is the reason why not, or a request ended that explains
it: a failure that was logged, or a submission without a payload.

**`CircuitBreakerProofs`**: `CountMatchesStateHolds` for any number of callers;
`EventsTypeCorrect`, `DeliveryFaithful` and `CallbacksBounded` of `Events`,
`AgentTypeCorrect` and `AnswersWellShaped` of `Agent`.
`EvInv` has three parts. `OpsOK`: an operation is written to the graph when it
leaves "query" and published when it becomes "done", neither of which is undone.
`SubsOK`: the messages a subscription read, then those that wait for it, are
those published since it began, position by position. `BucketOK` is the
strengthening that the bound needs: for every past callback, the callbacks since
it *plus what a refill would allow now* stay within the rate plus the time
passed, so that idle time is spent once.
`AgInv`: while a chat is open its client has seen texts and notices only, as
many notices as retries, and no text directly after a text; the end of a chat
appends one outcome.

**`CredentialsProofs`**: `ComplianceGate`, `GateIsLogged`, `ListedStopped` of
`Compliance`; `CredentialTypes`, `NullifierIsSpentOnce`, `AcceptanceEarned` of
`Credentials`; `SessionTypesHold`, `LogoutFinal`, `ErasureFinal` of `Sessions`.
`CompIInv` says that a record with the required level belongs to a participant
who was granted it, that a check past the KYC step found one, that a request has
written no log row before it ends, and that memory holds the newest trusted
manifest found, with its modification time (`FixturesOK`): that is why a file of
the same time need not be read again. `ZIInv` adds that a claim in a credential was granted, that
a row of `zkp_nullifiers` goes with each acceptance, and that a verification
that read a credential read one that was not revoked when it began.
`SeInv` says that the blacklist key of a token whose logout is past its first
write or answered expires no earlier than the token (`Covered`), and that a
request that began after the answer and read no key read it after the expiry
(`Caught`). Time only passes and keys are only replaced by later ones (`Grows`),
so it is kept for every other request at once. The mark plays no part: other
logouts and erasures overwrite it.

**`CliClientProofs`**: `RateBoundHolds`, `LiveKeyIsAccepted` of `Gateway`;
`CliTypeCorrect`, `WritesCountedHolds` of `CliClient`. `RateInv`: the calls let
through are among those that the sorted set counts. `GInv`: a key fetched under
the lock is no older than the one that signed the token that asked for it.
`CInv` contains the budget behind `WritesCounted`: effects done, calls still at
work and the call that the command may yet send are together at most the number
of attempts.

**`TribunalProofs`**: `TribunalTypeCorrect`, `VerdictsHold`, `SupermajorityHolds`,
`VotesBind`. The inductive invariant `IInv` says what a request holds between two
of its statements (`Holding`): an opening that passed the check fits the hash of
its vote, which never changes, so a second reveal writes what is already there;
the rows of a tally are revealed votes whose revealed value is still the stored
one. `RevealsFit` ties a revealed vote to its hash, and `AloneIsCurrent` says
that a tally running alone holds every vote ever judged with its present flags.
The latter is what makes the flags it flushes, though only where they differ,
add up to a consistent verdict; two overlapping tallies destroy it, hence the
premise `~overlap` of both verdict properties.

TLC also checked `EvInv`, `AgInv` and `SeInv` on the runs' instances before they
were proved. `SeparationOfDuties`, `TransfersCounted`, `EndorsedIsFresh`,
`NoLostUpdate`, `CountMatchesState`, `CompTypeOK` and the type invariants of the
contract, the ledger and the Tribunal are proved and not model-checked again.

Only model-checked: the liveness properties `EveryCallAnswers`, `EveryChatEnds`,
`Recovers` and `EventuallyListening`, since the prover does not handle fairness
and ENABLED. `Merkle` and `Interface` are evaluated on bounded inputs: what they
compute on every input needs induction over data. The two violated properties
are counterexamples.

## 6. Not modelled

`PROJECT.json` gives the reason for each part. In short:

- homomorphic scoring and the curve arithmetic of the credentials are
  computation without control;
- the wallet reads key files and keeps nothing;
- fraud detection's queries run inside Neo4j; only its ingestion is control;
- the layout of the PDF reports, the terminal interface, logging, metrics,
  generated gRPC code, deployment, seeds and simulations carry no protocol;
- within modelled parts: `process_fabric_event`, whose INSERT names a column the
  table lacks; the trigger that flags high-risk assets; the schedules of the
  periodic tasks. `get_sanctions_tree` keeps its first tree until the process
  ends and no check of a credential reads it: the tree is the subject of
  `Merkle` alone.
