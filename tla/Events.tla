------------------------------- MODULE Events --------------------------------
(***************************************************************************)
(* What happens after an asset operation has committed, and who hears of   *)
(* it: ingestion into Neo4j behind neo4j_breaker                           *)
(* (fraud_detection/neo4j_sync.py), publication on the Redis channel       *)
(* asset:events, the Fabric event listener with its token bucket           *)
(* (fabric_client/events.py), the SSE streams of features/events/router.py *)
(* as the CLI's stream_events reads them, and the start-up and shutdown of *)
(* the application (main.py).                                              *)
(*                                                                         *)
(* A message is the operation it announces.  One unit of time is the time  *)
(* in which the bucket gains one token.  Redis keeps a message for the     *)
(* subscriptions that are alive when it is published, and for nobody else. *)
(***************************************************************************)
EXTENDS CircuitBreaker, Sequences, SequencesExt

CONSTANTS
  KindOf,    \* the kind of each committed operation (Tasks are operations)
  Streams,   \* CLI processes that follow the event stream
  Listener,  \* the FabricEventListener's task
  Rate,      \* fabric_events_rate_limit
  MaxTime    \* bound on the clock

OpKinds == {"tokenize", "transfer", "freeze", "unfreeze"}
Subs == Streams \cup {Listener}

ASSUME EventsAssumption ==
  /\ KindOf \in [Tasks -> OpKinds] /\ Listener \notin Streams
  /\ Rate \in Nat \ {0} /\ MaxTime \in Nat

VARIABLES
  running,    \* the application is between start-up and shutdown
  step,       \* where each operation is after its commit
  driver,     \* whether Neo4jClient._driver is set
  graph,      \* relationships in Neo4j that record each operation
  redisUp,    \* Redis answers (environment)
  published,  \* messages Redis has accepted
  conn,       \* what each subscriber believes: "off", "wait" or "open";
              \* "refused": a stream whose Authorization header has expired
  alive,      \* subscriptions that Redis serves
  since,      \* number of messages published before a subscription began
  buf,        \* messages a subscription has not read yet
  got,        \* messages it has read
  tokens,     \* _tokens
  elapsed,    \* time since _last_token_update, as far as it matters
  clock,      \* time since start-up
  calls       \* when the listener ran its callbacks

opVars == <<step, driver, graph>>
subVars == <<conn, alive, since, buf, got>>
bucket == <<tokens, elapsed, clock, calls>>
evVars == <<vars, running, opVars, redisUp, published, subVars, bucket>>

EventsInit ==
  /\ Init
  /\ running = FALSE
  /\ step = [t \in Tasks |-> "idle"]
  /\ driver = FALSE /\ graph = [t \in Tasks |-> 0]
  /\ redisUp = TRUE /\ published = <<>>
  /\ conn = [x \in Subs |-> "off"] /\ alive = {}
  /\ since = [x \in Subs |-> 0]
  /\ buf = [x \in Subs |-> <<>>] /\ got = [x \in Subs |-> <<>>]
  /\ tokens = Rate /\ elapsed = 0 /\ clock = 0 /\ calls = <<>>

Goto(t, s) == step' = [step EXCEPT ![t] = s]

(* Subscriptions end, and what they had not read is lost.                  *)
Forget(X) ==
  /\ since' = [x \in Subs |-> IF x \in X THEN 0 ELSE since[x]]
  /\ buf' = [x \in Subs |-> IF x \in X THEN <<>> ELSE buf[x]]
  /\ got' = [x \in Subs |-> IF x \in X THEN <<>> ELSE got[x]]

-----------------------------------------------------------------------------
(* lifespan up to yield: every check of a dependency is non-fatal; Neo4j   *)
(* is connected or not, and a new listener with a full bucket is started.  *)
Boot ==
  /\ ~running /\ running' = TRUE
  /\ driver' \in BOOLEAN
  /\ conn' = [conn EXCEPT ![Listener] = "wait"]
  /\ tokens' = Rate /\ elapsed' = 0 /\ clock' = 0 /\ calls' = <<>>
  /\ UNCHANGED <<vars, step, graph, redisUp, published, alive, since, buf, got>>

(* lifespan after yield: requests have ended, the listener is cancelled    *)
(* and every connection closed.  Streams see the connection go.            *)
Shutdown ==
  /\ running /\ running' = FALSE
  /\ \A t \in Tasks : step[t] \in {"idle", "done"}
  /\ conn' = [x \in Subs |-> IF x = Listener THEN "off"
                             ELSE IF conn[x] = "open" THEN "wait" ELSE conn[x]]
  /\ alive' = {} /\ driver' = FALSE
  /\ Forget(Subs)
  /\ UNCHANGED <<vars, step, graph, redisUp, published, bucket>>

-----------------------------------------------------------------------------
(* The ledger and PostgreSQL have committed.  Only transfer and freeze     *)
(* have an edge in the graph.                                              *)
Commit(t) ==
  /\ running /\ step[t] = "idle"
  /\ Goto(t, IF KindOf[t] \in {"transfer", "freeze"} THEN "connect"
             ELSE "publish")
  /\ UNCHANGED <<vars, running, driver, graph, redisUp, published, subVars, bucket>>

(* Neo4jClient.connect: a driver object counts as a connection even while  *)
(* another request is still verifying it.                                  *)
Connect(t) ==
  /\ step[t] = "connect"
  /\ driver' = TRUE
  /\ Goto(t, IF driver THEN "ingest" ELSE "verify")
  /\ UNCHANGED <<vars, running, graph, redisUp, published, subVars, bucket>>

Verify(t) ==
  /\ step[t] = "verify"
  /\ driver' \in BOOLEAN
  /\ Goto(t, "ingest")
  /\ UNCHANGED <<vars, running, graph, redisUp, published, subVars, bucket>>

(* ingest_transaction, ingest_freeze: without a driver, or with an open    *)
(* circuit, nothing is written, and nothing writes it later.               *)
SkipIngest(t) ==
  /\ step[t] = "ingest" /\ (~driver \/ MustReject)
  /\ Goto(t, "publish")
  /\ UNCHANGED <<vars, running, driver, graph, redisUp, published, subVars, bucket>>

Ingest(t) ==
  /\ step[t] = "ingest" /\ driver
  /\ Enter(t)
  /\ Goto(t, "query")
  /\ UNCHANGED <<running, driver, graph, redisUp, published, subVars, bucket>>

Ingested(t) ==
  /\ step[t] = "query"
  /\ Succeed(t)
  /\ graph' = [graph EXCEPT ![t] = @ + 1]
  /\ Goto(t, "publish")
  /\ UNCHANGED <<running, driver, redisUp, published, subVars, bucket>>

IngestFailsMutant(t) ==
  /\ step[t] = "query"
  /\ RecordFailure(t)
  /\ \E written \in {0, 1} : graph' = [graph EXCEPT ![t] = @ + written]
  /\ Goto(t, "ingest")
  /\ UNCHANGED <<running, driver, redisUp, published, subVars, bucket>>

(* The query raised or timed out, maybe after Neo4j had applied it.  The   *)
(* error is logged and the operation goes on.                              *)
IngestFails(t) ==
  /\ step[t] = "query"
  /\ RecordFailure(t)
  /\ \E written \in {0, 1} : graph' = [graph EXCEPT ![t] = @ + written]
  /\ Goto(t, "publish")
  /\ UNCHANGED <<running, driver, redisUp, published, subVars, bucket>>

(* _publish_event: one try; a failure is logged and the event is lost.     *)
Publish(t) ==
  /\ step[t] = "publish" /\ redisUp
  /\ published' = Append(published, t)
  /\ buf' = [x \in Subs |-> IF x \in alive THEN Append(buf[x], t) ELSE buf[x]]
  /\ Goto(t, "done")
  /\ UNCHANGED <<vars, running, driver, graph, redisUp, conn, alive, since, got, bucket>>

PublishFails(t) ==
  /\ step[t] = "publish" /\ ~redisUp
  /\ Goto(t, "done")
  /\ UNCHANGED <<vars, running, driver, graph, redisUp, published, subVars, bucket>>

-----------------------------------------------------------------------------
(* A new subscription: the listener after its reconnect delay, a stream    *)
(* when its request is accepted.  It begins with the next message.         *)
Subscribe(x) ==
  /\ running /\ redisUp /\ conn[x] = "wait"
  /\ conn' = [conn EXCEPT ![x] = "open"]
  /\ alive' = alive \cup {x}
  /\ since' = [since EXCEPT ![x] = Len(published)]
  /\ UNCHANGED <<vars, running, opVars, redisUp, published, buf, got, bucket>>

ReconnectMutant(x) ==
  /\ conn[x] = "open" /\ x \notin alive
  /\ conn' = [conn EXCEPT ![x] = IF x = Listener THEN "off" ELSE "wait"]
  /\ Forget({x})
  /\ UNCHANGED <<vars, running, opVars, redisUp, published, alive, bucket>>

(* Reading fails because Redis dropped the subscription: the listener      *)
(* sleeps, a stream sends ERROR and ends and the CLI connects again.  What *)
(* was not read is lost.                                                   *)
Reconnect(x) ==
  /\ conn[x] = "open" /\ x \notin alive
  /\ conn' = [conn EXCEPT ![x] = "wait"]
  /\ Forget({x})
  /\ UNCHANGED <<vars, running, opVars, redisUp, published, alive, bucket>>

(* stream_events reads the access token once, before its loop: from the    *)
(* first 401 for an expired token on, it sleeps and is refused again.      *)
Refuse(s) ==
  /\ running /\ conn[s] = "wait"
  /\ conn' = [conn EXCEPT ![s] = "refused"]
  /\ UNCHANGED <<vars, running, opVars, redisUp, published, alive, since, buf, got, bucket>>

(* stream_events starts, or its user ends it and the generator's finally   *)
(* block unsubscribes.                                                     *)
Follow(s) ==
  /\ conn[s] = "off"
  /\ conn' = [conn EXCEPT ![s] = "wait"]
  /\ UNCHANGED <<vars, running, opVars, redisUp, published, alive, since, buf, got, bucket>>

InterruptMutant(s) ==
  /\ conn[s] # "off"
  /\ conn' = [conn EXCEPT ![s] = "off"]
  /\ Forget({s})
  /\ UNCHANGED <<vars, running, opVars, redisUp, published, alive, bucket>>

Interrupt(s) ==
  /\ conn[s] # "off"
  /\ conn' = [conn EXCEPT ![s] = "off"] /\ alive' = alive \ {s}
  /\ Forget({s})
  /\ UNCHANGED <<vars, running, opVars, redisUp, published, bucket>>

Read(x) ==
  /\ conn[x] = "open" /\ buf[x] # <<>>
  /\ got' = [got EXCEPT ![x] = Append(@, Head(buf[x]))]
  /\ buf' = [buf EXCEPT ![x] = Tail(@)]
  /\ UNCHANGED <<vars, running, opVars, redisUp, published, conn, alive, since>>

(* The SSE generator turns a message into one data frame.                  *)
Deliver(s) == Read(s) /\ UNCHANGED bucket

Cap(n) == IF n > Rate THEN Rate ELSE n

(* _acquire_rate_limit_token, then the callbacks; an event that finds no   *)
(* token is dropped.                                                       *)
RefillMutant == tokens + elapsed

Refill == Cap(tokens + elapsed)

Handle ==
  /\ Read(Listener)
  /\ elapsed' = 0
  /\ IF Refill >= 1
     THEN tokens' = Refill - 1 /\ calls' = Append(calls, clock)
     ELSE tokens' = Refill /\ UNCHANGED calls
  /\ UNCHANGED clock

-----------------------------------------------------------------------------
RedisFails ==
  /\ redisUp /\ redisUp' = FALSE /\ alive' = {}
  /\ UNCHANGED <<vars, running, opVars, published, conn, since, buf, got, bucket>>

RedisReturns ==
  /\ ~redisUp /\ redisUp' = TRUE
  /\ UNCHANGED <<vars, running, opVars, published, subVars, bucket>>

Time ==
  /\ clock < MaxTime /\ clock' = clock + 1
  /\ elapsed' = elapsed + 1
  /\ cooling' = IF cooling > 0 THEN cooling - 1 ELSE 0
  /\ UNCHANGED <<state, failure_count, pc, up, running, opVars, redisUp,
                 published, subVars, tokens, calls>>

Operate(t) ==
  \/ Connect(t) \/ Verify(t) \/ SkipIngest(t) \/ Ingest(t) \/ Ingested(t)
  \/ IngestFails(t) \/ Publish(t) \/ PublishFails(t)

EventsNext ==
  \/ Boot \/ Shutdown
  \/ \E t \in Tasks : Commit(t) \/ Operate(t)
  \/ \E x \in Subs : Subscribe(x) \/ Reconnect(x)
  \/ \E s \in Streams : Refuse(s) \/ Follow(s) \/ Interrupt(s) \/ Deliver(s)
  \/ Handle
  \/ RedisFails \/ RedisReturns \/ Time

EventsSpec == EventsInit /\ [][EventsNext]_evVars

(* The event loop runs ready coroutines, reconnect delays end, wait_for    *)
(* and the driver's time-outs end a query, and a closed socket is noticed. *)
EventsFairSpec ==
  /\ EventsSpec
  /\ \A t \in Tasks : WF_evVars(Operate(t))
  /\ \A x \in Subs : WF_evVars(Subscribe(x)) /\ WF_evVars(Reconnect(x))

-----------------------------------------------------------------------------
(* Type correctness; the bucket never holds more than its rate.            *)
EventsTypeOK ==
  /\ TypeOK
  /\ running \in BOOLEAN /\ redisUp \in BOOLEAN
  /\ step \in [Tasks -> {"idle", "connect", "verify", "ingest", "query",
                         "publish", "done"}]
  /\ driver \in BOOLEAN
  /\ graph \in [Tasks -> Nat] /\ published \in Seq(Tasks)
  /\ conn \in [Subs -> {"off", "wait", "open", "refused"}]
  /\ alive \subseteq {x \in Subs : conn[x] = "open"}
  /\ since \in [Subs -> 0..Len(published)]
  /\ buf \in [Subs -> Seq(Tasks)] /\ got \in [Subs -> Seq(Tasks)]
  /\ tokens \in 0..Rate /\ elapsed \in 0..MaxTime /\ clock \in 0..MaxTime
  /\ calls \in Seq(0..MaxTime)

(* What x's present subscription has been given, read or not.              *)
Given(x) == got[x] \o buf[x]
Missed(x) == SubSeq(published, since[x] + 1, Len(published))

(***************************************************************************)
(* Each effect of an operation is felt at most once and in order, through  *)
(* outages of Redis and Neo4j, reconnections and restarts: no operation is *)
(* published twice or has two edges in the graph, and what a subscription  *)
(* has been given is what was published since it began, all of it while    *)
(* Redis serves it and an initial part once Redis has dropped it.          *)
(***************************************************************************)
DeliveryIsFaithful ==
  /\ \A t \in Tasks : graph[t] <= 1
  /\ IsInjective(published)
  /\ \A x \in Subs : conn[x] = "open" =>
       IF x \in alive THEN Given(x) = Missed(x)
       ELSE IsPrefix(Given(x), Missed(x))

(* The token bucket bounds every window, bursts after an idle time         *)
(* included: in any period the listener runs at most Rate callbacks more   *)
(* than the period has units of time.                                      *)
CallbacksAreBounded ==
  \A i, j \in DOMAIN calls : i <= j =>
    (j - i) + 1 <= Rate + (calls[j] - calls[i])

(* Once the application and Redis stay up, the listener is subscribed for  *)
(* good, every operation ends, and a stream that is followed is subscribed *)
(* for good unless its header expires while it is not: then it is refused  *)
(* for good, until its user starts it again.                               *)
EventuallyListening ==
  <>[](running /\ redisUp) =>
    /\ <>[](conn[Listener] = "open" /\ Listener \in alive)
    /\ \A s \in Streams : <>[](conn[s] # "off") =>
         <>[](s \in alive) \/ <>[](conn[s] = "refused")
    /\ \A t \in Tasks : step[t] # "idle" ~> step[t] = "done"
=============================================================================
