------------------------ MODULE CircuitBreakerProofs -------------------------
(***************************************************************************)
(* The breaker and its two users.  The breaker's counter and state agree   *)
(* for any number of overlapping calls, any threshold and any cooldown:    *)
(* TypeOK and CountMatchesState are inductive together.  The events built  *)
(* on it are delivered faithfully and within the token bucket, for any     *)
(* number of operations and streams and any rate; and the agent's answers  *)
(* keep their shape, for any number of chats and retries.                  *)
(***************************************************************************)
EXTENDS Events, Agent, SequenceTheorems, FiniteSetTheorems, TLAPS

IInv == TypeOK /\ CountMatchesState

LEMMA InitIInv == Init => IInv
<1> SUFFICES ASSUME Init
             PROVE  IInv
  OBVIOUS
<1>1. 0 \in 0..Threshold /\ 0 \in 0..Cooldown /\ 0 < Threshold
  BY BreakerAssumption
<1>2. pc \in [Tasks -> {"out", "in"}]
  BY DEF Init
<1>3. QED
  BY <1>1, <1>2 DEF Init, IInv, TypeOK, CountMatchesState, States

LEMMA LeaveType ==
  ASSUME TypeOK, NEW t \in Tasks, Leave(t)
  PROVE  pc' \in [Tasks -> {"out", "in"}]
BY DEF TypeOK, Leave

LEMMA EnterIInv ==
  ASSUME IInv, NEW t \in Tasks, Enter(t)
  PROVE  IInv'
<1>1. pc' \in [Tasks -> {"out", "in"}]
  BY DEF IInv, TypeOK, Enter
<1>2. QED
  BY <1>1, BreakerAssumption
     DEF IInv, TypeOK, CountMatchesState, Enter, States

LEMMA SucceedIInv ==
  ASSUME IInv, NEW t \in Tasks, Succeed(t)
  PROVE  IInv'
<1>1. pc' \in [Tasks -> {"out", "in"}]
  BY LeaveType DEF IInv, Succeed
<1>2. QED
  BY <1>1, BreakerAssumption
     DEF IInv, TypeOK, CountMatchesState, Succeed, States

LEMMA RecordFailureIInv ==
  ASSUME IInv, NEW t \in Tasks, RecordFailure(t)
  PROVE  IInv'
<1>1. pc' \in [Tasks -> {"out", "in"}]
  BY LeaveType DEF IInv, RecordFailure
<1>2. CountUp \in 1..Threshold
  BY BreakerAssumption DEF IInv, TypeOK, CountUp
<1>3. CASE state = "HALF_OPEN" \/ CountUp >= Threshold
  BY <1>1, <1>2, <1>3, BreakerAssumption
     DEF IInv, TypeOK, CountMatchesState, RecordFailure, States
<1>4. CASE ~(state = "HALF_OPEN" \/ CountUp >= Threshold)
  BY <1>1, <1>2, <1>4, BreakerAssumption
     DEF IInv, TypeOK, CountMatchesState, RecordFailure, States
<1>5. QED
  BY <1>3, <1>4

LEMMA CancelIInv ==
  ASSUME IInv, NEW t \in Tasks, Cancel(t)
  PROVE  IInv'
<1>1. pc' \in [Tasks -> {"out", "in"}]
  BY LeaveType DEF IInv, Cancel
<1>2. QED
  BY <1>1 DEF IInv, TypeOK, CountMatchesState, Cancel

LEMMA EnvironmentIInv ==
  ASSUME IInv, Tick \/ Recover
  PROVE  IInv'
<1>1. CASE Tick
  BY <1>1, BreakerAssumption DEF IInv, TypeOK, CountMatchesState, Tick
<1>2. CASE Recover
  BY <1>2 DEF IInv, TypeOK, CountMatchesState, Recover
<1>3. QED
  BY <1>1, <1>2

LEMMA StepIInv == IInv /\ [Next]_vars => IInv'
<1> SUFFICES ASSUME IInv, [Next]_vars
             PROVE  IInv'
  OBVIOUS
<1>1. CASE Next
  BY <1>1, EnterIInv, SucceedIInv, RecordFailureIInv, CancelIInv,
     EnvironmentIInv DEF Next
<1>2. CASE UNCHANGED vars
  BY <1>2 DEF vars, IInv, TypeOK, CountMatchesState
<1>3. QED
  BY <1>1, <1>2

(* A CLOSED breaker is below its threshold and one that is not CLOSED has  *)
(* counted a failure since the last success (call and _record_failure).    *)
THEOREM CountMatchesStateHolds == Spec => []CountMatchesState
<1>1. IInv => CountMatchesState
  BY DEF IInv
<1>2. QED
  BY <1>1, InitIInv, StepIInv, PTL DEF Spec

-----------------------------------------------------------------------------
(* Events.  The invariant has a part for the operations, one for the       *)
(* subscriptions and one for the token bucket.                             *)

EvSteps == {"idle", "connect", "verify", "ingest", "query", "publish", "done"}
Before == {"idle", "connect", "verify", "ingest", "query"}

(* An operation is written to the graph when it leaves "query" and         *)
(* published when it becomes "done", which no step undoes.                 *)
OpsOK ==
  /\ step \in [Tasks -> EvSteps] /\ driver \in BOOLEAN
  /\ graph \in [Tasks -> {0, 1}]
  /\ \A t \in Tasks : step[t] \in Before => graph[t] = 0
  /\ published \in Seq(Tasks)
  /\ \A i \in 1..Len(published) : step[published[i]] = "done"
  /\ \A i, j \in 1..Len(published) : published[i] = published[j] => i = j

(* The messages read and then the messages waiting are those published     *)
(* since the subscription began, one by one.                               *)
FedInOrder(x) ==
  /\ since[x] \in 0..Len(published)
  /\ since[x] + Len(got[x]) + Len(buf[x]) <= Len(published)
  /\ x \in alive => since[x] + Len(got[x]) + Len(buf[x]) = Len(published)
  /\ \A i \in 1..Len(got[x]) : got[x][i] = published[since[x] + i]
  /\ \A i \in 1..Len(buf[x]) :
       buf[x][i] = published[since[x] + Len(got[x]) + i]

Blank(x) == since[x] = 0 /\ got[x] = <<>> /\ buf[x] = <<>>

SubsOK ==
  /\ running \in BOOLEAN /\ redisUp \in BOOLEAN
  /\ conn \in [Subs -> {"off", "wait", "open", "refused"}]
  /\ alive \subseteq Subs
  /\ \A x \in alive : conn[x] = "open"
  /\ since \in [Subs -> Nat]
  /\ buf \in [Subs -> Seq(Tasks)] /\ got \in [Subs -> Seq(Tasks)]
  /\ \A x \in Subs : conn[x] # "open" => Blank(x)
  /\ \A x \in Subs : FedInOrder(x)
  /\ ~running => \A x \in Subs : conn[x] # "open"

(* Callbacks since calls[i], and those the bucket still allows now.        *)
BucketOK ==
  /\ tokens \in 0..Rate /\ elapsed \in Nat /\ clock \in 0..MaxTime
  /\ elapsed <= clock
  /\ calls \in Seq(0..MaxTime)
  /\ \A i \in 1..Len(calls) :
       /\ calls[i] <= clock
       /\ (Len(calls) - i) + 1 + Refill <= Rate + (clock - calls[i])
  /\ \A i, j \in 1..Len(calls) : i <= j =>
       (j - i) + 1 <= Rate + (calls[j] - calls[i])

EvInv == IInv /\ OpsOK /\ SubsOK /\ BucketOK

LEMMA EvInitInv ==
  ASSUME EventsInit
  PROVE  EvInv
<1>1. IInv
  BY InitIInv DEF EventsInit
<1>2. OpsOK
  <2>1. published = <<>> /\ published \in Seq(Tasks) /\ Len(published) = 0
    BY DEF EventsInit
  <2>2. /\ step \in [Tasks -> EvSteps] /\ driver \in BOOLEAN
        /\ graph \in [Tasks -> {0, 1}] /\ \A t \in Tasks : graph[t] = 0
    BY DEF EventsInit, EvSteps
  <2>3. QED
    BY <2>1, <2>2 DEF OpsOK
<1>3. SubsOK
  <2>1. /\ running = FALSE /\ redisUp = TRUE /\ alive = {}
        /\ conn \in [Subs -> {"off", "wait", "open", "refused"}]
        /\ since \in [Subs -> Nat]
    BY DEF EventsInit
  <2>2. buf \in [Subs -> Seq(Tasks)] /\ got \in [Subs -> Seq(Tasks)]
    BY DEF EventsInit
  <2>3. ASSUME NEW x \in Subs
        PROVE  conn[x] = "off" /\ Blank(x)
    BY DEF EventsInit, Blank
  <2>4. ASSUME NEW x \in Subs
        PROVE  FedInOrder(x)
    <3>1. /\ Len(got[x]) = 0 /\ Len(buf[x]) = 0 /\ since[x] = 0
          /\ Len(published) = 0
      BY <2>3 DEF EventsInit, Blank
    <3>2. QED
      BY <2>1, <3>1 DEF FedInOrder
  <2>5. QED
    BY <2>1, <2>2, <2>3, <2>4 DEF SubsOK
<1>4. BucketOK
  BY EventsAssumption DEF EventsInit, BucketOK
<1>5. QED
  BY <1>1, <1>2, <1>3, <1>4 DEF EvInv

(* The breaker: every step is one of its own, or leaves it alone.          *)
LEMMA BreakerKept ==
  ASSUME IInv, UNCHANGED vars
  PROVE  IInv'
BY DEF vars, IInv, TypeOK, CountMatchesState

LEMMA EvBreaker ==
  ASSUME IInv, [EventsNext]_evVars
  PROVE  IInv'
<1>1. CASE UNCHANGED evVars
  BY <1>1, BreakerKept DEF evVars
<1>2. CASE Boot \/ Shutdown
  BY <1>2, BreakerKept DEF Boot, Shutdown
<1>3. ASSUME NEW t \in Tasks, Commit(t) \/ Operate(t)
      PROVE  IInv'
  <2>1. CASE Ingest(t)
    BY <2>1, EnterIInv DEF Ingest
  <2>2. CASE Ingested(t)
    BY <2>2, SucceedIInv DEF Ingested
  <2>3. CASE IngestFails(t)
    BY <2>3, RecordFailureIInv DEF IngestFails
  <2>4. CASE \/ Commit(t) \/ Connect(t) \/ Verify(t) \/ SkipIngest(t)
             \/ Publish(t) \/ PublishFails(t)
    BY <2>4, BreakerKept
    DEF Commit, Connect, Verify, SkipIngest, Publish, PublishFails
  <2>5. QED
    BY <1>3, <2>1, <2>2, <2>3, <2>4 DEF Operate
<1>4. ASSUME NEW x \in Subs, Subscribe(x) \/ Reconnect(x)
      PROVE  IInv'
  BY <1>4, BreakerKept DEF Subscribe, Reconnect
<1>5. ASSUME NEW s \in Streams, Refuse(s) \/ Follow(s) \/ Interrupt(s) \/ Deliver(s)
      PROVE  IInv'
  BY <1>5, BreakerKept DEF Refuse, Follow, Interrupt, Deliver, Read
<1>6. CASE Handle \/ RedisFails \/ RedisReturns
  BY <1>6, BreakerKept DEF Handle, Read, RedisFails, RedisReturns
<1>7. CASE Time
  BY <1>7, BreakerAssumption DEF Time, IInv, TypeOK, CountMatchesState
<1>8. QED
  BY <1>1, <1>2, <1>3, <1>4, <1>5, <1>6, <1>7 DEF EventsNext

(* The operations.                                                         *)
LEMMA OpsKept ==
  ASSUME OpsOK, step' = step, graph' = graph, published' = published,
         driver' \in BOOLEAN
  PROVE  OpsOK'
BY DEF OpsOK

(* An operation that is not published moves on, to a step before its       *)
(* publication, or at the query's end to the publication.                  *)
LEMMA OpsMove ==
  ASSUME OpsOK, NEW t \in Tasks, NEW s \in EvSteps, step[t] \in EvSteps \ {"done"},
         Goto(t, s), published' = published, driver' \in BOOLEAN,
         NEW n \in {0, 1}, graph' = [graph EXCEPT ![t] = n],
         s \in Before => n = 0
  PROVE  OpsOK'
<1>1. /\ step' = [step EXCEPT ![t] = s]
      /\ \A i \in 1..Len(published) : published[i] # t
      /\ \A i \in 1..Len(published) : published[i] \in Tasks
  BY DEF Goto, OpsOK
<1>2. /\ step' \in [Tasks -> EvSteps] /\ graph' \in [Tasks -> {0, 1}]
      /\ \A u \in Tasks : step'[u] \in Before => graph'[u] = 0
  BY <1>1 DEF OpsOK
<1>3. \A i \in 1..Len(published') : step'[published'[i]] = "done"
  BY <1>1 DEF OpsOK
<1>4. QED
  BY <1>2, <1>3 DEF OpsOK

LEMMA PublishOps ==
  ASSUME OpsOK, NEW t \in Tasks, Publish(t)
  PROVE  OpsOK'
<1>1. /\ step[t] = "publish" /\ step' = [step EXCEPT ![t] = "done"]
      /\ published' = Append(published, t) /\ graph' = graph
      /\ driver' = driver
  BY DEF Publish, Goto
<1>2. /\ published \in Seq(Tasks) /\ step \in [Tasks -> EvSteps]
      /\ \A i \in 1..Len(published) : step[published[i]] = "done"
      /\ \A i, j \in 1..Len(published) : published[i] = published[j] => i = j
  BY DEF OpsOK
<1>3. /\ published' \in Seq(Tasks) /\ Len(published') = Len(published) + 1
      /\ \A i \in 1..Len(published) : published'[i] = published[i]
      /\ published'[Len(published) + 1] = t
      /\ Len(published) \in Nat
  BY <1>1, <1>2
<1>4. \A i \in 1..Len(published) : published[i] # t /\ published[i] \in Tasks
  BY <1>1, <1>2
<1>5. \A i \in 1..Len(published') : step'[published'[i]] = "done"
  <2>1. SUFFICES ASSUME NEW i \in 1..Len(published')
                 PROVE  step'[published'[i]] = "done"
    OBVIOUS
  <2>2. CASE i = Len(published) + 1
    BY <1>1, <1>2, <1>3, <2>2
  <2>3. CASE i \in 1..Len(published)
    BY <1>1, <1>2, <1>3, <1>4, <2>3
  <2>4. QED
    BY <1>3, <2>2, <2>3
<1>6. \A i, j \in 1..Len(published') : published'[i] = published'[j] => i = j
  BY <1>2, <1>3, <1>4
<1>7. /\ step' \in [Tasks -> EvSteps]
      /\ \A u \in Tasks : step'[u] \in Before => graph'[u] = 0
  BY <1>1 DEF OpsOK, EvSteps, Before
<1>8. QED
  BY <1>1, <1>3, <1>5, <1>6, <1>7 DEF OpsOK

LEMMA EvOps ==
  ASSUME OpsOK, [EventsNext]_evVars
  PROVE  OpsOK'
<1>1. CASE UNCHANGED evVars
  BY <1>1, OpsKept DEF evVars, opVars, OpsOK
<1>2. CASE Boot \/ Shutdown
  BY <1>2, OpsKept DEF Boot, Shutdown
<1>3. ASSUME NEW t \in Tasks, Commit(t) \/ Operate(t)
      PROVE  OpsOK'
  <2>1. /\ graph \in [Tasks -> {0, 1}] /\ graph[t] \in {0, 1}
        /\ graph = [graph EXCEPT ![t] = graph[t]]
        /\ step[t] \in Before => graph[t] = 0
        /\ driver \in BOOLEAN
    BY DEF OpsOK
  <2>2. CASE Commit(t)
    <3>1. PICK s \in {"connect", "publish"} : Goto(t, s)
      BY <2>2 DEF Commit
    <3>2. QED
      BY <2>1, <2>2, <3>1, OpsMove DEF Commit, EvSteps, Before
  <2>3. CASE Connect(t)
    <3>1. PICK s \in {"ingest", "verify"} : Goto(t, s)
      BY <2>3 DEF Connect
    <3>2. QED
      BY <2>1, <2>3, <3>1, OpsMove DEF Connect, EvSteps, Before
  <2>4. CASE Verify(t) \/ SkipIngest(t) \/ Ingest(t)
    BY <2>1, <2>4, OpsMove DEF Verify, SkipIngest, Ingest, EvSteps, Before
  <2>5. CASE Ingested(t) \/ IngestFails(t)
    <3>1. step[t] = "query" /\ graph[t] = 0
      BY <2>1, <2>5 DEF Ingested, IngestFails, Before
    <3>2. PICK n \in {0, 1} : graph' = [graph EXCEPT ![t] = n]
      BY <2>5, <3>1 DEF Ingested, IngestFails
    <3>3. QED
      BY <2>1, <2>5, <3>1, <3>2, OpsMove DEF Ingested, IngestFails, EvSteps, Before
  <2>6. CASE Publish(t)
    BY <2>6, PublishOps
  <2>7. CASE PublishFails(t)
    BY <2>1, <2>7, OpsMove DEF PublishFails, EvSteps, Before
  <2>8. QED
    BY <1>3, <2>2, <2>3, <2>4, <2>5, <2>6, <2>7 DEF Operate
<1>4. ASSUME NEW x \in Subs, Subscribe(x) \/ Reconnect(x)
      PROVE  OpsOK'
  BY <1>4, OpsKept DEF Subscribe, Reconnect, opVars, OpsOK
<1>5. ASSUME NEW s \in Streams, Refuse(s) \/ Follow(s) \/ Interrupt(s) \/ Deliver(s)
      PROVE  OpsOK'
  BY <1>5, OpsKept DEF Refuse, Follow, Interrupt, Deliver, Read, opVars, OpsOK
<1>6. CASE Handle \/ RedisFails \/ RedisReturns \/ Time
  BY <1>6, OpsKept DEF Handle, Read, RedisFails, RedisReturns, Time, opVars, OpsOK
<1>7. QED
  BY <1>1, <1>2, <1>3, <1>4, <1>5, <1>6 DEF EventsNext

(* The subscriptions.                                                      *)
LEMMA SubsKept ==
  ASSUME SubsOK, running' = running, redisUp' \in BOOLEAN,
         published' = published, UNCHANGED subVars
  PROVE  SubsOK'
BY DEF SubsOK, subVars, FedInOrder, Blank

(* A subscription that nobody uses is consistent with anything published.  *)
LEMMA BlankIsFed ==
  ASSUME published' \in Seq(Tasks), NEW x, Blank(x)', x \notin alive'
  PROVE  FedInOrder(x)'
<1>1. /\ Len(got'[x]) = 0 /\ Len(buf'[x]) = 0 /\ since'[x] = 0
      /\ Len(published') \in Nat
  BY DEF Blank
<1>2. QED
  BY <1>1 DEF FedInOrder

LEMMA ForgetFields ==
  ASSUME SubsOK, NEW X \in SUBSET Subs, Forget(X)
  PROVE  /\ since' \in [Subs -> Nat]
         /\ buf' \in [Subs -> Seq(Tasks)] /\ got' \in [Subs -> Seq(Tasks)]
         /\ \A x \in Subs : x \in X => Blank(x)'
         /\ \A x \in Subs : x \notin X =>
              since'[x] = since[x] /\ buf'[x] = buf[x] /\ got'[x] = got[x]
<1>1. <<>> \in Seq(Tasks)
  OBVIOUS
<1>2. QED
  BY <1>1 DEF SubsOK, Forget, Blank

(* One subscriber changes, to a state that is consistent.                  *)
LEMMA OneSub ==
  ASSUME SubsOK, NEW x \in Subs, NEW c \in {"off", "wait", "open", "refused"},
         conn' = [conn EXCEPT ![x] = c], running' = running,
         redisUp' = redisUp, published' = published, alive' \subseteq Subs,
         since' \in [Subs -> Nat],
         buf' \in [Subs -> Seq(Tasks)], got' \in [Subs -> Seq(Tasks)],
         \A y \in Subs : y # x =>
           /\ since'[y] = since[y] /\ buf'[y] = buf[y] /\ got'[y] = got[y]
           /\ y \in alive' => y \in alive,
         x \in alive' => c = "open", c = "open" => running,
         c # "open" => Blank(x)', FedInOrder(x)'
  PROVE  SubsOK'
<1>1. /\ conn' \in [Subs -> {"off", "wait", "open", "refused"}] /\ conn'[x] = c
      /\ \A y \in Subs : y # x => conn'[y] = conn[y]
  BY DEF SubsOK
<1>2. ASSUME NEW y \in Subs, y # x
      PROVE  FedInOrder(y)'
  <2>1. /\ FedInOrder(y) /\ published' = published
        /\ since'[y] = since[y] /\ buf'[y] = buf[y] /\ got'[y] = got[y]
        /\ y \in alive' => y \in alive
    BY <1>2 DEF SubsOK
  <2>2. QED
    BY <2>1 DEF FedInOrder
<1>3. \A y \in Subs : conn'[y] # "open" => Blank(y)'
  BY <1>1 DEF SubsOK, Blank
<1>4. \A y \in alive' : conn'[y] = "open"
  BY <1>1 DEF SubsOK
<1>5. ~running' => \A y \in Subs : conn'[y] # "open"
  BY <1>1 DEF SubsOK
<1>6. QED
  BY <1>1, <1>2, <1>3, <1>4, <1>5 DEF SubsOK

LEMMA LifecycleSubs ==
  ASSUME SubsOK, published \in Seq(Tasks), Boot \/ Shutdown
  PROVE  SubsOK'
<1>1. CASE Boot
  <2>1. /\ ~running /\ running' = TRUE /\ redisUp' = redisUp
        /\ published' = published /\ alive' = alive
        /\ since' = since /\ buf' = buf /\ got' = got
        /\ conn' = [conn EXCEPT ![Listener] = "wait"]
    BY <1>1 DEF Boot
  <2>2. \A x \in Subs : conn[x] # "open" /\ conn'[x] # "open" /\ Blank(x)
    BY <2>1 DEF SubsOK
  <2>3. alive = {}
    BY <2>2 DEF SubsOK
  <2>4. conn' \in [Subs -> {"off", "wait", "open", "refused"}]
    BY <2>1 DEF SubsOK
  <2>5. \A x \in Subs : Blank(x)' /\ FedInOrder(x)'
    BY <2>1, <2>2, <2>3, BlankIsFed DEF Blank
  <2>6. QED
    BY <2>1, <2>2, <2>3, <2>4, <2>5 DEF SubsOK
<1>2. CASE Shutdown
  <2>1. /\ running' = FALSE /\ redisUp' = redisUp /\ published' = published
        /\ alive' = {} /\ Forget(Subs)
        /\ conn' = [x \in Subs |-> IF x = Listener THEN "off"
                                   ELSE IF conn[x] = "open" THEN "wait" ELSE conn[x]]
    BY <1>2 DEF Shutdown
  <2>2. /\ conn' \in [Subs -> {"off", "wait", "open", "refused"}]
        /\ \A x \in Subs : conn'[x] # "open"
    BY <2>1 DEF SubsOK
  <2>3. /\ since' \in [Subs -> Nat]
        /\ buf' \in [Subs -> Seq(Tasks)] /\ got' \in [Subs -> Seq(Tasks)]
        /\ \A x \in Subs : Blank(x)'
    BY <2>1, ForgetFields
  <2>4. \A x \in Subs : FedInOrder(x)'
    BY <2>1, <2>3, BlankIsFed
  <2>5. QED
    BY <2>1, <2>2, <2>3, <2>4 DEF SubsOK
<1>3. QED
  BY <1>1, <1>2

LEMMA PublishSubs ==
  ASSUME SubsOK, published \in Seq(Tasks), NEW t \in Tasks, Publish(t)
  PROVE  SubsOK'
<1>1. /\ published' = Append(published, t)
      /\ buf' = [x \in Subs |-> IF x \in alive THEN Append(buf[x], t) ELSE buf[x]]
      /\ running' = running /\ redisUp' = redisUp /\ conn' = conn
      /\ alive' = alive /\ since' = since /\ got' = got
  BY DEF Publish
<1>2. /\ Len(published') = Len(published) + 1
      /\ \A i \in 1..Len(published) : published'[i] = published[i]
      /\ published'[Len(published) + 1] = t /\ Len(published) \in Nat
  BY <1>1
<1>3. ASSUME NEW x \in Subs
      PROVE  FedInOrder(x)' /\ buf'[x] \in Seq(Tasks)
  <2>1. /\ buf[x] \in Seq(Tasks) /\ got[x] \in Seq(Tasks) /\ FedInOrder(x)
        /\ since[x] \in Nat
    BY DEF SubsOK
  <2>2. Len(buf[x]) \in Nat /\ Len(got[x]) \in Nat
    BY <2>1
  <2>3. CASE x \notin alive
    <3>1. buf'[x] = buf[x]
      BY <1>1, <2>3
    <3>2. /\ since[x] <= Len(published)
          /\ since[x] + Len(got[x]) + Len(buf[x]) <= Len(published)
      BY <2>1, <2>2 DEF FedInOrder
    <3>3. ASSUME NEW i \in 1..Len(got[x])
          PROVE  got[x][i] = published'[since[x] + i]
      <4>1. since[x] + i \in 1..Len(published)
        BY <1>2, <2>1, <2>2, <3>2, SMTT(40)
      <4>2. QED
        BY <1>2, <2>1, <4>1 DEF FedInOrder
    <3>4. ASSUME NEW i \in 1..Len(buf[x])
          PROVE  buf[x][i] = published'[since[x] + Len(got[x]) + i]
      <4>1. since[x] + Len(got[x]) + i \in 1..Len(published)
        BY <1>2, <2>1, <2>2, <3>2, SMTT(40)
      <4>2. QED
        BY <1>2, <2>1, <4>1 DEF FedInOrder
    <3>5. /\ since[x] \in 0..Len(published')
          /\ since[x] + Len(got[x]) + Len(buf[x]) <= Len(published')
      BY <1>2, <2>1, <2>2, <3>2
    <3>6. QED
      BY <1>1, <2>1, <2>3, <3>1, <3>3, <3>4, <3>5 DEF FedInOrder
  <2>4. CASE x \in alive
    <3>1. /\ buf'[x] = Append(buf[x], t) /\ Len(buf'[x]) = Len(buf[x]) + 1
          /\ buf'[x] \in Seq(Tasks)
          /\ \A i \in 1..Len(buf[x]) : buf'[x][i] = buf[x][i]
          /\ buf'[x][Len(buf[x]) + 1] = t
      BY <1>1, <2>1, <2>4
    <3>2. since[x] + Len(got[x]) + Len(buf[x]) = Len(published)
      BY <2>1, <2>4 DEF FedInOrder
    <3>3. ASSUME NEW i \in 1..Len(buf'[x])
          PROVE  buf'[x][i] = published'[since[x] + Len(got[x]) + i]
      <4>1. CASE i = Len(buf[x]) + 1
        <5>1. since[x] + Len(got[x]) + i = Len(published) + 1
          <6>1. PICK a \in Nat, g \in Nat, b \in Nat, n \in Nat :
                  /\ a = since[x] /\ g = Len(got[x]) /\ b = Len(buf[x])
                  /\ n = Len(published)
            BY <1>2, <2>1, <2>2
          <6>2. a + g + b = n /\ i = b + 1
            BY <3>2, <4>1, <6>1
          <6>3. a + g + i = n + 1
            BY <6>2
          <6>4. QED
            BY <6>1, <6>3
        <5>2. QED
          BY <1>2, <3>1, <4>1, <5>1
      <4>2. CASE i \in 1..Len(buf[x])
        <5>1. since[x] + Len(got[x]) + i \in 1..Len(published)
          BY <2>1, <2>2, <3>2, <4>2, SMTT(40)
        <5>2. QED
          BY <1>2, <2>1, <3>1, <4>2, <5>1 DEF FedInOrder
      <4>3. QED
        BY <2>2, <3>1, <4>1, <4>2
    <3>4. ASSUME NEW i \in 1..Len(got[x])
          PROVE  got[x][i] = published'[since[x] + i]
      <4>1. since[x] + i \in 1..Len(published)
        BY <2>1, <2>2, <3>2, SMTT(40)
      <4>2. QED
        BY <1>2, <2>1, <4>1 DEF FedInOrder
    <3>5. /\ since[x] \in 0..Len(published')
          /\ since[x] + Len(got[x]) + Len(buf'[x]) = Len(published')
      <4>1. /\ Len(published') = Len(published) + 1
            /\ Len(buf'[x]) = Len(buf[x]) + 1
            /\ Len(published) \in Nat /\ since[x] \in Nat
        BY <1>2, <2>1, <3>1
      <4>2. PICK a \in Nat, g \in Nat, b \in Nat, n \in Nat :
              /\ a = since[x] /\ g = Len(got[x]) /\ b = Len(buf[x])
              /\ n = Len(published)
        BY <2>2, <4>1
      <4>3. a + g + b = n
        BY <3>2, <4>2
      <4>4. a \in 0..(n + 1) /\ a + g + (b + 1) = n + 1
        BY <4>3
      <4>5. QED
        BY <4>1, <4>2, <4>4
    <3>6. since[x] + Len(got[x]) + Len(buf'[x]) <= Len(published')
      BY <1>2, <3>5
    <3>7. QED
      BY <1>1, <3>1, <3>3, <3>4, <3>5, <3>6 DEF FedInOrder
  <2>5. QED
    BY <2>3, <2>4
<1>4. buf' \in [Subs -> Seq(Tasks)]
  BY <1>1, <1>3
<1>5. \A x \in Subs : conn'[x] # "open" => Blank(x)'
  <2>1. \A x \in Subs : conn[x] # "open" => buf'[x] = buf[x]
    BY <1>1 DEF SubsOK
  <2>2. QED
    BY <1>1, <2>1 DEF SubsOK, Blank
<1>6. QED
  BY <1>1, <1>3, <1>4, <1>5 DEF SubsOK

LEMMA SubscribeSubs ==
  ASSUME SubsOK, published \in Seq(Tasks), NEW x \in Subs, Subscribe(x)
  PROVE  SubsOK'
<1>1. /\ running /\ conn[x] = "wait" /\ conn' = [conn EXCEPT ![x] = "open"]
      /\ alive' = alive \cup {x} /\ since' = [since EXCEPT ![x] = Len(published)]
      /\ running' = running /\ redisUp' = redisUp /\ published' = published
      /\ buf' = buf /\ got' = got
  BY DEF Subscribe
<1>2. /\ got[x] = <<>> /\ buf[x] = <<>> /\ Len(published) \in Nat
      /\ alive' \subseteq Subs
  BY <1>1 DEF SubsOK, Blank
<1>3. /\ since' \in [Subs -> Nat] /\ since'[x] = Len(published)
      /\ \A y \in Subs : y # x => since'[y] = since[y]
  BY <1>1, <1>2 DEF SubsOK
<1>4. FedInOrder(x)'
  <2>1. Len(got'[x]) = 0 /\ Len(buf'[x]) = 0
    BY <1>1, <1>2
  <2>2. QED
    BY <1>1, <1>2, <1>3, <2>1 DEF FedInOrder
<1>5. buf' \in [Subs -> Seq(Tasks)] /\ got' \in [Subs -> Seq(Tasks)]
  BY <1>1 DEF SubsOK
<1>6. QED
  BY <1>1, <1>2, <1>3, <1>4, <1>5, OneSub

LEMMA EndSubs ==
  ASSUME SubsOK, published \in Seq(Tasks), NEW x \in Subs,
         \/ Reconnect(x)
         \/ x \in Streams /\ (Interrupt(x) \/ Follow(x) \/ Refuse(x))
  PROVE  SubsOK'
<1>1. /\ running' = running /\ redisUp' = redisUp /\ published' = published
      /\ x \notin alive' /\ alive' \subseteq alive /\ alive \subseteq Subs
  BY DEF Reconnect, Interrupt, Follow, Refuse, SubsOK, opVars
<1>2. PICK c \in {"off", "wait", "refused"} : conn' = [conn EXCEPT ![x] = c]
  BY DEF Reconnect, Interrupt, Follow, Refuse
<1>3. /\ since' \in [Subs -> Nat]
      /\ buf' \in [Subs -> Seq(Tasks)] /\ got' \in [Subs -> Seq(Tasks)]
      /\ Blank(x)'
      /\ \A y \in Subs : y # x =>
           since'[y] = since[y] /\ buf'[y] = buf[y] /\ got'[y] = got[y]
  <2>1. CASE Reconnect(x) \/ Interrupt(x)
    <3>1. Forget({x})
      BY <2>1 DEF Reconnect, Interrupt
    <3>2. QED
      BY <3>1, ForgetFields
  <2>2. CASE Follow(x) \/ Refuse(x)
    BY <2>2 DEF Follow, Refuse, SubsOK, Blank
  <2>3. QED
    BY <2>1, <2>2
<1>4. FedInOrder(x)'
  BY <1>1, <1>3, BlankIsFed
<1>5. QED
  BY <1>1, <1>2, <1>3, <1>4, OneSub

LEMMA ReadSubs ==
  ASSUME SubsOK, published \in Seq(Tasks), NEW x \in Subs, Read(x)
  PROVE  SubsOK'
<1>1. /\ conn[x] = "open" /\ buf[x] # <<>>
      /\ got' = [got EXCEPT ![x] = Append(got[x], Head(buf[x]))]
      /\ buf' = [buf EXCEPT ![x] = Tail(buf[x])]
      /\ running' = running /\ redisUp' = redisUp /\ published' = published
      /\ conn' = conn /\ alive' = alive /\ since' = since
  BY DEF Read
<1>2. /\ buf[x] \in Seq(Tasks) /\ got[x] \in Seq(Tasks) /\ since[x] \in Nat
      /\ FedInOrder(x) /\ conn \in [Subs -> {"off", "wait", "open", "refused"}]
      /\ alive \subseteq Subs /\ running
  BY <1>1 DEF SubsOK
<1>3. /\ Len(buf[x]) \in Nat \ {0} /\ Len(got[x]) \in Nat
      /\ Head(buf[x]) = buf[x][1] /\ Head(buf[x]) \in Tasks
      /\ Tail(buf[x]) \in Seq(Tasks) /\ Len(Tail(buf[x])) = Len(buf[x]) - 1
      /\ \A i \in 1..(Len(buf[x]) - 1) : Tail(buf[x])[i] = buf[x][i + 1]
  BY <1>1, <1>2
<1>4. /\ buf'[x] = Tail(buf[x]) /\ got'[x] = Append(got[x], Head(buf[x]))
      /\ buf' \in [Subs -> Seq(Tasks)]
      /\ \A y \in Subs : y # x => buf'[y] = buf[y] /\ got'[y] = got[y]
  BY <1>1, <1>3 DEF SubsOK
<1>5. /\ got'[x] \in Seq(Tasks) /\ Len(got'[x]) = Len(got[x]) + 1
      /\ \A i \in 1..Len(got[x]) : got'[x][i] = got[x][i]
      /\ got'[x][Len(got[x]) + 1] = buf[x][1]
  BY <1>2, <1>3, <1>4
<1>6. got' \in [Subs -> Seq(Tasks)]
  BY <1>1, <1>4, <1>5 DEF SubsOK
<1>7. ASSUME NEW i \in 1..Len(got'[x])
      PROVE  got'[x][i] = published[since[x] + i]
  <2>1. CASE i = Len(got[x]) + 1
    <3>1. since[x] + i = since[x] + Len(got[x]) + 1
      <4>1. PICK a \in Nat, b \in Nat : a = since[x] /\ b = Len(got[x])
        BY <1>2, <1>3
      <4>2. a + (b + 1) = a + b + 1
        BY <4>1, SMTT(40)
      <4>3. QED
        BY <2>1, <4>1, <4>2
    <3>2. buf[x][1] = published[since[x] + Len(got[x]) + 1]
      BY <1>2, <1>3 DEF FedInOrder
    <3>3. QED
      BY <1>5, <2>1, <3>1, <3>2
  <2>2. CASE i \in 1..Len(got[x])
    BY <1>2, <1>5, <2>2 DEF FedInOrder
  <2>3. QED
    BY <1>3, <1>5, <2>1, <2>2
<1>8. ASSUME NEW i \in 1..Len(buf'[x])
      PROVE  buf'[x][i] = published[since[x] + Len(got'[x]) + i]
  <2>1. i \in 1..(Len(buf[x]) - 1) /\ i + 1 \in 1..Len(buf[x])
    BY <1>3, <1>4
  <2>2. since[x] + Len(got'[x]) + i = since[x] + Len(got[x]) + (i + 1)
    <3>1. /\ since[x] \in Nat /\ Len(got[x]) \in Nat /\ i \in Nat
          /\ Len(got'[x]) = Len(got[x]) + 1
      BY <1>2, <1>3, <1>5
    <3>2. PICK a \in Nat, b \in Nat, d \in Nat :
            a = since[x] /\ b = Len(got[x]) /\ d = Len(got'[x])
      BY <3>1
    <3>3. d = b + 1
      BY <3>1, <3>2
    <3>4. a + d + i = a + b + (i + 1)
      BY <3>1, <3>3
    <3>5. QED
      BY <3>2, <3>4
  <2>3. buf[x][i + 1] = published[since[x] + Len(got[x]) + (i + 1)]
    BY <1>2, <2>1 DEF FedInOrder
  <2>4. QED
    BY <1>3, <1>4, <2>1, <2>2, <2>3
<1>9. FedInOrder(x)'
  <2>1. since'[x] + Len(got'[x]) + Len(buf'[x])
          = since[x] + Len(got[x]) + Len(buf[x])
    <3>1. /\ since'[x] = since[x] /\ Len(got'[x]) = Len(got[x]) + 1
          /\ Len(buf'[x]) = Len(buf[x]) - 1
      BY <1>1, <1>3, <1>4, <1>5
    <3>2. /\ since[x] \in Nat /\ Len(got[x]) \in Nat /\ Len(buf[x]) \in Nat
          /\ Len(got'[x]) \in Nat /\ Len(buf'[x]) \in Nat
      BY <1>2, <1>3, <1>4, <1>5
    <3>3. PICK a \in Nat, b \in Nat, c \in Nat, d \in Nat, e \in Nat :
            /\ a = since[x] /\ b = Len(got[x]) /\ c = Len(buf[x])
            /\ d = Len(got'[x]) /\ e = Len(buf'[x])
      BY <3>2
    <3>4. d = b + 1 /\ e = c - 1
      BY <3>1, <3>3
    <3>5. a + d + e = a + b + c
      BY <3>4
    <3>6. QED
      BY <3>1, <3>3, <3>5
  <2>2. QED
    BY <1>1, <1>2, <1>7, <1>8, <2>1 DEF FedInOrder
<1>10. conn' = [conn EXCEPT ![x] = "open"] /\ since' \in [Subs -> Nat]
  BY <1>1, <1>2 DEF SubsOK
<1>11. QED
  BY <1>1, <1>2, <1>4, <1>6, <1>9, <1>10, OneSub

LEMMA EvSubs ==
  ASSUME SubsOK, published \in Seq(Tasks), [EventsNext]_evVars
  PROVE  SubsOK'
<1>1. CASE UNCHANGED evVars \/ RedisReturns \/ Time
  BY <1>1, SubsKept DEF evVars, RedisReturns, Time, SubsOK
<1>2. CASE Boot \/ Shutdown
  BY <1>2, LifecycleSubs
<1>3. ASSUME NEW t \in Tasks, Commit(t) \/ Operate(t)
      PROVE  SubsOK'
  <2>1. CASE Publish(t)
    BY <2>1, PublishSubs
  <2>2. CASE \/ Commit(t) \/ Connect(t) \/ Verify(t) \/ SkipIngest(t)
             \/ Ingest(t) \/ Ingested(t) \/ IngestFails(t) \/ PublishFails(t)
    <3>1. running' = running /\ redisUp' = redisUp /\ published' = published
          /\ UNCHANGED subVars
      BY <2>2 DEF Commit, Connect, Verify, SkipIngest, Ingest, Ingested,
                  IngestFails, PublishFails
    <3>2. QED
      BY <3>1, SubsKept DEF SubsOK
  <2>3. QED
    BY <1>3, <2>1, <2>2 DEF Operate
<1>4. ASSUME NEW x \in Subs, Subscribe(x) \/ Reconnect(x)
      PROVE  SubsOK'
  BY <1>4, SubscribeSubs, EndSubs
<1>5. ASSUME NEW s \in Streams, Refuse(s) \/ Follow(s) \/ Interrupt(s) \/ Deliver(s)
      PROVE  SubsOK'
  <2>1. s \in Subs
    BY DEF Subs
  <2>2. QED
    BY <1>5, <2>1, EndSubs, ReadSubs DEF Deliver
<1>6. CASE Handle
  <2>1. Listener \in Subs
    BY DEF Subs
  <2>2. QED
    BY <1>6, <2>1, ReadSubs DEF Handle
<1>7. CASE RedisFails
  <2>1. /\ running' = running /\ redisUp' = FALSE /\ published' = published
        /\ alive' = {} /\ conn' = conn /\ since' = since /\ buf' = buf
        /\ got' = got
    BY <1>7 DEF RedisFails
  <2>2. \A x \in Subs : FedInOrder(x)' /\ (Blank(x)' <=> Blank(x))
    BY <2>1 DEF SubsOK, FedInOrder, Blank
  <2>3. QED
    BY <2>1, <2>2 DEF SubsOK
<1>8. QED
  BY <1>1, <1>2, <1>3, <1>4, <1>5, <1>6, <1>7 DEF EventsNext


(* The token bucket.  Time gives at most one token, and a callback takes   *)
(* one, so that the callbacks since calls[i] and the tokens left never     *)
(* exceed Rate and the time since calls[i].                                *)
LEMMA RefillBounds ==
  ASSUME BucketOK
  PROVE  Refill \in 0..Rate
BY EventsAssumption DEF BucketOK, Refill, Cap

LEMMA BucketKept ==
  ASSUME BucketOK, UNCHANGED bucket
  PROVE  BucketOK'
BY DEF BucketOK, bucket, Refill, Cap

LEMMA BootBucket ==
  ASSUME Boot
  PROVE  BucketOK'
<1>1. /\ tokens' = Rate /\ elapsed' = 0 /\ clock' = 0 /\ calls' = <<>>
      /\ calls' \in Seq(0..MaxTime) /\ Len(calls') = 0
  BY DEF Boot
<1>2. QED
  BY <1>1, EventsAssumption DEF BucketOK

LEMMA TimeBucket ==
  ASSUME BucketOK, Time
  PROVE  BucketOK'
<1>1. /\ clock < MaxTime /\ clock' = clock + 1 /\ elapsed' = elapsed + 1
      /\ tokens' = tokens /\ calls' = calls
  BY DEF Time
<1>2. /\ tokens \in 0..Rate /\ elapsed \in Nat /\ clock \in 0..MaxTime
      /\ elapsed <= clock /\ calls \in Seq(0..MaxTime) /\ Len(calls) \in Nat
      /\ \A i \in 1..Len(calls) : calls[i] \in 0..MaxTime
  BY ElementOfSeq, LenProperties DEF BucketOK
<1>3. Refill \in Nat /\ Refill' \in Nat /\ Refill' <= Refill + 1
  BY <1>1, <1>2, EventsAssumption DEF Refill, Cap
<1>4. ASSUME NEW i \in 1..Len(calls)
      PROVE  /\ calls[i] <= clock'
             /\ (Len(calls) - i) + 1 + Refill' <= Rate + (clock' - calls[i])
  <2>1. /\ calls[i] <= clock /\ calls[i] \in Nat
        /\ (Len(calls) - i) + 1 + Refill <= Rate + (clock - calls[i])
    BY <1>2 DEF BucketOK
  <2>2. PICK c \in Nat, n \in Nat, r \in Nat, s \in Nat :
          c = calls[i] /\ n = Len(calls) /\ r = Refill /\ s = Refill'
    BY <1>2, <1>3, <2>1
  <2>3. c <= clock /\ (n - i) + 1 + r <= Rate + (clock - c) /\ s <= r + 1
    BY <1>3, <2>1, <2>2
  <2>4. c <= clock + 1 /\ (n - i) + 1 + s <= Rate + ((clock + 1) - c)
    BY <1>2, <2>3, EventsAssumption
  <2>5. QED
    BY <1>1, <2>2, <2>4
<1>5. clock' \in 0..MaxTime /\ elapsed' \in Nat /\ elapsed' <= clock'
  BY <1>1, <1>2, EventsAssumption
<1>6. QED
  BY <1>1, <1>4, <1>5 DEF BucketOK

LEMMA HandleBucket ==
  ASSUME BucketOK, Handle
  PROVE  BucketOK'
<1>1. /\ tokens \in 0..Rate /\ elapsed \in Nat /\ clock \in 0..MaxTime
      /\ elapsed <= clock /\ calls \in Seq(0..MaxTime) /\ Len(calls) \in Nat
      /\ \A i \in 1..Len(calls) : calls[i] \in 0..MaxTime
  BY ElementOfSeq, LenProperties DEF BucketOK
<1>2. PICK n \in Nat, r \in 0..Rate : n = Len(calls) /\ r = Refill
  BY <1>1, RefillBounds
<1>3. elapsed' = 0 /\ clock' = clock
  BY DEF Handle
<1>4. ASSUME NEW i \in 1..n
      PROVE  /\ calls[i] \in 0..MaxTime /\ calls[i] <= clock
             /\ (n - i) + 1 + r <= Rate + (clock - calls[i])
  BY <1>1, <1>2 DEF BucketOK
<1>5. CASE r >= 1
  <2>1. tokens' = r - 1 /\ calls' = Append(calls, clock)
    BY <1>2, <1>5 DEF Handle
  <2>2. tokens' \in 0..Rate /\ Refill' = r - 1
    BY <1>3, <1>5, <2>1, EventsAssumption DEF Refill, Cap
  <2>3. /\ calls' \in Seq(0..MaxTime) /\ Len(calls') = n + 1
        /\ \A i \in 1..n : calls'[i] = calls[i]
        /\ calls'[n + 1] = clock
    BY <1>1, <1>2, <2>1
  <2>4. ASSUME NEW i \in 1..(n + 1)
        PROVE  /\ calls'[i] <= clock
               /\ ((n + 1) - i) + 1 + (r - 1) <= Rate + (clock - calls'[i])
    <3>1. CASE i = n + 1
      BY <1>1, <1>5, <2>3, <3>1, EventsAssumption
    <3>2. CASE i \in 1..n
      <4>1. PICK c \in 0..MaxTime : c = calls[i]
        BY <1>4, <3>2
      <4>2. c <= clock /\ (n - i) + 1 + r <= Rate + (clock - c)
        BY <1>4, <3>2, <4>1
      <4>3. ((n + 1) - i) + 1 + (r - 1) <= Rate + (clock - c)
        BY <1>1, <4>2, EventsAssumption
      <4>4. QED
        BY <2>3, <3>2, <4>1, <4>2, <4>3
    <3>3. QED
      BY <3>1, <3>2
  <2>5. ASSUME NEW i \in 1..(n + 1), NEW j \in 1..(n + 1), i <= j
        PROVE  (j - i) + 1 <= Rate + (calls'[j] - calls'[i])
    <3>1. CASE j \in 1..n
      <4>1. i \in 1..n
        BY <2>5, <3>1
      <4>2. (j - i) + 1 <= Rate + (calls[j] - calls[i])
        BY <1>2, <2>5, <3>1, <4>1 DEF BucketOK
      <4>3. QED
        BY <2>3, <3>1, <4>1, <4>2
    <3>2. CASE j = n + 1 /\ i \in 1..n
      <4>1. PICK c \in 0..MaxTime : c = calls[i]
        BY <1>4, <3>2
      <4>2. (n - i) + 1 + r <= Rate + (clock - c)
        BY <1>4, <3>2, <4>1
      <4>3. (j - i) + 1 <= Rate + (clock - c)
        BY <1>1, <1>5, <3>2, <4>2, EventsAssumption
      <4>4. QED
        BY <2>3, <3>2, <4>1, <4>3
    <3>3. CASE j = n + 1 /\ i = n + 1
      BY <1>1, <2>3, <3>3, EventsAssumption
    <3>4. QED
      BY <3>1, <3>2, <3>3
  <2>6. QED
    BY <1>1, <1>3, <2>2, <2>3, <2>4, <2>5 DEF BucketOK
<1>6. CASE ~(r >= 1)
  <2>1. tokens' = r /\ calls' = calls /\ r = 0
    BY <1>2, <1>6 DEF Handle
  <2>2. tokens' \in 0..Rate /\ Refill' = r
    BY <1>3, <2>1, EventsAssumption DEF Refill, Cap
  <2>3. QED
    BY <1>1, <1>2, <1>3, <1>4, <2>1, <2>2 DEF BucketOK
<1>7. QED
  BY <1>5, <1>6

LEMMA EvBucket ==
  ASSUME BucketOK, [EventsNext]_evVars
  PROVE  BucketOK'
<1>1. CASE Boot
  BY <1>1, BootBucket
<1>2. CASE Time
  BY <1>2, TimeBucket
<1>3. CASE Handle
  BY <1>3, HandleBucket
<1>4. CASE UNCHANGED evVars \/ Shutdown \/ RedisFails \/ RedisReturns
  BY <1>4, BucketKept DEF evVars, Shutdown, RedisFails, RedisReturns
<1>5. ASSUME NEW t \in Tasks, Commit(t) \/ Operate(t)
      PROVE  BucketOK'
  BY <1>5, BucketKept
  DEF Commit, Operate, Connect, Verify, SkipIngest, Ingest, Ingested,
      IngestFails, Publish, PublishFails
<1>6. ASSUME NEW x \in Subs, Subscribe(x) \/ Reconnect(x)
      PROVE  BucketOK'
  BY <1>6, BucketKept DEF Subscribe, Reconnect
<1>7. ASSUME NEW s \in Streams, Refuse(s) \/ Follow(s) \/ Interrupt(s) \/ Deliver(s)
      PROVE  BucketOK'
  BY <1>7, BucketKept DEF Refuse, Follow, Interrupt, Deliver
<1>8. QED
  BY <1>1, <1>2, <1>3, <1>4, <1>5, <1>6, <1>7 DEF EventsNext

LEMMA EvNextInv == EvInv /\ [EventsNext]_evVars => EvInv'
<1> SUFFICES ASSUME EvInv, [EventsNext]_evVars
             PROVE  EvInv'
  OBVIOUS
<1>1. IInv' /\ OpsOK' /\ BucketOK'
  BY EvBreaker, EvOps, EvBucket DEF EvInv
<1>2. published \in Seq(Tasks)
  BY DEF EvInv, OpsOK
<1>3. SubsOK'
  BY <1>2, EvSubs DEF EvInv
<1>4. QED
  BY <1>1, <1>3 DEF EvInv

(* Every variable of the delivery paths keeps its type: a subscription     *)
(* that Redis serves is one its owner reads, it began at a message that    *)
(* exists, and the bucket holds at most its rate.                          *)
THEOREM EventsTypeCorrect == EventsSpec => []EventsTypeOK
<1>1. EvInv => EventsTypeOK
  <2> SUFFICES ASSUME EvInv
               PROVE  EventsTypeOK
    OBVIOUS
  <2>1. TypeOK
    BY DEF EvInv, IInv
  <2>2. /\ step \in [Tasks -> {"idle", "connect", "verify", "ingest", "query",
                               "publish", "done"}]
        /\ graph \in [Tasks -> Nat] /\ published \in Seq(Tasks)
    BY DEF EvInv, OpsOK, EvSteps
  <2>3. driver \in BOOLEAN
    BY DEF EvInv, OpsOK
  <2>4. running \in BOOLEAN /\ redisUp \in BOOLEAN
    BY DEF EvInv, SubsOK
  <2>5. /\ conn \in [Subs -> {"off", "wait", "open", "refused"}]
        /\ alive \subseteq {x \in Subs : conn[x] = "open"}
        /\ buf \in [Subs -> Seq(Tasks)] /\ got \in [Subs -> Seq(Tasks)]
    BY DEF EvInv, SubsOK
  <2>6. since \in [Subs -> 0..Len(published)]
    <3>1. \A x \in Subs : since[x] \in 0..Len(published)
      BY DEF EvInv, SubsOK, FedInOrder
    <3>2. QED
      BY <3>1 DEF EvInv, SubsOK
  <2>7. /\ tokens \in 0..Rate /\ elapsed \in 0..MaxTime /\ clock \in 0..MaxTime
        /\ calls \in Seq(0..MaxTime)
    BY EventsAssumption DEF EvInv, BucketOK
  <2>8. QED
    BY <2>1, <2>2, <2>3, <2>4, <2>5, <2>6, <2>7 DEF EventsTypeOK
<1>2. QED
  BY <1>1, EvInitInv, EvNextInv, PTL DEF EventsSpec

(* Two parts g and b, read off p one after the other from index f + 1 on.  *)
LEMMA PartsArePrefix ==
  ASSUME NEW T, NEW p \in Seq(T), NEW g \in Seq(T), NEW b \in Seq(T),
         NEW f \in 0..Len(p), f + Len(g) + Len(b) <= Len(p),
         \A i \in 1..Len(g) : g[i] = p[f + i],
         \A i \in 1..Len(b) : b[i] = p[f + Len(g) + i]
  PROVE  /\ IsPrefix(g \o b, SubSeq(p, f + 1, Len(p)))
         /\ f + Len(g) + Len(b) = Len(p) => g \o b = SubSeq(p, f + 1, Len(p))
<1> DEFINE s == g \o b
           m == SubSeq(p, f + 1, Len(p))
<1>1. PICK lg \in Nat, lb \in Nat, n \in Nat :
        lg = Len(g) /\ lb = Len(b) /\ n = Len(p)
  BY LenProperties
<1>2. /\ s \in Seq(T) /\ Len(s) = lg + lb
      /\ \A i \in 1..(lg + lb) :
           s[i] = IF i <= lg THEN g[i] ELSE b[i - lg]
  BY <1>1, ConcatProperties
<1>3. f \in Nat /\ f + 1 \in Int /\ f + lg + lb <= n
  BY <1>1
<1>4. \A i \in (f + 1)..n : p[i] \in T
  BY <1>1, <1>3, ElementOfSeq
<1>5. /\ m \in Seq(T) /\ Len(m) = IF f + 1 <= n THEN n - (f + 1) + 1 ELSE 0
      /\ \A i \in 1..(n - (f + 1) + 1) : m[i] = p[(f + 1) + i - 1]
  BY <1>1, <1>3, <1>4, SubSeqProperties
<1> HIDE DEF s, m
<1>6. Len(m) = n - f
  BY <1>1, <1>3, <1>5
<1>7. \A i \in 1..(n - f) : m[i] = p[f + i]
  BY <1>3, <1>5
<1>8. ASSUME NEW i \in 1..(lg + lb)
      PROVE  s[i] = m[i]
  <2>1. i \in 1..(n - f)
    BY <1>3
  <2>2. CASE i <= lg
    BY <1>1, <1>2, <1>7, <2>1, <2>2
  <2>3. CASE ~(i <= lg)
    <3>1. PICK k \in 1..lb : k = i - lg
      BY <2>3
    <3>2. b[k] = p[f + lg + k]
      BY <1>1, <3>1
    <3>3. f + lg + k = f + i
      BY <1>3, <3>1
    <3>4. QED
      BY <1>2, <1>7, <2>1, <2>3, <3>1, <3>2, <3>3
  <2>4. QED
    BY <2>2, <2>3
<1>9. f + lg + lb = n => s = m
  <2> SUFFICES ASSUME f + lg + lb = n
               PROVE  s = m
    OBVIOUS
  <2>1. Len(s) = Len(m)
    <3>1. Len(s) = lg + lb
      BY <1>2
    <3>2. n - f = lg + lb
      BY <1>3
    <3>3. QED
      BY <1>6, <3>1, <3>2
  <2>2. QED
    BY <1>2, <1>5, <1>8, <2>1, SeqEqual
<1>10. IsPrefix(s, m)
  <2>1. Len(s) <= Len(m)
    BY <1>2, <1>3, <1>6
  <2>2. SubSeq(s, 1, Len(s)) = s
    BY <1>2, SubSeqFull
  <2>3. \A i \in 1..(lg + lb) : m[i] \in T
    BY <1>2, <1>8, ElementOfSeq
  <2>4. /\ SubSeq(m, 1, lg + lb) \in Seq(T)
        /\ Len(SubSeq(m, 1, lg + lb))
             = IF 1 <= lg + lb THEN (lg + lb) - 1 + 1 ELSE 0
        /\ \A i \in 1..((lg + lb) - 1 + 1) :
             SubSeq(m, 1, lg + lb)[i] = m[1 + i - 1]
    BY <2>3, SubSeqProperties
  <2>5. /\ Len(SubSeq(m, 1, lg + lb)) = lg + lb
        /\ \A i \in 1..(lg + lb) : SubSeq(m, 1, lg + lb)[i] = m[i]
    BY <2>4
  <2>6. SubSeq(m, 1, lg + lb) = s
    BY <1>2, <1>8, <2>4, <2>5, SeqEqual
  <2>7. QED
    BY <1>2, <2>1, <2>2, <2>6 DEF IsPrefix
<1>11. QED
  BY <1>1, <1>9, <1>10 DEF s, m

(* Nothing is published twice or has two edges in the graph, and a         *)
(* subscription has been given what was published since it began, in       *)
(* order, all of it while Redis serves it (_publish_event, the listener's  *)
(* loop, the SSE generator and neo4j_sync).                                *)
THEOREM DeliveryFaithful == EventsSpec => []DeliveryIsFaithful
<1>1. EvInv => DeliveryIsFaithful
  <2> SUFFICES ASSUME EvInv
               PROVE  DeliveryIsFaithful
    OBVIOUS
  <2>1. \A t \in Tasks : graph[t] <= 1
    BY DEF EvInv, OpsOK
  <2>2. /\ published \in Seq(Tasks) /\ DOMAIN published = 1..Len(published)
        /\ Len(published) \in Nat
        /\ \A i, j \in 1..Len(published) : published[i] = published[j] => i = j
    BY DEF EvInv, OpsOK
  <2>3. IsInjective(published)
    BY <2>2 DEF IsInjective
  <2>4. ASSUME NEW x \in Subs, conn[x] = "open"
        PROVE  IF x \in alive THEN Given(x) = Missed(x)
               ELSE IsPrefix(Given(x), Missed(x))
    <3>1. /\ FedInOrder(x) /\ got[x] \in Seq(Tasks) /\ buf[x] \in Seq(Tasks)
          /\ since[x] \in 0..Len(published)
      BY DEF EvInv, SubsOK, FedInOrder
    <3>2. /\ IsPrefix(Given(x), Missed(x))
          /\ since[x] + Len(got[x]) + Len(buf[x]) = Len(published) =>
               Given(x) = Missed(x)
      <4>1. /\ since[x] + Len(got[x]) + Len(buf[x]) <= Len(published)
            /\ \A i \in 1..Len(got[x]) : got[x][i] = published[since[x] + i]
            /\ \A i \in 1..Len(buf[x]) :
                 buf[x][i] = published[since[x] + Len(got[x]) + i]
        BY <3>1 DEF FedInOrder
      <4>2. /\ IsPrefix(got[x] \o buf[x],
                        SubSeq(published, since[x] + 1, Len(published)))
            /\ since[x] + Len(got[x]) + Len(buf[x]) = Len(published) =>
                 got[x] \o buf[x]
                   = SubSeq(published, since[x] + 1, Len(published))
        <5>1. PICK p \in Seq(Tasks), g \in Seq(Tasks), b \in Seq(Tasks) :
                p = published /\ g = got[x] /\ b = buf[x]
          BY <2>2, <3>1
        <5>2. PICK f \in 0..Len(p) : f = since[x]
          BY <3>1, <5>1
        <5>3. /\ f + Len(g) + Len(b) <= Len(p)
              /\ \A i \in 1..Len(g) : g[i] = p[f + i]
              /\ \A i \in 1..Len(b) : b[i] = p[f + Len(g) + i]
          BY <4>1, <5>1, <5>2, Zenon
        <5>4. /\ IsPrefix(g \o b, SubSeq(p, f + 1, Len(p)))
              /\ f + Len(g) + Len(b) = Len(p) =>
                   g \o b = SubSeq(p, f + 1, Len(p))
          BY <5>3, PartsArePrefix
        <5>5. QED
          BY <5>1, <5>2, <5>4, Zenon
      <4>3. QED
        BY <4>2 DEF Given, Missed
    <3>3. x \in alive => since[x] + Len(got[x]) + Len(buf[x]) = Len(published)
      BY <3>1 DEF FedInOrder
    <3>4. QED
      BY <3>2, <3>3
  <2>5. QED
    BY <2>1, <2>3, <2>4 DEF DeliveryIsFaithful
<1>2. QED
  BY <1>1, EvInitInv, EvNextInv, PTL DEF EventsSpec

(* In any period the listener runs at most Rate callbacks more than the    *)
(* period has units of time, whatever the rate (_acquire_rate_limit_token).*)
THEOREM CallbacksBounded == EventsSpec => []CallbacksAreBounded
<1>1. EvInv => CallbacksAreBounded
  <2> SUFFICES ASSUME EvInv
               PROVE  CallbacksAreBounded
    OBVIOUS
  <2>1. DOMAIN calls = 1..Len(calls)
    BY DEF EvInv, BucketOK
  <2>2. \A i, j \in 1..Len(calls) : i <= j =>
          (j - i) + 1 <= Rate + (calls[j] - calls[i])
    BY DEF EvInv, BucketOK
  <2>3. QED
    BY <2>1, <2>2 DEF CallbacksAreBounded
<1>2. QED
  BY <1>1, EvInitInv, EvNextInv, PTL DEF EventsSpec


-----------------------------------------------------------------------------
(* Agent.  While a chat is open its client has seen texts and notices of   *)
(* retries only, which its end completes with one outcome.                 *)

Body == {"text", "retrying"}
Count(o, c) == Cardinality({i \in DOMAIN o : o[i] = c})
Fits(a, b) ==
  /\ b = "text" => a = "retrying"
  /\ a \in Verdicts \cup Marks => b \in Marks
Talk(o) == \A i \in 2..Len(o) : Fits(o[i - 1], o[i])
EndedAs(md, m, o) ==
  /\ Last(o) = IF md = "sse" THEN "end"
               ELSE IF Count(o, "abort") > 0 THEN "abort"
               ELSE IF md = "grpcStream" THEN m
               ELSE o[1]
  /\ md # "plain" => Count(o, m) + Count(o, "error") + Count(o, "abort") = 1

MetaOf(k) == IF k THEN "cited" ELSE "meta"

(* Mode, stage, attempt, sources and output of a chat that is open, and of *)
(* any chat.                                                               *)
OpenShape(md, g, o) ==
  /\ \A i \in 1..Len(o) : o[i] \in Body
  /\ md = "plain" => o = <<>>
  /\ g = "stream" => md # "plain"
  /\ g # "stream" /\ o # <<>> => Last(o) # "text"

Shape(md, g, a, k, o) ==
  /\ md # "plain" => Count(o, "retrying") = a
  /\ Talk(o)
  /\ g # "done" => OpenShape(md, g, o)
  /\ g = "done" => EndedAs(md, MetaOf(k), o)

ChatOK(t) == Shape(mode[t], stage[t], attempt[t], sources[t], out[t])

ChatsType ==
  /\ indexed \in BOOLEAN /\ hasKey \in BOOLEAN
  /\ mode \in [Tasks -> Modes] /\ stage \in [Tasks -> Stages]
  /\ attempt \in [Tasks -> 0..MaxRetries]
  /\ sources \in [Tasks -> BOOLEAN]
  /\ out \in [Tasks -> Seq(Chunks)]
  /\ \A t \in Tasks : pc[t] = "in" <=> stage[t] = "calling"

AgInv == IInv /\ ChatsType /\ \A t \in Tasks : ChatOK(t)


LEMMA CountNat ==
  ASSUME NEW o \in Seq(Chunks), NEW c
  PROVE  /\ Count(o, c) \in Nat
         /\ IsFiniteSet({i \in DOMAIN o : o[i] = c})
         /\ (\A i \in 1..Len(o) : o[i] # c) => Count(o, c) = 0
<1>1. DOMAIN o = 1..Len(o) /\ Len(o) \in Nat
  BY LenProperties
<1>2. IsFiniteSet(DOMAIN o)
  BY <1>1, FS_Interval
<1>3. IsFiniteSet({i \in DOMAIN o : o[i] = c})
  BY <1>2, FS_Subset
<1>4. ASSUME \A i \in 1..Len(o) : o[i] # c
      PROVE  Count(o, c) = 0
  <2>1. {i \in DOMAIN o : o[i] = c} = {}
    BY <1>1, <1>4
  <2>2. QED
    BY <2>1, FS_EmptySet DEF Count
<1>5. QED
  BY <1>3, <1>4, FS_CardinalityType DEF Count

LEMMA CountOneMore ==
  ASSUME NEW o \in Seq(Chunks), NEW c \in Chunks, NEW d
  PROVE  Count(Append(o, c), d) = IF c = d THEN Count(o, d) + 1 ELSE Count(o, d)
<1> DEFINE S == {i \in DOMAIN o : o[i] = d}
           R == {i \in DOMAIN Append(o, c) : Append(o, c)[i] = d}
<1>1. PICK n \in Nat : n = Len(o)
  BY LenProperties
<1>2. /\ DOMAIN o = 1..n
      /\ DOMAIN Append(o, c) = 1..(n + 1)
      /\ \A i \in 1..n : Append(o, c)[i] = o[i]
      /\ Append(o, c)[n + 1] = c
  BY <1>1
<1>3. IsFiniteSet(S) /\ n + 1 \notin S
  <2>1. IsFiniteSet(S)
    BY CountNat
  <2>2. n + 1 \notin S
    BY <1>2
  <2>3. QED
    BY <2>1, <2>2
<1>4. CASE c = d
  <2>1. R = S \cup {n + 1}
    BY <1>2, <1>4
  <2>2. Cardinality(R) = Cardinality(S) + 1
    BY <1>3, <2>1, FS_AddElement
  <2>3. QED
    BY <1>4, <2>2 DEF Count
<1>5. CASE c # d
  <2>1. R = S
    BY <1>2, <1>5
  <2>2. QED
    BY <1>5, <2>1 DEF Count
<1>6. QED
  BY <1>4, <1>5

(* One chunk more, after one it fits.                                      *)
LEMMA TalkOneMore ==
  ASSUME NEW o \in Seq(Chunks), NEW c \in Chunks, Talk(o),
         o # <<>> => Fits(Last(o), c)
  PROVE  /\ Append(o, c) \in Seq(Chunks) /\ Append(o, c) # <<>>
         /\ Last(Append(o, c)) = c
         /\ Talk(Append(o, c))
<1>1. PICK n \in Nat : n = Len(o)
  BY LenProperties
<1>2. /\ Append(o, c) \in Seq(Chunks) /\ Len(Append(o, c)) = n + 1
      /\ \A i \in 1..n : Append(o, c)[i] = o[i]
      /\ Append(o, c)[n + 1] = c
  BY <1>1
<1>3. Append(o, c) # <<>>
  BY AppendProperties
<1>4. ASSUME NEW i \in 2..(n + 1)
      PROVE  Fits(Append(o, c)[i - 1], Append(o, c)[i])
  <2>1. CASE i = n + 1
    <3>1. n \in 1..n /\ i - 1 = n /\ o # <<>>
      BY <1>1, <2>1
    <3>2. Fits(o[n], c)
      BY <1>1, <3>1 DEF Last
    <3>3. QED
      BY <1>2, <2>1, <3>1, <3>2
  <2>2. CASE i \in 2..n
    <3>1. i - 1 \in 1..n /\ i \in 1..n
      BY <2>2
    <3>2. Fits(o[i - 1], o[i])
      BY <1>1, <2>2 DEF Talk
    <3>3. QED
      BY <1>2, <3>1, <3>2
  <2>3. i = n + 1 \/ i \in 2..n
    OBVIOUS
  <2>4. QED
    BY <2>1, <2>2, <2>3
<1>5. QED
  BY <1>2, <1>3, <1>4 DEF Talk, Last

LEMMA EmptyTalk ==
  /\ <<>> \in Seq(Chunks) /\ Talk(<<>>) /\ \A c : Count(<<>>, c) = 0
  /\ \A i \in 1..Len(<<>>) : <<>>[i] \in Body
<1>1. <<>> \in Seq(Chunks) /\ Len(<<>>) = 0
  BY EmptySeq
<1>2. Talk(<<>>) /\ \A i \in 1..Len(<<>>) : <<>>[i] \in Body
  BY <1>1 DEF Talk
<1>3. ASSUME NEW c
      PROVE  Count(<<>>, c) = 0
  <2>1. \A i \in 1..Len(<<>>) : <<>>[i] # c
    BY <1>1
  <2>2. QED
    BY <1>1, <2>1, CountNat
<1>4. QED
  BY <1>1, <1>2, <1>3

(* Chunks sent together are chunks sent one after the other.               *)
LEMMA SendParts ==
  ASSUME NEW o \in Seq(Chunks), NEW a \in Chunks, NEW b \in Chunks,
         NEW c \in Chunks
  PROVE  /\ o \o <<>> = o /\ o \o <<a>> = Append(o, a)
         /\ o \o (<<>> \o <<a>>) = Append(o, a)
         /\ o \o (<<a>> \o <<b>>) = Append(Append(o, a), b)
         /\ o \o (<<>> \o <<a, b>>) = Append(Append(o, a), b)
         /\ o \o <<a, b>> = Append(Append(o, a), b)
         /\ o \o (<<a>> \o <<b, c>>) = Append(Append(Append(o, a), b), c)
<1>1. o \o <<>> = o
  BY ConcatEmptySeq
<1>2. \A s \in Seq(Chunks), d \in Chunks : s \o <<d>> = Append(s, d)
  OBVIOUS
<1>3. <<a>> \in Seq(Chunks) /\ <<b>> \in Seq(Chunks) /\ <<c>> \in Seq(Chunks)
  OBVIOUS
<1>4. <<>> \o <<a>> = <<a>> /\ <<>> \o <<a, b>> = <<a, b>>
  OBVIOUS
<1>5. <<a, b>> = <<a>> \o <<b>> /\ <<b, c>> = <<b>> \o <<c>>
  <2>1. <<a>> \o <<b>> = Append(<<a>>, b) /\ <<b>> \o <<c>> = Append(<<b>>, c)
    BY <1>2, <1>3
  <2>2. ASSUME NEW u \in Chunks, NEW v \in Chunks
        PROVE  <<u, v>> = Append(<<u>>, v)
    <3>1. /\ <<u, v>> \in Seq(Chunks) /\ Len(<<u, v>>) = 2
          /\ <<u, v>>[1] = u /\ <<u, v>>[2] = v
      OBVIOUS
    <3>2. /\ <<u>> \in Seq(Chunks) /\ Len(<<u>>) = 1 /\ <<u>>[1] = u
      OBVIOUS
    <3>3. /\ Append(<<u>>, v) \in Seq(Chunks) /\ Len(Append(<<u>>, v)) = 2
          /\ Append(<<u>>, v)[1] = u /\ Append(<<u>>, v)[2] = v
      BY <3>2, AppendProperties
    <3>4. \A i \in 1..Len(<<u, v>>) : <<u, v>>[i] = Append(<<u>>, v)[i]
      <4>1. \A i \in 1..Len(<<u, v>>) : i = 1 \/ i = 2
        BY <3>1
      <4>2. QED
        BY <3>1, <3>3, <4>1
    <3>5. QED
      BY <3>1, <3>3, <3>4, SeqEqual
  <2>3. QED
    BY <2>1, <2>2
<1>6. /\ Append(o, a) \in Seq(Chunks)
      /\ Append(Append(o, a), b) \in Seq(Chunks)
  OBVIOUS
<1>7. o \o (<<a>> \o <<b>>) = Append(Append(o, a), b)
  <2>1. o \o (<<a>> \o <<b>>) = (o \o <<a>>) \o <<b>>
    BY <1>3, ConcatAssociative
  <2>2. QED
    BY <1>2, <1>6, <2>1
<1>8. o \o (<<a>> \o <<b, c>>) = Append(Append(Append(o, a), b), c)
  <2>1. <<b>> \o <<c>> \in Seq(Chunks)
    BY <1>3, ConcatProperties
  <2>2. o \o (<<a>> \o <<b, c>>) = (o \o <<a>>) \o (<<b>> \o <<c>>)
    BY <1>3, <1>5, <2>1, ConcatAssociative
  <2>3. (o \o <<a>>) \o (<<b>> \o <<c>>) = ((o \o <<a>>) \o <<b>>) \o <<c>>
    BY <1>2, <1>3, <1>6, ConcatAssociative
  <2>4. QED
    BY <1>2, <1>6, <2>2, <2>3
<1>9. QED
  BY <1>1, <1>2, <1>4, <1>5, <1>7, <1>8


(* What an open chat has sent counts no outcome, and any verdict or mark   *)
(* fits after it.                                                          *)
LEMMA OpenCounts ==
  ASSUME NEW o \in Seq(Chunks), \A i \in 1..Len(o) : o[i] \in Body
  PROVE  /\ \A c \in Marks : Count(o, c) = 0
         /\ \A c \in Verdicts \cup Marks \cup {"retrying"} :
              o # <<>> => Fits(Last(o), c)
<1>1. ASSUME NEW c \in Marks
      PROVE  Count(o, c) = 0
  <2>1. \A i \in 1..Len(o) : o[i] # c
    BY DEF Body, Marks
  <2>2. QED
    BY <2>1, CountNat
<1>2. o # <<>> => Last(o) \in Body
  <2>1. o # <<>> => Len(o) \in 1..Len(o)
    BY EmptySeq
  <2>2. QED
    BY <2>1 DEF Last
<1>3. \A c \in Verdicts \cup Marks \cup {"retrying"} :
        o # <<>> => Fits(Last(o), c)
  BY <1>2 DEF Fits, Body, Verdicts, Marks
<1>4. QED
  BY <1>1, <1>3

LEMMA RaiseShape ==
  ASSUME NEW o \in Seq(Chunks), \A i \in 1..Len(o) : o[i] \in Body, Talk(o),
         NEW md \in Modes, NEW m \in {"meta", "cited"}, NEW r,
         r = o \o (IF md = "sse" THEN <<"error", "end">> ELSE <<"abort">>)
  PROVE  /\ r \in Seq(Chunks) /\ Talk(r) /\ EndedAs(md, m, r)
         /\ Count(r, "retrying") = Count(o, "retrying")
<1>1. /\ \A c \in Marks : Count(o, c) = 0
      /\ o # <<>> => Fits(Last(o), "error") /\ Fits(Last(o), "abort")
      /\ {"error", "end", "abort"} \subseteq Chunks
  BY OpenCounts DEF Marks, Chunks
<1>2. CASE md = "sse"
  <2> DEFINE q == Append(o, "error")
  <2>1. r = Append(q, "end")
    BY <1>1, <1>2, SendParts
  <2>2. q \in Seq(Chunks) /\ Talk(q) /\ q # <<>> /\ Last(q) = "error"
    BY <1>1, TalkOneMore
  <2>3. \A d : Count(q, d) = IF d = "error" THEN Count(o, d) + 1 ELSE Count(o, d)
    BY <1>1, CountOneMore
  <2> HIDE DEF q
  <2>4. r \in Seq(Chunks) /\ Talk(r) /\ Last(r) = "end"
    BY <1>1, <2>1, <2>2, TalkOneMore DEF Fits, Marks
  <2>5. ASSUME NEW d, d # "end"
        PROVE  Count(r, d) = Count(q, d)
    <3>1. "end" \in Chunks
      BY <1>1
    <3>2. QED
      <4>1. Count(Append(q, "end"), d) = Count(q, d)
        BY <2>2, <2>5, <3>1, CountOneMore
      <4>2. QED
        BY <2>1, <4>1
  <2>6. /\ Count(r, m) = 0 /\ Count(r, "error") = 1 /\ Count(r, "abort") = 0
        /\ Count(r, "retrying") = Count(o, "retrying")
    BY <1>1, <2>3, <2>5 DEF Marks
  <2>7. QED
    BY <1>2, <2>4, <2>6 DEF EndedAs
<1>3. CASE md # "sse"
  <2>1. r = Append(o, "abort")
    BY <1>1, <1>3, SendParts
  <2>2. r \in Seq(Chunks) /\ Talk(r) /\ Last(r) = "abort"
    BY <1>1, <2>1, TalkOneMore
  <2>3. ASSUME NEW d
        PROVE  Count(r, d) = IF d = "abort" THEN Count(o, d) + 1 ELSE Count(o, d)
    <3>1. "abort" \in Chunks
      BY <1>1
    <3>2. QED
      <4>1. Count(Append(o, "abort"), d)
              = IF d = "abort" THEN Count(o, d) + 1 ELSE Count(o, d)
        BY <3>1, CountOneMore
      <4>2. QED
        BY <2>1, <4>1
  <2>4. /\ Count(r, m) = 0 /\ Count(r, "error") = 0 /\ Count(r, "abort") = 1
        /\ Count(r, "retrying") = Count(o, "retrying")
    BY <1>1, <2>3 DEF Marks
  <2>5. QED
    BY <1>3, <2>2, <2>4 DEF EndedAs
<1>4. QED
  BY <1>2, <1>3

LastParts == {<<>>, <<"nothing">>, <<"unavailable">>}
Closing(md, m, s) == IF md = "sse" THEN s \o <<m, "end">> ELSE s \o <<m>>

LEMMA FinishShape ==
  ASSUME NEW o \in Seq(Chunks), \A i \in 1..Len(o) : o[i] \in Body, Talk(o),
         NEW md \in Modes \ {"plain"}, NEW m \in {"meta", "cited"}, NEW r,
         NEW s \in LastParts, r = o \o Closing(md, m, s)
  PROVE  /\ r \in Seq(Chunks) /\ Talk(r) /\ EndedAs(md, m, r)
         /\ Count(r, "retrying") = Count(o, "retrying")
<1>1. /\ \A c \in Marks : Count(o, c) = 0
      /\ \A c \in Verdicts \cup Marks : o # <<>> => Fits(Last(o), c)
      /\ {m, "end", "nothing", "unavailable", "error"} \subseteq Chunks
      /\ m \in Marks
  BY OpenCounts DEF Marks, Chunks
<1>2. PICK q \in Seq(Chunks) :
        /\ Talk(q) /\ (q # <<>> => Fits(Last(q), m))
        /\ \A d \in Marks \cup {"retrying"} : Count(q, d) = Count(o, d)
        /\ o \o (s \o <<m>>) = Append(q, m)
        /\ o \o (s \o <<m, "end">>) = Append(Append(q, m), "end")
  <2>1. CASE s = <<>>
    <3>1. /\ o \o (s \o <<m>>) = Append(o, m)
          /\ o \o (s \o <<m, "end">>) = Append(Append(o, m), "end")
      BY <1>1, <2>1, SendParts
    <3>2. QED
      BY <1>1, <3>1
  <2>2. CASE s # <<>>
    <3>1. PICK v \in Verdicts : s = <<v>>
      BY <2>2 DEF Verdicts, LastParts
    <3>2. v \in Chunks
      BY DEF Verdicts, Chunks
    <3>3. /\ o \o (s \o <<m>>) = Append(Append(o, v), m)
          /\ o \o (s \o <<m, "end">>) = Append(Append(Append(o, v), m), "end")
      BY <1>1, <3>1, <3>2, SendParts, SMTT(40)
    <3>4. /\ Append(o, v) \in Seq(Chunks) /\ Talk(Append(o, v))
          /\ Last(Append(o, v)) = v
      BY <1>1, <3>2, TalkOneMore
    <3>5. \A d \in Marks \cup {"retrying"} : Count(Append(o, v), d) = Count(o, d)
      <4>1. \A d \in Marks \cup {"retrying"} : d # v
        BY DEF Verdicts, Marks
      <4>2. QED
        BY <3>2, <4>1, CountOneMore
    <3>6. Fits(v, m)
      BY <1>1 DEF Fits, Verdicts
    <3>7. QED
      BY <3>3, <3>4, <3>5, <3>6
  <2>3. QED
    BY <2>1, <2>2
<1>3. /\ Append(q, m) \in Seq(Chunks) /\ Talk(Append(q, m))
      /\ Append(q, m) # <<>> /\ Last(Append(q, m)) = m
  BY <1>1, <1>2, TalkOneMore
<1>4. \A d : Count(Append(q, m), d) = IF d = m THEN Count(q, d) + 1 ELSE Count(q, d)
  BY <1>1, CountOneMore
<1>5. /\ Count(Append(q, m), m) = 1 /\ Count(Append(q, m), "error") = 0
      /\ Count(Append(q, m), "abort") = 0
      /\ Count(Append(q, m), "retrying") = Count(o, "retrying")
  BY <1>1, <1>2, <1>4 DEF Marks
<1>6. CASE md = "sse"
  <2>1. r = Append(Append(q, m), "end")
    BY <1>2, <1>6 DEF Closing
  <2>2. r \in Seq(Chunks) /\ Talk(r) /\ Last(r) = "end"
    <3>1. Fits(m, "end") /\ "end" \in Chunks
      BY <1>1 DEF Fits, Marks
    <3>2. QED
      BY <1>3, <2>1, <3>1, TalkOneMore
  <2>3. ASSUME NEW d, d # "end"
        PROVE  Count(r, d) = Count(Append(q, m), d)
    <3>1. "end" \in Chunks
      BY <1>1
    <3>2. QED
      <4>1. Count(Append(Append(q, m), "end"), d) = Count(Append(q, m), d)
        <5>1. PICK w, z : w = Append(q, m) /\ z = "end"
          OBVIOUS
        <5>2. w \in Seq(Chunks) /\ z \in Chunks /\ d # z
          BY <1>3, <2>3, <3>1, <5>1
        <5>3. Count(Append(w, z), d) = Count(w, d)
          BY <5>2, CountOneMore
        <5>4. QED
          BY <5>1, <5>3
      <4>2. QED
        BY <2>1, <4>1
  <2>4. /\ Count(r, m) = 1 /\ Count(r, "error") = 0 /\ Count(r, "abort") = 0
        /\ Count(r, "retrying") = Count(o, "retrying")
    BY <1>5, <2>3
  <2>5. QED
    BY <1>6, <2>2, <2>4 DEF EndedAs
<1>7. CASE md = "grpcStream"
  <2>1. r = Append(q, m)
    BY <1>2, <1>7 DEF Closing
  <2>2. /\ r \in Seq(Chunks) /\ Talk(r) /\ Last(r) = m
        /\ Count(r, m) = 1 /\ Count(r, "error") = 0 /\ Count(r, "abort") = 0
        /\ Count(r, "retrying") = Count(o, "retrying")
    BY <1>3, <1>5, <2>1
  <2>3. QED
    BY <1>7, <2>2 DEF EndedAs
<1>8. QED
  BY <1>6, <1>7 DEF Modes

LEMMA PlainShape ==
  ASSUME NEW c \in {"text", "nothing", "unavailable"}, NEW m, NEW r,
         r = <<>> \o <<c>>
  PROVE  r \in Seq(Chunks) /\ Talk(r) /\ EndedAs("plain", m, r)
<1>1. c \in Chunks /\ <<>> \in Seq(Chunks) /\ c # "abort"
  BY EmptySeq DEF Chunks
<1>2. r = Append(<<>>, c)
  BY <1>1, SendParts
<1>3. r \in Seq(Chunks) /\ Talk(r) /\ Last(r) = c
  BY <1>1, <1>2, EmptyTalk, TalkOneMore
<1>4. r[1] = c /\ Count(r, "abort") = 0
  <2>1. Len(<<>>) = 0
    BY EmptySeq
  <2>2. r[1] = c
    BY <1>1, <1>2, <2>1, AppendProperties
  <2>3. Count(r, "abort") = Count(<<>>, "abort")
    <3>1. Count(Append(<<>>, c), "abort") = Count(<<>>, "abort")
      BY <1>1, CountOneMore
    <3>2. QED
      BY <1>2, <3>1
  <2>4. QED
    BY <2>2, <2>3, EmptyTalk
<1>5. QED
  BY <1>3, <1>4 DEF EndedAs


LEMMA BodyOneMore ==
  ASSUME NEW o \in Seq(Chunks), \A i \in 1..Len(o) : o[i] \in Body,
         NEW c \in Body
  PROVE  \A i \in 1..Len(Append(o, c)) : Append(o, c)[i] \in Body
<1>1. PICK n \in Nat : n = Len(o)
  BY LenProperties
<1>2. c \in Chunks
  BY DEF Body, Chunks
<1>3. /\ Len(Append(o, c)) = n + 1 /\ Append(o, c)[n + 1] = c
      /\ \A i \in 1..n : Append(o, c)[i] = o[i]
  BY <1>1, <1>2, AppendProperties
<1>4. \A i \in 1..(n + 1) : i = n + 1 \/ i \in 1..n
  OBVIOUS
<1>5. QED
  BY <1>1, <1>3, <1>4

(* One chat changes, to a consistent state; the breaker knows of it.       *)
LEMMA ChatStep ==
  ASSUME ChatsType, \A u \in Tasks : ChatOK(u), NEW t \in Tasks,
         NEW md \in Modes, NEW g \in Stages, NEW a \in 0..MaxRetries,
         NEW k \in BOOLEAN, NEW o \in Seq(Chunks), Shape(md, g, a, k, o),
         mode' = [mode EXCEPT ![t] = md], stage' = [stage EXCEPT ![t] = g],
         attempt' = [attempt EXCEPT ![t] = a],
         sources' = [sources EXCEPT ![t] = k], out' = [out EXCEPT ![t] = o],
         indexed' = indexed, hasKey' = hasKey,
         \A u \in Tasks : u # t => pc'[u] = pc[u],
         pc'[t] = "in" <=> g = "calling"
  PROVE  ChatsType' /\ \A u \in Tasks : ChatOK(u)'
<1>1. /\ mode' \in [Tasks -> Modes] /\ stage' \in [Tasks -> Stages]
      /\ attempt' \in [Tasks -> 0..MaxRetries]
      /\ out' \in [Tasks -> Seq(Chunks)]
  BY DEF ChatsType
<1>2. sources' \in [Tasks -> BOOLEAN]
  BY DEF ChatsType
<1>3. /\ mode'[t] = md /\ stage'[t] = g /\ attempt'[t] = a /\ sources'[t] = k
      /\ out'[t] = o
      /\ \A u \in Tasks : u # t =>
           /\ mode'[u] = mode[u] /\ stage'[u] = stage[u]
           /\ attempt'[u] = attempt[u] /\ sources'[u] = sources[u]
           /\ out'[u] = out[u]
  BY DEF ChatsType
<1>4. \A u \in Tasks : pc'[u] = "in" <=> stage'[u] = "calling"
  <2>1. \A u \in Tasks : pc[u] = "in" <=> stage[u] = "calling"
    BY DEF ChatsType
  <2>2. ASSUME NEW u \in Tasks, u # t
        PROVE  pc'[u] = "in" <=> stage'[u] = "calling"
    BY <1>3, <2>1, <2>2
  <2>3. pc'[t] = "in" <=> stage'[t] = "calling"
    BY <1>3
  <2>4. QED
    BY <2>2, <2>3
<1>5. indexed' \in BOOLEAN /\ hasKey' \in BOOLEAN
  BY DEF ChatsType
<1>6. \A u \in Tasks : ChatOK(u)'
  BY <1>3 DEF ChatOK
<1>7. QED
  BY <1>1, <1>2, <1>4, <1>5, <1>6 DEF ChatsType

(* What is known of a chat, and that writing what is there changes nothing.*)
LEMMA ChatFields ==
  ASSUME ChatsType, NEW t \in Tasks
  PROVE  /\ mode[t] \in Modes /\ stage[t] \in Stages
         /\ attempt[t] \in 0..MaxRetries /\ sources[t] \in BOOLEAN
         /\ out[t] \in Seq(Chunks)
         /\ mode = [mode EXCEPT ![t] = mode[t]]
         /\ stage = [stage EXCEPT ![t] = stage[t]]
         /\ attempt = [attempt EXCEPT ![t] = attempt[t]]
         /\ sources = [sources EXCEPT ![t] = sources[t]]
         /\ out = [out EXCEPT ![t] = out[t]]
         /\ (pc[t] = "in" <=> stage[t] = "calling")
<1>1. sources[t] \in BOOLEAN /\ sources = [sources EXCEPT ![t] = sources[t]]
  BY DEF ChatsType
<1>2. QED
  BY <1>1 DEF ChatsType

(* A new chat, or none.                                                    *)
LEMMA FreshShape ==
  ASSUME NEW md \in Modes, NEW g \in Stages \ {"stream", "done"}
  PROVE  Shape(md, g, 0, FALSE, <<>>)
BY EmptyTalk DEF Shape, OpenShape

(* A chat moves on without sending anything.                               *)
LEMMA QuietShape ==
  ASSUME NEW md, NEW g, NEW h, NEW a, NEW k, NEW l, NEW o,
         Shape(md, g, a, k, o), g \notin {"stream", "done"}, h # "done",
         h = "stream" => md # "plain"
  PROVE  Shape(md, h, a, l, o)
BY DEF Shape, OpenShape

LEMMA RetryShape ==
  ASSUME NEW md \in Modes, NEW g \in Stages \ {"done"}, NEW a \in Nat, NEW k,
         NEW o \in Seq(Chunks), Shape(md, g, a, k, o), NEW r,
         r = o \o (IF md # "plain" THEN <<"retrying">> ELSE <<>>)
  PROVE  r \in Seq(Chunks) /\ Shape(md, "sleep", a + 1, k, r)
<1>1. "retrying" \in Chunks /\ OpenShape(md, g, o) /\ Talk(o)
  BY DEF Chunks, Shape
<1>2. CASE md = "plain"
  <2>1. o = <<>> /\ r = <<>>
    BY <1>1, <1>2, SendParts DEF OpenShape
  <2>2. QED
    BY <1>2, <2>1, EmptyTalk DEF Shape, OpenShape
<1>3. CASE md # "plain"
  <2>1. r = Append(o, "retrying")
    BY <1>1, <1>3, SendParts
  <2>2. o # <<>> => Fits(Last(o), "retrying")
    BY <1>1, OpenCounts DEF OpenShape
  <2>3. Append(o, "retrying") \in Seq(Chunks) /\ Talk(Append(o, "retrying"))
        /\ Last(Append(o, "retrying")) = "retrying"
    BY <1>1, <2>2, TalkOneMore
  <2>4. Count(Append(o, "retrying"), "retrying") = a + 1
    BY <1>1, <1>3, CountOneMore DEF Shape
  <2>5. \A i \in 1..Len(Append(o, "retrying")) : Append(o, "retrying")[i] \in Body
    BY <1>1, BodyOneMore DEF OpenShape, Body
  <2>6. QED
    BY <1>3, <2>1, <2>3, <2>4, <2>5 DEF Shape, OpenShape
<1>4. QED
  BY <1>2, <1>3

LEMMA TokenShape ==
  ASSUME NEW md \in Modes, NEW a, NEW k,
         NEW o \in Seq(Chunks), Shape(md, "stream", a, k, o),
         o # <<>> => Last(o) # "text"
  PROVE  /\ Append(o, "text") \in Seq(Chunks)
         /\ Shape(md, "stream", a, k, Append(o, "text"))
<1>1. "text" \in Chunks /\ OpenShape(md, "stream", o) /\ Talk(o)
  BY DEF Chunks, Shape
<1>2. o # <<>> => Fits(Last(o), "text")
  <2>1. o # <<>> => Last(o) \in Body
    <3>1. o # <<>> => Len(o) \in 1..Len(o)
      BY EmptySeq
    <3>2. QED
      BY <1>1, <3>1 DEF Last, OpenShape
  <2>2. QED
    BY <2>1 DEF Fits, Body, Verdicts, Marks
<1>3. Append(o, "text") \in Seq(Chunks) /\ Talk(Append(o, "text"))
  BY <1>1, <1>2, TalkOneMore
<1>4. Count(Append(o, "text"), "retrying") = Count(o, "retrying")
  BY <1>1, CountOneMore
<1>5. \A i \in 1..Len(Append(o, "text")) : Append(o, "text")[i] \in Body
  BY <1>1, BodyOneMore DEF OpenShape, Body
<1>6. QED
  BY <1>1, <1>3, <1>4, <1>5 DEF Shape, OpenShape


(* What the steps that end an attempt leave alone.                         *)
Aside(t) ==
  /\ indexed' = indexed /\ hasKey' = hasKey /\ mode' = mode
  /\ sources' = sources
  /\ \A u \in Tasks : u # t => pc'[u] = pc[u]
  /\ pc'[t] # "in"

ChatsOK == ChatsType /\ \A t \in Tasks : ChatOK(t)

LEMMA AsideStep ==
  ASSUME ChatsOK, NEW t \in Tasks, Aside(t), NEW g \in Stages \ {"calling"},
         NEW a \in 0..MaxRetries, NEW o \in Seq(Chunks),
         stage' = [stage EXCEPT ![t] = g],
         attempt' = [attempt EXCEPT ![t] = a], out' = [out EXCEPT ![t] = o],
         Shape(mode[t], g, a, sources[t], o)
  PROVE  ChatsOK'
<1>1. ChatsType /\ \A u \in Tasks : ChatOK(u)
  BY DEF ChatsOK
<1>2. PICK md \in Modes, k \in BOOLEAN : md = mode[t] /\ k = sources[t]
  BY <1>1, ChatFields
<1>3. mode' = [mode EXCEPT ![t] = md] /\ sources' = [sources EXCEPT ![t] = k]
  BY <1>1, <1>2, ChatFields DEF Aside
<1>4. /\ indexed' = indexed /\ hasKey' = hasKey
      /\ \A u \in Tasks : u # t => pc'[u] = pc[u]
  BY DEF Aside
<1>5. pc'[t] = "in" <=> g = "calling"
  BY DEF Aside
<1>6. Shape(md, g, a, k, o)
  BY <1>2
<1>7. ChatsType' /\ \A u \in Tasks : ChatOK(u)'
  BY <1>1, <1>3, <1>4, <1>5, <1>6, ChatStep
<1>8. QED
  BY <1>7 DEF ChatsOK

LEMMA RaiseStep ==
  ASSUME ChatsOK, NEW t \in Tasks, stage[t] # "done", Raise(t), Aside(t)
  PROVE  ChatsOK'
<1>1. ChatsType /\ \A u \in Tasks : ChatOK(u)
  BY DEF ChatsOK
<1>2. PICK r : r = out[t] \o (IF mode[t] = "sse" THEN <<"error", "end">>
                              ELSE <<"abort">>)
  OBVIOUS
<1>3. /\ out' = [out EXCEPT ![t] = r] /\ stage' = [stage EXCEPT ![t] = "done"]
      /\ attempt' = attempt
  BY <1>2 DEF Raise, Send, Advance
<1>4. /\ OpenShape(mode[t], stage[t], out[t]) /\ Talk(out[t])
      /\ mode[t] # "plain" => Count(out[t], "retrying") = attempt[t]
  BY <1>1 DEF ChatOK, Shape
<1>5. PICK md \in Modes, k \in BOOLEAN, o \in Seq(Chunks) :
        md = mode[t] /\ k = sources[t] /\ o = out[t]
  BY <1>1, ChatFields
<1>6. /\ r \in Seq(Chunks) /\ Talk(r) /\ EndedAs(md, MetaOf(k), r)
      /\ Count(r, "retrying") = Count(o, "retrying")
  <2>1. MetaOf(k) \in {"meta", "cited"}
    BY DEF MetaOf
  <2>2. \A i \in 1..Len(o) : o[i] \in Body
    BY <1>4, <1>5 DEF OpenShape
  <2>3. r = o \o (IF md = "sse" THEN <<"error", "end">> ELSE <<"abort">>)
    BY <1>2, <1>5
  <2>4. Talk(o)
    BY <1>4, <1>5
  <2>5. QED
    BY <2>1, <2>2, <2>3, <2>4, RaiseShape, ZenonT(60)
<1>7. Shape(mode[t], "done", attempt[t], sources[t], r)
  BY <1>4, <1>5, <1>6 DEF Shape
<1>8. QED
  <2>1. attempt' = [attempt EXCEPT ![t] = attempt[t]] /\ attempt[t] \in 0..MaxRetries
    BY <1>1, <1>3, ChatFields
  <2>2. "done" \in Stages \ {"calling"}
    BY DEF Stages
  <2>3. QED
    BY <1>3, <1>6, <1>7, <2>1, <2>2, AsideStep

LEMMA AfterFailureStep ==
  ASSUME ChatsOK, NEW t \in Tasks, stage[t] # "done", Aside(t),
         NEW retryable, AfterFailure(t, retryable)
  PROVE  ChatsOK'
<1>1. ChatsType /\ \A u \in Tasks : ChatOK(u)
  BY DEF ChatsOK
<1>2. CASE ~(retryable /\ attempt[t] < MaxRetries)
  BY <1>2, RaiseStep DEF AfterFailure
<1>3. CASE retryable /\ attempt[t] < MaxRetries
  <2>1. PICK r : r = out[t] \o (IF mode[t] # "plain" THEN <<"retrying">>
                                ELSE <<>>)
    OBVIOUS
  <2>2. /\ out' = [out EXCEPT ![t] = r]
        /\ stage' = [stage EXCEPT ![t] = "sleep"]
        /\ attempt' = [attempt EXCEPT ![t] = attempt[t] + 1]
    BY <1>3, <2>1 DEF AfterFailure, Send, Advance, Streaming
  <2>3. attempt[t] \in Nat /\ attempt[t] + 1 \in 0..MaxRetries
    BY <1>1, <1>3, ChatFields, AgentAssumption
  <2>4. Shape(mode[t], stage[t], attempt[t], sources[t], out[t])
    BY <1>1 DEF ChatOK
  <2>5. /\ r \in Seq(Chunks)
        /\ Shape(mode[t], "sleep", attempt[t] + 1, sources[t], r)
    BY <1>1, <2>1, <2>3, <2>4, ChatFields, RetryShape
  <2>6. QED
    <3>1. "sleep" \in Stages \ {"calling"}
      BY DEF Stages
    <3>2. QED
      BY <2>2, <2>3, <2>5, <3>1, AsideStep
<1>4. QED
  BY <1>2, <1>3

(* An answer: its last part s, and how the mode closes it.                 *)
LEMMA FinishStep ==
  ASSUME ChatsOK, NEW t \in Tasks, stage[t] # "done", Aside(t), NEW s,
         \/ /\ mode[t] # "plain"
            /\ s \in {<<>>, <<"nothing">>, <<"unavailable">>}
         \/ /\ mode[t] = "plain"
            /\ s \in {<<"text">>, <<"nothing">>, <<"unavailable">>},
         Finish(t, s)
  PROVE  ChatsOK'
<1>1. ChatsType /\ \A u \in Tasks : ChatOK(u)
  BY DEF ChatsOK
<1>2. /\ OpenShape(mode[t], stage[t], out[t]) /\ Talk(out[t])
      /\ mode[t] # "plain" => Count(out[t], "retrying") = attempt[t]
  BY <1>1 DEF ChatOK, Shape
<1>3. PICK md \in Modes, k \in BOOLEAN, o \in Seq(Chunks) :
        md = mode[t] /\ k = sources[t] /\ o = out[t]
  BY <1>1, ChatFields
<1>4. Meta(t) = MetaOf(k) /\ MetaOf(k) \in {"meta", "cited"}
  BY <1>3 DEF Meta, MetaOf
<1>5. PICK r :
        /\ out' = [out EXCEPT ![t] = r]
        /\ r = o \o (IF md = "sse" THEN s \o <<MetaOf(k), "end">>
                     ELSE IF md = "grpcStream" THEN s \o <<MetaOf(k)>>
                     ELSE s)
  BY <1>3, <1>4 DEF Finish, Send, Modes
<1>6. stage' = [stage EXCEPT ![t] = "done"] /\ attempt' = attempt
  BY DEF Finish, Advance
<1>7. /\ r \in Seq(Chunks) /\ Talk(r) /\ EndedAs(md, MetaOf(k), r)
      /\ md # "plain" => Count(r, "retrying") = Count(o, "retrying")
  <2>1. CASE md # "plain"
    <3>1. /\ s \in {<<>>, <<"nothing">>, <<"unavailable">>}
          /\ r = o \o (IF md = "sse" THEN s \o <<MetaOf(k), "end">>
                       ELSE s \o <<MetaOf(k)>>)
      BY <1>3, <1>5, <2>1 DEF Modes
    <3>2. Talk(o) /\ \A i \in 1..Len(o) : o[i] \in Body
      BY <1>2, <1>3 DEF OpenShape
    <3>3. md \in Modes \ {"plain"}
      BY <2>1
    <3>4. PICK m \in {"meta", "cited"} : m = MetaOf(k)
      BY <1>4
    <3>5. s \in LastParts /\ r = o \o Closing(md, m, s)
      BY <3>1, <3>4 DEF Closing, LastParts
    <3>6. /\ r \in Seq(Chunks) /\ Talk(r) /\ EndedAs(md, m, r)
          /\ Count(r, "retrying") = Count(o, "retrying")
      BY <3>2, <3>3, <3>5, FinishShape
    <3>7. QED
      BY <3>4, <3>6
  <2>2. CASE md = "plain"
    <3>1. o = <<>> /\ r = o \o s
      BY <1>2, <1>3, <1>5, <2>2 DEF OpenShape
    <3>2. PICK c \in {"text", "nothing", "unavailable"} : s = <<c>>
      BY <1>3, <2>2
    <3>3. r = <<>> \o <<c>>
      BY <3>1, <3>2
    <3>4. r \in Seq(Chunks) /\ Talk(r) /\ EndedAs("plain", MetaOf(k), r)
      BY <3>3, PlainShape
    <3>5. QED
      BY <2>2, <3>4
  <2>3. QED
    BY <2>1, <2>2
<1>8. Shape(mode[t], "done", attempt[t], sources[t], r)
  BY <1>2, <1>3, <1>7 DEF Shape
<1>9. QED
  <2>1. attempt' = [attempt EXCEPT ![t] = attempt[t]] /\ attempt[t] \in 0..MaxRetries
    BY <1>1, <1>6, ChatFields
  <2>2. "done" \in Stages \ {"calling"}
    BY DEF Stages
  <2>3. QED
    BY <1>5, <1>6, <1>7, <1>8, <2>1, <2>2, AsideStep


LEMMA AgInitInv ==
  ASSUME AgentInit
  PROVE  AgInv
<1>1. IInv
  BY InitIInv DEF AgentInit
<1>2. /\ mode \in [Tasks -> Modes] /\ stage \in [Tasks -> Stages]
      /\ attempt \in [Tasks -> 0..MaxRetries]
      /\ out \in [Tasks -> Seq(Chunks)]
  BY AgentAssumption, EmptyTalk DEF AgentInit, Modes, Stages
<1>3. sources \in [Tasks -> BOOLEAN] /\ indexed \in BOOLEAN /\ hasKey \in BOOLEAN
  BY DEF AgentInit
<1>4. \A t \in Tasks : pc[t] = "in" <=> stage[t] = "calling"
  BY DEF AgentInit, Init
<1>5. ASSUME NEW t \in Tasks
      PROVE  ChatOK(t)
  <2>1. /\ mode[t] = "sse" /\ stage[t] = "idle" /\ attempt[t] = 0
        /\ sources[t] = FALSE /\ out[t] = <<>>
    BY DEF AgentInit
  <2>2. Shape("sse", "idle", 0, FALSE, <<>>)
    BY FreshShape DEF Modes, Stages
  <2>3. QED
    BY <2>1, <2>2 DEF ChatOK
<1>6. QED
  BY <1>1, <1>2, <1>3, <1>4, <1>5 DEF AgInv, ChatsType

(* Steps outside the breaker, and the three ways out of it.                *)
LEMMA AsideCases ==
  ASSUME ChatsType, IInv, NEW t \in Tasks, indexed' = indexed,
         hasKey' = hasKey, mode' = mode, sources' = sources,
         \/ UNCHANGED vars /\ stage[t] # "calling"
         \/ Succeed(t) \/ RecordFailure(t) \/ Cancel(t)
  PROVE  Aside(t)
<1>1. pc \in [Tasks -> {"out", "in"}]
  BY DEF IInv, TypeOK
<1>2. CASE UNCHANGED vars /\ stage[t] # "calling"
  BY <1>1, <1>2 DEF vars, Aside, ChatsType
<1>3. CASE Leave(t)
  BY <1>1, <1>3 DEF Leave, Aside
<1>4. QED
  BY <1>2, <1>3 DEF Succeed, RecordFailure, Cancel

(* A chat starts or is dropped.                                            *)
LEMMA FreshStep ==
  ASSUME ChatsOK, IInv, NEW t \in Tasks, Ask(t) \/ GoAway(t)
  PROVE  ChatsOK'
<1>1. ChatsType /\ \A u \in Tasks : ChatOK(u)
  BY DEF ChatsOK
<1>2. PICK md \in Modes, g \in Stages \ {"stream", "done", "calling"} :
        mode' = [mode EXCEPT ![t] = md] /\ stage' = [stage EXCEPT ![t] = g]
  <2>1. CASE Ask(t)
    <3>1. PICK md \in Modes : mode' = [mode EXCEPT ![t] = md]
      BY <2>1 DEF Ask
    <3>2. PICK g \in {"retrieve", "call"} : stage' = [stage EXCEPT ![t] = g]
      BY <2>1 DEF Ask, Advance
    <3>3. g \in Stages \ {"stream", "done", "calling"}
      BY DEF Stages
    <3>4. QED
      BY <3>1, <3>2, <3>3
  <2>2. CASE GoAway(t)
    <3>1. stage' = [stage EXCEPT ![t] = "idle"] /\ mode' = mode
      BY <2>2 DEF GoAway, Advance
    <3>2. "idle" \in Stages \ {"stream", "done", "calling"}
      BY DEF Stages
    <3>3. QED
      BY <1>1, <3>1, <3>2, ChatFields
  <2>3. QED
    BY <2>1, <2>2
<1>3. /\ attempt' = [attempt EXCEPT ![t] = 0]
      /\ sources' = [sources EXCEPT ![t] = FALSE]
      /\ out' = [out EXCEPT ![t] = <<>>]
      /\ indexed' = indexed /\ hasKey' = hasKey
  BY DEF Ask, GoAway
<1>4. /\ \A u \in Tasks : u # t => pc'[u] = pc[u]
      /\ pc'[t] # "in"
  <2>1. pc \in [Tasks -> {"out", "in"}]
    BY DEF IInv, TypeOK
  <2>2. CASE Ask(t)
    BY <1>1, <2>2 DEF Ask, vars, ChatsType
  <2>3. CASE GoAway(t) /\ stage[t] = "calling"
    BY <2>1, <2>3 DEF GoAway, Cancel, Leave
  <2>4. CASE GoAway(t) /\ stage[t] # "calling"
    BY <1>1, <2>4 DEF GoAway, vars, ChatsType
  <2>5. QED
    BY <2>2, <2>3, <2>4
<1>5. /\ Shape(md, g, 0, FALSE, <<>>) /\ <<>> \in Seq(Chunks)
      /\ 0 \in 0..MaxRetries /\ FALSE \in BOOLEAN
      /\ (pc'[t] = "in" <=> g = "calling")
  <2>1. Shape(md, g, 0, FALSE, <<>>) /\ <<>> \in Seq(Chunks)
    BY FreshShape, EmptyTalk
  <2>2. 0 \in 0..MaxRetries
    BY AgentAssumption
  <2>3. pc'[t] = "in" <=> g = "calling"
    BY <1>4
  <2>4. QED
    BY <2>1, <2>2, <2>3
<1>6. ChatsType' /\ \A u \in Tasks : ChatOK(u)'
  BY <1>1, <1>2, <1>3, <1>4, <1>5, ChatStep
<1>7. QED
  BY <1>6 DEF ChatsOK

LEMMA RetrieveStep ==
  ASSUME ChatsOK, NEW t \in Tasks, Retrieve(t)
  PROVE  ChatsOK'
<1>1. ChatsType /\ \A u \in Tasks : ChatOK(u)
  BY DEF ChatsOK
<1>2. PICK k \in BOOLEAN : sources' = [sources EXCEPT ![t] = k]
  BY DEF Retrieve
<1>3. /\ stage[t] = "retrieve" /\ stage' = [stage EXCEPT ![t] = "call"]
      /\ mode' = mode /\ attempt' = attempt /\ out' = out
      /\ indexed' = indexed /\ hasKey' = hasKey /\ pc' = pc
  BY DEF Retrieve, Advance, vars
<1>4. PICK md \in Modes, a \in 0..MaxRetries, o \in Seq(Chunks) :
        md = mode[t] /\ a = attempt[t] /\ o = out[t]
  BY <1>1, ChatFields
<1>5. /\ mode' = [mode EXCEPT ![t] = md]
      /\ attempt' = [attempt EXCEPT ![t] = a] /\ out' = [out EXCEPT ![t] = o]
  BY <1>1, <1>3, <1>4, ChatFields
<1>6. Shape(md, "call", a, k, o)
  BY <1>1, <1>3, <1>4, QuietShape DEF ChatOK
<1>7. PICK g \in Stages : g = "call"
  BY DEF Stages
<1>8. ChatsType' /\ \A u \in Tasks : ChatOK(u)'
  <2>1. pc'[t] = "in" <=> g = "calling"
    BY <1>1, <1>3, <1>7 DEF ChatsType
  <2>2. stage' = [stage EXCEPT ![t] = g] /\ Shape(md, g, a, k, o)
    BY <1>3, <1>6, <1>7
  <2>3. \A u \in Tasks : u # t => pc'[u] = pc[u]
    BY <1>3
  <2>4. indexed' = indexed /\ hasKey' = hasKey
    BY <1>3
  <2>5. QED
    BY <1>1, <1>2, <1>5, <2>1, <2>2, <2>3, <2>4, ChatStep
<1>9. QED
  BY <1>8 DEF ChatsOK

LEMMA CallStep ==
  ASSUME ChatsOK, IInv, NEW t \in Tasks, CallModel(t)
  PROVE  ChatsOK'
<1>1. ChatsType /\ \A u \in Tasks : ChatOK(u)
  BY DEF ChatsOK
<1>2. /\ stage[t] = "call" /\ stage' = [stage EXCEPT ![t] = "calling"]
      /\ mode' = mode /\ attempt' = attempt /\ out' = out
      /\ sources' = sources /\ indexed' = indexed /\ hasKey' = hasKey
      /\ pc' = [pc EXCEPT ![t] = "in"]
  BY DEF CallModel, Advance, Enter
<1>3. PICK md \in Modes, a \in 0..MaxRetries, k \in BOOLEAN, o \in Seq(Chunks) :
        md = mode[t] /\ a = attempt[t] /\ k = sources[t] /\ o = out[t]
  BY <1>1, ChatFields
<1>4. /\ mode' = [mode EXCEPT ![t] = md]
      /\ attempt' = [attempt EXCEPT ![t] = a]
      /\ sources' = [sources EXCEPT ![t] = k] /\ out' = [out EXCEPT ![t] = o]
  BY <1>1, <1>2, <1>3, ChatFields
<1>5. Shape(md, "calling", a, k, o)
  BY <1>1, <1>2, <1>3, QuietShape DEF ChatOK
<1>6. PICK g \in Stages : g = "calling"
  BY DEF Stages
<1>7. ChatsType' /\ \A u \in Tasks : ChatOK(u)'
  <2>1. pc'[t] = "in" /\ \A u \in Tasks : u # t => pc'[u] = pc[u]
    BY <1>2 DEF IInv, TypeOK
  <2>2. pc'[t] = "in" <=> g = "calling"
    BY <1>6, <2>1
  <2>3. stage' = [stage EXCEPT ![t] = g] /\ Shape(md, g, a, k, o)
    BY <1>2, <1>5, <1>6
  <2>4. indexed' = indexed /\ hasKey' = hasKey
    BY <1>2
  <2>5. QED
    BY <1>1, <1>4, <2>1, <2>2, <2>3, <2>4, ChatStep
<1>8. QED
  BY <1>7 DEF ChatsOK

(* A stage that sends nothing and leaves nothing in the breaker.           *)
LEMMA QuietStep ==
  ASSUME ChatsOK, NEW t \in Tasks, Aside(t), NEW h \in Stages \ {"calling", "done"},
         stage[t] \notin {"stream", "done"}, h = "stream" => mode[t] # "plain",
         stage' = [stage EXCEPT ![t] = h], attempt' = attempt, out' = out
  PROVE  ChatsOK'
<1>1. ChatsType /\ \A u \in Tasks : ChatOK(u)
  BY DEF ChatsOK
<1>2. Shape(mode[t], h, attempt[t], sources[t], out[t])
  BY <1>1, QuietShape DEF ChatOK
<1>3. PICK a \in 0..MaxRetries, o \in Seq(Chunks) : a = attempt[t] /\ o = out[t]
  BY <1>1, ChatFields
<1>4. attempt' = [attempt EXCEPT ![t] = a] /\ out' = [out EXCEPT ![t] = o]
  BY <1>1, <1>3, ChatFields
<1>5. QED
  BY <1>2, <1>3, <1>4, AsideStep

LEMMA TokenStep ==
  ASSUME ChatsOK, IInv, NEW t \in Tasks, Token(t)
  PROVE  ChatsOK'
<1>1. ChatsType /\ \A u \in Tasks : ChatOK(u)
  BY DEF ChatsOK
<1>2. /\ stage[t] = "stream" /\ ~Collected(t)
      /\ out' = [out EXCEPT ![t] = out[t] \o <<"text">>]
      /\ stage' = stage /\ attempt' = attempt
  BY DEF Token, Send
<1>3. Aside(t)
  BY <1>1, <1>2, AsideCases DEF Token
<1>4. PICK a \in 0..MaxRetries, o \in Seq(Chunks) : a = attempt[t] /\ o = out[t]
  BY <1>1, ChatFields
<1>5. out' = [out EXCEPT ![t] = Append(o, "text")]
  <2>1. o \o <<"text">> = Append(o, "text")
    BY SendParts DEF Chunks
  <2>2. QED
    BY <1>2, <1>4, <2>1
<1>6. /\ Append(o, "text") \in Seq(Chunks)
      /\ Shape(mode[t], "stream", a, sources[t], Append(o, "text"))
  <2>1. Shape(mode[t], "stream", a, sources[t], o)
    BY <1>1, <1>2, <1>4 DEF ChatOK
  <2>2. o # <<>> => Last(o) # "text"
    BY <1>2, <1>4 DEF Collected
  <2>3. QED
    BY <1>1, <2>1, <2>2, ChatFields, TokenShape
<1>7. /\ stage' = [stage EXCEPT ![t] = "stream"]
      /\ attempt' = [attempt EXCEPT ![t] = a]
      /\ "stream" \in Stages \ {"calling"}
  BY <1>1, <1>2, <1>4, ChatFields DEF Stages
<1>8. QED
  BY <1>3, <1>5, <1>6, <1>7, AsideStep

LEMMA ChatProgress ==
  ASSUME ChatsOK, IInv, NEW t \in Tasks, Progress(t)
  PROVE  ChatsOK'
<1>1. ChatsType /\ ChatOK(t)
  BY DEF ChatsOK
<1>2. CASE Retrieve(t)
  BY <1>2, RetrieveStep
<1>3. CASE NoClient(t)
  <2>1. Aside(t)
    BY <1>1, <1>3, AsideCases DEF NoClient
  <2>2. QED
    BY <1>3, <2>1, RaiseStep DEF NoClient
<1>4. CASE Rejected(t)
  <2>1. Aside(t)
    BY <1>1, <1>4, AsideCases DEF Rejected
  <2>2. stage[t] # "done" /\ Finish(t, <<"unavailable">>)
    BY <1>4 DEF Rejected
  <2>3. PICK s : s = <<"unavailable">>
    OBVIOUS
  <2>4. QED
    BY <2>1, <2>2, <2>3, FinishStep
<1>5. CASE CallModel(t)
  BY <1>5, CallStep
<1>6. CASE ModelAnswers(t)
  <2>1. stage[t] = "calling" /\ Aside(t)
    BY <1>1, <1>6, AsideCases DEF ModelAnswers
  <2>2. CASE Streaming(t)
    <3>1. /\ stage' = [stage EXCEPT ![t] = "stream"] /\ attempt' = attempt
          /\ out' = out /\ mode[t] # "plain"
      BY <1>6, <2>2 DEF ModelAnswers, Advance, Streaming
    <3>2. "stream" \in Stages \ {"calling", "done"}
      BY DEF Stages
    <3>3. QED
      BY <2>1, <3>1, <3>2, QuietStep
  <2>3. CASE ~Streaming(t)
    <3>1. PICK c \in {"text", "nothing"} : Finish(t, <<c>>)
      BY <1>6, <2>3 DEF ModelAnswers
    <3>2. mode[t] = "plain"
      BY <2>3 DEF Streaming
    <3>3. PICK s : s = <<c>>
      OBVIOUS
    <3>4. s \in {<<"text">>, <<"nothing">>, <<"unavailable">>}
      BY <3>3
    <3>5. QED
      BY <2>1, <3>1, <3>2, <3>3, <3>4, FinishStep
  <2>4. QED
    BY <2>2, <2>3
<1>7. CASE ModelFails(t)
  <2>1. stage[t] = "calling" /\ Aside(t)
    BY <1>1, <1>7, AsideCases DEF ModelFails
  <2>2. QED
    BY <1>7, <2>1, AfterFailureStep DEF ModelFails
<1>8. CASE StreamEnds(t)
  <2>1. stage[t] = "stream" /\ Aside(t)
    BY <1>1, <1>8, AsideCases DEF StreamEnds
  <2>2. mode[t] # "plain"
    BY <1>1, <2>1 DEF ChatOK, Shape, OpenShape
  <2>3. PICK s : s = IF Collected(t) THEN <<>> ELSE <<"nothing">>
    OBVIOUS
  <2>4. Finish(t, s) /\ s \in {<<>>, <<"nothing">>, <<"unavailable">>}
    BY <1>8, <2>3 DEF StreamEnds
  <2>5. QED
    BY <2>1, <2>2, <2>4, FinishStep
<1>9. CASE StreamBreaks(t)
  <2>1. stage[t] = "stream" /\ Aside(t)
    BY <1>1, <1>9, AsideCases DEF StreamBreaks
  <2>2. QED
    BY <1>9, <2>1, AfterFailureStep DEF StreamBreaks
<1>10. CASE WakeUp(t)
  <2>1. stage[t] = "sleep" /\ Aside(t)
    BY <1>1, <1>10, AsideCases DEF WakeUp
  <2>2. /\ stage' = [stage EXCEPT ![t] = "call"] /\ attempt' = attempt
        /\ out' = out /\ "call" \in Stages \ {"calling", "done"}
    BY <1>10 DEF WakeUp, Advance, Stages
  <2>3. QED
    BY <2>1, <2>2, QuietStep
<1>11. QED
  BY <1>2, <1>3, <1>4, <1>5, <1>6, <1>7, <1>8, <1>9, <1>10 DEF Progress


LEMMA AgNextInv == AgInv /\ [AgentNext]_agentVars => AgInv'
<1> SUFFICES ASSUME AgInv, [AgentNext]_agentVars
             PROVE  AgInv'
  OBVIOUS
<1>1. IInv /\ ChatsOK
  BY DEF AgInv, ChatsOK
<1>2. ASSUME NEW t \in Tasks, Ask(t) \/ Progress(t) \/ Token(t) \/ GoAway(t)
      PROVE  IInv' /\ ChatsOK'
  <2>1. ChatsOK'
    BY <1>1, <1>2, FreshStep, ChatProgress, TokenStep
  <2>2. IInv'
    <3>1. CASE CallModel(t)
      BY <1>1, <3>1, EnterIInv DEF CallModel
    <3>2. CASE ModelAnswers(t)
      BY <1>1, <3>2, SucceedIInv DEF ModelAnswers
    <3>3. CASE ModelFails(t)
      BY <1>1, <3>3, RecordFailureIInv DEF ModelFails
    <3>4. CASE GoAway(t)
      BY <1>1, <3>4, CancelIInv, BreakerKept DEF GoAway
    <3>5. CASE \/ Ask(t) \/ Token(t) \/ Retrieve(t) \/ NoClient(t)
               \/ Rejected(t) \/ StreamEnds(t) \/ StreamBreaks(t) \/ WakeUp(t)
      BY <1>1, <3>5, BreakerKept
      DEF Ask, Token, Retrieve, NoClient, Rejected, StreamEnds, StreamBreaks, WakeUp
    <3>6. QED
      BY <1>2, <3>1, <3>2, <3>3, <3>4, <3>5 DEF Progress
  <2>3. QED
    BY <2>1, <2>2
<1>3. CASE \/ UNCHANGED agentVars \/ Index
           \/ (Tick \/ Recover) /\ UNCHANGED <<indexed, hasKey, chats>>
  <2>1. /\ mode' = mode /\ stage' = stage /\ attempt' = attempt
        /\ sources' = sources /\ out' = out /\ hasKey' = hasKey
        /\ pc' = pc
    BY <1>3 DEF agentVars, Index, Tick, Recover, chats, vars
  <2>2. indexed' \in BOOLEAN
    BY <1>1, <1>3 DEF agentVars, Index, ChatsOK, ChatsType
  <2>3. ChatsType'
    BY <1>1, <2>1, <2>2 DEF ChatsOK, ChatsType
  <2>4. \A t \in Tasks : ChatOK(t)'
    BY <1>1, <2>1 DEF ChatsOK, ChatOK
  <2>5. IInv'
    BY <1>1, <1>3, EnvironmentIInv, BreakerKept DEF agentVars, Index
  <2>6. QED
    BY <2>3, <2>4, <2>5 DEF AgInv
<1>4. QED
  BY <1>2, <1>3 DEF AgentNext, AgInv, ChatsOK

(* Every chat keeps its type, makes at most _MAX_RETRIES retries and is in *)
(* the breaker exactly while it waits for the model (groq_client.generate  *)
(* and generate_stream), for any number of chats and retries.              *)
THEOREM AgentTypeCorrect == AgentSpec => []AgentTypeOK
<1>1. AgInv => AgentTypeOK
  <2> SUFFICES ASSUME AgInv
               PROVE  AgentTypeOK
    OBVIOUS
  <2>1. TypeOK
    BY DEF AgInv, IInv
  <2>2. ChatsType
    BY DEF AgInv
  <2>3. QED
    BY <2>1, <2>2, Zenon DEF AgentTypeOK, ChatsType
<1>2. QED
  BY <1>1, AgInitInv, AgNextInv, PTL DEF AgentSpec

(* What a client is sent never runs two attempts together, a verdict is    *)
(* final, and an answer ends with exactly one outcome, whatever the other  *)
(* chats do to the shared circuit (the retry loop of generate_stream and   *)
(* the streams of router.py and servicers/agent.py).                       *)
THEOREM AnswersWellShaped == AgentSpec => []AnswerShape
<1>1. AgInv => AnswerShape
  <2> SUFFICES ASSUME AgInv, NEW t \in Tasks
               PROVE  /\ Streaming(t) => Times(t, "retrying") = attempt[t]
                      /\ \A i \in 2..Len(out[t]) :
                           /\ out[t][i] = "text" => out[t][i - 1] = "retrying"
                           /\ out[t][i - 1] \in Verdicts \cup Marks =>
                                out[t][i] \in Marks
                      /\ stage[t] = "done" =>
                           /\ Last(out[t]) = IF mode[t] = "sse" THEN "end"
                                ELSE IF Times(t, "abort") > 0 THEN "abort"
                                ELSE IF mode[t] = "grpcStream" THEN Meta(t)
                                ELSE out[t][1]
                           /\ Streaming(t) =>
                                Times(t, Meta(t)) + Times(t, "error")
                                  + Times(t, "abort") = 1
    BY DEF AnswerShape
  <2>1. Shape(mode[t], stage[t], attempt[t], sources[t], out[t])
    BY DEF AgInv, ChatOK
  <2>2. \A c : Times(t, c) = Count(out[t], c)
    BY DEF Times, Count
  <2>3. Meta(t) = MetaOf(sources[t])
    BY DEF Meta, MetaOf
  <2>4. Streaming(t) => Times(t, "retrying") = attempt[t]
    BY <2>1, <2>2 DEF Shape, Streaming
  <2>5. \A i \in 2..Len(out[t]) : Fits(out[t][i - 1], out[t][i])
    BY <2>1 DEF Shape, Talk
  <2>6. ASSUME stage[t] = "done"
        PROVE  EndedAs(mode[t], Meta(t), out[t])
    BY <2>1, <2>3, <2>6 DEF Shape
  <2>7. QED
    BY <2>2, <2>4, <2>5, <2>6 DEF EndedAs, Fits, Streaming
<1>2. QED
  BY <1>1, AgInitInv, AgNextInv, PTL DEF AgentSpec
=============================================================================
