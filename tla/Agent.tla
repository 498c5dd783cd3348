-------------------------------- MODULE Agent --------------------------------
(***************************************************************************)
(* The regulatory agent (core/features/agent): a chat retrieves context    *)
(* from the vector store and PostgreSQL, then asks Groq through the shared *)
(* groq_breaker, retries transient errors with back-off and writes what it *)
(* has to the client as it comes.  The SSE stream and the plain answer of  *)
(* router.py and the stream of servicers/agent.py share the pipeline.      *)
(*                                                                         *)
(* Text is abstract: what a chat has written is a sequence of kinds of     *)
(* chunk, one "text" for all the tokens of an attempt.  Retrieved context  *)
(* matters only for whether META has sources to report.                    *)
(***************************************************************************)
EXTENDS CircuitBreaker, Sequences, SequencesExt

CONSTANT MaxRetries   \* _MAX_RETRIES

ASSUME AgentAssumption == MaxRetries \in Nat

Modes == {"sse", "grpcStream", "plain"}
Stages == {"idle", "retrieve", "call", "calling", "stream", "sleep", "done"}
Chunks == {"text", "nothing", "unavailable", "retrying",
           "meta", "cited", "error", "abort", "end"}

VARIABLES
  indexed,  \* the vector store holds the knowledge base
  hasKey,   \* settings.groq_api_key is set
  mode,     \* how each chat is answered
  stage,    \* where each chat is
  attempt,  \* the loop variable of generate_stream and generate
  sources,  \* whether the retrieval found chunks to cite
  out       \* what the client has been sent

chats == <<mode, stage, attempt, sources, out>>
agentVars == <<vars, indexed, hasKey, chats>>

AgentInit ==
  /\ Init
  /\ indexed = FALSE /\ hasKey \in BOOLEAN
  /\ mode = [t \in Tasks |-> "sse"]
  /\ stage = [t \in Tasks |-> "idle"]
  /\ attempt = [t \in Tasks |-> 0]
  /\ sources = [t \in Tasks |-> FALSE]
  /\ out = [t \in Tasks |-> <<>>]

Advance(t, s) == stage' = [stage EXCEPT ![t] = s]
Send(t, s) == out' = [out EXCEPT ![t] = @ \o s]
Streaming(t) == mode[t] # "plain"

(* The chat has its answer s: a stream is closed by META, which lists the  *)
(* sources, and over SSE by [DONE] as well.                                *)
Meta(t) == IF sources[t] THEN "cited" ELSE "meta"

Finish(t, s) ==
  /\ Send(t, CASE mode[t] = "sse" -> s \o <<Meta(t), "end">>
               [] mode[t] = "grpcStream" -> s \o <<Meta(t)>>
               [] OTHER -> s)
  /\ Advance(t, "done")
  /\ UNCHANGED attempt

(* An exception leaves the pipeline: an error chunk and [DONE] over SSE,   *)
(* HTTP 500 or INTERNAL otherwise.                                         *)
Raise(t) ==
  /\ Send(t, IF mode[t] = "sse" THEN <<"error", "end">> ELSE <<"abort">>)
  /\ Advance(t, "done")
  /\ UNCHANGED attempt

(* The except block of the retry loop.  Only a stream can tell its client. *)
AfterFailureMutant(t, retryable) ==
  IF retryable /\ attempt[t] <= MaxRetries
  THEN /\ Send(t, IF Streaming(t) THEN <<"retrying">> ELSE <<>>)
       /\ attempt' = [attempt EXCEPT ![t] = @ + 1]
       /\ Advance(t, "sleep")
  ELSE Raise(t)

AfterFailure(t, retryable) ==
  IF retryable /\ attempt[t] < MaxRetries
  THEN /\ Send(t, IF Streaming(t) THEN <<"retrying">> ELSE <<>>)
       /\ attempt' = [attempt EXCEPT ![t] = @ + 1]
       /\ Advance(t, "sleep")
  ELSE Raise(t)

-----------------------------------------------------------------------------
(* chat, Chat or ChatStream is called, with use_rag or without.            *)
Ask(t) ==
  /\ stage[t] \in {"idle", "done"}
  /\ \E m \in Modes : mode' = [mode EXCEPT ![t] = m]
  /\ \E rag \in BOOLEAN : Advance(t, IF rag THEN "retrieve" ELSE "call")
  /\ attempt' = [attempt EXCEPT ![t] = 0]
  /\ sources' = [sources EXCEPT ![t] = FALSE]
  /\ out' = [out EXCEPT ![t] = <<>>]
  /\ UNCHANGED <<vars, indexed, hasKey>>

(* build_context never raises: a failed search gives no sources, a failed  *)
(* statistics query empty rows (and, its transaction being aborted, empty  *)
(* rows for every later query).  An empty store finds nothing.             *)
Retrieve(t) ==
  /\ stage[t] = "retrieve"
  /\ \E found \in (IF indexed THEN BOOLEAN ELSE {FALSE}) :
       sources' = [sources EXCEPT ![t] = found]
  /\ Advance(t, "call")
  /\ UNCHANGED <<vars, indexed, hasKey, mode, attempt, out>>

(* _get_client raises RuntimeError without a key.                          *)
NoClient(t) ==
  /\ stage[t] = "call" /\ ~hasKey
  /\ Raise(t)
  /\ UNCHANGED <<vars, indexed, hasKey, mode, sources>>

RejectedMutant(t) ==
  /\ stage[t] = "call" /\ hasKey /\ MustReject
  /\ Send(t, <<"unavailable">>)
  /\ Advance(t, "sleep")
  /\ UNCHANGED <<vars, indexed, hasKey, mode, sources, attempt>>

(* CircuitBreakerOpenError is an answer, not an error to retry.            *)
Rejected(t) ==
  /\ stage[t] = "call" /\ hasKey /\ MustReject
  /\ Finish(t, <<"unavailable">>)
  /\ UNCHANGED <<vars, indexed, hasKey, mode, sources>>

CallModel(t) ==
  /\ stage[t] = "call" /\ hasKey
  /\ Enter(t)
  /\ Advance(t, "calling")
  /\ UNCHANGED <<indexed, hasKey, mode, attempt, sources, out>>

(* create returned: a stream to read, or the whole answer, maybe empty.    *)
ModelAnswers(t) ==
  /\ stage[t] = "calling"
  /\ Succeed(t)
  /\ IF Streaming(t)
     THEN Advance(t, "stream") /\ UNCHANGED <<attempt, out>>
     ELSE \E c \in {"text", "nothing"} : Finish(t, <<c>>)
  /\ UNCHANGED <<indexed, hasKey, mode, sources>>

(* create raised or timed out.  429, 5xx and connection errors are         *)
(* retryable; a time-out, a daily quota and the rest are not.              *)
ModelFails(t) ==
  /\ stage[t] = "calling"
  /\ RecordFailure(t)
  /\ \E retryable \in BOOLEAN : AfterFailure(t, retryable)
  /\ UNCHANGED <<indexed, hasKey, mode, sources>>

Collected(t) == out[t] # <<>> /\ Last(out[t]) = "text"

Token(t) ==
  /\ stage[t] = "stream" /\ ~Collected(t)
  /\ Send(t, <<"text">>)
  /\ UNCHANGED <<vars, indexed, hasKey, mode, stage, attempt, sources>>

StreamEnds(t) ==
  /\ stage[t] = "stream"
  /\ Finish(t, IF Collected(t) THEN <<>> ELSE <<"nothing">>)
  /\ UNCHANGED <<vars, indexed, hasKey, mode, sources>>

(* Reading the stream raised.  The breaker has already counted a success,  *)
(* and a retry starts the text again.                                      *)
StreamBreaks(t) ==
  /\ stage[t] = "stream"
  /\ \E retryable \in BOOLEAN : AfterFailure(t, retryable)
  /\ UNCHANGED <<vars, indexed, hasKey, mode, sources>>

WakeUpMutant(t) ==
  /\ stage[t] = "sleep" /\ state = "CLOSED"
  /\ Advance(t, "call")
  /\ UNCHANGED <<vars, indexed, hasKey, mode, attempt, sources, out>>

WakeUp(t) ==
  /\ stage[t] = "sleep"
  /\ Advance(t, "call")
  /\ UNCHANGED <<vars, indexed, hasKey, mode, attempt, sources, out>>

(* The client goes away: the coroutine is cancelled where it waits, and    *)
(* what it has sent is forgotten.                                          *)
GoAway(t) ==
  /\ stage[t] \notin {"idle", "done"}
  /\ IF stage[t] = "calling" THEN Cancel(t) ELSE UNCHANGED vars
  /\ Advance(t, "idle")
  /\ attempt' = [attempt EXCEPT ![t] = 0]
  /\ sources' = [sources EXCEPT ![t] = FALSE]
  /\ out' = [out EXCEPT ![t] = <<>>]
  /\ UNCHANGED <<indexed, hasKey, mode>>

(* index_knowledge_base adds the chunks whose id is missing; a chunk that  *)
(* is already there is never refreshed.                                    *)
Index ==
  /\ ~indexed /\ indexed' = TRUE
  /\ UNCHANGED <<vars, hasKey, chats>>

Progress(t) ==
  \/ Retrieve(t) \/ NoClient(t) \/ Rejected(t) \/ CallModel(t)
  \/ ModelAnswers(t) \/ ModelFails(t) \/ StreamEnds(t) \/ StreamBreaks(t)
  \/ WakeUp(t)

AgentNext ==
  \/ \E t \in Tasks : Ask(t) \/ Progress(t) \/ Token(t) \/ GoAway(t)
  \/ Index
  \/ (Tick \/ Recover) /\ UNCHANGED <<indexed, hasKey, chats>>

AgentSpec == AgentInit /\ [][AgentNext]_agentVars

(* The event loop runs ready coroutines and its timers fire: wait_for ends *)
(* a call, sleep ends, max_tokens and the SDK's read time-out end a        *)
(* stream, and time passes.                                                *)
AgentFairSpec ==
  /\ AgentSpec
  /\ WF_agentVars(Tick /\ UNCHANGED <<indexed, hasKey, chats>>)
  /\ \A t \in Tasks : WF_agentVars(Progress(t))

-----------------------------------------------------------------------------
(* Type correctness of the breaker and the chats: no chat makes more than  *)
(* _MAX_RETRIES retries, and exactly the chats that wait for create are    *)
(* inside the breaker.                                                     *)
AgentTypeOK ==
  /\ TypeOK
  /\ indexed \in BOOLEAN /\ hasKey \in BOOLEAN
  /\ mode \in [Tasks -> Modes] /\ stage \in [Tasks -> Stages]
  /\ attempt \in [Tasks -> 0..MaxRetries]
  /\ sources \in [Tasks -> BOOLEAN]
  /\ out \in [Tasks -> Seq(Chunks)]
  /\ \A t \in Tasks : pc[t] = "in" <=> stage[t] = "calling"

Times(t, c) == Cardinality({i \in DOMAIN out[t] : out[t][i] = c})
Verdicts == {"nothing", "unavailable"}
Marks == {"meta", "cited", "error", "abort", "end"}

(***************************************************************************)
(* What a client can rely on, through any number of attempts, broken       *)
(* streams and an open circuit: text of two attempts is never run together *)
(* (as many notices as retries, text repeated only after one); a verdict   *)
(* such as "unavailable" is final; and an answer that ended has exactly    *)
(* one outcome, META for an answer or an error, as its last word.          *)
(***************************************************************************)
AnswerShape ==
  \A t \in Tasks :
    /\ Streaming(t) => Times(t, "retrying") = attempt[t]
    /\ \A i \in 2..Len(out[t]) :
         /\ out[t][i] = "text" => out[t][i - 1] = "retrying"
         /\ out[t][i - 1] \in Verdicts \cup Marks => out[t][i] \in Marks
    /\ stage[t] = "done" =>
         /\ Last(out[t]) = IF mode[t] = "sse" THEN "end"
                           ELSE IF Times(t, "abort") > 0 THEN "abort"
                           ELSE IF mode[t] = "grpcStream" THEN Meta(t)
                           ELSE out[t][1]
         /\ Streaming(t) =>
              Times(t, Meta(t)) + Times(t, "error") + Times(t, "abort") = 1

(* Every chat ends, whatever Groq and the circuit do: it is answered, it   *)
(* fails, or its client has left.                                          *)
EveryChatEnds ==
  \A t \in Tasks : stage[t] \notin {"idle", "done"}
                     ~> stage[t] \in {"idle", "done"}

(* What users may do: ask again for ever and, from some point on, wait for *)
(* the answer.                                                             *)
KeepAsking == \A t \in Tasks : WF_agentVars(Ask(t))
StopLeaving == <>[][~\E t \in Tasks : GoAway(t)]_agentVars

(* No wedge: if users keep asking, a breaker whose model answers again     *)
(* closes, even if its probes were cancelled and left it HALF_OPEN or      *)
(* stragglers failed during the cooldown.                                  *)
Recovers ==
  hasKey /\ KeepAsking /\ StopLeaving => (up ~> state = "CLOSED")
=============================================================================
