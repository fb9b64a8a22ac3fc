--------------------------- MODULE RequestService ---------------------------
(***************************************************************************)
(* The life of one proxied request in the router and the book-keeping that  *)
(* accompanies it: the generator process_request (request.py) together with *)
(* the counters of RequestStatsMonitor (request_stats.py).                  *)
(*                                                                          *)
(* All handlers run on one asyncio event loop, so the code between two      *)
(* awaits is one action.  A request is a coroutine: it may be suspended,    *)
(* fail or be cancelled at every await, and nothing in process_request      *)
(* catches that (there is no finally).  The engine a request goes to is any *)
(* engine: the choice is the subject of RoutingLogic.                       *)
(***************************************************************************)
EXTENDS Integers, FiniteSets

CONSTANTS
    Engines,        \* backend URLs
    Requests,       \* client requests, each one used once
    RequestIds,     \* values of the X-Request-Id header
    IdOf,           \* the id each request carries; clients may repeat one
    MaxTime,        \* bound on the model's clock
    SemanticCache,  \* app.state.semantic_cache_available
    NoEngine        \* the engine of a request that has not been routed

ASSUME RequestServiceAssumption ==
    /\ IsFiniteSet(Requests)
    /\ IdOf \in [Requests -> RequestIds]
    /\ NoEngine \notin Engines
    /\ MaxTime \in Nat
    /\ SemanticCache \in BOOLEAN

VARIABLES
    phase,                 \* where each request's coroutine is suspended
    engine,                \* backend_url of each request
    is_streaming,          \* request_json.get("stream")
    first_token,           \* the local flag of process_request
    request_start_time,    \* monitor: (url, id) -> time, -1 when absent
    in_prefill_requests,   \* monitor: url -> counter
    in_decoding_requests,  \* monitor: url -> counter
    finished_requests,     \* monitor: url -> counter
    ttft,                  \* TTFT sample the monitor recorded for a request
    clock,                 \* time.time()
    arrived,               \* history: when the request really arrived
    answered               \* history: when its first chunk really came

monitor == <<request_start_time, in_prefill_requests, in_decoding_requests,
             finished_requests>>
history == <<arrived, answered>>
vars == <<phase, engine, is_streaming, first_token, monitor, ttft, clock, history>>

Phases == {"new",         \* not yet received
           "connecting",  \* awaiting the backend's response headers
           "headers",     \* headers handed to the client, no chunk yet
           "streaming",   \* first chunk received
           "storing",     \* completed, awaiting store_in_semantic_cache
           "done",        \* generator finished, post_request scheduled
           "raised",      \* exception after on_request_complete
           "failed"}      \* exception or cancellation before it

TypeOK ==
    /\ phase \in [Requests -> Phases]
    /\ engine \in [Requests -> Engines \cup {NoEngine}]
    /\ is_streaming \in [Requests -> BOOLEAN]
    /\ first_token \in [Requests -> BOOLEAN]
    /\ request_start_time \in [Engines \X RequestIds -> Nat \cup {-1}]
    /\ in_prefill_requests \in [Engines -> Nat]
    /\ in_decoding_requests \in [Engines -> Nat]
    /\ finished_requests \in [Engines -> Nat]
    /\ ttft \in [Requests -> Int]
    /\ clock \in 0 .. MaxTime
    /\ arrived \in [Requests -> Nat \cup {-1}]
    /\ answered \in [Requests -> Nat \cup {-1}]

Init ==
    /\ phase = [r \in Requests |-> "new"]
    /\ engine = [r \in Requests |-> NoEngine]
    /\ is_streaming = [r \in Requests |-> FALSE]
    /\ first_token = [r \in Requests |-> FALSE]
    /\ request_start_time = [k \in Engines \X RequestIds |-> -1]
    /\ in_prefill_requests = [e \in Engines |-> 0]
    /\ in_decoding_requests = [e \in Engines |-> 0]
    /\ finished_requests = [e \in Engines |-> 0]
    /\ ttft = [r \in Requests |-> -1]
    /\ clock = 0
    /\ arrived = [r \in Requests |-> -1]
    /\ answered = [r \in Requests |-> -1]

-----------------------------------------------------------------------------
(* RequestStatsMonitor.  A counter that is missing from its dictionary      *)
(* reads like 0 in every method, so the dictionaries are total functions.   *)

MaxZero(n) == IF n < 0 THEN 0 ELSE n

(* Plausible slips in these methods, which the properties below tell from   *)
(* the code.                                                                *)
on_request_response_NoPrefillExit(e, id, r) ==
    /\ in_decoding_requests' = [in_decoding_requests EXCEPT ![e] = @ + 1]
    /\ ttft' = [ttft EXCEPT ![r] = clock - request_start_time[<<e, id>>]]
    /\ UNCHANGED <<request_start_time, in_prefill_requests, finished_requests>>
on_new_request_KeepFirst(e, id) ==
    /\ request_start_time' =
           [request_start_time EXCEPT ![<<e, id>>] = IF @ = -1 THEN clock ELSE @]
    /\ in_prefill_requests' = [in_prefill_requests EXCEPT ![e] = @ + 1]
    /\ UNCHANGED <<in_decoding_requests, finished_requests>>
on_request_complete_DoubleExit(e) ==
    /\ in_decoding_requests' = [in_decoding_requests EXCEPT ![e] = MaxZero(@ - 2)]
    /\ finished_requests' = [finished_requests EXCEPT ![e] = @ + 1]
    /\ UNCHANGED <<request_start_time, in_prefill_requests>>

\* on_new_request(engine_url, request_id, timestamp)
on_new_request(e, id) ==
    /\ request_start_time' = [request_start_time EXCEPT ![<<e, id>>] = clock]
    /\ in_prefill_requests' = [in_prefill_requests EXCEPT ![e] = @ + 1]
    /\ UNCHANGED <<in_decoding_requests, finished_requests>>

\* on_request_response(engine_url, request_id, timestamp) for request r
on_request_response(e, id, r) ==
    IF request_start_time[<<e, id>>] = -1
    THEN UNCHANGED <<monitor, ttft>>
    ELSE /\ in_prefill_requests' =
                [in_prefill_requests EXCEPT ![e] = MaxZero(@ - 1)]
         /\ in_decoding_requests' = [in_decoding_requests EXCEPT ![e] = @ + 1]
         /\ ttft' = [ttft EXCEPT ![r] = clock - request_start_time[<<e, id>>]]
         /\ UNCHANGED <<request_start_time, finished_requests>>

\* on_request_complete(engine_url, request_id, timestamp)
on_request_complete(e) ==
    /\ in_decoding_requests' = [in_decoding_requests EXCEPT ![e] = MaxZero(@ - 1)]
    /\ finished_requests' = [finished_requests EXCEPT ![e] = @ + 1]
    /\ UNCHANGED <<request_start_time, in_prefill_requests>>

-----------------------------------------------------------------------------
(* process_request, one action per stretch between two awaits.              *)

\* The request has been routed to e: the generator's first anext runs up to
\* the await on the backend connection.
Start(r, e) ==
    /\ phase[r] = "new"
    /\ phase' = [phase EXCEPT ![r] = "connecting"]
    /\ engine' = [engine EXCEPT ![r] = e]
    /\ \E s \in BOOLEAN : is_streaming' = [is_streaming EXCEPT ![r] = s]
    /\ on_new_request(e, IdOf[r])
    /\ arrived' = [arrived EXCEPT ![r] = clock]
    /\ UNCHANGED <<first_token, ttft, clock, answered>>

\* The backend answered with headers, which are yielded to the client.
Headers(r) ==
    /\ phase[r] = "connecting"
    /\ phase' = [phase EXCEPT ![r] = "headers"]
    /\ UNCHANGED <<engine, is_streaming, first_token, monitor, ttft, clock, history>>

\* The first chunk of the body.  Later chunks change nothing here.
FirstChunk(r) ==
    /\ phase[r] = "headers"
    /\ ~first_token[r]
    /\ phase' = [phase EXCEPT ![r] = "streaming"]
    /\ first_token' = [first_token EXCEPT ![r] = TRUE]
    /\ on_request_response(engine[r], IdOf[r], r)
    /\ answered' = [answered EXCEPT ![r] = clock]
    /\ UNCHANGED <<engine, is_streaming, clock, arrived>>

\* The body ended, possibly without a single chunk.  With the semantic cache
\* the coroutine goes on to store the answer.  For a streaming request that
\* store names the loop variable `chunk', which is unbound when there was none.
Complete(r) ==
    /\ phase[r] \in {"headers", "streaming"}
    /\ on_request_complete(engine[r])
    /\ phase' = [phase EXCEPT ![r] =
                    IF ~SemanticCache THEN "done"
                    ELSE IF is_streaming[r] /\ ~first_token[r] THEN "raised"
                    ELSE "storing"]
    /\ UNCHANGED <<engine, is_streaming, first_token, ttft, clock, history>>

\* store_in_semantic_cache returned; post_request is scheduled.
Stored(r) ==
    /\ phase[r] = "storing"
    /\ phase' = [phase EXCEPT ![r] = "done"]
    /\ UNCHANGED <<engine, is_streaming, first_token, monitor, ttft, clock, history>>

\* The backend refuses or breaks the connection, or the client goes away:
\* an exception at the await leaves the generator, and nothing is undone.
Fail(r) ==
    /\ phase[r] \in {"connecting", "headers", "streaming"}
    /\ phase' = [phase EXCEPT ![r] = "failed"]
    /\ UNCHANGED <<engine, is_streaming, first_token, monitor, ttft, clock, history>>

Tick ==
    /\ clock < MaxTime
    /\ clock' = clock + 1
    /\ UNCHANGED <<phase, engine, is_streaming, first_token, monitor, ttft, history>>

Next ==
    \/ \E r \in Requests :
          \/ \E e \in Engines : Start(r, e)
          \/ Headers(r) \/ FirstChunk(r) \/ Complete(r) \/ Stored(r) \/ Fail(r)
    \/ Tick

Spec == Init /\ [][Next]_vars

-----------------------------------------------------------------------------
(* Properties.                                                              *)

At(e, P) == {r \in Requests : engine[r] = e /\ phase[r] \in P}
Completed == {"storing", "done", "raised"}

Unanswered(e) == {r \in Requests : engine[r] = e /\ ~first_token[r]}
OpenStreams(e) == {r \in Requests : /\ engine[r] = e
                                    /\ first_token[r]
                                    /\ phase[r] \notin Completed}

\* in_prefill_requests counts exactly the requests that never saw a chunk:
\* those still waiting, and for ever those that failed, were cancelled or
\* ended with an empty body before one came.  A chunk of one request never
\* takes the place of another's, and the clamp at 0 is never what decides.
PrefillCountExact ==
    \A e \in Engines : in_prefill_requests[e] = Cardinality(Unanswered(e))

\* in_decoding_requests never counts more than the streams that received a
\* chunk and did not run to their end (running ones, and aborted ones).
DecodingNotOver ==
    \A e \in Engines : in_decoding_requests[e] <= Cardinality(OpenStreams(e))

\* finished_requests counts the requests whose body ran to its end, and no
\* request sent to an engine is missing from the three counters together,
\* even after an empty answer took a decoding slot that was not its own.
NothingLost ==
    \A e \in Engines :
       /\ finished_requests[e] = Cardinality(At(e, Completed))
       /\ Cardinality({r \in Requests : engine[r] = e})
             <= in_prefill_requests[e] + in_decoding_requests[e] + finished_requests[e]

\* request_start_time has an entry for exactly the engine and id of every
\* request ever sent: no entry is dropped, so the dictionary grows with them,
\* and none is missing, so on_request_response never takes its early return.
EntriesExact ==
    \A e \in Engines, id \in RequestIds :
       request_start_time[<<e, id>>] # -1 <=>
          \E r \in Requests : engine[r] = e /\ IdOf[r] = id

\* A TTFT sample never exceeds the time its request really waited, whatever
\* ids the clients send: a repeated id only moves the start time forward.
TtftNeverOver ==
    \A r \in Requests :
       first_token[r] => /\ ttft[r] >= 0
                         /\ ttft[r] <= answered[r] - arrived[r]
=============================================================================
