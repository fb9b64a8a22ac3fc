------------------------ MODULE RequestService_proofs ------------------------
(***************************************************************************)
(* Proofs about RequestService for any number of engines, requests and ids. *)
(*                                                                          *)
(* None of the counter properties is inductive alone: that a clamp at 0     *)
(* never decides needs the exact prefill count, and NothingLost needs the   *)
(* number of empty answers, each of which may have taken one decoding slot  *)
(* that was not its own.  IInv adds those facts and where a coroutine can   *)
(* be for each value of its local flag.                                     *)
(*                                                                          *)
(* The other requests of request.py, those of disaggregated prefill, are at *)
(* the end; DisaggregatedPrefill shares no constant or variable with        *)
(* RequestService.  While an initialisation of the sessions runs, the last  *)
(* entry of a role is still to be visited, or its session leads to it       *)
(* (NewestInv).                                                             *)
(***************************************************************************)
EXTENDS RequestService, DisaggregatedPrefill,
        FiniteSetTheorems, SequenceTheorems, WellFoundedInduction, TLAPS

EmptyAnswers(e) == {r \in Requests : /\ engine[r] = e
                                     /\ ~first_token[r]
                                     /\ phase[r] \in Completed}

PhaseInv ==
    \A r \in Requests :
       /\ engine[r] = NoEngine <=> phase[r] = "new"
       /\ phase[r] \in {"new", "connecting", "headers"} => ~first_token[r]
       /\ phase[r] = "streaming" => first_token[r]

StartTimeInv ==
    \A r \in Requests : phase[r] # "new" =>
       /\ arrived[r] \in Nat
       /\ arrived[r] <= request_start_time[<<engine[r], IdOf[r]>>]
       /\ request_start_time[<<engine[r], IdOf[r]>>] <= clock

FinishedExact ==
    \A e \in Engines : finished_requests[e] = Cardinality(At(e, Completed))

DecodingFloor ==
    \A e \in Engines :
       Cardinality(OpenStreams(e))
          <= in_decoding_requests[e] + Cardinality(EmptyAnswers(e))

IInv ==
    /\ TypeOK /\ PhaseInv /\ StartTimeInv /\ TtftNeverOver
    /\ PrefillCountExact /\ DecodingNotOver /\ FinishedExact /\ DecodingFloor
-----------------------------------------------------------------------------
(* Every set of requests is finite.                                         *)
LEMMA RequestSetsFinite ==
    ASSUME NEW S, S \subseteq Requests
    PROVE  IsFiniteSet(S) /\ Cardinality(S) \in Nat
BY FS_Subset, FS_CardinalityType, RequestServiceAssumption

(* Adding a request to a set adds one to its size.                          *)
LEMMA AddRequest ==
    ASSUME NEW S, S \subseteq Requests, NEW r \in Requests, r \notin S
    PROVE  Cardinality(S \cup {r}) = Cardinality(S) + 1
BY RequestSetsFinite, FS_AddElement

(* Removing a request of a set, which then was not empty.                   *)
LEMMA DropRequest ==
    ASSUME NEW S, S \subseteq Requests, NEW r \in S
    PROVE  /\ Cardinality(S \ {r}) = Cardinality(S) - 1
           /\ Cardinality(S) >= 1
<1>1. IsFiniteSet(S) /\ Cardinality(S) \in Nat
  BY RequestSetsFinite
<1>2. Cardinality(S \ {r}) = Cardinality(S) - 1
  BY <1>1, FS_RemoveElement, Zenon
<1>3. Cardinality(S) # 0
  BY <1>1, FS_EmptySet
<1> QED
  BY <1>1, <1>2, <1>3

(* The sizes the counters are compared with are natural numbers.            *)
LEMMA CountsNat ==
    \A e : /\ Cardinality(Unanswered(e)) \in Nat
           /\ Cardinality(OpenStreams(e)) \in Nat
           /\ Cardinality(EmptyAnswers(e)) \in Nat
           /\ Cardinality(At(e, Completed)) \in Nat
BY RequestSetsFinite DEF Unanswered, OpenStreams, EmptyAnswers, At

(* The monitor of the code changes only through its three methods: type     *)
(* correctness of every counter, start time and sample.                     *)
LEMMA TypeInductive == TypeOK /\ PhaseInv /\ [Next]_vars => TypeOK'
<1> SUFFICES ASSUME TypeOK, PhaseInv, [Next]_vars PROVE TypeOK'
  OBVIOUS
<1> USE RequestServiceAssumption DEF TypeOK, Phases, history, monitor
<1>1. ASSUME NEW r \in Requests, NEW e \in Engines, Start(r, e) PROVE TypeOK'
  BY <1>1 DEF Start, on_new_request
<1>2. ASSUME NEW r \in Requests, FirstChunk(r) PROVE TypeOK'
  <2>1. engine[r] \in Engines
    BY <1>2 DEF FirstChunk, PhaseInv
  <2>2. <<engine[r], IdOf[r]>> \in Engines \X RequestIds
    BY <2>1
  <2>3. CASE request_start_time[<<engine[r], IdOf[r]>>] = -1
    BY <1>2, <2>3 DEF FirstChunk, on_request_response
  <2>4. CASE request_start_time[<<engine[r], IdOf[r]>>] # -1
    BY <1>2, <2>1, <2>2, <2>4 DEF FirstChunk, on_request_response, MaxZero
  <2> QED
    BY <2>3, <2>4
<1>3. ASSUME NEW r \in Requests, Complete(r) PROVE TypeOK'
  <2>1. engine[r] \in Engines
    BY <1>3 DEF Complete, PhaseInv
  <2> QED
    BY <1>3, <2>1 DEF Complete, on_request_complete, MaxZero
<1>4. ASSUME NEW r \in Requests, Headers(r) \/ Stored(r) \/ Fail(r) PROVE TypeOK'
  BY <1>4 DEF Headers, Stored, Fail
<1>5. CASE Tick
  BY <1>5 DEF Tick
<1>6. CASE UNCHANGED vars
  BY <1>6 DEF vars
<1> QED
  BY <1>1, <1>2, <1>3, <1>4, <1>5, <1>6, Zenon DEF Next

(* Where the coroutine is and what its flag says.                           *)
LEMMA PhaseInductive == TypeOK /\ PhaseInv /\ [Next]_vars => PhaseInv'
<1> SUFFICES ASSUME TypeOK, PhaseInv, [Next]_vars PROVE PhaseInv'
  OBVIOUS
<1> USE RequestServiceAssumption DEF TypeOK, PhaseInv
<1>1. ASSUME NEW r \in Requests, NEW e \in Engines, Start(r, e) PROVE PhaseInv'
  BY <1>1 DEF Start
<1>2. ASSUME NEW r \in Requests, FirstChunk(r) PROVE PhaseInv'
  BY <1>2 DEF FirstChunk
<1>3. ASSUME NEW r \in Requests, Complete(r) PROVE PhaseInv'
  BY <1>3 DEF Complete
<1>4. ASSUME NEW r \in Requests, Headers(r) \/ Stored(r) \/ Fail(r) PROVE PhaseInv'
  BY <1>4 DEF Headers, Stored, Fail
<1>5. CASE Tick
  BY <1>5 DEF Tick
<1>6. CASE UNCHANGED vars
  BY <1>6 DEF vars
<1> QED
  BY <1>1, <1>2, <1>3, <1>4, <1>5, <1>6 DEF Next

(* The recorded start time lies between the request's own arrival and now,  *)
(* also after another request has overwritten it.                           *)
LEMMA StartTimeInductive ==
    TypeOK /\ PhaseInv /\ StartTimeInv /\ [Next]_vars => StartTimeInv'
<1> SUFFICES ASSUME TypeOK, PhaseInv, StartTimeInv, [Next]_vars,
                    NEW q \in Requests, phase'[q] # "new"
             PROVE  /\ arrived'[q] \in Nat
                    /\ arrived'[q] <= request_start_time'[<<engine'[q], IdOf[q]>>]
                    /\ request_start_time'[<<engine'[q], IdOf[q]>>] <= clock'
  BY DEF StartTimeInv
<1> DEFINE Key == <<engine[q], IdOf[q]>>
<1> USE RequestServiceAssumption DEF TypeOK, StartTimeInv, monitor, history
<1>1. ASSUME NEW r \in Requests, NEW e \in Engines, Start(r, e)
      PROVE  /\ arrived'[q] \in Nat
             /\ arrived'[q] <= request_start_time'[<<engine'[q], IdOf[q]>>]
             /\ request_start_time'[<<engine'[q], IdOf[q]>>] <= clock'
  <2>1. CASE q = r
    <3>1. /\ arrived'[q] = clock /\ engine'[q] = e /\ clock' = clock
          /\ <<e, IdOf[q]>> \in Engines \X RequestIds
      BY <1>1, <2>1 DEF Start
    <3>2. request_start_time'[<<e, IdOf[q]>>] = clock
      BY <1>1, <2>1, <3>1 DEF Start, on_new_request
    <3> QED
      BY <3>1, <3>2
  <2>2. CASE q # r
    <3>1. /\ phase[q] # "new" /\ engine'[q] = engine[q] /\ arrived'[q] = arrived[q]
          /\ clock' = clock
      BY <1>1, <2>2 DEF Start
    <3>2. engine[q] \in Engines
      BY <3>1 DEF PhaseInv
    <3>3. Key \in Engines \X RequestIds
      BY <3>2
    <3>4. request_start_time'[Key] = request_start_time[Key]
             \/ request_start_time'[Key] = clock
      BY <1>1, <3>3 DEF Start, on_new_request
    <3>5. request_start_time[Key] \in Nat \cup {-1}
      BY <3>3
    <3> QED
      BY <3>1, <3>4, <3>5
  <2> QED
    BY <2>1, <2>2
<1>2. ASSUME NEW r \in Requests, FirstChunk(r)
      PROVE  /\ phase[q] # "new"
             /\ UNCHANGED <<arrived, engine, clock, request_start_time>>
  BY <1>2 DEF FirstChunk, on_request_response
<1>3. ASSUME NEW r \in Requests, Complete(r)
      PROVE  /\ phase[q] # "new"
             /\ UNCHANGED <<arrived, engine, clock, request_start_time>>
  BY <1>3 DEF Complete, on_request_complete
<1>4. ASSUME NEW r \in Requests, Headers(r) \/ Stored(r) \/ Fail(r)
      PROVE  /\ phase[q] # "new"
             /\ UNCHANGED <<arrived, engine, clock, request_start_time>>
  BY <1>4 DEF Headers, Stored, Fail
<1>5. CASE Tick
  <2>1. /\ phase[q] # "new" /\ clock' = clock + 1
        /\ UNCHANGED <<arrived, engine, request_start_time>>
    BY <1>5 DEF Tick
  <2>2. engine[q] \in Engines
    BY <2>1 DEF PhaseInv
  <2>3. request_start_time[Key] \in Nat \cup {-1}
    BY <2>2
  <2> QED
    BY <2>1, <2>3
<1>6. CASE UNCHANGED vars
  BY <1>6, Zenon DEF vars
<1> QED
  BY <1>1, <1>2, <1>3, <1>4, <1>5, <1>6, Zenon DEF Next

(* TTFT samples: only FirstChunk writes one, from a start time that is not  *)
(* older than the request's arrival.                                        *)
LEMMA TtftInductive ==
    TypeOK /\ PhaseInv /\ StartTimeInv /\ TtftNeverOver /\ [Next]_vars
       => TtftNeverOver'
<1> SUFFICES ASSUME TypeOK, PhaseInv, StartTimeInv, TtftNeverOver, [Next]_vars
             PROVE  TtftNeverOver'
  OBVIOUS
<1> USE RequestServiceAssumption DEF TypeOK, TtftNeverOver, monitor, history
<1>1. ASSUME NEW r \in Requests, NEW e \in Engines, Start(r, e)
      PROVE  TtftNeverOver'
  BY <1>1 DEF Start, PhaseInv
<1>2. ASSUME NEW r \in Requests, FirstChunk(r) PROVE TtftNeverOver'
  <2>1. phase[r] # "new" /\ engine[r] \in Engines
    BY <1>2 DEF FirstChunk, PhaseInv
  <2> DEFINE t == request_start_time[<<engine[r], IdOf[r]>>]
  <2>2. t \in Nat /\ arrived[r] \in Nat /\ arrived[r] <= t /\ t <= clock
    <3>1. <<engine[r], IdOf[r]>> \in Engines \X RequestIds
      BY <2>1
    <3>2. t \in Nat \cup {-1}
      BY <3>1
    <3>3. arrived[r] \in Nat /\ arrived[r] <= t /\ t <= clock
      BY <2>1, Zenon DEF StartTimeInv
    <3> HIDE DEF t
    <3> QED
      BY <3>2, <3>3
  <2>3. /\ ttft' = [ttft EXCEPT ![r] = clock - t]
        /\ answered' = [answered EXCEPT ![r] = clock]
        /\ first_token' = [first_token EXCEPT ![r] = TRUE]
        /\ arrived' = arrived
    BY <1>2, <2>2 DEF FirstChunk, on_request_response
  <2> HIDE DEF t
  <2>4. clock \in Nat
    BY DEF TypeOK
  <2>5. ttft'[r] = clock - t /\ answered'[r] = clock
    BY <2>3
  <2>6. \A q \in Requests \ {r} :
            /\ ttft'[q] = ttft[q] /\ answered'[q] = answered[q]
            /\ first_token'[q] = first_token[q]
    BY <2>3
  <2> QED
    BY <2>2, <2>3, <2>4, <2>5, <2>6
<1>3. ASSUME NEW r \in Requests, Complete(r) PROVE TtftNeverOver'
  BY <1>3 DEF Complete
<1>4. ASSUME NEW r \in Requests, Headers(r) \/ Stored(r) \/ Fail(r)
      PROVE  TtftNeverOver'
  BY <1>4 DEF Headers, Stored, Fail
<1>5. CASE Tick
  BY <1>5 DEF Tick
<1>6. CASE UNCHANGED vars
  BY <1>6 DEF vars
<1> QED
  BY <1>1, <1>2, <1>3, <1>4, <1>5, <1>6 DEF Next

CountInv == PrefillCountExact /\ DecodingNotOver /\ FinishedExact /\ DecodingFloor

(* A step that leaves every counter and every set of requests alone.        *)
LEMMA CountsUnchanged ==
    ASSUME CountInv,
           UNCHANGED <<in_prefill_requests, in_decoding_requests, finished_requests>>,
           \A e \in Engines : /\ Unanswered(e)' = Unanswered(e)
                              /\ OpenStreams(e)' = OpenStreams(e)
                              /\ EmptyAnswers(e)' = EmptyAnswers(e)
                              /\ At(e, Completed)' = At(e, Completed)
    PROVE  CountInv'
BY DEF CountInv, PrefillCountExact, DecodingNotOver, FinishedExact, DecodingFloor

(* Start adds the request to the unanswered ones of its engine.             *)
LEMMA StartCounts ==
    ASSUME TypeOK, PhaseInv, CountInv,
           NEW r \in Requests, NEW e \in Engines, Start(r, e)
    PROVE  CountInv'
<1> USE DEF TypeOK
<1>1. engine[r] = NoEngine /\ ~first_token[r] /\ phase[r] = "new"
  BY DEF Start, PhaseInv
<1>2. Unanswered(e)' = Unanswered(e) \cup {r} /\ r \notin Unanswered(e)
  BY <1>1, RequestServiceAssumption DEF Start, Unanswered
<1>3. \A f \in Engines \ {e} : Unanswered(f)' = Unanswered(f)
  BY <1>1, RequestServiceAssumption DEF Start, Unanswered
<1>4. \A f \in Engines : /\ OpenStreams(f)' = OpenStreams(f)
                         /\ EmptyAnswers(f)' = EmptyAnswers(f)
                         /\ At(f, Completed)' = At(f, Completed)
  BY <1>1, RequestServiceAssumption
     DEF Start, OpenStreams, EmptyAnswers, At, Completed
<1>5. Cardinality(Unanswered(e)') = Cardinality(Unanswered(e)) + 1
  BY <1>2, AddRequest, Zenon DEF Unanswered
<1>6. /\ in_prefill_requests' = [in_prefill_requests EXCEPT ![e] = @ + 1]
      /\ UNCHANGED <<in_decoding_requests, finished_requests>>
  BY DEF Start, on_new_request
<1>7. PrefillCountExact'
  BY <1>3, <1>5, <1>6 DEF CountInv, PrefillCountExact
<1> QED
  BY <1>4, <1>6, <1>7 DEF CountInv, DecodingNotOver, FinishedExact, DecodingFloor

(* FirstChunk moves the request from the unanswered ones to the open        *)
(* streams.  Its own entry keeps the prefill counter above 0.               *)
LEMMA FirstChunkCounts ==
    ASSUME TypeOK, PhaseInv, StartTimeInv, CountInv,
           NEW r \in Requests, FirstChunk(r)
    PROVE  CountInv'
<1>0. PICK e \in Engines : e = engine[r]
  BY DEF FirstChunk, PhaseInv, TypeOK
<1>1. /\ engine[r] = e /\ ~first_token[r] /\ phase[r] = "headers"
      /\ phase' = [phase EXCEPT ![r] = "streaming"]
      /\ first_token' = [first_token EXCEPT ![r] = TRUE]
      /\ engine' = engine
  BY <1>0 DEF FirstChunk
<1>2. request_start_time[<<e, IdOf[r]>>] # -1
  <2>1. /\ arrived[r] \in Nat /\ arrived[r] <= request_start_time[<<e, IdOf[r]>>]
    BY <1>1 DEF StartTimeInv
  <2> QED
    BY <2>1
<1>3. /\ in_prefill_requests' =
            [in_prefill_requests EXCEPT ![e] = MaxZero(in_prefill_requests[e] - 1)]
      /\ in_decoding_requests' =
            [in_decoding_requests EXCEPT ![e] = in_decoding_requests[e] + 1]
      /\ finished_requests' = finished_requests
  BY <1>0, <1>2 DEF FirstChunk, on_request_response
<1>4. /\ Unanswered(e)' = Unanswered(e) \ {r} /\ r \in Unanswered(e)
      /\ OpenStreams(e)' = OpenStreams(e) \cup {r} /\ r \notin OpenStreams(e)
  BY <1>1 DEF Unanswered, OpenStreams, Completed, TypeOK
<1>5. \A f \in Engines \ {e} : /\ Unanswered(f)' = Unanswered(f)
                               /\ OpenStreams(f)' = OpenStreams(f)
  BY <1>1 DEF Unanswered, OpenStreams, TypeOK
<1>6. \A f \in Engines : /\ EmptyAnswers(f)' = EmptyAnswers(f)
                         /\ At(f, Completed)' = At(f, Completed)
  BY <1>1 DEF EmptyAnswers, At, Completed, TypeOK
<1>7. /\ Cardinality(Unanswered(e)') = Cardinality(Unanswered(e)) - 1
      /\ Cardinality(Unanswered(e)) >= 1
  BY <1>4, DropRequest DEF Unanswered
<1>8. Cardinality(OpenStreams(e)') = Cardinality(OpenStreams(e)) + 1
  BY <1>4, AddRequest DEF OpenStreams
<1>9. PrefillCountExact'
  BY <1>1, <1>3, <1>5, <1>7, CountsNat
     DEF CountInv, PrefillCountExact, MaxZero, TypeOK
<1>10. DecodingNotOver' /\ DecodingFloor'
  BY <1>1, <1>3, <1>5, <1>6, <1>8, CountsNat
     DEF CountInv, DecodingNotOver, DecodingFloor, TypeOK
<1> QED
  BY <1>3, <1>6, <1>9, <1>10 DEF CountInv, FinishedExact

(* Complete of a stream with a chunk closes it.  Complete of an empty        *)
(* answer adds to EmptyAnswers what it may take from in_decoding_requests.   *)
LEMMA CompleteCounts ==
    ASSUME TypeOK, PhaseInv, CountInv, NEW r \in Requests, Complete(r)
    PROVE  CountInv'
<1>0. PICK e \in Engines : e = engine[r]
  BY DEF Complete, PhaseInv, TypeOK
<1>1. /\ engine[r] = e /\ phase[r] \in {"headers", "streaming"}
      /\ phase'[r] \in Completed
      /\ \A q \in Requests \ {r} : phase'[q] = phase[q]
      /\ first_token' = first_token /\ engine' = engine
  BY <1>0 DEF Complete, Completed, TypeOK
<1>2. /\ in_decoding_requests' =
            [in_decoding_requests EXCEPT ![e] = MaxZero(in_decoding_requests[e] - 1)]
      /\ finished_requests' = [finished_requests EXCEPT ![e] = finished_requests[e] + 1]
      /\ in_prefill_requests' = in_prefill_requests
  BY <1>0 DEF Complete, on_request_complete
<1>3. /\ At(e, Completed)' = At(e, Completed) \cup {r} /\ r \notin At(e, Completed)
      /\ \A f \in Engines \ {e} : /\ At(f, Completed)' = At(f, Completed)
                                  /\ OpenStreams(f)' = OpenStreams(f)
                                  /\ EmptyAnswers(f)' = EmptyAnswers(f)
      /\ \A f \in Engines : Unanswered(f)' = Unanswered(f)
  BY <1>1 DEF At, OpenStreams, EmptyAnswers, Unanswered, Completed
<1>4. FinishedExact'
  <2>1. Cardinality(At(e, Completed)') = Cardinality(At(e, Completed)) + 1
    BY <1>3, AddRequest DEF At
  <2> QED
    BY <1>2, <1>3, <2>1, Zenon DEF CountInv, FinishedExact, TypeOK
<1>5. PrefillCountExact'
  BY <1>2, <1>3 DEF CountInv, PrefillCountExact
<1>6. DecodingNotOver' /\ DecodingFloor'
  <2>1. CASE first_token[r]
    <3>1. /\ OpenStreams(e)' = OpenStreams(e) \ {r} /\ r \in OpenStreams(e)
          /\ EmptyAnswers(e)' = EmptyAnswers(e)
      BY <1>1, <2>1 DEF OpenStreams, EmptyAnswers, Completed
    <3>2. /\ Cardinality(OpenStreams(e)') = Cardinality(OpenStreams(e)) - 1
          /\ Cardinality(OpenStreams(e)) >= 1
      BY <3>1, DropRequest DEF OpenStreams
    <3>3. \A f \in Engines : in_decoding_requests'[f] =
             IF f = e THEN MaxZero(in_decoding_requests[e] - 1)
                      ELSE in_decoding_requests[f]
      BY <1>2 DEF TypeOK
    <3>4. ASSUME NEW f \in Engines
          PROVE  /\ in_decoding_requests'[f] <= Cardinality(OpenStreams(f)')
                 /\ Cardinality(OpenStreams(f)')
                      <= in_decoding_requests'[f] + Cardinality(EmptyAnswers(f)')
      <4>1. /\ in_decoding_requests[f] <= Cardinality(OpenStreams(f))
            /\ Cardinality(OpenStreams(f))
                 <= in_decoding_requests[f] + Cardinality(EmptyAnswers(f))
            /\ in_decoding_requests[f] \in Nat
            /\ Cardinality(OpenStreams(f)) \in Nat
            /\ Cardinality(EmptyAnswers(f)) \in Nat
        BY CountsNat DEF CountInv, DecodingNotOver, DecodingFloor, TypeOK
      <4>2. CASE f = e
        <5>1. /\ in_decoding_requests'[e] = MaxZero(in_decoding_requests[e] - 1)
              /\ Cardinality(EmptyAnswers(e)') \in Nat
              /\ Cardinality(OpenStreams(e)') \in Nat
          BY <3>1, <3>2, <3>3, <4>1, <4>2
        <5>2. /\ in_decoding_requests'[e] <= Cardinality(OpenStreams(e)')
              /\ Cardinality(OpenStreams(e)')
                   <= in_decoding_requests'[e] + Cardinality(EmptyAnswers(e)')
          BY <3>1, <3>2, <4>1, <4>2, <5>1 DEF MaxZero
        <5> QED
          BY <4>2, <5>2
      <4>3. CASE f # e
        BY <1>3, <3>3, <4>1, <4>3
      <4> QED
        BY <4>2, <4>3
    <3> QED
      BY <3>4 DEF DecodingNotOver, DecodingFloor
  <2>2. CASE ~first_token[r]
    <3>1. /\ OpenStreams(e)' = OpenStreams(e)
          /\ EmptyAnswers(e)' = EmptyAnswers(e) \cup {r} /\ r \notin EmptyAnswers(e)
      BY <1>1, <2>2 DEF OpenStreams, EmptyAnswers, Completed
    <3>2. Cardinality(EmptyAnswers(e)') = Cardinality(EmptyAnswers(e)) + 1
      BY <3>1, AddRequest DEF EmptyAnswers
    <3>3. \A f \in Engines : in_decoding_requests'[f] =
             IF f = e THEN MaxZero(in_decoding_requests[e] - 1)
                      ELSE in_decoding_requests[f]
      BY <1>2 DEF TypeOK
    <3>4. ASSUME NEW f \in Engines
          PROVE  /\ in_decoding_requests'[f] <= Cardinality(OpenStreams(f)')
                 /\ Cardinality(OpenStreams(f)')
                      <= in_decoding_requests'[f] + Cardinality(EmptyAnswers(f)')
      <4>1. /\ in_decoding_requests[f] <= Cardinality(OpenStreams(f))
            /\ Cardinality(OpenStreams(f))
                 <= in_decoding_requests[f] + Cardinality(EmptyAnswers(f))
            /\ in_decoding_requests[f] \in Nat
            /\ Cardinality(OpenStreams(f)) \in Nat
            /\ Cardinality(EmptyAnswers(f)) \in Nat
        BY CountsNat DEF CountInv, DecodingNotOver, DecodingFloor, TypeOK
      <4>2. CASE f = e
        <5>1. /\ in_decoding_requests'[e] = MaxZero(in_decoding_requests[e] - 1)
              /\ Cardinality(EmptyAnswers(e)') \in Nat
              /\ Cardinality(OpenStreams(e)') \in Nat
          BY <3>1, <3>2, <3>3, <4>1, <4>2
        <5>2. /\ in_decoding_requests'[e] <= Cardinality(OpenStreams(e)')
              /\ Cardinality(OpenStreams(e)')
                   <= in_decoding_requests'[e] + Cardinality(EmptyAnswers(e)')
          BY <3>1, <3>2, <4>1, <4>2, <5>1 DEF MaxZero
        <5> QED
          BY <4>2, <5>2
      <4>3. CASE f # e
        BY <1>3, <3>3, <4>1, <4>3
      <4> QED
        BY <4>2, <4>3
    <3> QED
      BY <3>4 DEF DecodingNotOver, DecodingFloor
  <2> QED
    BY <2>1, <2>2
<1> QED
  BY <1>4, <1>5, <1>6 DEF CountInv

(* Every step of the router keeps the four facts about the counters.        *)
LEMMA CountsInductive ==
    TypeOK /\ PhaseInv /\ StartTimeInv /\ CountInv /\ [Next]_vars => CountInv'
<1> SUFFICES ASSUME TypeOK, PhaseInv, StartTimeInv, CountInv, [Next]_vars
             PROVE  CountInv'
  OBVIOUS
<1>1. ASSUME NEW r \in Requests, Headers(r) \/ Stored(r) \/ Fail(r)
      PROVE  CountInv'
  <2>1. /\ UNCHANGED <<monitor, engine, first_token>>
        /\ \A q \in Requests : phase'[q] \in Completed <=> phase[q] \in Completed
    BY <1>1 DEF Headers, Stored, Fail, Completed, TypeOK
  <2> QED
    BY <2>1, CountsUnchanged
       DEF monitor, Unanswered, OpenStreams, EmptyAnswers, At
<1>2. CASE Tick \/ UNCHANGED vars
  <2>1. UNCHANGED <<monitor, engine, first_token, phase>>
    BY <1>2 DEF Tick, vars
  <2> QED
    BY <2>1, CountsUnchanged
       DEF monitor, Unanswered, OpenStreams, EmptyAnswers, At
<1> QED
  BY <1>1, <1>2, StartCounts, FirstChunkCounts, CompleteCounts DEF Next
-----------------------------------------------------------------------------
(* A fresh monitor and no request satisfy the invariant.                    *)
LEMMA InitIInv == Init => IInv
<1> SUFFICES ASSUME Init PROVE IInv
  OBVIOUS
<1>1. TypeOK
  BY RequestServiceAssumption DEF Init, TypeOK, Phases
<1>2. PhaseInv /\ StartTimeInv /\ TtftNeverOver
  BY RequestServiceAssumption DEF Init, PhaseInv, StartTimeInv, TtftNeverOver
<1>3. \A e \in Engines : /\ Unanswered(e) = {} /\ OpenStreams(e) = {}
                         /\ EmptyAnswers(e) = {} /\ At(e, Completed) = {}
  BY RequestServiceAssumption DEF Init, Unanswered, OpenStreams, EmptyAnswers, At
<1>4. Cardinality({}) = 0
  BY FS_EmptySet
<1>5. \A e \in Engines : /\ in_prefill_requests[e] = 0
                         /\ in_decoding_requests[e] = 0 /\ finished_requests[e] = 0
  BY DEF Init
<1>6. PrefillCountExact /\ DecodingNotOver /\ FinishedExact /\ DecodingFloor
  <2> SUFFICES ASSUME NEW e \in Engines
               PROVE  /\ in_prefill_requests[e] = Cardinality(Unanswered(e))
                      /\ in_decoding_requests[e] <= Cardinality(OpenStreams(e))
                      /\ finished_requests[e] = Cardinality(At(e, Completed))
                      /\ Cardinality(OpenStreams(e))
                           <= in_decoding_requests[e] + Cardinality(EmptyAnswers(e))
    BY DEF PrefillCountExact, DecodingNotOver, FinishedExact, DecodingFloor
  <2> QED
    BY <1>3, <1>4, <1>5
<1> QED
  BY <1>1, <1>2, <1>6 DEF IInv

(* IInv holds in every reachable state, for any number of engines, requests *)
(* and ids.                                                                 *)
THEOREM InductiveInvariant == Spec => []IInv
<1>1. IInv /\ [Next]_vars => IInv'
  BY TypeInductive, PhaseInductive, StartTimeInductive, TtftInductive,
     CountsInductive DEF IInv, CountInv
<1> QED
  BY InitIInv, <1>1, PTL DEF Spec

(* The states of process_request and of the monitor are well-typed.         *)
THEOREM TypeCorrect == Spec => []TypeOK
BY InductiveInvariant, PTL DEF IInv

(* in_prefill_requests is exactly the number of requests that never had a   *)
(* chunk, failed ones included.                                             *)
THEOREM PrefillCount == Spec => []PrefillCountExact
BY InductiveInvariant, PTL DEF IInv

(* in_decoding_requests never counts more than the unfinished streams.      *)
THEOREM DecodingCount == Spec => []DecodingNotOver
BY InductiveInvariant, PTL DEF IInv

(* A TTFT sample never exceeds the time its request really waited.          *)
THEOREM TtftBound == Spec => []TtftNeverOver
BY InductiveInvariant, PTL DEF IInv

(* The sizes of disjoint sets of requests add up.                           *)
LEMMA DisjointUnion ==
    ASSUME NEW S, NEW T, IsFiniteSet(S), IsFiniteSet(T), S \cap T = {}
    PROVE  Cardinality(S \cup T) = Cardinality(S) + Cardinality(T)
<1>1. Cardinality(S \cup T) = Cardinality(S) + Cardinality(T) - Cardinality(S \cap T)
  BY FS_Union
<1>2. Cardinality(S \cap T) = 0
  BY FS_EmptySet
<1>3. Cardinality(S) \in Nat /\ Cardinality(T) \in Nat
  BY FS_CardinalityType
<1> QED
  BY <1>1, <1>2, <1>3

(* No request sent to an engine is missing from the engine's counters.      *)
THEOREM NothingIsLost == Spec => []NothingLost
<1>1. IInv => NothingLost
  <2> SUFFICES ASSUME IInv, NEW e \in Engines
               PROVE  /\ finished_requests[e] = Cardinality(At(e, Completed))
                      /\ Cardinality({r \in Requests : engine[r] = e})
                           <= in_prefill_requests[e] + in_decoding_requests[e]
                                + finished_requests[e]
    BY DEF NothingLost
  <2> DEFINE All == {r \in Requests : engine[r] = e}
             Closed == {r \in Requests : /\ engine[r] = e /\ first_token[r]
                                         /\ phase[r] \in Completed}
  <2>1. /\ IsFiniteSet(Unanswered(e)) /\ IsFiniteSet(OpenStreams(e))
        /\ IsFiniteSet(Closed) /\ IsFiniteSet(EmptyAnswers(e))
        /\ IsFiniteSet(Unanswered(e) \cup OpenStreams(e))
        /\ Cardinality(Closed) \in Nat
    BY RequestSetsFinite DEF Unanswered, OpenStreams, EmptyAnswers
  <2>2. /\ At(e, Completed) = Closed \cup EmptyAnswers(e)
        /\ Closed \cap EmptyAnswers(e) = {}
        /\ All = (Unanswered(e) \cup OpenStreams(e)) \cup Closed
        /\ (Unanswered(e) \cup OpenStreams(e)) \cap Closed = {}
        /\ Unanswered(e) \cap OpenStreams(e) = {}
    BY DEF At, EmptyAnswers, Unanswered, OpenStreams, IInv, TypeOK
  <2>3. Cardinality(At(e, Completed)) = Cardinality(Closed) + Cardinality(EmptyAnswers(e))
    BY <2>1, <2>2, DisjointUnion
  <2>4. Cardinality(Unanswered(e) \cup OpenStreams(e))
          = Cardinality(Unanswered(e)) + Cardinality(OpenStreams(e))
    BY <2>1, <2>2, DisjointUnion
  <2>5. Cardinality(All) = Cardinality(Unanswered(e)) + Cardinality(OpenStreams(e))
                             + Cardinality(Closed)
    BY <2>1, <2>2, <2>4, DisjointUnion
  <2>6. /\ in_prefill_requests[e] = Cardinality(Unanswered(e))
        /\ finished_requests[e] = Cardinality(At(e, Completed))
        /\ Cardinality(OpenStreams(e))
             <= in_decoding_requests[e] + Cardinality(EmptyAnswers(e))
        /\ in_decoding_requests[e] \in Nat
    BY DEF IInv, PrefillCountExact, FinishedExact, DecodingFloor, TypeOK
  <2> HIDE DEF All, Closed
  <2>7. Cardinality(All) <= in_prefill_requests[e] + in_decoding_requests[e]
                              + finished_requests[e]
    BY <2>1, <2>3, <2>5, <2>6, CountsNat
  <2> QED
    BY <2>6, <2>7 DEF All
<1> QED
  BY <1>1, InductiveInvariant, PTL

(* request_start_time has an entry for exactly the engine and id of every    *)
(* request that on_new_request was called for: the monitor never removes one. *)
THEOREM StartTimesExact == Spec => []EntriesExact
<1>1. Init => EntriesExact
  BY RequestServiceAssumption DEF Init, EntriesExact
<1>2. IInv /\ EntriesExact /\ [Next]_vars => EntriesExact'
  <2> SUFFICES ASSUME IInv, EntriesExact, [Next]_vars PROVE EntriesExact'
    OBVIOUS
  <2>1. CASE UNCHANGED <<request_start_time, engine>>
    <3>1. request_start_time' = request_start_time /\ engine' = engine
      BY <2>1
    <3> SUFFICES ASSUME NEW f \in Engines, NEW id \in RequestIds
                 PROVE  request_start_time'[<<f, id>>] # -1 <=> \E q \in Requests : engine'[q] = f /\ IdOf[q] = id
      BY DEF EntriesExact
    <3>2. request_start_time[<<f, id>>] # -1 <=> \E q \in Requests : engine[q] = f /\ IdOf[q] = id
      BY DEF EntriesExact
    <3> QED
      BY <3>1, <3>2
  <2>2. ASSUME NEW r \in Requests, NEW e \in Engines, Start(r, e) PROVE EntriesExact'
    <3>1. engine[r] \notin Engines /\ engine' = [engine EXCEPT ![r] = e] /\ engine \in [Requests -> Engines \cup {NoEngine}]
      BY <2>2, RequestServiceAssumption DEF Start, IInv, PhaseInv, TypeOK
    <3>2. /\ request_start_time' = [request_start_time EXCEPT ![<<e, IdOf[r]>>] = clock]
          /\ clock # -1 /\ IdOf[r] \in RequestIds
          /\ request_start_time \in [Engines \X RequestIds -> Nat \cup {-1}]
      <4>1. request_start_time' = [request_start_time EXCEPT ![<<e, IdOf[r]>>] = clock]
        BY <2>2, Zenon DEF Start, on_new_request
      <4>2. clock # -1 /\ IdOf[r] \in RequestIds
        BY RequestServiceAssumption DEF IInv, TypeOK
      <4>3. request_start_time \in [Engines \X RequestIds -> Nat \cup {-1}]
        BY DEF IInv, TypeOK
      <4> QED
        BY <4>1, <4>2, <4>3
    <3> SUFFICES ASSUME NEW f \in Engines, NEW id \in RequestIds
                 PROVE  request_start_time'[<<f, id>>] # -1 <=> \E q \in Requests : engine'[q] = f /\ IdOf[q] = id
      BY DEF EntriesExact
    <3>3. request_start_time[<<f, id>>] # -1 <=> \E q \in Requests : engine[q] = f /\ IdOf[q] = id
      BY DEF EntriesExact
    <3>4. CASE f = e /\ id = IdOf[r]
      BY <3>1, <3>2, <3>4
    <3>5. CASE ~(f = e /\ id = IdOf[r])
      <4>1. request_start_time'[<<f, id>>] = request_start_time[<<f, id>>]
        BY <3>2, <3>5
      <4>2. \A q \in Requests : (engine'[q] = f /\ IdOf[q] = id) <=> (engine[q] = f /\ IdOf[q] = id)
        BY <3>1, <3>5
      <4> QED
        BY <3>3, <4>1, <4>2
    <3> QED
      BY <3>4, <3>5
  <2>3. ASSUME NEW r \in Requests, Headers(r) \/ FirstChunk(r) \/ Complete(r) \/ Stored(r) \/ Fail(r)
        PROVE  EntriesExact'
    BY <2>1, <2>3, Zenon DEF Headers, FirstChunk, Complete, Stored, Fail, on_request_response, on_request_complete, monitor
  <2>4. CASE Tick \/ UNCHANGED vars
    BY <2>1, <2>4 DEF Tick, vars, monitor
  <2> QED
    BY <2>2, <2>3, <2>4 DEF Next
<1> QED
  BY <1>1, <1>2, InductiveInvariant, PTL DEF Spec

-----------------------------------------------------------------------------
(* DisaggregatedPrefill.                                                   *)

\* Min of a set of naturals is its least element.
LEMMA NatMin ==
    ASSUME NEW S, S \subseteq Nat, S # {}
    PROVE  Min(S) \in S /\ \A y \in S : Min(S) <= y
<1>1. PICK x \in S : \A y \in S : ~(<<y, x>> \in OpToRel(<, Nat))
  BY NatLessThanWellFounded, WFMin
<1>2. \A y \in S : ~(y < x)
  BY <1>1, Zenon DEF OpToRel
<1>3. \E z \in S : \A y \in S : z <= y
  BY <1>2
<1> QED
  BY <1>3, Zenon DEF Min

\* Before the application starts there is nothing to initialise.
StartInv == lifespan = "boot" => ~Initialising

\* While an initialisation runs, the last entry of a role is still to be
\* visited, or the session leads to it (the strengthening of NewestServes).
NewestInv ==
    lifespan # "boot" =>
       \A k \in Roles \ dirty, i \in DOMAIN available : LastOf(available, i, k) =>
          \/ \E j \in DOMAIN todo : LastOf(todo, j, k) /\ todo[j] = available[i]
          \/ (\A j \in DOMAIN todo : Label[todo[j]] # k) /\ client[k] = available[i]

SessionInv == SessionsTypeOK /\ StartInv /\ ClosedOnlyInReplacement /\ NewestInv

\* Where the initialisation is, and what it has still to visit after that.
LEMMA HereFacts ==
    ASSUME todo \in Seq(PDEngines), Initialising
    PROVE  /\ Len(todo) \in Nat /\ Here \in 1 .. Len(todo) /\ Role \in Roles /\ todo[Here] \in PDEngines
           /\ \A j \in 1 .. Len(todo) : j < Here => Label[todo[j]] \notin Roles
           /\ Rest \in Seq(PDEngines) /\ Len(Rest) = Len(todo) - Here
           /\ \A j \in 1 .. Len(Rest) : Rest[j] = todo[Here + j]
<1>1. Len(todo) \in Nat /\ DOMAIN todo = 1 .. Len(todo)
  BY LenProperties
<1>2. Pending \subseteq Nat /\ Pending # {}
  BY <1>1 DEF Pending, Initialising
<1>3. Here \in Pending /\ \A j \in Pending : Here <= j
  BY <1>2, NatMin, Zenon DEF Here
<1>4. Here \in 1 .. Len(todo) /\ Role \in Roles /\ todo[Here] \in PDEngines
  BY <1>1, <1>3 DEF Pending, Role
<1>5. \A j \in 1 .. Len(todo) : j < Here => Label[todo[j]] \notin Roles
  BY <1>1, <1>3, <1>4 DEF Pending
<1> HIDE DEF Here
<1>6. \A i \in Here + 1 .. Len(todo) : todo[i] \in PDEngines
  BY <1>1, <1>4, ElementOfSeq
<1>7. /\ Rest \in Seq(PDEngines)
      /\ Len(Rest) = IF Here + 1 <= Len(todo) THEN Len(todo) - (Here + 1) + 1 ELSE 0
      /\ \A j \in 1 .. Len(todo) - (Here + 1) + 1 : Rest[j] = todo[Here + 1 + j - 1]
  <2>1. Here + 1 \in Int /\ Len(todo) \in Int
    BY <1>1, <1>4
  <2> QED
    BY <1>6, <2>1, SubSeqProperties DEF Rest
<1>8. Len(Rest) = Len(todo) - Here
  <2>1. Len(Rest) = IF Here + 1 <= Len(todo) THEN Len(todo) - (Here + 1) + 1 ELSE 0
    BY <1>7, Zenon
  <2>2. Here \in Nat /\ Here <= Len(todo)
    BY <1>1, <1>4
  <2>3. ASSUME NEW l \in Nat, NEW h \in Nat, h <= l, NEW n, n = IF h + 1 <= l THEN l - (h + 1) + 1 ELSE 0
        PROVE  n = l - h
    BY <2>3
  <2> QED
    BY <1>1, <2>1, <2>2, <2>3, Zenon
<1>9. \A j \in 1 .. Len(Rest) : Rest[j] = todo[Here + j]
  <2> SUFFICES ASSUME NEW j \in 1 .. Len(Rest) PROVE Rest[j] = todo[Here + j]
    OBVIOUS
  <2>1. j \in 1 .. Len(todo) - (Here + 1) + 1 /\ Here + 1 + j - 1 = Here + j
    BY <1>1, <1>4, <1>8
  <2> QED
    BY <1>7, <2>1
<1> QED
  BY <1>1, <1>4, <1>5, <1>7, <1>8, <1>9, Zenon

\* del available_engines[name]: the entries behind it move up.
LEMMA RemoveFacts ==
    ASSUME NEW S, NEW s \in Seq(S), NEW i \in 1 .. Len(s)
    PROVE  /\ Len(s) \in Nat /\ RemoveAt(s, i) \in Seq(S) /\ Len(RemoveAt(s, i)) = Len(s) - 1
           /\ \A j \in 1 .. Len(s) - 1 : RemoveAt(s, i)[j] = s[IF j < i THEN j ELSE j + 1]
<1> DEFINE a == SubSeq(s, 1, i - 1)
           b == SubSeq(s, i + 1, Len(s))
<1>1. Len(s) \in Nat /\ \A j \in 1 .. Len(s) : s[j] \in S
  BY LenProperties, ElementOfSeq
<1>2. /\ 1 \in Int /\ i - 1 \in Int /\ i + 1 \in Int /\ Len(s) \in Int
      /\ \A j \in 1 .. i - 1 : s[j] \in S
      /\ \A j \in i + 1 .. Len(s) : s[j] \in S
  BY <1>1
<1>3. /\ a \in Seq(S) /\ Len(a) = IF 1 <= i - 1 THEN (i - 1) - 1 + 1 ELSE 0
      /\ \A j \in 1 .. (i - 1) - 1 + 1 : a[j] = s[1 + j - 1]
  BY <1>2, SubSeqProperties
<1>4. /\ b \in Seq(S) /\ Len(b) = IF i + 1 <= Len(s) THEN Len(s) - (i + 1) + 1 ELSE 0
      /\ \A j \in 1 .. Len(s) - (i + 1) + 1 : b[j] = s[i + 1 + j - 1]
  BY <1>2, SubSeqProperties
<1> HIDE DEF a, b
<1>5. Len(a) = i - 1 /\ Len(b) = Len(s) - i
  BY <1>1, <1>3, <1>4
<1>6. /\ a \o b \in Seq(S) /\ Len(a \o b) = Len(a) + Len(b)
      /\ \A j \in 1 .. Len(a) + Len(b) : (a \o b)[j] = IF j <= Len(a) THEN a[j] ELSE b[j - Len(a)]
  BY <1>3, <1>4, ConcatProperties, Zenon
<1>7. /\ Len(a) + Len(b) = Len(s) - 1
      /\ \A j \in 1 .. Len(s) - 1 : (a \o b)[j] = IF j <= i - 1 THEN a[j] ELSE b[j - (i - 1)]
  <2>1. Len(a) + Len(b) = Len(s) - 1
    BY <1>1, <1>5
  <2> QED
    BY <1>5, <1>6, <2>1, Zenon
<1>8. ASSUME NEW j \in 1 .. Len(s) - 1 PROVE (a \o b)[j] = s[IF j < i THEN j ELSE j + 1]
  <2>1. (a \o b)[j] = IF j <= i - 1 THEN a[j] ELSE b[j - (i - 1)]
    BY <1>7, Zenon
  <2>2. CASE j < i
    <3>1. j \in 1 .. (i - 1) - 1 + 1 /\ 1 + j - 1 = j /\ j <= i - 1
      BY <1>1, <2>2
    <3> QED
      BY <1>3, <2>1, <2>2, <3>1
  <2>3. CASE ~(j < i)
    <3>1. /\ j - (i - 1) \in 1 .. Len(s) - (i + 1) + 1 /\ i + 1 + (j - (i - 1)) - 1 = j + 1
          /\ ~(j <= i - 1)
      BY <1>1, <2>3
    <3> QED
      BY <1>4, <2>1, <2>3, <3>1
  <2> QED
    BY <2>2, <2>3, Zenon
<1>9. RemoveAt(s, i) = a \o b
  BY DEF RemoveAt, a, b
<1>10. Len(a \o b) = Len(s) - 1
  BY <1>6, <1>7, Zenon
<1> QED
  BY <1>1, <1>6, <1>8, <1>9, <1>10, Zenon

\* The invariant holds initially.
LEMMA SessionInvInit == SessionsInit => SessionInv
<1> SUFFICES ASSUME SessionsInit PROVE SessionInv
  OBVIOUS
<1>1. available = <<>> /\ todo = <<>> /\ lifespan = "boot" /\ closed = [k \in Roles |-> FALSE]
  BY DEF SessionsInit
<1>2. <<>> \in Seq(PDEngines) /\ IsInjective(<<>>)
  BY DEF IsInjective
<1>3. SessionsTypeOK
  <2>1. request \in [PDRequests -> [at : Stages, engine : PDEngines \cup {None}, cut : BOOLEAN]]
    BY DEF SessionsInit, New, Stages
  <2>2. closed \in [Roles -> BOOLEAN]
    BY <1>1, Zenon
  <2>3. changes \in 0 .. MaxChanges
    BY DisaggregatedAssumption DEF SessionsInit
  <2> QED
    BY <1>1, <1>2, <2>1, <2>2, <2>3 DEF SessionsInit, SessionsTypeOK
<1>4. ~Initialising
  BY <1>1 DEF Initialising, Pending
<1> QED
  BY <1>1, <1>3, <1>4 DEF SessionInv, StartInv, ClosedOnlyInReplacement, NewestInv

\* The request handlers leave everything but the requests alone.
HandlerFrame == UNCHANGED <<alive, changes, available, lifespan, todo, client, closed, dirty>>

\* A request handler changes its own request only.
LEMMA HandleNext ==
    ASSUME SessionsTypeOK, NEW r \in PDRequests, Handle(r)
    PROVE  /\ HandlerFrame
           /\ request' \in [PDRequests -> [at : Stages, engine : PDEngines \cup {None}, cut : BOOLEAN]]
<1> DEFINE Req == [at : Stages, engine : PDEngines \cup {None}, cut : BOOLEAN]
<1>1. request \in [PDRequests -> Req] /\ request[r] \in Req
  BY DEF SessionsTypeOK
<1>2. New \in Req /\ Failed \in Req /\ [New EXCEPT !.at = "prefilled"] \in Req
  BY Zenon DEF New, Failed, Stages
<1>3. ASSUME NEW s \in Req, Set(r, s) PROVE HandlerFrame /\ request' \in [PDRequests -> Req]
  BY <1>1, <1>3 DEF Set, HandlerFrame
<1>4. ASSUME NEW k \in Roles, Post(r, k) PROVE HandlerFrame /\ request' \in [PDRequests -> Req]
  <2>1. [at |-> k, engine |-> client[k], cut |-> FALSE] \in Req
    BY DEF SessionsTypeOK, Stages, Roles
  <2>2. (IF client[k] = None \/ closed[k] THEN Failed
         ELSE [at |-> k, engine |-> client[k], cut |-> FALSE]) \in Req
    BY <1>2, <2>1
  <2> HIDE DEF Req
  <2> QED
    BY <1>3, <1>4, <2>2 DEF Post
<1>5. [request[r] EXCEPT !.at = "done"] \in Req /\ [request[r] EXCEPT !.at = "failed"] \in Req
  BY <1>1 DEF Stages
<1>6. "prefill" \in Roles /\ "decode" \in Roles
  BY DEF Roles
<1> HIDE DEF Req
<1>7. ASSUME Prefill(r) PROVE HandlerFrame /\ request' \in [PDRequests -> Req]
  BY <1>4, <1>6, <1>7 DEF Prefill
<1>8. ASSUME Prefilled(r) PROVE HandlerFrame /\ request' \in [PDRequests -> Req]
  BY <1>2, <1>3, <1>8 DEF Prefilled
<1>9. ASSUME Decode(r) PROVE HandlerFrame /\ request' \in [PDRequests -> Req]
  BY <1>4, <1>6, <1>9 DEF Decode
<1>10. ASSUME Decoded(r) PROVE HandlerFrame /\ request' \in [PDRequests -> Req]
  BY <1>3, <1>5, <1>10 DEF Decoded
<1>11. ASSUME Broken(r) PROVE HandlerFrame /\ request' \in [PDRequests -> Req]
  BY <1>3, <1>5, <1>11 DEF Broken
<1>12. HandlerFrame /\ request' \in [PDRequests -> Req]
  BY <1>7, <1>8, <1>9, <1>10, <1>11 DEF Handle
<1> QED
  BY <1>12 DEF Req

\* An entry added at the end or taken out keeps the list free of repetitions.
LEMMA ListNext ==
    ASSUME SessionsTypeOK, NEW e \in PDEngines
    PROVE  /\ Added(e) => available' \in Seq(PDEngines) /\ IsInjective(available')
           /\ Deleted(e) => available' \in Seq(PDEngines) /\ IsInjective(available')
<1>1. available \in Seq(PDEngines) /\ IsInjective(available)
  BY DEF SessionsTypeOK
<1>2. Len(available) \in Nat /\ DOMAIN available = 1 .. Len(available)
  BY <1>1, LenProperties
<1>3. ASSUME e \notin Listed
      PROVE  Append(available, e) \in Seq(PDEngines) /\ IsInjective(Append(available, e))
  <2>1. \A j \in 1 .. Len(available) : available[j] # e
    BY <1>2, <1>3 DEF Listed, Range
  <2> QED
    BY <1>1, <1>2, <2>1, AppendProperties DEF IsInjective
<1>4. ASSUME NEW i \in DOMAIN available
      PROVE  RemoveAt(available, i) \in Seq(PDEngines) /\ IsInjective(RemoveAt(available, i))
  <2> DEFINE q == RemoveAt(available, i)
             m(j) == IF j < i THEN j ELSE j + 1
  <2>1. /\ q \in Seq(PDEngines) /\ Len(q) = Len(available) - 1
        /\ \A j \in 1 .. Len(available) - 1 : q[j] = available[m(j)]
    BY <1>1, <1>2, <1>4, RemoveFacts, Zenon
  <2> HIDE DEF q
  <2>2. DOMAIN q = 1 .. Len(available) - 1
    BY <2>1, LenProperties
  <2>3. ASSUME NEW a \in DOMAIN q, NEW b \in DOMAIN q, q[a] = q[b] PROVE a = b
    <3>1. available[m(a)] = available[m(b)] /\ m(a) \in 1 .. Len(available) /\ m(b) \in 1 .. Len(available)
      BY <1>2, <1>4, <2>1, <2>2, <2>3
    <3>2. m(a) = m(b)
      BY <1>1, <1>2, <3>1 DEF IsInjective
    <3> QED
      BY <1>2, <2>2, <3>2
  <2> QED
    BY <2>1, <2>3 DEF IsInjective, q
<1>5. ASSUME Added(e) PROVE available' \in Seq(PDEngines) /\ IsInjective(available')
  <2>1. available' = available \/ (e \notin Listed /\ available' = Append(available, e))
    BY <1>5 DEF Added
  <2> QED
    BY <1>1, <1>3, <2>1, Zenon
<1>6. ASSUME Deleted(e) PROVE available' \in Seq(PDEngines) /\ IsInjective(available')
  <2>1. PICK i \in DOMAIN available : available' = RemoveAt(available, i)
    BY <1>6 DEF Deleted
  <2> QED
    BY <1>4, <2>1, Zenon
<1> QED
  BY <1>5, <1>6

\* Every step keeps the types.
LEMMA SessionTypeNext == ASSUME SessionsTypeOK, SessionsNext PROVE SessionsTypeOK'
<1>1. /\ available \in Seq(PDEngines) /\ IsInjective(available) /\ todo \in Seq(PDEngines)
      /\ client \in [Roles -> PDEngines \cup {None}] /\ closed \in [Roles -> BOOLEAN]
      /\ request \in [PDRequests -> [at : Stages, engine : PDEngines \cup {None}, cut : BOOLEAN]]
  BY DEF SessionsTypeOK
<1>2. ASSUME NEW e \in PDEngines, Toggle(e) PROVE SessionsTypeOK'
  BY <1>2, DisaggregatedAssumption DEF Toggle, SessionsTypeOK
<1>3. ASSUME NEW e \in PDEngines, Added(e) PROVE SessionsTypeOK'
  <2>1. available' \in Seq(PDEngines) /\ IsInjective(available')
    BY <1>3, ListNext
  <2>2. todo' \in Seq(PDEngines) /\ dirty' \subseteq Roles
    BY <1>1, <1>3, <2>1, Zenon DEF Added, SessionsTypeOK
  <2> QED
    BY <1>3, <2>1, <2>2 DEF Added, SessionsTypeOK
<1>4. ASSUME NEW e \in PDEngines, Deleted(e) PROVE SessionsTypeOK'
  <2>1. available' \in Seq(PDEngines) /\ IsInjective(available')
    BY <1>4, ListNext
  <2>2. dirty' \subseteq Roles
    BY <1>4 DEF Deleted, SessionsTypeOK
  <2> QED
    BY <1>4, <2>1, <2>2 DEF Deleted, SessionsTypeOK
<1>5. ASSUME Boot PROVE SessionsTypeOK'
  BY <1>5 DEF Boot, SessionsTypeOK
<1>6. ASSUME Serve PROVE SessionsTypeOK'
  BY <1>6 DEF Serve, SessionsTypeOK
<1>7. ASSUME CloseClient PROVE SessionsTypeOK'
  <2>1. closed' \in [Roles -> BOOLEAN]
    BY <1>1, <1>7, Zenon DEF CloseClient
  <2>2. request' \in [PDRequests -> [at : Stages, engine : PDEngines \cup {None}, cut : BOOLEAN]]
    BY <1>1, <1>7, Zenon DEF CloseClient
  <2> QED
    BY <1>7, <2>1, <2>2 DEF CloseClient, SessionsTypeOK
<1>8. ASSUME NewClient PROVE SessionsTypeOK'
  <2>1. todo[Here] \in PDEngines /\ Rest \in Seq(PDEngines)
    BY <1>1, <1>8, HereFacts DEF NewClient
  <2>2. closed' \in [Roles -> BOOLEAN]
    BY <1>1, <1>8, Zenon DEF NewClient
  <2>3. client' \in [Roles -> PDEngines \cup {None}] /\ todo' \in Seq(PDEngines)
    BY <1>1, <1>8, <2>1, Zenon DEF NewClient
  <2> QED
    BY <1>8, <2>2, <2>3 DEF NewClient, SessionsTypeOK
<1>9. ASSUME NEW r \in PDRequests, Handle(r) PROVE SessionsTypeOK'
  BY <1>9, HandleNext DEF HandlerFrame, SessionsTypeOK
<1> QED
  BY <1>2, <1>3, <1>4, <1>5, <1>6, <1>7, <1>8, <1>9 DEF SessionsNext, Initialise

\* Where a step leaves the initialisation and the lists alone, there is
\* nothing to show.
LEMMA FrameNext ==
    ASSUME StartInv, ClosedOnlyInReplacement, NewestInv,
           UNCHANGED <<available, lifespan, todo, client, closed, dirty>>
    PROVE  StartInv' /\ ClosedOnlyInReplacement' /\ NewestInv'
<1>1. Initialising' = Initialising /\ Role' = Role
  BY DEF Initialising, Role, Here, Pending
<1>2. StartInv' /\ ClosedOnlyInReplacement'
  BY <1>1 DEF StartInv, ClosedOnlyInReplacement
<1>3. NewestInv'
  BY DEF NewestInv, LastOf
<1> QED
  BY <1>2, <1>3

\* An engine is listed: the endpoints are read anew, or its role is dirty.
LEMMA AddedNext ==
    ASSUME SessionsTypeOK, StartInv, ClosedOnlyInReplacement, NewestInv, NEW e \in PDEngines, Added(e)
    PROVE  StartInv' /\ ClosedOnlyInReplacement' /\ NewestInv'
<1>1. available \in Seq(PDEngines) /\ Len(available) \in Nat /\ DOMAIN available = 1 .. Len(available)
  BY LenProperties DEF SessionsTypeOK
<1>2. CASE lifespan = "serving"
  <2>1. \A k \in Roles : ~closed[k]
    BY <1>2 DEF Added, WatcherIdle, ClosedOnlyInReplacement
  <2>2. ClosedOnlyInReplacement'
    BY <2>1 DEF Added, ClosedOnlyInReplacement
  <2>3. StartInv'
    BY <1>2 DEF Added, StartInv
  <2>4. todo' = available'
    BY <1>2 DEF Added
  <2>5. NewestInv'
    BY <2>4 DEF NewestInv, LastOf
  <2> QED
    BY <2>2, <2>3, <2>5
<1>3. CASE lifespan # "serving"
  <2>1. todo' = todo /\ lifespan' = lifespan /\ client' = client /\ closed' = closed
    BY <1>3 DEF Added
  <2>2. Initialising' = Initialising /\ Role' = Role
    BY <2>1 DEF Initialising, Role, Here, Pending
  <2>3. StartInv' /\ ClosedOnlyInReplacement'
    BY <2>1, <2>2 DEF StartInv, ClosedOnlyInReplacement
  <2>4. ASSUME NEW k \in Roles, k \notin dirty', NEW i \in DOMAIN available', LastOf(available', i, k)
        PROVE  i \in DOMAIN available /\ available'[i] = available[i] /\ LastOf(available, i, k) /\ k \notin dirty
    <3>1. k \notin dirty /\ Label[e] # k
      BY <1>3, <2>4 DEF Added
    <3>2. CASE available' = available
      BY <2>4, <3>1, <3>2
    <3>3. CASE available' = Append(available, e)
      <4>1. /\ DOMAIN available' = 1 .. Len(available) + 1 /\ available'[Len(available) + 1] = e
            /\ \A j \in 1 .. Len(available) : available'[j] = available[j]
        BY <1>1, <3>3, AppendProperties
      <4>2. i \in 1 .. Len(available)
        BY <1>1, <2>4, <3>1, <4>1 DEF LastOf
      <4> QED
        BY <1>1, <2>4, <3>1, <4>1, <4>2 DEF LastOf
    <3> QED
      BY <3>2, <3>3 DEF Added
  <2>5. NewestInv'
    BY <2>1, <2>4 DEF NewestInv, LastOf
  <2> QED
    BY <2>3, <2>5
<1> QED
  BY <1>2, <1>3

\* An engine is no longer listed.
LEMMA DeletedNext ==
    ASSUME SessionsTypeOK, StartInv, ClosedOnlyInReplacement, NewestInv, NEW e \in PDEngines, Deleted(e)
    PROVE  StartInv' /\ ClosedOnlyInReplacement' /\ NewestInv'
<1>1. available \in Seq(PDEngines) /\ Len(available) \in Nat /\ DOMAIN available = 1 .. Len(available)
  BY LenProperties DEF SessionsTypeOK
<1>2. todo' = todo /\ lifespan' = lifespan /\ client' = client /\ closed' = closed
  BY DEF Deleted
<1>3. Initialising' = Initialising /\ Role' = Role
  BY <1>2 DEF Initialising, Role, Here, Pending
<1>4. StartInv' /\ ClosedOnlyInReplacement'
  BY <1>2, <1>3 DEF StartInv, ClosedOnlyInReplacement
<1>5. PICK d \in 1 .. Len(available) : available[d] = e /\ available' = RemoveAt(available, d)
  BY <1>1 DEF Deleted
<1>6. /\ available' \in Seq(PDEngines) /\ Len(available') = Len(available) - 1
      /\ \A j \in 1 .. Len(available) - 1 : available'[j] = available[IF j < d THEN j ELSE j + 1]
  BY <1>1, <1>5, RemoveFacts, Zenon
<1>7. DOMAIN available' = 1 .. Len(available) - 1
  BY <1>6, LenProperties
<1>8. ASSUME NEW k \in Roles, k \notin dirty', NEW i \in DOMAIN available', LastOf(available', i, k)
      PROVE  \E m \in DOMAIN available : available'[i] = available[m] /\ LastOf(available, m, k)
  <2> DEFINE m == IF i < d THEN i ELSE i + 1
  <2>1. m \in 1 .. Len(available) /\ available'[i] = available[m] /\ Label[available[m]] = k
    BY <1>1, <1>5, <1>6, <1>7, <1>8 DEF LastOf
  <2>2. Label[e] # k
    BY <1>8 DEF Deleted
  <2>3. ASSUME NEW j \in 1 .. Len(available), j > m PROVE Label[available[j]] # k
    <3>1. CASE j = d
      BY <1>5, <2>2, <3>1
    <3>2. CASE j < d
      <4>1. j \in 1 .. Len(available) - 1 /\ j > i
        BY <1>1, <1>5, <1>7, <2>3, <3>2
      <4> QED
        BY <1>6, <1>7, <1>8, <3>2, <4>1 DEF LastOf
    <3>3. CASE j > d
      <4>1. j - 1 \in 1 .. Len(available) - 1 /\ j - 1 > i /\ ~(j - 1 < d) /\ (j - 1) + 1 = j
        BY <1>1, <1>5, <1>7, <2>3, <3>3
      <4>2. available'[j - 1] = available[j]
        BY <1>6, <4>1, Zenon
      <4> QED
        BY <1>7, <1>8, <4>1, <4>2 DEF LastOf
    <3> QED
      BY <1>1, <3>1, <3>2, <3>3
  <2> QED
    BY <1>1, <2>1, <2>3, Zenon DEF LastOf
<1>9. NewestInv'
  <2>0. /\ \A k, i : LastOf(available, i, k)' <=> LastOf(available', i, k)
        /\ \A k, j : LastOf(todo, j, k)' <=> LastOf(todo, j, k)
    BY <1>2 DEF LastOf
  <2> SUFFICES ASSUME lifespan # "boot", NEW k \in Roles, k \notin dirty', NEW i \in DOMAIN available',
                      LastOf(available', i, k)
               PROVE  \/ \E j \in DOMAIN todo : LastOf(todo, j, k) /\ todo[j] = available'[i]
                      \/ (\A j \in DOMAIN todo : Label[todo[j]] # k) /\ client[k] = available'[i]
    BY <1>2, <2>0 DEF NewestInv
  <2>1. k \notin dirty
    BY DEF Deleted
  <2>2. PICK m \in DOMAIN available : available'[i] = available[m] /\ LastOf(available, m, k)
    BY <1>8
  <2>3. \/ \E j \in DOMAIN todo : LastOf(todo, j, k) /\ todo[j] = available[m]
        \/ (\A j \in DOMAIN todo : Label[todo[j]] # k) /\ client[k] = available[m]
    BY <2>1, <2>2, Zenon DEF NewestInv
  <2> QED
    BY <2>2, <2>3
<1> QED
  BY <1>4, <1>9

\* The application starts with nothing to initialise.
LEMMA BootNext ==
    ASSUME StartInv, ClosedOnlyInReplacement, Boot
    PROVE  StartInv' /\ ClosedOnlyInReplacement' /\ NewestInv'
<1>1. \A k \in Roles : ~closed[k]
  BY DEF Boot, StartInv, ClosedOnlyInReplacement
<1>2. StartInv' /\ ClosedOnlyInReplacement'
  BY <1>1 DEF Boot, StartInv, ClosedOnlyInReplacement
<1>3. todo' = available'
  BY DEF Boot
<1>4. NewestInv'
  BY <1>3 DEF NewestInv, LastOf
<1> QED
  BY <1>2, <1>4

\* The initialisation of the start is over.
LEMMA ServeNext ==
    ASSUME StartInv, ClosedOnlyInReplacement, NewestInv, Serve
    PROVE  StartInv' /\ ClosedOnlyInReplacement' /\ NewestInv'
<1>1. Initialising' = Initialising /\ Role' = Role
  BY DEF Serve, Initialising, Role, Here, Pending
<1>2. StartInv' /\ ClosedOnlyInReplacement'
  BY <1>1 DEF Serve, StartInv, ClosedOnlyInReplacement
<1>3. NewestInv'
  BY DEF Serve, NewestInv, LastOf
<1> QED
  BY <1>2, <1>3

\* The session of the role is closed before it is replaced.
LEMMA CloseNext ==
    ASSUME SessionsTypeOK, StartInv, ClosedOnlyInReplacement, NewestInv, CloseClient
    PROVE  StartInv' /\ ClosedOnlyInReplacement' /\ NewestInv'
<1>1. Initialising' = Initialising /\ Role' = Role
  BY DEF CloseClient, Initialising, Role, Here, Pending
<1>2. StartInv'
  BY <1>1 DEF CloseClient, StartInv
<1>3. ClosedOnlyInReplacement'
  BY <1>1, Zenon DEF CloseClient, ClosedOnlyInReplacement, SessionsTypeOK
<1>4. NewestInv'
  BY DEF CloseClient, NewestInv, LastOf
<1> QED
  BY <1>2, <1>3, <1>4

\* The endpoint visited drops out of todo: its role's last entry was behind
\* it, or is the one the new session leads to.
LEMMA NewClientNext ==
    ASSUME SessionsTypeOK, StartInv, ClosedOnlyInReplacement, NewestInv, NewClient
    PROVE  StartInv' /\ ClosedOnlyInReplacement' /\ NewestInv'
<1>1. /\ todo \in Seq(PDEngines) /\ DOMAIN todo = 1 .. Len(todo)
      /\ closed \in [Roles -> BOOLEAN] /\ client \in [Roles -> PDEngines \cup {None}]
  BY LenProperties DEF SessionsTypeOK
<1>2. /\ Len(todo) \in Nat /\ Here \in 1 .. Len(todo) /\ Role \in Roles
      /\ \A j \in 1 .. Len(todo) : j < Here => Label[todo[j]] \notin Roles
      /\ Rest \in Seq(PDEngines) /\ Len(Rest) = Len(todo) - Here
      /\ \A j \in 1 .. Len(Rest) : Rest[j] = todo[Here + j]
  BY <1>1, HereFacts, Zenon DEF NewClient
<1>3. DOMAIN Rest = 1 .. Len(todo) - Here
  BY <1>2, LenProperties
<1>4. todo' = Rest /\ client' = [client EXCEPT ![Role] = todo[Here]] /\ available' = available
      /\ dirty' = dirty /\ lifespan' = lifespan
  BY DEF NewClient
<1>5. \A k \in Roles : ~closed'[k]
  BY <1>1, <1>2, Zenon DEF NewClient, ClosedOnlyInReplacement
<1>6. ClosedOnlyInReplacement'
  BY <1>5 DEF ClosedOnlyInReplacement
<1>7. StartInv'
  BY DEF NewClient, StartInv
<1>8. Label[todo[Here]] = Role
  BY DEF Role
<1>9. ASSUME NEW k \in Roles, \A j \in 1 .. Len(todo) : j > Here => Label[todo[j]] # k
      PROVE  \A j \in DOMAIN Rest : Label[Rest[j]] # k
  <2> SUFFICES ASSUME NEW j \in DOMAIN Rest PROVE Label[Rest[j]] # k
    OBVIOUS
  <2>1. Rest[j] = todo[Here + j] /\ Here + j \in 1 .. Len(todo) /\ Here + j > Here
    BY <1>2, <1>3
  <2> QED
    BY <1>9, <2>1
<1>10. ASSUME NEW k \in Roles, NEW x,
              \/ \E j \in DOMAIN todo : LastOf(todo, j, k) /\ todo[j] = x
              \/ (\A j \in DOMAIN todo : Label[todo[j]] # k) /\ client[k] = x
       PROVE  \/ \E j \in DOMAIN Rest : LastOf(Rest, j, k) /\ Rest[j] = x
              \/ (\A j \in DOMAIN Rest : Label[Rest[j]] # k) /\ client'[k] = x
  <2>1. ASSUME NEW j \in 1 .. Len(todo), LastOf(todo, j, k), todo[j] = x, j > Here
        PROVE  \E n \in DOMAIN Rest : LastOf(Rest, n, k) /\ Rest[n] = x
    <3>1. j - Here \in DOMAIN Rest /\ Here + (j - Here) = j /\ Rest[j - Here] = x
      BY <1>2, <1>3, <2>1
    <3>2. ASSUME NEW n \in DOMAIN Rest, n > j - Here PROVE Label[Rest[n]] # k
      <4>1. Rest[n] = todo[Here + n] /\ Here + n \in 1 .. Len(todo) /\ Here + n > j
        BY <1>2, <1>3, <3>2
      <4> QED
        BY <1>1, <2>1, <4>1 DEF LastOf
    <3>3. Label[Rest[j - Here]] = k
      BY <2>1, <3>1 DEF LastOf
    <3> QED
      BY <3>1, <3>2, <3>3 DEF LastOf
  <2>2. ASSUME NEW j \in 1 .. Len(todo), LastOf(todo, j, k), todo[j] = x, j = Here
        PROVE  (\A n \in DOMAIN Rest : Label[Rest[n]] # k) /\ client'[k] = x
    <3>1. k = Role /\ \A n \in 1 .. Len(todo) : n > Here => Label[todo[n]] # k
      BY <1>1, <1>8, <2>2 DEF LastOf
    <3>2. client'[k] = x
      BY <1>1, <1>4, <2>2, <3>1
    <3> QED
      BY <1>9, <3>1, <3>2
  <2>3. ASSUME NEW j \in 1 .. Len(todo), LastOf(todo, j, k), j < Here PROVE FALSE
    BY <1>2, <2>3 DEF LastOf
  <2>4. ASSUME \A j \in DOMAIN todo : Label[todo[j]] # k, client[k] = x
        PROVE  (\A n \in DOMAIN Rest : Label[Rest[n]] # k) /\ client'[k] = x
    <3>1. k # Role
      BY <1>1, <1>2, <1>8, <2>4
    <3>2. client'[k] = x
      BY <1>1, <1>4, <2>4, <3>1
    <3> QED
      BY <1>1, <1>9, <2>4, <3>2
  <2>5. \A j \in 1 .. Len(todo) : j < Here \/ j = Here \/ j > Here
    BY <1>2
  <2> QED
    BY <1>1, <1>10, <2>1, <2>2, <2>3, <2>4, <2>5, Zenon
<1>11. NewestInv'
  <2> SUFFICES ASSUME lifespan # "boot", NEW k \in Roles, k \notin dirty, NEW i \in DOMAIN available,
                      LastOf(available, i, k)
               PROVE  \/ \E j \in DOMAIN Rest : LastOf(Rest, j, k) /\ Rest[j] = available[i]
                      \/ (\A j \in DOMAIN Rest : Label[Rest[j]] # k) /\ client'[k] = available[i]
    BY <1>4 DEF NewestInv, LastOf
  <2>1. \/ \E j \in DOMAIN todo : LastOf(todo, j, k) /\ todo[j] = available[i]
        \/ (\A j \in DOMAIN todo : Label[todo[j]] # k) /\ client[k] = available[i]
    BY Zenon DEF NewestInv
  <2> QED
    BY <1>10, <2>1, Zenon
<1> QED
  BY <1>6, <1>7, <1>11

\* Every step keeps the invariant.
LEMMA SessionInvNext == SessionInv /\ [SessionsNext]_sessionVars => SessionInv'
<1> SUFFICES ASSUME SessionsTypeOK, StartInv, ClosedOnlyInReplacement, NewestInv, [SessionsNext]_sessionVars
             PROVE  SessionsTypeOK' /\ StartInv' /\ ClosedOnlyInReplacement' /\ NewestInv'
  BY DEF SessionInv
<1> DEFINE Goal == StartInv' /\ ClosedOnlyInReplacement' /\ NewestInv'
<1>1. CASE UNCHANGED sessionVars
  <2>1. UNCHANGED <<available, lifespan, todo, client, closed, dirty>>
    BY <1>1 DEF sessionVars
  <2>2. SessionsTypeOK'
    BY <1>1 DEF sessionVars, SessionsTypeOK
  <2> QED
    BY <2>1, <2>2, FrameNext
<1>2. CASE SessionsNext
  <2>1. SessionsTypeOK'
    BY <1>2, SessionTypeNext
  <2>2. ASSUME NEW e \in PDEngines, Toggle(e) PROVE Goal
    <3>1. UNCHANGED <<available, lifespan, todo, client, closed, dirty>>
      BY <2>2 DEF Toggle
    <3> QED
      BY <3>1, FrameNext
  <2>3. ASSUME NEW e \in PDEngines, Added(e) PROVE Goal
    BY <2>3, AddedNext
  <2>4. ASSUME NEW e \in PDEngines, Deleted(e) PROVE Goal
    BY <2>4, DeletedNext
  <2>5. Initialise => Goal
    BY BootNext, ServeNext, CloseNext, NewClientNext DEF Initialise
  <2>6. ASSUME NEW r \in PDRequests, Handle(r) PROVE Goal
    <3>1. UNCHANGED <<available, lifespan, todo, client, closed, dirty>>
      BY <2>6, HandleNext DEF HandlerFrame
    <3> QED
      BY <3>1, FrameNext
  <2> HIDE DEF Goal
  <2>7. Goal
    BY <1>2, <2>2, <2>3, <2>4, <2>5, <2>6, Zenon DEF SessionsNext
  <2> QED
    BY <2>1, <2>7 DEF Goal
<1> QED
  BY <1>1, <1>2

\* It holds in every reachable state.
LEMMA SessionInvariance == SessionsSpec => []SessionInv
  BY SessionInvInit, SessionInvNext, PTL DEF SessionsSpec

\* Every reachable state has the declared types; in particular no engine is
\* listed twice, however often it comes and goes.
THEOREM SessionsTypeCorrect == SessionsSpec => []SessionsTypeOK
<1>1. SessionInv => SessionsTypeOK
  BY DEF SessionInv
<1> QED
  BY <1>1, SessionInvariance, PTL

\* However pods come and go and requests run, a session is closed only while
\* the initialisation that closed it is about to replace it.
THEOREM ClosedInReplacement == SessionsSpec => []ClosedOnlyInReplacement
<1>1. SessionInv => ClosedOnlyInReplacement
  BY DEF SessionInv
<1> QED
  BY <1>1, SessionInvariance, PTL

\* Between initialisations the session of a role leads to the engine of the
\* role listed last, unless engines of the role came or went unseen by one.
THEOREM SessionsNewest == SessionsSpec => []NewestServes
<1>1. SessionInv => NewestServes
  <2> SUFFICES ASSUME SessionsTypeOK, NewestInv, lifespan = "serving", ~Initialising,
                      NEW k \in Roles \ dirty, NEW i \in DOMAIN available, LastOf(available, i, k)
               PROVE  client[k] = available[i]
    BY DEF SessionInv, NewestServes
  <2>1. \A j \in DOMAIN todo : Label[todo[j]] \notin Roles
    BY DEF Initialising, Pending
  <2> QED
    BY <2>1 DEF NewestInv, LastOf
<1> QED
  BY <1>1, SessionInvariance, PTL

\* A session leads to an engine of its role.
ClientInv == \A k \in Roles : client[k] # None => Label[client[k]] = k

\* A handler posts to the session of the role its request is in.
LEMMA RoleHandle ==
    ASSUME SessionsTypeOK, ClientInv, RequestsOnRole, NEW r \in PDRequests, Handle(r)
    PROVE  ClientInv' /\ RequestsOnRole'
<1> DEFINE Right(s) == s.at \in Roles => Label[s.engine] = s.at
<1>1. ClientInv'
  BY HandleNext DEF ClientInv, HandlerFrame
<1>2. request = [q \in PDRequests |-> request[q]] /\ request[r] \in [at : Stages, engine : PDEngines \cup {None}, cut : BOOLEAN]
  BY DEF SessionsTypeOK
<1>3. ASSUME NEW s, Set(r, s), Right(s) PROVE RequestsOnRole'
  BY <1>2, <1>3 DEF Set, RequestsOnRole
<1>4. Right(Failed) /\ Right([New EXCEPT !.at = "prefilled"])
  BY DEF Failed, New, Roles
<1>5. Right([request[r] EXCEPT !.at = "done"]) /\ Right([request[r] EXCEPT !.at = "failed"])
  BY <1>2 DEF Roles
<1>6. ASSUME NEW k \in Roles, Post(r, k) PROVE RequestsOnRole'
  <2>1. CASE client[k] = None \/ closed[k]
    <3>1. Set(r, Failed)
      BY <1>6, <2>1 DEF Post
    <3> QED
      BY <1>3, <1>4, <3>1
  <2>2. CASE ~(client[k] = None \/ closed[k])
    <3>1. Set(r, [at |-> k, engine |-> client[k], cut |-> FALSE])
      BY <1>6, <2>2, Zenon DEF Post
    <3>2. Right([at |-> k, engine |-> client[k], cut |-> FALSE])
      BY <2>2 DEF ClientInv
    <3> QED
      BY <1>3, <3>1, <3>2
  <2> QED
    BY <2>1, <2>2
<1>7. CASE Prefill(r) \/ Decode(r)
  <2>1. Post(r, "prefill") \/ Post(r, "decode")
    BY <1>7 DEF Prefill, Decode
  <2>2. "prefill" \in Roles /\ "decode" \in Roles
    BY DEF Roles
  <2> QED
    BY <1>1, <1>6, <2>1, <2>2
<1>8. CASE Prefilled(r)
  <2>1. Set(r, Failed) \/ Set(r, [New EXCEPT !.at = "prefilled"])
    BY <1>8 DEF Prefilled
  <2> QED
    BY <1>1, <1>3, <1>4, <2>1, Zenon
<1>9. CASE Decoded(r) \/ Broken(r)
  <2>1. Set(r, [request[r] EXCEPT !.at = "done"]) \/ Set(r, [request[r] EXCEPT !.at = "failed"])
    BY <1>9 DEF Decoded, Broken
  <2> QED
    BY <1>1, <1>3, <1>5, <2>1, Zenon
<1> QED
  BY <1>1, <1>7, <1>8, <1>9 DEF Handle

\* A new session takes its role from the label of the endpoint it is made for.
LEMMA RoleNewClient ==
    ASSUME SessionsTypeOK, ClientInv, RequestsOnRole, NewClient
    PROVE  ClientInv' /\ RequestsOnRole'
<1>1. client \in [Roles -> PDEngines \cup {None}] /\ Role \in Roles
  BY HereFacts DEF SessionsTypeOK, NewClient
<1>2. client' = [client EXCEPT ![Role] = todo[Here]] /\ request' = request /\ Label[todo[Here]] = Role
  BY Zenon DEF NewClient, Role
<1>3. ClientInv'
  BY <1>1, <1>2 DEF ClientInv
<1> QED
  BY <1>2, <1>3 DEF RequestsOnRole

\* However sessions are replaced while requests run, a prefill request is at a
\* prefill engine and a decode request at a decode engine.
THEOREM RolesKept == SessionsSpec => []RequestsOnRole
<1>1. SessionsInit => ClientInv /\ RequestsOnRole
  BY DEF SessionsInit, ClientInv, RequestsOnRole, New, Roles
<1>2. SessionInv /\ ClientInv /\ RequestsOnRole /\ [SessionsNext]_sessionVars => (ClientInv /\ RequestsOnRole)'
  <2> SUFFICES ASSUME SessionsTypeOK, ClientInv, RequestsOnRole, [SessionsNext]_sessionVars
               PROVE  ClientInv' /\ RequestsOnRole'
    BY DEF SessionInv
  <2>1. CASE UNCHANGED <<client, request>>
    BY <2>1 DEF ClientInv, RequestsOnRole
  <2>2. ASSUME NEW e \in PDEngines, Toggle(e) \/ Added(e) \/ Deleted(e) PROVE ClientInv' /\ RequestsOnRole'
    BY <2>1, <2>2 DEF Toggle, Added, Deleted
  <2>3. CASE Boot \/ Serve \/ UNCHANGED sessionVars
    BY <2>1, <2>3 DEF Boot, Serve, sessionVars
  <2>4. CASE CloseClient
    <3>1. /\ client' = client
          /\ \A r \in PDRequests : request'[r].at = request[r].at /\ request'[r].engine = request[r].engine
      BY <2>4 DEF CloseClient, SessionsTypeOK
    <3> QED
      BY <3>1 DEF ClientInv, RequestsOnRole
  <2>5. CASE NewClient
    BY <2>5, RoleNewClient
  <2>6. ASSUME NEW r \in PDRequests, Handle(r) PROVE ClientInv' /\ RequestsOnRole'
    BY <2>6, RoleHandle
  <2> QED
    BY <2>2, <2>3, <2>4, <2>5, <2>6 DEF SessionsNext, Initialise
<1> QED
  BY <1>1, <1>2, SessionInvariance, PTL DEF SessionsSpec
=============================================================================
