----------------------- MODULE K8sServiceNameDiscovery -----------------------
(***************************************************************************)
(* K8sServiceNameServiceDiscovery (service_discovery.py): the watcher thread *)
(* that follows the engine Services of a namespace, and the calls of         *)
(* route_sleep_wakeup_request that put its engines to sleep.                 *)
(*                                                                           *)
(* The cluster is external.  A Service and the readiness of its endpoints    *)
(* are two objects: the watch is on the Services, so a change of readiness   *)
(* sends no event, and readiness is read when an event is worked on.  A      *)
(* Service may be deleted and made again under the same name.                *)
(***************************************************************************)
EXTENDS Integers, Sequences, FiniteSets, SequencesExt

CONSTANTS
    Services,
    MaxChanges,   \* bound on the changes of the cluster
    MaxCalls,     \* bound on the calls that change an engine's sleep
    MaxFailures,  \* bound on failing queries to ready engines
    None

ASSUME K8sServiceNameDiscoveryAssumption ==
    /\ MaxChanges \in Nat /\ MaxCalls \in Nat /\ MaxFailures \in Nat /\ None \notin Services
    /\ IsFiniteSet(Services)

VARIABLES
    exists,             \* the Services there are
    ready,              \* the ones whose endpoints have an address
    asleep,             \* the ones whose engine is asleep
    changes, calls, failures,
    open, stream,       \* the watch connection and the unread events
    watcher, event,     \* the watcher thread and the event it works on
    sleep_status,       \* result of _get_engine_sleep_status
    available_engines,  \* a service's entry: "none", "awake" or "asleep"
    running, stop,      \* self.running, k8s_watcher._stop
    main,               \* the caller of close()
    missed              \* history: services deleted without the watcher
                        \* having read the event

cluster == <<exists, ready, asleep>>
closing == <<running, stop>>
bounds == <<changes, calls, failures>>
vars == <<cluster, bounds, open, stream, watcher, event, sleep_status, available_engines,
          closing, main, missed>>

Event(t, s) == [type |-> t, name |-> s]
NoEvent == Event("none", None)
Listed == {s \in Services : available_engines[s] # "none"}

TypeOK ==
    /\ ready \subseteq exists /\ exists \subseteq Services /\ asleep \subseteq ready
    /\ changes \in 0 .. MaxChanges /\ calls \in 0 .. MaxCalls /\ failures \in 0 .. MaxFailures
    /\ open \in BOOLEAN /\ running \in BOOLEAN /\ stop \in BOOLEAN
    /\ stream \in Seq([type : {"ADDED", "MODIFIED", "DELETED"}, name : Services])
    /\ ~open => stream = <<>>
    /\ watcher \in {"top", "connect", "stream", "models", "status", "insert", "stopped"}
    /\ (event = NoEvent) <=> watcher \in {"top", "connect", "stream", "stopped"}
    /\ sleep_status \in BOOLEAN
    /\ available_engines \in [Services -> {"none", "awake", "asleep"}]
    /\ main \in {"running", "joining", "exited"}
    /\ missed \subseteq Services

Init ==
    /\ exists = {} /\ ready = {} /\ asleep = {}
    /\ changes = 0 /\ calls = 0 /\ failures = 0
    /\ open = FALSE /\ stream = <<>>
    /\ watcher = "top" /\ event = NoEvent /\ sleep_status = FALSE
    /\ available_engines = [s \in Services |-> "none"]
    /\ running = TRUE /\ stop = FALSE /\ main = "running" /\ missed = {}
-----------------------------------------------------------------------------
(* The cluster.                                                              *)

Send(t, s) == stream' = IF open THEN Append(stream, Event(t, s)) ELSE stream
Change == changes < MaxChanges /\ changes' = changes + 1

Make(s) ==
    /\ Change /\ s \notin exists
    /\ exists' = exists \cup {s} /\ missed' = missed \ {s}
    /\ Send("ADDED", s)
    /\ UNCHANGED <<ready, asleep, calls, failures, open, watcher, event, sleep_status,
                   available_engines, closing, main>>

\* Somebody edits the Service.
Modify(s) ==
    /\ Change /\ s \in exists
    /\ Send("MODIFIED", s)
    /\ UNCHANGED <<cluster, calls, failures, open, watcher, event, sleep_status,
                   available_engines, closing, main, missed>>

Delete(s) ==
    /\ Change /\ s \in exists
    /\ exists' = exists \ {s} /\ ready' = ready \ {s} /\ asleep' = asleep \ {s}
    /\ missed' = IF open THEN missed ELSE missed \cup {s}
    /\ Send("DELETED", s)
    /\ UNCHANGED <<calls, failures, open, watcher, event, sleep_status, available_engines,
                   closing, main>>

\* An engine that comes up is awake.
ReadyChanges(s) ==
    /\ Change /\ s \in exists
    /\ ready' = IF s \in ready THEN ready \ {s} ELSE ready \cup {s}
    /\ asleep' = asleep \ {s}
    /\ UNCHANGED <<exists, calls, failures, open, stream, watcher, event, sleep_status,
                   available_engines, closing, main, missed>>
-----------------------------------------------------------------------------
(* route_sleep_wakeup_request.  It hands the pod name of the endpoint to      *)
(* add_sleep_label or remove_sleep_label.  An endpoint of this discovery has  *)
(* a service name and no pod name, so the API client refuses the call before  *)
(* anything is sent; a label would come back as an event of the Service.      *)

PodName(s) == None
sleep_label(name) == IF name = None THEN UNCHANGED stream ELSE Send("MODIFIED", name)

SleepCall(s) ==
    /\ calls < MaxCalls /\ calls' = calls + 1
    /\ s \in Listed /\ s \in ready
    /\ asleep' = IF s \in asleep THEN asleep \ {s} ELSE asleep \cup {s}
    /\ sleep_label(PodName(s))
    /\ UNCHANGED <<exists, ready, changes, failures, open, watcher, event, sleep_status,
                   available_engines, closing, main, missed>>
-----------------------------------------------------------------------------
(* _watch_engines.                                                           *)

Relist == LET all == SetToSeq(exists) IN [i \in DOMAIN all |-> Event("ADDED", all[i])]

\* while self.running
Again_Forever == TRUE
Again == running
CheckRunning ==
    /\ watcher = "top" /\ watcher' = IF Again THEN "connect" ELSE "stopped"
    /\ UNCHANGED <<cluster, bounds, open, stream, event, sleep_status, available_engines, closing, main, missed>>

\* Watch.stream: an ADDED event for every Service; the stop flag is reset.
Connect ==
    /\ watcher = "connect" /\ watcher' = "stream"
    /\ open' = TRUE /\ stream' = Relist /\ stop' = FALSE
    /\ UNCHANGED <<cluster, bounds, event, sleep_status, available_engines, running, main, missed>>

\* The server ends the watch.
StreamEnd ==
    /\ watcher = "stream" /\ stream = <<>>
    /\ watcher' = "top" /\ open' = FALSE
    /\ UNCHANGED <<cluster, bounds, stream, event, sleep_status, available_engines, closing, main, missed>>

\* The for loop goes on, unless close() called stop().
EndBody ==
    /\ event' = NoEvent
    /\ watcher' = IF stop THEN "top" ELSE "stream"
    /\ open' = ~stop /\ stream' = IF stop THEN <<>> ELSE Tail(stream)

Deletions(events) == {events[i].name : i \in {j \in DOMAIN events : events[j].type = "DELETED"}}

delete_engine(s) == available_engines' = [available_engines EXCEPT ![s] = "none"]

\* _on_engine_update for an engine that is not ready or has no models
NotAdded(e) ==
    /\ IF e.type = "MODIFIED" THEN delete_engine(e.name) ELSE UNCHANGED available_engines
    /\ EndBody

ReadDeleted_Keep(e) ==
    /\ e.type = "DELETED"
    /\ EndBody /\ missed' = missed \ {e.name}
    /\ UNCHANGED <<available_engines, failures>>
ReadDeleted(e) ==
    /\ e.type = "DELETED"
    /\ delete_engine(e.name) /\ EndBody
    /\ missed' = missed \ {e.name} /\ UNCHANGED failures

Failure == failures < MaxFailures /\ failures' = failures + 1

\* _check_service_ready raises when the Service is gone by now, or the API
\* server fails.  That ends the watch and loses the events still unread, the
\* deletion of this Service among them.
ReadinessRaises_Ends(e) ==
    /\ e.type # "DELETED"
    /\ IF e.name \in exists THEN Failure ELSE UNCHANGED failures
    /\ watcher' = "stopped" /\ open' = FALSE /\ stream' = <<>>
    /\ missed' = missed \cup (Deletions(stream) \ exists)
    /\ UNCHANGED <<event, available_engines>>

ReadinessRaises(e) ==
    /\ e.type # "DELETED"
    /\ IF e.name \in exists THEN Failure ELSE UNCHANGED failures
    /\ watcher' = "top" /\ open' = FALSE /\ stream' = <<>>
    /\ missed' = missed \cup (Deletions(stream) \ exists)
    /\ UNCHANGED <<event, available_engines>>

ReadNotReady(e) ==
    /\ e.type # "DELETED" /\ e.name \in exists \ ready
    /\ NotAdded(e) /\ UNCHANGED <<missed, failures>>

ReadReady(e) ==
    /\ e.type # "DELETED" /\ e.name \in ready
    /\ event' = e /\ watcher' = "models"
    /\ UNCHANGED <<open, stream, available_engines, missed, failures>>

NextEvent ==
    /\ watcher = "stream" /\ stream # <<>>
    /\ LET e == Head(stream) IN ReadDeleted(e) \/ ReadinessRaises(e) \/ ReadNotReady(e) \/ ReadReady(e)
    /\ UNCHANGED <<cluster, changes, calls, sleep_status, closing, main>>

\* A query to an engine that is up fails seldom, to another one always.
QueryFails(s) == IF s \in ready THEN Failure ELSE UNCHANGED failures

GetModelNames ==
    /\ watcher = "models"
    /\ \/ /\ event.name \in ready
          /\ watcher' = "status" /\ UNCHANGED <<failures, open, stream, event, available_engines>>
       \/ QueryFails(event.name) /\ NotAdded(event)
    /\ UNCHANGED <<cluster, changes, calls, sleep_status, closing, main, missed>>

\* _add_engine: _check_engine_sleep_mode, _get_engine_sleep_status; False on errors
GetSleepStatus ==
    /\ watcher = "status" /\ watcher' = "insert"
    /\ \/ event.name \in ready /\ sleep_status' = (event.name \in asleep) /\ UNCHANGED failures
       \/ QueryFails(event.name) /\ sleep_status' = FALSE
    /\ UNCHANGED <<cluster, changes, calls, open, stream, event, available_engines, closing, main, missed>>

Entry_KeepSleep ==
    IF event.name \in Listed THEN available_engines[event.name]
    ELSE IF sleep_status THEN "asleep" ELSE "awake"
Entry == IF sleep_status THEN "asleep" ELSE "awake"
InsertEngine ==
    /\ watcher = "insert"
    /\ available_engines' = [available_engines EXCEPT ![event.name] = Entry]
    /\ EndBody /\ sleep_status' = FALSE
    /\ UNCHANGED <<cluster, bounds, closing, main, missed>>

Watcher == CheckRunning \/ Connect \/ NextEvent \/ GetModelNames \/ GetSleepStatus \/ InsertEngine
-----------------------------------------------------------------------------
Close ==
    /\ main = "running" /\ main' = "joining"
    /\ running' = FALSE /\ stop' = TRUE
    /\ UNCHANGED <<cluster, bounds, open, stream, watcher, event, sleep_status, available_engines, missed>>

Joined ==
    /\ main = "joining" /\ watcher = "stopped" /\ main' = "exited"
    /\ UNCHANGED <<cluster, bounds, open, stream, watcher, event, sleep_status, available_engines,
                   closing, missed>>

Next ==
    \/ \E s \in Services : Make(s) \/ Modify(s) \/ Delete(s) \/ ReadyChanges(s) \/ SleepCall(s)
    \/ Watcher \/ StreamEnd \/ Close \/ Joined

Spec == Init /\ [][Next]_vars

\* The thread runs, its queries have timeouts, and the server ends each watch.
Fairness == WF_vars(Watcher) /\ WF_vars(StreamEnd) /\ WF_vars(Joined)

FairSpec == Spec /\ Fairness
-----------------------------------------------------------------------------
(* Properties.                                                               *)

\* When the watcher has read all it was sent, an engine that is listed is a
\* Service that exists, except one whose deletion never reached the watcher:
\* it happened between two watches, or its event was dropped with a watch
\* that the deletion of another Service had ended.
QuietExists ==
    (watcher = "stream" /\ stream = <<>>) => Listed \subseteq exists \cup missed

\* A Service that stays ready ends up listed, although no event says when it
\* became ready: the next watch lists it again.
ReadyListed ==
    \A s \in Services : <>[](running /\ s \in ready) => <>[](s \in Listed)

\* A Service that stays ready ends up with the sleep status its engine has,
\* although the sleep calls leave no label on it.
SleepFollows ==
    \A s \in Services :
        /\ <>[](running /\ s \in ready \cap asleep) => <>[](available_engines[s] = "asleep")
        /\ <>[](running /\ s \in ready \ asleep) => <>[](available_engines[s] = "awake")

\* After close() has returned nothing changes the table any more.
ClosedForGood == [][main = "exited" => UNCHANGED available_engines]_vars

\* How many steps the watcher thread has left when close() joins it: an event
\* takes four, and unread are those of the stream and of changes to come.
Ahead(n) == 4 * (n + MaxChanges - changes)
StepsLeft ==
    CASE watcher = "stopped" -> 0
      [] watcher = "top" -> 1
      [] watcher = "insert" -> Ahead(Len(stream)) - 1
      [] watcher = "status" -> Ahead(Len(stream))
      [] watcher = "models" -> Ahead(Len(stream)) + 1
      [] watcher = "stream" -> Ahead(Len(stream)) + 2
      [] watcher = "connect" -> Ahead(Cardinality(Services)) + 3

\* Once close() joins it the thread only comes nearer its end, although the
\* next watch resets the stop flag and the cluster keeps sending events.
CloseBounded ==
    [][main = "joining" => /\ StepsLeft' \in Nat /\ StepsLeft' <= StepsLeft
                           /\ Watcher \/ StreamEnd => StepsLeft' < StepsLeft]_vars

\* close() returns: the watcher never waits for the event loop.
CloseReturns == (main = "joining") ~> (main = "exited")
=============================================================================
