-------------------------- MODULE K8sPodIPDiscovery --------------------------
(***************************************************************************)
(* K8sPodIPServiceDiscovery (service_discovery.py): the watcher thread that *)
(* follows the engine pods of a namespace, the event loop that answers      *)
(* requests from its tables, and the two meeting in _add_engine (the        *)
(* thread waits for a coroutine on the loop) and in close (the loop waits   *)
(* for the thread).                                                         *)
(*                                                                          *)
(* The cluster is external: pods come, get an address, become ready, stop   *)
(* being ready and go.  An event carries the pod as it was when the event   *)
(* was issued; the HTTP queries to the engine are made later, when the      *)
(* watcher gets to it.  Pods of a Deployment never reuse a name.            *)
(***************************************************************************)
EXTENDS Integers, Sequences, FiniteSets, SequencesExt

CONSTANTS
    Pods,          \* pod names
    Models,        \* model names
    Serves,        \* the models each pod's engine lists under /v1/models
    Asleep,        \* the pods whose engine is asleep
    MaxChanges,    \* bound on the changes of the cluster
    MaxFailures,   \* bound on failing queries to ready engines and on
                   \* broken connections
    MayClose,      \* whether the router is shut down
    None

ASSUME K8sPodIPDiscoveryAssumption ==
    /\ Serves \in [Pods -> SUBSET Models]
    /\ \A p \in Pods : Serves[p] # {}
    /\ Asleep \subseteq Pods
    /\ MaxChanges \in Nat /\ MaxFailures \in Nat
    /\ MayClose \in BOOLEAN
    /\ None \notin Pods \cup Models
    /\ IsFiniteSet(Pods)

VARIABLES
    pod,                \* cluster: the state of each pod
    changes,            \* cluster: how often it changed
    open,               \* whether a watch connection exists
    stream,             \* events sent on it and not yet read
    watcher,            \* where the watcher thread is
    event,              \* the event it is working on
    model_names,        \* result of _get_model_names for it
    sleep_status,       \* result of _get_engine_sleep_status for it
    failures,           \* how many of these there were
    available_engines,  \* pod name -> endpoint info, None when absent
    known_models,       \* every model ever discovered
    running,            \* self.running
    stop,               \* k8s_watcher._stop
    future,             \* the coroutine submitted to the event loop
    loop,               \* the event loop: starting, running, joining, exited
    lookup,             \* the request looking for its endpoints
    missed,             \* history: pods whose last change was not seen
    withdrawn           \* history: models of engines ever taken out of it

cluster == <<pod, changes>>
query == <<model_names, sleep_status, failures>>
tables == <<available_engines, known_models>>
closing == <<running, stop>>
vars == <<cluster, open, stream, watcher, event, query, tables, closing,
          future, loop, lookup, missed, withdrawn>>

PodStates == {"absent", "pending", "unready", "ready", "terminating", "gone"}
Existing == {"pending", "unready", "ready", "terminating"}

Event(t, p, s) == [type |-> t, name |-> p, ip |-> s # "pending", ready |-> s = "ready"]
Events == {Event(t, p, s) : t \in {"ADDED", "MODIFIED", "DELETED"},
                            p \in Pods, s \in PodStates}
NoEvent == [type |-> "none", name |-> None, ip |-> FALSE, ready |-> FALSE]
Infos == [model_names : SUBSET Models, sleep : BOOLEAN]
NoInfo == [model_names |-> {}, sleep |-> FALSE]
Listed == {p \in Pods : available_engines[p] # NoInfo}
Lookups == [model : Models \cup {None}, endpoints : SUBSET Pods,
            answer : {"none", "routed", "503", "404"},
            withdrawn : BOOLEAN]
NoLookup == [model |-> None, endpoints |-> {}, answer |-> "none",
             withdrawn |-> FALSE]

WatcherSteps == {"top", "connect", "stream", "models", "sleep", "insert",
                 "submit", "await", "known", "stopped"}

TypeOK ==
    /\ pod \in [Pods -> PodStates]
    /\ changes \in 0 .. MaxChanges
    /\ open \in BOOLEAN
    /\ stream \in Seq(Events)
    /\ watcher \in WatcherSteps
    /\ event \in Events \cup {NoEvent}
    /\ model_names \in SUBSET Models
    /\ sleep_status \in BOOLEAN
    /\ failures \in 0 .. MaxFailures
    /\ available_engines \in [Pods -> Infos]
    /\ known_models \in SUBSET Models
    /\ running \in BOOLEAN /\ stop \in BOOLEAN
    /\ future \in {"none", "pending", "done"}
    /\ loop \in {"starting", "running", "joining", "exited"}
    /\ lookup \in Lookups
    /\ missed \in SUBSET Pods
    /\ withdrawn \in SUBSET Models

Init ==
    /\ pod = [p \in Pods |-> "absent"]
    /\ changes = 0
    /\ open = FALSE
    /\ stream = <<>>
    /\ watcher = "top"
    /\ event = NoEvent
    /\ model_names = {}
    /\ sleep_status = FALSE
    /\ failures = 0
    /\ available_engines = [p \in Pods |-> NoInfo]
    /\ known_models = {}
    /\ running = TRUE
    /\ stop = FALSE
    /\ future = "none"
    /\ loop = "starting"
    /\ lookup = NoLookup
    /\ missed = {}
    /\ withdrawn = {}

-----------------------------------------------------------------------------
(* The cluster.                                                             *)

PodSteps == {<<"absent", "pending">>, <<"pending", "unready">>,
             <<"unready", "ready">>, <<"ready", "unready">>,
             <<"unready", "terminating">>, <<"ready", "terminating">>,
             <<"terminating", "gone">>}

EventType(s) ==
    CASE s = "pending" -> "ADDED" [] s = "gone" -> "DELETED" [] OTHER -> "MODIFIED"

\* Pod p changes.  Without a connection nobody is told.
PodChange(p) ==
    /\ changes < MaxChanges
    /\ changes' = changes + 1
    /\ \E s \in PodStates :
          /\ <<pod[p], s>> \in PodSteps
          /\ pod' = [pod EXCEPT ![p] = s]
          /\ stream' = IF open THEN Append(stream, Event(EventType(s), p, s)) ELSE stream
    /\ missed' = IF open THEN missed ELSE missed \cup {p}
    /\ UNCHANGED <<open, watcher, event, query, tables, closing, future, loop,
                   lookup, withdrawn>>

-----------------------------------------------------------------------------
(* _watch_engines.                                                          *)

CheckRunning_Forever ==
    /\ watcher = "top"
    /\ watcher' = "connect"
    /\ UNCHANGED <<cluster, open, stream, event, query, tables, closing, future,
                   loop, lookup, missed, withdrawn>>

\* while self.running
CheckRunning ==
    /\ watcher = "top"
    /\ watcher' = IF running THEN "connect" ELSE "stopped"
    /\ UNCHANGED <<cluster, open, stream, event, query, tables, closing, future,
                   loop, lookup, missed, withdrawn>>

Relist ==
    LET all == SetToSeq({p \in Pods : pod[p] \in Existing})
    IN  [i \in DOMAIN all |-> Event("ADDED", all[i], pod[all[i]])]

Connect_NoRelist ==
    /\ watcher = "connect"
    /\ watcher' = "stream"
    /\ open' = TRUE
    /\ stream' = <<>>
    /\ stop' = FALSE
    /\ UNCHANGED <<cluster, event, query, tables, running, future, loop,
                   lookup, missed, withdrawn>>

\* Watch.stream: a new connection starts with an ADDED event for every pod
\* there is, and resets the stop flag.
Connect ==
    /\ watcher = "connect"
    /\ watcher' = "stream"
    /\ open' = TRUE
    /\ stream' = Relist
    /\ stop' = FALSE
    /\ UNCHANGED <<cluster, event, query, tables, running, future, loop,
                   lookup, missed, withdrawn>>

\* The server ends the watch after its timeout, when all of it has been read.
StreamEnd ==
    /\ watcher = "stream" /\ stream = <<>>
    /\ watcher' = "top"
    /\ open' = FALSE
    /\ UNCHANGED <<cluster, stream, event, query, tables, closing, future, loop,
                   lookup, missed, withdrawn>>

\* The connection breaks, and what was on it is lost: an exception, a pause
\* and the same loop.
StreamBreak ==
    /\ watcher = "stream" /\ stream # <<>>
    /\ failures < MaxFailures
    /\ failures' = failures + 1
    /\ watcher' = "top"
    /\ open' = FALSE
    /\ stream' = <<>>
    /\ missed' = missed \cup {stream[i].name : i \in DOMAIN stream}
    /\ UNCHANGED <<cluster, event, model_names, sleep_status, tables, closing,
                   future, loop, lookup, withdrawn>>

\* After the body of the for loop: Watch.stream ends once stop was called.
EndBody ==
    /\ watcher' = IF stop THEN "top" ELSE "stream"
    /\ open' = ~stop
    /\ stream' = IF stop THEN <<>> ELSE Tail(stream)
    /\ event' = NoEvent

\* _delete_engine
delete_engine(p) ==
    /\ available_engines' = [available_engines EXCEPT ![p] = NoInfo]
    /\ withdrawn' = withdrawn \cup available_engines[p].model_names

NotAdded_Keep(e, t) == EndBody /\ UNCHANGED <<available_engines, withdrawn>>

\* _on_engine_update, when it does not add an engine
NotAdded(e, t) ==
    /\ IF t = "MODIFIED" /\ e.ip /\ e.name \in Listed
       THEN delete_engine(e.name)
       ELSE UNCHANGED <<available_engines, withdrawn>>
    /\ EndBody

\* A deleted engine leaves the table.  Of another event first the models are
\* asked for when the pod is ready; a pod that is not is treated as one
\* without models.
NextEvent ==
    /\ watcher = "stream" /\ stream # <<>>
    /\ LET e == Head(stream) IN
       \/ /\ e.type = "DELETED"
          /\ IF e.name \in Listed THEN delete_engine(e.name)
                                  ELSE UNCHANGED <<available_engines, withdrawn>>
          /\ EndBody
          /\ missed' = missed \ {e.name}
       \/ /\ e.type # "DELETED" /\ ~e.ready
          /\ NotAdded(e, e.type)
          /\ missed' = IF e.type = "MODIFIED" \/ e.name \notin Listed
                       THEN missed \ {e.name} ELSE missed
       \/ /\ e.type # "DELETED" /\ e.ready
          /\ event' = e
          /\ watcher' = "models"
          /\ UNCHANGED <<open, stream, available_engines, missed, withdrawn>>
    /\ UNCHANGED <<cluster, query, known_models, closing, future, loop, lookup>>

\* Whether a query to p can fail: always when p is not serving.
QueryFails(p) ==
    IF pod[p] = "ready" THEN failures < MaxFailures /\ failures' = failures + 1
                        ELSE UNCHANGED failures
QueryAnswers(p) == pod[p] \in {"unready", "ready", "terminating"} /\ UNCHANGED failures

\* _get_model_names, then _on_engine_update
GetModelNames ==
    /\ watcher = "models"
    /\ \/ /\ QueryAnswers(event.name)
          /\ model_names' = Serves[event.name]
          /\ watcher' = "sleep"
          /\ UNCHANGED <<open, stream, event, available_engines, missed, withdrawn>>
       \/ /\ QueryFails(event.name)
          /\ model_names' = {}
          /\ NotAdded(event, event.type)
          /\ missed' = missed \cup {event.name}
    /\ UNCHANGED <<cluster, sleep_status, known_models, closing, future, loop, lookup>>

\* _add_engine: _check_engine_sleep_mode and _get_engine_sleep_status
GetSleepStatus ==
    /\ watcher = "sleep"
    /\ \/ /\ QueryAnswers(event.name)
          /\ sleep_status' = (event.name \in Asleep)
       \/ /\ QueryFails(event.name)
          /\ sleep_status' = FALSE
    /\ watcher' = "insert"
    /\ UNCHANGED <<cluster, open, stream, event, model_names, tables, closing,
                   future, loop, lookup, missed, withdrawn>>

\* The engine is put into the table, under the lock.
InsertEngine ==
    /\ watcher = "insert"
    /\ available_engines' = [available_engines EXCEPT ![event.name] =
                               [model_names |-> model_names, sleep |-> sleep_status]]
    /\ missed' = missed \ {event.name}
    /\ watcher' = "submit"
    /\ UNCHANGED <<cluster, open, stream, event, query, known_models, closing,
                   future, loop, lookup, withdrawn>>

\* run_coroutine_threadsafe.  Before lifespan has set app.state.event_loop
\* it raises, and the error is logged.
SubmitSessions ==
    /\ watcher = "submit"
    /\ IF loop = "starting"
       THEN watcher' = "known" /\ UNCHANGED future
       ELSE watcher' = "await" /\ future' = "pending"
    /\ UNCHANGED <<cluster, open, stream, event, query, tables, closing, loop,
                   lookup, missed, withdrawn>>

\* fut.result(), which has no timeout
AwaitSessions ==
    /\ watcher = "await" /\ future = "done"
    /\ watcher' = "known"
    /\ future' = "none"
    /\ UNCHANGED <<cluster, open, stream, event, query, tables, closing, loop,
                   lookup, missed, withdrawn>>

UpdateKnown_Replace ==
    /\ watcher = "known"
    /\ known_models' = model_names
    /\ EndBody
    /\ UNCHANGED <<cluster, query, available_engines, closing, future, loop,
                   lookup, missed, withdrawn>>

\* known_models.update, the end of _add_engine
UpdateKnown ==
    /\ watcher = "known"
    /\ known_models' = known_models \cup model_names
    /\ EndBody
    /\ UNCHANGED <<cluster, query, available_engines, closing, future, loop,
                   lookup, missed, withdrawn>>

Watcher == \/ CheckRunning \/ Connect \/ NextEvent \/ GetModelNames
           \/ GetSleepStatus \/ InsertEngine \/ SubmitSessions \/ AwaitSessions
           \/ UpdateKnown
-----------------------------------------------------------------------------
(* The event loop.                                                          *)

\* Between reading the table and reading known_models a handler has no await.
Busy == lookup.model # None /\ lookup.answer = "none"

\* lifespan sets app.state.event_loop.
LoopStart ==
    /\ loop = "starting"
    /\ loop' = "running"
    /\ UNCHANGED <<cluster, open, stream, watcher, event, query, tables, closing,
                   future, lookup, missed, withdrawn>>

\* The coroutine initialize_client_sessions runs.
RunSessions ==
    /\ loop = "running" /\ ~Busy /\ future = "pending"
    /\ future' = "done"
    /\ UNCHANGED <<cluster, open, stream, watcher, event, query, tables, closing,
                   loop, lookup, missed, withdrawn>>

\* route_general_request: get_endpoint_info ...
FindEndpoints(m) ==
    /\ loop = "running" /\ ~Busy
    /\ lookup' = [model |-> m, answer |-> "none",
                  endpoints |-> {p \in Listed : /\ m \in available_engines[p].model_names
                                                /\ ~available_engines[p].sleep},
                  withdrawn |-> m \in withdrawn]
    /\ UNCHANGED <<cluster, open, stream, watcher, event, query, tables, closing,
                   future, loop, missed, withdrawn>>

\* ... and has_ever_seen_model
Answer ==
    /\ loop = "running" /\ Busy
    /\ lookup' = [lookup EXCEPT !.answer =
                    IF lookup.endpoints # {} THEN "routed"
                    ELSE IF lookup.model \in known_models THEN "503" ELSE "404"]
    /\ UNCHANGED <<cluster, open, stream, watcher, event, query, tables, closing,
                   future, loop, missed, withdrawn>>

\* Shutdown: close() runs on the event loop and joins the watcher thread.
Close ==
    /\ MayClose /\ loop = "running" /\ ~Busy
    /\ running' = FALSE
    /\ stop' = TRUE
    /\ loop' = "joining"
    /\ UNCHANGED <<cluster, open, stream, watcher, event, query, tables, future,
                   lookup, missed, withdrawn>>

Joined ==
    /\ loop = "joining" /\ watcher = "stopped"
    /\ loop' = "exited"
    /\ UNCHANGED <<cluster, open, stream, watcher, event, query, tables, closing,
                   future, lookup, missed, withdrawn>>

Next ==
    \/ \E p \in Pods : PodChange(p)
    \/ Watcher \/ StreamEnd \/ StreamBreak
    \/ LoopStart \/ RunSessions \/ Close \/ Joined
    \/ \E m \in Models : FindEndpoints(m)
    \/ Answer

Spec == Init /\ [][Next]_vars

\* The thread is scheduled, every HTTP call of the watcher has a timeout, the
\* server ends every watch, and a running event loop runs what was submitted:
\* its queue is first in, first out, so later requests do not delay it for ever.
Fairness == /\ WF_vars(Watcher) /\ WF_vars(StreamEnd)
            /\ WF_vars(LoopStart) /\ SF_vars(RunSessions) /\ WF_vars(Joined)
            /\ WF_vars(Answer)

FairSpec == Spec /\ Fairness
-----------------------------------------------------------------------------
(* Properties.                                                              *)

\* When the watcher has read everything it was sent, the table lists exactly
\* the pods that are ready, except pods that changed while no connection was
\* open, whose events broke off with it, or that did not answer.
QuietAccurate ==
    (watcher = "stream" /\ stream = <<>>) =>
       \A p \in Pods \ missed : p \in Listed <=> pod[p] = "ready"

\* A model whose engine was taken out of the table (scaled to zero) gets
\* "temporarily unavailable", never "not found".
ScaledToZeroNot404 == lookup.answer = "404" => ~lookup.withdrawn

\* The cluster comes to rest and engines come to answer: then, unless the
\* router is shut down, every ready pod is in the table for good, also one
\* that became ready in a gap between two connections or whose first query
\* failed.
ReadyListed == <>[](\A p \in Pods : running /\ pod[p] = "ready" => p \in Listed)

\* When close() joins a thread that waits for a coroutine which has not run,
\* neither ever goes on: fut.result() has no timeout and the loop is in join().
Hung == loop = "joining" /\ watcher = "await" /\ future = "pending"
HangIsFinal == [][Hung => Hung']_vars

\* After close() has returned nothing changes the tables any more.
ClosedForGood == [][loop = "exited" => UNCHANGED tables]_vars

\* How many steps the watcher thread has left when close() joins it: an event
\* takes seven, and unread are those of the stream and of changes to come.
Ahead(n) == 7 * (n + MaxChanges - changes)
StepsLeft ==
    CASE watcher = "stopped" -> 0
      [] watcher = "top" -> 1
      [] watcher = "known" -> Ahead(Len(stream)) - 4
      [] watcher = "await" -> Ahead(Len(stream)) - 3
      [] watcher = "submit" -> Ahead(Len(stream)) - 2
      [] watcher = "insert" -> Ahead(Len(stream)) - 1
      [] watcher = "sleep" -> Ahead(Len(stream))
      [] watcher = "models" -> Ahead(Len(stream)) + 1
      [] watcher = "stream" -> Ahead(Len(stream)) + 2
      [] watcher = "connect" -> Ahead(Cardinality(Pods)) + 3

\* Once close() joins it the thread only comes nearer its end, or to where it
\* waits for the event loop, although the next watch resets the stop flag and
\* the cluster keeps sending events.
CloseBounded ==
    [][loop = "joining" => /\ StepsLeft' \in Nat /\ StepsLeft' <= StepsLeft
                           /\ Watcher \/ StreamEnd \/ StreamBreak => StepsLeft' < StepsLeft]_vars

\* close() returns unless the watcher thread is waiting for the event loop.
CloseHangsOnlyOnFuture ==
    (loop = "joining") ~> (loop = "exited" \/ watcher = "await")
=============================================================================
