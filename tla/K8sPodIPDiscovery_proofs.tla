------------------------ MODULE K8sPodIPDiscovery_proofs ------------------------
(***************************************************************************)
(* The table of K8sPodIPServiceDiscovery, for any number of pods, models and *)
(* events.                                                                  *)
(*                                                                          *)
(* A model whose engines were scaled to zero is reported as temporarily     *)
(* unavailable and never as unknown: the watcher thread puts an engine into *)
(* available_engines before it adds its models to known_models, and a       *)
(* handler of the event loop reads the one table before the other, and the  *)
(* order of all four matters.                                               *)
(*                                                                          *)
(* The table follows the cluster: what is unread on the watch says of every *)
(* pod how it ends up, and of a pod with nothing unread the table is right. *)
(***************************************************************************)
EXTENDS K8sPodIPDiscovery, SequenceTheorems, FiniteSetTheorems, TLAPS

TablesOK ==
    /\ available_engines = [p \in Pods |-> available_engines[p]]
    /\ lookup \in Lookups

\* The models of the engine that is listed and not yet in known_models.
Announced == IF watcher \in {"submit", "await", "known"} THEN model_names ELSE {}

\* known_models has the models of every listed engine, but for that one ...
ListedKnown == \A p \in Pods : available_engines[p].model_names \subseteq known_models \cup Announced

\* ... and those of every engine that was delisted ...
WithdrawnKnown == withdrawn \subseteq known_models

\* ... from before the handler that is looking for the model began.
LookupKnown == lookup.withdrawn => lookup.model \in known_models

IInv == TablesOK /\ ListedKnown /\ WithdrawnKnown /\ LookupKnown /\ ScaledToZeroNot404

LEMMA InitInv == Init => IInv
<1> SUFFICES ASSUME Init PROVE IInv
  OBVIOUS
<1> USE DEF Init, NoInfo, NoLookup
<1>1. TablesOK
  BY DEF TablesOK, Lookups
<1>2. ListedKnown /\ WithdrawnKnown /\ LookupKnown /\ ScaledToZeroNot404
  BY DEF ListedKnown, WithdrawnKnown, LookupKnown, ScaledToZeroNot404
<1> QED
  BY <1>1, <1>2 DEF IInv

\* A step of the event loop between two handlers, or of the cluster.
LEMMA OtherSteps ==
    ASSUME IInv, UNCHANGED <<available_engines, known_models, withdrawn, lookup>>,
           Announced' = Announced
    PROVE  IInv'
BY DEF IInv, TablesOK, ListedKnown, WithdrawnKnown, LookupKnown, ScaledToZeroNot404

\* _delete_engine, and an event that leaves the table alone: the watcher is
\* not between the two tables, so what is withdrawn is known.
LEMMA DelistStep ==
    ASSUME IInv, Announced = {}, NEW p,
           \/ p \in Pods /\ delete_engine(p)
           \/ UNCHANGED <<available_engines, withdrawn>>,
           UNCHANGED <<known_models, lookup>>
    PROVE  IInv'
<1> USE DEF IInv
<1>1. TablesOK'
  BY DEF TablesOK, delete_engine
<1>2. \A q \in Pods : available_engines[q].model_names \subseteq known_models
  BY DEF ListedKnown
<1>3. ListedKnown'
  BY <1>2 DEF ListedKnown, TablesOK, delete_engine, NoInfo
<1>4. WithdrawnKnown'
  BY <1>2 DEF WithdrawnKnown, delete_engine
<1>5. LookupKnown' /\ ScaledToZeroNot404'
  BY DEF LookupKnown, ScaledToZeroNot404
<1> QED
  BY <1>1, <1>3, <1>4, <1>5

LEMMA WatcherStep == IInv /\ Watcher => IInv'
<1> SUFFICES ASSUME IInv, Watcher PROVE IInv'
  OBVIOUS
<1> USE DEF query, tables, cluster, closing
<1>1. CASE CheckRunning \/ Connect \/ AwaitSessions
  BY <1>1, OtherSteps DEF CheckRunning, Connect, AwaitSessions, Announced
<1>2. CASE SubmitSessions
  <2>1. Announced' = Announced
    BY <1>2 DEF SubmitSessions, Announced
  <2> QED
    BY <1>2, <2>1, OtherSteps DEF SubmitSessions
<1>3. CASE NextEvent
  <2> DEFINE e == Head(stream)
  <2>1. /\ watcher = "stream"
        /\ UNCHANGED <<known_models, lookup>>
    BY <1>3 DEF NextEvent
  <2>2. \/ e.name \in Listed /\ delete_engine(e.name)
        \/ UNCHANGED <<available_engines, withdrawn>>
    BY <1>3 DEF NextEvent, NotAdded
  <2>3. \/ e.name \in Pods /\ delete_engine(e.name)
        \/ UNCHANGED <<available_engines, withdrawn>>
    BY <2>2 DEF Listed
  <2>4. Announced = {}
    BY <2>1 DEF Announced
  <2> QED
    BY <2>1, <2>3, <2>4, DelistStep
<1>4. CASE GetModelNames
  <2>1. watcher = "models" /\ UNCHANGED <<known_models, lookup>>
    BY <1>4 DEF GetModelNames
  <2>2. \/ event.name \in Pods /\ delete_engine(event.name)
        \/ UNCHANGED <<available_engines, withdrawn>>
    BY <1>4 DEF GetModelNames, NotAdded, Listed
  <2>3. Announced = {}
    BY <2>1 DEF Announced
  <2> QED
    BY <2>1, <2>2, <2>3, DelistStep
<1>5. CASE GetSleepStatus
  BY <1>5, OtherSteps DEF GetSleepStatus, Announced
<1>6. CASE InsertEngine
  <2>1. /\ watcher = "insert" /\ watcher' = "submit"
        /\ available_engines' = [available_engines EXCEPT ![event.name] =
                                    [model_names |-> model_names, sleep |-> sleep_status]]
        /\ UNCHANGED <<known_models, lookup, withdrawn, model_names>>
    BY <1>6 DEF InsertEngine
  <2>2. TablesOK'
    BY <2>1 DEF IInv, TablesOK
  <2>3. Announced = {} /\ Announced' = model_names
    BY <2>1 DEF Announced
  <2>4. ListedKnown'
    BY <2>1, <2>3 DEF IInv, TablesOK, ListedKnown
  <2>5. WithdrawnKnown' /\ LookupKnown' /\ ScaledToZeroNot404'
    BY <2>1 DEF IInv, WithdrawnKnown, LookupKnown, ScaledToZeroNot404
  <2> QED
    BY <2>2, <2>4, <2>5 DEF IInv
<1>7. CASE UpdateKnown
  <2>1. /\ watcher = "known" /\ watcher' \in {"top", "stream"}
        /\ known_models' = known_models \cup model_names
        /\ UNCHANGED <<available_engines, lookup, withdrawn>>
    BY <1>7 DEF UpdateKnown, EndBody
  <2>2. Announced = model_names
    BY <2>1 DEF Announced
  <2>3. TablesOK' /\ WithdrawnKnown' /\ LookupKnown' /\ ScaledToZeroNot404'
    BY <2>1 DEF IInv, TablesOK, WithdrawnKnown, LookupKnown, ScaledToZeroNot404
  <2>4. ListedKnown'
    BY <2>1, <2>2 DEF IInv, ListedKnown
  <2> QED
    BY <2>3, <2>4 DEF IInv
<1> QED
  BY <1>1, <1>2, <1>3, <1>4, <1>5, <1>6, <1>7 DEF Watcher

\* The two steps of route_general_request.
LEMMA LookupStep == IInv /\ ((\E m \in Models : FindEndpoints(m)) \/ Answer) => IInv'
<1> SUFFICES ASSUME IInv, (\E m \in Models : FindEndpoints(m)) \/ Answer PROVE IInv'
  OBVIOUS
<1> USE DEF query, tables, cluster, closing
<1>1. ASSUME NEW m \in Models, FindEndpoints(m) PROVE IInv'
  <2> DEFINE found == {p \in Listed : /\ m \in available_engines[p].model_names
                                      /\ ~available_engines[p].sleep}
  <2>1. /\ lookup' = [model |-> m, answer |-> "none", endpoints |-> found,
                      withdrawn |-> m \in withdrawn]
        /\ UNCHANGED <<watcher, model_names, available_engines, known_models, withdrawn>>
    BY <1>1 DEF FindEndpoints
  <2>2. found \in SUBSET Pods
    BY DEF Listed
  <2> HIDE DEF found
  <2>3. TablesOK'
    BY <2>1, <2>2 DEF IInv, TablesOK, Lookups
  <2>4. LookupKnown' /\ ScaledToZeroNot404'
    BY <2>1, Zenon DEF IInv, WithdrawnKnown, LookupKnown, ScaledToZeroNot404
  <2>5. ListedKnown' /\ WithdrawnKnown'
    BY <2>1 DEF IInv, ListedKnown, WithdrawnKnown, Announced
  <2> QED
    BY <2>3, <2>4, <2>5 DEF IInv
<1>2. CASE Answer
  <2> DEFINE a == IF lookup.endpoints # {} THEN "routed"
                  ELSE IF lookup.model \in known_models THEN "503" ELSE "404"
  <2>1. /\ lookup' = [lookup EXCEPT !.answer = a]
        /\ UNCHANGED <<watcher, model_names, available_engines, known_models, withdrawn>>
    BY <1>2 DEF Answer
  <2>2. a \in {"none", "routed", "503", "404"} /\ (a = "404" => lookup.model \notin known_models)
    OBVIOUS
  <2> HIDE DEF a
  <2>3. TablesOK'
    BY <2>1, <2>2 DEF IInv, TablesOK, Lookups
  <2>4. LookupKnown' /\ ScaledToZeroNot404'
    BY <2>1, <2>2 DEF IInv, TablesOK, Lookups, LookupKnown, ScaledToZeroNot404
  <2>5. ListedKnown' /\ WithdrawnKnown'
    BY <2>1 DEF IInv, ListedKnown, WithdrawnKnown, Announced
  <2> QED
    BY <2>3, <2>4, <2>5 DEF IInv
<1> QED
  BY <1>1, <1>2

LEMMA Invariance == Spec => []IInv
<1>1. IInv /\ [Next]_vars => IInv'
  <2> SUFFICES ASSUME IInv, [Next]_vars PROVE IInv'
    OBVIOUS
  <2> USE DEF query, tables, cluster, closing
  <2>1. CASE Watcher
    BY <2>1, WatcherStep
  <2>2. CASE (\E m \in Models : FindEndpoints(m)) \/ Answer
    BY <2>2, LookupStep
  <2>3. CASE (\E p \in Pods : PodChange(p)) \/ StreamEnd \/ StreamBreak
    BY <2>3, OtherSteps DEF PodChange, StreamEnd, StreamBreak, Announced
  <2>4. CASE LoopStart \/ RunSessions \/ Close \/ Joined \/ UNCHANGED vars
    BY <2>4, OtherSteps DEF LoopStart, RunSessions, Close, Joined, vars, Announced
  <2> QED
    BY <2>1, <2>2, <2>3, <2>4 DEF Next
<1> QED
  BY <1>1, InitInv, PTL DEF Spec
-----------------------------------------------------------------------------
\* A model whose engine was taken out of available_engines is answered with
\* 503 or routed, never with 404 (has_ever_seen_model in route_general_request),
\* wherever the watcher thread is when the request looks.
THEOREM ScaledToZero == Spec => []ScaledToZeroNot404
BY Invariance, PTL DEF IInv
-----------------------------------------------------------------------------
(* Types.                                                                    *)

\* A listing has every pod that it is asked for once.
LEMMA Enumerates ==
    ASSUME NEW S, IsFiniteSet(S)
    PROVE  /\ Cardinality(S) \in Nat
           /\ SetToSeq(S) \in [1 .. Cardinality(S) -> S]
           /\ \A i, j \in 1 .. Cardinality(S) : SetToSeq(S)[i] = SetToSeq(S)[j] => i = j
<1>1. Cardinality(S) \in Nat /\ ExistsBijection(1 .. Cardinality(S), S)
  BY FS_CardinalityType
<1>2. \E f \in [1 .. Cardinality(S) -> S] : IsInjective(f)
  BY <1>1 DEF ExistsBijection, Bijection, Injection
<1>3. SetToSeq(S) \in [1 .. Cardinality(S) -> S] /\ IsInjective(SetToSeq(S))
  BY <1>2 DEF SetToSeq
<1> QED
  BY <1>1, <1>3 DEF IsInjective

LEMMA EventFields ==
    ASSUME NEW e \in Events
    PROVE  /\ e.type \in {"ADDED", "MODIFIED", "DELETED"} /\ e.name \in Pods
           /\ e.ip \in BOOLEAN /\ e.ready \in BOOLEAN
<1>1. PICK t \in {"ADDED", "MODIFIED", "DELETED"}, p \in Pods, s \in PodStates : e = Event(t, p, s)
  BY DEF Events
<1>2. (s # "pending") \in BOOLEAN /\ (s = "ready") \in BOOLEAN
  OBVIOUS
<1> QED
  BY <1>1, <1>2 DEF Event

LEMMA EventIs ==
    ASSUME NEW t, NEW p, NEW s
    PROVE  /\ Event(t, p, s).type = t /\ Event(t, p, s).name = p
           /\ Event(t, p, s).ready <=> s = "ready"
           /\ Event(t, p, s).ip <=> s # "pending"
  BY Zenon DEF Event

LEMMA EventIsEvent ==
    ASSUME NEW t \in {"ADDED", "MODIFIED", "DELETED"}, NEW p \in Pods, NEW s \in PodStates
    PROVE  Event(t, p, s) \in Events
  BY DEF Events

LEMMA RelistFacts ==
    ASSUME TypeOK
    PROVE  /\ Relist \in Seq(Events)
           /\ \A i \in 1 .. Len(Relist) :
                 /\ Relist[i].type = "ADDED" /\ pod[Relist[i].name] \in Existing
                 /\ Relist[i].ready <=> pod[Relist[i].name] = "ready"
                 /\ \A j \in 1 .. Len(Relist) : Relist[i].name = Relist[j].name => i = j
           /\ Len(Relist) <= Cardinality(Pods)
<1> DEFINE E == {p \in Pods : pod[p] \in Existing}
           all == SetToSeq(E)
           n == Cardinality(E)
<1>1. IsFiniteSet(E)
  BY FS_Subset, K8sPodIPDiscoveryAssumption
<1>2. n \in Nat /\ all \in [1 .. n -> E] /\ \A i, j \in 1 .. n : all[i] = all[j] => i = j
  BY <1>1, Enumerates, Zenon
<1>a. n <= Cardinality(Pods)
  BY FS_Subset, K8sPodIPDiscoveryAssumption
<1> HIDE DEF all, n
<1>3. Relist = [i \in 1 .. n |-> Event("ADDED", all[i], pod[all[i]])]
  BY <1>2 DEF Relist, all
<1>4. \A i \in 1 .. n : all[i] \in Pods /\ pod[all[i]] \in Existing /\ pod[all[i]] \in PodStates
  BY <1>2 DEF TypeOK, Existing, PodStates
<1>5. \A i \in 1 .. n : Event("ADDED", all[i], pod[all[i]]) \in Events
  BY <1>4, EventIsEvent
<1>6. Relist \in Seq(Events) /\ Len(Relist) = n
  BY <1>2, <1>3, <1>5
<1>7. \A i \in 1 .. n : Relist[i] = Event("ADDED", all[i], pod[all[i]])
  BY <1>3
<1>8. \A i \in 1 .. n : Relist[i].type = "ADDED" /\ Relist[i].name = all[i]
  BY <1>7, EventIs
<1>9. \A i \in 1 .. n : Relist[i].ready <=> pod[Relist[i].name] = "ready"
  BY <1>7, EventIs, <1>8
<1> QED
  BY <1>2, <1>a, <1>4, <1>6, <1>8, <1>9

\* Reading on, after the body of the for loop.
LEMMA EndBodyType ==
    ASSUME stream \in Seq(Events), stop \in BOOLEAN, stream # <<>>, EndBody
    PROVE  /\ stream' \in Seq(Events) /\ event' \in Events \cup {NoEvent}
           /\ watcher' \in {"top", "stream"} /\ open' \in BOOLEAN
<1>1. Tail(stream) \in Seq(Events) /\ <<>> \in Seq(Events)
  BY HeadTailProperties, EmptySeq
<1>2. open' \in BOOLEAN
  BY Zenon DEF EndBody
<1> QED
  BY <1>1, <1>2 DEF EndBody

LEMMA TypeInit == Init => TypeOK
<1> SUFFICES ASSUME Init PROVE TypeOK
  OBVIOUS
<1>1. open \in BOOLEAN /\ sleep_status \in BOOLEAN /\ running \in BOOLEAN /\ stop \in BOOLEAN
  BY Zenon DEF Init
<1>2. NoInfo \in Infos /\ NoLookup \in Lookups
  BY DEF NoInfo, Infos, NoLookup, Lookups
<1>3. changes \in 0 .. MaxChanges /\ failures \in 0 .. MaxFailures
  BY K8sPodIPDiscoveryAssumption DEF Init
<1>4. stream \in Seq(Events)
  BY EmptySeq DEF Init
<1> QED
  BY <1>1, <1>2, <1>3, <1>4 DEF Init, TypeOK, PodStates, WatcherSteps

\* What the watcher's steps do to the tables.
LEMMA DelistType ==
    ASSUME available_engines \in [Pods -> Infos], withdrawn \in SUBSET Models, NEW p \in Pods,
           delete_engine(p) \/ UNCHANGED <<available_engines, withdrawn>>
    PROVE  available_engines' \in [Pods -> Infos] /\ withdrawn' \in SUBSET Models
<1>1. NoInfo \in Infos
  BY DEF NoInfo, Infos
<1>2. available_engines[p].model_names \in SUBSET Models
  BY DEF Infos
<1> QED
  BY <1>1, <1>2 DEF delete_engine

LEMMA HeadEvent ==
    ASSUME TypeOK, stream # <<>>
    PROVE  /\ Head(stream) \in Events /\ Len(stream) \in Nat /\ Len(stream) > 0
           /\ Head(stream) = stream[1] /\ Len(Tail(stream)) = Len(stream) - 1
           /\ \A i \in 1 .. Len(Tail(stream)) : Tail(stream)[i] = stream[i + 1]
  BY HeadTailProperties DEF TypeOK

\* The event that is worked on is the first of the stream.
WorkInv ==
    /\ open <=> watcher \notin {"top", "connect", "stopped"}
    /\ ~open => stream = <<>>
    /\ stop => ~running
    /\ watcher \in {"models", "sleep", "insert", "submit", "await", "known"} =>
          /\ stream # <<>> /\ event = Head(stream)
          /\ event.ready /\ event.type # "DELETED"
    /\ watcher \in {"sleep", "insert", "submit", "await", "known"} => model_names # {}
    /\ watcher \in {"submit", "await", "known"} => event.name \in Listed

LEMMA TypeNext == TypeOK /\ WorkInv /\ [Next]_vars => TypeOK'
<1> SUFFICES ASSUME TypeOK, WorkInv, [Next]_vars PROVE TypeOK'
  OBVIOUS
<1>k. /\ MaxChanges \in Nat /\ MaxFailures \in Nat
      /\ \A p \in Pods : Serves[p] \in SUBSET Models
  BY K8sPodIPDiscoveryAssumption
<1> USE DEF TypeOK, cluster, query, tables, closing, WatcherSteps
<1>1. ASSUME NEW p \in Pods, PodChange(p) PROVE TypeOK'
  <2>1. PICK s \in PodStates : /\ pod' = [pod EXCEPT ![p] = s]
                               /\ stream' = IF open THEN Append(stream, Event(EventType(s), p, s)) ELSE stream
    BY <1>1, Zenon DEF PodChange
  <2>2. EventType(s) \in {"ADDED", "MODIFIED", "DELETED"}
    BY DEF EventType
  <2>3. stream' \in Seq(Events)
    BY <2>1, <2>2, EventIsEvent, AppendProperties
  <2> QED
    BY <1>1, <1>k, <2>1, <2>3 DEF PodChange
<1>2. CASE CheckRunning
  BY <1>2 DEF CheckRunning
<1>3. CASE Connect
  <2>1. stop' \in BOOLEAN /\ open' \in BOOLEAN
    BY <1>3, Zenon DEF Connect
  <2> QED
    BY <1>3, <2>1, RelistFacts DEF Connect
<1>4. CASE StreamEnd \/ StreamBreak
  <2>1. open' \in BOOLEAN
    BY <1>4, Zenon DEF StreamEnd, StreamBreak
  <2>2. stream' \in Seq(Events)
    BY <1>4, EmptySeq, Zenon DEF StreamEnd, StreamBreak
  <2>3. missed' \in SUBSET Pods
    <3>1. \A i \in DOMAIN stream : stream[i].name \in Pods
      BY EventFields, ElementOfSeq, LenProperties
    <3> QED
      BY <1>4, <3>1 DEF StreamEnd, StreamBreak
  <2> QED
    BY <1>4, <1>k, <2>1, <2>2, <2>3 DEF StreamEnd, StreamBreak
<1>5. CASE NextEvent
  <2> DEFINE e == Head(stream)
  <2>1. stream # <<>> /\ e \in Events /\ e.name \in Pods
    BY <1>5, HeadEvent, EventFields DEF NextEvent
  <2>2. /\ delete_engine(e.name) \/ UNCHANGED <<available_engines, withdrawn>>
        /\ EndBody \/ (event' = e /\ watcher' = "models" /\ UNCHANGED <<open, stream>>)
        /\ missed' \in {missed, missed \ {e.name}}
        /\ UNCHANGED <<cluster, query, known_models, closing, future, loop, lookup>>
    BY <1>5 DEF NextEvent, NotAdded
  <2> HIDE DEF e
  <2>3. available_engines' \in [Pods -> Infos] /\ withdrawn' \in SUBSET Models
    BY <2>1, <2>2, DelistType
  <2>4. /\ stream' \in Seq(Events) /\ event' \in Events \cup {NoEvent}
        /\ watcher' \in {"top", "stream", "models"} /\ open' \in BOOLEAN
    BY <2>1, <2>2, EndBodyType
  <2> QED
    BY <2>2, <2>3, <2>4
<1>6. CASE GetModelNames
  <2>1. stream # <<>> /\ event \in Events /\ event.name \in Pods
    BY <1>6, HeadEvent, EventFields DEF GetModelNames, WorkInv
  <2>2. /\ delete_engine(event.name) \/ UNCHANGED <<available_engines, withdrawn>>
        /\ EndBody \/ (UNCHANGED <<open, stream, event>> /\ watcher' = "sleep")
        /\ missed' \in {missed, missed \cup {event.name}}
        /\ model_names' \in {Serves[event.name], {}}
        /\ failures' = failures \/ (failures < MaxFailures /\ failures' = failures + 1)
        /\ UNCHANGED <<cluster, sleep_status, known_models, closing, future, loop, lookup>>
    BY <1>6 DEF GetModelNames, QueryAnswers, QueryFails, NotAdded
  <2>3. available_engines' \in [Pods -> Infos] /\ withdrawn' \in SUBSET Models
    BY <2>1, <2>2, DelistType
  <2>4. /\ stream' \in Seq(Events) /\ event' \in Events \cup {NoEvent}
        /\ watcher' \in {"top", "stream", "sleep"} /\ open' \in BOOLEAN
    BY <2>1, <2>2, EndBodyType
  <2>5. model_names' \in SUBSET Models /\ failures' \in 0 .. MaxFailures
    BY <1>k, <2>1, <2>2
  <2> QED
    BY <2>1, <2>2, <2>3, <2>4, <2>5
<1>7. CASE GetSleepStatus
  <2>1. (event.name \in Asleep) \in BOOLEAN
    OBVIOUS
  <2>2. sleep_status' \in BOOLEAN
    BY <1>7, <2>1, Zenon DEF GetSleepStatus
  <2>3. failures' \in 0 .. MaxFailures
    BY <1>7, <1>k DEF GetSleepStatus, QueryAnswers, QueryFails
  <2> QED
    BY <1>7, <2>2, <2>3 DEF GetSleepStatus
<1>8. CASE InsertEngine
  <2>1. [model_names |-> model_names, sleep |-> sleep_status] \in Infos
    BY DEF Infos
  <2> QED
    BY <1>8, <2>1, Zenon DEF InsertEngine
<1>9. CASE SubmitSessions \/ AwaitSessions
  BY <1>9 DEF SubmitSessions, AwaitSessions
<1>10. CASE UpdateKnown
  <2>1. stream # <<>> /\ EndBody
    BY <1>10 DEF UpdateKnown, WorkInv
  <2> QED
    BY <1>10, <2>1, EndBodyType DEF UpdateKnown
<1>11. CASE LoopStart \/ RunSessions \/ Joined \/ UNCHANGED vars
  BY <1>11 DEF LoopStart, RunSessions, Joined, vars
<1>12. CASE Close
  <2>1. running' \in BOOLEAN /\ stop' \in BOOLEAN
    BY <1>12, Zenon DEF Close
  <2> QED
    BY <1>12, <2>1 DEF Close
<1>13. ASSUME NEW m \in Models, FindEndpoints(m) PROVE TypeOK'
  <2> DEFINE ps == {p \in Listed : m \in available_engines[p].model_names /\ ~available_engines[p].sleep}
             w == m \in withdrawn
  <2>1. lookup' = [model |-> m, answer |-> "none", endpoints |-> ps, withdrawn |-> w]
    BY <1>13 DEF FindEndpoints
  <2>2. ps \in SUBSET Pods /\ w \in BOOLEAN
    BY DEF Listed
  <2> HIDE DEF ps, w
  <2>3. lookup' \in Lookups
    BY <2>1, <2>2 DEF Lookups
  <2> QED
    BY <1>13, <2>3 DEF FindEndpoints
<1>14. CASE Answer
  <2>1. lookup' \in Lookups
    BY <1>14 DEF Answer, Lookups
  <2> QED
    BY <1>14, <2>1 DEF Answer
<1> QED
  BY <1>1, <1>2, <1>3, <1>4, <1>5, <1>6, <1>7, <1>8, <1>9, <1>10, <1>11, <1>12, <1>13, <1>14, Zenon DEF Next, Watcher
-----------------------------------------------------------------------------
(* What the stream and the table say.                                        *)

About(i, p) == stream[i].name = p
Newest(i) == \A j \in 1 .. Len(stream) : j > i => ~About(j, stream[i].name)

\* The last event about a pod says whether the pod is ready.  An ADDED event
\* is the first one about its pod.
EventInv ==
    \A i \in 1 .. Len(stream) :
        /\ stream[i].type = "MODIFIED" => stream[i].ip
        /\ stream[i].type = "DELETED" => ~stream[i].ready
        /\ pod[stream[i].name] # "absent"
        /\ \A j \in 1 .. Len(stream) : stream[i].type = "ADDED" /\ j < i => ~About(j, stream[i].name)
        /\ Newest(i) => (stream[i].ready <=> pod[stream[i].name] = "ready")

\* Until the watcher is about to stop: a pod about which nothing is unread is
\* listed if and only if it is ready, and an ADDED event that is passed over
\* is of a pod that is not listed.  The exceptions are the pods in missed.
Watching == running \/ watcher \notin {"top", "stopped"}
TableInv ==
    /\ \A p \in Pods : pod[p] = "absent" => p \notin Listed
    /\ Watching => \A i \in 1 .. Len(stream) :
          stream[i].type = "ADDED" /\ ~stream[i].ready /\ stream[i].name \in Listed
             => stream[i].name \in missed
    /\ Watching => \A p \in Pods \ missed :
          (\A i \in 1 .. Len(stream) : ~About(i, p)) => (p \in Listed <=> pod[p] = "ready")

AccurateInv == TypeOK /\ WorkInv /\ EventInv /\ TableInv

LEMMA AccurateInit == Init => AccurateInv
<1> SUFFICES ASSUME Init PROVE AccurateInv
  OBVIOUS
<1>1. Listed = {}
  <2>1. \A p \in Pods : available_engines[p] = NoInfo
    BY Zenon DEF Init
  <2> QED
    BY <2>1, Zenon DEF Listed
<1>2. EventInv /\ TableInv
  BY <1>1 DEF Init, EventInv, TableInv
<1>3. WorkInv
  BY Zenon DEF Init, WorkInv
<1> QED
  BY <1>2, <1>3, TypeInit DEF AccurateInv

\* A step that leaves the cluster, the stream and the table alone.
LEMMA Aside ==
    ASSUME AccurateInv, UNCHANGED <<pod, stream, available_engines, missed>>, Watching' => Watching
    PROVE  EventInv' /\ TableInv'
<1>1. EventInv'
  BY DEF AccurateInv, EventInv, Newest, About
<1>2. Listed' = Listed
  BY DEF Listed
<1>3. TableInv'
  BY <1>2 DEF AccurateInv, TableInv, About
<1> QED
  BY <1>1, <1>3

\* The watcher is done with the first event of the stream, about pod p.
LEMMA EndBodyNext ==
    ASSUME AccurateInv, watcher \in WatcherSteps \ {"top", "connect", "stopped"},
           stream # <<>>, EndBody, UNCHANGED <<pod, running, stop>>,
           NEW p, p = Head(stream).name, p \in Pods,
           Listed' \ {p} = Listed \ {p}, missed' \ {p} = missed \ {p},
           p \notin missed' => (p \in Listed' <=> Head(stream).ready)
    PROVE  WorkInv' /\ EventInv' /\ TableInv'
<1>0. TypeOK /\ WorkInv /\ EventInv /\ TableInv /\ Watching
  BY DEF AccurateInv, Watching
<1>1. /\ Len(stream) \in Nat /\ Len(stream) > 0 /\ Head(stream) = stream[1]
      /\ Len(Tail(stream)) = Len(stream) - 1
      /\ \A i \in 1 .. Len(Tail(stream)) : Tail(stream)[i] = stream[i + 1]
  BY <1>0, HeadEvent
<1>2. CASE stop
  <2>1. stream' = <<>> /\ watcher' = "top" /\ ~open' /\ ~running' /\ Len(stream') = 0
    BY <1>0, <1>2, EmptySeq, Zenon DEF EndBody, WorkInv
  <2>2. WorkInv'
    BY <2>1 DEF WorkInv
  <2>3. EventInv'
    BY <2>1 DEF EventInv
  <2>4. TableInv'
    <3>1. \A q \in Pods : pod[q] = "absent" => q \notin Listed'
      BY <1>0, <1>1 DEF TableInv, EventInv
    <3> QED
      BY <2>1, <3>1 DEF TableInv, Watching
  <2> QED
    BY <2>2, <2>3, <2>4
<1>3. CASE ~stop
  <2>1. stream' = Tail(stream) /\ watcher' = "stream" /\ open' /\ ~stop'
    BY <1>3, Zenon DEF EndBody
  <2>2. WorkInv'
    BY <2>1 DEF WorkInv
  <2>3. /\ Len(stream') = Len(stream) - 1
        /\ \A i \in 1 .. Len(stream') : stream'[i] = stream[i + 1] /\ i + 1 \in 1 .. Len(stream)
        /\ \A k \in 1 .. Len(stream) : k # 1 => k - 1 \in 1 .. Len(stream') /\ stream'[k - 1] = stream[k]
    BY <1>1, <2>1
  <2>4. EventInv'
    <3> SUFFICES ASSUME NEW i \in 1 .. Len(stream')
                 PROVE  /\ stream'[i].type = "MODIFIED" => stream'[i].ip
                        /\ stream'[i].type = "DELETED" => ~stream'[i].ready
                        /\ pod[stream'[i].name] # "absent"
                        /\ \A j \in 1 .. Len(stream') :
                              stream'[i].type = "ADDED" /\ j < i => stream'[j].name # stream'[i].name
                        /\ (\A j \in 1 .. Len(stream') : j > i => stream'[j].name # stream'[i].name)
                              => (stream'[i].ready <=> pod[stream'[i].name] = "ready")
      BY DEF EventInv, Newest, About
    <3>1. i + 1 \in 1 .. Len(stream) /\ stream'[i] = stream[i + 1]
      BY <2>3
    <3>2. ASSUME NEW j \in 1 .. Len(stream'), stream'[i].type = "ADDED", j < i
          PROVE  stream'[j].name # stream'[i].name
      <4>1. j + 1 \in 1 .. Len(stream) /\ stream'[j] = stream[j + 1] /\ j + 1 < i + 1
        BY <2>3, <3>2
      <4> QED
        BY <1>0, <3>1, <3>2, <4>1 DEF EventInv, About
    <3>3. ASSUME \A j \in 1 .. Len(stream') : j > i => stream'[j].name # stream'[i].name
          PROVE  Newest(i + 1)
      <4> SUFFICES ASSUME NEW k \in 1 .. Len(stream), k > i + 1
                   PROVE  stream[k].name # stream[i + 1].name
        BY DEF Newest, About
      <4>1. k - 1 \in 1 .. Len(stream') /\ stream'[k - 1] = stream[k] /\ k - 1 > i
        BY <1>1, <2>3
      <4> QED
        BY <3>1, <3>3, <4>1
    <3> QED
      BY <1>0, <3>1, <3>2, <3>3 DEF EventInv
  <2>5. TableInv'
    <3>1. \A q \in Pods : pod[q] = "absent" => q \notin Listed'
      BY <1>0, <1>1 DEF TableInv, EventInv
    <3>2. ASSUME NEW i \in 1 .. Len(stream'),
                 stream'[i].type = "ADDED", ~stream'[i].ready, stream'[i].name \in Listed'
          PROVE  stream'[i].name \in missed'
      <4>1. i + 1 \in 1 .. Len(stream) /\ stream'[i] = stream[i + 1] /\ 1 \in 1 .. Len(stream) /\ 1 < i + 1
        BY <1>1, <2>3
      <4>2. stream[i + 1].name # p
        BY <1>0, <1>1, <3>2, <4>1 DEF EventInv, About
      <4> QED
        BY <1>0, <3>2, <4>1, <4>2 DEF TableInv
    <3>3. ASSUME NEW q \in Pods \ missed', \A i \in 1 .. Len(stream') : stream'[i].name # q
          PROVE  q \in Listed' <=> pod[q] = "ready"
      <4>1. CASE q = p
        <5>1. Newest(1)
          <6> SUFFICES ASSUME NEW k \in 1 .. Len(stream), k > 1 PROVE stream[k].name # stream[1].name
            BY DEF Newest, About
          <6>1. k - 1 \in 1 .. Len(stream') /\ stream'[k - 1] = stream[k]
            BY <2>3
          <6> QED
            BY <1>1, <3>3, <4>1, <6>1
        <5>2. stream[1].ready <=> pod[p] = "ready"
          BY <1>0, <1>1, <5>1 DEF EventInv
        <5> QED
          BY <1>1, <3>3, <4>1, <5>2
      <4>2. CASE q # p
        <5>1. \A k \in 1 .. Len(stream) : ~About(k, q)
          BY <1>1, <2>3, <3>3, <4>2 DEF About
        <5>2. q \notin missed
          BY <3>3, <4>2
        <5>3. q \in Listed' <=> q \in Listed
          BY <4>2
        <5> QED
          BY <1>0, <5>1, <5>2, <5>3 DEF TableInv
      <4> QED
        BY <4>1, <4>2
    <3> QED
      BY <3>1, <3>2, <3>3 DEF TableInv, About
  <2> QED
    BY <2>2, <2>4, <2>5
<1> QED
  BY <1>2, <1>3

\* The API server sends an event about the change of a pod, or nobody reads it.
LEMMA PodChangeNext ==
    ASSUME AccurateInv, NEW p \in Pods, PodChange(p)
    PROVE  WorkInv' /\ EventInv' /\ TableInv'
<1>0. TypeOK /\ WorkInv /\ EventInv /\ TableInv
  BY DEF AccurateInv
<1> USE DEF cluster, query, tables, closing
<1>1. PICK s \in PodStates :
         /\ <<pod[p], s>> \in PodSteps
         /\ pod' = [pod EXCEPT ![p] = s]
         /\ stream' = IF open THEN Append(stream, Event(EventType(s), p, s)) ELSE stream
  BY Zenon DEF PodChange
<1>2. /\ missed' = IF open THEN missed ELSE missed \cup {p}
      /\ UNCHANGED <<open, watcher, event, model_names, available_engines, running, stop>>
  BY DEF PodChange
<1>3. pod \in [Pods -> PodStates] /\ s # "absent" /\ pod[p] # "gone"
  BY <1>0, <1>1 DEF TypeOK, PodSteps
<1>4. Listed' = Listed /\ (Watching' <=> Watching)
  BY <1>2 DEF Listed, Watching
<1>5. CASE ~open
  <2>1. stream' = <<>> /\ stream = <<>> /\ Len(stream') = 0
    BY <1>0, <1>1, <1>5, EmptySeq DEF WorkInv
  <2>2. WorkInv'
    BY <1>0, <1>2, <1>4, <1>5, <2>1 DEF WorkInv
  <2>3. EventInv'
    BY <2>1 DEF EventInv
  <2>4. TableInv'
    BY <1>0, <1>1, <1>2, <1>3, <1>4, <1>5, <2>1, Zenon DEF TableInv, About
  <2> QED
    BY <2>2, <2>3, <2>4
<1>6. CASE open
  <2> DEFINE e == Event(EventType(s), p, s)
             n == Len(stream)
  <2>1. /\ e.name = p /\ (e.ready <=> s = "ready") /\ (e.ip <=> s # "pending")
        /\ e.type = EventType(s) /\ e \in Events
    <3>1. EventType(s) \in {"ADDED", "MODIFIED", "DELETED"}
      BY DEF EventType
    <3> QED
      BY <3>1, EventIs, EventIsEvent
  <2>2. /\ e.type = "MODIFIED" => e.ip
        /\ e.type = "DELETED" => ~e.ready
        /\ e.type = "ADDED" => pod[p] = "absent" /\ ~e.ready
    BY <1>1, <1>3, <2>1 DEF EventType, PodSteps, PodStates
  <2> HIDE DEF e
  <2>3. /\ stream' = Append(stream, e) /\ n \in Nat /\ Len(stream') = n + 1
        /\ stream'[n + 1] = e /\ \A i \in 1 .. n : stream'[i] = stream[i]
    BY <1>0, <1>1, <1>6, <2>1, AppendProperties, LenProperties DEF TypeOK, e
  <2>4. stream # <<>> => stream' # <<>> /\ Head(stream') = Head(stream)
    <3> SUFFICES ASSUME stream # <<>> PROVE stream' # <<>> /\ Head(stream') = Head(stream)
      OBVIOUS
    <3>1. n > 0 /\ Head(stream) = stream[1]
      BY <1>0, HeadEvent
    <3>2. stream' \in Seq(Events) /\ stream' # <<>>
      BY <1>0, <2>1, <2>3, AppendProperties, EmptySeq DEF TypeOK
    <3>3. Head(stream') = stream'[1]
      BY <3>2, HeadTailProperties
    <3> QED
      BY <2>3, <3>1, <3>2, <3>3
  <2>5. WorkInv'
    BY <1>0, <1>2, <1>4, <1>6, <2>4 DEF WorkInv
  <2>6. \A i \in 1 .. n : /\ stream[i].name \in Pods
                          /\ stream[i].name # p => pod'[stream[i].name] = pod[stream[i].name]
    <3>1. \A i \in 1 .. n : stream[i].name \in Pods
      BY <1>0, EventFields, ElementOfSeq DEF TypeOK
    <3> QED
      BY <1>1, <1>3, <3>1
  <2>7. pod'[p] = s
    BY <1>1, <1>3
  <2>8. EventInv'
    <3> SUFFICES ASSUME NEW i \in 1 .. n + 1
                 PROVE  /\ stream'[i].type = "MODIFIED" => stream'[i].ip
                        /\ stream'[i].type = "DELETED" => ~stream'[i].ready
                        /\ pod'[stream'[i].name] # "absent"
                        /\ \A j \in 1 .. n + 1 :
                              stream'[i].type = "ADDED" /\ j < i => stream'[j].name # stream'[i].name
                        /\ (\A j \in 1 .. n + 1 : j > i => stream'[j].name # stream'[i].name)
                              => (stream'[i].ready <=> pod'[stream'[i].name] = "ready")
      BY <2>3 DEF EventInv, Newest, About
    <3>1. CASE i = n + 1
      <4>1. \A j \in 1 .. n + 1 : j < i /\ e.type = "ADDED" => stream'[j].name # p
        BY <1>0, <2>2, <2>3, <3>1 DEF EventInv
      <4> QED
        BY <1>3, <2>1, <2>2, <2>3, <2>7, <3>1, <4>1
    <3>2. CASE i \in 1 .. n
      <4>1. \A j \in 1 .. n + 1 : j < i => j \in 1 .. n
        BY <2>3, <3>2
      <4>2. ASSUME \A j \in 1 .. n + 1 : j > i => stream'[j].name # stream'[i].name
            PROVE  stream[i].name # p /\ Newest(i)
        <5>1. stream[i].name # p
          BY <2>1, <2>3, <3>2, <4>2
        <5>2. \A j \in 1 .. n : j > i => stream[j].name # stream[i].name
          BY <2>3, <3>2, <4>2
        <5> QED
          BY <5>1, <5>2 DEF Newest, About
      <4>3. \A j \in 1 .. n + 1 : stream'[i].type = "ADDED" /\ j < i => stream'[j].name # stream'[i].name
        BY <1>0, <2>3, <3>2, <4>1 DEF EventInv, About
      <4>4. pod'[stream[i].name] # "absent"
        BY <1>0, <1>3, <2>6, <2>7, <3>2 DEF EventInv
      <4> QED
        BY <1>0, <2>3, <2>6, <3>2, <4>2, <4>3, <4>4, Zenon DEF EventInv
    <3> QED
      BY <2>3, <3>1, <3>2
  <2>9. TableInv'
    <3>1. \A q \in Pods : pod'[q] = "absent" => q \notin Listed'
      BY <1>0, <1>1, <1>3, <1>4 DEF TableInv
    <3>2. ASSUME Watching', NEW i \in 1 .. n + 1,
                 stream'[i].type = "ADDED", ~stream'[i].ready, stream'[i].name \in Listed'
          PROVE  stream'[i].name \in missed'
      <4>1. CASE i = n + 1
        BY <1>0, <1>4, <2>1, <2>2, <2>3, <3>2, <4>1 DEF TableInv
      <4>2. CASE i \in 1 .. n
        BY <1>0, <1>2, <1>4, <1>6, <2>3, <3>2, <4>2 DEF TableInv
      <4> QED
        BY <2>3, <4>1, <4>2
    <3>3. ASSUME Watching', NEW q \in Pods \ missed', \A i \in 1 .. n + 1 : stream'[i].name # q
          PROVE  q \in Listed' <=> pod'[q] = "ready"
      <4>1. q # p /\ \A i \in 1 .. n : stream[i].name # q
        BY <2>1, <2>3, <3>3
      <4>2. pod'[q] = pod[q] /\ q \in Pods \ missed
        BY <1>1, <1>2, <1>3, <1>6, <3>3, <4>1
      <4> QED
        BY <1>0, <1>4, <3>3, <4>1, <4>2 DEF TableInv, About
    <3> QED
      BY <2>3, <3>1, <3>2, <3>3 DEF TableInv, About
  <2> QED
    BY <2>5, <2>8, <2>9
<1> QED
  BY <1>5, <1>6

\* A connection is opened: what the table says of a pod that is not in missed
\* is right, so an engine listed and not ready is in missed.
LEMMA ConnectNext ==
    ASSUME AccurateInv, Connect
    PROVE  WorkInv' /\ EventInv' /\ TableInv'
<1>0. TypeOK /\ WorkInv /\ EventInv /\ TableInv
  BY DEF AccurateInv
<1>1. /\ watcher = "connect" /\ watcher' = "stream" /\ open' /\ ~stop'
      /\ stream' = Relist /\ UNCHANGED <<pod, available_engines, missed>>
  BY Zenon DEF Connect, cluster, tables
<1>2. Watching /\ stream = <<>> /\ Len(stream) = 0 /\ Listed' = Listed
  BY <1>0, <1>1, EmptySeq DEF Watching, WorkInv, Listed
<1>3. \A i \in 1 .. Len(stream') :
         /\ stream'[i].type = "ADDED" /\ pod[stream'[i].name] \in Existing
         /\ stream'[i].ready <=> pod[stream'[i].name] = "ready"
         /\ \A j \in 1 .. Len(stream') : stream'[i].name = stream'[j].name => i = j
  BY <1>0, <1>1, RelistFacts
<1>4. stream' \in Seq(Events) /\ Len(stream') \in Nat
  BY <1>0, <1>1, RelistFacts, LenProperties
<1>5. \A i \in 1 .. Len(stream') : stream'[i].name \in Pods
  BY <1>4, EventFields, ElementOfSeq
<1>6. WorkInv'
  BY <1>1 DEF WorkInv
<1>7. EventInv'
  BY <1>1, <1>3, <1>4 DEF EventInv, About, Existing
<1>8. \A p \in Pods \ missed : p \in Listed <=> pod[p] = "ready"
  BY <1>0, <1>2 DEF TableInv
<1>9. TableInv'
  BY <1>0, <1>1, <1>2, <1>3, <1>5, <1>8 DEF TableInv
<1> QED
  BY <1>6, <1>7, <1>9

\* An event that is read and needs no query.
LEMMA NextEventNext ==
    ASSUME AccurateInv, NextEvent
    PROVE  WorkInv' /\ EventInv' /\ TableInv'
<1>0. TypeOK /\ WorkInv /\ EventInv /\ TableInv
  BY DEF AccurateInv
<1> DEFINE e == Head(stream)
<1>1. /\ watcher = "stream" /\ stream # <<>>
      /\ UNCHANGED <<pod, running, stop, model_names>>
  BY DEF NextEvent, cluster, closing, query
<1>2. /\ e = stream[1] /\ 1 \in 1 .. Len(stream)
      /\ e.name \in Pods /\ e.type \in {"ADDED", "MODIFIED", "DELETED"}
  BY <1>0, <1>1, HeadEvent, EventFields
<1>3. /\ e.type = "MODIFIED" => e.ip
      /\ e.type = "DELETED" => ~e.ready
      /\ e.type = "ADDED" /\ ~e.ready /\ e.name \in Listed => e.name \in missed
  BY <1>0, <1>1, <1>2 DEF EventInv, TableInv, Watching
<1>4. watcher \in WatcherSteps \ {"top", "connect", "stopped"}
  BY <1>1 DEF WatcherSteps
<1>5. ASSUME delete_engine(e.name) PROVE Listed' = Listed \ {e.name}
  BY <1>0, <1>2, <1>5 DEF delete_engine, Listed, TypeOK
<1>6. ASSUME UNCHANGED available_engines PROVE Listed' = Listed
  BY <1>6 DEF Listed
<1>7. CASE /\ e.type = "DELETED"
           /\ IF e.name \in Listed THEN delete_engine(e.name) ELSE UNCHANGED <<available_engines, withdrawn>>
           /\ EndBody
           /\ missed' = missed \ {e.name}
  <2>1. Listed' = Listed \ {e.name}
    BY <1>5, <1>6, <1>7
  <2> QED
    BY <1>1, <1>2, <1>3, <1>4, <1>7, <2>1, EndBodyNext
<1>8. CASE /\ e.type # "DELETED" /\ ~e.ready
           /\ NotAdded(e, e.type)
           /\ missed' = IF e.type = "MODIFIED" \/ e.name \notin Listed THEN missed \ {e.name} ELSE missed
  <2>1. CASE e.type = "MODIFIED"
    <3>1. Listed' = Listed \ {e.name} /\ EndBody /\ missed' = missed \ {e.name}
      BY <1>3, <1>5, <1>6, <1>8, <2>1 DEF NotAdded
    <3> QED
      BY <1>1, <1>2, <1>3, <1>4, <1>8, <3>1, EndBodyNext
  <2>2. CASE e.type = "ADDED"
    <3>1. Listed' = Listed /\ EndBody
      BY <1>6, <1>8, <2>2 DEF NotAdded
    <3>2. /\ missed' \ {e.name} = missed \ {e.name}
          /\ e.name \notin missed' => e.name \notin Listed'
      BY <1>3, <1>8, <2>2, <3>1
    <3> QED
      BY <1>1, <1>2, <1>4, <1>8, <3>1, <3>2, EndBodyNext
  <2> QED
    BY <1>2, <1>8, <2>1, <2>2
<1>9. CASE /\ e.type # "DELETED" /\ e.ready
           /\ event' = e /\ watcher' = "models"
           /\ UNCHANGED <<open, stream, available_engines, missed, withdrawn>>
  <2>1. WorkInv'
    BY <1>0, <1>1, <1>9 DEF WorkInv
  <2>2. Watching' => Watching
    BY <1>1 DEF Watching
  <2> QED
    BY <1>1, <1>9, <2>1, <2>2, Aside
<1> QED
  BY <1>7, <1>8, <1>9 DEF NextEvent

LEMMA AccurateNext == AccurateInv /\ [Next]_vars => AccurateInv'
<1> SUFFICES ASSUME AccurateInv, [Next]_vars PROVE WorkInv' /\ EventInv' /\ TableInv'
  BY TypeNext DEF AccurateInv
<1>0. TypeOK /\ WorkInv /\ EventInv /\ TableInv
  BY DEF AccurateInv
<1> USE DEF cluster, query, tables, closing
<1>a. ASSUME UNCHANGED <<open, watcher, stream, event, model_names, available_engines>>, stop' => ~running'
      PROVE  WorkInv'
  BY <1>0, <1>a DEF WorkInv, Listed
<1>1. ASSUME NEW p \in Pods, PodChange(p) PROVE WorkInv' /\ EventInv' /\ TableInv'
  BY <1>1, PodChangeNext
<1>2. CASE CheckRunning
  <2>1. WorkInv'
    BY <1>0, <1>2 DEF CheckRunning, WorkInv
  <2> QED
    BY <1>2, <2>1, Aside DEF CheckRunning, Watching
<1>3. CASE Connect
  BY <1>3, ConnectNext
<1>4. CASE StreamEnd
  <2>1. WorkInv'
    BY <1>0, <1>4, Zenon DEF StreamEnd, WorkInv
  <2> QED
    BY <1>4, <2>1, Aside DEF StreamEnd, Watching
<1>5. CASE StreamBreak
  <2>1. /\ watcher = "stream" /\ watcher' = "top" /\ ~open' /\ stream' = <<>>
        /\ missed' = missed \cup {stream[i].name : i \in DOMAIN stream}
        /\ UNCHANGED <<pod, available_engines, running, stop>>
    BY <1>5, Zenon DEF StreamBreak
  <2>2. Len(stream') = 0 /\ DOMAIN stream = 1 .. Len(stream) /\ Listed' = Listed /\ Watching
    BY <1>0, <2>1, EmptySeq, LenProperties DEF TypeOK, Listed, Watching
  <2>3. WorkInv'
    BY <1>0, <2>1 DEF WorkInv
  <2>4. EventInv'
    BY <2>2 DEF EventInv
  <2>5. TableInv'
    BY <1>0, <2>1, <2>2 DEF TableInv, About
  <2> QED
    BY <2>3, <2>4, <2>5
<1>6. CASE NextEvent
  BY <1>6, NextEventNext
<1>7. CASE GetModelNames
  <2>1. /\ watcher = "models" /\ stream # <<>> /\ event = Head(stream) /\ event.ready /\ event.type # "DELETED"
        /\ event.name \in Pods /\ UNCHANGED <<pod, running, stop>>
    BY <1>0, <1>7, HeadEvent, EventFields DEF GetModelNames, WorkInv
  <2>2. CASE /\ model_names' = Serves[event.name] /\ watcher' = "sleep"
             /\ UNCHANGED <<open, stream, event, available_engines, missed, withdrawn>>
    <3>1. model_names' # {}
      BY <2>1, <2>2, K8sPodIPDiscoveryAssumption
    <3>2. WorkInv'
      BY <1>0, <2>1, <2>2, <3>1 DEF WorkInv
    <3>3. Watching' => Watching
      BY <2>1, <2>2 DEF Watching
    <3> QED
      BY <2>1, <2>2, <3>2, <3>3, Aside
  <2>3. CASE NotAdded(event, event.type) /\ missed' = missed \cup {event.name}
    <3>1. EndBody /\ Listed' \ {event.name} = Listed \ {event.name}
      BY <1>0, <2>1, <2>3 DEF NotAdded, delete_engine, Listed, TypeOK
    <3>2. watcher \in WatcherSteps \ {"top", "connect", "stopped"}
      BY <2>1 DEF WatcherSteps
    <3>3. missed' \ {event.name} = missed \ {event.name} /\ event.name \in missed'
      BY <2>3
    <3> QED
      BY <2>1, <3>1, <3>2, <3>3, EndBodyNext, Zenon
  <2> QED
    BY <1>7, <2>2, <2>3 DEF GetModelNames
<1>8. CASE GetSleepStatus
  <2>1. WorkInv'
    BY <1>0, <1>8 DEF GetSleepStatus, WorkInv
  <2> QED
    BY <1>8, <2>1, Aside DEF GetSleepStatus, Watching
<1>9. CASE InsertEngine
  <2> DEFINE p == event.name
  <2>1. /\ watcher = "insert" /\ watcher' = "submit" /\ model_names # {}
        /\ stream # <<>> /\ event = Head(stream) /\ event.ready /\ event.type # "DELETED"
        /\ UNCHANGED <<pod, open, stream, event, model_names, running, stop>>
        /\ missed' = missed \ {p}
    BY <1>0, <1>9 DEF InsertEngine, WorkInv
  <2>2. /\ event = stream[1] /\ 1 \in 1 .. Len(stream) /\ p \in Pods
        /\ Len(stream) \in Nat
    BY <1>0, <2>1, HeadEvent, EventFields
  <2>3. Listed' = Listed \cup {p}
    <3>1. [model_names |-> model_names, sleep |-> sleep_status] # NoInfo
      BY <2>1 DEF NoInfo
    <3> QED
      BY <1>0, <1>9, <2>2, <3>1 DEF InsertEngine, Listed, TypeOK
  <2>4. WorkInv'
    BY <1>0, <2>1, <2>3 DEF WorkInv
  <2>5. EventInv'
    BY <1>0, <2>1 DEF EventInv, Newest, About
  <2>6. TableInv'
    <3>1. \A q \in Pods : pod[q] = "absent" => q \notin Listed'
      BY <1>0, <2>2, <2>3 DEF TableInv, EventInv
    <3>2. Watching
      BY <2>1 DEF Watching
    <3>3. \A i \in 1 .. Len(stream) :
             stream[i].type = "ADDED" /\ ~stream[i].ready => stream[i].name # p
      <4> SUFFICES ASSUME NEW i \in 1 .. Len(stream), stream[i].type = "ADDED", ~stream[i].ready
                   PROVE  stream[i].name # p
        OBVIOUS
      <4>1. i # 1 /\ 1 < i
        BY <2>1, <2>2
      <4> QED
        BY <1>0, <2>2, <4>1 DEF EventInv, About
    <3>4. ~(\A i \in 1 .. Len(stream) : ~About(i, p))
      BY <2>2 DEF About
    <3> QED
      BY <1>0, <2>1, <2>3, <3>1, <3>2, <3>3, <3>4 DEF TableInv, About
  <2> QED
    BY <2>4, <2>5, <2>6
<1>10. CASE SubmitSessions \/ AwaitSessions
  <2>1. WorkInv'
    BY <1>0, <1>10 DEF SubmitSessions, AwaitSessions, WorkInv, Listed
  <2> QED
    BY <1>10, <2>1, Aside DEF SubmitSessions, AwaitSessions, Watching
<1>11. CASE UpdateKnown
  <2>1. /\ watcher = "known" /\ stream # <<>> /\ event = Head(stream) /\ event.ready
        /\ event.name \in Listed /\ event.name \in Pods /\ Listed' = Listed
        /\ EndBody /\ UNCHANGED <<pod, running, stop, missed>>
    BY <1>0, <1>11 DEF UpdateKnown, WorkInv, Listed
  <2>2. watcher \in WatcherSteps \ {"top", "connect", "stopped"}
    BY <2>1 DEF WatcherSteps
  <2> QED
    BY <2>1, <2>2, EndBodyNext
<1>12. CASE LoopStart \/ RunSessions \/ Joined \/ Answer \/ UNCHANGED vars
  <2>1. UNCHANGED <<pod, open, watcher, stream, event, model_names, available_engines, missed, running, stop>>
    BY <1>12 DEF LoopStart, RunSessions, Joined, Answer, vars
  <2> QED
    BY <1>0, <1>a, <2>1, Aside DEF Watching, WorkInv
<1>13. CASE Close
  <2>1. WorkInv'
    BY <1>a, <1>13, Zenon DEF Close
  <2>2. Watching' => Watching
    BY <1>13 DEF Close, Watching
  <2> QED
    BY <1>13, <2>1, <2>2, Aside DEF Close
<1>14. ASSUME NEW m \in Models, FindEndpoints(m) PROVE WorkInv' /\ EventInv' /\ TableInv'
  <2>1. UNCHANGED <<pod, open, watcher, stream, event, model_names, available_engines, missed, running, stop>>
    BY <1>14, Zenon DEF FindEndpoints
  <2> QED
    BY <1>0, <1>a, <2>1, Aside DEF Watching, WorkInv
<1> QED
  BY <1>1, <1>2, <1>3, <1>4, <1>5, <1>6, <1>7, <1>8, <1>9, <1>10, <1>11, <1>12, <1>13, <1>14, Zenon DEF Next, Watcher

LEMMA AccurateInvariance == Spec => []AccurateInv
<1>1. AccurateInv /\ [Next]_vars => AccurateInv'
  BY AccurateNext
<1> QED
  BY AccurateInit, <1>1, PTL DEF Spec

\* Every reachable state has the declared types.
THEOREM TypeCorrect == Spec => []TypeOK
<1>1. AccurateInv => TypeOK
  BY DEF AccurateInv
<1> QED
  BY <1>1, AccurateInvariance, PTL

\* For any number of pods, however they come and go while the watcher works
\* on earlier events: when it has read what it was sent, available_engines
\* lists exactly the pods that are ready, apart from those it could not follow.
THEOREM Accuracy == Spec => []QuietAccurate
<1>1. AccurateInv => QuietAccurate
  <2> SUFFICES ASSUME AccurateInv, watcher = "stream", stream = <<>>
               PROVE  \A p \in Pods \ missed : p \in Listed <=> pod[p] = "ready"
    BY DEF QuietAccurate
  <2>1. Watching /\ 1 .. Len(stream) = {}
    BY EmptySeq DEF Watching
  <2>2. ASSUME NEW p \in Pods \ missed PROVE p \in Listed <=> pod[p] = "ready"
    <3>1. \A i \in 1 .. Len(stream) : ~About(i, p)
      BY <2>1, Zenon
    <3> QED
      BY <2>1, <3>1, Zenon DEF AccurateInv, TableInv
  <2> QED
    BY <2>2
<1> QED
  BY <1>1, AccurateInvariance, PTL
-----------------------------------------------------------------------------
(* close().                                                                  *)

\* A thread that waits for the event loop while the event loop is in join()
\* waits for ever: fut.result() has no timeout, and what would complete the
\* future runs on the loop.
THEOREM HangForever == Spec => HangIsFinal
<1>1. [Next]_vars => [Hung => Hung']_vars
  <2> SUFFICES ASSUME Next, Hung PROVE Hung'
    OBVIOUS
  <2>1. loop = "joining" /\ watcher = "await" /\ future = "pending"
    BY DEF Hung
  <2>2. UNCHANGED <<loop, watcher, future>>
    BY <2>1, Zenon DEF Next, PodChange, Watcher, CheckRunning, Connect, NextEvent, GetModelNames, GetSleepStatus,
                InsertEngine, SubmitSessions, AwaitSessions, UpdateKnown, StreamEnd, StreamBreak, LoopStart,
                RunSessions, Close, Joined, FindEndpoints, Answer
  <2> QED
    BY <2>1, <2>2 DEF Hung
<1> QED
  BY <1>1, PTL DEF Spec, HangIsFinal

\* close() has told the thread to end, and returns after it has.
CloseInv == (loop \in {"joining", "exited"} => ~running) /\ (loop = "exited" => watcher = "stopped")

\* No step leaves "stopped", or takes back what close() has set.
LEMMA CloseInvNext == CloseInv /\ [Next]_vars => CloseInv'
<1> SUFFICES ASSUME CloseInv, [Next]_vars PROVE CloseInv'
  OBVIOUS
<1>1. CASE UNCHANGED <<loop, watcher, running>>
  BY <1>1 DEF CloseInv
<1>2. CASE Watcher \/ StreamEnd \/ StreamBreak
  <2>1. UNCHANGED <<loop, running>> /\ watcher # "stopped"
    BY <1>2, Zenon DEF Watcher, StreamEnd, StreamBreak, CheckRunning, Connect, NextEvent, GetModelNames, GetSleepStatus,
                InsertEngine, SubmitSessions, AwaitSessions, UpdateKnown, closing
  <2> QED
    BY <2>1 DEF CloseInv
<1>3. CASE Close
  <2>1. ~running' /\ loop' = "joining"
    BY <1>3, Zenon DEF Close
  <2> QED
    BY <2>1 DEF CloseInv
<1>4. CASE Joined
  <2>1. loop = "joining" /\ watcher' = "stopped" /\ running' = running
    BY <1>4 DEF Joined, closing
  <2> QED
    BY <2>1 DEF CloseInv
<1>5. CASE LoopStart
  <2>1. loop' = "running"
    BY <1>5 DEF LoopStart
  <2> QED
    BY <2>1 DEF CloseInv
<1>6. CASE RunSessions \/ Answer
  BY <1>1, <1>6 DEF RunSessions, Answer, closing
<1>7. CASE (\E p \in Pods : PodChange(p)) \/ (\E m \in Models : FindEndpoints(m))
  BY <1>1, <1>7, Zenon DEF PodChange, FindEndpoints, closing
<1> QED
  BY <1>1, <1>2, <1>3, <1>4, <1>5, <1>6, <1>7, Zenon DEF Next, vars, closing

LEMMA CloseInvariance == Spec => []CloseInv
<1>1. Init => CloseInv
  BY DEF Init, CloseInv
<1> QED
  BY <1>1, CloseInvNext, PTL DEF Spec

\* Nothing is listed or taken off the list after close() has returned, also
\* when it was called in the middle of an event.
THEOREM StaysClosed == Spec => ClosedForGood
<1>1. CloseInv /\ [Next]_vars => [loop = "exited" => UNCHANGED tables]_vars
  <2> SUFFICES ASSUME CloseInv, Next, loop = "exited" PROVE UNCHANGED tables
    OBVIOUS
  <2>1. watcher = "stopped"
    BY DEF CloseInv
  <2> QED
    BY <2>1, Zenon DEF Next, PodChange, Watcher, CheckRunning, Connect, NextEvent, GetModelNames, GetSleepStatus,
                InsertEngine, SubmitSessions, AwaitSessions, UpdateKnown, StreamEnd, StreamBreak, LoopStart,
                RunSessions, Close, Joined, FindEndpoints, Answer
<1> QED
  BY <1>1, CloseInvariance, PTL DEF Spec, ClosedForGood

\* What the thread has ahead of it, as numbers.
LEMMA AheadFacts ==
    ASSUME TypeOK
    PROVE  /\ Len(stream) \in Nat /\ MaxChanges \in Nat /\ changes \in 0 .. MaxChanges
           /\ Cardinality(Pods) \in Nat
           /\ Ahead(Len(stream)) \in Nat /\ Ahead(Len(stream)) >= 7 * Len(stream)
           /\ Ahead(Cardinality(Pods)) \in Nat
<1>1. /\ Len(stream) \in Nat /\ MaxChanges \in Nat /\ changes \in 0 .. MaxChanges
      /\ Cardinality(Pods) \in Nat
  BY LenProperties, FS_CardinalityType, K8sPodIPDiscoveryAssumption DEF TypeOK
<1>2. \A n \in Nat : 7 * (n + MaxChanges - changes) \in Nat /\ 7 * (n + MaxChanges - changes) >= 7 * n
  BY <1>1
<1> QED
  BY <1>1, <1>2 DEF Ahead

\* What is left of its work when it is in a given state.
LEMMA StepsAt ==
    /\ watcher = "stopped" => StepsLeft = 0
    /\ watcher = "top" => StepsLeft = 1
    /\ watcher = "known" => StepsLeft = Ahead(Len(stream)) - 4
    /\ watcher = "await" => StepsLeft = Ahead(Len(stream)) - 3
    /\ watcher = "submit" => StepsLeft = Ahead(Len(stream)) - 2
    /\ watcher = "insert" => StepsLeft = Ahead(Len(stream)) - 1
    /\ watcher = "sleep" => StepsLeft = Ahead(Len(stream))
    /\ watcher = "models" => StepsLeft = Ahead(Len(stream)) + 1
    /\ watcher = "stream" => StepsLeft = Ahead(Len(stream)) + 2
    /\ watcher = "connect" => StepsLeft = Ahead(Cardinality(Pods)) + 3
BY DEF StepsLeft

\* It is a number, and not below zero: an event that is worked on is unread.
LEMMA StepsType == AccurateInv => StepsLeft \in Nat
<1> SUFFICES ASSUME AccurateInv PROVE StepsLeft \in Nat
  OBVIOUS
<1>1. Ahead(Len(stream)) \in Nat /\ Ahead(Cardinality(Pods)) \in Nat /\ watcher \in WatcherSteps
  BY AheadFacts DEF AccurateInv, TypeOK
<1>2. watcher \in {"insert", "submit", "await", "known"} => Len(stream) > 0
  BY HeadEvent DEF AccurateInv, WorkInv
<1>3. watcher \in {"insert", "submit", "await", "known"} => Ahead(Len(stream)) >= 7
  BY <1>1, <1>2, AheadFacts DEF AccurateInv
<1> QED
  BY <1>1, <1>3, StepsAt DEF WatcherSteps

\* So it is after a step.
LEMMA StepsTypeNext == AccurateInv' => (StepsLeft \in Nat)'
BY StepsType, PTL

\* The watcher is done with an event: what is left is less than any state has
\* left in which it works on one.
LEMMA EndBodySteps ==
    ASSUME TypeOK, stream # <<>>, EndBody, UNCHANGED changes
    PROVE  StepsLeft' \in Int /\ StepsLeft' < Ahead(Len(stream)) - 4
<1>1. /\ Len(stream) \in Nat /\ Len(stream) > 0 /\ Len(Tail(stream)) = Len(stream) - 1
      /\ MaxChanges \in Nat /\ changes \in 0 .. MaxChanges
  BY HeadEvent, AheadFacts
<1>2. CASE stop
  <2>1. StepsLeft' = 1
    BY <1>2 DEF EndBody, StepsLeft
  <2> QED
    BY <1>1, <2>1 DEF Ahead
<1>3. CASE ~stop
  <2>1. watcher' = "stream" /\ Len(stream') = Len(stream) - 1
    BY <1>1, <1>3 DEF EndBody
  <2>2. StepsLeft' = 7 * (Len(stream) - 1 + MaxChanges - changes) + 2
    BY <2>1 DEF StepsLeft, Ahead
  <2> QED
    BY <1>1, <2>2 DEF Ahead
<1> QED
  BY <1>2, <1>3

\* Each step of the thread brings it nearer its end, once it may not go on.
LEMMA ThreadDescends ==
    ASSUME AccurateInv, ~running, Watcher \/ StreamEnd \/ StreamBreak
    PROVE  StepsLeft' < StepsLeft
<1>0. TypeOK /\ WorkInv
  BY DEF AccurateInv
<1>1. /\ Len(stream) \in Nat /\ MaxChanges \in Nat /\ changes \in 0 .. MaxChanges
      /\ Cardinality(Pods) \in Nat
      /\ Ahead(Len(stream)) \in Nat /\ Ahead(Len(stream)) >= 7 * Len(stream)
  BY <1>0, AheadFacts
<1>2. UNCHANGED changes
  BY Zenon DEF Watcher, StreamEnd, StreamBreak, CheckRunning, Connect, NextEvent, GetModelNames, GetSleepStatus,
         InsertEngine, SubmitSessions, AwaitSessions, UpdateKnown, cluster
<1>3. watcher \in {"models", "sleep", "insert", "submit", "await", "known"} => stream # <<>>
  BY <1>0 DEF WorkInv
<1>4. CASE CheckRunning
  <2>1. StepsLeft = 1 /\ StepsLeft' = 0
    BY <1>4 DEF CheckRunning, StepsLeft
  <2> QED
    BY <2>1
<1>5. CASE Connect
  <2>1. watcher = "connect" /\ watcher' = "stream" /\ stream' = Relist
    BY <1>5 DEF Connect
  <2>2. Len(stream') \in Nat /\ Len(stream') <= Cardinality(Pods)
    BY <1>0, <2>1, RelistFacts, LenProperties
  <2>3. StepsLeft' = 7 * (Len(stream') + MaxChanges - changes) + 2
    BY <1>2, <2>1 DEF StepsLeft, Ahead
  <2>4. StepsLeft = 7 * (Cardinality(Pods) + MaxChanges - changes) + 3
    BY <2>1, StepsAt DEF Ahead
  <2> QED
    BY <1>1, <2>2, <2>3, <2>4
<1>6. CASE StreamEnd \/ StreamBreak
  <2>1. StepsLeft = Ahead(Len(stream)) + 2 /\ StepsLeft' = 1
    BY <1>6 DEF StreamEnd, StreamBreak, StepsLeft
  <2> QED
    BY <1>1, <2>1
\* A step that stays with the event, and one that ends its work on it.
<1>a. ASSUME EndBody, stream # <<>>, NEW d \in {-4, 1, 2}, StepsLeft = Ahead(Len(stream)) + d
      PROVE  StepsLeft' < StepsLeft
  <2>1. StepsLeft' \in Int /\ StepsLeft' < Ahead(Len(stream)) - 4
    BY <1>0, <1>2, <1>a, EndBodySteps
  <2> QED
    BY <1>1, <1>a, <2>1
<1>b. ASSUME stream' = stream PROVE Ahead(Len(stream))' = Ahead(Len(stream))
  BY <1>2, <1>b DEF Ahead
<1>7. CASE NextEvent
  <2>1. watcher = "stream" /\ stream # <<>> /\ (EndBody \/ (watcher' = "models" /\ stream' = stream))
    BY <1>7 DEF NextEvent, NotAdded
  <2>2. StepsLeft = Ahead(Len(stream)) + 2
    BY <2>1, StepsAt
  <2>3. CASE EndBody
    BY <1>a, <2>1, <2>2, <2>3
  <2>4. CASE watcher' = "models" /\ stream' = stream
    <3>1. StepsLeft' = Ahead(Len(stream)) + 1
      BY <1>b, <2>4 DEF StepsLeft
    <3> QED
      BY <1>1, <2>2, <3>1
  <2> QED
    BY <2>1, <2>3, <2>4
<1>8. CASE GetModelNames
  <2>1. watcher = "models" /\ (EndBody \/ (watcher' = "sleep" /\ stream' = stream))
    BY <1>8 DEF GetModelNames, NotAdded
  <2>2. StepsLeft = Ahead(Len(stream)) + 1
    BY <2>1, StepsAt
  <2>3. CASE EndBody
    BY <1>3, <1>a, <2>1, <2>2, <2>3
  <2>4. CASE watcher' = "sleep" /\ stream' = stream
    <3>1. StepsLeft' = Ahead(Len(stream))
      BY <1>b, <2>4 DEF StepsLeft
    <3> QED
      BY <1>1, <2>2, <3>1
  <2> QED
    BY <2>1, <2>3, <2>4
<1>9. CASE GetSleepStatus \/ InsertEngine
  <2>1. /\ stream' = stream
        /\ \/ watcher = "sleep" /\ watcher' = "insert"
           \/ watcher = "insert" /\ watcher' = "submit"
    BY <1>9 DEF GetSleepStatus, InsertEngine
  <2>2. \/ StepsLeft = Ahead(Len(stream)) /\ StepsLeft' = Ahead(Len(stream)) - 1
        \/ StepsLeft = Ahead(Len(stream)) - 1 /\ StepsLeft' = Ahead(Len(stream)) - 2
    BY <1>b, <2>1 DEF StepsLeft
  <2> QED
    BY <1>1, <2>2
<1>10. CASE SubmitSessions
  <2>1. watcher = "submit" /\ watcher' \in {"known", "await"} /\ stream' = stream
    BY <1>10 DEF SubmitSessions
  <2>2. StepsLeft = Ahead(Len(stream)) - 2 /\ StepsLeft' \in {Ahead(Len(stream)) - 4, Ahead(Len(stream)) - 3}
    BY <1>b, <2>1 DEF StepsLeft
  <2> QED
    BY <1>1, <2>2
<1>11. CASE AwaitSessions
  <2>1. watcher = "await" /\ watcher' = "known" /\ stream' = stream
    BY <1>11 DEF AwaitSessions
  <2>2. StepsLeft = Ahead(Len(stream)) - 3 /\ StepsLeft' = Ahead(Len(stream)) - 4
    BY <1>b, <2>1 DEF StepsLeft
  <2> QED
    BY <1>1, <2>2
<1>12. CASE UpdateKnown
  <2>1. watcher = "known" /\ EndBody
    BY <1>12 DEF UpdateKnown
  <2>2. StepsLeft = Ahead(Len(stream)) + (-4)
    BY <1>1, <2>1, StepsAt
  <2> QED
    BY <1>3, <1>a, <2>1, <2>2
<1> QED
  BY <1>4, <1>5, <1>6, <1>7, <1>8, <1>9, <1>10, <1>11, <1>12 DEF Watcher

\* The cluster does not keep the thread busy: an event it sends is one that
\* it will not send later.
LEMMA ClusterNoDelay ==
    ASSUME AccurateInv, NEW p \in Pods, PodChange(p)
    PROVE  StepsLeft' <= StepsLeft
<1>0. TypeOK
  BY DEF AccurateInv
<1>1. /\ Len(stream) \in Nat /\ MaxChanges \in Nat /\ changes \in 0 .. MaxChanges
      /\ Cardinality(Pods) \in Nat
  BY <1>0, AheadFacts
<1>2. watcher' = watcher /\ changes' = changes + 1
  BY DEF PodChange
<1>3. Len(stream') \in Nat /\ Len(stream') <= Len(stream) + 1
  <2>1. PICK s \in PodStates :
           /\ <<pod[p], s>> \in PodSteps
           /\ stream' = IF open THEN Append(stream, Event(EventType(s), p, s)) ELSE stream
    BY DEF PodChange
  <2>2. Event(EventType(s), p, s) \in Events
    BY EventIsEvent DEF EventType
  <2>3. /\ Len(Append(stream, Event(EventType(s), p, s))) = Len(stream) + 1
    BY <1>0, <2>2, AppendProperties DEF TypeOK
  <2> QED
    BY <1>1, <2>1, <2>3
<1>4. watcher \in WatcherSteps
  BY <1>0 DEF TypeOK
<1> DEFINE all == Cardinality(Pods)
           before == Ahead(Len(stream))
           after == Ahead(Len(stream))'
           allBefore == Ahead(all)
           allAfter == Ahead(all)'
<1>5. /\ before \in Int /\ after \in Int /\ after <= before
      /\ allBefore \in Int /\ allAfter \in Int /\ allAfter <= allBefore
  <2>1. before = 7 * (Len(stream) + MaxChanges - changes) /\ after = 7 * (Len(stream') + MaxChanges - changes')
    BY DEF Ahead
  <2>2. allBefore = 7 * (all + MaxChanges - changes) /\ allAfter = 7 * (all + MaxChanges - changes')
    BY DEF Ahead
  <2> HIDE DEF before, after, allBefore, allAfter
  <2>3. \A a, b \in Int : a <= b => 7 * a <= 7 * b /\ 7 * a \in Int /\ 7 * b \in Int
    OBVIOUS
  <2>4. /\ Len(stream) + MaxChanges - changes \in Int /\ Len(stream') + MaxChanges - changes' \in Int
        /\ Len(stream') + MaxChanges - changes' <= Len(stream) + MaxChanges - changes
        /\ all + MaxChanges - changes \in Int /\ all + MaxChanges - changes' \in Int
        /\ all + MaxChanges - changes' <= all + MaxChanges - changes
    BY <1>1, <1>2, <1>3
  <2> QED
    BY <2>1, <2>2, <2>3, <2>4
<1>6. /\ watcher \in {"top", "stopped"} => StepsLeft' = StepsLeft /\ StepsLeft \in {0, 1}
      /\ watcher = "connect" => StepsLeft' = allAfter + 3 /\ StepsLeft = allBefore + 3
      /\ watcher = "stream" => StepsLeft' = after + 2 /\ StepsLeft = before + 2
      /\ watcher = "models" => StepsLeft' = after + 1 /\ StepsLeft = before + 1
      /\ watcher = "sleep" => StepsLeft' = after /\ StepsLeft = before
      /\ watcher = "insert" => StepsLeft' = after - 1 /\ StepsLeft = before - 1
      /\ watcher = "submit" => StepsLeft' = after - 2 /\ StepsLeft = before - 2
      /\ watcher = "await" => StepsLeft' = after - 3 /\ StepsLeft = before - 3
      /\ watcher = "known" => StepsLeft' = after - 4 /\ StepsLeft = before - 4
  BY <1>2 DEF StepsLeft
<1> HIDE DEF before, after, allBefore, allAfter
<1> QED
  BY <1>4, <1>5, <1>6 DEF WatcherSteps

\* Once close() joins the thread, each step of the thread brings its end
\* nearer and no other step puts it off, up to the wait for the event loop:
\* the bounded form of CloseHangsOnlyOnFuture.
THEOREM CloseDescends == Spec => CloseBounded
<1> DEFINE Descends == loop = "joining" => /\ StepsLeft' \in Nat /\ StepsLeft' <= StepsLeft
                                           /\ Watcher \/ StreamEnd \/ StreamBreak => StepsLeft' < StepsLeft
<1>1. AccurateInv /\ AccurateInv' /\ CloseInv /\ [Next]_vars => [Descends]_vars
  <2> SUFFICES ASSUME AccurateInv, AccurateInv', CloseInv, Next, loop = "joining"
               PROVE  /\ StepsLeft' \in Nat /\ StepsLeft' <= StepsLeft
                      /\ Watcher \/ StreamEnd \/ StreamBreak => StepsLeft' < StepsLeft
    OBVIOUS
  <2>1. ~running
    BY DEF CloseInv
  <2>2. StepsLeft \in Nat /\ StepsLeft' \in Nat
    BY StepsType, StepsTypeNext
  <2>3. Watcher \/ StreamEnd \/ StreamBreak => StepsLeft' < StepsLeft
    BY <2>1, ThreadDescends
  <2>4. CASE Watcher \/ StreamEnd \/ StreamBreak
    BY <2>2, <2>3, <2>4
  <2>5. CASE \/ LoopStart \/ RunSessions \/ Close \/ Joined \/ Answer
             \/ \E m \in Models : FindEndpoints(m)
    <3>1. UNCHANGED <<watcher, stream, changes>>
      BY <2>5 DEF LoopStart, RunSessions, Close, Joined, Answer, FindEndpoints, cluster
    <3>2. StepsLeft' = StepsLeft
      BY <3>1, Zenon DEF StepsLeft, Ahead
    <3> QED
      BY <2>2, <2>3, <3>2
  <2>6. ASSUME NEW p \in Pods, PodChange(p) PROVE StepsLeft' <= StepsLeft
    BY <2>6, ClusterNoDelay
  <2> QED
    BY <2>2, <2>3, <2>4, <2>5, <2>6 DEF Next
<1> QED
  BY <1>1, AccurateInvariance, CloseInvariance, PTL DEF Spec, CloseBounded
=============================================================================
