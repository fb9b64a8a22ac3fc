------------------- MODULE K8sServiceNameDiscovery_proofs -------------------
(***************************************************************************)
(* Proofs about the discovery of engines behind Kubernetes services.        *)
(*                                                                          *)
(* - QuietExists: what the watcher lists exists, is known to be missed, or  *)
(*   its deletion is unread (StreamInv).                                    *)
(* - ClosedForGood, CloseBounded: once close() has cleared running, every   *)
(*   step of the watcher thread takes it nearer to its end.                 *)
(***************************************************************************)
EXTENDS K8sServiceNameDiscovery, SequenceTheorems, FiniteSetTheorems, TLAPS

Unread == [type : {"ADDED", "MODIFIED", "DELETED"}, name : Services]

\* The event that is worked on is the first of the stream.
WorkInv ==
    /\ open <=> watcher \notin {"top", "connect", "stopped"}
    /\ stop => ~running
    /\ watcher \in {"models", "status", "insert"} =>
          stream # <<>> /\ event = Head(stream) /\ event.type # "DELETED"

\* A deletion of s is unread beyond the first i events.
Deleted(i, s) == \E j \in 1 .. Len(stream) : j > i /\ stream[j].type = "DELETED" /\ stream[j].name = s

\* A Service whose deletion the watcher will not read is gone, and nothing is
\* unread about it.
MissedInv == \A s \in missed : s \notin exists /\ \A i \in 1 .. Len(stream) : stream[i].name # s

\* An event is about a Service that exists, or its deletion follows.
EventInv ==
    \A i \in 1 .. Len(stream) :
        stream[i].type # "DELETED" => stream[i].name \in exists \/ Deleted(i, stream[i].name)

\* So does what is listed, until the watcher is about to stop.
Watching == running \/ watcher \notin {"top", "stopped"}
ListedInv == Watching => \A s \in Listed : s \in exists \cup missed \/ Deleted(0, s)

StreamInv == MissedInv /\ EventInv /\ ListedInv
Inv == TypeOK /\ WorkInv /\ StreamInv

\* The listing with which a watch begins.
LEMMA RelistFacts ==
    ASSUME TypeOK
    PROVE  /\ Relist \in Seq(Unread)
           /\ \A i \in 1 .. Len(Relist) : Relist[i].name \in exists
           /\ Len(Relist) = Cardinality(exists)
<1> DEFINE all == SetToSeq(exists)
           n == Cardinality(exists)
<1>1. IsFiniteSet(exists)
  BY FS_Subset, K8sServiceNameDiscoveryAssumption DEF TypeOK
<1>2. n \in Nat /\ ExistsBijection(1 .. n, exists)
  BY <1>1, FS_CardinalityType
<1>3. \E f \in [1 .. n -> exists] : IsInjective(f)
  BY <1>2 DEF ExistsBijection, Bijection, Injection
<1>4. all \in [1 .. n -> exists]
  BY <1>3 DEF SetToSeq
<1> HIDE DEF all, n
<1>5. Relist = [i \in 1 .. n |-> Event("ADDED", all[i])]
  BY <1>4 DEF Relist, all
<1>6. \A i \in 1 .. n : all[i] \in exists /\ all[i] \in Services
  BY <1>4 DEF TypeOK
<1>7. Relist \in Seq(Unread) /\ Len(Relist) = n
  BY <1>2, <1>5, <1>6 DEF Event, Unread
<1>8. \A i \in 1 .. n : Relist[i].name = all[i]
  BY <1>5 DEF Event
<1> QED
  BY <1>6, <1>7, <1>8 DEF n

\* The event that is read, and what is left of the stream.
LEMMA HeadEvent ==
    ASSUME TypeOK, stream # <<>>
    PROVE  /\ Len(stream) \in Nat /\ Len(stream) > 0 /\ Head(stream) = stream[1]
           /\ Head(stream) \in Unread /\ Head(stream).name \in Services
           /\ Head(stream).type \in {"ADDED", "MODIFIED", "DELETED"}
           /\ Tail(stream) \in Seq(Unread) /\ Len(Tail(stream)) = Len(stream) - 1
           /\ \A i \in 1 .. Len(Tail(stream)) : Tail(stream)[i] = stream[i + 1]
<1>1. stream \in Seq(Unread)
  BY DEF TypeOK, Unread
<1>2. Head(stream) \in Unread
  BY <1>1, HeadTailProperties
<1> QED
  BY <1>1, <1>2, HeadTailProperties DEF Unread

\* A step that leaves the cluster, the stream and the table alone.
LEMMA Aside ==
    ASSUME StreamInv, UNCHANGED <<exists, stream, available_engines, missed>>, Watching' => Watching
    PROVE  StreamInv'
<1>1. MissedInv' /\ EventInv'
  BY DEF StreamInv, MissedInv, EventInv, Deleted
<1>2. ListedInv'
  BY DEF StreamInv, ListedInv, Listed, Deleted
<1> QED
  BY <1>1, <1>2 DEF StreamInv

\* The watcher is done with the first event of the stream.
LEMMA EndBodyNext ==
    ASSUME Inv, watcher \in {"stream", "models", "insert"}, stream # <<>>, EndBody,
           UNCHANGED <<exists, running, stop>>, missed' = missed \/ missed' = missed \ {Head(stream).name},
           \A s \in Listed' : s \in exists \cup missed \/ Deleted(1, s)
    PROVE  WorkInv' /\ StreamInv'
<1>0. TypeOK /\ WorkInv /\ StreamInv
  BY DEF Inv
<1>1. /\ Len(stream) \in Nat /\ Len(stream) > 0 /\ Head(stream) = stream[1]
      /\ Len(Tail(stream)) = Len(stream) - 1
      /\ \A i \in 1 .. Len(Tail(stream)) : Tail(stream)[i] = stream[i + 1]
  BY <1>0, HeadEvent
<1>2. missed' = missed
  <2>1. 1 \in 1 .. Len(stream)
    BY <1>1
  <2>2. Head(stream).name \notin missed
    BY <1>0, <1>1, <2>1 DEF StreamInv, MissedInv
  <2> QED
    BY <2>2
<1>3. CASE stop
  <2>1. watcher' = "top" /\ stream' = <<>> /\ ~running' /\ stop' /\ Len(stream') = 0
    BY <1>0, <1>3, EmptySeq DEF EndBody, WorkInv
  <2>2. ~open'
    BY <1>3, Zenon DEF EndBody
  <2>3. WorkInv'
    BY <2>1, <2>2 DEF WorkInv
  <2>4. MissedInv' /\ EventInv' /\ ListedInv'
    BY <1>0, <1>2, <2>1 DEF MissedInv, EventInv, ListedInv, Watching, StreamInv
  <2> QED
    BY <2>3, <2>4 DEF StreamInv
<1>4. CASE ~stop
  <2>1. watcher' = "stream" /\ stream' = Tail(stream) /\ ~stop'
    BY <1>4 DEF EndBody
  <2>2. open'
    BY <1>4, Zenon DEF EndBody
  <2>3. WorkInv'
    BY <2>1, <2>2 DEF WorkInv
  <2>4. Len(stream') = Len(stream) - 1 /\ \A i \in 1 .. Len(stream') : stream'[i] = stream[i + 1]
    BY <1>1, <2>1
  <2>5. ASSUME NEW i \in Nat, NEW s, Deleted(i + 1, s) PROVE Deleted(i, s)'
    <3>1. PICK j \in 1 .. Len(stream) : j > i + 1 /\ stream[j].type = "DELETED" /\ stream[j].name = s
      BY <2>5 DEF Deleted
    <3>2. j - 1 \in 1 .. Len(stream') /\ j - 1 > i /\ stream'[j - 1] = stream[j]
      BY <1>1, <2>4, <3>1
    <3> QED
      BY <3>1, <3>2 DEF Deleted
  <2>6. MissedInv'
    BY <1>0, <1>1, <1>2, <2>4 DEF StreamInv, MissedInv
  <2>7. EventInv'
    <3> SUFFICES ASSUME NEW i \in 1 .. Len(stream'), stream'[i].type # "DELETED"
                 PROVE  (stream[i].name \in exists \/ Deleted(i, stream[i].name))'
      BY DEF EventInv
    <3>1. i \in Nat /\ i + 1 \in 1 .. Len(stream) /\ stream'[i] = stream[i + 1]
      BY <1>1, <2>4
    <3>2. stream[i + 1].name \in exists \/ Deleted(i + 1, stream[i + 1].name)
      BY <1>0, <3>1 DEF StreamInv, EventInv
    <3>3. CASE stream[i + 1].name \in exists
      BY <3>1, <3>3
    <3>4. CASE Deleted(i + 1, stream[i + 1].name)
      <4>1. \A s : Deleted(i + 1, s) => Deleted(i, s)'
        BY <2>5, <3>1
      <4>2. \A s : s = stream[i + 1].name => Deleted(i, s)'
        BY <3>4, <4>1
      <4> QED
        BY <3>1, <4>2 DEF Deleted
    <3> QED
      BY <3>2, <3>3, <3>4
  <2>8. ListedInv'
    <3>1. \A s : Deleted(1, s) => Deleted(0, s)'
      BY <2>5
    <3> QED
      BY <1>2, <3>1 DEF ListedInv
  <2> QED
    BY <2>3, <2>6, <2>7, <2>8 DEF StreamInv
<1> QED
  BY <1>3, <1>4

\* An event is sent to the watcher, if there is a watch.
LEMMA SendFacts ==
    ASSUME TypeOK, NEW t \in {"ADDED", "MODIFIED", "DELETED"}, NEW s \in Services, Send(t, s)
    PROVE  /\ stream' \in Seq(Unread)
           /\ Len(stream) \in Nat /\ Len(stream') \in Nat /\ Len(stream') >= Len(stream)
           /\ \A i \in 1 .. Len(stream) : stream'[i] = stream[i]
           /\ \A i \in 1 .. Len(stream') : i > Len(stream) => stream'[i].type = t /\ stream'[i].name = s
           /\ open => Len(stream') = Len(stream) + 1
           /\ ~open => stream' = stream /\ Len(stream') = 0
<1>1. stream \in Seq(Unread) /\ Event(t, s) \in Unread /\ Len(stream) \in Nat
  BY LenProperties DEF TypeOK, Unread, Event
<1>2. CASE open
  <2>1. stream' = Append(stream, Event(t, s))
    BY <1>2 DEF Send
  <2>2. Event(t, s).type = t /\ Event(t, s).name = s
    BY DEF Event
  <2> QED
    BY <1>1, <1>2, <2>1, <2>2, AppendProperties
<1>3. CASE ~open
  <2>1. stream' = stream /\ stream = <<>> /\ Len(stream) = 0
    BY <1>3, EmptySeq DEF Send, TypeOK
  <2> QED
    BY <1>1, <1>3, <2>1
<1> QED
  BY <1>2, <1>3

\* The cluster changes.  A deletion that is sent follows all that was unread.
LEMMA ChangeNext ==
    ASSUME Inv, NEW s \in Services, Make(s) \/ Modify(s) \/ Delete(s)
    PROVE  StreamInv'
<1>0. TypeOK /\ MissedInv /\ EventInv /\ ListedInv
  BY DEF Inv, StreamInv
<1>1. PICK t \in {"ADDED", "MODIFIED", "DELETED"} :
         /\ Send(t, s)
         /\ t = "ADDED" <=> Make(s)
         /\ t = "MODIFIED" <=> Modify(s)
         /\ t = "DELETED" <=> Delete(s)
  <2>1. CASE Make(s)
    <3>1. Send("ADDED", s) /\ ~Modify(s) /\ ~Delete(s)
      BY <2>1, Zenon DEF Make, Modify, Delete
    <3> QED
      BY <2>1, <3>1
  <2>2. CASE Modify(s)
    <3>1. Send("MODIFIED", s) /\ ~Make(s) /\ ~Delete(s)
      BY <2>2, Zenon DEF Make, Modify, Delete, cluster
    <3> QED
      BY <2>2, <3>1
  <2>3. CASE Delete(s)
    <3>1. Send("DELETED", s) /\ ~Make(s) /\ ~Modify(s)
      BY <2>3, Zenon DEF Make, Modify, Delete, cluster
    <3> QED
      BY <2>3, <3>1
  <2> QED
    BY <2>1, <2>2, <2>3
<1>2. /\ Len(stream) \in Nat /\ Len(stream') \in Nat /\ Len(stream') >= Len(stream)
      /\ \A i \in 1 .. Len(stream) : stream'[i] = stream[i]
      /\ \A i \in 1 .. Len(stream') : i > Len(stream) => stream'[i].type = t /\ stream'[i].name = s
      /\ open => Len(stream') = Len(stream) + 1
      /\ ~open => stream' = stream /\ Len(stream') = 0
  BY <1>0, <1>1, SendFacts
<1>3. \A i, x : Deleted(i, x) => Deleted(i, x)'
  BY <1>2 DEF Deleted
<1>4. /\ UNCHANGED <<available_engines, watcher, running>>
      /\ t = "ADDED" => exists' = exists \cup {s} /\ missed' = missed \ {s}
      /\ t = "MODIFIED" => s \in exists /\ exists' = exists /\ missed' = missed
      /\ t = "DELETED" => /\ s \in exists /\ exists' = exists \ {s}
                          /\ missed' = IF open THEN missed ELSE missed \cup {s}
  BY <1>1 DEF Make, Modify, Delete, cluster, closing
<1>5. Listed' = Listed /\ (Watching' <=> Watching)
  BY <1>4 DEF Listed, Watching
<1>6. MissedInv'
  <2> SUFFICES ASSUME NEW x \in missed'
               PROVE  x \notin exists' /\ \A i \in 1 .. Len(stream') : stream'[i].name # x
    BY DEF MissedInv
  <2>1. CASE x \in missed /\ x # s
    <3>1. x \notin exists' /\ \A i \in 1 .. Len(stream) : stream'[i].name # x
      BY <1>0, <1>2, <1>4, <2>1 DEF MissedInv
    <3>2. \A i \in 1 .. Len(stream') : i \in 1 .. Len(stream) \/ i > Len(stream)
      BY <1>2
    <3> QED
      BY <1>2, <2>1, <3>1, <3>2
  <2>2. CASE x \notin missed
    BY <1>2, <1>4, <2>2
  <2>3. CASE x = s /\ x \in missed
    BY <1>0, <1>4, <2>3 DEF MissedInv
  <2> QED
    BY <2>1, <2>2, <2>3
<1>7. open /\ t = "DELETED" => \A i \in 1 .. Len(stream) : Deleted(i, s)'
  <2> SUFFICES ASSUME open, t = "DELETED", NEW i \in 1 .. Len(stream) PROVE Deleted(i, s)'
    OBVIOUS
  <2>1. Len(stream) + 1 \in 1 .. Len(stream') /\ Len(stream) + 1 > i /\ Len(stream) + 1 > Len(stream)
    BY <1>2
  <2> QED
    BY <1>2, <2>1 DEF Deleted
<1>8. EventInv'
  <2> SUFFICES ASSUME NEW i \in 1 .. Len(stream'), stream'[i].type # "DELETED"
               PROVE  (stream[i].name \in exists \/ Deleted(i, stream[i].name))'
    BY DEF EventInv
  <2>1. CASE i > Len(stream)
    BY <1>2, <1>4, <2>1
  <2>2. CASE i \in 1 .. Len(stream)
    <3>1. stream'[i] = stream[i] /\ open
      BY <1>2, <2>2
    <3>2. stream[i].name \in exists \/ Deleted(i, stream[i].name)
      BY <1>0, <2>2, <3>1 DEF EventInv
    <3>3. CASE Deleted(i, stream[i].name)
      <4>1. PICK j \in 1 .. Len(stream) : j > i /\ stream[j].type = "DELETED" /\ stream[j].name = stream[i].name
        BY <3>3 DEF Deleted
      <4>2. j \in 1 .. Len(stream') /\ stream'[j] = stream[j]
        BY <1>2
      <4> QED
        BY <3>1, <4>1, <4>2 DEF Deleted
    <3>4. CASE stream[i].name \in exists /\ ~(t = "DELETED" /\ stream[i].name = s)
      BY <1>4, <3>1, <3>4
    <3>5. CASE t = "DELETED" /\ stream[i].name = s
      BY <1>7, <2>2, <3>1, <3>5 DEF Deleted
    <3> QED
      BY <3>2, <3>3, <3>4, <3>5
  <2> QED
    BY <1>2, <2>1, <2>2
<1>9. ListedInv'
  <2> SUFFICES ASSUME Watching, NEW x \in Listed PROVE x \in exists' \cup missed' \/ Deleted(0, x)'
    BY <1>5 DEF ListedInv
  <2>1. x \in exists \cup missed \/ Deleted(0, x)
    BY <1>0 DEF ListedInv
  <2>2. CASE Deleted(0, x)
    BY <1>3, <2>2
  <2>3. CASE x \in exists \cup missed /\ ~(t = "DELETED" /\ x = s)
    BY <1>4, <2>3
  <2>4. CASE t = "DELETED" /\ x = s
    <3>1. CASE ~open
      BY <1>4, <2>4, <3>1
    <3>2. CASE open
      <4>1. Len(stream) + 1 \in 1 .. Len(stream') /\ Len(stream) + 1 > 0 /\ Len(stream) + 1 > Len(stream)
        BY <1>2, <3>2
      <4> QED
        BY <1>2, <2>4, <4>1 DEF Deleted
    <3> QED
      BY <3>1, <3>2
  <2> QED
    BY <2>1, <2>2, <2>3, <2>4
<1> QED
  BY <1>6, <1>8, <1>9 DEF StreamInv

\* The invariant holds initially.
LEMMA InvInit == Init => Inv
<1> SUFFICES ASSUME Init PROVE Inv
  OBVIOUS
<1>1. Listed = {} /\ Len(stream) = 0
  BY EmptySeq DEF Init, Listed
<1>2. StreamInv
  BY <1>1 DEF Init, StreamInv, MissedInv, EventInv, ListedInv
<1>3. WorkInv
  BY Zenon DEF Init, WorkInv
<1>4. /\ changes \in 0 .. MaxChanges /\ calls \in 0 .. MaxCalls /\ failures \in 0 .. MaxFailures
      /\ stream \in Seq(Unread)
      /\ available_engines \in [Services -> {"none", "awake", "asleep"}]
  BY K8sServiceNameDiscoveryAssumption DEF Init
<1>5. TypeOK
  BY <1>4, Zenon DEF Init, TypeOK, Unread
<1> QED
  BY <1>2, <1>3, <1>5 DEF Inv

\* The bounds on changes, calls and failures.
LEMMA BoundsNext ==
    ASSUME Inv, [Next]_vars
    PROVE  changes' \in 0 .. MaxChanges /\ calls' \in 0 .. MaxCalls /\ failures' \in 0 .. MaxFailures
<1>0. /\ changes \in 0 .. MaxChanges /\ calls \in 0 .. MaxCalls /\ failures \in 0 .. MaxFailures
      /\ MaxChanges \in Nat /\ MaxCalls \in Nat /\ MaxFailures \in Nat
  BY K8sServiceNameDiscoveryAssumption DEF Inv, TypeOK
<1>1. UNCHANGED changes \/ Change
  BY Zenon DEF Next, Make, Modify, Delete, ReadyChanges, SleepCall, Watcher, CheckRunning, Connect, NextEvent,
     GetModelNames, GetSleepStatus, InsertEngine, StreamEnd, Close, Joined, vars, bounds
<1>2. UNCHANGED calls \/ (calls < MaxCalls /\ calls' = calls + 1)
  BY Zenon DEF Next, Make, Modify, Delete, ReadyChanges, SleepCall, Watcher, CheckRunning, Connect, NextEvent,
     GetModelNames, GetSleepStatus, InsertEngine, StreamEnd, Close, Joined, vars, bounds
<1>3. UNCHANGED failures \/ Failure
  BY Zenon DEF Next, Make, Modify, Delete, ReadyChanges, SleepCall, Watcher, CheckRunning, Connect, NextEvent,
     ReadDeleted, ReadinessRaises, ReadNotReady, ReadReady, QueryFails,
     GetModelNames, GetSleepStatus, InsertEngine, StreamEnd, Close, Joined, vars, bounds
<1> QED
  BY <1>0, <1>1, <1>2, <1>3 DEF Change, Failure

\* The types, after a step of the cluster or of a call.
LEMMA TypeCluster ==
    ASSUME Inv, [Next]_vars, NEW s \in Services,
           Make(s) \/ Modify(s) \/ Delete(s) \/ ReadyChanges(s) \/ SleepCall(s)
    PROVE  TypeOK' /\ WorkInv'
<1>0. TypeOK /\ WorkInv
  BY DEF Inv
<1>1. /\ UNCHANGED <<open, watcher, event, sleep_status, available_engines, running, stop, main>>
      /\ stream' = stream \/ \E t \in {"ADDED", "MODIFIED", "DELETED"} : Send(t, s)
  BY Zenon DEF Make, Modify, Delete, ReadyChanges, SleepCall, sleep_label, PodName, closing
<1>2. ready' \subseteq exists' /\ exists' \subseteq Services /\ asleep' \subseteq ready'
  BY <1>0 DEF Make, Modify, Delete, ReadyChanges, SleepCall, cluster, TypeOK
<1>3. missed' \subseteq Services
  BY <1>0 DEF Make, Modify, Delete, ReadyChanges, SleepCall, cluster, TypeOK
<1>4. stream' \in Seq(Unread) /\ (~open' => stream' = <<>>)
  BY <1>0, <1>1, SendFacts, Zenon DEF TypeOK, Unread
<1>5. stream # <<>> => stream' # <<>> /\ Head(stream') = Head(stream)
  <2>1. CASE stream' = stream
    BY <2>1
  <2>2. ASSUME NEW t \in {"ADDED", "MODIFIED", "DELETED"}, Send(t, s), stream # <<>>
        PROVE  stream' # <<>> /\ Head(stream') = Head(stream)
    <3>1. /\ Len(stream) \in Nat /\ Len(stream') >= Len(stream) /\ stream' \in Seq(Unread)
          /\ \A i \in 1 .. Len(stream) : stream'[i] = stream[i]
      BY <1>0, <2>2, SendFacts
    <3>2. Len(stream) > 0 /\ Head(stream) = stream[1] /\ stream \in Seq(Unread)
      BY <1>0, <2>2, HeadEvent DEF TypeOK, Unread
    <3> QED
      BY <3>1, <3>2
  <2> QED
    BY <1>1, <2>1, <2>2
<1>6. TypeOK'
  BY <1>0, <1>1, <1>2, <1>3, <1>4, BoundsNext, Zenon DEF TypeOK, Unread
<1>7. WorkInv'
  BY <1>0, <1>1, <1>5, Zenon DEF WorkInv
<1> QED
  BY <1>6, <1>7

\* The types of what a step of the watcher may set.
StreamTyped ==
    /\ open \in BOOLEAN /\ running \in BOOLEAN /\ stop \in BOOLEAN /\ sleep_status \in BOOLEAN
    /\ stream \in Seq(Unread) /\ (~open => stream = <<>>)
    /\ watcher \in {"top", "connect", "stream", "models", "status", "insert", "stopped"}
    /\ (event = NoEvent) <=> watcher \in {"top", "connect", "stream", "stopped"}
    /\ main \in {"running", "joining", "exited"}

\* The types, after a step of the watcher.
LEMMA TypeStep ==
    ASSUME Inv, [Next]_vars, UNCHANGED cluster, StreamTyped',
           available_engines' \in [Services -> {"none", "awake", "asleep"}], missed' \subseteq Services
    PROVE  TypeOK'
<1>1. /\ ready' \subseteq exists' /\ exists' \subseteq Services /\ asleep' \subseteq ready'
      /\ changes' \in 0 .. MaxChanges /\ calls' \in 0 .. MaxCalls /\ failures' \in 0 .. MaxFailures
  BY BoundsNext DEF cluster, Inv, TypeOK
<1> QED
  BY <1>1, Zenon DEF StreamTyped, TypeOK, Unread

\* The stream has its type when the watcher is done with an event.
LEMMA EndBodyTyped ==
    ASSUME Inv, stream # <<>>, EndBody, UNCHANGED <<running, stop, main>>, sleep_status' \in BOOLEAN
    PROVE  StreamTyped'
<1>1. stream' \in Seq(Unread) /\ watcher' \in {"top", "stream"}
  BY HeadEvent, EmptySeq DEF EndBody, Inv
<1>2. open' \in BOOLEAN /\ (~open' => stream' = <<>>)
  BY Zenon DEF EndBody, Inv, TypeOK
<1>3. running' \in BOOLEAN /\ stop' \in BOOLEAN /\ main' \in {"running", "joining", "exited"}
  BY Zenon DEF Inv, TypeOK
<1> QED
  BY <1>1, <1>2, <1>3, Zenon DEF StreamTyped, EndBody

\* One step that reads an event.
LEMMA NextEventNext ==
    ASSUME Inv, [Next]_vars, NextEvent
    PROVE  Inv'
<1>0. TypeOK /\ WorkInv /\ StreamInv /\ MissedInv /\ EventInv /\ ListedInv
  BY DEF Inv, StreamInv
<1> DEFINE e == Head(stream)
<1>1. /\ watcher = "stream" /\ stream # <<>>
      /\ UNCHANGED <<exists, ready, asleep, sleep_status, running, stop, main>>
  BY DEF NextEvent, cluster, closing
<1>2. /\ e = stream[1] /\ e.name \in Services /\ e \in Unread
      /\ Len(stream) \in Nat /\ Len(stream) > 0
  BY <1>0, <1>1, HeadEvent
<1>3. Watching /\ open
  BY <1>0, <1>1 DEF Watching, WorkInv
<1>4. e # NoEvent
  BY <1>2, K8sServiceNameDiscoveryAssumption DEF NoEvent, Event, Unread
<1>5. sleep_status' \in BOOLEAN
  BY <1>0, <1>1, Zenon DEF TypeOK
<1>6. \A x : Deleted(0, x) => Deleted(1, x) \/ (e.type = "DELETED" /\ x = e.name)
  <2> SUFFICES ASSUME NEW x, NEW j \in 1 .. Len(stream), stream[j].type = "DELETED", stream[j].name = x
               PROVE  Deleted(1, x) \/ (e.type = "DELETED" /\ x = e.name)
    BY DEF Deleted
  <2>1. j = 1 \/ j > 1
    BY <1>2
  <2> QED
    BY <1>2, <2>1 DEF Deleted
<1>7. \A x \in Listed : x \in exists \cup missed \/ Deleted(0, x)
  BY <1>0, <1>3 DEF ListedInv
<1>8. CASE ReadDeleted(e)
  <2>1. /\ EndBody /\ missed' = missed \ {e.name}
        /\ available_engines' = [available_engines EXCEPT ![e.name] = "none"]
    BY <1>8 DEF ReadDeleted, delete_engine
  <2>2. Listed' = Listed \ {e.name} /\ available_engines' \in [Services -> {"none", "awake", "asleep"}]
    BY <1>0, <1>2, <2>1 DEF Listed, TypeOK
  <2>3. \A x \in Listed' : x \in exists \cup missed \/ Deleted(1, x)
    BY <1>6, <1>7, <2>2
  <2>4. TypeOK'
    BY <1>0, <1>1, <1>5, <2>1, <2>2, EndBodyTyped, TypeStep, Zenon DEF cluster, TypeOK
  <2>5. WorkInv' /\ StreamInv'
    BY <1>1, <2>1, <2>3, EndBodyNext
  <2> QED
    BY <2>4, <2>5 DEF Inv
<1>9. CASE ReadinessRaises(e)
  <2>1. /\ watcher' = "top" /\ stream' = <<>> /\ UNCHANGED <<event, available_engines>>
        /\ missed' = missed \cup (Deletions(stream) \ exists)
    BY <1>9 DEF ReadinessRaises
  <2>2. ~open' /\ open' \in BOOLEAN /\ running' \in BOOLEAN /\ stop' \in BOOLEAN
    BY <1>0, <1>1, <1>9, Zenon DEF ReadinessRaises, TypeOK
  <2>3. Len(stream') = 0 /\ stream' \in Seq(Unread) /\ DOMAIN stream = 1 .. Len(stream)
    BY <1>0, <2>1, EmptySeq, LenProperties DEF TypeOK
  <2>4. \A i \in 1 .. Len(stream) : stream[i].name \in Services
    <3>1. stream \in Seq(Unread)
      BY <1>0 DEF TypeOK, Unread
    <3>2. \A i \in 1 .. Len(stream) : stream[i] \in Unread
      BY <3>1, ElementOfSeq
    <3> QED
      BY <3>2 DEF Unread
  <2>5. missed' \subseteq Services
    BY <1>0, <2>1, <2>3, <2>4 DEF Deletions, TypeOK
  <2>6. event' = NoEvent /\ main' \in {"running", "joining", "exited"}
    BY <1>0, <1>1, <2>1 DEF TypeOK
  <2>7. StreamTyped'
    BY <1>5, <2>1, <2>2, <2>3, <2>6, Zenon DEF StreamTyped
  <2>8. TypeOK'
    BY <1>0, <1>1, <2>1, <2>5, <2>7, TypeStep DEF cluster, TypeOK
  <2>9. WorkInv'
    BY <1>0, <1>1, <2>1, <2>2 DEF WorkInv
  <2>10. MissedInv' /\ EventInv'
    BY <1>0, <1>1, <2>1, <2>3 DEF MissedInv, EventInv
  <2>11. \A x : Deleted(0, x) => x \in Deletions(stream)
    BY <2>3 DEF Deleted, Deletions
  <2>12. ListedInv'
    <3>1. Listed' = Listed
      BY <2>1 DEF Listed
    <3> QED
      BY <1>1, <1>7, <2>1, <2>11, <3>1 DEF ListedInv
  <2> QED
    BY <2>8, <2>9, <2>10, <2>12 DEF Inv, StreamInv
<1>10. CASE ReadNotReady(e)
  <2>1. EndBody /\ missed' = missed /\ e.type # "DELETED"
    BY <1>10 DEF ReadNotReady, NotAdded
  <2>2. Listed' \subseteq Listed /\ available_engines' \in [Services -> {"none", "awake", "asleep"}]
    BY <1>0, <1>2, <1>10 DEF ReadNotReady, NotAdded, delete_engine, Listed, TypeOK
  <2>3. \A x \in Listed' : x \in exists \cup missed \/ Deleted(1, x)
    BY <1>6, <1>7, <2>1, <2>2
  <2>4. TypeOK'
    BY <1>0, <1>1, <1>5, <2>1, <2>2, EndBodyTyped, TypeStep DEF cluster, TypeOK
  <2>5. WorkInv' /\ StreamInv'
    BY <1>1, <2>1, <2>3, EndBodyNext
  <2> QED
    BY <2>4, <2>5 DEF Inv
<1>11. CASE ReadReady(e)
  <2>1. /\ watcher' = "models" /\ event' = e /\ e.type # "DELETED"
        /\ UNCHANGED <<open, stream, available_engines, missed>>
    BY <1>11 DEF ReadReady
  <2>2. WorkInv'
    BY <1>0, <1>1, <1>3, <2>1 DEF WorkInv
  <2>3. StreamInv'
    BY <1>0, <1>1, <1>3, <2>1, Aside
  <2>4. StreamTyped'
    BY <1>0, <1>1, <1>4, <2>1, Zenon DEF StreamTyped, TypeOK, Unread
  <2>5. TypeOK'
    BY <1>0, <1>1, <2>1, <2>4, TypeStep DEF cluster, TypeOK
  <2> QED
    BY <2>2, <2>3, <2>5 DEF Inv
<1> QED
  BY <1>8, <1>9, <1>10, <1>11 DEF NextEvent

\* Every step of the cluster, the watcher and the main thread keeps it.
LEMMA InvNext == Inv /\ [Next]_vars => Inv'
<1> SUFFICES ASSUME Inv, [Next]_vars PROVE Inv'
  OBVIOUS
<1>0. TypeOK /\ WorkInv /\ StreamInv /\ ListedInv /\ EventInv
  BY DEF Inv, StreamInv
<1> USE DEF cluster, closing, bounds
<1>1. ASSUME NEW s \in Services, Make(s) \/ Modify(s) \/ Delete(s) PROVE Inv'
  BY <1>1, ChangeNext, TypeCluster DEF Inv
<1>2. ASSUME NEW s \in Services, ReadyChanges(s) \/ SleepCall(s) PROVE Inv'
  <2>1. UNCHANGED <<exists, stream, available_engines, missed, watcher, running>>
    BY <1>2, Zenon DEF ReadyChanges, SleepCall, sleep_label, PodName
  <2>2. StreamInv'
    BY <1>0, <2>1, Aside DEF Watching
  <2> QED
    BY <1>2, <2>2, TypeCluster DEF Inv
<1>a. ASSUME UNCHANGED <<exists, ready, asleep, available_engines, missed>>, StreamTyped' PROVE TypeOK'
  BY <1>0, <1>a, TypeStep DEF TypeOK
<1>3. CASE CheckRunning
  <2>1. UNCHANGED <<exists, ready, asleep, available_engines, missed, open, stream, event, sleep_status, running, stop, main>>
    BY <1>3 DEF CheckRunning
  <2>2. watcher = "top" /\ watcher' = IF running THEN "connect" ELSE "stopped"
    BY <1>3 DEF CheckRunning, Again
  <2>3. StreamTyped'
    BY <1>0, <2>1, <2>2, Zenon DEF StreamTyped, TypeOK, Unread
  <2>4. WorkInv'
    BY <1>0, <2>1, <2>2 DEF WorkInv
  <2>5. StreamInv'
    BY <1>0, <2>1, <2>2, Aside DEF Watching
  <2> QED
    BY <1>a, <2>1, <2>3, <2>4, <2>5 DEF Inv
<1>4. CASE Connect
  <2>1. /\ watcher = "connect" /\ watcher' = "stream" /\ stream' = Relist
        /\ UNCHANGED <<exists, ready, asleep, available_engines, missed, event, sleep_status, running, main>>
    BY <1>4 DEF Connect
  <2>2. open' /\ ~stop' /\ open' \in BOOLEAN /\ stop' \in BOOLEAN
    BY <1>4, Zenon DEF Connect
  <2>3. stream' \in Seq(Unread) /\ \A i \in 1 .. Len(stream') : stream'[i].name \in exists
    BY <1>0, <2>1, RelistFacts
  <2>4. StreamTyped'
    BY <1>0, <2>1, <2>2, <2>3, Zenon DEF StreamTyped, TypeOK
  <2>5. WorkInv'
    BY <2>1, <2>2 DEF WorkInv
  <2>6. stream = <<>> /\ Len(stream) = 0 /\ Watching
    BY <1>0, <2>1, EmptySeq DEF TypeOK, WorkInv, Watching
  <2>7. MissedInv' /\ EventInv'
    BY <1>0, <2>1, <2>3, Zenon DEF StreamInv, MissedInv, EventInv
  <2>8. ListedInv'
    <3>1. Listed' = Listed /\ Listed \subseteq exists \cup missed
      BY <1>0, <2>1, <2>6 DEF Listed, ListedInv, Deleted
    <3> QED
      BY <2>1, <3>1 DEF ListedInv
  <2> QED
    BY <1>a, <2>1, <2>4, <2>5, <2>7, <2>8 DEF Inv, StreamInv
<1>5. CASE StreamEnd
  <2>1. /\ watcher = "stream" /\ watcher' = "top" /\ stream = <<>>
        /\ UNCHANGED <<exists, ready, asleep, available_engines, missed, stream, event, sleep_status, running, stop, main>>
    BY <1>5 DEF StreamEnd
  <2>2. ~open' /\ open' \in BOOLEAN
    BY <1>5, Zenon DEF StreamEnd
  <2>3. StreamTyped'
    BY <1>0, <2>1, <2>2, Zenon DEF StreamTyped, TypeOK, Unread
  <2>4. WorkInv'
    BY <1>0, <2>1, <2>2 DEF WorkInv
  <2>5. StreamInv'
    BY <1>0, <2>1, Aside DEF Watching
  <2> QED
    BY <1>a, <2>1, <2>3, <2>4, <2>5 DEF Inv
<1>6. CASE NextEvent
  BY <1>6, NextEventNext
<1>b. ASSUME watcher \in {"models", "insert"}
      PROVE  /\ stream # <<>> /\ event = Head(stream) /\ event.type # "DELETED" /\ event.name \in Services
             /\ event = stream[1] /\ Watching /\ open /\ event # NoEvent
             /\ event.name \in exists \/ Deleted(1, event.name)
             /\ \A x \in Listed : x \in exists \cup missed \/ Deleted(1, x)
  <2>1. /\ stream # <<>> /\ event = Head(stream) /\ event.type # "DELETED"
        /\ Watching /\ open
    BY <1>0, <1>b DEF WorkInv, Watching
  <2>2. event = stream[1] /\ event.name \in Services /\ Len(stream) \in Nat /\ Len(stream) > 0
    BY <1>0, <2>1, HeadEvent
  <2>3. event # NoEvent
    BY <1>0, <1>b DEF TypeOK
  <2>4. event.name \in exists \/ Deleted(1, event.name)
    BY <1>0, <2>1, <2>2 DEF EventInv
  <2>5. \A x : Deleted(0, x) => Deleted(1, x)
    <3> SUFFICES ASSUME NEW x, NEW j \in 1 .. Len(stream), stream[j].type = "DELETED", stream[j].name = x
                 PROVE  Deleted(1, x)
      BY DEF Deleted
    <3>1. j > 1
      BY <2>1, <2>2
    <3> QED
      BY <3>1 DEF Deleted
  <2>6. \A x \in Listed : x \in exists \cup missed \/ Deleted(0, x)
    BY <1>0, <2>1 DEF ListedInv
  <2> QED
    BY <2>1, <2>2, <2>3, <2>4, <2>5, <2>6
<1>7. CASE GetModelNames
  <2>1. watcher = "models" /\ UNCHANGED <<exists, ready, asleep, missed, sleep_status, running, stop, main>>
    BY <1>7 DEF GetModelNames
  <2>2. CASE watcher' = "status" /\ UNCHANGED <<open, stream, event, available_engines>>
    <3>1. StreamTyped'
      BY <1>0, <2>1, <2>2, Zenon DEF StreamTyped, TypeOK, Unread
    <3>2. WorkInv'
      BY <1>0, <2>1, <2>2 DEF WorkInv
    <3>3. StreamInv'
      BY <1>0, <2>1, <2>2, Aside DEF Watching
    <3> QED
      BY <1>a, <2>1, <2>2, <3>1, <3>2, <3>3 DEF Inv
  <2>3. CASE NotAdded(event)
    <3>1. /\ EndBody /\ Listed' \subseteq Listed
          /\ available_engines' \in [Services -> {"none", "awake", "asleep"}]
      BY <1>0, <1>b, <2>1, <2>3 DEF NotAdded, delete_engine, Listed, TypeOK
    <3>2. sleep_status' \in BOOLEAN /\ missed' \subseteq Services
      BY <1>0, <2>1, Zenon DEF TypeOK
    <3>3. TypeOK'
      BY <1>b, <2>1, <3>1, <3>2, EndBodyTyped, TypeStep
    <3>4. WorkInv' /\ StreamInv'
      BY <1>b, <2>1, <3>1, EndBodyNext
    <3> QED
      BY <3>3, <3>4 DEF Inv
  <2> QED
    BY <1>7, <2>2, <2>3 DEF GetModelNames
<1>8. CASE GetSleepStatus
  <2>1. /\ watcher = "status" /\ watcher' = "insert"
        /\ UNCHANGED <<exists, ready, asleep, open, stream, event, available_engines, running, stop, main, missed>>
    BY <1>8 DEF GetSleepStatus
  <2>2. sleep_status' \in BOOLEAN
    <3>1. (event.name \in asleep) \in BOOLEAN
      OBVIOUS
    <3> QED
      BY <1>8, <3>1, Zenon DEF GetSleepStatus
  <2>3. StreamTyped'
    BY <1>0, <2>1, <2>2, Zenon DEF StreamTyped, TypeOK, Unread
  <2>4. WorkInv'
    BY <1>0, <2>1 DEF WorkInv
  <2>5. StreamInv'
    BY <1>0, <2>1, Aside DEF Watching
  <2> QED
    BY <1>a, <2>1, <2>3, <2>4, <2>5 DEF Inv
<1>9. CASE InsertEngine
  <2>1. /\ watcher = "insert" /\ EndBody
        /\ available_engines' = [available_engines EXCEPT ![event.name] = Entry]
        /\ UNCHANGED <<exists, ready, asleep, running, stop, main, missed>>
    BY <1>9 DEF InsertEngine
  <2>2. sleep_status' \in BOOLEAN /\ missed' \subseteq Services
    BY <1>0, <1>9, <2>1, Zenon DEF InsertEngine, TypeOK
  <2>3. Listed' \subseteq Listed \cup {event.name}
    BY <1>0, <2>1 DEF Listed, TypeOK
  <2>4. available_engines' \in [Services -> {"none", "awake", "asleep"}]
    BY <1>0, <2>1, Zenon DEF Entry, TypeOK
  <2>5. TypeOK'
    BY <1>b, <2>1, <2>2, <2>4, EndBodyTyped, TypeStep
  <2>6. WorkInv' /\ StreamInv'
    <3>1. \A x \in Listed' : x \in exists \cup missed \/ Deleted(1, x)
      BY <1>b, <2>1, <2>3
    <3> QED
      BY <1>b, <2>1, <3>1, EndBodyNext
  <2> QED
    BY <2>5, <2>6 DEF Inv
<1>10. CASE Close \/ Joined \/ UNCHANGED vars
  <2>1. /\ UNCHANGED <<exists, ready, asleep, open, stream, watcher, event, available_engines, sleep_status, missed>>
        /\ main' \in {main, "joining", "exited"}
    BY <1>10 DEF Close, Joined, vars
  <2>2. running' \in BOOLEAN /\ stop' \in BOOLEAN /\ (running' => running) /\ (stop' => ~running')
    <3>1. CASE Close
      BY <3>1, Zenon DEF Close
    <3>2. CASE Joined \/ UNCHANGED vars
      <4>1. UNCHANGED <<running, stop>>
        BY <3>2 DEF Joined, vars
      <4> QED
        BY <1>0, <4>1, Zenon DEF TypeOK, WorkInv
    <3> QED
      BY <1>10, <3>1, <3>2
  <2>3. StreamTyped'
    BY <1>0, <2>1, <2>2, Zenon DEF StreamTyped, TypeOK, Unread
  <2>4. WorkInv'
    BY <1>0, <2>1, <2>2, Zenon DEF WorkInv
  <2>5. StreamInv'
    BY <1>0, <2>1, <2>2, Aside DEF Watching
  <2> QED
    BY <1>a, <2>1, <2>3, <2>4, <2>5 DEF Inv
<1> QED
  BY <1>1, <1>2, <1>3, <1>4, <1>5, <1>6, <1>7, <1>8, <1>9, <1>10, Zenon DEF Next, Watcher

\* It holds in every reachable state.
LEMMA Invariance == Spec => []Inv
<1>1. Inv /\ [Next]_vars => Inv'
  BY InvNext
<1> QED
  BY InvInit, <1>1, PTL DEF Spec

\* Every reachable state has the declared types.
THEOREM TypeCorrect == Spec => []TypeOK
<1>1. Inv => TypeOK
  BY DEF Inv
<1> QED
  BY <1>1, Invariance, PTL

\* However often Services are deleted and made again under the same name while
\* the watcher works on earlier events: when it has read what it was sent, it
\* lists only Services that exist, or whose deletion it was never sent.
THEOREM ListedExist == Spec => []QuietExists
<1>1. Inv => QuietExists
  <2> SUFFICES ASSUME Inv, watcher = "stream", stream = <<>>
               PROVE  Listed \subseteq exists \cup missed
    BY DEF QuietExists
  <2>1. Watching /\ 1 .. Len(stream) = {}
    BY EmptySeq DEF Watching
  <2>2. \A s : ~Deleted(0, s)
    BY <2>1, Zenon DEF Deleted
  <2> QED
    BY <2>1, <2>2, Zenon DEF Inv, StreamInv, ListedInv
<1> QED
  BY <1>1, Invariance, PTL

\* close() has told the thread to end, and returns after it has.
CloseInv == (main # "running" => ~running) /\ (main = "exited" => watcher = "stopped")

\* No step leaves "stopped", or takes back what close() has set.
LEMMA CloseInvNext == ASSUME CloseInv, [Next]_vars PROVE CloseInv'
<1> USE DEF closing
<1>1. CASE UNCHANGED <<main, watcher, running>>
  BY <1>1, Zenon DEF CloseInv
<1>2. CASE Watcher \/ StreamEnd
  <2>1. UNCHANGED <<main, running>> /\ watcher # "stopped"
    BY <1>2, Zenon DEF Watcher, StreamEnd, CheckRunning, Connect, NextEvent, GetModelNames, GetSleepStatus, InsertEngine
  <2> QED
    BY <2>1, Zenon DEF CloseInv
<1>3. CASE Close
  BY <1>3, Zenon DEF Close, CloseInv
<1>4. CASE Joined
  BY <1>4, Zenon DEF Joined, CloseInv
<1>5. CASE \E s \in Services : Make(s) \/ Modify(s) \/ Delete(s) \/ ReadyChanges(s) \/ SleepCall(s)
  BY <1>1, <1>5 DEF Make, Modify, Delete, ReadyChanges, SleepCall
<1> QED
  BY <1>1, <1>2, <1>3, <1>4, <1>5, Zenon DEF Next, vars

\* It holds in every reachable state.
LEMMA CloseInvariance == Spec => []CloseInv
<1>1. Init => CloseInv
  BY Zenon DEF Init, CloseInv
<1>2. CloseInv /\ [Next]_vars => CloseInv'
  BY CloseInvNext
<1> QED
  BY <1>1, <1>2, PTL DEF Spec

\* Nothing is listed or taken off the list after close() has returned, also
\* when it was called in the middle of an event: only the thread writes the
\* table, and close() has joined it.
THEOREM StaysClosed == Spec => ClosedForGood
<1>1. CloseInv /\ [Next]_vars => [main = "exited" => UNCHANGED available_engines]_vars
  <2> SUFFICES ASSUME CloseInv, Next, main = "exited" PROVE UNCHANGED available_engines
    OBVIOUS
  <2>1. watcher = "stopped"
    BY DEF CloseInv
  <2> QED
    BY <2>1, Zenon DEF Next, Make, Modify, Delete, ReadyChanges, SleepCall, Watcher, CheckRunning, Connect, NextEvent,
                GetModelNames, GetSleepStatus, InsertEngine, StreamEnd, Close, Joined
<1> QED
  BY <1>1, CloseInvariance, PTL DEF Spec, ClosedForGood

\* The watcher is done with an event: what is left is less than any state has
\* left in which it works on one.
LEMMA EndBodySteps ==
    ASSUME TypeOK, stream # <<>>, EndBody, UNCHANGED changes
    PROVE  StepsLeft' < Ahead(Len(stream)) - 1
<1>1. /\ Len(stream) \in Nat /\ Len(stream) > 0 /\ Len(Tail(stream)) = Len(stream) - 1
      /\ MaxChanges \in Nat /\ changes \in 0 .. MaxChanges
  BY HeadEvent, K8sServiceNameDiscoveryAssumption DEF TypeOK
<1>2. CASE stop
  <2>1. watcher' = "top"
    BY <1>2 DEF EndBody
  <2> QED
    BY <1>1, <2>1 DEF StepsLeft, Ahead
<1>3. CASE ~stop
  <2>1. watcher' = "stream" /\ Len(stream') = Len(stream) - 1
    BY <1>1, <1>3 DEF EndBody
  <2>2. StepsLeft' = 4 * (Len(stream) - 1 + MaxChanges - changes) + 2
    BY <2>1 DEF StepsLeft, Ahead
  <2> QED
    BY <1>1, <2>2 DEF Ahead
<1> QED
  BY <1>2, <1>3

\* What is left of the thread's work when it is in a given state.
LEMMA StepsAt ==
    /\ watcher = "stopped" => StepsLeft = 0
    /\ watcher = "top" => StepsLeft = 1
    /\ watcher = "insert" => StepsLeft = Ahead(Len(stream)) - 1
    /\ watcher = "status" => StepsLeft = Ahead(Len(stream))
    /\ watcher = "models" => StepsLeft = Ahead(Len(stream)) + 1
    /\ watcher = "stream" => StepsLeft = Ahead(Len(stream)) + 2
    /\ watcher = "connect" => StepsLeft = Ahead(Cardinality(Services)) + 3
BY DEF StepsLeft

\* It is a number, and not below zero: an event that is worked on is unread.
LEMMA StepsType == Inv => StepsLeft \in Nat
<1> SUFFICES ASSUME Inv PROVE StepsLeft \in Nat
  OBVIOUS
<1>1. /\ Len(stream) \in Nat /\ MaxChanges \in Nat /\ changes \in 0 .. MaxChanges
      /\ Cardinality(Services) \in Nat
      /\ watcher \in {"top", "connect", "stream", "models", "status", "insert", "stopped"}
  BY LenProperties, FS_CardinalityType, K8sServiceNameDiscoveryAssumption DEF Inv, TypeOK
<1>2. Ahead(Len(stream)) \in Nat /\ Ahead(Cardinality(Services)) \in Nat
  BY <1>1 DEF Ahead
<1>3. watcher = "insert" => Len(stream) > 0
  BY HeadEvent DEF Inv, WorkInv
<1>4. watcher = "insert" => Ahead(Len(stream)) > 0
  BY <1>1, <1>3 DEF Ahead
<1> QED
  BY <1>1, <1>2, <1>4, StepsAt

\* So it is after a step.
LEMMA StepsTypeNext == Inv' => (StepsLeft \in Nat)'
BY StepsType, PTL

\* Each step of the thread brings it nearer its end, once it may not go on.
LEMMA ThreadDescends ==
    ASSUME Inv, ~running, Watcher \/ StreamEnd
    PROVE  StepsLeft' < StepsLeft
<1>0. TypeOK /\ WorkInv
  BY DEF Inv
<1>1. /\ Len(stream) \in Nat /\ MaxChanges \in Nat /\ changes \in 0 .. MaxChanges
      /\ Ahead(Len(stream)) \in Nat
  BY <1>0, LenProperties, K8sServiceNameDiscoveryAssumption DEF TypeOK, Ahead
<1>2. UNCHANGED changes
  BY Zenon DEF Watcher, StreamEnd, CheckRunning, Connect, NextEvent, GetModelNames, GetSleepStatus, InsertEngine, bounds
<1>3. stream # <<>> => Len(stream) > 0
  BY <1>0, HeadEvent
<1>4. CASE CheckRunning
  <2>1. watcher = "top" /\ watcher' = "stopped"
    BY <1>4 DEF CheckRunning, Again
  <2> QED
    BY <2>1 DEF StepsLeft
<1>5. CASE Connect
  <2>1. watcher = "connect" /\ watcher' = "stream" /\ stream' = Relist
    BY <1>5 DEF Connect
  <2>2. /\ Len(stream') = Cardinality(exists) /\ Cardinality(exists) <= Cardinality(Services)
        /\ Cardinality(exists) \in Nat /\ Cardinality(Services) \in Nat
    BY <1>0, <2>1, RelistFacts, FS_Subset, FS_CardinalityType, K8sServiceNameDiscoveryAssumption DEF TypeOK
  <2>3. StepsLeft' = 4 * (Len(stream') + MaxChanges - changes) + 2
    BY <1>2, <2>1 DEF StepsLeft, Ahead
  <2>4. StepsLeft = 4 * (Cardinality(Services) + MaxChanges - changes) + 3
    BY <2>1, StepsAt DEF Ahead
  <2> QED
    BY <1>1, <2>2, <2>3, <2>4
<1>6. CASE StreamEnd
  <2>1. watcher = "stream" /\ watcher' = "top"
    BY <1>6 DEF StreamEnd
  <2>2. StepsLeft = Ahead(Len(stream)) + 2 /\ StepsLeft' = 1
    BY <2>1 DEF StepsLeft
  <2> QED
    BY <1>1, <2>2
<1>7. CASE NextEvent
  <2>1. /\ watcher = "stream" /\ stream # <<>>
        /\ EndBody \/ watcher' = "top" \/ (watcher' = "models" /\ stream' = stream)
    BY <1>7 DEF NextEvent, ReadDeleted, ReadinessRaises, ReadNotReady, ReadReady, NotAdded
  <2>2. StepsLeft = Ahead(Len(stream)) + 2
    BY <2>1, StepsAt
  <2>3. CASE EndBody
    <3>1. StepsLeft' < Ahead(Len(stream)) - 1
      BY <1>0, <1>2, <2>1, <2>3, EndBodySteps
    <3>2. StepsLeft' \in Int
      BY <1>1, <1>2, <2>1, <2>3, <1>0, HeadEvent DEF StepsLeft, Ahead, EndBody
    <3> QED
      BY <1>1, <2>2, <3>1, <3>2
  <2>4. CASE watcher' = "top"
    <3>1. StepsLeft' = 1
      BY <2>4 DEF StepsLeft
    <3> QED
      BY <1>1, <2>2, <3>1
  <2>5. CASE watcher' = "models" /\ stream' = stream
    <3>1. StepsLeft' = Ahead(Len(stream)) + 1
      BY <1>2, <2>5 DEF StepsLeft, Ahead
    <3> QED
      BY <1>1, <2>2, <3>1
  <2> QED
    BY <2>1, <2>3, <2>4, <2>5
<1>8. CASE GetModelNames \/ InsertEngine
  <2>1. /\ watcher \in {"models", "insert"}
        /\ EndBody \/ (watcher = "models" /\ watcher' = "status" /\ stream' = stream)
    BY <1>8 DEF GetModelNames, InsertEngine, NotAdded
  <2>2. stream # <<>> /\ StepsLeft >= Ahead(Len(stream)) - 1
    BY <1>0, <1>1, <2>1, StepsAt DEF WorkInv
  <2>3. StepsLeft \in Int
    BY <1>1, <2>1, StepsAt
  <2>4. CASE EndBody
    <3>1. StepsLeft' < Ahead(Len(stream)) - 1
      BY <1>0, <1>2, <2>2, <2>4, EndBodySteps
    <3>2. StepsLeft' \in Int
      BY <1>1, <1>2, <2>2, <2>4, <1>0, HeadEvent DEF StepsLeft, Ahead, EndBody
    <3> QED
      BY <1>1, <2>2, <2>3, <3>1, <3>2
  <2>5. CASE watcher = "models" /\ watcher' = "status" /\ stream' = stream
    <3>1. StepsLeft' = Ahead(Len(stream)) /\ StepsLeft = Ahead(Len(stream)) + 1
      BY <1>2, <2>5 DEF StepsLeft, Ahead
    <3> QED
      BY <1>1, <3>1
  <2> QED
    BY <2>1, <2>4, <2>5
<1>9. CASE GetSleepStatus
  <2>1. watcher = "status" /\ watcher' = "insert" /\ stream' = stream
    BY <1>9 DEF GetSleepStatus
  <2>2. StepsLeft' = Ahead(Len(stream)) - 1 /\ StepsLeft = Ahead(Len(stream))
    BY <1>2, <2>1 DEF StepsLeft, Ahead
  <2> QED
    BY <1>1, <2>2
<1> QED
  BY <1>4, <1>5, <1>6, <1>7, <1>8, <1>9 DEF Watcher

\* The cluster does not keep the thread busy: an event it sends is one that
\* it will not send later.
LEMMA ClusterNoDelay ==
    ASSUME Inv, NEW s \in Services,
           Make(s) \/ Modify(s) \/ Delete(s) \/ ReadyChanges(s) \/ SleepCall(s)
    PROVE  StepsLeft' <= StepsLeft
<1>0. TypeOK
  BY DEF Inv
<1>1. /\ Len(stream) \in Nat /\ MaxChanges \in Nat /\ changes \in 0 .. MaxChanges
      /\ Cardinality(Services) \in Nat
  BY <1>0, LenProperties, FS_CardinalityType, K8sServiceNameDiscoveryAssumption DEF TypeOK
<1>2. /\ watcher' = watcher
      /\ \/ changes' = changes + 1 /\ stream' = stream
         \/ changes' = changes + 1 /\ \E t \in {"ADDED", "MODIFIED", "DELETED"} : Send(t, s)
         \/ changes' = changes /\ stream' = stream
  BY Zenon DEF Make, Modify, Delete, ReadyChanges, SleepCall, Change, sleep_label, PodName
<1>3. /\ Len(stream') \in Nat
      /\ \/ changes' = changes + 1 /\ Len(stream') <= Len(stream) + 1
         \/ changes' = changes /\ Len(stream') = Len(stream)
  <2>1. CASE stream' = stream
    BY <1>1, <1>2, <2>1
  <2>2. ASSUME NEW t \in {"ADDED", "MODIFIED", "DELETED"}, Send(t, s)
        PROVE  Len(stream') \in Nat /\ Len(stream') <= Len(stream) + 1
    BY <1>0, <1>1, <2>2, SendFacts
  <2> QED
    BY <1>1, <1>2, <2>1, <2>2
<1>4. /\ changes \in Int /\ changes' \in Int /\ Len(stream') - changes' <= Len(stream) - changes
      /\ changes' >= changes
  BY <1>1, <1>3
<1>5. watcher \in {"top", "connect", "stream", "models", "status", "insert", "stopped"}
  BY <1>0 DEF TypeOK
<1>6. CASE watcher \in {"top", "stopped"}
  <2>1. StepsLeft' = StepsLeft /\ StepsLeft \in {0, 1}
    BY <1>2, <1>6 DEF StepsLeft
  <2> QED
    BY <2>1
<1> DEFINE all == Cardinality(Services)
           before == Ahead(Len(stream))
           after == Ahead(Len(stream))'
           allBefore == Ahead(all)
           allAfter == Ahead(all)'
<1>7. /\ before \in Int /\ after \in Int /\ after <= before
      /\ allBefore \in Int /\ allAfter \in Int /\ allAfter <= allBefore
  <2>1. before = 4 * (Len(stream) + MaxChanges - changes) /\ after = 4 * (Len(stream') + MaxChanges - changes')
    BY DEF Ahead
  <2>2. allBefore = 4 * (all + MaxChanges - changes) /\ allAfter = 4 * (all + MaxChanges - changes')
    BY DEF Ahead
  <2> HIDE DEF before, after, allBefore, allAfter
  <2>3. \A a, b \in Int : a <= b => 4 * a <= 4 * b /\ 4 * a \in Int /\ 4 * b \in Int
    OBVIOUS
  <2>4. /\ Len(stream) + MaxChanges - changes \in Int /\ Len(stream') + MaxChanges - changes' \in Int
        /\ Len(stream') + MaxChanges - changes' <= Len(stream) + MaxChanges - changes
        /\ all + MaxChanges - changes \in Int /\ all + MaxChanges - changes' \in Int
        /\ all + MaxChanges - changes' <= all + MaxChanges - changes
    BY <1>1, <1>3, <1>4
  <2> QED
    BY <2>1, <2>2, <2>3, <2>4
<1>8. CASE watcher = "connect"
  <2>1. StepsLeft' = allAfter + 3 /\ StepsLeft = allBefore + 3
    BY <1>2, <1>8 DEF StepsLeft
  <2> HIDE DEF allBefore, allAfter, before, after
  <2> QED
    BY <1>7, <2>1
<1>9. CASE watcher \in {"stream", "models", "status", "insert"}
  <2>1. /\ watcher = "stream" => StepsLeft' = after + 2 /\ StepsLeft = before + 2
        /\ watcher = "models" => StepsLeft' = after + 1 /\ StepsLeft = before + 1
        /\ watcher = "status" => StepsLeft' = after /\ StepsLeft = before
        /\ watcher = "insert" => StepsLeft' = after - 1 /\ StepsLeft = before - 1
    BY <1>2 DEF StepsLeft
  <2> HIDE DEF allBefore, allAfter, before, after
  <2> QED
    BY <1>7, <1>9, <2>1
<1> QED
  BY <1>5, <1>6, <1>8, <1>9

\* Once close() joins the thread, each step of the thread brings its end
\* nearer and no other step puts it off: the bounded form of CloseReturns.
THEOREM CloseDescends == Spec => CloseBounded
<1> DEFINE Descends == main = "joining" => /\ StepsLeft' \in Nat /\ StepsLeft' <= StepsLeft
                                           /\ Watcher \/ StreamEnd => StepsLeft' < StepsLeft
<1>1. Inv /\ Inv' /\ CloseInv /\ [Next]_vars => [Descends]_vars
  <2> SUFFICES ASSUME Inv, Inv', CloseInv, Next, main = "joining"
               PROVE  /\ StepsLeft' \in Nat /\ StepsLeft' <= StepsLeft
                      /\ Watcher \/ StreamEnd => StepsLeft' < StepsLeft
    OBVIOUS
  <2>1. ~running
    BY Zenon DEF CloseInv
  <2>2. StepsLeft \in Nat /\ StepsLeft' \in Nat
    BY StepsType, StepsTypeNext
  <2>3. Watcher \/ StreamEnd => StepsLeft' < StepsLeft
    BY <2>1, ThreadDescends
  <2>4. CASE Watcher \/ StreamEnd
    BY <2>2, <2>3, <2>4
  <2>5. CASE Close \/ Joined
    <3>1. UNCHANGED <<watcher, stream, changes>>
      BY <2>5 DEF Close, Joined, bounds
    <3>2. StepsLeft' = StepsLeft
      BY <3>1, Zenon DEF StepsLeft, Ahead
    <3> QED
      BY <2>2, <2>3, <3>2
  <2>6. ASSUME NEW s \in Services,
               Make(s) \/ Modify(s) \/ Delete(s) \/ ReadyChanges(s) \/ SleepCall(s)
        PROVE  StepsLeft' <= StepsLeft
    BY <2>6, ClusterNoDelay
  <2> QED
    BY <2>2, <2>3, <2>4, <2>5, <2>6 DEF Next
<1>2. Spec => []Inv
  BY Invariance
<1> QED
  BY <1>1, <1>2, CloseInvariance, PTL DEF Spec, CloseBounded
=============================================================================
