---------------------- MODULE RequestStatsWindow_proofs ----------------------
(***************************************************************************)
(* What holds of the unlocked sliding window for every window size and any  *)
(* number of data points.  The two deques are kept apart only by the steps   *)
(* in progress: each removal begun takes a timestamp first, each addition    *)
(* begun adds one first.                                                     *)
(***************************************************************************)
EXTENDS RequestStatsWindow, SequenceTheorems, FiniteSetTheorems, TLAPS

AtValue(t) == IF step[t] = "value" THEN 1 ELSE 0
Pending == IF step["loop"] = "append" THEN 1 ELSE 0

\* Time passes only as far as the calls in progress allow.
Clocks == \A t \in Threads :
    /\ now[t] <= clock
    /\ step[t] \notin {"idle", "dead"} => clock <= now[t] + sliding_window_size

\* The values are as many as the timestamps, but for the steps in progress.
\* Only a log thread that has ended leaves values without timestamps behind.
Lengths ==
    /\ Len(timestamps) + AtValue("loop") + AtValue("log") <= Len(values) + Pending
    /\ step["log"] # "dead" =>
          Len(timestamps) + AtValue("loop") + AtValue("log") = Len(values) + Pending

\* Either deque holds the last data points, in order.
Numbers ==
    /\ \A i \in 1 .. Len(timestamps) : timestamps[i].number = points - Len(timestamps) + i
    /\ \A i \in 1 .. Len(values) : values[i].number = points - Pending - Len(values) + i

\* A data point has the same time in both deques.
SamePoint ==
    /\ \A i \in 1 .. Len(timestamps), j \in 1 .. Len(values) :
          timestamps[i].number = values[j].number => timestamps[i].time = values[j].time
    /\ step["loop"] = "append" => \A i \in 1 .. Len(timestamps) :
          timestamps[i].number = points => timestamps[i].time = now["loop"]

\* What a thread has seen still holds if it was not overtaken.
Seen == \A t \in Threads \ raced :
    /\ step[t] \in {"head", "timestamp"} => timestamps # <<>>
    /\ step[t] = "timestamp" => Expired(timestamps[1], t)
    /\ step[t] = "value" /\ step["loop"] = "append" => timestamps # <<>>

IInv ==
    /\ TypeOK /\ Clocks /\ Lengths /\ Numbers /\ SamePoint /\ Seen
    /\ step["loop"] = "update" => points < MaxPoints
    /\ step["loop"] = "append" => points > 0
    /\ failed \subseteq raced
-----------------------------------------------------------------------------
\* The deques are as the steps in progress leave them, whatever a thread that
\* neither adds nor removes does.
LEMMA Untouched ==
    ASSUME IInv, TypeOK', UNCHANGED <<timestamps, values, points>>,
           step'["loop"] = "append" <=> step["loop"] = "append",
           \A t \in Threads : step'[t] = "value" <=> step[t] = "value",
           step["log"] = "dead" => step'["log"] = "dead",
           step["loop"] = "append" => now'["loop"] = now["loop"]
    PROVE  Lengths' /\ Numbers' /\ SamePoint'
<1>1. Pending' = Pending /\ \A t \in Threads : AtValue(t)' = AtValue(t)
  BY DEF Pending, AtValue
<1>2. AtValue("loop")' = AtValue("loop") /\ AtValue("log")' = AtValue("log")
  BY <1>1 DEF Threads
<1>3. Lengths'
  BY <1>1, <1>2 DEF IInv, Lengths
<1>4. Numbers'
  BY <1>1 DEF IInv, Numbers
<1>5. SamePoint'
  BY DEF IInv, SamePoint
<1> QED
  BY <1>3, <1>4, <1>5

\* A deque without its first element.
LEMMA TailFacts ==
    ASSUME NEW s \in Seq(Points), s # <<>>
    PROVE  /\ Len(s) \in Nat /\ Len(s) > 0
           /\ Head(s) = s[1] /\ Tail(s) \in Seq(Points) /\ Len(Tail(s)) = Len(s) - 1
           /\ \A i \in 1 .. Len(Tail(s)) : Tail(s)[i] = s[i + 1]
  BY HeadTailProperties

LEMMA InvInit == Init => IInv
<1> SUFFICES ASSUME Init PROVE IInv
  OBVIOUS
<1> USE RequestStatsWindowAssumption
<1>1. TypeOK
  BY DEF Init, TypeOK, Threads
<1>2. Clocks /\ Numbers /\ SamePoint /\ Seen
  BY DEF Init, Clocks, Numbers, SamePoint, Seen, Threads
<1>3. Lengths
  BY DEF Init, Lengths, AtValue, Pending, Threads
<1> QED
  BY <1>1, <1>2, <1>3 DEF IInv, Init, Threads

-----------------------------------------------------------------------------
\* An exception ends the log thread, never the event loop.
LEMMA RaiseType ==
    ASSUME TypeOK, NEW t \in Threads, Raise(t), UNCHANGED <<clock, points, now, call, gauge>>
    PROVE  TypeOK'
<1>1. AfterError(t) \in {"dead", "idle"} /\ (t = "loop" => AfterError(t) = "idle")
  BY DEF AfterError
<1>2. step' = [step EXCEPT ![t] = AfterError(t)] /\ failed' = failed \cup {t}
  BY DEF Raise, Go
<1> QED
  BY <1>1, <1>2 DEF Raise, TypeOK, Threads

\* Each step keeps the types; a data point that is added is within the bounds.
LEMMA TypeNext ==
    ASSUME IInv, [Next]_vars
    PROVE  TypeOK'
<1> USE RequestStatsWindowAssumption DEF IInv, TypeOK, Threads
<1>1. CASE Tick
  BY <1>1 DEF Tick
<1>2. CASE OnNewRequest
  BY <1>2 DEF OnNewRequest, Call, Go
<1>3. CASE Update
  <2>1. [time |-> now["loop"], number |-> points'] \in Points /\ points' \in 0 .. MaxPoints
    BY <1>3 DEF Update, Points
  <2>2. timestamps' \in Seq(Points)
    BY <1>3, <2>1, AppendProperties DEF Update
  <2> QED
    BY <1>3, <2>1, <2>2 DEF Update, Go
<1>4. CASE AppendValue
  BY <1>4, AppendProperties DEF AppendValue, Go, Points
<1>5. ASSUME NEW t \in Threads, UpdateNoValue(t) PROVE TypeOK'
  BY <1>5 DEF UpdateNoValue, Call, Go, Report
<1>6. ASSUME NEW t \in Threads, Test(t) PROVE TypeOK'
  BY <1>6 DEF Test, Go
<1>7. ASSUME NEW t \in Threads, ReadHead(t) PROVE TypeOK'
  <2>1. CASE timestamps = <<>>
    BY <1>7, <2>1, RaiseType DEF ReadHead
  <2>2. CASE timestamps # <<>>
    <3>1. \E s \in {"timestamp", "result"} : step' = [step EXCEPT ![t] = s]
      BY <1>7, <2>2 DEF ReadHead, Go
    <3>2. UNCHANGED <<timestamps, values, failed, raced, clock, points, now, call, gauge>>
      BY <1>7, <2>2, Zenon DEF ReadHead
    <3> QED
      BY <3>1, <3>2
  <2> QED
    BY <2>1, <2>2
<1>8. ASSUME NEW t \in Threads, PopTimestamp(t) PROVE TypeOK'
  <2>1. CASE timestamps = <<>>
    BY <1>8, <2>1, RaiseType DEF PopTimestamp
  <2>2. CASE timestamps # <<>>
    <3>1. timestamps' \in Seq(Points)
      BY <1>8, <2>2, TailFacts, Zenon DEF PopTimestamp
    <3>2. raced' \subseteq Threads
      BY <1>8, <2>2, Zenon DEF PopTimestamp, Overtakes
    <3> QED
      BY <1>8, <2>2, <3>1, <3>2, Zenon DEF PopTimestamp, Go
  <2> QED
    BY <2>1, <2>2
<1>9. ASSUME NEW t \in Threads, PopValue(t) PROVE TypeOK'
  <2>1. CASE values = <<>>
    BY <1>9, <2>1, RaiseType DEF PopValue
  <2>2. CASE values # <<>>
    <3>1. values' \in Seq(Points)
      BY <1>9, <2>2, TailFacts, Zenon DEF PopValue, Rest
    <3>2. raced' \subseteq Threads
      BY <1>9, <2>2, Zenon DEF PopValue, Overtakes
    <3> QED
      BY <1>9, <2>2, <3>1, <3>2, Zenon DEF PopValue, Popped, Go
  <2> QED
    BY <2>1, <2>2
<1>10. ASSUME NEW t \in Threads, Result(t) PROVE TypeOK'
  BY <1>10 DEF Result, Report, Go
<1>11. CASE LogGauge
  BY <1>11 DEF LogGauge, Go
<1>12. CASE MetricsGauge
  BY <1>12 DEF MetricsGauge, Shown, Go
<1>13. CASE Expose
  BY <1>13 DEF Expose, Go
<1>14. CASE UNCHANGED vars
  BY <1>14 DEF vars
<1> QED
  BY <1>1, <1>2, <1>3, <1>4, <1>5, <1>6, <1>7, <1>8, <1>9, <1>10, <1>11, <1>12, <1>13, <1>14 DEF Next
-----------------------------------------------------------------------------
\* The parts of the invariant about what threads know and have done.
Threaded ==
    /\ Clocks /\ Seen
    /\ step["loop"] = "update" => points < MaxPoints
    /\ step["loop"] = "append" => points > 0
    /\ failed \subseteq raced

LEMMA Assemble == ASSUME TypeOK', Lengths' /\ Numbers' /\ SamePoint', Threaded' PROVE IInv'
  BY DEF IInv, Threaded

\* Time passes, calls begin and end, and gauges are set.
LEMMA AsideNext ==
    ASSUME IInv, TypeOK',
           \/ Tick \/ OnNewRequest \/ LogGauge \/ MetricsGauge \/ Expose \/ UNCHANGED vars
           \/ \E t \in Threads : UpdateNoValue(t) \/ Test(t) \/ Result(t)
    PROVE  IInv'
<1> USE RequestStatsWindowAssumption DEF IInv, TypeOK, Threads
<1>1. CASE Tick
  <2>1. Lengths' /\ Numbers' /\ SamePoint'
    BY <1>1, Untouched DEF Tick
  <2>2. Threaded'
    BY <1>1 DEF Tick, Threaded, Clocks, Seen, Expired
  <2> QED
    BY <2>1, <2>2, Assemble
<1>2. CASE OnNewRequest
  <2>1. Lengths' /\ Numbers' /\ SamePoint'
    BY <1>2, Untouched DEF OnNewRequest, Call, Go
  <2>2. Clocks' /\ Seen'
    BY <1>2 DEF OnNewRequest, Call, Go, Clocks, Seen, Expired
  <2>3. Threaded'
    BY <1>2, <2>2 DEF OnNewRequest, Call, Go, Threaded
  <2> QED
    BY <2>1, <2>3, Assemble
<1>3. CASE LogGauge \/ MetricsGauge \/ Expose
  <2>1. Lengths' /\ Numbers' /\ SamePoint'
    BY <1>3, Untouched DEF LogGauge, MetricsGauge, Expose, Go
  <2>2. Threaded'
    <3>1. PICK t \in Threads, s \in {"idle", "expose"} :
             /\ step[t] \in {"gauge", "expose"} /\ step' = [step EXCEPT ![t] = s]
             /\ UNCHANGED <<clock, points, timestamps, now, failed, raced>>
      BY <1>3 DEF LogGauge, MetricsGauge, Expose, Go
    <3>2. Clocks'
      BY <3>1 DEF Clocks
    <3>3. Seen'
      BY <3>1 DEF Seen, Expired
    <3> QED
      BY <3>1, <3>2, <3>3 DEF Threaded
  <2> QED
    BY <2>1, <2>2, Assemble
<1>4. CASE UNCHANGED vars
  <2>1. Lengths' /\ Numbers' /\ SamePoint'
    BY <1>4, Untouched DEF vars
  <2>2. Threaded'
    BY <1>4 DEF vars, Threaded, Clocks, Seen, Expired
  <2> QED
    BY <2>1, <2>2, Assemble
<1>5. ASSUME NEW t \in Threads, UpdateNoValue(t) PROVE IInv'
  <2>1. PICK s \in {"test", "idle", "gauge", "expose"} : step' = [step EXCEPT ![t] = s]
    BY <1>5, Zenon DEF UpdateNoValue, Go, Report
  <2>2. step[t] = "idle" /\ now' = [now EXCEPT ![t] = clock]
        /\ failed' = failed \ {t} /\ raced' = raced \ {t}
        /\ UNCHANGED <<clock, points, timestamps, values>>
    BY <1>5 DEF UpdateNoValue, Call
  <2>3. Lengths' /\ Numbers' /\ SamePoint'
    BY <2>1, <2>2, Untouched
  <2>4. Clocks' /\ Seen'
    BY <2>1, <2>2 DEF Clocks, Seen, Expired
  <2>5. Threaded'
    BY <2>1, <2>2, <2>4 DEF Threaded
  <2> QED
    BY <2>3, <2>5, Assemble
<1>6. ASSUME NEW t \in Threads, Test(t) \/ Result(t) PROVE IInv'
  <2>1. PICK s \in {"head", "result", "idle", "gauge", "expose"} :
           step' = [step EXCEPT ![t] = s] /\ (s = "head" => timestamps # <<>>)
    BY <1>6 DEF Test, Result, Go, Report, NotEmpty
  <2>2. step[t] \in {"test", "result"}
        /\ UNCHANGED <<clock, points, timestamps, values, now, failed, raced>>
    BY <1>6, Zenon DEF Test, Result
  <2>3. Lengths' /\ Numbers' /\ SamePoint'
    BY <2>1, <2>2, Untouched
  <2>4. Clocks' /\ Seen'
    BY <2>1, <2>2 DEF Clocks, Seen, Expired
  <2>5. Threaded'
    BY <2>1, <2>2, <2>4 DEF Threaded
  <2> QED
    BY <2>3, <2>5, Assemble
<1> QED
  BY <1>1, <1>2, <1>3, <1>4, <1>5, <1>6

\* A thread that looks at or removes from an empty deque was overtaken.
LEMMA RaiseNext ==
    ASSUME IInv, TypeOK', NEW t \in Threads, Raise(t),
           UNCHANGED <<clock, points, now, call, gauge>>,
           \/ step[t] \in {"head", "timestamp"} /\ timestamps = <<>>
           \/ step[t] = "value" /\ values = <<>>
    PROVE  IInv'
<1> USE RequestStatsWindowAssumption DEF IInv, TypeOK, Threads
<1>1. PICK s \in {"dead", "idle"} : step' = [step EXCEPT ![t] = s] /\ (t = "log" => s = "dead")
  BY Zenon DEF Raise, Go, AfterError
<1>2. failed' = failed \cup {t} /\ UNCHANGED <<timestamps, values, raced>>
  BY DEF Raise
<1>3. CASE step[t] \in {"head", "timestamp"} /\ timestamps = <<>>
  <2>1. t \in raced
    BY <1>3 DEF Seen
  <2>2. Lengths' /\ Numbers' /\ SamePoint'
    BY <1>1, <1>2, <1>3, Untouched
  <2>3. Clocks' /\ Seen'
    BY <1>1, <1>2, <1>3 DEF Clocks, Seen, Expired
  <2>4. Threaded'
    BY <1>1, <1>2, <2>1, <2>3 DEF Threaded
  <2> QED
    BY <2>2, <2>4, Assemble
<1>4. CASE step[t] = "value" /\ values = <<>>
  <2>1. Len(values) = 0 /\ Len(timestamps) \in Nat
    BY <1>4
  <2>2. t = "log" /\ step["loop"] = "append" /\ timestamps = <<>>
    <3>1. AtValue("loop") + AtValue("log") >= 1
      BY <1>4 DEF AtValue
    <3>2. AtValue("loop") \in {0, 1} /\ AtValue("log") \in {0, 1} /\ Pending \in {0, 1}
      BY DEF AtValue, Pending
    <3>3. Pending = 1 /\ Len(timestamps) = 0
      BY <2>1, <3>1, <3>2 DEF Lengths
    <3>4. step["loop"] = "append" /\ timestamps = <<>>
      BY <3>3, EmptySeq DEF Pending
    <3> QED
      BY <1>4, <3>4
  <2>3. t \in raced
    BY <1>4, <2>2 DEF Seen
  <2>4. Pending' = Pending /\ AtValue("loop")' = AtValue("loop") /\ AtValue("log")' = 0
    BY <1>1, <2>2 DEF Pending, AtValue
  <2>5. Lengths'
    BY <1>1, <1>2, <2>1, <2>2, <2>4 DEF Lengths, Pending, AtValue
  <2>6. Numbers' /\ SamePoint'
    BY <1>1, <1>2, <2>2, <2>4 DEF Numbers, SamePoint
  <2>7. Clocks' /\ Seen'
    BY <1>1, <1>2, <1>4, <2>2 DEF Clocks, Seen, Expired
  <2>8. Threaded'
    BY <1>1, <1>2, <2>2, <2>3, <2>7 DEF Threaded
  <2> QED
    BY <2>5, <2>6, <2>8, Assemble
<1> QED
  BY <1>3, <1>4

\* A timestamp comes in: the head stays, and the values lack one.
LEMMA UpdateNext == ASSUME IInv, TypeOK', Update PROVE IInv'
<1>0. TypeOK /\ Clocks /\ Lengths /\ Numbers /\ SamePoint /\ Threaded
  BY DEF IInv, Threaded
<1> DEFINE new == [time |-> now["loop"], number |-> points + 1]
<1>1. new \in Points /\ Len(timestamps) \in Nat /\ Len(values) \in Nat /\ points \in Nat
  BY <1>0, RequestStatsWindowAssumption DEF Update, Points, TypeOK, Threads, Threaded
<1>2. /\ timestamps' # <<>> /\ Len(timestamps') = Len(timestamps) + 1
      /\ \A i \in 1 .. Len(timestamps) : timestamps'[i] = timestamps[i]
      /\ timestamps'[Len(timestamps) + 1] = new
  <2>1. timestamps' = Append(timestamps, new) /\ timestamps \in Seq(Points)
    BY <1>0 DEF Update, TypeOK
  <2> HIDE DEF new
  <2>2. /\ Len(timestamps') = Len(timestamps) + 1
        /\ \A i \in 1 .. Len(timestamps) : timestamps'[i] = timestamps[i]
        /\ timestamps'[Len(timestamps) + 1] = new
    BY <1>1, <2>1, AppendProperties
  <2>3. timestamps' # <<>>
    BY <1>1, <2>2
  <2> QED
    BY <2>2, <2>3
<1>3. /\ step["loop"] = "update" /\ step' = [step EXCEPT !["loop"] = "append"]
      /\ points' = points + 1 /\ UNCHANGED <<clock, values, now, failed, raced>>
  BY DEF Update, Go
<1>4. /\ Pending = 0 /\ Pending' = 1 /\ AtValue("loop") = 0 /\ AtValue("loop")' = 0
      /\ AtValue("log")' = AtValue("log") /\ AtValue("log") \in {0, 1}
  BY <1>0, <1>3 DEF Pending, AtValue, TypeOK, Threads
<1>5. Lengths'
  BY <1>1, <1>2, <1>3, <1>4, <1>0 DEF Lengths, TypeOK, Threads
<1>6. Numbers'
  <2>1. \A i \in 1 .. Len(timestamps) : timestamps'[i].number = points' - Len(timestamps') + i
    BY <1>1, <1>2, <1>3, <1>0 DEF Numbers
  <2>2. \A i \in 1 .. Len(timestamps') : timestamps'[i].number = points' - Len(timestamps') + i
    BY <1>1, <1>2, <1>3, <2>1
  <2>3. \A i \in 1 .. Len(values) : values[i].number = points' - Pending' - Len(values) + i
    BY <1>1, <1>3, <1>4, <1>0 DEF Numbers
  <2> QED
    BY <1>3, <2>2, <2>3 DEF Numbers
<1>7. SamePoint'
  <2>1. \A i \in 1 .. Len(timestamps) : timestamps[i].number # points + 1
    BY <1>1, <1>0 DEF Numbers
  <2>2. \A j \in 1 .. Len(values) : values[j].number # points + 1
    BY <1>1, <1>4, <1>0 DEF Numbers
  <2>3. \A i \in 1 .. Len(timestamps') : i \in 1 .. Len(timestamps) \/ timestamps'[i] = new
    BY <1>1, <1>2
  <2>4. new.number = points + 1 /\ new.time = now["loop"]
    OBVIOUS
  <2>5. ASSUME NEW i \in 1 .. Len(timestamps'), NEW j \in 1 .. Len(values),
               timestamps'[i].number = values[j].number
        PROVE  timestamps'[i].time = values[j].time
    <3>1. i \in 1 .. Len(timestamps)
      BY <2>2, <2>3, <2>4, <2>5
    <3> QED
      BY <1>2, <2>5, <3>1, <1>0 DEF SamePoint
  <2>6. ASSUME NEW i \in 1 .. Len(timestamps'), timestamps'[i].number = points + 1
        PROVE  timestamps'[i].time = now["loop"]
    <3>1. i \notin 1 .. Len(timestamps)
      BY <1>2, <2>1, <2>6
    <3> QED
      BY <2>3, <2>4, <3>1
  <2> QED
    BY <1>3, <2>5, <2>6 DEF SamePoint
<1>8. Clocks' /\ Seen'
  <2>1. Clocks'
    BY <1>0, <1>3 DEF Clocks, TypeOK, Threads
  <2>2. timestamps # <<>> => timestamps'[1] = timestamps[1]
    BY <1>1, <1>2, <1>0, EmptySeq DEF TypeOK
  <2> QED
    BY <1>2, <1>3, <2>1, <2>2, <1>0 DEF Threaded, Seen, Expired, TypeOK, Threads
<1>9. Threaded'
  BY <1>3, <1>8, <1>0, RequestStatsWindowAssumption DEF Threaded, TypeOK, Threads
<1> QED
  BY <1>5, <1>6, <1>7, <1>9, Assemble

\* Its value follows.
LEMMA AppendNext == ASSUME IInv, TypeOK', AppendValue PROVE IInv'
<1>0. TypeOK /\ Clocks /\ Lengths /\ Numbers /\ SamePoint /\ Threaded
  BY DEF IInv, Threaded
<1> DEFINE new == [time |-> now["loop"], number |-> points]
<1>1. new \in Points /\ Len(timestamps) \in Nat /\ Len(values) \in Nat /\ points \in Nat
  BY <1>0, RequestStatsWindowAssumption DEF AppendValue, Points, TypeOK, Threads, Threaded
<1>2. /\ Len(values') = Len(values) + 1
      /\ \A i \in 1 .. Len(values) : values'[i] = values[i]
      /\ values'[Len(values) + 1] = new
  BY <1>1, <1>0, AppendProperties DEF AppendValue, TypeOK
<1>3. /\ step["loop"] = "append" /\ step' = [step EXCEPT !["loop"] = "test"]
      /\ UNCHANGED <<clock, points, timestamps, now, failed, raced>>
  BY DEF AppendValue, Go
<1>4. /\ Pending = 1 /\ Pending' = 0 /\ AtValue("loop") = 0 /\ AtValue("loop")' = 0
      /\ AtValue("log")' = AtValue("log") /\ AtValue("log") \in {0, 1}
  BY <1>0, <1>3 DEF Pending, AtValue, TypeOK, Threads
<1>5. Lengths'
  BY <1>1, <1>2, <1>3, <1>4, <1>0 DEF Lengths, TypeOK, Threads
<1>6. Numbers'
  <2>1. \A i \in 1 .. Len(values) : values'[i].number = points - Len(values') + i
    BY <1>1, <1>2, <1>4, <1>0 DEF Numbers
  <2>2. \A i \in 1 .. Len(values') : values'[i].number = points' - Pending' - Len(values') + i
    BY <1>1, <1>2, <1>3, <1>4, <2>1
  <2>3. \A i \in 1 .. Len(timestamps') : timestamps'[i].number = points' - Len(timestamps') + i
    BY <1>3, <1>0 DEF Numbers
  <2> QED
    BY <2>2, <2>3 DEF Numbers
<1>7. SamePoint'
  <2>1. \A j \in 1 .. Len(values') : j \in 1 .. Len(values) \/ values'[j] = new
    BY <1>1, <1>2
  <2> QED
    BY <1>1, <1>2, <1>3, <2>1, <1>0 DEF SamePoint
<1>8. Clocks' /\ Seen'
  BY <1>0, <1>3 DEF Clocks, Threaded, Seen, Expired, TypeOK, Threads
<1>9. Threaded'
  BY <1>3, <1>8, <1>0, RequestStatsWindowAssumption DEF Threaded, TypeOK, Threads
<1> QED
  BY <1>5, <1>6, <1>7, <1>9, Assemble

\* A thread looks at the first timestamp.
LEMMA HeadNext == ASSUME IInv, TypeOK', NEW t \in Threads, ReadHead(t) PROVE IInv'
<1> USE RequestStatsWindowAssumption DEF IInv, TypeOK, Threads
<1>1. CASE timestamps = <<>>
  BY <1>1, RaiseNext DEF ReadHead
<1>2. CASE timestamps # <<>>
  <2>1. Head(timestamps) = timestamps[1]
    BY <1>2, TailFacts
  <2>2. PICK s \in {"timestamp", "result"} :
           step' = [step EXCEPT ![t] = s] /\ (s = "timestamp" => Expired(timestamps[1], t))
    BY <1>2, <2>1 DEF ReadHead, Go
  <2>3. step[t] = "head" /\ UNCHANGED <<clock, points, timestamps, values, now, failed, raced>>
    BY <1>2 DEF ReadHead
  <2>4. Lengths' /\ Numbers' /\ SamePoint'
    BY <2>2, <2>3, Untouched
  <2>5. Clocks' /\ Seen'
    BY <1>2, <2>2, <2>3 DEF Clocks, Seen, Expired
  <2>6. Threaded'
    BY <2>2, <2>3, <2>5 DEF Threaded
  <2> QED
    BY <2>4, <2>6, Assemble
<1> QED
  BY <1>1, <1>2

\* A timestamp is removed: the thread that removes it has a value to remove.
LEMMA PopTimestampNext == ASSUME IInv, TypeOK', NEW t \in Threads, PopTimestamp(t) PROVE IInv'
<1>0. TypeOK /\ Clocks /\ Lengths /\ Numbers /\ SamePoint /\ Threaded
  BY DEF IInv, Threaded
<1>1. CASE timestamps = <<>>
  BY <1>1, RaiseNext DEF PopTimestamp
<1>2. CASE timestamps # <<>>
  <2>1. /\ step[t] = "timestamp" /\ step' = [step EXCEPT ![t] = "value"]
        /\ timestamps' = Tail(timestamps)
        /\ raced' = raced \cup {u \in Threads \ {t} : step[u] \in {"head", "timestamp", "value"}}
        /\ UNCHANGED <<clock, points, values, now, failed>>
    BY <1>2 DEF PopTimestamp, Overtakes, Go
  <2>2. /\ Len(timestamps) \in Nat /\ Len(timestamps) > 0 /\ Len(timestamps') = Len(timestamps) - 1
        /\ \A i \in 1 .. Len(timestamps') : timestamps'[i] = timestamps[i + 1]
        /\ Len(values) \in Nat /\ points \in Nat
    BY <1>0, <1>2, <2>1, TailFacts DEF TypeOK
  <2>3. /\ Pending' = Pending /\ Pending \in {0, 1}
        /\ AtValue("loop")' + AtValue("log")' = AtValue("loop") + AtValue("log") + 1
        /\ AtValue("loop") \in {0, 1} /\ AtValue("log") \in {0, 1}
        /\ AtValue("loop")' \in {0, 1} /\ AtValue("log")' \in {0, 1}
    BY <1>0, <2>1 DEF Pending, AtValue, TypeOK, Threads
  <2>4. Lengths'
    <3>1. step["log"] = "dead" <=> step'["log"] = "dead"
      BY <1>0, <2>1 DEF TypeOK, Threads
    <3> QED
      BY <1>0, <2>1, <2>2, <2>3, <3>1 DEF Lengths
  <2>5. Numbers'
    <3>1. ASSUME NEW i \in 1 .. Len(timestamps')
          PROVE  timestamps'[i].number = points' - Len(timestamps') + i
      <4>1. i + 1 \in 1 .. Len(timestamps) /\ timestamps'[i] = timestamps[i + 1]
        BY <2>2
      <4>2. timestamps[i + 1].number = points - Len(timestamps) + (i + 1)
        BY <1>0, <4>1 DEF Numbers
      <4>3. points - Len(timestamps) + (i + 1) = points - (Len(timestamps) - 1) + i
        BY <2>2
      <4> QED
        BY <2>1, <2>2, <4>1, <4>2, <4>3, Zenon
    <3> QED
      BY <1>0, <2>1, <2>3, <3>1 DEF Numbers
  <2>6. SamePoint'
    <3>1. \A i \in 1 .. Len(timestamps') : i + 1 \in 1 .. Len(timestamps)
      BY <2>2
    <3>2. step'["loop"] = "append" => step["loop"] = "append"
      BY <1>0, <2>1 DEF TypeOK, Threads
    <3> QED
      BY <1>0, <2>1, <2>2, <3>1, <3>2 DEF SamePoint
  <2>7. Clocks'
    BY <1>0, <2>1 DEF Clocks, TypeOK, Threads
  <2>8. ASSUME t \notin raced, step["loop"] = "append" PROVE timestamps' # <<>>
    <3>1. t = "log"
      BY <2>1, <2>8 DEF Threads
    <3>2. SUFFICES ASSUME Len(timestamps) = 1 PROVE FALSE
      BY <2>2
    <3>3. timestamps[1].number = points
      BY <1>0, <2>2, <3>2 DEF Numbers
    <3>4. timestamps[1].time = now["loop"]
      BY <1>0, <2>8, <3>2, <3>3 DEF SamePoint
    <3>5. now["loop"] < now["log"] - sliding_window_size
      BY <1>0, <2>1, <2>8, <3>1, <3>4 DEF Threaded, Seen, Expired, Threads
    <3>6. now["log"] <= now["loop"] + sliding_window_size
      BY <1>0, <2>8, RequestStatsWindowAssumption DEF Clocks, TypeOK, Threads
    <3> QED
      BY <1>0, <3>5, <3>6, RequestStatsWindowAssumption DEF TypeOK, Threads
  <2>9. Seen'
    BY <1>0, <2>1, <2>8 DEF Seen, TypeOK, Threads
  <2>10. Threaded'
    BY <1>0, <2>1, <2>7, <2>9 DEF Threaded, TypeOK, Threads
  <2> QED
    BY <2>4, <2>5, <2>6, <2>10, Assemble
<1> QED
  BY <1>1, <1>2

\* Its value is removed.
LEMMA PopValueNext == ASSUME IInv, TypeOK', NEW t \in Threads, PopValue(t) PROVE IInv'
<1>0. TypeOK /\ Clocks /\ Lengths /\ Numbers /\ SamePoint /\ Threaded
  BY DEF IInv, Threaded
<1>1. CASE values = <<>>
  BY <1>1, RaiseNext DEF PopValue
<1>2. CASE values # <<>>
  <2>1. /\ step[t] = "value" /\ step' = [step EXCEPT ![t] = "test"]
        /\ values' = Tail(values)
        /\ raced' = raced \cup {u \in Threads \ {t} : step[u] \in {"head", "timestamp", "value"}}
        /\ UNCHANGED <<clock, points, timestamps, now, failed>>
    BY <1>2 DEF PopValue, Popped, Rest, Overtakes, Go
  <2>2. /\ Len(values) \in Nat /\ Len(values) > 0 /\ Len(values') = Len(values) - 1
        /\ \A i \in 1 .. Len(values') : values'[i] = values[i + 1]
        /\ Len(timestamps) \in Nat /\ points \in Nat
    BY <1>0, <1>2, <2>1, TailFacts DEF TypeOK
  <2>3. /\ Pending' = Pending /\ Pending \in {0, 1}
        /\ AtValue("loop") + AtValue("log") = AtValue("loop")' + AtValue("log")' + 1
        /\ AtValue("loop") \in {0, 1} /\ AtValue("log") \in {0, 1}
        /\ AtValue("loop")' \in {0, 1} /\ AtValue("log")' \in {0, 1}
    BY <1>0, <2>1 DEF Pending, AtValue, TypeOK, Threads
  <2>4. Lengths'
    <3>1. step["log"] = "dead" <=> step'["log"] = "dead"
      BY <1>0, <2>1 DEF TypeOK, Threads
    <3> QED
      BY <1>0, <2>1, <2>2, <2>3, <3>1 DEF Lengths
  <2>5. Numbers'
    <3>1. ASSUME NEW i \in 1 .. Len(values')
          PROVE  values'[i].number = points' - Pending' - Len(values') + i
      <4>1. i + 1 \in 1 .. Len(values) /\ values'[i] = values[i + 1]
        BY <2>2
      <4>2. values[i + 1].number = points - Pending - Len(values) + (i + 1)
        BY <1>0, <4>1 DEF Numbers
      <4>3. points - Pending - Len(values) + (i + 1) = points - Pending - (Len(values) - 1) + i
        BY <2>2, <2>3
      <4> QED
        BY <2>1, <2>2, <2>3, <4>1, <4>2, <4>3, Zenon
    <3> QED
      BY <1>0, <2>1, <3>1 DEF Numbers
  <2>6. SamePoint'
    <3>1. \A i \in 1 .. Len(values') : i + 1 \in 1 .. Len(values)
      BY <2>2
    <3>2. step'["loop"] = "append" => step["loop"] = "append"
      BY <1>0, <2>1 DEF TypeOK, Threads
    <3> QED
      BY <1>0, <2>1, <2>2, <3>1, <3>2 DEF SamePoint
  <2>7. Clocks'
    BY <1>0, <2>1 DEF Clocks, TypeOK, Threads
  <2>8. Seen'
    BY <1>0, <2>1 DEF Seen, TypeOK, Threads
  <2>9. Threaded'
    BY <1>0, <2>1, <2>7, <2>8 DEF Threaded, TypeOK, Threads
  <2> QED
    BY <2>4, <2>5, <2>6, <2>9, Assemble
<1> QED
  BY <1>1, <1>2

LEMMA InvNext == IInv /\ [Next]_vars => IInv'
<1> SUFFICES ASSUME IInv, [Next]_vars PROVE IInv'
  OBVIOUS
<1>1. TypeOK'
  BY TypeNext
<1> QED
  BY <1>1, AsideNext, UpdateNext, AppendNext, HeadNext, PopTimestampNext, PopValueNext DEF Next
-----------------------------------------------------------------------------
LEMMA Invariance == Spec => []IInv
<1>1. IInv /\ [Next]_vars => IInv'
  BY InvNext
<1> QED
  BY InvInit, <1>1, PTL DEF Spec

\* Every reachable state has the declared types; an exception never ends the
\* event loop's part.
THEOREM TypeCorrect == Spec => []TypeOK
<1>1. IInv => TypeOK
  BY DEF IInv
<1> QED
  BY <1>1, Invariance, PTL

\* For every window, whatever two threads removed at once: with no call in
\* progress the deques of MovingAverageMonitor hold the same data points.
THEOREM DequesInSync == Spec => []InSync
<1>1. IInv => InSync
  <2> SUFFICES ASSUME IInv, step = [t \in Threads |-> "idle"] PROVE timestamps = values
    BY DEF InSync
  <2>1. TypeOK /\ Lengths /\ Numbers /\ SamePoint
    BY DEF IInv
  <2>2. step["loop"] = "idle" /\ step["log"] = "idle"
    BY DEF Threads
  <2>3. Pending = 0 /\ AtValue("loop") = 0 /\ AtValue("log") = 0
    BY <2>2 DEF Pending, AtValue
  <2>4. Len(timestamps) \in Nat /\ Len(timestamps) = Len(values) /\ points \in Nat
    BY <2>1, <2>2, <2>3 DEF Lengths, TypeOK
  <2>5. ASSUME NEW i \in 1 .. Len(timestamps) PROVE timestamps[i] = values[i]
    <3>1. timestamps[i].number = values[i].number
      BY <2>1, <2>3, <2>4 DEF Numbers
    <3>2. timestamps[i].time = values[i].time
      BY <2>1, <2>4, <3>1 DEF SamePoint
    <3>3. timestamps[i] \in Points /\ values[i] \in Points
      BY <2>1, <2>4 DEF TypeOK
    <3> QED
      BY <3>1, <3>2, <3>3 DEF Points
  <2> QED
    BY <2>1, <2>4, <2>5, SeqEqual DEF TypeOK
<1> QED
  BY <1>1, Invariance, PTL

\* A call that ends with an IndexError was overtaken by the other thread: one
\* thread alone never removes from an empty deque.
THEOREM OnlyRacedRaises == Spec => []RaisesOnlyRaced
<1>1. IInv => RaisesOnlyRaced
  BY DEF IInv, RaisesOnlyRaced
<1> QED
  BY <1>1, Invariance, PTL

\* A data point that is still in the window is removed only by a call that
\* was overtaken.
THEOREM OnlyExpiredRemoved == Spec => RemovesExpired
<1>1. ASSUME IInv, [Next]_vars
      PROVE  [\A t \in Threads : step[t] = "timestamp" /\ step'[t] = "value"
                => t \in raced \/ OutOfWindow(Head(timestamps), t)]_vars
  <2> SUFFICES ASSUME NEW t \in Threads, step[t] = "timestamp", t \notin raced
               PROVE  OutOfWindow(Head(timestamps), t)
    OBVIOUS
  <2>0. Seen /\ TypeOK
    BY <1>1 DEF IInv
  <2>1. timestamps # <<>> /\ Expired(timestamps[1], t) /\ TypeOK
    BY <2>0 DEF Seen
  <2>2. timestamps[1] = Head(timestamps) /\ timestamps[1] \in Points
    BY <2>1, TailFacts, HeadTailProperties DEF TypeOK
  <2>3. timestamps[1].time \in Int /\ now[t] \in Int /\ sliding_window_size \in Int
    BY <2>1, <2>2, RequestStatsWindowAssumption DEF TypeOK, Points
  <2> QED
    BY <2>1, <2>2, <2>3 DEF Expired, OutOfWindow
<1> QED
  BY <1>1, Invariance, PTL DEF Spec, RemovesExpired
-----------------------------------------------------------------------------
(* What a result counts.  The timestamps are in order and none lies in the   *)
(* future of the event loop, so a thread that found the first one in its     *)
(* window has all of them there, also those that are added afterwards.       *)

Sorted ==
    \A i \in 1 .. Len(timestamps) :
        /\ timestamps[i].time <= now["loop"]
        /\ \A j \in i .. Len(timestamps) : timestamps[i].time <= timestamps[j].time

InWindow ==
    \A t \in Threads : step[t] = "result" =>
        \A i \in 1 .. Len(timestamps) : ~OutOfWindow(timestamps[i], t)

WindowInv == Sorted /\ InWindow /\ ExposedFresh

\* The numbers that are compared.
LEMMA Times ==
    ASSUME TypeOK
    PROVE  /\ clock \in Nat /\ points \in Nat /\ gauge \in Int /\ sliding_window_size \in Nat
           /\ \A t \in Threads : now[t] \in Nat
           /\ now["loop"] \in Nat /\ now["log"] \in Nat
           /\ Len(timestamps) \in Nat
           /\ \A i \in 1 .. Len(timestamps) : timestamps[i].time \in Nat
<1>1. \A i \in 1 .. Len(timestamps) : timestamps[i] \in Points
  BY ElementOfSeq DEF TypeOK
<1>2. Len(timestamps) \in Nat
  BY LenProperties DEF TypeOK
<1> QED
  BY <1>1, <1>2, RequestStatsWindowAssumption DEF TypeOK, Points, Threads

LEMMA WindowInit == Init => WindowInv
  BY DEF Init, WindowInv, Sorted, InWindow, ExposedFresh, Threads

\* A step that leaves the timestamps alone and lets no thread come to a result.
LEMMA WindowAside ==
    ASSUME IInv, IInv', WindowInv, UNCHANGED timestamps,
           now'["loop"] >= now["loop"],
           \A t \in Threads : step'[t] = "result" => step[t] = "result" /\ now'[t] = now[t]
    PROVE  Sorted' /\ InWindow'
<1> USE Times DEF IInv, WindowInv
<1>1. Sorted'
  <2>1. ASSUME NEW i \in 1 .. Len(timestamps)
        PROVE  /\ timestamps[i].time <= now'["loop"]
               /\ \A j \in i .. Len(timestamps) : timestamps[i].time <= timestamps[j].time
    <3>1. timestamps[i].time \in Nat /\ timestamps[i].time <= now["loop"] /\ now["loop"] \in Nat
      BY DEF Sorted
    <3>2. now'["loop"] \in Nat
      BY DEF IInv, TypeOK, Threads
    <3> QED
      BY <3>1, <3>2 DEF Sorted
  <2> QED
    BY <2>1 DEF Sorted
<1>2. InWindow'
  BY DEF InWindow, OutOfWindow
<1> QED
  BY <1>1, <1>2

\* ExposedFresh is about the event loop's own call, but for LogGauge.
LEMMA FreshAside ==
    ASSUME IInv, WindowInv, UNCHANGED <<points, gauge>>,
           step'["loop"] = "expose" => points = 0 \/ (step["loop"] = "expose" /\ now'["loop"] = now["loop"])
    PROVE  ExposedFresh'
  BY DEF WindowInv, ExposedFresh

LEMMA WindowNext == IInv /\ IInv' /\ WindowInv /\ [Next]_vars => WindowInv'
<1> SUFFICES ASSUME IInv, IInv', WindowInv, [Next]_vars PROVE WindowInv'
  OBVIOUS
<1>0. TypeOK /\ TypeOK' /\ Clocks /\ Clocks' /\ Sorted /\ InWindow /\ ExposedFresh
  BY DEF IInv, WindowInv
<1>t. DOMAIN step = Threads /\ DOMAIN now = Threads
  BY <1>0 DEF TypeOK
<1> USE DEF Threads
<1>1. CASE Tick \/ UNCHANGED vars
  BY <1>0, <1>1, WindowAside, FreshAside, Times DEF Tick, vars, WindowInv
<1>2. CASE OnNewRequest
  <2>1. /\ step' = [step EXCEPT !["loop"] = "update"] /\ now' = [now EXCEPT !["loop"] = clock]
        /\ UNCHANGED <<points, timestamps, gauge>>
    BY <1>2 DEF OnNewRequest, Call, Go
  <2>2. now'["loop"] >= now["loop"]
    BY <1>0, <1>t, <2>1, Times DEF Clocks
  <2> QED
    BY <1>0, <1>t, <2>1, <2>2, WindowAside, FreshAside DEF WindowInv
<1>3. CASE Update
  <2>1. /\ step' = [step EXCEPT !["loop"] = "append"] /\ step["loop"] = "update"
        /\ timestamps' = Append(timestamps, [time |-> now["loop"], number |-> points'])
        /\ UNCHANGED <<clock, now>>
    BY <1>3 DEF Update, Go
  <2>2. /\ Len(timestamps') = Len(timestamps) + 1
        /\ \A i \in 1 .. Len(timestamps) : timestamps'[i] = timestamps[i]
        /\ timestamps'[Len(timestamps')].time = now["loop"]
    <3>1. [time |-> now["loop"], number |-> points'] \in Points
      <4>1. points < MaxPoints /\ points' = points + 1
        BY <1>3, Zenon DEF Update, IInv
      <4>2. points \in 0 .. MaxPoints /\ now["loop"] \in 0 .. MaxTime
        BY <1>0 DEF TypeOK
      <4> QED
        BY <4>1, <4>2, RequestStatsWindowAssumption DEF Points
    <3> QED
      BY <1>0, <2>1, <3>1, AppendProperties DEF TypeOK
  <2>3. \A i \in 1 .. Len(timestamps') : i \in 1 .. Len(timestamps) \/ i = Len(timestamps')
    BY <1>0, <2>2, Times
  <2>4. Sorted'
    <3> SUFFICES ASSUME NEW i \in 1 .. Len(timestamps'), NEW j \in i .. Len(timestamps')
                 PROVE  /\ timestamps'[i].time <= now["loop"]
                        /\ timestamps'[i].time <= timestamps'[j].time
      BY <2>1, Times, <1>0 DEF Sorted
    <3>1. j \in 1 .. Len(timestamps')
      BY <1>0, Times
    <3>2. timestamps'[i].time <= now["loop"]
      BY <1>0, <2>2, <2>3, Times DEF Sorted
    <3>3. CASE j = Len(timestamps')
      BY <2>2, <3>2, <3>3
    <3>4. CASE j # Len(timestamps')
      <4>1. i \in 1 .. Len(timestamps) /\ j \in i .. Len(timestamps) /\ j \in 1 .. Len(timestamps)
        BY <1>0, <2>2, <3>1, <3>4, Times
      <4> QED
        BY <1>0, <2>2, <4>1 DEF Sorted
    <3> QED
      BY <3>2, <3>3, <3>4
  <2>5. InWindow'
    <3> SUFFICES ASSUME NEW t \in Threads, step'[t] = "result", NEW i \in 1 .. Len(timestamps')
                 PROVE  ~OutOfWindow(timestamps'[i], t)
      BY <2>1 DEF InWindow, OutOfWindow
    <3>1. t = "log" /\ step["log"] = "result"
      BY <1>t, <2>1
    <3>2. now["log"] <= now["loop"] + sliding_window_size
      BY <1>0, <2>1, Times DEF Clocks
    <3> QED
      <4>1. CASE i \in 1 .. Len(timestamps)
        BY <1>0, <2>2, <3>1, <4>1, Zenon DEF InWindow, OutOfWindow
      <4>2. CASE i = Len(timestamps')
        BY <1>0, <2>2, <3>1, <3>2, <4>2, Times DEF OutOfWindow
      <4> QED
        BY <2>3, <4>1, <4>2
  <2>6. ExposedFresh'
    BY <1>t, <2>1 DEF ExposedFresh
  <2> QED
    BY <2>4, <2>5, <2>6 DEF WindowInv
<1>4. CASE AppendValue
  <2>1. step' = [step EXCEPT !["loop"] = "test"] /\ UNCHANGED <<points, timestamps, now, gauge>>
    BY <1>4 DEF AppendValue, Go
  <2> QED
    BY <1>0, <1>t, <2>1, WindowAside, FreshAside, Times DEF WindowInv
<1>5. ASSUME NEW t \in Threads, UpdateNoValue(t) PROVE WindowInv'
  <2>1. /\ now' = [now EXCEPT ![t] = clock]
        /\ UNCHANGED <<clock, points, timestamps, gauge>>
    BY <1>5 DEF UpdateNoValue, Call
  <2>2. PICK s \in {"test", "idle", "gauge", "expose"} :
           step' = [step EXCEPT ![t] = s] /\ (s = "expose" => points = 0)
    <3>1. CASE points > 0
      BY <1>5, <3>1 DEF UpdateNoValue, Go
    <3>2. CASE points = 0
      <4>1. step[t] = "idle" /\ Go(t, Report(t, step["loop"] = "update"))
        BY <1>5, <3>2 DEF UpdateNoValue, Call
      <4>2. Report(t, step["loop"] = "update") \in {"idle", "gauge", "expose"}
        BY DEF Report
      <4> QED
        BY <3>2, <4>1, <4>2, Zenon DEF Go
    <3> QED
      BY <1>0, <3>1, <3>2, Times
  <2>3. now'["loop"] >= now["loop"]
    BY <1>0, <1>t, <2>1, Times DEF Clocks
  <2> QED
    BY <1>0, <1>t, <2>1, <2>2, <2>3, WindowAside, FreshAside DEF WindowInv
<1>6. ASSUME NEW t \in Threads, Test(t) PROVE WindowInv'
  <2>1. PICK s \in {"head", "result"} :
           step' = [step EXCEPT ![t] = s] /\ (s = "result" => timestamps = <<>>)
    BY <1>6, Zenon DEF Test, Go, NotEmpty
  <2>2. UNCHANGED <<points, timestamps, now, gauge>>
    BY <1>6 DEF Test
  <2>3. Sorted' /\ ExposedFresh'
    BY <1>0, <1>t, <2>1, <2>2, FreshAside DEF Sorted
  <2>4. InWindow'
    BY <1>0, <1>t, <2>1, <2>2 DEF InWindow, OutOfWindow
  <2> QED
    BY <2>3, <2>4 DEF WindowInv
<1>7. ASSUME NEW t \in Threads, ReadHead(t) PROVE WindowInv'
  <2>1. UNCHANGED <<points, timestamps, now, gauge>>
    BY <1>7 DEF ReadHead, Raise
  <2>2. PICK s \in {"dead", "idle", "timestamp", "result"} :
           /\ step' = [step EXCEPT ![t] = s]
           /\ s = "result" => timestamps # <<>> /\ ~Expired(Head(timestamps), t)
    BY <1>7 DEF ReadHead, Raise, Go, AfterError
  <2>3. Sorted' /\ ExposedFresh'
    BY <1>0, <1>t, <2>1, <2>2, FreshAside DEF Sorted
  <2>4. ASSUME s = "result", NEW i \in 1 .. Len(timestamps) PROVE ~OutOfWindow(timestamps[i], t)
    <3>1. 1 \in 1 .. Len(timestamps) /\ i \in 1 .. Len(timestamps) /\ ~Expired(timestamps[1], t)
      BY <1>0, <2>2, <2>4, TailFacts DEF TypeOK
    <3>2. timestamps[1].time <= timestamps[i].time
      BY <1>0, <3>1 DEF Sorted
    <3>3. /\ timestamps[1].time \in Nat /\ timestamps[i].time \in Nat
          /\ now[t] \in Nat /\ sliding_window_size \in Nat
      BY <1>0, <3>1, Times
    <3> QED
      BY <3>1, <3>2, <3>3 DEF Expired, OutOfWindow
  <2>5. InWindow'
    BY <1>0, <1>t, <2>1, <2>2, <2>4 DEF InWindow, OutOfWindow
  <2> QED
    BY <2>3, <2>5 DEF WindowInv
<1>8. ASSUME NEW t \in Threads, PopTimestamp(t) PROVE WindowInv'
  <2>1. PICK s \in {"dead", "idle", "value"} : step' = [step EXCEPT ![t] = s]
    BY <1>8 DEF PopTimestamp, Raise, Go, AfterError
  <2>2. UNCHANGED <<points, now, gauge>>
    BY <1>8 DEF PopTimestamp
  <2>3. ExposedFresh'
    BY <1>0, <1>t, <2>1, <2>2, FreshAside
  <2>4. CASE UNCHANGED timestamps
    BY <1>0, <1>t, <2>1, <2>2, <2>3, <2>4, WindowAside, Times DEF WindowInv
  <2>5. CASE timestamps # <<>> /\ timestamps' = Tail(timestamps)
    <3>1. /\ Len(timestamps') = Len(timestamps) - 1
          /\ \A i \in 1 .. Len(timestamps') : timestamps'[i] = timestamps[i + 1]
      BY <1>0, <2>5, TailFacts DEF TypeOK
    <3>2. \A i \in 1 .. Len(timestamps') :
             /\ i + 1 \in 1 .. Len(timestamps)
             /\ \A j \in i .. Len(timestamps') : j \in 1 .. Len(timestamps') /\ j + 1 \in i + 1 .. Len(timestamps)
      BY <1>0, <3>1, Times
    <3>3. Sorted'
      <4> SUFFICES ASSUME NEW i \in 1 .. Len(timestamps'), NEW j \in i .. Len(timestamps')
                   PROVE  /\ timestamps'[i].time <= now["loop"]
                          /\ timestamps'[i].time <= timestamps'[j].time
        BY <1>0, <2>2, <3>2, Times DEF Sorted
      <4>1. i + 1 \in 1 .. Len(timestamps) /\ j \in 1 .. Len(timestamps') /\ j + 1 \in i + 1 .. Len(timestamps)
        BY <3>2
      <4>2. timestamps[i + 1].time <= timestamps[j + 1].time /\ timestamps[i + 1].time <= now["loop"]
        BY <1>0, <4>1 DEF Sorted
      <4> QED
        BY <3>1, <4>1, <4>2
    <3>4. InWindow'
      BY <1>0, <1>t, <2>1, <2>2, <3>1, <3>2 DEF InWindow, OutOfWindow
    <3> QED
      BY <2>3, <3>3, <3>4 DEF WindowInv
  <2> QED
    BY <1>8, <2>4, <2>5 DEF PopTimestamp, Raise
<1>9. ASSUME NEW t \in Threads, PopValue(t) PROVE WindowInv'
  <2>1. PICK s \in {"dead", "idle", "test"} : step' = [step EXCEPT ![t] = s]
    BY <1>9 DEF PopValue, Popped, Raise, Go, AfterError
  <2>2. UNCHANGED <<points, timestamps, now, gauge>>
    BY <1>9 DEF PopValue, Raise
  <2> QED
    BY <1>0, <1>t, <2>1, <2>2, WindowAside, FreshAside, Times DEF WindowInv
<1>10. ASSUME NEW t \in Threads, Result(t) PROVE WindowInv'
  <2>1. PICK s \in {"idle", "gauge"} : step' = [step EXCEPT ![t] = s]
    BY <1>10, Zenon DEF Result, Go, Report
  <2>2. UNCHANGED <<points, timestamps, now, gauge>>
    BY <1>10 DEF Result
  <2> QED
    BY <1>0, <1>t, <2>1, <2>2, WindowAside, FreshAside, Times DEF WindowInv
<1>11. CASE LogGauge
  <2>1. /\ step["log"] = "gauge" /\ step' = [step EXCEPT !["log"] = "idle"]
        /\ gauge' \in {gauge, now["log"]} /\ UNCHANGED <<points, timestamps, now>>
    BY <1>11 DEF LogGauge, Go
  <2>2. now["log"] + sliding_window_size >= now["loop"]
    BY <1>0, <2>1, Times DEF Clocks
  <2>3. ExposedFresh'
    BY <1>0, <1>t, <2>1, <2>2 DEF ExposedFresh
  <2> QED
    BY <1>0, <1>t, <2>1, <2>3, WindowAside, Times DEF WindowInv
<1>12. CASE MetricsGauge \/ Expose
  <2>1. PICK s \in {"expose", "idle"} :
           /\ step' = [step EXCEPT !["loop"] = s]
           /\ s = "expose" => gauge' = now["loop"]
    BY <1>12 DEF MetricsGauge, Shown, Expose, Go
  <2>2. UNCHANGED <<points, timestamps, now>>
    BY <1>12 DEF MetricsGauge, Expose
  <2>3. ExposedFresh'
    BY <1>0, <1>t, <2>1, <2>2, Times DEF ExposedFresh
  <2> QED
    BY <1>0, <1>t, <2>1, <2>2, <2>3, WindowAside, Times DEF WindowInv
<1> QED
  BY <1>1, <1>2, <1>3, <1>4, <1>5, <1>6, <1>7, <1>8, <1>9, <1>10, <1>11, <1>12 DEF Next

LEMMA WindowInvariance == Spec => [](IInv /\ WindowInv)
<1>1. IInv /\ WindowInv /\ [Next]_vars => WindowInv'
  BY InvNext, WindowNext
<1> QED
  BY Invariance, WindowInit, <1>1, PTL DEF Spec

\* For every window and any number of data points, a rate or an average of
\* MovingAverageMonitor counts at most one value that has left the window:
\* besides the first, every value has its timestamp, and that is in the window.
THEOREM OneExpiredCounted == Spec => []ExpiredCounted
<1>1. IInv /\ WindowInv => ExpiredCounted
  <2> SUFFICES ASSUME IInv, WindowInv, NEW t \in Threads, step[t] = "result", step["log"] # "dead"
               PROVE  Cardinality({i \in DOMAIN values : OutOfWindow(values[i], t)}) <= 1
    BY DEF ExpiredCounted
  <2>0. TypeOK /\ Lengths /\ Numbers /\ SamePoint /\ InWindow
    BY DEF IInv, WindowInv
  <2>1. /\ Len(values) \in Nat /\ DOMAIN values = 1 .. Len(values)
        /\ Len(timestamps) \in Nat /\ points \in Nat
    BY <2>0, LenProperties, Times DEF TypeOK
  <2>2. /\ Pending \in {0, 1}
        /\ Len(timestamps) + 1 >= Len(values) + Pending
    <3>1. AtValue("loop") + AtValue("log") \in {0, 1} /\ Pending \in {0, 1}
      BY DEF AtValue, Pending, Threads
    <3>2. AtValue("loop") \in {0, 1} /\ AtValue("log") \in {0, 1}
      BY DEF AtValue
    <3>3. Len(timestamps) + AtValue("loop") + AtValue("log") = Len(values) + Pending
      BY <2>0 DEF Lengths
    <3> QED
      BY <2>1, <3>1, <3>2, <3>3
  <2>3. ASSUME NEW i \in 1 .. Len(values), i # 1 PROVE ~OutOfWindow(values[i], t)
    <3> DEFINE k == Len(timestamps) - Pending - Len(values) + i
    <3>1. k \in 1 .. Len(timestamps)
      BY <2>1, <2>2, <2>3
    <3>2. timestamps[k].number = values[i].number
      <4>1. timestamps[k].number = points - Len(timestamps) + k
        BY <2>0, <3>1 DEF Numbers
      <4>2. values[i].number = points - Pending - Len(values) + i
        BY <2>0 DEF Numbers
      <4> QED
        BY <2>1, <2>2, <4>1, <4>2
    <3>3. timestamps[k].time = values[i].time /\ ~OutOfWindow(timestamps[k], t)
      BY <2>0, <3>1, <3>2 DEF SamePoint, InWindow
    <3> QED
      BY <3>3 DEF OutOfWindow
  <2> DEFINE Old == {i \in DOMAIN values : OutOfWindow(values[i], t)}
  <2>4. Old = {} \/ Old = {1}
    BY <2>1, <2>3
  <2>5. Cardinality({}) = 0 /\ Cardinality({1}) = 1
    BY FS_EmptySet, FS_Singleton, Zenon
  <2> QED
    BY <2>4, <2>5
<1> QED
  BY <1>1, WindowInvariance, PTL

\* What /metrics answers with was computed by this very call, or by a call of
\* log_stats in progress at the same time and no more than a window older.
THEOREM MetricsFresh == Spec => []ExposedFresh
<1>1. WindowInv => ExposedFresh
  BY DEF WindowInv
<1> QED
  BY <1>1, WindowInvariance, PTL
=============================================================================
