-------------------------- MODULE RequestStatsWindow --------------------------
(***************************************************************************)
(* MovingAverageMonitor (request_stats.py): the sliding window behind the    *)
(* rates and averages of RequestStatsMonitor, here the qps monitor of one    *)
(* engine.  There is no lock.  The event loop updates it (on_new_request)    *)
(* and reads it (route_general_request, /metrics), and the thread of         *)
(* log_stats reads it at the same time; reading removes what has expired.    *)
(* Both readers set the same Prometheus gauge, which /metrics answers with.  *)
(*                                                                           *)
(* A step is one operation on a deque: another thread may run between any    *)
(* two.  An entry of either deque is the data point it belongs to.           *)
(***************************************************************************)
EXTENDS Integers, Sequences, FiniteSets

CONSTANTS
    sliding_window_size,
    MaxPoints,  \* bound on the data points
    MaxTime     \* bound on the clock

ASSUME RequestStatsWindowAssumption ==
    sliding_window_size \in Nat /\ MaxPoints \in Nat /\ MaxTime \in Nat

VARIABLES
    clock,
    points,              \* how many data points there were
    timestamps, values,  \* the two deques
    step,                \* where each thread is
    now,                 \* the time each thread was called with
    call,                \* what the event loop is doing
    gauge,               \* current_qps: when the value in it was asked for,
                         \* -1 if it was never set
    failed,              \* threads whose call ended with an exception
    raced                \* history: threads that were overtaken in their call
                         \* by the other one removing a data point

vars == <<clock, points, timestamps, values, step, now, call, gauge, failed, raced>>

Threads == {"loop", "log"}
Points == [time : 0 .. MaxTime, number : 1 .. MaxPoints]

TypeOK ==
    /\ clock \in 0 .. MaxTime /\ points \in 0 .. MaxPoints
    /\ timestamps \in Seq(Points) /\ values \in Seq(Points)
    /\ step \in [Threads -> {"idle", "update", "append", "test", "head", "timestamp",
                            "value", "result", "gauge", "expose", "dead"}]
    /\ step["loop"] # "dead" /\ step["log"] \notin {"update", "append", "expose"}
    /\ call \in {"new_request", "route", "metrics"} /\ gauge \in -1 .. MaxTime
    /\ now \in [Threads -> 0 .. MaxTime]
    /\ failed \subseteq Threads /\ raced \subseteq Threads

Init ==
    /\ clock = 0 /\ points = 0
    /\ timestamps = <<>> /\ values = <<>>
    /\ step = [t \in Threads |-> "idle"] /\ now = [t \in Threads |-> 0]
    /\ call = "route" /\ gauge = -1
    /\ failed = {} /\ raced = {}

\* A call takes no longer than the window is wide (a minute by default).
Tick ==
    /\ \A t \in Threads : step[t] \notin {"idle", "dead"} => clock < now[t] + sliding_window_size
    /\ clock < MaxTime /\ clock' = clock + 1
    /\ UNCHANGED <<points, timestamps, values, step, now, call, gauge, failed, raced>>

Go(t, s) == step' = [step EXCEPT ![t] = s]
Call(t) ==
    /\ step[t] = "idle"
    /\ now' = [now EXCEPT ![t] = clock]
    /\ failed' = failed \ {t} /\ raced' = raced \ {t}

\* on_new_request: the engine gets its entry in in_prefill_requests, ...
OnNewRequest ==
    /\ points < MaxPoints
    /\ Call("loop") /\ Go("loop", "update") /\ call' = "new_request"
    /\ UNCHANGED <<clock, points, timestamps, values, gauge>>

\* ... its monitor, and update appends the timestamp ...
Update ==
    /\ step["loop"] = "update" /\ Go("loop", "append")
    /\ points' = points + 1
    /\ timestamps' = Append(timestamps, [time |-> now["loop"], number |-> points'])
    /\ UNCHANGED <<clock, values, now, call, gauge, failed, raced>>

\* ... and the value
AppendValue ==
    /\ step["loop"] = "append" /\ Go("loop", "test")
    /\ values' = Append(values, [time |-> now["loop"], number |-> points])
    /\ UNCHANGED <<clock, points, timestamps, now, call, gauge, failed, raced>>

\* Where a caller of get_request_stats goes on: route_general_request picks
\* an engine, metrics and log_stats set the gauge if there is an entry.
Report(t, entry) ==
    IF t = "loop" /\ call' = "route" THEN "idle"
    ELSE IF entry THEN "gauge"
    ELSE IF t = "loop" THEN "expose" ELSE "idle"

\* get_request_stats: no entry for the engine, -1 without a monitor (before
\* its first data point), or update_no_value
UpdateNoValue(t) ==
    /\ Call(t)
    /\ IF t = "loop" THEN call' \in {"route", "metrics"} ELSE UNCHANGED call
    /\ LET entry == points > 0 \/ step["loop"] = "update"
       IN  Go(t, IF points > 0 THEN "test" ELSE Report(t, entry))
    /\ UNCHANGED <<clock, points, timestamps, values, gauge>>

\* An exception ends a request, and the thread of log_stats.
AfterError(t) == IF t = "log" THEN "dead" ELSE "idle"
Raise(t) ==
    /\ Go(t, AfterError(t)) /\ failed' = failed \cup {t}
    /\ UNCHANGED <<timestamps, values, raced>>

\* while self.timestamps ...
NotEmpty == timestamps # <<>>
Test(t) ==
    /\ step[t] = "test"
    /\ Go(t, IF NotEmpty THEN "head" ELSE "result")
    /\ UNCHANGED <<clock, points, timestamps, values, now, call, gauge, failed, raced>>

\* ... and self.timestamps[0] < timestamp - self.sliding_window_size
Expired(p, t) == p.time < now[t] - sliding_window_size
ReadHead(t) ==
    /\ step[t] = "head"
    /\ \/ timestamps = <<>> /\ Raise(t)
       \/ /\ timestamps # <<>>
          /\ Go(t, IF Expired(Head(timestamps), t) THEN "timestamp" ELSE "result")
          /\ UNCHANGED <<timestamps, values, failed, raced>>
    /\ UNCHANGED <<clock, points, now, call, gauge>>

\* self.timestamps.popleft()
Overtakes(t) == raced' = raced \cup {u \in Threads \ {t} : step[u] \in {"head", "timestamp", "value"}}
PopTimestamp(t) ==
    /\ step[t] = "timestamp"
    /\ \/ timestamps = <<>> /\ Raise(t)
       \/ /\ timestamps # <<>> /\ timestamps' = Tail(timestamps)
          /\ Go(t, "value") /\ Overtakes(t) /\ UNCHANGED <<values, failed>>
    /\ UNCHANGED <<clock, points, now, call, gauge>>

\* self.values.popleft()
Popped_Once == "result"
Popped == "test"
Rest_All == values
Rest == Tail(values)
PopValue(t) ==
    /\ step[t] = "value"
    /\ \/ values = <<>> /\ Raise(t)
       \/ /\ values # <<>> /\ values' = Rest
          /\ Go(t, Popped) /\ Overtakes(t) /\ UNCHANGED <<timestamps, failed>>
    /\ UNCHANGED <<clock, points, now, call, gauge>>

\* on_new_request returns; get_request_stats returns get_sum / window
Result(t) ==
    /\ step[t] = "result" /\ UNCHANGED call
    /\ Go(t, IF t = "loop" /\ call = "new_request" THEN "idle" ELSE Report(t, TRUE))
    /\ UNCHANGED <<clock, points, timestamps, values, now, gauge, failed, raced>>

\* log_stats: set the gauge of the engine if it is among the endpoints
LogGauge ==
    /\ step["log"] = "gauge" /\ Go("log", "idle")
    /\ gauge' \in {gauge, now["log"]}
    /\ UNCHANGED <<clock, points, timestamps, values, now, call, failed, raced>>

\* metrics: set the gauge of every engine with an entry ...
Shown_Listed == gauge
Shown == now["loop"]
MetricsGauge ==
    /\ step["loop"] = "gauge" /\ Go("loop", "expose")
    /\ gauge' = Shown
    /\ UNCHANGED <<clock, points, timestamps, values, now, call, failed, raced>>

\* ... and answer with generate_latest, whatever the gauge holds by now
Expose ==
    /\ step["loop"] = "expose" /\ Go("loop", "idle")
    /\ UNCHANGED <<clock, points, timestamps, values, now, call, gauge, failed, raced>>

Next ==
    \/ Tick \/ OnNewRequest \/ Update \/ AppendValue \/ LogGauge \/ MetricsGauge \/ Expose
    \/ \E t \in Threads : \/ UpdateNoValue(t) \/ Test(t) \/ ReadHead(t)
                          \/ PopTimestamp(t) \/ PopValue(t) \/ Result(t)
Spec == Init /\ [][Next]_vars
-----------------------------------------------------------------------------
OutOfWindow(p, t) == p.time + sliding_window_size < now[t]

\* At rest the two deques hold the same data points, so that a value leaves
\* the window with its timestamp, whatever two overlapping calls removed.
\* One thing can set them apart for good: the log thread ending with an
\* exception between its two removals.
InSync == (step = [t \in Threads |-> "idle"]) => timestamps = values

\* A data point still in the window is removed only by a call that another
\* thread overtook after it had looked at the first timestamp.
RemovesExpired ==
    [][\A t \in Threads :
          step[t] = "timestamp" /\ step'[t] = "value"
             => t \in raced \/ OutOfWindow(Head(timestamps), t)]_vars

\* A call raises only if it was overtaken like that: one thread alone never
\* reads or removes from an empty deque.
RaisesOnlyRaced == failed \subseteq raced

\* While the log thread lives, a rate or an average counts at most one value
\* that has expired, the one another thread is about to remove.
ExpiredCounted ==
    \A t \in Threads :
        step[t] = "result" /\ step["log"] # "dead" =>
           Cardinality({i \in DOMAIN values : OutOfWindow(values[i], t)}) <= 1

\* What /metrics answers is the rate it has just computed, or that of a log
\* call in progress at the same time, which is at most a window older: never
\* one left behind by a log thread that has ended or passed over the engine.
ExposedFresh ==
    step["loop"] = "expose" /\ points > 0 => gauge + sliding_window_size >= now["loop"]
=============================================================================
