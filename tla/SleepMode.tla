------------------------------ MODULE SleepMode ------------------------------
(***************************************************************************)
(* How the router learns that an engine sleeps.  POST /sleep and /wake_up   *)
(* are forwarded to the engine by route_sleep_wakeup_request (request.py),  *)
(* which then sets or removes the pod label "sleeping".  Only the change of *)
(* the label makes the API server issue an event; on it the watcher of      *)
(* K8sPodIPServiceDiscovery asks the engine /is_sleeping and replaces the   *)
(* endpoint's sleep flag, which route_general_request filters on.           *)
(*                                                                          *)
(* One engine pod, ready and listed throughout.  A patch that changes       *)
(* nothing issues no event (API server, external).                          *)
(***************************************************************************)
EXTENDS Integers, FiniteSets

CONSTANTS
    Calls,           \* calls of POST /sleep and /wake_up
    MaxOpen,         \* how many of them may be in progress at a time
    MaxCallFailures  \* bound on failing API server calls and engine queries

ASSUME SleepModeAssumption == MaxOpen \in Nat /\ MaxCallFailures \in Nat

VARIABLES
    call,         \* where each call is
    wants,        \* what it asks for: TRUE is /sleep
    is_asleep,    \* engine: its true state
    sleeping,     \* API server: the pod has the label
    events,       \* MODIFIED events the watcher has not read
    labelWatcher, \* "wait", or a query's answer on its way into the table
    sleep,        \* the sleep flag of the listed endpoint
    callFailures,
    alone,        \* history: the calls no other call has overlapped
    spoiled       \* history: calls overlapped, or a call or query failed that
                  \* would have informed, and no call has changed the label since

sleepVars ==
    <<call, wants, is_asleep, sleeping, events, labelWatcher, sleep, callFailures, alone,
      spoiled>>

CallSteps == {"new", "posting", "answered", "done", "error"}
Open == {c \in Calls : call[c] \in {"posting", "answered"}}

SleepTypeOK ==
    /\ call \in [Calls -> CallSteps]
    /\ wants \in [Calls -> BOOLEAN]
    /\ is_asleep \in BOOLEAN /\ sleeping \in BOOLEAN /\ sleep \in BOOLEAN
    /\ events \in Nat
    /\ labelWatcher \in {"wait", "query", "asleep", "awake"}
    /\ callFailures \in 0 .. MaxCallFailures
    /\ alone \subseteq Calls /\ spoiled \in BOOLEAN

\* The engine is awake or not when the router first lists it.
SleepInit ==
    /\ call = [c \in Calls |-> "new"]
    /\ wants = [c \in Calls |-> FALSE]
    /\ is_asleep \in BOOLEAN
    /\ sleeping = is_asleep
    /\ events = 0
    /\ labelWatcher = "wait"
    /\ sleep = is_asleep
    /\ callFailures = 0
    /\ alone = {} /\ spoiled = FALSE

-----------------------------------------------------------------------------
(* route_sleep_wakeup_request.  The engine's Id is known: it is listed.     *)

\* get_endpoint_info finds the engine; the POST is sent and awaited.
Receive(c, s) ==
    /\ call[c] = "new"
    /\ Cardinality(Open) < MaxOpen
    /\ call' = [call EXCEPT ![c] = "posting"]
    /\ wants' = [wants EXCEPT ![c] = s]
    /\ alone' = IF Open = {} THEN {c} ELSE {}
    /\ spoiled' = (spoiled \/ Open # {})
    /\ UNCHANGED <<is_asleep, sleeping, events, labelWatcher, sleep, callFailures>>

\* The engine does what it is asked and answers.
EngineActs(c) ==
    /\ call[c] = "posting"
    /\ is_asleep' = wants[c]
    /\ call' = [call EXCEPT ![c] = "answered"]
    /\ UNCHANGED <<wants, sleeping, events, labelWatcher, sleep, callFailures, alone, spoiled>>

\* The answer is an error or is lost: raise_for_status or client.post raises,
\* the label stays, and the engine may have done what it was asked.
PostFails(c) ==
    /\ call[c] = "posting"
    /\ callFailures < MaxCallFailures
    /\ callFailures' = callFailures + 1
    /\ is_asleep' \in {is_asleep, wants[c]}
    /\ spoiled' = TRUE
    /\ call' = [call EXCEPT ![c] = "error"]
    /\ UNCHANGED <<wants, sleeping, events, labelWatcher, sleep, alone>>

\* The API server issues an event when the pod's labels change.
SetLabel(l) ==
    /\ sleeping' = l
    /\ events' = IF l = sleeping THEN events ELSE events + 1

PatchLabel_Inverted(c) ==
    /\ call[c] = "answered"
    /\ SetLabel(~wants[c])
    /\ call' = [call EXCEPT ![c] = "done"]
    /\ UNCHANGED <<wants, is_asleep, labelWatcher, sleep, callFailures, alone, spoiled>>

\* add_sleep_label and remove_sleep_label.  Both block the event loop, so no
\* other call comes between the read of the pod and the patch.
PatchLabel(c) ==
    /\ call[c] = "answered"
    /\ SetLabel(wants[c])
    /\ call' = [call EXCEPT ![c] = "done"]
    /\ spoiled' = (spoiled /\ ~(c \in alone /\ sleeping' # sleeping))
    /\ UNCHANGED <<wants, is_asleep, labelWatcher, sleep, callFailures, alone>>

\* An ApiException from the read or the patch is logged, and the call still
\* reports success.
PatchFails(c) ==
    /\ call[c] = "answered"
    /\ callFailures < MaxCallFailures
    /\ callFailures' = callFailures + 1
    /\ spoiled' = TRUE
    /\ call' = [call EXCEPT ![c] = "done"]
    /\ UNCHANGED <<wants, is_asleep, sleeping, events, labelWatcher, sleep, alone>>

-----------------------------------------------------------------------------
(* The watcher thread: _on_engine_update and _add_engine for a ready pod.   *)

ReadEvent_SkipListed ==
    /\ labelWatcher = "wait" /\ events > 0
    /\ events' = events - 1
    /\ UNCHANGED <<call, wants, is_asleep, sleeping, labelWatcher, sleep, callFailures, alone, spoiled>>

ReadEvent ==
    /\ labelWatcher = "wait" /\ events > 0
    /\ events' = events - 1
    /\ labelWatcher' = "query"
    /\ UNCHANGED <<call, wants, is_asleep, sleeping, sleep, callFailures, alone, spoiled>>

\* _get_engine_sleep_status; on any error the answer is "awake".
QuerySleep ==
    /\ labelWatcher = "query"
    /\ \/ labelWatcher' = (IF is_asleep THEN "asleep" ELSE "awake") /\ UNCHANGED <<callFailures, spoiled>>
       \/ /\ callFailures < MaxCallFailures
          /\ callFailures' = callFailures + 1
          /\ spoiled' = TRUE
          /\ labelWatcher' = "awake"
    /\ UNCHANGED <<call, wants, is_asleep, sleeping, events, sleep, alone>>

\* The endpoint is replaced in available_engines.
StoreSleep ==
    /\ labelWatcher \in {"asleep", "awake"}
    /\ sleep' = (labelWatcher = "asleep")
    /\ labelWatcher' = "wait"
    /\ UNCHANGED <<call, wants, is_asleep, sleeping, events, callFailures, alone, spoiled>>

SleepNext ==
    \/ \E c \in Calls : \/ \E s \in BOOLEAN : Receive(c, s)
                        \/ EngineActs(c) \/ PostFails(c)
                        \/ PatchLabel(c) \/ PatchFails(c)
    \/ ReadEvent \/ QuerySleep \/ StoreSleep

\* The watcher thread is scheduled, and a call in progress goes on.
SleepFairness ==
    /\ WF_sleepVars(ReadEvent) /\ WF_sleepVars(QuerySleep) /\ WF_sleepVars(StoreSleep)
    /\ \A c \in Calls : WF_sleepVars(EngineActs(c) \/ PostFails(c))
    /\ \A c \in Calls : WF_sleepVars(PatchLabel(c) \/ PatchFails(c))

SleepSpec == SleepInit /\ [][SleepNext]_sleepVars /\ SleepFairness
-----------------------------------------------------------------------------
(* Properties.                                                              *)

AtRest == Open = {} /\ events = 0 /\ labelWatcher = "wait"

\* Once every call has returned and every event is worked off, the router's
\* flag, the label and the engine agree, also after calls that overlapped or
\* failed, as soon as one call made by itself has changed the label again.
AgreeAtRest == AtRest /\ ~spoiled => sleep = is_asleep /\ sleeping = is_asleep

\* What a call did to the engine comes round to the filter of
\* route_general_request: the flag settles on the engine's state, unless the
\* last calls overlapped or failed.
FlagSettles == <>[](spoiled \/ sleep = is_asleep)
=============================================================================
