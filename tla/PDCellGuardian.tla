---------------------------- MODULE PDCellGuardian ----------------------------
(***************************************************************************)
(* guardian.py (configmap-pd-cell-guardian.yaml), the sidecar that recycles *)
(* its whole P/D cell pod when one of the pod's containers restarts.        *)
(*                                                                          *)
(* It polls the API server for its own pod, arms itself when all targets    *)
(* are ready, and deletes the pod when a target restarts.  Its memory is    *)
(* lost whenever its own container restarts, and a DELETE that fails ends   *)
(* the process.  Instance n of a container is the one that runs at          *)
(* restartCount n, so the instance that the status calls terminated follows *)
(* from the state of the container and its restartCount.                    *)
(***************************************************************************)
EXTENDS Integers

CONSTANTS
    Targets,         \* PD_GUARDIAN_TARGETS
    MaxRestarts,     \* bound on the restarts of a target
    MaxApiFailures,  \* bound on failed calls of the API server
    MaxCrashes,      \* bound on the restarts of the guardian by others
    NoBaseline       \* the baseline before it is armed

ASSUME GuardianAssumption ==
    /\ Targets # {}
    /\ MaxRestarts \in Nat /\ MaxApiFailures \in Nat /\ MaxCrashes \in Nat
    /\ NoBaseline \notin [Targets -> Nat]

VARIABLES
    state,              \* container states of the targets
    restartCount,
    reported,           \* targets with an entry in containerStatuses
    pod,                \* the pod that has the guardian's pod name
    guardian,           \* the process: polling, deleting, sleeping, exited
    baseline,
    observed_failures,  \* the signature of each target's last failure
    apiFailures, crashes,
    was_ready,          \* history: all targets were once ready together
    lost                \* history: the status of a target disappeared

kubelet == <<state, restartCount, reported>>
process == <<guardian, baseline, observed_failures>>
history == <<was_ready, lost>>
guardianVars == <<kubelet, pod, process, apiFailures, crashes, history>>

States == {"running", "ready", "terminated", "backoff"}
Signatures == {<<n, i>> : n \in 0 .. MaxRestarts, i \in -1 .. MaxRestarts}
NoFailure == <<0, -1>>

GuardianTypeOK ==
    /\ state \in [Targets -> States]
    /\ restartCount \in [Targets -> 0 .. MaxRestarts]
    /\ reported \in SUBSET Targets
    /\ pod \in {"mine", "terminating", "gone", "replaced"}
    /\ guardian \in {"poll", "delete", "sleep", "exited"}
    /\ baseline \in [Targets -> 0 .. MaxRestarts] \cup {NoBaseline}
    /\ observed_failures \in [Targets -> Signatures]
    /\ apiFailures \in 0 .. MaxApiFailures /\ crashes \in 0 .. MaxCrashes
    /\ was_ready \in BOOLEAN /\ lost \in BOOLEAN

GuardianInit ==
    /\ state = [t \in Targets |-> "running"]
    /\ restartCount = [t \in Targets |-> 0]
    /\ reported = {}
    /\ pod = "mine"
    /\ guardian = "poll"
    /\ baseline = NoBaseline
    /\ observed_failures = [t \in Targets |-> NoFailure]
    /\ apiFailures = 0 /\ crashes = 0
    /\ was_ready = FALSE /\ lost = FALSE

AllReady == reported = Targets /\ \A t \in Targets : state[t] = "ready"
-----------------------------------------------------------------------------
(* kubelet and the cluster (external).                                      *)

ContainerSteps == {<<"running", "ready">>, <<"ready", "running">>,
                   <<"running", "terminated">>, <<"ready", "terminated">>,
                   <<"terminated", "backoff">>}

\* A target starts, becomes ready or not, terminates, or has to wait.
ContainerStep(t) ==
    /\ pod \in {"mine", "terminating"}
    /\ \E s \in States : <<state[t], s>> \in ContainerSteps
                         /\ state' = [state EXCEPT ![t] = s]
    /\ UNCHANGED <<restartCount, reported, pod, process, apiFailures, crashes,
                   lost>>
    /\ was_ready' = (was_ready \/ AllReady')

ContainerRestart(t) ==
    /\ pod \in {"mine", "terminating"}
    /\ state[t] \in {"terminated", "backoff"}
    /\ restartCount[t] < MaxRestarts
    /\ state' = [state EXCEPT ![t] = "running"]
    /\ restartCount' = [restartCount EXCEPT ![t] = @ + 1]
    /\ UNCHANGED <<reported, pod, process, apiFailures, crashes, history>>

\* The status of a target appears, or disappears.
StatusChange(t) ==
    /\ pod \in {"mine", "terminating"}
    /\ reported' = IF t \in reported THEN reported \ {t} ELSE reported \cup {t}
    /\ lost' = (lost \/ t \in reported)
    /\ UNCHANGED <<state, restartCount, pod, process, apiFailures, crashes>>
    /\ was_ready' = (was_ready \/ AllReady')

\* Somebody else deletes the pod; a deleted pod goes away, also while its
\* node cannot be reached and its containers still run; its name is used again.
PodChange ==
    /\ \/ pod = "mine" /\ pod' = "terminating"
       \/ pod = "terminating" /\ pod' = "gone"
       \/ pod = "gone" /\ pod' = "replaced"
    /\ UNCHANGED <<kubelet, process, apiFailures, crashes, history>>
-----------------------------------------------------------------------------
(* The guardian.                                                            *)

Forget ==
    /\ baseline' = NoBaseline
    /\ observed_failures' = [t \in Targets |-> NoFailure]

\* The process ended.  kubelet starts it again as long as the pod is there.
Ended == IF pod' \in {"mine", "terminating"} THEN guardian' = "poll" /\ Forget
         ELSE guardian' = "exited" /\ UNCHANGED <<baseline, observed_failures>>

\* The guardian's container is killed.
Crash ==
    /\ guardian # "exited"
    /\ crashes < MaxCrashes
    /\ crashes' = crashes + 1
    /\ UNCHANGED pod
    /\ Ended
    /\ UNCHANGED <<kubelet, apiFailures, history>>

\* termination_details: the instance the status calls terminated, or -1
terminated(t) == IF state[t] \in {"terminated", "backoff"} THEN restartCount[t]
                                                           ELSE restartCount[t] - 1

Signature_NoCount(t) == <<0, terminated(t)>>
Signature(t) == <<restartCount[t], terminated(t)>>

\* diagnose_failures: a reported target with a terminated instance is put on
\* record unless its last record has the same signature.
diagnose_failures ==
    observed_failures' =
       [t \in Targets |-> IF t \in reported /\ terminated(t) # -1
                          THEN Signature(t) ELSE observed_failures[t]]

ArmOrDelete_Exit ==
    IF \E t \in Targets : restartCount[t] > 0
    THEN guardian' = "exited" /\ UNCHANGED baseline
    ELSE guardian' = "poll" /\ baseline' = restartCount

\* All targets are ready for the first time: a restart before that is reason
\* to delete the pod, otherwise the guardian is armed.
ArmOrDelete ==
    IF \E t \in Targets : restartCount[t] > 0
    THEN guardian' = "delete" /\ UNCHANGED baseline
    ELSE guardian' = "poll" /\ baseline' = restartCount

MustWait_Never == reported # Targets

\* Some target has no status, or is not ready.
MustWait == ~AllReady

\* Armed: a status is missing, or a restartCount has grown.
Broken == reported # Targets \/ \E t \in Targets : restartCount[t] > baseline[t]

\* One round of the main loop with the pod the API server returned.
Poll ==
    /\ guardian = "poll"
    /\ pod \in {"mine", "terminating"}
    /\ diagnose_failures
    /\ IF baseline = NoBaseline
       THEN IF MustWait THEN UNCHANGED <<guardian, baseline>> ELSE ArmOrDelete
       ELSE /\ guardian' = IF Broken THEN "delete" ELSE "poll"
            /\ UNCHANGED baseline
    /\ UNCHANGED <<kubelet, pod, apiFailures, crashes, was_ready, lost>>

\* GET returns 404, or a pod with another uid.  (Other errors are retried.)
PollGone ==
    /\ guardian = "poll"
    /\ pod \in {"gone", "replaced"}
    /\ guardian' = "exited"
    /\ UNCHANGED <<kubelet, pod, baseline, observed_failures, apiFailures, crashes, history>>

DeleteOutcome_NoUid ==
    \/ pod \in {"mine", "terminating", "replaced"} /\ pod' = "terminating" /\ guardian' = "sleep"
    \/ pod = "gone" /\ UNCHANGED pod /\ guardian' = "sleep"

\* DELETE with the uid as precondition: accepted, or 404, after both of which
\* the process sleeps for ever ...
DeleteOutcome ==
    \/ pod \in {"mine", "terminating"} /\ pod' = "terminating" /\ guardian' = "sleep"
    \/ pod = "gone" /\ UNCHANGED pod /\ guardian' = "sleep"

DeletePod ==
    /\ guardian = "delete"
    /\ DeleteOutcome
    /\ UNCHANGED <<kubelet, baseline, observed_failures, apiFailures, crashes, history>>

\* ... or 409 for another pod, an error of the API server, or a timeout after
\* which the request may still take effect: the exception ends the process.
DeleteFails ==
    /\ guardian = "delete"
    /\ \/ pod = "replaced" /\ UNCHANGED <<pod, apiFailures>>
       \/ /\ apiFailures < MaxApiFailures
          /\ apiFailures' = apiFailures + 1
          /\ pod' \in IF pod \in {"mine", "terminating"} THEN {pod, "terminating"} ELSE {pod}
    /\ Ended
    /\ UNCHANGED <<kubelet, crashes, history>>

Guardian == Poll \/ PollGone \/ DeletePod \/ DeleteFails

GuardianNext ==
    \/ \E t \in Targets : ContainerStep(t) \/ ContainerRestart(t) \/ StatusChange(t)
    \/ PodChange
    \/ Crash
    \/ Guardian

GuardianSpec == GuardianInit /\ [][GuardianNext]_guardianVars

\* The process is scheduled; its calls have timeouts.
GuardianFairSpec == GuardianSpec /\ WF_guardianVars(Guardian)
-----------------------------------------------------------------------------
(* Properties.                                                              *)

\* "Do not turn a permanent startup failure into a Pod recycle storm"
\* (configmap-pd-cell-guardian.yaml:337): a pod is deleted only after all its
\* targets were ready together, and only because a target restarted or lost
\* its status; also by a guardian that has forgotten what it saw.
RecycleJustified ==
    guardian \in {"delete", "sleep"} =>
       was_ready /\ (lost \/ \E t \in Targets : restartCount[t] > 0)

\* A guardian is armed only on a generation without a restart.
ArmedClean == baseline # NoBaseline => \A t \in Targets : baseline[t] = 0

\* The failures the decision to delete rests on are on record before the
\* DELETE is sent, although what was on record may be about an earlier state
\* of the same containers.
RecordedBeforeDelete ==
    [][guardian = "poll" /\ guardian' = "delete" =>
          \A t \in reported :
             restartCount[t] > 0 => observed_failures'[t][1] = restartCount[t]]_guardianVars

\* The pod that took the name of the guardian's pod is never touched.
ReplacementSafe == [][pod = "replaced" => pod' = "replaced"]_guardianVars

\* The process stops looking at its pod (it sleeps for ever after the DELETE,
\* or is not started again) only when that pod is on its way out, whatever
\* calls failed and whatever restarts came in between.
WatchesItsPod == guardian \in {"sleep", "exited"} => pod # "mine"

\* A round of the main loop that sees all targets of a generation ready in
\* which one has restarted ends in deleting the pod: for a guardian that was
\* armed, that is about to be, and that has forgotten what it saw.
DirtyNotPassed ==
    [][Poll /\ AllReady /\ (\E t \in Targets : restartCount[t] > 0)
          => guardian' = "delete"]_guardianVars

\* A generation in which a target restarted does not live on once all its
\* targets stay ready, whatever calls fail and however often the guardian
\* itself is restarted.
DirtyRecycled ==
    <>[](pod = "mine" => AllReady)
       => ((\E t \in Targets : restartCount[t] > 0) ~> pod # "mine")
=============================================================================
