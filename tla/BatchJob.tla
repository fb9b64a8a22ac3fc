------------------------------- MODULE BatchJob -------------------------------
(***************************************************************************)
(* What the batch API promises of a job, without database, processor or     *)
(* storage: jobs are started one at a time and at most once; a job whose     *)
(* start was prevented stays unstarted; only a job that ran has an output.   *)
(***************************************************************************)
CONSTANT Batches

VARIABLES
    phase,      \* of each job
    has_output  \* an output file is recorded for it

vars == <<phase, has_output>>

Phases == {"absent", "waiting", "started", "finished", "lost", "dropped"}
Init ==
    /\ phase = [b \in Batches |-> "absent"]
    /\ has_output = [b \in Batches |-> FALSE]

Moves(b, from, to) == phase[b] = from /\ phase' = [phase EXCEPT ![b] = to]
Create(b) == Moves(b, "absent", "waiting") /\ UNCHANGED has_output
Drop(b) == Moves(b, "waiting", "dropped") /\ UNCHANGED has_output
Start(b) ==
    /\ \A other \in Batches : phase[other] # "started"
    /\ Moves(b, "waiting", "started") /\ UNCHANGED has_output
Finish(b) ==
    /\ Moves(b, "started", "finished")
    /\ \E o \in BOOLEAN : has_output' = [has_output EXCEPT ![b] = o]
Lose(b) == Moves(b, "started", "lost") /\ UNCHANGED has_output

Next == \E b \in Batches : Create(b) \/ Drop(b) \/ Start(b) \/ Finish(b) \/ Lose(b)
Spec == Init /\ [][Next]_vars
=============================================================================
