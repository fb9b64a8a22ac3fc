---------------------------- MODULE BatchService ----------------------------
(***************************************************************************)
(* The batch API: routers/batches_router.py and files_router.py in front of  *)
(* LocalBatchProcessor (SQLite) and FileStorage.  Every statement on the     *)
(* table commits on its own; handlers and the background task process_batches *)
(* run on one event loop and interleave at every await between statements.    *)
(* The process may crash anywhere and is then restarted; the table and the    *)
(* files stay.  A statement outside process_batches' try that fails (the      *)
(* database is locked) ends the task, and nothing starts it again.            *)
(*                                                                            *)
(* The processor is modelled as its class reads.  In the repository it cannot *)
(* be imported (vllm_router.batch is not a package), so --enable-batch-api    *)
(* stops the router at start.  Ids are taken to be fresh, and rows to be      *)
(* inserted in the order of created_at.                                       *)
(***************************************************************************)
EXTENDS Integers, Sequences

CONSTANTS
    Batches,    \* batch ids
    Inputs,     \* ids of uploaded files
    Clients,    \* callers of DELETE /v1/batches/{id}
    NoBatch,
    MaxFaults   \* bound on crashes and failing statements

ASSUME BatchAssumption == NoBatch \notin Batches /\ MaxFaults \in Nat

VARIABLES
    rows,         \* batch_queue: ids by created_at
    status,       \* batch_queue.status
    output,       \* batch_queue.output_file_id is set
    uploaded,     \* input files
    result_file,  \* the output file of each batch, on disk
    task,         \* where process_batches is
    current,      \* its batch_id
    failing,      \* its new_status is FAILED
    cancelling,   \* the batch each client's cancel_batch is about to update
    seen,         \* the status a caller was last told of each batch
    faults,
    progress      \* history: batches marked running, and those that ended

table == <<rows, status, output>>
disk == <<table, uploaded, result_file>>
worker == <<task, current, failing>>
vars == <<disk, worker, cancelling, seen, faults, progress>>

BatchStatus == {"pending", "running", "completed", "failed"}
Tasks == {"off", "poll", "mark", "work", "open", "write", "finish", "dead"}

TypeOK ==
    /\ rows \in Seq(Batches)
    /\ status \in [Batches -> BatchStatus \cup {"none", "cancelled"}]
    /\ output \in [Batches -> BOOLEAN]
    /\ uploaded \subseteq Inputs
    /\ result_file \in [Batches -> {"none", "partial", "whole"}]
    /\ task \in Tasks
    /\ current \in Batches \cup {NoBatch} /\ failing \in BOOLEAN
    /\ cancelling \in [Clients -> Batches \cup {NoBatch}]
    /\ seen \in [Batches -> BatchStatus \cup {"none"}]
    /\ faults \in 0 .. MaxFaults
    /\ progress \in [Batches -> {"none", "ran", "ended"}]

Init ==
    /\ rows = <<>>
    /\ status = [b \in Batches |-> "none"]
    /\ output = [b \in Batches |-> FALSE]
    /\ uploaded = {}
    /\ result_file = [b \in Batches |-> "none"]
    /\ task = "off" /\ current = NoBatch /\ failing = FALSE
    /\ cancelling = [c \in Clients |-> NoBatch]
    /\ seen = [b \in Batches |-> "none"]
    /\ faults = 0
    /\ progress = [b \in Batches |-> "none"]

Fault == faults < MaxFaults /\ faults' = faults + 1
-----------------------------------------------------------------------------
(* Start of the router, and its end.                                        *)

initialize ==
    /\ task = "off" /\ task' = "poll"
    /\ UNCHANGED <<disk, current, failing, cancelling, seen, faults, progress>>

RouterCrash ==
    /\ task # "off" /\ Fault
    /\ task' = "off" /\ current' = NoBatch /\ failing' = FALSE
    /\ cancelling' = [c \in Clients |-> NoBatch]
    /\ UNCHANGED <<disk, seen, progress>>
-----------------------------------------------------------------------------
(* Handlers.  They answer while the process is up, also without the task.    *)

Up == task # "off"

\* POST /v1/files: nobody knows the id before the file is written.
route_files(i) ==
    /\ Up /\ i \notin uploaded
    /\ uploaded' = uploaded \cup {i}
    /\ UNCHANGED <<table, result_file, worker, cancelling, seen, faults, progress>>

\* POST /v1/batches, for a file that exists.
create_batch(b) ==
    /\ Up /\ status[b] = "none" /\ uploaded # {}
    /\ rows' = Append(rows, b)
    /\ status' = [status EXCEPT ![b] = "pending"]
    /\ UNCHANGED <<output, uploaded, result_file, worker, cancelling, seen, faults, progress>>

\* GET /v1/batches/{id}, for a caller who asks one thing at a time.  A status
\* that is not a BatchStatus raises.
Shown(b) == status[b]
retrieve_batch(b) ==
    /\ Up /\ status[b] \in BatchStatus
    /\ seen' = [seen EXCEPT ![b] = Shown(b)]
    /\ UNCHANGED <<disk, worker, cancelling, faults, progress>>

\* GET /v1/batches: one row that cannot be retrieved fails the whole list.
list_batches ==
    /\ Up /\ \A k \in 1 .. Len(rows) : status[rows[k]] \in BatchStatus
    /\ seen' = [b \in Batches |-> status[b]]
    /\ UNCHANGED <<disk, worker, cancelling, faults, progress>>

\* DELETE /v1/batches/{id}: reads the row, and updates it later.
Final == {"completed", "failed"}
cancel_batch(c, b) ==
    /\ Up /\ cancelling[c] = NoBatch
    /\ status[b] \in BatchStatus \ Final
    /\ cancelling' = [cancelling EXCEPT ![c] = b]
    /\ UNCHANGED <<disk, worker, seen, faults, progress>>

Cancelled(b) == [status EXCEPT ![b] = "cancelled"]
CancelUpdate(c) ==
    /\ cancelling[c] # NoBatch
    /\ status' = Cancelled(cancelling[c])
    /\ cancelling' = [cancelling EXCEPT ![c] = NoBatch]
    /\ UNCHANGED <<rows, output, uploaded, result_file, worker, seen, faults, progress>>
-----------------------------------------------------------------------------
(* process_batches.                                                          *)

\* The oldest pending row is selected.
Selected_First(k) == k = 1 /\ status[rows[k]] = "pending"
Selected_NotFinal(k) ==
    /\ status[rows[k]] \notin {"running", "completed", "failed"}
    /\ \A j \in 1 .. k - 1 : status[rows[j]] \in {"running", "completed", "failed"}
Selected(k) ==
    /\ status[rows[k]] = "pending"
    /\ \A j \in 1 .. k - 1 : status[rows[j]] # "pending"
Select ==
    /\ task = "poll" /\ task' = "mark"
    /\ \E k \in 1 .. Len(rows) : Selected(k) /\ current' = rows[k]
    /\ UNCHANGED <<disk, failing, cancelling, seen, faults, progress>>

Mark ==
    /\ task = "mark" /\ task' = "work"
    /\ status' = [status EXCEPT ![current] = "running"]
    /\ progress' = [progress EXCEPT ![current] = "ran"]
    /\ UNCHANGED <<rows, output, uploaded, result_file, current, failing, cancelling, seen, faults>>

\* save_file opens the file, which empties it, and writes it.
Work ==
    /\ task \in {"work", "open", "write"}
    /\ \/ task = "work" /\ task' = "open" /\ UNCHANGED <<failing, result_file, faults>>
       \/ /\ task = "open" /\ task' = "write" /\ UNCHANGED <<failing, faults>>
          /\ result_file' = [result_file EXCEPT ![current] = "partial"]
       \/ /\ task = "write" /\ task' = "finish" /\ UNCHANGED <<failing, faults>>
          /\ result_file' = [result_file EXCEPT ![current] = "whole"]
       \/ task' = "finish" /\ failing' = TRUE /\ Fault /\ UNCHANGED result_file
    /\ UNCHANGED <<table, uploaded, current, cancelling, seen, progress>>

HasOutput_Always == TRUE
HasOutput == ~failing
Finish ==
    /\ task = "finish" /\ task' = "poll"
    /\ status' = [status EXCEPT ![current] = IF failing THEN "failed" ELSE "completed"]
    /\ output' = [output EXCEPT ![current] = HasOutput]
    /\ progress' = [progress EXCEPT ![current] = "ended"]
    /\ current' = NoBatch /\ failing' = FALSE
    /\ UNCHANGED <<rows, uploaded, result_file, cancelling, seen, faults>>

\* A statement outside the try fails: the exception ends the task.
TaskDies ==
    /\ task \in {"poll", "mark", "finish"} /\ Fault
    /\ task' = "dead" /\ current' = NoBatch /\ failing' = FALSE
    /\ UNCHANGED <<disk, cancelling, seen, progress>>

process_batches == Select \/ Mark \/ Work \/ Finish
Next ==
    \/ initialize \/ RouterCrash
    \/ \E i \in Inputs : route_files(i)
    \/ \E b \in Batches : create_batch(b) \/ retrieve_batch(b)
    \/ list_batches
    \/ \E c \in Clients, b \in Batches : cancel_batch(c, b)
    \/ \E c \in Clients : CancelUpdate(c)
    \/ process_batches \/ TaskDies

\* The event loop keeps running the task, and the router is restarted.
Fairness == WF_vars(initialize) /\ WF_vars(process_batches)
Spec == Init /\ [][Next]_vars /\ Fairness
-----------------------------------------------------------------------------
Running(b) == current = b /\ task \in {"work", "open", "write", "finish"}
Dropped(b) == progress[b] = "none" /\ status[b] = "cancelled" /\ ~(task = "mark" /\ current = b)
phase == [b \in Batches |->
    CASE status[b] = "none" -> "absent"
      [] progress[b] = "ended" -> "finished"
      [] progress[b] = "ran" /\ Running(b) -> "started"
      [] progress[b] = "ran" /\ ~Running(b) -> "lost"
      [] Dropped(b) -> "dropped"
      [] OTHER -> "waiting"]

Job == INSTANCE BatchJob WITH has_output <- output

(* The service implements the abstract life cycle of a job: whatever cancels, *)
(* crashes and failing statements come in between, no batch is processed      *)
(* twice, nor two at a time; a batch whose cancellation is committed before   *)
(* the task has selected it is never processed.                               *)
JobSpec == Job!Spec

(* A recorded output file is there and was written completely, also after a   *)
(* crash: the row is updated only after the file is closed.                   *)
OutputIsWhole == \A b \in Batches : output[b] => result_file[b] = "whole"

(* What callers are told of a batch never goes back, although a cancellation  *)
(* may be overwritten by the task and the task's result by a cancellation.    *)
Rank == [none |-> 0, pending |-> 1, running |-> 2, completed |-> 3, failed |-> 3]
SeenForward == [][\A b \in Batches :
    \/ seen'[b] = seen[b]
    \/ Rank[seen'[b]] > Rank[seen[b]]]_seen

(* First come, first served, across crashes and failing statements: while a   *)
(* batch waits, no batch created after it has been started.                   *)
NotOvertaken == \A i, j \in 1 .. Len(rows) :
    i < j /\ progress[rows[j]] # "none" => status[rows[i]] # "pending"

(* A batch that waits is selected or cancelled, unless the task has died.     *)
PendingTaken == \A b \in Batches :
    status[b] = "pending" ~> (status[b] # "pending" \/ task = "dead")
=============================================================================
