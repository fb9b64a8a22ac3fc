------------------------- MODULE Operations_proofs -------------------------
(***************************************************************************)
(* Proofs about three components beside the request path: BatchService,     *)
(* SleepMode and PDCellGuardian.  They share no constant and no variable,   *)
(* and each is proved on its own.                                           *)
(*                                                                          *)
(* - The batch service implements BatchJob, and a recorded output is whole, *)
(*   for any number of batches, callers and faults.                         *)
(* - AgreeAtRest: unless calls overlapped or failed, the label is behind    *)
(*   the engine only between a call's answer and its patch, and the flag is *)
(*   behind the label only while an event is unread (LabelInv, FlagInv).    *)
(* - ArmedClean, RecycleJustified: an armed guardian has seen every         *)
(*   container ready, and every status since (ReadySeen).                   *)
(***************************************************************************)
EXTENDS BatchService, SleepMode, PDCellGuardian, SequenceTheorems, TLAPS

-----------------------------------------------------------------------------
(* BatchService.                                                           *)

Busy == task \in {"work", "open", "write", "finish"}

\* What the task holds in its local variables.
TaskInv ==
    /\ task \in {"off", "poll", "dead"} <=> current = NoBatch
    /\ task = "mark" => progress[current] = "none" /\ status[current] # "none"
    /\ Busy => progress[current] = "ran"
    /\ failing => task = "finish"
    /\ task = "finish" /\ ~failing => result_file[current] = "whole"

\* The status a row may have, by what was done with it: cancelled always, as
\* a cancellation may be computed before and committed after any other.
StatusInv == \A b \in Batches :
    /\ progress[b] = "none" => status[b] \in {"none", "pending", "cancelled"}
    /\ progress[b] = "ran" => status[b] \in {"running", "cancelled"}
    /\ progress[b] = "ended" => status[b] \in {"completed", "failed", "cancelled"}

\* Only a batch that ended has an output, and its file is whole.
OutputInv == \A b \in Batches : output[b] => progress[b] = "ended" /\ result_file[b] = "whole"

\* The table has a row for every batch, and callers cancel batches that exist.
RowInv ==
    /\ \A k \in 1 .. Len(rows) : status[rows[k]] # "none"
    /\ \A b \in Batches : status[b] # "none" => \E k \in 1 .. Len(rows) : rows[k] = b
    /\ \A c \in Clients : cancelling[c] # NoBatch => status[cancelling[c]] # "none"

\* What a caller was told is not ahead of the table.
SeenInv == \A b \in Batches :
    /\ status[b] = "none" => seen[b] = "none"
    /\ progress[b] = "none" => seen[b] \in {"none", "pending"}
    /\ progress[b] = "ran" => seen[b] \in {"none", "pending", "running"}
    /\ seen[b] \in Final => status[b] \in {seen[b], "cancelled"}

IInv == TypeOK /\ TaskInv /\ StatusInv /\ OutputInv /\ RowInv /\ SeenInv

LEMMA InvInit == Init => IInv
<1> SUFFICES ASSUME Init PROVE IInv
  OBVIOUS
<1>1. TypeOK
  <2>1. rows \in Seq(Batches) /\ faults \in 0 .. MaxFaults
    BY BatchAssumption DEF Init
  <2> QED
    BY <2>1, Zenon DEF Init, TypeOK, Tasks, BatchStatus
<1>2. TaskInv /\ StatusInv /\ OutputInv /\ SeenInv
  BY DEF Init, TaskInv, Busy, StatusInv, OutputInv, SeenInv, Final
<1>3. RowInv
  BY DEF Init, RowInv
<1> QED
  BY <1>1, <1>2, <1>3 DEF IInv

\* The router starts, stops or loses its task: nothing in the table changes.
LEMMA UpNext == ASSUME IInv, initialize \/ RouterCrash \/ TaskDies PROVE IInv'
<1> USE BatchAssumption DEF IInv, initialize, RouterCrash, TaskDies, Fault, disk, table, worker
<1>1. TypeOK'
  <2>1. faults' \in 0 .. MaxFaults
    BY DEF TypeOK
  <2> QED
    BY <2>1, Zenon DEF TypeOK, Tasks
<1>2. TaskInv'
  BY DEF TaskInv, Busy, TypeOK, StatusInv
<1>3. StatusInv'
  BY DEF StatusInv, TaskInv, Busy, TypeOK
<1>4. OutputInv'
  BY DEF OutputInv, TaskInv, Busy, TypeOK
<1>5. RowInv'
  BY DEF RowInv, TypeOK, TaskInv, Busy
<1>6. SeenInv'
  BY DEF SeenInv, Final, StatusInv, TypeOK, TaskInv, Busy, BatchStatus
<1> QED
  BY <1>1, <1>2, <1>3, <1>4, <1>5, <1>6

\* A file is uploaded.
LEMMA FilesNext == ASSUME IInv, NEW i \in Inputs, route_files(i) PROVE IInv'
<1> USE BatchAssumption DEF IInv, route_files, disk, table, worker
<1>1. TypeOK'
  BY DEF TypeOK, Tasks, BatchStatus
<1>2. TaskInv'
  BY DEF TaskInv, Busy, TypeOK, StatusInv
<1>3. StatusInv'
  BY DEF StatusInv, TaskInv, Busy, TypeOK
<1>4. OutputInv'
  BY DEF OutputInv, TaskInv, Busy, TypeOK
<1>5. RowInv'
  BY DEF RowInv, TypeOK, TaskInv, Busy
<1>6. SeenInv'
  BY DEF SeenInv, Final, StatusInv, TypeOK, TaskInv, Busy, BatchStatus
<1> QED
  BY <1>1, <1>2, <1>3, <1>4, <1>5, <1>6

\* A row is added.
LEMMA CreateNext == ASSUME IInv, NEW b \in Batches, create_batch(b) PROVE IInv'
<1> USE BatchAssumption DEF IInv, create_batch, disk, table, worker
<1>1. TypeOK'
  BY DEF TypeOK, Tasks, BatchStatus
<1>2. TaskInv'
  BY DEF TaskInv, Busy, TypeOK, StatusInv
<1>3. StatusInv'
  BY DEF StatusInv, TaskInv, Busy, TypeOK
<1>4. OutputInv'
  BY DEF OutputInv, TaskInv, Busy, TypeOK
<1>5. RowInv'
  BY DEF RowInv, TypeOK, TaskInv, Busy
<1>6. SeenInv'
  BY DEF SeenInv, Final, StatusInv, TypeOK, TaskInv, Busy, BatchStatus
<1> QED
  BY <1>1, <1>2, <1>3, <1>4, <1>5, <1>6

\* A caller is told the status of one batch, or of all.
LEMMA RetrieveNext == ASSUME IInv, (\E b \in Batches : retrieve_batch(b)) \/ list_batches PROVE IInv'
<1> USE BatchAssumption DEF IInv, retrieve_batch, list_batches, Shown, disk, table, worker
<1>1. TypeOK'
  <2>1. seen' \in [Batches -> BatchStatus \cup {"none"}]
    <3>1. CASE list_batches
      <4>1. \A b \in Batches : status[b] \in BatchStatus \cup {"none"}
        BY <3>1 DEF RowInv
      <4> QED
        BY <3>1, <4>1
    <3>2. ASSUME NEW b \in Batches, retrieve_batch(b) PROVE seen' \in [Batches -> BatchStatus \cup {"none"}]
      BY <3>2 DEF TypeOK
    <3> QED
      BY <3>1, <3>2
  <2> QED
    BY <2>1 DEF TypeOK
<1>2. TaskInv'
  BY DEF TaskInv, Busy, TypeOK, StatusInv
<1>3. StatusInv'
  BY DEF StatusInv, TaskInv, Busy, TypeOK
<1>4. OutputInv'
  BY DEF OutputInv, TaskInv, Busy, TypeOK
<1>5. RowInv'
  BY DEF RowInv, TypeOK, TaskInv, Busy
<1>6. SeenInv'
  <2>1. UNCHANGED <<status, progress>>
    OBVIOUS
  <2>2. ASSUME NEW b \in Batches
        PROVE  seen'[b] \in {seen[b], status[b]} /\ seen'[b] # "cancelled"
    BY <1>1 DEF TypeOK, BatchStatus
  <2> QED
    BY <2>1, <2>2 DEF SeenInv, StatusInv, Final
<1> QED
  BY <1>1, <1>2, <1>3, <1>4, <1>5, <1>6

\* A cancellation is computed, and committed.
LEMMA CancelNext == ASSUME IInv, \E c \in Clients : CancelUpdate(c) \/ \E b \in Batches : cancel_batch(c, b) PROVE IInv'
<1> USE BatchAssumption DEF IInv, CancelUpdate, cancel_batch, Cancelled, disk, table, worker
<1>1. TypeOK'
  BY DEF TypeOK, Tasks, BatchStatus
<1>2. TaskInv'
  BY DEF TaskInv, Busy, TypeOK, StatusInv
<1>3. StatusInv'
  BY DEF StatusInv, TaskInv, Busy, TypeOK
<1>4. OutputInv'
  BY DEF OutputInv, TaskInv, Busy, TypeOK
<1>5. RowInv'
  <2>1. \A b \in Batches : status'[b] = "none" <=> status[b] = "none"
    BY DEF TypeOK, RowInv
  <2>2. \A k \in 1 .. Len(rows) : rows[k] \in Batches
    BY DEF TypeOK
  <2>3. ASSUME NEW c \in Clients, cancelling'[c] # NoBatch
        PROVE  cancelling'[c] \in Batches /\ status[cancelling'[c]] # "none"
    BY <2>3 DEF TypeOK, RowInv, BatchStatus
  <2> QED
    BY <2>1, <2>2, <2>3 DEF RowInv
<1>6. SeenInv'
  BY DEF SeenInv, Final, StatusInv, TypeOK, TaskInv, Busy, BatchStatus
<1> QED
  BY <1>1, <1>2, <1>3, <1>4, <1>5, <1>6

\* The task selects a batch.
LEMMA SelectNext == ASSUME IInv, Select PROVE IInv'
<1> USE BatchAssumption DEF IInv, Select, Selected, disk, table, worker
<1>1. TypeOK'
  BY DEF TypeOK, Tasks, BatchStatus
<1>2. TaskInv'
  BY DEF TaskInv, Busy, TypeOK, StatusInv
<1>3. StatusInv'
  BY DEF StatusInv, TaskInv, Busy, TypeOK
<1>4. OutputInv'
  BY DEF OutputInv, TaskInv, Busy, TypeOK
<1>5. RowInv'
  BY DEF RowInv, TypeOK, TaskInv, Busy
<1>6. SeenInv'
  BY DEF SeenInv, Final, StatusInv, TypeOK, TaskInv, Busy, BatchStatus
<1> QED
  BY <1>1, <1>2, <1>3, <1>4, <1>5, <1>6

\* The task marks it running, whatever became of it since.
LEMMA MarkNext == ASSUME IInv, Mark PROVE IInv'
<1> USE BatchAssumption DEF IInv, Mark, disk, table, worker
<1>1. TypeOK'
  BY Zenon DEF TypeOK, Tasks, BatchStatus
<1>2. TaskInv'
  BY DEF TaskInv, Busy, TypeOK, StatusInv
<1>3. StatusInv'
  BY DEF StatusInv, TaskInv, Busy, TypeOK
<1>4. OutputInv'
  BY DEF OutputInv, TaskInv, Busy, TypeOK
<1>5. RowInv'
  BY DEF RowInv, TypeOK, TaskInv, Busy
<1>6. SeenInv'
  BY DEF SeenInv, Final, StatusInv, TypeOK, TaskInv, Busy, BatchStatus
<1> QED
  BY <1>1, <1>2, <1>3, <1>4, <1>5, <1>6

\* The task writes the output.
LEMMA WorkNext == ASSUME IInv, Work PROVE IInv'
<1> USE BatchAssumption DEF IInv, Work, Fault, disk, table, worker
<1>1. TypeOK'
  <2>1. faults' \in 0 .. MaxFaults
    BY DEF TypeOK
  <2>2. result_file' \in [Batches -> {"none", "partial", "whole"}]
    BY DEF TypeOK
  <2>3. task' \in Tasks /\ failing' \in BOOLEAN
    BY Zenon DEF TypeOK, Tasks
  <2> QED
    BY <2>1, <2>2, <2>3, Zenon DEF TypeOK
<1>2. TaskInv'
  BY DEF TaskInv, Busy, TypeOK, StatusInv
<1>3. StatusInv'
  BY DEF StatusInv, TaskInv, Busy, TypeOK
<1>4. OutputInv'
  BY DEF OutputInv, TaskInv, Busy, TypeOK
<1>5. RowInv'
  BY DEF RowInv, TypeOK, TaskInv, Busy
<1>6. SeenInv'
  BY DEF SeenInv, Final, StatusInv, TypeOK, TaskInv, Busy, BatchStatus
<1> QED
  BY <1>1, <1>2, <1>3, <1>4, <1>5, <1>6

\* The task records the result.
LEMMA FinishNext == ASSUME IInv, Finish PROVE IInv'
<1> USE BatchAssumption DEF IInv, Finish, HasOutput, disk, table, worker
<1>1. TypeOK'
  BY Zenon DEF TypeOK, Tasks, BatchStatus
<1>2. TaskInv'
  BY DEF TaskInv, Busy, TypeOK, StatusInv
<1>3. StatusInv'
  BY DEF StatusInv, TaskInv, Busy, TypeOK
<1>4. OutputInv'
  BY DEF OutputInv, TaskInv, Busy, TypeOK
<1>5. RowInv'
  <2>1. \A b \in Batches : status'[b] = "none" <=> status[b] = "none"
    BY DEF TypeOK, TaskInv, Busy, StatusInv
  <2>2. \A k \in 1 .. Len(rows) : rows[k] \in Batches
    BY DEF TypeOK
  <2>3. \A c \in Clients : cancelling[c] # NoBatch => cancelling[c] \in Batches
    BY DEF TypeOK
  <2> QED
    BY <2>1, <2>2, <2>3 DEF RowInv
<1>6. SeenInv'
  BY DEF SeenInv, Final, StatusInv, TypeOK, TaskInv, Busy, BatchStatus
<1> QED
  BY <1>1, <1>2, <1>3, <1>4, <1>5, <1>6

LEMMA InvNext == IInv /\ [Next]_vars => IInv'
<1> SUFFICES ASSUME IInv, [Next]_vars PROVE IInv'
  OBVIOUS
<1>1. CASE UNCHANGED vars
  BY <1>1 DEF vars, disk, table, worker, IInv, TypeOK, TaskInv, Busy, StatusInv, OutputInv, RowInv, SeenInv
<1> QED
  BY <1>1, UpNext, FilesNext, CreateNext, RetrieveNext, CancelNext, SelectNext, MarkNext, WorkNext,
     FinishNext DEF Next, process_batches

LEMMA Invariance == Spec => []IInv
<1>1. IInv /\ [Next]_vars => IInv'
  BY InvNext
<1> QED
  BY InvInit, <1>1, PTL DEF Spec

\* Every reachable state has the declared types; above all, list_batches tells
\* its caller nothing but BatchStatus values.
THEOREM TypeCorrect == Spec => []TypeOK
<1>1. IInv => TypeOK
  BY DEF IInv
<1> QED
  BY <1>1, Invariance, PTL

\* A recorded output file was written completely, whatever failed or crashed.
THEOREM OutputWhole == Spec => []OutputIsWhole
<1>1. IInv => OutputIsWhole
  BY DEF IInv, OutputInv, OutputIsWhole
<1> QED
  BY <1>1, Invariance, PTL

\* What retrieve_batch and list_batches tell of a batch never goes back.
THEOREM ToldForward == Spec => SeenForward
<1>1. ASSUME IInv, [Next]_vars
      PROVE  [\A b \in Batches : \/ seen'[b] = seen[b]
                                 \/ Rank[seen'[b]] > Rank[seen[b]]]_seen
  <2> SUFFICES ASSUME NEW b \in Batches, seen'[b] # seen[b]
               PROVE  Rank[seen'[b]] > Rank[seen[b]]
    OBVIOUS
  <2>1. seen'[b] = status[b] /\ status[b] \in BatchStatus \cup {"none"}
    <3>1. IInv'
      BY <1>1, InvNext
    <3>2. (\E a \in Batches : retrieve_batch(a)) \/ list_batches
      BY <1>1 DEF Next, vars, initialize, RouterCrash, route_files, create_batch, cancel_batch,
         CancelUpdate, process_batches, Select, Mark, Work, Finish, TaskDies
    <3>3. seen'[b] = status[b]
      BY <1>1, <3>2 DEF IInv, TypeOK, retrieve_batch, list_batches, Shown
    <3> QED
      BY <3>1, <3>3 DEF IInv, TypeOK
  <2>2. /\ status[b] = "none" => seen[b] = "none"
        /\ status[b] = "pending" => seen[b] \in {"none", "pending"}
        /\ status[b] = "running" => seen[b] \in {"none", "pending", "running"}
        /\ status[b] \in Final => seen[b] \in {"none", "pending", "running", status[b]}
    BY <1>1 DEF IInv, TypeOK, StatusInv, SeenInv, Final, BatchStatus
  <2> QED
    BY <2>1, <2>2 DEF Rank, Final, BatchStatus
<1> QED
  BY <1>1, Invariance, PTL DEF Spec, SeenForward
-----------------------------------------------------------------------------
(* The service implements BatchJob.                                          *)

\* What the life cycle of a batch is in a state of the service.
PhaseOf(b) ==
    /\ status[b] = "none" => phase[b] = "absent"
    /\ progress[b] = "ended" => phase[b] = "finished"
    /\ progress[b] = "ran" /\ Running(b) => phase[b] = "started"
    /\ progress[b] = "ran" /\ ~Running(b) => phase[b] = "lost"
    /\ Dropped(b) => phase[b] = "dropped"
    /\ progress[b] = "none" /\ status[b] # "none" /\ ~Dropped(b) => phase[b] = "waiting"

LEMMA Phases == ASSUME IInv, NEW b \in Batches PROVE PhaseOf(b)
<1>1. phase[b] = CASE status[b] = "none" -> "absent"
                   [] progress[b] = "ended" -> "finished"
                   [] progress[b] = "ran" /\ Running(b) -> "started"
                   [] progress[b] = "ran" /\ ~Running(b) -> "lost"
                   [] Dropped(b) -> "dropped"
                   [] OTHER -> "waiting"
  BY DEF phase
<1>2. /\ status[b] = "none" => progress[b] = "none" /\ ~Dropped(b)
      /\ Dropped(b) => progress[b] = "none"
  BY DEF IInv, TypeOK, StatusInv, Dropped
<1> QED
  BY <1>1, <1>2 DEF PhaseOf

LEMMA PhasesNext == ASSUME IInv', NEW b \in Batches PROVE PhaseOf(b)'
<1>1. phase'[b] = CASE status'[b] = "none" -> "absent"
                    [] progress'[b] = "ended" -> "finished"
                    [] progress'[b] = "ran" /\ Running(b)' -> "started"
                    [] progress'[b] = "ran" /\ ~Running(b)' -> "lost"
                    [] Dropped(b)' -> "dropped"
                    [] OTHER -> "waiting"
  BY DEF phase
<1>2. /\ status'[b] = "none" => progress'[b] = "none" /\ ~Dropped(b)'
      /\ Dropped(b)' => progress'[b] = "none"
  BY DEF IInv, TypeOK, StatusInv, Dropped
<1> QED
  BY <1>1, <1>2 DEF PhaseOf

\* Where no batch, or one batch, changes its phase.
LEMMA Same == ASSUME \A b \in Batches : phase'[b] = phase[b] PROVE phase' = phase
  BY DEF phase

LEMMA Moved ==
    ASSUME NEW b \in Batches, NEW to, phase'[b] = to,
           \A x \in Batches : x # b => phase'[x] = phase[x]
    PROVE  phase' = [phase EXCEPT ![b] = to]
<1>1. phase = [x \in Batches |-> phase[x]] /\ phase' = [x \in Batches |-> phase'[x]]
  BY DEF phase
<1> QED
  BY <1>1

\* A batch whose row, history and part in the task stay as they are stays in
\* its phase.
LEMMA SamePhase ==
    ASSUME IInv, IInv', NEW b \in Batches, status'[b] = status[b], progress'[b] = progress[b],
           Running(b)' <=> Running(b), status[b] = "cancelled" => (Dropped(b)' <=> Dropped(b))
    PROVE  phase'[b] = phase[b]
<1>1. PhaseOf(b) /\ PhaseOf(b)'
  BY Phases, PhasesNext
<1>2. status[b] # "cancelled" => ~Dropped(b) /\ ~Dropped(b)'
  BY DEF Dropped
<1>3. progress[b] \in {"none", "ran", "ended"}
  BY DEF IInv, TypeOK
<1> QED
  BY <1>1, <1>2, <1>3 DEF PhaseOf

LEMMA JobStep == ASSUME IInv, IInv', [Next]_vars PROVE [Job!Next]_(Job!vars)
<1> USE DEF disk, table, worker
<1>1. ASSUME UNCHANGED <<status, progress, output>>,
             \A b \in Batches : (Running(b)' <=> Running(b))
                                /\ (status[b] = "cancelled" => (Dropped(b)' <=> Dropped(b)))
      PROVE  UNCHANGED Job!vars
  BY <1>1, SamePhase, Same DEF Job!vars
<1>2. CASE initialize
  BY <1>1, <1>2 DEF initialize, Running, Dropped
<1>3. ASSUME NEW i \in Inputs, route_files(i) PROVE UNCHANGED Job!vars
  BY <1>1, <1>3 DEF route_files, Running, Dropped
<1>4. CASE list_batches \/ \E b \in Batches : retrieve_batch(b)
  BY <1>1, <1>4 DEF list_batches, retrieve_batch, Running, Dropped
<1>5. ASSUME NEW c \in Clients, NEW b \in Batches, cancel_batch(c, b) PROVE UNCHANGED Job!vars
  BY <1>1, <1>5 DEF cancel_batch, Running, Dropped
<1>6. CASE Select
  <2>1. current = NoBatch /\ status[current'] = "pending"
    BY <1>6, Zenon DEF Select, Selected, IInv, TaskInv
  <2> QED
    BY <1>1, <1>6, <2>1 DEF Select, Running, Dropped
<1>7. CASE Work
  BY <1>1, <1>7 DEF Work, Running, Dropped
<1>8. CASE UNCHANGED vars
  BY <1>1, <1>8 DEF vars, Running, Dropped
<1>9. ASSUME NEW b \in Batches, create_batch(b) PROVE Job!Next
  <2>1. /\ status[b] = "none" /\ status' = [status EXCEPT ![b] = "pending"]
        /\ UNCHANGED <<progress, output, task, current>> /\ status \in [Batches -> BatchStatus \cup {"none", "cancelled"}]
    BY <1>9 DEF create_batch, IInv, TypeOK
  <2>2. \A x \in Batches : x # b => phase'[x] = phase[x]
    BY <2>1, SamePhase DEF Running, Dropped
  <2>3. phase[b] = "absent" /\ phase'[b] = "waiting"
    <3>1. progress[b] = "none" /\ progress'[b] = "none" /\ status'[b] = "pending"
      BY <2>1 DEF IInv, StatusInv, TypeOK
    <3>2. PhaseOf(b) /\ PhaseOf(b)'
      BY Phases, PhasesNext
    <3> QED
      BY <2>1, <3>1, <3>2 DEF PhaseOf, Dropped
  <2> QED
    BY <2>1, <2>2, <2>3, Moved DEF Job!Next, Job!Create, Job!Moves
<1>10. CASE Mark
  <2>1. /\ current \in Batches /\ progress[current] = "none" /\ status[current] # "none"
        /\ status' = [status EXCEPT ![current] = "running"]
        /\ progress' = [progress EXCEPT ![current] = "ran"]
        /\ task = "mark" /\ task' = "work" /\ UNCHANGED <<output, current>>
        /\ status \in [Batches -> BatchStatus \cup {"none", "cancelled"}]
        /\ progress \in [Batches -> {"none", "ran", "ended"}]
    BY <1>10, Zenon DEF Mark, IInv, TypeOK, TaskInv
  <2>2. \A x \in Batches : x # current => phase'[x] = phase[x]
    BY <2>1, SamePhase, Zenon DEF Running, Dropped
  <2>3. phase[current] = "waiting" /\ phase'[current] = "started"
    BY <2>1, Phases, PhasesNext DEF PhaseOf, Dropped, Running
  <2>4. \A x \in Batches : phase[x] # "started"
    <3>1. \A x \in Batches : ~Running(x) /\ progress[x] \in {"none", "ran", "ended"}
      BY <2>1 DEF Running
    <3> QED
      BY <3>1, Phases DEF PhaseOf
  <2> QED
    BY <2>1, <2>2, <2>3, <2>4, Moved DEF Job!Next, Job!Start, Job!Moves
<1>11. CASE Finish
  <2>1. /\ current \in Batches /\ progress[current] = "ran" /\ status[current] # "none"
        /\ \A x \in Batches : x # current => status'[x] = status[x] /\ progress'[x] = progress[x]
        /\ progress'[current] = "ended"
        /\ task = "finish" /\ task' = "poll" /\ current' = NoBatch
        /\ output' = [output EXCEPT ![current] = ~failing] /\ failing \in BOOLEAN
    BY <1>11 DEF Finish, HasOutput, IInv, TypeOK, TaskInv, StatusInv, Busy
  <2>2. \A x \in Batches : x # current => phase'[x] = phase[x]
    BY <2>1, SamePhase, Zenon DEF Running, Dropped
  <2>3. phase[current] = "started" /\ phase'[current] = "finished"
    BY <2>1, Phases, PhasesNext DEF PhaseOf, Running
  <2>4. \E o \in BOOLEAN : output' = [output EXCEPT ![current] = o]
    BY <2>1, Zenon
  <2> QED
    BY <2>1, <2>2, <2>3, <2>4, Moved, Zenon DEF Job!Next, Job!Finish, Job!Moves
<1>12. ASSUME NEW c \in Clients, CancelUpdate(c) PROVE [Job!Next]_(Job!vars)
  <2>1. PICK b \in Batches :
        /\ status[b] # "none" /\ status' = [status EXCEPT ![b] = "cancelled"]
        /\ UNCHANGED <<progress, output, task, current>>
        /\ status \in [Batches -> BatchStatus \cup {"none", "cancelled"}]
        /\ progress[b] \in {"none", "ran", "ended"}
    <3>1. cancelling[c] \in Batches /\ status[cancelling[c]] # "none"
      BY <1>12 DEF CancelUpdate, IInv, TypeOK, RowInv
    <3> QED
      BY <1>12, <3>1, Zenon DEF CancelUpdate, Cancelled, IInv, TypeOK
  <2>2. \A x \in Batches : x # b => phase'[x] = phase[x]
    BY <2>1, SamePhase DEF Running, Dropped
  <2>3. Running(b)' <=> Running(b)
    BY <2>1 DEF Running
  <2>4. PhaseOf(b) /\ PhaseOf(b)' /\ status'[b] = "cancelled"
    BY <2>1, Phases, PhasesNext
  <2>5. CASE phase'[b] = phase[b]
    BY <2>1, <2>2, <2>5, Same DEF Job!vars
  <2>6. CASE phase'[b] # phase[b]
    <3>1. phase[b] = "waiting" /\ phase'[b] = "dropped"
      BY <2>1, <2>3, <2>4, <2>6, Zenon DEF PhaseOf, Dropped
    <3> QED
      BY <2>1, <2>2, <3>1, Moved DEF Job!Next, Job!Drop, Job!Moves
  <2> QED
    BY <2>5, <2>6
<1>13. CASE RouterCrash \/ TaskDies
  <2>1. /\ task' \in {"off", "dead"} /\ current' = NoBatch /\ UNCHANGED <<status, progress, output>>
        /\ \A b \in Batches : ~Running(b)' /\ b # current'
    BY <1>13, BatchAssumption DEF RouterCrash, TaskDies, Running
  <2>2. \A x \in Batches : x # current => phase'[x] = phase[x]
    BY <2>1, SamePhase DEF Running, Dropped
  <2>3. CASE current \notin Batches
    BY <2>1, <2>2, <2>3, Same DEF Job!vars
  <2>4. ASSUME NEW b \in Batches, current = b PROVE [Job!Next]_(Job!vars)
    <3>1. PhaseOf(b) /\ PhaseOf(b)'
      BY Phases, PhasesNext
    <3>2. progress[b] \in {"none", "ran", "ended"} /\ ~Running(b)'
      BY <2>1 DEF IInv, TypeOK
    <3>3. CASE phase'[b] = phase[b]
      BY <2>1, <2>2, <2>4, <3>3, Same DEF Job!vars
    <3>4. CASE phase'[b] # phase[b]
      <4>1. \/ phase[b] = "started" /\ phase'[b] = "lost"
            \/ phase[b] = "waiting" /\ phase'[b] = "dropped"
        BY <2>1, <2>4, <3>1, <3>2, <3>4 DEF PhaseOf, Dropped
      <4> QED
        BY <2>1, <2>2, <2>4, <4>1, Moved DEF Job!Next, Job!Lose, Job!Drop, Job!Moves
    <3> QED
      BY <3>3, <3>4
  <2> QED
    BY <2>3, <2>4
<1> QED
  BY <1>2, <1>3, <1>4, <1>5, <1>6, <1>7, <1>8, <1>9, <1>10, <1>11, <1>12, <1>13
  DEF Next, process_batches

\* The batch service implements BatchJob: no batch is processed twice, nor two
\* at a time, and one whose cancellation is committed before the task has
\* selected it is never processed, whatever fails, crashes or overlaps.
THEOREM Implements == Spec => JobSpec
<1>1. Init => Job!Init
  <2> SUFFICES ASSUME Init PROVE Job!Init
    OBVIOUS
  <2>1. \A b \in Batches : phase[b] = "absent"
    BY InvInit, Phases DEF Init, PhaseOf
  <2>2. phase = [b \in Batches |-> phase[b]]
    BY DEF phase
  <2> QED
    BY <2>1, <2>2 DEF Init, Job!Init
<1>2. IInv /\ [Next]_vars => IInv'
  BY InvNext
<1>3. IInv /\ IInv' /\ [Next]_vars => [Job!Next]_(Job!vars)
  BY JobStep
<1> QED
  BY <1>1, <1>2, <1>3, InvInit, PTL DEF Spec, JobSpec, Job!Spec
-----------------------------------------------------------------------------
\* A batch is started when it is marked running, or selected to be.
Started(b) == progress[b] # "none" \/ (task = "mark" /\ current = b)

\* A batch has one row, and the rows before a started one do not wait.
QueueInv ==
    /\ \A i, j \in 1 .. Len(rows) : rows[i] = rows[j] => i = j
    /\ \A i, j \in 1 .. Len(rows) : i < j /\ Started(rows[j]) => status[rows[i]] # "pending"

\* A step that adds no row, makes no batch wait and starts none.
LEMMA QueueKept ==
    ASSUME QueueInv, rows \in Seq(Batches), rows' = rows,
           \A b \in Batches : Started(b)' => Started(b),
           \A b \in Batches : status'[b] = "pending" => status[b] = "pending"
    PROVE  QueueInv'
<1>1. \A i \in 1 .. Len(rows) : rows[i] \in Batches
  OBVIOUS
<1>2. \A i, j \in 1 .. Len(rows) : i < j /\ Started(rows[j])' => status'[rows[i]] # "pending"
  <2> SUFFICES ASSUME NEW i \in 1 .. Len(rows), NEW j \in 1 .. Len(rows), i < j, Started(rows[j])'
               PROVE  status'[rows[i]] # "pending"
    OBVIOUS
  <2>1. Started(rows[j])
    <3>1. rows[j] \in Batches
      BY <1>1
    <3>2. progress'[rows[j]] # "none" \/ (task' = "mark" /\ current' = rows[j])
      BY DEF Started
    <3> QED
      BY <3>1, <3>2 DEF Started
  <2> QED
    BY <1>1, <2>1 DEF QueueInv
<1> QED
  BY <1>2 DEF QueueInv, Started

\* A row is added behind all others, and its batch waits.
LEMMA QueueCreate ==
    ASSUME IInv, QueueInv, NEW b \in Batches, create_batch(b)
    PROVE  QueueInv'
<1> DEFINE n == Len(rows)
<1>1. /\ rows \in Seq(Batches) /\ n \in Nat /\ \A i \in 1 .. n : rows[i] \in Batches /\ rows[i] # b
  BY LenProperties DEF IInv, TypeOK, RowInv, create_batch
<1>2. /\ Len(rows') = n + 1 /\ rows'[n + 1] = b /\ \A i \in 1 .. n : rows'[i] = rows[i]
  BY <1>1, AppendProperties DEF create_batch
<1>3. UNCHANGED <<progress, task, current>> /\ \A x \in Batches \ {b} : status'[x] = status[x]
  BY DEF create_batch, worker, IInv, TypeOK
<1>4. progress[b] = "none" /\ ~(task = "mark" /\ current = b)
  BY DEF IInv, TypeOK, StatusInv, TaskInv, create_batch
<1> HIDE DEF n
<1>5. \A i \in 1 .. Len(rows') : i \in 1 .. n \/ i = n + 1
  BY <1>1, <1>2
<1>6. \A i, j \in 1 .. Len(rows') : rows'[i] = rows'[j] => i = j
  <2> SUFFICES ASSUME NEW i \in 1 .. Len(rows'), NEW j \in 1 .. Len(rows'), rows'[i] = rows'[j]
               PROVE  i = j
    OBVIOUS
  <2>1. \A k, l \in 1 .. n : rows[k] = rows[l] => k = l
    BY Zenon DEF QueueInv, n
  <2> QED
    BY <1>1, <1>2, <1>5, <2>1
<1>7. ASSUME NEW i \in 1 .. Len(rows'), NEW j \in 1 .. Len(rows'), i < j, Started(rows[j])'
      PROVE  status'[rows'[i]] # "pending"
  <2>1. j # n + 1
    BY <1>2, <1>3, <1>4, <1>7 DEF Started
  <2>2. i \in 1 .. n /\ j \in 1 .. n
    BY <1>1, <1>5, <1>7, <2>1
  <2>3. Started(rows[j])
    BY <1>2, <1>3, <1>7, <2>2 DEF Started
  <2>4. status[rows[i]] # "pending"
    BY <1>7, <2>2, <2>3, Zenon DEF QueueInv, n
  <2> QED
    BY <1>1, <1>2, <1>3, <2>2, <2>4
<1> QED
  BY <1>6, <1>7 DEF QueueInv

\* The task selects a waiting batch only if none before it waits.
LEMMA QueueSelect == ASSUME IInv, QueueInv, Select PROVE QueueInv'
<1>1. PICK k \in 1 .. Len(rows) : Selected(k) /\ current' = rows[k]
  BY DEF Select
<1>2. UNCHANGED <<rows, status, progress>>
  BY DEF Select, disk, table
<1>3. ASSUME NEW i \in 1 .. Len(rows), NEW j \in 1 .. Len(rows), i < j, Started(rows[j])'
      PROVE  status[rows[i]] # "pending"
  <2>1. CASE Started(rows[j])
    BY <1>3, <2>1 DEF QueueInv
  <2>2. CASE ~Started(rows[j])
    <3>1. rows[j] = rows[k]
      BY <1>1, <1>2, <1>3, <2>2 DEF Started
    <3>2. j = k
      BY <3>1 DEF QueueInv
    <3>3. i \in 1 .. k - 1
      BY <1>3, <3>2
    <3> QED
      BY <1>1, <3>3 DEF Selected
  <2> QED
    BY <2>1, <2>2
<1> QED
  BY <1>2, <1>3 DEF QueueInv, Started

\* Every step keeps the order.
LEMMA QueueNext == ASSUME IInv, QueueInv, [Next]_vars PROVE QueueInv'
<1> USE DEF disk, table, worker
<1>0. rows \in Seq(Batches) /\ status \in [Batches -> BatchStatus \cup {"none", "cancelled"}]
  BY DEF IInv, TypeOK
<1>1. CASE UNCHANGED <<rows, status, progress, task, current>>
  BY <1>0, <1>1, QueueKept DEF Started
<1>2. CASE initialize \/ RouterCrash \/ TaskDies \/ Work
  <2>1. UNCHANGED <<rows, status, progress>> /\ task' # "mark"
    BY <1>2 DEF initialize, RouterCrash, TaskDies, Work
  <2> QED
    BY <1>0, <2>1, QueueKept DEF Started
<1>3. CASE \E i \in Inputs : route_files(i)
  BY <1>1, <1>3 DEF route_files
<1>4. CASE \E b \in Batches : create_batch(b)
  BY <1>4, QueueCreate
<1>5. CASE (\E b \in Batches : retrieve_batch(b)) \/ list_batches
  BY <1>1, <1>5, Zenon DEF retrieve_batch, list_batches
<1>6. CASE \E c \in Clients, b \in Batches : cancel_batch(c, b)
  BY <1>1, <1>6 DEF cancel_batch
<1>7. CASE \E c \in Clients : CancelUpdate(c)
  <2>1. UNCHANGED <<rows, progress, task, current>> /\ \A b \in Batches : status'[b] \in {status[b], "cancelled"}
    BY <1>0, <1>7 DEF CancelUpdate, Cancelled
  <2> QED
    BY <1>0, <2>1, QueueKept DEF Started
<1>8. CASE Select
  BY <1>8, QueueSelect
<1>9. CASE Mark \/ Finish
  <2>1. current \in Batches /\ Started(current)
    BY <1>9, BatchAssumption DEF Mark, Finish, IInv, TypeOK, TaskInv, Busy, Started
  <2>2. /\ rows' = rows /\ task' # "mark"
        /\ \A b \in Batches : b # current => progress'[b] = progress[b]
        /\ \A b \in Batches : status'[b] \in {status[b], "running", "completed", "failed"}
    BY <1>0, <1>9 DEF Mark, Finish, IInv, TypeOK
  <2>3. \A b \in Batches : Started(b)' => Started(b)
    BY <2>1, <2>2 DEF Started
  <2> QED
    BY <1>0, <2>2, <2>3, QueueKept
<1> QED
  BY <1>1, <1>2, <1>3, <1>4, <1>5, <1>6, <1>7, <1>8, <1>9 DEF Next, process_batches, vars

\* process_batches takes the batches in the order of created_at: none is
\* marked running while one created before it is pending, also after a crash
\* or a statement that failed between the SELECT and the UPDATE.
THEOREM InOrder == Spec => []NotOvertaken
<1>1. Init => QueueInv
  BY DEF Init, QueueInv
<1>2. IInv /\ QueueInv /\ [Next]_vars => QueueInv'
  BY QueueNext
<1>3. QueueInv => NotOvertaken
  BY DEF QueueInv, NotOvertaken, Started
<1> QED
  BY <1>1, <1>2, <1>3, Invariance, PTL DEF Spec

-----------------------------------------------------------------------------
(* SleepMode.                                                              *)

\* A call no other has overlapped is the only one in progress, and the engine
\* is as it left it.
AloneInv ==
    /\ \A c, d \in Calls : c \in alone /\ d \in alone => c = d
    /\ \A c \in alone : c \in Open => Open = {c}
    /\ \A c \in alone : call[c] = "answered" => is_asleep = wants[c]

\* Unless calls overlapped or failed, the label is behind the engine only
\* between a call's answer and its patch.
LabelInv == ~spoiled =>
    /\ Open \subseteq alone
    /\ (\A c \in Calls : call[c] # "answered") => sleeping = is_asleep

\* With no event to come and the label up to date, what the watcher holds or
\* has stored is the engine's state.
FlagInv == ~spoiled /\ events = 0 /\ sleeping = is_asleep =>
    /\ labelWatcher = "wait" => sleep = is_asleep
    /\ labelWatcher = "asleep" => is_asleep
    /\ labelWatcher = "awake" => ~is_asleep

SleepInv == SleepTypeOK /\ AloneInv /\ LabelInv /\ FlagInv

\* The invariant holds initially.
LEMMA SleepInvInit == SleepInit => SleepInv
<1> SUFFICES ASSUME SleepInit PROVE SleepInv
  OBVIOUS
<1>1. SleepTypeOK
  <2>1. events \in Nat /\ callFailures \in 0 .. MaxCallFailures
    BY SleepModeAssumption DEF SleepInit
  <2> QED
    BY <2>1, Zenon DEF SleepInit, SleepTypeOK, CallSteps
<1>2. AloneInv
  BY Zenon DEF SleepInit, AloneInv
<1>3. LabelInv /\ FlagInv
  BY Zenon DEF SleepInit, LabelInv, FlagInv, Open
<1> QED
  BY <1>1, <1>2, <1>3 DEF SleepInv

\* POST /sleep or /wake_up comes in.
LEMMA ReceiveNext == ASSUME SleepInv, NEW c \in Calls, NEW s \in BOOLEAN, Receive(c, s) PROVE SleepInv'
<1> USE DEF SleepInv, Receive, SleepTypeOK, CallSteps
<1>1. SleepTypeOK'
  OBVIOUS
<1>2. Open' = Open \cup {c} /\ c \notin Open
  BY DEF Open
<1>3. AloneInv'
  BY <1>2 DEF AloneInv
<1>4. LabelInv'
  BY <1>2, Zenon DEF LabelInv
<1>5. FlagInv'
  BY DEF FlagInv
<1> QED
  BY <1>1, <1>3, <1>4, <1>5

\* The engine acts, or the call fails.
LEMMA PostNext == ASSUME SleepInv, NEW c \in Calls, EngineActs(c) \/ PostFails(c) PROVE SleepInv'
<1> USE DEF SleepInv, SleepTypeOK, CallSteps
<1>1. SleepTypeOK'
  <2>1. callFailures' \in 0 .. MaxCallFailures
    BY SleepModeAssumption DEF EngineActs, PostFails
  <2>2. call' \in [Calls -> CallSteps]
    BY DEF EngineActs, PostFails
  <2>3. is_asleep' \in BOOLEAN /\ spoiled' \in BOOLEAN
    BY Zenon DEF EngineActs, PostFails
  <2> QED
    BY <2>1, <2>2, <2>3, Zenon DEF EngineActs, PostFails
<1>2. CASE EngineActs(c)
  <2>1. Open' = Open /\ c \in Open
    BY <1>2 DEF EngineActs, Open
  <2>2. AloneInv'
    <3>1. ASSUME NEW d \in alone', call'[d] = "answered" PROVE is_asleep' = wants'[d]
      <4>1. CASE d = c
        BY <1>2, <4>1 DEF EngineActs
      <4>2. CASE d # c
        <5>1. d \in alone /\ call[d] = "answered"
          BY <1>2, <3>1, <4>2 DEF EngineActs
        <5>2. d \in Open
          BY <5>1 DEF Open
        <5> QED
          BY <2>1, <4>2, <5>1, <5>2 DEF AloneInv
      <4> QED
        BY <4>1, <4>2
    <3> QED
      BY <1>2, <2>1, <3>1, Zenon DEF AloneInv, EngineActs
  <2>3. LabelInv'
    BY <1>2, <2>1 DEF LabelInv, EngineActs
  <2>4. FlagInv'
    BY <1>2, <2>1 DEF FlagInv, LabelInv, AloneInv, EngineActs, Open
  <2> QED
    BY <1>1, <2>2, <2>3, <2>4
<1>3. CASE PostFails(c)
  <2>1. Open' = Open \ {c} /\ c \in Open
    BY <1>3 DEF PostFails, Open
  <2>2. AloneInv'
    BY <1>3, <2>1 DEF AloneInv, PostFails, Open
  <2>3. LabelInv' /\ FlagInv'
    BY <1>3 DEF LabelInv, FlagInv, PostFails
  <2> QED
    BY <1>1, <2>2, <2>3
<1> QED
  BY <1>2, <1>3

\* The label follows, or its patch fails.
LEMMA PatchNext == ASSUME SleepInv, NEW c \in Calls, PatchLabel(c) \/ PatchFails(c) PROVE SleepInv'
<1> USE DEF SleepInv, SleepTypeOK, CallSteps
<1>1. SleepTypeOK'
  <2>1. callFailures' \in 0 .. MaxCallFailures /\ events' \in Nat
    BY SleepModeAssumption DEF PatchLabel, PatchFails, SetLabel
  <2>2. call' \in [Calls -> CallSteps]
    BY DEF PatchLabel, PatchFails
  <2>3. sleeping' \in BOOLEAN /\ spoiled' \in BOOLEAN
    BY Zenon DEF PatchLabel, PatchFails, SetLabel
  <2> QED
    BY <2>1, <2>2, <2>3, Zenon DEF PatchLabel, PatchFails
<1>2. Open' = Open \ {c} /\ c \in Open
  BY DEF PatchLabel, PatchFails, Open
<1>3. AloneInv'
  BY <1>2 DEF AloneInv, PatchLabel, PatchFails, Open
<1>4. CASE PatchLabel(c)
  <2>1. ASSUME ~spoiled' PROVE c \in alone /\ Open = {c} /\ is_asleep = wants[c]
    BY <1>2, <1>4, <2>1 DEF PatchLabel, LabelInv, AloneInv
  <2>2. ASSUME ~spoiled' PROVE Open' = {} /\ sleeping' = is_asleep'
    BY <1>2, <1>4, <2>1, <2>2 DEF PatchLabel, SetLabel
  <2>3. LabelInv'
    BY <2>2 DEF LabelInv
  <2>4. FlagInv'
    <3> SUFFICES ASSUME ~spoiled', events' = 0 PROVE FlagInv'
      BY DEF FlagInv
    <3>1. sleeping' = sleeping /\ events = 0 /\ ~spoiled
      BY <1>4 DEF PatchLabel, SetLabel
    <3> QED
      BY <1>4, <2>2, <3>1 DEF FlagInv, PatchLabel
  <2> QED
    BY <1>1, <1>3, <2>3, <2>4
<1>5. CASE PatchFails(c)
  BY <1>1, <1>3, <1>5 DEF PatchFails, LabelInv, FlagInv
<1> QED
  BY <1>4, <1>5

\* The watcher asks the engine and stores the answer.
LEMMA WatcherNext == ASSUME SleepInv, ReadEvent \/ QuerySleep \/ StoreSleep PROVE SleepInv'
<1> USE DEF SleepInv, SleepTypeOK, CallSteps, ReadEvent, QuerySleep, StoreSleep
<1>1. SleepTypeOK'
  <2>1. callFailures' \in 0 .. MaxCallFailures /\ events' \in Nat
    BY SleepModeAssumption
  <2>2. sleep' \in BOOLEAN /\ spoiled' \in BOOLEAN
    BY Zenon
  <2>3. labelWatcher' \in {"wait", "query", "asleep", "awake"}
    BY Zenon
  <2> QED
    BY <2>1, <2>2, <2>3, Zenon
<1>2. UNCHANGED <<call, wants, alone, is_asleep, sleeping>> /\ Open' = Open
  BY DEF Open
<1>3. AloneInv' /\ LabelInv'
  BY <1>2 DEF AloneInv, LabelInv
<1>4. FlagInv'
  BY DEF FlagInv
<1> QED
  BY <1>1, <1>3, <1>4

\* Every step keeps it.
LEMMA SleepInvNext == SleepInv /\ [SleepNext]_sleepVars => SleepInv'
<1> SUFFICES ASSUME SleepInv, [SleepNext]_sleepVars PROVE SleepInv'
  OBVIOUS
<1>1. CASE UNCHANGED sleepVars
  BY <1>1 DEF sleepVars, SleepInv, SleepTypeOK, AloneInv, LabelInv, FlagInv, Open
<1> QED
  BY <1>1, ReceiveNext, PostNext, PatchNext, WatcherNext DEF SleepNext

\* It holds in every reachable state.
LEMMA SleepInvariance == SleepSpec => []SleepInv
<1>1. SleepInv /\ [SleepNext]_sleepVars => SleepInv'
  BY SleepInvNext
<1> QED
  BY SleepInvInit, <1>1, PTL DEF SleepSpec

\* Every reachable state has the declared types.
THEOREM SleepTypeCorrect == SleepSpec => []SleepTypeOK
<1>1. SleepInv => SleepTypeOK
  BY DEF SleepInv
<1> QED
  BY <1>1, SleepInvariance, PTL

\* However many calls overlapped or failed before: after one call made by
\* itself that changed the label, the sleep flag that route_general_request
\* filters on, the label and the engine agree as soon as the events are read.
THEOREM SleepAgreement == SleepSpec => []AgreeAtRest
<1>1. SleepInv => AgreeAtRest
  BY DEF SleepInv, AgreeAtRest, AtRest, LabelInv, FlagInv, Open
<1> QED
  BY <1>1, SleepInvariance, PTL

-----------------------------------------------------------------------------
(* PDCellGuardian.                                                         *)

\* Full readiness is remembered, and an armed guardian has seen it and every
\* status since (the strengthening).
ReadySeen ==
    /\ AllReady => was_ready
    /\ baseline # NoBaseline => was_ready /\ (lost \/ reported = Targets)

GuardianInv == GuardianTypeOK /\ ReadySeen /\ ArmedClean /\ RecycleJustified

\* The signature of a reported failure has the type of observed_failures.
LEMMA SignatureType ==
    ASSUME GuardianTypeOK, NEW t \in Targets, terminated(t) # -1
    PROVE  Signature(t) \in Signatures
<1>1. restartCount[t] \in 0 .. MaxRestarts
  BY DEF GuardianTypeOK
<1>2. terminated(t) \in -1 .. MaxRestarts
  BY <1>1, GuardianAssumption DEF terminated
<1> QED
  BY <1>1, <1>2 DEF Signature, Signatures

\* A process that has just started has no memory, of the right type.
LEMMA ForgetType ==
    ASSUME Forget
    PROVE  baseline' = NoBaseline /\ observed_failures' \in [Targets -> Signatures]
<1>1. NoFailure \in Signatures
  BY GuardianAssumption DEF NoFailure, Signatures
<1> QED
  BY <1>1 DEF Forget

\* diagnose_failures keeps the type of observed_failures.
LEMMA DiagnoseType ==
    ASSUME GuardianTypeOK, diagnose_failures
    PROVE  observed_failures' \in [Targets -> Signatures]
BY SignatureType DEF diagnose_failures, GuardianTypeOK

\* Every generation starts with the invariant.
LEMMA GuardianInvInit == GuardianInit => GuardianInv
<1> SUFFICES ASSUME GuardianInit PROVE GuardianInv
  OBVIOUS
<1>1. NoFailure \in Signatures
  BY GuardianAssumption DEF NoFailure, Signatures
<1>2. GuardianTypeOK
  <2>1. 0 \in 0 .. MaxRestarts /\ 0 \in 0 .. MaxApiFailures /\ 0 \in 0 .. MaxCrashes
    BY GuardianAssumption
  <2> QED
    BY <1>1, <2>1, Zenon DEF GuardianInit, GuardianTypeOK, States
<1>3. ~AllReady
  BY GuardianAssumption DEF GuardianInit, AllReady
<1> QED
  BY <1>2, <1>3 DEF GuardianInit, GuardianInv, ReadySeen, ArmedClean, RecycleJustified

\* kubelet's and the cluster's steps keep the invariant: a restartCount never
\* falls, and a status that disappears is remembered.
LEMMA ClusterStep ==
    ASSUME GuardianInv,
           PodChange \/ \E t \in Targets : ContainerStep(t) \/ ContainerRestart(t)
                                                         \/ StatusChange(t)
    PROVE  GuardianInv'
<1> USE DEF GuardianInv, process, history, kubelet
<1>1. ASSUME NEW t \in Targets, ContainerStep(t) PROVE GuardianInv'
  <2>1. GuardianTypeOK'
    BY <1>1 DEF ContainerStep, GuardianTypeOK
  <2> QED
    BY <2>1, <1>1, Zenon DEF ContainerStep, ReadySeen, ArmedClean, RecycleJustified, AllReady
<1>2. ASSUME NEW t \in Targets, ContainerRestart(t) PROVE GuardianInv'
  <2>1. GuardianTypeOK'
    BY <1>2, GuardianAssumption DEF ContainerRestart, GuardianTypeOK, States
  <2>2. ~AllReady'
    BY <1>2 DEF ContainerRestart, AllReady, GuardianTypeOK
  <2>3. \A u \in Targets : restartCount[u] > 0 => restartCount'[u] > 0
    BY <1>2, GuardianAssumption DEF ContainerRestart, GuardianTypeOK
  <2> QED
    BY <2>1, <2>2, <2>3, <1>2 DEF ContainerRestart, ReadySeen, ArmedClean, RecycleJustified
<1>3. ASSUME NEW t \in Targets, StatusChange(t) PROVE GuardianInv'
  <2>1. GuardianTypeOK'
    BY <1>3 DEF StatusChange, GuardianTypeOK
  <2> QED
    BY <2>1, <1>3, Zenon DEF StatusChange, ReadySeen, ArmedClean, RecycleJustified, GuardianTypeOK
<1>4. CASE PodChange
  <2>1. GuardianTypeOK'
    BY <1>4 DEF PodChange, GuardianTypeOK
  <2> QED
    BY <2>1, <1>4, Zenon DEF PodChange, ReadySeen, ArmedClean, RecycleJustified, AllReady
<1> QED
  BY <1>1, <1>2, <1>3, <1>4

\* So does a round of the main loop: it arms only a generation that is ready
\* and has not restarted, and decides to delete only what was ready before.
LEMMA PollStep ==
    ASSUME GuardianInv, Poll
    PROVE  GuardianInv'
<1> USE DEF GuardianInv, kubelet
<1>1. UNCHANGED <<state, restartCount, reported, pod, apiFailures, crashes, was_ready, lost>>
  BY DEF Poll
<1>2. restartCount \in [Targets -> 0 .. MaxRestarts]
  BY DEF GuardianTypeOK
<1>3. observed_failures' \in [Targets -> Signatures]
  BY DiagnoseType DEF Poll
<1>4. CASE baseline = NoBaseline /\ MustWait
  BY <1>1, <1>3, <1>4 DEF Poll, GuardianTypeOK, ReadySeen, ArmedClean, RecycleJustified, AllReady
<1>5. CASE baseline = NoBaseline /\ ~MustWait
  <2>1. AllReady /\ ArmOrDelete /\ was_ready
    BY <1>5 DEF Poll, MustWait, ReadySeen
  <2>2. CASE \E t \in Targets : restartCount[t] > 0
    BY <1>1, <1>3, <1>5, <2>1, <2>2, SMTT(30)
       DEF Poll, ArmOrDelete, GuardianTypeOK, ReadySeen, ArmedClean, RecycleJustified, AllReady
  <2>3. CASE \A t \in Targets : ~(restartCount[t] > 0)
    <3>1. guardian' = "poll" /\ baseline' = restartCount
      BY <2>1, <2>3 DEF ArmOrDelete
    <3>2. \A t \in Targets : restartCount[t] = 0
      <4> SUFFICES ASSUME NEW t \in Targets PROVE restartCount[t] = 0
        OBVIOUS
      <4>1. restartCount[t] \in 0 .. MaxRestarts /\ ~(restartCount[t] > 0)
        BY <1>2, <2>3
      <4> QED
        BY <4>1
    <3> QED
      BY <1>1, <1>2, <1>3, <2>1, <3>1, <3>2
         DEF Poll, GuardianTypeOK, ReadySeen, ArmedClean, RecycleJustified, AllReady
  <2> QED
    BY <2>2, <2>3
<1>6. CASE baseline # NoBaseline
  <2>1. was_ready /\ (lost \/ reported = Targets) /\ \A t \in Targets : baseline[t] = 0
    BY <1>6 DEF ReadySeen, ArmedClean
  <2>2. baseline' = baseline /\ guardian' = IF Broken THEN "delete" ELSE "poll"
    BY <1>6 DEF Poll
  <2>3. Broken => lost \/ \E t \in Targets : restartCount[t] > 0
    BY <2>1 DEF Broken
  <2> QED
    BY <1>1, <1>3, <2>1, <2>2, <2>3
       DEF Poll, GuardianTypeOK, ReadySeen, ArmedClean, RecycleJustified, AllReady
<1> QED
  BY <1>4, <1>5, <1>6

\* So do the guardian's other steps, in which it may lose its memory.
LEMMA OtherStep ==
    ASSUME GuardianInv, Crash \/ PollGone \/ DeletePod \/ DeleteFails
    PROVE  GuardianInv'
<1> USE DEF GuardianInv, kubelet, history
<1>1. CASE Crash
  <2>1. GuardianTypeOK'
    BY <1>1, ForgetType, GuardianAssumption DEF Crash, Ended, GuardianTypeOK
  <2> QED
    BY <2>1, <1>1, ForgetType, Zenon DEF Crash, Ended, ReadySeen, ArmedClean, RecycleJustified, AllReady
<1>2. CASE PollGone
  <2>1. GuardianTypeOK'
    BY <1>2 DEF PollGone, GuardianTypeOK
  <2> QED
    BY <2>1, <1>2, Zenon DEF PollGone, ReadySeen, ArmedClean, RecycleJustified, AllReady
<1>3. CASE DeletePod
  <2>1. GuardianTypeOK'
    BY <1>3 DEF DeletePod, DeleteOutcome, GuardianTypeOK
  <2> QED
    BY <2>1, <1>3, Zenon DEF DeletePod, DeleteOutcome, ReadySeen, ArmedClean, RecycleJustified, AllReady
<1>4. CASE DeleteFails
  <2>1. GuardianTypeOK'
    BY <1>4, ForgetType, GuardianAssumption DEF DeleteFails, Ended, GuardianTypeOK
  <2> QED
    BY <2>1, <1>4, ForgetType
       DEF DeleteFails, Ended, ReadySeen, ArmedClean, RecycleJustified, AllReady
<1> QED
  BY <1>1, <1>2, <1>3, <1>4

\* The invariant holds in every reachable state.
LEMMA GuardianInvariance == GuardianSpec => []GuardianInv
<1>1. GuardianInv /\ [GuardianNext]_guardianVars => GuardianInv'
  <2> SUFFICES ASSUME GuardianInv, [GuardianNext]_guardianVars PROVE GuardianInv'
    OBVIOUS
  <2>1. CASE GuardianNext
    BY <2>1, ClusterStep, PollStep, OtherStep DEF GuardianNext, Guardian
  <2>2. CASE UNCHANGED guardianVars
    BY <2>2 DEF guardianVars, kubelet, process, history, GuardianInv, GuardianTypeOK, ReadySeen, AllReady,
                ArmedClean, RecycleJustified
  <2> QED
    BY <2>1, <2>2
<1> QED
  BY <1>1, GuardianInvInit, PTL DEF GuardianSpec

\* Restart counts, baselines and terminations keep their range through
\* crashes, restarts and lost statuses.
THEOREM GuardianTypeCorrect == GuardianSpec => []GuardianTypeOK
BY GuardianInvariance, PTL DEF GuardianInv

\* The guardian deletes a pod only after all its targets were ready together,
\* and only because one restarted or lost its status (delete_self's callers).
THEOREM JustifiedRecycling == GuardianSpec => []RecycleJustified
BY GuardianInvariance, PTL DEF GuardianInv

\* The guardian is armed only on a generation without a restart (the test on
\* restarted_before_ready, with the early end in delete_self).
THEOREM CleanArming == GuardianSpec => []ArmedClean
BY GuardianInvariance, PTL DEF GuardianInv

\* No step, and in particular no late DELETE, touches the pod that took over
\* the name (the uid precondition of delete_self).
THEOREM ReplacementIsSafe == GuardianSpec => ReplacementSafe
<1>1. [GuardianNext]_guardianVars => [pod = "replaced" => pod' = "replaced"]_guardianVars
  BY DEF GuardianNext, Guardian, ContainerStep, ContainerRestart, StatusChange, PodChange, Crash,
         Poll, PollGone, DeletePod, DeleteOutcome, DeleteFails, guardianVars
<1> QED
  BY <1>1, PTL DEF GuardianSpec, ReplacementSafe

\* The failures a decision to delete rests on are on record before the DELETE
\* is sent, also for a process that has restarted (diagnose_failures comes
\* first in every round of the main loop).
THEOREM FailuresRecorded == GuardianSpec => RecordedBeforeDelete
<1> DEFINE Recorded ==
             guardian = "poll" /\ guardian' = "delete" =>
                \A t \in reported :
                   restartCount[t] > 0 => observed_failures'[t][1] = restartCount[t]
<1>1. ASSUME GuardianTypeOK, Poll PROVE Recorded
  <2> SUFFICES ASSUME NEW t \in reported, restartCount[t] > 0
               PROVE  observed_failures'[t][1] = restartCount[t]
    OBVIOUS
  <2>1. t \in Targets /\ restartCount[t] \in 0 .. MaxRestarts
    BY <1>1 DEF GuardianTypeOK
  <2>2. terminated(t) # -1
    BY <2>1 DEF terminated
  <2>3. observed_failures'[t] = Signature(t)
    BY <1>1, <2>1, <2>2, Zenon DEF Poll, diagnose_failures
  <2> QED
    BY <2>3 DEF Signature
<1>2. GuardianTypeOK /\ [GuardianNext]_guardianVars => [Recorded]_guardianVars
  <2> SUFFICES ASSUME GuardianTypeOK, GuardianNext, guardian = "poll", guardian' = "delete" PROVE Recorded
    OBVIOUS
  <2>1. Poll
    BY DEF GuardianNext, Guardian, ContainerStep, ContainerRestart, StatusChange, PodChange, Crash,
           Ended, PollGone, DeletePod, DeleteOutcome, DeleteFails, process
  <2> QED
    BY <1>1, <2>1
<1>3. GuardianSpec => []GuardianTypeOK
  BY GuardianTypeCorrect
<1> QED
  BY <1>2, <1>3, PTL DEF GuardianSpec, RecordedBeforeDelete

\* The process sleeps or is gone only when its pod is on its way out: an
\* accepted DELETE, a 404 and another uid are all that main stops for.
THEOREM NeverBlind == GuardianSpec => []WatchesItsPod
<1>1. GuardianInit => WatchesItsPod
  BY DEF GuardianInit, WatchesItsPod
<1>2. WatchesItsPod /\ [GuardianNext]_guardianVars => WatchesItsPod'
  <2> SUFFICES ASSUME WatchesItsPod, [GuardianNext]_guardianVars PROVE WatchesItsPod'
    OBVIOUS
  <2> USE DEF WatchesItsPod
  <2>1. CASE UNCHANGED <<guardian, pod>> \/ PodChange
    BY <2>1 DEF PodChange, process
  <2>2. CASE Crash \/ DeleteFails
    BY <2>2 DEF Crash, DeleteFails, Ended
  <2>3. CASE Poll
    BY <2>3 DEF Poll, ArmOrDelete
  <2>4. CASE PollGone \/ DeletePod
    BY <2>4 DEF PollGone, DeletePod, DeleteOutcome
  <2>5. CASE \E t \in Targets : ContainerStep(t) \/ ContainerRestart(t) \/ StatusChange(t)
    BY <2>1, <2>5 DEF ContainerStep, ContainerRestart, StatusChange, process
  <2> QED
    BY <2>1, <2>2, <2>3, <2>4, <2>5 DEF GuardianNext, Guardian, guardianVars, process
<1> QED
  BY <1>1, <1>2, PTL DEF GuardianSpec

\* A round of polling that sees a generation with a restart fully ready ends
\* in its deletion: an armed guardian compares with zeros (ArmedClean), and
\* one that is not armed tests restartCount itself.
THEOREM DirtyDeleted == GuardianSpec => DirtyNotPassed
<1> DEFINE Dirty == AllReady /\ \E t \in Targets : restartCount[t] > 0
<1>1. ASSUME GuardianInv, Poll, Dirty PROVE guardian' = "delete"
  <2>1. CASE baseline = NoBaseline
    BY <1>1, <2>1 DEF Poll, MustWait, ArmOrDelete
  <2>2. CASE baseline # NoBaseline
    <3>1. Broken
      BY <1>1, <2>2 DEF GuardianInv, ArmedClean, Broken
    <3> QED
      BY <1>1, <2>2, <3>1 DEF Poll
  <2> QED
    BY <2>1, <2>2
<1>2. GuardianInv => [Poll /\ Dirty => guardian' = "delete"]_guardianVars
  BY <1>1
<1> QED
  BY <1>2, GuardianInvariance, PTL DEF DirtyNotPassed
=============================================================================
