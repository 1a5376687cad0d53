------------------------------- MODULE Worker -------------------------------
(***************************************************************************)
(* The workers (workers/worker.py): take a DTO, run the browser agent,     *)
(* record the outcome.  Recording is mark_done or mark_failed: the status  *)
(* in one transaction, the runtime row in the next.  An error while the    *)
(* outcome of the run is recorded is handled by recording a failure once   *)
(* more; an error during that is logged and dropped.                       *)
(***************************************************************************)
EXTENDS TaskQueue

CONSTANTS
    Workers,
    BackoffBase,  \* backoff_base_seconds
    LongestDelay  \* the longest delay that added to the clock is still a datetime

ASSUME WorkerAssumption == BackoffBase \in Nat /\ LongestDelay \in Nat

VARIABLES
    wpc,      \* where each worker is
    job,      \* the DTO it took from the queue
    handling  \* whether it is in the `except Exception` block of _handle

workerVars == <<wpc, job, handling>>

NoJob == [id |-> NoTask, attempts |-> 0, max |-> 0]

\* A worker there has yet to move the status of its task out of in_progress.
Holding == {"run", "done_status", "retry_status", "fail_status"}
\* A worker there has moved it and has yet to write the runtime row.
Recording == {"done_row", "failed_row"}

WorkerTypeOK ==
    /\ wpc \in [Workers -> {"idle"} \cup Holding \cup Recording]
    /\ job \in [Workers -> Dto \cup {NoJob}]
    /\ \A w \in Workers : job[w] = NoJob <=> wpc[w] = "idle"
    /\ handling \in [Workers -> BOOLEAN]

WorkerInit ==
    /\ wpc = [w \in Workers |-> "idle"]
    /\ job = [w \in Workers |-> NoJob]
    /\ handling = [w \in Workers |-> FALSE]

Goto(w, from, to) ==
    /\ wpc[w] = from
    /\ wpc' = [wpc EXCEPT ![w] = to]

Finish(w) ==
    /\ wpc' = [wpc EXCEPT ![w] = "idle"]
    /\ job' = [job EXCEPT ![w] = NoJob]
    /\ handling' = [handling EXCEPT ![w] = FALSE]

\* The limit of a task is its own; 0 counts as none, and then it is the setting, read
\* when it is needed.
Limits(max) == IF max # 0 THEN {max} ELSE MaxAttemptsSettings

\* Mutant: one attempt too many.
RetryOrFail_OneMore(dto) ==
    {IF dto.attempts <= limit THEN "retry_status" ELSE "fail_status" : limit \in Limits(dto.max)}

\* _retry_or_fail decides on the attempts in the DTO, not on those in the row.
RetryOrFail(dto) ==
    {IF dto.attempts < limit THEN "retry_status" ELSE "fail_status" : limit \in Limits(dto.max)}

\* The delay doubles with every attempt, and neither it nor max_attempts has a limit.
Delay(dto) == BackoffBase * 2 ^ (IF dto.attempts > 0 THEN dto.attempts - 1 ELSE 0)

Take(w) ==
    /\ Goto(w, "idle", "run")
    /\ Get(Head(queue))
    /\ job' = [job EXCEPT ![w] = Head(queue)]
    /\ UNCHANGED <<handling, dbVars>>

\* The agent reports success.
Succeed(w) ==
    /\ Goto(w, "run", "done_status")
    /\ UNCHANGED <<job, handling, queue, dbVars>>

\* The agent reports failure.
ReportFailure(w) ==
    /\ \E to \in RetryOrFail(job[w]) : Goto(w, "run", to)
    /\ UNCHANGED <<job, handling, queue, dbVars>>

\* Resolving the proxy, building the profile or the run raises (a timeout does).
Raise(w) ==
    /\ \E to \in RetryOrFail(job[w]) : Goto(w, "run", to)
    /\ handling' = [handling EXCEPT ![w] = TRUE]
    /\ UNCHANGED <<job, queue, dbVars>>

\* Mutant: the worker is done once the status is.
MarkDoneStatus_OmitsRow(w) ==
    /\ wpc[w] = "done_status"
    /\ CompleteStatus(job[w].id)
    /\ Finish(w)
    /\ UNCHANGED queue

MarkDoneStatus(w) ==
    /\ Goto(w, "done_status", "done_row")
    /\ CompleteStatus(job[w].id)
    /\ UNCHANGED <<job, handling, queue>>

MarkDoneRow(w) ==
    /\ wpc[w] = "done_row"
    /\ CompleteRuntime(job[w].id)
    /\ Finish(w)
    /\ UNCHANGED queue

\* An error while the outcome is recorded: it is recorded as a failure once more, and
\* if that was the second time, "failed_to_record" is logged and the task left alone.
RecordingFails(w) ==
    \/ /\ ~handling[w]
       /\ \E to \in RetryOrFail(job[w]) : wpc' = [wpc EXCEPT ![w] = to]
       /\ handling' = [handling EXCEPT ![w] = TRUE]
       /\ UNCHANGED job
    \/ /\ handling[w]
       /\ Finish(w)

\* The date of the retry cannot be represented: an OverflowError before mark_failed.
BackoffOverflows(w) ==
    /\ wpc[w] = "retry_status"
    /\ Delay(job[w]) > LongestDelay
    /\ RecordingFails(w)
    /\ UNCHANGED <<queue, dbVars>>

MarkRetryStatus(w) ==
    /\ Goto(w, "retry_status", "failed_row")
    /\ Delay(job[w]) <= LongestDelay
    /\ RetryStatus(job[w].id)
    /\ UNCHANGED <<job, handling, queue>>

MarkFailStatus(w) ==
    /\ Goto(w, "fail_status", "failed_row")
    /\ FailStatus(job[w].id)
    /\ UNCHANGED <<job, handling, queue>>

MarkFailedRow(w) ==
    /\ wpc[w] = "failed_row"
    /\ FailedRuntime(job[w].id)
    /\ Finish(w)
    /\ UNCHANGED queue

WorkerStep(w) ==
    \/ Take(w)
    \/ Succeed(w)
    \/ ReportFailure(w)
    \/ Raise(w)
    \/ MarkDoneStatus(w)
    \/ MarkDoneRow(w)
    \/ MarkRetryStatus(w)
    \/ BackoffOverflows(w)
    \/ MarkFailStatus(w)
    \/ MarkFailedRow(w)

\* A transaction of mark_done or mark_failed fails, or get_worker before it.
WorkerFault(w) ==
    /\ wpc[w] \in (Holding \ {"run"}) \cup Recording
    /\ RecordingFails(w)
    /\ Disturb(IF wpc[w] \in Recording THEN {job[w].id} ELSE {})
    /\ UNCHANGED <<queue, status, due, rows, runtime>>
=============================================================================
