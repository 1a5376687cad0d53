--------------------------- MODULE TaskRepository ---------------------------
(***************************************************************************)
(* The state of the two databases and the transactions of TaskRepository   *)
(* (db/repository.py).  `tasks` lives in the external database, the        *)
(* runtime row of a task in the internal one: no transaction spans both,   *)
(* so every method of the repository is several transactions, and each is  *)
(* one operator here.  The actors (Dispatcher, Worker, Watchdog, Admin)    *)
(* call them one after the other, with anything in between.                *)
(*                                                                         *)
(* Time is abstracted to what the queries compare: exec_time to whether it *)
(* has been reached (due), locked_at to whether the lease timeout has      *)
(* passed since it was written ("fresh" or "stale").                       *)
(***************************************************************************)
EXTENDS Integers, FiniteSets

CONSTANTS
    Tasks,                \* ids of the rows that may ever be inserted
    NoTask,               \* an id of no task
    MaxAttemptsSettings,  \* what the setting max_attempts may be when it is read
    CustomMaxAttempts     \* max_attempts an admin may give a new task

ASSUME RepositoryAssumption ==
    /\ IsFiniteSet(Tasks)
    /\ NoTask \notin Tasks
    /\ MaxAttemptsSettings \subseteq Int /\ MaxAttemptsSettings # {}
    /\ CustomMaxAttempts \subseteq Int

VARIABLES
    status,     \* tasks.status; "unborn": not inserted yet, "gone": deleted
    due,        \* tasks.exec_time is null or has been reached
    rows,       \* the tasks that have a row in task_runtime
    runtime,    \* the columns of that row
    disturbed   \* history: see Disturb

dbVars == <<status, due, rows, runtime, disturbed>>

-----------------------------------------------------------------------------
\* TaskStatus (domain/task.py).
\* Mutant: a task in progress may be leased again.
LEASABLE_InProgress == {"created", "pending", "in_progress"}
LEASABLE == {"created", "pending"}
TERMINAL == {"completed", "failed", "ignoren"}
Statuses == LEASABLE \cup TERMINAL \cup {"in_progress", "unborn", "gone"}

\* One row of task_runtime.  worker_id is the dispatcher's constant prefix for
\* every lease, so it tells no two leases apart and is left out.  Nothing validates
\* max_attempts: it may be zero or negative.
Row == [attempts : Nat, max : Int, lock : {"none", "fresh", "stale"}, result : BOOLEAN]
BlankRow == [attempts |-> 0, max |-> 0, lock |-> "none", result |-> FALSE]

\* What the dispatcher, the queue and the workers keep of a task: a snapshot
\* taken when it was leased.  _row_to_dto falls back to 0 and 3 without a row.
Dto == [id : Tasks, attempts : Nat, max : Int]
DtoOf(t) == [id       |-> t,
             attempts |-> IF t \in rows THEN runtime[t].attempts ELSE 0,
             max      |-> IF t \in rows THEN runtime[t].max ELSE 3]

RepositoryTypeOK ==
    /\ status \in [Tasks -> Statuses]
    /\ due \in [Tasks -> BOOLEAN]
    /\ rows \in SUBSET Tasks
    /\ runtime \in [Tasks -> Row]
    /\ disturbed \in SUBSET Tasks

\* Both databases have just been migrated: no task, no runtime row.
RepositoryInit ==
    /\ status = [t \in Tasks |-> "unborn"]
    /\ due = [t \in Tasks |-> TRUE]
    /\ rows = {}
    /\ runtime = [t \in Tasks |-> BlankRow]
    /\ disturbed = {}

-----------------------------------------------------------------------------
\* UPDATE tasks SET status = to WHERE id IN ids AND status IN from.
MoveStatus(ids, from, to) ==
    status' = [t \in Tasks |-> IF t \in ids /\ status[t] \in from THEN to ELSE status[t]]

\* UPDATE task_runtime SET locked_at = NULL, ... WHERE task_id IN ids.
ClearLocks(ids) ==
    runtime' = [t \in Tasks |-> IF t \in ids \cap rows
                                THEN [runtime[t] EXCEPT !.lock = "none"]
                                ELSE runtime[t]]

\* History only.  A task is disturbed once somebody other than the holder of its
\* lease took the lease away or wrote its row (the watchdog, an admin's requeue
\* or delete), or once the second transaction of mark_done / mark_failed did not
\* follow the first.  No action reads it.
Disturb(ids) == disturbed' = disturbed \cup ids

-----------------------------------------------------------------------------
(* lease_batch *)

Leasable == {t \in Tasks : status[t] \in LEASABLE /\ due[t]}

\* SELECT ... LIMIT n FOR UPDATE SKIP LOCKED: n of the leasable rows at most, without
\* those another transaction has locked at that moment, which may be any of them (a
\* delete, the external system).  The order (exec_time, id) is left open.
Batches(n) == {S \in SUBSET Leasable : Cardinality(S) <= n}

\* Transaction 1: the rows become in_progress.  exec_time = now: still due.
LeaseStatus(S) ==
    /\ MoveStatus(S, LEASABLE, "in_progress")
    /\ UNCHANGED <<due, rows, runtime, disturbed>>

\* Transaction 2 reads the rows that exist and writes attempts + 1 back later:
\* seen holds what it read.  It inserts a row for the tasks it saw none of, with the
\* repository's default_max_attempts: what the setting was at this start.
AttemptsOf(S) == [t \in S \cap rows |-> runtime[t].attempts]

\* The insert of a row that exists by now violates the primary key.  The update
\* of a row that vanished raises too, when it is the only one of the flush.
InsertConflict(S, seen) == \E t \in S \ DOMAIN seen : t \in rows
RowVanished(seen) == \E t \in DOMAIN seen : t \notin rows

LeaseRuntime(S, seen) ==
    /\ ~InsertConflict(S, seen)
    /\ rows' = rows \cup (S \ DOMAIN seen)
    /\ \E default \in MaxAttemptsSettings :
          runtime' = [t \in Tasks |->
              IF t \in S \cap DOMAIN seen \cap rows
              THEN [runtime[t] EXCEPT !.attempts = seen[t] + 1, !.lock = "fresh"]
              ELSE IF t \in S \ DOMAIN seen
              THEN [attempts |-> 1, max |-> default, lock |-> "fresh", result |-> FALSE]
              ELSE runtime[t]]
    /\ UNCHANGED <<status, due, disturbed>>

\* The compensating transaction has no condition on the status.
ReleaseLease(S) ==
    /\ MoveStatus(S, Statuses \ {"unborn", "gone"}, "created")
    /\ UNCHANGED <<due, rows, runtime, disturbed>>

-----------------------------------------------------------------------------
(* mark_done and mark_failed: status first, conditional on in_progress; then  *)
(* the runtime row, conditional on nothing.                                   *)

CompleteStatus(t) ==
    /\ MoveStatus({t}, {"in_progress"}, "completed")
    /\ UNCHANGED <<due, rows, runtime, disturbed>>

\* Mutant: the row is written only while it is still locked.
CompleteRuntime_IfLocked(t) ==
    /\ runtime' = IF t \in rows /\ runtime[t].lock # "none"
                  THEN [runtime EXCEPT ![t].lock = "none", ![t].result = TRUE]
                  ELSE runtime
    /\ UNCHANGED <<status, due, rows, disturbed>>

CompleteRuntime(t) ==
    /\ runtime' = IF t \in rows
                  THEN [runtime EXCEPT ![t].lock = "none", ![t].result = TRUE]
                  ELSE runtime
    /\ UNCHANGED <<status, due, rows, disturbed>>

\* Mutant: no condition on the status.
RetryStatus_Unconditional(t) ==
    /\ MoveStatus({t}, Statuses, "pending")
    /\ due' = [due EXCEPT ![t] = FALSE]
    /\ UNCHANGED <<rows, runtime, disturbed>>

\* Mutant: the retry is scheduled, the status forgotten.
RetryStatus_Forgotten(t) ==
    /\ due' = [due EXCEPT ![t] = IF status[t] = "in_progress" THEN FALSE ELSE @]
    /\ UNCHANGED <<status, rows, runtime, disturbed>>

\* With a retry_at: exec_time moves to it, in the same conditional UPDATE.
RetryStatus(t) ==
    /\ MoveStatus({t}, {"in_progress"}, "pending")
    /\ due' = [due EXCEPT ![t] = IF status[t] = "in_progress" THEN FALSE ELSE @]
    /\ UNCHANGED <<rows, runtime, disturbed>>

\* Mutant: the retry of a cancelled worker has no condition on the status.
RetryNow_Unconditional(t) ==
    /\ MoveStatus({t}, Statuses, "pending")
    /\ due' = [due EXCEPT ![t] = TRUE]
    /\ UNCHANGED <<rows, runtime, disturbed>>

\* With retry_at = now: due at once.
RetryNow(t) ==
    /\ MoveStatus({t}, {"in_progress"}, "pending")
    /\ due' = [due EXCEPT ![t] = IF status[t] = "in_progress" THEN TRUE ELSE @]
    /\ UNCHANGED <<rows, runtime, disturbed>>

FailStatus(t) ==
    /\ MoveStatus({t}, {"in_progress"}, "failed")
    /\ UNCHANGED <<due, rows, runtime, disturbed>>

FailedRuntime(t) ==
    /\ ClearLocks({t})
    /\ UNCHANGED <<status, due, rows, disturbed>>

-----------------------------------------------------------------------------
(* reclaim_expired: three transactions, on the ids the first one selected. *)

\* Mutant: the comparison with the threshold the wrong way round.
Expired_Inverted == {t \in rows : runtime[t].lock = "fresh"}
Expired == {t \in rows : runtime[t].lock = "stale"}

\* Mutant: no condition on the status.
ReclaimStatus_Unconditional(ids) ==
    /\ MoveStatus(ids, Statuses, "pending")
    /\ Disturb({t \in ids : status[t] = "in_progress"})
    /\ UNCHANGED <<due, rows, runtime>>

ReclaimStatus(ids) ==
    /\ MoveStatus(ids, {"in_progress"}, "pending")
    /\ Disturb({t \in ids : status[t] = "in_progress"})
    /\ UNCHANGED <<due, rows, runtime>>

ReclaimRuntime(ids) ==
    /\ ClearLocks(ids)
    /\ UNCHANGED <<status, due, rows, disturbed>>

-----------------------------------------------------------------------------
(* create_task, delete_task and requeue (admin) *)

InsertTask(t, isDue) ==
    /\ status[t] = "unborn"
    /\ status' = [status EXCEPT ![t] = "created"]
    /\ due' = [due EXCEPT ![t] = isDue]
    /\ UNCHANGED <<rows, runtime, disturbed>>

InsertRow(t, max) ==
    /\ t \notin rows
    /\ rows' = rows \cup {t}
    /\ runtime' = [runtime EXCEPT ![t] = [BlankRow EXCEPT !.max = max]]
    /\ UNCHANGED <<status, due, disturbed>>

DeleteTaskRow(t) ==
    /\ MoveStatus({t}, Statuses \ {"unborn"}, "gone")
    /\ Disturb({t})
    /\ UNCHANGED <<due, rows, runtime>>

DeleteRow(t) ==
    /\ rows' = rows \ {t}
    /\ runtime' = [runtime EXCEPT ![t] = BlankRow]
    /\ UNCHANGED <<status, due, disturbed>>

RequeueStatus(t) ==
    /\ MoveStatus({t}, TERMINAL, "created")
    /\ due' = [due EXCEPT ![t] = IF status[t] \in TERMINAL THEN TRUE ELSE @]
    /\ Disturb({t})
    /\ UNCHANGED <<rows, runtime>>

\* Whatever the status was, and whether or not the task was requeued.
RequeueRuntime(t) ==
    /\ runtime' = IF t \in rows
                  THEN [runtime EXCEPT ![t].attempts = 0, ![t].lock = "none"]
                  ELSE runtime
    /\ UNCHANGED <<status, due, rows, disturbed>>

-----------------------------------------------------------------------------
(* The passing of time *)

\* exec_time is reached.
BecomeDue(t) ==
    /\ ~due[t]
    /\ due' = [due EXCEPT ![t] = TRUE]
    /\ UNCHANGED <<status, rows, runtime, disturbed>>

\* The lease timeout has passed since locked_at.
Expire(t) ==
    /\ t \in rows
    /\ runtime[t].lock = "fresh"
    /\ runtime' = [runtime EXCEPT ![t].lock = "stale"]
    /\ UNCHANGED <<status, due, rows, disturbed>>
=============================================================================
