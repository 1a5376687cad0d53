----------------------------- MODULE Dispatcher -----------------------------
(***************************************************************************)
(* The dispatcher loop (queue/dispatcher.py): compute the free places of   *)
(* the queue, lease as many tasks, put them into the queue.  lease_batch   *)
(* is three transactions and a compensating one; other actors run at every *)
(* await in between.  The order within one batch is left open.             *)
(***************************************************************************)
EXTENDS TaskQueue

VARIABLES
    dpc,     \* where the loop is
    want,    \* batch_size: the free places it computed
    leased,  \* leased_ids of the lease_batch call in progress
    seen,    \* the attempts its second transaction has read
    batch    \* the leased DTOs it has not put into the queue yet

dispatcherVars == <<dpc, want, leased, seen, batch>>

\* The steps of a lease_batch call between which the lease is only half written.
LeaseWindow == {"read", "write", "compensate"}
Unread == [t \in {} |-> 0]

DispatcherTypeOK ==
    /\ dpc \in {"poll", "lease", "fetch", "put"} \cup LeaseWindow
    /\ want \in Nat
    /\ leased \in SUBSET Tasks
    /\ \A t \in DOMAIN seen : t \in leased /\ seen[t] \in Nat
    /\ batch \in SUBSET Dto
    /\ leased # {} => dpc \in LeaseWindow \cup {"fetch"}
    /\ DOMAIN seen # {} => dpc = "write"
    /\ batch # {} => dpc = "put"

DispatcherInit ==
    /\ dpc = "poll"
    /\ want = 0
    /\ leased = {}
    /\ seen = Unread
    /\ batch = {}

\* Mutant: the leased ids survive the end of the call.
DispatcherReset_KeepsLeased ==
    /\ dpc' = "poll"
    /\ want' = 0
    /\ UNCHANGED leased
    /\ seen' = Unread
    /\ batch' = {}

DispatcherReset ==
    /\ dpc' = "poll"
    /\ want' = 0
    /\ leased' = {}
    /\ seen' = Unread
    /\ batch' = {}

\* Mutant: what is queued already is not subtracted.
Free_IgnoresQueued == IF QueueMax = 0 THEN 10 ELSE QueueMax

\* `10` when maxsize is 0, the free places otherwise.
Free == IF QueueMax = 0 THEN 10 ELSE QueueMax - Len(queue)

Poll ==
    /\ dpc = "poll"
    /\ Free > 0
    /\ dpc' = "lease"
    /\ want' = Free
    /\ UNCHANGED <<leased, seen, batch, queue, dbVars>>

\* External transaction of lease_batch.  Nothing to lease: back to polling.
Lease ==
    /\ dpc = "lease"
    /\ \E S \in Batches(want) :
          /\ LeaseStatus(S)
          /\ leased' = S
          /\ dpc' = IF S = {} THEN "poll" ELSE "read"
          /\ want' = IF S = {} THEN 0 ELSE want
    /\ UNCHANGED <<seen, batch, queue>>

\* Internal transaction, first half: read the runtime rows there are.
ReadRuntime ==
    /\ dpc = "read"
    /\ seen' = AttemptsOf(leased)
    /\ dpc' = "write"
    /\ UNCHANGED <<want, leased, batch, queue, dbVars>>

\* Internal transaction, second half: write attempts + 1 and locked_at.
WriteRuntime ==
    /\ dpc = "write"
    /\ LeaseRuntime(leased, seen)
    /\ seen' = Unread
    /\ dpc' = "fetch"
    /\ UNCHANGED <<want, leased, batch, queue>>

\* The flush of the second half fails on a row inserted or deleted meanwhile.
WriteConflict ==
    /\ dpc = "write"
    /\ InsertConflict(leased, seen) \/ RowVanished(seen)
    /\ seen' = Unread
    /\ dpc' = "compensate"
    /\ UNCHANGED <<want, leased, batch, queue, dbVars>>

\* `except Exception`: the external lease is released, the error re-raised to
\* the loop, which logs it.
Compensate ==
    /\ dpc = "compensate"
    /\ ReleaseLease(leased)
    /\ DispatcherReset
    /\ UNCHANGED queue

\* The rows are read once more, for the DTOs.
Fetch ==
    /\ dpc = "fetch"
    /\ batch' = {DtoOf(t) : t \in leased}
    /\ leased' = {}
    /\ dpc' = "put"
    /\ UNCHANGED <<want, seen, queue, dbVars>>

PutNext ==
    /\ dpc = "put"
    /\ \E dto \in batch :
          /\ Put(dto)
          /\ batch' = batch \ {dto}
    /\ dpc' = IF batch' = {} THEN "poll" ELSE "put"
    /\ want' = IF batch' = {} THEN 0 ELSE want
    /\ UNCHANGED <<leased, seen, dbVars>>

DispatcherStep ==
    \/ Poll
    \/ Lease
    \/ ReadRuntime
    \/ WriteRuntime
    \/ WriteConflict
    \/ Compensate
    \/ Fetch
    \/ PutNext

\* A transaction fails.  Inside the try block that leads to the compensation;
\* before it, in the compensation itself or after it, to the loop's handler.
DispatcherFault ==
    /\ UNCHANGED <<queue, dbVars>>
    /\ \/ /\ dpc \in {"read", "write"}
          /\ dpc' = "compensate"
          /\ seen' = Unread
          /\ UNCHANGED <<want, leased, batch>>
       \/ /\ dpc \in {"lease", "compensate", "fetch"}
          /\ DispatcherReset
=============================================================================
