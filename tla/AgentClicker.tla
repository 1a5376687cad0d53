---------------------------- MODULE AgentClicker ----------------------------
(***************************************************************************)
(* The service: one process with a dispatcher, a watchdog, the workers and *)
(* the admin API (main.py), over two databases that survive it.  Between   *)
(* any two awaits of one actor every other may run; a transaction may      *)
(* fail; the process may be killed and started again.                      *)
(***************************************************************************)
EXTENDS Dispatcher, Worker, Watchdog, Admin

vars == <<dbVars, queue, dispatcherVars, workerVars, watchdogVars, adminVars>>

TypeOK ==
    /\ RepositoryTypeOK
    /\ QueueTypeOK
    /\ DispatcherTypeOK
    /\ WorkerTypeOK
    /\ WatchdogTypeOK
    /\ AdminTypeOK

Init ==
    /\ RepositoryInit
    /\ QueueInit
    /\ DispatcherInit
    /\ WorkerInit
    /\ WatchdogInit
    /\ AdminInit

-----------------------------------------------------------------------------
(* The steps of each actor, the others standing still *)

DispatcherRuns == DispatcherStep /\ UNCHANGED <<workerVars, watchdogVars, adminVars>>
WorkerRuns(w) == WorkerStep(w) /\ UNCHANGED <<dispatcherVars, watchdogVars, adminVars>>
WatchdogRuns == WatchdogStep /\ UNCHANGED <<queue, dispatcherVars, workerVars, adminVars>>
AdminRuns == AdminStep /\ UNCHANGED <<queue, dispatcherVars, workerVars, watchdogVars>>

AdminRequests(t) ==
    AdminRequest(t) /\ UNCHANGED <<queue, dispatcherVars, workerVars, watchdogVars>>

\* The external system inserts a task itself: no runtime row.
ExternalInsert(t) ==
    /\ \E isDue \in BOOLEAN : InsertTask(t, isDue)
    /\ UNCHANGED <<queue, dispatcherVars, workerVars, watchdogVars, adminVars>>

TimePasses(t) ==
    /\ BecomeDue(t) \/ Expire(t)
    /\ UNCHANGED <<queue, dispatcherVars, workerVars, watchdogVars, adminVars>>

\* A transaction of one of the actors fails.
DispatcherFails == DispatcherFault /\ UNCHANGED <<workerVars, watchdogVars, adminVars>>
WorkerFails(w) == WorkerFault(w) /\ UNCHANGED <<dispatcherVars, watchdogVars, adminVars>>
WatchdogFails == WatchdogFault /\ UNCHANGED <<queue, dispatcherVars, workerVars, adminVars>>
AdminFails == AdminFault /\ UNCHANGED <<queue, dispatcherVars, workerVars, watchdogVars>>

Fault ==
    \/ DispatcherFails
    \/ \E w \in Workers : WorkerFails(w)
    \/ WatchdogFails
    \/ AdminFails

\* The process is killed and started again: the databases keep what was
\* committed, everything in memory is as in Init.
Crash ==
    /\ queue' = <<>>
    /\ DispatcherReset
    /\ wpc' = [w \in Workers |-> "idle"]
    /\ job' = [w \in Workers |-> NoJob]
    /\ handling' = [w \in Workers |-> FALSE]
    /\ gpc' = "select"
    /\ stale' = {}
    /\ apc' = "idle"
    /\ target' = NoTask
    /\ Disturb({job[w].id : w \in {v \in Workers : wpc[v] \in Recording}})
    /\ UNCHANGED <<status, due, rows, runtime>>

Next ==
    \/ DispatcherRuns
    \/ \E w \in Workers : WorkerRuns(w)
    \/ WatchdogRuns
    \/ AdminRuns
    \/ \E t \in Tasks : AdminRequests(t) \/ ExternalInsert(t) \/ TimePasses(t)
    \/ Fault
    \/ Crash

Spec == Init /\ [][Next]_vars

-----------------------------------------------------------------------------
(* Holders of a lease *)

\* The places of the process that hold a lease of t.
InLease(t) == t \in leased
InBatch(t) == \E dto \in batch : dto.id = t
QueuedAt(t) == {i \in 1..Len(queue) : queue[i].id = t}
WorkersOn(t) == {w \in Workers : wpc[w] \in Holding /\ job[w].id = t}

Held(t) ==
    \/ InLease(t)
    \/ InBatch(t)
    \/ QueuedAt(t) # {}
    \/ WorkersOn(t) # {}

\* Each of these places, as a pair that tells it from every other.
Holders(t) ==
    {h \in {<<"lease", t>>} : InLease(t)}
        \cup {<<"batch", dto>> : dto \in {d \in batch : d.id = t}}
        \cup {<<"queue", i>> : i \in QueuedAt(t)}
        \cup {<<"worker", w>> : w \in WorkersOn(t)}

\* The promise, kept by the held tasks nobody intervened in.
Lifecycle == INSTANCE TaskLifecycle WITH
    status <- status,
    held <- {t \in Tasks : Held(t)} \ disturbed,
    disturbed <- disturbed
LifecycleSpec == Lifecycle!Spec

-----------------------------------------------------------------------------
(* Properties *)

\* The dispatcher never leases more than the queue has room for: with a bounded
\* queue, everything leased and not yet queued still fits, so `put` never waits
\* while leases age (dispatcher.py computes `free` before three transactions).
QueueFits ==
    QueueMax # 0 =>
        /\ Len(queue) + Cardinality(batch) <= QueueMax
        /\ dpc \in {"lease", "fetch"} \cup LeaseWindow => Len(queue) + want <= QueueMax
        /\ Cardinality(leased) <= want

\* Nobody has two holders of a lease of one task unless the watchdog or an admin
\* intervened, or an attempt was left half recorded; and a lease is held only of a
\* task in progress.  (No lease token exists: this is all that prevents a task
\* from being executed twice.)
ExclusiveLease ==
    \A t \in Tasks \ disturbed :
        /\ \A g, h \in Holders(t) : g = h
        /\ Held(t) => status[t] = "in_progress"

\* A task of that max_attempts may be leased n times: the first lease asks for nothing.
Allowed(max, n) == n <= 1 \/ \E limit \in Limits(max) : n <= limit

\* A task nobody intervened in is leased once, and again only within a limit that was
\* in force for it, although leasing never looks at attempts: the worker decides on its
\* DTO.
AttemptsBounded ==
    \A t \in rows \ disturbed :
        /\ Allowed(runtime[t].max, runtime[t].attempts)
        /\ status[t] \in LEASABLE => Allowed(runtime[t].max, runtime[t].attempts + 1)

\* A completed task nobody intervened in has its result, once the worker that
\* completed it has finished recording.
ResultRecorded ==
    \A t \in Tasks \ disturbed :
        status[t] = "completed" =>
            \/ t \in rows /\ runtime[t].result
            \/ \E w \in Workers : wpc[w] = "done_row" /\ job[w].id = t

\* No step of a worker, the watchdog or the dispatcher takes a task out of a
\* terminal status, except a compensation that hits a task intervened in: only
\* an admin does.
TerminalStays ==
    [][\A t \in Tasks :
          status[t] \in TERMINAL /\ status'[t] # status[t] =>
              \/ apc = "idle" /\ apc' = "requeue_row" /\ target' = t /\ status'[t] = "created"
              \/ apc = "idle" /\ apc' = "delete_row" /\ target' = t /\ status'[t] = "gone"
              \/ dpc = "compensate" /\ t \in disturbed]_vars

-----------------------------------------------------------------------------
(* Stuck tasks *)

\* In progress, yet nobody holds the lease and no lock is left that the watchdog
\* could find expired: nothing will ever move the task again.
Orphan(t) ==
    /\ status[t] = "in_progress"
    /\ ~Held(t)
    /\ ~(t \in rows /\ runtime[t].lock # "none")
    /\ ~(gpc = "release" /\ t \in stale)
=============================================================================
