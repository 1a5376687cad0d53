------------------------------ MODULE Shutdown ------------------------------
(***************************************************************************)
(* The orderly stop of the service and the next start (lifecycle.py,       *)
(* workers/pool.py).  The components are stopped in the reverse of the     *)
(* order they were started in (main.py): the worker pool, which drains the *)
(* queue and then cancels its workers, the watchdog, the dispatcher.  Until *)
(* its turn comes, each of them keeps running.  When stopping the pool      *)
(* fails or takes too long, Lifespan goes on without it: its workers run    *)
(* until asyncio.run cancels what is left.                                  *)
(***************************************************************************)
EXTENDS AgentClicker

VARIABLES
    phase,      \* what Lifespan is doing
    cancelled,  \* how far each worker is with its CancelledError
    stops       \* history: how many stops have been requested

shutdownVars == <<phase, cancelled, stops>>
allVars == <<vars, shutdownVars>>

NoneCancelled == \A w \in Workers : cancelled[w] = "no"
AllCancelled == \A w \in Workers : cancelled[w] # "no"
AllEnded == \A w \in Workers : cancelled[w] = "ended"

ShutdownTypeOK ==
    /\ phase \in {"serving", "drain", "cancel", "watchdog", "dispatcher", "exit", "off"}
    /\ cancelled \in [Workers -> {"no", "status", "row", "ended"}]
    /\ phase \in {"serving", "drain"} => NoneCancelled
    /\ phase = "cancel" => AllCancelled
    /\ phase \in {"watchdog", "dispatcher"} => NoneCancelled \/ AllEnded
    /\ phase = "exit" => NoneCancelled \/ AllCancelled
    /\ phase = "off" => AllEnded /\ queue = <<>>
    /\ phase \in {"exit", "off"} => dpc = "poll"
    /\ \A w \in Workers :
          /\ cancelled[w] = "ended" => wpc[w] = "idle"
          /\ cancelled[w] \in {"status", "row"} => wpc[w] # "idle"
    /\ stops \in Nat
    /\ phase # "serving" => stops > 0

ShutdownInit ==
    /\ Init
    /\ phase = "serving"
    /\ cancelled = [w \in Workers |-> "no"]
    /\ stops = 0

-----------------------------------------------------------------------------
(* The stop *)

\* A signal: the admin server stops serving, its requests are finished.
StopRequested ==
    /\ phase = "serving"
    /\ apc = "idle"
    /\ phase' = "drain"
    /\ stops' = stops + 1
    /\ UNCHANGED <<vars, cancelled>>

\* All workers are cancelled, wherever they are.  One that handles an exception ends
\* there and then, and so does one that waits for a task; the others are in the body
\* of _handle.
CancelAll ==
    /\ cancelled' = [w \in Workers |->
          IF wpc[w] = "idle" \/ handling[w] THEN "ended" ELSE "status"]
    /\ wpc' = [w \in Workers |-> IF handling[w] THEN "idle" ELSE wpc[w]]
    /\ job' = [w \in Workers |-> IF handling[w] THEN NoJob ELSE job[w]]
    /\ handling' = [w \in Workers |-> FALSE]
    /\ Disturb({job[w].id : w \in {v \in Workers : wpc[v] \in Recording}})
    /\ UNCHANGED <<status, due, rows, runtime, queue, stops, dispatcherVars, watchdogVars, adminVars>>

\* The queue has been joined, or its timeout has passed.
CancelWorkers ==
    /\ phase = "drain"
    /\ phase' = "cancel"
    /\ CancelAll

\* get_worker raises, or Lifespan's timeout, that of the start, cancels the join whose
\* timeout has been raised since: the workers are neither cancelled nor awaited.
PoolFails ==
    /\ phase = "drain"
    /\ phase' = "watchdog"
    /\ UNCHANGED <<vars, cancelled, stops>>

\* Mutant: the run goes on while its cancellation is recorded.
CancelStatus_StillRunning(w) ==
    /\ cancelled[w] = "status"
    /\ cancelled' = [cancelled EXCEPT ![w] = "row"]
    /\ RetryNow(job[w].id)
    /\ UNCHANGED <<wpc, job, handling, queue, phase, stops, dispatcherVars, watchdogVars, adminVars>>

\* `except CancelledError`: mark_failed, to be retried now.
CancelStatus(w) ==
    /\ cancelled[w] = "status"
    /\ cancelled' = [cancelled EXCEPT ![w] = "row"]
    /\ wpc' = [wpc EXCEPT ![w] = "failed_row"]
    /\ RetryNow(job[w].id)
    /\ UNCHANGED <<job, handling, queue, phase, stops, dispatcherVars, watchdogVars, adminVars>>

CancelRow(w) ==
    /\ cancelled[w] = "row"
    /\ cancelled' = [cancelled EXCEPT ![w] = "ended"]
    /\ FailedRuntime(job[w].id)
    /\ Finish(w)
    /\ UNCHANGED <<queue, phase, stops, dispatcherVars, watchdogVars, adminVars>>

\* That mark_failed fails, or is cancelled itself by Lifespan's timeout.
CancelFault(w) ==
    /\ cancelled[w] \in {"status", "row"}
    /\ cancelled' = [cancelled EXCEPT ![w] = "ended"]
    /\ Finish(w)
    /\ Disturb(IF cancelled[w] = "row" THEN {job[w].id} ELSE {})
    /\ UNCHANGED <<status, due, rows, runtime, queue, phase, stops, dispatcherVars, watchdogVars, adminVars>>

\* Mutant: the cancelled workers are not awaited.
PoolStops_NoWait ==
    /\ phase = "cancel"
    /\ phase' = "watchdog"
    /\ UNCHANGED <<vars, cancelled, stops>>

\* All workers have ended.  Lifespan's timeout cancels the one that is awaited once more
\* (a CancelFault); the loop swallows that and goes on to the next.
PoolStops ==
    /\ phase = "cancel"
    /\ AllEnded
    /\ phase' = "watchdog"
    /\ UNCHANGED <<vars, cancelled, stops>>

\* The watchdog is cancelled wherever it is.
WatchdogStops ==
    /\ phase = "watchdog"
    /\ phase' = "dispatcher"
    /\ gpc' = "select"
    /\ stale' = {}
    /\ UNCHANGED <<dbVars, queue, cancelled, stops, dispatcherVars, workerVars, adminVars>>

\* So is the dispatcher: a CancelledError is no Exception, lease_batch does not
\* compensate.
DispatcherStops ==
    /\ phase = "dispatcher"
    /\ phase' = "exit"
    /\ DispatcherReset
    /\ UNCHANGED <<dbVars, queue, cancelled, stops, workerVars, watchdogVars, adminVars>>

\* run() has returned: asyncio.run cancels the workers the pool has left behind.
CancelRemaining ==
    /\ phase = "exit"
    /\ NoneCancelled
    /\ CancelAll
    /\ UNCHANGED phase

\* What is in the queue ends with the process.
ProcessEnds ==
    /\ phase = "exit"
    /\ AllEnded
    /\ phase' = "off"
    /\ queue' = <<>>
    /\ UNCHANGED <<dbVars, cancelled, stops, dispatcherVars, workerVars, watchdogVars, adminVars>>

Boot ==
    /\ phase = "off"
    /\ phase' = "serving"
    /\ cancelled' = [w \in Workers |-> "no"]
    /\ UNCHANGED <<vars, stops>>

\* The process is killed and started again, an orderly stop under way or not.
Killed ==
    /\ phase # "off"
    /\ Crash
    /\ phase' = "serving"
    /\ cancelled' = [w \in Workers |-> "no"]
    /\ UNCHANGED stops

-----------------------------------------------------------------------------
(* What runs in which phase.  A worker runs until it is cancelled. *)

DispatcherUp == phase \notin {"exit", "off"}
WatchdogUp == phase \notin {"dispatcher", "exit", "off"}

Loops ==
    \/ DispatcherUp /\ DispatcherRuns
    \/ WatchdogUp /\ WatchdogRuns
    \/ AdminRuns

LoopsFail ==
    \/ DispatcherUp /\ DispatcherFails
    \/ WatchdogUp /\ WatchdogFails
    \/ AdminFails

Requests(t) == phase = "serving" /\ AdminRequests(t)

Outside(t) ==
    \/ Requests(t)
    \/ ExternalInsert(t)
    \/ TimePasses(t)

Stopping ==
    \/ StopRequested
    \/ CancelWorkers
    \/ PoolFails
    \/ \E w \in Workers : CancelStatus(w) \/ CancelRow(w)
    \/ PoolStops
    \/ WatchdogStops
    \/ DispatcherStops
    \/ CancelRemaining
    \/ ProcessEnds

ShutdownNext ==
    \/ (Loops \/ LoopsFail) /\ UNCHANGED shutdownVars
    \/ \E w \in Workers : \/ /\ cancelled[w] = "no"
                             /\ WorkerRuns(w) \/ WorkerFails(w)
                             /\ UNCHANGED shutdownVars
                          \/ CancelFault(w)
    \/ \E t \in Tasks : Outside(t) /\ UNCHANGED shutdownVars
    \/ Stopping
    \/ Boot
    \/ Killed

ShutdownSpec == ShutdownInit /\ [][ShutdownNext]_allVars

\* Every stop grants a task nobody intervened in one attempt more at most: mark_failed
\* of a cancelled worker has a retry_at whatever the attempts, but the next failure
\* counts them.
AttemptsPerStop ==
    \A t \in rows \ disturbed : Allowed(runtime[t].max, runtime[t].attempts - stops)
=============================================================================
