--------------------------- MODULE ShutdownProofs ---------------------------
(***************************************************************************)
(* The orderly stop, proved: it keeps what the service promises about a    *)
(* lease, a result and the lifecycle of a task, and every stop costs a     *)
(* task one attempt at most.                                               *)
(*                                                                         *)
(* Most steps of ShutdownNext are steps of the service, for which          *)
(* LeaseProofs shows that they keep Core and any bound on the attempts.    *)
(* What is added is about the cancelled workers: the ones whose task is    *)
(* undisturbed still hold its lease, with a snapshot from before the stop. *)
(***************************************************************************)
EXTENDS Shutdown, LeaseProofs

ServiceSteps ==
    \/ Loops \/ LoopsFail
    \/ \E w \in Workers : cancelled[w] = "no" /\ (WorkerRuns(w) \/ WorkerFails(w))
    \/ \E t \in Tasks : Outside(t)

\* The steps of a stop: those that only move it on, those that cancel the workers, and
\* those that end something else.
PhaseMoves == StopRequested \/ PoolFails \/ PoolStops \/ Boot
WorkersCancelled == CancelWorkers \/ CancelRemaining
Ends == WatchdogStops \/ DispatcherStops \/ ProcessEnds

\* A cancelled worker records the failure of a lease it still holds, or of a
\* task disturbed by the cancellation.
Cancelling(w) ==
    /\ cancelled[w] = "status" /\ wpc[w] \notin Holding => job[w].id \in disturbed
    /\ cancelled[w] = "row" => wpc[w] = "failed_row"

\* The attempts the stops have granted a task: the current one grants its attempt when
\* it cancels the workers, early or at the exit.
Granted == IF phase # "serving" /\ NoneCancelled THEN stops - 1 ELSE stops

\* A cancelled worker has taken its task before the stop granted anything.
BeforeTheStop(t) ==
    \A w \in Workers :
        cancelled[w] = "status" /\ job[w].id = t =>
            Allowed(job[w].max, job[w].attempts - (stops - 1))

ShutdownInv ==
    /\ \A w \in Workers : Cancelling(w)
    /\ \A t \in Tasks \ disturbed : Core(t) /\ Attempts(t, Granted) /\ BeforeTheStop(t)

AllTypeOK == TypeOK /\ ShutdownTypeOK

-----------------------------------------------------------------------------
(* Steps of the service during a stop *)

LEMMA ServiceIsNext == ServiceSteps => [Next]_vars
BY DEF ServiceSteps, Loops, LoopsFail, Outside, Requests, Next, Fault

\* A worker that is cancelled stands still.
LEMMA CancelledStand ==
    ASSUME TypeOK, ServiceSteps, NEW w \in Workers, cancelled[w] # "no"
    PROVE  wpc'[w] = wpc[w] /\ job'[w] = job[w]
<1>1. ASSUME NEW v \in Workers, v # w, WorkerStep(v) \/ WorkerFault(v)
      PROVE  wpc'[w] = wpc[w] /\ job'[w] = job[w]
    BY <1>1 DEF WorkerStep, WorkerFault, Take, Succeed, ReportFailure, Raise, MarkDoneStatus,
          MarkDoneRow, MarkRetryStatus, BackoffOverflows, MarkFailStatus, MarkFailedRow,
          RecordingFails, Goto, Finish, TypeOK, WorkerTypeOK
<1>2. CASE Loops \/ LoopsFail \/ \E t \in Tasks : Outside(t)
    BY <1>2 DEF Loops, LoopsFail, DispatcherRuns, WatchdogRuns, AdminRuns, Outside, Requests,
          AdminRequests, ExternalInsert, TimePasses, DispatcherFails, WatchdogFails, AdminFails,
          workerVars
<1> QED BY <1>1, <1>2 DEF ServiceSteps, WorkerRuns, WorkerFails

\* The dispatcher that has been stopped stands still, and so does, once the process
\* has ended, the queue.
LEMMA StoppedStand ==
    ASSUME ShutdownTypeOK, ServiceSteps, phase \in {"exit", "off"}
    PROVE  UNCHANGED dispatcherVars /\ (phase = "off" => UNCHANGED queue)
<1> USE DEF DispatcherUp
<1>1. CASE Loops \/ LoopsFail
    BY <1>1 DEF Loops, LoopsFail, WatchdogRuns, AdminRuns, WatchdogFails, AdminFails
<1>2. CASE \E t \in Tasks : Outside(t)
    BY <1>2 DEF Outside, Requests, AdminRequests, ExternalInsert, TimePasses
<1>3. ASSUME NEW w \in Workers, cancelled[w] = "no", WorkerRuns(w) \/ WorkerFails(w)
      PROVE  UNCHANGED dispatcherVars /\ phase # "off"
    BY <1>3 DEF WorkerRuns, WorkerFails, ShutdownTypeOK, AllEnded
<1> QED BY <1>1, <1>2, <1>3 DEF ServiceSteps

-----------------------------------------------------------------------------
(* Type correctness *)

LEMMA ShutdownInitType == ShutdownInit => AllTypeOK
<1> SUFFICES ASSUME ShutdownInit PROVE AllTypeOK
    OBVIOUS
<1>1. TypeOK
    BY InitType DEF ShutdownInit
<1>2. ShutdownTypeOK
    BY DEF ShutdownInit, ShutdownTypeOK, NoneCancelled
<1> QED BY <1>1, <1>2 DEF AllTypeOK

LEMMA ServiceTypeStep ==
    ASSUME AllTypeOK, ServiceSteps, UNCHANGED shutdownVars
    PROVE  AllTypeOK'
<1> USE DEF AllTypeOK
<1>1. TypeOK'
    BY ServiceIsNext, TypeStep
<1>2. \A w \in Workers : cancelled[w] # "no" => wpc'[w] = wpc[w]
    BY CancelledStand
<1>3. /\ phase \in {"exit", "off"} => UNCHANGED dpc
      /\ phase = "off" => UNCHANGED queue
    BY StoppedStand DEF dispatcherVars
<1>4. ShutdownTypeOK'
    BY <1>2, <1>3 DEF ShutdownTypeOK, NoneCancelled, AllCancelled, AllEnded, shutdownVars
<1> QED BY <1>1, <1>4

\* Where the workers are cancelled, none has been in this stop.
LEMMA CancelledTogether ==
    ASSUME ShutdownTypeOK, WorkersCancelled
    PROVE  /\ CancelAll /\ NoneCancelled
           /\ phase # "serving" /\ phase' \in {"cancel", "exit"} /\ (phase' = "exit" => phase = "exit")
BY DEF WorkersCancelled, CancelWorkers, CancelRemaining, ShutdownTypeOK

LEMMA CancelWorkersType ==
    ASSUME AllTypeOK, WorkersCancelled
    PROVE  AllTypeOK'
<1> USE DEF AllTypeOK, CancelAll
<1>0. /\ CancelAll
      /\ phase # "serving" /\ phase' \in {"cancel", "exit"} /\ (phase' = "exit" => phase = "exit")
    BY CancelledTogether
<1>1. WorkerTypeOK'
    BY <1>0 DEF TypeOK, WorkerTypeOK
<1>2. RepositoryTypeOK'
  <2>1. \A w \in Workers : wpc[w] \in Recording => job[w].id \in Tasks
      BY DEF TypeOK, WorkerTypeOK, Recording, Dto
  <2> QED BY <1>0, <2>1 DEF TypeOK, RepositoryTypeOK, Disturb
<1>3. QueueTypeOK' /\ DispatcherTypeOK' /\ WatchdogTypeOK' /\ AdminTypeOK'
    BY <1>0 DEF TypeOK, QueueTypeOK, DispatcherTypeOK, WatchdogTypeOK, AdminTypeOK,
           dispatcherVars, watchdogVars, adminVars
<1>4. ShutdownTypeOK'
    BY <1>0 DEF ShutdownTypeOK, AllCancelled, TypeOK, WorkerTypeOK, dispatcherVars
<1> QED BY <1>1, <1>2, <1>3, <1>4 DEF TypeOK

LEMMA CancelledWorkerType ==
    ASSUME AllTypeOK, NEW w \in Workers, CancelStatus(w) \/ CancelRow(w) \/ CancelFault(w)
    PROVE  AllTypeOK'
<1> USE DEF AllTypeOK
<1>1. wpc[w] # "idle" /\ job[w] \in Dto /\ job[w].id \in Tasks
    BY DEF CancelStatus, CancelRow, CancelFault, ShutdownTypeOK, TypeOK, WorkerTypeOK, Dto
<1>2. WorkerTypeOK'
    BY <1>1 DEF CancelStatus, CancelRow, CancelFault, Finish, TypeOK, WorkerTypeOK, Recording
<1>3. RepositoryTypeOK'
  <2>1. CASE CancelStatus(w)
      BY <2>1 DEF CancelStatus, RetryNow, MoveStatus, TypeOK, RepositoryTypeOK, Statuses, LEASABLE
  <2>2. CASE CancelRow(w)
      BY <1>1, <2>2, OutcomeType DEF CancelRow, TypeOK
  <2>3. CASE CancelFault(w)
      BY <1>1, <2>3 DEF CancelFault, Disturb, TypeOK, RepositoryTypeOK
  <2> QED BY <2>1, <2>2, <2>3
<1>4. QueueTypeOK' /\ DispatcherTypeOK' /\ WatchdogTypeOK' /\ AdminTypeOK'
    BY DEF CancelStatus, CancelRow, CancelFault, TypeOK, QueueTypeOK, DispatcherTypeOK,
           WatchdogTypeOK, AdminTypeOK, dispatcherVars, watchdogVars, adminVars
<1>5. ShutdownTypeOK'
  <2>1. /\ UNCHANGED <<phase, stops>>
        /\ cancelled' \in [Workers -> {"no", "status", "row", "ended"}]
        /\ \A v \in Workers \ {w} : wpc'[v] = wpc[v] /\ cancelled'[v] = cancelled[v]
      BY DEF CancelStatus, CancelRow, CancelFault, Finish, ShutdownTypeOK, TypeOK, WorkerTypeOK
  <2>2. \/ cancelled'[w] = "row" /\ wpc'[w] = "failed_row"
        \/ cancelled'[w] = "ended" /\ wpc'[w] = "idle"
      BY DEF CancelStatus, CancelRow, CancelFault, Finish, ShutdownTypeOK, TypeOK, WorkerTypeOK
  <2>3. phase \in {"cancel", "exit"} /\ AllCancelled /\ UNCHANGED dpc
    <3>1. cancelled[w] \notin {"no", "ended"}
        BY DEF CancelStatus, CancelRow, CancelFault
    <3> QED BY <3>1 DEF ShutdownTypeOK, NoneCancelled, AllCancelled, AllEnded, CancelStatus, CancelRow,
                CancelFault, dispatcherVars
  <2> QED BY <2>1, <2>2, <2>3 DEF ShutdownTypeOK, AllCancelled
<1> QED BY <1>2, <1>3, <1>4, <1>5 DEF TypeOK

LEMMA PhaseMovesType ==
    ASSUME AllTypeOK, PhaseMoves
    PROVE  AllTypeOK'
<1> USE DEF AllTypeOK
<1>1. UNCHANGED vars
    BY DEF PhaseMoves, StopRequested, PoolFails, PoolStops, Boot
<1>2. TypeOK'
    BY <1>1, TypeStep
<1>3. ShutdownTypeOK'
    BY <1>1 DEF PhaseMoves, StopRequested, PoolFails, PoolStops, Boot, ShutdownTypeOK, NoneCancelled,
           AllEnded, vars, workerVars
<1> QED BY <1>2, <1>3

LEMMA EndsType ==
    ASSUME AllTypeOK, Ends
    PROVE  AllTypeOK'
<1> USE DEF AllTypeOK
<1>1. RepositoryTypeOK' /\ WorkerTypeOK' /\ AdminTypeOK'
    BY DEF Ends, WatchdogStops, DispatcherStops, ProcessEnds, TypeOK, RepositoryTypeOK, WorkerTypeOK,
           AdminTypeOK, dbVars, workerVars, adminVars
<1>2. QueueTypeOK' /\ DispatcherTypeOK' /\ WatchdogTypeOK'
  <2>1. CASE WatchdogStops
      BY <2>1 DEF WatchdogStops, TypeOK, QueueTypeOK, DispatcherTypeOK, WatchdogTypeOK, dispatcherVars
  <2>2. CASE DispatcherStops
      BY <2>2 DEF DispatcherStops, DispatcherReset, Unread, TypeOK, QueueTypeOK, DispatcherTypeOK,
            WatchdogTypeOK, watchdogVars
  <2>3. CASE ProcessEnds
      BY <2>3 DEF ProcessEnds, TypeOK, QueueTypeOK, DispatcherTypeOK, WatchdogTypeOK, dispatcherVars,
            watchdogVars
  <2> QED BY <2>1, <2>2, <2>3 DEF Ends
<1>3. ShutdownTypeOK'
  <2>1. CASE WatchdogStops
      BY <2>1 DEF WatchdogStops, ShutdownTypeOK, NoneCancelled, AllEnded, workerVars, dispatcherVars
  <2>2. CASE DispatcherStops
      BY <2>2 DEF DispatcherStops, DispatcherReset, ShutdownTypeOK, NoneCancelled, AllCancelled, AllEnded,
            workerVars
  <2>3. CASE ProcessEnds
      BY <2>3 DEF ProcessEnds, ShutdownTypeOK, AllEnded, workerVars, dispatcherVars
  <2> QED BY <2>1, <2>2, <2>3 DEF Ends
<1> QED BY <1>1, <1>2, <1>3 DEF TypeOK

LEMMA KilledType ==
    ASSUME AllTypeOK, Killed
    PROVE  AllTypeOK'
<1>1. TypeOK'
    BY TypeStep DEF AllTypeOK, Killed, Next
<1>2. ShutdownTypeOK'
    BY DEF AllTypeOK, Killed, ShutdownTypeOK, NoneCancelled
<1> QED BY <1>1, <1>2 DEF AllTypeOK

LEMMA ShutdownNextCases ==
    ASSUME ShutdownNext
    PROVE  \/ ServiceSteps /\ UNCHANGED shutdownVars
           \/ WorkersCancelled
           \/ \E w \in Workers : CancelStatus(w) \/ CancelRow(w) \/ CancelFault(w)
           \/ PhaseMoves \/ Ends \/ Killed
BY DEF ShutdownNext, ServiceSteps, Stopping, WorkersCancelled, PhaseMoves, Ends

\* Most of them are steps of the service, or none.
LEMMA ServiceGoesOn ==
    ASSUME ServiceSteps \/ PhaseMoves \/ Killed \/ UNCHANGED allVars
    PROVE  [Next]_vars
<1>1. PhaseMoves \/ UNCHANGED allVars => UNCHANGED vars
    BY DEF PhaseMoves, StopRequested, PoolFails, PoolStops, Boot, allVars
<1>2. Killed => Next
    BY DEF Killed, Next
<1> QED BY <1>1, <1>2, ServiceIsNext

LEMMA ShutdownTypeStep == AllTypeOK /\ [ShutdownNext]_allVars => AllTypeOK'
<1> SUFFICES ASSUME AllTypeOK, [ShutdownNext]_allVars PROVE AllTypeOK'
    OBVIOUS
<1>1. CASE UNCHANGED allVars
  <2>1. TypeOK'
      BY <1>1, TypeStep DEF allVars, AllTypeOK
  <2>2. ShutdownTypeOK'
      BY <1>1 DEF AllTypeOK, ShutdownTypeOK, allVars, vars, shutdownVars, workerVars,
            dispatcherVars, NoneCancelled, AllCancelled, AllEnded
  <2> QED BY <2>1, <2>2 DEF AllTypeOK
<1>2. CASE ShutdownNext
    BY <1>2, ShutdownNextCases, ServiceTypeStep, CancelWorkersType, CancelledWorkerType,
       PhaseMovesType, EndsType, KilledType
<1> QED BY <1>1, <1>2

\* Type correctness of the stop: the pool is stopped as a whole or not at all, a stop that
\* gets past it without an error leaves no worker running, and the process ends with
\* every worker ended and the dispatcher at rest, whether or not that was so.
THEOREM ShutdownTypeCorrect == ShutdownSpec => []ShutdownTypeOK
<1>1. AllTypeOK => ShutdownTypeOK
    BY DEF AllTypeOK
<1> QED BY <1>1, ShutdownInitType, ShutdownTypeStep, PTL DEF ShutdownSpec

-----------------------------------------------------------------------------
(* The lease of one task *)

\* Leases are lost and nothing else happens to the task; none of the workers that
\* stop was about to write its result.
LEMMA LeasesLost ==
    ASSUME NEW t \in Tasks, Core(t), TypeOK,
           UNCHANGED <<status, rows, runtime, adminVars>>,
           (leased' = leased /\ dpc' = dpc) \/ leased' = {},
           batch' = batch \/ batch' = {},
           queue' = queue \/ queue' = <<>>,
           seen' = seen \/ seen' = Unread,
           \A w \in Workers : \/ wpc'[w] = wpc[w] /\ job'[w] = job[w]
                              \/ wpc'[w] = "idle" /\ (job[w].id = t => wpc[w] # "done_row")
    PROVE  Core(t)' /\ KeepsAttempts(t)
<1> USE DEF Core, adminVars
<1>1. /\ NotBatched(t) => NotBatched(t)'
      /\ NotQueued(t) => NotQueued(t)'
      /\ NoWorker(t) => NoWorker(t)'
    BY DEF NotBatched, NotQueued, NoWorker, Holding
<1>2. OneHolder(t)'
  <2>1. \A d, e \in batch' : d.id = t /\ e.id = t => d = e
      BY DEF OneHolder
  <2>2. \A i, j \in 1..Len(queue') : queue'[i].id = t /\ queue'[j].id = t => i = j
      BY DEF OneHolder
  <2>3. \A v, w \in Workers :
            wpc'[v] \in Holding /\ wpc'[w] \in Holding /\ job'[v].id = t /\ job'[w].id = t => v = w
      BY DEF OneHolder, Holding
  <2> QED BY <1>1, <2>1, <2>2, <2>3 DEF OneHolder
<1>3. Snapshots(t)'
    BY DEF Snapshots, Current, Unread, Holding
<1>4. KeepsAttempts(t)
    BY DEF KeepsAttempts, Attempts
<1>5. Recorded(t)' /\ Requested(t)'
    BY DEF Recorded, Requested
<1> QED BY <1>2, <1>3, <1>4, <1>5

LEMMA CancelWorkersStep ==
    ASSUME TypeOK, NEW t \in Tasks, t \notin disturbed', Core(t), CancelAll
    PROVE  Core(t)' /\ KeepsAttempts(t)
<1>1. \A w \in Workers : \/ wpc'[w] = wpc[w] /\ job'[w] = job[w]
                         \/ wpc'[w] = "idle"
    BY DEF CancelAll
<1>2. \A w \in Workers : job[w].id = t => wpc[w] # "done_row"
    BY DEF CancelAll, Disturb, Recording
<1> QED BY <1>1, <1>2, LeasesLost DEF CancelAll, dispatcherVars

LEMMA CancelFaultStep ==
    ASSUME TypeOK, NEW t \in Tasks, t \notin disturbed', Core(t),
           NEW w \in Workers, Cancelling(w), CancelFault(w)
    PROVE  Core(t)' /\ KeepsAttempts(t)
<1>1. \A v \in Workers : \/ wpc'[v] = wpc[v] /\ job'[v] = job[v]
                         \/ wpc'[v] = "idle" /\ v = w
    BY DEF CancelFault, Finish, TypeOK, WorkerTypeOK
<1>2. job[w].id = t => wpc[w] # "done_row"
    BY DEF Cancelling, CancelFault, Disturb, Holding
<1> QED BY <1>1, <1>2, LeasesLost DEF CancelFault, dispatcherVars

LEMMA EndsStep ==
    ASSUME TypeOK, NEW t \in Tasks, t \notin disturbed', Core(t), Ends
    PROVE  Core(t)' /\ KeepsAttempts(t)
BY LeasesLost DEF Ends, WatchdogStops, DispatcherStops, ProcessEnds, DispatcherReset, dbVars,
                  dispatcherVars, workerVars

\* The cancelled worker gives its task back: one attempt more than there was must
\* be left for it.
LEMMA CancelStatusStep ==
    ASSUME TypeOK, NEW t \in Tasks, t \notin disturbed', Core(t),
           NEW w \in Workers, Cancelling(w), CancelStatus(w)
    PROVE  /\ Core(t)'
           /\ \A extra \in Nat :
                  /\ Attempts(t, extra)
                  /\ job[w].id = t => Allowed(job[w].max, job[w].attempts + 1 - extra)
                  => Attempts(t, extra)'
<1> USE DEF Core, CancelStatus, RetryNow, dispatcherVars, adminVars
<1>1. UNCHANGED <<rows, runtime, queue, job, disturbed>>
    OBVIOUS
<1>2. /\ wpc'[w] = "failed_row"
      /\ \A v \in Workers \ {w} : wpc'[v] = wpc[v]
    BY DEF TypeOK, WorkerTypeOK
<1>3. CASE job[w].id # t
  <2>1. status'[t] = status[t]
      BY <1>3 DEF MoveStatus
  <2>2. \A v \in Workers : job[v].id = t => wpc'[v] = wpc[v]
      BY <1>2, <1>3
  <2>3. OneHolder(t)'
      BY <1>1, <2>1, <2>2 DEF OneHolder, NotBatched, NotQueued, NoWorker
  <2>4. Snapshots(t)'
      BY <1>1, <2>2 DEF Snapshots, Current
  <2>5. Recorded(t)' /\ Requested(t)'
      BY <1>1, <2>1, <2>2 DEF Recorded, Requested
  <2>6. ASSUME NEW extra \in Nat, Attempts(t, extra) PROVE Attempts(t, extra)'
      BY <1>1, <2>1, <2>2, <2>6 DEF Attempts
  <2> QED BY <2>3, <2>4, <2>5, <2>6
<1>4. CASE job[w].id = t
  <2>1. wpc[w] \in Holding /\ ~NoWorker(t)
      BY <1>1, <1>4 DEF Cancelling, NoWorker
  <2>2. /\ status[t] = "in_progress" /\ t \notin leased /\ NotBatched(t) /\ NotQueued(t)
        /\ \A v \in Workers \ {w} : wpc[v] \in Holding => job[v].id # t
      BY <1>4, <2>1 DEF OneHolder
  <2>3. NotBatched(t)' /\ NotQueued(t)' /\ NoWorker(t)'
      BY <1>1, <1>2, <2>2 DEF NotBatched, NotQueued, NoWorker, Holding
  <2>4. /\ t \in rows
        /\ job[w].attempts = runtime[t].attempts /\ job[w].max = runtime[t].max
      BY <1>4, <2>1 DEF Snapshots, Current
  <2>5. status'[t] = "pending"
      BY <1>4, <2>2 DEF MoveStatus
  <2>6. OneHolder(t)'
      BY <1>1, <2>2, <2>3 DEF OneHolder, NotBatched, NotQueued, NoWorker
  <2>7. Snapshots(t)'
      BY <1>1, <2>3 DEF Snapshots, Current, NotBatched, NotQueued, NoWorker
  <2>8. Recorded(t)' /\ Requested(t)'
      BY <1>1, <1>2, <2>2, <2>4, <2>5 DEF Recorded, Requested
  <2>9. ASSUME NEW extra \in Nat, Attempts(t, extra),
               Allowed(job[w].max, job[w].attempts + 1 - extra)
        PROVE  Attempts(t, extra)'
      BY <1>1, <1>2, <2>2, <2>4, <2>5, <2>9 DEF Attempts
  <2> QED BY <1>4, <2>6, <2>7, <2>8, <2>9
<1> QED BY <1>3, <1>4

\* What any step does to one task that stays undisturbed, except that a cancelled
\* worker gives it back.
LEMMA ShutdownTaskStep ==
    ASSUME AllTypeOK, [ShutdownNext]_allVars, NEW t \in Tasks, t \notin disturbed', Core(t),
           \A w \in Workers : Cancelling(w) /\ ~CancelStatus(w)
    PROVE  Core(t)' /\ KeepsAttempts(t)
<1> USE DEF AllTypeOK
<1>1. CASE [Next]_vars
    BY <1>1, TaskStep
<1>2. CASE WorkersCancelled
    BY <1>2, CancelledTogether, CancelWorkersStep
<1>3. CASE \E w \in Workers : CancelFault(w)
    BY <1>3, CancelFaultStep
<1>4. CASE Ends
    BY <1>4, EndsStep
<1>5. CASE ServiceSteps \/ PhaseMoves \/ Killed \/ UNCHANGED allVars
    BY <1>1, <1>5, ServiceGoesOn
<1>6. ASSUME NEW w \in Workers, CancelRow(w) PROVE [Next]_vars
    BY <1>6 DEF CancelRow, Cancelling, MarkFailedRow, WorkerStep, WorkerRuns, Next
<1> QED BY <1>1, <1>2, <1>3, <1>4, <1>5, <1>6, ShutdownNextCases

LEMMA ShutdownDisturbs ==
    ASSUME [ShutdownNext]_allVars
    PROVE  disturbed \subseteq disturbed'
<1>1. CASE [Next]_vars
    BY <1>1, DisturbedGrows
<1>2. CASE ServiceSteps \/ PhaseMoves \/ Killed \/ UNCHANGED allVars
    BY <1>1, <1>2, ServiceGoesOn
<1>3. CASE WorkersCancelled \/ Ends
    BY <1>3 DEF WorkersCancelled, CancelWorkers, CancelRemaining, CancelAll, Ends, WatchdogStops,
                DispatcherStops, ProcessEnds, Disturb, dbVars
<1>4. CASE \E w \in Workers : CancelStatus(w) \/ CancelRow(w) \/ CancelFault(w)
    BY <1>4 DEF CancelStatus, CancelRow, CancelFault, RetryNow, FailedRuntime, Disturb
<1> QED BY <1>2, <1>3, <1>4, ShutdownNextCases

-----------------------------------------------------------------------------
(* The invariant *)

LEMMA ShutdownInvInit == ShutdownInit => ShutdownInv
<1> SUFFICES ASSUME ShutdownInit PROVE ShutdownInv
    OBVIOUS
<1>1. LeaseInv
    BY LeaseInvInit DEF ShutdownInit
<1> QED BY <1>1 DEF ShutdownInit, ShutdownInv, LeaseInv, Cores, Cancelling, Granted,
           BeforeTheStop

\* What has been granted stays granted.
LEMMA GrantedStep ==
    ASSUME AllTypeOK, [ShutdownNext]_allVars
    PROVE  Granted \in Nat /\ Granted' \in Nat /\ Granted <= Granted'
<1> USE DEF AllTypeOK, ShutdownTypeOK, Granted, NoneCancelled
<1>1. Granted \in Nat /\ Granted' \in Nat
    BY ShutdownTypeStep
<1>2. CASE UNCHANGED <<phase, stops, cancelled>>
    BY <1>1, <1>2
<1>3. CASE PhaseMoves
    BY <1>1, <1>3 DEF PhaseMoves, StopRequested, PoolFails, PoolStops, Boot
<1>4. CASE UNCHANGED shutdownVars \/ UNCHANGED allVars
    BY <1>2, <1>4 DEF shutdownVars, allVars
<1>5. CASE \E w \in Workers : CancelStatus(w) \/ CancelRow(w) \/ CancelFault(w)
  <2>1. PICK w \in Workers : CancelStatus(w) \/ CancelRow(w) \/ CancelFault(w)
      BY <1>5
  <2>2. stops' = stops /\ phase' = phase /\ cancelled'[w] # "no"
      BY <2>1 DEF CancelStatus, CancelRow, CancelFault
  <2> QED BY <1>1, <2>2
<1>6. CASE WorkersCancelled \/ Ends
    BY <1>1, <1>6 DEF WorkersCancelled, CancelWorkers, CancelRemaining, CancelAll, Ends, WatchdogStops,
                      DispatcherStops, ProcessEnds
<1>7. CASE Killed
    BY <1>1, <1>7 DEF Killed
<1> QED BY <1>3, <1>4, <1>5, <1>6, <1>7, ShutdownNextCases

\* A cancelled worker goes on as the stop says, or stands still.
LEMMA CancellingStep ==
    ASSUME AllTypeOK, [ShutdownNext]_allVars, NEW w \in Workers, Cancelling(w)
    PROVE  Cancelling(w)'
<1> USE DEF Cancelling
<1>1. disturbed \subseteq disturbed'
    BY ShutdownDisturbs
<1>2. CASE UNCHANGED <<cancelled[w], wpc[w], job[w]>>
    BY <1>1, <1>2
<1>3. CASE ServiceSteps /\ UNCHANGED shutdownVars
    BY <1>2, <1>3, CancelledStand DEF AllTypeOK, shutdownVars
<1>4. CASE WorkersCancelled
    BY <1>4, CancelledTogether DEF CancelAll, Disturb, AllTypeOK, TypeOK, WorkerTypeOK, ShutdownTypeOK
<1>5. ASSUME NEW v \in Workers, CancelStatus(v) \/ CancelRow(v) \/ CancelFault(v)
      PROVE  Cancelling(w)'
  <2>1. CASE v # w
      BY <1>2, <1>5, <2>1 DEF CancelStatus, CancelRow, CancelFault, Finish, AllTypeOK, TypeOK,
            WorkerTypeOK, ShutdownTypeOK
  <2>2. CASE v = w
      BY <1>5, <2>2 DEF CancelStatus, CancelRow, CancelFault, Finish, AllTypeOK, TypeOK,
            WorkerTypeOK, ShutdownTypeOK
  <2> QED BY <2>1, <2>2
<1>6. CASE Ends \/ UNCHANGED allVars
    BY <1>2, <1>6 DEF Ends, WatchdogStops, DispatcherStops, ProcessEnds, allVars, vars, workerVars,
                      shutdownVars
<1>7. CASE PhaseMoves
  <2>1. UNCHANGED <<wpc, job>> /\ (cancelled' = cancelled \/ cancelled'[w] = "no")
      BY <1>7 DEF PhaseMoves, StopRequested, PoolFails, PoolStops, Boot, vars, workerVars
  <2> QED BY <1>1, <2>1
<1>8. CASE Killed
    BY <1>8 DEF Killed
<1> QED BY <1>3, <1>4, <1>5, <1>6, <1>7, <1>8, ShutdownNextCases

\* What a worker carries was in the row when it was cancelled, before the stop
\* granted its attempt.
LEMMA BeforeTheStopStep ==
    ASSUME AllTypeOK, [ShutdownNext]_allVars, NEW t \in Tasks, t \notin disturbed',
           Core(t), Attempts(t, Granted), BeforeTheStop(t)
    PROVE  BeforeTheStop(t)'
<1> SUFFICES ASSUME NEW w \in Workers, cancelled'[w] = "status", job'[w].id = t
             PROVE  Allowed(job'[w].max, job'[w].attempts - (stops' - 1))
    BY DEF BeforeTheStop
<1>1. CASE UNCHANGED <<cancelled[w], job[w], stops>>
    BY <1>1 DEF BeforeTheStop
<1>2. CASE ServiceSteps /\ UNCHANGED shutdownVars
    BY <1>1, <1>2, CancelledStand DEF AllTypeOK, shutdownVars
<1>3. CASE WorkersCancelled
  <2>1. /\ CancelAll /\ Granted = stops - 1
        /\ wpc[w] # "idle" /\ job'[w] = job[w] /\ stops' = stops
      BY <1>3, CancelledTogether DEF CancelAll, AllTypeOK, Granted
  <2>2. wpc[w] \in Holding
      BY <2>1 DEF CancelAll, Disturb, AllTypeOK, TypeOK, WorkerTypeOK
  <2>3. /\ t \in rows /\ job[w].attempts = runtime[t].attempts
        /\ job[w].max = runtime[t].max
      BY <2>1, <2>2 DEF Core, Snapshots, Current
  <2> QED BY <2>1, <2>3 DEF Attempts
<1>4. ASSUME NEW v \in Workers, CancelStatus(v) \/ CancelRow(v) \/ CancelFault(v)
      PROVE  UNCHANGED <<cancelled[w], job[w], stops>>
    BY <1>4 DEF CancelStatus, CancelRow, CancelFault, Finish, AllTypeOK, TypeOK,
          WorkerTypeOK, ShutdownTypeOK
<1>5. CASE Ends \/ UNCHANGED allVars
    BY <1>1, <1>5 DEF Ends, WatchdogStops, DispatcherStops, ProcessEnds, allVars, vars, workerVars,
                      shutdownVars
<1>6. CASE PhaseMoves
  <2>1. UNCHANGED <<cancelled, job, stops>>
      BY <1>6 DEF PhaseMoves, StopRequested, PoolFails, PoolStops, Boot, AllTypeOK, ShutdownTypeOK,
                  NoneCancelled, vars, workerVars
  <2> QED BY <1>1, <2>1
<1>7. CASE Killed
    BY <1>7 DEF Killed
<1> QED BY <1>1, <1>2, <1>3, <1>4, <1>5, <1>6, <1>7, ShutdownNextCases

LEMMA ShutdownInvStep == AllTypeOK /\ ShutdownInv /\ [ShutdownNext]_allVars => ShutdownInv'
<1> SUFFICES ASSUME AllTypeOK, ShutdownInv, [ShutdownNext]_allVars PROVE ShutdownInv'
    OBVIOUS
<1>1. \A w \in Workers : Cancelling(w)'
    BY CancellingStep DEF ShutdownInv
<1>2. ASSUME NEW t \in Tasks, t \notin disturbed'
      PROVE  Core(t)' /\ Attempts(t, Granted)' /\ BeforeTheStop(t)'
  <2>1. Core(t) /\ Attempts(t, Granted) /\ BeforeTheStop(t)
      BY <1>2, ShutdownDisturbs DEF ShutdownInv
  <2>2. BeforeTheStop(t)'
      BY <1>2, <2>1, BeforeTheStopStep
  <2>3. Granted \in Nat /\ Granted' \in Nat /\ Granted <= Granted'
      BY GrantedStep
  <2>4. Attempts(t, Granted')
    <3>1. runtime[t].max \in Int /\ runtime[t].attempts \in Nat
        BY DEF AllTypeOK, TypeOK, RepositoryTypeOK, Row
    <3> QED BY <2>1, <2>3, <3>1, AllowedLess DEF Attempts
  <2>5. CASE \A w \in Workers : ~CancelStatus(w)
    <3>1. Core(t)' /\ KeepsAttempts(t)
        BY <1>2, <2>1, <2>5, ShutdownTaskStep DEF ShutdownInv
    <3> QED BY <2>2, <2>3, <2>4, <3>1 DEF KeepsAttempts, Attempts
  <2>6. CASE \E w \in Workers : CancelStatus(w)
    <3>1. PICK w \in Workers : CancelStatus(w)
        BY <2>6
    <3>2. Granted' = stops
        BY <3>1 DEF CancelStatus, AllTypeOK, ShutdownTypeOK, Granted, NoneCancelled
    <3>3. job[w].id = t => Allowed(job[w].max, job[w].attempts + 1 - Granted')
      <4>1. job[w] \in Dto /\ stops \in Nat
          BY <3>1 DEF CancelStatus, AllTypeOK, ShutdownTypeOK, TypeOK, WorkerTypeOK
      <4>2. job[w].attempts + 1 - Granted' = job[w].attempts - (stops - 1)
          BY <3>2, <4>1 DEF Dto
      <4> QED BY <2>1, <3>1, <4>2 DEF BeforeTheStop, CancelStatus
    <3> QED BY <1>2, <2>1, <2>2, <2>3, <2>4, <3>1, <3>3, CancelStatusStep
            DEF ShutdownInv, AllTypeOK, Attempts
  <2> QED BY <2>5, <2>6
<1> QED BY <1>1, <1>2 DEF ShutdownInv

THEOREM ShutdownInvariant == ShutdownSpec => [](AllTypeOK /\ ShutdownInv)
<1>1. ShutdownInit => AllTypeOK /\ ShutdownInv
    BY ShutdownInitType, ShutdownInvInit
<1>2. AllTypeOK /\ ShutdownInv /\ [ShutdownNext]_allVars => AllTypeOK' /\ ShutdownInv'
    BY ShutdownTypeStep, ShutdownInvStep
<1> QED BY <1>1, <1>2, PTL DEF ShutdownSpec

\* However often the service is stopped and started, and whatever the workers were
\* doing when they were cancelled: a task nobody intervened in has one holder, and
\* only while it is in progress.
THEOREM StopsKeepExclusion == ShutdownSpec => []ExclusiveLease
<1>1. ShutdownInv => ExclusiveLease
    BY CoreIsExclusive DEF ShutdownInv, ExclusiveLease
<1> QED BY <1>1, ShutdownInvariant, PTL

\* A stop loses no result of such a task that was completed.
THEOREM StopsKeepResults == ShutdownSpec => []ResultRecorded
<1>1. ShutdownInv => ResultRecorded
    BY DEF ShutdownInv, Core, Recorded, ResultRecorded
<1> QED BY <1>1, ShutdownInvariant, PTL

\* Every stop costs such a task one attempt beyond its limit at most, when its workers
\* are cancelled in their turn and when they are left to the exit: the retry at
\* cancellation does not look at the attempts, every other outcome does.
THEOREM StopsCostOneAttempt == ShutdownSpec => []AttemptsPerStop
<1>1. AllTypeOK /\ ShutdownInv => AttemptsPerStop
  <2> SUFFICES ASSUME AllTypeOK, ShutdownInv, NEW t \in rows \ disturbed
               PROVE  Allowed(runtime[t].max, runtime[t].attempts - stops)
      BY DEF AttemptsPerStop
  <2>1. t \in Tasks /\ runtime[t] \in Row /\ stops \in Nat
      BY DEF AllTypeOK, TypeOK, RepositoryTypeOK, ShutdownTypeOK
  <2>2. Allowed(runtime[t].max, runtime[t].attempts - Granted)
      BY <2>1 DEF ShutdownInv, Attempts
  <2>3. Granted \in Int /\ Granted <= stops
      BY <2>1 DEF Granted
  <2> QED BY <2>1, <2>2, <2>3, AllowedLess DEF Row
<1> QED BY <1>1, ShutdownInvariant, PTL

-----------------------------------------------------------------------------
(* The stop keeps the promise of TaskLifecycle *)

\* Components stop and lose what they held; nothing is moved.
LEMMA StopDrops ==
    ASSUME TypeOK', UNCHANGED status, disturbed \subseteq disturbed',
           leased' \in {leased, {}}, batch' \in {batch, {}}, queue' \in {queue, <<>>},
           \A w \in Workers : \/ wpc'[w] = wpc[w] /\ job'[w] = job[w]
                              \/ wpc'[w] \in {"idle", "failed_row"}
    PROVE  Lifecycle!Next
<1>1. ASSUME NEW t \in Tasks, Unheld(t) PROVE Unheld(t)'
  <2>1. t \notin leased' /\ NotBatched(t)' /\ NotQueued(t)'
      BY <1>1 DEF Unheld, NotBatched, NotQueued
  <2>2. NoWorker(t)'
      BY <1>1 DEF Unheld, NoWorker, Holding
  <2> QED BY <2>1, <2>2 DEF Unheld
<1> QED BY <1>1, HeldIsNotUnheld, DropStep

LEMMA CancelStatusRefines ==
    ASSUME AllTypeOK, TypeOK', Cores, NEW w \in Workers, Cancelling(w), CancelStatus(w)
    PROVE  Lifecycle!Next
<1>1. job[w].id \in Tasks
    BY DEF CancelStatus, AllTypeOK, ShutdownTypeOK, TypeOK, WorkerTypeOK, Dto
<1>2. wpc[w] \in Holding \/ job[w].id \in disturbed
    BY DEF Cancelling, CancelStatus
<1>3. MoveStatus({job[w].id}, {"in_progress"}, "pending")
    BY DEF CancelStatus, RetryNow
<1>4. wpc'[w] \in Recording /\ \A v \in Workers \ {w} : wpc'[v] = wpc[v]
    BY DEF CancelStatus, Recording, AllTypeOK, TypeOK, WorkerTypeOK
<1>5. UNCHANGED <<queue, job, disturbed, leased, batch>>
    BY DEF CancelStatus, RetryNow, dispatcherVars
<1> QED BY <1>1, <1>2, <1>3, <1>4, <1>5, HolderGivesUp DEF AllTypeOK

LEMMA StopRefinedStep ==
    ASSUME AllTypeOK, ShutdownInv, [ShutdownNext]_allVars
    PROVE  [Lifecycle!Next]_(Lifecycle!vars)
<1>0. AllTypeOK' /\ disturbed \subseteq disturbed' /\ Cores
    BY ShutdownTypeStep, ShutdownDisturbs DEF ShutdownInv, Cores
<1> USE DEF AllTypeOK
<1>1. CASE [Next]_vars
    BY <1>0, <1>1, RefinedStep
<1>2. CASE ServiceSteps \/ PhaseMoves \/ Killed \/ UNCHANGED allVars
    BY <1>1, <1>2, ServiceGoesOn
<1>3. CASE WorkersCancelled \/ Ends
  <2> USE DEF Ends, WatchdogStops, DispatcherStops, ProcessEnds, CancelAll
  <2>0. CancelAll \/ Ends
      BY <1>3, CancelledTogether
  <2>1. UNCHANGED status
      BY <2>0 DEF dbVars
  <2>2. leased' \in {leased, {}} /\ batch' \in {batch, {}} /\ queue' \in {queue, <<>>}
      BY <2>0 DEF DispatcherReset, dispatcherVars
  <2>3. \A w \in Workers : (wpc'[w] = wpc[w] /\ job'[w] = job[w]) \/ wpc'[w] \in {"idle", "failed_row"}
      BY <2>0 DEF workerVars
  <2> QED BY <1>0, <2>1, <2>2, <2>3, StopDrops
<1>4. ASSUME NEW w \in Workers, CancelRow(w) \/ CancelFault(w) PROVE Lifecycle!Next
  <2>1. UNCHANGED <<status, leased, batch, queue>>
      BY <1>4 DEF CancelRow, CancelFault, FailedRuntime, dispatcherVars
  <2>2. \A v \in Workers : (wpc'[v] = wpc[v] /\ job'[v] = job[v]) \/ wpc'[v] \in {"idle", "failed_row"}
      BY <1>4 DEF CancelRow, CancelFault, Finish, TypeOK, WorkerTypeOK
  <2> QED BY <1>0, <2>1, <2>2, StopDrops
<1>5. CASE \E w \in Workers : CancelStatus(w)
    BY <1>0, <1>5, CancelStatusRefines DEF ShutdownInv
<1> QED BY <1>2, <1>3, <1>4, <1>5, ShutdownNextCases

\* The stop keeps the promise of TaskLifecycle too: every cancelled worker that gives
\* a task back held it, or the task had been intervened in, and what the components
\* lose when they stop is lost to nobody else.
THEOREM StopsRefineLifecycle == ShutdownSpec => LifecycleSpec
<1>1. ShutdownInit => Lifecycle!Init
    BY RefinedInit DEF ShutdownInit
<1>2. AllTypeOK /\ ShutdownInv /\ [ShutdownNext]_allVars => [Lifecycle!Next]_(Lifecycle!vars)
    BY StopRefinedStep
<1> QED BY <1>1, <1>2, ShutdownInvariant, PTL DEF ShutdownSpec, LifecycleSpec, Lifecycle!Spec

-----------------------------------------------------------------------------
(* What a stop leaves alone *)

LEMMA StopTerminalStep ==
    ASSUME AllTypeOK, ShutdownInv, [ShutdownNext]_allVars, NEW t \in Tasks,
           status[t] \in TERMINAL, status'[t] # status[t]
    PROVE  Reopening(t)
<1> USE DEF AllTypeOK
<1>1. CASE [Next]_vars
    BY <1>1, TerminalStep DEF ShutdownInv, Cores
<1>2. CASE ServiceSteps \/ PhaseMoves \/ Killed \/ UNCHANGED allVars
    BY <1>1, <1>2, ServiceGoesOn
<1>3. CASE WorkersCancelled \/ Ends \/ \E w \in Workers : CancelRow(w) \/ CancelFault(w)
    BY <1>3, CancelledTogether DEF CancelAll, Ends, WatchdogStops, DispatcherStops, ProcessEnds,
          CancelRow, CancelFault, FailedRuntime, dbVars
<1>4. CASE \E w \in Workers : CancelStatus(w)
    BY <1>4 DEF CancelStatus, RetryNow, MoveStatus, TERMINAL
<1> QED BY <1>2, <1>3, <1>4, ShutdownNextCases

\* No step of a stop takes a task out of a terminal status: a worker that is
\* cancelled after its task has ended otherwise does not bring it back.
THEOREM StopsKeepTerminal == ShutdownSpec => TerminalStays
<1>1. AllTypeOK /\ ShutdownInv /\ [ShutdownNext]_allVars =>
          [\A t \in Tasks : status[t] \in TERMINAL /\ status'[t] # status[t] =>
                 \/ apc = "idle" /\ apc' = "requeue_row" /\ target' = t /\ status'[t] = "created"
                 \/ apc = "idle" /\ apc' = "delete_row" /\ target' = t /\ status'[t] = "gone"
                 \/ dpc = "compensate" /\ t \in disturbed]_vars
    BY StopTerminalStep DEF Reopening
<1> QED BY <1>1, ShutdownInvariant, PTL DEF ShutdownSpec, TerminalStays

LEMMA StopQueueStep ==
    ASSUME AllTypeOK, QueueInv, [ShutdownNext]_allVars
    PROVE  QueueInv'
<1> USE DEF AllTypeOK
<1>1. CASE [Next]_vars
    BY <1>1, QueueInvStep
<1>2. CASE ServiceSteps \/ PhaseMoves \/ Killed \/ UNCHANGED allVars
    BY <1>1, <1>2, ServiceGoesOn
<1>3. CASE DispatcherStops \/ ProcessEnds
  <2>1. Cardinality({}) = 0 /\ IsFiniteSet({})
      BY FS_EmptySet
  <2>2. CASE DispatcherStops
    <3>1. QueueMax # 0 => Len(queue) <= QueueMax
      <4>1. Len(queue) \in Nat /\ Cardinality(batch) \in Nat
          BY FS_CardinalityType DEF QueueInv, TypeOK, QueueTypeOK
      <4> QED BY <4>1, QueueAssumption DEF QueueInv, QueueFits
    <3> QED BY <2>1, <2>2, <3>1, QueueAssumption
            DEF DispatcherStops, DispatcherReset, QueueInv, QueueFits, LeaseWindow, TypeOK, QueueTypeOK
  <2>3. CASE ProcessEnds
    <3>1. dpc = "poll" /\ leased = {} /\ batch = {}
        BY <2>3 DEF ProcessEnds, ShutdownTypeOK, TypeOK, DispatcherTypeOK, LeaseWindow
    <3> QED BY <2>1, <2>3, <3>1, QueueAssumption
            DEF ProcessEnds, QueueInv, QueueFits, LeaseWindow, dispatcherVars
  <2> QED BY <1>3, <2>2, <2>3
<1>4. CASE UNCHANGED <<queue, dispatcherVars>>
    BY <1>4 DEF dispatcherVars, QueueInv, QueueFits
<1>5. CASE \/ WorkersCancelled \/ WatchdogStops
           \/ \E w \in Workers : CancelStatus(w) \/ CancelRow(w) \/ CancelFault(w)
    BY <1>4, <1>5, CancelledTogether DEF CancelAll, WatchdogStops, CancelStatus, CancelRow, CancelFault
<1> QED BY <1>2, <1>3, <1>5, ShutdownNextCases DEF Ends

\* The queue fits through stops and starts: what a drained or cut off queue leaves
\* room for is what the dispatcher counts.
THEOREM StopsKeepQueueFitting == ShutdownSpec => []QueueFits
<1>1. ShutdownInit => QueueInv
    BY QueueInvInit DEF ShutdownInit
<1>2. AllTypeOK /\ QueueInv /\ [ShutdownNext]_allVars => QueueInv'
    BY StopQueueStep
<1>3. QueueInv => QueueFits
    BY DEF QueueInv
<1>4. AllTypeOK /\ ShutdownInv => AllTypeOK
    OBVIOUS
<1> QED BY <1>1, <1>2, <1>3, <1>4, ShutdownInvariant, PTL DEF ShutdownSpec
=============================================================================
