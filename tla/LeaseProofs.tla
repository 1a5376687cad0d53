---------------------------- MODULE LeaseProofs ----------------------------
(***************************************************************************)
(* The lease protocol of AgentClicker, proved: of a task nobody intervened *)
(* in there is one holder, its attempts are bounded, its result is kept,   *)
(* and no step but an admin's takes it out of a terminal status.           *)
(*                                                                         *)
(* The argument is one inductive invariant, LeaseInv, about the tasks that *)
(* are not disturbed.  Exclusion alone is not inductive: that a lease ends *)
(* in one status change needs every snapshot (the DTOs, and the attempts   *)
(* the dispatcher has read) to agree with the row it was taken from, and   *)
(* an admin's half-finished request to concern a disturbed task.  The core *)
(* of it is kept without the bound on the attempts, which an orderly stop  *)
(* raises (ShutdownProofs).                                                *)
(***************************************************************************)
EXTENDS AgentClickerProofs

NotBatched(t) == \A d \in batch : d.id # t
NotQueued(t) == \A i \in 1..Len(queue) : queue[i].id # t
NoWorker(t) == \A w \in Workers : wpc[w] \in Holding => job[w].id # t

\* One holder at most, and only of a task in progress.
OneHolder(t) ==
    /\ t \in leased => NotBatched(t) /\ NotQueued(t) /\ NoWorker(t)
    /\ NotBatched(t) \/ (NotQueued(t) /\ NoWorker(t))
    /\ NotQueued(t) \/ NoWorker(t)
    /\ \A d, e \in batch : d.id = t /\ e.id = t => d = e
    /\ \A i, j \in 1..Len(queue) : queue[i].id = t /\ queue[j].id = t => i = j
    /\ \A v, w \in Workers :
          wpc[v] \in Holding /\ wpc[w] \in Holding /\ job[v].id = t /\ job[w].id = t => v = w
    /\ \/ status[t] = "in_progress"
       \/ t \notin leased /\ NotBatched(t) /\ NotQueued(t) /\ NoWorker(t)

\* A snapshot of the row of its task that is still true.
Current(dto) ==
    /\ dto.id \in rows
    /\ dto.attempts = runtime[dto.id].attempts
    /\ dto.max = runtime[dto.id].max

\* Every snapshot of the task is true.
Snapshots(t) ==
    /\ t \in DOMAIN seen => t \in rows /\ seen[t] = runtime[t].attempts
    /\ \A d \in batch : d.id = t => Current(d)
    /\ \A i \in 1..Len(queue) : queue[i].id = t => Current(queue[i])
    /\ \A w \in Workers : wpc[w] \in Holding /\ job[w].id = t => Current(job[w])
    /\ t \in leased /\ dpc = "fetch" => t \in rows

\* Of the attempts of the task, all but `extra` are allowed, and there is one left
\* whenever the task may be leased or is being leased.
Attempts(t, extra) ==
    /\ t \in rows => Allowed(runtime[t].max, runtime[t].attempts - extra)
    /\ t \in rows /\ status[t] \in LEASABLE =>
           Allowed(runtime[t].max, runtime[t].attempts + 1 - extra)
    /\ t \in rows /\ t \in leased /\ dpc \in LeaseWindow =>
           Allowed(runtime[t].max, runtime[t].attempts + 1 - extra)
    /\ \A w \in Workers :
          wpc[w] = "retry_status" /\ job[w].id = t => Allowed(job[w].max, job[w].attempts + 1)

\* A completed task has a row with its result, or a worker about to write it.
Recorded(t) ==
    /\ \A w \in Workers : wpc[w] = "done_row" /\ job[w].id = t => t \in rows
    /\ status[t] = "completed" =>
          \/ t \in rows /\ runtime[t].result
          \/ \E w \in Workers : wpc[w] = "done_row" /\ job[w].id = t

\* Rows and requests of tasks that are not there to be leased.
Requested(t) ==
    /\ status[t] = "unborn" => t \notin rows
    /\ apc # "idle" /\ target = t => apc = "create_row" /\ status[t] # "unborn"

Core(t) == OneHolder(t) /\ Snapshots(t) /\ Recorded(t) /\ Requested(t)

Cores == \A t \in Tasks \ disturbed : Core(t)
LeaseInv == Cores /\ \A t \in Tasks \ disturbed : Attempts(t, 0)

\* A step spends no more attempts than there are, however many there are.
KeepsAttempts(t) == \A extra \in Nat : Attempts(t, extra) => Attempts(t, extra)'

-----------------------------------------------------------------------------
(* Limits on the attempts *)

\* Fewer attempts than are allowed are allowed.
LEMMA AllowedLess ==
    ASSUME NEW max \in Int, NEW m \in Int, NEW n \in Int, m <= n, Allowed(max, n)
    PROVE  Allowed(max, m)
<1>1. Limits(max) \subseteq Int
    BY RepositoryAssumption DEF Limits
<1> QED BY <1>1 DEF Allowed

\* The first attempt is allowed whatever the limit is.
LEMMA AllowedFirst ==
    ASSUME NEW max, NEW n \in Int, n <= 1 PROVE Allowed(max, n)
BY DEF Allowed

\* A worker that decides to retry leaves a task with one attempt more allowed.
LEMMA RetryAllowed ==
    ASSUME NEW dto \in Dto, "retry_status" \in RetryOrFail(dto)
    PROVE  Allowed(dto.max, dto.attempts + 1)
<1>1. PICK limit \in Limits(dto.max) : dto.attempts < limit
    BY DEF RetryOrFail
<1>2. limit \in Int /\ dto.attempts \in Nat
    BY RepositoryAssumption DEF Limits, Dto
<1> QED BY <1>1, <1>2 DEF Allowed

-----------------------------------------------------------------------------
LEMMA LeaseInvInit == Init => LeaseInv
<1> SUFFICES ASSUME Init, NEW t \in Tasks PROVE Core(t) /\ Attempts(t, 0)
    BY DEF LeaseInv, Cores
<1> USE DEF Init, RepositoryInit, QueueInit, DispatcherInit, WorkerInit, AdminInit, Holding
<1>1. NotBatched(t) /\ NotQueued(t) /\ NoWorker(t)
    BY DEF NotBatched, NotQueued, NoWorker
<1>2. OneHolder(t)
    BY <1>1 DEF OneHolder
<1>3. Snapshots(t) /\ Attempts(t, 0) /\ Recorded(t) /\ Requested(t)
    BY DEF Snapshots, Attempts, Recorded, Requested, Unread, LEASABLE, LeaseWindow
<1> QED BY <1>2, <1>3 DEF Core

-----------------------------------------------------------------------------
(* The dispatcher *)

\* The transactions of a lease, as they concern one task.
LEMMA LeaseStep ==
    ASSUME TypeOK, NEW t \in Tasks, t \notin disturbed', Core(t),
           Lease, UNCHANGED <<workerVars, adminVars>>
    PROVE  Core(t)' /\ KeepsAttempts(t)
<1> USE DEF Core, workerVars, adminVars
<1>1. PICK S \in SUBSET Tasks :
          /\ \A s \in S : status[s] \in LEASABLE
          /\ status' = [s \in Tasks |-> IF s \in S THEN "in_progress" ELSE status[s]]
          /\ leased' = S
          /\ dpc' \in {"poll", "read"}
          /\ UNCHANGED <<seen, batch, queue, rows, runtime>>
    BY DEF Lease, Batches, Leasable, LeaseStatus, MoveStatus
<1>2. leased = {}
    BY DEF Lease, TypeOK, DispatcherTypeOK, LeaseWindow
<1>3. status[t] \in Statuses
    BY DEF TypeOK, RepositoryTypeOK
<1>4. t \in S => status[t] # "in_progress"
    BY <1>1 DEF LEASABLE
<1>5. OneHolder(t)'
    BY <1>1, <1>2, <1>4 DEF OneHolder, NotBatched, NotQueued, NoWorker
<1>6. Snapshots(t)'
    BY <1>1, <1>2 DEF Snapshots, Current
<1>7. KeepsAttempts(t)
    BY <1>1, <1>2, <1>3 DEF KeepsAttempts, Attempts, LeaseWindow, LEASABLE
<1>8. Recorded(t)' /\ Requested(t)'
    BY <1>1, <1>3 DEF Recorded, Requested, LEASABLE
<1> QED BY <1>5, <1>6, <1>7, <1>8

LEMMA ReadStep ==
    ASSUME TypeOK, NEW t \in Tasks, t \notin disturbed', Core(t),
           Poll \/ ReadRuntime \/ WriteConflict,
           UNCHANGED <<workerVars, adminVars>>
    PROVE  Core(t)' /\ KeepsAttempts(t)
<1> USE DEF Core, workerVars, adminVars, dbVars
<1>1. UNCHANGED <<leased, batch, queue, status, rows, runtime>>
    BY DEF Poll, ReadRuntime, WriteConflict
<1>2. t \in DOMAIN seen' => t \in rows /\ seen'[t] = runtime[t].attempts
    BY DEF Poll, ReadRuntime, WriteConflict, AttemptsOf, Unread, Snapshots
<1>3. dpc' \in LeaseWindow /\ t \in leased => dpc \in LeaseWindow
    BY DEF Poll, ReadRuntime, WriteConflict, LeaseWindow, TypeOK, DispatcherTypeOK
<1>4. dpc' # "fetch"
    BY DEF Poll, ReadRuntime, WriteConflict
<1>5. OneHolder(t)'
    BY <1>1 DEF OneHolder, NotBatched, NotQueued, NoWorker
<1>6. Snapshots(t)'
    BY <1>1, <1>2, <1>4 DEF Snapshots, Current
<1>7. KeepsAttempts(t)
    BY <1>1, <1>3 DEF KeepsAttempts, Attempts
<1>8. Recorded(t)' /\ Requested(t)'
    BY <1>1 DEF Recorded, Requested
<1> QED BY <1>5, <1>6, <1>7, <1>8

LEMMA WriteStep ==
    ASSUME TypeOK, NEW t \in Tasks, t \notin disturbed', Core(t),
           WriteRuntime, UNCHANGED <<workerVars, adminVars>>
    PROVE  Core(t)' /\ KeepsAttempts(t)
<1> USE DEF Core, workerVars, adminVars
<1>1. UNCHANGED <<leased, batch, queue, status>> /\ dpc = "write" /\ dpc' = "fetch" /\ seen' = Unread
    BY DEF WriteRuntime, LeaseRuntime
<1>2. /\ t \in rows => runtime[t] \in Row
      /\ DOMAIN seen \subseteq leased
      /\ t \in DOMAIN seen => t \in rows /\ seen[t] = runtime[t].attempts
    BY DEF TypeOK, RepositoryTypeOK, DispatcherTypeOK, Snapshots
<1>3. CASE t \notin leased
  <2>1. UNCHANGED runtime[t] /\ (t \in rows' <=> t \in rows)
      BY <1>2, <1>3 DEF WriteRuntime, LeaseRuntime
  <2>2. Snapshots(t)'
      BY <1>1, <1>3, <2>1 DEF Snapshots, Current, Unread
  <2>3. KeepsAttempts(t)
      BY <1>1, <1>3, <2>1 DEF KeepsAttempts, Attempts
  <2>4. Recorded(t)' /\ Requested(t)'
      BY <1>1, <2>1 DEF Recorded, Requested
  <2> QED BY <1>1, <2>2, <2>3, <2>4 DEF OneHolder, NotBatched, NotQueued, NoWorker
<1>4. CASE t \in leased
  <2>1. status[t] = "in_progress" /\ NotBatched(t) /\ NotQueued(t) /\ NoWorker(t)
      BY <1>4 DEF OneHolder
  <2>2. /\ t \in rows'
        /\ \A extra \in Nat : Attempts(t, extra) =>
               Allowed(runtime'[t].max, runtime'[t].attempts - extra)
    <3>1. PICK default \in MaxAttemptsSettings :
              runtime'[t] = IF t \in leased \cap DOMAIN seen \cap rows
                            THEN [runtime[t] EXCEPT !.attempts = seen[t] + 1, !.lock = "fresh"]
                            ELSE IF t \in leased \ DOMAIN seen
                            THEN [attempts |-> 1, max |-> default, lock |-> "fresh", result |-> FALSE]
                            ELSE runtime[t]
        BY DEF WriteRuntime, LeaseRuntime
    <3>2. t \in rows'
        BY <1>2, <1>4 DEF WriteRuntime, LeaseRuntime
    <3>3. ASSUME NEW extra \in Nat, Attempts(t, extra)
          PROVE  Allowed(runtime'[t].max, runtime'[t].attempts - extra)
      <4>1. CASE t \in DOMAIN seen
        <5>1. /\ runtime'[t].attempts = runtime[t].attempts + 1
              /\ runtime'[t].max = runtime[t].max
            BY <1>2, <1>4, <3>1, <4>1 DEF Row
        <5>2. Allowed(runtime[t].max, runtime[t].attempts + 1 - extra)
            BY <1>1, <1>2, <1>4, <3>3, <4>1 DEF Attempts, LeaseWindow
        <5>3. runtime'[t].attempts - extra = runtime[t].attempts + 1 - extra
            BY <1>2, <4>1, <5>1 DEF Row
        <5> QED BY <5>1, <5>2, <5>3
      <4>2. CASE t \notin DOMAIN seen
        <5>1. runtime'[t].attempts = 1
            BY <1>4, <3>1, <4>2
        <5>2. runtime'[t].attempts - extra \in Int /\ runtime'[t].attempts - extra <= 1
            BY <3>3, <5>1
        <5> QED BY <5>2, AllowedFirst
      <4> QED BY <4>1, <4>2
    <3> QED BY <3>2, <3>3
  <2>3. Snapshots(t)'
      BY <1>1, <2>1, <2>2 DEF Snapshots, NotBatched, NotQueued, NoWorker, Unread
  <2>4. KeepsAttempts(t)
      BY <1>1, <2>1, <2>2 DEF KeepsAttempts, Attempts, LEASABLE, LeaseWindow
  <2>5. Recorded(t)' /\ Requested(t)'
      BY <1>1, <2>1, <2>2 DEF Recorded, Requested
  <2> QED BY <1>1, <2>3, <2>4, <2>5 DEF OneHolder, NotBatched, NotQueued, NoWorker
<1> QED BY <1>3, <1>4

LEMMA ReleaseStep ==
    ASSUME TypeOK, NEW t \in Tasks, t \notin disturbed', Core(t),
           Compensate \/ DispatcherFault, UNCHANGED <<workerVars, adminVars>>
    PROVE  Core(t)' /\ KeepsAttempts(t)
<1> USE DEF Core, workerVars, adminVars
<1>1. UNCHANGED <<queue, rows, runtime>>
    BY DEF Compensate, ReleaseLease, DispatcherFault, dbVars
<1>2. /\ leased' \subseteq leased
      /\ batch' = batch
      /\ seen' = Unread
      /\ dpc' \in {"poll", "compensate"}
      /\ dpc' = "compensate" => dpc \in LeaseWindow
    BY DEF Compensate, DispatcherReset, DispatcherFault, LeaseWindow, TypeOK, DispatcherTypeOK
<1>3. \/ status' = status
      \/ /\ t \in leased /\ dpc = "compensate"
         /\ status[t] = "in_progress" /\ status'[t] = "created" /\ leased' = {}
      \/ status'[t] = status[t]
    BY DEF Compensate, ReleaseLease, MoveStatus, DispatcherFault, DispatcherReset, dbVars, OneHolder
<1>4. OneHolder(t)'
    BY <1>1, <1>2, <1>3 DEF OneHolder, NotBatched, NotQueued, NoWorker
<1>5. Snapshots(t)'
    BY <1>1, <1>2 DEF Snapshots, Current, Unread
<1>6. KeepsAttempts(t)
    BY <1>1, <1>2, <1>3 DEF KeepsAttempts, Attempts, LeaseWindow, LEASABLE
<1>7. Recorded(t)' /\ Requested(t)'
    BY <1>1, <1>3 DEF Recorded, Requested
<1> QED BY <1>4, <1>5, <1>6, <1>7

LEMMA FetchStep ==
    ASSUME TypeOK, NEW t \in Tasks, t \notin disturbed', Core(t),
           Fetch, UNCHANGED <<workerVars, adminVars>>
    PROVE  Core(t)' /\ KeepsAttempts(t)
<1> USE DEF Core, workerVars, adminVars
<1>1. /\ UNCHANGED <<queue, seen, status, rows, runtime, wpc, job, apc, target>>
      /\ leased' = {} /\ dpc = "fetch" /\ dpc' = "put"
    BY DEF Fetch, dbVars
<1>2. batch = {}
    BY <1>1 DEF TypeOK, DispatcherTypeOK
<1>3. ASSUME NEW d \in batch', d.id = t PROVE t \in leased /\ d = DtoOf(t)
  <2>1. PICK s \in leased : d = DtoOf(s)
      BY DEF Fetch
  <2>2. DtoOf(s).id = s
      BY DEF DtoOf
  <2> QED BY <1>3, <2>1, <2>2
<1>4. ASSUME NEW d \in batch', d.id = t PROVE Current(d)'
  <2>1. t \in leased /\ d = DtoOf(t)
      BY <1>3, <1>4
  <2>2. t \in rows
      BY <1>1, <2>1 DEF Snapshots
  <2>3. d.attempts = runtime[t].attempts /\ d.max = runtime[t].max
      BY <2>1, <2>2 DEF DtoOf
  <2> QED BY <1>1, <1>4, <2>2, <2>3 DEF Current
<1>5. OneHolder(t)'
  <2>1. CASE t \in leased
    <3>1. status[t] = "in_progress" /\ NotQueued(t) /\ NoWorker(t)
        BY <2>1 DEF OneHolder
    <3> QED BY <1>1, <1>3, <3>1 DEF OneHolder, NotBatched, NotQueued, NoWorker
  <2>2. CASE t \notin leased
    <3>1. NotBatched(t)'
        BY <1>3, <2>2 DEF NotBatched
    <3>2. NotBatched(t)
        BY <1>2 DEF NotBatched
    <3> QED BY <1>1, <3>1, <3>2 DEF OneHolder, NotBatched, NotQueued, NoWorker
  <2> QED BY <2>1, <2>2
<1>6. Snapshots(t)'
    BY <1>1, <1>3, <1>4 DEF Snapshots, Current
<1>7. KeepsAttempts(t) /\ Recorded(t)' /\ Requested(t)'
    BY <1>1 DEF KeepsAttempts, Attempts, LeaseWindow, Recorded, Requested
<1> QED BY <1>5, <1>6, <1>7

LEMMA PutStep ==
    ASSUME TypeOK, NEW t \in Tasks, t \notin disturbed', Core(t),
           PutNext, UNCHANGED <<workerVars, adminVars>>
    PROVE  Core(t)' /\ KeepsAttempts(t)
<1> USE DEF Core, workerVars, adminVars
<1>1. /\ UNCHANGED <<leased, seen, status, rows, runtime>>
      /\ dpc = "put" /\ dpc' \in {"put", "poll"}
    BY DEF PutNext, dbVars
<1>2. PICK dto \in batch : queue' = Append(queue, dto) /\ batch' = batch \ {dto}
    BY DEF PutNext, Put
<1>3. /\ Len(queue) \in Nat /\ Len(queue') = Len(queue) + 1
      /\ queue'[Len(queue')] = dto
      /\ \A i \in 1..Len(queue) : queue'[i] = queue[i]
    BY <1>2 DEF TypeOK, QueueTypeOK, DispatcherTypeOK
<1>4. \A i \in 1..Len(queue') : i \in 1..Len(queue) \/ (i = Len(queue') /\ queue'[i] = dto)
    BY <1>3
<1>5. leased = {}
    BY <1>1 DEF TypeOK, DispatcherTypeOK, LeaseWindow
<1>6. OneHolder(t)'
  <2>1. CASE dto.id # t
    <3>1. NotBatched(t)' <=> NotBatched(t)
        BY <1>2, <2>1 DEF NotBatched
    <3>2. NotQueued(t)' <=> NotQueued(t)
        BY <1>3, <1>4, <2>1 DEF NotQueued
    <3>3. NoWorker(t)' <=> NoWorker(t)
        BY DEF NoWorker
    <3>4. \A i, j \in 1..Len(queue') : queue'[i].id = t /\ queue'[j].id = t => i = j
        BY <1>3, <1>4, <2>1 DEF OneHolder
    <3> QED BY <1>1, <1>2, <3>1, <3>2, <3>3, <3>4 DEF OneHolder
  <2>2. CASE dto.id = t
    <3>1. NotQueued(t) /\ NoWorker(t) /\ status[t] = "in_progress"
        BY <2>2 DEF OneHolder, NotBatched
    <3>2. NotBatched(t)'
        BY <1>2, <2>2 DEF OneHolder, NotBatched
    <3>3. \A i, j \in 1..Len(queue') : queue'[i].id = t /\ queue'[j].id = t => i = j
        BY <1>3, <1>4, <3>1 DEF NotQueued
    <3> QED BY <1>1, <1>5, <3>1, <3>2, <3>3 DEF OneHolder, NotBatched, NoWorker
  <2> QED BY <2>1, <2>2
<1>7. Snapshots(t)'
    BY <1>1, <1>2, <1>3, <1>4 DEF Snapshots, Current
<1>8. KeepsAttempts(t) /\ Recorded(t)' /\ Requested(t)'
    BY <1>1, <1>5 DEF KeepsAttempts, Attempts, Recorded, Requested
<1> QED BY <1>6, <1>7, <1>8

-----------------------------------------------------------------------------
(* The workers *)

LEMMA TakeStep ==
    ASSUME TypeOK, NEW t \in Tasks, t \notin disturbed', Core(t),
           NEW w \in Workers, Take(w), UNCHANGED <<dispatcherVars, adminVars>>
    PROVE  Core(t)' /\ KeepsAttempts(t)
<1> USE DEF Core, dispatcherVars, adminVars
<1>1. /\ UNCHANGED <<status, rows, runtime>>
      /\ queue # <<>> /\ queue' = Tail(queue)
      /\ wpc[w] = "idle"
      /\ wpc' = [wpc EXCEPT ![w] = "run"] /\ job' = [job EXCEPT ![w] = queue[1]]
    BY DEF Take, Get, Goto, dbVars, TypeOK, QueueTypeOK
<1>2. /\ Len(queue) \in Nat /\ Len(queue') = Len(queue) - 1 /\ 1 \in 1..Len(queue)
      /\ \A i \in 1..Len(queue') : i + 1 \in 1..Len(queue) /\ queue'[i] = queue[i + 1]
    BY <1>1 DEF TypeOK, QueueTypeOK
<1>3. /\ wpc'[w] = "run" /\ job'[w] = queue[1]
      /\ \A v \in Workers \ {w} : wpc'[v] = wpc[v] /\ job'[v] = job[v]
    BY <1>1 DEF TypeOK, WorkerTypeOK
<1>4. wpc[w] \notin Holding
    BY <1>1 DEF Holding
<1>5. OneHolder(t)'
  <2>1. \A i, j \in 1..Len(queue') : queue'[i].id = t /\ queue'[j].id = t => i = j
    <3> SUFFICES ASSUME NEW i \in 1..Len(queue'), NEW j \in 1..Len(queue'),
                        queue'[i].id = t, queue'[j].id = t
                 PROVE  i = j
        OBVIOUS
    <3>1. \A k, l \in 1..Len(queue) : queue[k].id = t /\ queue[l].id = t => k = l
        BY DEF OneHolder
    <3>2. i + 1 \in 1..Len(queue) /\ queue[i + 1].id = t
        BY <1>2
    <3>3. j + 1 \in 1..Len(queue) /\ queue[j + 1].id = t
        BY <1>2
    <3>4. i + 1 = j + 1
        BY <3>1, <3>2, <3>3
    <3> QED BY <3>4
  <2>2. CASE queue[1].id # t
    <3>1. NotQueued(t) => NotQueued(t)'
        BY <1>2 DEF NotQueued
    <3>2. NoWorker(t) => NoWorker(t)'
        BY <1>3, <2>2 DEF NoWorker
    <3>3. \A u, v \in Workers :
              wpc'[u] \in Holding /\ wpc'[v] \in Holding /\ job'[u].id = t /\ job'[v].id = t => u = v
        BY <1>3, <2>2 DEF OneHolder
    <3> QED BY <1>1, <2>1, <3>1, <3>2, <3>3 DEF OneHolder, NotBatched
  <2>3. CASE queue[1].id = t
    <3>1. ~NotQueued(t)
        BY <1>2, <2>3 DEF NotQueued
    <3>2. NoWorker(t) /\ NotBatched(t) /\ t \notin leased /\ status[t] = "in_progress"
        BY <3>1 DEF OneHolder
    <3>3. NotQueued(t)'
      <4> SUFFICES ASSUME NEW i \in 1..Len(queue'), queue'[i].id = t PROVE FALSE
          BY DEF NotQueued
      <4>1. i + 1 = 1
          BY <1>2, <2>3 DEF OneHolder
      <4> QED BY <1>2, <4>1
    <3>4. \A u, v \in Workers :
              wpc'[u] \in Holding /\ wpc'[v] \in Holding /\ job'[u].id = t /\ job'[v].id = t => u = v
        BY <1>3, <3>2 DEF NoWorker
    <3> QED BY <1>1, <2>1, <3>2, <3>3, <3>4 DEF OneHolder, NotBatched
  <2> QED BY <2>2, <2>3
<1>6. Snapshots(t)'
    BY <1>1, <1>2, <1>3 DEF Snapshots, Current
<1>7. KeepsAttempts(t) /\ Requested(t)'
    BY <1>1, <1>3 DEF KeepsAttempts, Attempts, Requested
<1>8. Recorded(t)'
    BY <1>1, <1>3 DEF Recorded
<1> QED BY <1>5, <1>6, <1>7, <1>8

\* The run ends: the worker keeps its lease and turns to recording the outcome.
LEMMA OutcomeStep ==
    ASSUME TypeOK, NEW t \in Tasks, t \notin disturbed', Core(t),
           NEW w \in Workers, Succeed(w) \/ ReportFailure(w) \/ Raise(w),
           UNCHANGED <<dispatcherVars, adminVars>>
    PROVE  Core(t)' /\ KeepsAttempts(t)
<1> USE DEF Core, dispatcherVars, adminVars
<1>1. UNCHANGED <<status, rows, runtime, queue, job>> /\ wpc[w] = "run"
    BY DEF Succeed, ReportFailure, Raise, Goto, dbVars
<1>2. /\ wpc'[w] \in Holding \ {"run"}
      /\ wpc'[w] = "retry_status" => "retry_status" \in RetryOrFail(job[w])
      /\ \A v \in Workers \ {w} : wpc'[v] = wpc[v]
    BY DEF Succeed, ReportFailure, Raise, Goto, RetryOrFail, Holding, TypeOK, WorkerTypeOK
<1>3. \A v \in Workers : /\ wpc'[v] \in Holding <=> wpc[v] \in Holding
                         /\ wpc'[v] = "done_row" <=> wpc[v] = "done_row"
    BY <1>1, <1>2 DEF Holding
<1>4. OneHolder(t)'
    BY <1>1, <1>3 DEF OneHolder, NotBatched, NotQueued, NoWorker
<1>5. Snapshots(t)'
    BY <1>1, <1>3 DEF Snapshots, Current
<1>6. KeepsAttempts(t)
  <2>1. wpc'[w] = "retry_status" => Allowed(job[w].max, job[w].attempts + 1)
      BY <1>1, <1>2, RetryAllowed DEF TypeOK, WorkerTypeOK
  <2> QED BY <1>1, <1>2, <2>1 DEF KeepsAttempts, Attempts
<1>7. Recorded(t)' /\ Requested(t)'
    BY <1>1, <1>3 DEF Recorded, Requested
<1> QED BY <1>4, <1>5, <1>6, <1>7

\* The status transaction ends the lease the worker holds.
LEMMA MarkStatusStep ==
    ASSUME TypeOK, NEW t \in Tasks, t \notin disturbed', Core(t),
           NEW w \in Workers,
           MarkDoneStatus(w) \/ MarkRetryStatus(w) \/ MarkFailStatus(w),
           UNCHANGED <<dispatcherVars, adminVars>>
    PROVE  Core(t)' /\ KeepsAttempts(t)
<1> USE DEF MarkDoneStatus, MarkRetryStatus, MarkFailStatus, CompleteStatus, RetryStatus, FailStatus
<1> USE DEF Core, dispatcherVars, adminVars
<1>1. UNCHANGED <<rows, runtime, queue, job>> /\ wpc[w] \in Holding
    BY DEF Goto, Holding
<1>2. /\ wpc'[w] \in Recording
      /\ wpc'[w] = "done_row" <=> wpc[w] = "done_status"
      /\ \A v \in Workers \ {w} : wpc'[v] = wpc[v]
    BY DEF Goto, Recording, TypeOK, WorkerTypeOK
<1>3. Holding \cap Recording = {} /\ "retry_status" \in Holding /\ "done_row" \in Recording
    BY DEF Holding, Recording
<1>4. CASE job[w].id # t
  <2>1. status'[t] = status[t]
      BY <1>4 DEF MoveStatus
  <2>2. \A v \in Workers : job[v].id = t => wpc'[v] = wpc[v]
      BY <1>2, <1>4
  <2>3. OneHolder(t)'
      BY <1>1, <2>1, <2>2 DEF OneHolder, NotBatched, NotQueued, NoWorker
  <2>4. Snapshots(t)'
      BY <1>1, <2>2 DEF Snapshots, Current
  <2>5. KeepsAttempts(t) /\ Recorded(t)' /\ Requested(t)'
      BY <1>1, <2>1, <2>2 DEF KeepsAttempts, Attempts, Recorded, Requested
  <2> QED BY <2>3, <2>4, <2>5
<1>5. CASE job[w].id = t
  <2>1. ~NoWorker(t)
      BY <1>1, <1>5 DEF NoWorker
  <2>2. /\ status[t] = "in_progress" /\ t \notin leased /\ NotBatched(t) /\ NotQueued(t)
        /\ \A v \in Workers \ {w} : wpc[v] \in Holding => job[v].id # t
      BY <1>1, <1>5, <2>1 DEF OneHolder
  <2>3. NotBatched(t)' /\ NotQueued(t)' /\ NoWorker(t)'
      BY <1>1, <1>2, <1>3, <2>2 DEF NotBatched, NotQueued, NoWorker
  <2>4. /\ t \in rows
        /\ job[w].attempts = runtime[t].attempts /\ job[w].max = runtime[t].max
      BY <1>1, <1>5 DEF Snapshots, Current
  <2>5. \/ wpc[w] = "done_status" /\ status'[t] = "completed"
        \/ wpc[w] = "retry_status" /\ status'[t] = "pending"
        \/ wpc[w] = "fail_status" /\ status'[t] = "failed"
      BY <1>5, <2>2 DEF Goto, MoveStatus
  <2>6. OneHolder(t)'
      BY <1>1, <2>2, <2>3 DEF OneHolder, NotBatched, NotQueued, NoWorker
  <2>7. Snapshots(t)'
      BY <1>1, <2>3 DEF Snapshots, Current, NotBatched, NotQueued, NoWorker
  <2>8. KeepsAttempts(t)
    <3> SUFFICES ASSUME NEW extra \in Nat, Attempts(t, extra) PROVE Attempts(t, extra)'
        BY DEF KeepsAttempts
    <3>1. status'[t] \in LEASABLE => Allowed(runtime[t].max, runtime[t].attempts + 1)
        BY <1>5, <2>4, <2>5 DEF Attempts, LEASABLE
    <3>2. status'[t] \in LEASABLE => Allowed(runtime[t].max, runtime[t].attempts + 1 - extra)
      <4>1. runtime[t].max \in Int /\ runtime[t].attempts \in Nat
          BY DEF TypeOK, RepositoryTypeOK, Row
      <4> QED BY <3>1, <4>1, AllowedLess
    <3>3. \A v \in Workers : wpc'[v] = "retry_status" => wpc[v] = "retry_status"
        BY <1>2, <1>3
    <3> QED BY <1>1, <2>2, <3>2, <3>3 DEF Attempts
  <2>9. Recorded(t)'
    <3>1. status'[t] = "completed" => wpc'[w] = "done_row"
        BY <1>2, <2>5
    <3> QED BY <1>1, <1>5, <2>4, <3>1 DEF Recorded
  <2>10. Requested(t)'
      BY <1>1, <2>2, <2>4, <2>5 DEF Requested
  <2> QED BY <2>6, <2>7, <2>8, <2>9, <2>10
<1> QED BY <1>4, <1>5

\* The row transaction touches neither the attempts nor the status.
LEMMA MarkRowStep ==
    ASSUME TypeOK, NEW t \in Tasks, t \notin disturbed', Core(t),
           NEW w \in Workers, MarkDoneRow(w) \/ MarkFailedRow(w),
           UNCHANGED <<dispatcherVars, adminVars>>
    PROVE  Core(t)' /\ KeepsAttempts(t)
<1> USE DEF MarkDoneRow, MarkFailedRow, CompleteRuntime, FailedRuntime
<1> USE DEF Core, dispatcherVars, adminVars
<1>1. UNCHANGED <<status, rows, queue>> /\ wpc[w] \in Recording /\ job[w].id \in Tasks
    BY DEF Recording, TypeOK, WorkerTypeOK, Dto
<1>2. /\ wpc'[w] = "idle"
      /\ \A v \in Workers \ {w} : wpc'[v] = wpc[v] /\ job'[v] = job[v]
    BY DEF Finish, TypeOK, WorkerTypeOK
<1>3. /\ wpc[w] \notin Holding /\ wpc'[w] \notin Holding
      /\ wpc'[w] # "done_row" /\ wpc'[w] # "retry_status"
    BY <1>1, <1>2 DEF Holding, Recording
<1>4. /\ runtime'[t].attempts = runtime[t].attempts
      /\ runtime'[t].max = runtime[t].max
      /\ t \in rows /\ runtime[t].result => runtime'[t].result
    BY <1>1 DEF ClearLocks, TypeOK, RepositoryTypeOK, Row
<1>5. OneHolder(t)'
    BY <1>1, <1>2, <1>3 DEF OneHolder, NotBatched, NotQueued, NoWorker
<1>6. Snapshots(t)'
    BY <1>1, <1>2, <1>3, <1>4 DEF Snapshots, Current
<1>7. KeepsAttempts(t) /\ Requested(t)'
    BY <1>1, <1>2, <1>3, <1>4 DEF KeepsAttempts, Attempts, Requested
<1>8. Recorded(t)'
  <2>1. CASE wpc[w] = "done_row" /\ job[w].id = t
    <3>1. t \in rows /\ runtime'[t].result
        BY <2>1 DEF Recorded, TypeOK, RepositoryTypeOK, Row
    <3> QED BY <1>1, <1>2, <1>3, <3>1 DEF Recorded
  <2>2. CASE ~(wpc[w] = "done_row" /\ job[w].id = t)
      BY <1>1, <1>2, <1>3, <1>4, <2>2 DEF Recorded
  <2> QED BY <2>1, <2>2
<1> QED BY <1>5, <1>6, <1>7, <1>8

\* An error before the status transaction keeps or drops the lease, one after it
\* disturbs the task.
LEMMA WorkerFaultStep ==
    ASSUME TypeOK, NEW t \in Tasks, t \notin disturbed', Core(t),
           NEW w \in Workers, WorkerFault(w) \/ BackoffOverflows(w),
           UNCHANGED <<dispatcherVars, adminVars>>
    PROVE  Core(t)' /\ KeepsAttempts(t)
<1> USE DEF Core, dispatcherVars, adminVars
<1>0. RecordingFails(w) /\ UNCHANGED <<status, rows, runtime, queue>>
    BY DEF WorkerFault, BackoffOverflows, dbVars
<1>1. /\ UNCHANGED <<status, rows, runtime, queue>>
      /\ \A v \in Workers \ {w} : wpc'[v] = wpc[v] /\ job'[v] = job[v]
    BY <1>0 DEF RecordingFails, Finish, TypeOK, WorkerTypeOK
<1>2. \/ wpc'[w] = "idle"
      \/ /\ job'[w] = job[w] /\ wpc'[w] \in {"retry_status", "fail_status"}
         /\ wpc'[w] = "retry_status" => "retry_status" \in RetryOrFail(job[w])
    BY <1>0 DEF RecordingFails, Finish, RetryOrFail, TypeOK, WorkerTypeOK
<1>3. job[w].id = t => wpc[w] \in Holding
    BY DEF WorkerFault, Disturb, BackoffOverflows, Holding
<1>4. wpc'[w] \in Holding /\ job'[w].id = t => job'[w] = job[w] /\ wpc[w] \in Holding
    BY <1>2, <1>3 DEF Holding
<1>5. wpc'[w] # "done_row" /\ (job[w].id = t => wpc[w] # "done_row")
    BY <1>2, <1>3 DEF Holding
<1>6. OneHolder(t)'
    BY <1>1, <1>4 DEF OneHolder, NotBatched, NotQueued, NoWorker
<1>7. Snapshots(t)'
    BY <1>1, <1>4 DEF Snapshots, Current
<1>8. KeepsAttempts(t) /\ Requested(t)'
  <2>1. wpc'[w] = "retry_status" => Allowed(job[w].max, job[w].attempts + 1)
    <3>1. wpc'[w] = "retry_status" => job[w] \in Dto
        BY DEF WorkerFault, BackoffOverflows, Goto, Holding, Recording, TypeOK, WorkerTypeOK
    <3> QED BY <1>2, <3>1, RetryAllowed
  <2> QED BY <1>1, <1>2, <2>1 DEF KeepsAttempts, Attempts, Requested
<1>9. Recorded(t)'
    BY <1>1, <1>5 DEF Recorded
<1> QED BY <1>6, <1>7, <1>8, <1>9

-----------------------------------------------------------------------------
(* Whoever does not hold a lease *)

\* A step that leaves the process alone and, of a task that stays undisturbed,
\* everything but the lock.
LEMMA OutsideStep ==
    ASSUME NEW t \in Tasks, Core(t),
           UNCHANGED <<queue, dispatcherVars, workerVars>>,
           status'[t] = status[t],
           t \in rows' <=> t \in rows,
           runtime'[t].attempts = runtime[t].attempts,
           runtime'[t].max = runtime[t].max,
           runtime'[t].result = runtime[t].result,
           Requested(t)'
    PROVE  Core(t)' /\ KeepsAttempts(t)
<1> USE DEF Core, dispatcherVars, workerVars
<1>1. OneHolder(t)'
    BY DEF OneHolder, NotBatched, NotQueued, NoWorker
<1>2. Snapshots(t)'
    BY DEF Snapshots, Current
<1>3. KeepsAttempts(t) /\ Recorded(t)'
    BY DEF KeepsAttempts, Attempts, Recorded
<1> QED BY <1>1, <1>2, <1>3

\* What the watchdog reclaims is disturbed; of the rest it clears locks only.
LEMMA WatchdogLeaseStep ==
    ASSUME TypeOK, NEW t \in Tasks, t \notin disturbed', Core(t),
           WatchdogStep \/ WatchdogFault,
           UNCHANGED <<queue, dispatcherVars, workerVars, adminVars>>
    PROVE  Core(t)' /\ KeepsAttempts(t)
<1> USE DEF WatchdogStep, WatchdogFault, SelectExpired, ReleaseExpired, ClearExpired,
            ReclaimStatus, ReclaimRuntime, Disturb, dbVars
<1>1. status'[t] = status[t] /\ rows' = rows
    BY DEF MoveStatus
<1>2. /\ runtime'[t].attempts = runtime[t].attempts
      /\ runtime'[t].max = runtime[t].max
      /\ runtime'[t].result = runtime[t].result
    BY DEF ClearLocks, TypeOK, RepositoryTypeOK, Row
<1>3. Requested(t)'
    BY <1>1 DEF Core, Requested, adminVars
<1> QED BY <1>1, <1>2, <1>3, OutsideStep

\* An admin's retry and delete disturb their task before they touch it.
LEMMA AdminLeaseStep ==
    ASSUME TypeOK, NEW t \in Tasks, t \notin disturbed', Core(t),
           AdminStep \/ AdminFault \/ \E s \in Tasks : AdminRequest(s),
           UNCHANGED <<queue, dispatcherVars, workerVars>>
    PROVE  Core(t)' /\ KeepsAttempts(t)
<1> USE DEF TypeOK, RepositoryTypeOK
<1>1. ASSUME NEW s \in Tasks, CreateTask(s) PROVE Core(t)' /\ KeepsAttempts(t)
  <2>1. PICK isDue \in BOOLEAN : InsertTask(s, isDue)
      BY <1>1 DEF CreateTask
  <2>2. CASE s # t
    <3>1. Requested(t)'
        BY <1>1, <2>1, <2>2 DEF CreateTask, Begin, InsertTask, Core, Requested
    <3> QED BY <2>1, <2>2, <3>1, OutsideStep DEF InsertTask
  <2>3. CASE s = t
    <3>1. /\ status[t] = "unborn" /\ status'[t] = "created" /\ t \notin rows
          /\ UNCHANGED <<rows, runtime>> /\ apc' = "create_row"
        BY <1>1, <2>1, <2>3 DEF CreateTask, Begin, InsertTask, Core, Requested
    <3>2. t \notin leased /\ NotBatched(t) /\ NotQueued(t) /\ NoWorker(t)
        BY <3>1 DEF Core, OneHolder
    <3>3. OneHolder(t)'
        BY <3>2 DEF dispatcherVars, workerVars, OneHolder, NotBatched, NotQueued, NoWorker
    <3>4. Snapshots(t)'
        BY <3>1 DEF dispatcherVars, workerVars, Core, Snapshots, Current
    <3>5. KeepsAttempts(t) /\ Recorded(t)' /\ Requested(t)'
        BY <3>1, <3>2 DEF dispatcherVars, workerVars, Core, KeepsAttempts, Attempts, Recorded, Requested
    <3> QED BY <3>3, <3>4, <3>5 DEF Core
  <2> QED BY <2>2, <2>3
<1>2. ASSUME NEW s \in Tasks, RequeueTask(s) \/ DeleteTask(s) PROVE Core(t)' /\ KeepsAttempts(t)
  <2>1. s # t /\ status'[t] = status[t] /\ UNCHANGED <<rows, runtime>> /\ target' = s
      BY <1>2 DEF RequeueTask, DeleteTask, Begin, RequeueStatus, DeleteTaskRow, Disturb, MoveStatus
  <2>2. Requested(t)'
      BY <2>1 DEF Core, Requested
  <2> QED BY <2>1, <2>2, OutsideStep
<1>3. CASE CreateRow
  <2>1. PICK max \in Int : InsertRow(target, max)
      BY <1>3, RepositoryAssumption DEF CreateRow
  <2>2. apc = "create_row" /\ apc' = "idle"
      BY <1>3 DEF CreateRow, End
  <2>3. CASE target # t
    <3>1. Requested(t)'
        BY <2>1, <2>2, <2>3 DEF InsertRow, Core, Requested
    <3> QED BY <2>1, <2>3, <3>1, OutsideStep DEF InsertRow
  <2>4. CASE target = t
    <3>1. /\ t \notin rows /\ t \in rows' /\ status' = status /\ status[t] # "unborn"
          /\ runtime'[t].attempts = 0 /\ runtime'[t].max = max
        BY <2>1, <2>2, <2>4 DEF InsertRow, BlankRow, Core, Requested
    <3>2. status[t] # "completed" /\ NotBatched(t) /\ NotQueued(t) /\ NoWorker(t)
        BY <3>1 DEF Core, Recorded, Snapshots, Current, NotBatched, NotQueued, NoWorker
    <3>3. OneHolder(t)'
        BY <3>1 DEF dispatcherVars, workerVars, Core, OneHolder, NotBatched, NotQueued, NoWorker
    <3>4. Snapshots(t)'
        BY <3>1, <3>2 DEF dispatcherVars, workerVars, Core, Snapshots, NotBatched, NotQueued, NoWorker
    <3>5. KeepsAttempts(t)
      <4>1. \A extra \in Nat : /\ Allowed(runtime'[t].max, runtime'[t].attempts - extra)
                               /\ Allowed(runtime'[t].max, runtime'[t].attempts + 1 - extra)
          BY <3>1, AllowedFirst
      <4> QED BY <3>1, <4>1 DEF workerVars, KeepsAttempts, Attempts
    <3>6. Recorded(t)' /\ Requested(t)'
        BY <2>2, <3>1, <3>2 DEF workerVars, Core, Recorded, Requested
    <3> QED BY <3>3, <3>4, <3>5, <3>6 DEF Core
  <2> QED BY <2>3, <2>4
<1>4. CASE RequeueRow \/ DeleteRuntimeRow
  <2>1. target # t
      BY <1>4 DEF RequeueRow, DeleteRuntimeRow, End, Core, Requested
  <2>2. /\ status' = status /\ runtime'[t] = runtime[t] /\ (t \in rows' <=> t \in rows)
        /\ apc' = "idle"
      BY <1>4, <2>1 DEF RequeueRow, DeleteRuntimeRow, End, RequeueRuntime, DeleteRow
  <2>3. Requested(t)'
      BY <2>2 DEF Core, Requested
  <2> QED BY <2>2, <2>3, OutsideStep
<1>5. CASE CreateConflict \/ AdminFault
  <2>1. UNCHANGED <<status, rows, runtime>> /\ apc' = "idle"
      BY <1>5 DEF CreateConflict, AdminFault, End, dbVars
  <2>2. Requested(t)'
      BY <2>1 DEF Core, Requested
  <2> QED BY <2>1, <2>2, OutsideStep
<1> QED BY <1>1, <1>2, <1>3, <1>4, <1>5 DEF AdminStep, AdminRequest

\* Time passes, or the external system inserts a task.
LEMMA EnvironmentStep ==
    ASSUME TypeOK, NEW t \in Tasks, t \notin disturbed', Core(t),
           NEW s \in Tasks, ExternalInsert(s) \/ TimePasses(s)
    PROVE  Core(t)' /\ KeepsAttempts(t)
<1> USE DEF TypeOK, RepositoryTypeOK
<1>0. UNCHANGED <<rows, queue, dispatcherVars, workerVars, adminVars>>
    BY DEF ExternalInsert, TimePasses, InsertTask, BecomeDue, Expire
<1>1. /\ runtime'[t].attempts = runtime[t].attempts
      /\ runtime'[t].max = runtime[t].max
      /\ runtime'[t].result = runtime[t].result
    BY DEF ExternalInsert, TimePasses, InsertTask, BecomeDue, Expire, Row
<1>2. CASE status'[t] = status[t]
    BY <1>0, <1>1, <1>2, OutsideStep DEF Core, Requested, adminVars
<1>3. CASE status'[t] # status[t]
  <2>1. /\ status[t] = "unborn" /\ status'[t] = "created" /\ t \notin rows
      BY <1>3 DEF ExternalInsert, TimePasses, InsertTask, BecomeDue, Expire, Core, Requested
  <2>2. UNCHANGED runtime
      BY <1>3 DEF ExternalInsert, TimePasses, InsertTask, BecomeDue, Expire
  <2>3. t \notin leased /\ NotBatched(t) /\ NotQueued(t) /\ NoWorker(t)
      BY <2>1 DEF Core, OneHolder
  <2>4. OneHolder(t)'
      BY <1>0, <2>3 DEF dispatcherVars, workerVars, OneHolder, NotBatched, NotQueued, NoWorker
  <2>5. Snapshots(t)'
      BY <1>0, <2>2 DEF dispatcherVars, workerVars, Core, Snapshots, Current
  <2>6. KeepsAttempts(t) /\ Recorded(t)' /\ Requested(t)'
      BY <1>0, <2>1, <2>2, <2>3
      DEF dispatcherVars, workerVars, adminVars, Core, KeepsAttempts, Attempts, Recorded, Requested
  <2> QED BY <2>4, <2>5, <2>6 DEF Core
<1> QED BY <1>2, <1>3

\* A crash loses every lease there is in memory, and changes no row.
LEMMA CrashStep ==
    ASSUME TypeOK, NEW t \in Tasks, t \notin disturbed', Core(t), Crash
    PROVE  Core(t)' /\ KeepsAttempts(t)
<1>1. /\ UNCHANGED <<status, rows, runtime>>
      /\ leased' = {} /\ batch' = {} /\ queue' = <<>> /\ seen' = Unread
      /\ \A w \in Workers : wpc'[w] = "idle"
      /\ apc' = "idle"
    BY DEF Crash, DispatcherReset
<1>2. \A w \in Workers : wpc[w] \in Recording => job[w].id # t
    BY DEF Crash, Disturb
<1>3. NotBatched(t)' /\ NotQueued(t)' /\ NoWorker(t)'
    BY <1>1 DEF NotBatched, NotQueued, NoWorker, Holding
<1>4. OneHolder(t)'
    BY <1>1, <1>3 DEF OneHolder, NoWorker
<1>5. Snapshots(t)'
    BY <1>1, <1>3 DEF Snapshots, Unread, NotBatched, NotQueued, NoWorker
<1>6. KeepsAttempts(t) /\ Requested(t)'
    BY <1>1 DEF Core, KeepsAttempts, Attempts, Requested
<1>7. Recorded(t)'
    BY <1>1, <1>2 DEF Core, Recorded, Recording
<1> QED BY <1>4, <1>5, <1>6, <1>7 DEF Core

-----------------------------------------------------------------------------
(* The invariant of the service *)

LEMMA DisturbedGrows ==
    ASSUME [Next]_vars
    PROVE  disturbed \subseteq disturbed'
<1> USE DEF Disturb, dbVars
<1>1. DispatcherStep \/ DispatcherFault => disturbed' = disturbed
    BY DEF DispatcherStep, Poll, Lease, LeaseStatus, ReadRuntime, WriteRuntime, LeaseRuntime,
           WriteConflict, Compensate, ReleaseLease, Fetch, PutNext, DispatcherFault
<1>2. \A w \in Workers : WorkerStep(w) \/ WorkerFault(w) => disturbed \subseteq disturbed'
    BY DEF WorkerStep, Take, Succeed, ReportFailure, Raise, MarkDoneStatus, MarkDoneRow,
           MarkRetryStatus, BackoffOverflows, MarkFailStatus, MarkFailedRow, CompleteStatus,
           CompleteRuntime, RetryStatus, FailStatus, FailedRuntime, WorkerFault
<1>3. WatchdogStep \/ WatchdogFault => disturbed \subseteq disturbed'
    BY DEF WatchdogStep, WatchdogFault, SelectExpired, ReleaseExpired, ClearExpired,
           ReclaimStatus, ReclaimRuntime
<1>4. AdminStep \/ AdminFault \/ (\E t \in Tasks : AdminRequest(t)) => disturbed \subseteq disturbed'
    BY DEF AdminStep, AdminFault, AdminRequest, CreateRow, CreateConflict, RequeueRow,
           DeleteRuntimeRow, CreateTask, RequeueTask, DeleteTask, InsertTask, InsertRow,
           DeleteTaskRow, DeleteRow, RequeueStatus, RequeueRuntime
<1>5. (\E t \in Tasks : ExternalInsert(t) \/ TimePasses(t)) => disturbed' = disturbed
    BY DEF ExternalInsert, TimePasses, InsertTask, BecomeDue, Expire
<1>6. Crash \/ UNCHANGED vars => disturbed \subseteq disturbed'
    BY DEF Crash, vars
<1> QED
    BY <1>1, <1>2, <1>3, <1>4, <1>5, <1>6
    DEF Next, DispatcherRuns, WorkerRuns, WatchdogRuns, AdminRuns, AdminRequests, Fault,
        DispatcherFails, WorkerFails, WatchdogFails, AdminFails

\* What any step of the service does to one task that stays undisturbed.
LEMMA TaskStep ==
    ASSUME TypeOK, [Next]_vars, NEW t \in Tasks, t \notin disturbed', Core(t)
    PROVE  Core(t)' /\ KeepsAttempts(t)
<1>1. CASE UNCHANGED vars
    BY <1>1 DEF vars, dbVars, dispatcherVars, workerVars, adminVars, Core, OneHolder,
          NotBatched, NotQueued, NoWorker, Snapshots, Current, KeepsAttempts, Attempts,
          Recorded, Requested
<1>2. CASE /\ DispatcherStep \/ DispatcherFault
           /\ UNCHANGED <<workerVars, adminVars>>
    BY <1>2, LeaseStep, ReadStep, WriteStep, ReleaseStep, FetchStep, PutStep DEF DispatcherStep
<1>3. CASE \E w \in Workers : /\ WorkerStep(w) \/ WorkerFault(w)
                             /\ UNCHANGED <<dispatcherVars, adminVars>>
    BY <1>3, TakeStep, OutcomeStep, MarkStatusStep, MarkRowStep, WorkerFaultStep DEF WorkerStep
<1>4. CASE /\ WatchdogStep \/ WatchdogFault
           /\ UNCHANGED <<queue, dispatcherVars, workerVars, adminVars>>
    BY <1>4, WatchdogLeaseStep
<1>5. CASE /\ AdminStep \/ AdminFault \/ \E s \in Tasks : AdminRequest(s)
           /\ UNCHANGED <<queue, dispatcherVars, workerVars>>
    BY <1>5, AdminLeaseStep
<1>6. CASE \E s \in Tasks : ExternalInsert(s) \/ TimePasses(s)
    BY <1>6, EnvironmentStep
<1>7. CASE Crash
    BY <1>7, CrashStep
<1> QED
    BY <1>1, <1>2, <1>3, <1>4, <1>5, <1>6, <1>7
    DEF Next, DispatcherRuns, WorkerRuns, WatchdogRuns, AdminRuns, AdminRequests, Fault,
        DispatcherFails, WorkerFails, WatchdogFails, AdminFails

LEMMA LeaseInvStep == TypeOK /\ LeaseInv /\ [Next]_vars => LeaseInv'
<1> SUFFICES ASSUME TypeOK, LeaseInv, [Next]_vars, NEW t \in Tasks, t \notin disturbed'
             PROVE  Core(t)' /\ Attempts(t, 0)'
    BY DEF LeaseInv, Cores
<1>1. Core(t) /\ Attempts(t, 0)
    BY DisturbedGrows DEF LeaseInv, Cores
<1> QED BY <1>1, TaskStep DEF KeepsAttempts

THEOREM LeaseInvariant == Spec => [](TypeOK /\ LeaseInv)
<1>1. Init => TypeOK /\ LeaseInv
    BY InitType, LeaseInvInit
<1>2. TypeOK /\ LeaseInv /\ [Next]_vars => TypeOK' /\ LeaseInv'
    BY TypeStep, LeaseInvStep
<1> QED BY <1>1, <1>2, PTL DEF Spec

LEMMA CoreIsExclusive ==
    ASSUME NEW t \in Tasks, Core(t)
    PROVE  /\ \A g, h \in Holders(t) : g = h
           /\ Held(t) => status[t] = "in_progress"
<1> USE DEF Core, OneHolder
<1>1. InBatch(t) <=> ~NotBatched(t)
    BY DEF InBatch, NotBatched
<1>2. QueuedAt(t) # {} <=> ~NotQueued(t)
    BY DEF QueuedAt, NotQueued
<1>3. WorkersOn(t) # {} <=> ~NoWorker(t)
    BY DEF WorkersOn, NoWorker
<1>4. Held(t) => status[t] = "in_progress"
    BY <1>1, <1>2, <1>3 DEF Held, InLease
<1>5. ASSUME NEW g \in Holders(t), NEW h \in Holders(t) PROVE g = h
  <2>1. CASE t \in leased
    <3>1. \A x \in Holders(t) : x = <<"lease", t>>
        BY <1>2, <1>3, <2>1 DEF Holders, NotBatched
    <3> QED BY <1>5, <3>1
  <2>2. CASE ~NotBatched(t)
    <3>1. t \notin leased /\ QueuedAt(t) = {} /\ WorkersOn(t) = {}
        BY <1>2, <1>3, <2>2
    <3>2. \A x \in Holders(t) : \E d \in batch : d.id = t /\ x = <<"batch", d>>
        BY <3>1 DEF Holders, InLease
    <3> QED BY <1>5, <3>2
  <2>3. CASE ~NotQueued(t)
    <3>1. t \notin leased /\ NotBatched(t) /\ WorkersOn(t) = {}
        BY <1>3, <2>3
    <3>2. \A x \in Holders(t) : \E i \in 1..Len(queue) : queue[i].id = t /\ x = <<"queue", i>>
        BY <3>1 DEF Holders, InLease, NotBatched, QueuedAt
    <3> QED BY <1>5, <3>2
  <2>4. CASE t \notin leased /\ NotBatched(t) /\ NotQueued(t)
    <3>1. \A x \in Holders(t) :
              \E w \in Workers : wpc[w] \in Holding /\ job[w].id = t /\ x = <<"worker", w>>
        BY <1>2, <2>4 DEF Holders, InLease, NotBatched, WorkersOn
    <3> QED BY <1>5, <3>1
  <2> QED BY <2>1, <2>2, <2>3, <2>4
<1> QED BY <1>4, <1>5

\* However many tasks, workers, faults and crashes there are: of a task in whose
\* lease neither the watchdog nor an admin intervened, and whose attempts were
\* fully recorded, the process holds at most one lease, and only while the task
\* is in progress.
THEOREM LeaseIsExclusive == Spec => []ExclusiveLease
<1>1. LeaseInv => ExclusiveLease
    BY CoreIsExclusive DEF LeaseInv, Cores, ExclusiveLease
<1> QED BY <1>1, LeaseInvariant, PTL

\* Of such a task no more than max_attempts are ever counted, and none is left to
\* be leased with all of them used up, although lease_batch looks at neither.
THEOREM AttemptsAreBounded == Spec => []AttemptsBounded
<1>1. TypeOK /\ LeaseInv => AttemptsBounded
    BY DEF TypeOK, RepositoryTypeOK, Row, LeaseInv, Attempts, AttemptsBounded
<1> QED BY <1>1, LeaseInvariant, PTL

\* Such a task is completed with its result, or a worker is about to write it.
THEOREM ResultsAreRecorded == Spec => []ResultRecorded
<1>1. LeaseInv => ResultRecorded
    BY DEF LeaseInv, Cores, Core, Recorded, ResultRecorded
<1> QED BY <1>1, LeaseInvariant, PTL

-----------------------------------------------------------------------------
(* Terminal statuses *)

\* The only steps that take a task out of a terminal status.
Reopening(t) ==
    \/ apc = "idle" /\ apc' = "requeue_row" /\ target' = t /\ status'[t] = "created"
    \/ apc = "idle" /\ apc' = "delete_row" /\ target' = t /\ status'[t] = "gone"
    \/ dpc = "compensate" /\ t \in disturbed

LEMMA TerminalStep ==
    ASSUME TypeOK, Cores, [Next]_vars, NEW t \in Tasks,
           status[t] \in TERMINAL, status'[t] # status[t]
    PROVE  Reopening(t)
<1> USE DEF TERMINAL, MoveStatus
<1>1. CASE DispatcherStep
  <2>1. CASE Compensate
    <3>1. t \in leased /\ dpc = "compensate"
        BY <2>1 DEF Compensate, ReleaseLease
    <3>2. t \in disturbed
        BY <3>1 DEF Cores, Core, OneHolder
    <3> QED BY <3>1, <3>2 DEF Reopening
  <2>2. CASE ~Compensate
      BY <1>1, <2>2 DEF DispatcherStep, Poll, Lease, LeaseStatus, Batches, Leasable, LEASABLE,
            ReadRuntime, WriteRuntime, LeaseRuntime, WriteConflict, Fetch, PutNext, dbVars
  <2> QED BY <2>1, <2>2
<1>2. ASSUME NEW w \in Workers, WorkerStep(w) PROVE FALSE
    BY <1>2 DEF WorkerStep, Take, Succeed, ReportFailure, Raise, MarkDoneStatus, MarkDoneRow,
          MarkRetryStatus, BackoffOverflows, MarkFailStatus, MarkFailedRow, CompleteStatus,
          CompleteRuntime, RetryStatus, FailStatus, FailedRuntime, dbVars
<1>3. CASE WatchdogStep
    BY <1>3 DEF WatchdogStep, SelectExpired, ReleaseExpired, ClearExpired, ReclaimStatus,
          ReclaimRuntime, dbVars
<1>4. CASE AdminStep
    BY <1>4 DEF AdminStep, CreateRow, InsertRow, CreateConflict, RequeueRow, RequeueRuntime,
          DeleteRuntimeRow, DeleteRow, dbVars
<1>5. ASSUME NEW s \in Tasks, AdminRequest(s) PROVE Reopening(t)
  <2>1. CASE CreateTask(s)
      BY <2>1 DEF CreateTask, InsertTask, TypeOK, RepositoryTypeOK
  <2>2. CASE RequeueTask(s)
    <3>1. s = t /\ status'[t] = "created"
        BY <2>2 DEF RequeueTask, RequeueStatus
    <3> QED BY <2>2, <3>1 DEF RequeueTask, Begin, Reopening
  <2>3. CASE DeleteTask(s)
    <3>1. s = t /\ status'[t] = "gone"
        BY <2>3 DEF DeleteTask, DeleteTaskRow
    <3> QED BY <2>3, <3>1 DEF DeleteTask, Begin, Reopening
  <2> QED BY <1>5, <2>1, <2>2, <2>3 DEF AdminRequest
<1>6. ASSUME NEW s \in Tasks, ExternalInsert(s) \/ TimePasses(s) PROVE FALSE
    BY <1>6 DEF ExternalInsert, TimePasses, InsertTask, BecomeDue, Expire, TypeOK, RepositoryTypeOK
<1>7. CASE Fault \/ Crash \/ UNCHANGED vars
    BY <1>7 DEF Fault, DispatcherFails, WorkerFails, WatchdogFails, AdminFails, DispatcherFault,
                WorkerFault, WatchdogFault, AdminFault, Crash, vars, dbVars
<1> QED
    BY <1>1, <1>2, <1>3, <1>4, <1>5, <1>6, <1>7
    DEF Next, DispatcherRuns, WorkerRuns, WatchdogRuns, AdminRuns, AdminRequests

\* A task leaves a terminal status by an admin's retry or delete, or because the
\* compensating transaction, which has no condition on the status, hits a task
\* somebody had intervened in.
THEOREM TerminalStatusStays == Spec => TerminalStays
<1>1. TypeOK /\ LeaseInv /\ [Next]_vars =>
          [\A t \in Tasks : status[t] \in TERMINAL /\ status'[t] # status[t] =>
                 \/ apc = "idle" /\ apc' = "requeue_row" /\ target' = t /\ status'[t] = "created"
                 \/ apc = "idle" /\ apc' = "delete_row" /\ target' = t /\ status'[t] = "gone"
                 \/ dpc = "compensate" /\ t \in disturbed]_vars
    BY TerminalStep DEF Reopening, LeaseInv
<1> QED BY <1>1, LeaseInvariant, PTL DEF Spec, TerminalStays

-----------------------------------------------------------------------------
(***************************************************************************)
(* The service implements TaskLifecycle: the tasks somebody in the process *)
(* holds, less the disturbed ones, are the held tasks of the promise, and  *)
(* every step of the service is one of its steps.                          *)
(*                                                                         *)
(* Each step of the service is of one of five kinds: it leaves the status  *)
(* and at most loses leases (Drop), or it inserts a task, leases a batch,  *)
(* ends a lease, or is an intervention.  That a lease that is given up was *)
(* held, and by nobody else, is what Cores says.                           *)
(***************************************************************************)
HeldTasks == {t \in Tasks : Held(t)} \ disturbed

Unheld(t) == t \notin leased /\ NotBatched(t) /\ NotQueued(t) /\ NoWorker(t)

LEMMA HeldIsNotUnheld ==
    ASSUME NEW t \in Tasks
    PROVE  /\ Held(t) <=> ~Unheld(t)
           /\ Held(t)' <=> ~Unheld(t)'
BY DEF Held, InLease, InBatch, QueuedAt, WorkersOn, Unheld, NotBatched, NotQueued, NoWorker

\* The promise, with its variables as the service has them.
LEMMA RefinedVars ==
    /\ UNCHANGED <<status, HeldTasks, disturbed>> => UNCHANGED Lifecycle!vars
    /\ Lifecycle!Init <=> status = [t \in Tasks |-> "unborn"] /\ HeldTasks = {} /\ disturbed = {}
BY DEF Lifecycle!vars, Lifecycle!Init, HeldTasks

LEMMA RefinedInit == Init => Lifecycle!Init
<1> SUFFICES ASSUME Init PROVE HeldTasks = {}
    BY RefinedVars DEF Init, RepositoryInit
<1>1. \A t \in Tasks : Unheld(t)
    BY DEF Init, QueueInit, DispatcherInit, WorkerInit, Unheld, NotBatched, NotQueued, NoWorker,
           Holding
<1> QED BY <1>1, HeldIsNotUnheld DEF HeldTasks

-----------------------------------------------------------------------------
(* Steps that leave the status of every task *)

LEMMA DropStep ==
    ASSUME TypeOK', UNCHANGED status, disturbed \subseteq disturbed',
           \A t \in Tasks \ disturbed' : Held(t)' => Held(t)
    PROVE  Lifecycle!Next
<1> DEFINE S == HeldTasks \ HeldTasks'
<1>1. HeldTasks' = HeldTasks \ S /\ S \in SUBSET Tasks
    BY DEF HeldTasks
<1>2. disturbed' = disturbed \cup disturbed' /\ disturbed' \in SUBSET Tasks
    BY DEF TypeOK, RepositoryTypeOK
<1>3. Lifecycle!Drop(S, disturbed')
    BY <1>1, <1>2 DEF Lifecycle!Drop, HeldTasks
<1> QED BY <1>1, <1>2, <1>3 DEF Lifecycle!Next

\* Who holds nothing changes nobody's lease.
LEMMA SameHolders ==
    ASSUME UNCHANGED <<queue, dispatcherVars, workerVars>>, NEW t \in Tasks
    PROVE  Held(t)' <=> Held(t)
BY DEF dispatcherVars, workerVars, Held, InLease, InBatch, QueuedAt, WorkersOn

LEMMA DispatcherMoves ==
    ASSUME TypeOK, Poll \/ ReadRuntime \/ WriteRuntime \/ WriteConflict \/ Fetch \/ PutNext
                   \/ DispatcherFault,
           UNCHANGED workerVars
    PROVE  UNCHANGED <<status, disturbed>> /\ \A t \in Tasks : Held(t)' => Held(t)
<1> USE DEF workerVars
<1>1. UNCHANGED <<status, disturbed>>
    BY DEF Poll, ReadRuntime, WriteRuntime, WriteConflict, Fetch, PutNext, DispatcherFault,
           LeaseRuntime, dbVars
<1> SUFFICES ASSUME NEW t \in Tasks, Unheld(t) PROVE Unheld(t)'
    BY <1>1, HeldIsNotUnheld
<1> USE DEF Unheld, NotBatched, NotQueued, NoWorker
<1>2. CASE Poll \/ ReadRuntime \/ WriteRuntime \/ WriteConflict
    BY <1>2 DEF Poll, ReadRuntime, WriteRuntime, WriteConflict
<1>3. CASE Fetch
  <2>1. \A d \in batch' : d.id \in leased
      BY <1>3 DEF Fetch, DtoOf
  <2> QED BY <1>3, <2>1 DEF Fetch
<1>4. CASE PutNext
  <2>1. PICK dto \in batch : queue' = Append(queue, dto) /\ batch' = batch \ {dto}
      BY <1>4 DEF PutNext, Put
  <2>2. \A i \in 1..Len(queue') : queue'[i] = dto \/ (i \in 1..Len(queue) /\ queue'[i] = queue[i])
      BY <2>1 DEF TypeOK, QueueTypeOK, DispatcherTypeOK
  <2> QED BY <1>4, <2>1, <2>2 DEF PutNext
<1>5. CASE DispatcherFault
    BY <1>5 DEF DispatcherFault, DispatcherReset
<1> QED BY <1>2, <1>3, <1>4, <1>5

LEMMA WorkerMoves ==
    ASSUME TypeOK, NEW w \in Workers,
           Take(w) \/ Succeed(w) \/ ReportFailure(w) \/ Raise(w) \/ MarkDoneRow(w)
           \/ MarkFailedRow(w) \/ BackoffOverflows(w) \/ WorkerFault(w),
           UNCHANGED dispatcherVars
    PROVE  UNCHANGED status /\ \A t \in Tasks \ disturbed' : Held(t)' => Held(t)
<1> USE DEF dispatcherVars
<1>1. UNCHANGED status
    BY DEF Take, Succeed, ReportFailure, Raise, MarkDoneRow, MarkFailedRow, BackoffOverflows,
           WorkerFault, CompleteRuntime, FailedRuntime, dbVars
<1> SUFFICES ASSUME NEW t \in Tasks \ disturbed', Unheld(t) PROVE Unheld(t)'
    BY <1>1, HeldIsNotUnheld
<1> USE DEF Unheld, NotBatched, NotQueued, NoWorker
<1>2. \A v \in Workers \ {w} : wpc'[v] = wpc[v] /\ job'[v] = job[v]
    BY DEF Take, Succeed, ReportFailure, Raise, MarkDoneRow, MarkFailedRow, BackoffOverflows,
           WorkerFault, RecordingFails, Goto, Finish, TypeOK, WorkerTypeOK
<1>3. CASE Take(w)
  <2>1. job'[w] = queue[1] /\ 1 \in 1..Len(queue)
      BY <1>3 DEF Take, Get, TypeOK, QueueTypeOK, WorkerTypeOK
  <2>2. \A i \in 1..Len(queue') : i + 1 \in 1..Len(queue) /\ queue'[i] = queue[i + 1]
      BY <1>3 DEF Take, Get, TypeOK, QueueTypeOK
  <2> QED BY <1>2, <2>1, <2>2
<1>4. CASE ~Take(w)
  <2>1. queue' = queue
      BY <1>4 DEF Succeed, ReportFailure, Raise, MarkDoneRow, MarkFailedRow, BackoffOverflows,
            WorkerFault
  <2>2. wpc'[w] \in Holding => job'[w] = job[w] /\ (job[w].id = t => wpc[w] \in Holding)
      BY <1>4 DEF Succeed, ReportFailure, Raise, MarkDoneRow, MarkFailedRow, BackoffOverflows,
            WorkerFault, RecordingFails, Goto, Finish, Disturb, Holding, Recording, TypeOK,
            WorkerTypeOK
  <2> QED BY <1>2, <2>1, <2>2
<1> QED BY <1>3, <1>4

-----------------------------------------------------------------------------
(* Steps that move tasks *)

LEMMA LeaseRefines ==
    ASSUME TypeOK, Cores, Lease, UNCHANGED workerVars
    PROVE  Lifecycle!Next
<1>1. PICK S \in SUBSET Tasks :
          /\ \A s \in S : status[s] \in LEASABLE
          /\ status' = [s \in Tasks |-> IF s \in S THEN "in_progress" ELSE status[s]]
          /\ leased' = S
          /\ UNCHANGED <<batch, queue, disturbed>>
    BY DEF Lease, Batches, Leasable, LeaseStatus, MoveStatus
<1>2. leased = {}
    BY DEF Lease, TypeOK, DispatcherTypeOK, LeaseWindow
<1>3. \A t \in Tasks : Held(t)' <=> t \in S \/ Held(t)
  <2> SUFFICES ASSUME NEW t \in Tasks PROVE Unheld(t)' <=> t \notin S /\ Unheld(t)
      BY HeldIsNotUnheld
  <2> QED BY <1>1, <1>2 DEF Unheld, NotBatched, NotQueued, NoWorker, workerVars
<1>4. \A t \in S : t \notin HeldTasks
    BY <1>1, CoreIsExclusive DEF Cores, HeldTasks, LEASABLE
<1>5. HeldTasks' = HeldTasks \cup (S \ disturbed)
    BY <1>1, <1>3 DEF HeldTasks
<1>6. Lifecycle!Lease(S)
    BY <1>1, <1>4, <1>5 DEF Lifecycle!Lease, Lifecycle!Move, Lifecycle!Leasable, LEASABLE, HeldTasks
<1> QED BY <1>6 DEF Lifecycle!Next

LEMMA CompensateRefines ==
    ASSUME TypeOK, Cores, Compensate, UNCHANGED workerVars
    PROVE  Lifecycle!Next
<1> DEFINE S == leased \ disturbed
           D == {t \in leased \cap disturbed : status[t] \notin {"unborn", "gone"}}
<1>1. /\ UNCHANGED <<batch, queue, disturbed>>
      /\ leased' = {}
    BY DEF Compensate, ReleaseLease, DispatcherReset, TypeOK, DispatcherTypeOK
<1>2. leased \in SUBSET Tasks /\ status \in [Tasks -> Statuses]
    BY DEF TypeOK, DispatcherTypeOK, RepositoryTypeOK
<1>3. \A t \in S : t \in HeldTasks /\ status[t] = "in_progress"
    BY <1>2, CoreIsExclusive DEF Cores, HeldTasks, Held, InLease
<1>4. status' = [t \in Tasks |-> IF t \in S \cup D THEN "created" ELSE status[t]]
  <2>1. \A t \in Tasks : t \in leased /\ status[t] \in Statuses \ {"unborn", "gone"} <=> t \in S \cup D
      BY <1>2, <1>3 DEF Statuses
  <2> QED BY <2>1 DEF Compensate, ReleaseLease, MoveStatus
<1>5. \A t \in Tasks \ disturbed : Held(t)' <=> Held(t) /\ t \notin S
  <2> SUFFICES ASSUME NEW t \in Tasks \ disturbed PROVE Unheld(t)' <=> Unheld(t) \/ t \in S
      BY HeldIsNotUnheld
  <2>1. t \in S => NotBatched(t) /\ NotQueued(t) /\ NoWorker(t)
      BY DEF Cores, Core, OneHolder
  <2> QED BY <1>1, <2>1 DEF Unheld, NotBatched, NotQueued, NoWorker, workerVars
<1>6. HeldTasks' = HeldTasks \ S
    BY <1>1, <1>5 DEF HeldTasks
<1>7. Lifecycle!Release(S, D)
    BY <1>1, <1>3, <1>4, <1>6 DEF Lifecycle!Release, Lifecycle!Move, HeldTasks
<1>8. S \in SUBSET Tasks /\ D \in SUBSET Tasks
    BY <1>2
<1> QED BY <1>7, <1>8 DEF Lifecycle!Next

\* A worker that holds a task, or has a disturbed one, ends its work on it.
LEMMA HolderGivesUp ==
    ASSUME TypeOK, TypeOK', Cores, NEW w \in Workers, NEW t \in Tasks, t = job[w].id,
           wpc[w] \in Holding \/ t \in disturbed,
           NEW to \in {"completed", "pending", "failed"}, MoveStatus({t}, {"in_progress"}, to),
           wpc'[w] \in Recording, \A v \in Workers \ {w} : wpc'[v] = wpc[v],
           UNCHANGED <<queue, job, disturbed, leased, batch>>
    PROVE  Lifecycle!Next
<1>1. Holding \cap Recording = {}
    BY DEF Holding, Recording
<1>2. \A s \in Tasks : s # t => (Held(s)' <=> Held(s))
  <2> SUFFICES ASSUME NEW s \in Tasks, s # t PROVE Unheld(s)' <=> Unheld(s)
      BY HeldIsNotUnheld
  <2> QED BY DEF Unheld, NotBatched, NotQueued, NoWorker
<1>3. CASE t \in disturbed /\ status[t] = "in_progress"
  <2>1. HeldTasks' = HeldTasks
      BY <1>2, <1>3 DEF HeldTasks
  <2>2. Lifecycle!Afterwards(t, to)
      BY <1>3, <2>1 DEF Lifecycle!Afterwards, Lifecycle!Move, MoveStatus, HeldTasks
  <2> QED BY <2>2 DEF Lifecycle!Next
<1>4. CASE t \in disturbed /\ status[t] # "in_progress"
  <2>1. UNCHANGED status
      BY <1>4 DEF MoveStatus, TypeOK, RepositoryTypeOK
  <2> QED BY <1>2, <1>4, <2>1, DropStep
<1>5. CASE t \notin disturbed
  <2>1. Core(t) /\ ~NoWorker(t)
      BY <1>5 DEF Cores, NoWorker
  <2>2. /\ status[t] = "in_progress" /\ t \notin leased /\ NotBatched(t) /\ NotQueued(t)
        /\ \A v \in Workers \ {w} : wpc[v] \in Holding => job[v].id # t
      BY <1>5, <2>1 DEF Core, OneHolder
  <2>3. ~Unheld(t) /\ Unheld(t)'
      BY <1>1, <2>1, <2>2 DEF Unheld, NotBatched, NotQueued, NoWorker
  <2>4. Held(t) /\ ~Held(t)'
      BY <2>3, HeldIsNotUnheld
  <2>5. t \in HeldTasks /\ HeldTasks' = HeldTasks \ {t}
      BY <1>2, <1>5, <2>4 DEF HeldTasks
  <2>6. Lifecycle!GiveUp(t, to)
      BY <2>2, <2>5 DEF Lifecycle!GiveUp, Lifecycle!Move, MoveStatus, HeldTasks
  <2> QED BY <2>6 DEF Lifecycle!Next
<1> QED BY <1>3, <1>4, <1>5

LEMMA MarkStatusRefines ==
    ASSUME TypeOK, TypeOK', Cores, NEW w \in Workers,
           MarkDoneStatus(w) \/ MarkRetryStatus(w) \/ MarkFailStatus(w),
           UNCHANGED dispatcherVars
    PROVE  Lifecycle!Next
<1> USE DEF MarkDoneStatus, MarkRetryStatus, MarkFailStatus, CompleteStatus, RetryStatus, FailStatus
<1>1. job[w].id \in Tasks /\ wpc[w] \in Holding
    BY DEF Goto, Holding, TypeOK, WorkerTypeOK, Dto
<1>2. PICK to \in {"completed", "pending", "failed"} : MoveStatus({job[w].id}, {"in_progress"}, to)
    OBVIOUS
<1>3. UNCHANGED <<queue, job, disturbed, leased, batch>>
    BY DEF dispatcherVars
<1>4. wpc'[w] \in Recording /\ \A v \in Workers \ {w} : wpc'[v] = wpc[v]
    BY DEF Goto, Recording, TypeOK, WorkerTypeOK
<1> QED BY <1>1, <1>2, <1>3, <1>4, HolderGivesUp

\* Whoever intervenes disturbs the tasks whose status it moves, or inserts one.
LEMMA InterventionRefines ==
    ASSUME TypeOK, UNCHANGED <<queue, dispatcherVars, workerVars>>,
           \/ ReleaseExpired
           \/ \E t \in Tasks : RequeueTask(t) \/ DeleteTask(t)
    PROVE  Lifecycle!Next
<1>1. PICK S \in SUBSET Tasks, to \in {"pending", "created", "gone"} :
          /\ disturbed' = disturbed \cup S
          /\ status' = [t \in Tasks |->
                IF t \in S /\ \/ status[t] = "in_progress" /\ to = "pending"
                              \/ status[t] \in TERMINAL /\ to = "created"
                              \/ status[t] # "unborn" /\ to = "gone"
                THEN to ELSE status[t]]
  <2>1. CASE ReleaseExpired
    <3> DEFINE S == {t \in stale : status[t] = "in_progress"}
    <3>1. S \in SUBSET Tasks /\ disturbed' = disturbed \cup S
        BY <2>1 DEF ReleaseExpired, ReclaimStatus, Disturb, TypeOK, WatchdogTypeOK
    <3>2. status' = [t \in Tasks |-> IF t \in S THEN "pending" ELSE status[t]]
        BY <2>1 DEF ReleaseExpired, ReclaimStatus, MoveStatus
    <3>3. status' = [t \in Tasks |->
                IF t \in S /\ \/ status[t] = "in_progress" /\ "pending" = "pending"
                              \/ status[t] \in TERMINAL /\ "pending" = "created"
                              \/ status[t] # "unborn" /\ "pending" = "gone"
                THEN "pending" ELSE status[t]]
        BY <3>2
    <3> QED BY <3>1, <3>3
  <2>2. CASE \E t \in Tasks : RequeueTask(t)
    <3>1. PICK s \in Tasks : RequeueTask(s)
        BY <2>2
    <3>2. /\ disturbed' = disturbed \cup {s}
          /\ status' = [t \in Tasks |->
                IF t \in {s} /\ \/ status[t] = "in_progress" /\ "created" = "pending"
                                \/ status[t] \in TERMINAL /\ "created" = "created"
                                \/ status[t] # "unborn" /\ "created" = "gone"
                THEN "created" ELSE status[t]]
        BY <3>1 DEF RequeueTask, RequeueStatus, Disturb, MoveStatus
    <3> QED BY <3>2
  <2>3. CASE \E t \in Tasks : DeleteTask(t)
    <3>1. PICK s \in Tasks : DeleteTask(s)
        BY <2>3
    <3>2. \A t \in Tasks : status[t] \in Statuses \ {"unborn"} <=> status[t] # "unborn"
        BY DEF TypeOK, RepositoryTypeOK
    <3>3. /\ disturbed' = disturbed \cup {s}
          /\ status' = [t \in Tasks |->
                IF t \in {s} /\ \/ status[t] = "in_progress" /\ "gone" = "pending"
                                \/ status[t] \in TERMINAL /\ "gone" = "created"
                                \/ status[t] # "unborn" /\ "gone" = "gone"
                THEN "gone" ELSE status[t]]
        BY <3>1, <3>2 DEF DeleteTask, DeleteTaskRow, Disturb, MoveStatus
    <3> QED BY <3>3
  <2> QED BY <2>1, <2>2, <2>3
<1>2. HeldTasks' = HeldTasks \ S
    BY <1>1, SameHolders DEF HeldTasks
<1>3. Lifecycle!Intervene(S, to)
    BY <1>1, <1>2 DEF Lifecycle!Intervene, Lifecycle!Terminal, TERMINAL, HeldTasks
<1> QED BY <1>3 DEF Lifecycle!Next

LEMMA InsertRefines ==
    ASSUME TypeOK, UNCHANGED <<queue, dispatcherVars, workerVars>>,
           NEW t \in Tasks, NEW isDue \in BOOLEAN, InsertTask(t, isDue)
    PROVE  Lifecycle!Next
<1>1. status[t] = "unborn" /\ disturbed' = disturbed
    BY DEF InsertTask
<1>2. status' = [s \in Tasks |-> IF s \in {t} THEN "created" ELSE status[s]]
    BY DEF InsertTask, TypeOK, RepositoryTypeOK
<1>3. HeldTasks' = HeldTasks
    BY <1>1, SameHolders DEF HeldTasks
<1>4. Lifecycle!Insert(t)
    BY <1>1, <1>2, <1>3 DEF Lifecycle!Insert, Lifecycle!Move, HeldTasks
<1> QED BY <1>4 DEF Lifecycle!Next

-----------------------------------------------------------------------------
LEMMA RefinedStep ==
    ASSUME TypeOK, Cores, [Next]_vars
    PROVE  [Lifecycle!Next]_(Lifecycle!vars)
<1>0. TypeOK' /\ disturbed \subseteq disturbed'
    BY TypeStep, DisturbedGrows
<1>1. CASE UNCHANGED vars
  <2>1. \A t \in Tasks : Held(t)' <=> Held(t)
      BY <1>1, SameHolders DEF vars
  <2> QED BY <1>1, <2>1, RefinedVars DEF vars, dbVars, HeldTasks
<1>2. CASE /\ DispatcherStep \/ DispatcherFault
           /\ UNCHANGED <<workerVars, adminVars>>
    BY <1>0, <1>2, LeaseRefines, CompensateRefines, DispatcherMoves, DropStep DEF DispatcherStep
<1>3. ASSUME NEW w \in Workers, WorkerStep(w) \/ WorkerFault(w), UNCHANGED dispatcherVars
      PROVE  Lifecycle!Next
    BY <1>0, <1>3, MarkStatusRefines, WorkerMoves, DropStep DEF WorkerStep
<1>4. ASSUME UNCHANGED <<queue, dispatcherVars, workerVars>>, UNCHANGED status
      PROVE  Lifecycle!Next
    BY <1>0, <1>4, SameHolders, DropStep
<1>5. CASE /\ WatchdogStep \/ WatchdogFault
           /\ UNCHANGED <<queue, dispatcherVars, workerVars>>
  <2>1. SelectExpired \/ ClearExpired \/ WatchdogFault => UNCHANGED status
      BY DEF SelectExpired, ClearExpired, WatchdogFault, ReclaimRuntime, dbVars
  <2> QED BY <1>4, <1>5, <2>1, InterventionRefines DEF WatchdogStep
<1>6. CASE /\ AdminStep \/ AdminFault \/ \E t \in Tasks : AdminRequest(t)
           /\ UNCHANGED <<queue, dispatcherVars, workerVars>>
  <2>1. AdminStep \/ AdminFault => UNCHANGED status
      BY DEF AdminStep, AdminFault, CreateRow, InsertRow, CreateConflict, RequeueRow,
             RequeueRuntime, DeleteRuntimeRow, DeleteRow, dbVars
  <2> QED BY <1>4, <1>6, <2>1, InterventionRefines, InsertRefines DEF AdminRequest, CreateTask
<1>7. CASE \E t \in Tasks : ExternalInsert(t) \/ TimePasses(t)
  <2>1. ASSUME NEW t \in Tasks, TimePasses(t) PROVE Lifecycle!Next
      BY <1>4, <2>1 DEF TimePasses, BecomeDue, Expire
  <2> QED BY <1>7, <2>1, InsertRefines DEF ExternalInsert
<1>8. CASE Crash
  <2>1. UNCHANGED status /\ \A t \in Tasks : Unheld(t)'
      BY <1>8 DEF Crash, DispatcherReset, Unheld, NotBatched, NotQueued, NoWorker, Holding
  <2>2. \A t \in Tasks : ~Held(t)'
      BY <2>1, HeldIsNotUnheld
  <2> QED BY <1>0, <2>1, <2>2, DropStep
<1> QED
    BY <1>1, <1>2, <1>3, <1>5, <1>6, <1>7, <1>8
    DEF Next, DispatcherRuns, WorkerRuns, WatchdogRuns, AdminRuns, AdminRequests, Fault,
        DispatcherFails, WorkerFails, WatchdogFails, AdminFails

\* The service keeps the promise of TaskLifecycle, whatever its size and however often
\* it crashes: a task nobody intervened in is leased to one holder at a time, only its
\* holder moves it on, and a finished task stays finished.
THEOREM ServiceRefinesLifecycle == Spec => LifecycleSpec
<1>1. Init => Lifecycle!Init
    BY RefinedInit
<1>2. TypeOK /\ LeaseInv /\ [Next]_vars => [Lifecycle!Next]_(Lifecycle!vars)
    BY RefinedStep DEF LeaseInv
<1> QED BY <1>1, <1>2, LeaseInvariant, PTL DEF Spec, LifecycleSpec, Lifecycle!Spec
=============================================================================
