# A verification project for agent-clicker

agent-clicker executes browser tasks. An external system inserts rows into a
table `tasks`; the service leases them, runs a browser agent on each, and writes
the outcome back. Its own state of a task (attempts, lock, result) is a row of
`task_runtime` in a second database. No transaction spans the two, there is no
lease token, and everything else lives in the memory of one asyncio process.
This directory models that: TLA+ modules, TLC configurations that check them on
small instances, and proofs checked by TLAPS for every instance.

## The system

| Part | State | Operations | Talks to |
|---|---|---|---|
| `db/repository.py` `TaskRepository` | `tasks` (external), `task_runtime` (internal) | lease_batch, mark_done, mark_failed, mark_ignored, reclaim_expired, create_task, delete_task, requeue | both databases, two to four transactions per call |
| `queue/dispatcher.py` `Dispatcher` | the batch it leased | loop: free places, lease, put | repository, queue, settings |
| task queue (`main.py`) | bounded `asyncio.Queue` of DTOs | put, get, join | dispatcher, workers, pool |
| `workers/worker.py` `Worker` | the DTO it works on | take, run, record; error path; cancellation | queue, repository, proxies, runner |
| `workers/pool.py`, `lifecycle.py`, `main.py` | the running tasks | start in order, drain, cancel, stop in reverse | all of the above |
| `queue/watchdog.py` `Watchdog` | -- | loop: reclaim_expired | repository |
| `admin/routers/tasks.py` | -- | create, retry, delete, list | repository |
| `settings_store.py`, settings API | TTL cache, lock | get, update, invalidate, bootstrap | internal database, every loop reads it |
| `observability/broadcaster.py`, `logs_ws.py` | ring buffer, queues of subscribers | publish, snapshot, subscribe | every logger, websockets |
| `proxy/pool.py`, proxy repositories and routes | the entries of the pool; `task_proxies`, `ad_proxy_configs` | acquire, release; get, upsert, delete | worker, admin |
| `browser/runner.py` | -- | one run under a hard timeout, then the closing of the browser | browser-use, LLM |
| `browser/cookies.py` | -- | a header or a list of dicts into browser cookies | admin (create) |
| `profiles/` | the catalog | a random browser profile for a run | worker |
| `llm/factory.py` | -- | one call of the language model: what its answer is | browser-use |
| `observability/artifacts.py` | files by task | create, list, clean up | worker, admin |
| `config.py`, `db/engine.py`, migrations, schemas, logging | -- | wiring | -- |

Hard to test: every `await` lets every other actor run, so each of the two to
four transactions of a repository call is a step of its own; the second of them
may fail, or the process may die before it; a worker whose lease was reclaimed
keeps running, and nothing in its writes tells it from the next holder; the
watchdog and the admin act by ids they read earlier. `PROJECT.json` lists the
hazards with their lines and the properties about each.

What makes the parts correct:
- *repository, dispatcher, worker, watchdog*: a task has one holder of its lease;
  a finished task stays finished; attempts are bounded; a completed task has its
  result; every task finishes.
- *queue*: what is leased fits.
- *settings*: what is served is complete for the running release; what a reader sees
  never goes back; every call returns.
- *proxies*: a run goes through the proxy configured for its task, else for its ad,
  else one of the pool.
- *log stream*: a subscriber misses nothing silently.
- *shutdown*: what is not finished is released.
- *lease clock*: the time a lease is held is bounded.
- *cookies, profiles*: what an operator pasted is what every attempt gets, with one
  user agent.
- *language model*: an object it wrote is found, and nothing else passes for one.

## Modules

| Module | Models | Code |
|---|---|---|
| `TaskRepository` | both databases; one operator per transaction of the repository | `db/repository.py`, `domain/task.py`, `db/models.py` |
| `TaskQueue` | the queue and its bound | `main.py:117` |
| `Dispatcher` | the loop, with lease_batch step by step, its failures and its compensation | `queue/dispatcher.py`, `db/repository.py` |
| `Worker` | take, run, record, and the error path | `workers/worker.py` |
| `Watchdog` | the three transactions of reclaim_expired | `queue/watchdog.py` |
| `Admin` | create, retry, delete | `admin/routers/tasks.py` |
| `AgentClicker` | all of them together, with faults, kills and the external inserter; the properties | `main.py` |
| `TaskLifecycle` | abstract: what the service promises about a task | -- |
| `MCAgentClicker` | bounds, symmetry and fairness for TLC | -- |
| `DocumentedClaims` | what the documents say of a task and the code does not do | `docs/`, `.kilo/rules/` |
| `Shutdown`, `MCShutdown` | `AgentClicker` with the orderly stop and the next start | `lifecycle.py`, `workers/pool.py`, `main.py` |
| `SettingsStore`, `MCSettingsStore` | the dynamic settings: bootstrap and restart, gets, fills, updates | `settings_store.py`, `admin/routers/settings.py`, `main.py` |
| `LogStream`, `MCLogStream` | ring buffer, subscriber queues, the handlers of the websockets | `observability/broadcaster.py`, `admin/routers/logs_ws.py` |
| `LeaseClock` | the age of a lease from the lease to the closing of the browser | `browser/runner.py`, `main.py` |
| `ProxyPool`, `MCProxyPool` | the search for the proxy of a run, the tables it reads, the creation of a task with a proxy | `workers/worker.py`, `proxy/pool.py`, `db/repository.py`, `admin/routers/` |
| `Cookies`, `Profiles` | operators: the two cookie formats; what a profile may be | `browser/cookies.py`, `profiles/` |
| `TaskSession` | the cookies of one task, from the pasted text to the profiles of its attempts | `admin/routers/tasks.py`, `db/repository.py`, `workers/worker.py` |
| `LlmAnswer` | an answer of the language model and what the caller gets | `llm/factory.py` |
| `MCConversions` | the last two on a small instance | -- |
| `AgentClickerProofs`, `LeaseProofs`, `ShutdownProofs`, `SettingsProofs`, `LeaseClockProofs`, `ProxyProofs`, `LogStreamProofs`, `ConversionProofs` | theorems | -- |

`Dispatcher`, `Worker`, `Watchdog` and `Admin` all extend `TaskRepository` (the
first two also `TaskQueue`); `AgentClicker` composes them, `Shutdown` extends
`AgentClicker`; `TaskSession` extends `Cookies` and `Profiles`. The others stand
alone. Of the core `ProxyPool` needs only that
a task that exists can be taken, and taken again, and `TaskSession` that it can be
leased between the two transactions of its creation; nothing but constants crosses
the borders of the others.

### The core

State. `status` and `due` are the columns `tasks.status` and "`exec_time` is null
or has passed"; `rows` the tasks with a row in `task_runtime`, `runtime` its
columns attempts, max_attempts, result (present or not) and `locked_at`, the last
as "none", "fresh" or "stale" (older than the lease timeout). `worker_id` is the
same constant for every lease and is left out. `dpc`, `wpc`, `gpc` and `apc` say
between which two awaits an actor is; `leased`, `seen`, `batch`, `job`, `stale`,
`target` are its local variables. `disturbed` is history: the tasks in whose
lease somebody other than its holder has intervened (the watchdog, an admin's
retry or delete), or whose record of an outcome stopped half way. Nothing reads
it; the lease properties are stated for the tasks outside it, because for the
others the code promises nothing -- which the refuted claims show.

Steps. An action is what happens between two awaits that matter: one
transaction, one put, one get. The guards are the `WHERE` clauses and early
returns. A call is a sequence of actions, and its local variables carry what it
read. The update of `lease_batch` is two actions, since it reads `attempts` and
writes `attempts + 1` at the flush. An insert that meets a row inserted
meanwhile fails (primary key), and so leads to the compensation.

Abstractions. Which leasable rows a batch takes is left open, as is the order within
it: `Batches` is every set of at most so many of them, since `SKIP LOCKED` leaves out
whatever another transaction has locked at that moment. Time passes when it likes: `BecomeDue`,
`Expire`. A run of the browser is one state that ends with success, failure or
an exception. Reads that change nothing (`list_tasks`, `get_task`) are left out,
and so is `mark_ignored`, which nothing calls. A transaction fails before it
commits; one whose commit is lost on the way back is not modelled.

The limit of attempts is the task's `max_attempts`, or, if that is 0, the setting at the
moment of the failure (`Limits`). The setting may change at run time, and neither the
settings nor the requests validate it: `MaxAttemptsSettings` and `CustomMaxAttempts` are
sets of any integers. `RetryOrFail` is the set of decisions the worker may come to.

The backoff (`Delay`) matters in one way only: it doubles with every attempt, neither
it nor `max_attempts` has a limit, and beyond `LongestDelay` the date of the retry
cannot be represented. Then `_retry_or_fail` raises before it writes anything
(`BackoffOverflows`), and so does its second call from the handler of that error: the
worker drops a task that is in progress, and only the watchdog gets it back.

### The stop

`phase` is where `Lifespan.__aexit__` is: "serving", "drain" (`WorkerPool.stop`
waits for the queue), "cancel" (its workers have been cancelled and are awaited),
"watchdog" and "dispatcher" (these are stopped next), "exit" (`run` has returned),
"off". The order is the reverse of the starts in main.py. Dispatcher and watchdog keep
running until their turn comes, so the dispatcher leases while the pool drains. The
drain may end at any moment, because its timeout may. `cancelled` is how far each worker
is with its `CancelledError`: a worker in the body of `_handle` records a failure to be
retried at once, one that handles an exception already, or waits for a task, just
ends. Dispatcher and watchdog are cancelled between any two of their steps and
compensate nothing.

Stopping the pool may fail before anything is cancelled (`PoolFails`): `get_worker`
raises at pool.py:41, or Lifespan's timeout, which is that of the start plus 30 seconds,
cancels the join whose own timeout has been raised since. `Lifespan` logs that and
stops the watchdog and the dispatcher; the workers run on, taking what is queued, until
`asyncio.run` cancels what is left (`CancelRemaining`). The process ends
(`ProcessEnds`) when all workers have, and `Boot` starts again with empty memory. It
may also be killed in any phase (`Killed`), and any transaction may fail in any phase
(`LoopsFail`).
`stops` is history: how many stops there have been, for `AttemptsPerStop`.

### Settings

A row of the table is its version, the number of updates committed before it, and the
fields it has; a release is the set of fields it knows. `todo` and `current` are
where bootstrap is: which settings it has not ensured, and what it has read of one
of them. Its read and its upsert are two transactions, between which the process may
be restarted (`Restart`), as the same release or another. Afterwards `pc` is where
each call is: waiting for the lock, filling, storing, or, for an update, about to
invalidate. An update writes the fields of its release only, so an older release
drops what a newer one has added, and the newer one's next bootstrap puts it back.
`last` (what the last get returned) is history. `Age` lets the time to live of an
entry pass at any time. A fill may fail in the database or in validation.

### Log stream

A record is its number. Per client: its queue (`inbox`), the part of the snapshot
not sent yet, what it was sent (history), and whether the browser is still there,
which the handler learns only from a failing send. `publish_nowait` is one step:
it does not await. The filters of a client are left out; they act per record.

### Lease clock

Ages in time units; only waiting, running and closing take time. A run is bounded by
`wait_for`; the closing of the browser in its `finally` is awaited with no timeout, and
takes `CloseTime` at most, a constant about the browser and not about the code.
`Tick` is possible while no worker has reached the end of either and no idle worker
has a task waiting. The
age of a lease is bounded by construction of the program, not by a constraint on
the model, so the state space is finite without a bound.

### Proxies

`wpc` is the level a worker reads next: "task", "ad", "pool", then "run". `cpc` is
where the request that creates each task is: its runtime row not yet inserted, or
its proxy not yet stored; `wanted` is that proxy. The row meets the primary key once
a worker has taken the task (`ran`), since the dispatcher has inserted it then. `seen`
is history: per worker the configurations that were in force at some moment of its
search. A task has an ad, or none, or the ad with the number 0 (`ZeroAd`), whose
configuration is never read (`AdChoice`). The entries of the pool are equal and never rest:
`release` only does anything for a proxy that is given and unhealthy, and nobody
calls it so. A row of `task_proxies` stays when its task is deleted, and identifiers
are not used again, so deletion is left out.

### Cookies and profiles

A text is a sequence of characters, and `ParseHeader` what the code makes of it: cut
at separators and line breaks, strip, cut at the first "=", drop what has no name. A
part is known by where it ends, and `InOrder` is the order of the loop over the parts.
The text is pasted piece by piece, and `meant` remembers the cookies that were meant;
`SessionAssumption` says what a piece may be: a name has no "=", neither a name nor a
value has blanks around it, and what is no cookie has no name before its first "=".
A host is a sequence of labels; the leading dot of a domain is left out, and so is
the URL around the host. Then the request parses, inserts the task, and inserts its row
in another transaction. Between the two the dispatcher may lease the task (`Lease`),
which writes a row without cookies: the request then fails on the primary key and
answers with an error, while the task stays and runs without its session. Each
attempt builds its profile from the row: `Specs` is the set of all that
`random.choice` can yield. The proxy of an attempt matters by its country only.

### Answers of the language model

An answer is a sequence of lines, written one at a time by a model that may spoil it
at any point. The regular expression of llm/factory.py is `StripFence`: it says which
lines of the answer the group is, the greedy blank lines and the first closing fence
included. `Valid` stands for the parser: the two lines of one object, and blank ones.

## Runs

The runs of `AgentClicker` and `Shutdown` bound what comes from outside with a
budget (`MaxFaults`; `MaxCrashes`; `MaxExpiries`: leases that expire while
somebody works on the task; `MaxRequests`: admin requests, one at a time;
`MaxStops`; `MaxMishaps`: faults and kills together). A lease nobody attends to expires without cost, so the watchdog
always gets its turn. Attempts need no bound of their own: every lease beyond
`max_attempts` takes an expiry, a stop or a request. `MaxUpdates` and `MaxRecords`
bound the versions of a setting and the records, `MaxSeparators`, `MaxAttempts` and
`MaxLines` the text, the attempts and the answer of the conversions.

| Run | Instance | Shows |
|---|---|---|
| `core_one_task` | 1 task, 2 workers, queue of 2, limits of 0, 1 and 2 attempts, 1 fault, 1 expiry, 1 request | `TypeOK`, `ExclusiveLease`, `AttemptsBounded`, `ResultRecorded`, `TerminalStays` |
| `core_batch` | 2 tasks, 2 workers, queue of 2, 1 expiry | `QueueFits`; `LifecycleSpec`: the composition implements `TaskLifecycle` |
| `core_live` | 1 task, 2 workers, queue of 1, 3 attempts of which the second overflows, 1 fault, 1 kill, 1 expiry | `Progress` |
| `core_finish` | 1 task, 2 workers, unbounded queue, 1 expiry, 1 request | `EveryTaskFinishes` |
| `shutdown` | 1 task, 1 worker, queue of 1, limits of 0 and 1 attempts, 2 stops, 1 fault or kill, 1 request | `ShutdownTypeOK`; `ExclusiveLease` and `ResultRecorded` through stops; `AttemptsPerStop`; `LifecycleSpec`, by what the stop does too; `ProgressThroughStops` |
| `settings` | 2 settings, 2 calls, 2 updates of each, an old and a new release | `OneFill`, `Bootstrapped`, `MonotonicReads`, `EveryCallReturns` |
| `log_stream` | 2 clients, buffer and queues of 2, 4 records | `InOrder`, `Complete`, `Delivered` |
| `lease_clock` | 3 workers, hard timeout of 2 units, closing of 1 | `AgeBounded` |
| `proxy` | 1 task, 2 ads, one of them the number 0, 1 worker, 2 proxies | `Precedence` |
| `conversions` | texts of up to 3 pieces, 2 attempts, answers of up to 7 lines | `HeaderUnderstood`, `FormatsAgree`, `SessionKept`, `AnswerRecovered` |

Why these bounds. A second holder of a task needs two workers; a batch with a
conflict in one of its tasks needs two tasks; two tasks and a queue of two fill
it; settings of 0 and 2 attempts with a custom limit of one take every branch of
`_retry_or_fail`, the fallback to the setting included; the unbounded queue takes the other branch of `free`
(dispatcher.py:50). In `shutdown` one worker can be cancelled at each of its
points while the dispatcher is at each of its own, and the second stop meets a
task the first one has left behind. A failing transaction or a kill, one of the two, is
what its state space leaves room for; both together are in `core_live`. Two calls are what a fill races with, two
updates what puts an older and a newer version in flight beside the first. With
queues of two and four records a client overflows with one record to spare, and
the buffer drops. Three workers give a queue three places deep. Two proxies tell
the proxy of a task from that of its ad; the state space of `ProxyPool` is finite as it
is, and since the searches of two workers do not touch each other, one is enough beside
the requests. Three pieces of text put junk before, between and after two cookies;
the names, values and blanks hold a name of two characters, an empty value, one with
"=" and one with a blank inside. Seven lines hold a fence, a blank line, the object,
the closing fence and what a greedy match would take for another one. The catalog of
the instance has its pinned entry in the middle, and another that could be taken for
it.

What the less obvious properties say:
- `AttemptsBounded`: `Allowed(max, n)` says that a task may be leased `n` times: the
  first lease asks for no limit, each other one is within a limit that was in force,
  which a limit of 0 takes from the settings.
- `ShutdownTypeOK` says more than types: the workers are cancelled together or not at
  all, the orderly way leaves none running when the watchdog is stopped, and the process
  ends with all of them ended and the dispatcher at rest.
- `AttemptsPerStop`: `mark_failed` of a cancelled worker carries a `retry_at`
  whatever the attempts are, so a stop may cost one attempt above the limit,
  and never more.
- `MonotonicReads`: although a fill may store a value older than an update that
  has returned, no reader sees a version older than a reader before it did.
- `Complete`: a client loses nothing between its subscription and its removal.
- `AgeBounded`: a task waits at most one longest run and takes at most another, where
  a longest run is a hard timeout and the closing of a browser.
- `Bootstrapped`: a start of one release may have been interrupted at any point, and
  others may have written the rows; whoever serves has all its fields.
- `SessionKept`: once a request has been acknowledged, every attempt has its cookies,
  and those with cookies one user agent. The attempts made before it was acknowledged
  are included: if there were any, it fails instead.
- `AnswerRecovered`: in both directions; what is dropped after a closed fence is never
  part of the object.

### Fairness

`MCFairness` of `MCAgentClicker`: weak fairness of each actor and of time, and strong
fairness of leasing a task: it is the row that is skipped while another transaction has
it locked, and such a transaction is short, so a task that is leasable at every poll is
not skipped at every one. The
loops of the dispatcher, the watchdog and the workers run until the process stops
and catch every exception; a run of the browser ends because runner.py:129-138
bounds it with `wait_for`, provided the browser it then closes does close: that has
no timeout. Nothing forces an insert, a request, a fault or a
kill. `Progress` is stated up to orphans (`Orphan`: in progress, held by nobody,
without a lock), because a kill makes them; `EveryTaskFinishes` is without that
exception and without faults, kills and overflows of the backoff (a requeue clears the
lock of a running task, and if its worker then overflows nobody finds it again).
`MCShutdown` adds that a stop once
requested is carried through (each of its steps has a timeout or is a
cancellation; a pool whose stop fails counts as one way on) and that the service is started again.

`SettingsStore`: strong fairness of each call, because `asyncio.Lock` hands
itself on in the order of arrival: a waiter finds it free only now and then, but
gets it. `LogStream`: weak fairness of each handler. `log_stream` and its
instance may stop: all records are published and all sent
(`CHECK_DEADLOCK FALSE`).

### What the documents say and the code does not do

| Run | Claim | What happens |
|---|---|---|
| `claim_stuck` | stuck tasks are restarted by the watchdog (service-overview.md:108) | a kill between the two transactions of `lease_batch` leaves `in_progress` without `locked_at`: never found |
| `claim_conditional` | every change of a status is conditional (arch-00:33) | a lease is reclaimed while its holder runs, `lease_batch` leases the task again, the earlier holder completes it, and the internal transaction of `lease_batch` fails: its compensation has no condition and takes the completed task back to created |

Other disagreements, which the actions of the modules show but no run is devoted
to: a fill that read before an update stores the old value after the update's
`invalidate()`, so the lag is not zero (arch-00:189, `StoreInCache`); the proxy of a new task is stored two transactions
after the task can be leased, so its first attempt may go another way (arch-04:27,
`StoreProxy`); the default of `sameSite` is "None" where a test expects "Lax"
(tests/unit/test_cookies.py:64, `Normalize`); the exponent of the backoff is the
attempts less one, as arch-08:43 says and component-02-lifecycle:32 does not
(`Delay`); the hard timeout
counts from the start of the run and the lease from before the queue, so a lease
may end while its holder runs (arch-00:199, `Tick`); a reclaimed task is leased again whatever its attempts (service-overview.md:107,
`ReclaimStatus`); a retry resets the attempts and the lock of a running task
(arch-03:38, `RequeueRuntime`); a result is stored whatever the status (arch-03:30,
`CompleteRuntime`); the dispatcher goes on leasing while the pool drains (arch-00:31,
`Loops`); a worker cancelled while it handles an exception leaves its task in
progress (arch-00:198, `CancelAll`); records published while the snapshot is
being sent reach the client neither way (arch-10:38, `Subscribe`); on overflow the
newest record and the subscription are dropped, not the oldest record, and the
websocket stays open (arch-00:175, arch-10:39, `Publish`). (arch-NN:
`.kilo/rules/component-arch-NN-*.instructions.md`.)

## Proofs

For all finite sets of tasks, all sets of workers and all bounds of the queue
(`RepositoryAssumption`, `QueueAssumption`; nothing is assumed of `max_attempts` but
that it is an integer), without any of the budgets:

- `TypeCorrect`: `Spec => []TypeOK`. One lemma per component, used by all others.
- `QueueAlwaysFits`: `Spec => []QueueFits`. Inductive as it stands once the
  cardinalities are known to be of finite sets: the places counted by `Free`
  stay free, since only the dispatcher puts.
- `LeaseInvariant`, with `LeaseIsExclusive`, `AttemptsAreBounded`,
  `ResultsAreRecorded` as consequences: none of these three is inductive. Whether
  a step keeps the lease exclusive depends on where the lease is, what the DTO
  says of the attempts, and what the row says. `LeaseInv` relates the places
  (`leased`, `batch`, `queue`, `job`) pairwise, says that a task in one of
  them is in progress while it is undisturbed, that the attempts of its DTO are
  those of its row, and what is true of the row at each point of the recording. A
  kill empties all places, so the invariant holds of the restarted process. It is
  proved for one task at a time and in two parts: `Core` is all but the attempts,
  `Attempts(t, extra)` says that they less `extra` are allowed; every step keeps the
  first, and the second for whatever `extra` (`TaskStep`).
- `TerminalStatusStays`: the action property, from the same invariant (the
  compensation may hit a terminal task only if it is disturbed).
- `ServiceRefinesLifecycle`: `Spec => LifecycleSpec`. The held tasks of
  `TaskLifecycle` are those with a holder (`Held`), less the disturbed ones. Every
  step is a `Drop` or a stutter if it leaves the status, and one of `Insert`, `Lease`,
  `Release`, `GiveUp`, `Afterwards`, `Intervene` if it does not. `LeaseInv` is what
  makes a leased task one without a holder, and the end of a lease the end of the
  only one.
- Of the orderly stop (`ShutdownSpec`): `ShutdownInvariant`, with
  `ShutdownTypeCorrect` (`ShutdownTypeOK`), `StopsKeepExclusion` (`ExclusiveLease`),
  `StopsKeepResults` (`ResultRecorded`), `StopsKeepQueueFitting` (`QueueFits`) and
  `StopsCostOneAttempt` (`AttemptsPerStop`).
  Most steps are steps of the service and keep `Core` and the bound by `TaskStep`; the
  row a cancelled worker writes is one of them. `Granted` is the number of stops that
  have cancelled the workers, in the pool or at the exit: `extra` grows with it.
  `Cancelling` says that a cancelled worker that gives back an undisturbed task still
  holds it, `BeforeTheStop` that its DTO has no attempt the stop has only just granted,
  so one is left when the task is pending again. A pool that fails to stop grants
  nothing until the exit cancels its workers.
- `StopsRefineLifecycle` (`ShutdownSpec => LifecycleSpec`) and `StopsKeepTerminal`
  (`TerminalStays`): the stop adds one way in which a holder ends its lease, and the
  late `mark_failed` of a cancelled worker is a `GiveUp` or a `Release` if its task is
  undisturbed, because by `Cancelling` it then still holds it. The refinement needs
  `Core` alone, without the bound on the attempts that a stop raises.

For all sets of settings and calls (`SettingsAssumption`):

- `SettingsInvariant`, with `SettingsTypeCorrect`, `FillsAreExclusive` (`OneFill`),
  `ServedSettingsAreComplete` (`Bootstrapped`) and `ReadsAreMonotonic`
  (`MonotonicReads`). What is ensured stays ensured: only the running release writes,
  and each of its writes has all its fields. That reads do not go back follows from an
  order of versions: what the last reader got is no newer than what a fresh
  entry holds, than what the fill in progress has read, and than what the table
  holds. A fill is of an entry that is not fresh and excludes other fills, so
  storing it keeps the order. The age of an entry never enters: a stale one is not
  returned.

For all finite sets of workers and all timeouts (`ClockAssumption`):

- `LeaseAgeIsBounded` (`AgeBounded`). `AgeBounded` is not inductive: nothing in it
  says why a wait ends. `ClockInv` adds that a lease at place i of the queue has at
  least i workers ahead of it, workers that are idle or have been at work for as
  long as it has been waiting. Taking a task uses up one of them and moves the
  queue up by one place; when a hard timeout and a closing have passed they have all
  ended.
- `HardTimeoutLeavesMargin`: the hard timeout leaves the 30 seconds before the end
  of the lease, counted from the start of the run, when the lease timeout is at
  least twice as long as these. Counted from the lease it may be twice as long
  (`AgeBounded`), and then nothing of the margin is left.

For all sets of tasks, ads (with the number 0 among them or not), workers and proxies
(`ProxyAssumption`):

- `ProxyInvariant`, with `ProxyTypeCorrect` (`ProxyTypeOK`) and `PrecedenceHolds`
  (`Precedence`). What a worker found at a
  level is in its past, so `Precedence` alone is not inductive: `Passed` adds that
  the configurations in force now are among those seen, which makes a read one of
  them, and that each level the worker has passed was seen empty.

For all sets of clients and all sizes of the buffer and the queues
(`StreamAssumption`):

- `StreamInvariant`, with `StreamTypeCorrect`, `RecordsAreInOrder` (`InOrder`) and
  `SubscribersMissNothing` (`Complete`). That what a client was sent is increasing
  says nothing of what it will be sent next. The invariant says it of the whole line:
  what was sent, what is left of the snapshot and what is queued rise, the first below
  the others, and snapshot and queue are never there together; for a subscriber every
  record since its subscription is among those sent or queued.

For texts and answers of any length, all pieces of text that satisfy
`SessionAssumption`, and all catalogs (`ProfileAssumption`):

- `HeadersAreUnderstood` (`HeaderUnderstood`), `FormatsAlwaysAgree` (`FormatsAgree`)
  and `SessionsAreKept` (`SessionKept`), of `SessionSpec`. The invariant says that
  the pairs of the pasted text are the cookies meant, then that what is sent is, then
  that the row is. Its one hard step is another piece of text: the parts before it
  stay what they are (`NextPiece`), its own comes last (`InOrderAppends`), and to strip
  a part before it is cut at "=" makes no difference to name and value
  (`PairOfStripped`).
- `AnswersAreRecovered` (`AnswerRecovered`), of `LlmSpec`. `Shape` says where the
  fence, the two lines of the object and the closing fence are, that every other line
  before that is blank, and that a fence in a spoiled answer is the first thing in it.
  Stripping blank lines keeps the shape (`StrippedIsWritten`), and from the shape
  follow which skip the regular expression takes and which closing fence
  (`ObjectCut`).

The prover cannot use the induction theorems of its library, which take an operator.
Where an induction is needed (`InOrderIsSeq`) it is made with a set in place of the
predicate: `ByInduction`, from the well-foundedness of the order of the numbers. The
operators are written without recursion and without operators as arguments for the
same reason.

Only model-checked: the liveness properties (`Progress`, `EveryTaskFinishes`,
`ProgressThroughStops`, `EveryCallReturns`, `Delivered`), which are beyond the prover,
and the claims. Every other property a run checks is a theorem.

## Not modelled, and what is left

- `list_tasks` and `get_task` only read. The pages of a listing are not consistent with
  each other (a hazard of `PROJECT.json`); the code promises nothing about that.
- The texts the agent is given, the result it formats, the construction of the
  clients of the language model, the configuration, request schemas, logging: data
  passed on, with no state two steps share.
- The engines and migrations: connection setup. The primary keys of the schema are in
  the models.
- The artifact store: files of one task under its own directory, which nobody else
  writes; `cleanup_older_than` is called nowhere.
- The front end.
