----------------------------- MODULE ProxyPool -----------------------------
(***************************************************************************)
(* Which proxy a run goes through (workers/worker.py): the one configured  *)
(* for the task, else the one configured for its ad, else one of the pool  *)
(* (proxy/pool.py), else none.  Each level is a read of its own, and the   *)
(* admin API changes the two tables at any time.  A proxy is its server    *)
(* and credentials in one.  Of a task only that it can be leased, again    *)
(* and again, is kept from the rest of the service.                        *)
(*                                                                         *)
(* An entry of the pool never rests: release() acts on a proxy that is     *)
(* given and unhealthy, and the worker calls release(proxy, healthy=True)  *)
(* or, after an exception, release(None, healthy=False).                   *)
(***************************************************************************)

CONSTANTS
    Tasks, Ads, Workers,
    Proxies,  \* what may be configured, or listed in PROXY_LIST
    ZeroAd,   \* the ad whose id is 0: no ad to the worker, one like others to the API
    NoAd, NoTask, NoProxy

ASSUME ProxyAssumption == NoAd \notin Ads /\ NoTask \notin Tasks /\ NoProxy \notin Proxies

VARIABLES
    ad,          \* the ad of each task that has been created
    taskConfig,  \* task_proxies: the proxy of a task
    adConfig,    \* ad_proxy_configs: the proxy of an ad
    entries,     \* the pool
    cpc,         \* where the create request of each task is
    wanted,      \* the proxy that request asks for
    ran,         \* the tasks that have been taken by a worker
    wpc,         \* where each worker is
    job,         \* the task it has taken
    level,       \* where its proxy comes from
    proxy,       \* the proxy
    seen         \* history: what was configured while it was looking for a proxy

tables == <<ad, taskConfig, adConfig, entries>>
requestVars == <<cpc, wanted>>
workerVars == <<ran, wpc, job, level, proxy>>
vars == <<tables, requestVars, workerVars, seen>>

Choice == Proxies \cup {NoProxy}
Nothing == [task |-> {}, ad |-> {}]

ProxyTypeOK ==
    /\ ad \in [Tasks -> Ads \cup {NoAd}]
    /\ taskConfig \in [Tasks -> Choice]
    /\ adConfig \in [Ads -> Choice]
    /\ entries \subseteq Proxies
    /\ cpc \in [Tasks -> {"none", "row", "proxy", "done"}]
    /\ \A t \in Tasks : cpc[t] # "none" => ad[t] # NoAd
    /\ wanted \in [Tasks -> Choice]
    /\ ran \subseteq Tasks
    /\ wpc \in [Workers -> {"idle", "task", "ad", "pool", "run"}]
    /\ job \in [Workers -> Tasks \cup {NoTask}]
    /\ \A w \in Workers : IF wpc[w] = "idle" THEN job[w] = NoTask
                                            ELSE job[w] \in ran /\ ad[job[w]] # NoAd
    /\ level \in [Workers -> {"task", "ad", "pool", "none"}]
    /\ proxy \in [Workers -> Choice]
    /\ \A w \in Workers : wpc[w] # "run" => level[w] = "none" /\ proxy[w] = NoProxy
    /\ seen \in [Workers -> [task : SUBSET Choice, ad : SUBSET Choice]]

\* start() of the pool has parsed PROXY_LIST, whatever it holds.
Init ==
    /\ ad = [t \in Tasks |-> NoAd]
    /\ taskConfig = [t \in Tasks |-> NoProxy]
    /\ adConfig = [a \in Ads |-> NoProxy]
    /\ entries \in SUBSET Proxies
    /\ cpc = [t \in Tasks |-> "none"]
    /\ wanted = [t \in Tasks |-> NoProxy]
    /\ ran = {}
    /\ wpc = [w \in Workers |-> "idle"]
    /\ job = [w \in Workers |-> NoTask]
    /\ level = [w \in Workers |-> "none"]
    /\ proxy = [w \in Workers |-> NoProxy]
    /\ seen = [w \in Workers |-> Nothing]

-----------------------------------------------------------------------------
(* The admin API *)

\* POST /api/tasks: the task can be leased from here on.
CreateTask(t, a, p) ==
    /\ ad[t] = NoAd
    /\ ad' = [ad EXCEPT ![t] = a]
    /\ cpc' = [cpc EXCEPT ![t] = "row"]
    /\ wanted' = [wanted EXCEPT ![t] = p]
    /\ UNCHANGED <<taskConfig, adConfig, entries, workerVars>>

\* Its runtime row, which a task that is running already has.
CreateRow(t) ==
    /\ cpc[t] = "row"
    /\ t \notin ran
    /\ cpc' = [cpc EXCEPT ![t] = IF wanted[t] = NoProxy THEN "done" ELSE "proxy"]
    /\ UNCHANGED <<tables, wanted, workerVars>>

\* The dispatcher has inserted the row, or the transaction fails: the request ends
\* with an error, and the proxy is forgotten.
CreateFails(t) ==
    /\ cpc[t] \in {"row", "proxy"}
    /\ cpc' = [cpc EXCEPT ![t] = "done"]
    /\ UNCHANGED <<tables, wanted, workerVars>>

StoreProxy(t) ==
    /\ cpc[t] = "proxy"
    /\ cpc' = [cpc EXCEPT ![t] = "done"]
    /\ taskConfig' = [taskConfig EXCEPT ![t] = wanted[t]]
    /\ UNCHANGED <<ad, adConfig, entries, wanted, workerVars>>

\* PUT and DELETE /api/task-proxy, whether or not there is such a task.
UpsertTaskProxy(t, p) ==
    /\ taskConfig' = [taskConfig EXCEPT ![t] = p]
    /\ UNCHANGED <<ad, adConfig, entries, cpc, wanted, workerVars>>

DeleteTaskProxy(t) ==
    /\ taskConfig[t] # NoProxy
    /\ taskConfig' = [taskConfig EXCEPT ![t] = NoProxy]
    /\ UNCHANGED <<ad, adConfig, entries, cpc, wanted, workerVars>>

\* PUT and DELETE /api/ad-proxy.
UpsertAdProxy(a, p) ==
    /\ adConfig' = [adConfig EXCEPT ![a] = p]
    /\ UNCHANGED <<ad, taskConfig, entries, requestVars, workerVars>>

DeleteAdProxy(a) ==
    /\ adConfig[a] # NoProxy
    /\ adConfig' = [adConfig EXCEPT ![a] = NoProxy]
    /\ UNCHANGED <<ad, taskConfig, entries, requestVars, workerVars>>

\* The external system inserts tasks too.
ExternalInsert(t, a) ==
    /\ ad[t] = NoAd
    /\ ad' = [ad EXCEPT ![t] = a]
    /\ UNCHANGED <<taskConfig, adConfig, entries, requestVars, workerVars>>

-----------------------------------------------------------------------------
(* The worker *)

Take(w, t) ==
    /\ wpc[w] = "idle"
    /\ ad[t] # NoAd
    /\ wpc' = [wpc EXCEPT ![w] = "task"]
    /\ job' = [job EXCEPT ![w] = t]
    /\ ran' = ran \cup {t}
    /\ UNCHANGED <<tables, requestVars, level, proxy>>

\* The read of one level finds p, which may be no proxy; then the next level follows.
Read(w, here, p, next) ==
    /\ wpc[w] = here
    /\ wpc' = [wpc EXCEPT ![w] = IF p = NoProxy THEN next ELSE "run"]
    /\ level' = [level EXCEPT ![w] = IF p = NoProxy THEN "none" ELSE here]
    /\ proxy' = [proxy EXCEPT ![w] = p]
    /\ UNCHANGED <<tables, requestVars, ran, job>>

\* What is configured for the ad of a task, if the worker looks.
AdChoice(t) == IF ad[t] = ZeroAd THEN NoProxy ELSE adConfig[ad[t]]

\* Mutant: the proxy of the ad takes precedence.
ReadTaskConfig_AdFirst(w) ==
    LET a == AdChoice(job[w])
    IN  Read(w, "task", IF a # NoProxy THEN a ELSE taskConfig[job[w]], "ad")

ReadTaskConfig(w) == Read(w, "task", taskConfig[job[w]], "ad")
ReadAdConfig(w) == Read(w, "ad", AdChoice(job[w]), "pool")

\* acquire(): any entry of the pool.
Acquire(w) == \E p \in IF entries = {} THEN {NoProxy} ELSE entries : Read(w, "pool", p, "run")

\* Mutant: the next run starts with the proxy of this one.
EndRun_KeepsProxy(w) ==
    /\ wpc[w] # "idle"
    /\ wpc' = [wpc EXCEPT ![w] = "idle"]
    /\ job' = [job EXCEPT ![w] = NoTask]
    /\ UNCHANGED <<tables, requestVars, ran, level, proxy>>

\* The run is over, recorded, and its proxy released; or a read has failed.
EndRun(w) ==
    /\ wpc[w] # "idle"
    /\ wpc' = [wpc EXCEPT ![w] = "idle"]
    /\ job' = [job EXCEPT ![w] = NoTask]
    /\ level' = [level EXCEPT ![w] = "none"]
    /\ proxy' = [proxy EXCEPT ![w] = NoProxy]
    /\ UNCHANGED <<tables, requestVars, ran>>

-----------------------------------------------------------------------------
\* History: the configurations there were at each moment from the start of the
\* resolution to its end.
Observe ==
    seen' = [w \in Workers |->
        IF wpc'[w] = "idle" THEN Nothing
        ELSE IF wpc[w] = "run" THEN seen[w]
        ELSE [task |-> seen[w].task \cup {taskConfig'[job'[w]]},
              ad   |-> seen[w].ad \cup {AdChoice(job[w])'}]]

CreateStep(t) == CreateRow(t) \/ CreateFails(t) \/ StoreProxy(t)
WorkerStep(w) == ReadTaskConfig(w) \/ ReadAdConfig(w) \/ Acquire(w) \/ EndRun(w)

Insert(t, a) == ExternalInsert(t, a) \/ \E p \in Choice : CreateTask(t, a, p)
ChangeTask(t) == DeleteTaskProxy(t) \/ \E p \in Proxies : UpsertTaskProxy(t, p)
ChangeAd(a) == DeleteAdProxy(a) \/ \E p \in Proxies : UpsertAdProxy(a, p)

Next ==
    \/ \E t \in Tasks, a \in Ads : Insert(t, a) /\ Observe
    \/ \E t \in Tasks : CreateStep(t) /\ Observe
    \/ \E t \in Tasks : ChangeTask(t) /\ Observe
    \/ \E a \in Ads : ChangeAd(a) /\ Observe
    \/ \E w \in Workers, t \in Tasks : Take(w, t) /\ Observe
    \/ \E w \in Workers : WorkerStep(w) /\ Observe

Spec == Init /\ [][Next]_vars

-----------------------------------------------------------------------------
(* Properties *)

\* The levels in their order: a run goes through a proxy that was configured at its
\* level while the worker was looking for one, and passes over a level only if nothing
\* was configured there at some moment of that time, an ad 0 counting as none.  So what does not change meanwhile
\* is obeyed, however many workers and requests there are; and with a pool a task
\* without a configuration never runs directly.
Precedence ==
    \A w \in Workers : wpc[w] = "run" =>
        /\ level[w] = "task" => proxy[w] \in seen[w].task
        /\ level[w] # "task" => NoProxy \in seen[w].task
        /\ level[w] = "ad" => proxy[w] \in seen[w].ad
        /\ level[w] \in {"pool", "none"} => NoProxy \in seen[w].ad
        /\ level[w] = "pool" => proxy[w] \in entries
        /\ level[w] = "none" => entries = {}
=============================================================================
