---------------------------- MODULE ProxyProofs ----------------------------
(***************************************************************************)
(* Precedence for any tasks, ads, workers and proxies.                     *)
(***************************************************************************)
EXTENDS ProxyPool, TLAPS

\* What Precedence rests on while the proxy is being looked for: the current
\* configuration is among those seen, and each level passed was seen empty.
Passed ==
    \A w \in Workers :
        /\ wpc[w] \in {"task", "ad", "pool"} =>
              taskConfig[job[w]] \in seen[w].task /\ AdChoice(job[w]) \in seen[w].ad
        /\ wpc[w] \in {"ad", "pool"} => NoProxy \in seen[w].task
        /\ wpc[w] = "pool" => NoProxy \in seen[w].ad

ProxyInv == ProxyTypeOK /\ Passed /\ Precedence

LEMMA ProxyInvInit == Init => ProxyInv
BY ProxyAssumption DEF Init, ProxyInv, ProxyTypeOK, Passed, Precedence, Choice, Nothing

\* The types do not depend on the history, nor the history on how a step is taken.
LEMMA SeenType ==
    ASSUME ProxyTypeOK, Observe,
           taskConfig' \in [Tasks -> Choice], adConfig' \in [Ads -> Choice],
           \A w \in Workers : wpc'[w] # "idle" => job'[w] \in Tasks /\ ad'[job'[w]] \in Ads
    PROVE  seen' \in [Workers -> [task : SUBSET Choice, ad : SUBSET Choice]]
<1> SUFFICES ASSUME NEW w \in Workers
             PROVE  (IF wpc'[w] = "idle" THEN Nothing
                     ELSE IF wpc[w] = "run" THEN seen[w]
                     ELSE [task |-> seen[w].task \cup {taskConfig'[job'[w]]},
                           ad   |-> seen[w].ad \cup {AdChoice(job[w])'}])
                    \in [task : SUBSET Choice, ad : SUBSET Choice]
    BY DEF Observe
<1>1. seen[w] \in [task : SUBSET Choice, ad : SUBSET Choice]
    BY DEF ProxyTypeOK
<1>2. CASE wpc'[w] = "idle"
    BY <1>2 DEF Nothing
<1>3. CASE wpc'[w] # "idle" /\ wpc[w] = "run"
    BY <1>1, <1>3
<1>4. CASE wpc'[w] # "idle" /\ wpc[w] # "run"
  <2>1. taskConfig'[job'[w]] \in Choice /\ AdChoice(job[w])' \in Choice
      BY <1>4 DEF AdChoice, Choice
  <2> QED
      BY <1>1, <1>4, <2>1
<1> QED
    BY <1>2, <1>3, <1>4

\* A step that leaves the workers alone, whatever it does to the tables.
LEMMA TablesStep ==
    ASSUME ProxyInv, ProxyTypeOK', Observe,
           UNCHANGED <<workerVars, entries>>,
           \A t \in Tasks : ad[t] # NoAd => ad'[t] = ad[t]
    PROVE  (Passed /\ Precedence)'
<1> SUFFICES ASSUME NEW w \in Workers
             PROVE  /\ wpc[w] \in {"task", "ad", "pool"} =>
                          taskConfig'[job[w]] \in seen'[w].task /\ AdChoice(job[w])' \in seen'[w].ad
                    /\ wpc[w] # "idle" =>
                          seen[w].task \subseteq seen'[w].task /\ seen[w].ad \subseteq seen'[w].ad
    BY DEF ProxyInv, Passed, Precedence, ProxyTypeOK, workerVars, AdChoice
<1>1. seen'[w] = IF wpc[w] = "idle" THEN Nothing
                 ELSE IF wpc[w] = "run" THEN seen[w]
                 ELSE [task |-> seen[w].task \cup {taskConfig'[job[w]]},
                       ad   |-> seen[w].ad \cup {AdChoice(job[w])'}]
    BY DEF Observe, workerVars
<1> QED
    BY <1>1

\* A step of one worker, which leaves the tables alone: what is to be shown is about
\* that worker only.
LEMMA OneWorker ==
    ASSUME ProxyInv, Observe, UNCHANGED <<tables>>, NEW w \in Workers,
           \A v \in Workers \ {w} : /\ wpc'[v] = wpc[v] /\ job'[v] = job[v]
                                    /\ level'[v] = level[v] /\ proxy'[v] = proxy[v],
           wpc'[w] \in {"task", "ad", "pool"} =>
               taskConfig[job'[w]] \in seen'[w].task /\ AdChoice(job[w])' \in seen'[w].ad,
           wpc'[w] \in {"ad", "pool"} => NoProxy \in seen'[w].task,
           wpc'[w] = "pool" => NoProxy \in seen'[w].ad,
           wpc'[w] = "run" =>
               /\ level'[w] = "task" => proxy'[w] \in seen'[w].task
               /\ level'[w] # "task" => NoProxy \in seen'[w].task
               /\ level'[w] = "ad" => proxy'[w] \in seen'[w].ad
               /\ level'[w] \in {"pool", "none"} => NoProxy \in seen'[w].ad
               /\ level'[w] = "pool" => proxy'[w] \in entries
               /\ level'[w] = "none" => entries = {}
    PROVE  (Passed /\ Precedence)'
<1>1. ASSUME NEW v \in Workers \ {w}, wpc[v] # "idle"
      PROVE  /\ seen[v].task \subseteq seen'[v].task /\ seen[v].ad \subseteq seen'[v].ad
             /\ wpc[v] = "run" => seen'[v] = seen[v]
  <2>1. seen'[v] = IF wpc[v] = "run" THEN seen[v]
                   ELSE [task |-> seen[v].task \cup {taskConfig'[job[v]]},
                         ad   |-> seen[v].ad \cup {AdChoice(job[v])'}]
      BY <1>1 DEF Observe
  <2> QED
      BY <2>1
<1>2. ad' = ad /\ taskConfig' = taskConfig /\ adConfig' = adConfig /\ entries' = entries
    BY DEF tables
<1>3. Passed'
    BY <1>1, <1>2 DEF ProxyInv, Passed, AdChoice
<1>4. Precedence'
    BY <1>1, <1>2 DEF ProxyInv, Precedence
<1> QED
    BY <1>3, <1>4

\* The type invariant without the history.
Types ==
    /\ ad \in [Tasks -> Ads \cup {NoAd}]
    /\ taskConfig \in [Tasks -> Choice]
    /\ adConfig \in [Ads -> Choice]
    /\ entries \subseteq Proxies
    /\ cpc \in [Tasks -> {"none", "row", "proxy", "done"}]
    /\ \A t \in Tasks : cpc[t] # "none" => ad[t] # NoAd
    /\ wanted \in [Tasks -> Choice]
    /\ ran \subseteq Tasks
    /\ wpc \in [Workers -> {"idle", "task", "ad", "pool", "run"}]
    /\ job \in [Workers -> Tasks \cup {NoTask}]
    /\ \A w \in Workers : IF wpc[w] = "idle" THEN job[w] = NoTask
                                            ELSE job[w] \in ran /\ ad[job[w]] # NoAd
    /\ level \in [Workers -> {"task", "ad", "pool", "none"}]
    /\ proxy \in [Workers -> Choice]
    /\ \A w \in Workers : wpc[w] # "run" => level[w] = "none" /\ proxy[w] = NoProxy

LEMMA TypesSuffice ==
    ASSUME ProxyTypeOK, Observe, Types' PROVE ProxyTypeOK'
<1>1. \A w \in Workers : wpc'[w] # "idle" => job'[w] \in Tasks /\ ad'[job'[w]] \in Ads
    BY DEF Types
<1>2. seen' \in [Workers -> [task : SUBSET Choice, ad : SUBSET Choice]]
    BY <1>1, SeenType DEF Types
<1> QED
    BY <1>2 DEF Types, ProxyTypeOK

LEMMA TypesStep ==
    ASSUME ProxyTypeOK, Next PROVE Types'
<1> USE ProxyAssumption DEF ProxyTypeOK, Types, Choice, tables, requestVars, workerVars
<1>1. ASSUME NEW t \in Tasks, NEW a \in Ads, Insert(t, a) PROVE Types'
  <2>1. CASE ExternalInsert(t, a)
      BY <2>1 DEF ExternalInsert
  <2>2. ASSUME NEW p \in Choice, CreateTask(t, a, p) PROVE Types'
      BY <2>2 DEF CreateTask
  <2> QED
      BY <1>1, <2>1, <2>2 DEF Insert
<1>2. ASSUME NEW t \in Tasks, CreateStep(t) PROVE Types'
  <2>1. CASE CreateRow(t)
      BY <2>1 DEF CreateRow
  <2>2. CASE CreateFails(t)
      BY <2>2 DEF CreateFails
  <2>3. CASE StoreProxy(t)
      BY <2>3 DEF StoreProxy
  <2> QED
      BY <1>2, <2>1, <2>2, <2>3 DEF CreateStep
<1>3. ASSUME NEW t \in Tasks, ChangeTask(t) PROVE Types'
  <2>1. ASSUME NEW p \in Choice,
               taskConfig' = [taskConfig EXCEPT ![t] = p],
               UNCHANGED <<ad, adConfig, entries, cpc, wanted, workerVars>>
        PROVE  Types'
      BY <2>1
  <2>2. CASE DeleteTaskProxy(t)
      BY <2>1, <2>2 DEF DeleteTaskProxy
  <2>3. ASSUME NEW p \in Proxies, UpsertTaskProxy(t, p) PROVE Types'
      BY <2>1, <2>3 DEF UpsertTaskProxy
  <2> QED
      BY <1>3, <2>2, <2>3 DEF ChangeTask
<1>4. ASSUME NEW a \in Ads, ChangeAd(a) PROVE Types'
    BY <1>4 DEF ChangeAd, DeleteAdProxy, UpsertAdProxy
<1>5. ASSUME NEW w \in Workers, NEW t \in Tasks, Take(w, t) PROVE Types'
    BY <1>5 DEF Take
<1>6. ASSUME NEW w \in Workers, WorkerStep(w) PROVE Types'
  <2>1. ASSUME NEW here, here # "idle", NEW p \in Choice,
               NEW next \in {"ad", "pool", "run"}, next # "run" \/ here = "pool",
               here \in {"task", "ad", "pool"}, Read(w, here, p, next)
        PROVE  Types'
      BY <2>1 DEF Read
  <2>2. CASE ReadTaskConfig(w)
    <3>1. taskConfig[job[w]] \in Choice
        BY <2>2 DEF ReadTaskConfig, Read
    <3> QED
        BY <2>1, <2>2, <3>1 DEF ReadTaskConfig
  <2>3. CASE ReadAdConfig(w)
    <3>1. AdChoice(job[w]) \in Choice
        BY <2>3 DEF ReadAdConfig, Read, AdChoice
    <3> QED
        BY <2>1, <2>3, <3>1 DEF ReadAdConfig
  <2>4. CASE Acquire(w)
      BY <2>1, <2>4 DEF Acquire
  <2>5. CASE EndRun(w)
      BY <2>5 DEF EndRun
  <2> QED
      BY <1>6, <2>2, <2>3, <2>4, <2>5 DEF WorkerStep
<1> QED
    BY <1>1, <1>2, <1>3, <1>4, <1>5, <1>6 DEF Next

LEMMA ProxyInvStep == ProxyInv /\ [Next]_vars => ProxyInv'
<1>1. ASSUME ProxyInv, UNCHANGED vars PROVE ProxyInv'
    BY <1>1 DEF ProxyInv, ProxyTypeOK, Passed, Precedence, vars, tables, requestVars, workerVars, AdChoice
<1>2. ASSUME ProxyInv, Next PROVE ProxyInv'
  <2> ProxyTypeOK /\ Observe
      BY <1>2 DEF ProxyInv, Next
  <2> ProxyTypeOK'
      BY <1>2, TypesStep, TypesSuffice
  <2> SUFFICES (Passed /\ Precedence)'
      BY DEF ProxyInv
  <2>1. ASSUME NEW t \in Tasks, NEW a \in Ads, Insert(t, a) PROVE (Passed /\ Precedence)'
    <3>1. UNCHANGED <<workerVars, entries>> /\ \A u \in Tasks : ad[u] # NoAd => ad'[u] = ad[u]
        BY <2>1 DEF Insert, ExternalInsert, CreateTask, ProxyTypeOK, workerVars
    <3> QED
        BY <1>2, <3>1, TablesStep
  <2>2. ASSUME NEW t \in Tasks, CreateStep(t) PROVE (Passed /\ Precedence)'
    <3>1. UNCHANGED <<workerVars, entries, ad>>
        BY <2>2 DEF CreateStep, CreateRow, CreateFails, StoreProxy, tables, workerVars
    <3> QED
        BY <1>2, <3>1, TablesStep
  <2>3. ASSUME NEW t \in Tasks, ChangeTask(t) PROVE (Passed /\ Precedence)'
    <3>1. UNCHANGED <<workerVars, entries, ad>>
        BY <2>3 DEF ChangeTask, DeleteTaskProxy, UpsertTaskProxy, workerVars
    <3> QED
        BY <1>2, <3>1, TablesStep
  <2>4. ASSUME NEW a \in Ads, ChangeAd(a) PROVE (Passed /\ Precedence)'
    <3>1. UNCHANGED <<workerVars, entries, ad>>
        BY <2>4 DEF ChangeAd, DeleteAdProxy, UpsertAdProxy, workerVars
    <3> QED
        BY <1>2, <3>1, TablesStep
  <2>5. ASSUME NEW w \in Workers, NEW t \in Tasks, Take(w, t) PROVE (Passed /\ Precedence)'
    <3>1. /\ wpc'[w] = "task" /\ wpc[w] = "idle" /\ job'[w] = t
          /\ \A v \in Workers \ {w} : /\ wpc'[v] = wpc[v] /\ job'[v] = job[v]
                                      /\ level'[v] = level[v] /\ proxy'[v] = proxy[v]
          /\ UNCHANGED tables
        BY <2>5 DEF Take, ProxyTypeOK
    <3>2. taskConfig[t] \in seen'[w].task /\ AdChoice(job[w])' \in seen'[w].ad
        BY <3>1 DEF Observe, tables
    <3> QED
        BY <1>2, <3>1, <3>2, OneWorker
  <2>6. ASSUME NEW w \in Workers, EndRun(w) PROVE (Passed /\ Precedence)'
    <3>1. /\ wpc'[w] = "idle"
          /\ \A v \in Workers \ {w} : /\ wpc'[v] = wpc[v] /\ job'[v] = job[v]
                                      /\ level'[v] = level[v] /\ proxy'[v] = proxy[v]
          /\ UNCHANGED tables
        BY <2>6 DEF EndRun, ProxyTypeOK
    <3> QED
        BY <1>2, <3>1, OneWorker
  <2>7. ASSUME NEW w \in Workers, NEW here \in {"task", "ad", "pool"}, NEW p, NEW next,
               Read(w, here, p, next)
        PROVE  /\ wpc[w] = here /\ job'[w] = job[w] /\ proxy'[w] = p
               /\ wpc'[w] = IF p = NoProxy THEN next ELSE "run"
               /\ level'[w] = IF p = NoProxy THEN "none" ELSE here
               /\ \A v \in Workers \ {w} : /\ wpc'[v] = wpc[v] /\ job'[v] = job[v]
                                           /\ level'[v] = level[v] /\ proxy'[v] = proxy[v]
               /\ UNCHANGED tables
      BY <2>7 DEF Read, ProxyTypeOK
  <2>8. ASSUME NEW w \in Workers, wpc[w] \in {"task", "ad", "pool"}, wpc'[w] # "idle",
               job'[w] = job[w], UNCHANGED tables
        PROVE  /\ seen'[w].task = seen[w].task /\ seen'[w].ad = seen[w].ad
               /\ taskConfig[job[w]] \in seen[w].task /\ AdChoice(job[w]) \in seen[w].ad
    <3>1. taskConfig[job[w]] \in seen[w].task /\ AdChoice(job[w]) \in seen[w].ad
        BY <1>2, <2>8 DEF ProxyInv, Passed
    <3>2. seen'[w] = [task |-> seen[w].task \cup {taskConfig[job[w]]},
                      ad   |-> seen[w].ad \cup {AdChoice(job[w])}]
        BY <2>8 DEF Observe, tables, AdChoice
    <3> QED
        BY <3>1, <3>2
  <2>9. ASSUME NEW w \in Workers, ReadTaskConfig(w) PROVE (Passed /\ Precedence)'
    <3> DEFINE p == taskConfig[job[w]]
    <3>1. Read(w, "task", p, "ad")
        BY <2>9 DEF ReadTaskConfig
    <3> HIDE DEF p
    <3>2. /\ wpc[w] = "task" /\ job'[w] = job[w] /\ proxy'[w] = p
          /\ wpc'[w] = IF p = NoProxy THEN "ad" ELSE "run"
          /\ level'[w] = IF p = NoProxy THEN "none" ELSE "task"
          /\ UNCHANGED tables
        BY <2>7, <3>1
    <3>3. /\ seen'[w].task = seen[w].task /\ seen'[w].ad = seen[w].ad
          /\ p \in seen[w].task /\ AdChoice(job[w]) \in seen[w].ad
        BY <2>8, <3>2 DEF p
    <3> QED
        BY <1>2, <2>7, <3>1, <3>2, <3>3, OneWorker DEF p, AdChoice, tables
  <2>10. ASSUME NEW w \in Workers, ReadAdConfig(w) PROVE (Passed /\ Precedence)'
    <3> DEFINE p == AdChoice(job[w])
    <3>1. Read(w, "ad", p, "pool")
        BY <2>10 DEF ReadAdConfig
    <3> HIDE DEF p
    <3>2. /\ wpc[w] = "ad" /\ job'[w] = job[w] /\ proxy'[w] = p
          /\ wpc'[w] = IF p = NoProxy THEN "pool" ELSE "run"
          /\ level'[w] = IF p = NoProxy THEN "none" ELSE "ad"
          /\ UNCHANGED tables
        BY <2>7, <3>1
    <3>3. /\ seen'[w].task = seen[w].task /\ seen'[w].ad = seen[w].ad
          /\ p \in seen[w].ad /\ taskConfig[job[w]] \in seen[w].task
        BY <2>8, <3>2 DEF p
    <3>4. NoProxy \in seen[w].task
        BY <1>2, <3>2 DEF ProxyInv, Passed
    <3> QED
        BY <1>2, <2>7, <3>1, <3>2, <3>3, <3>4, OneWorker DEF p, AdChoice, tables
  <2>11. ASSUME NEW w \in Workers, Acquire(w) PROVE (Passed /\ Precedence)'
    <3>1. PICK p \in IF entries = {} THEN {NoProxy} ELSE entries : Read(w, "pool", p, "run")
        BY <2>11 DEF Acquire
    <3>2. /\ wpc[w] = "pool" /\ job'[w] = job[w] /\ proxy'[w] = p /\ wpc'[w] = "run"
          /\ level'[w] = IF p = NoProxy THEN "none" ELSE "pool"
          /\ UNCHANGED tables
        BY <2>7, <3>1
    <3>3. seen'[w].task = seen[w].task /\ seen'[w].ad = seen[w].ad
        BY <2>8, <3>2
    <3>4. NoProxy \in seen[w].task /\ NoProxy \in seen[w].ad
        BY <1>2, <3>2 DEF ProxyInv, Passed
    <3>5. /\ p = NoProxy => entries = {}
          /\ p # NoProxy => p \in entries
        BY <3>1, ProxyAssumption DEF ProxyTypeOK
    <3> QED
        BY <1>2, <2>7, <3>1, <3>2, <3>3, <3>4, <3>5, OneWorker
  <2> QED
      BY <1>2, <2>1, <2>2, <2>3, <2>4, <2>5, <2>6, <2>9, <2>10, <2>11 DEF Next, WorkerStep
<1> QED
    BY <1>1, <1>2

\* The inductive invariant: the types, the levels passed, and Precedence itself.
THEOREM ProxyInvariant == Spec => []ProxyInv
<1> QED
    BY ProxyInvInit, ProxyInvStep, PTL DEF Spec

\* Type correctness: a run that is not under way holds no proxy, and one that is belongs
\* to a task with an ad (Worker._handle).
THEOREM ProxyTypeCorrect == Spec => []ProxyTypeOK
<1>1. ProxyInv => ProxyTypeOK
    BY DEF ProxyInv
<1> QED
    BY <1>1, ProxyInvariant, PTL

\* A run goes through what the precedence of the levels prescribes (Worker._handle).
THEOREM PrecedenceHolds == Spec => []Precedence
<1>1. ProxyInv => Precedence
    BY DEF ProxyInv
<1> QED
    BY <1>1, ProxyInvariant, PTL
=============================================================================
