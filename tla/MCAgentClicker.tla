--------------------------- MODULE MCAgentClicker ---------------------------
(***************************************************************************)
(* AgentClicker on a small instance.  What comes from outside -- failing   *)
(* transactions, crashes, leases that expire while they are held, admin    *)
(* requests -- happens a bounded number of times: the budget.              *)
(***************************************************************************)
EXTENDS AgentClicker, TLC

CONSTANTS MaxFaults, MaxCrashes, MaxExpiries, MaxRequests

VARIABLE budget

mcVars == <<vars, budget>>

Symmetry == Permutations(Tasks) \cup Permutations(Workers)

Spend(kind) == budget[kind] > 0 /\ budget' = [budget EXCEPT ![kind] = @ - 1]

MCInit ==
    /\ Init
    /\ budget = [faults   |-> MaxFaults,   crashes  |-> MaxCrashes,
                 expiries |-> MaxExpiries, requests |-> MaxRequests]

\* A lease expires for free once nobody is at work on the task any more.
Attended(t) == Held(t) \/ \E w \in Workers : job[w].id = t

MCTime(t) ==
    /\ TimePasses(t)
    /\ IF Attended(t) /\ runtime' # runtime THEN Spend("expiries") ELSE UNCHANGED budget

MCDispatcher == DispatcherRuns /\ UNCHANGED budget
MCWorker(w) == WorkerRuns(w) /\ UNCHANGED budget
MCWatchdog == WatchdogRuns /\ UNCHANGED budget
MCAdmin == AdminRuns /\ UNCHANGED budget

MCNext ==
    \/ MCDispatcher
    \/ \E w \in Workers : MCWorker(w)
    \/ MCWatchdog
    \/ MCAdmin
    \/ \E t \in Tasks : \/ MCTime(t)
                        \/ ExternalInsert(t) /\ UNCHANGED budget
                        \/ AdminRequests(t) /\ Spend("requests")
    \/ Fault /\ Spend("faults")
    \/ Crash /\ Spend("crashes")

MCSpec == MCInit /\ [][MCNext]_mcVars

\* Every actor keeps running, and time passes.  A run of the browser ends because
\* runner.py bounds it with a timeout; nothing forces an insert, a request, a fault
\* or a crash.  A leasable row is not locked at every look of the dispatcher: whoever
\* locks it commits.
MCFairness ==
    /\ WF_mcVars(MCDispatcher)
    /\ \A t \in Tasks : SF_mcVars(MCDispatcher /\ t \in leased' \ leased)
    /\ \A w \in Workers : WF_mcVars(MCWorker(w))
    /\ WF_mcVars(MCWatchdog)
    /\ WF_mcVars(MCAdmin)
    /\ \A t \in Tasks : WF_mcVars(MCTime(t))

MCLiveSpec == MCSpec /\ MCFairness

Finished(t) == status[t] \in TERMINAL \cup {"gone"}

\* Every task that exists is finished in the end, through failing transactions,
\* crashes, expired leases and admin requests, unless it becomes an orphan.
Progress == \A t \in Tasks : status[t] # "unborn" ~> (Finished(t) \/ Orphan(t))

\* Without faults and crashes no task is lost at all, not even one whose lease was
\* reclaimed while it ran, or whose lock a requeue cleared.
EveryTaskFinishes == \A t \in Tasks : status[t] # "unborn" ~> Finished(t)
=============================================================================
