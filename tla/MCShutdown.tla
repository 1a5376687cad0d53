----------------------------- MODULE MCShutdown -----------------------------
(***************************************************************************)
(* Shutdown on a small instance: a bounded number of stops, of mishaps (a  *)
(* transaction that fails, a kill), of held leases that expire and of      *)
(* requests.                                                               *)
(***************************************************************************)
EXTENDS Shutdown

CONSTANTS MaxStops, MaxMishaps, MaxExpiries, MaxRequests

VARIABLE budget

mcVars == <<allVars, budget>>

Spend(kind) == budget[kind] > 0 /\ budget' = [budget EXCEPT ![kind] = @ - 1]

MCInit ==
    /\ ShutdownInit
    /\ budget = [mishaps |-> MaxMishaps, expiries |-> MaxExpiries, requests |-> MaxRequests]

Attended(t) == Held(t) \/ \E w \in Workers : job[w].id = t

MCLoops == Loops /\ UNCHANGED <<shutdownVars, budget>>
MCWorker(w) == cancelled[w] = "no" /\ WorkerRuns(w) /\ UNCHANGED <<shutdownVars, budget>>
MCTime(t) ==
    /\ TimePasses(t)
    /\ UNCHANGED shutdownVars
    /\ IF Attended(t) /\ runtime' # runtime THEN Spend("expiries") ELSE UNCHANGED budget
MCRequest(t) == Requests(t) /\ UNCHANGED shutdownVars /\ Spend("requests")
MCStop == Stopping /\ stops' <= MaxStops /\ UNCHANGED budget
MCBoot == Boot /\ UNCHANGED budget

MCNext ==
    \/ MCLoops
    \/ \E w \in Workers : MCWorker(w)
    \/ \E t \in Tasks : \/ MCTime(t)
                        \/ ExternalInsert(t) /\ UNCHANGED <<shutdownVars, budget>>
                        \/ MCRequest(t)
    \/ /\ Spend("mishaps")
       /\ \/ LoopsFail /\ UNCHANGED shutdownVars
          \/ \E w \in Workers : \/ cancelled[w] = "no" /\ WorkerFails(w) /\ UNCHANGED shutdownVars
                                \/ CancelFault(w)
    \/ MCStop
    \/ MCBoot
    \/ Killed /\ Spend("mishaps")

MCSpec == MCInit /\ [][MCNext]_mcVars

\* A stop once requested is carried through, under its timeouts; then the service is
\* started again.  The rest as in MCAgentClicker.
MCFairness ==
    /\ WF_mcVars(MCLoops /\ DispatcherRuns)
    /\ \A t \in Tasks : SF_mcVars(MCLoops /\ t \in leased' \ leased)
    /\ WF_mcVars(MCLoops /\ WatchdogRuns)
    /\ WF_mcVars(MCLoops /\ AdminRuns)
    /\ \A w \in Workers : WF_mcVars(MCWorker(w))
    /\ \A t \in Tasks : WF_mcVars(MCTime(t))
    /\ WF_mcVars(MCStop /\ phase # "serving")
    /\ WF_mcVars(MCBoot)

MCLiveSpec == MCSpec /\ MCFairness

\* Every task is finished in the end, through stops and starts at any moment, unless
\* it becomes an orphan.
ProgressThroughStops ==
    \A t \in Tasks : status[t] # "unborn" ~> (status[t] \in TERMINAL \cup {"gone"} \/ Orphan(t))
=============================================================================
