------------------------------ MODULE Watchdog ------------------------------
(***************************************************************************)
(* The watchdog loop (queue/watchdog.py): one reclaim_expired call after   *)
(* the other.  The call selects the expired leases in one transaction,     *)
(* releases the tasks in a second and clears the locks in a third, by the  *)
(* ids the first one selected.                                             *)
(***************************************************************************)
EXTENDS TaskRepository

VARIABLES
    gpc,   \* where the call is
    stale  \* the ids its first transaction selected

watchdogVars == <<gpc, stale>>

WatchdogTypeOK ==
    /\ gpc \in {"select", "release", "clear"}
    /\ stale \in SUBSET Tasks

WatchdogInit == gpc = "select" /\ stale = {}

SelectExpired ==
    /\ gpc = "select"
    /\ Expired # {}
    /\ stale' = Expired
    /\ gpc' = "release"
    /\ UNCHANGED dbVars

ReleaseExpired ==
    /\ gpc = "release"
    /\ ReclaimStatus(stale)
    /\ gpc' = "clear"
    /\ UNCHANGED stale

ClearExpired ==
    /\ gpc = "clear"
    /\ ReclaimRuntime(stale)
    /\ gpc' = "select"
    /\ stale' = {}

WatchdogStep ==
    \/ SelectExpired
    \/ ReleaseExpired
    \/ ClearExpired

\* The second or the third transaction fails: logged, the loop starts over.
WatchdogFault ==
    /\ gpc # "select"
    /\ gpc' = "select"
    /\ stale' = {}
    /\ UNCHANGED dbVars
=============================================================================
