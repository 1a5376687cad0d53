--------------------------- MODULE TaskLifecycle ---------------------------
(***************************************************************************)
(* What the service promises about a task: it is leased to one holder at a *)
(* time, only the holder moves it on, and a finished task stays finished.  *)
(* The promise is kept for a task as long as nobody intervenes in its      *)
(* lease (Intervene); the edges of a task after that are in Afterwards.    *)
(***************************************************************************)
CONSTANT Tasks

VARIABLES
    status,     \* the lifecycle of each task
    held,       \* the tasks leased to a live holder and not intervened in
    disturbed   \* the tasks somebody has intervened in

vars == <<status, held, disturbed>>

Leasable == {"created", "pending"}
Terminal == {"completed", "failed", "ignoren"}

Init ==
    /\ status = [t \in Tasks |-> "unborn"]
    /\ held = {}
    /\ disturbed = {}

\* The tasks of `ids` move to `to`, all others stay.
Move(ids, to) == status' = [t \in Tasks |-> IF t \in ids THEN to ELSE status[t]]

Insert(t) ==
    /\ status[t] = "unborn"
    /\ Move({t}, "created")
    /\ UNCHANGED <<held, disturbed>>

\* A batch of leasable tasks, none of which has a holder.
Lease(S) ==
    /\ \A t \in S : status[t] \in Leasable /\ t \notin held
    /\ Move(S, "in_progress")
    /\ held' = held \cup (S \ disturbed)
    /\ UNCHANGED disturbed

\* The holder gives the task up with an outcome, or for another try.
GiveUp(t, to) ==
    /\ t \in held
    /\ status[t] = "in_progress"
    /\ to \in {"completed", "failed", "pending"}
    /\ Move({t}, to)
    /\ held' = held \ {t}
    /\ UNCHANGED disturbed

\* A lease whose runtime rows could not be written is released again; of the
\* tasks intervened in meanwhile, whatever their status is by now (D).
Release(S, D) ==
    /\ \A t \in S : t \in held /\ status[t] = "in_progress"
    /\ D \subseteq disturbed
    /\ Move(S \cup D, "created")
    /\ held' = held \ S
    /\ UNCHANGED disturbed

\* The holders of the tasks S are gone, by an error or a crash, and the record of
\* the last attempt of the tasks D is left incomplete.
Drop(S, D) ==
    /\ held' = held \ S
    /\ disturbed' = disturbed \cup D
    /\ UNCHANGED status

\* The watchdog reclaims leases, or an admin requeues or deletes a task.
Intervene(S, to) ==
    /\ status' = [t \in Tasks |->
          IF t \in S /\ \/ status[t] = "in_progress" /\ to = "pending"
                        \/ status[t] \in Terminal /\ to = "created"
                        \/ status[t] # "unborn" /\ to = "gone"
          THEN to ELSE status[t]]
    /\ disturbed' = disturbed \cup S
    /\ held' = held \ S

\* A second holder of a task that was intervened in moves it once more: still
\* never out of a terminal status.
Afterwards(t, to) ==
    /\ t \in disturbed
    /\ status[t] = "in_progress"
    /\ to \in {"completed", "failed", "pending"}
    /\ Move({t}, to)
    /\ UNCHANGED <<held, disturbed>>

Next ==
    \/ \E t \in Tasks : Insert(t)
    \/ \E S \in SUBSET Tasks : Lease(S)
    \/ \E t \in Tasks, to \in {"completed", "failed", "pending"} : GiveUp(t, to) \/ Afterwards(t, to)
    \/ \E S, D \in SUBSET Tasks : Release(S, D)
    \/ \E S, D \in SUBSET Tasks : Drop(S, D)
    \/ \E S \in SUBSET Tasks, to \in {"pending", "created", "gone"} : Intervene(S, to)

Spec == Init /\ [][Next]_vars
=============================================================================
