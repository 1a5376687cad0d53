----------------------------- MODULE LeaseClock -----------------------------
(***************************************************************************)
(* How old a lease gets: locked_at is written when the dispatcher leases   *)
(* (db/repository.py), the task waits in the queue, and only then does a   *)
(* worker run it: the run has a timeout (browser/runner.py), the closing   *)
(* of the browser after it has none and takes as long as the browser does. *)
(* Only waiting, running and closing take time here.  Time is counted from *)
(* the lease of each task and from the start of each run and each closing, *)
(* so nothing needs a bound.                                               *)
(***************************************************************************)
EXTENDS Naturals, Sequences, FiniteSets

CONSTANTS
    Workers,
    StepTimeout, MaxSteps,  \* step_timeout and max_steps of the agent
    LeaseTimeout,           \* lease_timeout_seconds
    Margin,                 \* the 30 seconds of runner.py
    CloseTime               \* how long the browser takes to close at most

ASSUME ClockAssumption ==
    /\ IsFiniteSet(Workers)
    /\ StepTimeout \in Nat /\ MaxSteps \in Nat /\ LeaseTimeout \in Nat /\ Margin \in Nat
    /\ CloseTime \in Nat

VARIABLES
    waiting,  \* the ages of the leases in the queue
    run       \* per worker: the age of its lease, how long it has been at work on it
              \* and how long it has been closing the browser

vars == <<waiting, run>>

\* main.py: maxsize = worker_concurrency, the number of workers.
QueueMax == Cardinality(Workers)

ClockTypeOK ==
    /\ waiting \in Seq(Nat)
    /\ run \in [Workers -> [at : {"idle", "run", "close"}, age : Nat, ran : Nat, closing : Nat]]
    /\ \A w \in Workers : /\ run[w].at = "idle" => run[w].age = 0
                          /\ run[w].at = "run" => run[w].closing = 0

Smaller(a, b) == IF a < b THEN a ELSE b
Larger(a, b) == IF a > b THEN a ELSE b

\* lease_timeout - 30 may be negative, but never counts then.
HardTimeout ==
    Larger(Smaller(StepTimeout * MaxSteps,
                   IF LeaseTimeout > Margin THEN LeaseTimeout - Margin ELSE 0),
           Margin)

\* The longest a worker is at work on one task.
Longest == HardTimeout + CloseTime

Idle == [at |-> "idle", age |-> 0, ran |-> 0, closing |-> 0]

Init ==
    /\ waiting = <<>>
    /\ run = [w \in Workers |-> Idle]

\* Mutant: the dispatcher does not look at the queue.
Lease_Ahead ==
    /\ Len(waiting) <= QueueMax
    /\ waiting' = Append(waiting, 0)
    /\ UNCHANGED run

\* A free place in the queue: the dispatcher leases another task.
Lease ==
    /\ Len(waiting) < QueueMax
    /\ waiting' = Append(waiting, 0)
    /\ UNCHANGED run

Take(w) ==
    /\ run[w].at = "idle"
    /\ waiting # <<>>
    /\ run' = [run EXCEPT ![w] = [at |-> "run", age |-> Head(waiting), ran |-> 0, closing |-> 0]]
    /\ waiting' = Tail(waiting)

\* The language model or the agent cannot be built: there is no browser to close.
BuildFails(w) ==
    /\ run[w].at = "run"
    /\ run[w].ran = 0
    /\ run' = [run EXCEPT ![w] = Idle]
    /\ UNCHANGED waiting

\* The agent is done or has raised, or wait_for has ended it; in `finally` its browser
\* is closed, awaited with no timeout.
EndRun(w) ==
    /\ run[w].at = "run"
    /\ run' = [run EXCEPT ![w] = [at |-> "close", age |-> @.age, ran |-> @.ran, closing |-> 0]]
    /\ UNCHANGED waiting

\* The browser is closed, or closing it has raised.
EndClose(w) ==
    /\ run[w].at = "close"
    /\ run' = [run EXCEPT ![w] = Idle]
    /\ UNCHANGED waiting

\* A worker there may go on for another unit of time.
MayGoOn(r) ==
    \/ r.at = "run" /\ r.ran < HardTimeout
    \/ r.at = "close" /\ r.closing < CloseTime

Older(r) ==
    [at |-> r.at, age |-> r.age + 1, ran |-> r.ran + 1,
     closing |-> IF r.at = "close" THEN r.closing + 1 ELSE 0]

\* No run outlasts its timeout, no browser takes longer to close than it does, and no
\* task waits while a worker is idle.
Tick ==
    /\ \A w \in Workers : IF run[w].at = "idle" THEN waiting = <<>> ELSE MayGoOn(run[w])
    /\ waiting' = [i \in 1..Len(waiting) |-> waiting[i] + 1]
    /\ run' = [w \in Workers |-> IF run[w].at = "idle" THEN Idle ELSE Older(run[w])]

Next ==
    \/ Lease
    \/ \E w \in Workers : Take(w) \/ BuildFails(w) \/ EndRun(w) \/ EndClose(w)
    \/ Tick

Spec == Init /\ [][Next]_vars

-----------------------------------------------------------------------------
\* A task waits for at most one run of every worker and the closing of its browser, so a
\* lease is at most twice that old when its worker is done with it: the bound a lease
\* timeout would have to respect, and the reason why the hard timeout alone does not.
AgeBounded ==
    /\ \A i \in 1..Len(waiting) : waiting[i] <= Longest
    /\ \A w \in Workers : run[w].age <= 2 * Longest
=============================================================================
