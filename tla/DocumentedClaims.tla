-------------------------- MODULE DocumentedClaims --------------------------
(***************************************************************************)
(* What the repository's documents say of the lifecycle of a task, as they *)
(* say it.  Each claim has a run that refutes it.                          *)
(***************************************************************************)
EXTENDS MCAgentClicker

\* "Stuck tasks are detected and restarted by the watchdog": a task does not stay
\* in progress for ever (docs/service-overview.md, component-02-lifecycle 5.5).
StuckTasksRestarted ==
    \A t \in Tasks : status[t] = "in_progress" ~> status[t] # "in_progress"

\* "Any operation that changes a task's status is atomic and conditional (WHERE
\* status = ...)" (component-arch-00, principle 6): what is completed is taken out
\* of that status by a request of an admin only.
CompletedIsFinal ==
    [][\A t \in Tasks :
          status[t] = "completed" /\ status'[t] # "completed" =>
              apc = "idle" /\ target' = t]_vars
=============================================================================
