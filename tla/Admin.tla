------------------------------- MODULE Admin -------------------------------
(***************************************************************************)
(* The admin requests that change tasks (admin/routers/tasks.py): create,  *)
(* retry and delete.  Each is two transactions of the repository, the      *)
(* external database first.  One request is in progress at a time.         *)
(***************************************************************************)
EXTENDS TaskRepository

VARIABLES
    apc,    \* "idle", or the transaction that is left of the request
    target  \* the task of the request

adminVars == <<apc, target>>

AdminTypeOK ==
    /\ apc \in {"idle", "create_row", "requeue_row", "delete_row"}
    /\ target \in Tasks \cup {NoTask}
    /\ target = NoTask <=> apc = "idle"

AdminInit == apc = "idle" /\ target = NoTask

Begin(t, rest) ==
    /\ apc = "idle"
    /\ apc' = rest
    /\ target' = t

End(rest) ==
    /\ apc = rest
    /\ apc' = "idle"
    /\ target' = NoTask

CreateTask(t) ==
    /\ Begin(t, "create_row")
    /\ \E isDue \in BOOLEAN : InsertTask(t, isDue)

\* With the max_attempts of the request; without one, or with 0, the default.
CreateRow ==
    /\ End("create_row")
    /\ \E max \in (CustomMaxAttempts \ {0}) \cup MaxAttemptsSettings : InsertRow(target, max)

\* The dispatcher inserted the row first: the request fails, the task stays.
CreateConflict ==
    /\ End("create_row")
    /\ target \in rows
    /\ UNCHANGED dbVars

\* The route of retry checks no status; the repository does, for one of the two.
RequeueTask(t) ==
    /\ status[t] # "unborn"
    /\ Begin(t, "requeue_row")
    /\ RequeueStatus(t)

RequeueRow ==
    /\ End("requeue_row")
    /\ RequeueRuntime(target)

DeleteTask(t) ==
    /\ status[t] # "unborn"
    /\ Begin(t, "delete_row")
    /\ DeleteTaskRow(t)

DeleteRuntimeRow ==
    /\ End("delete_row")
    /\ DeleteRow(target)

AdminRequest(t) == CreateTask(t) \/ RequeueTask(t) \/ DeleteTask(t)

AdminStep == CreateRow \/ CreateConflict \/ RequeueRow \/ DeleteRuntimeRow

\* The second transaction fails: the request ends with an error.
AdminFault ==
    /\ apc # "idle"
    /\ End(apc)
    /\ UNCHANGED dbVars
=============================================================================
