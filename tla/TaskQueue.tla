------------------------------ MODULE TaskQueue ------------------------------
(***************************************************************************)
(* The asyncio.Queue of TaskDTOs between the dispatcher and the workers.   *)
(* main.py creates it with maxsize = worker_concurrency.                   *)
(***************************************************************************)
EXTENDS TaskRepository, Sequences

CONSTANT QueueMax  \* maxsize; 0 means unbounded

ASSUME QueueAssumption == QueueMax \in Nat

VARIABLE queue

QueueTypeOK == queue \in Seq(Dto)
QueueInit == queue = <<>>

HasRoom == QueueMax # 0 => Len(queue) < QueueMax

\* put() waits while the queue is full.
Put(dto) == HasRoom /\ queue' = Append(queue, dto)

\* get() waits while the queue is empty.
Get(dto) == queue # <<>> /\ dto = Head(queue) /\ queue' = Tail(queue)
=============================================================================
