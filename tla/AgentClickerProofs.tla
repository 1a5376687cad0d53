------------------------- MODULE AgentClickerProofs -------------------------
(***************************************************************************)
(* Theorems about AgentClicker, for every number of tasks and workers, any *)
(* size of the queue, and any number of faults, crashes and requests.      *)
(***************************************************************************)
EXTENDS AgentClicker, FiniteSetTheorems, SequenceTheorems, TLAPS

\* A DTO is what the type says of it, whether or not the task has a row.
LEMMA DtoType ==
    ASSUME RepositoryTypeOK, NEW t \in Tasks
    PROVE  DtoOf(t) \in Dto /\ DtoOf(t).id = t
BY DEF RepositoryTypeOK, DtoOf, Dto, Row

\* A DTO is never the placeholder of an idle worker.
LEMMA NoJobIsNoDto == NoJob \notin Dto
BY RepositoryAssumption DEF NoJob, Dto

LEMMA RepositoryInitType == RepositoryInit => RepositoryTypeOK
BY DEF RepositoryInit, RepositoryTypeOK, Statuses, LEASABLE, TERMINAL, Row, BlankRow

\* The type invariant holds at the start.
LEMMA InitType == Init => TypeOK
<1> SUFFICES ASSUME Init PROVE TypeOK
    OBVIOUS
<1>1. RepositoryTypeOK
    BY RepositoryInitType DEF Init
<1>2. QueueTypeOK
    BY DEF Init, QueueInit, QueueTypeOK
<1>3. DispatcherTypeOK
    BY DEF Init, DispatcherInit, DispatcherTypeOK, Unread, LeaseWindow
<1>4. WorkerTypeOK
    BY NoJobIsNoDto DEF Init, WorkerInit, WorkerTypeOK, Holding, Recording
<1>5. WatchdogTypeOK /\ AdminTypeOK
    BY RepositoryAssumption DEF Init, WatchdogInit, WatchdogTypeOK, AdminInit, AdminTypeOK
<1> QED BY <1>1, <1>2, <1>3, <1>4, <1>5 DEF TypeOK

-----------------------------------------------------------------------------
(* Type correctness of the transactions *)

LEMMA MoveStatusType ==
    ASSUME status \in [Tasks -> Statuses], NEW ids, NEW from, NEW to \in Statuses,
           MoveStatus(ids, from, to)
    PROVE  status' \in [Tasks -> Statuses]
BY DEF MoveStatus

LEMMA LeasedRowType ==
    ASSUME NEW row \in Row, NEW n \in Nat
    PROVE  [row EXCEPT !.attempts = n, !.lock = "fresh"] \in Row
BY DEF Row

LEMMA LeaseType ==
    ASSUME RepositoryTypeOK, NEW S \in SUBSET Tasks, NEW seen_,
           \A t \in DOMAIN seen_ : seen_[t] \in Nat,
           LeaseStatus(S) \/ LeaseRuntime(S, seen_) \/ ReleaseLease(S)
    PROVE  RepositoryTypeOK'
<1>1. CASE LeaseStatus(S)
    BY <1>1, MoveStatusType DEF LeaseStatus, RepositoryTypeOK, Statuses, LEASABLE, TERMINAL, MoveStatus
<1>2. CASE LeaseRuntime(S, seen_)
  <2>1. rows' \in SUBSET Tasks
      BY <1>2 DEF LeaseRuntime, RepositoryTypeOK
  <2>2. ASSUME NEW t \in Tasks, t \in DOMAIN seen_
        PROVE  [runtime[t] EXCEPT !.attempts = seen_[t] + 1, !.lock = "fresh"] \in Row
    <3>1. runtime[t] \in Row /\ seen_[t] + 1 \in Nat
        BY <2>2 DEF RepositoryTypeOK
    <3> QED BY <3>1, LeasedRowType
  <2>3. \A default \in MaxAttemptsSettings :
            [attempts |-> 1, max |-> default, lock |-> "fresh", result |-> FALSE] \in Row
      BY RepositoryAssumption DEF Row
  <2>4. runtime' \in [Tasks -> Row]
      BY <1>2, <2>2, <2>3 DEF LeaseRuntime, RepositoryTypeOK
  <2> QED BY <1>2, <2>1, <2>4 DEF LeaseRuntime, RepositoryTypeOK
<1>3. CASE ReleaseLease(S)
    BY <1>3, MoveStatusType DEF ReleaseLease, RepositoryTypeOK, Statuses, LEASABLE, TERMINAL, MoveStatus
<1> QED BY <1>1, <1>2, <1>3

LEMMA OutcomeType ==
    ASSUME RepositoryTypeOK, NEW t \in Tasks,
           \/ CompleteStatus(t) \/ CompleteRuntime(t) \/ RetryStatus(t)
           \/ FailStatus(t) \/ FailedRuntime(t)
    PROVE  RepositoryTypeOK'
<1> USE DEF RepositoryTypeOK, Statuses, LEASABLE, TERMINAL, MoveStatus
<1>1. CASE CompleteStatus(t)
    BY <1>1 DEF CompleteStatus
<1>2. CASE CompleteRuntime(t)
  <2>1. [runtime[t] EXCEPT !.lock = "none", !.result = TRUE] \in Row
      BY DEF Row
  <2> QED BY <1>2, <2>1 DEF CompleteRuntime
<1>3. CASE RetryStatus(t)
    BY <1>3 DEF RetryStatus
<1>4. CASE FailStatus(t)
    BY <1>4 DEF FailStatus
<1>5. CASE FailedRuntime(t)
    BY <1>5 DEF FailedRuntime, ClearLocks, Row
<1> QED BY <1>1, <1>2, <1>3, <1>4, <1>5

LEMMA ReclaimType ==
    ASSUME RepositoryTypeOK, NEW ids \in SUBSET Tasks,
           ReclaimStatus(ids) \/ ReclaimRuntime(ids)
    PROVE  RepositoryTypeOK'
<1>1. CASE ReclaimStatus(ids)
    BY <1>1 DEF ReclaimStatus, Disturb, RepositoryTypeOK, Statuses, LEASABLE, TERMINAL, MoveStatus
<1>2. CASE ReclaimRuntime(ids)
    BY <1>2 DEF ReclaimRuntime, ClearLocks, RepositoryTypeOK, Row
<1> QED BY <1>1, <1>2

LEMMA AdminTransactionType ==
    ASSUME RepositoryTypeOK, NEW t \in Tasks,
           \/ \E isDue \in BOOLEAN : InsertTask(t, isDue)
           \/ \E max \in Int : InsertRow(t, max)
           \/ DeleteTaskRow(t) \/ DeleteRow(t) \/ RequeueStatus(t) \/ RequeueRuntime(t)
           \/ BecomeDue(t) \/ Expire(t)
    PROVE  RepositoryTypeOK'
<1> USE DEF RepositoryTypeOK
<1>1. CASE \E isDue \in BOOLEAN : InsertTask(t, isDue)
    BY <1>1 DEF InsertTask, Statuses, LEASABLE
<1>2. CASE \E max \in Int : InsertRow(t, max)
  <2>1. PICK max \in Int : InsertRow(t, max)
      BY <1>2
  <2>2. [BlankRow EXCEPT !.max = max] \in Row
      BY DEF BlankRow, Row
  <2> QED BY <2>1, <2>2 DEF InsertRow
<1>3. CASE DeleteTaskRow(t)
    BY <1>3 DEF DeleteTaskRow, MoveStatus, Disturb, Statuses
<1>4. CASE DeleteRow(t)
    BY <1>4 DEF DeleteRow, Row, BlankRow
<1>5. CASE RequeueStatus(t)
    BY <1>5 DEF RequeueStatus, MoveStatus, Disturb, Statuses, LEASABLE
<1>6. CASE RequeueRuntime(t)
  <2>1. [runtime[t] EXCEPT !.attempts = 0, !.lock = "none"] \in Row
      BY DEF Row
  <2> QED BY <1>6, <2>1 DEF RequeueRuntime
<1>7. CASE BecomeDue(t)
    BY <1>7 DEF BecomeDue
<1>8. CASE Expire(t)
  <2>1. [runtime[t] EXCEPT !.lock = "stale"] \in Row
      BY <1>8 DEF Row
  <2> QED BY <1>8, <2>1 DEF Expire
<1> QED BY <1>1, <1>2, <1>3, <1>4, <1>5, <1>6, <1>7, <1>8

-----------------------------------------------------------------------------
(* Type correctness of the steps of each actor *)

LEMMA DispatcherTypeStep ==
    ASSUME RepositoryTypeOK, QueueTypeOK, DispatcherTypeOK,
           DispatcherStep \/ DispatcherFault
    PROVE  RepositoryTypeOK' /\ QueueTypeOK' /\ DispatcherTypeOK'
<1> USE DEF DispatcherTypeOK, LeaseWindow, Unread, QueueTypeOK
<1>0. ASSUME UNCHANGED dbVars PROVE RepositoryTypeOK'
    BY <1>0 DEF dbVars, RepositoryTypeOK
<1>1. CASE Poll
    BY <1>0, <1>1, QueueAssumption DEF Poll, Free
<1>2. CASE Lease
  <2>1. PICK S \in SUBSET Tasks :
            /\ LeaseStatus(S)
            /\ leased' = S
            /\ dpc' = IF S = {} THEN "poll" ELSE "read"
            /\ want' = IF S = {} THEN 0 ELSE want
      BY <1>2 DEF Lease, Batches, Leasable
  <2>2. RepositoryTypeOK'
      BY <2>1, LeaseType
  <2> QED BY <1>2, <2>1, <2>2 DEF Lease
<1>3. CASE ReadRuntime
  <2>1. \A t \in leased \cap rows : runtime[t].attempts \in Nat
      BY DEF RepositoryTypeOK, Row
  <2> QED BY <1>0, <1>3, <2>1 DEF ReadRuntime, AttemptsOf
<1>4. CASE WriteRuntime
  <2>1. RepositoryTypeOK'
      BY <1>4, LeaseType DEF WriteRuntime
  <2> QED BY <1>4, <2>1 DEF WriteRuntime
<1>5. CASE WriteConflict
    BY <1>0, <1>5 DEF WriteConflict
<1>6. CASE Compensate
  <2>1. RepositoryTypeOK'
      BY <1>6, LeaseType DEF Compensate
  <2> QED BY <1>6, <2>1 DEF Compensate, DispatcherReset
<1>7. CASE Fetch
    BY <1>0, <1>7, DtoType DEF Fetch
<1>8. CASE PutNext
  <2>1. PICK dto \in batch : Put(dto) /\ batch' = batch \ {dto}
      BY <1>8 DEF PutNext
  <2>2. queue' \in Seq(Dto)
      BY <2>1 DEF Put
  <2> QED BY <1>0, <1>8, <2>1, <2>2 DEF PutNext
<1>9. CASE DispatcherFault
    BY <1>0, <1>9 DEF DispatcherFault, DispatcherReset
<1> QED BY <1>1, <1>2, <1>3, <1>4, <1>5, <1>6, <1>7, <1>8, <1>9 DEF DispatcherStep

LEMMA WorkerTypeStep ==
    ASSUME RepositoryTypeOK, QueueTypeOK, WorkerTypeOK, NEW w \in Workers,
           WorkerStep(w) \/ WorkerFault(w)
    PROVE  RepositoryTypeOK' /\ QueueTypeOK' /\ WorkerTypeOK'
<1> USE DEF WorkerTypeOK, Holding, Recording, Goto, QueueTypeOK
<1>0. ASSUME UNCHANGED dbVars PROVE RepositoryTypeOK'
    BY <1>0 DEF dbVars, RepositoryTypeOK
<1>1. ASSUME wpc[w] # "idle" PROVE job[w] \in Dto /\ job[w].id \in Tasks
    BY <1>1 DEF Dto
<1>2. ASSUME Finish(w) PROVE WorkerTypeOK'
    BY <1>2 DEF Finish
<1>3. CASE Take(w)
  <2>1. Head(queue) \in Dto /\ queue' \in Seq(Dto)
      BY <1>3 DEF Take, Get
  <2> QED BY <1>0, <1>3, <2>1, NoJobIsNoDto DEF Take
<1>4. CASE Succeed(w) \/ ReportFailure(w) \/ Raise(w)
    BY <1>0, <1>4 DEF Succeed, ReportFailure, Raise, RetryOrFail
<1>5. CASE MarkDoneStatus(w) \/ MarkRetryStatus(w) \/ MarkFailStatus(w)
  <2>1. RepositoryTypeOK'
      BY <1>1, <1>5, OutcomeType DEF MarkDoneStatus, MarkRetryStatus, MarkFailStatus
  <2> QED BY <1>5, <2>1 DEF MarkDoneStatus, MarkRetryStatus, MarkFailStatus
<1>6. CASE MarkDoneRow(w) \/ MarkFailedRow(w)
  <2>1. RepositoryTypeOK'
      BY <1>1, <1>6, OutcomeType DEF MarkDoneRow, MarkFailedRow
  <2> QED BY <1>2, <1>6, <2>1 DEF MarkDoneRow, MarkFailedRow
<1>7. ASSUME RecordingFails(w), wpc[w] # "idle" PROVE WorkerTypeOK'
    BY <1>2, <1>7 DEF RecordingFails, RetryOrFail
<1>8. CASE WorkerFault(w)
  <2>1. RepositoryTypeOK'
      BY <1>1, <1>8 DEF WorkerFault, Disturb, RepositoryTypeOK
  <2> QED BY <1>7, <1>8, <2>1 DEF WorkerFault
<1>9. CASE BackoffOverflows(w)
    BY <1>0, <1>7, <1>9 DEF BackoffOverflows
<1> QED BY <1>3, <1>4, <1>5, <1>6, <1>8, <1>9 DEF WorkerStep

LEMMA WatchdogTypeStep ==
    ASSUME RepositoryTypeOK, WatchdogTypeOK, WatchdogStep \/ WatchdogFault
    PROVE  RepositoryTypeOK' /\ WatchdogTypeOK'
<1>1. CASE SelectExpired \/ WatchdogFault
    BY <1>1 DEF SelectExpired, WatchdogFault, Expired, dbVars, RepositoryTypeOK, WatchdogTypeOK
<1>2. CASE ReleaseExpired \/ ClearExpired
  <2>1. RepositoryTypeOK'
      BY <1>2, ReclaimType DEF ReleaseExpired, ClearExpired, WatchdogTypeOK
  <2> QED BY <1>2, <2>1 DEF ReleaseExpired, ClearExpired, WatchdogTypeOK
<1> QED BY <1>1, <1>2 DEF WatchdogStep

LEMMA AdminTypeStep ==
    ASSUME RepositoryTypeOK, AdminTypeOK,
           AdminStep \/ AdminFault \/ \E t \in Tasks : AdminRequest(t)
    PROVE  RepositoryTypeOK' /\ AdminTypeOK'
<1> USE DEF AdminTypeOK
<1>1. CASE \E t \in Tasks : AdminRequest(t)
  <2>1. PICK t \in Tasks : AdminRequest(t)
      BY <1>1
  <2>2. RepositoryTypeOK'
      BY <2>1, AdminTransactionType DEF AdminRequest, CreateTask, RequeueTask, DeleteTask
  <2> QED BY <2>1, <2>2, RepositoryAssumption
          DEF AdminRequest, CreateTask, RequeueTask, DeleteTask, Begin
<1>2. CASE AdminStep \/ AdminFault
  <2>1. target \in Tasks
      BY <1>2 DEF AdminStep, AdminFault, CreateRow, CreateConflict, RequeueRow, DeleteRuntimeRow, End
  <2>2. CASE CreateRow \/ RequeueRow \/ DeleteRuntimeRow
    <3>1. RepositoryTypeOK'
        BY <2>1, <2>2, AdminTransactionType, RepositoryAssumption
        DEF CreateRow, RequeueRow, DeleteRuntimeRow
    <3> QED BY <2>2, <3>1 DEF CreateRow, RequeueRow, DeleteRuntimeRow, End
  <2>3. CASE CreateConflict \/ AdminFault
      BY <2>3 DEF CreateConflict, AdminFault, End, dbVars, RepositoryTypeOK
  <2> QED BY <1>2, <2>2, <2>3 DEF AdminStep
<1> QED BY <1>1, <1>2

LEMMA TypeStep == TypeOK /\ [Next]_vars => TypeOK'
<1> SUFFICES ASSUME TypeOK, [Next]_vars PROVE TypeOK'
    OBVIOUS
<1> USE DEF TypeOK
<1>d. ASSUME UNCHANGED dispatcherVars PROVE DispatcherTypeOK'
    BY <1>d DEF dispatcherVars, DispatcherTypeOK
<1>w. ASSUME UNCHANGED workerVars PROVE WorkerTypeOK'
    BY <1>w DEF workerVars, WorkerTypeOK
<1>g. ASSUME UNCHANGED watchdogVars PROVE WatchdogTypeOK'
    BY <1>g DEF watchdogVars, WatchdogTypeOK
<1>a. ASSUME UNCHANGED adminVars PROVE AdminTypeOK'
    BY <1>a DEF adminVars, AdminTypeOK
<1>q. ASSUME UNCHANGED queue PROVE QueueTypeOK'
    BY <1>q DEF QueueTypeOK
<1>r. ASSUME UNCHANGED dbVars PROVE RepositoryTypeOK'
    BY <1>r DEF dbVars, RepositoryTypeOK
<1>1. CASE UNCHANGED vars
    BY <1>1, <1>d, <1>w, <1>g, <1>a, <1>q, <1>r DEF vars
<1>2. CASE /\ DispatcherStep \/ DispatcherFault
           /\ UNCHANGED <<workerVars, watchdogVars, adminVars>>
    BY <1>2, <1>w, <1>g, <1>a, DispatcherTypeStep
<1>3. CASE \E w \in Workers : /\ WorkerStep(w) \/ WorkerFault(w)
                             /\ UNCHANGED <<dispatcherVars, watchdogVars, adminVars>>
    BY <1>3, <1>d, <1>g, <1>a, WorkerTypeStep
<1>4. CASE /\ WatchdogStep \/ WatchdogFault
           /\ UNCHANGED <<queue, dispatcherVars, workerVars, adminVars>>
    BY <1>4, <1>d, <1>w, <1>a, <1>q, WatchdogTypeStep
<1>5. CASE /\ AdminStep \/ AdminFault \/ \E t \in Tasks : AdminRequest(t)
           /\ UNCHANGED <<queue, dispatcherVars, workerVars, watchdogVars>>
    BY <1>5, <1>d, <1>w, <1>g, <1>q, AdminTypeStep
<1>6. CASE \E t \in Tasks : ExternalInsert(t) \/ TimePasses(t)
  <2>1. RepositoryTypeOK'
      BY <1>6, AdminTransactionType DEF ExternalInsert, TimePasses
  <2> QED BY <1>6, <2>1, <1>d, <1>w, <1>g, <1>a, <1>q DEF ExternalInsert, TimePasses
<1>7. CASE Crash
  <2>1. RepositoryTypeOK'
    <3>1. \A w \in Workers : wpc[w] \in Recording => job[w].id \in Tasks
        BY DEF WorkerTypeOK, Recording, Dto
    <3> QED BY <1>7, <3>1 DEF Crash, Disturb, RepositoryTypeOK
  <2>2. QueueTypeOK' /\ DispatcherTypeOK'
      BY <1>7 DEF Crash, QueueTypeOK, DispatcherReset, DispatcherTypeOK, Unread
  <2>3. WorkerTypeOK'
      BY <1>7, NoJobIsNoDto DEF Crash, WorkerTypeOK
  <2>4. WatchdogTypeOK' /\ AdminTypeOK'
      BY <1>7 DEF Crash, WatchdogTypeOK, AdminTypeOK
  <2> QED BY <2>1, <2>2, <2>3, <2>4
<1> QED
    BY <1>1, <1>2, <1>3, <1>4, <1>5, <1>6, <1>7
    DEF Next, DispatcherRuns, WorkerRuns, WatchdogRuns, AdminRuns, AdminRequests, Fault,
        DispatcherFails, WorkerFails, WatchdogFails, AdminFails

\* Type correctness: in every state the variables have the types the code gives
\* them, and the dispatcher holds a lease, a snapshot or a batch only where its
\* loop is at the step that uses it.
THEOREM TypeCorrect == Spec => []TypeOK
<1>1. Init => TypeOK
    BY InitType
<1>2. TypeOK /\ [Next]_vars => TypeOK'
    BY TypeStep
<1> QED BY <1>1, <1>2, PTL DEF Spec

-----------------------------------------------------------------------------
(* The queue always has room for what was leased *)

\* `free` counts the places left, as long as it is compared with nothing but the
\* queue the dispatcher alone adds to.
LEMMA BatchFits ==
    ASSUME RepositoryTypeOK, NEW n \in Nat, NEW S \in Batches(n)
    PROVE  S \in SUBSET Tasks /\ IsFiniteSet(S) /\ Cardinality(S) <= n
<1>1. S \in SUBSET Tasks
    BY DEF Batches, Leasable
<1>2. IsFiniteSet(S)
    BY <1>1, RepositoryAssumption, FS_Subset
<1>3. Cardinality(S) \in Nat
    BY <1>2, FS_CardinalityType
<1> QED BY <1>1, <1>2, <1>3 DEF Batches

\* The DTOs of a set of tasks are not more than the tasks.
LEMMA DtosFit ==
    ASSUME NEW S, IsFiniteSet(S)
    PROVE  /\ IsFiniteSet({DtoOf(t) : t \in S})
           /\ Cardinality({DtoOf(t) : t \in S}) <= Cardinality(S)
<1> DEFINE T == {DtoOf(t) : t \in S}
           f == [t \in S |-> DtoOf(t)]
<1>1. f \in Surjection(S, T)
    BY DEF Surjection
<1> QED BY <1>1, FS_Surjection

\* QueueFits is inductive once it also says that what is counted is finite.
QueueInv ==
    /\ IsFiniteSet(batch) /\ IsFiniteSet(leased)
    /\ QueueFits

LEMMA QueueInvInit == Init => QueueInv
<1> SUFFICES ASSUME Init PROVE QueueInv
    OBVIOUS
<1>1. Cardinality({}) = 0 /\ IsFiniteSet({})
    BY FS_EmptySet
<1> QED BY <1>1, QueueAssumption DEF Init, QueueInit, DispatcherInit, QueueInv, QueueFits, LeaseWindow

LEMMA QueueInvDispatcher ==
    ASSUME TypeOK, QueueInv, DispatcherStep \/ DispatcherFault
    PROVE  QueueInv'
<1> USE QueueAssumption DEF QueueInv, QueueFits, LeaseWindow
<1>0. Cardinality({}) = 0 /\ IsFiniteSet({})
    BY FS_EmptySet
<1>1. /\ Cardinality(batch) \in Nat /\ Cardinality(leased) \in Nat
      /\ Len(queue) \in Nat /\ want \in Nat
    BY FS_CardinalityType DEF TypeOK, QueueTypeOK, DispatcherTypeOK
<1>2. /\ leased # {} => dpc \in LeaseWindow \cup {"fetch"}
      /\ batch # {} => dpc = "put"
    BY DEF TypeOK, DispatcherTypeOK
<1>r. ASSUME DispatcherReset, UNCHANGED queue PROVE QueueInv'
    BY <1>r, <1>0, <1>1 DEF DispatcherReset
<1>3. CASE Poll
  <2>1. leased = {} /\ batch = {}
      BY <1>2, <1>3 DEF Poll
  <2>2. /\ leased' = {} /\ batch' = {} /\ queue' = queue
        /\ QueueMax # 0 => want' = QueueMax - Len(queue)
      BY <1>3, <2>1 DEF Poll, Free
  <2> QED BY <1>0, <1>1, <2>1, <2>2
<1>4. CASE Lease
  <2>1. PICK S \in Batches(want) :
            /\ leased' = S
            /\ dpc' = IF S = {} THEN "poll" ELSE "read"
            /\ want' = IF S = {} THEN 0 ELSE want
      BY <1>4 DEF Lease
  <2>2. IsFiniteSet(S) /\ Cardinality(S) <= want
      BY <1>1, BatchFits DEF TypeOK
  <2>3. batch' = {} /\ queue' = queue
      BY <1>2, <1>4 DEF Lease
  <2>4. QueueMax # 0 => Len(queue) + want <= QueueMax
      BY <1>4 DEF Lease
  <2>5. QueueMax # 0 => Len(queue) + want' <= QueueMax /\ Cardinality(leased') <= want'
    <3>1. CASE S = {}
        BY <1>0, <1>1, <2>1, <2>4, <3>1
    <3>2. CASE S # {}
        BY <2>1, <2>2, <2>4, <3>2
    <3> QED BY <3>1, <3>2
  <2>6. IsFiniteSet(leased')
      BY <2>1, <2>2
  <2> QED BY <1>0, <1>1, <2>3, <2>4, <2>5, <2>6
<1>5. CASE ReadRuntime \/ WriteRuntime \/ WriteConflict
    BY <1>2, <1>5 DEF ReadRuntime, WriteRuntime, WriteConflict
<1>6. CASE Compensate
    BY <1>6, <1>r DEF Compensate
<1>7. CASE Fetch
  <2>1. IsFiniteSet(batch') /\ Cardinality(batch') <= Cardinality(leased)
      BY <1>7, DtosFit DEF Fetch
  <2>2. Cardinality(batch') \in Nat
      BY <2>1, FS_CardinalityType
  <2> QED BY <1>0, <1>1, <1>7, <2>1, <2>2 DEF Fetch
<1>8. CASE PutNext
  <2>1. PICK dto \in batch : Put(dto) /\ batch' = batch \ {dto}
      BY <1>8 DEF PutNext
  <2>2. IsFiniteSet(batch') /\ Cardinality(batch') = Cardinality(batch) - 1
      BY <2>1, FS_RemoveElement
  <2>3. Len(queue') = Len(queue) + 1
      BY <2>1 DEF Put, TypeOK, QueueTypeOK
  <2>4. leased' = {} /\ dpc' \in {"poll", "put"}
      BY <1>2, <1>8 DEF PutNext
  <2>5. want' \in Nat
      BY <1>1, <1>8 DEF PutNext
  <2>6. QueueMax # 0 => Len(queue') + Cardinality(batch') <= QueueMax
      BY <1>1, <2>2, <2>3
  <2> QED BY <1>0, <2>2, <2>4, <2>5, <2>6
<1>9. CASE DispatcherFault
    BY <1>9, <1>2, <1>r DEF DispatcherFault
<1> QED BY <1>3, <1>4, <1>5, <1>6, <1>7, <1>8, <1>9 DEF DispatcherStep

LEMMA QueueInvStep == TypeOK /\ QueueInv /\ [Next]_vars => QueueInv'
<1> SUFFICES ASSUME TypeOK, QueueInv, [Next]_vars PROVE QueueInv'
    OBVIOUS
<1>1. ASSUME UNCHANGED queue, UNCHANGED dispatcherVars PROVE QueueInv'
    BY <1>1 DEF dispatcherVars, QueueInv, QueueFits
<1>2. CASE DispatcherStep \/ DispatcherFault
    BY <1>2, QueueInvDispatcher
<1>3. ASSUME NEW w \in Workers, WorkerStep(w) \/ WorkerFault(w), UNCHANGED dispatcherVars
      PROVE  QueueInv'
  <2>1. CASE Take(w)
    <3>1. Len(queue') \in Nat /\ Len(queue) \in Nat /\ Len(queue') < Len(queue)
        BY <2>1 DEF Take, Get, TypeOK, QueueTypeOK
    <3>2. Cardinality(batch) \in Nat /\ want \in Nat
        BY FS_CardinalityType DEF QueueInv, TypeOK, DispatcherTypeOK
    <3> QED BY <1>3, <3>1, <3>2, QueueAssumption DEF QueueInv, QueueFits, dispatcherVars
  <2>2. CASE ~Take(w)
    <3>1. UNCHANGED queue
        BY <1>3, <2>2 DEF WorkerStep, WorkerFault, Succeed, ReportFailure, Raise, MarkDoneStatus,
              MarkDoneRow, MarkRetryStatus, BackoffOverflows, MarkFailStatus, MarkFailedRow
    <3> QED BY <1>1, <1>3, <3>1
  <2> QED BY <2>1, <2>2
<1>4. CASE Crash
  <2>1. Cardinality({}) = 0 /\ IsFiniteSet({})
      BY FS_EmptySet
  <2> QED BY <1>4, <2>1, QueueAssumption
          DEF Crash, DispatcherReset, QueueInv, QueueFits, LeaseWindow
<1>5. CASE UNCHANGED vars
    BY <1>1, <1>5 DEF vars
<1>6. CASE WatchdogRuns \/ AdminRuns \/ \E t \in Tasks : AdminRequests(t) \/ ExternalInsert(t) \/ TimePasses(t)
    BY <1>1, <1>6 DEF WatchdogRuns, AdminRuns, AdminRequests, ExternalInsert, TimePasses
<1> QED BY <1>1, <1>2, <1>3, <1>4, <1>5, <1>6 DEF Next, DispatcherRuns, WorkerRuns, Fault,
        DispatcherFails, WorkerFails, WatchdogFails, AdminFails

\* With a bounded queue the dispatcher never holds more leases than the queue has
\* room for, although the free places are counted three transactions before the
\* first put: no lease waits in the dispatcher for a worker to make room.
THEOREM QueueAlwaysFits == Spec => []QueueFits
<1>1. Init => TypeOK /\ QueueInv
    BY InitType, QueueInvInit
<1>2. TypeOK /\ QueueInv /\ [Next]_vars => TypeOK' /\ QueueInv'
    BY TypeStep, QueueInvStep
<1>3. QueueInv => QueueFits
    BY DEF QueueInv
<1> QED BY <1>1, <1>2, <1>3, PTL DEF Spec
=============================================================================
