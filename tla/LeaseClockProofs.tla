-------------------------- MODULE LeaseClockProofs --------------------------
(***************************************************************************)
(* How old a lease gets, for any number of workers and any timeouts.       *)
(***************************************************************************)
EXTENDS LeaseClock, FiniteSetTheorems, TLAPS

\* The workers that will be free for a lease of this age: they are idle, or have been
\* at work for as long as it has been waiting.
Ahead(r, a) == {w \in Workers : r[w].at # "idle" => r[w].ran >= a}

\* A run ends by its timeout, a closing by its own: together they bound the age.
WorkInv(r) ==
    /\ r.at = "run" => r.ran <= HardTimeout
    /\ r.at = "close" => r.closing <= CloseTime /\ r.ran <= HardTimeout + r.closing
    /\ r.at # "idle" => r.age <= Longest + r.ran

\* The task at place i of the queue has i workers ahead of it: it is the reason why its
\* wait is bounded by one run and one closing, and no shorter statement is inductive.
ClockInv ==
    /\ ClockTypeOK
    /\ Len(waiting) <= QueueMax
    /\ \A i \in 1..Len(waiting) : waiting[i] <= Longest /\ Cardinality(Ahead(run, waiting[i])) >= i
    /\ \A w \in Workers : WorkInv(run[w])

LEMMA HardTimeoutType == HardTimeout \in Nat /\ Longest \in Nat
BY ClockAssumption DEF HardTimeout, Longest, Larger, Smaller

\* The agent leaves its margin, provided the lease timeout is two margins at least.
\* (With a smaller one the floor of the hard timeout takes the margin away.)
THEOREM HardTimeoutLeavesMargin == LeaseTimeout >= 2 * Margin => HardTimeout + Margin <= LeaseTimeout
BY ClockAssumption DEF HardTimeout, Larger, Smaller

LEMMA AheadFinite ==
    ASSUME NEW r, NEW a PROVE IsFiniteSet(Ahead(r, a)) /\ Cardinality(Ahead(r, a)) \in Nat
<1>1. IsFiniteSet(Ahead(r, a))
    BY ClockAssumption, FS_Subset DEF Ahead
<1> QED
    BY <1>1, FS_CardinalityType

LEMMA RemoveOne ==
    ASSUME NEW S, IsFiniteSet(S), NEW x PROVE Cardinality(S \ {x}) >= Cardinality(S) - 1
<1>1. Cardinality(S) \in Nat
    BY FS_CardinalityType
<1>2. Cardinality(S \ {x}) = IF x \in S THEN Cardinality(S) - 1 ELSE Cardinality(S)
    BY FS_RemoveElement
<1> QED
    BY <1>1, <1>2

LEMMA ClockInvStep == ClockInv /\ [Next]_vars => ClockInv'
<1> SUFFICES ASSUME ClockInv, [Next]_vars PROVE ClockInv'
    OBVIOUS
<1> HardTimeout \in Nat /\ CloseTime \in Nat /\ Longest = HardTimeout + CloseTime /\ QueueMax \in Nat
    BY HardTimeoutType, ClockAssumption, FS_CardinalityType DEF QueueMax, Longest
<1> USE DEF ClockInv, ClockTypeOK
<1>1. CASE Lease
  <2>1. \A i \in 1..Len(waiting') :
            waiting'[i] = IF i = Len(waiting) + 1 THEN 0 ELSE waiting[i]
      BY <1>1 DEF Lease
  <2>2. \A a : Ahead(run', a) = Ahead(run, a)
      BY <1>1 DEF Lease, Ahead
  <2>3. Ahead(run, 0) = Workers
      BY DEF Ahead
  <2> QED
      BY <1>1, <2>1, <2>2, <2>3 DEF Lease, QueueMax
<1>2. ASSUME NEW w \in Workers, Take(w) PROVE ClockInv'
  <2>0. /\ run' = [run EXCEPT ![w] = [at |-> "run", age |-> Head(waiting), ran |-> 0, closing |-> 0]]
        /\ run[w].at = "idle" /\ waiting' = Tail(waiting) /\ Len(waiting) > 0
      BY <1>2 DEF Take, Idle
  <2>1. ClockTypeOK'
      BY <2>0
  <2>2. \A i \in 1..Len(waiting') : waiting'[i] = waiting[i + 1] /\ i + 1 \in 1..Len(waiting)
      BY <2>0
  <2>3. ASSUME NEW a \in Nat PROVE Cardinality(Ahead(run', a)) >= Cardinality(Ahead(run, a)) - 1
    <3>1. Ahead(run, a) \ {w} \subseteq Ahead(run', a)
        BY <2>0 DEF Ahead
    <3>2. IsFiniteSet(Ahead(run', a)) /\ Cardinality(Ahead(run', a)) \in Nat
        BY AheadFinite
    <3>3. Cardinality(Ahead(run, a) \ {w}) >= Cardinality(Ahead(run, a)) - 1
        BY AheadFinite, RemoveOne
    <3>4. Cardinality(Ahead(run, a) \ {w}) <= Cardinality(Ahead(run', a))
        BY <3>1, <3>2, FS_Subset
    <3>5. Cardinality(Ahead(run, a) \ {w}) \in Nat
        BY AheadFinite, FS_Subset, FS_CardinalityType
    <3> QED
        BY <3>2, <3>3, <3>4, <3>5, AheadFinite
  <2>4. ASSUME NEW i \in 1..Len(waiting')
        PROVE  waiting'[i] <= Longest /\ Cardinality(Ahead(run', waiting'[i])) >= i
    <3>1. waiting'[i] = waiting[i + 1] /\ i + 1 \in 1..Len(waiting) /\ waiting[i + 1] \in Nat
        BY <2>2
    <3>2. Cardinality(Ahead(run', waiting[i + 1])) >= Cardinality(Ahead(run, waiting[i + 1])) - 1
        BY <2>3, <3>1
    <3>3. Cardinality(Ahead(run, waiting[i + 1])) >= i + 1
        BY <3>1
    <3>4. Cardinality(Ahead(run, waiting[i + 1])) \in Nat /\ Cardinality(Ahead(run', waiting[i + 1])) \in Nat
        BY AheadFinite
    <3>5. Ahead(run', waiting'[i]) = Ahead(run', waiting[i + 1])
        BY <3>1 DEF Ahead
    <3> QED
        BY <3>1, <3>2, <3>3, <3>4, <3>5
  <2>5. Head(waiting) \in Nat /\ Head(waiting) <= Longest
      BY <2>0
  <2>6. \A v \in Workers : WorkInv(run'[v])
      BY <2>0, <2>5 DEF WorkInv
  <2>7. (Len(waiting) <= QueueMax)'
      BY <2>0 DEF QueueMax
  <2> QED
      BY <2>1, <2>4, <2>6, <2>7 DEF Longest, HardTimeout
<1>3. ASSUME NEW w \in Workers, EndRun(w) \/ EndClose(w) \/ BuildFails(w) PROVE ClockInv'
  <2>0. /\ waiting' = waiting /\ \A v \in Workers \ {w} : run'[v] = run[v]
        /\ \/ run'[w] = Idle
           \/ /\ run[w].at = "run"
              /\ run'[w] = [at |-> "close", age |-> run[w].age, ran |-> run[w].ran, closing |-> 0]
      BY <1>3 DEF EndRun, EndClose, BuildFails
  <2>1. ASSUME NEW a PROVE Cardinality(Ahead(run', a)) >= Cardinality(Ahead(run, a))
    <3>1. Ahead(run, a) \subseteq Ahead(run', a)
        BY <2>0 DEF Ahead, Idle
    <3>2. IsFiniteSet(Ahead(run', a))
        BY ClockAssumption, FS_Subset DEF Ahead
    <3>3. Cardinality(Ahead(run, a)) <= Cardinality(Ahead(run', a))
        BY <3>1, <3>2, FS_Subset
    <3>4. Cardinality(Ahead(run', a)) \in Nat
        BY <3>2, FS_CardinalityType
    <3> QED
        BY <3>3, <3>4, AheadFinite
  <2>2. ASSUME NEW i \in 1..Len(waiting) PROVE Cardinality(Ahead(run', waiting[i])) >= i
    <3>1. Cardinality(Ahead(run', waiting[i])) \in Nat
        BY AheadFinite
    <3> QED
        BY <2>1, <3>1, AheadFinite
  <2>3. waiting' = waiting /\ \A i : Ahead(run', waiting'[i]) = Ahead(run', waiting[i])
      BY <2>0 DEF Ahead
  <2>4. ClockTypeOK'
    <3>1. run' = [v \in Workers |-> run'[v]]
        BY <1>3 DEF EndRun, EndClose, BuildFails
    <3>2. /\ run'[w] \in [at : {"idle", "run", "close"}, age : Nat, ran : Nat, closing : Nat]
          /\ run'[w].at = "idle" => run'[w].age = 0
          /\ run'[w].at # "run"
        BY <2>0 DEF Idle
    <3>3. \A v \in Workers :
              /\ run'[v] \in [at : {"idle", "run", "close"}, age : Nat, ran : Nat, closing : Nat]
              /\ run'[v].at = "idle" => run'[v].age = 0
              /\ run'[v].at = "run" => run'[v].closing = 0
        BY <2>0, <3>2
    <3> QED BY <2>0, <3>1, <3>3
  <2>5. \A v \in Workers : WorkInv(run'[v])
    <3>1. WorkInv(run'[w])
        BY <2>0 DEF Idle, WorkInv
    <3> QED BY <2>0, <3>1
  <2> QED
      BY <2>2, <2>3, <2>4, <2>5 DEF Longest, HardTimeout, QueueMax
<1>4. CASE Tick
  <2>0. ASSUME NEW w \in Workers
        PROVE  IF run[w].at = "idle" THEN run'[w] = Idle
               ELSE /\ MayGoOn(run[w]) /\ run'[w].at = run[w].at
                    /\ run'[w].age = run[w].age + 1 /\ run'[w].ran = run[w].ran + 1
                    /\ run'[w].closing = IF run[w].at = "close" THEN run[w].closing + 1 ELSE 0
      BY <1>4 DEF Tick, Older
  <2>1. ClockTypeOK' /\ Len(waiting') = Len(waiting)
      BY <1>4 DEF Tick, Older, Idle
  <2>2. ASSUME NEW i \in 1..Len(waiting)
        PROVE  waiting'[i] <= Longest /\ Cardinality(Ahead(run', waiting'[i])) >= i
    <3>1. \A w \in Workers : run[w].at # "idle" /\ run[w].ran < Longest
      <4> SUFFICES ASSUME NEW w \in Workers PROVE run[w].at # "idle" /\ run[w].ran < Longest
          OBVIOUS
      <4>1. run[w].at # "idle"
          BY <1>4 DEF Tick
      <4>2. MayGoOn(run[w]) /\ WorkInv(run[w])
          BY <2>0, <4>1
      <4>3. run[w].ran \in Nat /\ run[w].closing \in Nat
          OBVIOUS
      <4> QED BY <4>1, <4>2, <4>3 DEF MayGoOn, WorkInv
    <3>2. waiting'[i] = waiting[i] + 1 /\ waiting[i] \in Nat
        BY <1>4 DEF Tick
    <3>3. Ahead(run', waiting'[i]) = Ahead(run, waiting[i])
        BY <2>0, <3>1, <3>2 DEF Ahead
    <3>4. Cardinality(Ahead(run, waiting[i])) >= i
        OBVIOUS
    <3>5. Ahead(run, waiting[i]) # {}
      <4>1. Cardinality({}) = 0
          BY FS_EmptySet
      <4>2. Ahead(run, waiting[i]) = {} => Cardinality(Ahead(run, waiting[i])) = 0
          BY <4>1, Zenon
      <4> QED
          BY <3>4, <4>2
    <3>6. waiting[i] < Longest
        BY <3>1, <3>2, <3>5 DEF Ahead
    <3> QED
        BY <3>2, <3>3, <3>4, <3>6
  <2>3. ASSUME NEW w \in Workers PROVE WorkInv(run'[w])
    <3>1. CASE run[w].at = "idle"
        BY <2>0, <3>1 DEF Idle, WorkInv
    <3>2. CASE run[w].at # "idle"
      <4>1. MayGoOn(run[w]) /\ WorkInv(run[w])
          BY <2>0, <3>2
      <4>2. /\ run'[w].at = run[w].at
            /\ run'[w].age = run[w].age + 1 /\ run'[w].ran = run[w].ran + 1
            /\ run'[w].closing = IF run[w].at = "close" THEN run[w].closing + 1 ELSE 0
          BY <2>0, <3>2
      <4>3. run[w].age \in Nat /\ run[w].ran \in Nat /\ run[w].closing \in Nat
          OBVIOUS
      <4> HIDE DEF ClockInv, ClockTypeOK
      <4> QED BY <4>1, <4>2, <4>3 DEF MayGoOn, WorkInv
    <3> QED BY <3>1, <3>2
  <2> QED
      BY <2>1, <2>2, <2>3 DEF Longest, HardTimeout, QueueMax
<1>5. CASE UNCHANGED vars
    BY <1>5 DEF vars, Ahead
<1> QED
    BY <1>1, <1>2, <1>3, <1>4, <1>5 DEF Next

\* A lease is at most as old as two runs and two closings take when its worker is done
\* with it (dispatcher.py:50 and runner.py:129), whatever the number of workers.
THEOREM LeaseAgeIsBounded == Spec => []AgeBounded
<1>1. Init => ClockInv
    BY ClockAssumption, FS_CardinalityType
       DEF Init, ClockInv, ClockTypeOK, WorkInv, Idle, QueueMax
<1>2. ClockInv => AgeBounded
    BY HardTimeoutType, ClockAssumption DEF ClockInv, ClockTypeOK, WorkInv, AgeBounded, Longest
<1> QED
    BY <1>1, <1>2, ClockInvStep, PTL DEF Spec
=============================================================================
