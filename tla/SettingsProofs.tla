--------------------------- MODULE SettingsProofs ---------------------------
(***************************************************************************)
(* What a reader of a setting sees never goes back, and what is served has *)
(* been bootstrapped: the proof, for any number of settings, releases,     *)
(* calls, updates and restarts.                                            *)
(***************************************************************************)
EXTENDS SettingsStore, TLAPS

\* What has been returned is not newer than what a reader may be given next: a fresh
\* entry, or the version a fill has read and not stored yet.
Ordered ==
    /\ \A k \in Keys :
          /\ cache[k].val <= db[k].ver
          /\ last[k] <= db[k].ver
          /\ Fresh(k) => last[k] <= cache[k].val
    /\ \A c \in Calls : pc[c] = "store" => last[key[c]] <= raw[c] /\ raw[c] <= db[key[c]].ver

\* While bootstrap is at a setting nobody else writes it, and those it has passed have
\* the fields of the release.
Ensured ==
    /\ current.key # NoKey => current.row = db[current.key]
    /\ \A k \in Keys \ todo : release \subseteq db[k].fields

SettingsInv == SettingsTypeOK /\ OneFill /\ Ordered /\ Ensured

\* The actions, one by one, with the parameters of each.
LEMMA SettingsTypeStep == SettingsTypeOK /\ [Next]_vars => SettingsTypeOK'
<1> SUFFICES ASSUME SettingsTypeOK, [Next]_vars PROVE SettingsTypeOK'
    OBVIOUS
<1> USE SettingsAssumption DEF SettingsTypeOK, Ages, Absent, Fresh, Goto, Return, Row, NoRow, NotRead,
        Serving, Merge, bootVars, callVars
<1>1. ASSUME NEW c \in Calls, FilledMeanwhile(c) PROVE SettingsTypeOK'
    BY <1>1 DEF FilledMeanwhile
<1>2. ASSUME NEW c \in Calls, Lock(c) PROVE SettingsTypeOK'
    BY <1>2 DEF Lock
<1>3. ASSUME NEW c \in Calls, ReadTable(c) PROVE SettingsTypeOK'
    BY <1>3 DEF ReadTable
<1>4. ASSUME NEW c \in Calls, StoreInCache(c) PROVE SettingsTypeOK'
    BY <1>4 DEF StoreInCache
<1>5. ASSUME NEW c \in Calls, Invalidate(c) PROVE SettingsTypeOK'
    BY <1>5 DEF Invalidate
<1>6. ASSUME NEW c \in Calls, FillFails(c) PROVE SettingsTypeOK'
    BY <1>6 DEF FillFails
<1>7. ASSUME NEW c \in Calls, NEW k \in Keys, GetMissed(c, k) PROVE SettingsTypeOK'
    BY <1>7 DEF GetMissed
<1>8. ASSUME NEW c \in Calls, NEW k \in Keys, Upsert(c, k) PROVE SettingsTypeOK'
    BY <1>8 DEF Upsert
<1>9. ASSUME NEW k \in Keys, GetCached(k) PROVE SettingsTypeOK'
    BY <1>9 DEF GetCached
<1>10. ASSUME NEW k \in Keys, Age(k) PROVE SettingsTypeOK'
    BY <1>10 DEF Age
<1>11. ASSUME NEW k \in Keys, EnsureRead(k) PROVE SettingsTypeOK'
    BY <1>11 DEF EnsureRead
<1>12. ASSUME NEW k \in Keys, EnsureWrite(k) PROVE SettingsTypeOK'
    BY <1>12 DEF EnsureWrite
<1>13. ASSUME NEW to \in Releases, Restart(to) PROVE SettingsTypeOK'
    BY <1>13 DEF Restart
<1>14. CASE UNCHANGED vars
    BY <1>14 DEF vars
<1> QED
    BY <1>1, <1>2, <1>3, <1>4, <1>5, <1>6, <1>7, <1>8, <1>9, <1>10, <1>11, <1>12, <1>13, <1>14
       DEF Next, CallStep

LEMMA SettingsInvStep == SettingsInv /\ [Next]_vars => SettingsInv'
<1> SUFFICES ASSUME SettingsInv, [Next]_vars PROVE SettingsInv'
    OBVIOUS
<1> SettingsTypeOK /\ SettingsTypeOK'
    BY SettingsTypeStep DEF SettingsInv
<1> SUFFICES (OneFill /\ Ordered /\ Ensured)'
    BY DEF SettingsInv
<1> OneFill /\ Ordered /\ Ensured
    BY DEF SettingsInv
<1> USE SettingsAssumption DEF SettingsTypeOK, Ages, Absent, Fresh, Goto, Return, Row, NoRow, NotRead,
        Serving, Merge, bootVars, callVars, OneFill, Ordered, Ensured
<1>1. ASSUME NEW c \in Calls, FilledMeanwhile(c) PROVE (OneFill /\ Ordered /\ Ensured)'
    BY <1>1 DEF FilledMeanwhile
<1>2. ASSUME NEW c \in Calls, Lock(c) PROVE (OneFill /\ Ordered /\ Ensured)'
    BY <1>2 DEF Lock
<1>3. ASSUME NEW c \in Calls, ReadTable(c) PROVE (OneFill /\ Ordered /\ Ensured)'
    BY <1>3 DEF ReadTable
<1>4. ASSUME NEW c \in Calls, StoreInCache(c) PROVE (OneFill /\ Ordered /\ Ensured)'
    BY <1>4 DEF StoreInCache
<1>5. ASSUME NEW c \in Calls, Invalidate(c) PROVE (OneFill /\ Ordered /\ Ensured)'
    BY <1>5 DEF Invalidate
<1>6. ASSUME NEW c \in Calls, FillFails(c) PROVE (OneFill /\ Ordered /\ Ensured)'
    BY <1>6 DEF FillFails
<1>7. ASSUME NEW c \in Calls, NEW k \in Keys, GetMissed(c, k) PROVE (OneFill /\ Ordered /\ Ensured)'
    BY <1>7 DEF GetMissed
<1>8. ASSUME NEW c \in Calls, NEW k \in Keys, Upsert(c, k) PROVE (OneFill /\ Ordered /\ Ensured)'
    BY <1>8 DEF Upsert
<1>9. ASSUME NEW k \in Keys, GetCached(k) PROVE (OneFill /\ Ordered /\ Ensured)'
    BY <1>9 DEF GetCached
<1>10. ASSUME NEW k \in Keys, Age(k) PROVE (OneFill /\ Ordered /\ Ensured)'
    BY <1>10 DEF Age
<1>11. ASSUME NEW k \in Keys, EnsureRead(k) PROVE (OneFill /\ Ordered /\ Ensured)'
    BY <1>11 DEF EnsureRead
<1>12. ASSUME NEW k \in Keys, EnsureWrite(k) PROVE (OneFill /\ Ordered /\ Ensured)'
    BY <1>12 DEF EnsureWrite
<1>13. ASSUME NEW to \in Releases, Restart(to) PROVE (OneFill /\ Ordered /\ Ensured)'
    BY <1>13 DEF Restart
<1>14. CASE UNCHANGED vars
    BY <1>14 DEF vars
<1> QED
    BY <1>1, <1>2, <1>3, <1>4, <1>5, <1>6, <1>7, <1>8, <1>9, <1>10, <1>11, <1>12, <1>13, <1>14
       DEF Next, CallStep

\* Fills exclude each other (SettingsStore._lock), and what has been returned is never
\* newer than what is to be returned next.
THEOREM SettingsInvariant == Spec => []SettingsInv
<1>1. Init => SettingsInv
    BY SettingsAssumption DEF Init, SettingsInv, SettingsTypeOK, Ages, Absent, Fresh, OneFill, Ordered,
                              Ensured, Row, NoRow, NotRead
<1> QED
    BY <1>1, SettingsInvStep, PTL DEF Spec

\* Types, through restarts too.
THEOREM SettingsTypeCorrect == Spec => []SettingsTypeOK
<1>1. SettingsInv => SettingsTypeOK
    BY DEF SettingsInv
<1> QED
    BY <1>1, SettingsInvariant, PTL

\* The service serves only settings that have every field of its release
\* (SettingsStore.bootstrap before Lifespan in main.py).
THEOREM ServedSettingsAreComplete == Spec => []Bootstrapped
<1>1. SettingsInv => Bootstrapped
    BY DEF SettingsInv, Ensured, Bootstrapped, Serving
<1> QED
    BY <1>1, SettingsInvariant, PTL

\* One fill at a time, and only of a missing entry.
THEOREM FillsAreExclusive == Spec => []OneFill
<1>1. SettingsInv => OneFill
    BY DEF SettingsInv
<1> QED
    BY <1>1, SettingsInvariant, PTL

\* A reader never gets an older version of a setting than an earlier reader got.
THEOREM ReadsAreMonotonic == Spec => MonotonicReads
<1>1. SettingsInv /\ [Next]_vars => [\A k \in Keys : last'[k] >= last[k]]_vars
  <2> SUFFICES ASSUME SettingsInv, Next PROVE \A k \in Keys : last'[k] >= last[k]
      OBVIOUS
  <2> USE DEF SettingsInv, SettingsTypeOK, Fresh, Goto, Return, OneFill, Ordered
  <2>1. ASSUME NEW c \in Calls, CallStep(c) \/ FillFails(c) PROVE \A k \in Keys : last'[k] >= last[k]
      BY <2>1 DEF CallStep, FilledMeanwhile, Lock, ReadTable, StoreInCache, Invalidate, FillFails
  <2>2. ASSUME NEW c \in Calls, NEW k \in Keys, GetMissed(c, k) \/ Upsert(c, k)
        PROVE  \A m \in Keys : last'[m] >= last[m]
      BY <2>2 DEF GetMissed, Upsert
  <2>3. ASSUME NEW k \in Keys, GetCached(k) \/ Age(k) PROVE \A m \in Keys : last'[m] >= last[m]
      BY <2>3 DEF GetCached, Age
  <2>4. ASSUME NEW k \in Keys, EnsureRead(k) \/ EnsureWrite(k) PROVE \A m \in Keys : last'[m] >= last[m]
      BY <2>4 DEF EnsureRead, EnsureWrite
  <2>5. ASSUME NEW to \in Releases, Restart(to) PROVE \A m \in Keys : last'[m] >= last[m]
      BY <2>5 DEF Restart
  <2> QED
      BY <2>1, <2>2, <2>3, <2>4, <2>5 DEF Next
<1> QED
    BY <1>1, SettingsInvariant, PTL DEF Spec, MonotonicReads
=============================================================================
