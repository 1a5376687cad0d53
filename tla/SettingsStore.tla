---------------------------- MODULE SettingsStore ----------------------------
(***************************************************************************)
(* The dynamic settings (settings_store.py): a cache with a time to live   *)
(* over the settings table, read by every loop of the service and written  *)
(* by the admin API.  A row of the table is the version of its values (the *)
(* number of updates committed before it) and the fields it has.  Every    *)
(* start of the process, perhaps of another release, bootstraps the table  *)
(* before it serves.  The calls in progress interleave at every await: at  *)
(* the lock and around the database.                                       *)
(***************************************************************************)
EXTENDS Naturals

CONSTANTS
    Keys,      \* "agent", "browser", "worker"
    Releases,  \* the releases of the service: the fields of a setting each knows
    Calls,     \* the calls that may be in progress at once
    NoCall,
    NoKey

ASSUME SettingsAssumption ==
    /\ NoCall \notin Calls
    /\ NoKey \notin Keys

VARIABLES
    db,      \* the settings table; a setting without a row is a row without fields
    release, \* the release that is running
    todo,    \* the settings bootstrap has not ensured yet
    current, \* the one it has read from the table, and the row it found
    cache,   \* per key: the cached version, and whether its time to live has passed
    lock,    \* the call that holds the lock
    pc,      \* where each call is
    key,     \* the key it is about
    raw,     \* the version it has read from the table
    last     \* history: the version the last get of the key returned

bootVars == <<release, todo, current>>
callVars == <<lock, pc, key, raw>>
vars == <<db, cache, bootVars, callVars, last>>

Row == [ver : Nat, fields : SUBSET UNION Releases]
NoRow == [ver |-> 0, fields |-> {}]
NotRead == [key |-> NoKey, row |-> NoRow]

Ages == {"none", "fresh", "stale"}
Absent == [age |-> "none", val |-> 0]
Fresh(k) == cache[k].age = "fresh"

SettingsTypeOK ==
    /\ db \in [Keys -> Row]
    /\ release \in Releases
    /\ todo \subseteq Keys
    /\ current \in [key : todo \cup {NoKey}, row : Row]
    /\ cache \in [Keys -> [age : Ages, val : Nat]]
    /\ lock \in Calls \cup {NoCall}
    /\ pc \in [Calls -> {"idle", "wait", "fill", "store", "invalidate"}]
    /\ key \in [Calls -> Keys \cup {NoKey}]
    /\ \A c \in Calls : key[c] = NoKey <=> pc[c] = "idle"
    /\ raw \in [Calls -> Nat]
    /\ last \in [Keys -> Nat]

\* The table has just been created, and the process been started.
Init ==
    /\ db = [k \in Keys |-> NoRow]
    /\ release \in Releases
    /\ todo = Keys
    /\ current = NotRead
    /\ cache = [k \in Keys |-> Absent]
    /\ lock = NoCall
    /\ pc = [c \in Calls |-> "idle"]
    /\ key = [c \in Calls |-> NoKey]
    /\ raw = [c \in Calls |-> 0]
    /\ last = [k \in Keys |-> 0]

-----------------------------------------------------------------------------
(* bootstrap *)

Serving == todo = {}

EnsureRead(k) ==
    /\ k \in todo
    /\ current = NotRead
    /\ current' = [key |-> k, row |-> db[k]]
    /\ UNCHANGED <<db, cache, release, todo, callVars, last>>

\* Mutant: only a missing row is filled in.
Merge_OnlyMissing(row) == IF row.fields = {} THEN [row EXCEPT !.fields = release] ELSE row

\* {**defaults, **current}
Merge(row) == [ver |-> row.ver, fields |-> release \cup row.fields]

\* The upsert is left out when nothing was missing.
EnsureWrite(k) ==
    /\ current.key = k
    /\ db' = IF Merge(current.row) = current.row THEN db
             ELSE [db EXCEPT ![k] = Merge(current.row)]
    /\ todo' = todo \ {k}
    /\ current' = NotRead
    /\ UNCHANGED <<cache, release, callVars, last>>

\* The process dies or is stopped, at any point of the bootstrap too (a query of which
\* that fails ends it), and is started again, as the same release or another.
Restart(to) ==
    /\ release' = to
    /\ todo' = Keys
    /\ current' = NotRead
    /\ cache' = [k \in Keys |-> Absent]
    /\ lock' = NoCall
    /\ pc' = [c \in Calls |-> "idle"]
    /\ key' = [c \in Calls |-> NoKey]
    /\ raw' = [c \in Calls |-> 0]
    /\ UNCHANGED <<db, last>>

-----------------------------------------------------------------------------
(* _get *)

Goto(c, from, to) == pc[c] = from /\ pc' = [pc EXCEPT ![c] = to]

\* A get of k returns version v.
Return(c, v) ==
    /\ pc' = [pc EXCEPT ![c] = "idle"]
    /\ key' = [key EXCEPT ![c] = NoKey]
    /\ last' = [last EXCEPT ![key[c]] = v]

\* A fresh entry is returned at once.
GetCached(k) ==
    /\ Fresh(k)
    /\ last' = [last EXCEPT ![k] = cache[k].val]
    /\ UNCHANGED <<db, cache, bootVars, callVars>>

GetMissed(c, k) ==
    /\ Serving
    /\ ~Fresh(k)
    /\ Goto(c, "idle", "wait")
    /\ key' = [key EXCEPT ![c] = k]
    /\ UNCHANGED <<db, bootVars, cache, lock, raw, last>>

\* With the lock the entry is looked at once more: another call may have filled it.
FilledMeanwhile(c) ==
    /\ pc[c] = "wait"
    /\ lock = NoCall
    /\ Fresh(key[c])
    /\ Return(c, cache[key[c]].val)
    /\ UNCHANGED <<db, bootVars, cache, lock, raw>>

\* Mutant: there is no lock.
Lock_Shared(c) ==
    /\ Goto(c, "wait", "fill")
    /\ ~Fresh(key[c])
    /\ lock' = c
    /\ UNCHANGED <<db, bootVars, cache, key, raw, last>>

\* Mutant: the entry is not looked at again.
Lock_NoSecondLook(c) ==
    /\ Goto(c, "wait", "fill")
    /\ lock = NoCall
    /\ lock' = c
    /\ UNCHANGED <<db, bootVars, cache, key, raw, last>>

Lock(c) ==
    /\ Goto(c, "wait", "fill")
    /\ lock = NoCall
    /\ ~Fresh(key[c])
    /\ lock' = c
    /\ UNCHANGED <<db, bootVars, cache, key, raw, last>>

ReadTable(c) ==
    /\ Goto(c, "fill", "store")
    /\ raw' = [raw EXCEPT ![c] = db[key[c]].ver]
    /\ UNCHANGED <<db, bootVars, cache, lock, key, last>>

StoreInCache(c) ==
    /\ pc[c] = "store"
    /\ cache' = [cache EXCEPT ![key[c]] = [age |-> "fresh", val |-> raw[c]]]
    /\ lock' = NoCall
    /\ Return(c, raw[c])
    /\ UNCHANGED <<db, bootVars, raw>>

\* Mutant: the lock is not released.
FillFails_KeepsLock(c) ==
    /\ pc[c] \in {"fill", "store"}
    /\ pc' = [pc EXCEPT ![c] = "idle"]
    /\ key' = [key EXCEPT ![c] = NoKey]
    /\ UNCHANGED <<db, bootVars, cache, lock, raw, last>>

\* Mutant: the call ends half way.
FillFails_KeepsKey(c) ==
    /\ pc[c] \in {"fill", "store"}
    /\ lock' = NoCall
    /\ pc' = [pc EXCEPT ![c] = "idle"]
    /\ UNCHANGED <<db, bootVars, cache, key, raw, last>>

\* The query fails, or what is stored does not validate: the caller's problem.
FillFails(c) ==
    /\ pc[c] \in {"fill", "store"}
    /\ lock' = NoCall
    /\ pc' = [pc EXCEPT ![c] = "idle"]
    /\ key' = [key EXCEPT ![c] = NoKey]
    /\ UNCHANGED <<db, bootVars, cache, raw, last>>

-----------------------------------------------------------------------------
(* update_*, as the PUT routes call it *)

\* The whole setting, as the running release knows it.
Upsert(c, k) ==
    /\ Serving
    /\ Goto(c, "idle", "invalidate")
    /\ key' = [key EXCEPT ![c] = k]
    /\ db' = [db EXCEPT ![k] = [ver |-> @.ver + 1, fields |-> release]]
    /\ UNCHANGED <<cache, bootVars, lock, raw, last>>

\* All keys; then the route gets the setting, which is no longer cached.
Invalidate(c) ==
    /\ Goto(c, "invalidate", "wait")
    /\ cache' = [k \in Keys |-> Absent]
    /\ UNCHANGED <<db, bootVars, lock, key, raw, last>>

-----------------------------------------------------------------------------
\* The time to live of an entry passes.
Age(k) ==
    /\ Fresh(k)
    /\ cache' = [cache EXCEPT ![k] = [age |-> "stale", val |-> cache[k].val]]
    /\ UNCHANGED <<db, bootVars, lock, pc, key, raw, last>>

CallStep(c) ==
    \/ FilledMeanwhile(c)
    \/ Lock(c)
    \/ ReadTable(c)
    \/ StoreInCache(c)
    \/ Invalidate(c)

Next ==
    \/ \E c \in Calls : CallStep(c) \/ FillFails(c)
    \/ \E c \in Calls, k \in Keys : GetMissed(c, k) \/ Upsert(c, k)
    \/ \E k \in Keys : GetCached(k) \/ Age(k) \/ EnsureRead(k) \/ EnsureWrite(k)
    \/ \E to \in Releases : Restart(to)

\* The lock is handed on in the order of arrival (asyncio.Lock): a call that waits for
\* it gets it, if it is let go again and again.
Spec == Init /\ [][Next]_vars
FairSpec == Spec /\ \A c \in Calls : SF_vars(CallStep(c))

-----------------------------------------------------------------------------
(* Properties *)

\* What the service reads of a setting never goes back to an older version, whichever
\* caller asks and however updates, invalidations and fills interleave, nor after a
\* restart: the fills of the cache follow each other under the lock, and bootstrap
\* keeps what is stored.
MonotonicReads == [][\A k \in Keys : last'[k] >= last[k]]_vars

\* Only the holder of the lock is filling the cache, so an entry that was missing stays
\* missing until its fill is stored.
OneFill ==
    \A c \in Calls :
        /\ pc[c] \in {"fill", "store"} <=> lock = c
        /\ pc[c] \in {"fill", "store"} => ~Fresh(key[c])

\* While the service serves, every setting is stored with all the fields its release
\* knows, whatever release wrote it and wherever an earlier bootstrap was interrupted.
Bootstrapped == Serving => \A k \in Keys : release \subseteq db[k].fields

\* Every get and every update returns, also when the fill of another one fails.
EveryCallReturns == \A c \in Calls : pc[c] # "idle" ~> pc[c] = "idle"
=============================================================================
