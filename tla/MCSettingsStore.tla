-------------------------- MODULE MCSettingsStore --------------------------
(***************************************************************************)
(* SettingsStore with a bounded number of updates.                         *)
(***************************************************************************)
EXTENDS SettingsStore, TLC

CONSTANTS MaxUpdates, OldField, NewField

MCReleases == {{OldField}, {OldField, NewField}}

Symmetry == Permutations(Keys) \cup Permutations(Calls)

MCNext ==
    \/ \E c \in Calls : CallStep(c) \/ FillFails(c)
    \/ \E c \in Calls, k \in Keys :
          \/ GetMissed(c, k)
          \/ db[k].ver < MaxUpdates /\ Upsert(c, k)
    \/ \E k \in Keys : GetCached(k) \/ Age(k) \/ EnsureRead(k) \/ EnsureWrite(k)
    \/ \E to \in Releases : Restart(to)

MCSpec == Init /\ [][MCNext]_vars
MCFairSpec == MCSpec /\ \A c \in Calls : SF_vars(CallStep(c))
=============================================================================
