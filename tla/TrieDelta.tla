----------------------------- MODULE TrieDelta ------------------------------
(***************************************************************************)
(* One reconcile pass over subnet_zone_trie: ApplyTrieDelta moves the      *)
(* kernel map, row by row, from the committed entries to the wanted ones,  *)
(* under the packets that look their zone up in it.                        *)
(*                                                                         *)
(* A row is a (tenant, prefix) of the one tenant the model looks at or of  *)
(* the sentinel tenant 0.  Of prefixes only matters which rows match a     *)
(* destination; of a lookup, whether it ends on one of them or falls       *)
(* through to the sentinel's 0.0.0.0/0.                                    *)
(***************************************************************************)
EXTENDS Naturals

CONSTANTS
    Rows,
    Own,          \* the rows of the tenant; the others are the sentinel's
    Catchall,     \* the sentinel's 0.0.0.0/0
    Zones, External, None,
    Dests,        \* destinations
    Covers,       \* the rows, but the catchall, whose prefix holds a destination
    MaxChanges,   \* bound on the changes of the desired trie
    MaxFails      \* bound on the writes the kernel refuses

ASSUME TrieAssumption ==
    /\ Own \subseteq Rows /\ Catchall \in Rows \ Own
    /\ External \in Zones /\ None \notin Zones
    /\ Covers \in [Dests -> SUBSET (Rows \ {Catchall})]
    /\ MaxChanges \in Nat /\ MaxFails \in Nat

VARIABLES
    cloud,       \* the entries BuildTrie gives for Neutron as it is now
    changes,
    ktrie,       \* the kernel map
    committed,   \* Neutron.Trie: the entries of the last committed pass
    want,        \* the entries of the pass under way (committed when idle)
    pc,          \* idle, upsert or delete
    todo,        \* the rows the phase has not reached
    firstErr,    \* a write of the pass failed
    outcome,     \* how the last pass ended
    fails,       \* writes refused so far
    doubt,       \* history: rows a pass that failed may have left written
    walk         \* the lookup of one packet

passVars == <<want, pc, todo, firstErr, outcome, doubt>>
vars == <<cloud, changes, ktrie, committed, passVars, fails, walk>>

\* The tries BuildTrie emits while a tenant exists: the catchall, EXTERNAL, is in
\* each of them.
Tries == {t \in [Rows -> Zones \cup {None}] : t[Catchall] = External}

Has(t, r) == t[r] # None
Diff == {r \in Rows : committed[r] # want[r]}

-----------------------------------------------------------------------------
(* Neutron.                                                                *)

\* A subnet, port or route changes a row of the desired trie.
RowChange(r, z) ==
    /\ changes < MaxChanges /\ cloud[r] # z /\ [cloud EXCEPT ![r] = z] \in Tries
    /\ cloud' = [cloud EXCEPT ![r] = z]
    /\ changes' = changes + 1
    /\ UNCHANGED <<ktrie, committed, passVars, fails, walk>>

-----------------------------------------------------------------------------
(* The pass.                                                               *)

\* Fault: rows whose zone changed are left out of the diff.
SyncAddedOnly ==
    /\ pc = "idle"
    /\ pc' = "upsert" /\ firstErr' = FALSE
    /\ want' = cloud
    /\ todo' = {r \in Rows : Has(cloud, r) /\ ~Has(committed, r)}
    /\ walk' = [walk EXCEPT !.tracked = FALSE]
    /\ UNCHANGED <<cloud, changes, ktrie, committed, outcome, doubt, fails>>

\* fetch, and the diff against the committed rows.  A lookup that straddles the
\* start or the end of a pass is not tracked.
Sync ==
    /\ pc = "idle"
    /\ pc' = "upsert" /\ firstErr' = FALSE
    /\ want' = cloud
    /\ todo' = {r \in Rows : Has(cloud, r) /\ committed[r] # cloud[r]}
    /\ walk' = [walk EXCEPT !.tracked = FALSE]
    /\ UNCHANGED <<cloud, changes, ktrie, committed, outcome, doubt, fails>>

\* Phase 1: an added or changed row.
Upsert(r, ok) ==
    /\ pc = "upsert" /\ r \in todo
    /\ ok \/ fails < MaxFails
    /\ todo' = todo \ {r}
    /\ ktrie' = IF ok THEN [ktrie EXCEPT ![r] = want[r]] ELSE ktrie
    /\ firstErr' = (firstErr \/ ~ok)
    /\ fails' = IF ok THEN fails ELSE fails + 1
    /\ UNCHANGED <<cloud, changes, committed, want, pc, outcome, doubt, walk>>

\* Phase 2 opens only when every upsert landed.
UpsertsDone ==
    /\ pc = "upsert" /\ todo = {} /\ ~firstErr
    /\ pc' = "delete"
    /\ todo' = {r \in Rows : Has(committed, r) /\ ~Has(want, r)}
    /\ UNCHANGED <<cloud, changes, ktrie, committed, want, firstErr, outcome, doubt, fails, walk>>

\* A row that is gone.  To delete a row the kernel does not have is an error
\* too (ErrKeyNotExist).
Delete(r, ok) ==
    /\ pc = "delete" /\ r \in todo
    /\ ok => Has(ktrie, r)
    /\ ok \/ ~Has(ktrie, r) \/ fails < MaxFails
    /\ todo' = todo \ {r}
    /\ ktrie' = IF ok THEN [ktrie EXCEPT ![r] = None] ELSE ktrie
    /\ firstErr' = (firstErr \/ ~ok)
    /\ fails' = IF ok \/ ~Has(ktrie, r) THEN fails ELSE fails + 1
    /\ UNCHANGED <<cloud, changes, committed, want, pc, outcome, doubt, walk>>

\* An error in either phase: no commit.
ApplyFailed ==
    /\ pc # "idle" /\ todo = {} /\ firstErr
    /\ pc' = "idle" /\ outcome' = "apply_error"
    /\ doubt' = doubt \cup Diff
    /\ want' = committed
    /\ walk' = [walk EXCEPT !.tracked = FALSE]
    /\ UNCHANGED <<cloud, changes, ktrie, committed, todo, firstErr, fails>>

\* Fault: a pass that failed is committed all the same.
CommitAnyway ==
    /\ pc = "delete" /\ todo = {}
    /\ pc' = "idle" /\ outcome' = "ok"
    /\ committed' = want
    /\ doubt' = doubt \ Diff
    /\ walk' = [walk EXCEPT !.tracked = FALSE]
    /\ UNCHANGED <<cloud, changes, ktrie, want, todo, firstErr, fails>>

\* Every write landed: the entries become the old side of the next diff.
Commit ==
    /\ pc = "delete" /\ todo = {} /\ ~firstErr
    /\ pc' = "idle" /\ outcome' = "ok"
    /\ committed' = want
    /\ doubt' = doubt \ Diff
    /\ walk' = [walk EXCEPT !.tracked = FALSE]
    /\ UNCHANGED <<cloud, changes, ktrie, want, todo, firstErr, fails>>

-----------------------------------------------------------------------------
(* lookup_zone: the tenant's rows, then, in a second lookup, the           *)
(* sentinel's.                                                             *)

Hits(t, d, rows) == {r \in Covers[d] \cap rows : Has(t, r)}

LookupOwn(d) ==
    /\ walk.at # "sentinel"
    /\ walk' = [at |-> IF Hits(ktrie, d, Own) # {} THEN "hit" ELSE "sentinel",
                dest |-> d, tracked |-> TRUE]
    /\ UNCHANGED <<cloud, changes, ktrie, committed, passVars, fails>>

\* Fault: the second lookup still asks for the tenant's rows.
LookupTenantAgain ==
    /\ walk.at = "sentinel"
    /\ walk' = [walk EXCEPT !.at =
           IF Hits(ktrie, walk.dest, Own) # {} THEN "hit"
           ELSE IF Has(ktrie, Catchall) THEN "catchall" ELSE "miss"]
    /\ UNCHANGED <<cloud, changes, ktrie, committed, passVars, fails>>

LookupSentinel ==
    /\ walk.at = "sentinel"
    /\ walk' = [walk EXCEPT !.at =
           IF Hits(ktrie, walk.dest, Rows \ Own) # {} THEN "hit"
           ELSE IF Has(ktrie, Catchall) THEN "catchall" ELSE "miss"]
    /\ UNCHANGED <<cloud, changes, ktrie, committed, passVars, fails>>

-----------------------------------------------------------------------------
\* The cold start wrote and committed the same entries.
Init ==
    /\ cloud \in Tries /\ changes = 0
    /\ ktrie = cloud /\ committed = cloud /\ want = cloud
    /\ pc = "idle" /\ todo = {} /\ firstErr = FALSE /\ outcome = "ok"
    /\ fails = 0 /\ doubt = {}
    /\ walk \in [at : {"hit"}, dest : Dests, tracked : {FALSE}]

Pass ==
    \/ Sync
    \/ \E r \in todo, ok \in BOOLEAN : Upsert(r, ok) \/ Delete(r, ok)
    \/ UpsertsDone \/ ApplyFailed \/ Commit

Next ==
    \/ \E r \in Rows, z \in Zones \cup {None} : RowChange(r, z)
    \/ Pass
    \/ \E d \in Dests : LookupOwn(d)
    \/ LookupSentinel

Spec == Init /\ [][Next]_vars

\* Reconciler.Run passes on every tick.
FairSpec == Spec /\ WF_vars(Pass)

-----------------------------------------------------------------------------
\* Every variable has its type, and an idle reconciler wants what it
\* committed.
TypeOK ==
    /\ {cloud, committed, want} \subseteq Tries
    /\ ktrie \in [Rows -> Zones \cup {None}]
    /\ pc \in {"idle", "upsert", "delete"} /\ todo \subseteq Rows
    /\ firstErr \in BOOLEAN /\ outcome \in {"ok", "apply_error"}
    /\ changes \in Nat /\ fails \in Nat /\ doubt \subseteq Rows
    /\ walk \in [at : {"hit", "sentinel", "catchall", "miss"}, dest : Dests, tracked : BOOLEAN]
    /\ pc = "idle" => want = committed

\* Some row of t, but the catchall and those in doubt, covers d.
Sure(t, d) == Hits(t, d, Rows \ doubt) # {}

\* At no moment of a pass, failed or not, does a destination that both the
\* committed and the wanted entries cover fall through to the catchall: all
\* upserts land before the first delete (ApplyTrieDelta).
NoGap == \A d \in Dests : Sure(committed, d) /\ Sure(want, d) => Hits(ktrie, d, Rows) # {}

\* Between passes the kernel holds exactly the committed entries, but for the
\* rows that a failed pass touched and no later pass rewrote.
KernelIsCommitted == pc = "idle" => \A r \in Rows \ doubt : ktrie[r] = committed[r]

\* A packet whose two lookups fall within one pass meets no gap either, as
\* long as the same table, the tenant's or the sentinel's, covers its
\* destination before and after (lookup_zone, ApplyTrieDelta).  A prefix that
\* moves from one table to the other can be missed by both lookups.
WalkMeetsNoGap ==
    walk.at \in {"catchall", "miss"} /\ walk.tracked =>
        \A table \in {Own, Rows \ Own} :
            Hits(committed, walk.dest, table \ doubt) = {} \/ Hits(want, walk.dest, table \ doubt) = {}

\* Unless the kernel refuses a write, kernel and committed entries reach
\* Neutron's for good (Reconciler.Run, ApplyTrieDelta, Commit).
Converges == [](changes = MaxChanges => <>[](fails > 0 \/ (committed = cloud /\ ktrie = cloud)))

-----------------------------------------------------------------------------
(* A statement of the code that its behaviour contradicts.                 *)

\* reconcile.go, applyTrie: after a failure "the next pass re-diffs against it
\* and retries the failed writes".
FailedPassRetried == [](changes = MaxChanges => <>(committed = cloud))
=============================================================================
