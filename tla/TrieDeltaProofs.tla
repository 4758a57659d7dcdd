-------------------------- MODULE TrieDeltaProofs ---------------------------
(***************************************************************************)
(* Proofs about TrieDelta for any rows, destinations and zones, and any    *)
(* number of changes and refused writes.                                   *)
(*                                                                         *)
(* The argument: outside the rows in doubt, phase 1 only ever adds to the  *)
(* committed entries, and phase 2 starts from a kernel that holds every    *)
(* wanted entry and removes only rows that are not wanted.  So a table     *)
(* that serves a destination before and after a pass serves it throughout, *)
(* and the two lookups of a packet cannot both go past it.                 *)
(***************************************************************************)
EXTENDS TrieDelta, TLAPS

\* What a phase has still to do.
TodoInv ==
    /\ pc = "idle" => todo = {}
    /\ pc = "upsert" => todo \subseteq {r \in Rows : Has(want, r) /\ committed[r] # want[r]}
    /\ pc = "delete" => todo \subseteq {r \in Rows : Has(committed, r) /\ ~Has(want, r)}

\* A row the pass does not write, or has not reached.
Untouched(r) ==
    /\ r \notin doubt /\ committed[r] = want[r] => ktrie[r] = committed[r]
    /\ r \notin doubt /\ pc # "delete" /\ Has(committed, r) => Has(ktrie, r)

\* A row the pass has written.
Written(r) ==
    /\ pc = "upsert" /\ ~firstErr /\ Has(want, r) /\ committed[r] # want[r] /\ r \notin todo
           => ktrie[r] = want[r]
    /\ pc = "delete" /\ Has(want, r) /\ committed[r] # want[r] => ktrie[r] = want[r]
    /\ pc = "delete" /\ ~firstErr /\ Has(committed, r) /\ ~Has(want, r) /\ r \notin todo
           => ~Has(ktrie, r)

\* The inductive invariant.
IInv == TypeOK /\ TodoInv /\ \A r \in Rows : Untouched(r) /\ Written(r)

\* The cold start establishes the invariant.
LEMMA InitIInv == Init => IInv
<1> SUFFICES ASSUME Init PROVE IInv
  OBVIOUS
<1> USE TrieAssumption DEF Init
<1>1. TypeOK
  BY DEF TypeOK, Tries
<1>2. TodoInv /\ \A r \in Rows : Untouched(r) /\ Written(r)
  BY DEF TodoInv, Untouched, Written
<1> QED BY <1>1, <1>2 DEF IInv

\* Neutron and the packets do not touch the pass.
LEMMA EnvironmentStep ==
    ASSUME IInv,
           \/ \E r \in Rows, z \in Zones \cup {None} : RowChange(r, z)
           \/ \E d \in Dests : LookupOwn(d)
           \/ LookupSentinel
    PROVE  IInv'
<1> USE TrieAssumption DEF passVars
<1>1. UNCHANGED <<ktrie, committed, want, pc, todo, firstErr, outcome, doubt, fails>>
  BY DEF RowChange, LookupOwn, LookupSentinel
<1>2. cloud' \in Tries /\ changes' \in Nat
  <2>1. cloud \in Tries /\ changes \in Nat
    BY DEF IInv, TypeOK
  <2>2. CASE UNCHANGED <<cloud, changes>>
    BY <2>1, <2>2
  <2>3. CASE \E r \in Rows, z \in Zones \cup {None} : RowChange(r, z)
    BY <2>1, <2>3 DEF RowChange
  <2> QED BY <2>2, <2>3 DEF LookupOwn, LookupSentinel
<1>3. walk' \in [at : {"hit", "sentinel", "catchall", "miss"}, dest : Dests, tracked : BOOLEAN]
  <2>1. CASE \E r \in Rows, z \in Zones \cup {None} : RowChange(r, z)
    BY <2>1 DEF IInv, TypeOK, RowChange
  <2>2. CASE \E d \in Dests : LookupOwn(d)
    BY <2>2 DEF LookupOwn
  <2>3. CASE LookupSentinel
    BY <2>3 DEF IInv, TypeOK, LookupSentinel
  <2> QED BY <2>1, <2>2, <2>3
<1>4. TypeOK'
  BY <1>1, <1>2, <1>3 DEF IInv, TypeOK
<1>5. TodoInv' /\ \A r \in Rows : Untouched(r)' /\ Written(r)'
  BY <1>1 DEF IInv, TodoInv, Untouched, Written, Has
<1> QED BY <1>4, <1>5 DEF IInv

\* The diff: nothing is written yet.
LEMMA SyncStep ==
    ASSUME IInv, Sync
    PROVE  IInv'
<1> USE TrieAssumption DEF Sync
<1>1. TypeOK'
  BY DEF IInv, TypeOK
<1>2. TodoInv'
  BY DEF IInv, TypeOK, TodoInv, Has
<1>3. \A r \in Rows : Untouched(r)' /\ Written(r)'
  BY DEF IInv, TypeOK, TodoInv, Untouched, Written, Has
<1> QED BY <1>1, <1>2, <1>3 DEF IInv

\* An upsert adds or changes one row, to its wanted zone.
LEMMA UpsertStep ==
    ASSUME IInv, NEW r \in todo, NEW ok \in BOOLEAN, Upsert(r, ok)
    PROVE  IInv'
<1> USE TrieAssumption DEF Upsert
<1>1. r \in Rows /\ Has(want, r) /\ committed[r] # want[r]
  BY DEF IInv, TodoInv
<1>2. firstErr' \in BOOLEAN
  OBVIOUS
<1>3. TypeOK'
  BY <1>1, <1>2 DEF IInv, TypeOK, Tries
<1>4. TodoInv'
  BY DEF IInv, TodoInv, Has
<1>5. ASSUME NEW s \in Rows PROVE Untouched(s)' /\ Written(s)'
  <2>1. ktrie \in [Rows -> Zones \cup {None}] /\ firstErr \in BOOLEAN
    BY DEF IInv, TypeOK
  <2>2. CASE s = r
    BY <1>1, <2>1, <2>2 DEF IInv, Untouched, Written, Has
  <2>3. CASE s # r
    BY <1>1, <2>1, <2>3 DEF IInv, Untouched, Written, Has
  <2> QED BY <2>2, <2>3
<1> QED BY <1>3, <1>4, <1>5 DEF IInv

\* When phase 2 opens, every wanted row of the diff is in the kernel.
LEMMA UpsertsDoneStep ==
    ASSUME IInv, UpsertsDone
    PROVE  IInv'
<1> USE TrieAssumption DEF UpsertsDone
<1>1. TypeOK'
  BY DEF IInv, TypeOK
<1>2. TodoInv'
  BY DEF IInv, TodoInv, Has
<1>3. \A r \in Rows : Untouched(r)' /\ Written(r)'
  BY DEF IInv, Untouched, Written, Has
<1> QED BY <1>1, <1>2, <1>3 DEF IInv

\* A delete removes one row that is not wanted.
LEMMA DeleteStep ==
    ASSUME IInv, NEW r \in todo, NEW ok \in BOOLEAN, Delete(r, ok)
    PROVE  IInv'
<1> USE TrieAssumption DEF Delete
<1>1. r \in Rows /\ Has(committed, r) /\ ~Has(want, r)
  BY DEF IInv, TodoInv
<1>2. firstErr' \in BOOLEAN
  OBVIOUS
<1>3. TypeOK'
  BY <1>1, <1>2 DEF IInv, TypeOK, Tries
<1>4. TodoInv'
  BY DEF IInv, TodoInv, Has
<1>5. ASSUME NEW s \in Rows PROVE Untouched(s)' /\ Written(s)'
  <2>1. ktrie \in [Rows -> Zones \cup {None}] /\ firstErr \in BOOLEAN
    BY DEF IInv, TypeOK
  <2>2. CASE s = r
    BY <1>1, <2>1, <2>2 DEF IInv, Untouched, Written, Has
  <2>3. CASE s # r
    BY <1>1, <2>1, <2>3 DEF IInv, Untouched, Written, Has
  <2> QED BY <2>2, <2>3
<1> QED BY <1>3, <1>4, <1>5 DEF IInv

\* A failed pass leaves its diff in doubt.
LEMMA FailedStep ==
    ASSUME IInv, ApplyFailed
    PROVE  IInv'
<1> USE TrieAssumption DEF ApplyFailed
<1>1. TypeOK'
  BY DEF IInv, TypeOK, Diff
<1>2. TodoInv' /\ \A r \in Rows : Untouched(r)' /\ Written(r)'
  BY DEF IInv, TypeOK, TodoInv, Untouched, Written, Has, Diff
<1> QED BY <1>1, <1>2 DEF IInv

\* A commit settles every row of its diff.
LEMMA CommitStep ==
    ASSUME IInv, Commit
    PROVE  IInv'
<1> USE TrieAssumption DEF Commit
<1>1. TypeOK'
  BY DEF IInv, TypeOK, Diff
<1>2. TodoInv' /\ \A r \in Rows : Untouched(r)' /\ Written(r)'
  BY DEF IInv, TypeOK, TodoInv, Untouched, Written, Has, Diff
<1> QED BY <1>1, <1>2 DEF IInv

\* Every step keeps the invariant.
LEMMA NextIInv == IInv /\ [Next]_vars => IInv'
<1> SUFFICES ASSUME IInv, [Next]_vars PROVE IInv'
  OBVIOUS
<1>1. CASE Pass
  BY <1>1, SyncStep, UpsertStep, UpsertsDoneStep, DeleteStep, FailedStep, CommitStep DEF Pass
<1>2. CASE UNCHANGED vars
  BY <1>2 DEF vars, passVars, IInv, TypeOK, TodoInv, Untouched, Written, Has
<1> QED BY <1>1, <1>2, EnvironmentStep DEF Next

\* The inductive invariant holds in every reachable state of passes.
THEOREM PassInvariant == Spec => []IInv
<1> QED BY InitIInv, NextIInv, PTL DEF Spec

\* Kernel, committed and wanted entries keep their types, whatever writes fail.
THEOREM TypeCorrect == Spec => []TypeOK
<1>1. IInv => TypeOK
  BY DEF IInv
<1> QED BY <1>1, PassInvariant, PTL

\* Insert first, delete last: no pass, failed or not, opens a gap over a
\* destination that old and new entries cover.
THEOREM NeverAGap == Spec => []NoGap
<1>1. IInv => NoGap
  <2> SUFFICES ASSUME IInv, NEW d \in Dests, Sure(committed, d), Sure(want, d)
               PROVE  Hits(ktrie, d, Rows) # {}
    BY DEF NoGap
  <2> USE TrieAssumption DEF Hits, Sure
  <2>1. CASE pc # "delete"
    BY <2>1 DEF IInv, Untouched
  <2>2. CASE pc = "delete"
    BY <2>2 DEF IInv, Untouched, Written, Has
  <2> QED BY <2>1, <2>2
<1> QED BY <1>1, PassInvariant, PTL

\* After a pass the kernel holds the committed entries, but for what failed
\* passes left.
THEOREM KernelFollowsCommits == Spec => []KernelIsCommitted
<1>1. IInv => KernelIsCommitted
  BY DEF IInv, TypeOK, Untouched, KernelIsCommitted
<1> QED BY <1>1, PassInvariant, PTL
-----------------------------------------------------------------------------
(* The packet.  Its two lookups read the kernel at different moments, so   *)
(* what the first one missed has to be remembered until the second.        *)

\* Neither old nor new entries of a table, those in doubt apart, serve d.
Unserved(d, table) ==
    Hits(committed, d, table \ doubt) = {} \/ Hits(want, d, table \ doubt) = {}

\* A tracked lookup that went past a table met no gap in it.
WalkInv ==
    walk.tracked =>
        /\ walk.at \in {"sentinel", "catchall", "miss"} => Unserved(walk.dest, Own)
        /\ walk.at \in {"catchall", "miss"} => Unserved(walk.dest, Rows \ Own)

\* A table that serves a destination before and after the pass serves it at
\* every moment between.
LEMMA TableServes ==
    ASSUME IInv, NEW d \in Dests, NEW table \in SUBSET Rows, Hits(ktrie, d, table) = {}
    PROVE  Unserved(d, table)
<1> USE TrieAssumption DEF Hits, Unserved
<1>1. CASE pc # "delete"
  BY <1>1 DEF IInv, Untouched
<1>2. CASE pc = "delete"
  BY <1>2 DEF IInv, Untouched, Written, Has
<1> QED BY <1>1, <1>2

\* A lookup records what it met; the ends of a pass stop tracking it; nothing
\* else moves the entries of the pass.
LEMMA WalkStep == IInv /\ WalkInv /\ [Next]_vars => WalkInv'
<1> SUFFICES ASSUME IInv, WalkInv, [Next]_vars PROVE WalkInv'
  OBVIOUS
<1>0. /\ Own \subseteq Rows /\ walk.dest \in Dests
      /\ walk \in [at : {"hit", "sentinel", "catchall", "miss"}, dest : Dests, tracked : BOOLEAN]
  BY TrieAssumption DEF IInv, TypeOK
<1>1. CASE UNCHANGED <<walk, committed, want, doubt>>
  BY <1>1 DEF WalkInv, Unserved, Hits
<1>2. CASE Sync \/ ApplyFailed \/ Commit
  <2>1. ~walk'.tracked
    BY <1>0, <1>2 DEF Sync, ApplyFailed, Commit
  <2> QED BY <2>1 DEF WalkInv
<1>3. ASSUME NEW d \in Dests, LookupOwn(d) PROVE WalkInv'
  <2>1. UNCHANGED <<committed, want, doubt>>
    BY <1>3 DEF LookupOwn, passVars
  <2>2. CASE Hits(ktrie, d, Own) # {}
    <3>1. walk'.at = "hit"
      BY <1>3, <2>2 DEF LookupOwn
    <3> QED BY <3>1 DEF WalkInv
  <2>3. CASE Hits(ktrie, d, Own) = {}
    <3>1. walk'.at = "sentinel" /\ walk'.dest = d
      BY <1>3, <2>3 DEF LookupOwn
    <3>2. Unserved(d, Own)
      BY <1>0, <2>3, TableServes
    <3> QED BY <2>1, <3>1, <3>2 DEF WalkInv, Unserved, Hits
  <2> QED BY <2>2, <2>3
<1>4. CASE LookupSentinel
  <2>1. /\ UNCHANGED <<committed, want, doubt>> /\ walk.at = "sentinel"
        /\ walk'.dest = walk.dest /\ walk'.tracked = walk.tracked
    BY <1>0, <1>4 DEF LookupSentinel, passVars
  <2>2. CASE Hits(ktrie, walk.dest, Rows \ Own) # {}
    <3>1. walk'.at = "hit"
      BY <1>0, <1>4, <2>2 DEF LookupSentinel
    <3> QED BY <3>1 DEF WalkInv
  <2>3. CASE Hits(ktrie, walk.dest, Rows \ Own) = {}
    <3>1. Unserved(walk.dest, Rows \ Own)
      BY <1>0, <2>3, TableServes
    <3> QED BY <2>1, <3>1 DEF WalkInv, Unserved, Hits
  <2> QED BY <2>2, <2>3
<1>5. CASE (\E r \in Rows, z \in Zones \cup {None} : RowChange(r, z)) \/ UNCHANGED vars
  BY <1>1, <1>5 DEF RowChange, vars, passVars
<1>6. CASE Pass
  BY <1>1, <1>2, <1>6 DEF Pass, Upsert, Delete, UpsertsDone
<1> QED BY <1>3, <1>4, <1>5, <1>6 DEF Next

\* A packet whose two lookups fall within one pass misses no destination that
\* one table serves throughout.
THEOREM NoPacketMeetsAGap == Spec => []WalkMeetsNoGap
<1>1. Init => WalkInv
  BY DEF Init, WalkInv
<1>2. WalkInv => WalkMeetsNoGap
  BY DEF WalkInv, WalkMeetsNoGap, Unserved
<1> QED BY <1>1, <1>2, WalkStep, PassInvariant, PTL DEF Spec
=============================================================================
