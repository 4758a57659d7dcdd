--------------------------- MODULE AgentLifeProofs ---------------------------
(***************************************************************************)
(* Proofs about AgentLife: for any projects and any number of boots, bytes,*)
(* changes of owner and late workers, restarts lose and repeat no tenant's *)
(* bytes beyond the accepted losses, bytes of unknown MACs are accounted   *)
(* for exactly, a flushed series comes back, and a drain in which nobody   *)
(* is late saves everything.                                               *)
(*                                                                         *)
(* None of these is inductive.  What a crash finds is settled long before  *)
(* it: the ledger has to balance not only for the state in use but also    *)
(* for the snapshot on disk and for the copy on its way there; each of the *)
(* three rows has to be comparable with the map in use and with the one on *)
(* the shelf; and a sweep in progress keeps its worker from being done.    *)
(***************************************************************************)
EXTENDS AgentLife, FiniteSetTheorems, TLAPS

-----------------------------------------------------------------------------
(* The inductive invariant.                                                *)

\* The shape of the history.
History == [boots : Nat, moves : Nat, late : Nat, upgraded : BOOLEAN, reused : BOOLEAN,
            sent : [Flows -> Nat], miss : [Places -> [Flows -> Nat]], twice : [Places -> Nat],
            booked : [Tenants -> Nat], kept : [Tenants -> Nat],
            raced : BOOLEAN, torn : BOOLEAN, astray : BOOLEAN, orphan : BOOLEAN,
            clean : BOOLEAN]

HistOK == hist \in History

\* The phase belongs to the step, workers exist only after the last step, only
\* what the steps so far have filled is filled, and a sweep has its worker.
ControlInv ==
    /\ phase = CASE pc \in {"down", "huntZombies", "loadBPF"} -> 0
                 [] pc = "coldStart" -> 1
                 [] pc = "wire" -> 2
                 [] pc = "restoreWAL" -> 3
                 [] OTHER -> 4
    /\ pc \in {"wire", "restoreWAL", "run", "drain"} => ready
    /\ phase < 4 => /\ \A w \in DOMAIN work : work[w] = "off"
                    /\ mem = Fresh /\ buf = NoBuf /\ copy = NoSnapshot /\ ~ghost
    /\ disk.owner \in Tenants \cup {NoTenant}
    /\ copy # NoSnapshot => copy.owner = "pending" /\ work["wal"] \in {"up", "cancelled", "final"}
    /\ ghost => meta \in Tenants
    /\ sweep # "idle" => meta \in Tenants /\ work["ghost"] \in {"up", "cancelled"}
    /\ hook # "bare"

\* An entry of a map: none, or created by a byte that was sent.
EntryOK(e, n) == e.stamp <= n /\ (e.stamp = 0 => e.bytes = 0)

\* A row that has read the entry has not read more than it holds.
Reads(r, e) == e.stamp # 0 /\ r.stamp = e.stamp => r.raw <= e.bytes

\* What a row may be compared with.
RowOK(r) == /\ r.stamp <= hist.sent["k"]
            /\ Reads(r, entry["k"]) /\ Reads(r, shelf["k"])

\* A buffered entry of u has what the kernel had when it was last read.
BufferedU(b, e) == b = NoRow \/ (b.stamp # 0 /\ b.stamp = e.stamp /\ b.total = b.raw /\ b.raw <= e.bytes)

\* A buffered entry of k was created for the map in use.
BufferedK(b) == RowOK(b) /\ (b.stamp # 0 => b.stamp # shelf["k"].stamp)

StampInv ==
    /\ \A f \in Flows : EntryOK(entry[f], hist.sent[f]) /\ EntryOK(shelf[f], hist.sent[f])
    /\ entry["k"].stamp = shelf["k"].stamp => entry["k"].stamp = 0
    /\ RowOK(mem.row) /\ RowOK(disk.state.row) /\ RowOK(copy.state.row)
    /\ BufferedU(buf["u"], entry["u"]) /\ BufferedK(buf["k"])
    /\ ~hist.astray => buf["k"] = NoRow

\* State s, at place p, the map in use and what p misses are what was sent.
KnownBalanced(s, p) ==
    Counted(s) + Delta(s.row, entry["k"]) + hist.miss[p]["k"] = hist.sent["k"]
UnknownBalanced(s, p) ==
    s.unknown["u"] + entry["u"].bytes + hist.miss[p]["u"] = hist.sent["u"] + hist.twice[p]

KnownInv == ~hist.reused /\ ~hist.astray =>
    /\ KnownBalanced(disk.state, "disk")
    /\ Restored => KnownBalanced(mem, "mem")
    /\ copy # NoSnapshot => KnownBalanced(copy.state, "copy")

UnknownInv == ~hist.reused =>
    /\ UnknownBalanced(disk.state, "disk")
    /\ Restored => UnknownBalanced(mem, "mem")
    /\ copy # NoSnapshot => UnknownBalanced(copy.state, "copy")

\* Series never fall below what was booked, as long as the owners recorded are
\* the ones of the copy.
Reaches(s, who, f) == \A t \in Tenants : Series(s, t, who) >= f[t]

SeriesInv ==
    /\ ~hist.torn => Reaches(disk.state, disk.owner, hist.kept)
    /\ Restored /\ ~hist.torn /\ ~hist.orphan => Reaches(mem, meta, hist.kept)
    /\ copy = NoSnapshot => ~hist.raced
    /\ copy # NoSnapshot => /\ ~hist.orphan => Reaches(mem, meta, hist.booked)
                            /\ ~hist.raced => Reaches(copy.state, meta, hist.booked)

\* The drain goes down the list; behind it, if it is clean, nobody works, and
\* the final copy is the state it copied.
DrainInv ==
    /\ pc = "run" => \A w \in DOMAIN work : work[w] = "up"
    /\ pc = "drain" =>
         /\ row \in 1..5
         /\ work["wal"] \in {"cancelled", "final", "done"} => row = 5
         /\ hist.clean =>
              /\ row > 2 => work["ghost"] = "done"
              /\ row > 3 => work["reconciler"] = "done"
              /\ row > 4 => work["scraper"] = "done"
              /\ work["wal"] = "final" /\ copy # NoSnapshot => copy.state = mem
              /\ work["wal"] = "done" => disk = Snapshot(mem, meta)
    /\ work["scraper"] = "done" => buf = NoBuf

IInv == /\ TypeOK /\ HistOK /\ ControlInv /\ StampInv
        /\ KnownInv /\ UnknownInv /\ SeriesInv /\ DrainInv

-----------------------------------------------------------------------------
(* Sums over finite sets.  MapThenSumSet is a recursion over subsets; what *)
(* it unrolls to is shown by taking a minimal subset on which a statement  *)
(* fails.                                                                  *)

Total(f, S) == MapThenSumSet(LAMBDA x : f[x], S)

Pick(T) == CHOOSE x \in T : TRUE

\* The recursion a Total unrolls over the subsets of S.
Unrolls(g, f, S) ==
    g = [T \in SUBSET S |-> IF T = {} THEN 0 ELSE f[Pick(T)] + g[T \ {Pick(T)}]]

LEMMA TotalDef == ASSUME NEW f, NEW S PROVE Total(f, S) = (CHOOSE g : Unrolls(g, f, S))[S]
  BY DEF Total, MapThenSumSet, MapThenFoldSet, Unrolls, Pick

LEMMA Minimal ==
    ASSUME NEW S, IsFiniteSet(S), NEW F \in SUBSET SUBSET S, F # {}
    PROVE  \E T \in F : \A U \in F : U \subseteq T => U = T
<1>1. IsWellFoundedOn(StrictSubsetOrdering(S), SUBSET S)
  BY FS_StrictSubsetOrderingWellFounded, FS_FiniteSubsetsOfFinite
<1>2. PICK T \in F : \A U \in F : ~(<<U, T>> \in StrictSubsetOrdering(S))
  BY <1>1, WFMin
<1>3. ASSUME NEW U \in F, U \subseteq T PROVE U = T
  BY <1>2, <1>3 DEF StrictSubsetOrdering
<1> WITNESS T \in F
<1> QED BY <1>3

LEMMA Picked == ASSUME NEW T, T # {} PROVE Pick(T) \in T
  BY DEF Pick

\* Two unrollings agree.
LEMMA UnrollsOnce ==
    ASSUME NEW S, IsFiniteSet(S), NEW f, NEW g, NEW h, Unrolls(g, f, S), Unrolls(h, f, S)
    PROVE  g = h
<1> DEFINE F == {T \in SUBSET S : g[T] # h[T]}
<1>1. CASE F = {}
  BY <1>1 DEF Unrolls
<1>2. CASE F # {}
  <2>0. F \in SUBSET SUBSET S
    OBVIOUS
  <2>1. PICK T \in F : \A U \in F : U \subseteq T => U = T
    <3> HIDE DEF F
    <3> QED BY <1>2, <2>0, Minimal
  <2>2. T # {}
    BY <2>1 DEF Unrolls
  <2>3. Pick(T) \in T
    BY <2>2, Picked
  <2>4. g[T \ {Pick(T)}] = h[T \ {Pick(T)}]
    BY <2>1, <2>3
  <2> QED BY <2>1, <2>2, <2>4 DEF Unrolls
<1> QED BY <1>1, <1>2

\* An unrolling restricts to the subsets of a subset.
LEMMA UnrollsBelow ==
    ASSUME NEW S, NEW f, NEW g, Unrolls(g, f, S), NEW T \in SUBSET S
    PROVE  Unrolls([U \in SUBSET T |-> g[U]], f, T)
<1> DEFINE h == [U \in SUBSET T |-> g[U]]
<1>1. \A U \in SUBSET T : h[U] = IF U = {} THEN 0 ELSE f[Pick(U)] + h[U \ {Pick(U)}]
  BY DEF Unrolls
<1> QED BY <1>1 DEF Unrolls

\* Every finite set has an unrolling.
LEMMA UnrollsExists ==
    ASSUME NEW S, IsFiniteSet(S), NEW f
    PROVE  \E g : Unrolls(g, f, S)
<1> DEFINE Bad == {T \in SUBSET S : ~\E g : Unrolls(g, f, T)}
<1>1. SUFFICES ASSUME Bad # {} PROVE FALSE
  OBVIOUS
<1>0. Bad \in SUBSET SUBSET S
  OBVIOUS
<1>2. PICK T \in Bad : \A U \in Bad : U \subseteq T => U = T
  <2> HIDE DEF Bad
  <2> QED BY <1>0, <1>1, Minimal
<1> DEFINE h(U) == CHOOSE g : Unrolls(g, f, U)
<1>3. ASSUME NEW U \in SUBSET T, U # T
      PROVE  Unrolls(h(U), f, U)
  BY <1>2, <1>3
<1>4. ASSUME NEW U \in SUBSET T, U # T, NEW V \in SUBSET U
      PROVE  h(U)[V] = h(V)[V]
  <2>1. Unrolls(h(U), f, U) /\ Unrolls(h(V), f, V)
    <3>1. V \in SUBSET T /\ V # T
      BY <1>4
    <3> QED BY <1>3, <1>4, <3>1
  <2>2. Unrolls([W \in SUBSET V |-> h(U)[W]], f, V)
    BY <2>1, UnrollsBelow
  <2>3. IsFiniteSet(V)
    BY FS_Subset
  <2>4. [W \in SUBSET V |-> h(U)[W]] = h(V)
    <3> HIDE DEF h
    <3> QED BY <2>1, <2>2, <2>3, UnrollsOnce
  <2> QED BY <2>4
<1> DEFINE value(U) == IF U = {} THEN 0 ELSE f[Pick(U)] + h(U \ {Pick(U)})[U \ {Pick(U)}]
           g == [U \in SUBSET T |-> value(U)]
<1>5. ASSUME NEW U \in SUBSET T, U # T PROVE h(U)[U] = value(U)
  <2>1. Unrolls(h(U), f, U)
    BY <1>3, <1>5
  <2>2. h(U)[U] = IF U = {} THEN 0 ELSE f[Pick(U)] + h(U)[U \ {Pick(U)}]
    <3> HIDE DEF h
    <3> QED BY <2>1 DEF Unrolls
  <2>3. h(U)[U \ {Pick(U)}] = h(U \ {Pick(U)})[U \ {Pick(U)}]
    BY <1>4, <1>5
  <2> QED BY <2>2, <2>3
<1>6. \A U \in SUBSET T : g[U] = IF U = {} THEN 0 ELSE f[Pick(U)] + g[U \ {Pick(U)}]
  <2> TAKE U \in SUBSET T
  <2>0. CASE U = {}
    <3> HIDE DEF h
    <3> QED BY <2>0
  <2> SUFFICES ASSUME U # {}
               PROVE  g[U] = f[Pick(U)] + g[U \ {Pick(U)}]
    <3> HIDE DEF g
    <3> QED BY <2>0
  <2>1. U \ {Pick(U)} \in SUBSET T /\ U \ {Pick(U)} # T
    BY Picked
  <2>2. g[U \ {Pick(U)}] = h(U \ {Pick(U)})[U \ {Pick(U)}]
    <3> HIDE DEF h, value
    <3> QED BY <1>5, <2>1
  <2> QED BY <2>2
<1>7. Unrolls(g, f, T)
  <2> HIDE DEF value
  <2> QED BY <1>6 DEF Unrolls
<1> QED BY <1>2, <1>7

\* The chosen unrolling unrolls.
LEMMA Unrolling ==
    ASSUME NEW S, IsFiniteSet(S), NEW f
    PROVE  Unrolls(CHOOSE g : Unrolls(g, f, S), f, S)
  BY UnrollsExists

LEMMA TotalEmpty == ASSUME NEW f PROVE Total(f, {}) = 0
<1>1. IsFiniteSet({})
  BY FS_EmptySet
<1> DEFINE g == CHOOSE h : Unrolls(h, f, {})
<1>2. Unrolls(g, f, {})
  BY <1>1, Unrolling
<1>3. Total(f, {}) = g[{}]
  BY TotalDef
<1> HIDE DEF g
<1> QED BY <1>2, <1>3 DEF Unrolls

LEMMA TotalPick ==
    ASSUME NEW S, IsFiniteSet(S), S # {}, NEW f
    PROVE  Total(f, S) = f[Pick(S)] + Total(f, S \ {Pick(S)})
<1> DEFINE g == CHOOSE h : Unrolls(h, f, S)
           T == S \ {Pick(S)}
           k == CHOOSE h : Unrolls(h, f, T)
<1>1. Unrolls(g, f, S)
  BY Unrolling
<1>2. IsFiniteSet(T) /\ T \in SUBSET S
  BY FS_Subset
<1>3. Unrolls(k, f, T)
  <2> HIDE DEF T
  <2> QED BY <1>2, Unrolling
<1>4. Total(f, S) = g[S] /\ Total(f, T) = k[T]
  BY TotalDef
<1> HIDE DEF g, k, T
<1>5. Unrolls([U \in SUBSET T |-> g[U]], f, T)
  BY <1>1, <1>2, UnrollsBelow
<1>6. [U \in SUBSET T |-> g[U]] = k
  BY <1>2, <1>3, <1>5, UnrollsOnce
<1>7. g[T] = k[T]
  BY <1>6
<1>8. g[S] = f[Pick(S)] + g[S \ {Pick(S)}]
  BY <1>1 DEF Unrolls
<1> QED BY <1>4, <1>7, <1>8 DEF T

\* A sum of naturals is a natural.
LEMMA TotalNat ==
    ASSUME NEW S, IsFiniteSet(S), NEW f, \A x \in S : f[x] \in Nat
    PROVE  Total(f, S) \in Nat
<1> DEFINE Bad == {T \in SUBSET S : Total(f, T) \notin Nat}
<1>1. SUFFICES ASSUME Bad # {} PROVE FALSE
  OBVIOUS
<1>2. Bad \in SUBSET SUBSET S
  OBVIOUS
<1>3. PICK T \in Bad : \A U \in Bad : U \subseteq T => U = T
  <2> HIDE DEF Bad
  <2> QED BY <1>1, <1>2, Minimal
<1>4. T # {}
  BY TotalEmpty
<1>5. IsFiniteSet(T) /\ Pick(T) \in T /\ T \in SUBSET S
  BY <1>4, FS_Subset, Picked
<1>6. Total(f, T \ {Pick(T)}) \in Nat
  BY <1>3, <1>5
<1>7. Total(f, T) = f[Pick(T)] + Total(f, T \ {Pick(T)})
  BY <1>4, <1>5, TotalPick
<1> QED BY <1>5, <1>6, <1>7

\* Any element can be taken out of a sum.
LEMMA TotalAny ==
    ASSUME NEW S, IsFiniteSet(S), NEW f, \A x \in S : f[x] \in Nat, NEW x \in S
    PROVE  Total(f, S) = f[x] + Total(f, S \ {x})
<1> DEFINE Bad == {T \in SUBSET S : \E y \in T : Total(f, T) # f[y] + Total(f, T \ {y})}
<1>1. SUFFICES ASSUME Bad # {} PROVE FALSE
  OBVIOUS
<1>2. Bad \in SUBSET SUBSET S
  OBVIOUS
<1>3. PICK T \in Bad : \A U \in Bad : U \subseteq T => U = T
  <2> HIDE DEF Bad
  <2> QED BY <1>1, <1>2, Minimal
<1>4. PICK y \in T : Total(f, T) # f[y] + Total(f, T \ {y})
  OBVIOUS
<1> DEFINE p == Pick(T)
           U == T \ {p}
           V == T \ {y}
           W == T \ {p, y}
<1>5. IsFiniteSet(T) /\ T \in SUBSET S /\ p \in T
  BY <1>4, FS_Subset, Picked
<1>6. Total(f, T) = f[p] + Total(f, U)
  BY <1>5, TotalPick
<1>7. y # p
  BY <1>4, <1>6
<1> HIDE DEF p
<1>8. U \ {y} = W /\ V \ {p} = W /\ y \in U /\ p \in V
  BY <1>5, <1>7
<1>9. Total(f, U) = f[y] + Total(f, W)
  BY <1>3, <1>5, <1>8
<1>10. Total(f, V) = f[p] + Total(f, W)
  BY <1>3, <1>4, <1>5, <1>8
<1>11. IsFiniteSet(W) /\ W \in SUBSET S
  BY <1>5, FS_Subset
<1>12. Total(f, W) \in Nat
  <2> HIDE DEF W
  <2> QED BY <1>11, TotalNat
<1>13. f[p] \in Nat /\ f[y] \in Nat
  BY <1>5
<1> HIDE DEF Bad, U, V, W
<1>14. Total(f, T) = f[y] + Total(f, V)
  BY <1>6, <1>9, <1>10, <1>12, <1>13
<1> QED BY <1>4, <1>14 DEF V

\* A sum over a union with a new element.
LEMMA TotalEq ==
    ASSUME NEW S, IsFiniteSet(S), NEW f, NEW g, \A x \in S : f[x] = g[x]
    PROVE  Total(f, S) = Total(g, S)
<1> DEFINE Bad == {T \in SUBSET S : Total(f, T) # Total(g, T)}
<1>1. SUFFICES ASSUME Bad # {} PROVE FALSE
  OBVIOUS
<1>2. Bad \in SUBSET SUBSET S
  OBVIOUS
<1>3. PICK T \in Bad : \A U \in Bad : U \subseteq T => U = T
  <2> HIDE DEF Bad
  <2> QED BY <1>1, <1>2, Minimal
<1>4. T # {}
  BY TotalEmpty
<1>5. IsFiniteSet(T) /\ Pick(T) \in T /\ T \in SUBSET S
  BY <1>4, FS_Subset, Picked
<1>6. Total(f, T \ {Pick(T)}) = Total(g, T \ {Pick(T)})
  BY <1>3, <1>5
<1>7. /\ Total(f, T) = f[Pick(T)] + Total(f, T \ {Pick(T)})
      /\ Total(g, T) = g[Pick(T)] + Total(g, T \ {Pick(T)})
  BY <1>4, <1>5, TotalPick
<1> QED BY <1>5, <1>6, <1>7

\* Sums add up element by element.
LEMMA TotalAdd ==
    ASSUME NEW S, IsFiniteSet(S), NEW f, NEW g, NEW h,
           \A x \in S : f[x] \in Nat /\ g[x] \in Nat /\ h[x] = f[x] + g[x]
    PROVE  Total(h, S) = Total(f, S) + Total(g, S)
<1> DEFINE Bad == {T \in SUBSET S : Total(h, T) # Total(f, T) + Total(g, T)}
<1>1. SUFFICES ASSUME Bad # {} PROVE FALSE
  OBVIOUS
<1>2. Bad \in SUBSET SUBSET S
  OBVIOUS
<1>3. PICK T \in Bad : \A U \in Bad : U \subseteq T => U = T
  <2> HIDE DEF Bad
  <2> QED BY <1>1, <1>2, Minimal
<1>4. T # {}
  <2> SUFFICES ASSUME T = {} PROVE FALSE
    OBVIOUS
  <2>1. Total(h, T) = 0 /\ Total(f, T) = 0 /\ Total(g, T) = 0
    BY TotalEmpty
  <2> QED BY <2>1
<1> DEFINE p == Pick(T)
           U == T \ {p}
<1>5. IsFiniteSet(T) /\ p \in T /\ T \in SUBSET S
  BY <1>4, FS_Subset, Picked
<1>6. Total(h, U) = Total(f, U) + Total(g, U)
  BY <1>3, <1>5
<1>7. /\ Total(h, T) = h[p] + Total(h, U)
      /\ Total(f, T) = f[p] + Total(f, U)
      /\ Total(g, T) = g[p] + Total(g, U)
  BY <1>4, <1>5, TotalPick
<1>8. IsFiniteSet(U) /\ U \in SUBSET S
  BY <1>5, FS_Subset
<1> HIDE DEF p, U
<1>9. Total(f, U) \in Nat /\ Total(g, U) \in Nat
  BY <1>8, TotalNat
<1>10. f[p] \in Nat /\ g[p] \in Nat /\ h[p] = f[p] + g[p]
  BY <1>5
<1>11. Total(h, T) = Total(f, T) + Total(g, T)
  <2> HIDE DEF Bad
  <2> QED BY <1>6, <1>7, <1>9, <1>10
<1> QED BY <1>11

\* A sum of which one element grows.
LEMMA TotalCredit ==
    ASSUME NEW S, IsFiniteSet(S), NEW f, NEW g, NEW t \in S, NEW n \in Nat,
           \A x \in S : f[x] \in Nat,
           g[t] = f[t] + n, \A x \in S \ {t} : g[x] = f[x]
    PROVE  Total(g, S) = Total(f, S) + n
<1> DEFINE R == S \ {t}
<1>1. IsFiniteSet(R)
  BY FS_Subset
<1>2. Total(f, S) = f[t] + Total(f, R)
  BY TotalAny
<1>3. \A x \in S : g[x] \in Nat
  OBVIOUS
<1>4. Total(g, S) = g[t] + Total(g, R)
  BY <1>3, TotalAny
<1>5. Total(f, R) \in Nat /\ Total(g, R) = Total(f, R)
  BY <1>1, TotalNat, TotalEq
<1> HIDE DEF R
<1> QED BY <1>2, <1>4, <1>5

\* A sum of zeros.
LEMMA TotalZero ==
    ASSUME NEW S, IsFiniteSet(S), NEW f, \A x \in S : f[x] = 0
    PROVE  Total(f, S) = 0
<1> DEFINE h == [x \in S |-> 0]
<1>1. \A x \in S : h[x] = h[x] + h[x] /\ h[x] \in Nat /\ f[x] = h[x]
  OBVIOUS
<1> HIDE DEF h
<1>2. Total(h, S) = Total(h, S) + Total(h, S) /\ Total(h, S) \in Nat
  BY <1>1, TotalAdd, TotalNat
<1>3. Total(f, S) = Total(h, S)
  BY <1>1, TotalEq
<1>4. \A n \in Nat : n = n + n => n = 0
  OBVIOUS
<1> QED BY <1>2, <1>3, <1>4

-----------------------------------------------------------------------------
(* The operators.                                                          *)

Entry == [bytes : Nat, stamp : Nat]

LEMMA TenantsFinite == IsFiniteSet(Tenants) /\ NoTenant \notin Tenants /\ Tenants # {}
  BY BoundsAssumption

LEMMA CountedIs == ASSUME NEW s PROVE Counted(s) = s.row.total + Total(s.settled, Tenants)
  BY DEF Counted, Total

LEMMA CountedNat ==
    ASSUME NEW s \in State
    PROVE  Counted(s) \in Nat /\ Total(s.settled, Tenants) \in Nat
<1>1. s.row.total \in Nat /\ \A t \in Tenants : s.settled[t] \in Nat
  BY DEF State, Row
<1> QED BY <1>1, CountedIs, TenantsFinite, TotalNat

\* A fresh state has counted nothing.
LEMMA CountedFresh ==
    /\ Fresh \in State /\ Counted(Fresh) = 0
    /\ Fresh.row = NoRow /\ Fresh.unknown = Zero /\ Fresh.settled = NoBills
    /\ NoBills \in [Tenants -> Nat]
<1>1. /\ Fresh \in State /\ Fresh.row.total = 0 /\ Fresh.settled = NoBills
      /\ Fresh.row = NoRow /\ Fresh.unknown = Zero
  BY DEF Fresh, State, Row, NoRow, NoBills, Zero
<1>2. \A t \in Tenants : NoBills[t] = 0
  BY DEF NoBills
<1>3. Total(NoBills, Tenants) = 0
  BY <1>2, TenantsFinite, TotalZero
<1>4. NoBills \in [Tenants -> Nat]
  BY DEF NoBills
<1> QED BY <1>1, <1>3, <1>4, CountedIs

\* A row's total moves to a tenant: the count and the series stay.
Moved(s, t, rw) == [s EXCEPT !.row = rw, !.settled[t] = @ + s.row.total]

SameSums(r, s, t) ==
    /\ r \in State /\ Counted(r) = Counted(s) /\ r.unknown = s.unknown
    /\ \A x \in Tenants : \A who : Series(r, x, who) = Series(s, x, t)

LEMMA MovedTotal ==
    ASSUME NEW s \in State, NEW t \in Tenants, NEW rw \in Row, rw.total = 0
    PROVE  SameSums(Moved(s, t, rw), s, t) /\ Moved(s, t, rw).row = rw
<1> DEFINE r == Moved(s, t, rw)
           n == s.row.total
           st == [s.settled EXCEPT ![t] = @ + n]
<1>1. n \in Nat /\ s.settled \in [Tenants -> Nat] /\ s.row \in Row /\ s.unknown \in [Flows -> Nat]
  BY DEF State, Row
<1>2. st \in [Tenants -> Nat]
  BY <1>1
<1>3. r = [s EXCEPT !.row = rw, !.settled = st]
  BY DEF State, Moved
<1>4. /\ st[t] = s.settled[t] + n
      /\ \A x \in Tenants \ {t} : st[x] = s.settled[x]
      /\ \A x \in Tenants : s.settled[x] \in Nat
  BY <1>1
<1> HIDE DEF r
<1>5. r \in State /\ r.row = rw /\ r.unknown = s.unknown /\ r.settled = st
  <2> HIDE DEF st
  <2> QED BY <1>1, <1>2, <1>3 DEF State
<1>6. Total(st, Tenants) = Total(s.settled, Tenants) + n
  <2> HIDE DEF n, st
  <2> QED BY <1>1, <1>4, TenantsFinite, TotalCredit
<1>7. Counted(r) = Counted(s)
  <2>1. Counted(r) = r.row.total + Total(r.settled, Tenants) /\ Counted(s) = n + Total(s.settled, Tenants)
    BY CountedIs
  <2> HIDE DEF st, n
  <2> QED BY <1>1, <1>5, <1>6, <2>1, CountedNat
<1>8. \A x \in Tenants : r.settled[x] = Series(s, x, t)
  BY <1>1, <1>4, <1>5 DEF Series
<1>9. \A x \in Tenants : \A who : Series(r, x, who) = Series(s, x, t)
  <2> HIDE DEF st
  <2>1. \A x \in Tenants : r.settled[x] \in Nat
    BY <1>2, <1>5
  <2> QED BY <1>5, <1>8, <2>1 DEF Series
<1> QED BY <1>5, <1>7, <1>9 DEF SameSums, r

\* Settling in rebase mode keeps the row's baseline.
LEMMA RebaseFacts ==
    ASSUME NEW s \in State, NEW t \in Tenants
    PROVE  LET r == SettleRebase(s, t)
           IN  /\ SameSums(r, s, t)
               /\ r.row.raw = s.row.raw /\ r.row.stamp = s.row.stamp /\ r.row.total = 0
<1> DEFINE r == SettleRebase(s, t)
           rw == [s.row EXCEPT !.total = 0]
<1>1. rw \in Row /\ rw.total = 0 /\ rw.raw = s.row.raw /\ rw.stamp = s.row.stamp
  BY DEF State, Row
<1>2. r = Moved(s, t, rw)
  BY DEF SettleRebase, State, Moved
<1> HIDE DEF r, rw
<1>3. SameSums(r, s, t) /\ r.row = rw
  BY <1>1, <1>2, MovedTotal
<1> QED BY <1>1, <1>3 DEF r

\* Settling in evict mode drops the baseline too.
LEMMA EvictFacts ==
    ASSUME NEW s \in State, NEW t \in Tenants
    PROVE  LET r == SettleEvict(s, t) IN SameSums(r, s, t) /\ r.row = NoRow
<1>1. NoRow \in Row /\ NoRow.total = 0
  BY DEF NoRow, Row
<1>2. SettleEvict(s, t) = Moved(s, t, NoRow)
  BY DEF SettleEvict, Moved
<1> QED BY <1>1, <1>2, MovedTotal

\* A reading that was read before is worth no less now.
LEMMA DeltaNat ==
    ASSUME NEW r \in Row, NEW e \in Entry, Reads(r, e)
    PROVE  Delta(r, e) \in Nat
  BY DEF Row, Entry, Reads, Delta

\* Applying a reading moves what it owes into the row.
LEMMA ApplyFacts ==
    ASSUME NEW r \in Row, NEW e \in Entry, Reads(r, e)
    PROVE  LET n == ApplyDelta(r, e)
           IN  /\ n \in Row /\ n.total = r.total + Delta(r, e) /\ Delta(n, e) = 0
               /\ Reads(n, e) /\ (e.stamp = 0 => n = r)
               /\ (e.stamp # 0 => n.stamp = e.stamp)
  BY DEF Row, Entry, Reads, Delta, ApplyDelta

\* One more byte is owed to every row.
LEMMA PacketFacts ==
    ASSUME NEW e \in Entry, NEW n \in Nat, EntryOK(e, n)
    PROVE  LET m == CountByte(e, n)
           IN  /\ m \in Entry /\ EntryOK(m, n + 1) /\ m.bytes = e.bytes + 1 /\ m.stamp # 0
               /\ m.stamp = (IF e.stamp = 0 THEN n + 1 ELSE e.stamp)
               /\ \A r \in Row : r.stamp <= n /\ Reads(r, e) =>
                      Reads(r, m) /\ Delta(r, m) = Delta(r, e) + 1
  BY DEF Row, Entry, Reads, Delta, EntryOK, CountByte

\* Where nothing is stored, nothing is owed.
LEMMA AbsentFacts ==
    /\ Absent \in Entry /\ Absent.bytes = 0 /\ Absent.stamp = 0
    /\ NoRow \in Row /\ NoRow.stamp = 0 /\ NoRow.total = 0 /\ NoRow.raw = 0
    /\ \A r : Delta(r, Absent) = 0 /\ Reads(r, Absent)
    /\ \A e : Reads(NoRow, e)
    /\ \A n \in Nat : EntryOK(Absent, n)
    /\ EmptyMap \in Map /\ EmptyMap["k"] = Absent /\ EmptyMap["u"] = Absent
    /\ Zero \in [Flows -> Nat] /\ Zero["k"] = 0 /\ Zero["u"] = 0
    /\ NoBuf \in [Flows -> Row] /\ NoBuf["k"] = NoRow /\ NoBuf["u"] = NoRow
  BY DEF Absent, NoRow, Entry, Row, Delta, Reads, EntryOK, EmptyMap, Map, Zero, Flows, NoBuf

\* NoSnapshot is no copy in progress.
LEMMA SnapshotFacts ==
    /\ NoSnapshot \in Saved /\ NoSnapshot.state = Fresh /\ NoSnapshot.owner = NoTenant
    /\ \A s, t : Snapshot(s, t).state = s /\ Snapshot(s, t).owner = t
    /\ \A s : Snapshot(s, "pending") # NoSnapshot
    /\ \A s \in State, t \in Tenants \cup {NoTenant, "pending"} : Snapshot(s, t) \in Saved
    /\ NoTenant # "pending"
<1>1. \A s, t : Snapshot(s, t).state = s /\ Snapshot(s, t).owner = t
  BY DEF Snapshot
<1>2. \A s \in State, t \in Tenants \cup {NoTenant, "pending"} : Snapshot(s, t) \in Saved
  BY DEF Snapshot, Saved
<1> QED BY <1>1, <1>2, CountedFresh DEF NoSnapshot, NoTenant

\* The workers, and the order in which the drain reaches them.
LEMMA WorkersAre ==
    /\ {Workers[i] : i \in DOMAIN Workers} = {"netlink", "ghost", "reconciler", "scraper", "wal"}
    /\ Len(Workers) = 5 /\ Workers[1] = "netlink" /\ Workers[2] = "ghost"
    /\ Workers[3] = "reconciler" /\ Workers[4] = "scraper" /\ Workers[5] = "wal"
<1>1. Len(Workers) = 5 /\ DOMAIN Workers = 1..5
  BY DEF Workers
<1>2. /\ Workers[1] = "netlink" /\ Workers[2] = "ghost" /\ Workers[3] = "reconciler"
      /\ Workers[4] = "scraper" /\ Workers[5] = "wal"
  BY DEF Workers
<1>3. 1..5 = {1, 2, 3, 4, 5}
  OBVIOUS
<1> HIDE DEF Workers
<1> QED BY <1>1, <1>2, <1>3

LEMMA StepsAre ==
    /\ {Steps[i] : i \in DOMAIN Steps} = {"huntZombies", "loadBPF", "coldStart", "wire", "restoreWAL"}
    /\ Steps[1] = "huntZombies"
    /\ Then("huntZombies") => pc' = "loadBPF"
    /\ Then("loadBPF") => pc' = "coldStart"
    /\ Then("coldStart") => pc' = "wire"
    /\ Then("wire") => pc' = "restoreWAL"
    /\ Then("restoreWAL") => pc' = "run"
<1>1. Len(Steps) = 5 /\ DOMAIN Steps = 1..5
  BY DEF Steps
<1>2. /\ Steps[1] = "huntZombies" /\ Steps[2] = "loadBPF" /\ Steps[3] = "coldStart"
      /\ Steps[4] = "wire" /\ Steps[5] = "restoreWAL"
  BY DEF Steps
<1>3. 1..5 = {1, 2, 3, 4, 5}
  OBVIOUS
<1>4. \A j \in 1..5 : (CHOOSE i \in DOMAIN Steps : Steps[i] = Steps[j]) = j
  <2> HIDE DEF Steps
  <2> TAKE j \in 1..5
  <2>1. \A i \in DOMAIN Steps : Steps[i] = Steps[j] <=> i = j
    BY <1>1, <1>2, <1>3
  <2> QED BY <1>1, <2>1
<1> HIDE DEF Steps
<1>5. \A j \in 1..5 : Then(Steps[j]) => pc' = IF j < 5 THEN Steps[j + 1] ELSE "run"
  BY <1>1, <1>4 DEF Then
<1> QED BY <1>1, <1>2, <1>3, <1>5

\* A typed row and entries are those of the lemmas.
LEMMA Typed ==
    ASSUME TypeOK
    PROVE  /\ entry["k"] \in Entry /\ entry["u"] \in Entry
           /\ shelf["k"] \in Entry /\ shelf["u"] \in Entry
           /\ mem \in State /\ disk.state \in State /\ copy.state \in State
           /\ mem.row \in Row /\ mem.row.total \in Nat /\ mem.settled \in [Tenants -> Nat]
           /\ disk.state.row \in Row /\ copy.state.row \in Row
           /\ mem.unknown \in [Flows -> Nat] /\ mem.unknown["u"] \in Nat
           /\ disk.state.unknown["u"] \in Nat /\ copy.state.unknown["u"] \in Nat
           /\ entry["u"].bytes \in Nat
           /\ buf["k"] \in Row /\ buf["u"] \in Row /\ buf \in [Flows -> Row]
  BY DEF TypeOK, Map, Entry, Flows, State, Saved, Row

\* So is the history.
LEMMA HistTyped ==
    ASSUME HistOK
    PROVE  /\ hist.sent["k"] \in Nat /\ hist.sent["u"] \in Nat
           /\ hist.miss \in [Places -> [Flows -> Nat]] /\ hist.twice \in [Places -> Nat]
           /\ \A p \in Places : /\ hist.miss[p]["k"] \in Nat /\ hist.miss[p]["u"] \in Nat
                                /\ hist.miss[p] \in [Flows -> Nat] /\ hist.twice[p] \in Nat
           /\ "mem" \in Places /\ "copy" \in Places /\ "disk" \in Places
           /\ hist.kept \in [Tenants -> Nat] /\ hist.booked \in [Tenants -> Nat]
           /\ hist.clean \in BOOLEAN /\ hist.raced \in BOOLEAN
  BY DEF HistOK, History, Flows, Places

-----------------------------------------------------------------------------
(* The first state.                                                        *)

LEMMA InitInv == ASSUME Init PROVE IInv
<1> USE AbsentFacts, SnapshotFacts, CountedFresh, TenantsFinite
<1>1. TypeOK
  <2>1. 0 \in 0..MaxDelay /\ owner \in Tenants
    BY BoundsAssumption DEF Init
  <2>2. work \in [{Workers[i] : i \in DOMAIN Workers} -> {"off", "up", "cancelled", "final", "done"}]
    BY DEF Init
  <2>3. phase \in 0..4 /\ row \in 0..Len(Workers) /\ delay \in 0..MaxDelay
    BY <2>1, WorkersAre DEF Init
  <2> QED BY <2>1, <2>2, <2>3 DEF Init, TypeOK
<1>2. HistOK
  <2>1. Nowhere \in [Places -> [Flows -> Nat]] /\ [p \in Places |-> 0] \in [Places -> Nat]
    BY DEF Nowhere
  <2> QED BY <2>1 DEF Init, HistOK, History
<1>3. ControlInv
  BY WorkersAre DEF Init, ControlInv
<1>4. StampInv
  BY DEF Init, StampInv, RowOK, Flows, BufferedU, BufferedK
<1>5. KnownInv /\ UnknownInv
  <2>1. \A p \in Places : hist.miss[p]["k"] = 0 /\ hist.miss[p]["u"] = 0 /\ hist.twice[p] = 0
    BY DEF Init, Nowhere, Places
  <2>2. "disk" \in Places
    BY DEF Places
  <2> QED BY <2>1, <2>2 DEF Init, KnownInv, UnknownInv, KnownBalanced, UnknownBalanced, Restored
<1>6. SeriesInv
  <2>1. Reaches(Fresh, NoTenant, NoBills)
    BY DEF Reaches, Series, NoBills
  <2> QED BY <2>1 DEF Init, SeriesInv, Restored
<1>7. DrainInv
  BY WorkersAre DEF Init, DrainInv
<1> QED BY <1>1, <1>2, <1>3, <1>4, <1>5, <1>6, <1>7 DEF IInv

-----------------------------------------------------------------------------
(* What a step leaves alone.                                               *)

\* The history's parts of the ledgers and of the series.
SameLedger == /\ hist'.reused = hist.reused /\ hist'.sent = hist.sent /\ hist'.astray = hist.astray
              /\ hist'.miss = hist.miss /\ hist'.twice = hist.twice
SameSeries == /\ hist'.torn = hist.torn /\ hist'.kept = hist.kept /\ hist'.raced = hist.raced
              /\ hist'.booked = hist.booked /\ hist'.orphan = hist.orphan

LEMMA KeepControl ==
    ASSUME ControlInv,
           UNCHANGED <<pc, phase, ready, work, sweep, mem, buf, copy, disk, meta, ghost, hook>>
    PROVE  ControlInv'
  BY DEF ControlInv

LEMMA KeepStamp ==
    ASSUME StampInv, UNCHANGED <<entry, shelf, mem, disk, copy, buf>>, hist'.sent = hist.sent,
           hist'.astray = hist.astray
    PROVE  StampInv'
  BY DEF StampInv, RowOK, BufferedK

LEMMA KeepLedger ==
    ASSUME KnownInv, UnknownInv, UNCHANGED <<entry, mem, disk, copy>>, Restored' => Restored, SameLedger
    PROVE  KnownInv' /\ UnknownInv'
  BY DEF KnownInv, UnknownInv, KnownBalanced, UnknownBalanced, SameLedger

LEMMA KeepSeries ==
    ASSUME SeriesInv, UNCHANGED <<mem, disk, copy, meta>>, Restored' => Restored, SameSeries
    PROVE  SeriesInv'
  BY DEF SeriesInv, SameSeries

LEMMA KeepDrain ==
    ASSUME DrainInv, UNCHANGED <<pc, row, work, copy, mem, disk, meta, buf>>, hist'.clean = hist.clean
    PROVE  DrainInv'
  BY DEF DrainInv

-----------------------------------------------------------------------------
(* What the places miss once entries are gone.                             *)

LEMMA UnreadIs ==
    ASSUME NEW r
    PROVE  /\ Unread("disk", "k", r) = Delta(disk.state.row, entry["k"])
           /\ Unread("disk", "u", r) = entry["u"].bytes
           /\ phase = 4 => Unread("mem", "k", r) = Delta(r, entry["k"])
           /\ phase # 4 => Unread("mem", "k", r) = 0
           /\ Unread("mem", "u", r) = 0
           /\ copy # NoSnapshot => /\ Unread("copy", "k", r) = Delta(copy.state.row, entry["k"])
                                   /\ Unread("copy", "u", r) = entry["u"].bytes
           /\ copy = NoSnapshot => Unread("copy", "k", r) = 0 /\ Unread("copy", "u", r) = 0
  BY DEF Unread

LEMMA MissingFacts ==
    ASSUME TypeOK, HistOK, StampInv, NEW D, NEW r \in Row, Reads(r, entry["k"])
    PROVE  /\ Missing(D, r) \in [Places -> [Flows -> Nat]]
           /\ \A p \in Places : \A f \in Flows :
                Missing(D, r)[p][f] = hist.miss[p][f] + (IF f \in D THEN Unread(p, f, r) ELSE 0)
<1>1. /\ Delta(disk.state.row, entry["k"]) \in Nat /\ Delta(copy.state.row, entry["k"]) \in Nat
      /\ Delta(r, entry["k"]) \in Nat /\ entry["u"].bytes \in Nat
  BY Typed, DeltaNat DEF StampInv, RowOK
<1>2. \A p \in Places : \A f \in Flows : Unread(p, f, r) \in Nat
  BY <1>1, UnreadIs DEF Places, Flows
<1>3. \A p \in Places : \A f \in Flows : hist.miss[p][f] \in Nat
  BY DEF HistOK, History
<1> QED BY <1>2, <1>3 DEF Missing

-----------------------------------------------------------------------------
(* Bootstrap.                                                              *)

LEMMA StartStep == ASSUME IInv, StartProcess PROVE IInv'
<1> USE DEF IInv
<1>0. /\ hist' = [hist EXCEPT !.boots = @ + 1] /\ phase = 0
      /\ mem = Fresh /\ buf = NoBuf /\ copy = NoSnapshot /\ ~ghost
      /\ \A w \in DOMAIN work : work[w] = "off"
  BY DEF StartProcess, ControlInv, At
<1>1. HistOK'
  BY <1>0 DEF HistOK, History
<1>a. SameLedger /\ SameSeries /\ hist'.clean = hist.clean
  BY <1>0 DEF HistOK, History, SameLedger, SameSeries
<1>2. TypeOK'
  <2>1. pc' \in {Steps[i] : i \in DOMAIN Steps}
    BY StepsAre DEF StartProcess
  <2>2. phase' \in 0..4 /\ delay' \in 0..MaxDelay /\ row' \in 0..Len(Workers)
    BY BoundsAssumption, WorkersAre DEF StartProcess
  <2>3. meta' = NoTenant /\ ghost' \in BOOLEAN /\ sweep' = "idle"
    BY DEF StartProcess
  <2> QED BY <2>1, <2>2, <2>3, AbsentFacts, SnapshotFacts, CountedFresh DEF StartProcess, TypeOK, kernelVars
<1>3. ControlInv'
  BY <1>0, <1>a, StepsAre DEF StartProcess, ControlInv, kernelVars, TypeOK
<1>4. StampInv'
  BY <1>0, <1>a, KeepStamp DEF StartProcess, kernelVars, SameLedger
<1>5. KnownInv' /\ UnknownInv'
  BY <1>0, <1>a, KeepLedger DEF StartProcess, kernelVars, Restored
<1>6. SeriesInv'
  <2>1. ~Restored'
    BY DEF StartProcess, Restored
  <2> QED BY <1>0, <1>a, <2>1 DEF StartProcess, SeriesInv, SameSeries
<1>7. DrainInv'
  BY <1>0, StepsAre, WorkersAre DEF StartProcess, DrainInv, TypeOK
<1> QED BY <1>1, <1>2, <1>3, <1>4, <1>5, <1>6, <1>7

LEMMA HuntStep == ASSUME IInv, HuntZombies PROVE IInv'
<1> USE DEF IInv
<1>0. /\ pc = "huntZombies" /\ pc' = "loadBPF" /\ hook' \in {"none", hook}
      /\ UNCHANGED <<phase, delay, work, row, sweep, pins, entry, shelf, ready, owner, meta, ghost,
                     mem, buf, copy, disk, hist>>
  BY StepsAre DEF HuntZombies, At, dataVars, bindVars
<1>a. SameLedger /\ SameSeries /\ hist'.clean = hist.clean
  BY <1>0 DEF SameLedger, SameSeries
<1>1. HistOK'
  BY <1>0 DEF HistOK
<1>2. TypeOK'
  BY <1>0, StepsAre DEF TypeOK
<1>3. ControlInv'
  BY <1>0 DEF ControlInv
<1>4. StampInv'
  BY <1>0, KeepStamp
<1>5. KnownInv' /\ UnknownInv'
  BY <1>0, <1>a, KeepLedger DEF Restored
<1>6. SeriesInv'
  BY <1>0, <1>a, KeepSeries DEF Restored
<1>7. DrainInv'
  BY <1>0 DEF DrainInv
<1> QED BY <1>1, <1>2, <1>3, <1>4, <1>5, <1>6, <1>7

LEMMA WireStep == ASSUME IInv, Wire PROVE IInv'
<1> USE DEF IInv
<1>0. /\ pc = "wire" /\ pc' = "restoreWAL" /\ phase = 2 /\ phase' = 3
      /\ UNCHANGED <<delay, work, row, sweep, pins, entry, shelf, hook, ready, owner, meta, ghost,
                     mem, buf, copy, disk, hist>>
  BY StepsAre DEF Wire, At, Advance, kernelVars, dataVars, bindVars
<1>a. SameLedger /\ SameSeries /\ hist'.clean = hist.clean
  BY <1>0 DEF SameLedger, SameSeries
<1>1. HistOK'
  BY <1>0 DEF HistOK
<1>2. TypeOK'
  <2>1. pc' \in {Steps[i] : i \in DOMAIN Steps} /\ phase' \in 0..4
    BY <1>0, StepsAre
  <2> QED BY <1>0, <2>1 DEF TypeOK
<1>3. ControlInv'
  BY <1>0 DEF ControlInv
<1>4. StampInv'
  BY <1>0, KeepStamp
<1>5. KnownInv' /\ UnknownInv'
  BY <1>0, <1>a, KeepLedger DEF Restored
<1>6. SeriesInv'
  BY <1>0, <1>a, KeepSeries DEF Restored
<1>7. DrainInv'
  BY <1>0 DEF DrainInv
<1> QED BY <1>1, <1>2, <1>3, <1>4, <1>5, <1>6, <1>7

LEMMA ColdStartStep == ASSUME IInv, ColdStart PROVE IInv'
<1> USE DEF IInv
<1>0. /\ pc = "coldStart" /\ pc' = "wire" /\ phase = 1 /\ phase' = 2
      /\ meta' = owner /\ ready' = TRUE /\ delay' = 0
      /\ UNCHANGED <<work, row, sweep, pins, entry, shelf, hook, owner, ghost, mem, buf, copy, disk, hist>>
  BY StepsAre DEF ColdStart, At, Advance
<1>a. SameLedger /\ SameSeries /\ hist'.clean = hist.clean
  BY <1>0 DEF SameLedger, SameSeries
<1>1. HistOK'
  BY <1>0 DEF HistOK
<1>2. TypeOK'
  <2>1. 0 \in 0..MaxDelay
    BY BoundsAssumption
  <2>2. phase' \in 0..4 /\ delay' \in 0..MaxDelay /\ ready' \in BOOLEAN
    BY <1>0, <2>1
  <2>3. pc' \in {Steps[i] : i \in DOMAIN Steps}
    BY <1>0, StepsAre
  <2> QED BY <1>0, <2>2, <2>3 DEF TypeOK
<1>3. ControlInv'
  <2>1. ~ghost /\ sweep = "idle" /\ copy = NoSnapshot
    BY <1>0, WorkersAre DEF ControlInv, TypeOK
  <2> QED BY <1>0, <2>1 DEF ControlInv
<1>4. StampInv'
  BY <1>0, KeepStamp
<1>5. KnownInv' /\ UnknownInv'
  BY <1>0, <1>a, KeepLedger DEF Restored
<1>6. SeriesInv'
  <2>1. ~Restored' /\ copy' = NoSnapshot /\ copy = NoSnapshot
    BY <1>0 DEF Restored, ControlInv
  <2> QED BY <1>0, <1>a, <2>1 DEF SeriesInv, SameSeries
<1>7. DrainInv'
  BY <1>0 DEF DrainInv
<1> QED BY <1>1, <1>2, <1>3, <1>4, <1>5, <1>6, <1>7

LEMMA ColdRetryStep == ASSUME IInv, ColdRetry PROVE IInv'
<1> USE DEF IInv
<1>0. UNCHANGED <<pc, phase, work, row, sweep, pins, entry, shelf, hook, ready, owner, meta, ghost,
                  mem, buf, copy, disk, hist>>
  BY DEF ColdRetry, kernelVars, dataVars, bindVars
<1>a. SameLedger /\ SameSeries /\ hist'.clean = hist.clean
  BY <1>0 DEF SameLedger, SameSeries
<1>1. HistOK'
  BY <1>0 DEF HistOK
<1>2. TypeOK'
  <2>1. MaxDelay \in Nat
    BY BoundsAssumption
  <2>2. delay' \in 0..MaxDelay
    BY <2>1 DEF ColdRetry, TypeOK
  <2> QED BY <1>0, <2>2 DEF TypeOK
<1>3. ControlInv'
  BY <1>0, KeepControl
<1>4. StampInv'
  BY <1>0, KeepStamp
<1>5. KnownInv' /\ UnknownInv'
  BY <1>0, <1>a, KeepLedger DEF Restored
<1>6. SeriesInv'
  BY <1>0, <1>a, KeepSeries DEF Restored
<1>7. DrainInv'
  BY <1>0, KeepDrain
<1> QED BY <1>1, <1>2, <1>3, <1>4, <1>5, <1>6, <1>7

\* The boot loads another map, m, and shelves what it can.
LEMMA OtherMapStep ==
    ASSUME IInv, LoadStep, NEW m \in {EmptyMap, shelf}, OtherMap(m),
           pins' \in {"none", "ok", "shelved", "stale"},
           m # EmptyMap => shelf' = EmptyMap,
           shelf' \in {EmptyMap, shelf, entry}
    PROVE  IInv'
<1> USE DEF IInv
<1>0. /\ pc = "loadBPF" /\ pc' = "coldStart" /\ phase = 0 /\ phase' = 1
      /\ UNCHANGED <<delay, work, row, sweep, owner, meta, ghost, mem, buf, copy, disk>>
      /\ mem = Fresh /\ buf = NoBuf /\ copy = NoSnapshot
  BY StepsAre DEF LoadStep, At, Advance, ControlInv, dataVars, bindVars
<1>b. /\ Delta(disk.state.row, entry["k"]) \in Nat /\ entry["u"].bytes \in Nat
      /\ NoRow \in Row /\ Reads(NoRow, entry["k"])
  BY Typed, DeltaNat, AbsentFacts DEF StampInv, RowOK
<1>c. Missing(Flows, NoRow) \in [Places -> [Flows -> Nat]]
  BY <1>b, MissingFacts
<1>a. /\ HistOK' /\ hist'.reused = (hist.reused \/ m # EmptyMap) /\ hist'.sent = hist.sent
      /\ hist'.astray = hist.astray /\ hist'.miss = Missing(Flows, NoRow) /\ hist'.twice = hist.twice
      /\ hist'.clean = hist.clean /\ SameSeries
  <2> DEFINE l == Missing(Flows, NoRow)
             x == hist.reused \/ m # EmptyMap
  <2>1. hist' = [hist EXCEPT !.reused = x, !.miss = l] /\ x \in BOOLEAN
    BY DEF OtherMap, HistOK, History
  <2> HIDE DEF l, x
  <2>2. l \in [Places -> [Flows -> Nat]]
    BY <1>c DEF l
  <2>3. /\ HistOK' /\ hist'.reused = x /\ hist'.sent = hist.sent
        /\ hist'.astray = hist.astray /\ hist'.miss = l /\ hist'.twice = hist.twice
        /\ hist'.clean = hist.clean /\ SameSeries
    BY <2>1, <2>2 DEF HistOK, History, SameSeries
  <2> QED BY <2>3 DEF l, x
<1>2. TypeOK'
  <2>1. pc' \in {Steps[i] : i \in DOMAIN Steps}
    BY <1>0, StepsAre
  <2>2. entry' \in Map /\ shelf' \in Map /\ phase' \in 0..4
    BY <1>0, AbsentFacts DEF OtherMap, TypeOK
  <2>3. ready' \in BOOLEAN
    BY DEF OtherMap
  <2>4. hook' \in {"none", "lost", "bare", "ready"}
    BY DEF OtherMap
  <2> QED BY <1>0, <2>1, <2>2, <2>3, <2>4 DEF TypeOK
<1>3. ControlInv'
  <2>1. hook' # "bare"
    BY DEF OtherMap
  <2> QED BY <1>0, <2>1 DEF ControlInv
<1>4. StampInv'
  <2>1. entry' = m
    BY DEF OtherMap
  <2>2. \A f \in Flows : EntryOK(entry'[f], hist.sent[f]) /\ EntryOK(shelf'[f], hist.sent[f])
    BY <2>1, AbsentFacts DEF StampInv, HistOK, History, Flows
  <2>3. entry'["k"].stamp = shelf'["k"].stamp => entry'["k"].stamp = 0
    BY <2>1, AbsentFacts
  <2>4. ASSUME NEW r \in Row, RowOK(r)
        PROVE  /\ r.stamp <= hist.sent["k"]
               /\ Reads(r, entry'["k"]) /\ Reads(r, shelf'["k"])
    BY <2>1, <2>4, AbsentFacts DEF RowOK
  <2>5. /\ RowOK(mem.row) /\ RowOK(disk.state.row) /\ RowOK(copy.state.row) /\ RowOK(NoRow)
    BY AbsentFacts, HistTyped DEF StampInv, RowOK
  <2>6. buf'["k"] = NoRow /\ buf'["u"] = NoRow
    BY <1>0, AbsentFacts
  <2> QED BY <1>0, <1>a, <2>2, <2>3, <2>4, <2>5, <2>6, Typed, AbsentFacts
          DEF StampInv, RowOK, BufferedK, BufferedU
<1>5. KnownInv' /\ UnknownInv'
  <2> SUFFICES ASSUME ~hist'.reused PROVE KnownInv' /\ UnknownInv'
    BY DEF KnownInv, UnknownInv
  <2>1. ~hist.reused /\ entry' = EmptyMap
    BY <1>a DEF OtherMap, HistOK, History
  <2>2. /\ hist'.miss["disk"]["k"] = hist.miss["disk"]["k"] + Delta(disk.state.row, entry["k"])
        /\ hist'.miss["disk"]["u"] = hist.miss["disk"]["u"] + entry["u"].bytes
    BY <1>a, <1>b, MissingFacts, UnreadIs DEF Places, Flows
  <2>3. /\ Counted(disk.state) \in Nat /\ disk.state.unknown["u"] \in Nat
        /\ hist.miss["disk"]["k"] \in Nat /\ hist.miss["disk"]["u"] \in Nat
    BY CountedNat, Typed, HistTyped
  <2>4. /\ Delta(disk'.state.row, entry'["k"]) = 0 /\ entry'["u"].bytes = 0
        /\ disk' = disk /\ ~Restored' /\ copy' = NoSnapshot
    BY <1>0, <2>1, AbsentFacts DEF Restored
  <2>5. ~hist.astray => KnownBalanced(disk.state, "disk")'
    BY <1>a, <1>b, <2>1, <2>2, <2>3, <2>4 DEF KnownInv, KnownBalanced
  <2>6. UnknownBalanced(disk.state, "disk")'
    BY <1>a, <1>b, <2>1, <2>2, <2>3, <2>4 DEF UnknownInv, UnknownBalanced
  <2> QED BY <1>a, <2>4, <2>5, <2>6 DEF KnownInv, UnknownInv
<1>6. SeriesInv'
  BY <1>0, <1>a, KeepSeries DEF Restored
<1>7. DrainInv'
  BY <1>0 DEF DrainInv
<1> QED BY <1>a, <1>2, <1>3, <1>4, <1>5, <1>6, <1>7

LEMMA LoadPinnedStep == ASSUME IInv, LoadPinned PROVE IInv'
<1> USE DEF IInv
<1>0. /\ pc = "loadBPF" /\ pc' = "coldStart" /\ phase = 0 /\ phase' = 1 /\ ready' = FALSE
      /\ UNCHANGED <<delay, work, row, sweep, owner, meta, ghost, mem, buf, copy, disk, pins, entry, shelf, hook, hist>>
  BY StepsAre DEF LoadPinned, LoadStep, At, Advance, ControlInv, dataVars, bindVars
<1>a. SameLedger /\ SameSeries
  BY <1>0 DEF SameLedger, SameSeries
<1>1. HistOK'
  BY <1>0 DEF HistOK
<1>2. TypeOK'
  <2>1. pc' \in {Steps[i] : i \in DOMAIN Steps} /\ phase' \in 0..4
    BY <1>0, StepsAre
  <2>2. ready' \in BOOLEAN
    BY <1>0
  <2> QED BY <1>0, <2>1, <2>2 DEF TypeOK
<1>3. ControlInv'
  BY <1>0 DEF ControlInv
<1>4. StampInv'
  BY <1>0, KeepStamp
<1>5. KnownInv' /\ UnknownInv'
  BY <1>0, <1>a, KeepLedger DEF Restored
<1>6. SeriesInv'
  BY <1>0, <1>a, KeepSeries DEF Restored
<1>7. DrainInv'
  BY <1>0 DEF DrainInv
<1> QED BY <1>1, <1>2, <1>3, <1>4, <1>5, <1>6, <1>7

LEMMA LoadOtherStep ==
    ASSUME IInv, LoadShelved \/ LoadFresh \/ LoadUnpinned PROVE IInv'
<1> USE DEF IInv
<1>1. CASE LoadShelved
  BY <1>1, OtherMapStep DEF LoadShelved
<1>2. CASE LoadFresh
  BY <1>2, OtherMapStep DEF LoadFresh
<1>3. CASE LoadUnpinned
  <2>1. pins' \in {"none", "ok", "shelved", "stale"} /\ shelf' \in {EmptyMap, shelf, entry}
    BY <1>3 DEF LoadUnpinned, TypeOK
  <2> QED BY <1>3, <2>1, OtherMapStep DEF LoadUnpinned
<1> QED BY <1>1, <1>2, <1>3

\* A series is at least what it is with nobody bound, and a settled one has it all.
LEMMA SeriesFacts ==
    ASSUME NEW s \in State, NEW f \in [Tenants -> Nat], NEW was, NEW now
    PROVE  /\ was \notin Tenants /\ Reaches(s, was, f) => Reaches(s, now, f)
           /\ s.row.total = 0 /\ Reaches(s, was, f) => Reaches(s, now, f)
           /\ \A t \in Tenants : \A r : SameSums(r, s, t) /\ Reaches(s, t, f) => Reaches(r, now, f)
<1>0. s.row.total \in Nat /\ s.settled \in [Tenants -> Nat]
  BY DEF State, Row
<1>1. was \notin Tenants /\ Reaches(s, was, f) => Reaches(s, now, f)
  BY <1>0 DEF Reaches, Series
<1>2. s.row.total = 0 /\ Reaches(s, was, f) => Reaches(s, now, f)
  BY <1>0 DEF Reaches, Series
<1>3. ASSUME NEW t \in Tenants, NEW r, SameSums(r, s, t), Reaches(s, t, f) PROVE Reaches(r, now, f)
  BY <1>3 DEF SameSums, Reaches
<1> QED BY <1>1, <1>2, <1>3

\* What a restored state shows and counts.
LEMMA ChangedOwners ==
    ASSUME NEW s \in State, NEW now, NEW was \in Tenants \cup {NoTenant}
    PROVE  LET r == SettleChangedOwners(s, was, now)
           IN  /\ r \in State /\ Counted(r) = Counted(s) /\ r.unknown = s.unknown
               /\ r.row.raw = s.row.raw /\ r.row.stamp = s.row.stamp
               /\ \A f \in [Tenants -> Nat] : Reaches(s, was, f) => Reaches(r, now, f)
<1> DEFINE r == SettleChangedOwners(s, was, now)
<1>1. CASE was \in {NoTenant, now}
  <2>1. r = s
    BY <1>1 DEF SettleChangedOwners
  <2>2. \A f \in [Tenants -> Nat] : Reaches(s, was, f) => Reaches(s, now, f)
    BY <1>1, SeriesFacts, TenantsFinite
  <2> QED BY <2>1, <2>2
<1>2. CASE was \notin {NoTenant, now}
  <2>1. r = SettleRebase(s, was) /\ was \in Tenants
    BY <1>2 DEF SettleChangedOwners
  <2>2. SameSums(r, s, was) /\ r.row.raw = s.row.raw /\ r.row.stamp = s.row.stamp
    BY <2>1, RebaseFacts
  <2> HIDE DEF r
  <2>3. \A f \in [Tenants -> Nat] : Reaches(s, was, f) => Reaches(r, now, f)
    BY <2>1, <2>2, SeriesFacts
  <2> QED BY <2>2, <2>3 DEF SameSums, r
<1> QED BY <1>1, <1>2

LEMMA RestoreStep == ASSUME IInv, RestoreWAL PROVE IInv'
<1> USE DEF IInv
<1>0. /\ pc = "restoreWAL" /\ pc' = "run" /\ phase = 3 /\ phase' = 4
      /\ UNCHANGED <<delay, row, sweep, pins, entry, shelf, hook, ready, owner, meta, ghost, buf, copy, disk>>
      /\ work' = [w \in DOMAIN work |-> "up"]
      /\ ready /\ copy = NoSnapshot /\ buf = NoBuf /\ ~hist.raced /\ ~ghost
      /\ \A w \in DOMAIN work : work[w] = "off"
  BY StepsAre DEF RestoreWAL, At, Advance, ControlInv, SeriesInv, kernelVars, bindVars
<1>b. disk.state \in State /\ disk.owner \in Tenants \cup {NoTenant}
  BY Typed DEF ControlInv
<1>c. /\ mem' \in State /\ Counted(mem') = Counted(disk.state) /\ mem'.unknown = disk.state.unknown
      /\ mem'.row.raw = disk.state.row.raw /\ mem'.row.stamp = disk.state.row.stamp
      /\ \A f \in [Tenants -> Nat] : Reaches(disk.state, disk.owner, f) => Reaches(mem', meta, f)
  BY <1>b, ChangedOwners DEF RestoreWAL
<1>a. /\ HistOK' /\ hist'.reused = hist.reused /\ hist'.sent = hist.sent /\ hist'.astray = hist.astray
      /\ hist'.miss["mem"] = hist.miss["disk"] /\ hist'.miss["disk"] = hist.miss["disk"]
      /\ hist'.twice["mem"] = hist.twice["disk"] /\ hist'.twice["disk"] = hist.twice["disk"]
      /\ SameSeries /\ hist'.clean = hist.clean
  <2> DEFINE l == [hist.miss EXCEPT !["mem"] = hist.miss["disk"]]
             x == [hist.twice EXCEPT !["mem"] = hist.twice["disk"]]
  <2>1. hist' = [hist EXCEPT !.miss = l, !.twice = x]
    BY DEF RestoreWAL, Resumed, HistOK, History
  <2>2. /\ l \in [Places -> [Flows -> Nat]] /\ x \in [Places -> Nat]
        /\ l["mem"] = hist.miss["disk"] /\ l["disk"] = hist.miss["disk"]
        /\ x["mem"] = hist.twice["disk"] /\ x["disk"] = hist.twice["disk"]
    BY HistTyped
  <2> HIDE DEF l, x
  <2> QED BY <2>1, <2>2 DEF HistOK, History, SameSeries
<1>2. TypeOK'
  BY <1>0, <1>c DEF TypeOK
<1>3. ControlInv'
  <2>1. sweep = "idle"
    BY <1>0, WorkersAre DEF ControlInv, TypeOK
  <2> QED BY <1>0, <2>1 DEF ControlInv
<1>4. StampInv'
  BY <1>0, <1>a, <1>c DEF StampInv, RowOK, Reads, BufferedK
<1>5. KnownInv' /\ UnknownInv'
  <2>1. Delta(mem'.row, entry["k"]) = Delta(disk.state.row, entry["k"])
    BY <1>c DEF Delta
  <2>2. KnownInv'
    BY <1>0, <1>a, <1>c, <2>1 DEF KnownInv, KnownBalanced
  <2>3. UnknownInv'
    BY <1>0, <1>a, <1>c DEF UnknownInv, UnknownBalanced
  <2> QED BY <2>2, <2>3
<1>6. SeriesInv'
  BY <1>0, <1>a, <1>c, HistTyped DEF SeriesInv, SameSeries
<1>7. DrainInv'
  BY <1>0, WorkersAre DEF DrainInv, TypeOK
<1> QED BY <1>a, <1>2, <1>3, <1>4, <1>5, <1>6, <1>7

\* The end of a process: a crash, a failed boot, or the end of the drain.
LEMMA EndsStep == ASSUME IInv, Ends PROVE IInv'
<1> USE DEF IInv
<1>0. /\ pc' = "down" /\ phase' = 0 /\ delay' = 0 /\ row' = 0 /\ sweep' = "idle"
      /\ work' = [w \in DOMAIN work |-> "off"]
      /\ meta' = NoTenant /\ ghost' = FALSE /\ mem' = Fresh /\ buf' = NoBuf /\ copy' = NoSnapshot
      /\ UNCHANGED <<pins, entry, shelf, hook, ready, owner, disk>>
  BY DEF Ends, kernelVars
<1>a. /\ HistOK' /\ hist'.reused = hist.reused /\ hist'.sent = hist.sent /\ hist'.astray = hist.astray
      /\ hist'.miss["disk"] = hist.miss["disk"] /\ hist'.twice["disk"] = hist.twice["disk"]
      /\ hist'.torn = hist.torn /\ hist'.kept = hist.kept /\ hist'.raced = FALSE
  <2> DEFINE l == [Nowhere EXCEPT !["disk"] = hist.miss["disk"]]
             x == [p \in Places |-> IF p = "disk" THEN hist.twice[p] ELSE 0]
  <2>1. hist' = [hist EXCEPT !.miss = l, !.twice = x, !.booked = NoBills, !.raced = FALSE, !.clean = TRUE]
    BY DEF Ends
  <2>2. /\ l \in [Places -> [Flows -> Nat]] /\ x \in [Places -> Nat]
        /\ l["disk"] = hist.miss["disk"] /\ x["disk"] = hist.twice["disk"]
    BY HistTyped, AbsentFacts DEF Nowhere
  <2> HIDE DEF l, x
  <2> QED BY <2>1, <2>2, CountedFresh DEF HistOK, History
<1>2. TypeOK'
  <2>1. phase' \in 0..4 /\ delay' \in 0..MaxDelay /\ row' \in 0..Len(Workers)
    BY <1>0, BoundsAssumption, WorkersAre
  <2>3. ghost' \in BOOLEAN
    BY <1>0
  <2>2. /\ work' \in [{Workers[i] : i \in DOMAIN Workers} -> {"off", "up", "cancelled", "final", "done"}]
        /\ mem' \in State /\ buf' \in [Flows -> Row] /\ copy' \in Saved
    BY <1>0, AbsentFacts, SnapshotFacts, CountedFresh DEF TypeOK
  <2> QED BY <1>0, <2>1, <2>2, <2>3 DEF TypeOK
<1>3. ControlInv'
  BY <1>0 DEF ControlInv
<1>4. StampInv'
  <2>1. mem'.row = NoRow /\ copy'.state.row = NoRow /\ buf'["k"] = NoRow /\ buf'["u"] = NoRow
    BY <1>0, SnapshotFacts, CountedFresh, AbsentFacts
  <2> QED BY <1>0, <1>a, <2>1, HistTyped, AbsentFacts DEF StampInv, RowOK, BufferedK, BufferedU
<1>5. KnownInv' /\ UnknownInv'
  BY <1>0, <1>a DEF KnownInv, UnknownInv, KnownBalanced, UnknownBalanced, Restored
<1>6. SeriesInv'
  BY <1>0, <1>a DEF SeriesInv, Restored
<1>7. DrainInv'
  BY <1>0, WorkersAre DEF DrainInv, TypeOK
<1> QED BY <1>a, <1>2, <1>3, <1>4, <1>5, <1>6, <1>7

-----------------------------------------------------------------------------
(* The workers.                                                            *)

\* Where the workers are not off, the state is restored.
LEMMA Working ==
    ASSUME IInv, NEW w \in DOMAIN work, work[w] # "off"
    PROVE  phase = 4 /\ pc \in {"run", "drain"} /\ ready
<1> USE DEF IInv
<1>1. phase = 4
  BY DEF ControlInv, TypeOK
<1>2. pc \in {"down", "run", "drain", "huntZombies", "loadBPF", "coldStart", "wire", "restoreWAL"}
  BY StepsAre DEF TypeOK
<1>3. pc \in {"run", "drain"}
  BY <1>1, <1>2 DEF ControlInv
<1> QED BY <1>1, <1>3 DEF ControlInv

LEMMA WorkDomain ==
    ASSUME TypeOK
    PROVE  /\ DOMAIN work = {"netlink", "ghost", "reconciler", "scraper", "wal"}
           /\ \A w \in DOMAIN work : work[w] \in {"off", "up", "cancelled", "final", "done"}
  BY WorkersAre DEF TypeOK

\* A sweep in progress has its worker, and a binding.
LEMMA Sweeping ==
    ASSUME IInv, sweep # "idle"
    PROVE  /\ phase = 4 /\ pc \in {"run", "drain"} /\ meta \in Tenants
           /\ work["ghost"] \in {"up", "cancelled"} /\ "ghost" \in DOMAIN work
<1>1. work["ghost"] \in {"up", "cancelled"} /\ "ghost" \in DOMAIN work /\ meta \in Tenants
  BY WorkDomain DEF IInv, ControlInv
<1> QED BY <1>1, Working

\* While a worker that changes the state is at it, the last flush of a clean
\* drain has not begun: what it changes is not yet claimed to be on disk.
LEMMA BusyDrain ==
    ASSUME IInv, NEW w \in {"ghost", "reconciler", "scraper"}, work[w] \in {"up", "cancelled", "final"},
           UNCHANGED <<pc, row, work, copy, disk>>, hist'.clean = hist.clean,
           work["scraper"] = "done" => buf' = buf
    PROVE  DrainInv'
<1>1. pc = "drain" /\ hist.clean => work["wal"] \notin {"cancelled", "final", "done"}
  BY DEF IInv, DrainInv
<1> QED BY <1>1 DEF IInv, DrainInv

LEMMA AttachStep == ASSUME IInv, NetlinkAttaches PROVE IInv'
<1> USE DEF IInv
<1>0. hook' = "ready"
  BY Working, WorkDomain DEF NetlinkAttaches, Active
<1>a. UNCHANGED <<pc, phase, delay, work, row, sweep, pins, entry, shelf, ready, owner, meta, ghost, mem, buf, copy, disk, hist>>
  BY DEF NetlinkAttaches, procVars, dataVars, bindVars
<1>b. SameLedger /\ SameSeries
  BY <1>a DEF SameLedger, SameSeries
<1>1. HistOK'
  BY <1>a DEF HistOK
<1>2. TypeOK'
  BY <1>0, <1>a DEF TypeOK
<1>3. ControlInv'
  BY <1>0, <1>a DEF ControlInv
<1>4. StampInv'
  BY <1>a, KeepStamp
<1>5. KnownInv' /\ UnknownInv'
  BY <1>a, <1>b, KeepLedger DEF Restored
<1>6. SeriesInv'
  BY <1>a, <1>b, KeepSeries DEF Restored
<1>7. DrainInv'
  BY <1>a, KeepDrain
<1> QED BY <1>1, <1>2, <1>3, <1>4, <1>5, <1>6, <1>7

\* A state of which only the totals moved keeps the ledgers.
LEMMA KeepSums ==
    ASSUME TypeOK, KnownInv, UnknownInv, UNCHANGED <<entry, disk, copy>>, Restored, SameLedger,
           Counted(mem') = Counted(mem), mem'.unknown = mem.unknown,
           Delta(mem'.row, entry["k"]) = Delta(mem.row, entry["k"])
    PROVE  KnownInv' /\ UnknownInv'
  BY DEF KnownInv, UnknownInv, KnownBalanced, UnknownBalanced, SameLedger

LEMMA LearnStep == ASSUME IInv, Learn PROVE IInv'
<1> USE DEF IInv
<1>a. /\ UNCHANGED <<pc, phase, delay, work, row, sweep, pins, entry, shelf, hook, ready, owner, buf, copy, disk>>
      /\ meta' = owner /\ owner \in Tenants /\ ghost' = FALSE
      /\ work["reconciler"] \in {"up", "cancelled"}
      /\ mem' = IF meta \in {NoTenant, owner} THEN mem ELSE SettleRebase(mem, meta)
  BY DEF Learn, procVars, kernelVars, TypeOK, Active
<1>0. phase = 4 /\ pc \in {"run", "drain"}
  BY <1>a, Working, WorkDomain
<1>b. /\ HistOK' /\ SameLedger /\ hist'.torn = hist.torn /\ hist'.orphan = hist.orphan
      /\ hist'.kept = hist.kept /\ hist'.booked = hist.booked /\ hist'.clean = hist.clean
      /\ hist'.raced = (hist.raced \/ (copy # NoSnapshot /\ meta \notin {NoTenant, owner}))
  BY DEF Learn, HistOK, History, SameLedger
<1>c. /\ mem' \in State /\ Counted(mem') = Counted(mem) /\ mem'.unknown = mem.unknown
      /\ mem'.row.raw = mem.row.raw /\ mem'.row.stamp = mem.row.stamp
      /\ \A f \in [Tenants -> Nat] : Reaches(mem, meta, f) => Reaches(mem', owner, f)
  <2>1. CASE meta \in {NoTenant, owner}
    <3>1. \A f \in [Tenants -> Nat] : Reaches(mem, meta, f) => Reaches(mem, owner, f)
      BY <2>1, SeriesFacts, Typed, TenantsFinite
    <3> QED BY <1>a, <2>1, <3>1, Typed
  <2>2. CASE meta \notin {NoTenant, owner}
    <3>1. mem' = SettleRebase(mem, meta) /\ meta \in Tenants
      BY <1>a, <2>2 DEF TypeOK
    <3>2. SameSums(mem', mem, meta) /\ mem'.row.raw = mem.row.raw /\ mem'.row.stamp = mem.row.stamp
      BY <3>1, RebaseFacts, Typed
    <3>3. \A f \in [Tenants -> Nat] : Reaches(mem, meta, f) => Reaches(mem', owner, f)
      BY <3>1, <3>2, SeriesFacts, Typed
    <3> QED BY <3>2, <3>3 DEF SameSums
  <2> QED BY <2>1, <2>2
<1>2. TypeOK'
  <2>1. meta' \in Tenants \cup {NoTenant}
    BY <1>a
  <2>2. ghost' \in BOOLEAN
    BY <1>a
  <2> QED BY <1>a, <1>c, <2>1, <2>2 DEF TypeOK
<1>3. ControlInv'
  BY <1>0, <1>a DEF ControlInv
<1>4. StampInv'
  BY <1>a, <1>b, <1>c DEF StampInv, RowOK, Reads, BufferedK, SameLedger
<1>5. KnownInv' /\ UnknownInv'
  <2>1. Delta(mem'.row, entry["k"]) = Delta(mem.row, entry["k"])
    BY <1>c DEF Delta
  <2> QED BY <1>0, <1>a, <1>b, <1>c, <2>1, KeepSums DEF Restored
<1>6. SeriesInv'
  <2>1. Reaches(mem, meta, hist.kept) => Reaches(mem', owner, hist.kept)
    BY <1>c, HistTyped
  <2>2. Reaches(mem, meta, hist.booked) => Reaches(mem', owner, hist.booked)
    BY <1>c, HistTyped
  <2>3. meta \in {NoTenant, owner} /\ Reaches(copy.state, meta, hist.booked)
            => Reaches(copy.state, owner, hist.booked)
    BY HistTyped, SeriesFacts, Typed, TenantsFinite
  <2> QED BY <1>0, <1>a, <1>b, <2>1, <2>2, <2>3 DEF SeriesInv, Restored
<1>7. DrainInv'
  BY <1>a, <1>b, BusyDrain
<1> QED BY <1>b, <1>2, <1>3, <1>4, <1>5, <1>6, <1>7

LEMMA MarkGoneStep == ASSUME IInv, MarkGone PROVE IInv'
<1> USE DEF IInv
<1>a. /\ UNCHANGED <<pc, phase, delay, work, row, sweep, pins, entry, shelf, hook, ready, owner, meta, mem, buf, copy, disk, hist>>
      /\ ghost' = TRUE /\ meta \in Tenants /\ work["reconciler"] \in {"up", "cancelled"}
  BY DEF MarkGone, procVars, kernelVars, TypeOK, Active
<1>0. phase = 4
  BY <1>a, Working, WorkDomain
<1>b. SameLedger /\ SameSeries
  BY <1>a DEF SameLedger, SameSeries
<1>1. HistOK'
  BY <1>a DEF HistOK
<1>2. TypeOK'
  <2>1. ghost' \in BOOLEAN
    BY <1>a
  <2> QED BY <1>a, <2>1 DEF TypeOK
<1>3. ControlInv'
  BY <1>0, <1>a DEF ControlInv
<1>4. StampInv'
  BY <1>a, KeepStamp
<1>5. KnownInv' /\ UnknownInv'
  BY <1>a, <1>b, KeepLedger DEF Restored
<1>6. SeriesInv'
  BY <1>a, <1>b, KeepSeries DEF Restored
<1>7. DrainInv'
  BY <1>a, KeepDrain
<1> QED BY <1>1, <1>2, <1>3, <1>4, <1>5, <1>6, <1>7

LEMMA SweepBeginsStep == ASSUME IInv, SweepBegins PROVE IInv'
<1> USE DEF IInv
<1>a. /\ UNCHANGED <<pc, phase, delay, work, row, pins, entry, shelf, hook, ready, owner, meta, ghost, mem, buf, copy, disk, hist>>
      /\ ghost /\ work["ghost"] \in {"up", "cancelled"} /\ sweep' = "held"
  BY DEF SweepBegins, kernelVars, dataVars, bindVars, Active
<1>b. SameLedger /\ SameSeries
  BY <1>a DEF SameLedger, SameSeries
<1>1. HistOK'
  BY <1>a DEF HistOK
<1>2. TypeOK'
  BY <1>a DEF TypeOK
<1>3. ControlInv'
  BY <1>a DEF ControlInv
<1>4. StampInv'
  BY <1>a, KeepStamp
<1>5. KnownInv' /\ UnknownInv'
  BY <1>a, <1>b, KeepLedger DEF Restored
<1>6. SeriesInv'
  BY <1>a, <1>b, KeepSeries DEF Restored
<1>7. DrainInv'
  BY <1>a, KeepDrain
<1> QED BY <1>1, <1>2, <1>3, <1>4, <1>5, <1>6, <1>7

\* The entries of the flows D are gone from the map in use.
LEMMA GoneStamp ==
    ASSUME TypeOK, HistOK, StampInv, NEW D,
           entry' = [f \in Flows |-> IF f \in D THEN Absent ELSE entry[f]]
    PROVE  /\ entry' \in Map
           /\ entry'["k"] = (IF "k" \in D THEN Absent ELSE entry["k"])
           /\ entry'["u"] = (IF "u" \in D THEN Absent ELSE entry["u"])
           /\ \A f \in Flows : EntryOK(entry'[f], hist.sent[f]) /\ EntryOK(shelf[f], hist.sent[f])
           /\ entry'["k"].stamp = shelf["k"].stamp => entry'["k"].stamp = 0
           /\ \A r : Reads(r, entry["k"]) => Reads(r, entry'["k"])
<1>1. /\ entry'["k"] = (IF "k" \in D THEN Absent ELSE entry["k"])
      /\ entry'["u"] = (IF "u" \in D THEN Absent ELSE entry["u"])
      /\ entry' \in Map
  BY AbsentFacts DEF Flows, Map, TypeOK, Entry
<1>2. \A f \in Flows : EntryOK(entry'[f], hist.sent[f]) /\ EntryOK(shelf[f], hist.sent[f])
  BY <1>1, AbsentFacts DEF StampInv, HistOK, History, Flows
<1> QED BY <1>1, <1>2, AbsentFacts DEF StampInv

LEMMA SweepEvictsStep == ASSUME IInv, NEW ok \in BOOLEAN, SweepEvicts(ok) PROVE IInv'
<1> USE DEF IInv
<1>a. /\ UNCHANGED <<pc, phase, delay, work, row, pins, shelf, hook, ready, owner, meta, ghost, mem, buf, copy, disk>>
      /\ sweep = "held" /\ sweep' = "evicted"
  BY DEF SweepEvicts, dataVars, bindVars
<1>0. phase = 4 /\ meta \in Tenants /\ work["ghost"] \in {"up", "cancelled"}
  BY <1>a, Sweeping
<1> DEFINE D == IF ok THEN {"k"} ELSE {}
<1>b. entry' = [f \in Flows |-> IF f \in D THEN Absent ELSE entry[f]]
  BY DEF SweepEvicts, TypeOK, Map, Flows
<1>c. mem.row \in Row /\ Reads(mem.row, entry["k"])
  BY Typed DEF StampInv, RowOK
<1> DEFINE l == IF ok THEN Missing({"k"}, mem.row) ELSE hist.miss
<1>d. /\ l \in [Places -> [Flows -> Nat]]
      /\ \A p \in Places : /\ l[p]["k"] = hist.miss[p]["k"] + (IF ok THEN Unread(p, "k", mem.row) ELSE 0)
                           /\ l[p]["u"] = hist.miss[p]["u"]
  <2>1. CASE ok
    <3>1. /\ Missing({"k"}, mem.row) \in [Places -> [Flows -> Nat]]
          /\ \A p \in Places : \A f \in Flows :
               Missing({"k"}, mem.row)[p][f] = hist.miss[p][f] + (IF f \in {"k"} THEN Unread(p, f, mem.row) ELSE 0)
      BY <1>c, MissingFacts
    <3>2. "k" \in Flows /\ "u" \in Flows
      BY DEF Flows
    <3> QED BY <2>1, <3>1, <3>2, HistTyped
  <2>2. CASE ~ok
    BY <2>2, HistTyped
  <2> QED BY <2>1, <2>2
<1>e. /\ HistOK' /\ hist'.reused = hist.reused /\ hist'.sent = hist.sent /\ hist'.astray = hist.astray
      /\ hist'.twice = hist.twice /\ hist'.miss = l /\ SameSeries /\ hist'.clean = hist.clean
  <2>1. hist' = [hist EXCEPT !.miss = l]
    BY DEF SweepEvicts
  <2> HIDE DEF l
  <2> QED BY <1>d, <2>1 DEF HistOK, History, SameSeries
<1> HIDE DEF l
<1>f. /\ entry' \in Map /\ entry'["k"] = (IF ok THEN Absent ELSE entry["k"]) /\ entry'["u"] = entry["u"]
      /\ \A f \in Flows : EntryOK(entry'[f], hist.sent[f]) /\ EntryOK(shelf[f], hist.sent[f])
      /\ entry'["k"].stamp = shelf["k"].stamp => entry'["k"].stamp = 0
      /\ \A r : Reads(r, entry["k"]) => Reads(r, entry'["k"])
  <2>1. ("k" \in D) = ok /\ "u" \notin D
    OBVIOUS
  <2> HIDE DEF D
  <2> QED BY <1>b, <2>1, GoneStamp
<1>2. TypeOK'
  BY <1>a, <1>f DEF TypeOK
<1>3. ControlInv'
  BY <1>a DEF ControlInv
<1>4. StampInv'
  BY <1>a, <1>e, <1>f DEF StampInv, RowOK, BufferedK
<1>5. KnownInv' /\ UnknownInv'
  <2>1. /\ Counted(disk.state) \in Nat /\ Counted(mem) \in Nat /\ Counted(copy.state) \in Nat
        /\ Delta(disk.state.row, entry["k"]) \in Nat /\ Delta(mem.row, entry["k"]) \in Nat
        /\ Delta(copy.state.row, entry["k"]) \in Nat
    BY CountedNat, Typed, DeltaNat DEF StampInv, RowOK
  <2>2. /\ l["disk"]["k"] + Delta(disk.state.row, entry'["k"])
              = hist.miss["disk"]["k"] + Delta(disk.state.row, entry["k"])
        /\ l["mem"]["k"] + Delta(mem.row, entry'["k"]) = hist.miss["mem"]["k"] + Delta(mem.row, entry["k"])
        /\ copy # NoSnapshot => l["copy"]["k"] + Delta(copy.state.row, entry'["k"])
              = hist.miss["copy"]["k"] + Delta(copy.state.row, entry["k"])
    BY <1>0, <1>d, <1>f, <2>1, AbsentFacts, UnreadIs, HistTyped
  <2>3. /\ Delta(disk.state.row, entry'["k"]) \in Nat /\ Delta(mem.row, entry'["k"]) \in Nat
        /\ Delta(copy.state.row, entry'["k"]) \in Nat
    BY <1>f, <2>1, AbsentFacts
  <2>4. l["disk"]["k"] \in Nat /\ l["mem"]["k"] \in Nat /\ l["copy"]["k"] \in Nat
    BY <1>d, HistTyped DEF Flows
  <2>5. KnownInv'
    <3> SUFFICES ASSUME ~hist.reused, ~hist.astray
                 PROVE  /\ KnownBalanced(disk.state, "disk")' /\ KnownBalanced(mem, "mem")'
                        /\ copy # NoSnapshot => KnownBalanced(copy.state, "copy")'
      BY <1>a, <1>e DEF KnownInv
    <3>1. /\ KnownBalanced(disk.state, "disk") /\ KnownBalanced(mem, "mem")
          /\ copy # NoSnapshot => KnownBalanced(copy.state, "copy")
      BY <1>0 DEF KnownInv, Restored
    <3>2. hist.miss["disk"]["k"] \in Nat /\ hist.miss["mem"]["k"] \in Nat /\ hist.miss["copy"]["k"] \in Nat
      BY HistTyped
    <3> QED BY <1>a, <1>e, <2>1, <2>2, <2>3, <2>4, <3>1, <3>2 DEF KnownBalanced
  <2>6. l["disk"]["u"] = hist.miss["disk"]["u"] /\ l["mem"]["u"] = hist.miss["mem"]["u"]
        /\ l["copy"]["u"] = hist.miss["copy"]["u"]
    BY <1>d, HistTyped
  <2>7. UnknownInv'
    BY <1>a, <1>e, <1>f, <2>6 DEF UnknownInv, UnknownBalanced, Restored
  <2> QED BY <2>5, <2>7
<1>6. SeriesInv'
  BY <1>a, <1>e, KeepSeries DEF Restored
<1>7. DrainInv'
  BY <1>a, <1>e, KeepDrain
<1> QED BY <1>e, <1>2, <1>3, <1>4, <1>5, <1>6, <1>7

LEMMA SweepSettlesStep == ASSUME IInv, SweepSettles PROVE IInv'
<1> USE DEF IInv
<1>a. /\ UNCHANGED <<pc, phase, delay, work, row, pins, entry, shelf, hook, ready, owner, meta, ghost, buf, copy, disk>>
      /\ sweep = "evicted" /\ sweep' = "settled" /\ mem' = SettleEvict(mem, meta)
  BY DEF SweepSettles, kernelVars, bindVars
<1>0. phase = 4 /\ meta \in Tenants /\ work["ghost"] \in {"up", "cancelled"}
  BY <1>a, Sweeping
<1>b. /\ HistOK' /\ hist'.reused = hist.reused /\ hist'.sent = hist.sent /\ hist'.miss = hist.miss
      /\ hist'.twice = hist.twice /\ SameSeries /\ hist'.clean = hist.clean
      /\ hist'.astray = (hist.astray \/ Delta(NoRow, entry["k"]) # Delta(mem.row, entry["k"]))
  BY DEF SweepSettles, HistOK, History, SameSeries
<1>c. SameSums(mem', mem, meta) /\ mem'.row = NoRow
  BY <1>0, <1>a, EvictFacts, Typed
<1>2. TypeOK'
  BY <1>a, <1>c DEF TypeOK, SameSums
<1>3. ControlInv'
  BY <1>0, <1>a DEF ControlInv
<1>4. StampInv'
  <2>1. RowOK(NoRow)
    BY AbsentFacts, HistTyped DEF RowOK
  <2>2. ~hist'.astray => ~hist.astray
    BY <1>b
  <2> QED BY <1>a, <1>b, <1>c, <2>1, <2>2 DEF StampInv, RowOK, BufferedK
<1>5. KnownInv' /\ UnknownInv'
  <2>1. KnownInv'
    BY <1>0, <1>a, <1>b, <1>c DEF KnownInv, KnownBalanced, Restored, SameSums
  <2>2. UnknownInv'
    BY <1>0, <1>a, <1>b, <1>c DEF UnknownInv, UnknownBalanced, Restored, SameSums
  <2> QED BY <2>1, <2>2
<1>6. SeriesInv'
  <2>1. Reaches(mem, meta, hist.kept) => Reaches(mem', meta, hist.kept)
    BY <1>0, <1>c, SeriesFacts, Typed, HistTyped
  <2>2. Reaches(mem, meta, hist.booked) => Reaches(mem', meta, hist.booked)
    BY <1>0, <1>c, SeriesFacts, Typed, HistTyped
  <2> QED BY <1>0, <1>a, <1>b, <2>1, <2>2 DEF SeriesInv, Restored, SameSeries
<1>7. DrainInv'
  BY <1>0, <1>a, <1>b, BusyDrain
<1> QED BY <1>b, <1>2, <1>3, <1>4, <1>5, <1>6, <1>7

LEMMA SweepDeletesStep == ASSUME IInv, SweepDeletes PROVE IInv'
<1> USE DEF IInv
<1>a. /\ UNCHANGED <<pc, phase, delay, work, row, pins, entry, shelf, hook, ready, owner, mem, buf, copy, disk>>
      /\ sweep = "settled" /\ sweep' = "idle" /\ meta' = NoTenant /\ ghost' = FALSE
  BY DEF SweepDeletes, kernelVars
<1>0. phase = 4 /\ meta \in Tenants /\ work["ghost"] \in {"up", "cancelled"}
  BY <1>a, Sweeping
<1>b. /\ HistOK' /\ SameLedger /\ hist'.torn = hist.torn /\ hist'.clean = hist.clean
      /\ hist'.kept = hist.kept /\ hist'.booked = hist.booked
      /\ hist'.raced = (hist.raced \/ copy # NoSnapshot)
      /\ hist'.orphan = (hist.orphan \/ mem.row.total > 0)
  BY DEF SweepDeletes, HistOK, History, SameLedger
<1>2. TypeOK'
  <2>1. ghost' \in BOOLEAN
    BY <1>a
  <2> QED BY <1>a, <2>1 DEF TypeOK
<1>3. ControlInv'
  BY <1>0, <1>a DEF ControlInv
<1>4. StampInv'
  BY <1>a, <1>b, KeepStamp DEF SameLedger
<1>5. KnownInv' /\ UnknownInv'
  BY <1>a, <1>b, KeepLedger DEF Restored
<1>6. SeriesInv'
  <2>0. ~hist'.orphan => ~(mem.row.total > 0) /\ ~hist.orphan
    BY <1>b, Zenon
  <2>4. ~(mem.row.total > 0) => mem.row.total = 0
    BY Typed
  <2>1. ~hist'.orphan => mem.row.total = 0 /\ ~hist.orphan
    BY <2>0, <2>4
  <2>2. ~hist'.orphan /\ Reaches(mem, meta, hist.kept) => Reaches(mem, NoTenant, hist.kept)
    BY <2>1, SeriesFacts, Typed, HistTyped
  <2>3. ~hist'.orphan /\ Reaches(mem, meta, hist.booked) => Reaches(mem, NoTenant, hist.booked)
    BY <2>1, SeriesFacts, Typed, HistTyped
  <2> QED BY <1>0, <1>a, <1>b, <2>1, <2>2, <2>3 DEF SeriesInv, Restored
<1>7. DrainInv'
  BY <1>0, <1>a, <1>b, BusyDrain
<1> QED BY <1>b, <1>2, <1>3, <1>4, <1>5, <1>6, <1>7

LEMMA FlushCopyStep == ASSUME IInv, FlushCopy PROVE IInv'
<1> USE DEF IInv
<1>a. /\ UNCHANGED <<pc, phase, delay, work, row, sweep, pins, entry, shelf, hook, ready, owner, meta, ghost, mem, buf, disk>>
      /\ copy = NoSnapshot /\ copy' = Snapshot(mem, "pending") /\ work["wal"] \in {"up", "final"}
  BY DEF FlushCopy, procVars, kernelVars, bindVars
<1>0. phase = 4 /\ pc \in {"run", "drain"}
  BY <1>a, Working, WorkDomain
<1>d. [t \in Tenants |-> Series(mem, t, meta)] \in [Tenants -> Nat]
  BY Typed DEF Series, Row
<1>b. /\ HistOK' /\ hist'.reused = hist.reused /\ hist'.sent = hist.sent /\ hist'.astray = hist.astray
      /\ hist'.miss["mem"] = hist.miss["mem"] /\ hist'.miss["disk"] = hist.miss["disk"]
      /\ hist'.miss["copy"] = hist.miss["mem"] /\ hist'.twice["copy"] = hist.twice["mem"]
      /\ hist'.twice["mem"] = hist.twice["mem"] /\ hist'.twice["disk"] = hist.twice["disk"]
      /\ hist'.torn = hist.torn /\ hist'.orphan = hist.orphan
      /\ hist'.kept = hist.kept /\ hist'.clean = hist.clean /\ hist'.raced = hist.raced
      /\ hist'.booked = [t \in Tenants |-> Series(mem, t, meta)]
  <2> DEFINE bk == [t \in Tenants |-> Series(mem, t, meta)]
             l == [hist.miss EXCEPT !["copy"] = hist.miss["mem"]]
             x == [hist.twice EXCEPT !["copy"] = hist.twice["mem"]]
  <2>1. hist' = [hist EXCEPT !.miss = l, !.twice = x, !.booked = bk]
    BY DEF FlushCopy, HistOK, History
  <2>2. /\ l \in [Places -> [Flows -> Nat]] /\ x \in [Places -> Nat]
        /\ l["copy"] = hist.miss["mem"] /\ l["mem"] = hist.miss["mem"] /\ l["disk"] = hist.miss["disk"]
        /\ x["copy"] = hist.twice["mem"] /\ x["mem"] = hist.twice["mem"] /\ x["disk"] = hist.twice["disk"]
        /\ bk \in [Tenants -> Nat]
    BY <1>d, HistTyped
  <2> HIDE DEF l, x, bk
  <2>3. /\ HistOK' /\ hist'.reused = hist.reused /\ hist'.sent = hist.sent /\ hist'.astray = hist.astray
        /\ hist'.miss = l /\ hist'.twice = x
        /\ hist'.torn = hist.torn /\ hist'.orphan = hist.orphan
        /\ hist'.kept = hist.kept /\ hist'.clean = hist.clean /\ hist'.raced = hist.raced
        /\ hist'.booked = bk
    BY <2>1, <2>2 DEF HistOK, History
  <2> QED BY <2>2, <2>3 DEF bk
<1>c. copy'.state = mem /\ copy'.owner = "pending" /\ copy' \in Saved /\ copy' # NoSnapshot
  BY <1>a, SnapshotFacts, Typed
<1>2. TypeOK'
  BY <1>a, <1>c DEF TypeOK
<1>3. ControlInv'
  BY <1>0, <1>a, <1>c DEF ControlInv
<1>4. StampInv'
  BY <1>a, <1>b, <1>c DEF StampInv, RowOK, BufferedK
<1>5. KnownInv' /\ UnknownInv'
  <2>1. KnownInv'
    BY <1>0, <1>a, <1>b, <1>c DEF KnownInv, KnownBalanced, Restored
  <2>2. UnknownInv'
    BY <1>0, <1>a, <1>b, <1>c DEF UnknownInv, UnknownBalanced, Restored
  <2> QED BY <2>1, <2>2
<1>6. SeriesInv'
  <2>1. Reaches(mem, meta, hist'.booked)
    BY <1>b, <1>d DEF Reaches
  <2> QED BY <1>0, <1>a, <1>b, <1>c, <2>1 DEF SeriesInv, Restored
<1>7. DrainInv'
  BY <1>a, <1>b, <1>c DEF DrainInv
<1> QED BY <1>b, <1>2, <1>3, <1>4, <1>5, <1>6, <1>7

LEMMA FlushSaveStep == ASSUME IInv, NEW ok \in BOOLEAN, FlushSave(ok) PROVE IInv'
<1> USE DEF IInv
<1>a. /\ UNCHANGED <<pc, phase, delay, row, sweep, pins, entry, shelf, hook, ready, owner, meta, ghost, mem, buf>>
      /\ copy # NoSnapshot /\ copy' = NoSnapshot
      /\ work' = [work EXCEPT !["wal"] = IF @ = "final" THEN "done" ELSE @]
      /\ disk' = IF ok THEN Snapshot(copy.state, meta) ELSE disk
  BY DEF FlushSave, kernelVars, bindVars
<1>0. /\ work["wal"] \in {"up", "cancelled", "final"} /\ "wal" \in DOMAIN work
      /\ phase = 4 /\ pc \in {"run", "drain"}
  BY <1>a, Working, WorkDomain DEF ControlInv
<1>w. /\ work' \in [{Workers[i] : i \in DOMAIN Workers} -> {"off", "up", "cancelled", "final", "done"}]
      /\ work'["wal"] = (IF work["wal"] = "final" THEN "done" ELSE work["wal"])
      /\ DOMAIN work' = DOMAIN work /\ \A w \in DOMAIN work \ {"wal"} : work'[w] = work[w]
  BY <1>0, <1>a DEF TypeOK
<1> DEFINE l == [hist.miss EXCEPT !["copy"] = Zero, !["disk"] = IF ok THEN hist.miss["copy"] ELSE @]
           x == [hist.twice EXCEPT !["copy"] = 0, !["disk"] = IF ok THEN hist.twice["copy"] ELSE @]
<1>l. /\ l \in [Places -> [Flows -> Nat]] /\ x \in [Places -> Nat] /\ l["mem"] = hist.miss["mem"]
      /\ l["disk"] = (IF ok THEN hist.miss["copy"] ELSE hist.miss["disk"])
      /\ x["mem"] = hist.twice["mem"]
      /\ x["disk"] = (IF ok THEN hist.twice["copy"] ELSE hist.twice["disk"])
  BY HistTyped, AbsentFacts
<1>h. /\ HistOK' /\ hist'.reused = hist.reused /\ hist'.sent = hist.sent /\ hist'.astray = hist.astray
      /\ hist'.orphan = hist.orphan /\ hist'.raced = FALSE /\ hist'.miss = l /\ hist'.twice = x
      /\ hist'.kept = (IF ok THEN hist.booked ELSE hist.kept)
      /\ hist'.torn = (IF ok THEN hist.raced ELSE hist.torn)
      /\ hist'.clean = (IF ok THEN hist.clean ELSE hist.clean /\ work["wal"] # "final")
  <2>1. CASE ok
    <3>1. hist' = [hist EXCEPT !.miss = l, !.twice = x, !.booked = NoBills, !.raced = FALSE,
                               !.kept = hist.booked, !.torn = hist.raced]
      BY <2>1 DEF FlushSave, HistOK, History
    <3> HIDE DEF l, x
    <3>2. hist.booked \in [Tenants -> Nat] /\ NoBills \in [Tenants -> Nat]
      BY HistTyped, CountedFresh
    <3>3. hist.raced \in BOOLEAN
      BY HistTyped
    <3>4. HistOK'
      BY <1>l, <3>1, <3>2, <3>3 DEF HistOK, History
    <3> QED BY <2>1, <3>1, <3>4 DEF HistOK, History
  <2>2. CASE ~ok
    <3> DEFINE c == hist.clean /\ work["wal"] # "final"
    <3>1. hist' = [hist EXCEPT !.miss = l, !.twice = x, !.booked = NoBills, !.raced = FALSE, !.clean = c]
      BY <2>2, HistTyped DEF FlushSave, HistOK, History
    <3>2. c \in BOOLEAN
      OBVIOUS
    <3> HIDE DEF l, x, c
    <3>4. HistOK'
      BY <1>l, <3>1, <3>2, CountedFresh DEF HistOK, History
    <3>5. hist'.clean = c
      BY <3>1 DEF HistOK, History
    <3>6. /\ hist'.reused = hist.reused /\ hist'.sent = hist.sent /\ hist'.astray = hist.astray
          /\ hist'.orphan = hist.orphan /\ hist'.raced = FALSE /\ hist'.miss = l /\ hist'.twice = x
          /\ hist'.kept = hist.kept /\ hist'.torn = hist.torn
      BY <3>1 DEF HistOK, History
    <3> QED BY <2>2, <3>4, <3>5, <3>6 DEF c
  <2> QED BY <2>1, <2>2
<1> HIDE DEF l, x
<1>d. disk' \in Saved /\ disk'.owner \in Tenants \cup {NoTenant}
  <2>1. meta \in Tenants \cup {NoTenant}
    BY DEF TypeOK
  <2> QED BY <1>a, <2>1, SnapshotFacts, Typed DEF TypeOK, ControlInv
<1>2. TypeOK'
  BY <1>a, <1>d, <1>w, SnapshotFacts DEF TypeOK
<1>3. ControlInv'
  BY <1>0, <1>a, <1>d, <1>w, WorkDomain DEF ControlInv
<1>4. StampInv'
  <2>1. copy'.state.row = NoRow
    BY <1>a, SnapshotFacts, CountedFresh
  <2>2. RowOK(NoRow)
    BY AbsentFacts, HistTyped DEF RowOK
  <2>3. disk'.state.row \in {disk.state.row, copy.state.row}
    BY <1>a, SnapshotFacts
  <2> QED BY <1>a, <1>h, <2>1, <2>2, <2>3 DEF StampInv, RowOK, BufferedK
<1>5. KnownInv' /\ UnknownInv'
  <2>1. KnownInv'
    BY <1>a, <1>h, <1>l, SnapshotFacts DEF KnownInv, KnownBalanced, Restored
  <2>2. UnknownInv'
    BY <1>a, <1>h, <1>l, SnapshotFacts DEF UnknownInv, UnknownBalanced, Restored
  <2> QED BY <2>1, <2>2
<1>6. SeriesInv'
  BY <1>0, <1>a, <1>h, SnapshotFacts DEF SeriesInv, Restored
<1>7. DrainInv'
  <2>1. pc = "run" => work' = work
    BY <1>0, <1>a, <1>w DEF DrainInv, TypeOK
  <2>2. work["wal"] = "final" /\ ~ok => ~hist'.clean
    BY <1>h
  <2>3. hist'.clean => hist.clean
    BY <1>h
  <2>4. hist'.clean /\ pc = "drain" /\ work'["wal"] = "done" => disk' = Snapshot(mem, meta)
    BY <1>0, <1>a, <1>w, <2>2, <2>3 DEF DrainInv
  <2> QED BY <1>0, <1>a, <1>w, <2>1, <2>3, <2>4, WorkDomain DEF DrainInv
<1> QED BY <1>h, <1>2, <1>3, <1>4, <1>5, <1>6, <1>7

\* A capture of u brings the buffered entry up to the kernel's.
LEMMA CaptureU ==
    ASSUME NEW b \in Row, NEW e \in Entry, NEW n, EntryOK(e, n), BufferedU(b, e)
    PROVE  LET c == Capture(b, e)
           IN  /\ c \in Row /\ c.total = e.bytes /\ BufferedU(c, e) /\ (c.stamp = 0 => e.bytes = 0)
<1> DEFINE c == Capture(b, e)
<1>1. CASE e.stamp = 0
  <2>1. c = b /\ b = NoRow /\ e.bytes = 0
    BY <1>1 DEF Capture, EntryOK, BufferedU
  <2> QED BY <1>1, <2>1, AbsentFacts DEF BufferedU
<1>2. CASE e.stamp # 0 /\ b = NoRow
  <2>1. c = [total |-> e.bytes, raw |-> e.bytes, stamp |-> e.stamp]
    BY <1>2, AbsentFacts DEF Capture
  <2> QED BY <1>2, <2>1 DEF Row, Entry, BufferedU
<1>3. CASE e.stamp # 0 /\ b # NoRow
  <2>0. b.stamp # 0 /\ b.stamp = e.stamp /\ b.total = b.raw /\ b.raw <= e.bytes
    BY <1>3 DEF BufferedU
  <2>1. c = [total |-> b.total + (e.bytes - b.raw), raw |-> e.bytes, stamp |-> b.stamp]
    BY <1>3, <2>0 DEF Capture, Row, Entry
  <2>2. b.total + (e.bytes - b.raw) = e.bytes
    BY <2>0 DEF Row, Entry
  <2>3. c = [total |-> e.bytes, raw |-> e.bytes, stamp |-> e.stamp]
    <3> HIDE DEF c
    <3> QED BY <2>0, <2>1, <2>2
  <2> QED BY <1>3, <2>3 DEF Row, Entry, BufferedU
<1> QED BY <1>1, <1>2, <1>3

\* A capture of k stays comparable with both maps.
LEMMA CaptureK ==
    ASSUME TypeOK, HistOK, StampInv
    PROVE  Capture(buf["k"], entry["k"]) \in Row /\ BufferedK(Capture(buf["k"], entry["k"]))
<1> DEFINE b == buf["k"]
           e == entry["k"]
           c == Capture(b, e)
<1>0. /\ b \in Row /\ e \in Entry /\ shelf["k"] \in Entry /\ hist.sent["k"] \in Nat
      /\ BufferedK(b) /\ EntryOK(e, hist.sent["k"]) /\ (e.stamp = shelf["k"].stamp => e.stamp = 0)
  BY Typed, HistTyped DEF StampInv, Flows
<1> HIDE DEF b
<1>1. CASE e.stamp = 0
  <2>1. c = b
    BY <1>1 DEF Capture
  <2> HIDE DEF c
  <2> QED BY <1>0, <2>1 DEF c, b
<1>2. CASE e.stamp # 0 /\ b.stamp = 0
  <2>1. c = [total |-> e.bytes, raw |-> e.bytes, stamp |-> e.stamp]
    BY <1>2 DEF Capture
  <2>2. c \in Row /\ c.raw = e.bytes /\ c.stamp = e.stamp
    BY <1>0, <2>1 DEF Row, Entry
  <2> HIDE DEF c
  <2>3. BufferedK(c)
    BY <1>0, <1>2, <2>2 DEF BufferedK, RowOK, Reads, EntryOK, Entry
  <2> QED BY <2>2, <2>3 DEF c, b
<1>3. CASE e.stamp # 0 /\ b.stamp # 0
  <2>1. c = [total |-> b.total + (IF e.bytes >= b.raw THEN e.bytes - b.raw ELSE e.bytes),
             raw |-> e.bytes, stamp |-> b.stamp]
    BY <1>3 DEF Capture
  <2>2. c \in Row /\ c.raw = e.bytes /\ c.stamp = b.stamp
    BY <1>0, <2>1 DEF Row, Entry
  <2> HIDE DEF c
  <2>3. BufferedK(c)
    BY <1>0, <1>3, <2>2 DEF BufferedK, RowOK, Reads, Entry
  <2> QED BY <2>2, <2>3 DEF c, b
<1> QED BY <1>0, <1>1, <1>2, <1>3 DEF b

\* The buffer after every reading.
LEMMA BufAfterFacts ==
    ASSUME TypeOK, HistOK, StampInv
    PROVE  /\ BufAfter \in [Flows -> Row]
           /\ BufferedK(BufAfter["k"]) /\ BufferedU(BufAfter["u"], entry["u"])
           /\ BufAfter["u"].total = entry["u"].bytes
           /\ BufAfter["u"].stamp = 0 => entry["u"].bytes = 0
           /\ ~hist.astray /\ (meta # NoTenant \/ entry["k"].stamp = 0) => BufAfter["k"] = NoRow
<1>0. /\ BufAfter["u"] = Capture(buf["u"], entry["u"])
      /\ BufAfter["k"] = IF meta = NoTenant THEN Capture(buf["k"], entry["k"])
                         ELSE IF entry["k"].stamp # 0 THEN NoRow ELSE buf["k"]
      /\ BufAfter = [f \in Flows |-> BufAfter[f]]
  BY DEF BufAfter, Known, Flows
<1> HIDE DEF BufAfter
<1>1. /\ BufAfter["u"] \in Row /\ BufAfter["u"].total = entry["u"].bytes
      /\ BufferedU(BufAfter["u"], entry["u"]) /\ (BufAfter["u"].stamp = 0 => entry["u"].bytes = 0)
  <2>1. buf["u"] \in Row /\ entry["u"] \in Entry /\ EntryOK(entry["u"], hist.sent["u"]) /\ BufferedU(buf["u"], entry["u"])
    BY Typed DEF StampInv, Flows
  <2> QED BY <1>0, <2>1, CaptureU
<1>2. BufferedK(NoRow) /\ NoRow \in Row /\ BufferedK(buf["k"]) /\ buf["k"] \in Row
  BY AbsentFacts, HistTyped, Typed DEF BufferedK, RowOK, StampInv
<1>3. BufAfter["k"] \in Row /\ BufferedK(BufAfter["k"])
  BY <1>0, <1>2, CaptureK
<1>4. BufAfter \in [Flows -> Row]
  BY <1>0, <1>1, <1>3 DEF Flows
<1>5. ~hist.astray /\ (meta # NoTenant \/ entry["k"].stamp = 0) => BufAfter["k"] = NoRow
  BY <1>0 DEF StampInv, Capture
<1> QED BY <1>1, <1>3, <1>4, <1>5

\* k's row after every reading.
LEMMA RowAfterFacts ==
    ASSUME TypeOK, HistOK, StampInv
    PROVE  /\ RowAfter \in Row /\ RowOK(RowAfter) /\ RowAfter.total >= mem.row.total
           /\ ~hist.astray /\ (meta # NoTenant \/ entry["k"].stamp = 0) =>
                RowAfter.total + Delta(RowAfter, entry["k"]) = mem.row.total + Delta(mem.row, entry["k"])
<1> DEFINE b == buf["k"]
           e == entry["k"]
           m == ResolveRow(mem.row, b)
<1>0. /\ e \in Entry /\ shelf["k"] \in Entry /\ mem.row \in Row /\ RowOK(mem.row) /\ b \in Row /\ RowOK(b)
      /\ EntryOK(e, hist.sent["k"]) /\ (e.stamp = shelf["k"].stamp => e.stamp = 0)
      /\ hist.sent["k"] \in Nat /\ (~hist.astray => b = NoRow)
  BY Typed, HistTyped DEF StampInv, BufferedK, Flows
<1> HIDE DEF b
<1>1. m \in Row /\ RowOK(m) /\ m.total >= mem.row.total /\ (b = NoRow => m = mem.row)
  <2>1. CASE b.stamp = 0
    <3>1. m = mem.row /\ mem.row.total \in Nat
      BY <1>0, <2>1 DEF ResolveRow, Row
    <3> QED BY <1>0, <3>1
  <2>2. CASE b.stamp # 0
    <3>1. m = [total |-> mem.row.total + b.total, raw |-> b.raw, stamp |-> b.stamp]
      BY <2>2 DEF ResolveRow
    <3>2. m \in Row /\ m.raw = b.raw /\ m.stamp = b.stamp /\ m.total >= mem.row.total
      BY <1>0, <3>1 DEF Row
    <3> HIDE DEF m
    <3> QED BY <1>0, <2>2, <3>2, AbsentFacts DEF RowOK, Reads
  <2> QED BY <2>1, <2>2
<1> HIDE DEF m
<1>2. CASE ~(meta # NoTenant /\ e.stamp # 0)
  <2>1. RowAfter = mem.row
    BY <1>2 DEF RowAfter, Known
  <2>2. mem.row.total \in Nat
    BY <1>0 DEF Row
  <2> QED BY <1>0, <2>1, <2>2
<1>3. CASE meta # NoTenant /\ e.stamp # 0
  <2>1. RowAfter = ApplyDelta(m, e)
    BY <1>3 DEF RowAfter, Known, m, b
  <2>2. /\ RowAfter \in Row /\ RowAfter.total = m.total + Delta(m, e) /\ Delta(RowAfter, e) = 0
        /\ Reads(RowAfter, e) /\ RowAfter.stamp = e.stamp /\ Delta(m, e) \in Nat
    BY <1>0, <1>1, <1>3, <2>1, ApplyFacts, DeltaNat DEF RowOK
  <2> HIDE DEF RowAfter
  <2>3. RowOK(RowAfter)
    BY <1>0, <1>3, <2>2 DEF RowOK, Reads, EntryOK
  <2>4. RowAfter.total >= mem.row.total
    BY <1>0, <1>1, <2>2 DEF Row
  <2>5. ~hist.astray => RowAfter.total + 0 = mem.row.total + Delta(mem.row, e)
    <3>1. ~hist.astray => m = mem.row
      BY <1>0, <1>1
    <3>2. RowAfter.total \in Nat
      BY <2>2 DEF Row
    <3> QED BY <2>2, <3>1, <3>2
  <2> QED BY <2>2, <2>3, <2>4, <2>5
<1> QED BY <1>2, <1>3

\* What the places miss and what the map owes them, once entries are gone.
LEMMA GoneLedger ==
    ASSUME TypeOK, HistOK, StampInv, phase = 4, NEW D, NEW r \in Row, Reads(r, entry["k"]),
           entry' = [f \in Flows |-> IF f \in D THEN Absent ELSE entry[f]],
           hist'.miss = Missing(D, r)
    PROVE  /\ hist'.miss["disk"]["k"] + Delta(disk.state.row, entry'["k"])
                = hist.miss["disk"]["k"] + Delta(disk.state.row, entry["k"])
           /\ hist'.miss["mem"]["k"] + Delta(r, entry'["k"]) = hist.miss["mem"]["k"] + Delta(r, entry["k"])
           /\ copy # NoSnapshot => hist'.miss["copy"]["k"] + Delta(copy.state.row, entry'["k"])
                = hist.miss["copy"]["k"] + Delta(copy.state.row, entry["k"])
           /\ hist'.miss["disk"]["u"] + entry'["u"].bytes = hist.miss["disk"]["u"] + entry["u"].bytes
           /\ hist'.miss["mem"]["u"] = hist.miss["mem"]["u"]
           /\ copy # NoSnapshot => hist'.miss["copy"]["u"] + entry'["u"].bytes
                = hist.miss["copy"]["u"] + entry["u"].bytes
           /\ \A p \in Places : hist'.miss[p]["k"] \in Nat /\ hist'.miss[p]["u"] \in Nat
           /\ Delta(disk.state.row, entry'["k"]) \in Nat /\ Delta(r, entry'["k"]) \in Nat
           /\ Delta(copy.state.row, entry'["k"]) \in Nat /\ entry'["u"].bytes \in Nat
<1>1. /\ Delta(disk.state.row, entry["k"]) \in Nat /\ Delta(copy.state.row, entry["k"]) \in Nat
      /\ Delta(r, entry["k"]) \in Nat /\ entry["u"].bytes \in Nat
  BY Typed, DeltaNat DEF StampInv, RowOK
<1>2. /\ entry'["k"] = (IF "k" \in D THEN Absent ELSE entry["k"])
      /\ entry'["u"] = (IF "u" \in D THEN Absent ELSE entry["u"])
  BY DEF Flows
<1>3. \A p \in Places : /\ hist'.miss[p]["k"] = hist.miss[p]["k"] + (IF "k" \in D THEN Unread(p, "k", r) ELSE 0)
                        /\ hist'.miss[p]["u"] = hist.miss[p]["u"] + (IF "u" \in D THEN Unread(p, "u", r) ELSE 0)
                        /\ hist'.miss[p]["k"] \in Nat /\ hist'.miss[p]["u"] \in Nat
  <2>1. "k" \in Flows /\ "u" \in Flows
    BY DEF Flows
  <2> QED BY <2>1, MissingFacts
<1>4. \A x : Delta(x, Absent) = 0 /\ Absent.bytes = 0
  BY AbsentFacts
<1>5. \A p \in Places : hist.miss[p]["k"] \in Nat /\ hist.miss[p]["u"] \in Nat
  BY HistTyped
<1>6. "mem" \in Places /\ "copy" \in Places /\ "disk" \in Places
  BY DEF Places
<1> QED BY <1>1, <1>2, <1>3, <1>4, <1>5, <1>6, UnreadIs

\* What a tick makes of the state: k's row, and what is folded of the buffer.
Ticked(s, rw, g) == [s EXCEPT !.row = rw, !.unknown = [f \in Flows |-> s.unknown[f] + g[f]]]

LEMMA TickedState ==
    ASSUME NEW s \in State, NEW rw \in Row, NEW g \in [Flows -> Nat]
    PROVE  LET m == Ticked(s, rw, g)
           IN  /\ m \in State /\ m.row = rw /\ m.settled = s.settled
               /\ m.unknown["u"] = s.unknown["u"] + g["u"]
               /\ Counted(m) + s.row.total = Counted(s) + rw.total
               /\ \A f \in [Tenants -> Nat] : \A who :
                    rw.total >= s.row.total /\ Reaches(s, who, f) => Reaches(m, who, f)
<1> DEFINE m == Ticked(s, rw, g)
           u == [f \in Flows |-> s.unknown[f] + g[f]]
<1>1. u \in [Flows -> Nat] /\ u["u"] = s.unknown["u"] + g["u"]
  BY DEF State, Flows
<1>2. m = [s EXCEPT !.row = rw, !.unknown = u]
  BY DEF Ticked
<1> HIDE DEF u, m
<1>3. m \in State /\ m.row = rw /\ m.settled = s.settled /\ m.unknown = u
  BY <1>1, <1>2 DEF State
<1>4. s.row.total \in Nat /\ rw.total \in Nat /\ s.settled \in [Tenants -> Nat]
  BY DEF State, Row
<1>5. Counted(m) + s.row.total = Counted(s) + rw.total
  <2>1. /\ Counted(m) = m.row.total + Total(m.settled, Tenants)
        /\ Counted(s) = s.row.total + Total(s.settled, Tenants)
        /\ Total(s.settled, Tenants) \in Nat
    BY CountedIs, CountedNat
  <2> QED BY <1>3, <1>4, <2>1
<1>6. ASSUME NEW f \in [Tenants -> Nat], NEW who, rw.total >= s.row.total, Reaches(s, who, f)
      PROVE  Reaches(m, who, f)
  BY <1>3, <1>4, <1>6 DEF Reaches, Series
<1> QED BY <1>1, <1>3, <1>5, <1>6 DEF m

LEMMA TickStep ==
    ASSUME IInv, NEW fold \in SUBSET Flows, NEW relieve \in BOOLEAN, Tick(fold, relieve)
    PROVE  IInv'
<1> USE DEF IInv
<1> DEFINE gone == Reset(fold) \cup (IF relieve THEN {"k"} ELSE {})
           g == [f \in Flows |-> IF f \in fold THEN BufAfter[f].total ELSE 0]
<1>a. /\ UNCHANGED <<pc, phase, delay, row, sweep, pins, shelf, hook, ready, owner, meta, ghost, copy, disk>>
      /\ work["scraper"] \in {"up", "cancelled"}
      /\ work' = [work EXCEPT !["scraper"] = IF @ = "up" THEN @ ELSE "final"]
      /\ mem' = [mem EXCEPT !.row = RowAfter, !.unknown = [f \in Flows |-> @[f] + g[f]]]
      /\ buf' = [f \in Flows |-> IF f \in fold THEN NoRow ELSE BufAfter[f]]
      /\ entry' = [f \in Flows |-> IF f \in gone THEN Absent ELSE entry[f]]
  BY DEF Tick, bindVars, Active
<1>0. phase = 4 /\ pc \in {"run", "drain"}
  BY <1>a, Working, WorkDomain
<1>u. ("u" \in gone) = ("u" \in fold) /\ fold \subseteq Flows
  BY DEF Reset
<1>b. /\ BufAfter \in [Flows -> Row]
      /\ BufferedK(BufAfter["k"]) /\ BufferedU(BufAfter["u"], entry["u"])
      /\ BufAfter["u"].total = entry["u"].bytes /\ entry["u"].bytes \in Nat
      /\ ~hist.astray /\ (meta # NoTenant \/ entry["k"].stamp = 0) => BufAfter["k"] = NoRow
  BY BufAfterFacts, Typed
<1>r. /\ RowAfter \in Row /\ RowOK(RowAfter) /\ RowAfter.total >= mem.row.total
      /\ Reads(RowAfter, entry["k"])
      /\ ~hist.astray /\ (meta # NoTenant \/ entry["k"].stamp = 0) =>
           RowAfter.total + Delta(RowAfter, entry["k"]) = mem.row.total + Delta(mem.row, entry["k"])
  BY RowAfterFacts DEF RowOK
<1>g. g \in [Flows -> Nat] /\ g["u"] = (IF "u" \in fold THEN entry["u"].bytes ELSE 0)
  BY <1>b DEF Row, Flows
<1>h. /\ HistOK' /\ hist'.reused = hist.reused /\ hist'.sent = hist.sent /\ hist'.twice = hist.twice
      /\ hist'.miss = Missing(gone, RowAfter) /\ SameSeries /\ hist'.clean = hist.clean
      /\ ~hist'.astray => ~hist.astray /\ (meta # NoTenant \/ entry["k"].stamp = 0)
  <2> DEFINE l == Missing(gone, RowAfter)
             x == hist.astray \/ (~Known("k") /\ entry["k"].stamp # 0)
  <2>1. hist' = [hist EXCEPT !.miss = l, !.astray = x]
    BY DEF Tick
  <2>2. x \in BOOLEAN /\ (~x => ~hist.astray /\ (meta # NoTenant \/ entry["k"].stamp = 0))
    BY DEF HistOK, History, Known
  <2>3. l \in [Places -> [Flows -> Nat]]
    BY <1>r, MissingFacts
  <2> HIDE DEF l, x
  <2>4. HistOK'
    BY <2>1, <2>2, <2>3 DEF HistOK, History
  <2>5. /\ hist'.reused = hist.reused /\ hist'.sent = hist.sent /\ hist'.twice = hist.twice
        /\ hist'.miss = l /\ SameSeries /\ hist'.clean = hist.clean /\ hist'.astray = x
    BY <2>1 DEF HistOK, History, SameSeries
  <2> QED BY <2>2, <2>4, <2>5 DEF l
<1>m. /\ mem' \in State /\ mem'.row = RowAfter
      /\ mem'.unknown["u"] = mem.unknown["u"] + g["u"]
      /\ Counted(mem') + mem.row.total = Counted(mem) + RowAfter.total
      /\ \A f \in [Tenants -> Nat] : Reaches(mem, meta, f) => Reaches(mem', meta, f)
  <2> HIDE DEF g
  <2>1. mem \in State
    BY Typed
  <2>2. mem' = Ticked(mem, RowAfter, g)
    BY <1>a, <2>1 DEF Ticked, State
  <2> QED BY <1>g, <1>r, <2>1, <2>2, TickedState
<1> HIDE DEF g, gone
<1>e. /\ entry' \in Map
      /\ entry'["k"] = (IF "k" \in gone THEN Absent ELSE entry["k"])
      /\ entry'["u"] = (IF "u" \in gone THEN Absent ELSE entry["u"])
      /\ \A f \in Flows : EntryOK(entry'[f], hist.sent[f]) /\ EntryOK(shelf[f], hist.sent[f])
      /\ entry'["k"].stamp = shelf["k"].stamp => entry'["k"].stamp = 0
      /\ \A x : Reads(x, entry["k"]) => Reads(x, entry'["k"])
  BY <1>a, GoneStamp
<1>f. /\ buf' \in [Flows -> Row]
      /\ buf'["k"] = (IF "k" \in fold THEN NoRow ELSE BufAfter["k"])
      /\ buf'["u"] = (IF "u" \in fold THEN NoRow ELSE BufAfter["u"])
  BY <1>a, <1>b, AbsentFacts DEF Flows
<1>w. /\ work' \in [{Workers[i] : i \in DOMAIN Workers} -> {"off", "up", "cancelled", "final", "done"}]
      /\ work'["scraper"] \in {"up", "final"} /\ (work["scraper"] = "up" => work' = work)
      /\ DOMAIN work' = DOMAIN work /\ \A w \in DOMAIN work \ {"scraper"} : work'[w] = work[w]
  <2>1. "scraper" \in DOMAIN work
    BY WorkDomain
  <2>2. /\ work' \in [{Workers[i] : i \in DOMAIN Workers} -> {"off", "up", "cancelled", "final", "done"}]
        /\ work'["scraper"] = (IF work["scraper"] = "up" THEN "up" ELSE "final")
        /\ DOMAIN work' = DOMAIN work /\ \A w \in DOMAIN work \ {"scraper"} : work'[w] = work[w]
    BY <1>a, <2>1 DEF TypeOK
  <2>3. work["scraper"] = "up" => work' = work
    BY <1>a, <2>1 DEF TypeOK
  <2> QED BY <2>2, <2>3
<1>2. TypeOK'
  <2>1. UNCHANGED <<pc, phase, delay, row, sweep, pins, shelf, hook, ready, owner, meta, ghost, copy, disk>>
    BY <1>a
  <2>2. mem' \in State /\ entry' \in Map /\ buf' \in [Flows -> Row]
    BY <1>e, <1>f, <1>m
  <2>3. TypeOK
    OBVIOUS
  <2> QED BY <1>w, <2>1, <2>2, <2>3 DEF TypeOK
<1>3. ControlInv'
  BY <1>0, <1>a, <1>w, WorkDomain DEF ControlInv
<1>4. StampInv'
  <2>1. RowOK(NoRow) /\ BufferedK(NoRow) /\ \A x : BufferedU(NoRow, x)
    BY AbsentFacts, HistTyped DEF RowOK, BufferedK, BufferedU
  <2>2. BufferedK(buf'["k"]) /\ RowOK(mem'.row) /\ RowOK(disk.state.row) /\ RowOK(copy.state.row)
    BY <1>b, <1>f, <1>m, <1>r, <2>1 DEF StampInv
  <2>3. BufferedU(buf'["u"], entry'["u"])
    BY <1>b, <1>e, <1>f, <1>u, <2>1
  <2>4. ~hist'.astray => buf'["k"] = NoRow
    BY <1>b, <1>f, <1>h
  <2> QED BY <1>a, <1>e, <1>h, <2>2, <2>3, <2>4 DEF StampInv, RowOK, BufferedK
<1>5. KnownInv' /\ UnknownInv'
  <2>1. /\ Counted(disk.state) \in Nat /\ Counted(mem) \in Nat /\ Counted(copy.state) \in Nat
        /\ Counted(mem') \in Nat /\ mem.row.total \in Nat /\ RowAfter.total \in Nat
        /\ Delta(disk.state.row, entry["k"]) \in Nat /\ Delta(mem.row, entry["k"]) \in Nat
        /\ Delta(copy.state.row, entry["k"]) \in Nat /\ Delta(RowAfter, entry["k"]) \in Nat
    BY <1>m, <1>r, CountedNat, Typed, DeltaNat DEF StampInv, RowOK, Row
  <2>2. /\ hist'.miss["disk"]["k"] + Delta(disk.state.row, entry'["k"])
              = hist.miss["disk"]["k"] + Delta(disk.state.row, entry["k"])
        /\ hist'.miss["mem"]["k"] + Delta(RowAfter, entry'["k"])
              = hist.miss["mem"]["k"] + Delta(RowAfter, entry["k"])
        /\ copy # NoSnapshot => hist'.miss["copy"]["k"] + Delta(copy.state.row, entry'["k"])
              = hist.miss["copy"]["k"] + Delta(copy.state.row, entry["k"])
        /\ hist'.miss["disk"]["u"] + entry'["u"].bytes = hist.miss["disk"]["u"] + entry["u"].bytes
        /\ hist'.miss["mem"]["u"] = hist.miss["mem"]["u"]
        /\ copy # NoSnapshot => hist'.miss["copy"]["u"] + entry'["u"].bytes
              = hist.miss["copy"]["u"] + entry["u"].bytes
        /\ \A p \in Places : hist'.miss[p]["k"] \in Nat /\ hist'.miss[p]["u"] \in Nat
        /\ Delta(disk.state.row, entry'["k"]) \in Nat /\ Delta(RowAfter, entry'["k"]) \in Nat
        /\ Delta(copy.state.row, entry'["k"]) \in Nat /\ entry'["u"].bytes \in Nat
    BY <1>0, <1>a, <1>h, <1>r, GoneLedger
  <2>3. /\ "mem" \in Places /\ "copy" \in Places /\ "disk" \in Places
        /\ \A p \in Places : hist.miss[p]["k"] \in Nat /\ hist.miss[p]["u"] \in Nat /\ hist.twice[p] \in Nat
        /\ hist.sent["k"] \in Nat /\ hist.sent["u"] \in Nat
    BY HistTyped
  <2>4. KnownInv'
    <3> SUFFICES ASSUME ~hist'.reused, ~hist'.astray PROVE KnownInv'
      BY DEF KnownInv
    <3>1. /\ KnownBalanced(disk.state, "disk") /\ KnownBalanced(mem, "mem")
          /\ copy # NoSnapshot => KnownBalanced(copy.state, "copy")
      BY <1>0, <1>h DEF KnownInv, Restored
    <3>2. RowAfter.total + Delta(RowAfter, entry["k"]) = mem.row.total + Delta(mem.row, entry["k"])
      BY <1>h, <1>r
    <3>3. KnownBalanced(disk.state, "disk")'
      BY <1>a, <1>h, <2>1, <2>2, <2>3, <3>1 DEF KnownBalanced
    <3>4. KnownBalanced(mem, "mem")'
      <4>1. Counted(mem) + Delta(mem.row, entry["k"]) + hist.miss["mem"]["k"] = hist.sent["k"]
        BY <3>1 DEF KnownBalanced
      <4>2. Counted(mem') + Delta(RowAfter, entry["k"]) = Counted(mem) + Delta(mem.row, entry["k"])
        BY <1>m, <2>1, <3>2
      <4>3. Counted(mem') + Delta(RowAfter, entry'["k"]) + hist'.miss["mem"]["k"]
              = Counted(mem') + Delta(RowAfter, entry["k"]) + hist.miss["mem"]["k"]
        BY <2>1, <2>2, <2>3
      <4>4. Counted(mem') + Delta(mem'.row, entry'["k"]) + hist'.miss["mem"]["k"] = hist.sent["k"]
        BY <1>m, <2>1, <2>3, <4>1, <4>2, <4>3
      <4> QED BY <1>h, <4>4 DEF KnownBalanced
    <3>5. copy # NoSnapshot => KnownBalanced(copy.state, "copy")'
      BY <1>a, <1>h, <2>1, <2>2, <2>3, <3>1 DEF KnownBalanced
    <3> QED BY <1>a, <3>3, <3>4, <3>5 DEF KnownInv
  <2>5. UnknownInv'
    <3> SUFFICES ASSUME ~hist'.reused PROVE UnknownInv'
      BY DEF UnknownInv
    <3>1. /\ UnknownBalanced(disk.state, "disk") /\ UnknownBalanced(mem, "mem")
          /\ copy # NoSnapshot => UnknownBalanced(copy.state, "copy")
      BY <1>0, <1>h DEF UnknownInv, Restored
    <3>2. g["u"] + entry'["u"].bytes = entry["u"].bytes /\ g["u"] \in Nat
      BY <1>b, <1>e, <1>g, <1>u, AbsentFacts
    <3>0. /\ mem.unknown["u"] \in Nat /\ disk.state.unknown["u"] \in Nat /\ copy.state.unknown["u"] \in Nat
          /\ entry["u"].bytes \in Nat
      BY Typed
    <3>3. UnknownBalanced(disk.state, "disk")'
      <4>1. disk.state.unknown["u"] + entry["u"].bytes + hist.miss["disk"]["u"]
              = hist.sent["u"] + hist.twice["disk"]
        BY <3>1 DEF UnknownBalanced
      <4>2. disk.state.unknown["u"] + entry'["u"].bytes + hist'.miss["disk"]["u"]
              = hist.sent["u"] + hist.twice["disk"]
        BY <2>2, <2>3, <3>0, <4>1
      <4> QED BY <1>a, <1>h, <4>2 DEF UnknownBalanced
    <3>4. UnknownBalanced(mem, "mem")'
      BY <1>h, <1>m, <2>2, <2>3, <3>0, <3>1, <3>2 DEF UnknownBalanced
    <3>5. copy # NoSnapshot => UnknownBalanced(copy.state, "copy")'
      BY <1>a, <1>h, <2>2, <2>3, <3>0, <3>1 DEF UnknownBalanced
    <3> QED BY <1>a, <3>3, <3>4, <3>5 DEF UnknownInv
  <2> QED BY <2>4, <2>5
<1>6. SeriesInv'
  BY <1>0, <1>a, <1>h, <1>m, HistTyped DEF SeriesInv, Restored, SameSeries
<1>7. DrainInv'
  <2>1. pc = "drain" /\ hist.clean => work["wal"] \notin {"cancelled", "final", "done"} /\ row < 5
    BY <1>a DEF DrainInv
  <2>2. pc = "run" => work' = work
    BY <1>a, <1>w, WorkDomain DEF DrainInv
  <2> QED BY <1>a, <1>h, <1>w, <2>1, <2>2, WorkDomain DEF DrainInv
<1> QED BY <1>h, <1>2, <1>3, <1>4, <1>5, <1>6, <1>7


-----------------------------------------------------------------------------
(* The shutdown.                                                           *)

\* A step of the drain that leaves the accounts alone.
LEMMA DrainStep ==
    ASSUME IInv, phase = 4, pc' \in {"run", "drain"}, row' \in 0..Len(Workers),
           UNCHANGED <<phase, delay, sweep, pins, entry, shelf, hook, ready, owner, meta, ghost, mem, buf, copy, disk>>,
           work' \in [DOMAIN work -> {"off", "up", "cancelled", "final", "done"}],
           copy # NoSnapshot => work'["wal"] \in {"up", "cancelled", "final"},
           sweep # "idle" => work'["ghost"] \in {"up", "cancelled"},
           HistOK', SameLedger, SameSeries, DrainInv', ready
    PROVE  IInv'
<1> USE DEF IInv
<1>2. TypeOK'
  BY DEF TypeOK
<1>3. ControlInv'
  BY DEF ControlInv
<1>4. StampInv'
  BY KeepStamp DEF SameLedger
<1>5. KnownInv' /\ UnknownInv' /\ SeriesInv'
  BY KeepLedger, KeepSeries DEF Restored
<1> QED BY <1>2, <1>3, <1>4, <1>5

LEMMA Serving ==
    ASSUME IInv, pc \in {"run", "drain"} PROVE phase = 4 /\ ready
  BY DEF IInv, ControlInv

LEMMA CancelFacts ==
    ASSUME TypeOK, NEW i \in 1..5, Cancel(i)
    PROVE  /\ row' = i /\ work' \in [DOMAIN work -> {"off", "up", "cancelled", "final", "done"}]
           /\ \A w \in DOMAIN work : w # Workers[i] => work'[w] = work[w]
           /\ work'[Workers[i]] = "cancelled"
<1>1. Workers[i] \in DOMAIN work
  BY WorkersAre, WorkDomain
<1> QED BY <1>1, WorkDomain DEF Cancel, TypeOK

LEMMA ServerStopsStep == ASSUME IInv, ServerStops PROVE IInv'
<1> USE DEF IInv
<1>0. /\ pc = "run" /\ pc' = "drain" /\ Cancel(1) /\ phase = 4 /\ ready
      /\ UNCHANGED <<phase, delay, sweep, pins, entry, shelf, hook, ready, owner, meta, ghost, mem, buf, copy, disk, hist>>
  BY Serving DEF ServerStops, kernelVars, dataVars, bindVars
<1>1. /\ row' = 1 /\ work' \in [DOMAIN work -> {"off", "up", "cancelled", "final", "done"}]
      /\ \A w \in DOMAIN work : w # "netlink" => work'[w] = work[w]
  BY <1>0, CancelFacts, WorkersAre
<1>2. \A w \in DOMAIN work : work[w] = "up"
  BY <1>0 DEF DrainInv
<1>3. work'["scraper"] = "up" /\ work'["wal"] = "up" /\ work'["ghost"] = "up"
  BY <1>1, <1>2, WorkDomain
<1>4. DrainInv'
  BY <1>0, <1>1, <1>3 DEF DrainInv
<1>5. HistOK' /\ SameLedger /\ SameSeries /\ row' \in 0..Len(Workers)
  BY <1>0, <1>1, WorkersAre DEF HistOK, SameLedger, SameSeries
<1> QED BY <1>0, <1>1, <1>3, <1>4, <1>5, DrainStep

\* Behind the next worker of a drain nobody works, if it is clean.
LEMMA CancelDrain ==
    ASSUME IInv, pc = "drain", pc' = "drain", NEW i \in 1..4, row = i, Cancel(i + 1),
           UNCHANGED <<copy, mem, disk, meta, buf>>,
           hist'.clean => hist.clean /\ work[Workers[i]] = "done"
    PROVE  /\ DrainInv' /\ work' \in [DOMAIN work -> {"off", "up", "cancelled", "final", "done"}]
           /\ row' \in 0..Len(Workers)
           /\ copy # NoSnapshot => work'["wal"] \in {"up", "cancelled", "final"}
           /\ sweep # "idle" => work'["ghost"] \in {"up", "cancelled"}
<1> USE DEF IInv
<1>1. i + 1 \in 1..5
  OBVIOUS
<1>2. /\ row' = i + 1 /\ work' \in [DOMAIN work -> {"off", "up", "cancelled", "final", "done"}]
      /\ \A w \in DOMAIN work : w # Workers[i + 1] => work'[w] = work[w]
      /\ work'[Workers[i + 1]] = "cancelled"
  BY <1>1, CancelFacts
<1>3. work["wal"] \notin {"cancelled", "final", "done"}
  BY DEF DrainInv
<1>4. /\ copy # NoSnapshot => work'["wal"] \in {"up", "cancelled", "final"}
      /\ sweep # "idle" => work'["ghost"] \in {"up", "cancelled"}
  <2>1. /\ copy # NoSnapshot => work["wal"] \in {"up", "cancelled", "final"}
        /\ sweep # "idle" => work["ghost"] \in {"up", "cancelled"}
    BY DEF ControlInv
  <2>2. /\ work'["wal"] = work["wal"] \/ work'["wal"] = "cancelled"
        /\ work'["ghost"] = work["ghost"] \/ work'["ghost"] = "cancelled"
    BY <1>2, WorkDomain
  <2> QED BY <2>1, <2>2
<1>5. DrainInv'
  <2>0. work["scraper"] = "done" => buf = NoBuf
    BY DEF DrainInv
  <2>1. CASE i = 1
    <3>1. /\ work'["wal"] = work["wal"] /\ work'["scraper"] = work["scraper"]
          /\ row' = 2
      BY <1>2, <2>1, WorkersAre, WorkDomain
    <3> QED BY <1>3, <2>0, <3>1 DEF DrainInv
  <2>2. CASE i = 2
    <3>1. /\ work'["wal"] = work["wal"] /\ work'["scraper"] = work["scraper"]
          /\ work'["ghost"] = work["ghost"] /\ row' = 3 /\ Workers[i] = "ghost"
      BY <1>2, <2>2, WorkersAre, WorkDomain
    <3> QED BY <1>3, <2>0, <3>1 DEF DrainInv
  <2>3. CASE i = 3
    <3>1. /\ work'["wal"] = work["wal"] /\ work'["scraper"] = "cancelled"
          /\ work'["ghost"] = work["ghost"] /\ work'["reconciler"] = work["reconciler"]
          /\ row' = 4 /\ Workers[i] = "reconciler"
      BY <1>2, <2>3, WorkersAre, WorkDomain
    <3> QED BY <1>3, <2>3, <3>1 DEF DrainInv
  <2>4. CASE i = 4
    <3>1. /\ work'["wal"] = "cancelled" /\ work'["scraper"] = work["scraper"]
          /\ work'["ghost"] = work["ghost"] /\ work'["reconciler"] = work["reconciler"]
          /\ row' = 5 /\ Workers[i] = "scraper"
      BY <1>2, <2>4, WorkersAre, WorkDomain
    <3> QED BY <2>0, <2>4, <3>1 DEF DrainInv
  <2> QED BY <2>1, <2>2, <2>3, <2>4
<1> QED BY <1>1, <1>2, <1>4, <1>5, WorkersAre

LEMMA AwaitStep == ASSUME IInv, AwaitDone \/ AwaitExpires PROVE IInv'
<1> USE DEF IInv
<1>0. pc = "drain" /\ row \in 1..5 /\ phase = 4 /\ ready /\ NextWorker
  BY Serving DEF AwaitDone, AwaitExpires, DrainInv
<1>1. CASE row = 5
  <2>1. Ends
    BY <1>0, <1>1, WorkersAre DEF NextWorker
  <2> QED BY <2>1, EndsStep
<1>2. CASE row \in 1..4
  <2>0. row # Len(Workers) /\ row < Len(Workers)
    BY <1>2, WorkersAre
  <2>1. /\ Cancel(row + 1)
        /\ UNCHANGED <<pc, phase, delay, sweep, pins, entry, shelf, hook, ready, owner, meta, ghost, mem, buf, copy, disk>>
    BY <1>0, <2>0 DEF NextWorker, kernelVars, dataVars, bindVars
  <2>2. \/ work[Workers[row]] = "done" /\ hist' = hist
        \/ hist' = [hist EXCEPT !.late = @ + 1, !.clean = FALSE]
    BY <2>0 DEF AwaitDone, AwaitExpires
  <2>3. HistOK' /\ SameLedger /\ SameSeries /\ (hist'.clean => hist.clean /\ work[Workers[row]] = "done")
    <3>1. CASE work[Workers[row]] = "done" /\ hist' = hist
      BY <3>1 DEF HistOK, SameLedger, SameSeries
    <3>2. CASE hist' = [hist EXCEPT !.late = @ + 1, !.clean = FALSE]
      <4> DEFINE n == hist.late + 1
      <4>1. n \in Nat /\ hist' = [hist EXCEPT !.late = n, !.clean = FALSE]
        BY <3>2 DEF HistOK, History
      <4> HIDE DEF n
      <4>2. HistOK'
        BY <4>1 DEF HistOK, History
      <4>3. SameLedger /\ SameSeries /\ hist'.clean = FALSE
        BY <4>1 DEF HistOK, History, SameLedger, SameSeries
      <4> QED BY <4>2, <4>3
    <3> QED BY <2>2, <3>1, <3>2
  <2>4. pc' = "drain"
    BY <1>0, <2>1
  <2>5. /\ DrainInv' /\ work' \in [DOMAIN work -> {"off", "up", "cancelled", "final", "done"}]
        /\ row' \in 0..Len(Workers)
        /\ copy # NoSnapshot => work'["wal"] \in {"up", "cancelled", "final"}
        /\ sweep # "idle" => work'["ghost"] \in {"up", "cancelled"}
    BY <1>0, <1>2, <2>1, <2>3, <2>4, CancelDrain
  <2> QED BY <1>0, <2>1, <2>3, <2>4, <2>5, DrainStep
<1> QED BY <1>0, <1>1, <1>2

LEMMA WorkerStopsStep == ASSUME IInv, NEW w \in DOMAIN work, WorkerStops(w) PROVE IInv'
<1> USE DEF IInv
<1>0. /\ w \in {"netlink", "ghost", "reconciler"} /\ work' = [work EXCEPT ![w] = "done"] /\ work[w] = "cancelled"
      /\ w = "ghost" => sweep = "idle"
      /\ UNCHANGED <<pc, phase, delay, row, sweep, pins, entry, shelf, hook, ready, owner, meta, ghost, mem, buf, copy, disk, hist>>
  BY DEF WorkerStops, kernelVars, dataVars, bindVars
<1>1. phase = 4 /\ pc \in {"run", "drain"} /\ ready
  BY <1>0, Working
<1>2. /\ work' \in [DOMAIN work -> {"off", "up", "cancelled", "final", "done"}]
      /\ work'["scraper"] = work["scraper"] /\ work'["wal"] = work["wal"]
      /\ (work["reconciler"] = "done" => work'["reconciler"] = "done")
      /\ (work["ghost"] = "done" => work'["ghost"] = "done")
      /\ (w # "ghost" => work'["ghost"] = work["ghost"])
  BY <1>0, WorkDomain DEF TypeOK
<1>3. pc = "drain"
  BY <1>0, <1>1 DEF DrainInv
<1>4. DrainInv'
  BY <1>0, <1>2, <1>3 DEF DrainInv
<1>5. HistOK' /\ SameLedger /\ SameSeries /\ row' \in 0..Len(Workers)
  BY <1>0 DEF HistOK, TypeOK, SameLedger, SameSeries
<1>6. /\ copy # NoSnapshot => work'["wal"] \in {"up", "cancelled", "final"}
      /\ sweep # "idle" => work'["ghost"] \in {"up", "cancelled"}
  BY <1>0, <1>2 DEF ControlInv
<1> QED BY <1>0, <1>1, <1>2, <1>4, <1>5, <1>6, DrainStep

LEMMA LastTickFailsStep == ASSUME IInv, LastTickFails PROVE IInv'
<1> USE DEF IInv
<1>0. /\ work' = [work EXCEPT !["scraper"] = "final"] /\ work["scraper"] = "cancelled"
      /\ UNCHANGED <<pc, phase, delay, row, sweep, pins, entry, shelf, hook, ready, owner, meta, ghost, mem, buf, copy, disk, hist>>
  BY DEF LastTickFails, kernelVars, dataVars, bindVars
<1>1. phase = 4 /\ pc \in {"run", "drain"} /\ ready
  BY <1>0, Working, WorkDomain
<1>2. /\ work' \in [DOMAIN work -> {"off", "up", "cancelled", "final", "done"}]
      /\ work'["scraper"] = "final" /\ work'["wal"] = work["wal"]
      /\ work'["reconciler"] = work["reconciler"] /\ work'["ghost"] = work["ghost"]
  BY <1>0, WorkDomain DEF TypeOK
<1>3. pc = "drain"
  BY <1>0, <1>1, WorkDomain DEF DrainInv
<1>4. DrainInv'
  BY <1>0, <1>2, <1>3 DEF DrainInv
<1>5. HistOK' /\ SameLedger /\ SameSeries /\ row' \in 0..Len(Workers)
  BY <1>0 DEF HistOK, TypeOK, SameLedger, SameSeries
<1>6. /\ copy # NoSnapshot => work'["wal"] \in {"up", "cancelled", "final"}
      /\ sweep # "idle" => work'["ghost"] \in {"up", "cancelled"}
  BY <1>2 DEF ControlInv
<1> QED BY <1>0, <1>1, <1>2, <1>4, <1>5, <1>6, DrainStep

LEMMA ScraperStopsStep == ASSUME IInv, ScraperStops PROVE IInv'
<1> USE DEF IInv
<1> DEFINE g == [f \in Flows |-> buf[f].total]
           x == [hist.twice EXCEPT !["mem"] = @ + buf["u"].total]
<1>a. /\ UNCHANGED <<pc, phase, delay, row, sweep, pins, entry, shelf, hook, ready, owner, meta, ghost, copy, disk>>
      /\ work' = [work EXCEPT !["scraper"] = "done"] /\ work["scraper"] = "final"
      /\ mem' = [mem EXCEPT !.unknown = [f \in Flows |-> @[f] + buf[f].total]]
      /\ buf' = NoBuf
  BY DEF ScraperStops, kernelVars, bindVars
<1>0. phase = 4 /\ pc \in {"run", "drain"}
  BY <1>a, Working, WorkDomain
<1>b. g \in [Flows -> Nat] /\ g["u"] = buf["u"].total /\ buf["u"].total \in Nat
  BY Typed DEF Row, Flows
<1>h. /\ HistOK' /\ hist'.reused = hist.reused /\ hist'.sent = hist.sent /\ hist'.miss = hist.miss
      /\ hist'.twice = x /\ SameSeries /\ hist'.clean = hist.clean /\ hist'.astray = hist.astray
      /\ x["mem"] = hist.twice["mem"] + buf["u"].total /\ x["copy"] = hist.twice["copy"]
      /\ x["disk"] = hist.twice["disk"]
  <2>1. hist' = [hist EXCEPT !.twice = x]
    BY DEF ScraperStops, HistOK, History
  <2>2. /\ x \in [Places -> Nat] /\ x["mem"] = hist.twice["mem"] + buf["u"].total
        /\ x["copy"] = hist.twice["copy"] /\ x["disk"] = hist.twice["disk"]
    BY <1>b, HistTyped DEF Places
  <2> HIDE DEF x
  <2>3. HistOK'
    BY <2>1, <2>2 DEF HistOK, History
  <2> QED BY <2>1, <2>2, <2>3 DEF HistOK, History, SameSeries
<1>m. /\ mem' \in State /\ mem'.row = mem.row /\ mem'.settled = mem.settled
      /\ mem'.unknown["u"] = mem.unknown["u"] + g["u"] /\ Counted(mem') = Counted(mem)
  <2>1. mem \in State /\ mem.row \in Row /\ mem.row.total \in Nat
    BY Typed
  <2>2. mem' = Ticked(mem, mem.row, g)
    BY <1>a, <2>1 DEF Ticked, State
  <2> HIDE DEF g
  <2>3. /\ mem' \in State /\ mem'.row = mem.row /\ mem'.settled = mem.settled
        /\ mem'.unknown["u"] = mem.unknown["u"] + g["u"]
        /\ Counted(mem') + mem.row.total = Counted(mem) + mem.row.total
    BY <1>b, <2>1, <2>2, TickedState
  <2> QED BY <2>1, <2>3, CountedNat
<1> HIDE DEF g, x
<1>w. /\ work' \in [{Workers[i] : i \in DOMAIN Workers} -> {"off", "up", "cancelled", "final", "done"}]
      /\ work'["scraper"] = "done" /\ work'["wal"] = work["wal"]
      /\ work'["reconciler"] = work["reconciler"] /\ work'["ghost"] = work["ghost"]
  BY <1>a, WorkDomain DEF TypeOK
<1>2. TypeOK'
  BY <1>a, <1>m, <1>w, AbsentFacts DEF TypeOK
<1>3. ControlInv'
  BY <1>0, <1>a, <1>w DEF ControlInv
<1>4. StampInv'
  <2>1. BufferedU(NoBuf["u"], entry["u"]) /\ BufferedK(NoBuf["k"])
    BY AbsentFacts, HistTyped DEF BufferedU, BufferedK, RowOK
  <2> QED BY <1>a, <1>h, <1>m, <2>1, AbsentFacts DEF StampInv, RowOK, BufferedK
<1>5. KnownInv'
  BY <1>0, <1>a, <1>h, <1>m DEF KnownInv, KnownBalanced, Restored
<1>6. UnknownInv'
  <2>1. /\ mem.unknown["u"] \in Nat /\ hist.miss["mem"]["u"] \in Nat /\ entry["u"].bytes \in Nat
        /\ hist.sent["u"] \in Nat /\ hist.twice["mem"] \in Nat
    BY Typed, HistTyped
  <2>2. UnknownBalanced(mem, "mem") => UnknownBalanced(mem, "mem")'
    BY <1>a, <1>b, <1>h, <1>m, <2>1 DEF UnknownBalanced
  <2> QED BY <1>0, <1>a, <1>h, <2>2 DEF UnknownInv, UnknownBalanced, Restored
<1>7. SeriesInv'
  <2>1. \A f : Reaches(mem, meta, f) => Reaches(mem', meta, f)
    BY <1>m DEF Reaches, Series
  <2> QED BY <1>0, <1>a, <1>h, <2>1 DEF SeriesInv, SameSeries, Restored
<1>8. DrainInv'
  <2>1. pc = "drain"
    BY <1>a, <1>0, WorkDomain DEF DrainInv
  <2>2. hist.clean => work["wal"] \notin {"cancelled", "final", "done"}
    BY <1>a, <2>1 DEF DrainInv
  <2> QED BY <1>a, <1>h, <1>w, <2>1, <2>2 DEF DrainInv
<1> QED BY <1>h, <1>2, <1>3, <1>4, <1>5, <1>6, <1>7, <1>8

LEMMA WalSettlesStep == ASSUME IInv, WalSettles PROVE IInv'
<1> USE DEF IInv
<1>a. /\ UNCHANGED <<pc, phase, delay, row, sweep, pins, entry, shelf, hook, ready, owner, meta, ghost, buf, copy, disk, hist>>
      /\ work' = [work EXCEPT !["wal"] = "final"] /\ work["wal"] = "cancelled" /\ copy = NoSnapshot
      /\ mem' = IF ghost THEN SettleRebase(mem, meta) ELSE mem
  BY DEF WalSettles, kernelVars, bindVars
<1>0. phase = 4 /\ pc = "drain" /\ row = 5
  BY <1>a, Working, WorkDomain DEF DrainInv
<1>b. HistOK' /\ SameLedger /\ SameSeries /\ hist'.clean = hist.clean
  BY <1>a DEF HistOK, SameLedger, SameSeries
<1>c. /\ mem' \in State /\ Counted(mem') = Counted(mem) /\ mem'.unknown = mem.unknown
      /\ mem'.row.raw = mem.row.raw /\ mem'.row.stamp = mem.row.stamp
      /\ \A t \in Tenants : Series(mem', t, meta) = Series(mem, t, meta)
  <2>1. CASE ghost
    <3>1. meta \in Tenants /\ mem \in State /\ mem' = SettleRebase(mem, meta)
      BY <1>a, <2>1, Typed DEF ControlInv
    <3> QED BY <3>1, RebaseFacts DEF SameSums
  <2>2. CASE ~ghost
    BY <1>a, <2>2, Typed
  <2> QED BY <2>1, <2>2
<1>w. /\ work' \in [{Workers[i] : i \in DOMAIN Workers} -> {"off", "up", "cancelled", "final", "done"}]
      /\ work'["wal"] = "final" /\ work'["scraper"] = work["scraper"]
      /\ work'["reconciler"] = work["reconciler"] /\ work'["ghost"] = work["ghost"]
  BY <1>a, WorkDomain DEF TypeOK
<1>2. TypeOK'
  BY <1>a, <1>c, <1>w DEF TypeOK
<1>3. ControlInv'
  BY <1>0, <1>a, <1>w DEF ControlInv
<1>4. StampInv'
  BY <1>a, <1>c DEF StampInv, RowOK, Reads, BufferedK
<1>5. KnownInv' /\ UnknownInv'
  <2>1. Delta(mem'.row, entry["k"]) = Delta(mem.row, entry["k"])
    BY <1>c DEF Delta
  <2> QED BY <1>0, <1>a, <1>b, <1>c, <2>1, KeepSums DEF Restored
<1>6. SeriesInv'
  <2>1. \A f : Reaches(mem, meta, f) => Reaches(mem', meta, f)
    BY <1>c DEF Reaches
  <2> QED BY <1>0, <1>a, <2>1 DEF SeriesInv, Restored
<1>7. DrainInv'
  BY <1>0, <1>a, <1>w DEF DrainInv
<1> QED BY <1>b, <1>2, <1>3, <1>4, <1>5, <1>6, <1>7

-----------------------------------------------------------------------------
(* The outside.                                                            *)

LEMMA PacketStep == ASSUME IInv, NEW f \in Flows, Packet(f) PROVE IInv'
<1> USE DEF IInv
<1> DEFINE e == entry[f]
           n == hist.sent[f]
           m == CountByte(e, n)
<1>a. /\ UNCHANGED <<pc, phase, delay, work, row, sweep, pins, shelf, hook, ready, owner, meta, ghost, mem, buf, copy, disk>>
      /\ entry' = [entry EXCEPT ![f] = m]
  BY DEF Packet, procVars, dataVars, bindVars
<1>b. e \in Entry /\ n \in Nat /\ EntryOK(e, n) /\ EntryOK(shelf[f], n) /\ shelf[f] \in Entry
  BY DEF StampInv, TypeOK, Map, Entry, HistOK, History
<1>c. /\ m \in Entry /\ EntryOK(m, n + 1) /\ m.bytes = e.bytes + 1 /\ m.stamp # 0
      /\ m.stamp = (IF e.stamp = 0 THEN n + 1 ELSE e.stamp)
      /\ \A r \in Row : r.stamp <= n /\ Reads(r, e) =>
             Reads(r, m) /\ Delta(r, m) = Delta(r, e) + 1
  <2> HIDE DEF e, n
  <2> QED BY <1>b, PacketFacts
<1> HIDE DEF m
<1>d. /\ entry' \in Map /\ entry'[f] = m /\ \A g \in Flows \ {f} : entry'[g] = entry[g]
  <2>1. entry \in Map
    BY DEF TypeOK
  <2> QED BY <1>a, <1>c, <2>1 DEF Map, Entry
<1>e. /\ hist'.sent = [hist.sent EXCEPT ![f] = @ + 1] /\ hist'.reused = hist.reused
      /\ hist'.miss = hist.miss /\ hist'.twice = hist.twice /\ hist'.astray = hist.astray
      /\ SameSeries /\ hist'.clean = hist.clean
  BY DEF Packet, HistOK, History, SameSeries
<1>g. hist'.sent[f] = n + 1 /\ \A g \in Flows \ {f} : hist'.sent[g] = hist.sent[g]
  BY <1>e DEF HistOK, History
<1>1. HistOK'
  <2> DEFINE s == [hist.sent EXCEPT ![f] = @ + 1]
  <2>1. hist' = [hist EXCEPT !.sent = s] /\ s \in [Flows -> Nat]
    BY DEF Packet, HistOK, History
  <2> HIDE DEF s
  <2> QED BY <2>1 DEF HistOK, History
<1>2. TypeOK'
  BY <1>a, <1>d DEF TypeOK
<1>3. ControlInv'
  BY <1>a DEF ControlInv
<1>h. \A g \in Flows : /\ entry[g] \in Entry /\ shelf[g] \in Entry /\ hist.sent[g] \in Nat
                       /\ EntryOK(entry[g], hist.sent[g]) /\ EntryOK(shelf[g], hist.sent[g])
  BY DEF StampInv, TypeOK, Map, Entry, HistOK, History
<1>4. StampInv'
  <2>1. \A g \in Flows : EntryOK(entry'[g], hist'.sent[g]) /\ EntryOK(shelf[g], hist'.sent[g])
    <3>1. EntryOK(shelf[f], n + 1)
      BY <1>b DEF EntryOK, Entry
    <3> QED BY <1>c, <1>d, <1>g, <1>h, <3>1
  <2>2. entry'["k"].stamp = shelf["k"].stamp => entry'["k"].stamp = 0
    <3>1. CASE f = "k"
      BY <1>b, <1>c, <1>d, <3>1 DEF StampInv, EntryOK, Entry
    <3>2. CASE f # "k"
      BY <1>d, <3>2 DEF StampInv, Flows
    <3> QED BY <3>1, <3>2
  <2>3. ASSUME NEW r \in Row, RowOK(r)
        PROVE  r.stamp <= hist'.sent["k"] /\ Reads(r, entry'["k"]) /\ Reads(r, shelf["k"])
    <3>1. CASE f = "k"
      <4>1. r.stamp \in Nat /\ r.stamp <= n /\ Reads(r, e)
        BY <2>3, <3>1 DEF RowOK, Row
      <4> HIDE DEF e, n
      <4>2. r.stamp <= n + 1 /\ Reads(r, m)
        BY <1>b, <1>c, <4>1
      <4> QED BY <1>d, <1>g, <2>3, <3>1, <4>2 DEF RowOK
    <3>2. CASE f # "k"
      BY <1>d, <1>g, <2>3, <3>2 DEF RowOK, Flows
    <3> QED BY <3>1, <3>2
  <2>4. BufferedU(buf["u"], entry'["u"])
    <3>1. CASE f = "u"
      <4>1. buf["u"] \in Row /\ BufferedU(buf["u"], e)
        BY <3>1, Typed DEF StampInv
      <4> HIDE DEF e
      <4> QED BY <1>b, <1>c, <1>d, <3>1, <4>1 DEF BufferedU, Entry, Row
    <3>2. CASE f # "u"
      BY <1>d, <3>2 DEF StampInv, Flows
    <3> QED BY <3>1, <3>2
  <2>5. /\ RowOK(mem.row) /\ RowOK(disk.state.row) /\ RowOK(copy.state.row) /\ RowOK(buf["k"])
        /\ buf["k"].stamp # 0 => buf["k"].stamp # shelf["k"].stamp
        /\ ~hist.astray => buf["k"] = NoRow
    BY DEF StampInv, BufferedK
  <2> QED BY <1>a, <1>e, <2>1, <2>2, <2>3, <2>4, <2>5, Typed DEF StampInv, RowOK, BufferedK
<1>5. KnownInv' /\ UnknownInv'
  <2>1. ASSUME NEW s \in State, NEW p \in Places, RowOK(s.row)
        PROVE  /\ KnownBalanced(s, p) =>
                    Counted(s) + Delta(s.row, entry'["k"]) + hist.miss[p]["k"] = hist'.sent["k"]
               /\ UnknownBalanced(s, p) =>
                    s.unknown["u"] + entry'["u"].bytes + hist.miss[p]["u"] = hist'.sent["u"] + hist.twice[p]
    <3>1. s.row \in Row /\ s.unknown["u"] \in Nat /\ Counted(s) \in Nat
      BY CountedNat DEF State, Flows
    <3>2. Delta(s.row, entry["k"]) \in Nat /\ entry["u"].bytes \in Nat
      BY <2>1, <3>1, DeltaNat, Typed DEF RowOK
    <3>3. /\ hist.miss[p]["k"] \in Nat /\ hist.miss[p]["u"] \in Nat /\ hist.twice[p] \in Nat
          /\ hist.sent["k"] \in Nat /\ hist.sent["u"] \in Nat
      BY HistTyped
    <3>4. CASE f = "k"
      <4>1. Delta(s.row, m) = Delta(s.row, e) + 1
        <5>1. s.row.stamp <= n /\ Reads(s.row, e)
          BY <2>1, <3>4 DEF RowOK
        <5> HIDE DEF e, n
        <5> QED BY <1>c, <3>1, <5>1
      <4>2. entry'["k"] = m /\ entry'["u"] = entry["u"] /\ hist'.sent["k"] = hist.sent["k"] + 1
            /\ hist'.sent["u"] = hist.sent["u"]
        BY <1>d, <1>g, <3>4 DEF Flows
      <4> QED BY <3>1, <3>2, <3>3, <3>4, <4>1, <4>2 DEF KnownBalanced, UnknownBalanced
    <3>5. CASE f = "u"
      <4>1. /\ entry'["k"] = entry["k"] /\ entry'["u"].bytes = entry["u"].bytes + 1
            /\ hist'.sent["k"] = hist.sent["k"] /\ hist'.sent["u"] = hist.sent["u"] + 1
        BY <1>c, <1>d, <1>g, <3>5 DEF Flows
      <4> QED BY <3>1, <3>2, <3>3, <4>1 DEF KnownBalanced, UnknownBalanced
    <3> QED BY <3>4, <3>5 DEF Flows
  <2>2. /\ RowOK(mem.row) /\ RowOK(disk.state.row) /\ RowOK(copy.state.row)
        /\ "mem" \in Places /\ "copy" \in Places /\ "disk" \in Places
    BY HistTyped DEF StampInv
  <2>3. KnownInv'
    BY <1>a, <1>e, <2>1, <2>2, Typed DEF KnownInv, KnownBalanced, Restored
  <2>4. UnknownInv'
    BY <1>a, <1>e, <2>1, <2>2, Typed DEF UnknownInv, UnknownBalanced, Restored
  <2> QED BY <2>3, <2>4
<1>6. SeriesInv'
  BY <1>a, <1>e, KeepSeries DEF Restored
<1>7. DrainInv'
  BY <1>a, <1>e, KeepDrain
<1> QED BY <1>1, <1>2, <1>3, <1>4, <1>5, <1>6, <1>7

LEMMA ReassignStep == ASSUME IInv, NEW t \in Tenants \cup {NoTenant}, Reassign(t) PROVE IInv'
<1> USE DEF IInv
<1>a. /\ UNCHANGED <<pc, phase, delay, work, row, sweep, pins, entry, shelf, hook, ready, meta, ghost, mem, buf, copy, disk>>
      /\ owner' = t
  BY DEF Reassign, procVars, kernelVars, dataVars, bindVars
<1>b. HistOK' /\ SameLedger /\ SameSeries /\ hist'.clean = hist.clean
  BY DEF Reassign, HistOK, History, SameLedger, SameSeries
<1>2. TypeOK'
  BY <1>a DEF TypeOK
<1>3. ControlInv' /\ StampInv' /\ DrainInv'
  BY <1>a, <1>b, KeepControl, KeepStamp, KeepDrain DEF SameLedger
<1>4. KnownInv' /\ UnknownInv' /\ SeriesInv'
  BY <1>a, <1>b, KeepLedger, KeepSeries DEF Restored
<1> QED BY <1>b, <1>2, <1>3, <1>4

LEMMA UpgradeStep == ASSUME IInv, Upgrade PROVE IInv'
<1> USE DEF IInv
<1>a. /\ UNCHANGED <<pc, phase, delay, work, row, sweep, entry, hook, ready, owner, meta, ghost, mem, buf, copy, disk>>
      /\ pins' = "stale" /\ shelf' = EmptyMap /\ pc = "down"
  BY DEF Upgrade, procVars, dataVars, bindVars
<1>b. HistOK' /\ SameLedger /\ SameSeries /\ hist'.clean = hist.clean
  BY DEF Upgrade, HistOK, History, SameLedger, SameSeries
<1>2. TypeOK'
  BY <1>a, AbsentFacts DEF TypeOK
<1>3. ControlInv' /\ DrainInv'
  BY <1>a, <1>b, KeepControl, KeepDrain
<1>4. StampInv'
  <2>1. \A f \in Flows : EntryOK(shelf'[f], hist.sent[f])
    BY <1>a, AbsentFacts DEF Flows, HistOK, History
  <2>2. \A r : Reads(r, shelf'["k"])
    BY <1>a, AbsentFacts
  <2>3. entry["k"].stamp = shelf'["k"].stamp => entry["k"].stamp = 0
    BY <1>a, AbsentFacts
  <2>4. buf["k"] = NoRow
    BY <1>a, AbsentFacts DEF ControlInv
  <2> QED BY <1>a, <1>b, <2>1, <2>2, <2>3, <2>4, AbsentFacts DEF StampInv, RowOK, BufferedK, SameLedger
<1>5. KnownInv' /\ UnknownInv' /\ SeriesInv'
  BY <1>a, <1>b, KeepLedger, KeepSeries DEF Restored
<1> QED BY <1>b, <1>2, <1>3, <1>4, <1>5

-----------------------------------------------------------------------------
(* The theorems.                                                           *)

LEMMA StutterStep == ASSUME IInv, UNCHANGED vars PROVE IInv'
<1> USE DEF IInv
<1>a. UNCHANGED <<pc, phase, delay, work, row, sweep, pins, entry, shelf, hook, ready, owner, meta, ghost, mem, buf, copy, disk, hist>>
  BY DEF vars, procVars, kernelVars, dataVars, bindVars
<1>b. SameLedger /\ SameSeries /\ hist'.clean = hist.clean
  BY <1>a DEF SameLedger, SameSeries
<1>1. TypeOK' /\ HistOK'
  BY <1>a DEF TypeOK, HistOK
<1>2. ControlInv' /\ StampInv' /\ DrainInv'
  BY <1>a, <1>b, KeepControl, KeepStamp, KeepDrain DEF SameLedger
<1>3. KnownInv' /\ UnknownInv' /\ SeriesInv'
  BY <1>a, <1>b, KeepLedger, KeepSeries DEF Restored
<1> QED BY <1>1, <1>2, <1>3

\* Init and every step of the process, its workers, the shutdown and the outside
\* keep the inductive invariant.
THEOREM LifeInvariant == Spec => []IInv
<1>1. Init => IInv
  BY InitInv
<1>2. IInv /\ [Next]_vars => IInv'
  <2> SUFFICES ASSUME IInv, [Next]_vars PROVE IInv'
    OBVIOUS
  <2>1. CASE Boot
    BY <2>1, StartStep, HuntStep, LoadPinnedStep, LoadOtherStep, WireStep, ColdStartStep,
       ColdRetryStep, RestoreStep, EndsStep DEF Boot, BootFails
  <2>2. CASE Work
    BY <2>2, AttachStep, LearnStep, MarkGoneStep, FlushCopyStep, SweepBeginsStep, SweepEvictsStep,
       SweepSettlesStep, SweepDeletesStep, TickStep, FlushSaveStep DEF Work
  <2>3. CASE Shutdown
    BY <2>3, ServerStopsStep, AwaitStep, WorkerStopsStep, LastTickFailsStep, ScraperStopsStep,
       WalSettlesStep DEF Shutdown
  <2>4. CASE Outside
    BY <2>4, PacketStep, ReassignStep, UpgradeStep, EndsStep DEF Outside, Crash
  <2>5. CASE UNCHANGED vars
    BY <2>5, StutterStep
  <2> QED BY <2>1, <2>2, <2>3, <2>4, <2>5 DEF Next
<1> QED BY <1>1, <1>2, PTL DEF Spec

\* Every variable keeps its type; in particular no total, reading or delta goes
\* negative, whatever map a boot takes up (ApplyDelta).
THEOREM TypeCorrect == Spec => []TypeOK
<1>1. IInv => TypeOK
  BY DEF IInv
<1> QED BY <1>1, LifeInvariant, PTL

\* No program of a collection is attached before its metadata maps are filled:
\* the boot order of bootstrap.Run, for any retries and failures.
THEOREM HookAlwaysClassifies == Spec => []HookClassifies
<1>1. IInv => HookClassifies
  BY DEF IInv, ControlInv, HookClassifies
<1> QED BY <1>1, LifeInvariant, PTL

\* Restarts lose and repeat no tenant's bytes beyond the accepted losses, for any
\* number of boots, crashes, sweeps, relief deletions and changes of owner.
THEOREM RestartsAreLossless == Spec => []RestartLossless
<1>1. IInv => RestartLossless
  BY DEF IInv, KnownInv, KnownBalanced, RestartLossless, View, Place
<1> QED BY <1>1, LifeInvariant, PTL

\* Bytes of unknown MACs are accounted for exactly, for any number of folds,
\* drains, crashes and boots: what is missing and what is held twice is named.
THEOREM UnknownsAreAccounted == Spec => []UnknownAccounted
<1>1. IInv => UnknownAccounted
  <2> SUFFICES ASSUME IInv, ~hist.reused
               PROVE  View.unknown["u"] + buf["u"].total + Delta(buf["u"], entry["u"]) + hist.miss[Place]["u"]
                        = hist.sent["u"] + hist.twice[Place]
    BY DEF UnknownAccounted
  <2>1. UnknownBalanced(View, Place) /\ View.unknown["u"] \in Nat
    <3>1. CASE Restored
      BY <3>1, Typed DEF IInv, UnknownInv, View, Place
    <3>2. CASE ~Restored
      BY <3>2, Typed DEF IInv, UnknownInv, View, Place
    <3> QED BY <3>1, <3>2
  <2>2. /\ buf["u"].total + Delta(buf["u"], entry["u"]) = entry["u"].bytes
        /\ buf["u"].total \in Nat /\ Delta(buf["u"], entry["u"]) \in Nat /\ entry["u"].bytes \in Nat
    <3>1. buf["u"] \in Row /\ entry["u"] \in Entry /\ EntryOK(entry["u"], hist.sent["u"]) /\ BufferedU(buf["u"], entry["u"])
      BY Typed DEF IInv, StampInv, Flows
    <3> QED BY <3>1, AbsentFacts DEF BufferedU, Delta, Row, Entry, EntryOK
  <2>3. hist.miss[Place]["u"] \in Nat
    BY HistTyped DEF IInv, Place
  <2> QED BY <2>1, <2>2, <2>3 DEF UnknownBalanced
<1> QED BY <1>1, LifeInvariant, PTL

\* A tenant's flushed series is back after every restart, for any owners, departures
\* and changes of owner outside a flush.
THEOREM FlushedSeriesComeBack == Spec => []FlushedSeriesSurvive
<1>1. IInv => FlushedSeriesSurvive
  BY DEF IInv, SeriesInv, FlushedSeriesSurvive, Reaches
<1> QED BY <1>1, LifeInvariant, PTL

\* A drain in which nobody is late ends with everything on disk and nothing in the
\* buffer: no sweep, pass or tick changes the state after the last copy, whatever
\* each was at when it was cancelled (drainWorkers).
THEOREM CleanExitIsComplete == Spec => CleanExitSavesAll
<1>1. IInv => (pc = "drain" /\ pc' = "down" /\ row = Len(Workers) /\ hist.clean /\ work["wal"] = "done"
                  => disk = Snapshot(mem, meta) /\ buf = NoBuf)
  <2> SUFFICES ASSUME IInv, pc = "drain", row = Len(Workers), hist.clean, work["wal"] = "done"
               PROVE  disk = Snapshot(mem, meta) /\ buf = NoBuf
    OBVIOUS
  <2>1. row = 5
    BY WorkersAre
  <2> QED BY <2>1 DEF IInv, DrainInv
<1> QED BY <1>1, LifeInvariant, PTL DEF CleanExitSavesAll
=============================================================================
