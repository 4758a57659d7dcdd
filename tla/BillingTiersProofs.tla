------------------------- MODULE BillingTiersProofs -------------------------
(***************************************************************************)
(* Proofs about BillingTiers: for any MACs, servers and projects, the      *)
(* total tier holds every byte, a series outside the named windows is      *)
(* worth exactly what was counted for its owner, the servers of a project  *)
(* are never worth more than it, and no exposition decreases.              *)
(*                                                                         *)
(* The argument is about the windows.  A row can only be credited to a     *)
(* binding other than the one it was counted under when somebody holds an  *)
(* old binding (the reconciler's old, the sweeper's metas, the collector's *)
(* copy) while it changes; the invariant says that then both bindings'     *)
(* series are in slips, and that otherwise the row of a MAC whose binding  *)
(* is about to change is empty or late.                                    *)
(***************************************************************************)
EXTENDS BillingTiers, FiniteSetTheorems, TLAPS

-----------------------------------------------------------------------------
(* The inductive invariant.                                                *)

\* A sum over a set, as the model's MapThenSumSet computes it.
Total(f, S) == MapThenSumSet(LAMBDA x : f[x], S)

\* The series that add up to the total, and the one a row adds to.
Payers == Tenants \cup {Unknown}
PayerOf(b) == IF b = None THEN Unknown ELSE TenantOf[b]
ServersOf(t) == {s \in Servers : TenantOf[s] = t}

\* The reconciler's variables fit its phase, and its lists are not older than
\* the cloud.
PassInv ==
    /\ at # None <=> rpc \in {"settle", "insert"}
    /\ at # None => desired[at] # None
    /\ \A m \in todo : desired[m] # None
    /\ rpc \in {"servers", "projects"} => todo = {}
    /\ rpc = "settle" => old # None
    /\ rpc # "idle" => /\ lists.servers = {} \/ nova \subseteq lists.servers
                       /\ keystone \subseteq lists.projects

\* Nothing to bill is left in the row of m, or it is known to be late.
Drained(m) == rows[m] = 0 \/ m \in late

\* Two bindings that somebody confuses have slipped.
Slipped(a, b) == a # b => SeriesOf(a) \cup SeriesOf(b) \subseteq slips

WindowInv ==
    /\ \A m \in Macs : meta[m] = None => Drained(m)
    /\ rpc = "insert" /\ meta[at] # desired[at] => Drained(at)
    /\ rpc = "settle" => Slipped(old, meta[at])
    /\ gpc = "look" => \A m \in swept : meta[m] # None
    /\ gpc = "settle" => \A m \in swept : metas[m] # None /\ Slipped(metas[m], meta[m])
    /\ gpc = "delete" => \A m \in swept : Drained(m)

\* The total tier without its fibres.
SumInv == Total(rows, Macs) + unknown + Total(settled, Payers) + released = bytes

Within(f) == \A t \in keystone : Total(f, ServersOf(t)) <= f[t]
WithinInv == Within(settled) /\ Within(col.series) /\ Within(shown.series)

\* What the exposition in progress will show.
Expected(x) == col.series[x] + Total(col.rows, {m \in col.todo : x \in SeriesOf(meta[m])})
ExpectedTotal == Total(col.series, Payers) + Total(col.rows, col.todo) + col.released

\* It lies between the last one and what is due.
CollectInv ==
    /\ ~col.busy => col.todo = {}
    /\ \A x \in Sound : shown.series[x] <= due[x]
    /\ shown.total <= bytes
    /\ col.busy => /\ \A x \in Sound : shown.series[x] <= Expected(x) /\ Expected(x) <= due[x]
                   /\ shown.total <= ExpectedTotal /\ ExpectedTotal <= bytes

IInv == /\ TypeOK /\ PassInv /\ WindowInv
        /\ OwnersExact /\ SumInv /\ WithinInv /\ CollectInv

-----------------------------------------------------------------------------
(* Sums over finite sets.  MapThenSumSet is a recursion over subsets; what *)
(* it unrolls to is shown by taking a minimal subset on which a statement  *)
(* fails.                                                                  *)

Pick(T) == CHOOSE x \in T : TRUE

\* The recursion a Total unrolls over the subsets of S.
Unrolls(g, f, S) ==
    g = [T \in SUBSET S |-> IF T = {} THEN 0 ELSE f[Pick(T)] + g[T \ {Pick(T)}]]

LEMMA TotalDef == ASSUME NEW f, NEW S PROVE Total(f, S) = (CHOOSE g : Unrolls(g, f, S))[S]
  BY DEF Total, MapThenSumSet, MapThenFoldSet, Unrolls, Pick

LEMMA Minimal ==
    ASSUME NEW S, IsFiniteSet(S), NEW F \in SUBSET SUBSET S, F # {}
    PROVE  \E T \in F : \A U \in F : U \subseteq T => U = T
<1>1. IsWellFoundedOn(StrictSubsetOrdering(S), SUBSET S)
  BY FS_StrictSubsetOrderingWellFounded, FS_FiniteSubsetsOfFinite
<1>2. PICK T \in F : \A U \in F : ~(<<U, T>> \in StrictSubsetOrdering(S))
  BY <1>1, WFMin
<1>3. ASSUME NEW U \in F, U \subseteq T PROVE U = T
  BY <1>2, <1>3 DEF StrictSubsetOrdering
<1> WITNESS T \in F
<1> QED BY <1>3

LEMMA Picked == ASSUME NEW T, T # {} PROVE Pick(T) \in T
  BY DEF Pick

\* Two unrollings agree.
LEMMA UnrollsOnce ==
    ASSUME NEW S, IsFiniteSet(S), NEW f, NEW g, NEW h, Unrolls(g, f, S), Unrolls(h, f, S)
    PROVE  g = h
<1> DEFINE F == {T \in SUBSET S : g[T] # h[T]}
<1>1. CASE F = {}
  BY <1>1 DEF Unrolls
<1>2. CASE F # {}
  <2>0. F \in SUBSET SUBSET S
    OBVIOUS
  <2>1. PICK T \in F : \A U \in F : U \subseteq T => U = T
    <3> HIDE DEF F
    <3> QED BY <1>2, <2>0, Minimal
  <2>2. T # {}
    BY <2>1 DEF Unrolls
  <2>3. Pick(T) \in T
    BY <2>2, Picked
  <2>4. g[T \ {Pick(T)}] = h[T \ {Pick(T)}]
    BY <2>1, <2>3
  <2> QED BY <2>1, <2>2, <2>4 DEF Unrolls
<1> QED BY <1>1, <1>2

\* An unrolling restricts to the subsets of a subset.
LEMMA UnrollsBelow ==
    ASSUME NEW S, NEW f, NEW g, Unrolls(g, f, S), NEW T \in SUBSET S
    PROVE  Unrolls([U \in SUBSET T |-> g[U]], f, T)
<1> DEFINE h == [U \in SUBSET T |-> g[U]]
<1>1. \A U \in SUBSET T : h[U] = IF U = {} THEN 0 ELSE f[Pick(U)] + h[U \ {Pick(U)}]
  BY DEF Unrolls
<1> QED BY <1>1 DEF Unrolls

\* Every finite set has an unrolling.
LEMMA UnrollsExists ==
    ASSUME NEW S, IsFiniteSet(S), NEW f
    PROVE  \E g : Unrolls(g, f, S)
<1> DEFINE Bad == {T \in SUBSET S : ~\E g : Unrolls(g, f, T)}
<1>1. SUFFICES ASSUME Bad # {} PROVE FALSE
  OBVIOUS
<1>0. Bad \in SUBSET SUBSET S
  OBVIOUS
<1>2. PICK T \in Bad : \A U \in Bad : U \subseteq T => U = T
  <2> HIDE DEF Bad
  <2> QED BY <1>0, <1>1, Minimal
<1> DEFINE h(U) == CHOOSE g : Unrolls(g, f, U)
<1>3. ASSUME NEW U \in SUBSET T, U # T
      PROVE  Unrolls(h(U), f, U)
  BY <1>2, <1>3
<1>4. ASSUME NEW U \in SUBSET T, U # T, NEW V \in SUBSET U
      PROVE  h(U)[V] = h(V)[V]
  <2>1. Unrolls(h(U), f, U) /\ Unrolls(h(V), f, V)
    <3>1. V \in SUBSET T /\ V # T
      BY <1>4
    <3> QED BY <1>3, <1>4, <3>1
  <2>2. Unrolls([W \in SUBSET V |-> h(U)[W]], f, V)
    BY <2>1, UnrollsBelow
  <2>3. IsFiniteSet(V)
    BY FS_Subset
  <2>4. [W \in SUBSET V |-> h(U)[W]] = h(V)
    <3> HIDE DEF h
    <3> QED BY <2>1, <2>2, <2>3, UnrollsOnce
  <2> QED BY <2>4
<1> DEFINE value(U) == IF U = {} THEN 0 ELSE f[Pick(U)] + h(U \ {Pick(U)})[U \ {Pick(U)}]
           g == [U \in SUBSET T |-> value(U)]
<1>5. ASSUME NEW U \in SUBSET T, U # T PROVE h(U)[U] = value(U)
  <2>1. Unrolls(h(U), f, U)
    BY <1>3, <1>5
  <2>2. h(U)[U] = IF U = {} THEN 0 ELSE f[Pick(U)] + h(U)[U \ {Pick(U)}]
    <3> HIDE DEF h
    <3> QED BY <2>1 DEF Unrolls
  <2>3. h(U)[U \ {Pick(U)}] = h(U \ {Pick(U)})[U \ {Pick(U)}]
    BY <1>4, <1>5
  <2> QED BY <2>2, <2>3
<1>6. \A U \in SUBSET T : g[U] = IF U = {} THEN 0 ELSE f[Pick(U)] + g[U \ {Pick(U)}]
  <2> TAKE U \in SUBSET T
  <2>0. CASE U = {}
    <3> HIDE DEF h
    <3> QED BY <2>0
  <2> SUFFICES ASSUME U # {}
               PROVE  g[U] = f[Pick(U)] + g[U \ {Pick(U)}]
    <3> HIDE DEF g
    <3> QED BY <2>0
  <2>1. U \ {Pick(U)} \in SUBSET T /\ U \ {Pick(U)} # T
    BY Picked
  <2>2. g[U \ {Pick(U)}] = h(U \ {Pick(U)})[U \ {Pick(U)}]
    <3> HIDE DEF h, value
    <3> QED BY <1>5, <2>1
  <2> QED BY <2>2
<1>7. Unrolls(g, f, T)
  <2> HIDE DEF value
  <2> QED BY <1>6 DEF Unrolls
<1> QED BY <1>2, <1>7

\* The chosen unrolling unrolls.
LEMMA Unrolling ==
    ASSUME NEW S, IsFiniteSet(S), NEW f
    PROVE  Unrolls(CHOOSE g : Unrolls(g, f, S), f, S)
  BY UnrollsExists

LEMMA TotalEmpty == ASSUME NEW f PROVE Total(f, {}) = 0
<1>1. IsFiniteSet({})
  BY FS_EmptySet
<1> DEFINE g == CHOOSE h : Unrolls(h, f, {})
<1>2. Unrolls(g, f, {})
  BY <1>1, Unrolling
<1>3. Total(f, {}) = g[{}]
  BY TotalDef
<1> HIDE DEF g
<1> QED BY <1>2, <1>3 DEF Unrolls

LEMMA TotalPick ==
    ASSUME NEW S, IsFiniteSet(S), S # {}, NEW f
    PROVE  Total(f, S) = f[Pick(S)] + Total(f, S \ {Pick(S)})
<1> DEFINE g == CHOOSE h : Unrolls(h, f, S)
           T == S \ {Pick(S)}
           k == CHOOSE h : Unrolls(h, f, T)
<1>1. Unrolls(g, f, S)
  BY Unrolling
<1>2. IsFiniteSet(T) /\ T \in SUBSET S
  BY FS_Subset
<1>3. Unrolls(k, f, T)
  <2> HIDE DEF T
  <2> QED BY <1>2, Unrolling
<1>4. Total(f, S) = g[S] /\ Total(f, T) = k[T]
  BY TotalDef
<1> HIDE DEF g, k, T
<1>5. Unrolls([U \in SUBSET T |-> g[U]], f, T)
  BY <1>1, <1>2, UnrollsBelow
<1>6. [U \in SUBSET T |-> g[U]] = k
  BY <1>2, <1>3, <1>5, UnrollsOnce
<1>7. g[T] = k[T]
  BY <1>6
<1>8. g[S] = f[Pick(S)] + g[S \ {Pick(S)}]
  BY <1>1 DEF Unrolls
<1> QED BY <1>4, <1>7, <1>8 DEF T

\* A sum of naturals is a natural.
LEMMA TotalNat ==
    ASSUME NEW S, IsFiniteSet(S), NEW f, \A x \in S : f[x] \in Nat
    PROVE  Total(f, S) \in Nat
<1> DEFINE Bad == {T \in SUBSET S : Total(f, T) \notin Nat}
<1>1. SUFFICES ASSUME Bad # {} PROVE FALSE
  OBVIOUS
<1>2. Bad \in SUBSET SUBSET S
  OBVIOUS
<1>3. PICK T \in Bad : \A U \in Bad : U \subseteq T => U = T
  <2> HIDE DEF Bad
  <2> QED BY <1>1, <1>2, Minimal
<1>4. T # {}
  BY TotalEmpty
<1>5. IsFiniteSet(T) /\ Pick(T) \in T /\ T \in SUBSET S
  BY <1>4, FS_Subset, Picked
<1>6. Total(f, T \ {Pick(T)}) \in Nat
  BY <1>3, <1>5
<1>7. Total(f, T) = f[Pick(T)] + Total(f, T \ {Pick(T)})
  BY <1>4, <1>5, TotalPick
<1> QED BY <1>5, <1>6, <1>7

\* Any element can be taken out of a sum.
LEMMA TotalAny ==
    ASSUME NEW S, IsFiniteSet(S), NEW f, \A x \in S : f[x] \in Nat, NEW x \in S
    PROVE  Total(f, S) = f[x] + Total(f, S \ {x})
<1> DEFINE Bad == {T \in SUBSET S : \E y \in T : Total(f, T) # f[y] + Total(f, T \ {y})}
<1>1. SUFFICES ASSUME Bad # {} PROVE FALSE
  OBVIOUS
<1>2. Bad \in SUBSET SUBSET S
  OBVIOUS
<1>3. PICK T \in Bad : \A U \in Bad : U \subseteq T => U = T
  <2> HIDE DEF Bad
  <2> QED BY <1>1, <1>2, Minimal
<1>4. PICK y \in T : Total(f, T) # f[y] + Total(f, T \ {y})
  OBVIOUS
<1> DEFINE p == Pick(T)
           U == T \ {p}
           V == T \ {y}
           W == T \ {p, y}
<1>5. IsFiniteSet(T) /\ T \in SUBSET S /\ p \in T
  BY <1>4, FS_Subset, Picked
<1>6. Total(f, T) = f[p] + Total(f, U)
  BY <1>5, TotalPick
<1>7. y # p
  BY <1>4, <1>6
<1> HIDE DEF p
<1>8. U \ {y} = W /\ V \ {p} = W /\ y \in U /\ p \in V
  BY <1>5, <1>7
<1>9. Total(f, U) = f[y] + Total(f, W)
  BY <1>3, <1>5, <1>8
<1>10. Total(f, V) = f[p] + Total(f, W)
  BY <1>3, <1>4, <1>5, <1>8
<1>11. IsFiniteSet(W) /\ W \in SUBSET S
  BY <1>5, FS_Subset
<1>12. Total(f, W) \in Nat
  <2> HIDE DEF W
  <2> QED BY <1>11, TotalNat
<1>13. f[p] \in Nat /\ f[y] \in Nat
  BY <1>5
<1> HIDE DEF Bad, U, V, W
<1>14. Total(f, T) = f[y] + Total(f, V)
  BY <1>6, <1>9, <1>10, <1>12, <1>13
<1> QED BY <1>4, <1>14 DEF V

\* A sum over a union with a new element.
LEMMA TotalEq ==
    ASSUME NEW S, IsFiniteSet(S), NEW f, NEW g, \A x \in S : f[x] = g[x]
    PROVE  Total(f, S) = Total(g, S)
<1> DEFINE Bad == {T \in SUBSET S : Total(f, T) # Total(g, T)}
<1>1. SUFFICES ASSUME Bad # {} PROVE FALSE
  OBVIOUS
<1>2. Bad \in SUBSET SUBSET S
  OBVIOUS
<1>3. PICK T \in Bad : \A U \in Bad : U \subseteq T => U = T
  <2> HIDE DEF Bad
  <2> QED BY <1>1, <1>2, Minimal
<1>4. T # {}
  BY TotalEmpty
<1>5. IsFiniteSet(T) /\ Pick(T) \in T /\ T \in SUBSET S
  BY <1>4, FS_Subset, Picked
<1>6. Total(f, T \ {Pick(T)}) = Total(g, T \ {Pick(T)})
  BY <1>3, <1>5
<1>7. /\ Total(f, T) = f[Pick(T)] + Total(f, T \ {Pick(T)})
      /\ Total(g, T) = g[Pick(T)] + Total(g, T \ {Pick(T)})
  BY <1>4, <1>5, TotalPick
<1> QED BY <1>5, <1>6, <1>7

\* Sums add up element by element.
LEMMA TotalAdd ==
    ASSUME NEW S, IsFiniteSet(S), NEW f, NEW g, NEW h,
           \A x \in S : f[x] \in Nat /\ g[x] \in Nat /\ h[x] = f[x] + g[x]
    PROVE  Total(h, S) = Total(f, S) + Total(g, S)
<1> DEFINE Bad == {T \in SUBSET S : Total(h, T) # Total(f, T) + Total(g, T)}
<1>1. SUFFICES ASSUME Bad # {} PROVE FALSE
  OBVIOUS
<1>2. Bad \in SUBSET SUBSET S
  OBVIOUS
<1>3. PICK T \in Bad : \A U \in Bad : U \subseteq T => U = T
  <2> HIDE DEF Bad
  <2> QED BY <1>1, <1>2, Minimal
<1>4. T # {}
  <2> SUFFICES ASSUME T = {} PROVE FALSE
    OBVIOUS
  <2>1. Total(h, T) = 0 /\ Total(f, T) = 0 /\ Total(g, T) = 0
    BY TotalEmpty
  <2> QED BY <2>1
<1> DEFINE p == Pick(T)
           U == T \ {p}
<1>5. IsFiniteSet(T) /\ p \in T /\ T \in SUBSET S
  BY <1>4, FS_Subset, Picked
<1>6. Total(h, U) = Total(f, U) + Total(g, U)
  BY <1>3, <1>5
<1>7. /\ Total(h, T) = h[p] + Total(h, U)
      /\ Total(f, T) = f[p] + Total(f, U)
      /\ Total(g, T) = g[p] + Total(g, U)
  BY <1>4, <1>5, TotalPick
<1>8. IsFiniteSet(U) /\ U \in SUBSET S
  BY <1>5, FS_Subset
<1> HIDE DEF p, U
<1>9. Total(f, U) \in Nat /\ Total(g, U) \in Nat
  BY <1>8, TotalNat
<1>10. f[p] \in Nat /\ g[p] \in Nat /\ h[p] = f[p] + g[p]
  BY <1>5
<1>11. Total(h, T) = Total(f, T) + Total(g, T)
  <2> HIDE DEF Bad
  <2> QED BY <1>6, <1>7, <1>9, <1>10
<1> QED BY <1>11

\* A sum of which one element grows.
LEMMA TotalCredit ==
    ASSUME NEW S, IsFiniteSet(S), NEW f, NEW g, NEW t \in S, NEW n \in Nat,
           \A x \in S : f[x] \in Nat,
           g[t] = f[t] + n, \A x \in S \ {t} : g[x] = f[x]
    PROVE  Total(g, S) = Total(f, S) + n
<1> DEFINE R == S \ {t}
<1>1. IsFiniteSet(R)
  BY FS_Subset
<1>2. Total(f, S) = f[t] + Total(f, R)
  BY TotalAny
<1>3. \A x \in S : g[x] \in Nat
  OBVIOUS
<1>4. Total(g, S) = g[t] + Total(g, R)
  BY <1>3, TotalAny
<1>5. Total(f, R) \in Nat /\ Total(g, R) = Total(f, R)
  BY <1>1, TotalNat, TotalEq
<1> HIDE DEF R
<1> QED BY <1>2, <1>4, <1>5

\* A sum of zeros.
LEMMA TotalZero ==
    ASSUME NEW S, IsFiniteSet(S), NEW f, \A x \in S : f[x] = 0
    PROVE  Total(f, S) = 0
<1> DEFINE h == [x \in S |-> 0]
<1>1. \A x \in S : h[x] = h[x] + h[x] /\ h[x] \in Nat /\ f[x] = h[x]
  OBVIOUS
<1> HIDE DEF h
<1>2. Total(h, S) = Total(h, S) + Total(h, S) /\ Total(h, S) \in Nat
  BY <1>1, TotalAdd, TotalNat
<1>3. Total(f, S) = Total(h, S)
  BY <1>1, TotalEq
<1>4. \A n \in Nat : n = n + n => n = 0
  OBVIOUS
<1> QED BY <1>2, <1>3, <1>4

\* A sum is split by a subset.
LEMMA TotalSplit ==
    ASSUME NEW S, IsFiniteSet(S), NEW f, \A x \in S : f[x] \in Nat, NEW A \in SUBSET S
    PROVE  Total(f, S) = Total(f, A) + Total(f, S \ A)
<1> DEFINE Bad == {T \in SUBSET S : Total(f, S) # Total(f, T) + Total(f, S \ T)}
<1>1. SUFFICES ASSUME Bad # {} PROVE FALSE
  OBVIOUS
<1>2. Bad \in SUBSET SUBSET S
  OBVIOUS
<1>3. PICK T \in Bad : \A U \in Bad : U \subseteq T => U = T
  <2> HIDE DEF Bad
  <2> QED BY <1>1, <1>2, Minimal
<1>4. \A U \in SUBSET S : IsFiniteSet(U) /\ Total(f, U) \in Nat
  BY FS_Subset, TotalNat
<1>5. T # {}
  <2> SUFFICES ASSUME T = {} PROVE FALSE
    OBVIOUS
  <2>1. S \ T = S /\ Total(f, T) = 0 /\ Total(f, S) \in Nat
    BY <1>4, TotalEmpty
  <2> QED BY <2>1
<1> DEFINE p == Pick(T)
           U == T \ {p}
           V == S \ U
<1>6. p \in T /\ T \in SUBSET S
  BY <1>5, Picked
<1> HIDE DEF p
<1>7. Total(f, S) = Total(f, U) + Total(f, V)
  BY <1>3, <1>6
<1>8. Total(f, T) = f[p] + Total(f, U)
  BY <1>4, <1>6, TotalAny
<1>9. V \ {p} = S \ T /\ p \in V /\ V \in SUBSET S /\ U \in SUBSET S /\ S \ T \in SUBSET S
  BY <1>6
<1>10. Total(f, V) = f[p] + Total(f, S \ T)
  <2> HIDE DEF V
  <2>1. Total(f, V) = f[p] + Total(f, V \ {p})
    BY <1>4, <1>9, TotalAny
  <2> QED BY <1>9, <2>1
<1>11. f[p] \in Nat /\ Total(f, U) \in Nat /\ Total(f, S \ T) \in Nat
  BY <1>4, <1>6, <1>9
<1> HIDE DEF U, V
<1>12. Total(f, S) = Total(f, T) + Total(f, S \ T)
  BY <1>7, <1>8, <1>10, <1>11
<1> QED BY <1>12

\* A sum over a subset is one over the set with zeros elsewhere.
LEMMA TotalFilter ==
    ASSUME NEW S, IsFiniteSet(S), NEW f, \A x \in S : f[x] \in Nat, NEW A \in SUBSET S
    PROVE  Total(f, A) = Total([x \in S |-> IF x \in A THEN f[x] ELSE 0], S)
<1> DEFINE g == [x \in S |-> IF x \in A THEN f[x] ELSE 0]
<1>1. /\ \A x \in S : g[x] \in Nat
      /\ \A x \in A : g[x] = f[x]
      /\ \A x \in S \ A : g[x] = 0
  OBVIOUS
<1> HIDE DEF g
<1>2. IsFiniteSet(A) /\ IsFiniteSet(S \ A)
  BY FS_Subset
<1>3. Total(g, S) = Total(g, A) + Total(g, S \ A)
  BY <1>1, TotalSplit
<1>4. Total(g, S \ A) = 0
  BY <1>1, <1>2, TotalZero
<1>5. Total(g, A) = Total(f, A) /\ Total(f, A) \in Nat
  BY <1>1, <1>2, TotalEq, TotalNat
<1>6. Total(f, A) = Total(g, S)
  BY <1>3, <1>4, <1>5
<1> QED BY <1>6 DEF g

\* Sums are monotone.
LEMMA TotalLe ==
    ASSUME NEW S, IsFiniteSet(S), NEW f, NEW g,
           \A x \in S : f[x] \in Nat /\ g[x] \in Nat /\ f[x] <= g[x]
    PROVE  Total(f, S) <= Total(g, S)
<1> DEFINE d == [x \in S |-> g[x] - f[x]]
<1>1. \A x \in S : d[x] \in Nat /\ g[x] = f[x] + d[x]
  OBVIOUS
<1> HIDE DEF d
<1>2. Total(g, S) = Total(f, S) + Total(d, S)
  BY <1>1, TotalAdd
<1>3. Total(f, S) \in Nat /\ Total(d, S) \in Nat
  BY <1>1, TotalNat
<1> QED BY <1>2, <1>3

\* The fibres of a map add up to the whole.
Fibre(f, c, M, x) == Total(f, {m \in M : c[m] = x})

LEMMA TotalFibres ==
    ASSUME NEW M, IsFiniteSet(M), NEW X, IsFiniteSet(X), NEW f, \A m \in M : f[m] \in Nat,
           NEW c, \A m \in M : c[m] \in X
    PROVE  Total([x \in X |-> Fibre(f, c, M, x)], X) = Total(f, M)
<1> DEFINE F(T) == [x \in X |-> Fibre(f, c, T, x)]
           Bad == {T \in SUBSET M : Total(F(T), X) # Total(f, T)}
<1>1. SUFFICES ASSUME Bad # {} PROVE FALSE
  OBVIOUS
<1>2. Bad \in SUBSET SUBSET M
  OBVIOUS
<1>3. PICK T \in Bad : \A U \in Bad : U \subseteq T => U = T
  <2> HIDE DEF Bad
  <2> QED BY <1>1, <1>2, Minimal
<1>4. \A U \in SUBSET M : IsFiniteSet(U) /\ Total(f, U) \in Nat
  BY FS_Subset, TotalNat
<1>5. \A U \in SUBSET M : \A x \in X : F(U)[x] \in Nat
  BY <1>4 DEF Fibre
<1>6. T # {}
  <2> SUFFICES ASSUME T = {} PROVE FALSE
    OBVIOUS
  <2>1. \A x \in X : {m \in T : c[m] = x} = {}
    OBVIOUS
  <2>2. \A x \in X : F(T)[x] = 0
    BY <2>1, TotalEmpty DEF Fibre
  <2>3. Total(F(T), X) = 0
    <3> HIDE DEF F
    <3> QED BY <2>2, TotalZero
  <2> QED BY <2>3, TotalEmpty
<1> DEFINE p == Pick(T)
           U == T \ {p}
<1>7. p \in T /\ T \in SUBSET M /\ U \in SUBSET M
  BY <1>6, Picked
<1> HIDE DEF p
<1>8. Total(F(U), X) = Total(f, U)
  BY <1>3, <1>7
<1>9. Total(f, T) = f[p] + Total(f, U)
  BY <1>4, <1>7, TotalAny
<1>10. F(T)[c[p]] = F(U)[c[p]] + f[p]
  <2> DEFINE A == {m \in T : c[m] = c[p]}
             B == {m \in U : c[m] = c[p]}
  <2>1. A \in SUBSET M /\ B \in SUBSET M /\ p \in A /\ A \ {p} = B
    BY <1>7
  <2>2. F(T)[c[p]] = Total(f, A) /\ F(U)[c[p]] = Total(f, B)
    BY <1>7 DEF Fibre
  <2> HIDE DEF A, B, F, U, Bad
  <2>3. Total(f, A) = f[p] + Total(f, A \ {p})
    BY <1>4, <2>1, TotalAny
  <2>4. Total(f, B) \in Nat /\ f[p] \in Nat
    BY <1>4, <1>7, <2>1
  <2>5. Total(f, A) = Total(f, B) + f[p]
    <3>1. Total(f, A) = f[p] + Total(f, B)
      BY <2>1, <2>3
    <3>2. \A i, j \in Nat : i + j = j + i
      OBVIOUS
    <3> QED BY <2>4, <3>1, <3>2
  <2> QED BY <2>2, <2>5
<1>11. \A x \in X \ {c[p]} : F(T)[x] = F(U)[x]
  <2> SUFFICES ASSUME NEW x \in X \ {c[p]} PROVE F(T)[x] = F(U)[x]
    OBVIOUS
  <2>1. {m \in T : c[m] = x} = {m \in U : c[m] = x}
    OBVIOUS
  <2> QED BY <2>1 DEF Fibre
<1>12. c[p] \in X /\ f[p] \in Nat /\ \A x \in X : F(U)[x] \in Nat
  BY <1>5, <1>7
<1>13. Total(F(T), X) = Total(F(U), X) + f[p]
  <2> HIDE DEF F, U
  <2> QED BY <1>10, <1>11, <1>12, TotalCredit
<1>14. Total(f, U) \in Nat
  BY <1>4, <1>7
<1>15. Total(F(T), X) = Total(f, T)
  <2> HIDE DEF F, U, Bad
  <2> QED BY <1>8, <1>9, <1>12, <1>13, <1>14
<1> QED BY <1>15

-----------------------------------------------------------------------------
(* The operators.                                                          *)

Bindings == Servers \cup {None}

LEMMA FiniteTiers ==
    /\ IsFiniteSet(Macs) /\ IsFiniteSet(Payers) /\ \A M \in SUBSET Macs : IsFiniteSet(M)
    /\ \A t : IsFiniteSet(ServersOf(t))
<1>1. IsFiniteSet(Macs) /\ IsFiniteSet(Servers) /\ IsFiniteSet(Tenants)
  BY BillingAssumption
<1>2. IsFiniteSet(Payers)
  BY <1>1, FS_AddElement DEF Payers
<1>3. \A M \in SUBSET Macs : IsFiniteSet(M)
  BY <1>1, FS_Subset
<1>4. \A t : ServersOf(t) \in SUBSET Servers
  BY DEF ServersOf
<1>5. \A t : IsFiniteSet(ServersOf(t))
  BY <1>1, <1>4, FS_Subset
<1> QED BY <1>1, <1>2, <1>3, <1>5

\* The series of a binding: one payer, and its server if it has one.
LEMMA SeriesFacts ==
    ASSUME NEW b \in Bindings
    PROVE  /\ SeriesOf(b) \subseteq Series /\ PayerOf(b) \in Payers
           /\ \A x \in Payers : x \in SeriesOf(b) <=> PayerOf(b) = x
           /\ \A s \in Servers : s \in SeriesOf(b) <=> b = s
           /\ \A t \in Tenants : t \in SeriesOf(b) <=> b # None /\ TenantOf[b] = t
           /\ Unknown \in SeriesOf(b) <=> b = None
  BY BillingAssumption DEF Bindings, SeriesOf, PayerOf, Payers, Series

LEMMA TierSets ==
    /\ Payers \subseteq Series /\ \A t : ServersOf(t) \subseteq Series
    /\ Servers \cap Payers = {} /\ Tenants \subseteq Payers /\ Unknown \in Payers /\ Unknown \notin Tenants
    /\ Series = Servers \cup Payers
  BY BillingAssumption DEF Payers, ServersOf, Series

\* Crediting n to a binding gives n to the payers, and as much to a tenant as
\* to its servers.
LEMMA CreditFacts ==
    ASSUME NEW f \in [Series -> Nat], NEW b \in Bindings, NEW n \in Nat
    PROVE  /\ Credit(f, b, n) \in [Series -> Nat]
           /\ \A x \in Series : Credit(f, b, n)[x] = IF x \in SeriesOf(b) THEN f[x] + n ELSE f[x]
           /\ Total(Credit(f, b, n), Payers) = Total(f, Payers) + n
           /\ \A t \in Tenants : Total(f, ServersOf(t)) <= f[t] =>
                  Total(Credit(f, b, n), ServersOf(t)) <= Credit(f, b, n)[t]
<1> DEFINE g == Credit(f, b, n)
<1>1. /\ g \in [Series -> Nat]
      /\ \A x \in Series : g[x] = IF x \in SeriesOf(b) THEN f[x] + n ELSE f[x]
  BY DEF Credit
<1> HIDE DEF g
<1>2. Total(g, Payers) = Total(f, Payers) + n
  <2> DEFINE p == PayerOf(b)
  <2>1. p \in Payers /\ \A x \in Payers : x \in SeriesOf(b) <=> p = x
    BY SeriesFacts
  <2>2. \A x \in Payers : x \in Series /\ f[x] \in Nat
    BY TierSets
  <2> HIDE DEF p
  <2>3. g[p] = f[p] + n /\ \A x \in Payers \ {p} : g[x] = f[x]
    BY <1>1, <2>1, <2>2
  <2> QED BY <2>1, <2>2, <2>3, FiniteTiers, TotalCredit
<1>3. ASSUME NEW t \in Tenants, Total(f, ServersOf(t)) <= f[t]
      PROVE  Total(g, ServersOf(t)) <= g[t]
  <2> DEFINE S == ServersOf(t)
  <2>1. IsFiniteSet(S) /\ \A x \in S : x \in Series /\ x \in Servers /\ f[x] \in Nat /\ TenantOf[x] = t
    BY FiniteTiers, TierSets DEF ServersOf
  <2>2. Total(f, S) \in Nat /\ f[t] \in Nat /\ t \in Series
    BY <2>1, TotalNat, TierSets
  <2>3. CASE b # None /\ TenantOf[b] = t
    <3>1. b \in S /\ g[b] = f[b] + n /\ (\A x \in S \ {b} : g[x] = f[x]) /\ g[t] = f[t] + n
      BY <1>1, <2>1, <2>2, <2>3, SeriesFacts DEF ServersOf, Bindings
    <3> HIDE DEF S
    <3>2. Total(g, S) = Total(f, S) + n
      BY <2>1, <3>1, TotalCredit
    <3> QED BY <1>3, <2>2, <3>1, <3>2 DEF S
  <2>4. CASE ~(b # None /\ TenantOf[b] = t)
    <3>1. (\A x \in S : g[x] = f[x]) /\ g[t] = f[t]
      <4>1. \A x \in S : x \notin SeriesOf(b)
        BY <2>1, <2>4, SeriesFacts, BillingAssumption
      <4>2. t \notin SeriesOf(b)
        BY <2>4, SeriesFacts
      <4> QED BY <1>1, <2>1, <2>2, <4>1, <4>2
    <3> HIDE DEF S
    <3>2. Total(g, S) = Total(f, S)
      BY <2>1, <3>1, TotalEq
    <3> QED BY <1>3, <2>2, <3>1, <3>2 DEF S
  <2> QED BY <2>3, <2>4
<1> QED BY <1>1, <1>2, <1>3 DEF g

\* What a settle of M under the bindings pick adds to a series.
Gain(r, M, pick, x) == Total(r, {m \in M : pick[m] # None /\ x \in SeriesOf(pick[m])})

LEMMA GainFacts ==
    ASSUME NEW r \in [Macs -> Nat], NEW M \in SUBSET Macs, NEW pick \in [Macs -> Bindings]
    PROVE  LET A == {m \in M : pick[m] # None}
           IN  /\ \A x \in Series : Gain(r, M, pick, x) \in Nat
               /\ Total([x \in Payers |-> Gain(r, M, pick, x)], Payers) = Total(r, A)
               /\ \A t \in Tenants : Total([s \in ServersOf(t) |-> Gain(r, M, pick, s)], ServersOf(t))
                                       = Gain(r, M, pick, t)
<1> DEFINE A == {m \in M : pick[m] # None}
           B(x) == {m \in M : pick[m] # None /\ x \in SeriesOf(pick[m])}
<1>1. \A S \in SUBSET Macs : IsFiniteSet(S) /\ (\A m \in S : r[m] \in Nat) /\ Total(r, S) \in Nat
  BY FiniteTiers, TotalNat
<1>2. \A x \in Series : Gain(r, M, pick, x) \in Nat
  BY <1>1 DEF Gain
<1>3. Total([x \in Payers |-> Gain(r, M, pick, x)], Payers) = Total(r, A)
  <2> DEFINE c == [m \in A |-> PayerOf(pick[m])]
  <2>1. \A m \in A : c[m] \in Payers
    BY SeriesFacts
  <2>2. ASSUME NEW x \in Payers PROVE Gain(r, M, pick, x) = Fibre(r, c, A, x)
    <3>1. B(x) = {m \in A : c[m] = x}
      BY SeriesFacts
    <3> QED BY <3>1 DEF Gain, Fibre
  <2>3. A \in SUBSET Macs
    OBVIOUS
  <2> HIDE DEF A, c
  <2>4. Total([x \in Payers |-> Fibre(r, c, A, x)], Payers) = Total(r, A)
    BY <1>1, <2>1, <2>3, FiniteTiers, TotalFibres
  <2>5. [x \in Payers |-> Fibre(r, c, A, x)] = [x \in Payers |-> Gain(r, M, pick, x)]
    BY <2>2
  <2> QED BY <2>4, <2>5
<1>4. ASSUME NEW t \in Tenants
      PROVE  Total([s \in ServersOf(t) |-> Gain(r, M, pick, s)], ServersOf(t)) = Gain(r, M, pick, t)
  <2> DEFINE C == B(t)
             X == ServersOf(t)
  <2>1. C \in SUBSET Macs /\ \A m \in C : pick[m] \in X
    BY SeriesFacts DEF ServersOf, Bindings
  <2>2. ASSUME NEW s \in X PROVE Gain(r, M, pick, s) = Fibre(r, pick, C, s)
    <3>1. s \in Servers /\ TenantOf[s] = t
      BY DEF ServersOf
    <3>2. B(s) = {m \in C : pick[m] = s}
      BY <3>1, SeriesFacts, BillingAssumption
    <3> QED BY <3>2 DEF Gain, Fibre
  <2>3. Gain(r, M, pick, t) = Total(r, C)
    BY DEF Gain
  <2> HIDE DEF C, X
  <2>4. IsFiniteSet(X)
    BY FiniteTiers DEF X
  <2>5. Total([s \in X |-> Fibre(r, pick, C, s)], X) = Total(r, C)
    BY <1>1, <2>1, <2>4, TotalFibres
  <2>6. [s \in X |-> Fibre(r, pick, C, s)] = [s \in X |-> Gain(r, M, pick, s)]
    BY <2>2
  <2> QED BY <2>3, <2>5, <2>6 DEF X
<1> QED BY <1>2, <1>3, <1>4

-----------------------------------------------------------------------------
(* What steps keep.                                                        *)

LEMMA LiveIs ==
    ASSUME NEW x
    PROVE  Live(x) = Total(rows, {m \in Macs : x \in SeriesOf(meta[m])})
                       + (IF x = Unknown THEN unknown ELSE 0)
  BY DEF Live, Total

LEMMA LiveNext ==
    \A x : Live(x)' = Total(rows', {m \in Macs : x \in SeriesOf(meta'[m])})
                        + (IF x = Unknown THEN unknown' ELSE 0)
<1> DEFINE P == \A x : Live(x) = Total(rows, {m \in Macs : x \in SeriesOf(meta[m])})
                                    + (IF x = Unknown THEN unknown ELSE 0)
<1>1. P
  BY LiveIs
<1> HIDE DEF P
<1>2. P'
  BY <1>1, PTL
<1> QED BY <1>2 DEF P

LEMMA SoundSeries == ASSUME TypeOK PROVE Sound \subseteq Series
  BY DEF TypeOK, Sound, Series

LEMMA KeepOwners ==
    ASSUME OwnersExact, UNCHANGED <<meta, rows, unknown, settled, due>>, Sound' \subseteq Sound
    PROVE  OwnersExact'
<1>1. ASSUME NEW x PROVE Live(x)' = Live(x)
  BY LiveIs, LiveNext
<1> QED BY <1>1 DEF OwnersExact

LEMMA KeepSum ==
    ASSUME SumInv, UNCHANGED <<rows, unknown, settled, released, bytes>> PROVE SumInv'
  BY DEF SumInv

LEMMA KeepWithin ==
    ASSUME WithinInv, UNCHANGED <<settled, col, shown>>, keystone' \subseteq keystone PROVE WithinInv'
  BY DEF WithinInv, Within

LEMMA KeepCollect ==
    ASSUME CollectInv, UNCHANGED <<meta, col, shown, due, bytes>>, Sound' \subseteq Sound
    PROVE  CollectInv'
  BY DEF CollectInv, Expected, ExpectedTotal

\* A settle under bindings that are the present ones, or have slipped.
LEMMA SettleKeeps ==
    ASSUME TypeOK, OwnersExact, SumInv, WithinInv,
           NEW M \in SUBSET Macs, NEW pick \in [Macs -> Bindings], Settle(M, pick),
           \A m \in M : pick[m] # None => Slipped(pick[m], meta[m]),
           UNCHANGED <<meta, due, bytes, slips, nova, keystone, col, shown>>
    PROVE  /\ rows' \in [Macs -> Nat] /\ settled' \in [Series -> Nat]
           /\ OwnersExact' /\ SumInv' /\ WithinInv'
<1> DEFINE A == {m \in M : pick[m] # None}
           G(x) == Gain(rows, M, pick, x)
<1>0. rows \in [Macs -> Nat] /\ settled \in [Series -> Nat] /\ unknown \in Nat /\ released \in Nat /\ bytes \in Nat
  BY DEF TypeOK
<1>1. /\ \A x \in Series : settled'[x] = settled[x] + G(x) /\ G(x) \in Nat
      /\ settled' \in [Series -> Nat]
  <2>1. settled' = [x \in Series |-> settled[x] + G(x)]
    BY DEF Settle, Gain, Total
  <2>2. \A x \in Series : G(x) \in Nat
    BY <1>0, GainFacts
  <2> HIDE DEF G
  <2> QED BY <1>0, <2>1, <2>2
<1>2. /\ rows' = [m \in Macs |-> IF m \in A THEN 0 ELSE rows[m]]
      /\ UNCHANGED <<unknown, released>>
  BY DEF Settle
<1>3. rows' \in [Macs -> Nat] /\ A \in SUBSET Macs
  BY <1>0, <1>2
<1>4. \A S \in SUBSET Macs : /\ IsFiniteSet(S) /\ Total(rows, S) \in Nat /\ Total(rows', S) \in Nat
                             /\ \A m \in S : rows[m] \in Nat /\ rows'[m] \in Nat
  BY <1>0, <1>3, FiniteTiers, TotalNat
<1>5. ASSUME NEW L \in SUBSET Macs
      PROVE  Total(rows', L) + Total(rows, L \cap A) = Total(rows, L)
  <2>1. Total(rows, L) = Total(rows, L \cap A) + Total(rows, L \ A)
    <3>1. L \ (L \cap A) = L \ A /\ L \cap A \in SUBSET L
      OBVIOUS
    <3> HIDE DEF A
    <3> QED BY <1>4, <3>1, TotalSplit
  <2>2. Total(rows', L) = Total(rows', L \cap A) + Total(rows', L \ A)
    <3>1. L \ (L \cap A) = L \ A /\ L \cap A \in SUBSET L
      OBVIOUS
    <3> HIDE DEF A
    <3> QED BY <1>4, <3>1, TotalSplit
  <2>3. /\ \A m \in L \cap A : rows'[m] = 0
        /\ \A m \in L \ A : rows'[m] = rows[m]
    BY <1>2
  <2>4. L \cap A \in SUBSET Macs /\ L \ A \in SUBSET Macs
    OBVIOUS
  <2> HIDE DEF A
  <2>5. Total(rows', L \cap A) = 0
    BY <1>4, <2>3, <2>4, TotalZero
  <2>6. Total(rows', L \ A) = Total(rows, L \ A)
    BY <1>4, <2>3, <2>4, TotalEq
  <2>7. Total(rows, L \cap A) \in Nat /\ Total(rows, L \ A) \in Nat
    BY <1>4, <2>4
  <2> QED BY <2>1, <2>2, <2>5, <2>6, <2>7
<1>6. OwnersExact'
  <2> SUFFICES ASSUME NEW x \in Sound PROVE (Live(x) + settled[x] = due[x])'
    BY DEF OwnersExact, Sound
  <2> DEFINE L == {m \in Macs : x \in SeriesOf(meta[m])}
  <2>1. x \in Series /\ x \notin slips /\ Live(x) + settled[x] = due[x]
    BY SoundSeries DEF Sound, OwnersExact
  <2>2. G(x) = Total(rows, L \cap A)
    <3>1. {m \in M : pick[m] # None /\ x \in SeriesOf(pick[m])} = L \cap A
      BY <2>1 DEF Slipped
    <3> QED BY <3>1 DEF Gain
  <2>3. Live(x)' = Total(rows', L) + (IF x = Unknown THEN unknown ELSE 0)
    BY <1>2, LiveNext
  <2>4. Live(x) = Total(rows, L) + (IF x = Unknown THEN unknown ELSE 0)
    BY LiveIs
  <2>5. Total(rows', L) + Total(rows, L \cap A) = Total(rows, L)
    BY <1>5
  <2>6. Total(rows', L) \in Nat /\ Total(rows, L \cap A) \in Nat /\ settled[x] \in Nat
    BY <1>0, <1>4, <2>1
  <2>7. settled'[x] = settled[x] + G(x)
    BY <1>1, <2>1
  <2> HIDE DEF L, A, G
  <2> QED BY <1>0, <2>1, <2>2, <2>3, <2>4, <2>5, <2>6, <2>7
<1>7. SumInv'
  <2>1. Total(rows', Macs) + Total(rows, A) = Total(rows, Macs)
    <3>1. Macs \cap A = A
      OBVIOUS
    <3> HIDE DEF A
    <3> QED BY <1>5, <3>1
  <2> DEFINE g == [x \in Payers |-> G(x)]
  <2>2. Total(g, Payers) = Total(rows, A)
    BY <1>0, GainFacts
  <2>3. Total(settled', Payers) = Total(settled, Payers) + Total(g, Payers)
    <3>1. \A x \in Payers : settled[x] \in Nat /\ g[x] \in Nat /\ settled'[x] = settled[x] + g[x]
      BY <1>0, <1>1, TierSets
    <3> HIDE DEF g
    <3> QED BY <3>1, FiniteTiers, TotalAdd
  <2>4. Total(settled, Payers) \in Nat
    BY <1>0, FiniteTiers, TierSets, TotalNat
  <2>5. Total(rows', Macs) \in Nat /\ Total(rows, A) \in Nat
    BY <1>3, <1>4
  <2> HIDE DEF A, g
  <2> QED BY <1>0, <1>2, <2>1, <2>2, <2>3, <2>4, <2>5 DEF SumInv
<1>8. WithinInv'
  <2> SUFFICES ASSUME NEW t \in keystone PROVE Total(settled', ServersOf(t)) <= settled'[t]
    BY DEF WithinInv, Within
  <2>1. t \in Tenants /\ t \in Series /\ Total(settled, ServersOf(t)) <= settled[t]
    BY TierSets DEF TypeOK, WithinInv, Within
  <2> DEFINE S == ServersOf(t)
             g == [s \in S |-> G(s)]
  <2>2. Total(g, S) = G(t)
    BY <1>0, <2>1, GainFacts
  <2>3. \A s \in S : settled[s] \in Nat /\ g[s] \in Nat /\ settled'[s] = settled[s] + g[s]
    BY <1>0, <1>1, TierSets
  <2>4. IsFiniteSet(S)
    BY FiniteTiers
  <2>5. settled'[t] = settled[t] + G(t) /\ settled[t] \in Nat /\ G(t) \in Nat
    BY <1>0, <1>1, <2>1
  <2>6. Total(settled, S) <= settled[t]
    BY <2>1
  <2> HIDE DEF S, g, G
  <2>7. Total(settled', S) = Total(settled, S) + Total(g, S) /\ Total(settled, S) \in Nat
    BY <2>3, <2>4, TotalAdd, TotalNat
  <2>8. Total(settled', S) <= settled'[t]
    BY <2>2, <2>5, <2>6, <2>7
  <2> QED BY <2>8 DEF S
<1> QED BY <1>1, <1>3, <1>6, <1>7, <1>8

\* Sums over MACs that differ only where nothing is counted.
LEMMA SameWhereCounted ==
    ASSUME NEW r \in [Macs -> Nat], NEW A \in SUBSET Macs, NEW B \in SUBSET Macs,
           \A m \in Macs : r[m] # 0 => (m \in A <=> m \in B)
    PROVE  Total(r, A) = Total(r, B)
<1> DEFINE f == [m \in Macs |-> IF m \in A THEN r[m] ELSE 0]
           g == [m \in Macs |-> IF m \in B THEN r[m] ELSE 0]
<1>1. Total(r, A) = Total(f, Macs) /\ Total(r, B) = Total(g, Macs)
  BY FiniteTiers, TotalFilter
<1>2. f = g
  OBVIOUS
<1> QED BY <1>1, <1>2

\* Bindings change, and where a row or a copy is not empty both series slip.
LEMMA RebindKeeps ==
    ASSUME TypeOK, OwnersExact, CollectInv, meta' \in [Macs -> Bindings], slips \subseteq slips',
           \A m \in Macs : /\ meta'[m] # meta[m]
                           /\ rows[m] # 0 \/ (m \in col.todo /\ col.rows[m] # 0)
                           => SeriesOf(meta[m]) \cup SeriesOf(meta'[m]) \subseteq slips',
           UNCHANGED <<rows, unknown, settled, due, bytes, nova, keystone, col, shown>>
    PROVE  OwnersExact' /\ CollectInv'
<1>0. rows \in [Macs -> Nat] /\ col.rows \in [Macs -> Nat] /\ col.todo \in SUBSET Macs
  BY DEF TypeOK
<1>1. Sound' \subseteq Sound
  BY DEF Sound
<1>2. OwnersExact'
  <2> SUFFICES ASSUME NEW x \in Sound' PROVE Live(x)' = Live(x)
    BY <1>1 DEF OwnersExact
  <2> DEFINE A == {m \in Macs : x \in SeriesOf(meta[m])}
             B == {m \in Macs : x \in SeriesOf(meta'[m])}
  <2>1. \A m \in Macs : rows[m] # 0 => (m \in A <=> m \in B)
    BY DEF Sound
  <2>2. A \in SUBSET Macs /\ B \in SUBSET Macs
    OBVIOUS
  <2>3. Total(rows, A) = Total(rows, B)
    <3> HIDE DEF A, B
    <3> QED BY <1>0, <2>1, <2>2, SameWhereCounted
  <2>4. Live(x) = Total(rows, A) + (IF x = Unknown THEN unknown ELSE 0)
    BY LiveIs
  <2>5. Live(x)' = Total(rows, B) + (IF x = Unknown THEN unknown ELSE 0)
    BY LiveNext
  <2> QED BY <2>3, <2>4, <2>5
<1>3. ASSUME NEW x \in Sound' PROVE Expected(x)' = Expected(x)
  <2> DEFINE A == {m \in col.todo : x \in SeriesOf(meta[m])}
             B == {m \in col.todo : x \in SeriesOf(meta'[m])}
  <2>1. \A m \in Macs : col.rows[m] # 0 => (m \in A <=> m \in B)
    BY DEF Sound
  <2>2. A \in SUBSET Macs /\ B \in SUBSET Macs
    BY <1>0
  <2>3. Total(col.rows, A) = Total(col.rows, B)
    <3> HIDE DEF A, B
    <3> QED BY <1>0, <2>1, <2>2, SameWhereCounted
  <2>4. Expected(x) = col.series[x] + Total(col.rows, A) /\ Expected(x)' = col.series[x] + Total(col.rows, B)
    BY DEF Expected
  <2> QED BY <2>3, <2>4
<1>4. CollectInv'
  BY <1>1, <1>3 DEF CollectInv, ExpectedTotal
<1> QED BY <1>2, <1>4

-----------------------------------------------------------------------------
(* The first state.                                                        *)

LEMMA InitInv == ASSUME Init PROVE IInv
<1> DEFINE z == [x \in Series |-> 0]
           y == [m \in Macs |-> 0]
<1>0. z \in [Series -> Nat] /\ y \in [Macs -> Nat]
  OBVIOUS
<1>z. /\ \A S \in SUBSET Macs : Total(y, S) = 0
      /\ Total(z, Payers) = 0 /\ \A t : Total(z, ServersOf(t)) = 0
  BY FiniteTiers, TierSets, TotalZero
<1>a. /\ meta = Boot /\ ghost = {} /\ rows = y /\ unknown = 0 /\ settled = z /\ released = 0
      /\ col.busy = FALSE /\ col.todo = {} /\ col.series = z
      /\ shown.series = z /\ shown.total = 0 /\ bytes = 0 /\ due = z
  BY DEF Init, NoCopy
<1>1. TypeOK
  <2>1. Boot \in [Macs -> Servers \cup {None}]
    BY BillingAssumption
  <2>2. col \in [busy : BOOLEAN, todo : SUBSET Macs, rows : [Macs -> Nat],
                 series : [Series -> Nat], released : Nat]
    BY DEF Init, NoCopy
  <2>3. shown \in [scrapes : Nat, series : [Series -> Nat], total : Nat]
    BY DEF Init
  <2>4. lists \in [servers : SUBSET Servers, projects : SUBSET Tenants]
    BY DEF Init
  <2> QED BY <1>0, <1>a, <2>1, <2>2, <2>3, <2>4 DEF Init, TypeOK
<1>2. PassInv
  BY DEF Init, PassInv
<1>3. WindowInv
  BY DEF Init, WindowInv, Drained
<1> HIDE DEF z, y
<1>4. OwnersExact
  <2> SUFFICES ASSUME NEW x \in Sound PROVE Live(x) + settled[x] = due[x]
    BY DEF OwnersExact
  <2>1. x \in Series
    BY <1>1, SoundSeries
  <2>2. Live(x) = 0
    <3> DEFINE L == {m \in Macs : x \in SeriesOf(meta[m])}
    <3>1. Live(x) = Total(rows, L) + (IF x = Unknown THEN unknown ELSE 0) /\ L \in SUBSET Macs
      BY LiveIs
    <3> HIDE DEF L
    <3>2. Total(rows, L) = 0
      BY <1>a, <1>z, <3>1
    <3> QED BY <1>a, <3>1, <3>2
  <2> QED BY <1>a, <2>1, <2>2 DEF z
<1>5. SumInv
  BY <1>a, <1>z DEF SumInv
<1>6. WithinInv
  <2>1. \A t \in keystone : z[t] = 0
    BY <1>1, TierSets DEF TypeOK, z
  <2> QED BY <1>a, <1>z, <2>1 DEF WithinInv, Within
<1>7. CollectInv
  <2>1. \A x \in Sound : z[x] = 0
    BY <1>1, SoundSeries DEF z
  <2> QED BY <1>a, <2>1 DEF CollectInv
<1> QED BY <1>1, <1>2, <1>3, <1>4, <1>5, <1>6, <1>7 DEF IInv

-----------------------------------------------------------------------------
(* The scraper.                                                            *)

LEMMA LookupStep == ASSUME IInv, NEW m \in Macs, Lookup(m) PROVE IInv'
<1> USE DEF IInv
<1>a. /\ UNCHANGED <<meta, ghost, rows, unknown, settled, released, nova, keystone,
                     rpc, todo, at, old, desired, lists, passes, gpc, swept, metas,
                     col, shown, bytes, due, late, slips>>
      /\ applying' = m
  BY DEF Lookup, stateVars, cloudVars, reconVars, sweepVars, history
<1>1. TypeOK'
  BY <1>a DEF TypeOK
<1>2. PassInv' /\ WindowInv'
  BY <1>a DEF PassInv, WindowInv, Drained, Slipped
<1>3. Sound' = Sound
  BY <1>a DEF Sound
<1> QED BY <1>a, <1>1, <1>2, <1>3, KeepOwners, KeepSum, KeepWithin, KeepCollect

\* More is due, to every series of a binding.
LEMMA DueGrows ==
    ASSUME CollectInv, TypeOK, due' \in [Series -> Nat], bytes' \in Nat, bytes <= bytes',
           \A x \in Series : due[x] <= due'[x],
           UNCHANGED <<meta, col, shown, nova, keystone, slips>>
    PROVE  CollectInv'
<1>1. Sound' = Sound /\ Sound \subseteq Series
  BY SoundSeries DEF Sound
<1>2. \A x \in Sound : Expected(x)' = Expected(x) /\ Expected(x) \in Nat
  <2> SUFFICES ASSUME NEW x \in Sound PROVE Expected(x)' = Expected(x) /\ Expected(x) \in Nat
    OBVIOUS
  <2> DEFINE A == {m \in col.todo : x \in SeriesOf(meta[m])}
  <2>1. Expected(x) = col.series[x] + Total(col.rows, A) /\ Expected(x)' = Expected(x)
    BY DEF Expected
  <2>2. col.rows \in [Macs -> Nat] /\ A \in SUBSET Macs /\ col.series[x] \in Nat
    BY <1>1 DEF TypeOK
  <2> HIDE DEF A
  <2>3. Total(col.rows, A) \in Nat
    BY <2>2, FiniteTiers, TotalNat
  <2> QED BY <2>1, <2>2, <2>3
<1>3. ExpectedTotal' = ExpectedTotal /\ ExpectedTotal \in Nat
  <2>1. /\ col.rows \in [Macs -> Nat] /\ col.todo \in SUBSET Macs /\ col.series \in [Series -> Nat]
        /\ col.released \in Nat
    BY DEF TypeOK
  <2>2. Total(col.rows, col.todo) \in Nat /\ Total(col.series, Payers) \in Nat
    BY <2>1, FiniteTiers, TierSets, TotalNat
  <2> QED BY <2>1, <2>2 DEF ExpectedTotal
<1>4. \A x \in Sound : due[x] \in Nat /\ due'[x] \in Nat /\ due[x] <= due'[x] /\ shown.series[x] \in Nat
  BY <1>1 DEF TypeOK
<1>5. bytes \in Nat /\ shown.total \in Nat
  BY DEF TypeOK
<1>6. \A i, j, k \in Nat : i <= j /\ j <= k => i <= k
  OBVIOUS
<1> QED BY <1>1, <1>2, <1>3, <1>4, <1>5, <1>6 DEF CollectInv

LEMMA ApplyStep == ASSUME IInv, ApplyDelta PROVE IInv'
<1> USE DEF IInv
<1>a. /\ UNCHANGED <<meta, ghost, unknown, settled, released, nova, keystone,
                     rpc, todo, at, old, desired, lists, passes, gpc, swept, metas, col, shown, slips>>
      /\ applying \in Macs /\ applying' = None /\ bytes' = bytes + 1
      /\ rows' = [rows EXCEPT ![applying] = @ + 1] /\ due' = Credit(due, meta[applying], 1)
      /\ late' = IF Rebinding(applying) THEN late \cup {applying} ELSE late
  BY DEF ApplyDelta, cloudVars, reconVars, sweepVars, TypeOK
<1>b. /\ rows \in [Macs -> Nat] /\ due \in [Series -> Nat] /\ meta[applying] \in Bindings
      /\ bytes \in Nat /\ unknown \in Nat /\ settled \in [Series -> Nat]
  BY <1>a DEF TypeOK, Bindings
<1>c. /\ due' \in [Series -> Nat]
      /\ \A x \in Series : due'[x] = IF x \in SeriesOf(meta[applying]) THEN due[x] + 1 ELSE due[x]
  <2> DEFINE b == meta[applying]
  <2>1. due' = Credit(due, b, 1) /\ b \in Bindings
    BY <1>a, <1>b
  <2> HIDE DEF b
  <2>2. 1 \in Nat
    OBVIOUS
  <2>3. /\ Credit(due, b, 1) \in [Series -> Nat]
        /\ \A x \in Series : Credit(due, b, 1)[x] = IF x \in SeriesOf(b) THEN due[x] + 1 ELSE due[x]
    BY <1>b, <2>1, <2>2, CreditFacts
  <2> QED BY <2>1, <2>3 DEF b
<1>d. /\ rows' \in [Macs -> Nat] /\ rows'[applying] = rows[applying] + 1
      /\ \A m \in Macs \ {applying} : rows'[m] = rows[m]
  BY <1>a, <1>b
<1>1. TypeOK'
  <2>1. late' \subseteq Macs /\ bytes' \in Nat
    BY <1>a, <1>b DEF TypeOK
  <2> QED BY <1>a, <1>c, <1>d, <2>1 DEF TypeOK
<1>2. PassInv'
  BY <1>a DEF PassInv
<1>3. WindowInv'
  <2>1. \A m \in Macs : Drained(m)' \/ ~Rebinding(m) \/ m # applying
    BY <1>a DEF Drained
  <2>2. \A m \in Macs : m # applying /\ Drained(m) => Drained(m)'
    BY <1>a, <1>d DEF Drained
  <2>3. \A m \in Macs : Rebinding(m) /\ Drained(m) => Drained(m)'
    BY <2>1, <2>2
  <2>4. rpc = "insert" => at \in Macs
    BY DEF PassInv, TypeOK
  <2>5. swept \subseteq Macs
    BY DEF TypeOK
  <2> QED BY <1>a, <2>3, <2>4, <2>5 DEF WindowInv, Slipped, Rebinding
<1>4. OwnersExact'
  <2> SUFFICES ASSUME NEW x \in Sound PROVE (Live(x) + settled[x] = due[x])'
    BY <1>a DEF OwnersExact, Sound
  <2>1. x \in Series /\ Live(x) + settled[x] = due[x]
    BY SoundSeries DEF OwnersExact
  <2> DEFINE L == {m \in Macs : x \in SeriesOf(meta[m])}
             u == IF x = Unknown THEN unknown ELSE 0
  <2>2. Live(x) = Total(rows, L) + u /\ Live(x)' = Total(rows', L) + u
    BY <1>a, LiveIs, LiveNext
  <2>3. IsFiniteSet(L) /\ (\A m \in L : rows[m] \in Nat) /\ L \in SUBSET Macs
    BY <1>b, FiniteTiers
  <2>4. applying \in L <=> x \in SeriesOf(meta[applying])
    BY <1>a
  <2>5. u \in Nat
    BY <1>b
  <2> HIDE DEF L, u
  <2>6. Total(rows, L) \in Nat
    BY <2>3, TotalNat
  <2>7. CASE applying \in L
    <3>1. Total(rows', L) = Total(rows, L) + 1
      <4> DEFINE one == 1
      <4>1. one \in Nat /\ rows'[applying] = rows[applying] + one
        BY <1>d
      <4>2. \A m \in L \ {applying} : rows'[m] = rows[m]
        BY <1>d, <2>3
      <4> HIDE DEF one
      <4>3. Total(rows', L) = Total(rows, L) + one
        BY <2>3, <2>7, <4>1, <4>2, TotalCredit
      <4> QED BY <4>3 DEF one
    <3> QED BY <1>a, <1>b, <1>c, <2>1, <2>2, <2>4, <2>5, <2>6, <2>7, <3>1
  <2>8. CASE applying \notin L
    <3>1. Total(rows', L) = Total(rows, L)
      BY <1>d, <2>3, <2>8, TotalEq
    <3> QED BY <1>a, <1>b, <1>c, <2>1, <2>2, <2>4, <2>8, <3>1
  <2> QED BY <2>7, <2>8
<1>5. SumInv'
  <2>1. Total(rows', Macs) = Total(rows, Macs) + 1 /\ Total(rows, Macs) \in Nat
    <3>1. \A m \in Macs : rows[m] \in Nat
      BY <1>b
    <3>2. applying \in Macs /\ IsFiniteSet(Macs)
      BY <1>a, FiniteTiers
    <3> DEFINE one == 1
    <3>3. one \in Nat /\ rows'[applying] = rows[applying] + one
      BY <1>d
    <3>4. \A m \in Macs \ {applying} : rows'[m] = rows[m]
      BY <1>d
    <3> HIDE DEF one
    <3>5. Total(rows', Macs) = Total(rows, Macs) + one
      BY <3>1, <3>2, <3>3, <3>4, TotalCredit
    <3> QED BY <3>1, <3>2, <3>5, TotalNat DEF one
  <2>2. Total(settled, Payers) \in Nat /\ released \in Nat
    BY <1>b, FiniteTiers, TierSets, TotalNat DEF TypeOK
  <2> QED BY <1>a, <1>b, <2>1, <2>2 DEF SumInv
<1>6. WithinInv'
  BY <1>a, KeepWithin
<1>7. CollectInv'
  <2>1. bytes' \in Nat /\ bytes <= bytes' /\ \A x \in Series : due[x] <= due'[x]
    BY <1>a, <1>b, <1>c
  <2> QED BY <1>a, <1>c, <2>1, DueGrows
<1> QED BY <1>1, <1>2, <1>3, <1>4, <1>5, <1>6, <1>7

LEMMA FoldStep == ASSUME IInv, FoldToUnknown PROVE IInv'
<1> USE DEF IInv
<1>a. /\ UNCHANGED <<meta, ghost, rows, settled, released, applying, nova, keystone,
                     rpc, todo, at, old, desired, lists, passes, gpc, swept, metas, col, shown, late, slips>>
      /\ unknown' = unknown + 1 /\ bytes' = bytes + 1 /\ due' = Credit(due, None, 1)
  BY DEF FoldToUnknown, cloudVars, reconVars, sweepVars
<1>b. /\ rows \in [Macs -> Nat] /\ due \in [Series -> Nat] /\ None \in Bindings
      /\ bytes \in Nat /\ unknown \in Nat /\ settled \in [Series -> Nat] /\ released \in Nat
  BY <1>a DEF TypeOK, Bindings
<1>c. /\ due' \in [Series -> Nat]
      /\ \A x \in Series : due'[x] = IF x = Unknown THEN due[x] + 1 ELSE due[x]
  BY <1>a, <1>b, CreditFacts DEF SeriesOf
<1>1. TypeOK'
  <2>1. unknown' \in Nat /\ bytes' \in Nat
    BY <1>a, <1>b
  <2> QED BY <1>a, <1>c, <2>1 DEF TypeOK
<1>2. PassInv' /\ WindowInv'
  BY <1>a DEF PassInv, WindowInv, Drained, Slipped
<1>4. OwnersExact'
  <2> SUFFICES ASSUME NEW x \in Sound PROVE (Live(x) + settled[x] = due[x])'
    BY <1>a DEF OwnersExact, Sound
  <2>1. x \in Series /\ Live(x) + settled[x] = due[x]
    BY SoundSeries DEF OwnersExact
  <2> DEFINE L == {m \in Macs : x \in SeriesOf(meta[m])}
  <2>2. /\ Live(x) = Total(rows, L) + (IF x = Unknown THEN unknown ELSE 0)
        /\ Live(x)' = Total(rows, L) + (IF x = Unknown THEN unknown + 1 ELSE 0)
    BY <1>a, LiveIs, LiveNext
  <2>3. IsFiniteSet(L) /\ (\A m \in L : rows[m] \in Nat)
    BY <1>b, FiniteTiers
  <2> HIDE DEF L
  <2>4. Total(rows, L) \in Nat
    BY <2>3, TotalNat
  <2> QED BY <1>a, <1>b, <1>c, <2>1, <2>2, <2>4
<1>5. SumInv'
  <2>1. Total(rows, Macs) \in Nat /\ Total(settled, Payers) \in Nat
    BY <1>b, FiniteTiers, TierSets, TotalNat
  <2> QED BY <1>a, <1>b, <2>1 DEF SumInv
<1>6. WithinInv'
  BY <1>a, KeepWithin
<1>7. CollectInv'
  <2>1. bytes' \in Nat /\ bytes <= bytes' /\ \A x \in Series : due[x] <= due'[x]
    BY <1>a, <1>b, <1>c
  <2> QED BY <1>a, <1>c, <2>1, DueGrows
<1> QED BY <1>1, <1>2, <1>4, <1>5, <1>6, <1>7

-----------------------------------------------------------------------------
(* The reconciler.                                                         *)

LEMMA SyncStep ==
    ASSUME IInv, NEW ports \in [Macs -> nova \cup {None}], NEW servers, Sync(ports, servers)
    PROVE  IInv'
<1> USE DEF IInv
<1>a. /\ UNCHANGED <<meta, ghost, rows, unknown, settled, released, applying, nova, keystone,
                     at, old, gpc, swept, metas, col, shown, bytes, due, late, slips>>
      /\ rpc = "idle" /\ rpc' = "learn" /\ passes' = passes + 1
      /\ desired' = ports /\ todo' = {m \in Macs : ports[m] # None}
      /\ servers \in {nova, {}} /\ lists' = [servers |-> servers, projects |-> keystone]
  BY DEF Sync, stateVars, cloudVars, sweepVars, history
<1>1. TypeOK'
  <2>1. nova \subseteq Servers /\ keystone \subseteq Tenants /\ passes \in Nat
    BY DEF TypeOK
  <2>2. ports \in [Macs -> Servers \cup {None}] /\ passes' \in Nat
    BY <1>a, <2>1
  <2>3. lists' \in [servers : SUBSET Servers, projects : SUBSET Tenants]
    BY <1>a, <2>1
  <2> QED BY <1>a, <2>2, <2>3 DEF TypeOK
<1>2. PassInv'
  BY <1>a DEF PassInv
<1>3. WindowInv'
  BY <1>a DEF WindowInv, Drained, Slipped
<1>4. Sound' = Sound
  BY <1>a DEF Sound
<1> QED BY <1>a, <1>1, <1>2, <1>3, <1>4, KeepOwners, KeepSum, KeepWithin, KeepCollect

LEMMA LearnStep == ASSUME IInv, NEW m \in todo, Learn(m) PROVE IInv'
<1> USE DEF IInv
<1>a. /\ UNCHANGED <<meta, ghost, rows, unknown, settled, released, applying, nova, keystone,
                     desired, lists, passes, gpc, swept, metas, col, shown, bytes, due, late, slips>>
      /\ rpc = "learn" /\ todo' = todo \ {m} /\ m \in Macs /\ desired[m] # None
      /\ \/ UNCHANGED <<rpc, at, old>>
         \/ /\ at' = m /\ old' = meta[m]
            /\ rpc' = IF meta[m] \in {None, desired[m]} THEN "insert" ELSE "settle"
  BY DEF Learn, stateVars, cloudVars, sweepVars, history, TypeOK, PassInv
<1>b. m # None /\ meta[m] \in Servers \cup {None}
  BY <1>a, BillingAssumption DEF TypeOK
<1>1. TypeOK'
  BY <1>a, <1>b DEF TypeOK
<1>2. PassInv'
  BY <1>a, <1>b DEF PassInv
<1>3. WindowInv'
  BY <1>a, <1>b DEF WindowInv, Drained, Slipped
<1>4. Sound' = Sound
  BY <1>a DEF Sound
<1> QED BY <1>a, <1>1, <1>2, <1>3, <1>4, KeepOwners, KeepSum, KeepWithin, KeepCollect

\* A settle drains the rows it takes, and no other row fills.
LEMMA SettleDrains ==
    ASSUME NEW M, NEW pick, TypeOK, Settle(M, pick)
    PROVE  /\ late' \subseteq Macs /\ unknown' = unknown /\ released' = released
           /\ \A m \in Macs : Drained(m) => Drained(m)'
           /\ \A m \in Macs : m \in M /\ pick[m] # None => Drained(m)'
  BY DEF Settle, Drained, TypeOK

LEMMA SettleChangeStep == ASSUME IInv, SettleAttributionChange PROVE IInv'
<1> USE DEF IInv
<1> DEFINE pick == [m \in Macs |-> old]
<1>a. /\ UNCHANGED <<meta, ghost, applying, nova, keystone, todo, at, old,
                     desired, lists, passes, gpc, swept, metas, col, shown, bytes, due, slips>>
      /\ rpc = "settle" /\ rpc' = "insert" /\ Settle({at}, pick)
  BY DEF SettleAttributionChange, cloudVars, sweepVars, history
<1>b. at \in Macs /\ old # None /\ pick \in [Macs -> Bindings] /\ {at} \in SUBSET Macs
  BY <1>a DEF PassInv, TypeOK, Bindings
<1>c. \A m \in {at} : pick[m] = old
  BY <1>b
<1>d. Slipped(old, meta[at])
  BY <1>a DEF WindowInv
<1> HIDE DEF pick
<1>e. /\ rows' \in [Macs -> Nat] /\ settled' \in [Series -> Nat]
      /\ OwnersExact' /\ SumInv' /\ WithinInv'
  BY <1>a, <1>b, <1>c, <1>d, SettleKeeps
<1>f. /\ late' \subseteq Macs /\ unknown' = unknown /\ released' = released
      /\ \A m \in Macs : Drained(m) => Drained(m)'
      /\ Drained(at)'
  <2>1. /\ \A m \in Macs : m \in {at} /\ pick[m] # None => Drained(m)'
        /\ late' \subseteq Macs /\ unknown' = unknown /\ released' = released
        /\ \A m \in Macs : Drained(m) => Drained(m)'
    BY <1>a, SettleDrains
  <2>2. \A m \in {at} : Drained(m)'
    BY <1>b, <1>c, <2>1
  <2>3. at' = at
    BY <1>a
  <2> QED BY <2>1, <2>2, <2>3 DEF Drained
<1>1. TypeOK'
  BY <1>a, <1>e, <1>f DEF TypeOK
<1>2. PassInv'
  BY <1>a DEF PassInv
<1>3. WindowInv'
  <2>1. swept \subseteq Macs
    BY DEF TypeOK
  <2> QED BY <1>a, <1>f, <2>1 DEF WindowInv, Slipped
<1>4. Sound' = Sound
  BY <1>a DEF Sound
<1> QED BY <1>a, <1>e, <1>1, <1>2, <1>3, <1>4, KeepCollect

LEMMA InsertStep == ASSUME IInv, InsertMAC PROVE IInv'
<1> USE DEF IInv
<1> DEFINE b == desired[at]
<1>a. /\ UNCHANGED <<rows, unknown, settled, released, applying, nova, keystone, todo,
                     desired, lists, passes, gpc, swept, metas, col, shown, bytes, due, late>>
      /\ rpc = "insert" /\ rpc' = "learn" /\ at' = None /\ old' = None
      /\ meta' = [meta EXCEPT ![at] = b] /\ ghost' = ghost \ {at}
      /\ slips' = slips \cup Move(at, b)
  BY DEF InsertMAC, stateVars, cloudVars, sweepVars, history
<1>b. at \in Macs /\ at # None /\ b \in Bindings /\ b # None /\ meta \in [Macs -> Bindings]
  BY <1>a DEF PassInv, TypeOK, Bindings
<1> HIDE DEF b
<1>c. /\ meta' \in [Macs -> Bindings] /\ meta'[at] = b
      /\ \A m \in Macs \ {at} : meta'[m] = meta[m]
  BY <1>a, <1>b
<1>d. Move(at, b) \subseteq Series
  BY <1>b, SeriesFacts DEF Move, TypeOK, Bindings
<1>e. meta[at] # b /\ (at \in late \/ Raced(at) \/ Torn(at)) => SeriesOf(meta[at]) \cup SeriesOf(b) \subseteq slips'
  BY <1>a DEF Move
<1>f. meta[at] # b => rows[at] = 0 \/ at \in late
  BY <1>a DEF WindowInv, Drained, b
<1>1. TypeOK'
  <2>1. ghost' \subseteq {m \in Macs : meta'[m] # None}
    BY <1>a, <1>c DEF TypeOK
  <2>2. slips' \subseteq Series
    BY <1>a, <1>d DEF TypeOK
  <2>3. meta' \in [Macs -> Servers \cup {None}]
    BY <1>c DEF Bindings
  <2> QED BY <1>a, <2>1, <2>2, <2>3 DEF TypeOK
<1>2. PassInv'
  BY <1>a DEF PassInv
<1>3. WindowInv'
  <2>1. \A m \in Macs : meta'[m] = None => Drained(m)
    BY <1>b, <1>c DEF WindowInv
  <2>2. \A m \in Macs : Drained(m)' = Drained(m)
    BY <1>a DEF Drained
  <2>3. gpc = "look" => \A m \in swept : meta'[m] # None
    BY <1>b, <1>c DEF WindowInv, TypeOK
  <2>4. gpc = "settle" => \A m \in swept : metas[m] # None /\ Slipped(metas[m], meta[m])'
    <3> SUFFICES ASSUME gpc = "settle", NEW m \in swept
                 PROVE  metas[m] # None /\ Slipped(metas[m], meta[m])'
      OBVIOUS
    <3>1. m \in Macs /\ metas[m] # None /\ Slipped(metas[m], meta[m])
      BY DEF WindowInv, TypeOK
    <3>2. slips \subseteq slips' /\ metas' = metas
      BY <1>a
    <3>3. CASE m # at \/ meta[at] = b
      <4>1. meta'[m] = meta[m]
        BY <1>c, <3>1, <3>3
      <4> QED BY <3>1, <3>2, <4>1 DEF Slipped
    <3>4. CASE m = at /\ meta[at] # b
      <4>1. SeriesOf(meta[m]) \cup SeriesOf(meta'[m]) \subseteq slips'
        BY <1>c, <1>e, <3>4 DEF Raced
      <4> QED BY <3>1, <3>2, <4>1 DEF Slipped
    <3> QED BY <3>3, <3>4
  <2>5. swept \subseteq Macs
    BY DEF TypeOK
  <2> QED BY <1>a, <2>1, <2>2, <2>3, <2>4, <2>5 DEF WindowInv
<1>4. OwnersExact' /\ CollectInv'
  <2>1. \A m \in Macs : /\ meta'[m] # meta[m]
                        /\ rows[m] # 0 \/ (m \in col.todo /\ col.rows[m] # 0)
                        => SeriesOf(meta[m]) \cup SeriesOf(meta'[m]) \subseteq slips'
    <3> SUFFICES ASSUME meta[at] # b, rows[at] # 0 \/ (at \in col.todo /\ col.rows[at] # 0)
                 PROVE  SeriesOf(meta[at]) \cup SeriesOf(b) \subseteq slips'
      BY <1>c
    <3>1. col.rows[at] \in Nat
      BY <1>b DEF TypeOK
    <3>2. at \in late \/ Torn(at)
      BY <1>f, <3>1 DEF Torn
    <3> QED BY <1>e, <3>2
  <2> QED BY <1>a, <1>c, <2>1, RebindKeeps
<1>5. SumInv' /\ WithinInv'
  BY <1>a, KeepSum, KeepWithin
<1> QED BY <1>1, <1>2, <1>3, <1>4, <1>5

LEMMA GhostStep == ASSUME IInv, GhostGoneMACs PROVE IInv'
<1> USE DEF IInv
<1>a. /\ UNCHANGED <<meta, rows, unknown, settled, released, applying, nova, keystone, todo, at, old,
                     desired, lists, passes, gpc, swept, metas, col, shown, bytes, due, late, slips>>
      /\ rpc = "learn" /\ rpc' = "servers" /\ todo = {}
      /\ ghost' = ghost \cup {m \in Macs : meta[m] # None /\ desired[m] = None}
  BY DEF GhostGoneMACs, stateVars, cloudVars, sweepVars, history
<1>1. TypeOK'
  BY <1>a DEF TypeOK
<1>2. PassInv'
  BY <1>a DEF PassInv
<1>3. WindowInv'
  BY <1>a DEF WindowInv, Drained, Slipped
<1>4. Sound' = Sound
  BY <1>a DEF Sound
<1> QED BY <1>a, <1>1, <1>2, <1>3, <1>4, KeepOwners, KeepSum, KeepWithin, KeepCollect

\* The living owners are not pruned.
LEMMA PruneKeepsOwners ==
    ASSUME OwnersExact, UNCHANGED <<meta, rows, unknown, due, nova, keystone, slips>>,
           \A x \in Sound : settled'[x] = settled[x]
    PROVE  OwnersExact'
<1>1. ASSUME NEW x PROVE Live(x)' = Live(x)
  BY LiveIs, LiveNext
<1>2. Sound' = Sound
  BY DEF Sound
<1> QED BY <1>1, <1>2 DEF OwnersExact

LEMMA PruneServersStep == ASSUME IInv, PruneServerSettled PROVE IInv'
<1> USE DEF IInv
<1>a. /\ UNCHANGED <<meta, ghost, rows, unknown, released, applying, nova, keystone, todo, at, old,
                     desired, lists, passes, gpc, swept, metas, col, shown, bytes, due, late, slips>>
      /\ rpc = "servers" /\ rpc' = "projects"
      /\ settled' = [x \in Series |->
           IF lists.servers # {} /\ x \in Servers \ lists.servers THEN 0 ELSE settled[x]]
  BY DEF PruneServerSettled, cloudVars, sweepVars, history
<1>b. settled \in [Series -> Nat] /\ nova \subseteq Servers /\ keystone \subseteq Tenants
  BY DEF TypeOK
<1>c. /\ settled' \in [Series -> Nat]
      /\ \A x \in Series : settled'[x] <= settled[x]
      /\ \A x \in Payers \cup nova : settled'[x] = settled[x]
  <2>1. \A x \in Series : settled'[x] \in {0, settled[x]}
    BY <1>a
  <2>2. lists.servers = {} \/ nova \subseteq lists.servers
    BY <1>a DEF PassInv
  <2>3. \A x \in Payers \cup nova : x \in Series /\ ~(lists.servers # {} /\ x \in Servers \ lists.servers)
    BY <1>b, <2>2, TierSets
  <2>4. settled' \in [Series -> Nat]
    BY <1>a, <1>b
  <2>5. \A x \in Series : settled'[x] <= settled[x]
    BY <1>b, <2>1
  <2> QED BY <1>a, <2>3, <2>4, <2>5
<1>1. TypeOK'
  BY <1>a, <1>c DEF TypeOK
<1>2. PassInv'
  BY <1>a DEF PassInv
<1>3. WindowInv'
  BY <1>a DEF WindowInv, Drained, Slipped
<1>4. OwnersExact'
  <2>1. \A x \in Sound : x \in Payers \cup nova
    BY <1>b, TierSets DEF Sound
  <2> QED BY <1>a, <1>c, <2>1, PruneKeepsOwners
<1>5. SumInv'
  <2>1. Total(settled', Payers) = Total(settled, Payers)
    BY <1>c, FiniteTiers, TotalEq
  <2> QED BY <1>a, <2>1 DEF SumInv
<1>6. WithinInv'
  <2> SUFFICES ASSUME NEW t \in keystone PROVE Total(settled', ServersOf(t)) <= settled'[t]
    BY <1>a DEF WithinInv, Within
  <2> DEFINE S == ServersOf(t)
  <2>1. t \in Payers /\ t \in Series /\ Total(settled, S) <= settled[t] /\ settled[t] \in Nat
    BY <1>b, TierSets DEF WithinInv, Within
  <2>2. IsFiniteSet(S) /\ \A s \in S : settled[s] \in Nat /\ settled'[s] \in Nat /\ settled'[s] <= settled[s]
    BY <1>b, <1>c, FiniteTiers, TierSets
  <2>3. settled'[t] = settled[t]
    BY <1>c, <2>1
  <2> HIDE DEF S
  <2>4. Total(settled', S) <= Total(settled, S) /\ Total(settled', S) \in Nat /\ Total(settled, S) \in Nat
    BY <2>2, TotalLe, TotalNat
  <2>5. Total(settled', S) <= settled'[t]
    BY <2>1, <2>3, <2>4
  <2> QED BY <2>5 DEF S
<1>7. Sound' = Sound
  BY <1>a DEF Sound
<1> QED BY <1>a, <1>1, <1>2, <1>3, <1>4, <1>5, <1>6, <1>7, KeepCollect

LEMMA PruneTenantsStep == ASSUME IInv, PruneTenantSettled PROVE IInv'
<1> USE DEF IInv
<1> DEFINE dead == IF lists.projects = {} THEN {} ELSE Tenants \ lists.projects
<1>a. /\ UNCHANGED <<meta, ghost, rows, unknown, applying, nova, keystone, todo, at, old,
                     passes, gpc, swept, metas, col, shown, bytes, due, late, slips>>
      /\ rpc = "projects" /\ rpc' = "idle" /\ desired' = [m \in Macs |-> None]
      /\ lists' = [servers |-> {}, projects |-> {}]
      /\ settled' = [x \in Series |-> IF x \in dead THEN 0 ELSE settled[x]]
      /\ released' = released + Total(settled, dead)
  BY DEF PruneTenantSettled, cloudVars, sweepVars, history, Total
<1>b. /\ settled \in [Series -> Nat] /\ nova \subseteq Servers /\ keystone \subseteq Tenants
      /\ released \in Nat /\ unknown \in Nat /\ rows \in [Macs -> Nat] /\ bytes \in Nat
  BY DEF TypeOK
<1>c. dead \subseteq Tenants /\ dead \cap keystone = {}
  BY <1>a DEF PassInv
<1> HIDE DEF dead
<1>d. dead \in SUBSET Payers /\ IsFiniteSet(dead) /\ (\A t \in dead : settled[t] \in Nat) /\ Total(settled, dead) \in Nat
  <2>1. dead \in SUBSET Payers /\ (\A t \in dead : settled[t] \in Nat)
    BY <1>b, <1>c, TierSets
  <2>2. IsFiniteSet(dead)
    BY <2>1, FiniteTiers, FS_Subset
  <2> QED BY <2>1, <2>2, TotalNat
<1>e. /\ settled' \in [Series -> Nat]
      /\ \A x \in Series \ dead : settled'[x] = settled[x]
      /\ \A x \in dead : settled'[x] = 0
  BY <1>a, <1>b, <1>d, TierSets
<1>1. TypeOK'
  <2>1. released' \in Nat
    BY <1>a, <1>b, <1>d
  <2>2. lists' \in [servers : SUBSET Servers, projects : SUBSET Tenants]
    BY <1>a
  <2> QED BY <1>a, <1>e, <2>1, <2>2 DEF TypeOK
<1>2. PassInv'
  <2>1. at = None
    BY <1>a DEF PassInv
  <2>2. todo = {}
    BY <1>a DEF PassInv
  <2> QED BY <1>a, <2>1, <2>2 DEF PassInv
<1>3. WindowInv'
  BY <1>a DEF WindowInv, Drained, Slipped
<1>4. OwnersExact'
  <2>1. \A x \in Sound : x \in Series \ dead
    BY <1>b, <1>c, TierSets, BillingAssumption DEF Sound, Series
  <2> QED BY <1>a, <1>e, <2>1, PruneKeepsOwners
<1>5. SumInv'
  <2> DEFINE R == Payers \ dead
  <2>1. /\ \A x \in Payers : settled[x] \in Nat /\ settled'[x] \in Nat
        /\ \A x \in R : settled'[x] = settled[x]
    BY <1>b, <1>e, TierSets
  <2>2. Total(settled, Payers) = Total(settled, dead) + Total(settled, R)
    BY <1>d, <2>1, FiniteTiers, TotalSplit
  <2>3. Total(settled', Payers) = Total(settled', dead) + Total(settled', R)
    BY <1>d, <2>1, FiniteTiers, TotalSplit
  <2>4. IsFiniteSet(R)
    BY FiniteTiers, FS_Subset
  <2>5. Total(settled', dead) = 0
    BY <1>d, <1>e, TotalZero
  <2>6. Total(settled', R) = Total(settled, R) /\ Total(settled, R) \in Nat
    BY <2>1, <2>4, TotalEq, TotalNat
  <2>7. Total(rows, Macs) \in Nat
    BY <1>b, FiniteTiers, TotalNat
  <2> HIDE DEF R
  <2> QED BY <1>a, <1>b, <1>d, <2>2, <2>3, <2>5, <2>6, <2>7 DEF SumInv
<1>6. WithinInv'
  <2> SUFFICES ASSUME NEW t \in keystone PROVE Total(settled', ServersOf(t)) <= settled'[t]
    BY <1>a DEF WithinInv, Within
  <2> DEFINE S == ServersOf(t)
  <2>1. t \in Series \ dead /\ Total(settled, S) <= settled[t]
    BY <1>b, <1>c, TierSets DEF WithinInv, Within
  <2>2. IsFiniteSet(S) /\ \A s \in S : s \in Series \ dead
    BY <1>d, FiniteTiers, TierSets DEF ServersOf
  <2> HIDE DEF S
  <2>3. Total(settled', S) = Total(settled, S)
    BY <1>e, <2>2, TotalEq
  <2> QED BY <1>e, <2>1, <2>3 DEF S
<1>7. Sound' = Sound
  BY <1>a DEF Sound
<1> QED BY <1>a, <1>1, <1>2, <1>3, <1>4, <1>5, <1>6, <1>7, KeepCollect

-----------------------------------------------------------------------------
(* The ghost sweeper.                                                      *)

LEMMA ClassifyStep == ASSUME IInv, NEW M \in SUBSET ghost, Classify(M) PROVE IInv'
<1> USE DEF IInv
<1>a. /\ UNCHANGED <<meta, ghost, rows, unknown, settled, released, applying, nova, keystone,
                     rpc, todo, at, old, desired, lists, passes, metas, col, shown, bytes, due, late, slips>>
      /\ gpc' = "look" /\ swept' = M /\ M # {}
  BY DEF Classify, stateVars, cloudVars, reconVars, history
<1>1. TypeOK'
  BY <1>a DEF TypeOK
<1>2. PassInv'
  BY <1>a DEF PassInv
<1>3. WindowInv'
  <2>1. \A m \in M : meta[m] # None
    BY DEF TypeOK
  <2> QED BY <1>a, <2>1 DEF WindowInv, Drained, Slipped
<1>4. Sound' = Sound
  BY <1>a DEF Sound
<1> QED BY <1>a, <1>1, <1>2, <1>3, <1>4, KeepOwners, KeepSum, KeepWithin, KeepCollect

LEMMA LookupSweptStep == ASSUME IInv, LookupSwept PROVE IInv'
<1> USE DEF IInv
<1>a. /\ UNCHANGED <<meta, ghost, rows, unknown, settled, released, applying, nova, keystone,
                     rpc, todo, at, old, desired, lists, passes, swept, col, shown, bytes, due, late, slips>>
      /\ gpc = "look" /\ gpc' = "settle" /\ metas' = meta
  BY DEF LookupSwept, stateVars, cloudVars, reconVars, history
<1>1. TypeOK'
  BY <1>a DEF TypeOK
<1>2. PassInv'
  BY <1>a DEF PassInv
<1>3. WindowInv'
  BY <1>a DEF WindowInv, Drained, Slipped
<1>4. Sound' = Sound
  BY <1>a DEF Sound
<1> QED BY <1>a, <1>1, <1>2, <1>3, <1>4, KeepOwners, KeepSum, KeepWithin, KeepCollect

LEMMA SettleSweptStep == ASSUME IInv, SettleSwept PROVE IInv'
<1> USE DEF IInv
<1>a. /\ UNCHANGED <<meta, ghost, applying, nova, keystone, rpc, todo, at, old,
                     desired, lists, passes, swept, metas, col, shown, bytes, due, slips>>
      /\ gpc = "settle" /\ gpc' = "delete" /\ Settle(swept, metas)
  BY DEF SettleSwept, cloudVars, reconVars, history
<1>b. metas \in [Macs -> Bindings] /\ swept \in SUBSET Macs
  BY DEF TypeOK, Bindings
<1>c. \A m \in swept : metas[m] # None /\ Slipped(metas[m], meta[m])
  BY <1>a DEF WindowInv
<1>d. /\ rows' \in [Macs -> Nat] /\ settled' \in [Series -> Nat]
      /\ OwnersExact' /\ SumInv' /\ WithinInv'
  BY <1>a, <1>b, <1>c, SettleKeeps
<1>e. /\ late' \subseteq Macs /\ unknown' = unknown /\ released' = released
      /\ \A m \in Macs : Drained(m) => Drained(m)'
      /\ \A m \in Macs : m \in swept /\ metas[m] # None => Drained(m)'
  BY <1>a, SettleDrains
<1>1. TypeOK'
  BY <1>a, <1>d, <1>e DEF TypeOK
<1>2. PassInv'
  BY <1>a DEF PassInv
<1>3. WindowInv'
  <2>1. \A m \in swept : Drained(m)'
    BY <1>b, <1>c, <1>e
  <2>2. rpc \in {"settle", "insert"} => at \in Macs
    BY DEF PassInv, TypeOK
  <2>3. rpc = "insert" /\ meta[at] # desired[at] => Drained(at)'
    <3> SUFFICES ASSUME rpc = "insert", meta[at] # desired[at] PROVE Drained(at)'
      OBVIOUS
    <3>1. at' = at /\ at \in Macs /\ Drained(at)
      BY <1>a, <2>2 DEF WindowInv
    <3>2. \A m \in Macs : m = at => Drained(m)'
      BY <1>e, <3>1
    <3>3. \A m \in Macs : m = at => (rows'[m] = 0 \/ m \in late')
      BY <3>2 DEF Drained
    <3> QED BY <3>1, <3>3 DEF Drained
  <2> QED BY <1>a, <1>e, <2>1, <2>3 DEF WindowInv, Slipped
<1>4. Sound' = Sound
  BY <1>a DEF Sound
<1> QED BY <1>a, <1>d, <1>1, <1>2, <1>3, <1>4, KeepCollect

LEMMA DeleteStep == ASSUME IInv, DeleteUserspace PROVE IInv'
<1> USE DEF IInv
<1>a. /\ UNCHANGED <<rows, unknown, settled, released, applying, nova, keystone, rpc, todo, at, old,
                     desired, lists, passes, col, shown, bytes, due, late>>
      /\ gpc = "delete" /\ gpc' = "idle" /\ swept' = {} /\ metas' = [m \in Macs |-> None]
      /\ meta' = [m \in Macs |-> IF m \in swept THEN None ELSE meta[m]]
      /\ ghost' = ghost \ swept
      /\ slips' = slips \cup UNION {Move(m, None) : m \in swept}
  BY DEF DeleteUserspace, stateVars, cloudVars, reconVars, history
<1>b. meta \in [Macs -> Bindings] /\ swept \subseteq Macs
  BY DEF TypeOK, Bindings
<1>c. meta' \in [Macs -> Bindings]
  BY <1>a, <1>b DEF Bindings
<1>d. /\ \A m \in swept : meta'[m] = None
      /\ \A m \in Macs \ swept : meta'[m] = meta[m]
  BY <1>a, <1>b
<1>e. \A m \in swept : Move(m, None) \subseteq slips'
  BY <1>a
<1>f. slips \subseteq slips'
  BY <1>a
<1>1. TypeOK'
  <2>1. \A m \in swept : Move(m, None) \subseteq Series
    <3> TAKE m \in swept
    <3>1. meta[m] \in Bindings /\ None \in Bindings /\ old \in Bindings
      BY <1>b DEF Bindings, TypeOK
    <3> QED BY <3>1, SeriesFacts DEF Move
  <2>2. slips' \subseteq Series
    BY <1>a, <2>1 DEF TypeOK
  <2>3. ghost' \subseteq {m \in Macs : meta'[m] # None}
    BY <1>a, <1>d DEF TypeOK
  <2>4. meta' \in [Macs -> Servers \cup {None}]
    BY <1>c DEF Bindings
  <2> QED BY <1>a, <2>2, <2>3, <2>4 DEF TypeOK
<1>2. PassInv'
  BY <1>a DEF PassInv
<1>3. WindowInv'
  <2>1. \A m \in Macs : meta'[m] = None => Drained(m)'
    <3>1. \A m \in swept : Drained(m)
      BY <1>a DEF WindowInv
    <3> QED BY <1>a, <1>d, <3>1 DEF WindowInv, Drained
  <2>2. rpc = "insert" /\ meta'[at] # desired[at] => Drained(at)'
    <3> SUFFICES ASSUME rpc = "insert", meta'[at] # desired[at] PROVE Drained(at)
      BY <1>a DEF Drained
    <3>1. at \in Macs
      BY DEF PassInv, TypeOK
    <3> QED BY <1>a, <1>d, <3>1 DEF WindowInv
  <2>3. rpc = "settle" => Slipped(old, meta[at])'
    <3> SUFFICES ASSUME rpc = "settle" PROVE Slipped(old, meta[at])'
      OBVIOUS
    <3>1. at \in Macs /\ Slipped(old, meta[at])
      BY DEF WindowInv, PassInv, TypeOK
    <3>2. at' = at /\ old' = old
      BY <1>a
    <3>3. CASE at \notin swept \/ meta[at] = None
      <4>1. meta'[at] = meta[at]
        BY <1>d, <3>1, <3>3
      <4> QED BY <1>f, <3>1, <3>2, <4>1 DEF Slipped
    <3>4. CASE at \in swept /\ meta[at] # None
      <4>1. SeriesOf(meta[at]) \cup SeriesOf(None) \cup SeriesOf(old) \subseteq slips'
        BY <1>e, <3>4 DEF Move, Raced
      <4> QED BY <1>d, <3>2, <3>4, <4>1 DEF Slipped
    <3> QED BY <3>3, <3>4
  <2> QED BY <1>a, <2>1, <2>2, <2>3 DEF WindowInv
<1>4. OwnersExact' /\ CollectInv'
  <2>1. \A m \in Macs : /\ meta'[m] # meta[m]
                        /\ rows[m] # 0 \/ (m \in col.todo /\ col.rows[m] # 0)
                        => SeriesOf(meta[m]) \cup SeriesOf(meta'[m]) \subseteq slips'
    <3> SUFFICES ASSUME NEW m \in Macs, meta'[m] # meta[m],
                        rows[m] # 0 \/ (m \in col.todo /\ col.rows[m] # 0)
                 PROVE  SeriesOf(meta[m]) \cup SeriesOf(meta'[m]) \subseteq slips'
      OBVIOUS
    <3>1. m \in swept /\ meta'[m] = None /\ meta[m] # None
      BY <1>d
    <3>2. col.rows[m] \in Nat
      BY DEF TypeOK
    <3>3. m \in late \/ Torn(m)
      BY <1>a, <3>1, <3>2 DEF Torn, WindowInv, Drained
    <3> QED BY <1>e, <3>1, <3>3 DEF Move
  <2> QED BY <1>a, <1>c, <1>f, <2>1, RebindKeeps
<1>5. SumInv' /\ WithinInv'
  BY <1>a, KeepSum, KeepWithin
<1> QED BY <1>1, <1>2, <1>3, <1>4, <1>5

-----------------------------------------------------------------------------
(* The collector, and the ends of owners.                                  *)

LEMMA SnapshotStep == ASSUME IInv, Snapshot PROVE IInv'
<1> USE DEF IInv
<1> DEFINE c == Credit(settled, None, unknown)
<1>a. /\ UNCHANGED <<meta, ghost, rows, unknown, settled, released, applying, nova, keystone,
                     rpc, todo, at, old, desired, lists, passes, gpc, swept, metas,
                     shown, bytes, due, late, slips>>
      /\ col' = [busy |-> TRUE, todo |-> Macs, rows |-> rows, released |-> released, series |-> c]
  BY DEF Snapshot, stateVars, cloudVars, reconVars, sweepVars, history
<1>b. /\ settled \in [Series -> Nat] /\ unknown \in Nat /\ rows \in [Macs -> Nat] /\ released \in Nat
      /\ None \in Bindings /\ keystone \subseteq Tenants
  BY DEF TypeOK, Bindings
<1>c. /\ c \in [Series -> Nat]
      /\ \A x \in Series : c[x] = IF x \in SeriesOf(None) THEN settled[x] + unknown ELSE settled[x]
      /\ Total(c, Payers) = Total(settled, Payers) + unknown
      /\ \A t \in Tenants : Total(settled, ServersOf(t)) <= settled[t] => Total(c, ServersOf(t)) <= c[t]
  BY <1>b, CreditFacts
<1> HIDE DEF c
<1>d. /\ col'.todo = Macs /\ col'.rows = rows /\ col'.series = c /\ col'.released = released
      /\ col' \in [busy : BOOLEAN, todo : SUBSET Macs, rows : [Macs -> Nat],
                   series : [Series -> Nat], released : Nat]
  BY <1>a, <1>b, <1>c
<1>1. TypeOK'
  BY <1>a, <1>d DEF TypeOK
<1>2. PassInv'
  BY <1>a DEF PassInv
<1>3. WindowInv'
  BY <1>a DEF WindowInv, Drained, Slipped
<1>4. Sound' = Sound
  BY <1>a DEF Sound
<1>5. OwnersExact' /\ SumInv'
  BY <1>a, <1>4, KeepOwners, KeepSum
<1>6. WithinInv'
  BY <1>a, <1>b, <1>c, <1>d DEF WithinInv, Within
<1>7. CollectInv'
  <2>1. ASSUME NEW x \in Sound PROVE Expected(x)' = due[x]
    <3> DEFINE L == {m \in Macs : x \in SeriesOf(meta[m])}
    <3>1. Expected(x)' = c[x] + Total(rows, L)
      BY <1>a, <1>d DEF Expected
    <3>2. Live(x) = Total(rows, L) + (IF x = Unknown THEN unknown ELSE 0)
      BY LiveIs
    <3>3. x \in Series /\ Live(x) + settled[x] = due[x]
      BY SoundSeries DEF OwnersExact
    <3>4. c[x] = settled[x] + (IF x = Unknown THEN unknown ELSE 0)
      <4>1. x \in SeriesOf(None) <=> x = Unknown
        BY DEF SeriesOf
      <4>2. settled[x] \in Nat
        BY <1>b, <3>3
      <4> QED BY <1>c, <3>3, <4>1, <4>2
    <3>5. Total(rows, L) \in Nat /\ settled[x] \in Nat
      <4>1. L \in SUBSET Macs
        OBVIOUS
      <4> HIDE DEF L
      <4> QED BY <1>b, <3>3, <4>1, FiniteTiers, TotalNat
    <3> HIDE DEF L
    <3> QED BY <1>b, <3>1, <3>2, <3>3, <3>4, <3>5
  <2>2. ExpectedTotal' = bytes
    <3>1. ExpectedTotal' = Total(c, Payers) + Total(rows, Macs) + released
      BY <1>d DEF ExpectedTotal
    <3>2. Total(settled, Payers) \in Nat /\ Total(rows, Macs) \in Nat
      BY <1>b, FiniteTiers, TierSets, TotalNat
    <3> QED BY <1>b, <1>c, <3>1, <3>2 DEF SumInv
  <2>3. \A x \in Sound : due[x] \in Nat
    BY SoundSeries DEF TypeOK
  <2>4. bytes \in Nat
    BY DEF TypeOK
  <2>5. \A n \in Nat : n <= n
    OBVIOUS
  <2>6. col'.busy = TRUE
    BY <1>a
  <2> QED BY <1>a, <1>4, <2>1, <2>2, <2>3, <2>4, <2>5, <2>6 DEF CollectInv
<1> QED BY <1>1, <1>2, <1>3, <1>5, <1>6, <1>7

LEMMA ResolveStep == ASSUME IInv, NEW m \in col.todo, Resolve(m) PROVE IInv'
<1> USE DEF IInv
<1> DEFINE r == col.rows
           b == meta[m]
           c == Credit(col.series, b, r[m])
           R == col.todo \ {m}
<1>a. /\ UNCHANGED <<meta, ghost, rows, unknown, settled, released, applying, nova, keystone,
                     rpc, todo, at, old, desired, lists, passes, gpc, swept, metas,
                     shown, bytes, due, late, slips>>
      /\ col' = [col EXCEPT !.todo = R, !.series = c]
  BY DEF Resolve, stateVars, cloudVars, reconVars, sweepVars, history
<1>b. /\ col \in [busy : BOOLEAN, todo : SUBSET Macs, rows : [Macs -> Nat],
                  series : [Series -> Nat], released : Nat]
      /\ keystone \subseteq Tenants
  BY DEF TypeOK
<1>c. /\ r \in [Macs -> Nat] /\ m \in Macs /\ r[m] \in Nat /\ col.series \in [Series -> Nat]
      /\ col.todo \in SUBSET Macs /\ R \in SUBSET Macs /\ col.released \in Nat
      /\ b \in Bindings
  BY <1>b DEF TypeOK, Bindings
<1>d. /\ c \in [Series -> Nat]
      /\ \A x \in Series : c[x] = IF x \in SeriesOf(b) THEN col.series[x] + r[m] ELSE col.series[x]
      /\ Total(c, Payers) = Total(col.series, Payers) + r[m]
      /\ \A t \in Tenants : Total(col.series, ServersOf(t)) <= col.series[t]
                              => Total(c, ServersOf(t)) <= c[t]
  <2> DEFINE n == r[m]
             f == col.series
  <2>1. n \in Nat /\ f \in [Series -> Nat] /\ b \in Bindings
    BY <1>c
  <2> HIDE DEF n, f, b
  <2>2. /\ Credit(f, b, n) \in [Series -> Nat]
        /\ \A x \in Series : Credit(f, b, n)[x] = IF x \in SeriesOf(b) THEN f[x] + n ELSE f[x]
        /\ Total(Credit(f, b, n), Payers) = Total(f, Payers) + n
        /\ \A t \in Tenants : Total(f, ServersOf(t)) <= f[t] =>
               Total(Credit(f, b, n), ServersOf(t)) <= Credit(f, b, n)[t]
    BY <2>1, CreditFacts
  <2> QED BY <2>2 DEF n, f
<1>e. /\ m \in col.todo
      /\ \A S \in SUBSET Macs : m \in S => Total(r, S) = r[m] + Total(r, S \ {m})
      /\ \A S \in SUBSET Macs : Total(r, S) \in Nat
  <2> HIDE DEF r
  <2>1. \A S \in SUBSET Macs : IsFiniteSet(S) /\ \A k \in S : r[k] \in Nat
    BY <1>c, FiniteTiers
  <2> QED BY <2>1, TotalAny, TotalNat
<1> HIDE DEF c, R
<1>f. /\ col'.busy = col.busy /\ col'.todo = R /\ col'.rows = r /\ col'.series = c
      /\ col'.released = col.released
      /\ col' \in [busy : BOOLEAN, todo : SUBSET Macs, rows : [Macs -> Nat],
                   series : [Series -> Nat], released : Nat]
  BY <1>a, <1>b, <1>c, <1>d
<1> HIDE DEF r, b
<1>1. TypeOK'
  BY <1>a, <1>f DEF TypeOK
<1>2. PassInv'
  BY <1>a DEF PassInv
<1>3. WindowInv'
  BY <1>a DEF WindowInv, Drained, Slipped
<1>4. Sound' = Sound
  BY <1>a DEF Sound
<1>5. OwnersExact' /\ SumInv'
  BY <1>a, <1>4, KeepOwners, KeepSum
<1>6. WithinInv'
  BY <1>a, <1>b, <1>d, <1>f DEF WithinInv, Within
<1>7. CollectInv'
  <2>1. ASSUME NEW x \in Sound PROVE Expected(x)' = Expected(x)
    <3> DEFINE A == {k \in col.todo : x \in SeriesOf(meta[k])}
               B == {k \in R : x \in SeriesOf(meta[k])}
    <3>1. Expected(x) = col.series[x] + Total(r, A) /\ Expected(x)' = c[x] + Total(r, B)
      BY <1>a, <1>f DEF Expected, r
    <3>2. x \in Series /\ col.series[x] \in Nat
      BY <1>c, SoundSeries
    <3>3. A \in SUBSET Macs /\ B \in SUBSET Macs
      BY <1>c
    <3>4. CASE x \in SeriesOf(b)
      <4>1. m \in A /\ B = A \ {m}
        BY <1>e, <3>4 DEF R, b
      <4> HIDE DEF A, B
      <4>2. Total(r, A) = r[m] + Total(r, B) /\ Total(r, B) \in Nat
        BY <1>e, <3>3, <4>1
      <4>3. c[x] = col.series[x] + r[m]
        BY <1>d, <3>2, <3>4
      <4> QED BY <1>c, <3>1, <3>2, <4>2, <4>3
    <3>5. CASE x \notin SeriesOf(b)
      <4>1. A = B
        BY <3>5 DEF R, b
      <4>2. c[x] = col.series[x]
        BY <1>d, <3>2, <3>5
      <4> HIDE DEF A, B
      <4> QED BY <3>1, <4>1, <4>2
    <3> QED BY <3>4, <3>5
  <2>2. ExpectedTotal' = ExpectedTotal
    <3>1. /\ ExpectedTotal = Total(col.series, Payers) + Total(r, col.todo) + col.released
          /\ ExpectedTotal' = Total(c, Payers) + Total(r, R) + col.released
      BY <1>f DEF ExpectedTotal, r
    <3>2. Total(r, col.todo) = r[m] + Total(r, R) /\ Total(r, R) \in Nat
      BY <1>c, <1>e DEF R
    <3>3. Total(col.series, Payers) \in Nat
      BY <1>c, FiniteTiers, TierSets, TotalNat
    <3> QED BY <1>c, <1>d, <3>1, <3>2, <3>3
  <2>3. col.busy
    BY <1>e DEF CollectInv
  <2> QED BY <1>a, <1>4, <1>f, <2>1, <2>2, <2>3 DEF CollectInv
<1> QED BY <1>1, <1>2, <1>3, <1>5, <1>6, <1>7

\* An exposition shows what was expected of it.
LEMMA EmitShows ==
    ASSUME TypeOK, CollectInv, Emit
    PROVE  /\ col.busy /\ shown'.series = col.series /\ shown'.total = ExpectedTotal
           /\ shown' \in [scrapes : Nat, series : [Series -> Nat], total : Nat]
           /\ \A x \in Sound : Expected(x) = shown'.series[x]
<1> DEFINE n == Total(col.series, Payers) + col.released
<1>1. /\ col.busy /\ col.todo = {}
      /\ shown' = [scrapes |-> shown.scrapes + 1, series |-> col.series, total |-> n]
  BY DEF Emit, Total, Payers
<1>2. /\ col.series \in [Series -> Nat] /\ col.released \in Nat /\ shown.scrapes \in Nat
  BY DEF TypeOK
<1>3. Total(col.series, Payers) \in Nat /\ Total(col.rows, {}) = 0
  BY <1>2, FiniteTiers, TierSets, TotalNat, TotalEmpty
<1>4. n \in Nat /\ ExpectedTotal = n
  BY <1>1, <1>2, <1>3 DEF ExpectedTotal
<1>5. ASSUME NEW x \in Sound PROVE Expected(x) = col.series[x]
  <2>1. {m \in col.todo : x \in SeriesOf(meta[m])} = {}
    BY <1>1
  <2>2. col.series[x] \in Nat
    BY <1>2, SoundSeries
  <2>3. Expected(x) = col.series[x] + 0
    BY <1>3, <2>1 DEF Expected
  <2> QED BY <2>2, <2>3
<1> HIDE DEF n
<1> QED BY <1>1, <1>2, <1>4, <1>5

LEMMA EmitStep == ASSUME IInv, Emit PROVE IInv'
<1> USE DEF IInv
<1>a. /\ UNCHANGED <<meta, ghost, rows, unknown, settled, released, applying, nova, keystone,
                     rpc, todo, at, old, desired, lists, passes, gpc, swept, metas,
                     bytes, due, late, slips>>
      /\ col' = NoCopy
  BY DEF Emit, stateVars, cloudVars, reconVars, sweepVars, history
<1>b. /\ col.busy /\ shown'.series = col.series /\ shown'.total = ExpectedTotal
      /\ shown' \in [scrapes : Nat, series : [Series -> Nat], total : Nat]
      /\ \A x \in Sound : Expected(x) = shown'.series[x]
  BY EmitShows
<1> DEFINE z == [x \in Series |-> 0]
<1>c. /\ col'.busy = FALSE /\ col'.todo = {} /\ col'.series = z
      /\ col' \in [busy : BOOLEAN, todo : SUBSET Macs, rows : [Macs -> Nat],
                   series : [Series -> Nat], released : Nat]
  BY <1>a DEF NoCopy
<1>1. TypeOK'
  BY <1>a, <1>b, <1>c DEF TypeOK
<1>2. PassInv'
  BY <1>a DEF PassInv
<1>3. WindowInv'
  BY <1>a DEF WindowInv, Drained, Slipped
<1>4. Sound' = Sound
  BY <1>a DEF Sound
<1>5. OwnersExact' /\ SumInv'
  BY <1>a, <1>4, KeepOwners, KeepSum
<1>6. WithinInv'
  <2>1. \A t : Total(z, ServersOf(t)) = 0
    BY FiniteTiers, TierSets, TotalZero
  <2>2. \A t \in keystone : z[t] = 0
    BY TierSets DEF TypeOK
  <2> HIDE DEF z
  <2> QED BY <1>a, <1>b, <1>c, <2>1, <2>2 DEF WithinInv, Within
<1>7. CollectInv'
  BY <1>a, <1>b, <1>c, <1>4 DEF CollectInv
<1> QED BY <1>1, <1>2, <1>3, <1>5, <1>6, <1>7

LEMMA DieStep == ASSUME IInv, NEW s, NEW t, Die(s, t) PROVE IInv'
<1> USE DEF IInv
<1>a. /\ UNCHANGED <<meta, ghost, rows, unknown, settled, released, applying,
                     rpc, todo, at, old, desired, lists, passes, gpc, swept, metas,
                     col, shown, bytes, due, late, slips>>
      /\ nova' \subseteq nova /\ keystone' \subseteq keystone
  BY DEF Die, stateVars, reconVars, sweepVars, history
<1>1. TypeOK'
  BY <1>a DEF TypeOK
<1>2. PassInv'
  BY <1>a DEF PassInv
<1>3. WindowInv'
  BY <1>a DEF WindowInv, Drained, Slipped
<1>4. Sound' \subseteq Sound
  BY <1>a DEF Sound
<1> QED BY <1>a, <1>1, <1>2, <1>3, <1>4, KeepOwners, KeepSum, KeepWithin, KeepCollect

-----------------------------------------------------------------------------
(* The theorems.                                                           *)

LEMMA NextKeepsInv == ASSUME IInv, [Next]_vars PROVE IInv'
<1>1. CASE Scrape
  BY <1>1, LookupStep, ApplyStep, FoldStep DEF Scrape
<1>2. CASE ReconcileOnce
  BY <1>2, SyncStep, LearnStep, SettleChangeStep, InsertStep, GhostStep, PruneServersStep,
     PruneTenantsStep DEF ReconcileOnce
<1>3. CASE GhostSweep
  BY <1>3, ClassifyStep, LookupSweptStep, SettleSweptStep, DeleteStep DEF GhostSweep
<1>4. CASE Collect
  BY <1>4, SnapshotStep, ResolveStep, EmitStep DEF Collect
<1>5. CASE \/ \E s \in Servers \cap Mortal : Die({s}, {})
           \/ \E t \in Tenants \cap Mortal : Die({}, {t})
  BY <1>5, DieStep
<1>6. CASE UNCHANGED vars
  <2> USE DEF IInv
  <2>a. UNCHANGED <<meta, ghost, rows, unknown, settled, released, applying, nova, keystone,
                    rpc, todo, at, old, desired, lists, passes, gpc, swept, metas,
                    col, shown, bytes, due, late, slips>>
    BY <1>6 DEF vars, stateVars, cloudVars, reconVars, sweepVars, history
  <2>1. TypeOK'
    BY <2>a DEF TypeOK
  <2>2. PassInv' /\ WindowInv'
    BY <2>a DEF PassInv, WindowInv, Drained, Slipped
  <2>3. Sound' = Sound
    BY <2>a DEF Sound
  <2> QED BY <2>a, <2>1, <2>2, <2>3, KeepOwners, KeepSum, KeepWithin, KeepCollect
<1> QED BY <1>1, <1>2, <1>3, <1>4, <1>5, <1>6 DEF Next

\* The invariant holds in every reachable state, for any finite sets of MACs,
\* servers and projects and without the bounds of the runs.
THEOREM TierInvariant == Spec => []IInv
<1>1. Init => IInv
  BY InitInv
<1>2. IInv /\ [Next]_vars => IInv'
  BY NextKeepsInv
<1> QED BY <1>1, <1>2, PTL DEF Spec

\* Every variable of GlobalState, the reconciler, the sweeper and the collector
\* keeps its type.
THEOREM TypeCorrect == Spec => []TypeOK
<1>1. IInv => TypeOK
  BY DEF IInv
<1> QED BY <1>1, TierInvariant, PTL

\* A series whose owner is alive and that met no window of Move is worth what
\* was counted for its owner (Settle, learnMACs, settleSwept, the pruning).
THEOREM OwnersAreExact == Spec => []OwnersExact
<1>1. IInv => OwnersExact
  BY DEF IInv
<1> QED BY <1>1, TierInvariant, PTL

\* The servers of a living project are never shown worth more than the project
\* (Settle and aggregateLiveRows credit both).
THEOREM ServersStayWithin == Spec => []ServersWithinTenant
<1>1. IInv => ServersWithinTenant
  BY DEF IInv, WithinInv, Within, ServersWithinTenant, Total, ServersOf
<1> QED BY <1>1, TierInvariant, PTL

\* The sum TotalExact takes over the payers.
PayersWorth == MapThenSumSet(LAMBDA x : Live(x) + settled[x], Tenants \cup {Unknown})

LEMMA PayersSum == PayersWorth = Total([x \in Payers |-> Live(x) + settled[x]], Payers)
<1> DEFINE h == [x \in Payers |-> Live(x) + settled[x]]
           P(g) == g = [T \in SUBSET Payers |->
                          IF T = {} THEN 0
                          ELSE (Live(Pick(T)) + settled[Pick(T)]) + g[T \ {Pick(T)}]]
           k == CHOOSE g : P(g)
<1>1. PayersWorth = k[Payers]
  BY DEF PayersWorth, MapThenSumSet, MapThenFoldSet, Pick, Payers
<1>2. ASSUME NEW g PROVE P(g) <=> Unrolls(g, h, Payers)
  <2>1. \A T \in SUBSET Payers : T # {} => h[Pick(T)] = Live(Pick(T)) + settled[Pick(T)]
    BY Picked
  <2> HIDE DEF h
  <2>2. [T \in SUBSET Payers |->
           IF T = {} THEN 0 ELSE (Live(Pick(T)) + settled[Pick(T)]) + g[T \ {Pick(T)}]]
        = [T \in SUBSET Payers |->
           IF T = {} THEN 0 ELSE h[Pick(T)] + g[T \ {Pick(T)}]]
    BY <2>1
  <2> QED BY <2>2 DEF Unrolls
<1> HIDE DEF P, h
<1>3. \E g : P(g)
  BY <1>2, FiniteTiers, UnrollsExists
<1>4. P(k)
  BY <1>3
<1> DEFINE u == CHOOSE g : Unrolls(g, h, Payers)
<1>5. Unrolls(u, h, Payers)
  BY FiniteTiers, Unrolling
<1>6. Total(h, Payers) = u[Payers]
  BY TotalDef
<1> HIDE DEF k, u
<1>7. Unrolls(k, h, Payers)
  BY <1>2, <1>4
<1>8. k = u
  BY <1>5, <1>7, FiniteTiers, UnrollsOnce
<1> QED BY <1>1, <1>6, <1>8 DEF h

LEMMA SumIsTotal == ASSUME TypeOK, SumInv PROVE TotalExact
<1> DEFINE c == [m \in Macs |-> PayerOf(meta[m])]
           live == [x \in Payers |-> Fibre(rows, c, Macs, x)]
           extra == [x \in Payers |-> IF x = Unknown THEN unknown ELSE 0]
           l == [x \in Payers |-> Live(x)]
           h == [x \in Payers |-> Live(x) + settled[x]]
<1>0. /\ rows \in [Macs -> Nat] /\ settled \in [Series -> Nat] /\ unknown \in Nat /\ released \in Nat
      /\ meta \in [Macs -> Bindings] /\ IsFiniteSet(Payers) /\ IsFiniteSet(Macs)
  BY FiniteTiers DEF TypeOK, Bindings
<1>1. \A m \in Macs : c[m] \in Payers
  BY <1>0, SeriesFacts
<1>2. \A x \in Payers : {m \in Macs : x \in SeriesOf(meta[m])} = {m \in Macs : c[m] = x}
  BY <1>0, SeriesFacts
<1>3. \A x \in Payers : live[x] \in Nat /\ extra[x] \in Nat /\ l[x] = live[x] + extra[x]
  <2> TAKE x \in Payers
  <2> DEFINE A == {m \in Macs : c[m] = x}
  <2>1. live[x] = Total(rows, A)
    BY DEF Fibre
  <2>2. l[x] = Total(rows, A) + (IF x = Unknown THEN unknown ELSE 0)
    BY <1>2, LiveIs
  <2>3. A \in SUBSET Macs
    OBVIOUS
  <2> HIDE DEF A
  <2>4. Total(rows, A) \in Nat
    BY <1>0, <2>3, FiniteTiers, TotalNat
  <2>5. extra[x] \in Nat /\ extra[x] = IF x = Unknown THEN unknown ELSE 0
    BY <1>0
  <2> HIDE DEF live, l, extra
  <2> QED BY <2>1, <2>2, <2>4, <2>5
<1>4. Total(live, Payers) = Total(rows, Macs) /\ Total(rows, Macs) \in Nat
  <2> HIDE DEF c
  <2> QED BY <1>0, <1>1, TotalFibres, TotalNat
<1>5. Total(extra, Payers) = unknown
  <2> DEFINE z == [x \in Payers |-> 0]
  <2>1. /\ Unknown \in Payers /\ (\A x \in Payers : z[x] \in Nat)
        /\ extra[Unknown] = z[Unknown] + unknown /\ \A x \in Payers \ {Unknown} : extra[x] = z[x]
    BY <1>0, TierSets
  <2>2. \A x \in Payers : z[x] = 0
    OBVIOUS
  <2> HIDE DEF z, extra
  <2>3. Total(extra, Payers) = Total(z, Payers) + unknown
    <3>1. IsFiniteSet(Payers) /\ unknown \in Nat
      BY <1>0
    <3> QED BY <2>1, <3>1, TotalCredit
  <2>4. Total(z, Payers) = 0
    BY <1>0, <2>2, TotalZero
  <2> QED BY <1>0, <2>3, <2>4
<1>6. \A x \in Payers : l[x] \in Nat /\ settled[x] \in Nat /\ h[x] = l[x] + settled[x]
  <2>1. \A x \in Payers : h[x] = l[x] + settled[x]
    OBVIOUS
  <2>2. \A x \in Payers : settled[x] \in Nat
    BY <1>0, TierSets
  <2> HIDE DEF l, live, extra, h
  <2> QED BY <1>3, <2>1, <2>2
<1>7. PayersWorth = Total(h, Payers)
  BY PayersSum
<1> HIDE DEF h, l, live, extra, c
<1>8. Total(l, Payers) = Total(live, Payers) + Total(extra, Payers)
  BY <1>0, <1>3, TotalAdd
<1>9. Total(h, Payers) = Total(l, Payers) + Total(settled, Payers)
  BY <1>0, <1>6, TotalAdd
<1>10. Total(settled, Payers) \in Nat
  BY <1>0, <1>6, TotalNat
<1>11. Total(h, Payers) + released = bytes
  BY <1>0, <1>4, <1>5, <1>8, <1>9, <1>10 DEF SumInv
<1>12. TotalExact <=> PayersWorth + released = bytes
  BY DEF TotalExact, PayersWorth, MapThenSumSet, MapThenFoldSet
<1> QED BY <1>7, <1>11, <1>12

\* The total tier holds every byte counted, whichever tenants it was settled,
\* released or left live under (PruneTenantSettled, deriveTotals).
THEOREM TotalIsExact == Spec => []TotalExact
<1>1. IInv => TotalExact
  BY SumIsTotal DEF IInv
<1> QED BY <1>1, TierInvariant, PTL

\* Only an exposition changes what is shown.
LEMMA OnlyEmitShows == ASSUME [Next]_vars, ~Emit PROVE shown' = shown
<1>1. CASE Scrape
  BY <1>1 DEF Scrape, Lookup, ApplyDelta, FoldToUnknown
<1>2. CASE ReconcileOnce
  BY <1>2 DEF ReconcileOnce, Sync, Learn, SettleAttributionChange, InsertMAC, GhostGoneMACs,
     PruneServerSettled, PruneTenantSettled
<1>3. CASE GhostSweep
  BY <1>3 DEF GhostSweep, Classify, LookupSwept, SettleSwept, DeleteUserspace
<1>4. CASE Collect
  <2>1. Snapshot \/ \E m \in col.todo : Resolve(m)
    BY <1>4 DEF Collect
  <2>2. ASSUME NEW m, Resolve(m) PROVE shown' = shown
    BY <2>2 DEF Resolve
  <2>3. Snapshot => shown' = shown
    BY DEF Snapshot
  <2> QED BY <2>1, <2>2, <2>3
<1>5. CASE \/ \E s \in Servers \cap Mortal : Die({s}, {})
           \/ \E t \in Tenants \cap Mortal : Die({}, {t})
  BY <1>5 DEF Die
<1>6. CASE UNCHANGED vars
  BY <1>6 DEF vars
<1> QED BY <1>1, <1>2, <1>3, <1>4, <1>5, <1>6 DEF Next

\* From one scrape of Prometheus to the next no series outside the windows
\* decreases while its owner lives, and the total never does (Collect).
THEOREM SeriesNeverDip == Spec => SeriesMonotone
<1> DEFINE A == /\ \A x \in Sound : shown'.series[x] >= shown.series[x]
                /\ shown'.total >= shown.total
<1>1. IInv /\ [Next]_vars => [A]_vars
  <2> SUFFICES ASSUME IInv, [Next]_vars PROVE A
    OBVIOUS
  <2>0. (\A x \in Sound : shown.series[x] \in Nat) /\ shown.total \in Nat
    BY SoundSeries DEF IInv, TypeOK
  <2>1. CASE Emit
    <3>1. /\ col.busy /\ shown'.total = ExpectedTotal
          /\ shown' \in [scrapes : Nat, series : [Series -> Nat], total : Nat]
          /\ \A x \in Sound : Expected(x) = shown'.series[x]
      BY <2>1, EmitShows DEF IInv
    <3>2. /\ \A x \in Sound : shown.series[x] <= shown'.series[x]
          /\ shown.total <= shown'.total
      BY <3>1 DEF IInv, CollectInv
    <3>3. (\A x \in Sound : shown'.series[x] \in Nat) /\ shown'.total \in Nat
      BY <3>1, SoundSeries DEF IInv
    <3> QED BY <2>0, <3>2, <3>3
  <2>2. CASE ~Emit
    <3>1. shown' = shown
      BY <2>2, OnlyEmitShows
    <3> QED BY <2>0, <3>1
  <2> QED BY <2>1, <2>2
<1> QED BY <1>1, TierInvariant, PTL DEF Spec, SeriesMonotone
=============================================================================
