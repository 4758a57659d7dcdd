------------------------- MODULE ScenarioRunProofs -------------------------
(***************************************************************************)
(* Proofs about the live scenario commands, for any topology, scripts and  *)
(* number of runs, faults and crashes.  The invariants rest on each other: *)
(*                                                                         *)
(* Plan: what is left to do is an end of what the phase has to do.  A      *)
(* create of anything no sweep finds is followed at once by its record.    *)
(* Memory: the types.                                                      *)
(*                                                                         *)
(* ConfigKnown: while no loss was declared, a patched config is owed a     *)
(* restore by the script that patched it, and the backup is the own one.   *)
(*                                                                         *)
(* Rooted: OpenStack keeps no port without its subnet or network.          *)
(* Record: a command that may create has saved what it knows, and with it  *)
(* a teardown finds what was never recorded: servers, ports and subnets.   *)
(* Lag: of the rest a command leaves at most one resource unrecorded.      *)
(*                                                                         *)
(* Remaining: while a teardown has not failed, every live resource has the *)
(* operation that ends it still to come; Erased: at its end none is left.  *)
(***************************************************************************)
EXTENDS ScenarioRun, TLAPS, WellFoundedInduction, NaturalsInduction,
        FiniteSetTheorems, SequenceTheorems

(***************************************************************************)
(* Concatenations                                                          *)
(***************************************************************************)
\* A nonempty set of naturals has a least element.
LEMMA LeastNat ==
    ASSUME NEW S \in SUBSET Nat, S # {}
    PROVE  \E i \in S : \A j \in S : i <= j
<1>1. PICK i \in S : \A j \in S : <<j, i>> \notin OpToRel(<, Nat)
  BY NatLessThanWellFounded, WFMin
<1>2. \A j \in S : ~(j < i)
  BY <1>1 DEF OpToRel
<1> QED BY <1>2

\* f is the recursive function of FlattenSeq, up to n.
Flattens(f, ss, n) == f = [i \in 1..n |-> IF i = 1 THEN ss[i] ELSE f[i - 1] \o ss[i]]

\* FlattenSeq is the last value of that function.
LEMMA FlattenDef ==
    ASSUME NEW ss, Len(ss) # 0
    PROVE  FlattenSeq(ss) = (CHOOSE f : Flattens(f, ss, Len(ss)))[Len(ss)]
  BY DEF FlattenSeq, Flattens

\* That function exists.
LEMMA FlattenExists ==
    ASSUME NEW ss, NEW n \in Nat
    PROVE  \E f : Flattens(f, ss, n)
<1> DEFINE Bad == {m \in Nat : ~\E f : Flattens(f, ss, m)}
<1> SUFFICES ASSUME Bad # {} PROVE FALSE
  OBVIOUS
<1>1. PICK m \in Bad : \A k \in Bad : m <= k
  BY LeastNat
<1>2. m \in Nat /\ ~\E f : Flattens(f, ss, m)
  BY <1>1
<1>3. CASE m = 0
  <2>1. Flattens([i \in 1..0 |-> 0], ss, 0)
    BY DEF Flattens
  <2> QED BY <1>2, <1>3, <2>1
<1>4. CASE m # 0
  <2>1. m - 1 \in Nat /\ ~(m <= m - 1)
    BY <1>2, <1>4
  <2>2. PICK g : Flattens(g, ss, m - 1)
    BY <1>1, <2>1
  <2> DEFINE f == [i \in 1..m |-> IF i = 1 THEN ss[i] ELSE g[i - 1] \o ss[i]]
  <2>3. ASSUME NEW i \in 1..m, i # 1 PROVE f[i - 1] = g[i - 1]
    <3>1. i - 1 \in 1..m /\ i - 1 \in 1..(m - 1)
      BY <1>2, <2>3
    <3> QED BY <2>2, <3>1 DEF Flattens
  <2>4. Flattens(f, ss, m)
    BY <2>3 DEF Flattens
  <2> QED BY <1>2, <2>4
<1> QED BY <1>3, <1>4

\* What FlattenSeq computes, step by step.
LEMMA FlattenSteps ==
    ASSUME NEW W, NEW ss \in Seq(W), Len(ss) # 0
    PROVE  \E f : /\ FlattenSeq(ss) = f[Len(ss)]
                  /\ f[1] = ss[1]
                  /\ \A i \in 2..Len(ss) : f[i] = f[i - 1] \o ss[i]
<1> DEFINE n == Len(ss)
           f == CHOOSE f : Flattens(f, ss, n)
<1>1. n \in Nat /\ n # 0
  OBVIOUS
<1>2. Flattens(f, ss, n)
  BY <1>1, FlattenExists
<1>3. FlattenSeq(ss) = f[n]
  BY FlattenDef
<1> HIDE DEF f
<1>4. f = [i \in 1..n |-> IF i = 1 THEN ss[i] ELSE f[i - 1] \o ss[i]]
  BY <1>2 DEF Flattens
<1>5. \A i \in 1..n : f[i] = IF i = 1 THEN ss[i] ELSE f[i - 1] \o ss[i]
  BY <1>4
<1>6. f[1] = ss[1]
  BY <1>1, <1>5
<1>7. ASSUME NEW i \in 2..n PROVE f[i] = f[i - 1] \o ss[i]
  <2>1. i \in 1..n /\ i # 1
    BY <1>1
  <2> QED BY <1>5, <2>1
<1> QED BY <1>3, <1>6, <1>7

\* A class of sequences that concatenation keeps holds what its members
\* flatten to.
LEMMA FlattenClosed ==
    ASSUME NEW W, <<>> \in W, \A s, t \in W : s \o t \in W,
           NEW ss \in Seq(W)
    PROVE  FlattenSeq(ss) \in W
<1>1. CASE Len(ss) = 0
  <2>1. ss = <<>>
    BY <1>1, EmptySeq
  <2> QED BY <1>1, <2>1 DEF FlattenSeq
<1>2. CASE Len(ss) # 0
  <2> DEFINE n == Len(ss)
  <2>1. n \in Nat /\ n # 0 /\ \A i \in 1..n : ss[i] \in W
    BY <1>2
  <2>2. PICK f : /\ FlattenSeq(ss) = f[n]
                 /\ f[1] = ss[1]
                 /\ \A i \in 2..n : f[i] = f[i - 1] \o ss[i]
    BY <1>2, FlattenSteps
  <2> HIDE DEF n
  <2> DEFINE Bad == {i \in 1..n : f[i] \notin W}
  <2>3. Bad = {}
    <3> SUFFICES ASSUME Bad # {} PROVE FALSE
      OBVIOUS
    <3>0. Bad \in SUBSET Nat
      OBVIOUS
    <3>1. PICK i \in Bad : \A k \in Bad : i <= k
      <4> HIDE DEF Bad
      <4> QED BY <3>0, LeastNat
    <3>2. i \in 1..n /\ f[i] \notin W
      BY <3>1
    <3>3. i # 1
      BY <2>1, <2>2, <3>2
    <3>4. i - 1 \in 1..n /\ ~(i <= i - 1) /\ i \in 2..n
      BY <2>1, <3>2, <3>3
    <3>5. f[i - 1] \in W
      BY <3>1, <3>4
    <3>6. ss[i] \in W /\ f[i] = f[i - 1] \o ss[i]
      BY <2>1, <2>2, <3>4
    <3> QED BY <3>2, <3>5, <3>6
  <2> QED BY <2>1, <2>2, <2>3
<1> QED BY <1>1, <1>2

\* op occurs in s.
Has(s, op) == \E i \in 1..Len(s) : s[i] = op

\* A concatenation has what either of its parts has.
LEMMA HasConcat ==
    ASSUME NEW E, NEW s \in Seq(E), NEW t \in Seq(E), NEW op, Has(s, op) \/ Has(t, op)
    PROVE  Has(s \o t, op)
<1>1. CASE Has(s, op)
  BY <1>1, ConcatProperties DEF Has
<1>2. CASE Has(t, op)
  <2>1. PICK i \in 1..Len(t) : t[i] = op
    BY <1>2 DEF Has
  <2>2. Len(s) + i \in 1..Len(s \o t) /\ (s \o t)[Len(s) + i] = op
    BY <2>1, ConcatProperties
  <2> QED BY <2>2 DEF Has
<1> QED BY <1>1, <1>2

\* What is taken from the front of a sequence is its head.
LEMMA HasTail ==
    ASSUME NEW E, NEW s \in Seq(E), s # <<>>, NEW op, Has(s, op)
    PROVE  op = Head(s) \/ Has(Tail(s), op)
<1>1. PICK i \in 1..Len(s) : s[i] = op
  BY DEF Has
<1>2. CASE i = 1
  BY <1>1, <1>2, HeadTailProperties
<1>3. CASE i # 1
  <2>1. i - 1 \in 1..Len(Tail(s)) /\ Tail(s)[i - 1] = op
    BY <1>1, <1>3, HeadTailProperties
  <2> QED BY <2>1 DEF Has
<1> QED BY <1>2, <1>3

\* What occurs in one of the sequences occurs in what they flatten to.
LEMMA FlattenHas ==
    ASSUME NEW E, NEW ss \in Seq(Seq(E)), NEW k \in 1..Len(ss), NEW op, Has(ss[k], op)
    PROVE  Has(FlattenSeq(ss), op)
<1> DEFINE n == Len(ss)
<1>1. n \in Nat /\ n # 0 /\ k \in 1..n /\ \A i \in 1..n : ss[i] \in Seq(E)
  OBVIOUS
<1>2. PICK f : /\ FlattenSeq(ss) = f[n]
               /\ f[1] = ss[1]
               /\ \A i \in 2..n : f[i] = f[i - 1] \o ss[i]
  BY <1>1, FlattenSteps
<1> HIDE DEF n
<1> DEFINE Bad == {i \in 1..n : f[i] \notin Seq(E) \/ (i >= k /\ ~Has(f[i], op))}
<1>3. Bad = {}
  <2> SUFFICES ASSUME Bad # {} PROVE FALSE
    OBVIOUS
  <2>0. Bad \in SUBSET Nat
    OBVIOUS
  <2>1. PICK i \in Bad : \A j \in Bad : i <= j
    <3> HIDE DEF Bad
    <3> QED BY <2>0, LeastNat
  <2>2. i \in 1..n /\ (f[i] \notin Seq(E) \/ (i >= k /\ ~Has(f[i], op)))
    BY <2>1
  <2>3. i # 1
    <3> SUFFICES ASSUME i = 1 PROVE FALSE
      OBVIOUS
    <3>1. f[i] \in Seq(E) /\ i >= k /\ ~Has(f[i], op)
      BY <1>1, <1>2, <2>2
    <3>2. k = 1
      BY <1>1, <3>1
    <3> QED BY <1>2, <3>1, <3>2
  <2>4. i - 1 \in 1..n /\ ~(i <= i - 1) /\ i \in 2..n
    BY <1>1, <2>2, <2>3
  <2>5. i - 1 \notin Bad
    <3> HIDE DEF Bad
    <3> QED BY <2>1, <2>4
  <2>6. f[i - 1] \in Seq(E) /\ (i - 1 >= k => Has(f[i - 1], op))
    BY <2>4, <2>5
  <2>7. ss[i] \in Seq(E) /\ f[i] = f[i - 1] \o ss[i]
    BY <1>1, <1>2, <2>4
  <2>8. f[i] \in Seq(E)
    BY <2>6, <2>7
  <2>9. i >= k /\ ~Has(f[i], op)
    BY <2>2, <2>8
  <2>10. CASE i = k
    BY <2>6, <2>7, <2>9, <2>10, HasConcat
  <2>11. CASE i # k
    <3>1. i - 1 >= k
      BY <1>1, <2>4, <2>9, <2>11
    <3> QED BY <2>6, <2>7, <2>9, <3>1, HasConcat
  <2> QED BY <2>10, <2>11
<1>4. n \in 1..n /\ n >= k
  BY <1>1
<1>5. Has(f[n], op)
  BY <1>3, <1>4
<1> QED BY <1>2, <1>5

\* The resources of a set, in the order of the topology.
LEMMA InOrderSeq ==
    ASSUME NEW S
    PROVE  /\ InOrder(S) \in Seq(S \cap Resources)
           /\ \A x \in S \cap Resources : Has(InOrder(S), x)
<1> DEFINE E == S \cap Resources
           ss == [i \in DOMAIN Order |-> IF Order[i] \in S THEN <<Order[i]>> ELSE <<>>]
<1>1. InOrder(S) = FlattenSeq(ss)
  BY DEF InOrder, ForEach
<1>2. DOMAIN Order = 1..Len(Order) /\ Len(Order) \in Nat
  BY TopologyAssumption, LenProperties
<1>3. ASSUME NEW i \in 1..Len(Order) PROVE ss[i] \in Seq(E)
  <2>1. Order[i] \in Resources
    BY <1>2 DEF Resources
  <2>2. CASE Order[i] \in S
    <3>1. ss[i] = <<Order[i]>> /\ Order[i] \in E
      BY <1>2, <2>1, <2>2
    <3>2. <<Order[i]>> \in Seq(E)
      <4> HIDE DEF ss, E
      <4> QED BY <3>1
    <3> QED BY <3>1, <3>2
  <2>3. CASE Order[i] \notin S
    <3>1. ss[i] = <<>>
      BY <1>2, <2>3
    <3> QED BY <3>1
  <2> QED BY <2>2, <2>3
<1>4. ss \in Seq(Seq(E)) /\ Len(ss) = Len(Order)
  <2>1. ss \in [1..Len(Order) -> Seq(E)]
    BY <1>2, <1>3
  <2> HIDE DEF ss, E
  <2> QED BY <1>2, <2>1
<1>5. \A s, t \in Seq(E) : s \o t \in Seq(E)
  BY ConcatProperties
<1>6. FlattenSeq(ss) \in Seq(E)
  <2>1. <<>> \in Seq(E)
    OBVIOUS
  <2> HIDE DEF ss, E
  <2> QED BY <1>4, <1>5, <2>1, FlattenClosed
<1>7. ASSUME NEW x \in E PROVE Has(FlattenSeq(ss), x)
  <2>1. PICK i \in 1..Len(Order) : Order[i] = x
    BY <1>2 DEF Resources
  <2>2. ss[i] = <<x>>
    BY <1>2, <2>1
  <2>3. Has(ss[i], x)
    <3>1. Has(<<x>>, x)
      BY DEF Has
    <3> QED BY <2>2, <3>1
  <2>4. i \in 1..Len(ss)
    BY <1>4
  <2> HIDE DEF ss, E
  <2> QED BY <1>4, <2>3, <2>4, FlattenHas
<1> QED BY <1>1, <1>6, <1>7

(***************************************************************************)
(* The operations of the phases                                            *)
(***************************************************************************)
\* Operations without an argument, on a resource of these kinds, on two.
Bare(verbs) == {<<v>> : v \in verbs}
On(verbs, kinds) == verbs \X {x \in Resources : Kind[x] \in kinds}
Both(verbs) == verbs \X Resources \X Resources

\* The operations of the parts of realize.Run.
Makes == {"create", "record"}
ProjectOps == Bare({"wait"}) \cup On(Makes, {"project"})
NetworkOps == On(Makes, {"network"})
SubnetOps == On(Makes, {"subnet"})
LateOps == Bare({"wait", "save"}) \cup On(Makes, {"router", "port", "server", "fip", "lb"})
           \cup Both({"attach"}) \cup On({"routes"}, {"router"})
\* What the steps do, the changes of the agent's config apart.
PlainOps ==
    Bare({"wait", "save", "baseline", "stop", "start", "restart", "ready", "hup"})
    \cup On(Makes, {"port", "server", "fip"}) \cup On({"delete"}, Kinds) \cup On({"gone"}, {"server", "lb"})
    \cup On({"forget"}, {"port"}) \cup On({"need"}, Kinds) \cup On({"routes", "clear"}, {"router"})
    \cup Both({"plug", "unplug"})
\* What the parts of the teardown do, its last one apart.
DownOps ==
    On({"delete"}, Kinds) \cup On({"gone"}, {"server", "lb"}) \cup On({"servers"}, {"project"})
    \cup On({"ports"}, {"network"}) \cup On({"clear"}, {"router"}) \cup Both({"detach"})

\* The i-th operation of s is a create, and its record follows, at most a read
\* between the two; or a forget, and the deletion goes before it.
RecordedNext(s, i) ==
    \/ i < Len(s) /\ s[i + 1] = <<"record", s[i][2]>>
    \/ i + 1 < Len(s) /\ s[i + 1] = <<"wait">> /\ s[i + 2] = <<"record", s[i][2]>>
DeletedFirst(s, i) == i > 1 /\ s[i - 1] = <<"delete", s[i][2]>>
Chained(s) == \A i \in 1..Len(s) :
    /\ s[i][1] = "create" => RecordedNext(s, i)
    /\ s[i][1] = "forget" => DeletedFirst(s, i)
Chains(Ops) == {s \in Seq(Ops) : Chained(s)}
\* What is left of a chain: it may begin with a forget.
Rest(s) == \A i \in 1..Len(s) :
    /\ s[i][1] = "create" => RecordedNext(s, i)
    /\ s[i][1] = "forget" /\ i > 1 => DeletedFirst(s, i)
Rests(Ops) == {s \in Seq(Ops) : Rest(s)}

\* Chains put together are a chain.
LEMMA ChainsConcat ==
    ASSUME NEW Ops, NEW s \in Chains(Ops), NEW t \in Chains(Ops)
    PROVE  s \o t \in Chains(Ops)
<1> DEFINE m == Len(s)
           n == Len(t)
           u == s \o t
<1>1. /\ s \in Seq(Ops) /\ t \in Seq(Ops) /\ Chained(s) /\ Chained(t)
  BY DEF Chains
<1>2. /\ m \in Nat /\ n \in Nat /\ u \in Seq(Ops) /\ Len(u) = m + n
      /\ \A i \in 1..m + n : u[i] = IF i <= m THEN s[i] ELSE t[i - m]
  BY <1>1, ConcatProperties
<1>a. /\ \A i \in 1..m : u[i] = s[i]
      /\ \A j \in 1..n : m + j \in 1..m + n /\ u[m + j] = t[j]
  <2>1. \A i \in 1..m : i \in 1..m + n /\ i <= m
    BY <1>2
  <2>2. \A j \in 1..n : m + j \in 1..m + n /\ ~(m + j <= m) /\ m + j - m = j
    BY <1>2
  <2> HIDE DEF u, m, n
  <2> QED BY <1>2, <2>1, <2>2
<1>b. /\ \A i \in 1..m : s[i][1] = "create" => RecordedNext(s, i)
      /\ \A i \in 1..m : s[i][1] = "forget" => DeletedFirst(s, i)
      /\ \A i \in 1..n : t[i][1] = "create" => RecordedNext(t, i)
      /\ \A i \in 1..n : t[i][1] = "forget" => DeletedFirst(t, i)
  BY <1>1 DEF Chained
<1>3. ASSUME NEW i \in 1..m
      PROVE  /\ u[i][1] = "create" => RecordedNext(u, i)
             /\ u[i][1] = "forget" => DeletedFirst(u, i)
  <2>1. u[i] = s[i]
    BY <1>a
  <2>2. ASSUME u[i][1] = "create" PROVE RecordedNext(u, i)
    <3>1. RecordedNext(s, i)
      BY <1>b, <2>1, <2>2
    <3>2. CASE i < m /\ s[i + 1] = <<"record", s[i][2]>>
      <4>1. i + 1 \in 1..m /\ i < m + n
        BY <1>2, <3>2
      <4>2. u[i + 1] = s[i + 1]
        BY <1>a, <4>1
      <4> QED BY <1>2, <2>1, <3>2, <4>1, <4>2 DEF RecordedNext
    <3>3. CASE i + 1 < m /\ s[i + 1] = <<"wait">> /\ s[i + 2] = <<"record", s[i][2]>>
      <4>1. i + 1 \in 1..m /\ i + 2 \in 1..m /\ i + 1 < m + n
        BY <1>2, <3>3
      <4>2. u[i + 1] = s[i + 1] /\ u[i + 2] = s[i + 2]
        BY <1>a, <4>1
      <4> QED BY <1>2, <2>1, <3>3, <4>1, <4>2 DEF RecordedNext
    <3> QED BY <3>1, <3>2, <3>3 DEF RecordedNext
  <2>3. ASSUME u[i][1] = "forget" PROVE DeletedFirst(u, i)
    <3>1. i > 1 /\ s[i - 1] = <<"delete", s[i][2]>>
      BY <1>b, <2>1, <2>3 DEF DeletedFirst
    <3>2. i - 1 \in 1..m
      BY <1>2, <3>1
    <3>3. u[i - 1] = s[i - 1]
      BY <1>a, <3>2
    <3> QED BY <2>1, <3>1, <3>3 DEF DeletedFirst
  <2> QED BY <2>2, <2>3
<1>4. ASSUME NEW j \in 1..n
      PROVE  /\ u[m + j][1] = "create" => RecordedNext(u, m + j)
             /\ u[m + j][1] = "forget" => DeletedFirst(u, m + j)
  <2>1. u[m + j] = t[j]
    BY <1>a
  <2>2. ASSUME u[m + j][1] = "create" PROVE RecordedNext(u, m + j)
    <3>1. RecordedNext(t, j)
      BY <1>b, <2>1, <2>2
    <3>2. CASE j < n /\ t[j + 1] = <<"record", t[j][2]>>
      <4>1. j + 1 \in 1..n /\ m + j < m + n /\ m + (j + 1) = m + j + 1
        BY <1>2, <3>2
      <4>2. u[m + (j + 1)] = t[j + 1]
        BY <1>a, <4>1
      <4>3. u[m + j + 1] = t[j + 1]
        BY <4>1, <4>2
      <4> HIDE DEF u
      <4> QED BY <1>2, <2>1, <3>2, <4>1, <4>3 DEF RecordedNext
    <3>3. CASE j + 1 < n /\ t[j + 1] = <<"wait">> /\ t[j + 2] = <<"record", t[j][2]>>
      <4>1. /\ j + 1 \in 1..n /\ j + 2 \in 1..n /\ m + j + 1 < m + n
            /\ m + (j + 1) = m + j + 1 /\ m + (j + 2) = m + j + 2
        BY <1>2, <3>3
      <4>2. u[m + (j + 1)] = t[j + 1] /\ u[m + (j + 2)] = t[j + 2]
        BY <1>a, <4>1
      <4>3. u[m + j + 1] = t[j + 1] /\ u[m + j + 2] = t[j + 2]
        BY <4>1, <4>2
      <4> HIDE DEF u
      <4> QED BY <1>2, <2>1, <3>3, <4>1, <4>3 DEF RecordedNext
    <3> QED BY <3>1, <3>2, <3>3 DEF RecordedNext
  <2>3. ASSUME u[m + j][1] = "forget" PROVE DeletedFirst(u, m + j)
    <3>1. j > 1 /\ t[j - 1] = <<"delete", t[j][2]>>
      BY <1>b, <2>1, <2>3 DEF DeletedFirst
    <3>2. j - 1 \in 1..n /\ m + j > 1 /\ m + (j - 1) = m + j - 1
      BY <1>2, <3>1
    <3>3. u[m + (j - 1)] = t[j - 1]
      BY <1>a, <3>2
    <3>4. u[m + j - 1] = t[j - 1]
      BY <3>2, <3>3
    <3> HIDE DEF u
    <3> QED BY <2>1, <3>1, <3>2, <3>4 DEF DeletedFirst
  <2> QED BY <2>2, <2>3
<1>5. ASSUME NEW i \in 1..m + n PROVE i \in 1..m \/ \E j \in 1..n : i = m + j
  <2>1. i <= m => i \in 1..m
    BY <1>2
  <2>2. ~(i <= m) => i - m \in 1..n /\ i = m + (i - m)
    BY <1>2
  <2> QED BY <2>1, <2>2
<1>6. Chained(u)
  <2> HIDE DEF u, m, n
  <2>1. ASSUME NEW i \in 1..m + n
        PROVE  /\ u[i][1] = "create" => RecordedNext(u, i)
               /\ u[i][1] = "forget" => DeletedFirst(u, i)
    BY <1>3, <1>4, <1>5
  <2> QED BY <1>2, <2>1 DEF Chained
<1> QED BY <1>2, <1>6 DEF Chains

\* A chain is what is left of itself, and in the end nothing is.
LEMMA ChainsRest == ASSUME NEW Ops, NEW s \in Chains(Ops) PROVE s \in Rests(Ops)
  BY DEF Chains, Chained, Rests, Rest
LEMMA RestsEmpty == ASSUME NEW Ops PROVE <<>> \in Rests(Ops)
  BY DEF Rests, Rest

\* What is left of a chain, cut at the front.
LEMMA RestsTail ==
    ASSUME NEW Ops, NEW s \in Rests(Ops), s # <<>>
    PROVE  Tail(s) \in Rests(Ops)
<1> DEFINE t == Tail(s)
           n == Len(t)
<1>1. s \in Seq(Ops) /\ Rest(s)
  BY DEF Rests
<1>2. /\ t \in Seq(Ops) /\ n = Len(s) - 1 /\ Len(s) \in Nat /\ n \in Nat
      /\ \A i \in 1..n : t[i] = s[i + 1]
  BY <1>1, HeadTailProperties, LenProperties
<1>3. ASSUME NEW i \in 1..n
      PROVE  /\ t[i][1] = "create" => RecordedNext(t, i)
             /\ t[i][1] = "forget" /\ i > 1 => DeletedFirst(t, i)
  <2>0. i + 1 \in 1..Len(s) /\ i + 1 > 1 /\ t[i] = s[i + 1]
    BY <1>2
  <2>1. /\ s[i + 1][1] = "create" => RecordedNext(s, i + 1)
        /\ s[i + 1][1] = "forget" => DeletedFirst(s, i + 1)
    BY <1>1, <2>0 DEF Rest
  <2>2. ASSUME t[i][1] = "create" PROVE RecordedNext(t, i)
    <3>1. RecordedNext(s, i + 1)
      BY <2>0, <2>1, <2>2
    <3>2. CASE i + 1 < Len(s) /\ s[i + 1 + 1] = <<"record", s[i + 1][2]>>
      <4>1. i + 1 \in 1..n /\ i < n
        BY <1>2, <3>2
      <4>2. t[i + 1] = s[i + 1 + 1]
        BY <1>2, <4>1
      <4> HIDE DEF t
      <4> QED BY <2>0, <3>2, <4>1, <4>2 DEF RecordedNext
    <3>3. CASE i + 1 + 1 < Len(s) /\ s[i + 1 + 1] = <<"wait">> /\ s[i + 1 + 2] = <<"record", s[i + 1][2]>>
      <4>1. i + 1 \in 1..n /\ i + 2 \in 1..n /\ i + 1 < n /\ i + 2 + 1 = i + 1 + 2
        BY <1>2, <3>3
      <4>2. t[i + 1] = s[i + 1 + 1] /\ t[i + 2] = s[i + 2 + 1]
        BY <1>2, <4>1
      <4>3. t[i + 2] = s[i + 1 + 2]
        BY <4>1, <4>2
      <4> HIDE DEF t
      <4> QED BY <2>0, <3>3, <4>1, <4>2, <4>3 DEF RecordedNext
    <3> QED BY <3>1, <3>2, <3>3 DEF RecordedNext
  <2>3. ASSUME t[i][1] = "forget", i > 1 PROVE DeletedFirst(t, i)
    <3>1. s[i + 1 - 1] = <<"delete", s[i + 1][2]>>
      BY <2>0, <2>1, <2>3 DEF DeletedFirst
    <3>2. i - 1 \in 1..n /\ i - 1 + 1 = i + 1 - 1
      BY <1>2, <2>3
    <3>3. t[i - 1] = s[i - 1 + 1]
      BY <1>2, <3>2
    <3>4. t[i - 1] = s[i + 1 - 1]
      BY <3>2, <3>3
    <3> HIDE DEF t
    <3> QED BY <2>0, <2>3, <3>1, <3>4 DEF DeletedFirst
  <2> QED BY <2>2, <2>3
<1>4. Rest(t)
  BY <1>3 DEF Rest
<1> QED BY <1>2, <1>4 DEF Rests

\* So is the empty sequence.
LEMMA ChainsEmpty == ASSUME NEW Ops PROVE <<>> \in Chains(Ops)
  BY DEF Chains, Chained

\* A chain is one over more operations.
LEMMA ChainsMore ==
    ASSUME NEW Ops, NEW More, Ops \subseteq More, NEW s \in Chains(Ops)
    PROVE  s \in Chains(More)
<1>1. s \in Seq(Ops) /\ Chained(s)
  BY DEF Chains
<1>2. s \in Seq(More)
  BY <1>1
<1> QED BY <1>1, <1>2 DEF Chains

\* Chains flatten to a chain.
LEMMA ChainsFlatten ==
    ASSUME NEW Ops, NEW ss \in Seq(Chains(Ops))
    PROVE  FlattenSeq(ss) \in Chains(Ops)
<1>1. \A s, t \in Chains(Ops) : s \o t \in Chains(Ops)
  BY ChainsConcat
<1>2. <<>> \in Chains(Ops)
  BY ChainsEmpty
<1> QED BY <1>1, <1>2, FlattenClosed

\* Operations that neither create nor forget are in any order.
LEMMA ChainsPlain ==
    ASSUME NEW Ops, NEW s \in Seq(Ops), \A i \in 1..Len(s) : s[i][1] \notin {"create", "forget"}
    PROVE  s \in Chains(Ops)
  BY DEF Chains, Chained

\* A resource is made and then recorded.
LEMMA MadeChains ==
    ASSUME NEW x \in Resources
    PROVE  Made(x) \in Chains(On(Makes, {Kind[x]}))
<1> DEFINE E == On(Makes, {Kind[x]})
<1>1. <<"create", x>> \in E /\ <<"record", x>> \in E
  BY DEF On, Makes
<1>2. Made(x) \in Seq(E)
  <2> HIDE DEF E
  <2> QED BY <1>1 DEF Made
<1>3. Chained(Made(x))
  BY DEF Made, Chained, RecordedNext
<1> QED BY <1>2, <1>3 DEF Chains

\* A port too: nothing but a read is between the two.
LEMMA MadePortChains ==
    ASSUME NEW x \in Resources, Kind[x] = "port"
    PROVE  MadePort(x) \in Chains(Bare({"wait"}) \cup On(Makes, {"port"}))
<1> DEFINE E == Bare({"wait"}) \cup On(Makes, {"port"})
<1>1. <<"create", x>> \in E /\ <<"record", x>> \in E /\ <<"wait">> \in E
  BY DEF On, Makes, Bare
<1>2. MadePort(x) \in Seq(E)
  <2> HIDE DEF E
  <2> QED BY <1>1 DEF MadePort
<1>3. Chained(MadePort(x))
  BY DEF MadePort, Chained, RecordedNext
<1> QED BY <1>2, <1>3 DEF Chains

\* A sequence made of one chain for each element.
LEMMA ChainsMap ==
    ASSUME NEW Ops, NEW ss, NEW n \in Nat, ss \in [1..n -> Chains(Ops)]
    PROVE  FlattenSeq(ss) \in Chains(Ops)
<1>1. ss \in Seq(Chains(Ops))
  OBVIOUS
<1> QED BY <1>1, ChainsFlatten

\* Making resources one after the other records each of them.
LEMMA MadeAll ==
    ASSUME NEW kind, NEW s \in Seq(Of(kind, Resources))
    PROVE  /\ FlattenSeq([i \in DOMAIN s |-> Made(s[i])]) \in Chains(On(Makes, {kind}))
           /\ \A x : Has(s, x) => Has(FlattenSeq([i \in DOMAIN s |-> Made(s[i])]), <<"record", x>>)
<1> DEFINE ss == [i \in DOMAIN s |-> Made(s[i])]
           Ops == On(Makes, {kind})
<1>1. DOMAIN s = 1..Len(s) /\ Len(s) \in Nat
  BY LenProperties
<1>2. ASSUME NEW i \in 1..Len(s) PROVE Made(s[i]) \in Chains(Ops)
  <2>1. s[i] \in Resources /\ Kind[s[i]] = kind
    BY <1>1 DEF Of
  <2> QED BY <2>1, MadeChains
<1>3. ss \in [1..Len(s) -> Chains(Ops)]
  <2> HIDE DEF Ops
  <2> QED BY <1>1, <1>2
<1>4. FlattenSeq(ss) \in Chains(Ops)
  <2> HIDE DEF Ops, ss
  <2> QED BY <1>1, <1>3, ChainsMap
<1>5. ASSUME NEW x, Has(s, x) PROVE Has(FlattenSeq(ss), <<"record", x>>)
  <2>1. PICK i \in 1..Len(s) : s[i] = x
    BY <1>5 DEF Has
  <2>2. ss[i] = Made(x)
    BY <1>1, <2>1
  <2>3. Has(Made(x), <<"record", x>>)
    <3>1. Len(Made(x)) = 2 /\ Made(x)[2] = <<"record", x>>
      BY DEF Made
    <3> QED BY <3>1 DEF Has
  <2>4. ss \in [1..Len(s) -> Seq(Ops)]
    <3> HIDE DEF Ops, ss
    <3> QED BY <1>3 DEF Chains
  <2>5. ss \in Seq(Seq(Ops)) /\ Len(ss) = Len(s)
    <3> HIDE DEF Ops, ss
    <3> QED BY <1>1, <2>4
  <2> HIDE DEF Ops, ss
  <2> QED BY <2>1, <2>2, <2>3, <2>5, FlattenHas
<1> QED BY <1>4, <1>5

\* The same of ports.
LEMMA MadeAllPorts ==
    ASSUME NEW s \in Seq(Of("port", Resources))
    PROVE  FlattenSeq([i \in DOMAIN s |-> MadePort(s[i])]) \in Chains(LateOps)
<1> DEFINE ss == [i \in DOMAIN s |-> MadePort(s[i])]
<1>1. DOMAIN s = 1..Len(s) /\ Len(s) \in Nat
  BY LenProperties
<1>0. Bare({"wait"}) \cup On(Makes, {"port"}) \subseteq LateOps
  BY DEF LateOps, Bare, On
<1>2. ASSUME NEW i \in 1..Len(s) PROVE MadePort(s[i]) \in Chains(LateOps)
  <2>1. s[i] \in Resources /\ Kind[s[i]] = "port"
    BY <1>1 DEF Of
  <2> QED BY <1>0, <2>1, MadePortChains, ChainsMore
<1>3. ss \in [1..Len(s) -> Chains(LateOps)]
  BY <1>1, <1>2
<1>4. FlattenSeq(ss) \in Chains(LateOps)
  <2> HIDE DEF ss
  <2> QED BY <1>1, <1>3, ChainsMap
<1> QED BY <1>4

\* The resources that realize.Run makes itself.
LEMMA PlannedSeq ==
    ASSUME NEW kind
    PROVE  /\ Planned(kind) \in Seq(Of(kind, Resources))
           /\ \A x \in Of(kind, Resources \ (Deferred \cup Platform)) : Has(Planned(kind), x)
<1> DEFINE S == Of(kind, Resources \ (Deferred \cup Platform))
<1>1. S \cap Resources \subseteq Of(kind, Resources) /\ S \cap Resources = S
  BY DEF Of
<1>2. InOrder(S) \in Seq(S \cap Resources) /\ \A x \in S \cap Resources : Has(InOrder(S), x)
  <2> HIDE DEF S
  <2> QED BY InOrderSeq
<1>3. Planned(kind) = InOrder(S)
  BY DEF Planned
<1>4. InOrder(S) \in Seq(Of(kind, Resources))
  <2> HIDE DEF S
  <2> QED BY <1>1, <1>2
<1> HIDE DEF S
<1>5. \A x \in S : Has(Planned(kind), x)
  BY <1>1, <1>2, <1>3
<1> QED BY <1>3, <1>4, <1>5 DEF S

\* What is made after the subnets.
LEMMA LateMade ==
    ASSUME NEW kind \in {"router", "port", "server", "fip", "lb"}, NEW s \in Seq(Of(kind, Resources))
    PROVE  FlattenSeq([i \in DOMAIN s |-> Made(s[i])]) \in Chains(LateOps)
<1>1. On(Makes, {kind}) \subseteq LateOps
  BY DEF LateOps, On
<1>2. FlattenSeq([i \in DOMAIN s |-> Made(s[i])]) \in Chains(On(Makes, {kind}))
  BY MadeAll
<1> QED BY <1>1, <1>2, ChainsMore

\* The floating IPs on some ports are floating IPs.
LEMMA FIPsSeq == ASSUME NEW P PROVE FIPsOf(P) \in Seq(Of("fip", Resources))
<1> DEFINE S == {x \in Of("fip", Resources \ Deferred) : Parent[x] \in P}
<1>1. S \cap Resources \subseteq Of("fip", Resources)
  BY DEF Of
<1>2. InOrder(S) \in Seq(S \cap Resources)
  <2> HIDE DEF S
  <2> QED BY InOrderSeq
<1>3. InOrder(S) \in Seq(Of("fip", Resources))
  <2> HIDE DEF S
  <2> QED BY <1>1, <1>2
<1> QED BY <1>3 DEF FIPsOf

\* A read alone is a chain.
LEMMA WaitChains ==
    ASSUME NEW Ops, <<"wait">> \in Ops
    PROVE  << <<"wait">> >> \in Chains(Ops)
<1>1. << <<"wait">> >> \in Seq(Ops)
  OBVIOUS
<1>2. Chained(<< <<"wait">> >>)
  BY DEF Chained
<1> QED BY <1>1, <1>2 DEF Chains

\* The parts of realize.Run after the subnets: the router interfaces.
LEMMA LateInterfaces == routerInterfaces \in Chains(LateOps)
<1> DEFINE Op(l) == (IF Kind[l[2]] = "port" THEN MadePort(l[2]) ELSE <<>>) \o << <<"attach", l[1], l[2]>> >>
           ss == [i \in DOMAIN Links |-> Op(Links[i])]
<1>1. routerInterfaces = FlattenSeq(ss)
  BY DEF routerInterfaces, ForEach
<1>2. DOMAIN Links = 1..Len(Links) /\ Len(Links) \in Nat
  BY ScenarioAssumption, LenProperties
<1>3. ASSUME NEW i \in 1..Len(Links) PROVE Op(Links[i]) \in Chains(LateOps)
  <2>1. /\ Links[i][1] \in Of("router", Resources)
        /\ Links[i][2] \in Of("subnet", Resources) \cup Of("port", Resources)
    <3>1. Links[i] \in Of("router", Resources) \X (Of("subnet", Resources) \cup Of("port", Resources))
      BY <1>2, ScenarioAssumption
    <3> QED BY <3>1
  <2> DEFINE r == Links[i][1]
             x == Links[i][2]
  <2>2. r \in Resources /\ x \in Resources
    BY <2>1 DEF Of
  <2>3. (IF Kind[x] = "port" THEN MadePort(x) ELSE <<>>) \in Chains(LateOps)
    <3>1. Bare({"wait"}) \cup On(Makes, {"port"}) \subseteq LateOps
      BY DEF LateOps, Bare, On
    <3>2. CASE Kind[x] = "port"
      BY <2>2, <3>1, <3>2, MadePortChains, ChainsMore
    <3>3. CASE Kind[x] # "port"
      BY <3>3, ChainsEmpty
    <3> QED BY <3>2, <3>3
  <2>4. << <<"attach", r, x>> >> \in Chains(LateOps)
    <3>1. <<"attach", r, x>> \in LateOps
      BY <2>2 DEF LateOps, Both
    <3>2. << <<"attach", r, x>> >> \in Seq(LateOps)
      BY <3>1
    <3>3. Chained(<< <<"attach", r, x>> >>)
      BY DEF Chained
    <3> QED BY <3>2, <3>3 DEF Chains
  <2> HIDE DEF r, x
  <2>5. (IF Kind[x] = "port" THEN MadePort(x) ELSE <<>>) \o << <<"attach", r, x>> >> \in Chains(LateOps)
    BY <2>3, <2>4, ChainsConcat
  <2> QED BY <2>5 DEF r, x
<1>4. ss \in [1..Len(Links) -> Chains(LateOps)]
  <2> HIDE DEF Op
  <2> QED BY <1>2, <1>3
<1>5. FlattenSeq(ss) \in Chains(LateOps)
  <2> HIDE DEF ss
  <2> QED BY <1>2, <1>4, ChainsMap
<1> QED BY <1>1, <1>5

\* The static routes.
LEMMA LateRoutes == routerRoutes \in Chains(LateOps)
<1> DEFINE ss == [i \in DOMAIN StaticRoutes |-> << <<"routes", StaticRoutes[i]>> >>]
<1>1. routerRoutes = FlattenSeq(ss)
  BY DEF routerRoutes, ForEach
<1>2. DOMAIN StaticRoutes = 1..Len(StaticRoutes) /\ Len(StaticRoutes) \in Nat
  BY ScenarioAssumption, LenProperties
<1>3. ASSUME NEW i \in 1..Len(StaticRoutes) PROVE << <<"routes", StaticRoutes[i]>> >> \in Chains(LateOps)
  <2>1. StaticRoutes[i] \in Of("router", Resources)
    BY <1>2, ScenarioAssumption
  <2>2. <<"routes", StaticRoutes[i]>> \in LateOps
    BY <2>1 DEF LateOps, On, Of
  <2>3. << <<"routes", StaticRoutes[i]>> >> \in Seq(LateOps)
    BY <2>2
  <2>4. Chained(<< <<"routes", StaticRoutes[i]>> >>)
    BY DEF Chained
  <2> QED BY <2>3, <2>4 DEF Chains
<1>4. ss \in [1..Len(StaticRoutes) -> Chains(LateOps)]
  BY <1>2, <1>3
<1>5. FlattenSeq(ss) \in Chains(LateOps)
  <2> HIDE DEF ss
  <2> QED BY <1>2, <1>4, ChainsMap
<1> QED BY <1>1, <1>5

\* A read.
LEMMA LateWait == <<"wait">> \in LateOps /\ << <<"wait">> >> \in Chains(LateOps)
<1>1. <<"wait">> \in LateOps
  BY DEF LateOps, Bare
<1> QED BY <1>1, WaitChains

\* The VMs' ports, and the count of the taps.
LEMMA LatePorts == vmPorts \o Baseline \in Chains(LateOps)
<1> DEFINE S == {Parent[v] : v \in Of("server", Resources \ Deferred)}
<1>1. S \subseteq Of("port", Resources)
  BY TopologyAssumption DEF Of
<1>2. VMPorts \in Seq(S \cap Resources)
  <2>1. VMPorts = InOrder(S)
    BY DEF VMPorts
  <2> HIDE DEF S
  <2> QED BY <2>1, InOrderSeq
<1>3. VMPorts \in Seq(Of("port", Resources))
  <2>1. S \cap Resources \subseteq Of("port", Resources)
    BY <1>1
  <2> HIDE DEF S
  <2> QED BY <1>2, <2>1
<1>4. vmPorts = FlattenSeq([i \in DOMAIN VMPorts |-> MadePort(VMPorts[i])])
  BY DEF vmPorts, ForEach
<1>5. vmPorts \in Chains(LateOps)
  BY <1>3, <1>4, MadeAllPorts
<1> QED BY <1>5, LateWait, ChainsConcat DEF Baseline

\* The boots, and the wait for them.
LEMMA LateServers == bootServers \o waitActive \in Chains(LateOps)
<1> DEFINE s == Planned("server")
<1>1. s \in Seq(Of("server", Resources))
  BY PlannedSeq
<1>2. DOMAIN s = 1..Len(s) /\ Len(s) \in Nat
  BY <1>1, LenProperties
<1> DEFINE ss == [i \in DOMAIN s |-> << <<"wait">> >>]
<1>3. bootServers = FlattenSeq([i \in DOMAIN s |-> Made(s[i])]) /\ waitActive = FlattenSeq(ss)
  BY DEF bootServers, waitActive, ForEach
<1> HIDE DEF s
<1>4. bootServers \in Chains(LateOps)
  BY <1>1, <1>3, LateMade
<1>5. ss \in [1..Len(s) -> Chains(LateOps)]
  BY <1>2, LateWait
<1>6. FlattenSeq(ss) \in Chains(LateOps)
  <2> HIDE DEF ss
  <2> QED BY <1>2, <1>5, ChainsMap
<1> QED BY <1>3, <1>4, <1>6, ChainsConcat

\* The floating IPs.
LEMMA LateFIPs == ASSUME NEW P PROVE ForEach(FIPsOf(P), Made) \in Chains(LateOps)
<1>1. ForEach(FIPsOf(P), Made) = FlattenSeq([i \in DOMAIN FIPsOf(P) |-> Made(FIPsOf(P)[i])])
  BY DEF ForEach
<1> QED BY <1>1, FIPsSeq, LateMade

\* The load balancers.
LEMMA LateBalancers == loadBalancers \in Chains(LateOps)
<1> DEFINE s == Planned("lb")
           Op(x) == Made(x) \o << <<"wait">> >>
                    \o FlattenSeq([i \in DOMAIN FIPsOf({VIPPort[x]}) |-> Made(FIPsOf({VIPPort[x]})[i])])
                    \o << <<"wait">> >>
           ss == [i \in DOMAIN s |-> Op(s[i])]
<1>1. s \in Seq(Of("lb", Resources))
  BY PlannedSeq
<1>2. DOMAIN s = 1..Len(s) /\ Len(s) \in Nat
  BY <1>1, LenProperties
<1>3. loadBalancers = FlattenSeq(ss)
  BY DEF loadBalancers, ForEach, lbBackends
<1> HIDE DEF s
<1>4. ASSUME NEW x \in Of("lb", Resources) PROVE Op(x) \in Chains(LateOps)
  <2>1. x \in Resources /\ Kind[x] = "lb"
    BY DEF Of
  <2>2. Made(x) \in Chains(LateOps)
    <3>1. On(Makes, {Kind[x]}) \subseteq LateOps
      BY <2>1 DEF LateOps, On
    <3> QED BY <2>1, <3>1, MadeChains, ChainsMore
  <2> DEFINE F == FlattenSeq([i \in DOMAIN FIPsOf({VIPPort[x]}) |-> Made(FIPsOf({VIPPort[x]})[i])])
  <2>3. F \in Chains(LateOps)
    BY FIPsSeq, LateMade
  <2> HIDE DEF F
  <2>4. Made(x) \o << <<"wait">> >> \in Chains(LateOps)
    BY <2>2, LateWait, ChainsConcat
  <2>5. Made(x) \o << <<"wait">> >> \o F \in Chains(LateOps)
    BY <2>3, <2>4, ChainsConcat
  <2>6. Made(x) \o << <<"wait">> >> \o F \o << <<"wait">> >> \in Chains(LateOps)
    BY <2>5, LateWait, ChainsConcat
  <2> QED BY <2>6 DEF F
<1>5. ss \in [1..Len(s) -> Chains(LateOps)]
  <2>1. \A i \in 1..Len(s) : s[i] \in Of("lb", Resources)
    BY <1>1, <1>2
  <2> HIDE DEF Op
  <2> QED BY <1>2, <1>4, <2>1
<1>6. FlattenSeq(ss) \in Chains(LateOps)
  <2> HIDE DEF ss
  <2> QED BY <1>2, <1>5, ChainsMap
<1> QED BY <1>3, <1>6

\* The attach gate.
LEMMA LateGate == attachGate \in Chains(LateOps)
<1>1. <<"wait">> \in LateOps /\ <<"save">> \in LateOps
  BY DEF LateOps, Bare
<1>2. attachGate \in Seq(LateOps)
  BY <1>1 DEF attachGate
<1>3. Chained(attachGate)
  BY DEF attachGate, Chained
<1> QED BY <1>2, <1>3 DEF Chains

\* The parts of realize.Run: projects, networks, subnets, and the rest.
LEMMA UpParts ==
    /\ Len(UpPlan) = 11
    /\ UpPlan[1] \in Chains(ProjectOps)
    /\ UpPlan[2] \in Chains(NetworkOps)
    /\ UpPlan[3] \in Chains(SubnetOps)
    /\ \A i \in 4..11 : UpPlan[i] \in Chains(LateOps)
<1>1. Len(UpPlan) = 11
  BY DEF UpPlan
<1>2. \A kind : FlattenSeq([i \in DOMAIN Planned(kind) |-> Made(Planned(kind)[i])]) \in Chains(On(Makes, {kind}))
  BY PlannedSeq, MadeAll
<1>3. UpPlan[1] \in Chains(ProjectOps)
  <2>1. projects = FlattenSeq([i \in DOMAIN Planned("project") |-> Made(Planned("project")[i])])
    BY DEF projects, ForEach
  <2>2. projects \in Chains(On(Makes, {"project"}))
    BY <1>2, <2>1
  <2>3. On(Makes, {"project"}) \subseteq ProjectOps /\ <<"wait">> \in ProjectOps
    BY DEF ProjectOps, Bare
  <2>4. resolvePrereqs \in Chains(ProjectOps) /\ projects \in Chains(ProjectOps)
    BY <2>2, <2>3, WaitChains, ChainsMore DEF resolvePrereqs
  <2>5. resolvePrereqs \o projects \in Chains(ProjectOps)
    BY <2>4, ChainsConcat
  <2> QED BY <2>5 DEF UpPlan
<1>4. UpPlan[2] \in Chains(NetworkOps)
  <2>1. networks = FlattenSeq([i \in DOMAIN Planned("network") |-> Made(Planned("network")[i])])
    BY DEF networks, ForEach
  <2>2. networks \in Chains(On(Makes, {"network"}))
    BY <1>2, <2>1
  <2> QED BY <2>2 DEF UpPlan, NetworkOps
<1>5. UpPlan[3] \in Chains(SubnetOps)
  <2>1. subnets = FlattenSeq([i \in DOMAIN Planned("subnet") |-> Made(Planned("subnet")[i])])
    BY DEF subnets, ForEach
  <2>2. subnets \in Chains(On(Makes, {"subnet"}))
    BY <1>2, <2>1
  <2> QED BY <2>2 DEF UpPlan, SubnetOps
<1>6. UpPlan[4] \in Chains(LateOps)
  <2>1. routers = FlattenSeq([i \in DOMAIN Planned("router") |-> Made(Planned("router")[i])])
    BY DEF routers, ForEach
  <2>2. routers \in Chains(LateOps)
    BY <2>1, PlannedSeq, LateMade
  <2> QED BY <2>2 DEF UpPlan
<1>7. allocateFIPs \in Chains(LateOps)
  BY LateFIPs DEF allocateFIPs
<1>8. ASSUME NEW i \in 4..11 PROVE UpPlan[i] \in Chains(LateOps)
  <2>1. /\ UpPlan[5] = routerInterfaces /\ UpPlan[6] = routerRoutes
        /\ UpPlan[7] = vmPorts \o Baseline /\ UpPlan[8] = bootServers \o waitActive
        /\ UpPlan[9] = allocateFIPs /\ UpPlan[10] = loadBalancers /\ UpPlan[11] = attachGate
    BY DEF UpPlan
  <2>2. i = 4 \/ i = 5 \/ i = 6 \/ i = 7 \/ i = 8 \/ i = 9 \/ i = 10 \/ i = 11
    OBVIOUS
  <2> QED BY <1>6, <1>7, <2>1, <2>2, LateInterfaces, LateRoutes, LatePorts, LateServers,
             LateBalancers, LateGate
<1> QED BY <1>1, <1>3, <1>4, <1>5, <1>8

\* Every project and every network is recorded by its part.
LEMMA UpRecords ==
    /\ \A x \in Of("project", Resources) : Has(UpPlan[1], <<"record", x>>)
    /\ \A x \in Of("network", Resources) : Has(UpPlan[2], <<"record", x>>)
<1>1. ASSUME NEW kind \in {"project", "network"}
      PROVE  \A x \in Of(kind, Resources) :
               Has(FlattenSeq([i \in DOMAIN Planned(kind) |-> Made(Planned(kind)[i])]), <<"record", x>>)
  <2>1. Of(kind, Resources) = Of(kind, Resources \ (Deferred \cup Platform))
    BY ScenarioAssumption DEF Of
  <2> QED BY <2>1, PlannedSeq, MadeAll
<1>2. \A x \in Of("network", Resources) : Has(UpPlan[2], <<"record", x>>)
  BY <1>1 DEF UpPlan, networks, ForEach
<1>3. \A x \in Of("project", Resources) : Has(projects, <<"record", x>>)
  BY <1>1 DEF projects, ForEach
<1>4. projects \in Seq(ProjectOps) /\ resolvePrereqs \in Seq(ProjectOps)
  <2>1. projects \in Chains(On(Makes, {"project"}))
    BY PlannedSeq, MadeAll DEF projects, ForEach
  <2>2. On(Makes, {"project"}) \subseteq ProjectOps /\ <<"wait">> \in ProjectOps
    BY DEF ProjectOps, Bare
  <2>3. projects \in Chains(ProjectOps) /\ resolvePrereqs \in Chains(ProjectOps)
    BY <2>1, <2>2, ChainsMore, WaitChains DEF resolvePrereqs
  <2> QED BY <2>3 DEF Chains
<1>5. \A x \in Of("project", Resources) : Has(resolvePrereqs \o projects, <<"record", x>>)
  BY <1>3, <1>4, HasConcat
<1> QED BY <1>2, <1>5 DEF UpPlan

\* A sequence made of one sequence for each element.
LEMMA SeqMap ==
    ASSUME NEW E, NEW ss, NEW n \in Nat, ss \in [1..n -> Seq(E)]
    PROVE  /\ FlattenSeq(ss) \in Seq(E)
           /\ \A i \in 1..n : \A op : Has(ss[i], op) => Has(FlattenSeq(ss), op)
<1>1. ss \in Seq(Seq(E)) /\ Len(ss) = n
  OBVIOUS
<1>2. \A s, t \in Seq(E) : s \o t \in Seq(E)
  BY ConcatProperties
<1>3. <<>> \in Seq(E)
  OBVIOUS
<1>4. FlattenSeq(ss) \in Seq(E)
  BY <1>1, <1>2, <1>3, FlattenClosed
<1> QED BY <1>1, <1>4, FlattenHas

\* Deletions, each of a server or a load balancer awaited.
LEMMA RemovedAll ==
    ASSUME NEW s \in Seq(Resources)
    PROVE  LET ops == FlattenSeq([i \in DOMAIN s |-> Removed(s[i])])
           IN /\ ops \in Seq(On({"delete"}, Kinds) \cup On({"gone"}, {"server", "lb"}))
              /\ \A x : Has(s, x) => Has(ops, <<"delete", x>>)
              /\ \A x : Has(s, x) /\ Kind[x] \in {"server", "lb"} => Has(ops, <<"gone", x>>)
<1> DEFINE E == On({"delete"}, Kinds) \cup On({"gone"}, {"server", "lb"})
           ss == [i \in DOMAIN s |-> Removed(s[i])]
<1>1. DOMAIN s = 1..Len(s) /\ Len(s) \in Nat
  BY LenProperties
<1>2. ASSUME NEW x \in Resources PROVE Removed(x) \in Seq(E)
  <2>0. Kind[x] \in Kinds
    BY TopologyAssumption
  <2>1. <<"delete", x>> \in E
    BY <2>0 DEF On
  <2>2. CASE Kind[x] \in {"server", "lb"}
    <3>1. <<"gone", x>> \in E
      BY <2>2 DEF On
    <3>2. Removed(x) = << <<"delete", x>>, <<"gone", x>> >>
      BY <2>2 DEF Removed
    <3> HIDE DEF E
    <3> QED BY <2>1, <3>1, <3>2
  <2>3. CASE Kind[x] \notin {"server", "lb"}
    <3>1. Removed(x) = << <<"delete", x>> >>
      BY <2>3 DEF Removed
    <3> HIDE DEF E
    <3> QED BY <2>1, <3>1
  <2> QED BY <2>2, <2>3
<1>3. ss \in [1..Len(s) -> Seq(E)]
  <2>1. \A i \in 1..Len(s) : s[i] \in Resources
    BY <1>1
  <2> HIDE DEF E
  <2> QED BY <1>1, <1>2, <2>1
<1>4. /\ FlattenSeq(ss) \in Seq(E)
      /\ \A i \in 1..Len(s) : \A op : Has(ss[i], op) => Has(FlattenSeq(ss), op)
  <2> HIDE DEF ss, E
  <2> QED BY <1>1, <1>3, SeqMap
<1>5. ASSUME NEW x PROVE Has(Removed(x), <<"delete", x>>)
  <2>1. Len(Removed(x)) \in Nat \ {0} /\ Removed(x)[1] = <<"delete", x>>
    BY DEF Removed
  <2> QED BY <2>1 DEF Has
<1>6. ASSUME NEW x, Kind[x] \in {"server", "lb"} PROVE Has(Removed(x), <<"gone", x>>)
  <2>1. Len(Removed(x)) = 2 /\ Removed(x)[2] = <<"gone", x>>
    BY <1>6 DEF Removed
  <2> QED BY <2>1 DEF Has
<1>7. ASSUME NEW x, Has(s, x) PROVE \E i \in 1..Len(s) : ss[i] = Removed(x)
  BY <1>1, <1>7 DEF Has
<1> HIDE DEF ss
<1>8. \A x : Has(s, x) => Has(FlattenSeq(ss), <<"delete", x>>)
  BY <1>4, <1>5, <1>7
<1>9. \A x : Has(s, x) /\ Kind[x] \in {"server", "lb"} => Has(FlattenSeq(ss), <<"gone", x>>)
  BY <1>4, <1>6, <1>7
<1> QED BY <1>4, <1>8, <1>9 DEF ss

\* All(kind) has every resource of the kind.
LEMMA AllSeq ==
    ASSUME NEW kind
    PROVE  /\ All(kind) \in Seq(Of(kind, Resources)) /\ All(kind) \in Seq(Resources)
           /\ \A x \in Of(kind, Resources) : Has(All(kind), x)
<1> DEFINE S == Of(kind, Resources)
<1>1. S \cap Resources = S /\ S \subseteq Resources
  BY DEF Of
<1>2. All(kind) = InOrder(S)
  BY DEF All
<1> HIDE DEF S
<1>3. InOrder(S) \in Seq(S) /\ \A x \in S : Has(InOrder(S), x)
  BY <1>1, InOrderSeq
<1>4. InOrder(S) \in Seq(Resources)
  BY <1>1, <1>3
<1> QED BY <1>2, <1>3, <1>4 DEF S

\* One operation for each resource of a kind.
LEMMA OneEach ==
    ASSUME NEW E, NEW kind, NEW verb, \A x \in Of(kind, Resources) : <<verb, x>> \in E
    PROVE  LET ops == FlattenSeq([i \in DOMAIN All(kind) |-> << <<verb, All(kind)[i]>> >>])
           IN ops \in Seq(E) /\ \A x \in Of(kind, Resources) : Has(ops, <<verb, x>>)
<1> DEFINE s == All(kind)
           ss == [i \in DOMAIN s |-> << <<verb, s[i]>> >>]
<1>1. s \in Seq(Of(kind, Resources)) /\ \A x \in Of(kind, Resources) : Has(s, x)
  BY AllSeq
<1> HIDE DEF s
<1>2. DOMAIN s = 1..Len(s) /\ Len(s) \in Nat
  BY <1>1, LenProperties
<1>3. ss \in [1..Len(s) -> Seq(E)]
  <2>1. \A i \in 1..Len(s) : <<verb, s[i]>> \in E
    BY <1>1, <1>2
  <2>2. \A i \in 1..Len(s) : << <<verb, s[i]>> >> \in Seq(E)
    BY <2>1
  <2> QED BY <1>2, <2>2
<1>4. /\ FlattenSeq(ss) \in Seq(E)
      /\ \A i \in 1..Len(s) : \A op : Has(ss[i], op) => Has(FlattenSeq(ss), op)
  <2> HIDE DEF ss
  <2> QED BY <1>2, <1>3, SeqMap
<1>5. ASSUME NEW x \in Of(kind, Resources) PROVE Has(FlattenSeq(ss), <<verb, x>>)
  <2>1. PICK i \in 1..Len(s) : s[i] = x
    BY <1>1 DEF Has
  <2>2. ss[i] = << <<verb, x>> >>
    BY <1>2, <2>1
  <2>3. Has(<< <<verb, x>> >>, <<verb, x>>)
    BY DEF Has
  <2> HIDE DEF ss
  <2> QED BY <1>4, <2>2, <2>3
<1> QED BY <1>4, <1>5 DEF s

\* The detaches are operations of the teardown.
LEMMA DetachSeq == detachAll \in Seq(DownOps)
<1> DEFINE t == All("subnet") \o All("port")
           s == All("router")
           inner(r) == FlattenSeq([j \in DOMAIN t |-> << <<"detach", r, t[j]>> >>])
           ss == [i \in DOMAIN s |-> inner(s[i])]
<1>1. detachAll = FlattenSeq(ss)
  BY DEF detachAll, ForEach
<1>2. t \in Seq(Resources) /\ s \in Seq(Resources)
  BY AllSeq, ConcatProperties
<1> HIDE DEF s, t
<1>3. /\ DOMAIN s = 1..Len(s) /\ Len(s) \in Nat
      /\ DOMAIN t = 1..Len(t) /\ Len(t) \in Nat
  BY <1>2, LenProperties
<1>4. ASSUME NEW r \in Resources PROVE inner(r) \in Seq(DownOps)
  <2> DEFINE tt == [j \in DOMAIN t |-> << <<"detach", r, t[j]>> >>]
  <2>1. tt \in [1..Len(t) -> Seq(DownOps)]
    <3>1. \A j \in 1..Len(t) : t[j] \in Resources
      BY <1>2, <1>3
    <3>2. \A j \in 1..Len(t) : <<"detach", r, t[j]>> \in DownOps
      BY <3>1 DEF DownOps, Both
    <3>3. \A j \in 1..Len(t) : << <<"detach", r, t[j]>> >> \in Seq(DownOps)
      BY <3>2
    <3> QED BY <1>3, <3>3
  <2>2. FlattenSeq(tt) \in Seq(DownOps)
    <3> HIDE DEF tt
    <3> QED BY <1>3, <2>1, SeqMap
  <2> QED BY <2>2
<1>5. ss \in [1..Len(s) -> Seq(DownOps)]
  <2>1. \A i \in 1..Len(s) : s[i] \in Resources
    BY <1>2, <1>3
  <2> HIDE DEF inner
  <2> QED BY <1>3, <1>4, <2>1
<1>6. FlattenSeq(ss) \in Seq(DownOps)
  <2> HIDE DEF ss
  <2> QED BY <1>3, <1>5, SeqMap
<1> QED BY <1>1, <1>6

\* The operations of the parts of the teardown, and those that matter below.
LEMMA DownPlanParts ==
    /\ Len(DownPlan) = 8
    /\ \A i \in 1..7 : DownPlan[i] \in Seq(DownOps)
    /\ DownPlan[8] = << <<"done">> >>
    /\ \A x \in Of("lb", Resources) : Has(DownPlan[1], <<"gone", x>>)
    /\ \A x \in Of("fip", Resources) : Has(DownPlan[1], <<"delete", x>>)
    /\ \A x \in Of("project", Resources) : Has(DownPlan[2], <<"servers", x>>)
    /\ \A x \in Of("router", Resources) : Has(DownPlan[5], <<"delete", x>>)
    /\ \A x \in Of("network", Resources) : Has(DownPlan[7], <<"delete", x>>)
<1> DEFINE s1 == All("lb") \o All("fip") \o All("server")
           s5 == All("port") \o All("router")
           s7 == All("subnet") \o All("network")
<1>1. /\ \A kind : All(kind) \in Seq(Resources)
      /\ \A kind : \A x \in Of(kind, Resources) : Has(All(kind), x)
  BY AllSeq
<1>2. s1 \in Seq(Resources) /\ s5 \in Seq(Resources) /\ s7 \in Seq(Resources)
  BY <1>1, ConcatProperties
<1>3. /\ \A x \in Of("lb", Resources) \cup Of("fip", Resources) : Has(s1, x)
      /\ \A x \in Of("router", Resources) : Has(s5, x)
      /\ \A x \in Of("network", Resources) : Has(s7, x)
  <2>1. All("lb") \o All("fip") \in Seq(Resources)
    BY <1>1, ConcatProperties
  <2>2. \A x \in Of("lb", Resources) \cup Of("fip", Resources) : Has(All("lb") \o All("fip"), x)
    BY <1>1, HasConcat
  <2>3. \A x \in Of("lb", Resources) \cup Of("fip", Resources) : Has(s1, x)
    BY <1>1, <2>1, <2>2, HasConcat
  <2> QED BY <1>1, <2>3, HasConcat
<1>4. /\ DownPlan[1] = FlattenSeq([i \in DOMAIN s1 |-> Removed(s1[i])])
      /\ DownPlan[2] = residualServers /\ DownPlan[3] = clearRoutes /\ DownPlan[4] = detachAll
      /\ DownPlan[5] = FlattenSeq([i \in DOMAIN s5 |-> Removed(s5[i])])
      /\ DownPlan[6] = residualPorts
      /\ DownPlan[7] = FlattenSeq([i \in DOMAIN s7 |-> Removed(s7[i])])
      /\ DownPlan[8] = << <<"done">> >> /\ Len(DownPlan) = 8
  BY DEF DownPlan, ForEach
<1> HIDE DEF s1, s5, s7
<1> DEFINE E == On({"delete"}, Kinds) \cup On({"gone"}, {"server", "lb"})
<1>5. E \subseteq DownOps
  BY DEF DownOps
<1>6. /\ DownPlan[1] \in Seq(E) /\ DownPlan[5] \in Seq(E) /\ DownPlan[7] \in Seq(E)
      /\ \A x : Has(s1, x) => Has(DownPlan[1], <<"delete", x>>)
      /\ \A x : Has(s1, x) /\ Kind[x] \in {"server", "lb"} => Has(DownPlan[1], <<"gone", x>>)
      /\ \A x : Has(s5, x) => Has(DownPlan[5], <<"delete", x>>)
      /\ \A x : Has(s7, x) => Has(DownPlan[7], <<"delete", x>>)
  BY <1>2, <1>4, RemovedAll
<1>7. residualServers \in Seq(DownOps) /\ \A x \in Of("project", Resources) : Has(residualServers, <<"servers", x>>)
  <2>1. \A x \in Of("project", Resources) : <<"servers", x>> \in DownOps
    BY DEF DownOps, On, Of
  <2>2. residualServers = FlattenSeq([i \in DOMAIN All("project") |-> << <<"servers", All("project")[i]>> >>])
    BY DEF residualServers, ForEach
  <2> QED BY <2>1, <2>2, OneEach
<1>8. clearRoutes \in Seq(DownOps)
  <2>1. \A x \in Of("router", Resources) : <<"clear", x>> \in DownOps
    BY DEF DownOps, On, Of
  <2>2. clearRoutes = FlattenSeq([i \in DOMAIN All("router") |-> << <<"clear", All("router")[i]>> >>])
    BY DEF clearRoutes, ForEach
  <2> QED BY <2>1, <2>2, OneEach
<1>9. residualPorts \in Seq(DownOps)
  <2>1. \A x \in Of("network", Resources) : <<"ports", x>> \in DownOps
    BY DEF DownOps, On, Of
  <2>2. residualPorts = FlattenSeq([i \in DOMAIN All("network") |-> << <<"ports", All("network")[i]>> >>])
    BY DEF residualPorts, ForEach
  <2> QED BY <2>1, <2>2, OneEach
<1>10. DownPlan[1] \in Seq(DownOps) /\ DownPlan[5] \in Seq(DownOps) /\ DownPlan[7] \in Seq(DownOps)
  <2> HIDE DEF E
  <2> QED BY <1>5, <1>6
<1>11. ASSUME NEW i \in 1..7 PROVE DownPlan[i] \in Seq(DownOps)
  <2>1. i = 1 \/ i = 2 \/ i = 3 \/ i = 4 \/ i = 5 \/ i = 6 \/ i = 7
    OBVIOUS
  <2> QED BY <1>4, <1>7, <1>8, <1>9, <1>10, <2>1, DetachSeq
<1>12. \A x \in Of("lb", Resources) : Kind[x] = "lb"
  BY DEF Of
<1> HIDE DEF E
<1> QED BY <1>3, <1>4, <1>6, <1>7, <1>11, <1>12

\* A `down` does the operations of the plan whose arguments are recorded.
LEMMA DownPartSeq ==
    ASSUME NEW R
    PROVE  /\ \A i \in 1..7 : DownPart(R, i) \in Seq(DownOps)
           /\ DownPart(R, 8) = << <<"done">> >>
           /\ \A i \in 1..7 : \A verb : \A x \in R :
                Has(DownPlan[i], <<verb, x>>) => Has(DownPart(R, i), <<verb, x>>)
<1> DEFINE keep(op) == IF \A j \in 2..Len(op) : op[j] \in R THEN <<op>> ELSE <<>>
           ss(i) == [k \in DOMAIN DownPlan[i] |-> keep(DownPlan[i][k])]
<1>1. \A i : DownPart(R, i) = FlattenSeq(ss(i))
  BY DEF DownPart, ForEach
<1>2. ASSUME NEW i \in 1..7
      PROVE  /\ DownPart(R, i) \in Seq(DownOps)
             /\ \A verb : \A x \in R :
                  Has(DownPlan[i], <<verb, x>>) => Has(DownPart(R, i), <<verb, x>>)
  <2> DEFINE s == DownPlan[i]
             tt == [k \in DOMAIN s |-> keep(s[k])]
  <2>1. s \in Seq(DownOps)
    BY DownPlanParts
  <2>2. DownPart(R, i) = FlattenSeq(tt)
    BY <1>1
  <2> HIDE DEF s
  <2>3. DOMAIN s = 1..Len(s) /\ Len(s) \in Nat
    BY <2>1, LenProperties
  <2>4. tt \in [1..Len(s) -> Seq(DownOps)]
    <3>1. \A k \in 1..Len(s) : s[k] \in DownOps
      BY <2>1, <2>3
    <3>2. \A op \in DownOps : keep(op) \in Seq(DownOps)
      OBVIOUS
    <3> HIDE DEF keep
    <3> QED BY <2>3, <3>1, <3>2
  <2>5. /\ FlattenSeq(tt) \in Seq(DownOps)
        /\ \A k \in 1..Len(s) : \A op : Has(tt[k], op) => Has(FlattenSeq(tt), op)
    <3> HIDE DEF tt
    <3> QED BY <2>3, <2>4, SeqMap
  <2>6. ASSUME NEW verb, NEW x \in R, Has(s, <<verb, x>>) PROVE Has(FlattenSeq(tt), <<verb, x>>)
    <3>1. PICK k \in 1..Len(s) : s[k] = <<verb, x>>
      BY <2>6 DEF Has
    <3>2. keep(<<verb, x>>) = << <<verb, x>> >>
      OBVIOUS
    <3>3. tt[k] = << <<verb, x>> >>
      <4> HIDE DEF keep
      <4> QED BY <2>3, <3>1, <3>2
    <3>4. Has(<< <<verb, x>> >>, <<verb, x>>)
      BY DEF Has
    <3> HIDE DEF tt
    <3> QED BY <2>5, <3>3, <3>4
  <2> HIDE DEF tt
  <2> QED BY <2>2, <2>5, <2>6 DEF s
<1>3. DownPart(R, 8) = << <<"done">> >>
  <2> DEFINE s == << <<"done">> >>
             tt == [k \in DOMAIN s |-> keep(s[k])]
  <2>1. DownPart(R, 8) = FlattenSeq(tt)
    BY <1>1, DownPlanParts
  <2>2. DOMAIN s = 1..1 /\ s[1] = <<"done">> /\ keep(<<"done">>) = s
    OBVIOUS
  <2>3. tt \in [1..1 -> {s}] /\ tt[1] = s
    <3> HIDE DEF keep, s
    <3>1. DOMAIN tt = 1..1 /\ tt[1] = s
      BY <2>2
    <3> QED BY <2>2, <3>1
  <2> HIDE DEF tt
  <2>4. tt \in Seq({s}) /\ Len(tt) = 1
    <3> HIDE DEF s
    <3> QED BY <2>3
  <2>5. FlattenSeq(tt) = tt[1]
    <3> HIDE DEF s
    <3> DEFINE W == {s}
    <3>1. tt \in Seq(W) /\ Len(tt) # 0
      BY <2>4
    <3> HIDE DEF W
    <3>2. PICK f : /\ FlattenSeq(tt) = f[Len(tt)]
                   /\ f[1] = tt[1]
                   /\ \A i \in 2..Len(tt) : f[i] = f[i - 1] \o tt[i]
      BY <3>1, FlattenSteps
    <3> QED BY <2>4, <3>2
  <2> QED BY <2>1, <2>3, <2>5
<1> QED BY <1>2, <1>3

(***************************************************************************)
(* The operations of the steps                                             *)
(***************************************************************************)
\* The steps of a script; those that are not put together from plain operations.
StepSet == AgentSteps \cup VMSteps \cup PortSteps \cup FIPSteps \cup RouteSteps
SpecialSteps == {"set-config", "restore-config", "reload", "delete-fip"}

\* The operations a plain step is put together from: deletions.
LEMMA PlainRemoved ==
    ASSUME NEW S
    PROVE  ForEach(InOrder(S), Removed) \in Chains(PlainOps)
<1> DEFINE s == InOrder(S)
           ops == FlattenSeq([i \in DOMAIN s |-> Removed(s[i])])
           E == On({"delete"}, Kinds) \cup On({"gone"}, {"server", "lb"})
<1>1. ForEach(InOrder(S), Removed) = ops
  BY DEF ForEach
<1>2. s \in Seq(Resources)
  <2>1. s \in Seq(S \cap Resources)
    BY InOrderSeq
  <2> HIDE DEF s
  <2> QED BY <2>1
<1>3. ops \in Seq(E)
  <2> HIDE DEF s
  <2> QED BY <1>2, RemovedAll
<1>4. E \subseteq PlainOps /\ \A op \in E : op[1] \notin {"create", "forget"}
  BY DEF PlainOps, On
<1> HIDE DEF ops, E
<1>5. ops \in Seq(PlainOps) /\ \A i \in 1..Len(ops) : ops[i] \in E
  BY <1>3, <1>4
<1> QED BY <1>1, <1>4, <1>5, ChainsPlain

\* What a step makes.
LEMMA PlainMade ==
    ASSUME NEW x \in Resources
    PROVE  /\ Kind[x] \in {"port", "server", "fip"} => Made(x) \in Chains(PlainOps)
           /\ Kind[x] = "port" => MadePort(x) \in Chains(PlainOps)
<1>1. Kind[x] \in {"port", "server", "fip"} => On(Makes, {Kind[x]}) \subseteq PlainOps
  BY DEF PlainOps, On
<1>2. Bare({"wait"}) \cup On(Makes, {"port"}) \subseteq PlainOps
  BY DEF PlainOps, On, Bare
<1>3. Kind[x] \in {"port", "server", "fip"} => Made(x) \in Chains(PlainOps)
  BY <1>1, MadeChains, ChainsMore
<1>4. Kind[x] = "port" => MadePort(x) \in Chains(PlainOps)
  BY <1>2, MadePortChains, ChainsMore
<1> QED BY <1>3, <1>4

\* The operations without an argument.
LEMMA PlainBare ==
    /\ <<"wait">> \in PlainOps /\ <<"save">> \in PlainOps /\ <<"baseline">> \in PlainOps
    /\ <<"stop">> \in PlainOps /\ <<"start">> \in PlainOps /\ <<"ready">> \in PlainOps
    /\ <<"restart">> \in PlainOps /\ <<"hup">> \in PlainOps
    /\ << <<"wait">> >> \in Chains(PlainOps)
    /\ << <<"wait">>, <<"save">> >> \in Chains(PlainOps)
<1>1. /\ <<"wait">> \in PlainOps /\ <<"save">> \in PlainOps /\ <<"baseline">> \in PlainOps
      /\ <<"stop">> \in PlainOps /\ <<"start">> \in PlainOps /\ <<"ready">> \in PlainOps
      /\ <<"restart">> \in PlainOps /\ <<"hup">> \in PlainOps
  BY DEF PlainOps, Bare
<1>2. << <<"wait">> >> \in Chains(PlainOps)
  BY <1>1, WaitChains
<1>3. << <<"wait">>, <<"save">> >> \in Seq(PlainOps)
  BY <1>1
<1>4. Chained(<< <<"wait">>, <<"save">> >>)
  BY DEF Chained
<1> QED BY <1>1, <1>2, <1>3, <1>4 DEF Chains

\* A port is deleted, then forgotten.
LEMMA PlainForget ==
    ASSUME NEW p \in Resources, Kind[p] = "port"
    PROVE  << <<"delete", p>>, <<"forget", p>> >> \in Chains(PlainOps)
<1>1. <<"delete", p>> \in PlainOps /\ <<"forget", p>> \in PlainOps
  BY TopologyAssumption DEF PlainOps, On
<1>2. << <<"delete", p>>, <<"forget", p>> >> \in Seq(PlainOps)
  BY <1>1
<1>3. Chained(<< <<"delete", p>>, <<"forget", p>> >>)
  BY DEF Chained, DeletedFirst
<1> QED BY <1>2, <1>3 DEF Chains

\* The plain steps: DeleteVM.
LEMMA PlainDeleteVM ==
    ASSUME NEW v \in Of("server", Resources)
    PROVE  DeleteVM(v) \in Chains(PlainOps)
<1>1. Parent[v] \in Resources /\ Kind[Parent[v]] = "port"
  BY TopologyAssumption DEF Of
<1> DEFINE a == ForEach(InOrder({x \in Of("fip", rs.recs) : Parent[x] = Parent[v]}), Removed)
           b == ForEach(InOrder({v} \cap rs.recs), Removed)
           d == IF Parent[v] \in rs.recs THEN << <<"delete", Parent[v]>>, <<"forget", Parent[v]>> >>
                ELSE << <<"save">> >>
<1>2. a \in Chains(PlainOps) /\ b \in Chains(PlainOps)
  BY PlainRemoved
<1>3. d \in Chains(PlainOps)
  <2>1. << <<"delete", Parent[v]>>, <<"forget", Parent[v]>> >> \in Chains(PlainOps)
    BY <1>1, PlainForget
  <2>2. << <<"save">> >> \in Seq(PlainOps)
    BY PlainBare
  <2>3. Chained(<< <<"save">> >>)
    BY DEF Chained
  <2> QED BY <2>1, <2>2, <2>3 DEF Chains
<1>4. DeleteVM(v) = << <<"wait">> >> \o a \o b \o d
  BY DEF DeleteVM
<1> HIDE DEF a, b, d
<1>5. << <<"wait">> >> \o a \o b \in Chains(PlainOps)
  BY <1>2, PlainBare, ChainsConcat
<1> QED BY <1>3, <1>4, <1>5, ChainsConcat

\* BootVM.
LEMMA PlainBootVM ==
    ASSUME NEW v \in Of("server", Resources)
    PROVE  BootVM(v) \in Chains(PlainOps)
<1>1. /\ v \in Resources /\ Kind[v] = "server"
      /\ Parent[v] \in Resources /\ Kind[Parent[v]] = "port"
  BY TopologyAssumption DEF Of
<1> DEFINE S == {x \in Of("fip", Deferred) : Parent[x] = Parent[v]}
           f == FlattenSeq([i \in DOMAIN InOrder(S) |-> Made(InOrder(S)[i])])
<1>2. f \in Chains(PlainOps)
  <2>1. S \cap Resources \subseteq Of("fip", Resources)
    BY DEF Of
  <2>2. InOrder(S) \in Seq(S \cap Resources)
    <3> HIDE DEF S
    <3> QED BY InOrderSeq
  <2>3. InOrder(S) \in Seq(Of("fip", Resources))
    <3> HIDE DEF S
    <3> QED BY <2>1, <2>2
  <2>4. On(Makes, {"fip"}) \subseteq PlainOps
    BY DEF PlainOps, On
  <2>5. f \in Chains(On(Makes, {"fip"}))
    <3> HIDE DEF S
    <3> QED BY <2>3, MadeAll
  <2> HIDE DEF f
  <2> QED BY <2>4, <2>5, ChainsMore
<1>3. MadePort(Parent[v]) \in Chains(PlainOps) /\ Made(v) \in Chains(PlainOps)
  BY <1>1, PlainMade
<1>4. BootVM(v) = << <<"wait">> >> \o MadePort(Parent[v]) \o Made(v) \o << <<"wait">> >>
                  \o f \o << <<"wait">>, <<"save">> >>
  BY DEF BootVM, ForEach
<1> HIDE DEF f
<1>5. << <<"wait">> >> \o MadePort(Parent[v]) \o Made(v) \in Chains(PlainOps)
  BY <1>3, PlainBare, ChainsConcat
<1>6. << <<"wait">> >> \o MadePort(Parent[v]) \o Made(v) \o << <<"wait">> >> \in Chains(PlainOps)
  BY <1>5, PlainBare, ChainsConcat
<1>7. << <<"wait">> >> \o MadePort(Parent[v]) \o Made(v) \o << <<"wait">> >> \o f \in Chains(PlainOps)
  BY <1>2, <1>6, ChainsConcat
<1> QED BY <1>4, <1>7, PlainBare, ChainsConcat

\* The steps on a port of a VM.
LEMMA PlainPortSteps ==
    ASSUME NEW v \in Of("server", Resources), NEW p \in Of("port", Resources)
    PROVE  /\ AttachPort(v, p) \in Chains(PlainOps) /\ ReattachPort(v, p) \in Chains(PlainOps)
           /\ DetachPort(v, p) \in Chains(PlainOps) /\ DetachDelete(v, p) \in Chains(PlainOps)
<1>1. v \in Resources /\ p \in Resources /\ Kind[p] = "port" /\ {Kind[v], Kind[p]} \subseteq Kinds
  BY TopologyAssumption DEF Of
<1>2. /\ <<"need", v>> \in PlainOps /\ <<"need", p>> \in PlainOps
      /\ <<"plug", v, p>> \in PlainOps /\ <<"unplug", v, p>> \in PlainOps
      /\ <<"delete", p>> \in PlainOps /\ <<"forget", p>> \in PlainOps
  BY <1>1 DEF PlainOps, On, Both
<1>3. << <<"need", v>> >> \o Baseline \in Chains(PlainOps)
  <2>1. << <<"need", v>> >> \in Seq(PlainOps)
    BY <1>2
  <2>2. Chained(<< <<"need", v>> >>)
    BY DEF Chained
  <2>3. << <<"need", v>> >> \in Chains(PlainOps)
    BY <2>1, <2>2 DEF Chains
  <2> QED BY <2>3, PlainBare, ChainsConcat DEF Baseline
<1>4. << <<"need", p>>, <<"need", v>> >> \o Baseline \in Chains(PlainOps)
  <2>1. << <<"need", p>>, <<"need", v>> >> \in Seq(PlainOps)
    BY <1>2
  <2>2. Chained(<< <<"need", p>>, <<"need", v>> >>)
    BY DEF Chained
  <2>3. << <<"need", p>>, <<"need", v>> >> \in Chains(PlainOps)
    BY <2>1, <2>2 DEF Chains
  <2> QED BY <2>3, PlainBare, ChainsConcat DEF Baseline
<1>5. << <<"plug", v, p>>, <<"wait">>, <<"save">> >> \in Chains(PlainOps)
  <2>1. << <<"plug", v, p>>, <<"wait">>, <<"save">> >> \in Seq(PlainOps)
    BY <1>2, PlainBare
  <2>2. Chained(<< <<"plug", v, p>>, <<"wait">>, <<"save">> >>)
    BY DEF Chained
  <2> QED BY <2>1, <2>2 DEF Chains
<1>6. << <<"unplug", v, p>>, <<"wait">>, <<"save">> >> \in Chains(PlainOps)
  <2>1. << <<"unplug", v, p>>, <<"wait">>, <<"save">> >> \in Seq(PlainOps)
    BY <1>2, PlainBare
  <2>2. Chained(<< <<"unplug", v, p>>, <<"wait">>, <<"save">> >>)
    BY DEF Chained
  <2> QED BY <2>1, <2>2 DEF Chains
<1>7. << <<"delete", p>>, <<"forget", p>> >> \in Chains(PlainOps)
  BY <1>1, PlainForget
<1>8. AttachPort(v, p) \in Chains(PlainOps)
  <2>1. << <<"need", v>> >> \o Baseline \o MadePort(p) \in Chains(PlainOps)
    BY <1>1, <1>3, PlainMade, ChainsConcat
  <2> QED BY <1>5, <2>1, ChainsConcat DEF AttachPort
<1>9. ReattachPort(v, p) \in Chains(PlainOps) /\ DetachPort(v, p) \in Chains(PlainOps)
  BY <1>4, <1>5, <1>6, ChainsConcat DEF ReattachPort, DetachPort
<1>10. DetachDelete(v, p) \in Chains(PlainOps)
  BY <1>7, <1>9, ChainsConcat DEF DetachDelete
<1> QED BY <1>8, <1>9, <1>10

\* A VM deleted while the agent is stopped.
LEMMA PlainAround ==
    ASSUME NEW v \in Of("server", Resources)
    PROVE  RestartAround(DeleteVM(v)) \in Chains(PlainOps)
<1>1. << <<"baseline">>, <<"stop">> >> \in Chains(PlainOps)
  <2>1. << <<"baseline">>, <<"stop">> >> \in Seq(PlainOps)
    BY PlainBare
  <2>2. Chained(<< <<"baseline">>, <<"stop">> >>)
    BY DEF Chained
  <2> QED BY <2>1, <2>2 DEF Chains
<1>2. << <<"start">>, <<"ready">> >> \in Chains(PlainOps)
  <2>1. << <<"start">>, <<"ready">> >> \in Seq(PlainOps)
    BY PlainBare
  <2>2. Chained(<< <<"start">>, <<"ready">> >>)
    BY DEF Chained
  <2> QED BY <2>1, <2>2 DEF Chains
<1>3. << <<"baseline">>, <<"stop">> >> \o DeleteVM(v) \in Chains(PlainOps)
  BY <1>1, PlainDeleteVM, ChainsConcat
<1> QED BY <1>2, <1>3, ChainsConcat DEF RestartAround

\* The short steps.
LEMMA PlainShort ==
    /\ Drive \in Chains(PlainOps)
    /\ \A v \in Of("server", Resources) : Migrate(v) \in Chains(PlainOps)
    /\ \A x \in Of("fip", Resources) : AssociateFIP(x) \in Chains(PlainOps)
    /\ \A r \in Of("router", Resources) :
          SetRoutes(r) \in Chains(PlainOps) /\ ClearRoutes(r) \in Chains(PlainOps)
<1>1. Drive \in Chains(PlainOps)
  BY PlainBare DEF Drive
<1>2. ASSUME NEW v \in Of("server", Resources) PROVE Migrate(v) \in Chains(PlainOps)
  <2>1. <<"need", v>> \in PlainOps
    BY TopologyAssumption DEF PlainOps, On, Of
  <2>2. Migrate(v) \in Seq(PlainOps)
    BY <2>1, PlainBare DEF Migrate
  <2>3. Chained(Migrate(v))
    BY DEF Chained, Migrate
  <2> QED BY <2>2, <2>3 DEF Chains
<1>3. ASSUME NEW x \in Of("fip", Resources) PROVE AssociateFIP(x) \in Chains(PlainOps)
  <2>0. x \in Resources /\ Kind[x] = "fip" /\ Parent[x] \in Resources /\ Kind[Parent[x]] \in Kinds
    BY TopologyAssumption DEF Of
  <2>1. <<"need", Parent[x]>> \in PlainOps
    BY <2>0 DEF PlainOps, On
  <2>2. << <<"need", Parent[x]>> >> \in Seq(PlainOps)
    BY <2>1
  <2>3. Chained(<< <<"need", Parent[x]>> >>)
    BY DEF Chained
  <2>4. << <<"need", Parent[x]>> >> \in Chains(PlainOps)
    BY <2>2, <2>3 DEF Chains
  <2> QED BY <2>0, <2>4, PlainMade, ChainsConcat DEF AssociateFIP
<1>4. ASSUME NEW r \in Of("router", Resources)
      PROVE  SetRoutes(r) \in Chains(PlainOps) /\ ClearRoutes(r) \in Chains(PlainOps)
  <2>1. <<"need", r>> \in PlainOps /\ <<"routes", r>> \in PlainOps /\ <<"clear", r>> \in PlainOps
    BY TopologyAssumption DEF PlainOps, On, Of
  <2>2. SetRoutes(r) \in Seq(PlainOps) /\ ClearRoutes(r) \in Seq(PlainOps)
    BY <2>1 DEF SetRoutes, ClearRoutes
  <2>3. Chained(SetRoutes(r)) /\ Chained(ClearRoutes(r))
    BY DEF Chained, SetRoutes, ClearRoutes
  <2> QED BY <2>2, <2>3 DEF Chains
<1> QED BY <1>1, <1>2, <1>3, <1>4

\* What a step turns into.
LEMMA StepShape ==
    ASSUME NEW step \in StepSet
    PROVE  /\ step[1] \notin SpecialSteps => StepOps(step) \in Chains(PlainOps)
           /\ step[1] = "set-config" => StepOps(step) = RestartSet
           /\ step[1] = "restore-config" => StepOps(step) = RestartRestore
           /\ step[1] = "reload" => StepOps(step) = ReloadSet
           /\ step[1] = "delete-fip" => \E x \in Of("fip", Resources) : StepOps(step) = DeleteFIP(x)
<1>1. CASE step \in AgentSteps
  <2>1. step[1] \in {"drive", "set-config", "restore-config", "reload"}
    BY <1>1 DEF AgentSteps
  <2> QED BY <2>1, PlainShort DEF StepOps, SpecialSteps
<1>2. CASE step \in VMSteps
  <2>1. /\ step[1] \in {"delete-vm", "boot-vm", "migrate", "delete-while-down"}
        /\ step[2] \in Of("server", Resources)
    BY <1>2 DEF VMSteps
  <2> QED BY <2>1, PlainShort, PlainDeleteVM, PlainBootVM, PlainAround DEF StepOps, SpecialSteps
<1>3. CASE step \in PortSteps
  <2>1. /\ step[1] \in {"attach-port", "reattach-port", "detach-port", "detach-delete"}
        /\ step[2] \in Of("server", Resources) /\ step[3] \in Of("port", Resources)
    BY <1>3 DEF PortSteps
  <2> QED BY <2>1, PlainPortSteps DEF StepOps, SpecialSteps
<1>4. CASE step \in FIPSteps
  <2>1. step[1] \in {"associate-fip", "delete-fip"} /\ step[2] \in Of("fip", Resources)
    BY <1>4 DEF FIPSteps
  <2> QED BY <2>1, PlainShort DEF StepOps, SpecialSteps
<1>5. CASE step \in RouteSteps
  <2>1. step[1] \in {"set-routes", "clear-routes"} /\ step[2] \in Of("router", Resources)
    BY <1>5 DEF RouteSteps
  <2> QED BY <2>1, PlainShort DEF StepOps, SpecialSteps
<1> QED BY <1>1, <1>2, <1>3, <1>4, <1>5 DEF StepSet

(***************************************************************************)
(* What is left to do, in every phase                                      *)
(***************************************************************************)
\* The steps that change the agent's config, by how far they are.
Setting == {RestartSet, << <<"set">>, <<"mark">>, <<"restart">>, <<"ready">> >>}
Patching == {ReloadSet}
Marking == {<< <<"mark">>, <<"restart">>, <<"ready">> >>, << <<"mark">>, <<"hup">> >>}
Restoring == {RestartRestore, << <<"putback">>, <<"settle">>, <<"restart">>, <<"ready">> >>}
Settling == {<< <<"settle">>, <<"restart">>, <<"ready">> >>}
Resting == {<< <<"restart">>, <<"ready">> >>, << <<"ready">> >>, << <<"hup">> >>, <<>>}
\* The step that deletes the floating IP x.
Forgetting(x) == {DeleteFIP(x), << <<"delete", x>>, <<"forget", x>> >>, << <<"forget", x>> >>}

\* What is left to do: after a failure, of a realize, of a step, of a teardown.
Halted == {<<>>, << <<"start">> >>}
UpTodo ==
    /\ part = 0 => todo = <<>>
    /\ part = 1 => todo \in Rests(ProjectOps)
    /\ part = 2 => todo \in Rests(NetworkOps)
    /\ part = 3 => todo \in Rests(SubnetOps)
    /\ part > 3 => todo \in Rests(LateOps)
ScriptTodo ==
    \/ todo \in Rests(PlainOps)
    \/ todo \in Setting \cup Patching \cup Marking \cup Restoring \cup Settling
    \/ \E x \in Of("fip", Resources) : todo \in Forgetting(x)
DownTodo ==
    /\ part = 0 => todo = <<>>
    /\ part < 8 => todo \in Seq(DownOps)
    /\ part = 8 => todo \in {<<>>, << <<"done">> >>}

\* The steps of the script that have begun; the others are left.
Begun == Len(script) - Len(steps)
StepsLeft ==
    /\ script \in Seq(StepSet) /\ steps \in Seq(StepSet) /\ Len(steps) <= Len(script)
    /\ \A i \in 1..Len(steps) : steps[i] = script[Begun + i]

\* What is left to do is what is left of the phase.
Plan ==
    /\ mode \in {"idle", "realize", "script", "restore", "teardown", "down"}
    /\ mode = "idle" => todo = <<>>
    /\ failed /\ ~Down => todo \in Halted
    /\ mode = "realize" => part \in 0..11 /\ (~failed => UpTodo)
    /\ mode = "script" /\ ~failed => ScriptTodo
    /\ mode \in {"idle", "script", "restore"} => part = 0
    /\ mode = "restore" /\ ~failed => todo \in Restoring \cup Settling \cup Resting
    /\ Down => part \in 0..8 /\ DownTodo
    /\ script \in Scripts \cup {<<>>} /\ StepsLeft

\* An operation is done, or fails.
Operate == todo # <<>> /\ (Advance \/ Fail) /\ UNCHANGED <<mode, part, steps, script>>
Operation ==
    \/ CallOk \/ CallFails \/ CallLost \/ WaitOk \/ WaitServerGone \/ Need
    \/ SaveOk \/ SaveFails \/ NotDone
    \/ ShellOk \/ AgentFails \/ ShellLost \/ AgentAnswers \/ MarkConfigDirty

\* The actions that run an operation take it off or fail it.
LEMMA OperationOperates == Operation => Operate
<1>1. CallOk => Operate
  BY DEF CallOk, Doing, idleVars, Operate
<1>2. CallFails => Operate
  BY DEF CallFails, Doing, idleVars, Operate
<1>3. CallLost => Operate
  BY DEF CallLost, Doing, idleVars, Operate
<1>4. WaitOk => Operate
  BY DEF WaitOk, Doing, idleVars, Operate
<1>5. WaitServerGone => Operate
  BY DEF WaitServerGone, Doing, idleVars, Operate
<1>6. Need => Operate
  BY DEF Need, Doing, idleVars, Operate
<1>7. SaveOk => Operate
  BY DEF SaveOk, MustSave, Doing, idleVars, Operate
<1>8. SaveFails => Operate
  BY DEF SaveFails, MustSave, Doing, idleVars, Operate
<1>9. NotDone => Operate
  BY DEF NotDone, Doing, idleVars, Operate, Advance
<1>10. ShellOk => Operate
  BY DEF ShellOk, Doing, idleVars, Operate
<1>11. AgentFails => Operate
  BY DEF AgentFails, Doing, idleVars, Operate
<1>12. ShellLost => Operate
  BY DEF ShellLost, Doing, idleVars, Operate
<1>13. AgentAnswers => Operate
  BY DEF AgentAnswers, Doing, idleVars, Operate
<1>14. MarkConfigDirty => Operate
  BY DEF MarkConfigDirty, Doing, Operate
<1> QED BY <1>1, <1>2, <1>3, <1>4, <1>5, <1>6, <1>7, <1>8, <1>9, <1>10, <1>11, <1>12, <1>13, <1>14
        DEF Operation

\* The config steps, one operation later.
LEMMA SpecialTails ==
    /\ Tail(RestartSet) = << <<"set">>, <<"mark">>, <<"restart">>, <<"ready">> >>
    /\ Tail(<< <<"set">>, <<"mark">>, <<"restart">>, <<"ready">> >>)
         = << <<"mark">>, <<"restart">>, <<"ready">> >>
    /\ Tail(<< <<"mark">>, <<"restart">>, <<"ready">> >>) = << <<"restart">>, <<"ready">> >>
    /\ Tail(ReloadSet) = << <<"mark">>, <<"hup">> >>
    /\ Tail(<< <<"mark">>, <<"hup">> >>) = << <<"hup">> >>
    /\ Tail(RestartRestore) = << <<"putback">>, <<"settle">>, <<"restart">>, <<"ready">> >>
    /\ Tail(<< <<"putback">>, <<"settle">>, <<"restart">>, <<"ready">> >>)
         = << <<"settle">>, <<"restart">>, <<"ready">> >>
    /\ Tail(<< <<"settle">>, <<"restart">>, <<"ready">> >>) = << <<"restart">>, <<"ready">> >>
    /\ Tail(<< <<"restart">>, <<"ready">> >>) = << <<"ready">> >>
    /\ Tail(<< <<"ready">> >>) = <<>> /\ Tail(<< <<"start">> >>) = <<>> /\ Tail(<< <<"done">> >>) = <<>>
    /\ Tail(<< <<"hup">> >>) = <<>>
  BY DEF RestartSet, ReloadSet, RestartRestore

\* The deletion of a floating IP, one operation later.
LEMMA ForgettingTails ==
    ASSUME NEW x
    PROVE  /\ Tail(DeleteFIP(x)) = << <<"delete", x>>, <<"forget", x>> >>
           /\ Tail(<< <<"delete", x>>, <<"forget", x>> >>) = << <<"forget", x>> >>
           /\ Tail(<< <<"forget", x>> >>) = <<>>
  BY DEF DeleteFIP

\* The end of a config step changes no config.
LEMMA RestingPlain == Resting \subseteq Rests(PlainOps)
<1>1. << <<"restart">>, <<"ready">> >> \in Seq(PlainOps) /\ << <<"ready">> >> \in Seq(PlainOps)
      /\ << <<"hup">> >> \in Seq(PlainOps)
  BY PlainBare
<1>2. Rest(<< <<"restart">>, <<"ready">> >>) /\ Rest(<< <<"ready">> >>) /\ Rest(<< <<"hup">> >>)
  BY DEF Rest
<1> QED BY <1>1, <1>2, RestsEmpty DEF Resting, Rests

\* The verbs of the operations, and what they are about.
LEMMA OpVerbs ==
    /\ \A op \in ProjectOps : op[1] \in {"wait", "create", "record"}
    /\ \A op \in ProjectOps : op[1] \in Makes => op[2] \in Of("project", Resources)
    /\ \A op \in NetworkOps : op[1] \in Makes /\ op[2] \in Of("network", Resources)
    /\ \A op \in SubnetOps : op[1] \in Makes /\ op[2] \in Of("subnet", Resources)
    /\ \A op \in LateOps : op[1] \in {"wait", "save", "create", "record", "attach", "routes"}
    /\ \A op \in LateOps : op[1] \in Makes =>
          op[2] \in Resources /\ Kind[op[2]] \in {"router", "port", "server", "fip", "lb"}
    /\ \A op \in PlainOps : op[1] \in {"wait", "save", "baseline", "stop", "start", "restart", "ready",
          "hup", "create", "record", "delete", "gone", "forget", "need", "routes", "clear", "plug", "unplug"}
    /\ \A op \in PlainOps : op[1] \in Makes =>
          op[2] \in Resources /\ Kind[op[2]] \in {"port", "server", "fip"}
    /\ \A op \in PlainOps : op[1] = "forget" => op[2] \in Of("port", Resources)
    /\ \A op \in PlainOps : op[1] = "delete" => op[2] \in Resources
    /\ \A op \in DownOps : op[1] \in {"delete", "gone", "servers", "ports", "clear", "detach"}
    /\ \A op \in DownOps : op[1] \in {"delete", "gone"} => op[2] \in Resources
<1>1. /\ \A op \in ProjectOps : op[1] \in {"wait", "create", "record"}
      /\ \A op \in ProjectOps : op[1] \in Makes => op[2] \in Of("project", Resources)
  BY DEF ProjectOps, On, Bare, Makes, Of
<1>2. /\ \A op \in NetworkOps : op[1] \in Makes /\ op[2] \in Of("network", Resources)
      /\ \A op \in SubnetOps : op[1] \in Makes /\ op[2] \in Of("subnet", Resources)
  BY DEF NetworkOps, SubnetOps, On, Makes, Of
<1>3. /\ \A op \in LateOps : op[1] \in {"wait", "save", "create", "record", "attach", "routes"}
      /\ \A op \in LateOps : op[1] \in Makes =>
           op[2] \in Resources /\ Kind[op[2]] \in {"router", "port", "server", "fip", "lb"}
  BY DEF LateOps, On, Bare, Both, Makes
<1>4. \A op \in PlainOps : op[1] \in {"wait", "save", "baseline", "stop", "start", "restart", "ready",
          "hup", "create", "record", "delete", "gone", "forget", "need", "routes", "clear", "plug", "unplug"}
  BY DEF PlainOps, On, Bare, Both, Makes
<1>5. \A op \in PlainOps : op[1] \in Makes =>
          op[2] \in Resources /\ Kind[op[2]] \in {"port", "server", "fip"}
  BY DEF PlainOps, On, Bare, Both, Makes
<1>6. \A op \in PlainOps : op[1] = "forget" => op[2] \in Of("port", Resources)
  BY DEF PlainOps, On, Bare, Both, Makes, Of
<1>7. \A op \in PlainOps : op[1] = "delete" => op[2] \in Resources
  BY DEF PlainOps, On, Bare, Both, Makes
<1>8. /\ \A op \in DownOps : op[1] \in {"delete", "gone", "servers", "ports", "clear", "detach"}
      /\ \A op \in DownOps : op[1] \in {"delete", "gone"} => op[2] \in Resources
  BY DEF DownOps, On, Both
<1> QED BY <1>1, <1>2, <1>3, <1>4, <1>5, <1>6, <1>7, <1>8

\* The first operation of a chain is one of its operations.
LEMMA RestsHead ==
    ASSUME NEW Ops, NEW s \in Rests(Ops), s # <<>>
    PROVE  Head(s) \in Ops
<1>1. s \in Seq(Ops)
  BY DEF Rests
<1> QED BY <1>1, HeadTailProperties

\* The next operation.
LEMMA NextOp ==
    ASSUME Plan, todo # <<>>
    PROVE  /\ mode # "idle"
           /\ failed /\ ~Down => Head(todo) = <<"start">>
           /\ mode = "realize" /\ ~failed =>
                \/ part = 1 /\ Head(todo) \in ProjectOps
                \/ part = 2 /\ Head(todo) \in NetworkOps
                \/ part = 3 /\ Head(todo) \in SubnetOps
                \/ part > 3 /\ Head(todo) \in LateOps
           /\ mode = "script" /\ ~failed =>
                \/ todo \in Rests(PlainOps) /\ Head(todo) \in PlainOps
                \/ Head(todo) \in Bare({"baseline", "set", "mark", "patch", "putback", "settle"})
                \/ \E x \in Of("fip", Resources) : Head(todo) \in {"need", "delete", "forget"} \X {x}
           /\ mode = "restore" /\ ~failed =>
                Head(todo) \in Bare({"baseline", "putback", "settle", "restart", "ready", "hup"})
           /\ Down => \/ part \in 1..7 /\ todo \in Seq(DownOps) /\ Head(todo) \in DownOps
                      \/ part = 8 /\ todo = << <<"done">> >> /\ Head(todo) = <<"done">>
<1>1. mode # "idle" /\ (failed /\ ~Down => Head(todo) = <<"start">>)
  BY DEF Plan, Halted
<1>2. ASSUME mode = "realize", ~failed
      PROVE  \/ part = 1 /\ Head(todo) \in ProjectOps
             \/ part = 2 /\ Head(todo) \in NetworkOps
             \/ part = 3 /\ Head(todo) \in SubnetOps
             \/ part > 3 /\ Head(todo) \in LateOps
  <2>1. part \in 0..11 /\ UpTodo
    BY <1>2 DEF Plan
  <2>2. part = 1 \/ part = 2 \/ part = 3 \/ part > 3
    BY <2>1 DEF UpTodo
  <2> QED BY <2>1, <2>2, RestsHead DEF UpTodo
<1>3. ASSUME mode = "script", ~failed
      PROVE  \/ todo \in Rests(PlainOps) /\ Head(todo) \in PlainOps
             \/ Head(todo) \in Bare({"baseline", "set", "mark", "patch", "putback", "settle"})
             \/ \E x \in Of("fip", Resources) : Head(todo) \in {"need", "delete", "forget"} \X {x}
  <2>1. CASE todo \in Rests(PlainOps)
    BY <2>1, RestsHead
  <2>2. CASE todo \in Setting \cup Patching \cup Marking \cup Restoring \cup Settling
    <3>1. Head(todo) \in {<<"baseline">>, <<"set">>, <<"mark">>, <<"patch">>, <<"putback">>, <<"settle">>}
      BY <2>2 DEF Setting, Patching, Marking, Restoring, Settling, RestartSet, ReloadSet, RestartRestore
    <3> QED BY <3>1 DEF Bare
  <2>3. CASE \E x \in Of("fip", Resources) : todo \in Forgetting(x)
    <3>1. PICK x \in Of("fip", Resources) : todo \in Forgetting(x)
      BY <2>3
    <3>2. Head(todo) \in {<<"need", x>>, <<"delete", x>>, <<"forget", x>>}
      BY <3>1 DEF Forgetting, DeleteFIP
    <3> QED BY <3>2
  <2> QED BY <1>3, <2>1, <2>2, <2>3 DEF Plan, ScriptTodo
<1>4. ASSUME mode = "restore", ~failed
      PROVE  Head(todo) \in Bare({"baseline", "putback", "settle", "restart", "ready", "hup"})
  <2>1. todo \in Restoring \cup Settling \cup Resting
    BY <1>4 DEF Plan
  <2>2. Head(todo) \in {<<"baseline">>, <<"putback">>, <<"settle">>, <<"restart">>, <<"ready">>, <<"hup">>}
    BY <2>1 DEF Restoring, Settling, Resting, RestartRestore
  <2> QED BY <2>2 DEF Bare
<1>5. ASSUME Down
      PROVE  \/ part \in 1..7 /\ todo \in Seq(DownOps) /\ Head(todo) \in DownOps
             \/ part = 8 /\ todo = << <<"done">> >> /\ Head(todo) = <<"done">>
  <2>1. part \in 0..8 /\ DownTodo
    BY <1>5 DEF Plan
  <2>2. CASE part \in 1..7
    <3>1. todo \in Seq(DownOps)
      BY <2>1, <2>2 DEF DownTodo
    <3> QED BY <2>2, <3>1, HeadTailProperties
  <2>3. CASE part = 8
    BY <2>1, <2>3 DEF DownTodo
  <2>4. part # 0
    BY <2>1 DEF DownTodo
  <2> QED BY <2>1, <2>2, <2>3, <2>4
<1> QED BY <1>1, <1>2, <1>3, <1>4, <1>5

\* The steps left stay the end of the script.
LEMMA StepsKept ==
    ASSUME Plan, UNCHANGED script, steps' = steps \/ steps' = <<>>
    PROVE  StepsLeft'
<1>1. StepsLeft
  BY DEF Plan
<1>2. CASE steps' = steps
  BY <1>1, <1>2 DEF StepsLeft, Begun
<1>3. CASE steps' = <<>>
  <2>1. Len(script) \in Nat /\ Len(<<>>) = 0
    BY <1>1 DEF StepsLeft
  <2> QED BY <1>1, <1>3, <2>1 DEF StepsLeft
<1> QED BY <1>2, <1>3

\* What an operation leaves to do, outside a teardown and in one.
LEMMA OperateUp ==
    ASSUME Plan, Operate, ~Down
    PROVE  \/ failed' = failed /\ todo' = Tail(todo)
           \/ failed' = TRUE /\ todo' \in Halted
  BY DEF Operate, Advance, Fail, Halted

\* A teardown goes on after every operation.
LEMMA OperateDown ==
    ASSUME Plan, Operate, Down
    PROVE  /\ part = 8 => todo' = <<>>
           /\ part \in 1..7 => todo' \in Seq(DownOps)
<1>1. CASE part = 8
  <2>1. todo = << <<"done">> >>
    BY <1>1, NextOp DEF Operate
  <2>2. Len(todo) = 1 /\ Tail(todo) = <<>>
    BY <2>1
  <2> QED BY <1>1, <2>1, <2>2 DEF Operate, Advance, Fail
<1>2. CASE part # 8
  <2>1. todo \in Seq(DownOps) /\ todo # <<>>
    BY <1>2, NextOp DEF Operate
  <2>2. Tail(todo) \in Seq(DownOps) /\ Len(Tail(todo)) = Len(todo) - 1 /\ Len(todo) \in Nat
    BY <2>1, HeadTailProperties
  <2>3. Len(todo) > 1 => Tail(Tail(todo)) \in Seq(DownOps)
    <3>1. ASSUME Len(todo) > 1 PROVE Tail(todo) # <<>>
      <4>1. Len(Tail(todo)) # 0
        BY <2>2, <3>1
      <4> QED BY <2>2, <4>1, EmptySeq
    <3> QED BY <2>2, <3>1, HeadTailProperties
  <2> QED BY <1>2, <2>2, <2>3 DEF Operate, Advance, Fail
<1> QED BY <1>1, <1>2

\* An operation, done or failed, keeps the plan.
LEMMA OperatePlan == ASSUME Plan, Operate PROVE Plan'
<1>1. UNCHANGED <<mode, part, steps, script>> /\ todo # <<>> /\ mode # "idle" /\ Down' = Down
  BY NextOp DEF Operate, Down
<1>2. CASE Down
  <2>1. part \in 1..8 /\ (part = 8 => todo' = <<>>) /\ (part \in 1..7 => todo' \in Seq(DownOps))
    BY <1>1, <1>2, NextOp, OperateDown
  <2>2. DownTodo'
    BY <1>1, <2>1 DEF DownTodo
  <2> QED BY <1>1, <1>2, <2>1, <2>2, StepsKept DEF Plan, Down
<1>3. CASE ~Down
  <2>1. CASE failed' = TRUE /\ todo' \in Halted
    <3>1. StepsLeft'
      BY <1>1, StepsKept
    <3> QED BY <1>1, <1>3, <2>1, <3>1 DEF Plan, Down
  <2>2. CASE failed' = failed /\ todo' = Tail(todo)
    <3>0. StepsLeft'
      BY <1>1, StepsKept
    <3>1. CASE failed
      <4>1. todo = << <<"start">> >>
        BY <1>1, <1>3, <3>1 DEF Plan, Halted
      <4>2. todo' = <<>>
        BY <2>2, <4>1, SpecialTails
      <4>3. todo' \in Halted
        BY <4>2 DEF Halted
      <4> QED BY <1>1, <1>3, <2>2, <3>0, <3>1, <4>3 DEF Plan, Down
    <3>2. CASE ~failed /\ mode = "realize"
      <4>1. UpTodo /\ part \in 0..11
        BY <3>2 DEF Plan
      <4>2. UpTodo'
        BY <1>1, <2>2, <4>1, RestsTail DEF UpTodo
      <4> QED BY <1>1, <1>3, <2>2, <3>0, <3>2, <4>1, <4>2 DEF Plan, Down
    <3>3. CASE ~failed /\ mode = "script"
      <4>1. ScriptTodo'
        <5>1. CASE todo \in Rests(PlainOps)
          BY <1>1, <2>2, <5>1, RestsTail DEF ScriptTodo
        <5>2. CASE todo \in Setting \cup Patching \cup Marking \cup Restoring \cup Settling
          <6>1. Tail(todo) \in Setting \cup Marking \cup Restoring \cup Settling \cup Resting
            BY <5>2, SpecialTails DEF Setting, Patching, Marking, Restoring, Settling, Resting
          <6> QED BY <2>2, <6>1, RestingPlain DEF ScriptTodo
        <5>3. CASE \E x \in Of("fip", Resources) : todo \in Forgetting(x)
          <6>1. PICK x \in Of("fip", Resources) : todo \in Forgetting(x)
            BY <5>3
          <6>2. Tail(todo) \in Forgetting(x) \cup {<<>>}
            BY <6>1, ForgettingTails DEF Forgetting
          <6> QED BY <2>2, <6>2, RestsEmpty DEF ScriptTodo
        <5> QED BY <3>3, <5>1, <5>2, <5>3 DEF Plan, ScriptTodo
      <4> QED BY <1>1, <1>3, <2>2, <3>0, <3>3, <4>1 DEF Plan, Down
    <3>4. CASE ~failed /\ mode = "restore"
      <4>1. todo \in Restoring \cup Settling \cup Resting
        BY <3>4 DEF Plan
      <4>2. Tail(todo) \in Restoring \cup Settling \cup Resting
        BY <1>1, <4>1, SpecialTails DEF Restoring, Settling, Resting
      <4> QED BY <1>1, <1>3, <2>2, <3>0, <3>4, <4>2 DEF Plan, Down
    <3>5. mode \in {"realize", "script", "restore"}
      BY <1>1, <1>3 DEF Plan, Down
    <3> QED BY <3>1, <3>2, <3>3, <3>4, <3>5
  <2> QED BY <1>3, <2>1, <2>2, OperateUp
<1> QED BY <1>2, <1>3

\* Only a teardown lists what is there.
LEMMA SweepDown ==
    ASSUME Plan, Sweep
    PROVE  Down /\ part \in 1..7 /\ todo \in Seq(DownOps)
<1>0. todo # <<>> /\ Head(todo)[1] \in {"servers", "ports"}
  BY DEF Sweep, Doing
<1>1. \A op \in ProjectOps \cup NetworkOps \cup SubnetOps \cup LateOps \cup PlainOps :
         op[1] \notin {"servers", "ports"}
  BY OpVerbs DEF Makes
<1>2. \A op \in Bare({"baseline", "set", "mark", "patch", "putback", "settle", "restart", "ready", "hup"}) :
         op[1] \notin {"servers", "ports"}
  BY DEF Bare
<1>3. Bare({"baseline", "set", "mark", "patch", "putback", "settle"})
      \cup Bare({"baseline", "putback", "settle", "restart", "ready", "hup"})
      \subseteq Bare({"baseline", "set", "mark", "patch", "putback", "settle", "restart", "ready", "hup"})
  BY DEF Bare
<1>4. \A x : \A op \in {"need", "delete", "forget"} \X {x} : op[1] \notin {"servers", "ports"}
  OBVIOUS
<1>5. <<"start">>[1] \notin {"servers", "ports"} /\ <<"done">>[1] \notin {"servers", "ports"}
  OBVIOUS
<1>6. ~(mode = "realize" /\ ~failed) /\ ~(mode = "script" /\ ~failed) /\ ~(mode = "restore" /\ ~failed)
  BY <1>0, <1>1, <1>2, <1>3, <1>4, NextOp
<1>7. Down
  BY <1>0, <1>5, <1>6, NextOp DEF Plan, Down
<1> QED BY <1>0, <1>5, <1>7, NextOp

\* A listing puts deletions in front of what is left.
LEMMA SweepPlan == ASSUME Plan, Sweep PROVE Plan'
<1>1. /\ todo # <<>> /\ Head(todo)[1] \in {"servers", "ports"}
      /\ UNCHANGED <<mode, part, steps, script, failed>>
  BY DEF Sweep, Doing, idleVars
<1>2. Down /\ part \in 1..7 /\ todo \in Seq(DownOps)
  BY SweepDown
<1>3. PICK S : todo' = ForEach(InOrder(S), Removed) \o Tail(todo)
  BY DEF Sweep
<1> DEFINE s == InOrder(S)
           ops == FlattenSeq([i \in DOMAIN s |-> Removed(s[i])])
           E == On({"delete"}, Kinds) \cup On({"gone"}, {"server", "lb"})
<1>4. todo' = ops \o Tail(todo)
  BY <1>3 DEF ForEach
<1>5. s \in Seq(Resources)
  <2>1. s \in Seq(S \cap Resources)
    BY InOrderSeq
  <2> HIDE DEF s
  <2> QED BY <2>1
<1>6. ops \in Seq(E)
  <2> HIDE DEF s
  <2> QED BY <1>5, RemovedAll
<1>7. E \subseteq DownOps
  BY DEF DownOps
<1> HIDE DEF ops, E
<1>8. todo' \in Seq(DownOps)
  <2>1. ops \in Seq(DownOps)
    BY <1>6, <1>7
  <2>2. Tail(todo) \in Seq(DownOps)
    BY <1>1, <1>2
  <2> QED BY <1>4, <2>1, <2>2
<1>9. DownTodo'
  BY <1>1, <1>2, <1>8 DEF DownTodo
<1> QED BY <1>1, <1>2, <1>9, StepsKept DEF Plan, Down

\* A part of the plan begins.
LEMMA NextPartPlan == ASSUME Plan, NextPart PROVE Plan'
<1>1. /\ todo = <<>> /\ ~Finished /\ part' = part + 1
      /\ todo' = IF Down THEN DownPart(rs.recs, part + 1) ELSE UpPlan[part + 1]
      /\ UNCHANGED <<mode, failed, steps, script>>
  BY DEF NextPart
<1>2. CASE Down
  <2>1. part \in 0..7
    <3>1. part \in 0..8 /\ Parts = 8 /\ part # Parts
      BY <1>1, <1>2, DownPlanParts DEF Plan, Finished, Parts, Down
    <3> QED BY <3>1
  <2>2. part + 1 \in 1..7 => todo' \in Seq(DownOps)
    BY <1>1, <1>2, DownPartSeq
  <2>3. part + 1 = 8 => todo' = << <<"done">> >>
    BY <1>1, <1>2, DownPartSeq
  <2>4. DownTodo' /\ part' \in 0..8
    BY <1>1, <2>1, <2>2, <2>3 DEF DownTodo
  <2> QED BY <1>1, <1>2, <2>4, StepsKept DEF Plan, Down
<1>3. CASE ~Down
  <2>1. mode = "realize" /\ ~failed /\ part \in 0..10
    <3>1. mode \in {"idle", "script", "restore"} => Parts = 0
      BY <1>3 DEF Parts, Down
    <3>2. mode = "realize" => Parts = 11
      BY UpParts DEF Parts
    <3>3. ~failed /\ part # Parts
      BY <1>1, <1>3 DEF Finished
    <3>4. mode \in {"idle", "script", "restore"} => part = 0
      BY DEF Plan
    <3> QED BY <1>3, <3>1, <3>2, <3>3, <3>4 DEF Plan, Down
  <2>2. todo' = UpPlan[part + 1] /\ part' = part + 1
    BY <1>1, <1>3
  <2>3. UpTodo' /\ part' \in 0..11
    BY <2>1, <2>2, UpParts, ChainsRest DEF UpTodo
  <2> QED BY <1>1, <1>3, <2>1, <2>3, StepsKept DEF Plan, Down
<1> QED BY <1>2, <1>3

\* A step of the script begins.
LEMMA RunStepPlan == ASSUME Plan, RunStep PROVE Plan' /\ Begun' = Begun + 1 /\ Begun' \in 1..Len(script)
                                             /\ Head(steps) = script[Begun']
<1>1. /\ mode = "script" /\ todo = <<>> /\ ~failed /\ steps # <<>>
      /\ todo' = StepOps(Head(steps)) /\ steps' = Tail(steps)
      /\ UNCHANGED <<mode, part, failed, script>>
  BY DEF RunStep
<1>2. /\ script \in Seq(StepSet) /\ steps \in Seq(StepSet) /\ Len(steps) <= Len(script)
      /\ \A i \in 1..Len(steps) : steps[i] = script[Len(script) - Len(steps) + i]
  BY <1>1 DEF Plan, StepsLeft, Begun
<1>3. /\ Head(steps) \in StepSet /\ Head(steps) = steps[1] /\ Tail(steps) \in Seq(StepSet)
      /\ Len(Tail(steps)) = Len(steps) - 1 /\ Len(steps) \in Nat \ {0} /\ Len(script) \in Nat
      /\ \A i \in 1..Len(Tail(steps)) : Tail(steps)[i] = steps[i + 1]
  BY <1>1, <1>2, HeadTailProperties
<1>4. Begun' = Begun + 1 /\ Begun' \in 1..Len(script) /\ Head(steps) = script[Begun']
  BY <1>1, <1>2, <1>3 DEF Begun
<1>5. StepsLeft'
  <2>1. ASSUME NEW i \in 1..Len(Tail(steps)) PROVE Tail(steps)[i] = script[Len(script) - Len(Tail(steps)) + i]
    <3>1. i + 1 \in 1..Len(steps) /\ Tail(steps)[i] = steps[i + 1]
      BY <1>3
    <3>2. steps[i + 1] = script[Len(script) - Len(steps) + (i + 1)]
      BY <1>2, <3>1
    <3>3. Len(script) - Len(steps) + (i + 1) = Len(script) - Len(Tail(steps)) + i
      BY <1>3
    <3> QED BY <3>1, <3>2, <3>3
  <2>2. Len(Tail(steps)) <= Len(script)
    BY <1>2, <1>3
  <2> QED BY <1>1, <1>2, <1>3, <2>1, <2>2 DEF StepsLeft, Begun
<1>6. ScriptTodo'
  <2>1. /\ Head(steps)[1] \notin SpecialSteps => todo' \in Rests(PlainOps)
        /\ Head(steps)[1] = "set-config" => todo' = RestartSet
        /\ Head(steps)[1] = "restore-config" => todo' = RestartRestore
        /\ Head(steps)[1] = "reload" => todo' = ReloadSet
        /\ Head(steps)[1] = "delete-fip" => \E x \in Of("fip", Resources) : todo' = DeleteFIP(x)
    BY <1>1, <1>3, StepShape, ChainsRest
  <2> QED BY <2>1 DEF ScriptTodo, SpecialSteps, Setting, Restoring, Patching, Forgetting
<1>7. Plan'
  BY <1>1, <1>5, <1>6 DEF Plan, Down
<1> QED BY <1>4, <1>7

\* A script starts with all its steps left.
LEMMA EnterScript ==
    ASSUME Plan, script' \in (IF script = <<>> THEN Scripts ELSE {script}), steps' = script',
           mode' = "script", part' = 0, todo' = <<>>, failed' = FALSE
    PROVE  Plan' /\ Begun' = 0
<1>1. script \in Scripts \cup {<<>>}
  BY DEF Plan
<1>2. script' \in Scripts
  BY <1>1
<1>3. script' \in Seq(StepSet)
  BY <1>2, ScenarioAssumption DEF StepSet
<1>4. Len(script') \in Nat /\ Begun' = 0
  BY <1>3 DEF Begun
<1>5. StepsLeft'
  BY <1>3, <1>4 DEF StepsLeft
<1>6. ScriptTodo'
  BY RestsEmpty DEF ScriptTodo
<1>7. ~Down'
  BY DEF Down
<1> QED BY <1>2, <1>4, <1>5, <1>6, <1>7 DEF Plan

\* The steps that start a phase, or are none of the process's.
LEMMA PhasePlan ==
    ASSUME Plan,
           \/ Start \/ StartDown \/ StartScript \/ Resume \/ EndScript \/ StartTeardown \/ EndCommand
           \/ Interrupt \/ Crash \/ DeletionEnds \/ PlatformPlugs \/ UNCHANGED vars
    PROVE  Plan'
<1>0. script \in Scripts \cup {<<>>}
  BY DEF Plan
<1>1. CASE Start
  BY <1>0, <1>1, StepsKept DEF Start, Enter, Plan, Down, UpTodo
<1>2. CASE StartDown
  <2>1. DownTodo'
    BY <1>2 DEF StartDown, Enter, DownTodo
  <2> QED BY <1>0, <1>2, <2>1, StepsKept DEF StartDown, Enter, Plan, Down
<1>3. CASE StartScript
  BY <1>3, EnterScript DEF StartScript, Enter
<1>4. CASE Resume
  BY <1>4, EnterScript DEF Resume, Enter
<1>5. CASE EndScript
  <2>1. todo' \in Restoring \cup Resting
    BY <1>5 DEF EndScript, Enter, Restoring, Resting
  <2> QED BY <1>0, <1>5, <2>1, StepsKept DEF EndScript, Enter, Plan, Down
<1>6. CASE StartTeardown
  <2>1. DownTodo'
    BY <1>6 DEF StartTeardown, Enter, DownTodo
  <2> QED BY <1>0, <1>6, <2>1, StepsKept DEF StartTeardown, Enter, Plan, Down
<1>7. CASE EndCommand
  BY <1>0, <1>7, StepsKept DEF EndCommand, Exit, Enter, Plan, Down
<1>8. CASE Crash
  BY <1>0, <1>8, StepsKept DEF Crash, Exit, Enter, Plan, Down
<1>9. CASE UNCHANGED <<mode, part, todo, failed, steps, script>>
  <2>1. /\ StepsLeft' = StepsLeft /\ UpTodo' = UpTodo /\ ScriptTodo' = ScriptTodo
        /\ DownTodo' = DownTodo /\ Down' = Down
    BY <1>9 DEF StepsLeft, Begun, UpTodo, ScriptTodo, DownTodo, Down
  <2> QED BY <1>9, <2>1 DEF Plan
<1>10. Interrupt \/ DeletionEnds \/ PlatformPlugs \/ UNCHANGED vars => UNCHANGED <<mode, part, todo, failed, steps, script>>
  BY DEF Interrupt, DeletionEnds, PlatformPlugs, vars, procVars
<1> QED BY <1>1, <1>2, <1>3, <1>4, <1>5, <1>6, <1>7, <1>8, <1>9, <1>10

\* The steps of the specification, as the proofs below take them.
LEMMA NextSteps ==
    ASSUME [Next]_vars
    PROVE  \/ Operation \/ Sweep \/ NextPart \/ RunStep
           \/ Start \/ StartDown \/ StartScript \/ Resume \/ EndScript \/ StartTeardown \/ EndCommand
           \/ Interrupt \/ Crash \/ DeletionEnds \/ PlatformPlugs \/ UNCHANGED vars
  BY DEF Next, Work, Operation

\* Every step keeps the plan.
LEMMA NextPlan == ASSUME Plan, [Next]_vars PROVE Plan'
  BY NextSteps, OperationOperates, OperatePlan, SweepPlan, NextPartPlan, RunStepPlan, PhasePlan

\* A command has the operations its phase has, in their order, and never more
\* than one phase's.
THEOREM PlanInvariant == Spec => []Plan
<1>1. Init => Plan
  BY DEF Init, Plan, Down, StepsLeft
<1>2. Plan /\ [Next]_vars => Plan'
  BY NextPlan
<1> QED BY <1>1, <1>2, PTL DEF Spec

(***************************************************************************)
(* The types                                                               *)
(***************************************************************************)
\* The types of the variables.
State == [recs : SUBSET Resources, done : BOOLEAN]
AgentType == [config : {"own", "patched"}, backup : {"none", "own", "patched"}, up : BOOLEAN]
HistType ==
    [plugged : SUBSET Platform, runs : Nat, faults : Nat, crashes : Nat, excused : BOOLEAN]
\* A file that is not there, or cannot be read, says nothing.
FileOK(f) ==
    /\ f \in [there : BOOLEAN, torn : BOOLEAN, state : State]
    /\ f.torn => f.there
    /\ f.torn \/ ~f.there => f.state = NoState
Memory ==
    /\ failed \in BOOLEAN /\ dirty \in BOOLEAN /\ stops \in 0..2
    /\ rs \in State /\ FileOK(file) /\ agent \in AgentType /\ hist \in HistType

\* A file cut short.
Torn == [there |-> TRUE, torn |-> TRUE, state |-> NoState]
\* The states and the files that a save can leave.
LEMMA FileTypes ==
    /\ NoState \in State /\ FileOK(Torn)
    /\ \A s \in State : FileOK([there |-> TRUE, torn |-> FALSE, state |-> s])
    /\ \A f : FileOK(f) => f.state \in State
  BY DEF NoState, State, Torn, FileOK

\* What is recorded is a resource.
LEMMA RecordTyped ==
    ASSUME Plan, todo # <<>>, Head(todo)[1] = "record"
    PROVE  Head(todo)[2] \in Resources
<1> DEFINE op == Head(todo)
<1>1. op[1] \in Makes /\ op[1] = "record"
  BY DEF Makes
<1>2. /\ op \in ProjectOps => op[2] \in Resources
      /\ op \in NetworkOps => op[2] \in Resources
      /\ op \in SubnetOps => op[2] \in Resources
      /\ op \in LateOps => op[2] \in Resources
      /\ op \in PlainOps => op[2] \in Resources
  BY <1>1, OpVerbs DEF Of
<1>3. op \notin DownOps
  BY <1>1, OpVerbs
<1>4. /\ op \notin Bare({"baseline", "set", "mark", "patch", "putback", "settle"})
      /\ op \notin Bare({"baseline", "putback", "settle", "restart", "ready", "hup"})
      /\ op # <<"start">> /\ op # <<"done">>
      /\ \A x : op \notin {"need", "delete", "forget"} \X {x}
  BY <1>1 DEF Bare
<1> HIDE DEF op
<1> QED BY <1>2, <1>3, <1>4, NextOp DEF op, Plan, Down

\* The record stays a set of resources.
LEMMA RememberedTyped ==
    ASSUME Plan, Memory, MustSave
    PROVE  Remembered \in State
<1>1. todo # <<>> /\ rs \in State
  BY DEF MustSave, Doing, Memory
<1>2. Head(todo)[1] = "record" => Head(todo)[2] \in Resources
  BY <1>1, RecordTyped
<1> QED BY <1>1, <1>2 DEF Remembered, State

\* An operation keeps the types.
LEMMA OperationMemory == ASSUME Plan, Memory, Operation PROVE Memory'
<1>1. failed' \in BOOLEAN
  BY OperationOperates DEF Memory, Operate, Advance, Fail
<1>2. CASE CallOk \/ WaitOk \/ WaitServerGone \/ Need \/ NotDone \/ AgentAnswers
  BY <1>1, <1>2 DEF CallOk, WaitOk, WaitServerGone, Need, NotDone, AgentAnswers, idleVars, Memory
<1>3. Fault \in HistType
  BY DEF Fault, Memory, HistType
<1>4. CASE CallFails \/ CallLost
  <2>1. hist' = hist \/ hist' = Fault
    BY <1>4 DEF CallFails, CallLost
  <2>2. UNCHANGED <<dirty, stops, rs, file, agent>>
    BY <1>4 DEF CallFails, CallLost, idleVars
  <2> QED BY <1>1, <1>3, <2>1, <2>2 DEF Memory
<1>5. CASE SaveOk
  <2>1. rs' \in State /\ file' = [there |-> TRUE, torn |-> FALSE, state |-> rs']
    BY <1>5, RememberedTyped DEF SaveOk
  <2>2. FileOK(file')
    BY <2>1, FileTypes
  <2> QED BY <1>1, <1>5, <2>1, <2>2 DEF SaveOk, Memory
<1>6. CASE SaveFails
  <2>1. rs' \in State /\ file' \in {file, Torn}
    BY <1>6, RememberedTyped DEF SaveFails, Torn
  <2>2. FileOK(file')
    BY <2>1, FileTypes DEF Memory
  <2> QED BY <1>1, <1>3, <1>6, <2>1, <2>2 DEF SaveFails, Memory
<1>7. CASE ShellOk \/ ShellLost
  <2>1. agent' = ShellDoes(Head(todo)[1]) /\ UNCHANGED <<dirty, stops, rs, file>>
    BY <1>7 DEF ShellOk, ShellLost, idleVars
  <2>2. /\ agent \in AgentType
        /\ Head(todo)[1] = "putback" => agent.backup # "none"
    BY <1>7 DEF ShellOk, ShellLost, ShellRefused, Memory
  <2>3. agent' \in AgentType
    BY <2>1, <2>2 DEF ShellDoes, AgentType
  <2>4. hist' = hist \/ hist' = [Fault EXCEPT !.excused = @ \/ Head(todo)[1] \in {"set", "patch"}]
    BY <1>7 DEF ShellOk, ShellLost
  <2>5. hist' \in HistType
    BY <1>3, <2>4 DEF Memory, HistType
  <2> QED BY <1>1, <2>1, <2>3, <2>5 DEF Memory
<1>8. CASE AgentFails
  <2>1. PICK h \in {hist, Fault} : hist' = Reported(Head(todo)[1], h)
    BY <1>8 DEF AgentFails
  <2>2. hist' \in HistType
    BY <1>3, <2>1 DEF Reported, Memory, HistType
  <2> QED BY <1>1, <1>8, <2>2 DEF AgentFails, idleVars, Memory
<1>9. CASE MarkConfigDirty
  BY <1>1, <1>9 DEF MarkConfigDirty, Memory
<1> QED BY <1>2, <1>4, <1>5, <1>6, <1>7, <1>8, <1>9 DEF Operation

\* Every step keeps the types.
LEMMA NextMemory == ASSUME Plan, Memory, [Next]_vars PROVE Memory'
<1>0. NoState \in State /\ file.state \in State
  BY FileTypes DEF Memory
<1>00. [hist EXCEPT !.runs = @ + 1] \in HistType
  BY DEF Memory, HistType
<1>1. CASE Operation
  BY <1>1, OperationMemory
<1>2. CASE Sweep \/ NextPart \/ RunStep
  BY <1>2 DEF Sweep, NextPart, RunStep, idleVars, Memory
<1>3. CASE Start
  <2>1. /\ failed' = FALSE /\ dirty' = FALSE /\ stops' = 0 /\ rs' = NoState
        /\ hist' = [hist EXCEPT !.runs = @ + 1] /\ UNCHANGED <<file, agent>>
    BY <1>3 DEF Start, Enter
  <2>2. stops' \in 0..2
    BY <2>1
  <2>3. failed' \in BOOLEAN /\ dirty' \in BOOLEAN
    BY <2>1
  <2> QED BY <1>0, <1>00, <2>1, <2>2, <2>3 DEF Memory
<1>4. CASE StartDown
  <2>1. /\ failed' = FALSE /\ dirty' = FALSE /\ stops' = 0 /\ rs' = file.state
        /\ UNCHANGED <<file, agent, hist>>
    BY <1>4 DEF StartDown, Enter
  <2>2. stops' \in 0..2
    BY <2>1
  <2>3. failed' \in BOOLEAN /\ dirty' \in BOOLEAN
    BY <2>1
  <2> QED BY <1>0, <2>1, <2>2, <2>3 DEF Memory
<1>5. CASE StartScript
  BY <1>5 DEF StartScript, Enter, Memory
<1>6. CASE Resume
  <2>1. /\ failed' = FALSE /\ dirty' = FALSE /\ stops' = 0 /\ rs' = file.state
        /\ hist' = [hist EXCEPT !.runs = @ + 1] /\ UNCHANGED <<file, agent>>
    BY <1>6 DEF Resume, Enter
  <2>2. stops' \in 0..2
    BY <2>1
  <2>3. failed' \in BOOLEAN /\ dirty' \in BOOLEAN
    BY <2>1
  <2> QED BY <1>0, <1>00, <2>1, <2>2, <2>3 DEF Memory
<1>7. CASE EndScript \/ StartTeardown
  BY <1>7 DEF EndScript, StartTeardown, Enter, Memory
<1>8. CASE EndCommand
  BY <1>0, <1>8 DEF EndCommand, Exit, Enter, Memory
<1>9. CASE Interrupt
  <2>1. hist' \in HistType
    BY <1>9 DEF Interrupt, Fault, Memory, HistType
  <2>2. stops' \in 0..2
    BY <1>9 DEF Interrupt, Memory
  <2> QED BY <1>9, <2>1, <2>2 DEF Interrupt, Memory
<1>10. CASE Crash
  <2>1. /\ failed' = FALSE /\ rs' = NoState /\ dirty' = FALSE /\ UNCHANGED <<stops, agent>>
        /\ hist' = [hist EXCEPT !.crashes = @ + 1, !.excused = @ \/ agent.config # "own"]
        /\ file' = file \/ file' = Torn
    BY <1>10 DEF Crash, Exit, Enter, Torn
  <2>2. hist' \in HistType
    <3>1. hist.crashes + 1 \in Nat
      BY DEF Memory, HistType
    <3>2. ASSUME NEW e \in BOOLEAN, NEW n \in Nat
          PROVE  [hist EXCEPT !.crashes = n, !.excused = e] \in HistType
      BY DEF Memory, HistType
    <3>3. (hist.excused \/ agent.config # "own") \in BOOLEAN
      OBVIOUS
    <3> QED BY <2>1, <3>1, <3>2, <3>3
  <2>3. FileOK(file')
    BY <2>1, FileTypes DEF Memory
  <2> QED BY <1>0, <2>1, <2>2, <2>3 DEF Memory
<1>11. CASE DeletionEnds \/ UNCHANGED vars
  BY <1>11 DEF DeletionEnds, vars, procVars, Memory
<1>12. CASE PlatformPlugs
  <2>1. hist' \in HistType
    BY <1>12 DEF PlatformPlugs, Memory, HistType
  <2> QED BY <1>12, <2>1 DEF PlatformPlugs, procVars, Memory
<1> QED BY <1>1, <1>2, <1>3, <1>4, <1>5, <1>6, <1>7, <1>8, <1>9, <1>10, <1>11, <1>12, NextSteps

(***************************************************************************)
(* The agent's config                                                      *)
(***************************************************************************)
LEMMA InForceFirst == ASSUME NEW s PROVE ~InForce(s, 0 + 1)
  BY DEF InForce

\* Whether a set-config is in force, one step of the script later.
LEMMA InForceStep ==
    ASSUME NEW s, NEW i \in Nat \ {0}
    PROVE  /\ s[i][1] = "set-config" => InForce(s, i + 1)
           /\ s[i][1] = "restore-config" => ~InForce(s, i + 1)
           /\ s[i][1] \notin {"set-config", "restore-config"} => (InForce(s, i + 1) <=> InForce(s, i))
<1>1. ASSUME s[i][1] = "set-config" PROVE InForce(s, i + 1)
  <2>1. i \in 1..(i + 1 - 1) /\ \A k \in (i + 1)..(i + 1 - 1) : FALSE
    OBVIOUS
  <2> QED BY <1>1, <2>1 DEF InForce
<1>2. ASSUME s[i][1] = "restore-config", InForce(s, i + 1) PROVE FALSE
  <2>1. PICK j \in 1..(i + 1 - 1) : /\ s[j][1] = "set-config"
                                    /\ \A k \in (j + 1)..(i + 1 - 1) : s[k][1] # "restore-config"
    BY <1>2 DEF InForce
  <2>2. j # i
    BY <1>2, <2>1
  <2>3. i \in (j + 1)..(i + 1 - 1)
    BY <2>2
  <2> QED BY <1>2, <2>1, <2>3
<1>3. ASSUME s[i][1] \notin {"set-config", "restore-config"}, InForce(s, i + 1) PROVE InForce(s, i)
  <2>1. PICK j \in 1..(i + 1 - 1) : /\ s[j][1] = "set-config"
                                    /\ \A k \in (j + 1)..(i + 1 - 1) : s[k][1] # "restore-config"
    BY <1>3 DEF InForce
  <2>2. j # i
    BY <1>3, <2>1
  <2>3. j \in 1..(i - 1) /\ \A k \in (j + 1)..(i - 1) : k \in (j + 1)..(i + 1 - 1)
    BY <2>2
  <2> QED BY <2>1, <2>3 DEF InForce
<1>4. ASSUME s[i][1] \notin {"set-config", "restore-config"}, InForce(s, i) PROVE InForce(s, i + 1)
  <2>1. PICK j \in 1..(i - 1) : /\ s[j][1] = "set-config"
                                /\ \A k \in (j + 1)..(i - 1) : s[k][1] # "restore-config"
    BY <1>4 DEF InForce
  <2>2. j \in 1..(i + 1 - 1) /\ \A k \in (j + 1)..(i + 1 - 1) : k = i \/ k \in (j + 1)..(i - 1)
    OBVIOUS
  <2> QED BY <1>4, <2>1, <2>2 DEF InForce
<1> QED BY <1>1, <1>2, <1>3, <1>4

\* Whether the config is patched is known: in a script it owes a restore, and a
\* set-config is in force unless the script has failed or is restoring; no
\* backup is of a patched config.
ConfigKnown ==
    /\ agent.backup # "patched"
    /\ mode \notin {"script", "restore"} => agent.config = "own"
    /\ mode = "restore" /\ agent.config # "own" =>
         ~failed /\ todo \in Restoring /\ agent.backup = "own"
    /\ mode = "script" /\ agent.config # "own" =>
         /\ agent.backup = "own"
         /\ dirty \/ (~failed /\ todo \in Marking)
         /\ failed \/ todo \in Restoring \/ InForce(script, Begun + 1)
    /\ mode = "script" /\ ~failed =>
         /\ todo \in Setting \cup Settling => agent.config = "own"
         /\ todo \in Setting \cup Patching \cup Marking => InForce(script, Begun + 1)
         /\ InForce(script, Begun + 1) /\ todo \notin Setting => agent.backup = "own"
ConfigInv == ~hist.excused => ConfigKnown

\* The points a config step is at, and the verbs on the agent.
Shapes == Setting \cup Patching \cup Marking \cup Restoring \cup Settling
AgentVerbs == Shell \cup {"baseline", "ready", "mark", "settle"}

\* The next verb of a config step.
LEMMA SpecialHeads ==
    /\ Head(RestartSet)[1] = "baseline" /\ Head(RestartRestore)[1] = "baseline"
    /\ Head(ReloadSet)[1] = "patch"
    /\ Head(<< <<"set">>, <<"mark">>, <<"restart">>, <<"ready">> >>)[1] = "set"
    /\ Head(<< <<"mark">>, <<"restart">>, <<"ready">> >>)[1] = "mark"
    /\ Head(<< <<"mark">>, <<"hup">> >>)[1] = "mark"
    /\ Head(<< <<"putback">>, <<"settle">>, <<"restart">>, <<"ready">> >>)[1] = "putback"
    /\ Head(<< <<"settle">>, <<"restart">>, <<"ready">> >>)[1] = "settle"
  BY DEF RestartSet, ReloadSet, RestartRestore

\* The config steps, by the verb that is next.
LEMMA ShapeHeads ==
    ASSUME NEW s \in Shapes
    PROVE  /\ Head(s)[1] \in {"baseline", "set", "patch", "mark", "putback", "settle"}
           /\ Head(s)[1] = "set" => s \in Setting /\ Tail(s) \in Marking
           /\ Head(s)[1] = "patch" => s \in Patching /\ Tail(s) \in Marking
           /\ Head(s)[1] = "mark" => s \in Marking /\ Tail(s) \in Resting
           /\ Head(s)[1] = "putback" => s \in Restoring /\ Tail(s) \in Settling
           /\ Head(s)[1] = "settle" => s \in Settling /\ Tail(s) \in Resting
           /\ Head(s)[1] = "baseline" => \/ s \in Setting /\ Tail(s) \in Setting
                                         \/ s \in Restoring /\ Tail(s) \in Restoring
           /\ s \in Restoring => Head(s)[1] \in {"baseline", "putback"}
           /\ s \in Marking => Head(s)[1] = "mark"
<1>1. s \in Setting => \/ Head(s)[1] = "baseline" /\ Tail(s) \in Setting
                       \/ Head(s)[1] = "set" /\ Tail(s) \in Marking
  BY SpecialHeads, SpecialTails, Zenon DEF Setting, Marking
<1>2. s \in Patching => Head(s)[1] = "patch" /\ Tail(s) \in Marking
  BY SpecialHeads, SpecialTails, Zenon DEF Patching, Marking
<1>3. s \in Marking => Head(s)[1] = "mark" /\ Tail(s) \in Resting
  BY SpecialHeads, SpecialTails, Zenon DEF Marking, Resting
<1>4. s \in Restoring => \/ Head(s)[1] = "baseline" /\ Tail(s) \in Restoring
                         \/ Head(s)[1] = "putback" /\ Tail(s) \in Settling
  BY SpecialHeads, SpecialTails, Zenon DEF Restoring, Settling
<1>5. s \in Settling => Head(s)[1] = "settle" /\ Tail(s) \in Resting
  BY SpecialHeads, SpecialTails, Zenon DEF Settling, Resting
<1> QED BY <1>1, <1>2, <1>3, <1>4, <1>5 DEF Shapes

\* A config step is at one point at a time.
LEMMA ShapesDiffer ==
    /\ Setting \cap (Patching \cup Marking \cup Restoring \cup Settling) = {}
    /\ Marking \cap (Restoring \cup Settling) = {} /\ Restoring \cap Settling = {}
    /\ Patching \cap (Marking \cup Restoring \cup Settling) = {}
<1>1. /\ \A s \in Setting : s[2] \in {<<"set">>, <<"mark">>} /\ s[1] \in {<<"baseline">>, <<"set">>}
      /\ \A s \in Setting : s[1] = <<"baseline">> => s[2] = <<"set">>
      /\ \A s \in Patching : s[1] = <<"patch">>
      /\ \A s \in Marking : s[1] = <<"mark">>
      /\ \A s \in Restoring : s[1] \in {<<"baseline">>, <<"putback">>} /\ s[2] \in {<<"putback">>, <<"settle">>}
      /\ \A s \in Settling : s[1] = <<"settle">>
  BY DEF Setting, Patching, Marking, Restoring, Settling, RestartSet, ReloadSet, RestartRestore
<1>2. /\ <<"baseline">> # <<"set">> /\ <<"baseline">> # <<"patch">> /\ <<"baseline">> # <<"mark">>
      /\ <<"baseline">> # <<"settle">> /\ <<"baseline">> # <<"putback">>
      /\ <<"set">> # <<"patch">> /\ <<"set">> # <<"mark">> /\ <<"set">> # <<"putback">> /\ <<"set">> # <<"settle">>
      /\ <<"patch">> # <<"mark">> /\ <<"patch">> # <<"putback">> /\ <<"patch">> # <<"settle">>
      /\ <<"mark">> # <<"putback">> /\ <<"mark">> # <<"settle">> /\ <<"putback">> # <<"settle">>
  OBVIOUS
<1> QED BY <1>1, <1>2

\* No other step is one of them.
LEMMA PlainNoShape ==
    /\ \A s \in Rests(PlainOps) : s \notin Shapes
    /\ \A x : \A s \in Forgetting(x) : s \notin Shapes
    /\ \A s \in Halted \cup Resting : s \notin Shapes
<1>1. ASSUME NEW s \in Rests(PlainOps), s \in Shapes PROVE FALSE
  <2>1. s \in Seq(PlainOps)
    BY <1>1 DEF Rests
  <2>2. \E i \in 1..2 : i <= Len(s) /\ s[i][1] \in {"set", "patch", "mark", "putback", "settle"}
    <3>1. \/ Len(s) >= 1 /\ s[1][1] \in {"set", "patch", "mark", "putback", "settle"}
          \/ Len(s) >= 2 /\ s[2][1] \in {"set", "patch", "mark", "putback", "settle"}
      BY <1>1 DEF Shapes, Setting, Patching, Marking, Restoring, Settling, RestartSet, ReloadSet, RestartRestore
    <3> QED BY <3>1
  <2>3. \A i \in 1..Len(s) : s[i] \in PlainOps
    BY <2>1
  <2>4. \A op \in PlainOps : op[1] \notin {"set", "patch", "mark", "putback", "settle"}
    BY OpVerbs
  <2>5. Len(s) \in Nat
    BY <2>1
  <2> QED BY <2>2, <2>3, <2>4, <2>5
<1>2. ASSUME NEW x, NEW s \in Forgetting(x), s \in Shapes PROVE FALSE
  <2>1. Head(s)[1] \in {"need", "delete", "forget"}
    BY <1>2 DEF Forgetting, DeleteFIP
  <2> QED BY <1>2, <2>1, ShapeHeads
<1>3. ASSUME NEW s \in Halted \cup Resting, s \in Shapes PROVE FALSE
  <2>1. s[1] \in {<<"baseline">>, <<"set">>, <<"patch">>, <<"mark">>, <<"putback">>, <<"settle">>} /\ Len(s) # 0
    BY <1>3 DEF Shapes, Setting, Patching, Marking, Restoring, Settling, RestartSet, ReloadSet, RestartRestore
  <2>2. Len(s) = 0 \/ s[1] \in {<<"start">>, <<"restart">>, <<"ready">>, <<"hup">>}
    BY <1>3 DEF Halted, Resting
  <2> QED BY <2>1, <2>2
<1> QED BY <1>1, <1>2, <1>3

\* What an operation does to the shape of what is left.
LEMMA ScriptShapes ==
    ASSUME Plan, todo # <<>>, mode = "script"
    PROVE  /\ failed => todo = << <<"start">> >> /\ Tail(todo) \notin Shapes
           /\ ~failed => \/ todo \in Shapes
                         \/ todo \notin Shapes /\ Tail(todo) \notin Shapes
           /\ Head(todo)[1] \in {"set", "patch", "mark", "putback", "settle"} => ~failed /\ todo \in Shapes
<1>0. ~Down
  BY DEF Down
<1>1. ASSUME failed PROVE todo = << <<"start">> >> /\ Tail(todo) \notin Shapes /\ Head(todo)[1] = "start"
  <2>1. todo = << <<"start">> >>
    BY <1>0, <1>1 DEF Plan, Halted
  <2>2. Tail(todo) = <<>> /\ Head(todo)[1] = "start"
    BY <2>1, SpecialTails
  <2> QED BY <2>1, <2>2, PlainNoShape DEF Halted
<1>2. ASSUME ~failed, todo \notin Shapes
      PROVE  /\ Tail(todo) \notin Shapes
             /\ Head(todo)[1] \notin {"set", "patch", "mark", "putback", "settle"}
  <2>1. CASE todo \in Rests(PlainOps)
    <3>1. Tail(todo) \in Rests(PlainOps) /\ Head(todo) \in PlainOps
      BY <2>1, RestsTail, RestsHead
    <3> QED BY <3>1, PlainNoShape, OpVerbs
  <2>2. CASE \E x \in Of("fip", Resources) : todo \in Forgetting(x)
    <3>1. PICK x \in Of("fip", Resources) : todo \in Forgetting(x)
      BY <2>2
    <3>2. Tail(todo) \in Forgetting(x) \/ Tail(todo) = <<>>
      BY <3>1, ForgettingTails DEF Forgetting
    <3>3. Head(todo)[1] \in {"need", "delete", "forget"}
      BY <3>1 DEF Forgetting, DeleteFIP
    <3> QED BY <3>2, <3>3, PlainNoShape DEF Halted
  <2> QED BY <1>2, <2>1, <2>2 DEF Plan, ScriptTodo, Shapes
<1> QED BY <1>1, <1>2

\* Only a restore that has not failed is at one of these points.
LEMMA RestoreShapes ==
    ASSUME Plan, todo # <<>>, mode = "restore", todo \in Shapes \/ Tail(todo) \in Shapes
    PROVE  ~failed /\ todo \in Restoring \cup Settling
<1>0. ~Down
  BY DEF Down
<1>1. ~failed
  <2> SUFFICES ASSUME failed PROVE FALSE
    OBVIOUS
  <2>1. todo = << <<"start">> >>
    BY <1>0 DEF Plan, Halted
  <2>2. todo \in Halted /\ Tail(todo) \in Halted
    BY <2>1, SpecialTails DEF Halted
  <2> QED BY <2>2, PlainNoShape
<1>2. todo \in Restoring \cup Settling \cup Resting
  BY <1>1 DEF Plan
<1>3. todo \in Resting => Tail(todo) \in Resting
  BY SpecialTails DEF Resting
<1> QED BY <1>1, <1>2, <1>3, PlainNoShape

\* An operation that leaves the config, the backup and the debt alone.
LEMMA ConfigUnmoved ==
    ASSUME Plan, ConfigKnown, Operate,
           agent'.config = agent.config, agent'.backup = agent.backup, dirty' = dirty,
           Head(todo)[1] \notin {"set", "patch", "mark", "putback", "settle"},
           mode = "restore" /\ Head(todo)[1] = "baseline" => failed' = failed
    PROVE  ConfigKnown'
<1>1. UNCHANGED <<mode, part, steps, script>> /\ todo # <<>>
  BY DEF Operate
<1>2. InForce(script, Begun + 1)' <=> InForce(script, Begun + 1)
  BY <1>1 DEF Begun, InForce
<1>3. CASE mode \notin {"script", "restore"}
  BY <1>1, <1>3 DEF ConfigKnown
<1>4. CASE mode = "restore"
  <2>1. ~Down
    BY <1>4 DEF Down
  <2>2. CASE agent.config = "own"
    BY <1>1, <1>4, <2>2 DEF ConfigKnown
  <2>3. CASE agent.config # "own"
    <3>1. ~failed /\ todo \in Restoring /\ agent.backup = "own"
      BY <1>4, <2>3 DEF ConfigKnown
    <3>2. Head(todo)[1] = "baseline" /\ Tail(todo) \in Restoring
      BY <3>1, ShapeHeads, ShapesDiffer DEF Shapes
    <3>3. failed' = failed
      BY <1>4, <3>2
    <3>4. todo' = Tail(todo)
      BY <3>1, <3>3 DEF Operate, Advance, Fail
    <3> QED BY <1>1, <1>4, <3>1, <3>2, <3>3, <3>4 DEF ConfigKnown
  <2> QED BY <2>2, <2>3
<1>5. CASE mode = "script"
  <2>1. ~Down
    BY <1>5 DEF Down
  <2>2. todo \notin Marking /\ (todo \in Shapes => Head(todo)[1] = "baseline")
    BY ShapeHeads DEF Shapes
  <2>3. agent.config # "own" => agent.backup = "own" /\ dirty
    BY <1>5, <2>2 DEF ConfigKnown
  <2>4. CASE failed' = TRUE /\ todo' \in Halted
    BY <1>1, <1>5, <2>3, <2>4 DEF ConfigKnown
  <2>5. CASE failed' = failed /\ todo' = Tail(todo)
    <3>1. CASE failed
      BY <1>1, <1>5, <2>3, <2>5, <3>1 DEF ConfigKnown
    <3>2. CASE ~failed /\ todo \in Shapes
      <4>1. \/ todo \in Setting /\ todo' \in Setting
            \/ todo \in Restoring /\ todo' \in Restoring
        BY <2>2, <2>5, <3>2, ShapeHeads
      <4> QED BY <1>1, <1>2, <1>5, <2>3, <2>5, <3>2, <4>1, ShapesDiffer DEF ConfigKnown
    <3>3. CASE ~failed /\ todo \notin Shapes
      <4>1. todo' \notin Shapes
        BY <1>1, <1>5, <2>5, <3>3, ScriptShapes
      <4> QED BY <1>1, <1>2, <1>5, <2>3, <2>5, <3>3, <4>1 DEF ConfigKnown, Shapes
    <3> QED BY <3>1, <3>2, <3>3
  <2> QED BY <2>1, <2>4, <2>5, OperateUp
<1> QED BY <1>3, <1>4, <1>5

\* A declared loss stays declared.
LEMMA ExcusedStays == ASSUME Memory, [Next]_vars, hist.excused PROVE hist'.excused
<1>1. hist \in HistType
  BY DEF Memory
<1>2. Fault.excused
  BY <1>1 DEF Fault, HistType
<1>3. Fault \in HistType
  BY <1>1 DEF Fault, HistType
<1>4. CASE Operation
  <2>1. CASE CallFails \/ CallLost \/ SaveFails
    BY <1>2, <2>1 DEF CallFails, CallLost, SaveFails
  <2>2. CASE AgentFails
    <3>1. PICK h \in {hist, Fault} : hist' = Reported(Head(todo)[1], h)
      BY <2>2 DEF AgentFails
    <3> QED BY <1>1, <1>2, <1>3, <3>1 DEF Reported, HistType
  <2>3. CASE ShellLost
    BY <1>2, <1>3, <2>3 DEF ShellLost, HistType
  <2>4. CASE CallOk \/ WaitOk \/ WaitServerGone \/ Need \/ SaveOk \/ NotDone \/ ShellOk \/ AgentAnswers \/ MarkConfigDirty
    BY <2>4 DEF CallOk, WaitOk, WaitServerGone, Need, SaveOk, NotDone, ShellOk, AgentAnswers, MarkConfigDirty
  <2> QED BY <1>4, <2>1, <2>2, <2>3, <2>4 DEF Operation
<1>5. CASE Start \/ Resume \/ Crash \/ PlatformPlugs \/ Interrupt
  BY <1>1, <1>2, <1>5 DEF Start, Resume, Crash, PlatformPlugs, Interrupt, HistType
<1>6. CASE Sweep \/ NextPart \/ RunStep \/ StartDown \/ StartScript \/ EndScript \/ StartTeardown
           \/ EndCommand \/ DeletionEnds \/ UNCHANGED vars
  BY <1>6 DEF Sweep, NextPart, RunStep, StartDown, StartScript, EndScript, StartTeardown, EndCommand,
              DeletionEnds, vars
<1> QED BY <1>4, <1>5, <1>6, NextSteps

\* The operations on the agent, and the ones that are not.
LEMMA ConfigOther ==
    ASSUME Plan, ConfigKnown,
           \/ CallOk \/ CallFails \/ CallLost \/ WaitOk \/ WaitServerGone \/ Need
           \/ SaveOk \/ SaveFails \/ NotDone \/ AgentAnswers
    PROVE  ConfigKnown'
<1>1. Operate
  BY OperationOperates DEF Operation
<1>2. agent' = agent /\ dirty' = dirty
  BY DEF CallOk, CallFails, CallLost, WaitOk, WaitServerGone, Need, SaveOk, SaveFails, NotDone,
         AgentAnswers, idleVars
<1>3. CASE AgentAnswers
  <2>1. Head(todo)[1] \in {"baseline", "ready"} /\ failed' = failed
    BY <1>3 DEF AgentAnswers, Doing, Advance
  <2> QED BY <1>1, <1>2, <2>1, ConfigUnmoved
<1>4. CASE ~AgentAnswers
  <2>1. Head(todo)[1] \in Calls \cup Saves \cup {"wait", "gone", "servers", "ports", "need"}
    BY <1>4 DEF CallOk, CallFails, CallLost, WaitOk, WaitServerGone, Need, SaveOk, SaveFails, NotDone,
                MustSave, Doing, Saves
  <2>2. Head(todo)[1] \notin {"set", "patch", "mark", "putback", "settle", "baseline"}
    BY <2>1 DEF Calls, Saves
  <2> QED BY <1>1, <1>2, <2>2, ConfigUnmoved
<1> QED BY <1>3, <1>4

\* The shell commands on the agent host, done or with the reply lost.
LEMMA ConfigShell ==
    ASSUME Plan, Memory, ConfigKnown, ShellOk \/ ShellLost, ~hist'.excused
    PROVE  ConfigKnown'
<1> DEFINE op == Head(todo)[1]
<1>1. Operate
  BY OperationOperates DEF Operation
<1>2. /\ UNCHANGED <<mode, part, steps, script, dirty>> /\ todo # <<>>
      /\ agent' = ShellDoes(op) /\ op \in Shell /\ ~ShellRefused(op)
  BY DEF ShellOk, ShellLost, Doing, idleVars
<1>3. agent \in AgentType
  BY DEF Memory
<1>4. InForce(script, Begun + 1)' <=> InForce(script, Begun + 1)
  BY <1>2 DEF Begun, InForce
<1>5. ASSUME op \in {"set", "patch"} PROVE failed' = failed /\ todo' = Tail(todo)
  <2>1. CASE ShellOk
    BY <2>1 DEF ShellOk, Advance
  <2>2. CASE ShellLost
    <3>1. Fault \in HistType
      BY DEF Fault, Memory, HistType
    <3>2. hist' = [Fault EXCEPT !.excused = @ \/ op \in {"set", "patch"}]
      BY <2>2 DEF ShellLost
    <3>3. hist'.excused
      BY <1>5, <3>1, <3>2 DEF HistType
    <3> QED BY <3>3
  <2> QED BY <2>1, <2>2
<1>6. ASSUME op \in {"set", "patch", "putback"}
      PROVE  (mode = "script" \/ (mode = "restore" /\ op = "putback")) /\ ~failed /\ todo \in Shapes
  <2>1. \A o \in ProjectOps \cup NetworkOps \cup SubnetOps \cup LateOps \cup DownOps :
          o[1] \notin {"set", "patch", "putback"}
    BY OpVerbs DEF Makes
  <2>2. <<"start">>[1] \notin {"set", "patch", "putback"} /\ <<"done">>[1] \notin {"set", "patch", "putback"}
    OBVIOUS
  <2>3. \A o \in Bare({"baseline", "putback", "settle", "restart", "ready", "hup"}) :
          o[1] \notin {"set", "patch"}
    BY DEF Bare
  <2>4. mode \in {"script", "restore"} /\ (mode = "restore" => ~failed)
    BY <1>2, <1>6, <2>1, <2>2, NextOp DEF Plan, Down
  <2>5. CASE mode = "script"
    BY <1>2, <1>6, <2>5, ScriptShapes
  <2>6. CASE mode = "restore"
    <3>1. op = "putback"
      BY <1>2, <1>6, <2>3, <2>4, <2>6, NextOp
    <3>2. todo \in Restoring \cup Settling \cup Resting
      BY <2>4, <2>6 DEF Plan
    <3>3. todo \notin Resting
      <4>1. \A s \in Resting : s # <<>> => Head(s)[1] \in {"restart", "ready", "hup"}
        BY DEF Resting
      <4> QED BY <1>2, <3>1, <4>1
    <3> QED BY <2>4, <2>6, <3>1, <3>2, <3>3 DEF Shapes
  <2> QED BY <2>4, <2>5, <2>6
<1>7. CASE op = "set"
  <2>0. op \in {"set", "patch"} /\ op \in {"set", "patch", "putback"} /\ op # "putback"
    BY <1>7
  <2>01. mode = "script" /\ ~failed /\ todo \in Shapes /\ failed' = failed /\ todo' = Tail(todo)
    BY <1>5, <1>6, <2>0
  <2>02. todo \in Setting /\ Tail(todo) \in Marking
    BY <1>7, <2>01, ShapeHeads
  <2>1. todo \in Setting /\ todo' \in Marking /\ mode = "script" /\ ~failed /\ failed' = failed
    BY <2>01, <2>02
  <2>2. agent.config = "own" /\ InForce(script, Begun + 1)
    BY <2>1 DEF ConfigKnown
  <2>3. agent'.backup = "own"
    BY <1>2, <1>3, <1>7, <2>2 DEF ShellDoes, AgentType
  <2> QED BY <1>2, <1>4, <2>1, <2>2, <2>3, ShapesDiffer DEF ConfigKnown
<1>8. CASE op = "patch"
  <2>0. op \in {"set", "patch"} /\ op \in {"set", "patch", "putback"} /\ op # "putback"
    BY <1>8
  <2>01. mode = "script" /\ ~failed /\ todo \in Shapes /\ failed' = failed /\ todo' = Tail(todo)
    BY <1>5, <1>6, <2>0
  <2>02. todo \in Patching /\ Tail(todo) \in Marking
    BY <1>8, <2>01, ShapeHeads
  <2>1. todo \in Patching /\ todo' \in Marking /\ mode = "script" /\ ~failed /\ failed' = failed
    BY <2>01, <2>02
  <2>2. agent.backup = "own" /\ InForce(script, Begun + 1)
    BY <2>1, ShapesDiffer DEF ConfigKnown
  <2>3. agent'.backup = "own"
    BY <1>2, <1>3, <1>8, <2>2 DEF ShellDoes, AgentType
  <2> QED BY <1>2, <1>4, <2>1, <2>2, <2>3, ShapesDiffer DEF ConfigKnown
<1>9. CASE op = "putback"
  <2>1. ~failed /\ todo \in Restoring /\ Tail(todo) \in Settling /\ mode \in {"script", "restore"}
    BY <1>6, <1>9, ShapeHeads
  <2>2. agent.backup = "own"
    BY <1>2, <1>3, <1>9 DEF ShellRefused, ConfigKnown, AgentType
  <2>3. agent'.config = "own" /\ agent'.backup = "own"
    BY <1>2, <1>3, <1>9, <2>2 DEF ShellDoes, AgentType
  <2>4. ~Down
    BY <2>1 DEF Down
  <2>5. failed' \/ todo' = Tail(todo)
    BY <1>1, <2>1, <2>4, OperateUp
  <2>6. ~failed' => todo' \notin Setting \cup Patching \cup Marking
    BY <2>1, <2>5, ShapesDiffer
  <2> QED BY <1>2, <2>1, <2>3, <2>6 DEF ConfigKnown
<1>10. CASE op \notin {"set", "patch", "putback"}
  <2>1. op \in {"stop", "start", "restart", "hup"}
    BY <1>2, <1>10 DEF Shell
  <2>2. agent'.config = agent.config /\ agent'.backup = agent.backup
    BY <1>2, <1>3, <2>1 DEF ShellDoes, AgentType
  <2> QED BY <1>1, <1>2, <2>1, <2>2, ConfigUnmoved
<1> QED BY <1>7, <1>8, <1>9, <1>10

\* An agent operation that fails.
LEMMA ConfigFails ==
    ASSUME Plan, Memory, ConfigKnown, AgentFails, ~hist'.excused
    PROVE  ConfigKnown'
<1> DEFINE op == Head(todo)[1]
<1>1. Operate
  BY OperationOperates DEF Operation
<1>2. /\ UNCHANGED <<mode, part, steps, script, dirty, agent>> /\ todo # <<>>
      /\ op \in Shell \cup {"baseline", "ready"} /\ failed' = TRUE
  BY DEF AgentFails, Doing, idleVars, Fail
<1>3. ~(mode = "restore" /\ op \in {"baseline", "putback"})
  <2>1. PICK h \in {hist, Fault} : hist' = Reported(op, h)
    BY DEF AgentFails
  <2>2. h \in HistType
    BY DEF Fault, Memory, HistType
  <2> QED BY <2>1, <2>2 DEF Reported, HistType
<1>4. CASE mode = "script"
  <2>1. op # "mark"
    BY <1>2 DEF Shell
  <2>2. todo \notin Marking
    BY <2>1, ShapeHeads DEF Shapes
  <2> QED BY <1>2, <1>4, <2>2 DEF ConfigKnown
<1>5. CASE mode = "restore"
  <2>1. todo \notin Restoring
    BY <1>3, <1>5, ShapeHeads DEF Shapes
  <2> QED BY <1>2, <1>5, <2>1 DEF ConfigKnown
<1>6. CASE mode \notin {"script", "restore"}
  BY <1>2, <1>6 DEF ConfigKnown
<1> QED BY <1>4, <1>5, <1>6

\* The debt is noted, or settled.
LEMMA ConfigMark ==
    ASSUME Plan, Memory, ConfigKnown, MarkConfigDirty
    PROVE  ConfigKnown'
<1> DEFINE op == Head(todo)[1]
<1>1. /\ UNCHANGED <<mode, part, steps, script, agent>> /\ todo # <<>>
      /\ op \in {"mark", "settle"} /\ failed' = failed /\ todo' = Tail(todo) /\ dirty' = (op = "mark")
  BY DEF MarkConfigDirty, Doing, Advance
<1>2. InForce(script, Begun + 1)' <=> InForce(script, Begun + 1)
  BY <1>1 DEF Begun, InForce
<1>3. CASE mode = "script"
  <2>1. ~failed /\ todo \in Shapes
    BY <1>1, <1>3, ScriptShapes
  <2>2. todo' \in Resting
    BY <1>1, <2>1, ShapeHeads
  <2>3. todo' \notin Shapes
    BY <2>2, PlainNoShape
  <2>4. CASE op = "mark"
    <3>1. todo \in Marking /\ dirty'
      BY <1>1, <2>1, <2>4, ShapeHeads
    <3>2. InForce(script, Begun + 1) /\ agent.backup = "own"
      BY <1>3, <2>1, <3>1, ShapesDiffer DEF ConfigKnown
    <3> QED BY <1>1, <1>2, <1>3, <2>1, <2>3, <3>1, <3>2 DEF ConfigKnown, Shapes
  <2>5. CASE op = "settle"
    <3>1. todo \in Settling /\ agent.config = "own"
      BY <1>3, <2>1, <2>5, ShapeHeads DEF ConfigKnown
    <3>2. InForce(script, Begun + 1) => agent.backup = "own"
      BY <1>3, <2>1, <3>1, ShapesDiffer DEF ConfigKnown
    <3> QED BY <1>1, <1>2, <1>3, <2>1, <2>3, <3>1, <3>2 DEF ConfigKnown, Shapes
  <2> QED BY <1>1, <2>4, <2>5
<1>4. CASE mode = "restore"
  <2>1. todo \notin Restoring
    BY <1>1, ShapeHeads DEF Shapes
  <2> QED BY <1>1, <1>4, <2>1 DEF ConfigKnown
<1>5. CASE mode \notin {"script", "restore"}
  BY <1>1, <1>5 DEF ConfigKnown
<1> QED BY <1>3, <1>4, <1>5

\* A step begins: the script allows it only where it can be undone.
LEMMA ConfigRunStep ==
    ASSUME Plan, Memory, ConfigKnown, RunStep
    PROVE  ConfigKnown'
<1> DEFINE i == Begun'
           name == script[i][1]
<1>1. /\ mode = "script" /\ todo = <<>> /\ ~failed /\ todo' = StepOps(Head(steps))
      /\ UNCHANGED <<mode, failed, dirty, script, agent>>
  BY DEF RunStep
<1>2. /\ i = Begun + 1 /\ i \in 1..Len(script) /\ Head(steps) = script[i]
      /\ script \in Seq(StepSet) /\ script \in Scripts \cup {<<>>}
  BY RunStepPlan DEF Plan, StepsLeft
<1>3. /\ i \in DOMAIN script /\ i \in Nat \ {0} /\ script[i] \in StepSet /\ script \in Scripts
  <2>1. Len(script) \in Nat /\ DOMAIN script = 1..Len(script)
    BY <1>2
  <2>2. script # <<>>
    BY <1>2, <2>1
  <2> QED BY <1>2, <2>1, <2>2
<1>4. /\ name = "set-config" => ~InForce(script, i)
      /\ name = "reload" => InForce(script, i)
  BY <1>3, ScriptsAssumption
<1>5. /\ name = "set-config" => InForce(script, i + 1)
      /\ name = "restore-config" => ~InForce(script, i + 1)
      /\ name \notin {"set-config", "restore-config"} => (InForce(script, i + 1) <=> InForce(script, i))
  BY <1>3, InForceStep
<1>6. InForce(script, Begun + 1)' <=> InForce(script, i + 1)
  BY <1>1 DEF InForce
<1>7. /\ InForce(script, i) => agent.backup = "own"
      /\ agent.config # "own" => agent.backup = "own" /\ dirty /\ InForce(script, i)
  <2>1. todo \notin Shapes
    BY <1>1, PlainNoShape DEF Halted
  <2> QED BY <1>1, <1>2, <2>1 DEF ConfigKnown, Shapes
<1>8. /\ name \notin SpecialSteps => todo' \in Rests(PlainOps)
      /\ name = "set-config" => todo' = RestartSet
      /\ name = "restore-config" => todo' = RestartRestore
      /\ name = "reload" => todo' = ReloadSet
      /\ name = "delete-fip" => \E x \in Of("fip", Resources) : todo' = DeleteFIP(x)
  BY <1>1, <1>2, <1>3, StepShape, ChainsRest
<1>9. RestartSet \in Setting /\ RestartRestore \in Restoring /\ ReloadSet \in Patching
  BY DEF Setting, Restoring, Patching
<1> HIDE DEF i, name
<1>10. CASE name = "set-config"
  BY <1>1, <1>4, <1>5, <1>6, <1>7, <1>8, <1>9, <1>10, ShapesDiffer DEF ConfigKnown
<1>11. CASE name = "restore-config"
  BY <1>1, <1>4, <1>5, <1>6, <1>7, <1>8, <1>9, <1>11, ShapesDiffer DEF ConfigKnown
<1>12. CASE name = "reload"
  BY <1>1, <1>4, <1>5, <1>6, <1>7, <1>8, <1>9, <1>12, ShapesDiffer DEF ConfigKnown
<1>13. CASE name \notin {"set-config", "restore-config", "reload"}
  <2>1. todo' \notin Shapes
    BY <1>8, <1>13, PlainNoShape DEF SpecialSteps, Forgetting
  <2> QED BY <1>1, <1>5, <1>6, <1>7, <1>13, <2>1 DEF ConfigKnown, Shapes
<1> QED BY <1>10, <1>11, <1>12, <1>13

\* The phases: the deferred restore takes the debt over.
LEMMA ConfigPhase ==
    ASSUME Plan, Plan', Memory, ConfigKnown, ~hist'.excused,
           \/ Sweep \/ NextPart
           \/ Start \/ StartDown \/ StartScript \/ Resume \/ EndScript \/ StartTeardown \/ EndCommand
           \/ Interrupt \/ Crash \/ DeletionEnds \/ PlatformPlugs \/ UNCHANGED vars
    PROVE  ConfigKnown'
<1>0. <<>> \notin Shapes
  BY PlainNoShape DEF Halted
<1>1. CASE Sweep \/ NextPart
  <2>1. UNCHANGED <<mode, agent, dirty>>
    BY <1>1 DEF Sweep, NextPart, idleVars
  <2>2. mode \notin {"script", "restore"}
    <3>1. CASE Sweep
      <4>1. Head(todo)[1] \in {"servers", "ports"} /\ todo # <<>>
        BY <3>1 DEF Sweep, Doing
      <4>2. mode # "restore"
        <5>1. \A op \in Bare({"baseline", "putback", "settle", "restart", "ready", "hup"}) :
                 op[1] \notin {"servers", "ports"}
          BY DEF Bare
        <5>2. <<"start">>[1] \notin {"servers", "ports"}
          OBVIOUS
        <5> QED BY <4>1, <5>1, <5>2, NextOp DEF Down
      <4>3. mode # "script"
        <5>1. \A op \in PlainOps : op[1] \notin {"servers", "ports"}
          BY OpVerbs
        <5>2. \A op \in Bare({"baseline", "set", "mark", "patch", "putback", "settle"}) :
                 op[1] \notin {"servers", "ports"}
          BY DEF Bare
        <5>3. \A x : \A op \in {"need", "delete", "forget"} \X {x} : op[1] \notin {"servers", "ports"}
          OBVIOUS
        <5>4. <<"start">>[1] \notin {"servers", "ports"}
          OBVIOUS
        <5> QED BY <4>1, <5>1, <5>2, <5>3, <5>4, NextOp DEF Down
      <4> QED BY <4>2, <4>3
    <3>2. CASE NextPart
      <4>1. mode \in {"script", "restore"} => Parts = 0 /\ part = 0
        BY DEF Parts, Down, Plan
      <4> QED BY <3>2, <4>1 DEF NextPart, Finished
    <3> QED BY <1>1, <3>1, <3>2
  <2> QED BY <2>1, <2>2 DEF ConfigKnown
<1>2. CASE Start \/ StartDown
  BY <1>2 DEF Start, StartDown, Enter, ConfigKnown
<1>3. CASE StartScript \/ Resume
  <2>1. Begun' = 0
    BY <1>3, EnterScript DEF StartScript, Resume, Enter
  <2>2. ~InForce(script, Begun + 1)'
    BY <2>1, InForceFirst
  <2>3. mode' = "script" /\ todo' = <<>> /\ agent' = agent /\ mode \notin {"script", "restore"}
    BY <1>3 DEF StartScript, Resume, Enter
  <2> QED BY <1>0, <2>2, <2>3 DEF ConfigKnown, Shapes
<1>4. CASE EndScript
  <2>1. /\ mode = "script" /\ todo = <<>> /\ mode' = "restore" /\ failed' = FALSE /\ agent' = agent
        /\ todo' = IF dirty THEN RestartRestore ELSE <<>>
    BY <1>4 DEF EndScript, Enter
  <2>2. agent.config # "own" => dirty /\ agent.backup = "own"
    BY <1>0, <2>1 DEF ConfigKnown, Shapes
  <2>3. RestartRestore \in Restoring
    BY DEF Restoring
  <2> QED BY <2>1, <2>2, <2>3 DEF ConfigKnown
<1>5. CASE StartTeardown \/ EndCommand
  <2>1. todo = <<>> /\ agent' = agent /\ mode' \in {"teardown", "idle"} /\ mode # "script"
    BY <1>5 DEF StartTeardown, EndCommand, Exit, Enter, Finished
  <2>2. agent.config = "own"
    BY <1>0, <2>1 DEF ConfigKnown, Shapes
  <2> QED BY <2>1, <2>2 DEF ConfigKnown
<1>6. CASE Crash
  <2>1. mode' = "idle" /\ agent' = agent
        /\ hist' = [hist EXCEPT !.crashes = @ + 1, !.excused = @ \/ agent.config # "own"]
    BY <1>6 DEF Crash, Exit, Enter
  <2>2. agent.config = "own"
    BY <2>1 DEF Memory, HistType
  <2> QED BY <2>1, <2>2 DEF ConfigKnown
<1>7. CASE Interrupt \/ DeletionEnds \/ PlatformPlugs \/ UNCHANGED vars
  <2>1. UNCHANGED <<mode, todo, failed, dirty, steps, script, agent>>
    BY <1>7 DEF Interrupt, DeletionEnds, PlatformPlugs, vars, procVars
  <2>2. InForce(script, Begun + 1)' <=> InForce(script, Begun + 1)
    BY <2>1 DEF Begun, InForce
  <2> QED BY <2>1, <2>2 DEF ConfigKnown
<1> QED BY <1>1, <1>2, <1>3, <1>4, <1>5, <1>6, <1>7

\* Every step keeps what is known of the config.
LEMMA NextConfig ==
    ASSUME Plan, Plan', Memory, ConfigInv, [Next]_vars
    PROVE  ConfigInv'
<1> SUFFICES ASSUME ~hist'.excused PROVE ConfigKnown'
  BY DEF ConfigInv
<1>1. ConfigKnown
  BY ExcusedStays DEF ConfigInv
<1>2. CASE Operation
  BY <1>1, <1>2, ConfigOther, ConfigShell, ConfigFails, ConfigMark DEF Operation
<1>3. CASE RunStep
  BY <1>1, <1>3, ConfigRunStep
<1> QED BY <1>1, <1>2, <1>3, ConfigPhase, NextSteps

\* The state of a process, of the file and of the agent host keeps its types.
THEOREM MemoryInvariant == Spec => []Memory
<1>1. Init => Memory
  <2> SUFFICES ASSUME Init PROVE Memory
    OBVIOUS
  <2>1. rs \in State
    BY FileTypes DEF Init
  <2>2. FileOK(file)
    BY FileTypes DEF Init, FileOK, NoState, State
  <2>3. agent \in AgentType
    BY DEF Init, AgentType
  <2>4. hist \in HistType
    BY DEF Init, HistType
  <2>5. failed \in BOOLEAN /\ dirty \in BOOLEAN
    BY DEF Init
  <2>6. stops \in 0..2
    BY DEF Init
  <2> QED BY <2>1, <2>2, <2>3, <2>4, <2>5, <2>6 DEF Memory
<1>2. Plan /\ Memory /\ [Next]_vars => Memory'
  BY NextMemory
<1> QED BY <1>1, <1>2, PlanInvariant, PTL DEF Spec

\* A command that has ended leaves the agent host on its own config, however
\* it ended, unless the loss was declared (runSteps and RestoreDirtyConfigs).
THEOREM ConfigsComeBack == Spec => []ConfigsRestored
<1>1. Init => ConfigInv
  BY DEF Init, ConfigInv, ConfigKnown
<1>2. Plan /\ Plan' /\ Memory /\ ConfigInv /\ [Next]_vars => ConfigInv'
  BY NextConfig
<1>3. ConfigInv => ConfigsRestored
  BY DEF ConfigInv, ConfigKnown, ConfigsRestored
<1> QED BY <1>1, <1>2, <1>3, PlanInvariant, MemoryInvariant, PTL DEF Spec

(***************************************************************************)
(* The cloud                                                               *)
(***************************************************************************)
\* The state of the cloud.
CloudType ==
    [live : SUBSET Resources, dying : SUBSET Resources, ifaces : SUBSET (Resources \X Resources),
     routed : SUBSET Resources, nics : SUBSET (Resources \X Resources)]
\* Only servers and load balancers are deleted later than asked, only routers
\* have routes, and a live port or subnet is on a live subnet or network.
Rooted(c) ==
    /\ c \in CloudType
    /\ \A x \in c.dying : x \in c.live /\ Kind[x] \in {"server", "lb"}
    /\ \A x \in c.routed : x \in c.live /\ Kind[x] = "router"
    /\ \A x \in c.live : Kind[x] \in {"port", "subnet"} => Parent[x] \in c.live

\* A call is about resources of the topology.
CallTyped(op) ==
    /\ op[1] \in Calls => op[2] \in Resources
    /\ op[1] = "routes" => Kind[op[2]] = "router"
    /\ op[1] \in {"attach", "detach", "plug", "unplug"} => op[3] \in Resources

\* The calls of every phase are about resources of the topology.
LEMMA CallsTyped ==
    /\ \A op \in ProjectOps \cup NetworkOps \cup SubnetOps : CallTyped(op)
    /\ \A op \in LateOps : CallTyped(op)
    /\ \A op \in PlainOps : CallTyped(op)
    /\ \A op \in DownOps : CallTyped(op)
<1>1. \A op \in ProjectOps \cup NetworkOps \cup SubnetOps : CallTyped(op)
  BY DEF ProjectOps, NetworkOps, SubnetOps, On, Bare, Makes, CallTyped, Calls
<1>2. \A op \in LateOps : CallTyped(op)
  BY DEF LateOps, On, Bare, Both, Makes, CallTyped, Calls
<1>3. \A op \in PlainOps : CallTyped(op)
  BY DEF PlainOps, On, Bare, Both, Makes, CallTyped, Calls
<1>4. \A op \in DownOps : CallTyped(op)
  BY DEF DownOps, On, Both, CallTyped, Calls
<1> QED BY <1>1, <1>2, <1>3, <1>4

\* So is the next call.
LEMMA HeadTyped ==
    ASSUME Plan, Doing(Calls)
    PROVE  CallTyped(Head(todo))
<1> DEFINE op == Head(todo)
<1>1. op[1] \in Calls /\ todo # <<>>
  BY DEF Doing
<1>4. /\ op \notin Bare({"baseline", "set", "mark", "patch", "putback", "settle"})
      /\ op \notin Bare({"baseline", "putback", "settle", "restart", "ready", "hup"})
      /\ op # <<"start">> /\ op # <<"done">>
  BY <1>1 DEF Bare, Calls
<1>5. \A x \in Of("fip", Resources) : op \in {"need", "delete", "forget"} \X {x} => CallTyped(op)
  BY DEF CallTyped, Calls, Of
<1> HIDE DEF op
<1> QED BY <1>1, <1>4, <1>5, NextOp, CallsTyped DEF op, Plan, Down

\* The record of x is next, at most a read before it.
RecordDue(s, x) ==
    \/ s # <<>> /\ Head(s) = <<"record", x>>
    \/ s # <<>> /\ Head(s) = <<"wait">> /\ Tail(s) # <<>> /\ Head(Tail(s)) = <<"record", x>>

\* The i-th operation, by what is left when it is due.
LEMMA SecondOp ==
    ASSUME NEW Ops, NEW s \in Seq(Ops), Len(s) > 1
    PROVE  /\ Tail(s) \in Seq(Ops) /\ Len(Tail(s)) = Len(s) - 1 /\ Tail(s) # <<>>
           /\ Head(Tail(s)) = s[2] /\ (Len(s) > 2 => Tail(s)[2] = s[3])
<1>1. s # <<>> /\ Len(s) \in Nat
  BY LenProperties
<1>2. /\ Tail(s) \in Seq(Ops) /\ Len(Tail(s)) = Len(s) - 1
      /\ \A i \in 1..Len(Tail(s)) : Tail(s)[i] = s[i + 1]
  BY <1>1, HeadTailProperties
<1>3. Tail(s) # <<>>
  <2>1. Len(Tail(s)) # 0
    BY <1>1, <1>2
  <2> QED BY <1>2, <2>1, EmptySeq
<1>4. Head(Tail(s)) = Tail(s)[1]
  BY <1>2, <1>3, HeadTailProperties
<1>5. Tail(s)[1] = s[2] /\ (Len(s) > 2 => Tail(s)[2] = s[3])
  <2>1. 1 \in 1..Len(Tail(s)) /\ (Len(s) > 2 => 2 \in 1..Len(Tail(s)))
    BY <1>1, <1>2
  <2>2. Tail(s)[1] = s[1 + 1] /\ (Len(s) > 2 => Tail(s)[2] = s[2 + 1])
    BY <1>2, <2>1
  <2> QED BY <2>2
<1> QED BY <1>2, <1>3, <1>4, <1>5

\* What the creates of a phase make, and when; its record follows.
LEMMA CreateWhen ==
    ASSUME Plan, Doing({"create"})
    PROVE  /\ mode \in {"realize", "script"} /\ ~failed
           /\ mode = "realize" => part >= 1
           /\ Kind[Head(todo)[2]] = "subnet" => mode = "realize" /\ part = 3
           /\ Kind[Head(todo)[2]] = "server" => mode = "script" \/ part > 3
           /\ RecordDue(Tail(todo), Head(todo)[2])
<1> DEFINE op == Head(todo)
<1>1. op[1] = "create" /\ op[1] \in Makes /\ todo # <<>>
  BY DEF Doing, Makes
<1>2. /\ op \notin Bare({"baseline", "set", "mark", "patch", "putback", "settle"})
      /\ op \notin Bare({"baseline", "putback", "settle", "restart", "ready", "hup"})
      /\ op # <<"start">> /\ op # <<"done">>
      /\ \A x : op \notin {"need", "delete", "forget"} \X {x}
  BY <1>1 DEF Bare
<1>3. op \notin DownOps
  BY <1>1, OpVerbs
<1>4. mode \in {"realize", "script"} /\ ~failed
  <2> HIDE DEF op
  <2> QED BY <1>1, <1>2, <1>3, NextOp DEF op, Plan, Down
<1>5. PICK Ops : todo \in Rests(Ops)
  <2>1. CASE mode = "realize"
    <3>1. UpTodo /\ part \in 0..11
      BY <1>4, <2>1 DEF Plan
    <3>2. part = 1 \/ part = 2 \/ part = 3 \/ part > 3
      BY <1>1, <3>1 DEF UpTodo
    <3> QED BY <3>1, <3>2 DEF UpTodo
  <2>2. CASE mode = "script"
    BY <1>1, <1>2, <1>4, <2>2, NextOp
  <2> QED BY <1>4, <2>1, <2>2
<1>6. RecordDue(Tail(todo), op[2])
  <2>1. todo \in Seq(Ops) /\ Rest(todo)
    BY <1>5 DEF Rests
  <2>2. Head(todo) = todo[1] /\ 1 \in 1..Len(todo) /\ Len(todo) \in Nat
    BY <1>1, <2>1, HeadTailProperties
  <2>3. RecordedNext(todo, 1)
    BY <1>1, <2>1, <2>2 DEF Rest
  <2>4. CASE 1 < Len(todo) /\ todo[1 + 1] = <<"record", todo[1][2]>>
    <3>1. Tail(todo) # <<>> /\ Head(Tail(todo)) = todo[2]
      BY <2>1, <2>2, <2>4, SecondOp
    <3> QED BY <2>2, <2>4, <3>1 DEF RecordDue
  <2>5. CASE 1 + 1 < Len(todo) /\ todo[1 + 1] = <<"wait">> /\ todo[1 + 2] = <<"record", todo[1][2]>>
    <3>1. /\ Tail(todo) \in Seq(Ops) /\ Len(Tail(todo)) > 1 /\ Tail(todo) # <<>>
          /\ Head(Tail(todo)) = todo[2] /\ Tail(todo)[2] = todo[3]
      BY <2>1, <2>2, <2>5, SecondOp
    <3>2. Tail(Tail(todo)) # <<>> /\ Head(Tail(Tail(todo))) = Tail(todo)[2]
      BY <3>1, SecondOp
    <3> QED BY <2>2, <2>5, <3>1, <3>2 DEF RecordDue
  <2> QED BY <2>3, <2>4, <2>5 DEF RecordedNext
<1>7. /\ op \in ProjectOps => Kind[op[2]] = "project"
      /\ op \in NetworkOps => Kind[op[2]] = "network"
      /\ op \in SubnetOps => Kind[op[2]] = "subnet"
      /\ op \in LateOps => Kind[op[2]] # "subnet"
      /\ op \in PlainOps => Kind[op[2]] # "subnet"
  BY <1>1, OpVerbs DEF Of
<1>8. mode = "realize" =>
         \/ part = 1 /\ op \in ProjectOps
         \/ part = 2 /\ op \in NetworkOps
         \/ part = 3 /\ op \in SubnetOps
         \/ part > 3 /\ op \in LateOps
  BY <1>1, <1>4, NextOp
<1>9. mode = "script" => op \in PlainOps
  BY <1>1, <1>2, <1>4, NextOp
<1>10. mode = "realize" => part \in 0..11
  BY DEF Plan
<1>11. mode = "realize" => part >= 1
  BY <1>8, <1>10
<1> HIDE DEF op
<1> QED BY <1>4, <1>6, <1>7, <1>8, <1>9, <1>11 DEF op

\* A port that another service plugs.
Unowned(y) == Kind[y] = "port" /\ y \in Unrecorded
\* What a call does to a cloud: it stays rooted, only a create adds anything,
\* with the port of a load balancer, and what is deleted at once is gone.
LEMMA CreateRooted ==
    ASSUME NEW c, Rooted(c), NEW x \in Resources, ~CreateRefused(c, x)
    PROVE  /\ Rooted(Create(c, x))
           /\ \A y \in Create(c, x).live \ c.live : Unowned(y) \/ y = x
           /\ c.live \subseteq Create(c, x).live
<1>0. c \in CloudType /\ Kind[x] \in Kinds
  BY TopologyAssumption DEF Rooted
<1>1. CASE Kind[x] = "server"
  <2>1. Parent[x] \in Resources
    BY <1>1, TopologyAssumption DEF Of
  <2>2. Create(c, x) = [c EXCEPT !.live = c.live \cup {x}, !.nics = c.nics \cup {<<x, Parent[x]>>}]
    BY <1>1 DEF Create, CreateServer
  <2> DEFINE N == c.nics \cup {<<x, Parent[x]>>}
             L == c.live \cup {x}
  <2>3. N \in SUBSET (Resources \X Resources) /\ L \in SUBSET Resources
    BY <1>0, <2>1 DEF CloudType
  <2>4. Create(c, x) = [c EXCEPT !.live = L, !.nics = N]
    BY <2>2
  <2> HIDE DEF N, L
  <2>5. /\ Create(c, x) \in CloudType /\ Create(c, x).live = L /\ Create(c, x).dying = c.dying
        /\ Create(c, x).routed = c.routed
    BY <1>0, <2>3, <2>4 DEF CloudType
  <2> QED BY <1>1, <2>5 DEF Rooted, L
<1>2. CASE Kind[x] = "lb"
  <2>1. /\ VIPPort[x] \in Resources /\ Kind[VIPPort[x]] = "port" /\ Parent[VIPPort[x]] = Parent[x]
        /\ Parent[x] \in c.live
    BY <1>2, TopologyAssumption DEF Of, CreateRefused
  <2>2. Create(c, x) = [c EXCEPT !.live = c.live \cup {x, VIPPort[x]}]
    BY <1>2 DEF Create, CreateLoadBalancer
  <2>3. /\ Create(c, x) \in CloudType /\ Create(c, x).live = c.live \cup {x, VIPPort[x]}
        /\ Create(c, x).dying = c.dying /\ Create(c, x).routed = c.routed
    BY <1>0, <2>1, <2>2 DEF CloudType
  <2>4. Unowned(VIPPort[x])
    BY <1>2, <2>1 DEF Unowned, Unrecorded, VIPPorts, Of
  <2> QED BY <1>2, <2>1, <2>3, <2>4 DEF Rooted
<1>3. CASE Kind[x] \notin {"server", "lb"}
  <2>1. Create(c, x) = [c EXCEPT !.live = c.live \cup {x}]
    BY <1>3 DEF Create, CreateOther
  <2>2. /\ Create(c, x) \in CloudType /\ Create(c, x).live = c.live \cup {x}
        /\ Create(c, x).dying = c.dying /\ Create(c, x).routed = c.routed
    BY <1>0, <2>1 DEF CloudType
  <2>3. Kind[x] \in {"port", "subnet"} => Parent[x] \in c.live
    BY DEF CreateRefused
  <2> QED BY <2>2, <2>3 DEF Rooted
<1> QED BY <1>1, <1>2, <1>3

\* A deletion that is not refused leaves nothing on what it deletes.
LEMMA DeleteRooted ==
    ASSUME NEW c, Rooted(c), NEW x \in Resources, ~DeleteRefused(c, x)
    PROVE  /\ Rooted(Delete(c, x))
           /\ Delete(c, x).live \subseteq c.live
           /\ Kind[x] \notin {"server", "lb"} => x \notin Delete(c, x).live
<1>0. c \in CloudType
  BY DEF Rooted
<1>1. CASE Kind[x] \in {"server", "lb"}
  <2>1. Delete(c, x) = [c EXCEPT !.dying = c.dying \cup ({x} \cap c.live)]
    BY <1>1 DEF Delete, DeleteServer, DeleteLoadBalancer
  <2>2. /\ Delete(c, x) \in CloudType /\ Delete(c, x).live = c.live
        /\ Delete(c, x).dying = c.dying \cup ({x} \cap c.live) /\ Delete(c, x).routed = c.routed
    BY <1>0, <2>1 DEF CloudType
  <2> QED BY <1>1, <2>2 DEF Rooted
<1>2. CASE Kind[x] = "network"
  <2> DEFINE L == {y \in c.live : y # x /\ ~(Kind[y] = "subnet" /\ Parent[y] = x)}
  <2>1. Delete(c, x) = [c EXCEPT !.live = L]
    BY <1>2 DEF Delete, DeleteNetwork
  <2>2. /\ Delete(c, x) \in CloudType /\ Delete(c, x).live = L
        /\ Delete(c, x).dying = c.dying /\ Delete(c, x).routed = c.routed
    BY <1>0, <2>1 DEF CloudType
  <2>3. ASSUME NEW y \in L, Kind[y] \in {"port", "subnet"} PROVE Parent[y] \in L
    <3>1. y \in c.live /\ y \in Resources /\ Parent[y] \in c.live
      BY <1>0, <2>3 DEF Rooted, CloudType
    <3>2. CASE Kind[y] = "subnet"
      <4>1. Kind[Parent[y]] = "network" /\ Parent[y] # x
        BY <2>3, <3>1, <3>2, TopologyAssumption DEF Of
      <4> QED BY <3>1, <4>1
    <3>3. CASE Kind[y] = "port"
      <4>1. Kind[Parent[y]] = "subnet"
        BY <3>1, <3>3, TopologyAssumption DEF Of
      <4>2. x \in c.live => Parent[Parent[y]] # x
        BY <1>2, <3>1, <3>3 DEF DeleteRefused, NetworkInUse, ListNetworkPorts, NetworkOf, Of
      <4>3. Parent[Parent[y]] \in c.live
        BY <3>1, <4>1 DEF Rooted
      <4> QED BY <1>2, <3>1, <4>1, <4>2, <4>3
    <3> QED BY <2>3, <3>2, <3>3
  <2> HIDE DEF L
  <2>4. L \subseteq c.live /\ x \notin L /\ \A y \in c.live : Kind[y] \notin {"network", "subnet"} => y \in L
    BY <1>2 DEF L
  <2> QED BY <1>2, <2>2, <2>3, <2>4 DEF Rooted
<1>3. CASE Kind[x] \notin {"server", "lb", "network"}
  <2>1. Delete(c, x) = [c EXCEPT !.live = c.live \ {x}, !.routed = c.routed \ {x}]
    BY <1>3 DEF Delete, DeleteOther
  <2>2. /\ Delete(c, x) \in CloudType /\ Delete(c, x).live = c.live \ {x}
        /\ Delete(c, x).dying = c.dying /\ Delete(c, x).routed = c.routed \ {x}
    BY <1>0, <2>1 DEF CloudType
  <2>3. ASSUME NEW y \in c.live, Kind[y] \in {"port", "subnet"} PROVE Parent[y] # x
    <3>1. y \in Resources /\ Parent[y] \in c.live
      BY <1>0, <2>3 DEF Rooted, CloudType
    <3>2. CASE Kind[y] = "subnet"
      BY <1>3, <3>1, <3>2, TopologyAssumption DEF Of
    <3>3. CASE Kind[y] = "port"
      <4>1. Kind[Parent[y]] = "subnet"
        BY <3>1, <3>3, TopologyAssumption DEF Of
      <4> QED BY <3>1, <3>3, <4>1 DEF DeleteRefused, SubnetInUse, OnSubnet, Of
    <3> QED BY <2>3, <3>2, <3>3
  <2> QED BY <1>3, <2>2, <2>3 DEF Rooted
<1> QED BY <1>1, <1>2, <1>3

\* The other calls create nothing.
LEMMA OtherRooted ==
    ASSUME NEW c, Rooted(c), NEW op, CallTyped(op), op[1] \in Calls \ {"create", "delete"}
    PROVE  Rooted(Apply(c, op)) /\ Apply(c, op).live \subseteq c.live
<1>0. c \in CloudType /\ op[2] \in Resources
  BY DEF Rooted, CallTyped
<1>1. CASE op[1] \in {"attach", "plug", "unplug", "routes", "clear"}
  <2>1. op[1] \in {"attach", "plug", "unplug"} => op[3] \in Resources
    BY DEF CallTyped
  <2>2. /\ op[1] = "attach" => Apply(c, op) = [c EXCEPT !.ifaces = c.ifaces \cup {<<op[2], op[3]>>}]
        /\ op[1] = "plug" => Apply(c, op) = [c EXCEPT !.nics = c.nics \cup {<<op[2], op[3]>>}]
        /\ op[1] = "unplug" => Apply(c, op) = [c EXCEPT !.nics = c.nics \ {<<op[2], op[3]>>}]
        /\ op[1] = "routes" => Apply(c, op) = [c EXCEPT !.routed = c.routed \cup ({op[2]} \cap c.live)]
        /\ op[1] = "clear" => Apply(c, op) = [c EXCEPT !.routed = c.routed \ {op[2]}]
    BY DEF Apply, AddRouterInterface, AttachInterface, DetachInterface, SetRouterRoutes, ClearRouterRoutes
  <2>3. Apply(c, op) \in CloudType /\ Apply(c, op).live = c.live /\ Apply(c, op).dying = c.dying
    BY <1>0, <1>1, <2>1, <2>2 DEF CloudType
  <2>4. \A x \in Apply(c, op).routed : x \in c.routed \/ (x = op[2] /\ x \in c.live /\ op[1] = "routes")
    BY <1>0, <1>1, <2>2 DEF CloudType
  <2>5. \A x \in Apply(c, op).routed : x \in c.live /\ Kind[x] = "router"
    BY <2>4 DEF Rooted, CallTyped
  <2> QED BY <2>3, <2>5 DEF Rooted
<1>2. CASE op[1] = "detach"
  <2> DEFINE G == Matching(c, op[2], op[3])
             P == Of("port", {i[2] : i \in G})
  <2>1. Apply(c, op) = [c EXCEPT !.ifaces = c.ifaces \ G, !.live = c.live \ P]
    BY <1>2 DEF Apply, RemoveRouterInterface
  <2>2. \A x \in P : Kind[x] = "port"
    BY DEF Of
  <2> HIDE DEF G, P
  <2>3. /\ Apply(c, op) \in CloudType /\ Apply(c, op).live = c.live \ P
        /\ Apply(c, op).dying = c.dying /\ Apply(c, op).routed = c.routed
    BY <1>0, <2>1 DEF CloudType
  <2>4. ASSUME NEW y \in c.live, Kind[y] \in {"port", "subnet"} PROVE Parent[y] \notin P
    <3>1. y \in Resources
      BY <1>0 DEF CloudType
    <3>2. Kind[Parent[y]] \in {"subnet", "network"}
      BY <2>4, <3>1, TopologyAssumption DEF Of
    <3> QED BY <2>2, <3>2
  <2> QED BY <2>2, <2>3, <2>4 DEF Rooted
<1> QED BY <1>1, <1>2 DEF Calls

\* A deletion that ends.
LEMMA VanishRooted ==
    ASSUME NEW c, Rooted(c), NEW x \in c.dying
    PROVE  Rooted(Vanish(c, x)) /\ Vanish(c, x).live \subseteq c.live
<1>0. c \in CloudType /\ Kind[x] \in {"server", "lb"} /\ x \in Resources
  BY DEF Rooted, CloudType
<1> DEFINE G == {x} \cup (IF Kind[x] = "lb" THEN {VIPPort[x]} ELSE {})
           N == {nic \in c.nics : nic[1] # x}
           L == c.live \ G
           D == c.dying \ {x}
<1>1. Vanish(c, x) = [c EXCEPT !.live = L, !.dying = D, !.nics = N]
  BY DEF Vanish
<1>2. \A y \in G : Kind[y] \in {"server", "lb", "port"}
  BY <1>0, TopologyAssumption DEF Of
<1>3. N \in SUBSET (Resources \X Resources) /\ L \in SUBSET Resources /\ D \in SUBSET Resources
  BY <1>0 DEF CloudType
<1> HIDE DEF G, N, L, D
<1>4. /\ Vanish(c, x) \in CloudType /\ Vanish(c, x).live = L /\ Vanish(c, x).dying = D
      /\ Vanish(c, x).routed = c.routed
  BY <1>0, <1>1, <1>3 DEF CloudType
<1>5. ASSUME NEW y \in c.live, Kind[y] \in {"port", "subnet"} PROVE Parent[y] \notin G
  <2>1. y \in Resources
    BY <1>0 DEF CloudType
  <2>2. Kind[Parent[y]] \in {"subnet", "network"}
    BY <1>5, <2>1, TopologyAssumption DEF Of
  <2> QED BY <1>2, <2>2
<1>6. \A y \in D : y \in L
  <2>1. \A y \in D : y \in c.live /\ Kind[y] \in {"server", "lb"} /\ y # x
    BY DEF D, Rooted
  <2>2. \A y \in G : y = x \/ Kind[y] = "port"
    BY <1>0, TopologyAssumption DEF G, Of
  <2> QED BY <2>1, <2>2 DEF L
<1>7. \A y \in c.routed : y \in L /\ Kind[y] = "router"
  BY <1>2 DEF L, Rooted
<1>8. \A y \in D : Kind[y] \in {"server", "lb"}
  BY DEF D, Rooted
<1> QED BY <1>4, <1>5, <1>6, <1>7, <1>8 DEF Rooted, L

\* The platform plugs a port into a live network.
LEMMA PlugRooted ==
    ASSUME NEW c, Rooted(c), NEW p \in Platform, Parent[p] \in c.live
    PROVE  Rooted(CreateOther(c, p)) /\ CreateOther(c, p).live = c.live \cup {p} /\ Kind[p] = "port"
<1>1. p \in Resources /\ Kind[p] = "port" /\ c \in CloudType
  BY ScenarioAssumption DEF Of, Rooted
<1>2. CreateOther(c, p) = [c EXCEPT !.live = c.live \cup {p}]
  BY DEF CreateOther
<1>3. /\ CreateOther(c, p) \in CloudType /\ CreateOther(c, p).live = c.live \cup {p}
      /\ CreateOther(c, p).dying = c.dying /\ CreateOther(c, p).routed = c.routed
  BY <1>1, <1>2 DEF CloudType
<1> QED BY <1>1, <1>3 DEF Rooted

\* A call, or its answer lost, creates x.
Created(x) == (CallOk \/ CallLost) /\ Doing({"create"}) /\ Head(todo)[2] = x

\* A call of the command, whether its answer comes or is lost.
LEMMA CallRooted ==
    ASSUME Plan, Rooted(cloud), CallOk \/ CallLost
    PROVE  /\ Rooted(cloud')
           /\ \A x \in cloud'.live \ cloud.live : Unowned(x) \/ Created(x)
           /\ ~Doing({"create"}) => cloud'.live \subseteq cloud.live
           /\ Head(todo)[1] = "delete" /\ Kind[Head(todo)[2]] \notin {"server", "lb"} =>
                 Head(todo)[2] \notin cloud'.live
<1> DEFINE op == Head(todo)
<1>1. Doing(Calls) /\ ~Refused(cloud, op) /\ cloud' = Apply(cloud, op)
  BY DEF CallOk, CallLost
<1>2. CallTyped(op) /\ op[1] \in Calls /\ op[2] \in Resources
  BY <1>1, HeadTyped DEF CallTyped, Doing
<1>3. CASE op[1] = "create"
  <2>1. ~CreateRefused(cloud, op[2]) /\ cloud' = Create(cloud, op[2])
    BY <1>1, <1>3 DEF Refused, Apply
  <2>2. Doing({"create"})
    BY <1>1, <1>3 DEF Doing
  <2>3. /\ Rooted(Create(cloud, op[2]))
        /\ \A y \in Create(cloud, op[2]).live \ cloud.live : Unowned(y) \/ y = op[2]
    BY <1>2, <2>1, CreateRooted
  <2> QED BY <1>3, <2>1, <2>2, <2>3 DEF Created
<1>4. CASE op[1] = "delete"
  <2>1. ~DeleteRefused(cloud, op[2]) /\ cloud' = Delete(cloud, op[2])
    BY <1>1, <1>4 DEF Refused, Apply
  <2>2. /\ Rooted(Delete(cloud, op[2]))
        /\ Delete(cloud, op[2]).live \subseteq cloud.live
        /\ Kind[op[2]] \notin {"server", "lb"} => op[2] \notin Delete(cloud, op[2]).live
    BY <1>2, <2>1, DeleteRooted
  <2> QED BY <2>1, <2>2
<1>5. CASE op[1] \notin {"create", "delete"}
  <2>1. Rooted(Apply(cloud, op)) /\ Apply(cloud, op).live \subseteq cloud.live
    BY <1>2, <1>5, OtherRooted
  <2> QED BY <1>1, <1>5, <2>1
<1> QED BY <1>3, <1>4, <1>5

\* What can change the cloud.
LEMMA CloudSteps ==
    ASSUME [Next]_vars
    PROVE  cloud' = cloud \/ CallOk \/ CallLost \/ DeletionEnds \/ PlatformPlugs
<1>1. CASE Operation
  BY <1>1 DEF Operation, CallFails, WaitOk, WaitServerGone, Need, SaveOk, SaveFails, NotDone,
              ShellOk, AgentFails, ShellLost, AgentAnswers, MarkConfigDirty
<1>2. CASE Sweep \/ NextPart \/ RunStep \/ Start \/ StartDown \/ StartScript \/ Resume
  BY <1>2 DEF Sweep, NextPart, RunStep, Start, StartDown, StartScript, Resume
<1>3. CASE EndScript \/ StartTeardown \/ EndCommand \/ Interrupt \/ Crash \/ UNCHANGED vars
  BY <1>3 DEF EndScript, StartTeardown, EndCommand, Interrupt, Crash, vars
<1> QED BY <1>1, <1>2, <1>3, NextSteps

\* However the cloud changes, it stays rooted, and only a call adds more than
\* the ports of other services.
LEMMA NextRooted ==
    ASSUME Plan, Rooted(cloud), [Next]_vars
    PROVE  /\ Rooted(cloud')
           /\ \A x \in cloud'.live \ cloud.live : Unowned(x) \/ Created(x)
<1>1. CASE cloud' = cloud
  BY <1>1
<1>2. CASE CallOk \/ CallLost
  BY <1>2, CallRooted
<1>3. CASE DeletionEnds
  <2>1. PICK x \in cloud.dying : cloud' = Vanish(cloud, x)
    BY <1>3 DEF DeletionEnds
  <2>2. Rooted(Vanish(cloud, x)) /\ Vanish(cloud, x).live \subseteq cloud.live
    BY VanishRooted
  <2> QED BY <2>1, <2>2
<1>4. CASE PlatformPlugs
  <2>1. PICK p \in Platform : Parent[p] \in cloud.live /\ cloud' = CreateOther(cloud, p)
    BY <1>4 DEF PlatformPlugs
  <2>2. /\ Rooted(CreateOther(cloud, p)) /\ CreateOther(cloud, p).live = cloud.live \cup {p}
        /\ Kind[p] = "port"
    BY <2>1, PlugRooted
  <2>3. Unowned(p)
    BY <2>2 DEF Unowned, Unrecorded
  <2> QED BY <2>1, <2>2, <2>3
<1> QED BY <1>1, <1>2, <1>3, <1>4, CloudSteps

\* No network or subnet is deleted under a live port: OpenStack refuses it.
THEOREM CloudStaysRooted == Spec => []Rooted(cloud)
<1>1. Init => Rooted(cloud)
  BY DEF Init, Empty, Rooted, CloudType
<1>2. Plan /\ Rooted(cloud) /\ [Next]_vars => Rooted(cloud)'
  BY NextRooted
<1> QED BY <1>1, <1>2, PlanInvariant, PTL DEF Spec

(***************************************************************************)
(* The record                                                              *)
(***************************************************************************)
\* The servers are listed by project.
HasProject(R) == Of("project", R) # {}
\* What a teardown needs of a record to find the servers and the ports: a
\* project, and the networks of the live subnets.
Covers(c, R) ==
    /\ Of("server", c.live) # {} => HasProject(R)
    /\ \A s \in Of("subnet", c.live) : Parent[s] \in R

\* The command may still create something.
Creating == mode \in {"realize", "script"} /\ ~failed
\* A teardown has done everything.
Ended == Down /\ part = 8 /\ todo = <<>>

\* Only a teardown that has done everything marks the record.
Marked ==
    /\ rs.done => Ended
    /\ file.state.done => mode = "idle" \/ Ended
\* A command that may still create something has saved what it knows.
Saved == Creating => ~file.torn /\ file.state = rs
\* The projects are recorded before the networks, those before the subnets, and
\* a project before any server.
Prepared ==
    Creating =>
        /\ mode = "script" => HasProject(rs.recs)
        /\ mode = "realize" =>
             /\ part = 1 => HasProject(rs.recs) \/ \E x \in Projects : Has(todo, <<"record", x>>)
             /\ part > 1 => HasProject(rs.recs)
             /\ part = 2 => \A x \in Of("network", Resources) : x \in rs.recs \/ Has(todo, <<"record", x>>)
             /\ part > 2 => Of("network", Resources) \subseteq rs.recs
\* The record of the command and the readable file cover the cloud.
Covered ==
    /\ mode # "idle" => Covers(cloud, rs.recs)
    /\ file.torn \/ Covers(cloud, file.state.recs)
    /\ file.there /\ ~file.torn /\ ~file.state.done => HasProject(file.state.recs)
Record == Marked /\ Saved /\ Prepared /\ Covered

\* Only a script forgets: ports, and at its end the deletion of a floating IP.
LEMMA ForgetWhen ==
    ASSUME Plan, Doing({"forget"})
    PROVE  /\ mode = "script" /\ ~failed
           /\ \/ Kind[Head(todo)[2]] = "port"
              \/ Kind[Head(todo)[2]] = "fip" /\ todo = << <<"forget", Head(todo)[2]>> >>
<1> DEFINE op == Head(todo)
<1>1. op[1] = "forget" /\ todo # <<>>
  BY DEF Doing
<1>2. /\ op \notin Bare({"baseline", "set", "mark", "patch", "putback", "settle"})
      /\ op \notin Bare({"baseline", "putback", "settle", "restart", "ready", "hup"})
      /\ op # <<"start">> /\ op # <<"done">>
  BY <1>1 DEF Bare
<1>3. op \notin DownOps /\ op \notin ProjectOps /\ op \notin NetworkOps /\ op \notin SubnetOps /\ op \notin LateOps
  BY <1>1, OpVerbs DEF Makes
<1>4. mode = "script" /\ ~failed
  <2> HIDE DEF op
  <2> QED BY <1>1, <1>2, <1>3, NextOp DEF op, Plan, Down
<1>5. CASE todo \in Rests(PlainOps)
  <2>1. op \in PlainOps
    BY <1>1, <1>5, RestsHead
  <2> QED BY <1>1, <1>4, <2>1, OpVerbs DEF Of
<1>6. CASE \E x \in Of("fip", Resources) : todo \in Forgetting(x)
  <2>1. PICK x \in Of("fip", Resources) : todo \in Forgetting(x)
    BY <1>6
  <2>2. todo # DeleteFIP(x) /\ todo # << <<"delete", x>>, <<"forget", x>> >>
    BY <1>1 DEF DeleteFIP
  <2>3. todo = << <<"forget", x>> >>
    BY <2>1, <2>2 DEF Forgetting
  <2> QED BY <1>4, <2>3 DEF Of
<1>7. todo \notin Setting \cup Patching \cup Marking \cup Restoring \cup Settling
  BY <1>1 DEF Setting, Patching, Marking, Restoring, Settling, RestartSet, ReloadSet, RestartRestore
<1> QED BY <1>4, <1>5, <1>6, <1>7 DEF Plan, ScriptTodo

\* When a save is due, and of what.
LEMMA SaveWhen ==
    ASSUME Plan, MustSave
    PROVE  /\ ~failed
           /\ \/ mode \in {"realize", "script"} /\ Head(todo)[1] \in {"record", "forget", "save"}
              \/ Down /\ part = 8 /\ todo = << <<"done">> >> /\ Head(todo)[1] = "done"
           /\ mode = "realize" => Head(todo)[1] # "forget" /\ part > 0
           /\ mode = "realize" /\ part = 1 => Head(todo)[1] = "record" /\ Head(todo)[2] \in Projects
<1> DEFINE op == Head(todo)
<1>1. op[1] \in Saves /\ todo # <<>> /\ (op[1] = "done" => ~failed)
  BY DEF MustSave, Doing
<1>2. /\ op \notin Bare({"baseline", "set", "mark", "patch", "putback", "settle"})
      /\ op \notin Bare({"baseline", "putback", "settle", "restart", "ready", "hup"})
      /\ op # <<"start">>
  BY <1>1 DEF Bare, Saves
<1>3. op \notin DownOps
  BY <1>1, OpVerbs DEF Saves
<1>4. CASE Down
  <2>1. part = 8 /\ todo = << <<"done">> >> /\ op = <<"done">>
    BY <1>1, <1>3, <1>4, NextOp
  <2>2. op[1] = "done"
    BY <2>1
  <2> QED BY <1>1, <1>4, <2>1, <2>2 DEF Down
<1>5. CASE ~Down
  <2>1. mode \in {"realize", "script"} /\ ~failed
    <3> HIDE DEF op
    <3> QED BY <1>1, <1>2, <1>5, NextOp DEF op, Plan, Down
  <2>2. mode = "realize" =>
           \/ part = 1 /\ op \in ProjectOps
           \/ part = 2 /\ op \in NetworkOps
           \/ part = 3 /\ op \in SubnetOps
           \/ part > 3 /\ op \in LateOps
    BY <1>1, <2>1, NextOp
  <2>3. mode = "script" => op[1] \in {"record", "forget", "save"}
    <3>1. op \in PlainOps => op[1] \in {"record", "forget", "save"}
      BY <1>1, OpVerbs DEF Saves
    <3>2. \A x : op \in {"need", "delete", "forget"} \X {x} => op[1] \in {"record", "forget", "save"}
      BY <1>1 DEF Saves
    <3> HIDE DEF op
    <3> QED BY <1>1, <1>2, <2>1, <3>1, <3>2, NextOp DEF op
  <2>4. /\ op \in ProjectOps => op[1] = "record" /\ op[2] \in Projects
        /\ op \in NetworkOps \cup SubnetOps \cup LateOps => op[1] \in {"record", "save"}
    BY <1>1, OpVerbs DEF Saves, Makes, Projects
  <2>5. mode = "realize" => part \in 0..11
    BY DEF Plan
  <2> HIDE DEF op
  <2> QED BY <2>1, <2>2, <2>3, <2>4, <2>5 DEF op
<1> QED BY <1>4, <1>5

\* A save keeps what the teardown needs.
LEMMA RecsKept ==
    ASSUME Plan, Memory, MustSave
    PROVE  /\ \A x \in rs.recs : Kind[x] \in {"project", "network"} => x \in Remembered.recs
           /\ Head(todo)[1] = "record" => Head(todo)[2] \in Remembered.recs
           /\ Remembered.done = (rs.done \/ Head(todo)[1] = "done")
<1>1. Head(todo)[1] = "forget" => Kind[Head(todo)[2]] \in {"port", "fip"}
  BY ForgetWhen DEF MustSave, Doing
<1>2. rs \in State /\ rs.done \in BOOLEAN
  BY DEF Memory, State
<1>3. /\ Head(todo)[1] = "record" => Remembered.recs = rs.recs \cup {Head(todo)[2]} /\ Remembered.done = rs.done
      /\ Head(todo)[1] = "forget" => Remembered.recs = rs.recs \ {Head(todo)[2]} /\ Remembered.done = rs.done
      /\ Head(todo)[1] = "done" => Remembered.recs = rs.recs /\ Remembered.done = TRUE
      /\ Head(todo)[1] = "save" => Remembered = rs
  BY <1>2 DEF Remembered, State
<1>4. Head(todo)[1] \in {"record", "forget", "save", "done"}
  BY DEF MustSave, Doing, Saves
<1>5. Remembered.done = (rs.done \/ Head(todo)[1] = "done")
  BY <1>2, <1>3, <1>4
<1> QED BY <1>1, <1>3, <1>4, <1>5

\* A record with as many projects and networks covers as much.
LEMMA CoversKept ==
    ASSUME NEW c, Rooted(c), NEW R, NEW Q, Covers(c, R),
           \A x \in R : Kind[x] \in {"project", "network"} => x \in Q
    PROVE  Covers(c, Q)
<1>1. ASSUME NEW s \in Of("subnet", c.live) PROVE Parent[s] \in Q
  <2>1. s \in Of("subnet", Resources) /\ Parent[s] \in R
    BY DEF Covers, Rooted, CloudType, Of
  <2>2. Kind[Parent[s]] = "network"
    BY <2>1, TopologyAssumption DEF Of
  <2> QED BY <2>1, <2>2
<1>2. HasProject(R) => HasProject(Q)
  BY DEF HasProject, Of
<1> QED BY <1>1, <1>2 DEF Covers

\* What an operation does to the record and the file.
LEMMA OperationEffects ==
    ASSUME Plan, Operation
    PROVE  /\ todo # <<>> /\ mode # "idle" /\ UNCHANGED <<mode, part>> /\ Down' = Down
           /\ ~failed' => ~failed /\ todo' = Tail(todo) /\ ~SaveFails
           /\ \/ SaveOk /\ MustSave /\ rs' = Remembered /\ cloud' = cloud
                 /\ file' = [there |-> TRUE, torn |-> FALSE, state |-> Remembered]
              \/ SaveFails /\ MustSave /\ rs' = Remembered /\ file' \in {file, Torn} /\ cloud' = cloud
              \/ ~SaveOk /\ UNCHANGED <<rs, file>>
           /\ Doing(Saves) /\ ~failed' => SaveOk
<1>1. Operate
  BY OperationOperates
<1>2. todo # <<>> /\ mode # "idle" /\ UNCHANGED <<mode, part>> /\ Down' = Down
  BY <1>1, NextOp DEF Operate, Down
<1>3. SaveFails => failed' = TRUE
  BY DEF SaveFails, Fail
<1>4. ~failed' => ~failed /\ todo' = Tail(todo) /\ ~SaveFails
  BY <1>1, <1>3 DEF Operate, Advance, Fail
<1>5. CASE SaveOk
  BY <1>2, <1>4, <1>5 DEF SaveOk
<1>6. CASE SaveFails
  BY <1>2, <1>4, <1>6, <1>3 DEF SaveFails, Torn
<1>7. CASE ~SaveOk /\ ~SaveFails
  <2>1. UNCHANGED <<rs, file>>
    BY <1>7 DEF Operation, CallOk, CallFails, CallLost, WaitOk, WaitServerGone, Need, NotDone,
                ShellOk, AgentFails, ShellLost, AgentAnswers, MarkConfigDirty, idleVars
  <2>2. ~(Doing(Saves) /\ ~failed')
    <3>1. Doing(Saves) => ~CallOk /\ ~CallFails /\ ~CallLost /\ ~WaitOk /\ ~WaitServerGone /\ ~Need
      BY DEF Doing, Saves, Calls, CallOk, CallFails, CallLost, WaitOk, WaitServerGone, Need
    <3>2. Doing(Saves) => ~ShellOk /\ ~AgentFails /\ ~ShellLost /\ ~AgentAnswers /\ ~MarkConfigDirty
      BY DEF Doing, Saves, Shell, ShellOk, AgentFails, ShellLost, AgentAnswers, MarkConfigDirty
    <3>3. NotDone => failed /\ failed' = failed
      BY DEF NotDone
    <3> QED BY <1>7, <3>1, <3>2, <3>3 DEF Operation
  <2> QED BY <1>2, <1>4, <1>7, <2>1, <2>2
<1> QED BY <1>5, <1>6, <1>7

\* Every step keeps Marked.
LEMMA NextMarked ==
    ASSUME Plan, Memory, Marked, [Next]_vars
    PROVE  Marked'
<1>0. NoState.done = FALSE /\ Torn.state = NoState
  BY DEF NoState, Torn
<1>1. CASE Operation
  <2>1. ~rs.done /\ ~file.state.done
    BY <1>1, OperationEffects DEF Marked, Ended
  <2>2. CASE SaveOk \/ SaveFails
    <3>1. MustSave /\ rs' = Remembered /\ mode' = mode /\ part' = part /\ Down' = Down
      BY <1>1, <2>2, OperationEffects DEF SaveOk, SaveFails
    <3>2. Remembered.done => Down /\ part = 8
      BY <2>1, <3>1, RecsKept, SaveWhen
    <3>3. Down /\ part = 8 => todo' = <<>>
      BY <1>1, OperationOperates, OperateDown
    <3>4. rs'.done => Ended'
      BY <3>1, <3>2, <3>3 DEF Ended
    <3>5. file'.state \in {rs', file.state, NoState}
      BY <1>0, <2>2 DEF SaveOk, SaveFails, Torn
    <3> QED BY <1>0, <2>1, <3>4, <3>5 DEF Marked
  <2>3. CASE ~SaveOk /\ ~SaveFails
    <3>1. UNCHANGED <<rs, file>>
      BY <1>1, <2>3, OperationEffects
    <3> QED BY <2>1, <3>1 DEF Marked
  <2> QED BY <2>2, <2>3
<1>2. CASE Sweep
  <2>1. todo # <<>> /\ mode # "idle" /\ UNCHANGED <<rs, file>>
    BY <1>2 DEF Sweep, Doing, idleVars, Plan
  <2> QED BY <2>1 DEF Marked, Ended
<1>3. CASE NextPart
  <2>1. UNCHANGED <<rs, file>> /\ todo = <<>> /\ ~Finished
    BY <1>3 DEF NextPart
  <2>2. ~Ended
    BY <2>1, DownPlanParts DEF Ended, Finished, Parts, Down
  <2>3. mode # "idle"
    BY <2>1 DEF Finished, Parts, Down, Plan
  <2> QED BY <2>1, <2>2, <2>3 DEF Marked
<1>4. CASE RunStep \/ StartScript \/ EndScript
  <2>1. UNCHANGED <<rs, file>> /\ ~Ended /\ mode # "idle"
    BY <1>4 DEF RunStep, StartScript, EndScript, Ended, Down
  <2> QED BY <2>1 DEF Marked
<1>5. CASE StartTeardown
  <2>1. UNCHANGED <<rs, file>> /\ ~Ended /\ mode # "idle"
    BY <1>5 DEF StartTeardown, Ended, Down
  <2> QED BY <2>1 DEF Marked
<1>6. CASE Start
  <2>1. rs' = NoState /\ file' = file /\ file.state = NoState
    BY <1>6 DEF Start, Memory, FileOK
  <2> QED BY <1>0, <2>1 DEF Marked
<1>7. CASE StartDown \/ Resume
  <2>1. rs' = file.state /\ file' = file /\ ~file.state.done
    BY <1>7 DEF StartDown, Resume
  <2> QED BY <2>1 DEF Marked
<1>8. CASE EndCommand
  <2>1. rs' = NoState /\ file' = file /\ mode' = "idle"
    BY <1>8 DEF EndCommand, Exit, Enter
  <2> QED BY <1>0, <2>1 DEF Marked
<1>9. CASE Crash
  <2>1. rs' = NoState /\ mode' = "idle"
    BY <1>9 DEF Crash, Exit, Enter
  <2> QED BY <1>0, <2>1 DEF Marked
<1>10. CASE Interrupt \/ DeletionEnds \/ PlatformPlugs \/ UNCHANGED vars
  <2>1. UNCHANGED <<rs, file, mode, part, todo>>
    BY <1>10 DEF Interrupt, DeletionEnds, PlatformPlugs, vars, procVars
  <2>2. Ended' = Ended
    BY <2>1 DEF Ended, Down
  <2> QED BY <2>1, <2>2 DEF Marked
<1> QED BY <1>1, <1>2, <1>3, <1>4, <1>5, <1>6, <1>7, <1>8, <1>9, <1>10, NextSteps

\* Every step keeps Saved.
LEMMA NextSaved ==
    ASSUME Plan, Memory, Saved, [Next]_vars
    PROVE  Saved'
<1>1. CASE Operation
  <2>1. Creating' => Creating /\ ~failed'
    BY <1>1, OperationEffects DEF Creating
  <2>2. SaveOk => ~file'.torn /\ file'.state = rs'
    BY DEF SaveOk
  <2> QED BY <1>1, <2>1, <2>2, OperationEffects DEF Saved
<1>2. CASE Sweep \/ NextPart \/ RunStep \/ Interrupt \/ DeletionEnds \/ PlatformPlugs \/ UNCHANGED vars
  <2>1. UNCHANGED <<mode, failed, rs, file>>
    BY <1>2 DEF Sweep, NextPart, RunStep, Interrupt, DeletionEnds, PlatformPlugs, vars, procVars, idleVars
  <2> QED BY <2>1 DEF Saved, Creating
<1>3. CASE StartDown \/ EndScript \/ StartTeardown \/ EndCommand \/ Crash
  <2>1. mode' \in {"down", "restore", "teardown", "idle"}
    BY <1>3 DEF StartDown, EndScript, StartTeardown, EndCommand, Crash, Exit, Enter
  <2> QED BY <2>1 DEF Saved, Creating
<1>4. CASE StartScript
  <2>1. UNCHANGED <<rs, file>> /\ Creating
    BY <1>4 DEF StartScript, Creating
  <2> QED BY <2>1 DEF Saved
<1>5. CASE Start
  <2>1. rs' = NoState /\ file' = file /\ file.state = NoState /\ ~file.torn
    BY <1>5 DEF Start, Memory, FileOK
  <2> QED BY <2>1 DEF Saved
<1>6. CASE Resume
  <2>1. rs' = file.state /\ file' = file /\ ~file.torn
    BY <1>6 DEF Resume
  <2> QED BY <2>1 DEF Saved
<1> QED BY <1>1, <1>2, <1>3, <1>4, <1>5, <1>6, NextSteps

\* What is left to record, after the next operation.
LEMMA RecordLeft ==
    ASSUME Plan, Memory, Operation, Creating', NEW x, Has(todo, <<"record", x>>),
           mode = "realize"
    PROVE  x \in rs'.recs \/ Has(todo', <<"record", x>>)
<1>1. todo # <<>> /\ ~failed /\ todo' = Tail(todo) /\ ~failed'
  BY OperationEffects DEF Creating
<1>2. PICK Ops : todo \in Seq(Ops)
  <2>1. UpTodo /\ part \in 0..11
    BY <1>1 DEF Plan
  <2>2. part = 1 \/ part = 2 \/ part = 3 \/ part > 3
    BY <1>1, <2>1 DEF UpTodo
  <2> QED BY <2>1, <2>2 DEF UpTodo, Rests
<1>3. <<"record", x>> = Head(todo) \/ Has(Tail(todo), <<"record", x>>)
  BY <1>1, <1>2, HasTail
<1>4. CASE <<"record", x>> = Head(todo)
  <2>1. Head(todo)[1] = "record" /\ Head(todo)[2] = x
    BY <1>4
  <2>2. Doing(Saves)
    BY <1>1, <2>1 DEF Doing, Saves
  <2>3. SaveOk
    BY <1>1, <2>2, OperationEffects
  <2>4. MustSave /\ rs' = Remembered
    BY <2>3 DEF SaveOk
  <2> QED BY <2>1, <2>4, RecsKept
<1> QED BY <1>1, <1>3, <1>4

\* Every step keeps Prepared.
LEMMA NextPrepared ==
    ASSUME Plan, Memory, Prepared, Covered, [Next]_vars
    PROVE  Prepared'
<1> SUFFICES ASSUME Creating' PROVE Prepared'
  BY DEF Prepared
<1>0. Of("network", Resources) = {x \in Resources : Kind[x] = "network"}
  BY DEF Of
<1>1. CASE Operation
  <2>1. Creating /\ UNCHANGED <<mode, part>>
    BY <1>1, OperationEffects DEF Creating
  <2>2. \A x \in rs.recs : Kind[x] \in {"project", "network"} => x \in rs'.recs
    BY <1>1, OperationEffects, RecsKept
  <2>3. HasProject(rs.recs) => HasProject(rs'.recs)
    BY <2>2 DEF HasProject, Of
  <2>4. \A x \in Of("network", Resources) : x \in rs.recs => x \in rs'.recs
    BY <2>2 DEF Of
  <2>5. ASSUME NEW x, mode = "realize", Has(todo, <<"record", x>>)
        PROVE  x \in rs'.recs \/ Has(todo', <<"record", x>>)
    BY <1>1, <2>5, RecordLeft
  <2>6. \A x \in Projects : x \in rs'.recs => HasProject(rs'.recs)
    BY DEF Projects, HasProject, Of
  <2>7. mode = "script" => HasProject(rs'.recs)
    BY <2>1, <2>3 DEF Prepared
  <2>8. mode = "realize" /\ part > 1 => HasProject(rs'.recs)
    BY <2>1, <2>3 DEF Prepared
  <2>9. mode = "realize" /\ part = 1 =>
          HasProject(rs'.recs) \/ \E x \in Projects : Has(todo', <<"record", x>>)
    BY <2>1, <2>3, <2>5, <2>6 DEF Prepared
  <2>10. mode = "realize" /\ part = 2 =>
          \A x \in Of("network", Resources) : x \in rs'.recs \/ Has(todo', <<"record", x>>)
    <3> SUFFICES ASSUME mode = "realize", part = 2, NEW x \in Of("network", Resources)
                 PROVE  x \in rs'.recs \/ Has(todo', <<"record", x>>)
      OBVIOUS
    <3>1. x \in rs.recs \/ Has(todo, <<"record", x>>)
      BY <2>1 DEF Prepared
    <3> QED BY <2>4, <2>5, <3>1
  <2>11. mode = "realize" /\ part > 2 => Of("network", Resources) \subseteq rs'.recs
    BY <2>1, <2>4 DEF Prepared
  <2> QED BY <2>1, <2>7, <2>8, <2>9, <2>10, <2>11 DEF Prepared
<1>2. CASE NextPart
  <2>1. UNCHANGED <<mode, failed, rs>> /\ todo = <<>> /\ part' = part + 1 /\ ~Finished
    BY <1>2 DEF NextPart
  <2>2. Creating
    BY <2>1 DEF Creating
  <2>3. mode = "realize" /\ part \in 0..11
    <3>1. mode = "script" => part = 0 /\ Parts = 0
      BY DEF Plan, Parts, Down
    <3>2. mode # "script"
      BY <2>1, <3>1 DEF Finished
    <3> QED BY <2>2, <3>2 DEF Creating, Plan
  <2>4. todo' = UpPlan[part + 1]
    BY <1>2, <2>3 DEF NextPart, Down
  <2>5. \A op : ~Has(todo, op)
    BY <2>1 DEF Has
  <2>6. CASE part = 0
    <3>1. \E x \in Projects : Has(todo', <<"record", x>>)
      BY <2>4, <2>6, UpRecords, ScenarioAssumption DEF Projects
    <3> QED BY <2>1, <2>3, <2>6, <3>1 DEF Prepared
  <2>7. CASE part = 1
    <3>0. part + 1 = 2 /\ todo' = UpPlan[2]
      BY <2>4, <2>7
    <3>1. \A x \in Of("network", Resources) : Has(todo', <<"record", x>>)
      <4> TAKE x \in Of("network", Resources)
      <4>1. Has(UpPlan[2], <<"record", x>>)
        BY UpRecords
      <4> QED BY <3>0, <4>1
    <3>2. HasProject(rs.recs)
      BY <2>2, <2>3, <2>5, <2>7 DEF Prepared
    <3> QED BY <2>1, <2>3, <2>7, <3>1, <3>2 DEF Prepared
  <2>8. CASE part >= 2
    <3>0. part > 1 /\ (part = 2 \/ part > 2)
      BY <2>3, <2>8
    <3>1. HasProject(rs.recs)
      BY <2>2, <2>3, <3>0 DEF Prepared
    <3>2. part = 2 => Of("network", Resources) \subseteq rs.recs
      BY <2>2, <2>3, <2>5 DEF Prepared
    <3>3. part > 2 => Of("network", Resources) \subseteq rs.recs
      BY <2>2, <2>3 DEF Prepared
    <3>4. Of("network", Resources) \subseteq rs.recs
      BY <3>0, <3>2, <3>3
    <3> QED BY <2>1, <2>3, <2>8, <3>1, <3>4 DEF Prepared
  <2> QED BY <2>3, <2>6, <2>7, <2>8
<1>3. CASE RunStep
  <2>1. mode = "script" /\ UNCHANGED <<mode, failed, rs>>
    BY <1>3 DEF RunStep
  <2> QED BY <2>1 DEF Prepared, Creating
<1>4. CASE Interrupt \/ DeletionEnds \/ PlatformPlugs \/ UNCHANGED vars
  <2>1. UNCHANGED <<mode, part, todo, failed, rs>>
    BY <1>4 DEF Interrupt, DeletionEnds, PlatformPlugs, vars, procVars
  <2> QED BY <2>1 DEF Prepared, Creating
<1>5. CASE Start
  BY <1>5 DEF Start, Enter, Prepared
<1>6. CASE StartScript
  <2>1. mode = "realize" /\ Finished /\ ~failed /\ mode' = "script" /\ rs' = rs
    BY <1>6 DEF StartScript, Enter
  <2>2. part = 11
    BY <2>1, UpParts DEF Finished, Parts
  <2>3. HasProject(rs.recs)
    BY <2>1, <2>2 DEF Prepared, Creating
  <2> QED BY <2>1, <2>3 DEF Prepared
<1>7. CASE Resume
  <2>1. mode' = "script" /\ rs' = file.state /\ HasProject(file.state.recs)
    BY <1>7 DEF Resume, Enter, Covered
  <2> QED BY <2>1 DEF Prepared
<1>8. CASE Sweep
  <2>1. Down /\ mode' = mode
    <3>1. todo # <<>> /\ Head(todo)[1] \in {"servers", "ports"} /\ UNCHANGED <<mode, failed>>
      BY <1>8 DEF Sweep, Doing, idleVars
    <3> QED BY <1>8, <3>1, SweepDown
  <2> QED BY <2>1 DEF Creating, Down
<1>9. CASE StartDown \/ EndScript \/ StartTeardown \/ EndCommand \/ Crash
  <2>1. mode' \in {"down", "restore", "teardown", "idle"}
    BY <1>9 DEF StartDown, EndScript, StartTeardown, EndCommand, Crash, Exit, Enter
  <2> QED BY <2>1 DEF Creating
<1> QED BY <1>1, <1>2, <1>3, <1>4, <1>5, <1>6, <1>7, <1>8, <1>9, NextSteps

\* What the cloud gains keeps covered by what the command has recorded.
LEMMA CoversGrow ==
    ASSUME Plan, Rooted(cloud), Prepared, [Next]_vars, NEW R, Covers(cloud, R),
           CallOk \/ CallLost => R = rs.recs \/ ~Creating
    PROVE  Covers(cloud', R)
<1>1. ASSUME NEW x \in cloud'.live \ cloud.live, Kind[x] \in {"server", "subnet"}
      PROVE  /\ Creating /\ R = rs.recs /\ HasProject(rs.recs)
             /\ Kind[x] = "subnet" => Of("network", Resources) \subseteq rs.recs
  <2>1. Created(x)
    BY <1>1, NextRooted DEF Unowned
  <2>2. Doing({"create"}) /\ Head(todo)[2] = x /\ (CallOk \/ CallLost)
    BY <2>1 DEF Created
  <2>3. Creating /\ R = rs.recs
    BY <2>2, CreateWhen DEF Creating
  <2>4. Kind[x] = "subnet" => mode = "realize" /\ part = 3
    BY <2>2, CreateWhen
  <2>5. mode = "script" \/ (mode = "realize" /\ (part = 3 \/ part > 3))
    BY <1>1, <2>2, <2>3, <2>4, CreateWhen DEF Creating
  <2>6. mode = "realize" => part \in 0..11
    BY DEF Plan
  <2>7. mode = "script" \/ (mode = "realize" /\ part > 1)
    BY <2>5, <2>6
  <2>8. HasProject(rs.recs)
    BY <2>3, <2>7 DEF Prepared
  <2>9. Kind[x] = "subnet" => mode = "realize" /\ part > 2
    BY <2>4
  <2> QED BY <2>3, <2>8, <2>9 DEF Prepared
<1>2. ASSUME NEW s \in Of("subnet", cloud'.live) PROVE Parent[s] \in R
  <2>1. CASE s \in cloud.live
    BY <1>2, <2>1 DEF Covers, Of
  <2>2. CASE s \notin cloud.live
    <3>1. s \in cloud'.live /\ Kind[s] = "subnet" /\ s \in Resources
      BY NextRooted DEF Of, Rooted, CloudType
    <3>2. Parent[s] \in Of("network", Resources)
      BY <3>1, TopologyAssumption DEF Of
    <3>3. R = rs.recs /\ Of("network", Resources) \subseteq rs.recs
      BY <1>1, <2>2, <3>1
    <3> QED BY <3>2, <3>3
  <2> QED BY <2>1, <2>2
<1>3. ASSUME NEW v \in Of("server", cloud'.live) PROVE HasProject(R)
  <2>1. CASE v \in cloud.live
    BY <1>3, <2>1 DEF Covers, Of
  <2>2. CASE v \notin cloud.live
    <3>1. v \in cloud'.live /\ Kind[v] = "server"
      BY DEF Of
    <3> QED BY <1>1, <2>2, <3>1
  <2> QED BY <2>1, <2>2
<1> QED BY <1>2, <1>3 DEF Covers

\* Every step keeps Covered.
LEMMA NextCovered ==
    ASSUME Plan, Memory, Rooted(cloud), Record, [Next]_vars
    PROVE  Covered'
<1>0. Marked /\ Saved /\ Prepared /\ Covered
  BY DEF Record
<1>1. mode # "idle" => Covers(cloud', rs.recs)
  BY <1>0, CoversGrow DEF Covered
<1>2. ~file.torn => Covers(cloud', file.state.recs)
  <2> SUFFICES ASSUME ~file.torn PROVE Covers(cloud', file.state.recs)
    OBVIOUS
  <2>1. Creating => file.state.recs = rs.recs
    BY <1>0 DEF Saved
  <2> QED BY <1>0, <2>1, CoversGrow DEF Covered
<1>3. ~file.there => file.state = NoState /\ ~file.torn
  BY DEF Memory, FileOK
<1>4. CASE Operation
  <2>1. CASE SaveOk \/ SaveFails
    <3>1. mode # "idle" /\ MustSave /\ rs' = Remembered /\ cloud' = cloud
      BY <1>4, <2>1, OperationEffects DEF SaveOk, SaveFails
    <3>2. Covers(cloud, rs.recs)
      BY <1>0, <3>1 DEF Covered
    <3>3. Covers(cloud, Remembered.recs)
      BY <3>1, <3>2, RecsKept, CoversKept
    <3>4. ~Remembered.done => HasProject(Remembered.recs)
      <4>0. SUFFICES ASSUME ~Remembered.done PROVE HasProject(Remembered.recs)
        OBVIOUS
      <4>1. mode \in {"realize", "script"} /\ ~failed
        BY <3>1, <4>0, SaveWhen, RecsKept
      <4>2. HasProject(rs.recs) => HasProject(Remembered.recs)
        BY <3>1, RecsKept DEF HasProject, Of
      <4>3. CASE mode = "script"
        BY <1>0, <4>1, <4>2, <4>3 DEF Prepared, Creating
      <4>4. CASE mode = "realize" /\ part = 1
        <5>1. Head(todo)[2] \in Projects /\ Head(todo)[2] \in Remembered.recs
          BY <3>1, <4>4, SaveWhen, RecsKept
        <5> QED BY <5>1 DEF HasProject, Projects, Of
      <4>5. CASE mode = "realize" /\ part # 1
        <5>1. part \in 0..11 /\ part > 0
          BY <3>1, <4>5, SaveWhen DEF Plan
        <5>2. part > 1
          BY <4>5, <5>1
        <5> QED BY <1>0, <4>1, <4>2, <4>5, <5>2 DEF Prepared, Creating
      <4> QED BY <4>1, <4>3, <4>4, <4>5
    <3>5. CASE SaveOk
      <4>1. file' = [there |-> TRUE, torn |-> FALSE, state |-> Remembered]
        BY <3>1, <3>5 DEF SaveOk
      <4> QED BY <3>1, <3>3, <3>4, <4>1 DEF Covered
    <3>6. CASE SaveFails
      <4>1. file' = file \/ file'.torn
        BY <3>6 DEF SaveFails
      <4> QED BY <1>0, <3>1, <3>3, <4>1 DEF Covered
    <3> QED BY <2>1, <3>5, <3>6
  <2>2. CASE ~SaveOk /\ ~SaveFails
    <3>1. UNCHANGED <<rs, file, mode>>
      BY <1>4, <2>2, OperationEffects
    <3> QED BY <1>0, <1>1, <1>2, <3>1 DEF Covered
  <2> QED BY <2>1, <2>2
<1>5. CASE Sweep \/ NextPart \/ RunStep \/ Interrupt \/ DeletionEnds \/ PlatformPlugs \/ UNCHANGED vars
  <2>1. UNCHANGED <<mode, rs, file>>
    BY <1>5 DEF Sweep, NextPart, RunStep, Interrupt, DeletionEnds, PlatformPlugs, vars, procVars, idleVars
  <2> QED BY <1>0, <1>1, <1>2, <2>1 DEF Covered
<1>6. CASE StartScript \/ EndScript \/ StartTeardown
  <2>1. UNCHANGED <<rs, file, cloud>> /\ mode # "idle"
    BY <1>6 DEF StartScript, EndScript, StartTeardown
  <2> QED BY <1>0, <2>1 DEF Covered
<1>7. CASE Start
  <2>1. rs' = NoState /\ file' = file /\ cloud' = cloud /\ ~file.there
    BY <1>7 DEF Start
  <2> QED BY <1>0, <1>3, <2>1 DEF Covered
<1>8. CASE Resume \/ StartDown
  <2>1. rs' = file.state /\ file' = file /\ cloud' = cloud /\ ~file.torn
    BY <1>8 DEF Resume, StartDown
  <2> QED BY <1>0, <2>1 DEF Covered
<1>9. CASE EndCommand \/ Crash
  <2>1. mode' = "idle" /\ cloud' = cloud /\ (file' = file \/ file'.torn)
    BY <1>9 DEF EndCommand, Crash, Exit, Enter
  <2> QED BY <1>0, <2>1 DEF Covered
<1> QED BY <1>4, <1>5, <1>6, <1>7, <1>8, <1>9, NextSteps

\* Every step keeps the record invariant.
LEMMA NextRecord ==
    ASSUME Plan, Memory, Rooted(cloud), Record, [Next]_vars
    PROVE  Record'
<1>1. Marked /\ Saved /\ Prepared /\ Covered
  BY DEF Record
<1>2. Marked' /\ Saved' /\ Prepared'
  BY <1>1, NextMarked, NextSaved, NextPrepared
<1>3. Covered'
  BY NextCovered
<1> QED BY <1>2, <1>3 DEF Record

\* Whatever the record of a command or of a readable file has missed, it has
\* the project a live server is found by and the network of every live subnet.
THEOREM RecordCovers == Spec => []Record
<1>1. Init => Record
  <2> SUFFICES ASSUME Init PROVE Record
    OBVIOUS
  <2>1. mode = "idle" /\ rs = NoState /\ file = [there |-> FALSE, torn |-> FALSE, state |-> NoState]
    BY DEF Init
  <2>2. Covers(cloud, file.state.recs)
    BY DEF Init, Empty, Covers, Of
  <2>3. ~rs.done /\ ~file.state.done
    BY <2>1 DEF NoState
  <2> QED BY <2>1, <2>2, <2>3 DEF Record, Marked, Saved, Prepared, Covered, Creating
<1>2. Plan /\ Memory /\ Rooted(cloud) /\ Record /\ [Next]_vars => Record'
  BY NextRecord
<1> QED BY <1>1, <1>2, PlanInvariant, MemoryInvariant, CloudStaysRooted, PTL DEF Spec

(***************************************************************************)
(* How far the record lags                                                 *)
(***************************************************************************)
\* The live resources a record R should have and does not.
Loose(c, R) == (c.live \ Projects) \ (R \cup Unrecorded)
\* The resource that is recorded next.
Pending == {x \in Resources : RecordDue(todo, x)}

\* What is forgotten is gone.
Forgotten ==
    Creating /\ Doing({"forget"}) => Head(todo)[2] \notin cloud.live \/ Head(todo)[2] \in Unrecorded
\* Every command that creates leaves at most one resource unrecorded: while it
\* may still create, the one it adds is not yet spent.
Lag ==
    /\ Creating => Cardinality(Loose(cloud, rs.recs) \ Pending) < hist.runs
    /\ mode # "idle" => Cardinality(Loose(cloud, rs.recs)) <= hist.runs
    /\ file.torn \/ Cardinality(Loose(cloud, file.state.recs)) <= hist.runs

\* The topology is finite: it has an order.
LEMMA ResourcesFinite == IsFiniteSet(Resources)
<1>1. DOMAIN Order = 1..Len(Order) /\ Len(Order) \in Nat
  BY TopologyAssumption, LenProperties
<1>2. IsFiniteSet(1..Len(Order))
  BY <1>1, FS_Interval
<1>3. Order \in Surjection(1..Len(Order), Resources)
  <2>1. Order \in [1..Len(Order) -> Resources]
    BY <1>1, TopologyAssumption
  <2>2. \A x \in Resources : \E i \in 1..Len(Order) : Order[i] = x
    BY <1>1 DEF Resources
  <2> QED BY <2>1, <2>2 DEF Surjection
<1> QED BY <1>2, <1>3, FS_Surjection

\* Fewer resources count less.
LEMMA CountLess ==
    ASSUME NEW S, NEW T \in SUBSET Resources, S \subseteq T
    PROVE  Cardinality(S) \in Nat /\ Cardinality(T) \in Nat /\ Cardinality(S) <= Cardinality(T)
<1>1. IsFiniteSet(T)
  BY ResourcesFinite, FS_Subset
<1>2. IsFiniteSet(S) /\ Cardinality(S) <= Cardinality(T)
  BY <1>1, FS_Subset
<1> QED BY <1>1, <1>2, FS_CardinalityType

\* One resource more.
LEMMA CountMore ==
    ASSUME NEW S \in SUBSET Resources, NEW x, NEW T, T \subseteq S \cup {x}
    PROVE  Cardinality(S) \in Nat /\ Cardinality(T) \in Nat /\ Cardinality(T) <= Cardinality(S) + 1
<1>1. IsFiniteSet(S)
  BY ResourcesFinite, FS_Subset
<1>2. IsFiniteSet(S \cup {x}) /\ Cardinality(S \cup {x}) \in {Cardinality(S), Cardinality(S) + 1}
  BY <1>1, FS_AddElement
<1>3. IsFiniteSet(T) /\ Cardinality(T) <= Cardinality(S \cup {x})
  BY <1>2, FS_Subset
<1>4. Cardinality(S) \in Nat /\ Cardinality(T) \in Nat
  BY <1>1, <1>3, FS_CardinalityType
<1> QED BY <1>2, <1>3, <1>4

\* What is loose is in the topology.
LEMMA LooseTyped ==
    ASSUME NEW c, Rooted(c), NEW R
    PROVE  Loose(c, R) \in SUBSET Resources
  BY DEF Loose, Rooted, CloudType

\* Only a call that creates adds to what is loose.
LEMMA LooseSteps ==
    ASSUME Plan, Rooted(cloud), [Next]_vars, NEW R
    PROVE  /\ ~(CallOk \/ CallLost) \/ ~Doing({"create"}) => Loose(cloud', R) \subseteq Loose(cloud, R)
           /\ Loose(cloud', R) \subseteq Loose(cloud, R) \cup {Head(todo)[2]}
<1>1. ASSUME NEW x \in Loose(cloud', R), x \notin Loose(cloud, R)
      PROVE  Created(x)
  <2>1. x \in cloud'.live \ cloud.live /\ x \notin Unrecorded
    BY <1>1 DEF Loose
  <2> QED BY <2>1, NextRooted DEF Unowned
<1> QED BY <1>1 DEF Created

\* An operation starts no command.
LEMMA RunsKept ==
    ASSUME Memory, Operation
    PROVE  hist'.runs = hist.runs
<1>1. hist \in HistType /\ Fault.runs = hist.runs
  BY DEF Memory, HistType, Fault
<1>2. CASE CallOk \/ WaitOk \/ WaitServerGone \/ Need \/ NotDone \/ AgentAnswers \/ ShellOk \/ SaveOk \/ MarkConfigDirty
  BY <1>2 DEF CallOk, WaitOk, WaitServerGone, Need, NotDone, AgentAnswers, ShellOk, SaveOk, MarkConfigDirty
<1>3. CASE CallFails \/ CallLost \/ SaveFails
  <2>1. hist' = hist \/ hist' = Fault
    BY <1>3 DEF CallFails, CallLost, SaveFails
  <2> QED BY <1>1, <2>1
<1>4. CASE ShellLost
  <2>1. Fault \in HistType
    BY DEF Memory, HistType, Fault
  <2>2. \A e : [Fault EXCEPT !.excused = e].runs = Fault.runs
    BY <2>1 DEF HistType
  <2> QED BY <1>1, <1>4, <2>2 DEF ShellLost
<1>5. CASE AgentFails
  <2>1. PICK h \in {hist, Fault} : hist' = Reported(Head(todo)[1], h)
    BY <1>5 DEF AgentFails
  <2>2. Fault \in HistType
    BY DEF Memory, HistType, Fault
  <2>3. \A e : \A g \in HistType : [g EXCEPT !.excused = e].runs = g.runs
    BY DEF HistType
  <2> QED BY <1>1, <2>1, <2>2, <2>3 DEF Reported
<1> QED BY <1>2, <1>3, <1>4, <1>5 DEF Operation

\* ForgetWhen, of the next state.
Dropping ==
    /\ mode = "script" /\ todo # <<>> /\ Kind[Head(todo)[2]] \in {"port", "fip"}
    /\ Kind[Head(todo)[2]] = "port" \/ todo = << <<"forget", Head(todo)[2]>> >>
\* The plan lets only these be forgotten.
LEMMA ForgetNext == Plan' /\ Doing({"forget"})' => Dropping'
<1>1. Plan /\ Doing({"forget"}) => Dropping
  BY ForgetWhen DEF Doing, Dropping
<1> QED BY <1>1, PTL

\* A port or a floating IP is about to be forgotten only when its deletion
\* succeeded.
LEMMA ForgetAfter ==
    ASSUME Plan, Plan', Operation, Creating', Doing({"forget"})'
    PROVE  CallOk /\ Head(todo) = <<"delete", Head(todo')[2]>>
<1>1. /\ mode = "script" /\ ~failed /\ todo' = Tail(todo) /\ ~failed' /\ todo # <<>>
      /\ todo' # <<>> /\ Head(todo')[1] = "forget"
  <2>1. mode' = "script" /\ todo' # <<>>
    BY ForgetNext DEF Dropping
  <2>2. Head(todo')[1] = "forget"
    BY DEF Doing
  <2> QED BY <2>1, <2>2, OperationEffects DEF Creating
<1>2. ASSUME todo \in Rests(PlainOps) PROVE Head(todo) = <<"delete", Head(todo')[2]>>
  <2>1. todo \in Seq(PlainOps) /\ Rest(todo)
    BY <1>2 DEF Rests
  <2>2. /\ Head(todo) = todo[1] /\ Len(todo) \in Nat /\ Len(Tail(todo)) = Len(todo) - 1
        /\ Tail(todo) \in Seq(PlainOps)
    BY <1>1, <2>1, HeadTailProperties, LenProperties
  <2>3. Len(Tail(todo)) # 0 /\ Len(Tail(todo)) \in Nat
    BY <1>1, <2>2, EmptySeq, LenProperties
  <2>4. Len(todo) > 1
    BY <2>2, <2>3
  <2>5. Head(Tail(todo)) = todo[2]
    BY <2>1, <2>4, SecondOp
  <2>6. 2 \in 1..Len(todo) /\ 2 > 1 /\ todo[2][1] = "forget"
    BY <1>1, <2>2, <2>4, <2>5
  <2>7. todo[2 - 1] = <<"delete", todo[2][2]>>
    BY <2>1, <2>6 DEF Rest, DeletedFirst
  <2>8. 2 - 1 = 1 /\ Head(todo') = todo[2]
    BY <1>1, <2>5
  <2>9. todo[1] = <<"delete", todo[2][2]>>
    BY <2>7, <2>8
  <2> QED BY <2>2, <2>8, <2>9
<1>3. todo \notin Setting \cup Patching \cup Marking \cup Restoring \cup Settling
  <2> SUFFICES ASSUME todo \in Setting \cup Patching \cup Marking \cup Restoring \cup Settling PROVE FALSE
    OBVIOUS
  <2>1. Tail(todo) \in Setting \cup Marking \cup Restoring \cup Settling \cup Resting
    BY SpecialTails DEF Setting, Patching, Marking, Restoring, Settling, Resting
  <2>2. \A s \in Setting \cup Marking \cup Restoring \cup Settling \cup Resting :
           s = <<>> \/ Head(s)[1] # "forget"
    BY DEF Setting, Marking, Restoring, Settling, Resting, RestartSet, RestartRestore
  <2> QED BY <1>1, <2>1, <2>2
<1>4. ASSUME \E x \in Of("fip", Resources) : todo \in Forgetting(x)
      PROVE  Head(todo) = <<"delete", Head(todo')[2]>>
  <2>1. PICK x \in Of("fip", Resources) : todo \in Forgetting(x)
    BY <1>4
  <2>2. todo # << <<"forget", x>> >>
    BY <1>1, ForgettingTails
  <2>3. todo # DeleteFIP(x)
    <3>1. Head(Tail(DeleteFIP(x)))[1] = "delete"
      BY DEF DeleteFIP
    <3> QED BY <1>1, <3>1
  <2>4. todo = << <<"delete", x>>, <<"forget", x>> >>
    BY <2>1, <2>2, <2>3 DEF Forgetting
  <2>5. Head(todo) = <<"delete", x>> /\ Head(todo') = <<"forget", x>>
    BY <1>1, <2>4, ForgettingTails
  <2>6. Head(todo')[2] = x
    BY <2>5
  <2> QED BY <2>5, <2>6
<1>5. Head(todo) = <<"delete", Head(todo')[2]>>
  BY <1>1, <1>2, <1>3, <1>4 DEF Plan, ScriptTodo
<1>6. Head(todo)[1] = "delete"
  BY <1>5
<1>7. CallOk
  <2>1. ~WaitOk /\ ~WaitServerGone /\ ~Need /\ ~SaveOk /\ ~SaveFails /\ ~NotDone
    BY <1>6 DEF WaitOk, WaitServerGone, Need, SaveOk, SaveFails, NotDone, MustSave, Doing, Saves
  <2>2. ~ShellOk /\ ~AgentFails /\ ~ShellLost /\ ~AgentAnswers /\ ~MarkConfigDirty
    BY <1>6 DEF ShellOk, AgentFails, ShellLost, AgentAnswers, MarkConfigDirty, Doing, Shell
  <2>3. ~CallFails /\ ~CallLost
    BY <1>1 DEF CallFails, CallLost, Fail
  <2> QED BY <2>1, <2>2, <2>3 DEF Operation
<1> QED BY <1>5, <1>7

\* Every step keeps Forgotten.
LEMMA NextForgotten ==
    ASSUME Plan, Plan', Rooted(cloud), Forgotten, [Next]_vars
    PROVE  Forgotten'
<1> SUFFICES ASSUME Creating', Doing({"forget"})'
             PROVE  Head(todo')[2] \notin cloud'.live \/ Head(todo')[2] \in Unrecorded
  BY DEF Forgotten
<1>1. CASE Operation
  <2>1. CallOk /\ Head(todo) = <<"delete", Head(todo')[2]>>
    BY <1>1, ForgetAfter
  <2>2. Head(todo)[1] = "delete" /\ Head(todo)[2] = Head(todo')[2]
    BY <2>1
  <2>3. Kind[Head(todo)[2]] \notin {"server", "lb"}
    BY <2>2, ForgetNext DEF Dropping
  <2> QED BY <2>1, <2>2, <2>3, CallRooted
<1>2. mode' = "script" /\ todo' # <<>>
  BY ForgetNext DEF Dropping
<1>3. CASE Interrupt \/ DeletionEnds \/ PlatformPlugs \/ UNCHANGED vars
  <2>1. UNCHANGED <<mode, todo, failed>>
    BY <1>3 DEF Interrupt, DeletionEnds, PlatformPlugs, vars, procVars
  <2>2. Creating /\ Doing({"forget"})
    BY <2>1 DEF Creating, Doing
  <2>3. Head(todo)[2] \notin cloud.live \/ Head(todo)[2] \in Unrecorded
    BY <2>1, <2>2 DEF Forgotten
  <2>4. ~Doing({"create"})
    BY <2>2 DEF Doing
  <2> QED BY <2>1, <2>3, <2>4, NextRooted DEF Created, Unowned
<1>4. CASE RunStep
  <2>1. /\ todo' = StepOps(Head(steps)) /\ steps # <<>> /\ steps \in Seq(StepSet)
    BY <1>4 DEF RunStep, Plan, StepsLeft
  <2>2. Head(steps) \in StepSet
    BY <2>1, HeadTailProperties
  <2>3. \/ todo' \in Chains(PlainOps)
        \/ todo' \in {RestartSet, RestartRestore, ReloadSet}
        \/ \E x \in Of("fip", Resources) : todo' = DeleteFIP(x)
    BY <2>1, <2>2, StepShape DEF SpecialSteps
  <2>4. CASE todo' \in Chains(PlainOps)
    <3>1. todo' \in Seq(PlainOps) /\ Chained(todo')
      BY <2>4 DEF Chains
    <3>2. Head(todo') = todo'[1] /\ 1 \in 1..Len(todo')
      BY <1>2, <3>1, HeadTailProperties
    <3>3. todo'[1][1] # "forget"
      BY <3>1, <3>2 DEF Chained, DeletedFirst
    <3> QED BY <3>2, <3>3 DEF Doing
  <2>5. CASE todo' \in {RestartSet, RestartRestore, ReloadSet}
    <3>1. Head(todo')[1] # "forget"
      BY <2>5 DEF RestartSet, RestartRestore, ReloadSet
    <3> QED BY <3>1 DEF Doing
  <2>6. CASE \E x \in Of("fip", Resources) : todo' = DeleteFIP(x)
    <3>1. Head(todo')[1] # "forget"
      BY <2>6 DEF DeleteFIP
    <3> QED BY <3>1 DEF Doing
  <2> QED BY <2>3, <2>4, <2>5, <2>6
<1>5. CASE Sweep
  <2>1. Down /\ mode' = mode
    BY <1>5, SweepDown DEF Sweep, idleVars
  <2> QED BY <1>2, <2>1 DEF Down
<1>6. CASE NextPart
  <2>1. mode = "script" /\ todo = <<>> /\ ~Finished
    BY <1>2, <1>6 DEF NextPart
  <2>2. part = 0 /\ Parts = 0
    BY <2>1 DEF Plan, Parts, Down
  <2> QED BY <2>1, <2>2 DEF Finished
<1>7. CASE Start \/ StartDown \/ StartScript \/ Resume \/ StartTeardown \/ EndCommand \/ Crash
  BY <1>2, <1>7 DEF Start, StartDown, StartScript, Resume, StartTeardown, EndCommand, Crash, Exit, Enter
<1>8. CASE EndScript
  BY <1>2, <1>8 DEF EndScript, Enter
<1> QED BY <1>1, <1>3, <1>4, <1>5, <1>6, <1>7, <1>8, NextSteps

\* A save leaves nothing loose but what was loose before, the pending resource
\* apart.
LEMMA SaveLoose ==
    ASSUME Plan, Memory, Forgotten, MustSave
    PROVE  Loose(cloud, Remembered.recs) \subseteq Loose(cloud, rs.recs) \ Pending
<1>1. Head(todo)[1] \in {"record", "forget", "save", "done"} /\ todo # <<>>
  BY DEF MustSave, Doing, Saves
<1>2. rs \in State
  BY DEF Memory
<1>3. CASE Head(todo)[1] = "record"
  <2>1. Remembered.recs = rs.recs \cup {Head(todo)[2]}
    BY <1>2, <1>3 DEF Remembered, State
  <2>2. Pending \subseteq {Head(todo)[2]}
    BY <1>1, <1>3 DEF Pending, RecordDue
  <2> QED BY <2>1, <2>2 DEF Loose
<1>4. CASE Head(todo)[1] = "forget"
  <2>1. Remembered.recs = rs.recs \ {Head(todo)[2]}
    BY <1>2, <1>4 DEF Remembered, State
  <2>2. Pending = {}
    BY <1>4 DEF Pending, RecordDue
  <2>3. Doing({"forget"})
    BY <1>1, <1>4 DEF Doing
  <2>4. Creating
    BY <2>3, ForgetWhen DEF Creating
  <2>5. Head(todo)[2] \notin cloud.live \/ Head(todo)[2] \in Unrecorded
    BY <2>3, <2>4 DEF Forgotten
  <2> QED BY <2>1, <2>2, <2>5 DEF Loose
<1>5. CASE Head(todo)[1] \in {"save", "done"}
  <2>1. Remembered.recs = rs.recs
    BY <1>2, <1>5 DEF Remembered, State
  <2>2. Pending = {}
    BY <1>5 DEF Pending, RecordDue
  <2> QED BY <2>1, <2>2
<1> QED BY <1>1, <1>3, <1>4, <1>5

\* The lag of a command that creates nothing more does not grow.
LEMMA LagShrinks ==
    ASSUME Rooted(cloud), Memory, Lag, hist'.runs = hist.runs,
           mode # "idle",
           Loose(cloud', rs'.recs) \subseteq Loose(cloud, rs.recs),
           Creating' => /\ Creating
                        /\ Loose(cloud', rs'.recs) \ Pending' \subseteq Loose(cloud, rs.recs) \ Pending,
           \/ file'.torn
           \/ file' = file /\ Loose(cloud', file.state.recs) \subseteq Loose(cloud, file.state.recs)
           \/ file'.state = rs'
    PROVE  Lag'
<1>1. hist.runs \in Nat
  BY DEF Memory, HistType
<1>2. /\ Loose(cloud, rs.recs) \in SUBSET Resources /\ Loose(cloud, file.state.recs) \in SUBSET Resources
      /\ Loose(cloud, rs.recs) \ Pending \in SUBSET Resources
  BY LooseTyped
<1>3. Cardinality(Loose(cloud', rs'.recs)) <= hist.runs
  <2>1. /\ Cardinality(Loose(cloud', rs'.recs)) <= Cardinality(Loose(cloud, rs.recs))
        /\ Cardinality(Loose(cloud', rs'.recs)) \in Nat /\ Cardinality(Loose(cloud, rs.recs)) \in Nat
    BY <1>2, CountLess
  <2>2. Cardinality(Loose(cloud, rs.recs)) <= hist.runs
    BY DEF Lag
  <2> QED BY <1>1, <2>1, <2>2
<1>4. ASSUME Creating' PROVE Cardinality(Loose(cloud', rs'.recs) \ Pending') < hist.runs
  <2>1. /\ Cardinality(Loose(cloud', rs'.recs) \ Pending') <= Cardinality(Loose(cloud, rs.recs) \ Pending)
        /\ Cardinality(Loose(cloud', rs'.recs) \ Pending') \in Nat
        /\ Cardinality(Loose(cloud, rs.recs) \ Pending) \in Nat
    BY <1>2, <1>4, CountLess
  <2>2. Cardinality(Loose(cloud, rs.recs) \ Pending) < hist.runs
    BY <1>4 DEF Lag
  <2> QED BY <1>1, <2>1, <2>2
<1>5. file'.torn \/ Cardinality(Loose(cloud', file'.state.recs)) <= hist.runs
  <2>1. CASE file' = file /\ Loose(cloud', file.state.recs) \subseteq Loose(cloud, file.state.recs)
    <3>1. /\ Cardinality(Loose(cloud', file.state.recs)) <= Cardinality(Loose(cloud, file.state.recs))
          /\ Cardinality(Loose(cloud', file.state.recs)) \in Nat
          /\ Cardinality(Loose(cloud, file.state.recs)) \in Nat
      BY <1>2, <2>1, CountLess
    <3>2. file.torn \/ Cardinality(Loose(cloud, file.state.recs)) <= hist.runs
      BY DEF Lag
    <3> QED BY <1>1, <2>1, <3>1, <3>2
  <2> QED BY <1>3, <2>1
<1> QED BY <1>3, <1>4, <1>5 DEF Lag

\* An operation keeps the lag: a create makes its resource pending, its record
\* ends that.
LEMMA OperationLag ==
    ASSUME Plan, Memory, Rooted(cloud), Saved, Forgotten, Lag, Operation, [Next]_vars
    PROVE  Lag'
<1>1. mode # "idle" /\ mode' = mode /\ (Creating' => Creating /\ ~failed' /\ todo' = Tail(todo)) /\ todo # <<>>
  BY OperationEffects DEF Creating
<1>2. hist'.runs = hist.runs /\ hist.runs \in Nat
  BY RunsKept DEF Memory, HistType
<1>3. CASE (CallOk \/ CallLost) /\ Doing({"create"})
  <2> DEFINE x == Head(todo)[2]
             L == Loose(cloud, rs.recs)
             N == Loose(cloud', rs.recs)
  <2>1. UNCHANGED <<rs, file>>
    BY <1>3 DEF CallOk, CallLost, idleVars
  <2>2. Creating /\ ~file.torn /\ file.state = rs
    BY <1>3, CreateWhen DEF Creating, Saved
  <2>3. Pending = {}
    BY <1>3 DEF Pending, Doing, RecordDue
  <2>4. L \ Pending = L /\ Cardinality(L) < hist.runs
    BY <2>2, <2>3 DEF Lag
  <2>5. L \in SUBSET Resources /\ N \subseteq L \cup {x}
    BY LooseTyped, LooseSteps
  <2>6. ASSUME Creating' PROVE N \ Pending' \subseteq L
    <3>1. RecordDue(todo', x)
      BY <1>1, <1>3, <2>6, CreateWhen
    <3>2. x \in Resources
      <4>1. Doing(Calls)
        BY <1>3 DEF Doing, Calls
      <4>2. Head(todo)[1] \in Calls
        BY <4>1 DEF Doing
      <4> QED BY <4>1, <4>2, HeadTyped DEF CallTyped
    <3>3. x \in Pending'
      BY <3>1, <3>2 DEF Pending
    <3> QED BY <2>5, <3>3
  <2> HIDE DEF L, N, x
  <2>7. Cardinality(L) \in Nat /\ Cardinality(N) \in Nat /\ Cardinality(N) <= Cardinality(L) + 1
    BY <2>5, CountMore
  <2>8. Cardinality(N) <= hist.runs
    BY <1>2, <2>4, <2>7
  <2>9. ASSUME Creating' PROVE Cardinality(N \ Pending') < hist.runs
    <3>1. Cardinality(N \ Pending') \in Nat /\ Cardinality(N \ Pending') <= Cardinality(L)
      BY <2>5, <2>6, <2>9, CountLess
    <3> QED BY <1>2, <2>4, <2>7, <3>1
  <2> QED BY <1>2, <2>1, <2>2, <2>8, <2>9 DEF Lag, N
<1>4. CASE SaveOk \/ SaveFails
  <2>1. MustSave /\ rs' = Remembered /\ cloud' = cloud
    BY <1>4 DEF SaveOk, SaveFails
  <2>2. Loose(cloud', rs'.recs) \subseteq Loose(cloud, rs.recs) \ Pending
    BY <2>1, SaveLoose
  <2>3. file'.torn \/ file' = file \/ file'.state = rs'
    BY <1>4 DEF SaveOk, SaveFails
  <2>4. Loose(cloud', file.state.recs) \subseteq Loose(cloud, file.state.recs)
    BY <2>1
  <2> QED BY <1>1, <1>2, <2>2, <2>3, <2>4, LagShrinks
<1>5. CASE ~((CallOk \/ CallLost) /\ Doing({"create"})) /\ ~SaveOk /\ ~SaveFails
  <2>1. UNCHANGED <<rs, file>>
    BY <1>5, OperationEffects
  <2>2. /\ Loose(cloud', rs.recs) \subseteq Loose(cloud, rs.recs)
        /\ Loose(cloud', file.state.recs) \subseteq Loose(cloud, file.state.recs)
    BY <1>5, LooseSteps
  <2>3. ASSUME Creating' PROVE Pending \subseteq Pending'
    <3> SUFFICES ASSUME NEW x \in Pending PROVE x \in Pending'
      OBVIOUS
    <3>1. x \in Resources /\ RecordDue(todo, x)
      BY DEF Pending
    <3>2. Head(todo) # <<"record", x>>
      <4>1. Head(todo) = <<"record", x>> => Doing(Saves)
        BY <1>1 DEF Doing, Saves
      <4> QED BY <1>1, <1>5, <2>3, <4>1, OperationEffects
    <3>3. todo' # <<>> /\ Head(todo') = <<"record", x>>
      BY <1>1, <2>3, <3>1, <3>2 DEF RecordDue
    <3> QED BY <3>1, <3>3 DEF Pending, RecordDue
  <2> QED BY <1>1, <1>2, <2>1, <2>2, <2>3, LagShrinks
<1> QED BY <1>3, <1>4, <1>5

\* What happens outside the command adds only ports of other services.
LEMMA OutsideLoose ==
    ASSUME Rooted(cloud), DeletionEnds \/ PlatformPlugs \/ cloud' = cloud, NEW R
    PROVE  Loose(cloud', R) \subseteq Loose(cloud, R)
<1>1. CASE DeletionEnds
  <2>1. PICK x \in cloud.dying : cloud' = Vanish(cloud, x)
    BY <1>1 DEF DeletionEnds
  <2>2. Vanish(cloud, x).live \subseteq cloud.live
    BY VanishRooted
  <2> QED BY <2>1, <2>2 DEF Loose
<1>2. CASE PlatformPlugs
  <2>1. PICK p \in Platform : Parent[p] \in cloud.live /\ cloud' = CreateOther(cloud, p)
    BY <1>2 DEF PlatformPlugs
  <2>2. CreateOther(cloud, p).live = cloud.live \cup {p} /\ Kind[p] = "port"
    BY <2>1, PlugRooted
  <2> QED BY <2>1, <2>2 DEF Loose, Unrecorded
<1> QED BY <1>1, <1>2

\* Every step keeps the lag.
LEMMA NextLag ==
    ASSUME Plan, Memory, Rooted(cloud), Saved, Forgotten, Lag, [Next]_vars
    PROVE  Lag'
<1>0. hist.runs \in Nat /\ hist \in HistType /\ Fault.runs = hist.runs
  BY DEF Memory, HistType, Fault
<1>1. CASE Operation
  BY <1>1, OperationLag
<1>2. CASE NextPart \/ RunStep
  <2>1. UNCHANGED <<mode, failed, rs, file, cloud, hist>> /\ todo = <<>>
    BY <1>2 DEF NextPart, RunStep
  <2>2. mode # "idle"
    BY <1>2 DEF NextPart, RunStep, Finished, Parts, Down, Plan
  <2>3. Pending = {} /\ Creating' = Creating
    BY <2>1 DEF Pending, RecordDue, Creating
  <2> QED BY <2>1, <2>2, <2>3, LagShrinks
<1>3. CASE Sweep \/ StartScript \/ EndScript \/ StartTeardown
  <2>1. UNCHANGED <<rs, file, cloud, hist>> /\ mode # "idle"
    BY <1>3, SweepDown DEF Sweep, StartScript, EndScript, StartTeardown, idleVars, Down
  <2>2. Creating' => Creating /\ Pending = {}
    <3>1. Sweep => ~Creating'
      BY SweepDown DEF Sweep, idleVars, Down, Creating
    <3>2. EndScript \/ StartTeardown => ~Creating'
      BY DEF EndScript, StartTeardown, Enter, Creating
    <3>3. StartScript => Creating /\ Pending = {}
      BY DEF StartScript, Finished, Creating, Pending, RecordDue
    <3> QED BY <1>3, <3>1, <3>2, <3>3
  <2> QED BY <2>1, <2>2, LagShrinks
<1>4. CASE Interrupt \/ DeletionEnds \/ PlatformPlugs \/ UNCHANGED vars
  <2>1. UNCHANGED <<mode, todo, failed, rs, file>>
    BY <1>4 DEF Interrupt, DeletionEnds, PlatformPlugs, vars, procVars
  <2>2. hist'.runs = hist.runs
    <3>1. \A S : [hist EXCEPT !.plugged = S].runs = hist.runs
      BY <1>0 DEF HistType
    <3> QED BY <1>0, <1>4, <3>1 DEF Interrupt, DeletionEnds, PlatformPlugs, vars
  <2>3. DeletionEnds \/ PlatformPlugs \/ cloud' = cloud
    BY <1>4 DEF Interrupt, vars
  <2>4. /\ Loose(cloud', rs.recs) \subseteq Loose(cloud, rs.recs)
        /\ Loose(cloud', file.state.recs) \subseteq Loose(cloud, file.state.recs)
    BY <2>3, OutsideLoose
  <2>5. Creating' = Creating /\ Pending' = Pending
    BY <2>1 DEF Creating, Pending
  <2>6. CASE mode # "idle"
    BY <2>1, <2>2, <2>4, <2>5, <2>6, LagShrinks
  <2>7. CASE mode = "idle"
    <3>1. /\ Cardinality(Loose(cloud', file.state.recs)) <= Cardinality(Loose(cloud, file.state.recs))
          /\ Cardinality(Loose(cloud', file.state.recs)) \in Nat
          /\ Cardinality(Loose(cloud, file.state.recs)) \in Nat
      BY <2>4, LooseTyped, CountLess
    <3>2. file.torn \/ Cardinality(Loose(cloud, file.state.recs)) <= hist.runs
      BY DEF Lag
    <3>3. file.torn \/ Cardinality(Loose(cloud', file.state.recs)) <= hist.runs
      BY <1>0, <3>1, <3>2
    <3> QED BY <2>1, <2>2, <2>7, <3>3 DEF Lag, Creating
  <2> QED BY <2>6, <2>7
<1>5. CASE Start \/ Resume
  <2>1. rs' = file.state /\ ~file.torn /\ cloud' = cloud /\ file' = file
    BY <1>5 DEF Start, Resume, Memory, FileOK
  <2>2. hist'.runs = hist.runs + 1
    BY <1>0, <1>5 DEF Start, Resume, HistType
  <2> DEFINE L == Loose(cloud, file.state.recs)
  <2>3. L \in SUBSET Resources /\ Cardinality(L) <= hist.runs
    BY <2>1, LooseTyped DEF Lag
  <2>4. Loose(cloud', rs'.recs) = L /\ Loose(cloud', file'.state.recs) = L
    BY <2>1
  <2> HIDE DEF L
  <2>5. /\ Cardinality(L \ Pending') \in Nat /\ Cardinality(L) \in Nat
        /\ Cardinality(L \ Pending') <= Cardinality(L)
    BY <2>3, CountLess
  <2>6. Cardinality(L \ Pending') < hist'.runs /\ Cardinality(L) <= hist'.runs
    BY <1>0, <2>2, <2>3, <2>5
  <2> QED BY <2>4, <2>6 DEF Lag
<1>6. CASE StartDown
  <2>1. rs' = file.state /\ ~file.torn /\ UNCHANGED <<cloud, file, hist>> /\ ~Creating'
    BY <1>6 DEF StartDown, Enter, Creating
  <2> QED BY <2>1 DEF Lag
<1>7. CASE EndCommand \/ Crash
  <2>1. mode' = "idle" /\ cloud' = cloud /\ (file' = file \/ file'.torn)
    BY <1>7 DEF EndCommand, Crash, Exit, Enter
  <2>2. hist'.runs = hist.runs
    <3>1. ASSUME NEW e \in BOOLEAN, NEW n
          PROVE  [hist EXCEPT !.crashes = n, !.excused = e].runs = hist.runs
      BY <1>0 DEF HistType
    <3>2. (hist.excused \/ agent.config # "own") \in BOOLEAN
      OBVIOUS
    <3>3. Crash => hist'.runs = hist.runs
      BY <3>1, <3>2 DEF Crash
    <3> QED BY <1>7, <3>3 DEF EndCommand
  <2> QED BY <2>1, <2>2 DEF Lag, Creating
<1> QED BY <1>1, <1>2, <1>3, <1>4, <1>5, <1>6, <1>7, NextSteps

\* However a command ends, a readable file misses at most one live resource
\* per command that created any, VMs and their ports included (RunState.Save).
THEOREM RecordLags == Spec => []RecordLagsByOne
<1>1. Init => Lag /\ Forgotten
  <2> SUFFICES ASSUME Init PROVE Lag /\ Forgotten
    OBVIOUS
  <2>1. mode = "idle" /\ hist.runs = 0 /\ cloud.live = {} /\ ~Creating
    BY DEF Init, Empty, Creating
  <2>2. Loose(cloud, file.state.recs) = {}
    BY <2>1 DEF Loose
  <2>3. Cardinality(Loose(cloud, file.state.recs)) = 0
    BY <2>2, FS_EmptySet
  <2> QED BY <2>1, <2>3 DEF Lag, Forgotten
<1>2. Plan /\ Plan' /\ Memory /\ Rooted(cloud) /\ Record /\ (Lag /\ Forgotten) /\ [Next]_vars => (Lag /\ Forgotten)'
  BY NextLag, NextForgotten DEF Record
<1>3. Lag => RecordLagsByOne
  BY DEF Lag, RecordLagsByOne, Loose, Owned
<1> QED BY <1>1, <1>2, <1>3, PlanInvariant, MemoryInvariant, CloudStaysRooted, RecordCovers, PTL DEF Spec

(***************************************************************************)
(* What a teardown has still to end                                        *)
(***************************************************************************)
\* The kinds no sweep of a teardown finds.
Unswept == {"network", "router", "fip", "lb"}
\* The part of the teardown that ends a recorded resource no sweep finds, and
\* the operation that does.
Due == [network |-> 7, router |-> 5, fip |-> 1, lb |-> 1]
Ending(x) == IF Kind[x] = "lb" THEN <<"gone", x>> ELSE <<"delete", x>>

\* While nothing has failed, what is alive still has its operation to come.
Remaining ==
    Down /\ ~failed =>
        /\ \A x \in cloud.live :
             Kind[x] \in Unswept /\ x \in rs.recs => part < Due[Kind[x]] \/ Has(todo, Ending(x))
        /\ \A x \in cloud.live :
             Kind[x] = "server" => \/ part < 2
                                   \/ Has(todo, <<"gone", x>>)
                                   \/ \E p \in Projects : Has(todo, <<"servers", p>>)
\* A marked file: nothing a sweep would find is alive, nor anything recorded.
Erased ==
    file.state.done =>
        \A x \in cloud.live : /\ Kind[x] \notin {"server", "port", "subnet"}
                              /\ x \in file.state.recs => Kind[x] = "project"

\* The operation that ends a resource is in the part where it is due.
LEMMA DueParts ==
    /\ \A kind \in Unswept : Due[kind] \in 1..7
    /\ \A x \in Resources : Kind[x] \in Unswept => Has(DownPlan[Due[Kind[x]]], Ending(x))
<1>1. \A kind \in Unswept : Due[kind] \in 1..7
  BY DEF Due, Unswept
<1>2. ASSUME NEW x \in Resources, Kind[x] \in Unswept PROVE Has(DownPlan[Due[Kind[x]]], Ending(x))
  <2>1. CASE Kind[x] = "network"
    <3>1. Due[Kind[x]] = 7 /\ Ending(x) = <<"delete", x>> /\ x \in Of("network", Resources)
      BY <2>1 DEF Due, Ending, Of
    <3> QED BY <3>1, DownPlanParts
  <2>2. CASE Kind[x] = "router"
    <3>1. Due[Kind[x]] = 5 /\ Ending(x) = <<"delete", x>> /\ x \in Of("router", Resources)
      BY <2>2 DEF Due, Ending, Of
    <3> QED BY <3>1, DownPlanParts
  <2>3. CASE Kind[x] = "fip"
    <3>1. Due[Kind[x]] = 1 /\ Ending(x) = <<"delete", x>> /\ x \in Of("fip", Resources)
      BY <2>3 DEF Due, Ending, Of
    <3> QED BY <3>1, DownPlanParts
  <2>4. CASE Kind[x] = "lb"
    <3>1. Due[Kind[x]] = 1 /\ Ending(x) = <<"gone", x>> /\ x \in Of("lb", Resources)
      BY <2>4 DEF Due, Ending, Of
    <3> QED BY <3>1, DownPlanParts
  <2> QED BY <1>2, <2>1, <2>2, <2>3, <2>4 DEF Unswept
<1> QED BY <1>1, <1>2

\* Nothing but ports comes alive during a teardown.
LEMMA DownGains ==
    ASSUME Plan, Rooted(cloud), [Next]_vars, Down \/ todo = <<>>,
           NEW x \in cloud'.live, Kind[x] # "port"
    PROVE  x \in cloud.live
<1>1. ~Doing({"create"})
  <2>1. CASE Down
    BY <2>1, CreateWhen DEF Down
  <2>2. CASE todo = <<>>
    BY <2>2 DEF Doing
  <2> QED BY <2>1, <2>2
<1> QED BY <1>1, NextRooted DEF Created, Unowned

\* The teardown's operations, when they succeed.
LEMMA EndingDone ==
    ASSUME Plan, Operation, ~failed', Rooted(cloud)
    PROVE  /\ Head(todo)[1] # "servers"
           /\ Head(todo)[1] = "gone" => Head(todo)[2] \notin cloud'.live
           /\ Head(todo)[1] = "delete" /\ Kind[Head(todo)[2]] \notin {"server", "lb"} =>
                Head(todo)[2] \notin cloud'.live
<1>1. ~CallFails /\ ~CallLost /\ ~SaveFails /\ ~AgentFails /\ ~ShellLost
  BY DEF CallFails, CallLost, SaveFails, AgentFails, ShellLost, Fail
<1>2. ASSUME Head(todo)[1] \in {"servers", "gone", "delete"}
      PROVE  \/ Head(todo)[1] = "delete" /\ CallOk
             \/ Head(todo)[1] = "gone" /\ WaitServerGone
  <2>1. ~WaitOk /\ ~Need /\ ~SaveOk /\ ~NotDone
    BY <1>2 DEF WaitOk, Need, SaveOk, NotDone, MustSave, Doing, Saves
  <2>2. ~ShellOk /\ ~AgentAnswers /\ ~MarkConfigDirty
    BY <1>2 DEF ShellOk, AgentAnswers, MarkConfigDirty, Doing, Shell
  <2>3. CallOk => Head(todo)[1] = "delete"
    BY <1>2 DEF CallOk, Doing, Calls
  <2>4. WaitServerGone => Head(todo)[1] = "gone"
    BY DEF WaitServerGone, Doing
  <2> QED BY <1>1, <2>1, <2>2, <2>3, <2>4 DEF Operation
<1>3. WaitServerGone => Head(todo)[2] \notin cloud'.live
  BY DEF WaitServerGone
<1>4. CallOk /\ Head(todo)[1] = "delete" /\ Kind[Head(todo)[2]] \notin {"server", "lb"} =>
        Head(todo)[2] \notin cloud'.live
  BY CallRooted
<1> QED BY <1>2, <1>3, <1>4

\* An operation of the teardown ends what it is about, or fails.
LEMMA OperationRemaining ==
    ASSUME Plan, Memory, Rooted(cloud), Remaining, Operation, [Next]_vars
    PROVE  Remaining'
<1> SUFFICES ASSUME Down', ~failed' PROVE Remaining'
  BY DEF Remaining
<1>1. Down /\ ~failed /\ todo' = Tail(todo) /\ todo # <<>> /\ part' = part
  BY OperationEffects
<1>2. rs'.recs = rs.recs
  <2>1. CASE SaveOk
    <3>1. MustSave /\ rs' = Remembered
      BY <2>1 DEF SaveOk
    <3>2. Head(todo)[1] = "done"
      BY <1>1, <3>1, SaveWhen DEF Down
    <3>3. rs \in State
      BY DEF Memory
    <3> QED BY <3>1, <3>2, <3>3 DEF Remembered, State
  <2>2. CASE ~SaveOk
    BY <2>2, OperationEffects
  <2> QED BY <2>1, <2>2
<1>3. PICK Ops : todo \in Seq(Ops)
  <2>1. CASE todo \in Seq(DownOps)
    BY <2>1
  <2>2. CASE todo = << <<"done">> >>
    <3>1. todo \in Seq({<<"done">>})
      BY <2>2
    <3> QED BY <3>1
  <2> QED BY <1>1, <2>1, <2>2, NextOp
<1>4. ASSUME NEW op, Has(todo, op) PROVE op = Head(todo) \/ Has(todo', op)
  BY <1>1, <1>3, <1>4, HasTail
<1>5. ASSUME NEW x \in cloud'.live, Kind[x] \in Unswept, x \in rs.recs
      PROVE  part < Due[Kind[x]] \/ Has(todo', Ending(x))
  <2>1. x \in cloud.live
    BY <1>1, <1>5, DownGains DEF Unswept
  <2>2. part < Due[Kind[x]] \/ Has(todo, Ending(x))
    BY <1>1, <1>5, <2>1 DEF Remaining
  <2>3. Ending(x) # Head(todo)
    <3>1. CASE Kind[x] = "lb"
      <4>1. Ending(x)[1] = "gone" /\ Ending(x)[2] = x
        BY <3>1 DEF Ending
      <4> QED BY <1>5, <4>1, EndingDone
    <3>2. CASE Kind[x] # "lb"
      <4>1. Ending(x)[1] = "delete" /\ Ending(x)[2] = x
        BY <3>2 DEF Ending
      <4>2. Kind[x] \notin {"server", "lb"}
        BY <1>5, <3>2 DEF Unswept
      <4> QED BY <1>5, <4>1, <4>2, EndingDone
    <3> QED BY <3>1, <3>2
  <2> QED BY <1>4, <2>2, <2>3
<1>6. ASSUME NEW x \in cloud'.live, Kind[x] = "server"
      PROVE  part < 2 \/ Has(todo', <<"gone", x>>) \/ \E p \in Projects : Has(todo', <<"servers", p>>)
  <2>1. x \in cloud.live
    BY <1>1, <1>6, DownGains
  <2>2. part < 2 \/ Has(todo, <<"gone", x>>) \/ \E p \in Projects : Has(todo, <<"servers", p>>)
    BY <1>1, <1>6, <2>1 DEF Remaining
  <2>3. <<"gone", x>> # Head(todo)
    <3>1. <<"gone", x>>[1] = "gone" /\ <<"gone", x>>[2] = x
      OBVIOUS
    <3> QED BY <1>6, <3>1, EndingDone
  <2>4. \A p : <<"servers", p>> # Head(todo)
    <3>1. \A p : <<"servers", p>>[1] = "servers"
      OBVIOUS
    <3> QED BY <3>1, EndingDone
  <2>5. Has(todo, <<"gone", x>>) => Has(todo', <<"gone", x>>)
    BY <1>4, <2>3
  <2>6. ASSUME NEW p \in Projects, Has(todo, <<"servers", p>>) PROVE Has(todo', <<"servers", p>>)
    BY <1>4, <2>4, <2>6
  <2> QED BY <2>2, <2>5, <2>6
<1> QED BY <1>1, <1>2, <1>5, <1>6 DEF Remaining

\* A listing of the servers queues the deletion of every server alive.
LEMMA SweepRemaining ==
    ASSUME Plan, Rooted(cloud), Remaining, Sweep
    PROVE  Remaining'
<1> SUFFICES ASSUME ~failed' PROVE Remaining'
  BY DEF Remaining
<1>1. /\ todo # <<>> /\ Head(todo)[1] \in {"servers", "ports"}
      /\ UNCHANGED <<mode, part, rs, failed, cloud>>
  BY DEF Sweep, Doing, idleVars
<1>2. Down /\ ~failed /\ todo \in Seq(DownOps) /\ Tail(todo) \in Seq(DownOps)
  BY <1>1, SweepDown, HeadTailProperties
<1> DEFINE found == IF Head(todo)[1] = "servers" THEN ListProjectServers(cloud)
                    ELSE ListNetworkPorts(cloud, Head(todo)[2])
           s == InOrder(found)
           ops == FlattenSeq([i \in DOMAIN s |-> Removed(s[i])])
<1>3. todo' = ops \o Tail(todo)
  BY DEF Sweep, ForEach
<1>4. s \in Seq(Resources) /\ \A x \in found \cap Resources : Has(s, x)
  <2>1. s \in Seq(found \cap Resources) /\ \A x \in found \cap Resources : Has(s, x)
    BY InOrderSeq
  <2> HIDE DEF s, found
  <2> QED BY <2>1
<1>5. /\ ops \in Seq(On({"delete"}, Kinds) \cup On({"gone"}, {"server", "lb"}))
      /\ \A x : Has(s, x) /\ Kind[x] \in {"server", "lb"} => Has(ops, <<"gone", x>>)
  <2> HIDE DEF s, found
  <2> QED BY <1>4, RemovedAll
<1>6. On({"delete"}, Kinds) \cup On({"gone"}, {"server", "lb"}) \subseteq DownOps
  BY DEF DownOps
<1>7. ops \in Seq(DownOps)
  <2> HIDE DEF ops
  <2> QED BY <1>5, <1>6
<1>8. ASSUME NEW op, Has(todo, op) PROVE op = Head(todo) \/ Has(todo', op)
  <2> HIDE DEF ops
  <2>1. op = Head(todo) \/ Has(Tail(todo), op)
    BY <1>1, <1>2, <1>8, HasTail
  <2> QED BY <1>2, <1>3, <1>7, <2>1, HasConcat
<1>9. ASSUME NEW x \in cloud.live, Kind[x] \in Unswept, x \in rs.recs
      PROVE  part < Due[Kind[x]] \/ Has(todo', Ending(x))
  <2>1. part < Due[Kind[x]] \/ Has(todo, Ending(x))
    BY <1>2, <1>9 DEF Remaining
  <2>2. Ending(x)[1] \in {"delete", "gone"}
    BY DEF Ending
  <2> HIDE DEF ops
  <2> QED BY <1>1, <1>8, <2>1, <2>2
<1>10. ASSUME NEW x \in cloud.live, Kind[x] = "server"
      PROVE  part < 2 \/ Has(todo', <<"gone", x>>) \/ \E p \in Projects : Has(todo', <<"servers", p>>)
  <2>1. part < 2 \/ Has(todo, <<"gone", x>>) \/ \E p \in Projects : Has(todo, <<"servers", p>>)
    BY <1>2, <1>10 DEF Remaining
  <2>2. CASE Has(todo, <<"gone", x>>)
    <3>1. <<"gone", x>>[1] = "gone"
      OBVIOUS
    <3>2. <<"gone", x>> # Head(todo)
      BY <1>1, <3>1
    <3> HIDE DEF ops
    <3> QED BY <1>8, <2>2, <3>2
  <2>3. ASSUME NEW p \in Projects, Has(todo, <<"servers", p>>)
        PROVE  Has(todo', <<"gone", x>>) \/ Has(todo', <<"servers", p>>)
    <3>1. CASE <<"servers", p>> = Head(todo)
      <4>1. Head(todo)[1] = "servers"
        BY <3>1
      <4>2. x \in found \cap Resources
        BY <1>10, <4>1 DEF ListProjectServers, Of, Rooted, CloudType
      <4>3. Has(ops, <<"gone", x>>)
        <5> HIDE DEF ops, s, found
        <5> QED BY <1>4, <1>5, <1>10, <4>2
      <4> HIDE DEF ops
      <4> QED BY <1>2, <1>3, <1>7, <4>3, HasConcat
    <3>2. CASE <<"servers", p>> # Head(todo)
      <4> HIDE DEF ops
      <4> QED BY <1>8, <2>3, <3>2
    <3> QED BY <3>1, <3>2
  <2> HIDE DEF ops
  <2> QED BY <2>1, <2>2, <2>3
<1> HIDE DEF ops
<1> QED BY <1>1, <1>9, <1>10 DEF Remaining, Down

\* A part of the teardown begins with what it has to end.
LEMMA PartRemaining ==
    ASSUME Plan, Memory, Rooted(cloud), Covered, Remaining, NextPart
    PROVE  Remaining'
<1> SUFFICES ASSUME Down', ~failed' PROVE Remaining'
  BY DEF Remaining
<1>1. /\ todo = <<>> /\ ~Finished /\ part' = part + 1 /\ Down /\ ~failed
      /\ todo' = DownPart(rs.recs, part + 1) /\ UNCHANGED <<rs, cloud>>
  BY DEF NextPart, Down
<1>2. part \in 0..7
  <2>1. part \in 0..8 /\ Parts = 8 /\ part # Parts
    BY <1>1, DownPlanParts DEF Plan, Finished, Parts, Down
  <2> QED BY <2>1
<1>3. \A op : ~Has(todo, op)
  BY <1>1 DEF Has
<1>4. \A i \in 1..7 : \A verb : \A x \in rs.recs :
         Has(DownPlan[i], <<verb, x>>) => Has(DownPart(rs.recs, i), <<verb, x>>)
  BY DownPartSeq
<1>5. ASSUME NEW x \in cloud.live, Kind[x] \in Unswept, x \in rs.recs
      PROVE  part + 1 < Due[Kind[x]] \/ Has(todo', Ending(x))
  <2>1. part < Due[Kind[x]] /\ Due[Kind[x]] \in 1..7
    BY <1>1, <1>3, <1>5, DueParts DEF Remaining
  <2>2. CASE part + 1 = Due[Kind[x]]
    <3>1. x \in Resources /\ Has(DownPlan[part + 1], Ending(x))
      BY <1>5, <2>2, DueParts DEF Rooted, CloudType
    <3>2. PICK verb : Ending(x) = <<verb, x>>
      BY DEF Ending
    <3>3. Has(DownPart(rs.recs, part + 1), <<verb, x>>)
      BY <1>4, <1>5, <2>1, <2>2, <3>1, <3>2
    <3> QED BY <1>1, <3>2, <3>3
  <2> QED BY <1>2, <2>1, <2>2
<1>6. ASSUME NEW x \in cloud.live, Kind[x] = "server"
      PROVE  \/ part + 1 < 2 \/ Has(todo', <<"gone", x>>)
             \/ \E p \in Projects : Has(todo', <<"servers", p>>)
  <2>1. part < 2
    BY <1>1, <1>3, <1>6 DEF Remaining
  <2>2. CASE part = 1
    <3>1. mode # "idle" /\ Of("server", cloud.live) # {}
      BY <1>1, <1>6 DEF Down, Of
    <3>2. HasProject(rs.recs)
      BY <3>1 DEF Covered, Covers
    <3>3. PICK p \in rs.recs : Kind[p] = "project"
      BY <3>2 DEF HasProject, Of
    <3>4. p \in Projects
      BY <3>3 DEF Projects, Of, Memory, State
    <3>5. Has(DownPlan[2], <<"servers", p>>)
      BY <3>4, DownPlanParts DEF Projects
    <3>6. part + 1 = 2 /\ Has(DownPart(rs.recs, 2), <<"servers", p>>)
      BY <1>4, <2>2, <3>3, <3>5
    <3> QED BY <1>1, <3>4, <3>6
  <2> QED BY <1>2, <2>1, <2>2
<1> QED BY <1>1, <1>5, <1>6 DEF Remaining

\* Every step keeps what remains to do.
LEMMA NextRemaining ==
    ASSUME Plan, Memory, Rooted(cloud), Covered, Remaining, [Next]_vars
    PROVE  Remaining'
<1>1. CASE Operation
  BY <1>1, OperationRemaining
<1>2. CASE Sweep
  BY <1>2, SweepRemaining
<1>3. CASE NextPart
  BY <1>3, PartRemaining
<1>4. CASE Interrupt \/ DeletionEnds \/ PlatformPlugs \/ UNCHANGED vars
  <2>1. UNCHANGED <<mode, part, todo, failed, rs>>
    BY <1>4 DEF Interrupt, DeletionEnds, PlatformPlugs, vars, procVars
  <2>2. Down' = Down
    BY <2>1 DEF Down
  <2>3. ASSUME Down, NEW x \in cloud'.live, Kind[x] \in Unswept \cup {"server"} PROVE x \in cloud.live
    BY <2>3, DownGains DEF Unswept
  <2> QED BY <2>1, <2>2, <2>3 DEF Remaining
<1>5. CASE StartDown \/ StartTeardown
  <2>1. part' = 0
    BY <1>5 DEF StartDown, StartTeardown, Enter
  <2>2. \A x \in cloud'.live : Kind[x] \in Unswept => part' < Due[Kind[x]]
    BY <2>1, DueParts
  <2> QED BY <2>1, <2>2 DEF Remaining
<1>6. CASE RunStep \/ Start \/ StartScript \/ Resume \/ EndScript \/ EndCommand \/ Crash
  <2>1. ~Down'
    BY <1>6 DEF RunStep, Start, StartScript, Resume, EndScript, EndCommand, Crash, Exit, Enter, Down
  <2> QED BY <2>1 DEF Remaining
<1> QED BY <1>1, <1>2, <1>3, <1>4, <1>5, <1>6, NextSteps

\* When a teardown without errors gets to its end, nothing it knows of is left.
LEMMA EverythingGone ==
    ASSUME Memory, Rooted(cloud), Covered, Remaining, Down, ~failed, part = 8, todo = << <<"done">> >>
    PROVE  \A x \in cloud.live : /\ Kind[x] \notin {"server", "port", "subnet"}
                                 /\ x \in rs.recs => Kind[x] = "project"
<1>1. \A op : Has(todo, op) => op = <<"done">>
  <2>1. Len(todo) = 1 /\ todo[1] = <<"done">>
    OBVIOUS
  <2> QED BY <2>1 DEF Has
<1>2. ASSUME NEW x \in cloud.live, x \in rs.recs, Kind[x] \in Unswept PROVE FALSE
  <2>1. Due[Kind[x]] \in 1..7 /\ (part < Due[Kind[x]] \/ Has(todo, Ending(x)))
    BY <1>2, DueParts DEF Remaining
  <2>2. Ending(x)[1] # "done"
    BY DEF Ending
  <2>3. <<"done">>[1] = "done"
    OBVIOUS
  <2> QED BY <1>1, <2>1, <2>2, <2>3
<1>3. ASSUME NEW x \in cloud.live, Kind[x] = "server" PROVE FALSE
  <2>1. Has(todo, <<"gone", x>>) \/ \E p \in Projects : Has(todo, <<"servers", p>>)
    BY <1>3 DEF Remaining
  <2>2. <<"gone", x>>[1] # "done" /\ \A p : <<"servers", p>>[1] # "done"
    OBVIOUS
  <2>3. <<"done">>[1] = "done"
    OBVIOUS
  <2> QED BY <1>1, <2>1, <2>2, <2>3
<1>4. ASSUME NEW x \in cloud.live, Kind[x] = "subnet" PROVE FALSE
  <2>1. Parent[x] \in cloud.live /\ Parent[x] \in rs.recs
    BY <1>4 DEF Rooted, Covered, Covers, Of, Down
  <2>2. Kind[Parent[x]] = "network"
    BY <1>4, TopologyAssumption DEF Rooted, CloudType, Of
  <2> QED BY <1>2, <2>1, <2>2 DEF Unswept
<1>5. ASSUME NEW x \in cloud.live, Kind[x] = "port" PROVE FALSE
  <2>1. Parent[x] \in cloud.live
    BY <1>5 DEF Rooted
  <2>2. Kind[Parent[x]] = "subnet"
    BY <1>5, TopologyAssumption DEF Rooted, CloudType, Of
  <2> QED BY <1>4, <2>1, <2>2
<1>6. \A x \in cloud.live : Kind[x] \in Kinds
  BY TopologyAssumption DEF Rooted, CloudType
<1> QED BY <1>2, <1>3, <1>4, <1>5, <1>6 DEF Kinds, Unswept

\* What can change the file.
LEMMA FileSteps ==
    ASSUME [Next]_vars
    PROVE  file' = file \/ file' = Torn \/ SaveOk
<1>1. CASE Operation
  BY <1>1 DEF Operation, CallOk, CallFails, CallLost, WaitOk, WaitServerGone, Need, SaveFails, NotDone,
              ShellOk, AgentFails, ShellLost, AgentAnswers, MarkConfigDirty, Torn
<1>2. CASE Sweep \/ NextPart \/ RunStep \/ Start \/ StartDown \/ StartScript \/ Resume
  BY <1>2 DEF Sweep, NextPart, RunStep, Start, StartDown, StartScript, Resume
<1>3. CASE EndScript \/ StartTeardown \/ EndCommand \/ Interrupt \/ Crash
  BY <1>3 DEF EndScript, StartTeardown, EndCommand, Interrupt, Crash, Torn
<1>4. CASE DeletionEnds \/ PlatformPlugs \/ UNCHANGED vars
  BY <1>4 DEF DeletionEnds, PlatformPlugs, vars
<1> QED BY <1>1, <1>2, <1>3, <1>4, NextSteps

\* Every step keeps what a marked file means.
LEMMA NextErased ==
    ASSUME Plan, Memory, Rooted(cloud), Record, Remaining, Erased, [Next]_vars
    PROVE  Erased'
<1>0. Marked /\ Covered
  BY DEF Record
<1>1. CASE SaveOk
  <2>1. MustSave /\ rs' = Remembered /\ cloud' = cloud /\ file'.state = Remembered /\ todo # <<>>
    BY <1>1 DEF SaveOk, MustSave, Doing
  <2>2. ~rs.done
    BY <1>0, <2>1 DEF Marked, Ended
  <2>3. CASE Head(todo)[1] # "done"
    <3>1. ~file'.state.done
      BY <2>1, <2>2, <2>3, RecsKept
    <3> QED BY <3>1 DEF Erased
  <2>4. CASE Head(todo)[1] = "done"
    <3>1. Down /\ ~failed /\ part = 8 /\ todo = << <<"done">> >>
      BY <2>1, <2>4, SaveWhen
    <3>2. Remembered.recs = rs.recs
      BY <2>4 DEF Remembered, Memory, State
    <3>3. \A x \in cloud.live : /\ Kind[x] \notin {"server", "port", "subnet"}
                                /\ x \in rs.recs => Kind[x] = "project"
      BY <1>0, <3>1, EverythingGone
    <3> QED BY <2>1, <3>2, <3>3 DEF Erased
  <2> QED BY <2>3, <2>4
<1>2. CASE file' = Torn
  BY <1>2 DEF Erased, Torn, NoState
<1>3. CASE file' = file
  <2> SUFFICES ASSUME file.state.done, NEW x \in cloud'.live
               PROVE  /\ Kind[x] \notin {"server", "port", "subnet"}
                      /\ x \in file.state.recs => Kind[x] = "project"
    BY <1>3 DEF Erased
  <2>1. todo = <<>>
    BY <1>0 DEF Marked, Ended, Plan
  <2>2. \A y \in cloud'.live : Kind[y] # "port" => y \in cloud.live
    BY <2>1, DownGains
  <2>3. Kind[x] # "port"
    <3> SUFFICES ASSUME Kind[x] = "port" PROVE FALSE
      OBVIOUS
    <3>1. Rooted(cloud')
      BY NextRooted
    <3>2. Parent[x] \in cloud'.live /\ x \in Resources
      BY <3>1 DEF Rooted, CloudType
    <3>3. Kind[Parent[x]] = "subnet"
      BY <3>2, TopologyAssumption DEF Of
    <3>4. Parent[x] \in cloud.live
      BY <2>2, <3>2, <3>3
    <3> QED BY <3>3, <3>4 DEF Erased
  <2>4. x \in cloud.live
    BY <2>2, <2>3
  <2> QED BY <2>4 DEF Erased
<1> QED BY <1>1, <1>2, <1>3, FileSteps

\* A file marked as torn down means that nothing it records, and nothing a
\* sweep would find, is alive (RunState.TornDown).
THEOREM TornDownIsGone == Spec => []TornDownMeansGone
<1>1. Init => Remaining /\ Erased
  BY DEF Init, Remaining, Erased, Down, NoState
<1>2. Plan /\ Memory /\ Rooted(cloud) /\ Record /\ (Remaining /\ Erased) /\ [Next]_vars => (Remaining /\ Erased)'
  BY NextRemaining, NextErased DEF Record
<1>3. Memory /\ Rooted(cloud) /\ Erased => TornDownMeansGone
  <2> SUFFICES ASSUME Rooted(cloud), Erased, file.state.done,
                      NEW x \in Owned, x \in file.state.recs \cup Swept(file.state.recs)
               PROVE  FALSE
    BY DEF TornDownMeansGone
  <2>1. x \in cloud.live /\ x \in Resources /\ Kind[x] # "project"
    BY DEF Owned, Rooted, CloudType, Projects, Of
  <2>2. x \in Swept(file.state.recs) => Kind[x] \in {"server", "port", "subnet"}
    BY DEF Swept, Servers, NetworkPorts, Subnets, Of
  <2> QED BY <2>1, <2>2 DEF Erased
<1> QED BY <1>1, <1>2, <1>3, PlanInvariant, MemoryInvariant, CloudStaysRooted, RecordCovers, PTL DEF Spec

(***************************************************************************)
(* The type invariant                                                      *)
(***************************************************************************)
\* Every operation of s has a known verb.
Verbed(s) == \A i \in DOMAIN s : s[i][1] \in Verbs

\* Sequences of known operations have known verbs.
LEMMA SeqVerbed ==
    ASSUME NEW E, \A op \in E : op[1] \in Verbs, NEW s \in Seq(E)
    PROVE  Verbed(s)
<1>1. DOMAIN s = 1..Len(s) /\ \A i \in 1..Len(s) : s[i] \in E
  BY LenProperties
<1> QED BY <1>1 DEF Verbed

\* The sequences that are written out.
LEMMA ShortSeqs ==
    ASSUME NEW S, NEW a \in S, NEW b \in S, NEW c \in S, NEW d \in S, NEW e \in S
    PROVE  /\ <<a>> \in Seq(S) /\ <<a, b>> \in Seq(S) /\ <<a, b, c>> \in Seq(S)
           /\ <<a, b, c, d>> \in Seq(S) /\ <<a, b, c, d, e>> \in Seq(S)
OBVIOUS

\* What the agent's operations leave to do, at any point, is made of them.
LEMMA AgentTodos ==
    ASSUME todo \in Shapes \cup Resting
    PROVE  todo \in Seq(Bare(AgentVerbs))
<1> DEFINE B == Bare(AgentVerbs)
<1>1. /\ <<"set">> \in B /\ <<"patch">> \in B /\ <<"putback">> \in B /\ <<"restart">> \in B
      /\ <<"hup">> \in B /\ <<"baseline">> \in B /\ <<"ready">> \in B /\ <<"mark">> \in B
      /\ <<"settle">> \in B
  BY DEF Bare, AgentVerbs, Shell
<1> HIDE DEF B
<1>2. RestartSet \in Seq(B) /\ << <<"set">>, <<"mark">>, <<"restart">>, <<"ready">> >> \in Seq(B)
  BY <1>1, ShortSeqs DEF RestartSet
<1>3. ReloadSet \in Seq(B)
  BY <1>1, ShortSeqs DEF ReloadSet
<1>4. << <<"mark">>, <<"restart">>, <<"ready">> >> \in Seq(B) /\ << <<"mark">>, <<"hup">> >> \in Seq(B)
  BY <1>1, ShortSeqs
<1>5. RestartRestore \in Seq(B) /\ << <<"putback">>, <<"settle">>, <<"restart">>, <<"ready">> >> \in Seq(B)
  BY <1>1, ShortSeqs DEF RestartRestore
<1>6. << <<"settle">>, <<"restart">>, <<"ready">> >> \in Seq(B)
  BY <1>1, ShortSeqs
<1>7. /\ << <<"restart">>, <<"ready">> >> \in Seq(B) /\ << <<"ready">> >> \in Seq(B)
      /\ << <<"hup">> >> \in Seq(B) /\ <<>> \in Seq(B)
  BY <1>1, ShortSeqs
<1> SUFFICES todo \in Seq(B)
  BY DEF B
<1> QED BY <1>2, <1>3, <1>4, <1>5, <1>6, <1>7, Zenon
        DEF Shapes, Setting, Patching, Marking, Restoring, Settling, Resting

\* What is left to do has known verbs, in every phase.
LEMMA TodoVerbed == ASSUME Plan PROVE Verbed(todo)
<1>1. /\ \A op \in ProjectOps \cup NetworkOps \cup SubnetOps : op[1] \in Verbs
      /\ \A op \in LateOps : op[1] \in Verbs
      /\ \A op \in PlainOps : op[1] \in Verbs
      /\ \A op \in DownOps : op[1] \in Verbs
  BY OpVerbs DEF Makes, Verbs, Calls, Saves, Shell
<1>2. Verbed(<<>>)
  BY DEF Verbed
<1>8. \A op \in Bare(AgentVerbs) : op[1] \in Verbs
  BY DEF Bare, Verbs, AgentVerbs
<1>3. CASE mode = "idle" \/ (failed /\ ~Down)
  <2>1. todo = <<>> \/ todo = << <<"start">> >>
    BY <1>3 DEF Plan, Halted
  <2>2. << <<"start">> >> \in Seq(Bare(AgentVerbs))
    BY DEF Bare, AgentVerbs, Shell
  <2> QED BY <1>2, <1>8, <2>1, <2>2, SeqVerbed
<1>4. CASE mode = "realize" /\ ~failed
  <2>1. UpTodo /\ part \in 0..11
    BY <1>4 DEF Plan
  <2>2. \/ todo = <<>> \/ todo \in Seq(ProjectOps) \/ todo \in Seq(NetworkOps) \/ todo \in Seq(SubnetOps)
        \/ todo \in Seq(LateOps)
    <3>1. part = 0 \/ part = 1 \/ part = 2 \/ part = 3 \/ part > 3
      BY <2>1
    <3> QED BY <2>1, <3>1 DEF UpTodo, Rests
  <2> QED BY <1>1, <1>2, <2>2, SeqVerbed
<1>5. CASE mode = "script" /\ ~failed
  <2>1. CASE todo \in Rests(PlainOps)
    <3>1. todo \in Seq(PlainOps)
      BY <2>1 DEF Rests
    <3> QED BY <1>1, <3>1, SeqVerbed
  <2>2. CASE todo \in Setting \cup Patching \cup Marking \cup Restoring \cup Settling
    <3>1. todo \in Seq(Bare(AgentVerbs))
      BY <2>2, AgentTodos DEF Shapes
    <3> QED BY <1>8, <3>1, SeqVerbed
  <2>3. CASE \E x \in Of("fip", Resources) : todo \in Forgetting(x)
    <3>1. PICK x \in Of("fip", Resources) : todo \in Forgetting(x)
      BY <2>3
    <3> DEFINE S == {"need", "delete", "forget"} \X {x}
    <3>4. <<"need", x>> \in S /\ <<"delete", x>> \in S /\ <<"forget", x>> \in S
      OBVIOUS
    <3>2. todo \in Seq({"need", "delete", "forget"} \X {x})
      <4> HIDE DEF S
      <4>1. /\ DeleteFIP(x) \in Seq(S) /\ << <<"delete", x>>, <<"forget", x>> >> \in Seq(S)
            /\ << <<"forget", x>> >> \in Seq(S)
        BY <3>4, ShortSeqs DEF DeleteFIP
      <4>2. todo \in Seq(S)
        BY <3>1, <4>1, Zenon DEF Forgetting
      <4> QED BY <4>2 DEF S
    <3>3. \A op \in {"need", "delete", "forget"} \X {x} : op[1] \in Verbs
      BY DEF Verbs, Calls, Saves
    <3> QED BY <3>2, <3>3, SeqVerbed
  <2> QED BY <1>5, <2>1, <2>2, <2>3 DEF Plan, ScriptTodo
<1>6. CASE mode = "restore" /\ ~failed
  <2>1. todo \in Restoring \cup Settling \cup Resting
    BY <1>6 DEF Plan
  <2>2. todo \in Seq(Bare(AgentVerbs))
    BY <2>1, AgentTodos DEF Shapes
  <2> QED BY <1>8, <2>2, SeqVerbed
<1>7. CASE Down
  <2>1. part \in 0..8 /\ DownTodo
    BY <1>7 DEF Plan
  <2>2. todo \in Seq(DownOps) \/ todo = <<>> \/ todo = << <<"done">> >>
    BY <2>1 DEF DownTodo
  <2>3. << <<"done">> >> \in Seq(Bare({"done"})) /\ \A op \in Bare({"done"}) : op[1] \in Verbs
    BY DEF Bare, Verbs, Saves
  <2> QED BY <1>1, <1>2, <2>2, <2>3, SeqVerbed
<1> QED BY <1>3, <1>4, <1>5, <1>6, <1>7 DEF Plan, Down

\* Every variable keeps its type, whatever the commands, the cloud and the
\* faults do.
THEOREM TypeCorrect == Spec => []TypeOK
<1>1. Plan /\ Memory /\ Rooted(cloud) => TypeOK
  <2> SUFFICES ASSUME Plan, Memory, Rooted(cloud) PROVE TypeOK
    OBVIOUS
  <2>1. mode \in {"idle", "realize", "script", "restore", "teardown", "down"} /\ part \in 0..20
    BY DEF Plan, Down
  <2>2. \A i \in DOMAIN todo : todo[i][1] \in Verbs
    BY TodoVerbed DEF Verbed
  <2>3. {failed, dirty} \subseteq BOOLEAN /\ {file.there, file.torn} \subseteq BOOLEAN
    BY DEF Memory, FileOK
  <2>4. rs.recs \subseteq Resources /\ rs.done \in BOOLEAN /\ file.state.recs \subseteq Resources
    BY DEF Memory, FileOK, State
  <2>5. stops \in 0..2 /\ script \in Scripts \cup {<<>>} /\ Len(steps) <= Len(script)
    BY DEF Memory, Plan, StepsLeft
  <2>6. cloud.dying \subseteq cloud.live /\ cloud.live \subseteq Resources /\ cloud.routed \subseteq cloud.live
    BY DEF Rooted, CloudType
  <2>7. agent \in AgentType
    BY DEF Memory
  <2> QED BY <2>1, <2>2, <2>3, <2>4, <2>5, <2>6, <2>7 DEF TypeOK, AgentType
<1> QED BY <1>1, PlanInvariant, MemoryInvariant, CloudStaysRooted, PTL DEF Spec
=============================================================================
