------------------------ MODULE NetlinkAttachProofs ------------------------
(***************************************************************************)
(* Proofs about NetlinkAttach for any names, any number of links, starts   *)
(* and faults, any depth of the event channel, with the periodic sweep or  *)
(* without.                                                                *)
(*                                                                         *)
(* The argument.  While no event is missing, what the registry gets wrong  *)
(* the queue still has to say: a wanted link without filters has its       *)
(* creation queued, and a name registered for nobody has a deletion        *)
(* queued.  Names are reused, so order matters: the deletion of a name's   *)
(* earlier bearer is always queued ahead of the creation of the living     *)
(* one.  A sweep builds the same relation for the list it is about to make *)
(* the registry, whatever was lost before it.                              *)
(***************************************************************************)
EXTENDS NetlinkAttach, FiniteSetTheorems, SequenceTheorems, TLAPS

\* The creation of link i waits at position k of the queue.
NewAt(k, i) == queue[k].op = "new" /\ queue[k].link = i
\* So does the deletion of a wanted link named n.
DelAt(k, n) == queue[k].op = "del" /\ ShouldAttach(queue[k].link) /\ Name(queue[k].link) = n

Pending(i) == \E k \in 1..Len(queue) : NewAt(k, i)
DelPending(n) == \E k \in 1..Len(queue) : DelAt(k, n)

\* Every queued deletion of link i's name comes before i's creation.
Ordered(i) ==
    \A k \in 1..Len(queue) : DelAt(k, Name(i)) => \E j \in k+1..Len(queue) : NewAt(j, i)

\* Every wanted link is served by the names R, or will be by a queued event or
\* a visit of the sweep to T.
Covered(R, T) ==
    \A i \in Watched \ hurt : Pending(i) \/ i \in T \/ (tc[i] = Whole /\ Name(i) \in R)

\* Every name of R is borne by a link that is served, or its deletion is queued.
Honest(R) ==
    \A n \in R : \/ DelPending(n)
                 \/ \E i \in Watched : Name(i) = n /\ (HasTelemetry(i) \/ i \in hurt)

\* Living links have different names, and dead ones no filters.
HostInv ==
    /\ \A i, j \in alive : Name(i) = Name(j) => i = j
    /\ \A i \in Index \ alive : tc[i] = Empty

\* A running agent finds no filters but its own on a link it had no trouble with.
FilterInv ==
    mode # "down" => /\ boot # 0
                     /\ \A i \in alive \ hurt : tc[i] \in {Empty, Whole}

OrderInv == Subscribed /\ ~closed => \A i \in alive : Ordered(i)
StartInv == mode = "subscribe" /\ ~blind => registry = {}
StreamInv == mode = "stream" /\ ~closed /\ ~blind => Covered(registry, {}) /\ Honest(registry)
SweepInv ==
    mode = "sweep" => /\ \A i \in todo : ShouldAttach(i)
                      /\ ~closed => Covered(kept, todo) /\ Honest(kept)

\* The inductive invariant.
IInv ==
    /\ TypeOK /\ HostInv /\ FilterInv /\ OrderInv
    /\ StartInv /\ StreamInv /\ SweepInv
-----------------------------------------------------------------------------
(* Sequences.                                                              *)

\* What Append and Tail do to the positions of the queue.
LEMMA AppendAt ==
    ASSUME NEW S, NEW q \in Seq(S), NEW e \in S
    PROVE  /\ Append(q, e) \in Seq(S) /\ Len(Append(q, e)) = Len(q) + 1
           /\ \A k \in 1..Len(q) : Append(q, e)[k] = q[k]
           /\ Append(q, e)[Len(q) + 1] = e
  OBVIOUS

LEMMA TailAt ==
    ASSUME NEW S, NEW q \in Seq(S), q # <<>>
    PROVE  /\ Tail(q) \in Seq(S) /\ Len(Tail(q)) = Len(q) - 1 /\ Len(q) \in Nat \ {0}
           /\ \A k \in 1..Len(q) - 1 : Tail(q)[k] = q[k + 1]
           /\ Head(q) = q[1]
  OBVIOUS
-----------------------------------------------------------------------------
(* Types.                                                                  *)

Links == [name : Names, kind : Kinds]
Events(n) == [op : {"new", "del"}, link : 1..n]

\* An event of an existing link keeps the queue's type.
LEMMA EmitTyped ==
    ASSUME TypeOK, NEW op \in {"new", "del"}, NEW i \in Nat, NEW n \in Nat,
           Made <= n, i \in 1..n, Emit(op, i)
    PROVE  queue' \in Seq(Events(n)) /\ closed' \in BOOLEAN
<1>1. queue \in Seq(Events(Made)) /\ Made \in Nat
  BY DEF TypeOK, Events, Made
<1>2. queue \in Seq(Events(n))
  <2>1. Events(Made) \subseteq Events(n)
    BY <1>1 DEF Events
  <2> QED BY <1>1, <2>1, SeqMonotonic
<1>3. [op |-> op, link |-> i] \in Events(n)
  BY DEF Events
<1>4. Append(queue, [op |-> op, link |-> i]) \in Seq(Events(n))
  BY <1>2, <1>3, AppendAt
<1> QED BY <1>2, <1>4 DEF Emit, TypeOK

\* The host's steps keep the types.
LEMMA HostTypeOK ==
    ASSUME TypeOK, Host
    PROVE  TypeOK'
<1> USE NetlinkAssumption
<1>0. Made \in Nat /\ Made <= MaxLinks /\ alive \subseteq 1..Made /\ 1..Made \subseteq Index
  BY DEF TypeOK, Made, Index
<1>e. Empty \in [Hooks -> 0..MaxBoots]
  BY DEF Empty
<1>1. ASSUME NEW n \in Names, NEW k \in Kinds, CreateLink(n, k)
      PROVE  TypeOK'
  <2>1. iface \in Seq(Links) /\ [name |-> n, kind |-> k] \in Links
    BY DEF TypeOK, Links
  <2>2. iface' \in Seq(Links) /\ Made' = Made + 1 /\ Made < MaxLinks
    BY <1>1, <2>1, AppendAt DEF CreateLink, Made
  <2>3. queue' \in Seq(Events(Made + 1)) /\ closed' \in BOOLEAN
    BY <1>0, <1>1, EmitTyped DEF CreateLink
  <2>4. /\ alive' \subseteq 1..Made' /\ todo' \subseteq 1..Made'
        /\ Made' <= MaxLinks
    BY <1>0, <1>1, <2>2 DEF CreateLink, agentVars, sweepVars, TypeOK
  <2> QED BY <1>1, <2>2, <2>3, <2>4 DEF TypeOK, Links, Events, CreateLink, agentVars, sweepVars
<1>2. ASSUME NEW i \in alive, DeleteLink(i)
      PROVE  TypeOK'
  <2>1. Made' = Made /\ queue' \in Seq(Events(Made)) /\ closed' \in BOOLEAN
    BY <1>0, <1>2, EmitTyped DEF DeleteLink, Made
  <2>2. tc' \in [Index -> [Hooks -> 0..MaxBoots]]
    BY <1>2, <1>e DEF DeleteLink, TypeOK
  <2> QED BY <1>2, <2>1, <2>2 DEF TypeOK, Events, DeleteLink, agentVars, sweepVars
<1>3. ASSUME NEW i \in alive, RemoveFilters(i)
      PROVE  TypeOK'
  <2>1. tc' \in [Index -> [Hooks -> 0..MaxBoots]] /\ hurt' \subseteq Index
    BY <1>0, <1>3, <1>e DEF RemoveFilters, TypeOK
  <2>2. faults' \in 0..MaxFaults
    BY <1>3 DEF RemoveFilters, Fault, TypeOK
  <2> QED BY <1>3, <2>1, <2>2 DEF TypeOK, Made, RemoveFilters, hostVars, agentVars, sweepVars
<1>5. ASSUME NEW i \in 1..Made, Announce(i)
      PROVE  TypeOK'
  <2>1. Made' = Made /\ queue' \in Seq(Events(Made)) /\ closed' \in BOOLEAN
    BY <1>0, <1>5, EmitTyped DEF Announce, Made, hostVars
  <2> QED BY <1>5, <2>1 DEF TypeOK, Events, Announce, hostVars, agentVars, sweepVars
<1>4. CASE SocketDies
  BY <1>4 DEF TypeOK, Made, SocketDies, Fault, hostVars, agentVars, sweepVars
<1> QED BY <1>1, <1>2, <1>3, <1>4, <1>5 DEF Host

\* What an attach writes is a filter of this start, or none.
LEMMA AttachTyped ==
    ASSUME TypeOK, NEW i \in 1..Made, Attach(i) \/ AttachFails(i)
    PROVE  /\ tc' \in [Index -> [Hooks -> 0..MaxBoots]] /\ hurt' \subseteq Index
           /\ faults' \in 0..MaxFaults
<1> USE NetlinkAssumption
<1>0. i \in Index /\ 0 \in 0..MaxBoots /\ boot \in 0..MaxBoots /\ tc[i] \in [Hooks -> 0..MaxBoots]
  BY DEF TypeOK, Index, Made
<1>1. CASE Attach(i)
  BY <1>0, <1>1 DEF Attach, TypeOK, Whole
<1>2. CASE AttachFails(i)
  <2>1. \E f \in [Hooks -> 0..MaxBoots] : tc' = [tc EXCEPT ![i] = f]
    <3>1. [tc[i] EXCEPT !["in"] = 0] \in [Hooks -> 0..MaxBoots]
      BY <1>0
    <3>2. [tc[i] EXCEPT !["in"] = boot] \in [Hooks -> 0..MaxBoots]
      BY <1>0
    <3> QED BY <1>0, <1>2, <3>1, <3>2 DEF AttachFails
  <2> QED BY <1>0, <1>2, <2>1 DEF AttachFails, Fault, TypeOK
<1> QED BY <1>1, <1>2
\* A replay is a sequence of creations of living links.
LEMMA ReplayTyped ==
    ASSUME TypeOK, NEW q \in Replays
    PROVE  /\ q \in Seq(Events(Made))
           /\ \A k \in 1..Len(q) : q[k].op = "new"
           /\ \A i \in alive : \E k \in 1..Len(q) : q[k].op = "new" /\ q[k].link = i
<1>1. IsFiniteSet(alive) /\ Cardinality(alive) \in Nat
  <2>1. IsFiniteSet(1..Made) /\ alive \in SUBSET (1..Made)
    BY FS_Interval DEF TypeOK, Made
  <2> QED BY <2>1, FS_Subset, FS_CardinalityType
<1>2. /\ q \in [1..Cardinality(alive) -> [op : {"new"}, link : alive]]
      /\ \A i \in alive : \E k \in DOMAIN q : q[k].link = i
  BY DEF Replays
<1>3. q \in [1..Cardinality(alive) -> Events(Made)]
  <2>1. [op : {"new"}, link : alive] \subseteq Events(Made)
    BY DEF TypeOK, Events
  <2> QED BY <1>2, <2>1
<1>4. q \in Seq(Events(Made)) /\ Len(q) = Cardinality(alive)
  BY <1>1, <1>3, SeqDef
<1> QED BY <1>2, <1>4

\* The agent's steps keep the types.
LEMMA AgentTypeOK ==
    ASSUME TypeOK, Agent \/ Stop
    PROVE  TypeOK'
<1> USE NetlinkAssumption
<1>0. Made \in Nat /\ Made <= MaxLinks /\ alive \subseteq 1..Made /\ 1..Made \subseteq Index
  BY DEF TypeOK, Made, Index
<1>n. \A i \in 1..Made : Name(i) \in Names
  <2>1. \A i \in 1..Made : iface[i] \in [name : Names, kind : Kinds]
    BY ElementOfSeq DEF TypeOK, Made
  <2> QED BY <2>1 DEF Name
<1>1. ASSUME NEW spare \in SUBSET Filters, Boot(spare)
      PROVE  TypeOK'
  <2>1. hurt' \subseteq Index
    <3>1. \A f \in spare : f[1] \in alive
      BY DEF Filters
    <3>2. {f[1] : f \in spare} \subseteq Index
      BY <1>0, <3>1
    <3>3. hurt \subseteq Index /\ hurt' = hurt \cup {f[1] : f \in spare}
      BY <1>1 DEF Boot, TypeOK
    <3> QED BY <3>2, <3>3
  <2>2. tc' \in [Index -> [Hooks -> 0..MaxBoots]]
    BY <1>1 DEF Boot, Hunt, TypeOK
  <2>3. faults' \in 0..MaxFaults /\ boot' \in 0..MaxBoots
    BY <1>1 DEF Boot, Fault, TypeOK
  <2>4. /\ UNCHANGED <<iface, alive, queue, closed, todo, kept, bad>> /\ Made' = Made
        /\ mode' = "subscribe" /\ first' = FALSE /\ blind' = FALSE
        /\ registry' = {} /\ failing' = {} /\ skipped' = {}
    BY <1>1 DEF Boot, hostVars, Made
  <2> QED BY <2>1, <2>2, <2>3, <2>4 DEF TypeOK
<1>2. CASE Stop
  <2>1. queue' \in Seq(Events(Made)) /\ closed' \in BOOLEAN
    BY <1>2, EmptySeq DEF Stop
  <2> QED BY <1>2, <2>1 DEF TypeOK, Made, Events, Stop, hostVars, sweepVars
<1>3. CASE Subscribe
  <2>1. queue' \in Seq(Events(Made)) /\ closed' \in BOOLEAN
    BY <1>3, ReplayTyped DEF Subscribe
  <2>2. UNCHANGED <<hostVars, tc, hurt, blind>> /\ faults' \in 0..MaxFaults
    BY <1>3 DEF Subscribe, TypeOK, Fault
  <2>3. CASE StartSweep
    BY <1>0, <2>1, <2>2, <2>3 DEF StartSweep, TypeOK, Made, Events, hostVars
  <2>4. CASE SkipSweep
    BY <2>1, <2>2, <2>4 DEF SkipSweep, TypeOK, Made, Events, hostVars, sweepVars
  <2> QED BY <1>3, <2>3, <2>4 DEF Subscribe
<1>4. CASE Lost
  BY <1>4 DEF TypeOK, Made, Lost, hostVars, sweepVars
<1>5. ASSUME NEW op \in {"new", "del"}, Take(op)
      PROVE  /\ queue' \in Seq(Events(Made)) /\ Now \in 1..Made
             /\ UNCHANGED <<hostVars, closed, mode, first, sweepVars, boot, blind>>
  <2>1. queue \in Seq(Events(Made)) /\ queue # <<>> /\ queue' = Tail(queue)
    BY <1>5 DEF Take, TypeOK, Events
  <2>2. queue[1] \in Events(Made)
    BY <2>1
  <2> QED BY <1>5, <2>1, <2>2, TailAt DEF Take, Now, Events
<1>6. ASSUME NEW op \in {"new", "del"}, HandleRefused(op)
      PROVE  TypeOK'
  BY <1>5, <1>6, <1>n DEF HandleRefused, TypeOK, Made, Events, hostVars, sweepVars
<1>7. CASE OnKnownLink
  BY <1>5, <1>7 DEF OnKnownLink, TypeOK, Made, Events, hostVars, sweepVars
<1>8. CASE OnNewLink
  <2>1. /\ tc' \in [Index -> [Hooks -> 0..MaxBoots]] /\ hurt' \subseteq Index
        /\ faults' \in 0..MaxFaults
    BY <1>5, <1>8, AttachTyped DEF OnNewLink, TypeOK
  <2>2. registry' \subseteq Names /\ skipped' = skipped
    BY <1>5, <1>8, <1>n DEF OnNewLink, TypeOK
  <2> QED BY <1>5, <1>8, <2>1, <2>2 DEF OnNewLink, TypeOK, Made, Events, hostVars, sweepVars
<1>9. CASE OnDelLink
  BY <1>5, <1>9 DEF OnDelLink, TypeOK, Made, Events, hostVars, sweepVars
<1>10. CASE Tick
  BY <1>0, <1>10 DEF Tick, StartSweep, TypeOK, Made, hostVars
<1>11. CASE EndSweep
  BY <1>11 DEF EndSweep, TypeOK, Made, hostVars
<1>12. ASSUME NEW i \in todo, Visit(i)
       PROVE  TypeOK'
  <2>0. i \in 1..Made /\ i \in Index
    BY <1>0 DEF TypeOK
  <2>1. /\ tc' \in [Index -> [Hooks -> 0..MaxBoots]] /\ hurt' \subseteq Index
        /\ faults' \in 0..MaxFaults
    <3>1. CASE Attach(i) \/ AttachFails(i)
      BY <2>0, <3>1, AttachTyped
    <3>2. CASE Fault /\ hurt' = hurt \cup {i} /\ UNCHANGED tc
      BY <2>0, <3>2 DEF Fault, TypeOK
    <3>3. CASE UNCHANGED <<tc, faults, hurt>>
      BY <3>3 DEF TypeOK
    <3> QED BY <1>12, <3>1, <3>2, <3>3 DEF Visit
  <2>2. kept' \subseteq Names /\ bad' \subseteq Names /\ todo' \subseteq 1..Made
    BY <1>12, <1>n, <2>0 DEF Visit, TypeOK
  <2> QED BY <1>12, <2>1, <2>2 DEF Visit, TypeOK, Made, hostVars
<1> QED BY <1>1, <1>2, <1>3, <1>4, <1>6, <1>7, <1>8, <1>9, <1>10, <1>11, <1>12 DEF Agent
-----------------------------------------------------------------------------
(* The queue.                                                              *)

\* What is asked of the queue depends on the links and the queue alone.
LEMMA SameQueue ==
    ASSUME UNCHANGED <<iface, queue>>
    PROVE  /\ \A i : Pending(i)' <=> Pending(i)
           /\ \A n : DelPending(n)' <=> DelPending(n)
           /\ \A i : Ordered(i)' <=> Ordered(i)
  BY DEF Pending, DelPending, Ordered, NewAt, DelAt, ShouldAttach, Name

\* An appended event comes last; the earlier links keep their names.
LEMMA Appended ==
    ASSUME TypeOK, NEW op, NEW i, queue' = Append(queue, [op |-> op, link |-> i]),
           \A j \in 1..Made : iface'[j] = iface[j]
    PROVE  /\ \A j : Pending(j) => Pending(j)'
           /\ \A n : DelPending(n) => DelPending(n)'
           /\ op = "new" => Pending(i)' /\ Ordered(i)'
           /\ op = "del" /\ ShouldAttach(i)' => DelPending(Name(i))'
           /\ \A j \in 1..Made :
                 Ordered(j) /\ (op = "new" \/ (op = "del" /\ iface'[i].name # iface[j].name))
                     => Ordered(j)'
<1> USE DEF Name
<1>1. queue \in Seq(Events(Made)) /\ Made \in Nat /\ Len(queue) \in Nat
  BY LenProperties DEF TypeOK, Events, Made
<1>2. /\ Len(queue') = Len(queue) + 1 /\ queue'[Len(queue) + 1] = [op |-> op, link |-> i]
      /\ \A k \in 1..Len(queue) : queue'[k] = queue[k]
  <2> DEFINE S == Events(Made) \cup {[op |-> op, link |-> i]}
  <2>1. queue \in Seq(S)
    BY <1>1, SeqMonotonic
  <2> QED BY <2>1, AppendAt
<1>3. \A k \in 1..Len(queue) : queue[k].link \in 1..Made
  <2>1. \A k \in 1..Len(queue) : queue[k] \in Events(Made)
    BY <1>1, ElementOfSeq
  <2> QED BY <2>1 DEF Events
<1>4. \A k \in 1..Len(queue) : /\ \A j : NewAt(k, j)' <=> NewAt(k, j)
                               /\ \A n : DelAt(k, n)' <=> DelAt(k, n)
  BY <1>2, <1>3 DEF NewAt, DelAt, ShouldAttach, Name
<1>a. PICK last \in Nat : last = Len(queue) + 1
  BY <1>1
<1>5. last \in 1..Len(queue') /\ 1..Len(queue) \subseteq 1..Len(queue')
  BY <1>1, <1>2, <1>a
<1>6. \A k \in 1..Len(queue') : k \in 1..Len(queue) \/ k = last
  BY <1>1, <1>2, <1>a
<1>7. /\ op = "new" => NewAt(last, i)' /\ \A n : ~DelAt(last, n)'
      /\ op = "del" => \A n : DelAt(last, n)' <=> (ShouldAttach(i)' /\ iface'[i].name = n)
  BY <1>2, <1>a DEF NewAt, DelAt
<1>8. \A j : Pending(j) => Pending(j)'
  BY <1>4, <1>5 DEF Pending
<1>9. \A n : DelPending(n) => DelPending(n)'
  BY <1>4, <1>5 DEF DelPending
<1>10. op = "new" => Pending(i)' /\ Ordered(i)'
  <2> SUFFICES ASSUME op = "new" PROVE Pending(i)' /\ Ordered(i)'
    OBVIOUS
  <2>1. NewAt(last, i)'
    BY <1>7
  <2>2. ASSUME NEW k \in 1..Len(queue'), DelAt(k, Name(i))'
        PROVE  \E j \in k+1..Len(queue') : NewAt(j, i)'
    <3>1. k \in 1..Len(queue)
      BY <1>6, <1>7, <2>2
    <3>2. last \in k+1..Len(queue')
      BY <1>1, <1>2, <3>1, <1>a
    <3> QED BY <2>1, <3>2
  <2> QED BY <1>5, <2>1, <2>2 DEF Pending, Ordered
<1>11. op = "del" /\ ShouldAttach(i)' => DelPending(Name(i))'
  BY <1>5, <1>7 DEF DelPending, Name
<1>12. ASSUME NEW j \in 1..Made, Ordered(j),
              op = "new" \/ (op = "del" /\ iface'[i].name # iface[j].name)
       PROVE  Ordered(j)'
  <2>1. Name(j)' = Name(j) /\ Name(j) = iface[j].name
    BY DEF Name
  <2>2. ASSUME NEW k \in 1..Len(queue'), DelAt(k, Name(j))'
        PROVE  \E m \in k+1..Len(queue') : NewAt(m, j)'
    <3>1. k \in 1..Len(queue)
      BY <1>6, <1>7, <1>12, <2>1, <2>2
    <3>2. DelAt(k, Name(j))
      BY <1>4, <2>1, <2>2, <3>1
    <3>3. PICK m \in k+1..Len(queue) : NewAt(m, j)
      BY <1>12, <3>1, <3>2 DEF Ordered
    <3>4. m \in 1..Len(queue) /\ m \in k+1..Len(queue')
      BY <1>1, <1>2, <3>1
    <3> QED BY <1>4, <3>3, <3>4
  <2> QED BY <2>2 DEF Ordered
<1> QED BY <1>8, <1>9, <1>10, <1>11, <1>12
\* When the first event is taken the others move up; a creation follows the
\* deletions of its name.
LEMMA Taken ==
    ASSUME TypeOK, queue # <<>>, queue' = Tail(queue), UNCHANGED iface
    PROVE  /\ \A j : Pending(j) => Pending(j)' \/ NewAt(1, j)
           /\ \A n : DelPending(n) => DelPending(n)' \/ DelAt(1, n)
           /\ \A j : Ordered(j) => Ordered(j)' /\ (DelAt(1, Name(j)) => Pending(j)')
<1>1. queue \in Seq(Events(Made))
  BY DEF TypeOK, Events
<1>2. /\ Len(queue) \in Nat \ {0} /\ Len(queue') = Len(queue) - 1
      /\ \A k \in 1..Len(queue') : queue'[k] = queue[k + 1]
  BY <1>1, TailAt
<1>3. \A k \in 1..Len(queue') : /\ \A j : NewAt(k, j)' <=> NewAt(k + 1, j)
                                /\ \A n : DelAt(k, n)' <=> DelAt(k + 1, n)
  BY <1>2 DEF NewAt, DelAt, ShouldAttach, Name
<1>4. \A k \in 1..Len(queue) : k = 1 \/ (k - 1 \in 1..Len(queue') /\ (k - 1) + 1 = k)
  BY <1>2
<1>5. ASSUME NEW j, Pending(j), ~NewAt(1, j) PROVE Pending(j)'
  <2>1. PICK k \in 1..Len(queue) : NewAt(k, j) /\ k # 1
    BY <1>5 DEF Pending
  <2>2. PICK m \in 1..Len(queue') : m + 1 = k
    BY <1>4, <2>1
  <2> QED BY <1>3, <2>1, <2>2 DEF Pending
<1>6. ASSUME NEW n, DelPending(n), ~DelAt(1, n) PROVE DelPending(n)'
  <2>1. PICK k \in 1..Len(queue) : DelAt(k, n) /\ k # 1
    BY <1>6 DEF DelPending
  <2>2. PICK m \in 1..Len(queue') : m + 1 = k
    BY <1>4, <2>1
  <2> QED BY <1>3, <2>1, <2>2 DEF DelPending
<1>7. ASSUME NEW j, Ordered(j) PROVE Ordered(j)' /\ (DelAt(1, Name(j)) => Pending(j)')
  <2> USE DEF Name
  <2>1. ASSUME NEW k \in 1..Len(queue'), DelAt(k, Name(j))'
        PROVE  \E m \in k+1..Len(queue') : NewAt(m, j)'
    <3>1. DelAt(k + 1, Name(j)) /\ k + 1 \in 1..Len(queue)
      BY <1>2, <1>3, <2>1
    <3>2. PICK q \in (k + 1) + 1..Len(queue) : NewAt(q, j)
      BY <1>7, <3>1 DEF Ordered
    <3>3. PICK m \in k+1..Len(queue') : m + 1 = q
      BY <1>2, <3>1, <3>2
    <3>4. m \in 1..Len(queue')
      BY <1>2, <3>3
    <3> QED BY <1>3, <3>2, <3>3, <3>4
  <2>2. ASSUME DelAt(1, Name(j)) PROVE Pending(j)'
    <3>1. PICK q \in 1 + 1..Len(queue) : NewAt(q, j)
      BY <1>2, <1>7, <2>2 DEF Ordered
    <3>2. PICK m \in 1..Len(queue') : m + 1 = q
      BY <1>2, <3>1
    <3> QED BY <1>3, <3>1, <3>2 DEF Pending
  <2> QED BY <2>1, <2>2 DEF Ordered
<1> QED BY <1>5, <1>6, <1>7

-----------------------------------------------------------------------------
(* The invariant, action by action.                                        *)

\* A fresh link has no filters, and its creation is announced.
LEMMA CreateStep ==
    ASSUME IInv, NEW n \in Names, NEW k \in Kinds, CreateLink(n, k), TypeOK'
    PROVE  IInv'
<1> USE NetlinkAssumption DEF IInv
<1>0. /\ Made \in Nat /\ Made < MaxLinks /\ alive \subseteq 1..Made /\ Made + 1 \in Index \ alive
      /\ alive' = alive \cup {Made + 1} /\ \A i \in alive : Name(i) # n
  BY DEF TypeOK, Made, Index, CreateLink
<1>1. /\ \A j \in 1..Made : iface'[j] = iface[j]
      /\ iface'[Made + 1].name = n /\ iface'[Made + 1].kind = k
  <2>1. iface \in Seq(Links) /\ [name |-> n, kind |-> k] \in Links
    BY DEF TypeOK, Links
  <2> QED BY <2>1, AppendAt DEF CreateLink, Made
<1>2. /\ UNCHANGED <<tc, faults, hurt, blind, mode, first, registry, skipped,
                     failing, todo, kept, bad, boot>>
      /\ Emit("new", Made + 1)
  BY DEF CreateLink, agentVars, sweepVars
<1>a. PICK new \in Nat : new = Made + 1
  BY <1>0
<1>3. HostInv'
  BY <1>0, <1>1, <1>2, <1>a DEF HostInv, Name, Empty
<1>4. FilterInv'
  BY <1>0, <1>2 DEF FilterInv, HostInv, Empty, Whole
<1>5. StartInv'
  BY <1>0, <1>2 DEF StartInv, Empty
<1>6. \A i \in 1..Made : (ShouldAttach(i)' <=> ShouldAttach(i)) /\ Name(i)' = Name(i)
  BY <1>1 DEF ShouldAttach, Name
<1>7. \A i \in todo : ShouldAttach(i)' <=> ShouldAttach(i)
  BY <1>6 DEF TypeOK
<1>8. CASE ~Subscribed \/ closed'
  BY <1>2, <1>3, <1>4, <1>5, <1>7, <1>8 DEF Subscribed, OrderInv, StreamInv, SweepInv
<1>9. CASE Subscribed /\ ~closed'
  <2>1. ~closed /\ queue' = Append(queue, [op |-> "new", link |-> new])
    BY <1>2, <1>9, <1>a DEF Emit
  <2>2. /\ \A j : Pending(j) => Pending(j)'
        /\ \A m : DelPending(m) => DelPending(m)'
        /\ Pending(new)' /\ Ordered(new)'
        /\ \A j \in 1..Made : Ordered(j) => Ordered(j)'
    BY <1>1, <2>1, Appended
  <2>3. OrderInv'
    BY <1>0, <1>9, <1>a, <2>1, <2>2 DEF OrderInv
  <2>4. \A i \in Watched' : i \in Watched \/ i = new
    BY <1>0, <1>6, <1>a DEF Watched
  <2>5. \A i \in Watched : i \in Watched' /\ i \in 1..Made
    BY <1>0, <1>6 DEF Watched
  <2>6. ASSUME NEW R, NEW T, Covered(R, T)
        PROVE  Covered(R, T)'
    BY <1>2, <1>6, <2>2, <2>4, <2>5, <2>6 DEF Covered, Whole
  <2>7. ASSUME NEW R, Honest(R)
        PROVE  Honest(R)'
    BY <1>2, <1>6, <2>2, <2>5, <2>7 DEF Honest, HasTelemetry
  <2>8. StreamInv' /\ SweepInv'
    BY <1>2, <1>7, <2>1, <2>6, <2>7 DEF StreamInv, SweepInv
  <2> QED BY <1>3, <1>4, <1>5, <2>3, <2>8
<1> QED BY <1>8, <1>9
\* A deletion takes the filters along and is announced.
LEMMA DeleteStep ==
    ASSUME IInv, NEW i \in alive, DeleteLink(i), TypeOK'
    PROVE  IInv'
<1> USE NetlinkAssumption DEF IInv
<1>0. /\ alive \subseteq 1..Made /\ alive \subseteq Index /\ i \in Index
      /\ alive' = alive \ {i}
      /\ tc' = [tc EXCEPT ![i] = Empty] /\ tc \in [Index -> [Hooks -> 0..MaxBoots]]
  BY DEF TypeOK, Made, Index, DeleteLink
<1>1. /\ UNCHANGED <<iface, faults, hurt, blind, mode, first, registry, skipped,
                     failing, todo, kept, bad, boot>>
      /\ Emit("del", i)
  BY DEF DeleteLink, agentVars, sweepVars
<1>2. Empty' = Empty /\ Whole' = Whole
  BY <1>1 DEF Empty, Whole
<1>3. HostInv'
  BY <1>0, <1>1, <1>2 DEF HostInv, Name
<1>4. FilterInv'
  BY <1>0, <1>1, <1>2 DEF FilterInv
<1>5. StartInv'
  BY <1>0, <1>1, <1>2 DEF StartInv
<1>6. \A j : (ShouldAttach(j)' <=> ShouldAttach(j)) /\ Name(j)' = Name(j)
  BY <1>1 DEF ShouldAttach, Name
<1>7. CASE ~Subscribed \/ closed'
  BY <1>1, <1>3, <1>4, <1>5, <1>6, <1>7 DEF Subscribed, OrderInv, StreamInv, SweepInv
<1>8. CASE Subscribed /\ ~closed'
  <2>1. ~closed /\ queue' = Append(queue, [op |-> "del", link |-> i])
    BY <1>1, <1>8 DEF Emit
  <2>2. /\ \A j : Pending(j) => Pending(j)'
        /\ \A m : DelPending(m) => DelPending(m)'
        /\ ShouldAttach(i) => DelPending(Name(i))'
        /\ \A j \in 1..Made : Ordered(j) /\ Name(i) # Name(j) => Ordered(j)'
    BY <1>1, <1>6, <2>1, Appended DEF Name
  <2>3. OrderInv'
    BY <1>0, <1>8, <2>1, <2>2 DEF OrderInv, HostInv
  <2>4. \A j \in Watched' : j \in Watched /\ j # i /\ tc'[j] = tc[j]
    BY <1>0, <1>6 DEF Watched
  <2>5. \A j \in Watched : (j \in Watched' /\ tc'[j] = tc[j]) \/ (j = i /\ ShouldAttach(i))
    BY <1>0, <1>6 DEF Watched
  <2>6. ASSUME NEW R, NEW T, Covered(R, T)
        PROVE  Covered(R, T)'
    BY <1>1, <1>2, <1>6, <2>2, <2>4, <2>6 DEF Covered
  <2>7. ASSUME NEW R, Honest(R)
        PROVE  Honest(R)'
    <3> SUFFICES ASSUME NEW m \in R, ~DelPending(m)'
                 PROVE  \E j \in Watched' : Name(j)' = m /\ (HasTelemetry(j)' \/ j \in hurt')
      BY DEF Honest
    <3>1. PICK j \in Watched : Name(j) = m /\ (HasTelemetry(j) \/ j \in hurt)
      BY <2>2, <2>7 DEF Honest
    <3>2. j \in Watched' /\ tc'[j] = tc[j]
      BY <1>6, <2>2, <2>5, <3>1
    <3> QED BY <1>1, <1>6, <3>1, <3>2 DEF HasTelemetry
  <2>8. StreamInv' /\ SweepInv'
    BY <1>1, <1>6, <2>1, <2>6, <2>7 DEF StreamInv, SweepInv
  <2> QED BY <1>3, <1>4, <1>5, <2>3, <2>8
<1> QED BY <1>7, <1>8

\* Another announcement only adds to what is queued, and a creation last in the
\* queue has every deletion of its name before it.
LEMMA AnnounceStep ==
    ASSUME IInv, NEW i \in 1..Made, Announce(i), TypeOK'
    PROVE  IInv'
<1> USE DEF IInv
<1>1. /\ UNCHANGED <<iface, alive, tc, hurt, blind, mode, registry, todo, kept, boot>>
      /\ Emit("new", i) /\ alive \subseteq 1..Made
  BY DEF Announce, hostVars, agentVars, sweepVars, TypeOK
<1>2. /\ Empty' = Empty /\ Whole' = Whole /\ Watched' = Watched
      /\ \A j : (ShouldAttach(j)' <=> ShouldAttach(j)) /\ Name(j)' = Name(j)
  BY <1>1 DEF Empty, Whole, Watched, ShouldAttach, Name
<1>3. HostInv' /\ FilterInv' /\ StartInv'
  BY <1>1, <1>2 DEF HostInv, FilterInv, StartInv
<1>4. CASE ~Subscribed \/ closed'
  BY <1>1, <1>2, <1>3, <1>4 DEF Subscribed, OrderInv, StreamInv, SweepInv
<1>5. CASE Subscribed /\ ~closed'
  <2>1. ~closed /\ queue' = Append(queue, [op |-> "new", link |-> i])
    BY <1>1, <1>5 DEF Emit
  <2>2. /\ \A j : Pending(j) => Pending(j)'
        /\ \A m : DelPending(m) => DelPending(m)'
        /\ \A j \in 1..Made : Ordered(j) => Ordered(j)'
    BY <1>1, <2>1, Appended
  <2>3. OrderInv'
    BY <1>1, <1>5, <2>1, <2>2 DEF OrderInv
  <2>4. ASSUME NEW R, NEW T, Covered(R, T)
        PROVE  Covered(R, T)'
    BY <1>1, <1>2, <2>2, <2>4 DEF Covered
  <2>5. ASSUME NEW R, Honest(R)
        PROVE  Honest(R)'
    BY <1>1, <1>2, <2>2, <2>5 DEF Honest, HasTelemetry
  <2>6. StreamInv' /\ SweepInv'
    BY <1>1, <1>2, <2>1, <2>4, <2>5 DEF StreamInv, SweepInv
  <2> QED BY <1>3, <2>3, <2>6
<1> QED BY <1>4, <1>5

\* What Covered and Honest need of a step that leaves links and queue alone:
\* it serves a link, with its name in the list, or marks it as hurt, or leaves
\* its filters.
Served(R) ==
    \A j \in alive : \/ tc'[j] = tc[j] /\ (j \in hurt => j \in hurt')
                     \/ tc'[j] = Whole /\ Name(j) \in R
                     \/ j \in hurt'

\* Steps of the sweep and of the fault model.
LEMMA SameLinks ==
    ASSUME IInv, UNCHANGED <<iface, alive, queue, closed, boot>>, mode # "down",
           NEW R, NEW T, NEW R2, NEW T2, R \subseteq R2, Served(R2),
           \A j \in T \ T2 : j \in alive \ hurt' => tc'[j] = Whole /\ Name(j) \in R2,
           \A m \in R2 \ R : \E j \in Watched : Name(j) = m /\ (HasTelemetry(j)' \/ j \in hurt')
    PROVE  /\ Covered(R, T) => Covered(R2, T2)'
           /\ Honest(R) => Honest(R2)'
<1> USE DEF IInv
<1>1. /\ \A j : Pending(j)' <=> Pending(j)
      /\ \A m : DelPending(m)' <=> DelPending(m)
  BY SameQueue
<1>2. \A j : (ShouldAttach(j)' <=> ShouldAttach(j)) /\ Name(j)' = Name(j)
  BY DEF ShouldAttach, Name
<1>3. Watched' = Watched /\ Whole' = Whole /\ \A j \in Watched : j \in alive
  BY <1>2 DEF Watched, Whole
<1>4. \A j \in Watched : tc'[j] = Whole => HasTelemetry(j)'
  BY DEF HasTelemetry, Whole, FilterInv
<1>5. ASSUME Covered(R, T), NEW j \in Watched, j \notin hurt'
      PROVE  Pending(j)' \/ j \in T2 \/ (tc'[j] = Whole /\ Name(j) \in R2)
  BY <1>1, <1>3, <1>5 DEF Covered, Served
<1>6. ASSUME Honest(R), NEW m \in R2
      PROVE  DelPending(m)' \/ \E j \in Watched : Name(j) = m /\ (HasTelemetry(j)' \/ j \in hurt')
  <2>1. CASE m \in R /\ ~DelPending(m)
    <3>1. PICK j \in Watched : Name(j) = m /\ (HasTelemetry(j) \/ j \in hurt)
      BY <1>6, <2>1 DEF Honest
    <3>2. HasTelemetry(j)' \/ j \in hurt'
      BY <1>3, <1>4, <3>1 DEF Served, HasTelemetry
    <3> QED BY <3>1, <3>2
  <2> QED BY <1>1, <2>1
<1> QED BY <1>2, <1>3, <1>5, <1>6 DEF Covered, Honest
\* Filters removed behind the agent's back mark their link.
LEMMA RemoveStep ==
    ASSUME IInv, NEW i \in alive, RemoveFilters(i), TypeOK'
    PROVE  IInv'
<1> USE NetlinkAssumption DEF IInv
<1>0. /\ UNCHANGED <<iface, alive, queue, closed, mode, first, registry, skipped, failing,
                     todo, kept, bad, boot, blind>>
      /\ hurt' = hurt \cup {i} /\ i \in Index
      /\ tc' = [tc EXCEPT ![i] = Empty] /\ tc \in [Index -> [Hooks -> 0..MaxBoots]]
  BY DEF RemoveFilters, hostVars, agentVars, sweepVars, TypeOK, Made, Index
<1>1. Empty' = Empty /\ Whole' = Whole
  BY <1>0 DEF Empty, Whole
<1>2. HostInv' /\ FilterInv' /\ StartInv'
  BY <1>0, <1>1 DEF HostInv, FilterInv, StartInv, Name
<1>3. OrderInv'
  BY <1>0, SameQueue DEF OrderInv, Subscribed
<1>4. \A R : Served(R)
  BY <1>0 DEF Served, TypeOK, Made, Index
<1>5. mode # "down" => \A R, T : /\ Covered(R, T) => Covered(R, T)'
                                 /\ Honest(R) => Honest(R)'
  BY <1>0, <1>4, SameLinks
<1>6. StreamInv' /\ SweepInv'
  BY <1>0, <1>5 DEF StreamInv, SweepInv, ShouldAttach, Name
<1> QED BY <1>2, <1>3, <1>6

\* A dead socket suspends what is claimed of the queue.
LEMMA SocketStep ==
    ASSUME IInv, SocketDies, TypeOK'
    PROVE  IInv'
<1>1. /\ UNCHANGED <<iface, alive, tc, queue, mode, registry, todo, kept, boot, hurt,
                     blind>>
      /\ closed'
  BY DEF SocketDies, hostVars, agentVars, sweepVars
<1>2. HostInv' /\ FilterInv' /\ StartInv'
  BY <1>1 DEF IInv, HostInv, FilterInv, StartInv, Name, Empty, Whole
<1>3. OrderInv' /\ StreamInv' /\ SweepInv'
  BY <1>1 DEF IInv, OrderInv, StreamInv, SweepInv, ShouldAttach, Name
<1> QED BY <1>2, <1>3 DEF IInv

\* After the hunt only links a deletion failed on have filters.
LEMMA BootStep ==
    ASSUME IInv, NEW spare \in SUBSET Filters, Boot(spare), TypeOK'
    PROVE  IInv'
<1> USE NetlinkAssumption DEF IInv
<1>1. /\ UNCHANGED <<iface, alive>> /\ alive \subseteq Index
      /\ tc' = [i \in Index |-> [h \in Hooks |-> IF <<i, h>> \in spare THEN tc[i][h] ELSE 0]]
      /\ boot \in Nat /\ boot' = boot + 1 /\ mode' = "subscribe" /\ registry' = {}
      /\ hurt' = hurt \cup {f[1] : f \in spare}
  BY DEF Boot, Hunt, hostVars, TypeOK, Made, Index
<1>a. \A f \in spare : f[1] \in alive
  BY DEF Filters
<1>b. ASSUME NEW i \in Index, \A h \in Hooks : <<i, h>> \notin spare
      PROVE  tc'[i] = Empty'
  BY <1>1, <1>b DEF Empty
<1>2. HostInv'
  <2>1. \A i \in Index \ alive : \A h \in Hooks : <<i, h>> \notin spare
    BY <1>a
  <2>2. \A i, j \in alive' : Name(i)' = Name(j)' => i = j
    BY <1>1 DEF HostInv, Name
  <2> QED BY <1>1, <1>b, <2>1, <2>2 DEF HostInv
<1>3. FilterInv'
  <2>1. ASSUME NEW i \in alive \ hurt', NEW h \in Hooks, <<i, h>> \in spare
        PROVE  FALSE
    <3>1. i \in {f[1] : f \in spare}
      <4>1. <<i, h>>[1] = i
        OBVIOUS
      <4> QED BY <2>1, <4>1
    <3> QED BY <1>1, <2>1, <3>1
  <2> QED BY <1>1, <1>b, <2>1 DEF FilterInv
<1>4. StartInv' /\ OrderInv' /\ StreamInv' /\ SweepInv'
  BY <1>1 DEF StartInv, OrderInv, Subscribed, StreamInv, SweepInv
<1> QED BY <1>2, <1>3, <1>4

\* A stopped agent promises nothing, and its filters stay.
LEMMA StopStep ==
    ASSUME IInv, Stop, TypeOK'
    PROVE  IInv'
<1>1. UNCHANGED <<iface, alive, tc>> /\ mode # "down" /\ mode' = "down"
  BY DEF Stop, hostVars
<1> QED BY <1>1 DEF IInv, HostInv, FilterInv, StartInv, OrderInv, Subscribed, StreamInv,
                    SweepInv, Name, Empty

\* The replay names every living link: a first subscription starts with an empty
\* registry, a later one with a sweep, or with its events still missing.
LEMMA SubscribeStep ==
    ASSUME IInv, Subscribe, TypeOK'
    PROVE  IInv'
<1> USE DEF IInv
<1>1. /\ UNCHANGED <<iface, alive, tc, hurt, blind, boot, registry>>
      /\ mode = "subscribe" /\ queue' \in Replays /\ ~closed'
  BY DEF Subscribe, hostVars, StartSweep, SkipSweep
<1>2. /\ \A k \in 1..Len(queue') : queue'[k].op = "new"
      /\ \A i \in alive : \E k \in 1..Len(queue') : queue'[k].op = "new" /\ queue'[k].link = i
  BY <1>1, ReplayTyped
<1>3. \A i \in alive : Pending(i)'
  BY <1>2 DEF Pending, NewAt
<1>4. \A i : Ordered(i)'
  BY <1>2 DEF Ordered, DelAt
<1>5. HostInv' /\ FilterInv'
  BY <1>1 DEF HostInv, FilterInv, Name, Empty, Whole
<1>6. Covered(registry, {})' /\ Covered(kept, todo)'
  BY <1>1, <1>3 DEF Covered, Watched
<1>7. CASE StartSweep
  <2>1. /\ mode' = "sweep" /\ kept' = {} /\ todo' = Watched
    BY <1>7 DEF StartSweep, Watched
  <2>2. \A i \in todo' : ShouldAttach(i)'
    BY <1>1, <2>1 DEF Watched, ShouldAttach, Name
  <2>3. Honest(kept)'
    BY <2>1 DEF Honest
  <2> QED BY <1>1, <1>4, <1>5, <1>6, <2>1, <2>2, <2>3
      DEF OrderInv, StartInv, StreamInv, SweepInv
<1>8. CASE SkipSweep
  <2>1. mode' = "stream"
    BY <1>8 DEF SkipSweep
  <2>2. ~blind => Honest(registry)'
    BY <1>1 DEF Honest, StartInv
  <2> QED BY <1>1, <1>4, <1>5, <1>6, <2>1, <2>2 DEF OrderInv, StartInv, StreamInv, SweepInv
<1> QED BY <1>7, <1>8 DEF Subscribe

\* A lost subscription is remembered.
LEMMA LostStep ==
    ASSUME IInv, Lost, TypeOK'
    PROVE  IInv'
<1>1. /\ UNCHANGED <<iface, alive, tc, hurt, boot>>
      /\ mode = "stream" /\ mode' = "subscribe" /\ blind'
  BY DEF Lost, hostVars
<1> QED BY <1>1 DEF IInv, HostInv, FilterInv, StartInv, OrderInv, Subscribed, StreamInv,
                    SweepInv, Name, Empty, Whole

\* A sweep starts with every wanted link to visit.
LEMMA TickStep ==
    ASSUME IInv, Tick, TypeOK'
    PROVE  IInv'
<1> USE DEF IInv
<1>1. /\ UNCHANGED <<iface, alive, tc, queue, closed, hurt, blind, boot>>
      /\ mode = "stream" /\ mode' = "sweep" /\ kept' = {} /\ todo' = Watched
  BY DEF Tick, StartSweep, hostVars, Watched
<1>2. \A i \in todo' : ShouldAttach(i)'
  BY <1>1 DEF Watched, ShouldAttach, Name
<1>3. Covered(kept, todo)' /\ Honest(kept)'
  BY <1>1 DEF Covered, Honest, Watched, ShouldAttach, Name
<1>4. HostInv' /\ FilterInv' /\ StartInv'
  BY <1>1 DEF HostInv, FilterInv, StartInv, Name, Empty, Whole
<1>5. OrderInv'
  BY <1>1, SameQueue DEF OrderInv, Subscribed
<1> QED BY <1>1, <1>2, <1>3, <1>4, <1>5 DEF StreamInv, SweepInv

\* The list a sweep has built becomes the registry.
LEMMA EndSweepStep ==
    ASSUME IInv, EndSweep, TypeOK'
    PROVE  IInv'
<1> USE DEF IInv
<1>1. /\ UNCHANGED <<iface, alive, tc, queue, closed, hurt, boot>>
      /\ mode = "sweep" /\ mode' = "stream" /\ todo = {} /\ registry' = kept
  BY DEF EndSweep, hostVars
<1>2. \A R : (Covered(R, {})' <=> Covered(R, {})) /\ (Honest(R)' <=> Honest(R))
  BY <1>1, SameQueue DEF Covered, Honest, Watched, ShouldAttach, Name, Whole, HasTelemetry
<1>3. StreamInv'
  BY <1>1, <1>2 DEF StreamInv, SweepInv
<1>4. HostInv' /\ FilterInv' /\ StartInv'
  BY <1>1 DEF HostInv, FilterInv, StartInv, Name, Empty, Whole
<1>5. OrderInv'
  BY <1>1, SameQueue DEF OrderInv, Subscribed
<1> QED BY <1>1, <1>3, <1>4, <1>5 DEF SweepInv
\* What an attach, or a failed one, does to the filters.
LEMMA AttachEffect ==
    ASSUME IInv, mode # "down", NEW i \in 1..Made, Attach(i) \/ AttachFails(i)
    PROVE  /\ i \in alive /\ \A j \in Index \ {i} : tc'[j] = tc[j]
           /\ hurt' \in {hurt \ {i}, hurt \cup {i}}
           /\ i \notin hurt' => tc'[i] = Whole
           /\ Attach(i) => tc'[i] = Whole
<1> USE NetlinkAssumption DEF IInv
<1>0. i \in Index /\ tc \in [Index -> [Hooks -> 0..MaxBoots]]
  BY DEF TypeOK, Made, Index
<1>1. CASE Attach(i)
  BY <1>0, <1>1 DEF Attach
<1>2. CASE AttachFails(i)
  BY <1>0, <1>2 DEF AttachFails, Attach
<1> QED BY <1>1, <1>2

\* The sweep settles one link, or marks it as hurt.
LEMMA VisitStep ==
    ASSUME IInv, NEW i \in todo, Visit(i), TypeOK'
    PROVE  IInv'
<1> USE NetlinkAssumption DEF IInv
<1>0. /\ UNCHANGED <<iface, alive, queue, closed, mode, registry, boot, blind>>
      /\ mode = "sweep" /\ i \in 1..Made /\ i \in Index /\ alive \subseteq Index
      /\ todo' = todo \ {i} /\ ShouldAttach(i)
  BY DEF Visit, hostVars, TypeOK, Made, Index, SweepInv
<1>1. Empty' = Empty /\ Whole' = Whole
  BY <1>0 DEF Empty, Whole
<1>2. HasTelemetry(i) => i \in alive /\ (i \notin hurt => tc[i] = Whole)
  <2>1. HasTelemetry(i) => tc[i] # Empty
    BY DEF HasTelemetry, Empty, Hooks
  <2> QED BY <1>0, <2>1 DEF HostInv, FilterInv
<1>3. /\ \A j \in Index \ {i} : tc'[j] = tc[j]
      /\ hurt' \in {hurt, hurt \ {i}, hurt \cup {i}}
      /\ i \in alive \ hurt' => tc'[i] = Whole /\ Name(i) \in kept'
      /\ i \notin alive => tc'[i] = tc[i]
      /\ i \in hurt \ hurt' => tc'[i] = Whole
      /\ i \in hurt' \/ tc'[i] = tc[i] \/ tc'[i] = Whole
      /\ kept' = kept \/ kept' = kept \cup {Name(i)}
      /\ kept' # kept => i \in alive /\ (HasTelemetry(i)' \/ i \in hurt')
  <2>1. CASE HasTelemetry(i) /\ kept' = kept \cup {Name(i)} /\ UNCHANGED <<tc, hurt>>
    BY <1>2, <2>1 DEF HasTelemetry
  <2>2. CASE /\ i \in alive /\ hurt' = hurt \cup {i} /\ UNCHANGED tc
             /\ kept' = kept \cup ({Name(i)} \cap registry)
    BY <2>2
  <2>3. CASE Attach(i) /\ kept' = kept \cup {Name(i)}
    <3>0. tc'[i] = Whole /\ boot # 0
      BY <1>0, <2>3, AttachEffect DEF FilterInv
    <3>1. HasTelemetry(i)'
      BY <3>0 DEF HasTelemetry, Whole
    <3>2. hurt' = hurt \ {i}
      BY <2>3 DEF Attach
    <3> QED BY <1>0, <2>3, <3>1, <3>2, AttachEffect
  <2>4. CASE AttachFails(i) /\ UNCHANGED kept
    <3>1. hurt' = hurt \cup {i}
      BY <2>4 DEF AttachFails
    <3> QED BY <1>0, <2>4, <3>1, AttachEffect
  <2>5. CASE i \notin alive /\ UNCHANGED <<tc, kept, hurt>>
    BY <2>5
  <2> QED BY <2>1, <2>2, <2>3, <2>4, <2>5 DEF Visit
<1>4. HostInv'
  BY <1>0, <1>1, <1>3 DEF HostInv, Name
<1>5. FilterInv'
  <2> SUFFICES ASSUME NEW j \in alive, j \notin hurt' PROVE tc'[j] \in {Empty, Whole}
    BY <1>0, <1>1 DEF FilterInv
  <2>1. CASE j = i
    BY <1>3, <2>1
  <2>2. CASE j # i
    BY <1>0, <1>3, <2>2 DEF FilterInv
  <2> QED BY <2>1, <2>2
<1>6. StartInv' /\ StreamInv'
  BY <1>0 DEF StartInv, StreamInv
<1>7. OrderInv'
  BY <1>0, SameQueue DEF OrderInv, Subscribed
<1>8. Served(kept')
  <2> SUFFICES ASSUME NEW j \in alive
               PROVE  \/ tc'[j] = tc[j] /\ (j \in hurt => j \in hurt')
                      \/ tc'[j] = Whole /\ Name(j) \in kept'
                      \/ j \in hurt'
    BY DEF Served
  <2>1. CASE j = i
    BY <1>3, <2>1
  <2>2. CASE j # i
    BY <1>0, <1>3, <2>2
  <2> QED BY <2>1, <2>2
<1>9. \A m \in kept' \ kept : \E j \in Watched : Name(j) = m /\ (HasTelemetry(j)' \/ j \in hurt')
  BY <1>0, <1>3 DEF Watched
<1>10. ~closed => Covered(kept, todo)' /\ Honest(kept)'
  <2>1. ASSUME NEW R2, NEW T2, R2 = kept', T2 = todo'
        PROVE  /\ Covered(kept, todo) => Covered(R2, T2)'
               /\ Honest(kept) => Honest(R2)'
    BY <1>0, <1>3, <1>8, <1>9, <2>1, SameLinks
  <2>2. ASSUME NEW R2, NEW T2, R2 = kept', T2 = todo'
        PROVE  (Covered(R2, T2)' => Covered(kept, todo)') /\ (Honest(R2)' => Honest(kept)')
    BY <2>2 DEF Covered, Honest
  <2> QED BY <1>0, <2>1, <2>2 DEF SweepInv
<1>11. SweepInv'
  BY <1>0, <1>10 DEF SweepInv, ShouldAttach, Name
<1> QED BY <1>4, <1>5, <1>6, <1>7, <1>11
\* What every handled event has in common.
LEMMA TakeFacts ==
    ASSUME IInv, NEW op \in {"new", "del"}, Take(op)
    PROVE  /\ UNCHANGED <<iface, alive, closed, mode, boot, blind>>
           /\ mode = "stream" /\ Now \in 1..Made /\ Now \in Index /\ alive \subseteq Index
           /\ Head(queue).op = op /\ queue[1] = Head(queue) /\ Whole' = Whole /\ Empty' = Empty
           /\ \A j : Pending(j) => Pending(j)' \/ NewAt(1, j)
           /\ \A n : DelPending(n) => DelPending(n)' \/ DelAt(1, n)
           /\ \A j : Ordered(j) => Ordered(j)' /\ (DelAt(1, Name(j)) => Pending(j)')
           /\ \A j : (ShouldAttach(j)' <=> ShouldAttach(j)) /\ Name(j)' = Name(j)
           /\ Watched' = Watched
           /\ StartInv' /\ SweepInv' /\ OrderInv'
<1> USE NetlinkAssumption DEF IInv
<1>1. /\ UNCHANGED <<iface, alive, closed, mode, boot, blind>>
      /\ mode = "stream" /\ queue # <<>> /\ queue' = Tail(queue) /\ Head(queue).op = op
  BY DEF Take, hostVars
<1>2. queue \in Seq(Events(Made))
  BY DEF TypeOK, Events
<1>3. queue[1] = Head(queue) /\ Head(queue) \in Events(Made)
  <2>1. 1 \in 1..Len(queue) /\ queue[1] = Head(queue)
    BY <1>1, <1>2, TailAt
  <2> QED BY <1>2, <2>1, ElementOfSeq
<1>4. Now \in 1..Made /\ Now \in Index /\ alive \subseteq Index
  BY <1>3 DEF Now, Events, TypeOK, Made, Index
<1>5. /\ \A j : Pending(j) => Pending(j)' \/ NewAt(1, j)
      /\ \A n : DelPending(n) => DelPending(n)' \/ DelAt(1, n)
      /\ \A j : Ordered(j) => Ordered(j)' /\ (DelAt(1, Name(j)) => Pending(j)')
  BY <1>1, Taken
<1>6. \A j : (ShouldAttach(j)' <=> ShouldAttach(j)) /\ Name(j)' = Name(j)
  BY <1>1 DEF ShouldAttach, Name
<1>7. Watched' = Watched /\ Whole' = Whole /\ Empty' = Empty
  BY <1>1, <1>6 DEF Watched, Whole, Empty
<1>8. StartInv' /\ SweepInv' /\ OrderInv'
  BY <1>1, <1>5 DEF StartInv, SweepInv, OrderInv, Subscribed
<1> QED BY <1>1, <1>3, <1>4, <1>5, <1>6, <1>7, <1>8

\* A creation behind the first event stays queued.
LEMMA PendingLater ==
    ASSUME IInv, NEW op \in {"new", "del"}, Take(op), NEW j, NEW m \in 2..Len(queue), NewAt(m, j)
    PROVE  Pending(j)'
<1>1. queue \in Seq(Events(Made)) /\ queue # <<>> /\ queue' = Tail(queue)
  BY DEF IInv, TypeOK, Events, Take
<1>2. /\ Len(queue) \in Nat /\ Len(queue') = Len(queue) - 1
      /\ \A k \in 1..Len(queue) - 1 : queue'[k] = queue[k + 1]
  BY <1>1, TailAt
<1>3. PICK k \in 1..Len(queue') : k + 1 = m
  BY <1>2
<1> QED BY <1>2, <1>3 DEF Pending, NewAt

\* Refusing a link changes nothing for the others; a known name is either served
\* or about to be forgotten by a later deletion.
LEMMA SkippedStep ==
    ASSUME IInv, TypeOK', OnKnownLink \/ \E op \in {"new", "del"} : HandleRefused(op)
    PROVE  IInv'
<1> USE DEF IInv
<1>1. PICK op \in {"new", "del"} :
         /\ Take(op) /\ UNCHANGED <<tc, registry, hurt>>
         /\ \/ ~ShouldAttach(Now)
            \/ op = "new" /\ ShouldAttach(Now) /\ Name(Now) \in registry
  BY DEF OnKnownLink, HandleRefused
<1>2. HostInv' /\ FilterInv'
  BY <1>1, TakeFacts DEF HostInv, FilterInv
<1>3. ASSUME mode = "stream", ~closed, ~blind
      PROVE  Covered(registry, {})' /\ Honest(registry)'
  <2>1. Covered(registry, {}) /\ Honest(registry) /\ \A j \in alive : Ordered(j)
    BY <1>3 DEF StreamInv, OrderInv, Subscribed
  <2>2. \A n : ~DelAt(1, n)
    BY <1>1, TakeFacts DEF DelAt, Now
  <2>3. Honest(registry)'
    BY <1>1, <2>1, <2>2, TakeFacts DEF Honest, HasTelemetry
  <2>4. ASSUME NEW j \in Watched, j \notin hurt, NewAt(1, j)
        PROVE  Pending(j)' \/ (tc[j] = Whole /\ Name(j) \in registry)
    <3>1. j = Now /\ op = "new" /\ Name(j) \in registry /\ j \in alive
      BY <1>1, <2>4, TakeFacts DEF NewAt, Now, Watched
    <3>2. CASE DelPending(Name(j))
      <4>1. PICK k \in 1..Len(queue) : DelAt(k, Name(j))
        BY <3>2 DEF DelPending
      <4>2. PICK m \in k+1..Len(queue) : NewAt(m, j)
        BY <2>1, <3>1, <4>1 DEF Ordered
      <4> QED BY <1>1, <3>1, <4>1, <4>2, PendingLater
    <3>3. CASE ~DelPending(Name(j))
      <4>1. PICK i \in Watched : Name(i) = Name(j) /\ (HasTelemetry(i) \/ i \in hurt)
        BY <2>1, <3>1, <3>3 DEF Honest
      <4>2. i = j
        BY <3>1, <4>1 DEF HostInv, Watched
      <4>3. tc[j] # Empty
        BY <2>4, <4>1, <4>2 DEF HasTelemetry, Empty, Hooks
      <4> QED BY <1>3, <2>4, <3>1, <4>3 DEF FilterInv
    <3> QED BY <3>2, <3>3
  <2>5. Covered(registry, {})'
    BY <1>1, <2>1, <2>4, TakeFacts DEF Covered
  <2> QED BY <2>3, <2>5
<1>4. StreamInv'
  BY <1>1, <1>3, TakeFacts DEF StreamInv
<1> QED BY <1>1, <1>2, <1>4, TakeFacts
\* A new link is served and registered, or hurt, or already gone.
LEMMA NewLinkStep ==
    ASSUME IInv, OnNewLink, TypeOK'
    PROVE  IInv'
<1> USE NetlinkAssumption DEF IInv
<1>a. PICK i \in 1..Made : i = Now /\ i \in Index
  BY TakeFacts DEF OnNewLink
<1>1. Take("new") /\ ShouldAttach(i) /\ Name(i) \notin registry
  BY <1>a DEF OnNewLink
<1>2. /\ \A j \in Index \ {i} : tc'[j] = tc[j]
      /\ hurt' \in {hurt, hurt \ {i}, hurt \cup {i}}
      /\ registry' \in {registry, registry \cup {Name(i)}}
      /\ \/ i \in alive /\ tc'[i] = Whole /\ registry' = registry \cup {Name(i)}
         \/ i \in alive /\ i \in hurt' /\ registry' = registry
         \/ i \notin alive /\ UNCHANGED <<tc, hurt, registry>>
  <2>1. CASE Attach(i) /\ registry' = registry \cup {Name(i)}
    BY <1>1, <2>1, AttachEffect, TakeFacts
  <2>2. CASE AttachFails(i) /\ UNCHANGED registry
    <3>1. hurt' = hurt \cup {i}
      BY <2>2 DEF AttachFails
    <3> QED BY <1>1, <2>2, <3>1, AttachEffect, TakeFacts
  <2>3. CASE i \notin alive /\ UNCHANGED <<tc, registry, hurt>>
    BY <2>3
  <2> QED BY <1>a, <2>1, <2>2, <2>3 DEF OnNewLink
<1>3. HostInv'
  BY <1>1, <1>2, TakeFacts DEF HostInv
<1>4. FilterInv'
  <2> SUFFICES ASSUME NEW j \in alive, j \notin hurt' PROVE tc'[j] \in {Empty, Whole}
    BY <1>1, TakeFacts DEF FilterInv
  <2>1. j \in Index /\ mode # "down"
    BY <1>1, TakeFacts
  <2> QED BY <1>2, <2>1 DEF FilterInv
<1>5. ASSUME mode = "stream", ~closed, ~blind
      PROVE  Covered(registry, {})' /\ Honest(registry)'
  <2>1. Covered(registry, {}) /\ Honest(registry)
    BY <1>5 DEF StreamInv
  <2>2. /\ \A n : ~DelAt(1, n)
        /\ \A j : NewAt(1, j) => j = i
        /\ \A j \in Watched : j \in alive /\ j \in Index
    BY <1>1, <1>a, TakeFacts DEF DelAt, NewAt, Now, Watched
  <2>3. ASSUME NEW j \in Watched, j \notin hurt'
        PROVE  Pending(j)' \/ (tc'[j] = Whole /\ Name(j) \in registry')
    BY <1>1, <1>2, <2>1, <2>2, <2>3, TakeFacts DEF Covered
  <2>4. ASSUME NEW n \in registry'
        PROVE  DelPending(n)' \/ \E j \in Watched : Name(j) = n /\ (HasTelemetry(j)' \/ j \in hurt')
    <3>1. CASE n \in registry
      <4>1. ASSUME NEW j \in Watched, HasTelemetry(j) \/ j \in hurt
            PROVE  HasTelemetry(j)' \/ j \in hurt'
        <5>1. CASE j = i
          BY <1>2, <2>2, <4>1, <5>1, <1>5 DEF HasTelemetry, Whole, FilterInv
        <5>2. CASE j # i
          BY <1>2, <2>2, <4>1, <5>2 DEF HasTelemetry
        <5> QED BY <5>1, <5>2
      <4> QED BY <1>1, <2>1, <2>2, <3>1, <4>1, TakeFacts DEF Honest
    <3>2. CASE n \notin registry
      <4>1. n = Name(i) /\ i \in alive /\ tc'[i] = Whole
        BY <1>2, <2>4, <3>2
      <4>2. HasTelemetry(i)'
        BY <1>5, <4>1 DEF HasTelemetry, Whole, FilterInv
      <4> QED BY <1>1, <4>1, <4>2 DEF Watched
    <3> QED BY <3>1, <3>2
  <2> QED BY <1>1, <2>3, <2>4, TakeFacts DEF Covered, Honest
<1>6. StreamInv'
  BY <1>1, <1>5, TakeFacts DEF StreamInv
<1> QED BY <1>1, <1>3, <1>4, <1>6, TakeFacts

\* A name is forgotten only while the creation of its living bearer, if it has
\* one, is still queued.
LEMMA DelLinkStep ==
    ASSUME IInv, OnDelLink, TypeOK'
    PROVE  IInv'
<1> USE DEF IInv
<1>a. PICK i \in 1..Made : i = Now
  BY TakeFacts DEF OnDelLink
<1>1. /\ Take("del") /\ ShouldAttach(i) /\ registry' = registry \ {Name(i)}
      /\ UNCHANGED <<tc, hurt>>
  BY <1>a DEF OnDelLink
<1>2. HostInv' /\ FilterInv'
  BY <1>1, TakeFacts DEF HostInv, FilterInv
<1>3. ASSUME mode = "stream", ~closed, ~blind
      PROVE  Covered(registry, {})' /\ Honest(registry)'
  <2>1. Covered(registry, {}) /\ Honest(registry) /\ \A j \in alive : Ordered(j)
    BY <1>3 DEF StreamInv, OrderInv, Subscribed
  <2>2. /\ \A n : DelAt(1, n) <=> n = Name(i)
        /\ \A j : ~NewAt(1, j)
        /\ \A j \in Watched : j \in alive
    BY <1>1, <1>a, TakeFacts DEF DelAt, NewAt, Now, Watched
  <2>3. Covered(registry, {})'
    BY <1>1, <2>1, <2>2, TakeFacts DEF Covered
  <2>4. Honest(registry)'
    BY <1>1, <2>1, <2>2, TakeFacts DEF Honest, HasTelemetry
  <2> QED BY <2>3, <2>4
<1>4. StreamInv'
  BY <1>1, <1>3, TakeFacts DEF StreamInv
<1> QED BY <1>1, <1>2, <1>4, TakeFacts

-----------------------------------------------------------------------------
(* The theorems.                                                           *)

\* A host with one tap and no agent.
LEMMA InitIInv == Init => IInv
<1> SUFFICES ASSUME Init PROVE IInv
  OBVIOUS
<1> USE NetlinkAssumption DEF Init
<1>1. PICK n \in Prefixed : iface = <<[name |-> n, kind |-> "tun"]>>
  OBVIOUS
<1>2. iface \in Seq(Links) /\ Len(iface) = 1
  BY <1>1 DEF Links, Names, Kinds
<1>3. tc \in [Index -> [Hooks -> 0..MaxBoots]] /\ queue \in Seq(Events(Made))
  BY EmptySeq DEF Empty
<1>4. TypeOK
  <2>1. Made = 1 /\ 1 <= MaxLinks /\ alive \subseteq 1..1 /\ 0 \in 0..MaxBoots /\ 0 \in 0..MaxFaults
    BY <1>2 DEF Made
  <2>2. iface \in Seq([name : Names, kind : Kinds])
    BY <1>2 DEF Links
  <2>3. queue \in Seq([op : {"new", "del"}, link : 1..Made])
    BY <1>3 DEF Events
  <2> QED BY <1>3, <2>1, <2>2, <2>3 DEF TypeOK
<1>5. HostInv /\ FilterInv /\ OrderInv /\ StartInv /\ StreamInv /\ SweepInv
  BY DEF HostInv, FilterInv, OrderInv, Subscribed, StartInv, StreamInv, SweepInv
<1> QED BY <1>4, <1>5 DEF IInv

\* Every step keeps the invariant.
LEMMA NextIInv == IInv /\ [Next]_vars => IInv'
<1> SUFFICES ASSUME IInv, [Next]_vars PROVE IInv'
  OBVIOUS
<1>1. CASE Host
  <2>1. TypeOK'
    BY <1>1, HostTypeOK DEF IInv
  <2> QED BY <1>1, <2>1, CreateStep, DeleteStep, AnnounceStep, RemoveStep,
             SocketStep DEF Host
<1>2. CASE Agent \/ Stop
  <2>1. TypeOK'
    BY <1>2, AgentTypeOK DEF IInv
  <2> QED BY <1>2, <2>1, BootStep, StopStep, SubscribeStep, LostStep, SkippedStep, NewLinkStep,
             DelLinkStep, TickStep, EndSweepStep, VisitStep DEF Agent
<1>3. CASE UNCHANGED vars
  <2>1. /\ UNCHANGED <<iface, alive, tc, queue, closed, mode, first, registry, failing,
                       skipped, todo, kept, bad, boot, faults, hurt, blind>>
    BY <1>3 DEF vars, hostVars, agentVars, sweepVars
  <2>2. TypeOK' /\ HostInv' /\ FilterInv' /\ StartInv'
    BY <2>1 DEF IInv, TypeOK, Made, HostInv, FilterInv, StartInv, Name, Empty, Whole
  <2>3. OrderInv'
    BY <2>1, SameQueue DEF IInv, OrderInv, Subscribed
  <2>4. \A R, T : (Covered(R, T)' <=> Covered(R, T)) /\ (Honest(R)' <=> Honest(R))
    BY <2>1, SameQueue DEF Covered, Honest, Watched, ShouldAttach, Name, Whole, HasTelemetry
  <2>5. StreamInv' /\ SweepInv'
    BY <2>1, <2>4 DEF IInv, StreamInv, SweepInv, ShouldAttach, Name
  <2> QED BY <2>2, <2>3, <2>5 DEF IInv
<1> QED BY <1>1, <1>2, <1>3 DEF Next

\* The relation between registry, filters and queued events holds in every
\* reachable state of subscriber and host.
THEOREM SubscriberInvariant == Spec => []IInv
<1> QED BY InitIInv, NextIInv, PTL DEF Spec

\* Links, filters, events and registry keep their types.
THEOREM TypeCorrect == Spec => []TypeOK
<1>1. IInv => TypeOK
  BY DEF IInv
<1> QED BY <1>1, SubscriberInvariant, PTL

\* A subscriber at rest has this agent's programs on every wanted link, however
\* names were reused and events and sweeps interleaved.
THEOREM RestIsInstrumented == Spec => []Instrumented
<1>1. IInv => Instrumented
  <2> SUFFICES ASSUME IInv, Quiet, ~blind
               PROVE  \A i \in Watched \ hurt : tc[i] = Whole /\ Name(i) \in registry
    BY DEF Instrumented
  <2>1. Len(queue) = 0
    BY EmptySeq DEF Quiet
  <2>2. \A i : ~Pending(i)
    BY <2>1 DEF Pending
  <2> QED BY <2>2 DEF IInv, StreamInv, Quiet, Covered
<1> QED BY <1>1, SubscriberInvariant, PTL

\* At rest the registry names only wanted links that exist and are served.
THEOREM RegistryIsTrue == Spec => []RegistryTrue
<1>1. IInv => RegistryTrue
  <2> SUFFICES ASSUME IInv, Quiet, ~blind, NEW n \in registry
               PROVE  \E i \in Watched : Name(i) = n /\ (HasTelemetry(i) \/ i \in hurt)
    BY DEF RegistryTrue
  <2>1. Len(queue) = 0
    BY EmptySeq DEF Quiet
  <2>2. \A m : ~DelPending(m)
    BY <2>1 DEF DelPending
  <2> QED BY <2>2 DEF IInv, StreamInv, Quiet, Honest
<1> QED BY <1>1, SubscriberInvariant, PTL
=============================================================================
