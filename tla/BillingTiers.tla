---------------------------- MODULE BillingTiers ----------------------------
(***************************************************************************)
(* The billing series that Prometheus reads, and the tiers they are summed *)
(* from: the live rows of state.GlobalState, the settled buckets of        *)
(* tenants, servers and the total, and the collector that binds rows to    *)
(* owners at the moment it is scraped.                                     *)
(*                                                                         *)
(* Four goroutines meet here.  The scraper counts into a row after it has  *)
(* looked the MAC up; the reconciler settles a row and then rebinds its    *)
(* MAC; the ghost sweeper settles the rows of a MAC and then forgets it;   *)
(* the collector copies rows and buckets in one critical section and       *)
(* resolves the copies afterwards, row by row, with no lock.               *)
(*                                                                         *)
(* One row per MAC stands for its flows, one (zone, network, direction)    *)
(* tuple for all of them, bytes are units.  A binding is the port's server *)
(* and, through it, its project.  The rows' baselines and the unresolved   *)
(* buffer are FlowPipeline's, kernel and userspace map are MacLifecycle's. *)
(***************************************************************************)
EXTENDS Integers, FiniteSets, FiniteSetsExt

CONSTANTS
    Macs,       \* MAC addresses
    Servers,    \* Nova servers
    Tenants,    \* Keystone projects
    TenantOf,   \* the project of a server
    Unknown,    \* metadata.UnknownTenantID
    None,       \* no binding
    Boot,       \* the bindings the cold start loaded
    Mortal,     \* bound: the servers and projects that may be deleted
    MaxBytes,   \* bound: bytes counted
    MaxPasses,  \* bound: reconcile passes
    MaxScrapes  \* bound: expositions

ASSUME BillingAssumption ==
    /\ TenantOf \in [Servers -> Tenants] /\ Boot \in [Macs -> Servers \cup {None}]
    /\ Servers \cap Tenants = {} /\ Unknown \notin Servers \cup Tenants
    /\ None \notin Servers \cup Macs
    /\ IsFiniteSet(Macs) /\ IsFiniteSet(Servers) /\ IsFiniteSet(Tenants)

VARIABLES
    meta,       \* ShardedMetadataMap: the binding of each MAC
    ghost,      \* the MACs whose binding has a deadline
    rows,       \* GlobalState.counts: bytes of each MAC's row
    unknown,    \* the row of metadata.UnknownFlowKey
    settled,    \* tenantSettled and serverSettled
    released,   \* totalSettled
    applying,   \* the MAC whose reading the scraper found known, or None
    nova, keystone,         \* the servers and projects that exist
    rpc, todo, at, old,     \* the reconciler: phase, MACs to learn, the one at hand
    desired, lists, passes, \* its snapshot of ports, servers and projects
    gpc, swept, metas,      \* the ghost sweeper: phase, MACs, bindings looked up
    col,        \* the collector: copies, rows to resolve, series so far
    shown,      \* the last exposition, and how many there were
    bytes, due, \* history: bytes counted; by the series they belonged to
    late,       \* history: MACs whose row grew since it was settled for a rebind
    slips       \* history: series that met one of the windows of Move

stateVars == <<rows, unknown, settled, released>>
reconVars == <<rpc, todo, at, old, desired, lists, passes>>
sweepVars == <<gpc, swept, metas>>
cloudVars == <<nova, keystone>>
history == <<bytes, due>>
vars == <<meta, ghost, stateVars, applying, cloudVars, reconVars, sweepVars,
          col, shown, history, late, slips>>

Series == Servers \cup Tenants \cup {Unknown}

\* The series a row is shown under: its tenant's and its server's, or that of
\* the unknown.
SeriesOf(b) == IF b = None THEN {Unknown} ELSE {b, TenantOf[b]}

\* f with n more in every series of b.
Credit(f, b, n) == [x \in Series |-> IF x \in SeriesOf(b) THEN f[x] + n ELSE f[x]]

-----------------------------------------------------------------------------
(* GlobalState.                                                            *)

\* Settle folds the rows of M into the buckets of the bindings the caller
\* picked.  SettleEvict and SettleRebase leave the same total, nothing.
Settle(M, pick) ==
    /\ settled' = [x \in Series |->
           settled[x] + MapThenSumSet(LAMBDA m : rows[m],
                                      {m \in M : pick[m] # None /\ x \in SeriesOf(pick[m])})]
    /\ rows' = [m \in Macs |-> IF m \in M /\ pick[m] # None THEN 0 ELSE rows[m]]
    /\ late' = {m \in late : m \notin M \/ pick[m] = None}
    /\ UNCHANGED <<unknown, released>>

-----------------------------------------------------------------------------
(* The scraper: Absorb looks the MAC up, then applies the reading.         *)

Lookup(m) ==
    /\ applying = None /\ meta[m] # None /\ bytes < MaxBytes
    /\ applying' = m
    /\ UNCHANGED <<meta, ghost, stateVars, cloudVars, reconVars, sweepVars, col, shown, history, late, slips>>

\* The row of m has been settled and its binding is about to go.
Rebinding(m) == (rpc = "insert" /\ at = m) \/ (gpc = "delete" /\ m \in swept) \/ meta[m] = None

ApplyDelta ==
    /\ applying # None
    /\ applying' = None
    /\ rows' = [rows EXCEPT ![applying] = @ + 1]
    /\ bytes' = bytes + 1 /\ due' = Credit(due, meta[applying], 1)
    /\ late' = IF Rebinding(applying) THEN late \cup {applying} ELSE late
    /\ UNCHANGED <<meta, ghost, unknown, settled, released, cloudVars, reconVars, sweepVars, col, shown, slips>>

\* The buffer folds bytes whose MAC nobody learnt.
FoldToUnknown ==
    /\ bytes < MaxBytes
    /\ unknown' = unknown + 1
    /\ bytes' = bytes + 1 /\ due' = Credit(due, None, 1)
    /\ UNCHANGED <<meta, ghost, rows, settled, released, applying, cloudVars, reconVars, sweepVars, col, shown, late, slips>>

-----------------------------------------------------------------------------
(* The windows.  When the binding of m goes from meta[m] to b, both their  *)
(* series slip if the row grew after it was settled (late), if the         *)
(* reconciler and the sweeper hold m at once (raced), or if the collector  *)
(* has copied the row and not yet resolved it (torn).                      *)

Torn(m) == m \in col.todo /\ col.rows[m] > 0
Raced(m) == at = m /\ m \in swept

Move(m, b) ==
    IF meta[m] # b /\ (m \in late \/ Raced(m) \/ Torn(m))
    THEN SeriesOf(meta[m]) \cup SeriesOf(b) \cup (IF Raced(m) THEN SeriesOf(old) ELSE {})
    ELSE {}

-----------------------------------------------------------------------------
(* The reconciler.                                                         *)

\* Sync.  Ports are listed before projects and servers; the server list is
\* empty when its fetch fails.
Sync(ports, servers) ==
    /\ rpc = "idle" /\ passes < MaxPasses
    /\ servers \in {nova, {}}
    /\ rpc' = "learn" /\ passes' = passes + 1
    /\ desired' = ports /\ todo' = {m \in Macs : ports[m] # None}
    /\ lists' = [servers |-> servers, projects |-> keystone]
    /\ UNCHANGED <<meta, ghost, stateVars, applying, cloudVars, at, old, sweepVars, col, shown, history, late, slips>>

\* Fault: a changed attribution is not settled first.
LearnUnsettled(m) ==
    /\ rpc = "learn" /\ m \in todo
    /\ todo' = todo \ {m}
    /\ IF meta[m] = desired[m] /\ m \notin ghost
       THEN UNCHANGED <<rpc, at, old>>
       ELSE rpc' = "insert" /\ at' = m /\ old' = meta[m]
    /\ UNCHANGED <<meta, ghost, stateVars, applying, cloudVars, desired, lists, passes, sweepVars, col, shown, history, late, slips>>

\* learnMACs: a MAC bound as wanted is skipped, one bound otherwise is settled
\* before it is inserted.
Learn(m) ==
    /\ rpc = "learn" /\ m \in todo
    /\ todo' = todo \ {m}
    /\ IF meta[m] = desired[m] /\ m \notin ghost
       THEN UNCHANGED <<rpc, at, old>>
       ELSE /\ rpc' = IF meta[m] \in {None, desired[m]} THEN "insert" ELSE "settle"
            /\ at' = m /\ old' = meta[m]
    /\ UNCHANGED <<meta, ghost, stateVars, applying, cloudVars, desired, lists, passes, sweepVars, col, shown, history, late, slips>>

SettleAttributionChange ==
    /\ rpc = "settle"
    /\ rpc' = "insert"
    /\ Settle({at}, [m \in Macs |-> old])
    /\ UNCHANGED <<meta, ghost, applying, cloudVars, todo, at, old, desired, lists, passes, sweepVars, col, shown, history, slips>>

InsertMAC ==
    /\ rpc = "insert"
    /\ rpc' = "learn" /\ at' = None /\ old' = None
    /\ meta' = [meta EXCEPT ![at] = desired[at]] /\ ghost' = ghost \ {at}
    /\ slips' = slips \cup Move(at, desired[at])
    /\ UNCHANGED <<stateVars, applying, cloudVars, todo, desired, lists, passes, sweepVars, col, shown, history, late>>

GhostGoneMACs ==
    /\ rpc = "learn" /\ todo = {}
    /\ rpc' = "servers"
    /\ ghost' = ghost \cup {m \in Macs : meta[m] # None /\ desired[m] = None}
    /\ UNCHANGED <<meta, stateVars, applying, cloudVars, todo, at, old, desired, lists, passes, sweepVars, col, shown, history, late, slips>>

\* The buckets of servers that left the Nova list are dropped.
PruneServerSettled ==
    /\ rpc = "servers"
    /\ rpc' = "projects"
    /\ settled' = [x \in Series |->
           IF lists.servers # {} /\ x \in Servers \ lists.servers THEN 0 ELSE settled[x]]
    /\ UNCHANGED <<meta, ghost, rows, unknown, released, applying, cloudVars, todo, at, old, desired, lists, passes, sweepVars, col, shown, history, late, slips>>

\* Fault: a dead project's bucket is deleted, not folded.
PruneTenantsForgets ==
    /\ rpc = "projects"
    /\ rpc' = "idle" /\ desired' = [m \in Macs |-> None]
    /\ lists' = [servers |-> {}, projects |-> {}]
    /\ settled' = [x \in Series |-> IF x \in Tenants \ lists.projects THEN 0 ELSE settled[x]]
    /\ UNCHANGED <<meta, ghost, rows, unknown, released, applying, cloudVars, todo, at, old, passes, sweepVars, col, shown, history, late, slips>>

\* The buckets of projects that left Keystone go to the total absorber, and the
\* pass is over.
PruneTenantSettled ==
    /\ rpc = "projects"
    /\ rpc' = "idle" /\ desired' = [m \in Macs |-> None]
    /\ lists' = [servers |-> {}, projects |-> {}]
    /\ LET dead == IF lists.projects = {} THEN {} ELSE Tenants \ lists.projects
       IN  /\ settled' = [x \in Series |-> IF x \in dead THEN 0 ELSE settled[x]]
           /\ released' = released + MapThenSumSet(LAMBDA t : settled[t], dead)
    /\ UNCHANGED <<meta, ghost, rows, unknown, applying, cloudVars, todo, at, old, passes, sweepVars, col, shown, history, late, slips>>

-----------------------------------------------------------------------------
(* The ghost sweeper, from the MACs whose kernel entry it deleted.         *)

Classify(M) ==
    /\ gpc = "idle" /\ M # {} /\ M \subseteq ghost
    /\ gpc' = "look" /\ swept' = M
    /\ UNCHANGED <<meta, ghost, stateVars, applying, cloudVars, reconVars, metas, col, shown, history, late, slips>>

\* settleSwept collects the bindings ...
LookupSwept ==
    /\ gpc = "look"
    /\ gpc' = "settle" /\ metas' = meta
    /\ UNCHANGED <<meta, ghost, stateVars, applying, cloudVars, reconVars, swept, col, shown, history, late, slips>>

\* ... and settles under them.
SettleSwept ==
    /\ gpc = "settle"
    /\ gpc' = "delete"
    /\ Settle(swept, metas)
    /\ UNCHANGED <<meta, ghost, applying, cloudVars, reconVars, swept, metas, col, shown, history, slips>>

DeleteUserspace ==
    /\ gpc = "delete"
    /\ gpc' = "idle" /\ swept' = {} /\ metas' = [m \in Macs |-> None]
    /\ meta' = [m \in Macs |-> IF m \in swept THEN None ELSE meta[m]]
    /\ ghost' = ghost \ swept
    /\ slips' = slips \cup UNION {Move(m, None) : m \in swept}
    /\ UNCHANGED <<stateVars, applying, cloudVars, reconVars, col, shown, history, late>>

-----------------------------------------------------------------------------
(* The collector.                                                          *)

NoCopy == [busy |-> FALSE, todo |-> {}, rows |-> [m \in Macs |-> 0],
           series |-> [x \in Series |-> 0], released |-> 0]

\* Fault: the tenant absorber is left out of the tenant family.
SnapshotNoTenants ==
    /\ ~col.busy /\ shown.scrapes < MaxScrapes
    /\ col' = [busy |-> TRUE, todo |-> Macs, rows |-> rows, released |-> released,
               series |-> Credit([x \in Series |-> IF x \in Tenants THEN 0 ELSE settled[x]], None, unknown)]
    /\ UNCHANGED <<meta, ghost, stateVars, applying, cloudVars, reconVars, sweepVars, shown, history, late, slips>>

\* SnapshotWithSettled: rows and buckets under one lock.
Snapshot ==
    /\ ~col.busy /\ shown.scrapes < MaxScrapes
    /\ col' = [busy |-> TRUE, todo |-> Macs, rows |-> rows, released |-> released,
               series |-> Credit(settled, None, unknown)]
    /\ UNCHANGED <<meta, ghost, stateVars, applying, cloudVars, reconVars, sweepVars, shown, history, late, slips>>

\* aggregateLiveRows binds the copy of a row to the owner its MAC has by now.
Resolve(m) ==
    /\ m \in col.todo
    /\ col' = [col EXCEPT !.todo = @ \ {m}, !.series = Credit(@, meta[m], col.rows[m])]
    /\ UNCHANGED <<meta, ghost, stateVars, applying, cloudVars, reconVars, sweepVars, shown, history, late, slips>>

\* Fault: the total absorber is left out of the total.
EmitNoReleased ==
    /\ col.busy /\ col.todo = {}
    /\ shown' = [scrapes |-> shown.scrapes + 1, series |-> col.series,
                 total |-> MapThenSumSet(LAMBDA x : col.series[x], Tenants \cup {Unknown})]
    /\ col' = NoCopy
    /\ UNCHANGED <<meta, ghost, stateVars, applying, cloudVars, reconVars, sweepVars, history, late, slips>>

\* deriveTotals sums the tenant tier, foldTotalSettled adds the dead projects.
Emit ==
    /\ col.busy /\ col.todo = {}
    /\ shown' = [scrapes |-> shown.scrapes + 1, series |-> col.series,
                 total |-> MapThenSumSet(LAMBDA x : col.series[x], Tenants \cup {Unknown}) + col.released]
    /\ col' = NoCopy
    /\ UNCHANGED <<meta, ghost, stateVars, applying, cloudVars, reconVars, sweepVars, history, late, slips>>

-----------------------------------------------------------------------------
(* Servers and projects end; their identifiers do not come back.           *)

Die(s, t) ==
    /\ nova' = nova \ s /\ keystone' = keystone \ t /\ <<nova, keystone>> # <<nova', keystone'>>
    /\ UNCHANGED <<meta, ghost, stateVars, applying, reconVars, sweepVars, col, shown, history, late, slips>>

Init ==
    /\ meta = Boot /\ ghost = {}
    /\ rows = [m \in Macs |-> 0] /\ unknown = 0
    /\ settled = [x \in Series |-> 0] /\ released = 0
    /\ applying = None /\ nova = Servers /\ keystone = Tenants
    /\ rpc = "idle" /\ todo = {} /\ at = None /\ old = None /\ passes = 0
    /\ desired = [m \in Macs |-> None] /\ lists = [servers |-> {}, projects |-> {}]
    /\ gpc = "idle" /\ swept = {} /\ metas = [m \in Macs |-> None]
    /\ col = NoCopy /\ shown = [scrapes |-> 0, series |-> [x \in Series |-> 0], total |-> 0]
    /\ bytes = 0 /\ due = [x \in Series |-> 0]
    /\ late = {} /\ slips = {}

Scrape == (\E m \in Macs : Lookup(m)) \/ ApplyDelta \/ FoldToUnknown

ReconcileOnce ==
    \/ \E ports \in [Macs -> nova \cup {None}], servers \in {nova, {}} : Sync(ports, servers)
    \/ \E m \in todo : Learn(m)
    \/ SettleAttributionChange \/ InsertMAC \/ GhostGoneMACs
    \/ PruneServerSettled \/ PruneTenantSettled

GhostSweep == (\E M \in SUBSET ghost : Classify(M)) \/ LookupSwept \/ SettleSwept \/ DeleteUserspace

Collect == Snapshot \/ (\E m \in col.todo : Resolve(m)) \/ Emit

Next ==
    \/ Scrape \/ ReconcileOnce \/ GhostSweep \/ Collect
    \/ \E s \in Servers \cap Mortal : Die({s}, {})
    \/ \E t \in Tenants \cap Mortal : Die({}, {t})

Spec == Init /\ [][Next]_vars

\* Prometheus keeps scraping, and a Collect that started returns.
FairSpec == Spec /\ WF_vars(Collect)

-----------------------------------------------------------------------------
\* Every variable has its type; between sweeps no MAC is held.
TypeOK ==
    /\ meta \in [Macs -> Servers \cup {None}] /\ ghost \subseteq {m \in Macs : meta[m] # None}
    /\ rows \in [Macs -> Nat] /\ unknown \in Nat
    /\ settled \in [Series -> Nat] /\ released \in Nat
    /\ applying \in Macs \cup {None} /\ nova \subseteq Servers /\ keystone \subseteq Tenants
    /\ rpc \in {"idle", "learn", "settle", "insert", "servers", "projects"}
    /\ todo \subseteq Macs /\ at \in Macs \cup {None} /\ old \in Servers \cup {None}
    /\ desired \in [Macs -> Servers \cup {None}] /\ passes \in Nat
    /\ lists \in [servers : SUBSET Servers, projects : SUBSET Tenants]
    /\ gpc \in {"idle", "look", "settle", "delete"} /\ swept \subseteq Macs
    /\ gpc = "idle" <=> swept = {}
    /\ metas \in [Macs -> Servers \cup {None}]
    /\ col \in [busy : BOOLEAN, todo : SUBSET Macs, rows : [Macs -> Nat],
               series : [Series -> Nat], released : Nat]
    /\ shown \in [scrapes : Nat, series : [Series -> Nat], total : Nat]
    /\ bytes \in Nat /\ due \in [Series -> Nat] /\ late \subseteq Macs /\ slips \subseteq Series

\* The series whose owner is alive and that met no window of Move.
Sound == (nova \cup keystone \cup {Unknown}) \ slips

Live(x) == MapThenSumSet(LAMBDA m : rows[m], {m \in Macs : x \in SeriesOf(meta[m])})
             + (IF x = Unknown THEN unknown ELSE 0)

\* A series is worth exactly what was counted for its owner while its ports
\* were bound to it, through reassignment, ghosts, resurrection and pruning
\* (Settle, learnMACs, settleSwept, PruneServerSettled).
OwnersExact == \A x \in Sound : Live(x) + settled[x] = due[x]

\* The total tier holds every byte, whatever the tenants' side does
\* (PruneTenantSettled, deriveTotals).
TotalExact ==
    MapThenSumSet(LAMBDA x : Live(x) + settled[x], Tenants \cup {Unknown}) + released = bytes

\* In one exposition the servers of a living project are never worth more than
\* the project (Settle credits both, aggregateLiveRows resolves once).
ServersWithinTenant ==
    \A t \in keystone :
        MapThenSumSet(LAMBDA s : shown.series[s], {s \in Servers : TenantOf[s] = t}) <= shown.series[t]

\* From one scrape to the next no series of a living owner decreases outside
\* the windows, and the total never does (Collect, contract 7).
SeriesMonotone ==
    [][/\ \A x \in Sound : shown'.series[x] >= shown.series[x]
       /\ shown'.total >= shown.total]_vars

-----------------------------------------------------------------------------
\* contracts.md, contract 7: "the tenant tier never decreases while its project
\* lives".
TenantNeverDips == [][\A t \in keystone : shown'.series[t] >= shown.series[t]]_vars
=============================================================================
