# Lachesis in TLA+

Lachesis is an agent on an OpenStack compute node that counts every byte of
every VM in the kernel (eBPF, TC hooks) and bills it to the project that owns
the VM. This directory models the parts of the agent that carry its promise,
"crash-resilient, monotonic per-tenant counters": TLC checks the modules on
small instances, TLAPS proves the central properties for every instance.

## 1. The system

### Parts, state and operations

| Part (under `src/internal` unless noted) | State | Operations |
|---|---|---|
| Data path, `src/bpf/telemetry.c` | `telemetry_map` (pinned, bytes and `created_ns` per flow), `mac_tenant_map`, `subnet_zone_trie` | `handle_packet`: look MAC and zone up, add to the flow's entry |
| Scraper, `scraper`, `unresolved`, `state` | `GlobalState.counts` (total and baseline per flow), the unresolved buffer (LRU, cap, TTL) | `Tick`: drain, `Absorb` each reading (row or buffer), `Sweep`, `Relieve` |
| Pressure relief, `gc/pressure.go` | none of its own | delete the oldest kernel entries above a watermark |
| Ghost sweeper, `gc/ghost.go` | none; reads `DeleteAt` in the metadata map | classify, delete kernel MACs, evict flows, settle, delete userspace |
| Reconciler, `reconcile`, `kernelwriter`, `neutron/sync.go` | the committed snapshot; the kick channel; the debounce timer | fetch, trie delta, MAC learning and ghosting, commit, prune |
| Kafka consumer, `kafka` | none | turn a relevant notification into a `Kick` |
| Billing tiers, `state`, `metrics/collector.go` | settled buckets per tenant, per server, for the total | `Settle`, `Prune*Settled`, `SnapshotWithSettled`, `Collect` |
| WAL, `wal`, `agent/walflush.go` | `path`, `.bak`, `.tmp`, `.corrupt` files; the counters-reset epoch | `Save`, `Load`, `Quarantine`, `restoreFromWAL` |
| Boot and drain, `boot`, `agent` | phase; one context per worker | `Advance`, `Await`, `Fail`; cancel and await workers in order |
| Netlink, `netlink`, `tcattach`, `zombie` | registry of attached taps | attach, forget, resync, remove stale filters |
| Neutron resolution, `neutron` | pure | rows of the trie, static routes, amphora owners |
| Router and amphora maps, `reconcile/routers.go`, `metadata/routers.go` | external network behind each router interface; amphora base addresses | diff, settle, swap; insert |
| Reload, config, debug pages, logging | tunables store | swap the store; render |
| Live scenarios, `scenariotest`, `src/cmd/scenariotest` | a topology on a live cloud, the run-state file, an agent host's configuration | `up`, `run`, `down`; create and record, drive and assert, delete and restore |

### How the parts meet

Everything runs in one process. The scraper, the reconciler, the ghost
sweeper, the WAL flusher, the Kafka consumer and Prometheus' `Collect` are
goroutines that share `GlobalState` (one mutex), the metadata map (sharded
mutexes) and the kernel maps (no lock at all, and written by packets). A step
of one goroutine is therefore a critical section or a system call, never a
whole operation: a tick, a pass, a sweep and a scrape all interleave. Three
things outlive the process: the pinned `telemetry_map`, the TC filters with the
programs behind them, and the WAL.

### What is hard, and what makes each part right

* Accounting: a kernel counter may be deleted and re-created between two
  readings, a flow may change from unknown to known in mid drain, a delete may
  fail. Right means: every counted byte is in exactly one account
  (`FlowPipeline`).
* WAL: a crash or a power loss between any two system calls of `Save`, a
  damaged file, an older build started over newer files. Right means: what was
  acknowledged is recovered, and what is not recovered is declared
  (`WalFiles`).
* Bindings: two goroutines and two maps, with a grace period. Right means: the
  kernel never knows a MAC that userspace does not, and no binding goes early
  (`MacLifecycle`).
* Trie: packets look up while a pass rewrites row by row, writes fail half
  way. Right means: no gap, and the kernel follows the commits (`TrieDelta`).
* Reconcile loop: coalesced kicks, restarted debounce, passes of any length.
  Right means: no change is forgotten or held back for ever (`KickLoop`).
* Billing tiers: labels are bound when scraped, history must be settled before
  it is rebound. Right means: exact owners, monotone series (`BillingTiers`).
* Restart: the process can stop at any step of boot, run and drain, and the
  three things that stay must add up at the next boot. Right means: no byte of a
  tenant is lost or repeated beyond what the design accepts (`AgentLife`).
* Attachment: names of taps are reused, events are queued and can be lost, an
  attach can fail half way. Right means: every wanted tap carries this agent's
  two filters, and the registry knows it (`NetlinkAttach`).
* Zones and labels: rows of many origins meet in one trie, routes chain through
  routers, labels are computed when scraped. Right means: a packet gets the zone
  and its bytes keep the label that the topology means (`Zoning`).
* Scenario commands: a cluster outlives a command that dies. Right means: what
  exists is on record, and running `down` again removes it (`ScenarioRun`).

`PROJECT.json` lists every component, and every hazard with the line where it
bites and the properties that would catch it.

## 2. The modules

A module keeps all of the control of the code it models and abstracts the
data. Definitions marked *Fault* are mutated forms of the action below them: a
plausible bug of the code that breaks one property (`PROJECT.json`,
"mutants"). History variables (named as such at their declaration) are read by
properties only, never by an action's guard.

### FlowPipeline

One flow per key, bytes as numbers. `kernel` is `telemetry_map`, with the
bytes, the creation stamp and the last-seen stamp of each entry; `rows`/`count`
is `GlobalState.counts`; `held`/`entry`/`older`/`aged` is the buffer with its
LRU order and TTL; `unknown` and `settled` are where folds end up. A tick is
`BatchLookup`, then one `Absorb` per drained reading in any order (Go's map
order), then `Sweep`, then `Relieve` or `NoRelief`; packets, learning, ghosting
and the four phases of a sweep interleave with all of it. `HandlePacket` adds
to an entry or creates one; a full map drops the insert.

The code has four windows in which a byte can end in two accounts, or in the
wrong one. They are not hidden by coarser steps but named: `slips[k]` collects
*settledLive* (the sweep settles a row whose reading a tick still holds),
*foldedLive* (a buffered flow is folded although its counter goes on: a failed
reset, or the LRU cap in mid drain), *recreated* (an entry is re-created under
a baseline that is compared by value) and *diverted* (a row's MAC is unknown
while it still has a baseline, so its reading goes to the buffer). Outside the
windows the accounts are exact.

Not in this module: packet counters, per-CPU values, a failing `BatchLookup`
(the tick changes nothing), the forced sweep at shutdown, a cap lowered by a
reload.

### WalFiles

`dir` is the directory as the running system sees it, and the set of
`Directories` adds every prefix of unsynced renames that a power loss may leave.
A file is worth the generation of the snapshot in it. `Save` is its system
calls: write and fsync the temporary, rename the primary to `.bak`, rename the
temporary to the primary, fsync the directory; each may fail and after each
the process or the machine may stop. `Load`, the fallback to `.bak`, the
quarantine (which may fail), the refusal of a newer schema and the stamping of
the counters-reset epoch are those of `restoreFromWAL`. The epoch is the second a
wall clock shows, and that clock may stand still or go back between two boots;
`tied` records that a boot stamped the second of the epoch before it. The JSON
format is abstracted to "readable or not, and of which schema".

`CheckpointStore` says what the agent gets from all this, without files: a run
advances through generations, has some acknowledged, and the next run goes on
from the last acknowledged one or a later one; a damaged store may cost one
acknowledged generation, and more only under another epoch than before, unless the
clock gave the same second again. `WalFiles` implements
it (`ImplementsStore`), with "up" mapped to "the agent has restored" and "harmed"
to "a file was damaged".

### MacLifecycle

`user` is the metadata map (owner and life of each entry: live, ghost, or ghost
with its grace elapsed), `kmap` is `mac_tenant_map`. A pass takes its snapshot
(`Sync`), then for each MAC looks up, inserts in userspace, writes the kernel
(which may fail), then collects and marks those that left. A sweep classifies,
deletes in the kernel (which may fail), then in userspace. `raced` records the
MACs that a pass wrote while a sweep held them.

### TrieDelta

The kernel's trie, the committed entries and the wanted ones are functions
from rows to zones; longest-prefix matching is reduced to which rows cover a
destination. A pass upserts added and changed rows in any order, deletes
obsolete rows only when every upsert landed, and commits only when every write
did; deleting a row that is not there is an error, as in the kernel. A packet
asks the tenant's rows and then, separately, the sentinel's. `doubt` records
the rows that a failed pass may have left different from the commit.

### KickLoop

The consumer's `Kick` into a channel of depth one, `Run`'s select over ticker,
channel and debounce timer, and the pass as a fetch and an apply that take any
time. Time is counted in units and passes only when the select has no ready
case. A change of Neutron is a version number, and `seen` is the version the
last committed pass read. Reloads change the debounce window at any moment; a
reload of the interval is left out.

### BillingTiers

One row per MAC; a binding is a server, and through it a project. `settled`
holds the tenants' and the servers' buckets, `released` the total's. The
scraper looks the MAC up and then applies; the reconciler looks up, settles
under the old owner and inserts the new one; the sweeper looks up, settles and
deletes; the collector copies everything in one step and resolves its copies
one by one. Pruning runs at the end of a pass on the lists the pass fetched,
and the server list may be empty because Nova did not answer. Three windows are
named, and mark the series they touch in `slips`: *late* (a byte counted after
the settle and before the rebinding), *raced* (reconciler and sweeper hold the
same MAC) and *torn* (a binding changes between the collector's copy and its
resolve).

### AgentLife

The composition over restarts. `pc` walks the bootstrap's steps in their order
(hunt, load, cold start with its backoff, wiring, restore), then runs, then
drains. `pins`, `entry` and `shelf` are the pin files and the maps behind them:
a boot takes the pinned map up, replaces one of another layout, or, when pinning
is refused, starts with an unpinned map and leaves the old pin. `hook` says what
the attached program counts into and whether its metadata maps were filled.
`work` and `row` are the workers and the place of `drainWorkers`; a worker that
exceeds its budget keeps acting beside the ones that drain after it. There are two
flows, one with a MAC that Neutron lists, which may change hands, leave and come
back, and one with a MAC nobody knows.

A tick is one step here: it reads both flows into the row or into the buffer
(`buf`), folds what has aged out and resets its kernel entry, and may relieve the
known flow's. `Learn` and `MarkGone` are the reconciler's part. A ghost sweep is
its steps (`SweepBegins`, `SweepEvicts`, `SweepSettles`, `SweepDeletes`): it takes
no context, so one that has begun goes on after its worker was cancelled, and the
worker is not done before it. `FlushCopy` and `FlushSave` are the two halves of
every flush, the last one included, with owners resolved in the second; before the
last one `WalSettles` settles the ghosts that linger.

Left to other modules: the steps within a tick and failing resets of kernel entries
(`FlowPipeline`), those of a rebinding (`BillingTiers`), the renames of a save
(`WalFiles`). The Kafka consumer, which only kicks, is left out.

### NetlinkAttach

Links have an index and a reused name. `tc` says for each hook which start of the
agent put a filter in the slot that `Attach` uses. The hunt at boot removes them
one by one, and any of them may escape it. The host creates and deletes links, may
lose filters, and announces a link any number of times, a deleted one behind its
own deletion too (`Announce`); events wait in a channel of depth `ChanDepth`,
beyond which the socket dies; the subscriber re-subscribes, gets a replay of the links in any
order, and sweeps. A sweep visits one link per step, so links come and go under
it. Attach can fail at ingress, at egress with the rollback done, or with the
rollback failing too; a filter list that fails reads as no filters and the link is
attached anew, one that stays interrupted leaves the link as it was. Renames of a
living link are left out, and so are filters that an older build put elsewhere than
in these slots: only the hunt ever touches those.

### Zoning

Prefixes are sets of addresses, so "longest" is "smallest". One operator per step
of `buildTrie`; `Resolve` is the loop of `resolveStaticRouteZone`, and `WalkZone`
says the same without the loop: the network at the end of a path of distinct
routers that hand the destination on. `Candidates` and `Pick` are the labels,
`AmphoraMACs` and `AmphoraBaseIPs` the Octavia join, `lookup_zone` the kernel's
decision. After each change comes a pass, in the order of `reconcileOnce`:
`ApplyTrie`; for each MAC that is new or bound otherwise, `SettleMAC` under the old
label and `InsertMAC`; `GhostMACs` (a departed MAC may stay); `SettleRouters`, the
fold of what rides a changed router interface, under the old map; `ReplaceRouters`,
the swap; `CommitPass` with the amphora base addresses. The scraper counts between
any two of them (`Count`). Bytes are kept as the labels they were shown under:
`carried`, and `late` for those counted after the fold of their flow and before its
new label is published. A change of Neutron waits for the end of a pass here, which
works on the snapshot that it fetched. That writes may fail half way, and that a
packet makes two lookups, is in `TrieDelta`.

### ScenarioCloud and ScenarioRun

`ScenarioCloud` is the cloud as the commands see it: resources with parents,
creations that may lose their reply, deletions that are refused while something
depends on the resource and that end later. `ScenarioRun` is the commands: a
plan of operations for realizing and one for tearing down, in the code's order, the
save after every create, the script's steps with the configuration changes of the
agent host and their restore, interrupts, crashes and re-runs. Driving traffic,
asserting and the preflight are one call that may fail. A script is any sequence of
steps that keeps `ReloadAgentStep`'s precondition (`ScriptsAssumption`): it patches
only a config that an earlier restart backed up, and no restart backs up a patched
one; `InForce` says what the scripts under `src/cmd/scenariotest/scenarios` keep to.

The modules are separate views of one agent and share its vocabulary:
`FlowPipeline` abstracts bindings to known/ghost/unknown, whose lifecycle is
`MacLifecycle`; `BillingTiers` takes the row totals that `FlowPipeline`
maintains and attributes them; `KickLoop` decides when the passes that
`TrieDelta`, `MacLifecycle` and `Zoning` detail run; `AgentLife` puts
`FlowPipeline`'s rows, `WalFiles`' snapshots and `NetlinkAttach`'s hooks, each
reduced to one step per operation, in one process that stops and starts.

## 3. What TLC checks

| Run | Instance | Properties |
|---|---|---|
| `flow_scrape` | 2 flows, one restored from the WAL, map and buffer of size 2 and 1, clock to 4, 1 failing delete | `BilledOnce`, `LossIsLate` |
| `flow_sweep` | 1 flow whose MAC departs and may return, clock to 3, 1 failing delete, fair | `Conserved`, `BufferedEventuallyCounted` |
| `wal_files` | 2 builds, 3 boots, 2 generations, 1 damage per file, a clock of 2 seconds | `Durable`, `OneGenerationLost`, `NeverOverNewer`, `ImplementsStore` |
| `agent_life` | 2 processes, 2 owners, 1 change of owner or departure; 2 bytes of either MAC, or 1 and a worker that outlives its budget | `RestartLossless`, `UnknownAccounted`, `FlushedSeriesSurvive`, `HookClassifies`, `CleanExitSavesAll` |
| `mac_lifecycle` | 2 MACs, 2 owners, 4 changes, 1 failing write, fair | `SupersetUnlessRaced`, `GraceRespected`, `PortsEventuallyBound`, `GoneEventuallyForgotten` |
| `netlink_attach` | 3 links under 2 names, 2 starts, a channel of 2, 1 fault, fair | `Instrumented`, `RegistryTrue`, `EventuallyInstrumented` |
| `zoning` | 7 networks, a ring of 3 routers, 3 VMs, 1 load balancer, 3 changes: of routes, shares and load balancers, or of gateways and floating IPs | `RouteZoneIsWalk`, `OwnTrafficSame`, `SegmentsSplit`, `LabelsAgree`, `BytesKeepLabel` |
| `trie_delta` | 4 rows, 2 zones, 2 destinations, 3 changes, 1 refused write, fair | `KernelIsCommitted`, `WalkMeetsNoGap`, `Converges` |
| `trie_retry` | 3 rows, 1 refused write, fair | violates `FailedPassRetried` |
| `kick_loop` | windows 0, 2, 4 around MaxWait 3, interval 5, 3 changes, 1 failing pass, fair | `NothingForgotten`, `WaitBounded`, `EventuallyFresh` |
| `billing_tiers` | 1 MAC, 2 servers, 2 projects, 2 bytes, 2 passes, 2 scrapes, a server and a project may die | `OwnersExact`, `TotalExact`, `ServersWithinTenant`, `SeriesMonotone` |
| `scenario` | 18 resources, 5 scripts, 2 commands, 2 troubles of which 1 crash and 1 failing call, fair | `RecordLagsByOne`, `TornDownMeansGone`, `ConfigsRestored`, `DownConverges` |

Every module also states its types (`TypeOK`, `LoopTypeOK`, `ZoningTypeOK`), each of
which is a theorem of section 4 and was checked with the same configurations.

### Why the bounds are enough

* `flow_scrape`: two flows are needed so that one's capture evicts the other
  from a buffer of one, and so that relief has a choice; four packets suffice
  for count, drain, delete, re-create, drain. `flow_sweep` gives its one flow
  every phase of a sweep and a return of the MAC.
* `wal_files`: two generations let the second `Save` rotate the first; three
  boots let a downgrade follow an upgrade. Two seconds of the clock let an epoch
  be stamped later, at the same second or at an earlier one.
* `mac_lifecycle`: create, delete, re-create, reassign is four changes.
* `trie_delta`: one destination is covered by both tables, one by two rows of
  the tenant, so a change can move coverage within a table and between them.
* `kick_loop`: the windows lie below, at and above the cap on the wait.
* `agent_life`: the hard cases are a crash or a clean end followed by one more
  boot, with a byte before and a byte after; the second process meets whatever
  pins, filters and snapshot the first one left. In place of one of the bytes a
  worker may be late: the sweeper, the reconciler or the scraper then acts beside the
  final flush.
* `netlink_attach`: a link, its successor of the same name, and another one
  reach every order of events, sweep and reuse; a channel of two overflows; two
  starts make the filters of the first stale.
* `zoning`: the ring is longer than the hop limit of the instance (two), so walks
  end at the limit and come back; one network overlaps another tenant's; three
  changes are two routes and a share, or an amphora made, failed over and deleted.
  Three changes of uplinks set a gateway, move or clear it and bind a floating IP, so
  that one pass rebinds a VM and swaps the router map at once. Zones depend on no
  uplink and labels on no route, so the constraint `Apart` cuts behaviours with both.
* `scenario`: each script is taken with each single fault, with each crash,
  and with one of each; two commands are a run and a second `up`, run or `down`.
  The topology has every kind of resource once and a platform port. A file stands
  for one topology.
* `billing_tiers`: two bytes put one on each side of any window, two scrapes
  show a decrease, two passes reassign or ghost and re-learn; two MACs with one
  byte and one pass were also checked.

`MaxClock`, `MaxFails`, `MaxChanges`, `MaxGen`, `MaxBoots`, `MaxDamage`,
`MaxVersion`, `MaxBytes`, `MaxPasses`, `MaxScrapes`, `Mortal`, `MaxEvents`,
`MaxMoves`, `MaxDelay`, `MaxLinks`, `MaxFaults`, `MaxRoutes`, `MaxEdits`,
`MaxRuns`, `MaxCrashes` and `MaxTroubles` are the bounds;
the proofs do not depend on the ones of the modules they are about.

### Fairness

`FlowPipeline`: weak fairness of the tick's steps and of a buffered entry's
ageing: `scraper.Run` ticks until the process exits and the clock runs.
`MacLifecycle`: of the pass, the sweep and the end of a grace period, for the
same reason. `TrieDelta`: of the pass. `KickLoop`: of the loop's steps and of
time; none of Kafka, whose messages may never come. `NetlinkAttach`: of the
agent being started again (systemd), of the subscriber's goroutine and of the
ticker, whose case of the select cannot lose for ever; a stop is never forced.
`ScenarioRun`: while a command, a deletion the cloud accepted or a live file is
left, something goes on; an operator who leaves a live file alone is not covered
(the error says "re-run to converge"). Nothing is assumed of Neutron, of packets or
of failures: they may happen or not, up to the bounds.

Deadlock is not checked in `AgentLife`, `BillingTiers`, `NetlinkAttach`,
`Zoning` and `ScenarioRun`, whose instances end when boots, bytes, links, changes
or commands are used up.

## 4. What is proved

The proofs are in the modules `*Proofs`; the statements hold for all values of
the constants that satisfy the named assumptions. Each follows the same plan: an
inductive invariant, one lemma per action that shows it preserved, and the property
as a consequence. Every invariant and every action property that a run checks is a
theorem here.

* `FlowPipelineProofs` (`TypeCorrect`, `Conservation`, `TenantBilledOnce`,
  `LossBounded`). `Conserved` is not inductive: to know that a delta adds
  exactly what is unread one needs that the baseline of a row describes the
  entry that is there (equal stamps, value not above it) or that the entry is
  another. `IInv` is `TypeOK`, the control state of tick and sweep, and for
  each flow `FlowInv`: the shape of row, entry and reading, the order of stamps
  (`Stamps`, `RowOlder`), values bounded by the counter (`Bounded`) and the
  balance (`Ledger`).
* `WalFilesProofs` (`TypeCorrect`, `Durability`, `DamageBounded`,
  `NewerRefused`, `LossAlwaysDeclared`). `IInv` speaks of every directory that
  a power loss may leave: the primary is worth at least the last acknowledged
  generation, the backup at least the one before, and the backup of a missing
  primary at least the last.
  The same module shows the refinement (`FilesImplementStore`: `Spec =>
  ImplementsStore`): every step of `WalFiles` is a step of `CheckpointStore` or a
  stutter, for any builds and bounds. `IInv` gives what a boot finds at least; the
  abstract restart also says what it finds at most, which needs `Ahead`: while
  nothing is damaged, no directory that a power loss may leave holds a generation
  beyond the one the present directory yields, and that one is not beyond the run.
  With damage this is false (a failed quarantine and a power loss bring a later
  generation back), so the abstract store bounds the generation from above only
  when unharmed.
* `TrieDeltaProofs` (`TypeCorrect`, `NeverAGap`, `KernelFollowsCommits`,
  `NoPacketMeetsAGap`). `IInv` tells the rows of a pass apart: untouched ones are
  as committed, written ones as wanted, the rest in `todo` or in `doubt`. For the
  packet, whose two lookups read the kernel at different moments, `WalkInv` keeps
  what the first one missed until the second: a table that serves a destination
  before and after the pass serves it at every moment between.
* `ReconcileProofs` has three subjects.
  When passes run (`KickLoop`: `LoopTypeCorrect`, `NoKickForgotten`,
  `DebounceBounded`): `LoopInv` adds that a token in the channel or an armed timer
  stands for what was handled since the last fetch, and that elapsed and remaining
  wait add up to at most `MaxWait`.
  What they publish (`Zoning`): for `BytesKeepTheirLabel`, `LabelsAlwaysAgree` and
  `SegmentsAreSplit`, `ZInv` adds how far a running pass is (`PartInv`: from the
  routers on, every wanted MAC is bound as wanted), that a flow in the window between
  its fold and its new label has no bytes but late ones (`LabelInv`), that flagged
  ports are those of the load balancers with the owners they bill, and that no
  address is in the kernel that was never an amphora's. There is one lemma per step
  of a pass: a fold credits the label that the bytes carry (`SettleMACKeeps`,
  `SettleRoutersKeeps`), and an insert or the swap changes the label of flows in
  their window only (`InsertMACKeeps`, `ReplaceRoutersKeeps`); so a pass that folds
  a flow too few, too late or under the new label is refuted at that step. For
  `RoutesResolveToWalk` and `OwnTrafficStaysSame`, `TrieInv` says that after a pass
  the rows and the kernel trie are those of the topology, and the work is in the
  operators: the resolver is a recursive function whose definition is a `CHOOSE`, so
  that there is such a function has to be shown first (`LoopExists`: its values up to
  each number of hops, and a least number where they would fail), and then that its
  value at the end of a path is `WalkZone` (`ResolveIsWalk`). That is an induction
  over the hops left, which the prover cannot take from the library; it is made by
  contradiction instead, from a longest path at which loop and walk differ
  (`LeastRank`, `HopOnce`). Paths of one length are equal (`PathsEqual`), which is
  why picking one of them is no choice. Of the trie, `LastRow` says that a key holds
  the zone of one of its rows and `TenantRows` that a tenant's rows are of its
  networks or routes. `ZoningTypeCorrect` needs `RowsTyped`, and with it that the
  loop ends in a zone.
  What happens to bindings (`MacLifecycle`: `MacTypeCorrect`,
  `KernelWithinUserspace`, `GraceAlwaysRespected`): `MacIInv` adds what pass and
  sweep know of the MACs they hold, outside `raced`: a MAC held by a sweep has
  expired, a swept one is not in the kernel, one about to be ghosted or written is
  live.
* `NetlinkAttachProofs` (`TypeCorrect`, `RestIsInstrumented`, `RegistryIsTrue`).
  The properties speak of a subscriber at rest; `IInv` says
  what holds while it works: what the registry gets wrong, the queue still has to
  say. A wanted link without filters has its creation queued, a name registered for
  nobody has a deletion queued, and, as names are reused, the deletion of a name's
  earlier bearer is queued ahead of the creation of the living one. A sweep builds
  the same relation for the list that it is about to make the registry, whatever
  was lost before it.
* `AgentLifeProofs` (`TypeCorrect`, `RestartsAreLossless`, `UnknownsAreAccounted`,
  `FlushedSeriesComeBack`, `HookAlwaysClassifies`, `CleanExitIsComplete`). What a
  crash finds is settled before it happens, so the ledgers of both flows have to
  balance three times: for the state in use, for the copy on its way to the disk and
  for the snapshot there, each with what it misses (`hist.miss`) and what it holds
  twice (`hist.twice`). Each of the three rows has to be comparable with the map in
  use and with the one on the shelf, so that the next boot's first delta is right
  whichever it takes up, and a buffered entry of the unknown MAC has what the kernel
  had when it was read last (`StampInv`). For the exit, `DrainInv`: as long as nobody
  was late, whoever drained before the present row is done, so that neither a sweep
  nor a pass nor a tick comes between the final copy and its save; a sweep that has
  begun keeps its worker from being done (`ControlInv`).
* `BillingTiersProofs` (`TypeCorrect`, `OwnersAreExact`, `TotalIsExact`,
  `ServersStayWithin`, `SeriesNeverDip`). The invariant is about the windows: when
  somebody holds an old binding (the reconciler, the sweeper, the collector's copy)
  while it changes, the series of both bindings are in `slips`; otherwise a row
  whose binding is about to change was drained. For the collector, what its copies
  will add up to lies between what was shown last and what is due. The sums over
  MACs and series are handled by a few lemmas on `MapThenSumSet` (adding one
  element, changing one summand, comparing two sums), each proved from a minimal
  counterexample among the finite subsets, since induction is not available.
* `ScenarioRunProofs` (`TypeCorrect`, `PlanInvariant`, `MemoryInvariant`,
  `CloudStaysRooted`, `RecordCovers`, `RecordLags`, `TornDownIsGone`,
  `ConfigsComeBack`). The state of a command is the sequence of what it has still to
  do, so everything rests on `Plan`: in each phase, what is left is made of that
  phase's operations, and every create is followed at once by its record (`Chains`).
  `Chains` is closed under concatenation, flattening and taking the tail; the plans
  and the sixteen kinds of steps are shown to be in it one by one. On it stand three
  arguments.
  *The record.* `Rooted`: OpenStack keeps no port without its subnet or network.
  `Record`: a command that may still create has saved what it knows, projects are
  recorded before networks and those before subnets, so that every readable file
  leads a teardown to the servers, ports and subnets it does not name. `Lag`: the
  live resources that are not recorded, but for the ports other services make,
  number at most one per command that created; while a command may still create, its own one is not spent
  (the resource it is about to record apart). `RecordLagsByOne` follows.
  *The teardown.* `Remaining`: while nothing has failed, every live and recorded
  resource of those kinds, and every live server, has the operation that ends it still
  to come: in a later part, or in what is left of this one. So at its end none is left
  (`Erased`), and by `Rooted` no port or subnet either.
  *The config.* `ConfigKnown`: while no loss was declared, a script with a patched
  config owes a restore or is about to note it, the backup is the host's own config,
  and a `set-config` is in force unless the script has failed or is restoring.

The assumptions are those of the modules, which TLC evaluates on the instances.
Those that the proofs added: the sets of tenants, servers and MACs are finite and
`NoTenant` is none (`AgentLife`, `BillingTiers`), at least one link can exist
(`NetlinkAttach`), and `PortsAssumption` of `Zoning`: an address of a network
belongs to one port and a MAC to one port or amphora, which Neutron enforces for
addresses, and for MACs within a network; the code's maps are keyed by MAC alone
and presuppose the rest. `TopologyAssumption` and `OwnersAssumption` of `Zoning`
give the constants their types (finite address space, prefixes within it, an owner
for each network, router and load balancer); `TopologyAssumption` of `ScenarioCloud`
and `ScenarioAssumption` say the same of the scenarios' topologies: parents of the
right kind, and a project to start with. `ScriptsAssumption` is the
precondition above: without it `ConfigsRestored` is false, as a second `set-config`
would back up the patched config.

Only model-checked: the liveness properties (fairness and ENABLED are out of the
prover's reach: `BufferedEventuallyCounted`, `PortsEventuallyBound`,
`GoneEventuallyForgotten`, `EventuallyInstrumented`, `Converges`, `EventuallyFresh`
and `DownConverges`), and the violation.

## 5. Where code and words disagree

One statement is refuted by a run (`PROJECT.json`, "findings"):

* `trie_retry` (a bug): after one refused delete, the rows already deleted
  answer `ErrKeyNotExist` in every later pass, which counts as a failure. No
  pass commits any more, and MAC reconciliation, which comes after, stops too.

More are stated as definitions at the end of their modules; adding one to the
configuration of its module makes TLC print a counterexample:

* `MacLifecycle!KernelWriteRetried`: a failed kernel write of a binding is not
  retried (`mac.go:186` says the next pass does).
* `KickLoop!TickCovers`: a tick whose pass fails drops the waiting kick
  (`reconcile.go:218`).
* `FlowPipeline!NeverCountedTwice`: a buffered flow whose entry is re-created is
  counted twice after late binding (`classifier.go`, `Absorb`).
* `BillingTiers!TenantNeverDips`: contract 7 (`contracts.md:20`) holds only outside
  the three windows of `BillingTiers`.
* `AgentLife!UnknownCountedOnce`: the sweep at shutdown does not reset the kernel
  entries it folds because "the maps are about to be replaced on the next boot" (`buffer.go:127`), but
  `telemetry_map` is pinned (`bootstrap_linux.go:470`): the next process folds the
  same bytes again.
* `Zoning!ShownBytesStay`: bytes counted between the fold of a flow and the insert or the
  swap that changes its label are shown under the old label and then move to the new
  one, so the old series falls; `routers.go:2-5` says that settling first keeps the
  series monotone. `BytesKeepLabel` holds of all others.
* `Zoning!GatewayIsInfra`: the tenant's own SAME_TENANT row is asked before the global
  `gateway_ip/32` row, so what comes from the gateway's address of a tenant's own
  subnet bills as its own (`OwnTrafficSame`); `trie-construction.md:299` and
  `edge-cases.md:41` say that DHCP responses from it are INFRA.
* `Zoning!DebugMirrorsKernel`: where a route's row and another row of the tenant
  have the same prefix, the kernel keeps the last written, the debug page's
  `LookupZone` reports the first (`lookup.go:27` says it mirrors the kernel).
* `Zoning!StaleBaseHarmless`: a base address left behind by a failover and handed
  out again as a VIP of the same tenant makes traffic to that VIP infra
  (`reconcile.go:346` says a stale row costs a label on a MAC that no longer
  resolves).

Others are visible as the named exceptions of the passing properties: relief
destroys what arrived since the drain (`LossIsLate`; `scraper.go:173` says it
"loses nothing"); the LRU cap and the ghost sweep can fold a flow whose reading
is still to be applied (`foldedLive`, `settledLive`); a MAC learnt under a sweep
can stay in the kernel alone (`raced`; `metadata.go:10` says "strict
SUPERSET"); rows a failed pass wrote and Neutron takes back stay in the kernel
(`doubt`; `trie-construction.md:380`); a prefix that moves between the tenant's
table and the sentinel's can be missed by both lookups (`WalkMeetsNoGap`;
`trie-construction.md:393`); a failed quarantine puts the good backup at risk,
which is why `OneGenerationLost` asks that quarantines succeed.

In `AgentLife` the properties name what the design accepts, in `hist`:

* `RestartLossless` misses what relief deleted since the last save when the process
  ends, what the eviction of a departed MAC's entry found unread, and, when a boot
  cannot take the pinned map up, what it held since the last save. It claims nothing
  once a boot that could not pin has left the old pin and a later one takes it up
  with counters older than its snapshot (`reused`), nor once a departed MAC's counter
  was read as unknown or outlived the row that knew its baseline (`astray`).
* `UnknownAccounted` misses what was folded and reset since the last save when the
  process ends, and the whole entry when another map is taken up; it repeats what a
  drain folded and saved without a reset. With these it is exact.
* `FlushedSeriesSurvive` leaves out a flush in which a pass or a sweep changed the
  binding between the copy of the rows and the resolving of their owners (`torn`), and
  a row that was counted into between the sweep's settle and its delete (`orphan`).
* `CleanExitSavesAll` speaks of drains in which every worker kept its budget: one that
  was late may sweep, rebind or count after the final copy (`worker.go:93` says that
  the ordering is forfeited).

In `WalFiles` the epoch is a wall clock's second: two boots within one second, or a
clock set back, give an epoch that was there before, and a reader who compares epochs
misses the reset (`tied`).

In `ScenarioRun`: the run-state is saved by `os.WriteFile`, not by a rename, and a
kill in the middle leaves a file no command can read, with the topology behind it
(`file.torn`); a create whose reply is lost leaves one resource that is on no record,
and the ports that the platform and Octavia make are never on one (`RecordLagsByOne`
counts one per command and excuses those ports);
a lost reply to the configuration patch is not marked dirty, and the restore first
asks a baseline of an agent that may be down (`hist.excused`); a second `set-config`
would overwrite the backup, and only the scripts see to it that there is none; an
unrecorded floating IP makes the first `down` fail at detaching, and the second one
converges.

## 6. What is not modelled, and why

* The OpenStack client and its lists: HTTP and decoding. What fails and what is
  fatal is in `BillingTiers.Sync` and `Zoning.ApplyTrie`.
* Configuration loading, validation and the reload of most tunables: pure decoding
  into values that are constants of the modules; the debounce window, which a loop
  reads while it waits, is reloaded in `KickLoop`.
* `anomalies.go`, debug pages other than the lookup, metrics bundles and logs:
  nothing reads them back. The refusal of ambiguous routes at boot is a cold start
  that fails.
* The tenant interner: it gives out numbers that never repeat; the modules name
  tenants directly.
* Header parsing and the L4 class in `telemetry.c`, packet counters, per-CPU values,
  the port and protocol families of the collector: data that no property tells
  apart.
* The wire structs of the WAL: a file is readable or not, of a schema, worth a
  generation.
* What scenario steps drive and assert, placement, the report, load tests and
  benchmarks: they observe the agent and change nothing of it.
* In `NetlinkAttach`, renames of living links, and filters of an older build outside
  the slots that `Attach` uses (a hunt that fails to delete one leaves it, and packets
  are then counted twice, which nothing in the agent sees).

Worth doing next: a run-state file that a later command starts a new topology over,
and renames of links.
