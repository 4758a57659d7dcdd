---------------------------- MODULE FlowPipeline ----------------------------
(***************************************************************************)
(* The byte-accounting pipeline of one agent process.                      *)
(*                                                                         *)
(*   kernel telemetry_map --BatchLookup--> scraper --Absorb--> GlobalState *)
(*                                            |                            *)
(*                                            +--Capture--> UnresolvedBuffer*)
(*                                                                         *)
(* Actors: the packets of the VMs (bpf/telemetry.c), the scraper goroutine *)
(* with the classifier, the buffer and pressure relief it drives, the      *)
(* reconciler that learns, ghosts and re-attributes MACs, and the ghost    *)
(* sweeper.  No lock spans two of them: GlobalState's mutex covers one     *)
(* call, the buffer belongs to the scraper, a reading is stale as soon as  *)
(* it is taken.                                                            *)
(*                                                                         *)
(* Abstractions.  Only the byte counter is kept (packets move with it,     *)
(* statement for statement).  A reading is the sum over the CPUs, taken    *)
(* for all flows at once: the flows' counters are independent.  Time is    *)
(* the packet clock for stamps; grace periods and the buffer TTL elapse    *)
(* whenever the model likes.  GlobalState's settled buckets and the        *)
(* synthetic "unknown" rows are kept per contributing flow, so that a      *)
(* flow's bytes can be followed; a bucket's value is the sum.              *)
(***************************************************************************)
EXTENDS Integers, FiniteSets

CONSTANTS
    Flows,        \* flow keys
    Macs,         \* VM MACs
    VMMAC,        \* the VM-side MAC of each flow key
    BootLive,     \* MACs the Neutron cold start learnt
    Departing,    \* MACs whose port may leave Neutron
    Restorable,   \* flows that may come back from the WAL over a pinned map
    PktSizes,     \* packet lengths
    MaxEntries,   \* capacity of telemetry_map
    High, Low,    \* pressure watermarks, in entries
    MaxPerPass,   \* pressure_max_per_pass
    Cap,          \* unresolved_cap
    MaxClock,     \* bound on the number of packets
    MaxFails      \* bound on the passes in which a telemetry_map delete fails

ASSUME PipelineAssumption ==
    /\ VMMAC \in [Flows -> Macs]
    /\ BootLive \subseteq Macs
    /\ Departing \subseteq Macs
    /\ Restorable \subseteq Flows
    /\ PktSizes \subseteq Nat \ {0}
    /\ MaxEntries \in Nat /\ High \in Nat /\ Low \in Nat /\ Low <= High
    /\ MaxPerPass \in Nat /\ Cap \in Nat \ {0}
    /\ MaxClock \in Nat /\ MaxFails \in Nat

VARIABLES
    kernel,    \* telemetry_map; created = 0 is an absent entry
    fails,     \* passes in which a delete failed so far
    clock,     \* bpf_ktime_get_ns(), one tick per packet
    meta,      \* the userspace metadata map: absent, live or ghost
    pc,        \* where the scraper is in Tick
    buf,       \* the scraper's drained readings
    todo,      \* flows of buf not yet absorbed
    applying,  \* the flow between Classifier.Lookup/Resolve and ApplyDelta
    relieving, \* PressureReliever.relieving
    rows,      \* flows with a row in GlobalState.counts
    count,     \* those rows: Total, LastEbpfRaw and its CreatedNs
    held,      \* flows with an entry in the UnresolvedBuffer
    entry,     \* those entries: total, lastRaw and its CreatedNs
    older,     \* the LRU list: <<j, k>> when j was captured before k
    aged,      \* held flows whose TTL has elapsed
    unknown,   \* bytes folded into the synthetic "unknown" rows, per flow
    settled,   \* bytes folded into the settled buckets, per flow
    gc,        \* phase of the ghost sweeper
    swept,     \* the MACs of its current sweep
    sent,      \* history: bytes the kernel counted
    lost,      \* history: bytes destroyed with an entry before a read
    late,      \* history: bytes that arrived since the last BatchLookup
    slips      \* history: the windows a flow fell into (see below)

kernelVars == <<kernel, clock, fails>>
scrapeVars == <<pc, buf, todo, applying, relieving>>
stateVars  == <<rows, count, settled, unknown>>
bufferVars == <<held, entry, older, aged>>
sweepVars  == <<gc, swept>>
ledgerVars == <<sent, lost, late, slips>>
vars == <<kernelVars, meta, scrapeVars, stateVars, bufferVars, sweepVars,
          ledgerVars>>

NoFlow == [bytes |-> 0, created |-> 0, seen |-> 0]
NoCount == [total |-> 0, raw |-> 0, stamp |-> 0]

\* The stamp of the entries that survive, pinned, from the previous process.
BootStamp == 1

(***************************************************************************)
(* The windows in which a baseline and the counter it describes part.      *)
(*   settledLive  SettleEvict drops a row whose counter goes on            *)
(*   foldedLive   the buffer drops an entry whose counter goes on          *)
(*   recreated    a reading is diffed by value against the baseline of     *)
(*                another incarnation of the entry                         *)
(*   diverted     a flow with a row is captured whole by the buffer        *)
(***************************************************************************)
SlipKinds == {"settledLive", "foldedLive", "recreated", "diverted"}

-----------------------------------------------------------------------------
(* Which bytes of an incarnation are already counted.                      *)

\* A baseline stamped s describes the incarnation c; a v6 WAL has no stamp.
Describes(s, c) == c # 0 /\ (s = c \/ (s = 0 /\ c = BootStamp))

\* How much of k's incarnation c the accounts already hold.
Base(k, c) ==
    IF k \in held
    THEN IF Describes(entry[k].stamp, c) THEN entry[k].raw ELSE 0
    ELSE IF k \in rows /\ Describes(count[k].stamp, c) THEN count[k].raw ELSE 0

\* The part of a drained, unabsorbed reading that is not yet counted.
InFlight(k) == IF k \in todo THEN buf[k].bytes - Base(k, buf[k].created) ELSE 0

\* The part of the kernel counter no reading has seen.
Unread(k) ==
    kernel[k].bytes - IF k \in todo /\ buf[k].created = kernel[k].created
                      THEN buf[k].bytes
                      ELSE Base(k, kernel[k].created)

\* A counter or a reading that still continues from k's baseline.
LiveBaseline(k) == \/ Base(k, kernel[k].created) # 0
                   \/ k \in todo /\ Base(k, buf[k].created) # 0

Slip(kind, K) == [k \in Flows |-> IF k \in K THEN slips[k] \cup {kind} ELSE slips[k]]

\* telemetry_map deletes of the flows D, of which those in failed fail and
\* stay; an absent key is no error.
DeleteEntries(K, failed) ==
    LET D == K \ failed IN
    /\ failed # {} => fails < MaxFails
    /\ fails' = IF failed = {} THEN fails ELSE fails + 1
    /\ kernel' = [k \in Flows |-> IF k \in D THEN NoFlow ELSE kernel[k]]
    /\ lost' = [k \in Flows |-> IF k \in D THEN lost[k] + Unread(k) ELSE lost[k]]

-----------------------------------------------------------------------------
(* The data path: bpf/telemetry.c.                                         *)

\* A map update on a full map fails and counts nothing.
HasRoom == Cardinality({j \in Flows : kernel[j].created # 0}) < MaxEntries

HandlePacket(k, n) ==
    /\ clock < MaxClock
    /\ kernel[k].created # 0 \/ HasRoom
    /\ clock' = clock + 1
    /\ kernel' = [kernel EXCEPT ![k] =
                    [bytes   |-> kernel[k].bytes + n,
                     created |-> IF kernel[k].created # 0 THEN kernel[k].created
                                                         ELSE clock + 1,
                     seen    |-> clock + 1]]
    /\ UNCHANGED fails
    /\ sent' = [sent EXCEPT ![k] = sent[k] + n]
    /\ late' = [late EXCEPT ![k] = late[k] + n]
    /\ UNCHANGED <<meta, scrapeVars, stateVars, bufferVars, sweepVars, lost, slips>>

-----------------------------------------------------------------------------
(* The scraper: Tick = BatchLookup, Absorb each, Sweep(false), Relieve.    *)

\* Fault: a page of the drain is dropped and the rest taken for the whole map.
BatchLookupPartial ==
    /\ pc = "idle"
    /\ pc' = "absorb"
    /\ \E S \in SUBSET {k \in Flows : kernel[k].created # 0} :
         /\ buf' = [k \in Flows |-> IF k \in S THEN kernel[k] ELSE NoFlow]
         /\ todo' = S
    /\ late' = [k \in Flows |-> 0]
    /\ UNCHANGED <<kernelVars, meta, applying, relieving, stateVars, bufferVars,
                   sweepVars, sent, lost, slips>>

BatchLookup ==
    /\ pc = "idle"
    /\ pc' = "absorb"
    /\ buf' = kernel
    /\ todo' = {k \in Flows : kernel[k].created # 0}
    /\ late' = [k \in Flows |-> 0]
    /\ UNCHANGED <<kernelVars, meta, applying, relieving, stateVars, bufferVars,
                   sweepVars, sent, lost, slips>>

Known(k) == meta[VMMAC[k]] # "absent"

\* The buffer forgets the flows D (drop: the map and the LRU list).
Forget(D) ==
    /\ held' = held \ D
    /\ entry' = [k \in Flows |-> IF k \in D THEN NoCount ELSE entry[k]]
    /\ older' = {p \in older : p[1] \notin D /\ p[2] \notin D}
    /\ aged' = aged \ D

\* GlobalState.Resolve: the buffered total and the baseline move to the row.
ResolveRow(k) ==
    /\ rows' = rows \cup {k}
    /\ count' = [count EXCEPT ![k] = [total |-> count[k].total + entry[k].total,
                                      raw   |-> entry[k].raw,
                                      stamp |-> entry[k].stamp]]
    /\ UNCHANGED <<settled, unknown>>

\* Fault: Buffer.Resolve hands the entry over and does not drop it.
AbsorbKnownKeepsEntry(k) ==
    /\ pc = "absorb" /\ applying = {} /\ k \in todo
    /\ Known(k)
    /\ applying' = {k}
    /\ \/ k \in held /\ ResolveRow(k)
       \/ k \notin held /\ UNCHANGED stateVars
    /\ UNCHANGED <<kernelVars, meta, pc, buf, todo, relieving, bufferVars, sweepVars,
                   ledgerVars>>

\* Absorb, known MAC, up to the unlock after Buffer.Resolve.
AbsorbKnown(k) ==
    /\ pc = "absorb" /\ applying = {} /\ k \in todo
    /\ Known(k)
    /\ applying' = {k}
    /\ \/ k \in held /\ ResolveRow(k) /\ Forget({k})
       \/ k \notin held /\ UNCHANGED <<stateVars, bufferVars>>
    /\ UNCHANGED <<kernelVars, meta, pc, buf, todo, relieving, sweepVars, ledgerVars>>

\* AddDelta: what a reading adds to a total whose baseline is last.
Delta(last, cur) == IF cur >= last THEN cur - last ELSE cur

\* Fault: the delta by value only, blind to the entry's CreatedNs.
RowDeltaByValue(k) ==
    IF k \in rows THEN Delta(count[k].raw, buf[k].bytes) ELSE buf[k].bytes

\* What ApplyDelta adds to the row, by the identity of the entry.
RowDelta(k) ==
    IF k \notin rows \/ count[k].stamp \notin {0, buf[k].created}
    THEN buf[k].bytes
    ELSE Delta(count[k].raw, buf[k].bytes)

ApplyDelta(k) ==
    /\ k \in applying
    /\ rows' = rows \cup {k}
    /\ count' = [count EXCEPT ![k] = [total |-> count[k].total + RowDelta(k),
                                      raw   |-> buf[k].bytes,
                                      stamp |-> buf[k].created]]
    /\ applying' = {}
    /\ todo' = todo \ {k}
    /\ slips' = Slip("recreated",
                     {j \in {k} : /\ k \in rows /\ count[k].stamp = 0
                                  /\ buf[k].created # BootStamp})
    /\ UNCHANGED <<kernelVars, meta, pc, buf, relieving, settled, unknown,
                   bufferVars, sweepVars, sent, lost, late>>

\* Capture of a flow already buffered: delta by value, moved to the front.
CaptureAgain(k) ==
    /\ pc = "absorb" /\ applying = {} /\ k \in todo
    /\ ~Known(k) /\ k \in held
    /\ entry' = [entry EXCEPT ![k] =
                   [total |-> entry[k].total + Delta(entry[k].raw, buf[k].bytes),
                    raw   |-> buf[k].bytes,
                    stamp |-> entry[k].stamp]]
    /\ older' = {p \in older : k \notin {p[1], p[2]}}
                  \cup {<<j, k>> : j \in held \ {k}}
    /\ todo' = todo \ {k}
    /\ slips' = Slip("recreated", {j \in {k} : entry[k].stamp # buf[k].created})
    /\ UNCHANGED <<kernelVars, meta, pc, buf, applying, relieving, stateVars, held,
                   aged, sweepVars, sent, lost, late>>

\* The entry a first sight seeds, and the LRU list with it at the front.
FirstEntry(k) == [total |-> buf[k].bytes, raw |-> buf[k].bytes,
                  stamp |-> buf[k].created]
Pushed(k) == older \cup {<<j, k>> : j \in held}

\* Flows whose row the first sight of k overlooks.
Diverted(k) == {j \in {k} : k \in rows /\ Describes(count[k].stamp, buf[k].created)}

\* Capture of a first sight that fits.
CaptureFirst(k) ==
    /\ pc = "absorb" /\ applying = {} /\ k \in todo
    /\ ~Known(k) /\ k \notin held
    /\ Cardinality(held) < Cap
    /\ held' = held \cup {k}
    /\ entry' = [entry EXCEPT ![k] = FirstEntry(k)]
    /\ older' = Pushed(k)
    /\ todo' = todo \ {k}
    /\ slips' = Slip("diverted", Diverted(k))
    /\ UNCHANGED <<kernelVars, meta, pc, buf, applying, relieving, stateVars, aged,
                   sweepVars, sent, lost, late>>

\* Capture of a first sight over the cap: evictOverCap folds the oldest
\* entry v into "unknown" and resets its kernel entry, failed or not.
CaptureEvict(k, v, failed) ==
    /\ pc = "absorb" /\ applying = {} /\ k \in todo
    /\ ~Known(k) /\ k \notin held
    /\ Cardinality(held) >= Cap
    /\ v \in held /\ \A j \in held : <<j, v>> \notin older
    /\ held' = (held \cup {k}) \ {v}
    /\ entry' = [entry EXCEPT ![k] = FirstEntry(k), ![v] = NoCount]
    /\ older' = {p \in Pushed(k) : v \notin {p[1], p[2]}}
    /\ aged' = aged \ {v}
    /\ unknown' = [unknown EXCEPT ![v] = unknown[v] + entry[v].total]
    /\ DeleteEntries({v}, failed)
    /\ todo' = todo \ {k}
    /\ slips' = [j \in Flows |->
                   slips[j] \cup (IF j \in Diverted(k) THEN {"diverted"} ELSE {})
                     \cup (IF /\ j = v
                              /\ \/ v \in todo /\ Base(v, buf[v].created) # 0
                                 \/ v \in failed /\ Base(v, kernel[v].created) # 0
                           THEN {"foldedLive"} ELSE {})]
    /\ UNCHANGED <<clock, meta, pc, buf, applying, relieving, rows, count, settled,
                   sweepVars, sent, late>>

\* The TTL of a buffered flow elapses.
Age(k) ==
    /\ k \in held \ aged
    /\ aged' = aged \cup {k}
    /\ UNCHANGED <<kernelVars, meta, scrapeVars, stateVars, held, entry, older,
                   sweepVars, ledgerVars>>

\* Fault: only a forced sweep folds.
SweepForceOnly(failed) ==
    /\ pc = "absorb" /\ todo = {}
    /\ failed = {}
    /\ pc' = "relieve"
    /\ UNCHANGED <<kernelVars, meta, buf, todo, applying, relieving, stateVars,
                   bufferVars, sweepVars, ledgerVars>>

\* Sweep(false): every expired entry is folded and its kernel entry reset;
\* the resets of the flows in failed fail.
Sweep(failed) ==
    /\ pc = "absorb" /\ todo = {}
    /\ failed \subseteq aged
    /\ pc' = "relieve"
    /\ unknown' = [k \in Flows |->
                     IF k \in aged THEN unknown[k] + entry[k].total ELSE unknown[k]]
    /\ Forget(aged)
    /\ DeleteEntries(aged, failed)
    /\ slips' = Slip("foldedLive", {k \in failed : LiveBaseline(k)})
    /\ UNCHANGED <<clock, meta, buf, todo, applying, relieving, rows, count, settled,
                   sweepVars, sent, late>>

Drained == {k \in Flows : buf[k].created # 0}

\* selectOldest: want keys, none of them seen after a key left behind.
SelectOldest(V, want) ==
    /\ V \subseteq Drained /\ Cardinality(V) = want
    /\ \A v \in V, u \in Drained \ V : buf[v].seen <= buf[u].seen

\* Relieve returns without evicting: under the floor, or between the
\* watermarks outside a cycle.
NoRelief ==
    /\ pc = "relieve"
    /\ LET n == Cardinality(Drained) IN
       \/ n <= Low /\ relieving' = FALSE
       \/ n > Low /\ ~relieving /\ n <= High /\ UNCHANGED relieving
    /\ pc' = "idle"
    /\ buf' = [k \in Flows |-> NoFlow]
    /\ UNCHANGED <<kernelVars, meta, todo, applying, stateVars, bufferVars, sweepVars,
                   ledgerVars>>

\* Relieve evicts the oldest drained flows V; the deletes in failed fail.
Relieve(V, failed) ==
    /\ pc = "relieve"
    /\ LET n == Cardinality(Drained) IN
       /\ n > Low /\ (relieving \/ n > High)
       /\ SelectOldest(V, IF n - Low > MaxPerPass THEN MaxPerPass ELSE n - Low)
    /\ relieving' = TRUE
    /\ DeleteEntries(V, failed)
    /\ pc' = "idle"
    /\ buf' = [k \in Flows |-> NoFlow]
    /\ UNCHANGED <<clock, meta, todo, applying, stateVars, bufferVars, sweepVars,
                   sent, late, slips>>

-----------------------------------------------------------------------------
(* The reconciler, as far as it touches accounting.                        *)

Learn(m) ==
    /\ meta[m] # "live"
    /\ meta' = [meta EXCEPT ![m] = "live"]
    /\ UNCHANGED <<kernelVars, scrapeVars, stateVars, bufferVars, sweepVars, ledgerVars>>

\* ghostGoneMACs: MarkDelete stamps a grace deadline.
MarkDelete(m) ==
    /\ m \in Departing /\ meta[m] = "live"
    /\ meta' = [meta EXCEPT ![m] = "ghost"]
    /\ UNCHANGED <<kernelVars, scrapeVars, stateVars, bufferVars, sweepVars, ledgerVars>>

RowsOf(M) == {k \in rows : VMMAC[k] \in M}

\* Settle folds the rows K into the settled buckets.
Fold(K) == settled' = [k \in Flows |->
                         IF k \in K THEN settled[k] + count[k].total ELSE settled[k]]

\* settleAttributionChange: SettleRebase keeps the row and its baseline.
SettleRebase(m) ==
    /\ meta[m] # "absent"
    /\ \E k \in RowsOf({m}) : count[k].total # 0
    /\ Fold(RowsOf({m}))
    /\ count' = [k \in Flows |-> IF k \in RowsOf({m})
                                 THEN [count[k] EXCEPT !.total = 0] ELSE count[k]]
    /\ UNCHANGED <<kernelVars, meta, scrapeVars, rows, unknown, bufferVars, sweepVars,
                   ledgerVars>>

-----------------------------------------------------------------------------
(* The ghost sweeper: deleteKernelMACs, evictResidualFlows, settleSwept,   *)
(* deleteUserspace, each under its own locks.                              *)

\* classify and deleteKernelMACs: M is expired and left mac_tenant_map.
DeleteKernelMACs(M) ==
    /\ gc = "idle"
    /\ M # {} /\ \A m \in M : meta[m] = "ghost"
    /\ gc' = "flows" /\ swept' = M
    /\ UNCHANGED <<kernelVars, meta, scrapeVars, stateVars, bufferVars, ledgerVars>>

EvictResidualFlows(failed) ==
    /\ gc = "flows"
    /\ gc' = "settle"
    /\ DeleteEntries({k \in Flows : VMMAC[k] \in swept}, failed)
    /\ UNCHANGED <<clock, meta, scrapeVars, stateVars, bufferVars, swept, sent, late,
                   slips>>

\* settleSwept: SettleEvict deletes the rows it folds.
SettleSwept ==
    /\ gc = "settle"
    /\ gc' = "userspace"
    /\ Fold(RowsOf(swept))
    /\ rows' = rows \ RowsOf(swept)
    /\ count' = [k \in Flows |-> IF k \in RowsOf(swept) THEN NoCount ELSE count[k]]
    /\ slips' = Slip("settledLive", {k \in RowsOf(swept) \ held : LiveBaseline(k)})
    /\ UNCHANGED <<kernelVars, meta, scrapeVars, unknown, bufferVars, swept, sent, lost,
                   late>>

DeleteUserspace ==
    /\ gc = "userspace"
    /\ gc' = "idle" /\ swept' = {}
    /\ meta' = [m \in Macs |-> IF m \in swept THEN "absent" ELSE meta[m]]
    /\ UNCHANGED <<kernelVars, scrapeVars, stateVars, bufferVars, ledgerVars>>

-----------------------------------------------------------------------------
\* A flow that is new, or one whose pinned entry and WAL row both survived.
Init ==
    /\ \E R \in SUBSET Restorable, stamp \in {0, BootStamp},
          b \in PktSizes, r \in PktSizes :
         /\ r <= b
         /\ kernel = [k \in Flows |-> IF k \in R
               THEN [bytes |-> b, created |-> BootStamp, seen |-> BootStamp] ELSE NoFlow]
         /\ rows = R
         /\ count = [k \in Flows |-> IF k \in R
               THEN [total |-> r, raw |-> r, stamp |-> stamp] ELSE NoCount]
         /\ sent = [k \in Flows |-> IF k \in R THEN b ELSE 0]
         /\ late = [k \in Flows |-> IF k \in R THEN b - r ELSE 0]
    /\ clock = BootStamp /\ fails = 0
    /\ meta = [m \in Macs |-> IF m \in BootLive THEN "live" ELSE "absent"]
    /\ pc = "idle" /\ buf = [k \in Flows |-> NoFlow]
    /\ todo = {} /\ applying = {} /\ relieving = FALSE
    /\ held = {} /\ entry = [k \in Flows |-> NoCount] /\ older = {} /\ aged = {}
    /\ unknown = [k \in Flows |-> 0] /\ settled = [k \in Flows |-> 0]
    /\ gc = "idle" /\ swept = {}
    /\ lost = [k \in Flows |-> 0]
    /\ slips = [k \in Flows |-> {}]

Absorb(k) ==
    \/ AbsorbKnown(k) \/ ApplyDelta(k) \/ CaptureAgain(k) \/ CaptureFirst(k)
    \/ \E v \in held : \E failed \in {{}, {v}} : CaptureEvict(k, v, failed)

Tick ==
    \/ BatchLookup
    \/ \E k \in Flows : Absorb(k)
    \/ \E failed \in SUBSET aged : Sweep(failed)
    \/ NoRelief
    \/ \E V \in SUBSET Flows : \E failed \in SUBSET V : Relieve(V, failed)

Reconcile == \E m \in Macs : Learn(m) \/ MarkDelete(m) \/ SettleRebase(m)

GhostSweep ==
    \/ \E M \in SUBSET Macs : DeleteKernelMACs(M)
    \/ \E failed \in SUBSET Flows : EvictResidualFlows(failed)
    \/ SettleSwept
    \/ DeleteUserspace

Next ==
    \/ \E k \in Flows, n \in PktSizes : HandlePacket(k, n)
    \/ \E k \in held : Age(k)
    \/ Tick
    \/ Reconcile
    \/ GhostSweep

Spec == Init /\ [][Next]_vars

\* The scraper ticks for ever (scraper.Run), and time passes: the goroutine
\* is only stopped by process exit, which this module does not model.
FairSpec ==
    /\ Spec
    /\ WF_vars(Tick)
    /\ \A k \in Flows : WF_vars(Age(k))

-----------------------------------------------------------------------------
Entry == [bytes : Nat, created : Nat, seen : Nat]
Count == [total : Nat, raw : Nat, stamp : Nat]

\* Every variable has its type.
TypeOK ==
    /\ kernel \in [Flows -> Entry] /\ clock \in Nat /\ fails \in Nat
    /\ meta \in [Macs -> {"absent", "live", "ghost"}]
    /\ pc \in {"idle", "absorb", "relieve"}
    /\ buf \in [Flows -> Entry]
    /\ todo \subseteq Flows /\ applying \subseteq Flows
    /\ relieving \in BOOLEAN
    /\ rows \subseteq Flows /\ count \in [Flows -> Count]
    /\ held \subseteq Flows /\ entry \in [Flows -> Count]
    /\ older \subseteq held \X held /\ aged \subseteq held
    /\ unknown \in [Flows -> Nat] /\ settled \in [Flows -> Nat]
    /\ gc \in {"idle", "flows", "settle", "userspace"} /\ swept \subseteq Macs
    /\ sent \in [Flows -> Nat] /\ lost \in [Flows -> Nat] /\ late \in [Flows -> Nat]
    /\ slips \in [Flows -> SUBSET SlipKinds]

\* What the tenants' side of the accounts holds of k: the row, the settled
\* buckets, and the buffered bytes a late binding would hand to the tenant.
Billed(k) == count[k].total + settled[k] + entry[k].total

\* Conservation.  Every byte the kernel counted for a flow is in exactly one
\* of: the row, the settled buckets, the buffer, the unknown rows, a drained
\* reading, the unread counter, or an entry deleted before it was read --
\* unless the flow fell into one of the four named windows (ApplyDelta,
\* Capture, Resolve, Sweep, Relieve, Settle, against concurrent packets,
\* reconciles and ghost sweeps).
Conserved ==
    \A k \in Flows : slips[k] = {} =>
        Billed(k) + unknown[k] + lost[k] + InFlight(k) + Unread(k) = sent[k]

\* A tenant is never billed more than its flow carried: a failed or mistimed
\* kernel reset (foldedLive) over-reports "unknown" and nobody else, as
\* unresolved.Buffer.drop promises.
BilledOnce ==
    \A k \in Flows : slips[k] \subseteq {"foldedLive"} => Billed(k) <= sent[k]

\* A delete (pressure relief, buffer reset or ghost sweep) destroys at most
\* what arrived since the last BatchLookup: what a tick drained is safe.
LossIsLate ==
    [][\A k \in Flows : slips[k] = {} => lost'[k] <= lost[k] + late[k]]_vars

\* Late binding ends: a buffered flow is resolved to its tenant or folded
\* into "unknown"; its bytes never stay invisible (Buffer.Sweep, Resolve).
BufferedEventuallyCounted == \A k \in Flows : k \in held ~> k \notin held

-----------------------------------------------------------------------------
(* A statement of the code's comments that its behaviour contradicts.      *)

\* classifier.go, Absorb: the handover from the buffer to the row means "the
\* same bytes are never counted twice".
NeverCountedTwice == \A k \in Flows : Billed(k) <= sent[k]
=============================================================================
