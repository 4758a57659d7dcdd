----------------------------- MODULE AgentLife -----------------------------
(***************************************************************************)
(* The life of the agent process: the bootstrap steps, the workers that    *)
(* Agent.Run starts, the shutdown that drains them one by one, crashes,    *)
(* and what each leaves behind for the next boot.                          *)
(*                                                                         *)
(* Three stores outlive a process.  The pinned telemetry_map keeps the     *)
(* kernel's counters; the TC filters keep the last programs attached; the  *)
(* WAL keeps the snapshot of the last flush.  The metadata maps are not    *)
(* pinned: the cold start fills them again.                                *)
(*                                                                         *)
(* There are two flows.  "k" has a MAC that Neutron lists under a tenant,  *)
(* which may change, or lists no more: then it is a ghost until it is      *)
(* swept, and unknown after.  "u" has a MAC nobody ever knows.  The        *)
(* scraper buffers what it does not know.  A tick is one step here, and so *)
(* is a pass's rebinding (FlowPipeline and BillingTiers interleave them),  *)
(* and a save either replaces the snapshot or leaves it (WalFiles has the  *)
(* renames).  An entry's creation stamp is the number of bytes sent before *)
(* it, plus one.                                                           *)
(***************************************************************************)
EXTENDS Integers, Sequences, FiniteSets, FiniteSetsExt

CONSTANTS
    Tenants,     \* the projects a MAC can belong to
    MaxEvents,   \* bound: bytes counted, and workers that outlive their budget, together
    MaxBoots,    \* bound: processes started
    MaxMoves,    \* bound: changes of owner, departures included
    MaxDelay     \* neutronBackoffMax, in initial delays

NoTenant == "none"

ASSUME BoundsAssumption ==
    /\ Tenants # {} /\ IsFiniteSet(Tenants) /\ NoTenant \notin Tenants
    /\ {MaxEvents, MaxBoots, MaxMoves, MaxDelay} \subseteq Nat

VARIABLES
    pc,       \* "down", a bootstrap step, "run" or "drain"
    phase,    \* boot.Phase, 0 to 4
    delay,    \* retryWithBackoff's next delay; 0 = not waiting
    pins,     \* the pin files: "none", "ok" (the map in use), "shelved" (another map), "stale" (other layout)
    entry,    \* the telemetry_map in use: [bytes, stamp] per flow, stamp 0 = no entry
    shelf,    \* the pinned map while an unpinned one is in use
    hook,     \* the attached program: "none", "lost" (counts into no readable map), "bare", "ready"
    ready,    \* the loaded collection's metadata maps are filled
    owner,    \* the tenant Neutron lists for k's MAC, or NoTenant
    meta,     \* the tenant the metadata map has for it, or NoTenant
    ghost,    \* that entry of the metadata map is marked deleted
    mem,      \* GlobalState: k's row, the "unknown" rows, the settled totals
    buf,      \* the unresolved buffer, an entry per flow
    copy,     \* the WAL worker's snapshot between the copy and the save
    disk,     \* the last saved snapshot
    work,     \* the workers: "off", "up", "cancelled", "final" (its last duty) or "done"
    sweep,    \* the ghost sweep over k's MAC: "idle", "held", "evicted", "settled"
    row,      \* the worker drainWorkers is at
    hist      \* history: see Init

kernelVars == <<pins, entry, shelf, hook, ready>>
bindVars == <<meta, ghost>>
procVars == <<pc, phase, delay, work, row, sweep>>
dataVars == <<bindVars, mem, buf, copy>>
vars == <<procVars, kernelVars, owner, dataVars, disk, hist>>

Flows == {"k", "u"}
Absent == [bytes |-> 0, stamp |-> 0]
NoRow == [total |-> 0, raw |-> 0, stamp |-> 0]
Zero == [f \in Flows |-> 0]
NoBills == [t \in Tenants |-> 0]
EmptyMap == [f \in Flows |-> Absent]
NoBuf == [f \in Flows |-> NoRow]
\* A GlobalState, and the snapshot of one with the owner its record names.
Fresh == [row |-> NoRow, unknown |-> Zero, settled |-> NoBills]
Snapshot(s, t) == [state |-> s, owner |-> t]
NoSnapshot == Snapshot(Fresh, NoTenant)

\* The bootstrap steps that touch state; buildAgent is part of loadBPF, and
\* "wire" stands for subscribeNetlink, wireGC, wireReconcile, wireKafka and
\* prepareWALDir, which only keep pointers to what exists.
Steps == <<"huntZombies", "loadBPF", "coldStart", "wire", "restoreWAL">>

\* The drain order.  The Kafka consumer, between the sweeper and the reconciler,
\* is left out: it kicks the reconciler and holds nothing.
Workers == <<"netlink", "ghost", "reconciler", "scraper", "wal">>

-----------------------------------------------------------------------------
(* The accounting the three stores share.                                  *)

\* What ApplyDelta adds to a row when it reads the entry e.
Delta(r, e) == IF e.stamp = 0 THEN 0 ELSE IF r.stamp = e.stamp THEN e.bytes - r.raw ELSE e.bytes

ApplyDelta(r, e) ==
    IF e.stamp = 0 THEN r
    ELSE [total |-> r.total + Delta(r, e), raw |-> e.bytes, stamp |-> e.stamp]

\* Settle in rebase mode: the row's total goes to t, its baseline stays.
SettleRebase(s, t) ==
    [s EXCEPT !.row.total = 0, !.settled[t] = @ + s.row.total]

\* Settle in evict mode: the row is deleted.
SettleEvict(s, t) ==
    [s EXCEPT !.row = NoRow, !.settled[t] = @ + s.row.total]

\* GlobalState.Resolve: the row takes a buffered total and its baseline.
ResolveRow(r, b) ==
    IF b.stamp = 0 THEN r ELSE [total |-> r.total + b.total, raw |-> b.raw, stamp |-> b.stamp]

\* What the Collector shows for a tenant.
Series(s, t, who) == s.settled[t] + (IF who = t THEN s.row.total ELSE 0)

Counted(s) == s.row.total + MapThenSumSet(LAMBDA t : s.settled[t], Tenants)

\* The three places where the accounts are: in use, on the way to the disk, there.
Places == {"mem", "copy", "disk"}
Nowhere == [p \in Places |-> Zero]

\* What place p has not read of flow f's entry when the row in use is r and u was
\* just captured.
Unread(p, f, r) ==
    IF (p = "copy" /\ copy = NoSnapshot) \/ (p = "mem" /\ phase # 4) THEN 0
    ELSE IF f = "u" THEN IF p = "mem" THEN 0 ELSE entry[f].bytes
    ELSE Delta(CASE p = "mem" -> r [] p = "copy" -> copy.state.row [] p = "disk" -> disk.state.row,
               entry[f])

\* The kernel entries of the flows D go: each place misses what it has not read.
Missing(D, r) ==
    [p \in Places |-> [f \in Flows |->
        hist.miss[p][f] + (IF f \in D THEN Unread(p, f, r) ELSE 0)]]

-----------------------------------------------------------------------------
(* Bootstrap.                                                              *)

At(s) == pc = s
\* Bytes may still be counted, workers may still be late.
MoreEvents == hist.sent["k"] + hist.sent["u"] + hist.late < MaxEvents
Then(s) == LET i == CHOOSE i \in DOMAIN Steps : Steps[i] = s
           IN  pc' = IF i < Len(Steps) THEN Steps[i + 1] ELSE "run"
\* seq.Advance: only to the next phase.
Advance(p) == phase = p - 1 /\ phase' = p

StartProcess ==
    /\ At("down") /\ hist.boots < MaxBoots
    /\ hist' = [hist EXCEPT !.boots = @ + 1]
    /\ pc' = Steps[1] /\ phase' = 0 /\ delay' = 0
    /\ work' = [w \in DOMAIN work |-> "off"] /\ row' = 0 /\ sweep' = "idle"
    /\ meta' = NoTenant /\ ghost' = FALSE /\ mem' = Fresh /\ buf' = NoBuf /\ copy' = NoSnapshot
    /\ UNCHANGED <<kernelVars, owner, disk>>

\* zombie.Hunt: errors are not fatal, some filters may stay.
HuntZombies ==
    /\ At("huntZombies") /\ Then("huntZombies")
    /\ hook' \in {"none", hook}
    /\ UNCHANGED <<phase, delay, work, row, sweep, pins, entry, shelf, ready, owner, dataVars, disk, hist>>

\* The collection gets another map m: what the one in use holds is out of
\* reach, but for the bytes the snapshot has.
OtherMap(m) ==
    /\ entry' = m /\ ready' = FALSE
    /\ hook' = IF hook = "none" THEN "none" ELSE "lost"
    /\ hist' = [hist EXCEPT !.reused = @ \/ m # EmptyMap, !.miss = Missing(Flows, NoRow)]

LoadStep == At("loadBPF") /\ Then("loadBPF") /\ Advance(1)
            /\ UNCHANGED <<delay, work, row, sweep, owner, dataVars, disk>>

\* loadPinnedCollection finds the map in use.
LoadPinned ==
    /\ LoadStep /\ pins = "ok"
    /\ ready' = FALSE
    /\ UNCHANGED <<pins, entry, shelf, hook, hist>>

\* It finds the map that was pinned before the unpinned process.
LoadShelved ==
    /\ LoadStep /\ pins = "shelved"
    /\ OtherMap(shelf) /\ pins' = "ok" /\ shelf' = EmptyMap

\* It creates and pins the maps, after removeStalePins where the layout differs.
LoadFresh ==
    /\ LoadStep /\ pins \in {"none", "stale"}
    /\ OtherMap(EmptyMap) /\ pins' = "ok" /\ shelf' = EmptyMap

\* Pinning fails and the configuration allows to go on without.
LoadUnpinned ==
    /\ LoadStep
    /\ OtherMap(EmptyMap)
    /\ pins' = IF pins = "ok" THEN "shelved" ELSE pins
    /\ shelf' = IF pins = "ok" THEN entry ELSE shelf

\* subscribeNetlink advances the phase; the subscriber starts with the workers.
Wire ==
    /\ At("wire") /\ Then("wire") /\ Advance(3)
    /\ UNCHANGED <<delay, work, row, sweep, kernelVars, owner, dataVars, disk, hist>>

\* Fault: a cold start that Neutron does not answer goes on without metadata.
ColdStartLenient ==
    /\ At("coldStart") /\ Then("coldStart") /\ Advance(2)
    /\ \/ meta' = owner /\ ready' = TRUE
       \/ meta' = NoTenant /\ ready' = FALSE
    /\ delay' = 0
    /\ UNCHANGED <<work, row, sweep, pins, entry, shelf, hook, owner, ghost, mem, buf, copy, disk, hist>>

\* Sync answered, the metadata and the kernel's maps are filled.
ColdStart ==
    /\ At("coldStart") /\ Then("coldStart") /\ Advance(2)
    /\ meta' = owner /\ ready' = TRUE /\ delay' = 0
    /\ UNCHANGED <<work, row, sweep, pins, entry, shelf, hook, owner, ghost, mem, buf, copy, disk, hist>>

\* A retryable error: back off, doubling up to the maximum.
ColdRetry ==
    /\ At("coldStart") /\ delay < MaxDelay
    /\ delay' = IF delay = 0 THEN 1 ELSE IF 2 * delay > MaxDelay THEN MaxDelay ELSE 2 * delay
    /\ UNCHANGED <<pc, phase, work, row, sweep, kernelVars, owner, dataVars, disk, hist>>

\* Fault: the row late-binds to whoever owns the MAC now.
SettleNothing(s, recorded, now) == s

\* settleChangedOwners: a restored row whose owner resolves differently now.
SettleChangedOwners(s, recorded, now) ==
    IF recorded # NoTenant /\ recorded # now THEN SettleRebase(s, recorded) ELSE s

\* The accounts in use are those of the snapshot.
Resumed == [hist EXCEPT !.miss["mem"] = hist.miss["disk"], !.twice["mem"] = hist.twice["disk"]]

\* Fault: the totals come back without the baselines.
RestoreTotals ==
    /\ At("restoreWAL") /\ Then("restoreWAL") /\ Advance(4)
    /\ mem' = [SettleChangedOwners(disk.state, disk.owner, meta) EXCEPT !.row.raw = 0, !.row.stamp = 0]
    /\ work' = [w \in DOMAIN work |-> "up"]
    /\ hist' = Resumed
    /\ UNCHANGED <<delay, row, sweep, kernelVars, owner, bindVars, buf, copy, disk>>

\* restoreFromWAL is the last step; Run then starts the workers.
RestoreWAL ==
    /\ At("restoreWAL") /\ Then("restoreWAL") /\ Advance(4)
    /\ mem' = SettleChangedOwners(disk.state, disk.owner, meta)
    /\ work' = [w \in DOMAIN work |-> "up"]
    /\ hist' = Resumed
    /\ UNCHANGED <<delay, row, sweep, kernelVars, owner, bindVars, buf, copy, disk>>

-----------------------------------------------------------------------------
(* The workers.  One that was cancelled finishes what it is at.            *)

Active(w) == work[w] \in {"up", "cancelled"}

\* The subscriber replaces what is attached with this collection's programs.
NetlinkAttaches ==
    /\ Active("netlink") /\ hook # (IF ready THEN "ready" ELSE "bare")
    /\ hook' = IF ready THEN "ready" ELSE "bare"
    /\ UNCHANGED <<procVars, pins, entry, shelf, ready, owner, dataVars, disk, hist>>

\* A pass that finds the MAC unknown, a ghost, or another's: settle to the old
\* owner where it changed, then insert.
Learn ==
    /\ Active("reconciler") /\ owner # NoTenant /\ (meta # owner \/ ghost)
    /\ mem' = IF meta \in {NoTenant, owner} THEN mem ELSE SettleRebase(mem, meta)
    /\ meta' = owner /\ ghost' = FALSE
    /\ hist' = [hist EXCEPT !.raced = @ \/ (copy # NoSnapshot /\ meta \notin {NoTenant, owner})]
    /\ UNCHANGED <<procVars, kernelVars, owner, buf, copy, disk>>

\* A pass that finds the MAC gone: MarkDelete.
MarkGone ==
    /\ Active("reconciler") /\ owner = NoTenant /\ meta # NoTenant /\ ~ghost
    /\ ghost' = TRUE
    /\ UNCHANGED <<procVars, kernelVars, owner, meta, mem, buf, copy, disk, hist>>

\* A sweep finds the grace over and deletes the kernel's binding.  It takes no
\* context: once begun it goes on to its end.
SweepBegins ==
    /\ Active("ghost") /\ sweep = "idle" /\ ghost
    /\ sweep' = "held"
    /\ UNCHANGED <<pc, phase, delay, work, row, kernelVars, owner, dataVars, disk, hist>>

\* evictResidualFlows, which may fail.
SweepEvicts(ok) ==
    /\ sweep = "held" /\ sweep' = "evicted"
    /\ entry' = IF ok THEN [entry EXCEPT !["k"] = Absent] ELSE entry
    /\ hist' = [hist EXCEPT !.miss = IF ok THEN Missing({"k"}, mem.row) ELSE @]
    /\ UNCHANGED <<pc, phase, delay, work, row, pins, shelf, hook, ready, owner, dataVars, disk>>

\* settleSwept, under the binding of now.  A baseline that goes while its counter
\* is there sends k's bytes astray.
SweepSettles ==
    /\ sweep = "evicted" /\ sweep' = "settled"
    /\ mem' = SettleEvict(mem, meta)
    /\ hist' = [hist EXCEPT !.astray = @ \/ Delta(NoRow, entry["k"]) # Delta(mem.row, entry["k"])]
    /\ UNCHANGED <<pc, phase, delay, work, row, kernelVars, owner, bindVars, buf, copy, disk>>

\* deleteUserspace.  A row that was counted into since the settle is orphaned.
SweepDeletes ==
    /\ sweep = "settled" /\ sweep' = "idle"
    /\ meta' = NoTenant /\ ghost' = FALSE
    /\ hist' = [hist EXCEPT !.raced = @ \/ copy # NoSnapshot, !.orphan = @ \/ mem.row.total > 0]
    /\ UNCHANGED <<pc, phase, delay, work, row, kernelVars, owner, mem, buf, copy, disk>>

\* Fault: a first sight only sets the baseline.
CaptureBaseline(b, e) ==
    IF e.stamp = 0 THEN b
    ELSE IF b.stamp = 0 THEN [total |-> 0, raw |-> e.bytes, stamp |-> e.stamp]
    ELSE [total |-> b.total + (IF e.bytes >= b.raw THEN e.bytes - b.raw ELSE e.bytes),
          raw |-> e.bytes, stamp |-> b.stamp]

\* Buffer.Capture: the delta by value.
Capture(b, e) ==
    IF e.stamp = 0 THEN b
    ELSE IF b.stamp = 0 THEN [total |-> e.bytes, raw |-> e.bytes, stamp |-> e.stamp]
    ELSE [total |-> b.total + (IF e.bytes >= b.raw THEN e.bytes - b.raw ELSE e.bytes),
          raw |-> e.bytes, stamp |-> b.stamp]

Known(f) == f = "k" /\ meta # NoTenant

\* Absorb of every drained reading: k's row, and the buffer.
RowAfter == IF Known("k") /\ entry["k"].stamp # 0
            THEN ApplyDelta(ResolveRow(mem.row, buf["k"]), entry["k"]) ELSE mem.row
BufAfter == [f \in Flows |-> IF ~Known(f) THEN Capture(buf[f], entry[f])
                             ELSE IF entry[f].stamp # 0 THEN NoRow ELSE buf[f]]

\* Fault: an entry that is folded keeps its kernel counter.
ResetNone(folded) == {}

\* Buffer.drop with delKernel: the kernel entries of the folded flows are deleted.
Reset(folded) == folded

\* One tick: every reading is absorbed, those of the buffered flows that are aged
\* out are folded, and pressure relief may delete k's kernel entry.
Tick(fold, relieve) ==
    LET gone == Reset(fold) \cup (IF relieve THEN {"k"} ELSE {})
    IN  /\ Active("scraper")
        /\ \A f \in fold : BufAfter[f].stamp # 0
        /\ relieve => entry["k"].stamp # 0
        /\ work' = [work EXCEPT !["scraper"] = IF @ = "up" THEN @ ELSE "final"]
        /\ mem' = [mem EXCEPT !.row = RowAfter,
                              !.unknown = [f \in Flows |-> @[f] + (IF f \in fold THEN BufAfter[f].total ELSE 0)]]
        /\ buf' = [f \in Flows |-> IF f \in fold THEN NoRow ELSE BufAfter[f]]
        /\ entry' = [f \in Flows |-> IF f \in gone THEN Absent ELSE entry[f]]
        /\ hist' = [hist EXCEPT !.miss = Missing(gone, RowAfter),
                                !.astray = @ \/ (~Known("k") /\ entry["k"].stamp # 0)]
        /\ UNCHANGED <<pc, phase, delay, row, sweep, pins, shelf, hook, ready, owner, bindVars, copy, disk>>

\* flushWAL, first half: SnapshotForWAL under the state's lock.
FlushCopy ==
    /\ work["wal"] \in {"up", "final"} /\ copy = NoSnapshot
    /\ copy' = Snapshot(mem, "pending")
    /\ hist' = [hist EXCEPT !.miss["copy"] = hist.miss["mem"], !.twice["copy"] = hist.twice["mem"],
                            !.booked = [t \in Tenants |-> Series(mem, t, meta)]]
    /\ UNCHANGED <<procVars, kernelVars, owner, bindVars, mem, buf, disk>>

\* Second half: the owner is resolved only now; the save works or fails.  The
\* flush that was the last one ends the worker.
FlushSave(ok) ==
    /\ copy # NoSnapshot
    /\ copy' = NoSnapshot
    /\ work' = [work EXCEPT !["wal"] = IF @ = "final" THEN "done" ELSE @]
    /\ disk' = IF ok THEN Snapshot(copy.state, meta) ELSE disk
    /\ LET h == [hist EXCEPT !.miss["copy"] = Zero, !.twice["copy"] = 0, !.booked = NoBills, !.raced = FALSE]
       IN  hist' = IF ok THEN [h EXCEPT !.miss["disk"] = hist.miss["copy"], !.twice["disk"] = hist.twice["copy"],
                                        !.kept = hist.booked, !.torn = hist.raced]
                   ELSE [h EXCEPT !.clean = @ /\ work["wal"] # "final"]
    /\ UNCHANGED <<pc, phase, delay, row, sweep, kernelVars, owner, bindVars, mem, buf>>

-----------------------------------------------------------------------------
(* Shutdown.                                                               *)

\* drainWorkers reaches worker i: cancel it alone.
Cancel(i) == row' = i /\ work' = [work EXCEPT ![Workers[i]] = "cancelled"]

\* The HTTP server has stopped: on a signal, in time or not (the drain is
\* deferred), or because it failed on its own.  The workers ran until now.
ServerStops ==
    /\ pc = "run" /\ pc' = "drain" /\ Cancel(1)
    /\ UNCHANGED <<phase, delay, sweep, kernelVars, owner, dataVars, disk, hist>>

\* Fault: the sweeper reports its end while its last sweep goes on.
WorkerStopsEarly(w) ==
    /\ work[w] = "cancelled" /\ w \in {"netlink", "ghost", "reconciler"}
    /\ work' = [work EXCEPT ![w] = "done"]
    /\ UNCHANGED <<pc, phase, delay, row, sweep, kernelVars, owner, dataVars, disk, hist>>

\* Three workers have nothing left to do, but for a sweep that has begun.
WorkerStops(w) ==
    /\ work[w] = "cancelled" /\ w \in {"netlink", "ghost", "reconciler"}
    /\ w = "ghost" => sweep = "idle"
    /\ work' = [work EXCEPT ![w] = "done"]
    /\ UNCHANGED <<pc, phase, delay, row, sweep, kernelVars, owner, dataVars, disk, hist>>

\* The scraper's last tick fails.
LastTickFails ==
    /\ work["scraper"] = "cancelled"
    /\ work' = [work EXCEPT !["scraper"] = "final"]
    /\ UNCHANGED <<pc, phase, delay, row, sweep, kernelVars, owner, dataVars, disk, hist>>

\* After it, Sweep(true): every buffered flow is folded and no kernel entry is
\* deleted, so what was read of it is counted once more from then on.
ScraperStops ==
    /\ work["scraper"] = "final"
    /\ work' = [work EXCEPT !["scraper"] = "done"]
    /\ mem' = [mem EXCEPT !.unknown = [f \in Flows |-> @[f] + buf[f].total]]
    /\ buf' = NoBuf
    /\ hist' = [hist EXCEPT !.twice["mem"] = @ + buf["u"].total]
    /\ UNCHANGED <<pc, phase, delay, row, sweep, kernelVars, owner, bindVars, copy, disk>>

\* The WAL worker's last duty begins with settleLingeringGhosts; the flush follows.
WalSettles ==
    /\ work["wal"] = "cancelled" /\ copy = NoSnapshot
    /\ work' = [work EXCEPT !["wal"] = "final"]
    /\ mem' = IF ghost THEN SettleRebase(mem, meta) ELSE mem
    /\ UNCHANGED <<pc, phase, delay, row, sweep, kernelVars, owner, bindVars, buf, copy, disk, hist>>

\* The end of the process, whatever ends it: memory is gone, the pinned map,
\* the filters and the snapshot stay.
Ends ==
    /\ pc' = "down" /\ phase' = 0 /\ delay' = 0 /\ row' = 0
    /\ work' = [w \in DOMAIN work |-> "off"] /\ sweep' = "idle"
    /\ meta' = NoTenant /\ ghost' = FALSE /\ mem' = Fresh /\ buf' = NoBuf /\ copy' = NoSnapshot
    /\ hist' = [hist EXCEPT !.miss = [Nowhere EXCEPT !["disk"] = hist.miss["disk"]],
                            !.twice = [p \in Places |-> IF p = "disk" THEN hist.twice[p] ELSE 0],
                            !.booked = NoBills, !.raced = FALSE, !.clean = TRUE]
    /\ UNCHANGED <<kernelVars, owner, disk>>

\* await returned: the next worker, or the end of Run.
NextWorker ==
    IF row = Len(Workers) THEN Ends
    ELSE Cancel(row + 1) /\ UNCHANGED <<pc, phase, delay, sweep, kernelVars, owner, dataVars, disk>>

AwaitDone ==
    /\ pc = "drain" /\ work[Workers[row]] = "done"
    /\ NextWorker /\ (row < Len(Workers) => hist' = hist)

\* shutdownTimeout elapsed: go on, the worker keeps running.
AwaitExpires ==
    /\ pc = "drain" /\ work[Workers[row]] \in {"cancelled", "final"} /\ MoreEvents
    /\ NextWorker /\ (row < Len(Workers) => hist' = [hist EXCEPT !.late = @ + 1, !.clean = FALSE])

\* A step failed (pinning refused, Neutron's error final, a newer snapshot) or
\* the boot was cancelled: the collection is closed.  huntZombies never fails.
BootFails == pc \in {"loadBPF", "coldStart", "wire", "restoreWAL"} /\ Ends

Crash == pc # "down" /\ Ends

-----------------------------------------------------------------------------
(* The outside.                                                            *)

\* A byte after n others: the entry is created, or counts it.
CountByte(e, n) ==
    IF e.stamp = 0 THEN [bytes |-> 1, stamp |-> n + 1] ELSE [e EXCEPT !.bytes = @ + 1]

\* A counted byte.
Packet(f) ==
    /\ hook \in {"bare", "ready"} /\ MoreEvents
    /\ hist' = [hist EXCEPT !.sent[f] = @ + 1]
    /\ entry' = [entry EXCEPT ![f] = CountByte(@, hist.sent[f])]
    /\ UNCHANGED <<procVars, pins, shelf, hook, ready, owner, dataVars, disk>>

\* Neutron gives the MAC to another project, lists it no more, or lists it again.
Reassign(t) ==
    /\ hist.moves < MaxMoves /\ t # owner /\ owner' = t
    /\ hist' = [hist EXCEPT !.moves = @ + 1]
    /\ UNCHANGED <<procVars, kernelVars, dataVars, disk>>

\* A build with another map layout is installed.
Upgrade ==
    /\ pc = "down" /\ pins \in {"ok", "shelved"} /\ ~hist.upgraded
    /\ pins' = "stale" /\ shelf' = EmptyMap
    /\ hist' = [hist EXCEPT !.upgraded = TRUE]
    /\ UNCHANGED <<procVars, entry, hook, ready, owner, dataVars, disk>>

-----------------------------------------------------------------------------
\* hist: boots, moves, bytes sent; per place what it misses of them because
\* their kernel entry went unread, and what it holds of u although the kernel
\* still has it; series at the copy and in the snapshot; whether a binding
\* changed during the flush in progress, and during the one on disk; whether
\* k's bytes went astray, or a row was orphaned, under a departed MAC; whether
\* this drain is clean; whether an old map was taken up again.
Init ==
    /\ pc = "down" /\ phase = 0 /\ delay = 0 /\ row = 0 /\ sweep = "idle"
    /\ work = [w \in {Workers[i] : i \in DOMAIN Workers} |-> "off"]
    /\ pins \in {"none", "shelved"} /\ entry = EmptyMap /\ shelf = EmptyMap
    /\ hook = "none" /\ ready = FALSE
    /\ owner = (CHOOSE t \in Tenants : TRUE) /\ meta = NoTenant /\ ghost = FALSE
    /\ mem = Fresh /\ buf = NoBuf /\ copy = NoSnapshot /\ disk = NoSnapshot
    /\ hist = [boots |-> 0, moves |-> 0, late |-> 0, upgraded |-> FALSE, reused |-> FALSE,
               sent |-> Zero, miss |-> Nowhere, twice |-> [p \in Places |-> 0],
               booked |-> NoBills, kept |-> NoBills,
               raced |-> FALSE, torn |-> FALSE, astray |-> FALSE, orphan |-> FALSE,
               clean |-> TRUE]

Boot ==
    \/ StartProcess \/ HuntZombies
    \/ LoadPinned \/ LoadShelved \/ LoadFresh \/ LoadUnpinned
    \/ Wire \/ ColdStart \/ ColdRetry \/ RestoreWAL \/ BootFails

Work ==
    \/ NetlinkAttaches \/ Learn \/ MarkGone \/ FlushCopy
    \/ SweepBegins \/ SweepSettles \/ SweepDeletes
    \/ \E ok \in BOOLEAN : SweepEvicts(ok) \/ FlushSave(ok)
    \/ \E fold \in SUBSET Flows, relieve \in BOOLEAN : Tick(fold, relieve)

Shutdown ==
    \/ ServerStops \/ AwaitDone \/ AwaitExpires
    \/ \E w \in DOMAIN work : WorkerStops(w)
    \/ LastTickFails \/ ScraperStops \/ WalSettles

Outside ==
    \/ \E f \in Flows : Packet(f)
    \/ \E t \in Tenants \cup {NoTenant} : Reassign(t)
    \/ Upgrade \/ Crash

Next == Boot \/ Work \/ Shutdown \/ Outside

Spec == Init /\ [][Next]_vars

-----------------------------------------------------------------------------
(* Properties.                                                             *)

Row == [total : Nat, raw : Nat, stamp : Nat]
Map == [Flows -> [bytes : Nat, stamp : Nat]]
State == [row : Row, unknown : [Flows -> Nat], settled : [Tenants -> Nat]]
\* A copy whose owners are still to be read is marked "pending".
Saved == [state : State, owner : Tenants \cup {NoTenant, "pending"}]

\* Every variable has its type; totals and readings never go negative.
TypeOK ==
    /\ pc \in {"down", "run", "drain"} \cup {Steps[i] : i \in DOMAIN Steps}
    /\ phase \in 0..4 /\ delay \in 0..MaxDelay /\ row \in 0..Len(Workers)
    /\ work \in [{Workers[i] : i \in DOMAIN Workers} -> {"off", "up", "cancelled", "final", "done"}]
    /\ sweep \in {"idle", "held", "evicted", "settled"}
    /\ pins \in {"none", "ok", "shelved", "stale"} /\ entry \in Map /\ shelf \in Map
    /\ hook \in {"none", "lost", "bare", "ready"} /\ ready \in BOOLEAN
    /\ owner \in Tenants \cup {NoTenant} /\ meta \in Tenants \cup {NoTenant} /\ ghost \in BOOLEAN
    /\ mem \in State /\ buf \in [Flows -> Row] /\ copy \in Saved /\ disk \in Saved

Restored == phase = 4
View == IF Restored THEN mem ELSE disk.state
Place == IF Restored THEN "mem" ELSE "disk"

\* No restart loses or repeats a tenant's bytes: what the state (or, before it
\* is restored, the snapshot) has counted and what the pinned map still owes it
\* are the bytes the kernel counted, short of three losses the design accepts:
\* entries that pressure relief deleted after the last save, when the process
\* ends; what a sweep's eviction of a departed MAC's entry found unread; and, when
\* a boot cannot take up the pinned map, what it held since the last save.
\* Nothing is claimed once a map shelved by an unpinned boot is taken up again,
\* nor once a departed MAC's counter was read as unknown or outlived its row.
\* (loadCollection, restoreFromWAL, ApplyDelta.)
RestartLossless ==
    ~hist.reused /\ ~hist.astray =>
        Counted(View) + Delta(View.row, entry["k"]) + hist.miss[Place]["k"] = hist.sent["k"]

\* Bytes of unknown MACs are accounted for exactly, across buffer folds, crashes,
\* drains and boots: what was folded, what is buffered and what the kernel has
\* beyond it are the bytes counted, but for two things.  Missing is what was folded
\* and reset since the last save when the process ends, and the whole entry when a
\* boot takes up another map; held twice is what a drain folded without
\* resetting it, once it is saved.  (Buffer.Capture, Sweep and drop.)
UnknownAccounted ==
    ~hist.reused =>
        View.unknown["u"] + buf["u"].total + Delta(buf["u"], entry["u"]) + hist.miss[Place]["u"]
            = hist.sent["u"] + hist.twice[Place]

\* What a tenant's series had reached in a saved snapshot it has again after
\* every restart, also when the MAC changed hands or left while the agent was
\* down; not claimed when its binding changed during that flush, nor when a
\* sweep took the binding of a row that was counted into after its settle.
\* (settleChangedOwners, settleLingeringGhosts, settleSwept.)
FlushedSeriesSurvive ==
    Restored /\ ~hist.torn /\ ~hist.orphan => \A t \in Tenants : Series(mem, t, meta) >= hist.kept[t]

\* The first packet a program of this collection counts meets filled metadata
\* maps: no filter of it is attached before the cold start succeeded.
HookClassifies == hook # "bare"

\* A drain in which every worker kept to its budget and the last save worked
\* leaves on disk all that the workers had counted: no sweep, pass or tick
\* changes the state after the final flush has copied it, and no flow is left in
\* the buffer.  (drainWorkers, "the WAL's final flush cannot start until the
\* scraper's final tick has exited".)
CleanExitSavesAll ==
    [][pc = "drain" /\ pc' = "down" /\ row = Len(Workers) /\ hist.clean /\ work["wal"] = "done"
        => disk = Snapshot(mem, meta) /\ buf = NoBuf]_vars

\* "the maps are about to be replaced on the next boot, so resetting them is
\* pointless" (Buffer.Sweep): what shutdown folds is not counted again.
UnknownCountedOnce == ~hist.reused => View.unknown["u"] + buf["u"].total <= hist.sent["u"]
=============================================================================
