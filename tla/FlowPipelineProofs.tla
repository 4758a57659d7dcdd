------------------------- MODULE FlowPipelineProofs -------------------------
(***************************************************************************)
(* FlowPipeline keeps its ledger, for every set of flows and MACs and      *)
(* every value of the limits.  The inductive invariant says, flow by flow, *)
(* how the stamps of the kernel entry, of the reading in flight and of the *)
(* two baselines are ordered, that a baseline never runs ahead of the      *)
(* counter it describes, and that the accounts add up.                     *)
(***************************************************************************)
EXTENDS FlowPipeline, TLAPS

\* The scraper's control state: readings are pending only during the absorb
\* loop, and the flow being applied has left the buffer.
ControlInv ==
    /\ pc # "absorb" => todo = {}
    /\ applying \subseteq todo \ held

\* Absent rows, entries and kernel counters hold nothing.
Shape(k) ==
    /\ kernel[k].created = 0 => kernel[k].bytes = 0
    /\ k \in todo => buf[k].created # 0
    /\ k \notin rows => count[k] = NoCount
    /\ k \notin held => entry[k] = NoCount
    /\ k \in held => entry[k].stamp # 0 /\ entry[k].raw <= entry[k].total

\* Stamps grow with the clock: baseline, then reading, then kernel entry.
Stamps(k) ==
    /\ BootStamp <= clock
    /\ kernel[k].created <= clock /\ buf[k].created <= clock
    /\ count[k].stamp <= clock /\ entry[k].stamp <= clock
    /\ kernel[k].created # 0 => /\ count[k].stamp <= kernel[k].created
                                /\ entry[k].stamp <= kernel[k].created
                                /\ k \in todo => buf[k].created <= kernel[k].created
    /\ k \in todo => /\ count[k].stamp <= buf[k].created
                     /\ entry[k].stamp <= buf[k].created

\* A baseline is at most the counter, and the reading, it describes.
Bounded(k) ==
    /\ Describes(count[k].stamp, kernel[k].created) => count[k].raw <= kernel[k].bytes
    /\ Describes(entry[k].stamp, kernel[k].created) => entry[k].raw <= kernel[k].bytes
    /\ k \in todo =>
         /\ Describes(count[k].stamp, buf[k].created) => count[k].raw <= buf[k].bytes
         /\ Describes(entry[k].stamp, buf[k].created) => entry[k].raw <= buf[k].bytes
         /\ buf[k].created = kernel[k].created => buf[k].bytes <= kernel[k].bytes

\* The row of a buffered flow describes an older incarnation.
RowOlder(k) ==
    k \in held \cap rows /\ "diverted" \notin slips[k] =>
        /\ count[k].stamp < entry[k].stamp
        /\ count[k].stamp = 0 => BootStamp < entry[k].stamp

\* The accounts add up; the tenants' side never exceeds the traffic.
Ledger(k) ==
    /\ slips[k] = {} =>
         /\ Billed(k) + unknown[k] + lost[k] + InFlight(k) + Unread(k) = sent[k]
         /\ Unread(k) <= late[k]
    /\ slips[k] \subseteq {"foldedLive"} =>
         Billed(k) + InFlight(k) + Unread(k) <= sent[k]

FlowInv(k) == Shape(k) /\ Stamps(k) /\ Bounded(k) /\ RowOlder(k) /\ Ledger(k)

IInv == TypeOK /\ ControlInv /\ \A k \in Flows : FlowInv(k)

-----------------------------------------------------------------------------
\* The counters of one flow are natural numbers.
Numbers(k) ==
    /\ kernel[k] \in Entry /\ buf[k] \in Entry
    /\ count[k] \in Count /\ entry[k] \in Count
    /\ unknown[k] \in Nat /\ settled[k] \in Nat
    /\ sent[k] \in Nat /\ lost[k] \in Nat /\ late[k] \in Nat

\* Type correctness gives the arithmetic steps below the types of one flow's
\* counters.
LEMMA FlowNumbers == ASSUME TypeOK, NEW k \in Flows PROVE Numbers(k)
  BY DEF TypeOK, Numbers

\* The derived quantities of a well-formed flow are natural numbers.
LEMMA Quantities ==
    ASSUME TypeOK, NEW k \in Flows, Bounded(k), Shape(k)
    PROVE  /\ \A c \in Nat : Base(k, c) \in Nat
           /\ InFlight(k) \in Nat
           /\ Unread(k) \in Nat
  BY DEF TypeOK, Entry, Count, Bounded, Shape, Base, InFlight, Unread, Describes,
         BootStamp, NoCount

\* What no scrape or sweep step changes in a flow k; the scraper may clear a
\* reading it has absorbed.
SameCounters(k) ==
    /\ clock' = clock /\ sent'[k] = sent[k] /\ late'[k] = late[k]
    /\ buf'[k] = buf[k] \/ (k \notin todo' /\ buf'[k] = NoFlow)
SameKernel(k) == kernel'[k] = kernel[k] /\ lost'[k] = lost[k]
Deleted(k) == kernel'[k] = NoFlow /\ lost'[k] = lost[k] + Unread(k)
SameRow(k) == count'[k] = count[k] /\ (k \in rows' <=> k \in rows) /\ settled'[k] = settled[k]
SameEntry(k) == entry'[k] = entry[k] /\ (k \in held' <=> k \in held) /\ unknown'[k] = unknown[k]

\* A flow none of whose state changes keeps its invariant.
LEMMA Untouched ==
    ASSUME TypeOK, NEW k \in Flows, FlowInv(k), SameCounters(k), SameKernel(k),
           SameRow(k), SameEntry(k), k \in todo' <=> k \in todo, slips'[k] = slips[k]
    PROVE  FlowInv(k)'
  <1> USE DEF SameCounters, SameKernel, SameRow, SameEntry
  <1>1. /\ InFlight(k)' = InFlight(k) /\ Unread(k)' = Unread(k)
        /\ Billed(k)' = Billed(k)
    BY DEF InFlight, Unread, Base, Billed
  <1>2. Shape(k)' /\ Bounded(k)' /\ RowOlder(k)' /\ Ledger(k)'
    BY <1>1 DEF FlowInv, Shape, Bounded, RowOlder, Ledger
  <1>3. Stamps(k)'
    BY DEF FlowInv, Stamps, TypeOK, NoFlow
  <1> QED BY <1>2, <1>3 DEF FlowInv

\* Deleting the kernel entry moves the unread bytes, and only those, to lost.
LEMMA DeletedFlow ==
    ASSUME TypeOK, NEW k \in Flows, FlowInv(k), SameCounters(k), Deleted(k),
           SameRow(k), SameEntry(k), k \in todo' <=> k \in todo, slips'[k] = slips[k]
    PROVE  FlowInv(k)'
  <1> USE DEF SameCounters, Deleted, SameRow, SameEntry, NoFlow
  <1>1. Numbers(k) /\ clock \in Nat /\ Unread(k) \in Nat /\ InFlight(k) \in Nat
    BY FlowNumbers, Quantities DEF TypeOK, FlowInv
  <1> USE DEF Numbers, Entry, Count, FlowInv
  <1>2. Shape(k)' BY DEF Shape
  <1>3. Stamps(k)' BY <1>1 DEF Stamps, BootStamp
  <1>4. Bounded(k)' BY <1>1 DEF Bounded, Describes, Shape
  <1>5. RowOlder(k)' BY DEF RowOlder
  <1>6. Ledger(k)'
    <2>1. Billed(k)' = Billed(k) /\ InFlight(k)' = InFlight(k) /\ Unread(k)' = 0
      BY <1>1 DEF Billed, InFlight, Unread, Base, Describes, Shape
    <2>2. Billed(k) \in Nat
      BY <1>1 DEF Billed
    <2> QED BY <1>1, <2>1, <2>2 DEF Ledger
  <1> QED BY <1>2, <1>3, <1>4, <1>5, <1>6

\* Folding a buffered flow into "unknown", its kernel entry reset or not.
LEMMA FoldedFlow ==
    ASSUME TypeOK, NEW k \in Flows, FlowInv(k), SameCounters(k), SameRow(k),
           k \in held, k \notin held', entry'[k] = NoCount,
           unknown'[k] = unknown[k] + entry[k].total,
           k \in todo' <=> k \in todo,
           \/ Deleted(k)
           \/ SameKernel(k) /\ (Base(k, kernel[k].created) # 0 => "foldedLive" \in slips'[k]),
           k \in todo /\ Base(k, buf[k].created) # 0 => "foldedLive" \in slips'[k],
           slips[k] \subseteq slips'[k]
    PROVE  FlowInv(k)'
  <1> USE DEF SameCounters, SameRow, NoFlow, NoCount
  <1>1. Numbers(k) /\ clock \in Nat /\ Unread(k) \in Nat /\ InFlight(k) \in Nat
    BY FlowNumbers, Quantities DEF TypeOK, FlowInv
  <1> USE DEF Numbers, Entry, Count, FlowInv
  <1>2. Shape(k)' BY DEF Shape, Deleted, SameKernel
  <1>3. Stamps(k)' BY <1>1 DEF Stamps, BootStamp, Deleted, SameKernel
  <1>4. Bounded(k)' BY <1>1 DEF Bounded, Describes, Shape, Deleted, SameKernel, BootStamp, Stamps
  <1>5. RowOlder(k)' BY DEF RowOlder
  <1>6. Ledger(k)'
    <2>1. Billed(k)' = Billed(k) - entry[k].total /\ Billed(k) \in Nat
      BY <1>1 DEF Billed
    <2>2. "diverted" \notin slips[k] =>
             /\ Base(k, kernel[k].created)' = 0
             /\ k \in todo => Base(k, buf[k].created)' = 0
      BY <1>1 DEF Base, Describes, RowOlder, Stamps, BootStamp, Shape, Deleted, SameKernel
    <2>3. ASSUME "diverted" \notin slips[k], Deleted(k)
          PROVE  /\ Unread(k)' = 0 /\ lost'[k] = lost[k] + Unread(k)
                 /\ InFlight(k)' = IF k \in todo THEN buf[k].bytes ELSE 0
      BY <1>1, <2>2, <2>3 DEF Unread, InFlight, Deleted, Shape
    <2>4. ASSUME "diverted" \notin slips[k], SameKernel(k)
          PROVE  /\ Unread(k)' = IF k \in todo /\ buf[k].created = kernel[k].created
                                 THEN kernel[k].bytes - buf[k].bytes ELSE kernel[k].bytes
                 /\ lost'[k] = lost[k]
                 /\ InFlight(k)' = IF k \in todo THEN buf[k].bytes ELSE 0
      BY <1>1, <2>2, <2>4 DEF Unread, InFlight, SameKernel
    <2>5. ASSUME slips'[k] = {}
          PROVE  /\ Billed(k)' + unknown'[k] + lost'[k] + InFlight(k)' + Unread(k)' = sent'[k]
                 /\ Unread(k)' <= late'[k]
      BY <1>1, <2>1, <2>3, <2>4, <2>5 DEF Ledger, Unread, InFlight, Base
    <2>6. ASSUME slips'[k] \subseteq {"foldedLive"}
          PROVE  Billed(k)' + InFlight(k)' + Unread(k)' <= sent'[k]
      <3>1. Billed(k) + InFlight(k) + Unread(k) <= sent[k] /\ "diverted" \notin slips[k]
        BY <2>6 DEF Ledger
      <3>2. InFlight(k)' + Unread(k)' <= InFlight(k) + Unread(k) + entry[k].total
        <4>1. CASE Deleted(k)
          BY <1>1, <2>3, <3>1, <4>1 DEF Unread, InFlight, Base, Shape
        <4>2. CASE SameKernel(k)
          BY <1>1, <2>4, <3>1, <4>2 DEF Unread, InFlight, Base, Shape, Describes
        <4> QED BY <4>1, <4>2
      <3>3. InFlight(k)' \in Int /\ Unread(k)' \in Int
        BY <1>1, <2>3, <2>4, <3>1
      <3> QED BY <1>1, <2>1, <3>1, <3>2, <3>3
    <2> QED BY <2>5, <2>6 DEF Ledger
  <1> QED BY <1>2, <1>3, <1>4, <1>5, <1>6

\* An agent that has just attached, with empty maps and an empty state,
\* satisfies the invariant.
LEMMA InitIInv == Init => IInv
  <1> SUFFICES ASSUME Init PROVE IInv
    OBVIOUS
  <1> USE PipelineAssumption
  <1>1. TypeOK
    <2>1. PICK R \in SUBSET Restorable, stamp \in {0, BootStamp}, b \in PktSizes,
               r \in PktSizes : Init!1!(R, stamp, b, r)
      BY DEF Init
    <2>2. b \in Nat /\ r \in Nat /\ b - r \in Nat /\ stamp \in Nat
      BY <2>1 DEF BootStamp
    <2>3. NoFlow \in Entry /\ NoCount \in Count
      BY DEF NoFlow, NoCount, Entry, Count
    <2>4. kernel \in [Flows -> Entry] /\ count \in [Flows -> Count]
      BY <2>1, <2>2, <2>3 DEF BootStamp, Entry, Count
    <2>5. sent \in [Flows -> Nat] /\ late \in [Flows -> Nat] /\ rows \subseteq Flows
      BY <2>1, <2>2
    <2>6. relieving \in BOOLEAN
      BY DEF Init
    <2> QED BY <2>3, <2>4, <2>5, <2>6 DEF Init, TypeOK, BootStamp, SlipKinds
  <1>2. ControlInv
    BY DEF Init, ControlInv
  <1>3. ASSUME NEW k \in Flows PROVE FlowInv(k)
    BY DEF Init, FlowInv, Shape, Stamps, Bounded, RowOlder, Ledger, Base, InFlight,
           Unread, Billed, Describes, NoFlow, NoCount, BootStamp
  <1> QED BY <1>1, <1>2, <1>3 DEF IInv

\* As the clock runs, the flows a packet does not belong to keep theirs.
LEMMA ClockRuns ==
    ASSUME TypeOK, NEW k \in Flows, FlowInv(k), clock' = clock + 1, buf' = buf,
           sent'[k] = sent[k], late'[k] = late[k], SameKernel(k), SameRow(k),
           SameEntry(k), todo' = todo, slips' = slips
    PROVE  FlowInv(k)'
  <1> USE DEF SameKernel, SameRow, SameEntry
  <1>1. /\ InFlight(k)' = InFlight(k) /\ Unread(k)' = Unread(k)
        /\ Billed(k)' = Billed(k)
    BY DEF InFlight, Unread, Base, Billed
  <1>2. Shape(k)' /\ Bounded(k)' /\ RowOlder(k)' /\ Ledger(k)'
    BY <1>1 DEF FlowInv, Shape, Bounded, RowOlder, Ledger
  <1>3. Stamps(k)'
    BY DEF FlowInv, Stamps, TypeOK, Entry, Count, BootStamp
  <1> QED BY <1>2, <1>3 DEF FlowInv

\* A packet counted by the kernel program keeps the invariant: what it adds
\* to `sent' it adds to the flow's kernel entry.
LEMMA PacketStep ==
    ASSUME IInv, NEW f \in Flows, NEW n \in PktSizes, HandlePacket(f, n)
    PROVE  IInv'
  <1> USE PipelineAssumption DEF HandlePacket, scrapeVars, stateVars, bufferVars, sweepVars
  <1>1. TypeOK'
    BY DEF IInv, TypeOK, Entry
  <1>2. ControlInv'
    BY DEF IInv, ControlInv
  <1>3. ASSUME NEW k \in Flows PROVE FlowInv(k)'
    <2>1. CASE k # f
      BY <2>1, ClockRuns DEF IInv, TypeOK, SameKernel, SameRow, SameEntry
    <2>2. CASE k = f
      <3>1. Numbers(k) /\ FlowInv(k) /\ clock \in Nat /\ n \in Nat \ {0}
        BY FlowNumbers DEF IInv, TypeOK
      <3>2. /\ kernel'[k].bytes = kernel[k].bytes + n
            /\ kernel'[k].created = IF kernel[k].created # 0 THEN kernel[k].created
                                                             ELSE clock + 1
            /\ sent'[k] = sent[k] + n /\ late'[k] = late[k] + n
        BY <2>2 DEF IInv, TypeOK
      <3> HIDE DEF HandlePacket
      <3>3. /\ clock' = clock + 1
            /\ UNCHANGED <<todo, rows, held, count, entry, buf, unknown, settled, lost, slips>>
        BY DEF HandlePacket
      <3> USE DEF Numbers, Entry, Count, FlowInv
      <3>4. Shape(k)' BY <3>1, <3>2, <3>3 DEF Shape
      <3>5. Stamps(k)' BY <3>1, <3>2, <3>3 DEF Stamps, BootStamp
      <3>6. Bounded(k)' BY <3>1, <3>2, <3>3 DEF Bounded, Stamps, Describes, BootStamp
      <3>7. RowOlder(k)' BY <3>1, <3>2, <3>3 DEF RowOlder
      <3>8. Ledger(k)'
        <4>1. Unread(k)' = Unread(k) + n /\ InFlight(k)' = InFlight(k) /\ Billed(k)' = Billed(k)
          BY <3>1, <3>2, <3>3 DEF Unread, InFlight, Billed, Base, Describes, BootStamp, Stamps, Shape
        <4>2. Unread(k) \in Nat /\ InFlight(k) \in Nat /\ Billed(k) \in Nat
          BY <3>1, Quantities DEF IInv, Billed
        <4> QED BY <4>1, <4>2, <3>1, <3>2, <3>3 DEF Ledger
      <3> QED BY <3>4, <3>5, <3>6, <3>7, <3>8
    <2> QED BY <2>1, <2>2
  <1> QED BY <1>1, <1>2, <1>3 DEF IInv

\* Reading the whole map in a batch (scraper.Scrape) keeps the invariant: it
\* only copies entries that the kernel goes on counting.
LEMMA BatchStep ==
    ASSUME IInv, BatchLookup
    PROVE  IInv'
  <1> USE DEF BatchLookup, kernelVars, stateVars, bufferVars, sweepVars
  <1>1. TypeOK'
    BY DEF IInv, TypeOK
  <1>2. ControlInv'
    BY DEF IInv, ControlInv
  <1>3. ASSUME NEW k \in Flows PROVE FlowInv(k)'
    <2>1. Numbers(k) /\ FlowInv(k) /\ clock \in Nat /\ k \notin todo
      BY FlowNumbers DEF IInv, TypeOK, ControlInv
    <2>2. late'[k] = 0 /\ buf'[k] = kernel[k] /\ (k \in todo' <=> kernel[k].created # 0)
      OBVIOUS
    <2>3. UNCHANGED <<kernel, clock, rows, held, count, entry, unknown, settled, sent, lost, slips>>
      OBVIOUS
    <2> HIDE DEF BatchLookup
    <2> USE DEF Numbers, Entry, Count, FlowInv
    <2>4. Shape(k)' BY <2>1, <2>2, <2>3 DEF Shape
    <2>5. Stamps(k)' BY <2>1, <2>2, <2>3 DEF Stamps, BootStamp
    <2>6. Bounded(k)' BY <2>1, <2>2, <2>3 DEF Bounded, Describes, BootStamp
    <2>7. RowOlder(k)' BY <2>1, <2>2, <2>3 DEF RowOlder
    <2>8. Ledger(k)'
      <3>1. Billed(k)' = Billed(k) /\ Unread(k)' = 0 /\ InFlight(k)' = Unread(k) /\ InFlight(k) = 0
        BY <2>1, <2>2, <2>3 DEF Billed, Unread, InFlight, Base, Describes, BootStamp, Shape
      <3>2. Unread(k) \in Nat /\ Billed(k) \in Nat
        BY <2>1, Quantities DEF IInv, Billed
      <3> QED BY <3>1, <3>2, <2>1, <2>2, <2>3 DEF Ledger
    <2> QED BY <2>4, <2>5, <2>6, <2>7, <2>8
  <1> QED BY <1>1, <1>2, <1>3 DEF IInv

\* Buffer.Resolve hands total and baseline to the row together.
LEMMA AbsorbKnownStep ==
    ASSUME IInv, NEW f \in Flows, AbsorbKnown(f)
    PROVE  IInv'
  <1> USE DEF AbsorbKnown, kernelVars, sweepVars, ledgerVars, stateVars, bufferVars
  <1>1. CASE f \notin held
    <2>1. TypeOK' /\ ControlInv'
      BY <1>1 DEF IInv, TypeOK, ControlInv
    <2>2. ASSUME NEW k \in Flows PROVE FlowInv(k)'
      BY <1>1, Untouched DEF IInv, SameCounters, SameKernel, SameRow, SameEntry
    <2> QED BY <2>1, <2>2 DEF IInv
  <1>2. CASE f \in held
    <2> USE DEF ResolveRow, Forget
    <2>1. TypeOK'
      <3>1. entry' \in [Flows -> Count]
        BY <1>2 DEF IInv, TypeOK, Count, NoCount
      <3>2. count' \in [Flows -> Count]
        <4>1. count' = [count EXCEPT ![f] = [total |-> count[f].total + entry[f].total,
                                             raw |-> entry[f].raw, stamp |-> entry[f].stamp]]
          BY <1>2
        <4>2. Numbers(f) /\ count \in [Flows -> Count]
          BY FlowNumbers DEF IInv, TypeOK
        <4> QED BY <4>1, <4>2 DEF Numbers, Count
      <3>3. older' \subseteq held' \X held'
        BY <1>2 DEF IInv, TypeOK
      <3> QED BY <1>2, <3>1, <3>2, <3>3 DEF IInv, TypeOK
    <2>2. ControlInv'
      BY <1>2 DEF IInv, ControlInv
    <2>3. ASSUME NEW k \in Flows, k # f PROVE FlowInv(k)'
      BY <1>2, <2>3, Untouched DEF IInv, TypeOK, SameCounters, SameKernel, SameRow, SameEntry
    <2>4. FlowInv(f)'
      <3>1. Numbers(f) /\ FlowInv(f) /\ clock \in Nat
        BY FlowNumbers DEF IInv, TypeOK
      <3>2. /\ count'[f] = [total |-> count[f].total + entry[f].total,
                            raw |-> entry[f].raw, stamp |-> entry[f].stamp]
            /\ entry'[f] = NoCount /\ f \in rows' /\ f \notin held'
        BY <1>2 DEF IInv, TypeOK
      <3>3. UNCHANGED <<kernel, clock, buf, todo, unknown, settled, sent, lost, late, slips>>
        BY <1>2
      <3> HIDE DEF AbsorbKnown
      <3> USE <1>2 DEF Numbers, Entry, Count, FlowInv, NoCount
      <3>4. Shape(f)' BY <3>1, <3>2, <3>3 DEF Shape
      <3>5. Stamps(f)' BY <3>1, <3>2, <3>3 DEF Stamps, BootStamp
      <3>6. Bounded(f)' BY <3>1, <3>2, <3>3 DEF Bounded, Describes, Shape
      <3>7. RowOlder(f)' BY <3>2 DEF RowOlder
      <3>8. Ledger(f)'
        <4>1. Billed(f)' = Billed(f)
          BY <3>1, <3>2, <3>3 DEF Billed
        <4>2. InFlight(f)' = InFlight(f) /\ Unread(f)' = Unread(f)
          BY <3>1, <3>2, <3>3 DEF InFlight, Unread, Base, Describes
        <4> QED BY <4>1, <4>2, <3>1, <3>3 DEF Ledger
      <3> QED BY <3>4, <3>5, <3>6, <3>7, <3>8
    <2> QED BY <2>1, <2>2, <2>3, <2>4 DEF IInv
  <1> QED BY <1>1, <1>2

\* ApplyDelta adds what the row did not yet hold of the reading's incarnation.
LEMMA ApplyDeltaStep ==
    ASSUME IInv, NEW f \in Flows, ApplyDelta(f)
    PROVE  IInv'
  <1> USE DEF ApplyDelta, kernelVars, sweepVars, bufferVars
  <1>0. f \in todo /\ f \notin held
    BY DEF IInv, ControlInv
  <1>1. Numbers(f) /\ FlowInv(f) /\ clock \in Nat
    BY FlowNumbers DEF IInv, TypeOK
  <1>2. RowDelta(f) \in Nat
    BY <1>1 DEF RowDelta, Delta, Numbers, Entry, Count
  <1>3. TypeOK'
    BY <1>1, <1>2 DEF IInv, TypeOK, Count, Entry, Numbers, Slip, SlipKinds
  <1>4. ControlInv'
    BY DEF IInv, ControlInv
  <1>5. ASSUME NEW k \in Flows, k # f PROVE FlowInv(k)'
    BY <1>5, Untouched DEF IInv, TypeOK, SameCounters, SameKernel, SameRow, SameEntry, Slip
  <1>6. FlowInv(f)'
    <2>1. /\ count'[f] = [total |-> count[f].total + RowDelta(f),
                          raw |-> buf[f].bytes, stamp |-> buf[f].created]
          /\ f \in rows' /\ f \notin todo' /\ f \notin held'
          /\ slips[f] \subseteq slips'[f]
          /\ f \in rows /\ count[f].stamp = 0 /\ buf[f].created # BootStamp
               => "recreated" \in slips'[f]
      BY <1>0 DEF IInv, TypeOK, Slip
    <2>2. UNCHANGED <<kernel, clock, buf, entry, unknown, settled, sent, lost, late>>
      OBVIOUS
    <2> HIDE DEF ApplyDelta
    <2> USE <1>0 DEF Numbers, Entry, Count, FlowInv
    <2>3. Shape(f)' BY <1>1, <2>1, <2>2 DEF Shape
    <2>4. Stamps(f)' BY <1>1, <2>1, <2>2 DEF Stamps, BootStamp
    <2>5. Bounded(f)' BY <1>1, <2>1, <2>2 DEF Bounded, Describes, Shape, NoCount
    <2>6. RowOlder(f)' BY <2>1 DEF RowOlder
    <2>7. Ledger(f)'
      <3>1. Billed(f)' = Billed(f) + RowDelta(f)
        BY <1>1, <1>2, <2>1, <2>2 DEF Billed
      <3>2. ASSUME "recreated" \notin slips'[f]
            PROVE  RowDelta(f) = InFlight(f)
        BY <1>1, <2>1, <3>2 DEF RowDelta, Delta, InFlight, Base, Describes, Bounded, Shape
      <3>3. InFlight(f)' = 0 /\ Unread(f)' = Unread(f)
        BY <1>1, <2>1, <2>2 DEF InFlight, Unread, Base, Describes, Stamps, Shape, BootStamp
      <3>4. InFlight(f) \in Nat /\ Unread(f) \in Nat /\ Billed(f) \in Nat
        BY <1>1, Quantities DEF IInv, Billed
      <3> QED BY <1>1, <2>1, <2>2, <3>1, <3>2, <3>3, <3>4 DEF Ledger
    <2> QED BY <2>3, <2>4, <2>5, <2>6, <2>7
  <1> QED BY <1>3, <1>4, <1>5, <1>6 DEF IInv

\* Capture of a buffered flow: exact unless the entry was re-created.
LEMMA CaptureAgainStep ==
    ASSUME IInv, NEW f \in Flows, CaptureAgain(f)
    PROVE  IInv'
  <1> USE DEF CaptureAgain, kernelVars, sweepVars, stateVars
  <1>1. Numbers(f) /\ FlowInv(f) /\ clock \in Nat
    BY FlowNumbers DEF IInv, TypeOK
  <1>2. Delta(entry[f].raw, buf[f].bytes) \in Nat
    BY <1>1 DEF Delta, Numbers, Entry, Count
  <1>3. TypeOK'
    <2>1. entry' \in [Flows -> Count]
      BY <1>1, <1>2 DEF IInv, TypeOK, Count, Entry, Numbers
    <2>2. slips' \in [Flows -> SUBSET SlipKinds]
      BY DEF IInv, TypeOK, Slip, SlipKinds
    <2>3. older' \subseteq held' \X held'
      BY DEF IInv, TypeOK
    <2> QED BY <2>1, <2>2, <2>3 DEF IInv, TypeOK
  <1>4. ControlInv'
    BY DEF IInv, ControlInv
  <1>5. ASSUME NEW k \in Flows, k # f PROVE FlowInv(k)'
    BY <1>5, Untouched DEF IInv, TypeOK, SameCounters, SameKernel, SameRow, SameEntry, Slip
  <1>6. FlowInv(f)'
    <2>1. /\ entry'[f] = [total |-> entry[f].total + Delta(entry[f].raw, buf[f].bytes),
                          raw |-> buf[f].bytes, stamp |-> entry[f].stamp]
          /\ f \notin todo' /\ f \in todo /\ f \in held /\ f \in held'
          /\ slips[f] \subseteq slips'[f]
          /\ entry[f].stamp # buf[f].created => "recreated" \in slips'[f]
      BY DEF IInv, TypeOK, Slip
    <2>2. UNCHANGED <<kernel, clock, buf, rows, count, unknown, settled, sent, lost, late>>
      OBVIOUS
    <2> HIDE DEF CaptureAgain
    <2> USE DEF Numbers, Entry, Count, FlowInv
    <2>3. Shape(f)' BY <1>1, <1>2, <2>1, <2>2 DEF Shape, Delta
    <2>4. Stamps(f)' BY <1>1, <2>1, <2>2 DEF Stamps, BootStamp
    <2>5. Bounded(f)' BY <1>1, <2>1, <2>2 DEF Bounded, Describes, Shape, Stamps
    <2>6. RowOlder(f)' BY <1>1, <2>1, <2>2 DEF RowOlder
    <2>7. Ledger(f)'
      <3>1. Billed(f)' = Billed(f) + Delta(entry[f].raw, buf[f].bytes)
        BY <1>1, <1>2, <2>1, <2>2 DEF Billed
      <3>2. ASSUME "recreated" \notin slips'[f]
            PROVE  /\ Delta(entry[f].raw, buf[f].bytes) = InFlight(f)
                   /\ Unread(f)' = Unread(f)
        BY <1>1, <2>1, <2>2, <3>2
           DEF Delta, InFlight, Unread, Base, Describes, Bounded, Shape
      <3>3. InFlight(f)' = 0
        BY <2>1 DEF InFlight
      <3>4. InFlight(f) \in Nat /\ Unread(f) \in Nat /\ Billed(f) \in Nat
        BY <1>1, Quantities DEF IInv, Billed
      <3> QED BY <1>1, <2>1, <2>2, <3>1, <3>2, <3>3, <3>4 DEF Ledger
    <2> QED BY <2>3, <2>4, <2>5, <2>6, <2>7
  <1> QED BY <1>3, <1>4, <1>5, <1>6 DEF IInv

\* A first sight takes the reading whole: exact unless a row already held
\* part of it.
LEMMA CapturedFlow ==
    ASSUME TypeOK, NEW f \in Flows, FlowInv(f), SameCounters(f), SameKernel(f),
           SameRow(f), f \in todo, f \notin todo', f \notin held, f \in held',
           entry'[f] = FirstEntry(f), unknown'[f] = unknown[f],
           slips[f] \subseteq slips'[f],
           f \in Diverted(f) => "diverted" \in slips'[f]
    PROVE  FlowInv(f)'
  <1> USE DEF SameCounters, SameKernel, SameRow, NoFlow, NoCount, FirstEntry
  <1>1. Numbers(f) /\ clock \in Nat /\ InFlight(f) \in Nat /\ Unread(f) \in Nat
    BY FlowNumbers, Quantities DEF TypeOK, FlowInv
  <1> USE DEF Numbers, Entry, Count, FlowInv
  <1>2. Shape(f)' BY <1>1 DEF Shape
  <1>3. Stamps(f)' BY <1>1 DEF Stamps, BootStamp
  <1>4. Bounded(f)' BY <1>1 DEF Bounded, Describes, Shape, Stamps, BootStamp
  <1>5. RowOlder(f)'
    BY <1>1 DEF RowOlder, Diverted, Describes, Stamps, Shape, BootStamp
  <1>6. Ledger(f)'
    <2>1. Billed(f)' = Billed(f) + buf[f].bytes /\ Billed(f) \in Nat
      BY <1>1 DEF Billed, Shape
    <2>2. "diverted" \notin slips'[f] => InFlight(f) = buf[f].bytes
      BY <1>1 DEF InFlight, Base, Diverted
    <2>3. "diverted" \notin slips'[f] => Unread(f)' = Unread(f)
      BY <1>1 DEF Unread, Base, Diverted, Describes, Stamps, Shape, BootStamp
    <2>4. InFlight(f)' = 0
      BY DEF InFlight
    <2> QED BY <1>1, <2>1, <2>2, <2>3, <2>4 DEF Ledger
  <1> QED BY <1>2, <1>3, <1>4, <1>5, <1>6

\* Capturing an entry while the unknown buffer has room keeps the invariant.
LEMMA CaptureFirstStep ==
    ASSUME IInv, NEW f \in Flows, CaptureFirst(f)
    PROVE  IInv'
  <1> USE DEF CaptureFirst, kernelVars, sweepVars, stateVars
  <1>1. TypeOK'
    <2>1. entry' \in [Flows -> Count]
      BY FlowNumbers DEF IInv, TypeOK, Count, Entry, FirstEntry, Numbers
    <2>2. slips' \in [Flows -> SUBSET SlipKinds]
      BY DEF IInv, TypeOK, Slip, SlipKinds
    <2>3. older' \subseteq held' \X held' /\ aged' \subseteq held'
      BY DEF IInv, TypeOK, Pushed
    <2> QED BY <2>1, <2>2, <2>3 DEF IInv, TypeOK
  <1>2. ControlInv'
    BY DEF IInv, ControlInv
  <1>3. ASSUME NEW k \in Flows, k # f PROVE FlowInv(k)'
    BY <1>3, Untouched DEF IInv, TypeOK, SameCounters, SameKernel, SameRow, SameEntry,
                           Slip, Diverted
  <1>4. FlowInv(f)'
    <2>1. /\ entry'[f] = FirstEntry(f) /\ slips[f] \subseteq slips'[f]
          /\ f \in Diverted(f) => "diverted" \in slips'[f]
      BY DEF IInv, TypeOK, Slip
    <2> QED BY <2>1, CapturedFlow DEF IInv, SameCounters, SameKernel, SameRow
  <1> QED BY <1>1, <1>2, <1>3, <1>4 DEF IInv

\* A delete of the flows K leaves the map well typed.
LEMMA DeleteTypes ==
    ASSUME IInv, NEW K, NEW failed, DeleteEntries(K, failed)
    PROVE  /\ kernel' \in [Flows -> Entry] /\ lost' \in [Flows -> Nat] /\ fails' \in Nat
           /\ \A k \in Flows : IF k \in K \ failed THEN Deleted(k) ELSE SameKernel(k)
  <1>1. \A k \in Flows : Unread(k) \in Nat
    BY Quantities DEF IInv, FlowInv
  <1> QED BY <1>1 DEF DeleteEntries, IInv, TypeOK, NoFlow, Entry, Deleted, SameKernel

\* Capturing an entry at the buffer's limit, which evicts a victim and deletes
\* its kernel entry, a deletion that may fail, keeps the invariant.
LEMMA CaptureEvictStep ==
    ASSUME IInv, NEW f \in Flows, NEW v \in held, NEW failed \in SUBSET {v},
           CaptureEvict(f, v, failed)
    PROVE  IInv'
  <1> USE DEF CaptureEvict, sweepVars
  <1>0. v \in Flows /\ v # f /\ f \notin held
    BY DEF IInv, TypeOK
  <1>1. /\ kernel' \in [Flows -> Entry] /\ lost' \in [Flows -> Nat] /\ fails' \in Nat
        /\ \A k \in Flows : IF k \in {v} \ failed THEN Deleted(k) ELSE SameKernel(k)
    BY DeleteTypes
  <1>2. TypeOK'
    <2>1. entry' \in [Flows -> Count]
      <3>1. FirstEntry(f) \in Count /\ NoCount \in Count
        BY FlowNumbers DEF IInv, Count, Entry, FirstEntry, Numbers, NoCount
      <3> QED BY <3>1 DEF IInv, TypeOK
    <2>2. slips' \in [Flows -> SUBSET SlipKinds]
      BY DEF IInv, TypeOK, SlipKinds
    <2>3. older' \subseteq held' \X held' /\ aged' \subseteq held'
      BY DEF IInv, TypeOK, Pushed
    <2>4. unknown' \in [Flows -> Nat]
      <3>1. Numbers(v)
        BY <1>0, FlowNumbers DEF IInv
      <3> QED BY <3>1 DEF IInv, TypeOK, Numbers, Count
    <2>5. held' \subseteq Flows /\ todo' \subseteq Flows
      BY DEF IInv, TypeOK
    <2> QED BY <1>1, <2>1, <2>2, <2>3, <2>4, <2>5 DEF IInv, TypeOK
  <1>3. ControlInv'
    BY DEF IInv, ControlInv
  <1>4. ASSUME NEW k \in Flows PROVE
          /\ SameCounters(k) /\ SameRow(k) /\ slips[k] \subseteq slips'[k]
          /\ k \notin {f, v} => SameEntry(k) /\ SameKernel(k) /\ slips'[k] = slips[k]
                                /\ (k \in todo' <=> k \in todo)
    <2>1. k \notin {f, v} => entry'[k] = entry[k] /\ unknown'[k] = unknown[k]
      BY DEF IInv, TypeOK
    <2> QED BY <1>1, <2>1 DEF SameCounters, SameRow, SameEntry, Diverted
  <1>5. ASSUME NEW k \in Flows, k \notin {f, v} PROVE FlowInv(k)'
    BY <1>4, <1>5, Untouched DEF IInv
  <1>6. FlowInv(f)'
    <2>1. /\ entry'[f] = FirstEntry(f) /\ unknown'[f] = unknown[f] /\ SameKernel(f)
          /\ f \in Diverted(f) => "diverted" \in slips'[f]
      BY <1>0, <1>1 DEF IInv, TypeOK
    <2> QED BY <1>0, <1>4, <2>1, CapturedFlow DEF IInv
  <1>7. FlowInv(v)'
    <2>1. /\ entry'[v] = NoCount /\ unknown'[v] = unknown[v] + entry[v].total
          /\ v \notin held' /\ (v \in todo' <=> v \in todo)
      BY <1>0 DEF IInv, TypeOK
    <2>2. \/ Deleted(v)
          \/ SameKernel(v) /\ (Base(v, kernel[v].created) # 0 => "foldedLive" \in slips'[v])
      BY <1>0, <1>1
    <2>3. v \in todo /\ Base(v, buf[v].created) # 0 => "foldedLive" \in slips'[v]
      BY <1>0
    <2> QED BY <1>0, <1>4, <2>1, <2>2, <2>3, FoldedFlow DEF IInv
  <1> QED BY <1>0, <1>2, <1>3, <1>5, <1>6, <1>7 DEF IInv

\* The buffer's sweep of aged entries, whose deletions may fail in part, keeps
\* the invariant.
LEMMA SweepStep ==
    ASSUME IInv, NEW failed, Sweep(failed)
    PROVE  IInv'
  <1> USE DEF Sweep, sweepVars, Forget
  <1>1. /\ kernel' \in [Flows -> Entry] /\ lost' \in [Flows -> Nat] /\ fails' \in Nat
        /\ \A k \in Flows : IF k \in aged \ failed THEN Deleted(k) ELSE SameKernel(k)
    BY DeleteTypes
  <1>2. TypeOK'
    <2>1. entry' \in [Flows -> Count] /\ unknown' \in [Flows -> Nat]
      BY FlowNumbers DEF IInv, TypeOK, Count, Numbers, NoCount
    <2>2. slips' \in [Flows -> SUBSET SlipKinds]
      BY DEF IInv, TypeOK, Slip, SlipKinds
    <2>3. older' \subseteq held' \X held' /\ aged' \subseteq held'
      BY DEF IInv, TypeOK
    <2> QED BY <1>1, <2>1, <2>2, <2>3 DEF IInv, TypeOK
  <1>3. ControlInv'
    BY DEF IInv, ControlInv
  <1>4. ASSUME NEW k \in Flows PROVE FlowInv(k)'
    <2>1. SameCounters(k) /\ SameRow(k) /\ k \notin todo /\ k \notin todo' /\ FlowInv(k)
      BY DEF SameCounters, SameRow, IInv
    <2>2. CASE k \notin aged
      <3>1. SameEntry(k) /\ SameKernel(k) /\ slips'[k] = slips[k]
        BY <1>1, <2>2 DEF SameEntry, Slip
      <3> QED BY <2>1, <3>1, Untouched DEF IInv
    <2>3. CASE k \in aged
      <3>1. /\ k \in held /\ k \notin held' /\ entry'[k] = NoCount
            /\ unknown'[k] = unknown[k] + entry[k].total
            /\ slips[k] \subseteq slips'[k]
            /\ k \in failed /\ Base(k, kernel[k].created) # 0 => "foldedLive" \in slips'[k]
        BY <2>3 DEF IInv, TypeOK, Slip, LiveBaseline
      <3>2. \/ Deleted(k)
            \/ SameKernel(k) /\ k \in failed
        BY <1>1, <2>3
      <3> QED BY <2>1, <3>1, <3>2, FoldedFlow DEF IInv
    <2> QED BY <2>2, <2>3
  <1> QED BY <1>2, <1>3, <1>4 DEF IInv

\* A tick that ends without relief, under the floor or between the watermarks,
\* keeps the invariant.
LEMMA NoReliefStep ==
    ASSUME IInv, NoRelief
    PROVE  IInv'
  <1> USE DEF NoRelief, kernelVars, stateVars, bufferVars, sweepVars, ledgerVars
  <1>1. TypeOK'
    <2>1. relieving' \in BOOLEAN
      BY DEF IInv, TypeOK
    <2>2. buf' \in [Flows -> Entry]
      BY DEF NoFlow, Entry
    <2> QED BY <2>1, <2>2 DEF IInv, TypeOK
  <1>2. ControlInv'
    BY DEF IInv, ControlInv
  <1>3. ASSUME NEW k \in Flows PROVE FlowInv(k)'
    BY Untouched DEF IInv, ControlInv, SameCounters, SameKernel, SameRow, SameEntry
  <1> QED BY <1>1, <1>2, <1>3 DEF IInv

\* Pressure relief runs when every reading is absorbed.
LEMMA RelieveStep ==
    ASSUME IInv, NEW V, NEW failed, Relieve(V, failed)
    PROVE  IInv'
  <1> USE DEF Relieve, stateVars, bufferVars, sweepVars
  <1>1. /\ kernel' \in [Flows -> Entry] /\ lost' \in [Flows -> Nat] /\ fails' \in Nat
        /\ \A k \in Flows : IF k \in V \ failed THEN Deleted(k) ELSE SameKernel(k)
    BY DeleteTypes
  <1>2. TypeOK'
    <2>1. relieving' \in BOOLEAN
      OBVIOUS
    <2>2. buf' \in [Flows -> Entry]
      BY DEF NoFlow, Entry
    <2> QED BY <1>1, <2>1, <2>2 DEF IInv, TypeOK
  <1>3. ControlInv'
    BY DEF IInv, ControlInv
  <1>4. ASSUME NEW k \in Flows PROVE FlowInv(k)'
    <2>1. SameCounters(k) /\ SameRow(k) /\ SameEntry(k) /\ FlowInv(k)
          /\ (k \in todo' <=> k \in todo) /\ slips'[k] = slips[k]
      BY DEF IInv, ControlInv, SameCounters, SameRow, SameEntry
    <2> QED BY <1>1, <2>1, DeletedFlow, Untouched DEF IInv
  <1> QED BY <1>2, <1>3, <1>4 DEF IInv

\* Steps that leave every counter, row and entry alone.
LEMMA MetaStep ==
    ASSUME IInv, TypeOK', UNCHANGED <<kernelVars, scrapeVars, stateVars, held, entry,
                                      ledgerVars>>
    PROVE  IInv'
  <1> USE DEF kernelVars, scrapeVars, stateVars, ledgerVars
  <1>1. ControlInv'
    BY DEF IInv, ControlInv
  <1>2. ASSUME NEW k \in Flows PROVE FlowInv(k)'
    BY Untouched DEF IInv, SameCounters, SameKernel, SameRow, SameEntry
  <1> QED BY <1>1, <1>2 DEF IInv

\* Settling a MAC whose attribution changes keeps the invariant: what leaves
\* the rows enters `settled', and the baselines stay.
LEMMA SettleRebaseStep ==
    ASSUME IInv, NEW m \in Macs, SettleRebase(m)
    PROVE  IInv'
  <1> USE DEF SettleRebase, kernelVars, scrapeVars, bufferVars, sweepVars, ledgerVars, Fold
  <1>1. TypeOK'
    <2>1. ASSUME NEW k \in Flows
          PROVE  count[k] \in Count /\ [count[k] EXCEPT !.total = 0] \in Count
      <3>1. count[k] \in Count
        BY DEF IInv, TypeOK
      <3> HIDE DEF SettleRebase
      <3>2. [count[k] EXCEPT !.total = 0] \in Count
        BY <3>1 DEF Count
      <3> QED BY <3>1, <3>2
    <2>2. count' \in [Flows -> Count]
      BY <2>1
    <2>3. settled' \in [Flows -> Nat]
      BY <2>1 DEF IInv, TypeOK, Count
    <2> QED BY <2>2, <2>3 DEF IInv, TypeOK
  <1>2. ControlInv'
    BY DEF IInv, ControlInv
  <1>3. ASSUME NEW k \in Flows PROVE FlowInv(k)'
    <2>1. CASE k \notin RowsOf({m})
      BY <2>1, Untouched DEF IInv, SameCounters, SameKernel, SameRow, SameEntry
    <2>2. CASE k \in RowsOf({m})
      <3>1. Numbers(k) /\ FlowInv(k) /\ clock \in Nat /\ k \in rows
        BY <2>2, FlowNumbers DEF IInv, TypeOK, RowsOf
      <3>2. /\ count'[k].total = 0 /\ count'[k].raw = count[k].raw
            /\ count'[k].stamp = count[k].stamp
            /\ settled'[k] = settled[k] + count[k].total
        BY <2>2, <3>1 DEF Numbers, Count
      <3>3. UNCHANGED <<kernel, clock, buf, todo, rows, held, entry, unknown, sent, lost,
                        late, slips>>
        OBVIOUS
      <3> HIDE DEF SettleRebase
      <3> USE DEF Numbers, Entry, Count, FlowInv
      <3>4. Shape(k)' /\ Stamps(k)' /\ Bounded(k)' /\ RowOlder(k)'
        BY <3>1, <3>2, <3>3 DEF Shape, Stamps, Bounded, RowOlder
      <3>5. /\ Billed(k)' = Billed(k) /\ InFlight(k)' = InFlight(k)
            /\ Unread(k)' = Unread(k)
        BY <3>1, <3>2, <3>3 DEF Billed, InFlight, Unread, Base
      <3> QED BY <3>3, <3>1, <3>4, <3>5 DEF Ledger
    <2> QED BY <2>1, <2>2
  <1> QED BY <1>1, <1>2, <1>3 DEF IInv

\* Deleting the kernel entries a swept ghost leaves behind keeps the
\* invariant, whichever of the deletions fail.
LEMMA EvictResidualStep ==
    ASSUME IInv, NEW failed, EvictResidualFlows(failed)
    PROVE  IInv'
  <1> USE DEF EvictResidualFlows, scrapeVars, stateVars, bufferVars
  <1> DEFINE K == {k \in Flows : VMMAC[k] \in swept}
  <1>1. /\ kernel' \in [Flows -> Entry] /\ lost' \in [Flows -> Nat] /\ fails' \in Nat
        /\ \A k \in Flows : IF k \in K \ failed THEN Deleted(k) ELSE SameKernel(k)
    BY DeleteTypes
  <1>2. TypeOK' /\ ControlInv'
    BY <1>1 DEF IInv, TypeOK, ControlInv
  <1>3. ASSUME NEW k \in Flows PROVE FlowInv(k)'
    <2>1. SameCounters(k) /\ SameRow(k) /\ SameEntry(k) /\ FlowInv(k)
          /\ (k \in todo' <=> k \in todo) /\ slips'[k] = slips[k]
      BY DEF IInv, SameCounters, SameRow, SameEntry
    <2> QED BY <1>1, <2>1, DeletedFlow, Untouched DEF IInv
  <1> QED BY <1>2, <1>3 DEF IInv

\* SettleEvict is exact when no counter goes on from the row's baseline.
LEMMA SettleSweptStep ==
    ASSUME IInv, SettleSwept
    PROVE  IInv'
  <1> USE DEF SettleSwept, kernelVars, scrapeVars, bufferVars, Fold
  <1>1. TypeOK'
    <2>1. count' \in [Flows -> Count] /\ settled' \in [Flows -> Nat]
      BY FlowNumbers DEF IInv, TypeOK, Numbers, Count, NoCount
    <2>2. slips' \in [Flows -> SUBSET SlipKinds]
      BY DEF IInv, TypeOK, Slip, SlipKinds
    <2> QED BY <2>1, <2>2 DEF IInv, TypeOK
  <1>2. ControlInv'
    BY DEF IInv, ControlInv
  <1>3. ASSUME NEW k \in Flows PROVE FlowInv(k)'
    <2>1. CASE k \notin RowsOf(swept)
      BY <2>1, Untouched DEF IInv, SameCounters, SameKernel, SameRow, SameEntry, Slip
    <2>2. CASE k \in RowsOf(swept)
      <3>1. Numbers(k) /\ FlowInv(k) /\ clock \in Nat /\ k \in rows
        BY <2>2, FlowNumbers DEF IInv, TypeOK, RowsOf
      <3>2. /\ count'[k] = NoCount /\ settled'[k] = settled[k] + count[k].total
            /\ k \notin rows' /\ slips[k] \subseteq slips'[k]
            /\ k \notin held /\ LiveBaseline(k) => "settledLive" \in slips'[k]
        BY <2>2 DEF Slip
      <3>3. UNCHANGED <<kernel, clock, buf, todo, held, entry, unknown, sent, lost, late>>
        OBVIOUS
      <3> HIDE DEF SettleSwept
      <3> USE DEF Numbers, Entry, Count, FlowInv, NoCount
      <3>4. Shape(k)' BY <3>1, <3>2, <3>3 DEF Shape
      <3>5. Stamps(k)' BY <3>1, <3>2, <3>3 DEF Stamps, BootStamp
      <3>6. Bounded(k)' BY <3>1, <3>2, <3>3 DEF Bounded, Describes
      <3>7. RowOlder(k)' BY <3>2 DEF RowOlder
      <3>8. Ledger(k)'
        <4>1. Billed(k)' = Billed(k) /\ Billed(k) \in Nat
          BY <3>1, <3>2, <3>3 DEF Billed
        <4>2. "settledLive" \notin slips'[k] =>
                InFlight(k)' = InFlight(k) /\ Unread(k)' = Unread(k)
          BY <3>1, <3>2, <3>3 DEF InFlight, Unread, Base, LiveBaseline
        <4> QED BY <3>1, <3>2, <3>3, <4>1, <4>2 DEF Ledger
      <3> QED BY <3>4, <3>5, <3>6, <3>7, <3>8
    <2> QED BY <2>1, <2>2
  <1> QED BY <1>1, <1>2, <1>3 DEF IInv

-----------------------------------------------------------------------------
\* Every step of every actor preserves the invariant.
LEMMA NextIInv == IInv /\ [Next]_vars => IInv'
  <1> SUFFICES ASSUME IInv, [Next]_vars PROVE IInv'
    OBVIOUS
  <1>1. ASSUME NEW k \in Flows, NEW n \in PktSizes, HandlePacket(k, n) PROVE IInv'
    BY <1>1, PacketStep
  <1>2. ASSUME NEW k \in held, Age(k) PROVE IInv'
    <2>1. TypeOK'
      BY <1>2 DEF Age, IInv, TypeOK, kernelVars, scrapeVars, stateVars, sweepVars, ledgerVars
    <2> QED BY <1>2, <2>1, MetaStep DEF Age
  <1>3. ASSUME Tick PROVE IInv'
    <2>1. ASSUME NEW k \in Flows, Absorb(k) PROVE IInv'
      <3>1. ASSUME NEW v \in held, NEW failed \in {{}, {v}}, CaptureEvict(k, v, failed)
            PROVE  IInv'
        BY <3>1, CaptureEvictStep
      <3> QED BY <2>1, <3>1, AbsorbKnownStep, ApplyDeltaStep, CaptureAgainStep,
                 CaptureFirstStep DEF Absorb
    <2> QED BY <1>3, <2>1, BatchStep, SweepStep, NoReliefStep, RelieveStep DEF Tick
  <1>4. ASSUME NEW m \in Macs, Learn(m) \/ MarkDelete(m) \/ SettleRebase(m) PROVE IInv'
    <2>1. CASE Learn(m) \/ MarkDelete(m)
      <3>1. TypeOK'
        BY <2>1 DEF Learn, MarkDelete, IInv, TypeOK, kernelVars, scrapeVars, stateVars,
                    bufferVars, sweepVars, ledgerVars
      <3> QED BY <2>1, <3>1, MetaStep DEF Learn, MarkDelete, bufferVars
    <2> QED BY <1>4, <2>1, SettleRebaseStep
  <1>5. ASSUME GhostSweep PROVE IInv'
    <2>1. ASSUME (\E M \in SUBSET Macs : DeleteKernelMACs(M)) \/ DeleteUserspace PROVE IInv'
      <3>1. TypeOK'
        BY <2>1 DEF DeleteKernelMACs, DeleteUserspace, IInv, TypeOK, kernelVars,
                    scrapeVars, stateVars, bufferVars, ledgerVars
      <3> QED BY <2>1, <3>1, MetaStep DEF DeleteKernelMACs, DeleteUserspace, bufferVars
    <2> QED BY <1>5, <2>1, EvictResidualStep, SettleSweptStep DEF GhostSweep
  <1>6. CASE UNCHANGED vars
    <2>1. TypeOK'
      BY <1>6 DEF IInv, TypeOK, vars, kernelVars, scrapeVars, stateVars, bufferVars,
                  sweepVars, ledgerVars
    <2> QED BY <1>6, <2>1, MetaStep DEF vars, bufferVars
  <1> QED BY <1>1, <1>2, <1>3, <1>4, <1>5, <1>6 DEF Next, Reconcile

\* Every reachable state satisfies the invariant: each byte the kernel counted
\* is accounted for by the flow's ledger across the scrape, buffer, relief and
\* settlement paths together.
THEOREM LedgerInvariant == Spec => []IInv
  BY InitIInv, NextIInv, PTL DEF Spec

\* For any number of flows, MACs and packets and any limits, every variable
\* keeps its type; in particular no counter is ever driven below zero.
THEOREM TypeCorrect == Spec => []TypeOK
  <1>1. IInv => TypeOK
    BY DEF IInv
  <1> QED BY <1>1, LedgerInvariant, PTL

\* Outside the four windows every byte is counted exactly once.
THEOREM Conservation == Spec => []Conserved
  <1>1. IInv => Conserved
    BY DEF IInv, FlowInv, Ledger, Conserved
  <1> QED BY <1>1, LedgerInvariant, PTL

\* A failed or mistimed buffer reset never over-bills a tenant.
THEOREM TenantBilledOnce == Spec => []BilledOnce
  <1>1. IInv => BilledOnce
    <2> SUFFICES ASSUME IInv, NEW k \in Flows, slips[k] \subseteq {"foldedLive"}
                 PROVE  Billed(k) <= sent[k]
      BY DEF BilledOnce
    <2>1. Numbers(k) /\ InFlight(k) \in Nat /\ Unread(k) \in Nat
      BY FlowNumbers, Quantities DEF IInv, FlowInv
    <2>2. Billed(k) + InFlight(k) + Unread(k) <= sent[k]
      BY DEF IInv, FlowInv, Ledger
    <2> QED BY <2>1, <2>2 DEF Billed, Numbers, Count
  <1> QED BY <1>1, LedgerInvariant, PTL

\* No delete of a kernel entry destroys bytes that a tick had drained.
THEOREM LossBounded == Spec => LossIsLate
  <1> DEFINE A == \A k \in Flows : slips[k] = {} => lost'[k] <= lost[k] + late[k]
  <1>1. IInv /\ [Next]_vars => [A]_vars
    <2> SUFFICES ASSUME IInv, Next, NEW k \in Flows, slips[k] = {}
                 PROVE  lost'[k] <= lost[k] + late[k]
      OBVIOUS
    <2>1. lost[k] \in Nat /\ late[k] \in Nat /\ Unread(k) \in Nat /\ Unread(k) <= late[k]
      BY FlowNumbers, Quantities DEF IInv, FlowInv, Ledger, Numbers
    <2>2. ASSUME NEW K, NEW failed, DeleteEntries(K, failed)
          PROVE  lost'[k] \in {lost[k], lost[k] + Unread(k)}
      BY <2>2 DEF DeleteEntries
    <2> DEFINE Safe == lost' = lost \/ \E K, failed : DeleteEntries(K, failed)
    <2>3. ASSUME Tick PROVE Safe
      <3>1. ASSUME NEW f \in Flows, Absorb(f) PROVE Safe
        BY <3>1 DEF Absorb, AbsorbKnown, ApplyDelta, CaptureAgain, CaptureFirst,
                    CaptureEvict, ledgerVars
      <3>2. ASSUME NEW failed, Sweep(failed) PROVE Safe
        BY <3>2 DEF Sweep
      <3>3. ASSUME NEW V, NEW failed, Relieve(V, failed) PROVE Safe
        BY <3>3 DEF Relieve
      <3> QED BY <2>3, <3>1, <3>2, <3>3 DEF Tick, BatchLookup, NoRelief, ledgerVars
    <2>4. ASSUME Reconcile \/ GhostSweep PROVE Safe
      <3>1. ASSUME NEW failed, EvictResidualFlows(failed) PROVE Safe
        BY <3>1 DEF EvictResidualFlows
      <3> QED BY <2>4, <3>1 DEF Reconcile, Learn, MarkDelete, SettleRebase, GhostSweep,
                 DeleteKernelMACs, SettleSwept, DeleteUserspace, ledgerVars
    <2>5. Safe
      BY <2>3, <2>4 DEF Next, HandlePacket, Age, ledgerVars
    <2> QED BY <2>1, <2>2, <2>5
  <1> QED BY <1>1, LedgerInvariant, PTL DEF Spec, LossIsLate
=============================================================================
