---------------------------- MODULE NetlinkAttach ----------------------------
(***************************************************************************)
(* How taps come to carry the telemetry filters: the netlink subscriber    *)
(* (event stream, re-subscription, attach-presence sweep), its registry    *)
(* and allowlist, the TC attachment with its rollback, and the hunt for    *)
(* the filters of an earlier agent at boot.                                *)
(*                                                                         *)
(* A link is an index with an interface name and type; names are reused.   *)
(* The kernel side (links, filters, the socket's events) is external.  The *)
(* length of waits is left out, Go's select takes any ready case.          *)
(***************************************************************************)
EXTENDS Naturals, Sequences, FiniteSets

CONSTANTS
    Prefixed, Explicit,   \* the names the allowlists match
    Resync,               \* ResyncInterval > 0
    ChanDepth,            \* eventChanDepth: more unread events kill the socket
    MaxLinks,             \* bound on the links the host creates
    MaxBoots,             \* bound on the agent's starts
    MaxFaults             \* bound on failing calls and lost subscriptions

ASSUME NetlinkAssumption ==
    /\ Resync \in BOOLEAN
    /\ ChanDepth \in Nat /\ MaxBoots \in Nat /\ MaxFaults \in Nat
    /\ MaxLinks \in Nat \ {0}       \* the host starts with a tap

Names == Prefixed \cup Explicit
Kinds == {"tun", "veth"}
Hooks == {"in", "out"}
Index == 1..MaxLinks

VARIABLES
    iface,      \* the interface of each link made so far
    alive,      \* the links that exist
    tc,         \* the agent start whose filter is in each hook's fixed slot, 0 none
    queue,      \* events read from the socket, not handled
    closed,     \* the socket is dead
    mode,       \* down, subscribe (backoff included), stream or sweep
    first,      \* resyncFirst
    registry,   \* Registry.names
    failing, skipped,
    todo, kept, bad,   \* the sweep: links to visit, attached, failing
    boot,       \* number of the running agent
    faults,
    hurt,       \* history: links whose last call failed or whose filters were removed
    blind       \* history: events were lost since the last whole sweep

hostVars == <<iface, alive>>
sweepVars == <<failing, todo, kept, bad>>
agentVars == <<mode, first, registry, skipped, sweepVars, boot>>
vars == <<hostVars, tc, queue, closed, agentVars, faults, hurt, blind>>

Empty == [h \in Hooks |-> 0]
Whole == [h \in Hooks |-> boot]
Made == Len(iface)
Name(i) == iface[i].name

\* ShouldAttach: an explicit name, or a prefix on anything but a veth.
ShouldAttach(i) ==
    \/ Name(i) \in Explicit
    \/ Name(i) \in Prefixed /\ iface[i].kind # "veth"

\* HasTelemetry: both filters in the slot Attach uses, whoever put them there.
HasTelemetry(i) == \A h \in Hooks : tc[i][h] # 0

Fault == faults < MaxFaults /\ faults' = faults + 1

-----------------------------------------------------------------------------
(* The host.                                                               *)

Subscribed == mode \in {"stream", "sweep"}

\* The library reads an event into the channel; a flood overflows the socket.
Emit(op, i) ==
    IF ~Subscribed \/ closed THEN UNCHANGED <<queue, closed>>
    ELSE IF Len(queue) < ChanDepth
         THEN queue' = Append(queue, [op |-> op, link |-> i]) /\ UNCHANGED closed
         ELSE closed' = TRUE /\ UNCHANGED queue

CreateLink(n, k) ==
    /\ Made < MaxLinks
    /\ \A i \in alive : Name(i) # n
    /\ iface' = Append(iface, [name |-> n, kind |-> k])
    /\ alive' = alive \cup {Made + 1}
    /\ Emit("new", Made + 1)
    /\ UNCHANGED <<tc, agentVars, faults, hurt, blind>>

\* The filters go with the link.
DeleteLink(i) ==
    /\ alive' = alive \ {i}
    /\ tc' = [tc EXCEPT ![i] = Empty]
    /\ Emit("del", i)
    /\ UNCHANGED <<iface, agentVars, faults, hurt, blind>>

\* Any other NEWLINK: an existing link is announced again, a link that is gone
\* behind its own deletion.
Announce(i) ==
    /\ Emit("new", i)
    /\ UNCHANGED <<hostVars, tc, agentVars, faults, hurt, blind>>

\* Filters removed behind the agent's back.
RemoveFilters(i) ==
    /\ Fault
    /\ tc' = [tc EXCEPT ![i] = Empty]
    /\ hurt' = hurt \cup {i}
    /\ UNCHANGED <<hostVars, queue, closed, agentVars, blind>>

\* Receive fails for another reason than a flood.
SocketDies ==
    /\ Subscribed /\ ~closed /\ Fault
    /\ closed' = TRUE
    /\ UNCHANGED <<hostVars, tc, queue, agentVars, hurt, blind>>

-----------------------------------------------------------------------------
(* tcattach.                                                               *)

\* AttachTelemetry, replacing whatever is in the slots.
Attach(i) ==
    /\ i \in alive
    /\ tc' = [tc EXCEPT ![i] = Whole]
    /\ hurt' = hurt \ {i}
    /\ UNCHANGED faults

\* It fails on a link that exists: at the ingress filter, at the egress filter
\* with the ingress filter rolled back, or with the rollback failing too.
AttachFails(i) ==
    /\ i \in alive /\ Fault
    /\ \E f \in {tc[i], [tc[i] EXCEPT !["in"] = 0], [tc[i] EXCEPT !["in"] = boot]} :
           tc' = [tc EXCEPT ![i] = f]
    /\ hurt' = hurt \cup {i}

-----------------------------------------------------------------------------
(* Boot and restart.                                                       *)

\* The filters in the slots Attach uses, by link and hook.
Filters == {f \in alive \X Hooks : tc[f[1]][f[2]] # 0}

\* zombie.Hunt: every telemetry filter of every link goes, but for those whose
\* deletion failed or whose link could not be listed.
Hunt(spare) ==
    tc' = [i \in Index |-> [h \in Hooks |-> IF <<i, h>> \in spare THEN tc[i][h] ELSE 0]]

\* The agent starts: the hunt, which some deletions may escape, then the
\* subscriber with an empty registry.
Boot(spare) ==
    /\ mode = "down" /\ boot < MaxBoots
    /\ boot' = boot + 1
    /\ Hunt(spare)
    /\ IF spare = {} THEN UNCHANGED faults ELSE Fault
    /\ hurt' = hurt \cup {f[1] : f \in spare}
    /\ mode' = "subscribe" /\ first' = FALSE /\ blind' = FALSE
    /\ registry' = {} /\ failing' = {} /\ skipped' = {}
    /\ UNCHANGED <<hostVars, queue, closed, todo, kept, bad>>

\* The agent stops or crashes; its filters stay.
Stop ==
    /\ mode # "down"
    /\ mode' = "down" /\ queue' = <<>> /\ closed' = FALSE /\ first' = FALSE /\ blind' = FALSE
    /\ registry' = {} /\ failing' = {} /\ skipped' = {}
    /\ todo' = {} /\ kept' = {} /\ bad' = {}
    /\ UNCHANGED <<hostVars, tc, boot, faults, hurt>>

-----------------------------------------------------------------------------
(* The stream.                                                             *)

\* The replay of the existing links, in some order.
Replays == {q \in [1..Cardinality(alive) -> [op : {"new"}, link : alive]] :
               \A i \in alive : \E k \in DOMAIN q : q[k].link = i}

StartSweep ==
    /\ mode' = "sweep"
    /\ todo' = {i \in alive : ShouldAttach(i)}
    /\ kept' = {} /\ bad' = {}
    /\ UNCHANGED <<first, registry, failing, skipped, boot>>

\* The sweep cannot list the links.
SkipSweep ==
    /\ mode' = "stream"
    /\ UNCHANGED <<first, registry, skipped, sweepVars, boot>>

Subscribe ==
    /\ mode = "subscribe"
    /\ queue' \in Replays /\ closed' = FALSE
    /\ IF first /\ Resync
       THEN \/ StartSweep /\ UNCHANGED faults
            \/ SkipSweep /\ Fault
       ELSE SkipSweep /\ UNCHANGED faults
    /\ UNCHANGED <<hostVars, tc, hurt, blind>>

\* The channel is drained and closed: wait, then subscribe anew.
Lost ==
    /\ mode = "stream" /\ closed /\ queue = <<>>
    /\ mode' = "subscribe" /\ first' = TRUE /\ blind' = TRUE
    /\ UNCHANGED <<hostVars, tc, queue, closed, registry, skipped, sweepVars, boot,
                   faults, hurt>>

\* runStream takes the next event.
Take(op) ==
    /\ mode = "stream" /\ queue # <<>>
    /\ Head(queue).op = op
    /\ queue' = Tail(queue)
    /\ UNCHANGED <<hostVars, closed, mode, first, sweepVars, boot, blind>>

\* The link of the event at hand.
Now == Head(queue).link

\* A link the policy refuses is remembered, for one report per appearance.
HandleRefused(op) ==
    /\ Take(op) /\ ~ShouldAttach(Now)
    /\ skipped' = IF op = "new" THEN skipped \cup {Name(Now)} ELSE skipped \ {Name(Now)}
    /\ UNCHANGED <<tc, registry, faults, hurt>>

OnKnownLink ==
    /\ Take("new") /\ ShouldAttach(Now) /\ Name(Now) \in registry
    /\ UNCHANGED <<tc, registry, skipped, faults, hurt>>

OnNewLink ==
    /\ Take("new") /\ ShouldAttach(Now) /\ Name(Now) \notin registry
    /\ \/ /\ Attach(Now)
          /\ registry' = registry \cup {Name(Now)}
       \/ AttachFails(Now) /\ UNCHANGED registry
       \/ /\ Now \notin alive     \* linkGone
          /\ UNCHANGED <<tc, registry, faults, hurt>>
    /\ UNCHANGED skipped

\* Fault: the DELLINK of a vanished link leaves the registry alone.
OnDelLinkKeeps ==
    /\ Take("del") /\ ShouldAttach(Now)
    /\ UNCHANGED <<tc, registry, skipped, faults, hurt>>

OnDelLink ==
    /\ Take("del") /\ ShouldAttach(Now)
    /\ registry' = registry \ {Name(Now)}
    /\ UNCHANGED <<tc, skipped, faults, hurt>>

-----------------------------------------------------------------------------
(* The attach-presence sweep.                                              *)

Tick ==
    /\ mode = "stream" /\ Resync
    /\ StartSweep
    /\ UNCHANGED <<hostVars, tc, queue, closed, faults, hurt, blind>>

\* Fault: the sweep takes the registry's word.
VisitTrusts(i) ==
    /\ mode = "sweep" /\ i \in todo
    /\ todo' = todo \ {i}
    /\ IF Name(i) \in registry
       THEN kept' = kept \cup {Name(i)} /\ UNCHANGED <<tc, faults, hurt>>
       ELSE \/ Attach(i) /\ kept' = kept \cup {Name(i)}
            \/ i \notin alive /\ UNCHANGED <<tc, kept, faults, hurt>>
    /\ UNCHANGED <<hostVars, queue, closed, mode, first, registry, failing, skipped,
                   bad, boot, blind>>

\* One link of the list: attached, unknown, gone, healed or failing.  A filter
\* list that fails for another reason than an interruption reads as no filters,
\* so a link that has them may be attached anew.
Visit(i) ==
    /\ mode = "sweep" /\ i \in todo
    /\ todo' = todo \ {i}
    /\ \/ /\ HasTelemetry(i)
          /\ kept' = kept \cup {Name(i)}
          /\ UNCHANGED <<tc, bad, faults, hurt>>
       \/ /\ i \in alive /\ Fault         \* the filter dump stays interrupted
          /\ kept' = kept \cup ({Name(i)} \cap registry)
          /\ bad' = bad \cup ({Name(i)} \cap failing)
          /\ hurt' = hurt \cup {i}
          /\ UNCHANGED tc
       \/ /\ Attach(i)
          /\ kept' = kept \cup {Name(i)}
          /\ UNCHANGED bad
       \/ /\ AttachFails(i)
          /\ bad' = bad \cup {Name(i)}
          /\ UNCHANGED kept
       \/ /\ i \notin alive               \* linkGone
          /\ UNCHANGED <<tc, kept, bad, faults, hurt>>
    /\ UNCHANGED <<hostVars, queue, closed, mode, first, registry, failing, skipped,
                   boot, blind>>

\* Fault: the sweep only adds to the registry.
EndSweepAdds ==
    /\ mode = "sweep" /\ todo = {}
    /\ mode' = "stream" /\ failing' = bad /\ blind' = FALSE
    /\ registry' = registry \cup kept /\ kept' = {} /\ bad' = {}
    /\ UNCHANGED <<hostVars, tc, queue, closed, first, skipped, todo, boot, faults, hurt>>

\* Registry.Replace.
EndSweep ==
    /\ mode = "sweep" /\ todo = {}
    /\ mode' = "stream" /\ failing' = bad /\ blind' = FALSE
    /\ registry' = kept /\ kept' = {} /\ bad' = {}
    /\ UNCHANGED <<hostVars, tc, queue, closed, first, skipped, todo, boot, faults, hurt>>

-----------------------------------------------------------------------------
\* The host has one tap.
Init ==
    /\ iface \in {<<[name |-> n, kind |-> "tun"]>> : n \in Prefixed}
    /\ alive = {1}
    /\ tc = [i \in Index |-> Empty]
    /\ queue = <<>> /\ closed = FALSE /\ mode = "down" /\ first = FALSE
    /\ registry = {} /\ failing = {} /\ skipped = {}
    /\ todo = {} /\ kept = {} /\ bad = {}
    /\ boot = 0 /\ faults = 0 /\ hurt = {} /\ blind = FALSE

Host ==
    \/ \E n \in Names, k \in Kinds : CreateLink(n, k)
    \/ \E i \in alive : DeleteLink(i) \/ RemoveFilters(i)
    \/ \E i \in 1..Made : Announce(i)
    \/ SocketDies

Agent ==
    \/ \E spare \in SUBSET Filters : Boot(spare)
    \/ Subscribe \/ Lost
    \/ \E op \in {"new", "del"} : HandleRefused(op)
    \/ OnKnownLink \/ OnNewLink \/ OnDelLink
    \/ Tick \/ EndSweep
    \/ \E i \in todo : Visit(i)

Next == Host \/ Agent \/ Stop

Spec == Init /\ [][Next]_vars

\* The agent is started again, the subscriber's goroutine runs, and the ticker
\* fires: Go's select takes a case that stays ready.
FairSpec ==
    /\ Spec
    /\ WF_vars(\E spare \in SUBSET Filters : Boot(spare))
    /\ WF_vars(Subscribe) /\ WF_vars(Lost)
    /\ WF_vars(Tick) /\ WF_vars(EndSweep)
    /\ WF_vars(\E i \in todo : Visit(i))

-----------------------------------------------------------------------------
TypeOK ==
    /\ iface \in Seq([name : Names, kind : Kinds]) /\ Made <= MaxLinks
    /\ alive \subseteq 1..Made
    /\ tc \in [Index -> [Hooks -> 0..MaxBoots]]
    /\ queue \in Seq([op : {"new", "del"}, link : 1..Made])
    /\ closed \in BOOLEAN /\ first \in BOOLEAN /\ blind \in BOOLEAN
    /\ mode \in {"down", "subscribe", "stream", "sweep"}
    /\ registry \subseteq Names /\ failing \subseteq Names /\ skipped \subseteq Names
    /\ kept \subseteq Names /\ bad \subseteq Names /\ todo \subseteq 1..Made
    /\ boot \in 0..MaxBoots /\ faults \in 0..MaxFaults
    /\ hurt \subseteq Index

\* The subscriber has handled all it was told of.
Quiet == mode = "stream" /\ queue = <<>> /\ ~closed

Watched == {i \in alive : ShouldAttach(i)}

\* Whatever way names were reused, events queued and sweeps interleaved, a
\* subscriber at rest has this agent's two programs on every link the policy
\* wants, unless a call on that link failed or events are missing for which no
\* sweep has run.
Instrumented ==
    Quiet /\ ~blind => \A i \in Watched \ hurt : tc[i] = Whole /\ Name(i) \in registry

\* At rest the registry (the attached-interfaces gauge) names only links that
\* exist, are wanted and carry the filters.
RegistryTrue ==
    Quiet /\ ~blind =>
        \A n \in registry : \E i \in Watched : Name(i) = n /\ (HasTelemetry(i) \/ i \in hurt)

\* Once the host settles and faults cease, every wanted link carries the filters
\* for good, lost events and failed attaches included: the sweep is the retry.
EventuallyInstrumented ==
    <>[](mode = "down" \/ \A i \in Watched : HasTelemetry(i))
=============================================================================
