---------------------------- MODULE MacLifecycle ----------------------------
(***************************************************************************)
(* The life of a MAC binding: the reconciler learns and ghosts it, the     *)
(* ghost sweeper removes it, each through the userspace metadata map and   *)
(* the kernel mac_tenant_map, with no lock over both and none between the  *)
(* two goroutines.                                                         *)
(*                                                                         *)
(* An owner stands for the whole attribution of a TenantMeta.  The grace   *)
(* window elapses whenever the model likes.  What the two do to flow       *)
(* counters is FlowPipeline's subject and left out here.                   *)
(***************************************************************************)
EXTENDS Naturals

CONSTANTS
    Macs, Owners,
    None,         \* no owner: no such port, or no entry
    MaxChanges,   \* bound on the changes made in Neutron
    MaxFails      \* bound on the kernel map writes that fail

ASSUME MacAssumption == None \notin Owners /\ MaxChanges \in Nat /\ MaxFails \in Nat

VARIABLES
    ports,     \* Neutron: the owner of each VM port's MAC
    changes,   \* changes made there
    user,      \* the userspace metadata map
    kmap,      \* mac_tenant_map
    fails,     \* failed kernel writes
    rpc,       \* the reconciler: idle, learn or ghost
    stage,     \* inside learn: look, insert (userspace) or kernel
    at,        \* the MACs (at most one) between look and kernel
    desired,   \* DesiredMACs of the pass
    todo,      \* the MACs its loop has not reached
    gpc,       \* the sweeper: idle, kernel or user
    gtodo,     \* expired MACs it has not reached
    swept,     \* MACs whose kernel entry it deleted
    raced      \* history: MACs learnt while a sweep held them

neutronVars == <<ports, changes>>
mapVars == <<user, kmap, fails>>
passVars == <<rpc, stage, at, desired, todo>>
sweepVars == <<gpc, gtodo, swept>>
vars == <<neutronVars, mapVars, passVars, sweepVars, raced>>

Absent == [owner |-> None, life |-> "none"]
Present(m) == user[m].life # "none"

-----------------------------------------------------------------------------
(* Neutron.                                                                *)

\* A port is created, deleted or handed to another owner.
PortChange(m, o) ==
    /\ changes < MaxChanges /\ ports[m] # o
    /\ ports' = [ports EXCEPT ![m] = o]
    /\ changes' = changes + 1
    /\ UNCHANGED <<mapVars, passVars, sweepVars, raced>>

-----------------------------------------------------------------------------
(* The reconciler: learnMACs, then ghostGoneMACs.                          *)

\* The pass takes its snapshot.
Sync ==
    /\ rpc = "idle"
    /\ rpc' = "learn"
    /\ desired' = ports
    /\ todo' = {m \in Macs : ports[m] # None}
    /\ UNCHANGED <<neutronVars, mapVars, stage, at, sweepVars, raced>>

\* Fault: a port handed to another owner is taken for known.
NeedsInsertAnyOwner(m) == ~Present(m) \/ user[m].life # "live"

\* Absent, re-attributed or a ghost: to be inserted.
NeedsInsert(m) == ~Present(m) \/ user[m].owner # desired[m] \/ user[m].life # "live"

\* Lookup of one desired MAC.
Look(m) ==
    /\ rpc = "learn" /\ stage = "look" /\ m \in todo
    /\ IF NeedsInsert(m) THEN stage' = "insert" /\ at' = {m} /\ UNCHANGED todo
                         ELSE todo' = todo \ {m} /\ UNCHANGED <<stage, at>>
    /\ UNCHANGED <<neutronVars, mapVars, rpc, desired, sweepVars, raced>>

\* insertMAC, userspace first.
InsertUser(m) ==
    /\ stage = "insert" /\ m \in at
    /\ stage' = "kernel"
    /\ user' = [user EXCEPT ![m] = [owner |-> desired[m], life |-> "live"]]
    /\ raced' = IF m \in gtodo \cup swept THEN raced \cup {m} ELSE raced \ {m}
    /\ UNCHANGED <<neutronVars, kmap, fails, rpc, at, desired, todo, sweepVars>>

\* insertMAC, then the kernel; a failure is only logged.
UpdateKernel(m, ok) ==
    /\ stage = "kernel" /\ m \in at
    /\ ok \/ fails < MaxFails
    /\ kmap' = IF ok THEN [kmap EXCEPT ![m] = desired[m]] ELSE kmap
    /\ fails' = IF ok THEN fails ELSE fails + 1
    /\ stage' = "look" /\ at' = {} /\ todo' = todo \ {m}
    /\ UNCHANGED <<neutronVars, user, rpc, desired, sweepVars, raced>>

\* Fault: ghosts are collected again, and their deadline restarts every pass.
CollectGoneAgain ==
    /\ rpc = "learn" /\ stage = "look" /\ todo = {}
    /\ rpc' = "ghost"
    /\ todo' = {m \in Macs : Present(m) /\ desired[m] = None}
    /\ UNCHANGED <<neutronVars, mapVars, stage, at, desired, sweepVars, raced>>

\* ghostGoneMACs collects the live entries that left desired...
CollectGone ==
    /\ rpc = "learn" /\ stage = "look" /\ todo = {}
    /\ rpc' = "ghost"
    /\ todo' = {m \in Macs : user[m].life = "live" /\ desired[m] = None}
    /\ UNCHANGED <<neutronVars, mapVars, stage, at, desired, sweepVars, raced>>

\* ... and stamps each with a deadline.
MarkDelete(m) ==
    /\ rpc = "ghost" /\ m \in todo
    /\ todo' = todo \ {m}
    /\ user' = IF Present(m) THEN [user EXCEPT ![m].life = "ghost"] ELSE user
    /\ UNCHANGED <<neutronVars, kmap, fails, rpc, stage, at, desired, sweepVars, raced>>

EndPass ==
    /\ rpc = "ghost" /\ todo = {}
    /\ rpc' = "idle"
    /\ UNCHANGED <<neutronVars, mapVars, stage, at, desired, todo, sweepVars, raced>>

-----------------------------------------------------------------------------
(* The ghost sweeper.                                                      *)

\* The grace window of a ghost elapses.
Elapse(m) ==
    /\ user[m].life = "ghost"
    /\ user' = [user EXCEPT ![m].life = "expired"]
    /\ UNCHANGED <<neutronVars, kmap, fails, passVars, sweepVars, raced>>

\* Fault: ghosts are swept without their grace.
ClassifyGhosts ==
    /\ gpc = "idle" /\ \E m \in Macs : user[m].life \in {"ghost", "expired"}
    /\ gpc' = "kernel"
    /\ gtodo' = {m \in Macs : user[m].life \in {"ghost", "expired"}}
    /\ UNCHANGED <<neutronVars, mapVars, passVars, swept, raced>>

\* classify collects the ghosts whose grace is over; a sweep of none does nothing.
Classify ==
    /\ gpc = "idle" /\ \E m \in Macs : user[m].life = "expired"
    /\ gpc' = "kernel"
    /\ gtodo' = {m \in Macs : user[m].life = "expired"}
    /\ UNCHANGED <<neutronVars, mapVars, passVars, swept, raced>>

\* Fault: a MAC counts as swept although its kernel delete failed.
DeleteKernelIgnoresError(m, ok) ==
    /\ gpc = "kernel" /\ m \in gtodo
    /\ ok \/ fails < MaxFails
    /\ gtodo' = gtodo \ {m}
    /\ kmap' = IF ok THEN [kmap EXCEPT ![m] = None] ELSE kmap
    /\ swept' = swept \cup {m}
    /\ fails' = IF ok THEN fails ELSE fails + 1
    /\ UNCHANGED <<neutronVars, user, passVars, gpc, raced>>

\* deleteKernelMACs: a MAC whose delete fails is left for the next sweep.
DeleteKernel(m, ok) ==
    /\ gpc = "kernel" /\ m \in gtodo
    /\ ok \/ fails < MaxFails
    /\ gtodo' = gtodo \ {m}
    /\ kmap' = IF ok THEN [kmap EXCEPT ![m] = None] ELSE kmap
    /\ swept' = IF ok THEN swept \cup {m} ELSE swept
    /\ fails' = IF ok THEN fails ELSE fails + 1
    /\ UNCHANGED <<neutronVars, user, passVars, gpc, raced>>

\* The residual flows and their rows go here (FlowPipeline).
KernelDone ==
    /\ gpc = "kernel" /\ gtodo = {}
    /\ gpc' = "user"
    /\ UNCHANGED <<neutronVars, mapVars, passVars, gtodo, swept, raced>>

\* deleteUserspace, unconditionally.
DeleteUser(m) ==
    /\ gpc = "user" /\ m \in swept
    /\ user' = [user EXCEPT ![m] = Absent]
    /\ swept' = swept \ {m}
    /\ UNCHANGED <<neutronVars, kmap, fails, passVars, gpc, gtodo, raced>>

EndSweep ==
    /\ gpc = "user" /\ swept = {}
    /\ gpc' = "idle"
    /\ UNCHANGED <<neutronVars, mapVars, passVars, gtodo, swept, raced>>

-----------------------------------------------------------------------------
\* The cold start has brought both maps in line with Neutron.
Init ==
    /\ ports \in [Macs -> Owners \cup {None}] /\ changes = 0
    /\ user = [m \in Macs |-> IF ports[m] = None THEN Absent
                              ELSE [owner |-> ports[m], life |-> "live"]]
    /\ kmap = ports /\ fails = 0
    /\ rpc = "idle" /\ stage = "look" /\ at = {} /\ todo = {} /\ desired = ports
    /\ gpc = "idle" /\ gtodo = {} /\ swept = {}
    /\ raced = {}

LearnMACs == \/ \E m \in todo : Look(m)
             \/ \E m \in at : InsertUser(m) \/ \E ok \in BOOLEAN : UpdateKernel(m, ok)

GhostGoneMACs == CollectGone \/ (\E m \in todo : MarkDelete(m))

ReconcileMACs == Sync \/ LearnMACs \/ GhostGoneMACs \/ EndPass

GhostSweep ==
    \/ Classify
    \/ \E m \in gtodo, ok \in BOOLEAN : DeleteKernel(m, ok)
    \/ KernelDone
    \/ \E m \in swept : DeleteUser(m)
    \/ EndSweep

Next ==
    \/ \E m \in Macs, o \in Owners \cup {None} : PortChange(m, o)
    \/ ReconcileMACs
    \/ \E m \in Macs : Elapse(m)
    \/ GhostSweep

Spec == Init /\ [][Next]_vars

\* Reconciler.Run and GhostSweeper.Run tick for the life of the process.
FairSpec ==
    /\ Spec
    /\ WF_vars(ReconcileMACs)
    /\ WF_vars(GhostSweep)
    /\ \A m \in Macs : WF_vars(Elapse(m))

-----------------------------------------------------------------------------
Life == {"none", "live", "ghost", "expired"}

\* Every variable has its type, and an entry without a life has no owner.
TypeOK ==
    /\ ports \in [Macs -> Owners \cup {None}] /\ changes \in Nat
    /\ user \in [Macs -> [owner : Owners \cup {None}, life : Life]]
    /\ kmap \in [Macs -> Owners \cup {None}] /\ fails \in Nat
    /\ rpc \in {"idle", "learn", "ghost"} /\ stage \in {"look", "insert", "kernel"}
    /\ desired \in [Macs -> Owners \cup {None}]
    /\ at \subseteq Macs /\ todo \subseteq Macs
    /\ gpc \in {"idle", "kernel", "user"} /\ gtodo \subseteq Macs /\ swept \subseteq Macs
    /\ raced \subseteq Macs
    /\ \A m \in Macs : user[m].life = "none" <=> user[m].owner = None

\* The kernel knows no MAC that userspace does not know, except one that was
\* learnt while a sweep held it: insert userspace first, delete kernel first
\* (insertMAC, deleteKernelMACs, deleteUserspace).
SupersetUnlessRaced == \A m \in Macs \ raced : kmap[m] # None => Present(m)

\* A binding disappears only after its grace window, however passes, sweeps
\* and kernel failures interleave -- again unless a sweep held it.
GraceRespected ==
    [][\A m \in Macs \ raced : user[m].life \in {"live", "ghost"} => user'[m].life # "none"]_vars

\* A port that stays in Neutron ends up in both maps under its owner, for good,
\* unless a kernel write failed: a sweep that races the pass may still take it
\* away, a later pass brings it back (learnMACs).
PortsEventuallyBound ==
    \A m \in Macs : \A o \in Owners :
        [](changes = MaxChanges /\ ports[m] = o
             => <>[](fails > 0 \/ (user[m] = [owner |-> o, life |-> "live"] /\ kmap[m] = o)))

\* A port that left Neutron for good leaves the userspace map: the passes that
\* keep finding its ghost do not renew the deadline (ghostGoneMACs, sweep).
GoneEventuallyForgotten ==
    \A m \in Macs : [](changes = MaxChanges /\ ports[m] = None => <>~Present(m))

-----------------------------------------------------------------------------
(* A statement of the code's comments that its behaviour contradicts.      *)

\* mac.go, insertMAC: after a failed kernel write "the next pass retries the
\* kernel side".
KernelWriteRetried ==
    \A m \in Macs : \A o \in Owners :
        [](changes = MaxChanges /\ ports[m] = o => <>(kmap[m] = o))
=============================================================================
