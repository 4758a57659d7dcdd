------------------------------- MODULE Zoning -------------------------------
(***************************************************************************)
(* From a Neutron snapshot to the zone of a packet: the trie builder and   *)
(* its static-route resolver, the external-network labels, the amphora     *)
(* join, the kernel maps they fill, and the classifier's lookup_zone,      *)
(* beside the debug page's LookupZone.                                     *)
(*                                                                         *)
(* A prefix is the set of its addresses, so the longest prefix is the      *)
(* smallest set; a network has one IPv4 subnet.  Rows are a set: sorting   *)
(* only matters among rows of one tenant and prefix, where it is by zone.  *)
(* A pass follows each change in Neutron, step by step while flows are     *)
(* counted; late and failed passes are in KickLoop, TrieDelta and          *)
(* MacLifecycle.                                                           *)
(***************************************************************************)
EXTENDS Naturals, Sequences, FiniteSets

CONSTANTS
    Tenants, Service,      \* projects, and Octavia's own
    Global,                \* the empty TenantID of the global rows
    Addrs, NoAddr,         \* addresses, and none (or one that does not parse)
    Networks, Cidr, NetOwner, Gateway,
    External,              \* networks with router:external
    Uplinks,               \* those that routers and floating IPs are given
    Routers, RouterOwner,
    Ports,                 \* the port list, in the order Neutron returns it
    LBs, LBOwner,          \* load balancers of the amphora provider
    LBAddrs,               \* the addresses VIPs and amphorae are given
    Dests, NextHops,       \* what routes are made for, and through
    Metadata,              \* the address of the metadata service
    MaxHops,               \* MaxStaticRouteHops
    MaxRoutes, MaxEdits    \* bounds on routes per router, on changes in Neutron

ASSUME ZoningAssumption ==
    /\ Global \notin Tenants /\ NoAddr \notin Addrs /\ Service \in Tenants
    /\ MaxHops \in Nat \ {0} /\ MaxRoutes \in Nat /\ MaxEdits \in Nat

NoNet == "none"
NoMAC == << >>
NoLB == [vip |-> NoAddr, base |-> NoAddr]

\* The zone codes, in their numeric order.
ZoneExternal == 0
ZoneSameTenant == 1
ZoneOtherTenant == 2
ZoneInfra == 3
ZoneMiss == 4
ZoneShared == 5

VARIABLES
    routes,    \* the extraroutes of each router, a sequence
    shared,    \* the networks flagged shared
    gateway,   \* the external network of each router, or NoNet
    fip,       \* the external network of each VM port's floating IP, or NoNet
    lb,        \* each load balancer's VIP and its amphora's base address
    edits,
    dirty,     \* no pass has seen the last change
    part,      \* the part of the pass that comes next, "rest" between passes
    settling,  \* the MAC that learnMACs has settled and not yet inserted
    listed,    \* the running pass has the Octavia lists
    octavia,   \* the last pass missed no load balancer
    entries,   \* Trie(): the rows of the last pass
    labels,    \* the external network of each VM port
    routerExt, \* RouterMACs: the external network behind each interface MAC
    kmac, ktrie, kbase,   \* mac_tenant_map, subnet_zone_trie, amphora_base_ip
    carried,   \* the labels that the live bytes of each flow were shown under
    late,      \* likewise for bytes counted between a fold and its new label
    ever,      \* history: amphora base addresses there have been
    misfiled   \* history: a fold credited bytes to another label than their own

netVars == <<routes, shared, gateway, fip, lb>>
kernelVars == <<kmac, ktrie, kbase>>
partVars == <<part, settling, listed>>
bytesVars == <<carried, late, misfiled>>
publishedVars == <<octavia, entries, labels, routerExt, kernelVars, ever>>
zoningVars == <<netVars, edits, dirty, partVars, publishedVars, bytesVars>>

PortSet == {Ports[i] : i \in DOMAIN Ports}
IsInfraPort(p) == p.kind \in {"iface", "dhcp"}
VMs == {p \in PortSet : p.kind = "compute"}

\* Neutron gives an address of a network to one port; the maps here and in the
\* kernel, keyed by MAC alone, take a MAC to be of one port, listed or an amphora's.
ASSUME PortsAssumption ==
    /\ \A p, q \in PortSet : p.mac = q.mac \/ (p.net = q.net /\ p.ip = q.ip) => p = q
    /\ \A p \in PortSet : p.mac \notin LBs \X {"data", "mgmt"} /\ p.mac # NoMAC

\* A subnet's prefix holds addresses of the one address space, and routes are
\* made for prefixes of it, through addresses that parse or do not.
ASSUME TopologyAssumption ==
    /\ IsFiniteSet(Addrs) /\ Cidr \in [Networks -> SUBSET Addrs] /\ Uplinks \subseteq External
    /\ Dests \subseteq SUBSET Addrs /\ NextHops \subseteq Addrs \cup {NoAddr}
    /\ Ports \in Seq(PortSet) /\ \A p \in PortSet : p.net \in Networks

\* Every network, router and load balancer has a project; a port has an address,
\* a network may have no gateway.
ASSUME OwnersAssumption ==
    /\ NetOwner \in [Networks -> Tenants] /\ RouterOwner \in [Routers -> Tenants]
    /\ LBOwner \in [LBs -> Tenants] /\ LBAddrs \subseteq Addrs /\ Metadata \in Addrs
    /\ Gateway \in [Networks -> Addrs \cup {NoAddr}] /\ \A p \in PortSet : p.ip \in Addrs

-----------------------------------------------------------------------------
(* The static-route resolver.                                              *)

zoneFor(owner, source, n) ==
    IF n \in External THEN ZoneExternal
    ELSE IF n \in shared THEN ZoneShared
    ELSE IF owner = source THEN ZoneSameTenant ELSE ZoneOtherTenant

\* The first of some positions of a list.
FirstOf(S) == CHOOSE i \in S : \A j \in S : i <= j

\* routerSubnets: the positions of a router's interfaces in the port list.
RouterSubnets == [r \in Routers |-> {i \in DOMAIN Ports : Ports[i].kind = "iface" /\ Ports[i].dev = r}]

\* anchorSubnet, portAt.
Anchors(r, a) == {i \in RouterSubnets[r] : a \in Cidr[Ports[i].net]}
PortsAt(n, a) == {p \in PortSet : p.net = n /\ p.ip = a}

\* resolveAtNextRouter: the interfaces of r to networks that hold all of dst,
\* save the one it was entered through.
AttachedAt(r, entered, dst) ==
    {i \in RouterSubnets[r] : Ports[i].net # entered /\ dst \subseteq Cidr[Ports[i].net]}

\* lpmMatchRoute: the first of the longest routes that cover dst.
MatchRoute(r, dst) ==
    LET covering == {k \in DOMAIN routes[r] : dst \subseteq routes[r][k].dst}
        longest == {k \in covering : \A j \in covering :
                       Cardinality(routes[r][k].dst) <= Cardinality(routes[r][j].dst)}
    IN  IF covering = {} THEN {} ELSE {routes[r][FirstOf(longest)]}

Unresolved == [zone |-> ZoneExternal, owners |-> {}, cycle |-> FALSE]

\* Fault: the walk stops one router short.
ResolveShort(r0, dst, nh0) ==
    LET net == Ports[FirstOf(Anchors(r0, nh0))].net
        port == CHOOSE p \in PortsAt(net, nh0) : TRUE
        at == AttachedAt(port.dev, net, dst)
        end == Ports[FirstOf(at)].net
    IN  IF Anchors(r0, nh0) = {} \/ PortsAt(net, nh0) = {} \/ port.dev \notin Routers \/ at = {}
        THEN Unresolved
        ELSE [Unresolved EXCEPT !.zone = zoneFor(NetOwner[end], RouterOwner[r0], end)]

\* The variables of resolveStaticRouteZone's loop.
LoopState == [hop : 0..MaxHops, router : Routers, nexthop : Addrs \cup {NoAddr}, visited : SUBSET Routers]

\* resolveStaticRouteZone: Hop is its loop.
Resolve(r0, dst, nh0) ==
    LET source == RouterOwner[r0]
        Hop[s \in LoopState] ==
          LET net == Ports[FirstOf(Anchors(s.router, s.nexthop))].net
              port == CHOOSE p \in PortsAt(net, s.nexthop) : TRUE
              next == port.dev
              at == AttachedAt(next, net, dst)
              owners == {NetOwner[Ports[i].net] : i \in at}
              end == Ports[FirstOf(at)].net
          IN  IF s.hop = MaxHops \/ Anchors(s.router, s.nexthop) = {} \/ PortsAt(net, s.nexthop) = {}
                THEN Unresolved
              ELSE IF port.kind = "compute"
                THEN [Unresolved EXCEPT !.zone = zoneFor(port.proj, source, net)]
              ELSE IF port.kind # "iface" \/ next \notin Routers THEN Unresolved
              ELSE IF next \in s.visited THEN [Unresolved EXCEPT !.cycle = TRUE]
              ELSE IF Cardinality(owners) > 1 THEN [Unresolved EXCEPT !.owners = owners]
              ELSE IF at # {} THEN [Unresolved EXCEPT !.zone = zoneFor(NetOwner[end], source, end)]
              ELSE IF MatchRoute(next, dst) = {} THEN Unresolved
              ELSE LET t == CHOOSE t \in MatchRoute(next, dst) : TRUE
                   IN  Hop[[hop |-> s.hop + 1, router |-> next, nexthop |-> t.via,
                            visited |-> s.visited \cup {next}]]
    IN  Hop[[hop |-> 0, router |-> r0, nexthop |-> nh0, visited |-> {r0}]]

-----------------------------------------------------------------------------
(* buildTrie, one operator per step.                                       *)

Row(t, p, z) == [tenant |-> t, prefix |-> p, zone |-> z]

Owned(t) == {n \in Networks : NetOwner[n] = t /\ n \notin shared /\ n \notin External}

EmitCatchall == {Row(Global, Addrs, ZoneExternal)}

\* Fault: owned subnets are emitted for the networks of the tenant's routers only.
EmitOwnedRouted ==
    UNION {{Row(t, Cidr[n], ZoneSameTenant) : n \in {n \in Owned(t) :
        \E r \in Routers : \E i \in RouterSubnets[r] : Ports[i].net = n}} : t \in Tenants}

EmitOwnedSubnets ==
    UNION {{Row(t, Cidr[n], ZoneSameTenant) : n \in Owned(t)} : t \in Tenants}

SharedPrefixes == {Cidr[n] : n \in shared \ External}
EmitSharedSubnets == {Row(Global, p, ZoneShared) : p \in SharedPrefixes}

InfraPrefixes ==
    {{p.ip} : p \in {p \in PortSet : IsInfraPort(p)}}
    \cup {{Gateway[n]} : n \in {n \in Networks : Gateway[n] # NoAddr}}
EmitInfraPrefixes == {Row(Global, p, ZoneInfra) : p \in InfraPrefixes \cup {{Metadata}}}

RouteSet == {x \in Routers \X (1..MaxRoutes) : x[2] \in DOMAIN routes[x[1]]}

\* One row per route whose next hop parses.
EmitExtraRoutes ==
    {Row(RouterOwner[x[1]], routes[x[1]][x[2]].dst,
         Resolve(x[1], routes[x[1]][x[2]].dst, routes[x[1]][x[2]].via).zone) :
        x \in {x \in RouteSet : routes[x[1]][x[2]].via # NoAddr}}

BuildTrie ==
    EmitCatchall \cup EmitOwnedSubnets \cup EmitSharedSubnets \cup EmitInfraPrefixes
    \cup EmitExtraRoutes

-----------------------------------------------------------------------------
(* External-network labels.                                                *)

\* The labels of a subnet: of the router that holds its gateway address, or,
\* when none there has an external network, of any attached one.
SubnetExt(n) ==
    LET exts(S) == {gateway[p.dev] : p \in {p \in S : p.dev \in Routers}} \ {NoNet}
        ifs == {p \in PortSet : p.kind = "iface" /\ p.net = n}
        own == exts({p \in ifs : p.ip = Gateway[n]})
    IN  IF own # {} THEN own ELSE exts(ifs)

\* Fault: any attached router is as good as the one with the gateway address.
CandidatesAnyRouter(p) ==
    IF fip[p.mac] # NoNet THEN {fip[p.mac]}
    ELSE {gateway[q.dev] : q \in {q \in PortSet : q.kind = "iface" /\ q.net = p.net /\ q.dev \in Routers}}
         \ {NoNet}

\* externalCandidatesByPort: a floating IP comes first.
Candidates(p) == IF fip[p.mac] # NoNet THEN {fip[p.mac]} ELSE SubnetExt(p.net)

\* The pick is the smallest label, whatever the order of the lists.
Pick(S) == CHOOSE x \in S : TRUE
ExternalNetworkByPort ==
    [m \in {p.mac : p \in VMs} |->
        LET c == Candidates(CHOOSE p \in VMs : p.mac = m) IN IF c = {} THEN NoNet ELSE Pick(c)]

RouterExtMACs ==
    [m \in {p.mac : p \in {p \in PortSet : p.kind = "iface" /\ p.dev \in Routers /\ gateway[p.dev] # NoNet}} |->
        gateway[(CHOOSE p \in PortSet : p.mac = m).dev]]

-----------------------------------------------------------------------------
(* Folds of the label changes.  A flow is a VM and the router interface    *)
(* its external traffic goes through.                                      *)

Flows ==
    UNION {{<<v.mac, p.mac>> : p \in {p \in PortSet : p.kind = "iface" /\ p.net = v.net}} : v \in VMs}

\* FlowExternalLabel: the router map's label for the peer, else the VM's.
FlowExternalLabel(routers, vm, f) ==
    IF f[2] \in DOMAIN routers THEN routers[f[2]] ELSE vm[f[1]]

\* The interface MACs whose label is new, different or gone.
Changed(want) ==
    {m \in DOMAIN routerExt \cup DOMAIN want :
        \/ m \notin DOMAIN routerExt \/ m \notin DOMAIN want
        \/ want[m] # routerExt[m]}

\* The flows whose bytes are folded and whose new label is not yet published.
InWindow == {f \in Flows : f[1] = settling \/ (part = "swap" /\ f[2] \in Changed(RouterExtMACs))}

\* Settle (SettleRebase) of the live bytes of some flows, under their present labels.
Settle(F) ==
    /\ carried' = [f \in Flows |-> IF f \in F THEN {} ELSE carried[f]]
    /\ late' = [f \in Flows |-> IF f \in F THEN {} ELSE late[f]]
    /\ misfiled' = (misfiled \/ \E f \in F : carried[f] \ {FlowExternalLabel(routerExt, labels, f)} # {})

-----------------------------------------------------------------------------
(* Octavia.                                                                *)

Live == {l \in LBs : lb[l] # NoLB}

\* AmphoraOwnerByPort: with the lists, the data ports bill the load balancer's
\* owner and carry the flag; without them, and on the management port, the
\* service project.
AmphoraMACs ==
    [m \in {<<l, "data">> : l \in Live} \cup {<<l, "mgmt">> : l \in Live} |->
        IF listed /\ m[2] = "data" THEN [tenant |-> LBOwner[m[1]], amphora |-> TRUE]
        ELSE [tenant |-> Service, amphora |-> FALSE]]

\* Fault: the VIP counts as an address the amphora sends from.
AmphoraBaseIPsAndVIPs ==
    IF listed THEN {<<LBOwner[l], lb[l].base>> : l \in Live} \cup {<<LBOwner[l], lb[l].vip>> : l \in Live}
    ELSE {}

AmphoraBaseIPs == IF listed THEN {<<LBOwner[l], lb[l].base>> : l \in Live} ELSE {}

-----------------------------------------------------------------------------
(* The kernel's maps and lookups.                                          *)

\* WriteSubnetZoneTrie and the delta: rows in order, the last of a key stays.
TrieMap(rows) ==
    [k \in {<<r.tenant, r.prefix>> : r \in rows} |->
        LET zs == {r.zone : r \in {r \in rows : <<r.tenant, r.prefix>> = k}}
        IN  CHOOSE z \in zs : \A y \in zs : y <= z]

DesiredMACs ==
    LET vm == [m \in {p.mac : p \in VMs} |->
                  [tenant |-> (CHOOSE p \in VMs : p.mac = m).proj, amphora |-> FALSE]]
        amp == AmphoraMACs
    IN  [m \in DOMAIN vm \cup DOMAIN amp |-> IF m \in DOMAIN vm THEN vm[m] ELSE amp[m]]

\* The zones of the longest prefix of one tenant that holds a, in a kernel trie.
Longest(k, t, a) ==
    LET hit == {x \in DOMAIN k : x[1] = t /\ a \in x[2]}
    IN  {k[x] : x \in {x \in hit : \A y \in hit : Cardinality(x[2]) <= Cardinality(y[2])}}

\* The trie half of lookup_zone: the tenant's rows, then the global ones.
TrieZone(t, a) ==
    LET own == Longest(ktrie, t, a)
        all == Longest(ktrie, Global, a)
    IN  IF own # {} THEN Pick(own) ELSE IF all # {} THEN Pick(all) ELSE ZoneMiss

\* is_amphora_segment2, for a flagged end and its own address.
Segment2(m, a) == kmac[m].amphora /\ <<kmac[m].tenant, a>> \in kbase

lookup_zone(vm, peer, local, remote) ==
    IF vm \notin DOMAIN kmac THEN ZoneMiss
    ELSE IF peer \notin DOMAIN kmac THEN TrieZone(kmac[vm].tenant, remote)
    ELSE IF Segment2(vm, local) \/ Segment2(peer, remote) THEN ZoneInfra
    ELSE IF kmac[vm].tenant = kmac[peer].tenant THEN ZoneSameTenant ELSE ZoneOtherTenant

\* LookupZone of the debug page: the first of the longest rows, in sorted order.
LookupZone(t, a) ==
    LET hits(u) == {r \in entries : r.tenant = u /\ a \in r.prefix}
        best(S) == {r.zone : r \in {r \in S : \A q \in S : Cardinality(r.prefix) <= Cardinality(q.prefix)}}
        least(S) == CHOOSE z \in S : \A y \in S : z <= y
    IN  IF hits(t) # {} THEN least(best(hits(t)))
        ELSE IF hits(Global) # {} THEN least(best(hits(Global))) ELSE ZoneMiss

-----------------------------------------------------------------------------
(* Changes in Neutron and Octavia.  A pass works on the snapshot it has    *)
(* fetched: what changes during it is as if changed after it.              *)

\* A change meets flows that have carried bytes since the last pass.
Edit ==
    /\ ~dirty /\ edits < MaxEdits /\ \A f \in Flows : carried[f] # {}
    /\ edits' = edits + 1 /\ dirty' = TRUE
    /\ UNCHANGED <<partVars, publishedVars, bytesVars>>

AddRoute(r, d, a) ==
    /\ Edit /\ Len(routes[r]) < MaxRoutes
    /\ \A i \in DOMAIN routes[r] : routes[r][i].dst # d
    /\ routes' = [routes EXCEPT ![r] = Append(@, [dst |-> d, via |-> a])]
    /\ UNCHANGED <<shared, gateway, fip, lb>>

ShareNetwork(n) ==
    /\ Edit /\ n \notin shared
    /\ shared' = shared \cup {n}
    /\ UNCHANGED <<routes, gateway, fip, lb>>

SetGateway(r, x) ==
    /\ Edit /\ gateway[r] # x
    /\ gateway' = [gateway EXCEPT ![r] = x]
    /\ UNCHANGED <<routes, shared, fip, lb>>

BindFloatingIP(m, x) ==
    /\ Edit /\ fip[m] # x
    /\ fip' = [fip EXCEPT ![m] = x]
    /\ UNCHANGED <<routes, shared, gateway, lb>>

\* An address is held by one port at a time; a freed one is handed out again.
Free(a) == \A l \in LBs : a \notin {lb[l].vip, lb[l].base}

CreateLB(l, v, b) ==
    /\ Edit /\ lb[l] = NoLB /\ v # b /\ Free(v) /\ Free(b)
    /\ lb' = [lb EXCEPT ![l] = [vip |-> v, base |-> b]]
    /\ UNCHANGED <<routes, shared, gateway, fip>>

DeleteLB(l) ==
    /\ Edit /\ lb[l] # NoLB
    /\ lb' = [lb EXCEPT ![l] = NoLB]
    /\ UNCHANGED <<routes, shared, gateway, fip>>

\* A failover: a new amphora, the same VIP.
Failover(l, b) ==
    /\ Edit /\ lb[l] # NoLB /\ Free(b)
    /\ lb' = [lb EXCEPT ![l].base = b]
    /\ UNCHANGED <<routes, shared, gateway, fip>>

-----------------------------------------------------------------------------
(* The pass, in the order of reconcileOnce.                                *)

At(s) == part = s /\ settling = NoMAC

\* fetch and applyTrie.  The Octavia lists may fail, which is not fatal.
ApplyTrie(ok) ==
    /\ dirty /\ At("rest") /\ part' = "learn" /\ listed' = ok
    /\ ktrie' = TrieMap(BuildTrie)
    /\ UNCHANGED <<netVars, edits, dirty, settling, octavia, entries, labels, routerExt, kmac, kbase, ever, bytesVars>>

\* A function with one value set.
Put(f, x, v) == [y \in DOMAIN f \cup {x} |-> IF y = x THEN v ELSE f[y]]

\* What learnMACs finds absent, or (SameAttribution) bound otherwise than wanted.
Unbound(m) == m \notin DOMAIN kmac
Rebound(m) ==
    /\ ~Unbound(m)
    /\ kmac[m] # DesiredMACs[m] \/ (m \in DOMAIN labels /\ labels[m] # ExternalNetworkByPort[m])

\* settleAttributionChange: the flows of the MAC, under the old label.
SettleMAC(m) ==
    /\ At("learn") /\ Rebound(m) /\ settling' = m
    /\ Settle({f \in Flows : f[1] = m})
    /\ UNCHANGED <<netVars, edits, dirty, part, listed, publishedVars>>

\* insertMAC, straight away for a new MAC.
InsertMAC(m) ==
    /\ part = "learn" /\ (settling = m \/ (settling = NoMAC /\ Unbound(m)))
    /\ settling' = NoMAC /\ kmac' = Put(kmac, m, DesiredMACs[m])
    /\ labels' = IF m \in DOMAIN ExternalNetworkByPort THEN Put(labels, m, ExternalNetworkByPort[m]) ELSE labels
    /\ UNCHANGED <<netVars, edits, dirty, part, listed, octavia, entries, routerExt, ktrie, kbase, ever, bytesVars>>

\* The MACs of deleted ports, which stay until the ghost sweeper removes them.
Ghosts == DOMAIN kmac \ DOMAIN DesiredMACs

\* ghostGoneMACs, once every wanted MAC is bound; the sweep may come before the
\* next pass or after it.
GhostMACs(ghosts) ==
    /\ At("learn") /\ \A m \in DOMAIN DesiredMACs : ~Unbound(m) /\ ~Rebound(m)
    /\ part' = "routers"
    /\ kmac' = [m \in DOMAIN DesiredMACs \cup ghosts |-> kmac[m]]
    /\ UNCHANGED <<netVars, edits, dirty, settling, listed, octavia, entries, labels, routerExt, ktrie, kbase, ever, bytesVars>>

\* Fault: the map is replaced first, and the fold reads the new one.
SettleRoutersSwapped ==
    /\ At("routers") /\ part' = "addresses" /\ routerExt' = RouterExtMACs
    /\ LET F == {f \in Flows : f[2] \in Changed(RouterExtMACs)}
       IN  /\ carried' = [f \in Flows |-> IF f \in F THEN {} ELSE carried[f]]
           /\ misfiled' = (misfiled \/ \E f \in F : carried[f] \ {FlowExternalLabel(RouterExtMACs, labels, f)} # {})
    /\ UNCHANGED <<netVars, edits, dirty, settling, listed, octavia, entries, labels, kernelVars, ever, late>>

\* reconcileRouterMACs: what rides a changed interface is folded under the new
\* bindings and the old map; with no change it returns.
SettleRouters ==
    /\ At("routers")
    /\ part' = IF Changed(RouterExtMACs) = {} THEN "addresses" ELSE "swap"
    /\ Settle({f \in Flows : f[2] \in Changed(RouterExtMACs)})
    /\ UNCHANGED <<netVars, edits, dirty, settling, listed, publishedVars>>

\* Replace: the new router map.
ReplaceRouters ==
    /\ At("swap") /\ part' = "addresses"
    /\ routerExt' = RouterExtMACs
    /\ UNCHANGED <<netVars, edits, dirty, settling, listed, octavia, entries, labels, kernelVars, ever, bytesVars>>

\* reconcileAmphoraIPs, which only ever adds, and Commit.
CommitPass ==
    /\ At("addresses") /\ part' = "rest" /\ dirty' = FALSE
    /\ kbase' = kbase \cup AmphoraBaseIPs
    /\ ever' = ever \cup {<<LBOwner[l], lb[l].base>> : l \in Live}
    /\ entries' = BuildTrie
    /\ octavia' = (listed \/ Live = {})
    /\ UNCHANGED <<netVars, edits, settling, listed, labels, routerExt, kmac, ktrie, bytesVars>>

\* A drain, at any time: every flow of a known VM has carried bytes, which show
\* under its present label.  Flows share no state, so they may count together.
Count ==
    /\ LET shown(f) == IF f[1] \in DOMAIN labels THEN {FlowExternalLabel(routerExt, labels, f)} ELSE {}
       IN  /\ carried' = [f \in Flows |-> IF f \in InWindow THEN carried[f] ELSE carried[f] \cup shown(f)]
           /\ late' = [f \in Flows |-> IF f \in InWindow THEN late[f] \cup shown(f) ELSE late[f]]
    /\ carried' # carried \/ late' # late
    /\ UNCHANGED <<netVars, edits, dirty, partVars, publishedVars, misfiled>>

ZoningInit ==
    /\ carried = [f \in Flows |-> {}] /\ late = [f \in Flows |-> {}] /\ misfiled = FALSE
    /\ part = "rest" /\ settling = NoMAC /\ listed = FALSE
    /\ routes = [r \in Routers |-> <<>>] /\ shared = {}
    /\ gateway = [r \in Routers |-> NoNet]
    /\ fip = [m \in {p.mac : p \in VMs} |-> NoNet]
    /\ lb = [l \in LBs |-> NoLB]
    /\ edits = 0 /\ dirty = TRUE /\ octavia = FALSE
    /\ entries = {} /\ labels = <<>> /\ routerExt = <<>>
    /\ kmac = <<>> /\ ktrie = <<>> /\ kbase = {} /\ ever = {}

ZoningNext ==
    \/ \E r \in Routers, d \in Dests, a \in NextHops : AddRoute(r, d, a)
    \/ \E n \in Networks \ External : ShareNetwork(n)
    \/ \E r \in Routers, x \in Uplinks \cup {NoNet} : SetGateway(r, x)
    \/ \E m \in DOMAIN fip, x \in Uplinks \cup {NoNet} : BindFloatingIP(m, x)
    \/ \E l \in LBs, v \in LBAddrs, b \in LBAddrs : CreateLB(l, v, b)
    \/ \E l \in LBs : DeleteLB(l) \/ \E b \in LBAddrs : Failover(l, b)
    \/ \E ok \in IF Live = {} THEN {TRUE} ELSE BOOLEAN : ApplyTrie(ok)
    \/ \E m \in DOMAIN DesiredMACs : SettleMAC(m) \/ InsertMAC(m)
    \/ \E ghosts \in {{}, Ghosts} : GhostMACs(ghosts)
    \/ SettleRouters \/ ReplaceRouters \/ CommitPass
    \/ Count

ZoningSpec == ZoningInit /\ [][ZoningNext]_zoningVars

-----------------------------------------------------------------------------
Zones == {ZoneExternal, ZoneSameTenant, ZoneOtherTenant, ZoneInfra, ZoneMiss, ZoneShared}

\* The variables keep their types: a row is for a prefix of the address space and
\* has a zone, and bytes carry labels of external networks or none.
ZoningTypeOK ==
    /\ routes \in [Routers -> Seq([dst : Dests, via : Addrs \cup {NoAddr}])]
    /\ shared \subseteq Networks /\ gateway \in [Routers -> External \cup {NoNet}]
    /\ lb \in [LBs -> [vip : Addrs \cup {NoAddr}, base : Addrs \cup {NoAddr}]]
    /\ edits \in 0..MaxEdits /\ dirty \in BOOLEAN /\ octavia \in BOOLEAN /\ listed \in BOOLEAN
    /\ part \in {"rest", "learn", "routers", "swap", "addresses"}
    /\ settling \in {p.mac : p \in VMs} \cup (LBs \X {"data", "mgmt"}) \cup {NoMAC}
    /\ entries \subseteq [tenant : Tenants \cup {Global}, prefix : SUBSET Addrs, zone : Zones]
    /\ kbase \subseteq Tenants \X Addrs
    /\ carried \in [Flows -> SUBSET (External \cup {NoNet})]
    /\ late \in [Flows -> SUBSET (External \cup {NoNet})] /\ misfiled \in BOOLEAN

-----------------------------------------------------------------------------
(* What a route leads to, said without the loop: a path of distinct        *)
(* routers, each handing dst to the next, none on the way attached to dst. *)

Via(p, i, dst, nh) ==
    IF i = 1 THEN nh
    ELSE IF MatchRoute(p[i], dst) = {} THEN NoAddr ELSE Pick(MatchRoute(p[i], dst)).via

\* The port a router sends to for next hop a.
Towards(r, a) ==
    IF Anchors(r, a) = {} THEN {} ELSE PortsAt(Ports[FirstOf(Anchors(r, a))].net, a)

Paths(r, dst, nh) ==
    {p \in UNION {[1..k -> Routers] : k \in 1..(MaxHops + 1)} :
        /\ p[1] = r
        /\ \A i, j \in DOMAIN p : p[i] = p[j] => i = j
        /\ \A i \in 1..(Len(p) - 1) :
               \E q \in Towards(p[i], Via(p, i, dst, nh)) :
                   /\ q.kind = "iface" /\ q.dev = p[i + 1]
                   /\ i + 1 < Len(p) => AttachedAt(p[i + 1], q.net, dst) = {}}

\* The interfaces at the end of a path to networks with dst, seen from the
\* network it was entered through.
Ends(p, dst, nh) ==
    LET k == Len(p) - 1
        q == Pick(Towards(p[k], Via(p, k, dst, nh)))
    IN  AttachedAt(p[Len(p)], q.net, dst)

Reached(r, dst, nh) == {p \in Paths(r, dst, nh) : Len(p) > 1 /\ Ends(p, dst, nh) # {}}
Appliance(r, dst, nh) ==
    {q \in UNION {Towards(p[Len(p)], Via(p, Len(p), dst, nh)) :
                     p \in {p \in Paths(r, dst, nh) :
                               Len(p) <= MaxHops /\ (Len(p) > 1 => Ends(p, dst, nh) = {})}} :
        q.kind = "compute"}

WalkZone(r, dst, nh) ==
    IF Reached(r, dst, nh) # {}
    THEN LET at == Ends(Pick(Reached(r, dst, nh)), dst, nh)
             end == Ports[FirstOf(at)].net
         IN  IF \E i, j \in at : NetOwner[Ports[i].net] # NetOwner[Ports[j].net] THEN ZoneExternal
             ELSE zoneFor(NetOwner[end], RouterOwner[r], end)
    ELSE IF Appliance(r, dst, nh) # {}
    THEN LET q == Pick(Appliance(r, dst, nh)) IN zoneFor(q.proj, RouterOwner[r], q.net)
    ELSE ZoneExternal

\* The resolver's loop, with its hop limit, cycle check and early returns, gives
\* every route a row with the zone of the network or appliance its hops lead to.
RouteZoneIsWalk ==
    ~dirty => \A x \in RouteSet :
        LET t == routes[x[1]][x[2]]
        IN  t.via # NoAddr => Row(RouterOwner[x[1]], t.dst, WalkZone(x[1], t.dst, t.via)) \in entries

\* An address of a tenant's own network, its gateway's included, bills as its own
\* at the kernel, whatever global rows say of it, unless a route of the tenant for
\* a prefix no shorter than the network's leads elsewhere (buildTrie, lookup_zone).
OwnTrafficSame ==
    ~dirty => \A t \in Tenants : \A n \in Owned(t) : \A a \in Cidr[n] :
        \/ TrieZone(t, a) = ZoneSameTenant
        \/ \E x \in RouteSet : LET u == routes[x[1]][x[2]] IN
              /\ RouterOwner[x[1]] = t /\ a \in u.dst /\ u.via # NoAddr
              /\ Cardinality(u.dst) <= Cardinality(Cidr[n])
              /\ WalkZone(x[1], u.dst, u.via) # ZoneSameTenant

Mac(l) == <<l, "data">>

\* Amphora to backend is plumbing at both taps; client to VIP is never so, unless
\* an earlier amphora of that tenant had the address.
SegmentsSplit ==
    ~dirty /\ octavia => \A l \in Live, v \in VMs :
        /\ lookup_zone(Mac(l), v.mac, lb[l].base, v.ip) = ZoneInfra
        /\ lookup_zone(v.mac, Mac(l), v.ip, lb[l].base) = ZoneInfra
        /\ <<LBOwner[l], lb[l].vip>> \notin ever =>
               lookup_zone(v.mac, Mac(l), v.ip, lb[l].vip) \in {ZoneSameTenant, ZoneOtherTenant}

\* The per-flow label (the router the packets take) and the per-VM label agree
\* where the VM has one way out: its bytes do not move between series when the
\* interface MAC becomes known.
LabelsAgree ==
    ~dirty => \A v \in VMs : \A p \in PortSet :
        (/\ fip[v.mac] = NoNet /\ p.kind = "iface" /\ p.net = v.net
         /\ p.ip = Gateway[v.net] /\ p.mac \in DOMAIN routerExt)
        => labels[v.mac] = routerExt[p.mac]

\* Through every change of gateways, floating IPs and bindings, bytes stay in the
\* series they were counted in: the live ones show under the label they carry, and
\* the folds credit theirs (learnMACs, reconcileRouterMACs, SettleResolver).  Only
\* what is counted after the fold of a flow and before the insert, or the map, with
\* its new label is excepted.
BytesKeepLabel ==
    ~misfiled /\ \A f \in Flows : \A x \in carried[f] : x = FlowExternalLabel(routerExt, labels, f)

-----------------------------------------------------------------------------
(* What the code does not keep: see the README, section 5.                 *)

\* routers.go: a change of label settles the affected flows first, "so the exposed
\* external_network series stay monotone": a byte that was shown in a series, in
\* the window of a fold or not, is still shown in it.
ShownBytesStay ==
    \A f \in Flows : \A x \in carried[f] \cup late[f] : x = FlowExternalLabel(routerExt, labels, f)

\* trie-construction.md: the "gateway_ip/32 -> INFRA" row classifies what comes
\* from the gateway's address of a tenant's own subnet (DHCP responses) as INFRA.
GatewayIsInfra ==
    ~dirty => \A t \in Tenants : \A n \in Owned(t) :
        Gateway[n] # NoAddr => TrieZone(t, Gateway[n]) = ZoneInfra

\* lookup.go: LookupZone "mirrors the kernel's lookup_zone for (tenant, ip)".
DebugMirrorsKernel ==
    ~dirty => \A t \in Tenants, a \in Addrs : LookupZone(t, a) = TrieZone(t, a)

\* reconcile.go: a stale base address "costs a zone label on a MAC that no longer
\* resolves"; so traffic to a VIP is never taken for plumbing.
StaleBaseHarmless ==
    ~dirty => \A l \in Live, v \in VMs : lookup_zone(v.mac, Mac(l), v.ip, lb[l].vip) # ZoneInfra
=============================================================================
