--------------------------- MODULE ScenarioCloud ---------------------------
(***************************************************************************)
(* The cloud the live scenarios run on, as internal/scenariotest's client  *)
(* drives it and its test double models it: what each call changes, and    *)
(* what OpenStack refuses because something else still uses it.            *)
(*                                                                         *)
(* A cloud is a record: the live resources; the servers and load balancers *)
(* accepted for deletion that still exist; the router interfaces, <<router, *)
(* subnet>> or <<router, port>>; the routers with static routes; and the   *)
(* NICs, <<server, port>>.                                                 *)
(***************************************************************************)
EXTENDS Naturals, Sequences

CONSTANTS
    Order,    \* the resources of a topology, in the order it declares them
    Kind,     \* resource -> "project", "network", "subnet", "router", "port", "server", "fip", "lb"
    Parent,   \* subnet -> network, port -> subnet, server and fip -> port, lb -> the VIP's subnet
    VIPPort   \* lb -> the port Octavia makes for it

Resources == {Order[i] : i \in DOMAIN Order}
Kinds == {"project", "network", "subnet", "router", "port", "server", "fip", "lb"}
Empty == [live |-> {}, dying |-> {}, ifaces |-> {}, routed |-> {}, nics |-> {}]

Of(kind, S) == {x \in S : Kind[x] = kind}

\* What a topology declares is on what it declares, and Octavia makes the port
\* of a load balancer on the VIP's subnet.
ASSUME TopologyAssumption ==
    /\ Order \in Seq(Resources) /\ Kind \in [Resources -> Kinds]
    /\ \A x \in Of("subnet", Resources) : Parent[x] \in Of("network", Resources)
    /\ \A x \in Of("port", Resources) \cup Of("lb", Resources) : Parent[x] \in Of("subnet", Resources)
    /\ \A x \in Of("server", Resources) \cup Of("fip", Resources) : Parent[x] \in Of("port", Resources)
    /\ \A x \in Of("lb", Resources) :
          VIPPort[x] \in Of("port", Resources) /\ Parent[VIPPort[x]] = Parent[x]
NetworkOf(p) == Parent[Parent[p]]
SubnetOf(i) == IF Kind[i[2]] = "port" THEN Parent[i[2]] ELSE i[2]

\* A floating IP needs a router that serves the port's subnet.
FIPReachable(c, x) == \E i \in c.ifaces : SubnetOf(i) = Parent[Parent[x]]

\* A port is in use while a server sits on it or a router has it as interface.
PortInUse(c, p) == \/ \E nic \in c.nics : nic[2] = p
                   \/ \E i \in c.ifaces : i[2] = p

OnSubnet(c, s) == {p \in Of("port", c.live) : Parent[p] = s}
SubnetInUse(c, s) == OnSubnet(c, s) # {} \/ \E i \in c.ifaces : SubnetOf(i) = s

ListNetworkPorts(c, n) == {p \in Of("port", c.live) : NetworkOf(p) = n}
NetworkInUse(c, n) ==
    ListNetworkPorts(c, n) # {} \/ \E i \in c.ifaces : Parent[SubnetOf(i)] = n

\* The servers whose name has this run's prefix.
ListProjectServers(c) == Of("server", c.live)

\* A static route pins the router's interfaces; a floating IP pins the
\* interface of the subnet it is reached through.
InterfacePinned(c, r, s) ==
    \/ r \in c.routed
    \/ \E x \in Of("fip", c.live) : Parent[x] \in c.live /\ Parent[Parent[x]] = s

\* A second resource with the name, or the fixed address, of a live one is not
\* made; a project is found instead.
CreateRefused(c, x) ==
    \/ Kind[x] # "project" /\ x \in c.live
    \/ Kind[x] \in {"subnet", "port", "server", "fip", "lb"} /\ Parent[x] \notin c.live
    \/ Kind[x] = "server" /\ PortInUse(c, Parent[x])
    \/ Kind[x] = "fip" /\ ~FIPReachable(c, x)

CreateServer(c, x) == [c EXCEPT !.live = @ \cup {x}, !.nics = @ \cup {<<x, Parent[x]>>}]
CreateLoadBalancer(c, x) == [c EXCEPT !.live = @ \cup {x, VIPPort[x]}]
CreateOther(c, x) == [c EXCEPT !.live = @ \cup {x}]
Create(c, x) == CASE Kind[x] = "server" -> CreateServer(c, x)
                  [] Kind[x] = "lb" -> CreateLoadBalancer(c, x)
                  [] OTHER -> CreateOther(c, x)

DeleteRefused(c, x) ==
    /\ x \in c.live
    /\ \/ Kind[x] = "port" /\ PortInUse(c, x)
       \/ Kind[x] = "subnet" /\ SubnetInUse(c, x)
       \/ Kind[x] = "network" /\ NetworkInUse(c, x)
       \/ Kind[x] = "router" /\ \E i \in c.ifaces : i[1] = x

\* Nova and Octavia accept a deletion and finish it later; Neutron's network
\* takes its subnets along.  Deleting what is not there is no error.
DeleteServer(c, x) == [c EXCEPT !.dying = @ \cup ({x} \cap c.live)]
DeleteLoadBalancer(c, x) == [c EXCEPT !.dying = @ \cup ({x} \cap c.live)]
DeleteNetwork(c, x) == [c EXCEPT !.live = {y \in @ : y # x /\ ~(Kind[y] = "subnet" /\ Parent[y] = x)}]
DeleteOther(c, x) == [c EXCEPT !.live = @ \ {x}, !.routed = @ \ {x}]
Delete(c, x) == CASE Kind[x] = "server" -> DeleteServer(c, x)
                  [] Kind[x] = "lb" -> DeleteLoadBalancer(c, x)
                  [] Kind[x] = "network" -> DeleteNetwork(c, x)
                  [] OTHER -> DeleteOther(c, x)

\* The deletion of x ends.
Vanish(c, x) ==
    [c EXCEPT !.live = @ \ ({x} \cup IF Kind[x] = "lb" THEN {VIPPort[x]} ELSE {}),
              !.dying = @ \ {x}, !.nics = {nic \in @ : nic[1] # x}]

AddRouterInterface(c, r, x) == [c EXCEPT !.ifaces = @ \cup {<<r, x>>}]
AddRefused(c, r, x) == ~({r, x} \subseteq c.live)
SetRouterRoutes(c, r) == [c EXCEPT !.routed = @ \cup ({r} \cap c.live)]
ClearRouterRoutes(c, r) == [c EXCEPT !.routed = @ \ {r}]

\* By subnet or by port; an interface port goes with its interface.
Matching(c, r, x) == {i \in c.ifaces : i[1] = r /\ (i[2] = x \/ SubnetOf(i) = x)}
RemoveRefused(c, r, x) == \E i \in Matching(c, r, x) : InterfacePinned(c, r, SubnetOf(i))
RemoveRouterInterface(c, r, x) ==
    LET gone == Matching(c, r, x)
    IN [c EXCEPT !.ifaces = @ \ gone, !.live = @ \ Of("port", {i[2] : i \in gone})]

AttachInterface(c, s, p) == [c EXCEPT !.nics = @ \cup {<<s, p>>}]
AttachRefused(c, s, p) == ~({s, p} \subseteq c.live \ c.dying) \/ PortInUse(c, p)
DetachInterface(c, s, p) == [c EXCEPT !.nics = @ \ {<<s, p>>}]
DetachRefused(c, s, p) == <<s, p>> \notin c.nics

\* One call, as the tuple <<verb, argument, ...>>.
Refused(c, op) ==
    CASE op[1] = "create" -> CreateRefused(c, op[2])
      [] op[1] = "delete" -> DeleteRefused(c, op[2])
      [] op[1] = "attach" -> AddRefused(c, op[2], op[3])
      [] op[1] = "detach" -> RemoveRefused(c, op[2], op[3])
      [] op[1] = "plug" -> AttachRefused(c, op[2], op[3])
      [] op[1] = "unplug" -> DetachRefused(c, op[2], op[3])
      [] OTHER -> FALSE
Apply(c, op) ==
    CASE op[1] = "create" -> Create(c, op[2])
      [] op[1] = "delete" -> Delete(c, op[2])
      [] op[1] = "attach" -> AddRouterInterface(c, op[2], op[3])
      [] op[1] = "detach" -> RemoveRouterInterface(c, op[2], op[3])
      [] op[1] = "routes" -> SetRouterRoutes(c, op[2])
      [] op[1] = "clear" -> ClearRouterRoutes(c, op[2])
      [] op[1] = "plug" -> AttachInterface(c, op[2], op[3])
      [] op[1] = "unplug" -> DetachInterface(c, op[2], op[3])
Calls == {"create", "delete", "attach", "detach", "routes", "clear", "plug", "unplug"}
=============================================================================
