------------------------------ MODULE MCZoning ------------------------------
(***************************************************************************)
(* A ring of three routers, r1 - B - r2 - C - r3 - A - r1, so that a walk   *)
(* can be as long as the hop limit or come back; D overlaps B and another  *)
(* tenant owns it; r4 has an interface but is in no router list; the load  *)
(* balancer is on E, which no router serves; X is the external network.    *)
(***************************************************************************)
EXTENDS Zoning

CONSTANTS T, U, Svc, G, r1, r2, r3, r4, l1

MCTenants == {T, U, Svc}
MCAddrs == 0..19
MCNetworks == {"A", "B", "C", "D", "E", "X", "Y"}
MCCidr == [n \in MCNetworks |->
    CASE n = "A" -> 0..3 [] n = "B" -> 4..7 [] n = "C" -> 8..11 [] n = "D" -> 4..7
      [] n = "E" -> 16..19 [] n = "X" -> {12} [] n = "Y" -> {13}]
MCNetOwner == [n \in MCNetworks |->
    IF n \in {"C", "D"} THEN U ELSE IF n \in {"X", "Y"} THEN Svc ELSE T]
MCGateway == [n \in MCNetworks |->
    CASE n = "A" -> 0 [] n = "B" -> 4 [] n = "C" -> 8 [] n = "D" -> 4 [] n = "E" -> 16
      [] n \in {"X", "Y"} -> 99]
MCRouters == {r1, r2, r3}
MCRouterOwner == [r \in MCRouters |-> IF r = r2 THEN U ELSE T]

Port(kind, dev, proj, net, ip) ==
    [kind |-> kind, dev |-> dev, proj |-> proj, net |-> net, ip |-> ip, mac |-> <<net, ip>>]
MCPorts ==
    << Port("iface", r1, T, "A", 0), Port("iface", r1, T, "B", 4), Port("iface", r1, T, "D", 4),
       Port("iface", r2, U, "B", 5), Port("iface", r2, U, "C", 8),
       Port("iface", r3, T, "C", 9), Port("iface", r3, T, "A", 1),
       Port("iface", r4, U, "B", 7), Port("dhcp", r4, T, "A", 3),
       Port("compute", "v1", T, "A", 2), Port("compute", "v2", U, "C", 10),
       Port("compute", "v3", T, "B", 6) >>
MCLBOwner == [l \in LBs |-> T]
MCDests == {4..7, 0..19}
MCNextHops == {0, 5, 6, 8, 9, 99}

\* Zones depend on no uplink and labels on no route: behaviours with changes of
\* both are cut.
Apart ==
    \/ \A r \in Routers : gateway[r] = NoNet /\ \A m \in DOMAIN fip : fip[m] = NoNet
    \/ /\ \A r \in Routers : routes[r] = <<>>
       /\ shared = {} /\ \A l \in LBs : lb[l] = NoLB
=============================================================================
