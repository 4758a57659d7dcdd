SPECIFICATION ZoningSpec
CONSTANTS
    T = T
    U = U
    Svc = Svc
    G = G
    r1 = r1
    r2 = r2
    r3 = r3
    r4 = r4
    l1 = l1
    Tenants <- MCTenants
    Service = Svc
    Global = G
    Addrs <- MCAddrs
    NoAddr = 99
    Networks <- MCNetworks
    Cidr <- MCCidr
    NetOwner <- MCNetOwner
    Gateway <- MCGateway
    External = {"X", "Y"}
    Uplinks = {"X", "Y"}
    Routers <- MCRouters
    RouterOwner <- MCRouterOwner
    Ports <- MCPorts
    LBs = {l1}
    LBOwner <- MCLBOwner
    LBAddrs = {17, 18, 19}
    Dests <- MCDests
    NextHops <- MCNextHops
    Metadata = 14
    MaxHops = 2
    MaxRoutes = 2
    MaxEdits = 3
CONSTRAINT Apart
INVARIANTS RouteZoneIsWalk OwnTrafficSame SegmentsSplit LabelsAgree BytesKeepLabel
CHECK_DEADLOCK FALSE
