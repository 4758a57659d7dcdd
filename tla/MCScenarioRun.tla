--------------------------- MODULE MCScenarioRun ---------------------------
(***************************************************************************)
(* A network with a VM subnet s and a transit subnet t; one router, on s   *)
(* by the gateway and on t by the port q, with a static route; the VM a    *)
(* and a load balancer, both with a floating IP; and what steps add: the   *)
(* VM b, a second NIC, a second floating IP.  The platform plugs x.        *)
(***************************************************************************)
EXTENDS ScenarioRun

MCOrder == <<"prj", "net", "s", "t", "rtr", "q", "pa", "a", "fa", "vip", "lb", "fl",
             "pb", "b", "fb", "nic", "f2", "x">>
MCKind ==
    [r \in {"prj"} |-> "project"] @@ [r \in {"net"} |-> "network"] @@ [r \in {"s", "t"} |-> "subnet"]
    @@ [r \in {"rtr"} |-> "router"] @@ [r \in {"q", "pa", "pb", "vip", "nic", "x"} |-> "port"]
    @@ [r \in {"a", "b"} |-> "server"] @@ [r \in {"fa", "fb", "fl", "f2"} |-> "fip"]
    @@ [r \in {"lb"} |-> "lb"]
MCParent ==
    [r \in {"s", "t"} |-> "net"] @@ [r \in {"pa", "pb", "vip", "nic", "lb"} |-> "s"]
    @@ [r \in {"q", "x"} |-> "t"] @@ [r \in {"a", "fa", "f2"} |-> "pa"]
    @@ [r \in {"b", "fb"} |-> "pb"] @@ [r \in {"fl"} |-> "vip"]
MCVIPPort == [r \in {"lb"} |-> "vip"]
MCDeferred == {"pb", "b", "fb", "nic", "f2"}
MCLinks == << <<"rtr", "s">>, <<"rtr", "q">> >>
MCStaticRoutes == <<"rtr">>
MCPlatform == {"x"}
MCScripts ==
    { << <<"drive">>, <<"set-config">>, <<"reload">>, <<"restore-config">> >>,
      << <<"delete-vm", "a">>, <<"boot-vm", "b">>, <<"migrate", "b">> >>,
      << <<"attach-port", "a", "nic">>, <<"detach-port", "a", "nic">>,
         <<"reattach-port", "a", "nic">>, <<"detach-delete", "a", "nic">> >>,
      << <<"associate-fip", "f2">>, <<"clear-routes", "rtr">>, <<"delete-fip", "f2">>,
         <<"set-routes", "rtr">> >>,
      << <<"set-config">>, <<"delete-while-down", "a">> >> }
=============================================================================
