----------------------------- MODULE MCDiscovery -----------------------------
(***************************************************************************)
(* A host with a network card, a tunnel and a Docker bridge; an A and an   *)
(* AAAA template; a container that may be in two routed networks.          *)
(***************************************************************************)
EXTENDS Discovery, TLC

CONSTANTS lan, cg, br, pub, v6, mapped, page, eth0, tun0, docker0, bridge, mac, c1, docker

MCAddress == {lan, cg, br, pub, v6, mapped}
MCIPv4 == {lan, cg, br, pub}
MCRfc1918 == {lan, br}

MCLists == (eth0 :> {<<lan, v6>>, <<lan>>}) @@ (tun0 :> {<<cg>>, <<>>}) @@ (docker0 :> {<<br>>, <<>>})

MCAnswers == {None, page, pub, v6, mapped}

MCDriver == (bridge :> "bridge") @@ (mac :> "macvlan")
MCSubnet == (bridge :> {br}) @@ (mac :> {lan})
MCEngineOf == (bridge :> docker) @@ (mac :> docker)
MCEndpoint == {[container |-> c1, network |-> mac, ip |-> lan],
               [container |-> c1, network |-> bridge, ip |-> br]}

MCValue == c1 :> [name |-> "web", hostname |-> "web1", image |-> "nginx", id |-> "c1"]

From(priority, type, interface) ==
    [priority |-> priority, enabled |-> TRUE, type |-> type, interface |-> interface,
     allow |-> {}, deny |-> {}, value |-> None]

MCGlobal == {From(1, "publicIPv4", AnyInterface), From(2, "publicIPv6", AnyInterface),
             From(3, "interfaceIPv6", eth0)}

MCTemplate == {
    [type |-> "AAAA", family |-> "ipv6", useGlobal |-> TRUE, sources |-> {}],
    [type |-> "A", family |-> "", useGlobal |-> FALSE,
     sources |-> {[From(1, "interfaceIPv4", tun0) EXCEPT !.allow = {{cg}}],
                  From(2, "rfc1918IPv4", AnyInterface),
                  [From(3, "explicitIPv4", AnyInterface) EXCEPT !.value = pub, !.enabled = FALSE]}],
    [type |-> "A", family |-> "ipv4", useGlobal |-> FALSE,
     sources |-> {From(1, "rfc1918IPv4", AnyInterface)}]}
=============================================================================
