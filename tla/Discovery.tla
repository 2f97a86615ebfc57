------------------------------ MODULE Discovery ------------------------------
(***************************************************************************)
(* What a pass finds out about its host, and the content it asks for       *)
(* (internal/runtimectx, internal/address, internal/containerrt and        *)
(* internal/reconcile/container.go).                                       *)
(*                                                                         *)
(* A pass looks at the host in several calls, one after the other: the     *)
(* interfaces, the networks of the container engines, the services that    *)
(* tell the public address, the networks again, the containers.  Each may  *)
(* fail by itself, and the host may change between any two.                *)
(*                                                                         *)
(* Abstractions: a CIDR range is the set of the addresses it contains, a   *)
(* regular expression the set of the values it matches.  A Go map is       *)
(* walked in any order.  There is one container template.  An engine       *)
(* without a socket is one that does not answer; one that neither answers  *)
(* nor refuses is left out: its client has no timeout.                     *)
(***************************************************************************)
EXTENDS Naturals, Sequences, FiniteSets

CONSTANTS
    Address, IPv4, IPv6,   \* of neither: an IPv4 address mapped into IPv6
    Rfc1918, Cgnat,
    Interface, Lists,      \* the address lists an interface may have
    Answers,               \* what the services may say of a public address
    Engine, EngineOf,      \* Docker and Podman, and whose a network is
    Network, Driver, Subnet,
    Endpoint,              \* containers in networks that there may be
    Value,                 \* Value[c][field] of a container
    MatchFields,           \* as configured: fields and "auto"
    Include, Exclude,      \* patterns as configured, BadPattern for no regexp
    GlobalSources, Template,
    MaxChanges, MaxFaults  \* bounds on changes of the host, failed calls

None == "none"      \* no address
Empty == ""         \* the content an expansion to nothing leaves
AnyInterface == ""  \* a source without interfaceName
BadPattern == {"("}

Source == [priority : 1..4, enabled : BOOLEAN, type : STRING, interface : Interface \cup {AnyInterface},
           allow : SUBSET SUBSET Address, deny : SUBSET SUBSET Address,
           value : Address \cup {None}]

\* What validation lets through: no two sources of one list share a priority.
ValidSources(sources) ==
    \A r, s \in sources : r.priority = s.priority => r = s

\* A source list of its own counts only where useGlobalDefaults says false.
SourcesOf(t) == IF t.useGlobal THEN GlobalSources ELSE t.sources

ASSUME DiscoveryAssumption ==
    /\ IPv4 \cup IPv6 \subseteq Address /\ IPv4 \cap IPv6 = {}
    /\ Rfc1918 \cup Cgnat \subseteq IPv4
    /\ None \notin Address /\ Empty \notin Address /\ AnyInterface \notin Interface
    /\ IsFiniteSet(Interface)
    /\ Lists \in [Interface -> SUBSET Seq(Address)]
    /\ EngineOf \in [Network -> Engine] /\ Subnet \in [Network -> SUBSET Address]
    /\ \A t \in Template : SourcesOf(t) \subseteq Source /\ ValidSources(SourcesOf(t))
    /\ GlobalSources \subseteq Source /\ ValidSources(GlobalSources)
    /\ None \in Answers
    /\ MaxChanges \in Nat /\ MaxFaults \in Nat

VARIABLES
    host,       \* the host as it is
    pc,         \* the call the pass makes next
    snap,       \* runtimectx.Snapshot, as far as it is filled
    known,      \* the networks RoutableContainers has listed
    found,      \* the endpoints it has found
    content,    \* what each template asked for last
    exposed,    \* the endpoints the last pass asked for
    changes, faults,
    calm        \* since the last change or failed call a pass has 1 begun, 2 ended

vars == <<host, pc, snap, known, found, content, exposed, changes, faults, calm>>

Content == Address \cup {None, Empty}

Host == [ifaces : [Interface -> Seq(Address)], public4 : Answers, public6 : Answers,
         networks : SUBSET Network, endpoints : SUBSET Endpoint]

Snapshot == [ifaces : [Interface -> Seq(Address)], excluded : SUBSET Address,
             public4 : Address \cup {None}, public6 : Address \cup {None},
             rfc1918 : Address \cup {None}, cgnat : Address \cup {None}]

NoSnapshot == [ifaces |-> [i \in Interface |-> <<>>], excluded |-> {},
               public4 |-> None, public6 |-> None, rfc1918 |-> None, cgnat |-> None]

TypeOK ==
    /\ host \in Host /\ snap \in Snapshot
    /\ pc \in {"idle", "networks", "public4", "public6", "drivers", "containers", "publish"}
    /\ known \subseteq Network /\ found \subseteq Endpoint /\ exposed \subseteq Endpoint
    /\ content \in [Template -> Content]
    /\ changes \in 0..MaxChanges /\ faults \in 0..MaxFaults /\ calm \in 0..2

-----------------------------------------------------------------------------
(* The address a template gets.                                            *)

\* The first address of a list that lies in S, if there is one.
Firsts(list, S) ==
    {list[k] : k \in {k \in DOMAIN list : list[k] \in S /\ \A j \in 1..k-1 : list[j] \notin S}}

\* Mutant: the name is not looked at.
FindAnyAddress(name, S) == UNION {Firsts(snap.ifaces[i], S) : i \in Interface}

FindInterfaceAddress(name, S) ==
    IF name = AnyInterface THEN UNION {Firsts(snap.ifaces[i], S) : i \in Interface}
                           ELSE Firsts(snap.ifaces[name], S)

\* Mutant: the networks of the container engines are not left out.
FindFirstPrivate(S) == UNION {Firsts(snap.ifaces[i], S \cap IPv4) : i \in Interface}

FindFirstMatchingAddress(S) ==
    UNION {Firsts(snap.ifaces[i], (S \cap IPv4) \ snap.excluded) : i \in Interface}

\* The results a source may have, the order of a map being open.
ResolveSource(s) ==
    CASE s.type = "publicIPv4"  -> {snap.public4} \ {None}
      [] s.type = "publicIPv6"  -> {snap.public6} \ {None}
      [] s.type = "rfc1918IPv4" -> {snap.rfc1918} \ {None}
      [] s.type = "cgnatIPv4"   -> {snap.cgnat} \ {None}
      [] s.type = "interfaceIPv4" -> FindInterfaceAddress(s.interface, IPv4)
      [] s.type = "interfaceIPv6" -> FindInterfaceAddress(s.interface, Address \ IPv4)
      [] s.type \in {"explicitIPv4", "explicitIPv6"} -> {s.value} \ {None}
      [] OTHER -> {}

\* Mutant: a mapped address passes for IPv6.
MatchesFamilyIs6(a, family) ==
    CASE family = "ipv4" -> a \notin IPv6
      [] family = "ipv6" -> a \notin IPv4
      [] OTHER -> TRUE

MatchesFamily(a, family) ==
    CASE family = "ipv4" -> a \notin IPv6
      [] family = "ipv6" -> a \in IPv6
      [] OTHER -> TRUE

MatchesCIDRConstraints(a, s) ==
    /\ \A range \in s.deny : a \notin range
    /\ s.allow # {} => \E range \in s.allow : a \in range

Usable(a, s, family) == MatchesFamily(a, family) /\ MatchesCIDRConstraints(a, s)

\* A source is passed over: it is off, has nothing, or what it has is not usable.
PassedOver(s, family) ==
    \/ ~s.enabled
    \/ ResolveSource(s) = {}
    \/ \E a \in ResolveSource(s) : ~Usable(a, s, family)

\* Mutant: the highest number comes first.
ResolveDescending(sources, family) ==
    LET Reached(s) == \A r \in sources : r.priority > s.priority => PassedOver(r, family)
    IN  (UNION {{a \in ResolveSource(s) : s.enabled /\ Usable(a, s, family)} :
                   s \in {s \in sources : Reached(s)}})
        \cup {a \in {None} : \A s \in sources : PassedOver(s, family)}

\* The addresses that may be selected; None is the error.
Resolve(sources, family) ==
    LET Selectable(s) == {a \in ResolveSource(s) : s.enabled /\ Usable(a, s, family)}
        Reached(s) == \A r \in sources : r.priority < s.priority => PassedOver(r, family)
    IN  (UNION {Selectable(s) : s \in {s \in sources : Reached(s)}})
        \cup {a \in {None} : \A s \in sources : PassedOver(s, family)}

\* ${SELECTED_IPV4} in an A template, ${SELECTED_IPV6} in an AAAA template.
SelectByFamily(a, type) ==
    IF (type = "A") <=> (a \notin IPv6) THEN a ELSE Empty

-----------------------------------------------------------------------------
(* The calls of a pass.                                                    *)

IsExcludedDriver(n) == Driver[n] \in {"bridge", "overlay", "null", "host", "none"}
IsRoutableDriver(n) == Driver[n] \in {"ipvlan", "macvlan"}

\* The calls of the client of an engine; those of Docker and Podman are alike.
ListNetworks(engine) == {n \in host.networks : EngineOf[n] = engine}

ExcludedCIDRsOf(engine) ==
    UNION {Subnet[n] : n \in {n \in ListNetworks(engine) : IsExcludedDriver(n)}}

ListContainers(engine) == {e \in host.endpoints : EngineOf[e.network] = engine}

CallFails == faults < MaxFaults /\ faults' = faults + 1 /\ calm' = 0

\* The engines that answer a call; where one does not, that is a failed call.
Answering(engines) ==
    /\ engines \subseteq Engine
    /\ IF engines = Engine THEN UNCHANGED <<faults, calm>> ELSE CallFails

\* collectInterfaceAddresses: the interfaces cannot be listed, or the
\* addresses of one cannot be read, and it is as if there were none.
CollectInterfaces ==
    /\ pc = "idle"
    /\ pc' = "networks"
    /\ \E read \in SUBSET Interface :
        /\ snap' = [NoSnapshot EXCEPT !.ifaces =
                       [i \in Interface |-> IF i \in read THEN host.ifaces[i] ELSE <<>>]]
        /\ IF read = Interface
           THEN calm' = (IF calm = 0 THEN 1 ELSE calm) /\ UNCHANGED faults
           ELSE CallFails
    /\ UNCHANGED <<host, known, found, content, exposed, changes>>

ExcludedCIDRs ==
    /\ pc = "networks"
    /\ pc' = "public4"
    /\ \E engines \in SUBSET Engine :
        /\ Answering(engines)
        /\ snap' = [snap EXCEPT !.excluded = UNION {ExcludedCIDRsOf(g) : g \in engines}]
    /\ UNCHANGED <<host, known, found, content, exposed, changes>>

\* Mutant: whatever the service says is taken for an address.
PublicUnchecked(answer) == answer

\* An answer that is no address is no answer.
Public(answer) == IF answer \in Address THEN answer ELSE None

\* fetchPublicIP: one of the services it asks in turn answers, or none.
FetchPublicIP(answer, result) ==
    \/ result = Public(answer) /\ UNCHANGED <<faults, calm>>
    \/ result = None /\ CallFails

FetchPublicIPv4 ==
    /\ pc = "public4"
    /\ pc' = "public6"
    /\ \E a \in {Public(host.public4), None} :
           FetchPublicIP(host.public4, a) /\ snap' = [snap EXCEPT !.public4 = a]
    /\ UNCHANGED <<host, known, found, content, exposed, changes>>

OneOf(S) == IF S = {} THEN {None} ELSE S

\* The last call of the snapshot; the private addresses are chosen after it.
FetchPublicIPv6 ==
    /\ pc = "public6"
    /\ pc' = "drivers"
    /\ \E a \in {Public(host.public6), None},
          r \in OneOf(FindFirstMatchingAddress(Rfc1918)),
          c \in OneOf(FindFirstMatchingAddress(Cgnat)) :
              /\ FetchPublicIP(host.public6, a)
              /\ snap' = [snap EXCEPT !.public6 = a, !.rfc1918 = r, !.cgnat = c]
    /\ UNCHANGED <<host, known, found, content, exposed, changes>>

AllNetworks ==
    /\ pc = "drivers"
    /\ pc' = "containers"
    /\ \E engines \in SUBSET Engine :
        /\ Answering(engines)
        /\ known' = UNION {ListNetworks(g) : g \in engines}
    /\ UNCHANGED <<host, snap, found, content, exposed, changes>>

Fields == {"name", "hostname", "image", "id"}

\* The fields to look at: "auto", or none given, stands for the first three;
\* what is no field is as nothing.
ResolveMatchFields ==
    LET auto == Fields \ {"id"}
    IN  IF MatchFields = {} THEN auto
        ELSE (MatchFields \cap Fields) \cup (IF "auto" \in MatchFields THEN auto ELSE {})

\* inspectHostname failed: the host name is the empty string.
InspectHostname(c, inspected) == IF inspected THEN Value[c]["hostname"] ELSE Empty

FieldValues(c, inspected) ==
    {IF f = "hostname" THEN InspectHostname(c, inspected) ELSE Value[c][f] : f \in ResolveMatchFields}

\* A pattern that does not compile is left out.
CompilePatterns(patterns) == patterns \ {BadPattern}

MatchesFilters(values) ==
    /\ \A rx \in CompilePatterns(Exclude) : rx \cap values = {}
    /\ CompilePatterns(Include) # {} =>
           \E rx \in CompilePatterns(Include) : rx \cap values # {}

\* The driver of a network that was not listed is unknown, and not routable.
Routable(e) == e.network \in known /\ IsRoutableDriver(e.network) /\ e.ip # None

AllContainers ==
    /\ pc = "containers"
    /\ pc' = "publish"
    /\ LET running == {e.container : e \in host.endpoints}
       IN  \E engines \in SUBSET Engine, inspected \in SUBSET running :
            /\ IF engines = Engine /\ inspected = running THEN UNCHANGED <<faults, calm>>
               ELSE CallFails
            /\ found' = {e \in UNION {ListContainers(g) : g \in engines} :
                   /\ MatchesFilters(FieldValues(e.container, e.container \in inspected))
                   /\ Routable(e)}
    /\ UNCHANGED <<host, snap, known, content, exposed, changes>>

\* The content a template may ask for: without a usable address it is skipped.
Wanted(t) ==
    {IF a = None THEN content[t] ELSE SelectByFamily(a, t.type) : a \in Resolve(SourcesOf(t), t.family)}

\* reconcileOne up to its first provider call, for every template.  A container's
\* content is its own address; it is skipped like the others nevertheless.
Publish ==
    /\ pc = "publish"
    /\ pc' = "idle"
    /\ LET wanted == [t \in Template |-> Wanted(t)]
       IN  /\ content' \in [Template -> UNION {wanted[t] : t \in Template}]
           /\ \A t \in Template : content'[t] \in wanted[t]
    /\ exposed' \in SUBSET found
    /\ exposed' # {} => Resolve(GlobalSources, "") # {None}
    /\ exposed' # found => None \in Resolve(GlobalSources, "")
    /\ calm' = IF calm = 0 THEN 0 ELSE 2
    /\ snap' = NoSnapshot /\ known' = {} /\ found' = {}
    /\ UNCHANGED <<host, changes, faults>>

PassStep ==
    \/ CollectInterfaces \/ ExcludedCIDRs \/ FetchPublicIPv4 \/ FetchPublicIPv6
    \/ AllNetworks \/ AllContainers \/ Publish

-----------------------------------------------------------------------------
(* The host changes at any time.                                           *)

Change(aspect, value) ==
    /\ changes < MaxChanges
    /\ value # host[aspect]
    /\ host' = [host EXCEPT ![aspect] = value]
    /\ changes' = changes + 1 /\ calm' = 0
    /\ UNCHANGED <<pc, snap, known, found, content, exposed, faults>>

InterfaceChange ==
    \E i \in Interface : \E list \in Lists[i] :
        Change("ifaces", [host.ifaces EXCEPT ![i] = list])

PublicChange ==
    \E answer \in Answers : Change("public4", answer) \/ Change("public6", answer)

\* A network is made, or removed when no container is attached to it.
NetworkChange ==
    \E n \in Network :
        \/ Change("networks", host.networks \cup {n})
        \/ /\ \A e \in host.endpoints : e.network # n
           /\ Change("networks", host.networks \ {n})

\* A container is started in a network, or stopped.
ContainerChange ==
    \E e \in Endpoint :
        \/ /\ e.network \in host.networks
           /\ Change("endpoints", host.endpoints \cup {e})
        \/ Change("endpoints", host.endpoints \ {e})

Environment == InterfaceChange \/ PublicChange \/ NetworkChange \/ ContainerChange

Init ==
    /\ host \in [ifaces : {f \in [Interface -> UNION {Lists[i] : i \in Interface}] :
                              \A i \in Interface : f[i] \in Lists[i]},
                 public4 : {None}, public6 : {None}, networks : {Network}, endpoints : {{}}]
    /\ pc = "idle" /\ snap = NoSnapshot /\ known = {} /\ found = {}
    /\ content = [t \in Template |-> None] /\ exposed = {}
    /\ changes = 0 /\ faults = 0 /\ calm = 0

Next == PassStep \/ Environment

Spec == Init /\ [][Next]_vars

\* The scheduler starts a pass at every tick.  The public services are asked
\* with a timeout, and the engines answer or refuse, on which the code relies.
FairSpec == Spec /\ WF_vars(PassStep)
-----------------------------------------------------------------------------
(* Properties.                                                             *)

Private(t) == \A s \in SourcesOf(t) : s.type \in {"rfc1918IPv4", "cgnatIPv4"}

Bridged == UNION {Subnet[n] : n \in {n \in host.networks : IsExcludedDriver(n)}}

\* A template that takes private addresses only never turns to the address of
\* a container bridge, as long as the engines answer and the host stands still
\* during the pass (resolver.go: "so we never pick a Docker/Podman bridge
\* address").
NoBridge ==
    [][\A t \in Template :
          (Private(t) /\ calm > 0 /\ content'[t] # content[t]) => content'[t] \notin Bridged]_vars

\* A template that states the family of its type is skipped rather than given
\* an empty content or an address of the other family, whatever the public
\* address services answer (matchesFamily and selectByFamily agree).
ContentFits ==
    \A t \in Template :
        /\ t.type = "A" /\ t.family = "ipv4" => content[t] \notin {Empty} \cup IPv6
        /\ t.type = "AAAA" /\ t.family = "ipv6" => content[t] \in IPv6 \cup {None}

\* A source whose result does not hang on the order of a map.
Unambiguous(s) ==
    LET Carriers(S) == {i \in Interface : \E k \in DOMAIN host.ifaces[i] : host.ifaces[i][k] \in S}
    IN  CASE s.type \in {"interfaceIPv4", "interfaceIPv6"} -> s.interface # AnyInterface
          [] s.type = "rfc1918IPv4" -> Cardinality(Carriers(Rfc1918 \ Bridged)) <= 1
          [] s.type = "cgnatIPv4" -> Cardinality(Carriers(Cgnat \ Bridged)) <= 1
          [] OTHER -> TRUE

\* Passes over a host that stands still ask for the same: a template changes
\* its content in the second only where the order of a map decides
\* (DesignSpecification.md: "Repeated runs must converge on the same correct
\* state").
Steady ==
    [][calm = 2 =>
          /\ \A t \in Template :
                (\A s \in SourcesOf(t) : Unambiguous(s)) => content'[t] = content[t]
          /\ (\A s \in GlobalSources : Unambiguous(s)) => exposed' = exposed]_vars

\* What the host itself has to offer a source.
Offers(s) ==
    LET All(i) == {host.ifaces[i][k] : k \in DOMAIN host.ifaces[i]}
        On(name) == UNION {All(i) : i \in {i \in Interface : name \in {i, AnyInterface}}}
    IN  CASE s.type = "publicIPv4"  -> {host.public4} \cap Address
          [] s.type = "publicIPv6"  -> {host.public6} \cap Address
          [] s.type = "rfc1918IPv4" -> (On(AnyInterface) \cap Rfc1918) \ Bridged
          [] s.type = "cgnatIPv4"   -> (On(AnyInterface) \cap Cgnat) \ Bridged
          [] s.type = "interfaceIPv4" -> On(s.interface) \cap IPv4
          [] s.type = "interfaceIPv6" -> On(s.interface) \ IPv4
          [] OTHER -> {s.value} \cap Address

Fits(a, s, t) ==
    /\ t.family = "ipv4" => a \notin IPv6
    /\ t.family = "ipv6" => a \in IPv6
    /\ \A range \in s.deny : a \notin range
    /\ s.allow # {} => \E range \in s.allow : a \in range

\* A source that is bound to yield: every address it may offer is right.
Certain(s, t) == s.enabled /\ Offers(s) # {} /\ \A a \in Offers(s) : Fits(a, s, t)

\* t has the address of a source no better source had to be taken before.
Rightful(t) ==
    \E s \in SourcesOf(t) : \E a \in Offers(s) :
        /\ s.enabled /\ Fits(a, s, t)
        /\ content[t] = SelectByFamily(a, t.type)
        /\ \A r \in SourcesOf(t) : r.priority < s.priority => ~Certain(r, t)

\* The containers the filters let through, in networks routed to the outside.
Discoverable ==
    {e \in host.endpoints :
        LET values == {Value[e.container][f] : f \in ResolveMatchFields}
        IN  /\ Driver[e.network] \in {"ipvlan", "macvlan"} /\ e.ip # None
            /\ ~\E rx \in Exclude \ {BadPattern} : rx \cap values # {}
            /\ Include \subseteq {BadPattern} \/ \E rx \in Include \ {BadPattern} : rx \cap values # {}}

\* When host and engines have come to rest, a template some source is bound to
\* serve gets the address of the best source that has one, and the containers
\* asked for are those that run, whatever failed calls and changes half-way
\* through a pass have left behind.
Follows ==
    <>[](/\ \A t \in Template : (\E s \in SourcesOf(t) : Certain(s, t)) => Rightful(t)
         /\ (\E s \in GlobalSources : Certain(s, [family |-> ""])) => exposed = Discoverable)
=============================================================================
