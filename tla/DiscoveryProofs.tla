--------------------------- MODULE DiscoveryProofs ---------------------------
(***************************************************************************)
(* Proofs about Discovery, for any host, source lists and filters: the     *)
(* content of a template that states its family fits its type, private     *)
(* addresses chosen while nothing fails are no bridge's, and passes over a *)
(* host that stands still ask for the same.                                *)
(***************************************************************************)
EXTENDS Discovery, FiniteSetTheorems, TLAPS

\* The addresses a snapshot holds are addresses.
LEMMA FirstsAddress ==
    ASSUME NEW list \in Seq(Address), NEW S
    PROVE  Firsts(list, S) \subseteq Address \cap S
BY DEF Firsts

\* The first addresses of interfaces whose lists are taken over whole.
LEMMA InterfacesAddress ==
    ASSUME TypeOK, NEW S
    PROVE  /\ \A name \in Interface \cup {AnyInterface} : FindInterfaceAddress(name, S) \subseteq Address
           /\ FindFirstMatchingAddress(S) \subseteq Address \ snap.excluded
<1>1. \A i \in Interface : snap.ifaces[i] \in Seq(Address)
  BY DEF TypeOK, Snapshot
<1>2. \A i \in Interface : Firsts(snap.ifaces[i], S) \subseteq Address
  BY <1>1, FirstsAddress
<1>3. \A i \in Interface : Firsts(snap.ifaces[i], (S \cap IPv4) \ snap.excluded) \subseteq Address \ snap.excluded
  <2> SUFFICES ASSUME NEW i \in Interface
               PROVE  Firsts(snap.ifaces[i], (S \cap IPv4) \ snap.excluded) \subseteq Address \ snap.excluded
    OBVIOUS
  <2> DEFINE T == (S \cap IPv4) \ snap.excluded
  <2>1. Firsts(snap.ifaces[i], T) \subseteq Address \cap T
    BY <1>1, FirstsAddress
  <2> QED
    BY <2>1
<1> QED
  BY <1>2, <1>3 DEF FindInterfaceAddress, FindFirstMatchingAddress

\* What a source results in is an address.
LEMMA SourceAddress ==
    ASSUME TypeOK, NEW s \in Source
    PROVE  ResolveSource(s) \subseteq Address
<1>1. /\ snap.public4 \in Address \cup {None} /\ snap.public6 \in Address \cup {None}
      /\ snap.rfc1918 \in Address \cup {None} /\ snap.cgnat \in Address \cup {None}
  BY DEF TypeOK, Snapshot
<1>2. s.value \in Address \cup {None} /\ s.interface \in Interface \cup {AnyInterface}
  BY DEF Source
<1>3. \A S : FindInterfaceAddress(s.interface, S) \subseteq Address
  BY <1>2, InterfacesAddress
<1> QED
  BY <1>1, <1>2, <1>3 DEF ResolveSource

\* A selected address is one a source resulted in, of the family asked for.
LEMMA ResolveSound ==
    ASSUME NEW sources, NEW family, NEW a \in Resolve(sources, family), a # None
    PROVE  MatchesFamily(a, family) /\ \E s \in sources : a \in ResolveSource(s)
BY DEF Resolve, Usable

\* The content a template asks for is an address or empty, or what it was.
LEMMA WantedContent ==
    ASSUME TypeOK, NEW t \in Template, NEW c \in Wanted(t)
    PROVE  \/ c = content[t]
           \/ \E a \in Address : /\ c = SelectByFamily(a, t.type)
                                 /\ MatchesFamily(a, t.family)
                                 /\ \E s \in SourcesOf(t) : a \in ResolveSource(s)
<1>1. PICK a \in Resolve(SourcesOf(t), t.family) :
          c = IF a = None THEN content[t] ELSE SelectByFamily(a, t.type)
  BY DEF Wanted
<1>2. CASE a = None
  BY <1>1, <1>2
<1>3. CASE a # None
  <2>1. PICK s \in SourcesOf(t) : a \in ResolveSource(s)
    BY <1>3, ResolveSound
  <2>2. s \in Source
    BY DiscoveryAssumption
  <2>3. a \in Address
    BY <2>1, <2>2, SourceAddress
  <2>4. MatchesFamily(a, t.family)
    BY <1>3, ResolveSound
  <2> QED
    BY <1>1, <1>3, <2>1, <2>3, <2>4
<1> QED
  BY <1>2, <1>3

\* What a pass knows of the bridges, while nothing has failed or changed.
Fresh ==
    calm > 0 => /\ pc \in {"public4", "public6"} => snap.excluded = Bridged
                /\ pc \in {"drivers", "containers", "publish"} =>
                      snap.rfc1918 \notin Bridged /\ snap.cgnat \notin Bridged

Inv == TypeOK /\ ContentFits /\ Fresh

\* The invariant holds at first.
LEMMA InitInv == Init => Inv
<1> SUFFICES ASSUME Init PROVE Inv
  OBVIOUS
<1>1. host \in Host
  <2>1. PICK f \in [Interface -> UNION {Lists[i] : i \in Interface}] :
            /\ \A i \in Interface : f[i] \in Lists[i]
            /\ host = [ifaces |-> f, public4 |-> None, public6 |-> None,
                       networks |-> Network, endpoints |-> {}]
    BY DEF Init
  <2>2. f \in [Interface -> Seq(Address)]
    BY <2>1, DiscoveryAssumption
  <2> QED
    BY <2>1, <2>2, DiscoveryAssumption DEF Host
<1>2. snap \in Snapshot
  BY DEF Init, NoSnapshot, Snapshot
<1>3. TypeOK
  BY <1>1, <1>2, DiscoveryAssumption DEF Init, TypeOK, Content
<1>4. ContentFits
  BY DiscoveryAssumption DEF Init, ContentFits, None, Empty
<1> QED
  BY <1>3, <1>4 DEF Init, Inv, Fresh

\* Calls of a pass that do not publish leave the contents as they are.
LEMMA SameContent == ContentFits /\ UNCHANGED content => ContentFits'
BY DEF ContentFits

\* A call that fails counts, and ends the calm.
LEMMA Failing ==
    ASSUME TypeOK,
           \/ UNCHANGED <<faults, calm>>
           \/ CallFails
    PROVE  faults' \in 0..MaxFaults /\ calm' \in 0..2 /\ (calm' > 0 => calm' = calm)
BY DiscoveryAssumption DEF TypeOK, CallFails

\* What the engines that answer give together.
LEMMA ClientsTogether ==
    ASSUME NEW engines
    PROVE  /\ UNION {ListNetworks(g) : g \in engines} = {n \in host.networks : EngineOf[n] \in engines}
           /\ UNION {ExcludedCIDRsOf(g) : g \in engines} =
              UNION {Subnet[n] : n \in {n \in host.networks : EngineOf[n] \in engines /\ IsExcludedDriver(n)}}
<1>1. UNION {ListNetworks(g) : g \in engines} = {n \in host.networks : EngineOf[n] \in engines}
    BY DEF ListNetworks
<1>2. ASSUME NEW a
      PROVE  a \in UNION {ExcludedCIDRsOf(g) : g \in engines}
             <=> \E n \in host.networks : EngineOf[n] \in engines /\ IsExcludedDriver(n) /\ a \in Subnet[n]
    BY DEF ListNetworks, ExcludedCIDRsOf
<1> QED
    BY <1>1, <1>2

\* The calls of a pass, but for the last, keep the invariant.
LEMMA CallsInv ==
    ASSUME Inv, CollectInterfaces \/ ExcludedCIDRs \/ FetchPublicIPv4 \/ FetchPublicIPv6
                \/ AllNetworks \/ AllContainers
    PROVE  Inv'
<1> USE DEF Inv
<1>1. CASE CollectInterfaces
  <2>1. PICK read \in SUBSET Interface :
            /\ snap' = [NoSnapshot EXCEPT !.ifaces =
                           [i \in Interface |-> IF i \in read THEN host.ifaces[i] ELSE <<>>]]
            /\ IF read = Interface
               THEN calm' = (IF calm = 0 THEN 1 ELSE calm) /\ UNCHANGED faults
               ELSE CallFails
    BY <1>1 DEF CollectInterfaces
  <2>2. [i \in Interface |-> IF i \in read THEN host.ifaces[i] ELSE <<>>] \in [Interface -> Seq(Address)]
    BY DEF TypeOK, Host
  <2>3. snap' \in Snapshot
    BY <2>1, <2>2 DEF Snapshot, NoSnapshot
  <2>4. faults' \in 0..MaxFaults /\ calm' \in 0..2
    BY <2>1, DiscoveryAssumption DEF TypeOK, CallFails
  <2>5. TypeOK'
    BY <1>1, <2>3, <2>4 DEF CollectInterfaces, TypeOK
  <2>6. Fresh'
    BY <1>1 DEF CollectInterfaces, Fresh
  <2> QED
    BY <1>1, <2>5, <2>6, SameContent DEF CollectInterfaces
<1>2. CASE ExcludedCIDRs
  <2>1. PICK engines \in SUBSET Engine :
            /\ Answering(engines)
            /\ snap' = [snap EXCEPT !.excluded =
                   UNION {Subnet[n] : n \in {n \in host.networks : EngineOf[n] \in engines /\ IsExcludedDriver(n)}}]
    BY <1>2, ClientsTogether DEF ExcludedCIDRs
  <2>2. host.networks \subseteq Network
    BY DEF TypeOK, Host
  <2>3. snap' \in Snapshot
    <3> DEFINE excluded == UNION {Subnet[n] : n \in {n \in host.networks : EngineOf[n] \in engines /\ IsExcludedDriver(n)}}
    <3>1. \A n \in Network : Subnet[n] \subseteq Address
      BY DiscoveryAssumption
    <3>2. excluded \in SUBSET Address
      BY <2>2, <3>1
    <3>3. snap' = [snap EXCEPT !.excluded = excluded]
      BY <2>1
    <3> HIDE DEF excluded
    <3> QED
      BY <3>2, <3>3 DEF TypeOK, Snapshot
  <2>4. faults' \in 0..MaxFaults /\ calm' \in 0..2 /\ (calm' > 0 => calm' = calm)
    BY <2>1, Failing DEF Answering
  <2>5. TypeOK'
    BY <1>2, <2>3, <2>4 DEF ExcludedCIDRs, TypeOK
  <2>6. Fresh'
    <3> SUFFICES ASSUME calm' > 0 PROVE snap'.excluded = Bridged'
      BY <1>2 DEF ExcludedCIDRs, Fresh
    <3>1. engines = Engine
      BY <2>1 DEF Answering, CallFails
    <3>2. snap'.excluded = UNION {Subnet[n] : n \in {n \in host.networks : EngineOf[n] \in engines /\ IsExcludedDriver(n)}}
      BY <2>1 DEF TypeOK, Snapshot
    <3>3. {n \in host.networks : EngineOf[n] \in engines /\ IsExcludedDriver(n)}
             = {n \in host.networks : IsExcludedDriver(n)}
      BY <2>2, <3>1, DiscoveryAssumption
    <3> QED
      BY <1>2, <3>2, <3>3 DEF ExcludedCIDRs, Bridged
  <2> QED
    BY <1>2, <2>5, <2>6, SameContent DEF ExcludedCIDRs
<1>3. CASE FetchPublicIPv4
  <2>1. PICK a \in {Public(host.public4), None} :
            FetchPublicIP(host.public4, a) /\ snap' = [snap EXCEPT !.public4 = a]
    BY <1>3 DEF FetchPublicIPv4
  <2>2. snap' \in Snapshot /\ snap'.excluded = snap.excluded
    BY <2>1 DEF TypeOK, Snapshot, Public
  <2>3. faults' \in 0..MaxFaults /\ calm' \in 0..2 /\ (calm' > 0 => calm' = calm)
    BY <2>1, Failing DEF FetchPublicIP
  <2>4. TypeOK'
    BY <1>3, <2>2, <2>3 DEF FetchPublicIPv4, TypeOK
  <2>5. Fresh'
    BY <1>3, <2>2, <2>3 DEF FetchPublicIPv4, Fresh, Bridged
  <2> QED
    BY <1>3, <2>4, <2>5, SameContent DEF FetchPublicIPv4
<1>4. CASE FetchPublicIPv6
  <2>1. PICK a \in {Public(host.public6), None},
             r \in OneOf(FindFirstMatchingAddress(Rfc1918)),
             c \in OneOf(FindFirstMatchingAddress(Cgnat)) :
                /\ FetchPublicIP(host.public6, a)
                /\ snap' = [snap EXCEPT !.public6 = a, !.rfc1918 = r, !.cgnat = c]
    BY <1>4 DEF FetchPublicIPv6
  <2>2. r \in (Address \ snap.excluded) \cup {None} /\ c \in (Address \ snap.excluded) \cup {None}
    BY <2>1, InterfacesAddress DEF OneOf
  <2>3. snap' \in Snapshot /\ snap'.rfc1918 = r /\ snap'.cgnat = c
    BY <2>1, <2>2 DEF TypeOK, Snapshot, Public
  <2>4. faults' \in 0..MaxFaults /\ calm' \in 0..2 /\ (calm' > 0 => calm' = calm)
    BY <2>1, Failing DEF FetchPublicIP
  <2>5. TypeOK'
    BY <1>4, <2>3, <2>4 DEF FetchPublicIPv6, TypeOK
  <2>6. Bridged \subseteq Address /\ None \notin Address
    BY DiscoveryAssumption DEF Bridged, TypeOK, Host
  <2>7. Fresh'
    BY <1>4, <2>2, <2>3, <2>4, <2>6 DEF FetchPublicIPv6, Fresh, Bridged
  <2> QED
    BY <1>4, <2>5, <2>7, SameContent DEF FetchPublicIPv6
<1>5. CASE AllNetworks
  <2>1. PICK engines \in SUBSET Engine :
            Answering(engines) /\ known' = {n \in host.networks : EngineOf[n] \in engines}
    BY <1>5, ClientsTogether DEF AllNetworks
  <2>2. faults' \in 0..MaxFaults /\ calm' \in 0..2 /\ (calm' > 0 => calm' = calm)
    BY <2>1, Failing DEF Answering
  <2>3. TypeOK'
    BY <1>5, <2>1, <2>2 DEF AllNetworks, TypeOK, Host
  <2>4. Fresh'
    BY <1>5, <2>2 DEF AllNetworks, Fresh, Bridged
  <2> QED
    BY <1>5, <2>3, <2>4, SameContent DEF AllNetworks
<1>6. CASE AllContainers
  <2>1. /\ found' \subseteq host.endpoints
        /\ \/ UNCHANGED <<faults, calm>>
           \/ CallFails
    BY <1>6 DEF AllContainers, ListContainers
  <2>2. faults' \in 0..MaxFaults /\ calm' \in 0..2 /\ (calm' > 0 => calm' = calm)
    BY <2>1, Failing
  <2>3. TypeOK'
    BY <1>6, <2>1, <2>2 DEF AllContainers, TypeOK, Host
  <2>4. Fresh'
    BY <1>6, <2>2 DEF AllContainers, Fresh, Bridged
  <2> QED
    BY <1>6, <2>3, <2>4, SameContent DEF AllContainers
<1> QED
  BY <1>1, <1>2, <1>3, <1>4, <1>5, <1>6

\* Publish keeps the invariant.
LEMMA PublishInv == Inv /\ Publish => Inv'
<1> SUFFICES ASSUME Inv, Publish PROVE Inv'
  OBVIOUS
<1>1. /\ content' \in [Template -> UNION {Wanted(t) : t \in Template}]
      /\ \A t \in Template : content'[t] \in Wanted(t)
  BY DEF Publish
<1>2. \A t \in Template : \A c \in Wanted(t) : c \in Content
  <2> SUFFICES ASSUME NEW t \in Template, NEW c \in Wanted(t) PROVE c \in Content
    OBVIOUS
  <2>1. content[t] \in Content
    BY DEF Inv, TypeOK
  <2> QED
    BY <2>1, WantedContent DEF Inv, SelectByFamily, Content
<1>3. content' \in [Template -> Content]
  BY <1>1, <1>2
<1>4. snap' \in Snapshot
  <2>1. snap' = NoSnapshot
    BY Zenon DEF Publish
  <2> QED
    BY <2>1 DEF NoSnapshot, Snapshot
<1>5. calm' \in 0..2
  <2>1. calm' = IF calm = 0 THEN 0 ELSE 2
    BY Zenon DEF Publish
  <2> QED
    BY <2>1
<1>6. TypeOK'
  BY <1>3, <1>4, <1>5 DEF Inv, TypeOK, Publish
<1>7. ContentFits'
  <2> SUFFICES ASSUME NEW t \in Template
               PROVE  /\ t.type = "A" /\ t.family = "ipv4" => content'[t] \notin {Empty} \cup IPv6
                      /\ t.type = "AAAA" /\ t.family = "ipv6" => content'[t] \in IPv6 \cup {None}
    BY DEF ContentFits
  <2>1. CASE content'[t] = content[t]
    BY <2>1 DEF Inv, ContentFits
  <2>2. CASE content'[t] # content[t]
    <3>1. PICK a \in Address : content'[t] = SelectByFamily(a, t.type) /\ MatchesFamily(a, t.family)
      BY <1>1, <2>2, WantedContent DEF Inv
    <3>2. a # Empty
      BY DiscoveryAssumption
    <3>3. ASSUME t.type = "A", t.family = "ipv4" PROVE content'[t] \notin {Empty} \cup IPv6
      BY <3>1, <3>2, <3>3 DEF SelectByFamily, MatchesFamily
    <3>4. ASSUME t.type = "AAAA", t.family = "ipv6" PROVE content'[t] \in IPv6
      BY <3>1, <3>4 DEF SelectByFamily, MatchesFamily
    <3> QED
      BY <3>3, <3>4
  <2> QED
    BY <2>1, <2>2
<1>8. Fresh'
  BY DEF Publish, Fresh
<1> QED
  BY <1>6, <1>7, <1>8 DEF Inv

\* A change of the host ends the calm.
LEMMA EnvironmentInv == Inv /\ Environment => Inv'
<1> SUFFICES ASSUME Inv, Environment PROVE Inv'
  OBVIOUS
<1>1. host' \in Host
  <2>1. CASE InterfaceChange
    <3>1. PICK i \in Interface : \E list \in Lists[i] : Change("ifaces", [host.ifaces EXCEPT ![i] = list])
      BY <2>1 DEF InterfaceChange
    <3>2. Lists[i] \subseteq Seq(Address)
      BY DiscoveryAssumption
    <3>3. PICK list \in Lists[i] : host' = [host EXCEPT !["ifaces"] = [host.ifaces EXCEPT ![i] = list]]
      BY <3>1 DEF Change
    <3>4. host.ifaces \in [Interface -> Seq(Address)] /\ list \in Seq(Address)
      BY <3>2, <3>3 DEF Inv, TypeOK, Host
    <3>5. [host.ifaces EXCEPT ![i] = list] \in [Interface -> Seq(Address)]
      BY <3>4
    <3> QED
      BY <3>3, <3>5 DEF Inv, TypeOK, Host
  <2>2. CASE PublicChange
    BY <2>2 DEF PublicChange, Change, Inv, TypeOK, Host
  <2>3. CASE NetworkChange
    BY <2>3 DEF NetworkChange, Change, Inv, TypeOK, Host
  <2>4. CASE ContainerChange
    BY <2>4 DEF ContainerChange, Change, Inv, TypeOK, Host
  <2> QED
    BY <2>1, <2>2, <2>3, <2>4 DEF Environment
<1>2. /\ changes < MaxChanges /\ changes' = changes + 1 /\ calm' = 0
      /\ UNCHANGED <<pc, snap, known, found, content, exposed, faults>>
  BY DEF Environment, InterfaceChange, PublicChange, NetworkChange, ContainerChange, Change
<1>3. changes' \in 0..MaxChanges
  BY <1>2, DiscoveryAssumption DEF Inv, TypeOK
<1>4. TypeOK'
  BY <1>1, <1>2, <1>3 DEF Inv, TypeOK
<1> QED
  BY <1>2, <1>4, SameContent DEF Inv, Fresh

\* The invariant holds in every reachable state.
THEOREM InvHolds == Spec => []Inv
<1>1. Inv /\ [Next]_vars => Inv'
  <2> SUFFICES ASSUME Inv, [Next]_vars PROVE Inv'
    OBVIOUS
  <2>1. CASE UNCHANGED vars
    BY <2>1 DEF vars, Inv, TypeOK, ContentFits, Fresh, Bridged
  <2>2. CASE Next
    BY <2>2, CallsInv, PublishInv, EnvironmentInv DEF Next, PassStep
  <2> QED
    BY <2>1, <2>2
<1> QED
  BY <1>1, InitInv, PTL DEF Spec

\* The state of a pass and of its host is well typed.
THEOREM SnapshotTyped == Spec => []TypeOK
<1>1. Inv => TypeOK
  BY DEF Inv
<1> QED
  BY <1>1, InvHolds, PTL

\* A template that states the family of its type never asks for an empty
\* content or for an address of the other family.
THEOREM FamilyKept == Spec => []ContentFits
<1>1. Inv => ContentFits
  BY DEF Inv
<1> QED
  BY <1>1, InvHolds, PTL

\* A template that takes private addresses only does not turn to a bridge's
\* while the engines answer and the host stands still.
THEOREM BridgeAvoided == Spec => NoBridge
<1> DEFINE A == \A t \in Template :
       (Private(t) /\ calm > 0 /\ content'[t] # content[t]) => content'[t] \notin Bridged
<1>1. Inv /\ [Next]_vars => [A]_vars
  <2> SUFFICES ASSUME Inv, [Next]_vars, NEW t \in Template,
                      Private(t), calm > 0, content'[t] # content[t]
               PROVE  content'[t] \notin Bridged
    OBVIOUS
  <2>1. Publish
    BY DEF Next, PassStep, vars, CollectInterfaces, ExcludedCIDRs, FetchPublicIPv4, FetchPublicIPv6,
           AllNetworks, AllContainers, Environment, InterfaceChange, PublicChange, NetworkChange,
           ContainerChange, Change
  <2>2. snap.rfc1918 \notin Bridged /\ snap.cgnat \notin Bridged
    BY <2>1 DEF Inv, Fresh, Publish
  <2>3. content'[t] \in Wanted(t)
    BY <2>1 DEF Publish
  <2>4. PICK a \in Address : /\ content'[t] = SelectByFamily(a, t.type)
                             /\ \E s \in SourcesOf(t) : a \in ResolveSource(s)
    BY <2>3, WantedContent DEF Inv
  <2>5. a \in {snap.rfc1918, snap.cgnat}
    BY <2>4 DEF Private, ResolveSource
  <2>6. Bridged \subseteq Address /\ Empty \notin Address
    BY DiscoveryAssumption DEF Bridged, Inv, TypeOK, Host
  <2> QED
    BY <2>2, <2>4, <2>5, <2>6 DEF SelectByFamily
<1> QED
  BY <1>1, InvHolds, PTL DEF Spec, NoBridge

-----------------------------------------------------------------------------
(* Passes over a host that stands still.                                   *)

\* What a source results in when nothing fails, read off the host.
FirstOn(S) == UNION {Firsts(host.ifaces[i], (S \cap IPv4) \ Bridged) : i \in Interface}

HostSource(s) ==
    CASE s.type = "publicIPv4"  -> {Public(host.public4)} \ {None}
      [] s.type = "publicIPv6"  -> {Public(host.public6)} \ {None}
      [] s.type = "rfc1918IPv4" -> FirstOn(Rfc1918)
      [] s.type = "cgnatIPv4"   -> FirstOn(Cgnat)
      [] s.type = "interfaceIPv4" -> Firsts(host.ifaces[s.interface], IPv4)
      [] s.type = "interfaceIPv6" -> Firsts(host.ifaces[s.interface], Address \ IPv4)
      [] s.type \in {"explicitIPv4", "explicitIPv6"} -> {s.value} \ {None}
      [] OTHER -> {}

\* What is chosen from a source, and from a list of them.
Chosen(s, family) == {a \in HostSource(s) : s.enabled /\ Usable(a, s, family)}

Best(sources, family) ==
    UNION {Chosen(s, family) : s \in {s \in sources :
        \A r \in sources : r.priority < s.priority => Chosen(r, family) = {}}}

Clear(sources) == \A s \in sources : Unambiguous(s)

\* The containers a pass finds when nothing fails.
HostFound ==
    {e \in UNION {ListContainers(g) : g \in Engine} :
        /\ MatchesFilters(FieldValues(e.container, TRUE))
        /\ e.network \in host.networks /\ IsRoutableDriver(e.network) /\ e.ip # None}

\* As long as nothing changes and nothing fails, a pass knows the host as it
\* is, as far as it has got.
Seen ==
    calm > 0 =>
        /\ pc # "idle" => snap.ifaces = host.ifaces
        /\ pc \in {"public4", "public6"} => snap.excluded = Bridged
        /\ pc \in {"public6", "drivers", "containers", "publish"} =>
               snap.public4 = Public(host.public4)
        /\ pc \in {"drivers", "containers", "publish"} =>
               /\ snap.public6 = Public(host.public6)
               /\ snap.rfc1918 \in OneOf(FirstOn(Rfc1918))
               /\ snap.cgnat \in OneOf(FirstOn(Cgnat))
        /\ pc \in {"containers", "publish"} => known = host.networks
        /\ pc = "publish" => found = HostFound

\* A whole pass over a host that stands still has asked for what the host
\* has, wherever its sources leave no choice.
Settled ==
    calm = 2 =>
        /\ \A t \in Template : Clear(SourcesOf(t)) =>
               \A a \in Best(SourcesOf(t), t.family) : content[t] = SelectByFamily(a, t.type)
        /\ Clear(GlobalSources) =>
               exposed = IF \E s \in GlobalSources : Chosen(s, "") # {} THEN HostFound ELSE {}

\* A list has one first address of a kind.
LEMMA FirstsSingle ==
    ASSUME NEW list \in Seq(Address), NEW S, NEW a \in Firsts(list, S), NEW b \in Firsts(list, S)
    PROVE  a = b
<1>1. PICK k \in DOMAIN list : a = list[k] /\ list[k] \in S /\ \A j \in 1..k-1 : list[j] \notin S
  BY DEF Firsts
<1>2. PICK m \in DOMAIN list : b = list[m] /\ list[m] \in S /\ \A j \in 1..m-1 : list[j] \notin S
  BY DEF Firsts
<1>3. k \in Nat \ {0} /\ m \in Nat \ {0}
  OBVIOUS
<1>4. ~(k < m) /\ ~(m < k)
  BY <1>1, <1>2, <1>3
<1> QED
  BY <1>1, <1>2, <1>3, <1>4

\* Where at most one interface carries an address of S, there is one first.
LEMMA CarrierSingle ==
    ASSUME TypeOK, NEW S \in SUBSET IPv4,
           Cardinality({i \in Interface :
               \E k \in DOMAIN host.ifaces[i] : host.ifaces[i][k] \in S \ Bridged}) <= 1,
           NEW a \in FirstOn(S), NEW b \in FirstOn(S)
    PROVE  a = b
<1> DEFINE Carriers == {i \in Interface :
                          \E k \in DOMAIN host.ifaces[i] : host.ifaces[i][k] \in S \ Bridged}
<1>1. IsFiniteSet(Carriers) /\ Cardinality(Carriers) \in Nat
  BY DiscoveryAssumption, FS_Subset, FS_CardinalityType
<1>2. PICK i \in Interface : a \in Firsts(host.ifaces[i], (S \cap IPv4) \ Bridged)
  BY DEF FirstOn
<1>3. PICK j \in Interface : b \in Firsts(host.ifaces[j], (S \cap IPv4) \ Bridged)
  BY DEF FirstOn
<1>4. i \in Carriers /\ j \in Carriers
  BY <1>2, <1>3 DEF Firsts
<1> HIDE DEF Carriers
<1>5. Cardinality(Carriers) <= 1
  BY DEF Carriers
<1>6. Cardinality(Carriers) = 1
  BY <1>1, <1>4, <1>5, FS_EmptySet
<1>7. i = j
  BY <1>1, <1>4, <1>6, FS_Singleton
<1>8. host.ifaces[i] \in Seq(Address)
  BY DEF TypeOK, Host
<1> QED
  BY <1>2, <1>3, <1>7, <1>8, FirstsSingle

\* An unambiguous source has one result at most.
LEMMA SourceSingle ==
    ASSUME TypeOK, NEW s \in Source, Unambiguous(s), NEW a \in HostSource(s), NEW b \in HostSource(s)
    PROVE  a = b
<1>1. s.interface \in Interface \cup {AnyInterface}
  BY DEF Source
<1>2. CASE s.type = "rfc1918IPv4"
  <2>1. Rfc1918 \in SUBSET IPv4
    BY DiscoveryAssumption
  <2>2. a \in FirstOn(Rfc1918) /\ b \in FirstOn(Rfc1918)
    BY <1>2 DEF HostSource
  <2>3. Cardinality({i \in Interface :
            \E k \in DOMAIN host.ifaces[i] : host.ifaces[i][k] \in Rfc1918 \ Bridged}) <= 1
    BY <1>2 DEF Unambiguous
  <2> QED
    BY <2>1, <2>2, <2>3, CarrierSingle
<1>3. CASE s.type = "cgnatIPv4"
  <2>1. Cgnat \in SUBSET IPv4
    BY DiscoveryAssumption
  <2>2. a \in FirstOn(Cgnat) /\ b \in FirstOn(Cgnat)
    BY <1>3 DEF HostSource
  <2>3. Cardinality({i \in Interface :
            \E k \in DOMAIN host.ifaces[i] : host.ifaces[i][k] \in Cgnat \ Bridged}) <= 1
    BY <1>3 DEF Unambiguous
  <2> QED
    BY <2>1, <2>2, <2>3, CarrierSingle
<1>4. CASE s.type \in {"interfaceIPv4", "interfaceIPv6"}
  <2>1. s.interface \in Interface
    BY <1>1, <1>4 DEF Unambiguous
  <2>2. host.ifaces[s.interface] \in Seq(Address)
    BY <2>1 DEF TypeOK, Host
  <2>3. \E S : a \in Firsts(host.ifaces[s.interface], S) /\ b \in Firsts(host.ifaces[s.interface], S)
    BY <1>4 DEF HostSource
  <2> QED
    BY <2>2, <2>3, FirstsSingle
<1>5. CASE s.type \notin {"rfc1918IPv4", "cgnatIPv4", "interfaceIPv4", "interfaceIPv6"}
  BY <1>5 DEF HostSource
<1> QED
  BY <1>2, <1>3, <1>4, <1>5

\* At the end of a pass that nothing disturbed, an unambiguous source results
\* in what the host has.
LEMMA SourceSeen ==
    ASSUME TypeOK, Seen, pc = "publish", calm > 0, NEW s \in Source, Unambiguous(s)
    PROVE  ResolveSource(s) = HostSource(s)
<1>1. /\ snap.ifaces = host.ifaces
      /\ snap.public4 = Public(host.public4) /\ snap.public6 = Public(host.public6)
      /\ snap.rfc1918 \in OneOf(FirstOn(Rfc1918)) /\ snap.cgnat \in OneOf(FirstOn(Cgnat))
  BY DEF Seen
<1>2. \A S : FirstOn(S) \subseteq Address
  <2>1. \A i \in Interface : host.ifaces[i] \in Seq(Address)
    BY DEF TypeOK, Host
  <2> QED
    BY <2>1, FirstsAddress DEF FirstOn
<1>3. ASSUME NEW S, NEW c \in OneOf(FirstOn(S)), \A a, b \in FirstOn(S) : a = b
      PROVE  {c} \ {None} = FirstOn(S)
  BY <1>2, <1>3, DiscoveryAssumption DEF OneOf
<1>4. CASE s.type = "rfc1918IPv4"
  <2>1. HostSource(s) = FirstOn(Rfc1918) /\ ResolveSource(s) = {snap.rfc1918} \ {None}
    BY <1>4 DEF HostSource, ResolveSource
  <2>2. \A a, b \in FirstOn(Rfc1918) : a = b
    BY <2>1, SourceSingle
  <2> QED
    BY <1>1, <1>3, <2>1, <2>2
<1>5. CASE s.type = "cgnatIPv4"
  <2>1. HostSource(s) = FirstOn(Cgnat) /\ ResolveSource(s) = {snap.cgnat} \ {None}
    BY <1>5 DEF HostSource, ResolveSource
  <2>2. \A a, b \in FirstOn(Cgnat) : a = b
    BY <2>1, SourceSingle
  <2> QED
    BY <1>1, <1>3, <2>1, <2>2
<1>6. CASE s.type \in {"interfaceIPv4", "interfaceIPv6"}
  <2>1. s.interface # AnyInterface
    BY <1>6 DEF Unambiguous
  <2> QED
    BY <1>1, <1>6, <2>1 DEF HostSource, ResolveSource, FindInterfaceAddress
<1>7. CASE s.type \notin {"rfc1918IPv4", "cgnatIPv4", "interfaceIPv4", "interfaceIPv6"}
  BY <1>1, <1>7 DEF HostSource, ResolveSource
<1> QED
  BY <1>4, <1>5, <1>6, <1>7

\* A list of unambiguous sources is resolved to the best choice, or to none.
LEMMA ResolveSeen ==
    ASSUME TypeOK, Seen, pc = "publish", calm > 0,
           NEW sources \in SUBSET Source, Clear(sources), NEW family
    PROVE  Resolve(sources, family) =
             Best(sources, family) \cup {a \in {None} : \A s \in sources : Chosen(s, family) = {}}
<1>1. \A s \in sources : ResolveSource(s) = HostSource(s)
  BY SourceSeen DEF Clear
<1>2. \A s \in sources : \A a, b \in HostSource(s) : a = b
  BY SourceSingle DEF Clear
<1>3. \A s \in sources : PassedOver(s, family) <=> Chosen(s, family) = {}
  BY <1>1, <1>2 DEF PassedOver, Chosen
<1>4. \A s \in sources : {a \in ResolveSource(s) : s.enabled /\ Usable(a, s, family)} = Chosen(s, family)
  BY <1>1 DEF Chosen
<1>5. {s \in sources : \A r \in sources : r.priority < s.priority => PassedOver(r, family)}
        = {s \in sources : \A r \in sources : r.priority < s.priority => Chosen(r, family) = {}}
  BY <1>3
<1> QED
  BY <1>3, <1>4, <1>5 DEF Resolve, Best

\* There is one best choice at most.
LEMMA BestSingle ==
    ASSUME TypeOK, NEW sources \in SUBSET Source, ValidSources(sources), Clear(sources),
           NEW family, NEW a \in Best(sources, family), NEW b \in Best(sources, family)
    PROVE  a = b
<1>1. PICK s \in sources : /\ a \in Chosen(s, family)
                           /\ \A r \in sources : r.priority < s.priority => Chosen(r, family) = {}
  BY DEF Best
<1>2. PICK u \in sources : /\ b \in Chosen(u, family)
                           /\ \A r \in sources : r.priority < u.priority => Chosen(r, family) = {}
  BY DEF Best
<1>3. s.priority \in 1..4 /\ u.priority \in 1..4
  BY DEF Source
<1>4. s.priority = u.priority
  BY <1>1, <1>2, <1>3
<1>5. s = u
  BY <1>4 DEF ValidSources
<1> QED
  BY <1>1, <1>2, <1>5, SourceSingle DEF Chosen, Clear

\* Calls that fail end the calm, and the others leave it.
LEMMA CalmKept ==
    ASSUME \/ UNCHANGED <<faults, calm>>
           \/ CallFails,
           calm' > 0
    PROVE  calm' = calm
BY DEF CallFails

\* Each call of a pass shows it the host as it is.
LEMMA SeenStep == Inv /\ Seen /\ [Next]_vars => Seen'
<1> SUFFICES ASSUME TypeOK, Seen, [Next]_vars, calm' > 0 PROVE Seen'
  BY DEF Seen, Inv
<1> DEFINE Same == UNCHANGED <<FirstOn(Rfc1918), FirstOn(Cgnat), Bridged, HostFound>>
<1>1. ASSUME UNCHANGED host PROVE Same
  BY <1>1 DEF FirstOn, Bridged, HostFound, ListContainers
<1> HIDE DEF Same
<1>2. CASE CollectInterfaces
  <2>1. PICK read \in SUBSET Interface :
            /\ snap' = [NoSnapshot EXCEPT !.ifaces =
                           [i \in Interface |-> IF i \in read THEN host.ifaces[i] ELSE <<>>]]
            /\ read # Interface => CallFails
    BY <1>2 DEF CollectInterfaces
  <2>2. read = Interface
    BY <2>1 DEF CallFails
  <2>3. snap'.ifaces = host.ifaces
    BY <2>1, <2>2 DEF NoSnapshot, TypeOK, Host
  <2>4. pc' = "networks" /\ UNCHANGED host
    BY <1>2 DEF CollectInterfaces
  <2> QED
    BY <2>3, <2>4 DEF Seen
<1>3. CASE ExcludedCIDRs
  <2>1. PICK engines \in SUBSET Engine :
            /\ Answering(engines)
            /\ snap' = [snap EXCEPT !.excluded =
                   UNION {Subnet[n] : n \in {n \in host.networks : EngineOf[n] \in engines /\ IsExcludedDriver(n)}}]
    BY <1>3, ClientsTogether DEF ExcludedCIDRs
  <2>2. engines = Engine /\ calm' = calm
    BY <2>1 DEF Answering, CallFails
  <2>3. {n \in host.networks : EngineOf[n] \in engines /\ IsExcludedDriver(n)}
           = {n \in host.networks : IsExcludedDriver(n)}
    BY <2>2, DiscoveryAssumption DEF TypeOK, Host
  <2>4. snap'.excluded = Bridged /\ snap'.ifaces = snap.ifaces
    BY <2>1, <2>3 DEF Bridged, TypeOK, Snapshot
  <2>5. pc = "networks" /\ pc' = "public4" /\ UNCHANGED host
    BY <1>3 DEF ExcludedCIDRs
  <2>6. Bridged' = Bridged
    BY <2>5 DEF Bridged
  <2> QED
    BY <2>2, <2>4, <2>5, <2>6 DEF Seen
<1>4. CASE FetchPublicIPv4
  <2>1. PICK a \in {Public(host.public4), None} :
            FetchPublicIP(host.public4, a) /\ snap' = [snap EXCEPT !.public4 = a]
    BY <1>4 DEF FetchPublicIPv4
  <2>2. a = Public(host.public4) /\ calm' = calm
    BY <2>1 DEF FetchPublicIP, CallFails
  <2>3. snap'.public4 = a /\ snap'.excluded = snap.excluded /\ snap'.ifaces = snap.ifaces
    BY <2>1 DEF TypeOK, Snapshot
  <2>4. pc = "public4" /\ pc' = "public6" /\ UNCHANGED host /\ Bridged' = Bridged
    BY <1>4 DEF FetchPublicIPv4, Bridged
  <2> QED
    BY <2>2, <2>3, <2>4 DEF Seen, Public
<1>5. CASE FetchPublicIPv6
  <2>1. PICK a \in {Public(host.public6), None},
             r \in OneOf(FindFirstMatchingAddress(Rfc1918)),
             c \in OneOf(FindFirstMatchingAddress(Cgnat)) :
                /\ FetchPublicIP(host.public6, a)
                /\ snap' = [snap EXCEPT !.public6 = a, !.rfc1918 = r, !.cgnat = c]
    BY <1>5 DEF FetchPublicIPv6
  <2>2. a = Public(host.public6) /\ calm' = calm
    BY <2>1 DEF FetchPublicIP, CallFails
  <2>3. /\ snap'.public6 = a /\ snap'.rfc1918 = r /\ snap'.cgnat = c
        /\ snap'.public4 = snap.public4 /\ snap'.ifaces = snap.ifaces
    BY <2>1 DEF TypeOK, Snapshot
  <2>4. pc = "public6" /\ pc' = "drivers" /\ UNCHANGED host
    BY <1>5 DEF FetchPublicIPv6
  <2>5. snap.excluded = Bridged /\ snap.ifaces = host.ifaces /\ snap.public4 = Public(host.public4)
    BY <2>2, <2>4 DEF Seen
  <2>6. \A S : FindFirstMatchingAddress(S) = FirstOn(S)
    BY <2>5 DEF FindFirstMatchingAddress, FirstOn
  <2>7. Same
    BY <1>1, <2>4
  <2> QED
    BY <2>1, <2>2, <2>3, <2>4, <2>5, <2>6, <2>7 DEF Seen, Same, Public
<1>6. CASE AllNetworks
  <2>1. PICK engines \in SUBSET Engine :
            Answering(engines) /\ known' = {n \in host.networks : EngineOf[n] \in engines}
    BY <1>6, ClientsTogether DEF AllNetworks
  <2>2. engines = Engine /\ calm' = calm
    BY <2>1 DEF Answering, CallFails
  <2>3. known' = host.networks
    BY <2>1, <2>2, DiscoveryAssumption DEF TypeOK, Host
  <2>4. pc = "drivers" /\ pc' = "containers" /\ UNCHANGED <<host, snap>>
    BY <1>6 DEF AllNetworks
  <2>5. Same
    BY <1>1, <2>4
  <2> QED
    BY <2>2, <2>3, <2>4, <2>5 DEF Seen, Same, Public
<1>7. CASE AllContainers
  <2> DEFINE running == {e.container : e \in host.endpoints}
  <2>1. PICK engines \in SUBSET Engine, inspected \in SUBSET running :
            /\ IF engines = Engine /\ inspected = running THEN UNCHANGED <<faults, calm>>
               ELSE CallFails
            /\ found' = {e \in UNION {ListContainers(g) : g \in engines} :
                   /\ MatchesFilters(FieldValues(e.container, e.container \in inspected))
                   /\ Routable(e)}
    BY <1>7 DEF AllContainers
  <2>2. engines = Engine /\ inspected = running /\ calm' = calm
    BY <2>1 DEF CallFails
  <2>3. pc = "containers" /\ pc' = "publish" /\ UNCHANGED <<host, snap, known>>
    BY <1>7 DEF AllContainers
  <2>4. known = host.networks
    BY <2>2, <2>3 DEF Seen
  <2>5. \A e \in UNION {ListContainers(g) : g \in Engine} : (e.container \in inspected) = TRUE
    BY <2>2 DEF ListContainers
  <2>6. found' = HostFound
    BY <2>1, <2>2, <2>4, <2>5 DEF HostFound, Routable
  <2>7. Same
    BY <1>1, <2>3
  <2> QED
    BY <2>2, <2>3, <2>4, <2>6, <2>7 DEF Seen, Same, Public
<1>8. CASE Publish
  <2>1. pc' = "idle"
    BY <1>8, Zenon DEF Publish
  <2> QED
    BY <2>1 DEF Seen
<1>9. CASE Environment
  <2>1. PICK aspect, value : Change(aspect, value)
    BY <1>9, Zenon DEF Environment, InterfaceChange, PublicChange, NetworkChange, ContainerChange
  <2>2. calm' = 0
    BY <2>1 DEF Change
  <2> QED
    BY <2>2 DEF Seen
<1>10. CASE UNCHANGED vars
  <2>1. UNCHANGED <<host, pc, snap, known, found, calm>>
    BY <1>10 DEF vars
  <2>2. Same
    BY <1>1, <2>1
  <2> QED
    BY <2>1, <2>2 DEF Seen, Same, Public
<1> QED
  BY <1>2, <1>3, <1>4, <1>5, <1>6, <1>7, <1>8, <1>9, <1>10 DEF Next, PassStep

\* What the host has depends on the host alone.
LEMMA SameHost ==
    ASSUME UNCHANGED host
    PROVE  /\ \A sources, family : Best(sources, family)' = Best(sources, family)
           /\ \A sources : Clear(sources)' <=> Clear(sources)
           /\ \A s, family : Chosen(s, family)' = Chosen(s, family)
           /\ HostFound' = HostFound
<1>1. \A s : HostSource(s)' = HostSource(s)
  BY DEF HostSource, FirstOn, Bridged, Public
<1>2. \A s, family : Chosen(s, family)' = Chosen(s, family)
  BY <1>1 DEF Chosen
<1>3. \A sources, family : Best(sources, family)' = Best(sources, family)
  BY <1>2 DEF Best
<1>4. \A sources : Clear(sources)' <=> Clear(sources)
  BY DEF Clear, Unambiguous, Bridged
<1>5. HostFound' = HostFound
  BY DEF HostFound, ListContainers
<1> QED
  BY <1>2, <1>3, <1>4, <1>5

\* What a pass that nothing disturbed publishes is what the host has.
LEMMA PublishSeen ==
    ASSUME Inv, Seen, Publish, calm > 0
    PROVE  /\ \A t \in Template : Clear(SourcesOf(t)) =>
                  \/ /\ content'[t] = content[t]
                     /\ Best(SourcesOf(t), t.family) = {}
                  \/ \E a \in Best(SourcesOf(t), t.family) :
                         content'[t] = SelectByFamily(a, t.type)
           /\ Clear(GlobalSources) =>
                  exposed' = IF \E s \in GlobalSources : Chosen(s, "") # {} THEN HostFound ELSE {}
<1>1. TypeOK /\ pc = "publish"
  BY DEF Inv, Publish
<1>2. ASSUME NEW t \in Template, Clear(SourcesOf(t))
      PROVE  \/ /\ content'[t] = content[t]
                /\ Best(SourcesOf(t), t.family) = {}
             \/ \E a \in Best(SourcesOf(t), t.family) : content'[t] = SelectByFamily(a, t.type)
  <2>1. content'[t] \in Wanted(t)
    BY DEF Publish
  <2>2. PICK a \in Resolve(SourcesOf(t), t.family) :
            content'[t] = IF a = None THEN content[t] ELSE SelectByFamily(a, t.type)
    BY <2>1 DEF Wanted
  <2>3. SourcesOf(t) \in SUBSET Source
    BY DiscoveryAssumption
  <2>4. Resolve(SourcesOf(t), t.family) =
          Best(SourcesOf(t), t.family) \cup {b \in {None} : \A s \in SourcesOf(t) : Chosen(s, t.family) = {}}
    BY <1>1, <1>2, <2>3, ResolveSeen
  <2>5. None \notin Best(SourcesOf(t), t.family)
    <3>1. \A s \in SourcesOf(t) : Chosen(s, t.family) \subseteq Address
      <4>1. \A s \in SourcesOf(t) : ResolveSource(s) = HostSource(s)
        BY <1>1, <1>2, <2>3, SourceSeen DEF Clear
      <4> QED
        BY <1>1, <2>3, <4>1, SourceAddress DEF Chosen
    <3> QED
      BY <3>1, DiscoveryAssumption DEF Best
  <2>6. CASE a = None
    <3>1. Best(SourcesOf(t), t.family) = {}
      BY <2>4, <2>5, <2>6 DEF Best
    <3> QED
      BY <2>2, <2>6, <3>1
  <2>7. CASE a # None
    BY <2>2, <2>4, <2>7
  <2> QED
    BY <2>6, <2>7
<1>3. ASSUME Clear(GlobalSources)
      PROVE  exposed' = IF \E s \in GlobalSources : Chosen(s, "") # {} THEN HostFound ELSE {}
  <2>1. /\ exposed' \subseteq found
        /\ exposed' # {} => Resolve(GlobalSources, "") # {None}
        /\ exposed' # found => None \in Resolve(GlobalSources, "")
    BY DEF Publish
  <2>2. GlobalSources \in SUBSET Source
    BY DiscoveryAssumption
  <2>3. Resolve(GlobalSources, "") =
          Best(GlobalSources, "") \cup {b \in {None} : \A s \in GlobalSources : Chosen(s, "") = {}}
    BY <1>1, <1>3, <2>2, ResolveSeen
  <2>4. None \notin Best(GlobalSources, "")
    <3>1. \A s \in GlobalSources : Chosen(s, "") \subseteq Address
      <4>1. \A s \in GlobalSources : ResolveSource(s) = HostSource(s)
        BY <1>1, <1>3, <2>2, SourceSeen DEF Clear
      <4> QED
        BY <1>1, <2>2, <4>1, SourceAddress DEF Chosen
    <3> QED
      BY <3>1, DiscoveryAssumption DEF Best
  <2>5. found = HostFound
    BY <1>1 DEF Seen
  <2>6. CASE \E s \in GlobalSources : Chosen(s, "") # {}
    BY <2>1, <2>3, <2>4, <2>5, <2>6
  <2>7. CASE \A s \in GlobalSources : Chosen(s, "") = {}
    <3>1. Resolve(GlobalSources, "") = {None}
      BY <2>3, <2>7 DEF Best
    <3> QED
      BY <2>1, <2>7, <3>1
  <2> QED
    BY <2>6, <2>7
<1> QED
  BY <1>2, <1>3

\* Once settled, it stays so until something changes or fails.
LEMMA SettledStep == Inv /\ Seen /\ Settled /\ [Next]_vars => Settled'
<1> SUFFICES ASSUME Inv, Seen, Settled, [Next]_vars, calm' = 2 PROVE Settled'
  BY DEF Settled
<1>1. CASE Publish
  <2>1. calm > 0 /\ UNCHANGED host
    <3>1. UNCHANGED host /\ calm' = IF calm = 0 THEN 0 ELSE 2
      BY <1>1, Zenon DEF Publish
    <3>2. calm \in 0..2
      BY DEF Inv, TypeOK
    <3> QED
      BY <3>1, <3>2
  <2>2. ASSUME NEW t \in Template, Clear(SourcesOf(t)), NEW a \in Best(SourcesOf(t), t.family)
        PROVE  content'[t] = SelectByFamily(a, t.type)
    <3>1. PICK b \in Best(SourcesOf(t), t.family) : content'[t] = SelectByFamily(b, t.type)
      BY <1>1, <2>1, <2>2, PublishSeen
    <3>2. SourcesOf(t) \in SUBSET Source /\ ValidSources(SourcesOf(t))
      BY DiscoveryAssumption
    <3>3. a = b
      BY <2>2, <3>1, <3>2, BestSingle DEF Inv
    <3> QED
      BY <3>1, <3>3
  <2>3. Clear(GlobalSources) =>
            exposed' = IF \E s \in GlobalSources : Chosen(s, "") # {} THEN HostFound ELSE {}
    BY <1>1, <2>1, PublishSeen
  <2> QED
    BY <2>1, <2>2, <2>3, SameHost DEF Settled
<1>2. CASE ~Publish
  <2>1. UNCHANGED <<host, content, exposed, calm>>
    <3>1. CASE CollectInterfaces
      BY <1>2, <3>1 DEF CollectInterfaces, CallFails
    <3>2. CASE ExcludedCIDRs
      BY <3>2, CalmKept DEF ExcludedCIDRs, Answering
    <3>3. CASE FetchPublicIPv4
      BY <3>3 DEF FetchPublicIPv4, FetchPublicIP, CallFails
    <3>4. CASE FetchPublicIPv6
      BY <3>4 DEF FetchPublicIPv6, FetchPublicIP, CallFails
    <3>5. CASE AllNetworks
      BY <3>5 DEF AllNetworks, Answering, CallFails
    <3>6. CASE AllContainers
      BY <3>6 DEF AllContainers, CallFails
    <3>7. CASE Environment
      BY <3>7 DEF Environment, InterfaceChange, PublicChange, NetworkChange, ContainerChange, Change
    <3>8. CASE UNCHANGED vars
      BY <3>8 DEF vars
    <3> QED
      BY <1>2, <3>1, <3>2, <3>3, <3>4, <3>5, <3>6, <3>7, <3>8 DEF Next, PassStep
  <2> QED
    BY <2>1, SameHost DEF Settled
<1> QED
  BY <1>1, <1>2

\* Passes over a host that stands still ask for the same, wherever the order
\* of a map has no say.
THEOREM SteadyHeld == Spec => Steady
<1> DEFINE A == calm = 2 =>
          /\ \A t \in Template :
                (\A s \in SourcesOf(t) : Unambiguous(s)) => content'[t] = content[t]
          /\ (\A s \in GlobalSources : Unambiguous(s)) => exposed' = exposed
<1>1. Init => Seen /\ Settled
  BY DEF Init, Seen, Settled
<1>2. Inv /\ Seen /\ Settled /\ [Next]_vars => Seen' /\ Settled'
  BY SeenStep, SettledStep
<1>3. Inv /\ Seen /\ Settled /\ [Next]_vars => [A]_vars
  <2> SUFFICES ASSUME Inv, Seen, Settled, [Next]_vars, calm = 2
               PROVE  /\ \A t \in Template : Clear(SourcesOf(t)) => content'[t] = content[t]
                      /\ Clear(GlobalSources) => exposed' = exposed
    BY DEF Clear
  <2>1. CASE Publish
    <3>1. calm > 0
      OBVIOUS
    <3>2. ASSUME NEW t \in Template, Clear(SourcesOf(t)) PROVE content'[t] = content[t]
      <4>1. \A a \in Best(SourcesOf(t), t.family) : content[t] = SelectByFamily(a, t.type)
        BY <3>2 DEF Settled
      <4> QED
        BY <2>1, <3>1, <3>2, <4>1, PublishSeen
    <3>3. ASSUME Clear(GlobalSources) PROVE exposed' = exposed
      <4>1. exposed = IF \E s \in GlobalSources : Chosen(s, "") # {} THEN HostFound ELSE {}
        BY <3>3 DEF Settled
      <4> QED
        BY <2>1, <3>1, <3>3, <4>1, PublishSeen
    <3> QED
      BY <3>2, <3>3
  <2>2. CASE ~Publish
    BY <2>2 DEF Next, PassStep, vars, CollectInterfaces, ExcludedCIDRs, FetchPublicIPv4,
       FetchPublicIPv6, AllNetworks, AllContainers, Environment, InterfaceChange, PublicChange,
       NetworkChange, ContainerChange, Change
  <2> QED
    BY <2>1, <2>2
<1> QED
  BY <1>1, <1>2, <1>3, InvHolds, PTL DEF Spec, Steady
=============================================================================
