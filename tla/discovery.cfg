SPECIFICATION FairSpec
CONSTANTS
    lan = lan
    cg = cg
    br = br
    pub = pub
    v6 = v6
    mapped = mapped
    page = page
    eth0 = eth0
    tun0 = tun0
    docker0 = docker0
    bridge = bridge
    mac = mac
    c1 = c1
    docker = docker
    Address <- MCAddress
    IPv4 <- MCIPv4
    IPv6 = {v6}
    Rfc1918 <- MCRfc1918
    Cgnat = {cg}
    Interface = {eth0, tun0, docker0}
    Lists <- MCLists
    Answers <- MCAnswers
    Engine = {docker}
    EngineOf <- MCEngineOf
    Network = {bridge, mac}
    Driver <- MCDriver
    Subnet <- MCSubnet
    Endpoint <- MCEndpoint
    Value <- MCValue
    MatchFields = {"auto"}
    Include = {{"("}}
    Exclude = {{""}}
    GlobalSources <- MCGlobal
    Template <- MCTemplate
    MaxChanges = 2
    MaxFaults = 1
INVARIANTS
    TypeOK
    ContentFits
PROPERTIES
    NoBridge
    Steady
    Follows
