\* Three documents on two hosts; Connections break and are made anew.
SPECIFICATION FairSpec
CONSTANTS
    d1 = d1
    d2 = d2
    d3 = d3
    h1 = h1
    h2 = h2
    Docs = {d1, d2, d3}
    Hosts = {h1, h2}
    HostOf <- MCHostOf
    Conns = {c1, c2, c3}
    None = None
    plugin = plugin
INVARIANTS
    TypeOK
    TableIsLive
    NoneOverlooked
PROPERTY
    IsSubscribed
CHECK_DEADLOCK FALSE
