SPECIFICATION Spec
CONSTANTS
    a = a
    b = b
    o1 = o1
    o2 = o2
    i1 = i1
    i2 = i2
    Outgoing = {o1, o2}
    Incoming = {i1, i2}
    ContactOf <- MCContactOf
    Paths <- MCPaths
    TcpPort <- MCTcpPort
    FirstPort = 2
    LastPort = 3
    Attempts = 2
INVARIANTS
    OpenIsKnown
    ListedIsOnline
    TubesInv
