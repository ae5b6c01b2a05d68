\* Two hosts, three directories, two connections.
SPECIFICATION Spec
CONSTANTS
    u1 = u1
    u2 = u2
    u3 = u3
    h1 = h1
    h2 = h2
    Urls = {u1, u2, u3}
    Hosts = {h1, h2}
    HostOf <- MCHostOf
    Conns = {c1, c2}
    None = None
    MaxViews = 2
    MaxChanges = 1
SYMMETRY Symmetry
INVARIANTS
    WatchedIsServed
    ShownIsWatched
    SeenIsQueued
    CrashExplained
CHECK_DEADLOCK FALSE
