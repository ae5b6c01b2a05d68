\* Four calls, to two hosts, and everything that may go wrong.
SPECIFICATION FairSpec
CONSTANTS
    host1 = host1
    host2 = host2
    Hosts = {host1, host2}
    None = None
    MaxCalls = 4
INVARIANTS
    SlaveInv
    ReportedUnlessTimedOut
    RightHostUnlessFailed
PROPERTY
    CallsEnd
CHECK_DEADLOCK FALSE
