SPECIFICATION MCSpec
CONSTANTS
    Me = Me
    P1 = P1
    P2 = P2
    P3 = P3
    P4 = P4
    Peers <- MCPeers
    Nobody = Nobody
    NoName = NoName
    Initially = Initially
    HashHue <- MCHashHue
    Contents <- MCContents
    Typed <- MCTyped
    Received <- MCReceived
    MaxLen = 5
    MaxEdits = 4
INVARIANTS
    SameText
    OffsetsRoundTrip
    AuthorsShown
    HighlightInv
CHECK_DEADLOCK FALSE
