\* A document that is opened up to three times while its file comes and goes.
SPECIFICATION FairSpec
CONSTANTS
    Buffers = {b1, b2, b3, b4, b5}
    None = None
    MaxRetries = 5
    MaxLookups = 4
    MaxReopenings = 2
    MaxFileEvents = 4
    MaxJoinFailures = 1
INVARIANTS
    WritableOnlyWhenJoined
    ReadyUnlessOverlapped
    NotForgotten
PROPERTIES
    LateAnswersAreLost
    ImplementsOpening
    Settles
CHECK_DEADLOCK FALSE
