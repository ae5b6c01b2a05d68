\* Paths without a trailing slash, as the plugin looks them up.
SPECIFICATION FairLookupSpec
CONSTANTS
    Root = root
    dirA = dirA
    dirB = dirB
    fileA = fileA
    fileB = fileB
    a = a
    b = b
    Nodes = {root, dirA, dirB, fileA, fileB}
    Directories = {root, dirA, dirB}
    NameOf <- MCNameOf
    Components = {a, b, Empty}
    Empty = Empty
    Nowhere = Nowhere
    Paths <- Plain
    Trees <- MCTrees
    MaxChanges = 3
INVARIANTS
    FindsWhatIsNamed
    FailsOnlyIfAbsent
PROPERTY
    Ends
CHECK_DEADLOCK FALSE
