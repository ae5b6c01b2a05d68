\* A name that is not there is found all the same.
SPECIFICATION LookupSpec
CONSTANTS
    Root = root
    dirA = dirA
    dirB = dirB
    fileA = fileA
    fileB = fileB
    a = a
    b = b
    Nodes = {root, dirA, dirB, fileA, fileB}
    Directories = {root, dirA, dirB}
    NameOf <- MCNameOf
    Components = {a, b, Empty}
    Empty = Empty
    Nowhere = Nowhere
    Paths <- Slashed
    Trees <- MCTrees
    MaxChanges = 0
INVARIANTS
    FindsWhatIsNamed
CHECK_DEADLOCK FALSE
