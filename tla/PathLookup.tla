------------------------------ MODULE PathLookup ------------------------------
(***************************************************************************)
(* IterLookupHelper of common/utils.cpp: finding the browser iterator of a *)
(* path.  The helper takes one component after the other and explores each *)
(* directory on the way; an exploration is answered by the server later,   *)
(* and while it is under way others may add and remove files.  Between two *)
(* explorations the helper runs without returning to the event loop.       *)
(*                                                                         *)
(* Abstractions.  Names are compared whole.  The library's cache of what   *)
(* has been explored is up to date (others' changes reach it as events).   *)
(***************************************************************************)
EXTENDS FileTree

CONSTANTS
    Paths,          \* the paths looked up
    Trees,          \* what the server may hold at first
    MaxChanges      \* bound: files added or removed during the lookup

\* Only the last component can be empty: the URLs of the callers are clean.
ASSUME PathLookupAssumption ==
    /\ Paths \subseteq Seq(Components)
    /\ \A p \in Paths : p # << >> /\ \A i \in 1 .. Len(p) - 1 : p[i] # Empty
    /\ \A t \in Trees : IsTree(t)
    /\ MaxChanges \in Nat

VARIABLES
    tree,           \* the server's files
    gone,           \* nodes that were removed: no other is ever taken for them
    explored,       \* directories explored before
    path,           \* what is looked up
    remaining,      \* m_remainingComponents, the next one first
    current,        \* m_currentIter
    stage,          \* where the helper is
    changes         \* number of changes so far (for the bound)

lookupVars == <<tree, gone, explored, path, remaining, current, stage, changes>>

\* Faulty: a directory explored before is explored again, with no answer.
ExploreAgain(d) ==
    /\ current' = d
    /\ stage' = IF d \in explored THEN "stuck" ELSE "waiting"

\* A directory that is not explored yet is explored first.  For a file there
\* is no such request, and nothing answers.
explore(d) ==
    /\ current' = d
    /\ stage' = IF d \in explored THEN "scanning"
                  ELSE IF IsDirectory(d) THEN "waiting"
                  ELSE "stuck"

finish(n) == current' = n /\ stage' = "done"

fail(n) == current' = n /\ stage' = "failed"

begin ==
    /\ stage = "created"
    /\ explore(Root)
    /\ UNCHANGED <<tree, gone, explored, path, remaining, changes>>

\* Faulty: the first child is skipped.
ScanFromSecond(siblings, name) ==
    LET found == {n \in ToSet(Tail(siblings)) : NameOf[n] = name}
    IN  IF found = {} THEN Nowhere ELSE CHOOSE n \in found : TRUE

\* Faulty: names are compared only in directories of several.
ScanUnlessOnly(siblings, name) ==
    IF Len(siblings) = 1 THEN siblings[1]
    ELSE LET found == {n \in ToSet(siblings) : NameOf[n] = name}
         IN  IF found = {} THEN Nowhere ELSE CHOOSE n \in found : TRUE

\* The sibling of that name, or none
Scan(siblings, name) ==
    LET found == {n \in ToSet(siblings) : NameOf[n] = name}
    IN  IF found = {} THEN Nowhere ELSE CHOOSE n \in found : TRUE

\* The children of the current directory are compared with the next component.
\* When none has that name the iterator is left on the last of them, and is
\* taken for what a trailing slash names if it is not a directory.
directoryExplored ==
    /\ stage = "scanning"
    /\ remaining' = Tail(remaining)
    /\ LET name     == Head(remaining)
           rest     == Tail(remaining)
           siblings == tree[current]
           found    == Scan(siblings, name)
           reached  == IF found = Nowhere THEN Last(siblings) ELSE found
       IN  \/ name = Empty /\ finish(current)
           \/ name # Empty /\ siblings = << >> /\ fail(current)
           \/ /\ name # Empty /\ siblings # << >>
              /\ IF \/ found # Nowhere /\ rest = << >>
                    \/ rest = <<Empty>> /\ ~IsDirectory(reached)
                 THEN finish(reached)
                 ELSE IF found # Nowhere THEN explore(found)
                 ELSE fail(reached)
    /\ UNCHANGED <<tree, gone, explored, path, changes>>

\* The server answers an exploration.
exploreFinished ==
    /\ stage = "waiting"
    /\ current \in Reachable(tree)
    /\ explored' = explored \cup {current}
    /\ stage' = "scanning"
    /\ UNCHANGED <<tree, gone, path, remaining, current, changes>>

\* An exploration fails, because the directory has gone, say; nobody listens.
exploreFailed ==
    /\ stage = "waiting"
    /\ stage' = "unanswered"
    /\ UNCHANGED <<tree, gone, explored, path, remaining, current, changes>>

nodeAdded(n, d) ==
    /\ stage = "waiting"
    /\ changes < MaxChanges
    /\ n \notin Reachable(tree) \cup gone
    /\ d \in Reachable(tree)
    /\ Named(tree, d, NameOf[n]) = {}
    /\ tree' \in {[tree EXCEPT ![d] = Append(@, n)], [tree EXCEPT ![d] = <<n>> \o @]}
    /\ changes' = changes + 1
    /\ UNCHANGED <<gone, explored, path, remaining, current, stage>>

nodeRemoved(n) ==
    /\ stage = "waiting"
    /\ changes < MaxChanges
    /\ n \in Reachable(tree) \ {Root}
    /\ tree' = Without(tree, n)
    /\ gone' = gone \cup Below(tree, n)
    /\ explored' = explored \cap Reachable(tree')
    /\ changes' = changes + 1
    /\ UNCHANGED <<path, remaining, current, stage>>

LookupInit ==
    /\ tree \in Trees
    /\ gone = {}
    /\ explored \in SUBSET (Directories \cap Reachable(tree))
    /\ path \in Paths
    /\ remaining = path
    /\ current = Root
    /\ stage = "created"
    /\ changes = 0

LookupNext ==
    \/ begin
    \/ directoryExplored
    \/ exploreFinished
    \/ exploreFailed
    \/ \E n \in Nodes \ {Root}, d \in Directories : nodeAdded(n, d)
    \/ \E n \in Nodes \ {Root} : nodeRemoved(n)

LookupSpec == LookupInit /\ [][LookupNext]_lookupVars

\* The helper runs, and the server answers.
LookupFairness ==
    /\ WF_lookupVars(begin)
    /\ WF_lookupVars(directoryExplored)
    /\ WF_lookupVars(exploreFinished \/ exploreFailed)

FairLookupSpec == LookupSpec /\ LookupFairness

-----------------------------------------------------------------------------
(* Properties *)

LookupTypeOK ==
    /\ IsTree(tree)
    /\ gone \subseteq Nodes /\ explored \subseteq Directories
    /\ path \in Paths
    /\ \E taken \in 0 .. Len(path) : remaining = SubSeq(path, taken + 1, Len(path))
    /\ current \in Nodes
    /\ stage \in {"created", "waiting", "scanning", "done", "failed", "stuck", "unanswered"}
    /\ changes \in Nat

\* The node a lookup returns is the one its path names, in the tree as it is at
\* that moment, however the tree changed while the lookup was under way.
FindsWhatIsNamed == stage = "done" => IsNamed(tree, path, current)

\* A lookup fails only when there is no node of that path; it is somewhere in
\* the tree, with an end of the path still to go.
FailsOnlyIfAbsent ==
    LookupTypeOK /\ (stage = "failed" => \A n \in Nodes : ~IsNamed(tree, path, n))

\* A lookup ends, unless an exploration fails or it comes upon a file where it
\* needs a directory.
Ends ==
    <>(\/ stage \in {"done", "failed", "unanswered"}
       \/ stage = "stuck" /\ ~IsDirectory(current))
=============================================================================
