------------------------------- MODULE FileTree -------------------------------
(***************************************************************************)
(* The files and directories of an infinote server, as its clients browse  *)
(* them: an ordered list of children per directory, explored one directory *)
(* at a time.  A tree maps each directory to the sequence of its children. *)
(* A path is the sequence of the components of a slash-separated string,   *)
(* so that a trailing slash shows as a last component that is empty.       *)
(***************************************************************************)
EXTENDS Naturals, Sequences, SequencesExt

CONSTANTS
    Nodes,      \* files and directories
    Directories,\* which nodes are directories
    Root,       \* the root directory
    NameOf,     \* the name of each node but the root
    Components, \* what stands between the slashes of a path
    Empty,      \* the component after a trailing slash
    Nowhere     \* no node

ASSUME FileTreeAssumption ==
    /\ Root \in Directories /\ Directories \subseteq Nodes
    /\ Nowhere \notin Nodes
    /\ Empty \in Components
    /\ \A n \in Nodes \ {Root} : NameOf[n] \in Components \ {Empty}

IsDirectory(n) == n \in Directories

ChildrenOf(tree, d) == ToSet(tree[d])

\* The children of d of that name: at most one
Named(tree, d, name) == {n \in ChildrenOf(tree, d) : NameOf[n] = name}

\* The node n is what the first k components of the path lead to: there is a line
\* of nodes from the root to n, each a child of the one before.
LeadsTo(tree, path, k, n) ==
    \E line \in [0 .. k -> Nodes] :
        /\ line[0] = Root /\ line[k] = n
        /\ \A i \in 1 .. k : /\ line[i - 1] \in Directories
                             /\ line[i] \in Named(tree, line[i - 1], path[i])

\* A trailing slash makes no difference.
Steps(path) == IF path[Len(path)] = Empty THEN Len(path) - 1 ELSE Len(path)

\* The path names the node n.
IsNamed(tree, path, n) == LeadsTo(tree, path, Steps(path), n)

\* A set of nodes with all the children of its directories
Closed(tree, set) == \A d \in set \cap Directories : ChildrenOf(tree, d) \subseteq set

\* The node n and all that is below it: the smallest closed set with n
Below(tree, n) ==
    {m \in Nodes : \A set \in SUBSET Nodes : n \in set /\ Closed(tree, set) => m \in set}

\* The nodes that can be reached from the root
Reachable(tree) == Below(tree, Root)

\* A server keeps a tree, in which siblings have different names; nodes that
\* do not exist have no place in it.
IsTree(tree) ==
    /\ tree \in [Directories -> Seq(Nodes \ {Root})]
    /\ \A d \in Directories : \A i, j \in DOMAIN tree[d] :
           i # j => NameOf[tree[d][i]] # NameOf[tree[d][j]]
    /\ \A d, e \in Directories :
           d # e => ChildrenOf(tree, d) \cap ChildrenOf(tree, e) = {}
    /\ \A d \in Directories : d \notin Reachable(tree) => tree[d] = << >>

\* A list of children without the node n
Delete(list, n) ==
    IF n \in ToSet(list)
    THEN RemoveAt(list, CHOOSE i \in DOMAIN list : list[i] = n)
    ELSE list

\* The tree without n and all that is below it
Without(tree, n) ==
    [d \in Directories |-> IF d \in Below(tree, n) THEN << >> ELSE Delete(tree[d], n)]

=============================================================================
