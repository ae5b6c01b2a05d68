----------------------------- MODULE MCPathLookup -----------------------------
(* Instances of PathLookup for model checking. *)
EXTENDS PathLookup, TLC

CONSTANTS dirA, dirB, fileA, fileB, a, b

MCNameOf == dirA :> a @@ dirB :> b @@ fileA :> a @@ fileB :> b

\* Lists of at most two nodes
Lists == {<< >>} \cup {<<n>> : n \in Nodes \ {Root}}
         \cup {<<m, n>> : m, n \in Nodes \ {Root}}

MCTrees == {t \in [Directories -> Lists] : IsTree(t)}

\* Paths of one or two components
Plain == {<<Empty>>} \cup {<<x>> : x \in {a, b}} \cup {<<x, y>> : x, y \in {a, b}}

\* The same with a trailing slash, as the KIO slave makes them
Slashed == {<<Empty>>} \cup {<<x, Empty>> : x \in {a, b}}
           \cup {<<x, y, Empty>> : x, y \in {a, b}}
=============================================================================
