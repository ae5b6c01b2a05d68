------------------------------ MODULE Opening ------------------------------
(***************************************************************************)
(* What the rest of the plugin sees of the life of a collaborative         *)
(* document: the abstract specification that ManagedDocument implements,   *)
(* and on which the views of the document are built (PluginView).  It      *)
(* leaves out lookups, subscriptions, sessions and retries.                *)
(***************************************************************************)
VARIABLES
    url,      \* "inf", "temp" once saved away, or "closed"
    managed,  \* the plugin keeps a ManagedDocument
    load,     \* loadState() of its InfTextDocument, Unloaded without one
    ready     \* isReady()

document == <<url, managed, load, ready>>

LoadStates == {"Unloaded", "Synchronizing", "Joining", "Complete"}

Init == url = "inf" /\ managed = FALSE /\ load = "Unloaded" /\ ready = FALSE

\* newManagedDocument() is emitted
Manage ==
    /\ ~managed /\ url = "inf"
    /\ managed' = TRUE
    /\ UNCHANGED <<url, load, ready>>

\* loadStateChanged() is emitted
Load ==
    /\ managed
    /\ load' \in LoadStates \ {"Unloaded", "Complete"}
    /\ UNCHANGED <<url, managed, ready>>

\* documentReady() is emitted
Complete ==
    /\ managed /\ load = "Joining"
    /\ load' = "Complete" /\ ready' = TRUE
    /\ UNCHANGED <<url, managed>>

\* The file was not found often enough: the document is unsubscribed, and the
\* user is told, before it is closed
GiveUp ==
    /\ managed
    /\ load' = "Unloaded" /\ ready' = FALSE
    /\ UNCHANGED <<url, managed>>

\* removedManagedDocument() is emitted: the document is saved elsewhere, closed
\* or opened again
Unmanage(next) ==
    /\ managed
    /\ url' = next
    /\ managed' = FALSE /\ load' = "Unloaded" /\ ready' = FALSE

\* Without a ManagedDocument: the user opens it, or an error box still closes it
OpenOrClose ==
    /\ ~managed
    /\ url' \in {"inf", "closed"}
    /\ UNCHANGED <<managed, load, ready>>

Next ==
    \/ Manage \/ Load \/ Complete \/ GiveUp \/ OpenOrClose
    \/ \E next \in {"inf", "temp", "closed"} : Unmanage(next)

Spec == Init /\ [][Next]_document
=============================================================================
