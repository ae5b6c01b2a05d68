--------------------------- MODULE PluginConnections ---------------------------
(***************************************************************************)
(* The connections of the KTextEditor plugin (kte-plugin/ktecollaborative- *)
(* plugin.cpp, common/connection.cpp) and the managed documents that share *)
(* them.  A Connection looks up its host name, opens, and may break; the   *)
(* plugin keeps one per host and port, deletes it when it has broken, and  *)
(* subscribes the documents that wait for it when its browser opens.       *)
(*                                                                         *)
(* The slots connected to a signal run in the order of their connection,   *)
(* and those that are left when a slot deletes the sender do not run.      *)
(*                                                                         *)
(* Abstractions.  What a document does between its subscription and its    *)
(* being ready is the subject of ManagedDocument: here it may become ready *)
(* at any time, or never, for its lookup may hang, its subscription or its *)
(* join be refused, its text not arrive.  Reading through a pointer to a   *)
(* deleted Connection is undefined: the program crashes, or finds no       *)
(* browser and goes on.                                                    *)
(***************************************************************************)
EXTENDS Naturals, Sequences, FiniteSets

CONSTANTS
    Docs,           \* KTextEditor documents
    Hosts,          \* host:port pairs
    HostOf,         \* the host:port of each document's URL
    Conns,          \* identities of Connections, used once (a bound)
    None,           \* the null pointer
    plugin          \* the plugin, as a receiver of signals

ASSUME PluginConnectionsAssumption ==
    /\ HostOf \in [Docs -> Hosts]
    /\ None \notin Conns
    /\ plugin \notin Docs

VARIABLES
    connections,    \* m_connections: the Connection of each host, or None
    conn,           \* what has become of each Connection
    receivers,      \* the slots connected to its disconnected() signal
    managed,        \* the documents in m_managedDocuments
    connection,     \* m_connection of each managed document
    subscribed,     \* m_subscribed of each
    ready,          \* m_ready of each
    readWrite,      \* documents that accept edits
    crashed         \* a deleted Connection was used, with consequences

docs == <<managed, connection, subscribed, ready, readWrite>>
vars == <<connections, conn, receivers, docs, crashed>>

Alive == {"resolving", "unresolved", "opening", "open"}

Dangling(d) == conn[connection[d]] = "deleted"

-----------------------------------------------------------------------------
(* subscribeNewDocuments() asks every managed document for its browser and *)
(* subscribes those that have an open one and are not subscribed yet.      *)
(* "ms" are the managed documents, "cs" their Connections, "st" the states *)
(* of these.                                                               *)

\* Faulty: only the documents that were there before are looked at.
SubscribeOldDocuments(ms, cs, st) ==
    /\ subscribed' = subscribed \cup {d \in managed : st[connection[d]] = "open"}
    /\ crashed' = FALSE

subscribeNewDocuments(ms, cs, st) ==
    \/ /\ \E d \in ms : st[cs[d]] = "deleted"
       /\ crashed' = TRUE
       /\ UNCHANGED subscribed
    \/ /\ crashed' = FALSE
       /\ subscribed' = subscribed \cup {d \in ms : st[cs[d]] = "open"}

\* Faulty: every document gets a Connection of its own.
NeverKnown(h) == None

\* The Connection the table has for a host, or None.
Known(h) == connections[h]

\* A document with an inf: URL is opened.  It shares the Connection of its
\* host, or a new one is made, to which the plugin is connected first.
checkManageDocument(d) ==
    /\ ~crashed
    /\ d \notin managed
    /\ LET h == HostOf[d]
       IN \E c \in Conns :
            /\ \/ /\ Known(h) = c
                  /\ UNCHANGED <<connections, conn>>
                  /\ receivers' = [receivers EXCEPT ![c] = Append(@, d)]
               \/ /\ Known(h) = None
                  /\ conn[c] = "unused"
                  /\ connections' = [connections EXCEPT ![h] = c]
                  /\ conn' = [conn EXCEPT ![c] = "resolving"]
                  /\ receivers' = [receivers EXCEPT ![c] = <<plugin, d>>]
            /\ connection' = [connection EXCEPT ![d] = c]
    /\ managed' = managed \cup {d}
    /\ readWrite' = readWrite \ {d}
    /\ subscribeNewDocuments(managed', connection', conn')
    /\ UNCHANGED ready

\* The host name is found, and the Connection is opened; or it is not, and
\* nobody hears of it.
slotHostnameLookedUp(c) ==
    /\ ~crashed
    /\ conn[c] = "resolving"
    /\ conn' \in {[conn EXCEPT ![c] = "opening"], [conn EXCEPT ![c] = "unresolved"]}
    /\ UNCHANGED <<connections, receivers, docs, crashed>>

\* Faulty: the opening of the browser goes unnoticed.
OpenUnnoticed(c) ==
    /\ ~crashed
    /\ conn[c] = "opening"
    /\ conn' = [conn EXCEPT ![c] = "open"]
    /\ UNCHANGED <<connections, receivers, docs, crashed>>

\* The browser opens.
browserConnected(c) ==
    /\ ~crashed
    /\ conn[c] = "opening"
    /\ conn' = [conn EXCEPT ![c] = "open"]
    /\ subscribeNewDocuments(managed, connection, conn')
    /\ UNCHANGED <<connections, receivers, managed, connection, ready, readWrite>>

\* The documents whose slots run before the plugin's deletes the sender
Told(c) ==
    {receivers[c][i] : i \in {i \in 1 .. Len(receivers[c]) :
        \A j \in 1 .. i : receivers[c][j] # plugin}}

\* Faulty: the Connection is deleted and stays in the table.
LeaveInTable(c) == UNCHANGED connections

\* The entry of a Connection is taken from the table.
Take(c) ==
    connections' = [h \in Hosts |-> IF connections[h] = c THEN None ELSE connections[h]]

\* A Connection breaks: the plugin deletes it and takes it from the table; the
\* documents that are told become read-only.
connectionDisconnected(c) ==
    /\ ~crashed
    /\ conn[c] \in {"opening", "open"}
    /\ conn' = [conn EXCEPT ![c] = "deleted"]
    /\ Take(c)
    /\ readWrite' = readWrite \ Told(c)
    /\ ready' = ready \ Told(c)
    /\ UNCHANGED <<receivers, managed, connection, subscribed, crashed>>

-----------------------------------------------------------------------------
(* The documents *)

\* The session is joined, if it comes to that: the editor opens.
synchronizationComplete(d) ==
    /\ ~crashed
    /\ d \in subscribed \ ready
    /\ conn[connection[d]] = "open"
    /\ ready' = ready \cup {d}
    /\ readWrite' = readWrite \cup {d}
    /\ UNCHANGED <<connections, conn, receivers, managed, connection, subscribed,
                   crashed>>

\* A lookup that failed is repeated: the browser is asked for again.
retrySubscribe(d) ==
    /\ ~crashed
    /\ d \in subscribed \ ready
    /\ Dangling(d)
    /\ crashed' \in BOOLEAN
    /\ UNCHANGED <<connections, conn, receivers, docs>>

\* A document that is deleted has its slots disconnected; it was connected to a
\* Connection once at most.
Without(slots, d) ==
    LET i == CHOOSE i \in DOMAIN slots : slots[i] = d
    IN  IF \A j \in DOMAIN slots : slots[j] # d THEN slots
        ELSE SubSeq(slots, 1, i - 1) \o SubSeq(slots, i + 1, Len(slots))

\* Faulty: the ManagedDocument is deleted and stays in the list.
DeleteUntaken(d) ==
    /\ ~crashed
    /\ d \in managed
    /\ connection' = [connection EXCEPT ![d] = None]
    /\ subscribed' = subscribed \ {d}
    /\ ready' = ready \ {d}
    /\ receivers' = [c \in Conns |-> Without(receivers[c], d)]
    /\ readWrite' \in {readWrite, readWrite \cup {d}}
    /\ UNCHANGED <<connections, conn, managed, crashed>>

\* The document is closed, saved elsewhere or thrown out; its ManagedDocument
\* is deleted, and with it its slots.
removeDocument(d) ==
    /\ ~crashed
    /\ d \in managed
    /\ managed' = managed \ {d}
    /\ connection' = [connection EXCEPT ![d] = None]
    /\ subscribed' = subscribed \ {d}
    /\ ready' = ready \ {d}
    /\ receivers' = [c \in Conns |-> Without(receivers[c], d)]
    /\ readWrite' \in {readWrite, readWrite \cup {d}}
    /\ UNCHANGED <<connections, conn, crashed>>

-----------------------------------------------------------------------------

Init ==
    /\ connections = [h \in Hosts |-> None]
    /\ conn = [c \in Conns |-> "unused"]
    /\ receivers = [c \in Conns |-> << >>]
    /\ managed = {}
    /\ connection = [d \in Docs |-> None]
    /\ subscribed = {}
    /\ ready = {}
    /\ readWrite = Docs
    /\ crashed = FALSE

Next ==
    \/ \E d \in Docs : \/ checkManageDocument(d)
                       \/ synchronizationComplete(d)
                       \/ retrySubscribe(d)
                       \/ removeDocument(d)
    \/ \E c \in Conns : \/ slotHostnameLookedUp(c)
                        \/ browserConnected(c)
                        \/ connectionDisconnected(c)

Spec == Init /\ [][Next]_vars

\* Host names are looked up, and attempts to connect succeed or fail.  Nothing is
\* assumed of the documents.
Fairness ==
    \A c \in Conns :
        /\ WF_vars(slotHostnameLookedUp(c))
        /\ WF_vars(\/ browserConnected(c)
                   \/ conn[c] = "opening" /\ connectionDisconnected(c))

FairSpec == Spec /\ Fairness

-----------------------------------------------------------------------------
(* Properties *)

TypeOK ==
    /\ connections \in [Hosts -> Conns \cup {None}]
    /\ conn \in [Conns -> Alive \cup {"unused", "deleted"}]
    /\ receivers \in [Conns -> Seq(Docs \cup {plugin})]
    /\ managed \subseteq Docs
    /\ connection \in [Docs -> Conns \cup {None}]
    /\ \A d \in managed : connection[d] # None
    /\ ready \subseteq subscribed /\ subscribed \subseteq managed
    /\ readWrite \subseteq Docs
    /\ crashed \in BOOLEAN

\* The table never leads to a deleted Connection, and a Connection that is
\* still alive is the one the table has for the host of its documents: no host
\* has two.
TableIsLive ==
    /\ \A h \in Hosts : connections[h] # None => conn[connections[h]] \in Alive
    /\ \A d \in managed : ~Dangling(d) => connections[HostOf[d]] = connection[d]

\* Whichever comes first, the document or the open browser, the document is
\* subscribed: none waits for an event that has passed.
NoneOverlooked ==
    ~crashed => \A d \in managed : conn[connection[d]] = "open" => d \in subscribed

\* A document that is opened is subscribed in the end, whether the Connection was
\* there, is being made, or is made for another document meanwhile; unless it is
\* let go, the program crashes, its host is not found, or its Connection breaks.
\* (What becomes of a subscribed document is ManagedDocument's Settles.)
IsSubscribed ==
    \A d \in Docs :
        d \in managed ~> \/ d \notin managed \/ d \in subscribed \/ crashed
                         \/ conn[connection[d]] \in {"unresolved", "deleted"}
=============================================================================
