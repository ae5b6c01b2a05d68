------------------------------- MODULE Notifier -------------------------------
(***************************************************************************)
(* The notifier daemon (notifier-module/infinotenotifier.cpp).  It hears   *)
(* over D-Bus which directories are shown by file managers, keeps a        *)
(* connection to their hosts, and announces the changes the server tells   *)
(* it of, so that the views list the directory again.                      *)
(*                                                                         *)
(* Abstractions.  A change is the addition or removal of one file; the     *)
(* popup that may come with an announcement is left out.  Using a browser  *)
(* that was removed is undefined: the daemon crashes, or nothing comes of  *)
(* it.  Connections are never deleted and are numbered as they are made.   *)
(***************************************************************************)
EXTENDS Naturals, FiniteSets

CONSTANTS
    Urls,           \* directories
    Hosts,          \* peers
    HostOf,         \* the peer of each directory
    Conns,          \* identities of Connections, used once (a bound)
    None,           \* the null pointer
    MaxViews,       \* bound: views that show one directory
    MaxChanges      \* bound: files added or removed

ASSUME NotifierAssumption ==
    /\ HostOf \in [Urls -> Hosts]
    /\ None \notin Conns \cup Hosts
    /\ {MaxViews, MaxChanges} \subseteq Nat

VARIABLES
    views,          \* how many views show each directory
    watchedUrls,    \* m_watchedUrls
    peer,           \* the host of each Connection, or None before it is made
    status,         \* what has become of each Connection
    entry,          \* its entry in m_connectionItemMap: an item, null, or none
    hostBrowser,    \* m_hostBrowserMap: the Connection whose browser it is
    exploring,      \* pairs of a Connection and a directory being explored
    explored,       \* pairs of a Connection and a directory it knows
    queue,          \* directories in m_notifyQueue
    stale,          \* directories with changes seen and not yet announced
    changes,        \* number of changes so far (for the bound)
    crashed,
    \* history
    shared,         \* directories that two views have shown at once
    broken,         \* hosts a Connection to which has ended
    doubled,        \* hosts that have had two Connections at once
    closedInSteps   \* a Connection was closing before it was closed

watching == <<views, watchedUrls, shared>>
connecting == <<peer, status, broken, doubled, closedInSteps>>
maps == <<entry, hostBrowser>>
nodes == <<exploring, explored>>
notices == <<queue, stale, changes>>
vars == <<watching, connecting, maps, nodes, notices, crashed>>

UrlsAt(h) == {u \in Urls : HostOf[u] = h}

\* Connections the daemon has an item for, and so a browser
Listed == {c \in Conns : entry[c] = "item"}

-----------------------------------------------------------------------------
(* Directories entered and left *)

\* Faulty: everything is forgotten with one connection.
KeptNone(hs) == {}

\* The URLs that are still watched without connections to the hosts hs.
Kept(hs) == {u \in watchedUrls : HostOf[u] \notin hs}

\* Broken connections are cleaned up first; an entry that is null cannot be.
\* A directory that is not watched yet is explored on the connection there is
\* for its host, or on a new one.
ensureInWatchlist(u) ==
    LET closed == {c \in Conns : entry[c] # "none" /\ status[c] = "closed"}
        kept   == Kept({peer[c] : c \in closed})
        h      == HostOf[u]
        b      == hostBrowser[h]
    IN  \/ /\ \E c \in closed : entry[c] = "null"
           /\ crashed' = TRUE
           /\ UNCHANGED <<watchedUrls, connecting, maps, nodes>>
        \/ /\ \A c \in closed : entry[c] = "item"
           /\ entry' = [c \in Conns |-> IF c \in closed THEN "none" ELSE entry[c]]
           /\ watchedUrls' = kept \cup {u}
           /\ \/ /\ u \in kept
                 /\ UNCHANGED <<connecting, hostBrowser, nodes, crashed>>
              \/ /\ u \notin kept
                 /\ \E c \in Listed \ closed : peer[c] = h
                 /\ b \notin Listed \ closed
                 /\ crashed' \in IF b = None THEN {TRUE} ELSE BOOLEAN
                 /\ UNCHANGED <<connecting, hostBrowser, nodes>>
              \/ /\ u \notin kept
                 /\ b \in Listed \ closed
                 /\ exploring' = IF status[b] = "open" /\ <<b, u>> \notin explored
                                 THEN exploring \cup {<<b, u>>} ELSE exploring
                 /\ UNCHANGED <<connecting, hostBrowser, explored, crashed>>
              \/ /\ u \notin kept
                 /\ \A c \in Listed \ closed : peer[c] # h
                 /\ \E c \in Conns :
                       /\ status[c] = "unused"
                       /\ status' = [status EXCEPT ![c] = "resolving"]
                       /\ peer' = [peer EXCEPT ![c] = h]
                 /\ doubled' = IF \E c \in Conns : peer[c] = h /\ status[c] = "resolving"
                               THEN doubled \cup {h} ELSE doubled
                 /\ UNCHANGED <<broken, closedInSteps, hostBrowser, nodes, crashed>>

\* A view enters the directory, or the KIO slave lists it for one.
enteredDirectory(u) ==
    /\ ~crashed
    /\ \/ views' = views
       \/ views[u] < MaxViews /\ views' = [views EXCEPT ![u] = @ + 1]
    /\ shared' = IF views'[u] > 1 THEN shared \cup {u} ELSE shared
    /\ ensureInWatchlist(u)
    /\ UNCHANGED notices

\* A view leaves the directory.
leftDirectory(u) ==
    /\ ~crashed
    /\ views[u] > 0
    /\ views' = [views EXCEPT ![u] = @ - 1]
    /\ watchedUrls' = watchedUrls \ {u}
    /\ UNCHANGED <<shared, connecting, maps, nodes, notices, crashed>>

-----------------------------------------------------------------------------
(* Connections *)

\* The host is not found; nothing is done about it.
connectionError(c) ==
    /\ ~crashed
    /\ status[c] = "resolving"
    /\ status' = [status EXCEPT ![c] = "unresolved"]
    /\ broken' = broken \cup {peer[c]}
    /\ UNCHANGED <<watching, peer, doubled, closedInSteps, maps, nodes, notices,
                   crashed>>

\* Faulty: the browser is not entered in m_hostBrowserMap.
ReadyUnmapped(c) ==
    /\ ~crashed
    /\ status[c] = "resolving"
    /\ entry' = [entry EXCEPT ![c] = "item"]
    /\ status' = [status EXCEPT ![c] = "opening"]
    /\ UNCHANGED <<watching, peer, broken, doubled, closedInSteps, hostBrowser,
                   nodes, notices, crashed>>

\* The host is found and the connection is opened, which may fail at once.
connectionReady(c) ==
    /\ ~crashed
    /\ status[c] = "resolving"
    /\ entry' = [entry EXCEPT ![c] = "item"]
    /\ hostBrowser' = [hostBrowser EXCEPT ![peer[c]] = c]
    /\ \/ /\ status' = [status EXCEPT ![c] = "opening"]
          /\ UNCHANGED broken
       \/ /\ status' = [status EXCEPT ![c] = "closed"]
          /\ broken' = broken \cup {peer[c]}
    /\ UNCHANGED <<watching, peer, doubled, closedInSteps, nodes, notices, crashed>>

\* The browser opens: what is watched on its host is explored.
connectionEstablished(c) ==
    /\ ~crashed
    /\ status[c] = "opening"
    /\ status' = [status EXCEPT ![c] = "open"]
    /\ exploring' = exploring \cup ({c} \X (watchedUrls \cap UrlsAt(peer[c])))
    /\ UNCHANGED <<watching, peer, broken, doubled, closedInSteps, maps, explored,
                   notices, crashed>>

\* Faulty: the URLs stay watched.
KeepWatching(c) ==
    /\ entry' = [entry EXCEPT ![c] = IF @ = "item" THEN "none" ELSE "null"]
    /\ hostBrowser' = IF entry[c] = "item"
                      THEN [hostBrowser EXCEPT ![peer[c]] = None] ELSE hostBrowser
    /\ exploring' = {p \in exploring : p[1] # c}
    /\ explored' = {p \in explored : p[1] # c}
    /\ UNCHANGED watchedUrls

\* The slot: an item is removed, and with it what is watched on its host.  For
\* a Connection without an item, looking for it makes an entry that is null.
connectionDisconnected(c) ==
    \/ /\ entry[c] = "item"
       /\ entry' = [entry EXCEPT ![c] = "none"]
       /\ hostBrowser' = [hostBrowser EXCEPT ![peer[c]] = None]
       /\ watchedUrls' = Kept({peer[c]})
       /\ exploring' = {p \in exploring : p[1] # c}
       /\ explored' = {p \in explored : p[1] # c}
    \/ /\ entry[c] # "item"
       /\ entry' = [entry EXCEPT ![c] = "null"]
       /\ UNCHANGED <<hostBrowser, watchedUrls, nodes>>

\* The connection ends, at once or in two steps; each of them is signalled and
\* both signals lead to the same slot.
slotStatusChanged(c) ==
    /\ ~crashed
    /\ \/ /\ status[c] \in {"opening", "open"}
          /\ \E s \in {"closing", "closed"} :
                /\ status' = [status EXCEPT ![c] = s]
                /\ closedInSteps' = (closedInSteps \/ s = "closing")
       \/ /\ status[c] = "closing"
          /\ status' = [status EXCEPT ![c] = "closed"]
          /\ UNCHANGED closedInSteps
    /\ broken' = broken \cup {peer[c]}
    /\ connectionDisconnected(c)
    /\ UNCHANGED <<views, shared, peer, doubled, notices, crashed>>

-----------------------------------------------------------------------------
(* Changes *)

\* The server lists a directory, or fails to.
exploreFinished(c, u) ==
    /\ ~crashed
    /\ <<c, u>> \in exploring
    /\ exploring' = exploring \ {<<c, u>>}
    /\ explored' \in {explored, explored \cup {<<c, u>>}}
    /\ UNCHANGED <<watching, connecting, maps, notices, crashed>>

\* Faulty: one of the URLs on the host is queued.
QueueOne(h) ==
    IF watchedUrls \cap UrlsAt(h) = {} THEN {}
    ELSE {CHOOSE u \in watchedUrls \cap UrlsAt(h) : TRUE}

\* Whatever is watched on the host is queued, in every spelling of its URL.
QueuedFor(h) == watchedUrls \cap UrlsAt(h)

\* A file is added or removed.  The server tells those who have explored the
\* directory; while it is being explored the addition is taken for a part of
\* that and ignored.
handleItemChanged(u) ==
    /\ ~crashed
    /\ changes < MaxChanges
    /\ changes' = changes + 1
    /\ \/ /\ \E c \in Listed : status[c] = "open" /\ <<c, u>> \in explored \ exploring
          /\ queue' = queue \cup QueuedFor(HostOf[u])
          /\ stale' = stale \cup (watchedUrls \cap {u})
       \/ /\ \A c \in Listed : status[c] # "open" \/ <<c, u>> \notin explored \ exploring
          /\ UNCHANGED <<queue, stale>>
    /\ UNCHANGED <<watching, connecting, maps, nodes, crashed>>

\* The timer of a queued notification fires: the change is announced.
notificationFired(u) ==
    /\ ~crashed
    /\ u \in queue
    /\ queue' = queue \ {u}
    /\ stale' = stale \ {u}
    /\ UNCHANGED <<watching, connecting, maps, nodes, changes, crashed>>

-----------------------------------------------------------------------------

Init ==
    /\ views = [u \in Urls |-> 0]
    /\ watchedUrls = {}
    /\ peer = [c \in Conns |-> None]
    /\ status = [c \in Conns |-> "unused"]
    /\ entry = [c \in Conns |-> "none"]
    /\ hostBrowser = [h \in Hosts |-> None]
    /\ exploring = {} /\ explored = {}
    /\ queue = {} /\ stale = {}
    /\ changes = 0
    /\ crashed = FALSE
    /\ shared = {} /\ broken = {} /\ doubled = {}
    /\ closedInSteps = FALSE

Next ==
    \/ \E u \in Urls : \/ enteredDirectory(u)
                       \/ leftDirectory(u)
                       \/ handleItemChanged(u)
                       \/ notificationFired(u)
    \/ \E c \in Conns : \/ connectionError(c)
                        \/ connectionReady(c)
                        \/ connectionEstablished(c)
                        \/ slotStatusChanged(c)
    \/ \E c \in Conns, u \in Urls : exploreFinished(c, u)

Spec == Init /\ [][Next]_vars

-----------------------------------------------------------------------------
(* Properties *)

TypeOK ==
    /\ views \in [Urls -> 0 .. MaxViews]
    /\ {watchedUrls, queue, shared} \subseteq SUBSET Urls /\ stale \subseteq Urls
    /\ peer \in [Conns -> Hosts \cup {None}]
    /\ status \in [Conns -> {"unused", "resolving", "unresolved", "opening", "open",
                            "closing", "closed"}]
    /\ entry \in [Conns -> {"none", "null", "item"}]
    /\ hostBrowser \in [Hosts -> Conns \cup {None}]
    /\ exploring \cup explored \subseteq {c \in Conns : status[c] = "open"} \X Urls
    /\ changes \in 0 .. MaxChanges
    /\ {broken, doubled} \subseteq SUBSET Hosts
    /\ {crashed, closedInSteps} \subseteq BOOLEAN

\* A URL that is watched is served: there is a connection to its host or an
\* attempt at one; or the attempt has failed, and will be cleaned up when the
\* next directory is entered, or never, if the host was not found.
WatchedIsServed ==
    TypeOK /\ \A u \in watchedUrls : \E c \in Conns :
        /\ peer[c] = HostOf[u]
        /\ \/ status[c] \in {"resolving", "unresolved", "opening", "open"}
           \/ status[c] = "closed" /\ entry[c] = "item"

\* A directory that is shown is watched, as long as its connection has not
\* ended and no second view has shown it (a view that leaves ends the watch for
\* all of them).
ShownIsWatched ==
    ~crashed =>
        \A u \in Urls : views[u] > 0 /\ u \notin shared /\ HostOf[u] \notin broken
            => u \in watchedUrls

\* A change the daemon has been told of is announced in the end: it stays
\* queued, through the loss of the connection and the end of the watch.
SeenIsQueued == stale \subseteq queue

\* The daemon crashes only when a connection was closed in two steps, which
\* leaves a null entry behind, or when two were made to one host because the
\* name was being looked up, so that the end of one takes the other's browser.
CrashExplained == crashed => closedInSteps \/ doubled # {}
=============================================================================
