---------------------------- MODULE NotifierProofs ----------------------------
(* Theorems about Notifier, for any directories, hosts and connections, and any
   number of views and of changes. *)
EXTENDS Notifier, TLAPS

-----------------------------------------------------------------------------
(* Types *)

Statuses == {"unused", "resolving", "unresolved", "opening", "open", "closing",
             "closed"}

\* TypeOK but for what is explored
Facts ==
    /\ views \in [Urls -> Nat] /\ \A u \in Urls : views[u] <= MaxViews
    /\ watchedUrls \subseteq Urls /\ queue \subseteq Urls
    /\ shared \subseteq Urls /\ stale \subseteq Urls
    /\ peer \in [Conns -> Hosts \cup {None}]
    /\ status \in [Conns -> Statuses]
    /\ entry \in [Conns -> {"none", "null", "item"}]
    /\ hostBrowser \in [Hosts -> Conns \cup {None}]
    /\ changes \in Nat /\ changes <= MaxChanges
    /\ broken \subseteq Hosts /\ doubled \subseteq Hosts
    /\ crashed \in BOOLEAN /\ closedInSteps \in BOOLEAN

\* What is explored is explored on an open connection.
Explores ==
    \A p \in exploring \cup explored :
        p \in Conns \X Urls /\ status[p[1]] = "open"

\* Together they say that the types are right.
LEMMA TypeFacts == Facts /\ Explores => TypeOK
  BY NotifierAssumption DEF Facts, Explores, Statuses, TypeOK

-----------------------------------------------------------------------------
(* The inductive invariant *)

\* An item is there while the connection is; the null entry is what the second
\* signal of an end in two steps leaves behind.
Entries ==
    \A c \in Conns :
        /\ status[c] = "unused" <=> peer[c] = None
        /\ status[c] \in {"opening", "open"} => entry[c] = "item"
        /\ entry[c] = "item" => status[c] \in {"opening", "open", "closed"}
        /\ entry[c] = "null" => status[c] = "closed" /\ closedInSteps
        /\ status[c] = "closing" => closedInSteps

\* m_hostBrowserMap names a browser of the host.
Browsers ==
    \A h \in Hosts : hostBrowser[h] # None => peer[hostBrowser[h]] = h

\* The connection that is there, or will be, for its host
Live(c) == status[c] = "resolving" \/ entry[c] = "item"

\* Without two connections to a host at once, there is one, and it is the one
\* in m_hostBrowserMap.
Single ==
    doubled = {} =>
        /\ \A c, d \in Conns : peer[c] = peer[d] /\ Live(c) /\ Live(d) => c = d
        /\ \A c \in Listed : hostBrowser[peer[c]] = c

Serving(c) ==
    \/ status[c] \in {"resolving", "unresolved", "opening", "open"}
    \/ status[c] = "closed" /\ entry[c] = "item"

Served ==
    \A u \in watchedUrls : \E c \in Conns : peer[c] = HostOf[u] /\ Serving(c)

\* The history keeps what the maps have forgotten.
History ==
    /\ \A u \in Urls : views[u] > 1 => u \in shared
    /\ \A c \in Conns :
          status[c] \in {"unresolved", "closing", "closed"} => peer[c] \in broken

IInv ==
    /\ Facts /\ Explores /\ Entries /\ Browsers /\ Single /\ Served
    /\ History /\ ShownIsWatched /\ SeenIsQueued /\ CrashExplained

\* It holds at the start.
LEMMA InvInitial == Init => IInv
<1> SUFFICES ASSUME Init PROVE IInv
  OBVIOUS
<1>1. Facts
  <2>1. 0 <= MaxViews /\ 0 <= MaxChanges
    BY NotifierAssumption
  <2> QED
    BY <2>1 DEF Init, Facts, Statuses
<1> QED
  BY <1>1 DEF Init, IInv, Explores, Entries, Browsers, Single, Listed, Served,
     History, ShownIsWatched, SeenIsQueued, CrashExplained, Live

-----------------------------------------------------------------------------
(* Entering a directory *)

\* Connections to be cleaned up
Closed == {c \in Conns : entry[c] # "none" /\ status[c] = "closed"}

\* What ensureInWatchlist() does: it stumbles over a null entry; or it cleans
\* up, and then the directory is on a connection that is not closed, or there
\* is none to its host and one is made.
LEMMA Entering ==
    ASSUME IInv, ~crashed, NEW u \in Urls, ensureInWatchlist(u)
    PROVE  \/ /\ closedInSteps /\ crashed' = TRUE
              /\ UNCHANGED <<watchedUrls, connecting, maps, nodes>>
           \/ /\ entry' = [c \in Conns |-> IF c \in Closed THEN "none" ELSE entry[c]]
              /\ watchedUrls' = Kept({peer[c] : c \in Closed}) \cup {u}
              /\ UNCHANGED <<broken, closedInSteps, hostBrowser, explored>>
              /\ \/ /\ UNCHANGED <<peer, status, doubled>>
                    /\ \E c \in Conns \ Closed : peer[c] = HostOf[u] /\ Serving(c)
                    /\ crashed' \in BOOLEAN /\ (crashed' => doubled # {})
                    /\ \A p \in exploring' :
                          \/ p \in exploring
                          \/ p \in Conns \X Urls /\ status[p[1]] = "open"
                 \/ /\ \A c \in Listed \ Closed : peer[c] # HostOf[u]
                    /\ UNCHANGED <<exploring, crashed>>
                    /\ \E c \in Conns :
                          /\ status[c] = "unused"
                          /\ status' = [status EXCEPT ![c] = "resolving"]
                          /\ peer' = [peer EXCEPT ![c] = HostOf[u]]
                    /\ doubled' = IF \E c \in Conns : /\ peer[c] = HostOf[u]
                                                      /\ status[c] = "resolving"
                                  THEN doubled \cup {HostOf[u]} ELSE doubled
<1> DEFINE closed == Closed
           kept == Kept({peer[c] : c \in closed})
           h == HostOf[u]
           b == hostBrowser[h]
<1>1. h \in Hosts /\ b \in Conns \cup {None}
  BY NotifierAssumption DEF IInv, Facts
<1>2. \A c \in Listed \ closed : status[c] \in {"opening", "open"} /\ Serving(c)
  BY DEF IInv, Entries, Listed, Closed, Serving
<1>3. CASE /\ \E c \in closed : entry[c] = "null"
           /\ crashed' = TRUE
           /\ UNCHANGED <<watchedUrls, connecting, maps, nodes>>
  <2>1. closedInSteps
    BY <1>3 DEF IInv, Entries, Closed
  <2> QED
    BY <1>3, <2>1
<1>4. CASE /\ entry' = [c \in Conns |-> IF c \in closed THEN "none" ELSE entry[c]]
           /\ watchedUrls' = kept \cup {u}
           /\ u \in kept
           /\ UNCHANGED <<connecting, hostBrowser, nodes, crashed>>
  <2>1. PICK c \in Conns : peer[c] = h /\ Serving(c)
    BY <1>4 DEF IInv, Served, Kept
  <2>2. c \notin closed
    BY <1>4, <2>1 DEF Kept
  <2>3. crashed' \in BOOLEAN /\ ~crashed'
    <3>1. crashed \in BOOLEAN
      BY DEF IInv, Facts
    <3> QED
      BY <1>4, <3>1
  <2> QED
    BY <1>4, <2>1, <2>2, <2>3 DEF connecting, nodes
<1>5. CASE /\ entry' = [c \in Conns |-> IF c \in closed THEN "none" ELSE entry[c]]
           /\ watchedUrls' = kept \cup {u}
           /\ \E c \in Listed \ closed : peer[c] = h
           /\ b \notin Listed \ closed
           /\ crashed' \in IF b = None THEN {TRUE} ELSE BOOLEAN
           /\ UNCHANGED <<connecting, hostBrowser, nodes>>
  <2>1. PICK c \in Listed \ closed : peer[c] = h
    BY <1>5
  <2>2. doubled # {}
    BY <1>5, <2>1 DEF IInv, Single
  <2>3. c \in Conns \ Closed /\ Serving(c)
    BY <1>2, <2>1 DEF Listed
  <2>4. crashed' \in BOOLEAN
    BY <1>5
  <2> QED
    BY <1>5, <2>1, <2>2, <2>3, <2>4 DEF connecting, nodes
<1>6. CASE /\ entry' = [c \in Conns |-> IF c \in closed THEN "none" ELSE entry[c]]
           /\ watchedUrls' = kept \cup {u}
           /\ b \in Listed \ closed
           /\ exploring' = IF status[b] = "open" /\ <<b, u>> \notin explored
                           THEN exploring \cup {<<b, u>>} ELSE exploring
           /\ UNCHANGED <<connecting, hostBrowser, explored, crashed>>
  <2>1. b \in Conns \ Closed /\ Serving(b)
    BY <1>2, <1>6 DEF Listed
  <2>2. peer[b] = h
    BY <1>1, <2>1, NotifierAssumption DEF IInv, Browsers
  <2>3. \A p \in exploring' : \/ p \in exploring
                              \/ p \in Conns \X Urls /\ status[p[1]] = "open"
    BY <1>6, <2>1
  <2>4. crashed' \in BOOLEAN /\ ~crashed'
    <3>1. crashed \in BOOLEAN
      BY DEF IInv, Facts
    <3> QED
      BY <1>6, <3>1
  <2> QED
    BY <1>6, <2>1, <2>2, <2>3, <2>4 DEF connecting
<1>7. CASE /\ entry' = [c \in Conns |-> IF c \in closed THEN "none" ELSE entry[c]]
           /\ watchedUrls' = kept \cup {u}
           /\ \A c \in Listed \ closed : peer[c] # h
           /\ \E c \in Conns :
                 /\ status[c] = "unused"
                 /\ status' = [status EXCEPT ![c] = "resolving"]
                 /\ peer' = [peer EXCEPT ![c] = h]
           /\ doubled' = IF \E c \in Conns : peer[c] = h /\ status[c] = "resolving"
                         THEN doubled \cup {h} ELSE doubled
           /\ UNCHANGED <<broken, closedInSteps, hostBrowser, nodes, crashed>>
  BY <1>7 DEF nodes
<1> QED
  BY <1>3, <1>4, <1>5, <1>6, <1>7 DEF ensureInWatchlist, Closed

\* Entering a directory keeps the invariant.
LEMMA EnteringKeeps ==
    ASSUME IInv, NEW u \in Urls, enteredDirectory(u)
    PROVE  IInv'
<1>1. /\ ~crashed /\ ensureInWatchlist(u)
      /\ shared' = IF views'[u] > 1 THEN shared \cup {u} ELSE shared
      /\ UNCHANGED notices
      /\ Facts /\ Explores /\ Entries /\ Browsers /\ Single /\ Served /\ History
      /\ ShownIsWatched /\ SeenIsQueued
  BY DEF enteredDirectory, IInv
<1>2. /\ views' \in [Urls -> Nat] /\ \A w \in Urls : views'[w] <= MaxViews
      /\ \A w \in Urls \ {u} : views'[w] = views[w]
      /\ shared' \subseteq Urls /\ shared \subseteq shared'
      /\ (\A w \in Urls : views'[w] > 1 => w \in shared')
  <2>1. CASE views' = views
    BY <1>1, <2>1 DEF Facts, History
  <2>2. CASE views[u] < MaxViews /\ views' = [views EXCEPT ![u] = @ + 1]
    BY <1>1, <2>2, NotifierAssumption DEF Facts, History
  <2> QED
    BY <2>1, <2>2 DEF enteredDirectory
<1>3. queue' = queue /\ stale' = stale /\ changes' = changes /\ SeenIsQueued'
  BY <1>1 DEF notices, SeenIsQueued
<1>4. CASE /\ closedInSteps /\ crashed' = TRUE
           /\ UNCHANGED <<watchedUrls, connecting, maps, nodes>>
  <2> USE DEF connecting, maps, nodes
  <2>1. Facts'
    BY <1>1, <1>2, <1>3, <1>4 DEF Facts
  <2>2. (Explores /\ Entries /\ Browsers)'
    BY <1>1, <1>4 DEF Explores, Entries, Browsers
  <2>3. (Single /\ Served)'
    BY <1>1, <1>4 DEF Single, Served, Serving, Listed, Live
  <2>4. (History /\ ShownIsWatched /\ CrashExplained)'
    BY <1>1, <1>2, <1>4 DEF History, ShownIsWatched, CrashExplained
  <2> QED
    BY <1>3, <2>1, <2>2, <2>3, <2>4 DEF IInv
<1>5. CASE /\ entry' = [c \in Conns |-> IF c \in Closed THEN "none" ELSE entry[c]]
           /\ watchedUrls' = Kept({peer[c] : c \in Closed}) \cup {u}
           /\ UNCHANGED <<broken, closedInSteps, hostBrowser, explored>>
           /\ UNCHANGED <<peer, status, doubled>>
           /\ \E c \in Conns \ Closed : peer[c] = HostOf[u] /\ Serving(c)
           /\ crashed' \in BOOLEAN /\ (crashed' => doubled # {})
           /\ \A p \in exploring' :
                 \/ p \in exploring
                 \/ p \in Conns \X Urls /\ status[p[1]] = "open"
  <2>1. Facts'
    BY <1>1, <1>2, <1>3, <1>5 DEF Facts, Kept
  <2>2. (Explores /\ Browsers)'
    BY <1>1, <1>5 DEF Explores, Browsers
  <2>3. Entries'
    BY <1>1, <1>5 DEF Entries, Closed, Facts
  <2>4. Single'
    BY <1>1, <1>5 DEF Single, Listed, Live
  <2>5. \A c \in Conns \ Closed : Serving(c) => Serving(c)'
    BY <1>5 DEF Serving
  <2>6. ASSUME NEW w \in watchedUrls'
        PROVE  \E c \in Conns : peer'[c] = HostOf[w] /\ Serving(c)'
    <3>1. CASE w = u
      BY <1>5, <2>5, <3>1
    <3>2. CASE w # u
      <4>1. w \in watchedUrls /\ \A c \in Closed : peer[c] # HostOf[w]
        BY <1>5, <3>2 DEF Kept
      <4>2. PICK c \in Conns : peer[c] = HostOf[w] /\ Serving(c)
        BY <1>1, <4>1 DEF Served
      <4> QED
        BY <1>5, <2>5, <4>1, <4>2
    <3> QED
      BY <3>1, <3>2
  <2>7. Served'
    BY <1>5, <2>6 DEF Served, Serving
  <2>8. (History /\ CrashExplained)'
    BY <1>1, <1>2, <1>5 DEF History, CrashExplained
  <2>9. ShownIsWatched'
    BY <1>1, <1>2, <1>5 DEF ShownIsWatched, Kept, History, Closed
  <2> QED
    BY <1>3, <2>1, <2>2, <2>3, <2>4, <2>7, <2>8, <2>9 DEF IInv
<1>6. ASSUME entry' = [c \in Conns |-> IF c \in Closed THEN "none" ELSE entry[c]],
             watchedUrls' = Kept({peer[c] : c \in Closed}) \cup {u},
             UNCHANGED <<broken, closedInSteps, hostBrowser, explored>>,
             \A c \in Listed \ Closed : peer[c] # HostOf[u],
             UNCHANGED <<exploring, crashed>>,
             NEW e \in Conns, status[e] = "unused",
             status' = [status EXCEPT ![e] = "resolving"],
             peer' = [peer EXCEPT ![e] = HostOf[u]],
             doubled' = IF \E c \in Conns : /\ peer[c] = HostOf[u]
                                            /\ status[c] = "resolving"
                        THEN doubled \cup {HostOf[u]} ELSE doubled
      PROVE  IInv'
  <2>1. /\ HostOf[u] \in Hosts /\ peer[e] = None /\ e \notin Closed
        /\ entry[e] = "none"
    BY <1>1, <1>6, NotifierAssumption DEF Entries, Closed, Facts
  <2>2. Facts'
    <3>1. doubled' \subseteq Hosts
      BY <1>1, <1>6, <2>1 DEF Facts
    <3>2. peer' \in [Conns -> Hosts \cup {None}] /\ status' \in [Conns -> Statuses]
      BY <1>1, <1>6, <2>1 DEF Facts, Statuses
    <3> QED
      BY <1>1, <1>2, <1>3, <1>6, <3>1, <3>2 DEF Facts, Kept
  <2>3. Explores'
    BY <1>1, <1>6 DEF Explores, Facts
  <2>4. Browsers'
    BY <1>1, <1>6, <2>1, NotifierAssumption DEF Browsers, Facts
  <2>5. Entries'
    <3>1. peer'[e] # None /\ status'[e] = "resolving" /\ entry'[e] = "none"
      BY <1>1, <1>6, <2>1, NotifierAssumption DEF Facts
    <3>2. \A c \in Conns \ {e} : peer'[c] = peer[c] /\ status'[c] = status[c]
      BY <1>1, <1>6 DEF Facts
    <3>3. \A c \in Conns : entry'[c] = IF c \in Closed THEN "none" ELSE entry[c]
      BY <1>6
    <3> QED
      BY <1>1, <1>6, <3>1, <3>2, <3>3 DEF Entries, Closed
  <2>6. Single'
    <3> SUFFICES ASSUME doubled' = {}
                 PROVE  /\ \A c, d \in Conns : peer'[c] = peer'[d] /\ Live(c)' /\ Live(d)'
                              => c = d
                        /\ \A c \in Listed' : hostBrowser'[peer'[c]] = c
      BY <1>6 DEF Single, Live, Listed
    <3>1. /\ doubled = {}
          /\ \A c \in Conns : peer[c] = HostOf[u] => status[c] # "resolving"
      BY <1>6
    <3>2. \A c \in Conns \ {e} : (Live(c)' => Live(c)) /\ peer'[c] = peer[c]
      BY <1>1, <1>6 DEF Live, Facts
    <3>3. \A c \in Conns \ {e} : peer[c] = HostOf[u] => ~Live(c)'
      BY <1>1, <1>6, <3>1 DEF Live, Facts, Listed
    <3>4. peer'[e] = HostOf[u] /\ e \notin Listed'
      BY <1>1, <1>6, <2>1 DEF Facts, Listed
    <3>5. \A c, d \in Conns \ {e} : peer[c] = peer[d] /\ Live(c) /\ Live(d) => c = d
      BY <1>1, <3>1 DEF Single
    <3>6. \A c \in Listed' : c \in Listed
      BY <1>1, <1>6, <3>4 DEF Listed, Facts
    <3>7. \A c \in Listed' : hostBrowser'[peer'[c]] = c
      BY <1>1, <1>6, <3>1, <3>2, <3>4, <3>6 DEF Single, Listed
    <3> QED
      BY <3>2, <3>3, <3>4, <3>5, <3>7
  <2>7. \A c \in Conns \ Closed : Serving(c) => Serving(c)' /\ peer'[c] = peer[c]
    BY <1>1, <1>6, <2>1 DEF Serving, Facts
  <2>8. Serving(e)' /\ peer'[e] = HostOf[u]
    BY <1>1, <1>6 DEF Serving, Facts
  <2>9. ASSUME NEW w \in watchedUrls'
        PROVE  \E c \in Conns : peer'[c] = HostOf[w] /\ Serving(c)'
    <3>1. CASE w = u
      BY <2>8, <3>1
    <3>2. CASE w # u
      <4>1. w \in watchedUrls /\ \A c \in Closed : peer[c] # HostOf[w]
        BY <1>6, <3>2 DEF Kept
      <4>2. PICK c \in Conns : peer[c] = HostOf[w] /\ Serving(c)
        BY <1>1, <4>1 DEF Served
      <4> QED
        BY <2>7, <4>1, <4>2
    <3> QED
      BY <3>1, <3>2
  <2>10. Served'
    BY <2>9 DEF Served
  <2>11. (History /\ CrashExplained)'
    BY <1>1, <1>2, <1>6, <2>1 DEF History, CrashExplained, Facts
  <2>12. ShownIsWatched'
    BY <1>1, <1>2, <1>6 DEF ShownIsWatched, Kept, History, Closed
  <2> QED
    BY <1>3, <2>2, <2>3, <2>4, <2>5, <2>6, <2>10, <2>11, <2>12 DEF IInv
<1> QED
  BY <1>1, <1>4, <1>5, <1>6, Entering

-----------------------------------------------------------------------------
(* Every step keeps the invariant *)

\* A connection comes to be or fails before anything is explored on it.
LEMMA ConnectingKeeps ==
    ASSUME IInv, NEW c \in Conns,
           connectionError(c) \/ connectionReady(c) \/ connectionEstablished(c)
    PROVE  IInv'
<1> USE DEF watching, nodes, notices
<1>1. /\ Facts /\ Explores /\ Entries /\ Browsers /\ Single /\ Served /\ History
      /\ ShownIsWatched /\ SeenIsQueued /\ CrashExplained
  BY DEF IInv
<1>2. CASE connectionError(c)
  <2>1. peer[c] \in Hosts /\ entry[c] = "none"
    BY <1>1, <1>2 DEF connectionError, Entries, Facts
  <2>2. Facts'
    BY <1>1, <1>2, <2>1 DEF connectionError, Facts, Statuses, maps
  <2>3. (Explores /\ Browsers /\ SeenIsQueued)'
    BY <1>1, <1>2 DEF connectionError, Explores, Browsers, Facts, maps, SeenIsQueued
  <2>4. (Entries /\ History)'
    BY <1>1, <1>2 DEF connectionError, Entries, History, Facts, maps
  <2>5. (Single /\ Served)'
    BY <1>1, <1>2 DEF connectionError, Single, Served, Serving, Live, Listed, Facts, maps
  <2>6. (ShownIsWatched /\ CrashExplained)'
    BY <1>1, <1>2 DEF connectionError, ShownIsWatched, CrashExplained
  <2> QED
    BY <2>2, <2>3, <2>4, <2>5, <2>6 DEF IInv
<1>3. CASE connectionReady(c)
  <2>1. /\ status[c] = "resolving" /\ peer[c] \in Hosts /\ ~crashed
        /\ entry' = [entry EXCEPT ![c] = "item"]
        /\ hostBrowser' = [hostBrowser EXCEPT ![peer[c]] = c]
        /\ status' \in [Conns -> Statuses]
        /\ status'[c] \in {"opening", "closed"}
        /\ \A d \in Conns \ {c} : status'[d] = status[d]
        /\ broken' \subseteq Hosts /\ broken \subseteq broken'
        /\ status'[c] = "closed" => peer[c] \in broken'
        /\ UNCHANGED <<watching, peer, doubled, closedInSteps, nodes, notices, crashed>>
    BY <1>1, <1>3 DEF connectionReady, Entries, Facts, Statuses
  <2>2. Facts'
    BY <1>1, <2>1 DEF Facts
  <2>3. (Explores /\ SeenIsQueued)'
    BY <1>1, <2>1 DEF Explores, SeenIsQueued
  <2>4. Browsers'
    BY <1>1, <2>1 DEF Browsers, Facts
  <2>5. (Entries /\ History)'
    BY <1>1, <2>1 DEF Entries, History, Facts
  <2>6. Single'
    <3> SUFFICES ASSUME doubled = {}
                 PROVE  /\ \A d, e \in Conns : peer[d] = peer[e] /\ Live(d)' /\ Live(e)'
                              => d = e
                        /\ \A d \in Listed' : hostBrowser'[peer[d]] = d
      BY <2>1 DEF Single
    <3>1. \A d \in Conns : Live(d)' => Live(d)
      BY <1>1, <2>1 DEF Live, Facts
    <3>2. \A d, e \in Conns : peer[d] = peer[e] /\ Live(d) /\ Live(e) => d = e
      BY <1>1 DEF Single
    <3>3. \A d \in Listed' \ {c} : d \in Listed /\ peer[d] # peer[c]
      BY <1>1, <2>1, <3>2 DEF Listed, Live, Facts
    <3>4. \A d \in Listed' : hostBrowser'[peer[d]] = d
      <4>1. \A d \in Listed : peer[d] \in Hosts
        BY <1>1 DEF Entries, Facts, Listed
      <4> QED
        BY <1>1, <2>1, <3>3, <4>1 DEF Single, Facts, Listed
    <3> QED
      BY <3>1, <3>2, <3>4
  <2>7. Served'
    BY <1>1, <2>1 DEF Served, Serving, Facts
  <2>8. (ShownIsWatched /\ CrashExplained)'
    BY <1>1, <2>1 DEF ShownIsWatched, CrashExplained
  <2> QED
    BY <2>2, <2>3, <2>4, <2>5, <2>6, <2>7, <2>8 DEF IInv
<1>4. CASE connectionEstablished(c)
  <2>1. /\ status[c] = "opening" /\ status' = [status EXCEPT ![c] = "open"]
        /\ exploring' = exploring \cup ({c} \X (watchedUrls \cap UrlsAt(peer[c])))
        /\ explored' = explored
        /\ UNCHANGED <<watching, peer, broken, doubled, closedInSteps, maps,
                       notices, crashed>>
    BY <1>4 DEF connectionEstablished
  <2>2. Facts'
    BY <1>1, <2>1 DEF Facts, Statuses, maps
  <2>3. Explores'
    BY <1>1, <2>1 DEF Explores, Facts
  <2>4. (Browsers /\ SeenIsQueued)'
    BY <1>1, <2>1 DEF Browsers, SeenIsQueued, maps
  <2>5. (Entries /\ History)'
    BY <1>1, <2>1 DEF Entries, History, Facts, maps
  <2>6. (Single /\ Served)'
    BY <1>1, <2>1 DEF Single, Served, Serving, Live, Listed, Facts, maps
  <2>7. (ShownIsWatched /\ CrashExplained)'
    BY <1>1, <2>1 DEF ShownIsWatched, CrashExplained
  <2> QED
    BY <2>2, <2>3, <2>4, <2>5, <2>6, <2>7 DEF IInv
<1> QED
  BY <1>2, <1>3, <1>4

\* The end of a connection takes the watch with it.
LEMMA EndingKeeps ==
    ASSUME IInv, NEW c \in Conns, slotStatusChanged(c)
    PROVE  IInv'
<1>1. /\ Facts /\ Explores /\ Entries /\ Browsers /\ Single /\ Served /\ History
      /\ ShownIsWatched /\ SeenIsQueued /\ CrashExplained
  BY DEF IInv
<1>2. /\ ~crashed /\ status[c] \in {"opening", "open", "closing"}
      /\ status' \in [Conns -> Statuses]
      /\ status'[c] \in {"closing", "closed"}
      /\ \A d \in Conns \ {c} : status'[d] = status[d]
      /\ broken' = broken \cup {peer[c]} /\ peer[c] \in Hosts
      /\ UNCHANGED <<views, shared, peer, doubled, notices, crashed>>
  BY <1>1 DEF slotStatusChanged, Facts, Entries, Statuses
<1>3. /\ closedInSteps' \in BOOLEAN /\ (closedInSteps => closedInSteps')
      /\ status'[c] = "closing" \/ status[c] = "closing" => closedInSteps'
  <2>1. CASE /\ status[c] \in {"opening", "open"}
             /\ \E s \in {"closing", "closed"} :
                   /\ status' = [status EXCEPT ![c] = s]
                   /\ closedInSteps' = (closedInSteps \/ s = "closing")
    <3>1. PICK s \in {"closing", "closed"} :
             /\ status' = [status EXCEPT ![c] = s]
             /\ closedInSteps' = (closedInSteps \/ s = "closing")
      BY <2>1
    <3>2. status'[c] = s
      BY <1>1, <3>1 DEF Facts
    <3> QED
      BY <2>1, <3>1, <3>2
  <2>2. CASE /\ status[c] = "closing"
             /\ status' = [status EXCEPT ![c] = "closed"]
             /\ UNCHANGED closedInSteps
    <3>1. closedInSteps
      BY <1>1, <2>2 DEF Entries
    <3>2. status'[c] = "closed"
      BY <1>1, <2>2 DEF Facts
    <3> QED
      BY <1>1, <2>2, <3>1, <3>2 DEF Facts
  <2> QED
    BY <2>1, <2>2 DEF slotStatusChanged
<1>4. (SeenIsQueued /\ CrashExplained)'
  BY <1>1, <1>2 DEF notices, SeenIsQueued, CrashExplained
<1>5. CASE /\ entry[c] = "item"
           /\ entry' = [entry EXCEPT ![c] = "none"]
           /\ hostBrowser' = [hostBrowser EXCEPT ![peer[c]] = None]
           /\ watchedUrls' = Kept({peer[c]})
           /\ exploring' = {p \in exploring : p[1] # c}
           /\ explored' = {p \in explored : p[1] # c}
  <2>1. Facts'
    BY <1>1, <1>2, <1>3, <1>5 DEF Facts, Kept, notices
  <2>2. Explores'
    BY <1>1, <1>2, <1>5 DEF Explores
  <2>3. Entries'
    BY <1>1, <1>2, <1>3, <1>5 DEF Entries, Facts
  <2>4. Browsers'
    BY <1>1, <1>2, <1>5 DEF Browsers, Facts
  <2>5. Single'
    <3> SUFFICES ASSUME doubled = {}
                 PROVE  /\ \A d, e \in Conns : peer[d] = peer[e] /\ Live(d)' /\ Live(e)'
                              => d = e
                        /\ \A d \in Listed' : hostBrowser'[peer[d]] = d
      BY <1>2 DEF Single
    <3>1. \A d \in Conns : Live(d)' => Live(d) /\ d # c
      BY <1>1, <1>2, <1>5 DEF Live, Facts
    <3>2. \A d, e \in Conns : peer[d] = peer[e] /\ Live(d) /\ Live(e) => d = e
      BY <1>1 DEF Single
    <3>3. \A d \in Listed' : d \in Listed /\ peer[d] # peer[c]
      BY <1>1, <1>5, <3>2 DEF Listed, Live, Facts
    <3>4. \A d \in Listed' : hostBrowser'[peer[d]] = d
      <4>1. \A d \in Listed : peer[d] \in Hosts
        BY <1>1 DEF Entries, Facts, Listed
      <4> QED
        BY <1>1, <1>5, <3>3, <4>1 DEF Single, Facts
    <3> QED
      BY <3>1, <3>2, <3>4
  <2>6. Served'
    <3>1. \A d \in Conns \ {c} : Serving(d) => Serving(d)'
      BY <1>1, <1>2, <1>5 DEF Serving, Facts
    <3> QED
      BY <1>1, <1>2, <1>5, <3>1 DEF Served, Kept
  <2>7. (History /\ ShownIsWatched)'
    BY <1>1, <1>2, <1>5 DEF History, ShownIsWatched, Kept
  <2> QED
    BY <1>4, <2>1, <2>2, <2>3, <2>4, <2>5, <2>6, <2>7 DEF IInv
<1>6. CASE /\ entry[c] # "item"
           /\ entry' = [entry EXCEPT ![c] = "null"]
           /\ UNCHANGED <<hostBrowser, watchedUrls, nodes>>
  <2>1. status[c] = "closing"
    BY <1>1, <1>2, <1>6 DEF Entries
  <2>2. Facts'
    BY <1>1, <1>2, <1>3, <1>6 DEF Facts, notices
  <2>3. Explores'
    BY <1>1, <1>2, <1>6, <2>1 DEF Explores, nodes
  <2>4. status'[c] = "closed"
    BY <1>1, <2>1 DEF slotStatusChanged, Facts
  <2>5. Entries'
    BY <1>1, <1>2, <1>3, <1>6, <2>1, <2>4 DEF Entries, Facts
  <2>6. Browsers'
    BY <1>1, <1>2, <1>6 DEF Browsers
  <2>7. Single'
    <3>1. \A d \in Conns : Live(d)' => Live(d)
      BY <1>1, <1>2, <1>6 DEF Live, Facts
    <3>2. \A d \in Listed' : d \in Listed
      BY <1>1, <1>6 DEF Listed, Facts
    <3> QED
      BY <1>1, <1>2, <1>6, <3>1, <3>2 DEF Single
  <2>8. Served'
    <3>1. \A d \in Conns : Serving(d) => Serving(d)'
      BY <1>1, <1>2, <1>6, <2>1 DEF Serving, Facts
    <3> QED
      BY <1>1, <1>2, <1>6, <3>1 DEF Served
  <2>9. (History /\ ShownIsWatched)'
    BY <1>1, <1>2, <1>6 DEF History, ShownIsWatched
  <2> QED
    BY <1>4, <2>2, <2>3, <2>5, <2>6, <2>7, <2>8, <2>9 DEF IInv
<1> QED
  BY <1>5, <1>6 DEF slotStatusChanged, connectionDisconnected

\* One case for each thing that may happen.
LEMMA InvInductive == IInv /\ [Next]_vars => IInv'
<1> SUFFICES ASSUME IInv, [Next]_vars PROVE IInv'
  OBVIOUS
<1> USE DEF watching, connecting, maps, nodes, notices
<1>1. /\ Facts /\ Explores /\ Entries /\ Browsers /\ Single /\ Served /\ History
      /\ ShownIsWatched /\ SeenIsQueued /\ CrashExplained
  BY DEF IInv
<1>2. ASSUME NEW u \in Urls, leftDirectory(u)
      PROVE  IInv'
  <2>1. /\ views[u] > 0 /\ views' = [views EXCEPT ![u] = @ - 1]
        /\ watchedUrls' = watchedUrls \ {u}
        /\ UNCHANGED <<shared, connecting, maps, nodes, notices, crashed>>
    BY <1>2 DEF leftDirectory
  <2>2. Facts'
    BY <1>1, <2>1, NotifierAssumption DEF Facts
  <2>3. (Explores /\ Entries /\ Browsers /\ SeenIsQueued /\ CrashExplained)'
    BY <1>1, <2>1 DEF Explores, Entries, Browsers, SeenIsQueued, CrashExplained
  <2>4. (Single /\ Served)'
    BY <1>1, <2>1 DEF Single, Served, Serving, Live, Listed
  <2>5. (History /\ ShownIsWatched)'
    BY <1>1, <2>1 DEF History, ShownIsWatched, Facts
  <2> QED
    BY <2>2, <2>3, <2>4, <2>5 DEF IInv
<1>3. ASSUME NEW u \in Urls, handleItemChanged(u) \/ notificationFired(u)
      PROVE  IInv'
  <2>1. /\ UNCHANGED <<watching, connecting, maps, nodes, crashed>>
        /\ queue' \subseteq Urls /\ stale' \subseteq queue'
        /\ changes' \in Nat /\ changes' <= MaxChanges
    BY <1>1, <1>3, NotifierAssumption
       DEF handleItemChanged, notificationFired, Facts, SeenIsQueued, QueuedFor, UrlsAt
  <2>2. Facts'
    BY <1>1, <2>1 DEF Facts
  <2>3. (Explores /\ Entries /\ Browsers /\ SeenIsQueued /\ CrashExplained)'
    BY <1>1, <2>1 DEF Explores, Entries, Browsers, SeenIsQueued, CrashExplained
  <2>4. (Single /\ Served)'
    BY <1>1, <2>1 DEF Single, Served, Serving, Live, Listed
  <2>5. (History /\ ShownIsWatched)'
    BY <1>1, <2>1 DEF History, ShownIsWatched
  <2> QED
    BY <2>2, <2>3, <2>4, <2>5 DEF IInv
<1>4. ASSUME NEW c \in Conns, NEW u \in Urls, exploreFinished(c, u)
      PROVE  IInv'
  <2>1. /\ <<c, u>> \in exploring /\ exploring' = exploring \ {<<c, u>>}
        /\ explored' \in {explored, explored \cup {<<c, u>>}}
        /\ UNCHANGED <<watching, connecting, maps, notices, crashed>>
    BY <1>4 DEF exploreFinished
  <2>2. Facts'
    BY <1>1, <2>1 DEF Facts
  <2>3. Explores'
    BY <1>1, <2>1 DEF Explores
  <2>4. (Entries /\ Browsers /\ SeenIsQueued /\ CrashExplained)'
    BY <1>1, <2>1 DEF Entries, Browsers, SeenIsQueued, CrashExplained
  <2>5. (Single /\ Served)'
    BY <1>1, <2>1 DEF Single, Served, Serving, Live, Listed
  <2>6. (History /\ ShownIsWatched)'
    BY <1>1, <2>1 DEF History, ShownIsWatched
  <2> QED
    BY <2>2, <2>3, <2>4, <2>5, <2>6 DEF IInv
<1>5. CASE UNCHANGED vars
  <2>1. (Facts /\ Explores)'
    BY <1>1, <1>5 DEF vars, Facts, Explores
  <2>2. (Entries /\ Browsers /\ SeenIsQueued /\ CrashExplained)'
    BY <1>1, <1>5 DEF vars, Entries, Browsers, SeenIsQueued, CrashExplained
  <2>3. (Single /\ Served)'
    BY <1>1, <1>5 DEF vars, Single, Served, Serving, Live, Listed
  <2>4. (History /\ ShownIsWatched)'
    BY <1>1, <1>5 DEF vars, History, ShownIsWatched
  <2> QED
    BY <2>1, <2>2, <2>3, <2>4 DEF IInv
<1> QED
  BY <1>2, <1>3, <1>4, <1>5, EnteringKeeps, ConnectingKeeps, EndingKeeps DEF Next

-----------------------------------------------------------------------------
(* Theorems *)

\* So it always holds.
LEMMA InvHolds == Spec => []IInv
  BY InvInitial, InvInductive, PTL DEF Spec

\* What is watched is served by a connection, or by one that will be cleaned up.
THEOREM Watched == Spec => []WatchedIsServed
<1>1. IInv => WatchedIsServed
  BY TypeFacts DEF IInv, WatchedIsServed, Served, Serving
<1> QED
  BY <1>1, InvHolds, PTL

\* What one view shows is watched until its connection ends.
THEOREM Shown == Spec => []ShownIsWatched
<1>1. IInv => ShownIsWatched
  BY DEF IInv
<1> QED
  BY <1>1, InvHolds, PTL

\* A change seen is not lost.
THEOREM Announced == Spec => []SeenIsQueued
<1>1. IInv => SeenIsQueued
  BY DEF IInv
<1> QED
  BY <1>1, InvHolds, PTL

\* Two faults, and no other, bring the daemon down.
THEOREM NoOtherCrash == Spec => []CrashExplained
<1>1. IInv => CrashExplained
  BY DEF IInv
<1> QED
  BY <1>1, InvHolds, PTL
=============================================================================
