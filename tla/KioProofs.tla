------------------------------- MODULE KioProofs -------------------------------
(***************************************************************************)
(* Theorems about the KIO slave, for any number of hosts and of calls, and *)
(* about the lookup each of its calls begins with, for trees of any size   *)
(* and depth, paths of any length and any number of changes.               *)
(***************************************************************************)
EXTENDS KioSlave, PathLookup, FiniteSetTheorems, SequenceTheorems,
        WellFoundedInduction, TLAPS

Requests == [kind : Kinds, host : Hosts]

-----------------------------------------------------------------------------
(* Type correctness *)

\* A call that has ended leaves a well-formed report.
LEMMA ReportTypes ==
    ASSUME TypeOK, NEW r \in {"finished", "error"},
           NEW a \in {"none", "success", "failure"}, Report(r, a)
    PROVE  /\ control' = "idle"
           /\ call' = NoCall
           /\ last' \in [kind : Kinds \cup {"none"},
                         reported : {"none", "finished", "error"},
                         answer : {"none", "success", "failure"}]
  BY DEF TypeOK, Report, NoCall

\* Every step keeps the types, whichever event comes.
LEMMA TypeInductive == TypeOK /\ [Next]_vars => TypeOK'
<1> SUFFICES ASSUME TypeOK, [Next]_vars
             PROVE  TypeOK'
  OBVIOUS
<1> USE DEF connecting, reading, history
<1>1. ASSUME NEW k \in Kinds, NEW h \in Hosts, Call([kind |-> k, host |-> h])
      PROVE  TypeOK'
  <2> DEFINE c == [kind |-> k, host |-> h]
  <2>1. c \in Requests /\ c.kind = k /\ c.host = h
    BY DEF Requests
  <2>2. CASE isConnectedTo(c.host)
    BY <1>1, <2>1, <2>2 DEF Call, TypeOK, Proceed, Requests, NoCall, Kinds
  <2>3. CASE ~isConnectedTo(c.host)
    <3>1. /\ link' = h /\ call' = c /\ xmpp' = "none" /\ browserOpen' = FALSE
          /\ stale' = 0 /\ control' = "resolving"
          /\ UNCHANGED <<connectedTo, last, lastError, size, readFailed, timedOut,
                         failedConnect>>
          /\ control = "idle"
      BY <1>1, <2>1, <2>3 DEF Call
    <3> HIDE DEF c
    <3> QED
      BY <2>1, <3>1 DEF TypeOK, Requests
  <2> QED
    BY <2>2, <2>3
<1>2. CASE hostResolved
  BY <1>2 DEF hostResolved, TypeOK
<1>3. CASE xmppOpened
  BY <1>3 DEF xmppOpened, TypeOK
<1>4. CASE connectionEstablished
  BY <1>4 DEF connectionEstablished, TypeOK, Proceed, NoCall, Kinds
<1>5. CASE connectFailed
  <2>1. Report("error", "none")
    BY <1>5 DEF connectFailed
  <2> QED
    BY <1>5, <2>1, ReportTypes DEF connectFailed, TypeOK
<1>6. CASE disconnected
  BY <1>6 DEF disconnected, TypeOK
<1>7. CASE iterForUrl
  <2>1. CASE Report("error", "none") \/ Report("finished", "none")
    BY <1>7, <2>1, ReportTypes DEF iterForUrl, TypeOK
  <2>2. CASE Wait
    BY <1>7, <2>2 DEF iterForUrl, Wait, TypeOK
  <2> QED
    BY <1>7, <2>1, <2>2 DEF iterForUrl, Stat, Del, Create, ListDir
<1>8. CASE lookupHangs
  BY <1>8 DEF lookupHangs, TypeOK
<1>9. CASE requestAnswered
  <2>1. PICK ok \in BOOLEAN : Complete(IF ok THEN "success" ELSE "failure", ok)
    BY <1>9 DEF requestAnswered
  <2>2. /\ lastError' = FALSE
        /\ \E r \in {"finished", "error"}, a \in {"success", "failure"} : Report(r, a)
    BY <2>1 DEF Complete
  <2> QED
    BY <1>9, <2>2, ReportTypes DEF requestAnswered, TypeOK
<1>10. CASE lateAnswer
  <2>1. CASE control = "waiting"
    <3>1. PICK ok \in BOOLEAN : Complete("none", ok) /\ UNCHANGED stale
      BY <1>10, <2>1 DEF lateAnswer
    <3>2. /\ lastError' = FALSE
          /\ \E r \in {"finished", "error"} : Report(r, "none")
      BY <3>1 DEF Complete
    <3> QED
      BY <1>10, <3>1, <3>2, ReportTypes DEF lateAnswer, TypeOK
  <2>2. CASE control # "waiting"
    BY <1>10, <2>2 DEF lateAnswer, TypeOK
  <2> QED
    BY <2>1, <2>2
<1>11. CASE timeout
  <2>1. Report("error", "none")
    BY <1>11 DEF timeout
  <2>2. stale \in Nat
    BY DEF TypeOK
  <2>3. stale' \in Nat
    BY <1>11, <2>2 DEF timeout
  <2>4. lastError' \in {lastError, TRUE} /\ timedOut' = TRUE
    BY <1>11 DEF timeout
  <2>5. /\ UNCHANGED <<connectedTo, link, xmpp, browserOpen, size, readFailed,
                      failedConnect>>
        /\ control = "waiting"
    BY <1>11 DEF timeout
  <2> QED
    BY <2>1, <2>3, <2>4, <2>5, ReportTypes DEF TypeOK
<1>12. CASE readData
  <2>1. size' \in {-1, 0, 1} /\ readFailed' \in BOOLEAN
    BY <1>12 DEF readData, Sums, TypeOK
  <2> QED
    BY <1>12, <2>1 DEF readData, TypeOK
<1>13. CASE endOfData
  <2>1. size' = 0 /\ readFailed' = FALSE /\ UNCHANGED <<connecting, lastError, stale, history>>
    BY <1>13 DEF endOfData
  <2>2. CASE Report("error", "none")
    BY <2>1, <2>2, ReportTypes DEF TypeOK
  <2>3. CASE control' = "lookup" /\ UNCHANGED <<call, last>>
    BY <1>13, <2>1, <2>3 DEF endOfData, TypeOK
  <2> QED
    BY <1>13, <2>2, <2>3 DEF endOfData
<1>14. CASE UNCHANGED vars
  BY <1>14 DEF vars, TypeOK
<1> QED
  BY <1>1, <1>2, <1>3, <1>4, <1>5, <1>6, <1>7, <1>8, <1>9, <1>10, <1>11, <1>12,
     <1>13, <1>14 DEF Next, Serve

LEMMA TypeInitial == Init => TypeOK
<1> SUFFICES ASSUME Init PROVE TypeOK
  OBVIOUS
<1>1. last \in [kind : Kinds \cup {"none"}, reported : {"none", "finished", "error"},
                answer : {"none", "success", "failure"}]
  BY DEF Init
<1> QED
  BY <1>1 DEF Init, TypeOK

\* The slave's state stays well formed, however calls and answers interleave.
THEOREM TypeCorrect == Spec => []TypeOK
  BY TypeInitial, TypeInductive, PTL DEF Spec

-----------------------------------------------------------------------------
(* The right host *)

\* Between two calls m_connectedTo names the peer of the connection, and from
\* the moment a call has its connection this is the call's peer.
HostInv ==
    ~failedConnect =>
        /\ control # "idle" => link = call.host
        /\ control \notin {"resolving", "connecting"} => connectedTo = link

LEMMA HostInductive == TypeOK /\ HostInv /\ [Next]_vars => HostInv'
<1> SUFFICES ASSUME TypeOK, HostInv, [Next]_vars
             PROVE  HostInv'
  OBVIOUS
<1> USE DEF connecting, reading, history
<1>1. ASSUME NEW k \in Kinds, NEW h \in Hosts, Call([kind |-> k, host |-> h])
      PROVE  HostInv'
  <2>1. CASE isConnectedTo(h)
    BY <1>1, <2>1 DEF Call, HostInv, Proceed, isConnectedTo
  <2>2. CASE ~isConnectedTo(h)
    BY <1>1, <2>2 DEF Call, HostInv
  <2> QED
    BY <2>1, <2>2
<1>2. CASE connectionEstablished
  BY <1>2 DEF connectionEstablished, HostInv, Proceed
<1>3. CASE connectFailed
  BY <1>3 DEF connectFailed, HostInv
<1>4. CASE hostResolved \/ xmppOpened \/ disconnected
  BY <1>4 DEF hostResolved, xmppOpened, disconnected, HostInv
<1>5. CASE iterForUrl \/ lookupHangs
  BY <1>5 DEF iterForUrl, Stat, Del, Create, ListDir, Wait, lookupHangs, HostInv,
     Report
<1>6. CASE requestAnswered \/ lateAnswer \/ timeout
  BY <1>6 DEF requestAnswered, lateAnswer, timeout, HostInv, Report, Complete
<1>7. CASE readData \/ endOfData
  BY <1>7 DEF readData, endOfData, HostInv, Report
<1>8. CASE UNCHANGED vars
  BY <1>8 DEF vars, HostInv
<1> QED
  BY <1>1, <1>2, <1>3, <1>4, <1>5, <1>6, <1>7, <1>8 DEF Next, Serve

\* Until an attempt to connect fails, every call looks up and asks at the peer
\* of its own URL (doConnect and isConnectedTo).
THEOREM RightHost == Spec => []RightHostUnlessFailed
<1>1. Init => TypeOK /\ HostInv
  <2> SUFFICES ASSUME Init PROVE TypeOK /\ HostInv
    OBVIOUS
  <2>1. TypeOK
    BY TypeInitial
  <2>2. HostInv
    BY DEF Init, HostInv
  <2> QED
    BY <2>1, <2>2
<1>2. (TypeOK /\ HostInv) /\ [Next]_vars => (TypeOK /\ HostInv)'
  BY TypeInductive, HostInductive
<1>3. HostInv => RightHostUnlessFailed
  BY DEF HostInv, RightHostUnlessFailed, AsksTheRightHost
<1> QED
  BY <1>1, <1>2, <1>3, PTL DEF Spec

-----------------------------------------------------------------------------
(* Answers and errors *)

\* Until the first timeout no request of an earlier call is left unanswered, so
\* that nothing but the answer to the present one is ever heard.
ErrorInv == ~timedOut => stale = 0 /\ ~lastError /\ ReportedAsAnswered

LEMMA ErrorInductive == TypeOK /\ ErrorInv /\ [Next]_vars => ErrorInv'
<1> SUFFICES ASSUME TypeOK, ErrorInv, [Next]_vars, ~timedOut'
             PROVE  (stale = 0 /\ ~lastError /\ ReportedAsAnswered)'
  BY DEF ErrorInv
<1> USE DEF connecting, reading, history
<1>1. ~timedOut => stale = 0 /\ ~lastError /\ ReportedAsAnswered
  BY DEF ErrorInv
<1>2. ASSUME NEW k \in Kinds, NEW h \in Hosts, Call([kind |-> k, host |-> h])
      PROVE  (stale = 0 /\ ~lastError /\ ReportedAsAnswered)'
  BY <1>1, <1>2 DEF Call, Proceed, ReportedAsAnswered
<1>3. CASE connectionEstablished
  BY <1>1, <1>3 DEF connectionEstablished, Proceed, ReportedAsAnswered
<1>4. CASE connectFailed
  BY <1>1, <1>4 DEF connectFailed, Report, ReportedAsAnswered
<1>5. CASE hostResolved \/ xmppOpened \/ disconnected
  BY <1>1, <1>5 DEF hostResolved, xmppOpened, disconnected, ReportedAsAnswered
<1>6. CASE iterForUrl
  BY <1>1, <1>6 DEF iterForUrl, Stat, Del, Create, ListDir, Wait, Report,
     ReportedAsAnswered
<1>7. CASE lookupHangs
  BY <1>1, <1>7 DEF lookupHangs, ReportedAsAnswered
<1>8. CASE requestAnswered
  BY <1>1, <1>8 DEF requestAnswered, Complete, Report, ReportedAsAnswered
<1>9. CASE lateAnswer
  BY <1>1, <1>9 DEF lateAnswer
<1>10. CASE timeout
  BY <1>10 DEF timeout
<1>11. CASE readData \/ endOfData
  BY <1>1, <1>11 DEF readData, endOfData, Report, ReportedAsAnswered
<1>12. CASE UNCHANGED vars
  BY <1>1, <1>12 DEF vars, ReportedAsAnswered
<1> QED
  BY <1>2, <1>3, <1>4, <1>5, <1>6, <1>7, <1>8, <1>9, <1>10, <1>11, <1>12
     DEF Next, Serve

LEMMA ErrorInvariance == Spec => []ErrorInv
<1>1. Init => TypeOK /\ ErrorInv
  <2> SUFFICES ASSUME Init PROVE TypeOK /\ ErrorInv
    OBVIOUS
  <2>1. TypeOK
    BY TypeInitial
  <2>2. ErrorInv
    BY DEF Init, ErrorInv, ReportedAsAnswered
  <2> QED
    BY <2>1, <2>2
<1>2. (TypeOK /\ ErrorInv) /\ [Next]_vars => (TypeOK /\ ErrorInv)'
  BY TypeInductive, ErrorInductive
<1> QED
  BY <1>1, <1>2, PTL DEF Spec

\* Until the first timeout put(), mkdir() and del() report what the server
\* answered to their own request (waitForCompletion).
THEOREM Reported == Spec => []ReportedUnlessTimedOut
<1>1. ErrorInv => ReportedUnlessTimedOut
  BY DEF ErrorInv, ReportedUnlessTimedOut
<1> QED
  BY <1>1, ErrorInvariance, PTL

\* Until the first timeout m_lastError is empty whenever a call begins, and
\* always the state of the slave is of its types.
THEOREM NoErrorLeft == Spec => []SlaveInv
<1>1. ErrorInv => NoErrorCarriedOver
  BY DEF ErrorInv, NoErrorCarriedOver
<1>2. TypeOK /\ NoErrorCarriedOver => SlaveInv
  BY DEF SlaveInv
<1> QED
  BY <1>1, <1>2, ErrorInvariance, TypeCorrect, PTL

-----------------------------------------------------------------------------
(* Induction, for what paths of any length lead to *)

\* Induction for sets of natural numbers
LEMMA SetInduction ==
    ASSUME NEW T \in SUBSET Nat, 0 \in T, \A n \in T : n + 1 \in T
    PROVE  T = Nat
<1> DEFINE smaller == StrictSubsetOrdering(Nat)
           Failing == {s \in FiniteSubsetsOf(Nat) : \E n \in Nat \ T : s = 0 .. n}
<1>1. SUFFICES ASSUME NEW m \in Nat, m \notin T PROVE FALSE
  OBVIOUS
<1>2. \A n \in Nat : 0 .. n \in FiniteSubsetsOf(Nat)
  BY FS_Interval DEF FiniteSubsetsOf
<1>3. Failing # {}
  BY <1>1, <1>2
<1>4. PICK x \in Failing : \A y \in Failing : <<y, x>> \notin smaller
  <2>1. IsWellFoundedOn(smaller, FiniteSubsetsOf(Nat))
    BY FS_StrictSubsetOrderingWellFounded
  <2> HIDE DEF smaller
  <2> QED
    BY <1>3, <2>1, WFMin
<1>5. PICK n \in Nat : n \notin T /\ x = 0 .. n
  BY <1>4
<1>6. n # 0 /\ n - 1 \in Nat /\ n - 1 \notin T
  BY <1>5
<1>7. 0 .. n - 1 \in Failing
  BY <1>2, <1>6
<1>8. 0 .. n - 1 \subseteq 0 .. n /\ n \in 0 .. n /\ n \notin 0 .. n - 1
  BY <1>6
<1>9. <<0 .. n - 1, x>> \in smaller
  BY <1>2, <1>5, <1>6, <1>8 DEF StrictSubsetOrdering, FiniteSubsetsOf
<1> QED
  BY <1>4, <1>7, <1>9

-----------------------------------------------------------------------------
(* What is below a node *)

\* The children of every directory are nodes.
HasNodes(t) == \A d \in Directories : ChildrenOf(t, d) \subseteq Nodes

\* A server's tree is one, and the root is nobody's child.
LEMMA TreeHasNodes ==
    ASSUME NEW t, IsTree(t)
    PROVE  HasNodes(t) /\ \A d \in Directories : Root \notin ChildrenOf(t, d)
  BY DEF IsTree, HasNodes, ChildrenOf, ToSet

\* What is below a node is a set of nodes, closed, that begins with it.
LEMMA BelowIsClosed ==
    ASSUME NEW t, HasNodes(t), NEW n \in Nodes
    PROVE  /\ n \in Below(t, n) /\ Below(t, n) \subseteq Nodes
           /\ Closed(t, Below(t, n))
<1>1. n \in Below(t, n) /\ Below(t, n) \subseteq Nodes
  BY DEF Below
<1>2. ASSUME NEW d \in Below(t, n) \cap Directories, NEW m \in ChildrenOf(t, d)
      PROVE  m \in Below(t, n)
  <2>1. m \in Nodes
    BY <1>2 DEF HasNodes
  <2>2. ASSUME NEW set \in SUBSET Nodes, n \in set, Closed(t, set)
        PROVE  m \in set
    BY <1>2, <2>2 DEF Below, Closed
  <2> QED
    BY <2>1, <2>2 DEF Below
<1> QED
  BY <1>1, <1>2 DEF Closed

\* Every closed set with a node has all that is below it.
LEMMA BelowIsSmallest ==
    ASSUME NEW t, NEW n, NEW set \in SUBSET Nodes, n \in set, Closed(t, set)
    PROVE  Below(t, n) \subseteq set
  BY DEF Below

\* Whatever is below a node other than that is a child of something below it.
LEMMA BelowHasParent ==
    ASSUME NEW t, HasNodes(t), NEW n \in Nodes, NEW m \in Below(t, n), m # n
    PROVE  \E d \in Below(t, n) \cap Directories : m \in ChildrenOf(t, d)
<1> DEFINE set == {k \in Below(t, n) :
                     k = n \/ \E d \in Below(t, n) \cap Directories : k \in ChildrenOf(t, d)}
<1>1. set \in SUBSET Nodes /\ n \in set
  BY BelowIsClosed
<1>2. Closed(t, set)
  BY BelowIsClosed DEF Closed
<1>3. Below(t, n) \subseteq set
  <2> HIDE DEF set
  <2> QED
    BY <1>1, <1>2, BelowIsSmallest
<1> QED
  BY <1>3

-----------------------------------------------------------------------------
(* What a path leads to *)

\* No component at all leads to the root.
LEMMA LeadsNowhere ==
    ASSUME NEW t, NEW p, NEW n \in Nodes
    PROVE  LeadsTo(t, p, 0, n) <=> n = Root
<1>1. ASSUME n = Root PROVE LeadsTo(t, p, 0, n)
  <2> DEFINE line == [i \in 0 .. 0 |-> Root]
  <2>1. line \in [0 .. 0 -> Nodes] /\ line[0] = Root
    BY FileTreeAssumption
  <2>2. \A i \in 1 .. 0 : FALSE
    OBVIOUS
  <2> QED
    BY <1>1, <2>1, <2>2 DEF LeadsTo
<1> QED
  BY <1>1 DEF LeadsTo

\* One component more leads to a child of that name of the directory before.
LEMMA LeadsFurther ==
    ASSUME NEW t, HasNodes(t), NEW p, NEW k \in Nat, NEW n \in Nodes
    PROVE  LeadsTo(t, p, k + 1, n) <=>
             \E m \in Directories : LeadsTo(t, p, k, m) /\ n \in Named(t, m, p[k + 1])
<1>1. ASSUME LeadsTo(t, p, k + 1, n)
      PROVE  \E m \in Directories : LeadsTo(t, p, k, m) /\ n \in Named(t, m, p[k + 1])
  <2>1. PICK line \in [0 .. k + 1 -> Nodes] :
          /\ line[0] = Root /\ line[k + 1] = n
          /\ \A i \in 1 .. k + 1 : /\ line[i - 1] \in Directories
                                   /\ line[i] \in Named(t, line[i - 1], p[i])
    BY <1>1 DEF LeadsTo
  <2> DEFINE short == [i \in 0 .. k |-> line[i]]
  <2>2. short \in [0 .. k -> Nodes] /\ short[0] = Root /\ short[k] = line[k]
    BY <2>1
  <2>3. ASSUME NEW i \in 1 .. k
        PROVE  short[i - 1] \in Directories /\ short[i] \in Named(t, short[i - 1], p[i])
    <3>1. i \in 1 .. k + 1 /\ i - 1 \in 0 .. k /\ i \in 0 .. k
      OBVIOUS
    <3> QED
      BY <2>1, <3>1
  <2>4. LeadsTo(t, p, k, line[k])
    <3> HIDE DEF short
    <3> QED
      BY <2>2, <2>3 DEF LeadsTo
  <2>5. line[k] \in Directories /\ n \in Named(t, line[k], p[k + 1])
    BY <2>1, k + 1 \in 1 .. k + 1, (k + 1) - 1 = k
  <2> QED
    BY <2>4, <2>5
<1>2. ASSUME NEW m \in Directories, LeadsTo(t, p, k, m), n \in Named(t, m, p[k + 1])
      PROVE  LeadsTo(t, p, k + 1, n)
  <2>1. PICK line \in [0 .. k -> Nodes] :
          /\ line[0] = Root /\ line[k] = m
          /\ \A i \in 1 .. k : /\ line[i - 1] \in Directories
                               /\ line[i] \in Named(t, line[i - 1], p[i])
    BY <1>2 DEF LeadsTo
  <2> DEFINE long == [i \in 0 .. k + 1 |-> IF i = k + 1 THEN n ELSE line[i]]
  <2>2. long \in [0 .. k + 1 -> Nodes] /\ long[0] = Root /\ long[k + 1] = n
    BY <2>1
  <2>3. ASSUME NEW i \in 1 .. k + 1
        PROVE  long[i - 1] \in Directories /\ long[i] \in Named(t, long[i - 1], p[i])
    <3>1. CASE i = k + 1
      BY <1>2, <2>1, <3>1
    <3>2. CASE i # k + 1
      <4>1. i \in 1 .. k /\ long[i - 1] = line[i - 1] /\ long[i] = line[i]
        BY <3>2
      <4> QED
        BY <2>1, <4>1
    <3> QED
      BY <3>1, <3>2
  <2> HIDE DEF long
  <2> QED
    BY <2>2, <2>3 DEF LeadsTo
<1> QED
  BY <1>1, <1>2

\* A node that a path leads to is a node.
LEMMA LeadsToNodes ==
    ASSUME NEW t, NEW p, NEW k \in Nat, NEW n, LeadsTo(t, p, k, n)
    PROVE  n \in Nodes
  BY k \in 0 .. k DEF LeadsTo

\* Names are unique, and so is what a path leads to.
LEMMA LeadsToOne ==
    ASSUME NEW t, IsTree(t), NEW p, NEW k \in Nat, NEW m \in Nodes, NEW n \in Nodes,
           LeadsTo(t, p, k, m), LeadsTo(t, p, k, n)
    PROVE  m = n
<1> DEFINE One(i) == \A x, y \in Nodes : LeadsTo(t, p, i, x) /\ LeadsTo(t, p, i, y) => x = y
           T == {i \in Nat : One(i)}
<1>1. One(0)
  BY LeadsNowhere
<1>2. ASSUME NEW i \in Nat, One(i)
      PROVE  One(i + 1)
  <2> SUFFICES ASSUME NEW x \in Nodes, NEW y \in Nodes,
                      LeadsTo(t, p, i + 1, x), LeadsTo(t, p, i + 1, y)
               PROVE  x = y
    OBVIOUS
  <2>1. HasNodes(t)
    BY TreeHasNodes
  <2>2. PICK d \in Directories : LeadsTo(t, p, i, d) /\ x \in Named(t, d, p[i + 1])
    BY <2>1, LeadsFurther
  <2>3. PICK e \in Directories : LeadsTo(t, p, i, e) /\ y \in Named(t, e, p[i + 1])
    BY <2>1, LeadsFurther
  <2>4. d = e
    BY <1>2, <2>2, <2>3, FileTreeAssumption
  <2> QED
    BY <2>2, <2>3, <2>4 DEF Named, ChildrenOf, ToSet, IsTree
<1>3. T = Nat
  <2>1. T \in SUBSET Nat /\ 0 \in T /\ \A i \in T : i + 1 \in T
    BY <1>1, <1>2
  <2> HIDE DEF T
  <2> QED
    BY <2>1, SetInduction
<1> QED
  BY <1>3

\* It stays when a tree grows.
LEMMA LeadsInLarger ==
    ASSUME NEW t, NEW u, NEW p, NEW k, NEW n, LeadsTo(t, p, k, n),
           \A d \in Directories : ChildrenOf(t, d) \subseteq ChildrenOf(u, d)
    PROVE  LeadsTo(u, p, k, n)
  BY DEF LeadsTo, Named

\* Whatever leads far leads somewhere on the way.
LEMMA LeadsOnTheWay ==
    ASSUME NEW t, NEW p, NEW k \in Nat, NEW n, LeadsTo(t, p, k, n), NEW j \in 0 .. k
    PROVE  \E m \in Nodes : LeadsTo(t, p, j, m)
<1>1. PICK line \in [0 .. k -> Nodes] :
        /\ line[0] = Root /\ line[k] = n
        /\ \A i \in 1 .. k : /\ line[i - 1] \in Directories
                             /\ line[i] \in Named(t, line[i - 1], p[i])
  BY DEF LeadsTo
<1> DEFINE short == [i \in 0 .. j |-> line[i]]
<1>2. short \in [0 .. j -> Nodes] /\ short[0] = Root /\ short[j] = line[j]
  BY <1>1
<1>3. ASSUME NEW i \in 1 .. j
      PROVE  short[i - 1] \in Directories /\ short[i] \in Named(t, short[i - 1], p[i])
  <2>1. i \in 1 .. k /\ i - 1 \in 0 .. j /\ i \in 0 .. j
    OBVIOUS
  <2> QED
    BY <1>1, <2>1
<1>4. LeadsTo(t, p, j, line[j])
  <2> HIDE DEF short
  <2> QED
    BY <1>2, <1>3 DEF LeadsTo
<1> QED
  BY <1>1, <1>4

-----------------------------------------------------------------------------
(* What changes of the tree do *)

\* A list of children with one of another name put first or last.
LEMMA ChildrenOfAdded ==
    ASSUME NEW list \in Seq(Nodes \ {Root}), NEW n \in Nodes \ {Root},
           NEW more, more = Append(list, n) \/ more = <<n>> \o list
    PROVE  /\ more \in Seq(Nodes \ {Root})
           /\ ToSet(more) = ToSet(list) \cup {n}
           /\ /\ \A i, j \in DOMAIN list : i # j => NameOf[list[i]] # NameOf[list[j]]
              /\ \A m \in ToSet(list) : NameOf[m] # NameOf[n]
              => \A i, j \in DOMAIN more : i # j => NameOf[more[i]] # NameOf[more[j]]
<1>1. PICK shift \in {0, 1}, at \in 1 .. Len(list) + 1 :
        /\ more \in Seq(Nodes \ {Root}) /\ Len(more) = Len(list) + 1
        /\ \A i \in 1 .. Len(list) : more[i + shift] = list[i]
        /\ more[at] = n
        /\ at = IF shift = 0 THEN Len(list) + 1 ELSE 1
  <2>1. CASE more = Append(list, n)
    <3>1. /\ more \in Seq(Nodes \ {Root}) /\ Len(more) = Len(list) + 1
          /\ \A i \in 1 .. Len(list) : more[i] = list[i]
          /\ more[Len(list) + 1] = n
      BY <2>1, AppendProperties
    <3>2. \A i \in 1 .. Len(list) : more[i + 0] = list[i]
      BY <3>1
    <3> QED
      BY <3>1, <3>2
  <2>2. CASE more = <<n>> \o list
    <3>1. <<n>> \in Seq(Nodes \ {Root}) /\ Len(<<n>>) = 1 /\ <<n>>[1] = n
      OBVIOUS
    <3>2. /\ more \in Seq(Nodes \ {Root}) /\ Len(more) = 1 + Len(list)
          /\ \A i \in 1 .. 1 + Len(list) : more[i] = IF i <= 1 THEN <<n>>[i] ELSE list[i - 1]
      BY <2>2, <3>1, ConcatProperties
    <3>3. \A i \in 1 .. Len(list) : more[i + 1] = list[i]
      BY <3>2
    <3> QED
      BY <3>1, <3>2, <3>3
  <2> QED
    BY <2>1, <2>2
<1>2. Len(list) \in Nat /\ DOMAIN list = 1 .. Len(list) /\ DOMAIN more = 1 .. Len(list) + 1
  BY <1>1
<1>3. \A i \in 1 .. Len(list) + 1 : i # at =>
        i - shift \in 1 .. Len(list) /\ more[i] = list[i - shift]
  BY <1>1, <1>2
<1>4. \A i \in 1 .. Len(list) : i + shift \in 1 .. Len(list) + 1
  BY <1>1, <1>2
<1>5. ASSUME NEW m
      PROVE  (\E i \in 1 .. Len(list) + 1 : m = more[i]) <=>
               m = n \/ \E i \in 1 .. Len(list) : m = list[i]
  BY <1>1, <1>3, <1>4
<1>6. ToSet(more) = ToSet(list) \cup {n}
  BY <1>2, <1>5 DEF ToSet
<1>7. ASSUME \A i, j \in DOMAIN list : i # j => NameOf[list[i]] # NameOf[list[j]],
             \A m \in ToSet(list) : NameOf[m] # NameOf[n],
             NEW i \in DOMAIN more, NEW j \in DOMAIN more, i # j
      PROVE  NameOf[more[i]] # NameOf[more[j]]
  <2>1. \A k \in 1 .. Len(list) : NameOf[list[k]] # NameOf[n]
    BY <1>2, <1>7 DEF ToSet
  <2>2. i \in 1 .. Len(list) + 1 /\ j \in 1 .. Len(list) + 1
    BY <1>2, <1>7
  <2>3. CASE i # at /\ j # at
    <3>1. /\ i - shift \in 1 .. Len(list) /\ more[i] = list[i - shift]
          /\ j - shift \in 1 .. Len(list) /\ more[j] = list[j - shift]
      BY <1>3, <2>2, <2>3
    <3>2. i - shift # j - shift
      BY <1>7, <2>2
    <3> QED
      BY <1>2, <1>7, <3>1, <3>2
  <2>4. CASE i = at /\ j # at
    BY <1>1, <1>3, <2>1, <2>2, <2>4
  <2>5. CASE j = at /\ i # at
    BY <1>1, <1>3, <2>1, <2>2, <2>5
  <2> QED
    BY <1>7, <2>3, <2>4, <2>5
<1> QED
  BY <1>1, <1>6, <1>7

\* A list without the element at one place.
LEMMA RemoveAtFacts ==
    ASSUME NEW S, NEW list \in Seq(S), NEW len \in Nat, len = Len(list), NEW at \in 1 .. len
    PROVE  /\ RemoveAt(list, at) \in Seq(S)
           /\ DOMAIN RemoveAt(list, at) = 1 .. len - 1
           /\ \A i \in 1 .. len - 1 :
                RemoveAt(list, at)[i] = IF i < at THEN list[i] ELSE list[i + 1]
<1> DEFINE front == SubSeq(list, 1, at - 1)
           back  == SubSeq(list, at + 1, len)
<1>1. \A i \in 1 .. len : list[i] \in S
  OBVIOUS
<1>2. /\ front \in Seq(S) /\ Len(front) = at - 1
      /\ \A i \in 1 .. at - 1 : front[i] = list[i]
  <2>1. \A i \in 1 .. at - 1 : list[i] \in S
    BY <1>1
  <2>2. 1 \in Int /\ at - 1 \in Int /\ (1 <= at - 1 \/ at - 1 = 0)
    OBVIOUS
  <2> QED
    BY <2>1, <2>2, SubSeqProperties
<1>3. /\ back \in Seq(S) /\ Len(back) = len - at
      /\ \A i \in 1 .. len - at : back[i] = list[i + at]
  <2>1. \A i \in at + 1 .. len : list[i] \in S
    BY <1>1
  <2>2. at + 1 \in Int /\ len \in Int
    OBVIOUS
  <2>3. /\ back \in Seq(S) /\ Len(back) = IF at + 1 <= len THEN len - (at + 1) + 1 ELSE 0
        /\ \A i \in 1 .. len - (at + 1) + 1 : back[i] = list[(at + 1) + i - 1]
    BY <2>1, <2>2, SubSeqProperties
  <2>4. len - (at + 1) + 1 = len - at /\ \A i \in Nat : (at + 1) + i - 1 = i + at
    OBVIOUS
  <2> HIDE DEF back
  <2> QED
    BY <2>3, <2>4
<1>4. RemoveAt(list, at) = front \o back
  BY DEF RemoveAt
<1> HIDE DEF front, back
<1>5. /\ RemoveAt(list, at) \in Seq(S)
      /\ Len(RemoveAt(list, at)) = (at - 1) + (len - at)
      /\ \A i \in 1 .. (at - 1) + (len - at) :
           RemoveAt(list, at)[i] = IF i <= at - 1 THEN front[i] ELSE back[i - (at - 1)]
  <2>1. /\ front \o back \in Seq(S) /\ Len(front \o back) = Len(front) + Len(back)
        /\ \A i \in 1 .. Len(front) + Len(back) :
             (front \o back)[i] = IF i <= Len(front) THEN front[i] ELSE back[i - Len(front)]
    BY <1>2, <1>3, ConcatProperties
  <2> QED
    BY <1>2, <1>3, <1>4, <2>1
<1>6. (at - 1) + (len - at) = len - 1
  OBVIOUS
<1>7. ASSUME NEW i \in 1 .. len - 1
      PROVE  RemoveAt(list, at)[i] = IF i < at THEN list[i] ELSE list[i + 1]
  <2>1. CASE i < at
    <3>1. i \in 1 .. at - 1 /\ i <= at - 1 /\ i \in 1 .. (at - 1) + (len - at)
      BY <1>6, <2>1
    <3>2. front[i] = list[i]
      BY <1>2, <3>1
    <3> QED
      BY <1>5, <2>1, <3>1, <3>2
  <2>2. CASE ~(i < at)
    <3>1. i - (at - 1) \in 1 .. len - at /\ (i - (at - 1)) + at = i + 1
      BY <2>2
    <3>2. back[i - (at - 1)] = list[i + 1]
      BY <1>3, <3>1
    <3> QED
      BY <1>5, <1>6, <2>2, <3>2
  <2> QED
    BY <2>1, <2>2
<1> QED
  BY <1>5, <1>6, <1>7

\* A list of children without one of them.
LEMMA ChildrenOfDeleted ==
    ASSUME NEW list \in Seq(Nodes \ {Root}), NEW n,
           \A i, j \in DOMAIN list : i # j => NameOf[list[i]] # NameOf[list[j]]
    PROVE  /\ Delete(list, n) \in Seq(Nodes \ {Root})
           /\ ToSet(Delete(list, n)) = ToSet(list) \ {n}
           /\ \A i, j \in DOMAIN Delete(list, n) :
                i # j => NameOf[Delete(list, n)[i]] # NameOf[Delete(list, n)[j]]
<1>1. CASE n \notin ToSet(list)
  BY <1>1 DEF Delete
<1>2. CASE n \in ToSet(list)
  <2> DEFINE less == Delete(list, n)
  <2>1. PICK len \in Nat : len = Len(list) /\ DOMAIN list = 1 .. len
    OBVIOUS
  <2>2. PICK at \in 1 .. len : list[at] = n /\ less = RemoveAt(list, at)
    BY <1>2, <2>1 DEF Delete, ToSet
  <2> HIDE DEF less
  <2>3. /\ less \in Seq(Nodes \ {Root})
        /\ DOMAIN less = 1 .. len - 1
        /\ \A i \in 1 .. len - 1 : less[i] = IF i < at THEN list[i] ELSE list[i + 1]
    <3>1. PICK S : S = Nodes \ {Root}
      OBVIOUS
    <3>2. list \in Seq(S) /\ len = Len(list)
      BY <2>1, <3>1
    <3>3. /\ RemoveAt(list, at) \in Seq(S)
          /\ DOMAIN RemoveAt(list, at) = 1 .. len - 1
          /\ \A i \in 1 .. len - 1 :
               RemoveAt(list, at)[i] = IF i < at THEN list[i] ELSE list[i + 1]
      BY <3>2, RemoveAtFacts
    <3> QED
      BY <2>2, <3>1, <3>3
  <2>4. \A i, j \in 1 .. len : i # j => NameOf[list[i]] # NameOf[list[j]]
    BY <2>1
  <2>5. ASSUME NEW m, m \in ToSet(less)
        PROVE  m \in ToSet(list) \ {n}
    <3>1. PICK i \in 1 .. len - 1 : m = less[i]
      BY <2>3, <2>5 DEF ToSet
    <3>2. PICK j \in 1 .. len : j # at /\ m = list[j]
      BY <2>3, <3>1
    <3> QED
      BY <2>1, <2>2, <2>4, <3>2 DEF ToSet
  <2>6. ASSUME NEW m, m \in ToSet(list) \ {n}
        PROVE  m \in ToSet(less)
    <3>1. PICK j \in 1 .. len : j # at /\ m = list[j]
      BY <2>1, <2>2, <2>6 DEF ToSet
    <3>2. PICK i \in 1 .. len - 1 : i = IF j < at THEN j ELSE j - 1
      BY <3>1
    <3>3. less[i] = m
      BY <2>3, <3>1, <3>2
    <3> QED
      BY <2>3, <3>3 DEF ToSet
  <2>7. ToSet(less) = ToSet(list) \ {n}
    BY <2>5, <2>6
  <2>8. ASSUME NEW i \in 1 .. len - 1, NEW j \in 1 .. len - 1, i # j
        PROVE  NameOf[less[i]] # NameOf[less[j]]
    <3>1. PICK k \in 1 .. len : k = IF i < at THEN i ELSE i + 1
      OBVIOUS
    <3>2. PICK l \in 1 .. len : l = IF j < at THEN j ELSE j + 1
      OBVIOUS
    <3>3. k # l /\ less[i] = list[k] /\ less[j] = list[l]
      BY <2>3, <2>8, <3>1, <3>2
    <3> QED
      BY <2>4, <3>3
  <2> QED
    BY <2>3, <2>7, <2>8 DEF less
<1> QED
  BY <1>1, <1>2

\* A node added to a directory: what was there stays, and it is a tree.
LEMMA Grown ==
    ASSUME NEW t, IsTree(t), NEW d \in Directories, d \in Reachable(t),
           NEW n \in Nodes \ {Root}, n \notin Reachable(t),
           NEW u \in [Directories -> Seq(Nodes \ {Root})],
           ToSet(u[d]) = ToSet(t[d]) \cup {n},
           \A i, j \in DOMAIN u[d] : i # j => NameOf[u[d][i]] # NameOf[u[d][j]],
           \A e \in Directories : e # d => u[e] = t[e]
    PROVE  /\ IsTree(u)
           /\ \A e \in Directories : ChildrenOf(t, e) \subseteq ChildrenOf(u, e)
           /\ Reachable(t) \subseteq Reachable(u)
           /\ Reachable(u) \subseteq Reachable(t) \cup {n}
<1>1. HasNodes(t) /\ Root \in Nodes
  BY TreeHasNodes, FileTreeAssumption
<1>2. Closed(t, Reachable(t)) /\ Root \in Reachable(t)
  BY <1>1, BelowIsClosed DEF Reachable
<1>3. t \in [Directories -> Seq(Nodes \ {Root})]
  BY DEF IsTree
<1>4. /\ ToSet(u[d]) = ToSet(t[d]) \cup {n}
      /\ \A i, j \in DOMAIN u[d] : i # j => NameOf[u[d][i]] # NameOf[u[d][j]]
  OBVIOUS
<1>5. \A e \in Directories : e # d => u[e] = t[e]
  OBVIOUS
<1>6. /\ ChildrenOf(u, d) = ChildrenOf(t, d) \cup {n}
      /\ \A e \in Directories : e # d => ChildrenOf(u, e) = ChildrenOf(t, e)
  BY <1>4, <1>5 DEF ChildrenOf
<1>7. HasNodes(u)
  BY <1>1, <1>6 DEF HasNodes
<1>8. Reachable(t) \subseteq Reachable(u)
  <2>1. /\ Reachable(u) \in SUBSET Nodes /\ Root \in Reachable(u)
        /\ Closed(u, Reachable(u))
    BY <1>1, <1>7, BelowIsClosed DEF Reachable
  <2>2. Closed(t, Reachable(u))
    BY <1>6, <2>1 DEF Closed
  <2> QED
    BY <2>1, <2>2, BelowIsSmallest DEF Reachable
<1>9. \A e \in Directories : n \notin ChildrenOf(t, e)
  <2> SUFFICES ASSUME NEW e \in Directories, n \in ChildrenOf(t, e) PROVE FALSE
    OBVIOUS
  <2>1. CASE e \in Reachable(t)
    BY <1>2, <2>1 DEF Closed
  <2>2. CASE e \notin Reachable(t)
    BY <2>2 DEF IsTree, ChildrenOf, ToSet
  <2> QED
    BY <2>1, <2>2
<1>10. \A e \in Directories : \A i, j \in DOMAIN u[e] : i # j => NameOf[u[e][i]] # NameOf[u[e][j]]
  <2> SUFFICES ASSUME NEW e \in Directories
               PROVE  \A i, j \in DOMAIN u[e] : i # j => NameOf[u[e][i]] # NameOf[u[e][j]]
    OBVIOUS
  <2>1. CASE e = d
    BY <1>4, <2>1
  <2>2. CASE e # d
    <3>1. u[e] = t[e]
      BY <1>5, <2>2
    <3> QED
      BY <3>1 DEF IsTree
  <2> QED
    BY <2>1, <2>2
<1>11. \A e, f \in Directories : e # f => ChildrenOf(u, e) \cap ChildrenOf(u, f) = {}
  <2> SUFFICES ASSUME NEW e \in Directories, NEW f \in Directories, e # f,
                      NEW m, m \in ChildrenOf(u, e), m \in ChildrenOf(u, f)
               PROVE  FALSE
    OBVIOUS
  <2>1. m \notin ChildrenOf(t, e) \/ m \notin ChildrenOf(t, f)
    BY DEF IsTree
  <2>2. m = n
    BY <1>6, <2>1
  <2> QED
    BY <1>6, <1>9, <2>2
<1>12. \A e \in Directories : e \notin Reachable(u) => u[e] = << >>
  BY <1>5, <1>8 DEF IsTree
<1>13. Reachable(u) \subseteq Reachable(t) \cup {n}
  <2> DEFINE set == Reachable(t) \cup {n}
  <2>1. set \in SUBSET Nodes /\ Root \in set
    BY <1>1, BelowIsClosed DEF Reachable
  <2>2. n \in Directories => ChildrenOf(u, n) = {}
    BY <1>5 DEF IsTree, ChildrenOf, ToSet
  <2>3. Closed(u, set)
    BY <1>2, <1>6, <2>2 DEF Closed
  <2> HIDE DEF set
  <2>4. Reachable(u) \subseteq set
    BY <2>1, <2>3, BelowIsSmallest DEF Reachable
  <2> QED
    BY <2>4 DEF set
<1> QED
  BY <1>5, <1>6, <1>8, <1>10, <1>11, <1>12, <1>13 DEF IsTree

\* A node removed: what is not below it stays, and it is a tree.
LEMMA Pruned ==
    ASSUME NEW t, IsTree(t), NEW n \in Nodes \ {Root}, NEW u, u = Without(t, n)
    PROVE  /\ IsTree(u)
           /\ \A e \in Directories :
                ChildrenOf(u, e) = IF e \in Below(t, n) THEN {} ELSE ChildrenOf(t, e) \ {n}
           /\ Reachable(t) \subseteq Reachable(u) \cup Below(t, n)
           /\ Reachable(u) \subseteq Reachable(t) \ Below(t, n)
<1>1. /\ HasNodes(t) /\ Root \in Nodes
      /\ \A d \in Directories : Root \notin ChildrenOf(t, d)
  BY TreeHasNodes, FileTreeAssumption
<1>2. /\ n \in Below(t, n) /\ Below(t, n) \subseteq Nodes
      /\ Closed(t, Below(t, n))
  BY <1>1, BelowIsClosed
<1>3. \A e \in Directories : u[e] = IF e \in Below(t, n) THEN << >> ELSE Delete(t[e], n)
  BY DEF Without
<1>4. ASSUME NEW e \in Directories
      PROVE  /\ Delete(t[e], n) \in Seq(Nodes \ {Root})
             /\ ToSet(Delete(t[e], n)) = ToSet(t[e]) \ {n}
             /\ \A i, j \in DOMAIN Delete(t[e], n) :
                  i # j => NameOf[Delete(t[e], n)[i]] # NameOf[Delete(t[e], n)[j]]
  <2>1. /\ t[e] \in Seq(Nodes \ {Root})
        /\ \A i, j \in DOMAIN t[e] : i # j => NameOf[t[e][i]] # NameOf[t[e][j]]
    BY DEF IsTree
  <2> QED
    BY <2>1, ChildrenOfDeleted
<1>5. u \in [Directories -> Seq(Nodes \ {Root})]
  <2>1. ASSUME NEW e \in Directories
        PROVE  u[e] \in Seq(Nodes \ {Root})
    <3>1. CASE e \in Below(t, n)
      <4>1. u[e] = << >>
        BY <1>3, <3>1
      <4> QED
        BY <4>1, EmptySeq
    <3>2. CASE e \notin Below(t, n)
      BY <1>3, <1>4, <3>2
    <3> QED
      BY <3>1, <3>2
  <2>2. u = [e \in Directories |-> u[e]]
    BY DEF Without
  <2> QED
    BY <2>1, <2>2
<1>6. ASSUME NEW e \in Directories
      PROVE  ChildrenOf(u, e) = IF e \in Below(t, n) THEN {} ELSE ChildrenOf(t, e) \ {n}
  <2>1. CASE e \in Below(t, n)
    BY <1>3, <2>1 DEF ChildrenOf, ToSet
  <2>2. CASE e \notin Below(t, n)
    BY <1>3, <1>4, <2>2 DEF ChildrenOf
  <2> QED
    BY <2>1, <2>2
<1>7. HasNodes(u)
  BY <1>1, <1>6 DEF HasNodes
<1>8. /\ Reachable(u) \in SUBSET Nodes /\ Root \in Reachable(u)
      /\ Closed(u, Reachable(u))
  BY <1>1, <1>7, BelowIsClosed DEF Reachable
<1>9. Reachable(t) \subseteq Reachable(u) \cup Below(t, n)
  <2> DEFINE set == Reachable(u) \cup Below(t, n)
  <2>1. set \in SUBSET Nodes /\ Root \in set
    BY <1>2, <1>8
  <2>2. Closed(t, set)
    BY <1>2, <1>6, <1>8 DEF Closed
  <2> HIDE DEF set
  <2>3. Reachable(t) \subseteq set
    BY <2>1, <2>2, BelowIsSmallest DEF Reachable
  <2> QED
    BY <2>3 DEF set
<1>10. Root \notin Below(t, n)
  BY <1>1, BelowHasParent
<1>11. Reachable(u) \cap Below(t, n) = {}
  <2> DEFINE set == Nodes \ Below(t, n)
  <2>1. set \in SUBSET Nodes /\ Root \in set
    BY <1>1, <1>10
  <2>2. ASSUME NEW d \in set \cap Directories, NEW m \in ChildrenOf(u, d), m \in Below(t, n)
        PROVE  FALSE
    <3>1. m \in ChildrenOf(t, d) /\ m # n
      BY <1>6, <2>2
    <3>2. PICK e \in Below(t, n) \cap Directories : m \in ChildrenOf(t, e)
      BY <1>1, <2>2, <3>1, BelowHasParent
    <3>3. d # e
      BY <2>2
    <3> QED
      BY <2>2, <3>1, <3>2, <3>3 DEF IsTree
  <2>3. Closed(u, set)
    BY <1>7, <2>2 DEF Closed, HasNodes
  <2> HIDE DEF set
  <2>4. Reachable(u) \subseteq set
    BY <2>1, <2>3, BelowIsSmallest DEF Reachable
  <2> QED
    BY <2>4 DEF set
<1>12. \A e \in Directories : \A i, j \in DOMAIN u[e] : i # j => NameOf[u[e][i]] # NameOf[u[e][j]]
  <2> SUFFICES ASSUME NEW e \in Directories, NEW i \in DOMAIN u[e], NEW j \in DOMAIN u[e], i # j
               PROVE  NameOf[u[e][i]] # NameOf[u[e][j]]
    OBVIOUS
  <2>1. e \notin Below(t, n)
    BY <1>3
  <2>2. u[e] = Delete(t[e], n)
    BY <1>3, <2>1
  <2> QED
    BY <1>4, <2>2
<1>13. \A e, f \in Directories : e # f => ChildrenOf(u, e) \cap ChildrenOf(u, f) = {}
  BY <1>6 DEF IsTree
<1>14. ASSUME NEW e \in Directories, e \notin Reachable(u)
       PROVE  u[e] = << >>
  <2>1. CASE e \in Below(t, n)
    BY <1>3, <2>1
  <2>2. CASE e \notin Below(t, n)
    <3>1. t[e] = << >>
      BY <1>9, <1>14, <2>2 DEF IsTree
    <3>2. Delete(t[e], n) = << >>
      BY <3>1 DEF Delete, ToSet
    <3> QED
      BY <1>3, <2>2, <3>2
  <2> QED
    BY <2>1, <2>2
<1>15. Reachable(u) \subseteq Reachable(t)
  <2>1. /\ Reachable(t) \in SUBSET Nodes /\ Root \in Reachable(t)
        /\ Closed(t, Reachable(t))
    BY <1>1, BelowIsClosed DEF Reachable
  <2>2. Closed(u, Reachable(t))
    BY <1>6, <2>1 DEF Closed
  <2> QED
    BY <2>1, <2>2, BelowIsSmallest DEF Reachable
<1> QED
  BY <1>5, <1>6, <1>9, <1>11, <1>12, <1>13, <1>14, <1>15 DEF IsTree

\* What a path leads to stays, unless it is below the node removed.
LEMMA LeadsInSmaller ==
    ASSUME NEW t, IsTree(t), NEW n \in Nodes \ {Root}, NEW u, u = Without(t, n),
           NEW p, NEW k \in Nat, NEW c \in Nodes \ Below(t, n), LeadsTo(t, p, k, c)
    PROVE  LeadsTo(u, p, k, c)
<1> DEFINE Kept(i) == \A x \in Nodes \ Below(t, n) : LeadsTo(t, p, i, x) => LeadsTo(u, p, i, x)
           T == {i \in Nat : Kept(i)}
<1>1. HasNodes(t) /\ HasNodes(u)
  BY TreeHasNodes, Pruned
<1>2. Kept(0)
  BY LeadsNowhere
<1>3. ASSUME NEW i \in Nat, Kept(i), NEW x \in Nodes \ Below(t, n), LeadsTo(t, p, i + 1, x)
      PROVE  LeadsTo(u, p, i + 1, x)
  <2>1. PICK d \in Directories : LeadsTo(t, p, i, d) /\ x \in Named(t, d, p[i + 1])
    BY <1>1, <1>3, LeadsFurther
  <2>2. Closed(t, Below(t, n)) /\ n \in Below(t, n)
    BY <1>1, BelowIsClosed
  <2>3. d \in Nodes \ Below(t, n)
    BY <1>3, <2>1, <2>2, FileTreeAssumption DEF Closed, Named
  <2>4. LeadsTo(u, p, i, d)
    BY <1>3, <2>1, <2>3
  <2>5. x \in Named(u, d, p[i + 1])
    BY <1>3, <2>1, <2>2, <2>3, Pruned DEF Named
  <2> QED
    BY <1>1, <2>4, <2>5, LeadsFurther
<1>4. T = Nat
  <2>1. T \in SUBSET Nat /\ 0 \in T /\ \A i \in T : i + 1 \in T
    BY <1>2, <1>3
  <2> HIDE DEF T
  <2> QED
    BY <2>1, SetInduction
<1> QED
  BY <1>4

-----------------------------------------------------------------------------
(* The lookup *)

\* What a lookup under way has come to: the directory it is in is the one that
\* the components taken so far lead to, unless it was removed in the meantime.
OnItsWay(taken) ==
    /\ remaining = SubSeq(path, taken + 1, Len(path))
    /\ current \in Reachable(tree) => LeadsTo(tree, path, taken, current)

UnderWay ==
    stage \in {"created", "waiting", "scanning"} =>
        /\ current \in Directories
        /\ stage = "created" => current = Root
        /\ \E taken \in 0 .. Len(path) - 1 : OnItsWay(taken)

\* A directory that is waited for is in the tree or was removed for good.
ThereOrGone ==
    /\ stage = "waiting" => current \in Reachable(tree) \cup gone
    /\ stage \in {"created", "scanning"} => current \in Reachable(tree)

\* What is found is what the path names, or else a file behind a trailing slash.
WrongOnlyBySlash ==
    stage = "done" =>
        \/ IsNamed(tree, path, current)
        \/ ~IsDirectory(current) /\ Len(path) > 1 /\ path[Len(path)] = Empty

LookupInv == FailsOnlyIfAbsent /\ UnderWay /\ ThereOrGone /\ WrongOnlyBySlash

\* What there is to know of a path.
LEMMA PathFacts ==
    ASSUME NEW p \in Paths
    PROVE  /\ p \in Seq(Components) /\ Len(p) \in Nat /\ Len(p) >= 1
           /\ \A i \in 1 .. Len(p) - 1 : p[i] # Empty
           /\ Steps(p) \in Nat
           /\ Steps(p) = IF p[Len(p)] = Empty THEN Len(p) - 1 ELSE Len(p)
<1>1. p \in Seq(Components) /\ p # << >>
  BY PathLookupAssumption
<1>2. Len(p) \in Nat /\ Len(p) >= 1
  BY <1>1, EmptySeq
<1> QED
  BY <1>1, <1>2, PathLookupAssumption DEF Steps

\* The components that remain, one taken after the other.
LEMMA RestFacts ==
    ASSUME NEW p \in Paths, NEW k \in 0 .. Len(p) - 1,
           NEW rest, rest = SubSeq(p, k + 1, Len(p))
    PROVE  /\ Head(rest) = p[k + 1]
           /\ Tail(rest) = SubSeq(p, k + 2, Len(p))
           /\ Tail(rest) = << >> <=> Len(p) = k + 1
           /\ Tail(rest) = <<Empty>> => Len(p) = k + 2 /\ p[Len(p)] = Empty
<1>1. p \in Seq(Components) /\ Len(p) \in Nat /\ k + 1 \in 1 .. Len(p)
  BY PathFacts
<1>2. Head(rest) = p[k + 1] /\ Tail(rest) = SubSeq(p, (k + 1) + 1, Len(p))
  BY <1>1, HeadTailOfSubSeq
<1>3. (k + 1) + 1 = k + 2 /\ k + 2 \in Int /\ Len(p) \in Int
  BY <1>1
<1>4. PICK more : more = SubSeq(p, k + 2, Len(p))
  OBVIOUS
<1>5. /\ Len(more) = IF k + 2 <= Len(p) THEN Len(p) - (k + 2) + 1 ELSE 0
      /\ \A i \in 1 .. Len(p) - (k + 2) + 1 : more[i] = p[(k + 2) + i - 1]
  <2>1. \A i \in k + 2 .. Len(p) : p[i] \in Components
    BY <1>1
  <2> QED
    BY <1>3, <1>4, <2>1, SubSeqProperties
<1>6. Len(p) = k + 1 => more = << >>
  BY <1>1, <1>3, <1>4, SubSeqEmpty
<1>7. more = << >> => Len(p) = k + 1
  BY <1>1, <1>5
<1>8. more = <<Empty>> => Len(p) = k + 2 /\ p[Len(p)] = Empty
  <2> SUFFICES ASSUME more = <<Empty>> PROVE Len(p) = k + 2 /\ p[Len(p)] = Empty
    OBVIOUS
  <2>1. Len(more) = 1 /\ more[1] = Empty
    OBVIOUS
  <2>2. Len(p) = k + 2
    BY <1>1, <1>5, <2>1
  <2> QED
    BY <1>1, <1>5, <2>1, <2>2
<1> QED
  BY <1>2, <1>3, <1>4, <1>6, <1>7, <1>8

\* One component of a path, taken in the directory that those before lead to.
LEMMA OneStep ==
    ASSUME NEW t, IsTree(t), NEW p \in Paths, NEW k \in 0 .. Len(p) - 1,
           NEW c \in Directories, LeadsTo(t, p, k, c)
    PROVE  /\ p[k + 1] = Empty => IsNamed(t, p, c)
           /\ \A n \in Named(t, c, p[k + 1]) : LeadsTo(t, p, k + 1, n)
           /\ p[k + 1] # Empty /\ Named(t, c, p[k + 1]) = {} =>
                \A n \in Nodes : ~IsNamed(t, p, n)
<1>1. /\ Len(p) \in Nat /\ k \in Nat /\ k + 1 \in 1 .. Len(p) /\ Steps(p) \in Nat
      /\ Steps(p) = IF p[Len(p)] = Empty THEN Len(p) - 1 ELSE Len(p)
      /\ \A i \in 1 .. Len(p) - 1 : p[i] # Empty
  BY PathFacts
<1>2. HasNodes(t)
  BY TreeHasNodes
<1>3. p[k + 1] = Empty => IsNamed(t, p, c)
  <2> SUFFICES ASSUME p[k + 1] = Empty PROVE Steps(p) = k
    BY DEF IsNamed
  <2>1. k + 1 = Len(p)
    BY <1>1
  <2> QED
    BY <1>1, <2>1
<1>4. ASSUME NEW n \in Named(t, c, p[k + 1])
      PROVE  LeadsTo(t, p, k + 1, n)
  <2>1. n \in Nodes
    BY <1>2 DEF HasNodes, Named
  <2> QED
    BY <1>1, <1>2, <2>1, LeadsFurther
<1>5. ASSUME p[k + 1] # Empty, Named(t, c, p[k + 1]) = {},
             NEW n \in Nodes, LeadsTo(t, p, Steps(p), n)
      PROVE  FALSE
  <2>1. k + 1 \in 0 .. Steps(p)
    BY <1>1, <1>5
  <2>2. PICK m \in Nodes : LeadsTo(t, p, k + 1, m)
    BY <1>1, <1>5, <2>1, LeadsOnTheWay
  <2>3. PICK d \in Directories : LeadsTo(t, p, k, d) /\ m \in Named(t, d, p[k + 1])
    BY <1>1, <1>2, <2>2, LeadsFurther
  <2>4. d = c
    BY <1>1, <2>3, LeadsToOne, FileTreeAssumption
  <2> QED
    BY <1>5, <2>3, <2>4
<1> QED
  BY <1>3, <1>4, <1>5 DEF IsNamed

\* A directory to go on with, which the components taken so far lead to: it is
\* looked at now, or waited for, or is no directory.
LEMMA ExploreStep ==
    ASSUME LookupTypeOK, NEW d \in Reachable(tree), explore(d),
           UNCHANGED <<tree, gone, explored, path, changes>>,
           NEW taken \in 0 .. Len(path) - 1, LeadsTo(tree, path, taken, d),
           remaining' = SubSeq(path, taken + 1, Len(path))
    PROVE  LookupInv'
<1>1. d \in Nodes /\ current' = d
  BY DEF Reachable, Below, explore
<1>2. stage' \in {"scanning", "waiting", "stuck"} /\ (stage' # "stuck" => d \in Directories)
  BY DEF explore, IsDirectory, LookupTypeOK
<1>3. LookupTypeOK'
  <2>1. \E k \in 0 .. Len(path) : remaining' = SubSeq(path, k + 1, Len(path))
    BY PathFacts DEF LookupTypeOK
  <2> QED
    BY <1>1, <1>2, <2>1 DEF LookupTypeOK
<1>4. UnderWay'
  BY <1>1, <1>2 DEF UnderWay, OnItsWay
<1>5. ThereOrGone'
  BY <1>1, <1>2 DEF ThereOrGone
<1> QED
  BY <1>2, <1>3, <1>4, <1>5 DEF LookupInv, FailsOnlyIfAbsent, WrongOnlyBySlash

\* The lookup is over.
LEMMA EndStep ==
    ASSUME LookupTypeOK, NEW n \in Nodes, current' = n,
           UNCHANGED <<tree, gone, explored, path, changes>>,
           NEW k \in 0 .. Len(path), remaining' = SubSeq(path, k + 1, Len(path)),
           \/ stage' = "failed" /\ \A m \in Nodes : ~IsNamed(tree, path, m)
           \/ /\ stage' = "done"
              /\ \/ IsNamed(tree, path, n)
                 \/ ~IsDirectory(n) /\ Len(path) > 1 /\ path[Len(path)] = Empty
    PROVE  LookupInv'
<1>1. LookupTypeOK'
  BY DEF LookupTypeOK
<1>2. UnderWay' /\ ThereOrGone'
  BY DEF UnderWay, ThereOrGone
<1>3. (stage = "failed" => \A m \in Nodes : ~IsNamed(tree, path, m))'
  OBVIOUS
<1>4. WrongOnlyBySlash'
  BY DEF WrongOnlyBySlash
<1> QED
  BY <1>1, <1>2, <1>3, <1>4 DEF LookupInv, FailsOnlyIfAbsent

\* The handler of an explored directory keeps the invariant, whatever it finds there.
LEMMA DirectoryExploredStep == LookupInv /\ directoryExplored => LookupInv'
<1> SUFFICES ASSUME LookupInv, directoryExplored PROVE LookupInv'
  OBVIOUS
<1>1. LookupTypeOK /\ stage = "scanning" /\ UNCHANGED <<tree, gone, explored, path, changes>>
  BY DEF LookupInv, FailsOnlyIfAbsent, directoryExplored
<1>2. IsTree(tree) /\ HasNodes(tree) /\ path \in Paths
  BY <1>1, TreeHasNodes DEF LookupTypeOK
<1>3. current \in Directories /\ current \in Nodes /\ current \in Reachable(tree)
  BY <1>1, FileTreeAssumption DEF LookupInv, UnderWay, ThereOrGone
<1>4. PICK k \in 0 .. Len(path) - 1 :
        /\ remaining = SubSeq(path, k + 1, Len(path))
        /\ LeadsTo(tree, path, k, current)
  BY <1>1, <1>3 DEF LookupInv, UnderWay, OnItsWay
<1> DEFINE name     == Head(remaining)
           rest     == Tail(remaining)
           siblings == tree[current]
           found    == Scan(siblings, name)
           reached  == IF found = Nowhere THEN Last(siblings) ELSE found
<1>5. /\ name = path[k + 1] /\ rest = SubSeq(path, k + 2, Len(path))
      /\ rest = << >> <=> Len(path) = k + 1
      /\ rest = <<Empty>> => Len(path) = k + 2 /\ path[Len(path)] = Empty
  BY <1>2, <1>4, RestFacts
<1>6. /\ name = Empty => IsNamed(tree, path, current)
      /\ \A n \in Named(tree, current, name) : LeadsTo(tree, path, k + 1, n)
      /\ name # Empty /\ Named(tree, current, name) = {} =>
           \A n \in Nodes : ~IsNamed(tree, path, n)
  BY <1>2, <1>3, <1>4, <1>5, OneStep
<1>7. /\ Len(path) \in Nat /\ k \in Nat /\ k + 1 \in 0 .. Len(path)
      /\ \A i \in 1 .. Len(path) - 1 : path[i] # Empty
      /\ Steps(path) = IF path[Len(path)] = Empty THEN Len(path) - 1 ELSE Len(path)
  BY <1>2, PathFacts
<1>8. Named(tree, current, name) \subseteq Nodes
  BY <1>2, <1>3 DEF HasNodes, Named
<1>9. \/ found = Nowhere /\ Named(tree, current, name) = {}
      \/ found # Nowhere /\ found \in Named(tree, current, name)
  BY <1>8, FileTreeAssumption DEF Scan, Named, ChildrenOf
<1>10. remaining' = SubSeq(path, (k + 1) + 1, Len(path))
  <2>1. remaining' = rest /\ (k + 1) + 1 = k + 2
    BY <1>7 DEF directoryExplored
  <2> QED
    BY <1>5, <2>1
<1>11. siblings # << >> => reached \in Nodes
  <2> SUFFICES ASSUME siblings # << >>, found = Nowhere PROVE Last(siblings) \in Nodes
    BY <1>8, <1>9
  <2>1. siblings \in Seq(Nodes \ {Root})
    BY <1>2, <1>3 DEF IsTree
  <2>2. Len(siblings) \in 1 .. Len(siblings)
    BY <2>1, EmptySeq
  <2> QED
    BY <2>1, <2>2, ElementOfSeq DEF Last
<1>12. CASE name = Empty /\ finish(current)
  BY <1>1, <1>3, <1>6, <1>7, <1>10, <1>12, EndStep DEF finish
<1>13. CASE name # Empty /\ siblings = << >> /\ fail(current)
  <2>1. Named(tree, current, name) = {}
    BY <1>13 DEF Named, ChildrenOf, ToSet
  <2> QED
    BY <1>1, <1>3, <1>6, <1>7, <1>10, <1>13, <2>1, EndStep DEF fail
<1>14. CASE /\ name # Empty /\ siblings # << >>
            /\ \/ found # Nowhere /\ rest = << >>
               \/ rest = <<Empty>> /\ ~IsDirectory(reached)
            /\ finish(reached)
  <2>1. CASE found # Nowhere
    <3>1. Steps(path) = k + 1
      BY <1>5, <1>7, <1>14
    <3>2. reached \in Named(tree, current, name)
      BY <1>9, <2>1
    <3>3. IsNamed(tree, path, reached)
      BY <1>6, <3>1, <3>2 DEF IsNamed
    <3> HIDE DEF name, rest, siblings, found, reached
    <3> QED
      BY <1>1, <1>7, <1>10, <1>11, <1>14, <3>3, EndStep DEF finish
  <2>2. CASE found = Nowhere
    <3>1. ~IsDirectory(reached) /\ Len(path) > 1 /\ path[Len(path)] = Empty
      BY <1>5, <1>7, <1>14, <2>2
    <3> HIDE DEF name, rest, siblings, found, reached
    <3> QED
      BY <1>1, <1>7, <1>10, <1>11, <1>14, <3>1, EndStep DEF finish
  <2> QED
    BY <2>1, <2>2
<1>15. CASE found # Nowhere /\ rest # << >> /\ explore(found)
  <2>1. k + 1 \in 0 .. Len(path) - 1
    BY <1>5, <1>7, <1>15
  <2>2. LeadsTo(tree, path, k + 1, found)
    BY <1>6, <1>9, <1>15
  <2>3. found \in Reachable(tree)
    <3>1. Closed(tree, Reachable(tree))
      BY <1>2, BelowIsClosed, FileTreeAssumption DEF Reachable
    <3> QED
      BY <1>3, <1>9, <1>15, <3>1 DEF Closed, Named
  <2> HIDE DEF found
  <2> QED
    BY <1>1, <1>10, <1>15, <2>1, <2>2, <2>3, ExploreStep
<1>16. CASE name # Empty /\ siblings # << >> /\ found = Nowhere /\ fail(reached)
  <2>1. \A n \in Nodes : ~IsNamed(tree, path, n)
    BY <1>6, <1>9, <1>16
  <2> HIDE DEF name, rest, siblings, found, reached
  <2> QED
    BY <1>1, <1>7, <1>10, <1>11, <1>16, <2>1, EndStep DEF fail
<1> QED
  BY <1>12, <1>13, <1>14, <1>15, <1>16 DEF directoryExplored

\* Others add a file or directory while the lookup waits.
LEMMA NodeAddedStep ==
    ASSUME LookupInv, NEW n \in Nodes \ {Root}, NEW d \in Directories, nodeAdded(n, d)
    PROVE  LookupInv'
<1>1. /\ LookupTypeOK /\ stage = "waiting" /\ IsTree(tree)
      /\ UNCHANGED <<gone, explored, path, remaining, current, stage>>
  BY DEF LookupInv, FailsOnlyIfAbsent, LookupTypeOK, nodeAdded
<1>2. /\ d \in Reachable(tree) /\ n \notin Reachable(tree) /\ n \notin gone
      /\ Named(tree, d, NameOf[n]) = {}
  BY DEF nodeAdded
<1>3. PICK t, u : t = tree /\ u = tree'
  OBVIOUS
<1>4. /\ IsTree(tree')
      /\ \A e \in Directories : ChildrenOf(tree, e) \subseteq ChildrenOf(tree', e)
      /\ Reachable(tree) \subseteq Reachable(tree')
      /\ Reachable(tree') \subseteq Reachable(tree) \cup {n}
  <2>1. IsTree(t) /\ t \in [Directories -> Seq(Nodes \ {Root})]
    BY <1>1, <1>3 DEF IsTree
  <2>2. PICK list \in Seq(Nodes \ {Root}) : list = t[d]
    BY <2>1
  <2>3. PICK more : /\ more = Append(list, n) \/ more = <<n>> \o list
                    /\ u = [t EXCEPT ![d] = more]
    BY <1>3, <2>2 DEF nodeAdded
  <2>4. /\ \A i, j \in DOMAIN list : i # j => NameOf[list[i]] # NameOf[list[j]]
        /\ \A m \in ToSet(list) : NameOf[m] # NameOf[n]
    BY <1>2, <1>3, <2>1, <2>2 DEF IsTree, Named, ChildrenOf
  <2>5. /\ more \in Seq(Nodes \ {Root})
        /\ ToSet(more) = ToSet(list) \cup {n}
        /\ \A i, j \in DOMAIN more : i # j => NameOf[more[i]] # NameOf[more[j]]
    BY <2>3, <2>4, ChildrenOfAdded
  <2>6. /\ u \in [Directories -> Seq(Nodes \ {Root})]
        /\ u[d] = more /\ \A e \in Directories : e # d => u[e] = t[e]
    BY <2>1, <2>3, <2>5
  <2>7. d \in Reachable(t) /\ n \notin Reachable(t)
    BY <1>2, <1>3
  <2>8. /\ ToSet(u[d]) = ToSet(t[d]) \cup {n}
        /\ \A i, j \in DOMAIN u[d] : i # j => NameOf[u[d][i]] # NameOf[u[d][j]]
    BY <2>2, <2>5, <2>6
  <2>9. /\ IsTree(u)
        /\ \A e \in Directories : ChildrenOf(t, e) \subseteq ChildrenOf(u, e)
        /\ Reachable(t) \subseteq Reachable(u)
        /\ Reachable(u) \subseteq Reachable(t) \cup {n}
    BY <2>1, <2>6, <2>7, <2>8, Grown
  <2> QED
    BY <1>3, <2>9
<1>5. LookupTypeOK'
  <2>1. changes' \in Nat
    BY <1>1 DEF nodeAdded, LookupTypeOK
  <2> QED
    BY <1>1, <1>4, <2>1 DEF LookupTypeOK
<1>6. ThereOrGone'
  BY <1>1, <1>4 DEF LookupInv, ThereOrGone
<1>7. UnderWay'
  <2>1. PICK k \in 0 .. Len(path) - 1 : OnItsWay(k)
    BY <1>1 DEF LookupInv, UnderWay
  <2>2. current \in Reachable(tree') => current \in Reachable(tree)
    BY <1>1, <1>2, <1>4 DEF LookupInv, ThereOrGone
  <2>3. current \in Reachable(tree') => LeadsTo(tree', path, k, current)
    BY <1>4, <2>1, <2>2, LeadsInLarger DEF OnItsWay
  <2>4. OnItsWay(k)'
    BY <1>1, <2>1, <2>3 DEF OnItsWay
  <2> QED
    BY <1>1, <2>4 DEF LookupInv, UnderWay
<1> QED
  BY <1>1, <1>5, <1>6, <1>7 DEF LookupInv, FailsOnlyIfAbsent, WrongOnlyBySlash

\* Others remove one, perhaps the directory that is waited for or one above it.
LEMMA NodeRemovedStep ==
    ASSUME LookupInv, NEW n \in Nodes \ {Root}, nodeRemoved(n)
    PROVE  LookupInv'
<1>1. /\ LookupTypeOK /\ stage = "waiting" /\ IsTree(tree)
      /\ UNCHANGED <<path, remaining, current, stage>>
      /\ tree' = Without(tree, n) /\ gone' = gone \cup Below(tree, n)
  BY DEF LookupInv, FailsOnlyIfAbsent, LookupTypeOK, nodeRemoved
<1>2. /\ IsTree(tree')
      /\ Reachable(tree) \subseteq Reachable(tree') \cup Below(tree, n)
      /\ Reachable(tree') \subseteq Reachable(tree) \ Below(tree, n)
  BY <1>1, Pruned
<1>3. LookupTypeOK'
  <2>1. gone' \subseteq Nodes
    BY <1>1 DEF LookupTypeOK, Below
  <2>2. explored' \subseteq Directories /\ changes' \in Nat
    BY <1>1 DEF LookupTypeOK, nodeRemoved
  <2> QED
    BY <1>1, <1>2, <2>1, <2>2 DEF LookupTypeOK
<1>4. ThereOrGone'
  BY <1>1, <1>2 DEF LookupInv, ThereOrGone
<1>5. UnderWay'
  <2>1. PICK k \in 0 .. Len(path) - 1 : OnItsWay(k)
    BY <1>1 DEF LookupInv, UnderWay
  <2>2. ASSUME current \in Reachable(tree')
        PROVE  LeadsTo(tree', path, k, current)
    <3>1. current \in Nodes \ Below(tree, n) /\ current \in Reachable(tree)
      BY <1>1, <1>2, <2>2 DEF LookupTypeOK
    <3>2. LeadsTo(tree, path, k, current) /\ k \in Nat
      BY <2>1, <3>1 DEF OnItsWay
    <3> QED
      BY <1>1, <3>1, <3>2, LeadsInSmaller
  <2>3. OnItsWay(k)'
    BY <1>1, <2>1, <2>2 DEF OnItsWay
  <2> QED
    BY <1>1, <2>3 DEF LookupInv, UnderWay
<1> QED
  BY <1>1, <1>3, <1>4, <1>5 DEF LookupInv, FailsOnlyIfAbsent, WrongOnlyBySlash

\* Before the first component is taken, the lookup is at the root.
LEMMA LookupInitial == LookupInit => LookupInv
<1> SUFFICES ASSUME LookupInit PROVE LookupInv
  OBVIOUS
<1>1. IsTree(tree) /\ path \in Paths /\ stage = "created" /\ current = Root
  BY PathLookupAssumption DEF LookupInit
<1>2. remaining = SubSeq(path, 0 + 1, Len(path)) /\ 0 \in 0 .. Len(path) - 1
  BY <1>1, PathFacts, SubSeqFull DEF LookupInit
<1>3. LookupTypeOK
  BY <1>1, <1>2, PathFacts, FileTreeAssumption DEF LookupInit, LookupTypeOK
<1>4. LeadsTo(tree, path, 0, Root) /\ Root \in Reachable(tree)
  BY <1>1, LeadsNowhere, TreeHasNodes, BelowIsClosed, FileTreeAssumption DEF Reachable
<1>5. UnderWay /\ ThereOrGone
  BY <1>1, <1>2, <1>4, FileTreeAssumption DEF UnderWay, ThereOrGone, OnItsWay
<1> QED
  BY <1>1, <1>3, <1>5 DEF LookupInv, FailsOnlyIfAbsent, WrongOnlyBySlash

\* Every step of the lookup and of the server keeps the invariant.
LEMMA LookupInductive == LookupInv /\ [LookupNext]_lookupVars => LookupInv'
<1> SUFFICES ASSUME LookupInv, [LookupNext]_lookupVars PROVE LookupInv'
  OBVIOUS
<1>1. LookupTypeOK
  BY DEF LookupInv, FailsOnlyIfAbsent
<1>2. CASE begin
  <2>1. PICK k \in 0 .. Len(path) - 1 : OnItsWay(k)
    BY <1>2 DEF LookupInv, UnderWay, begin
  <2>2. current = Root /\ Root \in Reachable(tree)
    BY <1>2 DEF LookupInv, UnderWay, ThereOrGone, begin
  <2>3. LeadsTo(tree, path, k, Root) /\ remaining' = SubSeq(path, k + 1, Len(path))
    BY <1>2, <2>1, <2>2 DEF OnItsWay, begin
  <2> QED
    BY <1>1, <1>2, <2>2, <2>3, ExploreStep DEF begin
<1>3. CASE directoryExplored
  BY <1>3, DirectoryExploredStep
<1>4. CASE exploreFinished
  <2>1. /\ UNCHANGED <<tree, gone, path, remaining, current, changes>>
        /\ stage = "waiting" /\ stage' = "scanning" /\ current \in Reachable(tree)
        /\ explored' = explored \cup {current}
    BY <1>4 DEF exploreFinished
  <2>2. current \in Directories /\ \E k \in 0 .. Len(path) - 1 : OnItsWay(k)
    BY <2>1 DEF LookupInv, UnderWay
  <2>3. LookupTypeOK'
    BY <1>1, <2>1, <2>2 DEF LookupTypeOK
  <2>4. UnderWay' /\ ThereOrGone'
    BY <2>1, <2>2 DEF UnderWay, OnItsWay, ThereOrGone
  <2> QED
    BY <2>1, <2>3, <2>4 DEF LookupInv, FailsOnlyIfAbsent, WrongOnlyBySlash
<1>5. CASE exploreFailed
  <2>1. /\ UNCHANGED <<tree, gone, explored, path, remaining, current, changes>>
        /\ stage' = "unanswered"
    BY <1>5 DEF exploreFailed
  <2>2. LookupTypeOK'
    BY <1>1, <2>1 DEF LookupTypeOK
  <2> QED
    BY <2>1, <2>2
       DEF LookupInv, FailsOnlyIfAbsent, UnderWay, ThereOrGone, WrongOnlyBySlash
<1>6. ASSUME NEW n \in Nodes \ {Root}, NEW d \in Directories, nodeAdded(n, d)
      PROVE  LookupInv'
  BY <1>6, NodeAddedStep
<1>7. ASSUME NEW n \in Nodes \ {Root}, nodeRemoved(n)
      PROVE  LookupInv'
  BY <1>7, NodeRemovedStep
<1>8. CASE UNCHANGED lookupVars
  BY <1>8 DEF lookupVars, LookupInv, FailsOnlyIfAbsent, LookupTypeOK, UnderWay, OnItsWay,
       ThereOrGone, WrongOnlyBySlash
<1> QED
  BY <1>2, <1>3, <1>4, <1>5, <1>6, <1>7, <1>8 DEF LookupNext

LEMMA LookupInvariance == LookupSpec => []LookupInv
  BY LookupInitial, LookupInductive, PTL DEF LookupSpec

\* A lookup fails only when nothing has that name, in a tree of any size and depth
\* that others change meanwhile, with or without a slash at the end of the path
\* (directoryExplored).
THEOREM FailsIfAbsent == LookupSpec => []FailsOnlyIfAbsent
<1>1. LookupInv => FailsOnlyIfAbsent
  BY DEF LookupInv
<1> QED
  BY <1>1, LookupInvariance, PTL

\* What a lookup finds is what its path names, or else a file while the path ends
\* with a slash: directories are never mistaken (utils.cpp:188).
THEOREM WrongOnlyForFiles == LookupSpec => []WrongOnlyBySlash
<1>1. LookupInv => WrongOnlyBySlash
  BY DEF LookupInv
<1> QED
  BY <1>1, LookupInvariance, PTL

\* No path ends with a slash, but that of the root, which is nothing else: so the
\* plugin asks (manageddocument.cpp:148).
PlainPaths == \A p \in Paths : p[Len(p)] = Empty => Len(p) = 1

\* Without trailing slashes a lookup finds what its path names, in the tree as it
\* is then, whatever others add and remove while it waits for explorations.
THEOREM FindsNamed == PlainPaths => (LookupSpec => []FindsWhatIsNamed)
<1> SUFFICES ASSUME PlainPaths PROVE LookupSpec => []FindsWhatIsNamed
  OBVIOUS
<1>1. LookupInv => FindsWhatIsNamed
  <2> SUFFICES ASSUME LookupInv, stage = "done" PROVE IsNamed(tree, path, current)
    BY DEF FindsWhatIsNamed
  <2>1. path \in Paths
    BY DEF LookupInv, FailsOnlyIfAbsent, LookupTypeOK
  <2>2. path[Len(path)] = Empty => Len(path) = 1
    BY <2>1 DEF PlainPaths
  <2>3. \/ IsNamed(tree, path, current)
        \/ Len(path) > 1 /\ path[Len(path)] = Empty
    BY DEF LookupInv, WrongOnlyBySlash
  <2> QED
    BY <2>2, <2>3
<1> QED
  BY <1>1, LookupInvariance, PTL
================================================================================
