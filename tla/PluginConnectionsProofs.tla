------------------------ MODULE PluginConnectionsProofs ------------------------
(* Theorems about PluginConnections, for any number of documents, hosts and    *)
(* Connections.                                                                *)
EXTENDS PluginConnections, TLAPS

\* What of the types the theorems need: who shares which Connection.
Pointers ==
    /\ connections \in [Hosts -> Conns \cup {None}]
    /\ conn \in [Conns -> Alive \cup {"unused", "deleted"}]
    /\ managed \subseteq Docs
    /\ connection \in [Docs -> Conns \cup {None}]
    /\ \A d \in managed : connection[d] \in Conns

\* The slots of a Connection that was made: the plugin's is the first.
SlotsInv ==
    /\ receivers \in [Conns -> Seq(Docs \cup {plugin})]
    /\ \A c \in Conns : conn[c] # "unused" =>
          Len(receivers[c]) > 0 /\ receivers[c][1] = plugin

\* A document is subscribed before it is ready, and managed before that.
StagesInv ==
    /\ ready \subseteq subscribed /\ subscribed \subseteq managed
    /\ readWrite \subseteq Docs /\ crashed \in BOOLEAN

IInv == Pointers /\ SlotsInv /\ StagesInv /\ TableIsLive /\ NoneOverlooked

-----------------------------------------------------------------------------
(* Pointers *)

LEMMA PointersInductive == Pointers /\ [Next]_vars => Pointers'
<1> SUFFICES ASSUME Pointers, [Next]_vars
             PROVE  Pointers'
  OBVIOUS
<1> USE PluginConnectionsAssumption DEF docs
<1>1. ASSUME NEW d \in Docs, checkManageDocument(d)
      PROVE  Pointers'
  <2>1. PICK c \in Conns :
           /\ \/ UNCHANGED <<connections, conn>>
              \/ /\ connections' = [connections EXCEPT ![HostOf[d]] = c]
                 /\ conn' = [conn EXCEPT ![c] = "resolving"]
           /\ connection' = [connection EXCEPT ![d] = c]
    BY <1>1 DEF checkManageDocument
  <2>2. managed' = managed \cup {d}
    BY <1>1 DEF checkManageDocument
  <2> QED
    BY <2>1, <2>2 DEF Pointers, Alive
<1>2. ASSUME NEW d \in Docs, synchronizationComplete(d) \/ retrySubscribe(d)
      PROVE  Pointers'
  BY <1>2 DEF synchronizationComplete, retrySubscribe, Pointers
<1>3. ASSUME NEW d \in Docs, removeDocument(d)
      PROVE  Pointers'
  BY <1>3 DEF removeDocument, Pointers
<1>4. ASSUME NEW c \in Conns, slotHostnameLookedUp(c)
      PROVE  Pointers'
  BY <1>4 DEF slotHostnameLookedUp, Pointers, Alive
<1>5. ASSUME NEW c \in Conns, browserConnected(c)
      PROVE  Pointers'
  BY <1>5 DEF browserConnected, Pointers, Alive
<1>6. ASSUME NEW c \in Conns, connectionDisconnected(c)
      PROVE  Pointers'
  BY <1>6 DEF connectionDisconnected, Take, Pointers
<1>7. CASE UNCHANGED vars
  BY <1>7 DEF vars, Pointers
<1> QED
  BY <1>1, <1>2, <1>3, <1>4, <1>5, <1>6, <1>7 DEF Next

-----------------------------------------------------------------------------
(* The table *)

LEMMA TableInductive == Pointers /\ TableIsLive /\ [Next]_vars => TableIsLive'
<1> SUFFICES ASSUME Pointers, TableIsLive, [Next]_vars
             PROVE  TableIsLive'
  OBVIOUS
<1> USE PluginConnectionsAssumption DEF docs
<1>1. ASSUME NEW d \in Docs, checkManageDocument(d)
      PROVE  TableIsLive'
  <2>1. PICK c \in Conns :
           /\ \/ /\ connections[HostOf[d]] = c
                 /\ UNCHANGED <<connections, conn>>
              \/ /\ connections[HostOf[d]] = None
                 /\ conn[c] = "unused"
                 /\ connections' = [connections EXCEPT ![HostOf[d]] = c]
                 /\ conn' = [conn EXCEPT ![c] = "resolving"]
           /\ connection' = [connection EXCEPT ![d] = c]
    BY <1>1 DEF checkManageDocument, Known
  <2>2. managed' = managed \cup {d}
    BY <1>1 DEF checkManageDocument
  <2>3. HostOf[d] \in Hosts
    OBVIOUS
  <2>4. CASE UNCHANGED <<connections, conn>> /\ connections[HostOf[d]] = c
    BY <2>1, <2>2, <2>4 DEF TableIsLive, Pointers, Dangling
  <2>5. CASE /\ connections[HostOf[d]] = None
             /\ conn[c] = "unused"
             /\ connections' = [connections EXCEPT ![HostOf[d]] = c]
             /\ conn' = [conn EXCEPT ![c] = "resolving"]
    <3>1. \A h \in Hosts : connections[h] # None => conn'[connections[h]] \in Alive
      BY <2>5 DEF TableIsLive, Pointers, Alive
    <3>2. ASSUME NEW h \in Hosts, connections'[h] # None
          PROVE  conn'[connections'[h]] \in Alive
      BY <2>3, <2>5, <3>1, <3>2 DEF Pointers, Alive
    <3>3. ASSUME NEW e \in managed', ~Dangling(e)'
          PROVE  connections'[HostOf[e]] = connection'[e]
      <4>1. CASE e = d
        BY <2>1, <2>3, <2>5, <4>1 DEF Pointers
      <4>2. CASE e # d
        <5>1. e \in managed /\ e \in Docs /\ connection'[e] = connection[e]
          BY <2>1, <2>2, <4>2 DEF Pointers
        <5>2. connection[e] \in Conns /\ HostOf[e] \in Hosts
          BY <5>1 DEF Pointers
        <5>3. conn[connection[e]] # "deleted"
          BY <2>5, <3>3, <5>1, <5>2 DEF Dangling, Pointers
        <5>4. connections[HostOf[e]] = connection[e]
          BY <5>1, <5>3 DEF TableIsLive, Dangling
        <5>5. HostOf[e] # HostOf[d]
          BY <2>5, <5>2, <5>4
        <5> QED
          BY <2>5, <5>1, <5>2, <5>4, <5>5 DEF Pointers
      <4> QED
        BY <4>1, <4>2
    <3> QED
      BY <3>2, <3>3 DEF TableIsLive
  <2> QED
    BY <2>1, <2>4, <2>5
<1>2. ASSUME NEW d \in Docs, synchronizationComplete(d) \/ retrySubscribe(d)
      PROVE  TableIsLive'
  BY <1>2 DEF synchronizationComplete, retrySubscribe, TableIsLive, Dangling
<1>3. ASSUME NEW d \in Docs, removeDocument(d)
      PROVE  TableIsLive'
  BY <1>3 DEF removeDocument, TableIsLive, Dangling, Pointers
<1>4. ASSUME NEW c \in Conns,
             conn[c] \in Alive,
             \E s \in Alive : conn' = [conn EXCEPT ![c] = s],
             UNCHANGED <<connections, managed, connection>>
      PROVE  TableIsLive'
  BY <1>4 DEF TableIsLive, Dangling, Pointers, Alive
<1>5. ASSUME NEW c \in Conns, slotHostnameLookedUp(c) \/ browserConnected(c)
      PROVE  TableIsLive'
  <2>1. conn[c] \in Alive /\ \E s \in Alive : conn' = [conn EXCEPT ![c] = s]
    BY <1>5 DEF slotHostnameLookedUp, browserConnected, Alive
  <2>2. UNCHANGED <<connections, managed, connection>>
    BY <1>5 DEF slotHostnameLookedUp, browserConnected
  <2> QED
    BY <1>4, <2>1, <2>2
<1>6. ASSUME NEW c \in Conns, connectionDisconnected(c)
      PROVE  TableIsLive'
  <2>1. /\ conn' = [conn EXCEPT ![c] = "deleted"]
        /\ connections' = [h \in Hosts |->
                              IF connections[h] = c THEN None ELSE connections[h]]
        /\ UNCHANGED <<managed, connection>>
    BY <1>6 DEF connectionDisconnected, Take
  <2> QED
    BY <2>1 DEF TableIsLive, Dangling, Pointers, Alive
<1>7. CASE UNCHANGED vars
  BY <1>7 DEF vars, TableIsLive, Dangling
<1> QED
  BY <1>1, <1>2, <1>3, <1>5, <1>6, <1>7 DEF Next

-----------------------------------------------------------------------------
(* Subscriptions *)

\* Whoever runs subscribeNewDocuments() and survives has overlooked nobody.
LEMMA NobodyLeftOut ==
    ASSUME subscribeNewDocuments(managed', connection', conn')
    PROVE  NoneOverlooked'
  BY DEF subscribeNewDocuments, NoneOverlooked

LEMMA OverlookedInductive ==
    Pointers /\ NoneOverlooked /\ [Next]_vars => NoneOverlooked'
<1> SUFFICES ASSUME Pointers, NoneOverlooked, [Next]_vars
             PROVE  NoneOverlooked'
  OBVIOUS
<1> USE DEF docs
<1>1. ASSUME NEW d \in Docs, checkManageDocument(d)
      PROVE  NoneOverlooked'
  BY <1>1, NobodyLeftOut DEF checkManageDocument
<1>2. ASSUME NEW d \in Docs, synchronizationComplete(d) \/ retrySubscribe(d)
      PROVE  NoneOverlooked'
  BY <1>2 DEF synchronizationComplete, retrySubscribe, NoneOverlooked
<1>3. ASSUME NEW d \in Docs, removeDocument(d)
      PROVE  NoneOverlooked'
  BY <1>3 DEF removeDocument, NoneOverlooked, Pointers
<1>4. ASSUME NEW c \in Conns, slotHostnameLookedUp(c)
      PROVE  NoneOverlooked'
  BY <1>4 DEF slotHostnameLookedUp, NoneOverlooked, Pointers
<1>5. ASSUME NEW c \in Conns, browserConnected(c)
      PROVE  NoneOverlooked'
  <2>1. UNCHANGED <<managed, connection>>
    BY <1>5 DEF browserConnected
  <2>2. subscribeNewDocuments(managed, connection, conn')
    BY <1>5 DEF browserConnected
  <2> QED
    BY <2>1, <2>2 DEF subscribeNewDocuments, NoneOverlooked
<1>6. ASSUME NEW c \in Conns, connectionDisconnected(c)
      PROVE  NoneOverlooked'
  BY <1>6 DEF connectionDisconnected, NoneOverlooked, Pointers
<1>7. CASE UNCHANGED vars
  BY <1>7 DEF vars, NoneOverlooked
<1> QED
  BY <1>1, <1>2, <1>3, <1>4, <1>5, <1>6, <1>7 DEF Next

-----------------------------------------------------------------------------
(* The slots *)

LEMMA FirstOfTwo ==
    ASSUME NEW S, NEW s \in Seq(S), NEW t \in Seq(S), Len(s) > 0
    PROVE  Len(s \o t) > 0 /\ (s \o t)[1] = s[1]
  OBVIOUS

\* A document that is disconnected leaves the slots of the others in their order.
LEMMA WithoutKeepsFirst ==
    ASSUME NEW slots \in Seq(Docs \cup {plugin}), NEW d \in Docs
    PROVE  /\ Without(slots, d) \in Seq(Docs \cup {plugin})
           /\ Len(slots) > 0 /\ slots[1] = plugin =>
                 Len(Without(slots, d)) > 0 /\ Without(slots, d)[1] = plugin
<1> DEFINE i == CHOOSE i \in DOMAIN slots : slots[i] = d
<1>1. CASE \A j \in DOMAIN slots : slots[j] # d
  BY <1>1 DEF Without
<1>2. CASE \E j \in DOMAIN slots : slots[j] = d
  <2>1. i \in 1 .. Len(slots) /\ slots[i] = d
    BY <1>2
  <2>2. Without(slots, d) = SubSeq(slots, 1, i - 1) \o SubSeq(slots, i + 1, Len(slots))
    BY <1>2 DEF Without
  <2> HIDE DEF i
  <2>3. SubSeq(slots, 1, i - 1) \in Seq(Docs \cup {plugin})
        /\ SubSeq(slots, i + 1, Len(slots)) \in Seq(Docs \cup {plugin})
    BY <2>1
  <2>4. ASSUME Len(slots) > 0, slots[1] = plugin
        PROVE  Len(Without(slots, d)) > 0 /\ Without(slots, d)[1] = plugin
    <3>1. i > 1
      BY <2>1, <2>4, PluginConnectionsAssumption
    <3>2. Len(SubSeq(slots, 1, i - 1)) = i - 1 /\ SubSeq(slots, 1, i - 1)[1] = plugin
      BY <2>1, <2>4, <3>1
    <3>3. Len(SubSeq(slots, 1, i - 1)) > 0
      BY <2>1, <3>1, <3>2
    <3> QED
      BY <2>2, <2>3, <3>2, <3>3, FirstOfTwo
  <2> QED
    BY <2>2, <2>3, <2>4
<1> QED
  BY <1>1, <1>2

LEMMA SlotsInductive == Pointers /\ SlotsInv /\ TableIsLive /\ [Next]_vars => SlotsInv'
<1> SUFFICES ASSUME Pointers, SlotsInv, TableIsLive, [Next]_vars
             PROVE  SlotsInv'
  OBVIOUS
<1> USE PluginConnectionsAssumption DEF docs
<1>1. ASSUME NEW d \in Docs, checkManageDocument(d)
      PROVE  SlotsInv'
  <2>1. PICK c \in Conns :
           \/ /\ connections[HostOf[d]] = c
              /\ UNCHANGED <<connections, conn>>
              /\ receivers' = [receivers EXCEPT ![c] = Append(@, d)]
           \/ /\ conn' = [conn EXCEPT ![c] = "resolving"]
              /\ receivers' = [receivers EXCEPT ![c] = <<plugin, d>>]
    BY <1>1 DEF checkManageDocument, Known
  <2>2. CASE /\ connections[HostOf[d]] = c
             /\ UNCHANGED <<connections, conn>>
             /\ receivers' = [receivers EXCEPT ![c] = Append(@, d)]
    <3>1. Append(receivers[c], d) \in Seq(Docs \cup {plugin})
      BY DEF SlotsInv
    <3>2. conn[c] # "unused"
      BY <2>2 DEF TableIsLive, Pointers, Alive
    <3>3. Len(Append(receivers[c], d)) > 0 /\ Append(receivers[c], d)[1] = plugin
      BY <3>2 DEF SlotsInv
    <3> QED
      BY <2>2, <3>1, <3>3 DEF SlotsInv, Pointers
  <2>3. CASE /\ conn' = [conn EXCEPT ![c] = "resolving"]
             /\ receivers' = [receivers EXCEPT ![c] = <<plugin, d>>]
    <3>1. <<plugin, d>> \in Seq(Docs \cup {plugin})
      OBVIOUS
    <3>2. Len(<<plugin, d>>) > 0 /\ <<plugin, d>>[1] = plugin
      OBVIOUS
    <3> QED
      BY <2>3, <3>1, <3>2 DEF SlotsInv, Pointers
  <2> QED
    BY <2>1, <2>2, <2>3
<1>2. ASSUME NEW d \in Docs, synchronizationComplete(d) \/ retrySubscribe(d)
      PROVE  SlotsInv'
  BY <1>2 DEF synchronizationComplete, retrySubscribe, SlotsInv
<1>3. ASSUME NEW d \in Docs, removeDocument(d)
      PROVE  SlotsInv'
  <2>1. receivers' = [c \in Conns |-> Without(receivers[c], d)] /\ conn' = conn
    BY <1>3 DEF removeDocument
  <2>2. ASSUME NEW c \in Conns
        PROVE  /\ receivers'[c] \in Seq(Docs \cup {plugin})
               /\ conn[c] # "unused" => Len(receivers'[c]) > 0 /\ receivers'[c][1] = plugin
    BY <2>1, WithoutKeepsFirst DEF SlotsInv
  <2> QED
    BY <2>1, <2>2 DEF SlotsInv
<1>4. ASSUME NEW c \in Conns, conn[c] # "unused",
             \E s \in Alive \cup {"deleted"} : conn' = [conn EXCEPT ![c] = s],
             UNCHANGED receivers
      PROVE  SlotsInv'
  BY <1>4 DEF SlotsInv, Pointers
<1>5. ASSUME NEW c \in Conns, slotHostnameLookedUp(c) \/ browserConnected(c)
      PROVE  SlotsInv'
  BY <1>4, <1>5 DEF slotHostnameLookedUp, browserConnected, Alive
<1>6. ASSUME NEW c \in Conns, connectionDisconnected(c)
      PROVE  SlotsInv'
  BY <1>4, <1>6 DEF connectionDisconnected
<1>7. CASE UNCHANGED vars
  BY <1>7 DEF vars, SlotsInv
<1> QED
  BY <1>1, <1>2, <1>3, <1>5, <1>6, <1>7 DEF Next

-----------------------------------------------------------------------------
(* The stages of a document *)

LEMMA StagesInductive == Pointers /\ StagesInv /\ [Next]_vars => StagesInv'
<1> SUFFICES ASSUME Pointers, StagesInv, [Next]_vars
             PROVE  StagesInv'
  OBVIOUS
<1> USE DEF docs, StagesInv
<1>s. ASSUME subscribeNewDocuments(managed', connection', conn'), subscribed \subseteq managed'
      PROVE  /\ subscribed \subseteq subscribed' /\ subscribed' \subseteq managed'
             /\ crashed' \in BOOLEAN
  BY <1>s DEF subscribeNewDocuments
<1>1. ASSUME NEW d \in Docs, checkManageDocument(d)
      PROVE  StagesInv'
  BY <1>1, <1>s DEF checkManageDocument
<1>2. ASSUME NEW d \in Docs, synchronizationComplete(d) \/ retrySubscribe(d)
      PROVE  StagesInv'
  BY <1>2 DEF synchronizationComplete, retrySubscribe
<1>3. ASSUME NEW d \in Docs, removeDocument(d)
      PROVE  StagesInv'
  BY <1>3 DEF removeDocument
<1>4. ASSUME NEW c \in Conns, slotHostnameLookedUp(c)
      PROVE  StagesInv'
  BY <1>4 DEF slotHostnameLookedUp
<1>5. ASSUME NEW c \in Conns, browserConnected(c)
      PROVE  StagesInv'
  <2>1. UNCHANGED <<managed, connection, ready, readWrite>>
    BY <1>5 DEF browserConnected
  <2>2. subscribeNewDocuments(managed, connection, conn')
    BY <1>5 DEF browserConnected
  <2> QED
    BY <2>1, <2>2 DEF subscribeNewDocuments
<1>6. ASSUME NEW c \in Conns, connectionDisconnected(c)
      PROVE  StagesInv'
  BY <1>6 DEF connectionDisconnected
<1>7. CASE UNCHANGED vars
  BY <1>7 DEF vars
<1> QED
  BY <1>1, <1>2, <1>3, <1>4, <1>5, <1>6, <1>7 DEF Next

-----------------------------------------------------------------------------

LEMMA IInvInvariance == Spec => []IInv
<1>1. Init => IInv
  <2> SUFFICES ASSUME Init PROVE IInv
    OBVIOUS
  <2>1. Pointers
    BY DEF Init, Pointers
  <2>2. TableIsLive /\ NoneOverlooked
    BY DEF Init, TableIsLive, NoneOverlooked
  <2>3. SlotsInv
    BY DEF Init, SlotsInv
  <2>4. StagesInv
    BY DEF Init, StagesInv
  <2> QED
    BY <2>1, <2>2, <2>3, <2>4 DEF IInv
<1>2. IInv /\ [Next]_vars => IInv'
  BY PointersInductive, SlotsInductive, StagesInductive, TableInductive,
     OverlookedInductive DEF IInv
<1> QED
  BY <1>1, <1>2, PTL DEF Spec

\* m_connections never leads to a deleted Connection, and the documents of a
\* host whose Connection is alive share it (ensureConnection,
\* connectionDisconnected).
THEOREM TableLive == Spec => []TableIsLive
<1>1. IInv => TableIsLive
  BY DEF IInv
<1> QED
  BY <1>1, IInvInvariance, PTL

\* No document waits for the opening of a browser that is open already
\* (subscribeNewDocuments).
THEOREM NobodyOverlooked == Spec => []NoneOverlooked
<1>1. IInv => NoneOverlooked
  BY DEF IInv
<1> QED
  BY <1>1, IInvInvariance, PTL

\* The types: only what is managed is subscribed, and what is managed has a
\* Connection, be it a deleted one (checkManageDocument, removeDocument).
THEOREM TypeCorrect == Spec => []TypeOK
<1>1. IInv => TypeOK
  BY PluginConnectionsAssumption DEF IInv, Pointers, SlotsInv, StagesInv, TypeOK
<1> QED
  BY <1>1, IInvInvariance, PTL

\* The plugin hears of a broken Connection before any document and deletes it, so
\* that ManagedDocument::disconnected(), which would make the document read-only,
\* never runs: what could be edited can be edited still.
NotTold == \A c \in Conns : connectionDisconnected(c) => UNCHANGED <<readWrite, ready>>

\* No document is ever told that its Connection broke (connectionDisconnected).
THEOREM DocumentsNotTold == Spec => [][NotTold]_vars
<1>1. IInv => NotTold
  <2> SUFFICES ASSUME IInv, NEW c \in Conns, connectionDisconnected(c)
               PROVE  UNCHANGED <<readWrite, ready>>
    BY DEF NotTold
  <2>1. conn[c] # "unused"
    BY DEF connectionDisconnected
  <2>2. 1 \in 1 .. Len(receivers[c]) /\ receivers[c][1] = plugin
    BY <2>1 DEF IInv, SlotsInv
  <2>3. \A i \in 1 .. Len(receivers[c]) : 1 \in 1 .. i
    BY DEF IInv, SlotsInv
  <2>4. Told(c) = {}
    BY <2>2, <2>3 DEF Told
  <2> QED
    BY <2>4 DEF connectionDisconnected
<1> QED
  BY <1>1, IInvInvariance, PTL
=============================================================================
