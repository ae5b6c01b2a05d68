------------------------- MODULE ManagedDocumentProofs -------------------------
(* Theorems about ManagedDocument, for any number of retries, of lookups under
   way, of reopenings and of other people's additions and removals. *)
EXTENDS ManagedDocument, FiniteSetTheorems, TLAPS

-----------------------------------------------------------------------------
(* Types *)

\* TypeOK, one fact a line
Facts ==
    /\ url \in {"inf", "temp", "closed"}
    /\ readWrite \in BOOLEAN /\ managed \in BOOLEAN /\ subscribed \in BOOLEAN
    /\ ready \in BOOLEAN /\ listening \in BOOLEAN /\ browserOpen \in BOOLEAN
    /\ refusal \in BOOLEAN /\ overlapped \in BOOLEAN /\ hung \in BOOLEAN
    /\ retries \in Nat /\ retries <= MaxRetries
    /\ textBuffer \in Buffers \cup {None}
    /\ \/ infDocument \in [load : {"Synchronizing", "Joining", "Complete"},
                           join : {"no", "asked", "dialog"}, buffer : Buffers]
       \/ infDocument = NoDocument
    /\ lookups \in Nat /\ timers \in Nat /\ watchers \in Nat /\ boxes \in Nat
    /\ file \in {"absent", "text", "directory"}
    /\ \/ request \in [buffer : Buffers, owned : BOOLEAN]
       \/ request = NoRequest
    /\ \/ session \in [buffer : Buffers, status : {"synchronizing", "running"}]
       \/ session = NoSession
    /\ reopenings \in Nat /\ fileEvents \in Nat /\ joinFailures \in Nat

\* The two say the same.
LEMMA TypeFacts == TypeOK <=> Facts
<1>1. retries \in 0 .. MaxRetries <=> retries \in Nat /\ retries <= MaxRetries
  BY ManagedDocumentAssumption
<1> QED
  BY <1>1 DEF TypeOK, Facts

\* An element more makes a set larger by one at most.
LEMMA OneMore ==
    ASSUME NEW S, NEW x, NEW n \in Nat, IsFiniteSet(S), Cardinality(S) <= n
    PROVE  IsFiniteSet(S \cup {x}) /\ Cardinality(S \cup {x}) <= n + 1
<1>1. Cardinality(S) \in Nat
  BY FS_CardinalityType
<1> QED
  BY <1>1, FS_AddElement

\* Four references cannot use up the buffers.
LEMMA BufferIsFree == FreeBuffer \in Buffers
<1> DEFINE S1 == {textBuffer}
           S2 == S1 \cup {infDocument.buffer}
           S3 == S2 \cup {request.buffer}
           S4 == S3 \cup {session.buffer}
<1>1. IsFiniteSet(S1) /\ Cardinality(S1) <= 1
  <2>1. IsFiniteSet({}) /\ Cardinality({}) <= 0 /\ S1 = {} \cup {textBuffer}
    BY FS_EmptySet
  <2>2. IsFiniteSet({} \cup {textBuffer}) /\ Cardinality({} \cup {textBuffer}) <= 0 + 1
    BY <2>1, OneMore
  <2> QED
    BY <2>1, <2>2
<1>2. IsFiniteSet(S2) /\ Cardinality(S2) <= 2
  <2> HIDE DEF S1
  <2>1. 1 \in Nat /\ 1 + 1 = 2
    OBVIOUS
  <2>2. IsFiniteSet(S1 \cup {infDocument.buffer}) /\ Cardinality(S1 \cup {infDocument.buffer}) <= 1 + 1
    BY <1>1, <2>1, OneMore
  <2> QED
    BY <2>1, <2>2
<1>3. IsFiniteSet(S3) /\ Cardinality(S3) <= 3
  <2> HIDE DEF S2
  <2>1. 2 \in Nat /\ 2 + 1 = 3
    OBVIOUS
  <2>2. IsFiniteSet(S2 \cup {request.buffer}) /\ Cardinality(S2 \cup {request.buffer}) <= 2 + 1
    BY <1>2, <2>1, OneMore
  <2> QED
    BY <2>1, <2>2
<1>4. IsFiniteSet(S4) /\ Cardinality(S4) <= 4
  <2> HIDE DEF S3
  <2>1. 3 \in Nat /\ 3 + 1 = 4
    OBVIOUS
  <2>2. IsFiniteSet(S3 \cup {session.buffer}) /\ Cardinality(S3 \cup {session.buffer}) <= 3 + 1
    BY <1>3, <2>1, OneMore
  <2> QED
    BY <2>1, <2>2
<1>5. ~(Buffers \subseteq S4)
  <2> HIDE DEF S4
  <2> SUFFICES ASSUME Buffers \subseteq S4 PROVE FALSE
    OBVIOUS
  <2>1. Cardinality(Buffers) \in Nat /\ Cardinality(S4) \in Nat
    BY <1>4, ManagedDocumentAssumption, FS_CardinalityType
  <2>2. Cardinality(Buffers) <= Cardinality(S4)
    BY <1>4, FS_Subset
  <2> QED
    BY <1>4, <2>1, <2>2, ManagedDocumentAssumption
<1> QED
  BY <1>5 DEF FreeBuffer

-----------------------------------------------------------------------------
(* The inductive invariant *)

\* What is let go is forgotten completely: nothing that may still answer knows
\* the ManagedDocument.
LetGo ==
    ~managed =>
        /\ ~subscribed /\ ~ready /\ ~listening /\ ~refusal /\ ~hung
        /\ textBuffer = None /\ infDocument = NoDocument
        /\ lookups = 0 /\ timers = 0 /\ watchers = 0
        /\ request.owned = FALSE

\* The library works for the file that is there, on one thing at a time.
OneAtATime ==
    /\ request # NoRequest => session = NoSession
    /\ request # NoRequest \/ session # NoSession => file = "text"

\* The InfTextDocument follows its session, and the ManagedDocument follows it.
Follows ==
    /\ infDocument # NoDocument => session # NoSession
    /\ infDocument.load \in {"Joining", "Complete"} => session.status = "running"
    /\ infDocument.join # "no" => infDocument.load = "Joining"
    /\ ready <=> infDocument.load = "Complete"
    /\ managed => url = "inf"
    /\ managed /\ readWrite => ready
    /\ request # NoRequest /\ listening => textBuffer # None

\* Until a subscription is refused there is one buffer at a time.
OneBuffer ==
    ~overlapped =>
        /\ infDocument # NoDocument => /\ infDocument.buffer = session.buffer
                                       /\ textBuffer = session.buffer
        /\ request # NoRequest /\ listening => /\ request.buffer = textBuffer
                                               /\ request.owned = TRUE

\* A document that was never opened again has whatever the library does for
\* itself.
FirstTime ==
    reopenings = 0 =>
        /\ ~managed /\ url = "inf" => request = NoRequest /\ session = NoSession
        /\ managed /\ request # NoRequest => listening /\ request.owned = TRUE
        /\ managed /\ session # NoSession => infDocument # NoDocument

\* Nothing is looked up before the browser is open, everything is after.
Asked ==
    /\ ~browserOpen => ~subscribed /\ lookups = 0 /\ timers = 0
    /\ managed /\ browserOpen => subscribed

\* Something under way is the document's own.
UnderWay ==
    managed /\ browserOpen /\ ~ready /\ ~hung /\ ~(overlapped /\ reopenings > 0) =>
        \/ lookups > 0 \/ timers > 0 \/ boxes > 0
        \/ request # NoRequest /\ listening
        \/ infDocument # NoDocument

IInv ==
    /\ Facts /\ LetGo /\ OneAtATime /\ Follows
    /\ OneBuffer /\ FirstTime /\ Asked /\ UnderWay

\* It holds at the start.
LEMMA InvInitial == Init => IInv
<1> SUFFICES ASSUME Init PROVE IInv
  OBVIOUS
<1>1. Facts
  <2>1. 0 \in Nat /\ 0 <= MaxRetries
    BY ManagedDocumentAssumption
  <2> QED
    BY <2>1 DEF Init, Facts
<1> QED
  BY <1>1 DEF Init, IInv, LetGo, OneAtATime, Follows, OneBuffer, FirstTime,
              Asked, UnderWay, NoDocument, NoRequest, NoSession

-----------------------------------------------------------------------------
(* Letting go keeps the invariant *)

\* Whatever ends the management of a document, an error, the user, or the
\* removal of the file, leaves nothing of it behind.
LEMMA RemovalKeeps ==
    ASSUME IInv,
           NEW req \in {request, NoRequest}, NEW ses \in {session, NoSession},
           removeDocument(req, ses),
           readWrite' = readWrite, browserOpen' = browserOpen,
           overlapped' = overlapped,
           url' \in {"inf", "temp", "closed"}, url' = "inf" => reopenings' > 0,
           file' \in {"absent", "text", "directory"},
           file' = file \/ (req = NoRequest /\ ses = NoSession),
           boxes' \in Nat, reopenings' \in Nat, fileEvents' \in Nat,
           joinFailures' \in Nat
    PROVE  IInv'
<1> USE DEF IInv
<1>1. /\ managed' = FALSE /\ subscribed' = FALSE /\ ready' = FALSE
      /\ listening' = FALSE /\ refusal' = FALSE /\ retries' = 0
      /\ textBuffer' = None /\ infDocument' = NoDocument
      /\ lookups' = 0 /\ timers' = 0 /\ watchers' = 0 /\ hung' = FALSE
  BY DEF removeDocument, unsubscribe
<1>2. /\ request' \in [buffer : Buffers, owned : BOOLEAN] \/ request' = NoRequest
      /\ request'.owned = FALSE
      /\ request' # NoRequest => request # NoRequest /\ req = request
  <2>1. request' = [req EXCEPT !.owned = FALSE]
    BY DEF removeDocument
  <2>2. CASE req = NoRequest
    BY <2>1, <2>2 DEF NoRequest
  <2>3. CASE req = request /\ req # NoRequest
    <3>1. req \in [buffer : Buffers, owned : BOOLEAN]
      BY <2>3 DEF Facts
    <3> QED
      BY <2>1, <2>3, <3>1
  <2> QED
    BY <2>2, <2>3
<1>3. session' \in {ses, NoSession}
  BY DEF removeDocument, unsubscribe
<1>4. Facts'
  <2>1. 0 \in Nat /\ 0 <= MaxRetries
    BY ManagedDocumentAssumption
  <2> QED
    BY <1>1, <1>2, <1>3, <2>1 DEF Facts
<1>5. OneAtATime'
  BY <1>2, <1>3 DEF OneAtATime
<1>6. (LetGo /\ Follows /\ OneBuffer /\ FirstTime /\ Asked /\ UnderWay)'
  BY <1>1, <1>2, <1>3 DEF LetGo, Follows, OneBuffer, FirstTime, Asked, UnderWay,
     NoDocument
<1> QED
  BY <1>4, <1>5, <1>6

\* The errors among them.
LEMMA ErrorKeeps ==
    ASSUME IInv,
           NEW req \in {request, NoRequest}, NEW ses \in {session, NoSession},
           unrecoverableError(req, ses),
           browserOpen' = browserOpen, overlapped' = overlapped,
           file' \in {"absent", "text", "directory"},
           file' = file \/ (req = NoRequest /\ ses = NoSession),
           boxes' \in Nat, reopenings' \in Nat, fileEvents' \in Nat,
           joinFailures' \in Nat
    PROVE  IInv'
<1>1. /\ removeDocument(req, ses) /\ url' = "temp" /\ readWrite' = readWrite
  BY DEF unrecoverableError
<1> QED
  BY <1>1, RemovalKeeps

-----------------------------------------------------------------------------
(* Every step keeps the invariant *)


\* One case for each thing that may happen.
LEMMA InvInductive == IInv /\ [Next]_vars => IInv'
<1> SUFFICES ASSUME IInv, [Next]_vars PROVE IInv'
  OBVIOUS
<1> USE DEF editor, managing, loading, pointers, library, world, counters, IInv
<1>1. CASE checkManageDocument
  <2>1. Facts'
    <3>1. /\ lookups' \in Nat /\ managed' \in BOOLEAN /\ subscribed' \in BOOLEAN
          /\ readWrite' \in BOOLEAN
      BY <1>1 DEF checkManageDocument, Facts
    <3> QED
      BY <1>1, <3>1 DEF checkManageDocument, Facts
  <2>2. (LetGo /\ OneAtATime /\ Follows /\ OneBuffer /\ FirstTime /\ Asked /\ UnderWay)'
    BY <1>1, <2>1 DEF checkManageDocument, LetGo, OneAtATime, Follows, OneBuffer,
       FirstTime, Asked, UnderWay, Facts, NoDocument,
       NoRequest, NoSession
  <2> QED
    BY <2>1, <2>2
<1>2. CASE browserConnected
  <2>1. Facts'
    <3>1. CASE managed /\ ~subscribed
      BY <1>2, <3>1 DEF browserConnected, Facts
    <3>2. CASE ~(managed /\ ~subscribed)
      BY <1>2, <3>2 DEF browserConnected, Facts
    <3> QED
      BY <3>1, <3>2
  <2>2. (LetGo /\ OneAtATime /\ Follows /\ OneBuffer /\ FirstTime /\ Asked /\ UnderWay)'
    BY <1>2, <2>1 DEF browserConnected, LetGo, OneAtATime, Follows, OneBuffer,
       FirstTime, Asked, UnderWay, Facts, NoDocument,
       NoRequest, NoSession
  <2> QED
    BY <2>1, <2>2
<1>3. CASE retryTimeout
  <2>1. Facts'
    BY <1>3, BufferIsFree DEF retryTimeout, Facts
  <2>2. (LetGo /\ OneAtATime /\ Follows /\ OneBuffer /\ FirstTime /\ Asked /\ UnderWay)'
    BY <1>3, <2>1 DEF retryTimeout, LetGo, OneAtATime, Follows, OneBuffer,
       FirstTime, Asked, UnderWay, Facts, NoDocument,
       NoRequest, NoSession
  <2> QED
    BY <2>1, <2>2
<1>4. CASE nodeAdded
  <2>1. Facts'
    BY <1>4, BufferIsFree DEF nodeAdded, Facts
  <2>2. (LetGo /\ OneAtATime /\ Follows /\ OneBuffer /\ FirstTime /\ Asked /\ UnderWay)'
    BY <1>4, <2>1 DEF nodeAdded, LetGo, OneAtATime, Follows, OneBuffer,
       FirstTime, Asked, UnderWay, Facts, NoDocument,
       NoRequest, NoSession
  <2> QED
    BY <2>1, <2>2
<1>5. CASE lookupFailed
  <2>1. Facts'
    <3>1. lookups' \in Nat /\ timers' \in Nat /\ watchers' \in Nat /\ boxes' \in Nat
      BY <1>5 DEF lookupFailed, Facts
    <3>2. retries' \in Nat /\ retries' <= MaxRetries
      BY <1>5, ManagedDocumentAssumption DEF lookupFailed, Facts
    <3>3. /\ infDocument' \in {infDocument, NoDocument}
          /\ session' \in {session, NoSession}
          /\ textBuffer' \in {textBuffer, None} /\ ready' \in BOOLEAN
      BY <1>5 DEF lookupFailed, unsubscribe, Facts
    <3>4. UNCHANGED <<editor, managed, subscribed, hung, listening, request,
                      refusal, world, counters>>
      BY <1>5 DEF lookupFailed
    <3> QED
      BY <3>1, <3>2, <3>3, <3>4 DEF Facts
  <2>2. (LetGo /\ OneAtATime /\ Follows /\ OneBuffer /\ FirstTime /\ Asked /\ UnderWay)'
    BY <1>5, <2>1 DEF lookupFailed, LetGo, OneAtATime, Follows, OneBuffer,
       FirstTime, Asked, UnderWay, Facts, NoDocument,
       NoRequest, NoSession, unsubscribe
  <2> QED
    BY <2>1, <2>2
<1>6. CASE errorBoxClosed
  <2>0. boxes' \in Nat /\ UNCHANGED <<readWrite, world, counters>>
    BY <1>6 DEF errorBoxClosed, Facts
  <2>1. CASE managed /\ url' = "closed" /\ removeDocument(request, session)
    BY <2>0, <2>1, RemovalKeeps DEF Facts
  <2>2. CASE /\ ~managed /\ url' \in {url, "closed"}
             /\ UNCHANGED <<managing, pointers, lookups, hung, timers, watchers,
                            library>>
    <3>1. Facts'
      BY <2>0, <2>2 DEF Facts
    <3>2. (LetGo /\ OneAtATime /\ Follows /\ OneBuffer /\ Asked /\ UnderWay)'
      BY <2>0, <2>2 DEF LetGo, OneAtATime, Follows, OneBuffer, Asked, UnderWay
    <3>3. FirstTime'
      BY <2>0, <2>2 DEF FirstTime
    <3> QED
      BY <3>1, <3>2, <3>3
  <2> QED
    BY <1>6, <2>1, <2>2 DEF errorBoxClosed
<1>7. CASE finishSubscription
  <2>1. CASE unrecoverableError(request, session) /\ UNCHANGED <<boxes, world, counters>>
    BY <2>1, ErrorKeeps DEF Facts
  <2>2. ASSUME /\ file = "text" /\ lookups' = lookups - 1 /\ listening' = TRUE
               /\ textBuffer' = FreeBuffer
               /\ UNCHANGED <<editor, managing, infDocument, hung, timers,
                              watchers, boxes, session, world, reopenings, fileEvents,
                              joinFailures>>,
               request = NoRequest, session = NoSession,
               request' = [buffer |-> FreeBuffer, owned |-> TRUE],
               UNCHANGED <<refusal, overlapped>>
        PROVE  IInv'
    <3>1. Facts'
      BY <1>7, <2>2, BufferIsFree DEF finishSubscription, Facts
    <3>2. (LetGo /\ OneAtATime /\ Follows)'
      BY <1>7, <2>2, BufferIsFree, ManagedDocumentAssumption
         DEF finishSubscription, LetGo, OneAtATime, Follows, Facts
    <3>3. (OneBuffer /\ FirstTime /\ Asked /\ UnderWay)'
      BY <1>7, <2>2, BufferIsFree, ManagedDocumentAssumption
         DEF finishSubscription, OneBuffer, FirstTime, Asked, UnderWay, LetGo,
             Follows, Facts, NoRequest
    <3> QED
      BY <3>1, <3>2, <3>3
  <2>3. ASSUME /\ file = "text" /\ lookups' = lookups - 1 /\ listening' = TRUE
               /\ textBuffer' = FreeBuffer
               /\ UNCHANGED <<editor, managing, infDocument, hung, timers,
                              watchers, boxes, session, world, reopenings, fileEvents,
                              joinFailures>>,
               request # NoRequest \/ session # NoSession,
               overlapped' = TRUE, refusal' \in {refusal, TRUE},
               request' = request
        PROVE  IInv'
    <3>1. Facts'
      <4>1. lookups' \in Nat
        BY <1>7, <2>3 DEF finishSubscription, Facts
      <4>2. refusal \in BOOLEAN
        BY DEF Facts
      <4>3. refusal' \in BOOLEAN /\ overlapped' \in BOOLEAN
        BY ONLY <2>3, <4>2
      <4> QED
        BY <2>3, <4>1, <4>3, BufferIsFree DEF Facts
    <3>2. (LetGo /\ OneAtATime /\ Follows)'
      BY <1>7, <2>3, BufferIsFree, ManagedDocumentAssumption
         DEF finishSubscription, LetGo, OneAtATime, Follows, Facts
    <3>3. (OneBuffer /\ FirstTime /\ Asked /\ UnderWay)'
      BY <1>7, <2>3 DEF finishSubscription, OneBuffer, FirstTime, Asked, UnderWay,
         LetGo, Facts
    <3> QED
      BY <3>1, <3>2, <3>3
  <2>4. \/ unrecoverableError(request, session) /\ UNCHANGED <<boxes, world, counters>>
        \/ /\ file = "text" /\ lookups' = lookups - 1 /\ listening' = TRUE
           /\ textBuffer' = FreeBuffer
           /\ UNCHANGED <<editor, managing, infDocument, hung, timers,
                          watchers, boxes, session, world, reopenings, fileEvents,
                          joinFailures>>
           /\ IF request = NoRequest /\ session = NoSession
              THEN /\ request' = [buffer |-> FreeBuffer, owned |-> TRUE]
                   /\ UNCHANGED <<refusal, overlapped>>
              ELSE /\ overlapped' = TRUE
                   /\ refusal' \in {refusal, TRUE}
                   /\ UNCHANGED request
    BY <1>7 DEF finishSubscription
  <2> QED
    BY <2>1, <2>2, <2>3, <2>4
<1>8. CASE subscriptionDone
  <2>1. Facts'
    <3>1. PICK status \in {"synchronizing", "running"} :
             /\ session' = [buffer |-> request.buffer, status |-> status]
             /\ \/ infDocument' = infDocument
                \/ /\ listening
                   /\ \/ infDocument' = [load |-> "Joining", join |-> "asked",
                                         buffer |-> textBuffer]
                      \/ infDocument' = [load |-> "Synchronizing", join |-> "no",
                                         buffer |-> textBuffer]
      BY <1>8 DEF subscriptionDone
    <3>2. request.buffer \in Buffers /\ (listening => textBuffer \in Buffers)
      BY <1>8 DEF subscriptionDone, Facts, Follows
    <3>3. request' = NoRequest
          /\ UNCHANGED <<editor, managing, listening, textBuffer, loading,
                         refusal, world, counters>>
      BY <1>8 DEF subscriptionDone
    <3> QED
      BY <3>1, <3>2, <3>3 DEF Facts
  <2>2. (LetGo /\ OneAtATime /\ Follows /\ OneBuffer /\ FirstTime /\ Asked /\ UnderWay)'
    BY <1>8, <2>1 DEF subscriptionDone, LetGo, OneAtATime, Follows, OneBuffer,
       FirstTime, Asked, UnderWay, Facts, NoDocument,
       NoRequest, NoSession
  <2> QED
    BY <2>1, <2>2
<1>9. CASE subscriptionFailed
  <2>1. CASE /\ \/ unrecoverableError(NoRequest, session)
                \/ unrecoverableError(request, session)
             /\ UNCHANGED <<boxes, world, counters>>
    BY <2>1, ErrorKeeps DEF Facts
  <2>2. CASE /\ request # NoRequest /\ ~request.owned /\ request' = NoRequest
             /\ UNCHANGED <<editor, managing, pointers, loading, refusal,
                            session, world, counters>>
    <3>1. Facts'
      BY <2>2 DEF Facts
    <3>2. (LetGo /\ OneAtATime /\ Follows /\ OneBuffer /\ FirstTime /\ Asked)'
      BY <2>2 DEF LetGo, OneAtATime, Follows, OneBuffer, FirstTime, Asked, NoRequest
    <3>3. UnderWay'
      BY <2>2 DEF UnderWay, OneBuffer, FirstTime, Facts
    <3> QED
      BY <3>1, <3>2, <3>3
  <2> QED
    BY <1>9, <2>1, <2>2 DEF subscriptionFailed
<1>10. CASE slotSynchronized
  <2>1. session' \in [buffer : Buffers, status : {"synchronizing", "running"}]
        /\ session'.status = "running" /\ session'.buffer = session.buffer
        /\ session # NoSession /\ session' # NoSession
    BY <1>10 DEF slotSynchronized, Facts, NoSession
  <2>2. \/ infDocument = NoDocument /\ infDocument' = NoDocument
        \/ /\ infDocument # NoDocument /\ infDocument' # NoDocument
           /\ infDocument' \in [load : {"Synchronizing", "Joining", "Complete"},
                                join : {"no", "asked", "dialog"}, buffer : Buffers]
           /\ infDocument'.load = "Joining" /\ infDocument'.join = "asked"
           /\ infDocument'.buffer = infDocument.buffer
    <3>1. CASE infDocument = NoDocument
      BY <1>10, <3>1 DEF slotSynchronized
    <3>2. CASE infDocument # NoDocument
      BY <1>10, <3>2 DEF slotSynchronized, Facts, joinSession, NoDocument
    <3> QED
      BY <3>1, <3>2
  <2>3. session.status = "synchronizing" /\ ~ready
    BY <1>10 DEF slotSynchronized, Follows
  <2>4. UNCHANGED <<editor, managing, listening, textBuffer, loading, request,
                    refusal, world, counters>>
    BY <1>10 DEF slotSynchronized
  <2>5. Facts'
    BY <2>1, <2>2, <2>4 DEF Facts
  <2>6. (LetGo /\ OneAtATime /\ Follows /\ Asked)'
    BY <2>1, <2>2, <2>3, <2>4 DEF LetGo, OneAtATime, Follows, Asked, NoDocument
  <2>7. (OneBuffer /\ FirstTime /\ UnderWay)'
    BY <2>1, <2>2, <2>3, <2>4 DEF OneBuffer, FirstTime, UnderWay
  <2> QED
    BY <2>5, <2>6, <2>7
<1>11. CASE sessionClosed
  <2>1. CASE unrecoverableError(request, NoSession) /\ UNCHANGED <<boxes, world, counters>>
    BY <2>1, ErrorKeeps DEF Facts
  <2>2. CASE /\ infDocument = NoDocument /\ session' = NoSession
             /\ UNCHANGED <<editor, managing, pointers, loading, request,
                            refusal, world, counters>>
    <3>1. Facts'
      BY <2>2 DEF Facts
    <3>2. (LetGo /\ OneAtATime /\ Follows /\ OneBuffer /\ FirstTime /\ Asked /\ UnderWay)'
      BY <2>2 DEF LetGo, OneAtATime, Follows, OneBuffer, FirstTime, Asked,
         UnderWay, NoDocument
    <3> QED
      BY <3>1, <3>2
  <2> QED
    BY <1>11, <2>1, <2>2 DEF sessionClosed
<1>12. CASE nodeRemoved
  <2>0. /\ file' = "absent" /\ fileEvents' \in Nat
        /\ UNCHANGED <<boxes, browserOpen, reopenings, joinFailures, overlapped>>
    BY <1>12 DEF nodeRemoved, Facts
  <2>1. CASE unrecoverableError(NoRequest, NoSession)
    BY <2>0, <2>1, ErrorKeeps DEF Facts
  <2>2. CASE /\ infDocument = NoDocument /\ ~request.owned
             /\ request' = NoRequest /\ session' = NoSession
             /\ UNCHANGED <<editor, managing, pointers, lookups, hung, timers,
                            watchers, refusal>>
    <3>1. Facts'
      BY <2>0, <2>2 DEF Facts
    <3>2. (LetGo /\ OneAtATime /\ Follows /\ OneBuffer /\ FirstTime /\ Asked)'
      BY <2>0, <2>2 DEF LetGo, OneAtATime, Follows, OneBuffer, FirstTime, Asked,
         NoDocument, NoRequest
    <3>3. UnderWay'
      BY <2>0, <2>2 DEF UnderWay, OneBuffer, FirstTime, Facts
    <3> QED
      BY <3>1, <3>2, <3>3
  <2> QED
    BY <1>12, <2>1, <2>2 DEF nodeRemoved
<1>13. CASE slotJoinFinished
  <2>1. /\ infDocument # NoDocument /\ infDocument' # NoDocument
        /\ infDocument' \in [load : {"Synchronizing", "Joining", "Complete"},
                             join : {"no", "asked", "dialog"}, buffer : Buffers]
        /\ infDocument'.load = "Complete" /\ infDocument'.join = "no"
        /\ infDocument'.buffer = infDocument.buffer
        /\ infDocument.load = "Joining"
    <3>1. /\ infDocument # NoDocument /\ infDocument.load = "Joining"
          /\ infDocument \in [load : {"Synchronizing", "Joining", "Complete"},
                              join : {"no", "asked", "dialog"}, buffer : Buffers]
      BY <1>13 DEF slotJoinFinished, Facts, Follows, NoDocument
    <3>2. infDocument' = [infDocument EXCEPT !.load = "Complete", !.join = "no"]
      BY <1>13 DEF slotJoinFinished
    <3>3. infDocument' \in [load : {"Synchronizing", "Joining", "Complete"},
                            join : {"no", "asked", "dialog"}, buffer : Buffers]
      BY <3>1, <3>2
    <3>4. /\ infDocument'.load = "Complete" /\ infDocument'.join = "no"
          /\ infDocument'.buffer = infDocument.buffer
      BY <3>1, <3>2
    <3> QED
      BY <3>1, <3>3, <3>4 DEF NoDocument
  <2>2. Facts'
    BY <1>13, <2>1 DEF slotJoinFinished, Facts
  <2>3. (LetGo /\ OneAtATime /\ Follows /\ OneBuffer /\ FirstTime /\ Asked /\ UnderWay)'
    BY <1>13, <2>1 DEF slotJoinFinished, LetGo, OneAtATime, Follows, OneBuffer,
       FirstTime, Asked, UnderWay
  <2> QED
    BY <2>2, <2>3
<1>14. CASE slotJoinFailed
  <2>1. /\ infDocument # NoDocument /\ infDocument' # NoDocument
        /\ infDocument' \in [load : {"Synchronizing", "Joining", "Complete"},
                             join : {"no", "asked", "dialog"}, buffer : Buffers]
        /\ infDocument'.load = "Joining" /\ infDocument'.join = "dialog"
        /\ infDocument'.buffer = infDocument.buffer
        /\ infDocument.load = "Joining"
    BY <1>14 DEF slotJoinFailed, Facts, Follows, NoDocument
  <2>2. Facts'
    BY <1>14, <2>1 DEF slotJoinFailed, Facts
  <2>3. (LetGo /\ OneAtATime /\ Follows /\ OneBuffer /\ FirstTime /\ Asked /\ UnderWay)'
    BY <1>14, <2>1 DEF slotJoinFailed, LetGo, OneAtATime, Follows, OneBuffer,
       FirstTime, Asked, UnderWay
  <2> QED
    BY <2>2, <2>3
<1>15. CASE newUserNameEntered
  <2>1. /\ infDocument # NoDocument /\ infDocument' # NoDocument
        /\ infDocument' \in [load : {"Synchronizing", "Joining", "Complete"},
                             join : {"no", "asked", "dialog"}, buffer : Buffers]
        /\ infDocument'.load = "Joining" /\ infDocument'.join = "asked"
        /\ infDocument'.buffer = infDocument.buffer
        /\ infDocument.load = "Joining"
    <3>1. /\ infDocument # NoDocument /\ infDocument.load = "Joining"
          /\ infDocument \in [load : {"Synchronizing", "Joining", "Complete"},
                              join : {"no", "asked", "dialog"}, buffer : Buffers]
      BY <1>15 DEF newUserNameEntered, Facts, Follows, NoDocument
    <3>2. infDocument' = [infDocument EXCEPT !.load = "Joining", !.join = "asked"]
      BY <1>15 DEF newUserNameEntered, joinSession
    <3>3. infDocument' \in [load : {"Synchronizing", "Joining", "Complete"},
                            join : {"no", "asked", "dialog"}, buffer : Buffers]
      BY <3>1, <3>2
    <3>4. /\ infDocument'.load = "Joining" /\ infDocument'.join = "asked"
          /\ infDocument'.buffer = infDocument.buffer
      BY <3>1, <3>2
    <3> QED
      BY <3>1, <3>3, <3>4 DEF NoDocument
  <2>2. Facts'
    BY <1>15, <2>1 DEF newUserNameEntered, Facts
  <2>3. (LetGo /\ OneAtATime /\ Follows /\ OneBuffer /\ FirstTime /\ Asked /\ UnderWay)'
    BY <1>15, <2>1 DEF newUserNameEntered, LetGo, OneAtATime, Follows, OneBuffer,
       FirstTime, Asked, UnderWay
  <2> QED
    BY <2>2, <2>3
<1>16. CASE joinAborted
  BY <1>16, ErrorKeeps DEF joinAborted, Facts
<1>17. CASE Reload
  BY <1>17, RemovalKeeps DEF Reload, Facts
<1>18. CASE Leave
  BY <1>18, RemovalKeeps DEF Leave, Facts
<1>19. CASE Reopen
  <2>1. Facts'
    BY <1>19, BufferIsFree DEF Reopen, Facts
  <2>2. (LetGo /\ OneAtATime /\ Follows /\ OneBuffer /\ FirstTime /\ Asked /\ UnderWay)'
    BY <1>19, <2>1 DEF Reopen, LetGo, OneAtATime, Follows, OneBuffer,
       FirstTime, Asked, UnderWay, Facts, NoDocument,
       NoRequest, NoSession
  <2> QED
    BY <2>1, <2>2
<1>20. CASE lookupHangs
  <2>1. Facts'
    BY <1>20 DEF lookupHangs, Facts
  <2>2. (LetGo /\ OneAtATime /\ Follows /\ OneBuffer /\ FirstTime /\ Asked /\ UnderWay)'
    BY <1>20, <2>1 DEF lookupHangs, LetGo, OneAtATime, Follows, OneBuffer,
       FirstTime, Asked, UnderWay, Facts
  <2> QED
    BY <2>1, <2>2
<1>21. CASE UNCHANGED vars
  <2>1. Facts'
    BY <1>21 DEF vars, Facts
  <2>2. (LetGo /\ OneAtATime /\ Follows /\ OneBuffer /\ FirstTime /\ Asked /\ UnderWay)'
    BY <1>21 DEF vars, LetGo, OneAtATime, Follows, OneBuffer,
       FirstTime, Asked, UnderWay
  <2> QED
    BY <2>1, <2>2
<1> QED
  BY <1>1, <1>2, <1>3, <1>4, <1>5, <1>6, <1>7, <1>8, <1>9, <1>10, <1>11, <1>12, <1>13, <1>14, <1>15, <1>16, <1>17, <1>18, <1>19, <1>20, <1>21
     DEF Next, Progress, Answer, Event

-----------------------------------------------------------------------------
(* Theorems *)

\* So it always holds.
LEMMA InvHolds == Spec => []IInv
  BY InvInitial, InvInductive, PTL DEF Spec

\* A document accepts edits only once its session runs and it has been joined.
THEOREM NoEarlyEdits == Spec => []WritableOnlyWhenJoined
<1>1. IInv => WritableOnlyWhenJoined
  BY TypeFacts DEF IInv, WritableOnlyWhenJoined, Follows
<1> QED
  BY <1>1, InvHolds, PTL

\* The buffer of the session is the one the view edits and the one that is shut
\* down, unless subscriptions to the document overlapped.
THEOREM FedBySession == Spec => []ReadyUnlessOverlapped
<1>1. IInv => ReadyUnlessOverlapped
  BY DEF IInv, ReadyUnlessOverlapped, ReadyToType, Follows, OneBuffer, NoDocument
<1> QED
  BY <1>1, InvHolds, PTL

\* A document that is still being opened has something under way.
THEOREM SomethingUnderWay == Spec => []NotForgotten
<1>1. IInv => NotForgotten
  BY DEF IInv, NotForgotten, WaitsInVain, Pending, UnderWay, Follows
<1> QED
  BY <1>1, InvHolds, PTL

\* A document that has been let go is not touched by what is answered late.
LEMMA LetGoIsLeftAlone ==
    ASSUME IInv, [Next]_vars, ~managed, ~managed', boxes' = boxes,
           reopenings' = reopenings
    PROVE  UNCHANGED editor
<1> USE DEF editor, managing, loading, pointers, library, world, counters
<1>1. /\ lookups = 0 /\ timers = 0 /\ ~refusal /\ request.owned = FALSE
      /\ infDocument = NoDocument
  BY DEF IInv, LetGo
<1>2. infDocument.join = "no" /\ ~(lookups > 0)
  BY <1>1 DEF NoDocument
<1>3. CASE Progress
  <2>1. ~checkManageDocument
    BY DEF checkManageDocument
  <2>2. ~lookupFailed /\ ~finishSubscription /\ ~lookupHangs /\ ~slotJoinFinished
    BY <1>2 DEF lookupFailed, finishSubscription, lookupHangs, slotJoinFinished
  <2>3. CASE browserConnected \/ retryTimeout \/ subscriptionDone \/ slotSynchronized
    BY <2>3 DEF browserConnected, retryTimeout, subscriptionDone, slotSynchronized
  <2>4. CASE subscriptionFailed
    BY <1>1, <2>4 DEF subscriptionFailed
  <2> QED
    BY <1>3, <2>1, <2>2, <2>3, <2>4 DEF Progress
<1>4. CASE Answer
  <2>1. boxes \in Nat
    BY DEF IInv, Facts
  <2>2. ~errorBoxClosed
    BY <2>1 DEF errorBoxClosed
  <2> QED
    BY <1>2, <1>4, <2>2 DEF Answer, newUserNameEntered, joinAborted
<1>5. CASE Event
  <2>1. reopenings \in Nat
    BY DEF IInv, Facts
  <2>2. ~Reload /\ ~Leave /\ ~Reopen
    BY <2>1 DEF Reload, Leave, Reopen
  <2>3. CASE nodeAdded \/ slotJoinFailed
    BY <2>3 DEF nodeAdded, slotJoinFailed
  <2>4. CASE nodeRemoved
    BY <1>1, <2>4 DEF nodeRemoved
  <2>5. CASE sessionClosed
    BY <1>1, <2>5 DEF sessionClosed
  <2> QED
    BY <1>5, <2>2, <2>3, <2>4, <2>5 DEF Event
<1>6. CASE UNCHANGED vars
  BY <1>6 DEF vars
<1> QED
  BY <1>3, <1>4, <1>5, <1>6 DEF Next

\* The failure of a request that nobody owns any more touches no document.
LEMMA OrphanFailureIsHarmless ==
    ASSUME IInv, [Next]_vars, request # NoRequest, ~request.owned,
           request' = NoRequest, session' = session
    PROVE  UNCHANGED <<editor, managing, pointers>>
<1> USE DEF editor, managing, loading, pointers, library, world, counters
<1>1. /\ request \in [buffer : Buffers, owned : BOOLEAN]
      /\ request.buffer \in Buffers /\ request.buffer # None
      /\ session = NoSession /\ infDocument = NoDocument
  BY ManagedDocumentAssumption DEF IInv, Facts, OneAtATime, Follows
<1>2. \A ses : ~removeDocument(request, ses)
  <2>1. [request EXCEPT !.owned = FALSE].buffer # None
    BY <1>1
  <2> QED
    BY <2>1 DEF removeDocument, NoRequest
<1>3. \A ses : ~unrecoverableError(request, ses)
  BY <1>2 DEF unrecoverableError
<1>4. CASE subscriptionDone
  <2>1. session'.buffer = request.buffer
    BY <1>4 DEF subscriptionDone
  <2> QED
    BY <1>1, <2>1 DEF NoSession
<1>5. CASE subscriptionFailed
  BY <1>3, <1>5 DEF subscriptionFailed
<1>6. CASE nodeRemoved
  BY <1>1, <1>6 DEF nodeRemoved
<1>7. CASE errorBoxClosed
  BY <1>2, <1>7 DEF errorBoxClosed
<1>8. CASE finishSubscription
  BY <1>3, <1>8 DEF finishSubscription
<1>9. CASE joinAborted \/ Reload \/ Leave
  BY <1>2, <1>3, <1>9 DEF joinAborted, Reload, Leave
<1>10. CASE sessionClosed
  BY <1>1, <1>10 DEF sessionClosed
<1>11. CASE checkManageDocument \/ browserConnected \/ retryTimeout \/ nodeAdded
  BY <1>11 DEF checkManageDocument, browserConnected, retryTimeout, nodeAdded
<1>12. CASE lookupFailed \/ lookupHangs \/ slotSynchronized
  BY <1>12 DEF lookupFailed, lookupHangs, slotSynchronized
<1>13. CASE slotJoinFinished \/ slotJoinFailed \/ newUserNameEntered \/ Reopen
  BY <1>13 DEF slotJoinFinished, slotJoinFailed, newUserNameEntered, Reopen
<1>14. CASE UNCHANGED vars
  BY <1>14 DEF vars
<1> QED
  BY <1>4, <1>5, <1>6, <1>7, <1>8, <1>9, <1>10, <1>11, <1>12, <1>13, <1>14
     DEF Next, Progress, Answer, Event

\* What comes late does not change a document that was let go, and a late failure
\* does not change a later ManagedDocument either.
THEOREM LateAnswers == Spec => LateAnswersAreLost
<1>1. IInv /\ [Next]_vars
      => [/\ ~managed /\ ~managed' /\ boxes' = boxes /\ reopenings' = reopenings
             => UNCHANGED editor
          /\ /\ request # NoRequest /\ ~request.owned
             /\ request' = NoRequest /\ session' = session
             => UNCHANGED <<editor, managing, pointers>>]_vars
  BY LetGoIsLeftAlone, OrphanFailureIsHarmless
<1> QED
  BY <1>1, InvHolds, PTL DEF Spec, LateAnswersAreLost

-----------------------------------------------------------------------------
(* The views' idea of a document *)

\* A document that is let go is Unmanaged.
LEMMA RemovalUnmanages ==
    ASSUME IInv, managed, NEW req, NEW ses, removeDocument(req, ses),
           url' \in {"inf", "temp", "closed"}
    PROVE  Abstract!Next
<1>1. /\ managed' = FALSE /\ ready' = FALSE /\ infDocument' = NoDocument
  BY DEF removeDocument, unsubscribe
<1>2. Abstract!Unmanage(url')
  BY <1>1 DEF Abstract!Unmanage, NoDocument
<1> QED
  BY <1>2 DEF Abstract!Next

\* Every step of the plugin is one that the views know of, or none to them.
LEMMA StepIsKnown == IInv /\ [Next]_vars => [Abstract!Next]_(Abstract!document)
<1> SUFFICES ASSUME IInv, [Next]_vars
             PROVE  Abstract!Next \/ UNCHANGED <<url, managed, infDocument.load, ready>>
  BY DEF Abstract!document
<1> USE DEF editor, managing, loading, pointers, library, world, counters
<1>1. /\ managed <=> managed = TRUE
      /\ managed = FALSE => /\ lookups = 0 /\ ~refusal /\ ~listening
                            /\ request.owned = FALSE /\ infDocument = NoDocument
  BY DEF IInv, Facts, LetGo
<1>2. infDocument = NoDocument =>
          infDocument.join = "no" /\ infDocument.load = "Unloaded"
  BY DEF NoDocument
<1>3. CASE checkManageDocument
  BY <1>3 DEF checkManageDocument, Abstract!Next, Abstract!Manage
<1>4. CASE browserConnected \/ retryTimeout \/ nodeAdded \/ lookupHangs
  BY <1>4 DEF browserConnected, retryTimeout, nodeAdded, lookupHangs
<1>5. CASE lookupFailed
  <2>1. managed
    BY <1>1, <1>5 DEF lookupFailed, IInv, Facts
  <2>2. CASE UNCHANGED <<ready, pointers>>
    BY <1>5, <2>2 DEF lookupFailed
  <2>3. CASE unsubscribe(session)
    BY <1>5, <2>1, <2>3 DEF lookupFailed, unsubscribe, Abstract!Next,
       Abstract!GiveUp, NoDocument
  <2> QED
    BY <1>5, <2>2, <2>3 DEF lookupFailed
<1>6. CASE errorBoxClosed
  <2>1. CASE managed /\ url' = "closed" /\ removeDocument(request, session)
    BY <2>1, RemovalUnmanages
  <2>2. CASE /\ ~managed /\ url' \in {url, "closed"}
             /\ UNCHANGED <<managing, pointers>>
    <3>1. CASE url' = url
      BY <2>2, <3>1
    <3>2. CASE url' = "closed"
      BY <2>2, <3>2 DEF Abstract!Next, Abstract!OpenOrClose
    <3> QED
      BY <2>2, <3>1, <3>2
  <2> QED
    BY <1>6, <2>1, <2>2 DEF errorBoxClosed
<1>7. CASE finishSubscription
  <2>1. managed
    BY <1>1, <1>7 DEF finishSubscription, IInv, Facts
  <2>2. CASE unrecoverableError(request, session)
    BY <2>1, <2>2, RemovalUnmanages DEF unrecoverableError
  <2>3. CASE UNCHANGED <<editor, managing, infDocument>>
    BY <2>3
  <2> QED
    BY <1>7, <2>2, <2>3 DEF finishSubscription
<1>8. CASE subscriptionDone
  <2>1. UNCHANGED <<url, managed, ready>>
    BY <1>8 DEF subscriptionDone
  <2>2. CASE infDocument' = infDocument
    BY <2>1, <2>2
  <2>3. CASE listening /\ infDocument'.load \in {"Joining", "Synchronizing"}
    <3>1. managed
      BY <1>1, <2>3 DEF IInv, Facts
    <3> QED
      BY <2>1, <2>3, <3>1 DEF Abstract!Next, Abstract!Load, Abstract!LoadStates
  <2> QED
    BY <1>8, <2>2, <2>3 DEF subscriptionDone
<1>9. CASE subscriptionFailed
  <2>1. CASE request # NoRequest /\ ~request.owned
             /\ UNCHANGED <<editor, managing, pointers>>
    BY <2>1
  <2>2. CASE request # NoRequest /\ request.owned
             /\ unrecoverableError(NoRequest, session)
    <3>1. managed
      BY <1>1, <2>2 DEF IInv, Facts
    <3> QED
      BY <2>2, <3>1, RemovalUnmanages DEF unrecoverableError
  <2>3. CASE refusal /\ unrecoverableError(request, session)
    <3>1. managed
      BY <1>1, <2>3 DEF IInv, Facts
    <3> QED
      BY <2>3, <3>1, RemovalUnmanages DEF unrecoverableError
  <2> QED
    BY <1>9, <2>1, <2>2, <2>3 DEF subscriptionFailed
<1>10. CASE slotSynchronized
  <2>1. UNCHANGED <<url, managed, ready>>
    BY <1>10 DEF slotSynchronized
  <2>2. CASE infDocument = NoDocument
    BY <1>10, <2>1, <2>2 DEF slotSynchronized
  <2>3. CASE infDocument # NoDocument
    <3>1. managed
      BY <1>1, <2>3 DEF IInv, Facts
    <3>2. infDocument'.load = "Joining"
      BY <1>10, <2>3 DEF slotSynchronized, joinSession, IInv, Facts
    <3> QED
      BY <2>1, <3>1, <3>2 DEF Abstract!Next, Abstract!Load, Abstract!LoadStates
  <2> QED
    BY <2>2, <2>3
<1>11. CASE sessionClosed
  <2>1. CASE UNCHANGED <<editor, managing, pointers>>
    BY <2>1
  <2>2. CASE infDocument # NoDocument /\ unrecoverableError(request, NoSession)
    <3>1. managed
      BY <1>1, <2>2 DEF IInv, Facts
    <3> QED
      BY <2>2, <3>1, RemovalUnmanages DEF unrecoverableError
  <2> QED
    BY <1>11, <2>1, <2>2 DEF sessionClosed
<1>12. CASE nodeRemoved
  <2>1. CASE UNCHANGED <<editor, managing, pointers>>
    BY <2>1
  <2>2. CASE /\ infDocument # NoDocument \/ request.owned
             /\ unrecoverableError(NoRequest, NoSession)
    <3>1. managed
      BY <1>1, <2>2 DEF IInv, Facts
    <3> QED
      BY <2>2, <3>1, RemovalUnmanages DEF unrecoverableError
  <2> QED
    BY <1>12, <2>1, <2>2 DEF nodeRemoved
<1>13. CASE slotJoinFinished
  <2>1. managed /\ infDocument # NoDocument
    BY <1>1, <1>2, <1>13 DEF slotJoinFinished, IInv, Facts
  <2>2. infDocument.load = "Joining"
    BY <1>13 DEF slotJoinFinished, IInv, Follows
  <2>3. infDocument'.load = "Complete"
    BY <1>13, <2>1 DEF slotJoinFinished, IInv, Facts
  <2> QED
    BY <1>13, <2>1, <2>2, <2>3 DEF slotJoinFinished, Abstract!Next, Abstract!Complete
<1>14. CASE slotJoinFailed
  <2>1. infDocument'.load = infDocument.load
    BY <1>2, <1>14 DEF slotJoinFailed, IInv, Facts
  <2> QED
    BY <1>14, <2>1 DEF slotJoinFailed
<1>15. CASE newUserNameEntered
  <2>1. managed /\ infDocument # NoDocument
    BY <1>1, <1>2, <1>15 DEF newUserNameEntered, IInv, Facts
  <2>2. infDocument'.load = "Joining"
    BY <1>15, <2>1 DEF newUserNameEntered, joinSession, IInv, Facts
  <2> QED
    BY <1>15, <2>1, <2>2 DEF newUserNameEntered, Abstract!Next, Abstract!Load,
       Abstract!LoadStates
<1>16. CASE joinAborted
  <2>1. managed
    BY <1>1, <1>2, <1>16 DEF joinAborted, IInv, Facts
  <2> QED
    BY <1>16, <2>1, RemovalUnmanages DEF joinAborted, unrecoverableError
<1>17. CASE Reload
  BY <1>17, RemovalUnmanages DEF Reload, IInv, Facts
<1>18. CASE Leave
  BY <1>18, RemovalUnmanages DEF Leave
<1>19. CASE Reopen
  <2>1. ~managed
    BY <1>19 DEF Reopen, IInv, Follows
  <2> QED
    BY <1>19, <2>1 DEF Reopen, Abstract!Next, Abstract!OpenOrClose
<1>20. CASE UNCHANGED vars
  BY <1>20 DEF vars
<1> QED
  BY <1>3, <1>4, <1>5, <1>6, <1>7, <1>8, <1>9, <1>10, <1>11, <1>12, <1>13,
     <1>14, <1>15, <1>16, <1>17, <1>18, <1>19, <1>20
     DEF Next, Progress, Answer, Event

\* What the plugin does with a document is what its views are built on.
THEOREM DocumentImplementsOpening == Spec => ImplementsOpening
<1>1. Init => Abstract!Init
  BY DEF Init, Abstract!Init, NoDocument
<1>2. IInv /\ [Next]_vars => [Abstract!Next]_(Abstract!document)
  BY StepIsKnown
<1> QED
  BY <1>1, <1>2, InvHolds, PTL DEF Spec, ImplementsOpening, Abstract!Spec
=============================================================================
