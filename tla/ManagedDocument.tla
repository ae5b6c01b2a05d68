---------------------------- MODULE ManagedDocument ----------------------------
(***************************************************************************)
(* The life of one collaborative document: the KTextEditor document, the   *)
(* ManagedDocument the plugin keeps for it (kte-plugin/manageddocument.    *)
(* cpp), and the InfTextDocument that joins its session (common/document.  *)
(* cpp).  Looking the file up, subscribing to it, synchronising and        *)
(* joining are requests to a server whose answers come later and in any    *)
(* order relative to the retry timer, to the addition and removal of files *)
(* by others, and to what the user does with the document.                 *)
(*                                                                         *)
(* Abstractions.  The connection, once open, stays open; its loss is the   *)
(* subject of PluginConnections.  Deferred deletions run before the next   *)
(* network event.  The texts are the subject of TextSync.                  *)
(*                                                                         *)
(* The library, seen from this code: a node has at most one session, and   *)
(* at most one subscription under way; a further subscription to it is     *)
(* refused, and the refusal may or may not be signalled.                   *)
(***************************************************************************)
EXTENDS Naturals, FiniteSets

CONSTANTS
    Buffers,            \* identities of KDocumentTextBuffers, reused when free
    None,               \* the null pointer
    MaxRetries,         \* lookups that are retried (5 in the code)
    MaxLookups,         \* bound: lookups under way at once
    MaxReopenings,      \* bound: times the document is opened again
    MaxFileEvents,      \* bound: additions and removals of files
    MaxJoinFailures     \* bound: user names the server turns down

ASSUME ManagedDocumentAssumption ==
    /\ IsFiniteSet(Buffers) /\ Cardinality(Buffers) > 4
    /\ None \notin Buffers
    /\ {MaxRetries, MaxLookups, MaxReopenings, MaxFileEvents, MaxJoinFailures}
           \subseteq Nat

VARIABLES
    \* the KTextEditor document
    url,            \* "inf", "temp" once saved away, or "closed"
    readWrite,      \* it accepts edits
    \* the ManagedDocument, while the plugin keeps one
    managed,        \* the document is in m_managedDocuments
    subscribed,     \* m_subscribed
    ready,          \* m_ready
    retries,        \* m_connectionRetries
    listening,      \* m_iterId is set and subscriptionDone is connected
    textBuffer,     \* m_textBuffer
    infDocument,    \* m_infDocument: its load state, join request and buffer
    lookups,        \* IterLookupHelpers under way that answer to it
    hung,           \* one of them will never answer
    timers,         \* single shots that will call subscribe()
    watchers,       \* connections of nodeAdded() to subscribe()
    boxes,          \* nested event loops of error boxes in lookupFailed()
    \* the library and the server
    browserOpen,    \* the browser of the connection is open
    file,           \* what the URL names on the server
    request,        \* the subscription under way: its buffer and its owner
    refusal,        \* a refused subscription will be signalled as failed
    session,        \* the session of the file: its buffer and its status
    \* bounds and history
    reopenings, fileEvents, joinFailures,
    overlapped      \* a subscription was refused at some time

editor == <<url, readWrite>>
managing == <<managed, subscribed, ready, retries>>
loading == <<lookups, hung, timers, watchers, boxes>>
pointers == <<listening, textBuffer, infDocument>>
library == <<request, refusal, session>>
world == <<browserOpen, file>>
counters == <<reopenings, fileEvents, joinFailures, overlapped>>

vars == <<editor, managing, loading, pointers, library, world, counters>>

NoDocument == [load |-> "Unloaded", join |-> "no", buffer |-> None]
NoRequest  == [buffer |-> None, owned |-> FALSE]
NoSession  == [buffer |-> None, status |-> "closed"]

\* No object or session refers to a free buffer.
FreeBuffer ==
    CHOOSE b \in Buffers :
        b \notin {textBuffer, infDocument.buffer, request.buffer, session.buffer}

-----------------------------------------------------------------------------
(* Letting go *)

\* What unsubscribe() leaves behind: the InfTextDocument is deleted and closes
\* its session, the buffer is shut down.
unsubscribe(ses) ==
    /\ ready' = FALSE
    /\ infDocument' = NoDocument
    /\ session' = IF infDocument = NoDocument THEN ses ELSE NoSession
    /\ textBuffer' = None

\* Faulty: the ManagedDocument is deleted without unsubscribing.
RemoveSubscribed(req, ses) ==
    /\ UNCHANGED pointers
    /\ session' = ses
    /\ managed' = FALSE
    /\ subscribed' = FALSE
    /\ ready' = FALSE
    /\ retries' = 0
    /\ lookups' = 0
    /\ hung' = FALSE
    /\ timers' = 0
    /\ watchers' = 0
    /\ request' = req
    /\ refusal' = FALSE

\* The plugin deletes the ManagedDocument, which unsubscribes; whatever would
\* still call its slots is disconnected.
removeDocument(req, ses) ==
    /\ unsubscribe(ses)
    /\ managed' = FALSE
    /\ subscribed' = FALSE
    /\ retries' = 0
    /\ listening' = FALSE
    /\ lookups' = 0
    /\ hung' = FALSE
    /\ timers' = 0
    /\ watchers' = 0
    /\ request' = [req EXCEPT !.owned = FALSE]
    /\ refusal' = FALSE

\* The document is saved to a temporary file; its URL changes, and with that
\* it is no longer managed.
unrecoverableError(req, ses) ==
    /\ url' = "temp"
    /\ removeDocument(req, ses)
    /\ UNCHANGED readWrite

\* The plugin starts to manage an inf: document, read-only, and subscribes it
\* at once if the browser is there.
checkManageDocument ==
    /\ url = "inf"
    /\ ~managed
    /\ managed' = TRUE
    /\ readWrite' = FALSE
    /\ subscribed' = browserOpen
    /\ lookups' = IF browserOpen THEN 1 ELSE 0
    /\ UNCHANGED <<url, ready, retries, pointers, hung, timers, watchers, boxes,
                   library, world, counters>>

\* The browser opens; documents that are not subscribed yet are.
browserConnected ==
    /\ ~browserOpen
    /\ browserOpen' = TRUE
    /\ IF managed /\ ~subscribed
       THEN subscribed' = TRUE /\ lookups' = lookups + 1
       ELSE UNCHANGED <<subscribed, lookups>>
    /\ UNCHANGED <<editor, managed, ready, retries, pointers, hung, timers,
                   watchers, boxes, library, file, counters>>

-----------------------------------------------------------------------------
(* Looking the file up *)

\* The retry timer fires: subscribe() starts another lookup.
retryTimeout ==
    /\ timers > 0
    /\ lookups < MaxLookups
    /\ timers' = timers - 1
    /\ subscribed' = TRUE
    /\ lookups' = lookups + 1
    /\ UNCHANGED <<editor, managed, ready, retries, pointers, hung, watchers,
                   boxes, library, world, counters>>

\* Someone adds a file, perhaps this one: every connection of nodeAdded() to
\* subscribe() starts a lookup.
nodeAdded ==
    /\ browserOpen
    /\ fileEvents < MaxFileEvents
    /\ lookups + watchers <= MaxLookups
    /\ fileEvents' = fileEvents + 1
    /\ file' \in IF file = "absent" THEN {"absent", "text", "directory"} ELSE {file}
    /\ lookups' = lookups + watchers
    /\ subscribed' = (subscribed \/ watchers > 0)
    /\ UNCHANGED <<editor, managed, ready, retries, pointers, hung, timers,
                   watchers, boxes, library, browserOpen, reopenings, joinFailures,
                   overlapped>>

\* Faulty: only the addition of a node repeats the lookup.
RetryOnNodeAdded ==
    /\ lookups > 0
    /\ file = "absent"
    /\ retries < MaxRetries
    /\ lookups' = lookups - 1
    /\ watchers' = watchers + 1
    /\ retries' = retries + 1
    /\ UNCHANGED <<editor, managed, subscribed, ready, hung, timers, boxes, pointers,
                   library, world, counters>>

\* Faulty: failures are not counted.
RetryForever ==
    /\ lookups > 0
    /\ file = "absent"
    /\ lookups' = lookups - 1
    /\ watchers' = 1
    /\ timers' = timers + 1
    /\ UNCHANGED <<editor, managing, pointers, hung, boxes, library, world, counters>>

\* The file is not there.  A lookup is repeated after a while and whenever a
\* node is added.  After MaxRetries failures the document is given up; the
\* error box runs a nested event loop before the document is closed.
lookupFailed ==
    /\ lookups > 0
    /\ file = "absent"
    /\ lookups' = lookups - 1
    /\ \/ /\ retries < MaxRetries
          /\ watchers' = watchers + 1
          /\ timers' = timers + 1
          /\ retries' = retries + 1
          /\ UNCHANGED <<ready, boxes, pointers, session>>
       \/ /\ retries >= MaxRetries
          /\ unsubscribe(session)
          /\ boxes' = boxes + 1
          /\ UNCHANGED <<watchers, timers, retries, listening>>
    /\ UNCHANGED <<editor, managed, subscribed, hung, request, refusal, world,
                   counters>>

\* A directory on the way to the file cannot be explored, because it has gone,
\* say, or is a file.  The failure of the exploration is connected to nothing.
lookupHangs ==
    /\ lookups > 0
    /\ lookups' = lookups - 1
    /\ hung' = TRUE
    /\ UNCHANGED <<editor, managing, pointers, timers, watchers, boxes, library,
                   world, counters>>

\* The innermost error box is dismissed: the document is closed.  A
\* ManagedDocument that was deleted meanwhile does this from freed memory.
errorBoxClosed ==
    /\ boxes > 0
    /\ boxes' = boxes - 1
    /\ \/ /\ managed
          /\ url' = "closed"
          /\ removeDocument(request, session)
          /\ UNCHANGED <<readWrite, world, counters>>
       \/ /\ ~managed
          /\ url' \in {url, "closed"}
          /\ UNCHANGED <<readWrite, managing, pointers, lookups, hung, timers,
                         watchers, library, world, counters>>

\* The file is found.  A directory is an error; for a document a new text
\* buffer replaces the one before and a subscription is asked for.
finishSubscription ==
    /\ lookups > 0
    /\ \/ /\ file = "directory"
          /\ unrecoverableError(request, session)
          /\ UNCHANGED <<boxes, world, counters>>
       \/ /\ file = "text"
          /\ lookups' = lookups - 1
          /\ listening' = TRUE
          /\ textBuffer' = FreeBuffer
          /\ IF request = NoRequest /\ session = NoSession
             THEN /\ request' = [buffer |-> FreeBuffer, owned |-> TRUE]
                  /\ UNCHANGED <<refusal, overlapped>>
             ELSE /\ overlapped' = TRUE
                  /\ refusal' \in {refusal, TRUE}
                  /\ UNCHANGED request
          /\ UNCHANGED <<editor, managing, infDocument, hung, timers, watchers,
                         boxes, session, world, reopenings, fileEvents, joinFailures>>

-----------------------------------------------------------------------------
(* Subscribing, synchronising, joining *)

\* A user is asked for under a name; it is called once the session runs
joinSession(d) == [d EXCEPT !.load = "Joining", !.join = "asked"]

\* Faulty: the editor opens before the join is answered.
ReadyWhenSynchronized ==
    /\ session.status = "synchronizing"
    /\ session' = [session EXCEPT !.status = "running"]
    /\ IF infDocument = NoDocument
       THEN UNCHANGED <<infDocument, readWrite, ready>>
       ELSE /\ infDocument' = joinSession(infDocument)
            /\ readWrite' = TRUE
            /\ ready' = TRUE
    /\ UNCHANGED <<url, managed, subscribed, retries, listening, textBuffer,
                   loading, request, refusal, world, counters>>

\* Faulty: a session is started for whoever asks, connected or not.
SubscribedAnyway ==
    /\ request # NoRequest
    /\ file = "text"
    /\ request' = NoRequest
    /\ session' = [buffer |-> request.buffer, status |-> "running"]
    /\ infDocument' = [load |-> "Joining", join |-> "asked", buffer |-> textBuffer]
    /\ UNCHANGED <<editor, managing, listening, textBuffer, loading, refusal,
                   world, counters>>

\* The library has the session, being synchronised or already running.  If a
\* ManagedDocument listens, its InfTextDocument takes the buffer the
\* ManagedDocument has NOW; otherwise the session is nobody's.
subscriptionDone ==
    /\ request # NoRequest
    /\ file = "text"
    /\ request' = NoRequest
    /\ \E status \in {"synchronizing", "running"} :
          /\ session' = [buffer |-> request.buffer, status |-> status]
          /\ infDocument' =
                IF ~listening
                THEN infDocument
                ELSE IF status = "running"
                THEN [load |-> "Joining", join |-> "asked", buffer |-> textBuffer]
                ELSE [load |-> "Synchronizing", join |-> "no", buffer |-> textBuffer]
    /\ UNCHANGED <<editor, managing, listening, textBuffer, loading, refusal,
                   world, counters>>

\* A request fails; if its ManagedDocument still exists that is the end.
subscriptionFailed ==
    \/ /\ request # NoRequest
       /\ IF request.owned
          THEN /\ unrecoverableError(NoRequest, session)
               /\ UNCHANGED <<boxes, world, counters>>
          ELSE /\ request' = NoRequest
               /\ UNCHANGED <<editor, managing, pointers, loading, refusal,
                              session, world, counters>>
    \/ /\ refusal
       /\ unrecoverableError(request, session)
       /\ UNCHANGED <<boxes, world, counters>>

\* The text has arrived; the local user asks to join.
slotSynchronized ==
    /\ session.status = "synchronizing"
    /\ session' = [session EXCEPT !.status = "running"]
    /\ infDocument' =
          IF infDocument = NoDocument
          THEN infDocument
          ELSE joinSession(infDocument)
    /\ UNCHANGED <<editor, managing, listening, textBuffer, loading, request,
                   refusal, world, counters>>

\* The session ends: it could not be synchronised, or the host closed it.
sessionClosed ==
    /\ session # NoSession
    /\ IF infDocument = NoDocument
       THEN /\ session' = NoSession
            /\ UNCHANGED <<editor, managing, pointers, loading, request,
                           refusal, world, counters>>
       ELSE /\ unrecoverableError(request, NoSession)
            /\ UNCHANGED <<boxes, world, counters>>

\* Someone removes the file: its session is closed, a subscription to it fails.
nodeRemoved ==
    /\ file # "absent"
    /\ fileEvents < MaxFileEvents
    /\ file' = "absent"
    /\ fileEvents' = fileEvents + 1
    /\ IF infDocument # NoDocument \/ request.owned
       THEN unrecoverableError(NoRequest, NoSession)
       ELSE /\ request' = NoRequest
            /\ session' = NoSession
            /\ UNCHANGED <<editor, managing, pointers, lookups, hung, timers,
                           watchers, refusal>>
    /\ UNCHANGED <<boxes, browserOpen, reopenings, joinFailures, overlapped>>

\* The join is answered.  Loading is complete: the editor opens.
slotJoinFinished ==
    /\ infDocument.join = "asked"
    /\ session.status = "running"
    /\ infDocument' = [infDocument EXCEPT !.load = "Complete", !.join = "no"]
    /\ readWrite' = TRUE
    /\ ready' = TRUE
    /\ UNCHANGED <<url, managed, subscribed, retries, listening, textBuffer,
                   loading, library, world, counters>>

\* The name is taken, say; the user is asked for another one.
slotJoinFailed ==
    /\ infDocument.join = "asked"
    /\ joinFailures < MaxJoinFailures
    /\ joinFailures' = joinFailures + 1
    /\ infDocument' = [infDocument EXCEPT !.join = "dialog"]
    /\ UNCHANGED <<editor, managing, listening, textBuffer, loading, library,
                   world, reopenings, fileEvents, overlapped>>

newUserNameEntered ==
    /\ infDocument.join = "dialog"
    /\ boxes = 0
    /\ infDocument' = joinSession(infDocument)
    /\ UNCHANGED <<editor, managing, listening, textBuffer, loading, library,
                   world, counters>>

joinAborted ==
    /\ infDocument.join = "dialog"
    /\ boxes = 0
    /\ unrecoverableError(request, session)
    /\ UNCHANGED <<boxes, world, counters>>

-----------------------------------------------------------------------------
(* The user *)

\* Reloads, or changes the user name: the same URL is opened again.
Reload ==
    /\ managed
    /\ boxes = 0
    /\ reopenings < MaxReopenings
    /\ reopenings' = reopenings + 1
    /\ removeDocument(request, session)
    /\ UNCHANGED <<editor, boxes, world, fileEvents, joinFailures, overlapped>>

\* Disconnects, that is, saves the document elsewhere; or closes it.
Leave ==
    /\ managed
    /\ boxes = 0
    /\ url' \in {"temp", "closed"}
    /\ removeDocument(request, session)
    /\ UNCHANGED <<readWrite, boxes, world, counters>>

\* Opens the collaborative document again.
Reopen ==
    /\ url # "inf"
    /\ boxes = 0
    /\ reopenings < MaxReopenings
    /\ reopenings' = reopenings + 1
    /\ url' = "inf"
    /\ readWrite' \in BOOLEAN
    /\ UNCHANGED <<managing, pointers, loading, library, world, fileEvents,
                   joinFailures, overlapped>>

-----------------------------------------------------------------------------

Init ==
    /\ url = "inf" /\ readWrite \in BOOLEAN
    /\ managed = FALSE /\ subscribed = FALSE /\ ready = FALSE /\ retries = 0
    /\ listening = FALSE /\ textBuffer = None /\ infDocument = NoDocument
    /\ lookups = 0 /\ hung = FALSE /\ timers = 0 /\ watchers = 0 /\ boxes = 0
    /\ request = NoRequest /\ refusal = FALSE /\ session = NoSession
    /\ browserOpen \in BOOLEAN
    /\ file \in {"absent", "text", "directory"}
    /\ reopenings = 0 /\ fileEvents = 0 /\ joinFailures = 0
    /\ overlapped = FALSE

\* What the program and the library do by themselves
Progress ==
    \/ checkManageDocument
    \/ browserConnected
    \/ retryTimeout
    \/ lookupFailed
    \/ finishSubscription
    \/ lookupHangs
    \/ subscriptionDone
    \/ subscriptionFailed
    \/ slotSynchronized
    \/ slotJoinFinished

\* What the user is asked for
Answer == errorBoxClosed \/ newUserNameEntered \/ joinAborted

\* What may happen at any time
Event ==
    \/ nodeAdded \/ nodeRemoved
    \/ sessionClosed \/ slotJoinFailed
    \/ Reload \/ Leave \/ Reopen

Next == Progress \/ Answer \/ Event

Spec == Init /\ [][Next]_vars

\* Timers fire and the user answers what is asked.  A lookup finds the file, or
\* fails, or hangs; over a connection that lasts a subscription is made or
\* refused, the text arrives or the session is closed, a join is answered.
Fairness ==
    /\ WF_vars(retryTimeout)
    /\ WF_vars(lookupFailed \/ finishSubscription \/ lookupHangs)
    /\ WF_vars(subscriptionDone \/ subscriptionFailed)
    /\ WF_vars(slotSynchronized \/ (session.status = "synchronizing" /\ sessionClosed))
    /\ WF_vars(slotJoinFinished \/ slotJoinFailed)
    /\ WF_vars(errorBoxClosed)
    /\ WF_vars(newUserNameEntered \/ joinAborted)

FairSpec == Spec /\ Fairness

-----------------------------------------------------------------------------
(* Properties *)

TypeOK ==
    /\ url \in {"inf", "temp", "closed"}
    /\ {readWrite, managed, subscribed, ready, hung, listening, browserOpen,
        refusal, overlapped} \subseteq BOOLEAN
    /\ retries \in 0 .. MaxRetries
    /\ textBuffer \in Buffers \cup {None}
    /\ infDocument \in [load : {"Synchronizing", "Joining", "Complete"},
                        join : {"no", "asked", "dialog"},
                        buffer : Buffers] \cup {NoDocument}
    /\ {lookups, timers, watchers, boxes} \subseteq Nat
    /\ file \in {"absent", "text", "directory"}
    /\ request \in [buffer : Buffers, owned : BOOLEAN] \cup {NoRequest}
    /\ session \in [buffer : Buffers, status : {"synchronizing", "running"}]
                     \cup {NoSession}
    /\ {reopenings, fileEvents, joinFailures} \subseteq Nat

\* A document under management accepts edits only while its session runs and
\* the local user has joined it: an edit made earlier would never reach the
\* server (manageddocument.cpp:69-71, 226-227).
WritableOnlyWhenJoined ==
    /\ TypeOK
    /\ managed /\ readWrite =>
           ready /\ infDocument.load = "Complete" /\ session.status = "running"

\* A document that is ready is fed by its session: the buffer the session
\* writes to is the one the local edits go to, and the one the ManagedDocument
\* hands to the view and shuts down in the end (manageddocument.h:180-184).
ReadyToType ==
    ready => /\ session.status = "running"
             /\ infDocument.buffer = session.buffer
             /\ textBuffer = session.buffer

\* Only a subscription that is started while another one is under way, or
\* while the session exists, can break that.
ReadyUnlessOverlapped == ~overlapped => ReadyToType

\* Something that will make the document ready, or end its management
Pending ==
    \/ lookups > 0 \/ timers > 0 \/ boxes > 0
    \/ request # NoRequest
    \/ session # NoSession /\ infDocument # NoDocument

\* What a document may wait for in vain: a lookup that hung, or, when it was
\* opened again, a subscription refused because of one from before.
WaitsInVain == hung \/ (overlapped /\ reopenings > 0)

\* A document that is not ready is not forgotten: some lookup, timer, request,
\* session or question is under way, unless it waits in vain
\* (manageddocument.cpp:141-172).
NotForgotten ==
    managed /\ browserOpen /\ ~ready /\ ~WaitsInVain => Pending

\* Once a document has been let go it changes only by the user's hand, or by an
\* error box still to be dismissed.  Nor does the failure of a request touch a
\* later ManagedDocument of the document than the one that asked: its slots went
\* with it.  The success of such a request is another matter; it may well give
\* the later one its InfTextDocument (manageddocument.cpp:174-177, 293-294).
LateAnswersAreLost ==
    [][/\ ~managed /\ ~managed' /\ boxes' = boxes /\ reopenings' = reopenings
          => UNCHANGED editor
       /\ /\ request # NoRequest /\ ~request.owned
          /\ request' = NoRequest /\ session' = session
          => UNCHANGED <<editor, managing, pointers>>]_vars

\* What the views and the plugin rely on: the document behaves as Opening says.
\* In particular documentReady() is emitted only for a ManagedDocument that is
\* being joined, and what is let go is forgotten completely.
Abstract == INSTANCE Opening WITH load <- infDocument.load
ImplementsOpening == Abstract!Spec

\* Once the browser is open, opening comes to an end: the document becomes ready,
\* or is given up after the bounded retries and no longer managed.  A document
\* waits for ever only when one of its lookups hung, because an exploration
\* failed and nobody hears of that (common/utils.cpp:128-130), and nothing else
\* is under way for it; or when it was opened again and its subscription refused.
Settles ==
    managed /\ browserOpen ~>
        \/ ready
        \/ ~managed
        \/ hung /\ ~Pending
        \/ overlapped /\ reopenings > 0
=============================================================================
