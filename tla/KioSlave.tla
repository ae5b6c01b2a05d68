------------------------------- MODULE KioSlave -------------------------------
(***************************************************************************)
(* The KIO slave of the inf: protocol (kioslave/kio_infinity.cpp).  It     *)
(* serves one call after another: connect to the host of the URL, look the *)
(* node up, send a request, and wait for its answer.  Each wait is an      *)
(* event loop of its own; outside of these loops no network event is       *)
(* handled.  All requests report to the same two signals of the slave,     *)
(* whichever call they belong to.                                          *)
(*                                                                         *)
(* Abstractions.  URLs have a path (without one a call is redirected at    *)
(* once).  The lookup of a node answers whether there is one (how          *)
(* it goes about that is the subject of PathLookup).  A call is known by   *)
(* its kind: "stat" is one of get and stat.  Of the bytes that put() has   *)
(* read only the sign of their number is kept.  Answers to requests of a   *)
(* connection that was replaced do not come.                               *)
(***************************************************************************)
EXTENDS Integers

CONSTANTS
    Hosts,          \* peers (host name and port)
    None,           \* no peer
    MaxCalls        \* bound: calls served

ASSUME KioSlaveAssumption ==
    /\ None \notin Hosts
    /\ MaxCalls \in Nat

VARIABLES
    connectedTo,    \* m_connectedTo
    link,           \* the peer m_connection was made for
    xmpp,           \* status of its XMPP connection
    browserOpen,    \* status of its browser
    lastError,      \* m_lastError is not empty
    call,           \* the call being served: its kind and host
    control,        \* which event loop is running, or "idle"
    size,           \* of what put() has read: negative, none or positive
    readFailed,     \* its last readData() failed
    stale,          \* unanswered requests of earlier calls
    last,           \* what was reported of the last call, and its answer
    calls,          \* number of calls so far (for the bound)
    timedOut, failedConnect     \* history: it happened at some time

connecting == <<connectedTo, link, xmpp, browserOpen>>
reading == <<size, readFailed>>
history == <<calls, timedOut, failedConnect>>
vars == <<connecting, lastError, call, control, reading, stale, last, history>>

Kinds == {"stat", "mimetype", "list", "put", "mkdir", "del"}
NoCall == [kind |-> "none", host |-> None]

\* The call is over.
Report(reported, answer) ==
    /\ control' = "idle"
    /\ call' = NoCall
    /\ last' = [kind |-> call.kind, reported |-> reported, answer |-> answer]

-----------------------------------------------------------------------------
(* Connecting *)

\* Faulty: only the status of the connection is looked at.
ConnectedAtAll(h) == link # None /\ xmpp = "open"

isConnectedTo(h) == connectedTo = h /\ link # None /\ xmpp = "open"

\* What follows a successful doConnect(): mimetype() is done with that, put()
\* reads its data first.
Proceed(c) ==
    IF c.kind = "mimetype"
    THEN /\ control' = "idle"
         /\ call' = NoCall
         /\ last' = [kind |-> "mimetype", reported |-> "finished", answer |-> "none"]
    ELSE /\ control' = IF c.kind = "put" THEN "reading" ELSE "lookup"
         /\ call' = c
         /\ UNCHANGED last

\* The application calls.  Without a connection to the host a new one replaces
\* the one before.
Call(c) ==
    /\ control = "idle"
    /\ calls < MaxCalls
    /\ calls' = calls + 1
    /\ \/ /\ isConnectedTo(c.host)
          /\ Proceed(c)
          /\ UNCHANGED <<connecting, stale>>
       \/ /\ ~isConnectedTo(c.host)
          /\ link' = c.host
          /\ xmpp' = "none"
          /\ browserOpen' = FALSE
          /\ stale' = 0
          /\ control' = "resolving"
          /\ call' = c
          /\ UNCHANGED <<connectedTo, last>>
    /\ UNCHANGED <<lastError, reading, timedOut, failedConnect>>

hostResolved ==
    /\ control = "resolving"
    /\ xmpp' = "opening"
    /\ control' = "connecting"
    /\ UNCHANGED <<connectedTo, link, browserOpen, lastError, call, reading,
                   stale, last, history>>

\* The peer accepts the connection; the browser is not open yet.
xmppOpened ==
    /\ control = "connecting"
    /\ xmpp = "opening"
    /\ xmpp' = "open"
    /\ UNCHANGED <<connectedTo, link, browserOpen, lastError, call, control,
                   reading, stale, last, history>>

connectionEstablished ==
    /\ control = "connecting"
    /\ xmpp = "open"
    /\ browserOpen' = TRUE
    /\ connectedTo' = call.host
    /\ Proceed(call)
    /\ UNCHANGED <<link, xmpp, lastError, reading, stale, history>>

\* Faulty: the timer is forgotten once the name is resolved.
FailOnlyResolving ==
    /\ control = "resolving"
    /\ failedConnect' = TRUE
    /\ Report("error", "none")
    /\ UNCHANGED <<connecting, lastError, reading, stale, calls, timedOut>>

\* The name is not found, the peer refuses, or all takes too long.
connectFailed ==
    /\ control \in {"resolving", "connecting"}
    /\ xmpp' \in {xmpp, IF xmpp = "none" THEN "none" ELSE "closed"}
    /\ failedConnect' = TRUE
    /\ Report("error", "none")
    /\ UNCHANGED <<connectedTo, link, browserOpen, lastError, reading, stale, calls,
                   timedOut>>

\* The connection breaks while an event loop runs.
disconnected ==
    /\ control \in {"lookup", "waiting"}
    /\ xmpp = "open"
    /\ xmpp' = "closed"
    /\ browserOpen' = FALSE
    /\ UNCHANGED <<connectedTo, link, lastError, call, control, reading, stale,
                   last, history>>

-----------------------------------------------------------------------------
(* Reading what to put *)

\* The sign of a sum
Sums(sign, bytesRead) ==
    CASE bytesRead > 0 -> IF sign < 0 THEN {-1, 0, 1} ELSE {1}
      [] bytesRead < 0 -> IF sign > 0 THEN {0, 1} ELSE {-1}

\* put() goes on reading until it is given nothing.  A read that failed is one
\* of -1 bytes, and not the end.
readData ==
    /\ control = "reading"
    /\ \E bytesRead \in {-1, 1} :
          /\ size' \in Sums(size, bytesRead)
          /\ readFailed' = (bytesRead < 0)
    /\ UNCHANGED <<connecting, lastError, call, control, stale, last, history>>

\* The application has no more.  put() fails when it counts less than nothing.
endOfData ==
    /\ control = "reading"
    /\ size' = 0
    /\ readFailed' = FALSE
    /\ IF size < 0
       THEN Report("error", "none")
       ELSE control' = "lookup" /\ UNCHANGED <<call, last>>
    /\ UNCHANGED <<connecting, lastError, stale, history>>

-----------------------------------------------------------------------------
(* Looking up and requesting *)

\* A request is sent, and its answer waited for.
Wait ==
    /\ control' = "waiting"
    /\ UNCHANGED <<call, last>>

\* stat() and get() are answered from the lookup.
Stat(ok) ==
    /\ call.kind = "stat"
    /\ Report(IF ok THEN "finished" ELSE "error", "none")

\* To delete a node it must exist.
Del(ok) ==
    /\ call.kind = "del"
    /\ IF ok THEN Wait ELSE Report("error", "none")

\* To create one its parent should, and is not asked for.
Create ==
    /\ call.kind \in {"put", "mkdir"}
    /\ Wait

\* A listing takes whatever node the lookup ended on, and explores it if that is
\* to be done.
ListDir(ok) ==
    /\ call.kind = "list"
    /\ \/ Report("finished", "none")
       \/ ~ok /\ Wait

iterForUrl ==
    /\ control = "lookup"
    /\ xmpp = "open" /\ browserOpen
    /\ \E ok \in BOOLEAN : Stat(ok) \/ Del(ok) \/ Create \/ ListDir(ok)
    /\ UNCHANGED <<connecting, lastError, reading, stale, history>>

\* An exploration fails, or the connection is lost and there is nobody to
\* answer it: the lookup listens to neither, and has no timer.
lookupHangs ==
    /\ control = "lookup"
    /\ \/ control' = "unanswered"
       \/ (xmpp # "open" \/ ~browserOpen) /\ control' = "hung"
    /\ UNCHANGED <<connecting, lastError, call, reading, stale, last, history>>

\* Faulty: what an error says is kept for later.
KeepError(answer, ok) ==
    IF lastError \/ ~ok
    THEN Report("error", answer) /\ lastError' = TRUE
    ELSE Report("finished", answer) /\ lastError' = FALSE

\* Faulty: errors are not looked at.
FinishAnyway(answer, ok) == Report("finished", answer) /\ lastError' = FALSE

\* waitForCompletion() returns: an answer, good or bad, has ended its loop.
Complete(answer, ok) ==
    IF lastError \/ ~ok
    THEN Report("error", answer) /\ lastError' = FALSE
    ELSE Report("finished", answer) /\ lastError' = FALSE

\* The request of this call is answered.  When the connection breaks it may be
\* answered with an error; the end of an exploration is connected to a signal
\* of other parameters, which is to nothing.
requestAnswered ==
    /\ control = "waiting"
    /\ \E ok \in BOOLEAN :
          /\ ok => xmpp = "open" /\ call.kind # "list"
          /\ Complete(IF ok THEN "success" ELSE "failure", ok)
    /\ UNCHANGED <<connecting, reading, stale, history>>

\* A request of an earlier call is answered.  In waitForCompletion() this ends
\* the wait for another one; elsewhere an error is remembered.
lateAnswer ==
    /\ control \in {"lookup", "waiting"}
    /\ xmpp = "open"
    /\ stale > 0
    /\ \E ok \in BOOLEAN :
          IF control = "waiting"
          THEN Complete("none", ok) /\ UNCHANGED stale
          ELSE /\ stale' = stale - 1
               /\ lastError' = (lastError \/ ~ok)
               /\ UNCHANGED <<call, control, last>>
    /\ UNCHANGED <<connecting, reading, history>>

\* The answer does not come in time, or a refusal comes in the same turn of the
\* event loop as the timer.
timeout ==
    /\ control = "waiting"
    /\ timedOut' = TRUE
    /\ Report("error", "none")
    /\ \/ stale' = stale + 1 /\ UNCHANGED lastError
       \/ lastError' = TRUE /\ UNCHANGED stale
    /\ UNCHANGED <<connecting, reading, calls, failedConnect>>

-----------------------------------------------------------------------------

Init ==
    /\ connectedTo = None
    /\ link = None
    /\ xmpp = "none"
    /\ browserOpen = FALSE
    /\ lastError = FALSE
    /\ call = NoCall
    /\ control = "idle"
    /\ size = 0
    /\ readFailed = FALSE
    /\ stale = 0
    /\ last = [kind |-> "none", reported |-> "none", answer |-> "none"]
    /\ calls = 0
    /\ timedOut = FALSE
    /\ failedConnect = FALSE

Serve ==
    \/ hostResolved \/ connectFailed \/ connectionEstablished
    \/ readData \/ endOfData
    \/ iterForUrl \/ lookupHangs
    \/ requestAnswered \/ lateAnswer \/ timeout

Next ==
    \/ \E k \in Kinds, h \in Hosts : Call([kind |-> k, host |-> h])
    \/ Serve
    \/ xmppOpened
    \/ disconnected

Spec == Init /\ [][Next]_vars

\* The timers fire, a lookup is answered or hangs, and the data an application
\* sends comes to an end or fails to be read; when it has failed nothing is said
\* of what comes next.
FairSpec ==
    /\ Spec
    /\ WF_vars(connectFailed)
    /\ WF_vars(~readFailed /\ (endOfData \/ (readData /\ readFailed')))
    /\ WF_vars(iterForUrl \/ lookupHangs)
    /\ WF_vars(timeout)

-----------------------------------------------------------------------------
(* Properties *)

TypeOK ==
    /\ connectedTo \in Hosts \cup {None}
    /\ link \in Hosts \cup {None}
    /\ xmpp \in {"none", "opening", "open", "closed"}
    /\ {browserOpen, lastError, timedOut, failedConnect} \subseteq BOOLEAN
    /\ call \in [kind : Kinds, host : Hosts] \cup {NoCall}
    /\ control \in {"idle", "resolving", "connecting", "reading", "lookup", "waiting",
                   "hung", "unanswered"}
    /\ control \in {"lookup", "waiting", "hung", "unanswered"} => call.kind # "mimetype"
    /\ size \in {-1, 0, 1} /\ readFailed \in BOOLEAN
    /\ control = "reading" => call.kind = "put"
    /\ control # "reading" => size = 0 /\ ~readFailed
    /\ stale \in Nat
    /\ last \in [kind : Kinds \cup {"none"}, reported : {"none", "finished", "error"},
                 answer : {"none", "success", "failure"}]

\* "Waits for a request finish (as signaled by requestSuccessful() /
\* requestError()), and reacts to errors accordingly" (kio_infinity.h:121-123):
\* a call that sent a request is reported finished when the server did it, and
\* failed when the server refused or nothing was heard.
ReportedAsAnswered ==
    last.kind \in {"put", "mkdir", "del"} =>
        (last.reported = "finished" <=> last.answer = "success")

\* As long as no request has timed out, that is so.
ReportedUnlessTimedOut == ~timedOut => ReportedAsAnswered

\* No error is carried over from one call to the next, unless a request has
\* timed out and its answer came late.
NoErrorCarriedOver == control = "idle" /\ ~timedOut => ~lastError

\* The same, with the types.
SlaveInv == TypeOK /\ NoErrorCarriedOver

\* "If a connection is already open for the given peer, does nothing and
\* returns true" (kio_infinity.h:103-107): what a call looks up and requests it
\* asks of the host of its URL.
AsksTheRightHost == control \in {"lookup", "waiting"} => link = call.host

\* As long as no attempt to connect has failed, that is so.
RightHostUnlessFailed == ~failedConnect => AsksTheRightHost

\* Every call ends: there are timers for connecting and for answers.  Only a
\* lookup may be without end, when an exploration fails or the connection is not
\* open any more (kio_infinity.cpp:352-358); and the reading of put(), when a read
\* fails and no later one is the end (kio_infinity.cpp:235-241).
CallsEnd ==
    control # "idle" ~>
        \/ control \in {"idle", "unanswered"}
        \/ control \in {"lookup", "hung"} /\ (xmpp # "open" \/ ~browserOpen)
        \/ control = "reading" /\ readFailed
=============================================================================
