------------------------------ MODULE InfTube ------------------------------
(***************************************************************************)
(* The two helper processes that handle Telepathy tubes:                   *)
(* kte-plugin/ktpintegration/inftube.cpp.                                  *)
(*                                                                         *)
(* The server handler gets every outgoing tube, starts an infinoted for    *)
(* it, opens documents if it is told to and exports infinoted's port; the  *)
(* client handler gets every accepted incoming tube and opens the          *)
(* documents it names.  Both show dialogs, and a dialog runs the event     *)
(* loop: until it is closed other tubes are requested and closed, contacts *)
(* come and go and other programs ask for the channels.  A handler that is *)
(* inside a dialog is a frame on the stack of its process, and only the    *)
(* topmost frame can go on.                                                *)
(***************************************************************************)
EXTENDS Integers, Sequences, FiniteSets, SequencesExt

CONSTANTS
    Outgoing,    \* tubes this user offers
    Incoming,    \* tubes that are offered to this user
    ContactOf,   \* the contact at the other end of a tube
    Paths,       \* how many documents the handler of a tube opens
    TcpPort,     \* the port Telepathy makes for an accepted incoming tube
    FirstPort, LastPort,  \* 49152 and 65535 in the code
    Attempts     \* retriesLeft + 1, 16 in the code

Tubes    == Outgoing \cup Incoming
Contacts == {ContactOf[t] : t \in Tubes}
Ports    == FirstPort .. LastPort
None     == 0

ASSUME InfTubeAssumption ==
    /\ Outgoing \cap Incoming = {}
    /\ Paths \in [Tubes -> Nat] /\ TcpPort \in [Incoming -> Nat]
    /\ FirstPort \in Nat \ {0} /\ LastPort \in Nat /\ FirstPort < LastPort
    /\ Attempts \in Nat \ {0}

Side(t) == IF t \in Outgoing THEN "server" ELSE "client"

VARIABLES
    \* Telepathy
    chan,       \* the state of every tube's channel
    closing,    \* channels with a pending requestClose()
    online,     \* the contacts that are not offline
    \* the handler processes
    channels,   \* m_channels of each process
    watched,    \* contacts whose presenceChanged() is connected
    stack,      \* handlers inside a dialog, innermost last
    port,       \* the local variable "port" of an outgoing tube's handler
    exported,   \* the port exportTcpSocket() was called with last
    mport,      \* m_port of the client
    infinoted,  \* <<port, tube>>: the server started for a tube, at its port
    offered,    \* the port an outgoing tube was offered with, as its "localSocket"
    opened,     \* <<tube, port>>: a document of the tube, opened at the port
    \* history, for the properties
    dropped,    \* forgotten by getChannels() before they were open
    overtaken   \* in a dialog when their contact went offline last

telepathy == <<chan, closing, online, offered>>
handlers  == <<channels, watched, stack, port, exported, mport, infinoted>>
history   == <<dropped, overtaken>>
vars      == <<telepathy, handlers, opened, history>>

Busy == UNION {{f.tube : f \in Range(stack[s])} : s \in DOMAIN stack}

TypeOK ==
    /\ chan \in [Tubes -> {"idle", "requested", "offered", "open", "closed"}]
    /\ closing \subseteq Tubes /\ online \subseteq Contacts
    /\ \A s \in {"server", "client"} :
           /\ channels[s] \subseteq {t \in Tubes : Side(t) = s}
           /\ watched[s] \subseteq Contacts
           /\ \A f \in Range(stack[s]) : Side(f.tube) = s /\ f.left > 0
    /\ port \in [Outgoing -> Ports \cup {None}]
    /\ exported \in Ports \cup {1}
    /\ mport \in Range(TcpPort) \cup {None}
    /\ infinoted \subseteq Ports \X Outgoing
    /\ offered \in [Outgoing -> Ports \cup {None}]
    /\ dropped \subseteq Tubes /\ overtaken \subseteq Tubes

Init ==
    /\ chan = [t \in Tubes |-> "idle"] /\ closing = {} /\ online = Contacts
    /\ channels = [s \in {"server", "client"} |-> {}]
    /\ watched = [s \in {"server", "client"} |-> {}]
    /\ stack = [s \in {"server", "client"} |-> <<>>]
    /\ port = [t \in Outgoing |-> None]
    /\ exported = 1 /\ mport = None
    /\ infinoted = {}
    /\ offered = [t \in Outgoing |-> None] /\ opened = {}
    /\ dropped = {} /\ overtaken = {}

-----------------------------------------------------------------------------
(* startInfinoted() *)

\* The ports that are tried after one taken from the clock: each is the next,
\* and the first comes after the last
Tried(first) ==
    [i \in 1 .. Attempts |->
        FirstPort + ((first - FirstPort + i) % (LastPort - FirstPort + 1))]

Listening(p) == \E t \in Outgoing : <<p, t>> \in infinoted

\* Attempts fail until one succeeds or none is left.  infinoted may not start
\* or not answer within its time; in the latter case it is left running.  At a
\* port where a server is running the new infinoted exits: this is noticed, or
\* the connection to the old server is taken for a sign of success.
StartInfinoted(t) ==
    \E first \in FirstPort .. LastPort - 1, fails \in 0 .. Attempts :
        LET tried == Tried(first)
            p     == IF fails < Attempts THEN tried[fails + 1] ELSE None
            free  == {q \in {tried[i] : i \in 1 .. fails} : ~Listening(q)}
        IN
        /\ port' = [port EXCEPT ![t] = p]
        /\ \E late \in SUBSET free :
            infinoted' = infinoted \cup
                {<<q, t>> : q \in late \cup IF p = None \/ Listening(p) THEN {} ELSE {p}}

-----------------------------------------------------------------------------
(* The handlers *)

Frame(t, p, left) == [tube |-> t, port |-> p, left |-> left]

\* Whether a handler in frame f calls exportTcpSocket() now; faulty: before
\* the dialogs
ExportsFirst(f) == f.tube \in Outgoing /\ f.port # None /\ chan[f.tube] = "idle"
Exports(f)      == f.tube \in Outgoing /\ f.port # None /\ f.left = 0

\* The handler with frame f goes on, above the frames "below" and with the
\* channels in the states "now".  If "left" of its dialogs are still to come
\* it waits for the first of them.  Otherwise it returns: without a server it
\* asks for the channel to be closed, else it exports the port and lists the
\* channel, and the library offers an outgoing tube with what is exported.
GoOn(f, below, now) ==
    LET t      == f.tube
        ends   == f.left = 0
        served == f.port # None
    IN
    /\ stack' = [stack EXCEPT ![Side(t)] = IF ends THEN below ELSE Append(below, f)]
    /\ closing' = IF ends /\ ~served /\ now[t] # "closed" THEN closing \cup {t} ELSE closing
    /\ channels' = IF ends /\ served
                   THEN [channels EXCEPT ![Side(t)] = @ \cup {t}] ELSE channels
    /\ exported' = IF Exports(f) THEN f.port ELSE exported
    /\ IF ends /\ served /\ now[t] = "requested"
       THEN /\ chan' = [now EXCEPT ![t] = "offered"]
            /\ offered' = [offered EXCEPT ![t] = exported']
       ELSE chan' = now /\ UNCHANGED offered

\* The documents a handler has passed are opened at its own url
OpenPassed(f, before) ==
    opened' = IF f.left < before /\ f.port # None
              THEN opened \cup {<<f.tube, f.port>>} ELSE opened

\* tubeRequested(): without a server there is a message box, and with one
\* the documents are copied, by jobs nobody waits for, and opened if the
\* request says so
TubeRequested(t) ==
    /\ chan[t] = "idle" /\ ContactOf[t] \in online
    /\ watched' = [watched EXCEPT !["server"] = @ \cup {ContactOf[t]}]
    /\ StartInfinoted(t)
    /\ \E left \in IF port'[t] = None THEN {1} ELSE 0 .. Paths[t] :
        /\ GoOn(Frame(t, port'[t], left), stack["server"],
                [chan EXCEPT ![t] = "requested"])
        /\ OpenPassed(Frame(t, port'[t], left), Paths[t])
    /\ UNCHANGED <<online, mport, history>>

\* tubeAcceptedAsTcp(); faulty: presenceChanged() is not connected
AcceptUnwatched(t) ==
    /\ chan[t] = "idle" /\ ContactOf[t] \in online
    /\ mport' = TcpPort[t]
    /\ GoOn(Frame(t, mport', 0), stack["client"], [chan EXCEPT ![t] = "open"])
    /\ UNCHANGED <<online, watched, port, infinoted, opened, history>>

TubeAcceptedAsTcp(t) ==
    /\ chan[t] = "idle" /\ ContactOf[t] \in online
    /\ watched' = [watched EXCEPT !["client"] = @ \cup {ContactOf[t]}]
    /\ mport' = TcpPort[t]
    /\ \E left \in 0 .. Paths[t] :
        /\ GoOn(Frame(t, mport', left), stack["client"], [chan EXCEPT ![t] = "open"])
        /\ OpenPassed(Frame(t, mport', left), Paths[t])
    /\ UNCHANGED <<online, port, infinoted, history>>

\* The innermost dialog of a process is closed: the user has chosen an editor
\* or given up, or has read the message
DialogClosed(s) ==
    /\ stack[s] # <<>>
    /\ LET f == Last(stack[s]) IN
       \E left \in 0 .. f.left - 1 :
           /\ GoOn([f EXCEPT !.left = left], Front(stack[s]), chan)
           /\ OpenPassed([f EXCEPT !.left = left], f.left)
    /\ UNCHANGED <<online, watched, port, mport, infinoted, history>>

\* tubeClosed(): the peer, the connection or a requestClose() ended the tube.
\* Faulty: all channels to the contact are forgotten.
TubeClosedForContact(t) ==
    /\ chan[t] \in {"requested", "offered", "open"}
    /\ chan' = [chan EXCEPT ![t] = "closed"]
    /\ channels' = [channels EXCEPT ![Side(t)] = {u \in @ : ContactOf[u] # ContactOf[t]}]
    /\ closing' = closing \ {t}
    /\ UNCHANGED <<online, offered, watched, stack, port, exported, mport,
                   infinoted, opened, history>>

TubeClosed(t) ==
    /\ chan[t] \in {"requested", "offered", "open"}
    /\ chan' = [chan EXCEPT ![t] = "closed"]
    /\ channels' = [channels EXCEPT ![Side(t)] = @ \ {t}]
    /\ closing' = closing \ {t}
    /\ UNCHANGED <<online, offered, watched, stack, port, exported, mport,
                   infinoted, opened, history>>

\* The contact accepts the tube
PeerAccepts(t) ==
    /\ chan[t] = "offered" /\ ContactOf[t] \in online
    /\ chan' = [chan EXCEPT ![t] = "open"]
    /\ UNCHANGED <<closing, online, offered, handlers, opened, history>>

\* targetPresenceChanged() in both processes: the channels to a contact that
\* goes offline are closed and forgotten
ToContact(s, c) ==
    IF c \in watched[s] THEN {t \in channels[s] : ContactOf[t] = c} ELSE {}

TargetPresenceChanged(c) ==
    /\ IF c \in online
       THEN /\ online' = online \ {c}
            /\ closing' = closing \cup
                   {t \in ToContact("server", c) \cup ToContact("client", c) :
                       chan[t] # "closed"}
            /\ channels' = [s \in DOMAIN channels |-> channels[s] \ ToContact(s, c)]
            /\ overtaken' = {t \in Tubes : IF ContactOf[t] = c THEN t \in Busy
                                                             ELSE t \in overtaken}
       ELSE /\ online' = online \cup {c}
            /\ UNCHANGED <<closing, channels, overtaken>>
    /\ UNCHANGED <<chan, offered, watched, stack, port, exported, mport, infinoted,
                   opened, dropped>>

\* retrieveChannels() of another program: both processes are asked and clean
\* up their lists, which keeps only channels that are open at that moment
cleanupChannelList(list) == {t \in list : chan[t] = "open"}

RetrieveChannels ==
    /\ channels' = [s \in DOMAIN channels |-> cleanupChannelList(channels[s])]
    /\ dropped' = dropped \cup {t \in UNION {channels[s] : s \in DOMAIN channels} :
                                    chan[t] = "offered"}
    /\ UNCHANGED <<telepathy, watched, stack, port, exported, mport, infinoted,
                   opened, overtaken>>

-----------------------------------------------------------------------------
Next ==
    \/ \E t \in Outgoing : TubeRequested(t) \/ PeerAccepts(t)
    \/ \E t \in Incoming : TubeAcceptedAsTcp(t)
    \/ \E t \in Tubes : TubeClosed(t)
    \/ \E s \in {"server", "client"} : DialogClosed(s)
    \/ \E c \in Contacts : TargetPresenceChanged(c)
    \/ RetrieveChannels

Spec == Init /\ [][Next]_vars

-----------------------------------------------------------------------------
(* Properties *)

\* An open tube whose handler has returned is in the list other programs are
\* shown and presence changes are applied to, or it is being closed.  The
\* exception is the tube that was asked for before its peer had accepted it:
\* cleanupChannelList() forgets it for good.
OpenIsKnown ==
    \A t \in Tubes \ Busy :
        chan[t] = "open" => t \in channels[Side(t)] \cup closing \cup dropped

\* No channel is kept for a contact that is offline (targetPresenceChanged()),
\* unless the contact left while a dialog kept the handler from listing it
ListedIsOnline ==
    \A s \in DOMAIN channels : \A t \in channels[s] :
        ContactOf[t] \in online \/ t \in overtaken

\* A document is opened at the port of its own tube, however many tubes came
\* while its handler waited in a dialog
OpenedAtOwnPort ==
    \A o \in opened : o[2] = IF o[1] \in Outgoing THEN port[o[1]] ELSE TcpPort[o[1]]

\* A tube is never offered for a port where no server listens
OfferedIsServed ==
    \A t \in Outgoing : chan[t] \in {"offered", "open"} => Listening(port[t])

\* The library offers a tube with the port exported last, and the requester
\* uploads its document there: it is the port of this tube's server, though
\* other handlers ran inside this one's dialogs and exported theirs
OfferedWithOwnPort ==
    \A t \in Outgoing : offered[t] # None => offered[t] = port[t]

\* Both, with what the handlers open and the types
TubesInv == TypeOK /\ OpenedAtOwnPort /\ OfferedIsServed /\ OfferedWithOwnPort
=============================================================================
