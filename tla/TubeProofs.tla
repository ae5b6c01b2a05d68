----------------------------- MODULE TubeProofs -----------------------------
(* Theorems about InfTube, for any tubes, contacts and ports, and however many
   handlers wait in dialogs; and about Sharing, whose dialogs ask for tubes and
   for uploads, for any number of requests. *)
EXTENDS InfTube, Sharing, TLAPS

-----------------------------------------------------------------------------
(* The stacks *)

Sides  == {"server", "client"}
States == {"idle", "requested", "offered", "open", "closed"}
Frames == [tube : Tubes, port : Nat, left : Nat]

\* No two frames are of the same tube.
Distinct(seq) ==
    \A i, j \in 1 .. Len(seq) : seq[i].tube = seq[j].tube => i = j

BusyAt(s) == {f.tube : f \in Range(stack[s])}

\* The port the handler of a tube works with
OwnPort(t) == IF t \in Outgoing THEN port[t] ELSE TcpPort[t]

-----------------------------------------------------------------------------
(* The inductive invariant *)

\* The types
Facts ==
    /\ chan \in [Tubes -> States]
    /\ closing \subseteq Tubes /\ online \subseteq Contacts
    /\ channels \in [Sides -> SUBSET Tubes]
    /\ watched \in [Sides -> SUBSET Contacts]
    /\ stack \in [Sides -> Seq(Frames)]
    /\ port \in [Outgoing -> Ports \cup {None}]
    /\ exported \in Ports \cup {1}
    /\ mport \in Range(TcpPort) \cup {None}
    /\ infinoted \subseteq Ports \X Outgoing
    /\ offered \in [Outgoing -> Ports \cup {None}]
    /\ opened \subseteq Tubes \X Nat
    /\ dropped \subseteq Tubes /\ overtaken \subseteq Tubes

\* A frame is of a tube of its process that has begun, and holds its port.
StackInv ==
    \A s \in Sides :
        /\ Distinct(stack[s])
        /\ \A f \in Range(stack[s]) : /\ Side(f.tube) = s
                                      /\ f.left > 0
                                      /\ f.port = OwnPort(f.tube)
                                      /\ chan[f.tube] # "idle"

\* A tube that has not begun has left no trace.
IdleInv ==
    \A t \in Tubes : chan[t] = "idle" =>
        /\ \A o \in opened : o[1] # t
        /\ t \in Outgoing => offered[t] = None

\* Only outgoing tubes are offered; a port that is a handler's has a server.
OfferInv ==
    /\ \A t \in Incoming : chan[t] \in {"idle", "open", "closed"}
    /\ \A t \in Outgoing : port[t] # None => Listening(port[t])
    /\ \A t \in Outgoing : chan[t] \in {"offered", "open"} => port[t] # None

\* Each process lists channels of its own, and watches over their contacts and
\* those of its handlers.
WatchInv ==
    \A s \in Sides :
        /\ \A t \in channels[s] : Side(t) = s
        /\ \A t \in channels[s] \cup BusyAt(s) : ContactOf[t] \in watched[s]

\* A handler's contact is online, unless it went while a dialog was open.
OnlineInv ==
    \A s \in Sides : \A t \in channels[s] \cup BusyAt(s) :
        ContactOf[t] \in online \/ t \in overtaken

\* What is offered or open is known once its handler has returned.
KnownInv ==
    \A t \in Tubes :
        \/ chan[t] \notin {"offered", "open"}
        \/ t \in BusyAt(Side(t)) \cup channels[Side(t)] \cup closing \cup dropped

IInv ==
    /\ Facts /\ StackInv /\ IdleInv /\ OfferInv /\ WatchInv /\ OnlineInv /\ KnownInv
    /\ OpenedAtOwnPort /\ OfferedWithOwnPort

\* It holds at the start.
LEMMA InvInitial == Init => IInv
<1> SUFFICES ASSUME Init PROVE IInv
  OBVIOUS
<1>1. \A s \in Sides : stack[s] = <<>> /\ Len(stack[s]) = 0 /\ Range(stack[s]) = {}
  BY DEF Init, Sides, Range
<1>2. <<>> \in Seq(Frames)
  OBVIOUS
<1>3. Facts
  BY <1>1, <1>2 DEF Init, Facts, Sides, States
<1>4. StackInv
  BY <1>1 DEF StackInv, Distinct
<1>5. IdleInv /\ OfferInv
  BY DEF Init, IdleInv, OfferInv, Tubes
<1>6. WatchInv /\ OnlineInv /\ KnownInv
  BY <1>1 DEF Init, WatchInv, OnlineInv, KnownInv, BusyAt, Sides
<1>7. OpenedAtOwnPort /\ OfferedWithOwnPort
  BY DEF Init, OpenedAtOwnPort, OfferedWithOwnPort
<1> QED
  BY <1>3, <1>4, <1>5, <1>6, <1>7 DEF IInv

-----------------------------------------------------------------------------
(* Stacks *)

\* A frame more
LEMMA PushedRange ==
    ASSUME NEW seq \in Seq(Frames), NEW f \in Frames
    PROVE  /\ Append(seq, f) \in Seq(Frames)
           /\ Range(Append(seq, f)) = Range(seq) \cup {f}
<1>1. /\ Append(seq, f) \in Seq(Frames) /\ Len(Append(seq, f)) = Len(seq) + 1
      /\ \A i \in 1 .. Len(seq) : Append(seq, f)[i] = seq[i]
      /\ Append(seq, f)[Len(seq) + 1] = f
  OBVIOUS
<1>2. DOMAIN seq = 1 .. Len(seq) /\ DOMAIN Append(seq, f) = 1 .. Len(seq) + 1
      /\ Len(seq) \in Nat
  BY <1>1
<1>3. DOMAIN Append(seq, f) = DOMAIN seq \cup {Len(seq) + 1}
  BY <1>2
<1> HIDE DEF Frames
<1> QED
  BY <1>1, <1>2, <1>3 DEF Range

\* is distinct from the others if it is of a new tube.
LEMMA PushedDistinct ==
    ASSUME NEW seq \in Seq(Frames), Distinct(seq), NEW f \in Frames,
           \A g \in Range(seq) : g.tube # f.tube
    PROVE  Distinct(Append(seq, f))
<1>1. /\ Len(Append(seq, f)) = Len(seq) + 1 /\ Len(seq) \in Nat
      /\ \A i \in 1 .. Len(seq) : Append(seq, f)[i] = seq[i]
      /\ Append(seq, f)[Len(seq) + 1] = f
  OBVIOUS
<1>2. \A i \in 1 .. Len(seq) : seq[i].tube # f.tube
  BY DEF Range
<1> QED
  BY <1>1, <1>2 DEF Distinct

\* A frame less: the others are of other tubes.
LEMMA PoppedFrame ==
    ASSUME NEW seq \in Seq(Frames), Distinct(seq), seq # <<>>
    PROVE  /\ Last(seq) \in Frames /\ Last(seq) \in Range(seq)
           /\ Front(seq) \in Seq(Frames) /\ Distinct(Front(seq))
           /\ Range(Front(seq)) = {g \in Range(seq) : g.tube # Last(seq).tube}
<1>1. Len(seq) \in Nat /\ Len(seq) > 0 /\ DOMAIN seq = 1 .. Len(seq)
  OBVIOUS
<1>2. /\ Front(seq) \in Seq(Frames) /\ Len(Front(seq)) = Len(seq) - 1
      /\ DOMAIN Front(seq) = 1 .. Len(seq) - 1
      /\ \A i \in 1 .. Len(seq) - 1 : Front(seq)[i] = seq[i]
  BY <1>1 DEF Front
<1>3. Last(seq) \in Frames /\ Last(seq) \in Range(seq)
  BY <1>1 DEF Last, Range
<1>4. Distinct(Front(seq))
  BY <1>1, <1>2 DEF Distinct
<1>5. \A g \in Range(Front(seq)) : g \in Range(seq) /\ g.tube # Last(seq).tube
  BY <1>1, <1>2 DEF Range, Distinct, Last
<1>6. \A g \in Range(seq) : g.tube # Last(seq).tube => g \in Range(Front(seq))
  BY <1>1, <1>2 DEF Range, Last
<1> QED
  BY <1>2, <1>3, <1>4, <1>5, <1>6

-----------------------------------------------------------------------------
(* A handler goes on *)

\* What holds when the handler with frame f goes on above the frames below: the
\* frame has the port of its tube, for which there is a server, the contact is
\* watched over, and was online when the handler began or last looked.
Going(f, below, now) ==
    LET t == f.tube IN
    /\ below \in Seq(Frames) /\ Distinct(below)
    /\ Range(below) = {g \in Range(stack[Side(t)]) : g.tube # t}
    /\ now \in [Tubes -> States]
    /\ \A u \in Tubes \ {t} : now[u] = chan[u]
    /\ now[t] # "idle" /\ (now[t] = "requested" => t \in Outgoing)
    /\ t \in Incoming => now[t] \in {"open", "closed"}
    /\ port' \in [Outgoing -> Ports \cup {None}]
    /\ \A u \in Outgoing \ {t} : port'[u] = port[u]
    /\ t \in Outgoing => port'[t] = port[t] \/ chan[t] = "idle"
    /\ t \in Outgoing /\ now[t] \in {"offered", "open"} => port'[t] # None
    /\ f.port = (IF t \in Outgoing THEN port'[t] ELSE TcpPort[t])
    /\ infinoted \subseteq infinoted' /\ infinoted' \subseteq Ports \X Outgoing
    /\ t \in Outgoing /\ port'[t] # None => Listening(port[t])'
    /\ mport' \in Range(TcpPort) \cup {None}
    /\ watched' \in [Sides -> SUBSET Contacts]
    /\ \A s \in Sides : watched[s] \subseteq watched'[s]
    /\ ContactOf[t] \in watched'[Side(t)]
    /\ ContactOf[t] \in online \/ t \in overtaken
    /\ UNCHANGED <<online, dropped, overtaken>>

\* What GoOn() does, one fact a line
LEMMA GoneOn ==
    ASSUME IInv, NEW f \in Frames, NEW below, NEW now,
           Going(f, below, now), GoOn(f, below, now)
    PROVE  LET t == f.tube
               s == Side(t)
               lists == f.left = 0 /\ f.port # None
           IN
           /\ t \in Tubes /\ s \in Sides
           /\ stack' \in [Sides -> Seq(Frames)] /\ Distinct(stack'[s])
           /\ Range(stack'[s]) = Range(below) \cup IF f.left = 0 THEN {} ELSE {f}
           /\ \A o \in Sides \ {s} : stack'[o] = stack[o]
           /\ closing \subseteq closing' /\ closing' \subseteq Tubes
           /\ f.left = 0 /\ f.port = None /\ now[t] # "closed" => t \in closing'
           /\ channels' \in [Sides -> SUBSET Tubes]
           /\ channels'[s] = channels[s] \cup IF lists THEN {t} ELSE {}
           /\ \A o \in Sides \ {s} : channels'[o] = channels[o]
           /\ exported' \in Ports \cup {1}
           /\ chan' \in [Tubes -> States]
           /\ \A u \in Tubes \ {t} : chan'[u] = chan[u]
           /\ chan'[t] = IF lists /\ now[t] = "requested" THEN "offered" ELSE now[t]
           /\ offered' \in [Outgoing -> Ports \cup {None}]
           /\ \A u \in Outgoing \ {t} : offered'[u] = offered[u]
           /\ t \in Outgoing => offered'[t] \in {offered[t], f.port}
<1> DEFINE t == f.tube
           s == Side(t)
           lists == f.left = 0 /\ f.port # None
<1> SUFFICES /\ t \in Tubes /\ s \in Sides
             /\ stack' \in [Sides -> Seq(Frames)] /\ Distinct(stack'[s])
             /\ Range(stack'[s]) = Range(below) \cup IF f.left = 0 THEN {} ELSE {f}
             /\ \A o \in Sides \ {s} : stack'[o] = stack[o]
             /\ closing \subseteq closing' /\ closing' \subseteq Tubes
             /\ f.left = 0 /\ f.port = None /\ now[t] # "closed" => t \in closing'
             /\ channels' \in [Sides -> SUBSET Tubes]
             /\ channels'[s] = channels[s] \cup IF lists THEN {t} ELSE {}
             /\ \A o \in Sides \ {s} : channels'[o] = channels[o]
             /\ exported' \in Ports \cup {1}
             /\ chan' \in [Tubes -> States]
             /\ \A u \in Tubes \ {t} : chan'[u] = chan[u]
             /\ chan'[t] = IF lists /\ now[t] = "requested" THEN "offered" ELSE now[t]
             /\ offered' \in [Outgoing -> Ports \cup {None}]
             /\ \A u \in Outgoing \ {t} : offered'[u] = offered[u]
             /\ t \in Outgoing => offered'[t] \in {offered[t], f.port}
  OBVIOUS
<1>1. t \in Tubes /\ s \in Sides /\ f.left \in Nat /\ f.port \in Nat
  BY DEF Frames, Side, Sides
<1>2. /\ closing' = IF f.left = 0 /\ ~(f.port # None) /\ now[t] # "closed"
                    THEN closing \cup {t} ELSE closing
      /\ channels' = IF lists THEN [channels EXCEPT ![s] = @ \cup {t}] ELSE channels
      /\ exported' = IF Exports(f) THEN f.port ELSE exported
      /\ stack' = [stack EXCEPT ![s] = IF f.left = 0 THEN below ELSE Append(below, f)]
  BY DEF GoOn
<1>3. \/ /\ lists /\ now[t] = "requested"
         /\ chan' = [now EXCEPT ![t] = "offered"]
         /\ offered' = [offered EXCEPT ![t] = exported']
      \/ /\ ~(lists /\ now[t] = "requested")
         /\ chan' = now /\ offered' = offered
  BY DEF GoOn
<1>4. /\ stack' \in [Sides -> Seq(Frames)] /\ Distinct(stack'[s])
      /\ Range(stack'[s]) = Range(below) \cup IF f.left = 0 THEN {} ELSE {f}
      /\ \A o \in Sides \ {s} : stack'[o] = stack[o]
  <2>1. below \in Seq(Frames) /\ Distinct(below) /\ \A g \in Range(below) : g.tube # f.tube
    BY DEF Going
  <2>2. /\ Append(below, f) \in Seq(Frames) /\ Distinct(Append(below, f))
        /\ Range(Append(below, f)) = Range(below) \cup {f}
    BY <2>1, PushedRange, PushedDistinct
  <2>3. stack \in [Sides -> Seq(Frames)]
    BY DEF IInv, Facts
  <2> HIDE DEF Frames, Sides, s
  <2> QED
    BY <1>1, <1>2, <2>1, <2>2, <2>3
<1>5. /\ closing \subseteq closing' /\ closing' \subseteq Tubes
      /\ f.left = 0 /\ f.port = None /\ now[t] # "closed" => t \in closing'
  BY <1>1, <1>2 DEF IInv, Facts
<1>6. /\ channels' \in [Sides -> SUBSET Tubes]
      /\ channels'[s] = channels[s] \cup IF lists THEN {t} ELSE {}
      /\ \A o \in Sides \ {s} : channels'[o] = channels[o]
  <2>1. channels \in [Sides -> SUBSET Tubes]
    BY DEF IInv, Facts
  <2> HIDE DEF Sides, s, t, lists
  <2> QED
    BY <1>1, <1>2, <2>1
<1>7. t \in Outgoing /\ f.port # None => f.port \in Ports
  BY DEF Going
<1>8. exported' \in Ports \cup {1}
  BY <1>2, <1>7 DEF Exports, IInv, Facts
<1>9. t \in Outgoing /\ lists => exported' = f.port
  BY <1>2 DEF Exports
<1>10. now[t] = "requested" => t \in Outgoing
  BY DEF Going
<1>11. /\ chan' \in [Tubes -> States]
       /\ \A u \in Tubes \ {t} : chan'[u] = chan[u]
       /\ chan'[t] = IF lists /\ now[t] = "requested" THEN "offered" ELSE now[t]
  BY <1>1, <1>3 DEF Going, States
<1>12. /\ offered' \in [Outgoing -> Ports \cup {None}]
       /\ \A u \in Outgoing \ {t} : offered'[u] = offered[u]
       /\ t \in Outgoing => offered'[t] \in {offered[t], f.port}
  BY <1>3, <1>7, <1>9, <1>10 DEF IInv, Facts
<1> HIDE DEF s, t, lists
<1> QED
  BY <1>1, <1>4, <1>5, <1>6, <1>8, <1>11, <1>12

\* A handler that goes on keeps the invariant.
LEMMA GoingKeeps ==
    ASSUME IInv, NEW f \in Frames, NEW below, NEW now, NEW before,
           Going(f, below, now), GoOn(f, below, now), OpenPassed(f, before)
    PROVE  IInv'
<1> DEFINE t == f.tube
           s == Side(t)
           lists == f.left = 0 /\ f.port # None
           own(u) == IF u \in Outgoing THEN port'[u] ELSE TcpPort[u]
<1>1. /\ t \in Tubes /\ s \in Sides
      /\ stack' \in [Sides -> Seq(Frames)] /\ Distinct(stack'[s])
      /\ Range(stack'[s]) = Range(below) \cup IF f.left = 0 THEN {} ELSE {f}
      /\ \A o \in Sides \ {s} : stack'[o] = stack[o]
  BY GoneOn
<1>2. /\ closing \subseteq closing' /\ closing' \subseteq Tubes
      /\ f.left = 0 /\ f.port = None /\ now[t] # "closed" => t \in closing'
      /\ channels' \in [Sides -> SUBSET Tubes]
      /\ channels'[s] = channels[s] \cup IF lists THEN {t} ELSE {}
      /\ \A o \in Sides \ {s} : channels'[o] = channels[o]
      /\ exported' \in Ports \cup {1}
  <2>1. /\ closing \subseteq closing' /\ closing' \subseteq Tubes
        /\ f.left = 0 /\ f.port = None /\ now[t] # "closed" => t \in closing'
    BY GoneOn
  <2>2. /\ channels' \in [Sides -> SUBSET Tubes]
        /\ channels'[s] = channels[s] \cup IF lists THEN {t} ELSE {}
        /\ \A o \in Sides \ {s} : channels'[o] = channels[o]
    BY GoneOn
  <2>3. exported' \in Ports \cup {1}
    BY GoneOn
  <2> QED
    BY <2>1, <2>2, <2>3
<1>3. /\ chan' \in [Tubes -> States]
      /\ \A u \in Tubes \ {t} : chan'[u] = chan[u]
      /\ chan'[t] = IF lists /\ now[t] = "requested" THEN "offered" ELSE now[t]
      /\ offered' \in [Outgoing -> Ports \cup {None}]
      /\ \A u \in Outgoing \ {t} : offered'[u] = offered[u]
      /\ t \in Outgoing => offered'[t] \in {offered[t], f.port}
  BY GoneOn
<1>4. /\ Range(below) = {g \in Range(stack[s]) : g.tube # t}
      /\ now[t] # "idle" /\ (now[t] = "requested" => t \in Outgoing)
      /\ t \in Incoming => now[t] \in {"open", "closed"}
  BY DEF Going
<1>5. /\ port' \in [Outgoing -> Ports \cup {None}]
      /\ \A u \in Outgoing \ {t} : port'[u] = port[u]
      /\ t \in Outgoing => port'[t] = port[t] \/ chan[t] = "idle"
      /\ t \in Outgoing /\ now[t] \in {"offered", "open"} => port'[t] # None
      /\ f.port = own(t)
  BY DEF Going
<1>6. /\ infinoted \subseteq infinoted' /\ infinoted' \subseteq Ports \X Outgoing
      /\ t \in Outgoing /\ port'[t] # None => Listening(port[t])'
      /\ mport' \in Range(TcpPort) \cup {None}
      /\ watched' \in [Sides -> SUBSET Contacts]
      /\ \A o \in Sides : watched[o] \subseteq watched'[o]
      /\ ContactOf[t] \in watched'[s]
      /\ ContactOf[t] \in online \/ t \in overtaken
      /\ UNCHANGED <<online, dropped, overtaken>>
  BY DEF Going
<1>7. /\ Facts /\ StackInv /\ IdleInv /\ OfferInv /\ WatchInv /\ OnlineInv
      /\ KnownInv /\ OpenedAtOwnPort /\ OfferedWithOwnPort
  BY DEF IInv
<1>8. /\ f.port \in Nat /\ f.left \in Nat
      /\ opened' \in {opened, opened \cup {<<t, f.port>>}}
  BY DEF OpenPassed, Frames
<1>9. \A u \in Tubes \ {t} : own(u) = OwnPort(u)
  BY <1>5 DEF OwnPort, Tubes
<1>10. \A o \in Sides : BusyAt(o)' \subseteq BusyAt(o) \cup {t}
  <2>1. \A g \in Range(stack'[s]) : g \in Range(stack[s]) \/ g = f
    BY <1>1, <1>4
  <2> QED
    BY <1>1, <2>1 DEF BusyAt
<1>11. \A u \in Tubes \ {t} : \A o \in Sides : u \in BusyAt(o) => u \in BusyAt(o)'
  <2>1. \A g \in Range(stack[s]) : g.tube # t => g \in Range(stack'[s])
    BY <1>1, <1>4
  <2> QED
    BY <1>1, <2>1 DEF BusyAt
<1>12. f.left # 0 => t \in BusyAt(s)'
  BY <1>1 DEF BusyAt
<1> HIDE DEF s, t, lists
<1>13. Facts'
  BY <1>1, <1>2, <1>3, <1>5, <1>6, <1>7, <1>8 DEF Facts
<1>14. StackInv'
  <2>1. ASSUME NEW o \in Sides, o # s
        PROVE  /\ Distinct(stack'[o])
               /\ \A g \in Range(stack'[o]) : /\ Side(g.tube) = o
                                              /\ g.left > 0
                                              /\ g.port = own(g.tube)
                                              /\ chan'[g.tube] # "idle"
    <3>1. stack'[o] = stack[o] /\ \A g \in Range(stack[o]) : g \in Frames
      BY <1>1, <1>7, <2>1 DEF Facts, Range
    <3>2. \A g \in Range(stack[o]) : g.tube \in Tubes \ {t}
      BY <1>7, <2>1, <3>1 DEF StackInv, s, Frames
    <3> QED
      BY <1>3, <1>7, <1>9, <3>1, <3>2 DEF StackInv
  <2>2. ASSUME NEW g \in Range(stack'[s])
        PROVE  /\ Side(g.tube) = s /\ g.left > 0
               /\ g.port = own(g.tube) /\ chan'[g.tube] # "idle"
    <3>1. CASE g = f /\ f.left # 0
      <4>1. g.tube = t /\ Side(t) = s /\ chan'[t] # "idle"
        BY <1>3, <1>4, <3>1 DEF s, t
      <4> QED
        BY <1>5, <1>8, <3>1, <4>1
    <3>2. CASE g \in Range(stack[s]) /\ g.tube # t
      <4>1. g \in Frames
        BY <1>1, <1>7, <3>2 DEF Facts, Range
      <4>2. g.tube \in Tubes \ {t}
        BY <3>2, <4>1 DEF Frames
      <4> QED
        BY <1>1, <1>3, <1>7, <1>9, <3>2, <4>2 DEF StackInv
    <3> QED
      BY <1>1, <1>4, <2>2, <3>1, <3>2
  <2> QED
    BY <1>1, <2>1, <2>2 DEF StackInv, OwnPort, Distinct
<1>15. IdleInv'
  <2>1. chan'[t] # "idle"
    BY <1>3, <1>4
  <2>2. \A u \in Tubes \ {t} : (\A o \in opened : o[1] # u) => \A o \in opened' : o[1] # u
    BY <1>8
  <2> QED
    BY <1>1, <1>3, <1>7, <2>1, <2>2 DEF IdleInv
<1>16. OfferInv'
  <2>1. \A q : Listening(q) => Listening(q)'
    BY <1>6 DEF Listening
  <2>2. \A u \in Incoming : chan'[u] \in {"idle", "open", "closed"}
    BY <1>3, <1>4, <1>7, InfTubeAssumption DEF OfferInv, Tubes
  <2>3. \A u \in Outgoing : port'[u] # None => Listening(port[u])'
    BY <1>5, <1>6, <1>7, <2>1 DEF OfferInv
  <2>4. \A u \in Outgoing : chan'[u] \in {"offered", "open"} => port'[u] # None
    BY <1>3, <1>5, <1>7 DEF OfferInv, Tubes, lists
  <2> QED
    BY <2>2, <2>3, <2>4 DEF OfferInv, Listening
<1>17. WatchInv' /\ OnlineInv'
  <2>1. \A o \in Sides : channels'[o] \subseteq channels[o] \cup {t}
    BY <1>2
  <2>2. \A o \in Sides \ {s} : t \notin BusyAt(o)'
    <3>1. \A o \in Sides \ {s} : BusyAt(o)' = BusyAt(o)
      BY <1>1 DEF BusyAt
    <3>2. \A o \in Sides \ {s} : t \notin BusyAt(o)
      BY <1>7 DEF BusyAt, StackInv, s
    <3> QED
      BY <3>1, <3>2
  <2>3. Side(t) = s
    BY DEF s
  <2>4. ASSUME NEW o \in Sides
        PROVE  /\ \A u \in channels'[o] : Side(u) = o
               /\ \A u \in channels'[o] \cup BusyAt(o)' : ContactOf[u] \in watched'[o]
    <3>1. CASE o = s
      BY <1>6, <1>7, <1>10, <2>1, <2>3, <3>1 DEF WatchInv
    <3>2. CASE o # s
      <4>1. channels'[o] = channels[o] /\ BusyAt(o)' \subseteq BusyAt(o)
        BY <1>2, <1>10, <2>2, <3>2
      <4> QED
        BY <1>6, <1>7, <4>1 DEF WatchInv
    <3> QED
      BY <3>1, <3>2
  <2>5. WatchInv'
    BY <2>4 DEF WatchInv
  <2>6. OnlineInv'
    BY <1>6, <1>7, <1>10, <2>1 DEF OnlineInv
  <2> QED
    BY <2>5, <2>6
<1>18. KnownInv'
  <2>1. ASSUME NEW u \in Tubes, u # t, chan'[u] \in {"offered", "open"}
        PROVE  u \in BusyAt(Side(u))' \cup channels'[Side(u)] \cup closing' \cup dropped'
    <3>1. Side(u) \in Sides /\ channels[Side(u)] \subseteq channels'[Side(u)]
      BY <1>2 DEF Side, Sides
    <3> QED
      BY <1>2, <1>3, <1>6, <1>7, <1>11, <2>1, <3>1 DEF KnownInv
  <2>2. ASSUME chan'[t] \in {"offered", "open"}
        PROVE  t \in BusyAt(s)' \cup channels'[s] \cup closing'
    <3>1. now[t] # "closed"
      BY <1>3, <2>2
    <3> QED
      BY <1>2, <1>12, <3>1 DEF lists
  <2> QED
    BY <2>1, <2>2 DEF KnownInv, s
<1>19. OpenedAtOwnPort'
  <2>1. ASSUME NEW o \in opened' PROVE o[2] = own(o[1])
    <3>1. CASE o = <<t, f.port>>
      BY <1>5, <3>1
    <3>2. CASE o \in opened
      <4>1. o[1] \in Tubes /\ o[2] = OwnPort(o[1])
        BY <1>7, <3>2 DEF Facts, OpenedAtOwnPort, OwnPort
      <4>2. CASE o[1] = t
        BY <1>1, <1>5, <1>7, <3>2, <4>1, <4>2 DEF IdleInv, OwnPort
      <4>3. CASE o[1] # t
        BY <1>9, <4>1, <4>3
      <4> QED
        BY <4>2, <4>3
    <3> QED
      BY <1>8, <2>1, <3>1, <3>2
  <2> QED
    BY <2>1 DEF OpenedAtOwnPort
<1>20. OfferedWithOwnPort'
  <2>1. ASSUME NEW u \in Outgoing, offered'[u] # None PROVE offered'[u] = port'[u]
    <3>1. CASE u # t
      BY <1>3, <1>5, <1>7, <2>1, <3>1 DEF OfferedWithOwnPort
    <3>2. CASE u = t
      BY <1>1, <1>3, <1>5, <1>7, <2>1, <3>2 DEF OfferedWithOwnPort, IdleInv
    <3> QED
      BY <3>1, <3>2
  <2> QED
    BY <2>1 DEF OfferedWithOwnPort
<1> QED
  BY <1>13, <1>14, <1>15, <1>16, <1>17, <1>18, <1>19, <1>20 DEF IInv

-----------------------------------------------------------------------------
(* The handlers *)

\* Every port that is tried is in the range.
LEMMA TriedInRange ==
    ASSUME NEW first \in FirstPort .. LastPort - 1, NEW i \in 1 .. Attempts
    PROVE  Tried(first)[i] \in Ports
<1> DEFINE n == LastPort - FirstPort + 1
           k == first - FirstPort + i
<1>1. /\ FirstPort \in Nat /\ LastPort \in Nat /\ FirstPort < LastPort
      /\ Attempts \in Nat
  BY InfTubeAssumption
<1>2. n \in Nat /\ n > 0 /\ k \in Nat
  BY <1>1
<1>3. k % n \in 0 .. n - 1
  <2> HIDE DEF n, k
  <2> QED
    BY <1>2
<1>4. FirstPort + (k % n) \in FirstPort .. LastPort
  <2> DEFINE m == k % n
  <2>1. m \in Nat /\ m <= LastPort - FirstPort
    BY <1>1, <1>3
  <2> HIDE DEF m
  <2>2. FirstPort + m \in FirstPort .. LastPort
    BY <1>1, <2>1
  <2> QED
    BY <2>2 DEF m
<1> QED
  BY <1>4 DEF Tried, Ports

\* The handler of an outgoing tube has a port with a server, or none.
LEMMA Started ==
    ASSUME Facts, NEW t \in Outgoing, StartInfinoted(t)
    PROVE  /\ port' \in [Outgoing -> Ports \cup {None}]
           /\ \A u \in Outgoing \ {t} : port'[u] = port[u]
           /\ infinoted \subseteq infinoted' /\ infinoted' \subseteq Ports \X Outgoing
           /\ port'[t] # None => Listening(port[t])'
<1>1. PICK first \in FirstPort .. LastPort - 1, fails \in 0 .. Attempts :
         LET tried == Tried(first)
             p     == IF fails < Attempts THEN tried[fails + 1] ELSE None
             free  == {q \in {tried[i] : i \in 1 .. fails} : ~Listening(q)}
         IN
         /\ port' = [port EXCEPT ![t] = p]
         /\ \E late \in SUBSET free :
             infinoted' = infinoted \cup
                 {<<q, t>> : q \in late \cup IF p = None \/ Listening(p) THEN {} ELSE {p}}
  BY DEF StartInfinoted
<1> DEFINE tried == Tried(first)
           p     == IF fails < Attempts THEN tried[fails + 1] ELSE None
           free  == {q \in {tried[i] : i \in 1 .. fails} : ~Listening(q)}
           new   == IF p = None \/ Listening(p) THEN {} ELSE {p}
<1>2. PICK late \in SUBSET free :
         /\ port' = [port EXCEPT ![t] = p]
         /\ infinoted' = infinoted \cup {<<q, t>> : q \in late \cup new}
  BY <1>1
<1>3. Attempts \in Nat /\ fails \in Nat /\ fails <= Attempts
  BY InfTubeAssumption
<1>4. \A i \in 1 .. Attempts : tried[i] \in Ports
  BY TriedInRange
<1> HIDE DEF tried
<1>5. p \in Ports \cup {None}
  BY <1>3, <1>4
<1>6. late \subseteq Ports
  BY <1>3, <1>4
<1> HIDE DEF p, free
<1>7. new \subseteq Ports
  BY <1>5
<1>8. /\ port' \in [Outgoing -> Ports \cup {None}] /\ port'[t] = p
      /\ \A u \in Outgoing \ {t} : port'[u] = port[u]
  BY <1>2, <1>5 DEF Facts
<1>9. infinoted \subseteq infinoted' /\ infinoted' \subseteq Ports \X Outgoing
  <2> HIDE DEF new
  <2> QED
    BY <1>2, <1>6, <1>7 DEF Facts
<1>10. ASSUME p # None PROVE \E u \in Outgoing : <<p, u>> \in infinoted'
  <2>1. CASE Listening(p)
    BY <1>9, <2>1 DEF Listening
  <2>2. CASE ~Listening(p)
    <3>1. p \in new
      BY <1>10, <2>2
    <3> QED
      BY <1>2, <3>1
  <2> QED
    BY <2>1, <2>2
<1> QED
  BY <1>8, <1>9, <1>10 DEF Listening

\* A tube that has not begun is in no frame.
LEMMA IdleIsNotBusy ==
    ASSUME Facts, StackInv, NEW t \in Tubes, chan[t] = "idle"
    PROVE  LET s == Side(t) IN
           /\ s \in Sides /\ stack[s] \in Seq(Frames) /\ Distinct(stack[s])
           /\ \A g \in Range(stack[s]) : g.tube # t
           /\ Range(stack[s]) = {g \in Range(stack[s]) : g.tube # t}
<1>1. Side(t) \in Sides
  BY DEF Side, Sides
<1>2. stack[Side(t)] \in Seq(Frames) /\ Distinct(stack[Side(t)])
  BY <1>1 DEF Facts, StackInv
<1>3. \A g \in Range(stack[Side(t)]) : g.tube # t
  BY <1>1 DEF StackInv
<1>4. Range(stack[Side(t)]) = {g \in Range(stack[Side(t)]) : g.tube # t}
  BY <1>3
<1> QED
  BY <1>1, <1>2, <1>3, <1>4

\* A frame is what it is made of.
LEMMA FrameType ==
    ASSUME NEW t \in Tubes, NEW p \in Nat, NEW left \in Nat
    PROVE  /\ Frame(t, p, left) \in Frames /\ Frame(t, p, left).tube = t
           /\ Frame(t, p, left).port = p /\ Frame(t, p, left).left = left
  BY DEF Frame, Frames

\* The handler of a tube that is offered.
LEMMA RequestedKeeps ==
    ASSUME IInv, NEW t \in Outgoing, TubeRequested(t)
    PROVE  IInv'
<1> DEFINE now == [chan EXCEPT ![t] = "requested"]
<1>1. PICK left \in IF port'[t] = None THEN {1} ELSE 0 .. Paths[t] :
         /\ GoOn(Frame(t, port'[t], left), stack["server"], now)
         /\ OpenPassed(Frame(t, port'[t], left), Paths[t])
  BY DEF TubeRequested
<1>2. /\ chan[t] = "idle" /\ ContactOf[t] \in online
      /\ watched' = [watched EXCEPT !["server"] = @ \cup {ContactOf[t]}]
      /\ StartInfinoted(t) /\ UNCHANGED <<online, mport, dropped, overtaken>>
  BY DEF TubeRequested, history
<1>3. Facts /\ StackInv
  BY DEF IInv
<1>4. t \in Tubes /\ Side(t) = "server" /\ t \notin Incoming /\ ContactOf[t] \in Contacts
  BY InfTubeAssumption DEF Tubes, Side, Contacts
<1>5. /\ port' \in [Outgoing -> Ports \cup {None}]
      /\ \A u \in Outgoing \ {t} : port'[u] = port[u]
      /\ infinoted \subseteq infinoted' /\ infinoted' \subseteq Ports \X Outgoing
      /\ port'[t] # None => Listening(port[t])'
  BY <1>2, <1>3, Started
<1>6. port'[t] \in Nat /\ left \in Nat
  <2>1. Ports \subseteq Nat /\ None \in Nat /\ Paths[t] \in Nat
    BY <1>4, InfTubeAssumption DEF Ports, None
  <2>2. port'[t] \in Nat
    BY <1>5, <2>1
  <2>3. left \in Nat
    BY <1>1, <2>1
  <2> QED
    BY <2>2, <2>3
<1>7. PICK f \in Frames : /\ f = Frame(t, port'[t], left)
                          /\ f.tube = t /\ f.port = port'[t]
  BY <1>4, <1>6, FrameType
<1>8. /\ stack["server"] \in Seq(Frames) /\ Distinct(stack["server"])
      /\ Range(stack["server"]) = {g \in Range(stack["server"]) : g.tube # t}
  BY <1>2, <1>3, <1>4, IdleIsNotBusy
<1>9. /\ now \in [Tubes -> States] /\ now[t] = "requested"
      /\ \A u \in Tubes \ {t} : now[u] = chan[u]
  BY <1>3, <1>4 DEF Facts, States
<1>10. /\ watched' \in [Sides -> SUBSET Contacts]
       /\ \A s \in Sides : watched[s] \subseteq watched'[s]
       /\ ContactOf[t] \in watched'["server"]
  BY <1>2, <1>3, <1>4 DEF Facts, Sides
<1>11. GoOn(f, stack["server"], now) /\ OpenPassed(f, Paths[t])
  BY <1>1, <1>7
<1> HIDE DEF now
<1>12. Going(f, stack["server"], now)
  BY <1>2, <1>3, <1>4, <1>5, <1>7, <1>8, <1>9, <1>10 DEF Going, Facts, Listening
<1> QED
  BY <1>7, <1>11, <1>12, GoingKeeps

\* The handler of a tube that is accepted.
LEMMA AcceptedKeeps ==
    ASSUME IInv, NEW t \in Incoming, TubeAcceptedAsTcp(t)
    PROVE  IInv'
<1> DEFINE now == [chan EXCEPT ![t] = "open"]
<1>1. PICK left \in 0 .. Paths[t] :
         /\ GoOn(Frame(t, mport', left), stack["client"], now)
         /\ OpenPassed(Frame(t, mport', left), Paths[t])
  BY DEF TubeAcceptedAsTcp
<1>2. /\ chan[t] = "idle" /\ ContactOf[t] \in online
      /\ watched' = [watched EXCEPT !["client"] = @ \cup {ContactOf[t]}]
      /\ mport' = TcpPort[t]
      /\ UNCHANGED <<online, port, infinoted, dropped, overtaken>>
  BY DEF TubeAcceptedAsTcp, history
<1>3. Facts /\ StackInv
  BY DEF IInv
<1>4. t \in Tubes /\ Side(t) = "client" /\ t \notin Outgoing /\ ContactOf[t] \in Contacts
  BY InfTubeAssumption DEF Tubes, Side, Contacts
<1>5. TcpPort[t] \in Nat /\ TcpPort[t] \in Range(TcpPort) /\ left \in Nat
  BY <1>4, InfTubeAssumption DEF Range
<1>6. PICK f \in Frames : /\ f = Frame(t, mport', left)
                          /\ f.tube = t /\ f.port = TcpPort[t]
  BY <1>2, <1>4, <1>5, FrameType
<1>7. /\ stack["client"] \in Seq(Frames) /\ Distinct(stack["client"])
      /\ Range(stack["client"]) = {g \in Range(stack["client"]) : g.tube # t}
  BY <1>2, <1>3, <1>4, IdleIsNotBusy
<1>8. /\ now \in [Tubes -> States] /\ now[t] = "open"
      /\ \A u \in Tubes \ {t} : now[u] = chan[u]
  BY <1>3, <1>4 DEF Facts, States
<1>9. /\ watched' \in [Sides -> SUBSET Contacts]
      /\ \A s \in Sides : watched[s] \subseteq watched'[s]
      /\ ContactOf[t] \in watched'["client"]
  BY <1>2, <1>3, <1>4 DEF Facts, Sides
<1>10. GoOn(f, stack["client"], now) /\ OpenPassed(f, Paths[t])
  BY <1>1, <1>6
<1> HIDE DEF now
<1>11. Going(f, stack["client"], now)
  BY <1>2, <1>3, <1>4, <1>5, <1>6, <1>7, <1>8, <1>9 DEF Going, Facts
<1> QED
  BY <1>6, <1>10, <1>11, GoingKeeps

\* The innermost handler.
LEMMA DialogKeeps ==
    ASSUME IInv, NEW s \in Sides, DialogClosed(s)
    PROVE  IInv'
<1>1. PICK f : /\ f = Last(stack[s])
               /\ \E left \in 0 .. f.left - 1 :
                     /\ GoOn([f EXCEPT !.left = left], Front(stack[s]), chan)
                     /\ OpenPassed([f EXCEPT !.left = left], f.left)
  BY DEF DialogClosed
<1>2. PICK left \in 0 .. f.left - 1 :
         /\ GoOn([f EXCEPT !.left = left], Front(stack[s]), chan)
         /\ OpenPassed([f EXCEPT !.left = left], f.left)
  BY <1>1
<1> DEFINE t == f.tube
<1>3. stack[s] # <<>> /\ UNCHANGED <<online, watched, port, mport, infinoted, dropped, overtaken>>
  BY DEF DialogClosed, history
<1>4. Facts /\ StackInv /\ OfferInv /\ WatchInv /\ OnlineInv
  BY DEF IInv
<1>5. /\ f \in Frames /\ f \in Range(stack[s])
      /\ Front(stack[s]) \in Seq(Frames) /\ Distinct(Front(stack[s]))
      /\ Range(Front(stack[s])) = {g \in Range(stack[s]) : g.tube # t}
  <2>1. stack[s] \in Seq(Frames) /\ Distinct(stack[s])
    BY <1>4 DEF Facts, StackInv
  <2> QED
    BY <1>1, <1>3, <2>1, PoppedFrame
<1>6. Side(t) = s /\ f.port = OwnPort(t) /\ chan[t] # "idle" /\ t \in BusyAt(s)
  BY <1>4, <1>5 DEF StackInv, BusyAt
<1>7. t \in Tubes /\ f.left \in Nat /\ f.port \in Nat /\ left \in Nat
  BY <1>5 DEF Frames
<1> DEFINE g == [f EXCEPT !.left = left]
<1>8. g \in Frames /\ g.tube = t /\ g.port = f.port
  BY <1>5, <1>7 DEF Frames
<1>9. ContactOf[t] \in watched[s] /\ (ContactOf[t] \in online \/ t \in overtaken)
  BY <1>4, <1>6 DEF WatchInv, OnlineInv
<1>10. /\ chan[t] = "requested" => t \in Outgoing
       /\ t \in Incoming => chan[t] \in {"open", "closed"}
       /\ t \in Outgoing /\ chan[t] \in {"offered", "open"} => port[t] # None
       /\ t \in Outgoing /\ port[t] # None => Listening(port[t])
  BY <1>4, <1>6, <1>7 DEF OfferInv, Tubes
<1>11. Listening(port[t]) => Listening(port[t])'
  BY <1>3 DEF Listening
<1>12. GoOn(g, Front(stack[s]), chan) /\ OpenPassed(g, f.left)
  BY <1>2
<1> HIDE DEF g
<1>13. Going(g, Front(stack[s]), chan)
  BY <1>3, <1>4, <1>5, <1>6, <1>8, <1>9, <1>10, <1>11 DEF Going, Facts, OwnPort, Listening
<1> QED
  BY <1>8, <1>12, <1>13, GoingKeeps

-----------------------------------------------------------------------------
(* Every step keeps the invariant *)

\* What a step keeps that leaves the frames, their ports and what was opened.
LEMMA QuietKeeps ==
    ASSUME IInv, chan' \in [Tubes -> States],
           \A t \in Tubes : chan'[t] = "idle" <=> chan[t] = "idle",
           UNCHANGED <<stack, port, infinoted, offered, opened>>
    PROVE  (StackInv /\ IdleInv /\ OpenedAtOwnPort /\ OfferedWithOwnPort)'
<1>1. ASSUME NEW s \in Sides, NEW f \in Range(stack[s]) PROVE f.tube \in Tubes
  <2>1. stack[s] \in Seq(Frames)
    BY DEF IInv, Facts
  <2>2. f \in Frames
    BY <2>1 DEF Range
  <2> QED
    BY <2>2 DEF Frames
<1>2. StackInv'
  BY <1>1 DEF IInv, StackInv, OwnPort, Distinct
<1> QED
  BY <1>2 DEF IInv, IdleInv, OpenedAtOwnPort, OfferedWithOwnPort

\* One case for each thing that may happen.
LEMMA InvInductive == IInv /\ [Next]_vars => IInv'
<1> SUFFICES ASSUME IInv, [Next]_vars PROVE IInv'
  OBVIOUS
<1> USE DEF telepathy, handlers, history
<1>1. /\ Facts /\ StackInv /\ IdleInv /\ OfferInv /\ WatchInv /\ OnlineInv
      /\ KnownInv /\ OpenedAtOwnPort /\ OfferedWithOwnPort
  BY DEF IInv
<1>2. ASSUME NEW t \in Tubes, TubeClosed(t) PROVE IInv'
  <2>1. Side(t) \in Sides
    BY DEF Side, Sides
  <2>2. /\ chan[t] \in {"requested", "offered", "open"}
        /\ chan' \in [Tubes -> States] /\ chan'[t] = "closed"
        /\ \A u \in Tubes \ {t} : chan'[u] = chan[u]
        /\ channels' \in [Sides -> SUBSET Tubes]
        /\ \A s \in Sides : channels'[s] = IF s = Side(t) THEN channels[s] \ {t}
                                                          ELSE channels[s]
        /\ closing' = closing \ {t}
        /\ UNCHANGED <<online, offered, watched, stack, port, exported, mport,
                       infinoted, opened, dropped, overtaken>>
    BY <1>1, <1>2, <2>1 DEF TubeClosed, Facts, States
  <2>3. (StackInv /\ IdleInv /\ OpenedAtOwnPort /\ OfferedWithOwnPort)'
    BY <1>1, <2>2, QuietKeeps
  <2>4. Facts'
    BY <1>1, <2>2 DEF Facts
  <2>5. OfferInv'
    BY <1>1, <2>2 DEF OfferInv, Listening, Tubes
  <2>6. (WatchInv /\ OnlineInv)'
    BY <1>1, <2>2 DEF WatchInv, OnlineInv, BusyAt
  <2>7. KnownInv'
    <3>1. ASSUME NEW u \in Tubes, u # t
          PROVE  u \in channels[Side(u)] => u \in channels'[Side(u)]
      <4>1. Side(u) \in Sides
        BY DEF Side, Sides
      <4> QED
        BY <2>2, <3>1, <4>1
    <3> QED
      BY <1>1, <2>2, <3>1 DEF KnownInv, BusyAt
  <2> QED
    BY <2>3, <2>4, <2>5, <2>6, <2>7 DEF IInv
<1>3. ASSUME NEW t \in Outgoing, PeerAccepts(t) PROVE IInv'
  <2>1. /\ chan[t] = "offered" /\ chan' \in [Tubes -> States] /\ chan'[t] = "open"
        /\ \A u \in Tubes \ {t} : chan'[u] = chan[u]
        /\ t \in Tubes /\ t \notin Incoming
        /\ UNCHANGED <<closing, online, offered, handlers, opened, history>>
    BY <1>1, <1>3, InfTubeAssumption DEF PeerAccepts, Facts, States, Tubes
  <2>2. (StackInv /\ IdleInv /\ OpenedAtOwnPort /\ OfferedWithOwnPort)'
    BY <1>1, <2>1, QuietKeeps
  <2>3. Facts'
    BY <1>1, <2>1 DEF Facts
  <2>4. OfferInv'
    BY <1>1, <2>1 DEF OfferInv, Listening, Tubes
  <2>5. (WatchInv /\ OnlineInv)'
    BY <1>1, <2>1 DEF WatchInv, OnlineInv, BusyAt
  <2>6. KnownInv'
    BY <1>1, <2>1 DEF KnownInv, BusyAt
  <2> QED
    BY <2>2, <2>3, <2>4, <2>5, <2>6 DEF IInv
<1>4. ASSUME NEW c \in Contacts, TargetPresenceChanged(c) PROVE IInv'
  <2>1. UNCHANGED <<chan, offered, watched, stack, port, exported, mport, infinoted,
                    opened, dropped>>
    BY <1>4 DEF TargetPresenceChanged
  <2>2. (StackInv /\ IdleInv /\ OpenedAtOwnPort /\ OfferedWithOwnPort)'
    <3>1. chan' \in [Tubes -> States]
      BY <1>1, <2>1 DEF Facts
    <3> QED
      BY <2>1, <3>1, QuietKeeps
  <2>3. OfferInv'
    BY <1>1, <2>1 DEF OfferInv, Listening
  <2>4. DOMAIN channels = Sides /\ DOMAIN stack = Sides
    BY <1>1 DEF Facts
  <2>5. CASE c \in online
    <3>1. /\ online' = online \ {c}
          /\ closing' = closing \cup
                 {t \in ToContact("server", c) \cup ToContact("client", c) :
                     chan[t] # "closed"}
          /\ channels' = [s \in Sides |-> channels[s] \ ToContact(s, c)]
          /\ overtaken' = {t \in Tubes : IF ContactOf[t] = c THEN t \in Busy
                                                            ELSE t \in overtaken}
      BY <1>4, <2>4, <2>5 DEF TargetPresenceChanged
    <3>2. \A s \in Sides : ToContact(s, c) = {t \in channels[s] : ContactOf[t] = c}
      BY <1>1 DEF ToContact, WatchInv
    <3>3. \A s \in Sides : \A t \in channels'[s] : t \in channels[s] /\ ContactOf[t] # c
      BY <3>1, <3>2
    <3>4. Facts'
      <4>1. closing' \subseteq Tubes
        BY <1>1, <3>1, <3>2 DEF Facts, Sides
      <4>2. channels' \in [Sides -> SUBSET Tubes]
        BY <1>1, <3>1 DEF Facts
      <4> QED
        BY <1>1, <2>1, <3>1, <4>1, <4>2 DEF Facts
    <3>5. WatchInv'
      BY <1>1, <2>1, <3>3 DEF WatchInv, BusyAt
    <3>6. \A s \in Sides : \A t \in BusyAt(s) : t \in Tubes /\ t \in Busy
      <4>1. ASSUME NEW s \in Sides, NEW f \in Range(stack[s]) PROVE f.tube \in Tubes
        <5>1. f \in Frames
          BY <1>1, <4>1 DEF Facts, Range
        <5> QED
          BY <5>1 DEF Frames
      <4> QED
        BY <2>4, <4>1 DEF BusyAt, Busy
    <3>7. OnlineInv'
      <4>1. ASSUME NEW s \in Sides, NEW t \in BusyAt(s)
            PROVE  ContactOf[t] \in online' \/ t \in overtaken'
        BY <1>1, <3>1, <3>6, <4>1 DEF OnlineInv
      <4>2. ASSUME NEW s \in Sides, NEW t \in channels'[s]
            PROVE  ContactOf[t] \in online' \/ t \in overtaken'
        BY <1>1, <3>1, <3>3, <4>2 DEF OnlineInv, Facts
      <4> QED
        BY <2>1, <4>1, <4>2 DEF OnlineInv, BusyAt
    <3>8. KnownInv'
      <4>1. ASSUME NEW t \in Tubes, t \in channels[Side(t)], chan[t] # "closed"
            PROVE  t \in channels'[Side(t)] \cup closing'
        <5>1. Side(t) \in Sides
          BY DEF Side, Sides
        <5> QED
          BY <3>1, <4>1, <5>1 DEF Sides
      <4> QED
        BY <1>1, <2>1, <3>1, <4>1 DEF KnownInv, BusyAt
    <3> QED
      BY <2>2, <2>3, <3>4, <3>5, <3>7, <3>8 DEF IInv
  <2>6. CASE c \notin online
    <3>1. online' = online \cup {c} /\ UNCHANGED <<closing, channels, overtaken>>
      BY <1>4, <2>6 DEF TargetPresenceChanged
    <3>2. Facts'
      BY <1>1, <2>1, <3>1 DEF Facts
    <3>3. (WatchInv /\ OnlineInv /\ KnownInv)'
      BY <1>1, <2>1, <3>1 DEF WatchInv, OnlineInv, KnownInv, BusyAt
    <3> QED
      BY <2>2, <2>3, <3>2, <3>3 DEF IInv
  <2> QED
    BY <2>5, <2>6
<1>5. ASSUME RetrieveChannels PROVE IInv'
  <2>1. DOMAIN channels = Sides
    BY <1>1 DEF Facts
  <2>2. /\ channels' = [s \in Sides |-> {t \in channels[s] : chan[t] = "open"}]
        /\ dropped' = dropped \cup {t \in UNION {channels[s] : s \in Sides} :
                                        chan[t] = "offered"}
        /\ UNCHANGED <<telepathy, watched, stack, port, exported, mport, infinoted,
                       opened, overtaken>>
    BY <1>5, <2>1 DEF RetrieveChannels, cleanupChannelList
  <2>3. (StackInv /\ IdleInv /\ OpenedAtOwnPort /\ OfferedWithOwnPort)'
    <3>1. chan' \in [Tubes -> States]
      BY <1>1, <2>2 DEF Facts
    <3> QED
      BY <2>2, <3>1, QuietKeeps
  <2>4. Facts'
    <3>1. channels' \in [Sides -> SUBSET Tubes] /\ dropped' \subseteq Tubes
      BY <1>1, <2>2 DEF Facts
    <3> QED
      BY <1>1, <2>2, <3>1 DEF Facts
  <2>5. OfferInv'
    BY <1>1, <2>2 DEF OfferInv, Listening
  <2>6. (WatchInv /\ OnlineInv)'
    BY <1>1, <2>2 DEF WatchInv, OnlineInv, BusyAt
  <2>7. KnownInv'
    <3>1. ASSUME NEW t \in Tubes, t \in channels[Side(t)], chan[t] \in {"offered", "open"}
          PROVE  t \in channels'[Side(t)] \cup dropped'
      <4>1. Side(t) \in Sides
        BY DEF Side, Sides
      <4> QED
        BY <2>2, <3>1, <4>1
    <3> QED
      BY <1>1, <2>2, <3>1 DEF KnownInv, BusyAt
  <2> QED
    BY <2>3, <2>4, <2>5, <2>6, <2>7 DEF IInv
<1>6. CASE UNCHANGED vars
  <2>1. Facts'
    BY <1>1, <1>6 DEF vars, Facts
  <2>2. chan' \in [Tubes -> States]
    BY <1>1, <1>6 DEF vars, Facts
  <2>3. (StackInv /\ IdleInv /\ OpenedAtOwnPort /\ OfferedWithOwnPort)'
    BY <1>6, <2>2, QuietKeeps DEF vars
  <2>4. (OfferInv /\ WatchInv /\ OnlineInv /\ KnownInv)'
    BY <1>1, <1>6 DEF vars, OfferInv, Listening, WatchInv, OnlineInv, KnownInv, BusyAt
  <2> QED
    BY <2>1, <2>3, <2>4 DEF IInv
<1> QED
  BY <1>2, <1>3, <1>4, <1>5, <1>6, RequestedKeeps, AcceptedKeeps, DialogKeeps
     DEF Next, Sides

-----------------------------------------------------------------------------
(* Theorems *)

\* So it always holds.
LEMMA InvHolds == Spec => []IInv
  BY InvInitial, InvInductive, PTL DEF Spec

\* A tube that is busy is so in the process of its side.
LEMMA BusyIsBusyAt ==
    ASSUME IInv, NEW t \in Tubes
    PROVE  t \in BusyAt(Side(t)) => t \in Busy
<1>1. Side(t) \in Sides /\ DOMAIN stack = Sides
  BY DEF IInv, Facts, Side, Sides
<1> QED
  BY <1>1 DEF BusyAt, Busy

\* The types are right, documents are opened and tubes offered at their own
\* port, and a server listens there, whatever the nesting of the dialogs.
THEOREM TubesCorrect == Spec => []TubesInv
<1>1. ASSUME IInv PROVE TypeOK
  <2>1. \A s \in Sides : \A f \in Range(stack[s]) : Side(f.tube) = s /\ f.left > 0
    BY <1>1 DEF IInv, StackInv
  <2>2. \A s \in Sides : /\ channels[s] \subseteq {t \in Tubes : Side(t) = s}
                         /\ watched[s] \subseteq Contacts
    BY <1>1 DEF IInv, Facts, WatchInv
  <2> QED
    BY <1>1, <2>1, <2>2 DEF IInv, Facts, TypeOK, Sides, States
<1>2. ASSUME IInv PROVE OfferedIsServed
  BY <1>1, <1>2 DEF IInv, OfferInv, OfferedIsServed
<1>3. IInv => TubesInv
  BY <1>1, <1>2 DEF IInv, TubesInv
<1> QED
  BY <1>3, InvHolds, PTL

\* An open tube is listed, or being closed, or was asked for too early.
THEOREM OpenKnown == Spec => []OpenIsKnown
<1>1. IInv => OpenIsKnown
  BY BusyIsBusyAt DEF IInv, KnownInv, OpenIsKnown
<1> QED
  BY <1>1, InvHolds, PTL

\* No channel is listed for a contact that is offline, but for one that went
\* offline while its handler was in a dialog.
THEOREM ListedOnline == Spec => []ListedIsOnline
<1>1. ASSUME IInv PROVE ListedIsOnline
  <2>1. DOMAIN channels = Sides
    BY <1>1 DEF IInv, Facts
  <2> QED
    BY <1>1, <2>1 DEF IInv, OnlineInv, ListedIsOnline
<1>2. IInv => ListedIsOnline
  BY <1>1
<1> QED
  BY <1>2, InvHolds, PTL

-----------------------------------------------------------------------------
(* The dialogs that share a document *)

\* What is opened was asked for, whichever states the other requests go through
OpenedInv ==
    loaded # 0 => \/ request[loaded].state = "done"
                  \/ request[loaded].via \in ByDialog /\ request[loaded].state = "failed"

\* A dialog over a view without a document is still connected to what closed it
WiredInv == dialog # "closed" /\ url = "none" => \E r \in Requests : request[r].wired

SharingInv == SharingTypeOK /\ OpenedInv /\ WiredInv /\ SourcelessOnlyAgain

RequestType ==
    [via : ByTube \cup ByDialog \cup {"none"}, source : {"file", "inf", "none"},
     state : {"idle", "requested", "copying", "hung", "done", "failed"},
     wired : BOOLEAN, again : BOOLEAN]

\* Two tables of requests that differ in who is connected only
Alike(p, q) == \A r \in Requests : /\ p[r].via = q[r].via /\ p[r].source = q[r].source
                                   /\ p[r].state = q[r].state /\ p[r].again = q[r].again

\* Disconnecting what was asked for keeps all else of it.
LEMMA UnwiredKeeps ==
    ASSUME NEW q \in [Requests -> RequestType]
    PROVE  /\ Unwired(q) \in [Requests -> RequestType]
           /\ \A r \in Requests : ~Unwired(q)[r].wired
           /\ Alike(Unwired(q), q)
  BY DEF Unwired, RequestType, Alike

\* What a new request r does to the table, when it is heard
Added(q, r, heard) ==
    /\ q \in [Requests -> RequestType]
    /\ q[r].source = url /\ q[r].state # "idle" /\ request[r].state = "idle"
    /\ q[r].wired <=> heard
    /\ q[r].again <=> \E p \in Requests : request[p].wired
    /\ \A p \in Requests \ {r} : q[p] = request[p]

\* A request that is made is a new one, and says what it is.
LEMMA AskedAdds ==
    ASSUME SharingTypeOK, NEW r \in Requests, Next1(r), NEW via \in ByTube \cup ByDialog,
           NEW state \in {"requested", "copying"}, NEW heard \in BOOLEAN
    PROVE  Added(Asked(r, via, state, heard), r, heard)
<1> DEFINE again == \E q \in Requests : request[q].wired
           new == [via |-> via, source |-> url, state |-> state, wired |-> heard,
                   again |-> again]
<1>1. Asked(r, via, state, heard) = [request EXCEPT ![r] = new]
  BY DEF Asked
<1>2. again \in BOOLEAN
  OBVIOUS
<1> HIDE DEF again
<1>3. new \in RequestType
  BY <1>2 DEF SharingTypeOK, RequestType
<1>4. request \in [Requests -> RequestType]
  BY DEF SharingTypeOK, RequestType
<1>5. new.source = url /\ new.state = state /\ new.wired = heard /\ new.again = again
  OBVIOUS
<1>6. request[r].state = "idle"
  BY DEF Next1, Made
<1> HIDE DEF new
<1>7. /\ Asked(r, via, state, heard) \in [Requests -> RequestType]
      /\ Asked(r, via, state, heard)[r] = new
      /\ \A p \in Requests \ {r} : Asked(r, via, state, heard)[p] = request[p]
  BY <1>1, <1>3, <1>4
<1> QED
  BY <1>5, <1>6, <1>7 DEF Added, again

\* The types, one fact to a line and the requests' in one word.
SharingFacts ==
    /\ url \in {"file", "inf", "none"} /\ unsaved \in BOOLEAN /\ rows \in BOOLEAN
    /\ dialog \in {"closed", "open", "contact", "room", "server", "closing", "disabled"}
    /\ chooser \in {"none", "shown", "choosing"}
    /\ request \in [Requests -> RequestType]
    /\ accepted => dialog \in ByTube \cup {"server", "closing"}
    /\ dialog = "closed" => \A r \in Requests : ~request[r].wired
    /\ loaded \in Requests \cup {0}
    /\ unsaved => url = "file"

\* These are the types that TypeOK states.
LEMMA TypeFacts == SharingTypeOK <=> SharingFacts
  BY DEF SharingTypeOK, SharingFacts, RequestType

\* A view with a file and nothing asked for satisfies the invariant.
LEMMA SharingInitially == SharingInit => SharingInv
<1> SUFFICES ASSUME SharingInit PROVE SharingInv
  OBVIOUS
<1>1. Idle \in RequestType /\ ~Idle.wired /\ Idle.state = "idle"
  BY DEF Idle, RequestType
<1>2. \A r \in Requests : request[r] = Idle
  BY DEF SharingInit
<1>3. request \in [Requests -> RequestType]
  BY <1>1 DEF SharingInit
<1>4. SharingTypeOK
  BY <1>1, <1>2, <1>3, TypeFacts DEF SharingInit, SharingFacts
<1> QED
  BY <1>1, <1>2, <1>4 DEF SharingInit, SharingInv, OpenedInv, WiredInv, SourcelessOnlyAgain, Made

\* The four parts of the invariant make up all of it, after a step as before.
LEMMA SharingParts == ASSUME SharingFacts', OpenedInv', WiredInv', SourcelessOnlyAgain' PROVE SharingInv'
  BY DEF SharingInv, SharingTypeOK, SharingFacts, RequestType

\* Every step of the dialogs, of the uploads and of the user keeps it.
LEMMA SharingInductive == SharingInv /\ [SharingNext]_sharingVars => SharingInv'
<1> SUFFICES ASSUME SharingInv, [SharingNext]_sharingVars PROVE SharingInv'
  OBVIOUS
<1>t. /\ SharingFacts /\ SharingTypeOK /\ OpenedInv /\ WiredInv /\ SourcelessOnlyAgain
      /\ request \in [Requests -> RequestType]
  BY TypeFacts DEF SharingInv, SharingFacts
<1>1. CASE shareActionClicked
  <2>a. SharingFacts'
    BY <1>t, <1>1 DEF SharingFacts, shareActionClicked, ByTube
  <2>b. OpenedInv'
    BY <1>t, <1>1 DEF OpenedInv, SharingFacts, shareActionClicked, ByTube
  <2>c. WiredInv'
    BY <1>t, <1>1 DEF WiredInv, SharingFacts, shareActionClicked, ByTube
  <2>d. SourcelessOnlyAgain'
    BY <1>t, <1>1
    DEF SourcelessOnlyAgain, Made, WiredInv, SharingFacts, shareActionClicked, ByTube
  <2> QED
    BY <2>a, <2>b, <2>c, <2>d, SharingParts
<1>2. CASE openActionClicked
  <2>a. SharingFacts'
    BY <1>t, <1>2 DEF SharingFacts, openActionClicked
  <2>b. OpenedInv'
    BY <1>t, <1>2 DEF OpenedInv, SharingFacts, openActionClicked
  <2>c. WiredInv'
    BY <1>t, <1>2 DEF WiredInv, SharingFacts, openActionClicked
  <2>d. SourcelessOnlyAgain'
    BY <1>t, <1>2 DEF SourcelessOnlyAgain, Made, WiredInv, SharingFacts, openActionClicked
  <2> QED
    BY <2>a, <2>b, <2>c, <2>d, SharingParts
<1>3. CASE Work
  <2>a. SharingFacts'
    BY <1>t, <1>3 DEF SharingFacts, Work
  <2>b. OpenedInv'
    BY <1>t, <1>3 DEF OpenedInv, SharingFacts, Work
  <2>c. WiredInv'
    BY <1>t, <1>3 DEF WiredInv, SharingFacts, Work
  <2>d. SourcelessOnlyAgain'
    BY <1>t, <1>3 DEF SourcelessOnlyAgain, Made, WiredInv, SharingFacts, Work
  <2> QED
    BY <2>a, <2>b, <2>c, <2>d, SharingParts
<1>4. CASE onAccountManagerReady
  <2>a. SharingFacts'
    BY <1>t, <1>4 DEF SharingFacts, onAccountManagerReady
  <2>b. OpenedInv'
    BY <1>t, <1>4 DEF OpenedInv, SharingFacts, onAccountManagerReady
  <2>c. WiredInv'
    BY <1>t, <1>4 DEF WiredInv, SharingFacts, onAccountManagerReady
  <2>d. SourcelessOnlyAgain'
    BY <1>t, <1>4
    DEF SourcelessOnlyAgain, Made, WiredInv, SharingFacts, onAccountManagerReady
  <2> QED
    BY <2>a, <2>b, <2>c, <2>d, SharingParts
<1>5. CASE Cancel
  <2>1. /\ Unwired(request) \in [Requests -> RequestType]
        /\ \A r \in Requests : ~Unwired(request)[r].wired
        /\ Alike(Unwired(request), request)
    BY <1>t, UnwiredKeeps
  <2>a. SharingFacts'
    BY <1>t, <1>5, <2>1 DEF SharingFacts, Cancel, Alike
  <2>b. OpenedInv'
    BY <1>t, <1>5, <2>1 DEF OpenedInv, SharingFacts, Cancel, Alike
  <2>c. WiredInv'
    BY <1>t, <1>5, <2>1 DEF WiredInv, SharingFacts, Cancel, Alike
  <2>d. SourcelessOnlyAgain'
    BY <1>t, <1>5, <2>1 DEF SourcelessOnlyAgain, Made, WiredInv, SharingFacts, Cancel, Alike
  <2> QED
    BY <2>a, <2>b, <2>c, <2>d, SharingParts
<1>6. ASSUME NEW which \in ByTube \cup {"server"}, ButtonClicked(which)
      PROVE SharingInv'
  <2>a. SharingFacts'
    BY <1>t, <1>6 DEF SharingFacts, ButtonClicked, ByTube
  <2>b. OpenedInv'
    BY <1>t, <1>6 DEF OpenedInv, SharingFacts, ButtonClicked, ByTube
  <2>c. WiredInv'
    BY <1>t, <1>6 DEF WiredInv, SharingFacts, ButtonClicked, ByTube
  <2>d. SourcelessOnlyAgain'
    BY <1>t, <1>6
    DEF SourcelessOnlyAgain, Made, WiredInv, SharingFacts, ButtonClicked, ByTube
  <2> QED
    BY <2>a, <2>b, <2>c, <2>d, SharingParts
<1>7. ASSUME NEW r \in Requests, NEW via \in ByTube, Offer(r, via)
      PROVE SharingInv'
  <2>1. CASE unsaved
    <3> DEFINE new == Asked(r, via, "requested", FALSE)
    <3>1. /\ dialog = via /\ Next1(r) /\ dialog' = "closing" /\ request' = new
          /\ UNCHANGED <<url, accepted, unsaved, rows, chooser, loaded>>
      BY <1>7, <2>1 DEF Offer
    <3>2. Added(new, r, FALSE)
      BY <1>t, <3>1, AskedAdds
    <3> HIDE DEF new
    <3>a. SharingFacts'
      BY <1>t, <2>1, <3>1, <3>2 DEF SharingFacts, Added, ByTube
    <3>b. OpenedInv'
      BY <1>t, <2>1, <3>1, <3>2 DEF OpenedInv, SharingFacts, Added, ByTube
    <3>c. WiredInv'
      BY <1>t, <2>1, <3>1, <3>2 DEF WiredInv, SharingFacts, Added, ByTube
    <3>d. SourcelessOnlyAgain'
      BY <1>t, <2>1, <3>1, <3>2
      DEF SourcelessOnlyAgain, Made, WiredInv, SharingFacts, Added, ByTube
    <3> QED
      BY <3>a, <3>b, <3>c, <3>d, SharingParts
  <2>2. CASE ~unsaved
    <3> DEFINE new == Asked(r, via, "requested", TRUE)
    <3>1. /\ dialog = via /\ Next1(r) /\ url' = "none" /\ Back("open", new)
          /\ UNCHANGED <<unsaved, rows, chooser, loaded>>
      BY <1>7, <2>2 DEF Offer
    <3>2. Added(new, r, TRUE)
      BY <1>t, <3>1, AskedAdds
    <3> HIDE DEF new
    <3>3. /\ Unwired(new) \in [Requests -> RequestType]
          /\ \A q \in Requests : ~Unwired(new)[q].wired
          /\ Alike(Unwired(new), new)
      BY <3>2, UnwiredKeeps DEF Added
    <3>a. SharingFacts'
      BY <1>t, <2>2, <3>1, <3>2, <3>3 DEF SharingFacts, Added, Alike, Back, ByTube
    <3>b. OpenedInv'
      BY <1>t, <2>2, <3>1, <3>2, <3>3
      DEF OpenedInv, SharingFacts, Added, Alike, Back, ByTube
    <3>c. WiredInv'
      BY <1>t, <2>2, <3>1, <3>2, <3>3 DEF WiredInv, SharingFacts, Added, Alike, Back, ByTube
    <3>d. SourcelessOnlyAgain'
      BY <1>t, <2>2, <3>1, <3>2, <3>3
      DEF SourcelessOnlyAgain, Made, WiredInv, SharingFacts, Added, Alike, Back, ByTube
    <3> QED
      BY <3>a, <3>b, <3>c, <3>d, SharingParts
  <2> QED
    BY <2>1, <2>2
<1>8. ASSUME NEW r \in Requests, closeUrl(r)
      PROVE SharingInv'
  <2> DEFINE new == [request EXCEPT ![r].wired = TRUE]
  <2>1. /\ dialog = "closing" /\ Back("open", new)
        /\ \/ url' = "none" /\ unsaved' = FALSE
           \/ url' = url /\ unsaved' = unsaved
        /\ UNCHANGED <<rows, chooser, loaded>>
    BY <1>8 DEF closeUrl
  <2>2. /\ new \in [Requests -> RequestType] /\ new[r].wired
        /\ Alike(new, request)
    BY <1>t DEF RequestType, Alike
  <2> HIDE DEF new
  <2>3. /\ Unwired(new) \in [Requests -> RequestType]
        /\ \A q \in Requests : ~Unwired(new)[q].wired
        /\ Alike(Unwired(new), new)
    BY <2>2, UnwiredKeeps
  <2>4. /\ request' \in [Requests -> RequestType] /\ accepted' = FALSE
        /\ dialog' \in {"open", "closed"}
        /\ dialog' = "closed" => \A q \in Requests : ~request'[q].wired
    BY <2>1, <2>2, <2>3 DEF Back
  <2>5. ASSUME url' = "none", unsaved' = FALSE PROVE SharingFacts'
    BY <1>t, <2>1, <2>4, <2>5 DEF SharingFacts
  <2>6. ASSUME url' = url, unsaved' = unsaved PROVE SharingFacts'
    BY <1>t, <2>1, <2>4, <2>6 DEF SharingFacts
  <2>a. SharingFacts'
    BY <2>1, <2>5, <2>6
  <2>b. OpenedInv'
    BY <1>t, <2>1, <2>2, <2>3 DEF OpenedInv, SharingFacts, Alike, Back
  <2>c. WiredInv'
    BY <1>t, <2>1, <2>2, <2>3 DEF WiredInv, SharingFacts, Alike, Back
  <2>d. SourcelessOnlyAgain'
    BY <1>t, <2>1, <2>2, <2>3
    DEF SourcelessOnlyAgain, Made, WiredInv, SharingFacts, Alike, Back
  <2> QED
    BY <2>a, <2>b, <2>c, <2>d, SharingParts
<1>9. ASSUME NEW r \in Requests, shareWithExistingConnection(r)
      PROVE SharingInv'
  <2> DEFINE new == Asked(r, "existing", "copying", TRUE)
  <2>1. /\ dialog = "open" /\ Next1(r) /\ request' = new
        /\ UNCHANGED <<url, unsaved, dialog, accepted, rows, chooser, loaded>>
    BY <1>9 DEF shareWithExistingConnection
  <2>2. Added(new, r, TRUE)
    BY <1>t, <2>1, AskedAdds DEF ByDialog
  <2> HIDE DEF new
  <2>a. SharingFacts'
    BY <1>t, <2>1, <2>2 DEF SharingFacts, Added
  <2>b. OpenedInv'
    BY <1>t, <2>1, <2>2 DEF OpenedInv, SharingFacts, Added
  <2>c. WiredInv'
    BY <1>t, <2>1, <2>2 DEF WiredInv, SharingFacts, Added
  <2>d. SourcelessOnlyAgain'
    BY <1>t, <2>1, <2>2 DEF SourcelessOnlyAgain, Made, WiredInv, SharingFacts, Added
  <2> QED
    BY <2>a, <2>b, <2>c, <2>d, SharingParts
<1>10. ASSUME NEW r \in Requests, putOnExistingServer(r)
      PROVE SharingInv'
  <2> DEFINE new == Asked(r, "server", "copying", TRUE)
  <2>1. /\ dialog = "server" /\ Next1(r) /\ Back("disabled", new)
        /\ UNCHANGED <<url, unsaved, rows, chooser, loaded>>
    BY <1>10 DEF putOnExistingServer
  <2>2. Added(new, r, TRUE)
    BY <1>t, <2>1, AskedAdds DEF ByDialog
  <2> HIDE DEF new
  <2>3. /\ Unwired(new) \in [Requests -> RequestType]
        /\ \A q \in Requests : ~Unwired(new)[q].wired
        /\ Alike(Unwired(new), new)
    BY <2>2, UnwiredKeeps DEF Added
  <2>a. SharingFacts'
    BY <1>t, <2>1, <2>2, <2>3 DEF SharingFacts, Added, Alike, Back
  <2>b. OpenedInv'
    BY <1>t, <2>1, <2>2, <2>3 DEF OpenedInv, SharingFacts, Added, Alike, Back
  <2>c. WiredInv'
    BY <1>t, <2>1, <2>2, <2>3 DEF WiredInv, SharingFacts, Added, Alike, Back
  <2>d. SourcelessOnlyAgain'
    BY <1>t, <2>1, <2>2, <2>3
    DEF SourcelessOnlyAgain, Made, WiredInv, SharingFacts, Added, Alike, Back
  <2> QED
    BY <2>a, <2>b, <2>c, <2>d, SharingParts
<1>11. ASSUME NEW r \in Requests, TubeReady(r)
      PROVE SharingInv'
  <2>1. PICK s \in {"copying", "failed"} : request' = [request EXCEPT ![r].state = s]
    BY <1>11 DEF TubeReady
  <2> DEFINE now == [request EXCEPT ![r].state = s]
  <2>2. /\ now \in [Requests -> RequestType] /\ now[r].state = s
        /\ \A p \in Requests : /\ p # r => now[p] = request[p]
                               /\ now[p].via = request[p].via
                               /\ now[p].source = request[p].source
                               /\ now[p].wired <=> request[p].wired
                               /\ now[p].again <=> request[p].again
    BY <1>t DEF RequestType
  <2> HIDE DEF now
  <2>3. /\ request' = now /\ request[r].state = "requested"
        /\ UNCHANGED <<accepted, url, unsaved, dialog, rows, chooser, loaded>>
    BY <1>11, <2>1 DEF TubeReady, now
  <2>a. SharingFacts'
    BY <1>t, <2>2, <2>3 DEF SharingFacts
  <2>b. OpenedInv'
    BY <1>t, <2>2, <2>3 DEF OpenedInv, SharingFacts
  <2>c. WiredInv'
    BY <1>t, <2>2, <2>3 DEF WiredInv, SharingFacts
  <2>d. SourcelessOnlyAgain'
    BY <1>t, <2>2, <2>3 DEF SourcelessOnlyAgain, Made, WiredInv, SharingFacts
  <2> QED
    BY <2>a, <2>b, <2>c, <2>d, SharingParts
<1>12. ASSUME NEW r \in Requests, NEW s \in {"done", "failed"}, jobFinished(r, s)
       PROVE SharingInv'
  <2> DEFINE now == [request EXCEPT ![r].state = s]
  <2>1. /\ request[r].state = "copying" /\ UNCHANGED <<rows, chooser>>
        /\ IF Heard(r, s) THEN shouldOpenDocument(r, now)
           ELSE request' = now /\ UNCHANGED <<url, unsaved, dialog, accepted, loaded>>
    BY <1>12 DEF jobFinished, Ended
  <2>2. /\ now \in [Requests -> RequestType] /\ now[r].state = s
        /\ \A p \in Requests : /\ p # r => now[p] = request[p]
                               /\ now[p].via = request[p].via
                               /\ now[p].source = request[p].source
                               /\ now[p].wired <=> request[p].wired
                               /\ now[p].again <=> request[p].again
    BY <1>t DEF RequestType
  <2> HIDE DEF now
  <2>3. CASE Heard(r, s)
    <3>1. s = "done" \/ request[r].via \in ByDialog
      BY <2>3 DEF Heard
    <3>2. /\ Unwired(now) \in [Requests -> RequestType]
          /\ \A q \in Requests : ~Unwired(now)[q].wired
          /\ Alike(Unwired(now), now)
      BY <2>2, UnwiredKeeps
    <3>3. shouldOpenDocument(r, now)
      BY <2>1, <2>3
    <3>4. CASE dialog \in {"open", "disabled"}
      <4>1. /\ dialog' = "closed" /\ request' = Unwired(now)
            /\ UNCHANGED <<accepted, rows, chooser>>
            /\ \/ url' = "inf" /\ unsaved' = FALSE /\ loaded' = r
               \/ unsaved /\ UNCHANGED <<url, unsaved, loaded>>
        BY <2>1, <3>3, <3>4 DEF shouldOpenDocument, ByTube
      <4>a. SharingFacts'
        BY <1>t, <2>1, <2>2, <3>1, <3>2, <3>4, <4>1
        DEF SharingFacts, Alike, ByTube, Requests
      <4>b. OpenedInv'
        BY <1>t, <2>1, <2>2, <3>1, <3>2, <3>4, <4>1
        DEF OpenedInv, SharingFacts, Alike, ByTube, Requests
      <4>c. WiredInv'
        BY <1>t, <2>1, <2>2, <3>1, <3>2, <3>4, <4>1
        DEF WiredInv, SharingFacts, Alike, ByTube, Requests
      <4>d. SourcelessOnlyAgain'
        BY <1>t, <2>1, <2>2, <3>1, <3>2, <3>4, <4>1
        DEF SourcelessOnlyAgain, Made, WiredInv, SharingFacts, Alike, ByTube, Requests
      <4> QED
        BY <4>a, <4>b, <4>c, <4>d, SharingParts
    <3>5. CASE dialog \in ByTube \cup {"server", "closing"}
      <4>1. /\ accepted' = TRUE /\ request' = now
            /\ UNCHANGED <<dialog, rows, chooser>>
            /\ \/ url' = "inf" /\ unsaved' = FALSE /\ loaded' = r
               \/ unsaved /\ UNCHANGED <<url, unsaved, loaded>>
        BY <2>1, <3>3, <3>5 DEF shouldOpenDocument, ByTube
      <4>a. SharingFacts'
        BY <1>t, <2>1, <2>2, <3>1, <3>5, <4>1 DEF SharingFacts, ByTube, Requests
      <4>b. OpenedInv'
        BY <1>t, <2>1, <2>2, <3>1, <3>5, <4>1 DEF OpenedInv, SharingFacts, ByTube, Requests
      <4>c. WiredInv'
        BY <1>t, <2>1, <2>2, <3>1, <3>5, <4>1 DEF WiredInv, SharingFacts, ByTube, Requests
      <4>d. SourcelessOnlyAgain'
        BY <1>t, <2>1, <2>2, <3>1, <3>5, <4>1
        DEF SourcelessOnlyAgain, Made, WiredInv, SharingFacts, ByTube, Requests
      <4> QED
        BY <4>a, <4>b, <4>c, <4>d, SharingParts
    <3> QED
      BY <3>3, <3>4, <3>5 DEF shouldOpenDocument
  <2>4. CASE ~Heard(r, s)
    <3>a. SharingFacts'
      BY <1>t, <2>1, <2>2, <2>4 DEF SharingFacts
    <3>b. OpenedInv'
      BY <1>t, <2>1, <2>2, <2>4 DEF OpenedInv, SharingFacts
    <3>c. WiredInv'
      BY <1>t, <2>1, <2>2, <2>4 DEF WiredInv, SharingFacts
    <3>d. SourcelessOnlyAgain'
      BY <1>t, <2>1, <2>2, <2>4 DEF SourcelessOnlyAgain, Made, WiredInv, SharingFacts
    <3> QED
      BY <3>a, <3>b, <3>c, <3>d, SharingParts
  <2> QED
    BY <2>3, <2>4
<1>13. CASE requestFileToOpen
  <2>a. SharingFacts'
    BY <1>t, <1>13 DEF SharingFacts, requestFileToOpen
  <2>b. OpenedInv'
    BY <1>t, <1>13 DEF OpenedInv, SharingFacts, requestFileToOpen
  <2>c. WiredInv'
    BY <1>t, <1>13 DEF WiredInv, SharingFacts, requestFileToOpen
  <2>d. SourcelessOnlyAgain'
    BY <1>t, <1>13 DEF SourcelessOnlyAgain, Made, WiredInv, SharingFacts, requestFileToOpen
  <2> QED
    BY <2>a, <2>b, <2>c, <2>d, SharingParts
<1>14. CASE openFile
  <2>1. ASSUME UNCHANGED <<url, unsaved, loaded>> PROVE SharingFacts'
    BY <1>t, <1>14, <2>1 DEF SharingFacts, openFile
  <2>2. ASSUME url' = "inf", unsaved' = FALSE, loaded' = 0 PROVE SharingFacts'
    BY <1>t, <1>14, <2>2 DEF SharingFacts, openFile
  <2>a. SharingFacts'
    BY <1>14, <2>1, <2>2 DEF openFile
  <2>b. OpenedInv'
    BY <1>t, <1>14 DEF OpenedInv, SharingFacts, openFile
  <2>c. WiredInv'
    BY <1>t, <1>14 DEF WiredInv, SharingFacts, openFile
  <2>d. SourcelessOnlyAgain'
    BY <1>t, <1>14 DEF SourcelessOnlyAgain, Made, WiredInv, SharingFacts, openFile
  <2> QED
    BY <2>a, <2>b, <2>c, <2>d, SharingParts
<1>15. CASE Rejected
  <2>a. SharingFacts'
    BY <1>t, <1>15 DEF SharingFacts, Rejected
  <2>b. OpenedInv'
    BY <1>t, <1>15 DEF OpenedInv, SharingFacts, Rejected
  <2>c. WiredInv'
    BY <1>t, <1>15 DEF WiredInv, SharingFacts, Rejected
  <2>d. SourcelessOnlyAgain'
    BY <1>t, <1>15 DEF SourcelessOnlyAgain, Made, WiredInv, SharingFacts, Rejected
  <2> QED
    BY <2>a, <2>b, <2>c, <2>d, SharingParts
<1>16. CASE UNCHANGED sharingVars
  <2>a. SharingFacts'
    BY <1>t, <1>16 DEF SharingFacts, sharingVars
  <2>b. OpenedInv'
    BY <1>t, <1>16 DEF OpenedInv, SharingFacts, sharingVars
  <2>c. WiredInv'
    BY <1>t, <1>16 DEF WiredInv, SharingFacts, sharingVars
  <2>d. SourcelessOnlyAgain'
    BY <1>t, <1>16 DEF SourcelessOnlyAgain, Made, WiredInv, SharingFacts, sharingVars
  <2> QED
    BY <2>a, <2>b, <2>c, <2>d, SharingParts
<1>17. ASSUME NEW r \in Requests, uploadHangs(r)
       PROVE SharingInv'
  <2> DEFINE now == [request EXCEPT ![r].state = "hung"]
  <2>2. /\ now \in [Requests -> RequestType] /\ now[r].state = "hung"
        /\ \A p \in Requests : /\ p # r => now[p] = request[p]
                               /\ now[p].via = request[p].via
                               /\ now[p].source = request[p].source
                               /\ now[p].wired <=> request[p].wired
                               /\ now[p].again <=> request[p].again
    BY <1>t DEF RequestType
  <2> HIDE DEF now
  <2>3. /\ request' = now /\ request[r].state = "copying"
        /\ UNCHANGED <<accepted, url, unsaved, dialog, rows, chooser, loaded>>
    BY <1>17 DEF uploadHangs, now
  <2>a. SharingFacts'
    BY <1>t, <2>2, <2>3 DEF SharingFacts
  <2>b. OpenedInv'
    BY <1>t, <2>2, <2>3 DEF OpenedInv, SharingFacts
  <2>c. WiredInv'
    BY <1>t, <2>2, <2>3 DEF WiredInv, SharingFacts
  <2>d. SourcelessOnlyAgain'
    BY <1>t, <2>2, <2>3 DEF SourcelessOnlyAgain, Made, WiredInv, SharingFacts
  <2> QED
    BY <2>a, <2>b, <2>c, <2>d, SharingParts
<1> QED
  BY <1>1, <1>2, <1>3, <1>4, <1>5, <1>6, <1>7, <1>8, <1>9, <1>10,
     <1>11, <1>12, <1>13, <1>14, <1>15, <1>16, <1>17 DEF SharingNext

\* What is opened from a server was put there, unless the dialog itself put it
\* there, which does not look at errors: whatever is asked for meanwhile.
THEOREM Opened == SharingSpec => []OpenedIsUploaded
<1>1. SharingInv => OpenedIsUploaded
  BY DEF SharingInv, OpenedInv, OpenedIsUploaded
<1> QED
  BY <1>1, SharingInitially, SharingInductive, PTL DEF SharingSpec

\* Nothing but a second use of the dialog shares a document that is closed.
THEOREM Sourceless == SharingSpec => []SourcelessOnlyAgain
<1>1. SharingInv => SourcelessOnlyAgain
  BY DEF SharingInv
<1> QED
  BY <1>1, SharingInitially, SharingInductive, PTL DEF SharingSpec
=============================================================================
