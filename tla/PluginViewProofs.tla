--------------------------- MODULE PluginViewProofs ---------------------------
(* Theorems about PluginView, and about UserLists, which adds the lists of *)
(* users to it: for any number of views and of users.                      *)
EXTENDS UserLists, TLAPS

\* What a document lets the views see of it, in any state
DocumentInv ==
    /\ url \in {"inf", "temp", "closed"} /\ managed \in BOOLEAN /\ ready \in BOOLEAN
    /\ load \in Document!LoadStates
    /\ ~managed => load = "Unloaded" /\ ~ready

\* A view in a dialog has its document, or has lost it there; and there is one
\* dialog at a time
DialogInv ==
    /\ \A v \in Views : dialog[v] # "none" => v \in follows \cup lost
    /\ \A v, w \in Views : dialog[v] # "none" /\ dialog[w] # "none" => v = w

\* A document becomes ready while its Connection is open, which may close later.
LinkInv == ready => link \in {"open", "closing", "closed"}

\* The inductive invariant
IInv ==
    /\ DocumentInv /\ ViewsInv /\ DialogInv /\ CrashedOnlyIfLost /\ LinkInv
    /\ ReadyShownUnlessLate

\* What the views' part of it says, one fact to a line
Facts ==
    /\ hears \subseteq shown /\ follows \subseteq shown /\ usable \subseteq shown
    /\ saveable \subseteq shown /\ shareable \subseteq shown /\ overlay \subseteq shown
    /\ late \subseteq shown /\ lost \subseteq shown
    /\ undoes \subseteq shown /\ undoLost \subseteq shown
    /\ shown \subseteq Views /\ dangling \in BOOLEAN
    /\ link \in {"made", "opening", "open", "closing", "closed"}
    /\ bar \in [Views -> Texts]
    /\ dialog \in [Views -> {"none", "name", "copy"}]
    /\ crashed \in {"no", "dialog", "other", "undo", "connection"}
    /\ \A v \in Views : v \in follows <=> bar[v] # "none"

\* These are the types that TypeOK states.
LEMMA TypeFacts == TypeOK <=> Facts
<1>1. DOMAIN Says = {"made", "opening", "open", "closing", "closed"}
  BY DEF Says
<1> QED
  BY <1>1 DEF TypeOK, Facts

\* What connectionStatusChanged() says, one status to a line
LEMMA Said ==
    /\ DOMAIN Says = {"made", "opening", "open", "closing", "closed"}
    /\ \A status \in DOMAIN Says : Says[status] \in Texts \ {"none", "ready"}
    /\ Says["closing"] = "disconnecting" /\ Says["closed"] = "disconnected"
  BY DEF Says, Texts

\* Without a view and a document the invariant holds.
LEMMA Initially == Init => IInv
<1> SUFFICES ASSUME Init PROVE IInv
  OBVIOUS
<1>1. Facts
  BY DEF Init, Facts, Texts
<1> QED
  BY <1>1, TypeFacts DEF Init, LinkInv, Document!Init, IInv, DocumentInv, Document!LoadStates,
     ViewsInv, ActionsHaveDocument, ViewsFollow, UndoIsSessions, DialogInv,
     CrashedOnlyIfLost, ReadyShownUnlessLate, NoOverlayWhenReady

\* Every step of the document and of the views keeps it.
LEMMA Inductive == IInv /\ [Next]_vars => IInv'
<1> SUFFICES ASSUME IInv, [Next]_vars PROVE IInv'
  OBVIOUS
<1> USE TypeFacts DEF document, ui, undo, Document!LoadStates
<1>f. Facts
  BY DEF IInv, ViewsInv
<1>s. Facts' /\ DocumentInv' /\ ActionsHaveDocument' /\ ViewsFollow' /\ UndoIsSessions'
      /\ DialogInv' /\ CrashedOnlyIfLost' /\ LinkInv' /\ ReadyShownUnlessLate' => IInv'
  BY Said DEF IInv, ViewsInv, DocumentInv, TypeOK, Facts
<1> USE DEF IInv, DocumentInv, ViewsInv, ActionsHaveDocument, ViewsFollow, UndoIsSessions,
    DialogInv, CrashedOnlyIfLost, LinkInv, ReadyShownUnlessLate, NoOverlayWhenReady, Facts
<1>1. CASE Loading
  BY <1>1, <1>f, <1>s DEF Loading, slotCanUndo, Document!Load
<1>2. CASE GivenUp
  BY <1>2, <1>f, <1>s DEF GivenUp, TextDocumentDeleted, Document!GiveUp
<1>3. CASE textOpPerformed
  BY <1>3, <1>f, <1>s DEF textOpPerformed, updateUndoRedoActions, slotCanUndo
<1>4. CASE BecameManaged
  BY <1>4, <1>f, <1>s, Said DEF BecameManaged, enableUi, Put, Document!Manage, Texts
<1>5. CASE BecameReady
  BY <1>5, <1>f, <1>s DEF BecameReady, enableActions, Put, Document!Complete, Texts
<1>6. CASE Other
  BY <1>6, <1>f, <1>s DEF Other, Document!OpenOrClose
<1>7. ASSUME NEW next \in {"inf", "temp", "closed"}, BecameUnmanaged(next)
      PROVE IInv'
  BY <1>7, <1>f, <1>s DEF BecameUnmanaged, LetGo, disableUi, disableActions, Put,
     TextDocumentDeleted, Document!Unmanage, Texts
<1>8. ASSUME NEW v \in Views, addView(v)
      PROVE IInv'
  BY <1>8, <1>f, <1>s, Said DEF addView, Construct, disableActions, enableUi, Put, Texts
<1>9. ASSUME NEW v \in Views, removeView(v)
      PROVE IInv'
  BY <1>9, <1>f, <1>s DEF removeView, Put, Texts
<1>10. ASSUME NEW v \in Views, undoTriggered(v)
       PROVE IInv'
  BY <1>10, <1>f, <1>s DEF undoTriggered, updateUndoRedoActions, slotCanUndo
<1>11. ASSUME NEW v \in Views, disconnectActionClicked(v)
       PROVE IInv'
  BY <1>11, <1>7, <1>f, <1>s DEF disconnectActionClicked, Clicked
<1>12. ASSUME NEW v \in Views, changeUserActionClicked(v)
       PROVE IInv'
  BY <1>12, <1>f, <1>s DEF changeUserActionClicked, Clicked
<1>13. ASSUME NEW v \in Views, saveCopyActionClicked(v)
       PROVE IInv'
  BY <1>13, <1>f, <1>s DEF saveCopyActionClicked, Clicked
<1>14. ASSUME NEW v \in Views, NEW accepted \in BOOLEAN, Left(v, accepted)
       PROVE IInv'
  <2> USE <1>14
  <2>1. CASE accepted /\ v \notin follows
    BY <2>1, <1>f, <1>s DEF Left, Crash
  <2>2. CASE accepted /\ v \in follows /\ dialog[v] = "name"
    <3>1. /\ dialog' = [dialog EXCEPT ![v] = "none"] /\ lost' = lost \ {v}
          /\ UNCHANGED crashed /\ LetGo("inf")
      BY <2>2 DEF Left, changeUserName
    <3>2. /\ link' = "closed"
          /\ url' = "inf" /\ managed' = FALSE /\ load' = "Unloaded" /\ ready' = FALSE
          /\ follows' = {} /\ overlay' = overlay \ follows
          /\ bar' = [w \in Views |-> IF w \in follows THEN "none" ELSE bar[w]]
          /\ shareable' = shareable \cup follows
          /\ usable' = usable \ follows /\ saveable' = saveable \cup follows
          /\ undoes' = {} /\ undoLost' = undoLost \cup undoes /\ dangling' = FALSE
          /\ UNCHANGED <<shown, hears, late>>
      BY <3>1 DEF LetGo, disableUi, disableActions, Put, TextDocumentDeleted,
         Document!Unmanage
    <3>3. Facts'
      BY <2>2, <3>1, <3>2, <1>f DEF Texts
    <3>4. DialogInv'
      BY <2>2, <3>1, <3>2, <1>f
    <3> QED
      BY <3>1, <3>2, <3>3, <3>4, <1>f, <1>s
  <2>3. CASE accepted /\ v \in follows /\ dialog[v] # "name"
    BY <2>3, <1>f, <1>s DEF Left, changeUserName
  <2>4. CASE ~accepted
    BY <2>4, <1>f, <1>s DEF Left
  <2> QED
    BY <2>1, <2>2, <2>3, <2>4
<1>15. CASE UNCHANGED vars
  BY <1>15, <1>f, <1>s DEF vars
<1>16. ASSUME NEW status \in DOMAIN Says, connectionStatusChanged(status)
       PROVE IInv'
  BY <1>16, <1>f, <1>s, Said DEF connectionStatusChanged, Put, Texts
<1> QED
  BY <1>1, <1>2, <1>3, <1>4, <1>5, <1>6, <1>7, <1>8, <1>9, <1>10, <1>11, <1>12, <1>13,
     <1>14, <1>15, <1>16 DEF Next

-----------------------------------------------------------------------------
(* The views by themselves *)

\* Whatever the views and the document do, the actions that need a document are
\* offered only with one, views made in time follow it, and undo goes to the
\* session exactly while there is a text document.
THEOREM ViewsInvariance == Spec => []ViewsInv
<1>1. IInv => ViewsInv
  BY DEF IInv
<1> QED
  BY <1>1, Initially, Inductive, PTL DEF Spec

-----------------------------------------------------------------------------
(* With the lists of users *)

\* The lists change nothing of what the views do: every behaviour of the
\* composition is one of PluginView, so that what is proved of it holds here.
THEOREM ListsImplementViews == ListsSpec => Spec
<1>1. ListsInit => Init
  BY DEF ListsInit
<1>2. [ListsNext]_<<vars, users, lists>> => [Next]_vars
  BY DEF ListsNext, ViewStep, usersChanged, statusChanged, colorTableChanged,
     showOffline, showInactive
<1> QED
  BY <1>1, <1>2, PTL DEF ListsSpec, Spec

\* The theorem above, of the composition the run checks.
THEOREM ViewsConsistent == ListsSpec => []ViewsInv
  BY ListsImplementViews, ViewsInvariance, PTL

\* A view that follows a document that is ready offers its actions, and says that
\* it is connected exactly until its Connection is closing, unless it was made too
\* late; and no text is behind the loading overlay.
THEOREM ReadyShown == ListsSpec => []ReadyShownUnlessLate
<1>1. IInv => ReadyShownUnlessLate
  BY DEF IInv
<1>2. Spec => []ReadyShownUnlessLate
  BY <1>1, Initially, Inductive, PTL DEF Spec
<1> QED
  BY <1>2, ListsImplementViews, PTL

\* A null m_document is used only by the answer to a dialog whose document was let
\* go meanwhile: there is no other way to it.  A deleted undo action is used only
\* after a view was closed, a deleted Connection only by a view made after the end.
THEOREM NoOtherCrash == ListsSpec => []CrashedOnlyIfLost
<1>1. IInv => CrashedOnlyIfLost
  BY DEF IInv
<1>2. Spec => []CrashedOnlyIfLost
  BY <1>1, Initially, Inductive, PTL DEF Spec
<1> QED
  BY <1>2, ListsImplementViews, PTL
-----------------------------------------------------------------------------
(* What the lists show *)

Table == [Users -> {"absent", "active", "away"}]
Lists == [shown : SUBSET Users, counted : SUBSET Users, online : SUBSET Users]

\* The labels of a list, unless there are too many of them
Labels(t, w, off, inact) ==
    LET candidates == IF off THEN Present(t) ELSE Active(t)
    IN  IF inact THEN candidates ELSE candidates \cap w

LabelsNow(v) == Labels(table, wrote, offline[v], inactive[v])

\* Of the users it is connected to, a list that shows labels shows what is true.
KnowsWatched(v) ==
    list[v].counted = {} => \A u \in watched[v] :
        /\ u \in list[v].shown <=> u \in LabelsNow(v)
        /\ u \in list[v].online <=> u \in LabelsNow(v) /\ u \in Active(table)

\* The types, and that nobody is watched who is not in the table
ListFacts ==
    /\ table \in Table
    /\ wrote \in SUBSET Users
    /\ list \in [Views -> Lists]
    /\ watched \in [Views -> SUBSET Users]
    /\ offline \in [Views -> BOOLEAN]
    /\ inactive \in [Views -> BOOLEAN]
    /\ told \subseteq follows
    /\ tabled \subseteq follows
    /\ \A v \in Views : watched[v] \subseteq Present(table)

\* A document that is ready has its text, and its views have the table of users.
ReadyInv == ready => load # "Unloaded" /\ follows \subseteq tabled

\* The list was cleared when the Connection closed, and is not made anew yet.
ClearedNow(v) == link = "closed" /\ list[v] = Empty

\* The list of a view made in time hears of every change.
CurrentInv ==
    ready => \A v \in follows \ late :
        v \in told /\ watched[v] = Present(table) /\ (list[v] = Current(v) \/ ClearedNow(v))

KnownInv == ready => \A v \in follows : KnowsWatched(v) \/ ClearedNow(v)

ListsInv == ListFacts /\ ReadyInv /\ CurrentInv /\ KnownInv

\* A list l shows the labels, unless it only counts the users or there are none.
ShowsOrCounts(l, t, labels) ==
    l.counted = {} => \/ Present(t) = {}
                      \/ l.shown = labels /\ l.online = labels \cap Active(t)

\* A list that is made shows the labels, or there are too many users, or none.
LEMMA ListedFacts ==
    ASSUME NEW t \in Table, NEW w \in SUBSET Users, NEW off, NEW inact
    PROVE  /\ Listed(t, w, off, inact) \in Lists
           /\ Present(t) \in SUBSET Users
           /\ ShowsOrCounts(Listed(t, w, off, inact), t, Labels(t, w, off, inact))
<1> DEFINE candidates == IF off THEN Present(t) ELSE Active(t)
           many == /\ Cardinality(candidates) > MaxListed
                   /\ inact \/ Cardinality(w) > MaxListed
           labels == Labels(t, w, off, inact)
<1>1. Present(t) \in SUBSET Users /\ Active(t) \in SUBSET Users
  BY DEF Present, Active
<1>2. labels \in SUBSET Users
  BY <1>1 DEF Labels
<1>3. Listed(t, w, off, inact) =
        IF many THEN [shown |-> {}, counted |-> Present(t), online |-> Active(t)]
        ELSE [shown |-> labels, counted |-> {}, online |-> labels \cap Active(t)]
  BY DEF Listed, Labels
<1> HIDE DEF many, labels
<1>4. CASE many
  BY <1>1, <1>3, <1>4 DEF Lists, ShowsOrCounts
<1>5. CASE ~many
  BY <1>1, <1>2, <1>3, <1>5 DEF Lists, labels, ShowsOrCounts
<1> QED
  BY <1>4, <1>5

\* What userTableChanged() does to the lists of the views that are told, to those
\* of the others, and to those that are gone.
LEMMA Made ==
    ASSUME ListFacts, table' \in Table, wrote' \in SUBSET Users,
           NEW vs, NEW before \in [Views -> Lists], Remade(vs, before)
    PROVE  /\ list' \in [Views -> Lists] /\ watched' \in [Views -> SUBSET Users]
           /\ \A v \in Views :
                /\ watched'[v] \subseteq Present(table')
                /\ v \in follows' /\ v \in vs =>
                      /\ list'[v] = Current(v)' /\ watched'[v] = Present(table')
                      /\ KnowsWatched(v)'
                /\ v \in follows' /\ v \notin vs =>
                      list'[v] = before[v] /\ watched'[v] = watched[v] \cap Present(table')
<1>1. /\ list' = [v \in Views |-> IF v \notin follows' THEN Empty
                                  ELSE IF v \in vs THEN Current(v)' ELSE before[v]]
      /\ watched' = [v \in Views |-> IF v \notin follows' THEN {}
                                     ELSE IF v \in vs THEN Present(table')
                                     ELSE watched[v] \cap Present(table')]
  BY DEF Remade, Watch
<1>2. ASSUME NEW v \in Views
      PROVE  /\ Current(v)' \in Lists /\ Present(table') \in SUBSET Users
             /\ ShowsOrCounts(Current(v)', table', LabelsNow(v)')
  <2>1. PICK t \in Table, w \in SUBSET Users : t = table' /\ w = wrote'
    OBVIOUS
  <2>2. PICK off : off = offline'[v]
    OBVIOUS
  <2>3. PICK inact : inact = inactive'[v]
    OBVIOUS
  <2>4. /\ Current(v)' = Listed(t, w, off, inact)
        /\ LabelsNow(v)' = Labels(t, w, off, inact)
    BY <2>1, <2>2, <2>3 DEF Current, LabelsNow
  <2>5. Active(table') = Active(t) /\ Present(table') = Present(t)
    BY <2>1
  <2> QED
    BY <2>1, <2>4, <2>5, ListedFacts
<1>3. Empty \in Lists
  BY DEF Empty, Lists
<1>4. list' \in [Views -> Lists] /\ watched' \in [Views -> SUBSET Users]
  BY <1>1, <1>2, <1>3 DEF ListFacts
<1>5. ASSUME NEW v \in Views, v \in follows', v \in vs
      PROVE  list'[v] = Current(v)' /\ watched'[v] = Present(table')
  BY <1>1, <1>5
<1>6. ASSUME NEW v \in Views, v \in follows', v \in vs
      PROVE  KnowsWatched(v)'
  BY <1>2, <1>5, <1>6 DEF KnowsWatched, ShowsOrCounts
<1>7. ASSUME NEW v \in Views, v \in follows', v \notin vs
      PROVE  list'[v] = before[v] /\ watched'[v] = watched[v] \cap Present(table')
  BY <1>1, <1>7
<1>8. ASSUME NEW v \in Views
      PROVE  watched'[v] \subseteq Present(table')
  BY <1>1
<1> QED
  BY <1>4, <1>5, <1>6, <1>7, <1>8

\* The closing of the Connection takes the labels away, or leaves the list.
LEMMA BeforeFacts ==
    ASSUME ListFacts
    PROVE  /\ Before \in [Views -> Lists]
           /\ \A v \in Views : Before[v] = list[v] \/ (link' = "closed" /\ Before[v] = Empty)
<1>1. Before = [v \in Views |-> IF link' = "closed" /\ link # "closed"
                               THEN clear(list[v]) ELSE list[v]]
  BY DEF Before
<1>2. Empty \in Lists /\ list \in [Views -> Lists]
  BY DEF Empty, Lists, ListFacts
<1>3. ASSUME NEW v \in Views
      PROVE  clear(list[v]) = list[v] \/ clear(list[v]) = Empty
  BY DEF clear
<1>4. ASSUME NEW v \in Views
      PROVE  /\ Before[v] \in Lists
             /\ Before[v] = list[v] \/ (link' = "closed" /\ Before[v] = Empty)
  BY <1>1, <1>2, <1>3
<1> QED
  BY <1>1, <1>4

-----------------------------------------------------------------------------
(* The lists stay current *)

\* What a step of the views may do to a document that is ready, or becomes so: a
\* view that becomes the document's is made late, and a Connection that has closed
\* is not replaced.
InTime ==
    /\ ready' => load' # "Unloaded"
    /\ ready' /\ ~ready => documentReady
    /\ ready /\ ready' => /\ follows' \ late' \subseteq follows \ late
                          /\ link = "closed" => link' = "closed"

LEMMA WhileReady ==
    ASSUME IInv, ReadyInv, Next
    PROVE  InTime
<1> USE DEF IInv, DocumentInv, ReadyInv, document, ui, undo, InTime, documentReady
<1>1. CASE Loading
  BY <1>1 DEF Loading, Document!Load, Document!LoadStates
<1>2. CASE GivenUp
  BY <1>2 DEF GivenUp, Document!GiveUp
<1>3. CASE textOpPerformed
  BY <1>3 DEF textOpPerformed, updateUndoRedoActions
<1>4. CASE BecameManaged
  BY <1>4 DEF BecameManaged, Document!Manage
<1>5. CASE BecameReady
  BY <1>5 DEF BecameReady, Document!Complete
<1>6. CASE Other
  BY <1>6 DEF Other, Document!OpenOrClose
<1>7. ASSUME NEW next \in {"inf", "temp", "closed"}, LetGo(next)
      PROVE  ~ready'
  BY <1>7 DEF LetGo, Document!Unmanage
<1>8. ASSUME NEW v \in Views, addView(v)
      PROVE  InTime
  <2>1. /\ ready' = ready /\ load' = load /\ link' = link
        /\ late' = IF ready THEN late \cup {v} ELSE late
        /\ Construct(v)
    BY <1>8 DEF addView
  <2>2. follows' \subseteq follows \cup {v}
    BY <2>1 DEF Construct
  <2> QED
    BY <2>1, <2>2
<1>9. ASSUME NEW v \in Views, removeView(v)
      PROVE  InTime
  BY <1>9 DEF removeView
<1>10. ASSUME NEW v \in Views,
              undoTriggered(v) \/ changeUserActionClicked(v) \/ saveCopyActionClicked(v)
       PROVE  InTime
  BY <1>10 DEF undoTriggered, updateUndoRedoActions, changeUserActionClicked,
     saveCopyActionClicked
<1>11. ASSUME NEW v \in Views, disconnectActionClicked(v)
       PROVE  InTime
  BY <1>11, <1>7 DEF disconnectActionClicked, BecameUnmanaged, Crash
<1>12. ASSUME NEW v \in Views, NEW accepted \in BOOLEAN, Left(v, accepted)
       PROVE  InTime
  BY <1>12, <1>7 DEF Left, changeUserName, Crash
<1>13. ASSUME NEW status \in DOMAIN Says, connectionStatusChanged(status)
       PROVE  InTime
  BY <1>13 DEF connectionStatusChanged
<1> QED
  BY <1>1, <1>2, <1>3, <1>4, <1>5, <1>6, <1>7, <1>8, <1>9, <1>10, <1>11, <1>12, <1>13
     DEF Next, BecameUnmanaged

\* A step of the session keeps the lists current if it changes nothing of what a
\* list shows that is not made anew.
LEMMA SessionStep ==
    ASSUME IInv, ListsInv, UNCHANGED <<vars, tabled, told>>,
           table' \in Table, wrote' \in SUBSET Users,
           offline' \in [Views -> BOOLEAN], inactive' \in [Views -> BOOLEAN],
           NEW vs, userTableChanged(vs),
           ready => \A v \in (follows \ late) \ vs :
               Present(table') = Present(table) /\ Current(v)' = Current(v),
           ready => \A v \in follows \ vs : \A u \in watched[v] \cap Present(table') :
               /\ u \in LabelsNow(v)' <=> u \in LabelsNow(v)
               /\ u \in Active(table') <=> u \in Active(table)
    PROVE  ListsInv'
<1>1. follows \subseteq Views
  BY TypeFacts DEF IInv, ViewsInv, Facts
<1>2. /\ follows' = follows /\ late' = late /\ ready' = ready /\ load' = load
      /\ link' = link /\ told' = told /\ tabled' = tabled
  BY DEF vars, document, ui
<1>3. ListFacts
  BY DEF ListsInv
<1>m. Remade(vs, list) /\ list \in [Views -> Lists]
  BY <1>3 DEF userTableChanged, ListFacts
<1>4. ListFacts'
  BY <1>2, <1>3, <1>m, Made DEF ListFacts
<1>5. ReadyInv'
  BY <1>2 DEF ListsInv, ReadyInv
<1>6. ASSUME ready, NEW v \in follows \ late
      PROVE  /\ v \in told /\ watched'[v] = Present(table')
             /\ list'[v] = Current(v)' \/ ClearedNow(v)'
  <2>1. /\ v \in told /\ watched[v] = Present(table)
        /\ list[v] = Current(v) \/ ClearedNow(v)
    BY <1>6 DEF ListsInv, CurrentInv
  <2>2. CASE v \in vs
    BY <1>1, <1>2, <1>3, <1>m, <1>6, <2>1, <2>2, Made
  <2>3. CASE v \notin vs
    <3>1. list'[v] = list[v] /\ watched'[v] = watched[v] \cap Present(table')
      BY <1>1, <1>2, <1>3, <1>m, <1>6, <2>3, Made
    <3>2. Present(table') = Present(table) /\ Current(v)' = Current(v)
      BY <1>6, <2>3
    <3>3. ClearedNow(v) => ClearedNow(v)'
      BY <1>2, <3>1 DEF ClearedNow, Empty
    <3> QED
      BY <2>1, <3>1, <3>2, <3>3
  <2> QED
    BY <2>2, <2>3
<1>7. ASSUME ready, NEW v \in follows
      PROVE  KnowsWatched(v)' \/ ClearedNow(v)'
  <2>1. CASE v \in vs
    BY <1>1, <1>2, <1>3, <1>m, <1>7, <2>1, Made
  <2>2. CASE v \notin vs
    <3>1. list'[v] = list[v] /\ watched'[v] = watched[v] \cap Present(table')
      BY <1>1, <1>2, <1>3, <1>m, <1>7, <2>2, Made
    <3>2. KnowsWatched(v) \/ ClearedNow(v)
      BY <1>7 DEF ListsInv, KnownInv
    <3>3. ClearedNow(v) => ClearedNow(v)'
      BY <1>2, <3>1 DEF ClearedNow, Empty
    <3>4. KnowsWatched(v) => KnowsWatched(v)'
      BY <1>7, <2>2, <3>1 DEF KnowsWatched
    <3> QED
      BY <3>2, <3>3, <3>4
  <2> QED
    BY <2>1, <2>2
<1> QED
  BY <1>2, <1>4, <1>5, <1>6, <1>7 DEF ListsInv, CurrentInv, KnownInv

\* Every step keeps the lists current.
LEMMA ListsInductive == IInv /\ ListsInv /\ [ListsNext]_<<vars, users, lists>> => ListsInv'
<1> SUFFICES ASSUME IInv, ListsInv, [ListsNext]_<<vars, users, lists>>
             PROVE  ListsInv'
  OBVIOUS
<1>f. ListFacts
  BY DEF ListsInv
<1>v. /\ follows \subseteq Views
      /\ \A v \in Views : v \in follows <=> bar[v] # "none"
  BY TypeFacts DEF IInv, ViewsInv, Facts
<1>1. CASE ViewStep
  <2>1. /\ Next
        /\ table' = IF load' = "Unloaded" THEN [u \in Users |-> "absent"] ELSE table
        /\ wrote' = IF managed' THEN wrote ELSE {}
        /\ offline' = [v \in Views |-> v \in follows' /\ offline[v]]
        /\ inactive' = [v \in Views |-> v \notin follows' \/ inactive[v]]
        /\ told' = IF documentReady THEN follows' ELSE told \cap follows'
        /\ tabled' = (tabled \cap follows') \cup Given
        /\ Remade(Given, Before)
    BY <1>1 DEF ViewStep
  <2>2. InTime /\ IInv'
    BY <2>1, WhileReady, Inductive DEF ListsInv
  <2>3. follows' \subseteq Views
    <3>1. /\ {hears, follows, usable, saveable, shareable, overlay, late, lost,
               undoes, undoLost}' \subseteq SUBSET shown'
          /\ shown' \subseteq Views
      BY <2>2 DEF IInv, ViewsInv, TypeOK
    <3> QED
      BY <3>1
  <2>4. /\ table' \in Table /\ wrote' \in SUBSET Users
        /\ offline' \in [Views -> BOOLEAN] /\ inactive' \in [Views -> BOOLEAN]
        /\ told' \subseteq follows' /\ tabled' \subseteq follows'
    <3>1. table' \in Table /\ wrote' \in SUBSET Users
      BY <2>1, <1>f DEF ListFacts, Table
    <3>2. offline' \in [Views -> BOOLEAN] /\ inactive' \in [Views -> BOOLEAN]
      BY <2>1
    <3>3. told' \subseteq follows' /\ tabled' \subseteq follows'
      BY <2>1, <1>f DEF ListFacts, Given
    <3> QED
      BY <3>1, <3>2, <3>3
  <2>b. /\ Before \in [Views -> Lists]
        /\ \A v \in Views : Before[v] = list[v] \/ (link' = "closed" /\ Before[v] = Empty)
    BY <1>f, BeforeFacts
  <2> DEFINE vs == Given
             before == Before
  <2>m. Remade(vs, before) /\ before \in [Views -> Lists]
    BY <2>1, <2>b
  <2> HIDE DEF vs, before
  <2>5. ListFacts'
    BY <2>1, <2>4, <2>m, <1>f, Made DEF ListFacts
  <2>6. ASSUME ready', NEW v \in follows', v \notin Given
        PROVE  /\ ready /\ v \in follows /\ ~documentReady
               /\ list'[v] = list[v] \/ (link' = "closed" /\ list'[v] = Empty)
               /\ link = "closed" => link' = "closed"
               /\ watched'[v] = watched[v]
               /\ table' = table /\ Current(v)' = Current(v) /\ LabelsNow(v)' = LabelsNow(v)
    <3>1. ready /\ ~documentReady /\ (link = "closed" => link' = "closed")
      BY <2>2, <2>6 DEF InTime, Given
    <3>3. v \in follows
      BY <2>6, <3>1 DEF Given
    <3>4. load' # "Unloaded" /\ managed'
      BY <2>2, <2>6 DEF InTime, IInv, DocumentInv
    <3>5. table' = table /\ wrote' = wrote
      BY <2>1, <3>4
    <3>6. offline'[v] = offline[v] /\ inactive'[v] = inactive[v]
      BY <2>1, <2>3, <2>6, <1>f DEF ListFacts
    <3>7. list'[v] = before[v] /\ watched'[v] = watched[v] \cap Present(table')
      BY <2>3, <2>4, <2>m, <2>6, <1>f, Made DEF vs
    <3>8. watched[v] \subseteq Present(table')
      BY <2>3, <2>6, <3>5, <1>f DEF ListFacts
    <3>9. Current(v)' = Current(v) /\ LabelsNow(v)' = LabelsNow(v)
      BY <3>5, <3>6 DEF Current, LabelsNow
    <3>10. list'[v] = list[v] \/ (link' = "closed" /\ list'[v] = Empty)
      BY <2>3, <2>6, <2>b, <3>7 DEF before
    <3> QED
      BY <3>1, <3>3, <3>5, <3>7, <3>8, <3>9, <3>10
  <2>c. ASSUME ready', NEW v \in follows', v \notin Given, ClearedNow(v)
        PROVE  ClearedNow(v)'
    BY <2>6, <2>c DEF ClearedNow, Empty
  <2>7. ASSUME ready', NEW v \in follows', v \in Given
        PROVE  list'[v] = Current(v)' /\ watched'[v] = Present(table') /\ KnowsWatched(v)'
    BY <2>3, <2>4, <2>m, <2>7, <1>f, Made DEF vs
  <2>8. ASSUME ready', NEW v \in follows' \ late'
        PROVE  /\ v \in told' /\ watched'[v] = Present(table')
               /\ list'[v] = Current(v)' \/ ClearedNow(v)'
    <3>1. v \in told'
      <4>1. CASE documentReady
        BY <2>1, <2>8, <4>1
      <4>2. CASE ~documentReady
        <5>1. ready /\ v \in follows \ late
          BY <2>2, <2>8, <4>2 DEF InTime
        <5> QED
          BY <2>1, <2>8, <4>2, <5>1 DEF ListsInv, CurrentInv
      <4> QED
        BY <4>1, <4>2
    <3>2. CASE v \in Given
      BY <2>7, <2>8, <3>1, <3>2
    <3>3. CASE v \notin Given
      <4>1. ready /\ v \in follows \ late
        BY <2>2, <2>6, <2>8, <3>3 DEF InTime
      <4>2. watched[v] = Present(table) /\ (list[v] = Current(v) \/ ClearedNow(v))
        BY <4>1 DEF ListsInv, CurrentInv
      <4>3. list'[v] = list[v] \/ ClearedNow(v)'
        BY <2>6, <2>8, <3>3 DEF ClearedNow, Empty
      <4>4. /\ watched'[v] = watched[v] /\ table' = table /\ Current(v)' = Current(v)
        BY <2>6, <2>8, <3>3
      <4> QED
        BY <2>8, <2>c, <3>1, <3>3, <4>2, <4>3, <4>4
    <3> QED
      BY <3>2, <3>3
  <2>9. ASSUME ready', NEW v \in follows'
        PROVE  KnowsWatched(v)' \/ ClearedNow(v)'
    <3>1. CASE v \in Given
      BY <2>7, <2>9, <3>1
    <3>2. CASE v \notin Given
      <4>1. KnowsWatched(v) \/ ClearedNow(v)
        BY <2>6, <2>9, <3>2 DEF ListsInv, KnownInv
      <4>2. list'[v] = list[v] \/ ClearedNow(v)'
        BY <2>6, <2>9, <3>2 DEF ClearedNow, Empty
      <4>3. list'[v] = list[v] /\ KnowsWatched(v) => KnowsWatched(v)'
        BY <2>6, <2>9, <3>2 DEF KnowsWatched
      <4> QED
        BY <2>9, <2>c, <3>2, <4>1, <4>2, <4>3
    <3> QED
      BY <3>1, <3>2
  <2>10. ReadyInv'
    <3>1. ASSUME ready', NEW v \in follows'
          PROVE  v \in tabled'
      <4>1. CASE v \in Given
        BY <2>1, <4>1
      <4>2. CASE v \notin Given
        BY <2>1, <2>6, <3>1, <4>2 DEF ListsInv, ReadyInv
      <4> QED
        BY <4>1, <4>2
    <3> QED
      BY <2>2, <3>1 DEF ReadyInv, InTime
  <2> QED
    BY <2>5, <2>8, <2>9, <2>10 DEF ListsInv, CurrentInv, KnownInv
<1>2. ASSUME NEW w \in Users, usersChanged(w)
      PROVE  ListsInv'
  <2>1. PICK s \in {"absent", "active"} :
          /\ (s = "absent") # (table[w] = "absent")
          /\ table' = [table EXCEPT ![w] = s]
    BY <1>2 DEF usersChanged
  <2>2. UNCHANGED <<vars, wrote, tabled, told, offline, inactive>> /\ userTableChanged(told)
    BY <1>2 DEF usersChanged
  <2>3. table' \in Table
    BY <2>1, <1>f DEF ListFacts, Table
  <2>4. ready => (follows \ late) \ told = {}
    BY DEF ListsInv, CurrentInv
  <2>5. ASSUME NEW v \in follows, NEW u \in watched[v] \cap Present(table')
        PROVE  /\ u \in LabelsNow(v)' <=> u \in LabelsNow(v)
               /\ u \in Active(table') <=> u \in Active(table)
    <3>1. u \in Users /\ table[u] # "absent" /\ table'[u] # "absent"
      BY <2>5, <1>v, <1>f DEF ListFacts, Present
    <3>2. table'[u] = table[u]
      BY <2>1, <3>1, <1>f DEF ListFacts, Table
    <3> QED
      BY <2>2, <3>1, <3>2 DEF LabelsNow, Labels, Present, Active
  <2> QED
    BY <2>2, <2>3, <2>4, <2>5, <1>f, SessionStep DEF ListFacts
<1>3. ASSUME NEW w \in Users, statusChanged(w)
      PROVE  ListsInv'
  <2> DEFINE hear == {v \in follows : w \in watched[v]}
  <2>1. /\ table[w] # "absent"
        /\ table' = [table EXCEPT ![w] = IF @ = "active" THEN "away" ELSE "active"]
        /\ UNCHANGED <<vars, wrote, tabled, told, offline, inactive>> /\ userTableChanged(hear)
    BY <1>3 DEF statusChanged
  <2>2. table' \in Table
    BY <2>1, <1>f DEF ListFacts, Table
  <2>3. ASSUME ready, NEW v \in (follows \ late) \ hear
        PROVE  FALSE
    <3>1. watched[v] = Present(table)
      BY <2>3 DEF ListsInv, CurrentInv
    <3> QED
      BY <2>1, <2>3, <3>1 DEF Present
  <2>4. ASSUME NEW v \in follows \ hear, NEW u \in watched[v] \cap Present(table')
        PROVE  /\ u \in LabelsNow(v)' <=> u \in LabelsNow(v)
               /\ u \in Active(table') <=> u \in Active(table)
    <3>1. u \in Users /\ u # w
      BY <2>4, <1>v DEF Present
    <3>2. table'[u] = table[u]
      BY <2>1, <3>1, <1>f DEF ListFacts, Table
    <3> QED
      BY <2>1, <3>1, <3>2 DEF LabelsNow, Labels, Present, Active
  <2> HIDE DEF hear
  <2> QED
    BY <2>1, <2>2, <2>3, <2>4, <1>f, SessionStep DEF ListFacts
<1>4. ASSUME NEW w \in Users, colorTableChanged(w)
      PROVE  ListsInv'
  <2>1. /\ wrote' = wrote \cup {w} /\ userTableChanged(tabled)
        /\ UNCHANGED <<vars, table, tabled, told, offline, inactive>>
    BY <1>4 DEF colorTableChanged
  <2>2. ready => follows \ tabled = {}
    BY DEF ListsInv, ReadyInv
  <2> QED
    BY <2>1, <2>2, <1>f, SessionStep DEF ListFacts
<1>5. ASSUME NEW w \in Views, showOffline(w) \/ showInactive(w)
      PROVE  ListsInv'
  <2>1. UNCHANGED <<vars, users, tabled, told>> /\ userTableChanged({w} \cap tabled)
    BY <1>5 DEF showOffline, showInactive
  <2>2. offline' \in [Views -> BOOLEAN] /\ inactive' \in [Views -> BOOLEAN]
    BY <1>5, <1>f DEF showOffline, showInactive, ListFacts
  <2>3. ASSUME ready, NEW v \in follows \ ({w} \cap tabled)
        PROVE  Current(v)' = Current(v) /\ LabelsNow(v)' = LabelsNow(v)
    <3>0. v # w
      BY <2>3 DEF ListsInv, ReadyInv
    <3>1. offline'[v] = offline[v] /\ inactive'[v] = inactive[v]
      BY <1>5, <1>f, <1>v, <3>0 DEF showOffline, showInactive, ListFacts
    <3> QED
      BY <2>1, <3>1 DEF users, Current, LabelsNow
  <2>4. table' = table /\ wrote' = wrote
    BY <2>1 DEF users
  <2> QED
    BY <2>1, <2>2, <2>3, <2>4, <1>f, SessionStep DEF ListFacts
<1>6. CASE UNCHANGED <<vars, users, lists>>
  BY <1>6 DEF vars, document, ui, undo, users, lists, ListsInv, ListFacts, ReadyInv,
     CurrentInv, KnownInv, KnowsWatched, Current, LabelsNow, ClearedNow, Empty
<1> QED
  BY <1>1, <1>2, <1>3, <1>4, <1>5, <1>6 DEF ListsNext

\* Once the document is ready, no change of what a list shows goes unheard by a
\* view made in time; one made late is right about the users it knows.  Only the
\* end of the Connection may leave a list empty (CollaborativeStatusBar::
\* connectionStatusChanged, HorizontalUsersList::userTableChanged, clear).
THEOREM ListsAreCurrent == ListsSpec => []ListsCurrent
<1>1. ListsInit => IInv /\ ListsInv
  <2> SUFFICES ASSUME ListsInit PROVE IInv /\ ListsInv
    OBVIOUS
  <2>1. IInv
    BY Initially DEF ListsInit
  <2>2. ~ready /\ follows = {}
    BY DEF ListsInit, Init, Document!Init
  <2>3. ListFacts
    BY <2>2 DEF ListsInit, ListFacts, Table, Lists, Empty
  <2> QED
    BY <2>1, <2>2, <2>3 DEF ListsInv, ReadyInv, CurrentInv, KnownInv
<1>2. IInv /\ ListsInv /\ [ListsNext]_<<vars, users, lists>> => IInv' /\ ListsInv'
  <2>1. [ListsNext]_<<vars, users, lists>> => [Next]_vars
    BY DEF ListsNext, ViewStep, usersChanged, statusChanged, colorTableChanged,
       showOffline, showInactive
  <2> QED
    BY <2>1, Inductive, ListsInductive
<1>3. IInv /\ ListsInv => ListsCurrent
  <2> SUFFICES ASSUME IInv, ListsInv PROVE ListsCurrent
    OBVIOUS
  <2>1. ListsTypeOK
    BY DEF ListsInv, ListFacts, ListsTypeOK, Table, Lists
  <2>2. follows \subseteq Views
    BY TypeFacts DEF IInv, ViewsInv, Facts
  <2>3. ASSUME ready, NEW v \in follows, ~ClearedNow(v),
               list[v].counted \cup Current(v).counted = {}
        PROVE  /\ list[v].shown \cap watched[v] = Current(v).shown \cap watched[v]
               /\ list[v].online \cap watched[v] = Current(v).online \cap watched[v]
    <3>1. KnowsWatched(v) /\ list[v].counted = {} /\ Current(v).counted = {}
      BY <2>3 DEF ListsInv, KnownInv
    <3>2. ShowsOrCounts(Current(v), table, LabelsNow(v)) /\ watched[v] \subseteq Present(table)
      BY <2>2, <2>3, ListedFacts DEF ListsInv, ListFacts, Current, LabelsNow
    <3> QED
      BY <3>1, <3>2 DEF KnowsWatched, ShowsOrCounts
  <2> QED
    BY <2>1, <2>3 DEF ListsCurrent, ListsInv, CurrentInv, ClearedNow
<1> QED
  BY <1>1, <1>2, <1>3, PTL DEF ListsSpec
=============================================================================
