----------------------------- MODULE PluginView -----------------------------
(***************************************************************************)
(* The views of a collaborative document: what the plugin adds to the      *)
(* editor's views (kte-plugin/ktecollaborativepluginview.cpp), made and    *)
(* told of events by the plugin (ktecollaborativeplugin.cpp:239-266).      *)
(*                                                                         *)
(* The document is Opening, which ManagedDocument implements; every step   *)
(* of it is one step together with the slots of all the views.  A view may *)
(* be made at any time, and a dialog of it runs the event loop.  The       *)
(* InfTextDocument takes the undo action of each view from the editor      *)
(* (common/document.cpp:681-722); it exists while load # "Unloaded".       *)
(*                                                                         *)
(* The document's Connection may be shared with others (PluginConnections):*)
(* a document may be given one that is at any stage, and subscribes when   *)
(* it is open.  When it has closed the plugin deletes it, and the document *)
(* stays as it was (ktecollaborativeplugin.cpp:233-237); a view that is    *)
(* made then reads its status through a dangling pointer.                  *)
(***************************************************************************)
CONSTANT Views   \* the views the editor may show of the document

VARIABLES url, managed, load, ready
Document == INSTANCE Opening

VARIABLES
    shown,     \* views that exist
    link,      \* how far the document's Connection has come: "made", with the
               \* host looked up, "opening", "open", "closing", or "closed"
    hears,     \* views connected to newManagedDocument()
    follows,   \* views whose m_document is the ManagedDocument
    usable,    \* views whose m_actionsRequiringConnection are enabled
    saveable,  \* views whose built-in save action is enabled
    shareable, \* views whose share action is enabled
    bar,       \* what the status bar of a view says, "none" without one
    overlay,   \* views whose m_statusOverlay is set
    dialog,    \* the dialog a view is in: "none", "name" or "copy"
    undoes,    \* views whose undo action is in undoActions, and calls undo()
    undoLost,  \* views whose undo action calls nothing any more
    dangling,  \* undoActions has the action of a view that was closed
    \* for the properties
    late,      \* views made when the document was ready already
    lost,      \* views whose document was let go while they were in a dialog
    crashed    \* "no"; or a null m_document was used, in a "dialog" or "other",
               \* a deleted action, in the "undo" list, or a deleted "connection"

document == <<url, managed, load, ready>>
ui   == <<link, usable, saveable, shareable, bar, overlay>>
undo == <<undoes, undoLost, dangling>>
vars == <<document, shown, hears, follows, ui, undo, dialog, late, lost, crashed>>

\* What connectionStatusChanged() of a status bar says of a Connection, which
\* counts as closed until its host is known
Says == [made |-> "disconnected", opening |-> "connecting", open |-> "synchronizing",
         closing |-> "disconnecting", closed |-> "disconnected"]

Texts == {"none", "disconnected", "connecting", "synchronizing", "disconnecting", "ready"}

TypeOK ==
    /\ {hears, follows, usable, saveable, shareable, overlay, late, lost,
        undoes, undoLost} \subseteq SUBSET shown
    /\ shown \subseteq Views /\ dangling \in BOOLEAN
    /\ link \in DOMAIN Says /\ bar \in [Views -> Texts]
    /\ dialog \in [Views -> {"none", "name", "copy"}]
    /\ crashed \in {"no", "dialog", "other", "undo", "connection"}
    /\ \A v \in Views : v \in follows <=> bar[v] # "none"

Init ==
    /\ Document!Init /\ link = "closed"
    /\ shown = {} /\ hears = {} /\ follows = {}
    /\ usable = {} /\ saveable = {} /\ shareable = {}
    /\ bar = [v \in Views |-> "none"] /\ overlay = {}
    /\ dialog = [v \in Views |-> "none"]
    /\ undoes = {} /\ undoLost = {} /\ dangling = FALSE
    /\ late = {} /\ lost = {} /\ crashed = "no"

-----------------------------------------------------------------------------
(* What the plugin and the document tell the views *)

Put(vs, text) == [v \in Views |-> IF v \in vs THEN text ELSE bar[v]]

\* enableUi() of the views vs: a status bar, which is told the status of the
\* Connection, an overlay while the document is loading, and no sharing of what
\* is shared
enableUi(vs, status) ==
    /\ overlay' = IF load # "Complete" THEN overlay \cup vs ELSE overlay
    /\ bar' = Put(vs, IF ready \/ load = "Complete" THEN "ready" ELSE Says[status])
    /\ shareable' = shareable \ vs

disableUi(vs) ==
    /\ overlay' = overlay \ vs /\ bar' = Put(vs, "none")
    /\ shareable' = shareable \cup vs

\* Faulty: only the built-in save changes, or only the other actions do
DisableOnlySave(vs) == saveable' = saveable \cup vs /\ UNCHANGED usable
EnableAllActions(vs) == usable' = usable \cup vs /\ UNCHANGED saveable

disableActions(vs) == usable' = usable \ vs /\ saveable' = saveable \cup vs
enableActions(vs)  == usable' = usable \cup vs /\ saveable' = saveable \ vs

\* newManagedDocument(): documentBecameManaged() of the views that hear it
BecameManaged ==
    /\ Document!Manage
    /\ follows' = follows \cup hears
    /\ link' \in DOMAIN Says \ {"closed"}
    /\ enableUi(hears, link')
    /\ UNCHANGED <<shown, hears, usable, saveable, undo, dialog, late, lost, crashed>>

\* The undo actions of its views were disconnected from the editor for good
TextDocumentDeleted ==
    /\ undoes' = {} /\ undoLost' = undoLost \cup undoes /\ dangling' = FALSE

\* removedManagedDocument(): documentBecameUnmanaged() of the views that follow
LetGo(next) ==
    /\ Document!Unmanage(next)
    /\ link' = "closed"
    /\ follows' = {} /\ disableUi(follows) /\ disableActions(follows)
    /\ TextDocumentDeleted
    /\ UNCHANGED <<shown, hears, late>>

BecameUnmanaged(next) ==
    /\ LetGo(next)
    /\ lost' = lost \cup {v \in follows : dialog[v] # "none"}
    /\ UNCHANGED <<dialog, crashed>>

\* documentReady(); the overlay fades away by itself
BecameReady ==
    /\ Document!Complete /\ link = "open"
    /\ bar' = Put(follows, "ready") /\ overlay' = overlay \ follows
    /\ enableActions(follows)
    /\ UNCHANGED <<link, shown, hears, follows, shareable, undo, dialog, late, lost,
                   crashed>>

\* The actions in the list are told whether there is anything to undo now
slotCanUndo == crashed' = IF dangling THEN "undo" ELSE crashed

\* A text document is made when the subscription is done, and goes through its
\* states; faulty: it takes the undo actions only of views made later
TakeLater ==
    /\ Document!Load /\ link \notin {"made", "opening"}
    /\ UNCHANGED <<shown, hears, follows, ui, undo, dialog, late, lost, crashed>>

Loading ==
    /\ Document!Load /\ link \notin {"made", "opening"}
    /\ IF load = "Unloaded"
       THEN undoes' = shown /\ undoLost' = {} /\ dangling' = FALSE
       ELSE UNCHANGED undo
    /\ IF load = "Synchronizing" /\ load' = "Joining" THEN slotCanUndo ELSE UNCHANGED crashed
    /\ UNCHANGED <<shown, hears, follows, ui, dialog, late, lost>>

\* statusChanged() of the Connection, before the plugin deletes it
connectionStatusChanged(status) ==
    /\ managed
    /\ \/ link = "made" /\ status = "opening"
       \/ link = "opening" /\ status \in {"open", "closing", "closed"}
       \/ link = "open" /\ status \in {"closing", "closed"}
       \/ link = "closing" /\ status = "closed"
    /\ link' = status /\ bar' = Put(follows, Says[status])
    /\ UNCHANGED <<document, shown, hears, follows, usable, saveable, shareable, overlay,
                   undo, dialog, late, lost, crashed>>

GivenUp ==
    /\ Document!GiveUp /\ TextDocumentDeleted
    /\ UNCHANGED <<shown, hears, follows, ui, dialog, late, lost, crashed>>

Other ==
    /\ Document!OpenOrClose
    /\ UNCHANGED <<shown, hears, follows, ui, undo, dialog, late, lost, crashed>>

-----------------------------------------------------------------------------
(* Views come and go *)

\* The constructor: disableActions(), and documentBecameManaged() for a document
\* that is managed already
Construct(v) ==
    /\ shown' = shown \cup {v} /\ disableActions({v})
    /\ IF managed
       THEN /\ follows' = follows \cup {v}
            /\ \E status \in DOMAIN Says :
                  (link # "closed" => status = link) /\ enableUi({v}, status)
       ELSE /\ shareable' = IF url = "inf" THEN shareable ELSE shareable \cup {v}
            /\ UNCHANGED <<follows, bar, overlay>>

\* Only a view made without a document is connected to newManagedDocument().  If
\* the Connection was deleted, the program crashes, or goes on with any status.
addView(v) ==
    /\ v \notin shown
    /\ Construct(v)
    /\ hears' = IF managed THEN hears ELSE hears \cup {v}
    /\ late' = IF ready THEN late \cup {v} ELSE late
    /\ undoes' = IF load = "Unloaded" THEN undoes ELSE undoes \cup {v}
    /\ \/ UNCHANGED crashed
       \/ managed /\ link = "closed" /\ crashed' = "connection"
    /\ UNCHANGED <<document, link, undoLost, dangling, dialog, lost>>

removeView(v) ==
    /\ v \in shown /\ dialog[v] = "none"
    /\ shown' = shown \ {v} /\ hears' = hears \ {v} /\ follows' = follows \ {v}
    /\ usable' = usable \ {v} /\ saveable' = saveable \ {v}
    /\ shareable' = shareable \ {v} /\ overlay' = overlay \ {v}
    /\ bar' = Put({v}, "none") /\ late' = late \ {v} /\ lost' = lost \ {v}
    /\ undoes' = undoes \ {v} /\ undoLost' = undoLost \ {v}
    /\ dangling' = (dangling \/ v \in undoes)
    /\ UNCHANGED <<document, link, dialog, crashed>>

-----------------------------------------------------------------------------
(* The actions of the "Collaborative" menu; a dialog blocks them *)

Clicked(v) == v \in usable /\ \A w \in Views : dialog[w] = "none"

\* m_document is used without looking whether it is null; what the model does
\* after the crash does not matter
Crash(v) ==
    /\ crashed' = IF v \in lost THEN "dialog" ELSE "other"
    /\ UNCHANGED <<document, shown, hears, follows, ui, undo, late, lost>>

disconnectActionClicked(v) ==
    /\ Clicked(v)
    /\ IF v \in follows THEN BecameUnmanaged("temp")
       ELSE Crash(v) /\ UNCHANGED dialog

\* Without a document, or without a user in it, nothing happens
changeUserActionClicked(v) ==
    /\ Clicked(v) /\ v \in follows /\ ready
    /\ dialog' = [dialog EXCEPT ![v] = "name"]
    /\ UNCHANGED <<document, shown, hears, follows, ui, undo, late, lost, crashed>>

\* It asks for a path unless it has one from the last time
saveCopyActionClicked(v) ==
    /\ Clicked(v) /\ v \in follows
    /\ dialog' = [dialog EXCEPT ![v] = "copy"]
    /\ UNCHANGED <<document, shown, hears, follows, ui, undo, late, lost, crashed>>

\* The dialog is left, with or without an answer.  changeUserName() closes the
\* document and opens it again, which BecameManaged completes; the copy changes
\* nothing here.  Either uses m_document as it is now.
changeUserName(v) ==
    IF dialog[v] = "name" THEN LetGo("inf")
    ELSE UNCHANGED <<document, shown, hears, follows, ui, undo, late>>

Left(v, accepted) ==
    /\ dialog[v] # "none"
    /\ dialog' = [dialog EXCEPT ![v] = "none"]
    /\ IF accepted /\ v \notin follows THEN Crash(v)
       ELSE /\ lost' = lost \ {v}
            /\ UNCHANGED crashed
            /\ IF accepted THEN changeUserName(v)
               ELSE UNCHANGED <<document, shown, hears, follows, ui, undo, late>>

-----------------------------------------------------------------------------
(* Edits of the local user and undo                                          *)

updateUndoRedoActions ==
    /\ load = "Complete"
    /\ slotCanUndo
    /\ UNCHANGED <<document, shown, hears, follows, ui, undo, dialog, late, lost>>

textOpPerformed == shown # {} /\ updateUndoRedoActions

undoTriggered(v) == v \in undoes /\ updateUndoRedoActions

Next ==
    \/ Loading \/ GivenUp \/ textOpPerformed
    \/ BecameManaged \/ BecameReady \/ Other
    \/ \E status \in DOMAIN Says : connectionStatusChanged(status)
    \/ \E next \in {"inf", "temp", "closed"} : BecameUnmanaged(next)
    \/ \E v \in Views :
          \/ addView(v) \/ removeView(v) \/ undoTriggered(v) \/ disconnectActionClicked(v)
          \/ changeUserActionClicked(v) \/ saveCopyActionClicked(v)
          \/ \E accepted \in BOOLEAN : Left(v, accepted)

Spec == Init /\ [][Next]_vars

-----------------------------------------------------------------------------
(* Properties *)

\* The actions that need a document are never offered without one: the slots
\* use m_document, disconnectActionClicked() without a look at it
ActionsHaveDocument == usable \subseteq follows /\ (follows # {} => managed)

\* While a document is managed, the views that were made before it show so: with
\* a status bar, and without offering to share it once more
ViewsFollow == managed => hears \subseteq follows /\ hears \cap shareable = {}

\* The undo of a view never goes to the editor, which would revert the edits of
\* others, while there is a session whose text it shows: whenever view, session
\* and text document were made
UndoIsSessions == undoes = IF load = "Unloaded" THEN {} ELSE shown

\* All of these; only a managed document has a session
ViewsInv ==
    /\ TypeOK /\ ActionsHaveDocument /\ ViewsFollow /\ UndoIsSessions
    /\ ~managed => load = "Unloaded"

\* The loading overlay does not stay over a text that can be edited, unless a
\* second subscription to the document is still loading it
NoOverlayWhenReady ==
    \A v \in overlay : v \in follows /\ (load = "Complete" => ~ready)

\* A view that follows a document that is ready offers its actions, and not the
\* built-in save, which would write to the server behind the session's back,
\* unless the view was made when the document was ready already.  It says that it
\* is connected until its Connection is closing, and from then on that it is not:
\* no text of an earlier stage is left over.  None has its text behind the overlay.
ReadyShownUnlessLate ==
    /\ ready => \A v \in follows \ late :
                    /\ v \in usable /\ v \notin saveable
                    /\ bar[v] = IF link = "open" THEN "ready" ELSE Says[link]
    /\ NoOverlayWhenReady

\* Only an answer given to a dialog after its document was let go uses a null
\* m_document; the list of undo actions and the Connection are the other things
\* that can go stale under a view
CrashedOnlyIfLost == crashed # "other"
=============================================================================
