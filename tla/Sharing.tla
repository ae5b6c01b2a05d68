------------------------------- MODULE Sharing -------------------------------
(***************************************************************************)
(* A user shares the document of a view, or opens somebody else's:         *)
(* kte-plugin/ui/sharedocumentdialog.cpp, ui/opencollabdocumentdialog.cpp, *)
(* the requester of ktpintegration/inftube.cpp:190-263, and the slots of   *)
(* ktecollaborativepluginview.cpp:593-665 that show the dialogs.           *)
(*                                                                         *)
(* The document is uploaded to a server, by a tube to a contact or a chat  *)
(* room that is asked for first, or directly; when that is done it is      *)
(* opened from there.  The sharing dialog is modal and stays open, with    *)
(* its buttons enabled, until an url arrives.  It hears of a tube only     *)
(* after the document was closed, which asks the user if there are changes *)
(* to save; what was begun in it goes on when it is cancelled, and is then *)
(* heard by nobody.                                                        *)
(***************************************************************************)
EXTENDS Naturals, FiniteSets

CONSTANTS
    MaxRequests     \* bound: the requests that may be made, one after another

ASSUME SharingAssumption == MaxRequests \in Nat \ {0}

Requests == 1 .. MaxRequests

ByTube    == {"contact", "room"}         \* an InfTubeRequester
ByDialog  == {"existing", "server"}      \* copied by the dialog itself

VARIABLES
    url,        \* of the view's document: "file", "inf", or "none"
    unsaved,    \* the document differs from its file
    dialog,     \* "closed", "open", "contact", "room" or "server" while one of
                \* its own dialogs is open, "closing" while the user is asked
                \* what to do with the changes, "disabled" while it uploads
    accepted,   \* an url arrived while one of its own dialogs was open: it ends
                \* when that one does
    rows,       \* the dialog has read the existing connections
    chooser,    \* the dialog to open a document: "none", "shown", "choosing"
    request,    \* what was asked for, by number
    loaded      \* the last document opened: a request, 0 for any other

sharingVars == <<url, unsaved, dialog, accepted, rows, chooser, request, loaded>>

Idle == [via |-> "none", source |-> "none", state |-> "idle", wired |-> FALSE, again |-> FALSE]

SharingTypeOK ==
    /\ url \in {"file", "inf", "none"} /\ unsaved \in BOOLEAN /\ rows \in BOOLEAN
    /\ dialog \in {"closed", "open", "contact", "room", "server", "closing", "disabled"}
    /\ chooser \in {"none", "shown", "choosing"}
    /\ request \in [Requests ->
           [via : ByTube \cup ByDialog \cup {"none"}, source : {"file", "inf", "none"},
            state : {"idle", "requested", "copying", "hung", "done", "failed"},
            wired : BOOLEAN, again : BOOLEAN]]
    /\ accepted => dialog \in ByTube \cup {"server", "closing"}
    /\ dialog = "closed" => \A r \in Requests : ~request[r].wired
    /\ loaded \in Requests \cup {0}
    /\ unsaved => url = "file"

SharingInit ==
    /\ url = "file" /\ unsaved \in BOOLEAN
    /\ dialog = "closed" /\ accepted = FALSE /\ rows = FALSE /\ chooser = "none"
    /\ request = [r \in Requests |-> Idle] /\ loaded = 0

Made(r)    == request[r].state # "idle"
Latest(r)  == Made(r) /\ \A q \in Requests : Made(q) => q <= r

Unwired(requests) == [r \in Requests |-> [requests[r] EXCEPT !.wired = FALSE]]

\* Control returns to the sharing dialog, in the given state and with the
\* requests made so far; or it was accepted meanwhile, and is destroyed, and
\* what was asked for in it is connected to it no longer
Back(state, requests) ==
    /\ dialog' = IF accepted THEN "closed" ELSE state
    /\ request' = IF accepted THEN Unwired(requests) ELSE requests
    /\ accepted' = FALSE

-----------------------------------------------------------------------------
(* The view *)

\* Only a document with an url is shared; one without is saved first, unless
\* the user does not want to.  Faulty: it is shared as it is.
ShareAnything ==
    /\ dialog = "closed" /\ chooser # "choosing"
    /\ dialog' = "open" /\ rows' = FALSE
    /\ UNCHANGED <<accepted, url, unsaved, chooser, request, loaded>>

shareActionClicked ==
    /\ dialog = "closed" /\ chooser # "choosing"
    /\ dialog' = "open" /\ rows' = FALSE
    /\ url' = IF url = "none" THEN "file" ELSE url
    /\ UNCHANGED <<accepted, unsaved, chooser, request, loaded>>

openActionClicked ==
    /\ dialog = "closed" /\ chooser = "none"
    /\ chooser' = "shown"
    /\ UNCHANGED <<accepted, url, unsaved, dialog, rows, request, loaded>>

\* The user goes on working with a local file
Work ==
    /\ dialog = "closed" /\ chooser # "choosing"
    /\ url' = "file" /\ unsaved' \in BOOLEAN /\ loaded' = 0
    /\ UNCHANGED <<accepted, dialog, rows, chooser, request>>

-----------------------------------------------------------------------------
(* The sharing dialog *)

\* ConnectionsModel asks for the channels once, when the accounts are ready
onAccountManagerReady ==
    /\ dialog # "closed" /\ ~rows /\ rows' = TRUE
    /\ UNCHANGED <<accepted, url, unsaved, dialog, chooser, request, loaded>>

ButtonClicked(which) ==
    /\ dialog = "open" /\ dialog' = which
    /\ UNCHANGED <<accepted, url, unsaved, rows, chooser, request, loaded>>

Next1(r) == ~Made(r) /\ \A q \in Requests : q < r => Made(q)

Asked(r, via, state, heard) ==
    [request EXCEPT ![r] =
        [via |-> via, source |-> url, state |-> state, wired |-> heard,
         again |-> \E q \in Requests : request[q].wired]]

\* shareWithContact(), shareWithChatRoom(): the tube is asked for, and the
\* document closed, at once if there is nothing to ask the user, and the
\* dialog connected to the requester.  Faulty: it is not connected.
OfferUnheard(r, via) ==
    /\ dialog = via /\ Next1(r)
    /\ \/ /\ unsaved /\ dialog' = "closing"
          /\ request' = Asked(r, via, "requested", FALSE)
          /\ UNCHANGED <<url, accepted>>
       \/ /\ ~unsaved /\ url' = "none"
          /\ Back("open", Asked(r, via, "requested", FALSE))
    /\ UNCHANGED <<unsaved, rows, chooser, loaded>>

Offer(r, via) ==
    /\ dialog = via /\ Next1(r)
    /\ \/ /\ unsaved /\ dialog' = "closing"
          /\ request' = Asked(r, via, "requested", FALSE)
          /\ UNCHANGED <<url, accepted>>
       \/ /\ ~unsaved /\ url' = "none"
          /\ Back("open", Asked(r, via, "requested", TRUE))
    /\ UNCHANGED <<unsaved, rows, chooser, loaded>>

\* The user saves or discards the changes, or keeps the document open after
\* all; the dialog is connected only now.  Telepathy does not wait for that.
closeUrl(r) ==
    /\ dialog = "closing" /\ Latest(r)
    /\ Back("open", [request EXCEPT ![r].wired = TRUE])
    /\ \/ url' = "none" /\ unsaved' = FALSE
       \/ UNCHANGED <<url, unsaved>>
    /\ UNCHANGED <<rows, chooser, loaded>>

shareWithExistingConnection(r) ==
    /\ dialog = "open" /\ rows /\ Next1(r)
    /\ request' = Asked(r, "existing", "copying", TRUE)
    /\ UNCHANGED <<url, unsaved, dialog, accepted, rows, chooser, loaded>>

putOnExistingServer(r) ==
    /\ dialog = "server" /\ Next1(r)
    /\ Back("disabled", Asked(r, "server", "copying", TRUE))
    /\ UNCHANGED <<url, unsaved, rows, chooser, loaded>>

\* Cancelled, in the dialog or in one of its own
Cancel ==
    /\ dialog \notin {"closed", "closing"}
    /\ dialog' = "closed" /\ accepted' = FALSE /\ request' = Unwired(request)
    /\ UNCHANGED <<url, unsaved, rows, chooser, loaded>>

\* shouldOpenDocument(): the dialog is accepted, and the document opened,
\* which closes the one before unless the user objects
shouldOpenDocument(r, requests) ==
    /\ \/ /\ dialog \in {"open", "disabled"} /\ dialog' = "closed"
          /\ request' = Unwired(requests) /\ UNCHANGED accepted
       \/ /\ dialog \in ByTube \cup {"server", "closing"} /\ accepted' = TRUE
          /\ request' = requests /\ UNCHANGED dialog
    /\ \/ url' = "inf" /\ unsaved' = FALSE /\ loaded' = r
       \/ unsaved /\ UNCHANGED <<url, unsaved, loaded>>

-----------------------------------------------------------------------------
(* What becomes of a request *)

\* onTubeRequestReady(), onTubeReady(): there is no channel, or it has no
\* local socket, or the upload begins
TubeReady(r) ==
    /\ request[r].state = "requested"
    /\ \E s \in {"copying", "failed"} : request' = [request EXCEPT ![r].state = s]
    /\ UNCHANGED <<accepted, url, unsaved, dialog, rows, chooser, loaded>>

\* The upload ends; one of nothing fails.  An error is heard by the requester,
\* but not by jobFinished() of the dialog.  Faulty: it is taken for success.
Ended(r, s) ==
    /\ request[r].state = "copying"
    /\ s = "done" => request[r].source # "none"

HeardAnyway(r, s) == request[r].wired
Heard(r, s)       == request[r].wired /\ (s = "done" \/ request[r].via \in ByDialog)

jobFinished(r, s) ==
    /\ Ended(r, s)
    /\ LET now == [request EXCEPT ![r].state = s]
       IN  IF Heard(r, s)
           THEN shouldOpenDocument(r, now)
           ELSE /\ request' = now
                /\ UNCHANGED <<url, unsaved, dialog, accepted, loaded>>
    /\ UNCHANGED <<rows, chooser>>

\* The put() of the KIO slave looks the directory up first, without a timer:
\* if that is never answered (KioSlave's lookupHangs) the job does not end
uploadHangs(r) ==
    /\ request[r].state = "copying" /\ request[r].source # "none"
    /\ request' = [request EXCEPT ![r].state = "hung"]
    /\ UNCHANGED <<url, unsaved, dialog, accepted, rows, chooser, loaded>>

-----------------------------------------------------------------------------
(* The dialog to open a document; it is modeless until a file is chosen *)

\* connectionClicked() or acceptedWithManualConnection()
requestFileToOpen ==
    /\ chooser = "shown" /\ dialog = "closed"
    /\ chooser' = "choosing"
    /\ UNCHANGED <<accepted, url, unsaved, dialog, rows, request, loaded>>

\* Chosen, and opened in a new document or, where the application has no way
\* to make one, in the view's
openFile ==
    /\ chooser = "choosing" /\ chooser' = "none"
    /\ \/ UNCHANGED <<url, unsaved, loaded>>
       \/ url' = "inf" /\ unsaved' = FALSE /\ loaded' = 0
    /\ UNCHANGED <<accepted, dialog, rows, request>>

Rejected ==
    /\ chooser # "none" /\ dialog = "closed" /\ chooser' = "none"
    /\ UNCHANGED <<accepted, url, unsaved, dialog, rows, request, loaded>>

-----------------------------------------------------------------------------
SharingNext ==
    \/ shareActionClicked \/ openActionClicked \/ Work
    \/ onAccountManagerReady \/ Cancel
    \/ \E which \in ByTube \cup {"server"} : ButtonClicked(which)
    \/ \E r \in Requests :
          \/ \E via \in ByTube : Offer(r, via)
          \/ closeUrl(r)
          \/ shareWithExistingConnection(r) \/ putOnExistingServer(r)
          \/ TubeReady(r) \/ uploadHangs(r)
          \/ \E s \in {"done", "failed"} : jobFinished(r, s)
    \/ requestFileToOpen \/ openFile \/ Rejected

\* Telepathy answers, and an upload ends or hangs
Fairness == \A r \in Requests :
    /\ WF_sharingVars(TubeReady(r))
    /\ WF_sharingVars(uploadHangs(r) \/ \E s \in {"done", "failed"} : jobFinished(r, s))

SharingSpec == SharingInit /\ [][SharingNext]_sharingVars /\ Fairness

-----------------------------------------------------------------------------
(* Properties *)

\* A document that is opened is on the server, unless it was put there by the
\* dialog, whose jobFinished() does not look at the error of the job
OpenedIsUploaded ==
    /\ SharingTypeOK
    /\ loaded # 0 => \/ request[loaded].state = "done"
                     \/ request[loaded].via \in ByDialog /\ request[loaded].state = "failed"

\* What is shared is a document, unless the same dialog was used to share it
\* before and that has closed it: the buttons stay enabled meanwhile
SourcelessOnlyAgain ==
    \A r \in Requests : Made(r) /\ request[r].source = "none" => request[r].again

\* A document that was closed to be shared, with the dialog still there, comes
\* back from the server, unless the user cancels the dialog, or it is never told:
\* a tube or an upload failed, the upload hangs, or it was done while the user was
\* still asked about the changes.  Nothing is said of a dialog that was accepted
\* meanwhile, for an earlier request: it is gone when the document is closed, and
\* nobody hears of the later one (Back).
ComesBack ==
    (url = "none" /\ dialog = "open") ~>
        \/ url # "none" \/ dialog = "closed"
        \/ \E r \in Requests : request[r].wired /\ request[r].state \in {"failed", "hung", "done"}
=============================================================================
