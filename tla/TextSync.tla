------------------------------ MODULE TextSync ------------------------------
(***************************************************************************)
(* The text synchronisation of common/document.cpp: a KDocumentTextBuffer  *)
(* keeps the infinote text buffer of a session and the KTextEditor         *)
(* document the user sees equal.                                           *)
(*                                                                         *)
(* The buffer is changed first by a remote operation and the document      *)
(* first by a local one.  The document tells of a local edit by a signal   *)
(* whose slot reads the CURRENT document; if another slot, connected       *)
(* earlier, edits the document while the signal is being delivered, the    *)
(* signal of that nested edit arrives first (tests/collaborativeediting-   *)
(* test.cpp:462-464).  "pending" is the stack of edits the document has    *)
(* made and has not yet signalled to the buffer; while it is not empty     *)
(* control is inside the editor and no network event is handled.           *)
(*                                                                         *)
(* Abstractions.  A text is a sequence of code points and a position is    *)
(* an offset into it, the unit of the infinote protocol; the translation   *)
(* to lines and UTF-16 columns is a subject of its own.  The change        *)
(* highlighting and the undo timer hear of the edits and change neither    *)
(* text.                                                                   *)
(***************************************************************************)
EXTENDS Integers, Sequences, FiniteSets

CONSTANTS
    Char,           \* the code points
    Tab, Space,     \* two of them, told apart by the tab hack
    TabWidth,       \* spaces written for a tab (4 in the code)
    Texts,          \* the texts one insertion may carry
    MaxLen,         \* bound: longest text that still grows
    MaxNested,      \* how deep edits may nest in the editor's slots
    MinRemoval,     \* the shortest removal the editor signals
    RefusalSilent   \* whether the library may drop an operation silently

ASSUME TextSyncAssumption ==
    /\ {Tab, Space} \subseteq Char
    /\ Tab # Space
    /\ TabWidth \in Nat \ {0}
    /\ Texts \subseteq Seq(Char) \ {<< >>}
    /\ MaxLen \in Nat
    /\ MaxNested \in Nat \ {0}
    /\ MinRemoval \in Nat
    /\ RefusalSilent \in BOOLEAN

VARIABLES
    doc,                \* text of the KTextEditor document
    buffer,             \* text of the infinote buffer
    blockRemoteInsert,  \* the next insertion callback is our own echo
    blockRemoteRemove,  \* the next removal callback is our own echo
    hasUser,            \* m_user points to a user of the session
    session,            \* "open" while the library feeds the buffer
    aboutToClose,       \* m_aboutToClose
    readWrite,          \* the document accepts edits
    docUrl,             \* "inf", or "temp" once saved away
    pending             \* edits made and not yet signalled, innermost last

vars == <<doc, buffer, blockRemoteInsert, blockRemoteRemove, hasUser,
          session, aboutToClose, readWrite, docUrl, pending>>

flags == <<blockRemoteInsert, blockRemoteRemove>>
control == <<hasUser, session>>

Edits == [op : {"insert", "remove"}, at : Nat, len : Nat]

-----------------------------------------------------------------------------
(* Texts *)

Smaller(m, n) == IF m <= n THEN m ELSE n

\* s with t inserted after its first p characters
Splice(s, p, t) == SubSeq(s, 1, p) \o t \o SubSeq(s, p + 1, Len(s))

\* s without the n characters that follow its first p
Cut(s, p, n) == SubSeq(s, 1, p) \o SubSeq(s, p + n + 1, Len(s))

\* Where character i of t lands when every tab before it takes TabWidth places
TabStart(t, i) ==
    i + (TabWidth - 1) * Cardinality({j \in 1 .. i - 1 : t[j] = Tab})

\* t with each tab replaced by TabWidth spaces
ExpandTabs(t) ==
    [k \in 1 .. TabStart(t, Len(t) + 1) - 1 |->
        IF \E i \in 1 .. Len(t) : t[i] # Tab /\ TabStart(t, i) = k
        THEN t[CHOOSE i \in 1 .. Len(t) : t[i] # Tab /\ TabStart(t, i) = k]
        ELSE Space]

HasTab(t) == \E i \in 1 .. Len(t) : t[i] = Tab

-----------------------------------------------------------------------------
(* The buffer is compared with the document after every operation.  A      *)
(* difference makes the document read-only, saves it to a temporary file   *)
(* and silences the buffer for good.  Around a remote operation a          *)
(* ReadWriteTransaction restores the mode the document had before.         *)

Agree == UNCHANGED <<aboutToClose, readWrite, docUrl>>

Disagree(mode) ==
    /\ aboutToClose' = TRUE
    /\ docUrl' = "temp"
    /\ readWrite' = mode

\* Faulty: no comparison.
SkipCheck(modeAfter) == Agree

checkConsistency(modeAfter) ==
    IF buffer' = doc' THEN Agree ELSE Disagree(modeAfter)

(* Callbacks of the buffer: the library has changed it already.            *)

onInsertText(p, t) ==
    \/ /\ aboutToClose
       /\ UNCHANGED <<doc, blockRemoteInsert>>
       /\ Agree
    \/ /\ ~aboutToClose
       /\ blockRemoteInsert
       /\ blockRemoteInsert' = FALSE
       /\ UNCHANGED doc
       /\ Agree
    \/ /\ ~aboutToClose
       /\ ~blockRemoteInsert
       /\ doc' = Splice(doc, Smaller(p, Len(doc)), t)
       /\ checkConsistency(readWrite)
       /\ UNCHANGED blockRemoteInsert

onEraseText(p, n) ==
    \/ /\ aboutToClose
       /\ UNCHANGED <<doc, blockRemoteRemove>>
       /\ Agree
    \/ /\ ~aboutToClose
       /\ blockRemoteRemove
       /\ blockRemoteRemove' = FALSE
       /\ UNCHANGED doc
       /\ Agree
    \/ /\ ~aboutToClose
       /\ ~blockRemoteRemove
       /\ doc' = Cut(doc, Smaller(p, Len(doc)), n)
       /\ checkConsistency(readWrite)
       /\ UNCHANGED blockRemoteRemove

\* A participant inserted text, or an undo of our own did.
RemoteInsert(p, t) ==
    /\ pending = << >>
    /\ session = "open"
    /\ Len(buffer) + Len(t) <= MaxLen
    /\ buffer' = Splice(buffer, p, t)
    /\ onInsertText(p, t)
    /\ UNCHANGED <<blockRemoteRemove, control, pending>>

\* A participant removed text, or an undo of our own did.
RemoteErase(p, n) ==
    /\ pending = << >>
    /\ session = "open"
    /\ p + n <= Len(buffer)
    /\ buffer' = Cut(buffer, p, n)
    /\ onEraseText(p, n)
    /\ UNCHANGED <<blockRemoteInsert, control, pending>>

-----------------------------------------------------------------------------
(* The editor: the user, or a slot that runs inside a signal, edits.       *)

MayEdit ==
    /\ readWrite
    /\ Len(pending) < MaxNested

EditorInsert(p, t) ==
    /\ MayEdit
    /\ Len(doc) + Len(t) <= MaxLen
    /\ doc' = Splice(doc, p, t)
    /\ pending' = Append(pending, [op |-> "insert", at |-> p, len |-> Len(t)])
    /\ UNCHANGED <<buffer, flags, control, aboutToClose, readWrite, docUrl>>

EditorRemove(p, n) ==
    /\ MayEdit
    /\ n >= MinRemoval
    /\ p + n <= Len(doc)
    /\ doc' = Cut(doc, p, n)
    /\ pending' = Append(pending, [op |-> "remove", at |-> p, len |-> n])
    /\ UNCHANGED <<buffer, flags, control, aboutToClose, readWrite, docUrl>>

(* The slots.  Each arms its flag, changes the buffer, which calls back    *)
(* and disarms the flag, and compares.  An offset the buffer does not have *)
(* is refused by the library, with or without the callback.                *)

Innermost == pending[Len(pending)]

PopPending == pending' = SubSeq(pending, 1, Len(pending) - 1)

\* Faulty: the slots forget that the buffer has been closed.
DeafWithoutUser == ~hasUser

Deaf == aboutToClose \/ ~hasUser

FlagAfterRefusal == IF RefusalSilent THEN BOOLEAN ELSE {FALSE}

\* Faulty: the offset leaves out the lines before the insertion's.
InsertAtStart(p, t) ==
    /\ buffer' = Splice(buffer, 0, t)
    /\ blockRemoteInsert' = FALSE

\* Faulty: the echo does not disarm the flag.
InsertLeavesFlag(p, t) ==
    /\ p <= Len(buffer)
    /\ buffer' = Splice(buffer, p, t)
    /\ blockRemoteInsert' = TRUE

\* insertChunk and the echo it causes
bufferInsert(p, t) ==
    \/ /\ p <= Len(buffer)
       /\ buffer' = Splice(buffer, p, t)
       /\ blockRemoteInsert' = FALSE
    \/ /\ p > Len(buffer)
       /\ UNCHANGED buffer
       /\ blockRemoteInsert' \in FlagAfterRefusal

\* Faulty: the echo of a removal does not disarm the flag.
EraseLeavesFlag(p, n) ==
    /\ p + n <= Len(buffer)
    /\ buffer' = Cut(buffer, p, n)
    /\ blockRemoteRemove' = TRUE

\* eraseText and the echo it causes; nothing is erased for an empty removal
bufferErase(p, n) ==
    \/ /\ n = 0
       /\ UNCHANGED buffer
       /\ blockRemoteRemove' = TRUE
    \/ /\ n > 0
       /\ p + n <= Len(buffer)
       /\ buffer' = Cut(buffer, p, n)
       /\ blockRemoteRemove' = FALSE
    \/ /\ n > 0
       /\ p + n > Len(buffer)
       /\ UNCHANGED buffer
       /\ blockRemoteRemove' \in FlagAfterRefusal

\* The part of the current document an insertion's range covers
CoveredText(e) ==
    LET p == Smaller(e.at, Len(doc))
    IN  SubSeq(doc, p + 1, Smaller(p + e.len, Len(doc)))

localTextInserted ==
    /\ pending # << >>
    /\ Innermost.op = "insert"
    /\ PopPending
    /\ LET e    == Innermost
           p    == Smaller(e.at, Len(doc))
           text == CoveredText(e)
       IN  \/ /\ Deaf \/ text = << >>
              /\ UNCHANGED <<doc, buffer, blockRemoteInsert>>
              /\ Agree
           \/ /\ ~Deaf
              /\ text # << >>
              /\ doc' = IF HasTab(text)
                        THEN Splice(Cut(doc, p, Len(text)), p, ExpandTabs(text))
                        ELSE doc
              /\ bufferInsert(p, IF HasTab(text) THEN ExpandTabs(text) ELSE text)
              /\ checkConsistency(FALSE)
    /\ UNCHANGED <<blockRemoteRemove, control>>

localTextRemoved ==
    /\ pending # << >>
    /\ Innermost.op = "remove"
    /\ PopPending
    /\ UNCHANGED <<doc, blockRemoteInsert, control>>
    /\ \/ /\ Deaf
          /\ UNCHANGED <<buffer, blockRemoteRemove>>
          /\ Agree
       \/ /\ ~Deaf
          /\ bufferErase(Smaller(Innermost.at, Len(doc)), Innermost.len)
          /\ checkConsistency(FALSE)

-----------------------------------------------------------------------------
(* The session *)

\* The join request is answered: the buffer gets its user, and loading being
\* complete the plugin makes the document writable.
slotJoinFinished ==
    /\ pending = << >>
    /\ session = "open"
    /\ ~hasUser
    /\ ~aboutToClose
    /\ hasUser' = TRUE
    /\ readWrite' = TRUE
    /\ UNCHANGED <<doc, buffer, flags, session, aboutToClose, docUrl, pending>>

\* The session ends under the document; m_user is a guarded pointer and may
\* or may not outlive it.
SessionClosed ==
    /\ pending = << >>
    /\ session = "open"
    /\ session' = "closed"
    /\ hasUser' \in {hasUser, FALSE}
    /\ UNCHANGED <<doc, buffer, flags, aboutToClose, readWrite, docUrl, pending>>

\* The managed document lets go of its buffer.
shutdown ==
    /\ pending = << >>
    /\ ~aboutToClose
    /\ aboutToClose' = TRUE
    /\ UNCHANGED <<doc, buffer, flags, control, readWrite, docUrl, pending>>

-----------------------------------------------------------------------------

\* Synchronisation starts on an empty buffer and clears the document.
Init ==
    /\ doc = << >>
    /\ buffer = << >>
    /\ blockRemoteInsert = FALSE
    /\ blockRemoteRemove = FALSE
    /\ hasUser = FALSE
    /\ session = "open"
    /\ aboutToClose = FALSE
    /\ readWrite = FALSE
    /\ docUrl = "inf"
    /\ pending = << >>

Remote ==
    \/ \E p \in 0 .. Len(buffer), t \in Texts : RemoteInsert(p, t)
    \/ \E p, n \in 0 .. Len(buffer) : n > 0 /\ RemoteErase(p, n)

Editor ==
    \/ \E p \in 0 .. Len(doc), t \in Texts : EditorInsert(p, t)
    \/ \E p, n \in 0 .. Len(doc) : EditorRemove(p, n)

Slots == localTextInserted \/ localTextRemoved

Next ==
    \/ Remote
    \/ Editor
    \/ Slots
    \/ slotJoinFinished
    \/ SessionClosed
    \/ shutdown

Spec == Init /\ [][Next]_vars

-----------------------------------------------------------------------------
(* Properties *)

TypeOK ==
    /\ doc \in Seq(Char)
    /\ buffer \in Seq(Char)
    /\ blockRemoteInsert \in BOOLEAN
    /\ blockRemoteRemove \in BOOLEAN
    /\ hasUser \in BOOLEAN
    /\ session \in {"open", "closed"}
    /\ aboutToClose \in BOOLEAN
    /\ readWrite \in BOOLEAN
    /\ docUrl \in {"inf", "temp"}
    /\ pending \in Seq(Edits)

\* The editor takes part in the session: its buffer listens, and it has not
\* been left without a user by a session that ended.
Attached == ~aboutToClose /\ (hasUser \/ session = "open")

\* When control is back in the event loop, an attached editor shows exactly
\* the text of the session buffer, whatever interleaving of local edits,
\* their signals and remote operations led there.
EditorMatchesBuffer == Attached /\ pending = << >> => doc = buffer

\* An echo flag never outlives the slot that armed it.  One that did would
\* swallow the next operation of another participant without a trace.
NoArmedFlagAtRest ==
    ~aboutToClose /\ pending = << >> => ~blockRemoteInsert /\ ~blockRemoteRemove

\* The synchronisation itself never makes the texts differ, so that the
\* consistency check never throws a document out of its session.
NeverThrownOut == docUrl = "inf"

\* A document that has been thrown out, or shut down, stays out, and the edits
\* that were under way at that moment no longer reach the buffer.
ClosedForGood ==
    [][aboutToClose =>
        /\ aboutToClose'
        /\ docUrl' = docUrl
        /\ pending # << >> => buffer' = buffer]_vars

\* While the editor has an edit to report, the edit accounts exactly for the
\* difference of the two texts.
PendingExplains ==
    Attached /\ pending # << >> =>
        LET e == Innermost
        IN  /\ e.len > 0
            /\ e.op = "insert" =>
                  /\ e.at + e.len <= Len(doc)
                  /\ buffer = Cut(doc, e.at, e.len)
            /\ e.op = "remove" =>
                  /\ e.at + e.len <= Len(buffer)
                  /\ doc = Cut(buffer, e.at, e.len)

\* An editor that signals each edit before the next one is made, and no empty
\* removals; KatePart's own edits are of this kind.
InOrderSignals == MaxNested = 1 /\ MinRemoval > 0

\* The inductive invariant of that case.  The user of a writable document in
\* an open session is known, since the document becomes writable by joining.
InOrderInv ==
    /\ TypeOK
    /\ Len(pending) <= 1
    /\ ~blockRemoteInsert /\ ~blockRemoteRemove
    /\ (readWrite \/ pending # << >>) /\ session = "open" => hasUser
    /\ NeverThrownOut
    /\ EditorMatchesBuffer
    /\ PendingExplains

\* What the user sees of the shared text: an edit that is still being
\* reported has not happened yet for the session.
Abstract == INSTANCE SharedText
    WITH shown <- IF Attached /\ pending # << >> THEN buffer ELSE doc,
         shared <- buffer,
         attached <- Attached

\* The synchronisation implements the promise of SharedText.
ImplementsSharedText == Abstract!SharedSpec
=============================================================================
