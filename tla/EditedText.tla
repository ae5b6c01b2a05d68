------------------------------ MODULE EditedText ------------------------------
(***************************************************************************)
(* A collaborative text while it is edited: the lines of the editor, the   *)
(* code points of the session's buffer, and the highlighting of who wrote  *)
(* what.  TextSync is about when the two texts are brought together; this  *)
(* module is about where: each operation is one step here, and translates  *)
(* its place from cursor to offset (common/document.cpp:298-370) or from   *)
(* offset to cursor (205-266).                                             *)
(***************************************************************************)
EXTENDS ChangeTracker

CONSTANTS
    Me,          \* the local user
    Peers,       \* the others
    Nobody,      \* who wrote the text that was there before
    Contents,    \* texts a session may start with
    Typed,       \* texts the local user inserts at once: of one line, or a newline
    Received,    \* texts the others insert at once
    MaxLen,      \* bound: the longest text that still grows
    MaxEdits     \* bound: how many edits there are

Users == Peers \cup {Me}

ASSUME EditedTextAssumption ==
    /\ Me \notin Peers /\ Nobody \notin Users
    /\ Contents \cup Typed \cup Received \subseteq Seq(Kinds)
    /\ HashHue \in [Users -> 0 .. 359]
    /\ {NoName, Initially} \cap Users = {}
    /\ MaxLen \in Nat /\ MaxEdits \in Nat

VARIABLES
    doc,      \* the editor's document and its ranges
    buffer,   \* the text of the session
    phase,    \* "joining", "joined", or "asked" whether to convert line endings
    edits     \* counts the edits, for MaxEdits

vars == <<doc, buffer, phase, edits>>

NoText == [lines  |-> <<<<>>>>, ranges |-> <<>>,
           colors |-> [u \in {Initially} |-> [hue |-> -1, dimmed |-> FALSE]]]

LinesOf(text, user) == insertText(NoText, Cursor(0, 0), text, user).doc.lines

Init ==
    /\ buffer \in Contents
    /\ doc = [NoText EXCEPT !.lines = LinesOf(buffer, Nobody)]
    /\ phase = "joining" /\ edits = 0

Splice(p, text) == SubSeq(buffer, 1, p) \o text \o SubSeq(buffer, p + 1, Len(buffer))
Cut(p, n) == SubSeq(buffer, 1, p) \o SubSeq(buffer, p + n + 1, Len(buffer))

HasReturn == \E l \in DOMAIN doc.lines : \E i \in DOMAIN doc.lines[l] :
                 doc.lines[l][i].kind = "return"

-----------------------------------------------------------------------------
(* Operations of the others, and of the synchronisation *)

onInsertText(offset, text, user) ==
    LET start == offsetToCursor_kte(doc.lines, offset)
        d     == insertText(doc, start, text, user).doc
        end   == offsetToCursor_kte(d.lines, offset + Len(text))
    IN  /\ buffer' = Splice(offset, text)
        /\ doc' = userChangedText(d, Range2(start, end), user)
        /\ UNCHANGED phase

onEraseText(offset, length) ==
    LET start == offsetRelativeTo_kte(doc.lines, Cursor(0, 0), offset)
        end   == offsetRelativeTo_kte(doc.lines, start, length)
    IN  /\ buffer' = Cut(offset, length)
        /\ doc' = removeText(doc, start, end)
        /\ UNCHANGED phase

-----------------------------------------------------------------------------
(* Edits of the local user.  The editor signals the insertion of a part of *)
(* a line and of a newline separately.                                     *)

\* What an edit of the document does with its slot: s = [doc, buffer]
Inserted(s, c, text) ==
    LET i      == insertText(s.doc, c, text, Me)
        offset == cursorToOffset_kte(i.doc.lines, c)
    IN  [doc    |-> userChangedText(i.doc, Range2(c, i.at), Me),
         buffer |-> SubSeq(s.buffer, 1, offset) \o text \o SubSeq(s.buffer, offset + 1, Len(s.buffer))]

Removed(s, from, to) ==
    LET offset  == cursorToOffset_kte(s.doc.lines, from)
        length  == IF from.line # to.line THEN 1
                   ELSE countUnicodeCharacters(
                            SubSeq(Line(s.doc.lines, from.line), from.column + 1, to.column))
    IN  [doc    |-> removeText(s.doc, from, to),
         buffer |-> SubSeq(s.buffer, 1, offset)
                        \o SubSeq(s.buffer, offset + length + 1, Len(s.buffer))]

State == [doc |-> doc, buffer |-> buffer]
Becomes(s) == doc' = s.doc /\ buffer' = s.buffer

\* The cursors of the document that are not inside a surrogate pair
Cursors ==
    {c \in UNION {{Cursor(l, k) : k \in 0 .. lineLength(doc, l)} : l \in 0 .. Len(doc.lines) - 1} :
        c.column < lineLength(doc, c.line) => doc.lines[c.line + 1][c.column + 1].kind # "low"}

localTextInserted(c, text) ==
    /\ phase # "joining"
    /\ Becomes(Inserted(State, c, text))
    /\ UNCHANGED phase

\* A part of a line, or a newline
localTextRemoved(from, to) ==
    /\ phase # "joining"
    /\ Before(from, to)
    /\ \/ from.line = to.line
       \/ to = Cursor(from.line + 1, 0) /\ from.column = lineLength(doc, from.line)
    /\ Becomes(Removed(State, from, to))
    /\ UNCHANGED phase

\* slotJoinFinished() ends with checkLineEndings()
Joined ==
    /\ phase = "joining"
    /\ phase' = IF HasReturn THEN "asked" ELSE "joined"
    /\ UNCHANGED <<doc, buffer>>

\* A return is replaced by a newline.  One whose successor has become a newline
\* is taken for "\r\n", but there is nothing left to remove behind it: the newline
\* begins the next line.
ReplaceReturn(s, l, column) ==
    Inserted(Removed(s, Cursor(l, column), Cursor(l, column + 1)),
             Cursor(l, column), <<"newline">>)

UnitReplaced(s, l, column) ==
    IF doc.lines[l + 1][column + 1].kind = "return" THEN ReplaceReturn(s, l, column) ELSE s

\* The returns of a line as it was, from the last to the first
LineReplaced(s, l) ==
    LET last[n \in 0 .. lineLength(doc, l)] ==
            IF n = 0 THEN s ELSE UnitReplaced(last[n - 1], l, lineLength(doc, l) - n)
    IN  last[lineLength(doc, l)]

\* The last line first
replaceLineEndings ==
    /\ phase = "asked" /\ phase' = "joined"
    /\ LET last[n \in 0 .. Len(doc.lines)] ==
               IF n = 0 THEN State ELSE LineReplaced(last[n - 1], Len(doc.lines) - n)
       IN  Becomes(last[Len(doc.lines)])

LeaveLineEndings == phase = "asked" /\ phase' = "joined" /\ UNCHANGED <<doc, buffer>>

\* clearHighlight() of the tracker; for the properties, nobody wrote the text
ClearHighlight ==
    /\ phase # "joining" /\ doc.ranges # <<>>
    /\ doc' = clearHighlight([doc EXCEPT !.lines =
                  [l \in DOMAIN @ |-> [i \in DOMAIN @[l] |-> [@[l][i] EXCEPT !.by = Nobody]]]])
    /\ UNCHANGED <<buffer, phase>>

-----------------------------------------------------------------------------
Grows(text) == Len(buffer) + Len(text) <= MaxLen

Edit ==
    /\ edits < MaxEdits /\ edits' = edits + 1
    /\ \/ \E offset \in 0 .. Len(buffer), text \in Received, user \in Peers :
             Grows(text) /\ onInsertText(offset, text, user)
       \/ \E offset \in 0 .. Len(buffer), length \in 1 .. Len(buffer) :
             offset + length <= Len(buffer) /\ onEraseText(offset, length)
       \/ \E c \in Cursors, text \in Typed : Grows(text) /\ localTextInserted(c, text)
       \/ \E from, to \in Cursors : localTextRemoved(from, to)
       \/ replaceLineEndings

Next ==
    \/ Edit
    \/ (Joined \/ LeaveLineEndings \/ ClearHighlight) /\ UNCHANGED edits

Spec == Init /\ [][Next]_vars

-----------------------------------------------------------------------------
(* Properties *)

TypeOK ==
    /\ \A l \in DOMAIN doc.lines : doc.lines[l] \in Seq([kind : UnitKinds, by : Users \cup {Nobody}])
    /\ buffer \in Seq(Kinds)
    /\ phase \in {"joining", "joined", "asked"}
    /\ \A r \in Range(doc.ranges) :
           /\ BeforeOrAt(r.start, r.end)
           /\ r.end.line < Len(doc.lines) /\ r.end.column <= lineLength(doc, r.end.line)
           /\ r.name \in Users \cup {NoName} /\ r.color \in Range(doc.colors)

\* Between two cursors the document has the units of one character.
Spells(lines, kind, from, to) ==
    IF kind = "newline"
    THEN from.column = Len(Line(lines, from.line)) /\ to = Cursor(from.line + 1, 0)
    ELSE LET units == UnitKindsOf(kind)
         IN  /\ to = Cursor(from.line, from.column + Len(units))
             /\ to.column <= Len(Line(lines, from.line))
             /\ \A i \in DOMAIN units :
                    Line(lines, from.line)[from.column + i].kind = units[i]

\* From its start to its end the lines are those of the text, and each character
\* has its place in them.
Spelled(lines, text, place) ==
    /\ place[0] = Cursor(0, 0)
    /\ \A p \in 1 .. Len(text) : Spells(lines, text[p], place[p - 1], place[p])
    /\ place[Len(text)] = Cursor(Len(lines) - 1, Len(lines[Len(lines)]))

\* The document shows the text of the session, character by character: no
\* translation of a place splits a pair, counts a newline twice or is off by one
SameText ==
    Spelled(doc.lines, buffer,
            [p \in 0 .. Len(buffer) |-> offsetToCursor_kte(doc.lines, p)])

\* Every offset of the session has a place in the document, between two
\* characters of one of its lines, and that place has this offset
OffsetsRoundTrip ==
    \A offset \in 0 .. Len(buffer) :
        LET c == offsetToCursor_kte(doc.lines, offset)
        IN  c \in Cursors /\ cursorToOffset_kte(doc.lines, c) = offset

Covering(l, i) ==
    {r \in Range(doc.ranges) : BeforeOrAt(r.start, Cursor(l - 1, i - 1))
                                   /\ Before(Cursor(l - 1, i - 1), r.end)}

\* All hues a quarter, a half and three quarters of the circle from u's are too
\* close to somebody's: whose hash gives the hue of u gets no other one
Crowded(colors, u) ==
    \A turn \in {90, 180, 270} :
        \E w \in DOMAIN colors :
            HueDistance(colors[w].hue, (colors[u].hue + turn) % 360) <= MinDistance

\* The attempts ran out for one user, who has since looked like another one
Mistaken(user, other) ==
    /\ user \in Users /\ other \in DOMAIN doc.colors \ {user}
    /\ doc.colors[other].hue = HashHue[user] /\ Crowded(doc.colors, other)
    /\ user \in DOMAIN doc.colors => doc.colors[user].hue = HashHue[user]

\* What a user wrote is highlighted once, in that user's colour, whatever was
\* written into it, beside it and removed around it since; the colour may be the
\* one of a user this one is mistaken for
WrittenIsHighlighted ==
    \A l \in DOMAIN doc.lines : \A i \in DOMAIN doc.lines[l] :
        LET by == doc.lines[l][i].by
        IN  IF by = Nobody THEN Covering(l, i) = {}
            ELSE \E r \in Covering(l, i) :
                     /\ Covering(l, i) = {r}
                     /\ \E u \in DOMAIN doc.colors :
                            r.color = doc.colors[u] /\ (u = by \/ Mistaken(by, u))

\* Nobody is named as the author of what another one wrote, unless this one is
\* mistaken for that one: the tool tip may have no name, for the text behind a
\* split, but no other wrong one
NamedOnlyIfWritten ==
    \A l \in DOMAIN doc.lines : \A i \in DOMAIN doc.lines[l] :
        LET by   == doc.lines[l][i].by
            name == userForCursor(doc, Cursor(l - 1, i - 1))
        IN  name \in {by, NoName, "unknown user"} \/ Mistaken(by, name)

\* Both: the highlighting shows who wrote what
AuthorsShown == WrittenIsHighlighted /\ NamedOnlyIfWritten

\* Highlighting leaves the newlines out: no range goes over the end of a line
RangesInLines == \A r \in Range(doc.ranges) : r.start.line = r.end.line

ToldApart(colors) ==
    \A u, v \in DOMAIN colors \ {Initially} :
        u # v => \/ HueDistance(colors[u].hue, colors[v].hue) > MinDistance
                 \/ Crowded(colors, u) \/ Crowded(colors, v)

\* Users can be told apart: the hues of two differ by more than 30 degrees.  The
\* exception is a user for whom the attempts ran out, and then there was indeed no
\* place, a quarter of the circle apart, that others had not taken
ColoursApart == ToldApart(doc.colors)

\* The ranges stay inside the text and inside its lines, and the colours apart
HighlightInv == TypeOK /\ RangesInLines /\ ColoursApart
=============================================================================
