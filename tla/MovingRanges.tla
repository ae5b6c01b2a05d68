---------------------------- MODULE MovingRanges ----------------------------
(***************************************************************************)
(* The editor component as kte-plugin/documentchangetracker.cpp uses it: a *)
(* text in lines, and moving ranges that follow its changes.  External.    *)
(*                                                                         *)
(* A document d is [lines, ranges].  The ranges do not expand (the start   *)
(* moves when text is inserted at it, the end stays) and may be empty.     *)
(***************************************************************************)
EXTENDS TextOffsets, SequencesExt

Range2(from, to) == [start |-> from, end |-> to]

isEmpty(r) == r.start = r.end
Touch(r, s) == BeforeOrAt(r.start, s.end) /\ BeforeOrAt(s.start, r.end)
contains(r, s) == BeforeOrAt(r.start, s.start) /\ BeforeOrAt(s.end, r.end)

lineLength(d, l) == Len(Line(d.lines, l))

\* A range whose ends have moved; an end that got before its start is set to it
Moved(r) == IF Before(r.end, r.start) THEN [r EXCEPT !.end = r.start] ELSE r

\* One character that is no newline, and a newline, inserted at c
InsertUnits(d, c, units) ==
    LET old == d.lines[c.line + 1]
        After(x, moves) ==
            IF x.line = c.line /\ (x.column > c.column \/ (moves /\ x = c))
            THEN Cursor(x.line, x.column + Len(units)) ELSE x
    IN  [d EXCEPT !.lines[c.line + 1] =
                      SubSeq(old, 1, c.column) \o units \o SubSeq(old, c.column + 1, Len(old)),
                  !.ranges = [i \in DOMAIN d.ranges |->
                      Moved([d.ranges[i] EXCEPT !.start = After(@, TRUE),
                                                !.end   = After(@, FALSE)])]]

WrapLine(d, c) ==
    LET old == d.lines[c.line + 1]
        After(x, moves) ==
            IF x.line > c.line THEN Cursor(x.line + 1, x.column)
            ELSE IF x.line = c.line /\ (x.column > c.column \/ (moves /\ x = c))
            THEN Cursor(x.line + 1, x.column - c.column) ELSE x
    IN  [d EXCEPT !.lines = SubSeq(@, 1, c.line)
                      \o <<SubSeq(old, 1, c.column), SubSeq(old, c.column + 1, Len(old))>>
                      \o SubSeq(@, c.line + 2, Len(@)),
                  !.ranges = [i \in DOMAIN d.ranges |->
                      Moved([d.ranges[i] EXCEPT !.start = After(@, TRUE),
                                                !.end   = After(@, FALSE)])]]

\* kDocument()->insertText(): a text of code points, one after the other
InsertCharacter(s, kind, user) ==
    IF kind = "newline"
    THEN [doc |-> WrapLine(s.doc, s.at), at |-> Cursor(s.at.line + 1, 0)]
    ELSE [doc |-> InsertUnits(s.doc, s.at, UnitsOf(kind, user)),
          at  |-> Cursor(s.at.line, s.at.column + Len(UnitsOf(kind, user)))]

insertText(d, c, text, user) ==
    LET s[n \in 0 .. Len(text)] ==
            IF n = 0 THEN [doc |-> d, at |-> c] ELSE InsertCharacter(s[n - 1], text[n], user)
    IN  s[Len(text)]

\* kDocument()->removeText()
removeText(d, from, to) ==
    LET After(x) ==
            IF BeforeOrAt(x, from) THEN x
            ELSE IF BeforeOrAt(x, to) THEN from
            ELSE IF x.line = to.line
            THEN Cursor(from.line, from.column + x.column - to.column)
            ELSE Cursor(x.line - (to.line - from.line), x.column)
        last == Line(d.lines, to.line)
    IN  [d EXCEPT !.lines = SubSeq(@, 1, from.line)
                      \o <<SubSeq(@[from.line + 1], 1, from.column)
                           \o SubSeq(last, to.column + 1, Len(last))>>
                      \o SubSeq(@, to.line + 2, Len(@)),
                  !.ranges = [i \in DOMAIN d.ranges |->
                      Moved([d.ranges[i] EXCEPT !.start = After(@), !.end = After(@)])]]
=============================================================================
