----------------------------- MODULE TextOffsets -----------------------------
(***************************************************************************)
(* The two ways to name a place in a collaborative text                    *)
(* (common/document.cpp:395-464).  The session counts Unicode code points  *)
(* from the start of the text; the editor has lines, counted from 0, and   *)
(* in a line columns, which count UTF-16 units: a character outside the    *)
(* basic plane has two, a high and a low surrogate.                        *)
(*                                                                         *)
(* A unit is a record with a "kind" and, for the properties, with the user *)
(* "by" whom it was written; the session's text is a sequence of kinds.    *)
(***************************************************************************)
EXTENDS Naturals, Sequences, FiniteSets

Kinds == {"plain", "wide", "return", "newline"}
UnitKinds == {"plain", "high", "low", "return"}

Cursor(line, column) == [line |-> line, column |-> column]

Before(c, d)     == c.line < d.line \/ (c.line = d.line /\ c.column < d.column)
BeforeOrAt(c, d) == c = d \/ Before(c, d)

\* codec()->toUnicode() of one code point
UnitKindsOf(kind) == IF kind = "wide" THEN <<"high", "low">> ELSE <<kind>>

UnitsOf(kind, user) ==
    [i \in DOMAIN UnitKindsOf(kind) |-> [kind |-> UnitKindsOf(kind)[i], by |-> user]]

\* kDocument()->line(), which is empty past the end
Line(lines, l) == IF l < Len(lines) THEN lines[l + 1] ELSE <<>>

UnitsAt(str, offset) == IF str[offset + 1].kind = "high" THEN 2 ELSE 1

\* The units of the first codePoints characters of str, and how many of the
\* codePoints it does not have; faulty: a pair is stepped over by one unit
SurrogatesUnpaired(str, codePoints) ==
    [units |-> IF codePoints < Len(str) THEN codePoints ELSE Len(str),
     left  |-> IF codePoints > Len(str) THEN codePoints - Len(str) ELSE 0]

\* Where the loop is behind the character at an offset, if there is one
Behind(str, offset) == IF offset >= Len(str) THEN offset ELSE offset + UnitsAt(str, offset)

surrogatesForCodePoints(str, codePoints) ==
    LET offset[n \in 0 .. codePoints] == IF n = 0 THEN 0 ELSE Behind(str, offset[n - 1])
    IN  [units |-> offset[codePoints],
         left  |-> Cardinality({n \in 0 .. codePoints - 1 : offset[n] >= Len(str)})]

countUnicodeCharacters(str) ==
    LET from[pos \in 0 .. Len(str) + 1] ==
            IF pos >= Len(str) THEN 0 ELSE 1 + from[pos + UnitsAt(str, pos)]
    IN  from[0]

\* The place "offset" code points after a cursor
offsetRelativeTo_kte(lines, cursor, offset) ==
    LET rest  == SubSeq(Line(lines, cursor.line), cursor.column + 1,
                        Len(Line(lines, cursor.line)))
        first == surrogatesForCodePoints(rest, offset)
        \* from the start of line l, with so many remaining
        from[remaining \in 0 .. offset] == [l \in Nat |->
            LET s == surrogatesForCodePoints(Line(lines, l), remaining)
            IN  IF s.left = 0 THEN Cursor(l, s.units) ELSE from[s.left - 1][l + 1]]
    IN  IF first.left = 0
        THEN Cursor(cursor.line, cursor.column + first.units)
        ELSE from[first.left - 1][cursor.line + 1]

offsetToCursor_kte(lines, offset) == offsetRelativeTo_kte(lines, Cursor(0, 0), offset)

\* Faulty: the newline at the end of a line is not counted
CursorToOffsetUnbroken(lines, cursor) ==
    LET upTo[i \in 0 .. cursor.line] ==
            IF i = 0 THEN 0 ELSE upTo[i - 1] + countUnicodeCharacters(lines[i])
    IN  upTo[cursor.line]
            + countUnicodeCharacters(SubSeq(Line(lines, cursor.line), 1, cursor.column))

cursorToOffset_kte(lines, cursor) ==
    LET upTo[i \in 0 .. cursor.line] ==
            IF i = 0 THEN 0 ELSE upTo[i - 1] + countUnicodeCharacters(lines[i]) + 1
    IN  upTo[cursor.line]
            + countUnicodeCharacters(SubSeq(Line(lines, cursor.line), 1, cursor.column))
=============================================================================
