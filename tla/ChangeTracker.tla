---------------------------- MODULE ChangeTracker ----------------------------
(***************************************************************************)
(* Who wrote what: the slots of kte-plugin/documentchangetracker.cpp, as   *)
(* functions of a document d = [lines, ranges, colors].  A range of        *)
(* m_ranges has a tool tip "name" and a background "color"; colors is      *)
(* m_existingColors.  Colours come from ColorHelper (common/utils.cpp);    *)
(* saturation and brightness are those of the settings for every user, up  *)
(* to the darkening of a hue that is too close to another.                 *)
(***************************************************************************)
EXTENDS MovingRanges, Integers, FiniteSetsExt

CONSTANTS
    HashHue,     \* the hue the hash of a user's name gives
    NoName,      \* the empty name
    Initially    \* "Initial document contents", whose colour is transparent

-----------------------------------------------------------------------------
(* ColorHelper::colorForUsername() *)

MinDistance == 30

HueDistance(chue, hue) ==
    LET d == IF chue > hue THEN chue - hue ELSE hue - chue
    IN  IF d <= 180 THEN d ELSE 360 - d

Closest(hue, colors) ==
    Min({360} \cup {HueDistance(colors[u].hue, hue) : u \in DOMAIN colors})

\* Faulty: turned to the opposite, and back
ColorTurnedBack(user, colors) ==
    LET hue[i \in 0 .. 360 \div MinDistance] ==
            IF i = 0 THEN HashHue[user]
            ELSE LET h == hue[i - 1]
                 IN  IF Closest(h, colors) <= MinDistance THEN (h + 180) % 360 ELSE h
    IN  IF user \in DOMAIN colors THEN colors[user]
        ELSE [hue |-> hue[360 \div MinDistance], dimmed |-> FALSE]

\* Twelve attempts; a hue that is too close to one in use is turned by five
\* twelfths of the circle
colorForUsername(user, colors) ==
    LET hue[i \in 0 .. 360 \div MinDistance] ==
            IF i = 0 THEN HashHue[user]
            ELSE LET h == hue[i - 1]
                 IN  IF Closest(h, colors) <= MinDistance
                     THEN (h + MinDistance * ((360 \div MinDistance) \div 2 - 1)) % 360
                     ELSE h
        last == 360 \div MinDistance
    IN  IF user \in DOMAIN colors THEN colors[user]
        ELSE [hue |-> hue[last], dimmed |-> Closest(hue[last - 1], colors) < MinDistance]

-----------------------------------------------------------------------------
(* The ranges *)

cleanupRanges(d) ==
    LET kept[n \in 0 .. Len(d.ranges)] ==
            IF n = 0 THEN <<>>
            ELSE IF isEmpty(d.ranges[n]) THEN kept[n - 1] ELSE Append(kept[n - 1], d.ranges[n])
    IN  [d EXCEPT !.ranges = kept[Len(d.ranges)]]

\* The first range that touches a range, 0 without one
rangeAt(d, range) ==
    Min({i \in DOMAIN d.ranges : Touch(d.ranges[i], range)} \cup {Len(d.ranges) + 1})
        % (Len(d.ranges) + 1)

addHighlightedRange(d, name, range, color) ==
    [d EXCEPT !.ranges = Append(@, [start |-> range.start, end |-> range.end,
                                    name |-> name, color |-> color]),
              !.colors = IF name = NoName THEN @
                         ELSE [u \in DOMAIN @ \cup {name} |-> IF u = name THEN color ELSE @[u]]]

setRange(d, i, from, to) == [d EXCEPT !.ranges[i].start = from, !.ranges[i].end = to]

\* Range i becomes its part behind splitFor, and a new one the part before it;
\* faulty: the part behind is left out
SplitOffFirst(d, i, splitFor) == setRange(d, i, d.ranges[i].start, splitFor.start)

splitRangeForInsertion(d, i, splitFor) ==
    LET existing == d.ranges[i]
    IN  addHighlightedRange(setRange(d, i, splitFor.end, existing.end),
                            NoName, Range2(existing.start, splitFor.start), existing.color)

\* A new range shares the attribute of the one it was split from, its name too
Renamed(d, name) == [d EXCEPT !.ranges[Len(d.ranges)].name = name]

\* userChangedText() for a range in one line
ChangedInLine(d0, range, user) ==
    LET d     == cleanupRanges(d0)
        i     == rangeAt(d, range)
        color == colorForUsername(user, d.colors)
        r     == d.ranges[i]
        same  == i # 0 /\ r.color = color
        added == addHighlightedRange(d, user, range, color)
    IN  CASE same /\ contains(r, range) -> d
          [] same /\ ~contains(r, range) /\ r.start = range.end ->
                setRange(d, i, range.start, r.end)
          [] same /\ ~contains(r, range) /\ r.start # range.end /\ r.end = range.start ->
                setRange(d, i, r.start, range.end)
          [] i # 0 /\ ~same /\ contains(r, range) ->
                addHighlightedRange(Renamed(splitRangeForInsertion(d, i, range), r.name),
                                    user, range, color)
          [] OTHER -> added

\* A range that goes over the newline of a line is cut back to its first line,
\* and its part on its last line becomes one without a name
splitAtNewline(d, line) ==
    LET newlineRange == Range2(Cursor(line, lineLength(d, line)), Cursor(line + 1, 0))
        i == rangeAt(d, newlineRange)
        r == d.ranges[i]
    IN  IF i = 0 \/ ~contains(r, newlineRange) THEN d
        ELSE setRange(addHighlightedRange(d, NoName, Range2(Cursor(r.end.line, 0), r.end), r.color),
                      i, r.start, Cursor(r.start.line, lineLength(d, r.start.line)))

\* One line of a range
ChangedLine(d, range, user, line) ==
    LET split == splitAtNewline(d, line)
        from  == IF line = range.start.line THEN range.start ELSE Cursor(line, 0)
        to    == IF line = range.end.line /\ line # range.start.line
                 THEN range.end ELSE Cursor(line, lineLength(d, line))
    IN  IF lineLength(d, line) = 0 THEN split
        ELSE ChangedInLine(split, Range2(from, to), user)

\* Text was inserted by a user; removals change no more than the editor does
userChangedText(d, range, user) ==
    LET lines == range.end.line - range.start.line + 1
        after[k \in 0 .. lines] ==
            IF k = 0 THEN cleanupRanges(d)
            ELSE ChangedLine(after[k - 1], range, user, range.start.line + k - 1)
    IN  IF range.start.line = range.end.line THEN ChangedInLine(d, range, user)
        ELSE after[lines]

clearHighlight(d) == [d EXCEPT !.ranges = <<>>]

userForCursor(d, cursor) ==
    LET at == {i \in DOMAIN d.ranges : BeforeOrAt(d.ranges[i].start, cursor)
                                         /\ Before(cursor, d.ranges[i].end)}
    IN  IF at = {} THEN "unknown user" ELSE d.ranges[Min(at)].name
=============================================================================
