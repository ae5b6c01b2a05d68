--------------------------- MODULE EditedTextProofs ---------------------------
(***************************************************************************)
(* The properties of EditedText, for every text, every line and every one  *)
(* who edits: the editor and the session show the same text, an offset of  *)
(* one is a cursor of the other, and the colours show who wrote what.      *)
(*                                                                         *)
(* The text.  Some sequence of places spells it: the cursor before each of *)
(* its characters, and that behind the last one (Shows).  Walking along a  *)
(* line by characters (surrogatesForCodePoints), going on to the next      *)
(* (offsetRelativeTo_kte) and adding up the lines above                    *)
(* (cursorToOffset_kte) are shown to follow these places; an insertion or  *)
(* a removal splices them.                                                 *)
(*                                                                         *)
(* The highlighting.  Between two edits the ranges are in one line each,   *)
(* in the text, apart, and in the colours of users (Sound), and each unit  *)
(* is shown as its author's (Right, Whole).  The editor pushes the ranges  *)
(* behind an insertion (Pushed), and one that the text went into is torn   *)
(* (Torn): until userChangedText has run, only what is outside is shown    *)
(* right (Outside).  It colours line by line, up to the last (Pend,        *)
(* PendEnds).  A removal pulls the ranges together (Pulled).  A colour is  *)
(* apart from the others or four hues are taken (HueTaken); with up to     *)
(* three users one is free (HueFound).                                     *)
(*                                                                         *)
(* A recursive function of the model is treated as its equation: that a    *)
(* function with it exists is shown up to each number (UpTo), and what the *)
(* operator returns is then what the equation says.                        *)
(***************************************************************************)
EXTENDS EditedText, FiniteSetTheorems, SequenceTheorems, WellFoundedInduction, TLAPS

-----------------------------------------------------------------------------
(* Induction *)

\* Induction for sets of natural numbers
LEMMA SetInduction ==
    ASSUME NEW T \in SUBSET Nat, 0 \in T, \A n \in T : n + 1 \in T
    PROVE  T = Nat
<1> DEFINE smaller == StrictSubsetOrdering(Nat)
           Failing == {s \in FiniteSubsetsOf(Nat) : \E n \in Nat \ T : s = 0 .. n}
<1>1. SUFFICES ASSUME NEW m \in Nat, m \notin T PROVE FALSE OBVIOUS
<1>2. \A n \in Nat : 0 .. n \in FiniteSubsetsOf(Nat)
  BY FS_Interval DEF FiniteSubsetsOf
<1>3. Failing # {} BY <1>1, <1>2
<1>4. PICK x \in Failing : \A y \in Failing : <<y, x>> \notin smaller
  <2>1. IsWellFoundedOn(smaller, FiniteSubsetsOf(Nat))
    BY FS_StrictSubsetOrderingWellFounded
  <2> HIDE DEF smaller
  <2> QED BY <1>3, <2>1, WFMin
<1>5. PICK n \in Nat : n \notin T /\ x = 0 .. n BY <1>4
<1>6. n # 0 /\ n - 1 \in Nat /\ n - 1 \notin T BY <1>5
<1>7. 0 .. n - 1 \in Failing BY <1>2, <1>6
<1>8. 0 .. n - 1 \subseteq 0 .. n /\ n \in 0 .. n /\ n \notin 0 .. n - 1 BY <1>6
<1>9. <<0 .. n - 1, x>> \in smaller
  BY <1>2, <1>5, <1>6, <1>8 DEF StrictSubsetOrdering, FiniteSubsetsOf
<1> QED BY <1>4, <1>7, <1>9

\* Induction up to a number
LEMMA UpTo ==
    ASSUME NEW n \in Nat, NEW S, 0 \in S, \A i \in 0 .. n - 1 : i \in S => i + 1 \in S
    PROVE  \A i \in 0 .. n : i \in S
<1> DEFINE T == {i \in Nat : i <= n => i \in S}
<1>1. T \in SUBSET Nat /\ 0 \in T /\ \A i \in T : i + 1 \in T OBVIOUS
<1>2. T = Nat
  <2> HIDE DEF T
  <2> QED BY <1>1, SetInduction
<1> QED BY <1>2

\* The function g is f with one more value.
LongerBy(g, f, i, v) ==
    /\ g = [k \in 0 .. i + 1 |-> g[k]]
    /\ \A k \in 0 .. i + 1 : /\ k # 0 => g[k - 1] = f[k - 1]
                             /\ \/ k \in 0 .. i /\ g[k] = f[k]
                                \/ k = i + 1 /\ k # 0 /\ k - 1 = i /\ g[k] = v

\* There is such a function.
LEMMA OneMore == ASSUME NEW i \in Nat, NEW f, NEW v PROVE \E g : LongerBy(g, f, i, v)
<1> DEFINE g == [k \in 0 .. i + 1 |-> IF k <= i THEN f[k] ELSE v]
<1>1. \A k \in 0 .. i + 1 : /\ k # 0 => g[k - 1] = f[k - 1]
                            /\ \/ k \in 0 .. i /\ g[k] = f[k]
                               \/ k = i + 1 /\ k # 0 /\ k - 1 = i /\ g[k] = v OBVIOUS
<1>2. g = [k \in 0 .. i + 1 |-> g[k]] OBVIOUS
<1> HIDE DEF g
<1> QED BY <1>1, <1>2 DEF LongerBy

-----------------------------------------------------------------------------
(* The loops over the characters of a line *)

\* The offsets that surrogatesForCodePoints() comes to
OffsetsAre(f, str, n) ==
    f = [k \in 0 .. n |-> IF k = 0 THEN 0 ELSE Behind(str, f[k - 1])]

\* Such a function exists.
LEMMA OffsetsExist ==
    ASSUME NEW str, NEW n \in Nat
    PROVE  \E f : OffsetsAre(f, str, n)
<1> DEFINE S == {m \in 0 .. n : \E f : OffsetsAre(f, str, m)}
<1>1. 0 \in S
  <2>1. OffsetsAre([k \in 0 .. 0 |-> 0], str, 0) BY DEF OffsetsAre
  <2> QED BY <2>1
<1>2. ASSUME NEW i \in 0 .. n - 1, i \in S PROVE i + 1 \in S
  <2>1. PICK f : OffsetsAre(f, str, i) BY <1>2
  <2>2. PICK g : LongerBy(g, f, i, Behind(str, f[i])) BY OneMore
  <2>3. \A k \in 0 .. i + 1 : g[k] = IF k = 0 THEN 0 ELSE Behind(str, g[k - 1])
    BY <2>1, <2>2 DEF LongerBy, OffsetsAre
  <2>4. OffsetsAre(g, str, i + 1) BY <2>2, <2>3 DEF LongerBy, OffsetsAre
  <2> QED BY <2>4
<1>3. n \in S
  <2> HIDE DEF S
  <2> QED BY <1>1, <1>2, UpTo
<1> QED BY <1>3

\* surrogatesForCodePoints, read off the column of each count of characters
LEMMA OffsetsFacts ==
    ASSUME NEW str, NEW n \in Nat
    PROVE  \E f : /\ OffsetsAre(f, str, n)
                  /\ surrogatesForCodePoints(str, n) =
                         [units |-> f[n],
                          left  |-> Cardinality({k \in 0 .. n - 1 : f[k] >= Len(str)})]
<1> DEFINE f == CHOOSE f : OffsetsAre(f, str, n)
<1>1. OffsetsAre(f, str, n) BY OffsetsExist
<1>2. surrogatesForCodePoints(str, n) =
          [units |-> f[n], left |-> Cardinality({k \in 0 .. n - 1 : f[k] >= Len(str)})]
  BY DEF OffsetsAre, surrogatesForCodePoints
<1> HIDE DEF f
<1> QED BY <1>1, <1>2

\* Those columns are numbers.
LEMMA OffsetsNat ==
    ASSUME NEW str, Len(str) \in Nat, NEW n \in Nat, NEW f, OffsetsAre(f, str, n)
    PROVE  f[n] \in Nat
<1> DEFINE S == {k \in 0 .. n : f[k] \in Nat}
<1>1. f[0] = 0 /\ \A k \in 0 .. n - 1 : f[k + 1] = Behind(str, f[k])
  BY DEF OffsetsAre
<1>2. ASSUME NEW k \in 0 .. n - 1, k \in S PROVE k + 1 \in S
  <2>1. f[k + 1] = f[k] \/ f[k + 1] = f[k] + 1 \/ f[k + 1] = f[k] + 2
    BY <1>1 DEF Behind, UnitsAt
  <2> QED BY <1>2, <2>1
<1>3. 0 \in S BY <1>1
<1>4. \A k \in 0 .. n : k \in S
  <2> HIDE DEF S
  <2> QED BY <1>2, <1>3, UpTo
<1> QED BY <1>4

\* No more characters are left than were asked for.
LEMMA LeftIsLess ==
    ASSUME NEW str, NEW n \in Nat
    PROVE  surrogatesForCodePoints(str, n).left \in 0 .. n
<1>1. PICK f : surrogatesForCodePoints(str, n) =
                  [units |-> f[n],
                   left  |-> Cardinality({k \in 0 .. n - 1 : f[k] >= Len(str)})]
  BY OffsetsFacts
<1> DEFINE T == {k \in 0 .. n - 1 : f[k] >= Len(str)}
<1>2. IsFiniteSet(0 .. n - 1) /\ Cardinality(0 .. n - 1) = n BY FS_Interval
<1>3. T \subseteq 0 .. n - 1 OBVIOUS
<1>4. Cardinality(T) \in Nat /\ Cardinality(T) <= n
  <2> HIDE DEF T
  <2> QED BY <1>2, <1>3, FS_Subset, FS_CardinalityType
<1> QED BY <1>1, <1>4

\* The first k characters of a line end at the columns col[1], ..., col[k].
Walks(str, col, k) ==
    /\ col[0] = 0
    /\ \A i \in 0 .. k : col[i] \in Nat
    /\ \A i \in 0 .. k - 1 : col[i] < Len(str) /\ col[i + 1] = col[i] + UnitsAt(str, col[i])

\* A walk of k characters along the string is the walk of the code: so many units
\* for as many characters, and the rest are left when the string ends.
LEMMA WalkUnits ==
    ASSUME NEW str, Len(str) \in Nat, NEW k \in Nat, NEW col, Walks(str, col, k),
           NEW n \in Nat
    PROVE  /\ n <= k => surrogatesForCodePoints(str, n) = [units |-> col[n], left |-> 0]
           /\ n >= k /\ col[k] = Len(str) =>
                  surrogatesForCodePoints(str, n) = [units |-> Len(str), left |-> n - k]
<1>1. PICK f : /\ OffsetsAre(f, str, n)
               /\ surrogatesForCodePoints(str, n) =
                      [units |-> f[n],
                       left  |-> Cardinality({i \in 0 .. n - 1 : f[i] >= Len(str)})]
  BY OffsetsFacts
<1>2. f[0] = 0 /\ \A i \in 0 .. n - 1 : f[i + 1] = Behind(str, f[i])
  BY <1>1 DEF OffsetsAre
<1> DEFINE S == {i \in 0 .. n : i <= k => f[i] = col[i]}
           R == {i \in 0 .. n : i >= k /\ col[k] = Len(str) => f[i] = Len(str)}
<1>3. \A i \in 0 .. n : i <= k => f[i] = col[i]
  <2>1. 0 \in S BY <1>2 DEF Walks
  <2>2. ASSUME NEW i \in 0 .. n - 1, i \in S PROVE i + 1 \in S
    BY <1>2, <2>2 DEF Walks, Behind
  <2>3. \A i \in 0 .. n : i \in S
    <3> HIDE DEF S
    <3> QED BY <2>1, <2>2, UpTo
  <2> QED BY <2>3
<1>4. \A i \in 0 .. n : i >= k /\ col[k] = Len(str) => f[i] = Len(str)
  <2>1. 0 \in R BY <1>3
  <2>2. ASSUME NEW i \in 0 .. n - 1, i \in R PROVE i + 1 \in R
    <3>1. CASE i + 1 = k BY <1>3, <3>1
    <3>2. CASE i + 1 # k BY <1>2, <2>2, <3>2 DEF Behind
    <3> QED BY <3>1, <3>2
  <2>3. \A i \in 0 .. n : i \in R
    <3> HIDE DEF R
    <3> QED BY <2>1, <2>2, UpTo
  <2> QED BY <2>3
<1>5. ASSUME n <= k
      PROVE  {i \in 0 .. n - 1 : f[i] >= Len(str)} = {}
  BY <1>3, <1>5 DEF Walks
<1>6. ASSUME n >= k, col[k] = Len(str)
      PROVE  {i \in 0 .. n - 1 : f[i] >= Len(str)} = k .. n - 1
  <2>1. \A i \in 0 .. n - 1 : i < k => f[i] < Len(str) BY <1>3, <1>6 DEF Walks
  <2>2. \A i \in 0 .. n - 1 : i >= k => f[i] >= Len(str) BY <1>4, <1>6
  <2>3. k .. n - 1 \subseteq 0 .. n - 1 OBVIOUS
  <2>4. \A i \in 0 .. n - 1 : f[i] >= Len(str) <=> i \in k .. n - 1
    <3> TAKE i \in 0 .. n - 1
    <3>1. CASE i < k
      <4>1. f[i] < Len(str) /\ f[i] \in Int BY <1>3, <1>6, <2>1, <3>1 DEF Walks
      <4> QED BY <3>1, <4>1
    <3>2. CASE i >= k BY <2>2, <3>2
    <3> QED BY <3>1, <3>2
  <2> HIDE <1>6
  <2> QED BY <2>3, <2>4
<1>7. ASSUME n >= k
      PROVE  Cardinality(k .. n - 1) = n - k
  <2>1. k \in Int /\ n - 1 \in Int OBVIOUS
  <2>2. Cardinality(k .. n - 1) = IF k > n - 1 THEN 0 ELSE (n - 1) - k + 1
    BY <2>1, FS_Interval
  <2> QED BY <1>7, <2>2
<1>8. Cardinality({}) = 0 BY FS_EmptySet
<1>9. ASSUME n <= k
      PROVE  surrogatesForCodePoints(str, n) = [units |-> col[n], left |-> 0]
  <2>1. Cardinality({i \in 0 .. n - 1 : f[i] >= Len(str)}) = 0 BY <1>5, <1>8, <1>9
  <2>2. f[n] = col[n] BY <1>3, <1>9
  <2> QED BY <1>1, <2>1, <2>2
<1>10. ASSUME n >= k, col[k] = Len(str)
       PROVE  surrogatesForCodePoints(str, n) = [units |-> Len(str), left |-> n - k]
  <2>1. Cardinality({i \in 0 .. n - 1 : f[i] >= Len(str)}) = n - k
    BY <1>6, <1>7, <1>10
  <2>2. f[n] = Len(str) BY <1>4, <1>10
  <2> QED BY <1>1, <2>1, <2>2
<1> QED BY <1>9, <1>10

\* What countUnicodeCharacters() counts from a column on
CountsAre(f, str, n) ==
    f = [pos \in Len(str) + 1 - n .. Len(str) + 1 |->
            IF pos >= Len(str) THEN 0 ELSE 1 + f[pos + UnitsAt(str, pos)]]

\* The counts of characters from each column exist.
LEMMA CountsExist ==
    ASSUME NEW str, Len(str) \in Nat
    PROVE  \E f : CountsAre(f, str, Len(str) + 1)
<1> DEFINE len == Len(str)
           S == {n \in 0 .. len + 1 : \E f : CountsAre(f, str, n)}
<1>1. 0 \in S
  <2> DEFINE f == [pos \in len + 1 .. len + 1 |-> 0]
  <2>1. CountsAre(f, str, 0) BY DEF CountsAre
  <2> QED BY <2>1
<1>2. ASSUME NEW n \in 0 .. len, n \in S PROVE n + 1 \in S
  <2>1. PICK f : CountsAre(f, str, n) BY <1>2
  <2> DEFINE p == len - n
             g == [pos \in p .. len + 1 |->
                      IF pos = p THEN IF p >= len THEN 0 ELSE 1 + f[p + UnitsAt(str, p)]
                      ELSE f[pos]]
  <2>2. p \in Nat /\ UnitsAt(str, p) \in {1, 2} /\ \A pos : UnitsAt(str, pos) \in {1, 2}
    BY DEF UnitsAt
  <2>3. g[p] = IF p >= len THEN 0 ELSE 1 + g[p + UnitsAt(str, p)] BY <2>2
  <2>4. \A pos \in p + 1 .. len + 1 :
            g[pos] = IF pos >= len THEN 0 ELSE 1 + g[pos + UnitsAt(str, pos)]
    <3> TAKE pos \in p + 1 .. len + 1
    <3>1. g[pos] = f[pos] /\ pos \in Nat BY <2>2
    <3>2. f[pos] = IF pos >= len THEN 0 ELSE 1 + f[pos + UnitsAt(str, pos)]
      BY <2>1 DEF CountsAre
    <3>3. pos < len => g[pos + UnitsAt(str, pos)] = f[pos + UnitsAt(str, pos)]
      BY <2>2
    <3> HIDE DEF g
    <3> QED BY <3>1, <3>2, <3>3
  <2>5. g = [pos \in p .. len + 1 |-> g[pos]] OBVIOUS
  <2>6. CountsAre(g, str, n + 1)
    <3>1. p = len + 1 - (n + 1) /\ \A pos \in p .. len + 1 : pos = p \/ pos \in p + 1 .. len + 1
      BY <2>2
    <3> HIDE DEF g, p
    <3> QED BY <2>3, <2>4, <2>5, <3>1 DEF CountsAre
  <2> QED BY <2>6
<1>3. len + 1 \in S
  <2> HIDE DEF S
  <2> QED BY <1>1, <1>2, UpTo
<1> QED BY <1>3

\* The characters of a line are counted.
LEMMA WalkCount ==
    ASSUME NEW str, Len(str) \in Nat, NEW k \in Nat, NEW col, Walks(str, col, k),
           col[k] = Len(str)
    PROVE  countUnicodeCharacters(str) = k
<1> DEFINE f == CHOOSE f : CountsAre(f, str, Len(str) + 1)
<1>1. CountsAre(f, str, Len(str) + 1) BY CountsExist
<1>2. countUnicodeCharacters(str) = f[0]
  <2>1. Len(str) + 1 - (Len(str) + 1) = 0 OBVIOUS
  <2> QED BY <2>1 DEF CountsAre, countUnicodeCharacters
<1> HIDE DEF f
<1>3. \A pos \in 0 .. Len(str) + 1 :
          f[pos] = IF pos >= Len(str) THEN 0 ELSE 1 + f[pos + UnitsAt(str, pos)]
  BY <1>1 DEF CountsAre
<1> DEFINE S == {i \in 0 .. k : f[col[k - i]] = i}
<1>4. 0 \in S BY <1>3
<1>5. ASSUME NEW i \in 0 .. k - 1, i \in S PROVE i + 1 \in S
  <2> DEFINE j == k - (i + 1)
  <2>1. j \in 0 .. k - 1 /\ j + 1 = k - i OBVIOUS
  <2>2. col[j] \in Nat /\ col[j] < Len(str) /\ col[j + 1] = col[j] + UnitsAt(str, col[j])
    BY <2>1 DEF Walks
  <2>3. f[col[j + 1]] = i BY <1>5, <2>1
  <2>4. f[col[j]] = 1 + f[col[j] + UnitsAt(str, col[j])] BY <1>3, <2>2
  <2> QED BY <2>2, <2>3, <2>4
<1>6. \A i \in 0 .. k : i \in S
  <2> HIDE DEF S
  <2> QED BY <1>4, <1>5, UpTo
<1>7. col[k - k] = 0 BY DEF Walks
<1> QED BY <1>2, <1>6, <1>7

\* So are those of its beginning.
LEMMA WalkPrefix ==
    ASSUME NEW U, NEW str \in Seq(U), NEW k \in Nat, NEW col, Walks(str, col, k),
           col[k] <= Len(str)
    PROVE  countUnicodeCharacters(SubSeq(str, 1, col[k])) = k
<1>1. Len(str) \in Nat /\ col[k] \in Nat BY LenProperties DEF Walks
<1> DEFINE short == SubSeq(str, 1, col[k])
           S == {i \in 0 .. k : col[k - i] <= col[k]}
<1>2. Len(short) = col[k] /\ \A i \in 1 .. col[k] : short[i] = str[i]
  BY <1>1, SubSeqProperties
<1>3. \A i \in 0 .. k : col[i] <= col[k]
  <2>1. 0 \in S BY <1>1
  <2>2. ASSUME NEW i \in 0 .. k - 1, i \in S PROVE i + 1 \in S
    <3>1. k - (i + 1) \in 0 .. k - 1 /\ k - (i + 1) + 1 = k - i OBVIOUS
    <3>2. col[k - (i + 1)] \in Nat /\ col[k - i] \in Nat BY <3>1 DEF Walks
    <3>3. UnitsAt(str, col[k - (i + 1)]) \in {1, 2} BY DEF UnitsAt
    <3>4. col[k - i] = col[k - (i + 1)] + UnitsAt(str, col[k - (i + 1)])
      BY <3>1 DEF Walks
    <3> QED BY <1>1, <2>2, <3>2, <3>3, <3>4
  <2>3. \A i \in 0 .. k : i \in S
    <3> HIDE DEF S
    <3> QED BY <2>1, <2>2, UpTo
  <2>4. ASSUME NEW i \in 0 .. k PROVE col[i] <= col[k]
    <3>1. k - i \in 0 .. k /\ k - (k - i) = i OBVIOUS
    <3> QED BY <2>3, <3>1
  <2> QED BY <2>4
<1>4. Walks(short, col, k)
  <2>1. ASSUME NEW i \in 0 .. k - 1
        PROVE  col[i] < Len(short) /\ col[i + 1] = col[i] + UnitsAt(short, col[i])
    <3>1. UnitsAt(str, col[i]) \in {1, 2} /\ col[i + 1] = col[i] + UnitsAt(str, col[i])
      BY DEF Walks, UnitsAt
    <3>2. col[i] < col[i + 1] /\ col[i + 1] <= col[k] /\ col[i] \in Nat /\ col[i + 1] \in Nat
      BY <1>3, <3>1 DEF Walks
    <3>3. col[i] < col[k] /\ short[col[i] + 1] = str[col[i] + 1]
      BY <1>1, <1>2, <3>2, SMTT(30)
    <3> HIDE DEF short
    <3> QED BY <1>2, <3>1, <3>3 DEF UnitsAt
  <2> QED BY <2>1 DEF Walks
<1> HIDE DEF short
<1>5. countUnicodeCharacters(short) = k BY <1>1, <1>2, <1>4, WalkCount
<1> QED BY <1>5 DEF short

-----------------------------------------------------------------------------
(* The places of the characters of a text *)

\* What a line holds
Units == [kind : UnitKinds, by : Users \cup {Nobody}]

\* What a document holds: there is always a line, an empty one perhaps.
IsLines(lines) == lines \in Seq(Seq(Units)) /\ Len(lines) > 0

\* What is known of a document that spells a text
InLines(lines, c) ==
    /\ c.line \in Nat /\ c.column \in Nat /\ c = Cursor(c.line, c.column)
    /\ c.line \in 0 .. Len(lines) - 1 /\ c.column \in 0 .. Len(lines[c.line + 1])

\* The character of a kind leads from a cursor to the next one.
Follows(lines, kind, c, e) ==
    /\ kind = "newline" => c.column = Len(lines[c.line + 1]) /\ e = Cursor(c.line + 1, 0)
    /\ kind # "newline" =>
          /\ e = Cursor(c.line, e.column)
          /\ c.column < Len(lines[c.line + 1])
          /\ e.column = c.column + UnitsAt(lines[c.line + 1], c.column)

\* The types of the lines of a document
LEMMA LineFacts ==
    ASSUME NEW lines, IsLines(lines)
    PROVE  /\ Len(lines) \in Nat /\ Len(lines) > 0
           /\ \A l \in 0 .. Len(lines) - 1 : /\ Line(lines, l) = lines[l + 1]
                                             /\ lines[l + 1] \in Seq(Units)
                                             /\ Len(lines[l + 1]) \in Nat
<1>1. Len(lines) \in Nat /\ \A l \in 1 .. Len(lines) : lines[l] \in Seq(Units)
  BY LenProperties, ElementOfSeq DEF IsLines
<1>2. \A l \in 0 .. Len(lines) - 1 : l + 1 \in 1 .. Len(lines) BY <1>1
<1>3. \A l \in 0 .. Len(lines) - 1 : lines[l + 1] \in Seq(Units) /\ l < Len(lines)
  BY <1>1, <1>2
<1> QED BY <1>1, <1>3, LenProperties DEF Line, IsLines

\* The units of a character
LEMMA KindFacts ==
    /\ UnitKindsOf("wide")[1] = "high" /\ UnitKindsOf("wide")[2] = "low"
    /\ Len(UnitKindsOf("wide")) = 2 /\ DOMAIN UnitKindsOf("wide") = 1 .. 2
    /\ \A kind : kind # "wide" =>
           /\ UnitKindsOf(kind)[1] = kind
           /\ Len(UnitKindsOf(kind)) = 1 /\ DOMAIN UnitKindsOf(kind) = 1 .. 1
  BY DEF UnitKindsOf

\* The places of a spelled text are cursors of the document, one after the other.
LEMMA SpelledFacts ==
    ASSUME NEW lines, IsLines(lines), NEW text \in Seq(Kinds), NEW place,
           Spelled(lines, text, place)
    PROVE  /\ \A p \in 0 .. Len(text) : InLines(lines, place[p])
           /\ \A p \in 1 .. Len(text) : Follows(lines, text[p], place[p - 1], place[p])
<1>1. /\ Len(text) \in Nat /\ Len(lines) \in Nat /\ Len(lines) > 0
      /\ \A l \in 0 .. Len(lines) - 1 :
            Line(lines, l) = lines[l + 1] /\ Len(lines[l + 1]) \in Nat
  BY LineFacts, LenProperties
<1>2. \A p \in 1 .. Len(text) : text[p] \in Kinds BY ElementOfSeq
<1> DEFINE IsCursor(c) == c.line \in Nat /\ c.column \in Nat /\ c = Cursor(c.line, c.column)
           S == {p \in 0 .. Len(text) : IsCursor(place[p])}
           R == {p \in 0 .. Len(text) : place[Len(text) - p].line < Len(lines)}
<1>3. ASSUME NEW p \in 1 .. Len(text), IsCursor(place[p - 1])
      PROVE  IsCursor(place[p]) /\ place[p].line >= place[p - 1].line
  <2>1. Spells(lines, text[p], place[p - 1], place[p]) BY DEF Spelled
  <2>2. CASE text[p] = "newline" BY <1>3, <2>1, <2>2 DEF Spells, Cursor
  <2>3. CASE text[p] # "newline"
    <3>1. Len(UnitKindsOf(text[p])) \in Nat BY KindFacts
    <3>2. place[p] = Cursor(place[p - 1].line, place[p - 1].column + Len(UnitKindsOf(text[p])))
      BY <2>1, <2>3 DEF Spells
    <3> QED BY <1>3, <3>1, <3>2 DEF Cursor
  <2> QED BY <2>2, <2>3
<1>4. \A p \in 0 .. Len(text) : IsCursor(place[p])
  <2>1. 0 \in S BY <1>1 DEF Spelled, Cursor
  <2>2. ASSUME NEW p \in 0 .. Len(text) - 1, p \in S PROVE p + 1 \in S
    <3>1. p + 1 \in 1 .. Len(text) /\ (p + 1) - 1 = p BY <1>1
    <3> QED BY <1>3, <2>2, <3>1
  <2>3. \A p \in 0 .. Len(text) : p \in S
    <3> HIDE DEF S
    <3> QED BY <1>1, <2>1, <2>2, UpTo
  <2> QED BY <2>3
<1>5. \A p \in 0 .. Len(text) : place[p].line < Len(lines)
  <2>1. 0 \in R BY <1>1 DEF Spelled, Cursor
  <2>2. ASSUME NEW p \in 0 .. Len(text) - 1, p \in R PROVE p + 1 \in R
    <3> DEFINE q == Len(text) - p
    <3>1. /\ q \in 1 .. Len(text) /\ q - 1 = Len(text) - (p + 1)
          /\ q - 1 \in 0 .. Len(text) /\ q \in 0 .. Len(text)
      BY <1>1
    <3>2. place[q].line < Len(lines) BY <2>2
    <3>3. place[q].line >= place[q - 1].line BY <1>3, <1>4, <3>1
    <3>4. place[q - 1].line \in Nat /\ place[q].line \in Nat BY <1>4, <3>1
    <3> HIDE DEF q
    <3>5. place[q - 1].line < Len(lines) BY <1>1, <3>2, <3>3, <3>4
    <3> QED BY <3>1, <3>5
  <2>3. \A p \in 0 .. Len(text) : p \in R
    <3> HIDE DEF R
    <3> QED BY <1>1, <2>1, <2>2, UpTo
  <2>4. ASSUME NEW p \in 0 .. Len(text) PROVE place[p].line < Len(lines)
    <3>1. Len(text) - p \in 0 .. Len(text) /\ Len(text) - (Len(text) - p) = p
      BY <1>1
    <3> QED BY <2>3, <3>1
  <2> QED BY <2>4
<1>6. \A p \in 0 .. Len(text) : place[p].line \in 0 .. Len(lines) - 1
  BY <1>1, <1>4, <1>5
<1>7. ASSUME NEW p \in 1 .. Len(text)
      PROVE  /\ Follows(lines, text[p], place[p - 1], place[p])
             /\ InLines(lines, place[p])
  <2> DEFINE c == place[p - 1]
             e == place[p]
             line == lines[c.line + 1]
  <2>1. /\ IsCursor(c) /\ IsCursor(e) /\ c.line \in 0 .. Len(lines) - 1
        /\ e.line \in 0 .. Len(lines) - 1
    BY <1>1, <1>4, <1>6
  <2>2. Line(lines, c.line) = line /\ Len(line) \in Nat BY <1>1, <2>1
  <2>3. Spells(lines, text[p], c, e) BY DEF Spelled
  <2>4. CASE text[p] = "newline"
    <3>1. c.column = Len(line) /\ e = Cursor(c.line + 1, 0)
      BY <2>2, <2>3, <2>4 DEF Spells
    <3>2. e.column = 0 /\ Len(lines[e.line + 1]) \in Nat
      BY <1>1, <2>1, <3>1 DEF Cursor
    <3> QED BY <2>1, <2>4, <3>1, <3>2 DEF Follows, InLines
  <2>5. CASE text[p] # "newline"
    <3> DEFINE units == UnitKindsOf(text[p])
    <3>1. /\ e = Cursor(c.line, c.column + Len(units)) /\ e.column <= Len(line)
          /\ \A i \in DOMAIN units : line[c.column + i].kind = units[i]
      BY <2>2, <2>3, <2>5 DEF Spells
    <3>2. 1 \in DOMAIN units /\ (units[1] = "high" <=> text[p] = "wide")
      BY <1>2, KindFacts DEF Kinds
    <3>3. Len(units) = UnitsAt(line, c.column) /\ Len(units) \in {1, 2}
      BY <3>1, <3>2, KindFacts DEF UnitsAt
    <3>4. e.line = c.line /\ e.column = c.column + Len(units) BY <3>1 DEF Cursor
    <3>5. c.column < Len(line) /\ e.column \in 0 .. Len(line)
      BY <2>1, <2>2, <3>1, <3>3, <3>4, SMTT(30)
    <3> HIDE DEF units
    <3> QED BY <2>1, <2>5, <3>3, <3>4, <3>5 DEF Follows, InLines
  <2> QED BY <2>4, <2>5
<1>8. InLines(lines, place[0])
  <2>1. place[0].line = 0 /\ place[0].column = 0 BY DEF Spelled, Cursor
  <2>2. Len(lines[0 + 1]) \in Nat BY <1>1
  <2> QED BY <1>1, <1>4, <2>1, <2>2 DEF InLines
<1> QED BY <1>1, <1>7, <1>8

\* The start and the end of the line of a place
LEMMA LineStart ==
    ASSUME NEW lines, IsLines(lines), NEW text \in Seq(Kinds), NEW place,
           Spelled(lines, text, place), NEW p \in 0 .. Len(text)
    PROVE  \E q \in 0 .. p : /\ place[q] = Cursor(place[p].line, 0)
                             /\ \A i \in q + 1 .. p : text[i] # "newline"
<1>1. Len(text) \in Nat BY LenProperties
<1> DEFINE Starts(n, q) == /\ place[q] = Cursor(place[n].line, 0)
                           /\ \A i \in q + 1 .. n : text[i] # "newline"
           S == {n \in 0 .. Len(text) : \E q \in 0 .. n : Starts(n, q)}
<1>2. 0 \in S
  <2>1. Starts(0, 0) BY DEF Spelled, Cursor
  <2> QED BY <1>1, <2>1
<1>3. ASSUME NEW n \in 0 .. Len(text) - 1, n \in S PROVE n + 1 \in S
  <2>1. n + 1 \in 1 .. Len(text) /\ n + 1 \in 0 .. Len(text) /\ (n + 1) - 1 = n
    BY <1>1
  <2>2. Follows(lines, text[n + 1], place[n], place[n + 1]) BY <2>1, SpelledFacts
  <2>3. CASE text[n + 1] = "newline"
    <3>1. Starts(n + 1, n + 1) BY <2>1, <2>2, <2>3 DEF Follows, Cursor
    <3> QED BY <2>1, <3>1
  <2>4. CASE text[n + 1] # "newline"
    <3>1. place[n + 1].line = place[n].line BY <2>2, <2>4 DEF Follows, Cursor
    <3>2. PICK q \in 0 .. n : Starts(n, q) BY <1>3
    <3>3. Starts(n + 1, q)
      <4>1. \A i \in q + 1 .. n + 1 : i = n + 1 \/ i \in q + 1 .. n OBVIOUS
      <4> QED BY <2>4, <3>1, <3>2, <4>1
    <3> HIDE DEF Starts
    <3> QED BY <2>1, <3>3
  <2> QED BY <2>3, <2>4
<1>4. \A n \in 0 .. Len(text) : n \in S
  <2> HIDE DEF S
  <2> QED BY <1>1, <1>2, <1>3, UpTo
<1> QED BY <1>4

\* Behind each place, the end of its line is a place too, with no newline between.
LEMMA LineEnd ==
    ASSUME NEW lines, IsLines(lines), NEW text \in Seq(Kinds), NEW place,
           Spelled(lines, text, place), NEW p \in 0 .. Len(text)
    PROVE  \E e \in p .. Len(text) :
               /\ e = Len(text) \/ text[e + 1] = "newline"
               /\ place[e] = Cursor(place[p].line, Len(lines[place[p].line + 1]))
               /\ \A i \in p + 1 .. e : text[i] # "newline"
<1>1. Len(text) \in Nat BY LenProperties
<1> DEFINE len == Len(text)
           Ends(n, e) == /\ e = len \/ text[e + 1] = "newline"
                         /\ place[e] = Cursor(place[n].line, Len(lines[place[n].line + 1]))
                         /\ \A i \in n + 1 .. e : text[i] # "newline"
           S == {m \in 0 .. len : \E e \in len - m .. len : Ends(len - m, e)}
<1>2. 0 \in S
  <2>1. place[len].line = Len(lines) - 1 BY DEF Spelled, Cursor
  <2>2. Len(lines) \in Nat BY LineFacts
  <2>3. Ends(len, len) BY <2>1, <2>2 DEF Spelled
  <2>4. len - 0 = len /\ len \in len - 0 .. len BY <1>1
  <2> HIDE DEF Ends, len
  <2> QED BY <1>1, <2>3, <2>4 DEF len
<1>3. ASSUME NEW m \in 0 .. len - 1, m \in S PROVE m + 1 \in S
  <2> DEFINE n == len - (m + 1)
  <2>1. /\ n \in 0 .. len /\ n + 1 \in 1 .. len /\ n + 1 = len - m /\ (n + 1) - 1 = n
        /\ m + 1 \in 0 .. len
    BY <1>1
  <2>2. Follows(lines, text[n + 1], place[n], place[n + 1]) /\ InLines(lines, place[n])
    BY <2>1, SpelledFacts
  <2>3. CASE text[n + 1] = "newline"
    <3>1. place[n].column = Len(lines[place[n].line + 1]) BY <2>2, <2>3 DEF Follows
    <3>2. Ends(n, n) BY <2>1, <2>2, <2>3, <3>1 DEF InLines
    <3>3. n \in n .. len BY <2>1
    <3> HIDE DEF Ends, n
    <3> QED BY <2>1, <3>2, <3>3 DEF n
  <2>4. CASE text[n + 1] # "newline"
    <3>1. place[n + 1].line = place[n].line
      BY <2>2, <2>4, SMTT(30) DEF Follows, Cursor
    <3>2. PICK e \in n + 1 .. len : Ends(n + 1, e) BY <1>3, <2>1
    <3>3. Ends(n, e)
      <4>1. \A i \in n + 1 .. e : i = n + 1 \/ i \in (n + 1) + 1 .. e
        <5>1. n \in Nat /\ e \in Int BY <1>1, <2>1
        <5> HIDE DEF n
        <5> QED BY <5>1
      <4> QED BY <2>4, <3>1, <3>2, <4>1
    <3>4. e \in n .. len BY <2>1
    <3> HIDE DEF Ends, n
    <3> QED BY <2>1, <3>3, <3>4 DEF n
  <2> QED BY <2>3, <2>4
<1>4. \A m \in 0 .. len : m \in S
  <2> HIDE DEF S
  <2> QED BY <1>1, <1>2, <1>3, UpTo
<1>5. len - p \in 0 .. len /\ len - (len - p) = p BY <1>1
<1>6. len - p \in S BY <1>4, <1>5
<1> QED BY <1>5, <1>6

\* The rest of a line
LEMMA RestFacts ==
    ASSUME NEW U, NEW str \in Seq(U), NEW c \in 0 .. Len(str)
    PROVE  /\ SubSeq(str, c + 1, Len(str)) \in Seq(U)
           /\ Len(SubSeq(str, c + 1, Len(str))) = Len(str) - c
           /\ \A i \in 1 .. Len(str) - c : SubSeq(str, c + 1, Len(str))[i] = str[c + i]
<1>1. Len(str) \in Nat /\ \A i \in 1 .. Len(str) : str[i] \in U
  BY LenProperties, ElementOfSeq
<1>2. \A i \in c + 1 .. Len(str) : str[i] \in U BY <1>1
<1>3. c + 1 \in Int /\ Len(str) \in Int BY <1>1
<1> DEFINE rest == SubSeq(str, c + 1, Len(str))
<1>4. /\ rest \in Seq(U)
      /\ Len(rest) = IF c + 1 <= Len(str) THEN Len(str) - (c + 1) + 1 ELSE 0
      /\ \A i \in 1 .. Len(str) - (c + 1) + 1 : rest[i] = str[(c + 1) + i - 1]
  BY <1>2, <1>3, SubSeqProperties
<1> HIDE DEF rest
<1>5. Len(rest) = Len(str) - c BY <1>1, <1>4
<1>6. ASSUME NEW i \in 1 .. Len(str) - c PROVE rest[i] = str[c + i]
  <2>1. i \in 1 .. Len(str) - (c + 1) + 1 /\ (c + 1) + i - 1 = c + i BY <1>1
  <2> QED BY <1>4, <2>1
<1> QED BY <1>4, <1>5, <1>6 DEF rest

\* From a place to a later one in the same line the loop walks over the characters
\* between them.
LEMMA RestWalks ==
    ASSUME NEW lines, IsLines(lines), NEW text \in Seq(Kinds), NEW place,
           Spelled(lines, text, place), NEW q \in 0 .. Len(text), NEW e \in q .. Len(text),
           \A i \in q + 1 .. e : text[i] # "newline",
           NEW rest,
           rest = SubSeq(lines[place[q].line + 1], place[q].column + 1,
                         Len(lines[place[q].line + 1])),
           NEW col, col = [i \in 0 .. e - q |-> place[q + i].column - place[q].column]
    PROVE  /\ Len(rest) = Len(lines[place[q].line + 1]) - place[q].column
           /\ Len(rest) \in Nat
           /\ Walks(rest, col, e - q)
           /\ \A i \in q .. e : place[i].line = place[q].line
<1>1. Len(text) \in Nat BY LenProperties
<1> DEFINE line == lines[place[q].line + 1]
           start == place[q].column
<1>2. /\ \A i \in 0 .. Len(text) : InLines(lines, place[i])
      /\ \A i \in 1 .. Len(text) : Follows(lines, text[i], place[i - 1], place[i])
  BY SpelledFacts
<1>3. /\ line \in Seq(Units) /\ Len(line) \in Nat /\ start \in 0 .. Len(line)
      /\ \A i \in 0 .. Len(text) : place[i].column \in Nat
  BY <1>2, LineFacts DEF InLines
<1>4. /\ Len(rest) = Len(line) - start
      /\ \A i \in 1 .. Len(line) - start : rest[i] = line[start + i]
  <2> HIDE DEF line, start
  <2> QED BY <1>3, RestFacts DEF line, start
<1> DEFINE S == {i \in 0 .. e - q : place[q + i].line = place[q].line /\ place[q + i].column >= start}
<1>5. \A i \in 0 .. e - q : place[q + i].line = place[q].line /\ place[q + i].column >= start
  <2>1. 0 \in S BY <1>3
  <2>2. ASSUME NEW i \in 0 .. (e - q) - 1, i \in S PROVE i + 1 \in S
    <3>1. /\ q + (i + 1) \in q + 1 .. e /\ q + (i + 1) \in 1 .. Len(text)
          /\ (q + (i + 1)) - 1 = q + i /\ q + i \in 0 .. Len(text)
      BY <1>1
    <3>2. Follows(lines, text[q + (i + 1)], place[q + i], place[q + (i + 1)])
      BY <1>2, <3>1
    <3>3. text[q + (i + 1)] # "newline" BY <3>1
    <3>4. /\ place[q + (i + 1)].line = place[q + i].line
          /\ place[q + (i + 1)].column > place[q + i].column
      <4>1. place[q + i].column \in Nat BY <1>3, <3>1
      <4>2. UnitsAt(lines[place[q + i].line + 1], place[q + i].column) \in {1, 2}
        BY DEF UnitsAt
      <4> QED BY <3>2, <3>3, <4>1, <4>2, SMTT(30) DEF Follows, Cursor
    <3>5. place[q + (i + 1)].column \in Nat /\ place[q + i].column \in Nat
      BY <1>3, <3>1
    <3>6. start \in Nat BY <1>3
    <3>7. i + 1 \in 0 .. e - q BY <1>1
    <3> HIDE DEF start
    <3>8. place[q + (i + 1)].column >= start BY <2>2, <3>4, <3>5, <3>6
    <3> QED BY <2>2, <3>4, <3>7, <3>8
  <2>3. \A i \in 0 .. e - q : i \in S
    <3>1. e - q \in Nat BY <1>1
    <3> HIDE DEF S
    <3> QED BY <2>1, <2>2, <3>1, UpTo
  <2> QED BY <2>3
<1>6. ASSUME NEW i \in 0 .. (e - q) - 1
      PROVE  col[i] < Len(rest) /\ col[i + 1] = col[i] + UnitsAt(rest, col[i])
  <2>1. /\ q + (i + 1) \in q + 1 .. e /\ q + (i + 1) \in 1 .. Len(text)
        /\ (q + (i + 1)) - 1 = q + i /\ q + i \in 0 .. Len(text)
        /\ i \in 0 .. e - q /\ i + 1 \in 0 .. e - q
    BY <1>1
  <2>2. text[q + (i + 1)] # "newline" BY <2>1
  <2>3. Follows(lines, text[q + (i + 1)], place[q + i], place[q + (i + 1)])
    BY <1>2, <2>1
  <2>4. place[q + i].line = place[q].line /\ place[q + i].column >= start
    BY <1>5, <2>1
  <2>5. /\ place[q + i].column < Len(line)
        /\ place[q + (i + 1)].column = place[q + i].column + UnitsAt(line, place[q + i].column)
    BY <2>2, <2>3, <2>4 DEF Follows
  <2>6. place[q + i].column \in Nat BY <1>3, <2>1
  <2>7. /\ col[i] = place[q + i].column - start
        /\ col[i + 1] = place[q + (i + 1)].column - start
    BY <2>1
  <2>8. start \in Nat /\ Len(line) \in Nat BY <1>3
  <2> HIDE DEF line, start
  <2>9. rest[col[i] + 1] = line[place[q + i].column + 1]
    <3>1. col[i] + 1 \in 1 .. Len(line) - start /\ start + (col[i] + 1) = place[q + i].column + 1
      BY <2>8, <2>4, <2>5, <2>6, <2>7, SMTT(30)
    <3> QED BY <1>4, <3>1
  <2>10. UnitsAt(rest, col[i]) = UnitsAt(line, place[q + i].column)
    BY <2>9 DEF UnitsAt
  <2>11. UnitsAt(rest, col[i]) \in Nat BY DEF UnitsAt
  <2>12. col[i] < Len(line) - start BY <2>8, <2>5, <2>6, <2>7, SMTT(30)
  <2>13. col[i + 1] = col[i] + UnitsAt(rest, col[i])
    <3> DEFINE u == UnitsAt(rest, col[i])
               next == place[q + (i + 1)].column
    <3>1. next = place[q + i].column + u /\ col[i + 1] = next - start
      BY <2>5, <2>7, <2>10
    <3> HIDE DEF u, next
    <3>2. col[i + 1] = col[i] + u BY <2>11, <2>8, <2>6, <2>7, <3>1 DEF u
    <3> QED BY <3>2 DEF u
  <2> QED BY <1>4, <2>12, <2>13
<1>7. ASSUME NEW i \in 0 .. e - q PROVE col[i] \in Nat
  <2>1. q + i \in 0 .. Len(text) BY <1>1
  <2>2. place[q + i].column \in Nat BY <1>3, <2>1
  <2>3. place[q + i].column >= start /\ start \in Nat BY <1>3, <1>5
  <2>4. col[i] = place[q + i].column - start OBVIOUS
  <2> HIDE DEF start
  <2> QED BY <2>2, <2>3, <2>4
<1>8. col[0] = 0
  <2>1. 0 \in 0 .. e - q /\ q + 0 = q BY <1>1
  <2> QED BY <1>3, <2>1
<1>9. ASSUME NEW i \in q .. e PROVE place[i].line = place[q].line
  <2>1. i - q \in 0 .. e - q /\ q + (i - q) = i BY <1>1
  <2> QED BY <1>5, <2>1
<1>10. Walks(rest, col, e - q) BY <1>6, <1>7, <1>8 DEF Walks
<1>11. Len(rest) \in Nat
  <2>1. Len(line) - start \in Nat
    <3>1. start \in 0 .. Len(line) /\ Len(line) \in Nat BY <1>3
    <3> HIDE DEF start, line
    <3> QED BY <3>1
  <2> QED BY <1>4, <2>1
<1> QED BY <1>4, <1>9, <1>10, <1>11

-----------------------------------------------------------------------------
(* From an offset to a cursor *)

\* One line of offsetRelativeTo_kte(), when r code points remain
Remaining(f, lines, l, r) ==
    LET s == surrogatesForCodePoints(Line(lines, l), r)
    IN  IF s.left = 0 THEN Cursor(l, s.units) ELSE f[s.left - 1][l + 1]

\* The function of offsetRelativeTo_kte, as an equation
CursorsAre(f, lines, n) ==
    f = [r \in 0 .. n |-> [l \in Nat |-> Remaining(f, lines, l, r)]]

\* What it says of each line and each number of characters
LEMMA CursorsMeaning ==
    ASSUME NEW lines, NEW n \in Nat, NEW f, CursorsAre(f, lines, n)
    PROVE  \A l \in Nat, r \in 0 .. n : f[r][l] = Remaining(f, lines, l, r)
  BY SMTT(30) DEF CursorsAre

\* Such a function exists.
LEMMA CursorsExist ==
    ASSUME NEW lines, NEW n \in Nat
    PROVE  \E f : CursorsAre(f, lines, n)
<1> DEFINE S == {m \in 0 .. n : \E f : CursorsAre(f, lines, m)}
           sur(l, r) == surrogatesForCodePoints(Line(lines, l), r)
<1>1. 0 \in S
  <2> DEFINE f == [r \in 0 .. 0 |-> [l \in Nat |-> Cursor(l, sur(l, r).units)]]
  <2>1. \A l \in Nat, r \in 0 .. 0 : f[r][l] = Remaining(f, lines, l, r)
    <3> TAKE l \in Nat, r \in 0 .. 0
    <3>1. sur(l, r).left = 0 BY LeftIsLess
    <3>2. f[r][l] = Cursor(l, sur(l, r).units) OBVIOUS
    <3> HIDE DEF f
    <3> QED BY <3>1, <3>2 DEF Remaining
  <2>2. f = [r \in 0 .. 0 |-> [l \in Nat |-> f[r][l]]] OBVIOUS
  <2>3. CursorsAre(f, lines, 0)
    <3> HIDE DEF f
    <3> QED BY <2>1, <2>2 DEF CursorsAre
  <2> QED BY <2>3
<1>2. ASSUME NEW m \in 0 .. n - 1, m \in S PROVE m + 1 \in S
  <2>1. PICK f : CursorsAre(f, lines, m) BY <1>2
  <2>2. \A l \in Nat, r \in 0 .. m : f[r][l] = Remaining(f, lines, l, r)
    <3> HIDE DEF S
    <3> QED BY <2>1, CursorsMeaning
  <2> DEFINE g == [r \in 0 .. m + 1 |-> [l \in Nat |->
                      IF r <= m THEN f[r][l] ELSE Remaining(f, lines, l, r)]]
  <2>3. \A l \in Nat, r \in 0 .. m : g[r][l] = f[r][l] OBVIOUS
  <2>4. ASSUME NEW l \in Nat, NEW r \in 0 .. m + 1
        PROVE  g[r][l] = Remaining(f, lines, l, r)
    <3>1. CASE r <= m
      <4>1. r \in 0 .. m /\ f[r][l] = Remaining(f, lines, l, r) BY <2>2, <3>1
      <4> QED BY <2>3, <4>1
    <3>2. CASE r > m BY <3>2
    <3> QED BY <3>1, <3>2
  <2>5. g = [r \in 0 .. m + 1 |-> [l \in Nat |-> g[r][l]]] OBVIOUS
  <2> HIDE DEF g
  <2>6. ASSUME NEW l \in Nat, NEW r \in 0 .. m + 1
        PROVE  Remaining(f, lines, l, r) = Remaining(g, lines, l, r)
    <3>1. sur(l, r).left \in 0 .. r BY LeftIsLess
    <3>2. sur(l, r).left # 0 => l + 1 \in Nat /\ sur(l, r).left - 1 \in 0 .. m
      BY <3>1
    <3>3. sur(l, r).left # 0 => g[sur(l, r).left - 1][l + 1] = f[sur(l, r).left - 1][l + 1]
      BY <2>3, <3>2
    <3> QED BY <3>3 DEF Remaining
  <2>7. \A l \in Nat, r \in 0 .. m + 1 : g[r][l] = Remaining(g, lines, l, r)
    BY <2>4, <2>6
  <2>8. CursorsAre(g, lines, m + 1) BY <2>5, <2>7 DEF CursorsAre
  <2> QED BY <2>8
<1>3. n \in S
  <2>1. \A m \in 0 .. n : m \in S
    <3> HIDE DEF S
    <3> QED BY <1>1, <1>2, UpTo
  <2> QED BY <2>1
<1> QED BY <1>3

\* offsetRelativeTo_kte, read off that function
LEMMA CursorsFacts ==
    ASSUME NEW lines, NEW c, NEW n \in Nat
    PROVE  \E f : /\ \A l \in Nat, r \in 0 .. n : f[r][l] = Remaining(f, lines, l, r)
                  /\ offsetRelativeTo_kte(lines, c, n) =
                        LET rest  == SubSeq(Line(lines, c.line), c.column + 1,
                                            Len(Line(lines, c.line)))
                            first == surrogatesForCodePoints(rest, n)
                        IN  IF first.left = 0 THEN Cursor(c.line, c.column + first.units)
                            ELSE f[first.left - 1][c.line + 1]
<1> DEFINE f == CHOOSE f : CursorsAre(f, lines, n)
<1>1. CursorsAre(f, lines, n) BY CursorsExist
<1>2. offsetRelativeTo_kte(lines, c, n) =
          LET rest  == SubSeq(Line(lines, c.line), c.column + 1, Len(Line(lines, c.line)))
              first == surrogatesForCodePoints(rest, n)
          IN  IF first.left = 0 THEN Cursor(c.line, c.column + first.units)
              ELSE f[first.left - 1][c.line + 1]
  BY DEF offsetRelativeTo_kte, CursorsAre, Remaining
<1> HIDE DEF f
<1>3. \A l \in Nat, r \in 0 .. n : f[r][l] = Remaining(f, lines, l, r)
  BY <1>1, CursorsMeaning, SMTT(30)
<1> QED BY <1>2, <1>3

\* The code points from one place to a later one are counted by the cursors.
LEMMA PlaceOfOffset ==
    ASSUME NEW lines, IsLines(lines), NEW text \in Seq(Kinds), NEW place,
           Spelled(lines, text, place), NEW p \in 0 .. Len(text), NEW n \in 0 .. Len(text) - p
    PROVE  offsetRelativeTo_kte(lines, place[p], n) = place[p + n]
<1>1. Len(text) \in Nat /\ n \in Nat BY LenProperties, SMTT(30)
<1>2. PICK f : /\ \A l \in Nat, r \in 0 .. n : f[r][l] = Remaining(f, lines, l, r)
               /\ offsetRelativeTo_kte(lines, place[p], n) =
                    LET rest  == SubSeq(Line(lines, place[p].line), place[p].column + 1,
                                        Len(Line(lines, place[p].line)))
                        first == surrogatesForCodePoints(rest, n)
                    IN  IF first.left = 0
                        THEN Cursor(place[p].line, place[p].column + first.units)
                        ELSE f[first.left - 1][place[p].line + 1]
  <2>1. PICK c : c = place[p] OBVIOUS
  <2>2. PICK f : /\ \A l \in Nat, r \in 0 .. n : f[r][l] = Remaining(f, lines, l, r)
                 /\ offsetRelativeTo_kte(lines, c, n) =
                      LET rest  == SubSeq(Line(lines, c.line), c.column + 1,
                                          Len(Line(lines, c.line)))
                          first == surrogatesForCodePoints(rest, n)
                      IN  IF first.left = 0 THEN Cursor(c.line, c.column + first.units)
                          ELSE f[first.left - 1][c.line + 1]
    BY <1>1, CursorsFacts
  <2> QED BY <2>1, <2>2
<1>3. /\ \A i \in 0 .. Len(text) : InLines(lines, place[i])
      /\ \A i \in 1 .. Len(text) : Follows(lines, text[i], place[i - 1], place[i])
  BY SpelledFacts
\* The rest of the line of a place, with its end
<1> DEFINE Rest(q) == SubSeq(lines[place[q].line + 1], place[q].column + 1,
                             Len(lines[place[q].line + 1]))
<1>4. ASSUME NEW q \in 0 .. Len(text), NEW r \in 0 .. Len(text) - q
      PROVE  LET s == surrogatesForCodePoints(Rest(q), r)
             IN  \/ /\ s.left = 0
                    /\ place[q + r] = Cursor(place[q].line, place[q].column + s.units)
                 \/ \E e \in q .. q + r - 1 :
                       /\ s.left = r - (e - q)
                       /\ place[e + 1] = Cursor(place[q].line + 1, 0)
  <2> DEFINE s == surrogatesForCodePoints(Rest(q), r)
  <2>1. PICK e \in q .. Len(text) :
            /\ e = Len(text) \/ text[e + 1] = "newline"
            /\ place[e] = Cursor(place[q].line, Len(lines[place[q].line + 1]))
            /\ \A i \in q + 1 .. e : text[i] # "newline"
    BY LineEnd
  <2> DEFINE col == [i \in 0 .. e - q |-> place[q + i].column - place[q].column]
             rest == Rest(q)
  <2>2. /\ Len(rest) = Len(lines[place[q].line + 1]) - place[q].column
        /\ Len(rest) \in Nat
        /\ Walks(rest, col, e - q)
        /\ \A i \in q .. e : place[i].line = place[q].line
    BY <2>1, RestWalks, SMTT(30)
  <2>3. e - q \in 0 .. e - q /\ q + (e - q) = e /\ e - q \in Nat /\ e \in 0 .. Len(text)
    BY <1>1
  <2>4. col[e - q] = Len(rest)
    <3>1. place[e].column = Len(lines[place[q].line + 1]) BY <2>1 DEF Cursor
    <3>2. col[e - q] = place[q + (e - q)].column - place[q].column BY <2>3
    <3> HIDE DEF col, rest
    <3> QED BY <2>2, <2>3, <3>1, <3>2
  <2>5. /\ r <= e - q => s = [units |-> col[r], left |-> 0]
        /\ r >= e - q => s = [units |-> Len(rest), left |-> r - (e - q)]
    <3>1. r \in Nat BY <1>1
    <3> HIDE DEF col, rest
    <3>2. /\ r <= e - q =>
                 surrogatesForCodePoints(rest, r) = [units |-> col[r], left |-> 0]
          /\ r >= e - q /\ col[e - q] = Len(rest) =>
                 surrogatesForCodePoints(rest, r) = [units |-> Len(rest), left |-> r - (e - q)]
      BY <2>2, <2>3, <3>1, WalkUnits
    <3>3. s = surrogatesForCodePoints(rest, r) BY DEF rest
    <3> HIDE DEF s
    <3> QED BY <2>4, <3>2, <3>3
  <2>6. CASE r <= e - q
    <3>1. r \in 0 .. e - q /\ q + r \in q .. e /\ q + r \in 0 .. Len(text)
      BY <1>1, <2>6
    <3>2. s.left = 0 /\ s.units = place[q + r].column - place[q].column
      BY <2>5, <2>6, <3>1
    <3>3. /\ place[q + r] = Cursor(place[q + r].line, place[q + r].column)
          /\ place[q + r].column \in Nat /\ place[q].column \in Nat
      BY <1>3, <3>1 DEF InLines
    <3>4. place[q + r].line = place[q].line BY <2>2, <3>1
    <3> HIDE DEF s
    <3>5. place[q].column + s.units = place[q + r].column BY <3>2, <3>3
    <3>6. place[q + r] = Cursor(place[q].line, place[q].column + s.units)
      BY <3>3, <3>4, <3>5
    <3> QED BY <3>2, <3>6 DEF s
  <2>7. CASE r > e - q
    <3>1. e \in q .. q + r - 1 /\ e + 1 \in 1 .. Len(text) /\ (e + 1) - 1 = e
      BY <1>1, <2>3, <2>7
    <3>2. s.left = r - (e - q) BY <2>3, <2>5, <2>7
    <3>3. Follows(lines, text[e + 1], place[e], place[e + 1]) /\ text[e + 1] = "newline"
      BY <1>1, <1>3, <2>1, <3>1
    <3>4. place[e + 1] = Cursor(place[q].line + 1, 0)
      BY <2>1, <3>3 DEF Follows, Cursor
    <3> HIDE DEF s
    <3> QED BY <3>1, <3>2, <3>4 DEF s
  <2> QED BY <1>1, <2>6, <2>7
<1> DEFINE Right(r) == \A q \in 0 .. Len(text) - r :
                          place[q].column = 0 => f[r][place[q].line] = place[q + r]
           S == {m \in 0 .. n : \A r \in 0 .. m : Right(r)}
\* One line, when those with fewer code points to go are right
<1>5. ASSUME NEW m \in 0 .. n, \A r \in 0 .. m - 1 : Right(r)
      PROVE  Right(m)
  <2> SUFFICES ASSUME NEW q \in 0 .. Len(text) - m, place[q].column = 0
               PROVE  f[m][place[q].line] = place[q + m] OBVIOUS
  <2>1. q \in 0 .. Len(text) /\ m \in 0 .. Len(text) - q /\ m \in Nat BY <1>1
  <2>2. InLines(lines, place[q]) BY <1>3, <2>1
  <2> DEFINE line == lines[place[q].line + 1]
             s == surrogatesForCodePoints(line, m)
  <2>3. Rest(q) = line
    <3>1. line \in Seq(Units) BY <2>2, LineFacts DEF InLines
    <3>2. place[q].column + 1 = 1 OBVIOUS
    <3> HIDE DEF line
    <3> QED BY <3>1, <3>2, SubSeqFull DEF line
  <2>4. f[m][place[q].line] = IF s.left = 0 THEN Cursor(place[q].line, s.units)
                              ELSE f[s.left - 1][place[q].line + 1]
    <3>1. place[q].line \in Nat /\ Line(lines, place[q].line) = line
      BY <2>2, LineFacts DEF InLines
    <3>2. f[m][place[q].line] = Remaining(f, lines, place[q].line, m) BY <1>2, <3>1
    <3> QED BY <3>1, <3>2 DEF Remaining
  <2>5. \/ s.left = 0 /\ place[q + m] = Cursor(place[q].line, place[q].column + s.units)
        \/ \E e \in q .. q + m - 1 : /\ s.left = m - (e - q)
                                     /\ place[e + 1] = Cursor(place[q].line + 1, 0)
    BY <1>4, <2>1, <2>3, ZenonT(40)
  <2>6. CASE s.left = 0 /\ place[q + m] = Cursor(place[q].line, place[q].column + s.units)
    <3>1. place[q + m].column = place[q].column + s.units BY <2>6 DEF Cursor
    <3>2. s.units \in Nat => place[q].column + s.units = s.units OBVIOUS
    <3>3. s.units \in Nat
      <4>1. LET t == surrogatesForCodePoints(line, m) IN t.units \in Nat
        <5>1. PICK g :
                  /\ OffsetsAre(g, line, m)
                  /\ s = [units |-> g[m],
                          left  |-> Cardinality({k \in 0 .. m - 1 : g[k] >= Len(line)})]
          BY <2>1, OffsetsFacts
        <5>2. Len(line) \in Nat BY <2>2, LineFacts DEF InLines
        <5>3. g[m] \in Nat
          <6> HIDE DEF line
          <6> QED BY <2>1, <5>1, <5>2, OffsetsNat
        <5> QED BY <5>1, <5>3
      <4> QED BY <4>1
    <3> QED BY <2>4, <2>6, <3>2, <3>3
  <2>7. ASSUME NEW e \in q .. q + m - 1, s.left = m - (e - q),
               place[e + 1] = Cursor(place[q].line + 1, 0)
        PROVE  f[m][place[q].line] = place[q + m]
    <3> DEFINE r == m - (e - q) - 1
    <3>1. /\ r \in 0 .. m - 1 /\ s.left # 0 /\ s.left - 1 = r
          /\ e + 1 \in 0 .. Len(text) - r /\ (e + 1) + r = q + m
      BY <1>1, <2>1, <2>7
    <3>2. place[e + 1].column = 0 /\ place[e + 1].line = place[q].line + 1
      BY <2>7 DEF Cursor
    <3>3. Right(r) BY <1>5, <3>1
    <3>4. f[r][place[e + 1].line] = place[(e + 1) + r] BY <3>1, <3>2, <3>3
    <3> HIDE DEF r, s
    <3> QED BY <2>4, <3>1, <3>2, <3>4
  <2> QED BY <2>5, <2>6, <2>7
<1>6. \A r \in 0 .. n : Right(r)
  <2> HIDE DEF Right
  <2>1. 0 \in S
    <3>1. Right(0) BY <1>1, <1>5
    <3> QED BY <1>1, <3>1
  <2>2. ASSUME NEW m \in 0 .. n - 1, m \in S PROVE m + 1 \in S
    <3>1. m + 1 \in 0 .. n /\ \A r \in 0 .. (m + 1) - 1 : Right(r) BY <1>1, <2>2
    <3>2. Right(m + 1) BY <1>5, <3>1
    <3>3. \A r \in 0 .. m + 1 : r = m + 1 \/ r \in 0 .. m OBVIOUS
    <3> QED BY <2>2, <3>1, <3>2, <3>3
  <2>3. \A m \in 0 .. n : m \in S
    <3> HIDE DEF S
    <3> QED BY <1>1, <2>1, <2>2, UpTo
  <2> QED BY <1>1, <2>3
<1>7. Line(lines, place[p].line) = lines[place[p].line + 1]
  BY <1>3, LineFacts DEF InLines
<1> DEFINE first == surrogatesForCodePoints(Rest(p), n)
<1>8. offsetRelativeTo_kte(lines, place[p], n) =
          IF first.left = 0 THEN Cursor(place[p].line, place[p].column + first.units)
          ELSE f[first.left - 1][place[p].line + 1]
  BY <1>2, <1>7
<1>9. \/ /\ first.left = 0
         /\ place[p + n] = Cursor(place[p].line, place[p].column + first.units)
      \/ \E e \in p .. p + n - 1 : /\ first.left = n - (e - p)
                                   /\ place[e + 1] = Cursor(place[p].line + 1, 0)
  BY <1>4
<1>10. ASSUME NEW e \in p .. p + n - 1, first.left = n - (e - p),
              place[e + 1] = Cursor(place[p].line + 1, 0)
       PROVE  offsetRelativeTo_kte(lines, place[p], n) = place[p + n]
  <2> DEFINE r == n - (e - p) - 1
  <2>1. /\ r \in 0 .. n /\ first.left # 0 /\ first.left - 1 = r
        /\ e + 1 \in 0 .. Len(text) - r /\ (e + 1) + r = p + n
    BY <1>1, <1>10
  <2>2. place[e + 1].column = 0 /\ place[e + 1].line = place[p].line + 1
    BY <1>10 DEF Cursor
  <2>3. f[r][place[e + 1].line] = place[(e + 1) + r] BY <1>6, <2>1, <2>2
  <2> HIDE DEF r, first
  <2> QED BY <1>8, <2>1, <2>2, <2>3
<1> QED BY <1>8, <1>9, <1>10

-----------------------------------------------------------------------------
(* From a cursor to an offset *)

\* The sums of the lines above in cursorToOffset_kte, as an equation
SumsAre(f, lines, n) ==
    f = [i \in 0 .. n |->
            IF i = 0 THEN 0 ELSE f[i - 1] + countUnicodeCharacters(lines[i]) + 1]

\* Those sums exist.
LEMMA SumsExist ==
    ASSUME NEW lines, NEW n \in Nat
    PROVE  \E f : SumsAre(f, lines, n)
<1> DEFINE S == {m \in 0 .. n : \E f : SumsAre(f, lines, m)}
<1>1. 0 \in S
  <2>1. SumsAre([k \in 0 .. 0 |-> 0], lines, 0) BY DEF SumsAre
  <2> QED BY <2>1
<1>2. ASSUME NEW i \in 0 .. n - 1, i \in S PROVE i + 1 \in S
  <2>1. PICK f : SumsAre(f, lines, i) BY <1>2
  <2>2. PICK g : LongerBy(g, f, i, f[i] + countUnicodeCharacters(lines[i + 1]) + 1)
    BY OneMore
  <2>3. \A k \in 0 .. i + 1 : g[k] = IF k = 0 THEN 0
                                        ELSE g[k - 1] + countUnicodeCharacters(lines[k]) + 1
    BY <2>1, <2>2 DEF LongerBy, SumsAre
  <2>4. SumsAre(g, lines, i + 1) BY <2>2, <2>3 DEF LongerBy, SumsAre
  <2> QED BY <2>4
<1>3. n \in S
  <2> HIDE DEF S
  <2> QED BY <1>1, <1>2, UpTo
<1> QED BY <1>3

\* cursorToOffset_kte, read off those sums
LEMMA SumsFacts ==
    ASSUME NEW lines, NEW c, c.line \in Nat
    PROVE  \E f : /\ SumsAre(f, lines, c.line)
                  /\ cursorToOffset_kte(lines, c) =
                        f[c.line] + countUnicodeCharacters(SubSeq(Line(lines, c.line), 1, c.column))
<1> DEFINE f == CHOOSE f : SumsAre(f, lines, c.line)
<1>1. SumsAre(f, lines, c.line) BY SumsExist
<1>2. cursorToOffset_kte(lines, c) =
          f[c.line] + countUnicodeCharacters(SubSeq(Line(lines, c.line), 1, c.column))
  BY DEF cursorToOffset_kte, SumsAre
<1> HIDE DEF f
<1> QED BY <1>1, <1>2

\* What is counted in a line up to a place
LEMMA CountInLine ==
    ASSUME NEW lines, IsLines(lines), NEW text \in Seq(Kinds), NEW place,
           Spelled(lines, text, place), NEW q \in 0 .. Len(text), NEW p \in q .. Len(text),
           place[q].column = 0, \A i \in q + 1 .. p : text[i] # "newline"
    PROVE  /\ place[p].line = place[q].line
           /\ countUnicodeCharacters(SubSeq(lines[place[q].line + 1], 1, place[p].column)) = p - q
<1>1. Len(text) \in Nat BY LenProperties
<1> DEFINE line == lines[place[q].line + 1]
           col == [i \in 0 .. p - q |-> place[q + i].column - place[q].column]
<1>2. InLines(lines, place[q]) /\ InLines(lines, place[p]) BY <1>1, SpelledFacts
<1>3. line \in Seq(Units) /\ Len(line) \in Nat BY <1>2, LineFacts DEF InLines
<1>4. SubSeq(line, place[q].column + 1, Len(line)) = line
  <2> HIDE DEF line
  <2>1. place[q].column + 1 = 1 OBVIOUS
  <2> QED BY <1>3, <2>1, SubSeqFull
<1>5. Walks(line, col, p - q) /\ place[p].line = place[q].line
  <2>1. PICK rest : rest = SubSeq(lines[place[q].line + 1], place[q].column + 1,
                                  Len(lines[place[q].line + 1])) OBVIOUS
  <2>2. /\ Walks(rest, col, p - q)
        /\ \A i \in q .. p : place[i].line = place[q].line
    BY <2>1, RestWalks
  <2>3. rest = line /\ p \in q .. p BY <1>1, <1>4, <2>1
  <2> HIDE DEF col, line
  <2> QED BY <2>2, <2>3
<1>6. p - q \in Nat /\ col[p - q] = place[p].column /\ place[p].column <= Len(line)
  <2>1. p - q \in 0 .. p - q /\ q + (p - q) = p /\ p - q \in Nat BY <1>1
  <2>2. col[p - q] = place[p].column - 0 BY <2>1
  <2>3. place[p].column \in Nat /\ place[p].column <= Len(line)
    BY <1>2, <1>3, <1>5 DEF InLines
  <2> QED BY <2>1, <2>2, <2>3
<1>7. countUnicodeCharacters(SubSeq(line, 1, col[p - q])) = p - q
  <2> HIDE DEF line, col
  <2> QED BY <1>3, <1>5, <1>6, WalkPrefix
<1> QED BY <1>5, <1>6, <1>7

\* And the place of an offset has that offset.
LEMMA OffsetOfPlace ==
    ASSUME NEW lines, IsLines(lines), NEW text \in Seq(Kinds), NEW place,
           Spelled(lines, text, place), NEW p \in 0 .. Len(text)
    PROVE  cursorToOffset_kte(lines, place[p]) = p
<1>1. Len(text) \in Nat BY LenProperties
<1>2. /\ \A i \in 0 .. Len(text) : InLines(lines, place[i])
      /\ \A i \in 1 .. Len(text) : Follows(lines, text[i], place[i - 1], place[i])
  BY SpelledFacts
<1> DEFINE n == place[p].line
<1>3. n \in Nat BY <1>2 DEF InLines
<1>4. PICK f : /\ SumsAre(f, lines, n)
               /\ cursorToOffset_kte(lines, place[p]) =
                     f[n] + countUnicodeCharacters(SubSeq(Line(lines, n), 1, place[p].column))
  <2>1. PICK c : c = place[p] OBVIOUS
  <2>2. PICK f : /\ SumsAre(f, lines, c.line)
                 /\ cursorToOffset_kte(lines, c) =
                        f[c.line] + countUnicodeCharacters(SubSeq(Line(lines, c.line), 1, c.column))
    BY <1>3, <2>1, SumsFacts
  <2> QED BY <2>1, <2>2
<1>5. f[0] = 0 /\ \A i \in 0 .. n - 1 : f[i + 1] = f[i] + countUnicodeCharacters(lines[i + 1]) + 1
  BY <1>3, <1>4 DEF SumsAre
\* A place at the start of a line is the first, or behind a newline.
<1>6. ASSUME NEW q \in 1 .. Len(text), place[q].column = 0
      PROVE  /\ text[q] = "newline"
             /\ place[q - 1].column = Len(lines[place[q - 1].line + 1])
             /\ place[q].line = place[q - 1].line + 1
  <2>1. Follows(lines, text[q], place[q - 1], place[q]) /\ InLines(lines, place[q - 1])
    BY <1>1, <1>2
  <2>2. UnitsAt(lines[place[q - 1].line + 1], place[q - 1].column) \in {1, 2}
    BY DEF UnitsAt
  <2>3. text[q] = "newline" BY <1>6, <2>1, <2>2 DEF Follows, InLines
  <2> QED BY <2>1, <2>3 DEF Follows, Cursor
<1> DEFINE S == {i \in 0 .. n : \A q \in 0 .. Len(text) :
                    place[q].line = i /\ place[q].column = 0 => f[i] = q}
<1>7. 0 \in S
  <2>1. ASSUME NEW q \in 0 .. Len(text), place[q].line = 0, place[q].column = 0
        PROVE  q = 0
    <3>1. CASE q > 0
      <4>1. q \in 1 .. Len(text) /\ q - 1 \in 0 .. Len(text) BY <1>1, <3>1
      <4>2. place[q].line = place[q - 1].line + 1 /\ place[q - 1].line \in Nat
        BY <1>2, <1>6, <2>1, <4>1 DEF InLines
      <4> QED BY <2>1, <4>2
    <3> QED BY <1>1, <3>1
  <2> QED BY <1>3, <1>5, <2>1
<1>8. ASSUME NEW i \in 0 .. n - 1, i \in S PROVE i + 1 \in S
  <2>1. ASSUME NEW q \in 0 .. Len(text), place[q].line = i + 1, place[q].column = 0
        PROVE  f[i + 1] = q
    <3>1. q # 0 BY <1>3, <2>1 DEF Spelled, Cursor
    <3>2. q \in 1 .. Len(text) /\ q - 1 \in 0 .. Len(text) BY <1>1, <3>1
    <3>3. /\ place[q - 1].line = i
          /\ place[q - 1].column = Len(lines[i + 1])
      <4>1. place[q].line = place[q - 1].line + 1 /\ place[q - 1].line \in Nat
        BY <1>2, <1>6, <2>1, <3>2 DEF InLines
      <4>2. place[q - 1].line = i BY <1>3, <2>1, <4>1
      <4> QED BY <1>6, <2>1, <3>2, <4>2
    <3>4. PICK s \in 0 .. q - 1 : /\ place[s] = Cursor(place[q - 1].line, 0)
                                  /\ \A j \in s + 1 .. q - 1 : text[j] # "newline"
      <4>1. PICK r : r = q - 1 OBVIOUS
      <4>2. \E s \in 0 .. r : /\ place[s] = Cursor(place[r].line, 0)
                              /\ \A j \in s + 1 .. r : text[j] # "newline"
        BY <3>2, <4>1, LineStart
      <4> QED BY <4>1, <4>2
    <3>5. place[s].line = i /\ place[s].column = 0 /\ s \in 0 .. Len(text)
      BY <1>1, <3>2, <3>3, <3>4 DEF Cursor
    <3>6. f[i] = s BY <1>8, <3>5
    <3>7. countUnicodeCharacters(lines[i + 1]) = (q - 1) - s
      <4>1. PICK r : r = q - 1 OBVIOUS
      <4>2. r \in s .. Len(text) /\ \A j \in s + 1 .. r : text[j] # "newline"
        BY <1>1, <3>2, <3>4, <4>1
      <4>3. countUnicodeCharacters(SubSeq(lines[place[s].line + 1], 1, place[r].column)) = r - s
        BY <3>5, <4>2, CountInLine
      <4>4. lines[i + 1] \in Seq(Units) BY <1>2, <3>2, <3>3, LineFacts DEF InLines
      <4>5. SubSeq(lines[i + 1], 1, Len(lines[i + 1])) = lines[i + 1]
        BY <4>4, SubSeqFull
      <4> QED BY <3>3, <3>5, <4>1, <4>3, <4>5
    <3>8. f[i + 1] = f[i] + countUnicodeCharacters(lines[i + 1]) + 1 BY <1>5
    <3> QED BY <3>2, <3>5, <3>6, <3>7, <3>8
  <2>2. i + 1 \in 0 .. n BY <1>3
  <2> HIDE DEF n
  <2> QED BY <2>1, <2>2
<1>9. \A i \in 0 .. n : i \in S
  <2> HIDE DEF S, n
  <2> QED BY <1>3, <1>7, <1>8, UpTo
<1>10. PICK q \in 0 .. p : /\ place[q] = Cursor(n, 0)
                           /\ \A i \in q + 1 .. p : text[i] # "newline"
  BY LineStart
<1>11. q \in 0 .. Len(text) /\ p \in q .. Len(text) BY <1>1
<1>12. place[q].line = n /\ place[q].column = 0 BY <1>10 DEF Cursor
<1>13. f[n] = q BY <1>3, <1>9, <1>11, <1>12
<1>14. countUnicodeCharacters(SubSeq(lines[n + 1], 1, place[p].column)) = p - q
  <2> HIDE DEF n
  <2>1. countUnicodeCharacters(SubSeq(lines[place[q].line + 1], 1, place[p].column)) = p - q
    BY <1>10, <1>11, <1>12, CountInLine
  <2> QED BY <1>12, <2>1
<1>15. Line(lines, n) = lines[n + 1] BY <1>2, LineFacts DEF InLines
<1> HIDE DEF n
<1> QED BY <1>1, <1>4, <1>11, <1>13, <1>14, <1>15

-----------------------------------------------------------------------------
(* The cursors are the places *)

\* Every line begins at a place.
LEMMA LineBegins ==
    ASSUME NEW lines, IsLines(lines), NEW text \in Seq(Kinds), NEW place,
           Spelled(lines, text, place), NEW l \in 0 .. Len(lines) - 1
    PROVE  \E p \in 0 .. Len(text) : place[p] = Cursor(l, 0)
<1>1. Len(text) \in Nat /\ Len(lines) \in Nat BY LenProperties, LineFacts
<1> DEFINE S == {i \in 0 .. Len(lines) - 1 : \E p \in 0 .. Len(text) : place[p] = Cursor(i, 0)}
<1>2. 0 \in S BY <1>1, LineFacts DEF Spelled
<1>3. ASSUME NEW i \in 0 .. (Len(lines) - 1) - 1, i \in S PROVE i + 1 \in S
  <2>1. PICK p \in 0 .. Len(text) : place[p] = Cursor(i, 0) BY <1>3
  <2>2. place[p].line = i BY <2>1 DEF Cursor
  <2>3. PICK e \in p .. Len(text) :
            /\ e = Len(text) \/ text[e + 1] = "newline"
            /\ place[e] = Cursor(place[p].line, Len(lines[place[p].line + 1]))
    BY LineEnd
  <2>4. place[e].line = i BY <2>2, <2>3 DEF Cursor
  <2>5. e # Len(text)
    <3>1. place[Len(text)].line = Len(lines) - 1 BY DEF Spelled, Cursor
    <3> QED BY <1>1, <2>4, <3>1
  <2>6. e + 1 \in 1 .. Len(text) /\ (e + 1) - 1 = e /\ e + 1 \in 0 .. Len(text)
    BY <1>1, <2>5
  <2>7. Follows(lines, text[e + 1], place[e], place[e + 1]) BY <2>6, SpelledFacts
  <2>8. place[e + 1] = Cursor(i + 1, 0) BY <2>3, <2>4, <2>5, <2>7 DEF Follows
  <2>9. i + 1 \in 0 .. Len(lines) - 1 BY <1>1
  <2> QED BY <2>6, <2>8, <2>9
<1>4. \A i \in 0 .. Len(lines) - 1 : i \in S
  <2>1. Len(lines) - 1 \in Nat BY <1>1, LineFacts
  <2> HIDE DEF S
  <2> QED BY <1>2, <1>3, <2>1, UpTo
<1> QED BY <1>4

\* Behind a place in the middle of a line is a character of one unit or of two.
LEMMA NextInLine ==
    ASSUME NEW lines, IsLines(lines), NEW text \in Seq(Kinds), NEW place,
           Spelled(lines, text, place), NEW p \in 0 .. Len(text),
           place[p].column < Len(lines[place[p].line + 1])
    PROVE  /\ p + 1 \in 1 .. Len(text) /\ text[p + 1] # "newline"
           /\ text[p + 1] # "wide" =>
                 /\ place[p + 1] = Cursor(place[p].line, place[p].column + 1)
                 /\ lines[place[p].line + 1][place[p].column + 1].kind = text[p + 1]
           /\ text[p + 1] = "wide" =>
                 /\ place[p + 1] = Cursor(place[p].line, place[p].column + 2)
                 /\ place[p].column + 2 <= Len(lines[place[p].line + 1])
                 /\ lines[place[p].line + 1][place[p].column + 1].kind = "high"
                 /\ lines[place[p].line + 1][place[p].column + 2].kind = "low"
<1>1. Len(text) \in Nat /\ Len(lines) \in Nat BY LenProperties, LineFacts
<1>2. InLines(lines, place[p]) BY SpelledFacts
<1> DEFINE l == place[p].line
           c == place[p].column
           line == lines[l + 1]
<1>3. l \in 0 .. Len(lines) - 1 /\ c \in Nat /\ Line(lines, l) = line /\ Len(line) \in Nat
  BY <1>2, LineFacts DEF InLines
<1>4. p # Len(text)
  <2>1. place[Len(text)] = Cursor(Len(lines) - 1, Len(lines[Len(lines)]))
    BY DEF Spelled
  <2>2. (Len(lines) - 1) + 1 = Len(lines) BY <1>1
  <2>3. p = Len(text) => c = Len(line) BY <2>1, <2>2 DEF Cursor
  <2>4. c # Len(line)
    <3>1. c < Len(line) OBVIOUS
    <3> HIDE DEF c, line
    <3> QED BY <1>3, <3>1
  <2> QED BY <2>3, <2>4
<1>5. p + 1 \in 1 .. Len(text) /\ (p + 1) - 1 = p BY <1>1, <1>4
<1>6. Spells(lines, text[p + 1], place[p], place[p + 1]) BY <1>5 DEF Spelled
<1>7. text[p + 1] # "newline"
  <2>1. text[p + 1] = "newline" => c = Len(line) BY <1>3, <1>6 DEF Spells
  <2>2. c < Len(line) OBVIOUS
  <2> HIDE DEF c, line
  <2> QED BY <1>3, <2>1, <2>2
<1>8. ASSUME text[p + 1] # "wide"
      PROVE  /\ place[p + 1] = Cursor(l, c + 1)
             /\ line[c + 1].kind = text[p + 1]
  <2> DEFINE units == UnitKindsOf(text[p + 1])
  <2>1. units[1] = text[p + 1] /\ Len(units) = 1 /\ DOMAIN units = 1 .. 1
    BY <1>8, KindFacts
  <2>2. place[p + 1] = Cursor(l, c + Len(units)) /\ \A i \in DOMAIN units : line[c + i].kind = units[i]
    BY <1>3, <1>6, <1>7 DEF Spells
  <2> HIDE DEF units
  <2> QED BY <2>1, <2>2
<1>9. ASSUME text[p + 1] = "wide"
      PROVE  /\ place[p + 1] = Cursor(l, c + 2)
             /\ c + 2 <= Len(line)
             /\ line[c + 1].kind = "high"
             /\ line[c + 2].kind = "low"
  <2> DEFINE units == UnitKindsOf(text[p + 1])
  <2>1. /\ units[1] = "high" /\ units[2] = "low"
        /\ Len(units) = 2 /\ DOMAIN units = 1 .. 2
    BY <1>9, KindFacts
  <2>2. /\ place[p + 1] = Cursor(l, c + Len(units))
        /\ \A i \in DOMAIN units : line[c + i].kind = units[i]
        /\ place[p + 1].column <= Len(line)
    BY <1>3, <1>6, <1>7 DEF Spells, Cursor
  <2>3. place[p + 1].column = c + 2 BY <2>1, <2>2 DEF Cursor
  <2> HIDE DEF units
  <2> QED BY <2>1, <2>2, <2>3
<1> QED BY <1>5, <1>7, <1>8, <1>9

\* The character at a cursor of a line, and where it ends
Continues(lines, text, place, p, l, k) ==
    /\ p + 1 \in 1 .. Len(text)
    /\ text[p + 1] # "wide" => /\ place[p + 1] = Cursor(l, k + 1)
                               /\ lines[l + 1][k + 1].kind = text[p + 1]
    /\ text[p + 1] = "wide" => lines[l + 1][k + 1].kind = "high"

\* In other words, at a given cursor
LEMMA NextAt ==
    ASSUME NEW lines, IsLines(lines), NEW text \in Seq(Kinds), NEW place,
           Spelled(lines, text, place), NEW p \in 0 .. Len(text),
           NEW l, NEW k, place[p] = Cursor(l, k), k < Len(lines[l + 1])
    PROVE  Continues(lines, text, place, p, l, k)
<1>1. place[p].line = l /\ place[p].column = k BY DEF Cursor
<1>2. place[p].column < Len(lines[place[p].line + 1]) BY <1>1
<1>3. /\ p + 1 \in 1 .. Len(text) /\ text[p + 1] # "newline"
      /\ text[p + 1] # "wide" =>
            /\ place[p + 1] = Cursor(place[p].line, place[p].column + 1)
            /\ lines[place[p].line + 1][place[p].column + 1].kind = text[p + 1]
      /\ text[p + 1] = "wide" =>
            /\ place[p + 1] = Cursor(place[p].line, place[p].column + 2)
            /\ place[p].column + 2 <= Len(lines[place[p].line + 1])
            /\ lines[place[p].line + 1][place[p].column + 1].kind = "high"
            /\ lines[place[p].line + 1][place[p].column + 2].kind = "low"
  BY <1>2, NextInLine
<1> QED BY <1>1, <1>3 DEF Continues

\* A cursor in a line is a place, unless it splits a pair.
LEMMA CursorIsPlace ==
    ASSUME NEW lines, IsLines(lines), NEW text \in Seq(Kinds), NEW place,
           Spelled(lines, text, place),
           NEW l \in 0 .. Len(lines) - 1, NEW k \in 0 .. Len(lines[l + 1]),
           k < Len(lines[l + 1]) => lines[l + 1][k + 1].kind # "low"
    PROVE  \E p \in 0 .. Len(text) : place[p] = Cursor(l, k)
<1> DEFINE line == lines[l + 1]
           At(n) == \E p \in 0 .. Len(text) : place[p] = Cursor(l, n)
           S == {n \in 0 .. Len(line) :
                    At(n) \/ (n < Len(line) /\ line[n + 1].kind = "low" /\ At(n + 1))}
<1>1. Len(text) \in Nat /\ Len(line) \in Nat BY LenProperties, LineFacts
<1>2. 0 \in S BY <1>1, LineBegins
<1>3. ASSUME NEW n \in 0 .. Len(line) - 1, n \in S PROVE n + 1 \in S
  <2>1. n \in Nat /\ n < Len(line) /\ n + 1 \in 0 .. Len(line) BY <1>1
  <2>2. CASE ~At(n) BY <1>3, <2>1, <2>2
  <2>3. CASE At(n)
    <3>1. PICK p \in 0 .. Len(text) : place[p] = Cursor(l, n) BY <2>3
    <3>2. place[p].line = l /\ place[p].column = n BY <3>1 DEF Cursor
    <3>3. place[p].column < Len(lines[place[p].line + 1]) BY <2>1, <3>2
    <3>4. /\ p + 1 \in 1 .. Len(text)
          /\ text[p + 1] # "wide" => place[p + 1] = Cursor(l, n + 1)
          /\ text[p + 1] = "wide" => /\ place[p + 1] = Cursor(l, n + 2)
                                     /\ n + 2 <= Len(line)
                                     /\ line[n + 2].kind = "low"
      <4>1. /\ p + 1 \in 1 .. Len(text)
            /\ text[p + 1] # "wide" =>
                  place[p + 1] = Cursor(place[p].line, place[p].column + 1)
            /\ text[p + 1] = "wide" =>
                  /\ place[p + 1] = Cursor(place[p].line, place[p].column + 2)
                  /\ place[p].column + 2 <= Len(lines[place[p].line + 1])
                  /\ lines[place[p].line + 1][place[p].column + 2].kind = "low"
        BY <3>3, NextInLine
      <4> QED BY <3>2, <4>1
    <3>5. p + 1 \in 0 .. Len(text) BY <3>4
    <3>6. CASE text[p + 1] # "wide" BY <2>1, <3>4, <3>5, <3>6
    <3>7. CASE text[p + 1] = "wide"
      <4>1. At(n + 2) /\ n + 2 <= Len(line) /\ line[n + 2].kind = "low"
        BY <3>4, <3>5, <3>7
      <4>2. (n + 1) + 1 = n + 2 /\ n + 1 < Len(line) BY <1>1, <2>1, <4>1
      <4> HIDE DEF At, line
      <4> QED BY <2>1, <4>1, <4>2
    <3> QED BY <3>6, <3>7
  <2> QED BY <2>2, <2>3
<1>4. \A n \in 0 .. Len(line) : n \in S
  <2> HIDE DEF S, line
  <2> QED BY <1>1, <1>2, <1>3, UpTo
<1> QED BY <1>4

\* The order of cursors is transitive.
LEMMA BeforeTransitive ==
    ASSUME NEW c, NEW d, NEW e, BeforeOrAt(c, d), Before(d, e),
           c.line \in Nat, d.line \in Nat, e.line \in Nat,
           c.column \in Nat, d.column \in Nat, e.column \in Nat
    PROVE  BeforeOrAt(c, e)
  BY DEF BeforeOrAt, Before

\* The places do not go back.
LEMMA PlacesInOrder ==
    ASSUME NEW lines, IsLines(lines), NEW text \in Seq(Kinds), NEW place,
           Spelled(lines, text, place), NEW p \in 0 .. Len(text), NEW q \in p .. Len(text)
    PROVE  BeforeOrAt(place[p], place[q])
<1>1. Len(text) \in Nat BY LenProperties
<1> DEFINE S == {i \in 0 .. q - p : BeforeOrAt(place[p], place[p + i])}
<1>2. 0 \in S BY <1>1 DEF BeforeOrAt
<1>3. ASSUME NEW i \in 0 .. (q - p) - 1, i \in S PROVE i + 1 \in S
  <2> DEFINE n == p + (i + 1)
  <2>1. /\ n \in 1 .. Len(text) /\ n - 1 = p + i /\ n - 1 \in 0 .. Len(text)
        /\ i + 1 \in 0 .. q - p
    BY <1>1
  <2>2. Follows(lines, text[n], place[n - 1], place[n]) /\ InLines(lines, place[n - 1])
    BY <2>1, SpelledFacts
  <2>3. InLines(lines, place[p]) BY SpelledFacts
  <2>4. Before(place[n - 1], place[n])
    <3> DEFINE c == place[n - 1]
               u == UnitsAt(lines[c.line + 1], c.column)
    <3>1. c.line \in Nat /\ c.column \in Nat BY <2>2 DEF InLines
    <3>2. u \in {1, 2} BY DEF UnitsAt
    <3>3. CASE text[n] = "newline"
      <4>1. place[n].line = c.line + 1 BY <2>2, <3>3 DEF Follows, Cursor
      <4> QED BY <3>1, <4>1 DEF Before
    <3>4. CASE text[n] # "newline"
      <4>1. place[n].line = c.line /\ place[n].column = c.column + u
        BY <2>2, <3>4 DEF Follows, Cursor
      <4> HIDE DEF u, c, n
      <4>2. place[n].column > c.column BY <3>1, <3>2, <4>1
      <4> QED BY <4>1, <4>2 DEF Before, c
    <3> QED BY <3>3, <3>4
  <2>5. BeforeOrAt(place[p], place[n - 1]) BY <1>3, <2>1
  <2>6. InLines(lines, place[n]) BY <2>1, SpelledFacts
  <2>7. BeforeOrAt(place[p], place[n])
    <3> HIDE DEF n
    <3> QED BY <2>2, <2>3, <2>4, <2>5, <2>6, BeforeTransitive DEF InLines
  <2> QED BY <2>1, <2>7
<1>4. \A i \in 0 .. q - p : i \in S
  <2>1. q - p \in Nat BY <1>1
  <2> HIDE DEF S
  <2> QED BY <1>2, <1>3, <2>1, UpTo
<1>5. q - p \in 0 .. q - p /\ p + (q - p) = q BY <1>1
<1> QED BY <1>4, <1>5

-----------------------------------------------------------------------------
(* Lines that are changed between two places *)

\* The lines are the same up to a cursor, and from one cursor on what they were
\* from another one on.
Upto(old, new, c) ==
    /\ \A l \in 1 .. c.line : new[l] = old[l]
    /\ \A i \in 1 .. c.column : new[c.line + 1][i] = old[c.line + 1][i]

\* What is behind b in the old lines is behind a in the new ones.
Beyond(old, new, b, a) ==
    /\ Len(new) - a.line = Len(old) - b.line
    /\ \A l \in b.line + 2 .. Len(old) : new[l - b.line + a.line] = old[l]
    /\ Len(new[a.line + 1]) - a.column = Len(old[b.line + 1]) - b.column
    /\ \A i \in 1 .. Len(old[b.line + 1]) - b.column :
           new[a.line + 1][a.column + i] = old[b.line + 1][b.column + i]

\* Where a cursor behind b has moved when a is where b was
Shift(x, b, a) == IF x.line = b.line THEN Cursor(a.line, a.column + (x.column - b.column))
                  ELSE Cursor(x.line - b.line + a.line, x.column)

\* The types of a cursor of a document
LEMMA InLinesFacts ==
    ASSUME NEW lines, IsLines(lines), NEW c, InLines(lines, c)
    PROVE  /\ c.line \in Nat /\ c.column \in Nat /\ Len(lines) \in Nat
           /\ c.line < Len(lines) /\ c.column <= Len(lines[c.line + 1])
           /\ Line(lines, c.line) = lines[c.line + 1]
           /\ Len(lines[c.line + 1]) \in Nat
           /\ lines[c.line + 1] \in Seq(Units) /\ lines \in Seq(Seq(Units))
<1>1. c.line \in 0 .. Len(lines) - 1 /\ c.line \in Nat /\ c.column \in Nat
  BY DEF InLines
<1>2. c.column \in 0 .. Len(lines[c.line + 1]) BY DEF InLines
<1> QED BY <1>1, <1>2, LineFacts DEF IsLines

\* An edit leaves the characters before it where they are.
LEMMA KeptUpto ==
    ASSUME NEW old, IsLines(old), NEW new, IsLines(new), NEW kind,
           NEW c, NEW d, NEW e, InLines(old, c), InLines(new, c), InLines(old, d), InLines(old, e),
           Upto(old, new, c), Spells(old, kind, d, e), BeforeOrAt(e, c)
    PROVE  Spells(new, kind, d, e)
<1>1. /\ d.line \in Nat /\ d.column \in Nat /\ e.line \in Nat /\ e.column \in Nat
      /\ c.line \in Nat /\ c.column \in Nat /\ Len(old) \in Nat /\ Len(new) \in Nat
      /\ d.line < Len(old) /\ c.line < Len(new) /\ c.column <= Len(new[c.line + 1])
      /\ Line(old, d.line) = old[d.line + 1]
      /\ Len(old[d.line + 1]) \in Nat /\ Len(new[c.line + 1]) \in Nat
  BY InLinesFacts
<1>2. e.line < c.line \/ (e.line = c.line /\ e.column <= c.column)
  BY <1>1 DEF BeforeOrAt, Before
<1>3. CASE kind = "newline"
  <2>1. d.column = Len(old[d.line + 1]) /\ e = Cursor(d.line + 1, 0)
    BY <1>1, <1>3 DEF Spells
  <2>2. d.line < c.line BY <1>1, <1>2, <2>1 DEF Cursor
  <2>3. d.line + 1 \in 1 .. c.line /\ d.line \in 0 .. Len(new) - 1
    BY <1>1, <2>2, SMTT(30)
  <2>4. new[d.line + 1] = old[d.line + 1] /\ Line(new, d.line) = new[d.line + 1]
    BY <2>3, LineFacts DEF Upto
  <2> QED BY <1>3, <2>1, <2>4 DEF Spells
<1>4. CASE kind # "newline"
  <2> DEFINE units == UnitKindsOf(kind)
  <2>1. Len(units) \in Nat /\ DOMAIN units = 1 .. Len(units) BY KindFacts
  <2>2. /\ e = Cursor(d.line, d.column + Len(units))
        /\ e.column <= Len(old[d.line + 1])
        /\ \A i \in DOMAIN units : old[d.line + 1][d.column + i].kind = units[i]
    BY <1>1, <1>4 DEF Spells
  <2>3. e.line = d.line /\ e.column = d.column + Len(units) BY <2>2 DEF Cursor
  <2> HIDE DEF units
  <2>4. d.line \in 0 .. Len(new) - 1 BY <1>1, <1>2, <2>3
  <2>5. Line(new, d.line) = new[d.line + 1] BY <2>4, LineFacts
  <2>6. CASE d.line < c.line
    <3>1. d.line + 1 \in 1 .. c.line BY <1>1, <2>6
    <3>2. new[d.line + 1] = old[d.line + 1] BY <3>1 DEF Upto
    <3> QED BY <1>4, <2>2, <2>5, <3>2 DEF Spells, units
  <2>7. CASE d.line = c.line
    <3>1. e.column <= Len(new[d.line + 1]) BY <1>1, <1>2, <2>3, <2>7
    <3>2. ASSUME NEW i \in DOMAIN units PROVE new[d.line + 1][d.column + i].kind = units[i]
      <4>1. d.column + i \in 1 .. c.column BY <1>1, <1>2, <2>1, <2>3, <2>7, SMTT(30)
      <4>2. new[c.line + 1][d.column + i] = old[c.line + 1][d.column + i]
        BY <4>1 DEF Upto
      <4> QED BY <2>2, <2>7, <4>2
    <3> QED BY <1>4, <2>2, <2>5, <3>1, <3>2 DEF Spells, units
  <2> QED BY <1>1, <1>2, <2>3, <2>6, <2>7
<1> QED BY <1>3, <1>4

\* An edit moves the characters behind it along.
LEMMA KeptBehind ==
    ASSUME NEW old, IsLines(old), NEW new, IsLines(new), NEW kind,
           NEW b, NEW a, NEW d, NEW e, InLines(old, b), InLines(new, a), InLines(old, d), InLines(old, e),
           Beyond(old, new, b, a), Spells(old, kind, d, e), BeforeOrAt(b, d)
    PROVE  Spells(new, kind, Shift(d, b, a), Shift(e, b, a))
<1>1. /\ d.line \in Nat /\ d.column \in Nat /\ e.line \in Nat /\ e.column \in Nat
      /\ a.line \in Nat /\ a.column \in Nat /\ b.line \in Nat /\ b.column \in Nat
      /\ Len(old) \in Nat /\ Len(new) \in Nat
      /\ d.line < Len(old) /\ b.line < Len(old) /\ a.line < Len(new)
      /\ a.column <= Len(new[a.line + 1]) /\ b.column <= Len(old[b.line + 1])
      /\ Line(old, d.line) = old[d.line + 1]
      /\ Len(old[d.line + 1]) \in Nat /\ Len(new[a.line + 1]) \in Nat
      /\ Len(old[b.line + 1]) \in Nat
  BY InLinesFacts
<1>2. b.line < d.line \/ (b.line = d.line /\ b.column <= d.column)
  BY <1>1, SMTT(30) DEF BeforeOrAt, Before
<1> DEFINE l == d.line - b.line + a.line
<1>3. /\ d.line \in Nat /\ a.line \in Nat /\ b.line \in Nat
      /\ Len(old) \in Nat /\ Len(new) \in Nat
      /\ d.line < Len(old) /\ b.line <= d.line
  BY <1>1, <1>2
<1>4. Len(new) - a.line = Len(old) - b.line BY DEF Beyond
<1>5. l \in 0 .. Len(new) - 1 /\ l + 1 = (d.line + 1) - b.line + a.line
  <2>1. PICK x, y, z, m, n \in Nat :
            x = d.line /\ y = a.line /\ z = b.line /\ m = Len(old) /\ n = Len(new)
    BY <1>3
  <2>2. n - y = m - z /\ x < m /\ z <= x BY <1>3, <1>4, <2>1
  <2>3. x - z + y \in 0 .. n - 1 /\ (x - z + y) + 1 = (x + 1) - z + y BY <2>2
  <2> QED BY <2>1, <2>3
<1>6. Line(new, l) = new[l + 1] BY <1>5, LineFacts
<1>7. ASSUME d.line # b.line PROVE new[l + 1] = old[d.line + 1]
  <2>1. d.line + 1 \in b.line + 2 .. Len(old) BY <1>7, <1>3
  <2> QED BY <1>5, <2>1 DEF Beyond
<1>8. CASE kind = "newline"
  <2>1. d.column = Len(old[d.line + 1]) /\ e = Cursor(d.line + 1, 0)
    BY <1>1, <1>8 DEF Spells
  <2>2. e.line = d.line + 1 /\ e.column = 0 BY <2>1 DEF Cursor
  <2>3. Shift(e, b, a) = Cursor(l + 1, 0) BY <1>1, <1>2, <1>5, <2>2 DEF Shift
  <2>4. CASE d.line = b.line
    <3>1. l = a.line BY <1>1, <2>4
    <3>2. Shift(d, b, a) = Cursor(l, a.column + (d.column - b.column))
      BY <2>4, <3>1 DEF Shift
    <3>3. a.column + (d.column - b.column) = Len(new[a.line + 1])
      BY <1>1, <2>1, <2>4 DEF Beyond
    <3> HIDE DEF l
    <3>4. Shift(d, b, a) = Cursor(l, Len(Line(new, l))) BY <1>6, <3>1, <3>2, <3>3
    <3> QED BY <1>8, <2>3, <3>4 DEF Spells, Cursor
  <2>5. CASE d.line # b.line
    <3>1. Shift(d, b, a) = Cursor(l, Len(Line(new, l)))
      BY <1>6, <1>7, <2>1, <2>5 DEF Shift
    <3> HIDE DEF l
    <3> QED BY <1>8, <2>3, <3>1 DEF Spells, Cursor
  <2> QED BY <2>4, <2>5
<1>9. CASE kind # "newline"
  <2> DEFINE units == UnitKindsOf(kind)
  <2>1. Len(units) \in Nat /\ DOMAIN units = 1 .. Len(units) BY KindFacts
  <2>2. /\ e = Cursor(d.line, d.column + Len(units))
        /\ e.column <= Len(old[d.line + 1])
        /\ \A i \in DOMAIN units : old[d.line + 1][d.column + i].kind = units[i]
    BY <1>1, <1>9 DEF Spells
  <2>3. e.line = d.line /\ e.column = d.column + Len(units) BY <2>2 DEF Cursor
  <2> HIDE DEF units
  <2>4. CASE d.line = b.line
    <3> DEFINE c == a.column + (d.column - b.column)
    <3>1. l = a.line /\ c \in Nat BY <1>1, <1>2, <2>4, SMTT(30)
    <3>2. Shift(d, b, a) = Cursor(l, c) BY <2>4, <3>1 DEF Shift
    <3>3. Shift(e, b, a) = Cursor(l, c + Len(units))
      <4>1. a.column + (e.column - b.column) = c + Len(units)
        BY <1>1, <2>1, <2>3, SMTT(30)
      <4>2. Shift(e, b, a) = Cursor(a.line, a.column + (e.column - b.column))
        BY <2>3, <2>4 DEF Shift
      <4> HIDE DEF c, l
      <4> QED BY <3>1, <4>1, <4>2
    <3>4. c + Len(units) <= Len(new[l + 1])
      <4>1. c + Len(units) <= Len(new[a.line + 1])
        <5>1. d.column + Len(units) <= Len(old[b.line + 1]) BY <2>2, <2>3, <2>4
        <5>2. Len(new[a.line + 1]) - a.column = Len(old[b.line + 1]) - b.column
          BY DEF Beyond
        <5> QED
          <6>1. PICK x, y, z, m, n \in Nat :
                    /\ x = d.column /\ y = a.column /\ z = b.column
                    /\ m = Len(old[b.line + 1]) /\ n = Len(new[a.line + 1])
            BY <1>1
          <6>2. PICK u \in Nat : u = Len(units) BY <2>1
          <6>3. n - y = m - z /\ x + u <= m BY <5>1, <5>2, <6>1, <6>2
          <6>4. (y + (x - z)) + u <= n BY <6>3
          <6> QED BY <6>1, <6>2, <6>4
      <4> HIDE DEF c, l
      <4> QED BY <3>1, <4>1
    <3>5. ASSUME NEW i \in DOMAIN units PROVE new[l + 1][c + i].kind = units[i]
      <4>1. d.column - b.column + i \in 1 .. Len(old[b.line + 1]) - b.column
        <5>1. i \in 1 .. Len(units) BY <2>1
        <5>2. b.column <= d.column /\ d.column + Len(units) <= Len(old[b.line + 1])
          BY <1>1, <1>2, <2>2, <2>3, <2>4
        <5>3. b.column \in Nat /\ d.column \in Nat /\ Len(old[b.line + 1]) \in Nat
          BY <1>1
        <5> QED BY <2>1, <5>1, <5>2, <5>3
      <4>2. /\ a.column + (d.column - b.column + i) = c + i
            /\ b.column + (d.column - b.column + i) = d.column + i
        <5>1. i \in Nat /\ a.column \in Nat /\ b.column \in Nat /\ d.column \in Nat
          BY <1>1, <2>1
        <5> QED BY <5>1
      <4>3. new[a.line + 1][c + i] = old[b.line + 1][d.column + i]
        BY <4>1, <4>2 DEF Beyond
      <4> HIDE DEF c, l
      <4> QED BY <2>2, <2>4, <3>1, <4>3
    <3> HIDE DEF c, l
    <3> QED BY <1>6, <1>9, <3>2, <3>3, <3>4, <3>5 DEF Spells, Cursor, units
  <2>5. CASE d.line # b.line
    <3>1. Shift(d, b, a) = Cursor(l, d.column) /\ Shift(e, b, a) = Cursor(l, e.column)
      BY <2>3, <2>5 DEF Shift
    <3>2. new[l + 1] = old[d.line + 1] BY <1>7, <2>5
    <3> HIDE DEF l
    <3> QED BY <1>6, <1>9, <2>2, <2>3, <3>1, <3>2 DEF Spells, Cursor, units
  <2> QED BY <2>4, <2>5
<1> QED BY <1>8, <1>9

\* The sequence t is made of the first p elements of s, of mid and of the elements
\* of r behind its first q.
IsSplice(t, s, p, mid, r, q) ==
    /\ Len(t) = p + Len(mid) + (Len(r) - q)
    /\ \A i \in 1 .. p : t[i] = s[i]
    /\ \A i \in 1 .. Len(mid) : t[p + i] = mid[i]
    /\ \A i \in q + 1 .. Len(r) : t[i - q + p + Len(mid)] = r[i]

\* The beginning of a sequence
LEMMA PrefixFacts ==
    ASSUME NEW U, NEW s \in Seq(U), NEW p \in 0 .. Len(s)
    PROVE  /\ SubSeq(s, 1, p) \in Seq(U)
           /\ Len(SubSeq(s, 1, p)) = p
           /\ \A i \in 1 .. p : SubSeq(s, 1, p)[i] = s[i]
<1>1. Len(s) \in Nat /\ p \in Int /\ p \in Nat BY LenProperties
<1>2. \A i \in 1 .. p : s[i] \in U BY <1>1, ElementOfSeq
<1> DEFINE t == SubSeq(s, 1, p)
<1>3. /\ t \in Seq(U)
      /\ Len(t) = IF 1 <= p THEN p - 1 + 1 ELSE 0
      /\ \A i \in 1 .. p - 1 + 1 : t[i] = s[1 + i - 1]
  BY <1>1, <1>2, SubSeqProperties
<1> HIDE DEF t
<1>4. Len(t) = p BY <1>1, <1>3
<1>5. ASSUME NEW i \in 1 .. p PROVE t[i] = s[i]
  <2>1. i \in 1 .. p - 1 + 1 /\ 1 + i - 1 = i BY <1>1
  <2> QED BY <1>3, <2>1
<1> QED BY <1>3, <1>4, <1>5 DEF t

\* A beginning, a middle and an end, put together
LEMMA SpliceFacts ==
    ASSUME NEW U, NEW s \in Seq(U), NEW p \in 0 .. Len(s), NEW mid \in Seq(U),
           NEW r \in Seq(U), NEW q \in 0 .. Len(r),
           NEW t, t = SubSeq(s, 1, p) \o mid \o SubSeq(r, q + 1, Len(r))
    PROVE  t \in Seq(U) /\ IsSplice(t, s, p, mid, r, q)
<1>1. Len(s) \in Nat /\ Len(r) \in Nat /\ Len(mid) \in Nat /\ p \in Nat /\ q \in Nat
  BY LenProperties
<1> DEFINE x == SubSeq(s, 1, p)
           y == SubSeq(r, q + 1, Len(r))
           z == x \o mid
<1>2. x \in Seq(U) /\ Len(x) = p /\ \A i \in 1 .. p : x[i] = s[i] BY PrefixFacts
<1>3. y \in Seq(U) /\ Len(y) = Len(r) - q /\ \A i \in 1 .. Len(r) - q : y[i] = r[q + i]
  BY RestFacts
<1> HIDE DEF x, y
<1>4. /\ z \in Seq(U) /\ Len(z) = p + Len(mid)
      /\ \A i \in 1 .. p + Len(mid) : z[i] = IF i <= p THEN x[i] ELSE mid[i - p]
  BY <1>2, ConcatProperties
<1>5. t = z \o y BY DEF x, y
<1> HIDE DEF z
<1>6. /\ t \in Seq(U) /\ Len(t) = p + Len(mid) + (Len(r) - q)
      /\ \A i \in 1 .. (p + Len(mid)) + (Len(r) - q) :
            t[i] = IF i <= p + Len(mid) THEN z[i] ELSE y[i - (p + Len(mid))]
  <2>1. z \in Seq(U) /\ y \in Seq(U) BY <1>3, <1>4
  <2>2. /\ z \o y \in Seq(U) /\ Len(z \o y) = Len(z) + Len(y)
        /\ \A i \in 1 .. Len(z) + Len(y) :
              (z \o y)[i] = IF i <= Len(z) THEN z[i] ELSE y[i - Len(z)]
    BY <2>1, ConcatProperties
  <2>3. /\ t \in Seq(U) /\ Len(t) = Len(z) + Len(y)
        /\ \A i \in 1 .. Len(z) + Len(y) : t[i] = IF i <= Len(z) THEN z[i] ELSE y[i - Len(z)]
    BY <1>5, <2>2
  <2>4. Len(z) = p + Len(mid) /\ Len(y) = Len(r) - q BY <1>3, <1>4
  <2> QED BY <2>3, <2>4
<1>7. ASSUME NEW i \in 1 .. p PROVE t[i] = s[i]
  <2>1. i \in 1 .. p + Len(mid) + (Len(r) - q) /\ i <= p + Len(mid) /\ i \in 1 .. p + Len(mid) /\ i <= p
    BY <1>1
  <2> QED BY <1>2, <1>4, <1>6, <2>1
<1>8. ASSUME NEW i \in 1 .. Len(mid) PROVE t[p + i] = mid[i]
  <2>1. /\ p + i \in 1 .. p + Len(mid) + (Len(r) - q) /\ p + i <= p + Len(mid)
        /\ p + i \in 1 .. p + Len(mid) /\ ~(p + i <= p) /\ (p + i) - p = i
    BY <1>1
  <2> QED BY <1>4, <1>6, <2>1
<1>9. ASSUME NEW i \in q + 1 .. Len(r) PROVE t[i - q + p + Len(mid)] = r[i]
  <2> DEFINE k == i - q + p + Len(mid)
  <2>1. /\ k \in 1 .. p + Len(mid) + (Len(r) - q) /\ ~(k <= p + Len(mid))
        /\ k - (p + Len(mid)) = i - q /\ i - q \in 1 .. Len(r) - q /\ q + (i - q) = i
    BY <1>1
  <2> HIDE DEF k
  <2>2. t[k] = y[i - q] BY <1>6, <2>1
  <2> QED BY <1>3, <2>1, <2>2 DEF k
<1> QED BY <1>6, <1>7, <1>8, <1>9 DEF IsSplice

\* Without anything between the two parts
LEMMA CutFacts ==
    ASSUME NEW U, NEW s \in Seq(U), NEW p \in 0 .. Len(s), NEW r \in Seq(U), NEW q \in 0 .. Len(r),
           NEW t, t = SubSeq(s, 1, p) \o SubSeq(r, q + 1, Len(r))
    PROVE  t \in Seq(U) /\ IsSplice(t, s, p, <<>>, r, q)
<1>1. SubSeq(s, 1, p) \in Seq(U) /\ <<>> \in Seq(U) BY PrefixFacts, EmptySeq
<1>2. SubSeq(s, 1, p) \o <<>> = SubSeq(s, 1, p) BY <1>1, ConcatEmptySeq
<1>3. t = SubSeq(s, 1, p) \o <<>> \o SubSeq(r, q + 1, Len(r)) BY <1>2
<1> QED BY <1>1, <1>3, SpliceFacts

\* Nothing or one character is between two places.
Between(lines, c, mid, a) == \/ Len(mid) = 0 /\ a = c
                             \/ Len(mid) = 1 /\ Spells(lines, mid[1], c, a)

\* Up to p the places are the same, and the one n further on is a.
Reaches(place, place2, p, n, a) ==
    (\A i \in 0 .. p : place2[i] = place[i]) /\ place2[p + n] = a

\* The places of a text of which the part from p to q was replaced: those before it
\* stay, those of the new part lie between, those behind it are moved along.
LEMMA Spliced ==
    ASSUME NEW old, IsLines(old), NEW new, IsLines(new), NEW text \in Seq(Kinds), NEW place,
           Spelled(old, text, place), NEW p \in 0 .. Len(text), NEW q \in p .. Len(text),
           NEW mid \in Seq(Kinds), NEW a, InLines(new, a), InLines(new, place[p]),
           Upto(old, new, place[p]), Beyond(old, new, place[q], a),
           Between(new, place[p], mid, a),
           NEW t \in Seq(Kinds), IsSplice(t, text, p, mid, text, q)
    PROVE  \E place2 : Spelled(new, t, place2) /\ Reaches(place, place2, p, Len(mid), a)
<1> DEFINE n == Len(mid)
           len == Len(text)
           S(i) == Shift(place[i], place[q], a)
           place2 == [i \in 0 .. Len(t) |-> IF i <= p THEN place[i] ELSE S(i - p - n + q)]
<1>1. \/ n = 0 /\ a = place[p]
      \/ n = 1 /\ Spells(new, mid[1], place[p], a)
  BY DEF Between
<1>2. n \in {0, 1} /\ len \in Nat /\ p \in Nat /\ q \in Nat /\ p <= q /\ q <= len
  BY <1>1, LenProperties
<1>3. Len(t) = p + n + (len - q) BY DEF IsSplice
<1>4. \A i \in 0 .. len : InLines(old, place[i]) BY SpelledFacts
<1>5. S(q) = a
  <2>1. InLines(old, place[q]) BY <1>2, <1>4
  <2>2. a.column + (place[q].column - place[q].column) = a.column
    <3>1. a.column \in Nat /\ place[q].column \in Nat BY <2>1 DEF InLines
    <3> QED BY <3>1
  <2> QED BY <2>2 DEF Shift, InLines
<1>6. \A i \in 0 .. p : place2[i] = place[i] BY <1>2, <1>3
<1>7. ASSUME NEW j \in q .. len
      PROVE  j - q + p + n \in p .. Len(t) /\ place2[j - q + p + n] = S(j)
  <2> DEFINE i == j - q + p + n
  <2>1. i \in 0 .. Len(t) /\ i - p - n + q = j /\ p <= i BY <1>2, <1>3
  <2>2. CASE i <= p
    <3>1. i = p /\ n = 0 /\ j = q BY <1>2, <2>1, <2>2
    <3> HIDE DEF i, place2, S, n
    <3>2. place2[i] = place[p] /\ a = place[p] BY <1>2, <1>6, <1>1, <3>1 DEF n
    <3> QED BY <1>5, <2>1, <3>1, <3>2 DEF i
  <2>3. CASE ~(i <= p)
    <3>1. place2[i] = S(i - p - n + q)
      <4> HIDE DEF i, S, n
      <4> QED BY <2>1, <2>3
    <3> HIDE DEF S, place2
    <3> QED BY <2>1, <3>1
  <2> QED BY <2>2, <2>3
<1>8. place2[p + n] = a
  <2>1. q \in q .. len /\ q - q + p + n = p + n BY <1>2
  <2> HIDE DEF place2, S, n, len
  <2> QED BY <1>5, <1>7, <2>1
<1> HIDE DEF place2
<1>9. ASSUME NEW i \in 1 .. Len(t) PROVE Spells(new, t[i], place2[i - 1], place2[i])
  <2>1. CASE i <= p
    <3>1. i \in 1 .. len /\ i - 1 \in 0 .. len /\ i \in 0 .. p /\ i - 1 \in 0 .. p /\ i \in 1 .. p
          /\ i \in 0 .. len /\ p \in i .. len
      BY <1>2, <1>3, <2>1
    <3>2. Spells(old, text[i], place[i - 1], place[i]) BY <3>1 DEF Spelled
    <3>3. BeforeOrAt(place[i], place[p]) BY <3>1, PlacesInOrder
    <3>4. InLines(old, place[p]) /\ InLines(old, place[i - 1]) /\ InLines(old, place[i])
      BY <1>4, <3>1
    <3>5. Spells(new, text[i], place[i - 1], place[i]) BY <3>2, <3>3, <3>4, KeptUpto
    <3>6. t[i] = text[i] /\ place2[i] = place[i] /\ place2[i - 1] = place[i - 1]
      BY <1>6, <3>1 DEF IsSplice
    <3> QED BY <3>5, <3>6
  <2>2. CASE i = p + 1 /\ n = 1
    <3>1. t[i] = mid[1] BY <2>2 DEF IsSplice
    <3>2. place2[i] = a /\ place2[i - 1] = place[p]
      <4>1. i - 1 = p /\ i = p + n /\ p \in 0 .. p BY <1>2, <2>2
      <4> QED BY <1>6, <1>8, <4>1
    <3> QED BY <1>1, <2>2, <3>1, <3>2
  <2>3. CASE i > p + n
    <3> DEFINE j == i - p - n + q
    <3>1. /\ j \in q + 1 .. len /\ j \in q .. len /\ j - 1 \in q .. len /\ j \in 1 .. len
          /\ j \in 0 .. len /\ j - 1 \in 0 .. len /\ j - 1 \in q .. len
          /\ j - q + p + n = i /\ (j - 1) - q + p + n = i - 1
      BY <1>2, <1>3, <2>3
    <3> HIDE DEF j
    <3>2. t[i] = text[j] BY <3>1 DEF IsSplice
    <3>3. place2[i] = S(j) /\ place2[i - 1] = S(j - 1)
      <4>1. PICK k : k = j - 1 OBVIOUS
      <4>2. place2[j - q + p + n] = S(j) /\ place2[k - q + p + n] = S(k)
        <5> HIDE DEF S, n, len
        <5> QED BY <1>7, <3>1, <4>1
      <4> QED BY <3>1, <4>1, <4>2
    <3>4. Spells(old, text[j], place[j - 1], place[j]) BY <3>1 DEF Spelled
    <3>5. PICK d, e, b : d = place[j - 1] /\ e = place[j] /\ b = place[q] OBVIOUS
    <3>6. InLines(old, b) /\ InLines(old, d) /\ InLines(old, e)
      BY <1>2, <1>4, <3>1, <3>5
    <3>7. BeforeOrAt(b, d)
      <4>1. PICK k : k = j - 1 OBVIOUS
      <4>2. q \in 0 .. len /\ k \in q .. len BY <1>2, <3>1, <4>1
      <4>3. BeforeOrAt(place[q], place[k]) BY <4>2, PlacesInOrder
      <4> QED BY <3>5, <4>1, <4>3
    <3>8. Spells(new, text[j], Shift(d, b, a), Shift(e, b, a))
      BY <3>4, <3>5, <3>6, <3>7, KeptBehind
    <3> QED BY <3>2, <3>3, <3>5, <3>8
  <2> QED
    <3>1. i \in Nat /\ p \in Nat /\ n \in {0, 1} BY <1>2, <1>3
    <3> HIDE DEF n
    <3>2. n = 0 => (i <= p \/ i > p + n) BY <3>1
    <3>3. n = 1 => (i <= p \/ i = p + 1 \/ i > p + n) BY <3>1
    <3>4. i <= p \/ (i = p + 1 /\ n = 1) \/ i > p + n BY <3>1, <3>2, <3>3
    <3> QED BY <2>1, <2>2, <2>3, <3>4 DEF n
<1>10. place2[0] = Cursor(0, 0) BY <1>2, <1>6 DEF Spelled
<1>11. place2[Len(t)] = Cursor(Len(new) - 1, Len(new[Len(new)]))
  <2>1. len \in q .. len /\ len - q + p + n = Len(t) BY <1>2, <1>3
  <2>2. place2[Len(t)] = S(len)
    <3> HIDE DEF S, n, len
    <3> QED BY <1>7, <2>1
  <2>3. place[len] = Cursor(Len(old) - 1, Len(old[Len(old)])) BY DEF Spelled
  <2>4. place[len].line = Len(old) - 1 /\ place[len].column = Len(old[Len(old)])
    BY <2>3 DEF Cursor
  <2>5. PICK b : b = place[q] OBVIOUS
  <2>6. InLines(old, b) BY <1>2, <1>4, <2>5
  <2>7. /\ b.line \in Nat /\ b.column \in Nat /\ a.line \in Nat /\ a.column \in Nat
        /\ Len(old) \in Nat /\ Len(new) \in Nat /\ b.line < Len(old)
    BY <2>6, InLinesFacts
  <2>8. Len(new) - a.line = Len(old) - b.line BY <2>5 DEF Beyond
  <2>9. CASE b.line = Len(old) - 1
    <3>1. a.line = Len(new) - 1 /\ a.line + 1 = Len(new) /\ b.line + 1 = Len(old)
      BY <2>7, <2>8, <2>9, SMTT(30)
    <3>2. Len(new[a.line + 1]) - a.column = Len(old[b.line + 1]) - b.column
      BY <2>5 DEF Beyond
    <3>3. Len(old[b.line + 1]) \in Nat /\ Len(new[a.line + 1]) \in Nat
      BY <2>6, InLinesFacts
    <3>4. a.column + (Len(old[b.line + 1]) - b.column) = Len(new[a.line + 1])
      BY <2>7, <3>2, <3>3, SMTT(30)
    <3>5. S(len) = Cursor(a.line, a.column + (Len(old[Len(old)]) - b.column))
      BY <2>4, <2>5, <2>9 DEF Shift
    <3> QED BY <2>2, <3>1, <3>4, <3>5
  <2>10. CASE b.line # Len(old) - 1
    <3>1. Len(old) \in b.line + 2 .. Len(old) /\ Len(old) - b.line + a.line = Len(new)
          /\ (Len(old) - 1) - b.line + a.line = Len(new) - 1
      <4>1. PICK x, y, m, k \in Nat :
                x = b.line /\ y = a.line /\ m = Len(old) /\ k = Len(new)
        BY <2>7
      <4>2. k - y = m - x /\ x < m /\ x # m - 1 BY <2>7, <2>8, <2>10, <4>1
      <4>3. m \in x + 2 .. m /\ m - x + y = k /\ (m - 1) - x + y = k - 1 BY <4>2
      <4> QED BY <4>1, <4>3
    <3>2. new[Len(new)] = old[Len(old)] BY <2>5, <3>1 DEF Beyond
    <3>3. S(len) = Cursor((Len(old) - 1) - b.line + a.line, Len(old[Len(old)]))
      BY <2>4, <2>5, <2>10 DEF Shift
    <3> QED BY <2>2, <3>1, <3>2, <3>3
  <2> QED BY <2>9, <2>10
<1>12. Spelled(new, t, place2) BY <1>9, <1>10, <1>11 DEF Spelled
<1> QED BY <1>6, <1>8, <1>12 DEF Reaches

-----------------------------------------------------------------------------
(* What the editor does to the lines *)

\* A function on 1 .. n is a sequence.
LEMMA FunctionIsSequence ==
    ASSUME NEW U, NEW n \in Nat, NEW t \in [1 .. n -> U]
    PROVE  t \in Seq(U) /\ Len(t) = n
<1>1. t \in Seq(U) BY SeqDef
<1>2. DOMAIN t = 1 .. n /\ DOMAIN t = 1 .. Len(t) /\ Len(t) \in Nat
  BY <1>1, LenProperties
<1>3. Len(t) = n BY <1>2
<1> QED BY <1>1, <1>3

\* The lines with units put in at a cursor
WithUnits(lines, c, units) ==
    [lines EXCEPT ![c.line + 1] =
        SubSeq(@, 1, c.column) \o units \o SubSeq(@, c.column + 1, Len(@))]

\* What that does to the lines
LEMMA UnitsInserted ==
    ASSUME NEW lines, IsLines(lines), NEW c, InLines(lines, c), NEW units \in Seq(Units),
           NEW new, new = WithUnits(lines, c, units),
           NEW a, a = Cursor(c.line, c.column + Len(units))
    PROVE  /\ IsLines(new) /\ InLines(new, c) /\ InLines(new, a)
           /\ Upto(lines, new, c) /\ Beyond(lines, new, c, a)
           /\ \A i \in 1 .. Len(units) : new[c.line + 1][c.column + i] = units[i]
<1>1. PICK line : line = SubSeq(lines[c.line + 1], 1, c.column) \o units
                            \o SubSeq(lines[c.line + 1], c.column + 1, Len(lines[c.line + 1]))
  OBVIOUS
<1>2. PICK l, k, n, m, u \in Nat : /\ l = c.line /\ k = c.column /\ n = Len(lines)
                                 /\ m = Len(lines[c.line + 1]) /\ u = Len(units)
  BY InLinesFacts, LenProperties
<1>3. l < n /\ k <= m BY <1>2, InLinesFacts
<1>4. /\ c.line \in Nat /\ c.column \in Nat /\ Len(lines) \in Nat
      /\ c.line < Len(lines) /\ c.column <= Len(lines[c.line + 1])
      /\ Len(lines[c.line + 1]) \in Nat /\ lines[c.line + 1] \in Seq(Units)
      /\ Len(units) \in Nat /\ lines \in Seq(Seq(Units))
      /\ c.line + 1 \in 1 .. Len(lines) /\ c.column \in 0 .. Len(lines[c.line + 1])
  <2>1. l + 1 \in 1 .. n /\ k \in 0 .. m BY <1>3
  <2> QED BY <1>2, <2>1, InLinesFacts, LenProperties
<1>5. line \in Seq(Units) /\ IsSplice(line, lines[c.line + 1], c.column, units, lines[c.line + 1], c.column)
  BY <1>4, <1>1, SpliceFacts
<1>6. /\ new \in Seq(Seq(Units)) /\ Len(new) = Len(lines)
      /\ new[c.line + 1] = line
      /\ \A j \in 1 .. Len(lines) : j # c.line + 1 => new[j] = lines[j]
  <2>1. PICK x : x = c.line + 1 OBVIOUS
  <2>2. PICK e : e = line OBVIOUS
  <2>3. x \in 1 .. Len(lines) /\ e \in Seq(Units) /\ lines \in Seq(Seq(Units))
    BY <1>4, <1>5, <2>1, <2>2
  <2>4. new = [lines EXCEPT ![x] = e] BY <1>1, <2>1, <2>2 DEF WithUnits
  <2>5. /\ new \in Seq(Seq(Units))
        /\ Len(new) = Len(lines)
        /\ \A j \in 1 .. Len(lines) : new[j] = IF j = x THEN line ELSE lines[j]
    <3>1. lines \in [1 .. Len(lines) -> Seq(Units)] /\ Len(lines) \in Nat
      BY <2>3, LenProperties
    <3>2. new \in [1 .. Len(lines) -> Seq(Units)] BY <2>3, <2>4, <3>1
    <3>3. new \in Seq(Seq(Units)) /\ Len(new) = Len(lines)
      <4>1. PICK W : W = Seq(Units) OBVIOUS
      <4>2. PICK y \in Nat : y = Len(lines) BY <3>1
      <4>3. new \in [1 .. y -> W] BY <3>2, <4>1, <4>2
      <4>4. new \in Seq(W) /\ Len(new) = y BY <4>3, FunctionIsSequence
      <4> QED BY <4>1, <4>2, <4>4
    <3>4. \A j \in 1 .. Len(lines) : new[j] = IF j = x THEN e ELSE lines[j]
      BY <2>3, <2>4, <3>1
    <3> QED BY <2>2, <3>3, <3>4
  <2> QED BY <1>4, <2>1, <2>5
<1>7. IsLines(new) BY <1>4, <1>6 DEF IsLines
<1>8. Len(line) = c.column + Len(units) + (Len(lines[c.line + 1]) - c.column)
  BY <1>5 DEF IsSplice
<1>9. a.line = c.line /\ a.column = c.column + Len(units) BY DEF Cursor
<1>10. c = Cursor(l, k) /\ c.line = l /\ c.column = k BY <1>2 DEF InLines
<1>11. Len(new) = n /\ Len(new[l + 1]) = k + u + (m - k) BY <1>2, <1>6, <1>8
<1>12. InLines(new, c)
  <2>1. k \in 0 .. k + u + (m - k) /\ l \in 0 .. n - 1 BY <1>3
  <2> QED BY <1>10, <1>11, <2>1 DEF InLines
<1>13. a = Cursor(l, k + u) /\ a.line = l /\ a.column = k + u BY <1>2 DEF Cursor
<1>14. InLines(new, a)
  <2>1. k + u \in 0 .. k + u + (m - k) /\ l \in 0 .. n - 1 /\ k + u \in Nat BY <1>3
  <2> QED BY <1>11, <1>13, <2>1 DEF InLines
<1>15. Upto(lines, new, c)
  <2>1. \A i \in 1 .. c.line : i \in 1 .. Len(lines) /\ i # c.line + 1 BY <1>4
  <2> QED BY <1>5, <1>6, <2>1 DEF Upto, IsSplice
<1>16. Beyond(lines, new, c, a)
  <2>1. Len(new) - a.line = Len(lines) - c.line BY <1>6, <1>9
  <2>2. ASSUME NEW i \in c.line + 2 .. Len(lines) PROVE new[i - c.line + a.line] = lines[i]
    <3>1. i \in l + 2 .. n BY <1>2
    <3>2. i - l + l = i /\ i # l + 1 /\ i \in 1 .. n BY <3>1
    <3>3. new[i] = lines[i] BY <1>2, <1>6, <3>2
    <3> QED BY <1>10, <1>13, <3>2, <3>3
  <2>3. Len(new[a.line + 1]) - a.column = Len(lines[c.line + 1]) - c.column
    <3>1. (k + u + (m - k)) - (k + u) = m - k OBVIOUS
    <3> QED BY <1>2, <1>11, <1>13, <3>1
  <2>4. ASSUME NEW i \in 1 .. Len(lines[c.line + 1]) - c.column
        PROVE  new[a.line + 1][a.column + i] = lines[c.line + 1][c.column + i]
    <3>1. /\ c.column + i \in c.column + 1 .. Len(lines[c.line + 1])
          /\ (c.column + i) - c.column + c.column + Len(units) = a.column + i
      <4>1. i \in 1 .. m - k BY <1>2
      <4>2. k + i \in k + 1 .. m /\ (k + i) - k + k + u = (k + u) + i BY <1>3, <4>1
      <4> QED BY <1>2, <1>9, <4>2
    <3>2. line[(c.column + i) - c.column + c.column + Len(units)] = lines[c.line + 1][c.column + i]
      BY <1>5, <3>1 DEF IsSplice
    <3> QED BY <1>6, <1>9, <3>1, <3>2
  <2> QED BY <2>1, <2>2, <2>3, <2>4 DEF Beyond
<1>17. \A i \in 1 .. Len(units) : new[c.line + 1][c.column + i] = units[i]
  BY <1>5, <1>6 DEF IsSplice
<1> QED BY <1>7, <1>12, <1>14, <1>15, <1>16, <1>17

\* The lines with a newline at a cursor
Wrapped(lines, c) ==
    SubSeq(lines, 1, c.line)
        \o <<SubSeq(lines[c.line + 1], 1, c.column),
             SubSeq(lines[c.line + 1], c.column + 1, Len(lines[c.line + 1]))>>
        \o SubSeq(lines, c.line + 2, Len(lines))

\* They are the same up to the cursor, and what was behind it begins the next line.
LEMMA LineWrapped ==
    ASSUME NEW lines, IsLines(lines), NEW c, InLines(lines, c),
           NEW new, new = Wrapped(lines, c),
           NEW a, a = Cursor(c.line + 1, 0)
    PROVE  /\ IsLines(new) /\ InLines(new, c) /\ InLines(new, a)
           /\ Upto(lines, new, c) /\ Beyond(lines, new, c, a)
           /\ Len(new[c.line + 1]) = c.column
<1> DEFINE pre == SubSeq(lines[c.line + 1], 1, c.column)
           post == SubSeq(lines[c.line + 1], c.column + 1, Len(lines[c.line + 1]))
<1>1. PICK l, k, n, m \in Nat : /\ l = c.line /\ k = c.column /\ n = Len(lines)
                                 /\ m = Len(lines[c.line + 1])
  BY InLinesFacts
<1>2. l < n /\ k <= m BY <1>1, InLinesFacts
<1>3. /\ c.line \in Nat /\ c.column \in Nat /\ Len(lines) \in Nat
      /\ c.line < Len(lines) /\ c.column <= Len(lines[c.line + 1])
      /\ Len(lines[c.line + 1]) \in Nat /\ lines[c.line + 1] \in Seq(Units)
      /\ lines \in Seq(Seq(Units))
      /\ c.line + 1 \in 0 .. Len(lines) /\ c.line \in 0 .. Len(lines)
      /\ c.column \in 0 .. Len(lines[c.line + 1])
  <2>1. l + 1 \in 0 .. n /\ l \in 0 .. n /\ k \in 0 .. m BY <1>2
  <2> QED BY <1>1, <2>1, InLinesFacts
<1>4. pre \in Seq(Units) /\ Len(pre) = c.column /\ \A i \in 1 .. c.column : pre[i] = lines[c.line + 1][i]
  BY <1>3, PrefixFacts
<1>5. /\ post \in Seq(Units) /\ Len(post) = Len(lines[c.line + 1]) - c.column
      /\ \A i \in 1 .. Len(lines[c.line + 1]) - c.column : post[i] = lines[c.line + 1][c.column + i]
  BY <1>3, RestFacts
<1> HIDE DEF pre, post
<1> DEFINE mid == <<pre, post>>
<1>6. mid \in Seq(Seq(Units)) /\ Len(mid) = 2 /\ mid[1] = pre /\ mid[2] = post
  BY <1>4, <1>5
<1>7. new = SubSeq(lines, 1, c.line) \o mid \o SubSeq(lines, (c.line + 1) + 1, Len(lines))
  <2>1. (c.line + 1) + 1 = c.line + 2 BY <1>3
  <2> QED BY <2>1 DEF pre, post, Wrapped
<1> HIDE DEF mid
<1>8. new \in Seq(Seq(Units)) /\ IsSplice(new, lines, c.line, mid, lines, c.line + 1)
  <2>1. PICK q : q = c.line + 1 OBVIOUS
  <2>2. q \in 0 .. Len(lines) /\ new = SubSeq(lines, 1, c.line) \o mid \o SubSeq(lines, q + 1, Len(lines))
    BY <1>3, <1>7, <2>1
  <2>3. new \in Seq(Seq(Units)) /\ IsSplice(new, lines, c.line, mid, lines, q)
    BY <1>3, <1>6, <2>2, SpliceFacts
  <2> QED BY <2>1, <2>3
<1>9. /\ Len(new) = n + 1
      /\ \A i \in 1 .. l : new[i] = lines[i]
      /\ new[l + 1] = pre /\ new[l + 2] = post
      /\ \A i \in l + 2 .. n : new[i + 1] = lines[i]
  <2>1. IsSplice(new, lines, l, mid, lines, l + 1) /\ Len(lines) = n BY <1>1, <1>8
  <2>2. Len(new) = l + 2 + (n - (l + 1)) BY <1>6, <2>1 DEF IsSplice
  <2>3. new[l + 1] = mid[1] /\ new[l + 2] = mid[2]
    <3>1. 1 \in 1 .. Len(mid) /\ 2 \in 1 .. Len(mid) BY <1>6
    <3> QED BY <2>1, <3>1 DEF IsSplice
  <2>4. ASSUME NEW i \in l + 2 .. n PROVE new[i + 1] = lines[i]
    <3>1. i \in (l + 1) + 1 .. n /\ i - (l + 1) + l + 2 = i + 1 BY <1>2
    <3>2. new[i - (l + 1) + l + 2] = lines[i] BY <1>6, <2>1, <3>1 DEF IsSplice
    <3> QED BY <3>1, <3>2
  <2>5. Len(new) = n + 1
    <3>1. l + 2 + (n - (l + 1)) = n + 1 OBVIOUS
    <3> QED BY <2>2, <3>1
  <2>6. \A i \in 1 .. l : new[i] = lines[i] BY <2>1 DEF IsSplice
  <2> QED BY <1>6, <2>3, <2>4, <2>5, <2>6
<1>10. IsLines(new)
  <2>1. n + 1 > 0 OBVIOUS
  <2> QED BY <1>8, <1>9, <2>1 DEF IsLines
<1>11. a = Cursor(l + 1, 0) /\ a.line = l + 1 /\ a.column = 0 /\ a.line + 1 = l + 2
  BY <1>1 DEF Cursor
<1>12. c = Cursor(l, k) /\ c.line = l /\ c.column = k BY <1>1 DEF InLines
<1>13. InLines(new, c)
  <2>1. k \in 0 .. k /\ l \in 0 .. (n + 1) - 1 /\ Len(new[l + 1]) = k
    <3>1. k \in 0 .. k /\ l \in 0 .. (n + 1) - 1 BY <1>2
    <3>2. Len(new[l + 1]) = k BY <1>1, <1>4, <1>9
    <3> QED BY <3>1, <3>2
  <2> QED BY <1>9, <1>12, <2>1 DEF InLines
<1>14. InLines(new, a)
  <2>1. Len(post) = m - k BY <1>1, <1>5
  <2>2. /\ l + 1 \in Nat /\ 0 \in 0 .. m - k /\ l + 1 \in 0 .. (n + 1) - 1 BY <1>2
  <2>3. Len(new) = n + 1 /\ Len(new[a.line + 1]) = m - k BY <1>9, <1>11, <2>1
  <2>4. a = Cursor(a.line, a.column) BY <1>11
  <2>5. a.line \in Nat /\ a.column \in Nat BY <1>11, <2>2
  <2>6. a.line \in 0 .. Len(new) - 1 /\ a.column \in 0 .. Len(new[a.line + 1])
    BY <1>11, <2>2, <2>3
  <2> QED BY <2>4, <2>5, <2>6 DEF InLines
<1>15. Upto(lines, new, c) BY <1>4, <1>9, <1>12 DEF Upto
<1>16. Beyond(lines, new, c, a)
  <2>1. Len(new) - a.line = Len(lines) - c.line
    <3>1. (n + 1) - (l + 1) = n - l OBVIOUS
    <3> QED BY <1>1, <1>9, <1>11, <3>1
  <2>2. ASSUME NEW i \in c.line + 2 .. Len(lines) PROVE new[i - c.line + a.line] = lines[i]
    <3>1. i \in l + 2 .. n BY <1>1
    <3>2. i - l + (l + 1) = i + 1 BY <3>1
    <3> QED
      <4>1. new[i + 1] = lines[i] BY <1>9, <3>1
      <4>2. i - c.line + a.line = i + 1 BY <1>11, <1>12, <3>2
      <4> QED BY <4>1, <4>2
  <2>3. Len(new[a.line + 1]) - a.column = Len(lines[c.line + 1]) - c.column
    <3>1. (m - k) - 0 = m - k OBVIOUS
    <3>2. Len(new[a.line + 1]) = m - k BY <1>1, <1>5, <1>9, <1>11
    <3> QED BY <1>1, <1>11, <3>1, <3>2
  <2>4. ASSUME NEW i \in 1 .. Len(lines[c.line + 1]) - c.column
        PROVE  new[a.line + 1][a.column + i] = lines[c.line + 1][c.column + i]
    <3>1. 0 + i = i OBVIOUS
    <3> QED BY <1>5, <1>9, <1>11, <3>1
  <2> QED BY <2>1, <2>2, <2>3, <2>4 DEF Beyond
<1> QED BY <1>4, <1>9, <1>10, <1>13, <1>14, <1>15, <1>16, <1>12

\* The lines without what is between two cursors
JoinedLine(lines, from, to) ==
    SubSeq(lines[from.line + 1], 1, from.column)
        \o SubSeq(lines[to.line + 1], to.column + 1, Len(lines[to.line + 1]))

\* The lines with the text between two cursors taken out
WithoutText(lines, from, to) ==
    SubSeq(lines, 1, from.line) \o <<JoinedLine(lines, from, to)>>
        \o SubSeq(lines, to.line + 2, Len(lines))

\* They are the same up to the first cursor, and what was behind the second is behind the first.
LEMMA TextRemoved ==
    ASSUME NEW lines, IsLines(lines), NEW from, InLines(lines, from), NEW to, InLines(lines, to),
           BeforeOrAt(from, to),
           NEW new, new = WithoutText(lines, from, to)
    PROVE  /\ IsLines(new) /\ InLines(new, from)
           /\ Upto(lines, new, from) /\ Beyond(lines, new, to, from)
<1>1. PICK l, k, n, m, h, j, g \in Nat :
          /\ l = from.line /\ k = from.column /\ n = Len(lines) /\ m = Len(lines[from.line + 1])
          /\ h = to.line /\ j = to.column /\ g = Len(lines[to.line + 1])
  BY InLinesFacts
<1>2. l < n /\ k <= m /\ h < n /\ j <= g BY <1>1, InLinesFacts
<1>3. from = Cursor(l, k) /\ from.line = l /\ from.column = k /\ to.line = h /\ to.column = j
  BY <1>1 DEF InLines
<1>4. /\ lines[l + 1] \in Seq(Units) /\ lines[h + 1] \in Seq(Units) /\ lines \in Seq(Seq(Units))
      /\ Len(lines[l + 1]) = m /\ Len(lines[h + 1]) = g /\ Len(lines) = n
  BY <1>1, InLinesFacts
<1>5. l <= h BY <1>3 DEF BeforeOrAt, Before
<1>6. PICK line :
         /\ line = SubSeq(lines[l + 1], 1, k) \o SubSeq(lines[h + 1], j + 1, Len(lines[h + 1]))
         /\ new = SubSeq(lines, 1, l) \o <<line>> \o SubSeq(lines, h + 2, Len(lines))
  BY <1>3 DEF WithoutText, JoinedLine
<1>7. /\ line \in Seq(Units) /\ Len(line) = k + (g - j)
      /\ \A i \in 1 .. k : line[i] = lines[l + 1][i]
      /\ \A i \in 1 .. g - j : line[k + i] = lines[h + 1][j + i]
  <2>1. k \in 0 .. m /\ j \in 0 .. g BY <1>2
  <2>2. line \in Seq(Units) /\ IsSplice(line, lines[l + 1], k, <<>>, lines[h + 1], j)
    BY <1>4, <1>6, <2>1, CutFacts
  <2>3. Len(<<>>) = 0 OBVIOUS
  <2>4. Len(line) = k + 0 + (g - j) BY <1>4, <2>2, <2>3 DEF IsSplice
  <2>5. \A i \in 1 .. k : line[i] = lines[l + 1][i] BY <2>2 DEF IsSplice
  <2>6. ASSUME NEW i \in 1 .. g - j PROVE line[k + i] = lines[h + 1][j + i]
    <3>1. j + i \in j + 1 .. g /\ (j + i) - j + k + 0 = k + i BY <1>2
    <3>2. line[(j + i) - j + k + 0] = lines[h + 1][j + i]
      BY <1>4, <2>2, <2>3, <3>1 DEF IsSplice
    <3> QED BY <3>1, <3>2
  <2>7. Len(line) = k + (g - j)
    <3>1. k + 0 + (g - j) = k + (g - j) OBVIOUS
    <3> QED BY <2>4, <3>1
  <2> QED BY <2>2, <2>5, <2>6, <2>7
<1> DEFINE mid == <<line>>
<1>8. mid \in Seq(Seq(Units)) /\ Len(mid) = 1 /\ mid[1] = line
  <2>1. PICK x : x = line OBVIOUS
  <2>2. x \in Seq(Units) BY <1>7, <2>1
  <2>3. <<x>> \in Seq(Seq(Units)) /\ Len(<<x>>) = 1 /\ <<x>>[1] = x BY <2>2
  <2> QED BY <2>1, <2>3
<1>9. new \in Seq(Seq(Units)) /\ IsSplice(new, lines, l, mid, lines, h + 1)
  <2>1. PICK q : q = h + 1 OBVIOUS
  <2>2. q \in 0 .. n /\ q + 1 = h + 2 /\ l \in 0 .. n BY <1>2, <2>1
  <2>3. new = SubSeq(lines, 1, l) \o mid \o SubSeq(lines, q + 1, Len(lines))
    BY <1>6, <2>2
  <2> HIDE DEF mid
  <2>4. new \in Seq(Seq(Units)) /\ IsSplice(new, lines, l, mid, lines, q)
    BY <1>4, <1>8, <2>2, <2>3, SpliceFacts
  <2> QED BY <2>1, <2>4
<1> HIDE DEF mid
<1>10. /\ Len(new) = l + 1 + (n - (h + 1))
       /\ \A i \in 1 .. l : new[i] = lines[i]
       /\ new[l + 1] = line
       /\ \A i \in h + 2 .. n : new[i - h + l] = lines[i]
  <2>1. Len(new) = l + 1 + (n - (h + 1)) BY <1>4, <1>8, <1>9 DEF IsSplice
  <2>2. new[l + 1] = line
    <3>1. 1 \in 1 .. Len(mid) BY <1>8
    <3> QED BY <1>8, <1>9, <3>1 DEF IsSplice
  <2>3. ASSUME NEW i \in h + 2 .. n PROVE new[i - h + l] = lines[i]
    <3>1. i \in (h + 1) + 1 .. n /\ i - (h + 1) + l + 1 = i - h + l BY <1>2
    <3>2. new[i - (h + 1) + l + 1] = lines[i] BY <1>4, <1>8, <1>9, <3>1 DEF IsSplice
    <3> QED BY <3>1, <3>2
  <2>4. \A i \in 1 .. l : new[i] = lines[i] BY <1>9 DEF IsSplice
  <2> QED BY <2>1, <2>2, <2>3, <2>4
<1>11. Len(new) > l /\ Len(new) \in Nat
  <2>1. l + 1 + (n - (h + 1)) > l /\ l + 1 + (n - (h + 1)) \in Nat BY <1>2
  <2> QED BY <1>10, <2>1
<1>12. IsLines(new)
  <2>1. PICK y \in Nat : y = Len(new) BY <1>11
  <2>2. y > l BY <1>11, <2>1
  <2>3. y > 0 BY <2>2
  <2> QED BY <1>9, <2>1, <2>3 DEF IsLines
<1>13. InLines(new, from)
  <2>1. k \in 0 .. k + (g - j) BY <1>2
  <2>2. PICK y \in Nat : y = Len(new) BY <1>11
  <2>3. l \in 0 .. y - 1
    <3>1. y > l BY <1>11, <2>2
    <3> QED BY <3>1
  <2>4. new[l + 1] = line /\ Len(line) = k + (g - j) BY <1>7, <1>10
  <2>5. from.column \in 0 .. Len(new[from.line + 1]) /\ from.line \in 0 .. Len(new) - 1
    BY <1>3, <2>1, <2>2, <2>3, <2>4
  <2>6. from.line \in Nat /\ from.column \in Nat /\ from = Cursor(from.line, from.column)
    BY <1>3
  <2> QED BY <2>5, <2>6 DEF InLines
<1>14. Upto(lines, new, from)
  <2>1. \A i \in 1 .. l : new[i] = lines[i] BY <1>10
  <2>2. \A i \in 1 .. k : new[l + 1][i] = lines[l + 1][i] BY <1>7, <1>10
  <2> QED BY <1>3, <2>1, <2>2 DEF Upto
<1>15. Beyond(lines, new, to, from)
  <2>1. Len(new) - l = n - h
    <3>1. (l + 1 + (n - (h + 1))) - l = n - h OBVIOUS
    <3> QED BY <1>10, <3>1
  <2>2. Len(new[l + 1]) - k = g - j
    <3>1. (k + (g - j)) - k = g - j OBVIOUS
    <3> QED BY <1>7, <1>10, <3>1
  <2>3. \A i \in h + 2 .. n : new[i - h + l] = lines[i] BY <1>10
  <2>4. \A i \in 1 .. g - j : new[l + 1][k + i] = lines[h + 1][j + i] BY <1>7, <1>10
  <2> QED BY <1>3, <1>4, <2>1, <2>2, <2>3, <2>4 DEF Beyond
<1> QED BY <1>12, <1>13, <1>14, <1>15

-----------------------------------------------------------------------------
(* What the editor does to the text *)

\* What two edits left alone, the two together did.
LEMMA UptoTransitive ==
    ASSUME NEW x, NEW y, NEW z, NEW c, NEW e, Upto(x, y, c), Upto(y, z, e), BeforeOrAt(c, e),
           c.line \in Nat, c.column \in Nat, e.line \in Nat, e.column \in Nat
    PROVE  Upto(x, z, c)
<1>1. c.line < e.line \/ (c.line = e.line /\ c.column <= e.column)
  BY DEF BeforeOrAt, Before
<1>2. ASSUME NEW l \in 1 .. c.line PROVE z[l] = x[l]
  <2>1. l \in 1 .. e.line BY <1>1
  <2> QED BY <2>1 DEF Upto
<1>3. ASSUME NEW i \in 1 .. c.column PROVE z[c.line + 1][i] = x[c.line + 1][i]
  <2>1. y[c.line + 1][i] = x[c.line + 1][i] BY DEF Upto
  <2>2. CASE c.line < e.line
    <3>1. c.line + 1 \in 1 .. e.line BY <2>2
    <3>2. z[c.line + 1] = y[c.line + 1] BY <3>1 DEF Upto
    <3> QED BY <2>1, <3>2
  <2>3. CASE c.line = e.line /\ c.column <= e.column
    <3>1. i \in 1 .. e.column BY <2>3
    <3>2. z[e.line + 1][i] = y[e.line + 1][i] BY <3>1 DEF Upto
    <3> QED BY <2>1, <2>3, <3>2
  <2> QED BY <1>1, <2>2, <2>3
<1> QED BY <1>2, <1>3 DEF Upto

\* The units of a character
LEMMA UnitsOfFacts ==
    ASSUME NEW kind \in Kinds, kind # "newline", NEW user \in Users \cup {Nobody}
    PROVE  /\ UnitsOf(kind, user) \in Seq(Units)
           /\ Len(UnitsOf(kind, user)) = Len(UnitKindsOf(kind))
           /\ DOMAIN UnitKindsOf(kind) = 1 .. Len(UnitKindsOf(kind))
           /\ \A i \in DOMAIN UnitKindsOf(kind) : UnitsOf(kind, user)[i].kind = UnitKindsOf(kind)[i]
<1> DEFINE units == UnitKindsOf(kind)
<1>1. Len(units) \in Nat /\ DOMAIN units = 1 .. Len(units) /\ \A i \in DOMAIN units : units[i] \in UnitKinds
  <2>1. CASE kind = "wide"
    <3>1. \A i \in 1 .. 2 : i = 1 \/ i = 2 OBVIOUS
    <3> QED BY <2>1, <3>1, KindFacts DEF UnitKinds
  <2>2. CASE kind # "wide"
    <3>1. \A i \in 1 .. 1 : i = 1 OBVIOUS
    <3>2. kind \in UnitKinds BY <2>2 DEF Kinds, UnitKinds
    <3> QED BY <2>2, <3>1, <3>2, KindFacts
  <2> QED BY <2>1, <2>2
<1> HIDE DEF units
<1>2. UnitsOf(kind, user) = [i \in 1 .. Len(units) |-> [kind |-> units[i], by |-> user]]
  BY <1>1 DEF UnitsOf, units
<1>3. \A i \in 1 .. Len(units) : [kind |-> units[i], by |-> user] \in Units
  BY <1>1 DEF Units
<1>4. UnitsOf(kind, user) \in [1 .. Len(units) -> Units] BY <1>2, <1>3
<1>5. UnitsOf(kind, user) \in Seq(Units) /\ Len(UnitsOf(kind, user)) = Len(units)
  <2>1. PICK y \in Nat : y = Len(units) BY <1>1
  <2>2. UnitsOf(kind, user) \in [1 .. y -> Units] BY <1>4, <2>1
  <2>3. UnitsOf(kind, user) \in Seq(Units) /\ Len(UnitsOf(kind, user)) = y
    BY <2>2, FunctionIsSequence
  <2> QED BY <2>1, <2>3, SMTT(30)
<1>6. \A i \in DOMAIN units : UnitsOf(kind, user)[i].kind = units[i] BY <1>1, <1>2
<1> QED BY <1>1, <1>5, <1>6 DEF units

\* What a document d is known to be, when it spells a text
Holds(d, text, place) ==
    /\ "lines" \in DOMAIN d /\ IsLines(d.lines)
    /\ text \in Seq(Kinds) /\ Spelled(d.lines, text, place)

\* A character put in at a place is one more character of the text, and the end of
\* the insertion is its place.
LEMMA CharacterInserted ==
    ASSUME NEW s, NEW d, d = s.doc, NEW text, NEW place, Holds(d, text, place),
           NEW p \in 0 .. Len(text), s.at = place[p],
           NEW kind \in Kinds, NEW mid, mid = <<kind>>, NEW user \in Users \cup {Nobody},
           NEW t \in Seq(Kinds), IsSplice(t, text, p, mid, text, p),
           NEW r, r = InsertCharacter(s, kind, user)
    PROVE  /\ Upto(d.lines, r.doc.lines, place[p])
           /\ \E place2 : Holds(r.doc, t, place2) /\ Reaches(place, place2, p, 1, r.at)
<1> DEFINE c == place[p]
           new == r.doc.lines
           a == r.at
<1>1. /\ IsLines(d.lines) /\ text \in Seq(Kinds) /\ Spelled(d.lines, text, place)
      /\ "lines" \in DOMAIN d
  BY DEF Holds
<1>2. InLines(d.lines, c) BY <1>1, SpelledFacts
<1>3. /\ "lines" \in DOMAIN r.doc /\ IsLines(new) /\ InLines(new, c) /\ InLines(new, a)
      /\ Upto(d.lines, new, c) /\ Beyond(d.lines, new, c, a)
      /\ Spells(new, kind, c, a)
  <2>1. CASE kind = "newline"
    <3>1. r.doc = WrapLine(d, c) /\ a = Cursor(c.line + 1, 0)
      BY <2>1, SMTT(30) DEF InsertCharacter
    <3>2. "lines" \in DOMAIN r.doc /\ new = Wrapped(d.lines, c)
      BY <1>1, <3>1 DEF WrapLine, Wrapped
    <3> HIDE DEF new, a, c
    <3>3. /\ IsLines(new) /\ InLines(new, c) /\ InLines(new, a)
          /\ Upto(d.lines, new, c) /\ Beyond(d.lines, new, c, a)
          /\ Len(new[c.line + 1]) = c.column
      BY <1>1, <1>2, <3>1, <3>2, LineWrapped
    <3>4. Line(new, c.line) = new[c.line + 1] BY <3>3, InLinesFacts
    <3>5. Spells(new, kind, c, a) BY <2>1, <3>1, <3>3, <3>4 DEF Spells
    <3> QED BY <3>2, <3>3, <3>5 DEF new
  <2>2. CASE kind # "newline"
    <3> DEFINE units == UnitsOf(kind, user)
    <3>1. r.doc = InsertUnits(d, c, units) /\ a = Cursor(c.line, c.column + Len(units))
      BY <2>2 DEF InsertCharacter
    <3>2. /\ units \in Seq(Units) /\ Len(units) = Len(UnitKindsOf(kind))
          /\ DOMAIN UnitKindsOf(kind) = 1 .. Len(units)
          /\ \A i \in 1 .. Len(units) : units[i].kind = UnitKindsOf(kind)[i]
      BY <2>2, UnitsOfFacts, SMTT(30)
    <3> HIDE DEF units
    <3>3. "lines" \in DOMAIN r.doc /\ new = WithUnits(d.lines, c, units)
      BY <1>1, <3>1 DEF InsertUnits, WithUnits
    <3> HIDE DEF new, a, c
    <3>4. /\ IsLines(new) /\ InLines(new, c) /\ InLines(new, a)
          /\ Upto(d.lines, new, c) /\ Beyond(d.lines, new, c, a)
          /\ \A i \in 1 .. Len(units) : new[c.line + 1][c.column + i] = units[i]
      BY <1>1, <1>2, <3>1, <3>2, <3>3, UnitsInserted
    <3>5. /\ Line(new, c.line) = new[c.line + 1] /\ Line(new, a.line) = new[a.line + 1]
          /\ a.column <= Len(new[a.line + 1]) /\ a.line = c.line
      BY <3>1, <3>4, InLinesFacts DEF Cursor
    <3>6. Spells(new, kind, c, a) BY <2>2, <3>1, <3>2, <3>4, <3>5 DEF Spells
    <3> QED BY <3>3, <3>4, <3>6 DEF new
  <2> QED BY <2>1, <2>2
<1>4. mid \in Seq(Kinds) /\ Len(mid) = 1 /\ mid[1] = kind OBVIOUS
<1>5. p \in p .. Len(text) BY <1>1, LenProperties
<1> HIDE DEF new, a
<1>6. PICK place2 : Spelled(new, t, place2) /\ Reaches(place, place2, p, 1, a)
  <2>1. PICK x, n, b : x = d.lines /\ n = new /\ b = a OBVIOUS
  <2>2. /\ IsLines(x) /\ IsLines(n) /\ text \in Seq(Kinds) /\ Spelled(x, text, place)
        /\ InLines(n, b) /\ InLines(n, place[p]) /\ Upto(x, n, place[p])
        /\ Beyond(x, n, place[p], b) /\ Between(n, place[p], mid, b)
    BY <1>1, <1>3, <1>4, <2>1 DEF Between
  <2>3. \E place2 : Spelled(n, t, place2) /\ Reaches(place, place2, p, Len(mid), b)
    BY <1>4, <1>5, <2>2, Spliced
  <2> QED BY <1>4, <2>1, <2>3
<1>7. Holds(r.doc, t, place2) BY <1>3, <1>6 DEF Holds, new
<1> QED BY <1>3, <1>4, <1>6, <1>7 DEF new, a

\* A text without what is between two offsets
Without(text, p, q) == SubSeq(text, 1, p) \o SubSeq(text, q + 1, Len(text))

\* When it is removed from the document, this shows the rest.
LEMMA PartRemoved ==
    ASSUME NEW d, NEW text, NEW place, Holds(d, text, place),
           NEW p \in 0 .. Len(text), NEW q \in p .. Len(text),
           NEW t, t = Without(text, p, q),
           NEW e, e = removeText(d, place[p], place[q])
    PROVE  /\ Upto(d.lines, e.lines, place[p])
           /\ \E place2 : Holds(e, t, place2) /\ Reaches(place, place2, p, 0, place[p])
<1> DEFINE from == place[p]
           to == place[q]
           new == e.lines
<1>1. /\ IsLines(d.lines) /\ text \in Seq(Kinds) /\ Spelled(d.lines, text, place)
      /\ "lines" \in DOMAIN d /\ Len(text) \in Nat
  BY LenProperties DEF Holds
<1>2. q \in 0 .. Len(text) BY <1>1
<1>3. InLines(d.lines, from) /\ InLines(d.lines, to) /\ BeforeOrAt(from, to)
  BY <1>1, <1>2, SpelledFacts, PlacesInOrder
<1>4. Line(d.lines, to.line) = d.lines[to.line + 1]
  BY <1>1, <1>3, InLinesFacts, SMTT(30)
<1>5. "lines" \in DOMAIN e /\ new = WithoutText(d.lines, from, to)
  BY <1>1, <1>4 DEF removeText, WithoutText, JoinedLine
<1> HIDE DEF new
<1>6. /\ IsLines(new) /\ InLines(new, from)
      /\ Upto(d.lines, new, from) /\ Beyond(d.lines, new, to, from)
  <2> HIDE DEF from, to
  <2> QED BY <1>1, <1>3, <1>5, TextRemoved
<1>7. t \in Seq(Kinds) /\ IsSplice(t, text, p, <<>>, text, q)
  BY <1>1, <1>2, CutFacts DEF Without
<1>8. PICK mid : mid = <<>> OBVIOUS
<1>9. mid \in Seq(Kinds) /\ Len(mid) = 0 /\ IsSplice(t, text, p, mid, text, q)
  BY <1>7, <1>8
<1>10. PICK place2 : Spelled(new, t, place2) /\ Reaches(place, place2, p, 0, place[p])
  <2>1. PICK x, n, b : x = d.lines /\ n = new /\ b = place[p] OBVIOUS
  <2>2. /\ IsLines(x) /\ IsLines(n) /\ text \in Seq(Kinds) /\ Spelled(x, text, place)
        /\ InLines(n, b) /\ InLines(n, place[p]) /\ Upto(x, n, place[p])
        /\ Beyond(x, n, place[q], b) /\ Between(n, place[p], mid, b)
    BY <1>1, <1>6, <1>9, <2>1 DEF Between
  <2>3. \E place2 : Spelled(n, t, place2) /\ Reaches(place, place2, p, Len(mid), b)
    BY <1>7, <1>9, <2>2, Spliced
  <2> QED BY <1>9, <2>1, <2>3
<1>11. Holds(e, t, place2) BY <1>5, <1>6, <1>7, <1>10 DEF Holds, new
<1> QED BY <1>6, <1>10, <1>11 DEF new

\* The states that insertText() goes through
InsertsAre(f, d, c, text, user, n) ==
    f = [k \in 0 .. n |-> IF k = 0 THEN [doc |-> d, at |-> c]
                          ELSE InsertCharacter(f[k - 1], text[k], user)]

\* The states between the characters of an insertion exist.
LEMMA InsertsExist ==
    ASSUME NEW d, NEW c, NEW text, NEW user, NEW n \in Nat
    PROVE  \E f : InsertsAre(f, d, c, text, user, n)
<1> DEFINE S == {m \in 0 .. n : \E f : InsertsAre(f, d, c, text, user, m)}
<1>1. 0 \in S
  <2>1. InsertsAre([k \in 0 .. 0 |-> [doc |-> d, at |-> c]], d, c, text, user, 0)
    BY DEF InsertsAre
  <2> QED BY <2>1
<1>2. ASSUME NEW i \in 0 .. n - 1, i \in S PROVE i + 1 \in S
  <2>1. PICK f : InsertsAre(f, d, c, text, user, i) BY <1>2
  <2>2. PICK g : LongerBy(g, f, i, InsertCharacter(f[i], text[i + 1], user))
    BY OneMore
  <2>3. \A k \in 0 .. i + 1 : g[k] = IF k = 0 THEN [doc |-> d, at |-> c]
                                        ELSE InsertCharacter(g[k - 1], text[k], user)
    BY <2>1, <2>2 DEF LongerBy, InsertsAre
  <2>4. InsertsAre(g, d, c, text, user, i + 1)
    BY <2>2, <2>3 DEF LongerBy, InsertsAre
  <2> QED BY <2>4
<1>3. n \in S
  <2> HIDE DEF S
  <2> QED BY <1>1, <1>2, UpTo
<1> QED BY <1>3

\* insertText, read off those states
LEMMA InsertsFacts ==
    ASSUME NEW d, NEW c, NEW text, Len(text) \in Nat, NEW user
    PROVE  \E f : /\ InsertsAre(f, d, c, text, user, Len(text))
                  /\ insertText(d, c, text, user) = f[Len(text)]
<1> DEFINE f == CHOOSE f : InsertsAre(f, d, c, text, user, Len(text))
<1>1. InsertsAre(f, d, c, text, user, Len(text)) BY InsertsExist
<1>2. insertText(d, c, text, user) = f[Len(text)] BY DEF InsertsAre, insertText
<1> HIDE DEF f
<1> QED BY <1>1, <1>2

\* A text with n characters in it and one with one more
LEMMA SpliceGrows ==
    ASSUME NEW text \in Seq(Kinds), NEW ins \in Seq(Kinds), NEW p \in 0 .. Len(text),
           NEW n \in 0 .. Len(ins) - 1, NEW t, NEW r, NEW x, NEW y, NEW z,
           x = SubSeq(ins, 1, n), y = SubSeq(ins, 1, n + 1), z = <<ins[n + 1]>>,
           IsSplice(t, text, p, x, text, p), IsSplice(r, text, p, y, text, p)
    PROVE  IsSplice(r, t, p + n, z, t, p + n)
<1>1. PICK len \in Nat : len = Len(text) BY LenProperties
<1>2. p \in Nat /\ n \in Nat /\ p <= len BY <1>1, LenProperties
<1>3. /\ Len(x) = n /\ \A i \in 1 .. n : x[i] = ins[i]
      /\ Len(y) = n + 1 /\ \A i \in 1 .. n + 1 : y[i] = ins[i]
  <2>1. PICK m : m = n + 1 OBVIOUS
  <2>2. n \in 0 .. Len(ins) /\ m \in 0 .. Len(ins) BY <2>1, LenProperties
  <2>3. Len(x) = n /\ \A i \in 1 .. n : x[i] = ins[i] BY <2>2, PrefixFacts
  <2>4. Len(y) = m /\ \A i \in 1 .. m : y[i] = ins[i] BY <2>1, <2>2, PrefixFacts
  <2> QED BY <2>1, <2>3, <2>4
<1>4. Len(z) = 1 /\ z[1] = ins[n + 1] OBVIOUS
<1>5. /\ Len(t) = p + n + (len - p)
      /\ \A i \in 1 .. p : t[i] = text[i]
      /\ \A i \in 1 .. n : t[p + i] = x[i]
      /\ \A i \in p + 1 .. len : t[i - p + p + n] = text[i]
  BY <1>1, <1>3, SMTT(30) DEF IsSplice
<1>6. /\ Len(r) = p + (n + 1) + (len - p)
      /\ \A i \in 1 .. p : r[i] = text[i]
      /\ \A i \in 1 .. n + 1 : r[p + i] = y[i]
      /\ \A i \in p + 1 .. len : r[i - p + p + (n + 1)] = text[i]
  BY <1>1, <1>3 DEF IsSplice
<1>7. Len(r) = (p + n) + Len(z) + (Len(t) - (p + n))
  <2>1. p + (n + 1) + (len - p) = (p + n) + 1 + ((p + n + (len - p)) - (p + n))
    BY <1>2
  <2> QED BY <1>4, <1>5, <1>6, <2>1
<1>8. ASSUME NEW i \in 1 .. p + n PROVE r[i] = t[i]
  <2>1. CASE i <= p
    <3>1. i \in 1 .. p BY <1>2, <2>1
    <3> QED BY <1>5, <1>6, <3>1
  <2>2. CASE ~(i <= p)
    <3>1. i - p \in 1 .. n /\ i - p \in 1 .. n + 1 /\ p + (i - p) = i BY <1>2, <2>2
    <3>2. r[p + (i - p)] = y[i - p] /\ t[p + (i - p)] = x[i - p] /\ x[i - p] = ins[i - p]
          /\ y[i - p] = ins[i - p]
      BY <1>3, <1>5, <1>6, <3>1
    <3> QED BY <3>1, <3>2
  <2> QED BY <2>1, <2>2
<1>9. ASSUME NEW i \in 1 .. Len(z) PROVE r[(p + n) + i] = z[i]
  <2>1. i = 1 /\ n + 1 \in 1 .. n + 1 /\ p + (n + 1) = (p + n) + 1 BY <1>2, <1>4
  <2>2. r[p + (n + 1)] = y[n + 1] /\ y[n + 1] = ins[n + 1] BY <1>3, <1>6, <2>1
  <2> QED BY <1>4, <2>1, <2>2
<1>10. ASSUME NEW i \in (p + n) + 1 .. Len(t) PROVE r[i - (p + n) + (p + n) + Len(z)] = t[i]
  <2>1. i \in (p + n) + 1 .. p + n + (len - p) BY <1>5
  <2>2. /\ i - n \in p + 1 .. len /\ (i - n) - p + p + n = i
        /\ (i - n) - p + p + (n + 1) = i - (p + n) + (p + n) + 1
    BY <1>2, <2>1
  <2>3. t[(i - n) - p + p + n] = text[i - n] /\ r[(i - n) - p + p + (n + 1)] = text[i - n]
    BY <1>5, <1>6, <2>2
  <2> QED BY <1>4, <2>2, <2>3
<1> QED BY <1>7, <1>8, <1>9, <1>10 DEF IsSplice

\* A text put in at a place is part of the text, and the end of the insertion is the
\* place behind it.
LEMMA TextInserted ==
    ASSUME NEW d, NEW text, NEW place, Holds(d, text, place), NEW p \in 0 .. Len(text),
           NEW ins \in Seq(Kinds), NEW user \in Users \cup {Nobody},
           NEW t, t = SubSeq(text, 1, p) \o ins \o SubSeq(text, p + 1, Len(text)),
           NEW r, r = insertText(d, place[p], ins, user)
    PROVE  /\ Upto(d.lines, r.doc.lines, place[p])
           /\ \E place2 : Holds(r.doc, t, place2) /\ Reaches(place, place2, p, Len(ins), r.at)
<1>1. text \in Seq(Kinds) /\ Len(text) \in Nat /\ Len(ins) \in Nat /\ p \in Nat /\ p <= Len(text)
  BY LenProperties DEF Holds
<1>2. PICK f : InsertsAre(f, d, place[p], ins, user, Len(ins)) /\ r = f[Len(ins)]
  BY <1>1, InsertsFacts
<1>3. /\ f[0].doc = d /\ f[0].at = place[p]
      /\ \A n \in 0 .. Len(ins) - 1 : f[n + 1] = InsertCharacter(f[n], ins[n + 1], user)
  <2>1. \A k \in 0 .. Len(ins) : f[k] = IF k = 0 THEN [doc |-> d, at |-> place[p]]
                                        ELSE InsertCharacter(f[k - 1], ins[k], user)
    BY <1>2 DEF InsertsAre
  <2>2. \A n \in 0 .. Len(ins) - 1 : n + 1 \in 0 .. Len(ins) /\ n + 1 # 0 /\ (n + 1) - 1 = n
    BY <1>1
  <2>3. 0 \in 0 .. Len(ins) BY <1>1
  <2> QED BY <2>1, <2>2, <2>3
<1> DEFINE T(n) == SubSeq(text, 1, p) \o SubSeq(ins, 1, n) \o SubSeq(text, p + 1, Len(text))
           Done(n) == /\ Upto(d.lines, f[n].doc.lines, place[p])
                      /\ \E pl : Holds(f[n].doc, T(n), pl) /\ Reaches(place, pl, p, n, f[n].at)
           S == {n \in 0 .. Len(ins) : Done(n)}
<1>4. \A n \in 0 .. Len(ins) : T(n) \in Seq(Kinds) /\ IsSplice(T(n), text, p, SubSeq(ins, 1, n), text, p)
  <2> TAKE n \in 0 .. Len(ins)
  <2>1. SubSeq(ins, 1, n) \in Seq(Kinds) BY PrefixFacts
  <2> QED BY <1>1, <2>1, SpliceFacts
<1>5. 0 \in S
  <2>1. T(0) = text
    <3>1. SubSeq(ins, 1, 0) = <<>> BY SubSeqEmpty
    <3>2. SubSeq(text, 1, p) \o <<>> = SubSeq(text, 1, p)
      BY <1>1, PrefixFacts, ConcatEmptySeq
    <3>3. SubSeq(text, 1, p) \o SubSeq(text, p + 1, Len(text)) = text
      <4> DEFINE w == SubSeq(text, 1, p) \o SubSeq(text, p + 1, Len(text))
      <4>1. w \in Seq(Kinds) /\ IsSplice(w, text, p, <<>>, text, p)
        BY <1>1, CutFacts
      <4>2. Len(<<>>) = 0 OBVIOUS
      <4> HIDE DEF w
      <4>3. Len(w) = p + 0 + (Len(text) - p) BY <4>1, <4>2 DEF IsSplice
      <4>4. Len(w) = Len(text) BY <1>1, <4>3
      <4>5. ASSUME NEW i \in 1 .. Len(text) PROVE w[i] = text[i]
        <5>1. CASE i <= p BY <1>1, <4>1, <5>1 DEF IsSplice
        <5>2. CASE ~(i <= p)
          <6>1. i \in p + 1 .. Len(text) /\ i - p + p + 0 = i BY <1>1, <5>2
          <6>2. w[i - p + p + 0] = text[i] BY <4>1, <4>2, <6>1 DEF IsSplice
          <6> QED BY <6>1, <6>2
        <5> QED BY <5>1, <5>2
      <4>6. w = text BY <1>1, <4>1, <4>4, <4>5, SeqEqual
      <4> QED BY <4>6 DEF w
    <3> QED BY <3>1, <3>2, <3>3
  <2>2. Upto(d.lines, f[0].doc.lines, place[p]) BY <1>3 DEF Upto
  <2>3. Reaches(place, place, p, 0, f[0].at)
    <3>1. p + 0 = p BY <1>1
    <3> QED BY <1>3, <3>1 DEF Reaches
  <2>4. Holds(f[0].doc, T(0), place)
    <3> HIDE DEF T
    <3> QED BY <1>3, <2>1
  <2>5. Done(0)
    <3> HIDE DEF T
    <3> QED BY <2>2, <2>3, <2>4
  <2> HIDE DEF Done
  <2> QED BY <1>1, <2>5
<1>6. ASSUME NEW n \in 0 .. Len(ins) - 1, n \in S PROVE n + 1 \in S
  <2>1. n \in 0 .. Len(ins) /\ n + 1 \in 0 .. Len(ins) /\ n + 1 \in 1 .. Len(ins) /\ n \in Nat
    BY <1>1
  <2>2. Done(n) BY <1>6
  <2> HIDE DEF T
  <2>3. Upto(d.lines, f[n].doc.lines, place[p]) BY <2>2
  <2>4. PICK pl : Holds(f[n].doc, T(n), pl) /\ Reaches(place, pl, p, n, f[n].at)
    BY <2>2
  <2>5. PICK t1, t2, s, s2 : t1 = T(n) /\ t2 = T(n + 1) /\ s = f[n] /\ s2 = f[n + 1]
    OBVIOUS
  <2>6. /\ t1 \in Seq(Kinds) /\ t2 \in Seq(Kinds)
        /\ IsSplice(t1, text, p, SubSeq(ins, 1, n), text, p)
        /\ IsSplice(t2, text, p, SubSeq(ins, 1, n + 1), text, p)
    BY <1>4, <2>1, <2>5
  <2>7. PICK kind : kind = ins[n + 1] OBVIOUS
  <2>8. kind \in Kinds BY <2>1, <2>7, ElementOfSeq
  <2>9. PICK q, mid : q = p + n /\ mid = <<kind>> OBVIOUS
  <2>10. IsSplice(t2, t1, q, mid, t1, q) BY <1>1, <2>6, <2>7, <2>9, SpliceGrows
  <2>11. q \in 0 .. Len(t1)
    <3>1. Len(SubSeq(ins, 1, n)) = n BY <2>1, PrefixFacts
    <3>2. Len(t1) = p + n + (Len(text) - p) BY <2>6, <3>1 DEF IsSplice
    <3>3. p + n \in 0 .. p + n + (Len(text) - p) BY <1>1, <2>1
    <3> QED BY <2>9, <3>2, <3>3
  <2>12. s.at = pl[q] /\ pl[p] = place[p]
    <3>1. p \in 0 .. p BY <1>1
    <3> QED BY <2>4, <2>5, <2>9, <3>1 DEF Reaches
  <2>13. s2 = InsertCharacter(s, kind, user) BY <1>3, <2>5, <2>7
  <2>14. PICK e : e = s.doc OBVIOUS
  <2>15. Holds(e, t1, pl) BY <2>4, <2>5, <2>14
  <2>16. /\ Upto(e.lines, s2.doc.lines, pl[q])
         /\ \E place2 : Holds(s2.doc, t2, place2) /\ Reaches(pl, place2, q, 1, s2.at)
    BY <2>6, <2>8, <2>10, <2>9, <2>11, <2>12, <2>13, <2>14, <2>15, CharacterInserted
  <2>17. PICK pl2 : /\ Holds(s2.doc, t2, pl2)
                    /\ \A i \in 0 .. q : pl2[i] = pl[i]
                    /\ pl2[q + 1] = s2.at
    BY <2>16 DEF Reaches
  <2>18. Reaches(place, pl2, p, n + 1, s2.at)
    <3>1. \A i \in 0 .. p : i \in 0 .. q BY <1>1, <2>1, <2>9
    <3>2. q + 1 = p + (n + 1) BY <1>1, <2>1, <2>9
    <3> QED BY <2>4, <2>17, <3>1, <3>2 DEF Reaches
  <2>19. Upto(d.lines, s2.doc.lines, place[p])
    <3>1. IsLines(e.lines) /\ Spelled(e.lines, t1, pl) BY <2>15 DEF Holds
    <3>2. p \in 0 .. Len(t1) /\ q \in p .. Len(t1) BY <1>1, <2>1, <2>9, <2>11
    <3>3. BeforeOrAt(pl[p], pl[q]) /\ InLines(e.lines, pl[p]) /\ InLines(e.lines, pl[q])
      BY <2>6, <2>11, <3>1, <3>2, PlacesInOrder, SpelledFacts
    <3>4. PICK c, g : c = pl[p] /\ g = pl[q] OBVIOUS
    <3>5. /\ c.line \in Nat /\ c.column \in Nat /\ g.line \in Nat /\ g.column \in Nat
          /\ BeforeOrAt(c, g)
      BY <3>3, <3>4 DEF InLines
    <3>6. PICK x, y, z : x = d.lines /\ y = e.lines /\ z = s2.doc.lines OBVIOUS
    <3>7. Upto(x, y, c) /\ Upto(y, z, g)
      BY <2>3, <2>5, <2>12, <2>14, <2>16, <3>4, <3>6
    <3>8. Upto(x, z, c) BY <3>5, <3>7, UptoTransitive
    <3> QED BY <2>12, <3>4, <3>6, <3>8
  <2>20. Done(n + 1) BY <2>5, <2>17, <2>18, <2>19
  <2> HIDE DEF Done
  <2> QED BY <2>1, <2>20
<1>7. \A n \in 0 .. Len(ins) : n \in S
  <2> HIDE DEF S
  <2> QED BY <1>1, <1>5, <1>6, UpTo
<1>8. Done(Len(ins))
  <2>1. Len(ins) \in 0 .. Len(ins) BY <1>1
  <2> HIDE DEF Done
  <2> QED BY <1>7, <2>1
<1>9. T(Len(ins)) = t
  <2>1. SubSeq(ins, 1, Len(ins)) = ins BY SubSeqFull
  <2> QED BY <2>1
<1> HIDE DEF T
<1> QED BY <1>2, <1>8, <1>9

-----------------------------------------------------------------------------
(* The marks of who wrote what *)

\* The types of the parts of a document
Spots  == [line : Nat, column : Nat]
Colors == [hue : Int, dimmed : BOOLEAN]
Marks  == [start : Spots, end : Spots, name : Users \cup {NoName}, color : Colors]

\* A document and a range, put together from their parts
DocOf(L, R, C)        == [lines |-> L, ranges |-> R, colors |-> C]
Mark(s, e, name, col) == [start |-> s, end |-> e, name |-> name, color |-> col]

\* A cursor before a unit, and who wrote the unit
IsUnit(L, x) == InLines(L, x) /\ x.column < Len(L[x.line + 1])
By(L, x)     == L[x.line + 1][x.column + 1].by

\* A range shows the unit behind a cursor.
Covers(r, x) == BeforeOrAt(r.start, x) /\ Before(x, r.end)

\* A range in one line, and one whose ends are in the text
Flat(r)      == r.start.line = r.end.line /\ r.start.column <= r.end.column
Within(L, r) == InLines(L, r.start) /\ InLines(L, r.end)

\* The colours in use: the users' are on the circle, and told apart, the other one is not.
Palette(C) ==
    /\ C \in [DOMAIN C -> Colors]
    /\ Initially \in DOMAIN C /\ C[Initially].hue = -1
    /\ \A u \in DOMAIN C : u # Initially => u \in Users /\ C[u].hue \in 0 .. 359
    /\ ToldApart(C)

\* A range has the colour of a user, of the one whose name it has if it has one.
Tied(C, r) ==
    /\ \E u \in DOMAIN C : r.color = C[u]
    /\ r.name # NoName => r.name \in DOMAIN C /\ r.color = C[r.name]

\* Two ranges show no unit both.
Clear(r, s) == \/ isEmpty(r) \/ isEmpty(s)
               \/ BeforeOrAt(r.end, s.start) \/ BeforeOrAt(s.end, r.start)
Apart(R) == \A i, j \in 1 .. Len(R) : i # j => Clear(R[i], R[j])

\* The unit at a cursor is shown as its author's, or as nobody's.
Right(L, R, C, x) ==
    /\ By(L, x) = Nobody => \A i \in 1 .. Len(R) : ~Covers(R[i], x)
    /\ By(L, x) # Nobody =>
          /\ By(L, x) \in DOMAIN C
          /\ \E i \in 1 .. Len(R) : Covers(R[i], x) /\ R[i].color = C[By(L, x)]

\* The order of cursors, as one of numbers
LEMMA Orders ==
    /\ \A c, d \in Spots : BeforeOrAt(c, d) <=>
           c.line < d.line \/ (c.line = d.line /\ c.column <= d.column)
    /\ \A c, d \in Spots : c = d <=> c.line = d.line /\ c.column = d.column
    /\ \A c \in Spots : c.line \in Nat /\ c.column \in Nat
    /\ \A l, k \in Nat : Cursor(l, k) \in Spots /\ Cursor(l, k).line = l /\ Cursor(l, k).column = k
<1>1. \A c, d \in Spots : c = d <=> c.line = d.line /\ c.column = d.column
  BY DEF Spots
<1>2. \A c \in Spots : c.line \in Nat /\ c.column \in Nat BY DEF Spots
<1>3. \A c, d \in Spots : BeforeOrAt(c, d) <=>
           c.line < d.line \/ (c.line = d.line /\ c.column <= d.column)
  BY <1>1, <1>2 DEF BeforeOrAt, Before
<1>4. \A l, k \in Nat : Cursor(l, k) \in Spots /\ Cursor(l, k).line = l /\ Cursor(l, k).column = k
  BY DEF Cursor, Spots
<1> QED BY <1>1, <1>2, <1>3, <1>4

\* The laws of the order
LEMMA OrderLaws ==
    /\ \A c, d \in Spots : BeforeOrAt(c, d) \/ Before(d, c)
    /\ \A c, d \in Spots : Before(d, c) => ~BeforeOrAt(c, d)
    /\ \A c, d \in Spots : Before(c, d) => BeforeOrAt(c, d)
    /\ \A c, d \in Spots : BeforeOrAt(c, d) /\ BeforeOrAt(d, c) => c = d
    /\ \A c \in Spots : BeforeOrAt(c, c) /\ ~Before(c, c)
    /\ \A c, d, e \in Spots : BeforeOrAt(c, d) /\ BeforeOrAt(d, e) => BeforeOrAt(c, e)
    /\ \A c, d, e \in Spots : BeforeOrAt(c, d) /\ Before(d, e) => Before(c, e)
    /\ \A c, d, e \in Spots : Before(c, d) /\ BeforeOrAt(d, e) => Before(c, e)
<1> USE DEF Before
<1>1. \A c, d \in Spots : BeforeOrAt(c, d) \/ Before(d, c) BY Orders
<1>2. \A c, d \in Spots : Before(d, c) => ~BeforeOrAt(c, d) BY Orders
<1>3. \A c, d \in Spots : Before(c, d) => BeforeOrAt(c, d) BY Orders
<1>4. \A c, d \in Spots : BeforeOrAt(c, d) /\ BeforeOrAt(d, c) => c = d BY Orders
<1>5. \A c \in Spots : BeforeOrAt(c, c) /\ ~Before(c, c) BY Orders
<1>6. \A c, d, e \in Spots : BeforeOrAt(c, d) /\ BeforeOrAt(d, e) => BeforeOrAt(c, e)
  BY Orders
<1>7. \A c, d, e \in Spots : BeforeOrAt(c, d) /\ Before(d, e) => Before(c, e)
  BY Orders
<1>8. \A c, d, e \in Spots : Before(c, d) /\ BeforeOrAt(d, e) => Before(c, e)
  BY Orders
<1> HIDE DEF Before
<1> QED BY <1>1, <1>2, <1>3, <1>4, <1>5, <1>6, <1>7, <1>8

\* A cursor of a document is one.
LEMMA InLinesSpot ==
    ASSUME NEW L, NEW x
    PROVE  InLines(L, x) <=> /\ x \in Spots
                             /\ x.line \in 0 .. Len(L) - 1
                             /\ x.column \in 0 .. Len(L[x.line + 1])
<1>1. x \in Spots => x = Cursor(x.line, x.column) /\ x.line \in Nat /\ x.column \in Nat
  BY DEF Spots, Cursor
<1>2. x = Cursor(x.line, x.column) /\ x.line \in Nat /\ x.column \in Nat => x \in Spots
  BY DEF Spots, Cursor
<1> QED BY <1>1, <1>2 DEF InLines

\* The order behind a cursor is kept when all is moved on.
LEMMA ShiftOrder ==
    ASSUME NEW b \in Spots, NEW a \in Spots, NEW x \in Spots, NEW y \in Spots,
           BeforeOrAt(b, x), BeforeOrAt(b, y)
    PROVE  /\ Shift(x, b, a) \in Spots /\ BeforeOrAt(a, Shift(x, b, a))
           /\ BeforeOrAt(x, y) <=> BeforeOrAt(Shift(x, b, a), Shift(y, b, a))
           /\ Before(x, y) <=> Before(Shift(x, b, a), Shift(y, b, a))
           /\ x.line = y.line <=> Shift(x, b, a).line = Shift(y, b, a).line
           /\ x = b => Shift(x, b, a) = a
           /\ x.line = b.line <=> Shift(x, b, a).line = a.line
           /\ x = y <=> Shift(x, b, a) = Shift(y, b, a)
           /\ Before(b, x) => Before(a, Shift(x, b, a))
<1>1. \A z \in Spots : BeforeOrAt(b, z) =>
          /\ Shift(z, b, a) \in Spots
          /\ z.line = b.line => /\ Shift(z, b, a).line = a.line /\ z.column >= b.column
                                /\ Shift(z, b, a).column = a.column + (z.column - b.column)
          /\ z.line # b.line => /\ Shift(z, b, a).line = z.line - b.line + a.line
                                /\ Shift(z, b, a).column = z.column /\ z.line > b.line
  <2> TAKE z \in Spots
  <2> HAVE BeforeOrAt(b, z)
  <2>1. z.line > b.line \/ (z.line = b.line /\ z.column >= b.column) BY Orders
  <2>2. CASE z.line = b.line
    <3>1. PICK k \in Nat : k = a.column + (z.column - b.column)
      BY <2>1, <2>2, Orders
    <3>2. Shift(z, b, a) = Cursor(a.line, k) BY <2>2, <3>1 DEF Shift
    <3> QED BY <2>1, <2>2, <3>1, <3>2, Orders
  <2>3. CASE z.line # b.line
    <3>1. PICK k \in Nat : k = z.line - b.line + a.line BY <2>1, <2>3, Orders
    <3>2. Shift(z, b, a) = Cursor(k, z.column) BY <2>3, <3>1 DEF Shift
    <3> QED BY <2>1, <2>3, <3>1, <3>2, Orders
  <2> QED BY <2>2, <2>3
<1>2. PICK v \in Spots, w \in Spots : v = Shift(x, b, a) /\ w = Shift(y, b, a)
  BY <1>1
<1>3. /\ x.line = b.line => v.line = a.line /\ x.column >= b.column
                                /\ v.column = a.column + (x.column - b.column)
      /\ x.line # b.line => v.line = x.line - b.line + a.line
                                /\ v.column = x.column /\ x.line > b.line
      /\ y.line = b.line => w.line = a.line /\ y.column >= b.column
                                /\ w.column = a.column + (y.column - b.column)
      /\ y.line # b.line => w.line = y.line - b.line + a.line
                                /\ w.column = y.column /\ y.line > b.line
  BY <1>1, <1>2
<1>4. PICK bl, bc, al, ac, xl, xc, yl, yc, vl, vc, wl, wc \in Nat :
          /\ bl = b.line /\ bc = b.column /\ al = a.line /\ ac = a.column
          /\ xl = x.line /\ xc = x.column /\ yl = y.line /\ yc = y.column
          /\ vl = v.line /\ vc = v.column /\ wl = w.line /\ wc = w.column
  BY Orders
<1>5. /\ xl = bl => vl = al /\ xc >= bc /\ vc = ac + (xc - bc)
      /\ xl # bl => vl = xl - bl + al /\ vc = xc /\ xl > bl
      /\ yl = bl => wl = al /\ yc >= bc /\ wc = ac + (yc - bc)
      /\ yl # bl => wl = yl - bl + al /\ wc = yc /\ yl > bl
  BY <1>3, <1>4
<1>6. /\ al < vl \/ (al = vl /\ ac <= vc)
      /\ (xl < yl \/ (xl = yl /\ xc <= yc)) <=> (vl < wl \/ (vl = wl /\ vc <= wc))
      /\ (xl < yl \/ (xl = yl /\ xc < yc)) <=> (vl < wl \/ (vl = wl /\ vc < wc))
      /\ xl = yl <=> vl = wl
      /\ (xl = bl /\ xc = bc) => (vl = al /\ vc = ac)
      /\ xl = bl <=> vl = al
      /\ (xl = yl /\ xc = yc) <=> (vl = wl /\ vc = wc)
      /\ (bl < xl \/ (bl = xl /\ bc < xc)) => (al < vl \/ (al = vl /\ ac < vc))
  BY <1>5
<1>7. /\ v \in Spots
      /\ BeforeOrAt(a, v) <=> (al < vl \/ (al = vl /\ ac <= vc))
      /\ BeforeOrAt(x, y) <=> (xl < yl \/ (xl = yl /\ xc <= yc))
      /\ BeforeOrAt(v, w) <=> (vl < wl \/ (vl = wl /\ vc <= wc))
  BY <1>4, Orders
<1>8. /\ Before(x, y) <=> (xl < yl \/ (xl = yl /\ xc < yc))
      /\ Before(v, w) <=> (vl < wl \/ (vl = wl /\ vc < wc))
      /\ Before(b, x) <=> (bl < xl \/ (bl = xl /\ bc < xc))
      /\ Before(a, v) <=> (al < vl \/ (al = vl /\ ac < vc))
  BY <1>4 DEF Before
<1>9. /\ x = b <=> xl = bl /\ xc = bc
      /\ v = a <=> vl = al /\ vc = ac
      /\ x = y <=> xl = yl /\ xc = yc
      /\ v = w <=> vl = wl /\ vc = wc
  BY <1>4, Orders
<1> QED BY <1>2, <1>4, <1>6, <1>7, <1>8, <1>9

\* The same, for places that are equal or in the same line
LEMMA ShiftSame ==
    ASSUME NEW b \in Spots, NEW a \in Spots, NEW x \in Spots, NEW y \in Spots,
           BeforeOrAt(b, x), BeforeOrAt(b, y)
    PROVE  /\ x.line = y.line => Shift(x, b, a).line = Shift(y, b, a).line
           /\ x = y => Shift(x, b, a) = Shift(y, b, a)
           /\ x.line = b.line => Shift(x, b, a).line = a.line
<1>1. x.line = y.line => Shift(x, b, a).line = Shift(y, b, a).line
  BY ShiftOrder, SMTT(30)
<1>2. x = y => Shift(x, b, a) = Shift(y, b, a) OBVIOUS
<1>3. x.line = b.line => Shift(x, b, a).line = a.line BY ShiftOrder, SMTT(30)
<1> QED BY <1>1, <1>2, <1>3

\* What is at a cursor behind the one place is at the moved cursor behind the other.
LEMMA ShiftInLines ==
    ASSUME NEW L, IsLines(L), NEW N, IsLines(N), NEW b, InLines(L, b), NEW a, InLines(N, a),
           Beyond(L, N, b, a), NEW x, InLines(L, x), BeforeOrAt(b, x)
    PROVE  InLines(N, Shift(x, b, a))
<1>1. b \in Spots /\ a \in Spots /\ x \in Spots BY InLinesSpot
<1>2. PICK bl, bc, al, ac, xl, xc, n, m \in Nat :
          /\ bl = b.line /\ bc = b.column /\ al = a.line /\ ac = a.column
          /\ xl = x.line /\ xc = x.column /\ n = Len(L) /\ m = Len(N)
  BY <1>1, Orders, InLinesFacts
<1>3. PICK g, h, k \in Nat : g = Len(L[bl + 1]) /\ h = Len(N[al + 1]) /\ k = Len(L[xl + 1])
  BY <1>2, InLinesFacts
<1>4. bl < n /\ al < m /\ xl < n /\ bc <= g /\ ac <= h /\ xc <= k
  BY <1>2, <1>3, InLinesFacts
<1>5. m - al = n - bl /\ h - ac = g - bc BY <1>2, <1>3 DEF Beyond
<1>6. bl < xl \/ (bl = xl /\ bc <= xc) BY <1>1, <1>2, Orders
<1>7. CASE xl = bl
  <2>1. PICK i \in Nat : i = ac + (xc - bc) BY <1>6, <1>7
  <2>2. Shift(x, b, a) = Cursor(al, i) BY <1>2, <1>7, <2>1 DEF Shift
  <2>3. i \in 0 .. h /\ al \in 0 .. m - 1 BY <1>3, <1>4, <1>5, <1>7, <2>1
  <2>4. PICK v : v = Cursor(al, i) OBVIOUS
  <2>5. v \in Spots /\ v.line = al /\ v.column = i BY <2>4, Orders
  <2> QED BY <1>2, <1>3, <2>2, <2>3, <2>4, <2>5, InLinesSpot
<1>8. CASE xl # bl
  <2>1. PICK i \in Nat : i = xl - bl + al BY <1>6, <1>8
  <2>2. Shift(x, b, a) = Cursor(i, xc) BY <1>2, <1>8, <2>1 DEF Shift
  <2>3. i \in 0 .. m - 1 /\ xl + 1 \in bl + 2 .. n /\ (xl + 1) - bl + al = i + 1
    BY <1>4, <1>5, <1>6, <1>8, <2>1
  <2>4. N[i + 1] = L[xl + 1]
    <3>1. N[(xl + 1) - bl + al] = L[xl + 1] BY <1>2, <2>3 DEF Beyond
    <3> QED BY <2>3, <3>1
  <2>5. PICK v : v = Cursor(i, xc) OBVIOUS
  <2>6. v \in Spots /\ v.line = i /\ v.column = xc BY <2>5, Orders
  <2>7. xc \in 0 .. Len(N[i + 1]) BY <1>3, <1>4, <2>4
  <2> QED BY <1>2, <2>2, <2>3, <2>5, <2>6, <2>7, InLinesSpot
<1> QED BY <1>7, <1>8

\* What a cursor behind the one place was, and that a unit was there, too
LEMMA ShiftBack ==
    ASSUME NEW L, IsLines(L), NEW N, IsLines(N), NEW b, InLines(L, b), NEW a, InLines(N, a),
           Beyond(L, N, b, a), NEW y, IsUnit(N, y), BeforeOrAt(a, y)
    PROVE  \E x : /\ IsUnit(L, x) /\ BeforeOrAt(b, x) /\ y = Shift(x, b, a)
                  /\ By(N, y) = By(L, x)
<1>1. InLines(N, y) /\ y.column < Len(N[y.line + 1]) BY DEF IsUnit
<1>2. b \in Spots /\ a \in Spots /\ y \in Spots BY <1>1, InLinesSpot
<1>3. PICK bl, bc, al, ac, yl, yc, n, m \in Nat :
          /\ bl = b.line /\ bc = b.column /\ al = a.line /\ ac = a.column
          /\ yl = y.line /\ yc = y.column /\ n = Len(L) /\ m = Len(N)
  BY <1>1, <1>2, Orders, InLinesFacts
<1>4. PICK g, h, k \in Nat : g = Len(L[bl + 1]) /\ h = Len(N[al + 1]) /\ k = Len(N[yl + 1])
  BY <1>1, <1>3, InLinesFacts
<1>5. bl < n /\ al < m /\ yl < m /\ bc <= g /\ ac <= h /\ yc < k
  BY <1>1, <1>3, <1>4, InLinesFacts
<1>6. m - al = n - bl /\ h - ac = g - bc BY <1>3, <1>4 DEF Beyond
<1>7. al < yl \/ (al = yl /\ ac <= yc) BY <1>2, <1>3, Orders
<1>8. CASE yl = al
  <2>1. PICK i \in Nat : i = bc + (yc - ac) BY <1>7, <1>8
  <2>2. PICK x : x = Cursor(bl, i) OBVIOUS
  <2>3. x \in Spots /\ x.line = bl /\ x.column = i BY <2>2, Orders
  <2>4. i < g /\ yc = ac + (i - bc) /\ bc <= i BY <1>4, <1>5, <1>6, <1>7, <1>8, <2>1
  <2>5. IsUnit(L, x)
    <3>1. bl \in 0 .. n - 1 /\ i \in 0 .. g BY <1>5, <2>4
    <3> QED BY <1>3, <1>4, <2>3, <2>4, <3>1, InLinesSpot DEF IsUnit
  <2>6. y = Shift(x, b, a)
    <3>1. Shift(x, b, a) = Cursor(al, yc) BY <1>3, <2>3, <2>4 DEF Shift
    <3>2. y = Cursor(yl, yc) BY <1>1, <1>3 DEF InLines
    <3> QED BY <1>8, <3>1, <3>2
  <2>7. By(N, y) = By(L, x)
    <3>1. i - bc + 1 \in 1 .. g - bc /\ ac + (i - bc + 1) = yc + 1 /\ bc + (i - bc + 1) = i + 1
      BY <2>4
    <3>2. N[al + 1][ac + (i - bc + 1)] = L[bl + 1][bc + (i - bc + 1)]
      BY <1>3, <1>4, <3>1 DEF Beyond
    <3>3. N[al + 1][yc + 1] = L[bl + 1][i + 1] BY <3>1, <3>2
    <3> QED BY <1>3, <1>8, <2>3, <3>3 DEF By
  <2>8. BeforeOrAt(b, x) BY <1>2, <1>3, <2>3, <2>4, Orders
  <2> QED BY <2>5, <2>6, <2>7, <2>8
<1>9. CASE yl # al
  <2>1. PICK i \in Nat : i = yl - al + bl BY <1>7, <1>9
  <2>2. PICK x : x = Cursor(i, yc) OBVIOUS
  <2>3. x \in Spots /\ x.line = i /\ x.column = yc BY <2>2, Orders
  <2>4. i < n /\ yl = i - bl + al /\ bl < i BY <1>5, <1>6, <1>7, <1>9, <2>1
  <2>5. N[yl + 1] = L[i + 1]
    <3>1. i + 1 \in bl + 2 .. n /\ (i + 1) - bl + al = yl + 1 BY <2>4
    <3>2. N[(i + 1) - bl + al] = L[i + 1] BY <1>3, <3>1 DEF Beyond
    <3> QED BY <3>1, <3>2
  <2>6. IsUnit(L, x)
    <3>1. i \in 0 .. n - 1 /\ yc \in 0 .. k /\ Len(L[i + 1]) = k
      BY <1>4, <1>5, <2>4, <2>5
    <3> QED BY <1>3, <1>5, <2>3, <2>4, <3>1, InLinesSpot DEF IsUnit
  <2>7. y = Shift(x, b, a)
    <3>1. Shift(x, b, a) = Cursor(yl, yc) BY <1>3, <2>3, <2>4 DEF Shift
    <3>2. y = Cursor(yl, yc) BY <1>1, <1>3 DEF InLines
    <3> QED BY <3>1, <3>2
  <2>8. By(N, y) = By(L, x) BY <1>3, <2>3, <2>5 DEF By
  <2>9. BeforeOrAt(b, x) BY <1>2, <1>3, <2>3, <2>4, Orders
  <2> QED BY <2>6, <2>7, <2>8, <2>9
<1> QED BY <1>8, <1>9

\* What is before a cursor is where it was.
LEMMA BeforeKept ==
    ASSUME NEW L, IsLines(L), NEW N, IsLines(N), NEW c, InLines(L, c), InLines(N, c),
           Upto(L, N, c)
    PROVE  /\ \A x : InLines(L, x) /\ BeforeOrAt(x, c) => InLines(N, x)
           /\ \A x : IsUnit(N, x) /\ Before(x, c) => IsUnit(L, x) /\ By(N, x) = By(L, x)
<1>1. PICK l, k, n, m \in Nat : l = c.line /\ k = c.column /\ n = Len(L) /\ m = Len(N)
  BY InLinesFacts
<1>2. l < n /\ l < m /\ k <= Len(L[l + 1]) /\ k <= Len(N[l + 1]) /\ c \in Spots
  BY <1>1, InLinesFacts, InLinesSpot
<1>3. Len(L[l + 1]) \in Nat /\ Len(N[l + 1]) \in Nat BY <1>1, InLinesFacts
<1>4. ASSUME NEW x, InLines(L, x), BeforeOrAt(x, c) PROVE InLines(N, x)
  <2>1. x \in Spots /\ x.line \in 0 .. n - 1 /\ x.column \in 0 .. Len(L[x.line + 1])
    BY <1>1, <1>4, InLinesSpot
  <2>2. x.line < l \/ (x.line = l /\ x.column <= k)
    BY <1>1, <1>2, <1>4, <2>1, Orders
  <2>3. CASE x.line < l
    <3>1. x.line + 1 \in 1 .. l /\ x.line \in 0 .. m - 1 BY <1>2, <2>1, <2>3
    <3>2. N[x.line + 1] = L[x.line + 1] BY <1>1, <3>1 DEF Upto
    <3> QED BY <1>1, <2>1, <3>1, <3>2, InLinesSpot
  <2>4. CASE x.line = l /\ x.column <= k
    <3>1. x.column \in 0 .. Len(N[x.line + 1]) /\ x.line \in 0 .. m - 1
      BY <1>2, <1>3, <2>1, <2>4
    <3> QED BY <1>1, <2>1, <3>1, InLinesSpot
  <2> QED BY <2>2, <2>3, <2>4
<1>5. ASSUME NEW x, IsUnit(N, x), Before(x, c) PROVE IsUnit(L, x) /\ By(N, x) = By(L, x)
  <2>1. /\ x \in Spots /\ x.line \in 0 .. m - 1 /\ x.column \in 0 .. Len(N[x.line + 1])
        /\ x.column < Len(N[x.line + 1]) /\ x.column \in Nat /\ x.line \in Nat
    BY <1>1, <1>5, InLinesSpot DEF IsUnit
  <2>2. x.line < l \/ (x.line = l /\ x.column < k) BY <1>1, <1>5 DEF Before
  <2>3. CASE x.line < l
    <3>1. x.line + 1 \in 1 .. l /\ x.line \in 0 .. n - 1 BY <1>2, <2>1, <2>3
    <3>2. N[x.line + 1] = L[x.line + 1] BY <1>1, <3>1 DEF Upto
    <3> QED BY <1>1, <2>1, <3>1, <3>2, InLinesSpot DEF IsUnit, By
  <2>4. CASE x.line = l /\ x.column < k
    <3>1. x.column \in 0 .. Len(L[x.line + 1]) /\ x.line \in 0 .. n - 1 /\ x.column < Len(L[x.line + 1])
      BY <1>2, <1>3, <2>1, <2>4
    <3>2. x.column + 1 \in 1 .. k BY <2>1, <2>4
    <3>3. N[l + 1][x.column + 1] = L[l + 1][x.column + 1] BY <1>1, <3>2 DEF Upto
    <3> QED BY <1>1, <2>1, <2>4, <3>1, <3>3, InLinesSpot DEF IsUnit, By
  <2> QED BY <2>2, <2>3, <2>4
<1> QED BY <1>4, <1>5

\* A range when the text from a on has moved on to b
Pushed(r, a, b) ==
    Mark(IF BeforeOrAt(a, r.start) THEN Shift(r.start, a, b) ELSE r.start,
         IF Before(a, r.end) \/ BeforeOrAt(a, r.start) THEN Shift(r.end, a, b) ELSE r.end,
         r.name, r.color)

\* A range on one side of what was inserted, and one that the text was inserted into
Beside(r, c, a) == BeforeOrAt(r.end, c) \/ BeforeOrAt(a, r.start)
Around(r, c, a) == /\ Before(r.start, c) /\ r.start.line = c.line
                   /\ Before(a, r.end) /\ r.end.line = a.line

\* The parts of a mark
LEMMA MarkFacts ==
    /\ \A r \in Marks : /\ r.start \in Spots /\ r.end \in Spots
                        /\ r.name \in Users \cup {NoName} /\ r.color \in Colors
                        /\ r = Mark(r.start, r.end, r.name, r.color)
    /\ \A s, e, name, col : /\ Mark(s, e, name, col).start = s /\ Mark(s, e, name, col).end = e
                            /\ Mark(s, e, name, col).name = name
                            /\ Mark(s, e, name, col).color = col
    /\ \A s, e \in Spots, name \in Users \cup {NoName}, col \in Colors :
           Mark(s, e, name, col) \in Marks
  BY DEF Marks, Mark

\* The parts of a pushed range
LEMMA PushedParts ==
    ASSUME NEW r \in Marks, BeforeOrAt(r.start, r.end), NEW a \in Spots, NEW b \in Spots,
           NEW s, s = Pushed(r, a, b)
    PROVE  /\ s \in Marks /\ s.name = r.name /\ s.color = r.color
           /\ BeforeOrAt(a, r.start) => /\ s.start = Shift(r.start, a, b)
                                        /\ s.end = Shift(r.end, a, b) /\ BeforeOrAt(a, r.end)
           /\ ~BeforeOrAt(a, r.start) => s.start = r.start /\ Before(r.start, a)
           /\ Before(a, r.end) => s.end = Shift(r.end, a, b) /\ BeforeOrAt(a, r.end)
           /\ ~BeforeOrAt(a, r.start) /\ ~Before(a, r.end) =>
                  s.end = r.end /\ BeforeOrAt(r.end, a)
<1>1. PICK p \in Spots, q \in Spots, n \in Users \cup {NoName}, col \in Colors :
          p = r.start /\ q = r.end /\ n = r.name /\ col = r.color
  BY MarkFacts
<1>2. PICK x, y : /\ x = IF BeforeOrAt(a, p) THEN Shift(p, a, b) ELSE p
                  /\ y = IF Before(a, q) \/ BeforeOrAt(a, p) THEN Shift(q, a, b) ELSE q
                  /\ s = Mark(x, y, n, col)
  BY <1>1 DEF Pushed
<1>3. /\ BeforeOrAt(a, p) => BeforeOrAt(a, q)
      /\ Before(a, q) => BeforeOrAt(a, q)
      /\ ~BeforeOrAt(a, p) => Before(p, a)
      /\ ~Before(a, q) => BeforeOrAt(q, a)
  BY <1>1, OrderLaws
<1>4. \A z \in Spots : BeforeOrAt(a, z) => Shift(z, a, b) \in Spots BY ShiftOrder
<1>5. x \in Spots BY <1>2, <1>4
<1>6. y \in Spots BY <1>2, <1>3, <1>4
<1>7. s \in Marks /\ s.start = x /\ s.end = y /\ s.name = n /\ s.color = col
  BY <1>2, <1>5, <1>6 DEF Mark, Marks
<1>8. BeforeOrAt(a, p) => x = Shift(p, a, b) /\ y = Shift(q, a, b) /\ BeforeOrAt(a, q)
  BY <1>2, <1>3
<1>9. ~BeforeOrAt(a, p) => x = p /\ Before(p, a) BY <1>2, <1>3
<1>10. Before(a, q) => y = Shift(q, a, b) /\ BeforeOrAt(a, q) BY <1>2, <1>3
<1>11. ~BeforeOrAt(a, p) /\ ~Before(a, q) => y = q /\ BeforeOrAt(q, a) BY <1>2, <1>3
<1> QED BY <1>1, <1>7, <1>8, <1>9, <1>10, <1>11

\* A pushed range is as it was, beside what was inserted or around it.
LEMMA PushedFacts ==
    ASSUME NEW r \in Marks, BeforeOrAt(r.start, r.end),
           NEW c \in Spots, NEW a \in Spots, NEW b \in Spots,
           BeforeOrAt(c, a), BeforeOrAt(a, b), NEW s, s = Pushed(r, a, b)
    PROVE  /\ s \in Marks /\ s.name = r.name /\ s.color = r.color
           /\ BeforeOrAt(s.start, s.end)
           /\ Beside(r, c, a) => Beside(s, c, b)
           /\ Flat(r) /\ Beside(r, c, a) => Flat(s)
           /\ Around(r, c, a) => Around(s, c, b)
           /\ isEmpty(r) => isEmpty(s)
           /\ Before(r.end, c) => Before(s.end, c)
           /\ Before(a, r.start) => Before(b, s.start)
           /\ \A x \in Spots : Before(x, a) => (Covers(s, x) <=> Covers(r, x))
           /\ \A x \in Spots : BeforeOrAt(a, x) => (Covers(s, Shift(x, a, b)) <=> Covers(r, x))
<1>1. /\ s \in Marks /\ s.name = r.name /\ s.color = r.color BY PushedParts
<1>2. PICK p \in Spots, q \in Spots, g \in Spots, h \in Spots :
          p = r.start /\ q = r.end /\ g = s.start /\ h = s.end
  BY <1>1, MarkFacts
<1>3. CASE BeforeOrAt(a, p)
  <2>1. g = Shift(p, a, b) /\ h = Shift(q, a, b) /\ BeforeOrAt(a, q)
    BY <1>2, <1>3, PushedParts
  <2>2. /\ BeforeOrAt(b, g)
        /\ p.line = q.line => g.line = h.line
        /\ BeforeOrAt(g, h)
        /\ p = q => g = h
        /\ Before(a, p) => Before(b, g)
    <3>1. BeforeOrAt(p, q) BY <1>2
    <3>2. BeforeOrAt(b, g) BY <1>3, <2>1, ShiftOrder
    <3>3. p.line = q.line => g.line = h.line BY <1>3, <2>1, ShiftSame
    <3>4. BeforeOrAt(g, h) BY <1>3, <2>1, <3>1, ShiftOrder
    <3>5. p = q => g = h BY <2>1
    <3>6. Before(a, p) => Before(b, g) BY <1>3, <2>1, ShiftOrder
    <3> QED BY <3>2, <3>3, <3>4, <3>5, <3>6
  <2>3. p.line = q.line => g.line = h.line /\ g.column <= h.column BY <2>2, Orders
  <2>4. ~Before(p, c) /\ ~Before(q, c) BY <1>2, <1>3, OrderLaws
  <2>5. ASSUME NEW x \in Spots, Before(x, a) PROVE ~BeforeOrAt(p, x) /\ ~BeforeOrAt(g, x)
    BY <1>3, <2>2, <2>5, OrderLaws
  <2>6. ASSUME NEW x \in Spots, BeforeOrAt(a, x), NEW y, y = Shift(x, a, b)
        PROVE  (BeforeOrAt(p, x) <=> BeforeOrAt(g, y)) /\ (Before(x, q) <=> Before(y, h))
    BY <1>3, <2>1, <2>6, ShiftOrder
  <2>7. Beside(s, c, b) BY <1>2, <2>2 DEF Beside
  <2>8. Flat(r) => Flat(s) BY <1>2, <2>3 DEF Flat
  <2>9. ~Around(r, c, a) /\ ~Before(r.end, c) BY <1>2, <2>4 DEF Around
  <2>10. isEmpty(r) => isEmpty(s) BY <1>2, <2>2 DEF isEmpty
  <2>11. \A x \in Spots : Before(x, a) => (Covers(s, x) <=> Covers(r, x))
    BY <1>2, <2>5 DEF Covers
  <2>12. \A x \in Spots : BeforeOrAt(a, x) => (Covers(s, Shift(x, a, b)) <=> Covers(r, x))
    BY <1>2, <2>6 DEF Covers
  <2>13. BeforeOrAt(s.start, s.end) /\ (Before(a, r.start) => Before(b, s.start))
    BY <1>2, <2>2
  <2> QED BY <1>1, <2>7, <2>8, <2>9, <2>10, <2>11, <2>12, <2>13
<1>4. CASE ~BeforeOrAt(a, p) /\ Before(a, q)
  <2>1. g = p /\ h = Shift(q, a, b) /\ Before(p, a) /\ BeforeOrAt(a, q)
    BY <1>2, <1>4, PushedParts
  <2>2. Before(b, h) /\ (q.line = a.line => h.line = b.line)
    <3>1. Before(b, h) BY <1>4, <2>1, ShiftOrder
    <3>2. q.line = a.line => h.line = b.line BY <2>1, ShiftSame
    <3> QED BY <3>1, <3>2
  <2>3. /\ ~BeforeOrAt(q, c) /\ ~BeforeOrAt(a, p) /\ p # q
        /\ ~Before(q, c) /\ ~Before(a, p) /\ BeforeOrAt(g, h)
    BY <1>2, <1>4, <2>1, <2>2, OrderLaws
  <2>4. ASSUME NEW x \in Spots, Before(x, a) PROVE Before(x, q) /\ Before(x, h)
    BY <1>4, <2>2, <2>4, OrderLaws
  <2>5. ASSUME NEW x \in Spots, BeforeOrAt(a, x), NEW y, y = Shift(x, a, b)
        PROVE  /\ BeforeOrAt(p, x) /\ BeforeOrAt(g, y)
               /\ Before(x, q) <=> Before(y, h)
    <3>1. y \in Spots /\ BeforeOrAt(b, y) /\ (Before(x, q) <=> Before(y, h))
      BY <2>1, <2>5, ShiftOrder
    <3>2. BeforeOrAt(p, x) /\ BeforeOrAt(g, y) BY <2>1, <2>5, <3>1, OrderLaws
    <3> QED BY <3>1, <3>2
  <2>6. ~Beside(r, c, a) /\ ~isEmpty(r) BY <1>2, <2>3 DEF Beside, isEmpty
  <2>7. Around(r, c, a) => Around(s, c, b) BY <1>2, <2>1, <2>2 DEF Around
  <2>8. /\ ~Before(r.end, c) /\ ~Before(a, r.start) /\ BeforeOrAt(s.start, s.end)
    BY <1>2, <2>3
  <2>9. \A x \in Spots : Before(x, a) => (Covers(s, x) <=> Covers(r, x))
    BY <1>2, <2>1, <2>4 DEF Covers
  <2>10. \A x \in Spots : BeforeOrAt(a, x) => (Covers(s, Shift(x, a, b)) <=> Covers(r, x))
    BY <1>2, <2>5 DEF Covers
  <2> QED BY <1>1, <2>6, <2>7, <2>8, <2>9, <2>10
<1>5. CASE ~BeforeOrAt(a, p) /\ ~Before(a, q)
  <2>1. g = p /\ h = q /\ Before(p, a) /\ BeforeOrAt(q, a)
    BY <1>2, <1>5, PushedParts
  <2>2. ~Before(a, p) /\ BeforeOrAt(p, q) BY <1>2, <2>1, OrderLaws
  <2>3. ASSUME NEW x \in Spots, BeforeOrAt(a, x), NEW y, y = Shift(x, a, b)
        PROVE  ~Before(x, q) /\ ~Before(y, h)
    <3>1. y \in Spots /\ BeforeOrAt(b, y) BY <2>3, ShiftOrder
    <3> QED BY <2>1, <2>3, <3>1, OrderLaws
  <2>4. Beside(r, c, a) => Beside(s, c, b) BY <1>2, <1>5, <2>1 DEF Beside
  <2>5. (Flat(r) => Flat(s)) /\ (isEmpty(r) => isEmpty(s))
    BY <1>2, <2>1 DEF Flat, isEmpty
  <2>6. ~Around(r, c, a) BY <1>2, <1>5 DEF Around
  <2>7. /\ Before(r.end, c) => Before(s.end, c)
        /\ ~Before(a, r.start) /\ BeforeOrAt(s.start, s.end)
    BY <1>2, <2>1, <2>2
  <2>8. \A x \in Spots : Before(x, a) => (Covers(s, x) <=> Covers(r, x))
    BY <1>2, <2>1 DEF Covers
  <2>9. \A x \in Spots : BeforeOrAt(a, x) => (Covers(s, Shift(x, a, b)) <=> Covers(r, x))
    BY <1>2, <2>3 DEF Covers
  <2> QED BY <1>1, <2>4, <2>5, <2>6, <2>7, <2>8, <2>9
<1> QED BY <1>3, <1>4, <1>5

\* Pushed ranges keep clear of each other.
LEMMA PushedBehind ==
    ASSUME NEW r \in Marks, NEW t \in Marks, BeforeOrAt(r.start, r.end), BeforeOrAt(t.start, t.end),
           NEW a \in Spots, NEW b \in Spots, BeforeOrAt(a, b), BeforeOrAt(r.end, t.start)
    PROVE  BeforeOrAt(Pushed(r, a, b).end, Pushed(t, a, b).start)
<1>1. PICK s, v : s = Pushed(r, a, b) /\ v = Pushed(t, a, b) OBVIOUS
<1>2. s \in Marks /\ v \in Marks BY <1>1, PushedParts
<1>3. PICK p \in Spots, q \in Spots, x \in Spots, h \in Spots, y \in Spots :
          p = r.start /\ q = r.end /\ x = t.start /\ h = s.end /\ y = v.start
  BY <1>2, MarkFacts
<1>4. CASE BeforeOrAt(a, x)
  <2>1. y = Shift(x, a, b) BY <1>1, <1>3, <1>4, PushedParts
  <2>2. BeforeOrAt(b, y) BY <1>4, <2>1, ShiftOrder
  <2>3. \/ BeforeOrAt(a, q) /\ h = Shift(q, a, b)
        \/ h = q /\ BeforeOrAt(q, a)
    BY <1>1, <1>3, PushedParts
  <2>4. CASE BeforeOrAt(a, q) /\ h = Shift(q, a, b)
    <3> BeforeOrAt(q, x)
      BY <1>3
    <3>1. BeforeOrAt(h, y) BY <1>4, <2>1, <2>4, ShiftOrder
    <3> QED BY <1>1, <1>3, <3>1
  <2>5. CASE h = q /\ BeforeOrAt(q, a)
    <3>1. BeforeOrAt(h, y) BY <2>2, <2>5, OrderLaws
    <3> QED BY <1>1, <1>3, <3>1
  <2> QED BY <2>3, <2>4, <2>5
<1>5. CASE ~BeforeOrAt(a, x)
  <2>1. y = x /\ Before(x, a) BY <1>1, <1>3, <1>5, PushedParts
  <2>2. BeforeOrAt(p, q) /\ BeforeOrAt(q, x) BY <1>3
  <2>3. ~BeforeOrAt(a, p) /\ ~Before(a, q) BY <2>1, <2>2, OrderLaws
  <2>4. h = q BY <1>1, <1>3, <2>3, PushedParts
  <2> QED BY <1>1, <1>3, <2>1, <2>2, <2>4
<1> QED BY <1>4, <1>5

\* Ranges that show no unit both still do not when they are pushed.
LEMMA PushedClear ==
    ASSUME NEW r \in Marks, NEW t \in Marks, BeforeOrAt(r.start, r.end), BeforeOrAt(t.start, t.end),
           NEW a \in Spots, NEW b \in Spots, BeforeOrAt(a, b), Clear(r, t)
    PROVE  Clear(Pushed(r, a, b), Pushed(t, a, b))
<1>1. BeforeOrAt(a, a) BY DEF BeforeOrAt
<1>2. (isEmpty(r) => isEmpty(Pushed(r, a, b))) /\ (isEmpty(t) => isEmpty(Pushed(t, a, b)))
  BY <1>1, PushedFacts
<1>3. BeforeOrAt(r.end, t.start) => BeforeOrAt(Pushed(r, a, b).end, Pushed(t, a, b).start)
  BY PushedBehind
<1>4. BeforeOrAt(t.end, r.start) => BeforeOrAt(Pushed(t, a, b).end, Pushed(r, a, b).start)
  BY PushedBehind
<1> QED BY <1>2, <1>3, <1>4 DEF Clear

\* Pushed ranges stay in the text.
LEMMA PushedWithin ==
    ASSUME NEW L, IsLines(L), NEW N, IsLines(N), NEW a, InLines(L, a), InLines(N, a),
           NEW b, InLines(N, b), Upto(L, N, a), Beyond(L, N, a, b),
           NEW r \in Marks, BeforeOrAt(r.start, r.end), Within(L, r)
    PROVE  Within(N, Pushed(r, a, b))
<1>1. PICK s : s = Pushed(r, a, b) OBVIOUS
<1>2. a \in Spots /\ b \in Spots /\ InLines(L, r.start) /\ InLines(L, r.end)
  BY InLinesSpot DEF Within
<1>3. \A x : InLines(L, x) /\ BeforeOrAt(a, x) => InLines(N, Shift(x, a, b))
  BY ShiftInLines
<1>4. \A x : InLines(L, x) /\ BeforeOrAt(x, a) => InLines(N, x) BY BeforeKept
<1>5. Before(a, r.end) => BeforeOrAt(a, r.end) BY DEF BeforeOrAt
<1>6. Before(r.start, a) => BeforeOrAt(r.start, a) BY DEF BeforeOrAt
<1>7. InLines(N, s.start) BY <1>1, <1>2, <1>3, <1>4, <1>6, PushedParts
<1>8. InLines(N, s.end) BY <1>1, <1>2, <1>3, <1>4, <1>5, PushedParts
<1> QED BY <1>1, <1>7, <1>8 DEF Within

\* All that was inserted is of one user.
Filled(L, c, a, u) ==
    \A x : IsUnit(L, x) /\ BeforeOrAt(c, x) /\ Before(x, a) => By(L, x) = u

\* Ranges that are in the text, in colours that are in use
Grounded(L, R, C) ==
    /\ IsLines(L) /\ R \in Seq(Marks) /\ Palette(C)
    /\ \A i \in 1 .. Len(R) :
           BeforeOrAt(R[i].start, R[i].end) /\ Within(L, R[i]) /\ Tied(C, R[i])

\* No other range touches what was inserted into this one.
Alone(R, i, c, a) ==
    \A j \in 1 .. Len(R) : j # i =>
        isEmpty(R[j]) \/ Before(R[j].end, c) \/ Before(a, R[j].start)

\* Every range is on one side of what was inserted, but for one it went into.
Parted(R, c, a) ==
    \A i \in 1 .. Len(R) : \/ Flat(R[i]) /\ Beside(R[i], c, a)
                           \/ Around(R[i], c, a) /\ Alone(R, i, c, a)

\* What the ranges are when a user has inserted what is between two cursors
Torn(L, R, C, c, a, u) ==
    /\ Grounded(L, R, C) /\ Apart(R) /\ Parted(R, c, a)
    /\ InLines(L, c) /\ InLines(L, a) /\ BeforeOrAt(c, a) /\ Filled(L, c, a, u)

\* The units before and behind are shown as they were.
Outside(L, R, C, c, a) ==
    \A x : IsUnit(L, x) /\ (Before(x, c) \/ BeforeOrAt(a, x)) => Right(L, R, C, x)

\* All ranges are pushed.
PushedAll(R, a, b) == [i \in DOMAIN R |-> Pushed(R[i], a, b)]

\* A sequence and its elements
LEMMA RangeTypes ==
    ASSUME NEW R \in Seq(Marks)
    PROVE  /\ Len(R) \in Nat /\ DOMAIN R = 1 .. Len(R)
           /\ \A i \in 1 .. Len(R) : R[i] \in Marks
  BY LenProperties, ElementOfSeq

\* The pushed ranges, one by one
LEMMA PushedAllFacts ==
    ASSUME NEW L, NEW R, NEW C, Grounded(L, R, C), NEW a \in Spots, NEW b \in Spots,
           NEW T, T = PushedAll(R, a, b)
    PROVE  /\ T \in Seq(Marks) /\ Len(T) = Len(R)
           /\ \A i \in 1 .. Len(R) : T[i] = Pushed(R[i], a, b)
<1>1. R \in Seq(Marks) /\ \A i \in 1 .. Len(R) : BeforeOrAt(R[i].start, R[i].end)
  BY DEF Grounded
<1>2. PICK n \in Nat : n = Len(R) /\ DOMAIN R = 1 .. n BY <1>1, RangeTypes
<1>3. \A i \in 1 .. n : R[i] \in Marks BY <1>1, <1>2, RangeTypes
<1>4. T = [i \in 1 .. n |-> Pushed(R[i], a, b)] BY <1>2 DEF PushedAll
<1>5. \A i \in 1 .. n : Pushed(R[i], a, b) \in Marks
  BY <1>1, <1>2, <1>3, PushedParts
<1>6. T \in [1 .. n -> Marks] BY <1>4, <1>5
<1>7. T \in Seq(Marks) /\ Len(T) = n BY <1>6, FunctionIsSequence
<1> QED BY <1>2, <1>4, <1>7

\* A unit is shown right where it is shown as before.
LEMMA RightKept ==
    ASSUME NEW L, NEW N, NEW R, NEW T, NEW C, NEW x, NEW y, By(N, y) = By(L, x),
           Len(T) = Len(R), \A i \in 1 .. Len(R) : T[i].color = R[i].color,
           \A i \in 1 .. Len(R) : Covers(T[i], y) <=> Covers(R[i], x),
           Right(L, R, C, x)
    PROVE  Right(N, T, C, y)
  BY DEF Right

\* The next character is inserted behind what was.
LEMMA TornOn ==
    ASSUME NEW L, NEW R, NEW C, NEW c, NEW a, NEW u, Torn(L, R, C, c, a, u),
           NEW N, IsLines(N), NEW b, InLines(N, a), InLines(N, b), BeforeOrAt(a, b),
           Upto(L, N, a), Beyond(L, N, a, b), Filled(N, a, b, u),
           NEW T, T = PushedAll(R, a, b)
    PROVE  /\ Torn(N, T, C, c, b, u)
           /\ Outside(L, R, C, c, a) => Outside(N, T, C, c, b)
<1>1. /\ Grounded(L, R, C) /\ Apart(R) /\ Parted(R, c, a)
      /\ InLines(L, c) /\ InLines(L, a) /\ BeforeOrAt(c, a) /\ Filled(L, c, a, u)
  BY DEF Torn
<1>2. /\ IsLines(L) /\ R \in Seq(Marks) /\ Palette(C)
      /\ \A i \in 1 .. Len(R) :
           BeforeOrAt(R[i].start, R[i].end) /\ Within(L, R[i]) /\ Tied(C, R[i])
  BY <1>1 DEF Grounded
<1>3. c \in Spots /\ a \in Spots /\ b \in Spots BY <1>1, InLinesSpot
<1>4. PICK n \in Nat : n = Len(R) /\ \A i \in 1 .. n : R[i] \in Marks
  BY <1>2, RangeTypes
<1>5. T \in Seq(Marks) /\ Len(T) = n /\ \A i \in 1 .. n : T[i] = Pushed(R[i], a, b)
  BY <1>1, <1>3, <1>4, PushedAllFacts
<1>6. BeforeOrAt(c, b) /\ InLines(N, c)
  <2>1. BeforeOrAt(c, b) BY <1>1, <1>3, OrderLaws
  <2>2. InLines(N, c) BY <1>1, <1>2, BeforeKept
  <2> QED BY <2>1, <2>2
<1>7. ASSUME NEW i \in 1 .. n
      PROVE  /\ T[i] \in Marks /\ T[i].name = R[i].name /\ T[i].color = R[i].color
             /\ BeforeOrAt(T[i].start, T[i].end)
             /\ Flat(R[i]) /\ Beside(R[i], c, a) => Flat(T[i]) /\ Beside(T[i], c, b)
             /\ Around(R[i], c, a) => Around(T[i], c, b)
             /\ isEmpty(R[i]) => isEmpty(T[i])
             /\ Before(R[i].end, c) => Before(T[i].end, c)
             /\ Before(a, R[i].start) => Before(b, T[i].start)
             /\ \A x \in Spots : Before(x, a) => (Covers(T[i], x) <=> Covers(R[i], x))
             /\ \A x \in Spots : BeforeOrAt(a, x) =>
                    (Covers(T[i], Shift(x, a, b)) <=> Covers(R[i], x))
  <2>1. PICK r, s : r \in Marks /\ r = R[i] /\ s = T[i] /\ s = Pushed(r, a, b)
    BY <1>4, <1>5
  <2>2. BeforeOrAt(r.start, r.end) BY <1>2, <1>4, <2>1
  <2> QED BY <1>1, <1>3, <2>1, <2>2, PushedFacts
<1>8. ASSUME NEW i \in 1 .. n PROVE Within(N, T[i]) /\ Tied(C, T[i])
  <2>1. PICK r, s : r \in Marks /\ r = R[i] /\ s = T[i] /\ s = Pushed(r, a, b)
    BY <1>4, <1>5
  <2>2. BeforeOrAt(r.start, r.end) /\ Within(L, r) /\ Tied(C, r) BY <1>2, <1>4, <2>1
  <2>3. Within(N, s) BY <1>1, <1>2, <2>1, <2>2, PushedWithin
  <2>4. Tied(C, s) BY <1>7, <2>1, <2>2 DEF Tied
  <2> QED BY <2>1, <2>3, <2>4
<1>9. Grounded(N, T, C) BY <1>2, <1>5, <1>7, <1>8 DEF Grounded
<1>10. Apart(T)
  <2>1. ASSUME NEW i \in 1 .. n, NEW j \in 1 .. n, i # j PROVE Clear(T[i], T[j])
    <3>1. PICK r \in Marks, s \in Marks : r = R[i] /\ s = R[j] BY <1>4
    <3>2. BeforeOrAt(r.start, r.end) /\ BeforeOrAt(s.start, s.end) /\ Clear(r, s)
      BY <1>1, <1>2, <1>4, <2>1, <3>1 DEF Apart
    <3>3. Clear(Pushed(r, a, b), Pushed(s, a, b)) BY <1>3, <3>2, PushedClear
    <3> QED BY <1>5, <3>1, <3>3
  <2> QED BY <1>5, <2>1 DEF Apart
<1>11. Parted(T, c, b)
  <2>1. ASSUME NEW i \in 1 .. n
        PROVE  \/ Flat(T[i]) /\ Beside(T[i], c, b)
               \/ Around(T[i], c, b) /\ Alone(T, i, c, b)
    <3>1. CASE Flat(R[i]) /\ Beside(R[i], c, a) BY <1>7, <3>1
    <3>2. CASE Around(R[i], c, a) /\ Alone(R, i, c, a)
      <4>1. Alone(T, i, c, b) BY <1>4, <1>5, <1>7, <3>2 DEF Alone
      <4> QED BY <1>7, <3>2, <4>1
    <3> QED BY <1>1, <1>4, <3>1, <3>2 DEF Parted
  <2> QED BY <1>5, <2>1 DEF Parted
<1>12. \A x : IsUnit(N, x) /\ Before(x, a) => IsUnit(L, x) /\ By(N, x) = By(L, x)
  BY <1>1, <1>2, BeforeKept
<1>13. \A x : IsUnit(N, x) => x \in Spots BY InLinesSpot DEF IsUnit
<1>14. Filled(N, c, b, u)
  <2>1. ASSUME NEW x, IsUnit(N, x), BeforeOrAt(c, x), Before(x, b) PROVE By(N, x) = u
    <3>1. CASE Before(x, a) BY <1>1, <1>12, <2>1, <3>1 DEF Filled
    <3>2. CASE BeforeOrAt(a, x) BY <2>1, <3>2 DEF Filled
    <3> QED BY <1>3, <1>13, <2>1, <3>1, <3>2, OrderLaws
  <2> QED BY <2>1 DEF Filled
<1>15. ASSUME Outside(L, R, C, c, a), NEW x, IsUnit(N, x), Before(x, c) \/ BeforeOrAt(b, x)
       PROVE  Right(N, T, C, x)
  <2>1. x \in Spots BY <1>13, <1>15
  <2>2. CASE Before(x, c)
    <3>1. Before(x, a) BY <1>1, <1>3, <2>1, <2>2, OrderLaws
    <3>2. IsUnit(L, x) /\ By(N, x) = By(L, x) BY <1>12, <1>15, <3>1
    <3>3. Right(L, R, C, x) BY <1>15, <2>2, <3>2 DEF Outside
    <3>4. \A i \in 1 .. Len(R) : (Covers(T[i], x) <=> Covers(R[i], x)) /\ T[i].color = R[i].color
      BY <1>4, <1>7, <2>1, <3>1
    <3> QED BY <1>4, <1>5, <3>2, <3>3, <3>4, RightKept
  <2>3. CASE BeforeOrAt(b, x)
    <3>1. PICK y : /\ IsUnit(L, y) /\ BeforeOrAt(a, y) /\ x = Shift(y, a, b)
                   /\ By(N, x) = By(L, y)
      BY <1>1, <1>2, <1>15, <2>3, ShiftBack
    <3>2. Right(L, R, C, y) BY <1>15, <3>1 DEF Outside
    <3>3. y \in Spots BY <3>1, InLinesSpot DEF IsUnit
    <3>4. \A i \in 1 .. Len(R) : (Covers(T[i], x) <=> Covers(R[i], y)) /\ T[i].color = R[i].color
      BY <1>4, <1>7, <3>1, <3>3
    <3> QED BY <1>4, <1>5, <3>1, <3>2, <3>4, RightKept
  <2> QED BY <1>15, <2>2, <2>3
<1>16. Outside(L, R, C, c, a) => Outside(N, T, C, c, b) BY <1>15 DEF Outside
<1>17. Torn(N, T, C, c, b, u) BY <1>6, <1>9, <1>10, <1>11, <1>14 DEF Torn
<1> QED BY <1>16, <1>17

\* Where the editor moves a cursor when units, or a newline, are inserted at a
PastUnits(x, a, n, moves) ==
    IF x.line = a.line /\ (x.column > a.column \/ (moves /\ x = a))
    THEN Cursor(x.line, x.column + n) ELSE x
PastNewline(x, a, moves) ==
    IF x.line > a.line THEN Cursor(x.line + 1, x.column)
    ELSE IF x.line = a.line /\ (x.column > a.column \/ (moves /\ x = a))
    THEN Cursor(x.line + 1, x.column - a.column) ELSE x

\* A range with other ends, a document with other parts
EndsSet(r, x, y)      == [r EXCEPT !.start = x, !.end = y]
TextSet(d, N, T)      == [d EXCEPT !.lines = N, !.ranges = T]
LineSet(d, k, new, T) == [d EXCEPT !.lines[k] = new, !.ranges = T]

\* The parts of a range set, and of a document
LEMMA MarkSet ==
    ASSUME NEW p, NEW q, NEW n, NEW col, NEW x, NEW y
    PROVE  EndsSet(Mark(p, q, n, col), x, y) = Mark(x, y, n, col)
<1>1. [Mark(p, q, n, col) EXCEPT !.start = x] = Mark(x, q, n, col) BY DEF Mark
<1>2. [Mark(x, q, n, col) EXCEPT !.end = y] = Mark(x, y, n, col) BY DEF Mark
<1>3. [Mark(p, q, n, col) EXCEPT !.start = x, !.end = y]
          = [[Mark(p, q, n, col) EXCEPT !.start = x] EXCEPT !.end = y] OBVIOUS
<1> QED BY <1>1, <1>2, <1>3 DEF EndsSet

\* A document with other lines and ranges
LEMMA DocSet ==
    ASSUME NEW L, NEW R, NEW C, NEW N, NEW T
    PROVE  TextSet(DocOf(L, R, C), N, T) = DocOf(N, T, C)
<1>1. [DocOf(L, R, C) EXCEPT !.lines = N] = DocOf(N, R, C) BY DEF DocOf
<1>2. [DocOf(N, R, C) EXCEPT !.ranges = T] = DocOf(N, T, C) BY DEF DocOf
<1>3. [DocOf(L, R, C) EXCEPT !.lines = N, !.ranges = T]
          = [[DocOf(L, R, C) EXCEPT !.lines = N] EXCEPT !.ranges = T] OBVIOUS
<1> QED BY <1>1, <1>2, <1>3 DEF TextSet

\* A document with another line and other ranges
LEMMA DocLineSet ==
    ASSUME NEW L, NEW R, NEW C, NEW k, NEW new, NEW T
    PROVE  LineSet(DocOf(L, R, C), k, new, T) = DocOf([L EXCEPT ![k] = new], T, C)
<1>1. [DocOf(L, R, C) EXCEPT !.lines[k] = new] = DocOf([L EXCEPT ![k] = new], R, C)
  BY DEF DocOf
<1>2. [DocOf([L EXCEPT ![k] = new], R, C) EXCEPT !.ranges = T] = DocOf([L EXCEPT ![k] = new], T, C)
  BY DEF DocOf
<1>3. [DocOf(L, R, C) EXCEPT !.lines[k] = new, !.ranges = T]
          = [[DocOf(L, R, C) EXCEPT !.lines[k] = new] EXCEPT !.ranges = T] OBVIOUS
<1> QED BY <1>1, <1>2, <1>3 DEF LineSet

\* A range whose ends the editor has moved is a pushed one.
LEMMA MovedIsPushed ==
    ASSUME NEW r \in Marks, BeforeOrAt(r.start, r.end),
           NEW a \in Spots, NEW b \in Spots, Before(a, b), NEW x, NEW y,
           BeforeOrAt(a, r.start) => x = Shift(r.start, a, b), ~BeforeOrAt(a, r.start) => x = r.start,
           Before(a, r.end) => y = Shift(r.end, a, b), ~Before(a, r.end) => y = r.end
    PROVE  Moved(EndsSet(r, x, y)) = Pushed(r, a, b)
<1> PICK p \in Spots, q \in Spots : p = r.start /\ q = r.end
  BY MarkFacts
<1> PICK n, col : r = Mark(p, q, n, col)
  BY MarkFacts
<1>1. /\ BeforeOrAt(a, p) => BeforeOrAt(a, q)
      /\ Before(a, q) => BeforeOrAt(a, q)
      /\ ~BeforeOrAt(a, p) => Before(p, a)
      /\ ~Before(a, q) => BeforeOrAt(q, a)
  BY OrderLaws
<1>2. Moved(EndsSet(r, x, y)) = IF Before(y, x) THEN Mark(x, x, n, col) ELSE Mark(x, y, n, col)
  <2>1. EndsSet(r, x, y) = Mark(x, y, n, col) BY MarkSet
  <2> QED BY <2>1 DEF Moved, Mark
<1>3. Pushed(r, a, b)
          = Mark(IF BeforeOrAt(a, p) THEN Shift(p, a, b) ELSE p,
                 IF Before(a, q) \/ BeforeOrAt(a, p) THEN Shift(q, a, b) ELSE q, n, col)
  BY DEF Pushed, Mark
<1>4. CASE BeforeOrAt(a, p) /\ ~Before(a, q)
  <2>1. p = a /\ q = a BY <1>1, <1>4, OrderLaws
  <2>2. BeforeOrAt(a, a) BY OrderLaws
  <2>3. Shift(a, a, b) = b BY <2>2, ShiftOrder
  <2>4. x = b /\ y = a /\ Shift(p, a, b) = b /\ Shift(q, a, b) = b
    BY <1>4, <2>1, <2>3
  <2> QED BY <1>2, <1>3, <1>4, <2>4
<1>5. CASE BeforeOrAt(a, p) /\ Before(a, q)
  <2>1. x = Shift(p, a, b) /\ y = Shift(q, a, b) /\ BeforeOrAt(a, q) BY <1>1, <1>5
  <2>2. BeforeOrAt(Shift(p, a, b), Shift(q, a, b)) BY <1>5, <2>1, ShiftOrder
  <2>3. Shift(p, a, b) \in Spots BY <1>5, ShiftOrder
  <2>4. Shift(q, a, b) \in Spots BY <2>1, ShiftOrder
  <2>5. ~Before(y, x) BY <2>1, <2>2, <2>3, <2>4, OrderLaws
  <2> QED BY <1>2, <1>3, <1>5, <2>1, <2>5
<1>6. CASE ~BeforeOrAt(a, p) /\ Before(a, q)
  <2>1. x = p /\ y = Shift(q, a, b) /\ BeforeOrAt(a, q) /\ Before(p, a)
    BY <1>1, <1>6
  <2>2. Shift(q, a, b) \in Spots BY <2>1, ShiftOrder
  <2>3. BeforeOrAt(b, Shift(q, a, b)) BY <2>1, ShiftOrder
  <2>4. ~Before(y, x) BY <2>1, <2>2, <2>3, OrderLaws
  <2> QED BY <1>2, <1>3, <1>6, <2>1, <2>4
<1>7. CASE ~BeforeOrAt(a, p) /\ ~Before(a, q)
  <2>1. x = p /\ y = q BY <1>7
  <2>2. ~Before(y, x) BY <2>1, OrderLaws
  <2> QED BY <1>2, <1>3, <1>7, <2>1, <2>2
<1> QED BY <1>4, <1>5, <1>6, <1>7

\* The editor moves a cursor as what is behind a is moved.
LEMMA PastUnitsShifts ==
    ASSUME NEW a \in Spots, NEW n \in Nat, NEW b, b = Cursor(a.line, a.column + n), NEW x \in Spots
    PROVE  /\ BeforeOrAt(a, x) => PastUnits(x, a, n, TRUE) = Shift(x, a, b)
           /\ ~BeforeOrAt(a, x) => PastUnits(x, a, n, TRUE) = x
           /\ Before(a, x) => PastUnits(x, a, n, FALSE) = Shift(x, a, b)
           /\ ~Before(a, x) => PastUnits(x, a, n, FALSE) = x
<1>1. PICK al, ac, xl, xc \in Nat :
          al = a.line /\ ac = a.column /\ xl = x.line /\ xc = x.column
  BY Orders
<1>2. b.line = al /\ b.column = ac + n BY <1>1 DEF Cursor
<1>3. x = Cursor(xl, xc) BY <1>1 DEF Spots, Cursor
<1>4. Shift(x, a, b) = IF xl = al THEN Cursor(al, (ac + n) + (xc - ac)) ELSE Cursor(xl - al + al, xc)
  BY <1>1, <1>2 DEF Shift
<1>5. (ac + n) + (xc - ac) = xc + n /\ xl - al + al = xl OBVIOUS
<1>6. Shift(x, a, b) = IF xl = al THEN Cursor(xl, xc + n) ELSE x BY <1>3, <1>4, <1>5
<1>7. BeforeOrAt(a, x) <=> al < xl \/ (al = xl /\ ac <= xc) BY <1>1, Orders
<1>8. Before(a, x) <=> al < xl \/ (al = xl /\ ac < xc) BY <1>1 DEF Before
<1>9. x = a <=> xl = al /\ xc = ac BY <1>1, Orders
<1>10. PastUnits(x, a, n, TRUE) = IF xl = al /\ xc >= ac THEN Cursor(xl, xc + n) ELSE x
  BY <1>1, <1>9 DEF PastUnits
<1>11. PastUnits(x, a, n, FALSE) = IF xl = al /\ xc > ac THEN Cursor(xl, xc + n) ELSE x
  BY <1>1, <1>9 DEF PastUnits
<1>12. (BeforeOrAt(a, x) => PastUnits(x, a, n, TRUE) = Shift(x, a, b)) /\ (~BeforeOrAt(a, x) => PastUnits(x, a, n, TRUE) = x)
  <2>1. PICK v, w : v = Shift(x, a, b) /\ w = PastUnits(x, a, n, TRUE) OBVIOUS
  <2>2. v = IF xl = al THEN Cursor(xl, xc + n) ELSE x BY <1>6, <2>1
  <2>3. w = IF xl = al /\ xc >= ac THEN Cursor(xl, xc + n) ELSE x BY <1>10, <2>1
  <2>4. (BeforeOrAt(a, x) => w = v) /\ (~BeforeOrAt(a, x) => w = x)
    BY <1>7, <2>2, <2>3
  <2> QED BY <2>1, <2>4
<1>13. (Before(a, x) => PastUnits(x, a, n, FALSE) = Shift(x, a, b)) /\ (~Before(a, x) => PastUnits(x, a, n, FALSE) = x)
  <2>1. PICK v, w : v = Shift(x, a, b) /\ w = PastUnits(x, a, n, FALSE) OBVIOUS
  <2>2. v = IF xl = al THEN Cursor(xl, xc + n) ELSE x BY <1>6, <2>1
  <2>3. w = IF xl = al /\ xc > ac THEN Cursor(xl, xc + n) ELSE x BY <1>11, <2>1
  <2>4. (Before(a, x) => w = v) /\ (~Before(a, x) => w = x) BY <1>8, <2>2, <2>3
  <2> QED BY <2>1, <2>4
<1> QED BY <1>12, <1>13

\* A cursor behind a new newline has moved with the text.
LEMMA PastNewlineShifts ==
    ASSUME NEW a \in Spots, NEW b, b = Cursor(a.line + 1, 0), NEW x \in Spots
    PROVE  /\ BeforeOrAt(a, x) => PastNewline(x, a, TRUE) = Shift(x, a, b)
           /\ ~BeforeOrAt(a, x) => PastNewline(x, a, TRUE) = x
           /\ Before(a, x) => PastNewline(x, a, FALSE) = Shift(x, a, b)
           /\ ~Before(a, x) => PastNewline(x, a, FALSE) = x
<1>1. PICK al, ac, xl, xc \in Nat :
          al = a.line /\ ac = a.column /\ xl = x.line /\ xc = x.column
  BY Orders
<1>2. b.line = al + 1 /\ b.column = 0 BY <1>1 DEF Cursor
<1>3. Shift(x, a, b) = IF xl = al THEN Cursor(al + 1, 0 + (xc - ac)) ELSE Cursor(xl - al + (al + 1), xc)
  BY <1>1, <1>2 DEF Shift
<1>4. 0 + (xc - ac) = xc - ac /\ xl - al + (al + 1) = xl + 1 OBVIOUS
<1>5. Shift(x, a, b) = IF xl = al THEN Cursor(xl + 1, xc - ac) ELSE Cursor(xl + 1, xc)
  BY <1>3, <1>4
<1>6. BeforeOrAt(a, x) <=> al < xl \/ (al = xl /\ ac <= xc) BY <1>1, Orders
<1>7. Before(a, x) <=> al < xl \/ (al = xl /\ ac < xc) BY <1>1 DEF Before
<1>8. x = a <=> xl = al /\ xc = ac BY <1>1, Orders
<1>9. PastNewline(x, a, TRUE) = IF xl > al THEN Cursor(xl + 1, xc)
                                ELSE IF xl = al /\ xc >= ac THEN Cursor(xl + 1, xc - ac) ELSE x
  BY <1>1, <1>8 DEF PastNewline
<1>10. PastNewline(x, a, FALSE) = IF xl > al THEN Cursor(xl + 1, xc)
                                  ELSE IF xl = al /\ xc > ac THEN Cursor(xl + 1, xc - ac) ELSE x
  BY <1>1, <1>8 DEF PastNewline
<1>11. (BeforeOrAt(a, x) => PastNewline(x, a, TRUE) = Shift(x, a, b)) /\ (~BeforeOrAt(a, x) => PastNewline(x, a, TRUE) = x)
  <2>1. PICK v, w : v = Shift(x, a, b) /\ w = PastNewline(x, a, TRUE) OBVIOUS
  <2>2. v = IF xl = al THEN Cursor(xl + 1, xc - ac) ELSE Cursor(xl + 1, xc)
    BY <1>5, <2>1
  <2>3. w = IF xl > al THEN Cursor(xl + 1, xc)
             ELSE IF xl = al /\ xc >= ac THEN Cursor(xl + 1, xc - ac) ELSE x
    BY <1>9, <2>1
  <2>4. (BeforeOrAt(a, x) => w = v) /\ (~BeforeOrAt(a, x) => w = x)
    BY <1>6, <2>2, <2>3
  <2> QED BY <2>1, <2>4
<1>12. (Before(a, x) => PastNewline(x, a, FALSE) = Shift(x, a, b)) /\ (~Before(a, x) => PastNewline(x, a, FALSE) = x)
  <2>1. PICK v, w : v = Shift(x, a, b) /\ w = PastNewline(x, a, FALSE) OBVIOUS
  <2>2. v = IF xl = al THEN Cursor(xl + 1, xc - ac) ELSE Cursor(xl + 1, xc)
    BY <1>5, <2>1
  <2>3. w = IF xl > al THEN Cursor(xl + 1, xc)
             ELSE IF xl = al /\ xc > ac THEN Cursor(xl + 1, xc - ac) ELSE x
    BY <1>10, <2>1
  <2>4. (Before(a, x) => w = v) /\ (~Before(a, x) => w = x) BY <1>7, <2>2, <2>3
  <2> QED BY <2>1, <2>4
<1> QED BY <1>11, <1>12

\* The parts of a document put together
LEMMA DocFacts ==
    \A L, R, C : /\ DocOf(L, R, C).lines = L /\ DocOf(L, R, C).ranges = R
                 /\ DocOf(L, R, C).colors = C /\ "lines" \in DOMAIN DocOf(L, R, C)
  BY DEF DocOf

\* What an insertion does to the ranges
LEMMA UnitsPush ==
    ASSUME NEW L, NEW R, NEW C, Grounded(L, R, C), NEW a \in Spots,
           NEW units, Len(units) \in Nat, Len(units) > 0,
           NEW b, b = Cursor(a.line, a.column + Len(units))
    PROVE  InsertUnits(DocOf(L, R, C), a, units)
               = DocOf(WithUnits(L, a, units), PushedAll(R, a, b), C)
<1>1. /\ \A i \in DOMAIN R : R[i] \in Marks /\ BeforeOrAt(R[i].start, R[i].end)
  BY RangeTypes DEF Grounded
<1>2. PICK n \in Nat : n = Len(units) /\ n > 0 OBVIOUS
<1>3. b \in Spots /\ Before(a, b)
  <2>1. PICK k \in Nat : k = a.column + n /\ k > a.column BY <1>2, Orders
  <2> QED BY <1>2, <2>1, Orders DEF Before
<1>4. PICK F : F = [i \in DOMAIN R |->
                       Moved([R[i] EXCEPT !.start = PastUnits(@, a, n, TRUE),
                                          !.end = PastUnits(@, a, n, FALSE)])] OBVIOUS
<1>5. InsertUnits(DocOf(L, R, C), a, units) = DocOf(WithUnits(L, a, units), F, C)
  <2>1. PICK d : d = DocOf(L, R, C) /\ d.lines = L /\ d.ranges = R BY DocFacts
  <2>2. F = [i \in DOMAIN d.ranges |->
                 Moved([d.ranges[i] EXCEPT !.start = PastUnits(@, a, Len(units), TRUE),
                                           !.end = PastUnits(@, a, Len(units), FALSE)])]
    BY <1>2, <1>4, <2>1
  <2>3. InsertUnits(d, a, units) = [d EXCEPT !.lines[a.line + 1] =
            SubSeq(d.lines[a.line + 1], 1, a.column) \o units
                \o SubSeq(d.lines[a.line + 1], a.column + 1, Len(d.lines[a.line + 1])),
            !.ranges = F]
    BY <2>2 DEF InsertUnits, PastUnits
  <2>4. PICK new : new = SubSeq(L[a.line + 1], 1, a.column) \o units
                             \o SubSeq(L[a.line + 1], a.column + 1, Len(L[a.line + 1]))
    OBVIOUS
  <2>5. InsertUnits(d, a, units) = LineSet(d, a.line + 1, new, F)
    BY <2>1, <2>3, <2>4 DEF LineSet
  <2>6. WithUnits(L, a, units) = [L EXCEPT ![a.line + 1] = new]
    BY <2>4 DEF WithUnits
  <2> QED
    <3>1. PICK k : k = a.line + 1 OBVIOUS
    <3>2. LineSet(d, k, new, F) = DocOf([L EXCEPT ![k] = new], F, C)
      BY <2>1, DocLineSet
    <3> QED BY <2>1, <2>5, <2>6, <3>1, <3>2
<1>6. ASSUME NEW i \in DOMAIN R PROVE F[i] = Pushed(R[i], a, b)
  <2>1. PICK r \in Marks : r = R[i] /\ BeforeOrAt(r.start, r.end) BY <1>1
  <2>2. PICK x, y : x = PastUnits(r.start, a, n, TRUE) /\ y = PastUnits(r.end, a, n, FALSE)
    OBVIOUS
  <2>3. F[i] = Moved(EndsSet(r, x, y)) BY <1>4, <2>1, <2>2 DEF EndsSet
  <2>4. PICK c \in Spots, d \in Spots : c = r.start /\ d = r.end BY MarkFacts
  <2>5. /\ BeforeOrAt(a, r.start) => x = Shift(r.start, a, b)
        /\ ~BeforeOrAt(a, r.start) => x = r.start
    <3>1. /\ BeforeOrAt(a, c) => PastUnits(c, a, n, TRUE) = Shift(c, a, b)
          /\ ~BeforeOrAt(a, c) => PastUnits(c, a, n, TRUE) = c
      BY <1>2, PastUnitsShifts, ZenonT(30)
    <3> QED BY <2>2, <2>4, <3>1
  <2>6. (Before(a, r.end) => y = Shift(r.end, a, b)) /\ (~Before(a, r.end) => y = r.end)
    <3>1. /\ Before(a, d) => PastUnits(d, a, n, FALSE) = Shift(d, a, b)
          /\ ~Before(a, d) => PastUnits(d, a, n, FALSE) = d
      BY <1>2, PastUnitsShifts, ZenonT(30)
    <3> QED BY <2>2, <2>4, <3>1
  <2> QED BY <1>3, <2>1, <2>3, <2>5, <2>6, MovedIsPushed
<1>7. F = PushedAll(R, a, b) BY <1>4, <1>6 DEF PushedAll
<1> QED BY <1>5, <1>7

\* A newline wraps the line and pushes the ranges behind it.
LEMMA NewlinePushes ==
    ASSUME NEW L, NEW R, NEW C, Grounded(L, R, C), NEW a \in Spots,
           NEW b, b = Cursor(a.line + 1, 0)
    PROVE  WrapLine(DocOf(L, R, C), a) = DocOf(Wrapped(L, a), PushedAll(R, a, b), C)
<1>1. /\ \A i \in DOMAIN R : R[i] \in Marks /\ BeforeOrAt(R[i].start, R[i].end)
  BY RangeTypes DEF Grounded
<1>2. b \in Spots /\ Before(a, b)
  <2>1. PICK k \in Nat : k = a.line + 1 /\ k > a.line BY Orders
  <2> QED BY <2>1, Orders DEF Before
<1>3. PICK F : F = [i \in DOMAIN R |->
                       Moved([R[i] EXCEPT !.start = PastNewline(@, a, TRUE),
                                          !.end = PastNewline(@, a, FALSE)])] OBVIOUS
<1>4. WrapLine(DocOf(L, R, C), a) = DocOf(Wrapped(L, a), F, C)
  <2>1. PICK d : d = DocOf(L, R, C) /\ d.lines = L /\ d.ranges = R BY DocFacts
  <2>2. F = [i \in DOMAIN d.ranges |->
                 Moved([d.ranges[i] EXCEPT !.start = PastNewline(@, a, TRUE),
                                           !.end = PastNewline(@, a, FALSE)])]
    BY <1>3, <2>1
  <2>3. WrapLine(d, a) = TextSet(d, Wrapped(d.lines, a), F)
    BY <2>2 DEF WrapLine, PastNewline, Wrapped, TextSet
  <2> QED BY <2>1, <2>3, DocSet
<1>5. ASSUME NEW i \in DOMAIN R PROVE F[i] = Pushed(R[i], a, b)
  <2>1. PICK r \in Marks : r = R[i] /\ BeforeOrAt(r.start, r.end) BY <1>1
  <2>2. PICK x, y : x = PastNewline(r.start, a, TRUE) /\ y = PastNewline(r.end, a, FALSE)
    OBVIOUS
  <2>3. F[i] = Moved(EndsSet(r, x, y)) BY <1>3, <2>1, <2>2 DEF EndsSet
  <2>4. r.start \in Spots /\ r.end \in Spots BY MarkFacts
  <2>5. /\ BeforeOrAt(a, r.start) => x = Shift(r.start, a, b)
        /\ ~BeforeOrAt(a, r.start) => x = r.start
    BY <2>2, <2>4, PastNewlineShifts
  <2>6. (Before(a, r.end) => y = Shift(r.end, a, b)) /\ (~Before(a, r.end) => y = r.end)
    BY <2>2, <2>4, PastNewlineShifts
  <2> QED BY <1>2, <2>1, <2>3, <2>5, <2>6, MovedIsPushed
<1>6. F = PushedAll(R, a, b) BY <1>3, <1>5 DEF PushedAll
<1> QED BY <1>4, <1>6

\* There are few users, so that there is always a hue for the next one.
FewUsers == \E u, v, w : Users \subseteq {u, v, w}

\* What a user has inserted from a cursor on has moved the ranges behind it.
Put(s, C, c, u) ==
    \E N, T : /\ s.doc = DocOf(N, T, C) /\ Torn(N, T, C, c, s.at, u)
              /\ FewUsers => Outside(N, T, C, c, s.at)

\* The units of a character are of its user.
LEMMA UnitsOfUser ==
    ASSUME NEW kind \in Kinds, kind # "newline", NEW user \in Users \cup {Nobody}
    PROVE  /\ UnitsOf(kind, user) \in Seq(Units)
           /\ Len(UnitsOf(kind, user)) \in Nat /\ Len(UnitsOf(kind, user)) > 0
           /\ \A i \in 1 .. Len(UnitsOf(kind, user)) : UnitsOf(kind, user)[i].by = user
<1>1. /\ UnitsOf(kind, user) \in Seq(Units)
      /\ Len(UnitsOf(kind, user)) = Len(UnitKindsOf(kind))
      /\ DOMAIN UnitKindsOf(kind) = 1 .. Len(UnitKindsOf(kind))
  BY UnitsOfFacts
<1>2. Len(UnitKindsOf(kind)) = 1 \/ Len(UnitKindsOf(kind)) = 2 BY KindFacts
<1>3. \A i \in DOMAIN UnitKindsOf(kind) : UnitsOf(kind, user)[i].by = user
  BY DEF UnitsOf
<1> QED BY <1>1, <1>2, <1>3

\* The lines with a character put in at a cursor
LEMMA UnitsFill ==
    ASSUME NEW L, IsLines(L), NEW a, InLines(L, a), NEW units \in Seq(Units), Len(units) > 0,
           NEW u, \A i \in 1 .. Len(units) : units[i].by = u,
           NEW N, N = WithUnits(L, a, units),
           NEW b, b = Cursor(a.line, a.column + Len(units))
    PROVE  /\ IsLines(N) /\ InLines(N, a) /\ InLines(N, b) /\ BeforeOrAt(a, b)
           /\ Upto(L, N, a) /\ Beyond(L, N, a, b) /\ Filled(N, a, b, u)
<1>1. /\ IsLines(N) /\ InLines(N, a) /\ InLines(N, b)
      /\ Upto(L, N, a) /\ Beyond(L, N, a, b)
      /\ \A i \in 1 .. Len(units) : N[a.line + 1][a.column + i] = units[i]
  BY UnitsInserted
<1>2. PICK n \in Nat : n = Len(units) /\ n > 0 BY LenProperties
<1>3. a \in Spots /\ b \in Spots BY <1>1, InLinesSpot
<1>4. PICK l, k \in Nat : l = a.line /\ k = a.column BY <1>3, Orders
<1>5. b.line = l /\ b.column = k + n BY <1>2, <1>4 DEF Cursor
<1>6. BeforeOrAt(a, b)
  <2>1. k <= k + n BY <1>2
  <2> QED BY <1>3, <1>4, <1>5, <2>1, Orders
<1>7. ASSUME NEW x, IsUnit(N, x), BeforeOrAt(a, x), Before(x, b) PROVE By(N, x) = u
  <2>1. x \in Spots BY <1>7, InLinesSpot DEF IsUnit
  <2>2. PICK xl, xc \in Nat : xl = x.line /\ xc = x.column BY <2>1, Orders
  <2>3. l < xl \/ (l = xl /\ k <= xc) BY <1>3, <1>4, <1>7, <2>1, <2>2, Orders
  <2>4. xl < l \/ (xl = l /\ xc < k + n) BY <1>5, <1>7, <2>2 DEF Before
  <2>5. xl = l /\ xc - k + 1 \in 1 .. n /\ k + (xc - k + 1) = xc + 1 BY <2>3, <2>4
  <2>6. N[l + 1][k + (xc - k + 1)] = units[xc - k + 1] BY <1>1, <1>2, <1>4, <2>5
  <2>7. N[xl + 1][xc + 1] = units[xc - k + 1] BY <2>5, <2>6
  <2>8. units[xc - k + 1].by = u BY <1>2, <2>5
  <2> QED BY <2>2, <2>7, <2>8 DEF By
<1>8. Filled(N, a, b, u) BY <1>7 DEF Filled
<1> QED BY <1>1, <1>6, <1>8

\* It leaves the text before it and the text behind it as they were.
LEMMA NewlineFills ==
    ASSUME NEW L, IsLines(L), NEW a, InLines(L, a), NEW u,
           NEW N, N = Wrapped(L, a), NEW b, b = Cursor(a.line + 1, 0)
    PROVE  /\ IsLines(N) /\ InLines(N, a) /\ InLines(N, b) /\ BeforeOrAt(a, b)
           /\ Upto(L, N, a) /\ Beyond(L, N, a, b) /\ Filled(N, a, b, u)
<1>1. /\ IsLines(N) /\ InLines(N, a) /\ InLines(N, b)
      /\ Upto(L, N, a) /\ Beyond(L, N, a, b) /\ Len(N[a.line + 1]) = a.column
  BY LineWrapped
<1>2. a \in Spots /\ b \in Spots BY <1>1, InLinesSpot
<1>3. PICK l, k \in Nat : l = a.line /\ k = a.column BY <1>2, Orders
<1>4. b.line = l + 1 /\ b.column = 0 BY <1>3 DEF Cursor
<1>5. BeforeOrAt(a, b) BY <1>2, <1>3, <1>4, Orders
<1>6. ASSUME NEW x, IsUnit(N, x), BeforeOrAt(a, x), Before(x, b) PROVE FALSE
  <2>1. x \in Spots /\ x.column < Len(N[x.line + 1]) BY <1>6, InLinesSpot DEF IsUnit
  <2>2. PICK xl, xc \in Nat : xl = x.line /\ xc = x.column BY <2>1, Orders
  <2>3. l < xl \/ (l = xl /\ k <= xc) BY <1>2, <1>3, <1>6, <2>1, <2>2, Orders
  <2>4. xl < l + 1 BY <1>4, <1>6, <2>2 DEF Before
  <2>5. xl = l /\ k <= xc BY <2>3, <2>4
  <2>6. Len(N[xl + 1]) = k BY <1>1, <1>3, <2>5
  <2> QED BY <2>1, <2>2, <2>5, <2>6
<1>7. Filled(N, a, b, u) BY <1>6 DEF Filled
<1> QED BY <1>1, <1>5, <1>7

\* One more character is inserted.
LEMMA CharacterPut ==
    ASSUME NEW s, NEW C, NEW c, NEW user \in Users \cup {Nobody}, Put(s, C, c, user),
           NEW kind \in Kinds
    PROVE  Put(InsertCharacter(s, kind, user), C, c, user)
<1>1. PICK L, R, a : /\ a = s.at /\ s.doc = DocOf(L, R, C) /\ Torn(L, R, C, c, a, user)
                     /\ FewUsers => Outside(L, R, C, c, a)
  BY DEF Put
<1>2. Grounded(L, R, C) /\ IsLines(L) /\ InLines(L, a) /\ a \in Spots
  BY <1>1, InLinesSpot DEF Torn, Grounded
<1>3. PICK N, b : /\ InsertCharacter(s, kind, user) = [doc |-> DocOf(N, PushedAll(R, a, b), C), at |-> b]
                  /\ IsLines(N) /\ InLines(N, a) /\ InLines(N, b) /\ BeforeOrAt(a, b)
                  /\ Upto(L, N, a) /\ Beyond(L, N, a, b) /\ Filled(N, a, b, user)
  <2>1. CASE kind = "newline"
    <3>1. PICK N, b : N = Wrapped(L, a) /\ b = Cursor(a.line + 1, 0) OBVIOUS
    <3>2. WrapLine(s.doc, a) = DocOf(N, PushedAll(R, a, b), C)
      BY <1>1, <1>2, <3>1, NewlinePushes
    <3>3. InsertCharacter(s, kind, user) = [doc |-> DocOf(N, PushedAll(R, a, b), C), at |-> b]
      BY <1>1, <2>1, <3>1, <3>2 DEF InsertCharacter
    <3>4. /\ IsLines(N) /\ InLines(N, a) /\ InLines(N, b) /\ BeforeOrAt(a, b)
          /\ Upto(L, N, a) /\ Beyond(L, N, a, b) /\ Filled(N, a, b, user)
      BY <1>2, <3>1, NewlineFills
    <3> QED BY <3>3, <3>4
  <2>2. CASE kind # "newline"
    <3>1. PICK units : units = UnitsOf(kind, user) OBVIOUS
    <3>2. /\ units \in Seq(Units) /\ Len(units) \in Nat /\ Len(units) > 0
          /\ \A i \in 1 .. Len(units) : units[i].by = user
      BY <2>2, <3>1, UnitsOfUser
    <3>3. PICK N, b : N = WithUnits(L, a, units) /\ b = Cursor(a.line, a.column + Len(units))
      OBVIOUS
    <3>4. InsertUnits(s.doc, a, units) = DocOf(N, PushedAll(R, a, b), C)
      BY <1>1, <1>2, <3>2, <3>3, UnitsPush
    <3>5. InsertCharacter(s, kind, user) = [doc |-> DocOf(N, PushedAll(R, a, b), C), at |-> b]
      BY <1>1, <2>2, <3>1, <3>3, <3>4 DEF InsertCharacter
    <3>6. /\ IsLines(N) /\ InLines(N, a) /\ InLines(N, b) /\ BeforeOrAt(a, b)
          /\ Upto(L, N, a) /\ Beyond(L, N, a, b) /\ Filled(N, a, b, user)
      BY <1>2, <3>2, <3>3, UnitsFill
    <3> QED BY <3>5, <3>6
  <2> QED BY <2>1, <2>2
<1>4. PICK T : T = PushedAll(R, a, b) OBVIOUS
<1>5. /\ Torn(N, T, C, c, b, user)
      /\ Outside(L, R, C, c, a) => Outside(N, T, C, c, b)
  BY <1>1, <1>3, <1>4, TornOn
<1>6. PICK r : r = InsertCharacter(s, kind, user) /\ r.doc = DocOf(N, T, C) /\ r.at = b
  BY <1>3, <1>4
<1>7. Put(r, C, c, user) BY <1>1, <1>5, <1>6 DEF Put
<1> QED BY <1>6, <1>7

\* A text is inserted.
LEMMA TextPut ==
    ASSUME NEW d, NEW C, NEW c, NEW user \in Users \cup {Nobody},
           NEW s, s = [doc |-> d, at |-> c], Put(s, C, c, user), NEW ins \in Seq(Kinds)
    PROVE  Put(insertText(d, c, ins, user), C, c, user)
<1>1. PICK n \in Nat : n = Len(ins) BY LenProperties
<1>2. PICK f : /\ InsertsAre(f, d, c, ins, user, n)
               /\ insertText(d, c, ins, user) = f[n]
  BY <1>1, InsertsFacts
<1> DEFINE S == {i \in 0 .. n : Put(f[i], C, c, user)}
<1>3. 0 \in S
  <2>1. f[0] = s BY <1>2 DEF InsertsAre
  <2> QED BY <2>1
<1>4. ASSUME NEW i \in 0 .. n - 1, i \in S PROVE i + 1 \in S
  <2>1. i + 1 \in 0 .. n /\ i + 1 # 0 /\ (i + 1) - 1 = i /\ i + 1 \in 1 .. Len(ins)
    BY <1>1
  <2>2. f[i + 1] = InsertCharacter(f[i], ins[i + 1], user)
    BY <1>2, <2>1 DEF InsertsAre
  <2>3. ins[i + 1] \in Kinds BY <2>1, ElementOfSeq
  <2>4. PICK x, kind : x = f[i] /\ kind = ins[i + 1] OBVIOUS
  <2>5. Put(x, C, c, user) /\ kind \in Kinds BY <1>4, <2>3, <2>4
  <2>6. Put(InsertCharacter(x, kind, user), C, c, user) BY <2>5, CharacterPut
  <2> QED BY <2>1, <2>2, <2>4, <2>6
<1>5. \A i \in 0 .. n : i \in S
  <2> HIDE DEF S
  <2> QED BY <1>3, <1>4, UpTo
<1>6. n \in 0 .. n OBVIOUS
<1>7. Put(f[n], C, c, user) BY <1>5, <1>6
<1> HIDE DEF S
<1> QED BY <1>2, <1>7

\* The ranges of a text that is not being changed
Sound(L, R, C) == Grounded(L, R, C) /\ Apart(R) /\ \A i \in 1 .. Len(R) : Flat(R[i])
Whole(L, R, C) == \A x : IsUnit(L, x) => Right(L, R, C, x)

\* At each cursor they are beside it, but for one that the cursor is in.
LEMMA SoundIsTorn ==
    ASSUME NEW L, NEW R, NEW C, Sound(L, R, C), NEW c, InLines(L, c), NEW u
    PROVE  /\ Torn(L, R, C, c, c, u)
           /\ Whole(L, R, C) => Outside(L, R, C, c, c)
<1>1. /\ Grounded(L, R, C) /\ Apart(R) /\ R \in Seq(Marks)
      /\ \A i \in 1 .. Len(R) : Flat(R[i]) /\ BeforeOrAt(R[i].start, R[i].end)
  BY DEF Sound, Grounded
<1>2. c \in Spots BY InLinesSpot
<1>3. BeforeOrAt(c, c) BY <1>2, OrderLaws
<1>4. PICK n \in Nat : n = Len(R) /\ \A i \in 1 .. n : R[i] \in Marks
  BY <1>1, RangeTypes
<1>5. ASSUME NEW i \in 1 .. n
      PROVE  \/ Flat(R[i]) /\ Beside(R[i], c, c)
             \/ Around(R[i], c, c) /\ Alone(R, i, c, c)
  <2>1. PICK p \in Spots, q \in Spots : p = R[i].start /\ q = R[i].end
    BY <1>4, MarkFacts
  <2>2. CASE BeforeOrAt(q, c) \/ BeforeOrAt(c, p)
    BY <1>1, <1>4, <2>1, <2>2 DEF Beside
  <2>3. CASE Before(c, q) /\ Before(p, c)
    <3>1. p.line = q.line BY <1>1, <1>4, <2>1 DEF Flat
    <3>2. p.line = c.line /\ q.line = c.line BY <1>2, <2>3, <3>1, Orders DEF Before
    <3>3. Around(R[i], c, c) BY <2>1, <2>3, <3>2 DEF Around
    <3>4. ASSUME NEW j \in 1 .. n, j # i
          PROVE  isEmpty(R[j]) \/ Before(R[j].end, c) \/ Before(c, R[j].start)
      <4>1. PICK g \in Spots, h \in Spots : g = R[j].start /\ h = R[j].end
        BY <1>4, MarkFacts
      <4>2. Clear(R[i], R[j]) BY <1>1, <1>4, <3>4 DEF Apart
      <4>3. p # q BY <1>2, <2>3, OrderLaws
      <4>4. isEmpty(R[j]) \/ BeforeOrAt(q, g) \/ BeforeOrAt(h, p)
        BY <2>1, <4>1, <4>2, <4>3 DEF Clear, isEmpty
      <4>5. BeforeOrAt(q, g) => Before(c, g) BY <1>2, <2>3, OrderLaws
      <4>6. BeforeOrAt(h, p) => Before(h, c) BY <1>2, <2>3, OrderLaws
      <4> QED BY <4>1, <4>4, <4>5, <4>6
    <3>5. Alone(R, i, c, c) BY <1>4, <3>4 DEF Alone
    <3> QED BY <3>3, <3>5
  <2> QED BY <1>2, <2>1, <2>2, <2>3, OrderLaws
<1>6. Parted(R, c, c) BY <1>4, <1>5 DEF Parted
<1>7. Filled(L, c, c, u)
  <2>1. ASSUME NEW x, IsUnit(L, x), BeforeOrAt(c, x), Before(x, c) PROVE FALSE
    <3>1. x \in Spots BY <2>1, InLinesSpot DEF IsUnit
    <3> QED BY <1>2, <2>1, <3>1, OrderLaws
  <2> QED BY <2>1 DEF Filled
<1>8. Whole(L, R, C) => Outside(L, R, C, c, c) BY DEF Whole, Outside
<1> QED BY <1>1, <1>3, <1>6, <1>7, <1>8 DEF Torn

\* The least element of a set of numbers
LEMMA LeastExists ==
    ASSUME NEW S \in SUBSET Nat, NEW m \in S
    PROVE  \E x \in S : \A y \in S : x <= y
<1> DEFINE T == {n \in Nat : \A y \in S : y > n}
<1>1. SUFFICES ASSUME \A x \in S : \E y \in S : ~(x <= y) PROVE FALSE OBVIOUS
<1>2. \A x \in S : \E y \in S : y < x BY <1>1
<1>3. 0 \in T BY <1>2
<1>4. ASSUME NEW n \in T PROVE n + 1 \in T
  <2>1. n \in Nat /\ \A y \in S : y > n BY <1>4
  <2>2. \A y \in S : y >= n + 1 BY <2>1
  <2>3. n + 1 \notin S BY <1>2, <2>1, <2>2
  <2>4. \A y \in S : y > n + 1 BY <2>2, <2>3
  <2> QED BY <2>1, <2>4
<1>5. T \in SUBSET Nat OBVIOUS
<1>6. T = Nat
  <2> HIDE DEF T
  <2> QED BY <1>3, <1>4, <1>5, SetInduction
<1> QED BY <1>6

\* rangeAt() finds a range that touches, if there is one.
LEMMA RangeFound ==
    ASSUME NEW L, NEW R \in Seq(Marks), NEW C, NEW s, NEW i, i = rangeAt(DocOf(L, R, C), s)
    PROVE  /\ i \in 0 .. Len(R)
           /\ i # 0 => Touch(R[i], s)
           /\ i = 0 => \A j \in 1 .. Len(R) : ~Touch(R[j], s)
<1>1. PICK n \in Nat : n = Len(R) /\ DOMAIN R = 1 .. n BY RangeTypes
<1>2. PICK S : S = {j \in 1 .. n : Touch(R[j], s)} \cup {n + 1} OBVIOUS
<1>3. i = Min(S) % (n + 1)
  <2>1. PICK d : d = DocOf(L, R, C) /\ d.ranges = R BY DocFacts
  <2>2. S = {j \in DOMAIN d.ranges : Touch(d.ranges[j], s)} \cup {Len(d.ranges) + 1}
    BY <1>1, <1>2, <2>1
  <2>3. rangeAt(d, s) = Min(S) % (Len(d.ranges) + 1) BY <2>2 DEF rangeAt
  <2> QED BY <1>1, <2>1, <2>3
<1>4. S \in SUBSET Nat /\ n + 1 \in S BY <1>2
<1>5. PICK x \in S : \A y \in S : x <= y
  <2>1. \E x \in S : \A y \in S : x <= y BY <1>4, LeastExists
  <2> QED BY <2>1
<1>6. PICK m : m = Min(S) /\ m \in S /\ \A y \in S : m <= y
  <2>1. Min(S) \in S /\ \A y \in S : Min(S) <= y BY <1>5 DEF Min
  <2> QED BY <2>1
<1>7. m = n + 1 \/ (m \in 1 .. n /\ Touch(R[m], s)) BY <1>2, <1>6
<1>8. CASE m = n + 1
  <2>1. i = 0 BY <1>3, <1>6, <1>8
  <2>2. ASSUME NEW j \in 1 .. n, Touch(R[j], s) PROVE FALSE
    <3>1. j \in S BY <1>2, <2>2
    <3>2. n + 1 <= j BY <1>6, <1>8, <3>1
    <3> QED BY <3>2
  <2> QED BY <1>1, <2>1, <2>2
<1>9. CASE m \in 1 .. n /\ Touch(R[m], s)
  <2>1. m % (n + 1) = m BY <1>9
  <2>2. i = m BY <1>3, <1>6, <2>1
  <2> QED BY <1>1, <1>9, <2>2
<1> QED BY <1>7, <1>8, <1>9

\* The ranges that cleanupRanges() goes through
KeptAre(f, R, n) ==
    f = [k \in 0 .. n |-> IF k = 0 THEN <<>>
                          ELSE IF isEmpty(R[k]) THEN f[k - 1] ELSE Append(f[k - 1], R[k])]

\* They exist.
LEMMA KeptExist ==
    ASSUME NEW R, NEW n \in Nat
    PROVE  \E f : KeptAre(f, R, n)
<1> DEFINE S == {m \in 0 .. n : \E f : KeptAre(f, R, m)}
<1>1. 0 \in S
  <2>1. KeptAre([k \in 0 .. 0 |-> <<>>], R, 0) BY DEF KeptAre
  <2> QED BY <2>1
<1>2. ASSUME NEW i \in 0 .. n - 1, i \in S PROVE i + 1 \in S
  <2>1. PICK f : KeptAre(f, R, i) BY <1>2
  <2>2. PICK g : LongerBy(g, f, i, IF isEmpty(R[i + 1]) THEN f[i] ELSE Append(f[i], R[i + 1]))
    BY OneMore
  <2>3. \A k \in 0 .. i + 1 : g[k] = IF k = 0 THEN <<>>
                     ELSE IF isEmpty(R[k]) THEN g[k - 1] ELSE Append(g[k - 1], R[k])
    BY <2>1, <2>2 DEF LongerBy, KeptAre
  <2>4. KeptAre(g, R, i + 1) BY <2>2, <2>3 DEF LongerBy, KeptAre
  <2> QED BY <2>4
<1>3. n \in S
  <2> HIDE DEF S
  <2> QED BY <1>1, <1>2, UpTo
<1> QED BY <1>3

\* A range that shows something
Stands(R, r) == \E i \in 1 .. Len(R) : r = R[i] /\ ~isEmpty(r)

\* T has the ranges of R up to the k-th that are not empty.
CleanTo(R, T, k) ==
    /\ T \in Seq(Marks)
    /\ \A j \in 1 .. Len(T) : ~isEmpty(T[j]) /\ \E i \in 1 .. k : T[j] = R[i]
    /\ \A i \in 1 .. k : ~isEmpty(R[i]) => \E j \in 1 .. Len(T) : T[j] = R[i]
    /\ Apart(R) => Apart(T)

\* A sequence with one more element
LEMMA Appended ==
    ASSUME NEW R \in Seq(Marks), NEW m \in Marks
    PROVE  /\ Append(R, m) \in Seq(Marks) /\ Len(Append(R, m)) = Len(R) + 1
           /\ Append(R, m)[Len(R) + 1] = m
           /\ \A i \in 1 .. Len(R) : Append(R, m)[i] = R[i]
  BY AppendProperties, LenProperties

\* A range that shows what no other does joins the others.
LEMMA AppendedApart ==
    ASSUME NEW R \in Seq(Marks), NEW m \in Marks, Apart(R),
           \A i \in 1 .. Len(R) : Clear(R[i], m)
    PROVE  Apart(Append(R, m))
<1>1. PICK T : T = Append(R, m) OBVIOUS
<1>2. PICK n \in Nat : n = Len(R) BY RangeTypes
<1>3. Len(T) = n + 1 /\ T[n + 1] = m /\ \A i \in 1 .. n : T[i] = R[i]
  BY <1>1, <1>2, Appended
<1>4. \A i \in 1 .. n : Clear(m, R[i]) BY <1>2 DEF Clear
<1>5. ASSUME NEW i \in 1 .. n + 1, NEW j \in 1 .. n + 1, i # j PROVE Clear(T[i], T[j])
  <2>1. CASE i = n + 1 BY <1>3, <1>4, <1>5, <2>1
  <2>2. CASE j = n + 1 BY <1>2, <1>3, <1>5, <2>2
  <2>3. CASE i \in 1 .. n /\ j \in 1 .. n BY <1>2, <1>3, <1>5, <2>3 DEF Apart
  <2> QED BY <2>1, <2>2, <2>3
<1> QED BY <1>1, <1>2, <1>3, <1>5 DEF Apart

\* What cleanupRanges() leaves
LEMMA CleanedUp ==
    ASSUME NEW L, NEW R \in Seq(Marks), NEW C
    PROVE  \E T : cleanupRanges(DocOf(L, R, C)) = DocOf(L, T, C) /\ CleanTo(R, T, Len(R))
<1>1. PICK n \in Nat : n = Len(R) /\ \A i \in 1 .. n : R[i] \in Marks BY RangeTypes
<1> DEFINE f == CHOOSE f : KeptAre(f, R, n)
<1>2. KeptAre(f, R, n) BY KeptExist
<1>3. PICK d : d = DocOf(L, R, C) /\ d.ranges = R BY DocFacts
<1>4. cleanupRanges(d) = [d EXCEPT !.ranges = f[n]]
  BY <1>1, <1>3 DEF cleanupRanges, KeptAre
<1> HIDE DEF f
<1>5. PICK T : T = f[n] OBVIOUS
<1>6. cleanupRanges(DocOf(L, R, C)) = DocOf(L, T, C) BY <1>3, <1>4, <1>5 DEF DocOf
<1> DEFINE S == {k \in 0 .. n : CleanTo(R, f[k], k)}
<1>7. 0 \in S
  <2>1. f[0] = <<>> BY <1>2 DEF KeptAre
  <2>2. PICK e \in Seq(Marks) : e = <<>> /\ Len(e) = 0
    <3>1. <<>> \in Seq(Marks) OBVIOUS
    <3>2. Len(<<>>) = 0 OBVIOUS
    <3> QED BY <3>1, <3>2
  <2>3. CleanTo(R, e, 0) BY <2>2 DEF CleanTo, Apart
  <2> QED BY <2>1, <2>2, <2>3
<1>8. ASSUME NEW k \in 0 .. n - 1, k \in S PROVE k + 1 \in S
  <2>1. k + 1 \in 1 .. n /\ k + 1 \in 0 .. n /\ k + 1 # 0 /\ (k + 1) - 1 = k OBVIOUS
  <2>2. PICK U : U = f[k] OBVIOUS
  <2>3. PICK m \in Marks : U = f[k] /\ m = R[k + 1] BY <1>1, <2>1, <2>2
  <2>4. f[k + 1] = IF isEmpty(m) THEN U ELSE Append(U, m)
    BY <1>2, <2>1, <2>3 DEF KeptAre
  <2>5. CleanTo(R, U, k) BY <1>8, <2>3
  <2>6. \A i \in 1 .. k + 1 : i \in 1 .. k \/ i = k + 1 OBVIOUS
  <2>7. \A i \in 1 .. k : i \in 1 .. k + 1 OBVIOUS
  <2>8. CASE isEmpty(m)
    <3>1. \A j \in 1 .. Len(U) : \E i \in 1 .. k + 1 : U[j] = R[i]
      BY <2>5, <2>7 DEF CleanTo
    <3>2. \A i \in 1 .. k + 1 : ~isEmpty(R[i]) => \E j \in 1 .. Len(U) : U[j] = R[i]
      BY <2>3, <2>5, <2>6, <2>8 DEF CleanTo
    <3>3. CleanTo(R, U, k + 1) BY <2>5, <3>1, <3>2 DEF CleanTo
    <3> QED BY <2>1, <2>4, <2>8, <3>3
  <2>9. CASE ~isEmpty(m)
    <3>1. PICK V : V = Append(U, m) /\ U \in Seq(Marks) BY <2>5 DEF CleanTo
    <3>2. PICK l \in Nat : V = Append(U, m) /\ l = Len(U) /\ U \in Seq(Marks)
      BY <3>1, RangeTypes
    <3>3. /\ V \in Seq(Marks) /\ Len(V) = l + 1 /\ V[l + 1] = m
          /\ \A j \in 1 .. l : V[j] = U[j]
      BY <3>2, Appended
    <3>4. \A j \in 1 .. l : ~isEmpty(U[j]) /\ \E i \in 1 .. k : U[j] = R[i]
      BY <2>5, <3>2 DEF CleanTo
    <3>5. ASSUME NEW j \in 1 .. l + 1
          PROVE  ~isEmpty(V[j]) /\ \E i \in 1 .. k + 1 : V[j] = R[i]
      <4>1. CASE j = l + 1
        <5>1. k + 1 \in 1 .. k + 1 OBVIOUS
        <5> QED BY <2>3, <2>9, <3>3, <4>1, <5>1
      <4>2. CASE j \in 1 .. l BY <2>7, <3>3, <3>4, <4>2
      <4> QED BY <4>1, <4>2
    <3>6. ASSUME NEW i \in 1 .. k + 1, ~isEmpty(R[i]) PROVE \E j \in 1 .. l + 1 : V[j] = R[i]
      <4>1. CASE i = k + 1
        <5>1. l + 1 \in 1 .. l + 1 OBVIOUS
        <5> QED BY <2>3, <3>3, <4>1, <5>1
      <4>2. CASE i \in 1 .. k
        <5>1. PICK j \in 1 .. l : U[j] = R[i] BY <2>5, <3>2, <3>6, <4>2 DEF CleanTo
        <5>2. j \in 1 .. l + 1 /\ V[j] = R[i] BY <3>3, <5>1
        <5> QED BY <5>2
      <4> QED BY <2>6, <4>1, <4>2
    <3>7. Apart(R) => Apart(V)
      <4>1. SUFFICES ASSUME Apart(R) PROVE Apart(V) OBVIOUS
      <4>2. Apart(U) BY <2>5, <4>1 DEF CleanTo
      <4>3. ASSUME NEW j \in 1 .. l PROVE Clear(U[j], m)
        <5>1. PICK i \in 1 .. k : U[j] = R[i] BY <3>4
        <5>2. i \in 1 .. n /\ k + 1 \in 1 .. n /\ i # k + 1 BY <2>1
        <5>3. Clear(R[i], R[k + 1]) BY <1>1, <4>1, <5>2 DEF Apart
        <5> QED BY <2>3, <5>1, <5>3
      <4> QED BY <3>2, <4>2, <4>3, AppendedApart
    <3>8. CleanTo(R, V, k + 1) BY <3>3, <3>5, <3>6, <3>7 DEF CleanTo
    <3> QED BY <2>1, <2>4, <2>9, <3>2, <3>8
  <2> QED BY <2>8, <2>9
<1>9. \A k \in 0 .. n : k \in S
  <2> HIDE DEF S
  <2> QED BY <1>7, <1>8, UpTo
<1>10. n \in 0 .. n OBVIOUS
<1>11. CleanTo(R, T, n) BY <1>5, <1>9, <1>10
<1> HIDE DEF S
<1> QED BY <1>1, <1>6, <1>11

\* A range that shows a unit is not empty.
LEMMA CoversStands ==
    ASSUME NEW L, NEW R, NEW C, Grounded(L, R, C), NEW x \in Spots, NEW i \in 1 .. Len(R),
           Covers(R[i], x)
    PROVE  Stands(R, R[i])
<1>1. R[i] \in Marks BY RangeTypes DEF Grounded
<1>2. PICK p \in Spots, q \in Spots : p = R[i].start /\ q = R[i].end
  BY <1>1, MarkFacts
<1>3. BeforeOrAt(p, x) /\ Before(x, q) BY <1>2 DEF Covers
<1>4. p # q BY <1>3, OrderLaws
<1> QED BY <1>2, <1>4 DEF Stands, isEmpty

\* A unit is shown right when the same colour is shown behind the same cursor.
LEMMA RightAs ==
    ASSUME NEW L, NEW R, NEW C, Grounded(L, R, C), NEW T, NEW E, Grounded(L, T, E),
           NEW x, IsUnit(L, x), Right(L, R, C, x),
           \A v \in DOMAIN C : v \in DOMAIN E /\ E[v] = C[v],
           \A r : Stands(R, r) /\ Covers(r, x) =>
                      \E s : Stands(T, s) /\ Covers(s, x) /\ s.color = r.color,
           \A s : Stands(T, s) /\ Covers(s, x) => \E r : Stands(R, r) /\ Covers(r, x)
    PROVE  Right(L, T, E, x)
<1>1. x \in Spots BY InLinesSpot DEF IsUnit
<1>2. ASSUME By(L, x) = Nobody, NEW i \in 1 .. Len(T), Covers(T[i], x) PROVE FALSE
  <2>1. Stands(T, T[i]) BY <1>1, <1>2, CoversStands
  <2>2. PICK r : Stands(R, r) /\ Covers(r, x) BY <1>2, <2>1
  <2> QED BY <1>2, <2>2 DEF Right, Stands
<1>3. ASSUME By(L, x) # Nobody
      PROVE  /\ By(L, x) \in DOMAIN E
             /\ \E i \in 1 .. Len(T) : Covers(T[i], x) /\ T[i].color = E[By(L, x)]
  <2>1. /\ By(L, x) \in DOMAIN C
        /\ \E i \in 1 .. Len(R) : Covers(R[i], x) /\ R[i].color = C[By(L, x)]
    BY <1>3 DEF Right
  <2>2. PICK i \in 1 .. Len(R) : Covers(R[i], x) /\ R[i].color = C[By(L, x)] BY <2>1
  <2>3. Stands(R, R[i]) BY <1>1, <2>2, CoversStands
  <2>4. PICK s : Stands(T, s) /\ Covers(s, x) /\ s.color = R[i].color BY <2>2, <2>3
  <2>5. PICK j \in 1 .. Len(T) : s = T[j] BY <2>4 DEF Stands
  <2> QED BY <2>1, <2>2, <2>4, <2>5
<1> QED BY <1>2, <1>3 DEF Right

\* The ranges that show something stay.
LEMMA CleanStands ==
    ASSUME NEW R, NEW T, CleanTo(R, T, Len(R))
    PROVE  \A r : Stands(T, r) <=> Stands(R, r)
  BY DEF CleanTo, Stands

\* Cleaned up, the ranges are as sound.
LEMMA CleanGrounded ==
    ASSUME NEW L, NEW R, NEW C, Grounded(L, R, C), NEW T, CleanTo(R, T, Len(R))
    PROVE  /\ Grounded(L, T, C)
           /\ Apart(R) => Apart(T)
           /\ (\A i \in 1 .. Len(R) : Flat(R[i])) => \A j \in 1 .. Len(T) : Flat(T[j])
           /\ \A x : IsUnit(L, x) /\ Right(L, R, C, x) => Right(L, T, C, x)
<1>1. \A j \in 1 .. Len(T) : \E i \in 1 .. Len(R) : T[j] = R[i] BY DEF CleanTo
<1>2. Grounded(L, T, C) BY <1>1 DEF Grounded, CleanTo
<1>3. ASSUME NEW x, IsUnit(L, x), Right(L, R, C, x) PROVE Right(L, T, C, x)
  <2>1. \A r : Stands(T, r) <=> Stands(R, r) BY CleanStands
  <2>2. \A r : Stands(R, r) /\ Covers(r, x) =>
                      \E s : Stands(T, s) /\ Covers(s, x) /\ s.color = r.color
    BY <2>1
  <2>3. \A s : Stands(T, s) /\ Covers(s, x) => \E r : Stands(R, r) /\ Covers(r, x)
    BY <2>1
  <2>4. \A v \in DOMAIN C : v \in DOMAIN C /\ C[v] = C[v] OBVIOUS
  <2> QED BY <1>2, <1>3, <2>2, <2>3, <2>4, RightAs
<1>4. Apart(R) => Apart(T) BY DEF CleanTo
<1> QED BY <1>1, <1>2, <1>3, <1>4

\* A range that shows something stands once.
LEMMA StandsOnce ==
    ASSUME NEW R \in Seq(Marks), Apart(R), \A i \in 1 .. Len(R) : BeforeOrAt(R[i].start, R[i].end),
           NEW i \in 1 .. Len(R), NEW j \in 1 .. Len(R), R[i] = R[j], ~isEmpty(R[i])
    PROVE  i = j
<1>1. PICK p \in Spots, q \in Spots : p = R[i].start /\ q = R[i].end
  BY RangeTypes, MarkFacts
<1>2. p # q /\ BeforeOrAt(p, q) BY <1>1 DEF isEmpty
<1>3. ~BeforeOrAt(q, p) BY <1>2, OrderLaws
<1>4. ~Clear(R[i], R[j]) BY <1>1, <1>3 DEF Clear
<1> QED BY <1>4 DEF Apart

\* The same while a user inserts
LEMMA CleanedTorn ==
    ASSUME NEW L, NEW R, NEW C, NEW c, NEW a, NEW u, Torn(L, R, C, c, a, u),
           NEW T, CleanTo(R, T, Len(R))
    PROVE  /\ Torn(L, T, C, c, a, u)
           /\ Outside(L, R, C, c, a) => Outside(L, T, C, c, a)
<1>1. /\ Grounded(L, R, C) /\ Apart(R) /\ Parted(R, c, a) /\ R \in Seq(Marks)
      /\ \A i \in 1 .. Len(R) : BeforeOrAt(R[i].start, R[i].end)
  BY DEF Torn, Grounded
<1>2. Grounded(L, T, C) /\ Apart(T) BY <1>1, CleanGrounded
<1>3. \A x : IsUnit(L, x) /\ Right(L, R, C, x) => Right(L, T, C, x)
  BY <1>1, CleanGrounded
<1>4. ASSUME NEW j \in 1 .. Len(T)
      PROVE  \/ Flat(T[j]) /\ Beside(T[j], c, a)
             \/ Around(T[j], c, a) /\ Alone(T, j, c, a)
  <2>1. PICK i \in 1 .. Len(R) : T[j] = R[i] BY DEF CleanTo
  <2>2. CASE Flat(R[i]) /\ Beside(R[i], c, a) BY <2>1, <2>2
  <2>3. CASE Around(R[i], c, a) /\ Alone(R, i, c, a)
    <3>1. ASSUME NEW k \in 1 .. Len(T), k # j
          PROVE  isEmpty(T[k]) \/ Before(T[k].end, c) \/ Before(a, T[k].start)
      <4>1. PICK m \in 1 .. Len(R) : T[k] = R[m] BY DEF CleanTo
      <4>2. m # i
        <5>1. SUFFICES ASSUME m = i PROVE FALSE OBVIOUS
        <5>2. T[k] = T[j] /\ ~isEmpty(T[k]) BY <2>1, <4>1, <5>1 DEF CleanTo
        <5>3. T \in Seq(Marks) /\ \A l \in 1 .. Len(T) : BeforeOrAt(T[l].start, T[l].end)
          BY <1>2 DEF Grounded
        <5>4. k = j BY <1>2, <5>2, <5>3, StandsOnce
        <5> QED BY <3>1, <5>4
      <4> QED BY <2>3, <4>1, <4>2 DEF Alone
    <3>2. Alone(T, j, c, a) BY <3>1 DEF Alone
    <3> QED BY <2>1, <2>3, <3>2
  <2> QED BY <1>1, <2>1, <2>2, <2>3 DEF Parted
<1>5. Parted(T, c, a) BY <1>4 DEF Parted
<1>6. Torn(L, T, C, c, a, u) BY <1>2, <1>5 DEF Torn
<1>7. Outside(L, R, C, c, a) => Outside(L, T, C, c, a) BY <1>3 DEF Outside
<1> QED BY <1>6, <1>7

\* T is R with another i-th range.
IsSet(R, T, i, m) ==
    /\ T \in Seq(Marks) /\ Len(T) = Len(R) /\ T[i] = m
    /\ \A j \in 1 .. Len(R) : j # i => T[j] = R[j]

\* The colours when a range has been added
Registered(C, name, color) ==
    IF name = NoName THEN C
    ELSE [u \in DOMAIN C \cup {name} |-> IF u = name THEN color ELSE C[u]]

\* Some record with another field, and a sequence with another element
FieldSet(d, i, m) == [d EXCEPT !.ranges[i] = m]

\* One range of a document is replaced.
LEMMA RangeReplaced ==
    ASSUME NEW L, NEW R \in Seq(Marks), NEW C, NEW i \in 1 .. Len(R), NEW m \in Marks
    PROVE  \E T : FieldSet(DocOf(L, R, C), i, m) = DocOf(L, T, C) /\ IsSet(R, T, i, m)
<1>1. PICK n \in Nat : n = Len(R) /\ DOMAIN R = 1 .. n /\ \A j \in 1 .. n : R[j] \in Marks
  BY RangeTypes
<1>2. PICK T : T = [R EXCEPT ![i] = m] OBVIOUS
<1>3. /\ T = [j \in 1 .. n |-> T[j]] /\ T[i] = m
      /\ \A j \in 1 .. n : j # i => T[j] = R[j]
  BY <1>1, <1>2
<1>4. T \in [1 .. n -> Marks] BY <1>1, <1>3
<1>5. T \in Seq(Marks) /\ Len(T) = n BY <1>4, FunctionIsSequence
<1>6. IsSet(R, T, i, m) BY <1>1, <1>3, <1>5 DEF IsSet
<1>7. FieldSet(DocOf(L, R, C), i, m) = DocOf(L, T, C)
  <2>1. PICK d : d = DocOf(L, R, C) /\ d.ranges = R BY DocFacts
  <2>2. FieldSet(d, i, m) = [d EXCEPT !.ranges = T] BY <1>2, <2>1 DEF FieldSet
  <2> QED BY <2>1, <2>2 DEF DocOf
<1> QED BY <1>6, <1>7

\* A range with other ends is one.
LEMMA OtherEnds ==
    ASSUME NEW R \in Seq(Marks), NEW i \in 1 .. Len(R), NEW x \in Spots, NEW y \in Spots,
           NEW m, m = Mark(x, y, R[i].name, R[i].color)
    PROVE  m \in Marks
<1>1. R[i] \in Marks BY RangeTypes
<1>2. PICK name \in Users \cup {NoName}, col \in Colors : name = R[i].name /\ col = R[i].color
  BY <1>1, MarkFacts
<1> QED BY <1>2, MarkFacts

\* A range of a document is m when its ends are set.
BecomesRange(L, R, C, i, x, y, m) ==
    \E T : setRange(DocOf(L, R, C), i, x, y) = DocOf(L, T, C) /\ IsSet(R, T, i, m)

\* setRange() gives a range other ends.
LEMMA RangeIsSet ==
    ASSUME NEW L, NEW R \in Seq(Marks), NEW C, NEW i \in 1 .. Len(R),
           NEW x \in Spots, NEW y \in Spots, NEW m, m = Mark(x, y, R[i].name, R[i].color)
    PROVE  BecomesRange(L, R, C, i, x, y, m)
<1>1. R[i] \in Marks BY RangeTypes
<1>2. PICK p \in Spots, q \in Spots, name \in Users \cup {NoName}, col \in Colors :
          p = R[i].start /\ q = R[i].end /\ name = R[i].name /\ col = R[i].color
                /\ R[i] = Mark(p, q, name, col)
  <2>1. /\ R[i].start \in Spots /\ R[i].end \in Spots
        /\ R[i].name \in Users \cup {NoName} /\ R[i].color \in Colors
        /\ R[i] = Mark(R[i].start, R[i].end, R[i].name, R[i].color)
    BY <1>1, MarkFacts
  <2> QED BY <2>1
<1>3. m = Mark(x, y, name, col) /\ m \in Marks BY <1>2, MarkFacts
<1>4. PICK d : d = DocOf(L, R, C) /\ d.ranges = R BY DocFacts
<1>5. setRange(d, i, x, y) = [[d EXCEPT !.ranges[i].start = x] EXCEPT !.ranges[i].end = y]
  BY DEF setRange
<1>6. PICK d1 : d1 = [d EXCEPT !.ranges[i].start = x] OBVIOUS
<1>7. PICK m1 : m1 = Mark(x, q, name, col) /\ m1 \in Marks BY MarkFacts
<1>8. d1 = FieldSet(d, i, m1)
  <2>1. [R[i] EXCEPT !.start = x] = m1 BY <1>2, <1>7 DEF Mark
  <2>2. d1 = [d EXCEPT !.ranges[i] = [R[i] EXCEPT !.start = x]] BY <1>4, <1>6
  <2> QED BY <2>1, <2>2 DEF FieldSet
<1>9. PICK T1 : d1 = DocOf(L, T1, C) /\ IsSet(R, T1, i, m1) /\ d1.ranges = T1
  <2>1. \E T1 : FieldSet(DocOf(L, R, C), i, m1) = DocOf(L, T1, C) /\ IsSet(R, T1, i, m1)
    BY <1>7, RangeReplaced
  <2> QED BY <1>4, <1>8, <2>1, DocFacts
<1>10. setRange(d, i, x, y) = FieldSet(d1, i, m)
  <2>1. T1[i] = m1 BY <1>9 DEF IsSet
  <2>2. [T1[i] EXCEPT !.end = y] = m BY <1>3, <1>7, <2>1 DEF Mark
  <2>3. [d1 EXCEPT !.ranges[i].end = y] = [d1 EXCEPT !.ranges[i] = [T1[i] EXCEPT !.end = y]]
    BY <1>9
  <2> QED BY <1>5, <1>6, <2>2, <2>3 DEF FieldSet
<1>11. T1 \in Seq(Marks) /\ i \in 1 .. Len(T1) BY <1>9 DEF IsSet
<1>12. PICK T : FieldSet(d1, i, m) = DocOf(L, T, C) /\ IsSet(T1, T, i, m)
  <2>1. \E T : FieldSet(DocOf(L, T1, C), i, m) = DocOf(L, T, C) /\ IsSet(T1, T, i, m)
    <3>1. m \in Marks BY <1>3
    <3> HIDE <1>3
    <3> QED BY <1>11, <3>1, RangeReplaced
  <2> QED BY <1>9, <2>1
<1>13. IsSet(R, T, i, m) BY <1>9, <1>12 DEF IsSet
<1> QED BY <1>4, <1>10, <1>12, <1>13 DEF BecomesRange

\* A document with one more range and other colours
PartsSet(d, T, C) == [d EXCEPT !.ranges = T, !.colors = C]

\* The parts of such a document
LEMMA DocPartsSet ==
    ASSUME NEW L, NEW R, NEW C, NEW T, NEW E
    PROVE  PartsSet(DocOf(L, R, C), T, E) = DocOf(L, T, E)
<1>1. [DocOf(L, R, C) EXCEPT !.ranges = T] = DocOf(L, T, C) BY DEF DocOf
<1>2. [DocOf(L, T, C) EXCEPT !.colors = E] = DocOf(L, T, E) BY DEF DocOf
<1>3. PartsSet(DocOf(L, R, C), T, E) = [[DocOf(L, R, C) EXCEPT !.ranges = T] EXCEPT !.colors = E]
  BY DEF PartsSet
<1> QED BY <1>1, <1>2, <1>3

\* addHighlightedRange() adds a range at the end.
LEMMA RangeIsAdded ==
    ASSUME NEW L, NEW R, NEW C, NEW x, NEW y, NEW name, NEW color
    PROVE  addHighlightedRange(DocOf(L, R, C), name, Range2(x, y), color)
               = DocOf(L, Append(R, Mark(x, y, name, color)), Registered(C, name, color))
<1>1. PICK d : d = DocOf(L, R, C) /\ d.ranges = R /\ d.colors = C BY DocFacts
<1>2. PICK T, E : T = Append(R, Mark(x, y, name, color)) /\ E = Registered(C, name, color)
  OBVIOUS
<1>3. addHighlightedRange(d, name, Range2(x, y), color) = PartsSet(d, T, E)
  BY <1>1, <1>2 DEF addHighlightedRange, PartsSet, Range2, Mark, Registered
<1> QED BY <1>1, <1>2, <1>3, DocPartsSet

\* The range added last is given a name.
LEMMA RangeIsNamed ==
    ASSUME NEW L, NEW R \in Seq(Marks), NEW C, NEW i \in 1 .. Len(R), i = Len(R),
           NEW name \in Users \cup {NoName},
           NEW m, m = Mark(R[i].start, R[i].end, name, R[i].color),
           NEW d, d = DocOf(L, R, C)
    PROVE  \E T : Renamed(d, name) = DocOf(L, T, C) /\ IsSet(R, T, i, m)
<1>1. R[i] \in Marks BY RangeTypes
<1>2. PICK r \in Marks : r = R[i] BY <1>1
<1>3. PICK p \in Spots, q \in Spots, old \in Users \cup {NoName}, col \in Colors :
          p = r.start /\ q = r.end /\ col = r.color /\ r = Mark(p, q, old, col)
  BY MarkFacts
<1>4. m = Mark(p, q, name, col) /\ m \in Marks BY <1>2, <1>3, MarkFacts
<1>5. d.ranges = R BY DocFacts
<1>6. Renamed(d, name) = FieldSet(d, i, m)
  <2>1. [R[i] EXCEPT !.name = name] = m BY <1>2, <1>3, <1>4 DEF Mark
  <2>2. Renamed(d, name) = [d EXCEPT !.ranges[i] = [R[i] EXCEPT !.name = name]]
    BY <1>5 DEF Renamed
  <2> QED BY <2>1, <2>2 DEF FieldSet
<1>7. \E T : FieldSet(DocOf(L, R, C), i, m) = DocOf(L, T, C) /\ IsSet(R, T, i, m)
  BY <1>4, RangeReplaced
<1> QED BY <1>4, <1>5, <1>6, <1>7

\* The hues of the users can be told apart.
HuesApart(C) ==
    \A u, v \in DOMAIN C \ {Initially} :
        u # v => HueDistance(C[u].hue, C[v].hue) > MinDistance

\* A hue that is not too close to one in use
IsFree(C, h) == \A v \in DOMAIN C : HueDistance(C[v].hue, h) > 30

\* The hues that colorForUsername() tries
Turned(h, C) == IF Closest(h, C) <= 30 THEN (h + 150) % 360 ELSE h
HuesAre(f, u, C, n) ==
    f = [i \in 0 .. n |-> IF i = 0 THEN HashHue[u] ELSE Turned(f[i - 1], C)]

\* They exist.
LEMMA HuesExist ==
    ASSUME NEW u, NEW C, NEW n \in Nat
    PROVE  \E f : HuesAre(f, u, C, n)
<1> DEFINE S == {m \in 0 .. n : \E f : HuesAre(f, u, C, m)}
<1>1. 0 \in S
  <2>1. HuesAre([k \in 0 .. 0 |-> HashHue[u]], u, C, 0) BY DEF HuesAre
  <2> QED BY <2>1
<1>2. ASSUME NEW i \in 0 .. n - 1, i \in S PROVE i + 1 \in S
  <2>1. PICK f : HuesAre(f, u, C, i) BY <1>2
  <2>2. PICK g : LongerBy(g, f, i, Turned(f[i], C)) BY OneMore
  <2>3. \A k \in 0 .. i + 1 : g[k] = IF k = 0 THEN HashHue[u] ELSE Turned(g[k - 1], C)
    BY <2>1, <2>2 DEF LongerBy, HuesAre
  <2>4. HuesAre(g, u, C, i + 1) BY <2>2, <2>3 DEF LongerBy, HuesAre
  <2> QED BY <2>4
<1>3. n \in S
  <2> HIDE DEF S
  <2> QED BY <1>1, <1>2, UpTo
<1> QED BY <1>3

\* The distance of hues
LEMMA Distance ==
    ASSUME NEW a \in Int, NEW h \in Int, -1 <= a, a <= 359, 0 <= h, h <= 359
    PROVE  /\ HueDistance(a, h) \in Nat
           /\ HueDistance(a, h) > 30 <=> \/ a - h > 30 /\ a - h < 330
                                         \/ h - a > 30 /\ h - a < 330
           /\ HueDistance(a, h) = HueDistance(h, a)
<1>1. CASE a > h
  <2>1. ~(h > a) BY <1>1
  <2>2. PICK d \in Nat : d = a - h BY <1>1
  <2>3. HueDistance(a, h) = IF d <= 180 THEN d ELSE 360 - d
    BY <1>1, <2>2 DEF HueDistance
  <2>4. HueDistance(h, a) = IF d <= 180 THEN d ELSE 360 - d
    BY <2>1, <2>2 DEF HueDistance
  <2>5. PICK e : e = HueDistance(a, h) /\ e = IF d <= 180 THEN d ELSE 360 - d
    BY <2>3
  <2>6. e \in Nat /\ (e > 30 <=> d > 30 /\ d < 330) BY <2>2, <2>5
  <2> QED BY <1>1, <2>2, <2>3, <2>4, <2>5, <2>6
<1>2. CASE ~(a > h)
  <2>1. PICK d \in Nat : d = h - a BY <1>2
  <2>2. HueDistance(a, h) = IF d <= 180 THEN d ELSE 360 - d
    BY <1>2, <2>1 DEF HueDistance
  <2>3. HueDistance(h, a) = IF d <= 180 THEN d ELSE 360 - d
    <3>1. CASE h > a BY <2>1, <3>1 DEF HueDistance
    <3>2. CASE h = a BY <2>1, <3>2 DEF HueDistance
    <3> QED BY <1>2, <3>1, <3>2
  <2>4. PICK e : e = HueDistance(a, h) /\ e = IF d <= 180 THEN d ELSE 360 - d
    BY <2>2
  <2>5. e \in Nat /\ (e > 30 <=> d > 30 /\ d < 330) BY <2>1, <2>4
  <2> QED BY <1>2, <2>1, <2>2, <2>3, <2>4, <2>5
<1> QED BY <1>1, <1>2

\* What is closest
LEMMA ClosestFree ==
    ASSUME NEW C, Palette(C), NEW h \in 0 .. 359
    PROVE  /\ Closest(h, C) \in Nat
           /\ Closest(h, C) > 30 <=> IsFree(C, h)
<1>1. \A v \in DOMAIN C : C[v].hue \in Int /\ -1 <= C[v].hue /\ C[v].hue <= 359
  BY DEF Palette
<1>2. PICK S : S = {360} \cup {HueDistance(C[v].hue, h) : v \in DOMAIN C} OBVIOUS
<1>3. S \in SUBSET Nat /\ 360 \in S
  <2>1. ASSUME NEW v \in DOMAIN C PROVE HueDistance(C[v].hue, h) \in Nat
    <3>1. PICK g \in Int : g = C[v].hue /\ -1 <= g /\ g <= 359 BY <1>1
    <3>2. h \in Int /\ 0 <= h /\ h <= 359 OBVIOUS
    <3>3. HueDistance(g, h) \in Nat BY <3>1, <3>2, Distance
    <3> QED BY <3>1, <3>3
  <2> QED BY <1>2, <2>1
<1>4. PICK x \in S : \A y \in S : x <= y
  <2>1. \E x \in S : \A y \in S : x <= y BY <1>3, LeastExists
  <2> QED BY <2>1
<1>5. Closest(h, C) = Min(S) BY <1>2 DEF Closest
<1>6. PICK m : m = Closest(h, C) /\ m \in S /\ \A y \in S : m <= y
  <2>1. Min(S) \in S /\ \A y \in S : Min(S) <= y BY <1>4 DEF Min
  <2> QED BY <1>5, <2>1
<1>7. m \in Nat BY <1>3, <1>6
<1>8. ASSUME m > 30, NEW v \in DOMAIN C PROVE HueDistance(C[v].hue, h) > 30
  <2>1. PICK y : y = HueDistance(C[v].hue, h) OBVIOUS
  <2>2. y \in S /\ y \in Nat BY <1>2, <1>3, <2>1
  <2>3. m <= y BY <1>6, <2>2
  <2> QED BY <1>7, <1>8, <2>1, <2>2, <2>3
<1>9. ASSUME IsFree(C, h) PROVE m > 30
  <2>1. CASE m = 360 BY <2>1
  <2>2. CASE m # 360
    <3>1. PICK v \in DOMAIN C : m = HueDistance(C[v].hue, h) BY <1>2, <1>6, <2>2
    <3> QED BY <1>9, <3>1 DEF IsFree
  <2> QED BY <2>1, <2>2
<1> QED BY <1>6, <1>7, <1>8, <1>9 DEF IsFree

\* A hue is close to no two of four that divide the circle.
LEMMA FourApart ==
    ASSUME NEW a \in Int, -1 <= a, a <= 359, NEW h \in Int, 0 <= h, h <= 359,
           NEW g \in Int, 0 <= g, g <= 359,
           g = (h + 90) % 360 \/ g = (h + 180) % 360 \/ g = (h + 270) % 360,
           ~(HueDistance(a, h) > 30)
    PROVE  HueDistance(a, g) > 30
<1>1. \/ g - h = 90 \/ g - h = 180 \/ g - h = 270
      \/ g - h = -270 \/ g - h = -180 \/ g - h = -90
  <2>1. CASE g = (h + 90) % 360 BY <2>1
  <2>2. CASE g = (h + 180) % 360 BY <2>2
  <2>3. CASE g = (h + 270) % 360 BY <2>3
  <2> QED BY <2>1, <2>2, <2>3
<1>2. ~(\/ a - h > 30 /\ a - h < 330
        \/ h - a > 30 /\ h - a < 330)
  BY Distance
<1>3. \/ a - g > 30 /\ a - g < 330
      \/ g - a > 30 /\ g - a < 330
  BY <1>1, <1>2
<1> QED BY <1>3, Distance

\* Each attempt turns the hue.
Turning(f) == /\ \A i \in 0 .. 12 : f[i] \in 0 .. 359
              /\ \A i \in 0 .. 11 : f[i + 1] = (f[i] + 150) % 360

\* Three of them turn it by a quarter.
LEMMA ThreeTurns ==
    ASSUME NEW f, Turning(f), NEW i \in 0 .. 9
    PROVE  f[i + 3] = (f[i] + 90) % 360
<1>1. /\ i \in 0 .. 11 /\ i + 1 \in 0 .. 11 /\ i + 2 \in 0 .. 11 /\ i \in 0 .. 12
      /\ (i + 1) + 1 = i + 2 /\ (i + 2) + 1 = i + 3 OBVIOUS
<1>2. PICK h \in 0 .. 359 : h = f[i] BY <1>1 DEF Turning
<1>3. f[i + 1] = (h + 150) % 360 BY <1>1, <1>2 DEF Turning
<1>4. f[i + 2] = (f[i + 1] + 150) % 360 BY <1>1 DEF Turning
<1>5. f[i + 3] = (f[i + 2] + 150) % 360 BY <1>1 DEF Turning
<1>6. f[i + 2] = (h + 300) % 360 BY <1>3, <1>4
<1> QED BY <1>2, <1>5, <1>6

FourTaken(C, a) ==
    /\ ~IsFree(C, a) /\ ~IsFree(C, (a + 90) % 360)
    /\ ~IsFree(C, (a + 180) % 360) /\ ~IsFree(C, (a + 270) % 360)

\* When twelve attempts fail four hues are taken, the last of which was the first.
LEMMA HueTaken ==
    ASSUME NEW C, Palette(C), NEW u \in Users, u \notin DOMAIN C,
           NEW f, HuesAre(f, u, C, 12), \A i \in 0 .. 12 : f[i] \in 0 .. 359,
           ~IsFree(C, f[12])
    PROVE  FourTaken(C, f[12])
<1>1. ASSUME NEW i \in 0 .. 11
      PROVE  f[i + 1] = IF Closest(f[i], C) <= 30 THEN (f[i] + 150) % 360 ELSE f[i]
  <2>1. i + 1 \in 0 .. 12 /\ i + 1 # 0 /\ (i + 1) - 1 = i OBVIOUS
  <2> QED BY <2>1 DEF HuesAre, Turned
<1>2. ASSUME NEW i \in 0 .. 11
      PROVE  /\ IsFree(C, f[i]) => IsFree(C, f[i + 1])
             /\ ~IsFree(C, f[i]) => f[i + 1] = (f[i] + 150) % 360
  <2>1. PICK h \in 0 .. 359 : h = f[i] OBVIOUS
  <2>2. Closest(h, C) \in Nat /\ (Closest(h, C) > 30 <=> IsFree(C, h))
    BY ClosestFree
  <2>3. f[i + 1] = IF Closest(h, C) <= 30 THEN (h + 150) % 360 ELSE h BY <1>1, <2>1
  <2>4. Closest(h, C) <= 30 <=> ~IsFree(C, h) BY <2>2
  <2> QED BY <2>1, <2>3, <2>4
<1>4. ASSUME NEW i \in 0 .. 11 PROVE ~IsFree(C, f[i])
  <2>1. PICK n \in Nat : n = 12 - i /\ i + n = 12 OBVIOUS
  <2> DEFINE S == {k \in 0 .. n : IsFree(C, f[i + k])}
  <2>2. SUFFICES ASSUME IsFree(C, f[i]) PROVE n \in S BY <2>1
  <2>3. 0 \in S BY <2>2
  <2>4. ASSUME NEW k \in 0 .. n - 1, k \in S PROVE k + 1 \in S
    <3>1. i + k \in 0 .. 11 /\ (i + k) + 1 = i + (k + 1) /\ k + 1 \in 0 .. n BY <2>1
    <3>2. IsFree(C, f[(i + k) + 1]) BY <1>2, <2>4, <3>1
    <3> QED BY <3>1, <3>2
  <2> HIDE DEF S
  <2> QED BY <2>1, <2>3, <2>4, UpTo
<1>5. Turning(f) BY <1>2, <1>4, Zenon DEF Turning
<1>6. PICK a \in 0 .. 359, b \in 0 .. 359, c \in 0 .. 359, d \in 0 .. 359 :
          a = f[0] /\ b = f[3] /\ c = f[6] /\ d = f[9]
  <2>1. 0 \in 0 .. 12 /\ 3 \in 0 .. 12 /\ 6 \in 0 .. 12 /\ 9 \in 0 .. 12 OBVIOUS
  <2>2. f[0] \in 0 .. 359 /\ f[3] \in 0 .. 359 /\ f[6] \in 0 .. 359 /\ f[9] \in 0 .. 359
    BY <2>1
  <2> QED BY <2>2
<1>7. b = (a + 90) % 360 /\ c = (b + 90) % 360 /\ d = (c + 90) % 360
  <2>1. f[0 + 3] = (f[0] + 90) % 360 BY <1>5, ThreeTurns
  <2>2. f[3 + 3] = (f[3] + 90) % 360 BY <1>5, ThreeTurns
  <2>3. f[6 + 3] = (f[6] + 90) % 360 BY <1>5, ThreeTurns
  <2> QED BY <1>6, <2>1, <2>2, <2>3
<1>8. /\ c = (a + 180) % 360 /\ d = (a + 270) % 360 /\ d = (b + 180) % 360
  <2>1. c = (a + 180) % 360 BY <1>7
  <2>2. d = (b + 180) % 360 BY <1>7
  <2> QED BY <1>7, <2>1, <2>2
<1>9. f[12] = a
  <2>1. f[9 + 3] = (f[9] + 90) % 360 BY <1>5, ThreeTurns
  <2>2. f[12] = (d + 90) % 360 BY <1>6, <2>1
  <2>3. d = (a + 270) % 360 BY <1>8
  <2>4. (d + 90) % 360 = a BY <2>3
  <2> QED BY <2>2, <2>4
<1>10. ~IsFree(C, a) /\ ~IsFree(C, b) /\ ~IsFree(C, c) /\ ~IsFree(C, d)
  BY <1>4, <1>6
<1> QED BY <1>7, <1>8, <1>9, <1>10 DEF FourTaken

\* One of twelve attempts succeeds when there are few users.
LEMMA HueFound ==
    ASSUME NEW C, Palette(C), NEW u \in Users, u \notin DOMAIN C, FewUsers,
           NEW f, HuesAre(f, u, C, 12), \A i \in 0 .. 12 : f[i] \in 0 .. 359
    PROVE  IsFree(C, f[12])
<1>3. SUFFICES ASSUME ~IsFree(C, f[12]) PROVE FALSE OBVIOUS
<1>4. FourTaken(C, f[12]) BY <1>3, HueTaken
<1>5. PICK a \in 0 .. 359 : a = f[12] OBVIOUS
<1>b. PICK b \in 0 .. 359 : b = (a + 90) % 360 OBVIOUS
<1>c. PICK c \in 0 .. 359 : c = (a + 180) % 360 OBVIOUS
<1>d. PICK d \in 0 .. 359 : d = (a + 270) % 360 OBVIOUS
<1>8. ~IsFree(C, a) /\ ~IsFree(C, b) /\ ~IsFree(C, c) /\ ~IsFree(C, d)
  BY <1>4, <1>5, <1>b, <1>c, <1>d DEF FourTaken
<1>7. c = (b + 90) % 360 /\ d = (c + 90) % 360 /\ d = (b + 180) % 360
  <2>1. c = (b + 90) % 360 BY <1>b, <1>c
  <2>2. d = (c + 90) % 360 BY <1>c, <1>d
  <2>3. d = (b + 180) % 360 BY <1>b, <1>d
  <2> QED BY <2>1, <2>2, <2>3
<1>9. PICK p \in DOMAIN C, q \in DOMAIN C, r \in DOMAIN C, s \in DOMAIN C :
          /\ ~(HueDistance(C[p].hue, a) > 30) /\ ~(HueDistance(C[q].hue, b) > 30)
          /\ ~(HueDistance(C[r].hue, c) > 30) /\ ~(HueDistance(C[s].hue, d) > 30)
  BY <1>8 DEF IsFree
<1>10. \A v \in DOMAIN C : C[v].hue \in Int /\ -1 <= C[v].hue /\ C[v].hue <= 359
  BY DEF Palette
<1>11. PICK hp \in Int, hq \in Int, hr \in Int :
         /\ hp = C[p].hue /\ hq = C[q].hue /\ hr = C[r].hue
         /\ -1 <= hp /\ hp <= 359 /\ -1 <= hq /\ hq <= 359 /\ -1 <= hr /\ hr <= 359
  BY <1>10
<1>12. /\ 0 <= a /\ a <= 359 /\ 0 <= b /\ b <= 359 /\ 0 <= c /\ c <= 359 /\ 0 <= d /\ d <= 359
     /\ a \in Int /\ b \in Int /\ c \in Int /\ d \in Int OBVIOUS
<1>13. p # q /\ p # r /\ p # s
  <2>1. HueDistance(hp, b) > 30 BY <1>b, <1>9, <1>11, <1>12, FourApart
  <2>2. HueDistance(hp, c) > 30 BY <1>c, <1>9, <1>11, <1>12, FourApart
  <2>3. HueDistance(hp, d) > 30 BY <1>d, <1>9, <1>11, <1>12, FourApart
  <2> QED BY <1>9, <1>11, <2>1, <2>2, <2>3
<1>14. q # r /\ q # s /\ r # s
  <2>1. HueDistance(hq, c) > 30 BY <1>7, <1>9, <1>11, <1>12, FourApart
  <2>2. HueDistance(hq, d) > 30 BY <1>7, <1>9, <1>11, <1>12, FourApart
  <2>3. HueDistance(hr, d) > 30 BY <1>7, <1>9, <1>11, <1>12, FourApart
  <2> QED BY <1>9, <1>11, <2>1, <2>2, <2>3
<1>15. PICK x, y, z : Users \subseteq {x, y, z} BY DEF FewUsers
<1>16. \A v \in DOMAIN C : v = Initially \/ (v \in {x, y, z} /\ v # u)
  BY <1>15 DEF Palette
<1>17. u \in {x, y, z} BY <1>15
<1> QED BY <1>9, <1>13, <1>14, <1>16, <1>17

Taken(C, h) == \A turn \in {90, 180, 270} :
                   \E w \in DOMAIN C : HueDistance(C[w].hue, (h + turn) % 360) <= 30

\* The colour of a user: the one in use, or another hue
LEMMA ColorFacts ==
    ASSUME NEW C, Palette(C), NEW u \in Users, NEW col, col = colorForUsername(u, C)
    PROVE  /\ col \in Colors /\ col.hue \in 0 .. 359
           /\ u \in DOMAIN C => col = C[u]
           /\ u \notin DOMAIN C /\ FewUsers => IsFree(C, col.hue)
           /\ u \notin DOMAIN C /\ ~IsFree(C, col.hue) => Taken(C, col.hue)
<1>1. CASE u \in DOMAIN C
  <2>1. col = C[u] BY <1>1 DEF colorForUsername
  <2>2. u # Initially BY EditedTextAssumption
  <2>3. C[u] \in Colors /\ C[u].hue \in 0 .. 359 BY <1>1, <2>2 DEF Palette
  <2> QED BY <1>1, <2>1, <2>3
<1>2. CASE u \notin DOMAIN C
  <2> DEFINE f == CHOOSE f : HuesAre(f, u, C, 12)
  <2>1. HuesAre(f, u, C, 12) BY HuesExist
  <2>2. 360 \div 30 = 12 /\ 30 * ((360 \div 30) \div 2 - 1) = 150 OBVIOUS
  <2>3. PICK dim : dim = (Closest(f[12 - 1], C) < 30) OBVIOUS
  <2>4. col = [hue |-> f[12], dimmed |-> dim]
    BY <1>2, <2>2, <2>3 DEF colorForUsername, HuesAre, Turned, MinDistance
  <2>5. dim \in BOOLEAN BY <2>3
  <2> HIDE DEF f
  <2>6. HashHue[u] \in 0 .. 359 BY EditedTextAssumption
  <2> DEFINE S == {i \in 0 .. 12 : f[i] \in 0 .. 359}
  <2>7. 0 \in S BY <2>1, <2>6 DEF HuesAre, Turned
  <2>8. ASSUME NEW i \in 0 .. 12 - 1, i \in S PROVE i + 1 \in S
    <3>1. i + 1 \in 0 .. 12 /\ i + 1 # 0 /\ (i + 1) - 1 = i OBVIOUS
    <3>2. f[i + 1] = IF Closest(f[i], C) <= 30 THEN (f[i] + 150) % 360 ELSE f[i]
      BY <2>1, <3>1 DEF HuesAre, Turned
    <3>3. \A h \in 0 .. 359 : (h + 150) % 360 \in 0 .. 359 OBVIOUS
    <3> QED BY <2>8, <3>1, <3>2, <3>3
  <2>9. \A i \in 0 .. 12 : i \in S
    <3> HIDE DEF S
    <3> QED BY <2>7, <2>8, UpTo
  <2>10. \A i \in 0 .. 12 : f[i] \in 0 .. 359 BY <2>9
  <2> HIDE DEF S
  <2>11. f[12] \in 0 .. 359 BY <2>10
  <2>12. FewUsers => IsFree(C, f[12]) BY <1>2, <2>1, <2>10, HueFound
  <2>13. ASSUME ~IsFree(C, f[12]) PROVE Taken(C, f[12])
    <3>1. FourTaken(C, f[12]) BY <1>2, <2>1, <2>10, <2>13, HueTaken
    <3>2. ASSUME NEW h \in 0 .. 359, ~IsFree(C, h)
          PROVE  \E w \in DOMAIN C : HueDistance(C[w].hue, h) <= 30
      <4>1. PICK w \in DOMAIN C : ~(HueDistance(C[w].hue, h) > 30) BY <3>2 DEF IsFree
      <4>2. PICK g \in Int : g = C[w].hue /\ -1 <= g /\ g <= 359 BY <4>1 DEF Palette
      <4>3. h \in Int /\ 0 <= h /\ h <= 359 OBVIOUS
      <4>4. HueDistance(g, h) \in Nat BY <4>2, <4>3, Distance
      <4> QED BY <4>1, <4>2, <4>4
    <3>3. ASSUME NEW turn \in {90, 180, 270}
          PROVE  \E w \in DOMAIN C : HueDistance(C[w].hue, (f[12] + turn) % 360) <= 30
      <4>1. PICK h \in 0 .. 359 : h = (f[12] + turn) % 360 BY <2>11
      <4>2. ~IsFree(C, h) BY <3>1, <3>3, <4>1 DEF FourTaken
      <4> QED BY <3>2, <4>1, <4>2
    <3> QED BY <3>3 DEF Taken
  <2> QED BY <1>2, <2>4, <2>5, <2>11, <2>12, <2>13 DEF Colors
<1> QED BY <1>1, <1>2

\* The colours stay as they are when the one of a user is registered.
LEMMA RegisteredFacts ==
    ASSUME NEW C, Palette(C), NEW u \in Users, NEW E, E = Registered(C, u, colorForUsername(u, C))
    PROVE  /\ Palette(E) /\ \A v \in DOMAIN C : v \in DOMAIN E /\ E[v] = C[v]
           /\ u \in DOMAIN E /\ E[u] = colorForUsername(u, C)
           /\ FewUsers /\ HuesApart(C) => HuesApart(E)
<1>1. PICK col : /\ col = colorForUsername(u, C) /\ col \in Colors /\ col.hue \in 0 .. 359
                 /\ u \in DOMAIN C => col = C[u]
                 /\ u \notin DOMAIN C /\ FewUsers => IsFree(C, col.hue)
                 /\ u \notin DOMAIN C /\ ~IsFree(C, col.hue) => Taken(C, col.hue)
  BY ColorFacts
<1>2. u # NoName /\ u # Initially BY EditedTextAssumption
<1>3. /\ DOMAIN E = DOMAIN C \cup {u} /\ E[u] = col
      /\ \A v \in DOMAIN C : E[v] = C[v]
      /\ E = [v \in DOMAIN E |-> E[v]]
  BY <1>1, <1>2 DEF Registered
<1>4. ASSUME u \notin DOMAIN C, IsFree(C, col.hue), NEW v \in DOMAIN C \ {Initially}
      PROVE  HueDistance(C[v].hue, col.hue) > 30 /\ HueDistance(col.hue, C[v].hue) > 30
  <2>1. v \in DOMAIN C /\ v # Initially BY Zenon
  <2>2. HueDistance(C[v].hue, col.hue) > 30 BY <1>4, <2>1 DEF IsFree
  <2>3. PICK g \in 0 .. 359, h \in 0 .. 359 : g = C[v].hue /\ h = col.hue
    BY <1>1, <2>1 DEF Palette
  <2>4. HueDistance(g, h) = HueDistance(h, g)
    <3>1. g \in Int /\ h \in Int /\ -1 <= g /\ g <= 359 /\ 0 <= h /\ h <= 359 BY <2>3
    <3> QED BY <3>1, Distance
  <2> QED BY <2>2, <2>3, <2>4
<1>6. ToldApart(E)
  <2>1. SUFFICES ASSUME NEW v \in DOMAIN E \ {Initially}, NEW w \in DOMAIN E \ {Initially}, v # w
                 PROVE  HueDistance(E[v].hue, E[w].hue) > 30 \/ Crowded(E, v) \/ Crowded(E, w)
    BY DEF ToldApart, MinDistance
  <2>2. ASSUME NEW x \in DOMAIN C, Crowded(C, x) PROVE Crowded(E, x)
    BY <1>3, <2>2 DEF Crowded
  <2>3. ASSUME u \notin DOMAIN C, ~IsFree(C, col.hue) PROVE Crowded(E, u)
    BY <1>1, <1>3, <2>3 DEF Crowded, Taken, MinDistance
  <2>4. CASE v \in DOMAIN C /\ w \in DOMAIN C
    <3>1. HueDistance(C[v].hue, C[w].hue) > 30 \/ Crowded(C, v) \/ Crowded(C, w)
      BY <2>1, <2>4 DEF Palette, ToldApart, MinDistance
    <3> QED BY <1>3, <2>2, <2>4, <3>1
  <2>5. CASE u \notin DOMAIN C /\ v = u
    <3>1. w \in DOMAIN C \ {Initially} BY <1>3, <2>1, <2>5
    <3> QED BY <1>3, <1>4, <2>3, <2>5, <3>1
  <2>6. CASE u \notin DOMAIN C /\ w = u
    <3>1. v \in DOMAIN C \ {Initially} BY <1>3, <2>1, <2>6
    <3> QED BY <1>3, <1>4, <2>3, <2>6, <3>1
  <2> QED BY <1>3, <2>4, <2>5, <2>6
<1>7. Palette(E)
  <2>1. \A v \in DOMAIN E : E[v] \in Colors BY <1>1, <1>3 DEF Palette
  <2>2. E \in [DOMAIN E -> Colors] BY <1>3, <2>1
  <2>3. \A v \in DOMAIN E : v # Initially => v \in Users /\ E[v].hue \in 0 .. 359
    BY <1>1, <1>3 DEF Palette
  <2>4. Initially \in DOMAIN E /\ E[Initially].hue = -1 BY <1>3 DEF Palette
  <2> QED BY <1>6, <2>2, <2>3, <2>4 DEF Palette
<1>5. ASSUME FewUsers, HuesApart(C) PROVE HuesApart(E)
  <2>1. CASE u \in DOMAIN C
    <3>1. DOMAIN E = DOMAIN C BY <1>3, <2>1
    <3> QED BY <1>3, <1>5, <3>1 DEF HuesApart
  <2>2. CASE u \notin DOMAIN C
    <3>3. ASSUME NEW v \in DOMAIN E \ {Initially}, NEW w \in DOMAIN E \ {Initially}, v # w
          PROVE  HueDistance(E[v].hue, E[w].hue) > 30
      <4>1. CASE v = u
        <5>1. w \in DOMAIN C \ {Initially} BY <1>3, <3>3, <4>1
        <5> QED BY <1>1, <1>3, <1>4, <1>5, <2>2, <4>1, <5>1
      <4>2. CASE w = u
        <5>1. v \in DOMAIN C \ {Initially} BY <1>3, <3>3, <4>2
        <5> QED BY <1>1, <1>3, <1>4, <1>5, <2>2, <4>2, <5>1
      <4>3. CASE v # u /\ w # u
        <5>1. v \in DOMAIN C \ {Initially} /\ w \in DOMAIN C \ {Initially}
          BY <1>3, <4>3
        <5> QED BY <1>3, <1>5, <3>3, <5>1 DEF HuesApart, MinDistance
      <4> QED BY <4>1, <4>2, <4>3
    <3> QED BY <3>3 DEF HuesApart, MinDistance
  <2> QED BY <2>1, <2>2
<1> QED BY <1>1, <1>3, <1>5, <1>7

\* The line of a range in one line, and its columns
Row(r)  == r.start.line
From(r) == r.start.column
To(r)   == r.end.column
Strip(l, p, q, name, col) == Mark(Cursor(l, p), Cursor(l, q), name, col)

\* The order for ranges in one line, as one of numbers
LEMMA FlatFacts ==
    ASSUME NEW r \in Marks, Flat(r)
    PROVE  /\ Row(r) \in Nat /\ From(r) \in Nat /\ To(r) \in Nat /\ From(r) <= To(r)
           /\ r.end.line = Row(r) /\ BeforeOrAt(r.start, r.end)
           /\ isEmpty(r) <=> From(r) = To(r)
           /\ \A x \in Spots : Covers(r, x) <=>
                  x.line = Row(r) /\ From(r) <= x.column /\ x.column < To(r)
<1>1. PICK s \in Spots, e \in Spots : s = r.start /\ e = r.end BY MarkFacts
<1>2. PICK l, p, q \in Nat : /\ l = s.line /\ l = e.line /\ p = s.column /\ q = e.column /\ p <= q
                             /\ l = Row(r) /\ p = From(r) /\ q = To(r)
  BY <1>1, Orders DEF Flat, Row, From, To
<1>3. s.line = l /\ s.column = p /\ e.line = l /\ e.column = q BY <1>2
<1>4. isEmpty(r) <=> p = q
  <2>1. s = e <=> s.line = e.line /\ s.column = e.column BY Orders
  <2>2. s = e <=> p = q BY <1>3, <2>1
  <2> QED BY <1>1, <2>2 DEF isEmpty
<1>5. BeforeOrAt(s, e) BY <1>2, Orders
<1>6. ASSUME NEW x \in Spots
      PROVE  Covers(r, x) <=> x.line = l /\ p <= x.column /\ x.column < q
  <2>1. PICK g, h \in Nat : g = x.line /\ h = x.column BY Orders
  <2>2. BeforeOrAt(s, x) <=> l < g \/ (l = g /\ p <= h) BY <1>3, <2>1, Orders
  <2>3. Before(x, e) <=> g < l \/ (g = l /\ h < q) BY <1>3, <2>1 DEF Before
  <2> QED BY <1>1, <2>1, <2>2, <2>3 DEF Covers
<1> QED BY <1>1, <1>2, <1>4, <1>5, <1>6

\* Two of them show no unit both.
LEMMA FlatClear ==
    ASSUME NEW r \in Marks, Flat(r), NEW s \in Marks, Flat(s)
    PROVE  Clear(r, s) <=> \/ From(r) = To(r) \/ From(s) = To(s) \/ Row(r) # Row(s)
                           \/ To(r) <= From(s) \/ To(s) <= From(r)
<1>1. PICK a \in Spots, b \in Spots, c \in Spots, d \in Spots :
          a = r.start /\ b = r.end /\ c = s.start /\ d = s.end
  BY MarkFacts
<1>2. PICK l, p, q \in Nat : /\ l = a.line /\ l = b.line /\ p = a.column /\ q = b.column
                             /\ l = Row(r) /\ p = From(r) /\ q = To(r)
  BY <1>1, Orders DEF Flat, Row, From, To
<1>3. PICK m, v, w \in Nat : /\ m = c.line /\ m = d.line /\ v = c.column /\ w = d.column
                             /\ m = Row(s) /\ v = From(s) /\ w = To(s)
  BY <1>1, Orders DEF Flat, Row, From, To
<1>4. a.line = l /\ a.column = p /\ b.line = l /\ b.column = q BY <1>2
<1>5. c.line = m /\ c.column = v /\ d.line = m /\ d.column = w BY <1>3
<1>6. BeforeOrAt(b, c) <=> l < m \/ (l = m /\ q <= v) BY <1>4, <1>5, Orders
<1>7. BeforeOrAt(d, a) <=> m < l \/ (m = l /\ w <= p) BY <1>4, <1>5, Orders
<1>8. (isEmpty(r) <=> p = q) /\ (isEmpty(s) <=> v = w) BY <1>2, <1>3, FlatFacts
<1>9. Clear(r, s) <=> isEmpty(r) \/ isEmpty(s) \/ BeforeOrAt(b, c) \/ BeforeOrAt(d, a)
  BY <1>1 DEF Clear
<1>10. Clear(r, s) <=> p = q \/ v = w \/ l # m \/ q <= v \/ w <= p
  BY <1>6, <1>7, <1>8, <1>9
<1> QED BY <1>2, <1>3, <1>10

\* How one of them and a part of a line meet
LEMMA FlatMeets ==
    ASSUME NEW r \in Marks, Flat(r), NEW l \in Nat, NEW lo \in Nat, NEW hi \in Nat,
           NEW g, g = Range2(Cursor(l, lo), Cursor(l, hi))
    PROVE  /\ Touch(r, g) <=> Row(r) = l /\ From(r) <= hi /\ lo <= To(r)
           /\ contains(r, g) <=> Row(r) = l /\ From(r) <= lo /\ hi <= To(r)
           /\ r.start = g.end <=> Row(r) = l /\ From(r) = hi
           /\ r.end = g.start <=> Row(r) = l /\ To(r) = lo
<1>1. PICK a \in Spots, b \in Spots, c \in Spots, d \in Spots :
          /\ a = r.start /\ b = r.end /\ c = Cursor(l, lo) /\ d = Cursor(l, hi)
          /\ c = g.start /\ d = g.end
  BY MarkFacts, Orders DEF Range2
<1>2. PICK m, p, q \in Nat : /\ m = a.line /\ m = b.line /\ p = a.column /\ q = b.column
                             /\ m = Row(r) /\ p = From(r) /\ q = To(r)
  BY <1>1, Orders DEF Flat, Row, From, To
<1>3. a.line = m /\ a.column = p /\ b.line = m /\ b.column = q BY <1>2
<1>4. c.line = l /\ c.column = lo /\ d.line = l /\ d.column = hi
  <2>1. c = Cursor(l, lo) /\ d = Cursor(l, hi) BY <1>1
  <2> QED BY <2>1 DEF Cursor
<1>5. BeforeOrAt(a, d) <=> m < l \/ (m = l /\ p <= hi) BY <1>3, <1>4, Orders
<1>6. BeforeOrAt(c, b) <=> l < m \/ (l = m /\ lo <= q) BY <1>3, <1>4, Orders
<1>7. BeforeOrAt(a, c) <=> m < l \/ (m = l /\ p <= lo) BY <1>3, <1>4, Orders
<1>8. BeforeOrAt(d, b) <=> l < m \/ (l = m /\ hi <= q) BY <1>3, <1>4, Orders
<1>9. (a = d <=> m = l /\ p = hi) /\ (b = c <=> m = l /\ q = lo)
  BY <1>3, <1>4, Orders
<1>10. Touch(r, g) <=> m = l /\ p <= hi /\ lo <= q BY <1>1, <1>5, <1>6 DEF Touch
<1>11. contains(r, g) <=> m = l /\ p <= lo /\ hi <= q
  BY <1>1, <1>7, <1>8 DEF contains
<1> QED BY <1>1, <1>2, <1>9, <1>10, <1>11

\* The parts of one made of numbers
LEMMA StripFacts ==
    ASSUME NEW l \in Nat, NEW p \in Nat, NEW q \in Nat, p <= q,
           NEW name \in Users \cup {NoName}, NEW col \in Colors, NEW m, m = Strip(l, p, q, name, col)
    PROVE  /\ m \in Marks /\ Flat(m) /\ m.name = name /\ m.color = col
           /\ Row(m) = l /\ From(m) = p /\ To(m) = q
<1>1. PICK s \in Spots, e \in Spots : s = Cursor(l, p) /\ e = Cursor(l, q) BY Orders
<1>2. s.line = l /\ s.column = p /\ e.line = l /\ e.column = q BY <1>1, Orders
<1>3. m = Mark(s, e, name, col) /\ m \in Marks BY <1>1, MarkFacts DEF Strip
<1>4. m.start = s /\ m.end = e /\ m.name = name /\ m.color = col BY <1>3, MarkFacts
<1> QED BY <1>2, <1>3, <1>4 DEF Flat, Row, From, To

\* A range that can be added to those of a text, and to their colours
Fits(L, C, m) == m \in Marks /\ Flat(m) /\ Within(L, m) /\ Tied(C, m)

\* A tied range stays so when the colours get more.
LEMMA TiedOn ==
    ASSUME NEW C, NEW E, \A v \in DOMAIN C : v \in DOMAIN E /\ E[v] = C[v], NEW r, Tied(C, r)
    PROVE  Tied(E, r)
  BY DEF Tied

\* A range is added.
LEMMA SoundAppend ==
    ASSUME NEW L, NEW R, NEW C, Sound(L, R, C), NEW E, Palette(E),
           \A v \in DOMAIN C : v \in DOMAIN E /\ E[v] = C[v],
           NEW m, Fits(L, E, m), \A i \in 1 .. Len(R) : Clear(R[i], m),
           NEW T, T = Append(R, m)
    PROVE  Sound(L, T, E)
<1>1. /\ IsLines(L) /\ R \in Seq(Marks) /\ Apart(R) /\ m \in Marks /\ Flat(m)
      /\ Within(L, m) /\ Tied(E, m)
  BY DEF Sound, Grounded, Fits
<1>2. PICK n \in Nat : n = Len(R) BY <1>1, RangeTypes
<1>3. T \in Seq(Marks) /\ Len(T) = n + 1 /\ T[n + 1] = m /\ \A i \in 1 .. n : T[i] = R[i]
  BY <1>1, <1>2, Appended
<1>4. BeforeOrAt(m.start, m.end) BY <1>1, FlatFacts
<1>5. ASSUME NEW i \in 1 .. n + 1
      PROVE  /\ BeforeOrAt(T[i].start, T[i].end) /\ Within(L, T[i]) /\ Tied(E, T[i])
             /\ Flat(T[i])
  <2>1. CASE i = n + 1 BY <1>1, <1>3, <1>4, <2>1
  <2>2. CASE i \in 1 .. n
    <3>1. /\ BeforeOrAt(R[i].start, R[i].end) /\ Within(L, R[i]) /\ Tied(C, R[i])
          /\ Flat(R[i])
      BY <1>2, <2>2 DEF Sound, Grounded
    <3>2. Tied(E, R[i]) BY <3>1, TiedOn
    <3> QED BY <1>3, <2>2, <3>1, <3>2
  <2>3. i \in 1 .. n \/ i = n + 1 OBVIOUS
  <2> QED BY <2>1, <2>2, <2>3
<1>6. Grounded(L, T, E) BY <1>1, <1>3, <1>5 DEF Grounded
<1>7. Apart(T) BY <1>1, AppendedApart
<1> QED BY <1>3, <1>5, <1>6, <1>7 DEF Sound

\* What stands after that
LEMMA StandsAppend ==
    ASSUME NEW R \in Seq(Marks), NEW m \in Marks, NEW T, T = Append(R, m), NEW r
    PROVE  Stands(T, r) <=> Stands(R, r) \/ (r = m /\ ~isEmpty(m))
<1>1. PICK n \in Nat : n = Len(R) BY RangeTypes
<1>2. Len(T) = n + 1 /\ T[n + 1] = m /\ \A i \in 1 .. n : T[i] = R[i]
  BY <1>1, Appended
<1>3. n + 1 \in 1 .. n + 1 /\ \A i \in 1 .. n + 1 : i \in 1 .. n \/ i = n + 1 OBVIOUS
<1>4. \A i \in 1 .. n : i \in 1 .. n + 1 OBVIOUS
<1> QED BY <1>1, <1>2, <1>3, <1>4 DEF Stands

\* A range is replaced, the only one that was in several lines perhaps.
LEMMA GroundedSet ==
    ASSUME NEW L, NEW R, NEW C, Grounded(L, R, C), Apart(R), NEW i \in 1 .. Len(R),
           NEW m, Fits(L, C, m),
           \A j \in 1 .. Len(R) : j # i => Clear(R[j], m) /\ Flat(R[j]), NEW T, IsSet(R, T, i, m)
    PROVE  Sound(L, T, C)
<1>1. /\ IsLines(L) /\ R \in Seq(Marks) /\ Apart(R) /\ m \in Marks /\ Flat(m)
      /\ Within(L, m) /\ Tied(C, m) /\ Palette(C)
  BY DEF Grounded, Fits
<1>2. PICK n \in Nat : n = Len(R) BY <1>1, RangeTypes
<1>3. T \in Seq(Marks) /\ Len(T) = n /\ T[i] = m /\ \A j \in 1 .. n : j # i => T[j] = R[j]
  BY <1>2 DEF IsSet
<1>4. BeforeOrAt(m.start, m.end) BY <1>1, FlatFacts
<1>5. ASSUME NEW j \in 1 .. n
      PROVE  /\ BeforeOrAt(T[j].start, T[j].end) /\ Within(L, T[j]) /\ Tied(C, T[j])
             /\ Flat(T[j])
  <2>1. CASE j = i BY <1>1, <1>3, <1>4, <2>1
  <2>2. CASE j # i
    <3>1. /\ BeforeOrAt(R[j].start, R[j].end) /\ Within(L, R[j]) /\ Tied(C, R[j])
          /\ Flat(R[j])
      BY <1>2, <2>2 DEF Grounded
    <3> QED BY <1>3, <2>2, <3>1
  <2> QED BY <2>1, <2>2
<1>6. Grounded(L, T, C) BY <1>1, <1>3, <1>5 DEF Grounded
<1>7. ASSUME NEW j \in 1 .. n, NEW k \in 1 .. n, j # k PROVE Clear(T[j], T[k])
  <2>1. \A h \in 1 .. n : h # i => Clear(R[h], m) /\ Clear(m, R[h])
    BY <1>2 DEF Clear
  <2>2. CASE j = i BY <1>3, <1>7, <2>1, <2>2
  <2>3. CASE k = i BY <1>3, <1>7, <2>1, <2>3
  <2>4. CASE j # i /\ k # i BY <1>1, <1>2, <1>3, <1>7, <2>4 DEF Apart
  <2> QED BY <2>2, <2>3, <2>4
<1>8. Apart(T) BY <1>3, <1>7 DEF Apart
<1> QED BY <1>3, <1>5, <1>6, <1>8 DEF Sound

\* A range is replaced in a sound document.
LEMMA SoundSet ==
    ASSUME NEW L, NEW R, NEW C, Sound(L, R, C), NEW i \in 1 .. Len(R), NEW m, Fits(L, C, m),
           \A j \in 1 .. Len(R) : j # i => Clear(R[j], m), NEW T, IsSet(R, T, i, m)
    PROVE  Sound(L, T, C)
<1>1. Grounded(L, R, C) /\ Apart(R) BY DEF Sound
<1>2. \A j \in 1 .. Len(R) : j # i => Clear(R[j], m) /\ Flat(R[j]) BY DEF Sound
<1> QED BY <1>1, <1>2, GroundedSet

\* What stands after that
LEMMA GroundedStands ==
    ASSUME NEW L, NEW R, NEW C, Grounded(L, R, C), Apart(R), NEW i \in 1 .. Len(R), ~isEmpty(R[i]),
           NEW m, NEW T, IsSet(R, T, i, m), NEW r
    PROVE  Stands(T, r) <=> (Stands(R, r) /\ r # R[i]) \/ (r = m /\ ~isEmpty(m))
<1>1. R \in Seq(Marks) /\ Apart(R) /\ \A j \in 1 .. Len(R) : BeforeOrAt(R[j].start, R[j].end)
  BY DEF Grounded
<1>2. Len(T) = Len(R) /\ T[i] = m /\ \A j \in 1 .. Len(R) : j # i => T[j] = R[j]
  BY DEF IsSet
<1>3. \A j \in 1 .. Len(R) : R[j] = R[i] => j = i BY <1>1, StandsOnce
<1> QED BY <1>2, <1>3 DEF Stands

\* The same in a sound document
LEMMA StandsSet ==
    ASSUME NEW L, NEW R, NEW C, Sound(L, R, C), NEW i \in 1 .. Len(R), ~isEmpty(R[i]),
           NEW m, NEW T, IsSet(R, T, i, m), NEW r
    PROVE  Stands(T, r) <=> (Stands(R, r) /\ r # R[i]) \/ (r = m /\ ~isEmpty(m))
<1>1. Grounded(L, R, C) /\ Apart(R) BY DEF Sound
<1> QED BY <1>1, GroundedStands

\* A part of a line, and the cursors before its units
Gap(L, l, lo, hi) ==
    /\ l \in Nat /\ lo \in Nat /\ hi \in Nat /\ lo <= hi
    /\ InLines(L, Cursor(l, lo)) /\ InLines(L, Cursor(l, hi))
InGap(x, l, lo, hi) == x.line = l /\ lo <= x.column /\ x.column < hi

\* No range is over it, or at most one that no other one touches it with.
Vacant(R, l, lo, hi) ==
    \A r : Stands(R, r) /\ Row(r) = l => To(r) <= lo \/ hi <= From(r)
Open(R, l, lo, hi) ==
    \A r : Stands(R, r) /\ Row(r) = l =>
        \/ To(r) <= lo
        \/ hi <= From(r)
        \/ /\ From(r) <= lo /\ hi <= To(r)
           /\ \A s : Stands(R, s) /\ Row(s) = l /\ s # r => To(s) < lo \/ hi < From(s)

\* Outside of it the ranges show what they did.
KeptBut(R, T, l, lo, hi) ==
    /\ \A r : Stands(T, r) /\ Row(r) # l => Stands(R, r)
    /\ \A x \in Spots : \A r : ~InGap(x, l, lo, hi) /\ Stands(R, r) /\ Covers(r, x) =>
           \E s : Stands(T, s) /\ Covers(s, x) /\ s.color = r.color
    /\ \A x \in Spots : \A s : ~InGap(x, l, lo, hi) /\ Stands(T, s) /\ Covers(s, x) =>
           \E r : Stands(R, r) /\ Covers(r, x)

\* In it they show what a user wrote.
Painted(L, R, C, T, E, l, lo, hi, u) ==
    /\ Sound(L, T, E)
    /\ \A v \in DOMAIN C : v \in DOMAIN E /\ E[v] = C[v]
    /\ KeptBut(R, T, l, lo, hi)
    /\ FewUsers /\ HuesApart(C) =>
          /\ HuesApart(E) /\ u \in DOMAIN E
          /\ \A x \in Spots : InGap(x, l, lo, hi) =>
                 \E s : Stands(T, s) /\ Covers(s, x) /\ s.color = E[u]

\* Of a sound document
LEMMA SoundFacts ==
    ASSUME NEW L, NEW R, NEW C, Sound(L, R, C)
    PROVE  /\ Grounded(L, R, C) /\ IsLines(L) /\ R \in Seq(Marks) /\ Palette(C) /\ Apart(R)
           /\ \A i \in 1 .. Len(R) : /\ R[i] \in Marks /\ Flat(R[i])
                                     /\ BeforeOrAt(R[i].start, R[i].end)
                                     /\ Within(L, R[i]) /\ Tied(C, R[i])
           /\ \A r : Stands(R, r) => r \in Marks /\ Flat(r)
<1>1. /\ Grounded(L, R, C) /\ IsLines(L) /\ R \in Seq(Marks) /\ Palette(C) /\ Apart(R)
      /\ \A i \in 1 .. Len(R) : /\ Flat(R[i])
                                /\ BeforeOrAt(R[i].start, R[i].end)
                                /\ Within(L, R[i]) /\ Tied(C, R[i])
  BY DEF Sound, Grounded
<1>2. \A i \in 1 .. Len(R) : R[i] \in Marks BY <1>1, RangeTypes
<1>3. \A r : Stands(R, r) => r \in Marks /\ Flat(r) BY <1>1, <1>2 DEF Stands
<1> QED BY <1>1, <1>2, <1>3

\* A part of a line is in the text.
LEMMA StripWithin ==
    ASSUME NEW L, NEW l, NEW p, NEW q, InLines(L, Cursor(l, p)), InLines(L, Cursor(l, q)),
           NEW name, NEW col
    PROVE  Within(L, Strip(l, p, q, name, col))
  BY MarkFacts DEF Within, Strip

\* A range in one line is a strip.
LEMMA FlatIsStrip ==
    ASSUME NEW r \in Marks, Flat(r)
    PROVE  /\ r = Strip(Row(r), From(r), To(r), r.name, r.color)
           /\ r.start = Cursor(Row(r), From(r)) /\ r.end = Cursor(Row(r), To(r))
<1>1. PICK s \in Spots, e \in Spots : s = r.start /\ e = r.end BY MarkFacts
<1>2. s = Cursor(s.line, s.column) /\ e = Cursor(e.line, e.column)
  BY DEF Spots, Cursor
<1>3. s.line = Row(r) /\ e.line = Row(r) /\ s.column = From(r) /\ e.column = To(r)
  BY <1>1 DEF Flat, Row, From, To
<1>4. s = Cursor(Row(r), From(r)) /\ e = Cursor(Row(r), To(r)) BY <1>2, <1>3
<1>5. r = Mark(s, e, r.name, r.color) BY <1>1, MarkFacts
<1> QED BY <1>1, <1>4, <1>5 DEF Strip

\* A range is added over a part of a line that has none.
LEMMA AddPaints ==
    ASSUME NEW L, NEW R, NEW C, Sound(L, R, C), NEW l, NEW lo, NEW hi, Gap(L, l, lo, hi),
           Vacant(R, l, lo, hi), NEW u \in Users, NEW col, col = colorForUsername(u, C),
           NEW T, T = Append(R, Strip(l, lo, hi, u, col)), NEW E, E = Registered(C, u, col)
    PROVE  Painted(L, R, C, T, E, l, lo, hi, u)
<1>1. /\ Grounded(L, R, C) /\ IsLines(L) /\ R \in Seq(Marks) /\ Palette(C)
      /\ \A i \in 1 .. Len(R) : R[i] \in Marks /\ Flat(R[i])
  BY SoundFacts
<1>2. /\ Palette(E) /\ \A v \in DOMAIN C : v \in DOMAIN E /\ E[v] = C[v]
      /\ u \in DOMAIN E /\ E[u] = col
      /\ FewUsers /\ HuesApart(C) => HuesApart(E)
  BY <1>1, RegisteredFacts
<1>3. l \in Nat /\ lo \in Nat /\ hi \in Nat /\ lo <= hi BY DEF Gap
<1>4. PICK m : m = Strip(l, lo, hi, u, col) OBVIOUS
<1>5. /\ m \in Marks /\ Flat(m) /\ m.name = u /\ m.color = col
      /\ Row(m) = l /\ From(m) = lo /\ To(m) = hi
  <2>1. col \in Colors BY <1>1, ColorFacts
  <2> QED BY <1>3, <1>4, <2>1, StripFacts
<1>6. Fits(L, E, m)
  <2>1. Within(L, m) BY <1>4, StripWithin DEF Gap
  <2>2. Tied(E, m) BY <1>2, <1>5 DEF Tied
  <2> QED BY <1>5, <2>1, <2>2 DEF Fits
<1>7. ASSUME NEW i \in 1 .. Len(R) PROVE Clear(R[i], m)
  <2>1. PICK r : r = R[i] /\ r \in Marks /\ Flat(r) BY <1>1
  <2>2. /\ Row(r) \in Nat /\ From(r) \in Nat /\ To(r) \in Nat
        /\ isEmpty(r) <=> From(r) = To(r)
    BY <2>1, FlatFacts
  <2>3. ~isEmpty(r) /\ Row(r) = l => To(r) <= lo \/ hi <= From(r)
    BY <2>1 DEF Vacant, Stands
  <2>4. Clear(r, m) BY <1>5, <2>1, <2>2, <2>3, FlatClear
  <2> QED BY <2>1, <2>4
<1>8. Sound(L, T, E) BY <1>2, <1>4, <1>6, <1>7, SoundAppend
<1>9. ASSUME NEW r PROVE Stands(T, r) <=> Stands(R, r) \/ (r = m /\ ~isEmpty(m))
  <2>1. T = Append(R, m) BY <1>4
  <2> QED BY <1>1, <1>5, <2>1, StandsAppend
<1>10. \A x \in Spots : Covers(m, x) <=> InGap(x, l, lo, hi)
  BY <1>5, FlatFacts DEF InGap
<1>11. KeptBut(R, T, l, lo, hi)
  <2>1. \A r : Stands(T, r) /\ Row(r) # l => Stands(R, r) BY <1>5, <1>9
  <2>2. \A r : Stands(R, r) => Stands(T, r) BY <1>9
  <2>3. \A x \in Spots : \A s : ~InGap(x, l, lo, hi) /\ Stands(T, s) /\ Covers(s, x) => Stands(R, s)
    BY <1>9, <1>10
  <2> QED BY <2>1, <2>2, <2>3 DEF KeptBut
<1>12. ASSUME NEW x \in Spots, InGap(x, l, lo, hi)
       PROVE  \E s : Stands(T, s) /\ Covers(s, x) /\ s.color = E[u]
  <2>1. Covers(m, x) BY <1>10, <1>12
  <2>2. From(m) # To(m)
    <3>1. PICK k \in Nat : k = x.column BY Orders
    <3>2. lo <= k /\ k < hi BY <1>12, <3>1 DEF InGap
    <3> QED BY <1>3, <1>5, <3>1, <3>2
  <2>3. ~isEmpty(m) BY <1>5, <2>2, FlatFacts
  <2> QED BY <1>2, <1>5, <1>9, <2>1, <2>3
<1> QED BY <1>2, <1>8, <1>11, <1>12 DEF Painted

\* What is kept twice is kept.
LEMMA KeptTwice ==
    ASSUME NEW R, NEW S, NEW T, NEW l, NEW lo, NEW hi,
           KeptBut(R, S, l, lo, hi), KeptBut(S, T, l, lo, hi)
    PROVE  KeptBut(R, T, l, lo, hi)
<1>1. \A r : Stands(T, r) /\ Row(r) # l => Stands(R, r) BY DEF KeptBut
<1>2. ASSUME NEW x \in Spots, NEW r, ~InGap(x, l, lo, hi), Stands(R, r), Covers(r, x)
      PROVE  \E s : Stands(T, s) /\ Covers(s, x) /\ s.color = r.color
  <2>1. PICK t : Stands(S, t) /\ Covers(t, x) /\ t.color = r.color
    BY <1>2 DEF KeptBut
  <2>2. PICK s : Stands(T, s) /\ Covers(s, x) /\ s.color = t.color
    BY <1>2, <2>1 DEF KeptBut
  <2> QED BY <2>1, <2>2
<1>3. ASSUME NEW x \in Spots, NEW s, ~InGap(x, l, lo, hi), Stands(T, s), Covers(s, x)
      PROVE  \E r : Stands(R, r) /\ Covers(r, x)
  <2>1. PICK t : Stands(S, t) /\ Covers(t, x) BY <1>3 DEF KeptBut
  <2> QED BY <1>3, <2>1 DEF KeptBut
<1> QED BY <1>1, <1>2, <1>3 DEF KeptBut

\* A range that fits is part of one, or next to one.
LEMMA PartFits ==
    ASSUME NEW L, NEW C, NEW r \in Marks, Flat(r), Tied(C, r), NEW l \in Nat, NEW p \in Nat, NEW q \in Nat,
           p <= q, InLines(L, Cursor(l, p)), InLines(L, Cursor(l, q)),
           NEW m, m = Strip(l, p, q, r.name, r.color)
    PROVE  /\ Fits(L, C, m) /\ m \in Marks /\ Flat(m) /\ m.color = r.color
           /\ Row(m) = l /\ From(m) = p /\ To(m) = q
<1>1. r.name \in Users \cup {NoName} /\ r.color \in Colors BY MarkFacts
<1>2. /\ m \in Marks /\ Flat(m) /\ m.name = r.name /\ m.color = r.color
      /\ Row(m) = l /\ From(m) = p /\ To(m) = q
  BY <1>1, StripFacts
<1>3. Within(L, m) BY StripWithin
<1>4. Tied(C, m) BY <1>2 DEF Tied
<1> QED BY <1>2, <1>3, <1>4 DEF Fits

\* The ends of a range of a text
LEMMA EndsInLines ==
    ASSUME NEW L, NEW r \in Marks, Flat(r), Within(L, r)
    PROVE  InLines(L, Cursor(Row(r), From(r))) /\ InLines(L, Cursor(Row(r), To(r)))
  BY FlatIsStrip DEF Within

\* A range is extended over a part of a line at one of its ends.
LEMMA ExtendPaints ==
    ASSUME NEW L, NEW R, NEW C, Sound(L, R, C), NEW l, NEW lo, NEW hi, Gap(L, l, lo, hi),
           Open(R, l, lo, hi), NEW i \in 1 .. Len(R), NEW r, r = R[i], ~isEmpty(r), Row(r) = l,
           NEW p \in Nat, NEW q \in Nat,
           \/ From(r) = hi /\ p = lo /\ q = To(r)
           \/ To(r) = lo /\ p = From(r) /\ q = hi,
           NEW m, m = Strip(l, p, q, r.name, r.color), NEW T, IsSet(R, T, i, m), NEW u,
           FewUsers /\ HuesApart(C) => u \in DOMAIN C /\ C[u] = r.color
    PROVE  Painted(L, R, C, T, C, l, lo, hi, u)
<1>1. /\ R \in Seq(Marks) /\ r \in Marks /\ Flat(r) /\ Within(L, r) /\ Tied(C, r) /\ Apart(R)
      /\ \A j \in 1 .. Len(R) : R[j] \in Marks /\ Flat(R[j])
  BY SoundFacts
<1>2. l \in Nat /\ lo \in Nat /\ hi \in Nat /\ lo <= hi BY DEF Gap
<1>3. From(r) \in Nat /\ To(r) \in Nat /\ From(r) < To(r) BY <1>1, FlatFacts
<1>4. p < q /\ p <= From(r) /\ To(r) <= q BY <1>2, <1>3
<1>5. InLines(L, Cursor(l, p)) /\ InLines(L, Cursor(l, q))
  BY <1>1, EndsInLines DEF Gap
<1>6. /\ Fits(L, C, m) /\ m \in Marks /\ Flat(m) /\ m.color = r.color
      /\ Row(m) = l /\ From(m) = p /\ To(m) = q
  BY <1>1, <1>2, <1>4, <1>5, PartFits
<1>7. ~isEmpty(m) BY <1>4, <1>6, FlatFacts
<1>8. ASSUME NEW j \in 1 .. Len(R), j # i PROVE Clear(R[j], m)
  <2>1. PICK s : s = R[j] /\ s \in Marks /\ Flat(s) BY <1>1
  <2>2. /\ From(s) \in Nat /\ To(s) \in Nat /\ From(s) <= To(s)
        /\ isEmpty(s) <=> From(s) = To(s)
    BY <2>1, FlatFacts
  <2>3. CASE isEmpty(s) BY <2>1, <2>3 DEF Clear
  <2>4. CASE Row(s) # l BY <1>6, <2>1, <2>4, FlatClear
  <2>5. CASE ~isEmpty(s) /\ Row(s) = l
    <3>1. Clear(s, r) /\ Stands(R, s) /\ Stands(R, r)
      BY <1>1, <1>8, <2>1, <2>5 DEF Apart, Stands
    <3>2. To(s) <= From(r) \/ To(r) <= From(s)
      BY <1>1, <1>3, <2>1, <2>2, <2>5, <3>1, FlatClear
    <3>3. s # r BY <1>3, <2>2, <3>2
    <3>4. \/ To(s) <= lo
          \/ hi <= From(s)
          \/ To(r) < lo \/ hi < From(r)
      BY <2>5, <3>1, <3>3 DEF Open
    <3>5. To(s) <= p \/ q <= From(s) BY <1>2, <1>3, <2>2, <2>5, <3>2, <3>4
    <3> QED BY <1>6, <2>1, <3>5, FlatClear
  <2> QED BY <2>3, <2>4, <2>5
<1>9. Sound(L, T, C) BY <1>6, <1>8, SoundSet
<1>10. ASSUME NEW s PROVE Stands(T, s) <=> (Stands(R, s) /\ s # r) \/ s = m
  BY <1>7, StandsSet
<1>11. ASSUME NEW x \in Spots PROVE Covers(m, x) <=> Covers(r, x) \/ InGap(x, l, lo, hi)
  <2>1. PICK k \in Nat : k = x.column BY Orders
  <2>2. Covers(m, x) <=> x.line = l /\ p <= k /\ k < q BY <1>6, <2>1, FlatFacts
  <2>3. Covers(r, x) <=> x.line = l /\ From(r) <= k /\ k < To(r)
    BY <1>1, <2>1, FlatFacts
  <2>4. InGap(x, l, lo, hi) <=> x.line = l /\ lo <= k /\ k < hi BY <2>1 DEF InGap
  <2> QED BY <1>2, <1>3, <2>2, <2>3, <2>4
<1>12. Stands(R, r) BY DEF Stands
<1>13. KeptBut(R, T, l, lo, hi)
  <2>1. \A s : Stands(T, s) /\ Row(s) # l => Stands(R, s) BY <1>6, <1>10
  <2>2. ASSUME NEW x \in Spots, NEW s, ~InGap(x, l, lo, hi), Stands(R, s), Covers(s, x)
        PROVE  \E t : Stands(T, t) /\ Covers(t, x) /\ t.color = s.color
    <3>1. CASE s = r BY <1>6, <1>10, <1>11, <2>2, <3>1
    <3>2. CASE s # r BY <1>10, <2>2, <3>2
    <3> QED BY <3>1, <3>2
  <2>3. ASSUME NEW x \in Spots, NEW s, ~InGap(x, l, lo, hi), Stands(T, s), Covers(s, x)
        PROVE  \E t : Stands(R, t) /\ Covers(t, x)
    <3>1. CASE s = m BY <1>11, <1>12, <2>3, <3>1
    <3>2. CASE s # m BY <1>10, <2>3, <3>2
    <3> QED BY <3>1, <3>2
  <2> QED BY <2>1, <2>2, <2>3 DEF KeptBut
<1>14. ASSUME FewUsers, HuesApart(C), NEW x \in Spots, InGap(x, l, lo, hi)
       PROVE  \E s : Stands(T, s) /\ Covers(s, x) /\ s.color = C[u]
  BY <1>6, <1>10, <1>11, <1>14
<1> QED BY <1>9, <1>13, <1>14 DEF Painted

\* A range over a part of a line is cut out of it.
LEMMA CutOpens ==
    ASSUME NEW L, NEW R, NEW C, Sound(L, R, C), NEW l, NEW lo, NEW hi, Gap(L, l, lo, hi),
           Open(R, l, lo, hi), NEW i \in 1 .. Len(R), NEW r, r = R[i], ~isEmpty(r), Row(r) = l,
           From(r) <= lo, hi <= To(r),
           NEW m, m = Strip(l, hi, To(r), r.name, r.color), NEW S, IsSet(R, S, i, m),
           NEW n, n = Strip(l, From(r), lo, r.name, r.color), NEW T, T = Append(S, n)
    PROVE  Sound(L, T, C) /\ Vacant(T, l, lo, hi) /\ KeptBut(R, T, l, lo, hi)
<1>1. /\ R \in Seq(Marks) /\ r \in Marks /\ Flat(r) /\ Within(L, r) /\ Tied(C, r) /\ Apart(R)
      /\ Palette(C) /\ \A j \in 1 .. Len(R) : R[j] \in Marks /\ Flat(R[j])
  BY SoundFacts
<1>2. l \in Nat /\ lo \in Nat /\ hi \in Nat /\ lo <= hi BY DEF Gap
<1>3. From(r) \in Nat /\ To(r) \in Nat /\ From(r) < To(r) BY <1>1, FlatFacts
<1>4. /\ InLines(L, Cursor(l, From(r))) /\ InLines(L, Cursor(l, To(r)))
      /\ InLines(L, Cursor(l, lo)) /\ InLines(L, Cursor(l, hi))
  BY <1>1, EndsInLines DEF Gap
<1>5. /\ Fits(L, C, m) /\ m \in Marks /\ Flat(m) /\ m.color = r.color
      /\ Row(m) = l /\ From(m) = hi /\ To(m) = To(r)
  BY <1>1, <1>2, <1>3, <1>4, PartFits
<1>6. /\ Fits(L, C, n) /\ n \in Marks /\ Flat(n) /\ n.color = r.color
      /\ Row(n) = l /\ From(n) = From(r) /\ To(n) = lo
  BY <1>1, <1>2, <1>3, <1>4, PartFits
<1>7. ASSUME NEW j \in 1 .. Len(R), j # i PROVE Clear(R[j], m) /\ Clear(R[j], n)
  <2>1. PICK s : s = R[j] /\ s \in Marks /\ Flat(s) /\ Clear(s, r)
    BY <1>1, <1>7 DEF Apart
  <2>2. /\ From(s) \in Nat /\ To(s) \in Nat /\ From(s) <= To(s) BY <2>1, FlatFacts
  <2>3. From(s) = To(s) \/ Row(s) # l \/ To(s) <= From(r) \/ To(r) <= From(s)
    BY <1>1, <1>3, <2>1, <2>2, FlatClear
  <2>4. Clear(s, m)
    <3>1. From(s) = To(s) \/ Row(s) # l \/ To(s) <= hi \/ To(r) <= From(s)
      BY <1>2, <1>3, <2>2, <2>3
    <3> QED BY <1>5, <2>1, <3>1, FlatClear
  <2>5. Clear(s, n)
    <3>1. From(s) = To(s) \/ Row(s) # l \/ To(s) <= From(r) \/ lo <= From(s)
      BY <1>2, <1>3, <2>2, <2>3
    <3> QED BY <1>6, <2>1, <3>1, FlatClear
  <2> QED BY <2>1, <2>4, <2>5
<1>8. Sound(L, S, C) BY <1>5, <1>7, SoundSet
<1>9. S \in Seq(Marks) /\ Len(S) = Len(R) /\ S[i] = m /\ \A j \in 1 .. Len(R) : j # i => S[j] = R[j]
  BY DEF IsSet
<1>10. ASSUME NEW j \in 1 .. Len(S) PROVE Clear(S[j], n)
  <2>1. CASE j = i
    <3>1. Clear(m, n) BY <1>2, <1>5, <1>6, FlatClear
    <3> QED BY <1>9, <2>1, <3>1
  <2>2. CASE j # i BY <1>7, <1>9, <2>2
  <2> QED BY <2>1, <2>2
<1>11. Sound(L, T, C) BY <1>1, <1>6, <1>8, <1>10, SoundAppend
<1>12. ASSUME NEW s
       PROVE  Stands(T, s) <=> \/ Stands(R, s) /\ s # r
                               \/ s = m /\ ~isEmpty(m)
                               \/ s = n /\ ~isEmpty(n)
  <2>1. Stands(S, s) <=> (Stands(R, s) /\ s # r) \/ (s = m /\ ~isEmpty(m))
    BY StandsSet
  <2>2. Stands(T, s) <=> Stands(S, s) \/ (s = n /\ ~isEmpty(n))
    <3>1. S \in Seq(Marks) /\ n \in Marks /\ T = Append(S, n) BY <1>6, <1>9
    <3> QED BY <3>1, StandsAppend, ZenonT(30)
  <2>3. Stands(T, s) => \/ Stands(R, s) /\ s # r
                        \/ s = m /\ ~isEmpty(m)
                        \/ s = n /\ ~isEmpty(n)
    BY <2>1, <2>2
  <2> QED BY <2>1, <2>2, <2>3
<1>13. Stands(R, r) BY DEF Stands
<1>14. Vacant(T, l, lo, hi)
  <2>1. ASSUME NEW s, Stands(T, s), Row(s) = l PROVE To(s) <= lo \/ hi <= From(s)
    <3>1. CASE s = m BY <1>2, <1>5, <3>1
    <3>2. CASE s = n BY <1>2, <1>6, <3>2
    <3>3. CASE Stands(R, s) /\ s # r
      <4>1. \/ To(s) <= lo
            \/ hi <= From(s)
            \/ To(r) < lo \/ hi < From(r)
        BY <1>13, <2>1, <3>3 DEF Open
      <4> QED BY <1>2, <1>3, <4>1
    <3> QED BY <1>12, <2>1, <3>1, <3>2, <3>3
  <2> QED BY <2>1 DEF Vacant
<1>15. ASSUME NEW x \in Spots
       PROVE  /\ Covers(m, x) => Covers(r, x)
              /\ Covers(n, x) => Covers(r, x)
              /\ Covers(r, x) /\ ~InGap(x, l, lo, hi) => Covers(m, x) \/ Covers(n, x)
              /\ Covers(m, x) => ~isEmpty(m)
              /\ Covers(n, x) => ~isEmpty(n)
  <2>1. PICK k \in Nat : k = x.column BY Orders
  <2>2. Covers(m, x) <=> x.line = l /\ hi <= k /\ k < To(r) BY <1>5, <2>1, FlatFacts
  <2>3. Covers(n, x) <=> x.line = l /\ From(r) <= k /\ k < lo
    BY <1>6, <2>1, FlatFacts
  <2>4. Covers(r, x) <=> x.line = l /\ From(r) <= k /\ k < To(r)
    BY <1>1, <2>1, FlatFacts
  <2>5. InGap(x, l, lo, hi) <=> x.line = l /\ lo <= k /\ k < hi BY <2>1 DEF InGap
  <2>6. isEmpty(m) <=> hi = To(r) BY <1>5, FlatFacts
  <2>7. isEmpty(n) <=> From(r) = lo BY <1>6, FlatFacts
  <2> QED BY <1>2, <1>3, <2>2, <2>3, <2>4, <2>5, <2>6, <2>7
<1>16. KeptBut(R, T, l, lo, hi)
  <2>1. \A s : Stands(T, s) /\ Row(s) # l => Stands(R, s) BY <1>5, <1>6, <1>12
  <2>2. ASSUME NEW x \in Spots, NEW s, ~InGap(x, l, lo, hi), Stands(R, s), Covers(s, x)
        PROVE  \E t : Stands(T, t) /\ Covers(t, x) /\ t.color = s.color
    <3>1. CASE s = r BY <1>5, <1>6, <1>12, <1>15, <2>2, <3>1
    <3>2. CASE s # r BY <1>12, <2>2, <3>2
    <3> QED BY <3>1, <3>2
  <2>3. ASSUME NEW x \in Spots, NEW s, ~InGap(x, l, lo, hi), Stands(T, s), Covers(s, x)
        PROVE  \E t : Stands(R, t) /\ Covers(t, x)
    <3>1. CASE s = m \/ s = n BY <1>13, <1>15, <2>3, <3>1
    <3>2. CASE ~(s = m \/ s = n) BY <1>12, <2>3, <3>2
    <3> QED BY <3>1, <3>2
  <2> QED BY <2>1, <2>2, <2>3 DEF KeptBut
<1> QED BY <1>11, <1>14, <1>16

\* Where no range that was found is over a part of a line, none is.
LEMMA OthersAreBeside ==
    ASSUME NEW R, NEW l \in Nat, NEW lo \in Nat, NEW hi \in Nat, lo <= hi, Open(R, l, lo, hi),
           NEW g, g = Range2(Cursor(l, lo), Cursor(l, hi)),
           \A r : Stands(R, r) => r \in Marks /\ Flat(r),
           \/ \A r : Stands(R, r) => ~Touch(r, g)
           \/ \E r : Stands(R, r) /\ Touch(r, g) /\ ~contains(r, g)
    PROVE  Vacant(R, l, lo, hi)
<1>1. ASSUME NEW s, Stands(R, s), Row(s) = l, ~(To(s) <= lo), ~(hi <= From(s)) PROVE FALSE
  <2>1. /\ From(s) <= lo /\ hi <= To(s)
        /\ \A r : Stands(R, r) /\ Row(r) = l /\ r # s => To(r) < lo \/ hi < From(r)
    BY <1>1 DEF Open
  <2>2. s \in Marks /\ Flat(s) BY <1>1
  <2>3. From(s) \in Nat /\ To(s) \in Nat BY <2>2, FlatFacts
  <2>4. Touch(s, g) /\ contains(s, g)
    <3>1. From(s) <= hi /\ lo <= To(s) BY <2>1, <2>3
    <3> QED BY <1>1, <2>1, <2>2, <3>1, FlatMeets
  <2>5. PICK r : Stands(R, r) /\ Touch(r, g) /\ ~contains(r, g) BY <1>1, <2>4
  <2>6. r \in Marks /\ Flat(r) /\ r # s BY <2>4, <2>5
  <2>7. Row(r) = l /\ From(r) <= hi /\ lo <= To(r) /\ From(r) \in Nat /\ To(r) \in Nat
    <3>1. Row(r) = l /\ From(r) <= hi /\ lo <= To(r) BY <2>5, <2>6, FlatMeets
    <3> QED BY <2>6, <3>1, FlatFacts
  <2>8. To(r) < lo \/ hi < From(r) BY <2>1, <2>5, <2>6, <2>7
  <2> QED BY <2>7, <2>8
<1> QED BY <1>1 DEF Vacant

\* A range split around a change, and the change
LEMMA SplitIs ==
    ASSUME NEW L, NEW R \in Seq(Marks), NEW C, NEW i \in 1 .. Len(R), NEW r, r = R[i], Flat(r),
           NEW l \in Nat, Row(r) = l, NEW lo \in Nat, NEW hi \in Nat,
           From(r) <= lo, hi <= To(r),
           NEW g, g = Range2(Cursor(l, lo), Cursor(l, hi)),
           NEW m, m = Strip(l, hi, To(r), r.name, r.color),
           NEW n, n = Strip(l, From(r), lo, r.name, r.color)
    PROVE  \E S : /\ IsSet(R, S, i, m)
                  /\ Renamed(splitRangeForInsertion(DocOf(L, R, C), i, g), r.name)
                         = DocOf(L, Append(S, n), C)
<1>1. r \in Marks BY RangeTypes
<1>2. /\ r.name \in Users \cup {NoName} /\ r.color \in Colors
      /\ From(r) \in Nat /\ To(r) \in Nat
      /\ r.start = Cursor(l, From(r)) /\ r.end = Cursor(l, To(r))
  BY <1>1, MarkFacts, FlatFacts, FlatIsStrip
<1>3. g.start = Cursor(l, lo) /\ g.end = Cursor(l, hi) BY DEF Range2
<1>4. PICK d : d = DocOf(L, R, C) /\ d.ranges = R BY DocFacts
<1>5. PICK x \in Spots, y \in Spots : x = g.end /\ y = r.end BY <1>2, <1>3, Orders
<1>6. m = Mark(x, y, r.name, r.color) BY <1>2, <1>3, <1>5 DEF Strip
<1>7. PICK S : setRange(d, i, x, y) = DocOf(L, S, C) /\ IsSet(R, S, i, m)
  <2>1. BecomesRange(L, R, C, i, x, y, m) BY <1>6, RangeIsSet
  <2> QED BY <1>4, <2>1 DEF BecomesRange
<1>8. PICK a \in Spots, b \in Spots : a = r.start /\ b = g.start
  BY <1>2, <1>3, Orders
<1>9. PICK k : k = Mark(a, b, NoName, r.color) OBVIOUS
<1>10. splitRangeForInsertion(d, i, g) = DocOf(L, Append(S, k), C)
  <2>1. splitRangeForInsertion(d, i, g)
            = addHighlightedRange(setRange(d, i, x, y), NoName, Range2(a, b), r.color)
    BY <1>4, <1>5, <1>8 DEF splitRangeForInsertion
  <2>2. addHighlightedRange(DocOf(L, S, C), NoName, Range2(a, b), r.color)
            = DocOf(L, Append(S, k), Registered(C, NoName, r.color))
    BY <1>9, RangeIsAdded
  <2>3. Registered(C, NoName, r.color) = C BY DEF Registered
  <2> QED BY <1>7, <2>1, <2>2, <2>3
<1>11. S \in Seq(Marks) /\ k \in Marks /\ n \in Marks
  <2>1. k \in Marks BY <1>2, <1>9, MarkFacts
  <2>2. n = Mark(a, b, r.name, r.color) BY <1>2, <1>3, <1>8 DEF Strip
  <2>3. n \in Marks
    <3>1. PICK name \in Users \cup {NoName}, col \in Colors : name = r.name /\ col = r.color
      BY <1>2
    <3>2. Mark(a, b, name, col) \in Marks BY MarkFacts
    <3> QED BY <2>2, <3>1, <3>2
  <2> QED BY <1>7, <2>1, <2>3 DEF IsSet
<1>12. PICK h \in Nat : h = Len(S) BY <1>11, RangeTypes
<1>13. PICK Q : Q = Append(S, k) OBVIOUS
<1>14. Q \in Seq(Marks) /\ Len(Q) = h + 1 /\ Q[h + 1] = k /\ \A j \in 1 .. h : Q[j] = S[j]
  BY <1>11, <1>12, <1>13, Appended
<1>15. PICK o \in 1 .. Len(Q) : o = h + 1 /\ o = Len(Q) BY <1>12, <1>14
<1>16. n = Mark(Q[o].start, Q[o].end, r.name, Q[o].color)
  <2>1. k.start = a /\ k.end = b /\ k.color = r.color BY <1>9, MarkFacts
  <2> QED BY <1>2, <1>3, <1>8, <1>14, <1>15, <2>1 DEF Strip
<1>17. PICK T : Renamed(DocOf(L, Q, C), r.name) = DocOf(L, T, C) /\ IsSet(Q, T, o, n)
  <2>1. PICK name \in Users \cup {NoName} : name = r.name BY <1>2
  <2>2. n = Mark(Q[o].start, Q[o].end, name, Q[o].color) BY <1>16, <2>1
  <2>3. Q \in Seq(Marks) BY <1>14
  <2>4. name \in Users \cup {NoName} /\ o \in 1 .. Len(Q) /\ o = Len(Q)
    BY <1>15, <2>1
  <2>5. PICK e : e = DocOf(L, Q, C) OBVIOUS
  <2>6. \E T : Renamed(e, name) = DocOf(L, T, C) /\ IsSet(Q, T, o, n)
    BY <2>2, <2>3, <2>4, <2>5, RangeIsNamed
  <2> QED BY <2>1, <2>5, <2>6
<1>18. T = Append(S, n)
  <2>1. T \in Seq(Marks) /\ Len(T) = h + 1 /\ T[h + 1] = n
    BY <1>14, <1>15, <1>17 DEF IsSet
  <2>2. ASSUME NEW j \in 1 .. h PROVE T[j] = S[j]
    <3>1. j \in 1 .. h + 1 /\ j # h + 1 BY <1>12
    <3>2. T[j] = Q[j] BY <1>14, <1>15, <1>17, <3>1 DEF IsSet
    <3> QED BY <1>14, <3>2
  <2>3. PICK V : V = Append(S, n) OBVIOUS
  <2>4. V \in Seq(Marks) /\ Len(V) = h + 1 /\ V[h + 1] = n /\ \A j \in 1 .. h : V[j] = S[j]
    BY <1>11, <1>12, <2>3, Appended
  <2>5. \A j \in 1 .. h + 1 : j \in 1 .. h \/ j = h + 1 BY <1>12
  <2>6. \A j \in 1 .. Len(T) : T[j] = V[j] BY <2>1, <2>2, <2>4, <2>5
  <2>7. T = V BY <2>1, <2>4, <2>6, SeqEqual
  <2> QED BY <2>3, <2>7
<1> QED BY <1>4, <1>7, <1>10, <1>13, <1>17, <1>18

\* A change in one line is painted.
LEMMA InLinePaints ==
    ASSUME NEW L, NEW R, NEW C, Sound(L, R, C), \A i \in 1 .. Len(R) : ~isEmpty(R[i]),
           NEW l, NEW lo, NEW hi, Gap(L, l, lo, hi), Open(R, l, lo, hi), NEW u \in Users,
           NEW g, g = Range2(Cursor(l, lo), Cursor(l, hi)),
           NEW d0, cleanupRanges(d0) = DocOf(L, R, C)
    PROVE  \E T, E : /\ ChangedInLine(d0, g, u) = DocOf(L, T, E)
                     /\ Painted(L, R, C, T, E, l, lo, hi, u)
<1>1. /\ IsLines(L) /\ R \in Seq(Marks) /\ Palette(C)
      /\ \A i \in 1 .. Len(R) : R[i] \in Marks /\ Flat(R[i]) /\ Tied(C, R[i])
      /\ \A r : Stands(R, r) => r \in Marks /\ Flat(r)
  BY SoundFacts
<1>2. l \in Nat /\ lo \in Nat /\ hi \in Nat /\ lo <= hi BY DEF Gap
<1>3. PICK d : d = DocOf(L, R, C) /\ d = cleanupRanges(d0) /\ d.ranges = R /\ d.colors = C
  BY DocFacts
<1>4. PICK i : i = rangeAt(d, g) OBVIOUS
<1>5. /\ i \in 0 .. Len(R)
      /\ i # 0 => Touch(R[i], g)
      /\ i = 0 => \A j \in 1 .. Len(R) : ~Touch(R[j], g)
  BY <1>1, <1>3, <1>4, RangeFound
<1>6. PICK r, color : r = R[i] /\ color = colorForUsername(u, C) OBVIOUS
<1>7. PICK added : added = addHighlightedRange(d, u, g, color) OBVIOUS
<1>8. PICK split : split = addHighlightedRange(Renamed(splitRangeForInsertion(d, i, g), r.name),
                                               u, g, color) OBVIOUS
<1>9. ChangedInLine(d0, g, u) =
          CASE (i # 0 /\ r.color = color) /\ contains(r, g) -> d
            [] (i # 0 /\ r.color = color) /\ ~contains(r, g) /\ r.start = g.end ->
                  setRange(d, i, g.start, r.end)
            [] (i # 0 /\ r.color = color) /\ ~contains(r, g) /\ r.start # g.end /\ r.end = g.start ->
                  setRange(d, i, r.start, g.end)
            [] i # 0 /\ ~(i # 0 /\ r.color = color) /\ contains(r, g) -> split
            [] OTHER -> added
  BY <1>3, <1>4, <1>6, <1>7, <1>8 DEF ChangedInLine
<1>10. g.start = Cursor(l, lo) /\ g.end = Cursor(l, hi) BY DEF Range2
<1>11. i # 0 => /\ i \in 1 .. Len(R) /\ r \in Marks /\ Flat(r) /\ ~isEmpty(r) /\ Touch(r, g)
                /\ Stands(R, r) /\ Tied(C, r)
  BY <1>1, <1>5, <1>6 DEF Stands
<1>12. i # 0 => /\ From(r) \in Nat /\ To(r) \in Nat /\ Row(r) = l
                /\ contains(r, g) => From(r) <= lo /\ hi <= To(r)
                /\ r.start = g.end => From(r) = hi
                /\ r.end = g.start => To(r) = lo
                /\ r.start = Cursor(l, From(r)) /\ r.end = Cursor(l, To(r))
  <2>1. SUFFICES ASSUME i # 0
                 PROVE  /\ From(r) \in Nat /\ To(r) \in Nat /\ Row(r) = l
                        /\ contains(r, g) => From(r) <= lo /\ hi <= To(r)
                        /\ r.start = g.end => From(r) = hi
                        /\ r.end = g.start => To(r) = lo
                        /\ r.start = Cursor(l, From(r)) /\ r.end = Cursor(l, To(r))
    OBVIOUS
  <2>2. r \in Marks /\ Flat(r) /\ Touch(r, g) BY <1>11, <2>1
  <2>3. From(r) \in Nat /\ To(r) \in Nat BY <2>2, FlatFacts
  <2>4. /\ Row(r) = l
        /\ contains(r, g) => From(r) <= lo /\ hi <= To(r)
        /\ r.start = g.end => From(r) = hi
        /\ r.end = g.start => To(r) = lo
    <3>1. Row(r) = l BY <1>2, <2>2, FlatMeets
    <3>2. contains(r, g) => From(r) <= lo /\ hi <= To(r) BY <1>2, <2>2, FlatMeets
    <3>3. r.start = g.end => From(r) = hi BY <1>2, <2>2, FlatMeets
    <3>4. r.end = g.start => To(r) = lo BY <1>2, <2>2, FlatMeets
    <3> QED BY <3>1, <3>2, <3>3, <3>4
  <2>5. r.start = Cursor(Row(r), From(r)) /\ r.end = Cursor(Row(r), To(r))
    BY <2>2, FlatIsStrip
  <2> QED BY <2>3, <2>4, <2>5
<1>13. ASSUME i # 0, r.color = color, FewUsers, HuesApart(C) PROVE u \in DOMAIN C /\ C[u] = r.color
  <2>1. /\ u \in DOMAIN C => color = C[u]
        /\ u \notin DOMAIN C => IsFree(C, color.hue)
    BY <1>1, <1>6, <1>13, ColorFacts
  <2>2. PICK v \in DOMAIN C : color = C[v] BY <1>11, <1>13 DEF Tied
  <2>3. color.hue \in 0 .. 359 BY <1>1, <1>6, ColorFacts
  <2>4. u \in DOMAIN C
    <3>1. SUFFICES ASSUME u \notin DOMAIN C PROVE FALSE OBVIOUS
    <3>2. PICK k \in 0 .. 359 : k = color.hue BY <2>3
    <3>3. k \in Int /\ 0 <= k /\ k <= 359 OBVIOUS
    <3>4. -1 <= k BY <3>3
    <3>5. PICK h \in Int : h = color.hue /\ 0 <= h /\ h <= 359 /\ -1 <= h
      BY <3>2, <3>3, <3>4
    <3>6. HueDistance(h, h) > 30 BY <2>1, <2>2, <3>1, <3>5 DEF IsFree
    <3>7. \/ h - h > 30 /\ h - h < 330
          \/ h - h > 30 /\ h - h < 330
      BY <3>5, <3>6, Distance
    <3> QED BY <3>5, <3>7
  <2> QED BY <1>13, <2>1, <2>4
<1>14. CASE i # 0 /\ r.color = color /\ contains(r, g)
  <2>1. ChangedInLine(d0, g, u) = DocOf(L, R, C) BY <1>3, <1>9, <1>14
  <2>2. KeptBut(R, R, l, lo, hi) BY DEF KeptBut
  <2>3. ASSUME FewUsers, HuesApart(C), NEW x \in Spots, InGap(x, l, lo, hi)
        PROVE  \E s : Stands(R, s) /\ Covers(s, x) /\ s.color = C[u]
    <3>1. PICK k \in Nat : k = x.column BY Orders
    <3>2. x.line = l /\ lo <= k /\ k < hi BY <2>3, <3>1 DEF InGap
    <3>3. From(r) <= k /\ k < To(r) BY <1>2, <1>12, <1>14, <3>2
    <3>4. Covers(r, x) BY <1>11, <1>12, <1>14, <3>1, <3>2, <3>3, FlatFacts
    <3> QED BY <1>11, <1>13, <1>14, <2>3, <3>4
  <2>4. \A v \in DOMAIN C : v \in DOMAIN C /\ C[v] = C[v] OBVIOUS
  <2>5. FewUsers /\ HuesApart(C) => HuesApart(C) /\ u \in DOMAIN C BY <1>13, <1>14
  <2>6. Painted(L, R, C, R, C, l, lo, hi, u) BY <2>2, <2>3, <2>4, <2>5 DEF Painted
  <2> QED BY <2>1, <2>6
<1>15. ASSUME i # 0, r.color = color,
              NEW p \in Nat, NEW q \in Nat,
              \/ From(r) = hi /\ p = lo /\ q = To(r)
              \/ To(r) = lo /\ p = From(r) /\ q = hi,
              NEW x, x = Cursor(l, p), NEW y, y = Cursor(l, q)
       PROVE  \E T : /\ setRange(d, i, x, y) = DocOf(L, T, C)
                     /\ Painted(L, R, C, T, C, l, lo, hi, u)
  <2>1. PICK m : m = Strip(l, p, q, r.name, r.color) OBVIOUS
  <2>2. i \in 1 .. Len(R) /\ ~isEmpty(r) /\ Row(r) = l BY <1>11, <1>12, <1>15
  <2>3. x \in Spots /\ y \in Spots BY <1>2, <1>15, Orders
  <2>4. m = Mark(x, y, R[i].name, R[i].color) BY <1>6, <1>15, <2>1 DEF Strip
  <2>5. R \in Seq(Marks) /\ i \in 1 .. Len(R) BY <1>1, <2>2
  <2>6. BecomesRange(L, R, C, i, x, y, m) BY <2>5, <2>3, <2>4, RangeIsSet
  <2>7. PICK T : setRange(DocOf(L, R, C), i, x, y) = DocOf(L, T, C) /\ IsSet(R, T, i, m)
    BY <2>6 DEF BecomesRange
  <2>8. FewUsers /\ HuesApart(C) => u \in DOMAIN C /\ C[u] = r.color BY <1>13, <1>15
  <2>9. Painted(L, R, C, T, C, l, lo, hi, u)
    BY <1>6, <1>15, <2>1, <2>2, <2>7, <2>8, ExtendPaints
  <2> QED BY <1>3, <2>7, <2>9
<1>16. CASE i # 0 /\ r.color = color /\ ~contains(r, g) /\ r.start = g.end
  <2>1. ChangedInLine(d0, g, u) = setRange(d, i, g.start, r.end) BY <1>9, <1>16
  <2>2. \E T : /\ setRange(d, i, g.start, r.end) = DocOf(L, T, C)
               /\ Painted(L, R, C, T, C, l, lo, hi, u)
    BY <1>2, <1>10, <1>12, <1>15, <1>16
  <2> QED BY <2>1, <2>2
<1>17. CASE i # 0 /\ r.color = color /\ ~contains(r, g) /\ r.start # g.end /\ r.end = g.start
  <2>1. ChangedInLine(d0, g, u) = setRange(d, i, r.start, g.end) BY <1>9, <1>17
  <2>2. \E T : /\ setRange(d, i, r.start, g.end) = DocOf(L, T, C)
               /\ Painted(L, R, C, T, C, l, lo, hi, u)
    BY <1>2, <1>10, <1>12, <1>15, <1>17
  <2> QED BY <2>1, <2>2
<1>18. CASE i # 0 /\ r.color # color /\ contains(r, g)
  <2>1. ChangedInLine(d0, g, u) = split BY <1>9, <1>18
  <2>2. PICK m, n : /\ m = Strip(l, hi, To(r), r.name, r.color)
                    /\ n = Strip(l, From(r), lo, r.name, r.color) OBVIOUS
  <2>3. i \in 1 .. Len(R) /\ ~isEmpty(r) /\ Row(r) = l /\ Flat(r) /\ From(r) <= lo /\ hi <= To(r)
    BY <1>11, <1>12, <1>18
  <2>4. PICK S : /\ IsSet(R, S, i, m)
                 /\ Renamed(splitRangeForInsertion(DocOf(L, R, C), i, g), r.name)
                        = DocOf(L, Append(S, n), C)
    BY <1>1, <1>2, <1>6, <2>2, <2>3, SplitIs
  <2>5. PICK Q : Q = Append(S, n) OBVIOUS
  <2>6. Sound(L, Q, C) /\ Vacant(Q, l, lo, hi) /\ KeptBut(R, Q, l, lo, hi)
    BY <1>6, <2>2, <2>3, <2>4, <2>5, CutOpens
  <2>7. PICK T, E : /\ T = Append(Q, Strip(l, lo, hi, u, color))
                    /\ E = Registered(C, u, color) OBVIOUS
  <2>8. Painted(L, Q, C, T, E, l, lo, hi, u) BY <1>6, <2>6, <2>7, AddPaints
  <2>9. Painted(L, R, C, T, E, l, lo, hi, u)
    <3>1. KeptBut(R, T, l, lo, hi) BY <2>6, <2>8, KeptTwice DEF Painted
    <3> QED BY <2>8, <3>1 DEF Painted
  <2>10. split = DocOf(L, T, E)
    <3>1. split = addHighlightedRange(DocOf(L, Q, C), u, Range2(Cursor(l, lo), Cursor(l, hi)), color)
      BY <1>3, <1>8, <2>4, <2>5
    <3>2. addHighlightedRange(DocOf(L, Q, C), u, Range2(Cursor(l, lo), Cursor(l, hi)), color)
              = DocOf(L, Append(Q, Mark(Cursor(l, lo), Cursor(l, hi), u, color)),
                      Registered(C, u, color))
      BY RangeIsAdded
    <3> QED BY <2>7, <3>1, <3>2 DEF Strip
  <2> QED BY <2>1, <2>9, <2>10
<1>19. CASE \/ i = 0
            \/ i # 0 /\ ~contains(r, g) /\ (r.color = color => r.start # g.end /\ r.end # g.start)
  <2>1. ChangedInLine(d0, g, u) = added BY <1>9, <1>19
  <2>2. \/ \A s : Stands(R, s) => ~Touch(s, g)
        \/ \E s : Stands(R, s) /\ Touch(s, g) /\ ~contains(s, g)
    BY <1>5, <1>11, <1>19 DEF Stands
  <2>3. Vacant(R, l, lo, hi) BY <1>1, <1>2, <2>2, OthersAreBeside
  <2>4. PICK T, E : /\ T = Append(R, Strip(l, lo, hi, u, color))
                    /\ E = Registered(C, u, color) OBVIOUS
  <2>5. Painted(L, R, C, T, E, l, lo, hi, u) BY <1>6, <2>3, <2>4, AddPaints
  <2>6. added = DocOf(L, T, E)
    <3>1. added = addHighlightedRange(DocOf(L, R, C), u, Range2(Cursor(l, lo), Cursor(l, hi)), color)
      BY <1>3, <1>7
    <3>2. addHighlightedRange(DocOf(L, R, C), u, Range2(Cursor(l, lo), Cursor(l, hi)), color)
              = DocOf(L, Append(R, Mark(Cursor(l, lo), Cursor(l, hi), u, color)),
                      Registered(C, u, color))
      BY RangeIsAdded
    <3> QED BY <2>4, <3>1, <3>2 DEF Strip
  <2> QED BY <2>1, <2>5, <2>6
<1> QED BY <1>14, <1>16, <1>17, <1>18, <1>19

\* What is between two cursors of a text was written by one user.
Written(L, c, a, u) ==
    /\ InLines(L, c) /\ InLines(L, a) /\ BeforeOrAt(c, a) /\ Filled(L, c, a, u) /\ u \in Users

\* Its part in a line
Lo(c, l)    == IF l = c.line THEN c.column ELSE 0
Hi(L, a, l) == IF l = a.line THEN a.column ELSE Len(L[l + 1])

\* The ranges when it was coloured up to a line
Pend(L, R, C, c, a, n, u) ==
    /\ Sound(L, R, C)
    /\ \A l \in Nat : n <= l /\ l <= a.line => Open(R, l, Lo(c, l), Hi(L, a, l))
    /\ FewUsers =>
          /\ HuesApart(C)
          /\ \A x : IsUnit(L, x) /\ (Before(x, c) \/ BeforeOrAt(a, x) \/ x.line < n) =>
                 Right(L, R, C, x)

\* The part of a line is one of its units, or none.
LEMMA GapFacts ==
    ASSUME NEW L, IsLines(L), NEW c, NEW a, NEW u, Written(L, c, a, u),
           NEW n \in Nat, c.line <= n, n <= a.line, NEW lo, lo = Lo(c, n), NEW hi, hi = Hi(L, a, n)
    PROVE  /\ Gap(L, n, lo, hi) /\ lo \in Nat /\ hi \in Nat
           /\ \A x \in Spots : InGap(x, n, lo, hi) => BeforeOrAt(c, x) /\ Before(x, a)
           /\ \A x : IsUnit(L, x) /\ x.line = n /\ ~InGap(x, n, lo, hi) =>
                         Before(x, c) \/ BeforeOrAt(a, x)
<1>1. /\ c \in Spots /\ a \in Spots /\ BeforeOrAt(c, a) /\ Len(L) \in Nat
      /\ c.line \in 0 .. Len(L) - 1 /\ c.column \in 0 .. Len(L[c.line + 1])
      /\ a.line \in 0 .. Len(L) - 1 /\ a.column \in 0 .. Len(L[a.line + 1])
  BY InLinesSpot, LineFacts DEF Written
<1>2. PICK w \in Nat : w = Len(L[n + 1])
  <2>1. n \in 0 .. Len(L) - 1 BY <1>1
  <2> QED BY <2>1, LineFacts
<1>3. PICK p, q, k, m \in Nat : p = c.line /\ q = c.column /\ k = a.line /\ m = a.column
  BY <1>1, Orders
<1>4. /\ p <= n
      /\ n <= k
      /\ p = k => q <= m
      /\ n = p => q <= w
      /\ n = k => m <= w
      /\ lo = IF n = p THEN q ELSE 0
      /\ hi = IF n = k THEN m ELSE w
  <2>1. p = k => q <= m
    <3>1. p < k \/ (p = k /\ q <= m) BY <1>1, <1>3, Orders
    <3> QED BY <3>1
  <2>2. n = p => q <= w BY <1>1, <1>2, <1>3
  <2>3. n = k => m <= w BY <1>1, <1>2, <1>3
  <2>4. lo = IF n = p THEN q ELSE 0 BY <1>3 DEF Lo
  <2>5. hi = IF n = k THEN m ELSE w BY <1>2, <1>3 DEF Hi
  <2> QED BY <1>3, <2>1, <2>2, <2>3, <2>4, <2>5
<1>5. lo \in Nat /\ hi \in Nat /\ lo <= hi /\ lo <= w /\ hi <= w BY <1>4
<1>6. \A j \in Nat : j <= w => InLines(L, Cursor(n, j))
  <2>1. n \in 0 .. Len(L) - 1 BY <1>1
  <2>2. SUFFICES ASSUME NEW j \in Nat, j <= w PROVE InLines(L, Cursor(n, j)) OBVIOUS
  <2>3. PICK x \in Spots : x = Cursor(n, j) /\ x.line = n /\ x.column = j BY Orders
  <2>4. x.line \in 0 .. Len(L) - 1 /\ x.column \in 0 .. Len(L[x.line + 1])
    BY <1>2, <2>1, <2>2, <2>3
  <2> QED BY <2>3, <2>4, InLinesSpot
<1>7. Gap(L, n, lo, hi) BY <1>5, <1>6 DEF Gap
<1>8. ASSUME NEW x \in Spots, InGap(x, n, lo, hi) PROVE BeforeOrAt(c, x) /\ Before(x, a)
  <2>1. PICK j \in Nat : j = x.column /\ x.line = n /\ lo <= j /\ j < hi
    BY <1>8, Orders DEF InGap
  <2>2. p < n \/ (p = n /\ q <= j) BY <1>4, <2>1
  <2>3. n < k \/ (n = k /\ j < m) BY <1>4, <2>1
  <2>4. BeforeOrAt(c, x) BY <1>1, <1>3, <2>1, <2>2, Orders
  <2>5. Before(x, a) BY <1>3, <2>1, <2>3 DEF Before
  <2> QED BY <2>4, <2>5
<1>9. ASSUME NEW x, IsUnit(L, x), x.line = n, ~InGap(x, n, lo, hi)
      PROVE  Before(x, c) \/ BeforeOrAt(a, x)
  <2>1. x \in Spots /\ x.column < w BY <1>2, <1>9, InLinesSpot DEF IsUnit
  <2>2. PICK j \in Nat : j = x.column /\ x.line = n /\ j < w BY <1>9, <2>1, Orders
  <2>3. j < lo \/ hi <= j BY <1>5, <1>9, <2>2 DEF InGap
  <2>4. CASE j < lo
    <3>1. n = p /\ j < q BY <1>4, <2>2, <2>4
    <3> QED BY <1>3, <2>2, <3>1 DEF Before
  <2>5. CASE hi <= j
    <3>1. n = k /\ m <= j BY <1>4, <2>2, <2>5
    <3> QED BY <1>1, <1>3, <2>1, <2>2, <3>1, Orders
  <2> QED BY <2>3, <2>4, <2>5
<1> QED BY <1>5, <1>7, <1>8, <1>9

\* Ranges that were cleaned up are as open.
LEMMA CleanPend ==
    ASSUME NEW L, NEW R, NEW C, NEW c, NEW a, NEW n, NEW u, Pend(L, R, C, c, a, n, u),
           NEW T, CleanTo(R, T, Len(R))
    PROVE  Pend(L, T, C, c, a, n, u)
<1>1. Grounded(L, R, C) /\ Apart(R) /\ \A i \in 1 .. Len(R) : Flat(R[i])
  BY DEF Pend, Sound
<1>2. Grounded(L, T, C) /\ Apart(T) BY <1>1, CleanGrounded
<1>3. \A j \in 1 .. Len(T) : Flat(T[j]) BY <1>1, CleanGrounded
<1>4. \A x : IsUnit(L, x) /\ Right(L, R, C, x) => Right(L, T, C, x)
  BY <1>1, CleanGrounded
<1>5. \A r : Stands(T, r) <=> Stands(R, r) BY CleanStands
<1>6. \A l, lo, hi : Open(R, l, lo, hi) => Open(T, l, lo, hi) BY <1>5 DEF Open
<1>7. Sound(L, T, C) BY <1>2, <1>3 DEF Sound
<1> QED BY <1>4, <1>6, <1>7 DEF Pend

\* A line is coloured.
LEMMA LinePends ==
    ASSUME NEW L, NEW R, NEW C, NEW c, NEW a, NEW u, Written(L, c, a, u),
           NEW n \in Nat, c.line <= n, n <= a.line, Pend(L, R, C, c, a, n, u),
           NEW g, g = Range2(Cursor(n, Lo(c, n)), Cursor(n, Hi(L, a, n))),
           NEW d, d = DocOf(L, R, C)
    PROVE  \E T, E : ChangedInLine(d, g, u) = DocOf(L, T, E) /\ Pend(L, T, E, c, a, n + 1, u)
<1>1. IsLines(L) /\ R \in Seq(Marks) BY DEF Pend, Sound, Grounded
<1>2. PICK S : cleanupRanges(d) = DocOf(L, S, C) /\ CleanTo(R, S, Len(R))
  BY <1>1, CleanedUp
<1>3. Pend(L, S, C, c, a, n, u) BY <1>2, CleanPend
<1>4. PICK lo, hi : lo = Lo(c, n) /\ hi = Hi(L, a, n) OBVIOUS
<1>5. /\ Gap(L, n, lo, hi)
      /\ \A x \in Spots : InGap(x, n, lo, hi) => BeforeOrAt(c, x) /\ Before(x, a)
      /\ \A x : IsUnit(L, x) /\ x.line = n /\ ~InGap(x, n, lo, hi) =>
                    Before(x, c) \/ BeforeOrAt(a, x)
  BY <1>1, <1>4, GapFacts
<1>6. Sound(L, S, C) /\ Open(S, n, lo, hi) /\ \A i \in 1 .. Len(S) : ~isEmpty(S[i])
  <2>1. a.line \in Nat BY InLinesSpot, Orders DEF Written
  <2>2. n <= n OBVIOUS
  <2> QED BY <1>2, <1>3, <1>4, <2>1, <2>2 DEF Pend, CleanTo
<1>7. PICK T, E : ChangedInLine(d, g, u) = DocOf(L, T, E) /\ Painted(L, S, C, T, E, n, lo, hi, u)
  <2>1. u \in Users /\ g = Range2(Cursor(n, lo), Cursor(n, hi)) BY <1>4 DEF Written
  <2>2. \E T, E : ChangedInLine(d, g, u) = DocOf(L, T, E) /\ Painted(L, S, C, T, E, n, lo, hi, u)
    BY <1>2, <1>5, <1>6, <2>1, InLinePaints
  <2> QED BY <2>2
<1>8. Sound(L, T, E) /\ KeptBut(S, T, n, lo, hi) /\ \A v \in DOMAIN C : v \in DOMAIN E /\ E[v] = C[v]
  BY <1>7 DEF Painted
<1>9. ASSUME NEW l \in Nat, n + 1 <= l, l <= a.line PROVE Open(T, l, Lo(c, l), Hi(L, a, l))
  <2>1. l # n /\ n <= l BY <1>9
  <2>2. Open(S, l, Lo(c, l), Hi(L, a, l)) BY <1>3, <1>9, <2>1 DEF Pend
  <2>3. \A r : Stands(T, r) /\ Row(r) = l => Stands(S, r) BY <1>8, <2>1 DEF KeptBut
  <2> QED BY <2>2, <2>3 DEF Open
<1>10. ASSUME FewUsers
       PROVE  /\ HuesApart(E)
              /\ \A x : IsUnit(L, x) /\ (Before(x, c) \/ BeforeOrAt(a, x) \/ x.line < n + 1) =>
                     Right(L, T, E, x)
  <2>1. HuesApart(C) BY <1>3, <1>10 DEF Pend
  <2>2. /\ HuesApart(E) /\ u \in DOMAIN E
        /\ \A x \in Spots : InGap(x, n, lo, hi) =>
               \E s : Stands(T, s) /\ Covers(s, x) /\ s.color = E[u]
    BY <1>7, <1>10, <2>1 DEF Painted
  <2>3. ASSUME NEW x, IsUnit(L, x), Before(x, c) \/ BeforeOrAt(a, x) \/ x.line < n + 1
        PROVE  Right(L, T, E, x)
    <3>1. x \in Spots /\ x.line \in Nat BY <2>3, InLinesSpot, Orders DEF IsUnit
    <3>2. CASE InGap(x, n, lo, hi)
      <4>1. BeforeOrAt(c, x) /\ Before(x, a) BY <1>5, <3>1, <3>2
      <4>2. By(L, x) = u /\ u # Nobody
        BY <2>3, <4>1, EditedTextAssumption DEF Written, Filled
      <4>3. PICK s : Stands(T, s) /\ Covers(s, x) /\ s.color = E[u]
        BY <2>2, <3>1, <3>2
      <4> QED BY <2>2, <4>2, <4>3 DEF Right, Stands
    <3>3. CASE ~InGap(x, n, lo, hi)
      <4>1. Before(x, c) \/ BeforeOrAt(a, x) \/ x.line < n
        <5>1. x.line < n + 1 => x.line < n \/ x.line = n BY <3>1
        <5> QED BY <1>5, <2>3, <3>3, <5>1
      <4>2. Right(L, S, C, x) BY <1>3, <1>10, <2>3, <4>1 DEF Pend
      <4>3. \A r : Stands(S, r) /\ Covers(r, x) =>
                      \E s : Stands(T, s) /\ Covers(s, x) /\ s.color = r.color
        BY <1>8, <3>1, <3>3 DEF KeptBut
      <4>4. \A s : Stands(T, s) /\ Covers(s, x) => \E r : Stands(S, r) /\ Covers(r, x)
        BY <1>8, <3>1, <3>3 DEF KeptBut
      <4>5. Grounded(L, S, C) /\ Grounded(L, T, E) BY <1>6, <1>8 DEF Sound
      <4> QED BY <1>8, <2>3, <4>2, <4>3, <4>4, <4>5, RightAs
    <3> QED BY <3>2, <3>3
  <2> QED BY <2>2, <2>3
<1>11. Pend(L, T, E, c, a, n + 1, u) BY <1>8, <1>9, <1>10 DEF Pend
<1> QED BY <1>7, <1>11

\* A line without units needs no colour.
LEMMA EmptyPends ==
    ASSUME NEW L, NEW R, NEW C, NEW c, NEW a, NEW u, NEW n \in Nat, Len(L[n + 1]) = 0,
           Pend(L, R, C, c, a, n, u)
    PROVE  Pend(L, R, C, c, a, n + 1, u)
<1>1. \A l \in Nat : n + 1 <= l => n <= l OBVIOUS
<1>2. ASSUME NEW x, IsUnit(L, x), x.line < n + 1 PROVE x.line < n
  <2>1. x.line \in Nat /\ x.column \in Nat /\ x.column < Len(L[x.line + 1])
    BY <1>2, InLinesSpot, Orders DEF IsUnit
  <2>2. x.line # n BY <2>1
  <2> QED BY <1>2, <2>1, <2>2
<1> QED BY <1>1, <1>2 DEF Pend

\* Coloured to its end, all is shown right.
LEMMA PendEnds ==
    ASSUME NEW L, NEW R, NEW C, NEW c, NEW a, NEW u, Written(L, c, a, u),
           Pend(L, R, C, c, a, a.line + 1, u)
    PROVE  Sound(L, R, C) /\ (FewUsers => HuesApart(C) /\ Whole(L, R, C))
<1>1. ASSUME NEW x, IsUnit(L, x) PROVE BeforeOrAt(a, x) \/ x.line < a.line + 1
  <2>1. x \in Spots /\ a \in Spots BY <1>1, InLinesSpot DEF IsUnit, Written
  <2>2. PICK p, q \in Nat : p = x.line /\ q = a.line BY <2>1, Orders
  <2>3. q < p => BeforeOrAt(a, x) BY <2>1, <2>2, Orders
  <2> QED BY <2>2, <2>3
<1> QED BY <1>1 DEF Pend, Whole

\* A range that ends before a part of the text, and one that begins behind it
LEMMA BesideFacts ==
    ASSUME NEW c \in Spots, NEW a \in Spots, NEW s \in Marks, Flat(s)
    PROVE  /\ BeforeOrAt(s.end, c) =>
                  Row(s) < c.line \/ (Row(s) = c.line /\ To(s) <= c.column)
           /\ BeforeOrAt(a, s.start) =>
                  a.line < Row(s) \/ (Row(s) = a.line /\ a.column <= From(s))
           /\ Before(s.end, c) =>
                  Row(s) < c.line \/ (Row(s) = c.line /\ To(s) < c.column)
           /\ Before(a, s.start) =>
                  a.line < Row(s) \/ (Row(s) = a.line /\ a.column < From(s))
<1>1. PICK p \in Spots, q \in Spots : p = s.start /\ q = s.end BY MarkFacts
<1>2. PICK l, f, t \in Nat : l = Row(s) /\ f = From(s) /\ t = To(s) BY FlatFacts
<1>3. p.line = l /\ p.column = f BY <1>1, <1>2 DEF Row, From
<1>4. q.line = l /\ q.column = t BY <1>1, <1>2, FlatFacts DEF To
<1>5. PICK i, j, k, m \in Nat : i = c.line /\ j = c.column /\ k = a.line /\ m = a.column
  BY Orders
<1>6. BeforeOrAt(q, c) => l < i \/ (l = i /\ t <= j) BY <1>4, <1>5, Orders
<1>7. BeforeOrAt(a, p) => k < l \/ (l = k /\ m <= f) BY <1>3, <1>5, Orders
<1>8. Before(q, c) => l < i \/ (l = i /\ t < j) BY <1>4, <1>5 DEF Before
<1>9. Before(a, p) => k < l \/ (l = k /\ m < f) BY <1>3, <1>5 DEF Before
<1> QED BY <1>1, <1>2, <1>5, <1>6, <1>7, <1>8, <1>9

\* When no range is over more than a line, the colouring can begin.
LEMMA FlatPends ==
    ASSUME NEW L, NEW R, NEW C, NEW c, NEW a, NEW u, Torn(L, R, C, c, a, u),
           \A i \in 1 .. Len(R) : Flat(R[i]),
           FewUsers => HuesApart(C) /\ Outside(L, R, C, c, a)
    PROVE  Pend(L, R, C, c, a, c.line, u)
<1>1. /\ Grounded(L, R, C) /\ Apart(R) /\ Parted(R, c, a) /\ R \in Seq(Marks)
      /\ c \in Spots /\ a \in Spots /\ BeforeOrAt(c, a)
  BY InLinesSpot DEF Torn, Grounded
<1>2. Sound(L, R, C) BY <1>1 DEF Sound
<1>3. PICK n \in Nat : n = Len(R) /\ \A i \in 1 .. n : R[i] \in Marks
  BY <1>1, RangeTypes
<1>4. PICK p, q, k, m \in Nat : p = c.line /\ q = c.column /\ k = a.line /\ m = a.column
  BY <1>1, Orders
<1>5. ASSUME NEW l \in Nat, p <= l, l <= k PROVE Open(R, l, Lo(c, l), Hi(L, a, l))
  <2>1. PICK lo, hi : lo = Lo(c, l) /\ hi = Hi(L, a, l) OBVIOUS
  <2>2. (l = p => lo = q) /\ (l = k => hi = m) BY <1>4, <2>1 DEF Lo, Hi
  <2>3. ASSUME NEW r, Stands(R, r), Row(r) = l
        PROVE  \/ To(r) <= lo
               \/ hi <= From(r)
               \/ /\ From(r) <= lo /\ hi <= To(r)
                  /\ \A s : Stands(R, s) /\ Row(s) = l /\ s # r => To(s) < lo \/ hi < From(s)
    <3>1. PICK i \in 1 .. n : r = R[i] BY <1>3, <2>3 DEF Stands
    <3>2. r \in Marks /\ Flat(r) BY <1>3, <3>1
    <3>3. From(r) \in Nat /\ To(r) \in Nat BY <3>2, FlatFacts
    <3>4. CASE BeforeOrAt(r.end, c)
      <4>1. l < p \/ (l = p /\ To(r) <= q)
        BY <1>1, <1>4, <2>3, <3>2, <3>4, BesideFacts
      <4> QED BY <1>5, <2>2, <4>1
    <3>5. CASE BeforeOrAt(a, r.start)
      <4>1. k < l \/ (l = k /\ m <= From(r))
        BY <1>1, <1>4, <2>3, <3>2, <3>5, BesideFacts
      <4> QED BY <1>5, <2>2, <4>1
    <3>6. CASE Around(r, c, a) /\ Alone(R, i, c, a)
      <4>1. /\ r.start \in Spots /\ r.end \in Spots /\ r.start.line = p /\ r.end.line = k
            /\ Before(r.start, c) /\ Before(a, r.end)
        BY <1>4, <3>2, <3>6, MarkFacts DEF Around
      <4>2. p = k /\ l = p BY <1>4, <2>3, <3>2, <4>1 DEF Flat, Row
      <4>3. From(r) < q BY <1>4, <3>3, <4>1 DEF Before, From
      <4>4. m < To(r) BY <1>4, <3>3, <4>1 DEF Before, To
      <4>5. ASSUME NEW s, Stands(R, s), Row(s) = l, s # r PROVE To(s) < lo \/ hi < From(s)
        <5>1. PICK j \in 1 .. n : s = R[j] /\ ~isEmpty(R[j])
          BY <1>3, <4>5 DEF Stands
        <5>2. s \in Marks /\ Flat(s) /\ j # i BY <1>3, <3>1, <4>5, <5>1
        <5>3. Before(s.end, c) \/ Before(a, s.start)
          BY <1>3, <3>6, <5>1, <5>2 DEF Alone
        <5>4. To(s) < q \/ m < From(s)
          <6>1. Before(s.end, c) => l < p \/ (l = p /\ To(s) < q)
            BY <1>1, <1>4, <4>5, <5>2, BesideFacts
          <6>2. Before(a, s.start) => k < l \/ (l = k /\ m < From(s))
            BY <1>1, <1>4, <4>5, <5>2, BesideFacts
          <6> QED BY <4>2, <5>3, <6>1, <6>2
        <5> QED BY <2>2, <4>2, <5>4
      <4>6. lo = q /\ hi = m BY <2>2, <4>2
      <4>7. From(r) <= lo /\ hi <= To(r) BY <3>3, <4>3, <4>4, <4>6
      <4> QED BY <4>5, <4>7
    <3>7. Beside(r, c, a) \/ (Around(r, c, a) /\ Alone(R, i, c, a))
      BY <1>1, <1>3, <3>1 DEF Parted
    <3> QED BY <3>4, <3>5, <3>6, <3>7 DEF Beside
  <2> QED BY <2>1, <2>3 DEF Open
<1>6. ASSUME NEW x, IsUnit(L, x), x.line < c.line PROVE Before(x, c)
  BY <1>6 DEF Before
<1> QED BY <1>2, <1>4, <1>5, <1>6 DEF Pend, Outside

\* A flat range goes over no newline.
LEMMA NewlineAside ==
    ASSUME NEW r \in Marks, Flat(r), NEW l \in Nat, NEW w \in Nat,
           NEW g, g = Range2(Cursor(l, w), Cursor(l + 1, 0))
    PROVE  ~contains(r, g)
<1>1. PICK p \in Spots, q \in Spots : p = r.start /\ q = r.end /\ p.line = q.line
  BY MarkFacts DEF Flat
<1>2. PICK x \in Spots, y \in Spots : /\ x = Cursor(l, w) /\ y = Cursor(l + 1, 0)
                                      /\ x.line = l /\ y.line = l + 1
  BY Orders
<1>3. PICK k \in Nat : k = p.line /\ k = q.line BY <1>1, Orders
<1>4. BeforeOrAt(p, x) => k <= l
  <2>1. x.line = l BY <1>2
  <2>2. BeforeOrAt(p, x) => p.line < x.line \/ p.line = x.line BY Orders
  <2> QED BY <1>3, <2>1, <2>2
<1>5. BeforeOrAt(y, q) => l + 1 <= k BY <1>2, <1>3, Orders
<1>6. ~(BeforeOrAt(p, x) /\ BeforeOrAt(y, q)) BY <1>3, <1>4, <1>5
<1>7. g.start = x /\ g.end = y BY <1>2 DEF Range2
<1> QED BY <1>1, <1>6, <1>7 DEF contains

\* Then the split at a newline changes nothing.
LEMMA FlatNotSplit ==
    ASSUME NEW L, NEW R, NEW C, Sound(L, R, C), NEW l \in 0 .. Len(L) - 1
    PROVE  splitAtNewline(DocOf(L, R, C), l) = DocOf(L, R, C)
<1>1. IsLines(L) /\ R \in Seq(Marks) /\ \A i \in 1 .. Len(R) : R[i] \in Marks /\ Flat(R[i])
  BY SoundFacts
<1>2. PICK d : d = DocOf(L, R, C) /\ d.ranges = R /\ d.lines = L BY DocFacts
<1>3. PICK w \in Nat : w = lineLength(d, l) BY <1>1, <1>2, LineFacts DEF lineLength
<1>4. PICK g : g = Range2(Cursor(l, w), Cursor(l + 1, 0)) OBVIOUS
<1>5. PICK i : i = rangeAt(d, g) OBVIOUS
<1>6. i \in 0 .. Len(R) BY <1>1, <1>2, <1>5, RangeFound
<1>7. i = 0 \/ ~contains(R[i], g)
  <2>1. SUFFICES ASSUME i # 0 PROVE ~contains(R[i], g) OBVIOUS
  <2>2. i \in 1 .. Len(R) /\ l \in Nat BY <1>6, <2>1
  <2>3. PICK r : r = R[i] /\ r \in Marks /\ Flat(r) BY <1>1, <2>2
  <2>4. ~contains(r, g) BY <1>4, <2>2, <2>3, NewlineAside
  <2> QED BY <2>3, <2>4
<1>8. splitAtNewline(d, l) = d BY <1>2, <1>3, <1>4, <1>5, <1>7 DEF splitAtNewline
<1> QED BY <1>2, <1>8

\* Where the parts of a range are that a change of several lines went into
LEMMA AroundFacts ==
    ASSUME NEW L, NEW R, NEW C, NEW c, NEW a, NEW u, Torn(L, R, C, c, a, u), c.line < a.line,
           \A j \in 1 .. Len(R) : ~isEmpty(R[j]),
           NEW i \in 1 .. Len(R), NEW r, r = R[i], Around(r, c, a), Alone(R, i, c, a)
    PROVE  /\ r \in Marks /\ Row(r) = c.line /\ r.end.line = a.line
           /\ From(r) \in Nat /\ From(r) < c.column
           /\ To(r) \in Nat /\ a.column < To(r)
           /\ Tied(C, r) /\ Within(L, r)
           /\ r.start = Cursor(c.line, From(r)) /\ r.end = Cursor(a.line, To(r))
           /\ \A j \in 1 .. Len(R) : j # i =>
                  /\ R[j] \in Marks /\ Flat(R[j])
                  /\ \/ Row(R[j]) < c.line
                     \/ Row(R[j]) = c.line /\ To(R[j]) < c.column
                     \/ a.line < Row(R[j])
                     \/ Row(R[j]) = a.line /\ a.column < From(R[j])
<1>1. /\ Grounded(L, R, C) /\ Apart(R) /\ Parted(R, c, a) /\ R \in Seq(Marks)
      /\ c \in Spots /\ a \in Spots /\ BeforeOrAt(c, a)
  BY InLinesSpot DEF Torn, Grounded
<1>2. PICK n \in Nat : n = Len(R) /\ \A j \in 1 .. n : R[j] \in Marks
  BY <1>1, RangeTypes
<1>3. r \in Marks /\ Tied(C, r) /\ Within(L, r) BY <1>1, <1>2 DEF Grounded
<1>4. PICK x \in Spots, y \in Spots : x = r.start /\ y = r.end BY <1>3, MarkFacts
<1>5. /\ Before(x, c) /\ x.line = c.line /\ Before(a, y) /\ y.line = a.line
  BY <1>4 DEF Around
<1>6. /\ x.column \in Nat /\ y.column \in Nat /\ x.line \in Nat /\ y.line \in Nat
      /\ x = Cursor(x.line, x.column) /\ y = Cursor(y.line, y.column)
  BY DEF Spots, Cursor
<1>7. x.column < c.column /\ a.column < y.column
  <2>1. /\ c.line \in Nat /\ a.line \in Nat BY <1>1, Orders
  <2> QED BY <1>5, <2>1 DEF Before
<1>8. /\ Row(r) = c.line /\ From(r) = x.column /\ To(r) = y.column
      /\ r.start = Cursor(c.line, From(r)) /\ r.end = Cursor(a.line, To(r))
  BY <1>4, <1>5, <1>6 DEF Row, From, To
<1>9. ASSUME NEW j \in 1 .. n, j # i
      PROVE  /\ R[j] \in Marks /\ Flat(R[j])
             /\ \/ Row(R[j]) < c.line
                \/ Row(R[j]) = c.line /\ To(R[j]) < c.column
                \/ a.line < Row(R[j])
                \/ Row(R[j]) = a.line /\ a.column < From(R[j])
  <2>1. PICK s \in Marks : s = R[j] BY <1>2
  <2>2. Before(s.end, c) \/ Before(a, s.start) BY <1>2, <1>9, <2>1 DEF Alone
  <2>3. ~Around(s, c, a)
    <3>1. SUFFICES ASSUME Around(s, c, a) PROVE FALSE OBVIOUS
    <3>2. PICK v \in Spots, w \in Spots : v = s.start /\ w = s.end BY MarkFacts
    <3>3. Before(v, c) /\ Before(a, w) /\ (Before(w, c) \/ Before(a, v))
      BY <2>2, <3>1, <3>2 DEF Around
    <3>4. ~Before(w, c) BY <1>1, <3>3, OrderLaws
    <3>5. ~Before(a, v) BY <1>1, <3>3, OrderLaws
    <3> QED BY <3>3, <3>4, <3>5
  <2>4. Flat(s) BY <1>1, <1>2, <2>1, <2>3 DEF Parted
  <2>5. /\ Before(s.end, c) => Row(s) < c.line \/ (Row(s) = c.line /\ To(s) < c.column)
        /\ Before(a, s.start) => a.line < Row(s) \/ (Row(s) = a.line /\ a.column < From(s))
    BY <1>1, <2>4, BesideFacts
  <2> QED BY <2>1, <2>2, <2>4, <2>5
<1> QED BY <1>2, <1>3, <1>5, <1>4, <1>6, <1>7, <1>8, <1>9

\* A part of a line that shows something
LEMMA PartOf ==
    ASSUME NEW l, NEW p, NEW q, NEW name, NEW col, NEW m, m = Strip(l, p, q, name, col),
           l \in Nat, p \in Nat, q \in Nat, p < q, name \in Users \cup {NoName}, col \in Colors
    PROVE  /\ m \in Marks /\ Flat(m) /\ m.name = name /\ m.color = col
           /\ Row(m) = l /\ From(m) = p /\ To(m) = q /\ From(m) < To(m) /\ ~isEmpty(m)
<1>1. p <= q OBVIOUS
<1>2. /\ m \in Marks /\ Flat(m) /\ m.name = name /\ m.color = col
      /\ Row(m) = l /\ From(m) = p /\ To(m) = q
  BY <1>1, StripFacts
<1> QED BY <1>2, FlatFacts

\* It is cut at the newline and where the change ends, and the colouring can begin.
LEMMA NewlineOpens ==
    ASSUME NEW L, NEW R, NEW C, NEW c, NEW a, NEW u, Torn(L, R, C, c, a, u), c.line < a.line,
           \A j \in 1 .. Len(R) : ~isEmpty(R[j]),
           NEW i \in 1 .. Len(R), NEW r, r = R[i], Around(r, c, a), Alone(R, i, c, a),
           FewUsers => HuesApart(C) /\ Outside(L, R, C, c, a),
           NEW m, m = Strip(c.line, From(r), Len(L[c.line + 1]), r.name, r.color),
           NEW S, IsSet(R, S, i, m),
           NEW n, n = Strip(a.line, 0, To(r), NoName, r.color), NEW T, T = Append(S, n)
    PROVE  Pend(L, T, C, c, a, c.line, u)
<1>1. /\ Grounded(L, R, C) /\ Apart(R) /\ R \in Seq(Marks) /\ Palette(C)
      /\ c \in Spots /\ a \in Spots /\ IsLines(L) /\ InLines(L, c) /\ InLines(L, a)
  BY InLinesSpot DEF Torn, Grounded
<1>2. PICK p, q, k, v \in Nat : p = c.line /\ q = c.column /\ k = a.line /\ v = a.column /\ p < k
  BY <1>1, Orders
<1>3. PICK w \in Nat : w = Len(L[c.line + 1]) /\ q <= w BY <1>1, <1>2, InLinesFacts
<1>4. /\ r \in Marks /\ Row(r) = p /\ r.end.line = k
      /\ From(r) \in Nat /\ From(r) < q
      /\ To(r) \in Nat /\ v < To(r)
      /\ Tied(C, r) /\ Within(L, r)
      /\ r.start = Cursor(p, From(r)) /\ r.end = Cursor(k, To(r))
  <2>1. /\ r \in Marks /\ Row(r) = c.line /\ r.end.line = a.line
        /\ From(r) \in Nat /\ From(r) < c.column /\ To(r) \in Nat /\ a.column < To(r)
        /\ Tied(C, r) /\ Within(L, r)
        /\ r.start = Cursor(c.line, From(r)) /\ r.end = Cursor(a.line, To(r))
    BY AroundFacts
  <2> QED BY <1>2, <2>1
<1>5. ASSUME NEW j \in 1 .. Len(R), j # i
      PROVE  /\ R[j] \in Marks /\ Flat(R[j])
             /\ \/ Row(R[j]) < p
                \/ Row(R[j]) = p /\ To(R[j]) < q
                \/ k < Row(R[j])
                \/ Row(R[j]) = k /\ v < From(R[j])
  <2>1. /\ R[j] \in Marks /\ Flat(R[j])
        /\ \/ Row(R[j]) < c.line
           \/ Row(R[j]) = c.line /\ To(R[j]) < c.column
           \/ a.line < Row(R[j])
           \/ Row(R[j]) = a.line /\ a.column < From(R[j])
    BY <1>5, AroundFacts
  <2> QED BY <1>2, <2>1
<1>6. /\ InLines(L, Cursor(p, From(r))) /\ InLines(L, Cursor(p, w))
      /\ InLines(L, Cursor(k, 0)) /\ InLines(L, Cursor(k, To(r)))
  <2>1. PICK x \in Spots, y \in Spots : /\ x = Cursor(p, w) /\ y = Cursor(k, 0)
                                        /\ x.line = p /\ x.column = w /\ y.line = k /\ y.column = 0
    BY Orders
  <2>2. p \in 0 .. Len(L) - 1 /\ k \in 0 .. Len(L) - 1 BY <1>1, <1>2, InLinesSpot
  <2>3. Len(L[k + 1]) \in Nat BY <1>1, <2>2, LineFacts
  <2>4. x.line \in 0 .. Len(L) - 1 /\ x.column \in 0 .. Len(L[x.line + 1])
    <3>1. x.line = p /\ x.column = w /\ Len(L[x.line + 1]) = w BY <1>2, <1>3, <2>1
    <3>2. w \in 0 .. w OBVIOUS
    <3> QED BY <2>2, <3>1, <3>2
  <2>5. y.line \in 0 .. Len(L) - 1 /\ y.column \in 0 .. Len(L[y.line + 1])
    <3>1. y.line = k /\ y.column = 0 BY <2>1
    <3> QED BY <2>2, <2>3, <3>1
  <2>6. InLines(L, x) /\ InLines(L, y) BY <2>4, <2>5, InLinesSpot
  <2> QED BY <1>4, <2>1, <2>6 DEF Within
<1>7. r.name \in Users \cup {NoName} /\ r.color \in Colors BY <1>4, MarkFacts
<1>8. /\ m \in Marks /\ Flat(m) /\ m.name = r.name /\ m.color = r.color
      /\ Row(m) = p /\ From(m) = From(r) /\ To(m) = w /\ From(m) < To(m) /\ ~isEmpty(m)
  <2>1. From(r) < w /\ m = Strip(p, From(r), w, r.name, r.color) BY <1>2, <1>3, <1>4
  <2> QED BY <1>4, <1>7, <2>1, PartOf
<1>9. /\ n \in Marks /\ Flat(n) /\ n.name = NoName /\ n.color = r.color
      /\ Row(n) = k /\ From(n) = 0 /\ To(n) = To(r) /\ From(n) < To(n) /\ ~isEmpty(n)
  <2>1. 0 < To(r) /\ 0 \in Nat /\ n = Strip(k, 0, To(r), NoName, r.color)
    BY <1>2, <1>4
  <2>2. NoName \in Users \cup {NoName} OBVIOUS
  <2> QED BY <1>4, <1>7, <2>1, <2>2, PartOf
<1>10. Fits(L, C, m)
  <2>1. Within(L, m) BY <1>2, <1>3, <1>6, StripWithin
  <2> QED BY <1>4, <1>8, <2>1 DEF Fits, Tied
<1>11. Fits(L, C, n)
  <2>1. Within(L, n) BY <1>2, <1>6, StripWithin
  <2> QED BY <1>4, <1>9, <2>1 DEF Fits, Tied
<1>12. ASSUME NEW j \in 1 .. Len(R), j # i PROVE Clear(R[j], m) /\ Clear(R[j], n) /\ Flat(R[j])
  <2>1. PICK s : s = R[j] /\ s \in Marks /\ Flat(s) /\ Clear(s, r)
    BY <1>1, <1>5, <1>12 DEF Apart
  <2>2. From(s) \in Nat /\ To(s) \in Nat /\ From(s) <= To(s) /\ Row(s) \in Nat
    BY <2>1, FlatFacts
  <2>3. \/ Row(s) < p
        \/ Row(s) = p /\ To(s) < q
        \/ k < Row(s)
        \/ Row(s) = k /\ v < From(s)
    BY <1>5, <1>12, <2>1
  <2>4. PICK e \in Spots, f \in Spots, x \in Spots, y \in Spots :
            e = s.start /\ f = s.end /\ x = r.start /\ y = r.end
    BY <1>4, <2>1, MarkFacts
  <2>5. /\ e.line = Row(s) /\ e.column = From(s) /\ f.line = Row(s) /\ f.column = To(s)
        /\ x.line = p /\ x.column = From(r) /\ y.line = k /\ y.column = To(r)
    BY <1>4, <2>1, <2>4, FlatFacts DEF Row, From, To
  <2>6. BeforeOrAt(f, x) => Row(s) < p \/ (Row(s) = p /\ To(s) <= From(r))
    <3>1. BeforeOrAt(f, x) => f.line < x.line \/ (f.line = x.line /\ f.column <= x.column)
      BY Orders
    <3> QED BY <2>5, <3>1
  <2>7. BeforeOrAt(y, e) => k < Row(s) \/ (Row(s) = k /\ To(r) <= From(s))
    <3>1. BeforeOrAt(y, e) => y.line < e.line \/ (y.line = e.line /\ y.column <= e.column)
      BY Orders
    <3> QED BY <2>5, <3>1
  <2>8. From(s) = To(s) \/ BeforeOrAt(f, x) \/ BeforeOrAt(y, e)
    <3>1. isEmpty(s) <=> From(s) = To(s) BY <2>1, FlatFacts
    <3>2. ~isEmpty(r) OBVIOUS
    <3> QED BY <2>1, <2>4, <3>1, <3>2 DEF Clear
  <2>9. From(s) = To(s) \/ Row(s) # p \/ To(s) <= From(r)
    BY <1>2, <2>2, <2>6, <2>7, <2>8
  <2>10. From(s) = To(s) \/ Row(s) # k \/ To(r) <= From(s)
    BY <1>2, <2>2, <2>6, <2>7, <2>8
  <2>11. Clear(s, m) BY <1>8, <2>1, <2>9, FlatClear
  <2>12. Clear(s, n) BY <1>9, <2>1, <2>10, FlatClear
  <2> QED BY <2>1, <2>11, <2>12
<1>13. Sound(L, S, C) BY <1>1, <1>10, <1>12, GroundedSet
<1>14. S \in Seq(Marks) /\ Len(S) = Len(R) /\ S[i] = m /\ \A j \in 1 .. Len(R) : j # i => S[j] = R[j]
  BY DEF IsSet
<1>15. ASSUME NEW j \in 1 .. Len(S) PROVE Clear(S[j], n)
  <2>1. CASE j = i
    <3>1. Clear(m, n) BY <1>2, <1>8, <1>9, FlatClear
    <3> QED BY <1>14, <2>1, <3>1
  <2>2. CASE j # i BY <1>12, <1>14, <2>2
  <2> QED BY <2>1, <2>2
<1>16. Sound(L, T, C) BY <1>1, <1>11, <1>13, <1>15, SoundAppend
<1>17. ASSUME NEW s
       PROVE  Stands(T, s) <=> (Stands(R, s) /\ s # r) \/ s = m \/ s = n
  <2>1. Stands(S, s) <=> (Stands(R, s) /\ s # r) \/ (s = m /\ ~isEmpty(m))
    BY <1>1, GroundedStands
  <2>2. Stands(T, s) <=> Stands(S, s) \/ (s = n /\ ~isEmpty(n))
    <3>1. S \in Seq(Marks) /\ n \in Marks /\ T = Append(S, n) BY <1>9, <1>14
    <3> QED BY <3>1, StandsAppend
  <2> QED BY <1>8, <1>9, <2>1, <2>2
<1>18. ASSUME NEW s, Stands(R, s), s # r
       PROVE  /\ From(s) \in Nat /\ To(s) \in Nat /\ Row(s) \in Nat
              /\ \/ Row(s) < p
                 \/ Row(s) = p /\ To(s) < q
                 \/ k < Row(s)
                 \/ Row(s) = k /\ v < From(s)
  <2>1. PICK j \in 1 .. Len(R) : s = R[j] BY <1>18 DEF Stands
  <2>2. j # i BY <1>18, <2>1
  <2>3. s \in Marks /\ Flat(s) BY <1>5, <2>1, <2>2
  <2>4. From(s) \in Nat /\ To(s) \in Nat /\ Row(s) \in Nat BY <2>3, FlatFacts
  <2> QED BY <1>5, <2>1, <2>2, <2>4
<1>19. ASSUME NEW l \in Nat, p <= l, l <= k PROVE Open(T, l, Lo(c, l), Hi(L, a, l))
  <2>1. PICK lo, hi : lo = Lo(c, l) /\ hi = Hi(L, a, l) OBVIOUS
  <2>2. /\ l = p => lo = q /\ hi = w
        /\ l = k => lo = 0 /\ hi = v
    BY <1>2, <1>3, <2>1 DEF Lo, Hi
  <2>3. ASSUME NEW s, Stands(R, s), s # r, Row(s) = l
        PROVE  (To(s) < lo \/ hi < From(s)) /\ (To(s) <= lo \/ hi <= From(s))
    <3>1. /\ From(s) \in Nat /\ To(s) \in Nat /\ Row(s) \in Nat
          /\ Row(s) < p \/ (Row(s) = p /\ To(s) < q) \/ k < Row(s) \/ (Row(s) = k /\ v < From(s))
      BY <1>18, <2>3
    <3>2. (l = p /\ To(s) < q) \/ (l = k /\ v < From(s)) BY <1>2, <1>19, <2>3, <3>1
    <3>3. CASE l = p /\ To(s) < q BY <1>2, <2>2, <3>1, <3>3
    <3>4. CASE l = k /\ v < From(s) BY <1>2, <2>2, <3>1, <3>4
    <3> QED BY <3>2, <3>3, <3>4
  <2>4. ASSUME NEW s, Stands(T, s), Row(s) = l, s # m, s # n PROVE To(s) < lo \/ hi < From(s)
    BY <1>17, <2>3, <2>4
  <2>5. Row(m) = l => /\ From(m) <= lo /\ hi <= To(m)
                      /\ \A s : Stands(T, s) /\ Row(s) = l /\ s # m => To(s) < lo \/ hi < From(s)
    <3>1. SUFFICES ASSUME Row(m) = l
                   PROVE  /\ From(m) <= lo /\ hi <= To(m)
                          /\ \A s : Stands(T, s) /\ Row(s) = l /\ s # m => To(s) < lo \/ hi < From(s)
      OBVIOUS
    <3>2. Row(n) # l BY <1>2, <1>8, <1>9, <3>1
    <3>3. From(m) <= lo /\ hi <= To(m) BY <1>3, <1>4, <1>8, <2>2, <3>1
    <3> QED BY <2>4, <3>2, <3>3
  <2>6. Row(n) = l => /\ From(n) <= lo /\ hi <= To(n)
                      /\ \A s : Stands(T, s) /\ Row(s) = l /\ s # n => To(s) < lo \/ hi < From(s)
    <3>1. SUFFICES ASSUME Row(n) = l
                   PROVE  /\ From(n) <= lo /\ hi <= To(n)
                          /\ \A s : Stands(T, s) /\ Row(s) = l /\ s # n => To(s) < lo \/ hi < From(s)
      OBVIOUS
    <3>2. Row(m) # l BY <1>2, <1>8, <1>9, <3>1
    <3>3. From(n) <= lo /\ hi <= To(n) BY <1>4, <1>9, <2>2, <3>1
    <3> QED BY <2>4, <3>2, <3>3
  <2>7. ASSUME NEW s, Stands(T, s), Row(s) = l, s # m, s # n PROVE To(s) <= lo \/ hi <= From(s)
    BY <1>17, <2>3, <2>7
  <2> QED BY <2>1, <2>5, <2>6, <2>7 DEF Open
<1>20. ASSUME NEW x \in Spots
       PROVE  /\ Covers(m, x) => Covers(r, x)
              /\ Covers(n, x) => Covers(r, x)
              /\ Covers(r, x) /\ (Before(x, c) \/ BeforeOrAt(a, x)) => Covers(m, x) \/ Covers(n, x)
  <2>1. PICK g, h \in Nat : g = x.line /\ h = x.column BY Orders
  <2>2. Covers(m, x) <=> g = p /\ From(r) <= h /\ h < w BY <1>8, <2>1, FlatFacts
  <2>3. Covers(n, x) <=> g = k /\ 0 <= h /\ h < To(r) BY <1>9, <2>1, FlatFacts
  <2>4. PICK y \in Spots, z \in Spots : y = r.start /\ z = r.end BY <1>4, MarkFacts
  <2>5. y.line = p /\ y.column = From(r) /\ z.line = k /\ z.column = To(r)
    BY <1>4, <2>4 DEF Row, From, To
  <2>6. BeforeOrAt(y, x) <=> p < g \/ (p = g /\ From(r) <= h) BY <2>1, <2>5, Orders
  <2>7. Before(x, z) <=> g < k \/ (g = k /\ h < To(r)) BY <2>1, <2>5 DEF Before
  <2>8. Before(x, c) => g < p \/ (g = p /\ h < q) BY <1>2, <2>1 DEF Before
  <2>9. BeforeOrAt(a, x) => k < g \/ (g = k /\ v <= h) BY <1>1, <1>2, <2>1, Orders
  <2>10. Covers(r, x) <=> BeforeOrAt(y, x) /\ Before(x, z) BY <2>4 DEF Covers
  <2>11. Covers(m, x) => Covers(r, x) BY <1>2, <2>2, <2>6, <2>7, <2>10
  <2>12. Covers(n, x) => Covers(r, x) BY <1>2, <2>3, <2>6, <2>7, <2>10
  <2>13. Covers(r, x) /\ Before(x, c) => Covers(m, x)
    BY <1>2, <1>3, <2>2, <2>6, <2>8, <2>10
  <2>14. Covers(r, x) /\ BeforeOrAt(a, x) => Covers(n, x)
    BY <1>2, <2>3, <2>7, <2>9, <2>10
  <2> QED BY <2>11, <2>12, <2>13, <2>14
<1>21. Stands(R, r) BY DEF Stands
<1>22. ASSUME FewUsers, NEW x, IsUnit(L, x), Before(x, c) \/ BeforeOrAt(a, x)
       PROVE  Right(L, T, C, x)
  <2>1. x \in Spots BY <1>22, InLinesSpot DEF IsUnit
  <2>2. Right(L, R, C, x) BY <1>22 DEF Outside
  <2>3. ASSUME NEW s, Stands(R, s), Covers(s, x)
        PROVE  \E t : Stands(T, t) /\ Covers(t, x) /\ t.color = s.color
    <3>1. CASE s = r BY <1>8, <1>9, <1>17, <1>20, <1>22, <2>1, <2>3, <3>1
    <3>2. CASE s # r BY <1>17, <2>3, <3>2
    <3> QED BY <3>1, <3>2
  <2>4. ASSUME NEW s, Stands(T, s), Covers(s, x) PROVE \E t : Stands(R, t) /\ Covers(t, x)
    <3>1. CASE s = m \/ s = n BY <1>20, <1>21, <2>1, <2>4, <3>1
    <3>2. CASE ~(s = m \/ s = n) BY <1>17, <2>4, <3>2
    <3> QED BY <3>1, <3>2
  <2>5. Grounded(L, T, C) BY <1>16 DEF Sound
  <2>6. \A y \in DOMAIN C : y \in DOMAIN C /\ C[y] = C[y] OBVIOUS
  <2> QED BY <1>1, <1>22, <2>2, <2>3, <2>4, <2>5, <2>6, RightAs
<1>23. ASSUME NEW x, x.line < c.line PROVE Before(x, c) BY <1>23 DEF Before
<1> QED BY <1>2, <1>16, <1>19, <1>22, <1>23 DEF Pend

\* T is R with another i-th range, and a range more.
IsBoth(R, T, i, m, n) == \E S : IsSet(R, S, i, m) /\ T = Append(S, n)

\* Q is R with a range more.
IsMore(R, Q, n) == Q = Append(R, n)

\* What is in it
LEMMA MoreFacts ==
    ASSUME NEW R \in Seq(Marks), NEW n \in Marks, NEW Q, IsMore(R, Q, n), NEW i \in 1 .. Len(R)
    PROVE  Q \in Seq(Marks) /\ i \in 1 .. Len(Q) /\ Q[i] = R[i]
<1>1. PICK h \in Nat : h = Len(R) BY RangeTypes
<1>2. Q = Append(R, n) BY DEF IsMore
<1>3. Q \in Seq(Marks) /\ Len(Q) = h + 1 /\ Q[i] = R[i] BY <1>1, <1>2, Appended
<1> QED BY <1>1, <1>3

\* A replacement and an addition, in either order
LEMMA SetAppend ==
    ASSUME NEW R \in Seq(Marks), NEW i \in 1 .. Len(R), NEW m \in Marks, NEW n \in Marks,
           NEW Q, Q = Append(R, n), NEW T, IsSet(Q, T, i, m)
    PROVE  IsBoth(R, T, i, m, n)
<1>1. PICK h \in Nat : h = Len(R) BY RangeTypes
<1>2. Q \in Seq(Marks) /\ Len(Q) = h + 1 /\ Q[h + 1] = n /\ \A j \in 1 .. h : Q[j] = R[j]
  BY <1>1, Appended
<1>3. PICK S : IsSet(R, S, i, m) BY RangeReplaced
<1>4. S \in Seq(Marks) /\ Len(S) = h /\ S[i] = m /\ \A j \in 1 .. h : j # i => S[j] = R[j]
  BY <1>1, <1>3 DEF IsSet
<1>5. T \in Seq(Marks) /\ Len(T) = h + 1 /\ T[i] = m /\ \A j \in 1 .. h + 1 : j # i => T[j] = Q[j]
  BY <1>2 DEF IsSet
<1>6. PICK V : V = Append(S, n) OBVIOUS
<1>7. V \in Seq(Marks) /\ Len(V) = h + 1 /\ V[h + 1] = n /\ \A j \in 1 .. h : V[j] = S[j]
  BY <1>4, <1>6, Appended
<1>8. ASSUME NEW j \in 1 .. h + 1 PROVE T[j] = V[j]
  <2>1. CASE j = h + 1
    <3>1. j # i BY <1>1, <2>1
    <3> QED BY <1>2, <1>5, <1>7, <2>1, <3>1
  <2>2. CASE j \in 1 .. h /\ j = i BY <1>4, <1>5, <1>7, <2>2
  <2>3. CASE j \in 1 .. h /\ j # i
    <3>1. T[j] = Q[j] /\ Q[j] = R[j] BY <1>2, <1>5, <2>3
    <3>2. V[j] = S[j] /\ S[j] = R[j] BY <1>4, <1>7, <2>3
    <3> QED BY <3>1, <3>2
  <2>4. j \in 1 .. h \/ j = h + 1 BY <1>1
  <2> QED BY <2>1, <2>2, <2>3, <2>4
<1>9. T = V
  <2>1. \A j \in 1 .. Len(T) : T[j] = V[j] BY <1>5, <1>8
  <2> QED BY <1>5, <1>7, <2>1, SeqEqual
<1> QED BY <1>3, <1>6, <1>9 DEF IsBoth

\* Another range of a document with one more is given other ends.
LEMMA AddedAndSet ==
    ASSUME NEW L, NEW R \in Seq(Marks), NEW C, NEW i \in 1 .. Len(R), NEW n \in Marks,
           NEW x \in Spots, NEW y \in Spots, NEW m, m = Mark(x, y, R[i].name, R[i].color),
           NEW Q, IsMore(R, Q, n)
    PROVE  \E T : setRange(DocOf(L, Q, C), i, x, y) = DocOf(L, T, C) /\ IsBoth(R, T, i, m, n)
<1>1. Q \in Seq(Marks) /\ i \in 1 .. Len(Q) /\ Q[i] = R[i] BY MoreFacts
<1>2. m = Mark(x, y, Q[i].name, Q[i].color) BY <1>1
<1>3. m \in Marks BY OtherEnds
<1>4. BecomesRange(L, Q, C, i, x, y, m) BY <1>1, <1>2, RangeIsSet
<1>5. PICK T : setRange(DocOf(L, Q, C), i, x, y) = DocOf(L, T, C) /\ IsSet(Q, T, i, m)
  BY <1>4 DEF BecomesRange
<1>6. Q = Append(R, n) BY DEF IsMore
<1>7. IsBoth(R, T, i, m, n) BY <1>3, <1>5, <1>6, SetAppend
<1> QED BY <1>5, <1>7

\* The split at the newline of a range that a change of several lines went into
LEMMA NewlineIsSplit ==
    ASSUME NEW L, NEW R \in Seq(Marks), NEW C, NEW l \in Nat, NEW k \in Nat,
           NEW w \in Nat, w = lineLength(DocOf(L, R, C), l),
           NEW g, g = Range2(Cursor(l, w), Cursor(l + 1, 0)),
           NEW i \in 1 .. Len(R), i = rangeAt(DocOf(L, R, C), g), NEW r, r = R[i], contains(r, g),
           r.start = Cursor(l, From(r)), r.end = Cursor(k, To(r)), From(r) \in Nat, To(r) \in Nat,
           NEW m, m = Strip(l, From(r), w, r.name, r.color),
           NEW n, n = Strip(k, 0, To(r), NoName, r.color)
    PROVE  \E T : splitAtNewline(DocOf(L, R, C), l) = DocOf(L, T, C) /\ IsBoth(R, T, i, m, n)
<1>1. PICK d : d = DocOf(L, R, C) /\ d.ranges = R /\ d.lines = L BY DocFacts
<1>2. r.start.line = l /\ r.end.line = k BY Orders
<1>3. PICK x \in Spots, y \in Spots, z \in Spots :
          x = r.start /\ y = Cursor(l, w) /\ z = Cursor(k, 0)
  BY Orders
<1>4. r.name \in Users \cup {NoName} /\ r.color \in Colors /\ r.end \in Spots
  <2>1. R[i] \in Marks BY RangeTypes, Zenon
  <2>2. r \in Marks BY <2>1
  <2> QED BY <2>2, MarkFacts, Zenon
<1>5. splitAtNewline(d, l) = setRange(addHighlightedRange(d, NoName, Range2(z, r.end), r.color), i, x, y)
  <2>1. i # 0 OBVIOUS
  <2>2. i = rangeAt(d, g) /\ g = Range2(Cursor(l, lineLength(d, l)), Cursor(l + 1, 0))
    BY <1>1
  <2>3. y = Cursor(r.start.line, lineLength(d, r.start.line)) /\ z = Cursor(r.end.line, 0)
    BY <1>1, <1>2, <1>3
  <2> QED BY <1>1, <1>3, <2>1, <2>2, <2>3 DEF splitAtNewline
<1>6. PICK Q : Q = Append(R, n) OBVIOUS
<1>7. addHighlightedRange(d, NoName, Range2(z, r.end), r.color) = DocOf(L, Q, C)
  <2>1. n = Mark(z, r.end, NoName, r.color) BY <1>3 DEF Strip
  <2>2. addHighlightedRange(DocOf(L, R, C), NoName, Range2(z, r.end), r.color)
            = DocOf(L, Append(R, Mark(z, r.end, NoName, r.color)), Registered(C, NoName, r.color))
    BY RangeIsAdded
  <2>3. Registered(C, NoName, r.color) = C BY DEF Registered
  <2> QED BY <1>1, <1>6, <2>1, <2>2, <2>3
<1>8. n \in Marks
  <2>1. PICK e \in Spots, col \in Colors, name \in Users \cup {NoName} :
            e = r.end /\ col = r.color /\ name = NoName
    BY <1>4
  <2>2. n = Mark(z, e, name, col) BY <1>3, <2>1 DEF Strip
  <2> QED BY <2>2, MarkFacts
<1>9. m = Mark(x, y, R[i].name, R[i].color) BY <1>3 DEF Strip
<1>10. IsMore(R, Q, n) BY <1>6 DEF IsMore
<1>11. \E T : setRange(DocOf(L, Q, C), i, x, y) = DocOf(L, T, C) /\ IsBoth(R, T, i, m, n)
  BY <1>8, <1>9, <1>10, AddedAndSet
<1> QED BY <1>1, <1>5, <1>7, <1>11

\* At its first line a change of several makes all ranges flat.
LEMMA FirstSplit ==
    ASSUME NEW L, NEW R, NEW C, NEW c, NEW a, NEW u, Torn(L, R, C, c, a, u), c.line < a.line,
           \A j \in 1 .. Len(R) : ~isEmpty(R[j]),
           FewUsers => HuesApart(C) /\ Outside(L, R, C, c, a)
    PROVE  \E T : /\ splitAtNewline(DocOf(L, R, C), c.line) = DocOf(L, T, C)
                  /\ Pend(L, T, C, c, a, c.line, u)
<1>1. /\ Grounded(L, R, C) /\ Apart(R) /\ Parted(R, c, a) /\ R \in Seq(Marks) /\ IsLines(L)
      /\ InLines(L, c) /\ c \in Spots /\ a \in Spots /\ BeforeOrAt(c, a)
  BY InLinesSpot DEF Torn, Grounded
<1>2. PICK l, q, k, v \in Nat : l = c.line /\ q = c.column /\ k = a.line /\ v = a.column /\ l < k
  BY <1>1, Orders
<1>3. l \in 0 .. Len(L) - 1 BY <1>1, <1>2, InLinesSpot
<1>4. CASE \E j \in 1 .. Len(R) : Around(R[j], c, a) /\ Alone(R, j, c, a)
  <2>1. PICK i \in 1 .. Len(R) : Around(R[i], c, a) /\ Alone(R, i, c, a) BY <1>4
  <2>2. PICK r : r = R[i] OBVIOUS
  <2>3. /\ r \in Marks /\ From(r) \in Nat /\ To(r) \in Nat /\ From(r) < q /\ v < To(r)
        /\ r.start = Cursor(l, From(r)) /\ r.end = Cursor(k, To(r))
    BY <1>2, <2>1, <2>2, AroundFacts
  <2>4. PICK d : d = DocOf(L, R, C) /\ d.ranges = R /\ d.lines = L BY DocFacts
  <2>5. PICK w \in Nat : w = lineLength(d, l) /\ w = Len(L[l + 1]) /\ q <= w
    <3>1. lineLength(d, l) = Len(L[l + 1]) /\ Len(L[l + 1]) \in Nat
      BY <1>1, <1>3, <2>4, LineFacts DEF lineLength
    <3>2. q <= Len(L[l + 1]) BY <1>1, <1>2, InLinesFacts
    <3> QED BY <3>1, <3>2
  <2>6. PICK g : g = Range2(Cursor(l, w), Cursor(l + 1, 0)) OBVIOUS
  <2>7. PICK x \in Spots, y \in Spots, e \in Spots, f \in Spots :
            /\ x = Cursor(l, w) /\ y = Cursor(l + 1, 0) /\ e = r.start /\ f = r.end
    BY <2>3, MarkFacts, Orders
  <2>8. x.line = l /\ x.column = w /\ y.line = l + 1 /\ y.column = 0 BY <2>7, Orders
  <2>9. e.line = l /\ e.column = From(r) /\ f.line = k /\ f.column = To(r)
    BY <2>3, <2>7, Orders
  <2>10. BeforeOrAt(e, x) /\ BeforeOrAt(y, f) /\ BeforeOrAt(e, y) /\ BeforeOrAt(x, f)
    <3>1. BeforeOrAt(e, x)
      <4>1. e.line = x.line /\ e.column <= x.column BY <2>3, <2>5, <2>8, <2>9
      <4> QED BY <4>1, Orders
    <3>2. BeforeOrAt(x, y) BY <2>8, Orders
    <3>3. BeforeOrAt(y, f)
      <4>1. l + 1 < k \/ (l + 1 = k /\ 0 <= To(r)) BY <1>2, <2>3
      <4> QED BY <2>8, <2>9, <4>1, Orders
    <3> QED BY <3>1, <3>2, <3>3, OrderLaws
  <2>11. g.start = x /\ g.end = y BY <2>6, <2>7 DEF Range2
  <2>12. contains(r, g) /\ Touch(r, g) BY <2>7, <2>10, <2>11 DEF contains, Touch
  <2>13. ASSUME NEW j \in 1 .. Len(R), j # i PROVE ~Touch(R[j], g)
    <3>1. PICK s : s = R[j] OBVIOUS
    <3>2. s \in Marks BY <1>1, <3>1, RangeTypes
    <3>3. Before(s.end, c) \/ Before(a, s.start) BY <2>1, <2>13, <3>1 DEF Alone
    <3>4. PICK b \in Spots, t \in Spots : b = s.start /\ t = s.end
      BY <3>2, MarkFacts
    <3>5. BeforeOrAt(c, x) /\ BeforeOrAt(y, a)
      <4>1. BeforeOrAt(c, x) BY <1>1, <1>2, <2>5, <2>8, Orders
      <4>2. l + 1 < k \/ (l + 1 = k /\ 0 <= v) BY <1>2
      <4>3. BeforeOrAt(y, a) BY <1>1, <1>2, <2>8, <4>2, Orders
      <4> QED BY <4>1, <4>3
    <3>6. Before(t, c) => ~BeforeOrAt(x, t) BY <1>1, <3>5, OrderLaws
    <3>7. Before(a, b) => ~BeforeOrAt(b, y) BY <1>1, <3>5, OrderLaws
    <3> QED BY <2>11, <3>1, <3>3, <3>4, <3>6, <3>7 DEF Touch
  <2>14. i = rangeAt(d, g)
    <3>1. PICK o : o = rangeAt(d, g) OBVIOUS
    <3>2. /\ o \in 0 .. Len(R)
          /\ o # 0 => Touch(R[o], g)
          /\ o = 0 => \A j \in 1 .. Len(R) : ~Touch(R[j], g)
      BY <1>1, <2>4, <3>1, RangeFound
    <3>3. o # 0 BY <2>2, <2>12, <3>2
    <3>4. o \in 1 .. Len(R) BY <3>2, <3>3
    <3>5. o = i BY <2>13, <3>2, <3>3, <3>4
    <3> QED BY <3>1, <3>5
  <2>15. PICK m, n : /\ m = Strip(l, From(r), w, r.name, r.color)
                     /\ n = Strip(k, 0, To(r), NoName, r.color) OBVIOUS
  <2>16. PICK T : splitAtNewline(DocOf(L, R, C), l) = DocOf(L, T, C) /\ IsBoth(R, T, i, m, n)
    <3>1. w = lineLength(DocOf(L, R, C), l) /\ i = rangeAt(DocOf(L, R, C), g)
      BY <2>4, <2>5, <2>14
    <3> QED BY <1>1, <2>2, <2>3, <2>6, <2>12, <2>15, <3>1, NewlineIsSplit
  <2>17. PICK S : IsSet(R, S, i, m) /\ T = Append(S, n) BY <2>16 DEF IsBoth
  <2>18. m = Strip(c.line, From(r), Len(L[c.line + 1]), r.name, r.color)
    BY <1>2, <2>5, <2>15
  <2>19. n = Strip(a.line, 0, To(r), NoName, r.color) BY <1>2, <2>15
  <2>20. Pend(L, T, C, c, a, c.line, u)
    BY <2>1, <2>2, <2>17, <2>18, <2>19, NewlineOpens
  <2> QED BY <1>2, <2>16, <2>20
<1>5. CASE ~\E j \in 1 .. Len(R) : Around(R[j], c, a) /\ Alone(R, j, c, a)
  <2>1. \A j \in 1 .. Len(R) : Flat(R[j]) BY <1>1, <1>5 DEF Parted
  <2>2. Sound(L, R, C) BY <1>1, <2>1 DEF Sound
  <2>3. splitAtNewline(DocOf(L, R, C), l) = DocOf(L, R, C)
    BY <1>3, <2>2, FlatNotSplit
  <2>4. Pend(L, R, C, c, a, c.line, u) BY <2>1, FlatPends
  <2> QED BY <1>2, <2>3, <2>4
<1> QED BY <1>4, <1>5

\* One line of a change of several is coloured.
LEMMA LineDone ==
    ASSUME NEW L, NEW R, NEW C, NEW c, NEW a, NEW u, Written(L, c, a, u), c.line < a.line,
           NEW n \in Nat, c.line <= n, n <= a.line, Pend(L, R, C, c, a, n, u),
           NEW d, splitAtNewline(d, n) = DocOf(L, R, C), d.lines = L,
           NEW g, g = Range2(c, a)
    PROVE  \E T, E : ChangedLine(d, g, u, n) = DocOf(L, T, E) /\ Pend(L, T, E, c, a, n + 1, u)
<1>1. IsLines(L) /\ c \in Spots /\ a \in Spots /\ a.line \in 0 .. Len(L) - 1 /\ Len(L) \in Nat
  BY InLinesSpot, LineFacts DEF Written, Pend, Sound, Grounded
<1>2. PICK p, q, k, m \in Nat : p = c.line /\ q = c.column /\ k = a.line /\ m = a.column
  BY <1>1, Orders
<1>3. PICK w \in Nat : w = lineLength(d, n) /\ w = Len(L[n + 1])
  <2>1. n \in 0 .. Len(L) - 1 BY <1>1, <1>2
  <2> QED BY <1>1, <2>1, LineFacts DEF lineLength
<1>4. g.start = c /\ g.end = a BY DEF Range2
<1>5. CASE w = 0
  <2>1. ChangedLine(d, g, u, n) = DocOf(L, R, C) BY <1>3, <1>5 DEF ChangedLine
  <2>2. Pend(L, R, C, c, a, n + 1, u) BY <1>3, <1>5, EmptyPends
  <2> QED BY <2>1, <2>2
<1>6. CASE w # 0
  <2>1. PICK x, y : x = Cursor(n, Lo(c, n)) /\ y = Cursor(n, Hi(L, a, n)) OBVIOUS
  <2>2. x = IF n = g.start.line THEN g.start ELSE Cursor(n, 0)
    BY <1>1, <1>4, <2>1, Orders DEF Lo
  <2>3. y = IF n = g.end.line /\ n # g.start.line THEN g.end ELSE Cursor(n, lineLength(d, n))
    <3>1. n = k => n # p BY <1>2
    <3>2. y = IF n = k THEN Cursor(n, m) ELSE Cursor(n, w)
      BY <1>2, <1>3, <2>1 DEF Hi
    <3>3. n = k => a = Cursor(n, m)
      <4>1. Cursor(k, m) \in Spots /\ Cursor(k, m).line = k /\ Cursor(k, m).column = m
        BY Orders
      <4> QED BY <1>1, <1>2, <4>1, Orders
    <3> QED BY <1>2, <1>3, <1>4, <3>1, <3>2, <3>3
  <2>4. PICK e : e = DocOf(L, R, C) OBVIOUS
  <2>5. ChangedLine(d, g, u, n) = ChangedInLine(e, Range2(x, y), u)
    BY <1>3, <1>6, <2>2, <2>3, <2>4 DEF ChangedLine
  <2>6. \E T, E : ChangedInLine(e, Range2(x, y), u) = DocOf(L, T, E) /\ Pend(L, T, E, c, a, n + 1, u)
    BY <2>1, <2>4, LinePends
  <2> QED BY <2>5, <2>6
<1> QED BY <1>5, <1>6

\* The lines of a change, one after the other, as an equation
ChangesAre(f, d, range, user, n) ==
    f = [k \in 0 .. n |-> IF k = 0 THEN cleanupRanges(d)
                          ELSE ChangedLine(f[k - 1], range, user, range.start.line + k - 1)]

\* The states between them exist.
LEMMA ChangesExist ==
    ASSUME NEW d, NEW range, NEW user, NEW n \in Nat
    PROVE  \E f : ChangesAre(f, d, range, user, n)
<1> DEFINE S == {m \in 0 .. n : \E f : ChangesAre(f, d, range, user, m)}
<1>1. 0 \in S
  <2>1. ChangesAre([k \in 0 .. 0 |-> cleanupRanges(d)], d, range, user, 0)
    BY DEF ChangesAre
  <2> QED BY <2>1
<1>2. ASSUME NEW i \in 0 .. n - 1, i \in S PROVE i + 1 \in S
  <2>1. PICK f : ChangesAre(f, d, range, user, i) BY <1>2
  <2>2. PICK g : LongerBy(g, f, i, ChangedLine(f[i], range, user, range.start.line + (i + 1) - 1))
    BY OneMore
  <2>3. \A k \in 0 .. i + 1 : g[k] = IF k = 0 THEN cleanupRanges(d)
                              ELSE ChangedLine(g[k - 1], range, user, range.start.line + k - 1)
    BY <2>1, <2>2 DEF LongerBy, ChangesAre
  <2>4. ChangesAre(g, d, range, user, i + 1) BY <2>2, <2>3 DEF LongerBy, ChangesAre
  <2> QED BY <2>4
<1>3. n \in S
  <2> HIDE DEF S
  <2> QED BY <1>1, <1>2, UpTo
<1> QED BY <1>3

\* The lines of a change of several, one after the other
LEMMA LinesDone ==
    ASSUME NEW L, NEW R, NEW C, NEW c, NEW a, NEW u, Torn(L, R, C, c, a, u), u \in Users,
           c.line < a.line, FewUsers => HuesApart(C) /\ Outside(L, R, C, c, a),
           NEW d, d = DocOf(L, R, C), NEW g, g = Range2(c, a)
    PROVE  \E T, E : userChangedText(d, g, u) = DocOf(L, T, E) /\ Pend(L, T, E, c, a, a.line + 1, u)
<1>1. Written(L, c, a, u) /\ IsLines(L) /\ R \in Seq(Marks)
  BY DEF Torn, Written, Grounded
<1>2. /\ c \in Spots /\ a \in Spots /\ Len(L) \in Nat
      /\ c.line \in 0 .. Len(L) - 1 /\ a.line \in 0 .. Len(L) - 1
  BY <1>1, InLinesSpot, LineFacts DEF Written
<1>3. PICK p, k \in Nat : p = c.line /\ k = a.line BY <1>2, Orders
<1>4. PICK n \in Nat : n = k - p + 1 BY <1>3
<1>5. p < k /\ k < Len(L) BY <1>2, <1>3
<1>6. g.start = c /\ g.end = a BY DEF Range2
<1> DEFINE f == CHOOSE f : ChangesAre(f, d, g, u, n)
<1>7. ChangesAre(f, d, g, u, n) BY ChangesExist
<1>8. userChangedText(d, g, u) = f[n]
  BY <1>3, <1>4, <1>5, <1>6, <1>7 DEF userChangedText, ChangesAre
<1> HIDE DEF f
<1>9. /\ f[0] = cleanupRanges(d)
      /\ \A j \in 1 .. n : f[j] = ChangedLine(f[j - 1], g, u, p + j - 1)
  <2>1. f = [j \in 0 .. n |-> IF j = 0 THEN cleanupRanges(d)
                              ELSE ChangedLine(f[j - 1], g, u, p + j - 1)]
    BY <1>3, <1>6, <1>7 DEF ChangesAre
  <2> QED BY <2>1
<1>10. PICK Q : cleanupRanges(d) = DocOf(L, Q, C) /\ CleanTo(R, Q, Len(R))
  BY <1>1, CleanedUp
<1>11. /\ Torn(L, Q, C, c, a, u)
       /\ FewUsers => HuesApart(C) /\ Outside(L, Q, C, c, a)
       /\ \A j \in 1 .. Len(Q) : ~isEmpty(Q[j])
  BY <1>10, CleanedTorn DEF CleanTo
<1> DEFINE Done(j) == \E T, E : f[j] = DocOf(L, T, E) /\ Pend(L, T, E, c, a, p + j, u)
           S == {j \in 0 .. n : j = 0 \/ Done(j)}
<1>12. Done(1)
  <2>1. PICK e : e = DocOf(L, Q, C) /\ e.lines = L BY DocFacts
  <2>2. PICK T : splitAtNewline(e, p) = DocOf(L, T, C) /\ Pend(L, T, C, c, a, p, u)
    BY <1>3, <1>11, <2>1, FirstSplit
  <2>3. \E V, E : ChangedLine(e, g, u, p) = DocOf(L, V, E) /\ Pend(L, V, E, c, a, p + 1, u)
    BY <1>1, <1>3, <1>5, <2>1, <2>2, LineDone
  <2>4. f[1] = ChangedLine(e, g, u, p)
    <3>1. 1 \in 1 .. n /\ p + 1 - 1 = p /\ 1 - 1 = 0 BY <1>4, <1>5
    <3>2. f[1] = ChangedLine(f[1 - 1], g, u, p + 1 - 1) BY <1>9, <3>1
    <3> QED BY <1>9, <1>10, <2>1, <3>1, <3>2
  <2> QED BY <2>3, <2>4
<1>13. ASSUME NEW j \in 1 .. n - 1, Done(j) PROVE Done(j + 1)
  <2>1. PICK T, E : f[j] = DocOf(L, T, E) /\ Pend(L, T, E, c, a, p + j, u) BY <1>13
  <2>2. PICK l \in Nat : l = p + j OBVIOUS
  <2>3. l \in 0 .. Len(L) - 1 /\ p <= l /\ l <= k BY <1>4, <1>5, <2>2
  <2>4. PICK e : e = DocOf(L, T, E) /\ e.lines = L BY DocFacts
  <2>5. splitAtNewline(e, l) = DocOf(L, T, E)
    BY <2>1, <2>3, <2>4, FlatNotSplit DEF Pend
  <2>6. Pend(L, T, E, c, a, l, u) BY <2>1, <2>2
  <2>7. \E V, F : ChangedLine(e, g, u, l) = DocOf(L, V, F) /\ Pend(L, V, F, c, a, l + 1, u)
    BY <1>1, <1>3, <1>5, <2>3, <2>4, <2>5, <2>6, LineDone
  <2>8. f[j + 1] = ChangedLine(e, g, u, l)
    <3>1. j + 1 \in 1 .. n /\ p + (j + 1) - 1 = l /\ (j + 1) - 1 = j BY <2>2
    <3>2. f[j + 1] = ChangedLine(f[(j + 1) - 1], g, u, p + (j + 1) - 1)
      BY <1>9, <3>1
    <3> QED BY <2>1, <2>4, <3>1, <3>2
  <2>9. l + 1 = p + (j + 1) BY <2>2
  <2> QED BY <2>7, <2>8, <2>9
<1>14. \A j \in 0 .. n : j \in S
  <2>1. 0 \in S OBVIOUS
  <2>2. ASSUME NEW j \in 0 .. n - 1, j \in S PROVE j + 1 \in S
    <3> HIDE DEF Done
    <3>1. j + 1 \in 0 .. n OBVIOUS
    <3>2. CASE j = 0 BY <1>12, <3>1, <3>2
    <3>3. CASE j # 0 BY <1>13, <2>2, <3>1, <3>3
    <3> QED BY <3>2, <3>3
  <2> HIDE DEF S
  <2> QED BY <2>1, <2>2, UpTo
<1>15. Done(n) /\ p + n = a.line + 1
  <2> HIDE DEF Done
  <2>1. n \in 0 .. n /\ n # 0 /\ p + n = k + 1 BY <1>4, <1>5
  <2> QED BY <1>3, <1>14, <2>1
<1> QED BY <1>8, <1>15

\* The highlighting of what a user inserted
Coloured(L, R, C, c, a, u) ==
    \E T, E : /\ userChangedText(DocOf(L, R, C), Range2(c, a), u) = DocOf(L, T, E)
              /\ Sound(L, T, E)
              /\ FewUsers => HuesApart(E) /\ Whole(L, T, E)

\* What a user inserted is highlighted, and all else as it was.
LEMMA UserChanged ==
    ASSUME NEW L, NEW R, NEW C, NEW c, NEW a, NEW u, Torn(L, R, C, c, a, u), u \in Users,
           FewUsers => HuesApart(C) /\ Outside(L, R, C, c, a)
    PROVE  Coloured(L, R, C, c, a, u)
<1>1. /\ Written(L, c, a, u) /\ Grounded(L, R, C) /\ Parted(R, c, a)
      /\ c \in Spots /\ a \in Spots /\ BeforeOrAt(c, a)
  BY InLinesSpot DEF Torn, Written
<1>2. PICK p, k \in Nat : p = c.line /\ k = a.line /\ p <= k BY <1>1, Orders
<1>3. PICK d : d = DocOf(L, R, C) OBVIOUS
<1>4. PICK g : g = Range2(c, a) OBVIOUS
<1>5. \E T, E : userChangedText(d, g, u) = DocOf(L, T, E) /\ Pend(L, T, E, c, a, a.line + 1, u)
  <2>1. CASE p = k
    <3>1. userChangedText(d, g, u) = ChangedInLine(d, g, u)
      BY <1>2, <1>4, <2>1 DEF userChangedText, Range2
    <3>2. ASSUME NEW i \in 1 .. Len(R) PROVE Flat(R[i])
      <4>1. R[i] \in Marks /\ BeforeOrAt(R[i].start, R[i].end)
        BY <1>1, RangeTypes DEF Grounded
      <4>2. PICK x \in Spots, y \in Spots : x = R[i].start /\ y = R[i].end
        BY <4>1, MarkFacts
      <4>3. x.line = y.line => x.column <= y.column
        <5>1. x.line < y.line \/ (x.line = y.line /\ x.column <= y.column)
          BY <4>1, <4>2, Orders
        <5>2. x.line \in Nat /\ y.line \in Nat BY Orders
        <5> QED BY <5>1, <5>2
      <4>4. Around(R[i], c, a) => x.line = y.line BY <1>2, <2>1, <4>2 DEF Around
      <4>5. Around(R[i], c, a) => Flat(R[i]) BY <4>2, <4>3, <4>4 DEF Flat
      <4> QED BY <1>1, <4>5 DEF Parted
    <3>3. Pend(L, R, C, c, a, c.line, u) BY <3>2, FlatPends
    <3>4. c = Cursor(p, Lo(c, p)) /\ a = Cursor(p, Hi(L, a, p))
      <4>1. Lo(c, p) = c.column /\ Hi(L, a, p) = a.column BY <1>2, <2>1 DEF Lo, Hi
      <4>2. c = Cursor(c.line, c.column) BY <1>1, Orders
      <4>3. a = Cursor(a.line, a.column) BY <1>1, Orders
      <4> QED BY <1>2, <2>1, <4>1, <4>2, <4>3
    <3>5. g = Range2(Cursor(p, Lo(c, p)), Cursor(p, Hi(L, a, p))) BY <1>4, <3>4
    <3>6. Pend(L, R, C, c, a, p, u) /\ c.line <= p /\ p <= a.line BY <1>2, <3>3
    <3>7. \E T, E : ChangedInLine(d, g, u) = DocOf(L, T, E) /\ Pend(L, T, E, c, a, p + 1, u)
      BY <1>1, <1>3, <3>5, <3>6, LinePends
    <3>8. a.line + 1 = p + 1 BY <1>2, <2>1
    <3> QED BY <3>1, <3>7, <3>8
  <2>2. CASE p < k BY <1>2, <1>3, <1>4, <2>2, LinesDone
  <2> QED BY <1>2, <2>1, <2>2
<1>6. PICK T, E : userChangedText(d, g, u) = DocOf(L, T, E) /\ Pend(L, T, E, c, a, a.line + 1, u)
  BY <1>5
<1>7. Sound(L, T, E) /\ (FewUsers => HuesApart(E) /\ Whole(L, T, E))
  BY <1>1, <1>6, PendEnds
<1> QED BY <1>3, <1>4, <1>6, <1>7 DEF Coloured

-----------------------------------------------------------------------------
(* What a removal does to the ranges *)

\* Where a cursor is when all between two others was removed
Pulled(x, c, e) == IF BeforeOrAt(x, c) THEN x ELSE IF BeforeOrAt(x, e) THEN c ELSE Shift(x, e, c)

\* A range, and all of them
PulledMark(r, c, e) == Mark(Pulled(r.start, c, e), Pulled(r.end, c, e), r.name, r.color)
PulledAll(R, c, e) == [i \in DOMAIN R |-> PulledMark(R[i], c, e)]

\* A cursor that is pulled is on the same side of the removal.
LEMMA PulledPlace ==
    ASSUME NEW c \in Spots, NEW e \in Spots, BeforeOrAt(c, e), NEW x \in Spots
    PROVE  /\ Pulled(x, c, e) \in Spots
           /\ BeforeOrAt(x, c) => Pulled(x, c, e) = x
           /\ ~BeforeOrAt(x, c) => BeforeOrAt(c, Pulled(x, c, e)) /\ Before(c, x)
           /\ ~BeforeOrAt(x, c) /\ BeforeOrAt(x, e) => Pulled(x, c, e) = c
           /\ BeforeOrAt(x, e) => BeforeOrAt(Pulled(x, c, e), c)
           /\ BeforeOrAt(e, x) => /\ Pulled(x, c, e) = Shift(x, e, c)
                                 /\ BeforeOrAt(c, Pulled(x, c, e))
           /\ BeforeOrAt(e, x) /\ x.line = e.line => Pulled(x, c, e).line = c.line
<1>1. BeforeOrAt(x, c) => Pulled(x, c, e) = x BY DEF Pulled
<1>2. ~BeforeOrAt(x, c) /\ BeforeOrAt(x, e) => Pulled(x, c, e) = c BY DEF Pulled
<1>3. ~BeforeOrAt(x, c) /\ ~BeforeOrAt(x, e) => Pulled(x, c, e) = Shift(x, e, c)
  BY DEF Pulled
<1>4. ~BeforeOrAt(x, e) => BeforeOrAt(e, x) BY OrderLaws
<1>5. BeforeOrAt(e, x) => Shift(x, e, c) \in Spots /\ BeforeOrAt(c, Shift(x, e, c))
  BY ShiftOrder
<1>6. ~BeforeOrAt(x, c) => Before(c, x) BY OrderLaws
<1>7. BeforeOrAt(e, x) => Pulled(x, c, e) = Shift(x, e, c)
  <2>1. BeforeOrAt(e, x) /\ BeforeOrAt(x, e) => x = e BY OrderLaws
  <2>2. x = e => Shift(x, e, c) = c BY OrderLaws, ShiftOrder
  <2>3. x = e /\ BeforeOrAt(x, c) => x = c BY OrderLaws
  <2>4. BeforeOrAt(e, x) /\ BeforeOrAt(x, c) => BeforeOrAt(x, e) /\ BeforeOrAt(e, c)
    BY OrderLaws
  <2> QED BY <1>1, <1>2, <1>3, <2>1, <2>2, <2>3, <2>4
<1>8. BeforeOrAt(x, e) => BeforeOrAt(Pulled(x, c, e), c) BY <1>1, <1>2, OrderLaws
<1>9. BeforeOrAt(e, x) /\ x.line = e.line => Shift(x, e, c).line = c.line
  BY OrderLaws, ShiftSame
<1>10. Pulled(x, c, e) \in Spots BY <1>1, <1>2, <1>3, <1>4, <1>5
<1>11. ~BeforeOrAt(x, c) => BeforeOrAt(c, Pulled(x, c, e)) /\ Before(c, x)
  <2>1. BeforeOrAt(c, c) BY OrderLaws
  <2> QED BY <1>2, <1>3, <1>4, <1>5, <1>6, <2>1
<1> QED BY <1>1, <1>2, <1>5, <1>7, <1>8, <1>9, <1>10, <1>11

\* What is not behind another is not when both are pulled, nor leaves its line.
LEMMA PulledOrder ==
    ASSUME NEW c \in Spots, NEW e \in Spots, BeforeOrAt(c, e), NEW x \in Spots, NEW y \in Spots,
           BeforeOrAt(x, y), NEW v, v = Pulled(x, c, e), NEW w, w = Pulled(y, c, e)
    PROVE  BeforeOrAt(v, w) /\ (x.line = y.line => v.line = w.line)
<1>1. v \in Spots /\ w \in Spots BY PulledPlace
<1>2. PICK xl, yl, cl, el \in Nat : xl = x.line /\ yl = y.line /\ cl = c.line /\ el = e.line
  BY Orders
<1>3. CASE BeforeOrAt(y, c)
  <2>1. BeforeOrAt(x, c) BY <1>3, OrderLaws
  <2>2. v = x /\ w = y BY <1>3, <2>1, PulledPlace
  <2> QED BY <2>2
<1>4. CASE ~BeforeOrAt(y, c) /\ BeforeOrAt(x, c)
  <2>1. v = x /\ BeforeOrAt(c, w) /\ BeforeOrAt(c, y)
    BY <1>4, PulledPlace, OrderLaws
  <2>2. BeforeOrAt(v, w) BY <1>1, <1>4, <2>1, OrderLaws
  <2>3. xl <= cl /\ cl <= yl BY <1>2, <1>4, <2>1, Orders
  <2>4. CASE BeforeOrAt(y, e)
    <3>1. w = c BY <1>4, <2>4, PulledPlace
    <3> QED BY <1>2, <2>1, <2>2, <2>3, <3>1
  <2>5. CASE BeforeOrAt(e, y)
    <3>1. (y.line = e.line => w.line = c.line) BY <2>5, PulledPlace
    <3>2. cl <= el /\ el <= yl BY <1>2, <2>5, Orders
    <3> QED BY <1>2, <2>1, <2>2, <2>3, <3>1, <3>2
  <2> QED BY <2>4, <2>5, OrderLaws
<1>5. CASE ~BeforeOrAt(x, c) /\ BeforeOrAt(y, e)
  <2>1. BeforeOrAt(x, e) /\ Before(c, x) BY <1>5, OrderLaws
  <2>2. ~BeforeOrAt(y, c) BY <1>5, OrderLaws
  <2>3. v = c /\ w = c BY <1>5, <2>1, <2>2, PulledPlace
  <2> QED BY <2>3, OrderLaws
<1>6. CASE ~BeforeOrAt(x, c) /\ BeforeOrAt(x, e) /\ BeforeOrAt(e, y)
  <2>1. v = c /\ w = Shift(y, e, c) BY <1>6, PulledPlace
  <2>2. BeforeOrAt(v, w) /\ (y.line = e.line => w.line = c.line)
    <3>1. BeforeOrAt(c, w) BY <1>6, PulledPlace
    <3>2. y.line = e.line => w.line = c.line BY <1>6, PulledPlace
    <3> QED BY <2>1, <3>1, <3>2
  <2>3. xl <= el /\ el <= yl BY <1>2, <1>6, Orders
  <2> QED BY <1>2, <2>1, <2>2, <2>3
<1>7. CASE BeforeOrAt(e, x) /\ BeforeOrAt(e, y)
  <2>1. v = Shift(x, e, c) /\ w = Shift(y, e, c) BY <1>7, PulledPlace
  <2>2. /\ BeforeOrAt(x, y) => BeforeOrAt(Shift(x, e, c), Shift(y, e, c))
        /\ x.line = y.line => Shift(x, e, c).line = Shift(y, e, c).line
    BY <1>7, ShiftOrder
  <2> QED BY <2>1, <2>2
<1> QED
  <2>1. BeforeOrAt(y, e) \/ BeforeOrAt(e, y) BY OrderLaws
  <2>2. BeforeOrAt(x, e) \/ (BeforeOrAt(e, x) /\ BeforeOrAt(e, y)) BY OrderLaws
  <2> QED BY <1>3, <1>4, <1>5, <1>6, <1>7, <2>1, <2>2

\* A range covers what is left of what it did.
LEMMA PulledSees ==
    ASSUME NEW c \in Spots, NEW e \in Spots, BeforeOrAt(c, e), NEW x \in Spots, NEW y \in Spots,
           (x = y /\ Before(x, c)) \/ (BeforeOrAt(e, x) /\ y = Shift(x, e, c)),
           NEW z \in Spots, NEW v, v = Pulled(z, c, e)
    PROVE  (BeforeOrAt(v, y) <=> BeforeOrAt(z, x)) /\ (Before(y, v) <=> Before(x, z))
<1>1. v \in Spots BY PulledPlace
<1>2. BeforeOrAt(v, y) <=> BeforeOrAt(z, x)
  <2>1. CASE x = y /\ Before(x, c)
    <3>1. CASE BeforeOrAt(z, c) BY <2>1, <3>1, PulledPlace
    <3>2. CASE ~BeforeOrAt(z, c)
      <4>1. BeforeOrAt(c, v) /\ Before(c, z) BY <3>2, PulledPlace
      <4>2. Before(y, v) /\ Before(x, z)
        <5>1. BeforeOrAt(c, z) BY <4>1, OrderLaws
        <5> QED BY <1>1, <2>1, <4>1, <5>1, OrderLaws
      <4> QED BY <1>1, <4>2, OrderLaws
    <3> QED BY <3>1, <3>2
  <2>2. CASE BeforeOrAt(e, x) /\ y = Shift(x, e, c)
    <3>1. BeforeOrAt(c, y) BY <2>2, ShiftOrder
    <3>2. CASE BeforeOrAt(z, e)
      <4>1. BeforeOrAt(z, x) BY <2>2, <3>2, OrderLaws
      <4>2. BeforeOrAt(v, c) BY <3>2, PulledPlace
      <4>3. BeforeOrAt(v, y) BY <1>1, <3>1, <4>2, OrderLaws
      <4> QED BY <4>1, <4>3
    <3>3. CASE BeforeOrAt(e, z)
      <4>1. v = Shift(z, e, c) BY <3>3, PulledPlace
      <4>2. BeforeOrAt(z, x) <=> BeforeOrAt(Shift(z, e, c), Shift(x, e, c))
        BY <2>2, <3>3, ShiftOrder
      <4> QED BY <2>2, <4>1, <4>2
    <3> QED BY <3>2, <3>3, OrderLaws
  <2> QED BY <2>1, <2>2
<1>3. Before(y, v) <=> ~BeforeOrAt(v, y) BY <1>1, OrderLaws
<1>4. Before(x, z) <=> ~BeforeOrAt(z, x) BY OrderLaws
<1> QED BY <1>2, <1>3, <1>4

\* The ranges of a document without a part of its text
LEMMA RangesPulled ==
    ASSUME NEW L, NEW R, NEW C, Grounded(L, R, C), NEW c, InLines(L, c), NEW e, InLines(L, e),
           BeforeOrAt(c, e)
    PROVE  removeText(DocOf(L, R, C), c, e) = DocOf(WithoutText(L, c, e), PulledAll(R, c, e), C)
<1>1. c \in Spots /\ e \in Spots /\ IsLines(L) /\ Line(L, e.line) = L[e.line + 1]
  BY InLinesSpot, InLinesFacts DEF Grounded
<1>2. \A i \in DOMAIN R : R[i] \in Marks /\ BeforeOrAt(R[i].start, R[i].end)
  BY RangeTypes DEF Grounded
<1> DEFINE After(x) == IF BeforeOrAt(x, c) THEN x
                       ELSE IF BeforeOrAt(x, e) THEN c
                       ELSE IF x.line = e.line
                       THEN Cursor(c.line, c.column + x.column - e.column)
                       ELSE Cursor(x.line - (e.line - c.line), x.column)
<1>3. ASSUME NEW x \in Spots PROVE After(x) = Pulled(x, c, e)
  <2>1. PICK xl, xc, cl, cc, el, ec \in Nat :
            /\ xl = x.line /\ xc = x.column /\ cl = c.line /\ cc = c.column
            /\ el = e.line /\ ec = e.column
    BY <1>1, Orders
  <2>2. cc + xc - ec = cc + (xc - ec) /\ xl - (el - cl) = xl - el + cl OBVIOUS
  <2> QED BY <2>1, <2>2 DEF Pulled, Shift
<1> HIDE DEF After
<1>4. PICK F : F = [i \in DOMAIN R |-> Moved(EndsSet(R[i], After(R[i].start), After(R[i].end)))]
  OBVIOUS
<1>5. removeText(DocOf(L, R, C), c, e) = DocOf(WithoutText(L, c, e), F, C)
  <2>1. PICK d : d = DocOf(L, R, C) /\ d.lines = L /\ d.ranges = R BY DocFacts
  <2>2. F = [i \in DOMAIN d.ranges |->
                 Moved([d.ranges[i] EXCEPT !.start = After(@), !.end = After(@)])]
    BY <1>4, <2>1 DEF EndsSet
  <2>3. removeText(d, c, e) = [d EXCEPT !.lines = WithoutText(d.lines, c, e), !.ranges = F]
    BY <1>1, <2>1, <2>2 DEF removeText, WithoutText, JoinedLine, After
  <2>4. PICK N : N = WithoutText(L, c, e) OBVIOUS
  <2>5. removeText(d, c, e) = TextSet(d, N, F) BY <2>1, <2>3, <2>4 DEF TextSet
  <2> QED BY <2>1, <2>4, <2>5, DocSet
<1>6. ASSUME NEW i \in DOMAIN R PROVE F[i] = PulledMark(R[i], c, e)
  <2>1. PICK p \in Spots, q \in Spots : p = R[i].start /\ q = R[i].end
    BY <1>2, MarkFacts
  <2>2. PICK r, m, col : r = R[i] /\ r = Mark(p, q, m, col) /\ r.name = m /\ r.color = col
    BY <1>2, <2>1, MarkFacts
  <2>3. PICK x, y : x = Pulled(p, c, e) /\ y = Pulled(q, c, e) OBVIOUS
  <2>4. x = After(p) /\ y = After(q) BY <1>3, <2>3
  <2>5. F[i] = Moved(EndsSet(r, x, y)) BY <1>4, <2>1, <2>2, <2>4
  <2>6. F[i] = Moved(Mark(x, y, m, col)) BY <2>2, <2>5, MarkSet
  <2>7. x \in Spots /\ y \in Spots /\ BeforeOrAt(x, y)
    <3>1. BeforeOrAt(p, q) BY <1>2, <2>1
    <3> QED BY <1>1, <2>3, <3>1, PulledOrder, PulledPlace
  <2>8. ~Before(y, x) BY <2>7, OrderLaws
  <2>9. Moved(Mark(x, y, m, col)) = Mark(x, y, m, col) BY <2>8, MarkFacts DEF Moved
  <2> QED BY <2>1, <2>2, <2>3, <2>6, <2>9 DEF PulledMark
<1>7. F = PulledAll(R, c, e) BY <1>4, <1>6 DEF PulledAll
<1> QED BY <1>5, <1>7

\* A document stays sound when a part of its text is removed, and shown right.
LEMMA RemovedSound ==
    ASSUME NEW L, NEW R, NEW C, Sound(L, R, C), NEW c, InLines(L, c), NEW e, InLines(L, e),
           BeforeOrAt(c, e), NEW N, N = WithoutText(L, c, e), NEW T, T = PulledAll(R, c, e)
    PROVE  Sound(N, T, C) /\ (Whole(L, R, C) => Whole(N, T, C))
<1>1. /\ Grounded(L, R, C) /\ Apart(R) /\ IsLines(L) /\ Palette(C) /\ c \in Spots /\ e \in Spots
      /\ R \in Seq(Marks)
      /\ \A i \in 1 .. Len(R) : /\ Flat(R[i]) /\ BeforeOrAt(R[i].start, R[i].end)
                                /\ Within(L, R[i]) /\ Tied(C, R[i])
  BY InLinesSpot DEF Sound, Grounded
<1>2. IsLines(N) /\ InLines(N, c) /\ Upto(L, N, c) /\ Beyond(L, N, e, c)
  BY <1>1, TextRemoved
<1>3. PICK n \in Nat : n = Len(R) /\ DOMAIN R = 1 .. n /\ \A i \in 1 .. n : R[i] \in Marks
  BY <1>1, RangeTypes
<1>4. ASSUME NEW i \in 1 .. n
      PROVE  /\ T[i] \in Marks /\ T[i].color = R[i].color /\ T[i].name = R[i].name
             /\ T[i].start = Pulled(R[i].start, c, e) /\ T[i].end = Pulled(R[i].end, c, e)
  <2>1. PICK p \in Spots, q \in Spots : p = R[i].start /\ q = R[i].end
    BY <1>3, MarkFacts
  <2>2. PICK x \in Spots, y \in Spots : x = Pulled(p, c, e) /\ y = Pulled(q, c, e)
    BY <1>1, PulledPlace
  <2>3. PICK m \in Users \cup {NoName}, col \in Colors : m = R[i].name /\ col = R[i].color
    BY <1>3, MarkFacts
  <2>4. T[i] = Mark(x, y, m, col)
    BY <1>3, <2>1, <2>2, <2>3 DEF PulledAll, PulledMark
  <2> QED BY <2>1, <2>2, <2>3, <2>4, MarkFacts
<1>5. T \in Seq(Marks) /\ Len(T) = n
  <2>1. T = [i \in 1 .. n |-> PulledMark(R[i], c, e)] BY <1>3 DEF PulledAll
  <2>2. T \in [1 .. n -> Marks] BY <1>4, <2>1
  <2> QED BY <2>2, FunctionIsSequence
<1>6. ASSUME NEW x, InLines(L, x) PROVE InLines(N, Pulled(x, c, e))
  <2>1. x \in Spots BY <1>6, InLinesSpot
  <2>2. CASE BeforeOrAt(x, c)
    <3>1. InLines(N, x) BY <1>1, <1>2, <1>6, <2>2, BeforeKept
    <3> QED BY <1>1, <2>1, <2>2, <3>1, PulledPlace
  <2>3. CASE ~BeforeOrAt(x, c) /\ BeforeOrAt(x, e)
    BY <1>1, <1>2, <2>1, <2>3, PulledPlace
  <2>4. CASE BeforeOrAt(e, x)
    <3>1. InLines(N, Shift(x, e, c)) BY <1>1, <1>2, <1>6, <2>4, ShiftInLines
    <3> QED BY <1>1, <2>1, <2>4, <3>1, PulledPlace
  <2> QED BY <1>1, <2>1, <2>2, <2>3, <2>4, OrderLaws
<1>7. ASSUME NEW i \in 1 .. n
      PROVE  BeforeOrAt(T[i].start, T[i].end) /\ Within(N, T[i]) /\ Tied(C, T[i]) /\ Flat(T[i])
  <2>1. PICK p \in Spots, q \in Spots : p = R[i].start /\ q = R[i].end
    BY <1>3, MarkFacts
  <2>2. PICK x \in Spots, y \in Spots : x = Pulled(p, c, e) /\ y = Pulled(q, c, e)
    BY <1>1, PulledPlace
  <2>3. x = T[i].start /\ y = T[i].end BY <1>4, <2>1, <2>2
  <2>4. BeforeOrAt(x, y) /\ (p.line = q.line => x.line = y.line)
    <3>1. BeforeOrAt(p, q) BY <1>1, <1>3, <2>1
    <3> QED BY <1>1, <2>2, <3>1, PulledOrder
  <2>5. Flat(T[i])
    <3>1. p.line = q.line BY <1>1, <1>3, <2>1 DEF Flat
    <3>2. x.line \in Nat /\ y.line \in Nat /\ x.column \in Nat /\ y.column \in Nat
      BY Orders
    <3>3. x.line < y.line \/ (x.line = y.line /\ x.column <= y.column)
      BY <2>4, Orders
    <3> QED BY <2>3, <2>4, <3>1, <3>2, <3>3 DEF Flat
  <2>6. InLines(N, x) /\ InLines(N, y) BY <1>1, <1>3, <1>6, <2>1, <2>2 DEF Within
  <2>7. Tied(C, R[i]) BY <1>1, <1>3
  <2> QED BY <1>4, <2>3, <2>4, <2>5, <2>6, <2>7 DEF Within, Tied
<1>8. Grounded(N, T, C) BY <1>1, <1>2, <1>5, <1>7 DEF Grounded
<1>9. Apart(T)
  <2>1. SUFFICES ASSUME NEW i \in 1 .. n, NEW j \in 1 .. n, i # j PROVE Clear(T[i], T[j])
    BY <1>5 DEF Apart
  <2>2. Clear(R[i], R[j]) BY <1>1, <1>3, <2>1 DEF Apart
  <2>3. PICK p \in Spots, q \in Spots : p = R[i].start /\ q = R[i].end
    BY <1>3, MarkFacts
  <2>4. PICK f \in Spots, g \in Spots : f = R[j].start /\ g = R[j].end
    BY <1>3, MarkFacts
  <2>5. /\ T[i].start = Pulled(p, c, e) /\ T[i].end = Pulled(q, c, e)
        /\ T[j].start = Pulled(f, c, e) /\ T[j].end = Pulled(g, c, e)
    BY <1>4, <2>3, <2>4
  <2>6. p = q \/ f = g \/ BeforeOrAt(q, f) \/ BeforeOrAt(g, p)
    BY <2>2, <2>3, <2>4 DEF Clear, isEmpty
  <2>7. BeforeOrAt(q, f) => BeforeOrAt(Pulled(q, c, e), Pulled(f, c, e))
    BY <1>1, PulledOrder
  <2>8. BeforeOrAt(g, p) => BeforeOrAt(Pulled(g, c, e), Pulled(p, c, e))
    BY <1>1, PulledOrder
  <2> QED BY <2>5, <2>6, <2>7, <2>8 DEF Clear, isEmpty
<1>10. ASSUME Whole(L, R, C), NEW y, IsUnit(N, y) PROVE Right(N, T, C, y)
  <2>1. y \in Spots BY <1>10, InLinesSpot DEF IsUnit
  <2>2. PICK x : /\ IsUnit(L, x) /\ By(N, y) = By(L, x)
                 /\ (x = y /\ Before(x, c)) \/ (BeforeOrAt(e, x) /\ y = Shift(x, e, c))
    <3>1. CASE Before(y, c) BY <1>1, <1>2, <1>10, <3>1, BeforeKept
    <3>2. CASE BeforeOrAt(c, y)
      <4>1. \E x : /\ IsUnit(L, x) /\ BeforeOrAt(e, x) /\ y = Shift(x, e, c)
                   /\ By(N, y) = By(L, x)
        BY <1>1, <1>2, <1>10, <3>2, ShiftBack
      <4> QED BY <4>1
    <3> QED BY <1>1, <2>1, <3>1, <3>2, OrderLaws
  <2>3. x \in Spots BY <2>2, InLinesSpot DEF IsUnit
  <2>4. ASSUME NEW i \in 1 .. Len(R) PROVE Covers(T[i], y) <=> Covers(R[i], x)
    <3>1. PICK p \in Spots, q \in Spots : p = R[i].start /\ q = R[i].end
      BY <1>3, MarkFacts
    <3>2. PICK v, w : v = Pulled(p, c, e) /\ w = Pulled(q, c, e) OBVIOUS
    <3>3. v = T[i].start /\ w = T[i].end BY <1>3, <1>4, <3>1, <3>2
    <3>4. BeforeOrAt(v, y) <=> BeforeOrAt(p, x)
      BY <1>1, <2>1, <2>2, <2>3, <3>2, PulledSees
    <3>5. Before(y, w) <=> Before(x, q) BY <1>1, <2>1, <2>2, <2>3, <3>2, PulledSees
    <3> QED BY <3>1, <3>3, <3>4, <3>5 DEF Covers
  <2>5. Right(L, R, C, x) BY <1>10, <2>2 DEF Whole
  <2>6. Len(T) = Len(R) /\ \A i \in 1 .. Len(R) : T[i].color = R[i].color
    BY <1>3, <1>4, <1>5
  <2> QED BY <2>2, <2>4, <2>5, <2>6, RightKept
<1>11. Sound(N, T, C) BY <1>5, <1>7, <1>8, <1>9 DEF Sound
<1> QED BY <1>10, <1>11 DEF Whole

-----------------------------------------------------------------------------
(* What the edits do to the text and its highlighting *)

\* The editor shows a text: there are places at which its lines spell it.
Shows(d, text) == \E place : Holds(d, text, place)

\* The document's highlighting is in order, and shows who wrote what.
Marked(d) ==
    \E L, R, C : /\ d = DocOf(L, R, C) /\ Sound(L, R, C)
                 /\ FewUsers => HuesApart(C) /\ Whole(L, R, C)

\* A place is one of the document.
LEMMA HoldsFacts ==
    ASSUME NEW d, NEW text, NEW place, Holds(d, text, place)
    PROVE  /\ text \in Seq(Kinds) /\ Len(text) \in Nat
           /\ IsLines(d.lines) /\ Spelled(d.lines, text, place) /\ "lines" \in DOMAIN d
           /\ place[0] = Cursor(0, 0)
           /\ \A p \in 0 .. Len(text) :
                 /\ InLines(d.lines, place[p])
                 /\ offsetToCursor_kte(d.lines, p) = place[p]
                 /\ cursorToOffset_kte(d.lines, place[p]) = p
<1>1. /\ text \in Seq(Kinds) /\ IsLines(d.lines) /\ Spelled(d.lines, text, place)
      /\ "lines" \in DOMAIN d /\ Len(text) \in Nat
  BY LenProperties DEF Holds
<1>2. place[0] = Cursor(0, 0) BY <1>1 DEF Spelled
<1>3. ASSUME NEW p \in 0 .. Len(text)
      PROVE  /\ InLines(d.lines, place[p])
             /\ offsetToCursor_kte(d.lines, p) = place[p]
             /\ cursorToOffset_kte(d.lines, place[p]) = p
  <2>1. PICK z : z = 0 OBVIOUS
  <2>2. z \in 0 .. Len(text) /\ p \in 0 .. Len(text) - z /\ z + p = p BY <1>1, <2>1
  <2>3. offsetRelativeTo_kte(d.lines, place[z], p) = place[z + p]
    BY <1>1, <2>2, PlaceOfOffset
  <2>4. offsetToCursor_kte(d.lines, p) = place[p]
    BY <1>2, <2>1, <2>2, <2>3 DEF offsetToCursor_kte
  <2> QED BY <1>1, <2>4, SpelledFacts, OffsetOfPlace
<1> QED BY <1>1, <1>2, <1>3

\* The removal of a part of the text
LEMMA RemovalShows ==
    ASSUME NEW d, Marked(d), NEW text, NEW place, Holds(d, text, place),
           NEW p \in 0 .. Len(text), NEW q \in p .. Len(text),
           NEW t, t = Without(text, p, q), NEW e, e = removeText(d, place[p], place[q])
    PROVE  /\ Marked(e) /\ Upto(d.lines, e.lines, place[p]) /\ p \in 0 .. Len(t)
           /\ \E place2 : Holds(e, t, place2) /\ Reaches(place, place2, p, 0, place[p])
<1>1. /\ text \in Seq(Kinds) /\ Len(text) \in Nat /\ IsLines(d.lines) /\ Spelled(d.lines, text, place)
      /\ q \in 0 .. Len(text) /\ p \in Nat /\ q \in Nat
  BY HoldsFacts
<1>2. PICK b, c : b = place[p] /\ c = place[q] OBVIOUS
<1>3. InLines(d.lines, b) /\ InLines(d.lines, c) /\ BeforeOrAt(b, c)
  BY <1>1, <1>2, HoldsFacts, PlacesInOrder
<1>4. PICK L, R, C : /\ d = DocOf(L, R, C) /\ Sound(L, R, C)
                     /\ FewUsers => HuesApart(C) /\ Whole(L, R, C)
  BY DEF Marked
<1>5. InLines(L, b) /\ InLines(L, c) /\ Grounded(L, R, C)
  BY <1>3, <1>4, DocFacts DEF Sound
<1>6. PICK N, T : N = WithoutText(L, b, c) /\ T = PulledAll(R, b, c) OBVIOUS
<1>7. removeText(d, b, c) = DocOf(N, T, C) BY <1>3, <1>4, <1>5, <1>6, RangesPulled
<1>8. Sound(N, T, C) /\ (Whole(L, R, C) => Whole(N, T, C))
  BY <1>3, <1>4, <1>5, <1>6, RemovedSound
<1>9. Marked(e) BY <1>2, <1>4, <1>7, <1>8 DEF Marked
<1>10. p \in 0 .. Len(t)
  <2>1. IsSplice(t, text, p, << >>, text, q) BY <1>1, CutFacts DEF Without
  <2>2. Len(t) = p + 0 + (Len(text) - q) BY <2>1 DEF IsSplice
  <2> QED BY <1>1, <2>2
<1> QED BY <1>9, <1>10, PartRemoved

\* What an insertion of n characters at a place makes of a document
GrownBy(d, e, t, place, p, n, a) ==
    /\ Marked(e) /\ Upto(d.lines, e.lines, place[p]) /\ p \in 0 .. Len(t) /\ p + n \in 0 .. Len(t)
    /\ \E place2 : Holds(e, t, place2) /\ Reaches(place, place2, p, n, a)

\* A text with another one in it
With(text, p, ins) == SubSeq(text, 1, p) \o ins \o SubSeq(text, p + 1, Len(text))

\* The document i when a user has put in a text, and e with it coloured
Puts(d, c, ins, user, i, e) ==
    i = insertText(d, c, ins, user) /\ e = userChangedText(i.doc, Range2(c, i.at), user)

\* A text that a user puts in at a place, with the slot of the tracker that comes after it
LEMMA InsertionShows ==
    ASSUME NEW d, Marked(d), NEW text, NEW place, Holds(d, text, place),
           NEW p \in 0 .. Len(text), NEW ins \in Seq(Kinds), NEW user \in Users,
           NEW i, NEW e, Puts(d, place[p], ins, user, i, e)
    PROVE  e.lines = i.doc.lines /\ GrownBy(d, e, With(text, p, ins), place, p, Len(ins), i.at)
<1> DEFINE t == With(text, p, ins)
<1>1. user \in Users \cup {Nobody} /\ text \in Seq(Kinds) /\ Len(text) \in Nat /\ Len(ins) \in Nat
  BY HoldsFacts, LenProperties
<1>2. PICK c, a : c = place[p] /\ a = i.at OBVIOUS
<1>3. PICK L, R, C : /\ d = DocOf(L, R, C) /\ Sound(L, R, C)
                     /\ FewUsers => HuesApart(C) /\ Whole(L, R, C)
  BY DEF Marked
<1>4. InLines(L, c) BY <1>2, <1>3, HoldsFacts, DocFacts
<1>5. PICK s : s = [doc |-> d, at |-> c] OBVIOUS
<1>6. s.doc = DocOf(L, R, C) /\ s.at = c BY <1>3, <1>5
<1>7. Torn(L, R, C, c, c, user) /\ (FewUsers => Outside(L, R, C, c, c))
  BY <1>3, <1>4, SoundIsTorn
<1>8. Put(s, C, c, user) BY <1>6, <1>7 DEF Put
<1>9. Put(i, C, c, user) BY <1>1, <1>2, <1>5, <1>8, TextPut DEF Puts
<1>10. PICK N, T : /\ i.doc = DocOf(N, T, C) /\ Torn(N, T, C, c, a, user)
                   /\ FewUsers => Outside(N, T, C, c, a)
  BY <1>2, <1>9 DEF Put
<1>11. Coloured(N, T, C, c, a, user)
  <2>1. FewUsers => HuesApart(C) /\ Outside(N, T, C, c, a) BY <1>3, <1>10
  <2> QED BY <1>10, <2>1, UserChanged
<1>12. PICK V, E : /\ userChangedText(DocOf(N, T, C), Range2(c, a), user) = DocOf(N, V, E)
                   /\ Sound(N, V, E)
                   /\ FewUsers => HuesApart(E) /\ Whole(N, V, E)
  BY <1>11 DEF Coloured
<1>13. e = DocOf(N, V, E) BY <1>2, <1>10, <1>12 DEF Puts
<1>14. Marked(e) /\ e.lines = i.doc.lines /\ "lines" \in DOMAIN e
  BY <1>10, <1>12, <1>13, DocFacts DEF Marked
<1>15. /\ Upto(d.lines, i.doc.lines, place[p])
       /\ \E place2 : Holds(i.doc, t, place2) /\ Reaches(place, place2, p, Len(ins), a)
  BY <1>1, <1>2, TextInserted DEF Puts, With
<1>16. PICK place2 : Holds(i.doc, t, place2) /\ Reaches(place, place2, p, Len(ins), a)
  BY <1>15
<1>17. Holds(e, t, place2) BY <1>14, <1>16 DEF Holds
<1>18. Len(t) = p + Len(ins) + (Len(text) - p)
  <2>1. IsSplice(t, text, p, ins, text, p) BY <1>1, SpliceFacts DEF With
  <2> HIDE DEF t
  <2> QED BY <2>1 DEF IsSplice
<1> HIDE DEF t
<1>19. p \in 0 .. Len(t) /\ p + Len(ins) \in 0 .. Len(t)
  <2>1. PICK n, m \in Nat : n = Len(text) /\ m = Len(ins) /\ p \in 0 .. n BY <1>1
  <2>2. Len(t) = p + m + (n - p) BY <1>18, <2>1
  <2>3. p \in 0 .. p + m + (n - p) /\ p + m \in 0 .. p + m + (n - p) BY <2>1
  <2> QED BY <2>1, <2>2, <2>3
<1> QED BY <1>2, <1>14, <1>15, <1>16, <1>17, <1>19 DEF GrownBy, t

\* What the assumption says of the texts
LEMMA Texts ==
    /\ \A text \in Contents \cup Typed \cup Received : text \in Seq(Kinds)
    /\ Me \in Users /\ Nobody \in Users \cup {Nobody}
    /\ \A user \in Peers : user \in Users \cup {Nobody}
BY EditedTextAssumption DEF Users

\* An insertion by the local user
LEMMA InsertedShows ==
    ASSUME NEW s, Marked(s.doc), NEW place, Holds(s.doc, s.buffer, place),
           NEW p \in 0 .. Len(s.buffer), NEW ins \in Seq(Kinds),
           NEW r, r = Inserted(s, place[p], ins)
    PROVE  /\ Upto(s.doc.lines, r.doc.lines, place[p])
           /\ p \in 0 .. Len(r.buffer) /\ Marked(r.doc)
           /\ \E place2 : /\ Holds(r.doc, r.buffer, place2)
                          /\ Reaches(place, place2, p, 0, place[p])
<1>1. PICK d, text, c : d = s.doc /\ text = s.buffer /\ c = place[p] OBVIOUS
<1>2. Holds(d, text, place) /\ Marked(d) /\ p \in 0 .. Len(text) BY <1>1
<1>3. PICK i, e : Puts(d, place[p], ins, Me, i, e) BY DEF Puts
<1>4. PICK t : t = With(text, p, ins) OBVIOUS
<1>5. Me \in Users BY Texts
<1>6. e.lines = i.doc.lines /\ GrownBy(d, e, t, place, p, Len(ins), i.at)
  <2>1. e.lines = i.doc.lines /\ GrownBy(d, e, With(text, p, ins), place, p, Len(ins), i.at)
    BY <1>2, <1>3, <1>5, InsertionShows
  <2> QED BY <1>4, <2>1
<1>7. PICK place2 : Holds(e, t, place2) /\ Reaches(place, place2, p, Len(ins), i.at)
  BY <1>6 DEF GrownBy
<1>8. place2[p] = place[p] /\ Reaches(place, place2, p, 0, place[p])
  <2>1. p \in 0 .. p /\ p + 0 = p BY <1>2
  <2> QED BY <1>2, <1>7, <2>1 DEF Reaches
<1>9. cursorToOffset_kte(i.doc.lines, c) = p
  BY <1>1, <1>6, <1>7, <1>8, HoldsFacts DEF GrownBy
<1>10. r.doc = e /\ r.buffer = t BY <1>1, <1>3, <1>4, <1>9 DEF Inserted, Puts, With
<1> QED BY <1>1, <1>6, <1>7, <1>8, <1>10 DEF GrownBy

\* The characters between two places of a line are counted.
LEMMA CountBetween ==
    ASSUME NEW lines, IsLines(lines), NEW text \in Seq(Kinds), NEW place,
           Spelled(lines, text, place), NEW p \in 0 .. Len(text), NEW q \in p .. Len(text),
           place[p].line = place[q].line
    PROVE  countUnicodeCharacters(
               SubSeq(Line(lines, place[p].line), place[p].column + 1, place[q].column)) = q - p
<1>1. Len(text) \in Nat /\ q \in 0 .. Len(text) /\ p \in Nat /\ q \in Nat
  BY LenProperties
<1>2. InLines(lines, place[p]) /\ InLines(lines, place[q]) /\ BeforeOrAt(place[p], place[q])
  BY <1>1, SpelledFacts, PlacesInOrder
<1>3. PICK e \in p .. Len(text) :
          /\ e = Len(text) \/ text[e + 1] = "newline"
          /\ place[e] = Cursor(place[p].line, Len(lines[place[p].line + 1]))
          /\ \A i \in p + 1 .. e : text[i] # "newline"
  BY LineEnd
<1>4. q <= e
  <2>1. SUFFICES ASSUME q > e PROVE FALSE BY <1>1
  <2>2. /\ e + 1 \in 1 .. Len(text) /\ e + 1 \in 0 .. Len(text) /\ (e + 1) - 1 = e
        /\ q \in e + 1 .. Len(text) /\ e # Len(text)
    BY <1>1, <2>1
  <2>3. Follows(lines, text[e + 1], place[e], place[e + 1]) BY <2>2, SpelledFacts
  <2>4. place[e + 1].line = place[p].line + 1
    BY <1>3, <2>2, <2>3 DEF Follows, Cursor
  <2>5. PICK x : x = e + 1 OBVIOUS
  <2>6. BeforeOrAt(place[x], place[q]) BY <2>2, <2>5, PlacesInOrder
  <2>7. place[p].line \in Nat BY <1>2 DEF InLines
  <2>8. place[x].line = place[q].line + 1 /\ place[q].line \in Nat
    BY <2>4, <2>5, <2>7
  <2> QED BY <2>6, <2>8 DEF BeforeOrAt, Before
<1> DEFINE line == lines[place[p].line + 1]
           rest == SubSeq(line, place[p].column + 1, Len(line))
           col == [i \in 0 .. q - p |-> place[p + i].column - place[p].column]
<1>5. \A i \in p + 1 .. q : text[i] # "newline"
  <2>1. \A i \in p + 1 .. q : i \in p + 1 .. e BY <1>1, <1>4
  <2> QED BY <1>3, <2>1
<1>6. PICK w, f : w = rest /\ f = col OBVIOUS
<1>7. Walks(w, f, q - p) /\ Len(w) = Len(line) - place[p].column /\ Len(w) \in Nat
  BY <1>5, <1>6, RestWalks, SMTT(30)
<1>8. f[q - p] = place[q].column - place[p].column
  <2>1. q - p \in 0 .. q - p /\ p + (q - p) = q BY <1>1
  <2> QED BY <1>6, <2>1
<1>9. /\ line \in Seq(Units) /\ Len(line) \in Nat /\ place[p].column \in Nat /\ place[q].column \in Nat
      /\ place[p].column <= Len(line) /\ place[q].column <= Len(line)
      /\ Line(lines, place[p].line) = line
  BY <1>2, InLinesFacts
<1> HIDE DEF line, col
<1>10. place[p].column <= place[q].column
  <2>1. place[p].line \in Nat /\ place[p].column \in Nat /\ place[q].column \in Nat
    BY <1>2 DEF InLines
  <2>2. PICK x, y : x = place[p] /\ y = place[q] OBVIOUS
  <2>3. BeforeOrAt(x, y) /\ x.line = y.line /\ x.line \in Nat /\ x.column \in Nat /\ y.column \in Nat
    BY <1>2, <2>1, <2>2
  <2>4. x.column <= y.column BY <2>3 DEF BeforeOrAt, Before
  <2> QED BY <2>2, <2>4
<1>11. PICK a, b, n \in Nat : a = place[p].column /\ b = place[q].column /\ n = Len(line)
  BY <1>9
<1>12. a <= n /\ b <= n /\ a <= b BY <1>9, <1>10, <1>11
<1>13. w = SubSeq(line, a + 1, n) BY <1>6, <1>11
<1>14. f[q - p] <= Len(w) /\ q - p \in Nat
  <2>1. b - a <= n - a BY <1>12
  <2> QED BY <1>1, <1>7, <1>8, <1>11, <2>1
<1>15. w \in Seq(Units) /\ \A i \in 1 .. n - a : w[i] = line[a + i]
  <2>1. a \in 0 .. Len(line) BY <1>11, <1>12
  <2>2. w = SubSeq(line, a + 1, Len(line)) BY <1>11, <1>13
  <2> QED BY <1>9, <1>11, <2>1, <2>2, RestFacts
<1> HIDE DEF rest
<1>16. countUnicodeCharacters(SubSeq(w, 1, b - a)) = q - p
  <2>1. PICK k \in Nat : k = q - p BY <1>14
  <2>2. countUnicodeCharacters(SubSeq(w, 1, f[k])) = k
    BY <1>7, <1>14, <1>15, <2>1, WalkPrefix
  <2> QED BY <1>8, <1>11, <2>1, <2>2
<1>17. SubSeq(w, 1, b - a) = SubSeq(line, a + 1, b)
  <2>1. Len(w) = n - a BY <1>7, <1>11
  <2>2. b - a \in 0 .. Len(w) BY <1>12, <2>1
  <2>3. PICK k : k = b - a OBVIOUS
  <2>4. /\ SubSeq(w, 1, k) \in Seq(Units) /\ Len(SubSeq(w, 1, k)) = k
        /\ \A i \in 1 .. k : SubSeq(w, 1, k)[i] = w[i]
    BY <1>15, <2>2, <2>3, PrefixFacts
  <2>5. a + 1 \in Int /\ b \in Int /\ \A i \in a + 1 .. b : line[i] \in Units
    <3>1. \A i \in a + 1 .. b : i \in 1 .. Len(line) BY <1>11, <1>12
    <3> QED BY <1>9, <3>1, ElementOfSeq
  <2>6. PICK m : m = a + 1 OBVIOUS
  <2>7. /\ SubSeq(line, m, b) \in Seq(Units)
        /\ Len(SubSeq(line, m, b)) = IF m <= b THEN b - m + 1 ELSE 0
        /\ \A i \in 1 .. b - m + 1 : SubSeq(line, m, b)[i] = line[m + i - 1]
    BY <2>5, <2>6, SubSeqProperties
  <2>8. PICK x, y : x = SubSeq(w, 1, k) /\ y = SubSeq(line, m, b) OBVIOUS
  <2>9. Len(x) = Len(y)
    <3>1. k = (IF m <= b THEN b - m + 1 ELSE 0) BY <1>12, <2>3, <2>6
    <3> QED BY <2>4, <2>7, <2>8, <3>1
  <2>10. ASSUME NEW i \in 1 .. Len(x) PROVE x[i] = y[i]
    <3>1. i \in 1 .. k BY <2>4, <2>8
    <3>2. i \in 1 .. n - a /\ i \in 1 .. b - m + 1 /\ m + i - 1 = a + i
      BY <1>12, <2>3, <2>6, <3>1
    <3>3. x[i] = w[i] /\ w[i] = line[a + i] BY <1>15, <2>4, <2>8, <3>1, <3>2
    <3>4. y[i] = line[m + i - 1] BY <2>7, <2>8, <3>2
    <3> QED BY <3>2, <3>3, <3>4
  <2>11. x \in Seq(Units) /\ y \in Seq(Units) BY <2>4, <2>7, <2>8
  <2>12. x = y BY <2>9, <2>10, <2>11, SeqEqual
  <2> QED BY <2>3, <2>6, <2>8, <2>12
<1> QED BY <1>9, <1>11, <1>16, <1>17

\* A removal by the local user
LEMMA RemovedShows ==
    ASSUME NEW s, Marked(s.doc), NEW place, Holds(s.doc, s.buffer, place),
           NEW p \in 0 .. Len(s.buffer), NEW q \in p .. Len(s.buffer), p < q,
           \/ place[p].line = place[q].line
           \/ /\ place[q] = Cursor(place[p].line + 1, 0)
              /\ place[p].column = lineLength(s.doc, place[p].line),
           NEW r, r = Removed(s, place[p], place[q])
    PROVE  /\ Upto(s.doc.lines, r.doc.lines, place[p])
           /\ p \in 0 .. Len(r.buffer) /\ Marked(r.doc)
           /\ \E place2 : /\ Holds(r.doc, r.buffer, place2)
                          /\ Reaches(place, place2, p, 0, place[p])
<1>1. PICK d, text, from, to : d = s.doc /\ text = s.buffer /\ from = place[p] /\ to = place[q]
  OBVIOUS
<1>2. Holds(d, text, place) /\ p \in 0 .. Len(text) /\ q \in p .. Len(text) BY <1>1
<1>3. /\ text \in Seq(Kinds) /\ Len(text) \in Nat /\ IsLines(d.lines) /\ Spelled(d.lines, text, place)
      /\ q \in 0 .. Len(text) /\ p \in Nat /\ q \in Nat
  BY <1>2, HoldsFacts
<1>4. cursorToOffset_kte(d.lines, from) = p BY <1>1, <1>2, HoldsFacts
<1> DEFINE length == IF from.line # to.line THEN 1
                     ELSE countUnicodeCharacters(
                             SubSeq(Line(d.lines, from.line), from.column + 1, to.column))
<1>5. length = q - p
  <2>1. CASE from.line = to.line BY <1>1, <1>2, <1>3, <2>1, CountBetween
  <2>2. CASE from.line # to.line
    <3>1. to = Cursor(from.line + 1, 0) /\ from.column = Len(Line(d.lines, from.line))
      BY <1>1, <2>2 DEF lineLength
    <3>2. PICK x : x = p + 1 OBVIOUS
    <3>3. x \in 1 .. Len(text) /\ x - 1 = p /\ x \in 0 .. Len(text) BY <1>3, <3>2
    <3>4. InLines(d.lines, from) /\ Follows(d.lines, text[x], from, place[x])
      BY <1>1, <1>2, <1>3, <3>3, SpelledFacts
    <3>5. /\ Line(d.lines, from.line) = d.lines[from.line + 1]
          /\ Len(d.lines[from.line + 1]) \in Nat
      BY <1>3, <3>4, InLinesFacts
    <3>6. text[x] = "newline" BY <3>1, <3>4, <3>5 DEF Follows
    <3>7. place[x] = to BY <3>1, <3>4, <3>6 DEF Follows
    <3>8. x = q
      <4>1. cursorToOffset_kte(d.lines, place[x]) = x /\ cursorToOffset_kte(d.lines, place[q]) = q
        BY <1>2, <1>3, <3>3, HoldsFacts
      <4> QED BY <1>1, <3>7, <4>1
    <3>9. q - p = 1 BY <1>3, <3>2, <3>8
    <3> QED BY <2>2, <3>9
  <2> QED BY <2>1, <2>2
<1>6. PICK t : t = Without(text, p, q) OBVIOUS
<1>7. r.doc = removeText(d, from, to) /\ r.buffer = t
  <2>1. r.doc = removeText(d, from, to) BY <1>1 DEF Removed
  <2>2. r.buffer = SubSeq(text, 1, p) \o SubSeq(text, p + length + 1, Len(text))
    BY <1>1, <1>4 DEF Removed
  <2>3. p + length + 1 = q + 1
    <3> HIDE DEF length
    <3> QED BY <1>3, <1>5
  <2> HIDE DEF length
  <2> QED BY <1>6, <2>1, <2>2, <2>3 DEF Without
<1>8. PICK e : e = removeText(d, place[p], place[q]) OBVIOUS
<1>9. /\ Upto(d.lines, e.lines, place[p]) /\ Marked(e) /\ p \in 0 .. Len(t)
      /\ \E place2 : Holds(e, t, place2) /\ Reaches(place, place2, p, 0, place[p])
  BY <1>1, <1>2, <1>6, <1>8, RemovalShows
<1> QED BY <1>1, <1>7, <1>8, <1>9

-----------------------------------------------------------------------------
(* The steps *)

\* An insertion of another user
LEMMA InsertShows ==
    ASSUME Shows(doc, buffer), Marked(doc), NEW offset \in 0 .. Len(buffer),
           NEW text \in Received, NEW user \in Peers, onInsertText(offset, text, user)
    PROVE  Shows(doc', buffer') /\ Marked(doc')
<1>1. PICK place : Holds(doc, buffer, place) BY DEF Shows
<1>2. offsetToCursor_kte(doc.lines, offset) = place[offset] BY <1>1, HoldsFacts
<1>3. text \in Seq(Kinds) /\ user \in Users BY Texts DEF Users
<1>4. PICK t : t = Splice(offset, text) OBVIOUS
<1>5. t = With(buffer, offset, text) BY <1>4 DEF Splice, With
<1>6. PICK r, e : Puts(doc, place[offset], text, user, r, e) BY DEF Puts
<1>7. e.lines = r.doc.lines /\ GrownBy(doc, e, t, place, offset, Len(text), r.at)
  BY <1>1, <1>3, <1>5, <1>6, InsertionShows
<1>8. PICK place2 : Holds(e, t, place2) /\ Reaches(place, place2, offset, Len(text), r.at)
  BY <1>7 DEF GrownBy
<1>9. offsetToCursor_kte(r.doc.lines, offset + Len(text)) = r.at
  <2>1. PICK q : q = offset + Len(text) OBVIOUS
  <2>2. offsetToCursor_kte(e.lines, q) = place2[q]
    BY <1>7, <1>8, <2>1, HoldsFacts DEF GrownBy
  <2> QED BY <1>7, <1>8, <2>1, <2>2 DEF Reaches
<1>10. buffer' = t /\ doc' = e BY <1>2, <1>4, <1>6, <1>9 DEF onInsertText, Puts
<1> QED BY <1>7, <1>8, <1>10 DEF GrownBy, Shows

\* A removal of another user
LEMMA EraseShows ==
    ASSUME Shows(doc, buffer), Marked(doc), NEW offset \in 0 .. Len(buffer),
           NEW length \in 1 .. Len(buffer), offset + length <= Len(buffer),
           onEraseText(offset, length)
    PROVE  Shows(doc', buffer') /\ Marked(doc')
<1>1. PICK place : Holds(doc, buffer, place) BY DEF Shows
<1>2. /\ offsetToCursor_kte(doc.lines, offset) = place[offset] /\ Len(buffer) \in Nat
      /\ IsLines(doc.lines) /\ Spelled(doc.lines, buffer, place) /\ buffer \in Seq(Kinds)
  BY <1>1, HoldsFacts
<1>3. PICK q : q = offset + length OBVIOUS
<1>4. q \in offset .. Len(buffer) /\ length \in 0 .. Len(buffer) - offset
  BY <1>2, <1>3
<1>5. offsetRelativeTo_kte(doc.lines, place[offset], length) = place[q]
  BY <1>2, <1>3, <1>4, PlaceOfOffset
<1>6. offsetRelativeTo_kte(doc.lines, Cursor(0, 0), offset) = place[offset]
  BY <1>2 DEF offsetToCursor_kte
<1>7. PICK e, t : e = doc' /\ t = buffer' OBVIOUS
<1>8. e = removeText(doc, place[offset], place[q])
  BY <1>5, <1>6, <1>7 DEF onEraseText
<1>9. t = Without(buffer, offset, q) BY <1>3, <1>7 DEF onEraseText, Cut, Without
<1>10. /\ Marked(e)
       /\ \E place2 : Holds(e, t, place2) /\ Reaches(place, place2, offset, 0, place[offset])
  BY <1>1, <1>4, <1>8, <1>9, RemovalShows
<1> QED BY <1>7, <1>10 DEF Shows

\* The cursors of the editor are the places of the text.
LEMMA CursorFacts ==
    ASSUME NEW place, Holds(doc, buffer, place)
    PROVE  \A c : c \in Cursors <=> \E p \in 0 .. Len(buffer) : c = place[p]
<1>1. /\ IsLines(doc.lines) /\ Spelled(doc.lines, buffer, place) /\ buffer \in Seq(Kinds)
      /\ Len(buffer) \in Nat
  BY HoldsFacts
<1>2. Len(doc.lines) \in Nat /\ Len(doc.lines) > 0
      /\ \A l \in 0 .. Len(doc.lines) - 1 : lineLength(doc, l) = Len(doc.lines[l + 1])
                                            /\ Len(doc.lines[l + 1]) \in Nat
  BY <1>1, LineFacts DEF lineLength
<1>3. ASSUME NEW c \in Cursors PROVE \E p \in 0 .. Len(buffer) : c = place[p]
  <2>1. PICK l \in 0 .. Len(doc.lines) - 1 : \E k \in 0 .. lineLength(doc, l) : c = Cursor(l, k)
    BY DEF Cursors
  <2>2. PICK k \in 0 .. lineLength(doc, l) : c = Cursor(l, k) BY <2>1
  <2>3. c.line = l /\ c.column = k BY <2>2 DEF Cursor
  <2>4. k \in 0 .. Len(doc.lines[l + 1]) BY <1>2
  <2>5. k < Len(doc.lines[l + 1]) => doc.lines[l + 1][k + 1].kind # "low"
    BY <1>2, <2>3 DEF Cursors
  <2>6. PICK lines : lines = doc.lines OBVIOUS
  <2>7. l \in 0 .. Len(lines) - 1 /\ k \in 0 .. Len(lines[l + 1])
        /\ (k < Len(lines[l + 1]) => lines[l + 1][k + 1].kind # "low")
        /\ IsLines(lines) /\ Spelled(lines, buffer, place)
    BY <1>1, <2>4, <2>5, <2>6
  <2>8. \E p \in 0 .. Len(buffer) : place[p] = Cursor(l, k)
    BY <1>1, <2>7, CursorIsPlace
  <2> QED BY <2>2, <2>8
<1>4. ASSUME NEW p \in 0 .. Len(buffer) PROVE place[p] \in Cursors
  <2>1. InLines(doc.lines, place[p]) BY <1>1, SpelledFacts
  <2>2. PICK l, k : l = place[p].line /\ k = place[p].column OBVIOUS
  <2>3. l \in 0 .. Len(doc.lines) - 1 /\ k \in 0 .. lineLength(doc, l) /\ place[p] = Cursor(l, k)
    BY <1>2, <2>1, <2>2 DEF InLines
  <2>4. ASSUME k < lineLength(doc, l) PROVE doc.lines[l + 1][k + 1].kind # "low"
    <3>1. k < Len(doc.lines[l + 1]) BY <1>2, <2>3, <2>4
    <3>2. PICK lines : lines = doc.lines OBVIOUS
    <3>3. IsLines(lines) /\ Spelled(lines, buffer, place) /\ k < Len(lines[l + 1])
      BY <1>1, <3>1, <3>2
    <3>4. Continues(lines, buffer, place, p, l, k) BY <1>1, <2>3, <3>3, NextAt
    <3>5. /\ p + 1 \in 1 .. Len(buffer)
          /\ buffer[p + 1] # "wide" => lines[l + 1][k + 1].kind = buffer[p + 1]
          /\ buffer[p + 1] = "wide" => lines[l + 1][k + 1].kind = "high"
      BY <3>4 DEF Continues
    <3>6. /\ buffer[p + 1] # "wide" => doc.lines[l + 1][k + 1].kind = buffer[p + 1]
          /\ buffer[p + 1] = "wide" => doc.lines[l + 1][k + 1].kind = "high"
      BY <3>2, <3>5
    <3>7. buffer[p + 1] \in Kinds BY <1>1, <3>5, ElementOfSeq
    <3> QED BY <3>6, <3>7 DEF Kinds
  <2>5. place[p] \in UNION {{Cursor(x, y) : y \in 0 .. lineLength(doc, x)} : x \in 0 .. Len(doc.lines) - 1}
    BY <2>3
  <2> QED BY <2>2, <2>4, <2>5 DEF Cursors
<1> QED BY <1>3, <1>4

\* An insertion of the local user
LEMMA TypingShows ==
    ASSUME Shows(doc, buffer), Marked(doc), NEW c \in Cursors, NEW text \in Typed,
           localTextInserted(c, text)
    PROVE  Shows(doc', buffer') /\ Marked(doc')
<1>1. PICK place : Holds(doc, buffer, place) BY DEF Shows
<1>2. PICK p \in 0 .. Len(buffer) : c = place[p] BY <1>1, CursorFacts
<1>3. PICK s, r : s = State /\ r = Inserted(s, place[p], text) OBVIOUS
<1>4. s.doc = doc /\ s.buffer = buffer BY <1>3 DEF State
<1>5. text \in Seq(Kinds) BY Texts
<1>6. /\ Marked(r.doc)
      /\ \E place2 : Holds(r.doc, r.buffer, place2) /\ Reaches(place, place2, p, 0, place[p])
  BY <1>1, <1>3, <1>4, <1>5, InsertedShows
<1>7. doc' = r.doc /\ buffer' = r.buffer
  BY <1>2, <1>3 DEF localTextInserted, Becomes
<1> QED BY <1>6, <1>7 DEF Shows

\* A removal of the local user
LEMMA DeletingShows ==
    ASSUME Shows(doc, buffer), Marked(doc), NEW from \in Cursors, NEW to \in Cursors,
           localTextRemoved(from, to)
    PROVE  Shows(doc', buffer') /\ Marked(doc')
<1>1. PICK place : Holds(doc, buffer, place) BY DEF Shows
<1>2. PICK p \in 0 .. Len(buffer), q \in 0 .. Len(buffer) : from = place[p] /\ to = place[q]
  BY <1>1, CursorFacts
<1>3. /\ IsLines(doc.lines) /\ Spelled(doc.lines, buffer, place) /\ buffer \in Seq(Kinds)
      /\ Len(buffer) \in Nat /\ InLines(doc.lines, from) /\ InLines(doc.lines, to)
  BY <1>1, <1>2, HoldsFacts
<1>4. Before(from, to) BY DEF localTextRemoved
<1>5. p < q
  <2>1. SUFFICES ASSUME q <= p PROVE FALSE OBVIOUS
  <2>2. p \in q .. Len(buffer) BY <2>1
  <2>3. BeforeOrAt(to, from) BY <1>2, <1>3, <2>2, PlacesInOrder
  <2>4. /\ from.line \in Nat /\ from.column \in Nat /\ to.line \in Nat /\ to.column \in Nat
    BY <1>3 DEF InLines
  <2> QED BY <1>4, <2>3, <2>4 DEF Before, BeforeOrAt
<1>6. q \in p .. Len(buffer) BY <1>5
<1>7. PICK s, r : s = State /\ r = Removed(s, place[p], place[q]) OBVIOUS
<1>8. s.doc = doc /\ s.buffer = buffer BY <1>7 DEF State
<1>9. \/ place[p].line = place[q].line
      \/ /\ place[q] = Cursor(place[p].line + 1, 0)
         /\ place[p].column = lineLength(doc, place[p].line)
  BY <1>2 DEF localTextRemoved
<1>10. /\ Marked(r.doc)
       /\ \E place2 : Holds(r.doc, r.buffer, place2) /\ Reaches(place, place2, p, 0, place[p])
  BY <1>1, <1>5, <1>6, <1>7, <1>8, <1>9, RemovedShows
<1>11. doc' = r.doc /\ buffer' = r.buffer
  BY <1>2, <1>7 DEF localTextRemoved, Becomes
<1> QED BY <1>10, <1>11 DEF Shows

\* Who wrote the text does not matter to it.
LEMMA ClearShows ==
    ASSUME Shows(doc, buffer), ClearHighlight
    PROVE  Shows(doc', buffer')
<1>1. PICK place : Holds(doc, buffer, place) BY DEF Shows
<1>2. PICK old, new : /\ old = doc.lines
                      /\ new = [l \in DOMAIN old |-> [i \in DOMAIN old[l] |->
                                   [old[l][i] EXCEPT !.by = Nobody]]] OBVIOUS
<1>3. doc'.lines = new /\ "lines" \in DOMAIN doc' /\ buffer' = buffer
  <2>1. "lines" \in DOMAIN doc BY <1>1, HoldsFacts
  <2> QED BY <1>2, <2>1 DEF ClearHighlight, clearHighlight
<1>4. /\ IsLines(old) /\ Spelled(old, buffer, place) /\ buffer \in Seq(Kinds)
      /\ Len(buffer) \in Nat
      /\ \A p \in 0 .. Len(buffer) : InLines(old, place[p])
  BY <1>1, <1>2, HoldsFacts
<1>5. /\ Len(old) \in Nat /\ Len(old) > 0 /\ DOMAIN old = 1 .. Len(old)
      /\ \A l \in 1 .. Len(old) : old[l] \in Seq(Units) /\ Len(old[l]) \in Nat
                                  /\ DOMAIN old[l] = 1 .. Len(old[l])
  <2>1. old \in Seq(Seq(Units)) /\ Len(old) > 0 BY <1>4 DEF IsLines
  <2>2. Len(old) \in Nat /\ DOMAIN old = 1 .. Len(old) BY <2>1, LenProperties
  <2>3. \A l \in 1 .. Len(old) : old[l] \in Seq(Units) BY <2>1, ElementOfSeq
  <2> QED BY <2>1, <2>2, <2>3, LenProperties
<1>6. ASSUME NEW l \in 1 .. Len(old)
      PROVE  /\ new[l] \in Seq(Units) /\ Len(new[l]) = Len(old[l])
             /\ \A i \in 1 .. Len(old[l]) : new[l][i].kind = old[l][i].kind
  <2>1. new[l] = [i \in 1 .. Len(old[l]) |-> [old[l][i] EXCEPT !.by = Nobody]]
    BY <1>2, <1>5
  <2>2. ASSUME NEW i \in 1 .. Len(old[l])
        PROVE  /\ [old[l][i] EXCEPT !.by = Nobody] \in Units
               /\ [old[l][i] EXCEPT !.by = Nobody].kind = old[l][i].kind
    <3>1. old[l][i] \in Units BY <1>5, ElementOfSeq
    <3>2. PICK u : u = old[l][i] OBVIOUS
    <3>3. u \in [kind : UnitKinds, by : Users \cup {Nobody}] BY <3>1, <3>2 DEF Units
    <3>4. PICK W : W = Users \cup {Nobody} OBVIOUS
    <3>5. Nobody \in W /\ u \in [kind : UnitKinds, by : W] BY <3>3, <3>4
    <3>6. [u EXCEPT !.by = Nobody] \in [kind : UnitKinds, by : W]
          /\ [u EXCEPT !.by = Nobody].kind = u.kind
      BY <3>5
    <3> QED BY <3>2, <3>4, <3>6 DEF Units
  <2>3. new[l] \in [1 .. Len(old[l]) -> Units] BY <2>1, <2>2
  <2> QED BY <1>5, <2>1, <2>2, <2>3, FunctionIsSequence
<1>7. new \in Seq(Seq(Units)) /\ Len(new) = Len(old)
  <2>1. new \in [1 .. Len(old) -> Seq(Units)] BY <1>2, <1>5, <1>6
  <2> QED BY <1>5, <2>1, FunctionIsSequence
<1>8. IsLines(new) BY <1>5, <1>7 DEF IsLines
<1>9. ASSUME NEW p \in 1 .. Len(buffer) PROVE Spells(new, buffer[p], place[p - 1], place[p])
  <2>1. p - 1 \in 0 .. Len(buffer) /\ p \in 0 .. Len(buffer) BY <1>4
  <2>2. InLines(old, place[p - 1]) /\ InLines(old, place[p]) BY <1>4, <2>1
  <2>3. Spells(old, buffer[p], place[p - 1], place[p]) BY <1>4 DEF Spelled
  <2>4. PICK l : l = place[p - 1].line OBVIOUS
  <2>5. l \in Nat /\ l + 1 \in 1 .. Len(old) /\ l < Len(old) /\ l < Len(new)
    <3>1. l \in 0 .. Len(old) - 1 BY <2>2, <2>4 DEF InLines
    <3> QED BY <1>5, <1>7, <3>1
  <2>6. Line(old, l) = old[l + 1] /\ Line(new, l) = new[l + 1] BY <2>5 DEF Line
  <2>7. Len(Line(new, l)) = Len(Line(old, l)) BY <1>6, <2>5, <2>6
  <2>8. CASE buffer[p] = "newline" BY <2>3, <2>4, <2>7, <2>8 DEF Spells
  <2>9. CASE buffer[p] # "newline"
    <3>1. /\ place[p] = Cursor(l, place[p - 1].column + Len(UnitKindsOf(buffer[p])))
          /\ place[p].column <= Len(Line(old, l))
          /\ \A i \in DOMAIN UnitKindsOf(buffer[p]) :
                 Line(old, l)[place[p - 1].column + i].kind = UnitKindsOf(buffer[p])[i]
      BY <2>3, <2>4, <2>9 DEF Spells
    <3>2. PICK k, n, units : k = place[p - 1].column /\ units = UnitKindsOf(buffer[p]) /\ n = Len(units)
      OBVIOUS
    <3>3. DOMAIN units = 1 .. n /\ n \in Nat BY <3>2, KindFacts
    <3>4. k \in Nat /\ k + n <= Len(old[l + 1])
      <4>1. place[p].column = k + n BY <3>1, <3>2 DEF Cursor
      <4> QED BY <2>2, <2>6, <3>1, <3>2, <4>1 DEF InLines
    <3>5. ASSUME NEW i \in DOMAIN units PROVE Line(new, l)[k + i].kind = units[i]
      <4>1. k + i \in 1 .. Len(old[l + 1]) BY <1>5, <2>5, <3>3, <3>4
      <4>2. new[l + 1][k + i].kind = old[l + 1][k + i].kind BY <1>6, <2>5, <4>1
      <4> QED BY <2>6, <3>1, <3>2, <4>2
    <3> QED BY <2>4, <2>7, <2>9, <3>1, <3>2, <3>5 DEF Spells
  <2> QED BY <2>8, <2>9
<1>10. Spelled(new, buffer, place)
  <2>1. place[0] = Cursor(0, 0) /\ place[Len(buffer)] = Cursor(Len(old) - 1, Len(old[Len(old)]))
    BY <1>4 DEF Spelled
  <2>2. Len(old[Len(old)]) = Len(new[Len(new)]) BY <1>5, <1>6, <1>7
  <2> QED BY <1>7, <1>9, <2>1, <2>2 DEF Spelled
<1>11. PICK d, t : d = doc' /\ t = buffer' OBVIOUS
<1>12. Holds(d, t, place) BY <1>3, <1>4, <1>8, <1>10, <1>11 DEF Holds
<1> QED BY <1>11, <1>12 DEF Shows

\* The highlighting is cleared: nobody wrote the text.
LEMMA ClearMarks ==
    ASSUME Shows(doc, buffer), Marked(doc), ClearHighlight
    PROVE  Marked(doc')
<1>1. PICK L, R, C : /\ doc = DocOf(L, R, C) /\ Sound(L, R, C)
                     /\ FewUsers => HuesApart(C) /\ Whole(L, R, C)
  BY DEF Marked
<1>2. PICK N : N = [l \in DOMAIN L |-> [i \in DOMAIN L[l] |-> [L[l][i] EXCEPT !.by = Nobody]]]
  OBVIOUS
<1>3. doc' = DocOf(N, << >>, C)
  <2>1. doc.lines = L BY <1>1, DocFacts
  <2>2. [doc EXCEPT !.lines = N] = DocOf(N, R, C) BY <1>1 DEF DocOf
  <2>3. clearHighlight(DocOf(N, R, C)) = DocOf(N, << >>, C)
    BY DEF clearHighlight, DocOf
  <2>4. doc' = clearHighlight([doc EXCEPT !.lines = N])
    BY <1>2, <2>1 DEF ClearHighlight
  <2> QED BY <2>2, <2>3, <2>4
<1>4. IsLines(N)
  <2>1. Shows(doc', buffer') BY ClearShows
  <2>2. PICK d, t : d = doc' /\ t = buffer' OBVIOUS
  <2>3. Shows(d, t) /\ d.lines = N BY <1>3, <2>1, <2>2, DocFacts
  <2> QED BY <2>3, HoldsFacts DEF Shows
<1>5. PICK T : T = << >> /\ T \in Seq(Marks) /\ Len(T) = 0
  <2>1. << >> \in Seq(Marks) /\ Len(<< >>) = 0 BY EmptySeq
  <2> QED BY <2>1
<1>6. Sound(N, T, C) BY <1>1, <1>4, <1>5 DEF Sound, Grounded, Apart
<1>7. ASSUME NEW x, IsUnit(N, x) PROVE Right(N, T, C, x)
  <2>1. IsLines(L) BY <1>1 DEF Sound, Grounded
  <2>2. PICK l, k \in Nat : l = x.line + 1 /\ k = x.column + 1
    BY <1>7, InLinesSpot, Orders DEF IsUnit
  <2>3. l \in DOMAIN N /\ k \in DOMAIN N[l]
    <3>1. x.line \in 0 .. Len(N) - 1 /\ x.column \in 0 .. Len(N[x.line + 1])
          /\ x.column < Len(N[x.line + 1])
      BY <1>7, InLinesSpot DEF IsUnit
    <3>2. N \in Seq(Seq(Units)) /\ Len(N) \in Nat BY <1>4, LineFacts DEF IsLines
    <3>3. l \in 1 .. Len(N) BY <2>2, <3>1, <3>2
    <3>4. N[l] \in Seq(Units) BY <3>2, <3>3, ElementOfSeq
    <3>5. Len(N[l]) \in Nat BY <3>4, LenProperties
    <3>6. k \in 1 .. Len(N[l]) BY <2>2, <3>1, <3>5
    <3> QED BY <3>2, <3>3, <3>4, <3>6, LenProperties
  <2>4. l \in DOMAIN L /\ N[l] = [i \in DOMAIN L[l] |-> [L[l][i] EXCEPT !.by = Nobody]]
    BY <1>2, <2>3
  <2>5. k \in DOMAIN L[l] /\ N[l][k] = [L[l][k] EXCEPT !.by = Nobody] BY <2>3, <2>4
  <2>6. L[l][k] \in Units
    <3>1. L[l] \in Seq(Units) BY <2>1, <2>4, LenProperties, ElementOfSeq DEF IsLines
    <3> QED BY <2>5, <3>1, LenProperties, ElementOfSeq
  <2>7. N[l][k].by = Nobody BY <2>5, <2>6 DEF Units
  <2>8. By(N, x) = Nobody BY <2>2, <2>7 DEF By
  <2> QED BY <1>5, <2>8 DEF Right
<1> QED BY <1>1, <1>3, <1>5, <1>6, <1>7 DEF Marked, Whole

-----------------------------------------------------------------------------
(* The line endings *)

\* The states between the units of a line, from the last to the first
LastUnitsAre(f, s, l, n, m) ==
    f = [k \in 0 .. m |-> IF k = 0 THEN s ELSE UnitReplaced(f[k - 1], l, n - k)]

\* Those states exist.
LEMMA LastUnitsExist ==
    ASSUME NEW s, NEW l, NEW n, NEW m \in Nat
    PROVE  \E f : LastUnitsAre(f, s, l, n, m)
<1> DEFINE S == {j \in 0 .. m : \E f : LastUnitsAre(f, s, l, n, j)}
<1>1. 0 \in S
  <2>1. LastUnitsAre([k \in 0 .. 0 |-> s], s, l, n, 0) BY DEF LastUnitsAre
  <2> QED BY <2>1
<1>2. ASSUME NEW i \in 0 .. m - 1, i \in S PROVE i + 1 \in S
  <2>1. PICK f : LastUnitsAre(f, s, l, n, i) BY <1>2
  <2>2. PICK g : LongerBy(g, f, i, UnitReplaced(f[i], l, n - (i + 1))) BY OneMore
  <2>3. \A k \in 0 .. i + 1 : g[k] = IF k = 0 THEN s ELSE UnitReplaced(g[k - 1], l, n - k)
    BY <2>1, <2>2 DEF LongerBy, LastUnitsAre
  <2>4. LastUnitsAre(g, s, l, n, i + 1) BY <2>2, <2>3 DEF LongerBy, LastUnitsAre
  <2> QED BY <2>4
<1>3. m \in S
  <2> HIDE DEF S
  <2> QED BY <1>1, <1>2, UpTo
<1> QED BY <1>3

\* The states between the lines, from the last to the first
LastLinesAre(f, n, m) ==
    f = [k \in 0 .. m |-> IF k = 0 THEN State ELSE LineReplaced(f[k - 1], n - k)]

\* Those states exist.
LEMMA LastLinesExist ==
    ASSUME NEW n, NEW m \in Nat
    PROVE  \E f : LastLinesAre(f, n, m)
<1> DEFINE S == {j \in 0 .. m : \E f : LastLinesAre(f, n, j)}
<1>1. 0 \in S
  <2>1. LastLinesAre([k \in 0 .. 0 |-> State], n, 0) BY DEF LastLinesAre
  <2> QED BY <2>1
<1>2. ASSUME NEW i \in 0 .. m - 1, i \in S PROVE i + 1 \in S
  <2>1. PICK f : LastLinesAre(f, n, i) BY <1>2
  <2>2. PICK g : LongerBy(g, f, i, LineReplaced(f[i], n - (i + 1))) BY OneMore
  <2>3. \A k \in 0 .. i + 1 : g[k] = IF k = 0 THEN State ELSE LineReplaced(g[k - 1], n - k)
    BY <2>1, <2>2 DEF LongerBy, LastLinesAre
  <2>4. LastLinesAre(g, n, i + 1) BY <2>2, <2>3 DEF LongerBy, LastLinesAre
  <2> QED BY <2>4
<1>3. m \in S
  <2> HIDE DEF S
  <2> QED BY <1>1, <1>2, UpTo
<1> QED BY <1>3

\* The conversion has come down to a cursor: up to it the lines are as they were.
Reached(s, c) ==
    /\ Shows(s.doc, s.buffer) /\ Marked(s.doc)
    /\ Upto(doc.lines, s.doc.lines, c)
    /\ InLines(s.doc.lines, c)

\* One unit
LEMMA UnitIsReplaced ==
    ASSUME IsLines(doc.lines), NEW l \in 0 .. Len(doc.lines) - 1,
           NEW k \in 0 .. Len(doc.lines[l + 1]) - 1, NEW s, Reached(s, Cursor(l, k + 1))
    PROVE  Reached(UnitReplaced(s, l, k), Cursor(l, k))
<1>1. PICK c, e : c = Cursor(l, k) /\ e = Cursor(l, k + 1) OBVIOUS
<1>2. /\ c.line = l /\ c.column = k /\ e.line = l /\ e.column = k + 1
      /\ l \in Nat /\ k \in Nat /\ k + 1 \in Nat
  <2>1. Len(doc.lines) \in Nat /\ Len(doc.lines[l + 1]) \in Nat BY LineFacts
  <2> QED BY <1>1, <2>1 DEF Cursor
<1>3. PICK old, d, text : old = doc.lines /\ d = s.doc /\ text = s.buffer OBVIOUS
<1>4. Upto(old, d.lines, e) /\ InLines(d.lines, e) /\ Shows(d, text) /\ Marked(d)
  BY <1>1, <1>3 DEF Reached
<1>5. PICK place : Holds(d, text, place) BY <1>4 DEF Shows
<1>6. /\ IsLines(d.lines) /\ Spelled(d.lines, text, place) /\ text \in Seq(Kinds)
      /\ Len(text) \in Nat
      /\ \A p \in 0 .. Len(text) : InLines(d.lines, place[p])
  BY <1>5, HoldsFacts
<1>7. /\ l \in 0 .. Len(d.lines) - 1 /\ Len(d.lines[l + 1]) \in Nat
      /\ k < Len(d.lines[l + 1]) /\ k \in 0 .. Len(d.lines[l + 1])
      /\ InLines(d.lines, c)
  <2>1. l \in 0 .. Len(d.lines) - 1 /\ k + 1 <= Len(d.lines[l + 1])
    BY <1>2, <1>4 DEF InLines
  <2>2. Len(d.lines[l + 1]) \in Nat BY <1>6, <2>1, LineFacts
  <2>3. k < Len(d.lines[l + 1]) /\ k \in 0 .. Len(d.lines[l + 1])
    BY <1>2, <2>1, <2>2
  <2>4. c = Cursor(c.line, c.column) BY <1>1, <1>2
  <2> QED BY <1>2, <2>1, <2>2, <2>3, <2>4 DEF InLines
<1>8. Upto(old, d.lines, c)
  <2>1. \A i \in 1 .. k : i \in 1 .. k + 1 BY <1>2
  <2> QED BY <1>2, <1>4, <2>1 DEF Upto
<1>9. CASE old[l + 1][k + 1].kind # "return"
  <2>1. UnitReplaced(s, l, k) = s BY <1>3, <1>9 DEF UnitReplaced
  <2> QED BY <1>1, <1>3, <1>4, <1>7, <1>8, <2>1 DEF Reached
<1>10. CASE old[l + 1][k + 1].kind = "return"
  <2>1. d.lines[l + 1][k + 1].kind = "return"
    <3>1. k + 1 \in 1 .. e.column BY <1>2
    <3> QED BY <1>2, <1>4, <1>10, <3>1 DEF Upto
  <2>2. PICK p \in 0 .. Len(text) : place[p] = c
    <3>1. k < Len(d.lines[l + 1]) => d.lines[l + 1][k + 1].kind # "low" BY <2>1
    <3>2. PICK lines : lines = d.lines OBVIOUS
    <3>3. /\ l \in 0 .. Len(lines) - 1 /\ k \in 0 .. Len(lines[l + 1])
          /\ k < Len(lines[l + 1]) => lines[l + 1][k + 1].kind # "low"
          /\ IsLines(lines) /\ Spelled(lines, text, place)
      BY <1>6, <1>7, <3>1, <3>2
    <3>4. \E p \in 0 .. Len(text) : place[p] = Cursor(l, k)
      BY <1>6, <3>3, CursorIsPlace, SMTT(30)
    <3> QED BY <1>1, <3>4
  <2>3. /\ p + 1 \in 1 .. Len(text)
        /\ place[p + 1] = e
    <3>1. PICK lines : lines = d.lines OBVIOUS
    <3>2. /\ IsLines(lines) /\ Spelled(lines, text, place)
          /\ place[p] = Cursor(l, k) /\ k < Len(lines[l + 1])
      BY <1>1, <1>6, <1>7, <2>2, <3>1
    <3>3. Continues(lines, text, place, p, l, k) BY <1>6, <3>2, NextAt
    <3>4. text[p + 1] # "wide" BY <2>1, <3>1, <3>3 DEF Continues
    <3> QED BY <1>1, <3>3, <3>4 DEF Continues
  <2>4. PICK q : q = p + 1 OBVIOUS
  <2>5. /\ q \in p .. Len(text) /\ p < q /\ place[q] = e /\ place[p].line = place[q].line
    BY <1>2, <1>6, <2>2, <2>3, <2>4
  <2>6. PICK r : r = Removed(s, place[p], place[q]) OBVIOUS
  <2>7. /\ Upto(d.lines, r.doc.lines, c)
        /\ p \in 0 .. Len(r.buffer) /\ Marked(r.doc)
        /\ \E place2 : Holds(r.doc, r.buffer, place2) /\ Reaches(place, place2, p, 0, c)
    BY <1>3, <1>4, <1>5, <2>2, <2>5, <2>6, RemovedShows
  <2>8. PICK place2 : Holds(r.doc, r.buffer, place2) /\ Reaches(place, place2, p, 0, c)
    BY <2>7
  <2>9. place2[p] = c /\ p \in 0 .. Len(r.buffer)
    <3>1. p \in 0 .. p BY <1>6
    <3>2. place2[p] = c BY <2>2, <2>8, <3>1 DEF Reaches
    <3> QED BY <2>7, <3>2
  <2>10. PICK ins : ins = <<"newline">> OBVIOUS
  <2>11. ins \in Seq(Kinds) BY <2>10 DEF Kinds
  <2>12. PICK t : t = Inserted(r, place2[p], ins) OBVIOUS
  <2>13. /\ Upto(r.doc.lines, t.doc.lines, c)
         /\ p \in 0 .. Len(t.buffer) /\ Marked(t.doc)
         /\ \E place3 : Holds(t.doc, t.buffer, place3) /\ Reaches(place2, place3, p, 0, c)
    BY <2>7, <2>8, <2>9, <2>11, <2>12, InsertedShows
  <2>14. UnitReplaced(s, l, k) = t
    BY <1>1, <1>3, <1>10, <2>2, <2>5, <2>6, <2>9, <2>10, <2>12 DEF UnitReplaced, ReplaceReturn
  <2>15. PICK place3 : Holds(t.doc, t.buffer, place3) /\ Reaches(place2, place3, p, 0, c)
    BY <2>13
  <2>16. InLines(t.doc.lines, c)
    <3>1. p \in 0 .. p BY <1>6
    <3>2. place3[p] = c BY <2>9, <2>15, <3>1 DEF Reaches
    <3> QED BY <2>13, <2>15, <3>2, HoldsFacts
  <2>17. Upto(old, t.doc.lines, c)
    <3>1. BeforeOrAt(c, c) BY DEF BeforeOrAt
    <3>2. Upto(old, r.doc.lines, c) BY <1>2, <1>8, <2>7, <3>1, UptoTransitive
    <3> QED BY <1>2, <2>13, <3>1, <3>2, UptoTransitive
  <2>18. Shows(t.doc, t.buffer) BY <2>15 DEF Shows
  <2> QED BY <1>1, <1>3, <2>14, <2>16, <2>17, <2>18, <2>13 DEF Reached
<1> QED BY <1>3, <1>9, <1>10

\* A line, from its end to its start
LEMMA LineIsReplaced ==
    ASSUME IsLines(doc.lines), NEW l \in 0 .. Len(doc.lines) - 1, NEW s,
           Reached(s, Cursor(l, Len(doc.lines[l + 1])))
    PROVE  Reached(LineReplaced(s, l), Cursor(l, 0))
<1> DEFINE n == lineLength(doc, l)
           f == CHOOSE f : LastUnitsAre(f, s, l, n, n)
<1>1. n \in Nat /\ n = Len(doc.lines[l + 1]) BY LineFacts DEF lineLength
<1>2. LastUnitsAre(f, s, l, n, n)
  <2> HIDE DEF n
  <2> QED BY <1>1, LastUnitsExist
<1>3. LineReplaced(s, l) = f[n] BY DEF LineReplaced, LastUnitsAre
<1> HIDE DEF f, n
<1> DEFINE S == {k \in 0 .. n : Reached(f[k], Cursor(l, n - k))}
<1>4. 0 \in S
  <2>1. f[0] = s /\ n - 0 = n BY <1>1, <1>2 DEF LastUnitsAre
  <2> QED BY <1>1, <2>1
<1>5. ASSUME NEW k \in 0 .. n - 1, k \in S PROVE k + 1 \in S
  <2>1. k + 1 \in 0 .. n /\ k + 1 # 0 /\ (k + 1) - 1 = k BY <1>1
  <2>2. PICK j, i : j = n - (k + 1) /\ i = k + 1 OBVIOUS
  <2>3. j \in 0 .. Len(doc.lines[l + 1]) - 1 /\ j + 1 = n - k BY <1>1, <2>2
  <2>4. f[i] = UnitReplaced(f[k], l, j) BY <1>2, <2>1, <2>2 DEF LastUnitsAre
  <2>5. Reached(f[k], Cursor(l, j + 1)) BY <1>5, <2>3
  <2>6. Reached(f[i], Cursor(l, j)) BY <2>3, <2>4, <2>5, UnitIsReplaced
  <2> QED BY <2>1, <2>2, <2>6
<1>6. \A k \in 0 .. n : k \in S
  <2> HIDE DEF S
  <2> QED BY <1>1, <1>4, <1>5, UpTo
<1>7. Reached(f[n], Cursor(l, n - n))
  <2>1. n \in 0 .. n BY <1>1
  <2> QED BY <1>6, <2>1
<1>8. n - n = 0 BY <1>1
<1> QED BY <1>3, <1>7, <1>8

\* The end of a line is reached with the start of the next one.
LEMMA EndIsReached ==
    ASSUME IsLines(doc.lines), NEW l \in 0 .. Len(doc.lines) - 1, l # 0, NEW s,
           Reached(s, Cursor(l, 0))
    PROVE  Reached(s, Cursor(l - 1, Len(doc.lines[l])))
<1>1. PICK old, new, m : old = doc.lines /\ new = s.doc.lines /\ m = l - 1 OBVIOUS
<1>2. PICK c, e : c = Cursor(l, 0) /\ e = Cursor(m, Len(old[l])) OBVIOUS
<1>3. /\ Len(old) \in Nat /\ l \in 0 .. Len(old) - 1 /\ m \in 0 .. Len(old) - 1 /\ m + 1 = l
      /\ l \in Nat /\ m \in Nat
  BY <1>1, LineFacts
<1>4. Len(old[l]) \in Nat
  <2>1. Len(old[m + 1]) \in Nat BY <1>1, <1>3, LineFacts
  <2> QED BY <1>3, <2>1
<1>5. /\ c.line = l /\ c.column = 0 /\ e.line = m /\ e.column = Len(old[l])
      /\ e = Cursor(e.line, e.column)
  BY <1>2 DEF Cursor
<1>6. Upto(old, new, c) /\ InLines(new, c) /\ Shows(s.doc, s.buffer) /\ Marked(s.doc)
  BY <1>1, <1>2 DEF Reached
<1>7. \A i \in 1 .. l : new[i] = old[i] BY <1>5, <1>6 DEF Upto
<1>8. new[l] = old[l] BY <1>3, <1>7
<1>9. Upto(old, new, e)
  <2>1. \A i \in 1 .. m : i \in 1 .. l BY <1>3
  <2> QED BY <1>3, <1>5, <1>7, <1>8, <2>1 DEF Upto
<1>10. InLines(new, e)
  <2>1. l \in 0 .. Len(new) - 1 BY <1>5, <1>6 DEF InLines
  <2>2. IsLines(new) BY <1>1, <1>6, HoldsFacts DEF Shows
  <2>3. m \in 0 .. Len(new) - 1 BY <1>3, <2>1, <2>2, LineFacts
  <2>4. e.column \in 0 .. Len(new[e.line + 1]) BY <1>3, <1>4, <1>5, <1>8
  <2> QED BY <1>3, <1>4, <1>5, <2>3, <2>4 DEF InLines
<1> QED BY <1>1, <1>2, <1>6, <1>9, <1>10 DEF Reached

\* The conversion keeps the text and the document together, and the highlighting in order.
LEMMA ConversionShows ==
    ASSUME Shows(doc, buffer), Marked(doc), replaceLineEndings
    PROVE  Shows(doc', buffer') /\ Marked(doc')
<1> DEFINE n == Len(doc.lines)
           f == CHOOSE f : LastLinesAre(f, n, n)
           End(k) == Cursor(n - k - 1, Len(doc.lines[n - k]))
           S == {k \in 0 .. n - 1 : Reached(f[k], End(k))}
<1>1. IsLines(doc.lines) BY HoldsFacts DEF Shows
<1>2. n \in Nat /\ n > 0 BY <1>1, LineFacts
<1>3. LastLinesAre(f, n, n)
  <2> HIDE DEF n
  <2> QED BY <1>2, LastLinesExist
<1>4. doc' = f[n].doc /\ buffer' = f[n].buffer
  BY DEF replaceLineEndings, LastLinesAre, Becomes
<1> HIDE DEF f
<1>5. 0 \in S
  <2>1. PICK s, m : s = f[0] /\ m = n - 1 OBVIOUS
  <2>2. s.doc = doc /\ s.buffer = buffer BY <1>2, <1>3, <2>1 DEF LastLinesAre, State
  <2>3. m \in 0 .. n - 1 /\ m + 1 = n /\ n - 0 - 1 = m /\ n - 0 = n BY <1>2, <2>1
  <2>4. PICK c : c = Cursor(m, Len(doc.lines[n])) OBVIOUS
  <2>5. c.line = m /\ c.column = Len(doc.lines[m + 1]) /\ c = Cursor(c.line, c.column)
    BY <2>3, <2>4 DEF Cursor
  <2>6. Len(doc.lines[m + 1]) \in Nat BY <1>1, <2>3, LineFacts
  <2>7. InLines(doc.lines, c) BY <2>3, <2>5, <2>6 DEF InLines
  <2>8. Upto(doc.lines, doc.lines, c) BY DEF Upto
  <2>9. Reached(s, c) BY <2>2, <2>7, <2>8 DEF Reached
  <2>10. End(0) = c BY <2>3, <2>4
  <2>11. 0 \in 0 .. n - 1 BY <1>2
  <2> HIDE DEF End, n
  <2> QED BY <2>1, <2>9, <2>10, <2>11
<1>6. ASSUME NEW k \in 0 .. n - 1, Reached(f[k], End(k))
      PROVE  Reached(f[k + 1], Cursor(n - (k + 1), 0))
  <2>1. PICK i, l : i = k + 1 /\ l = n - (k + 1) OBVIOUS
  <2>2. /\ i \in 0 .. n /\ i # 0 /\ i - 1 = k /\ n - i = l
        /\ l \in 0 .. Len(doc.lines) - 1 /\ n - k - 1 = l /\ n - k = l + 1
    BY <1>2, <2>1
  <2>3. End(k) = Cursor(l, Len(doc.lines[l + 1])) BY <2>2
  <2>4. f[i] = LineReplaced(f[k], l)
    <3> HIDE DEF n
    <3> QED BY <1>3, <2>2 DEF LastLinesAre
  <2> HIDE DEF End, n
  <2>5. Reached(LineReplaced(f[k], l), Cursor(l, 0))
    BY <1>1, <1>6, <2>2, <2>3, LineIsReplaced
  <2> QED BY <2>1, <2>4, <2>5
<1>7. ASSUME NEW k \in 0 .. (n - 1) - 1, k \in S PROVE k + 1 \in S
  <2>1. k \in 0 .. n - 1 /\ k + 1 \in 0 .. n - 1 BY <1>2
  <2>2. PICK i, l : i = k + 1 /\ l = n - (k + 1) OBVIOUS
  <2>3. l \in 0 .. Len(doc.lines) - 1 /\ l # 0 /\ n - i - 1 = l - 1 /\ n - i = l
    BY <1>2, <2>2
  <2>4. End(i) = Cursor(l - 1, Len(doc.lines[l])) BY <2>3
  <2> HIDE DEF End, n
  <2>5. Reached(f[i], Cursor(l, 0)) BY <1>6, <1>7, <2>1, <2>2
  <2>6. Reached(f[i], End(i)) BY <1>1, <2>3, <2>4, <2>5, EndIsReached
  <2> QED BY <2>1, <2>2, <2>6
<1>8. \A k \in 0 .. n - 1 : k \in S
  <2>1. n - 1 \in Nat BY <1>2
  <2> HIDE DEF S, n
  <2> QED BY <1>5, <1>7, <2>1, UpTo
<1>9. Reached(f[n], Cursor(0, 0))
  <2>1. PICK m : m = n - 1 OBVIOUS
  <2>2. m \in 0 .. n - 1 /\ m + 1 = n /\ n - n = 0 BY <1>2, <2>1
  <2> HIDE DEF n, End
  <2>3. Reached(f[m], End(m)) BY <1>8, <2>2
  <2>4. Reached(f[m + 1], Cursor(n - (m + 1), 0)) BY <1>6, <2>2, <2>3
  <2> QED BY <2>2, <2>4
<1> QED BY <1>4, <1>9 DEF Reached

-----------------------------------------------------------------------------
(* The start *)

\* The document of an empty session
LEMMA EmptyHolds ==
    ASSUME NEW d, d = NoText,
           NEW place, place = [i \in {0} |-> Cursor(0, 0)]
    PROVE  Holds(d, <<>>, place) /\ place[0] = Cursor(0, 0)
<1>1. d.lines = <<<<>>>> /\ "lines" \in DOMAIN d BY DEF NoText
<1>2. PICK e : e = << >> OBVIOUS
<1>3. e \in Seq(Units) /\ Len(e) = 0 /\ e \in Seq(Kinds) BY <1>2
<1>4. PICK x : x = <<e>> OBVIOUS
<1>5. x \in Seq(Seq(Units)) /\ Len(x) = 1 /\ x[1] = e BY <1>3, <1>4
<1>6. IsLines(x) BY <1>5 DEF IsLines
<1>7. place[0] = Cursor(0, 0) OBVIOUS
<1>8. Spelled(x, e, place)
  <2>1. place[Len(e)] = Cursor(Len(x) - 1, Len(x[Len(x)]))
    <3>1. Len(x) - 1 = 0 BY <1>5
    <3> QED BY <1>3, <1>5, <1>7, <3>1
  <2>2. \A p \in 1 .. Len(e) : Spells(x, e[p], place[p - 1], place[p]) BY <1>3
  <2> QED BY <1>7, <2>1, <2>2 DEF Spelled
<1> QED BY <1>1, <1>2, <1>3, <1>4, <1>6, <1>7, <1>8 DEF Holds

\* A document that starts a session shows its text, and has no highlighting: nobody wrote it.
LEMMA StartShows ==
    Init => Shows(doc, buffer) /\ Marked(doc)
<1>1. SUFFICES ASSUME Init PROVE Shows(doc, buffer) /\ Marked(doc) OBVIOUS
<1>2. PICK c, e, q : c = Cursor(0, 0) /\ e = << >> /\ q = 0 OBVIOUS
<1>3. PICK L, T, C : /\ L = <<<<>>>> /\ T = << >>
                     /\ C = [u \in {Initially} |-> [hue |-> -1, dimmed |-> FALSE]]
  OBVIOUS
<1>4. NoText = DocOf(L, T, C) BY <1>3 DEF NoText, DocOf
<1>5. PICK place : place = [i \in {0} |-> Cursor(0, 0)] OBVIOUS
<1>6. Holds(NoText, e, place) /\ place[q] = c BY <1>2, <1>5, EmptyHolds
<1>7. buffer \in Seq(Kinds) /\ Nobody \in Users \cup {Nobody}
  BY <1>1, Texts DEF Init
<1>8. q \in 0 .. Len(e) /\ e \in Seq(Kinds) /\ Len(e) = 0 BY <1>2, EmptySeq
<1>9. PICK r : r = insertText(NoText, c, buffer, Nobody) OBVIOUS
<1>10. buffer = SubSeq(e, 1, q) \o buffer \o SubSeq(e, q + 1, Len(e))
  <2>1. SubSeq(e, 1, q) = << >> /\ SubSeq(e, q + 1, Len(e)) = << >> BY <1>2
  <2>2. PICK x, y : x = SubSeq(e, 1, q) /\ y = SubSeq(e, q + 1, Len(e)) OBVIOUS
  <2>3. x \o buffer = buffer /\ buffer \o y = buffer
    BY <1>7, <2>1, <2>2, ConcatEmptySeq
  <2> QED BY <2>2, <2>3
<1>11. \E place2 : Holds(r.doc, buffer, place2) /\ Reaches(place, place2, q, Len(buffer), r.at)
  <2>1. r = insertText(NoText, place[q], buffer, Nobody) BY <1>6, <1>9
  <2> QED BY <1>6, <1>7, <1>8, <1>10, <2>1, TextInserted
<1>12. PICK place2 : Holds(r.doc, buffer, place2) /\ Reaches(place, place2, q, Len(buffer), r.at)
  BY <1>11
<1>13. PICK N : N = r.doc.lines OBVIOUS
<1>14. IsLines(N) /\ r.at = Cursor(Len(N) - 1, Len(N[Len(N)]))
  <2>1. IsLines(N) /\ Spelled(N, buffer, place2) /\ Len(buffer) \in Nat
    BY <1>12, <1>13, HoldsFacts
  <2>2. place2[q + Len(buffer)] = r.at /\ q + Len(buffer) = Len(buffer)
    BY <1>2, <1>12, <2>1 DEF Reaches
  <2>3. place2[Len(buffer)] = Cursor(Len(N) - 1, Len(N[Len(N)])) BY <2>1 DEF Spelled
  <2> QED BY <2>1, <2>2, <2>3
<1>15. C \in [DOMAIN C -> Colors] /\ Palette(C) /\ HuesApart(C) /\ DOMAIN C = {Initially}
  <2>1. PICK h : h = [hue |-> -1, dimmed |-> FALSE] OBVIOUS
  <2>2. h \in Colors /\ h.hue = -1 BY <2>1 DEF Colors
  <2>3. DOMAIN C = {Initially} /\ C[Initially] = h /\ C \in [{Initially} -> Colors]
    BY <1>3, <2>1, <2>2
  <2> QED BY <2>2, <2>3 DEF Palette, HuesApart, ToldApart
<1>16. T \in Seq(Marks) /\ Len(T) = 0
  <2>1. << >> \in Seq(Marks) /\ Len(<< >>) = 0 BY EmptySeq
  <2> QED BY <1>3, <2>1
<1>17. ASSUME NEW M, IsLines(M) PROVE Sound(M, T, C)
  BY <1>15, <1>16, <1>17 DEF Sound, Grounded, Apart
<1>18. Filled(N, c, r.at, Nobody)
  <2>1. IsLines(L) /\ InLines(L, c)
    <3>1. NoText.lines = L BY <1>4, DocFacts
    <3>2. 0 \in 0 .. Len(e) BY <1>8
    <3> QED BY <1>2, <1>6, <3>1, <3>2, HoldsFacts
  <2>2. Sound(L, T, C) BY <1>17, <2>1
  <2>3. Torn(L, T, C, c, c, Nobody) BY <2>1, <2>2, SoundIsTorn
  <2>4. ASSUME NEW x, IsUnit(L, x) PROVE FALSE
    <3>1. x.line \in 0 .. Len(L) - 1 /\ x.column \in 0 .. Len(L[x.line + 1])
          /\ x.column < Len(L[x.line + 1])
      BY <2>4, InLinesSpot DEF IsUnit
    <3>2. Len(L) = 1 /\ L[1] = << >> /\ Len(<< >>) = 0 BY <1>3, EmptySeq
    <3>3. x.line = 0 BY <3>1, <3>2
    <3> QED BY <3>1, <3>2, <3>3
  <2>5. PICK s : s = [doc |-> NoText, at |-> c] OBVIOUS
  <2>6. s.doc = DocOf(L, T, C) /\ s.at = c BY <1>4, <2>5
  <2>7. Put(s, C, c, Nobody) BY <2>3, <2>4, <2>6 DEF Put, Outside
  <2>8. Put(r, C, c, Nobody) BY <1>7, <1>9, <2>5, <2>7, TextPut
  <2>9. PICK M, V : r.doc = DocOf(M, V, C) /\ Torn(M, V, C, c, r.at, Nobody)
    BY <2>8 DEF Put
  <2>10. M = N BY <1>13, <2>9, DocFacts
  <2> QED BY <2>9, <2>10 DEF Torn
<1>19. ASSUME NEW x, IsUnit(N, x) PROVE Right(N, T, C, x)
  <2>1. /\ x \in Spots /\ x.line \in 0 .. Len(N) - 1 /\ x.column \in 0 .. Len(N[x.line + 1])
        /\ x.column < Len(N[x.line + 1])
    BY <1>19, InLinesSpot DEF IsUnit
  <2>2. Len(N) \in Nat /\ Len(N) > 0 BY <1>14, LineFacts
  <2>3. PICK l, k, n, w \in Nat : l = x.line /\ k = x.column /\ n = Len(N) - 1 /\ w = Len(N[Len(N)])
    <3>1. Len(N) - 1 \in 0 .. Len(N) - 1 /\ Len(N) - 1 \in Nat /\ (Len(N) - 1) + 1 = Len(N)
      BY <2>2
    <3>2. Len(N[(Len(N) - 1) + 1]) \in Nat BY <1>14, <3>1, LineFacts
    <3> QED BY <2>1, <3>1, <3>2, Orders
  <2>4. l < n \/ (l = n /\ k < w)
    <3>1. l = n => l + 1 = Len(N) BY <2>2, <2>3
    <3> QED BY <2>1, <2>3, <3>1
  <2>5. PICK a \in Spots : a = r.at /\ a.line = n /\ a.column = w
    BY <1>14, <2>3, Orders
  <2>6. ~BeforeOrAt(a, x)
    <3>1. BeforeOrAt(a, x) => a.line < x.line \/ (a.line = x.line /\ a.column <= x.column)
      BY <2>1, Orders
    <3> QED BY <2>3, <2>4, <2>5, <3>1
  <2>7. Before(x, a) BY <2>1, <2>6, OrderLaws
  <2>8. BeforeOrAt(c, x)
    <3>1. c \in Spots /\ c.line = 0 /\ c.column = 0 BY <1>2, Orders
    <3>2. l = 0 \/ 0 < l OBVIOUS
    <3> QED BY <2>1, <2>3, <3>1, <3>2, Orders
  <2>9. By(N, x) = Nobody BY <1>18, <1>19, <2>5, <2>7, <2>8 DEF Filled
  <2> QED BY <1>16, <2>9 DEF Right
<1>20. doc = DocOf(N, T, C)
  <2>1. doc = [NoText EXCEPT !.lines = N]
    BY <1>1, <1>2, <1>9, <1>13 DEF Init, LinesOf
  <2> QED BY <1>4, <2>1 DEF DocOf
<1>21. Holds(doc, buffer, place2) BY <1>12, <1>13, <1>20, DocFacts DEF Holds
<1> QED BY <1>14, <1>15, <1>17, <1>19, <1>20, <1>21 DEF Marked, Whole, Shows

-----------------------------------------------------------------------------
(* The theorems *)

\* The inductive invariant. The properties follow from it, and none of them is inductive:
\* SameText does not say that a cursor the code computes from an offset is where the text
\* continues, nor AuthorsShown that the ranges stay apart and in the colours of users.
IInv == Shows(doc, buffer) /\ Marked(doc) /\ phase \in {"joining", "joined", "asked"}

\* Every step of the editor and of the shared text keeps it.
LEMMA Inductive ==
    IInv /\ [Next]_vars => IInv'
<1> SUFFICES ASSUME IInv, [Next]_vars PROVE IInv' OBVIOUS
<1>1. Shows(doc, buffer) /\ Marked(doc) BY DEF IInv
<1>2. phase' \in {"joining", "joined", "asked"}
  BY DEF IInv, Next, Edit, vars, Joined, LeaveLineEndings, ClearHighlight, onInsertText,
         onEraseText, localTextInserted, localTextRemoved, replaceLineEndings
<1>3. ASSUME NEW offset \in 0 .. Len(buffer), NEW text \in Received, NEW user \in Peers,
             onInsertText(offset, text, user)
      PROVE  IInv'
  BY <1>1, <1>2, <1>3, InsertShows DEF IInv
<1>4. ASSUME NEW offset \in 0 .. Len(buffer), NEW length \in 1 .. Len(buffer),
             offset + length <= Len(buffer), onEraseText(offset, length)
      PROVE  IInv'
  BY <1>1, <1>2, <1>4, EraseShows DEF IInv
<1>5. ASSUME NEW c \in Cursors, NEW text \in Typed, localTextInserted(c, text)
      PROVE  IInv'
  BY <1>1, <1>2, <1>5, TypingShows DEF IInv
<1>6. ASSUME NEW from \in Cursors, NEW to \in Cursors, localTextRemoved(from, to)
      PROVE  IInv'
  BY <1>1, <1>2, <1>6, DeletingShows DEF IInv
<1>7. CASE replaceLineEndings BY <1>1, <1>2, <1>7, ConversionShows DEF IInv
<1>8. CASE ClearHighlight BY <1>1, <1>2, <1>8, ClearShows, ClearMarks DEF IInv
<1>9. CASE UNCHANGED <<doc, buffer>> BY <1>1, <1>2, <1>9 DEF IInv
<1>10. Joined \/ LeaveLineEndings \/ UNCHANGED vars => UNCHANGED <<doc, buffer>>
  BY DEF Joined, LeaveLineEndings, vars
<1> QED BY <1>3, <1>4, <1>5, <1>6, <1>7, <1>8, <1>9, <1>10 DEF Next, Edit

\* It holds in every state.
LEMMA Invariant == Spec => []IInv
<1>1. Init => IInv BY StartShows DEF IInv, Init
<1> QED BY <1>1, Inductive, PTL DEF Spec

\* Whatever is edited, by whom and where, the document shows the text of the session.
THEOREM TextsAgree == Spec => []SameText
<1>1. IInv => SameText
  <2> SUFFICES ASSUME IInv PROVE SameText OBVIOUS
  <2>1. PICK place : Holds(doc, buffer, place) BY DEF IInv, Shows
  <2>2. PICK f : f = [p \in 0 .. Len(buffer) |-> offsetToCursor_kte(doc.lines, p)] OBVIOUS
  <2>3. Len(buffer) \in Nat /\ Spelled(doc.lines, buffer, place) BY <2>1, HoldsFacts
  <2>4. \A p \in 0 .. Len(buffer) : f[p] = place[p] BY <2>1, <2>2, HoldsFacts
  <2>5. 0 \in 0 .. Len(buffer) /\ Len(buffer) \in 0 .. Len(buffer)
        /\ \A p \in 1 .. Len(buffer) : p \in 0 .. Len(buffer) /\ p - 1 \in 0 .. Len(buffer)
    BY <2>3
  <2>6. Spelled(doc.lines, buffer, f) BY <2>3, <2>4, <2>5 DEF Spelled
  <2> QED BY <2>2, <2>6 DEF SameText
<1> QED BY <1>1, Invariant, PTL

\* No offset of the session is lost or split by the translation to cursors and back.
THEOREM OffsetsTranslate == Spec => []OffsetsRoundTrip
<1>1. IInv => OffsetsRoundTrip
  BY HoldsFacts, CursorFacts DEF IInv, Shows, OffsetsRoundTrip
<1> QED BY <1>1, Invariant, PTL

\* The ranges of a document in which the highlighting is in order
LEMMA MarkedFacts ==
    ASSUME NEW d, Marked(d)
    PROVE  \E C : /\ Sound(d.lines, d.ranges, C) /\ d.colors = C
                  /\ FewUsers => HuesApart(C) /\ Whole(d.lines, d.ranges, C)
  BY DocFacts DEF Marked

\* All has its type, and no range goes over the end of a line or out of the text,
\* however many users there are.
THEOREM RangesPlaced == Spec => [](TypeOK /\ RangesInLines)
<1>1. IInv => TypeOK /\ RangesInLines
  <2> SUFFICES ASSUME IInv PROVE TypeOK /\ RangesInLines OBVIOUS
  <2>1. PICK L, R, C : L = doc.lines /\ R = doc.ranges /\ C = doc.colors OBVIOUS
  <2>2. Sound(L, R, C) BY <2>1, MarkedFacts DEF IInv
  <2>3. /\ IsLines(L) /\ R \in Seq(Marks)
        /\ \A i \in 1 .. Len(R) : /\ Flat(R[i]) /\ BeforeOrAt(R[i].start, R[i].end)
                                  /\ Within(L, R[i]) /\ Tied(C, R[i])
    BY <2>2 DEF Sound, Grounded
  <2>4. ASSUME NEW r \in Range(R) PROVE \E i \in 1 .. Len(R) : r = R[i] /\ R[i] \in Marks
    BY <2>3, <2>4, RangeTypes DEF Range
  <2>5. ASSUME NEW r \in Range(R)
        PROVE  /\ BeforeOrAt(r.start, r.end)
               /\ r.end.line < Len(L) /\ r.end.column <= Len(Line(L, r.end.line))
               /\ r.name \in Users \cup {NoName} /\ r.color \in Range(C)
               /\ r.start.line = r.end.line
    <3>1. PICK i \in 1 .. Len(R) : r = R[i] /\ R[i] \in Marks BY <2>4, <2>5
    <3>2. BeforeOrAt(r.start, r.end) /\ InLines(L, r.end) /\ Tied(C, r) /\ Flat(r)
      BY <2>3, <3>1 DEF Within
    <3>3. /\ r.end.line < Len(L) /\ r.end.column <= Len(L[r.end.line + 1])
          /\ Line(L, r.end.line) = L[r.end.line + 1]
      BY <2>3, <3>2, InLinesFacts
    <3>4. r.name \in Users \cup {NoName} BY <3>1, MarkFacts
    <3>5. r.color \in Range(C) BY <3>2 DEF Tied, Range
    <3> QED BY <3>2, <3>3, <3>4, <3>5 DEF Flat
  <2>6. \A l \in DOMAIN L : L[l] \in Seq([kind : UnitKinds, by : Users \cup {Nobody}])
    BY <2>3, LenProperties, ElementOfSeq DEF IsLines, Units
  <2>7. buffer \in Seq(Kinds) BY HoldsFacts DEF IInv, Shows
  <2>8. phase \in {"joining", "joined", "asked"} BY DEF IInv
  <2>9. TypeOK BY <2>1, <2>5, <2>6, <2>7, <2>8 DEF TypeOK, lineLength
  <2> QED BY <2>1, <2>5, <2>9 DEF RangesInLines
<1> QED BY <1>1, Invariant, PTL

\* The ranges are in place, and the colours apart unless the attempts of
\* colorForUsername() ran out, four hues being taken: however many users there are.
THEOREM ColoursTellUsers == Spec => []HighlightInv
<1>1. IInv => ColoursApart
  <2> SUFFICES ASSUME IInv PROVE ColoursApart OBVIOUS
  <2>1. PICK L, R, C : L = doc.lines /\ R = doc.ranges /\ C = doc.colors OBVIOUS
  <2>2. Palette(C) BY <2>1, MarkedFacts, SoundFacts DEF IInv
  <2> QED BY <2>1, <2>2 DEF Palette, ColoursApart
<1>2. (TypeOK /\ RangesInLines) /\ ColoursApart => HighlightInv BY DEF HighlightInv
<1> QED BY <1>1, <1>2, Invariant, RangesPlaced, PTL

\* With three users at the most the attempts never run out: any two are apart.
THEOREM FewAreApart == ASSUME FewUsers PROVE Spec => []HuesApart(doc.colors)
<1>1. IInv => HuesApart(doc.colors) BY MarkedFacts DEF IInv
<1> QED BY <1>1, Invariant, PTL

\* With three users at the most the highlighting shows who wrote what, and names nobody as
\* the author of what another one wrote.
THEOREM AuthorsAreShown == ASSUME FewUsers PROVE Spec => []AuthorsShown
<1>1. IInv => AuthorsShown
  <2> SUFFICES ASSUME IInv PROVE AuthorsShown OBVIOUS
  <2>1. PICK L, R, C : L = doc.lines /\ R = doc.ranges /\ C = doc.colors OBVIOUS
  <2>2. Sound(L, R, C) /\ HuesApart(C) /\ Whole(L, R, C)
    BY <2>1, MarkedFacts DEF IInv
  <2>3. /\ IsLines(L) /\ R \in Seq(Marks) /\ Palette(C) /\ Apart(R)
        /\ \A i \in 1 .. Len(R) : Tied(C, R[i])
    BY <2>2 DEF Sound, Grounded
  <2>4. PICK n \in Nat : n = Len(R) /\ DOMAIN R = 1 .. n /\ \A i \in 1 .. n : R[i] \in Marks
    BY <2>3, RangeTypes
  <2>5. ASSUME NEW l \in DOMAIN L, NEW k \in DOMAIN L[l], NEW x, x = Cursor(l - 1, k - 1)
        PROVE  IsUnit(L, x) /\ By(L, x) = L[l][k].by /\ L[l][k].by \in Users \cup {Nobody}
    <3>1. /\ l \in 1 .. Len(L) /\ Len(L) \in Nat /\ L[l] \in Seq(Units)
          /\ k \in 1 .. Len(L[l]) /\ Len(L[l]) \in Nat /\ L[l][k] \in Units
      BY <2>3, <2>5, LenProperties, ElementOfSeq DEF IsLines
    <3>2. l - 1 \in Nat /\ k - 1 \in Nat /\ (l - 1) + 1 = l /\ (k - 1) + 1 = k
      BY <3>1
    <3>3. x \in Spots /\ x.line = l - 1 /\ x.column = k - 1 BY <2>5, <3>2, Orders
    <3>4. InLines(L, x) /\ x.column < Len(L[x.line + 1])
      BY <3>1, <3>2, <3>3, InLinesSpot
    <3> QED BY <3>1, <3>2, <3>3, <3>4 DEF IsUnit, By, Units
  <2>6. ASSUME NEW x, IsUnit(L, x), NEW i \in 1 .. n, NEW j \in 1 .. n,
               Covers(R[i], x), Covers(R[j], x)
        PROVE  i = j
    <3>1. SUFFICES ASSUME i # j PROVE FALSE OBVIOUS
    <3>2. Clear(R[i], R[j]) BY <2>3, <2>4, <3>1 DEF Apart
    <3>3. PICK p \in Spots, q \in Spots : p = R[i].start /\ q = R[i].end
      BY <2>4, MarkFacts
    <3>4. PICK f \in Spots, g \in Spots : f = R[j].start /\ g = R[j].end
      BY <2>4, MarkFacts
    <3>5. x \in Spots BY <2>6, InLinesSpot DEF IsUnit
    <3>6. BeforeOrAt(p, x) /\ Before(x, q) /\ BeforeOrAt(f, x) /\ Before(x, g)
      BY <2>6, <3>3, <3>4 DEF Covers
    <3>7. p = q \/ f = g \/ BeforeOrAt(q, f) \/ BeforeOrAt(g, p)
      BY <3>2, <3>3, <3>4 DEF Clear, isEmpty
    <3> QED BY <3>5, <3>6, <3>7, OrderLaws
  <2>7. ASSUME NEW x, IsUnit(L, x)
        PROVE  /\ By(L, x) = Nobody => \A i \in 1 .. n : ~Covers(R[i], x)
               /\ By(L, x) # Nobody =>
                     /\ By(L, x) \in DOMAIN C
                     /\ \E i \in 1 .. n : Covers(R[i], x) /\ R[i].color = C[By(L, x)]
    BY <2>2, <2>4, <2>7 DEF Whole, Right
  <2>8. WrittenIsHighlighted
    <3>1. SUFFICES ASSUME NEW l \in DOMAIN L, NEW k \in DOMAIN L[l]
                   PROVE  IF L[l][k].by = Nobody THEN Covering(l, k) = {}
                          ELSE \E r \in Covering(l, k) :
                                   /\ Covering(l, k) = {r} /\ r.color = C[L[l][k].by]
                                   /\ L[l][k].by \in DOMAIN C
      BY <2>1 DEF WrittenIsHighlighted
    <3>2. PICK x : x = Cursor(l - 1, k - 1) OBVIOUS
    <3>3. IsUnit(L, x) /\ By(L, x) = L[l][k].by BY <2>5, <3>2
    <3>4. Covering(l, k) = {R[i] : i \in {j \in 1 .. n : Covers(R[j], x)}}
      BY <2>1, <2>4, <3>2 DEF Covering, Range, Covers
    <3>5. CASE L[l][k].by = Nobody BY <2>7, <3>3, <3>4, <3>5
    <3>6. CASE L[l][k].by # Nobody
      <4>1. PICK i \in 1 .. n : /\ Covers(R[i], x) /\ R[i].color = C[L[l][k].by]
                                /\ L[l][k].by \in DOMAIN C
        BY <2>7, <3>3, <3>6
      <4>2. \A j \in 1 .. n : Covers(R[j], x) => j = i BY <2>6, <3>3, <4>1
      <4>3. Covering(l, k) = {R[i]} BY <3>4, <4>1, <4>2
      <4> QED BY <3>6, <4>1, <4>3
    <3> QED BY <3>5, <3>6
  <2>9. NamedOnlyIfWritten
    <3>1. SUFFICES ASSUME NEW l \in DOMAIN L, NEW k \in DOMAIN L[l], NEW x, x = Cursor(l - 1, k - 1)
                   PROVE  userForCursor(doc, x) \in {L[l][k].by, NoName, "unknown user"}
      BY <2>1 DEF NamedOnlyIfWritten
    <3>2. PICK u : u = L[l][k].by OBVIOUS
    <3>3. IsUnit(L, x) /\ By(L, x) = u /\ u \in Users \cup {Nobody}
      BY <2>5, <3>1, <3>2
    <3>4. PICK S : S = {i \in 1 .. n : Covers(R[i], x)} OBVIOUS
    <3>5. userForCursor(doc, x) = IF S = {} THEN "unknown user" ELSE R[Min(S)].name
      BY <2>1, <2>4, <3>4 DEF userForCursor, Covers
    <3>6. CASE S = {} BY <3>5, <3>6
    <3>7. CASE S # {}
      <4>1. PICK m \in S : \A j \in S : m <= j
        <5>1. S \in SUBSET Nat BY <3>4
        <5> QED BY <3>7, <5>1, LeastExists
      <4>2. Min(S) \in S BY <4>1 DEF Min
      <4>3. PICK i \in 1 .. n : i = Min(S) /\ Covers(R[i], x) BY <3>4, <4>2
      <4>4. u # Nobody /\ u \in DOMAIN C /\ u \in Users BY <2>7, <3>3, <4>3
      <4>5. R[i].color = C[u] BY <2>6, <2>7, <3>3, <4>3, <4>4
      <4>6. PICK v : v = R[i].name OBVIOUS
      <4>7. ASSUME v # NoName, v # u PROVE FALSE
        <5>1. v \in DOMAIN C /\ C[v] = C[u] /\ v \in Users
          BY <2>3, <2>4, <4>5, <4>6, <4>7, MarkFacts DEF Tied
        <5>2. v # Initially /\ u # Initially BY <4>4, <5>1, EditedTextAssumption
        <5>3. HueDistance(C[v].hue, C[u].hue) > MinDistance
          BY <2>2, <4>4, <4>7, <5>1, <5>2 DEF HuesApart
        <5>4. C[u].hue \in 0 .. 359 BY <2>3, <4>4, <5>2 DEF Palette
        <5>5. PICK h \in Int : h = C[u].hue /\ h = C[v].hue BY <5>1, <5>4
        <5>6. HueDistance(h, h) = 0 BY DEF HueDistance
        <5> QED BY <5>3, <5>5, <5>6 DEF MinDistance
      <4> QED BY <3>2, <3>5, <3>7, <4>3, <4>6, <4>7
    <3> QED BY <3>6, <3>7
  <2> QED BY <2>8, <2>9 DEF AuthorsShown
<1> QED BY <1>1, Invariant, PTL
=============================================================================
