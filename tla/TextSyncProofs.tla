--------------------------- MODULE TextSyncProofs ---------------------------
(* Theorems about TextSync, for every alphabet, text length and bound. *)
EXTENDS TextSync, SequenceTheorems, FiniteSetTheorems, TLAPS

-----------------------------------------------------------------------------
(* Lemmas about texts *)

\* A concatenation holds the characters of its first part, then those of its
\* second.
LEMMA ConcatParts ==
    ASSUME NEW S, NEW s1 \in Seq(S), NEW s2 \in Seq(S)
    PROVE  /\ s1 \o s2 \in Seq(S)
           /\ Len(s1 \o s2) = Len(s1) + Len(s2)
           /\ \A i \in 1 .. Len(s1) : (s1 \o s2)[i] = s1[i]
           /\ \A i \in 1 .. Len(s2) : (s1 \o s2)[Len(s1) + i] = s2[i]
<1>1. Len(s1) \in Nat /\ Len(s2) \in Nat
  BY LenProperties
<1>2. /\ s1 \o s2 \in Seq(S)
      /\ Len(s1 \o s2) = Len(s1) + Len(s2)
      /\ \A i \in 1 .. Len(s1) + Len(s2) :
            (s1 \o s2)[i] = IF i <= Len(s1) THEN s1[i] ELSE s2[i - Len(s1)]
  BY ConcatProperties
<1>3. ASSUME NEW i \in 1 .. Len(s2)
      PROVE  (s1 \o s2)[Len(s1) + i] = s2[i]
  <2>1. Len(s1) + i \in 1 .. Len(s1) + Len(s2) /\ ~(Len(s1) + i <= Len(s1))
    BY <1>1
  <2>2. (Len(s1) + i) - Len(s1) = i
    BY <1>1
  <2> QED
    BY <1>2, <2>1, <2>2
<1> QED
  BY <1>1, <1>2, <1>3

\* The two ends of a text.
LEMMA Ends ==
    ASSUME NEW S, NEW s \in Seq(S), NEW p \in 0 .. Len(s), NEW q \in p .. Len(s)
    PROVE  /\ SubSeq(s, 1, p) \in Seq(S)
           /\ Len(SubSeq(s, 1, p)) = p
           /\ \A i \in 1 .. p : SubSeq(s, 1, p)[i] = s[i]
           /\ SubSeq(s, q + 1, Len(s)) \in Seq(S)
           /\ Len(SubSeq(s, q + 1, Len(s))) = Len(s) - q
           /\ \A i \in 1 .. Len(s) - q : SubSeq(s, q + 1, Len(s))[i] = s[q + i]
<1>1. Len(s) \in Nat /\ p \in Nat /\ q \in Nat /\ p <= q /\ q <= Len(s)
  BY LenProperties
<1>2. \A i \in 1 .. Len(s) : s[i] \in S
  BY ElementOfSeq
<1>3. \A i \in 1 .. p : s[i] \in S
  BY <1>1, <1>2
<1>4. \A i \in q + 1 .. Len(s) : s[i] \in S
  BY <1>1, <1>2
<1>5. /\ SubSeq(s, 1, p) \in Seq(S)
      /\ Len(SubSeq(s, 1, p)) = IF 1 <= p THEN p - 1 + 1 ELSE 0
      /\ \A i \in 1 .. p - 1 + 1 : SubSeq(s, 1, p)[i] = s[1 + i - 1]
  BY <1>1, <1>3, SubSeqProperties
<1>6. /\ SubSeq(s, q + 1, Len(s)) \in Seq(S)
      /\ Len(SubSeq(s, q + 1, Len(s))) =
            IF q + 1 <= Len(s) THEN Len(s) - (q + 1) + 1 ELSE 0
      /\ \A i \in 1 .. Len(s) - (q + 1) + 1 :
            SubSeq(s, q + 1, Len(s))[i] = s[q + 1 + i - 1]
  <2>1. q + 1 \in Int /\ Len(s) \in Int
    BY <1>1
  <2> QED
    BY <1>4, <2>1, SubSeqProperties
<1>7. \A i \in 1 .. p : SubSeq(s, 1, p)[i] = s[i]
  <2>1. p - 1 + 1 = p /\ \A i \in 1 .. p : 1 + i - 1 = i
    BY <1>1
  <2> QED
    BY <1>5, <2>1
<1>8. \A i \in 1 .. Len(s) - q : SubSeq(s, q + 1, Len(s))[i] = s[q + i]
  <2>1. /\ Len(s) - (q + 1) + 1 = Len(s) - q
        /\ \A i \in 1 .. Len(s) - q : q + 1 + i - 1 = q + i
    BY <1>1
  <2> QED
    BY <1>6, <2>1
<1> QED
  BY <1>1, <1>5, <1>6, <1>7, <1>8

\* Splicing lengthens a text by what is spliced in and shifts what follows.
LEMMA SpliceProperties ==
    ASSUME NEW S, NEW s \in Seq(S), NEW t \in Seq(S), NEW p \in 0 .. Len(s)
    PROVE  /\ Splice(s, p, t) \in Seq(S)
           /\ Len(Splice(s, p, t)) = Len(s) + Len(t)
           /\ \A i \in 1 .. p : Splice(s, p, t)[i] = s[i]
           /\ \A i \in 1 .. Len(t) : Splice(s, p, t)[p + i] = t[i]
           /\ \A i \in 1 .. Len(s) - p :
                  Splice(s, p, t)[p + Len(t) + i] = s[p + i]
<1> DEFINE a == SubSeq(s, 1, p)
           b == SubSeq(s, p + 1, Len(s))
<1>1. Len(s) \in Nat /\ Len(t) \in Nat /\ p \in Nat /\ p \in p .. Len(s)
  BY LenProperties
<1>2. /\ a \in Seq(S) /\ Len(a) = p
      /\ \A i \in 1 .. p : a[i] = s[i]
      /\ b \in Seq(S) /\ Len(b) = Len(s) - p
      /\ \A i \in 1 .. Len(s) - p : b[i] = s[p + i]
  BY <1>1, Ends
<1>3. Splice(s, p, t) = a \o t \o b
  BY DEF Splice
<1> HIDE DEF a, b
<1> DEFINE u == a \o t
<1>4. /\ u \in Seq(S) /\ Len(u) = p + Len(t)
      /\ \A i \in 1 .. p : u[i] = a[i]
      /\ \A i \in 1 .. Len(t) : u[p + i] = t[i]
  <2>1. a \in Seq(S) /\ Len(a) = p
    BY <1>2
  <2> HIDE DEF u
  <2>2. u \in Seq(S) /\ Len(u) = Len(a) + Len(t)
    BY <2>1, ConcatParts DEF u
  <2>3. \A i \in 1 .. Len(a) : u[i] = a[i]
    BY <2>1, ConcatParts DEF u
  <2>4. \A i \in 1 .. Len(t) : u[Len(a) + i] = t[i]
    BY <2>1, ConcatParts DEF u
  <2> QED
    BY <2>1, <2>2, <2>3, <2>4
<1>5. Splice(s, p, t) = u \o b
  BY <1>3
<1> HIDE DEF u
<1>6. /\ u \o b \in Seq(S) /\ Len(u \o b) = Len(u) + Len(b)
      /\ \A i \in 1 .. Len(u) : (u \o b)[i] = u[i]
      /\ \A i \in 1 .. Len(b) : (u \o b)[Len(u) + i] = b[i]
  <2>1. u \in Seq(S) /\ b \in Seq(S)
    BY <1>2, <1>4
  <2>2. u \o b \in Seq(S) /\ Len(u \o b) = Len(u) + Len(b)
    BY <2>1, ConcatParts
  <2>3. \A i \in 1 .. Len(u) : (u \o b)[i] = u[i]
    BY <2>1, ConcatParts
  <2>4. \A i \in 1 .. Len(b) : (u \o b)[Len(u) + i] = b[i]
    BY <2>1, ConcatParts
  <2> QED
    BY <2>2, <2>3, <2>4
<1>7. Len(u \o b) = Len(s) + Len(t)
  BY <1>1, <1>2, <1>4, <1>6
<1>8. \A i \in 1 .. p : (u \o b)[i] = s[i]
  BY <1>1, <1>2, <1>4, <1>6
<1>9. \A i \in 1 .. Len(t) : (u \o b)[p + i] = t[i]
  <2>1. \A i \in 1 .. Len(t) : p + i \in 1 .. Len(u)
    BY <1>1, <1>4
  <2> QED
    BY <1>4, <1>6, <2>1
<1>10. \A i \in 1 .. Len(s) - p : (u \o b)[p + Len(t) + i] = s[p + i]
  BY <1>2, <1>4, <1>6
<1> QED
  BY <1>5, <1>6, <1>7, <1>8, <1>9, <1>10

\* A stack of one edit is not the empty stack.
LEMMA OneIsNotEmpty ==
    ASSUME NEW S, NEW s \in Seq(S), Len(s) = 1
    PROVE  s # << >>
BY EmptySeq

\* Cutting shortens a text and shifts what follows.
LEMMA CutProperties ==
    ASSUME NEW S, NEW s \in Seq(S), NEW p \in 0 .. Len(s), NEW n \in Nat,
           p + n <= Len(s)
    PROVE  /\ Cut(s, p, n) \in Seq(S)
           /\ Len(Cut(s, p, n)) = Len(s) - n
           /\ \A i \in 1 .. p : Cut(s, p, n)[i] = s[i]
           /\ \A i \in 1 .. Len(s) - (p + n) :
                  Cut(s, p, n)[p + i] = s[p + n + i]
<1> DEFINE a == SubSeq(s, 1, p)
           b == SubSeq(s, p + n + 1, Len(s))
<1>1. Len(s) \in Nat /\ p \in Nat /\ p + n \in p .. Len(s)
  BY LenProperties
<1>2. /\ a \in Seq(S) /\ Len(a) = p
      /\ \A i \in 1 .. p : a[i] = s[i]
      /\ b \in Seq(S) /\ Len(b) = Len(s) - (p + n)
      /\ \A i \in 1 .. Len(s) - (p + n) : b[i] = s[p + n + i]
  BY <1>1, Ends
<1>3. Cut(s, p, n) = a \o b
  BY DEF Cut
<1> HIDE DEF a, b
<1>4. /\ a \o b \in Seq(S) /\ Len(a \o b) = Len(a) + Len(b)
      /\ \A i \in 1 .. Len(a) : (a \o b)[i] = a[i]
      /\ \A i \in 1 .. Len(b) : (a \o b)[Len(a) + i] = b[i]
  <2>1. a \in Seq(S) /\ b \in Seq(S)
    BY <1>2
  <2>2. a \o b \in Seq(S) /\ Len(a \o b) = Len(a) + Len(b)
    BY <2>1, ConcatParts
  <2>3. \A i \in 1 .. Len(a) : (a \o b)[i] = a[i]
    BY <2>1, ConcatParts
  <2>4. \A i \in 1 .. Len(b) : (a \o b)[Len(a) + i] = b[i]
    BY <2>1, ConcatParts
  <2> QED
    BY <2>2, <2>3, <2>4
<1>5. Len(a \o b) = Len(s) - n
  BY <1>1, <1>2, <1>4
<1> QED
  BY <1>2, <1>3, <1>4, <1>5

\* A cut that reaches beyond the end still leaves a text.
LEMMA CutType ==
    ASSUME NEW S, NEW s \in Seq(S), NEW p \in 0 .. Len(s), NEW n \in Nat
    PROVE  Cut(s, p, n) \in Seq(S)
<1>1. CASE p + n <= Len(s)
  BY <1>1, CutProperties
<1>2. CASE p + n > Len(s)
  <2>1. Len(s) \in Nat /\ p \in p .. Len(s)
    BY LenProperties
  <2>2. SubSeq(s, 1, p) \in Seq(S)
    BY <2>1, Ends
  <2>3. SubSeq(s, p + n + 1, Len(s)) = << >>
    <3>1. p + n + 1 \in Int /\ Len(s) \in Int /\ Len(s) < p + n + 1
      BY <1>2, <2>1
    <3> QED
      BY <3>1, SubSeqEmpty
  <2>4. << >> \in Seq(S)
    BY EmptySeq
  <2> QED
    BY <2>2, <2>3, <2>4, ConcatParts DEF Cut
<1> QED
  BY <1>1, <1>2, LenProperties

\* Removing what was inserted gives the text before the insertion.
LEMMA CutSplice ==
    ASSUME NEW S, NEW s \in Seq(S), NEW t \in Seq(S), NEW p \in 0 .. Len(s)
    PROVE  Cut(Splice(s, p, t), p, Len(t)) = s
<1> DEFINE u == Splice(s, p, t)
           c == Cut(u, p, Len(t))
<1>1. /\ u \in Seq(S)
      /\ Len(u) = Len(s) + Len(t)
      /\ \A i \in 1 .. p : u[i] = s[i]
      /\ \A i \in 1 .. Len(s) - p : u[p + Len(t) + i] = s[p + i]
  BY SpliceProperties
<1> HIDE DEF u
<1>2. /\ Len(s) \in Nat
      /\ Len(t) \in Nat
      /\ p \in 0 .. Len(u)
      /\ p + Len(t) <= Len(u)
      /\ Len(u) - Len(t) = Len(s)
      /\ Len(u) - (p + Len(t)) = Len(s) - p
  BY <1>1, LenProperties
<1>3. /\ c \in Seq(S)
      /\ Len(c) = Len(u) - Len(t)
      /\ \A i \in 1 .. p : c[i] = u[i]
      /\ \A i \in 1 .. Len(u) - (p + Len(t)) : c[p + i] = u[p + Len(t) + i]
  BY <1>1, <1>2, CutProperties
<1> HIDE DEF c
<1>4. ASSUME NEW i \in 1 .. Len(s)
      PROVE  c[i] = s[i]
  <2>1. CASE i <= p
    BY <1>1, <1>3, <2>1
  <2>2. CASE i > p
    <3>1. i - p \in 1 .. Len(s) - p /\ p + (i - p) = i
      BY <1>2, <2>2
    <3>2. c[p + (i - p)] = s[p + (i - p)]
      BY <1>1, <1>2, <1>3, <3>1
    <3> QED
      BY <3>1, <3>2
  <2> QED
    BY <1>2, <2>1, <2>2
<1>5. c = s
  BY <1>2, <1>3, <1>4, SeqEqual
<1> QED
  BY <1>5 DEF c, u

\* Putting back what was cut out gives the text before the cut.
LEMMA SpliceCut ==
    ASSUME NEW S, NEW s \in Seq(S), NEW p \in 0 .. Len(s), NEW n \in Nat,
           p + n <= Len(s)
    PROVE  /\ SubSeq(s, p + 1, p + n) \in Seq(S)
           /\ Len(SubSeq(s, p + 1, p + n)) = n
           /\ Splice(Cut(s, p, n), p, SubSeq(s, p + 1, p + n)) = s
<1> DEFINE c == Cut(s, p, n)
           t == SubSeq(s, p + 1, p + n)
           u == Splice(c, p, t)
<1>1. /\ c \in Seq(S)
      /\ Len(c) = Len(s) - n
      /\ \A i \in 1 .. p : c[i] = s[i]
      /\ \A i \in 1 .. Len(s) - (p + n) : c[p + i] = s[p + n + i]
  BY CutProperties
<1>2. /\ t \in Seq(S)
      /\ Len(t) = n
      /\ \A i \in 1 .. n : t[i] = s[p + i]
  <2>1. \A i \in p + 1 .. p + n : s[i] \in S
    BY ElementOfSeq, LenProperties
  <2>2. p + 1 \in Int /\ p + n \in Int /\ p \in Int
    BY LenProperties
  <2>3. /\ t \in Seq(S)
        /\ Len(t) = IF p + 1 <= p + n THEN p + n - (p + 1) + 1 ELSE 0
        /\ \A i \in 1 .. p + n - (p + 1) + 1 : t[i] = s[p + 1 + i - 1]
    BY <2>1, <2>2, SubSeqProperties
  <2>4. /\ p + n - (p + 1) + 1 = n
        /\ \A i \in 1 .. n : p + 1 + i - 1 = p + i
    BY <2>2
  <2> HIDE DEF t
  <2> QED
    BY <2>2, <2>3, <2>4
<1> HIDE DEF c, t
<1>3. Len(s) \in Nat /\ p \in 0 .. Len(c) /\ Len(c) - p = Len(s) - (p + n)
  BY <1>1, LenProperties
<1>4. /\ u \in Seq(S)
      /\ Len(u) = Len(c) + Len(t)
      /\ \A i \in 1 .. p : u[i] = c[i]
      /\ \A i \in 1 .. Len(t) : u[p + i] = t[i]
      /\ \A i \in 1 .. Len(c) - p : u[p + Len(t) + i] = c[p + i]
  <2>1. c \in Seq(S) /\ t \in Seq(S) /\ p \in 0 .. Len(c)
    BY <1>1, <1>2, <1>3
  <2> QED
    BY <2>1, SpliceProperties, Zenon
<1> HIDE DEF u
<1>5. Len(u) = Len(s)
  BY <1>1, <1>2, <1>3, <1>4
<1>6. ASSUME NEW i \in 1 .. Len(s)
      PROVE  u[i] = s[i]
  <2>1. CASE i <= p
    BY <1>1, <1>4, <2>1
  <2>2. CASE i > p /\ i <= p + n
    <3>1. i - p \in 1 .. n /\ p + (i - p) = i
      BY <1>3, <2>2
    <3>2. u[p + (i - p)] = s[p + (i - p)]
      BY <1>2, <1>4, <3>1
    <3> QED
      BY <3>1, <3>2
  <2>3. CASE i > p + n
    <3>1. i - (p + n) \in 1 .. Len(s) - (p + n) /\ p + n + (i - (p + n)) = i
      BY <1>3, <2>3
    <3>2. u[p + n + (i - (p + n))] = s[p + n + (i - (p + n))]
      BY <1>1, <1>2, <1>3, <1>4, <3>1
    <3> QED
      BY <3>1, <3>2
  <2> QED
    BY <1>3, <2>1, <2>2, <2>3
<1>7. u = s
  BY <1>4, <1>5, <1>6, SeqEqual
<1> QED
  BY <1>2, <1>7 DEF c, t, u

\* Expanding the tabs of a text gives a text.
LEMMA ExpandTabsType ==
    ASSUME TextSyncAssumption, NEW t \in Seq(Char)
    PROVE  ExpandTabs(t) \in Seq(Char)
<1> DEFINE tabs == {j \in 1 .. (Len(t) + 1) - 1 : t[j] = Tab}
           last == TabStart(t, Len(t) + 1) - 1
<1>1. Cardinality(tabs) \in Nat
  <2>1. IsFiniteSet(1 .. (Len(t) + 1) - 1)
    BY FS_Interval, LenProperties
  <2> QED
    BY <2>1, FS_Subset, FS_CardinalityType
<1>2. last = Len(t) + (TabWidth - 1) * Cardinality(tabs)
  BY <1>1, LenProperties DEF TabStart, TextSyncAssumption
<1>3. (TabWidth - 1) * Cardinality(tabs) \in Nat
  <2>1. TabWidth - 1 \in Nat
    BY DEF TextSyncAssumption
  <2> HIDE DEF tabs
  <2> QED
    BY <1>1, <2>1
<1>4. last \in Nat
  <2> HIDE DEF tabs, last
  <2> QED
    BY <1>2, <1>3, LenProperties
<1>5. ExpandTabs(t) \in [1 .. last -> Char]
  <2>1. ASSUME NEW k \in 1 .. last
        PROVE  (IF \E i \in 1 .. Len(t) : t[i] # Tab /\ TabStart(t, i) = k
                THEN t[CHOOSE i \in 1 .. Len(t) : t[i] # Tab /\ TabStart(t, i) = k]
                ELSE Space) \in Char
    <3>1. CASE \E i \in 1 .. Len(t) : t[i] # Tab /\ TabStart(t, i) = k
      <4> DEFINE c == CHOOSE i \in 1 .. Len(t) : t[i] # Tab /\ TabStart(t, i) = k
      <4>1. c \in 1 .. Len(t)
        BY <3>1
      <4> HIDE DEF c
      <4>2. t[c] \in Char
        BY <4>1, ElementOfSeq
      <4> QED
        BY <3>1, <4>2 DEF c
    <3>2. CASE ~ \E i \in 1 .. Len(t) : t[i] # Tab /\ TabStart(t, i) = k
      BY <3>2 DEF TextSyncAssumption
    <3> QED
      BY <3>1, <3>2
  <2> QED
    BY <2>1 DEF ExpandTabs
<1> QED
  BY <1>4, <1>5, SeqDef

-----------------------------------------------------------------------------
(* Lemmas about the model's own operators *)

\* The library may insert any of Texts.
LEMMA TextsAreTexts ==
    ASSUME NEW t \in Texts
    PROVE  t \in Seq(Char) /\ t # << >>
BY TextSyncAssumption DEF TextSyncAssumption

\* A position is clipped to the end of the text.
LEMMA SmallerType ==
    ASSUME NEW m \in Nat, NEW n \in Nat
    PROVE  Smaller(m, n) \in 0 .. n /\ Smaller(m, n) <= m
BY DEF Smaller

\* The edit being signalled is an edit, and signalling it leaves edits.
LEMMA PendingType ==
    ASSUME pending \in Seq(Edits), pending # << >>
    PROVE  /\ Innermost \in Edits
           /\ SubSeq(pending, 1, Len(pending) - 1) \in Seq(Edits)
           /\ Len(SubSeq(pending, 1, Len(pending) - 1)) = Len(pending) - 1
<1>1. Len(pending) \in Nat /\ Len(pending) # 0
  BY LenProperties, EmptySeq
<1>2. Len(pending) \in 1 .. Len(pending) /\ Len(pending) - 1 \in 0 .. Len(pending)
  BY <1>1
<1>3. pending[Len(pending)] \in Edits
  BY <1>2, ElementOfSeq
<1>4. Len(pending) - 1 \in Len(pending) - 1 .. Len(pending)
  BY <1>1
<1> QED
  BY <1>2, <1>3, <1>4, Ends DEF Innermost

\* What a range covers of a document is a text.
LEMMA CoveredType ==
    ASSUME doc \in Seq(Char), NEW e \in Edits
    PROVE  /\ CoveredText(e) \in Seq(Char)
           /\ Smaller(e.at, Len(doc)) \in 0 .. Len(doc)
<1> DEFINE p == Smaller(e.at, Len(doc))
           q == Smaller(p + e.len, Len(doc))
<1>1. Len(doc) \in Nat /\ e.at \in Nat /\ e.len \in Nat
  BY LenProperties DEF Edits
<1>2. p \in 0 .. Len(doc)
  BY <1>1, SmallerType
<1>3. q \in 0 .. Len(doc)
  <2>1. p + e.len \in Nat
    BY <1>1, <1>2
  <2> HIDE DEF p
  <2> QED
    BY <1>1, <2>1, SmallerType
<1> HIDE DEF p, q
<1>4. \A i \in p + 1 .. q : doc[i] \in Char
  BY <1>1, <1>2, <1>3, ElementOfSeq
<1>5. p + 1 \in Int /\ q \in Int
  BY <1>2, <1>3
<1>6. SubSeq(doc, p + 1, q) \in Seq(Char)
  BY <1>4, <1>5, SubSeqProperties
<1> QED
  BY <1>2, <1>6 DEF CoveredText, p, q

\* What a range covers fits into the document, and all of it is covered when
\* the range does.
LEMMA CoveredLength ==
    ASSUME doc \in Seq(Char), NEW e \in Edits
    PROVE  /\ Smaller(e.at, Len(doc)) + Len(CoveredText(e)) <= Len(doc)
           /\ e.at + e.len <= Len(doc) =>
                /\ Smaller(e.at, Len(doc)) = e.at
                /\ CoveredText(e) = SubSeq(doc, e.at + 1, e.at + e.len)
<1> DEFINE p == Smaller(e.at, Len(doc))
           q == Smaller(p + e.len, Len(doc))
<1>1. Len(doc) \in Nat /\ e.at \in Nat /\ e.len \in Nat
  BY LenProperties DEF Edits
<1>2. p \in 0 .. Len(doc) /\ (e.at + e.len <= Len(doc) => p = e.at)
  BY <1>1 DEF Smaller
<1>3. q \in p .. Len(doc) /\ (e.at + e.len <= Len(doc) => q = e.at + e.len)
  BY <1>1, <1>2 DEF Smaller
<1> HIDE DEF p, q
<1>4. Len(SubSeq(doc, p + 1, q)) = q - p
  <2>1. \A i \in p + 1 .. q : doc[i] \in Char
    BY <1>1, <1>2, <1>3, ElementOfSeq
  <2>2. p + 1 \in Int /\ q \in Int
    BY <1>1, <1>2, <1>3
  <2>3. Len(SubSeq(doc, p + 1, q)) = IF p + 1 <= q THEN q - (p + 1) + 1 ELSE 0
    BY <2>1, <2>2, SubSeqProperties
  <2> QED
    BY <1>1, <1>2, <1>3, <2>3
<1>5. CoveredText(e) = SubSeq(doc, p + 1, q)
  BY DEF CoveredText, p, q
<1>6. p + Len(CoveredText(e)) <= Len(doc)
  BY <1>1, <1>2, <1>3, <1>4, <1>5
<1>7. e.at + e.len <= Len(doc) =>
        p = e.at /\ CoveredText(e) = SubSeq(doc, e.at + 1, e.at + e.len)
  BY <1>2, <1>3, <1>5
<1> QED
  BY <1>6, <1>7 DEF p

-----------------------------------------------------------------------------
(* Type correctness *)

\* Every state of the synchronisation is well formed.
THEOREM TypeCorrect == Spec => []TypeOK
<1>1. Init => TypeOK
  <2>1. << >> \in Seq(Char) /\ << >> \in Seq(Edits)
    BY EmptySeq
  <2> QED
    BY <2>1 DEF Init, TypeOK
<1>2. TypeOK /\ [Next]_vars => TypeOK'
  <2> SUFFICES ASSUME TypeOK, [Next]_vars
               PROVE  TypeOK'
    OBVIOUS
  <2>1. Len(buffer) \in Nat /\ Len(doc) \in Nat
    BY LenProperties DEF TypeOK
  <2>2. ASSUME NEW p \in 0 .. Len(buffer), NEW t \in Texts, RemoteInsert(p, t)
        PROVE  TypeOK'
    <3>1. buffer' \in Seq(Char)
      BY <2>2, TextsAreTexts, SpliceProperties DEF RemoteInsert, TypeOK
    <3>2. doc' \in Seq(Char)
      <4>1. Smaller(p, Len(doc)) \in 0 .. Len(doc)
        BY <2>1, SmallerType
      <4>2. Splice(doc, Smaller(p, Len(doc)), t) \in Seq(Char)
        BY <4>1, TextsAreTexts, SpliceProperties DEF TypeOK
      <4> QED
        BY <2>2, <4>2 DEF RemoteInsert, onInsertText, TypeOK
    <3> QED
      BY <2>2, <3>1, <3>2 DEF RemoteInsert, onInsertText, checkConsistency,
         Agree, Disagree, control, TypeOK
  <2>3. ASSUME NEW p \in 0 .. Len(buffer), NEW n \in 0 .. Len(buffer),
               RemoteErase(p, n)
        PROVE  TypeOK'
    <3>1. buffer' \in Seq(Char)
      BY <2>3, CutType DEF RemoteErase, TypeOK
    <3>2. doc' \in Seq(Char)
      <4>1. Smaller(p, Len(doc)) \in 0 .. Len(doc) /\ n \in Nat
        BY <2>1, SmallerType
      <4>2. Cut(doc, Smaller(p, Len(doc)), n) \in Seq(Char)
        BY <4>1, CutType DEF TypeOK
      <4> QED
        BY <2>3, <4>2 DEF RemoteErase, onEraseText, TypeOK
    <3> QED
      BY <2>3, <3>1, <3>2 DEF RemoteErase, onEraseText, checkConsistency,
         Agree, Disagree, control, TypeOK
  <2>4. ASSUME NEW p \in 0 .. Len(doc), NEW t \in Texts, EditorInsert(p, t)
        PROVE  TypeOK'
    <3>1. doc' \in Seq(Char)
      BY <2>4, TextsAreTexts, SpliceProperties DEF EditorInsert, TypeOK
    <3>2. [op |-> "insert", at |-> p, len |-> Len(t)] \in Edits
      BY <2>1, TextsAreTexts, LenProperties DEF Edits
    <3>3. pending' \in Seq(Edits)
      BY <2>4, <3>2, AppendProperties DEF EditorInsert, TypeOK
    <3> QED
      BY <2>4, <3>1, <3>3 DEF EditorInsert, flags, control, TypeOK
  <2>5. ASSUME NEW p \in 0 .. Len(doc), NEW n \in 0 .. Len(doc),
               EditorRemove(p, n)
        PROVE  TypeOK'
    <3>1. doc' \in Seq(Char)
      BY <2>5, CutType DEF EditorRemove, TypeOK
    <3>2. [op |-> "remove", at |-> p, len |-> n] \in Edits
      BY <2>1 DEF Edits
    <3>3. pending' \in Seq(Edits)
      BY <2>5, <3>2, AppendProperties DEF EditorRemove, TypeOK
    <3> QED
      BY <2>5, <3>1, <3>3 DEF EditorRemove, flags, control, TypeOK
  <2>6. ASSUME localTextInserted
        PROVE  TypeOK'
    <3> DEFINE e == Innermost
               p == Smaller(e.at, Len(doc))
               text == CoveredText(e)
               new == IF HasTab(text) THEN ExpandTabs(text) ELSE text
    <3>1. e \in Edits /\ pending' \in Seq(Edits)
      BY <2>6, PendingType DEF localTextInserted, PopPending, TypeOK
    <3>2. text \in Seq(Char) /\ p \in 0 .. Len(doc)
      BY <3>1, CoveredType DEF TypeOK
    <3>3. ExpandTabs(text) \in Seq(Char) /\ new \in Seq(Char)
      BY <3>2, TextSyncAssumption, ExpandTabsType
    <3>4. Splice(Cut(doc, p, Len(text)), p, ExpandTabs(text)) \in Seq(Char)
          \/ ~(p + Len(text) <= Len(doc))
      <4>1. Len(text) \in Nat
        BY <3>2, LenProperties
      <4>2. SUFFICES ASSUME p + Len(text) <= Len(doc)
                     PROVE  Splice(Cut(doc, p, Len(text)), p, ExpandTabs(text))
                                \in Seq(Char)
        OBVIOUS
      <4>3. /\ Cut(doc, p, Len(text)) \in Seq(Char)
            /\ Len(Cut(doc, p, Len(text))) = Len(doc) - Len(text)
        BY <3>2, <4>1, <4>2, CutProperties DEF TypeOK
      <4>4. p \in 0 .. Len(Cut(doc, p, Len(text)))
        BY <2>1, <3>2, <4>1, <4>2, <4>3
      <4> QED
        BY <3>3, <4>3, <4>4, SpliceProperties
    <3>5. p + Len(text) <= Len(doc)
      BY <2>1, <3>1, CoveredLength DEF TypeOK
    <3>6. p <= Len(buffer) => Splice(buffer, p, new) \in Seq(Char)
      <4> HIDE DEF p, new
      <4> SUFFICES ASSUME p <= Len(buffer)
                   PROVE  Splice(buffer, p, new) \in Seq(Char)
        OBVIOUS
      <4>1. p \in 0 .. Len(buffer)
        BY <2>1, <3>2
      <4> QED
        BY <3>3, <4>1, SpliceProperties DEF TypeOK
    <3> HIDE DEF e, p, text, new
    <3>7. /\ UNCHANGED <<blockRemoteRemove, control>>
          /\ \/ /\ UNCHANGED <<doc, buffer, blockRemoteInsert>>
                /\ Agree
             \/ /\ doc' = IF HasTab(text)
                          THEN Splice(Cut(doc, p, Len(text)), p, ExpandTabs(text))
                          ELSE doc
                /\ bufferInsert(p, new)
                /\ checkConsistency(FALSE)
      BY <2>6 DEF localTextInserted, e, p, text, new
    <3>8. doc' \in Seq(Char)
      BY <3>4, <3>5, <3>7 DEF TypeOK
    <3>9. buffer' \in Seq(Char) /\ blockRemoteInsert' \in BOOLEAN
      BY <2>1, <3>2, <3>6, <3>7 DEF bufferInsert, FlagAfterRefusal, TypeOK
    <3> QED
      BY <3>1, <3>7, <3>8, <3>9 DEF checkConsistency, Agree, Disagree, control,
         TypeOK
  <2>7. ASSUME localTextRemoved
        PROVE  TypeOK'
    <3> DEFINE p == Smaller(Innermost.at, Len(doc))
               n == Innermost.len
    <3>1. Innermost \in Edits /\ pending' \in Seq(Edits)
      BY <2>7, PendingType DEF localTextRemoved, PopPending, TypeOK
    <3>2. p \in 0 .. Len(doc) /\ n \in Nat
      BY <2>1, <3>1, SmallerType DEF Edits
    <3>3. p + n <= Len(buffer) => Cut(buffer, p, n) \in Seq(Char)
      <4> HIDE DEF p, n
      <4> SUFFICES ASSUME p + n <= Len(buffer)
                   PROVE  Cut(buffer, p, n) \in Seq(Char)
        OBVIOUS
      <4>1. p \in 0 .. Len(buffer)
        BY <2>1, <3>2
      <4> QED
        BY <3>2, <4>1, CutType DEF TypeOK
    <3> HIDE DEF p, n
    <3>4. /\ UNCHANGED <<doc, blockRemoteInsert, control>>
          /\ \/ /\ UNCHANGED <<buffer, blockRemoteRemove>>
                /\ Agree
             \/ /\ bufferErase(p, n)
                /\ checkConsistency(FALSE)
      BY <2>7 DEF localTextRemoved, p, n
    <3>5. buffer' \in Seq(Char) /\ blockRemoteRemove' \in BOOLEAN
      BY <3>3, <3>4 DEF bufferErase, FlagAfterRefusal, TypeOK
    <3> QED
      BY <3>1, <3>4, <3>5 DEF checkConsistency, Agree, Disagree, control, TypeOK
  <2>8. CASE slotJoinFinished
    BY <2>8 DEF slotJoinFinished, flags, TypeOK
  <2>9. CASE SessionClosed
    BY <2>9 DEF SessionClosed, flags, TypeOK
  <2>10. CASE shutdown
    BY <2>10 DEF shutdown, flags, control, TypeOK
  <2>11. CASE UNCHANGED vars
    BY <2>11 DEF vars, TypeOK
  <2> QED
    BY <2>2, <2>3, <2>4, <2>5, <2>6, <2>7, <2>8, <2>9, <2>10, <2>11
       DEF Next, Remote, Editor, Slots
<1> QED
  BY <1>1, <1>2, PTL DEF Spec

-----------------------------------------------------------------------------
(* Consistency under in-order signals *)

\* A text spliced at a position that an equal text has stays equal.
LEMMA InBounds ==
    ASSUME NEW m \in Nat, NEW n \in Nat, m <= n
    PROVE  Smaller(m, n) = m
BY DEF Smaller

\* InOrderInv holds initially.
LEMMA InOrderInit == Init => InOrderInv
<1> SUFFICES ASSUME Init PROVE InOrderInv
  OBVIOUS
<1>1. TypeOK
  <2>1. << >> \in Seq(Char) /\ << >> \in Seq(Edits)
    BY EmptySeq
  <2> QED
    BY <2>1 DEF Init, TypeOK
<1>2. Len(pending) = 0
  BY EmptySeq DEF Init
<1> QED
  BY <1>1, <1>2 DEF Init, InOrderInv, NeverThrownOut, EditorMatchesBuffer,
     PendingExplains

\* Every step preserves InOrderInv.
LEMMA InOrderStep ==
    ASSUME InOrderSignals, InOrderInv, TypeOK', [Next]_vars
    PROVE  InOrderInv'
<1> USE DEF NeverThrownOut, Attached
<1>1. /\ TypeOK
      /\ Len(buffer) \in Nat /\ Len(doc) \in Nat /\ Len(pending) \in Nat
      /\ pending = << >> <=> Len(pending) = 0
  BY LenProperties, EmptySeq DEF InOrderInv, TypeOK
<1>2. ASSUME NEW p \in 0 .. Len(buffer), NEW t \in Texts, RemoteInsert(p, t)
      PROVE  InOrderInv'
  <2>1. /\ pending = << >> /\ pending' = pending
        /\ UNCHANGED <<hasUser, session, blockRemoteRemove>>
        /\ session = "open"
    BY <1>2 DEF RemoteInsert, control
  <2>2. CASE aboutToClose
    BY <1>2, <2>1, <2>2 DEF RemoteInsert, onInsertText, Agree, InOrderInv,
       EditorMatchesBuffer, PendingExplains
  <2>3. CASE ~aboutToClose
    <3>1. doc = buffer
      BY <2>1, <2>3 DEF InOrderInv, EditorMatchesBuffer
    <3>2. Smaller(p, Len(doc)) = p
      BY <1>1, <3>1, InBounds
    <3>3. doc' = buffer' /\ Agree /\ UNCHANGED blockRemoteInsert
      BY <1>2, <2>3, <3>1, <3>2 DEF RemoteInsert, onInsertText,
         checkConsistency, InOrderInv
    <3> QED
      BY <1>1, <2>1, <3>3 DEF Agree, InOrderInv, EditorMatchesBuffer,
         PendingExplains
  <2> QED
    BY <2>2, <2>3
<1>3. ASSUME NEW p \in 0 .. Len(buffer), NEW n \in 0 .. Len(buffer),
             RemoteErase(p, n)
      PROVE  InOrderInv'
  <2>1. /\ pending = << >> /\ pending' = pending
        /\ UNCHANGED <<hasUser, session, blockRemoteInsert>>
        /\ session = "open"
    BY <1>3 DEF RemoteErase, control
  <2>2. CASE aboutToClose
    BY <1>3, <2>1, <2>2 DEF RemoteErase, onEraseText, Agree, InOrderInv,
       EditorMatchesBuffer, PendingExplains
  <2>3. CASE ~aboutToClose
    <3>1. doc = buffer
      BY <2>1, <2>3 DEF InOrderInv, EditorMatchesBuffer
    <3>2. Smaller(p, Len(doc)) = p
      BY <1>1, <3>1, InBounds
    <3>3. doc' = buffer' /\ Agree /\ UNCHANGED blockRemoteRemove
      BY <1>3, <2>3, <3>1, <3>2 DEF RemoteErase, onEraseText,
         checkConsistency, InOrderInv
    <3> QED
      BY <1>1, <2>1, <3>3 DEF Agree, InOrderInv, EditorMatchesBuffer,
         PendingExplains
  <2> QED
    BY <2>2, <2>3
<1>4. ASSUME NEW p \in 0 .. Len(doc), NEW t \in Texts, EditorInsert(p, t)
      PROVE  InOrderInv'
  <2> DEFINE e == [op |-> "insert", at |-> p, len |-> Len(t)]
  <2>1. pending = << >> /\ readWrite
    BY <1>1, <1>4 DEF EditorInsert, MayEdit, InOrderSignals
  <2>2. /\ pending' = Append(pending, e)
        /\ doc' = Splice(doc, p, t)
        /\ UNCHANGED <<buffer, blockRemoteInsert, blockRemoteRemove, hasUser,
                       session, aboutToClose, readWrite, docUrl>>
    BY <1>4 DEF EditorInsert, flags, control
  <2>3. Len(pending') = 1 /\ pending' # << >> /\ Innermost' = e
    <3>1. e \in Edits
      BY <1>1, TextsAreTexts, LenProperties DEF Edits
    <3>2. Len(pending') = Len(pending) + 1 /\ pending'[Len(pending) + 1] = e
      BY <1>1, <2>2, <3>1, AppendProperties DEF TypeOK
    <3> HIDE DEF e
    <3>3. Len(pending') = 1 /\ pending'[1] = e
      BY <1>1, <2>1, <3>2
    <3>4. pending' # << >>
      BY ONLY TypeOK', <3>3, OneIsNotEmpty DEF TypeOK
    <3>5. Innermost' = pending'[Len(pending')]
      BY DEF Innermost
    <3> QED
      BY <3>3, <3>4, <3>5
  <2>4. ASSUME Attached
        PROVE  /\ e.len > 0
               /\ e.at + e.len <= Len(doc')
               /\ buffer = Cut(doc', e.at, e.len)
    <3>1. doc = buffer
      BY <2>1, <2>4 DEF InOrderInv, EditorMatchesBuffer
    <3>2. t \in Seq(Char) /\ t # << >>
      BY TextsAreTexts
    <3>3. Len(t) \in Nat /\ Len(t) > 0
      BY <3>2, LenProperties, EmptySeq
    <3>4. Cut(Splice(doc, p, t), p, Len(t)) = doc
      BY <1>1, <3>2, CutSplice DEF TypeOK
    <3>5. Len(Splice(doc, p, t)) = Len(doc) + Len(t)
      BY <1>1, <3>2, SpliceProperties DEF TypeOK
    <3>6. p + Len(t) <= Len(doc')
      BY <1>1, <2>2, <3>3, <3>5
    <3> QED
      BY <2>2, <3>1, <3>3, <3>4, <3>6
  <2>5. e.op = "insert"
    OBVIOUS
  <2> HIDE DEF e
  <2>6. PendingExplains'
    BY <2>2, <2>3, <2>4, <2>5 DEF PendingExplains
  <2> QED
    BY <2>1, <2>2, <2>3, <2>6 DEF InOrderInv, EditorMatchesBuffer
<1>5. ASSUME NEW p \in 0 .. Len(doc), NEW n \in 0 .. Len(doc),
             EditorRemove(p, n)
      PROVE  InOrderInv'
  <2> DEFINE e == [op |-> "remove", at |-> p, len |-> n]
  <2>1. pending = << >> /\ readWrite /\ n >= MinRemoval /\ p + n <= Len(doc)
    BY <1>1, <1>5 DEF EditorRemove, MayEdit, InOrderSignals
  <2>2. /\ pending' = Append(pending, e)
        /\ doc' = Cut(doc, p, n)
        /\ UNCHANGED <<buffer, blockRemoteInsert, blockRemoteRemove, hasUser,
                       session, aboutToClose, readWrite, docUrl>>
    BY <1>5 DEF EditorRemove, flags, control
  <2>3. Len(pending') = 1 /\ pending' # << >> /\ Innermost' = e
    <3>1. e \in Edits
      BY <1>1 DEF Edits
    <3>2. Len(pending') = Len(pending) + 1 /\ pending'[Len(pending) + 1] = e
      BY <1>1, <2>2, <3>1, AppendProperties DEF TypeOK
    <3> HIDE DEF e
    <3>3. Len(pending') = 1 /\ pending'[1] = e
      BY <1>1, <2>1, <3>2
    <3>4. pending' # << >>
      BY ONLY TypeOK', <3>3, OneIsNotEmpty DEF TypeOK
    <3>5. Innermost' = pending'[Len(pending')]
      BY DEF Innermost
    <3> QED
      BY <3>3, <3>4, <3>5
  <2>4. ASSUME Attached
        PROVE  /\ e.len > 0
               /\ e.at + e.len <= Len(buffer)
               /\ doc' = Cut(buffer, e.at, e.len)
    <3>1. doc = buffer
      BY <2>1, <2>4 DEF InOrderInv, EditorMatchesBuffer
    <3>2. n > 0
      BY <2>1, TextSyncAssumption DEF InOrderSignals, TextSyncAssumption
    <3> QED
      BY <2>1, <2>2, <3>1, <3>2
  <2>5. e.op = "remove"
    OBVIOUS
  <2> HIDE DEF e
  <2>6. PendingExplains'
    BY <2>2, <2>3, <2>4, <2>5 DEF PendingExplains
  <2> QED
    BY <2>1, <2>2, <2>3, <2>6 DEF InOrderInv, EditorMatchesBuffer
<1>6. ASSUME localTextInserted
      PROVE  InOrderInv'
  <2> DEFINE e == Innermost
             p == Smaller(e.at, Len(doc))
             text == CoveredText(e)
             new == IF HasTab(text) THEN ExpandTabs(text) ELSE text
  <2>1. pending # << >> /\ e.op = "insert"
    BY <1>6 DEF localTextInserted
  <2>2. e \in Edits /\ e.at \in Nat /\ e.len \in Nat
    BY <1>1, <2>1, PendingType DEF TypeOK, Edits
  <2>3. pending' = << >>
    <3>1. /\ pending' \in Seq(Edits)
          /\ Len(pending') = Len(pending) - 1
      BY <1>1, <1>6, <2>1, PendingType DEF localTextInserted, PopPending, TypeOK
    <3>2. Len(pending') = 0
      BY <1>1, <2>1, <3>1 DEF InOrderInv
    <3> QED
      BY <3>1, <3>2, EmptySeq
  <2>4. /\ UNCHANGED <<blockRemoteRemove, hasUser, session>>
        /\ \/ /\ Deaf \/ text = << >>
              /\ UNCHANGED <<doc, buffer, blockRemoteInsert>>
              /\ Agree
           \/ /\ ~Deaf
              /\ doc' = IF HasTab(text)
                        THEN Splice(Cut(doc, p, Len(text)), p, ExpandTabs(text))
                        ELSE doc
              /\ bufferInsert(p, new)
              /\ checkConsistency(FALSE)
    BY <1>6 DEF localTextInserted, control
  <2>5. CASE Deaf
    <3>1. ~Attached
      BY <2>1, <2>5 DEF Deaf, InOrderInv
    <3> HIDE DEF e, p, text, new
    <3>2. UNCHANGED <<doc, buffer, blockRemoteInsert, aboutToClose, readWrite,
                      docUrl>>
      BY <2>4, <2>5 DEF Agree
    <3> QED
      BY <1>1, <2>1, <2>3, <2>4, <3>1, <3>2, EmptySeq DEF InOrderInv,
         EditorMatchesBuffer, PendingExplains
  <2>6. CASE ~Deaf
    <3>1. /\ e.len > 0
          /\ e.at + e.len <= Len(doc)
          /\ buffer = Cut(doc, e.at, e.len)
      BY <2>1, <2>6 DEF Deaf, InOrderInv, PendingExplains
    <3>2. p = e.at /\ text = SubSeq(doc, e.at + 1, e.at + e.len)
      BY <1>1, <2>2, <3>1, CoveredLength DEF TypeOK
    <3>3. e.at \in 0 .. Len(doc)
      BY <1>1, <2>2, <3>1
    <3>4. /\ text \in Seq(Char)
          /\ Len(text) = e.len
          /\ Splice(Cut(doc, e.at, e.len), e.at, text) = doc
      BY <1>1, <2>2, <3>1, <3>2, <3>3, SpliceCut DEF TypeOK
    <3>5. text # << >>
      BY <2>2, <3>1, <3>4, EmptySeq
    <3>6. p <= Len(buffer)
      <4> HIDE DEF e, p
      <4>1. doc \in Seq(Char) /\ e.len \in Nat
        BY <1>1, <2>2 DEF TypeOK
      <4>2. Len(Cut(doc, e.at, e.len)) = Len(doc) - e.len
        BY ONLY <3>1, <3>3, <4>1, CutProperties
      <4>3. e.at <= Len(doc) - e.len
        BY ONLY <2>2, <3>1, <4>1, LenProperties
      <4> QED
        BY <3>1, <3>2, <4>2, <4>3
    <3> HIDE DEF e, p, text, new
    <3>7. /\ doc' = IF HasTab(text)
                    THEN Splice(Cut(doc, p, Len(text)), p, ExpandTabs(text))
                    ELSE doc
          /\ bufferInsert(p, new)
          /\ checkConsistency(FALSE)
      BY <2>4, <2>6, <3>5
    <3>8. p \in Nat
      BY <2>2, <3>2
    <3>9. buffer' = Splice(buffer, p, new) /\ blockRemoteInsert' = FALSE
      BY <1>1, <3>6, <3>7, <3>8 DEF bufferInsert
    <3>10. buffer' = doc'
      BY <3>1, <3>2, <3>4, <3>7, <3>9 DEF new
    <3>11. UNCHANGED <<aboutToClose, readWrite, docUrl>>
      BY <3>7, <3>10 DEF checkConsistency, Agree
    <3> QED
      BY <1>1, <2>1, <2>3, <2>4, <3>9, <3>10, <3>11, EmptySeq DEF InOrderInv,
         EditorMatchesBuffer, PendingExplains
  <2> QED
    BY <2>5, <2>6
<1>7. ASSUME localTextRemoved
      PROVE  InOrderInv'
  <2> DEFINE e == Innermost
             p == Smaller(e.at, Len(doc))
  <2>1. pending # << >> /\ e.op = "remove"
    BY <1>7 DEF localTextRemoved
  <2>2. e \in Edits /\ e.at \in Nat /\ e.len \in Nat
    BY <1>1, <2>1, PendingType DEF TypeOK, Edits
  <2>3. pending' = << >>
    <3>1. /\ pending' \in Seq(Edits)
          /\ Len(pending') = Len(pending) - 1
      BY <1>1, <1>7, <2>1, PendingType DEF localTextRemoved, PopPending, TypeOK
    <3>2. Len(pending') = 0
      BY <1>1, <2>1, <3>1 DEF InOrderInv
    <3> QED
      BY <3>1, <3>2, EmptySeq
  <2>4. /\ UNCHANGED <<doc, blockRemoteInsert, hasUser, session>>
        /\ \/ /\ Deaf
              /\ UNCHANGED <<buffer, blockRemoteRemove>>
              /\ Agree
           \/ /\ ~Deaf
              /\ bufferErase(p, e.len)
              /\ checkConsistency(FALSE)
    BY <1>7 DEF localTextRemoved, control
  <2>5. CASE Deaf
    <3>1. ~Attached
      BY <2>1, <2>5 DEF Deaf, InOrderInv
    <3> HIDE DEF e, p
    <3>2. UNCHANGED <<doc, buffer, blockRemoteRemove, aboutToClose, readWrite,
                      docUrl>>
      BY <2>4, <2>5 DEF Agree
    <3> QED
      BY <1>1, <2>1, <2>3, <2>4, <3>1, <3>2, EmptySeq DEF InOrderInv,
         EditorMatchesBuffer, PendingExplains
  <2>6. CASE ~Deaf
    <3>1. /\ e.len > 0
          /\ e.at + e.len <= Len(buffer)
          /\ doc = Cut(buffer, e.at, e.len)
      BY <2>1, <2>6 DEF Deaf, InOrderInv, PendingExplains
    <3>2. p = e.at
      <4>1. e.at \in 0 .. Len(buffer)
        BY <1>1, <2>2, <3>1
      <4>2. Len(doc) = Len(buffer) - e.len
        BY <1>1, <2>2, <3>1, <4>1, CutProperties DEF TypeOK
      <4> QED
        BY <1>1, <2>2, <3>1, <4>2, InBounds
    <3> HIDE DEF e, p
    <3>3. bufferErase(p, e.len) /\ checkConsistency(FALSE)
      BY <2>4, <2>6
    <3>4. buffer' = Cut(buffer, p, e.len) /\ blockRemoteRemove' = FALSE
      BY <1>1, <2>2, <3>1, <3>2, <3>3 DEF bufferErase
    <3>5. buffer' = doc'
      BY <2>4, <3>1, <3>2, <3>4
    <3>6. UNCHANGED <<aboutToClose, readWrite, docUrl>>
      BY <3>3, <3>5 DEF checkConsistency, Agree
    <3> QED
      BY <1>1, <2>1, <2>3, <2>4, <3>4, <3>5, <3>6, EmptySeq DEF InOrderInv,
         EditorMatchesBuffer, PendingExplains
  <2> QED
    BY <2>5, <2>6
<1>8. CASE slotJoinFinished
  BY <1>1, <1>8 DEF slotJoinFinished, flags, InOrderInv, EditorMatchesBuffer,
     PendingExplains
<1>9. CASE SessionClosed
  BY <1>1, <1>9 DEF SessionClosed, flags, InOrderInv, EditorMatchesBuffer,
     PendingExplains
<1>10. CASE shutdown
  BY <1>1, <1>10 DEF shutdown, flags, control, InOrderInv, EditorMatchesBuffer,
     PendingExplains
<1>11. CASE UNCHANGED vars
  BY <1>1, <1>11 DEF vars, Innermost, InOrderInv, EditorMatchesBuffer,
     PendingExplains
<1> QED
  BY <1>2, <1>3, <1>4, <1>5, <1>6, <1>7, <1>8, <1>9, <1>10, <1>11
     DEF Next, Remote, Editor, Slots

\* InOrderInv is an invariant when signals arrive in order: at rest the texts
\* agree, no echo flag is armed and nothing was thrown out; during a signal the
\* edit accounts for the difference of the texts.
THEOREM InOrderInvariance ==
    ASSUME InOrderSignals
    PROVE  Spec => []InOrderInv
<1>1. Init => InOrderInv
  BY InOrderInit
<1>2. InOrderInv /\ TypeOK' /\ [Next]_vars => InOrderInv'
  BY InOrderStep
<1> QED
  BY <1>1, <1>2, TypeCorrect, PTL DEF Spec

\* With in-order signals an attached editor at rest shows the text of the
\* session buffer.
THEOREM Consistency ==
    ASSUME InOrderSignals
    PROVE  Spec => []EditorMatchesBuffer
<1>1. InOrderInv => EditorMatchesBuffer
  BY DEF InOrderInv
<1> QED
  BY <1>1, InOrderInvariance, PTL

\* With in-order signals the consistency check never fails: no document is
\* thrown out of its session by the synchronisation.
THEOREM NoSelfInflictedDisconnect ==
    ASSUME InOrderSignals
    PROVE  Spec => []NeverThrownOut
<1>1. InOrderInv => NeverThrownOut
  BY DEF InOrderInv
<1> QED
  BY <1>1, InOrderInvariance, PTL

\* With in-order signals no echo flag survives the slot that armed it, so no
\* operation of another participant is swallowed.
THEOREM NothingSwallowed ==
    ASSUME InOrderSignals
    PROVE  Spec => []NoArmedFlagAtRest
<1>1. InOrderInv => NoArmedFlagAtRest
  BY DEF InOrderInv, NoArmedFlagAtRest
<1> QED
  BY <1>1, InOrderInvariance, PTL

-----------------------------------------------------------------------------
(* The promise of SharedText, with signals in any order *)

\* Nobody edits without being a user of the session; and the texts differ only
\* while the innermost edit has its signal still to come, whose slot will then
\* compare them: the text an insertion covers is not empty.  Once a slot has
\* compared, the texts are equal or the buffer is closed, whatever the edits
\* further out still have to report.
ReportedInv ==
    /\ (readWrite \/ pending # << >>) /\ session = "open" => hasUser
    /\ Attached /\ doc # buffer =>
          /\ pending # << >>
          /\ Innermost.op = "insert" =>
                Innermost.len > 0 /\ Innermost.at + Innermost.len <= Len(doc)

\* As long as no flag stays up at rest, every step keeps it.
LEMMA ReportedStep ==
    ASSUME TypeOK, NoArmedFlagAtRest, ReportedInv, [Next]_vars
    PROVE  ReportedInv'
<1> USE DEF Attached, ReportedInv
<1>1. /\ Len(buffer) \in Nat /\ Len(doc) \in Nat /\ Len(pending) \in Nat
      /\ pending = << >> <=> Len(pending) = 0
  BY LenProperties, EmptySeq DEF TypeOK
<1>2. ASSUME NEW p \in 0 .. Len(buffer), NEW t \in Texts, RemoteInsert(p, t)
      PROVE  ReportedInv'
  <2>1. /\ pending = << >> /\ pending' = pending
        /\ UNCHANGED <<hasUser, session>> /\ session = "open"
        /\ buffer' = Splice(buffer, p, t) /\ onInsertText(p, t)
    BY <1>2 DEF RemoteInsert, control
  <2>2. CASE aboutToClose
    BY <2>1, <2>2 DEF onInsertText, Agree
  <2>3. CASE ~aboutToClose
    <3>1. doc = buffer /\ ~blockRemoteInsert
      BY <2>1, <2>3 DEF NoArmedFlagAtRest
    <3>2. Smaller(p, Len(doc)) = p
      BY <1>1, <3>1, InBounds
    <3>3. doc' = buffer' /\ Agree
      BY <2>1, <2>3, <3>1, <3>2 DEF onInsertText, checkConsistency
    <3> QED
      BY <2>1, <3>3 DEF Agree
  <2> QED
    BY <2>2, <2>3
<1>3. ASSUME NEW p \in 0 .. Len(buffer), NEW n \in 0 .. Len(buffer), RemoteErase(p, n)
      PROVE  ReportedInv'
  <2>1. /\ pending = << >> /\ pending' = pending
        /\ UNCHANGED <<hasUser, session>> /\ session = "open"
        /\ buffer' = Cut(buffer, p, n) /\ onEraseText(p, n)
    BY <1>3 DEF RemoteErase, control
  <2>2. CASE aboutToClose
    BY <2>1, <2>2 DEF onEraseText, Agree
  <2>3. CASE ~aboutToClose
    <3>1. doc = buffer /\ ~blockRemoteRemove
      BY <2>1, <2>3 DEF NoArmedFlagAtRest
    <3>2. Smaller(p, Len(doc)) = p
      BY <1>1, <3>1, InBounds
    <3>3. doc' = buffer' /\ Agree
      BY <2>1, <2>3, <3>1, <3>2 DEF onEraseText, checkConsistency
    <3> QED
      BY <2>1, <3>3 DEF Agree
  <2> QED
    BY <2>2, <2>3
<1>4. ASSUME NEW e \in Edits, pending' = Append(pending, e), MayEdit,
             UNCHANGED <<buffer, control, aboutToClose, readWrite, docUrl>>,
             e.op = "insert" => e.len > 0 /\ e.at + e.len <= Len(doc')
      PROVE  ReportedInv'
  <2>1. /\ pending' \in Seq(Edits) /\ Len(pending') = Len(pending) + 1
        /\ pending'[Len(pending) + 1] = e
    BY <1>4, AppendProperties DEF TypeOK
  <2>2. pending' # << >>
    BY <1>1, <2>1, EmptySeq
  <2>3. Innermost' = e
    BY <2>1 DEF Innermost
  <2>4. readWrite /\ UNCHANGED <<session, hasUser>>
    BY <1>4 DEF MayEdit, control
  <2> QED
    BY <1>4, <2>2, <2>3, <2>4
<1>5. ASSUME NEW p \in 0 .. Len(doc), NEW t \in Texts, EditorInsert(p, t)
      PROVE  ReportedInv'
  <2> DEFINE e == [op |-> "insert", at |-> p, len |-> Len(t)]
  <2>1. t \in Seq(Char) /\ Len(t) \in Nat /\ Len(t) > 0
    BY TextsAreTexts, LenProperties, EmptySeq
  <2>2. e \in Edits
    BY <1>1, <2>1 DEF Edits
  <2>3. e.len > 0 /\ e.at + e.len <= Len(doc')
    <3>1. doc' = Splice(doc, p, t)
      BY <1>5 DEF EditorInsert
    <3>2. Len(doc') = Len(doc) + Len(t)
      BY <2>1, <3>1, SpliceProperties DEF TypeOK
    <3> QED
      BY <1>1, <2>1, <3>2
  <2>4. /\ pending' = Append(pending, e) /\ MayEdit
        /\ UNCHANGED <<buffer, control, aboutToClose, readWrite, docUrl>>
    BY <1>5 DEF EditorInsert
  <2> HIDE DEF e
  <2> QED
    BY <1>4, <2>2, <2>3, <2>4
<1>6. ASSUME NEW p \in 0 .. Len(doc), NEW n \in 0 .. Len(doc), EditorRemove(p, n)
      PROVE  ReportedInv'
  <2> DEFINE e == [op |-> "remove", at |-> p, len |-> n]
  <2>1. e \in Edits /\ e.op # "insert"
    BY <1>1 DEF Edits
  <2>2. /\ pending' = Append(pending, e) /\ MayEdit
        /\ UNCHANGED <<buffer, control, aboutToClose, readWrite, docUrl>>
    BY <1>6 DEF EditorRemove
  <2> HIDE DEF e
  <2> QED
    BY <1>4, <2>1, <2>2
<1>7. ASSUME pending # << >>, UNCHANGED control,
             \/ /\ Deaf
                /\ UNCHANGED <<doc, buffer>> /\ Agree
             \/ /\ doc = buffer
                /\ UNCHANGED <<doc, buffer>> /\ Agree
             \/ checkConsistency(FALSE)
      PROVE  ReportedInv'
  <2>1. UNCHANGED <<hasUser, session>>
    BY <1>7 DEF control
  <2>2. session = "open" => hasUser
    BY <1>7
  <2>3. Attached' /\ doc' # buffer' => FALSE
    <3>1. CASE Deaf /\ Agree
      BY <2>1, <2>2, <3>1 DEF Deaf, Agree
    <3>2. CASE doc = buffer /\ UNCHANGED <<doc, buffer>>
      BY <3>2
    <3>3. CASE checkConsistency(FALSE)
      BY <3>3 DEF checkConsistency, Disagree
    <3> QED
      BY <1>7, <3>1, <3>2, <3>3
  <2> QED
    BY <2>1, <2>2, <2>3
<1>8. ASSUME localTextInserted
      PROVE  ReportedInv'
  <2> DEFINE text == CoveredText(Innermost)
  <2>1. pending # << >> /\ Innermost.op = "insert" /\ UNCHANGED control
    BY <1>8 DEF localTextInserted
  <2>2. \/ /\ Deaf
           /\ UNCHANGED <<doc, buffer>> /\ Agree
        \/ /\ text = << >>
           /\ UNCHANGED <<doc, buffer>> /\ Agree
        \/ checkConsistency(FALSE)
    BY <1>8 DEF localTextInserted
  <2>3. ~Deaf /\ text = << >> => doc = buffer
    <3> SUFFICES ASSUME ~Deaf, doc # buffer PROVE text # << >>
      OBVIOUS
    <3>1. Innermost.len > 0 /\ Innermost.at + Innermost.len <= Len(doc)
      BY <2>1 DEF Deaf
    <3>2. Innermost \in Edits /\ Innermost.at \in Nat /\ Innermost.len \in Nat
      BY <2>1, PendingType DEF TypeOK, Edits
    <3>3. text = SubSeq(doc, Innermost.at + 1, Innermost.at + Innermost.len)
      BY <3>1, <3>2, CoveredLength DEF TypeOK
    <3>4. Innermost.at \in 0 .. Len(doc)
      BY <1>1, <3>1, <3>2
    <3>5. Len(text) = Innermost.len
      BY <3>1, <3>2, <3>3, <3>4, SpliceCut DEF TypeOK
    <3> QED
      BY <3>1, <3>2, <3>5, EmptySeq
  <2> QED
    BY <1>7, <2>1, <2>2, <2>3
<1>9. ASSUME localTextRemoved
      PROVE  ReportedInv'
  BY <1>7, <1>9 DEF localTextRemoved
<1>10. CASE slotJoinFinished
  BY <1>10 DEF slotJoinFinished
<1>11. CASE SessionClosed
  BY <1>11 DEF SessionClosed
<1>12. CASE shutdown
  BY <1>12 DEF shutdown, control
<1>13. CASE UNCHANGED vars
  BY <1>13 DEF vars, Innermost
<1> QED
  BY <1>2, <1>3, <1>5, <1>6, <1>8, <1>9, <1>10, <1>11, <1>12, <1>13
     DEF Next, Remote, Editor, Slots

\* Every step is one of SharedText, seen through the mapping: attached, the texts
\* change together; the editor that is cut off is so for good, and then its edits
\* and those of the session go apart.
LEMMA SharedStep ==
    ASSUME TypeOK, TypeOK', ReportedInv, ReportedInv', [Next]_vars
    PROVE  [Abstract!SharedNext]_(Abstract!sharedVars)
<1>1. buffer' \in Seq(Char) /\ doc' \in Seq(Char) /\ Attached' \in BOOLEAN
  BY DEF TypeOK, Attached
<1>2. CASE Attached /\ Attached'
  <2>1. pending' = << >> => doc' = buffer'
    BY <1>2 DEF ReportedInv
  <2> QED
    BY <1>1, <1>2, <2>1 DEF Abstract!SharedNext, Abstract!EditTogether
<1>3. CASE Attached /\ ~Attached'
  BY <1>1, <1>3 DEF Abstract!SharedNext, Abstract!Detach
<1>4. CASE ~Attached
  <2>1. Deaf
    BY <1>4 DEF Attached, Deaf
  <2>2. ~Attached' /\ (doc' # doc => buffer' = buffer)
    <3> USE <1>4, <2>1 DEF Attached, control, Agree
    <3>1. CASE Remote
      BY <3>1 DEF Remote, RemoteInsert, RemoteErase, onInsertText, onEraseText
    <3>2. CASE Editor
      <4>1. UNCHANGED <<buffer, hasUser, session, aboutToClose>>
        BY <3>2 DEF Editor, EditorInsert, EditorRemove
      <4> QED
        BY <4>1
    <3>3. CASE Slots
      BY <3>3 DEF Slots, localTextInserted, localTextRemoved
    <3>4. CASE slotJoinFinished \/ SessionClosed \/ shutdown
      BY <3>4 DEF slotJoinFinished, SessionClosed, shutdown
    <3>5. CASE UNCHANGED vars
      BY <3>5 DEF vars
    <3> QED
      BY <3>1, <3>2, <3>3, <3>4, <3>5 DEF Next
  <2> QED
    <3>1. Abstract!EditApart
      <4>1. Attached' = Attached
        BY <1>4, <2>2 DEF Attached
      <4>2. (IF Attached /\ pending # << >> THEN buffer ELSE doc) = doc
        BY <1>4
      <4>3. (IF Attached /\ pending # << >> THEN buffer ELSE doc)' = doc'
        BY <2>2
      <4> QED
        BY <1>1, <1>4, <2>2, <4>1, <4>2, <4>3 DEF Abstract!EditApart
    <3> QED
      BY <3>1 DEF Abstract!SharedNext
<1> QED
  BY <1>2, <1>3, <1>4

\* The flags are all that the promise depends on: while none stays up at rest,
\* the order of the signals does not matter.
LEMMA FlagsDecide == Spec /\ []NoArmedFlagAtRest => ImplementsSharedText
<1>1. Init => ReportedInv
  BY DEF Init, ReportedInv, Attached
<1>2. TypeOK /\ NoArmedFlagAtRest /\ ReportedInv /\ [Next]_vars => ReportedInv'
  BY ReportedStep
<1>3. Init => Abstract!SharedInit
  BY DEF Init, Abstract!SharedInit, Attached
<1>4. TypeOK /\ TypeOK' /\ ReportedInv /\ ReportedInv' /\ [Next]_vars
        => [Abstract!SharedNext]_(Abstract!sharedVars)
  BY SharedStep
<1> QED
  BY <1>1, <1>2, <1>3, <1>4, TypeCorrect, PTL
     DEF Spec, ImplementsSharedText, Abstract!SharedSpec

\* With in-order signals the editor shows the shared text as long as it is
\* attached, and what is typed afterwards stays out of it, even if the library
\* refuses operations silently.
THEOREM InOrderImplements ==
    ASSUME InOrderSignals
    PROVE  Spec => ImplementsSharedText
  BY NothingSwallowed, FlagsDecide, PTL

-----------------------------------------------------------------------------
(* Signals in any order, when the library tells of what it refuses *)

\* No removal is empty, and the callback of a refused operation comes.
RefusalsTold == MinRemoval > 0 /\ ~RefusalSilent

FlagsInv ==
    /\ ~blockRemoteInsert /\ ~blockRemoteRemove
    /\ \A i \in 1 .. Len(pending) : pending[i].len > 0

LEMMA FlagsStep ==
    ASSUME RefusalsTold, TypeOK, FlagsInv, [Next]_vars
    PROVE  FlagsInv'
<1> USE DEF FlagsInv
<1>1. Len(doc) \in Nat /\ Len(pending) \in Nat
  BY LenProperties DEF TypeOK
<1>2. CASE Remote
  BY <1>2 DEF Remote, RemoteInsert, RemoteErase, onInsertText, onEraseText
<1>3. ASSUME NEW e \in Edits, e.len > 0, pending' = Append(pending, e), UNCHANGED flags
      PROVE  FlagsInv'
  <2>1. /\ Len(pending') = Len(pending) + 1
        /\ \A i \in 1 .. Len(pending) : pending'[i] = pending[i]
        /\ pending'[Len(pending) + 1] = e
    BY <1>3, AppendProperties DEF TypeOK
  <2>2. \A i \in 1 .. Len(pending') : pending'[i].len > 0
    BY <1>1, <1>3, <2>1
  <2> QED
    BY <1>3, <2>2 DEF flags
<1>4. ASSUME NEW p \in 0 .. Len(doc), NEW t \in Texts, EditorInsert(p, t)
      PROVE  FlagsInv'
  <2>1. t \in Seq(Char) /\ Len(t) \in Nat /\ Len(t) > 0
    BY TextsAreTexts, LenProperties, EmptySeq
  <2>2. [op |-> "insert", at |-> p, len |-> Len(t)] \in Edits
    BY <1>1, <2>1 DEF Edits
  <2> QED
    BY <1>3, <1>4, <2>1, <2>2 DEF EditorInsert
<1>5. ASSUME NEW p \in 0 .. Len(doc), NEW n \in 0 .. Len(doc), EditorRemove(p, n)
      PROVE  FlagsInv'
  <2>1. [op |-> "remove", at |-> p, len |-> n] \in Edits
    BY <1>1 DEF Edits
  <2>2. n > 0
    BY <1>5, <1>1, TextSyncAssumption DEF EditorRemove, RefusalsTold, TextSyncAssumption
  <2> QED
    BY <1>3, <1>5, <2>1, <2>2 DEF EditorRemove
<1>6. ASSUME pending # << >>, PopPending, ~blockRemoteInsert', ~blockRemoteRemove'
      PROVE  FlagsInv'
  <2>1. Len(pending) > 0
    BY <1>1, <1>6, EmptySeq DEF TypeOK
  <2>2. Len(pending) - 1 \in 0 .. Len(pending) /\ Len(pending) \in Len(pending) - 1 .. Len(pending)
    BY <1>1, <2>1
  <2>3. /\ Len(pending') = Len(pending) - 1
        /\ \A i \in 1 .. Len(pending) - 1 : pending'[i] = pending[i]
    BY <1>6, <2>2, Ends DEF PopPending, TypeOK
  <2> QED
    BY <1>1, <1>6, <2>3
<1>7. FlagAfterRefusal = {FALSE}
  BY DEF FlagAfterRefusal, RefusalsTold
<1>8. CASE localTextInserted
  <2>1. pending # << >> /\ PopPending /\ UNCHANGED blockRemoteRemove
    BY <1>8 DEF localTextInserted
  <2>2. ~blockRemoteInsert'
    BY <1>7, <1>8 DEF localTextInserted, bufferInsert
  <2> QED
    BY <1>6, <2>1, <2>2
<1>9. CASE localTextRemoved
  <2>1. pending # << >> /\ PopPending /\ UNCHANGED blockRemoteInsert
    BY <1>9 DEF localTextRemoved
  <2>2. Innermost.len \in Nat /\ Innermost.len > 0
    BY <1>1, <2>1, EmptySeq, PendingType DEF Innermost, TypeOK, Edits
  <2>3. ~blockRemoteRemove'
    <3>1. CASE UNCHANGED blockRemoteRemove
      BY <3>1
    <3>2. CASE bufferErase(Smaller(Innermost.at, Len(doc)), Innermost.len)
      <4>1. Innermost.len # 0
        BY <2>2
      <4>2. blockRemoteRemove' = FALSE \/ blockRemoteRemove' \in FlagAfterRefusal
        BY <3>2, <4>1 DEF bufferErase
      <4> QED
        BY <1>7, <4>2
    <3> QED
      BY <1>9, <3>1, <3>2 DEF localTextRemoved
  <2> QED
    BY <1>6, <2>1, <2>3
<1>10. CASE slotJoinFinished \/ SessionClosed \/ shutdown
  <2>1. UNCHANGED <<blockRemoteInsert, blockRemoteRemove, pending>>
    BY <1>10 DEF slotJoinFinished, SessionClosed, shutdown, flags
  <2> QED
    BY <2>1
<1>11. CASE UNCHANGED vars
  BY <1>11 DEF vars
<1> QED
  BY <1>2, <1>4, <1>5, <1>8, <1>9, <1>10, <1>11 DEF Next, Editor, Slots

\* However the editor's slots edit while an edit is being signalled, no flag
\* survives the slot that armed it.
THEOREM NothingSwallowedNested ==
    ASSUME RefusalsTold
    PROVE  Spec => []NoArmedFlagAtRest
<1>1. Init => FlagsInv
  <2>1. << >> \in Seq(Edits) /\ Len(<< >>) = 0
    BY EmptySeq
  <2> QED
    BY <2>1 DEF Init, FlagsInv
<1>2. FlagsInv /\ TypeOK /\ [Next]_vars => FlagsInv'
  BY FlagsStep
<1>3. FlagsInv => NoArmedFlagAtRest
  BY DEF FlagsInv, NoArmedFlagAtRest
<1> QED
  BY <1>1, <1>2, <1>3, TypeCorrect, PTL DEF Spec

\* And the editor, while it is attached, never shows another text than the
\* session's once it has signalled its edits: out of order signals cut it off, at
\* worst.
THEOREM NestedImplements ==
    ASSUME RefusalsTold
    PROVE  Spec => ImplementsSharedText
  BY NothingSwallowedNested, FlagsDecide, PTL

-----------------------------------------------------------------------------
(* Closed for good *)

\* Whatever the order of the signals: a buffer that is closed stays closed, and
\* the edits under way at that moment do not reach it (checkConsistency, and the
\* checks of m_aboutToClose in every slot).
THEOREM StaysClosed == Spec => ClosedForGood
<1>1. ASSUME aboutToClose, [Next]_vars
      PROVE  aboutToClose' /\ docUrl' = docUrl /\ (pending # << >> => buffer' = buffer)
  <2> USE <1>1 DEF Agree, Deaf, control
  <2>1. CASE Remote
    BY <2>1 DEF Remote, RemoteInsert, RemoteErase, onInsertText, onEraseText
  <2>2. CASE Editor
    BY <2>2 DEF Editor, EditorInsert, EditorRemove
  <2>3. CASE Slots
    BY <2>3 DEF Slots, localTextInserted, localTextRemoved
  <2>4. CASE slotJoinFinished \/ SessionClosed \/ shutdown
    BY <2>4 DEF slotJoinFinished, SessionClosed, shutdown
  <2>5. CASE UNCHANGED vars
    BY <2>5 DEF vars
  <2> QED
    BY <2>1, <2>2, <2>3, <2>4, <2>5 DEF Next
<1> QED
  BY <1>1, PTL DEF Spec, ClosedForGood
=============================================================================
