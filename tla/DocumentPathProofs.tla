------------------------- MODULE DocumentPathProofs -------------------------
(***************************************************************************)
(* DocumentPath for every corpus: what is said of a document on its way to *)
(* its chunks, whatever its lines, pages and forms.                        *)
(***************************************************************************)
EXTENDS DocumentPath, ListLemmas

-----------------------------------------------------------------------------
(* Pieces of sequences                                                     *)

LEMMA LeastOf ==
    ASSUME NEW I, I \subseteq Int, IsFiniteSet(I), I # {}
    PROVE  Min(I) \in I /\ \A j \in I : Min(I) <= j
BY LeastNumber DEF Min

LEMMA GreatestOf ==
    ASSUME NEW I, I \subseteq Int, IsFiniteSet(I), I # {}
    PROVE  Max(I) \in I /\ \A j \in I : j <= Max(I)
<1>1. PICK i \in I : \A j \in I : j <= i
  BY GreatestNumber
<1>2. \E h \in I : \A j \in I : h >= j
  BY <1>1
<1>3. Max(I) \in I /\ \A j \in I : Max(I) >= j
  BY <1>2 DEF Max
<1> QED
  BY <1>3

LEMMA SomePlaces ==
    ASSUME NEW n \in Nat, NEW I \in SUBSET (1..n)
    PROVE  IsFiniteSet(I) /\ I \subseteq Int
<1>1. IsFiniteSet(1..n)
  BY FS_Interval
<1>2. I \subseteq Int
  OBVIOUS
<1>3. IsFiniteSet(I)
  BY <1>1, FS_Subset
<1> QED
  BY <1>2, <1>3

\* A piece of a sequence.
LEMMA PieceOf ==
    ASSUME NEW A, NEW t \in Seq(A), NEW m \in 1..Len(t) + 1, NEW n \in m - 1..Len(t)
    PROVE  /\ SubSeq(t, m, n) \in Seq(A)
           /\ Len(SubSeq(t, m, n)) = n - m + 1
           /\ Range(SubSeq(t, m, n)) = {t[i] : i \in m..n}
           /\ \A i \in 1..n - m + 1 : SubSeq(t, m, n)[i] = t[m + i - 1]
<1>1. Len(t) \in Nat /\ \A i \in m..n : t[i] \in A
  BY LenProperties
<1> DEFINE s == SubSeq(t, m, n)
<1>2. /\ s \in Seq(A)
      /\ Len(s) = IF m <= n THEN n - m + 1 ELSE 0
      /\ \A i \in 1..n - m + 1 : s[i] = t[m + i - 1]
  BY <1>1, SubSeqProperties
<1> HIDE DEF s
<1>3. Len(s) = n - m + 1
  BY <1>1, <1>2
<1>4. Range(s) = {s[i] : i \in 1..n - m + 1}
  BY <1>2, <1>3, RangeEquality
<1>5. {s[i] : i \in 1..n - m + 1} = {t[i] : i \in m..n}
  <2>1. ASSUME NEW i \in 1..n - m + 1 PROVE m + i - 1 \in m..n /\ s[i] = t[m + i - 1]
    BY <1>1, <1>2
  <2>2. ASSUME NEW i \in m..n PROVE i - m + 1 \in 1..n - m + 1 /\ s[i - m + 1] = t[i]
    <3>1. i - m + 1 \in 1..n - m + 1 /\ m + (i - m + 1) - 1 = i
      BY <1>1
    <3> QED
      BY <1>2, <3>1
  <2>3. {s[i] : i \in 1..n - m + 1} \subseteq {t[i] : i \in m..n}
    BY <2>1
  <2>4. {t[i] : i \in m..n} \subseteq {s[i] : i \in 1..n - m + 1}
    BY <2>2
  <2> QED
    BY <2>3, <2>4
<1> QED
  BY <1>2, <1>3, <1>4, <1>5 DEF s

LEMMA FrontOf ==
    ASSUME NEW A, NEW t \in Seq(A), Len(t) # 0
    PROVE  /\ Front(t) \in Seq(A) /\ Len(Front(t)) = Len(t) - 1
           /\ \A k \in 1..Len(t) - 1 : Front(t)[k] = t[k]
<1> DEFINE n == Len(t) - 1
           s == SubSeq(t, 1, n)
<1>1. Len(t) \in Nat /\ n \in Nat /\ n \in 1 - 1..Len(t) /\ 1 \in 1..Len(t) + 1
  BY LenProperties
<1>2. Front(t) = s
  BY DEF Front
<1> HIDE DEF n
<1>3. s \in Seq(A) /\ Len(s) = n - 1 + 1 /\ \A k \in 1..n - 1 + 1 : s[k] = t[1 + k - 1]
  BY <1>1, PieceOf
<1> HIDE DEF s
<1>4. n - 1 + 1 = n /\ \A k \in 1..n : 1 + k - 1 = k
  BY <1>1
<1>5. s \in Seq(A) /\ Len(s) = n /\ \A k \in 1..n : s[k] = t[k]
  BY <1>3, <1>4
<1> QED
  BY <1>2, <1>5 DEF n

-----------------------------------------------------------------------------
(* Text                                                                    *)

Char == {"x", ".", "sp", "nl"} \X Nat \X Nat

SolidIn(t) == {ch \in Range(t) : ~Blank(ch)}

\* Strip and LStrip take blanks only.
LEMMA Stripped ==
    ASSUME NEW t \in Seq(Char)
    PROVE  /\ Strip(t) \in Seq(Char) /\ Len(Strip(t)) \in Nat /\ Len(Strip(t)) <= Len(t)
           /\ Range(Strip(t)) \subseteq Range(t) /\ SolidIn(Strip(t)) = SolidIn(t)
           /\ LStrip(t) \in Seq(Char) /\ Len(LStrip(t)) \in Nat /\ Len(LStrip(t)) <= Len(t)
           /\ Range(LStrip(t)) \subseteq Range(t) /\ SolidIn(LStrip(t)) = SolidIn(t)
           /\ (Strip(t) = <<>> => SolidIn(t) = {})
<1> DEFINE solid == {i \in DOMAIN t : ~Blank(t[i])}
<1>1. Len(t) \in Nat /\ DOMAIN t = 1..Len(t) /\ Range(t) = {t[i] : i \in 1..Len(t)}
  BY Places1
<1>2. SolidIn(t) = {t[i] : i \in solid}
  BY <1>1 DEF SolidIn
<1>3. IsFiniteSet(solid) /\ solid \subseteq Int
  BY <1>1, SomePlaces
<1>4. Range(<<>>) = {} /\ SolidIn(<<>>) = {} /\ <<>> \in Seq(Char) /\ Len(<<>>) = 0
  BY DEF Range, SolidIn
<1>5. CASE solid = {}
  <2>1. Strip(t) = <<>> /\ LStrip(t) = <<>>
    BY <1>5 DEF Strip, LStrip
  <2>2. SolidIn(t) = {}
    BY <1>2, <1>5
  <2> HIDE DEF solid
  <2> QED
    BY <1>1, <1>4, <2>1, <2>2
<1>6. CASE solid # {}
  <2> DEFINE m == Min(solid)
             n == Max(solid)
  <2>1. m \in solid /\ n \in solid /\ \A i \in solid : m <= i /\ i <= n
    BY <1>3, <1>6, LeastOf, GreatestOf
  <2>2. Strip(t) = SubSeq(t, m, n) /\ LStrip(t) = SubSeq(t, m, Len(t))
    BY <1>6 DEF Strip, LStrip
  <2>3. m \in 1..Len(t) + 1 /\ n \in m - 1..Len(t) /\ Len(t) \in m - 1..Len(t) /\ n \in m..Len(t)
    BY <1>1, <2>1
  <2>4. solid \subseteq m..n /\ solid \subseteq m..Len(t) /\ solid \subseteq 1..Len(t)
    BY <1>1, <1>3, <2>1
  <2>5. \A i \in 1..Len(t) : ~Blank(t[i]) <=> i \in solid
    BY <1>1
  <2> HIDE DEF m, n, solid
  <2>6. /\ SubSeq(t, m, n) \in Seq(Char) /\ Len(SubSeq(t, m, n)) = n - m + 1
        /\ Range(SubSeq(t, m, n)) = {t[i] : i \in m..n}
    BY <2>3, PieceOf
  <2>7. /\ SubSeq(t, m, Len(t)) \in Seq(Char) /\ Len(SubSeq(t, m, Len(t))) = Len(t) - m + 1
        /\ Range(SubSeq(t, m, Len(t))) = {t[i] : i \in m..Len(t)}
    BY <2>3, PieceOf
  <2>8. m..n \subseteq 1..Len(t) /\ m..Len(t) \subseteq 1..Len(t)
    BY <1>1, <2>3
  <2>9. SolidIn(Strip(t)) = SolidIn(t) /\ Range(Strip(t)) \subseteq Range(t)
    BY <1>1, <1>2, <2>2, <2>4, <2>5, <2>6, <2>8 DEF SolidIn
  <2>10. SolidIn(LStrip(t)) = SolidIn(t) /\ Range(LStrip(t)) \subseteq Range(t)
    BY <1>1, <1>2, <2>2, <2>4, <2>5, <2>7, <2>8 DEF SolidIn
  <2>11. Len(Strip(t)) \in Nat \ {0} /\ Len(Strip(t)) <= Len(t)
    BY <1>1, <2>2, <2>3, <2>6
  <2>12. Len(LStrip(t)) \in Nat /\ Len(LStrip(t)) <= Len(t)
    BY <1>1, <2>2, <2>3, <2>7
  <2>13. Strip(t) # <<>>
    BY <1>4, <2>11
  <2> QED
    BY <2>2, <2>6, <2>7, <2>9, <2>10, <2>11, <2>12, <2>13
<1> QED
  BY <1>5, <1>6

-----------------------------------------------------------------------------
(* Cutting a text that is too long                                         *)

LEMMA Limits ==
    /\ MaxChars \in Nat \ {0} /\ Overlap \in Nat /\ CharsPerToken \in Nat \ {0}
    /\ Search \in Nat /\ Search < MaxChars
<1>1. /\ MaxTokens \in Nat \ {0} /\ OverlapTokens \in Nat \ {0} /\ CharsPerToken \in Nat \ {0}
      /\ Search \in Nat /\ Search < MaxTokens * CharsPerToken
  BY LimitsAssumption
<1>2. MaxTokens * CharsPerToken \in Nat /\ OverlapTokens * CharsPerToken \in Nat
  BY <1>1
<1> QED
  BY <1>1, <1>2 DEF MaxChars, Overlap

\* A text fits if it is less than a token over the limit.
LEMMA FitsOrNot ==
    ASSUME NEW t, Len(t) \in Nat
    PROVE  /\ Fits(t) => Len(t) < MaxChars + CharsPerToken
           /\ ~Fits(t) => Len(t) > MaxChars
<1> DEFINE n == Len(t)
           c == CharsPerToken
           m == MaxTokens
<1>1. c \in Nat \ {0} /\ m \in Nat /\ n \in Nat
  BY LimitsAssumption
<1>2. (Fits(t) <=> n \div c <= m) /\ MaxChars = m * c
  BY DEF Fits, Tokens, MaxChars
<1> HIDE DEF n, c, m
<1>3. ASSUME n \div c <= m PROVE n < (m + 1) * c
  BY <1>1, <1>3
<1>4. ASSUME ~(n \div c <= m) PROVE n >= (m + 1) * c
  BY <1>1, <1>4
<1>5. (m + 1) * c = m * c + c /\ m * c \in Nat
  BY <1>1
<1>6. Fits(t) => n < m * c + c
  BY <1>2, <1>3, <1>5
<1>7. ASSUME ~Fits(t) PROVE n > m * c
  <2>1. n >= m * c + c
    BY <1>2, <1>4, <1>5, <1>7
  <2> DEFINE k == m * c
  <2>2. k \in Nat /\ n >= k + c
    BY <1>5, <2>1
  <2> HIDE DEF k
  <2>3. n > k
    BY <1>1, <2>2
  <2> QED
    BY <2>3 DEF k
<1> QED
  BY <1>2, <1>6, <1>7 DEF n, c

\* A chunk is cut at its limit or before.
LEMMA BoundaryInside ==
    ASSUME NEW t
    PROVE  SentenceBoundary(t, MaxChars) \in 1..MaxChars
<1> DEFINE near == MaxChars
           from == IF near > Search THEN near - Search ELSE 0
           ends == {i \in from + 1..near :
                      t[i][1] = "." /\ (i = near \/ Blank(t[i + 1]))}
           spaces == {i \in from + 1..near : t[i][1] = "sp"}
<1>1. near \in Nat \ {0} /\ from \in Nat
  BY Limits
<1>2. SentenceBoundary(t, MaxChars) =
        IF ends # {} THEN Max(ends) ELSE IF spaces # {} THEN Max(spaces) ELSE near
  BY DEF SentenceBoundary
<1> HIDE DEF near
<1>3. ends \in SUBSET (1..near) /\ spaces \in SUBSET (1..near)
  BY <1>1
<1> HIDE DEF from, ends, spaces
<1>4. IsFiniteSet(ends) /\ ends \subseteq Int /\ IsFiniteSet(spaces) /\ spaces \subseteq Int
  BY <1>1, <1>3, SomePlaces
<1>5. (ends # {} => Max(ends) \in ends) /\ (spaces # {} => Max(spaces) \in spaces)
  BY <1>4, GreatestOf
<1>6. near \in 1..near
  BY <1>1
<1>7. SentenceBoundary(t, MaxChars) \in 1..near
  BY <1>2, <1>3, <1>5, <1>6
<1> QED
  BY <1>7 DEF near

\* The next chunk starts after the first character of this one, and not after its end.
LEMMA OverlapInside ==
    ASSUME NEW t, NEW split \in Nat \ {0}
    PROVE  OverlapStart(t, split) \in 1..split
<1> DEFINE back == IF split > Overlap THEN split - Overlap ELSE 0
           breaks == {o \in back..split - 1 : Blank(t[o + 1])}
           start == IF breaks = {} THEN split ELSE Min(breaks)
<1>1. back \in Nat
  BY Limits
<1>2. OverlapStart(t, split) = Smaller(start + 1, split)
  BY DEF OverlapStart
<1>3. breaks \subseteq back..split - 1
  OBVIOUS
<1> HIDE DEF back, breaks
<1>4. IsFiniteSet(breaks) /\ breaks \subseteq Int
  <2>1. IsFiniteSet(back..split - 1)
    BY <1>1, FS_Interval
  <2>2. IsFiniteSet(breaks)
    BY <1>3, <2>1, FS_Subset
  <2> QED
    BY <1>1, <1>3, <2>2
<1>5. breaks # {} => Min(breaks) \in breaks
  BY <1>4, LeastOf
<1>6. start \in Nat
  <2>1. \A o \in back..split - 1 : o \in Nat
    BY <1>1
  <2>2. breaks # {} => Min(breaks) \in Nat
    BY <1>3, <1>5, <2>1
  <2> QED
    BY <2>2
<1> HIDE DEF start
<1> QED
  BY <1>2, <1>6 DEF Smaller

\* What is left is shorter, and holds what the cut did not take.
LEMMA Remains ==
    ASSUME NEW t \in Seq(Char), NEW split \in 1..Len(t)
    PROVE  /\ Remainder(t, split) \in Seq(Char) /\ Len(Remainder(t, split)) \in Nat
           /\ Len(Remainder(t, split)) < Len(t)
           /\ Range(Remainder(t, split)) \subseteq Range(t)
           /\ SolidIn(t) = SolidIn(Strip(SubSeq(t, 1, split))) \cup SolidIn(Remainder(t, split))
           /\ Strip(SubSeq(t, 1, split)) \in Seq(Char)
           /\ Len(Strip(SubSeq(t, 1, split))) <= split
           /\ Range(Strip(SubSeq(t, 1, split))) \subseteq Range(t)
<1> DEFINE start == OverlapStart(t, split)
           u == SubSeq(t, 1, split)
           v == SubSeq(t, start + 1, Len(t))
<1>1. Len(t) \in Nat /\ split \in Nat \ {0} /\ Range(t) = {t[i] : i \in 1..Len(t)}
  BY Places1
<1>2. start \in 1..split
  BY <1>1, OverlapInside
<1>3. 1 \in 1..Len(t) + 1 /\ split \in 1 - 1..Len(t) /\ start + 1 \in 1..Len(t) + 1
      /\ Len(t) \in start + 1 - 1..Len(t)
  BY <1>1, <1>2
<1>4. Remainder(t, split) = IF Len(LStrip(v)) >= Len(t) THEN LStrip(SubSeq(t, split + 1, Len(t)))
                            ELSE LStrip(v)
  BY DEF Remainder
<1> HIDE DEF start
<1>5. u \in Seq(Char) /\ Len(u) = split /\ Range(u) = {t[i] : i \in 1..split}
  BY <1>1, <1>3, PieceOf
<1>6. v \in Seq(Char) /\ Len(v) = Len(t) - start /\ Range(v) = {t[i] : i \in start + 1..Len(t)}
  BY <1>1, <1>2, <1>3, PieceOf
<1> HIDE DEF u, v
<1>7. Len(LStrip(v)) \in Nat /\ Len(LStrip(v)) <= Len(v)
  BY <1>6, Stripped
<1>8. Remainder(t, split) = LStrip(v) /\ Len(LStrip(v)) < Len(t)
  BY <1>1, <1>2, <1>4, <1>6, <1>7
<1>9. 1..Len(t) = 1..split \cup (start + 1..Len(t))
  BY <1>1, <1>2
<1>10. Range(t) = Range(u) \cup Range(v)
  BY <1>1, <1>5, <1>6, <1>9
<1>11. SolidIn(t) = SolidIn(u) \cup SolidIn(v)
  BY <1>10 DEF SolidIn
<1>12. /\ SolidIn(Strip(u)) = SolidIn(u) /\ Range(Strip(u)) \subseteq Range(u)
       /\ Strip(u) \in Seq(Char) /\ Len(Strip(u)) <= Len(u)
  BY <1>5, Stripped
<1>13. /\ SolidIn(LStrip(v)) = SolidIn(v) /\ Range(LStrip(v)) \subseteq Range(v)
       /\ LStrip(v) \in Seq(Char)
  BY <1>6, Stripped
<1> QED
  BY <1>5, <1>7, <1>8, <1>10, <1>11, <1>12, <1>13 DEF u

-----------------------------------------------------------------------------
(* Lines                                                                   *)

DocLine == 1..Len(doc)

LEMMA DocumentLines ==
    ASSUME IsDocument(doc)
    PROVE  /\ Len(doc) \in Nat /\ DOMAIN doc = DocLine /\ IsFiniteSet(DocLine) /\ DocLine \subseteq Nat
           /\ \A l \in DocLine : /\ doc[l].text \in Seq({"x", ".", "sp"})
                                 /\ Len(doc[l].text) \in Nat
                                 /\ \A c \in 1..Len(doc[l].text) : doc[l].text[c] \in {"x", ".", "sp"}
<1>1. Len(doc) \in Nat /\ DOMAIN doc = DocLine /\ IsFiniteSet(DocLine)
  BY Places1 DEF IsDocument, DocLine
<1>2. ASSUME NEW l \in DocLine
      PROVE  /\ doc[l].text \in Seq({"x", ".", "sp"})
             /\ Len(doc[l].text) \in Nat
             /\ \A c \in 1..Len(doc[l].text) : doc[l].text[c] \in {"x", ".", "sp"}
  <2>1. doc[l].text \in Seq({"x", ".", "sp"})
    BY <1>1 DEF IsDocument
  <2> QED
    BY <2>1, LenProperties
<1>3. DocLine \subseteq Nat
  BY DEF DocLine
<1> QED
  BY <1>1, <1>2, <1>3

LEMMA LineChars ==
    ASSUME IsDocument(doc), NEW l \in DocLine
    PROVE  /\ CharsOf(l) \in Seq(Char) /\ Len(CharsOf(l)) = Len(doc[l].text)
           /\ \A ch \in Range(CharsOf(l)) : ch[2] = l
<1> DEFINE n == Len(doc[l].text)
<1>1. n \in Nat /\ l \in Nat /\ \A c \in 1..n : doc[l].text[c] \in {"x", ".", "sp"}
  BY DocumentLines
<1>2. CharsOf(l) = [c \in 1..n |-> <<doc[l].text[c], l, c>>]
  BY DEF CharsOf
<1> HIDE DEF n
<1>3. \A c \in 1..n : <<doc[l].text[c], l, c>> \in Char
  BY <1>1 DEF Char
<1>4. CharsOf(l) \in [1..n -> Char]
  BY <1>2, <1>3
<1>5. CharsOf(l) \in Seq(Char) /\ Len(CharsOf(l)) = n
  BY <1>1, <1>4
<1>6. \A ch \in Range(CharsOf(l)) : ch[2] = l
  BY <1>2 DEF Range
<1> QED
  BY <1>5, <1>6 DEF n

LineFeed(l) == <<"nl", l, 0>>

JoinedParts(ls) ==
    [i \in DOMAIN ls |-> (IF i = 1 THEN <<>> ELSE <<LineFeed(ls[i])>>) \o CharsOf(ls[i])]

LEMMA PartsJoined ==
    ASSUME IsDocument(doc), NEW ls \in Seq(DocLine)
    PROVE  /\ Joined(ls) = FlattenSeq(JoinedParts(ls))
           /\ JoinedParts(ls) \in Seq(Seq(Char)) /\ Len(JoinedParts(ls)) = Len(ls)
           /\ \A i \in 1..Len(ls) :
                Range(JoinedParts(ls)[i]) = (IF i = 1 THEN {} ELSE {LineFeed(ls[i])}) \cup Range(CharsOf(ls[i]))
<1>1. Len(ls) \in Nat /\ DOMAIN ls = 1..Len(ls) /\ \A i \in 1..Len(ls) : ls[i] \in DocLine
  BY Places1
<1>2. Joined(ls) = FlattenSeq(JoinedParts(ls))
  BY DEF Joined, JoinedParts, LineFeed
<1> DEFINE head(i) == IF i = 1 THEN <<>> ELSE <<LineFeed(ls[i])>>
<1>3. ASSUME NEW i \in 1..Len(ls)
      PROVE  /\ head(i) \in Seq(Char) /\ CharsOf(ls[i]) \in Seq(Char)
             /\ Range(head(i)) = IF i = 1 THEN {} ELSE {LineFeed(ls[i])}
  <2>1. LineFeed(ls[i]) \in Char
    BY <1>1, DocumentLines DEF Char, LineFeed
  <2>2. Range(<<LineFeed(ls[i])>>) = {LineFeed(ls[i])} /\ Range(<<>>) = {}
    <3> HIDE DEF LineFeed
    <3> QED
      BY DEF Range
  <2>3. <<LineFeed(ls[i])>> \in Seq(Char) /\ <<>> \in Seq(Char)
    BY <2>1
  <2> QED
    BY <1>1, <2>2, <2>3, LineChars
<1> HIDE DEF head
<1>4. JoinedParts(ls) = [i \in 1..Len(ls) |-> head(i) \o CharsOf(ls[i])]
  BY <1>1 DEF JoinedParts, head
<1>5. \A i \in 1..Len(ls) : head(i) \o CharsOf(ls[i]) \in Seq(Char)
  BY <1>3, ConcatProperties
<1>6. JoinedParts(ls) \in [1..Len(ls) -> Seq(Char)]
  BY <1>4, <1>5
<1>7. JoinedParts(ls) \in Seq(Seq(Char)) /\ Len(JoinedParts(ls)) = Len(ls)
  BY <1>1, <1>6
<1>8. ASSUME NEW i \in 1..Len(ls)
      PROVE  Range(JoinedParts(ls)[i]) = (IF i = 1 THEN {} ELSE {LineFeed(ls[i])}) \cup Range(CharsOf(ls[i]))
  <2>1. JoinedParts(ls)[i] = head(i) \o CharsOf(ls[i])
    BY <1>4
  <2> QED
    BY <1>3, <2>1, RangeConcatenation
<1> QED
  BY <1>2, <1>7, <1>8

\* The lines ls, joined: nothing solid but what they say, and all of it.
LEMMA JoinedSays ==
    ASSUME IsDocument(doc), NEW ls \in Seq(DocLine)
    PROVE  /\ Joined(ls) \in Seq(Char)
           /\ SolidIn(Joined(ls)) = UNION {SolidIn(CharsOf(l)) : l \in Range(ls)}
           /\ \A ch \in Range(Joined(ls)) : ch[2] \in Range(ls)
<1> DEFINE parts == JoinedParts(ls)
           n == Len(ls)
<1>1. n \in Nat /\ Range(ls) = {ls[i] : i \in 1..n} /\ \A i \in 1..n : ls[i] \in DocLine
  BY Places1
<1>2. /\ Joined(ls) = FlattenSeq(parts) /\ parts \in Seq(Seq(Char)) /\ Len(parts) = n
      /\ \A i \in 1..n : Range(parts[i]) = (IF i = 1 THEN {} ELSE {LineFeed(ls[i])}) \cup Range(CharsOf(ls[i]))
  BY PartsJoined
<1> HIDE DEF parts, n
<1>3. Joined(ls) \in Seq(Char) /\ Range(Joined(ls)) = UNION {Range(parts[i]) : i \in 1..n}
  BY <1>2, FlattenOf
<1>4. ASSUME NEW i \in 1..n PROVE Blank(LineFeed(ls[i])) /\ LineFeed(ls[i])[2] = ls[i]
  BY DEF Blank, LineFeed
<1>5. ASSUME NEW ch \in Range(Joined(ls)) PROVE ch[2] \in Range(ls)
  <2>1. PICK i \in 1..n : ch \in Range(parts[i])
    BY <1>3
  <2>2. ch = LineFeed(ls[i]) \/ ch \in Range(CharsOf(ls[i]))
    BY <1>2, <2>1
  <2>3. ch[2] = ls[i] /\ ls[i] \in Range(ls)
    BY <1>1, <1>4, <2>2, LineChars
  <2> QED
    BY <2>3
<1>6. ASSUME NEW ch \in SolidIn(Joined(ls)) PROVE \E l \in Range(ls) : ch \in SolidIn(CharsOf(l))
  <2>1. PICK i \in 1..n : ch \in Range(parts[i])
    BY <1>3 DEF SolidIn
  <2>2. ~Blank(ch)
    BY DEF SolidIn
  <2>3. ch \in Range(CharsOf(ls[i])) /\ ls[i] \in Range(ls)
    BY <1>1, <1>2, <1>4, <2>1, <2>2
  <2> QED
    BY <2>2, <2>3 DEF SolidIn
<1>7. ASSUME NEW l \in Range(ls), NEW ch \in SolidIn(CharsOf(l)) PROVE ch \in SolidIn(Joined(ls))
  <2>1. PICK i \in 1..n : l = ls[i]
    BY <1>1
  <2>2. ch \in Range(parts[i])
    BY <1>2, <2>1 DEF SolidIn
  <2> QED
    BY <1>3, <2>2 DEF SolidIn
<1>8. SolidIn(Joined(ls)) = UNION {SolidIn(CharsOf(l)) : l \in Range(ls)}
  BY <1>6, <1>7
<1> QED
  BY <1>3, <1>5, <1>8

\* One more line is a line feed and its text more.
LEMMA JoinedMore ==
    ASSUME IsDocument(doc), NEW ls \in Seq(DocLine), NEW l \in DocLine
    PROVE  Len(Joined(Append(ls, l))) = Len(Joined(ls)) + (IF ls = <<>> THEN 0 ELSE 1) + Len(doc[l].text)
<1> DEFINE more == Append(ls, l)
           n == Len(ls)
           part == (IF n + 1 = 1 THEN <<>> ELSE <<LineFeed(l)>>) \o CharsOf(l)
<1>1. /\ n \in Nat /\ DOMAIN ls = 1..n /\ more \in Seq(DocLine) /\ Len(more) = n + 1 /\ DOMAIN more = 1..n + 1
      /\ more[n + 1] = l /\ \A i \in 1..n : more[i] = ls[i]
  BY AppendProperties, LenProperties
<1>2. /\ JoinedParts(ls) \in Seq(Seq(Char)) /\ Len(JoinedParts(ls)) = n
      /\ Joined(ls) = FlattenSeq(JoinedParts(ls))
  BY PartsJoined
<1>3. /\ JoinedParts(more) \in Seq(Seq(Char)) /\ Len(JoinedParts(more)) = n + 1
      /\ Joined(more) = FlattenSeq(JoinedParts(more))
  BY <1>1, PartsJoined
<1>4. CharsOf(l) \in Seq(Char) /\ Len(CharsOf(l)) = Len(doc[l].text) /\ Len(doc[l].text) \in Nat
  BY LineChars, DocumentLines
<1>5. LineFeed(l) \in Char
  BY DocumentLines DEF Char, LineFeed
<1>6. /\ <<LineFeed(l)>> \in Seq(Char) /\ Len(<<LineFeed(l)>>) = 1
      /\ <<>> \in Seq(Char) /\ Len(<<>>) = 0
  BY <1>5
<1>7. part \in Seq(Char) /\ Len(part) = (IF n = 0 THEN 0 ELSE 1) + Len(doc[l].text)
  <2>1. CASE n = 0
    <3>1. part = <<>> \o CharsOf(l)
      BY <2>1
    <3> QED
      BY <1>4, <1>6, <2>1, <3>1, ConcatProperties
  <2>2. CASE n # 0
    <3>1. part = <<LineFeed(l)>> \o CharsOf(l)
      BY <1>1, <2>2
    <3> QED
      BY <1>4, <1>6, <2>2, <3>1, ConcatProperties
  <2> QED
    BY <2>1, <2>2
<1>8. JoinedParts(more) = Append(JoinedParts(ls), part)
  <2>1. \A i \in 1..n : JoinedParts(more)[i] = JoinedParts(ls)[i]
    BY <1>1 DEF JoinedParts
  <2>2. JoinedParts(more)[n + 1] = part
    BY <1>1 DEF JoinedParts
  <2> HIDE DEF part, more
  <2>3. /\ Append(JoinedParts(ls), part) \in Seq(Seq(Char))
        /\ Len(Append(JoinedParts(ls), part)) = n + 1
        /\ \A i \in 1..n : Append(JoinedParts(ls), part)[i] = JoinedParts(ls)[i]
        /\ Append(JoinedParts(ls), part)[n + 1] = part
    BY <1>2, <1>7, AppendProperties
  <2>4. \A i \in 1..n + 1 : i \in 1..n \/ i = n + 1
    BY <1>1
  <2>5. \A i \in 1..n + 1 : JoinedParts(more)[i] = Append(JoinedParts(ls), part)[i]
    BY <2>1, <2>2, <2>3, <2>4
  <2> QED
    BY <1>3, <2>3, <2>5, SeqEqual
<1> HIDE DEF part
<1>9. Joined(more) = Joined(ls) \o part
  BY <1>2, <1>3, <1>7, <1>8, FlattenAppend
<1>10. Joined(ls) \in Seq(Char) /\ Len(Joined(ls)) \in Nat
  BY JoinedSays, LenProperties
<1>11. ls = <<>> <=> n = 0
  BY EmptySeq, LenProperties
<1>12. Len(Joined(more)) = Len(Joined(ls)) + Len(part)
  BY <1>7, <1>9, <1>10, ConcatProperties
<1>13. (IF ls = <<>> THEN 0 ELSE 1) = IF n = 0 THEN 0 ELSE 1
  BY <1>11
<1> DEFINE step == IF n = 0 THEN 0 ELSE 1
<1>14. step \in Nat /\ Len(part) = step + Len(doc[l].text)
  BY <1>7
<1> HIDE DEF step, more
<1>15. Len(Joined(more)) = Len(Joined(ls)) + step + Len(doc[l].text)
  <2> DEFINE a == Len(Joined(ls))
             b == Len(doc[l].text)
             c == Len(part)
  <2>1. a \in Nat /\ b \in Nat /\ c = step + b /\ step \in Nat
    BY <1>4, <1>10, <1>14
  <2>2. Len(Joined(more)) = a + c
    BY <1>12
  <2> HIDE DEF a, b, c
  <2>3. a + c = a + step + b
    BY <2>1
  <2>4. Len(Joined(more)) = a + step + b
    BY <2>2, <2>3
  <2> QED
    BY <2>4 DEF a, b
<1> QED
  BY <1>13, <1>15 DEF more, step

-----------------------------------------------------------------------------
(* A page in columns comes out as lines                                    *)

Word == [x0 : Nat, x1 : Nat, top : Nat]

\* The words of a page, or some of them.
Laid(S) ==
    /\ IsFiniteSet(S) /\ S \subseteq Word
    /\ \A u, v \in S : /\ u.x0 <= u.x1
                       /\ u.x0 = v.x0 /\ Distance(u.top, v.top) <= LineTolerance => u = v

LEMMA LaidSome == ASSUME NEW S, Laid(S), NEW T \in SUBSET S PROVE Laid(T)
BY FS_Subset DEF Laid

LEMMA TallerPlace ==
    ASSUME NEW a \in Nat, NEW b \in Nat, NEW x \in Nat, NEW y \in Nat, NEW w \in Nat,
           x < w, y < w
    PROVE  /\ a * w + x \in Nat
           /\ a < b => a * w + x < b * w + y
<1>1. a * w \in Nat /\ b * w \in Nat
  OBVIOUS
<1>2. ASSUME a < b PROVE a * w + w <= b * w
  <2>1. b - a - 1 \in Nat /\ b = a + 1 + (b - a - 1)
    BY <1>2
  <2>2. PICK d \in Nat : b = a + 1 + d
    BY <2>1
  <2>3. b * w = a * w + w + d * w /\ d * w \in Nat
    BY <2>2
  <2> QED
    BY <1>1, <2>3
<1>3. ASSUME a < b PROVE a * w + x < b * w + y
  <2> DEFINE p == a * w
             q == b * w
  <2>1. p \in Nat /\ q \in Nat /\ p + w <= q
    BY <1>1, <1>2, <1>3
  <2> HIDE DEF p, q
  <2>2. p + x < q + y
    BY <2>1
  <2> QED
    BY <2>2 DEF p, q
<1> QED
  BY <1>1, <1>3

Downwards(S) == [w \in S |-> w.top * PageWidth(S) + w.x0]

LEMMA WordsOrdered ==
    ASSUME NEW S, Laid(S)
    PROVE  /\ Keyed(S, Downwards(S))
           /\ \A u, v \in S : Downwards(S)[u] < Downwards(S)[v] => u.top <= v.top
<1>1. IsFiniteSet(S) /\ \A w \in S : w \in Word /\ w.x0 <= w.x1
  BY DEF Laid
<1>2. ASSUME NEW w \in S PROVE PageWidth(S) \in Nat /\ w.x0 < PageWidth(S)
  <2> DEFINE ends == {u.x1 : u \in S}
             f == [u \in S |-> u.x1]
  <2>1. IsFiniteSet(ends)
    <3>1. DOMAIN f = S /\ f = [u \in S |-> f[u]] /\ ends = {f[u] : u \in S}
      OBVIOUS
    <3> HIDE DEF f, ends
    <3> QED
      BY <1>1, <3>1, FiniteImage
  <2>2. ends \subseteq Nat /\ w.x1 \in ends
    BY <1>1 DEF Word
  <2>3. PageWidth(S) = Max(ends) + 1
    BY DEF PageWidth
  <2> HIDE DEF ends
  <2>4. Max(ends) \in ends /\ w.x1 <= Max(ends)
    <3>1. ends \subseteq Int /\ ends # {}
      BY <2>2
    <3> QED
      BY <2>1, <2>2, <3>1, GreatestOf
  <2>5. w.x0 \in Nat /\ w.x1 \in Nat /\ w.x0 <= w.x1
    BY <1>1 DEF Word
  <2>6. Max(ends) \in Nat
    BY <2>2, <2>4
  <2> QED
    BY <2>3, <2>4, <2>5, <2>6
<1>3. ASSUME NEW u \in S, NEW v \in S
      PROVE  /\ Downwards(S)[u] \in Nat
             /\ Downwards(S)[u] = u.top * PageWidth(S) + u.x0
             /\ u.top < v.top => Downwards(S)[u] < Downwards(S)[v]
  <2>1. /\ u.top \in Nat /\ u.x0 \in Nat /\ v.top \in Nat /\ v.x0 \in Nat
        /\ PageWidth(S) \in Nat /\ u.x0 < PageWidth(S) /\ v.x0 < PageWidth(S)
    BY <1>1, <1>2 DEF Word
  <2>2. /\ Downwards(S)[u] = u.top * PageWidth(S) + u.x0
        /\ Downwards(S)[v] = v.top * PageWidth(S) + v.x0
    BY DEF Downwards
  <2> QED
    BY <2>1, <2>2, TallerPlace
<1>4. ASSUME NEW u \in S, NEW v \in S, Downwards(S)[u] = Downwards(S)[v] PROVE u = v
  <2>1. u.top \in Nat /\ u.x0 \in Nat /\ v.top \in Nat /\ v.x0 \in Nat /\ LineTolerance \in Nat
    BY <1>1, GeometryAssumption DEF Word
  <2>2. u.top = v.top
    BY <1>3, <1>4, <2>1
  <2>3. u.top * PageWidth(S) \in Nat
    BY <1>2, <2>1
  <2>4. u.x0 = v.x0
    BY <1>3, <1>4, <2>1, <2>2, <2>3
  <2>5. Distance(u.top, v.top) <= LineTolerance
    BY <2>1, <2>2 DEF Distance
  <2> QED
    BY <2>4, <2>5 DEF Laid
<1>5. Downwards(S) \in [S -> Int]
  <2>1. \A u \in S : u.top * PageWidth(S) + u.x0 \in Int
    BY <1>3
  <2> QED
    BY <2>1 DEF Downwards
<1>6. ASSUME NEW u \in S, NEW v \in S, Downwards(S)[u] < Downwards(S)[v] PROVE u.top <= v.top
  <2>1. u.top \in Nat /\ v.top \in Nat
    BY <1>1 DEF Word
  <2>2. Downwards(S)[u] \in Nat /\ Downwards(S)[v] \in Nat /\ ~(v.top < u.top)
    BY <1>3, <1>6
  <2> QED
    BY <2>1, <2>2
<1>7. Keyed(S, Downwards(S))
  BY <1>1, <1>4, <1>5 DEF Keyed
<1> QED
  BY <1>6, <1>7

DownList(S) == Ordered(S, Downwards(S))

LEMMA DownListed ==
    ASSUME NEW S, Laid(S)
    PROVE  /\ DownList(S) \in Seq(S) /\ Len(DownList(S)) \in Nat
           /\ \A i \in 1..Len(DownList(S)) : DownList(S)[i] \in S
           /\ \A w \in S : \E i \in 1..Len(DownList(S)) : DownList(S)[i] = w
           /\ \A i, j \in 1..Len(DownList(S)) :
                i < j => DownList(S)[i].top <= DownList(S)[j].top
<1> DEFINE key == Downwards(S)
           down == Ordered(S, key)
           N == Len(down)
<1>1. Keyed(S, key)
  BY WordsOrdered
<1>2. /\ N \in Nat /\ down \in Seq(S) /\ N = Cardinality(S)
      /\ \A i \in 1..N : down[i] \in S
      /\ \A w \in S : down[Cardinality(UpTo(S, key, w))] = w
  BY <1>1, OrderedLists
<1>3. \A w \in S : Cardinality(UpTo(S, key, w)) \in 1..N
  BY <1>1, <1>2, PlaceType
<1>4. \A i, j \in 1..N : i < j => key[down[i]] < key[down[j]]
  BY <1>1, <1>2, OrderedRises
<1>5. \A u, v \in S : key[u] < key[v] => u.top <= v.top
  BY WordsOrdered
<1>6. DownList(S) = down
  BY DEF DownList
<1> HIDE DEF key, down
<1>7. \A i, j \in 1..N : i < j => down[i].top <= down[j].top
  BY <1>2, <1>4, <1>5
<1> QED
  BY <1>2, <1>3, <1>6, <1>7

\* Lines of print on their way: an anchor and the words so far.
PrintLine(S) == [top : Nat, words : SUBSET S]

\* The words of one printed line are within its tolerance, from its first.
OnLine(g) == \A w \in g.words : g.top <= w.top /\ w.top <= g.top + LineTolerance

\* Lines one below the other, and the words in them.
Stacked(x) ==
    /\ \A k \in 1..Len(x) : x[k].words # {} /\ OnLine(x[k])
    /\ \A i, j \in 1..Len(x) : i < j => \A u \in x[i].words, v \in x[j].words : u.top < v.top
WordsIn(x) == UNION {x[k].words : k \in 1..Len(x)}

\* A word joins the last line, or begins one.
Continued(x, w, y) ==
    /\ Len(x) # 0 /\ Len(y) = Len(x) /\ w.top <= x[Len(x)].top + LineTolerance
    /\ y[Len(x)].top = x[Len(x)].top /\ y[Len(x)].words = x[Len(x)].words \cup {w}
    /\ \A k \in 1..Len(x) - 1 : y[k] = x[k]
Begun(x, w, y) ==
    /\ Len(y) = Len(x) + 1 /\ (Len(x) # 0 => w.top > x[Len(x)].top + LineTolerance)
    /\ y[Len(x) + 1].top = w.top /\ y[Len(x) + 1].words = {w}
    /\ \A k \in 1..Len(x) : y[k] = x[k]

LEMMA JoinLineIs ==
    ASSUME NEW S, S \subseteq Word, NEW x \in Seq(PrintLine(S)), NEW w \in S
    PROVE  /\ JoinLine(x, w) \in Seq(PrintLine(S))
           /\ Continued(x, w, JoinLine(x, w)) \/ Begun(x, w, JoinLine(x, w))
<1> DEFINE G == PrintLine(S)
<1>1. Len(x) \in Nat /\ \A k \in 1..Len(x) : x[k] \in G
  BY LenProperties
<1>2. w.top \in Nat /\ LineTolerance \in Nat
  BY GeometryAssumption DEF Word
<1>3. CASE x # <<>> /\ w.top <= Last(x).top + LineTolerance
  <2> DEFINE n == Len(x)
             g == [x[n] EXCEPT !.words = @ \cup {w}]
             y == Append(Front(x), g)
  <2>1. n \in Nat \ {0} /\ n \in 1..n
    BY <1>1, <1>3, EmptySeq, LenProperties
  <2>2. x[n] \in G /\ x[n].top \in Nat /\ x[n].words \subseteq S
    BY <1>1, <2>1 DEF PrintLine
  <2>3. JoinLine(x, w) = y /\ w.top <= x[n].top + LineTolerance
    BY <1>3 DEF JoinLine, Last
  <2>4. g \in G /\ g.top = x[n].top /\ g.words = x[n].words \cup {w}
    BY <2>2 DEF PrintLine
  <2> HIDE DEF G
  <2>5. /\ Front(x) \in Seq(G) /\ Len(Front(x)) = n - 1
        /\ \A k \in 1..n - 1 : Front(x)[k] = x[k]
    BY <2>1, FrontOf DEF G
  <2> HIDE DEF n, g
  <2>6. (n - 1) + 1 = n
    BY <2>1
  <2>7. y \in Seq(G) /\ Len(y) = n /\ y[n] = g /\ \A k \in 1..n - 1 : y[k] = x[k]
    BY <2>4, <2>5, <2>6, AppendProperties
  <2> HIDE DEF y
  <2>8. Continued(x, w, y)
    BY <2>1, <2>3, <2>4, <2>7 DEF Continued, n
  <2> QED
    BY <2>3, <2>7, <2>8 DEF G
<1>4. CASE ~(x # <<>> /\ w.top <= Last(x).top + LineTolerance)
  <2> DEFINE n == Len(x)
             g == [top |-> w.top, words |-> {w}]
             y == Append(x, g)
  <2>1. JoinLine(x, w) = y
    BY <1>4 DEF JoinLine
  <2>2. g \in G /\ g.top = w.top /\ g.words = {w}
    BY <1>2 DEF PrintLine
  <2>3. n # 0 => w.top > x[n].top + LineTolerance
    <3>1. n # 0 => x # <<>> /\ n \in 1..n
      BY <1>1, EmptySeq
    <3>2. n # 0 => x[n].top \in Nat
      BY <1>1, <3>1 DEF PrintLine
    <3> QED
      BY <1>2, <1>4, <3>1, <3>2 DEF Last
  <2> HIDE DEF n, g, G
  <2>4. y \in Seq(G) /\ Len(y) = n + 1 /\ y[n + 1] = g /\ \A k \in 1..n : y[k] = x[k]
    BY <2>2, AppendProperties DEF n, G
  <2> HIDE DEF y
  <2>5. Begun(x, w, y)
    BY <2>2, <2>3, <2>4 DEF Begun, n
  <2> QED
    BY <2>1, <2>4, <2>5 DEF G
<1> QED
  BY <1>3, <1>4

\* The next word down leaves the lines below one another.
LEMMA JoinLineStacks ==
    ASSUME NEW S, S \subseteq Word, NEW x \in Seq(PrintLine(S)), NEW w \in S,
           Stacked(x), \A u \in WordsIn(x) : u.top <= w.top
    PROVE  /\ Stacked(JoinLine(x, w)) /\ WordsIn(JoinLine(x, w)) = WordsIn(x) \cup {w}
           /\ \A u \in WordsIn(JoinLine(x, w)) : u.top <= w.top
<1> DEFINE y == JoinLine(x, w)
           n == Len(x)
<1>1. y \in Seq(PrintLine(S)) /\ (Continued(x, w, y) \/ Begun(x, w, y))
  BY JoinLineIs
<1>2. n \in Nat /\ \A k \in 1..n : x[k].top \in Nat /\ x[k].words \subseteq S
  <2>1. n \in Nat /\ \A k \in 1..n : x[k] \in PrintLine(S)
    BY LenProperties
  <2> QED
    BY <2>1 DEF PrintLine
<1>3. LineTolerance \in Nat /\ \A u \in S : u.top \in Nat
  BY GeometryAssumption DEF Word
<1>4. \A k \in 1..n : \A u \in x[k].words : u \in S /\ u.top <= w.top
  BY <1>2 DEF WordsIn
<1> HIDE DEF y
<1>5. CASE Continued(x, w, y)
  <2>1. /\ n # 0 /\ n \in 1..n /\ Len(y) = n /\ w.top <= x[n].top + LineTolerance
        /\ y[n].top = x[n].top /\ y[n].words = x[n].words \cup {w}
        /\ \A k \in 1..n : k # n => y[k] = x[k]
    BY <1>2, <1>5 DEF Continued
  <2>2. PICK v \in x[n].words : TRUE
    BY <2>1 DEF Stacked
  <2>3. x[n].top <= v.top /\ v.top <= w.top /\ v \in S
    BY <1>4, <2>1, <2>2 DEF Stacked, OnLine
  <2>4. x[n].top <= w.top
    BY <1>2, <1>3, <2>1, <2>3
  <2>5. OnLine(y[n]) /\ y[n].words # {}
    BY <2>1, <2>4 DEF Stacked, OnLine
  <2>6. ASSUME NEW i \in 1..n, NEW j \in 1..n, i < j, NEW a \in y[i].words, NEW b \in y[j].words
        PROVE  a.top < b.top
    <3>1. i # n /\ a \in x[i].words /\ a \in S
      BY <1>2, <2>1, <2>6
    <3>2. CASE b \in x[j].words
      BY <2>6, <3>1, <3>2 DEF Stacked
    <3>3. CASE b \notin x[j].words
      <4>1. j = n /\ b = w
        BY <2>1, <2>6, <3>3
      <4>2. a.top < v.top
        BY <2>1, <2>2, <2>6, <3>1, <4>1 DEF Stacked
      <4> QED
        BY <1>3, <2>3, <3>1, <4>1, <4>2
    <3> QED
      BY <3>2, <3>3
  <2>7. Stacked(y)
    BY <2>1, <2>5, <2>6 DEF Stacked
  <2>8. WordsIn(y) = WordsIn(x) \cup {w}
    BY <2>1 DEF WordsIn
  <2> QED
    BY <1>3, <2>7, <2>8 DEF y
<1>6. CASE Begun(x, w, y)
  <2>1. /\ Len(y) = n + 1 /\ (n # 0 => w.top > x[n].top + LineTolerance)
        /\ y[n + 1].top = w.top /\ y[n + 1].words = {w}
        /\ \A k \in 1..n : y[k] = x[k]
    BY <1>6 DEF Begun
  <2>2. \A k \in 1..n + 1 : k = n + 1 \/ k \in 1..n
    BY <1>2
  <2>3. OnLine(y[n + 1]) /\ y[n + 1].words # {}
    BY <1>3, <2>1 DEF OnLine
  <2>4. ASSUME NEW k \in 1..n, NEW a \in x[k].words PROVE a.top < w.top
    <3>1. n \in 1..n /\ w.top > x[n].top + LineTolerance /\ x[n].top \in Nat /\ a \in S
      BY <1>2, <1>4, <2>1
    <3>2. PICK v \in x[n].words : TRUE
      BY <3>1 DEF Stacked
    <3>3. v.top <= x[n].top + LineTolerance /\ v \in S
      BY <1>4, <3>1, <3>2 DEF Stacked, OnLine
    <3>4. CASE k = n
      <4>1. a.top <= x[n].top + LineTolerance
        BY <3>1, <3>4 DEF Stacked, OnLine
      <4> QED
        BY <1>3, <3>1, <4>1
    <3>5. CASE k # n
      <4>1. a.top < v.top
        BY <1>2, <3>1, <3>2, <3>5 DEF Stacked
      <4> QED
        BY <1>3, <3>1, <3>3, <4>1
    <3> QED
      BY <3>4, <3>5
  <2>5. ASSUME NEW i \in 1..n + 1, NEW j \in 1..n + 1, i < j, NEW a \in y[i].words, NEW b \in y[j].words
        PROVE  a.top < b.top
    <3>1. i \in 1..n /\ a \in x[i].words
      BY <1>2, <2>1, <2>5
    <3>2. CASE j = n + 1
      BY <2>1, <2>4, <2>5, <3>1, <3>2
    <3>3. CASE j \in 1..n
      BY <2>1, <2>5, <3>1, <3>3 DEF Stacked
    <3> QED
      BY <2>2, <3>2, <3>3
  <2>6. Stacked(y)
    BY <2>1, <2>2, <2>3, <2>5 DEF Stacked
  <2>7. WordsIn(y) = WordsIn(x) \cup {w}
    <3>1. \A k \in 1..n : k \in 1..n + 1
      BY <1>2
    <3>2. n + 1 \in 1..n + 1
      BY <1>2
    <3> QED
      BY <2>1, <2>2, <3>1, <3>2 DEF WordsIn
  <2> QED
    BY <1>3, <2>6, <2>7 DEF y
<1> QED
  BY <1>1, <1>5, <1>6

\* Lines is what joining the words one after the other comes to.
LEMMA LinesRun ==
    ASSUME NEW S, Laid(S)
    PROVE  \E f \in [0..Len(DownList(S)) -> Seq(PrintLine(S))] :
             /\ f[0] = <<>>
             /\ \A n \in 1..Len(DownList(S)) : f[n] = JoinLine(f[n - 1], DownList(S)[n])
             /\ Lines(S) = [i \in DOMAIN f[Len(DownList(S))] |->
                              LeftToRight(f[Len(DownList(S))][i].words)]
<1> DEFINE down == DownList(S)
           N == Len(down)
           GG == Seq(PrintLine(S))
           step == [i \in 1..N |-> [x \in GG |-> JoinLine(x, down[i])]]
           Body1(f) == [n \in 0..N |-> IF n = 0 THEN <<>> ELSE JoinLine(f[n - 1], down[n])]
           joined == CHOOSE f : f = Body1(f)
<1>1. N \in Nat /\ \A i \in 1..N : down[i] \in S
  BY DownListed
<1>2. Lines(S) = [i \in DOMAIN joined[N] |-> LeftToRight(joined[N][i].words)]
  BY DEF Lines, DownList, Downwards
<1>3. S \subseteq Word
  BY DEF Laid
<1> HIDE DEF down, N
<1>4. ASSUME NEW x \in GG, NEW w \in S PROVE JoinLine(x, w) \in GG
  BY <1>3, JoinLineIs
<1>5. <<>> \in GG
  OBVIOUS
<1> HIDE DEF GG
<1>6. \E f : f = Body1(f)
  <2>1. step \in [1..N -> [GG -> GG]]
    BY <1>1, <1>4
  <2> HIDE DEF step
  <2>2. PICK f \in [0..N -> GG] : Runs(f, N, <<>>, step)
    BY <1>1, <1>5, <2>1, Recursion
  <2>3. ASSUME NEW n \in 0..N PROVE f[n] = IF n = 0 THEN <<>> ELSE JoinLine(f[n - 1], down[n])
    <3>1. CASE n = 0
      BY <2>2, <3>1 DEF Runs
    <3>2. CASE n # 0
      <4>1. n \in 1..N /\ n - 1 \in 0..N
        BY <1>1, <3>2
      <4>2. f[n] = step[n][f[n - 1]] /\ f[n - 1] \in GG
        BY <2>2, <4>1 DEF Runs
      <4>3. step[n][f[n - 1]] = JoinLine(f[n - 1], down[n])
        BY <4>1, <4>2 DEF step
      <4> QED
        BY <3>2, <4>2, <4>3
    <3> QED
      BY <3>1, <3>2
  <2>4. f = Body1(f)
    BY <2>3
  <2> QED
    BY <2>4
<1>7. joined = Body1(joined)
  BY <1>6
<1> HIDE DEF joined
<1>8. \A n \in 0..N : joined[n] = IF n = 0 THEN <<>> ELSE JoinLine(joined[n - 1], down[n])
  BY <1>7
<1>9. joined[0] = <<>> /\ \A n \in 1..N : joined[n] = JoinLine(joined[n - 1], down[n])
  BY <1>1, <1>8
<1> DEFINE P == {n \in 0..N : joined[n] \in GG}
<1>10. 0 \in P
  BY <1>1, <1>5, <1>9
<1>11. \A n \in 1..N : n - 1 \in P => n \in P
  BY <1>1, <1>4, <1>9
<1> HIDE DEF P
<1>12. \A n \in 0..N : n \in P
  BY <1>1, <1>10, <1>11, Induction
<1>13. joined \in [0..N -> GG]
  <2>1. \A n \in 0..N : joined[n] \in GG
    BY <1>12 DEF P
  <2> HIDE DEF Body1
  <2>2. joined = [n \in 0..N |-> joined[n]]
    BY <1>7 DEF Body1
  <2> QED
    BY <2>1, <2>2
<1> QED
  BY <1>2, <1>9, <1>13 DEF N, down, GG

\* The words of a line from left to right, one of them at least.
Rising(line) ==
    /\ Len(line) \in Nat /\ Len(line) # 0
    /\ \A i, j \in 1..Len(line) : i < j => line[i].x0 < line[j].x0

\* Words that are level, with no two at one place, are listed from left to right.
LEMMA LevelLine ==
    ASSUME NEW S, Laid(S), NEW T \in SUBSET S, T # {},
           \A u, v \in T : Distance(u.top, v.top) <= LineTolerance
    PROVE  LeftToRight(T) \in Seq(T) /\ Rising(LeftToRight(T)) /\ Range(LeftToRight(T)) = T
<1> DEFINE left == [w \in T |-> w.x0]
           s == Ordered(T, left)
           n == Len(s)
<1>1. Laid(T)
  BY LaidSome
<1>2. Keyed(T, left)
  <2>1. left \in [T -> Int] /\ IsFiniteSet(T)
    BY <1>1 DEF Laid, Word
  <2>2. \A w \in T : left[w] = w.x0
    OBVIOUS
  <2> HIDE DEF left
  <2>3. \A u, v \in T : left[u] = left[v] => u = v
    BY <1>1, <2>2 DEF Laid
  <2> QED
    BY <2>1, <2>3 DEF Keyed
<1>3. LeftToRight(T) = s
  BY DEF LeftToRight
<1>4. \A w \in T : left[w] = w.x0
  OBVIOUS
<1> HIDE DEF left
<1>5. /\ n \in Nat /\ s \in Seq(T) /\ n = Cardinality(T)
      /\ \A i \in 1..n : s[i] \in T
      /\ \A w \in T : s[Cardinality(UpTo(T, left, w))] = w
  BY <1>2, OrderedLists
<1>6. \A w \in T : Cardinality(UpTo(T, left, w)) \in 1..n
  BY <1>2, <1>5, PlaceType
<1>7. \A i, j \in 1..n : i < j => left[s[i]] < left[s[j]]
  BY <1>2, <1>5, OrderedRises
<1> HIDE DEF s
<1>8. n # 0
  BY <1>5, <1>6
<1>9. Rising(s)
  BY <1>4, <1>5, <1>7, <1>8 DEF Rising
<1>10. Range(s) = T
  <2>1. Range(s) = {s[i] : i \in 1..n}
    BY <1>5, Places1
  <2> QED
    BY <1>5, <1>6, <2>1
<1> QED
  BY <1>3, <1>5, <1>9, <1>10

\* Each line is level, the next one is below it, and no word is left out.
LEMMA LinesHold ==
    ASSUME NEW S, Laid(S)
    PROVE  /\ Lines(S) \in Seq(Seq(S)) /\ Len(Lines(S)) \in Nat
           /\ \A i \in 1..Len(Lines(S)) :
                /\ Lines(S)[i] \in Seq(S) /\ Rising(Lines(S)[i])
                /\ \A u, v \in Range(Lines(S)[i]) : Distance(u.top, v.top) <= LineTolerance
           /\ \A i, j \in 1..Len(Lines(S)) : i < j =>
                \A u \in Range(Lines(S)[i]), v \in Range(Lines(S)[j]) : u.top < v.top
           /\ UNION {Range(Lines(S)[i]) : i \in 1..Len(Lines(S))} = S
<1> DEFINE down == DownList(S)
           N == Len(down)
           GG == Seq(PrintLine(S))
<1>1. /\ N \in Nat /\ \A i \in 1..N : down[i] \in S
      /\ \A w \in S : \E i \in 1..N : down[i] = w
      /\ \A i, j \in 1..N : i < j => down[i].top <= down[j].top
  BY DownListed
<1>2. S \subseteq Word /\ \A u \in S : u.top \in Nat
  BY DEF Laid, Word
<1>3. PICK f \in [0..N -> GG] :
        /\ f[0] = <<>>
        /\ \A n \in 1..N : f[n] = JoinLine(f[n - 1], down[n])
        /\ Lines(S) = [i \in DOMAIN f[N] |-> LeftToRight(f[N][i].words)]
  BY LinesRun
<1> HIDE DEF down, N
<1> DEFINE P == {n \in 0..N : Stacked(f[n]) /\ WordsIn(f[n]) = {down[i] : i \in 1..n}}
<1>4. 0 \in P
  <2>1. Len(f[0]) = 0
    BY <1>3
  <2>2. Stacked(f[0]) /\ WordsIn(f[0]) = {}
    BY <2>1 DEF Stacked, WordsIn
  <2> QED
    BY <1>1, <2>2
<1>5. ASSUME NEW n \in 1..N, n - 1 \in P PROVE n \in P
  <2> DEFINE x == f[n - 1]
             w == down[n]
  <2>1. /\ x \in GG /\ Stacked(x) /\ WordsIn(x) = {down[i] : i \in 1..n - 1} /\ w \in S
        /\ f[n] = JoinLine(x, w)
    BY <1>1, <1>3, <1>5
  <2>2. \A i \in 1..n - 1 : i \in 1..N /\ i < n
    BY <1>1
  <2>3. \A u \in WordsIn(x) : u.top <= w.top
    BY <1>1, <2>1, <2>2
  <2> HIDE DEF x, w
  <2>4. Stacked(f[n]) /\ WordsIn(f[n]) = WordsIn(x) \cup {w}
    BY <1>2, <2>1, <2>3, JoinLineStacks
  <2>5. {down[i] : i \in 1..n} = {down[i] : i \in 1..n - 1} \cup {down[n]}
    <3>1. \A i : i \in 1..n <=> i \in 1..n - 1 \/ i = n
      BY <1>1
    <3> QED
      BY <3>1
  <2>6. n \in 0..N
    BY <1>1
  <2>7. WordsIn(f[n]) = {down[i] : i \in 1..n}
    BY ONLY <2>1, <2>4, <2>5 DEF w
  <2> QED
    BY ONLY <2>4, <2>6, <2>7
<1>6. \A n \in 1..N : n - 1 \in P => n \in P
  BY <1>5
<1>7. N \in P
  <2> HIDE DEF P
  <2>1. \A n \in 0..N : n \in P
    BY <1>1, <1>4, <1>6, Induction
  <2> QED
    BY <1>1, <2>1
<1> DEFINE x == f[N]
           m == Len(x)
<1>8. x \in GG /\ Stacked(x) /\ WordsIn(x) = S
  BY <1>1, <1>7
<1>9. Lines(S) = [i \in DOMAIN x |-> LeftToRight(x[i].words)]
  BY <1>3
<1> HIDE DEF x
<1>10. m \in Nat /\ DOMAIN x = 1..m /\ \A i \in 1..m : x[i] \in PrintLine(S)
  BY <1>8, LenProperties
<1>11. ASSUME NEW i \in 1..m
       PROVE  /\ x[i].words \in SUBSET S /\ x[i].words # {}
              /\ \A u, v \in x[i].words : Distance(u.top, v.top) <= LineTolerance
  <2>1. x[i].words \in SUBSET S /\ x[i].top \in Nat
    BY <1>10 DEF PrintLine
  <2>2. x[i].words # {} /\ OnLine(x[i])
    BY <1>8 DEF Stacked
  <2>3. ASSUME NEW u \in x[i].words, NEW v \in x[i].words PROVE Distance(u.top, v.top) <= LineTolerance
    <3>1. /\ x[i].top <= u.top /\ u.top <= x[i].top + LineTolerance /\ u.top \in Nat
          /\ x[i].top <= v.top /\ v.top <= x[i].top + LineTolerance /\ v.top \in Nat
      BY <1>2, <2>1, <2>2 DEF OnLine
    <3> QED
      BY <2>1, <3>1, GeometryAssumption DEF Distance
  <2> QED
    BY <2>1, <2>2, <2>3
<1> DEFINE line(i) == LeftToRight(x[i].words)
<1>12. ASSUME NEW i \in 1..m
       PROVE  line(i) \in Seq(S) /\ Rising(line(i)) /\ Range(line(i)) = x[i].words
  <2> DEFINE T == x[i].words
  <2>1. T \in SUBSET S /\ T # {} /\ \A u, v \in T : Distance(u.top, v.top) <= LineTolerance
    BY <1>11
  <2> HIDE DEF T
  <2>2. LeftToRight(T) \in Seq(T) /\ Rising(LeftToRight(T)) /\ Range(LeftToRight(T)) = T
    BY <2>1, LevelLine
  <2>3. LeftToRight(T) \in Seq(S)
    BY <2>1, <2>2, SeqMonotonic
  <2> QED
    BY <2>2, <2>3 DEF T
<1>13. Lines(S) = [i \in 1..m |-> line(i)]
  BY <1>9, <1>10
<1> HIDE DEF line, m
<1>14. Lines(S) \in Seq(Seq(S)) /\ Len(Lines(S)) = m /\ \A i \in 1..m : Lines(S)[i] = line(i)
  <2>1. Lines(S) \in [1..m -> Seq(S)]
    BY <1>12, <1>13
  <2> QED
    BY <1>10, <1>13, <2>1
<1>15. \A i, j \in 1..m : i < j => \A u \in x[i].words, v \in x[j].words : u.top < v.top
  BY <1>8 DEF Stacked, m
<1>16. UNION {x[i].words : i \in 1..m} = S
  BY <1>8 DEF WordsIn, m
<1>17. UNION {Range(Lines(S)[i]) : i \in 1..m} = S
  BY <1>12, <1>14, <1>16
<1>18. ASSUME NEW i \in 1..m
       PROVE  /\ Lines(S)[i] \in Seq(S) /\ Rising(Lines(S)[i]) /\ Range(Lines(S)[i]) = x[i].words
              /\ \A u, v \in Range(Lines(S)[i]) : Distance(u.top, v.top) <= LineTolerance
  BY <1>11, <1>12, <1>14
<1>19. \A i, j \in 1..m : i < j =>
         \A u \in Range(Lines(S)[i]), v \in Range(Lines(S)[j]) : u.top < v.top
  BY <1>15, <1>18
<1> HIDE DEF x
<1> QED
  BY <1>10, <1>14, <1>17, <1>18, <1>19

LEMMA LinesType == ASSUME NEW S, Laid(S) PROVE Lines(S) \in Seq(Seq(S))
BY LinesHold

PageLine(S) == [kind : {"body", "blank", "row", "rule"}, words : Seq(S)]

LEMMA MaxOfTwo ==
    ASSUME NEW a \in Nat, NEW b \in Nat
    PROVE  /\ Max({a, b}) \in {a, b} /\ Max({a, b}) \in Nat
           /\ a <= Max({a, b}) /\ b <= Max({a, b})
<1>1. IsFiniteSet({a, b})
  <2>1. IsFiniteSet(0..a + b)
    BY FS_Interval
  <2>2. {a, b} \in SUBSET (0..a + b)
    OBVIOUS
  <2> QED
    BY <2>1, <2>2, FS_Subset
<1>2. {a, b} \subseteq Int /\ {a, b} # {}
  OBVIOUS
<1>3. Max({a, b}) \in {a, b} /\ \A x \in {a, b} : x <= Max({a, b})
  BY <1>1, <1>2, GreatestOf
<1> QED
  BY <1>3

LEMMA MinOfTwo ==
    ASSUME NEW a \in Nat, NEW b \in Nat
    PROVE  /\ Min({a, b}) \in {a, b} /\ Min({a, b}) \in Nat
           /\ a >= Min({a, b}) /\ b >= Min({a, b})
<1>1. IsFiniteSet({a, b})
  <2>1. IsFiniteSet(0..a + b)
    BY FS_Interval
  <2>2. {a, b} \in SUBSET (0..a + b)
    OBVIOUS
  <2> QED
    BY <2>1, <2>2, FS_Subset
<1>2. {a, b} \subseteq Int /\ {a, b} # {}
  OBVIOUS
<1>3. Min({a, b}) \in {a, b} /\ \A x \in {a, b} : x >= Min({a, b})
  BY <1>1, <1>2, LeastOf
<1> QED
  BY <1>3

Gap == Nat \X Nat

LEMMA WidestType ==
    ASSUME NEW gs \in SUBSET Gap, IsFiniteSet(gs)
    PROVE  /\ Widest(gs) \in Gap \cup {NoGutter}
           /\ IF gs = {} THEN Widest(gs) = NoGutter ELSE Widest(gs) \in gs
<1>1. CASE gs = {}
  BY <1>1 DEF Widest
<1>2. CASE gs # {}
  <2> DEFINE width == [g \in gs |-> g[2] - g[1]]
             widths == {width[g] : g \in gs}
  <2>1. \A g \in gs : g[1] \in Nat /\ g[2] \in Nat /\ width[g] = g[2] - g[1] /\ width[g] \in Int
    BY DEF Gap
  <2>2. DOMAIN width = gs /\ width = [g \in gs |-> width[g]]
    OBVIOUS
  <2> HIDE DEF width
  <2>3. IsFiniteSet(widths) /\ widths \subseteq Int /\ widths # {}
    BY <1>2, <2>1, <2>2, FiniteImage
  <2>4. PICK w \in widths : \A v \in widths : v <= w
    <3> HIDE DEF widths
    <3> QED
      BY <2>3, GreatestNumber
  <2> DEFINE widest == {g \in gs : width[g] = w}
             left == [g \in widest |-> g[1]]
             lefts == {left[g] : g \in widest}
  <2>5. IsFiniteSet(widest) /\ widest # {} /\ \A g \in widest : g[1] \in Int /\ left[g] = g[1]
    BY <2>1, <2>4, FS_Subset
  <2>6. DOMAIN left = widest /\ left = [g \in widest |-> left[g]]
    OBVIOUS
  <2> HIDE DEF left, widest
  <2>7. IsFiniteSet(lefts) /\ lefts \subseteq Int /\ lefts # {}
    BY <2>5, <2>6, FiniteImage
  <2>8. PICK a \in lefts : \A b \in lefts : a <= b
    <3> HIDE DEF lefts
    <3> QED
      BY <2>7, LeastNumber
  <2>9. PICK g \in widest : left[g] = a
    BY <2>8
  <2>10. g \in gs /\ width[g] = w
    BY <2>9 DEF widest
  <2>11. ASSUME NEW h \in gs
         PROVE  \/ g[2] - g[1] > h[2] - h[1]
                \/ g[2] - g[1] = h[2] - h[1] /\ g[1] <= h[1]
    <3>1. width[h] <= w /\ width[h] \in Int /\ w \in Int
      BY <2>1, <2>3, <2>4
    <3>2. CASE width[h] = w
      <4>1. h \in widest
        BY <3>2 DEF widest
      <4>2. g[1] <= h[1]
        BY <2>5, <2>8, <2>9, <4>1
      <4> QED
        BY <2>1, <2>10, <3>2, <4>2
    <3>3. CASE width[h] # w
      BY <2>1, <2>10, <3>1, <3>3
    <3> QED
      BY <3>2, <3>3
  <2>12. \E x \in gs : \A h \in gs : \/ x[2] - x[1] > h[2] - h[1]
                                     \/ x[2] - x[1] = h[2] - h[1] /\ x[1] <= h[1]
    BY <2>10, <2>11
  <2>13. Widest(gs) \in gs
    BY <1>2, <2>12 DEF Widest
  <2> QED
    BY <1>2, <2>13
<1> QED
  BY <1>1, <1>2

LEMMA GuttersType ==
    ASSUME NEW S, S \subseteq Word, NEW line \in Seq(S)
    PROVE  Gutters(line) \in SUBSET Gap /\ IsFiniteSet(Gutters(line))
<1> DEFINE n == Len(line)
           I == {j \in 1..n - 1 : line[j + 1].x0 >= line[j].x1 + MinGutter}
           f == [i \in I |-> <<line[i].x1, line[i + 1].x0>>]
<1>1. n \in Nat /\ \A i \in 1..n : line[i] \in S
  BY LenProperties
<1>2. \A i \in I : i \in 1..n /\ i + 1 \in 1..n
  BY <1>1
<1>3. Gutters(line) = {f[i] : i \in I}
  BY DEF Gutters
<1>4. \A i \in 1..n : line[i].x0 \in Nat /\ line[i].x1 \in Nat
  BY <1>1 DEF Word
<1>5. Gutters(line) \in SUBSET Gap
  BY <1>2, <1>4 DEF Gutters, Gap
<1>6. IsFiniteSet(I)
  <2>1. I \in SUBSET (1..n - 1) /\ IsFiniteSet(1..n - 1)
    BY <1>1, FS_Interval
  <2> QED
    BY <2>1, FS_Subset
<1>7. DOMAIN f = I /\ f = [i \in I |-> f[i]]
  OBVIOUS
<1> HIDE DEF f, I, n
<1>8. IsFiniteSet(Gutters(line))
  BY <1>3, <1>6, <1>7, FiniteImage
<1> QED
  BY <1>5, <1>8

LEMMA NarrowType ==
    ASSUME NEW gutter \in Gap, NEW gs \in SUBSET Gap, IsFiniteSet(gs)
    PROVE  /\ Narrow(gutter, gs) \in Gap \cup {NoGutter}
           /\ Narrow(gutter, gs) # NoGutter =>
                /\ Narrow(gutter, gs)[1] < Narrow(gutter, gs)[2]
                /\ gutter[1] <= Narrow(gutter, gs)[1] /\ Narrow(gutter, gs)[2] <= gutter[2]
                /\ \E h \in gs : h[1] <= Narrow(gutter, gs)[1] /\ Narrow(gutter, gs)[2] <= h[2]
<1> DEFINE f == [h \in gs |-> <<Max({gutter[1], h[1]}), Min({gutter[2], h[2]})>>]
           both == {f[h] : h \in gs}
           open == {g \in both : g[1] < g[2]}
<1>1. ASSUME NEW h \in gs
      PROVE  /\ f[h] \in Gap
             /\ gutter[1] <= f[h][1] /\ h[1] <= f[h][1] /\ f[h][2] <= gutter[2] /\ f[h][2] <= h[2]
  <2>1. gutter[1] \in Nat /\ gutter[2] \in Nat /\ h[1] \in Nat /\ h[2] \in Nat
    BY DEF Gap
  <2> DEFINE l == Max({gutter[1], h[1]})
             r == Min({gutter[2], h[2]})
  <2>2. l \in Nat /\ gutter[1] <= l /\ h[1] <= l
    BY <2>1, MaxOfTwo
  <2>3. r \in Nat /\ gutter[2] >= r /\ h[2] >= r
    BY <2>1, MinOfTwo
  <2>4. f[h] = <<l, r>>
    OBVIOUS
  <2> HIDE DEF l, r
  <2> QED
    BY <2>1, <2>2, <2>3, <2>4 DEF Gap
<1>2. both = {<<Max({gutter[1], h[1]}), Min({gutter[2], h[2]})>> : h \in gs}
  OBVIOUS
<1>3. DOMAIN f = gs /\ f = [h \in gs |-> f[h]]
  OBVIOUS
<1> HIDE DEF f
<1>4. IsFiniteSet(both) /\ both \subseteq Gap
  BY <1>1, <1>3, FiniteImage
<1>5. Narrow(gutter, gs) = Widest(open)
  BY <1>2 DEF Narrow
<1>6. open \in SUBSET Gap /\ IsFiniteSet(open)
  <2> HIDE DEF both
  <2> QED
    BY <1>4, FS_Subset
<1>7. \A g \in open : g[1] < g[2] /\ \E h \in gs : g = f[h]
  OBVIOUS
<1> HIDE DEF both, open
<1>8. /\ Widest(open) \in Gap \cup {NoGutter}
      /\ Widest(open) # NoGutter => Widest(open) \in open
  BY <1>6, WidestType
<1>9. ASSUME Narrow(gutter, gs) # NoGutter
      PROVE  /\ Narrow(gutter, gs)[1] < Narrow(gutter, gs)[2]
             /\ gutter[1] <= Narrow(gutter, gs)[1] /\ Narrow(gutter, gs)[2] <= gutter[2]
             /\ \E h \in gs : h[1] <= Narrow(gutter, gs)[1] /\ Narrow(gutter, gs)[2] <= h[2]
  <2> DEFINE g == Narrow(gutter, gs)
  <2>1. g \in open
    BY <1>5, <1>8, <1>9
  <2> HIDE DEF g
  <2>2. g[1] < g[2]
    BY <1>7, <2>1
  <2>3. PICK h \in gs : g = f[h]
    BY <1>7, <2>1
  <2> QED
    BY <1>1, <2>2, <2>3 DEF g
<1> QED
  BY <1>5, <1>8, <1>9

LEMMA ApartType ==
    ASSUME NEW S, NEW parts \in Seq(Seq(PageLine(S)))
    PROVE  Apart(parts) \in Seq(PageLine(S))
<1> DEFINE L == PageLine(S)
           I == {i \in DOMAIN parts : parts[i] # <<>>}
           solid == Picked(parts, I)
           joined == [i \in DOMAIN solid |-> (IF i = 1 THEN <<>> ELSE <<BlankLine>>) \o solid[i]]
<1>1. BlankLine \in L
  BY DEF BlankLine, PageLine
<1>2. Apart(parts) = FlattenSeq(joined)
  BY DEF Apart
<1> HIDE DEF L
<1>3. solid \in Seq(Seq(L))
  <2>1. I \in SUBSET DOMAIN parts
    OBVIOUS
  <2> HIDE DEF I
  <2> QED
    BY <2>1, PickedFrom DEF L
<1> HIDE DEF solid
<1>4. Len(solid) \in Nat /\ DOMAIN solid = 1..Len(solid) /\ \A i \in 1..Len(solid) : solid[i] \in Seq(L)
  BY <1>3, Places1
<1>5. ASSUME NEW i \in 1..Len(solid)
      PROVE  (IF i = 1 THEN <<>> ELSE <<BlankLine>>) \o solid[i] \in Seq(L)
  <2>1. <<BlankLine>> \in Seq(L) /\ <<>> \in Seq(L)
    BY <1>1
  <2>2. (IF i = 1 THEN <<>> ELSE <<BlankLine>>) \in Seq(L)
    BY <2>1
  <2> QED
    BY <1>4, <2>2, ConcatProperties
<1>6. joined \in [1..Len(solid) -> Seq(L)]
  BY <1>4, <1>5
<1>7. joined \in Seq(Seq(L))
  BY <1>4, <1>6
<1> HIDE DEF joined
<1> QED
  BY <1>2, <1>7, FlattenOf DEF L

Band(S) == [lines : Seq(Seq(S)), gutter : Gap \cup {NoGutter}, agreed : Nat]

LEMMA RenderedType ==
    ASSUME NEW S, NEW b \in Band(S)
    PROVE  Rendered(b) \in Seq(PageLine(S))
<1> DEFINE L == PageLine(S)
<1>1. ASSUME NEW words \in Seq(S) PROVE Body(words) \in L
  BY DEF Body, PageLine
<1>2. ASSUME NEW ls \in Seq(Seq(S)) PROVE [i \in DOMAIN ls |-> Body(ls[i])] \in Seq(L)
  <2>1. Len(ls) \in Nat /\ DOMAIN ls = 1..Len(ls) /\ \A i \in 1..Len(ls) : ls[i] \in Seq(S)
    BY Places1
  <2> HIDE DEF L
  <2>2. [i \in DOMAIN ls |-> Body(ls[i])] \in [1..Len(ls) -> L]
    BY <1>1, <2>1
  <2> QED
    BY <2>1, <2>2
<1>3. b.lines \in Seq(Seq(S))
  BY DEF Band
<1>4. CASE b.gutter = NoGutter \/ b.agreed < MinColumnLines
  BY <1>2, <1>3, <1>4 DEF Rendered
<1>5. CASE ~(b.gutter = NoGutter \/ b.agreed < MinColumnLines)
  <2> DEFINE Side(line, left) ==
               {j \in DOMAIN line : IF left THEN line[j].x0 < b.gutter[2]
                                    ELSE line[j].x0 >= b.gutter[2]}
             Taken(left) == Picked(b.lines, {i \in DOMAIN b.lines : Side(b.lines[i], left) # {}})
             Column(left) == [i \in DOMAIN Taken(left) |->
                                Body(Picked(Taken(left)[i], Side(Taken(left)[i], left)))]
  <2>1. Rendered(b) = Apart(<<Column(TRUE), Column(FALSE)>>)
    BY <1>5 DEF Rendered
  <2>2. \A line, left : Side(line, left) \in SUBSET DOMAIN line
    OBVIOUS
  <2> HIDE DEF Side
  <2>3. ASSUME NEW left \in BOOLEAN PROVE Column(left) \in Seq(L)
    <3> DEFINE I == {i \in DOMAIN b.lines : Side(b.lines[i], left) # {}}
               T == Taken(left)
    <3>1. I \in SUBSET DOMAIN b.lines /\ T = Picked(b.lines, I)
      OBVIOUS
    <3> HIDE DEF I, T
    <3>2. T \in Seq(Seq(S))
      BY <1>3, <3>1, PickedFrom
    <3>3. Len(T) \in Nat /\ DOMAIN T = 1..Len(T) /\ \A i \in 1..Len(T) : T[i] \in Seq(S)
      BY <3>2, Places1
    <3>4. \A i \in 1..Len(T) : Picked(T[i], Side(T[i], left)) \in Seq(S)
      BY <2>2, <3>3, PickedFrom
    <3> HIDE DEF L
    <3>5. [i \in 1..Len(T) |-> Body(Picked(T[i], Side(T[i], left)))] \in [1..Len(T) -> L]
      BY <1>1, <3>4
    <3>6. Column(left) = [i \in 1..Len(T) |-> Body(Picked(T[i], Side(T[i], left)))]
      BY <3>3 DEF T
    <3> HIDE DEF Column
    <3>7. Column(left) \in [1..Len(T) -> L]
      BY <3>5, <3>6
    <3> QED
      BY <3>3, <3>7
  <2> HIDE DEF Column, L
  <2>4. <<Column(TRUE), Column(FALSE)>> \in Seq(Seq(L))
    <3>1. Column(TRUE) \in Seq(L) /\ Column(FALSE) \in Seq(L)
      BY <2>3
    <3> DEFINE X == Seq(L)
               c == Column(TRUE)
               d == Column(FALSE)
    <3>2. c \in X /\ d \in X
      BY <3>1
    <3> HIDE DEF X, c, d
    <3>3. <<c, d>> \in Seq(X)
      BY <3>2
    <3> QED
      BY <3>3 DEF X, c, d
  <2> QED
    BY <2>1, <2>4, ApartType DEF L
<1> QED
  BY <1>4, <1>5

LEMMA JoinBandType ==
    ASSUME NEW S, S \subseteq Word, NEW s \in Seq(Band(S)) \X Band(S), NEW line \in Seq(S)
    PROVE  JoinBand(s, line) \in Seq(Band(S)) \X Band(S)
<1> DEFINE B == Band(S)
           b == s[2]
           gs == Gutters(line)
           longer == [b EXCEPT !.lines = Append(@, line)]
           closed == <<IF b.lines = <<>> THEN s[1] ELSE Append(s[1], b), NewBand(line)>>
           narrowed == Narrow(b.gutter, gs)
           more == [longer EXCEPT !.gutter = narrowed, !.agreed = @ + 1]
<1>1. b \in B /\ s[1] \in Seq(B) /\ s = <<s[1], s[2]>>
  OBVIOUS
<1>2. b.lines \in Seq(Seq(S)) /\ b.gutter \in Gap \cup {NoGutter} /\ b.agreed \in Nat
  BY <1>1 DEF Band
<1>3. gs \in SUBSET Gap /\ IsFiniteSet(gs)
  BY GuttersType
<1>4. Append(b.lines, line) \in Seq(Seq(S))
  BY <1>2, AppendProperties
<1>5. longer \in B
  <2>1. longer = [b EXCEPT !.lines = Append(b.lines, line)]
    OBVIOUS
  <2> QED
    BY <1>1, <1>4, <2>1 DEF Band
<1>6. NewBand(line) \in B
  <2>1. Widest(gs) \in Gap \cup {NoGutter}
    BY <1>3, WidestType
  <2>2. <<line>> \in Seq(Seq(S))
    OBVIOUS
  <2> QED
    BY <2>1, <2>2 DEF NewBand, Band
<1>7. closed \in Seq(B) \X B
  <2>1. Append(s[1], b) \in Seq(B)
    BY <1>1, AppendProperties
  <2> HIDE DEF B
  <2> QED
    BY <1>1, <1>6, <2>1
<1>8. ASSUME b.gutter # NoGutter PROVE more \in B
  <2>1. narrowed \in Gap \cup {NoGutter}
    BY <1>2, <1>3, <1>8, NarrowType
  <2>2. longer.agreed \in Nat
    BY <1>5 DEF Band
  <2>3. more = [longer EXCEPT !.gutter = narrowed, !.agreed = longer.agreed + 1]
    OBVIOUS
  <2>4. longer.agreed + 1 \in Nat
    BY <2>2
  <2> HIDE DEF longer, narrowed, more
  <2> QED
    BY <1>5, <2>1, <2>3, <2>4 DEF Band
<1>9. JoinBand(s, line) =
        CASE b.gutter = NoGutter -> IF gs = {} THEN <<s[1], longer>> ELSE closed
          [] b.gutter # NoGutter /\ narrowed # NoGutter -> <<s[1], more>>
          [] b.gutter # NoGutter /\ narrowed = NoGutter ->
               IF RightEnd(line) <= b.gutter[1] \/ LeftEnd(line) >= b.gutter[2]
               THEN <<s[1], longer>> ELSE closed
  BY DEF JoinBand
<1> HIDE DEF b, gs, longer, closed, narrowed, more, B
<1>10. <<s[1], longer>> \in Seq(B) \X B
  BY <1>1, <1>5
<1>11. b.gutter # NoGutter => <<s[1], more>> \in Seq(B) \X B
  BY <1>1, <1>8
<1>12. CASE b.gutter = NoGutter
  BY <1>7, <1>9, <1>10, <1>12 DEF B
<1>13. CASE b.gutter # NoGutter /\ narrowed # NoGutter
  BY <1>9, <1>11, <1>13 DEF B
<1>14. CASE b.gutter # NoGutter /\ narrowed = NoGutter
  BY <1>7, <1>9, <1>10, <1>14 DEF B
<1> QED
  BY <1>12, <1>13, <1>14

\* All the bands, the open one last.
Bands(s) == IF s[2].lines = <<>> THEN s[1] ELSE Append(s[1], s[2])

\* Segments is what joining the lines one after the other comes to.
LEMMA SegmentsRun ==
    ASSUME NEW S, Laid(S)
    PROVE  \E f \in [0..Len(Lines(S)) -> Seq(Band(S)) \X Band(S)] :
             /\ f[0] = <<<<>>, NoBand>>
             /\ \A n \in 1..Len(Lines(S)) : f[n] = JoinBand(f[n - 1], Lines(S)[n])
             /\ Segments(S) = [i \in DOMAIN Bands(f[Len(Lines(S))]) |->
                                 Rendered(Bands(f[Len(Lines(S))])[i])]
<1> DEFINE lines == Lines(S)
           N == Len(lines)
           B == Band(S)
           BB == Seq(B) \X B
           first == <<<<>>, NoBand>>
           step == [i \in 1..N |-> [x \in BB |-> JoinBand(x, lines[i])]]
           Body1(f) == [n \in 0..N |-> IF n = 0 THEN first ELSE JoinBand(f[n - 1], lines[n])]
           joined == CHOOSE f : f = Body1(f)
           s == joined[N]
           bands == Bands(s)
<1>1. lines \in Seq(Seq(S)) /\ N \in Nat /\ \A i \in 1..N : lines[i] \in Seq(S)
  BY LinesType, LenProperties
<1>2. S \subseteq Word
  BY DEF Laid
<1>3. Segments(S) = [i \in DOMAIN bands |-> Rendered(bands[i])]
  BY DEF Segments, Bands
<1>4. first \in BB
  <2>1. NoBand \in B
    <3>1. <<>> \in Seq(Seq(S))
      OBVIOUS
    <3> QED
      BY <3>1 DEF NoBand, Band
  <2>2. <<>> \in Seq(B)
    OBVIOUS
  <2> HIDE DEF B
  <2> QED
    BY <2>1, <2>2
<1> HIDE DEF lines, N, first
<1>5. \E f : f = Body1(f)
  <2>1. step \in [1..N -> [BB -> BB]]
    <3>1. ASSUME NEW i \in 1..N, NEW x \in BB PROVE JoinBand(x, lines[i]) \in BB
      BY <1>1, <1>2, JoinBandType
    <3> HIDE DEF BB
    <3> QED
      BY <3>1
  <2> HIDE DEF step
  <2>2. PICK f \in [0..N -> BB] : Runs(f, N, first, step)
    <3> HIDE DEF BB
    <3> QED
      BY <1>1, <1>4, <2>1, Recursion
  <2>3. ASSUME NEW n \in 0..N PROVE f[n] = IF n = 0 THEN first ELSE JoinBand(f[n - 1], lines[n])
    <3> HIDE DEF BB
    <3>1. CASE n = 0
      BY <2>2, <3>1 DEF Runs
    <3>2. CASE n # 0
      <4>1. n \in 1..N /\ n - 1 \in 0..N
        BY <1>1, <3>2
      <4>2. f[n] = step[n][f[n - 1]] /\ f[n - 1] \in BB
        BY <2>2, <4>1 DEF Runs
      <4>3. step[n][f[n - 1]] = JoinBand(f[n - 1], lines[n])
        BY <4>1, <4>2 DEF step
      <4> QED
        BY <3>2, <4>2, <4>3
    <3> QED
      BY <3>1, <3>2
  <2>4. f = Body1(f)
    BY <2>3
  <2> QED
    BY <2>4
<1>6. joined = Body1(joined)
  BY <1>5
<1> HIDE DEF joined
<1>7. \A n \in 0..N : joined[n] = IF n = 0 THEN first ELSE JoinBand(joined[n - 1], lines[n])
  BY <1>6
<1>8. joined[0] = first /\ \A n \in 1..N : joined[n] = JoinBand(joined[n - 1], lines[n])
  BY <1>1, <1>7
<1> DEFINE P == {n \in 0..N : joined[n] \in BB}
<1>9. 0 \in P
  <2> HIDE DEF BB
  <2> QED
    BY <1>1, <1>4, <1>8
<1>10. ASSUME NEW n \in 1..N, n - 1 \in P PROVE n \in P
  <2>1. n \in 0..N /\ joined[n - 1] \in BB
    BY <1>10
  <2>2. joined[n] = JoinBand(joined[n - 1], lines[n])
    BY <1>8
  <2>3. joined[n] \in BB
    BY <1>1, <1>2, <2>1, <2>2, JoinBandType
  <2> QED
    BY <2>1, <2>3
<1>11. \A n \in 1..N : n - 1 \in P => n \in P
  BY <1>10
<1>12. joined \in [0..N -> BB]
  <2> HIDE DEF P
  <2>1. \A n \in 0..N : n \in P
    BY <1>1, <1>9, <1>11, Induction
  <2>2. \A n \in 0..N : joined[n] \in BB
    BY <2>1 DEF P
  <2>3. joined = [n \in 0..N |-> joined[n]]
    BY <1>6
  <2> HIDE DEF BB
  <2> QED
    BY <2>2, <2>3
<1> QED
  BY <1>3, <1>8, <1>12 DEF lines, N, first

LEMMA BandsType ==
    ASSUME NEW S, NEW s \in Seq(Band(S)) \X Band(S)
    PROVE  Bands(s) \in Seq(Band(S))
<1> DEFINE B == Band(S)
<1>1. s[1] \in Seq(B) /\ s[2] \in B
  OBVIOUS
<1> HIDE DEF B
<1>2. Append(s[1], s[2]) \in Seq(B)
  BY <1>1, AppendProperties
<1> QED
  BY <1>1, <1>2 DEF Bands, B

LEMMA SegmentsType ==
    ASSUME NEW S, Laid(S)
    PROVE  Segments(S) \in Seq(Seq(PageLine(S)))
<1> DEFINE N == Len(Lines(S))
<1>1. N \in Nat
  BY LinesHold
<1>2. PICK f \in [0..N -> Seq(Band(S)) \X Band(S)] :
        Segments(S) = [i \in DOMAIN Bands(f[N]) |-> Rendered(Bands(f[N])[i])]
  BY SegmentsRun
<1> DEFINE bands == Bands(f[N])
<1>3. bands \in Seq(Band(S))
  BY <1>1, <1>2, BandsType
<1>4. Segments(S) = [i \in DOMAIN bands |-> Rendered(bands[i])]
  BY <1>2
<1> HIDE DEF bands
<1>5. Len(bands) \in Nat /\ DOMAIN bands = 1..Len(bands) /\ \A i \in 1..Len(bands) : bands[i] \in Band(S)
  BY <1>3, Places1
<1>6. Segments(S) \in [1..Len(bands) -> Seq(PageLine(S))]
  BY <1>4, <1>5, RenderedType
<1> QED
  BY <1>5, <1>6

TopDown(T) == Ordered(T, [t \in T |-> t.top])

LEMMA TablesListed ==
    ASSUME NEW p, IsPage(p)
    PROVE  /\ Len(TopDown(p.tables)) \in Nat
           /\ \A i \in 1..Len(TopDown(p.tables)) : TopDown(p.tables)[i] \in p.tables
           /\ \A t \in p.tables : \E i \in 1..Len(TopDown(p.tables)) : TopDown(p.tables)[i] = t
           /\ \A i, j \in 1..Len(TopDown(p.tables)) :
                i < j => TopDown(p.tables)[i].top < TopDown(p.tables)[j].top
<1> DEFINE T == p.tables
           key == [t \in T |-> t.top]
           down == Ordered(T, key)
           N == Len(down)
<1>1. \A t \in T : t.top \in Int
  <2> SUFFICES ASSUME NEW t \in T PROVE t.top \in Int
    OBVIOUS
  <2>1. t \in [x0 : Nat, x1 : Nat, top : Nat, bottom : Nat, rows : Nat]
    BY DEF IsPage
  <2> QED
    BY <2>1
<1>2. key \in [T -> Int] /\ \A t \in T : key[t] = t.top
  BY <1>1
<1>3. TopDown(p.tables) = down
  BY DEF TopDown
<1> HIDE DEF key
<1>4. \A t, u \in T : key[t] = key[u] => t = u
  BY <1>2 DEF IsPage
<1>5. Keyed(T, key)
  BY <1>2, <1>4 DEF Keyed, IsPage
<1>6. /\ N \in Nat /\ N = Cardinality(T) /\ \A i \in 1..N : down[i] \in T
      /\ \A t \in T : down[Cardinality(UpTo(T, key, t))] = t
  BY <1>5, OrderedLists
<1>7. \A t \in T : Cardinality(UpTo(T, key, t)) \in 1..N
  BY <1>5, <1>6, PlaceType
<1>8. \A i, j \in 1..N : i < j => key[down[i]] < key[down[j]]
  BY <1>5, <1>6, OrderedRises
<1> HIDE DEF down
<1>9. \A i, j \in 1..N : i < j => down[i].top < down[j].top
  BY <1>2, <1>6, <1>8
<1> HIDE DEF T
<1> QED
  BY <1>3, <1>6, <1>7, <1>9 DEF T

\* PageParts so far, and how far down the page they come.
PageParts(S) == Seq(Seq(PageLine(S)))

LEMMA SegmentsPart ==
    ASSUME NEW S, Laid(S), NEW words \in SUBSET S
    PROVE  Segments(words) \in PageParts(S)
<1> DEFINE L == PageLine(S)
<1>1. Laid(words) /\ Segments(words) \in Seq(Seq(PageLine(words)))
  BY LaidSome, SegmentsType
<1>2. Seq(words) \subseteq Seq(S)
  BY SeqMonotonic
<1>3. PageLine(words) \subseteq L
  BY <1>2 DEF PageLine
<1>4. Seq(PageLine(words)) \subseteq Seq(L)
  BY <1>3, SeqMonotonic
<1> HIDE DEF L
<1>5. Seq(Seq(PageLine(words))) \subseteq Seq(Seq(L))
  BY <1>4, SeqMonotonic
<1> QED
  BY <1>1, <1>5 DEF L, PageParts

LEMMA TableLinesType ==
    ASSUME NEW S, NEW p, IsPage(p), NEW t \in p.tables
    PROVE  /\ TableLines(t) \in Seq(PageLine(S))
           /\ \A i \in 1..Len(TableLines(t)) : TableLines(t)[i].words = <<>>
<1> DEFINE L == PageLine(S)
           n == IF t.rows = 0 THEN 0 ELSE t.rows + 1
           line(i) == [kind |-> IF i = 2 THEN "rule" ELSE "row", words |-> <<>>]
<1>1. n \in Nat
  BY DEF IsPage
<1>2. \A i : line(i) \in L /\ line(i).words = <<>>
  BY DEF PageLine
<1>3. TableLines(t) = [i \in 1..n |-> line(i)]
  BY DEF TableLines
<1> HIDE DEF L, n, line
<1>4. TableLines(t) \in [1..n -> L]
  BY <1>2, <1>3
<1> QED
  BY <1>1, <1>2, <1>3, <1>4 DEF L

\* A table is taken down: the words above it, then its lines.
Above(S, c, t) == IF t.top < c THEN {} ELSE {w \in S : c <= w.top /\ w.top < t.top}

LEMMA TakeType ==
    ASSUME NEW p, IsPage(p), NEW x \in PageParts(p.words) \X Nat, NEW t \in p.tables
    PROVE  /\ TakeTableDown(p.words, x, t) \in PageParts(p.words) \X Nat
           /\ TakeTableDown(p.words, x, t)[1] =
                x[1] \o Segments(Above(p.words, x[2], t)) \o <<TableLines(t)>>
           /\ TakeTableDown(p.words, x, t)[2] = Max({x[2], t.bottom})
           /\ Segments(Above(p.words, x[2], t)) \in PageParts(p.words)
           /\ <<TableLines(t)>> \in PageParts(p.words)
<1> DEFINE S == p.words
           X == Seq(PageLine(S))
           above == Above(S, x[2], t)
           parts == x[1] \o Segments(above) \o <<TableLines(t)>>
           to == Max({x[2], t.bottom})
<1>1. Laid(S)
  BY DEF IsPage, Laid, Word
<1>2. x[1] \in Seq(X) /\ x[2] \in Nat /\ t.bottom \in Nat
  BY DEF IsPage, PageParts
<1>3. above \in SUBSET S
  BY DEF Above
<1>4. TakeTableDown(S, x, t) = <<parts, to>>
  BY DEF TakeTableDown, Above
<1>5. TableLines(t) \in X /\ to \in Nat
  BY <1>2, TableLinesType, MaxOfTwo
<1> HIDE DEF above
<1>6. Segments(above) \in Seq(X)
  BY <1>1, <1>3, SegmentsPart DEF PageParts
<1> HIDE DEF X
<1>7. <<TableLines(t)>> \in Seq(X)
  BY <1>5
<1>8. x[1] \o Segments(above) \in Seq(X)
  BY <1>2, <1>6, ConcatProperties
<1>9. parts \in Seq(X)
  BY <1>7, <1>8, ConcatProperties
<1> HIDE DEF parts, to
<1>10. <<parts, to>> \in Seq(X) \X Nat
  BY <1>5, <1>9
<1>11. PageParts(S) = Seq(X)
  BY DEF X, PageParts
<1> HIDE DEF S
<1> QED
  BY <1>4, <1>6, <1>7, <1>10, <1>11 DEF S, parts, to, above

\* PageMarkdown is what taking the tables one after the other comes to.
LEMMA PageRun ==
    ASSUME NEW p, IsPage(p)
    PROVE  \E f \in [0..Len(TopDown(p.tables)) -> PageParts(p.words) \X Nat] :
             /\ f[0] = <<<<>>, 0>>
             /\ \A n \in 1..Len(TopDown(p.tables)) :
                  f[n] = TakeTableDown(p.words, f[n - 1], TopDown(p.tables)[n])
             /\ PageMarkdown(p.words, p.tables) =
                  Apart(f[Len(TopDown(p.tables))][1] \o
                        Segments({w \in p.words : w.top >= f[Len(TopDown(p.tables))][2]}))
<1> DEFINE S == p.words
           down == TopDown(p.tables)
           N == Len(down)
           SS == PageParts(S) \X Nat
           first == <<<<>>, 0>>
           step == [i \in 1..N |-> [x \in SS |-> TakeTableDown(S, x, down[i])]]
           Body1(f) == [n \in 0..N |-> IF n = 0 THEN first ELSE TakeTableDown(S, f[n - 1], down[n])]
           taken == CHOOSE f : f = Body1(f)
<1>1. N \in Nat /\ \A i \in 1..N : down[i] \in p.tables
  BY TablesListed
<1>2. PageMarkdown(p.words, p.tables) = Apart(taken[N][1] \o Segments({w \in S : w.top >= taken[N][2]}))
  BY DEF PageMarkdown, TopDown
<1> HIDE DEF N, down
<1>3. \A x \in SS, t \in p.tables : TakeTableDown(S, x, t) \in SS
  BY TakeType
<1>4. first \in SS
  <2> DEFINE X == Seq(PageLine(S))
  <2>1. <<>> \in Seq(X)
    OBVIOUS
  <2> QED
    BY <2>1 DEF PageParts
<1> HIDE DEF SS, first
<1>5. \E f : f = Body1(f)
  <2>1. step \in [1..N -> [SS -> SS]]
    BY <1>1, <1>3
  <2> HIDE DEF step
  <2>2. PICK f \in [0..N -> SS] : Runs(f, N, first, step)
    BY <1>1, <1>4, <2>1, Recursion
  <2>3. ASSUME NEW n \in 0..N PROVE f[n] = IF n = 0 THEN first ELSE TakeTableDown(S, f[n - 1], down[n])
    <3>1. CASE n = 0
      BY <2>2, <3>1 DEF Runs
    <3>2. CASE n # 0
      <4>1. n \in 1..N /\ n - 1 \in 0..N
        BY <1>1, <3>2
      <4>2. f[n] = step[n][f[n - 1]] /\ f[n - 1] \in SS
        BY <2>2, <4>1 DEF Runs
      <4>3. step[n][f[n - 1]] = TakeTableDown(S, f[n - 1], down[n])
        BY <4>1, <4>2 DEF step
      <4> QED
        BY <3>2, <4>2, <4>3
    <3> QED
      BY <3>1, <3>2
  <2>4. f = Body1(f)
    BY <2>3
  <2> QED
    BY <2>4
<1>6. taken = Body1(taken)
  BY <1>5
<1> HIDE DEF taken
<1>7. \A n \in 0..N : taken[n] = IF n = 0 THEN first ELSE TakeTableDown(S, taken[n - 1], down[n])
  BY <1>6
<1>8. taken[0] = first /\ \A n \in 1..N : taken[n] = TakeTableDown(S, taken[n - 1], down[n])
  BY <1>1, <1>7
<1> DEFINE P == {n \in 0..N : taken[n] \in SS}
<1>9. 0 \in P
  BY <1>1, <1>4, <1>8
<1>10. \A n \in 1..N : n - 1 \in P => n \in P
  BY <1>1, <1>3, <1>8
<1>11. taken \in [0..N -> SS]
  <2> HIDE DEF P
  <2>1. \A n \in 0..N : n \in P
    BY <1>1, <1>9, <1>10, Induction
  <2>2. \A n \in 0..N : taken[n] \in SS
    BY <2>1 DEF P
  <2>3. taken = [n \in 0..N |-> taken[n]]
    BY <1>6
  <2> QED
    BY <2>2, <2>3
<1> QED
  BY <1>2, <1>8, <1>11 DEF N, down, SS, first

\* A page is written as lines, of its words.
LEMMA PageMarkdownType ==
    ASSUME NEW p, IsPage(p)
    PROVE  PageMarkdown(p.words, p.tables) \in Seq(PageLine(p.words))
<1> DEFINE S == p.words
           N == Len(TopDown(p.tables))
<1>1. N \in Nat
  BY TablesListed
<1>2. PICK f \in [0..N -> PageParts(S) \X Nat] :
        PageMarkdown(S, p.tables) = Apart(f[N][1] \o Segments({w \in S : w.top >= f[N][2]}))
  BY PageRun
<1> DEFINE x == f[N]
           below == {w \in S : w.top >= x[2]}
<1>3. x \in PageParts(S) \X Nat
  BY <1>1, <1>2
<1>4. PageMarkdown(S, p.tables) = Apart(x[1] \o Segments(below))
  BY <1>2
<1>5. x[1] \in PageParts(S) /\ below \in SUBSET S /\ Laid(S)
  BY <1>3 DEF IsPage, Laid, Word
<1> HIDE DEF x, below
<1>6. Segments(below) \in PageParts(S)
  BY <1>5, SegmentsPart
<1>7. x[1] \o Segments(below) \in Seq(Seq(PageLine(S)))
  BY <1>5, <1>6, ConcatProperties DEF PageParts
<1> HIDE DEF S
<1> QED
  BY <1>4, <1>7, ApartType DEF S

-----------------------------------------------------------------------------
(* The document a conversion makes                                         *)

Letters == {"x", ".", "sp"}

LEMMA PrintedType ==
    ASSUME NEW S, S \subseteq Word, NEW l \in PageLine(S)
    PROVE  /\ Printed(l).text \in Seq(Letters)
           /\ Printed(l).kind \in {"row", "rule"} => \E c \in DOMAIN Printed(l).text : Printed(l).text[c] # "sp"
           /\ Printed(l).kind \notin {"label", "rates"}
<1> DEFINE n == Len(l.words)
           letters == [c \in 1..2 * n - 1 |-> IF c % 2 = 1 THEN "x" ELSE "sp"]
<1>1. l.words \in Seq(S) /\ n \in Nat
  BY LenProperties DEF PageLine
<1>2. /\ Printed(l).kind = l.kind
      /\ Printed(l).text = IF l.kind \in {"row", "rule"} THEN <<"x">> ELSE letters
  BY DEF Printed
<1> HIDE DEF n
<1>3. letters \in Seq(Letters)
  <2>1. CASE n = 0
    <3>1. letters \in [1..0 -> Letters]
      BY <2>1
    <3> HIDE DEF letters
    <3> QED
      BY <3>1
  <2>2. CASE n # 0
    <3>1. 2 * n - 1 \in Nat /\ letters \in [1..2 * n - 1 -> Letters]
      BY <1>1, <2>2 DEF Letters
    <3> HIDE DEF letters
    <3> QED
      BY <3>1
  <2> QED
    BY <2>1, <2>2
<1>4. <<"x">> \in Seq(Letters) /\ 1 \in DOMAIN <<"x">> /\ <<"x">>[1] # "sp"
  BY DEF Letters
<1>5. l.kind \in {"body", "blank", "row", "rule"}
  BY DEF PageLine
<1> QED
  BY <1>2, <1>3, <1>4, <1>5

PageMarker == [kind |-> "page", name |-> NoName, words |-> <<>>, text |-> <<>>]

ConvertedPages ==
    [i \in DOMAIN entry.pages |->
       <<PageMarker>> \o [k \in DOMAIN PageMarkdown(entry.pages[i].words, entry.pages[i].tables) |->
                            Printed(PageMarkdown(entry.pages[i].words, entry.pages[i].tables)[k])]]

LEMMA ConvertedType ==
    ASSUME IsEntry(entry)
    PROVE  IsDocument(FlattenSeq(ConvertedPages))
<1> DEFINE pages == entry.pages
           n == Len(pages)
           Printing(p) == {Printed(l) : l \in PageLine(p.words)}
           X == {PageMarker} \cup UNION {Printing(pages[i]) : i \in 1..n}
           lines(i) == PageMarkdown(pages[i].words, pages[i].tables)
           printed(i) == [k \in DOMAIN lines(i) |-> Printed(lines(i)[k])]
           d == FlattenSeq(ConvertedPages)
<1>1. pages \in Seq(Range(pages)) /\ \A p \in Range(pages) : IsPage(p)
  BY DEF IsEntry
<1>2. n \in Nat /\ DOMAIN pages = 1..n /\ \A i \in 1..n : IsPage(pages[i])
  BY <1>1, Places1
<1>3. ConvertedPages = [i \in 1..n |-> <<PageMarker>> \o printed(i)]
  BY <1>2 DEF ConvertedPages
<1> HIDE DEF n
<1>4. ASSUME NEW i \in 1..n PROVE <<PageMarker>> \o printed(i) \in Seq(X)
  <2>1. lines(i) \in Seq(PageLine(pages[i].words))
    BY <1>2, PageMarkdownType
  <2>2. /\ Len(lines(i)) \in Nat /\ DOMAIN lines(i) = 1..Len(lines(i))
        /\ \A k \in 1..Len(lines(i)) : lines(i)[k] \in PageLine(pages[i].words)
    BY <2>1, Places1
  <2> HIDE DEF lines
  <2>3. ASSUME NEW k \in 1..Len(lines(i)) PROVE Printed(lines(i)[k]) \in X
    <3>1. Printed(lines(i)[k]) \in Printing(pages[i])
      BY <2>2
    <3> QED
      BY <3>1
  <2>4. PageMarker \in X
    OBVIOUS
  <2> HIDE DEF X
  <2>5. printed(i) \in [1..Len(lines(i)) -> X]
    BY <2>2, <2>3
  <2> HIDE DEF printed
  <2>6. printed(i) \in Seq(X) /\ <<PageMarker>> \in Seq(X)
    BY <2>2, <2>4, <2>5
  <2> QED
    BY <2>6, ConcatProperties
<1>5. ConvertedPages \in Seq(Seq(X))
  <2> DEFINE s(i) == <<PageMarker>> \o printed(i)
  <2>1. \A i \in 1..n : s(i) \in Seq(X)
    BY <1>4
  <2>2. ConvertedPages = [i \in 1..n |-> s(i)]
    BY <1>3
  <2> HIDE DEF s, X
  <2>3. ConvertedPages \in [1..n -> Seq(X)]
    BY <2>1, <2>2
  <2>4. n \in Nat
    BY <1>2
  <2> QED
    BY <2>3, <2>4
<1>6. ASSUME NEW x \in X
      PROVE  /\ x.text \in Seq(Letters)
             /\ x.kind \in {"row", "rule"} => \E c \in DOMAIN x.text : x.text[c] # "sp"
             /\ x.kind \notin {"label", "rates"}
  <2>1. CASE x = PageMarker
    <3>1. x.text = <<>> /\ x.kind = "page" /\ <<>> \in Seq(Letters)
      BY <2>1, EmptySeq DEF PageMarker
    <3> QED
      BY <3>1
  <2>2. ASSUME NEW i \in 1..n, NEW l \in PageLine(pages[i].words), x = Printed(l)
        PROVE  /\ x.text \in Seq(Letters)
               /\ x.kind \in {"row", "rule"} => \E c \in DOMAIN x.text : x.text[c] # "sp"
               /\ x.kind \notin {"label", "rates"}
    <3>1. pages[i].words \subseteq Word
      BY <1>2 DEF IsPage, Word
    <3> QED
      BY <2>2, <3>1, PrintedType
  <2> QED
    BY <2>1, <2>2
<1> HIDE DEF X
<1>7. d \in Seq(X)
  BY <1>5, FlattenOf
<1> HIDE DEF d
<1>8. Len(d) \in Nat /\ DOMAIN d = 1..Len(d) /\ \A i \in 1..Len(d) : d[i] \in X
  BY <1>7, Places1
<1>9. d \in Seq(Range(d))
  <2>1. d = [i \in 1..Len(d) |-> d[i]]
    BY <1>7, <1>8
  <2>2. d \in [1..Len(d) -> Range(d)]
    BY <1>8, <2>1 DEF Range
  <2> QED
    BY <1>8, <2>2
<1>10. IsDocument(d)
  BY <1>6, <1>8, <1>9 DEF IsDocument, Letters
<1> QED
  BY <1>10 DEF d

-----------------------------------------------------------------------------
(* Reading the lines                                                       *)

Silent(l) == doc[l].kind = "blank"

\* A block has something in it: a table a row, a text a line that is not blank.
Blocks ==
    {b \in [table : BOOLEAN, lines : Seq(DocLine), page : Nat] :
       \E i \in 1..Len(b.lines) : b.table \/ ~Silent(b.lines[i])}

LEMMA InOrderLists ==
    ASSUME IsDocument(doc), NEW S \in SUBSET DocLine
    PROVE  /\ InOrder(S) \in Seq(DocLine) /\ Range(InOrder(S)) = S
           /\ Cardinality(S) \in Nat /\ Len(InOrder(S)) = Cardinality(S)
<1> DEFINE key == [l \in S |-> l]
           s == InOrder(S)
<1>1. Keyed(S, key)
  <2>1. IsFiniteSet(S) /\ S \subseteq Int
    BY DocumentLines, FS_Subset
  <2> QED
    BY <2>1 DEF Keyed
<1>2. s = Ordered(S, key)
  BY DEF InOrder
<1> HIDE DEF key, s
<1>3. /\ Cardinality(S) \in Nat /\ s \in Seq(S) /\ Len(s) = Cardinality(S)
      /\ \A l \in S : s[Cardinality(UpTo(S, key, l))] = l
  BY <1>1, <1>2, OrderedLists
<1>4. \A l \in S : Cardinality(UpTo(S, key, l)) \in 1..Len(s)
  BY <1>1, <1>3, PlaceType
<1>5. DOMAIN s = 1..Len(s) /\ (\A i \in 1..Len(s) : s[i] \in S) /\ Range(s) \subseteq S
  BY <1>3, Places1
<1>6. S \subseteq Range(s)
  BY <1>3, <1>4, <1>5 DEF Range
<1>7. s \in Seq(DocLine)
  <2>1. s \in [1..Len(s) -> DocLine] /\ Len(s) \in Nat
    BY <1>3, <1>5
  <2> QED
    BY <2>1
<1> QED
  BY <1>3, <1>5, <1>6, <1>7 DEF s

\* The lines of a page run from its marker to the next one.
LEMMA PageRuns ==
    ASSUME IsDocument(doc), NEW l \in DocLine
    PROVE  \E e \in l..Len(doc) :
             /\ LinesOfPage(l) = l + 1..e /\ Cardinality(LinesOfPage(l)) = e - l
             /\ \A k \in l + 1..e : doc[k].kind # "page"
             /\ e < Len(doc) => doc[e + 1].kind = "page"
<1> DEFINE later == {k \in l + 1..Len(doc) : doc[k].kind = "page"}
           e == IF later = {} THEN Len(doc) ELSE Min(later) - 1
<1>1. Len(doc) \in Nat /\ l \in Nat /\ l \in 1..Len(doc)
  BY DocumentLines DEF DocLine
<1>2. LinesOfPage(l) = l + 1..e
  BY DEF LinesOfPage
<1>3. later # {} => /\ Min(later) \in l + 1..Len(doc) /\ doc[Min(later)].kind = "page"
                    /\ \A k \in later : Min(later) <= k
  <2>1. later \in SUBSET (1..Len(doc))
    BY <1>1
  <2>2. IsFiniteSet(later) /\ later \subseteq Int
    BY <1>1, <2>1, SomePlaces
  <2>3. later # {} => Min(later) \in later /\ \A k \in later : Min(later) <= k
    BY <2>2, LeastOf
  <2> QED
    BY <2>3
<1>4. e \in l..Len(doc)
  BY <1>1, <1>3
<1>5. \A k \in l + 1..e : doc[k].kind # "page"
  <2> SUFFICES ASSUME NEW k \in l + 1..e, doc[k].kind = "page" PROVE FALSE
    OBVIOUS
  <2>1. k \in later
    BY <1>1, <1>4
  <2> QED
    BY <1>1, <1>3, <2>1
<1>6. e < Len(doc) => doc[e + 1].kind = "page"
  BY <1>1, <1>3
<1> HIDE DEF e
<1>7. Cardinality(l + 1..e) = e - l
  BY <1>1, <1>4, FS_Interval
<1> QED
  BY <1>2, <1>4, <1>5, <1>6, <1>7

LEMMA PageNumberType ==
    ASSUME IsDocument(doc), NEW l \in DocLine
    PROVE  /\ PageNumber(l) \in Nat
           /\ doc[l].kind = "page" =>
                PageNumber(l) \in 1..Cardinality({k \in DOMAIN doc : doc[k].kind = "page"})
<1> DEFINE upTo == {k \in 1..l : doc[k].kind = "page"}
           all == {k \in DOMAIN doc : doc[k].kind = "page"}
<1>1. Len(doc) \in Nat /\ l \in 1..Len(doc) /\ DOMAIN doc = 1..Len(doc)
  BY DocumentLines DEF DocLine
<1>2. upTo \subseteq all /\ IsFiniteSet(all)
  <2>1. all \in SUBSET (1..Len(doc))
    BY <1>1
  <2>2. IsFiniteSet(all)
    BY <1>1, <2>1, SomePlaces
  <2> QED
    BY <1>1, <2>2
<1>3. doc[l].kind = "page" => upTo # {}
  BY <1>1
<1>4. PageNumber(l) = Cardinality(upTo)
  BY DEF PageNumber
<1> HIDE DEF upTo, all
<1>5. /\ IsFiniteSet(upTo) /\ Cardinality(upTo) \in Nat /\ Cardinality(all) \in Nat
      /\ Cardinality(upTo) <= Cardinality(all)
  BY <1>2, FS_Subset, FS_CardinalityType
<1>6. upTo # {} => Cardinality(upTo) # 0
  BY <1>5, FS_EmptySet
<1> QED
  BY <1>3, <1>4, <1>5, <1>6 DEF all

Said(l) == doc[l].kind \notin {"rule", "blank"}

\* A run of pipe lines becomes one block, without its separator if it is a table.
LEMMA PipeTable ==
    ASSUME IsDocument(doc), page \in Nat, NEW ls \in Seq(DocLine), ls # <<>>,
           \A i \in 1..Len(ls) : Pipe(ls[i])
    PROVE  /\ ParsePipeTable(ls) \in Blocks
           /\ \A l \in Range(ls) : Said(l) => l \in Range(ParsePipeTable(ls).lines)
<1> DEFINE rules == {i \in DOMAIN ls : doc[ls[i]].kind = "rule"}
           rest == DOMAIN ls \ {Min(rules)}
           b == ParsePipeTable(ls)
<1>1. Len(ls) \in Nat \ {0} /\ DOMAIN ls = 1..Len(ls) /\ Range(ls) = {ls[i] : i \in 1..Len(ls)}
  BY Places1, EmptySeq
<1>2. CASE Len(ls) < 2 \/ rules = {}
  <2>1. b = [table |-> FALSE, lines |-> ls, page |-> page]
    BY <1>2 DEF ParsePipeTable, Block
  <2>2. ~Silent(ls[1]) /\ 1 \in 1..Len(ls)
    BY <1>1 DEF Pipe, Silent
  <2> QED
    BY <2>1, <2>2 DEF Blocks
<1>3. CASE ~(Len(ls) < 2 \/ rules = {})
  <2>1. b = [table |-> TRUE, lines |-> Picked(ls, rest), page |-> page]
    BY <1>3 DEF ParsePipeTable, Block
  <2>2. Min(rules) \in rules
    <3>1. rules \in SUBSET (1..Len(ls)) /\ rules # {}
      BY <1>1, <1>3
    <3>2. IsFiniteSet(rules) /\ rules \subseteq Int
      BY <1>1, <3>1, SomePlaces
    <3> HIDE DEF rules
    <3> QED
      BY <3>1, <3>2, LeastOf
  <2>3. /\ Picked(ls, rest) \in Seq(DocLine) /\ Len(Picked(ls, rest)) = Cardinality(rest)
        /\ Range(Picked(ls, rest)) = {ls[i] : i \in rest}
    BY PickedFrom
  <2>4. \A l \in Range(ls) : Said(l) => l \in Range(Picked(ls, rest))
    <3> SUFFICES ASSUME NEW i \in 1..Len(ls), Said(ls[i]) PROVE ls[i] \in Range(Picked(ls, rest))
      BY <1>1
    <3>1. i \notin rules
      BY DEF Said
    <3>2. i \in rest
      BY <1>1, <2>2, <3>1
    <3> QED
      BY <2>3, <3>2
  <2>5. Len(Picked(ls, rest)) >= 1
    <3>1. \E i \in 1..Len(ls) : i # Min(rules)
      <4>1. 1 \in 1..Len(ls) /\ 2 \in 1..Len(ls)
        BY <1>1, <1>3
      <4>2. 1 # Min(rules) \/ 2 # Min(rules)
        OBVIOUS
      <4> QED
        BY <4>1, <4>2
    <3>2. rest # {} /\ IsFiniteSet(rest)
      <4>1. IsFiniteSet(DOMAIN ls)
        BY Places1
      <4> QED
        BY <1>1, <3>1, <4>1, FS_Subset
    <3> HIDE DEF rest
    <3>3. Cardinality(rest) \in Nat /\ Cardinality(rest) # 0
      BY <3>2, FS_CardinalityType, FS_EmptySet
    <3> QED
      BY <2>3, <3>3
  <2> HIDE DEF b, rest
  <2>6. b.lines = Picked(ls, rest) /\ b.table = TRUE
    BY <2>1
  <2>7. Len(b.lines) \in Nat
    BY <2>3, <2>6, LenProperties
  <2>8. 1 \in 1..Len(b.lines)
    BY <2>5, <2>6, <2>7
  <2>9. b \in [table : BOOLEAN, lines : Seq(DocLine), page : Nat]
    BY <2>1, <2>3
  <2>10. b \in Blocks
    BY <2>6, <2>8, <2>9 DEF Blocks
  <2> QED
    BY <2>4, <2>6, <2>10 DEF b
<1> QED
  BY <1>2, <1>3

\* What is pending becomes blocks; only blank lines and separators go.
LEMMA FlushedMore ==
    ASSUME IsDocument(doc), page \in Nat, text \in Seq(DocLine), rows \in Seq(DocLine),
           blocks \in Seq(Blocks), \A i \in 1..Len(rows) : Pipe(rows[i])
    PROVE  \E more \in Seq(Blocks) :
             /\ Flushed = blocks \o more
             /\ \A l \in (IF InTable THEN Range(rows) ELSE Range(text)) :
                  Said(l) => \E i \in 1..Len(more) : l \in Range(more[i].lines)
<1>1. CASE InTable
  <2> DEFINE b == ParsePipeTable(rows)
  <2>1. b \in Blocks /\ \A l \in Range(rows) : Said(l) => l \in Range(b.lines)
    BY <1>1, PipeTable DEF InTable
  <2>2. Flushed = blocks \o <<b>>
    BY <1>1 DEF Flushed
  <2> HIDE DEF b
  <2>3. <<b>> \in Seq(Blocks) /\ Len(<<b>>) = 1 /\ <<b>>[1] = b
    BY <2>1
  <2>4. \A l \in Range(rows) : Said(l) => \E i \in 1..Len(<<b>>) : l \in Range(<<b>>[i].lines)
    BY <2>1, <2>3
  <2> QED
    BY <1>1, <2>2, <2>3, <2>4
<1>2. CASE ~InTable
  <2>0. Len(text) \in Nat /\ DOMAIN text = 1..Len(text) /\ Range(text) = {text[i] : i \in 1..Len(text)}
    BY Places1
  <2>1. CASE \E i \in DOMAIN text : doc[text[i]].kind # "blank"
    <3> DEFINE b == Block(FALSE, text)
    <3>1. b \in Blocks /\ b.lines = text
      BY <2>0, <2>1 DEF Block, Blocks, Silent
    <3>2. Flushed = blocks \o <<b>>
      BY <1>2, <2>1 DEF Flushed, TextBlocks
    <3> HIDE DEF b
    <3>3. <<b>> \in Seq(Blocks) /\ Len(<<b>>) = 1 /\ <<b>>[1] = b
      BY <3>1
    <3>4. \A l \in Range(text) : Said(l) => \E i \in 1..Len(<<b>>) : l \in Range(<<b>>[i].lines)
      BY <3>1, <3>3
    <3> QED
      BY <1>2, <3>2, <3>3, <3>4
  <2>2. CASE ~\E i \in DOMAIN text : doc[text[i]].kind # "blank"
    <3>1. Flushed = blocks \o <<>> /\ <<>> \in Seq(Blocks)
      BY <1>2, <2>2, EmptySeq DEF Flushed, TextBlocks
    <3>2. \A l \in Range(text) : ~Said(l)
      BY <2>0, <2>2 DEF Said
    <3> QED
      BY <1>2, <3>1, <3>2
  <2> QED
    BY <2>1, <2>2
<1> QED
  BY <1>1, <1>2

LEMMA TablesType ==
    ASSUME IsDocument(doc), NEW l \in DocLine
    PROVE  /\ TablesOfPage(l) \in Seq(Blocks)
           /\ \A i \in 1..Len(TablesOfPage(l)) : TablesOfPage(l)[i].table
<1> DEFINE lines == LinesOfPage(l)
           From(k) == {m \in lines : m >= k /\ \A n \in k..m : Pipe(n)}
           starts == {k \in lines : /\ Pipe(k)
                                    /\ k - 1 \in lines => ~Pipe(k - 1)
                                    /\ \E m, n \in From(k) : /\ doc[m].kind = "rule"
                                                             /\ doc[n].kind = "row"}
           Rows(k) == {m \in From(k) : doc[m].kind = "row"}
           Table(k) == [table |-> TRUE, page |-> PageNumber(l), lines |-> InOrder(Rows(k))]
           at == InOrder(starts)
<1>1. lines \subseteq DocLine
  <2>1. PICK e \in l..Len(doc) : LinesOfPage(l) = l + 1..e
    BY PageRuns
  <2> QED
    BY <2>1, DocumentLines DEF DocLine
<1>2. TablesOfPage(l) = [i \in DOMAIN at |-> Table(at[i])]
  BY DEF TablesOfPage
<1>3. ASSUME NEW k \in starts PROVE Table(k) \in Blocks /\ Table(k).table
  <2>1. Rows(k) \in SUBSET DocLine /\ Rows(k) # {}
    BY <1>1
  <2> HIDE DEF Rows
  <2>2. /\ InOrder(Rows(k)) \in Seq(DocLine) /\ Range(InOrder(Rows(k))) = Rows(k)
    BY <2>1, InOrderLists
  <2>3. \E i \in 1..Len(InOrder(Rows(k))) : InOrder(Rows(k))[i] \in Rows(k)
    <3>1. Range(InOrder(Rows(k))) = {InOrder(Rows(k))[i] : i \in 1..Len(InOrder(Rows(k)))}
      BY <2>2, Places1
    <3> QED
      BY ZenonT(40), <2>1, <2>2, <3>1
  <2>4. PageNumber(l) \in Nat
    BY PageNumberType
  <2> QED
    BY <2>2, <2>3, <2>4 DEF Blocks
<1>4. starts \in SUBSET DocLine
  BY <1>1
<1> HIDE DEF Table, starts
<1>5. at \in Seq(DocLine) /\ Range(at) = starts
  BY <1>4, InOrderLists
<1> HIDE DEF at
<1>6. Len(at) \in Nat /\ DOMAIN at = 1..Len(at) /\ \A i \in 1..Len(at) : at[i] \in starts
  BY <1>5, Places1
<1>7. TablesOfPage(l) \in [1..Len(at) -> Blocks]
  BY <1>2, <1>3, <1>6
<1>8. \A i \in 1..Len(at) : TablesOfPage(l)[i].table
  BY <1>2, <1>3, <1>6
<1>9. Len(TablesOfPage(l)) = Len(at)
  BY <1>6, <1>7
<1> QED
  BY <1>6, <1>7, <1>8, <1>9

-----------------------------------------------------------------------------
(* Chunking the blocks                                                     *)

Names == {doc[l].name : l \in DocLine} \cup {NoName}
Contexts == [article : Names, title : Nat, section : Names]
Kept == [line : DocLine, page : Nat]
Pieces == [text : Seq(Char), page : Nat, table : BOOLEAN, lead : Seq(Char), article : Names,
           title : Nat, section : Names, cutting : BOOLEAN]

LEMMA TurnType ==
    ASSUME IsDocument(doc), NEW c \in Contexts, NEW l \in DocLine
    PROVE  SectionOf(l) \in Names /\ Turn(c, l) \in Contexts /\ NoContext \in Contexts
<1>1. doc[l].name \in Names /\ NoName \in Names /\ l \in Nat
  BY DocumentLines DEF Names
<1>2. SectionOf(l) \in Names
  BY <1>1 DEF SectionOf
<1> HIDE DEF Names
<1>3. Turn(c, l) \in Contexts
  BY <1>1, <1>2 DEF Turn, Contexts
<1>4. NoContext \in Contexts
  BY <1>1 DEF NoContext, Contexts
<1> QED
  BY <1>2, <1>3, <1>4

LEMMA SolidLines ==
    ASSUME IsDocument(doc), NEW ls \in Seq(DocLine)
    PROVE  /\ Solid(ls) \in Seq(DocLine)
           /\ Range(Solid(ls)) = {l \in Range(ls) : ~Silent(l)}
<1> DEFINE I == {i \in DOMAIN ls : doc[ls[i]].kind # "blank"}
<1>1. DOMAIN ls = 1..Len(ls) /\ Range(ls) = {ls[i] : i \in 1..Len(ls)}
  BY Places1
<1>2. Solid(ls) \in Seq(DocLine) /\ Range(Solid(ls)) = {ls[i] : i \in I}
  BY PickedFrom DEF Solid
<1>3. {ls[i] : i \in I} = {l \in Range(ls) : ~Silent(l)}
  BY <1>1 DEF Silent
<1> QED
  BY <1>2, <1>3

\* The lines of a block, and of all of them.
LEMMA BlockLines ==
    ASSUME IsDocument(doc), NEW b \in Blocks
    PROVE  /\ b.table \in BOOLEAN /\ b.lines \in Seq(DocLine) /\ b.page \in Nat
           /\ Len(b.lines) \in Nat /\ b.lines # <<>> /\ b.lines[1] \in DocLine
           /\ Solid(b.lines) \in Seq(DocLine) /\ Len(Solid(b.lines)) \in Nat
           /\ Range(Solid(b.lines)) = {l \in Range(b.lines) : ~Silent(l)}
           /\ ~b.table => Solid(b.lines) # <<>>
<1>1. /\ b.table \in BOOLEAN /\ b.lines \in Seq(DocLine) /\ b.page \in Nat
      /\ \E i \in 1..Len(b.lines) : b.table \/ ~Silent(b.lines[i])
  BY DEF Blocks
<1> DEFINE ls == b.lines
<1> HIDE DEF ls
<1>2. /\ Len(ls) \in Nat /\ Range(ls) = {ls[i] : i \in 1..Len(ls)}
      /\ \A i \in 1..Len(ls) : ls[i] \in DocLine
  BY <1>1, Places1 DEF ls
<1>3. Len(ls) # 0
  BY <1>1, <1>2 DEF ls
<1>4. ls # <<>> /\ ls[1] \in DocLine
  BY <1>1, <1>2, <1>3, EmptySeq DEF ls
<1>5. /\ Solid(ls) \in Seq(DocLine) /\ Len(Solid(ls)) \in Nat
      /\ Range(Solid(ls)) = {l \in Range(ls) : ~Silent(l)}
  BY <1>1, SolidLines, LenProperties DEF ls
<1>6. ~b.table => Solid(ls) # <<>>
  <2> SUFFICES ASSUME ~b.table, Solid(ls) = <<>> PROVE FALSE
    OBVIOUS
  <2>1. PICK i \in 1..Len(ls) : ~Silent(ls[i])
    BY <1>1 DEF ls
  <2>2. ls[i] \in Range(Solid(ls))
    BY <1>2, <1>5, <2>1
  <2>3. Range(Solid(ls)) = {}
    BY DEF Range
  <2> QED
    BY <2>2, <2>3
<1> QED
  BY <1>1, <1>2, <1>4, <1>5, <1>6 DEF ls

LEMMA LeadInType ==
    ASSUME IsDocument(doc), blocks \in Seq(Blocks), NEW section
    PROVE  LeadIn(section) \in Seq(Char)
<1> DEFINE lines(b) == IF blocks[b].table THEN <<>> ELSE Solid(blocks[b].lines)
           all == [b \in DOMAIN blocks |-> lines(b)]
           ls == FlattenSeq(all)
           t == Joined(Narrative(context.article, section))
           cut == SubSeq(t, 1, Smaller(LeadChars, Len(t)))
<1>1. Len(blocks) \in Nat /\ DOMAIN blocks = 1..Len(blocks) /\ \A b \in 1..Len(blocks) : blocks[b] \in Blocks
  BY Places1
<1>2. \A b \in 1..Len(blocks) : lines(b) \in Seq(DocLine)
  BY <1>1, BlockLines, EmptySeq
<1> HIDE DEF lines
<1>3. all \in [1..Len(blocks) -> Seq(DocLine)]
  BY <1>1, <1>2
<1>4. all \in Seq(Seq(DocLine))
  BY <1>1, <1>3
<1> HIDE DEF all
<1>5. ls \in Seq(DocLine)
  BY <1>4, FlattenOf
<1>6. Narrative(context.article, section) \in Seq(DocLine)
  <2> DEFINE under == CHOOSE f : f = [i \in 0..Len(ls) |->
                                       IF i = 0 THEN NoContext ELSE Turn(f[i - 1], ls[i])]
             I == {i \in DOMAIN ls : /\ ~Heading(ls[i])
                                     /\ under[i].article = context.article
                                     /\ under[i].section = section}
  <2>1. Narrative(context.article, section) = Picked(ls, I)
    BY DEF Narrative, all, lines
  <2>2. I \in SUBSET DOMAIN ls
    OBVIOUS
  <2> HIDE DEF I, ls
  <2> QED
    BY <1>5, <2>1, <2>2, PickedFrom
<1>7. t \in Seq(Char)
  BY <1>6, JoinedSays
<1> HIDE DEF t
<1>8. Len(t) \in Nat /\ LeadChars \in Nat
  BY <1>7, LenProperties, LimitsAssumption
<1>9. Smaller(LeadChars, Len(t)) \in 1 - 1..Len(t) /\ 1 \in 1..Len(t) + 1
  BY <1>8 DEF Smaller
<1>10. cut \in Seq(Char)
  BY <1>7, <1>9, PieceOf
<1>11. Strip(cut) \in Seq(Char)
  BY <1>10, Stripped
<1> QED
  BY <1>11, EmptySeq DEF LeadIn, t

LEMMA TextOfSays ==
    ASSUME IsDocument(doc), NEW part \in Seq(Kept)
    PROVE  /\ TextOf(part) \in Seq(Char)
           /\ SolidIn(TextOf(part)) = UNION {SolidIn(CharsOf(part[i].line)) : i \in 1..Len(part)}
           /\ \A ch \in Range(TextOf(part)) : \E i \in 1..Len(part) : ch[2] = part[i].line
<1> DEFINE ls == [i \in DOMAIN part |-> part[i].line]
<1>0. Len(part) \in Nat /\ DOMAIN part = 1..Len(part) /\ \A i \in 1..Len(part) : part[i] \in Kept
  BY Places1
<1>1. Len(part) \in Nat /\ DOMAIN part = 1..Len(part) /\ \A i \in 1..Len(part) : part[i].line \in DocLine
  BY <1>0 DEF Kept
<1>2. ls \in [1..Len(part) -> DocLine]
  BY <1>1
<1>3. /\ ls \in Seq(DocLine) /\ Range(ls) = {part[i].line : i \in 1..Len(part)}
      /\ TextOf(part) = Joined(ls)
  <2>1. ls \in Seq(DocLine)
    BY <1>1, <1>2
  <2>2. Range(ls) = {part[i].line : i \in 1..Len(part)}
    BY <1>1 DEF Range
  <2> QED
    BY <2>1, <2>2 DEF TextOf
<1> HIDE DEF ls
<1>4. /\ Joined(ls) \in Seq(Char)
      /\ SolidIn(Joined(ls)) = UNION {SolidIn(CharsOf(l)) : l \in Range(ls)}
      /\ \A ch \in Range(Joined(ls)) : ch[2] \in Range(ls)
  BY <1>3, JoinedSays
<1>5. UNION {SolidIn(CharsOf(l)) : l \in Range(ls)}
        = UNION {SolidIn(CharsOf(part[i].line)) : i \in 1..Len(part)}
  BY <1>3
<1> QED
  BY <1>3, <1>4, <1>5

LEMMA PieceSays ==
    ASSUME IsDocument(doc), NEW part \in Seq(Kept), NEW p \in Nat, NEW c \in Contexts
    PROVE  LET q == Piece(TextOf(part), p, c)
           IN  /\ q \in Pieces /\ ~q.table /\ ~q.cutting
               /\ SolidIn(q.text) = UNION {SolidIn(CharsOf(part[i].line)) : i \in 1..Len(part)}
               /\ \A ch \in Range(q.text) : \E i \in 1..Len(part) : ch[2] = part[i].line
<1> DEFINE t == TextOf(part)
           q == Piece(t, p, c)
<1>1. /\ t \in Seq(Char)
      /\ SolidIn(t) = UNION {SolidIn(CharsOf(part[i].line)) : i \in 1..Len(part)}
      /\ \A ch \in Range(t) : \E i \in 1..Len(part) : ch[2] = part[i].line
  BY TextOfSays
<1> HIDE DEF t
<1>2. Strip(t) \in Seq(Char) /\ SolidIn(Strip(t)) = SolidIn(t) /\ Range(Strip(t)) \subseteq Range(t)
  BY <1>1, Stripped
<1>3. c.article \in Names /\ c.title \in Nat /\ c.section \in Names /\ <<>> \in Seq(Char)
  BY EmptySeq DEF Contexts
<1>4. q = [text |-> Strip(t), page |-> p, table |-> FALSE, lead |-> <<>>, article |-> c.article,
           title |-> c.title, section |-> c.section, cutting |-> FALSE]
  BY DEF Piece
<1>5. q \in Pieces /\ q.text = Strip(t) /\ ~q.table /\ ~q.cutting
  BY <1>2, <1>3, <1>4 DEF Pieces
<1> HIDE DEF q
<1>6. SolidIn(q.text) = UNION {SolidIn(CharsOf(part[i].line)) : i \in 1..Len(part)}
  BY <1>1, <1>2, <1>5
<1>7. \A ch \in Range(q.text) : \E i \in 1..Len(part) : ch[2] = part[i].line
  BY <1>1, <1>2, <1>5
<1> QED
  BY <1>5, <1>6, <1>7 DEF q, t

\* The parts of the buffer: each has a line, and every line is in one.
LEMMA SectionsCover ==
    ASSUME NEW ls \in Seq(Kept), ls # <<>>
    PROVE  /\ Sections(ls) \in Seq(Seq(Kept))
           /\ \A k \in 1..Len(Sections(ls)) :
                /\ Sections(ls)[k] # <<>> /\ Len(Sections(ls)[k]) \in Nat
                /\ \A i \in 1..Len(Sections(ls)[k]) : Sections(ls)[k][i] \in Range(ls)
           /\ \A i \in 1..Len(ls) : \E k \in 1..Len(Sections(ls)) :
                \E j \in 1..Len(Sections(ls)[k]) : Sections(ls)[k][j] = ls[i]
           /\ \A k \in 1..Len(Sections(ls)) : \E a, z \in 1..Len(ls) :
                /\ a <= z /\ Len(Sections(ls)[k]) = z - a + 1
                /\ \A j \in 1..z - a + 1 : Sections(ls)[k][j] = ls[a + j - 1]
                /\ \A x \in a + 1..z : SectionOf(ls[x].line) = NoName
<1> DEFINE n == Len(ls)
           S == {1} \cup {i \in DOMAIN ls : SectionOf(ls[i].line) # NoName}
           key == [i \in S |-> i]
           starts == InOrder(S)
           m == Cardinality(S)
           end(k) == IF k = Len(starts) THEN n ELSE starts[k + 1] - 1
           s == Sections(ls)
<1>1. n \in Nat \ {0} /\ DOMAIN ls = 1..n /\ Range(ls) = {ls[i] : i \in 1..n}
  BY Places1, EmptySeq
<1>2. s = [k \in DOMAIN starts |-> SubSeq(ls, starts[k], end(k))]
  BY DEF Sections
<1> HIDE DEF n, s
<1>3. S \subseteq 1..n /\ 1 \in S
  BY <1>1
<1> HIDE DEF S
<1>4. Keyed(S, key)
  <2>1. IsFiniteSet(S) /\ S \subseteq Int
    BY <1>1, <1>3, SomePlaces
  <2> QED
    BY <2>1 DEF Keyed
<1>5. starts = Ordered(S, key)
  BY DEF InOrder
<1>6. /\ m \in Nat /\ starts \in Seq(S) /\ Len(starts) = m
      /\ \A k \in 1..m : starts[k] \in S
      /\ \A i \in S : starts[Cardinality(UpTo(S, key, i))] = i
  BY <1>4, <1>5, OrderedLists
<1>7. \A i \in 1..m, j \in 1..m : i < j => starts[i] < starts[j]
  <2>1. ASSUME NEW i \in 1..m, NEW j \in 1..m, i < j PROVE key[starts[i]] < key[starts[j]]
    BY <1>4, <1>5, <2>1, OrderedRises
  <2> QED
    BY <1>6, <2>1
<1>8. \A i \in S : Cardinality(UpTo(S, key, i)) \in 1..m
  BY <1>4, PlaceType
<1> HIDE DEF starts, key, m
<1>9. DOMAIN starts = 1..m
  BY <1>6, LenProperties
<1>10. m >= 1 /\ starts[1] = 1
  <2>1. PICK k \in 1..m : starts[k] = 1
    <3>1. 1 \in S /\ Cardinality(UpTo(S, key, 1)) \in 1..m
      BY <1>3, <1>8
    <3>2. starts[Cardinality(UpTo(S, key, 1))] = 1
      BY <1>6, <3>1
    <3> QED
      BY <3>1, <3>2
  <2>2. 1 \in 1..m /\ starts[1] \in 1..n
    <3>1. 1 \in 1..m
      BY <1>6
    <3>2. starts[1] \in S
      BY <1>6, <3>1
    <3> QED
      BY <1>3, <3>1, <3>2
  <2>3. k # 1 => starts[1] < starts[k]
    BY <1>7, <2>1, <2>2
  <2> QED
    BY <2>1, <2>2, <2>3
<1>11. ASSUME NEW k \in 1..m
       PROVE  starts[k] \in 1..n /\ end(k) \in starts[k]..n
  <2>1. starts[k] \in 1..n
    BY <1>3, <1>6
  <2>2. k # m => k + 1 \in 1..m /\ starts[k + 1] \in 1..n /\ starts[k] < starts[k + 1]
    <3>1. k # m => k + 1 \in 1..m /\ k < k + 1
      BY <1>6
    <3> QED
      BY <1>3, <1>6, <1>7, <3>1
  <2> QED
    BY <1>1, <1>6, <2>1, <2>2
<1>12. ASSUME NEW k \in 1..m
       PROVE  /\ s[k] \in Seq(Kept) /\ Len(s[k]) = end(k) - starts[k] + 1
              /\ \A j \in 1..end(k) - starts[k] + 1 : s[k][j] = ls[starts[k] + j - 1]
  <2> DEFINE a == starts[k]
             z == end(k)
  <2>1. a \in 1..n /\ z \in a..n
    BY <1>11
  <2>2. s[k] = SubSeq(ls, a, z)
    BY <1>2, <1>9
  <2> HIDE DEF a, z
  <2>3. a \in 1..Len(ls) + 1 /\ z \in a - 1..Len(ls)
    BY <1>1, <2>1 DEF n
  <2>4. /\ SubSeq(ls, a, z) \in Seq(Kept) /\ Len(SubSeq(ls, a, z)) = z - a + 1
        /\ \A j \in 1..z - a + 1 : SubSeq(ls, a, z)[j] = ls[a + j - 1]
    BY <2>3, PieceOf
  <2> QED
    BY <2>2, <2>4 DEF a, z
<1> HIDE DEF end
<1>13. s \in Seq(Seq(Kept)) /\ Len(s) = m
  <2>1. s = [k \in 1..m |-> s[k]]
    BY <1>2, <1>9
  <2>2. s \in [1..m -> Seq(Kept)]
    BY <1>12, <2>1
  <2> QED
    BY <1>6, <2>2
<1>14. ASSUME NEW k \in 1..m
       PROVE  s[k] # <<>> /\ Len(s[k]) \in Nat /\ \A j \in 1..Len(s[k]) : s[k][j] \in Range(ls)
  <2>1. Len(s[k]) \in Nat \ {0}
    BY <1>1, <1>11, <1>12
  <2>2. s[k] # <<>>
    BY <2>1
  <2>3. ASSUME NEW j \in 1..Len(s[k]) PROVE s[k][j] \in Range(ls)
    <3>1. s[k][j] = ls[starts[k] + j - 1]
      BY <1>12
    <3>2. starts[k] + j - 1 \in 1..n
      BY <1>1, <1>11, <1>12
    <3> QED
      BY <1>1, <3>1, <3>2
  <2> QED
    BY <2>1, <2>2, <2>3
<1>15. ASSUME NEW i \in 1..n PROVE \E k \in 1..m : \E j \in 1..Len(s[k]) : s[k][j] = ls[i]
  <2> DEFINE K == {k \in 1..m : starts[k] <= i}
  <2>1. K \in SUBSET (1..m) /\ 1 \in K
    BY <1>6, <1>10
  <2>2. IsFiniteSet(K) /\ K \subseteq Int
    BY <1>6, <2>1, SomePlaces
  <2> HIDE DEF K
  <2>3. Max(K) \in K /\ \A k \in K : k <= Max(K)
    BY <2>1, <2>2, GreatestOf
  <2>4. PICK k \in 1..m : starts[k] <= i /\ \A l \in 1..m : starts[l] <= i => l <= k
    BY <2>1, <2>3 DEF K
  <2>5. i <= end(k)
    <3>1. CASE k = m
      BY <1>1, <1>6, <3>1 DEF end
    <3>2. CASE k # m
      <4>1. k + 1 \in 1..m
        BY <1>6, <3>2
      <4>2. ~(starts[k + 1] <= i)
        BY <2>4, <4>1
      <4>3. starts[k + 1] \in 1..n
        BY <1>3, <1>6, <4>1
      <4> QED
        BY <1>1, <1>6, <3>2, <4>2, <4>3 DEF end
    <3> QED
      BY <3>1, <3>2
  <2>6. starts[k] \in 1..n /\ end(k) \in starts[k]..n
    BY <1>11
  <2>7. i - starts[k] + 1 \in 1..end(k) - starts[k] + 1 /\ starts[k] + (i - starts[k] + 1) - 1 = i
    BY <1>1, <2>4, <2>5, <2>6
  <2>8. s[k][i - starts[k] + 1] = ls[i]
    BY <1>12, <2>7
  <2> QED
    BY <1>12, <2>7, <2>8
<1>16. ASSUME NEW k \in 1..m
       PROVE  \E a, z \in 1..n : /\ a <= z /\ Len(s[k]) = z - a + 1
                                 /\ \A j \in 1..z - a + 1 : s[k][j] = ls[a + j - 1]
                                 /\ \A x \in a + 1..z : SectionOf(ls[x].line) = NoName
  <2>1. starts[k] \in 1..n /\ end(k) \in starts[k]..n
    BY <1>11
  <2>2. ASSUME NEW x \in starts[k] + 1..end(k), SectionOf(ls[x].line) # NoName PROVE FALSE
    <3>1. x \in 1..n /\ starts[k] < x /\ x <= end(k)
      BY <1>1, <2>1
    <3>2. x \in S
      BY <1>1, <2>2, <3>1 DEF S
    <3>3. PICK c \in 1..m : starts[c] = x
      BY <1>6, <1>8, <3>2
    <3>4. c # k /\ ~(c < k)
      <4>1. c < k => starts[c] < starts[k]
        BY <1>7
      <4>2. ~(x < starts[k]) /\ x # starts[k]
        BY <1>1, <2>1, <3>1
      <4> QED
        BY <3>3, <4>1, <4>2
    <3>5. k + 1 \in 1..m /\ (k + 1 = c \/ k + 1 < c)
      BY <1>6, <3>4
    <3>6. starts[k + 1] \in 1..n /\ (k + 1 < c => starts[k + 1] < starts[c])
      BY <1>3, <1>6, <1>7, <3>5
    <3>7. starts[k + 1] <= x
      BY <1>1, <3>1, <3>3, <3>5, <3>6
    <3>8. end(k) = starts[k + 1] - 1
      BY <1>6, <3>5 DEF end
    <3> QED
      BY <1>1, <3>1, <3>6, <3>7, <3>8
  <2>3. /\ Len(s[k]) = end(k) - starts[k] + 1
        /\ \A j \in 1..end(k) - starts[k] + 1 : s[k][j] = ls[starts[k] + j - 1]
        /\ \A x \in starts[k] + 1..end(k) : SectionOf(ls[x].line) = NoName
    BY <1>12, <2>2
  <2>4. starts[k] \in 1..n /\ end(k) \in 1..n /\ starts[k] <= end(k)
    BY <1>1, <2>1
  <2> QED
    BY <2>3, <2>4
<1> QED
  BY <1>13, <1>14, <1>15, <1>16 DEF s, n

\* What a flush hands over says what was in the buffer, and nothing else.
Hands(pieces) ==
    /\ pieces \in Seq(Pieces)
    /\ \A k \in 1..Len(pieces) :
         /\ ~pieces[k].table /\ ~pieces[k].cutting
         /\ \A ch \in Range(pieces[k].text) : \E i \in 1..Len(buffer) : ch[2] = buffer[i].line
    /\ \A i \in 1..Len(buffer) : \A ch \in SolidIn(CharsOf(buffer[i].line)) :
         \E k \in 1..Len(pieces) : ch \in SolidIn(pieces[k].text)

LEMMA OnePiece ==
    ASSUME IsDocument(doc), buffer \in Seq(Kept), buffer # <<>>, NEW c \in Contexts
    PROVE  Hands(<<Piece(TextOf(buffer), buffer[1].page, c)>>)
<1> DEFINE q == Piece(TextOf(buffer), buffer[1].page, c)
<1>1. buffer[1].page \in Nat
  <2>1. buffer[1] \in Kept
    BY EmptySeq
  <2> QED
    BY <2>1 DEF Kept
<1>2. /\ q \in Pieces /\ ~q.table /\ ~q.cutting
      /\ SolidIn(q.text) = UNION {SolidIn(CharsOf(buffer[i].line)) : i \in 1..Len(buffer)}
      /\ \A ch \in Range(q.text) : \E i \in 1..Len(buffer) : ch[2] = buffer[i].line
  BY <1>1, PieceSays
<1> HIDE DEF q
<1>3. <<q>> \in Seq(Pieces) /\ Len(<<q>>) = 1 /\ <<q>>[1] = q
  BY <1>2
<1>4. \A i \in 1..Len(buffer) : \A ch \in SolidIn(CharsOf(buffer[i].line)) : ch \in SolidIn(q.text)
  BY <1>2
<1>5. Hands(<<q>>)
  BY <1>2, <1>3, <1>4 DEF Hands
<1> QED
  BY <1>5 DEF q

LEMMA NoPiece == ASSUME buffer = <<>> PROVE Hands(<<>>)
<1>1. Len(buffer) = 0 /\ Len(<<>>) = 0
  OBVIOUS
<1>2. <<>> \in Seq(Pieces)
  BY EmptySeq
<1>3. (1..Len(buffer)) = {} /\ (1..Len(<<>>)) = {}
  BY <1>1
<1> QED
  BY <1>2, <1>3 DEF Hands

LEMMA ArticleHands ==
    ASSUME IsDocument(doc), buffer \in Seq(Kept), context \in Contexts
    PROVE  Hands(ArticlePieces)
<1> DEFINE parts == Sections(buffer)
           In(section) == [context EXCEPT !.section = section]
           piece(k) == Piece(TextOf(parts[k]), parts[k][1].page, In(SectionOf(parts[k][1].line)))
           cut == [k \in DOMAIN parts |-> piece(k)]
<1>1. ASSUME NEW section \in Names PROVE In(section) \in Contexts
  BY DEF Contexts
<1>2. CASE buffer = <<>>
  BY <1>2, NoPiece DEF ArticlePieces
<1>3. CASE buffer # <<>> /\ Fits(TextOf(buffer))
  <2>1. In(NoName) \in Contexts
    BY <1>1 DEF Names
  <2>2. ArticlePieces = <<Piece(TextOf(buffer), buffer[1].page, In(NoName))>>
    BY <1>3 DEF ArticlePieces
  <2> HIDE DEF In
  <2> QED
    BY <1>3, <2>1, <2>2, OnePiece
<1>4. CASE buffer # <<>> /\ ~Fits(TextOf(buffer))
  <2>1. ArticlePieces = cut
    BY <1>4 DEF ArticlePieces
  <2>2. /\ parts \in Seq(Seq(Kept))
        /\ \A k \in 1..Len(parts) :
             /\ parts[k] # <<>> /\ Len(parts[k]) \in Nat
             /\ \A i \in 1..Len(parts[k]) : parts[k][i] \in Range(buffer)
        /\ \A i \in 1..Len(buffer) : \E k \in 1..Len(parts) :
             \E j \in 1..Len(parts[k]) : parts[k][j] = buffer[i]
    BY <1>4, SectionsCover
  <2> HIDE DEF parts
  <2>3. Len(parts) \in Nat /\ DOMAIN parts = 1..Len(parts) /\ \A k \in 1..Len(parts) : parts[k] \in Seq(Kept)
    BY <2>2, Places1
  <2>4. Range(buffer) = {buffer[i] : i \in 1..Len(buffer)}
    BY Places1
  <2>5. ASSUME NEW k \in 1..Len(parts)
        PROVE  /\ piece(k) \in Pieces /\ ~piece(k).table /\ ~piece(k).cutting
               /\ SolidIn(piece(k).text) = UNION {SolidIn(CharsOf(parts[k][i].line)) : i \in 1..Len(parts[k])}
               /\ \A ch \in Range(piece(k).text) : \E i \in 1..Len(parts[k]) : ch[2] = parts[k][i].line
    <3>1. parts[k][1] \in Kept
      BY <2>2, <2>3, EmptySeq
    <3>2. parts[k][1].page \in Nat /\ parts[k][1].line \in DocLine
      BY <3>1 DEF Kept
    <3>3. SectionOf(parts[k][1].line) \in Names
      BY <3>2, TurnType
    <3>4. In(SectionOf(parts[k][1].line)) \in Contexts
      BY <1>1, <3>3
    <3> HIDE DEF In
    <3> QED
      BY <2>3, <3>2, <3>4, PieceSays
  <2> HIDE DEF piece
  <2>6. cut \in [1..Len(parts) -> Pieces] /\ \A k \in 1..Len(parts) : cut[k] = piece(k)
    BY <2>3, <2>5
  <2>7. cut \in Seq(Pieces) /\ Len(cut) = Len(parts)
    <3> HIDE DEF cut
    <3> QED
      BY <2>3, <2>6
  <2> HIDE DEF cut
  <2>8. ASSUME NEW k \in 1..Len(cut)
        PROVE  /\ ~cut[k].table /\ ~cut[k].cutting
               /\ \A ch \in Range(cut[k].text) : \E i \in 1..Len(buffer) : ch[2] = buffer[i].line
    <3>1. k \in 1..Len(parts) /\ cut[k] = piece(k)
      BY <2>6, <2>7
    <3>2. ASSUME NEW ch \in Range(piece(k).text) PROVE \E i \in 1..Len(buffer) : ch[2] = buffer[i].line
      <4>1. PICK i \in 1..Len(parts[k]) : ch[2] = parts[k][i].line
        BY <2>5, <3>1
      <4>2. PICK j \in 1..Len(buffer) : parts[k][i] = buffer[j]
        BY <2>2, <2>4, <3>1
      <4> QED
        BY <4>1, <4>2
    <3> QED
      BY <2>5, <3>1, <3>2
  <2>9. ASSUME NEW i \in 1..Len(buffer), NEW ch \in SolidIn(CharsOf(buffer[i].line))
        PROVE  \E k \in 1..Len(cut) : ch \in SolidIn(cut[k].text)
    <3>1. PICK k \in 1..Len(parts) : \E j \in 1..Len(parts[k]) : parts[k][j] = buffer[i]
      BY <2>2
    <3>2. ch \in SolidIn(piece(k).text)
      BY <2>5, <3>1
    <3> QED
      BY <2>6, <2>7, <3>1, <3>2
  <2>10. Hands(cut)
    BY <2>7, <2>8, <2>9 DEF Hands
  <2> QED
    BY <2>1, <2>10
<1> QED
  BY <1>2, <1>3, <1>4

LEMMA HeadedHands ==
    ASSUME IsDocument(doc), buffer \in Seq(Kept), context \in Contexts
    PROVE  Hands(HeadedPieces)
BY OnePiece, NoPiece DEF HeadedPieces

LEMMA TablePieceSays ==
    ASSUME IsDocument(doc), context \in Contexts, NEW b \in Blocks, NEW section \in Names,
           NEW lead \in Seq(Char)
    PROVE  LET q == TablePiece(b, section, lead)
           IN  /\ q \in Pieces /\ q.table /\ q.text = Joined(b.lines)
               /\ SolidIn(q.text) = UNION {SolidIn(CharsOf(l)) : l \in Range(b.lines)}
<1> DEFINE q == TablePiece(b, section, lead)
<1>1. /\ Joined(b.lines) \in Seq(Char)
      /\ SolidIn(Joined(b.lines)) = UNION {SolidIn(CharsOf(l)) : l \in Range(b.lines)}
  BY BlockLines, JoinedSays
<1>2. b.page \in Nat
  BY BlockLines
<1>3. context.article \in Names /\ context.title \in Nat
  BY DEF Contexts
<1>4. q = [text |-> Joined(b.lines), page |-> b.page, table |-> TRUE, lead |-> lead,
           article |-> context.article, title |-> context.title, section |-> section,
           cutting |-> FALSE]
  BY DEF TablePiece
<1>5. q \in Pieces
  BY <1>1, <1>2, <1>3, <1>4 DEF Pieces
<1> HIDE DEF q
<1>6. q.table /\ q.text = Joined(b.lines)
  BY <1>4
<1> QED
  BY <1>1, <1>5, <1>6 DEF q

LEMMA TableSectionType ==
    ASSUME IsDocument(doc), context \in Contexts, NEW b \in Blocks
    PROVE  TableSection(b) \in Names
<1>1. b.lines[1] \in DocLine
  BY BlockLines
<1>2. context.section \in Names /\ doc[b.lines[1]].name \in Names
  BY <1>1 DEF Contexts, Names
<1> QED
  BY <1>2 DEF TableSection

-----------------------------------------------------------------------------
(* The inductive invariant                                                 *)

\* What a document is read from, and by which path.
Entered ==
    /\ IsEntry(entry) /\ IsDocument(doc)
    /\ docType = entry.docType /\ engine = entry.engine /\ form = entry.form
    /\ path \in {"wage", "convert", "legacy"}
    /\ path = "wage" => doc = entry.doc

Typed ==
    /\ pos \in 1..Len(doc) + 2 /\ page \in Nat
    /\ text \in Seq(DocLine) /\ rows \in Seq(DocLine) /\ blocks \in Seq(Blocks)
    /\ blockNo \in Nat \ {0} /\ lineNo \in Nat \ {0}
    /\ context \in Contexts /\ buffer \in Seq(Kept)
    /\ queue \in Seq(Pieces) /\ out \in Seq(Pieces)

Unread == text = <<>> /\ rows = <<>> /\ blocks = <<>>
Unchunked == /\ blockNo = 1 /\ lineNo = 1 /\ context = NoContext
             /\ buffer = <<>> /\ queue = <<>>

\* One thing after the other: no chunk before the last line is read.
InTurn ==
    /\ path # "legacy" => Unread /\ Unchunked
    /\ path = "convert" => pos = 1
    /\ ~Extracted => Unchunked /\ out = <<>>
    /\ path # "wage" => parsed = <<>>

\* What is pending is a run of pipe lines or text, never both.
Pending ==
    /\ \A i \in 1..Len(rows) : Pipe(rows[i])
    /\ rows # <<>> => text = <<>>
    /\ (Extracted \/ engine = "none") => text = <<>> /\ rows = <<>>

\* The chunker reads a line there is.
AtBlockIn(bs, n, k) ==
    /\ n <= Len(bs) + 2
    /\ n \in 1..Len(bs) => IF bs[n].table THEN k = 1 ELSE k <= Len(Solid(bs[n].lines))

AtBlock == AtBlockIn(blocks, blockNo, lineNo) /\ (blockNo > Len(blocks) + 1 => buffer = <<>>)

Keywords == UNION {doc[l].keywords : l \in DocLine}
Dated == {l \in DocLine : doc[l].kind = "rates"}
RateRows == {RateRow(l, band) : l \in Dated, band \in SUBSET Keywords}
Groups == {g \in [labels : Seq(DocLine), rates : Seq(RateRows)] : g.rates # <<>>}
FormPages == [number : Nat, read : [groups : Seq(Groups), notes : Seq(DocLine)]]

FormChunks == FlattenSeq([i \in DOMAIN parsed |-> PageChunks(parsed[i])])

FormRead ==
    /\ parsed \in Seq(FormPages)
    /\ path = "wage" => out = IF Extracted THEN FormChunks ELSE <<>>

TypeInv == Entered /\ Typed /\ InTurn /\ Pending /\ AtBlock /\ FormRead

\* What the chunker at line k of block n of bs has before it.
AheadIn(l, bs, n, k) ==
    \/ \E b \in n + 1..Len(bs) : l \in Range(bs[b].lines)
    \/ /\ n \in 1..Len(bs)
       /\ IF bs[n].table THEN l \in Range(bs[n].lines)
          ELSE \E j \in k..Len(Solid(bs[n].lines)) : Solid(bs[n].lines)[j] = l

Ahead(l) == AheadIn(l, blocks, blockNo, lineNo)

Waiting(l) == \/ l \in Range(text) \/ l \in Range(rows) \/ Ahead(l)
              \/ \E i \in 1..Len(buffer) : buffer[i].line = l

Written(ch) == \/ \E i \in 1..Len(queue) : ch \in SolidIn(queue[i].text)
               \/ \E i \in 1..Len(out) : ch \in SolidIn(out[i].text)

\* A line that was read and has something to say waits to be chunked, or it was.
NothingDropped ==
    \A l \in Content :
      l < pos =>
        IF path = "wage" THEN \E i \in 1..Len(parsed) : l \in Range(parsed[i].read.notes)
        ELSE Waiting(l) \/ \A ch \in SolidIn(CharsOf(l)) : Written(ch)

\* What a chunk of text is cut to.
TextCut == path = "legacy" => \A i \in 1..Len(out) :
                                ~out[i].table => Len(out[i].text) < MaxChars + CharsPerToken

-----------------------------------------------------------------------------
(* Steps of the reader                                                     *)

InBlock(l, bs) == \E i \in 1..Len(bs) : l \in Range(bs[i].lines)

\* The lines read or pending that have something to say, kept with more blocks.
Carries(more) ==
    \A l \in DocLine :
      /\ Said(l) /\ doc[l].kind # "page"
      /\ l \in pos..pos' - 1 \/ l \in Range(text) \/ l \in Range(rows)
      => l \in Range(text') \/ l \in Range(rows') \/ InBlock(l, more)

PendingNext ==
    /\ text' \in Seq(DocLine) /\ rows' \in Seq(DocLine)
    /\ \A i \in 1..Len(rows') : Pipe(rows'[i])
    /\ rows' # <<>> => text' = <<>>
    /\ (pos' > Len(doc) + 1 \/ engine = "none") => text' = <<>> /\ rows' = <<>>

\* A step of the reader adds blocks, and drops no line that has something to say.
Reads ==
    /\ ~Extracted /\ doc' = doc /\ pos' \in pos + 1..Len(doc) + 2 /\ page' \in Nat
    /\ PendingNext
    /\ \E more \in Seq(Blocks) : blocks' = blocks \o more /\ Carries(more)

LEMMA FlushedAll ==
    ASSUME TypeInv
    PROVE  \E more \in Seq(Blocks) :
             /\ Flushed = blocks \o more
             /\ \A l \in DocLine : Said(l) /\ (l \in Range(text) \/ l \in Range(rows)) => InBlock(l, more)
<1>1. /\ IsDocument(doc) /\ page \in Nat /\ text \in Seq(DocLine) /\ rows \in Seq(DocLine)
      /\ blocks \in Seq(Blocks) /\ (\A i \in 1..Len(rows) : Pipe(rows[i]))
      /\ rows # <<>> => text = <<>>
  BY DEF TypeInv, Entered, Typed, Pending
<1>2. PICK more \in Seq(Blocks) :
        /\ Flushed = blocks \o more
        /\ \A l \in (IF InTable THEN Range(rows) ELSE Range(text)) :
             Said(l) => \E i \in 1..Len(more) : l \in Range(more[i].lines)
  BY <1>1, FlushedMore
<1>3. Range(<<>>) = {}
  BY DEF Range
<1>4. \A l \in DocLine : Said(l) /\ (l \in Range(text) \/ l \in Range(rows)) => InBlock(l, more)
  BY <1>1, <1>2, <1>3 DEF InTable, InBlock
<1> QED
  BY <1>2, <1>4

LEMMA AppendSays ==
    ASSUME NEW A, NEW s \in Seq(A), NEW a \in A
    PROVE  /\ Append(s, a) \in Seq(A) /\ Len(Append(s, a)) = Len(s) + 1 /\ Append(s, a) # <<>>
           /\ Range(Append(s, a)) = Range(s) \cup {a}
           /\ \A i \in 1..Len(Append(s, a)) : (i \in 1..Len(s) /\ Append(s, a)[i] = s[i])
                                              \/ (i = Len(s) + 1 /\ Append(s, a)[i] = a)
<1> DEFINE t == Append(s, a)
<1>1. /\ t \in Seq(A) /\ Len(t) = Len(s) + 1 /\ t[Len(s) + 1] = a /\ t # <<>>
      /\ \A i \in 1..Len(s) : t[i] = s[i]
  BY AppendProperties
<1> HIDE DEF t
<1>2. Len(s) \in Nat /\ Range(s) = {s[i] : i \in 1..Len(s)} /\ Range(t) = {t[i] : i \in 1..Len(t)}
  BY <1>1, Places1
<1>3. \A i \in 1..Len(t) : (i \in 1..Len(s) /\ t[i] = s[i]) \/ (i = Len(s) + 1 /\ t[i] = a)
  BY <1>1, <1>2
<1>4. (\A i \in 1..Len(s) : i \in 1..Len(t)) /\ Len(s) + 1 \in 1..Len(t)
  BY <1>1, <1>2
<1>5. Range(t) = Range(s) \cup {a}
  BY <1>1, <1>2, <1>3, <1>4
<1> QED
  BY <1>1, <1>3, <1>5 DEF t

LEMMA MarkdownReads ==
    ASSUME TypeInv, ExtractMarkdown, engine # "none"
    PROVE  Reads
<1>1. /\ IsDocument(doc) /\ pos \in 1..Len(doc) + 2 /\ page \in Nat
      /\ text \in Seq(DocLine) /\ rows \in Seq(DocLine) /\ blocks \in Seq(Blocks)
      /\ (\A i \in 1..Len(rows) : Pipe(rows[i])) /\ (rows # <<>> => text = <<>>)
  BY DEF TypeInv, Entered, Typed, Pending
<1>2. Len(doc) \in Nat
  BY <1>1, DocumentLines
<1>3. PICK more \in Seq(Blocks) :
        /\ Flushed = blocks \o more
        /\ \A l \in DocLine : Said(l) /\ (l \in Range(text) \/ l \in Range(rows)) => InBlock(l, more)
  BY FlushedAll
<1>4. Range(<<>>) = {} /\ <<>> \in Seq(DocLine) /\ \A i \in 1..Len(<<>>) : FALSE
  BY EmptySeq DEF Range
<1>5. blocks = blocks \o <<>> /\ <<>> \in Seq(Blocks)
  BY <1>1, EmptySeq
<1>6. AtLine => /\ ~Extracted /\ pos \in DocLine /\ pos + 1 \in pos + 1..Len(doc) + 2
                /\ ~(pos + 1 > Len(doc) + 1)
  BY <1>1, <1>2 DEF AtLine, Extracted, DocLine
<1>0. pos' = pos + 1 => \A l \in DocLine : l \in pos..pos' - 1 => l = pos
  <2> SUFFICES ASSUME pos' = pos + 1, NEW l \in DocLine, l \in pos..pos' - 1 PROVE l = pos
    OBVIOUS
  <2>1. pos' - 1 = pos /\ l \in Nat /\ pos \in Nat
    BY <1>1, <1>2, DocumentLines
  <2>2. l \in pos..pos
    BY <2>1
  <2> QED
    BY <2>1, <2>2
<1>7. CASE ReadPage
  <2>1. /\ AtLine /\ doc[pos].kind = "page" /\ blocks' = Flushed /\ page' = PageNumber(pos)
        /\ text' = <<>> /\ rows' = <<>> /\ pos' = pos + 1 /\ doc' = doc
    BY <1>7 DEF ReadPage
  <2>2. page' \in Nat
    <3>1. PageNumber(pos) \in Nat
      BY <1>1, <1>6, <2>1, PageNumberType
    <3> QED
      BY <2>1, <3>1
  <2>3. PendingNext
    BY <1>4, <2>1 DEF PendingNext
  <2>4. Carries(more)
    BY <1>0, <1>3, <2>1 DEF Carries
  <2>5. ~Extracted /\ pos' \in pos + 1..Len(doc) + 2
    BY <1>6, <2>1
  <2> QED
    BY <1>3, <2>1, <2>2, <2>3, <2>4, <2>5 DEF Reads
<1>8. CASE ReadPipe
  <2>1. /\ AtLine /\ Pipe(pos) /\ blocks' = (IF InTable THEN blocks ELSE Flushed)
        /\ rows' = Append(rows, pos) /\ text' = <<>> /\ pos' = pos + 1 /\ doc' = doc /\ page' = page
    BY <1>8 DEF ReadPipe
  <2>2. /\ rows' \in Seq(DocLine) /\ Range(rows') = Range(rows) \cup {pos}
        /\ \A i \in 1..Len(rows') : Pipe(rows'[i])
    <3>1. pos \in DocLine
      BY <1>6, <2>1
    <3>2. /\ rows' \in Seq(DocLine) /\ Range(rows') = Range(rows) \cup {pos}
          /\ \A i \in 1..Len(rows') : (i \in 1..Len(rows) /\ rows'[i] = rows[i])
                                      \/ (i = Len(rows) + 1 /\ rows'[i] = pos)
      BY <1>1, <2>1, <3>1, AppendSays
    <3> QED
      BY <1>1, <2>1, <3>2
  <2>3. PendingNext
    <3>1. engine # "none" /\ ~(pos' > Len(doc) + 1)
      BY <1>6, <2>1
    <3> QED
      BY <1>4, <2>1, <2>2, <3>1 DEF PendingNext
  <2>4. ~Extracted /\ pos' \in pos + 1..Len(doc) + 2 /\ page' \in Nat
    BY <1>1, <1>6, <2>1
  <2>5. CASE InTable
    <3>1. \A l \in DocLine : l \in Range(text) => FALSE
      BY <1>1, <1>4, <2>5 DEF InTable
    <3>2. Carries(<<>>)
      BY <1>0, <2>1, <2>2, <3>1 DEF Carries
    <3> QED
      BY <1>5, <2>1, <2>3, <2>4, <2>5, <3>2 DEF Reads
  <2>6. CASE ~InTable
    <3>1. Carries(more)
      BY <1>0, <1>3, <2>1, <2>2 DEF Carries
    <3> QED
      BY <1>3, <2>1, <2>3, <2>4, <2>6, <3>1 DEF Reads
  <2> QED
    BY <2>5, <2>6
<1>9. CASE ReadHeading
  <2>1. /\ AtLine /\ blocks' = Flushed /\ text' = <<pos>> /\ rows' = <<>>
        /\ pos' = pos + 1 /\ doc' = doc /\ page' = page
    BY <1>9 DEF ReadHeading
  <2>2. text' \in Seq(DocLine) /\ pos \in Range(text')
    <3>1. pos \in DocLine
      BY <1>6, <2>1
    <3>2. <<pos>> \in Seq(DocLine) /\ 1 \in DOMAIN <<pos>> /\ <<pos>>[1] = pos
      BY <3>1
    <3> QED
      BY <2>1, <3>2 DEF Range
  <2>3. PendingNext
    <3>1. engine # "none" /\ ~(pos' > Len(doc) + 1)
      BY <1>6, <2>1
    <3> QED
      BY <1>4, <2>1, <2>2, <3>1 DEF PendingNext
  <2>4. Carries(more)
    BY <1>0, <1>3, <2>1, <2>2 DEF Carries
  <2>5. ~Extracted /\ pos' \in pos + 1..Len(doc) + 2 /\ page' \in Nat
    BY <1>1, <1>6, <2>1
  <2> QED
    BY <1>3, <2>1, <2>3, <2>4, <2>5 DEF Reads
<1>10. CASE ReadText
  <2>1. /\ AtLine /\ blocks' = (IF InTable THEN Flushed ELSE blocks) /\ text' = Append(text, pos)
        /\ rows' = <<>> /\ pos' = pos + 1 /\ doc' = doc /\ page' = page
    BY <1>10 DEF ReadText
  <2>2. text' \in Seq(DocLine) /\ Range(text') = Range(text) \cup {pos}
    <3>1. pos \in DocLine
      BY <1>6, <2>1
    <3> QED
      BY <1>1, <2>1, <3>1, AppendSays
  <2>3. PendingNext
    <3>1. engine # "none" /\ ~(pos' > Len(doc) + 1)
      BY <1>6, <2>1
    <3> QED
      BY <1>4, <2>1, <2>2, <3>1 DEF PendingNext
  <2>4. ~Extracted /\ pos' \in pos + 1..Len(doc) + 2 /\ page' \in Nat
    BY <1>1, <1>6, <2>1
  <2>5. CASE InTable
    <3>1. Carries(more)
      BY <1>0, <1>3, <2>1, <2>2 DEF Carries
    <3> QED
      BY <1>3, <2>1, <2>3, <2>4, <2>5, <3>1 DEF Reads
  <2>6. CASE ~InTable
    <3>1. \A l \in DocLine : l \in Range(rows) => FALSE
      BY <1>4, <2>6 DEF InTable
    <3>2. Carries(<<>>)
      BY <1>0, <2>1, <2>2, <3>1 DEF Carries
    <3> QED
      BY <1>5, <2>1, <2>3, <2>4, <2>6, <3>2 DEF Reads
  <2> QED
    BY <2>5, <2>6
<1>11. CASE EndOfFile
  <2>1. /\ pos = Len(doc) + 1 /\ blocks' = Flushed /\ text' = <<>> /\ rows' = <<>>
        /\ pos' = pos + 1 /\ doc' = doc /\ page' = page
    BY <1>11 DEF EndOfFile
  <2>2. ~Extracted /\ pos' \in pos + 1..Len(doc) + 2 /\ \A l \in DocLine : l \in pos..pos' - 1 => FALSE
    BY <1>1, <1>2, <2>1 DEF Extracted, DocLine
  <2>3. PendingNext
    BY <1>4, <2>1 DEF PendingNext
  <2>4. Carries(more)
    BY <1>3, <2>2 DEF Carries
  <2> QED
    BY <1>1, <1>3, <2>1, <2>2, <2>3, <2>4 DEF Reads
<1> QED
  BY <1>7, <1>8, <1>9, <1>10, <1>11 DEF ExtractMarkdown

LEMMA PdfReads ==
    ASSUME TypeInv, ExtractPdf, engine = "none"
    PROVE  Reads
<1>1. /\ IsDocument(doc) /\ pos \in 1..Len(doc) + 2 /\ page \in Nat
      /\ blocks \in Seq(Blocks) /\ text = <<>> /\ rows = <<>>
  BY DEF TypeInv, Entered, Typed, Pending
<1>2. Len(doc) \in Nat
  BY <1>1, DocumentLines
<1>3. Range(<<>>) = {} /\ <<>> \in Seq(DocLine) /\ <<>> \in Seq(Blocks) /\ \A i \in 1..Len(<<>>) : FALSE
  BY EmptySeq DEF Range
<1>4. CASE ExtractPage
  <2> DEFINE number == PageNumber(pos)
             printed == {k \in LinesOfPage(pos) : doc[k].kind \notin {"rule", "blank"}}
             words == [table |-> FALSE, page |-> number, lines |-> InOrder(printed)]
             last == IF printed = {} THEN <<>> ELSE <<words>>
             tables == TablesOfPage(pos)
  <2>1. /\ AtLine /\ doc[pos].kind = "page" /\ blocks' = blocks \o tables \o last
        /\ page' = number /\ pos' = pos + 1 + Cardinality(LinesOfPage(pos))
        /\ doc' = doc /\ text' = text /\ rows' = rows
    BY <1>4 DEF ExtractPage
  <2>2. ~Extracted /\ pos \in DocLine
    BY <1>1, <1>2, <2>1 DEF AtLine, Extracted, DocLine
  <2>3. PICK e \in pos..Len(doc) : LinesOfPage(pos) = pos + 1..e /\ Cardinality(LinesOfPage(pos)) = e - pos
    BY <1>1, <2>2, PageRuns
  <2>4. pos' = e + 1 /\ pos' \in pos + 1..Len(doc) + 2
    BY <1>1, <1>2, <2>1, <2>3
  <2>5. number \in Nat
    BY <1>1, <2>2, PageNumberType
  <2>6. tables \in Seq(Blocks)
    BY <1>1, <2>2, TablesType
  <2>7. printed \in SUBSET DocLine
    BY <1>1, <1>2, <2>3 DEF DocLine
  <2> HIDE DEF number, tables
  <2>8. last \in Seq(Blocks) /\ \A l \in printed : InBlock(l, last)
    <3>1. CASE printed = {}
      BY <1>3, <3>1
    <3>2. CASE printed # {}
      <4> DEFINE ls == InOrder(printed)
      <4>1. ls \in Seq(DocLine) /\ Range(ls) = printed
        BY <1>1, <2>7, InOrderLists
      <4>2. Range(ls) = {ls[i] : i \in 1..Len(ls)}
        BY ZenonT(40), <4>1, Places1
      <4> HIDE DEF ls
      <4>3. \E i \in 1..Len(ls) : ~Silent(ls[i])
        BY <3>2, <4>1, <4>2 DEF Silent
      <4>4. words = [table |-> FALSE, page |-> number, lines |-> ls]
        BY DEF ls
      <4>5. words \in Blocks /\ words.lines = ls
        BY <2>5, <4>1, <4>3, <4>4 DEF Blocks
      <4> HIDE DEF words
      <4>6. last = <<words>> /\ <<words>> \in Seq(Blocks) /\ 1 \in 1..Len(<<words>>) /\ <<words>>[1] = words
        BY <3>2, <4>5
      <4> QED
        BY <4>1, <4>5, <4>6 DEF InBlock
    <3> QED
      BY <3>1, <3>2
  <2> HIDE DEF last
  <2>9. tables \o last \in Seq(Blocks) /\ blocks' = blocks \o (tables \o last)
    <3>1. tables \o last \in Seq(Blocks)
      BY <2>6, <2>8, ConcatProperties
    <3>2. blocks \in Seq(Blocks)
      BY <1>1
    <3>3. (blocks \o tables) \o last = blocks \o (tables \o last)
      BY SMTT(30), <2>6, <2>8, <3>2, ConcatAssociative
    <3> QED
      BY <2>1, <3>1, <3>3
  <2>10. \A l \in printed : InBlock(l, tables \o last)
    <3> SUFFICES ASSUME NEW l \in printed PROVE InBlock(l, tables \o last)
      OBVIOUS
    <3>1. PICK i \in 1..Len(last) : l \in Range(last[i].lines)
      BY <2>8 DEF InBlock
    <3>2. /\ Len(tables) \in Nat /\ Len(last) \in Nat
          /\ Len(tables \o last) = Len(tables) + Len(last)
          /\ (tables \o last)[Len(tables) + i] = last[i]
      BY <2>6, <2>8, ConcatProperties, LenProperties
    <3>3. Len(tables) + i \in 1..Len(tables \o last)
      BY <3>2
    <3> QED
      BY <3>1, <3>2, <3>3 DEF InBlock
  <2>11. Carries(tables \o last)
    <3> SUFFICES ASSUME NEW l \in DocLine, Said(l), doc[l].kind # "page",
                        l \in pos..pos' - 1 \/ l \in Range(text) \/ l \in Range(rows)
                 PROVE  InBlock(l, tables \o last)
      BY DEF Carries
    <3>1. l \in pos..pos' - 1
      BY <1>1, <1>3
    <3>2. l # pos
      BY <2>1
    <3>3. l \in pos + 1..e
      BY <1>1, <1>2, <2>3, <2>4, <3>1, <3>2
    <3>4. l \in printed
      BY <2>3, <3>3 DEF Said
    <3> QED
      BY <2>10, <3>4
  <2>12. PendingNext
    BY <1>1, <1>3, <2>1 DEF PendingNext
  <2> QED
    BY <2>1, <2>2, <2>4, <2>5, <2>9, <2>11, <2>12 DEF Reads
<1>5. CASE EndOfPdf
  <2>1. /\ pos = Len(doc) + 1 /\ pos' = pos + 1 /\ doc' = doc /\ page' = page
        /\ text' = text /\ rows' = rows /\ blocks' = blocks
    BY <1>5 DEF EndOfPdf
  <2>2. ~Extracted /\ pos' \in pos + 1..Len(doc) + 2 /\ \A l \in DocLine : l \in pos..pos' - 1 => FALSE
    BY <1>1, <1>2, <2>1 DEF Extracted, DocLine
  <2>3. PendingNext
    BY <1>1, <1>3, <2>1 DEF PendingNext
  <2>4. Carries(<<>>)
    BY <1>1, <1>3, <2>2 DEF Carries
  <2>5. blocks' = blocks \o <<>>
    BY <1>1, <2>1
  <2> QED
    BY <1>1, <1>3, <2>1, <2>2, <2>3, <2>4, <2>5 DEF Reads
<1> QED
  BY <1>4, <1>5 DEF ExtractPdf

-----------------------------------------------------------------------------
(* A step that leaves the document as it is                                *)

LEMMA SameDocument ==
    ASSUME doc' = doc
    PROVE  /\ DocLine' = DocLine /\ Blocks' = Blocks /\ Names' = Names /\ Contexts' = Contexts
           /\ Kept' = Kept
<1>1. DocLine' = DocLine
  BY DEF DocLine
<1>2. Blocks' = Blocks
  BY <1>1 DEF Blocks, Silent
<1>3. Names' = Names
  BY <1>1 DEF Names
<1> QED
  BY <1>1, <1>2, <1>3 DEF Contexts, Kept

LEMMA SamePieces == ASSUME doc' = doc PROVE Pieces' = Pieces
<1>1. Names' = Names
  BY SameDocument
<1> QED
  BY <1>1 DEF Pieces

LEMMA SameForms ==
    ASSUME doc' = doc
    PROVE  FormPages' = FormPages
<1>1. DocLine' = DocLine
  BY SameDocument
<1>2. Keywords' = Keywords
  BY <1>1 DEF Keywords
<1>3. RateRows' = RateRows
  BY <1>1, <1>2 DEF RateRows, RateRow, Dated
<1>4. Groups' = Groups
  BY <1>1, <1>3 DEF Groups
<1> QED
  BY <1>1, <1>4 DEF FormPages

LEMMA SameAhead ==
    ASSUME doc' = doc
    PROVE  /\ \A l : Ahead(l)' = AheadIn(l, blocks', blockNo', lineNo')
           /\ AtBlockIn(blocks, blockNo, lineNo)' = AtBlockIn(blocks', blockNo', lineNo')
<1>1. ASSUME NEW l PROVE Ahead(l)' = AheadIn(l, blocks', blockNo', lineNo')
  BY DEF Ahead, AheadIn, Solid
<1>2. AtBlockIn(blocks, blockNo, lineNo)' = AtBlockIn(blocks', blockNo', lineNo')
  BY DEF AtBlockIn, Solid
<1> QED
  BY <1>1, <1>2

LEMMA SameContent ==
    ASSUME doc' = doc, path' = path, docType' = docType, form' = form
    PROVE  Content' = Content
BY DEF Content, BodyRead, RatesPage, PageOf, PageNumber

\* The chunker has before it the blocks it has not begun.
LEMMA OnTo ==
    ASSUME IsDocument(doc), NEW bs \in Seq(Blocks), NEW n \in 0..Len(bs)
    PROVE  /\ AtBlockIn(bs, n + 1, 1)
           /\ \A l : /\ ~Silent(l) /\ \E b \in n + 1..Len(bs) : l \in Range(bs[b].lines)
                     => AheadIn(l, bs, n + 1, 1)
<1> DEFINE m == n + 1
<1>1. Len(bs) \in Nat /\ m \in Nat \ {0} /\ m <= Len(bs) + 1 /\ \A i \in 1..Len(bs) : bs[i] \in Blocks
  BY Places1
<1> HIDE DEF m
<1>2. AtBlockIn(bs, m, 1)
  <2>1. ASSUME m \in 1..Len(bs), ~bs[m].table PROVE 1 <= Len(Solid(bs[m].lines))
    <3>1. /\ Len(Solid(bs[m].lines)) \in Nat /\ Solid(bs[m].lines) # <<>>
          /\ Solid(bs[m].lines) \in Seq(DocLine)
      BY <1>1, <2>1, BlockLines
    <3> QED
      BY <3>1, EmptySeq
  <2>2. m <= Len(bs) + 2
    BY <1>1
  <2> QED
    BY <2>1, <2>2 DEF AtBlockIn
<1>3. ASSUME NEW l, NEW i \in m..Len(bs), l \in Range(bs[i].lines), ~Silent(l) PROVE AheadIn(l, bs, m, 1)
  <2>0. i \in 1..Len(bs)
    BY <1>1
  <2>1. CASE i # m
    <3>1. i \in m + 1..Len(bs)
      BY <1>1, <2>1
    <3> QED
      BY <1>3, <3>1 DEF AheadIn
  <2>2. CASE i = m /\ bs[m].table
    BY <1>3, <2>0, <2>2 DEF AheadIn
  <2>3. CASE i = m /\ ~bs[m].table
    <3>1. /\ Solid(bs[m].lines) \in Seq(DocLine)
          /\ Range(Solid(bs[m].lines)) = {k \in Range(bs[m].lines) : ~Silent(k)}
      BY <1>1, <2>0, <2>3, BlockLines
    <3>2. l \in Range(Solid(bs[m].lines))
      BY <1>3, <2>3, <3>1
    <3>3. \E j \in 1..Len(Solid(bs[m].lines)) : Solid(bs[m].lines)[j] = l
      BY <3>1, <3>2, Places1
    <3> QED
      BY <2>0, <2>3, <3>3 DEF AheadIn
  <2> QED
    BY <2>1, <2>2, <2>3
<1> QED
  BY <1>2, <1>3 DEF m

LEMMA AheadAll ==
    ASSUME IsDocument(doc), NEW bs \in Seq(Blocks)
    PROVE  /\ AtBlockIn(bs, 1, 1)
           /\ \A l : InBlock(l, bs) /\ ~Silent(l) => AheadIn(l, bs, 1, 1)
<1>1. Len(bs) \in Nat
  BY LenProperties
<1>2. /\ AtBlockIn(bs, 0 + 1, 1)
      /\ \A l : /\ ~Silent(l) /\ \E b \in 0 + 1..Len(bs) : l \in Range(bs[b].lines)
                => AheadIn(l, bs, 0 + 1, 1)
  BY <1>1, OnTo
<1> QED
  BY <1>2 DEF InBlock

LEMMA InMore ==
    ASSUME NEW A, NEW bs \in Seq(A), NEW more \in Seq(A), NEW l
    PROVE  InBlock(l, bs \o more) <=> InBlock(l, bs) \/ InBlock(l, more)
<1> DEFINE all == bs \o more
           n == Len(bs)
           m == Len(more)
<1>1. n \in Nat /\ m \in Nat
  BY LenProperties
<1>2. Len(all) = n + m /\ \A i \in 1..n + m : all[i] = IF i <= n THEN bs[i] ELSE more[i - n]
  BY ConcatProperties
<1> HIDE DEF all, n, m
<1>3. \A i \in 1..n : i \in 1..n + m /\ all[i] = bs[i]
  BY <1>1, <1>2
<1>4. \A i \in 1..m : n + i \in 1..n + m /\ all[n + i] = more[i]
  <2> SUFFICES ASSUME NEW i \in 1..m PROVE n + i \in 1..n + m /\ all[n + i] = more[i]
    OBVIOUS
  <2>1. n + i \in 1..n + m /\ ~(n + i <= n) /\ (n + i) - n = i
    BY <1>1
  <2> QED
    BY <1>2, <2>1
<1>5. \A i \in 1..n + m : (i \in 1..n /\ all[i] = bs[i]) \/ (i - n \in 1..m /\ all[i] = more[i - n])
  BY <1>1, <1>2
<1>6. InBlock(l, all) <=> (\E i \in 1..n : l \in Range(bs[i].lines)) \/ (\E i \in 1..m : l \in Range(more[i].lines))
  BY <1>2, <1>3, <1>4, <1>5 DEF InBlock
<1> QED
  BY <1>6 DEF InBlock, all, n, m

LEMMA BeforeIn ==
    ASSUME IsDocument(doc), NEW bs \in Seq(Blocks), NEW l, AheadIn(l, bs, 1, 1)
    PROVE  InBlock(l, bs)
<1>1. Len(bs) \in Nat /\ \A i \in 1..Len(bs) : bs[i] \in Blocks
  BY Places1
<1>2. CASE \E b \in 1 + 1..Len(bs) : l \in Range(bs[b].lines)
  BY <1>1, <1>2 DEF InBlock
<1>3. CASE 1 \in 1..Len(bs) /\ bs[1].table /\ l \in Range(bs[1].lines)
  BY <1>3 DEF InBlock
<1>4. CASE /\ 1 \in 1..Len(bs) /\ ~bs[1].table
           /\ \E j \in 1..Len(Solid(bs[1].lines)) : Solid(bs[1].lines)[j] = l
  <2>1. /\ Solid(bs[1].lines) \in Seq(DocLine)
        /\ Range(Solid(bs[1].lines)) = {k \in Range(bs[1].lines) : ~Silent(k)}
    BY <1>1, <1>4, BlockLines
  <2>2. l \in Range(Solid(bs[1].lines))
    BY <1>4, <2>1, Places1
  <2> QED
    BY <1>4, <2>1, <2>2 DEF InBlock
<1> QED
  BY <1>2, <1>3, <1>4 DEF AheadIn

LEMMA ReadTypes ==
    ASSUME TypeInv, Extract
    PROVE  TypeInv' /\ Reads
<1>1. /\ path = "legacy" /\ UNCHANGED <<chunkVars, formVars, entry, path>>
      /\ (engine = "none" /\ ExtractPdf) \/ (engine # "none" /\ ExtractMarkdown)
  BY DEF Extract
<1>2. Reads
  BY <1>1, MarkdownReads, PdfReads
<1>3. /\ docType' = docType /\ engine' = engine /\ blockNo' = blockNo /\ lineNo' = lineNo
      /\ context' = context /\ buffer' = buffer /\ queue' = queue /\ out' = out
      /\ form' = form /\ parsed' = parsed /\ entry' = entry /\ path' = path
  BY <1>1 DEF chunkVars, formVars
<1>4. doc' = doc /\ ~Extracted /\ pos' \in pos + 1..Len(doc) + 2 /\ page' \in Nat /\ PendingNext
  BY <1>2 DEF Reads
<1>5. PICK more \in Seq(Blocks) : blocks' = blocks \o more /\ Carries(more)
  BY <1>2 DEF Reads
<1>6. blocks \in Seq(Blocks) /\ IsDocument(doc) /\ pos \in 1..Len(doc) + 2 /\ Unchunked /\ out = <<>>
  BY <1>4 DEF TypeInv, Typed, Entered, InTurn
<1>7. blocks' \in Seq(Blocks)
  BY <1>5, <1>6, ConcatProperties
<1>8. /\ DocLine' = DocLine /\ Blocks' = Blocks /\ Contexts' = Contexts /\ Kept' = Kept
      /\ Pieces' = Pieces /\ FormPages' = FormPages
  BY <1>4, SameDocument, SamePieces, SameForms
<1>9. Entered'
  BY <1>1, <1>3, <1>4 DEF TypeInv, Entered
<1>10. Typed'
  <2>1. pos' \in 1..Len(doc') + 2
    BY <1>4, <1>6, DocumentLines
  <2>2. text' \in Seq(DocLine) /\ rows' \in Seq(DocLine)
    BY <1>4 DEF PendingNext
  <2> QED
    BY <1>3, <1>4, <1>7, <1>8, <2>1, <2>2 DEF TypeInv, Typed
<1>11. InTurn'
  BY <1>1, <1>3, <1>6 DEF TypeInv, InTurn, Unchunked
<1>12. Pending'
  BY <1>3, <1>4 DEF PendingNext, Pending, Extracted, Pipe
<1>13. AtBlock'
  <2>1. AtBlockIn(blocks', 1, 1)
    BY <1>6, <1>7, AheadAll
  <2>2. blockNo' = 1 /\ lineNo' = 1 /\ buffer' = <<>>
    BY <1>3, <1>6 DEF Unchunked
  <2>3. AtBlockIn(blocks, blockNo, lineNo)' = AtBlockIn(blocks', blockNo', lineNo')
    BY <1>4, SameAhead
  <2> QED
    BY <2>1, <2>2, <2>3 DEF AtBlock
<1>14. FormRead'
  <2>1. path' # "wage" /\ parsed' \in Seq(FormPages')
    BY <1>1, <1>3, <1>8 DEF TypeInv, FormRead
  <2> QED
    BY <2>1 DEF FormRead
<1> QED
  BY <1>2, <1>9, <1>10, <1>11, <1>12, <1>13, <1>14 DEF TypeInv

LEMMA ReadKeeps ==
    ASSUME TypeInv, NothingDropped, Extract
    PROVE  NothingDropped'
<1>1. /\ path = "legacy" /\ UNCHANGED <<chunkVars, formVars, entry, path>> /\ Reads
  BY ReadTypes DEF Extract
<1>2. /\ docType' = docType /\ blockNo' = blockNo /\ lineNo' = lineNo /\ buffer' = buffer
      /\ queue' = queue /\ out' = out /\ form' = form /\ path' = path
  BY <1>1 DEF chunkVars, formVars
<1>3. doc' = doc /\ ~Extracted /\ pos' \in pos + 1..Len(doc) + 2
  BY <1>1 DEF Reads
<1>4. PICK more \in Seq(Blocks) : blocks' = blocks \o more /\ Carries(more)
  BY <1>1 DEF Reads
<1>5. /\ IsDocument(doc) /\ blocks \in Seq(Blocks) /\ pos \in 1..Len(doc) + 2
      /\ blockNo = 1 /\ lineNo = 1 /\ buffer = <<>> /\ queue = <<>> /\ out = <<>>
  BY <1>3 DEF TypeInv, Typed, Entered, InTurn, Unchunked
<1>6. Content' = Content
  BY <1>2, <1>3, SameContent
<1>7. blocks' \in Seq(Blocks)
  BY <1>4, <1>5, ConcatProperties
<1>8. ASSUME NEW l \in Content, l < pos', NEW ch \in SolidIn(CharsOf(l)) PROVE Waiting(l)'
  <2>1. l \in DocLine /\ Said(l) /\ doc[l].kind # "page" /\ ~Silent(l) /\ l \in Nat
    BY <1>5, DocumentLines DEF Content, Said, Silent
  <2>2. l \in pos..pos' - 1 \/ l \in Range(text) \/ l \in Range(rows) \/ InBlock(l, blocks)
    <3>1. CASE l < pos
      <4>1. Waiting(l) \/ Written(ch)
        BY <1>1, <1>8, <3>1 DEF NothingDropped
      <4>2. ~Written(ch) /\ \A i \in 1..Len(buffer) : FALSE
        BY <1>5 DEF Written
      <4>3. Ahead(l) => InBlock(l, blocks)
        BY <1>5, BeforeIn DEF Ahead
      <4> QED
        BY <4>1, <4>2, <4>3 DEF Waiting
    <3>2. CASE ~(l < pos)
      <4>1. Len(doc) \in Nat
        BY <1>5, DocumentLines
      <4>2. pos \in Int /\ pos' \in Int /\ l < pos'
        BY <1>3, <1>5, <1>8, <4>1
      <4>3. l \in pos..pos' - 1
        BY <2>1, <3>2, <4>2
      <4> QED
        BY <4>3
    <3> QED
      BY <3>1, <3>2
  <2>3. l \in Range(text') \/ l \in Range(rows') \/ InBlock(l, blocks')
    <3>1. InBlock(l, blocks') <=> InBlock(l, blocks) \/ InBlock(l, more)
      BY <1>4, <1>5, InMore
    <3> QED
      BY <1>4, <2>1, <2>2, <3>1 DEF Carries
  <2>4. InBlock(l, blocks') => Ahead(l)'
    <3>1. InBlock(l, blocks') => AheadIn(l, blocks', 1, 1)
      BY <1>5, <1>7, <2>1, AheadAll
    <3>2. Ahead(l)' = AheadIn(l, blocks', blockNo', lineNo')
      BY <1>3, SameAhead
    <3> QED
      BY <1>2, <1>5, <3>1, <3>2
  <2> QED
    BY <2>3, <2>4 DEF Waiting
<1>9. ASSUME NEW l \in Content, l < pos'
      PROVE  Waiting(l)' \/ \A ch \in SolidIn(CharsOf(l))' : Written(ch)'
  <2>1. SolidIn(CharsOf(l))' = SolidIn(CharsOf(l))
    BY <1>3 DEF CharsOf
  <2> QED
    BY <1>8, <1>9, <2>1
<1>10. path' # "wage"
  BY <1>1, <1>2
<1> QED
  BY <1>6, <1>9, <1>10 DEF NothingDropped

-----------------------------------------------------------------------------
(* Steps of the chunker                                                    *)

\* Past line k of text block n there is what was before it, but for that line.
LEMMA PastLine ==
    ASSUME IsDocument(doc), NEW bs \in Seq(Blocks), NEW n \in 1..Len(bs), ~bs[n].table,
           NEW k \in Nat \ {0}, k <= Len(Solid(bs[n].lines)), NEW n2, NEW k2,
           IF k < Len(Solid(bs[n].lines)) THEN n2 = n /\ k2 = k + 1 ELSE n2 = n + 1 /\ k2 = 1
    PROVE  /\ n2 \in Nat \ {0} /\ k2 \in Nat \ {0} /\ AtBlockIn(bs, n2, k2) /\ n2 <= Len(bs) + 1
           /\ Solid(bs[n].lines)[k] \in DocLine /\ ~Silent(Solid(bs[n].lines)[k])
           /\ Solid(bs[n].lines)[k] \in Range(bs[n].lines)
           /\ \A l : AheadIn(l, bs, n, k) /\ ~Silent(l)
                       => l = Solid(bs[n].lines)[k] \/ AheadIn(l, bs, n2, k2)
<1> DEFINE ls == Solid(bs[n].lines)
<1>1. Len(bs) \in Nat /\ bs[n] \in Blocks
  BY Places1
<1>2. /\ ls \in Seq(DocLine) /\ Len(ls) \in Nat
      /\ Range(ls) = {l \in Range(bs[n].lines) : ~Silent(l)}
  BY <1>1, BlockLines
<1>3. ls[k] \in DocLine /\ ~Silent(ls[k]) /\ ls[k] \in Range(bs[n].lines)
  <2>1. k \in 1..Len(ls) /\ Range(ls) = {ls[i] : i \in 1..Len(ls)} /\ \A i \in 1..Len(ls) : ls[i] \in DocLine
    BY <1>2, Places1
  <2>2. ls[k] \in Range(ls)
    BY <2>1
  <2> QED
    BY <1>2, <2>1, <2>2
<1>4. CASE k < Len(ls)
  <2>1. n2 = n /\ k2 = k + 1
    BY <1>4
  <2>2. AtBlockIn(bs, n2, k2) /\ n2 \in Nat \ {0} /\ k2 \in Nat \ {0} /\ n2 <= Len(bs) + 1
    BY <1>1, <1>2, <1>4, <2>1 DEF AtBlockIn
  <2>3. ASSUME NEW l, AheadIn(l, bs, n, k) PROVE l = ls[k] \/ AheadIn(l, bs, n2, k2)
    <3>1. CASE \E j \in k..Len(ls) : ls[j] = l
      <4>1. PICK j \in k..Len(ls) : ls[j] = l
        BY <3>1
      <4>2. j = k \/ j \in k + 1..Len(ls)
        BY <1>2
      <4> QED
        BY <2>1, <4>1, <4>2 DEF AheadIn
    <3>2. CASE \E b \in n + 1..Len(bs) : l \in Range(bs[b].lines)
      BY <2>1, <3>2 DEF AheadIn
    <3> QED
      BY <2>3, <3>1, <3>2 DEF AheadIn
  <2> QED
    BY <1>3, <2>2, <2>3
<1>5. CASE ~(k < Len(ls))
  <2>1. n2 = n + 1 /\ k2 = 1 /\ k = Len(ls)
    BY <1>2, <1>5
  <2>2. n \in 0..Len(bs)
    BY <1>1
  <2>3. /\ AtBlockIn(bs, n2, k2)
        /\ \A l : /\ ~Silent(l) /\ \E b \in n + 1..Len(bs) : l \in Range(bs[b].lines)
                  => AheadIn(l, bs, n2, k2)
    BY <2>1, <2>2, OnTo
  <2>4. ASSUME NEW l, AheadIn(l, bs, n, k), ~Silent(l) PROVE l = ls[k] \/ AheadIn(l, bs, n2, k2)
    <3>1. CASE \E j \in k..Len(ls) : ls[j] = l
      <4>1. PICK j \in k..Len(ls) : ls[j] = l
        BY <3>1
      <4>2. j = k
        BY <1>2, <2>1
      <4> QED
        BY <4>1, <4>2
    <3>2. CASE \E b \in n + 1..Len(bs) : l \in Range(bs[b].lines)
      BY <2>3, <2>4, <3>2
    <3> QED
      BY <2>4, <3>1, <3>2 DEF AheadIn
  <2>5. n2 \in Nat \ {0} /\ k2 \in Nat \ {0} /\ n2 <= Len(bs) + 1
    BY <1>1, <2>1
  <2> QED
    BY <1>3, <2>3, <2>4, <2>5
<1> QED
  BY <1>4, <1>5

ChunkerTypes ==
    /\ blockNo' \in Nat \ {0} /\ lineNo' \in Nat \ {0} /\ AtBlockIn(blocks, blockNo', lineNo')
    /\ blockNo' > Len(blocks) + 1 => buffer' = <<>>
    /\ context' \in Contexts /\ buffer' \in Seq(Kept) /\ queue' \in Seq(Pieces) /\ out' \in Seq(Pieces)

\* A line before the chunker stays before it, goes into the buffer or is written.
Passes ==
    /\ \A l \in DocLine :
         /\ ~Silent(l) /\ ~(docType = "wage_schedule" /\ doc[l].kind = "head")
         /\ Ahead(l) \/ \E i \in 1..Len(buffer) : buffer[i].line = l
         => \/ AheadIn(l, blocks, blockNo', lineNo')
            \/ \E i \in 1..Len(buffer') : buffer'[i].line = l
            \/ \A ch \in SolidIn(CharsOf(l)) : Written(ch)'
    /\ \A ch : Written(ch) => Written(ch)'

AtWork ==
    /\ IsDocument(doc) /\ blocks \in Seq(Blocks)
    /\ blockNo \in Nat \ {0} /\ lineNo \in Nat \ {0} /\ AtBlock
    /\ context \in Contexts /\ buffer \in Seq(Kept)
    /\ queue \in Seq(Pieces) /\ out \in Seq(Pieces)

LEMMA FlushedWritten ==
    ASSUME NEW pieces, Hands(pieces), queue = <<>>, out' = out,
           queue' = pieces \/ \E q \in Pieces : queue' = Append(pieces, q)
    PROVE  /\ queue' \in Seq(Pieces)
           /\ \A i \in 1..Len(buffer) : \A ch \in SolidIn(CharsOf(buffer[i].line)) : Written(ch)'
           /\ \A ch : Written(ch) => Written(ch)'
<1>1. /\ pieces \in Seq(Pieces)
      /\ \A i \in 1..Len(buffer) : \A ch \in SolidIn(CharsOf(buffer[i].line)) :
           \E k \in 1..Len(pieces) : ch \in SolidIn(pieces[k].text)
  BY DEF Hands
<1>2. Len(pieces) \in Nat
  BY <1>1, LenProperties
<1>3. queue' \in Seq(Pieces) /\ \A k \in 1..Len(pieces) : k \in 1..Len(queue') /\ queue'[k] = pieces[k]
  <2>1. CASE queue' = pieces
    BY <1>1, <2>1
  <2>2. ASSUME NEW q \in Pieces, queue' = Append(pieces, q)
        PROVE  queue' \in Seq(Pieces) /\ \A k \in 1..Len(pieces) : k \in 1..Len(queue') /\ queue'[k] = pieces[k]
    <3>1. /\ queue' \in Seq(Pieces) /\ Len(queue') = Len(pieces) + 1
          /\ \A k \in 1..Len(pieces) : queue'[k] = pieces[k]
      BY <1>1, <2>2, AppendProperties
    <3> QED
      BY <1>2, <3>1
  <2> QED
    BY <2>1, <2>2
<1>4. ASSUME NEW i \in 1..Len(buffer), NEW ch \in SolidIn(CharsOf(buffer[i].line)) PROVE Written(ch)'
  <2>1. PICK k \in 1..Len(pieces) : ch \in SolidIn(pieces[k].text)
    BY <1>1
  <2>2. k \in 1..Len(queue') /\ ch \in SolidIn(queue'[k].text)
    BY <1>3, <2>1
  <2> QED
    BY <2>2 DEF Written, SolidIn
<1>5. ASSUME NEW ch, Written(ch) PROVE Written(ch)'
  <2>1. Len(queue) = 0
    OBVIOUS
  <2>2. \E i \in 1..Len(out) : ch \in SolidIn(out[i].text)
    BY <1>5, <2>1 DEF Written
  <2> QED
    BY <2>2 DEF Written, SolidIn
<1> QED
  BY <1>3, <1>4, <1>5

\* A table goes after what was in the buffer, by itself.
LEMMA TableStep ==
    ASSUME AtWork, Reading, blocks[blockNo].table, NEW pieces, Hands(pieces), NEW section \in Names,
           NEW lead \in Seq(Char), queue' = Append(pieces, TablePiece(blocks[blockNo], section, lead)),
           buffer' = <<>>, blockNo' = blockNo + 1, lineNo' = 1, context' = context, out' = out
    PROVE  ChunkerTypes /\ Passes
<1> DEFINE b == blocks[blockNo]
           q == TablePiece(b, section, lead)
<1>1. /\ IsDocument(doc) /\ blocks \in Seq(Blocks) /\ context \in Contexts /\ out \in Seq(Pieces)
      /\ queue = <<>>
  BY DEF AtWork, Reading
<1>2. Len(blocks) \in Nat /\ blockNo \in 1..Len(blocks) /\ b \in Blocks
  BY <1>1, Places1 DEF Reading
<1>3. q \in Pieces /\ SolidIn(q.text) = UNION {SolidIn(CharsOf(l)) : l \in Range(b.lines)}
  BY ZenonT(40), <1>1, <1>2, TablePieceSays
<1> HIDE DEF q
<1>4. queue' = Append(pieces, q)
  BY DEF q
<1>5. /\ queue' \in Seq(Pieces)
      /\ \A i \in 1..Len(buffer) : \A ch \in SolidIn(CharsOf(buffer[i].line)) : Written(ch)'
      /\ \A ch : Written(ch) => Written(ch)'
  BY <1>1, <1>3, <1>4, FlushedWritten
<1>6. ASSUME NEW l \in Range(b.lines), NEW ch \in SolidIn(CharsOf(l)) PROVE Written(ch)'
  <2>1. ch \in SolidIn(q.text)
    BY <1>3
  <2>2. Len(pieces) + 1 \in 1..Len(queue') /\ queue'[Len(pieces) + 1] = q
    <3>1. pieces \in Seq(Pieces)
      BY DEF Hands
    <3>2. Len(queue') = Len(pieces) + 1 /\ queue'[Len(pieces) + 1] = q /\ Len(pieces) \in Nat
      BY <1>3, <1>4, <3>1, AppendProperties, LenProperties
    <3> QED
      BY <3>2
  <2> QED
    BY <2>1, <2>2 DEF Written, SolidIn
<1>7. blockNo \in 0..Len(blocks) /\ blockNo + 1 \in Nat \ {0} /\ blockNo + 1 <= Len(blocks) + 1
  BY <1>2
<1>8. /\ AtBlockIn(blocks, blockNo + 1, 1)
      /\ \A l : /\ ~Silent(l) /\ \E c \in blockNo + 1..Len(blocks) : l \in Range(blocks[c].lines)
                => AheadIn(l, blocks, blockNo + 1, 1)
  BY <1>1, <1>7, OnTo
<1>9. ChunkerTypes
  BY <1>1, <1>5, <1>7, <1>8, EmptySeq DEF ChunkerTypes
<1>10. ASSUME NEW l \in DocLine, ~Silent(l), Ahead(l)
       PROVE  AheadIn(l, blocks, blockNo', lineNo') \/ \A ch \in SolidIn(CharsOf(l)) : Written(ch)'
  <2>1. (\E c \in blockNo + 1..Len(blocks) : l \in Range(blocks[c].lines)) \/ l \in Range(b.lines)
    BY <1>10 DEF Ahead, AheadIn
  <2> QED
    BY <1>6, <1>8, <1>10, <2>1
<1>11. Passes
  BY <1>5, <1>10 DEF Passes
<1> QED
  BY <1>9, <1>11

LEMMA HereIs ==
    ASSUME AtWork, Reading, ~blocks[blockNo].table
    PROVE  /\ Here \in DocLine /\ ~Silent(Here) /\ Keep \in Kept /\ Keep.line = Here
           /\ lineNo <= Len(Solid(blocks[blockNo].lines)) /\ blockNo \in 1..Len(blocks)
<1>1. IsDocument(doc) /\ blocks \in Seq(Blocks) /\ lineNo \in Nat \ {0} /\ AtBlock
  BY DEF AtWork
<1>2. blockNo \in 1..Len(blocks) /\ blocks[blockNo] \in Blocks
  BY <1>1, Places1 DEF Reading
<1>3. lineNo <= Len(Solid(blocks[blockNo].lines))
  BY <1>1, <1>2 DEF AtBlock, AtBlockIn
<1>4. /\ Solid(blocks[blockNo].lines) \in Seq(DocLine) /\ Len(Solid(blocks[blockNo].lines)) \in Nat
      /\ Range(Solid(blocks[blockNo].lines)) = {l \in Range(blocks[blockNo].lines) : ~Silent(l)}
      /\ blocks[blockNo].page \in Nat
  BY <1>1, <1>2, BlockLines
<1>5. Here \in DocLine /\ ~Silent(Here)
  <2> DEFINE ls == Solid(blocks[blockNo].lines)
  <2>1. lineNo \in 1..Len(ls)
    BY <1>1, <1>3, <1>4
  <2>2. Here = ls[lineNo]
    BY DEF Here, LinesHere
  <2> HIDE DEF ls
  <2>3. ls[lineNo] \in DocLine /\ ls[lineNo] \in Range(ls)
    BY <1>4, <2>1, Places1 DEF ls
  <2> QED
    BY <1>4, <2>2, <2>3 DEF ls
<1>6. Keep = [line |-> Here, page |-> blocks[blockNo].page]
  BY DEF Keep
<1>7. Keep \in Kept /\ Keep.line = Here
  BY <1>4, <1>5, <1>6 DEF Kept
<1> QED
  BY <1>2, <1>3, <1>5, <1>7

LEMMA LineStep ==
    ASSUME AtWork, Reading, ~blocks[blockNo].table, NextLine, context' \in Contexts, out' = out,
           \/ Hands(queue') /\ buffer' = <<Keep>>
           \/ /\ Hands(queue') /\ buffer' = <<>>
              /\ docType = "wage_schedule" /\ doc[Here].kind = "head"
           \/ queue' = queue /\ buffer' = Append(buffer, Keep)
    PROVE  ChunkerTypes /\ Passes
<1>1. /\ IsDocument(doc) /\ blocks \in Seq(Blocks) /\ buffer \in Seq(Kept) /\ out \in Seq(Pieces)
      /\ queue = <<>> /\ lineNo \in Nat \ {0}
  BY DEF AtWork, Reading
<1>2. /\ Here \in DocLine /\ ~Silent(Here) /\ Keep \in Kept /\ Keep.line = Here
      /\ lineNo <= Len(Solid(blocks[blockNo].lines)) /\ blockNo \in 1..Len(blocks)
  BY HereIs
<1>3. IF lineNo < Len(Solid(blocks[blockNo].lines))
      THEN blockNo' = blockNo /\ lineNo' = lineNo + 1 ELSE blockNo' = blockNo + 1 /\ lineNo' = 1
  BY DEF NextLine, LinesHere
<1>4. /\ blockNo' \in Nat \ {0} /\ lineNo' \in Nat \ {0}
      /\ AtBlockIn(blocks, blockNo', lineNo') /\ blockNo' <= Len(blocks) + 1
      /\ \A l : AheadIn(l, blocks, blockNo, lineNo) /\ ~Silent(l)
                  => l = Solid(blocks[blockNo].lines)[lineNo] \/ AheadIn(l, blocks, blockNo', lineNo')
  BY <1>1, <1>2, <1>3, PastLine
<1>5. ~(blockNo' > Len(blocks) + 1)
  <2>1. Len(blocks) \in Nat
    BY <1>1, LenProperties
  <2> QED
    BY <1>4, <2>1
<1>6. ASSUME NEW l, ~Silent(l), Ahead(l) PROVE l = Here \/ AheadIn(l, blocks, blockNo', lineNo')
  BY <1>4, <1>6 DEF Ahead, Here, LinesHere
<1>7. CASE /\ Hands(queue')
           /\ \/ buffer' = <<Keep>>
              \/ buffer' = <<>> /\ docType = "wage_schedule" /\ doc[Here].kind = "head"
  <2>1. /\ queue' \in Seq(Pieces)
        /\ \A i \in 1..Len(buffer) : \A ch \in SolidIn(CharsOf(buffer[i].line)) : Written(ch)'
        /\ \A ch : Written(ch) => Written(ch)'
    BY <1>1, <1>7, FlushedWritten
  <2>2. CASE buffer' = <<Keep>>
    <3>1. buffer' \in Seq(Kept) /\ 1 \in 1..Len(buffer') /\ buffer'[1].line = Here
      BY <1>2, <2>2
    <3>2. ChunkerTypes
      BY <1>1, <1>4, <1>5, <2>1, <3>1 DEF ChunkerTypes
    <3>3. Passes
      BY <1>6, <2>1, <3>1 DEF Passes
    <3> QED
      BY <3>2, <3>3
  <2>3. CASE buffer' = <<>> /\ docType = "wage_schedule" /\ doc[Here].kind = "head"
    <3>1. ChunkerTypes
      BY <1>1, <1>4, <1>5, <2>1, <2>3, EmptySeq DEF ChunkerTypes
    <3>2. Passes
      BY <1>6, <2>1, <2>3 DEF Passes
    <3> QED
      BY <3>1, <3>2
  <2> QED
    BY <1>7, <2>2, <2>3
<1>8. CASE queue' = queue /\ buffer' = Append(buffer, Keep)
  <2>1. /\ buffer' \in Seq(Kept)
        /\ \A i \in 1..Len(buffer) : i \in 1..Len(buffer') /\ buffer'[i] = buffer[i]
        /\ Len(buffer) + 1 \in 1..Len(buffer') /\ buffer'[Len(buffer) + 1] = Keep
    <3>1. /\ buffer' \in Seq(Kept) /\ Len(buffer') = Len(buffer) + 1 /\ Len(buffer) \in Nat
          /\ buffer'[Len(buffer) + 1] = Keep /\ \A i \in 1..Len(buffer) : buffer'[i] = buffer[i]
      BY <1>1, <1>2, <1>8, AppendProperties, LenProperties
    <3> QED
      BY <3>1
  <2>2. \A ch : Written(ch) => Written(ch)'
    BY <1>8 DEF Written, SolidIn
  <2>3. queue' \in Seq(Pieces)
    BY <1>1, <1>8, EmptySeq
  <2>4. ChunkerTypes
    BY <1>1, <1>4, <1>5, <2>1, <2>3 DEF ChunkerTypes
  <2>5. Passes
    BY <1>2, <1>6, <2>1, <2>2 DEF Passes
  <2> QED
    BY <2>4, <2>5
<1> QED
  BY <1>7, <1>8

\* The first piece in the queue, and what a cut or a chunk takes from it.
LEMMA FirstPiece ==
    ASSUME AtWork, queue # <<>>
    PROVE  /\ Head(queue) \in Pieces /\ Head(queue) = queue[1] /\ Tail(queue) \in Seq(Pieces)
           /\ Len(queue) \in Nat \ {0} /\ Len(Tail(queue)) = Len(queue) - 1
           /\ \A i \in 1..Len(queue) - 1 : Tail(queue)[i] = queue[i + 1]
           /\ Head(queue).text \in Seq(Char) /\ Len(Head(queue).text) \in Nat
<1>1. queue \in Seq(Pieces)
  BY DEF AtWork
<1>2. /\ Head(queue) \in Pieces /\ Head(queue) = queue[1] /\ Tail(queue) \in Seq(Pieces)
      /\ Len(queue) \in Nat \ {0} /\ Len(Tail(queue)) = Len(queue) - 1
      /\ \A i \in 1..Len(queue) - 1 : Tail(queue)[i] = queue[i + 1]
  BY <1>1, HeadTailProperties, EmptySeq, LenProperties
<1>3. Head(queue).text \in Seq(Char)
  BY <1>2 DEF Pieces
<1> QED
  BY <1>2, <1>3, LenProperties

\* A piece that is too long is cut inside the limit, and inside itself.
LEMMA CutInside ==
    ASSUME AtWork, queue # <<>>, TooLong(Head(queue))
    PROVE  /\ SentenceBoundary(Head(queue).text, MaxChars) \in 1..MaxChars
           /\ SentenceBoundary(Head(queue).text, MaxChars) \in 1..Len(Head(queue).text)
<1>1. Len(Head(queue).text) \in Nat
  BY FirstPiece
<1>2. Len(Head(queue).text) > MaxChars
  BY <1>1, FitsOrNot DEF TooLong
<1>3. SentenceBoundary(Head(queue).text, MaxChars) \in 1..MaxChars /\ MaxChars \in Nat
  BY BoundaryInside, Limits
<1> QED
  BY <1>1, <1>2, <1>3

\* Cutting and handing over: what a piece says is in a chunk or still in the queue.
QueueStep ==
    /\ queue' \in Seq(Pieces) /\ out' \in Seq(Pieces)
    /\ \A ch : Written(ch) => Written(ch)'
    /\ \A i \in 1..Len(out') :
         \/ i \in 1..Len(out) /\ out'[i] = out[i]
         \/ ~out'[i].table => Len(out'[i].text) < MaxChars + CharsPerToken

LEMMA CutStep == ASSUME AtWork, Cut PROVE QueueStep
<1> DEFINE t == Head(queue).text
           split == SentenceBoundary(t, MaxChars)
           cut == Strip(SubSeq(t, 1, split))
           rest == Remainder(t, split)
           chunk == [Head(queue) EXCEPT !.text = cut]
           left == [Head(queue) EXCEPT !.text = rest, !.cutting = TRUE]
<1>1. /\ queue # <<>> /\ TooLong(Head(queue))
      /\ out' = IF cut = <<>> THEN out ELSE Append(out, chunk)
      /\ queue' = <<left>> \o Tail(queue)
  BY DEF Cut
<1>2. /\ Head(queue) \in Pieces /\ Head(queue) = queue[1] /\ Tail(queue) \in Seq(Pieces)
      /\ Len(queue) \in Nat \ {0} /\ Len(Tail(queue)) = Len(queue) - 1
      /\ \A i \in 1..Len(queue) - 1 : Tail(queue)[i] = queue[i + 1]
      /\ t \in Seq(Char) /\ Len(t) \in Nat
  BY <1>1, FirstPiece
<1>3. split \in 1..MaxChars /\ split \in 1..Len(t)
  BY <1>1, CutInside
<1> HIDE DEF t, split
<1>4. /\ rest \in Seq(Char) /\ cut \in Seq(Char) /\ Len(cut) <= split
      /\ SolidIn(t) = SolidIn(cut) \cup SolidIn(rest)
  BY <1>2, <1>3, Remains
<1> HIDE DEF cut, rest
<1>5. chunk \in Pieces /\ chunk.text = cut /\ left \in Pieces /\ left.text = rest
  BY <1>2, <1>4 DEF Pieces
<1> HIDE DEF chunk, left
<1>6. out \in Seq(Pieces) /\ Len(out) \in Nat
  BY LenProperties DEF AtWork
<1>7. /\ queue' \in Seq(Pieces) /\ Len(queue') = Len(queue) /\ queue'[1] = left
      /\ \A i \in 1..Len(queue) : i # 1 => queue'[i] = queue[i]
  <2>1. <<left>> \in Seq(Pieces) /\ Len(<<left>>) = 1 /\ <<left>>[1] = left
    BY <1>5
  <2>2. /\ queue' \in Seq(Pieces) /\ Len(queue') = 1 + (Len(queue) - 1)
        /\ \A i \in 1..1 + (Len(queue) - 1) : queue'[i] = IF i <= 1 THEN <<left>>[i] ELSE Tail(queue)[i - 1]
    BY <1>1, <1>2, <2>1, ConcatProperties
  <2>3. Len(queue') = Len(queue)
    BY <1>2, <2>2
  <2>4. queue'[1] = left
    BY <1>2, <2>1, <2>2
  <2>5. ASSUME NEW i \in 1..Len(queue), i # 1 PROVE queue'[i] = queue[i]
    <3>1. i - 1 \in 1..Len(queue) - 1 /\ (i - 1) + 1 = i /\ ~(i <= 1) /\ i \in 1..1 + (Len(queue) - 1)
      BY <1>2, <2>5
    <3>2. queue'[i] = Tail(queue)[i - 1]
      BY <2>2, <3>1
    <3> QED
      BY <1>2, <3>1, <3>2
  <2> QED
    BY <2>2, <2>3, <2>4, <2>5
<1>8. /\ out' \in Seq(Pieces)
      /\ \A i \in 1..Len(out) : i \in 1..Len(out') /\ out'[i] = out[i]
      /\ \A i \in 1..Len(out') : i \in 1..Len(out) \/ out'[i].text = cut
      /\ \A ch \in SolidIn(cut) : \E i \in 1..Len(out') : ch \in SolidIn(out'[i].text)
  <2>1. CASE cut = <<>>
    <3>1. out' = out
      BY <1>1, <2>1
    <3>2. SolidIn(cut) = {}
      BY <2>1 DEF SolidIn, Range
    <3> QED
      BY <1>6, <3>1, <3>2
  <2>2. CASE cut # <<>>
    <3>1. out' = Append(out, chunk)
      BY <1>1, <2>2
    <3>2. /\ out' \in Seq(Pieces) /\ Len(out') = Len(out) + 1 /\ out'[Len(out) + 1] = chunk
          /\ \A i \in 1..Len(out) : out'[i] = out[i]
      BY <1>5, <1>6, <3>1, AppendProperties
    <3>3. Len(out) + 1 \in 1..Len(out') /\ \A i \in 1..Len(out) : i \in 1..Len(out')
      BY <1>6, <3>2
    <3>4. \A i \in 1..Len(out') : i \in 1..Len(out) \/ i = Len(out) + 1
      BY <1>6, <3>2
    <3> QED
      BY <1>5, <3>2, <3>3, <3>4
  <2> QED
    BY <2>1, <2>2
<1>9. ASSUME NEW ch, Written(ch) PROVE Written(ch)'
  <2>1. CASE \E i \in 1..Len(out) : ch \in SolidIn(out[i].text)
    BY <1>8, <2>1 DEF Written, SolidIn
  <2>2. ASSUME NEW i \in 1..Len(queue), ch \in SolidIn(queue[i].text) PROVE Written(ch)'
    <3>1. CASE i # 1
      <4>1. i \in 1..Len(queue') /\ ch \in SolidIn(queue'[i].text)
        BY <1>7, <2>2, <3>1
      <4> QED
        BY <4>1 DEF Written, SolidIn
    <3>2. CASE i = 1
      <4>1. ch \in SolidIn(t)
        BY <1>2, <2>2, <3>2 DEF t
      <4>2. CASE ch \in SolidIn(cut)
        BY <1>8, <4>2 DEF Written, SolidIn
      <4>3. CASE ch \in SolidIn(rest)
        <5>1. 1 \in 1..Len(queue') /\ ch \in SolidIn(queue'[1].text)
          BY <1>2, <1>5, <1>7, <4>3
        <5> QED
          BY <5>1 DEF Written, SolidIn
      <4> QED
        BY <1>4, <4>1, <4>2, <4>3
    <3> QED
      BY <3>1, <3>2
  <2> QED
    BY <1>9, <2>1, <2>2 DEF Written
<1>10. Len(cut) < MaxChars + CharsPerToken
  BY <1>3, <1>4, Limits, LenProperties
<1> QED
  BY <1>7, <1>8, <1>9, <1>10 DEF QueueStep

LEMMA EmitStep == ASSUME AtWork, Emit PROVE QueueStep
<1> DEFINE t == Head(queue).text
           whole == Strip(t)
           chunk == [Head(queue) EXCEPT !.text = whole]
<1>1. /\ queue # <<>> /\ ~TooLong(Head(queue)) /\ queue' = Tail(queue)
      /\ out' = IF whole = <<>> THEN out ELSE Append(out, chunk)
  BY DEF Emit
<1>2. /\ Head(queue) \in Pieces /\ Head(queue) = queue[1] /\ Tail(queue) \in Seq(Pieces)
      /\ Len(queue) \in Nat \ {0} /\ Len(Tail(queue)) = Len(queue) - 1
      /\ \A i \in 1..Len(queue) - 1 : Tail(queue)[i] = queue[i + 1]
      /\ t \in Seq(Char) /\ Len(t) \in Nat
  BY <1>1, FirstPiece
<1>3. /\ whole \in Seq(Char) /\ Len(whole) \in Nat /\ Len(whole) <= Len(t)
      /\ SolidIn(whole) = SolidIn(t)
  BY <1>2, Stripped
<1>4. ~Head(queue).table => Len(t) < MaxChars + CharsPerToken
  <2>1. ~Head(queue).table =>
          IF Head(queue).cutting THEN ~(Len(t) > MaxChars) ELSE Fits(t)
    BY <1>1 DEF TooLong
  <2> HIDE DEF t
  <2>2. Fits(t) => Len(t) < MaxChars + CharsPerToken
    BY <1>2, FitsOrNot
  <2> QED
    BY <1>2, <2>1, <2>2, Limits
<1>5. ~chunk.table => Len(whole) < MaxChars + CharsPerToken
  <2>1. chunk.table = Head(queue).table
    BY <1>2 DEF Pieces
  <2> HIDE DEF t, whole, chunk
  <2> QED
    BY <1>2, <1>3, <1>4, <2>1, Limits
<1> HIDE DEF t, whole
<1>6. chunk \in Pieces /\ chunk.text = whole
  BY <1>2, <1>3 DEF Pieces
<1> HIDE DEF chunk
<1>7. out \in Seq(Pieces) /\ Len(out) \in Nat
  BY LenProperties DEF AtWork
<1>8. /\ out' \in Seq(Pieces)
      /\ \A i \in 1..Len(out) : i \in 1..Len(out') /\ out'[i] = out[i]
      /\ \A i \in 1..Len(out') : i \in 1..Len(out) \/ out'[i] = chunk
      /\ \A ch \in SolidIn(whole) : \E i \in 1..Len(out') : ch \in SolidIn(out'[i].text)
  <2>1. CASE whole = <<>>
    <3>1. out' = out
      BY <1>1, <2>1
    <3>2. SolidIn(whole) = {}
      BY <2>1 DEF SolidIn, Range
    <3> QED
      BY <1>7, <3>1, <3>2
  <2>2. CASE whole # <<>>
    <3>1. out' = Append(out, chunk)
      BY <1>1, <2>2
    <3>2. /\ out' \in Seq(Pieces) /\ Len(out') = Len(out) + 1 /\ out'[Len(out) + 1] = chunk
          /\ \A i \in 1..Len(out) : out'[i] = out[i]
      BY <1>6, <1>7, <3>1, AppendProperties
    <3>3. Len(out) + 1 \in 1..Len(out') /\ \A i \in 1..Len(out) : i \in 1..Len(out')
      BY <1>7, <3>2
    <3>4. \A i \in 1..Len(out') : i \in 1..Len(out) \/ i = Len(out) + 1
      BY <1>7, <3>2
    <3> QED
      BY <1>6, <3>2, <3>3, <3>4
  <2> QED
    BY <2>1, <2>2
<1>9. ASSUME NEW ch, Written(ch) PROVE Written(ch)'
  <2>1. CASE \E i \in 1..Len(out) : ch \in SolidIn(out[i].text)
    BY <1>8, <2>1 DEF Written, SolidIn
  <2>2. ASSUME NEW i \in 1..Len(queue), ch \in SolidIn(queue[i].text) PROVE Written(ch)'
    <3>1. CASE i # 1
      <4>1. i - 1 \in 1..Len(queue') /\ queue'[i - 1] = queue[i]
        <5>1. i - 1 \in 1..Len(queue) - 1 /\ (i - 1) + 1 = i
          BY <1>2, <2>2, <3>1
        <5> QED
          BY <1>1, <1>2, <5>1
      <4>2. ch \in SolidIn(queue'[i - 1].text)
        BY <2>2, <4>1
      <4> QED
        BY <4>1, <4>2 DEF Written, SolidIn
    <3>2. CASE i = 1
      <4>1. ch \in SolidIn(t)
        BY <1>2, <2>2, <3>2 DEF t
      <4> QED
        BY <1>3, <1>8, <4>1 DEF Written, SolidIn
    <3> QED
      BY <3>1, <3>2
  <2> QED
    BY <1>9, <2>1, <2>2 DEF Written
<1>10. queue' \in Seq(Pieces)
  BY <1>1, <1>2
<1> QED
  BY <1>5, <1>6, <1>8, <1>9, <1>10 DEF QueueStep

\* A step on the queue leaves what the chunker has before it.
LEMMA QueuePasses ==
    ASSUME AtWork, QueueStep, UNCHANGED <<blockNo, lineNo, context, buffer>>
    PROVE  ChunkerTypes /\ Passes
<1>1. /\ blockNo' = blockNo /\ lineNo' = lineNo /\ context' = context /\ buffer' = buffer
  OBVIOUS
<1>2. ChunkerTypes
  BY <1>1 DEF AtWork, AtBlock, ChunkerTypes, QueueStep
<1>3. Passes
  BY <1>1 DEF Passes, QueueStep, Ahead
<1> QED
  BY <1>2, <1>3

LEMMA LastStep ==
    ASSUME AtWork, FlushLast
    PROVE  ChunkerTypes /\ Passes
<1> DEFINE pieces == IF docType = "agreement" THEN ArticlePieces ELSE HeadedPieces
<1>1. /\ queue = <<>> /\ blockNo = Len(blocks) + 1 /\ queue' = pieces /\ buffer' = <<>>
      /\ blockNo' = blockNo + 1 /\ lineNo' = lineNo /\ context' = context /\ out' = out
  BY DEF FlushLast
<1>2. IsDocument(doc) /\ buffer \in Seq(Kept) /\ context \in Contexts /\ blocks \in Seq(Blocks)
      /\ lineNo \in Nat \ {0} /\ out \in Seq(Pieces)
  BY DEF AtWork
<1>3. Hands(pieces)
  BY <1>2, ArticleHands, HeadedHands
<1> HIDE DEF pieces
<1>4. /\ queue' \in Seq(Pieces)
      /\ \A i \in 1..Len(buffer) : \A ch \in SolidIn(CharsOf(buffer[i].line)) : Written(ch)'
      /\ \A ch : Written(ch) => Written(ch)'
  BY <1>1, <1>3, FlushedWritten
<1>5. Len(blocks) \in Nat
  BY <1>2, LenProperties
<1>6. AtBlockIn(blocks, blockNo', lineNo') /\ \A l : ~Ahead(l)
  BY <1>1, <1>5 DEF AtBlockIn, Ahead, AheadIn
<1>7. ChunkerTypes
  BY <1>1, <1>2, <1>4, <1>5, <1>6, EmptySeq DEF ChunkerTypes
<1>8. Passes
  BY <1>4, <1>6 DEF Passes
<1> QED
  BY <1>7, <1>8

\* Every step of the chunker, and what it says of the chunks of text.
LEMMA ChunkSteps ==
    ASSUME AtWork, ChunkDocument, docType \in {"agreement", "wage_schedule"}
    PROVE  /\ ChunkerTypes /\ Passes
           /\ \A i \in 1..Len(out') :
                \/ i \in 1..Len(out) /\ out'[i] = out[i]
                \/ ~out'[i].table => Len(out'[i].text) < MaxChars + CharsPerToken
<1>0. IsDocument(doc) /\ buffer \in Seq(Kept) /\ context \in Contexts /\ blocks \in Seq(Blocks)
  BY DEF AtWork
<1>1. Hands(ArticlePieces) /\ Hands(HeadedPieces)
  BY <1>0, ArticleHands, HeadedHands
<1>2. Reading => blocks[blockNo] \in Blocks
  BY <1>0, Places1 DEF Reading
<1>3. CASE TakeTable
  <2>1. /\ Reading /\ blocks[blockNo].table /\ buffer' = <<>> /\ blockNo' = blockNo + 1 /\ lineNo' = 1
        /\ context' = context /\ out' = out
        /\ queue' = Append(ArticlePieces, TablePiece(blocks[blockNo], TableSection(blocks[blockNo]),
                                                     LeadIn(TableSection(blocks[blockNo]))))
    BY <1>3 DEF TakeTable
  <2>2. TableSection(blocks[blockNo]) \in Names
    BY <1>0, <1>2, <2>1, TableSectionType
  <2>3. LeadIn(TableSection(blocks[blockNo])) \in Seq(Char)
    BY <1>0, LeadInType
  <2> QED
    BY <1>1, <2>1, <2>2, <2>3, TableStep
<1>4. CASE TakeHeading
  <2>1. /\ Reading /\ ~blocks[blockNo].table /\ queue' = ArticlePieces /\ context' = Turn(context, Here)
        /\ buffer' = <<Keep>> /\ NextLine /\ out' = out
    BY <1>4 DEF TakeHeading
  <2>2. Here \in DocLine
    BY <2>1, HereIs
  <2>3. context' \in Contexts
    BY <1>0, <2>1, <2>2, TurnType
  <2> QED
    BY <1>1, <2>1, <2>3, LineStep
<1>5. CASE TakeLine
  <2>1. /\ Reading /\ ~blocks[blockNo].table /\ context' = Turn(context, Here)
        /\ buffer' = Append(buffer, Keep) /\ NextLine /\ out' = out /\ queue' = queue
    BY <1>5 DEF TakeLine
  <2>2. Here \in DocLine
    BY <2>1, HereIs
  <2>3. context' \in Contexts
    BY <1>0, <2>1, <2>2, TurnType
  <2> QED
    BY <2>1, <2>3, LineStep
<1>6. CASE TakeHeadedTable
  <2>1. /\ Reading /\ blocks[blockNo].table /\ buffer' = <<>> /\ blockNo' = blockNo + 1 /\ lineNo' = 1
        /\ context' = context /\ out' = out
        /\ queue' = Append(HeadedPieces, TablePiece(blocks[blockNo], NoName, <<>>))
    BY <1>6 DEF TakeHeadedTable
  <2>2. NoName \in Names /\ <<>> \in Seq(Char)
    BY EmptySeq DEF Names
  <2> QED
    BY <1>1, <2>1, <2>2, TableStep
<1>7. CASE TakeMarkdownHeader
  <2>1. /\ Reading /\ ~blocks[blockNo].table /\ doc[Here].kind = "head" /\ queue' = HeadedPieces
        /\ context' = [NoContext EXCEPT !.title = Here] /\ buffer' = <<>> /\ NextLine /\ out' = out
        /\ docType = "wage_schedule"
    BY <1>7 DEF TakeMarkdownHeader
  <2>2. Here \in Nat
    BY <1>0, <2>1, HereIs, DocumentLines
  <2>3. context' \in Contexts
    <3>1. NoName \in Names
      BY DEF Names
    <3> QED
      BY <2>1, <2>2, <3>1 DEF NoContext, Contexts
  <2> QED
    BY <1>1, <2>1, <2>3, LineStep
<1>8. CASE TakeHeadedLine
  <2>1. /\ Reading /\ ~blocks[blockNo].table /\ context' = context
        /\ buffer' = Append(buffer, Keep) /\ NextLine /\ out' = out /\ queue' = queue
    BY <1>8 DEF TakeHeadedLine
  <2>2. context' \in Contexts
    BY <1>0, <2>1
  <2> QED
    BY <2>1, <2>2, LineStep
<1>9. CASE FlushLast
  <2>1. out' = out
    BY <1>9 DEF FlushLast
  <2> QED
    BY <1>9, <2>1, LastStep
<1>10. CASE Cut
  <2>1. QueueStep
    BY <1>10, CutStep
  <2>2. UNCHANGED <<blockNo, lineNo, context, buffer>>
    BY <1>10 DEF Cut
  <2>3. ChunkerTypes /\ Passes
    BY <2>1, <2>2, QueuePasses
  <2> QED
    BY <2>1, <2>3 DEF QueueStep
<1>11. CASE Emit
  <2>1. QueueStep
    BY <1>11, EmitStep
  <2>2. UNCHANGED <<blockNo, lineNo, context, buffer>>
    BY <1>11 DEF Emit
  <2>3. ChunkerTypes /\ Passes
    BY <2>1, <2>2, QueuePasses
  <2> QED
    BY <2>1, <2>3 DEF QueueStep
<1> QED
  BY <1>3, <1>4, <1>5, <1>6, <1>7, <1>8, <1>9, <1>10, <1>11 DEF ChunkDocument

LEMMA AtWorkIs == ASSUME TypeInv PROVE AtWork
BY DEF TypeInv, Entered, Typed, AtWork

LEMMA ChunkTypes ==
    ASSUME TypeInv, Chunk
    PROVE  /\ TypeInv'
           /\ NothingDropped => NothingDropped'
           /\ TextCut => TextCut'
<1>1. /\ path = "legacy" /\ Extracted /\ ChunkDocument /\ AtWork
      /\ docType \in {"agreement", "wage_schedule"}
  BY AtWorkIs DEF Chunk, TypeInv, Entered, IsEntry
<1>2. /\ doc' = doc /\ pos' = pos /\ page' = page /\ text' = text /\ rows' = rows /\ blocks' = blocks
      /\ form' = form /\ parsed' = parsed /\ entry' = entry /\ path' = path
  BY DEF Chunk, extractVars, formVars
<1>3. docType' = docType /\ engine' = engine
  BY <1>1 DEF ChunkDocument, TakeTable, TakeHeading, TakeLine, TakeHeadedTable, TakeMarkdownHeader,
              TakeHeadedLine, FlushLast, Cut, Emit
<1>4. /\ ChunkerTypes /\ Passes
      /\ \A i \in 1..Len(out') :
           \/ i \in 1..Len(out) /\ out'[i] = out[i]
           \/ ~out'[i].table => Len(out'[i].text) < MaxChars + CharsPerToken
  BY <1>1, ChunkSteps
<1>5. /\ DocLine' = DocLine /\ Blocks' = Blocks /\ Contexts' = Contexts /\ Kept' = Kept
      /\ Pieces' = Pieces /\ FormPages' = FormPages
  BY <1>2, SameDocument, SamePieces, SameForms
<1>6. TypeInv'
  <2>1. Entered'
    BY <1>1, <1>2, <1>3 DEF TypeInv, Entered
  <2>2. Typed'
    BY <1>2, <1>4, <1>5 DEF TypeInv, Typed, ChunkerTypes
  <2>3. InTurn'
    BY <1>1, <1>2 DEF TypeInv, InTurn, Extracted
  <2>4. Pending'
    BY <1>2, <1>3 DEF TypeInv, Pending, Extracted, Pipe
  <2>5. AtBlock'
    <3>1. AtBlockIn(blocks, blockNo, lineNo)' = AtBlockIn(blocks', blockNo', lineNo')
      BY <1>2, SameAhead
    <3> QED
      BY <1>2, <1>4, <3>1 DEF AtBlock, ChunkerTypes
  <2>6. FormRead'
    BY <1>1, <1>2, <1>5 DEF TypeInv, FormRead
  <2> QED
    BY <2>1, <2>2, <2>3, <2>4, <2>5, <2>6 DEF TypeInv
<1>7. ASSUME NothingDropped PROVE NothingDropped'
  <2>1. Content' = Content
    BY <1>2, <1>3, SameContent
  <2>2. text = <<>> /\ rows = <<>> /\ Range(<<>>) = {}
    BY <1>1 DEF TypeInv, Pending, Range
  <2>3. ASSUME NEW l \in Content, l < pos
        PROVE  Waiting(l)' \/ \A ch \in SolidIn(CharsOf(l))' : Written(ch)'
    <3>1. Waiting(l) \/ \A ch \in SolidIn(CharsOf(l)) : Written(ch)
      BY <1>1, <1>7, <2>3 DEF NothingDropped
    <3>2. SolidIn(CharsOf(l))' = SolidIn(CharsOf(l))
      BY <1>2 DEF CharsOf
    <3>3. CASE \A ch \in SolidIn(CharsOf(l)) : Written(ch)
      BY <1>4, <3>2, <3>3 DEF Passes
    <3>4. CASE Waiting(l)
      <4>1. Ahead(l) \/ \E i \in 1..Len(buffer) : buffer[i].line = l
        BY <2>2, <3>4 DEF Waiting
      <4>2. l \in DocLine /\ ~Silent(l) /\ ~(docType = "wage_schedule" /\ doc[l].kind = "head")
        <5>1. DOMAIN doc = DocLine
          BY <1>1, DocumentLines DEF AtWork
        <5> QED
          BY <1>1, <5>1 DEF Content, Silent
      <4>3. \/ AheadIn(l, blocks, blockNo', lineNo')
            \/ \E i \in 1..Len(buffer') : buffer'[i].line = l
            \/ \A ch \in SolidIn(CharsOf(l)) : Written(ch)'
        BY <1>4, <4>1, <4>2 DEF Passes
      <4>4. Ahead(l)' = AheadIn(l, blocks, blockNo', lineNo')
        BY <1>2, SameAhead
      <4> QED
        BY <3>2, <4>3, <4>4 DEF Waiting
    <3> QED
      BY <3>1, <3>3, <3>4
  <2> QED
    BY <1>1, <1>2, <2>1, <2>3 DEF NothingDropped
<1>8. ASSUME TextCut PROVE TextCut'
  BY <1>1, <1>2, <1>4, <1>8 DEF TextCut
<1> QED
  BY <1>6, <1>7, <1>8

-----------------------------------------------------------------------------
(* Reading a form                                                          *)

Sheets == [labels : Seq(DocLine), rates : Seq(RateRows), parent : DocLine \cup {NoLabel},
           band : SUBSET Keywords, groups : Seq(Groups), notes : Seq(DocLine)]

\* What of a page of rates goes into its notes.
Note(l) == doc[l].kind \notin {"band", "rates", "label"}

LEMMA FlushGroupType ==
    ASSUME NEW a \in Sheets
    PROVE  FlushGroup(a) \in Seq(Groups)
<1>1. /\ a.labels \in Seq(DocLine) /\ a.rates \in Seq(RateRows) /\ a.groups \in Seq(Groups)
      /\ a.parent \in DocLine \cup {NoLabel}
  BY DEF Sheets
<1>2. CASE a.labels = <<>> \/ a.rates = <<>>
  BY <1>1, <1>2 DEF FlushGroup
<1>3. CASE ~(a.labels = <<>> \/ a.rates = <<>>)
  <2> DEFINE periods == \A i \in DOMAIN a.labels : doc[a.labels[i]].period
             heads == IF a.parent # NoLabel /\ periods THEN <<a.parent>> ELSE <<>>
             others == {i \in DOMAIN a.labels : a.labels[i] \notin Range(heads)}
             g == [labels |-> heads \o Picked(a.labels, others), rates |-> a.rates]
  <2>1. FlushGroup(a) = Append(a.groups, g)
    BY <1>3 DEF FlushGroup
  <2>2. heads \in Seq(DocLine)
    <3>1. a.parent # NoLabel => <<a.parent>> \in Seq(DocLine)
      BY <1>1
    <3> QED
      BY <3>1, EmptySeq
  <2>3. others \in SUBSET DOMAIN a.labels
    OBVIOUS
  <2> HIDE DEF heads, others
  <2>4. Picked(a.labels, others) \in Seq(DocLine)
    BY <1>1, <2>3, PickedFrom
  <2>5. heads \o Picked(a.labels, others) \in Seq(DocLine)
    BY <2>2, <2>4, ConcatProperties
  <2>6. g \in Groups
    BY <1>1, <1>3, <2>5 DEF Groups
  <2> HIDE DEF g
  <2> QED
    BY <1>1, <2>1, <2>6, AppendProperties
<1> QED
  BY <1>2, <1>3

LEMMA ParseLineType ==
    ASSUME NEW a \in Sheets, NEW l \in DocLine
    PROVE  /\ ParseLine(a, l) \in Sheets
           /\ Range(a.notes) \subseteq Range(ParseLine(a, l).notes)
           /\ Note(l) => l \in Range(ParseLine(a, l).notes)
<1>1. /\ a.labels \in Seq(DocLine) /\ a.rates \in Seq(RateRows) /\ a.groups \in Seq(Groups)
      /\ a.parent \in DocLine \cup {NoLabel} /\ a.band \in SUBSET Keywords /\ a.notes \in Seq(DocLine)
  BY DEF Sheets
<1>2. CASE doc[l].kind = "band"
  <2>1. ParseLine(a, l) = [a EXCEPT !.band = @ \cup doc[l].keywords]
    BY <1>2 DEF ParseLine
  <2>2. a.band \cup doc[l].keywords \in SUBSET Keywords
    BY <1>1 DEF Keywords
  <2>3. ParseLine(a, l) \in Sheets /\ ParseLine(a, l).notes = a.notes
    BY <2>1, <2>2 DEF Sheets
  <2> QED
    BY <1>2, <2>3 DEF Note
<1>3. CASE doc[l].kind = "rates"
  <2>1. ParseLine(a, l) = [a EXCEPT !.rates = Append(@, RateRow(l, a.band))]
    BY <1>3 DEF ParseLine
  <2>2. RateRow(l, a.band) \in RateRows
    <3>1. l \in Dated
      BY <1>3 DEF Dated
    <3> QED
      BY <1>1, <3>1 DEF RateRows
  <2>3. Append(a.rates, RateRow(l, a.band)) \in Seq(RateRows)
    BY <1>1, <2>2, AppendProperties
  <2>4. ParseLine(a, l) \in Sheets /\ ParseLine(a, l).notes = a.notes
    BY <2>1, <2>3 DEF Sheets
  <2> QED
    BY <1>3, <2>4 DEF Note
<1>4. CASE doc[l].kind = "label"
  <2> DEFINE flushed == IF a.rates = <<>> THEN a
                        ELSE [a EXCEPT !.groups = FlushGroup(a), !.labels = <<>>, !.rates = <<>>]
             labels == Append(flushed.labels, l)
             parent == IF doc[l].apprentice THEN l ELSE flushed.parent
  <2>1. flushed \in Sheets /\ flushed.notes = a.notes
    <3>1. FlushGroup(a) \in Seq(Groups) /\ <<>> \in Seq(DocLine) /\ <<>> \in Seq(RateRows)
      BY FlushGroupType, EmptySeq
    <3> QED
      BY <3>1 DEF Sheets
  <2>2. ParseLine(a, l) = [flushed EXCEPT !.labels = labels, !.parent = parent]
    BY <1>4 DEF ParseLine, TakeLabel
  <2> HIDE DEF flushed
  <2>3. labels \in Seq(DocLine) /\ parent \in DocLine \cup {NoLabel}
    <3>1. flushed.labels \in Seq(DocLine) /\ flushed.parent \in DocLine \cup {NoLabel}
      BY <2>1 DEF Sheets
    <3> QED
      BY <3>1, AppendProperties
  <2> HIDE DEF labels, parent
  <2>4. ParseLine(a, l) \in Sheets /\ ParseLine(a, l).notes = a.notes
    BY <2>1, <2>2, <2>3 DEF Sheets
  <2> QED
    BY <1>4, <2>4 DEF Note
<1>5. CASE doc[l].kind \notin {"band", "rates", "label"}
  <2>1. ParseLine(a, l) = [a EXCEPT !.notes = Append(@, l)]
    BY <1>5 DEF ParseLine
  <2>2. Append(a.notes, l) \in Seq(DocLine) /\ Range(Append(a.notes, l)) = Range(a.notes) \cup {l}
    BY <1>1, AppendSays
  <2>3. ParseLine(a, l) \in Sheets /\ ParseLine(a, l).notes = Append(a.notes, l)
    BY <2>1, <2>2 DEF Sheets
  <2> QED
    BY <2>2, <2>3
<1> QED
  BY <1>2, <1>3, <1>4, <1>5

\* What a reading shows of the page at marker p.
LinesShown(p, reading) == IF reading = "whole" THEN InOrder(LinesOfPage(p)) ELSE <<>>

\* Those lines are read one after the other, from an empty sheet.
ReadBy(read, p, lines, result) ==
    /\ read[0] = EmptyPage
    /\ \A n \in 1..Len(lines) : read[n] = ParseLine(read[n - 1], lines[n])
    /\ result = IF form[PageNumber(p)].part > 1 THEN [groups |-> <<>>, notes |-> lines]
                ELSE [groups |-> FlushGroup(read[Len(lines)]), notes |-> read[Len(lines)].notes]

LEMMA LineByLine ==
    ASSUME IsDocument(doc), NEW p \in DocLine, NEW reading
    PROVE  /\ LinesShown(p, reading) \in Seq(DocLine)
           /\ reading = "whole" => Range(LinesShown(p, reading)) = LinesOfPage(p)
           /\ EmptyPage \in Sheets
           /\ \E read \in [0..Len(LinesShown(p, reading)) -> Sheets] :
                ReadBy(read, p, LinesShown(p, reading), ParseText(p, reading))
<1> DEFINE lines == LinesShown(p, reading)
           N == Len(lines)
           step == [i \in 1..N |-> [x \in Sheets |-> ParseLine(x, lines[i])]]
           Body1(f) == [n \in 0..N |-> IF n = 0 THEN EmptyPage ELSE ParseLine(f[n - 1], lines[n])]
           read == CHOOSE f : f = Body1(f)
           last == read[N]
           q == ParseText(p, reading)
<1>1. LinesOfPage(p) \in SUBSET DocLine
  <2>1. PICK e \in p..Len(doc) : LinesOfPage(p) = p + 1..e
    BY PageRuns
  <2> QED
    BY <2>1, DocumentLines DEF DocLine
<1>2. lines \in Seq(DocLine) /\ (reading = "whole" => Range(lines) = LinesOfPage(p))
  <2>1. InOrder(LinesOfPage(p)) \in Seq(DocLine) /\ Range(InOrder(LinesOfPage(p))) = LinesOfPage(p)
    BY <1>1, InOrderLists
  <2> QED
    BY <2>1, EmptySeq DEF LinesShown
<1>3. q = IF form[PageNumber(p)].part > 1 THEN [groups |-> <<>>, notes |-> lines]
          ELSE [groups |-> FlushGroup(last), notes |-> last.notes]
  BY DEF ParseText, LinesShown
<1>5. N \in Nat /\ \A i \in 1..N : lines[i] \in DocLine
  BY <1>2, Places1
<1> HIDE DEF N, lines
<1>6. EmptyPage \in Sheets
  <2>1. <<>> \in Seq(DocLine) /\ <<>> \in Seq(RateRows) /\ <<>> \in Seq(Groups)
    BY EmptySeq
  <2> QED
    BY <2>1 DEF EmptyPage, Sheets
<1>7. PICK f \in [0..N -> Sheets] : f = Body1(f)
  <2>1. step \in [1..N -> [Sheets -> Sheets]]
    <3>1. ASSUME NEW i \in 1..N, NEW x \in Sheets PROVE ParseLine(x, lines[i]) \in Sheets
      BY <1>5, ParseLineType
    <3> QED
      BY <3>1
  <2> HIDE DEF step
  <2>2. PICK f \in [0..N -> Sheets] : Runs(f, N, EmptyPage, step)
    BY <1>5, <1>6, <2>1, Recursion
  <2>3. ASSUME NEW n \in 0..N PROVE f[n] = IF n = 0 THEN EmptyPage ELSE ParseLine(f[n - 1], lines[n])
    <3>1. CASE n = 0
      BY <2>2, <3>1 DEF Runs
    <3>2. CASE n # 0
      <4>1. n \in 1..N /\ n - 1 \in 0..N
        BY <1>5, <3>2
      <4>2. f[n] = step[n][f[n - 1]] /\ f[n - 1] \in Sheets
        BY <2>2, <4>1 DEF Runs
      <4>3. step[n][f[n - 1]] = ParseLine(f[n - 1], lines[n])
        BY <4>1, <4>2 DEF step
      <4> QED
        BY <3>2, <4>2, <4>3
    <3> QED
      BY <3>1, <3>2
  <2>4. f = Body1(f)
    BY <2>3
  <2> QED
    BY <2>4
<1>8. read = Body1(read)
  BY <1>7
<1> HIDE DEF read
<1>9. \A n \in 0..N : read[n] = IF n = 0 THEN EmptyPage ELSE ParseLine(read[n - 1], lines[n])
  BY <1>8
<1>10. \A n \in 0..N : read[n] \in Sheets
  <2> DEFINE P == {n \in 0..N : read[n] \in Sheets}
  <2>1. 0 \in P
    BY <1>5, <1>6, <1>9
  <2>2. ASSUME NEW n \in 1..N, n - 1 \in P PROVE n \in P
    <3>1. n \in 0..N /\ n # 0 /\ read[n - 1] \in Sheets
      BY <2>2
    <3>2. read[n] = ParseLine(read[n - 1], lines[n])
      BY <1>9, <3>1
    <3> QED
      BY <1>5, <3>1, <3>2, ParseLineType
  <2> HIDE DEF P
  <2>3. \A n \in 0..N : n \in P
    BY <1>5, <2>1, <2>2, Induction
  <2> QED
    BY <2>3 DEF P
<1>11. read \in [0..N -> Sheets] /\ read[0] = EmptyPage
       /\ \A n \in 1..N : read[n] = ParseLine(read[n - 1], lines[n])
  <2>1. read = [n \in 0..N |-> read[n]]
    BY <1>8
  <2>2. 0 \in 0..N /\ \A n \in 1..N : n \in 0..N /\ n # 0
    BY <1>5
  <2> HIDE DEF Sheets
  <2> QED
    BY <1>9, <1>10, <2>1, <2>2
<1> QED
  BY <1>2, <1>3, <1>6, <1>11 DEF N, lines, ReadBy

\* A page that shows its form keeps what is not a rate, a label or a heading.
LEMMA ParseTextType ==
    ASSUME IsDocument(doc), NEW p \in DocLine, NEW reading
    PROVE  /\ ParseText(p, reading) \in [groups : Seq(Groups), notes : Seq(DocLine)]
           /\ reading # "whole" => ParseText(p, reading).groups = <<>>
           /\ reading = "whole" =>
                \A l \in LinesOfPage(p) :
                  form[PageNumber(p)].part > 1 \/ Note(l) => l \in Range(ParseText(p, reading).notes)
<1> DEFINE lines == LinesShown(p, reading)
           N == Len(lines)
           q == ParseText(p, reading)
<1>2. lines \in Seq(DocLine) /\ (reading = "whole" => Range(lines) = LinesOfPage(p))
  BY LineByLine
<1>4. reading # "whole" => N = 0
  BY DEF LinesShown
<1>5. N \in Nat /\ (\A i \in 1..N : lines[i] \in DocLine) /\ Range(lines) = {lines[i] : i \in 1..N}
  BY <1>2, Places1
<1>6. EmptyPage \in Sheets
  BY LineByLine
<1>7. PICK read \in [0..N -> Sheets] : ReadBy(read, p, lines, q)
  BY LineByLine
<1> DEFINE last == read[N]
<1>3. q = IF form[PageNumber(p)].part > 1 THEN [groups |-> <<>>, notes |-> lines]
          ELSE [groups |-> FlushGroup(last), notes |-> last.notes]
  BY <1>7 DEF ReadBy
<1> HIDE DEF N, q, lines
<1>9. \A n \in 0..N : read[n] = IF n = 0 THEN EmptyPage ELSE ParseLine(read[n - 1], lines[n])
  <2>1. \A n \in 0..N : n = 0 \/ n \in 1..N
    BY <1>5
  <2> HIDE DEF Sheets
  <2> QED
    BY <1>5, <1>7, <2>1 DEF ReadBy, N
<1>10. /\ last \in Sheets
       /\ \A k \in 1..N : Note(lines[k]) => lines[k] \in Range(last.notes)
  <2> DEFINE Good(n) == /\ read[n] \in Sheets
                        /\ \A k \in 1..n : Note(lines[k]) => lines[k] \in Range(read[n].notes)
             P == {n \in 0..N : Good(n)}
  <2>1. 0 \in P
    BY <1>5, <1>6, <1>9
  <2>2. ASSUME NEW n \in 1..N, n - 1 \in P PROVE n \in P
    <3>1. n \in 0..N /\ n # 0 /\ Good(n - 1)
      BY <2>2
    <3>2. read[n] = ParseLine(read[n - 1], lines[n])
      BY <1>9, <3>1
    <3>3. /\ read[n] \in Sheets /\ Range(read[n - 1].notes) \subseteq Range(read[n].notes)
          /\ Note(lines[n]) => lines[n] \in Range(read[n].notes)
      BY <1>5, <3>1, <3>2, ParseLineType
    <3>4. \A k \in 1..n : k = n \/ k \in 1..n - 1
      OBVIOUS
    <3>5. Good(n)
      BY <3>1, <3>3, <3>4
    <3> QED
      BY <3>1, <3>5
  <2>3. \A n \in 1..N : n - 1 \in P => n \in P
    BY <2>2
  <2> HIDE DEF P
  <2>4. \A n \in 0..N : n \in P
    BY <1>5, <2>1, <2>3, Induction
  <2>5. N \in P
    BY <1>5, <2>4
  <2> QED
    BY <2>5 DEF P
<1>11. N = 0 => last = EmptyPage
  BY <1>5, <1>9
<1> HIDE DEF last
<1>12. FlushGroup(last) \in Seq(Groups) /\ last.notes \in Seq(DocLine)
  BY <1>10, FlushGroupType DEF Sheets
<1>13. q \in [groups : Seq(Groups), notes : Seq(DocLine)]
  BY <1>2, <1>3, <1>12, EmptySeq
<1>14. reading # "whole" => q.groups = <<>>
  <2>1. FlushGroup(EmptyPage) = <<>>
    BY DEF FlushGroup, EmptyPage
  <2> QED
    BY <1>3, <1>4, <1>11, <2>1
<1>15. ASSUME reading = "whole", NEW l \in LinesOfPage(p), form[PageNumber(p)].part > 1 \/ Note(l)
       PROVE  l \in Range(q.notes)
  <2>1. l \in Range(lines)
    BY <1>2, <1>15
  <2>2. CASE form[PageNumber(p)].part > 1
    BY <1>3, <2>1, <2>2
  <2>3. CASE ~(form[PageNumber(p)].part > 1) /\ Note(l)
    <3>1. PICK k \in 1..N : lines[k] = l
      BY <1>5, <2>1
    <3> QED
      BY <1>3, <1>10, <2>3, <3>1
  <2> QED
    BY <1>15, <2>2, <2>3
<1> QED
  BY <1>13, <1>14, <1>15 DEF q

-----------------------------------------------------------------------------
(* Steps of the wage form                                                  *)

\* The page a line of a page is on.
LEMMA OnPage ==
    ASSUME IsDocument(doc), NEW p \in DocLine, doc[p].kind = "page", NEW l \in LinesOfPage(p)
    PROVE  l \in DocLine /\ p < l /\ PageOf(l) = p
<1> DEFINE marks == {k \in 1..l : doc[k].kind = "page"}
<1>1. Len(doc) \in Nat /\ p \in 1..Len(doc)
  BY DocumentLines DEF DocLine
<1>2. PICK e \in p..Len(doc) : /\ LinesOfPage(p) = p + 1..e
                               /\ \A k \in p + 1..e : doc[k].kind # "page"
  BY PageRuns
<1>3. l \in p + 1..e
  BY <1>2
<1>4. l \in DocLine /\ p < l /\ l \in Nat /\ p \in 1..l
  BY <1>1, <1>2, <1>3 DEF DocLine
<1>5. p \in marks /\ \A k \in marks : k <= p
  BY <1>1, <1>2, <1>3, <1>4
<1>6. marks \in SUBSET (1..l)
  OBVIOUS
<1>7. IsFiniteSet(marks) /\ marks \subseteq Int /\ marks # {}
  BY <1>4, <1>5, <1>6, SomePlaces
<1> HIDE DEF marks
<1>8. Max(marks) \in marks /\ p <= Max(marks)
  BY <1>5, <1>7, GreatestOf
<1>9. Max(marks) <= p /\ Max(marks) \in Int
  BY <1>5, <1>7, <1>8
<1>10. Max(marks) = p
  BY <1>1, <1>8, <1>9
<1>11. PageOf(l) = p
  BY <1>10 DEF PageOf, marks
<1> QED
  BY <1>4, <1>11

\* While a wage form is read nothing is pending and nothing chunked.
LEMMA WageTurn ==
    ASSUME TypeInv, path = "wage", doc' = doc, page' = page, text' = text, rows' = rows,
           blocks' = blocks, docType' = docType, engine' = engine, blockNo' = blockNo,
           lineNo' = lineNo, context' = context, buffer' = buffer, queue' = queue,
           form' = form, entry' = entry,
           path' \in {"wage", "convert", "legacy"}, path' = "convert" => pos' = 1,
           pos' \in 1..Len(doc) + 2, parsed' \in Seq(FormPages), out' \in Seq(Pieces),
           path' # "wage" => parsed' = <<>> /\ out' = <<>>,
           path' = "wage" => out' = IF pos' > Len(doc) + 1 THEN FormChunks' ELSE <<>>
    PROVE  TypeInv'
<1>1. Unread /\ Unchunked /\ IsDocument(doc)
  BY DEF TypeInv, InTurn, Entered
<1>2. /\ DocLine' = DocLine /\ Blocks' = Blocks /\ Contexts' = Contexts /\ Kept' = Kept
      /\ Pieces' = Pieces /\ FormPages' = FormPages
  BY SameDocument, SamePieces, SameForms
<1>3. Extracted' = (pos' > Len(doc) + 1)
  BY DEF Extracted
<1>4. Entered'
  BY DEF TypeInv, Entered
<1>5. Typed'
  BY <1>2 DEF TypeInv, Typed
<1>6. InTurn'
  <2>1. Unread' /\ Unchunked'
    BY <1>1 DEF Unread, Unchunked
  <2>2. ~Extracted' => out' = <<>>
    BY <1>3
  <2> QED
    BY <2>1, <2>2 DEF InTurn
<1>7. Pending'
  BY <1>1 DEF Pending, Unread
<1>8. AtBlock'
  <2>1. AtBlockIn(blocks, blockNo, lineNo)' = AtBlockIn(blocks', blockNo', lineNo')
    BY SameAhead
  <2>2. blocks' = <<>> /\ blockNo' = 1 /\ lineNo' = 1 /\ buffer' = <<>>
    BY <1>1 DEF Unread, Unchunked
  <2>3. AtBlockIn(<<>>, 1, 1)
    BY EmptySeq DEF AtBlockIn
  <2> QED
    BY <2>1, <2>2, <2>3 DEF AtBlock
<1>9. FormRead'
  BY <1>2, <1>3 DEF FormRead
<1> QED
  BY <1>4, <1>5, <1>6, <1>7, <1>8, <1>9 DEF TypeInv

LEMMA WagePageTypes ==
    ASSUME TypeInv, WagePage
    PROVE  TypeInv'
<1>1. path = "wage" /\ ParsePage /\ entry' = entry /\ path' = path
  BY DEF WagePage
<1>2. /\ doc' = doc /\ page' = page /\ text' = text /\ rows' = rows /\ blocks' = blocks
      /\ form' = form /\ pos' = pos + 1 + Cardinality(LinesOfPage(pos)) /\ AtLine
  BY <1>1 DEF ParsePage
<1>3. /\ docType' = docType /\ engine' = engine /\ blockNo' = blockNo /\ lineNo' = lineNo
      /\ context' = context /\ buffer' = buffer /\ queue' = queue /\ out' = out
  BY <1>1 DEF ParsePage, chunkVars
<1>4. IsDocument(doc) /\ pos \in 1..Len(doc) + 2 /\ parsed \in Seq(FormPages)
  BY DEF TypeInv, Entered, Typed, FormRead
<1>5. Len(doc) \in Nat /\ pos \in DocLine
  BY <1>2, <1>4, DocumentLines DEF AtLine, DocLine
<1>6. pos' \in pos + 1..Len(doc) + 1
  <2>1. PICK e \in pos..Len(doc) : Cardinality(LinesOfPage(pos)) = e - pos
    BY <1>4, <1>5, PageRuns
  <2> QED
    BY <1>2, <1>4, <1>5, <2>1
<1>7. ~Extracted /\ out = <<>>
  BY <1>1, <1>2, <1>4, <1>5 DEF Extracted, AtLine, TypeInv, InTurn
<1>8. parsed' \in Seq(FormPages)
  <2>1. ASSUME NEW reading PROVE [number |-> PageNumber(pos), read |-> ParseText(pos, reading)] \in FormPages
    BY <1>4, <1>5, ParseTextType, PageNumberType DEF FormPages
  <2>2. PICK reading : \/ parsed' = parsed
                       \/ parsed' = Append(parsed, [number |-> PageNumber(pos), read |-> ParseText(pos, reading)])
    BY <1>1 DEF ParsePage
  <2> HIDE DEF FormPages
  <2> QED
    BY <1>4, <2>1, <2>2, AppendProperties
<1>9. out' \in Seq(Pieces)
  BY <1>3, <1>7, EmptySeq
<1>10. pos' \in 1..Len(doc) + 2 /\ ~(pos' > Len(doc) + 1)
  BY <1>4, <1>5, <1>6
<1> QED
  BY <1>1, <1>2, <1>3, <1>7, <1>8, <1>9, <1>10, WageTurn

\* A page whose body the parser sees is read from a text layer that shows it.
LEMMA BodyIsRead ==
    ASSUME TypeInv, path = "wage", pos \in DocLine, doc[pos].kind = "page", BodyRead(pos), NEW f,
           f = form[PageNumber(pos)], NEW bare,
           bare = (f.part = 1 /\ ParseText(pos, f.layout).groups = <<>>), NEW reading,
           reading = IF (f.layout = "none" \/ bare) /\ f.plain # "none" THEN f.plain ELSE f.layout
    PROVE  reading = "whole"
<1>1. IsDocument(doc) /\ IsEntry(entry) /\ doc = entry.doc /\ form = entry.form
  BY DEF TypeInv, Entered
<1>2. PageNumber(pos) \in 1..Cardinality({k \in DOMAIN doc : doc[k].kind = "page"})
  BY <1>1, PageNumberType
<1>3. IsFormPage(f)
  BY <1>1, <1>2 DEF IsEntry
<1>4. f.layout \in Readings /\ f.plain \in Readings /\ (f.layout = "whole" => f.plain # "header")
  BY <1>3 DEF IsFormPage, FormType
<1>5. f.layout = "whole" \/ (f.plain = "whole" /\ (f.layout = "none" \/ f.part = 1))
  BY DEF BodyRead
<1>6. f.layout # "whole" => ParseText(pos, f.layout).groups = <<>>
  BY <1>1, ParseTextType
<1> QED
  BY <1>4, <1>5, <1>6 DEF Readings

LEMMA WagePageKeeps ==
    ASSUME TypeInv, NothingDropped, WagePage
    PROVE  NothingDropped'
<1>1. path = "wage" /\ ParsePage /\ entry' = entry /\ path' = path
  BY DEF WagePage
<1>2. /\ doc' = doc /\ form' = form /\ pos' = pos + 1 + Cardinality(LinesOfPage(pos)) /\ AtLine
      /\ docType' = docType /\ doc[pos].kind = "page"
  BY <1>1 DEF ParsePage, chunkVars
<1>3. IsDocument(doc) /\ pos \in 1..Len(doc) + 2 /\ parsed \in Seq(FormPages)
  BY DEF TypeInv, Entered, Typed, FormRead
<1>4. Len(doc) \in Nat /\ pos \in DocLine
  BY <1>2, <1>3, DocumentLines DEF AtLine, DocLine
<1>5. Content' = Content
  BY <1>1, <1>2, SameContent
<1> DEFINE f == form[PageNumber(pos)]
           bare == f.part = 1 /\ ParseText(pos, f.layout).groups = <<>>
           reading == IF (f.layout = "none" \/ bare) /\ f.plain # "none" THEN f.plain ELSE f.layout
           new == [number |-> PageNumber(pos), read |-> ParseText(pos, reading)]
<1>6. parsed' = IF reading = "none" THEN parsed ELSE Append(parsed, new)
  BY <1>1 DEF ParsePage
<1>7. /\ ParseText(pos, reading) \in [groups : Seq(Groups), notes : Seq(DocLine)]
      /\ reading = "whole" =>
           \A l \in LinesOfPage(pos) :
             f.part > 1 \/ Note(l) => l \in Range(ParseText(pos, reading).notes)
  BY <1>3, <1>4, ParseTextType
<1>8. BodyRead(pos) => reading = "whole"
  BY <1>1, <1>2, <1>4, BodyIsRead
<1>9. new \in FormPages /\ new.read.notes = ParseText(pos, reading).notes
  BY <1>3, <1>4, <1>7, PageNumberType DEF FormPages
<1>10. BodyRead(pos) => f.part \in 1..2
  <2>1. IsEntry(entry) /\ doc = entry.doc /\ form = entry.form
    BY <1>1 DEF TypeInv, Entered
  <2>2. PageNumber(pos) \in 1..Cardinality({k \in DOMAIN doc : doc[k].kind = "page"})
    BY <1>2, <1>3, <1>4, PageNumberType
  <2>3. IsFormPage(f)
    BY <2>1, <2>2 DEF IsEntry
  <2> QED
    BY <2>3 DEF IsFormPage, FormType
<1> HIDE DEF reading, new
<1>11. \A i \in 1..Len(parsed) : i \in 1..Len(parsed') /\ parsed'[i] = parsed[i]
  <2> HIDE DEF FormPages
  <2> QED
    BY <1>3, <1>6, <1>9, AppendProperties, Places1
<1>12. ASSUME NEW l \in Content, l < pos'
       PROVE  \E i \in 1..Len(parsed') : l \in Range(parsed'[i].read.notes)
  <2>1. l \in DocLine /\ l \in Nat /\ doc[l].kind # "page"
    BY <1>3, DocumentLines DEF Content
  <2>2. CASE l < pos
    <3>1. PICK i \in 1..Len(parsed) : l \in Range(parsed[i].read.notes)
      BY <1>1, <1>12, <2>2 DEF NothingDropped
    <3> QED
      BY <1>11, <3>1
  <2>3. CASE ~(l < pos)
    <3>1. l # pos
      BY <1>2, <2>1
    <3>2. PICK e \in pos..Len(doc) : LinesOfPage(pos) = pos + 1..e /\ Cardinality(LinesOfPage(pos)) = e - pos
      BY <1>3, <1>4, PageRuns
    <3>3. l \in LinesOfPage(pos)
      BY <1>2, <1>3, <1>4, <1>12, <2>1, <2>3, <3>1, <3>2
    <3>4. PageOf(l) = pos
      BY <1>2, <1>3, <1>4, <3>3, OnPage
    <3>5. BodyRead(pos) /\ (RatesPage(pos) => doc[l].kind = "body")
      BY <1>1, <1>12, <3>4 DEF Content
    <3>6. f.part > 1 \/ Note(l)
      BY <1>10, <3>5 DEF RatesPage, Note
    <3>7. reading = "whole" /\ l \in Range(new.read.notes)
      BY <1>7, <1>8, <1>9, <3>3, <3>5, <3>6
    <3>8. Len(parsed') \in 1..Len(parsed') /\ parsed'[Len(parsed')] = new
      <4> HIDE DEF FormPages
      <4> QED
        BY <1>3, <1>6, <1>9, <3>7, AppendProperties, Places1
    <3> QED
      BY <3>7, <3>8
  <2> QED
    BY <2>2, <2>3
<1> QED
  BY <1>1, <1>5, <1>12 DEF NothingDropped

\* The parts of a page's notes: each within the budget unless it is one line.
NoteParts == {ps \in Seq(Seq(DocLine)) :
                \A i \in 1..Len(ps) : /\ ps[i] # <<>>
                                      /\ Len(ps[i]) = 1 \/ Len(Joined(ps[i])) <= MaxNotesChars}

AddNote(parts, l) ==
    IF parts = <<>> \/ Len(Joined(Last(parts))) + 1 + Len(doc[l].text) > MaxNotesChars
    THEN Append(parts, <<l>>)
    ELSE Append(Front(parts), Append(Last(parts), l))

InPart(l, ps) == \E i \in 1..Len(ps) : l \in Range(ps[i])

\* One line more starts a part or joins the last one.
LEMMA AddNoteType ==
    ASSUME IsDocument(doc), NEW ps \in NoteParts, NEW l \in DocLine
    PROVE  /\ AddNote(ps, l) \in NoteParts
           /\ \A m : InPart(m, AddNote(ps, l)) <=> InPart(m, ps) \/ m = l
<1> DEFINE qs == AddNote(ps, l)
           n == Len(ps)
<1>1. /\ ps \in Seq(Seq(DocLine)) /\ n \in Nat
      /\ \A i \in 1..n : /\ ps[i] \in Seq(DocLine) /\ ps[i] # <<>>
                         /\ Len(ps[i]) = 1 \/ Len(Joined(ps[i])) <= MaxNotesChars
  <2>1. ps \in Seq(Seq(DocLine))
    BY DEF NoteParts
  <2>2. n \in Nat /\ \A i \in 1..n : ps[i] \in Seq(DocLine)
    BY <2>1, Places1
  <2> QED
    BY <2>1, <2>2 DEF NoteParts
<1>2. <<l>> \in Seq(DocLine) /\ <<l>> # <<>> /\ Len(<<l>>) = 1 /\ Range(<<l>>) = {l}
  <2>1. <<l>> \in Seq(DocLine) /\ Len(<<l>>) = 1 /\ <<l>>[1] = l
    OBVIOUS
  <2>2. Range(<<l>>) = {<<l>>[i] : i \in 1..1}
    BY <2>1, Places1
  <2> QED
    BY <2>1, <2>2
<1>3. CASE qs = Append(ps, <<l>>)
  <2>1. /\ qs \in Seq(Seq(DocLine)) /\ Len(qs) = n + 1
        /\ \A i \in 1..n + 1 : (i \in 1..n /\ qs[i] = ps[i]) \/ (i = n + 1 /\ qs[i] = <<l>>)
    BY <1>1, <1>2, <1>3, AppendSays
  <2>2. qs \in NoteParts
    BY <1>1, <1>2, <2>1 DEF NoteParts
  <2>3. n + 1 \in 1..n + 1 /\ qs[n + 1] = <<l>> /\ \A i \in 1..n : i \in 1..n + 1 /\ qs[i] = ps[i]
    BY <1>1, <2>1
  <2> HIDE DEF qs
  <2>4. \A m : InPart(m, qs) <=> InPart(m, ps) \/ m = l
    BY <1>2, <2>1, <2>3 DEF InPart
  <2> QED
    BY <2>2, <2>4 DEF qs
<1>4. CASE qs # Append(ps, <<l>>)
  <2>1. /\ ps # <<>> /\ qs = Append(Front(ps), Append(Last(ps), l))
        /\ ~(Len(Joined(Last(ps))) + 1 + Len(doc[l].text) > MaxNotesChars)
    BY <1>4 DEF AddNote
  <2>2. n \in Nat \ {0} /\ Last(ps) = ps[n] /\ n \in 1..n
    BY <1>1, <2>1, EmptySeq DEF Last
  <2>3. Front(ps) \in Seq(Seq(DocLine)) /\ Len(Front(ps)) = n - 1 /\ \A i \in 1..n - 1 : Front(ps)[i] = ps[i]
    <3> DEFINE Parts == Seq(DocLine)
    <3>1. ps \in Seq(Parts)
      BY <1>1
    <3> HIDE DEF Parts
    <3>2. Len(ps) # 0 /\ n = Len(ps)
      BY <2>2
    <3>3. /\ Front(ps) \in Seq(Parts) /\ Len(Front(ps)) = Len(ps) - 1
          /\ \A k \in 1..Len(ps) - 1 : Front(ps)[k] = ps[k]
      BY <3>1, <3>2, FrontOf
    <3> QED
      BY <3>2, <3>3 DEF Parts
  <2> DEFINE last == Append(ps[n], l)
  <2>4. ps[n] \in Seq(DocLine) /\ ps[n] # <<>>
    BY <1>1, <2>2
  <2>5. last \in Seq(DocLine) /\ last # <<>> /\ Range(last) = Range(ps[n]) \cup {l}
    BY <2>4, AppendSays
  <2>6. Len(Joined(last)) = Len(Joined(ps[n])) + 1 + Len(doc[l].text)
    BY <2>4, JoinedMore
  <2>7. Len(Joined(last)) <= MaxNotesChars
    <3>1. Len(Joined(ps[n])) \in Nat /\ Len(doc[l].text) \in Nat /\ MaxNotesChars \in Nat
      BY <2>4, JoinedSays, DocumentLines, NotesAssumption, LenProperties
    <3>2. ~(Len(Joined(ps[n])) + 1 + Len(doc[l].text) > MaxNotesChars)
      BY <2>1, <2>2
    <3> DEFINE before == Len(Joined(ps[n]))
               more == Len(doc[l].text)
               after == Len(Joined(last))
    <3>3. /\ before \in Nat /\ more \in Nat /\ MaxNotesChars \in Nat
          /\ after = before + 1 + more /\ ~(before + 1 + more > MaxNotesChars)
      BY <2>6, <3>1, <3>2
    <3> HIDE DEF before, more, after
    <3>4. after <= MaxNotesChars
      BY <3>3
    <3> QED
      BY <3>4 DEF after
  <2>8. qs = Append(Front(ps), last)
    BY <2>1, <2>2
  <2> HIDE DEF qs, last
  <2>9. /\ qs \in Seq(Seq(DocLine)) /\ Len(qs) = n
        /\ \A i \in 1..n : (i \in 1..n - 1 /\ qs[i] = ps[i]) \/ (i = n /\ qs[i] = last)
    <3>1. /\ Append(Front(ps), last) \in Seq(Seq(DocLine)) /\ Len(Append(Front(ps), last)) = n - 1 + 1
          /\ \A i \in 1..n - 1 + 1 :
               \/ i \in 1..n - 1 /\ Append(Front(ps), last)[i] = Front(ps)[i]
               \/ i = n - 1 + 1 /\ Append(Front(ps), last)[i] = last
      BY <2>3, <2>5, AppendSays
    <3> QED
      BY <2>2, <2>3, <2>8, <3>1
  <2>10. qs \in NoteParts
    BY <1>1, <2>2, <2>5, <2>7, <2>9 DEF NoteParts
  <2>11. n \in 1..n /\ qs[n] = last /\ \A i \in 1..n : Range(ps[i]) \subseteq Range(qs[i])
    BY <2>2, <2>5, <2>9
  <2>12. \A m : InPart(m, qs) <=> InPart(m, ps) \/ m = l
    BY <2>2, <2>5, <2>9, <2>11 DEF InPart
  <2> QED
    BY <2>10, <2>12 DEF qs
<1> QED
  BY <1>3, <1>4

LEMMA NotesPartsType ==
    ASSUME IsDocument(doc), NEW ls \in Seq(DocLine)
    PROVE  NotesParts(ls) \in NoteParts /\ \A l : InPart(l, NotesParts(ls)) <=> l \in Range(ls)
<1> DEFINE N == Len(ls)
           step == [i \in 1..N |-> [x \in NoteParts |-> AddNote(x, ls[i])]]
           Body1(f) == [n \in 0..N |-> IF n = 0 THEN <<>> ELSE AddNote(f[n - 1], ls[n])]
           added == CHOOSE f : f = Body1(f)
<1>1. NotesParts(ls) = added[N]
  BY DEF NotesParts, AddNote
<1>2. N \in Nat /\ (\A i \in 1..N : ls[i] \in DocLine) /\ Range(ls) = {ls[i] : i \in 1..N}
  BY Places1
<1> HIDE DEF N
<1>3. <<>> \in NoteParts
  BY EmptySeq DEF NoteParts
<1>4. \E f : f = Body1(f)
  <2>1. step \in [1..N -> [NoteParts -> NoteParts]]
    <3>1. ASSUME NEW i \in 1..N, NEW x \in NoteParts PROVE AddNote(x, ls[i]) \in NoteParts
      BY <1>2, AddNoteType
    <3> QED
      BY <3>1
  <2> HIDE DEF step
  <2>2. PICK f \in [0..N -> NoteParts] : Runs(f, N, <<>>, step)
    BY <1>2, <1>3, <2>1, Recursion
  <2>3. ASSUME NEW n \in 0..N PROVE f[n] = IF n = 0 THEN <<>> ELSE AddNote(f[n - 1], ls[n])
    <3>1. CASE n = 0
      BY <2>2, <3>1 DEF Runs
    <3>2. CASE n # 0
      <4>1. n \in 1..N /\ n - 1 \in 0..N
        BY <1>2, <3>2
      <4>2. f[n] = step[n][f[n - 1]] /\ f[n - 1] \in NoteParts
        BY <2>2, <4>1 DEF Runs
      <4>3. step[n][f[n - 1]] = AddNote(f[n - 1], ls[n])
        BY <4>1, <4>2 DEF step
      <4> QED
        BY <3>2, <4>2, <4>3
    <3> QED
      BY <3>1, <3>2
  <2>4. f = Body1(f)
    BY <2>3
  <2> QED
    BY <2>4
<1>5. added = Body1(added)
  BY <1>4
<1> HIDE DEF added
<1>6. \A n \in 0..N : added[n] = IF n = 0 THEN <<>> ELSE AddNote(added[n - 1], ls[n])
  BY <1>5
<1> DEFINE Good(n) == added[n] \in NoteParts /\ \A l : InPart(l, added[n]) <=> \E k \in 1..n : l = ls[k]
           P == {n \in 0..N : Good(n)}
<1>7. 0 \in P
  <2>1. 0 \in 0..N /\ added[0] = <<>>
    BY <1>2, <1>6
  <2>2. Len(<<>>) = 0
    BY EmptySeq
  <2>3. \A l : ~InPart(l, <<>>)
    BY <2>2 DEF InPart
  <2> QED
    BY <1>3, <2>1, <2>3
<1>8. ASSUME NEW n \in 1..N, n - 1 \in P PROVE n \in P
  <2>1. n \in 0..N /\ n # 0 /\ Good(n - 1)
    BY <1>8
  <2>2. added[n] = AddNote(added[n - 1], ls[n])
    BY <1>6, <2>1
  <2>3. /\ added[n] \in NoteParts
        /\ \A m : InPart(m, added[n]) <=> InPart(m, added[n - 1]) \/ m = ls[n]
    BY <1>2, <2>1, <2>2, AddNoteType
  <2>4. n \in 1..n /\ (\A k \in 1..n : k = n \/ k \in 1..n - 1) /\ \A k \in 1..n - 1 : k \in 1..n
    OBVIOUS
  <2>5. Good(n)
    BY <2>1, <2>3, <2>4
  <2> QED
    BY <2>1, <2>5
<1>9. \A n \in 1..N : n - 1 \in P => n \in P
  BY <1>8
<1> HIDE DEF P
<1>10. \A n \in 0..N : n \in P
  BY <1>2, <1>7, <1>9, Induction
<1>11. N \in P
  BY <1>2, <1>10
<1> QED
  BY <1>1, <1>2, <1>11 DEF P

\* A chunk of a wage form: if it is notes, within their budget unless it is one line.
FormPieces == {c \in Pieces : ~c.table => \/ Len(c.text) <= MaxNotesChars
                                          \/ Cardinality(LinesIn(c)) = 1}

LEMMA WageChunkType ==
    ASSUME IsDocument(doc), NEW ls \in Seq(DocLine), ls # <<>>, NEW number \in Nat,
           NEW isTable \in BOOLEAN
    PROVE  /\ WageChunk(ls, number, isTable) \in Pieces
           /\ WageChunk(ls, number, isTable).text = Joined(ls)
           /\ WageChunk(ls, number, isTable).table = isTable
<1>1. Len(ls) \in Nat \ {0} /\ ls[1] \in DocLine
  BY EmptySeq, Places1
<1>2. ls[1] \in Nat
  BY <1>1, DocumentLines
<1>3. Joined(ls) \in Seq(Char) /\ <<>> \in Seq(Char) /\ NoName \in Names
  BY JoinedSays, EmptySeq DEF Names
<1> QED
  BY <1>2, <1>3 DEF WageChunk, Pieces

LEMMA GroupChunkType ==
    ASSUME IsDocument(doc), NEW g \in Groups, NEW number \in Nat
    PROVE  GroupChunk(g, number) \in FormPieces
<1> DEFINE dated == [i \in DOMAIN g.rates |-> g.rates[i].line]
           ls == g.labels \o dated
<1>1. g.labels \in Seq(DocLine) /\ g.rates \in Seq(RateRows) /\ g.rates # <<>>
  BY DEF Groups
<1>2. /\ Len(g.rates) \in Nat \ {0} /\ DOMAIN g.rates = 1..Len(g.rates)
      /\ \A i \in 1..Len(g.rates) : g.rates[i] \in RateRows
  <2> HIDE DEF RateRows
  <2> QED
    BY <1>1, EmptySeq, Places1
<1>3. \A row \in RateRows : row.line \in DocLine
  BY DEF RateRows, RateRow, Dated
<1>4. dated \in Seq(DocLine) /\ Len(dated) = Len(g.rates)
  BY <1>2, <1>3
<1> HIDE DEF dated
<1>5. ls \in Seq(DocLine) /\ Len(ls) = Len(g.labels) + Len(dated) /\ Len(g.labels) \in Nat
  BY <1>1, <1>4, ConcatProperties, LenProperties
<1>6. ls # <<>>
  BY <1>2, <1>4, <1>5, EmptySeq
<1>7. GroupChunk(g, number) = WageChunk(ls, number, TRUE)
  BY DEF GroupChunk, dated
<1> HIDE DEF ls
<1>8. WageChunk(ls, number, TRUE) \in Pieces /\ WageChunk(ls, number, TRUE).table
  BY <1>5, <1>6, WageChunkType
<1> QED
  BY <1>7, <1>8 DEF FormPieces

\* A part of the notes says all its lines say.
LEMMA NoteChunkType ==
    ASSUME IsDocument(doc), NEW ps \in NoteParts, NEW k \in 1..Len(ps), NEW number \in Nat
    PROVE  /\ WageChunk(ps[k], number, FALSE) \in FormPieces
           /\ \A l \in Range(ps[k]) : SolidIn(CharsOf(l)) \subseteq SolidIn(WageChunk(ps[k], number, FALSE).text)
<1> DEFINE ls == ps[k]
           c == WageChunk(ls, number, FALSE)
<1>1. /\ ls \in Seq(DocLine) /\ ls # <<>>
      /\ Len(ls) = 1 \/ Len(Joined(ls)) <= MaxNotesChars
  <2>1. ps \in Seq(Seq(DocLine))
    BY DEF NoteParts
  <2>2. ps[k] \in Seq(DocLine)
    BY <2>1, Places1
  <2> QED
    BY <2>2 DEF NoteParts
<1> HIDE DEF ls
<1>2. c \in Pieces /\ c.text = Joined(ls) /\ ~c.table
  BY <1>1, WageChunkType
<1>3. /\ Joined(ls) \in Seq(Char)
      /\ SolidIn(Joined(ls)) = UNION {SolidIn(CharsOf(l)) : l \in Range(ls)}
      /\ \A ch \in Range(Joined(ls)) : ch[2] \in Range(ls)
  BY <1>1, JoinedSays
<1> HIDE DEF c
<1>4. Len(c.text) <= MaxNotesChars \/ Cardinality(LinesIn(c)) = 1
  <2>1. CASE Len(Joined(ls)) <= MaxNotesChars
    BY <1>2, <2>1
  <2>2. CASE Len(ls) = 1 /\ ~(Len(Joined(ls)) <= MaxNotesChars)
    <3>1. PICK l : Range(ls) = {l}
      <4>1. Range(ls) = {ls[i] : i \in 1..Len(ls)}
        BY <1>1, Places1
      <4>2. Range(ls) = {ls[1]}
        BY <2>2, <4>1
      <4> QED
        BY <4>2
    <3>2. Len(Joined(ls)) \in Nat /\ MaxNotesChars \in Nat
      BY <1>3, LenProperties, NotesAssumption
    <3>3. Len(Joined(ls)) # 0
      BY <2>2, <3>2
    <3>4. PICK ch : ch \in Range(Joined(ls))
      <4>1. Range(Joined(ls)) = {Joined(ls)[i] : i \in 1..Len(Joined(ls))}
        BY <1>3, Places1
      <4>2. Joined(ls)[1] \in Range(Joined(ls))
        BY <3>2, <3>3, <4>1
      <4> QED
        BY <4>2
    <3>5. LinesIn(c) = {l}
      BY <1>2, <1>3, <3>1, <3>4 DEF LinesIn
    <3>6. Cardinality({l}) = 1
      BY FS_Singleton
    <3> QED
      BY <3>5, <3>6
  <2> QED
    BY <1>1, <2>1, <2>2
<1>5. c \in FormPieces
  BY <1>2, <1>4 DEF FormPieces
<1>6. \A l \in Range(ls) : SolidIn(CharsOf(l)) \subseteq SolidIn(c.text)
  BY <1>2, <1>3
<1> QED
  BY <1>5, <1>6 DEF c, ls

SaidIn(l, cs) == \A ch \in SolidIn(CharsOf(l)) : \E c \in Range(cs) : ch \in SolidIn(c.text)

LEMMA PageChunksType ==
    ASSUME IsDocument(doc), NEW p \in FormPages
    PROVE  PageChunks(p) \in Seq(FormPieces) /\ \A l \in Range(p.read.notes) : SaidIn(l, PageChunks(p))
<1> DEFINE gs == p.read.groups
           ps == NotesParts(p.read.notes)
           tables == [i \in DOMAIN gs |-> GroupChunk(gs[i], p.number)]
           notes == [i \in DOMAIN ps |-> WageChunk(ps[i], p.number, FALSE)]
<1>1. p.number \in Nat /\ gs \in Seq(Groups) /\ p.read.notes \in Seq(DocLine)
  BY DEF FormPages
<1>2. ps \in NoteParts /\ \A l \in Range(p.read.notes) : InPart(l, ps)
  BY <1>1, NotesPartsType
<1>3. ps \in Seq(Seq(DocLine))
  BY <1>2 DEF NoteParts
<1>4. PageChunks(p) = tables \o notes
  BY DEF PageChunks
<1> HIDE DEF ps, gs
<1>5. Len(gs) \in Nat /\ DOMAIN gs = 1..Len(gs) /\ \A i \in 1..Len(gs) : gs[i] \in Groups
  <2> HIDE DEF Groups
  <2> QED
    BY <1>1, Places1
<1>6. Len(ps) \in Nat /\ DOMAIN ps = 1..Len(ps)
  BY <1>3, Places1
<1>7. tables \in Seq(FormPieces) /\ Len(tables) = Len(gs)
  <2>1. \A i \in 1..Len(gs) : GroupChunk(gs[i], p.number) \in FormPieces
    BY <1>1, <1>5, GroupChunkType
  <2> QED
    BY <1>5, <2>1
<1>8. notes \in Seq(FormPieces) /\ Len(notes) = Len(ps)
  <2> DEFINE Chunk1(i) == WageChunk(ps[i], p.number, FALSE)
  <2>1. \A i \in 1..Len(ps) : Chunk1(i) \in FormPieces
    BY <1>1, <1>2, NoteChunkType
  <2>2. notes = [i \in DOMAIN ps |-> Chunk1(i)]
    OBVIOUS
  <2> HIDE DEF Chunk1, notes
  <2> QED
    BY <1>6, <2>1, <2>2
<1>9. ASSUME NEW l \in Range(p.read.notes) PROVE \E k \in 1..Len(notes) : SolidIn(CharsOf(l)) \subseteq SolidIn(notes[k].text)
  <2>1. PICK k \in 1..Len(ps) : l \in Range(ps[k])
    BY <1>2 DEF InPart
  <2>2. SolidIn(CharsOf(l)) \subseteq SolidIn(WageChunk(ps[k], p.number, FALSE).text)
    BY <1>1, <1>2, <2>1, NoteChunkType
  <2>3. notes[k] = WageChunk(ps[k], p.number, FALSE) /\ k \in 1..Len(notes)
    BY <1>6, <1>8, <2>1
  <2> QED
    BY <2>2, <2>3
<1> HIDE DEF tables, notes, FormPieces
<1>10. tables \o notes \in Seq(FormPieces) /\ Range(tables \o notes) = Range(tables) \cup Range(notes)
  BY <1>7, <1>8, ConcatProperties, RangeConcatenation
<1>11. \A k \in 1..Len(notes) : notes[k] \in Range(notes)
  BY <1>8, Places1
<1>12. ASSUME NEW l \in Range(p.read.notes) PROVE SaidIn(l, tables \o notes)
  <2>1. PICK k \in 1..Len(notes) : SolidIn(CharsOf(l)) \subseteq SolidIn(notes[k].text)
    BY <1>9
  <2>2. notes[k] \in Range(tables \o notes)
    BY <1>10, <1>11
  <2> QED
    BY <2>1, <2>2 DEF SaidIn
<1> QED
  BY <1>4, <1>10, <1>12

\* The chunks of a wage form, and the notes in them.
LEMMA FormChunksType ==
    ASSUME IsDocument(doc), parsed \in Seq(FormPages)
    PROVE  /\ FormChunks \in Seq(FormPieces) /\ FormChunks \in Seq(Pieces)
           /\ \A i \in 1..Len(parsed) : \A l \in Range(parsed[i].read.notes) : SaidIn(l, FormChunks)
<1> DEFINE cs == [i \in DOMAIN parsed |-> PageChunks(parsed[i])]
<1>1. Len(parsed) \in Nat /\ DOMAIN parsed = 1..Len(parsed) /\ \A i \in 1..Len(parsed) : parsed[i] \in FormPages
  <2> HIDE DEF FormPages
  <2> QED
    BY Places1
<1>2. \A i \in 1..Len(parsed) : /\ PageChunks(parsed[i]) \in Seq(FormPieces)
                                /\ \A l \in Range(parsed[i].read.notes) : SaidIn(l, PageChunks(parsed[i]))
  BY <1>1, PageChunksType
<1>3. cs \in Seq(Seq(FormPieces)) /\ Len(cs) = Len(parsed)
  BY <1>1, <1>2
<1>4. \A i \in 1..Len(parsed) : cs[i] = PageChunks(parsed[i])
  BY <1>1
<1>5. FormChunks = FlattenSeq(cs)
  BY DEF FormChunks
<1> HIDE DEF cs, FormPieces
<1>6. /\ FlattenSeq(cs) \in Seq(FormPieces)
      /\ Range(FlattenSeq(cs)) = UNION {Range(cs[i]) : i \in 1..Len(cs)}
  BY <1>3, FlattenOf
<1>7. ASSUME NEW i \in 1..Len(parsed), NEW l \in Range(parsed[i].read.notes) PROVE SaidIn(l, FlattenSeq(cs))
  <2>1. SaidIn(l, cs[i])
    BY <1>2, <1>4
  <2>2. Range(cs[i]) \subseteq Range(FlattenSeq(cs))
    BY <1>3, <1>6
  <2> QED
    BY <2>1, <2>2 DEF SaidIn
<1>8. FlattenSeq(cs) \in Seq(Pieces)
  <2>1. FormPieces \subseteq Pieces
    BY DEF FormPieces
  <2> HIDE DEF Pieces
  <2> QED
    BY <1>6, <2>1
<1> QED
  BY <1>5, <1>6, <1>7, <1>8

LEMMA SameChunks ==
    ASSUME doc' = doc, parsed' = parsed
    PROVE  FormChunks' = FormChunks
<1>1. \A ls : Joined(ls)' = Joined(ls)
  BY DEF Joined, CharsOf
<1>2. \A ls : NotesParts(ls)' = NotesParts(ls)
  BY DEF NotesParts, Joined, CharsOf
<1>3. \A ls, n : \A b \in BOOLEAN : WageChunk(ls, n, b)' = WageChunk(ls, n, b)
  BY <1>1 DEF WageChunk
<1>4. \A g, n : GroupChunk(g, n)' = GroupChunk(g, n)
  BY <1>3 DEF GroupChunk
<1>5. \A p : PageChunks(p)' = PageChunks(p)
  BY <1>2, <1>3, <1>4 DEF PageChunks
<1> QED
  BY <1>5 DEF FormChunks

LEMMA WageChunksKeep ==
    ASSUME TypeInv, WageChunks
    PROVE  TypeInv' /\ (NothingDropped => NothingDropped')
<1>1. path = "wage" /\ BuildWageChunks /\ entry' = entry /\ path' = path
  BY DEF WageChunks
<1>2. /\ doc' = doc /\ page' = page /\ text' = text /\ rows' = rows /\ blocks' = blocks
      /\ docType' = docType /\ engine' = engine /\ blockNo' = blockNo /\ lineNo' = lineNo
      /\ context' = context /\ buffer' = buffer /\ queue' = queue /\ form' = form
      /\ parsed' = parsed /\ pos = Len(doc) + 1 /\ pos' = pos + 1 /\ out' = FormChunks
  BY <1>1 DEF BuildWageChunks, AllParsed, FormChunks
<1>3. IsDocument(doc) /\ parsed \in Seq(FormPages) /\ Len(doc) \in Nat
  BY DocumentLines DEF TypeInv, Entered, FormRead
<1>4. FormChunks' = FormChunks
  BY <1>2, SameChunks
<1>5. pos' > Len(doc) + 1 /\ pos' \in 1..Len(doc) + 2
  BY <1>2, <1>3
<1>6. out' \in Seq(Pieces)
  BY <1>2, <1>3, FormChunksType
<1>7. TypeInv'
  BY <1>1, <1>2, <1>3, <1>4, <1>5, <1>6, WageTurn
<1>8. ASSUME NothingDropped PROVE NothingDropped'
  <2>1. Content' = Content
    BY <1>1, <1>2, SameContent
  <2>2. ASSUME NEW l \in Content PROVE \E i \in 1..Len(parsed) : l \in Range(parsed[i].read.notes)
    <3>1. l \in 1..Len(doc)
      BY <1>3, DocumentLines DEF Content, DocLine
    <3>2. l < pos
      BY <1>2, <1>3, <3>1
    <3> QED
      BY <1>1, <1>8, <3>2 DEF NothingDropped
  <2> QED
    BY <1>1, <1>2, <2>1, <2>2 DEF NothingDropped
<1> QED
  BY <1>7, <1>8

\* A document read from its first line has lost nothing yet.
LEMMA FromTheTop ==
    ASSUME IsDocument(doc'), pos' = 1
    PROVE  NothingDropped'
<1> DEFINE d == doc'
<1>1. d \in Seq(Range(d))
  BY DEF IsDocument
<1> HIDE DEF d
<1>2. DOMAIN d = 1..Len(d) /\ Len(d) \in Nat
  BY <1>1, Places1
<1>3. \A l \in Content' : l \in DOMAIN d
  BY DEF Content, d
<1>4. \A l \in Content' : ~(l < pos')
  BY <1>2, <1>3
<1> QED
  BY <1>4 DEF NothingDropped

LEMMA FallBackKeeps ==
    ASSUME TypeInv, FallBack
    PROVE  TypeInv' /\ NothingDropped' /\ TextCut'
<1>1. /\ path = "wage" /\ pos = Len(doc) + 1 /\ path' = LegacyPath(entry) /\ pos' = 1 /\ parsed' = <<>>
      /\ doc' = doc /\ page' = page /\ text' = text /\ rows' = rows /\ blocks' = blocks
      /\ docType' = docType /\ engine' = engine /\ blockNo' = blockNo /\ lineNo' = lineNo
      /\ context' = context /\ buffer' = buffer /\ queue' = queue /\ out' = out
      /\ form' = form /\ entry' = entry
  BY DEF FallBack, AllParsed, chunkVars
<1>2. IsDocument(doc) /\ Len(doc) \in Nat
  BY DocumentLines DEF TypeInv, Entered
<1>3. out = <<>>
  BY <1>1, <1>2 DEF TypeInv, InTurn, Extracted
<1>4. path' \in {"convert", "legacy"} /\ path' # "wage"
  BY <1>1 DEF LegacyPath
<1>5. pos' \in 1..Len(doc) + 2 /\ parsed' \in Seq(FormPages) /\ out' \in Seq(Pieces)
  BY <1>1, <1>2, <1>3, EmptySeq
<1>6. TypeInv'
  BY <1>1, <1>3, <1>4, <1>5, WageTurn
<1>7. NothingDropped'
  BY <1>1, <1>2, FromTheTop
<1>8. TextCut'
  BY <1>1, <1>3 DEF TextCut
<1> QED
  BY <1>6, <1>7, <1>8

LEMMA ConvertKeeps ==
    ASSUME TypeInv, ConvertColumns
    PROVE  TypeInv' /\ NothingDropped' /\ TextCut'
<1>1. /\ path = "convert" /\ path' = "legacy" /\ pos' = pos
      /\ page' = page /\ text' = text /\ rows' = rows /\ blocks' = blocks
      /\ docType' = docType /\ engine' = engine /\ blockNo' = blockNo /\ lineNo' = lineNo
      /\ context' = context /\ buffer' = buffer /\ queue' = queue /\ out' = out
      /\ form' = form /\ parsed' = parsed /\ entry' = entry
  BY DEF ConvertColumns, chunkVars, formVars
<1>2. doc' = FlattenSeq(ConvertedPages)
  BY DEF ConvertColumns, ConvertedPages, PageMarker
<1>3. IsEntry(entry) /\ IsDocument(doc) /\ Unread /\ Unchunked /\ pos = 1 /\ parsed = <<>>
  BY <1>1 DEF TypeInv, Entered, InTurn
<1>4. IsDocument(doc')
  BY <1>2, <1>3, ConvertedType
<1>5. Len(doc) \in Nat /\ Len(doc') \in Nat
  <2> DEFINE d == doc'
  <2>1. d \in Seq(Range(d))
    BY <1>4 DEF IsDocument
  <2> HIDE DEF d
  <2>2. Len(d) \in Nat
    BY <2>1, Places1
  <2> QED
    BY <1>3, <2>2, DocumentLines DEF d
<1>6. out = <<>> /\ out' = <<>>
  BY <1>1, <1>3, <1>5 DEF TypeInv, InTurn, Extracted
<1>7. Unread' /\ Unchunked'
  BY <1>1, <1>3 DEF Unread, Unchunked
<1>8. Entered'
  BY <1>1, <1>4 DEF TypeInv, Entered
<1>9. Typed'
  <2>1. pos' \in 1..Len(doc') + 2 /\ page' \in Nat
    BY <1>1, <1>3, <1>5 DEF TypeInv, Typed
  <2>2. /\ text' \in Seq(DocLine') /\ rows' \in Seq(DocLine') /\ blocks' \in Seq(Blocks')
        /\ buffer' \in Seq(Kept') /\ queue' \in Seq(Pieces') /\ out' \in Seq(Pieces')
    BY <1>6, <1>7, EmptySeq DEF Unread, Unchunked
  <2>3. blockNo' = 1 /\ lineNo' = 1 /\ context' \in Contexts'
    BY <1>7 DEF Unchunked, NoContext, Contexts, Names
  <2> QED
    BY <2>1, <2>2, <2>3 DEF Typed
<1>10. InTurn'
  BY <1>1, <1>3, <1>6, <1>7 DEF InTurn
<1>11. Pending'
  BY <1>7 DEF Pending, Unread
<1>12. AtBlock'
  <2>1. blocks' = <<>> /\ blockNo' = 1 /\ lineNo' = 1 /\ buffer' = <<>>
    BY <1>7 DEF Unread, Unchunked
  <2> QED
    BY <2>1, EmptySeq DEF AtBlock, AtBlockIn
<1>13. FormRead'
  BY <1>1, <1>3, EmptySeq DEF FormRead
<1>14. NothingDropped'
  BY <1>1, <1>3, <1>4, FromTheTop
<1>15. TextCut'
  BY <1>6 DEF TextCut
<1> QED
  BY <1>8, <1>9, <1>10, <1>11, <1>12, <1>13, <1>14, <1>15 DEF TypeInv

LEMMA InitKeeps ==
    ASSUME Init
    PROVE  TypeInv /\ NothingDropped /\ TextCut
<1>1. PICK family \in DOMAIN Corpus : \E e \in Corpus[family] :
        /\ entry = e
        /\ path = IF e.wageEntry THEN "wage" ELSE LegacyPath(e)
        /\ docType = e.docType /\ engine = e.engine
        /\ doc = e.doc /\ form = e.form
        /\ pos = 1 /\ page = 1 /\ text = <<>> /\ rows = <<>> /\ blocks = <<>>
        /\ parsed = <<>>
        /\ blockNo = 1 /\ lineNo = 1
        /\ context = NoContext
        /\ buffer = <<>> /\ queue = <<>> /\ out = <<>>
  BY DEF Init
<1>2. IsEntry(entry)
  BY <1>1, CorpusAssumption
<1>3. /\ path \in {"wage", "convert", "legacy"} /\ docType = entry.docType /\ engine = entry.engine
      /\ doc = entry.doc /\ form = entry.form /\ pos = 1 /\ page = 1 /\ parsed = <<>>
      /\ Unread /\ Unchunked /\ out = <<>>
  BY <1>1 DEF LegacyPath, Unread, Unchunked
<1>4. IsDocument(doc)
  BY <1>2, <1>3 DEF IsEntry
<1>5. Len(doc) \in Nat /\ DOMAIN doc = DocLine
  BY <1>4, DocumentLines
<1>6. Entered
  BY <1>2, <1>3, <1>4 DEF Entered
<1>7. Typed
  <2>1. /\ text \in Seq(DocLine) /\ rows \in Seq(DocLine) /\ blocks \in Seq(Blocks)
        /\ buffer \in Seq(Kept) /\ queue \in Seq(Pieces) /\ out \in Seq(Pieces)
    BY <1>3, EmptySeq DEF Unread, Unchunked
  <2>2. blockNo = 1 /\ lineNo = 1 /\ context \in Contexts
    BY <1>3 DEF Unchunked, NoContext, Contexts, Names
  <2> QED
    BY <1>3, <1>5, <2>1, <2>2 DEF Typed
<1>8. InTurn
  BY <1>3 DEF InTurn
<1>9. Pending
  BY <1>3 DEF Pending, Unread
<1>10. AtBlock
  BY <1>3, EmptySeq DEF AtBlock, AtBlockIn, Unread, Unchunked
<1>11. FormRead
  BY <1>3, <1>5, EmptySeq DEF FormRead, Extracted
<1>12. NothingDropped
  <2>1. \A l \in Content : l \in 1..Len(doc)
    BY <1>5 DEF Content, DocLine
  <2>2. \A l \in Content : ~(l < pos)
    BY <1>3, <1>5, <2>1
  <2> QED
    BY <2>2 DEF NothingDropped
<1>13. TextCut
  BY <1>3 DEF TextCut
<1> QED
  BY <1>6, <1>7, <1>8, <1>9, <1>10, <1>11, <1>12, <1>13 DEF TypeInv

LEMMA RestKeeps ==
    ASSUME TypeInv, NothingDropped, TextCut, UNCHANGED vars
    PROVE  TypeInv' /\ NothingDropped' /\ TextCut'
<1>1. /\ doc' = doc /\ pos' = pos /\ page' = page /\ text' = text /\ rows' = rows /\ blocks' = blocks
      /\ docType' = docType /\ engine' = engine /\ blockNo' = blockNo /\ lineNo' = lineNo
      /\ context' = context /\ buffer' = buffer /\ queue' = queue /\ out' = out
      /\ form' = form /\ parsed' = parsed /\ entry' = entry /\ path' = path
  BY DEF vars, extractVars, chunkVars, formVars
<1>2. /\ DocLine' = DocLine /\ Blocks' = Blocks /\ Contexts' = Contexts /\ Kept' = Kept
      /\ Pieces' = Pieces /\ FormPages' = FormPages
  BY <1>1, SameDocument, SamePieces, SameForms
<1>3. Entered' /\ Typed'
  BY <1>1, <1>2 DEF TypeInv, Entered, Typed
<1>4. InTurn' /\ Pending'
  BY <1>1 DEF TypeInv, InTurn, Pending, Unread, Unchunked, Extracted, Pipe
<1>5. AtBlock'
  BY <1>1, SameAhead DEF TypeInv, AtBlock
<1>6. FormRead'
  <2>1. FormChunks' = FormChunks
    BY <1>1, SameChunks
  <2> QED
    BY <1>1, <1>2, <2>1 DEF TypeInv, FormRead, Extracted
<1>7. NothingDropped'
  <2>1. Content' = Content
    BY <1>1, SameContent
  <2>2. \A l : Ahead(l)' = Ahead(l)
    BY <1>1, SameAhead DEF Ahead
  <2>3. \A l : Waiting(l)' = Waiting(l)
    BY <1>1, <2>2 DEF Waiting
  <2>4. \A ch : Written(ch)' = Written(ch)
    BY <1>1 DEF Written
  <2>5. \A l : SolidIn(CharsOf(l))' = SolidIn(CharsOf(l))
    BY <1>1 DEF CharsOf
  <2> QED
    BY <1>1, <2>1, <2>3, <2>4, <2>5 DEF NothingDropped
<1>8. TextCut'
  BY <1>1 DEF TextCut
<1> QED
  BY <1>3, <1>4, <1>5, <1>6, <1>7, <1>8 DEF TypeInv

-----------------------------------------------------------------------------
(* The theorems                                                            *)

\* What holds of every state the pipeline is in, as one inductive invariant.
IInv == TypeInv /\ NothingDropped /\ TextCut

LEMMA StepKeeps ==
    ASSUME IInv, [Next]_vars
    PROVE  IInv'
<1>0. TypeInv /\ NothingDropped /\ TextCut
  BY DEF IInv
<1>1. CASE WagePage
  <2>1. TextCut'
    BY <1>1 DEF WagePage, TextCut
  <2> QED
    BY <1>0, <1>1, <2>1, WagePageTypes, WagePageKeeps DEF IInv
<1>2. CASE WageChunks
  <2>1. TextCut'
    BY <1>2 DEF WageChunks, TextCut
  <2> QED
    BY <1>0, <1>2, <2>1, WageChunksKeep DEF IInv
<1>3. CASE FallBack
  BY <1>0, <1>3, FallBackKeeps DEF IInv
<1>4. CASE ConvertColumns
  BY <1>0, <1>4, ConvertKeeps DEF IInv
<1>5. CASE Extract
  <2>1. TextCut'
    BY <1>0, <1>5 DEF Extract, chunkVars, TextCut
  <2> QED
    BY <1>0, <1>5, <2>1, ReadTypes, ReadKeeps DEF IInv
<1>6. CASE Chunk
  BY <1>0, <1>6, ChunkTypes DEF IInv
<1>7. CASE Rest \/ UNCHANGED vars
  BY <1>0, <1>7, RestKeeps DEF Rest, IInv
<1> QED
  BY <1>1, <1>2, <1>3, <1>4, <1>5, <1>6, <1>7 DEF Next

LEMMA Inductive == Spec => []IInv
<1>1. Init => IInv
  BY InitKeeps DEF IInv
<1>2. IInv /\ [Next]_vars => IInv'
  BY StepKeeps
<1> QED
  BY <1>1, <1>2, PTL DEF Spec

\* Every state of the pipeline is well formed (_run_entry and what it calls): the
\* readers, the chunker and the form parser work one after the other, each on lines
\* the document has, and what is pending is a run of pipe lines or text, never both.
THEOREM TypeCorrect == Spec => []TypeInv
<1>1. IInv => TypeInv
  BY DEF IInv
<1> QED
  BY <1>1, Inductive, PTL

LEMMA LimitKept == ASSUME IInv PROVE WithinLimit
<1>1. TypeInv /\ TextCut
  BY DEF IInv
<1>2. IsDocument(doc) /\ Len(doc) \in Nat /\ out \in Seq(Pieces) /\ parsed \in Seq(FormPages)
  BY <1>1, DocumentLines DEF TypeInv, Entered, Typed, FormRead
<1>3. Chunks = {out[i] : i \in 1..Len(out)}
  <2> HIDE DEF Pieces
  <2> QED
    BY <1>2, Places1 DEF Chunks
<1>4. ASSUME NEW c \in Chunks, ~c.table, path = "wage"
      PROVE  Len(c.text) <= MaxNotesChars \/ Cardinality(LinesIn(c)) = 1
  <2>1. out = FormChunks \/ out = <<>>
    BY <1>1, <1>4 DEF TypeInv, FormRead
  <2>2. out \in Seq(FormPieces)
    BY <1>2, <2>1, FormChunksType, EmptySeq
  <2>3. c \in FormPieces
    <3> HIDE DEF FormPieces
    <3> QED
      BY <1>4, <2>2, Places1 DEF Chunks
  <2> QED
    BY <1>4, <2>3 DEF FormPieces
<1>5. ASSUME NEW c \in Chunks, ~c.table, path # "wage"
      PROVE  Len(c.text) < MaxChars + CharsPerToken
  <2>1. PICK i \in 1..Len(out) : out[i] = c
    BY <1>3
  <2>2. path = "legacy"
    <3>1. out # <<>>
      BY <2>1, EmptySeq
    <3>2. Extracted
      BY <1>1, <3>1 DEF TypeInv, InTurn
    <3>3. ~(path = "convert")
      BY <1>1, <1>2, <3>2 DEF TypeInv, InTurn, Extracted
    <3> QED
      BY <1>1, <1>5, <3>3 DEF TypeInv, Entered
  <2> QED
    BY <1>1, <1>5, <2>1, <2>2 DEF TextCut
<1> QED
  BY <1>4, <1>5 DEF WithinLimit

\* Whatever the document, its limits and its overlaps, no chunk of text that
\* chunk_document cuts is as much as a token over the embedding's budget, and no chunk
\* of notes that _notes_chunks closes exceeds its own, unless it is one line.
THEOREM WithinLimitAlways == Spec => []WithinLimit
<1>1. IInv => WithinLimit
  BY LimitKept
<1> QED
  BY <1>1, Inductive, PTL

LEMMA AllWritten == ASSUME IInv PROVE NothingLost
<1>1. TypeInv /\ NothingDropped
  BY DEF IInv
<1>2. /\ IsDocument(doc) /\ Len(doc) \in Nat /\ out \in Seq(Pieces) /\ parsed \in Seq(FormPages)
      /\ pos \in Nat /\ blocks \in Seq(Blocks) /\ blockNo \in Nat
  BY <1>1, DocumentLines DEF TypeInv, Entered, Typed, FormRead
<1>3. \A i \in 1..Len(out) : out[i] \in Chunks
  <2> HIDE DEF Pieces
  <2> QED
    BY <1>2, Places1 DEF Chunks
<1>4. ASSUME Finished, NEW l \in Content, NEW ch \in SolidIn(CharsOf(l))
      PROVE  \E c \in Chunks : ch \in SolidIn(c.text)
  <2>1. Extracted /\ (path = "wage" \/ (path = "legacy" /\ Chunked))
    BY <1>4 DEF Finished
  <2>2. l \in 1..Len(doc)
    BY <1>2, DocumentLines DEF Content, DocLine
  <2>3. l < pos
    BY <1>2, <2>1, <2>2 DEF Extracted
  <2>4. CASE path = "wage"
    <3>1. PICK i \in 1..Len(parsed) : l \in Range(parsed[i].read.notes)
      BY <1>1, <2>3, <2>4 DEF NothingDropped
    <3>2. SaidIn(l, FormChunks) /\ out = FormChunks
      BY <1>1, <1>2, <2>1, <2>4, <3>1, FormChunksType DEF TypeInv, FormRead
    <3> QED
      BY <1>4, <3>2 DEF SaidIn, Chunks
  <2>5. CASE path = "legacy" /\ Chunked
    <3>1. blockNo > Len(blocks) + 1 /\ queue = <<>>
      BY <2>5 DEF Chunked
    <3>2. text = <<>> /\ rows = <<>> /\ buffer = <<>>
      BY <1>1, <2>1, <3>1 DEF TypeInv, Pending, AtBlock
    <3>3. ~(l \in Range(text)) /\ ~(l \in Range(rows)) /\ \A i \in 1..Len(buffer) : FALSE
      BY <3>2, EmptySeq DEF Range
    <3>4. ~Ahead(l)
      <4>1. Len(blocks) \in Nat
        <5> HIDE DEF Blocks
        <5> QED
          BY <1>2, LenProperties
      <4> QED
        BY <1>2, <3>1, <4>1 DEF Ahead, AheadIn
    <3>5. ~Waiting(l)
      BY <3>3, <3>4 DEF Waiting
    <3>6. Written(ch)
      BY <1>1, <1>4, <2>3, <2>5, <3>5 DEF NothingDropped
    <3>7. \A i \in 1..Len(queue) : FALSE
      BY <3>1, EmptySeq
    <3>8. PICK i \in 1..Len(out) : ch \in SolidIn(out[i].text)
      BY <3>6, <3>7 DEF Written
    <3> QED
      BY <1>3, <3>8
  <2> QED
    BY <2>1, <2>4, <2>5
<1> QED
  BY <1>4 DEF NothingLost, SolidIn, Solids

\* No character of the text is lost on any path from a document to its chunks
\* (extract.py, chunk.py, epsca_wage_parser.py): whatever the lines, the pages and the
\* limits, what a line says is pending, before the chunker, in its buffer, waiting to
\* be cut, or in a chunk, so that it is in a chunk when the document is finished.
THEOREM NothingLostAlways == Spec => []NothingLost
<1>1. IInv => NothingLost
  BY AllWritten
<1> QED
  BY <1>1, Inductive, PTL

\* Only a cut or a chunk handed over changes a queue that is not empty.
LEMMA ChunkShortens ==
    ASSUME AtWork, ChunkDocument, queue # <<>>
    PROVE  queue' = Tail(queue) \/ Shortened(queue, queue')
<1>1. Cut \/ Emit
  BY DEF ChunkDocument, TakeTable, TakeHeading, TakeLine, TakeHeadedTable, TakeMarkdownHeader,
         TakeHeadedLine, FlushLast, Reading
<1>2. CASE Emit
  BY <1>2 DEF Emit
<1>3. CASE Cut
  <2> DEFINE t == Head(queue).text
             split == SentenceBoundary(t, MaxChars)
             first == [Head(queue) EXCEPT !.text = Remainder(t, split), !.cutting = TRUE]
  <2>1. TooLong(Head(queue)) /\ queue' = <<first>> \o Tail(queue)
    BY <1>3 DEF Cut
  <2>2. t \in Seq(Char) /\ split \in 1..Len(t) /\ Head(queue) \in Pieces /\ Tail(queue) \in Seq(Pieces)
    BY <2>1, FirstPiece, CutInside
  <2>3. Len(Remainder(t, split)) < Len(t) /\ Remainder(t, split) \in Seq(Char)
    BY <2>2, Remains
  <2>4. first.text = Remainder(t, split) /\ first \in Pieces
    BY <2>2, <2>3 DEF Pieces
  <2> HIDE DEF first, Pieces
  <2>5. <<first>> \o Tail(queue) \in Seq(Pieces) /\ Len(<<first>> \o Tail(queue)) = 1 + Len(Tail(queue))
    BY <2>2, <2>4, ConcatProperties
  <2>6. queue' # <<>> /\ Head(queue') = first /\ Tail(queue') = Tail(queue)
    BY <2>1, <2>2, <2>4, <2>5
  <2> QED
    BY <2>3, <2>4, <2>6 DEF Shortened
<1> QED
  BY <1>1, <1>2, <1>3

\* The splitter gets on whatever the words, the limit and the overlap are: every step
\* that finds text waiting hands its first piece over or leaves less of it
\* (_split_with_overlap), so that no text is cut for ever.
THEOREM SplitShortensAlways == Spec => SplitShortens
<1>1. ASSUME TypeInv, [Next]_vars
      PROVE  [queue # <<>> => queue' = Tail(queue) \/ Shortened(queue, queue')]_vars
  <2>1. CASE WagePage \/ WageChunks \/ FallBack \/ ConvertColumns
    <3>1. path # "legacy"
      BY <2>1 DEF WagePage, WageChunks, FallBack, ConvertColumns
    <3> QED
      BY <1>1, <3>1 DEF TypeInv, InTurn, Unchunked
  <2>2. CASE Extract
    <3>1. ~Extracted
      BY <1>1, <2>2, ReadTypes DEF Reads
    <3> QED
      BY <1>1, <3>1 DEF TypeInv, InTurn, Unchunked
  <2>3. CASE Chunk
    BY <1>1, <2>3, AtWorkIs, ChunkShortens DEF Chunk
  <2>4. CASE Rest \/ UNCHANGED vars
    BY <2>4 DEF Rest
  <2> QED
    BY <1>1, <2>1, <2>2, <2>3, <2>4 DEF Next
<1> QED
  BY <1>1, TypeCorrect, PTL DEF Spec, SplitShortens

-----------------------------------------------------------------------------
(* Words that stand at one place each, and phrases that stay together      *)

\* The words of a line, of some lines, and of parts of a page.
WordsOf(s) == {s[k] : k \in 1..Len(s)}
Spoken(L) == UNION {WordsOf(L[l].words) : l \in 1..Len(L)}
SpokenIn(ps) == UNION {Spoken(ps[i]) : i \in 1..Len(ps)}

\* Every word stands at one place, and the second word of a phrase next to its first.
OncePlaced(L) ==
    \A l, m \in 1..Len(L) : \A k \in 1..Len(L[l].words), j \in 1..Len(L[m].words) :
      L[l].words[k] = L[m].words[j] => l = m /\ k = j
Phrased(s, Ph) ==
    \A k \in 1..Len(s) : \A v : <<s[k], v>> \in Ph => k + 1 \in 1..Len(s) /\ s[k + 1] = v
Neat(L, Ph) == OncePlaced(L) /\ \A l \in 1..Len(L) : Phrased(L[l].words, Ph)

\* PageParts that are neat and share no word.
NeatParts(ps, Ph) ==
    /\ \A i \in 1..Len(ps) : Neat(ps[i], Ph)
    /\ \A i, j \in 1..Len(ps) : i # j => Spoken(ps[i]) \cap Spoken(ps[j]) = {}

LEMMA SpokenAt ==
    ASSUME NEW L, NEW l \in 1..Len(L)
    PROVE  /\ WordsOf(L[l].words) \subseteq Spoken(L)
           /\ \A k \in 1..Len(L[l].words) : L[l].words[k] \in Spoken(L)
<1>1. WordsOf(L[l].words) \subseteq Spoken(L)
  BY DEF Spoken
<1>2. \A k \in 1..Len(L[l].words) : L[l].words[k] \in WordsOf(L[l].words)
  BY DEF WordsOf
<1> QED
  BY <1>1, <1>2

LEMMA SpokenPart == ASSUME NEW ps, NEW i \in 1..Len(ps) PROVE Spoken(ps[i]) \subseteq SpokenIn(ps)
BY DEF SpokenIn

LEMMA FlattenNeat ==
    ASSUME NEW A, NEW Ph, NEW ps \in Seq(Seq(A)), NeatParts(ps, Ph)
    PROVE  Neat(FlattenSeq(ps), Ph) /\ Spoken(FlattenSeq(ps)) = SpokenIn(ps)
<1> DEFINE d == FlattenSeq(ps)
           n == Len(ps)
<1>1. PICK from \in [0..n -> Nat] :
        /\ \A i \in 1..n : \A k \in 1..Len(ps[i]) :
             from[i - 1] + k \in 1..Len(d) /\ d[from[i - 1] + k] = ps[i][k]
        /\ \A l \in 1..Len(d) : \E i \in 1..n : \E k \in 1..Len(ps[i]) : l = from[i - 1] + k
  BY FlattenPlaces
<1> HIDE DEF d, n
<1>2. ASSUME NEW l \in 1..Len(d)
      PROVE  \E i \in 1..n : \E k \in 1..Len(ps[i]) : l = from[i - 1] + k /\ d[l] = ps[i][k]
  <2>1. PICK i \in 1..n : \E k \in 1..Len(ps[i]) : l = from[i - 1] + k
    BY <1>1
  <2>2. PICK k \in 1..Len(ps[i]) : l = from[i - 1] + k
    BY <2>1
  <2> QED
    BY <1>1, <2>2
<1>3. ASSUME NEW l \in 1..Len(d), NEW m \in 1..Len(d),
             NEW k \in 1..Len(d[l].words), NEW j \in 1..Len(d[m].words), d[l].words[k] = d[m].words[j]
      PROVE  l = m /\ k = j
  <2>7. PICK a \in 1..n : \E c \in 1..Len(ps[a]) : l = from[a - 1] + c /\ d[l] = ps[a][c]
    BY <1>2
  <2>1. PICK c \in 1..Len(ps[a]) : l = from[a - 1] + c /\ d[l] = ps[a][c]
    BY <2>7
  <2>8. PICK b \in 1..n : \E e \in 1..Len(ps[b]) : m = from[b - 1] + e /\ d[m] = ps[b][e]
    BY <1>2
  <2>2. PICK e \in 1..Len(ps[b]) : m = from[b - 1] + e /\ d[m] = ps[b][e]
    BY <2>8
  <2>3. d[l].words[k] \in Spoken(ps[a]) /\ d[l].words[k] \in Spoken(ps[b])
    <3>1. ps[a][c].words[k] \in Spoken(ps[a])
      BY <2>1, SpokenAt
    <3>2. ps[b][e].words[j] \in Spoken(ps[b])
      BY <2>2, SpokenAt
    <3> QED
      BY <1>3, <2>1, <2>2, <3>1, <3>2
  <2>4. a = b
    BY <2>3 DEF NeatParts, n
  <2>5. OncePlaced(ps[a])
    BY DEF NeatParts, Neat, n
  <2>6. c = e /\ k = j
    BY <1>3, <2>1, <2>2, <2>4, <2>5 DEF OncePlaced
  <2> QED
    BY <2>1, <2>2, <2>4, <2>6
<1>4. ASSUME NEW l \in 1..Len(d) PROVE Phrased(d[l].words, Ph)
  <2>1. PICK a \in 1..n : \E c \in 1..Len(ps[a]) : d[l] = ps[a][c]
    BY <1>2
  <2> QED
    BY <2>1 DEF NeatParts, Neat, n
<1>5. Neat(d, Ph)
  BY <1>3, <1>4 DEF Neat, OncePlaced
<1>6. Spoken(d) \subseteq SpokenIn(ps)
  <2> SUFFICES ASSUME NEW l \in 1..Len(d), NEW w \in WordsOf(d[l].words) PROVE w \in SpokenIn(ps)
    BY DEF Spoken
  <2>1. PICK a \in 1..n : \E c \in 1..Len(ps[a]) : d[l] = ps[a][c]
    BY <1>2
  <2>2. PICK c \in 1..Len(ps[a]) : d[l] = ps[a][c]
    BY <2>1
  <2>3. w \in Spoken(ps[a])
    BY <2>2, SpokenAt
  <2> QED
    BY <2>3, SpokenPart DEF n
<1>7. SpokenIn(ps) \subseteq Spoken(d)
  <2>1. ASSUME NEW a \in 1..n, NEW c \in 1..Len(ps[a]) PROVE WordsOf(ps[a][c].words) \subseteq Spoken(d)
    <3> DEFINE l == from[a - 1] + c
    <3>1. l \in 1..Len(d) /\ d[l] = ps[a][c]
      BY <1>1
    <3> HIDE DEF l
    <3> QED
      BY <3>1, SpokenAt
  <2>2. ASSUME NEW a \in 1..n PROVE Spoken(ps[a]) \subseteq Spoken(d)
    <3>1. \A c \in 1..Len(ps[a]) : WordsOf(ps[a][c].words) \subseteq Spoken(d)
      BY <2>1
    <3> HIDE DEF d
    <3> DEFINE D == Spoken(d)
    <3> HIDE DEF D
    <3> QED
      BY <3>1 DEF Spoken, D
  <2> DEFINE D == Spoken(d)
  <2>3. \A a \in 1..n : Spoken(ps[a]) \subseteq D
    BY <2>2
  <2> HIDE DEF D
  <2>4. SpokenIn(ps) \subseteq D
    BY <2>3 DEF SpokenIn, n
  <2> QED
    BY <2>4 DEF D
<1> QED
  BY <1>5, <1>6, <1>7 DEF d

\* A blank line before them changes nothing.
LEMMA BlankBefore ==
    ASSUME NEW A, NEW Ph, NEW L \in Seq(A), BlankLine \in A, Neat(L, Ph)
    PROVE  Neat(<<BlankLine>> \o L, Ph) /\ Spoken(<<BlankLine>> \o L) = Spoken(L)
<1> DEFINE M == <<BlankLine>> \o L
           n == Len(L)
<1>1. n \in Nat
  BY LenProperties
<1>2. Len(M) = n + 1 /\ M[1] = BlankLine /\ \A l \in 1..n : M[l + 1] = L[l]
  <2> DEFINE b == <<BlankLine>>
  <2>1. b \in Seq(A) /\ Len(b) = 1 /\ b[1] = BlankLine /\ M = b \o L
    OBVIOUS
  <2> HIDE DEF b, M
  <2>2. Len(M) = 1 + n /\ \A i \in 1..1 + n : M[i] = IF i <= 1 THEN b[i] ELSE L[i - 1]
    BY <2>1, ConcatProperties
  <2>3. \A l \in 1..n : l + 1 \in 1..1 + n /\ ~(l + 1 <= 1) /\ (l + 1) - 1 = l
    BY <1>1
  <2> HIDE DEF n
  <2>4. \A l \in 1..n : M[l + 1] = L[l]
    BY <2>2, <2>3
  <2>5. 1 \in 1..1 + n
    BY <1>1
  <2> QED
    BY <1>1, <2>1, <2>2, <2>4, <2>5
<1>3. M[1].words = <<>> /\ 1..Len(M[1].words) = {}
  <2>1. BlankLine.words = <<>> /\ Len(<<>>) = 0
    BY DEF BlankLine
  <2> QED
    BY <1>2, <2>1
<1> HIDE DEF M, n
<1>4. ASSUME NEW m \in 1..Len(M), NEW k \in 1..Len(M[m].words) PROVE m - 1 \in 1..n /\ M[m] = L[m - 1]
  <2>1. m # 1
    BY <1>3
  <2>2. m - 1 \in 1..n /\ (m - 1) + 1 = m
    BY <1>1, <1>2, <2>1
  <2> QED
    BY <1>2, <2>2
<1>5. OncePlaced(M)
  <2> SUFFICES ASSUME NEW l \in 1..Len(M), NEW m \in 1..Len(M), NEW k \in 1..Len(M[l].words),
                      NEW j \in 1..Len(M[m].words), M[l].words[k] = M[m].words[j]
               PROVE  l = m /\ k = j
    BY DEF OncePlaced
  <2>1. l - 1 \in 1..n /\ M[l] = L[l - 1] /\ m - 1 \in 1..n /\ M[m] = L[m - 1]
    BY <1>4
  <2>2. l - 1 = m - 1 /\ k = j
    BY <2>1 DEF Neat, OncePlaced, n
  <2> QED
    BY <2>2
<1>6. \A m \in 1..Len(M) : Phrased(M[m].words, Ph)
  <2> SUFFICES ASSUME NEW m \in 1..Len(M) PROVE Phrased(M[m].words, Ph)
    OBVIOUS
  <2>1. CASE 1..Len(M[m].words) = {}
    BY <2>1 DEF Phrased
  <2>2. CASE 1..Len(M[m].words) # {}
    <3>1. m - 1 \in 1..n /\ M[m] = L[m - 1]
      BY <1>4, <2>2
    <3> QED
      BY <3>1 DEF Neat, n
  <2> QED
    BY <2>1, <2>2
<1>7. Spoken(M) \subseteq Spoken(L)
  BY <1>4 DEF Spoken, WordsOf, n
<1>8. Spoken(L) \subseteq Spoken(M)
  <2>1. \A l \in 1..n : l + 1 \in 1..Len(M)
    BY <1>1, <1>2
  <2> QED
    BY <1>2, <2>1 DEF Spoken, n
<1> QED
  BY <1>5, <1>6, <1>7, <1>8 DEF Neat, M

\* PageParts with blank lines between them are as neat as the parts.
LEMMA ApartNeat ==
    ASSUME NEW S, NEW Ph, NEW ps \in PageParts(S), NeatParts(ps, Ph)
    PROVE  Neat(Apart(ps), Ph) /\ Spoken(Apart(ps)) = SpokenIn(ps)
<1> DEFINE L == PageLine(S)
           I == {i \in DOMAIN ps : ps[i] # <<>>}
           solid == Picked(ps, I)
           n == Len(solid)
           join(i) == (IF i = 1 THEN <<>> ELSE <<BlankLine>>) \o solid[i]
           joined == [i \in DOMAIN solid |-> join(i)]
<1>1. BlankLine \in L
  BY DEF BlankLine, PageLine
<1>2. Apart(ps) = FlattenSeq(joined)
  BY DEF Apart
<1>3. ps \in Seq(Seq(L)) /\ DOMAIN ps = 1..Len(ps)
  <2>1. ps \in Seq(Seq(L))
    BY DEF PageParts
  <2> HIDE DEF L
  <2> QED
    BY <2>1, LenProperties
<1> HIDE DEF L
<1>4. solid \in Seq(Seq(L))
  <2>1. I \in SUBSET DOMAIN ps
    OBVIOUS
  <2> HIDE DEF I
  <2> QED
    BY <1>3, <2>1, PickedFrom
<1>5. PICK at \in [1..n -> I] :
        /\ \A k \in 1..n : solid[k] = ps[at[k]]
        /\ \A i \in I : \E k \in 1..n : at[k] = i
        /\ \A k, l \in 1..n : k < l => at[k] < at[l]
  <2>1. I \in SUBSET DOMAIN ps
    OBVIOUS
  <2> HIDE DEF I
  <2> QED
    BY <1>3, <2>1, PickedPlaces
<1>6. \A k \in 1..n : at[k] \in 1..Len(ps)
  BY <1>3
<1>7. \A i \in 1..Len(ps) : i \notin I => ps[i] = <<>>
  BY <1>3
<1> HIDE DEF solid, I
<1>8. n \in Nat /\ DOMAIN solid = 1..n /\ \A i \in 1..n : solid[i] \in Seq(L)
  BY <1>4, Places1
<1>9. ASSUME NEW i \in 1..n
      PROVE  join(i) \in Seq(L) /\ Neat(join(i), Ph) /\ Spoken(join(i)) = Spoken(solid[i])
  <2>1. Neat(solid[i], Ph) /\ solid[i] \in Seq(L)
    BY <1>5, <1>6, <1>8 DEF NeatParts
  <2>2. CASE i = 1
    <3>1. join(i) = <<>> \o solid[i]
      BY <2>2
    <3>2. <<>> \o solid[i] = solid[i]
      BY <2>1, ConcatEmptySeq
    <3> HIDE DEF join
    <3> QED
      BY <2>1, <3>1, <3>2
  <2>3. CASE i # 1
    <3>1. join(i) = <<BlankLine>> \o solid[i]
      BY <2>3
    <3>2. <<BlankLine>> \in Seq(L)
      BY <1>1
    <3> HIDE DEF join
    <3>3. join(i) \in Seq(L)
      BY <2>1, <3>1, <3>2, ConcatProperties
    <3> QED
      BY <1>1, <2>1, <3>1, <3>3, BlankBefore
  <2> QED
    BY <2>2, <2>3
<1>10. joined = [i \in 1..n |-> join(i)]
  BY <1>8
<1> HIDE DEF join, joined, n
<1>11. joined \in Seq(Seq(L)) /\ Len(joined) = n /\ \A i \in 1..n : joined[i] = join(i)
  <2>1. joined \in [1..n -> Seq(L)]
    BY <1>9, <1>10
  <2> QED
    BY <1>8, <1>10, <2>1
<1>12. NeatParts(joined, Ph)
  <2> SUFFICES ASSUME NEW i \in 1..n, NEW j \in 1..n, i # j
               PROVE  Spoken(joined[i]) \cap Spoken(joined[j]) = {}
    BY <1>9, <1>11 DEF NeatParts
  <2>1. at[i] # at[j]
    <3>1. i < j \/ j < i
      BY <1>8
    <3>2. at[i] \in Nat /\ at[j] \in Nat
      BY <1>6
    <3> QED
      BY <1>5, <3>1, <3>2
  <2>2. Spoken(ps[at[i]]) \cap Spoken(ps[at[j]]) = {}
    BY <1>6, <2>1 DEF NeatParts
  <2> QED
    BY <1>5, <1>9, <1>11, <2>2
<1>13. SpokenIn(joined) = SpokenIn(ps)
  <2>1. \A i \in 1..n : Spoken(joined[i]) = Spoken(ps[at[i]])
    BY <1>5, <1>9, <1>11
  <2>2. Spoken(<<>>) = {}
    <3>1. Len(<<>>) = 0
      OBVIOUS
    <3> QED
      BY <3>1 DEF Spoken
  <2>3. ASSUME NEW j \in 1..Len(ps), NEW w \in Spoken(ps[j]) PROVE w \in SpokenIn(joined)
    <3>1. j \in I
      BY <1>7, <2>2, <2>3
    <3>2. PICK k \in 1..n : at[k] = j
      BY <1>5, <3>1
    <3> QED
      BY <1>11, <2>1, <2>3, <3>2 DEF SpokenIn
  <2>4. SpokenIn(joined) \subseteq SpokenIn(ps)
    BY <1>6, <1>11, <2>1 DEF SpokenIn
  <2> QED
    BY <2>3, <2>4 DEF SpokenIn
<1> QED
  BY <1>2, <1>11, <1>12, <1>13, FlattenNeat

\* PageParts after parts.
LEMMA ConcatNeat ==
    ASSUME NEW A, NEW Ph, NEW ps \in Seq(A), NEW qs \in Seq(A),
           NeatParts(ps, Ph), NeatParts(qs, Ph), SpokenIn(ps) \cap SpokenIn(qs) = {}
    PROVE  NeatParts(ps \o qs, Ph) /\ SpokenIn(ps \o qs) = SpokenIn(ps) \cup SpokenIn(qs)
<1> DEFINE rs == ps \o qs
           n == Len(ps)
           m == Len(qs)
<1>1. n \in Nat /\ m \in Nat
  BY LenProperties
<1>2. Len(rs) = n + m /\ \A i \in 1..n + m : rs[i] = IF i <= n THEN ps[i] ELSE qs[i - n]
  BY ConcatProperties
<1>3. \A i \in 1..n : i \in 1..n + m /\ rs[i] = ps[i]
  BY <1>1, <1>2
<1>4. \A i \in 1..m : n + i \in 1..n + m /\ rs[n + i] = qs[i]
  <2> SUFFICES ASSUME NEW i \in 1..m PROVE n + i \in 1..n + m /\ rs[n + i] = qs[i]
    OBVIOUS
  <2>1. n + i \in 1..n + m /\ ~(n + i <= n) /\ (n + i) - n = i
    BY <1>1
  <2> QED
    BY <1>2, <2>1
<1>5. ASSUME NEW i \in 1..n + m
      PROVE  \/ i \in 1..n /\ rs[i] = ps[i]
             \/ i - n \in 1..m /\ rs[i] = qs[i - n]
  BY <1>1, <1>2
<1> HIDE DEF rs
<1>6. ASSUME NEW i \in 1..n, NEW j \in 1..m PROVE Spoken(ps[i]) \cap Spoken(qs[j]) = {}
  BY DEF SpokenIn
<1>7. ASSUME NEW i \in 1..n + m, NEW j \in 1..n + m, i # j PROVE Spoken(rs[i]) \cap Spoken(rs[j]) = {}
  <2>1. CASE i \in 1..n /\ rs[i] = ps[i] /\ j \in 1..n /\ rs[j] = ps[j]
    BY <1>7, <2>1 DEF NeatParts
  <2>2. CASE i \in 1..n /\ rs[i] = ps[i] /\ j - n \in 1..m /\ rs[j] = qs[j - n]
    BY <1>6, <2>2
  <2>3. CASE i - n \in 1..m /\ rs[i] = qs[i - n] /\ j \in 1..n /\ rs[j] = ps[j]
    BY <1>6, <2>3
  <2>4. CASE i - n \in 1..m /\ rs[i] = qs[i - n] /\ j - n \in 1..m /\ rs[j] = qs[j - n]
    <3>1. i - n # j - n
      BY <1>1, <1>7
    <3> QED
      BY <2>4, <3>1 DEF NeatParts
  <2> QED
    BY <1>5, <2>1, <2>2, <2>3, <2>4
<1>8. \A i \in 1..n + m : Neat(rs[i], Ph)
  BY <1>5 DEF NeatParts
<1>9. NeatParts(rs, Ph)
  BY <1>2, <1>7, <1>8 DEF NeatParts
<1>10. SpokenIn(rs) \subseteq SpokenIn(ps) \cup SpokenIn(qs)
  BY <1>2, <1>5 DEF SpokenIn
<1>11. SpokenIn(ps) \cup SpokenIn(qs) \subseteq SpokenIn(rs)
  <2> DEFINE R == SpokenIn(rs)
  <2>1. ASSUME NEW i \in 1..n PROVE Spoken(ps[i]) \subseteq R
    BY <1>2, <1>3, SpokenPart
  <2>2. ASSUME NEW i \in 1..m PROVE Spoken(qs[i]) \subseteq R
    BY <1>2, <1>4, SpokenPart
  <2> HIDE DEF R
  <2>3. SpokenIn(ps) \subseteq R /\ SpokenIn(qs) \subseteq R
    BY <2>1, <2>2 DEF SpokenIn
  <2> QED
    BY <2>3 DEF R
<1>12. SpokenIn(rs) = SpokenIn(ps) \cup SpokenIn(qs)
  BY <1>10, <1>11
<1> QED
  BY <1>9, <1>12 DEF rs

-----------------------------------------------------------------------------
(* A band in two columns splits no phrase                                  *)

\* Lines of words from left to right that share no word and keep the phrases.
LinesWords(ls) == UNION {WordsOf(ls[i]) : i \in 1..Len(ls)}
TidyLines(ls, Ph) ==
    /\ \A i \in 1..Len(ls) : Rising(ls[i]) /\ Phrased(ls[i], Ph)
    /\ \A i, j \in 1..Len(ls) : i # j => WordsOf(ls[i]) \cap WordsOf(ls[j]) = {}

LEMMA BodiesNeat ==
    ASSUME NEW S, S \subseteq Word, NEW Ph, NEW ls \in Seq(Seq(S)), TidyLines(ls, Ph)
    PROVE  /\ Neat([i \in DOMAIN ls |-> Body(ls[i])], Ph)
           /\ Spoken([i \in DOMAIN ls |-> Body(ls[i])]) = LinesWords(ls)
<1> DEFINE n == Len(ls)
           L == [i \in DOMAIN ls |-> Body(ls[i])]
<1>1. n \in Nat /\ DOMAIN ls = 1..n /\ \A i \in 1..n : ls[i] \in Seq(S)
  BY Places1
<1>2. Len(L) = n /\ \A i \in 1..n : L[i].words = ls[i]
  BY <1>1 DEF Body
<1> HIDE DEF L, n
<1>3. ASSUME NEW i \in 1..n, NEW j \in 1..n, NEW k \in 1..Len(ls[i]), NEW m \in 1..Len(ls[j]),
             ls[i][k] = ls[j][m]
      PROVE  i = j /\ k = m
  <2>1. ls[i][k] \in WordsOf(ls[i]) /\ ls[j][m] \in WordsOf(ls[j])
    BY DEF WordsOf
  <2>2. i = j
    BY <1>3, <2>1 DEF TidyLines, n
  <2>3. ls[i][k] \in S /\ ls[i][m] \in S
    <3>1. ls[i] \in Seq(S)
      BY <1>1
    <3> QED
      BY <2>2, <3>1, ElementOfSeq
  <2>4. ls[i][k].x0 \in Nat /\ ls[i][k].x0 = ls[i][m].x0
    BY <1>3, <2>2, <2>3 DEF Word
  <2>5. Rising(ls[i])
    BY DEF TidyLines, n
  <2>6. ~(k < m) /\ ~(m < k)
    BY <2>2, <2>4, <2>5 DEF Rising
  <2>7. k \in Nat /\ m \in Nat
    BY <2>2, <2>5 DEF Rising
  <2> QED
    BY <2>2, <2>6, <2>7
<1>4. OncePlaced(L)
  <2> SUFFICES ASSUME NEW i \in 1..n, NEW j \in 1..n, NEW k \in 1..Len(L[i].words),
                      NEW m \in 1..Len(L[j].words), L[i].words[k] = L[j].words[m]
               PROVE  i = j /\ k = m
    BY <1>2 DEF OncePlaced
  <2>1. L[i].words = ls[i] /\ L[j].words = ls[j]
    BY <1>2
  <2> QED
    BY <1>3, <2>1
<1>5. \A i \in 1..n : Phrased(L[i].words, Ph)
  BY <1>2 DEF TidyLines, n
<1>6. Spoken(L) = LinesWords(ls)
  BY <1>2 DEF Spoken, LinesWords, n
<1> QED
  BY <1>2, <1>4, <1>5, <1>6 DEF Neat, L

\* The gutter of a band passes through a gutter of the line, or beside the line.
ClearOf(line, g) ==
    \/ \E i \in 1..Len(line) - 1 : /\ line[i].x1 + MinGutter <= line[i + 1].x0
                                   /\ line[i].x1 <= g[1] /\ g[2] <= line[i + 1].x0
    \/ \A i \in 1..Len(line) : line[i].x1 <= g[1]
    \/ \A i \in 1..Len(line) : line[i].x0 >= g[2]

\* The words of a phrase are nearer than columns are.
Near(Ph) == \A u, v : <<u, v>> \in Ph => v.x0 < u.x1 + MinGutter

OnSide(w, g, left) == IF left THEN w.x0 < g[2] ELSE w.x0 >= g[2]
SideOf(line, g, left) ==
    {j \in DOMAIN line : IF left THEN line[j].x0 < g[2] ELSE line[j].x0 >= g[2]}

\* A phrase is on one side.
LEMMA SameSide ==
    ASSUME NEW S, S \subseteq Word, \A w \in S : w.x0 <= w.x1, NEW line \in Seq(S), Rising(line),
           NEW g \in Gap, g[1] < g[2], ClearOf(line, g), NEW i \in 1..Len(line) - 1,
           line[i + 1].x0 < line[i].x1 + MinGutter
    PROVE  line[i].x0 < g[2] <=> line[i + 1].x0 < g[2]
<1>1. Len(line) \in Nat /\ i \in 1..Len(line) /\ i + 1 \in 1..Len(line)
  BY LenProperties
<1>2. \A k \in 1..Len(line) : line[k].x0 \in Nat /\ line[k].x1 \in Nat /\ line[k].x0 <= line[k].x1
  <2> SUFFICES ASSUME NEW k \in 1..Len(line)
               PROVE  line[k].x0 \in Nat /\ line[k].x1 \in Nat /\ line[k].x0 <= line[k].x1
    OBVIOUS
  <2>1. line[k] \in S
    BY ElementOfSeq
  <2> QED
    BY <2>1 DEF Word
<1>3. g[1] \in Nat /\ g[2] \in Nat /\ MinGutter \in Nat
  BY GeometryAssumption DEF Gap
<1>4. \A k, m \in 1..Len(line) : k < m => line[k].x0 < line[m].x0
  BY DEF Rising
<1> DEFINE a == line[i]
           c == line[i + 1]
<1>5. a.x0 < c.x0 /\ a.x0 \in Nat /\ c.x0 \in Nat
  BY <1>1, <1>2, <1>4
<1>6. c.x0 < g[2] => a.x0 < g[2]
  BY <1>3, <1>5
<1>7. ASSUME a.x0 < g[2], ~(c.x0 < g[2]) PROVE FALSE
  <2>1. ASSUME NEW j \in 1..Len(line) - 1,
               line[j].x1 + MinGutter <= line[j + 1].x0, line[j].x1 <= g[1], g[2] <= line[j + 1].x0
        PROVE  FALSE
    <3>1. j \in 1..Len(line) /\ j + 1 \in 1..Len(line)
      BY <1>1
    <3>5. line[j].x0 \in Nat /\ line[j].x1 \in Nat /\ line[j].x0 <= line[j].x1 /\ line[j + 1].x0 \in Nat
      BY <1>2, <3>1
    <3> HIDE DEF a, c
    <3>2. line[j].x0 < c.x0 /\ a.x0 < line[j + 1].x0
      <4> DEFINE x == line[j].x0
                 y == line[j].x1
                 z == line[j + 1].x0
      <4>1. x \in Nat /\ y \in Nat /\ z \in Nat /\ x <= y /\ y <= g[1] /\ g[2] <= z
        BY <2>1, <3>5
      <4> HIDE DEF x, y, z
      <4>2. x < c.x0 /\ a.x0 < z
        BY <1>3, <1>5, <1>7, <4>1
      <4> QED
        BY <4>2 DEF x, z
    <3>3. ~(i + 1 < j) /\ ~(i + 1 = j) /\ ~(j + 1 < i) /\ ~(j + 1 = i)
      <4>1. i + 1 < j => c.x0 < line[j].x0
        BY <1>1, <1>4, <3>1 DEF c
      <4>2. j + 1 < i => line[j + 1].x0 < a.x0
        BY <1>1, <1>4, <3>1 DEF a
      <4>3. i + 1 = j => c = line[j]
        BY DEF c
      <4>4. j + 1 = i => a = line[j + 1]
        BY DEF a
      <4> QED
        BY <1>5, <3>2, <3>5, <4>1, <4>2, <4>3, <4>4
    <3>4. j = i
      BY <1>1, <3>1, <3>3
    <3> QED
      BY <1>2, <1>3, <2>1, <3>1, <3>4, <3>5
  <2>2. CASE \A k \in 1..Len(line) : line[k].x1 <= g[1]
    BY <1>1, <1>2, <1>3, <1>7, <2>2
  <2>3. CASE \A k \in 1..Len(line) : line[k].x0 >= g[2]
    BY <1>1, <1>2, <1>3, <1>7, <2>3
  <2> QED
    BY <2>1, <2>2, <2>3 DEF ClearOf
<1> QED
  BY <1>6, <1>7

\* What a line puts into one column.
LEMMA SideTidy ==
    ASSUME NEW S, S \subseteq Word, \A w \in S : w.x0 <= w.x1, NEW Ph, Near(Ph),
           NEW line \in Seq(S), Rising(line), Phrased(line, Ph),
           NEW g \in Gap, g[1] < g[2], ClearOf(line, g), NEW left \in BOOLEAN,
           SideOf(line, g, left) # {}
    PROVE  LET s == Picked(line, SideOf(line, g, left))
           IN  /\ s \in Seq(S) /\ Rising(s) /\ Phrased(s, Ph)
               /\ WordsOf(s) = {w \in WordsOf(line) : OnSide(w, g, left)}
<1> DEFINE I == SideOf(line, g, left)
           s == Picked(line, I)
           n == Len(s)
<1>1. DOMAIN line = 1..Len(line) /\ Len(line) \in Nat /\ \A i \in 1..Len(line) : line[i] \in S
  BY Places1
<1>2. I \in SUBSET DOMAIN line /\ I \in SUBSET (1..Len(line))
  BY <1>1 DEF SideOf
<1>3. \A i \in 1..Len(line) : i \in I <=> OnSide(line[i], g, left)
  BY <1>1 DEF SideOf, OnSide
<1> HIDE DEF I
<1>4. s \in Seq(S)
  BY <1>2, PickedFrom
<1>5. PICK at \in [1..n -> I] :
        /\ n \in Nat
        /\ \A k \in 1..n : s[k] = line[at[k]]
        /\ \A i \in I : \E k \in 1..n : at[k] = i
        /\ \A k, l \in 1..n : k < l => at[k] < at[l]
        /\ \A i \in I : i + 1 \in I => \A k \in 1..n : at[k] = i => k + 1 \in 1..n /\ at[k + 1] = i + 1
  BY <1>2, PickedPlaces
<1> HIDE DEF s, n
<1>6. \A k \in 1..n : at[k] \in I /\ at[k] \in 1..Len(line)
  BY <1>2
<1>7. Rising(s)
  <2>1. n # 0
    BY <1>5 DEF I
  <2>2. \A k, l \in 1..n : k < l => s[k].x0 < s[l].x0
    BY <1>5, <1>6 DEF Rising
  <2> QED
    BY <1>5, <2>1, <2>2 DEF Rising, n
<1>8. ASSUME NEW k \in 1..n, NEW v, <<s[k], v>> \in Ph PROVE k + 1 \in 1..n /\ s[k + 1] = v
  <2> DEFINE i == at[k]
  <2>1. i \in I /\ i \in 1..Len(line) /\ s[k] = line[i]
    BY <1>5, <1>6
  <2> HIDE DEF i
  <2>2. i + 1 \in 1..Len(line) /\ line[i + 1] = v
    BY <1>8, <2>1 DEF Phrased
  <2>3. line[i + 1].x0 < line[i].x1 + MinGutter
    BY <1>8, <2>1, <2>2 DEF Near
  <2>4. i \in 1..Len(line) - 1
    BY <1>1, <2>1, <2>2
  <2>5. line[i].x0 < g[2] <=> line[i + 1].x0 < g[2]
    BY <2>3, <2>4, SameSide
  <2>6. line[i].x0 \in Nat /\ line[i + 1].x0 \in Nat /\ g[2] \in Nat
    BY <1>1, <2>1, <2>2 DEF Word, Gap
  <2>7. OnSide(line[i], g, left) <=> OnSide(line[i + 1], g, left)
    BY <2>5, <2>6 DEF OnSide
  <2>8. i + 1 \in I
    BY <1>3, <2>1, <2>2, <2>7
  <2>9. k + 1 \in 1..n /\ at[k + 1] = i + 1
    BY <1>5, <2>1, <2>8 DEF i
  <2> QED
    BY <1>5, <2>2, <2>9
<1>9. Phrased(s, Ph)
  BY <1>8 DEF Phrased, n
<1>10. WordsOf(s) = {w \in WordsOf(line) : OnSide(w, g, left)}
  <2>1. WordsOf(s) \subseteq {w \in WordsOf(line) : OnSide(w, g, left)}
    BY <1>3, <1>5, <1>6 DEF WordsOf, n
  <2>2. ASSUME NEW i \in 1..Len(line), OnSide(line[i], g, left) PROVE line[i] \in WordsOf(s)
    <3>1. PICK k \in 1..n : at[k] = i
      BY <1>3, <1>5, <2>2
    <3> QED
      BY <1>5, <3>1 DEF WordsOf, n
  <2> QED
    BY <2>1, <2>2 DEF WordsOf
<1> QED
  BY <1>4, <1>7, <1>9, <1>10 DEF s, I

ColumnOf(ls, g, left) ==
    LET lines == Picked(ls, {i \in DOMAIN ls : SideOf(ls[i], g, left) # {}})
    IN  [i \in DOMAIN lines |-> Body(Picked(lines[i], SideOf(lines[i], g, left)))]

\* A column is neat, and holds the words on its side.
LEMMA ColumnNeat ==
    ASSUME NEW S, S \subseteq Word, \A w \in S : w.x0 <= w.x1, NEW Ph, Near(Ph),
           NEW ls \in Seq(Seq(S)), TidyLines(ls, Ph),
           NEW g \in Gap, g[1] < g[2], \A i \in 1..Len(ls) : ClearOf(ls[i], g), NEW left \in BOOLEAN
    PROVE  /\ ColumnOf(ls, g, left) \in Seq(PageLine(S))
           /\ Neat(ColumnOf(ls, g, left), Ph)
           /\ Spoken(ColumnOf(ls, g, left)) = {w \in LinesWords(ls) : OnSide(w, g, left)}
<1> DEFINE I == {i \in DOMAIN ls : SideOf(ls[i], g, left) # {}}
           T == Picked(ls, I)
           n == Len(T)
           cut(i) == Picked(T[i], SideOf(T[i], g, left))
           cuts == [i \in 1..n |-> cut(i)]
<1>1. Len(ls) \in Nat /\ DOMAIN ls = 1..Len(ls) /\ \A i \in 1..Len(ls) : ls[i] \in Seq(S)
  BY Places1
<1>2. I \in SUBSET DOMAIN ls /\ I \in SUBSET (1..Len(ls))
  BY <1>1
<1>3. \A i \in 1..Len(ls) : i \in I <=> SideOf(ls[i], g, left) # {}
  BY <1>1
<1> HIDE DEF I
<1>4. T \in Seq(Seq(S))
  BY <1>2, PickedFrom
<1>5. PICK at \in [1..n -> I] :
        /\ \A k \in 1..n : T[k] = ls[at[k]]
        /\ \A i \in I : \E k \in 1..n : at[k] = i
        /\ \A k, l \in 1..n : k < l => at[k] < at[l]
  BY <1>2, PickedPlaces
<1>6. ColumnOf(ls, g, left) = [i \in DOMAIN T |-> Body(cut(i))]
  BY DEF ColumnOf, I
<1> HIDE DEF T
<1>7. n \in Nat /\ DOMAIN T = 1..n
  BY <1>4, Places1
<1>8. \A k \in 1..n : at[k] \in I /\ at[k] \in 1..Len(ls)
  BY <1>2
<1>9. ASSUME NEW k \in 1..n
      PROVE  /\ cut(k) \in Seq(S) /\ Rising(cut(k)) /\ Phrased(cut(k), Ph)
             /\ WordsOf(cut(k)) = {w \in WordsOf(ls[at[k]]) : OnSide(w, g, left)}
  <2> DEFINE line == T[k]
  <2>1. line = ls[at[k]] /\ at[k] \in 1..Len(ls) /\ SideOf(line, g, left) # {}
    BY <1>3, <1>5, <1>8
  <2>2. line \in Seq(S) /\ Rising(line) /\ Phrased(line, Ph) /\ ClearOf(line, g)
    BY <1>1, <2>1 DEF TidyLines
  <2>3. cut(k) = Picked(line, SideOf(line, g, left))
    OBVIOUS
  <2> HIDE DEF line, cut
  <2>4. LET s == Picked(line, SideOf(line, g, left))
        IN  /\ s \in Seq(S) /\ Rising(s) /\ Phrased(s, Ph)
            /\ WordsOf(s) = {w \in WordsOf(line) : OnSide(w, g, left)}
    <3> HIDE DEF SideOf
    <3>1. line \in Seq(S) /\ Rising(line) /\ Phrased(line, Ph) /\ ClearOf(line, g) /\ SideOf(line, g, left) # {}
      BY <2>1, <2>2
    <3> QED
      BY ONLY <3>1, SideTidy, S \subseteq Word, \A w \in S : w.x0 <= w.x1, Near(Ph), g \in Gap, g[1] < g[2], left \in BOOLEAN
  <2> QED
    BY <2>1, <2>3, <2>4
<1>10. ASSUME NEW k \in 1..n, NEW l \in 1..n, k # l
       PROVE  WordsOf(cut(k)) \cap WordsOf(cut(l)) = {}
  <2>1. k < l \/ l < k
    BY <1>7, <1>10
  <2>2. at[k] \in Nat /\ at[l] \in Nat
    BY <1>8
  <2>3. at[k] # at[l]
    BY <1>5, <2>1, <2>2
  <2>4. WordsOf(ls[at[k]]) \cap WordsOf(ls[at[l]]) = {}
    BY <1>8, <2>3 DEF TidyLines
  <2> QED
    BY <1>9, <2>4
<1>11. cuts = [i \in 1..n |-> cut(i)]
  OBVIOUS
<1> HIDE DEF cut, cuts, n
<1>12. cuts \in Seq(Seq(S)) /\ Len(cuts) = n /\ DOMAIN cuts = 1..n /\ \A i \in 1..n : cuts[i] = cut(i)
  <2>1. cuts \in [1..n -> Seq(S)]
    BY <1>9, <1>11
  <2> QED
    BY <1>7, <1>11, <2>1
<1>13. TidyLines(cuts, Ph)
  BY <1>9, <1>10, <1>12 DEF TidyLines
<1>14. ColumnOf(ls, g, left) = [i \in DOMAIN cuts |-> Body(cuts[i])]
  BY <1>6, <1>7, <1>12
<1>15. LinesWords(cuts) = {w \in LinesWords(ls) : OnSide(w, g, left)}
  <2>1. ASSUME NEW w \in LinesWords(cuts) PROVE w \in LinesWords(ls) /\ OnSide(w, g, left)
    <3>1. PICK k \in 1..n : w \in WordsOf(cuts[k])
      BY <1>12 DEF LinesWords
    <3>2. w \in WordsOf(ls[at[k]]) /\ OnSide(w, g, left)
      BY <1>9, <1>12, <3>1
    <3> QED
      BY <1>8, <3>2 DEF LinesWords
  <2>2. ASSUME NEW i \in 1..Len(ls), NEW w \in WordsOf(ls[i]), OnSide(w, g, left) PROVE w \in LinesWords(cuts)
    <3>1. PICK j \in 1..Len(ls[i]) : w = ls[i][j]
      BY DEF WordsOf
    <3>2. DOMAIN ls[i] = 1..Len(ls[i])
      BY <1>1, Places1
    <3>3. j \in SideOf(ls[i], g, left)
      BY <2>2, <3>1, <3>2 DEF SideOf, OnSide
    <3>4. PICK k \in 1..n : at[k] = i
      BY <1>3, <1>5, <3>3
    <3>5. w \in WordsOf(cuts[k])
      BY <1>9, <1>12, <2>2, <3>4
    <3> QED
      BY <1>12, <3>5 DEF LinesWords
  <2>3. {w \in LinesWords(ls) : OnSide(w, g, left)} \subseteq LinesWords(cuts)
    BY <2>2 DEF LinesWords
  <2> QED
    BY <2>1, <2>3
<1>16. ColumnOf(ls, g, left) \in Seq(PageLine(S))
  <2> DEFINE L == PageLine(S)
             s == [i \in DOMAIN cuts |-> Body(cuts[i])]
  <2>1. \A i \in 1..n : Body(cuts[i]) \in L
    <3>1. \A i \in 1..n : cuts[i] \in Seq(S)
      BY <1>9, <1>12
    <3> QED
      BY <3>1 DEF Body, PageLine
  <2> HIDE DEF L
  <2>2. s \in [1..n -> L]
    BY <1>12, <2>1
  <2> HIDE DEF s
  <2>3. s \in Seq(L)
    BY <1>7, <2>2
  <2> QED
    BY <1>14, <2>3 DEF s, L
<1> QED
  BY <1>12, <1>13, <1>14, <1>15, <1>16, BodiesNeat

\* The lines of a band are tidy, and its gutter leaves their phrases alone.
SoundBand(b, Ph) ==
    /\ TidyLines(b.lines, Ph)
    /\ b.gutter # NoGutter => /\ b.gutter[1] < b.gutter[2]
                              /\ \A i \in 1..Len(b.lines) : ClearOf(b.lines[i], b.gutter)

\* A band is written with all its words, one column or two.
LEMMA RenderedNeat ==
    ASSUME NEW S, S \subseteq Word, \A w \in S : w.x0 <= w.x1, NEW Ph, Near(Ph),
           NEW b \in Band(S), SoundBand(b, Ph)
    PROVE  Neat(Rendered(b), Ph) /\ Spoken(Rendered(b)) = LinesWords(b.lines)
<1> DEFINE ls == b.lines
           g == b.gutter
<1>1. ls \in Seq(Seq(S)) /\ TidyLines(ls, Ph) /\ g \in Gap \cup {NoGutter}
  BY DEF Band, SoundBand
<1>2. CASE g = NoGutter \/ b.agreed < MinColumnLines
  <2>1. Rendered(b) = [i \in DOMAIN ls |-> Body(ls[i])]
    BY <1>2 DEF Rendered
  <2> HIDE DEF ls
  <2> QED
    BY <1>1, <2>1, BodiesNeat DEF ls
<1>3. CASE ~(g = NoGutter \/ b.agreed < MinColumnLines)
  <2> DEFINE c == ColumnOf(ls, g, TRUE)
             e == ColumnOf(ls, g, FALSE)
             X == Seq(PageLine(S))
             ps == <<c, e>>
  <2>1. Rendered(b) = Apart(ps)
    BY <1>3 DEF Rendered, ColumnOf, SideOf
  <2>2. g \in Gap /\ g[1] < g[2] /\ \A i \in 1..Len(ls) : ClearOf(ls[i], g)
    BY <1>1, <1>3 DEF SoundBand
  <2>3. g[2] \in Nat
    BY <2>2 DEF Gap
  <2> HIDE DEF ls, g
  <2>4. /\ c \in X /\ Neat(c, Ph) /\ Spoken(c) = {w \in LinesWords(ls) : OnSide(w, g, TRUE)}
        /\ e \in X /\ Neat(e, Ph) /\ Spoken(e) = {w \in LinesWords(ls) : OnSide(w, g, FALSE)}
    BY <1>1, <2>2, ColumnNeat
  <2>5. \A w \in LinesWords(ls) : w.x0 \in Nat
    <3> SUFFICES ASSUME NEW i \in 1..Len(ls), NEW k \in 1..Len(ls[i]) PROVE ls[i][k].x0 \in Nat
      BY DEF LinesWords, WordsOf
    <3>1. ls[i] \in Seq(S)
      BY <1>1, ElementOfSeq
    <3>2. ls[i][k] \in S
      BY <3>1, ElementOfSeq
    <3> QED
      BY <3>2 DEF Word
  <2>6. \A w \in LinesWords(ls) : OnSide(w, g, TRUE) <=> ~OnSide(w, g, FALSE)
    BY <2>3, <2>5 DEF OnSide
  <2>7. Spoken(c) \cap Spoken(e) = {} /\ Spoken(c) \cup Spoken(e) = LinesWords(ls)
    BY <2>4, <2>6
  <2> HIDE DEF c, e, X
  <2>8. ps \in Seq(X) /\ Len(ps) = 2 /\ ps[1] = c /\ ps[2] = e
    BY <2>4
  <2> HIDE DEF ps
  <2>9. NeatParts(ps, Ph) /\ SpokenIn(ps) = LinesWords(ls)
    <3>1. \A i \in 1..Len(ps) : i = 1 \/ i = 2
      BY <2>8
    <3>2. 1 \in 1..Len(ps) /\ 2 \in 1..Len(ps)
      BY <2>8
    <3>3. NeatParts(ps, Ph)
      BY <2>4, <2>7, <2>8, <3>1 DEF NeatParts
    <3>4. SpokenIn(ps) = Spoken(c) \cup Spoken(e)
      BY <2>8, <3>1, <3>2 DEF SpokenIn
    <3> QED
      BY <2>7, <3>3, <3>4
  <2>10. ps \in PageParts(S)
    BY <2>8 DEF PageParts, X
  <2> QED
    BY <2>1, <2>9, <2>10, ApartNeat DEF ls
<1> QED
  BY <1>2, <1>3

\* The bands hold the words of their lines, each word in one of them.
Banded(s, W, Ph) ==
    /\ SoundBand(s[2], Ph) /\ \A i \in 1..Len(s[1]) : SoundBand(s[1][i], Ph)
    /\ \A i, j \in 1..Len(s[1]) : i # j => LinesWords(s[1][i].lines) \cap LinesWords(s[1][j].lines) = {}
    /\ \A i \in 1..Len(s[1]) : LinesWords(s[1][i].lines) \cap LinesWords(s[2].lines) = {}
    /\ W = LinesWords(s[2].lines) \cup UNION {LinesWords(s[1][i].lines) : i \in 1..Len(s[1])}

LEMMA NoWords == LinesWords(<<>>) = {} /\ \A Ph : TidyLines(<<>>, Ph)
<1>1. Len(<<>>) = 0
  OBVIOUS
<1> QED
  BY <1>1 DEF LinesWords, TidyLines

\* One more line.
LEMMA LineAdded ==
    ASSUME NEW S, NEW Ph, NEW ls \in Seq(Seq(S)), TidyLines(ls, Ph), NEW line \in Seq(S),
           Rising(line), Phrased(line, Ph), WordsOf(line) \cap LinesWords(ls) = {}
    PROVE  /\ TidyLines(Append(ls, line), Ph)
           /\ LinesWords(Append(ls, line)) = LinesWords(ls) \cup WordsOf(line)
           /\ Len(Append(ls, line)) = Len(ls) + 1 /\ Len(ls) \in Nat
           /\ Append(ls, line)[Len(ls) + 1] = line
           /\ \A i \in 1..Len(ls) : Append(ls, line)[i] = ls[i]
<1> DEFINE ms == Append(ls, line)
           n == Len(ls)
<1>1. n \in Nat /\ Len(ms) = n + 1 /\ ms[n + 1] = line /\ \A i \in 1..n : ms[i] = ls[i]
  BY AppendProperties, LenProperties
<1>2. \A i \in 1..n + 1 : i = n + 1 \/ i \in 1..n
  BY <1>1
<1>3. n + 1 \in 1..n + 1 /\ \A i \in 1..n : i \in 1..n + 1
  BY <1>1
<1> HIDE DEF ms
<1>4. \A i \in 1..n + 1 : Rising(ms[i]) /\ Phrased(ms[i], Ph)
  BY <1>1, <1>2 DEF TidyLines
<1>5. \A i \in 1..n : WordsOf(ls[i]) \cap WordsOf(line) = {}
  BY DEF LinesWords
<1>6. ASSUME NEW i \in 1..n + 1, NEW j \in 1..n + 1, i # j PROVE WordsOf(ms[i]) \cap WordsOf(ms[j]) = {}
  <2>1. CASE i \in 1..n /\ j \in 1..n
    BY <1>1, <1>6, <2>1 DEF TidyLines
  <2>2. CASE i = n + 1
    BY <1>1, <1>2, <1>5, <1>6, <2>2
  <2>3. CASE j = n + 1
    BY <1>1, <1>2, <1>5, <1>6, <2>3
  <2> QED
    BY <1>2, <2>1, <2>2, <2>3
<1>7. TidyLines(ms, Ph)
  BY <1>1, <1>4, <1>6 DEF TidyLines
<1>8. LinesWords(ms) \subseteq LinesWords(ls) \cup WordsOf(line)
  BY <1>1, <1>2 DEF LinesWords
<1>9. LinesWords(ls) \subseteq LinesWords(ms)
  BY <1>1, <1>3 DEF LinesWords
<1>10. WordsOf(line) \subseteq LinesWords(ms)
  BY <1>1, <1>3 DEF LinesWords
<1>11. LinesWords(ms) = LinesWords(ls) \cup WordsOf(line)
  BY <1>8, <1>9, <1>10
<1> QED
  BY <1>1, <1>7, <1>11 DEF ms

\* Gutter g is within gutter h, and the line is clear of it.
Within(g, h, line) ==
    g # NoGutter => /\ h # NoGutter /\ g[1] < g[2] /\ ClearOf(line, g)
                    /\ h[1] <= g[1] /\ g[2] <= h[2]
Unsaid(line, W) == WordsOf(line) \cap W = {}
Grown(c, b, line, Ph) ==
    SoundBand(c, Ph) /\ LinesWords(c.lines) = LinesWords(b.lines) \cup WordsOf(line)
Longer(c, b, line) == c.lines = Append(b.lines, line)

\* A band takes a line its gutter is clear of, as wide as it was or narrower.
LEMMA BandGrows ==
    ASSUME NEW S, NEW Ph, NEW b \in Band(S), SoundBand(b, Ph), NEW line \in Seq(S),
           Rising(line), Phrased(line, Ph), Unsaid(line, LinesWords(b.lines)),
           NEW c \in Band(S), Longer(c, b, line),
           Within(c.gutter, b.gutter, line), S \subseteq Word
    PROVE  Grown(c, b, line, Ph)
<1> DEFINE n == Len(b.lines)
           g == c.gutter
           h == b.gutter
<1>1. b.lines \in Seq(Seq(S)) /\ TidyLines(b.lines, Ph)
  BY DEF Band, SoundBand
<1>2. /\ TidyLines(c.lines, Ph) /\ LinesWords(c.lines) = LinesWords(b.lines) \cup WordsOf(line)
      /\ Len(c.lines) = n + 1 /\ n \in Nat /\ c.lines[n + 1] = line
      /\ \A i \in 1..n : c.lines[i] = b.lines[i] /\ b.lines[i] \in Seq(S)
  BY <1>1, LineAdded, ElementOfSeq DEF Unsaid, Longer
<1>3. ASSUME g # NoGutter, NEW i \in 1..n PROVE ClearOf(c.lines[i], g)
  <2> DEFINE l == b.lines[i]
  <2>1. l \in Seq(S) /\ c.lines[i] = l
    BY <1>2
  <2>2. ClearOf(l, h) /\ h[1] <= g[1] /\ g[2] <= h[2]
    BY <1>3 DEF SoundBand, Within
  <2>3. h \in Gap /\ g \in Gap
    BY <1>3 DEF Band, Within
  <2>4. h[1] \in Nat /\ h[2] \in Nat /\ g[1] \in Nat /\ g[2] \in Nat
    BY <2>3 DEF Gap
  <2>5. Len(l) \in Nat /\ \A k \in 1..Len(l) : l[k].x0 \in Nat /\ l[k].x1 \in Nat
    <3>1. Len(l) \in Nat /\ \A k \in 1..Len(l) : l[k] \in S
      BY <2>1, LenProperties, ElementOfSeq
    <3> QED
      BY <3>1 DEF Word
  <2> HIDE DEF l, g, h
  <2>6. \A k \in 1..Len(l) - 1 : k \in 1..Len(l) /\ k + 1 \in 1..Len(l)
    BY <2>5
  <2>7. ClearOf(l, g)
    <3>1. ASSUME NEW k \in 1..Len(l) - 1, l[k].x1 + MinGutter <= l[k + 1].x0,
                 l[k].x1 <= h[1], h[2] <= l[k + 1].x0
          PROVE  l[k].x1 <= g[1] /\ g[2] <= l[k + 1].x0
      <4>1. l[k].x1 \in Nat /\ l[k + 1].x0 \in Nat
        BY <2>5, <2>6
      <4> DEFINE x == l[k].x1
                 y == l[k + 1].x0
      <4>2. x \in Nat /\ y \in Nat /\ x <= h[1] /\ h[2] <= y
        BY <3>1, <4>1
      <4> HIDE DEF x, y
      <4>3. x <= g[1] /\ g[2] <= y
        BY <2>2, <2>4, <4>2
      <4> QED
        BY <4>3 DEF x, y
    <3>2. CASE \A k \in 1..Len(l) : l[k].x1 <= h[1]
      <4>1. \A k \in 1..Len(l) : l[k].x1 <= g[1]
        BY <2>2, <2>4, <2>5, <3>2
      <4> QED
        BY <4>1 DEF ClearOf
    <3>3. CASE \A k \in 1..Len(l) : l[k].x0 >= h[2]
      <4>1. \A k \in 1..Len(l) : l[k].x0 >= g[2]
        BY <2>2, <2>4, <2>5, <3>3
      <4> QED
        BY <4>1 DEF ClearOf
    <3> QED
      BY <2>2, <3>1, <3>2, <3>3 DEF ClearOf
  <2> QED
    BY <2>1, <2>7 DEF g
<1>4. \A i \in 1..n + 1 : i = n + 1 \/ i \in 1..n
  BY <1>2
<1>5. ASSUME g # NoGutter PROVE g[1] < g[2] /\ \A i \in 1..Len(c.lines) : ClearOf(c.lines[i], g)
  <2>1. g[1] < g[2] /\ ClearOf(line, g)
    BY <1>5 DEF Within
  <2> QED
    BY <1>2, <1>3, <1>4, <1>5, <2>1
<1> QED
  BY <1>2, <1>5 DEF SoundBand, Grown

\* A line begins a band, with the widest of its gutters.
LEMMA BandBegins ==
    ASSUME NEW S, S \subseteq Word, NEW Ph, NEW line \in Seq(S), Rising(line), Phrased(line, Ph)
    PROVE  SoundBand(NewBand(line), Ph) /\ LinesWords(NewBand(line).lines) = WordsOf(line)
<1> DEFINE ls == <<line>>
           gs == Gutters(line)
           g == Widest(gs)
<1>1. NewBand(line).lines = ls /\ NewBand(line).gutter = g
  BY DEF NewBand
<1>2. Len(ls) = 1 /\ ls[1] = line /\ 1..1 = {1}
  OBVIOUS
<1>3. gs \in SUBSET Gap /\ IsFiniteSet(gs)
  BY GuttersType
<1>4. IF gs = {} THEN g = NoGutter ELSE g \in gs
  BY <1>3, WidestType
<1>5. TidyLines(ls, Ph) /\ LinesWords(ls) = WordsOf(line)
  <2> HIDE DEF ls
  <2> QED
    BY <1>2 DEF TidyLines, LinesWords
<1>6. ASSUME g # NoGutter PROVE g[1] < g[2] /\ ClearOf(line, g)
  <2>1. PICK i \in 1..Len(line) - 1 :
          line[i + 1].x0 >= line[i].x1 + MinGutter /\ g = <<line[i].x1, line[i + 1].x0>>
    BY <1>4, <1>6 DEF Gutters
  <2>2. Len(line) \in Nat /\ i \in 1..Len(line) /\ i + 1 \in 1..Len(line)
    BY LenProperties
  <2>3. line[i] \in S /\ line[i + 1] \in S
    BY <2>2, ElementOfSeq
  <2>4. line[i].x1 \in Nat /\ line[i + 1].x0 \in Nat /\ MinGutter \in Nat \ {0}
    BY <2>3, GeometryAssumption DEF Word
  <2> DEFINE x == line[i].x1
             y == line[i + 1].x0
  <2>5. x \in Nat /\ y \in Nat /\ y >= x + MinGutter /\ g = <<x, y>>
    BY <2>1, <2>4
  <2> HIDE DEF x, y, g
  <2>6. g[1] = x /\ g[2] = y /\ x < y /\ x + MinGutter <= y /\ x <= x /\ y <= y
    BY <2>4, <2>5
  <2> QED
    BY <2>6 DEF ClearOf, x, y
<1> HIDE DEF ls, g
<1>7. SoundBand(NewBand(line), Ph)
  BY <1>1, <1>2, <1>5, <1>6 DEF SoundBand
<1> QED
  BY <1>1, <1>5, <1>7

\* The end of a line is as far as any of its words.
LEMMA LineEnds ==
    ASSUME NEW S, S \subseteq Word, NEW line \in Seq(S), Rising(line)
    PROVE  /\ RightEnd(line) \in Int /\ LeftEnd(line) \in Int
           /\ \A i \in 1..Len(line) : line[i].x1 <= RightEnd(line) /\ LeftEnd(line) <= line[i].x0
<1> DEFINE n == Len(line)
           f == [i \in 1..n |-> line[i].x1]
           E == {f[i] : i \in 1..n}
<1>1. n \in Nat /\ n # 0 /\ DOMAIN line = 1..n /\ \A i \in 1..n : line[i] \in S
  <2>1. n \in Nat /\ DOMAIN line = 1..n /\ \A i \in 1..n : line[i] \in S
    BY Places1
  <2> QED
    BY <2>1 DEF Rising
<1>2. \A i \in 1..n : line[i].x1 \in Nat /\ line[i].x0 \in Nat
  BY <1>1 DEF Word
<1>3. \A i \in 1..n : f[i] = line[i].x1
  OBVIOUS
<1>4. RightEnd(line) = Max(E)
  BY <1>1 DEF RightEnd
<1>5. DOMAIN f = 1..n /\ f = [i \in 1..n |-> f[i]] /\ IsFiniteSet(1..n)
  BY <1>1, FS_Interval
<1>6. 1 \in 1..n
  BY <1>1
<1> HIDE DEF f, n
<1>7. IsFiniteSet(E) /\ E \subseteq Int /\ E # {}
  <2> DEFINE D == 1..n
  <2>1. IsFiniteSet(D) /\ DOMAIN f = D /\ f = [i \in D |-> f[i]] /\ E = {f[x] : x \in D}
    BY <1>5
  <2>2. E \subseteq Int /\ f[1] \in E
    BY <1>2, <1>3, <1>6
  <2> HIDE DEF D, E
  <2>3. IsFiniteSet(E)
    BY ONLY <2>1, FiniteImage
  <2> QED
    BY <2>2, <2>3
<1>8. \A i \in 1..n : f[i] \in E
  OBVIOUS
<1> HIDE DEF E
<1>9. Max(E) \in Int /\ \A x \in E : x <= Max(E)
  BY <1>7, GreatestOf
<1>10. \A i \in 1..n : line[i].x1 <= RightEnd(line)
  BY <1>3, <1>4, <1>8, <1>9
<1>11. ASSUME NEW i \in 1..n PROVE line[1].x0 <= line[i].x0
  <2>1. CASE i = 1
    BY <1>2, <2>1
  <2>2. CASE i # 1
    <3>1. 1 < i
      BY <1>1, <2>2
    <3>2. line[1].x0 < line[i].x0
      BY <1>6, <3>1 DEF Rising, n
    <3> QED
      BY <1>2, <1>6, <3>2
  <2> QED
    BY <2>1, <2>2
<1>12. line[1].x0 \in Int
  BY <1>2, <1>6
<1> QED
  BY <1>4, <1>9, <1>10, <1>11, <1>12 DEF LeftEnd, n

LEMMA BandedLonger ==
    ASSUME NEW s, NEW W, NEW Ph, Banded(s, W, Ph), NEW c, SoundBand(c, Ph), NEW new,
           LinesWords(c.lines) = LinesWords(s[2].lines) \cup new, new \cap W = {}
    PROVE  Banded(<<s[1], c>>, W \cup new, Ph)
<1> DEFINE r == <<s[1], c>>
           U == UNION {LinesWords(s[1][i].lines) : i \in 1..Len(s[1])}
           H == LinesWords(s[2].lines)
<1>1. r[1] = s[1] /\ r[2] = c
  OBVIOUS
<1> HIDE DEF r
<1>2. W = H \cup U /\ \A i \in 1..Len(s[1]) : LinesWords(s[1][i].lines) \subseteq U
  BY DEF Banded
<1>3. \A i \in 1..Len(s[1]) : LinesWords(s[1][i].lines) \cap H = {}
  BY DEF Banded
<1>4. LinesWords(c.lines) = H \cup new
  OBVIOUS
<1>5. U = UNION {LinesWords(s[1][i].lines) : i \in 1..Len(s[1])}
  OBVIOUS
<1> HIDE DEF U, H
<1>6. W \cup new = LinesWords(c.lines) \cup U
  BY <1>2, <1>4
<1>7. \A i \in 1..Len(s[1]) : LinesWords(s[1][i].lines) \cap LinesWords(c.lines) = {}
  BY <1>2, <1>3, <1>4
<1> QED
  BY <1>1, <1>5, <1>6, <1>7 DEF Banded, r

LEMMA BandedClosed ==
    ASSUME NEW S, NEW s \in Seq(Band(S)) \X Band(S), NEW W, NEW Ph, Banded(s, W, Ph),
           NEW c, SoundBand(c, Ph), LinesWords(c.lines) \cap W = {}
    PROVE  Banded(<<IF s[2].lines = <<>> THEN s[1] ELSE Append(s[1], s[2]), c>>,
                  W \cup LinesWords(c.lines), Ph)
<1> DEFINE bs == s[1]
           b == s[2]
           n == Len(bs)
           cs == Append(bs, b)
           U == UNION {LinesWords(bs[i].lines) : i \in 1..n}
           new == LinesWords(c.lines)
<1>0. bs \in Seq(Band(S)) /\ b \in Band(S)
  OBVIOUS
<1>1. /\ SoundBand(b, Ph) /\ \A i \in 1..n : SoundBand(bs[i], Ph)
      /\ \A i, j \in 1..n : i # j => LinesWords(bs[i].lines) \cap LinesWords(bs[j].lines) = {}
      /\ \A i \in 1..n : LinesWords(bs[i].lines) \cap LinesWords(b.lines) = {}
      /\ W = LinesWords(b.lines) \cup U
  BY DEF Banded
<1>2. \A i \in 1..n : LinesWords(bs[i].lines) \cap new = {}
  BY <1>1
<1>3. LinesWords(b.lines) \cap new = {}
  BY <1>1
<1>4. CASE b.lines = <<>>
  <2> DEFINE r == <<bs, c>>
  <2>1. r[1] = bs /\ r[2] = c
    OBVIOUS
  <2> HIDE DEF r
  <2>2. LinesWords(b.lines) = {}
    BY <1>4, NoWords
  <2>3. W \cup new = new \cup U
    BY <1>1, <2>2
  <2>9. U = UNION {LinesWords(r[1][i].lines) : i \in 1..Len(r[1])}
    BY <2>1
  <2>10. new = LinesWords(c.lines)
    OBVIOUS
  <2> HIDE DEF bs, b, U, new
  <2>11. \A i \in 1..Len(r[1]) : SoundBand(r[1][i], Ph) /\ LinesWords(r[1][i].lines) \cap LinesWords(r[2].lines) = {}
    BY <1>1, <1>2, <2>1, <2>10
  <2>12. \A i, j \in 1..Len(r[1]) : i # j => LinesWords(r[1][i].lines) \cap LinesWords(r[1][j].lines) = {}
    BY <1>1, <2>1
  <2>4. Banded(r, W \cup new, Ph)
    BY ONLY <2>1, <2>3, <2>9, <2>10, <2>11, <2>12, SoundBand(c, Ph) DEF Banded
  <2> QED
    BY <1>4, <2>4 DEF r, bs, b, new
<1>5. CASE b.lines # <<>>
  <2> DEFINE r == <<cs, c>>
  <2>1. r[1] = cs /\ r[2] = c
    OBVIOUS
  <2>2. n \in Nat /\ Len(cs) = n + 1 /\ cs[n + 1] = b /\ \A i \in 1..n : cs[i] = bs[i]
    <3> DEFINE B == Band(S)
    <3>1. bs \in Seq(B) /\ b \in B
      BY <1>0
    <3> HIDE DEF B, bs, b
    <3> QED
      BY <3>1, AppendProperties, LenProperties
  <2>3. \A i \in 1..n + 1 : i = n + 1 \/ i \in 1..n
    BY <2>2
  <2>4. n + 1 \in 1..n + 1 /\ \A i \in 1..n : i \in 1..n + 1
    BY <2>2
  <2> HIDE DEF r, cs, bs, b
  <2>5. \A i \in 1..n + 1 : SoundBand(cs[i], Ph) /\ LinesWords(cs[i].lines) \cap new = {}
    BY <1>1, <1>2, <1>3, <2>2, <2>3
  <2>6. ASSUME NEW i \in 1..n + 1, NEW j \in 1..n + 1, i # j
        PROVE  LinesWords(cs[i].lines) \cap LinesWords(cs[j].lines) = {}
    <3>1. CASE i \in 1..n /\ j \in 1..n
      BY <1>1, <2>2, <2>6, <3>1
    <3>2. CASE i = n + 1
      BY <1>1, <2>2, <2>3, <2>6, <3>2
    <3>3. CASE j = n + 1
      BY <1>1, <2>2, <2>3, <2>6, <3>3
    <3> QED
      BY <2>3, <3>1, <3>2, <3>3
  <2> DEFINE V == UNION {LinesWords(cs[i].lines) : i \in 1..n + 1}
  <2>7. V = W
    <3>1. V \subseteq LinesWords(b.lines) \cup U
      BY <2>2, <2>3
    <3>2. LinesWords(b.lines) \subseteq V
      BY <2>2, <2>4
    <3>3. U \subseteq V
      BY <2>2, <2>4
    <3> QED
      BY <1>1, <3>1, <3>2, <3>3
  <2> HIDE DEF V
  <2>8. W \cup new = new \cup V
    BY <2>7
  <2>9. Banded(r, W \cup new, Ph)
    <3>1. Len(r[1]) = n + 1 /\ V = UNION {LinesWords(r[1][i].lines) : i \in 1..Len(r[1])} /\ new = LinesWords(r[2].lines)
      BY <2>1, <2>2 DEF V, new
    <3>2. \A i \in 1..Len(r[1]) : SoundBand(r[1][i], Ph) /\ LinesWords(r[1][i].lines) \cap LinesWords(r[2].lines) = {}
      BY <2>1, <2>5, <3>1
    <3>3. \A i, j \in 1..Len(r[1]) : i # j => LinesWords(r[1][i].lines) \cap LinesWords(r[1][j].lines) = {}
      BY <2>1, <2>6, <3>1
    <3>4. SoundBand(r[2], Ph)
      BY <2>1
    <3> QED
      BY ONLY <2>8, <3>1, <3>2, <3>3, <3>4 DEF Banded
  <2> QED
    BY <1>5, <2>9 DEF r, cs, bs, b, new
<1> QED
  BY <1>4, <1>5

\* A line joins the open band or begins the next.
LEMMA BandJoined ==
    ASSUME NEW S, S \subseteq Word, NEW Ph, NEW s \in Seq(Band(S)) \X Band(S), NEW W,
           Banded(s, W, Ph), NEW line \in Seq(S), Rising(line), Phrased(line, Ph),
           WordsOf(line) \cap W = {}
    PROVE  Banded(JoinBand(s, line), W \cup WordsOf(line), Ph)
<1> DEFINE b == s[2]
           gs == Gutters(line)
           longer == [b EXCEPT !.lines = Append(@, line)]
           closed == <<IF b.lines = <<>> THEN s[1] ELSE Append(s[1], b), NewBand(line)>>
           narrowed == Narrow(b.gutter, gs)
           more == [longer EXCEPT !.gutter = narrowed, !.agreed = @ + 1]
           new == WordsOf(line)
           Good(x) == Banded(x, W \cup new, Ph)
<1>1. b \in Band(S) /\ SoundBand(b, Ph) /\ new \cap LinesWords(b.lines) = {}
  BY DEF Banded
<1>2. b.lines \in Seq(Seq(S)) /\ b.gutter \in Gap \cup {NoGutter} /\ b.agreed \in Nat
  BY <1>1 DEF Band
<1>3. gs \in SUBSET Gap /\ IsFiniteSet(gs)
  BY GuttersType
<1>4. Append(b.lines, line) \in Seq(Seq(S))
  BY <1>2, AppendProperties
<1>5. longer \in Band(S) /\ longer.lines = Append(b.lines, line) /\ longer.gutter = b.gutter
  <2>1. longer = [b EXCEPT !.lines = Append(b.lines, line)]
    OBVIOUS
  <2> QED
    BY <1>1, <1>4, <2>1 DEF Band
<1>6. ASSUME b.gutter # NoGutter
      PROVE  more \in Band(S) /\ more.lines = Append(b.lines, line) /\ more.gutter = narrowed
  <2>1. narrowed \in Gap \cup {NoGutter}
    BY <1>2, <1>3, <1>6, NarrowType
  <2>2. longer.agreed \in Nat
    BY <1>5 DEF Band
  <2>3. more = [longer EXCEPT !.gutter = narrowed, !.agreed = longer.agreed + 1]
    OBVIOUS
  <2>4. longer.agreed + 1 \in Nat
    BY <2>2
  <2> HIDE DEF longer, narrowed, more
  <2> QED
    BY <1>5, <2>1, <2>3, <2>4 DEF Band
<1>7. Good(closed)
  <2> DEFINE c == NewBand(line)
  <2>1. SoundBand(c, Ph) /\ LinesWords(c.lines) = new
    BY BandBegins
  <2> HIDE DEF c, new
  <2>2. Banded(<<IF s[2].lines = <<>> THEN s[1] ELSE Append(s[1], s[2]), c>>, W \cup LinesWords(c.lines), Ph)
    <3>1. LinesWords(c.lines) \cap W = {}
      BY <2>1 DEF new
    <3> QED
      BY <2>1, <3>1, BandedClosed
  <2> QED
    BY <2>1, <2>2 DEF c
<1>8. ASSUME NEW c \in Band(S), c.lines = Append(b.lines, line), Within(c.gutter, b.gutter, line)
      PROVE  Good(<<s[1], c>>)
  <2>1. SoundBand(c, Ph) /\ LinesWords(c.lines) = LinesWords(b.lines) \cup new
    <3>1. Unsaid(line, LinesWords(b.lines)) /\ new = WordsOf(line)
      BY <1>1 DEF Unsaid
    <3>2. b \in Band(S) /\ SoundBand(b, Ph)
      BY <1>1
    <3>3. Longer(c, b, line) /\ Within(c.gutter, b.gutter, line)
      BY <1>8 DEF Longer
    <3> HIDE DEF b, longer, closed, narrowed, more, gs, new, Good
    <3>4. Grown(c, b, line, Ph)
      BY ONLY <3>1, <3>2, <3>3, BandGrows, S \subseteq Word, line \in Seq(S), Rising(line), Phrased(line, Ph), c \in Band(S)
    <3> QED
      BY ONLY <3>1, <3>4 DEF Grown
  <2> HIDE DEF new
  <2>2. new \cap W = {}
    BY DEF new
  <2> QED
    BY <2>1, <2>2, BandedLonger DEF b
<1>9. JoinBand(s, line) =
        CASE b.gutter = NoGutter -> IF gs = {} THEN <<s[1], longer>> ELSE closed
          [] b.gutter # NoGutter /\ narrowed # NoGutter -> <<s[1], more>>
          [] b.gutter # NoGutter /\ narrowed = NoGutter ->
               IF RightEnd(line) <= b.gutter[1] \/ LeftEnd(line) >= b.gutter[2]
               THEN <<s[1], longer>> ELSE closed
  BY DEF JoinBand
<1>10. b.gutter # NoGutter => b.gutter[1] < b.gutter[2] /\ b.gutter[1] \in Nat /\ b.gutter[2] \in Nat
  BY <1>1, <1>2 DEF SoundBand, Gap
<1> HIDE DEF b, gs, longer, closed, narrowed, more, new, Good
<1>11. CASE b.gutter = NoGutter
  <2>1. JoinBand(s, line) = <<s[1], longer>> \/ JoinBand(s, line) = closed
    BY <1>9, <1>11
  <2>2. Good(<<s[1], longer>>)
    <3>1. Within(longer.gutter, b.gutter, line)
      BY <1>5, <1>11 DEF Within
    <3> QED
      BY <1>5, <1>8, <3>1
  <2> QED
    BY <1>7, <2>1, <2>2 DEF Good, new
<1>12. CASE b.gutter # NoGutter /\ narrowed # NoGutter
  <2>1. JoinBand(s, line) = <<s[1], more>>
    BY <1>9, <1>12
  <2>2. /\ narrowed[1] < narrowed[2]
        /\ b.gutter[1] <= narrowed[1] /\ narrowed[2] <= b.gutter[2]
        /\ \E h \in gs : h[1] <= narrowed[1] /\ narrowed[2] <= h[2]
    BY <1>2, <1>3, <1>12, NarrowType DEF narrowed
  <2>3. ClearOf(line, narrowed)
    <3>1. PICK h \in gs : h[1] <= narrowed[1] /\ narrowed[2] <= h[2]
      BY <2>2
    <3>2. PICK i \in 1..Len(line) - 1 :
            line[i + 1].x0 >= line[i].x1 + MinGutter /\ h = <<line[i].x1, line[i + 1].x0>>
      BY <3>1 DEF Gutters, gs
    <3>3. line[i].x1 <= narrowed[1] /\ narrowed[2] <= line[i + 1].x0
      BY <3>1, <3>2
    <3>4. line[i].x1 + MinGutter <= line[i + 1].x0
      <4>1. Len(line) \in Nat /\ i \in 1..Len(line) /\ i + 1 \in 1..Len(line)
        BY LenProperties
      <4>2. line[i] \in S /\ line[i + 1] \in S
        BY <4>1, ElementOfSeq
      <4>3. line[i].x1 \in Nat /\ line[i + 1].x0 \in Nat /\ MinGutter \in Nat
        BY <4>2, GeometryAssumption DEF Word
      <4> QED
        BY <3>2, <4>3
    <3> QED
      BY <3>3, <3>4 DEF ClearOf
  <2>4. Good(<<s[1], more>>)
    <3>1. Within(more.gutter, b.gutter, line)
      BY <1>6, <1>12, <2>2, <2>3 DEF Within
    <3> QED
      BY <1>6, <1>8, <1>12, <3>1
  <2> QED
    BY <2>1, <2>4 DEF Good, new
<1>13. CASE b.gutter # NoGutter /\ narrowed = NoGutter
  <2>1. CASE RightEnd(line) <= b.gutter[1] \/ LeftEnd(line) >= b.gutter[2]
    <3>1. JoinBand(s, line) = <<s[1], longer>>
      BY <1>9, <1>13, <2>1
    <3>2. ClearOf(line, b.gutter)
      <4>1. \A i \in 1..Len(line) : line[i].x1 <= RightEnd(line) /\ LeftEnd(line) <= line[i].x0
        BY LineEnds
      <4>2. \A i \in 1..Len(line) : line[i].x1 \in Nat /\ line[i].x0 \in Nat
        <5>1. \A i \in 1..Len(line) : line[i] \in S
          BY ElementOfSeq
        <5> QED
          BY <5>1 DEF Word
      <4>3. CASE RightEnd(line) <= b.gutter[1]
        <5>1. RightEnd(line) \in Int
          BY LineEnds
        <5>2. \A i \in 1..Len(line) : line[i].x1 <= b.gutter[1]
          BY <1>10, <1>13, <4>1, <4>2, <4>3, <5>1
        <5> QED
          BY <5>2 DEF ClearOf
      <4>4. CASE LeftEnd(line) >= b.gutter[2]
        <5>1. LeftEnd(line) \in Int
          BY LineEnds
        <5>2. \A i \in 1..Len(line) : line[i].x0 >= b.gutter[2]
          BY <1>10, <1>13, <4>1, <4>2, <4>4, <5>1
        <5> QED
          BY <5>2 DEF ClearOf
      <4> QED
        BY <2>1, <4>3, <4>4
    <3>3. Good(<<s[1], longer>>)
      <4>1. Within(longer.gutter, b.gutter, line)
        BY <1>5, <1>10, <1>13, <3>2 DEF Within
      <4> QED
        BY <1>5, <1>8, <4>1
    <3> QED
      BY <3>1, <3>3 DEF Good, new
  <2>2. CASE ~(RightEnd(line) <= b.gutter[1] \/ LeftEnd(line) >= b.gutter[2])
    <3>1. JoinBand(s, line) = closed
      BY <1>9, <1>13, <2>2
    <3> QED
      BY <1>7, <3>1 DEF Good, new
  <2> QED
    BY <2>1, <2>2
<1> QED
  BY <1>11, <1>12, <1>13

-----------------------------------------------------------------------------
(* A run of lines in bands keeps its words and its phrases                 *)

\* The words that follow one another on a page.
Phrases(p) == {uv \in p.words \X p.words : Follows(p, uv[1], uv[2])}

\* Words with all those of their heights.
Full(S, T) == S \subseteq T /\ \A u \in S, v \in T : u.top = v.top => v \in S

LEMMA PhrasesNear == ASSUME NEW p PROVE Near(Phrases(p))
<1> SUFFICES ASSUME NEW u, NEW v, <<u, v>> \in Phrases(p) PROVE v.x0 < u.x1 + MinGutter
  BY DEF Near
<1>1. Follows(p, u, v)
  BY DEF Phrases
<1> QED
  BY <1>1 DEF Follows

\* A word that follows another is the next one of its line.
LEMMA LinePhrased ==
    ASSUME NEW p, IsPage(p), NEW S, Full(S, p.words), NEW i \in 1..Len(Lines(S))
    PROVE  Phrased(Lines(S)[i], Phrases(p))
<1> DEFINE ls == Lines(S)
           line == ls[i]
           N == Len(ls)
<1>1. Laid(S) /\ S \subseteq p.words /\ S \subseteq Word
  BY LaidSome DEF Full, IsPage, Laid, Word
<1>2. /\ N \in Nat
      /\ \A j \in 1..N : ls[j] \in Seq(S)
      /\ Rising(line) /\ \A u, v \in Range(line) : Distance(u.top, v.top) <= LineTolerance
      /\ \A j, k \in 1..N : j < k => \A u \in Range(ls[j]), v \in Range(ls[k]) : u.top < v.top
      /\ UNION {Range(ls[j]) : j \in 1..N} = S
  BY <1>1, LinesHold
<1>3. \A u \in S : u.top \in Nat /\ u.x0 \in Nat
  BY <1>1 DEF Word
<1>4. i \in Nat /\ i \in 1..N
  BY <1>2
<1> HIDE DEF N, ls
<1>5. Len(line) \in Nat /\ Range(line) = {line[k] : k \in 1..Len(line)} /\ \A k \in 1..Len(line) : line[k] \in S
  <2>1. line \in Seq(S)
    BY <1>2, <1>4
  <2> HIDE DEF line
  <2> QED
    BY <2>1, Places1
<1>6. ASSUME NEW k \in 1..Len(line), NEW v, <<line[k], v>> \in Phrases(p)
      PROVE  k + 1 \in 1..Len(line) /\ line[k + 1] = v
  <2> DEFINE u == line[k]
  <2>1. /\ v \in p.words /\ u # v /\ u.top = v.top /\ u.x1 <= v.x0
        /\ \A w \in p.words \ {u, v} :
             u.x0 <= w.x0 /\ w.x0 <= v.x0 => Distance(w.top, u.top) > LineTolerance
    BY <1>6 DEF Phrases, Follows
  <2>2. u \in S /\ v \in S /\ u \in Range(line)
    BY <1>5, <2>1 DEF Full
  <2>3. PICK j \in 1..N : v \in Range(ls[j])
    BY <1>2, <2>2
  <2>4. j = i
    <3>1. u \in Range(ls[i]) /\ u.top \in Nat /\ v.top \in Nat /\ u.top = v.top
      BY <1>3, <2>1, <2>2
    <3> HIDE DEF u, line
    <3>2. ~(i < j)
      BY <1>2, <1>4, <2>3, <3>1
    <3>3. ~(j < i)
      BY <1>2, <1>4, <2>3, <3>1
    <3>4. j \in Nat
      BY <1>2
    <3> QED
      BY <1>4, <3>2, <3>3, <3>4
  <2>5. PICK m \in 1..Len(line) : v = line[m]
    BY <1>5, <2>3, <2>4
  <2>6. u.x0 <= v.x0
    <3>1. u.x0 <= u.x1 /\ u.x1 \in Nat /\ u.x0 \in Nat /\ v.x0 \in Nat
      BY <1>1, <2>2 DEF IsPage, Word
    <3> QED
      BY <2>1, <3>1
  <2>7. m # k /\ ~(m < k)
    <3>1. m < k => v.x0 < u.x0
      BY <1>2, <2>5 DEF Rising
    <3>2. v.x0 \in Nat /\ u.x0 \in Nat
      BY <1>3, <2>2
    <3> QED
      BY <2>1, <2>5, <2>6, <3>1, <3>2
  <2>8. k \in Nat /\ m \in Nat /\ k < m /\ k + 1 \in 1..Len(line)
    BY <1>5, <2>7
  <2>9. ASSUME k + 1 < m PROVE FALSE
    <3> DEFINE w == line[k + 1]
    <3>1. w \in S /\ w \in Range(line)
      BY <1>5, <2>8
    <3>2. u.x0 < w.x0 /\ w.x0 < v.x0
      BY <1>2, <2>5, <2>8, <2>9 DEF Rising
    <3>3. u.x0 \in Nat /\ w.x0 \in Nat /\ v.x0 \in Nat
      BY <1>3, <2>2, <3>1
    <3> HIDE DEF w, u
    <3>4. w # u /\ w # v /\ u.x0 <= w.x0 /\ w.x0 <= v.x0
      BY <3>2, <3>3
    <3>5. Distance(w.top, u.top) > LineTolerance
      BY <1>1, <2>1, <3>1, <3>4
    <3>6. Distance(w.top, u.top) <= LineTolerance
      BY <1>2, <2>2, <3>1
    <3>7. Distance(w.top, u.top) \in Int /\ LineTolerance \in Int
      BY <1>3, <2>2, <3>1, GeometryAssumption DEF Distance
    <3> QED
      BY <3>5, <3>6, <3>7
  <2>10. m = k + 1
    BY <2>8, <2>9
  <2> QED
    BY <2>5, <2>8, <2>10
<1> QED
  BY <1>6 DEF Phrased, line, ls

\* Closing the open band leaves every band as it was.
LEMMA AllBanded ==
    ASSUME NEW S, NEW s \in Seq(Band(S)) \X Band(S), NEW W, NEW Ph, Banded(s, W, Ph)
    PROVE  Banded(<<Bands(s), NoBand>>, W, Ph)
<1>1. NoBand.lines = <<>> /\ NoBand.gutter = NoGutter
  BY DEF NoBand
<1>2. Len(<<>>) = 0
  OBVIOUS
<1>3. SoundBand(NoBand, Ph) /\ LinesWords(NoBand.lines) = {}
  BY <1>1, <1>2, NoWords DEF SoundBand
<1>4. LinesWords(NoBand.lines) \cap W = {} /\ W \cup LinesWords(NoBand.lines) = W
  BY <1>3
<1> HIDE DEF NoBand
<1>5. Banded(<<IF s[2].lines = <<>> THEN s[1] ELSE Append(s[1], s[2]), NoBand>>,
             W \cup LinesWords(NoBand.lines), Ph)
  BY <1>3, <1>4, BandedClosed
<1> QED
  BY <1>4, <1>5 DEF Bands

\* The bands of some words are written with these words, and their phrases whole.
LEMMA SegmentsNeat ==
    ASSUME NEW p, IsPage(p), NEW S, Full(S, p.words)
    PROVE  NeatParts(Segments(S), Phrases(p)) /\ SpokenIn(Segments(S)) = S
<1> DEFINE Ph == Phrases(p)
           ls == Lines(S)
           N == Len(ls)
           said(n) == UNION {WordsOf(ls[i]) : i \in 1..n}
           BB == Seq(Band(S)) \X Band(S)
<1>1. Laid(S) /\ S \subseteq Word /\ \A w \in S : w.x0 <= w.x1
  BY LaidSome DEF Full, IsPage, Laid, Word
<1>2. /\ N \in Nat
      /\ \A j \in 1..N : ls[j] \in Seq(S) /\ Rising(ls[j])
      /\ \A j, k \in 1..N : j < k => \A u \in Range(ls[j]), v \in Range(ls[k]) : u.top < v.top
      /\ UNION {Range(ls[j]) : j \in 1..N} = S
  BY <1>1, LinesHold
<1>3. \A j \in 1..N : Phrased(ls[j], Ph)
  BY LinePhrased
<1>4. PICK f \in [0..N -> BB] :
        /\ f[0] = <<<<>>, NoBand>>
        /\ \A n \in 1..N : f[n] = JoinBand(f[n - 1], ls[n])
        /\ Segments(S) = [i \in DOMAIN Bands(f[N]) |-> Rendered(Bands(f[N])[i])]
  BY <1>1, SegmentsRun
<1>5. Near(Ph)
  BY PhrasesNear
<1> HIDE DEF N, ls, Ph
<1>6. \A j \in 1..N : WordsOf(ls[j]) = Range(ls[j])
  <2> SUFFICES ASSUME NEW j \in 1..N PROVE WordsOf(ls[j]) = Range(ls[j])
    OBVIOUS
  <2> DEFINE line == ls[j]
  <2>1. line \in Seq(S)
    BY <1>2
  <2> HIDE DEF line
  <2>2. Range(line) = {line[i] : i \in 1..Len(line)}
    BY <2>1, Places1
  <2> QED
    BY <2>2 DEF line, WordsOf
<1>7. \A u \in S : u.top \in Nat
  BY <1>1 DEF Word
<1>8. said(0) = {} /\ said(N) = S
  BY <1>2, <1>6
<1>9. \A n \in 1..N : said(n) = said(n - 1) \cup WordsOf(ls[n])
  <2> SUFFICES ASSUME NEW n \in 1..N PROVE said(n) = said(n - 1) \cup WordsOf(ls[n])
    OBVIOUS
  <2>1. \A i : i \in 1..n <=> i \in 1..n - 1 \/ i = n
    BY <1>2
  <2> QED
    BY <2>1
<1>10. \A n \in 1..N : WordsOf(ls[n]) \cap said(n - 1) = {}
  <2> SUFFICES ASSUME NEW n \in 1..N, NEW i \in 1..n - 1, NEW w \in WordsOf(ls[n]), w \in WordsOf(ls[i])
               PROVE  FALSE
    OBVIOUS
  <2>1. i \in 1..N /\ i < n
    BY <1>2
  <2>2. w \in S /\ w \in Range(ls[i]) /\ w \in Range(ls[n])
    BY <1>2, <1>6, <2>1
  <2>3. w.top < w.top
    BY <1>2, <2>1, <2>2
  <2> QED
    BY <1>7, <2>2, <2>3
<1> HIDE DEF said
<1> DEFINE P == {n \in 0..N : Banded(f[n], said(n), Ph)}
<1>11. 0 \in P
  <2>1. Len(<<>>) = 0
    OBVIOUS
  <2>2. SoundBand(NoBand, Ph) /\ LinesWords(NoBand.lines) = {}
    BY <2>1, NoWords DEF SoundBand, NoBand
  <2>3. f[0][1] = <<>> /\ f[0][2] = NoBand
    BY <1>4
  <2>4. Banded(f[0], {}, Ph)
    BY <2>1, <2>2, <2>3 DEF Banded
  <2> QED
    BY <1>2, <1>8, <2>4
<1>12. ASSUME NEW n \in 1..N, n - 1 \in P PROVE n \in P
  <2>1. n - 1 \in 0..N /\ n \in 0..N
    BY <1>2
  <2>2. f[n - 1] \in BB /\ Banded(f[n - 1], said(n - 1), Ph)
    BY <1>12, <2>1
  <2>3. /\ ls[n] \in Seq(S) /\ Rising(ls[n]) /\ Phrased(ls[n], Ph)
        /\ WordsOf(ls[n]) \cap said(n - 1) = {}
    BY <1>2, <1>3, <1>10
  <2> DEFINE x == f[n - 1]
             W == said(n - 1)
             line == ls[n]
  <2>4. x \in Seq(Band(S)) \X Band(S) /\ Banded(x, W, Ph) /\ line \in Seq(S)
        /\ Rising(line) /\ Phrased(line, Ph) /\ WordsOf(line) \cap W = {}
    BY <2>2, <2>3
  <2> HIDE DEF x, W, line
  <2>5. Banded(JoinBand(x, line), W \cup WordsOf(line), Ph)
    BY <1>1, <2>4, BandJoined
  <2>6. Banded(f[n], said(n), Ph)
    BY <1>4, <1>9, <2>5 DEF x, W, line
  <2> QED
    BY <2>1, <2>6
<1>13. Banded(f[N], S, Ph) /\ f[N] \in BB
  <2> HIDE DEF P
  <2>1. \A n \in 0..N : n \in P
    BY <1>2, <1>11, <1>12, Induction
  <2>2. N \in 0..N
    BY <1>2
  <2> QED
    BY <1>4, <1>8, <2>1, <2>2 DEF P
<1> DEFINE bs == Bands(f[N])
           r == <<bs, NoBand>>
           n == Len(bs)
           ps == Segments(S)
<1>14. bs \in Seq(Band(S)) /\ Banded(r, S, Ph)
  <2> DEFINE s == f[N]
  <2>1. s \in Seq(Band(S)) \X Band(S) /\ Banded(s, S, Ph)
    BY <1>13
  <2> HIDE DEF s
  <2>2. Banded(<<Bands(s), NoBand>>, S, Ph) /\ Bands(s) \in Seq(Band(S))
    BY <2>1, AllBanded, BandsType
  <2> QED
    BY <2>2 DEF s
<1>15. ps = [i \in DOMAIN bs |-> Rendered(bs[i])]
  BY <1>4
<1>16. r[1] = bs /\ r[2] = NoBand
  OBVIOUS
<1>17. LinesWords(NoBand.lines) = {}
  BY NoWords DEF NoBand
<1> HIDE DEF bs, r, ps
<1>18. /\ \A i \in 1..n : SoundBand(bs[i], Ph)
       /\ \A i, j \in 1..n : i # j => LinesWords(bs[i].lines) \cap LinesWords(bs[j].lines) = {}
       /\ S = UNION {LinesWords(bs[i].lines) : i \in 1..n}
  BY <1>14, <1>16, <1>17 DEF Banded
<1>19. n \in Nat /\ DOMAIN bs = 1..n /\ \A i \in 1..n : bs[i] \in Band(S)
  <2> DEFINE B == Band(S)
  <2>1. bs \in Seq(B)
    BY <1>14
  <2> HIDE DEF B
  <2>2. n \in Nat /\ DOMAIN bs = 1..n /\ \A i \in 1..n : bs[i] \in B
    BY <2>1, Places1
  <2> QED
    BY <2>2 DEF B
<1> HIDE DEF n
<1>20. Len(ps) = n /\ \A i \in 1..n : ps[i] = Rendered(bs[i])
  BY <1>15, <1>19
<1>21. \A i \in 1..n : Neat(ps[i], Ph) /\ Spoken(ps[i]) = LinesWords(bs[i].lines)
  <2> SUFFICES ASSUME NEW i \in 1..n PROVE Neat(ps[i], Ph) /\ Spoken(ps[i]) = LinesWords(bs[i].lines)
    OBVIOUS
  <2> DEFINE b == bs[i]
  <2>1. b \in Band(S) /\ SoundBand(b, Ph)
    BY <1>18, <1>19
  <2> HIDE DEF b
  <2>2. Neat(Rendered(b), Ph) /\ Spoken(Rendered(b)) = LinesWords(b.lines)
    BY <1>1, <1>5, <2>1, RenderedNeat
  <2> QED
    BY <1>20, <2>2 DEF b
<1>22. NeatParts(ps, Ph)
  BY <1>18, <1>20, <1>21 DEF NeatParts
<1>23. SpokenIn(ps) = S
  <2>1. SpokenIn(ps) = UNION {Spoken(ps[i]) : i \in 1..n}
    BY <1>20 DEF SpokenIn
  <2>2. UNION {Spoken(ps[i]) : i \in 1..n} = UNION {LinesWords(bs[i].lines) : i \in 1..n}
    BY <1>21
  <2> QED
    BY ONLY <1>18, <2>1, <2>2
<1> QED
  BY <1>22, <1>23 DEF ps, Ph

-----------------------------------------------------------------------------
(* A page is written with the words that its tables leave, each of them once *)

Inside(t, w) == t.top <= w.top /\ w.top < t.bottom

\* The words above c that the first n tables leave.
Spared(p, n, c) ==
    {w \in p.words : w.top < c /\ \A i \in 1..n : ~Inside(TopDown(p.tables)[i], w)}

\* c is how far down the first n tables reach.
Reach(p, n, c) ==
    /\ \A i \in 1..n : TopDown(p.tables)[i].bottom <= c
    /\ c = 0 \/ \E i \in 1..n : TopDown(p.tables)[i].bottom = c

\* x is what the page comes to when n tables are taken down.
TakenDown(p, n, x) ==
    /\ NeatParts(x[1], Phrases(p)) /\ SpokenIn(x[1]) = Spared(p, n, x[2])
    /\ Reach(p, n, x[2])

LEMMA TableNeat ==
    ASSUME NEW p, IsPage(p), NEW t \in p.tables, NEW Ph
    PROVE  NeatParts(<<TableLines(t)>>, Ph) /\ SpokenIn(<<TableLines(t)>>) = {}
<1> DEFINE L == TableLines(t)
           ps == <<L>>
<1>1. \A l \in 1..Len(L) : L[l].words = <<>>
  BY TableLinesType
<1>2. Len(<<>>) = 0
  OBVIOUS
<1> HIDE DEF L
<1>3. \A l \in 1..Len(L) : Len(L[l].words) = 0 /\ 1..Len(L[l].words) = {}
  BY <1>1, <1>2
<1>4. Neat(L, Ph) /\ Spoken(L) = {}
  BY <1>3 DEF Neat, OncePlaced, Phrased, Spoken, WordsOf
<1>5. Len(ps) = 1 /\ ps[1] = L /\ 1..1 = {1}
  OBVIOUS
<1> HIDE DEF ps
<1> QED
  BY <1>4, <1>5 DEF NeatParts, SpokenIn, ps, L

\* The words spared when one more table is taken down.
LEMMA SparedMore ==
    ASSUME NEW p, IsPage(p), NEW n \in 1..Len(TopDown(p.tables)), NEW c \in Nat,
           Reach(p, n - 1, c)
    PROVE  LET t == TopDown(p.tables)[n]
               m == Max({c, t.bottom})
               above == Above(p.words, c, t)
           IN  /\ Spared(p, n, m) = Spared(p, n - 1, c) \cup above
               /\ Spared(p, n - 1, c) \cap above = {} /\ Full(above, p.words)
               /\ Reach(p, n, m)
<1> DEFINE down == TopDown(p.tables)
           N == Len(down)
           t == down[n]
           m == Max({c, t.bottom})
           above == Above(p.words, c, t)
<1>1. N \in Nat /\ (\A i \in 1..N : down[i] \in p.tables)
      /\ \A i, j \in 1..N : i < j => down[i].top < down[j].top
  BY TablesListed
<1>2. \A i \in 1..N : down[i].top \in Nat /\ down[i].bottom \in Nat /\ down[i].top <= down[i].bottom
  BY <1>1 DEF IsPage
<1>3. \A w \in p.words : w.top \in Nat
  BY DEF IsPage
<1> HIDE DEF N, down
<1>4. n \in Nat /\ n \in 1..N /\ t.top \in Nat /\ t.bottom \in Nat /\ t.top <= t.bottom
  BY <1>1, <1>2 DEF N, down
<1> DEFINE top == t.top
           bottom == t.bottom
<1>5. m \in {c, bottom} /\ m \in Nat /\ c <= m /\ bottom <= m
  BY <1>4, MaxOfTwo
<1>6. \A i \in 1..n : i = n \/ i \in 1..n - 1
  BY <1>4
<1>7. \A i \in 1..n - 1 : i \in 1..n /\ i \in 1..N /\ i < n
  BY <1>1, <1>4
<1>8. n \in 1..n
  BY <1>4
<1>9. \A i \in 1..n : down[i].bottom <= m
  <2>1. \A i \in 1..n - 1 : down[i].bottom <= c /\ down[i].bottom \in Nat
    BY <1>2, <1>7 DEF down, Reach
  <2>2. \A i \in 1..n - 1 : down[i].bottom <= m
    BY <1>5, <2>1
  <2> QED
    BY <1>5, <1>6, <2>2
<1>10. m = 0 \/ \E i \in 1..n : down[i].bottom = m
  BY <1>5, <1>7, <1>8 DEF down, Reach
<1>11. top \in Nat /\ bottom \in Nat /\ top <= bottom
  BY <1>4
<1>12. \A w : Inside(t, w) <=> top <= w.top /\ w.top < bottom
  BY DEF Inside
<1>13. \A i \in 1..n - 1 : down[i].top < top /\ down[i].bottom <= c
                           /\ down[i].top \in Nat /\ down[i].bottom \in Nat
  BY <1>1, <1>2, <1>4, <1>7 DEF down, Reach
<1>14. c = 0 \/ \E i \in 1..n - 1 : down[i].bottom = c
  BY DEF down, Reach
<1>15. above = IF top < c THEN {} ELSE {w \in p.words : c <= w.top /\ w.top < top}
  BY DEF Above
<1>16. \A k, d : Spared(p, k, d) = {w \in p.words : w.top < d /\ \A i \in 1..k : ~Inside(down[i], w)}
  BY DEF Spared, down
<1> HIDE DEF top, bottom, m, above
<1>17. ASSUME NEW w \in p.words
       PROVE  (w \in Spared(p, n, m)) <=> (w \in Spared(p, n - 1, c) \/ w \in above)
  <2> DEFINE y == w.top
             Unheld == \A i \in 1..n - 1 : ~Inside(down[i], w)
  <2>1. y \in Nat
    BY <1>3
  <2>2. w \in Spared(p, n, m) <=> y < m /\ Unheld /\ ~(top <= y /\ y < bottom)
    <3>1. (\A i \in 1..n : ~Inside(down[i], w)) <=> Unheld /\ ~Inside(t, w)
      BY <1>6, <1>7, <1>8
    <3> QED
      BY <1>12, <1>16, <3>1
  <2>3. w \in Spared(p, n - 1, c) <=> y < c /\ Unheld
    BY <1>16
  <2>4. w \in above <=> ~(top < c) /\ c <= y /\ y < top
    BY <1>15
  <2>5. c <= y => Unheld
    <3>1. c <= y => \A i \in 1..n - 1 : ~(y < down[i].bottom)
      BY <1>13, <2>1
    <3> QED
      BY <3>1 DEF Inside
  <2>6. y < c /\ Unheld => ~(top <= y)
    <3> SUFFICES ASSUME y < c, top <= y PROVE ~Unheld
      OBVIOUS
    <3>1. PICK i \in 1..n - 1 : down[i].bottom = c
      BY <1>14, <2>1
    <3>2. down[i].top <= y /\ y < down[i].bottom
      BY <1>11, <1>13, <2>1, <3>1
    <3> QED
      BY <3>2 DEF Inside
  <2> HIDE DEF y, Unheld
  <2> QED
    BY <1>5, <1>11, <2>1, <2>2, <2>3, <2>4, <2>5, <2>6
<1>18. Spared(p, n, m) \subseteq p.words /\ Spared(p, n - 1, c) \subseteq p.words /\ above \subseteq p.words
  BY <1>15, <1>16
<1>19. Spared(p, n, m) = Spared(p, n - 1, c) \cup above
  BY <1>17, <1>18
<1>20. Spared(p, n - 1, c) \cap above = {}
  <2> SUFFICES ASSUME NEW w \in p.words, w.top < c, c <= w.top PROVE FALSE
    BY <1>15, <1>16
  <2> QED
    BY <1>3
<1>21. Full(above, p.words)
  BY <1>15, <1>18 DEF Full
<1>22. Reach(p, n, m)
  BY <1>9, <1>10 DEF Reach, down
<1> QED
  BY <1>19, <1>20, <1>21, <1>22 DEF down, above, m

LEMMA TakenNext ==
    ASSUME NEW p, IsPage(p), NEW n \in 1..Len(TopDown(p.tables)),
           NEW x \in PageParts(p.words) \X Nat, TakenDown(p, n - 1, x)
    PROVE  TakenDown(p, n, TakeTableDown(p.words, x, TopDown(p.tables)[n]))
<1> DEFINE Ph == Phrases(p)
           t == TopDown(p.tables)[n]
           c == x[2]
           above == Above(p.words, c, t)
           m == Max({c, t.bottom})
           parts == x[1]
           segments == Segments(above)
           table == <<TableLines(t)>>
           y == TakeTableDown(p.words, x, t)
           A == Seq(PageLine(p.words))
<1>1. t \in p.tables
  BY TablesListed
<1>2. /\ y[1] = parts \o segments \o table /\ y[2] = m
      /\ parts \in Seq(A) /\ segments \in Seq(A) /\ table \in Seq(A) /\ c \in Nat
  <2>1. parts \in Seq(A) /\ c \in Nat
    BY DEF PageParts
  <2>2. y[1] = x[1] \o segments \o table /\ y[2] = m
        /\ segments \in PageParts(p.words) /\ table \in PageParts(p.words)
    <3>1. /\ TakeTableDown(p.words, x, t)[1] = x[1] \o Segments(Above(p.words, x[2], t)) \o <<TableLines(t)>>
          /\ TakeTableDown(p.words, x, t)[2] = Max({x[2], t.bottom})
          /\ Segments(Above(p.words, x[2], t)) \in PageParts(p.words)
          /\ <<TableLines(t)>> \in PageParts(p.words)
      <4> HIDE DEF t
      <4> DEFINE X == x[1] \o Segments(Above(p.words, x[2], t)) \o <<TableLines(t)>>
                 Y == Max({x[2], t.bottom})
      <4>1. TakeTableDown(p.words, x, t) = <<X, Y>>
        BY DEF TakeTableDown, Above
      <4> HIDE DEF X, Y
      <4>2. TakeTableDown(p.words, x, t)[1] = X /\ TakeTableDown(p.words, x, t)[2] = Y
        BY ONLY <4>1
      <4>3. Segments(Above(p.words, x[2], t)) \in PageParts(p.words)
        BY ONLY <1>1, TakeType, IsPage(p), x \in PageParts(p.words) \X Nat
      <4>4. <<TableLines(t)>> \in PageParts(p.words)
        BY ONLY <1>1, TakeType, IsPage(p), x \in PageParts(p.words) \X Nat
      <4> QED
        BY <4>2, <4>3, <4>4 DEF X, Y
    <3> HIDE DEF t
    <3> QED
      BY ONLY <3>1
  <2> QED
    BY <2>1, <2>2 DEF PageParts
<1>3. NeatParts(parts, Ph) /\ SpokenIn(parts) = Spared(p, n - 1, c) /\ Reach(p, n - 1, c)
  BY DEF TakenDown
<1>4. /\ Spared(p, n, m) = Spared(p, n - 1, c) \cup above
      /\ Spared(p, n - 1, c) \cap above = {} /\ Full(above, p.words)
      /\ Reach(p, n, m)
  <2> HIDE DEF c
  <2>1. c \in Nat /\ Reach(p, n - 1, c)
    BY <1>2, <1>3
  <2> QED
    BY <2>1, SparedMore
<1>5. NeatParts(table, Ph) /\ SpokenIn(table) = {}
  BY <1>1, TableNeat
<1>6. NeatParts(segments, Ph) /\ SpokenIn(segments) = above
  BY <1>4, SegmentsNeat
<1> HIDE DEF Ph, t, c, above, m, parts, segments, table, y, A
<1>7. NeatParts(parts \o segments, Ph) /\ SpokenIn(parts \o segments) = Spared(p, n, m)
      /\ parts \o segments \in Seq(A)
  BY <1>2, <1>3, <1>4, <1>6, ConcatNeat, ConcatProperties
<1> DEFINE both == parts \o segments
<1>8. both \in Seq(A) /\ NeatParts(both, Ph) /\ SpokenIn(both) \cap SpokenIn(table) = {}
  BY <1>5, <1>7
<1>9. y[1] = both \o table
  BY <1>2
<1> HIDE DEF both
<1>10. NeatParts(both \o table, Ph) /\ SpokenIn(both \o table) = SpokenIn(both) \cup SpokenIn(table)
  <2>1. NeatParts(table, Ph) /\ table \in Seq(A)
    BY <1>2, <1>5
  <2> QED
    BY ONLY <1>8, <2>1, ConcatNeat
<1>11. NeatParts(y[1], Ph) /\ SpokenIn(y[1]) = Spared(p, n, y[2])
  BY <1>2, <1>5, <1>7, <1>9, <1>10 DEF both
<1>12. TakenDown(p, n, y)
  BY <1>2, <1>4, <1>11 DEF TakenDown, Ph
<1> QED
  BY <1>12 DEF y, t

LEMMA PageNeat ==
    ASSUME NEW p, IsPage(p)
    PROVE  /\ Neat(PageMarkdown(p.words, p.tables), Phrases(p))
           /\ Spoken(PageMarkdown(p.words, p.tables)) = {w \in p.words : ~AtTableHeight(p, w)}
<1> DEFINE S == p.words
           Ph == Phrases(p)
           down == TopDown(p.tables)
           N == Len(down)
           A == Seq(PageLine(S))
<1>1. /\ N \in Nat /\ \A i \in 1..N : down[i] \in p.tables
      /\ \A t \in p.tables : \E i \in 1..N : down[i] = t
  BY TablesListed
<1>2. PICK f \in [0..N -> PageParts(S) \X Nat] :
        /\ f[0] = <<<<>>, 0>>
        /\ \A n \in 1..N : f[n] = TakeTableDown(S, f[n - 1], down[n])
        /\ PageMarkdown(S, p.tables) = Apart(f[N][1] \o Segments({w \in S : w.top >= f[N][2]}))
  BY PageRun
<1>3. \A w \in S : w.top \in Nat
  BY DEF IsPage
<1> HIDE DEF N
<1> DEFINE P == {n \in 0..N : TakenDown(p, n, f[n])}
<1>4. 0 \in P
  <2>1. f[0][1] = <<>> /\ f[0][2] = 0 /\ Len(<<>>) = 0 /\ 1..0 = {}
    BY <1>2
  <2>2. NeatParts(f[0][1], Ph) /\ SpokenIn(f[0][1]) = {}
    BY <2>1 DEF NeatParts, SpokenIn
  <2>3. Spared(p, 0, 0) = {}
    BY <1>3 DEF Spared
  <2>4. TakenDown(p, 0, f[0])
    BY <2>1, <2>2, <2>3 DEF TakenDown, Reach
  <2> QED
    BY <1>1, <2>4
<1>5. ASSUME NEW n \in 1..N, n - 1 \in P PROVE n \in P
  <2>1. n - 1 \in 0..N /\ n \in 0..N
    BY <1>1
  <2> DEFINE x == f[n - 1]
  <2>2. x \in PageParts(p.words) \X Nat /\ TakenDown(p, n - 1, x)
    BY <1>2, <1>5, <2>1
  <2>3. f[n] = TakeTableDown(p.words, x, TopDown(p.tables)[n])
    BY <1>2
  <2> HIDE DEF x, down
  <2>4. TakenDown(p, n, TakeTableDown(p.words, x, TopDown(p.tables)[n]))
    BY <2>2, TakenNext DEF N, down
  <2> QED
    BY <2>1, <2>3, <2>4
<1>6. TakenDown(p, N, f[N]) /\ f[N] \in PageParts(S) \X Nat
  <2> HIDE DEF P
  <2>1. \A n \in 0..N : n \in P
    BY <1>1, <1>4, <1>5, Induction
  <2>2. N \in 0..N
    BY <1>1
  <2> QED
    BY <1>2, <2>1, <2>2 DEF P
<1> DEFINE parts == f[N][1]
           c == f[N][2]
           below == {w \in S : w.top >= c}
           segments == Segments(below)
           ps == parts \o segments
<1>7. parts \in Seq(A) /\ c \in Nat
  BY <1>6 DEF PageParts
<1>8. /\ NeatParts(parts, Ph) /\ SpokenIn(parts) = Spared(p, N, c)
      /\ \A i \in 1..N : down[i].bottom <= c
  BY <1>6 DEF TakenDown, Reach
<1>9. PageMarkdown(S, p.tables) = Apart(ps)
  BY <1>2
<1> HIDE DEF parts, c
<1>10. Full(below, p.words) /\ below \in SUBSET S
  BY DEF Full
<1> HIDE DEF below
<1>11. NeatParts(segments, Ph) /\ SpokenIn(segments) = below
  BY <1>10, SegmentsNeat
<1>12. segments \in Seq(A)
  <2>1. Laid(S)
    BY DEF IsPage, Laid, Word
  <2> QED
    BY <1>10, <2>1, SegmentsPart DEF PageParts
<1>13. Spared(p, N, c) \cap below = {}
  <2> SUFFICES ASSUME NEW w \in S, w.top < c, w.top >= c PROVE FALSE
    BY DEF Spared, below
  <2> QED
    BY <1>3, <1>7
<1>14. Spared(p, N, c) \cup below = {w \in S : ~AtTableHeight(p, w)}
  <2>1. ASSUME NEW w \in S
        PROVE  ~AtTableHeight(p, w) <=> \A i \in 1..N : ~Inside(down[i], w)
    BY <1>1 DEF AtTableHeight, Inside
  <2>2. ASSUME NEW w \in S, w.top >= c PROVE \A i \in 1..N : ~Inside(down[i], w)
    <3> SUFFICES ASSUME NEW i \in 1..N, w.top < down[i].bottom PROVE FALSE
      BY DEF Inside
    <3>1. down[i].bottom <= c /\ down[i].bottom \in Nat
      BY <1>1, <1>8 DEF IsPage
    <3> QED
      BY <1>3, <1>7, <2>2, <3>1
  <2>3. \A w \in S : w.top < c \/ w.top >= c
    BY <1>3, <1>7
  <2> HIDE DEF down
  <2>4. Spared(p, N, c) = {w \in S : w.top < c /\ \A i \in 1..N : ~Inside(down[i], w)}
    BY DEF Spared, down
  <2> QED
    BY <2>1, <2>2, <2>3, <2>4 DEF below
<1> HIDE DEF segments, ps, A
<1>15. ps \in Seq(A) /\ NeatParts(ps, Ph) /\ SpokenIn(ps) = {w \in S : ~AtTableHeight(p, w)}
  <2>1. ps = parts \o segments
    BY DEF ps
  <2>2. SpokenIn(parts) \cap SpokenIn(segments) = {}
    BY <1>8, <1>11, <1>13
  <2> HIDE DEF Ph, down
  <2>3. NeatParts(parts \o segments, Ph) /\ SpokenIn(parts \o segments) = SpokenIn(parts) \cup SpokenIn(segments)
    BY ONLY <1>7, <1>8, <1>11, <1>12, <2>2, ConcatNeat
  <2>4. parts \o segments \in Seq(A)
    BY <1>7, <1>12, ConcatProperties
  <2> QED
    BY <1>8, <1>11, <1>14, <2>1, <2>3, <2>4
<1>16. Neat(Apart(ps), Ph) /\ Spoken(Apart(ps)) = SpokenIn(ps)
  BY <1>15, ApartNeat DEF A, PageParts
<1> QED
  BY <1>9, <1>15, <1>16

-----------------------------------------------------------------------------
(* A converted document is its pages, one after the other                  *)

PageLines(i) == PageMarkdown(entry.pages[i].words, entry.pages[i].tables)

LEMMA CountedOnce ==
    ASSUME NEW i \in Nat, NEW g, DOMAIN g = 1..i, g = [j \in 1..i |-> g[j]],
           \A j, k \in 1..i : g[j] = g[k] => j = k
    PROVE  Cardinality({g[j] : j \in 1..i}) = i
<1> DEFINE I == 1..i
           T == {g[j] : j \in I}
<1>1. IsFiniteSet(I) /\ Cardinality(I) = i
  <2>1. \A a, b \in Int : IsFiniteSet(a..b) /\ Cardinality(a..b) = IF a > b THEN 0 ELSE b - a + 1
    BY FS_Interval
  <2>2. 1 \in Int /\ i \in Int
    OBVIOUS
  <2>3. IsFiniteSet(1..i) /\ Cardinality(1..i) = IF 1 > i THEN 0 ELSE i - 1 + 1
    BY ONLY <2>1, <2>2
  <2> QED
    BY <2>3
<1>2. g \in [I -> T] /\ \A j, k \in I : g[j] = g[k] => j = k
  OBVIOUS
<1>3. \A t \in T : \E j \in I : g[j] = t
  OBVIOUS
<1> HIDE DEF I, T
<1>4. g \in Bijection(I, T)
  BY <1>2, <1>3 DEF Bijection, Injection, Surjection, IsInjective
<1>5. ExistsBijection(I, T)
  BY <1>4 DEF ExistsBijection
<1>6. Cardinality(T) = Cardinality(I)
  BY <1>1, <1>5, FS_Bijection
<1> QED
  BY <1>1, <1>6 DEF T, I

\* A printed line has its words, and is no page marker.
LEMMA PrintedLine ==
    ASSUME NEW S, NEW l \in PageLine(S)
    PROVE  Printed(l).words = l.words /\ Printed(l).kind # "page"
<1>1. Printed(l).kind = l.kind /\ Printed(l).words = l.words
  BY DEF Printed
<1>2. l.kind # "page"
  BY DEF PageLine
<1> QED
  BY <1>1, <1>2

LEMMA PagesConverted ==
    ASSUME IsEntry(entry)
    PROVE  /\ Len(entry.pages) \in Nat /\ DOMAIN entry.pages = 1..Len(entry.pages)
           /\ \A i \in 1..Len(entry.pages) :
                /\ IsPage(entry.pages[i])
                /\ PageLines(i) \in Seq(PageLine(entry.pages[i].words))
                /\ Len(PageLines(i)) \in Nat
                /\ Len(ConvertedPages[i]) = Len(PageLines(i)) + 1
                /\ ConvertedPages[i][1] = PageMarker
                /\ \A k \in 1..Len(PageLines(i)) : ConvertedPages[i][k + 1] = Printed(PageLines(i)[k])
           /\ Len(ConvertedPages) = Len(entry.pages)
           /\ \E A : ConvertedPages \in Seq(Seq(A))
<1> DEFINE pages == entry.pages
           n == Len(pages)
           printed(i) == [k \in DOMAIN PageLines(i) |-> Printed(PageLines(i)[k])]
           s(i) == <<PageMarker>> \o printed(i)
           A == UNION {Range(s(i)) : i \in 1..n}
<1>1. pages \in Seq(Range(pages)) /\ \A p \in Range(pages) : IsPage(p)
  BY DEF IsEntry
<1>2. n \in Nat /\ DOMAIN pages = 1..n /\ \A i \in 1..n : IsPage(pages[i])
  BY <1>1, Places1
<1>3. ConvertedPages = [i \in 1..n |-> s(i)]
  BY <1>2 DEF ConvertedPages, PageLines
<1> HIDE DEF n
<1>4. ASSUME NEW i \in 1..n
      PROVE  /\ PageLines(i) \in Seq(PageLine(pages[i].words)) /\ Len(PageLines(i)) \in Nat
             /\ Len(s(i)) = Len(PageLines(i)) + 1 /\ s(i)[1] = PageMarker
             /\ \A k \in 1..Len(PageLines(i)) : s(i)[k + 1] = Printed(PageLines(i)[k])
             /\ s(i) \in Seq(Range(s(i)))
  <2> DEFINE L == PageLines(i)
             q == printed(i)
             one == <<PageMarker>>
             X == {PageMarker} \cup Range(q)
  <2>1. L \in Seq(PageLine(pages[i].words))
    BY <1>2, PageMarkdownType DEF PageLines
  <2> HIDE DEF L
  <2>2. Len(L) \in Nat /\ DOMAIN L = 1..Len(L)
    BY <2>1, Places1
  <2>3. q = [k \in 1..Len(L) |-> Printed(L[k])]
    BY <2>2 DEF L
  <2>4. Len(q) = Len(L) /\ q \in Seq(Range(q)) /\ \A k \in 1..Len(L) : q[k] = Printed(L[k])
    <3>1. DOMAIN q = 1..Len(L) /\ q \in [1..Len(L) -> Range(q)]
      BY <2>3 DEF Range
    <3> QED
      BY <2>2, <2>3, <3>1
  <2>5. one \in Seq(X) /\ Len(one) = 1 /\ one[1] = PageMarker
    OBVIOUS
  <2>6. q \in Seq(X)
    <3>1. Range(q) \subseteq X
      OBVIOUS
    <3> HIDE DEF X, q
    <3> QED
      BY <2>4, <3>1, SeqMonotonic
  <2> HIDE DEF q, one, X, printed
  <2>7. s(i) = one \o q
    BY DEF one, q
  <2> HIDE DEF s
  <2>8. /\ s(i) \in Seq(X) /\ Len(s(i)) = 1 + Len(L)
        /\ \A k \in 1..1 + Len(L) : s(i)[k] = IF k <= 1 THEN one[k] ELSE q[k - 1]
    BY <2>4, <2>5, <2>6, <2>7, ConcatProperties
  <2>9. s(i)[1] = PageMarker /\ \A k \in 1..Len(L) : s(i)[k + 1] = Printed(L[k])
    <3>1. 1 \in 1..1 + Len(L) /\ \A k \in 1..Len(L) : k + 1 \in 1..1 + Len(L) /\ ~(k + 1 <= 1) /\ (k + 1) - 1 = k
      BY <2>2
    <3> QED
      BY <2>4, <2>5, <2>8, <3>1
  <2>10. s(i) \in Seq(Range(s(i)))
    <3>1. DOMAIN s(i) = 1..1 + Len(L)
      BY <2>8, <2>2, Places1
    <3>2. s(i) \in [1..1 + Len(L) -> Range(s(i))]
      BY <2>8, <3>1 DEF Range
    <3> QED
      BY <2>2, <3>2
  <2> QED
    BY <2>1, <2>2, <2>8, <2>9, <2>10 DEF L
<1> HIDE DEF s
<1>5. ConvertedPages \in Seq(Seq(A))
  <2>1. \A i \in 1..n : s(i) \in Seq(A)
    <3> SUFFICES ASSUME NEW i \in 1..n PROVE s(i) \in Seq(A)
      OBVIOUS
    <3>1. Range(s(i)) \subseteq A
      OBVIOUS
    <3> HIDE DEF A
    <3> QED
      BY <1>4, <3>1, SeqMonotonic
  <2> HIDE DEF A
  <2>2. ConvertedPages \in [1..n -> Seq(A)]
    BY <1>3, <2>1
  <2> QED
    BY <1>2, <2>2
<1>6. Len(ConvertedPages) = n /\ \A i \in 1..n : ConvertedPages[i] = s(i)
  BY <1>2, <1>3
<1> QED
  BY <1>2, <1>4, <1>5, <1>6 DEF n

\* Where each page begins: from[i - 1] lines are before it.
PagesFrom(from) ==
    /\ \A i \in 1..Len(entry.pages) : \A k \in 0..Len(PageLines(i)) :
         /\ from[i - 1] + 1 + k \in DOMAIN doc /\ PageNumber(from[i - 1] + 1 + k) = i
         /\ IF k = 0 THEN doc[from[i - 1] + 1 + k] = PageMarker
            ELSE doc[from[i - 1] + 1 + k] = Printed(PageLines(i)[k])
    /\ \A l \in DOMAIN doc : \E i \in 1..Len(entry.pages) : \E k \in 0..Len(PageLines(i)) :
         l = from[i - 1] + 1 + k

LEMMA PagesNumbered ==
    ASSUME IsEntry(entry), doc = FlattenSeq(ConvertedPages)
    PROVE  \E from \in [0..Len(entry.pages) -> Nat] : PagesFrom(from)
<1> DEFINE N == Len(entry.pages)
           ss == ConvertedPages
<1>1. /\ N \in Nat /\ Len(ss) = N
      /\ \A i \in 1..N : /\ Len(PageLines(i)) \in Nat /\ Len(ss[i]) = Len(PageLines(i)) + 1
                         /\ ss[i][1] = PageMarker
                         /\ PageLines(i) \in Seq(PageLine(entry.pages[i].words))
                         /\ \A k \in 1..Len(PageLines(i)) : ss[i][k + 1] = Printed(PageLines(i)[k])
  BY PagesConverted
<1>2. PICK A : ss \in Seq(Seq(A))
  BY PagesConverted
<1> HIDE DEF ss, N
<1>3. PICK from \in [0..N -> Nat] :
        /\ \A i \in 1..N : from[i] = from[i - 1] + Len(ss[i])
        /\ \A i \in 1..N : \A k \in 1..Len(ss[i]) :
             /\ from[i - 1] + k \in 1..Len(FlattenSeq(ss))
             /\ FlattenSeq(ss)[from[i - 1] + k] = ss[i][k]
        /\ \A l \in 1..Len(FlattenSeq(ss)) : \E i \in 1..N : \E k \in 1..Len(ss[i]) : l = from[i - 1] + k
        /\ \A i, j \in 0..N : i <= j => from[i] <= from[j]
  <2>1. \E from \in [0..Len(ss) -> Nat] :
          /\ from[0] = 0 /\ Len(FlattenSeq(ss)) = from[Len(ss)]
          /\ \A i \in 1..Len(ss) : from[i] = from[i - 1] + Len(ss[i])
          /\ \A i \in 1..Len(ss) : \A k \in 1..Len(ss[i]) :
               /\ from[i - 1] + k \in 1..Len(FlattenSeq(ss))
               /\ FlattenSeq(ss)[from[i - 1] + k] = ss[i][k]
          /\ \A l \in 1..Len(FlattenSeq(ss)) :
               \E i \in 1..Len(ss) : \E k \in 1..Len(ss[i]) : l = from[i - 1] + k
          /\ \A i, j \in 0..Len(ss) : i <= j => from[i] <= from[j]
    BY ONLY <1>2, FlattenPlaces
  <2>2. Len(ss) = N
    BY <1>1
  <2> QED
    BY ONLY <2>1, <2>2
<1>4. doc = FlattenSeq(ss) /\ Len(doc) \in Nat /\ DOMAIN doc = 1..Len(doc)
  <2>1. doc = FlattenSeq(ss)
    BY DEF ss
  <2>2. FlattenSeq(ss) \in Seq(A)
    BY <1>2, FlattenOf
  <2> QED
    BY <2>1, <2>2, Places1
<1>5. \A i \in 1..N : i - 1 \in 0..N /\ i \in 0..N /\ from[i - 1] \in Nat /\ from[i] \in Nat
  <2>1. \A i \in 1..N : i - 1 \in 0..N /\ i \in 0..N
    BY <1>1
  <2>2. \A i \in 0..N : from[i] \in Nat
    OBVIOUS
  <2> QED
    BY <2>1, <2>2
<1>6. \A i \in 1..N : from[i] = from[i - 1] + 1 + Len(PageLines(i))
  <2> SUFFICES ASSUME NEW i \in 1..N PROVE from[i] = from[i - 1] + 1 + Len(PageLines(i))
    OBVIOUS
  <2> DEFINE a == from[i - 1]
             b == from[i]
             d == Len(PageLines(i))
             e == Len(ss[i])
  <2>1. a \in Nat /\ d \in Nat /\ e = d + 1 /\ b = a + e
    BY <1>1, <1>3, <1>5
  <2> HIDE DEF a, b, d, e
  <2>2. b = a + 1 + d
    BY <2>1
  <2> QED
    BY <2>2 DEF a, b, d
<1>7. ASSUME NEW i \in 1..N, NEW k \in 0..Len(PageLines(i))
      PROVE  /\ from[i - 1] + 1 + k \in 1..Len(doc)
             /\ k = 0 => doc[from[i - 1] + 1 + k] = PageMarker
             /\ k # 0 => doc[from[i - 1] + 1 + k] = Printed(PageLines(i)[k])
                         /\ doc[from[i - 1] + 1 + k].kind # "page"
  <2>1. k + 1 \in 1..Len(ss[i]) /\ from[i - 1] + (k + 1) = from[i - 1] + 1 + k
    BY <1>1, <1>5
  <2>2. from[i - 1] + (k + 1) \in 1..Len(doc) /\ doc[from[i - 1] + (k + 1)] = ss[i][k + 1]
    BY <1>3, <1>4, <2>1
  <2>3. CASE k = 0
    BY <1>1, <2>1, <2>2, <2>3
  <2>4. CASE k # 0
    <3>1. k \in 1..Len(PageLines(i))
      BY <1>1, <2>4
    <3>2. ss[i][k + 1] = Printed(PageLines(i)[k])
      BY <1>1, <3>1
    <3>3. PageLines(i)[k] \in PageLine(entry.pages[i].words)
      BY <1>1, <3>1, ElementOfSeq
    <3>4. Printed(PageLines(i)[k]).kind # "page"
      BY <3>3, PrintedLine
    <3> QED
      BY <2>1, <2>2, <2>4, <3>2, <3>4
  <2> QED
    BY <2>3, <2>4
<1>8. ASSUME NEW l \in 1..Len(doc)
      PROVE  \E i \in 1..N : \E k \in 0..Len(PageLines(i)) : l = from[i - 1] + 1 + k
  <2>1. PICK i \in 1..N : \E k \in 1..Len(ss[i]) : l = from[i - 1] + k
    BY <1>3, <1>4
  <2>2. PICK k \in 1..Len(ss[i]) : l = from[i - 1] + k
    BY <2>1
  <2>3. k - 1 \in 0..Len(PageLines(i)) /\ l = from[i - 1] + 1 + (k - 1)
    BY <1>1, <1>5, <2>2
  <2> QED
    BY <2>3
<1> DEFINE start(j) == from[j - 1] + 1
<1>9. \A j \in 1..N : start(j) \in 1..Len(doc) /\ doc[start(j)].kind = "page" /\ start(j) \in Nat
  <2> SUFFICES ASSUME NEW j \in 1..N PROVE start(j) \in 1..Len(doc) /\ doc[start(j)].kind = "page"
    BY <1>4
  <2>1. 0 \in 0..Len(PageLines(j)) /\ from[j - 1] + 1 + 0 = start(j)
    BY <1>1, <1>5
  <2>2. start(j) \in 1..Len(doc) /\ doc[start(j)] = PageMarker
    BY <1>7, <2>1
  <2> QED
    BY <2>2 DEF PageMarker
<1>10. \A m \in 1..Len(doc) : doc[m].kind = "page" => \E j \in 1..N : m = start(j)
  <2> SUFFICES ASSUME NEW m \in 1..Len(doc), doc[m].kind = "page" PROVE \E j \in 1..N : m = start(j)
    OBVIOUS
  <2>1. PICK i \in 1..N : \E k \in 0..Len(PageLines(i)) : m = from[i - 1] + 1 + k
    BY <1>8
  <2>2. PICK k \in 0..Len(PageLines(i)) : m = from[i - 1] + 1 + k
    BY <2>1
  <2>3. k = 0
    BY <1>7, <2>2
  <2>4. m = start(i)
    BY <1>5, <2>2, <2>3
  <2> QED
    BY <2>4
<1>11. \A j, k \in 1..N : j < k => start(j) < start(k)
  <2> SUFFICES ASSUME NEW j \in 1..N, NEW k \in 1..N, j < k PROVE start(j) < start(k)
    OBVIOUS
  <2>1. j \in 0..N /\ k - 1 \in 0..N /\ j <= k - 1
    BY <1>1
  <2>2. from[j] <= from[k - 1]
    BY <1>3, <2>1
  <2> QED
    BY <1>1, <1>5, <1>6, <2>2
<1>12. ASSUME NEW i \in 1..N, NEW k \in 0..Len(PageLines(i))
       PROVE  PageNumber(from[i - 1] + 1 + k) = i
  <2> DEFINE l == from[i - 1] + 1 + k
             g == [j \in 1..i |-> start(j)]
             marks == {m \in 1..l : doc[m].kind = "page"}
  <2>1. l \in 1..Len(doc) /\ l \in Nat /\ k \in Nat /\ i \in Nat
    BY <1>1, <1>4, <1>7
  <2>2. \A j \in 1..i : j \in 1..N /\ start(j) <= l
    <3> SUFFICES ASSUME NEW j \in 1..i PROVE j \in 1..N /\ start(j) <= l
      OBVIOUS
    <3>1. j \in 1..N /\ (j = i \/ j < i)
      BY <1>1
    <3>2. start(j) <= start(i) /\ start(i) \in Nat /\ start(j) \in Nat
      BY <1>9, <1>11, <3>1
    <3>3. start(i) <= l
      BY <1>5, <2>1
    <3> QED
      BY <2>1, <3>1, <3>2, <3>3
  <2>3. \A j \in 1..N : start(j) <= l => j \in 1..i
    <3> SUFFICES ASSUME NEW j \in 1..N, start(j) <= l, i < j PROVE FALSE
      BY <1>1
    <3>1. i \in 0..N /\ j - 1 \in 0..N /\ i <= j - 1
      BY <1>1
    <3>2. from[i] <= from[j - 1]
      BY <1>3, <3>1
    <3> DEFINE a == from[i - 1]
               b == from[i]
               c == from[j - 1]
               d == Len(PageLines(i))
    <3>3. a \in Nat /\ b \in Nat /\ c \in Nat /\ d \in Nat /\ b = a + 1 + d /\ b <= c /\ k <= d
      BY <1>1, <1>5, <1>6, <3>2
    <3>4. c + 1 <= a + 1 + k
      OBVIOUS
    <3> HIDE DEF a, b, c, d
    <3> QED
      BY <2>1, <3>3, <3>4
  <2> HIDE DEF l, start
  <2>4. marks = {g[j] : j \in 1..i}
    <3>1. \A m \in marks : \E j \in 1..i : m = start(j)
      BY <1>4, <1>10, <2>1, <2>3
    <3>2. \A j \in 1..i : start(j) \in marks
      <4>1. \A j \in 1..i : start(j) \in 1..l
        BY <1>9, <2>1, <2>2
      <4> QED
        BY <1>9, <2>2, <4>1
    <3> QED
      BY <3>1, <3>2
  <2>5. DOMAIN g = 1..i /\ \A j \in 1..i : g[j] = start(j)
    OBVIOUS
  <2>6. g = [j \in 1..i |-> g[j]]
    OBVIOUS
  <2>7. \A j, m \in 1..i : g[j] = g[m] => j = m
    <3> SUFFICES ASSUME NEW j \in 1..i, NEW m \in 1..i, start(j) = start(m) PROVE j = m
      BY <2>5
    <3>1. j \in 1..N /\ m \in 1..N /\ j \in Nat /\ m \in Nat
      BY <1>1, <2>2
    <3>2. ~(j < m) /\ ~(m < j)
      BY <1>9, <1>11, <3>1
    <3> QED
      BY <3>1, <3>2
  <2> HIDE DEF g, marks
  <2>8. Cardinality(marks) = i
    BY <2>1, <2>4, <2>5, <2>6, <2>7, CountedOnce
  <2> QED
    BY <2>8 DEF PageNumber, marks, l
<1>13. PagesFrom(from)
  <2> HIDE DEF start
  <2>1. \A l \in DOMAIN doc : \E i \in 1..N : \E k \in 0..Len(PageLines(i)) : l = from[i - 1] + 1 + k
    BY <1>4, <1>8
  <2>2. \A i \in 1..N : \A k \in 0..Len(PageLines(i)) :
          /\ from[i - 1] + 1 + k \in DOMAIN doc /\ PageNumber(from[i - 1] + 1 + k) = i
          /\ IF k = 0 THEN doc[from[i - 1] + 1 + k] = PageMarker
             ELSE doc[from[i - 1] + 1 + k] = Printed(PageLines(i)[k])
    <3> SUFFICES ASSUME NEW i \in 1..N, NEW k \in 0..Len(PageLines(i))
                 PROVE  /\ from[i - 1] + 1 + k \in DOMAIN doc /\ PageNumber(from[i - 1] + 1 + k) = i
                        /\ IF k = 0 THEN doc[from[i - 1] + 1 + k] = PageMarker
                           ELSE doc[from[i - 1] + 1 + k] = Printed(PageLines(i)[k])
      OBVIOUS
    <3> QED
      BY <1>4, <1>7, <1>12
  <2> QED
    BY <2>1, <2>2 DEF PagesFrom, N
<1> QED
  BY <1>13 DEF N

\* The places of a word are those it has in the lines of its page.
LEMMA PlacesAre ==
    ASSUME IsEntry(entry), NEW from \in [0..Len(entry.pages) -> Nat], PagesFrom(from),
           NEW n \in 1..Len(entry.pages), NEW w
    PROVE  \A x : x \in Places(n, w) <=>
             \E k \in 1..Len(PageLines(n)) : \E j \in 1..Len(PageLines(n)[k].words) :
               PageLines(n)[k].words[j] = w /\ x = <<from[n - 1] + 1 + k, j>>
<1> DEFINE L == PageLines(n)
           at(k) == from[n - 1] + 1 + k
           In(l) == {k \in DOMAIN doc[l].words : doc[l].words[k] = w}
           M == {m \in DOMAIN doc : PageNumber(m) = n}
           N == Len(entry.pages)
<1>1. /\ N \in Nat /\ \A i \in 1..N : Len(PageLines(i)) \in Nat
      /\ L \in Seq(PageLine(entry.pages[n].words))
  BY PagesConverted
<1>2. /\ \A i \in 1..N : \A k \in 0..Len(PageLines(i)) :
           /\ from[i - 1] + 1 + k \in DOMAIN doc /\ PageNumber(from[i - 1] + 1 + k) = i
           /\ IF k = 0 THEN doc[from[i - 1] + 1 + k] = PageMarker
              ELSE doc[from[i - 1] + 1 + k] = Printed(PageLines(i)[k])
      /\ \A l \in DOMAIN doc : \E i \in 1..N : \E k \in 0..Len(PageLines(i)) : l = from[i - 1] + 1 + k
  BY DEF PagesFrom
<1>3. Places(n, w) = UNION {{l} \X In(l) : l \in M}
  BY DEF Places
<1> HIDE DEF N, L, M, at, In
<1>4. \A l : l \in M <=> \E k \in 0..Len(L) : l = at(k)
  <2>1. ASSUME NEW l \in M PROVE \E k \in 0..Len(L) : l = at(k)
    <3>1. l \in DOMAIN doc /\ PageNumber(l) = n
      BY DEF M
    <3>2. PICK i \in 1..N : \E k \in 0..Len(PageLines(i)) : l = from[i - 1] + 1 + k
      BY <1>2, <3>1
    <3>3. PICK k \in 0..Len(PageLines(i)) : l = from[i - 1] + 1 + k
      BY <3>2
    <3>4. i = n
      BY <1>2, <3>1, <3>3
    <3> QED
      BY <3>3, <3>4 DEF L, at
  <2>2. ASSUME NEW k \in 0..Len(L) PROVE at(k) \in M
    BY <1>2 DEF L, M, N, at
  <2> QED
    BY <2>1, <2>2
<1>5. Len(L) \in Nat /\ \A k \in 1..Len(L) : L[k] \in PageLine(entry.pages[n].words)
  <2>1. L \in Seq(PageLine(entry.pages[n].words))
    BY <1>1
  <2> QED
    BY <2>1, Places1
<1>6. In(at(0)) = {}
  <2>1. 0 \in 0..Len(L)
    BY <1>5
  <2>2. doc[at(0)] = PageMarker
    BY <1>2, <2>1 DEF L, N, at
  <2>3. DOMAIN doc[at(0)].words = {}
    BY <2>2 DEF PageMarker
  <2> QED
    BY <2>3 DEF In
<1>7. ASSUME NEW k \in 1..Len(L)
      PROVE  In(at(k)) = {j \in 1..Len(L[k].words) : L[k].words[j] = w}
  <2>1. k \in 0..Len(L) /\ k # 0
    BY <1>5
  <2>2. doc[at(k)] = Printed(L[k])
    BY <1>2, <2>1 DEF L, N, at
  <2>3. doc[at(k)].words = L[k].words
    BY <1>5, <2>2, PrintedLine
  <2> DEFINE s == L[k].words
             S == entry.pages[n].words
  <2>4. s \in Seq(S)
    BY <1>5 DEF PageLine
  <2> HIDE DEF s, S
  <2>5. DOMAIN s = 1..Len(s)
    BY <2>4, Places1
  <2> QED
    BY <2>3, <2>5 DEF In, s
<1>8. ASSUME NEW x \in Places(n, w)
      PROVE  \E k \in 1..Len(L) : \E j \in 1..Len(L[k].words) : L[k].words[j] = w /\ x = <<at(k), j>>
  <2>1. PICK l \in M : x \in {l} \X In(l)
    BY <1>3
  <2>2. PICK k \in 0..Len(L) : l = at(k)
    BY <1>4, <2>1
  <2>3. k # 0
    BY <1>6, <2>1, <2>2
  <2>4. k \in 1..Len(L)
    BY <1>5, <2>3
  <2>5. PICK j \in In(l) : x = <<l, j>>
    BY <2>1
  <2>6. j \in 1..Len(L[k].words) /\ L[k].words[j] = w
    BY <1>7, <2>2, <2>4, <2>5
  <2> QED
    BY <2>2, <2>4, <2>5, <2>6
<1>9. ASSUME NEW k \in 1..Len(L), NEW j \in 1..Len(L[k].words), L[k].words[j] = w
      PROVE  <<at(k), j>> \in Places(n, w)
  <2>1. k \in 0..Len(L)
    BY <1>5
  <2>2. at(k) \in M /\ j \in In(at(k))
    BY <1>4, <1>7, <1>9, <2>1
  <2> QED
    BY <1>3, <2>2
<1>10. \A x : x \in Places(n, w) <=>
         \E k \in 1..Len(L) : \E j \in 1..Len(L[k].words) : L[k].words[j] = w /\ x = <<at(k), j>>
  BY <1>8, <1>9
<1> QED
  BY <1>10 DEF L, at

\* A converted document has every word above and below the tables at one place, no word
\* at the height of one, and every phrase whole.
LEMMA ColumnsStand ==
    ASSUME IsEntry(entry), doc = FlattenSeq(ConvertedPages), NEW n \in DOMAIN entry.pages
    PROVE  /\ \A w \in entry.pages[n].words :
                IF AtTableHeight(entry.pages[n], w) THEN Places(n, w) = {}
                ELSE Cardinality(Places(n, w)) = 1
           /\ \A u, v \in entry.pages[n].words :
                Follows(entry.pages[n], u, v) /\ ~AtTableHeight(entry.pages[n], u)
                => \E at \in Places(n, u) : <<at[1], at[2] + 1>> \in Places(n, v)
<1> DEFINE p == entry.pages[n]
           L == PageLines(n)
<1>1. n \in 1..Len(entry.pages) /\ IsPage(p)
  BY PagesConverted
<1>2. PICK from \in [0..Len(entry.pages) -> Nat] : PagesFrom(from)
  BY PagesNumbered
<1>3. \A w, x : x \in Places(n, w) <=>
        \E k \in 1..Len(L) : \E j \in 1..Len(L[k].words) :
          L[k].words[j] = w /\ x = <<from[n - 1] + 1 + k, j>>
  BY <1>1, <1>2, PlacesAre
<1>4. Neat(L, Phrases(p)) /\ Spoken(L) = {w \in p.words : ~AtTableHeight(p, w)}
  BY <1>1, PageNeat DEF PageLines
<1> HIDE DEF L, p
<1>5. \A w : w \in Spoken(L) <=>
        \E k \in 1..Len(L) : \E j \in 1..Len(L[k].words) : L[k].words[j] = w
  BY DEF Spoken, WordsOf
<1>6. ASSUME NEW w \in p.words, AtTableHeight(p, w) PROVE Places(n, w) = {}
  BY <1>3, <1>4, <1>5, <1>6
<1>7. ASSUME NEW w \in p.words, ~AtTableHeight(p, w) PROVE Cardinality(Places(n, w)) = 1
  <2>1. PICK k \in 1..Len(L) : \E j \in 1..Len(L[k].words) : L[k].words[j] = w
    BY <1>4, <1>5, <1>7
  <2>2. PICK j \in 1..Len(L[k].words) : L[k].words[j] = w
    BY <2>1
  <2> DEFINE a == <<from[n - 1] + 1 + k, j>>
  <2>3. a \in Places(n, w)
    BY <1>3, <2>2
  <2>4. ASSUME NEW x \in Places(n, w) PROVE x = a
    <3>1. PICK l \in 1..Len(L) : \E m \in 1..Len(L[l].words) :
            L[l].words[m] = w /\ x = <<from[n - 1] + 1 + l, m>>
      BY <1>3
    <3>2. PICK m \in 1..Len(L[l].words) : L[l].words[m] = w /\ x = <<from[n - 1] + 1 + l, m>>
      BY <3>1
    <3>3. l = k /\ m = j
      BY <1>4, <2>2, <3>2 DEF Neat, OncePlaced
    <3> QED
      BY <3>2, <3>3
  <2> HIDE DEF a
  <2>5. Places(n, w) = {a}
    BY <2>3, <2>4
  <2> QED
    BY <2>5, FS_Singleton
<1>8. ASSUME NEW u \in p.words, NEW v \in p.words, Follows(p, u, v), ~AtTableHeight(p, u)
      PROVE  \E at \in Places(n, u) : <<at[1], at[2] + 1>> \in Places(n, v)
  <2>1. PICK k \in 1..Len(L) : \E j \in 1..Len(L[k].words) : L[k].words[j] = u
    BY <1>4, <1>5, <1>8
  <2>2. PICK j \in 1..Len(L[k].words) : L[k].words[j] = u
    BY <2>1
  <2> DEFINE at == <<from[n - 1] + 1 + k, j>>
  <2>3. at \in Places(n, u) /\ at[1] = from[n - 1] + 1 + k /\ at[2] = j
    BY <1>3, <2>2
  <2>4. <<u, v>> \in Phrases(p)
    BY <1>8 DEF Phrases
  <2>5. j + 1 \in 1..Len(L[k].words) /\ L[k].words[j + 1] = v
    BY <1>4, <2>2, <2>4 DEF Neat, Phrased
  <2>6. <<from[n - 1] + 1 + k, j + 1>> \in Places(n, v)
    BY <1>3, <2>5
  <2> HIDE DEF at
  <2> QED
    BY <2>3, <2>6
<1> QED
  BY <1>6, <1>7, <1>8 DEF p

\* A document that was converted is its pages.
ColumnsKept ==
    path = "legacy" /\ engine = "pdfplumber_columns" => doc = FlattenSeq(ConvertedPages)

LEMMA ColumnsStep ==
    ASSUME TypeInv, ColumnsKept, [Next]_vars
    PROVE  ColumnsKept'
<1>1. engine = entry.engine
  BY DEF TypeInv, Entered
<1>2. CASE WagePage \/ WageChunks
  <2>1. path = "wage" /\ path' = path
    BY <1>2 DEF WagePage, WageChunks
  <2> QED
    BY <2>1 DEF ColumnsKept
<1>3. CASE FallBack
  <2>1. path' = LegacyPath(entry) /\ engine' = engine
    BY <1>3 DEF FallBack, chunkVars
  <2> QED
    BY <1>1, <2>1 DEF ColumnsKept, LegacyPath
<1>4. CASE ConvertColumns
  <2>1. doc' = FlattenSeq(ConvertedPages) /\ entry' = entry
    BY <1>4 DEF ConvertColumns, ConvertedPages, PageMarker
  <2>2. ConvertedPages' = ConvertedPages
    BY <2>1 DEF ConvertedPages
  <2> QED
    BY <2>1, <2>2 DEF ColumnsKept
<1>5. CASE Extract \/ Chunk \/ Rest \/ UNCHANGED vars
  <2>1. doc' = doc /\ engine' = engine /\ entry' = entry /\ path' = path
    <3>1. CASE Extract
      <4>1. Reads /\ UNCHANGED <<chunkVars, formVars, entry, path>>
        BY <3>1, ReadTypes DEF Extract
      <4> QED
        BY <4>1 DEF Reads, chunkVars
    <3>2. CASE Chunk
      BY <3>2 DEF Chunk, ChunkDocument, TakeTable, TakeHeading, TakeLine, TakeHeadedTable, TakeMarkdownHeader,
                   TakeHeadedLine, FlushLast, Cut, Emit, extractVars
    <3>3. CASE Rest \/ UNCHANGED vars
      BY <3>3 DEF Rest, vars, extractVars, chunkVars
    <3> QED
      BY <1>5, <3>1, <3>2, <3>3
  <2>2. ConvertedPages' = ConvertedPages
    BY <2>1 DEF ConvertedPages
  <2> QED
    BY <2>1, <2>2 DEF ColumnsKept
<1> QED
  BY <1>2, <1>3, <1>4, <1>5 DEF Next

\* The words of a page printed in columns (convert.py, _page_markdown, and
\* run_pipeline.py, _convert_with_columns): every word above and below the tables is in
\* the converted document once, at one place of its page, a word inside a table is left
\* to it, and two words that follow one another on a printed line stay together,
\* whatever the gutters and the bands.
THEOREM WordsKeptAlways == Spec => []WordsKept
<1>1. Init => IInv /\ ColumnsKept
  <2>1. Init => IInv
    BY InitKeeps DEF IInv
  <2>2. Init => ColumnsKept
    <3> SUFFICES ASSUME Init, path = "legacy", engine = "pdfplumber_columns" PROVE FALSE
      BY DEF ColumnsKept
    <3>1. PICK family \in DOMAIN Corpus : \E e \in Corpus[family] :
            path = (IF e.wageEntry THEN "wage" ELSE LegacyPath(e)) /\ engine = e.engine
      BY DEF Init
    <3> QED
      BY <3>1 DEF LegacyPath
  <2> QED
    BY <2>1, <2>2
<1>2. IInv /\ ColumnsKept /\ [Next]_vars => (IInv /\ ColumnsKept)'
  <2>1. IInv => TypeInv
    BY DEF IInv
  <2> QED
    BY <2>1, StepKeeps, ColumnsStep
<1>3. IInv /\ ColumnsKept => WordsKept
  <2> SUFFICES ASSUME IInv, ColumnsKept, Converted PROVE WordsKept
    BY DEF WordsKept, EachWordOnce, PhraseKept
  <2>1. IsEntry(entry) /\ doc = FlattenSeq(ConvertedPages)
    BY DEF IInv, TypeInv, Entered, ColumnsKept, Converted
  <2>2. \A n \in DOMAIN entry.pages : \A w \in entry.pages[n].words :
          IF AtTableHeight(entry.pages[n], w) THEN Places(n, w) = {}
          ELSE Cardinality(Places(n, w)) = 1
    BY <2>1, ColumnsStand
  <2>4. \A n \in DOMAIN entry.pages : \A w \in entry.pages[n].words :
          InATable(entry.pages[n], w) => AtTableHeight(entry.pages[n], w)
    BY DEF InATable, AtTableHeight
  <2>3. \A n \in DOMAIN entry.pages : \A u, v \in entry.pages[n].words :
          Follows(entry.pages[n], u, v) /\ ~AtTableHeight(entry.pages[n], u)
          => \E at \in Places(n, u) : <<at[1], at[2] + 1>> \in Places(n, v)
    BY <2>1, ColumnsStand
  <2> QED
    BY <2>2, <2>3, <2>4 DEF WordsKept, EachWordOnce, PhraseKept
<1> QED
  BY <1>1, <1>2, <1>3, PTL DEF Spec
=============================================================================
