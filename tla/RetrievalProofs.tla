--------------------------- MODULE RetrievalProofs ---------------------------
(***************************************************************************)
(* What Retrieval promises of a window, for every corpus, every question,  *)
(* every limit and any number of changes of the collection meanwhile.      *)
(***************************************************************************)
EXTENDS Retrieval, ListLemmas

-----------------------------------------------------------------------------
(* Sequences and what is taken from them                                   *)

LEMMA FirstOf ==
    ASSUME NEW A, NEW s \in Seq(A), NEW n \in Int
    PROVE  /\ First(s, n) \in Seq(A)
           /\ Len(First(s, n)) <= Len(s) /\ (0 <= n => Len(First(s, n)) <= n)
           /\ 0 <= n => Len(First(s, n)) = IF n < Len(s) THEN n ELSE Len(s)
           /\ \A i \in 1..Len(First(s, n)) : First(s, n)[i] = s[i]
           /\ Range(First(s, n)) \subseteq Range(s)
<1> DEFINE m == IF n < Len(s) THEN n ELSE Len(s)
<1>1. Len(s) \in Nat /\ \A i \in 1..Len(s) : s[i] \in A
  BY Places1
<1>2. m \in Int /\ 1 \in Int /\ m <= Len(s) /\ (0 <= n => 0 <= m /\ m <= n)
  BY <1>1
<1>3. \A i \in 1..m : s[i] \in A
  BY <1>1, <1>2
<1>4. First(s, n) = SubSeq(s, 1, m)
  BY DEF First
<1> HIDE DEF m
<1>5. /\ SubSeq(s, 1, m) \in Seq(A)
      /\ Len(SubSeq(s, 1, m)) = IF 1 <= m THEN m - 1 + 1 ELSE 0
      /\ \A i \in 1..m - 1 + 1 : SubSeq(s, 1, m)[i] = s[1 + i - 1]
  BY <1>2, <1>3, SubSeqProperties
<1>6. \A i \in 1..Len(SubSeq(s, 1, m)) : SubSeq(s, 1, m)[i] = s[i] /\ i \in 1..Len(s)
  <2> SUFFICES ASSUME NEW i \in 1..Len(SubSeq(s, 1, m)) PROVE SubSeq(s, 1, m)[i] = s[i] /\ i \in 1..Len(s)
    OBVIOUS
  <2>1. i \in 1..m - 1 + 1 /\ 1 + i - 1 = i /\ i \in 1..Len(s)
    BY <1>1, <1>2, <1>5
  <2> QED
    BY <1>5, <2>1
<1>7. Range(First(s, n)) \subseteq Range(s)
  <2>1. Range(SubSeq(s, 1, m)) = {SubSeq(s, 1, m)[i] : i \in 1..Len(SubSeq(s, 1, m))}
    BY <1>5, Places1
  <2>2. Range(s) = {s[i] : i \in 1..Len(s)}
    BY Places1
  <2>3. ASSUME NEW i \in 1..Len(SubSeq(s, 1, m)) PROVE SubSeq(s, 1, m)[i] \in Range(s)
    BY <1>6, <2>2
  <2> QED
    BY <1>4, <2>1, <2>3
<1>8. 0 <= n => Len(First(s, n)) = m
  BY <1>2, <1>4, <1>5
<1>9. Len(First(s, n)) <= Len(s) /\ (0 <= n => Len(First(s, n)) <= n)
  BY <1>1, <1>2, <1>4, <1>5
<1>10. 0 <= n => Len(First(s, n)) = IF n < Len(s) THEN n ELSE Len(s)
  BY <1>8 DEF m
<1>11. /\ First(s, n) \in Seq(A)
       /\ \A i \in 1..Len(First(s, n)) : First(s, n)[i] = s[i]
  BY <1>4, <1>5, <1>6
<1> QED
  BY <1>7, <1>9, <1>10, <1>11

LEMMA AmongOf ==
    ASSUME NEW A, NEW s \in Seq(A), NEW S
    PROVE  /\ Among(s, S) \in Seq(A)
           /\ Range(Among(s, S)) = Range(s) \cap S
<1> DEFINE I == {i \in DOMAIN s : s[i] \in S}
<1>1. I \in SUBSET DOMAIN s /\ Among(s, S) = Picked(s, I)
  BY DEF Among
<1>2. {s[i] : i \in I} = Range(s) \cap S
  BY DEF Range
<1> HIDE DEF I
<1> QED
  BY <1>1, <1>2, PickedFrom

\* Distinct keeps every entry, at its place or sooner, and keeps it once.
LEMMA DistinctOf ==
    ASSUME NEW A, NEW s \in Seq(A)
    PROVE  /\ Distinct(s) \in Seq(A)
           /\ IsInjective(Distinct(s))
           /\ Len(Distinct(s)) <= Len(s)
           /\ Range(Distinct(s)) = Range(s)
           /\ \A i \in 1..Len(s) : \E k \in 1..Len(Distinct(s)) : k <= i /\ Distinct(s)[k] = s[i]
<1> DEFINE I == {i \in DOMAIN s : \A j \in 1..i - 1 : s[j] # s[i]}
<1>0. Len(s) \in Nat /\ DOMAIN s = 1..Len(s) /\ IsFiniteSet(DOMAIN s)
  BY Places1
<1>1. I \in SUBSET DOMAIN s /\ Distinct(s) = Picked(s, I)
  BY DEF Distinct
<1>2. \A i, j \in I : s[i] = s[j] => i = j
  <2> SUFFICES ASSUME NEW i \in I, NEW j \in I, s[i] = s[j] PROVE i = j
    OBVIOUS
  <2>1. i \in Nat /\ j \in Nat /\ 1 <= i /\ 1 <= j
    BY <1>0
  <2>2. ~(i < j) /\ ~(j < i)
    BY <2>1
  <2> QED
    BY <2>1, <2>2
<1>3. ASSUME NEW i \in 1..Len(s) PROVE \E j \in I : j <= i /\ s[j] = s[i]
  <2> DEFINE same == {j \in DOMAIN s : s[j] = s[i]}
  <2>1. same \subseteq Int /\ IsFiniteSet(same) /\ same # {}
    BY <1>0, FS_Subset
  <2>2. PICK j \in same : \A k \in same : j <= k
    <3> HIDE DEF same
    <3> QED
      BY <2>1, LeastNumber
  <2>3. j \in DOMAIN s /\ s[j] = s[i] /\ j <= i /\ j \in Nat
    BY <1>0, <2>2
  <2>4. ASSUME NEW k \in 1..j - 1 PROVE s[k] # s[j]
    <3>1. k \in DOMAIN s /\ k < j
      BY <1>0, <2>3
    <3> QED
      BY <2>2, <2>3, <3>1
  <2> QED
    BY <2>3, <2>4
<1>4. {s[i] : i \in I} = Range(s)
  <2>1. {s[i] : i \in I} \subseteq Range(s)
    BY DEF Range
  <2>2. ASSUME NEW i \in 1..Len(s) PROVE s[i] \in {s[j] : j \in I}
    BY <1>3
  <2> QED
    BY <1>0, <2>1, <2>2 DEF Range
<1> HIDE DEF I
<1>5. /\ Picked(s, I) \in Seq(A)
      /\ Len(Picked(s, I)) <= Len(s)
      /\ Range(Picked(s, I)) = {s[i] : i \in I}
      /\ \A i \in I : \E k \in 1..Len(Picked(s, I)) : k <= i /\ Picked(s, I)[k] = s[i]
      /\ IsInjective(Picked(s, I))
  BY <1>1, <1>2, PickedFrom
<1>6. ASSUME NEW i \in 1..Len(s)
      PROVE \E k \in 1..Len(Picked(s, I)) : k <= i /\ Picked(s, I)[k] = s[i]
  <2>1. PICK j \in I : j <= i /\ s[j] = s[i]
    BY <1>3
  <2>2. PICK k \in 1..Len(Picked(s, I)) : k <= j /\ Picked(s, I)[k] = s[j]
    BY <1>5
  <2>3. j \in Int /\ k <= i
    BY <1>0, <1>1, <2>1, <2>2
  <2> QED
    BY <2>1, <2>2, <2>3
<1> QED
  BY <1>1, <1>4, <1>5, <1>6

-----------------------------------------------------------------------------
(* Results of several reads                                                *)

\* Some result sets of points.
Results(sets, w, A) ==
    /\ w \in Nat
    /\ DOMAIN sets = 1..w /\ Len(sets) = w
    /\ \A k \in 1..w : sets[k] \in Seq(A)

LEMMA PlacesFinite ==
    ASSUME NEW sets, NEW w, NEW A, Results(sets, w, A)
    PROVE  /\ IsFiniteSet(Places(sets))
           /\ \A at \in Places(sets) : /\ at = <<at[1], at[2]>> /\ at[1] \in 1..w /\ at[2] \in 1..Len(sets[at[1]])
                                       /\ at[2] \in Nat /\ 1 <= at[2]
                                       /\ sets[at[1]][at[2]] \in A
           /\ \A k \in 1..w : \A r \in 1..Len(sets[k]) : <<k, r>> \in Places(sets)
<1>1. \A k \in 1..w : /\ Len(sets[k]) \in Nat /\ DOMAIN sets[k] = 1..Len(sets[k])
                      /\ \A r \in 1..Len(sets[k]) : sets[k][r] \in A
  BY Places1 DEF Results
<1> DEFINE row == [k \in 1..w |-> {k} \X DOMAIN sets[k]]
<1>2. Places(sets) = UNION Range(row)
  BY DEF Places, Results, Range
<1>3. IsFiniteSet(Range(row))
  <2>1. row \in Surjection(1..w, Range(row))
    BY DEF Surjection, Range
  <2>2. IsFiniteSet(1..w)
    BY FS_Interval DEF Results
  <2> QED
    BY <2>1, <2>2, FS_Surjection
<1>4. \A R \in Range(row) : IsFiniteSet(R)
  <2> SUFFICES ASSUME NEW k \in 1..w PROVE IsFiniteSet({k} \X DOMAIN sets[k])
    BY DEF Range
  <2> DEFINE n == Len(sets[k])
  <2>0. n \in Nat
    BY <1>1
  <2>1. IsFiniteSet({k}) /\ IsFiniteSet(1..n)
    <3> HIDE DEF n
    <3>1. IsFiniteSet(1..n)
      BY <2>0, FS_Interval
    <3>2. IsFiniteSet({k})
      BY FS_Singleton
    <3> QED
      BY <3>1, <3>2
  <2>2. IsFiniteSet({k} \X (1..Len(sets[k])))
    BY <2>1, FS_Product
  <2> QED
    BY <1>1, <2>2, Zenon
<1>5. IsFiniteSet(Places(sets))
  <2> HIDE DEF row
  <2> QED
    BY <1>2, <1>3, <1>4, FS_UNION
<1>6. \A at \in Places(sets) : \E k \in 1..w : \E r \in 1..Len(sets[k]) : at = <<k, r>>
  BY <1>1 DEF Places, Results
<1>7. \A k \in 1..w : \A r \in 1..Len(sets[k]) : <<k, r>> \in Places(sets)
  BY <1>1 DEF Places, Results
<1>8. ASSUME NEW at \in Places(sets)
      PROVE  /\ at = <<at[1], at[2]>> /\ at[1] \in 1..w /\ at[2] \in 1..Len(sets[at[1]])
             /\ at[2] \in Nat /\ 1 <= at[2]
             /\ sets[at[1]][at[2]] \in A
  <2>1. PICK k \in 1..w : \E r \in 1..Len(sets[k]) : at = <<k, r>>
    BY <1>6
  <2>2. PICK r \in 1..Len(sets[k]) : at = <<k, r>>
    BY <2>1
  <2> QED
    BY <1>1, <2>2
<1> QED
  BY <1>5, <1>7, <1>8

LEMMA WalkOf ==
    ASSUME NEW sets, NEW w, NEW A, Results(sets, w, A),
           NEW key, Keyed(Places(sets), key)
    PROVE  /\ Walk(sets, key) \in Seq(A)
           /\ Len(Walk(sets, key)) = Cardinality(Places(sets))
           /\ \A p \in Range(Walk(sets, key)) : \E k \in 1..w : p \in Range(sets[k])
           /\ \A at \in Places(sets) :
                Walk(sets, key)[Cardinality(UpTo(Places(sets), key, at))] = sets[at[1]][at[2]]
<1> DEFINE n == Cardinality(Places(sets))
           walk == Ordered(Places(sets), key)
           found == [m \in 1..n |-> sets[walk[m][1]][walk[m][2]]]
<1>1. /\ n \in Nat
      /\ \A m \in 1..n : walk[m] \in Places(sets)
      /\ \A at \in Places(sets) : walk[Cardinality(UpTo(Places(sets), key, at))] = at
  BY OrderedLists
<1>2. \A at \in Places(sets) : Cardinality(UpTo(Places(sets), key, at)) \in 1..n
  BY PlaceType
<1>3. \A at \in Places(sets) : /\ at[1] \in 1..w /\ at[2] \in 1..Len(sets[at[1]])
                               /\ sets[at[1]][at[2]] \in A
  BY PlacesFinite
<1>4. Walk(sets, key) = found
  BY DEF Walk
<1> HIDE DEF n, walk
<1>5. found \in Seq(A) /\ Len(found) = n
  <2>1. found \in [1..n -> A]
    BY <1>1, <1>3
  <2> QED
    BY <1>1, <2>1
<1>6. ASSUME NEW m \in 1..n PROVE \E k \in 1..w : found[m] \in Range(sets[k])
  <2>1. walk[m] \in Places(sets)
    BY <1>1
  <2>2. walk[m][1] \in 1..w /\ walk[m][2] \in DOMAIN sets[walk[m][1]]
    <3>1. sets[walk[m][1]] \in Seq(A)
      BY <1>3, <2>1 DEF Results
    <3> QED
      BY <1>3, <2>1, <3>1, LenProperties
  <2> QED
    BY <2>2 DEF Range
<1>7. \A p \in Range(found) : \E k \in 1..w : p \in Range(sets[k])
  <2> SUFFICES ASSUME NEW p \in Range(found) PROVE \E k \in 1..w : p \in Range(sets[k])
    OBVIOUS
  <2>1. PICK m \in 1..n : p = found[m]
    BY DEF Range
  <2> HIDE DEF found
  <2> QED
    BY <1>6, <2>1
<1>8. \A at \in Places(sets) :
        found[Cardinality(UpTo(Places(sets), key, at))] = sets[at[1]][at[2]]
  BY <1>1, <1>2
<1> HIDE DEF found
<1> QED
  BY <1>4, <1>5, <1>7, <1>8 DEF n

LEMMA ConcatOf ==
    ASSUME NEW A, NEW s \in Seq(A), NEW t \in Seq(A)
    PROVE  /\ s \o t \in Seq(A) /\ Len(s \o t) = Len(s) + Len(t)
           /\ \A i \in 1..Len(s) : (s \o t)[i] = s[i]
           /\ \A i \in 1..Len(t) : (s \o t)[Len(s) + i] = t[i]
           /\ Range(s \o t) = Range(s) \cup Range(t)
<1> DEFINE c == s \o t
<1>0. Len(s) \in Nat /\ Len(t) \in Nat
  BY Places1
<1>1. /\ c \in Seq(A) /\ Len(c) = Len(s) + Len(t)
      /\ \A i \in 1..Len(s) + Len(t) : c[i] = IF i <= Len(s) THEN s[i] ELSE t[i - Len(s)]
  BY ConcatProperties
<1> HIDE DEF c
<1>2. \A i \in 1..Len(s) : c[i] = s[i] /\ i \in 1..Len(c)
  BY <1>0, <1>1
<1>3. \A i \in 1..Len(t) : c[Len(s) + i] = t[i] /\ Len(s) + i \in 1..Len(c)
  <2> SUFFICES ASSUME NEW i \in 1..Len(t) PROVE c[Len(s) + i] = t[i] /\ Len(s) + i \in 1..Len(c)
    OBVIOUS
  <2>1. Len(s) + i \in 1..Len(s) + Len(t) /\ ~(Len(s) + i <= Len(s)) /\ Len(s) + i - Len(s) = i
    BY <1>0
  <2> QED
    BY <1>1, <2>1
<1>4. \A i \in 1..Len(c) : i \in 1..Len(s) \/ \E j \in 1..Len(t) : i = Len(s) + j
  <2> SUFFICES ASSUME NEW i \in 1..Len(c), ~(i \in 1..Len(s)) PROVE \E j \in 1..Len(t) : i = Len(s) + j
    OBVIOUS
  <2>1. i - Len(s) \in 1..Len(t) /\ i = Len(s) + (i - Len(s))
    BY <1>0, <1>1
  <2> QED
    BY <2>1
<1>5. /\ Range(c) = {c[i] : i \in 1..Len(c)} /\ Range(s) = {s[i] : i \in 1..Len(s)}
      /\ Range(t) = {t[i] : i \in 1..Len(t)}
  BY <1>1, Places1
<1>6. Range(c) \subseteq Range(s) \cup Range(t)
  <2> SUFFICES ASSUME NEW i \in 1..Len(c) PROVE c[i] \in Range(s) \cup Range(t)
    BY <1>5
  <2> QED
    BY ZenonT(40), <1>2, <1>3, <1>4, <1>5
<1>7. Range(s) \subseteq Range(c) /\ Range(t) \subseteq Range(c)
  BY <1>2, <1>3, <1>5
<1> QED
  BY <1>1, <1>2, <1>3, <1>6, <1>7 DEF c

LEMMA InjectiveFirst ==
    ASSUME NEW A, NEW s \in Seq(A), IsInjective(s), NEW n \in Int
    PROVE  IsInjective(First(s, n))
<1>1. /\ First(s, n) \in Seq(A) /\ Len(First(s, n)) <= Len(s)
      /\ \A i \in 1..Len(First(s, n)) : First(s, n)[i] = s[i]
  BY FirstOf
<1>2. /\ DOMAIN First(s, n) = 1..Len(First(s, n)) /\ DOMAIN s = 1..Len(s)
      /\ Len(First(s, n)) \in Nat /\ Len(s) \in Nat
  BY <1>1, Places1
<1> QED
  BY <1>1, <1>2 DEF IsInjective

\* Chunks of an earlier round come first.
LEMMA RoundsInOrder ==
    ASSUME NEW w \in Nat, NEW a \in 1..w, NEW b \in 1..w, NEW r \in Nat, NEW t \in Nat,
           1 <= r, r < t
    PROVE  (r - 1) * w + a < (t - 1) * w + b
<1>1. PICK d \in Nat : t - 1 = (r - 1) + (d + 1)
  <2>1. t - 1 - r \in Nat
    OBVIOUS
  <2> QED
    BY <2>1
<1>2. (t - 1) * w = (r - 1) * w + d * w + w
  BY <1>1
<1>3. d * w >= 0 /\ d * w \in Nat /\ (r - 1) * w \in Int
  OBVIOUS
<1> QED
  BY <1>2, <1>3

\* The chunks of the merge are those of its sets, each once; the best chunk of set k is
\* among the first k.
LEMMA RoundRobinOf ==
    ASSUME NEW sets, NEW w, NEW A, Results(sets, w, A), NEW n \in Int
    PROVE  /\ RoundRobin(sets, n) \in Seq(A)
           /\ IsInjective(RoundRobin(sets, n))
           /\ 0 <= n => Len(RoundRobin(sets, n)) <= n
           /\ \A p \in Range(RoundRobin(sets, n)) : \E k \in 1..w : p \in Range(sets[k])
           /\ \A k \in 1..w : k <= n /\ sets[k] # <<>> =>
                \E i \in 1..Len(RoundRobin(sets, n)) : i <= k /\ RoundRobin(sets, n)[i] = sets[k][1]
<1> DEFINE key == [at \in Places(sets) |-> (at[2] - 1) * Len(sets) + at[1]]
           walk == Walk(sets, key)
           all == Distinct(walk)
<1>0. w \in Nat /\ Len(sets) = w
  BY DEF Results
<1>1. /\ IsFiniteSet(Places(sets))
      /\ \A at \in Places(sets) : /\ at = <<at[1], at[2]>> /\ at[1] \in 1..w /\ at[2] \in Nat /\ 1 <= at[2]
  BY PlacesFinite
<1>2. Keyed(Places(sets), key)
  <2>1. key \in [Places(sets) -> Int]
    BY <1>0, <1>1
  <2>2. ASSUME NEW x \in Places(sets), NEW y \in Places(sets), key[x] = key[y] PROVE x = y
    <3>1. ~(x[2] < y[2]) /\ ~(y[2] < x[2])
      BY <1>0, <1>1, <2>2, RoundsInOrder
    <3>2. x[2] = y[2] /\ x[1] = y[1]
      BY <1>0, <1>1, <2>2, <3>1
    <3> QED
      BY <1>1, <3>2
  <2> QED
    BY <1>1, <2>1, <2>2 DEF Keyed
<1>3. RoundRobin(sets, n) = First(all, n)
  BY DEF RoundRobin
<1>4. ASSUME NEW k \in 1..w, sets[k] # <<>>
      PROVE  \E i \in 1..Len(walk) : i <= k /\ walk[i] = sets[k][1]
  <2> DEFINE at == <<k, 1>>
             upto == UpTo(Places(sets), key, at)
  <2>1. at \in Places(sets)
    <3>1. sets[k] \in Seq(A) /\ Len(sets[k]) \in Nat /\ Len(sets[k]) # 0
      BY <1>4, EmptySeq, Places1 DEF Results
    <3>2. 1 \in 1..Len(sets[k])
      BY <3>1
    <3> QED
      BY <3>2, PlacesFinite
  <2>2. key[at] = k
    BY <1>0, <2>1
  <2>3. ASSUME NEW x \in upto PROVE x[2] = 1 /\ x[1] \in 1..k
    <3>1. x \in Places(sets) /\ (x[2] - 1) * w + x[1] <= k
      BY <1>0, <2>2 DEF UpTo
    <3>2. x[2] \in Nat /\ x[1] \in 1..w /\ 1 <= x[2]
      BY <1>1, <3>1
    <3>3. ~(1 < x[2])
      <4>1. (1 - 1) * w + k = k
        BY <1>0
      <4> QED
        BY SMTT(30), <1>0, <3>1, <3>2, <4>1, RoundsInOrder
    <3>4. x[2] = 1 /\ (x[2] - 1) * w = 0
      BY <1>0, <3>2, <3>3
    <3> QED
      BY <3>1, <3>2, <3>4
  <2>4. Cardinality(upto) <= k
    <3> DEFINE f == [x \in upto |-> x[1]]
    <3>1. f \in [upto -> 1..k]
      BY <2>3
    <3>2. \A x, y \in upto : x[1] = y[1] => x = y
      BY <1>1, <2>3 DEF UpTo
    <3>3. f \in Injection(upto, 1..k)
      <4> HIDE DEF upto
      <4> QED
        BY <3>1, <3>2 DEF Injection, IsInjective
    <3>4. IsFiniteSet(1..k) /\ Cardinality(1..k) = k
      BY FS_Interval
    <3> HIDE DEF upto, f
    <3> QED
      BY <3>3, <3>4, FS_Injection
  <2>5. Cardinality(upto) \in 1..Cardinality(Places(sets))
    <3> HIDE DEF key
    <3> QED
      BY <1>2, <2>1, PlaceType
  <2>6. walk[Cardinality(upto)] = sets[at[1]][at[2]] /\ Len(walk) = Cardinality(Places(sets))
    <3> HIDE DEF key
    <3> QED
      BY <1>2, <2>1, WalkOf
  <2>7. walk[Cardinality(upto)] = sets[k][1]
    BY <2>6
  <2> HIDE DEF upto, walk
  <2> QED
    BY <2>4, <2>5, <2>6, <2>7
<1> HIDE DEF key
<1>5. /\ walk \in Seq(A)
      /\ \A p \in Range(walk) : \E k \in 1..w : p \in Range(sets[k])
  BY <1>2, WalkOf
<1> HIDE DEF walk
<1>6. /\ all \in Seq(A) /\ IsInjective(all) /\ Range(all) = Range(walk)
      /\ \A i \in 1..Len(walk) : \E k \in 1..Len(all) : k <= i /\ all[k] = walk[i]
  BY <1>5, DistinctOf
<1> HIDE DEF all
<1>7. /\ First(all, n) \in Seq(A) /\ IsInjective(First(all, n))
      /\ (0 <= n => Len(First(all, n)) <= n)
      /\ Range(First(all, n)) \subseteq Range(all)
  BY <1>6, FirstOf, InjectiveFirst
<1>8. ASSUME NEW k \in 1..w, k <= n, sets[k] # <<>>
      PROVE  \E i \in 1..Len(First(all, n)) : i <= k /\ First(all, n)[i] = sets[k][1]
  <2>1. PICK m \in 1..Len(walk) : m <= k /\ walk[m] = sets[k][1]
    BY <1>4, <1>8
  <2>2. PICK i \in 1..Len(all) : i <= m /\ all[i] = walk[m]
    BY <1>6
  <2>3. /\ 0 <= n => Len(First(all, n)) = IF n < Len(all) THEN n ELSE Len(all)
        /\ \A j \in 1..Len(First(all, n)) : First(all, n)[j] = all[j]
        /\ Len(all) \in Nat /\ Len(walk) \in Nat
    BY <1>5, <1>6, FirstOf, Places1
  <2>4. i \in 1..Len(First(all, n)) /\ i <= k
    BY <1>0, <1>8, <2>1, <2>2, <2>3
  <2> QED
    BY <2>1, <2>2, <2>3, <2>4
<1>9. \A p \in Range(First(all, n)) : \E k \in 1..w : p \in Range(sets[k])
  BY <1>5, <1>6, <1>7
<1> QED
  BY <1>3, <1>7, <1>8, <1>9

-----------------------------------------------------------------------------
(* The window                                                              *)

\* The limits are positive, and the leading passes have room for four chunks, three of an
\* enumerating question.
LEMMA LimitTypes ==
    /\ \A l \in Limits : Limit[l] \in Nat /\ Limit[l] >= 1
    /\ Limit.topK - Limit.minPrimary >= 4 /\ Limit.enumPrimary - Limit.enumReserve >= 3
    /\ Limits = {"topK", "minPrimary", "maxTerms", "perTerm", "termPerUnion", "provisionMerged",
                 "npaSlots", "npaPerUnion", "npaMerged", "wageSlots", "wagePerUnion", "wageMerged",
                 "baseline", "enumPerUnion", "enumMaxUnions", "enumPrimary", "enumReserve", "page",
                 "scanCap"}
<1>1. \A l \in Limits : Limit[l] \in Nat \ {0}
  BY LimitAssumption
<1>2. \A l \in Limits : Limit[l] \in Nat /\ Limit[l] >= 1
  <2> SUFFICES ASSUME NEW l \in Limits PROVE Limit[l] \in Nat /\ Limit[l] >= 1
    OBVIOUS
  <2>1. Limit[l] \in Nat \ {0}
    BY <1>1
  <2> QED
    BY <2>1
<1> QED
  BY <1>2, LimitAssumption DEF Limits

\* Places the leading passes can count on.
Room(q) == IF Enumerates(q) THEN 3 ELSE 4

LEMMA WindowLimits ==
    ASSUME NEW q, NEW A, NEW base \in Seq(A)
    PROVE  /\ Window(q) \in Nat /\ Reserve(q, base) \in Nat
           /\ Reserve(q, base) <= Len(base)
           /\ Window(q) - Reserve(q, base) >= Room(q)
           /\ ReserveCap(q) \in Nat
           /\ Window(q) = PassLimit("primary", q)
           /\ Reserve(q, base) = ReserveCap(q) \/ Reserve(q, base) = Len(base)
<1>1. /\ Limit.topK \in Nat /\ Limit.minPrimary \in Nat
      /\ Limit.enumPrimary \in Nat /\ Limit.enumReserve \in Nat
      /\ Limit.topK - Limit.minPrimary >= 4 /\ Limit.enumPrimary - Limit.enumReserve >= 3
  BY LimitTypes
<1>2. Len(base) \in Nat
  BY Places1
<1>3. Window(q) = PassLimit("primary", q)
  BY DEF Window, PassLimit
<1>4. CASE Enumerates(q)
  BY <1>1, <1>2, <1>3, <1>4 DEF Window, Reserve, ReserveCap, Room
<1>5. CASE ~Enumerates(q)
  BY <1>1, <1>2, <1>3, <1>5 DEF Window, Reserve, ReserveCap, Room
<1> QED
  BY <1>4, <1>5

\* What the window holds: no more than its size, no chunk twice, the reserved chunks of the
\* primary pass, the best chunk of the leading passes, the first pass's best in front.
LEMMA AssembleOf ==
    ASSUME NEW q, NEW A, NEW base \in Seq(A), IsInjective(base),
           Len(base) <= Window(q), NEW lead \in Seq(Seq(A))
    PROVE  /\ Assemble(q, base, lead) \in Seq(A)
           /\ IsInjective(Assemble(q, base, lead))
           /\ Len(Assemble(q, base, lead)) <= Window(q)
           /\ \A p \in Range(Assemble(q, base, lead)) :
                p \in Range(base) \/ \E k \in 1..Len(lead) : p \in Range(lead[k])
           /\ \A i \in 1..Reserve(q, base) : base[i] \in Range(Assemble(q, base, lead))
           /\ \A k \in 1..Len(lead) : k <= Room(q) /\ lead[k] # <<>> =>
                lead[k][1] \in Range(Assemble(q, base, lead))
           /\ \A p : lead # <<>> /\ lead[1] = <<p>> => Assemble(q, base, lead)[1] = p
<1> DEFINE w == Window(q)
           r == Reserve(q, base)
           n == Len(lead)
           a == RoundRobin(lead, w - r)
           c == a \o base
           d == Distinct(c)
           s == First(d, w)
<1>1. /\ w \in Nat /\ r \in Nat /\ r <= Len(base) /\ w - r >= Room(q) /\ Len(base) \in Nat
      /\ Room(q) \in {3, 4}
  BY WindowLimits, Places1 DEF Room
<1>2. n \in Nat /\ DOMAIN lead = 1..n /\ \A k \in 1..n : lead[k] \in Seq(A)
  BY Places1
<1>3. Results(lead, n, A)
  BY <1>2 DEF Results
<1>4. CASE \A k \in DOMAIN lead : lead[k] = <<>>
  <2>1. Assemble(q, base, lead) = base
    BY <1>4 DEF Assemble
  <2>2. \A i \in 1..r : base[i] \in Range(base)
    <3>1. Range(base) = {base[i] : i \in 1..Len(base)}
      BY Places1
    <3> HIDE DEF r
    <3> QED
      BY <1>1, <3>1
  <2>3. lead # <<>> => 1 \in DOMAIN lead
    BY <1>2, EmptySeq
  <2>4. \A p : lead # <<>> => lead[1] # <<p>>
    <3>1. ASSUME NEW p PROVE <<p>> # <<>>
      <4>1. Len(<<p>>) = 1 /\ Len(<<>>) = 0
        OBVIOUS
      <4> QED
        BY <4>1
    <3> QED
      BY <1>4, <2>3, <3>1, Zenon
  <2> HIDE DEF r, w
  <2> QED
    BY <1>2, <1>4, <2>1, <2>2, <2>4 DEF r, w
<1>5. CASE ~\A k \in DOMAIN lead : lead[k] = <<>>
  <2>0. Assemble(q, base, lead) = s
    BY <1>5 DEF Assemble
  <2> HIDE DEF w, r, n
  <2>1. /\ a \in Seq(A) /\ Len(a) <= w - r
        /\ \A p \in Range(a) : \E k \in 1..n : p \in Range(lead[k])
        /\ \A k \in 1..n : k <= w - r /\ lead[k] # <<>> =>
             \E i \in 1..Len(a) : i <= k /\ a[i] = lead[k][1]
    <3> DEFINE m == w - r
    <3>1. m \in Int /\ 0 <= m
      BY <1>1
    <3> HIDE DEF m
    <3>2. /\ RoundRobin(lead, m) \in Seq(A)
          /\ 0 <= m => Len(RoundRobin(lead, m)) <= m
          /\ \A p \in Range(RoundRobin(lead, m)) : \E k \in 1..n : p \in Range(lead[k])
          /\ \A k \in 1..n : k <= m /\ lead[k] # <<>> =>
               \E i \in 1..Len(RoundRobin(lead, m)) : i <= k /\ RoundRobin(lead, m)[i] = lead[k][1]
      BY <1>3, <3>1, RoundRobinOf
    <3> QED
      BY <3>1, <3>2 DEF m
  <2> HIDE DEF a
  <2>2. Len(a) \in Nat /\ DOMAIN a = 1..Len(a) /\ DOMAIN base = 1..Len(base)
    BY <2>1, Places1
  <2>3. /\ c \in Seq(A) /\ Len(c) = Len(a) + Len(base)
        /\ \A i \in 1..Len(a) : c[i] = a[i]
        /\ \A i \in 1..Len(base) : c[Len(a) + i] = base[i]
        /\ \A i \in 1..Len(c) : c[i] \in Range(a) \/ c[i] \in Range(base)
    <3>1. /\ c \in Seq(A) /\ Len(c) = Len(a) + Len(base)
          /\ \A i \in 1..Len(a) : c[i] = a[i]
          /\ \A i \in 1..Len(base) : c[Len(a) + i] = base[i]
          /\ Range(c) = Range(a) \cup Range(base)
      BY <2>1, ConcatOf
    <3> HIDE DEF c
    <3>2. Range(c) = {c[i] : i \in 1..Len(c)}
      BY <3>1, Places1
    <3> QED
      BY <3>1, <3>2
  <2> HIDE DEF c
  <2>4. /\ d \in Seq(A) /\ IsInjective(d) /\ Len(d) \in Nat /\ Range(d) = Range(c)
        /\ \A i \in 1..Len(c) : \E k \in 1..Len(d) : k <= i /\ d[k] = c[i]
    <3>1. /\ d \in Seq(A) /\ IsInjective(d) /\ Range(d) = Range(c)
          /\ \A i \in 1..Len(c) : \E k \in 1..Len(d) : k <= i /\ d[k] = c[i]
      BY <2>3, DistinctOf
    <3>2. Len(d) \in Nat
      BY <3>1, Places1
    <3> QED
      BY <3>1, <3>2
  <2> HIDE DEF d
  <2>5. /\ s \in Seq(A) /\ IsInjective(s) /\ Len(s) <= w
        /\ Len(s) = IF w < Len(d) THEN w ELSE Len(d)
        /\ \A i \in 1..Len(s) : s[i] = d[i]
        /\ Range(s) \subseteq Range(d)
    <3>1. w \in Int /\ 0 <= w
      BY <1>1
    <3>2. /\ s \in Seq(A) /\ Len(s) <= w
          /\ Len(s) = IF w < Len(d) THEN w ELSE Len(d)
          /\ \A i \in 1..Len(s) : s[i] = d[i]
          /\ Range(s) \subseteq Range(d)
      BY <2>4, <3>1, FirstOf
    <3>3. IsInjective(s)
      BY <2>4, <3>1, InjectiveFirst
    <3> QED
      BY <3>2, <3>3
  <2> HIDE DEF s
  <2>6. Range(s) = {s[i] : i \in 1..Len(s)} /\ Range(c) = {c[i] : i \in 1..Len(c)}
    BY <2>3, <2>5, Places1
  <2>7. ASSUME NEW i \in 1..Len(c), i <= w PROVE \E k \in 1..Len(s) : k <= i /\ s[k] = c[i]
    <3>1. PICK k \in 1..Len(d) : k <= i /\ d[k] = c[i]
      BY <2>4
    <3>2. k \in 1..Len(s)
      BY <1>1, <2>2, <2>3, <2>4, <2>5, <2>7, <3>1
    <3> QED
      BY <2>5, <3>1, <3>2
  <2>8. \A p \in Range(s) : p \in Range(base) \/ \E k \in 1..n : p \in Range(lead[k])
    <3>1. \A p \in Range(c) : p \in Range(a) \/ p \in Range(base)
      BY <2>3, <2>6
    <3> QED
      BY <2>1, <2>4, <2>5, <3>1
  <2>9. ASSUME NEW i \in 1..r PROVE base[i] \in Range(s)
    <3>1. i \in 1..Len(base) /\ Len(a) + i \in 1..Len(c) /\ Len(a) + i <= w
      BY <1>1, <2>1, <2>2, <2>3
    <3>2. c[Len(a) + i] = base[i]
      BY <2>3, <3>1
    <3>3. PICK k \in 1..Len(s) : s[k] = c[Len(a) + i]
      BY <2>7, <3>1
    <3> QED
      BY <2>6, <3>2, <3>3
  <2>10. ASSUME NEW k \in 1..n, k <= Room(q), lead[k] # <<>>
         PROVE  \E i \in 1..Len(s) : i <= k /\ s[i] = lead[k][1]
    <3>1. k <= w - r
      BY <1>1, <1>2, <2>10 DEF n
    <3>2. PICK j \in 1..Len(a) : j <= k /\ a[j] = lead[k][1]
      BY <2>1, <2>10, <3>1
    <3>3. j \in 1..Len(c) /\ j <= w /\ c[j] = a[j]
      BY <1>1, <2>1, <2>2, <2>3
    <3>4. PICK i \in 1..Len(s) : i <= j /\ s[i] = c[j]
      BY <2>7, <3>3
    <3>5. i <= k
      BY <2>2, <3>2, <3>4
    <3> QED
      BY <3>2, <3>3, <3>4, <3>5
  <2>11. ASSUME NEW p, lead # <<>>, lead[1] = <<p>> PROVE s[1] = p
    <3>1. 1 \in 1..n /\ 1 <= Room(q) /\ lead[1] # <<>> /\ lead[1][1] = p
      BY <1>1, <1>2, <2>11, EmptySeq DEF n
    <3>2. PICK i \in 1..Len(s) : i <= 1 /\ s[i] = p
      BY <2>10, <3>1
    <3>3. i = 1
      BY <3>2
    <3> QED
      BY <3>2, <3>3
  <2>12. \A k \in 1..n : k <= Room(q) /\ lead[k] # <<>> => lead[k][1] \in Range(s)
    BY <2>6, <2>10
  <2> QED
    BY <2>0, <2>5, <2>8, <2>9, <2>11, <2>12 DEF w, r, n
<1> QED
  BY <1>4, <1>5

-----------------------------------------------------------------------------
(* The passes of a question                                                *)

SearchPass == {"primary", "provision", "nuclear", "wage"}

\* Passes before the secondary ones.
Ahead(q) == IF RateClass(q) = None THEN 1 ELSE 2

LEMMA QuestionType ==
    ASSUME NEW q \in Question
    PROVE  /\ q.named \in Seq(Range(Known)) /\ IsInjective(q.named)
           /\ q.terms \in Nat /\ q.nuclear \in BOOLEAN /\ q.wage \in BOOLEAN
BY RetrievalAssumption

LEMMA WhenOf ==
    ASSUME NEW cond, NEW S, NEW x \in S
    PROVE  /\ When(cond, x) \in Seq(S)
           /\ When(cond, x) \in Seq({x})
           /\ Len(When(cond, x)) = IF cond THEN 1 ELSE 0
           /\ \A i \in 1..Len(When(cond, x)) : When(cond, x)[i] = x
<1>1. CASE cond
  <2>1. When(cond, x) = <<x>>
    BY <1>1 DEF When
  <2>2. <<x>> \in Seq(S) /\ <<x>> \in Seq({x}) /\ Len(<<x>>) = 1 /\ <<x>>[1] = x
    OBVIOUS
  <2>3. \A i \in 1..1 : i = 1
    OBVIOUS
  <2>4. \A i \in 1..Len(<<x>>) : <<x>>[i] = x
    BY <2>2, <2>3, Zenon
  <2> QED
    BY <1>1, <2>1, <2>2, <2>4
<1>2. CASE ~cond
  <2>1. When(cond, x) = <<>>
    BY <1>2 DEF When
  <2> QED
    BY <1>2, <2>1
<1> QED
  BY <1>1, <1>2

LEMMA SecondaryOf ==
    ASSUME NEW q \in Question
    PROVE  /\ Secondary(q) \in Seq({"provision", "nuclear", "wage"})
           /\ Len(Secondary(q)) \in 0..3
           /\ \A k \in 1..Len(Secondary(q)) : Secondary(q)[k] = "nuclear" => q.nuclear
<1>0. q.nuclear \in BOOLEAN /\ q.wage \in BOOLEAN
  BY QuestionType
<1> DEFINE a == When(q.terms > 0, "provision")
           b == When(q.nuclear, "nuclear")
           c == When(q.wage, "wage")
           S == {"provision", "nuclear", "wage"}
<1>1. Len(a) \in 0..1 /\ Len(b) \in 0..1 /\ Len(c) \in 0..1 /\ (Len(b) # 0 => q.nuclear)
  <2>1. "provision" \in S /\ "nuclear" \in S /\ "wage" \in S
    OBVIOUS
  <2>2. Len(b) = (IF q.nuclear THEN 1 ELSE 0)
    BY <2>1, WhenOf
  <2>3. Len(a) = (IF q.terms > 0 THEN 1 ELSE 0) /\ Len(c) = (IF q.wage THEN 1 ELSE 0)
    BY <2>1, WhenOf
  <2> HIDE DEF a, b, c
  <2> QED
    BY <2>2, <2>3
<1>2. /\ a \in Seq(S) /\ (\A i \in 1..Len(a) : a[i] = "provision")
      /\ b \in Seq(S) /\ (\A i \in 1..Len(b) : b[i] = "nuclear")
      /\ c \in Seq(S) /\ (\A i \in 1..Len(c) : c[i] = "wage")
  <2>1. "provision" \in S /\ "nuclear" \in S /\ "wage" \in S
    OBVIOUS
  <2> HIDE DEF S
  <2> QED
    BY <2>1, WhenOf
<1> HIDE DEF a, b, c
<1>3. Secondary(q) = a \o b \o c
  BY DEF Secondary, a, b, c
<1> HIDE DEF S
<1>4. /\ a \o b \in Seq(S) /\ Len(a \o b) = Len(a) + Len(b)
      /\ \A i \in 1..Len(a) + Len(b) : (a \o b)[i] = IF i <= Len(a) THEN a[i] ELSE b[i - Len(a)]
  BY <1>2, ConcatProperties
<1>5. /\ (a \o b) \o c \in Seq(S) /\ Len((a \o b) \o c) = Len(a) + Len(b) + Len(c)
      /\ \A i \in 1..Len(a) + Len(b) + Len(c) :
           ((a \o b) \o c)[i] = IF i <= Len(a) + Len(b) THEN (a \o b)[i] ELSE c[i - (Len(a) + Len(b))]
  BY <1>2, <1>4, ConcatProperties
<1>6. ASSUME NEW i \in 1..Len(a) + Len(b) + Len(c), Secondary(q)[i] = "nuclear" PROVE q.nuclear
  <2>1. Len(a) \in 0..1 /\ Len(b) \in 0..1 /\ Len(c) \in 0..1
    BY <1>1
  <2>2. CASE i <= Len(a)
    <3>1. i \in 1..Len(a) + Len(b) /\ i \in 1..Len(a)
      BY <2>1, <2>2
    <3>2. Secondary(q)[i] = "provision"
      BY <1>2, <1>3, <1>4, <1>5, <3>1
    <3> QED
      BY <1>6, <3>2
  <2>3. CASE ~(i <= Len(a)) /\ i <= Len(a) + Len(b)
    BY <1>1, <2>1, <2>3
  <2>4. CASE ~(i <= Len(a) + Len(b))
    <3>1. i - (Len(a) + Len(b)) \in 1..Len(c)
      BY <2>1, <2>4
    <3>2. Secondary(q)[i] = "wage"
      BY <1>2, <1>3, <1>5, <2>4, <3>1
    <3> QED
      BY <1>6, <3>2
  <2> QED
    BY <2>2, <2>3, <2>4
<1>7. Len(a) + Len(b) + Len(c) \in 0..3
  <2>1. Len(a) \in 0..1 /\ Len(b) \in 0..1 /\ Len(c) \in 0..1
    BY <1>1
  <2>2. \A x, y, z \in 0..1 : x + y + z \in 0..3
    OBVIOUS
  <2> QED
    BY <2>1, <2>2, Zenon
<1> QED
  BY <1>3, <1>5, <1>6, <1>7 DEF S

LEMMA PassesOf ==
    ASSUME NEW q \in Question
    PROVE  /\ Passes(q) \in Seq({"primary", "rate", "provision", "nuclear", "wage"})
           /\ Len(Passes(q)) = Ahead(q) + Len(Secondary(q)) /\ Len(Passes(q)) \in Nat
           /\ Passes(q)[1] = "primary"
           /\ Ahead(q) = 2 => Passes(q)[2] = "rate"
           /\ \A k \in 1..Len(Secondary(q)) : Passes(q)[Ahead(q) + k] = Secondary(q)[k]
<1> DEFINE S == {"primary", "rate", "provision", "nuclear", "wage"}
           p == <<"primary">>
           r == When(RateClass(q) # None, "rate")
           s == Secondary(q)
<1>1. /\ p \in Seq(S) /\ Len(p) = 1 /\ p[1] = "primary"
      /\ r \in Seq(S) /\ Len(r) = Ahead(q) - 1 /\ (Ahead(q) = 2 => r[1] = "rate")
      /\ Ahead(q) \in 1..2
  <2>1. p \in Seq(S) /\ Len(p) = 1 /\ p[1] = "primary" /\ "rate" \in S
    OBVIOUS
  <2>2. Ahead(q) = IF RateClass(q) # None THEN 2 ELSE 1
    BY DEF Ahead
  <2> HIDE DEF S
  <2>3. /\ r \in Seq(S) /\ Len(r) = (IF RateClass(q) # None THEN 1 ELSE 0)
        /\ \A i \in 1..Len(r) : r[i] = "rate"
    BY ZenonT(40), <2>1, WhenOf
  <2> HIDE DEF r
  <2>4. CASE RateClass(q) # None
    BY <2>1, <2>2, <2>3, <2>4
  <2>5. CASE RateClass(q) = None
    BY <2>1, <2>2, <2>3, <2>5
  <2> QED
    BY <2>4, <2>5
<1>2. s \in Seq(S) /\ Len(s) \in Nat
  <2>1. {"provision", "nuclear", "wage"} \subseteq S
    OBVIOUS
  <2>2. s \in Seq({"provision", "nuclear", "wage"}) /\ Len(s) \in 0..3
    BY SecondaryOf
  <2> HIDE DEF S, s
  <2> QED
    BY <2>1, <2>2, SeqMonotonic
<1>3. Passes(q) = p \o r \o s
  BY DEF Passes
<1> HIDE DEF S, p, r, s
<1>4. /\ p \o r \in Seq(S) /\ Len(p \o r) = Len(p) + Len(r)
      /\ \A i \in 1..Len(p) + Len(r) : (p \o r)[i] = IF i <= Len(p) THEN p[i] ELSE r[i - Len(p)]
  BY <1>1, ConcatProperties
<1>5. /\ (p \o r) \o s \in Seq(S) /\ Len((p \o r) \o s) = Len(p) + Len(r) + Len(s)
      /\ \A i \in 1..Len(p) + Len(r) + Len(s) :
           ((p \o r) \o s)[i] = IF i <= Len(p) + Len(r) THEN (p \o r)[i] ELSE s[i - (Len(p) + Len(r))]
  BY <1>2, <1>4, ConcatProperties
<1>6. Len(p) + Len(r) = Ahead(q) /\ Ahead(q) + Len(s) \in Nat
  BY <1>1, <1>2
<1>7. Passes(q)[1] = "primary" /\ (Ahead(q) = 2 => Passes(q)[2] = "rate")
  <2>1. 1 \in 1..Len(p) + Len(r) + Len(s) /\ 1 \in 1..Len(p) + Len(r) /\ 1 <= Len(p) /\ 1 <= Len(p) + Len(r)
    BY <1>1, <1>2
  <2>2. Passes(q)[1] = "primary"
    BY <1>1, <1>3, <1>4, <1>5, <2>1
  <2>3. ASSUME Ahead(q) = 2 PROVE Passes(q)[2] = "rate"
    <3>1. /\ 2 \in 1..Len(p) + Len(r) + Len(s) /\ 2 \in 1..Len(p) + Len(r)
          /\ ~(2 <= Len(p)) /\ 2 <= Len(p) + Len(r) /\ 2 - Len(p) = 1
      BY <1>1, <1>2, <2>3
    <3> QED
      BY <1>1, <1>3, <1>4, <1>5, <2>3, <3>1
  <2> QED
    BY <2>2, <2>3
<1>8. ASSUME NEW k \in 1..Len(s) PROVE Passes(q)[Ahead(q) + k] = s[k]
  <2>1. /\ Ahead(q) + k \in 1..Ahead(q) + Len(s) /\ ~(Ahead(q) + k <= Ahead(q))
        /\ Ahead(q) + k - Ahead(q) = k
    BY <1>1, <1>2
  <2> QED
    BY <1>3, <1>5, <1>6, <2>1
<1> QED
  BY <1>3, <1>5, <1>6, <1>7, <1>8 DEF S, s

-----------------------------------------------------------------------------
(* One read                                                                *)

\* What a question admits, whatever pass brings it.
Admits(q, p) ==
    /\ q.named # <<>> => Chunk[p].union \in Range(q.named)
    /\ q.scope # None => Chunk[p].scope \in {None, q.scope}
    /\ Chunk[p].kind = "npa" => q.nuclear
    /\ Chunk[p].kind # "wage" => Chunk[p].dates = "current"

LEMMA FanOf ==
    ASSUME NEW q \in Question, NEW pass
    PROVE  /\ Fan(pass, q) \in Seq(Range(Known) \cup {None})
           /\ q.named # <<>> => Fan(pass, q) = q.named
<1> DEFINE U == Range(Known) \cup {None}
<1>1. Known \in Seq(Range(Known)) /\ Limit.enumMaxUnions \in Nat
  BY LimitAssumption, LimitTypes
<1>2. Range(Known) \subseteq U /\ None \in U
  OBVIOUS
<1>3. q.named \in Seq(Range(Known))
  BY QuestionType
<1> HIDE DEF U
<1>4. First(Known, Limit.enumMaxUnions) \in Seq(Range(Known))
  BY <1>1, FirstOf
<1>5. First(Known, Limit.enumMaxUnions) \in Seq(U) /\ <<None>> \in Seq(U) /\ q.named \in Seq(U)
  <2>1. Seq(Range(Known)) \subseteq Seq(U)
    BY <1>2, SeqMonotonic
  <2>2. <<None>> \in Seq(U)
    BY <1>2
  <2> QED
    BY <1>3, <1>4, <2>1, <2>2
<1>6. CASE pass = "primary" /\ Enumerates(q)
  <2>1. q.named = <<>> /\ Fan(pass, q) = First(Known, Limit.enumMaxUnions)
    BY <1>6 DEF Fan, Enumerates
  <2> QED
    BY <1>5, <2>1 DEF U
<1>7. CASE ~(pass = "primary" /\ Enumerates(q))
  <2>1. Fan(pass, q) = IF q.named = <<>> THEN <<None>> ELSE q.named
    BY <1>7 DEF Fan
  <2> QED
    BY <1>5, <2>1 DEF U
<1> QED
  BY <1>6, <1>7

\* What a read may bring, the question admits, and it is of the read's union.
LEMMA EligibleAdmitted ==
    ASSUME NEW q \in Question, NEW pass \in SearchPass, pass = "nuclear" => q.nuclear,
           NEW k \in DOMAIN Fan(pass, q), NEW p, Eligible(pass, q, Fan(pass, q)[k], p)
    PROVE  Admits(q, p) /\ (q.named # <<>> => Chunk[p].union = q.named[k])
<1> DEFINE u == Fan(pass, q)[k]
<1>1. /\ OfUnion(u, p) /\ InScope(q, p)
      /\ pass \in {"primary", "provision"} => InForce(p) /\ (q.nuclear \/ Chunk[p].kind # "npa")
      /\ pass = "nuclear" => InForce(p) /\ Chunk[p].kind = "npa"
      /\ pass = "wage" => Chunk[p].kind = "wage"
  BY DEF Eligible
<1>2. q.named # <<>> => Chunk[p].union = q.named[k] /\ q.named[k] \in Range(q.named)
  <2> SUFFICES ASSUME q.named # <<>> PROVE Chunk[p].union = q.named[k] /\ q.named[k] \in Range(q.named)
    OBVIOUS
  <2>1. Fan(pass, q) = q.named /\ k \in DOMAIN q.named /\ u = q.named[k]
    BY FanOf
  <2>2. q.named \in Seq(Range(Known)) /\ None \notin Range(Known)
    BY QuestionType, LimitAssumption
  <2>3. q.named[k] \in Range(Known) /\ q.named[k] \in Range(q.named)
    BY <2>1, <2>2, Places1 DEF Range
  <2>4. u # None
    BY <2>1, <2>2, <2>3
  <2> QED
    BY <1>1, <2>1, <2>3, <2>4 DEF OfUnion
<1>3. q.scope # None => Chunk[p].scope \in {None, q.scope}
  BY <1>1 DEF InScope
<1>4. Chunk[p].kind # "wage" => Chunk[p].dates = "current"
  BY <1>1 DEF InForce, SearchPass
<1>5. Chunk[p].kind = "npa" => q.nuclear
  BY <1>1 DEF SearchPass
<1> HIDE DEF u
<1> QED
  BY <1>2, <1>3, <1>4, <1>5 DEF Admits

LEMMA ReadLimits ==
    ASSUME NEW q, NEW pass \in SearchPass
    PROVE  ReadLimit(pass, q) \in Nat /\ PassLimit(pass, q) \in Nat
<1>1. /\ Limit.topK \in Nat /\ Limit.enumPerUnion \in Nat /\ Limit.enumPrimary \in Nat
      /\ Limit.perTerm \in Nat /\ Limit.termPerUnion \in Nat /\ Limit.provisionMerged \in Nat
      /\ Limit.npaSlots \in Nat /\ Limit.npaPerUnion \in Nat /\ Limit.npaMerged \in Nat
      /\ Limit.wageSlots \in Nat /\ Limit.wagePerUnion \in Nat /\ Limit.wageMerged \in Nat
  BY LimitTypes
<1>2. CASE pass = "primary"
  BY <1>1, <1>2 DEF ReadLimit, PassLimit
<1>3. CASE pass = "provision"
  BY <1>1, <1>3 DEF ReadLimit, PassLimit
<1>4. CASE pass = "nuclear"
  BY <1>1, <1>4 DEF ReadLimit, PassLimit
<1>5. CASE pass = "wage"
  BY <1>1, <1>5 DEF ReadLimit, PassLimit
<1> QED
  BY <1>2, <1>3, <1>4, <1>5 DEF SearchPass

\* The reserved baseline comes from the candidates too.
LEMMA WageTopOf ==
    ASSUME NEW q, NEW A, NEW cand \in Seq(A), NEW n \in Nat
    PROVE  /\ WageTop(q, cand, n) \in Seq(A)
           /\ Range(WageTop(q, cand, n)) \subseteq Range(cand)
<1> DEFINE B(b) == Among(cand, {p \in Range(cand) : Boost(q, p) = b})
           best == B(3) \o B(2) \o B(1) \o B(0)
           top == First(best, n)
           places == {Chunk[p].place : p \in Range(top)}
           tables == {p \in Range(cand) : Chunk[p].class = "journeyman"}
           near == {p \in tables : Chunk[p].place \in places}
           all == Among(cand, near) \o Among(cand, tables \ near)
           base == First(all, Limit.baseline)
<1>1. \A b : B(b) \in Seq(A) /\ Range(B(b)) \subseteq Range(cand)
  BY AmongOf
<1>2. best \in Seq(A) /\ Range(best) \subseteq Range(cand)
  <2> HIDE DEF B
  <2>1. ASSUME NEW s \in Seq(A), NEW t \in Seq(A),
               Range(s) \subseteq Range(cand), Range(t) \subseteq Range(cand)
        PROVE  s \o t \in Seq(A) /\ Range(s \o t) \subseteq Range(cand)
    <3>1. s \o t \in Seq(A) /\ Range(s \o t) = Range(s) \cup Range(t)
      BY ConcatOf
    <3> QED
      BY <2>1, <3>1
  <2> DEFINE two == B(3) \o B(2)
             three == two \o B(1)
  <2>2. two \in Seq(A) /\ Range(two) \subseteq Range(cand)
    BY <1>1, <2>1, Zenon
  <2> HIDE DEF two
  <2>3. three \in Seq(A) /\ Range(three) \subseteq Range(cand)
    BY <1>1, <2>1, <2>2, Zenon
  <2>4. best = three \o B(0)
    BY DEF two, three
  <2> HIDE DEF three, best
  <2> QED
    BY <1>1, <2>1, <2>3, <2>4, Zenon
<1>3. top \in Seq(A) /\ Range(top) \subseteq Range(cand)
  <2> HIDE DEF best
  <2> QED
    BY <1>2, FirstOf
<1>4. WageTop(q, cand, n) = IF q.premium THEN WithBaseline(cand, top, n) ELSE top
  BY DEF WageTop
<1> HIDE DEF top
<1>5. all \in Seq(A) /\ Range(all) \subseteq Range(cand)
  <2>1. \A S : Among(cand, S) \in Seq(A) /\ Range(Among(cand, S)) \subseteq Range(cand)
    BY AmongOf
  <2> HIDE DEF near, tables
  <2> QED
    BY <2>1, ConcatOf
<1>6. base \in Seq(A) /\ Range(base) \subseteq Range(cand) /\ Len(base) \in Nat
  <2>1. Limit.baseline \in Nat
    BY LimitTypes
  <2> HIDE DEF all
  <2>2. base \in Seq(A) /\ Range(base) \subseteq Range(cand)
    BY <1>5, <2>1, FirstOf
  <2> QED
    BY <2>2, Places1
<1>7. WithBaseline(cand, top, n) =
        IF Range(top) \cap tables # {} THEN top
        ELSE IF base = <<>> THEN top
        ELSE First(top, n - Len(base)) \o base
  BY DEF WithBaseline
<1> HIDE DEF base, tables
<1>8. First(top, n - Len(base)) \in Seq(A) /\ Range(First(top, n - Len(base))) \subseteq Range(cand)
  <2>1. n - Len(base) \in Int
    BY <1>6
  <2> QED
    BY <1>3, <2>1, FirstOf
<1>9. /\ First(top, n - Len(base)) \o base \in Seq(A)
      /\ Range(First(top, n - Len(base)) \o base) \subseteq Range(cand)
  BY <1>6, <1>8, ConcatOf
<1> QED
  BY <1>3, <1>4, <1>7, <1>9

LEMMA SearchOf ==
    ASSUME NEW q, NEW pass \in SearchPass, NEW u, NEW A, NEW order \in Seq(A), NEW store0
    PROVE  /\ Search(pass, q, u, order, store0) \in Seq(A)
           /\ \A p \in Range(Search(pass, q, u, order, store0)) : p \in store0 /\ Eligible(pass, q, u, p)
<1> DEFINE S == {p \in store0 : Eligible(pass, q, u, p)}
           cand == Among(order, S)
           n == ReadLimit(pass, q)
<1>1. Search(pass, q, u, order, store0) = IF pass = "wage" THEN WageTop(q, cand, n) ELSE First(cand, n)
  BY DEF Search
<1>2. n \in Nat
  BY ReadLimits
<1>3. \A p \in S : p \in store0 /\ Eligible(pass, q, u, p)
  OBVIOUS
<1> HIDE DEF S, n
<1>4. cand \in Seq(A) /\ Range(cand) \subseteq S
  BY AmongOf
<1> HIDE DEF cand
<1>5. /\ WageTop(q, cand, n) \in Seq(A) /\ Range(WageTop(q, cand, n)) \subseteq Range(cand)
      /\ First(cand, n) \in Seq(A) /\ Range(First(cand, n)) \subseteq Range(cand)
  <2>1. WageTop(q, cand, n) \in Seq(A) /\ Range(WageTop(q, cand, n)) \subseteq Range(cand)
    BY <1>2, <1>4, WageTopOf
  <2>2. n \in Int
    BY <1>2
  <2>3. First(cand, n) \in Seq(A) /\ Range(First(cand, n)) \subseteq Range(cand)
    BY <1>4, <2>2, FirstOf
  <2> QED
    BY <2>1, <2>3
<1> QED
  BY <1>1, <1>3, <1>4, <1>5

\* A merge holds what its reads brought, once; a chunk of the merged primary pass comes of
\* a read k that has a chunk among the first k.
LEMMA MergedOf ==
    ASSUME NEW q \in Question, NEW pass \in SearchPass, NEW A, NEW back,
           \A r \in Reads(pass, q) : back[r] \in Seq(A)
    PROVE  /\ Merged(pass, q, back) \in Seq(A)
           /\ IsInjective(Merged(pass, q, back))
           /\ Len(Merged(pass, q, back)) <= PassLimit(pass, q)
           /\ \A p \in Range(Merged(pass, q, back)) : \E r \in Reads(pass, q) : p \in Range(back[r])
           /\ pass = "primary" =>
                \A p \in Range(Merged(pass, q, back)) : \E k \in DOMAIN Fan(pass, q) :
                  /\ p \in Range(back[<<k, 0>>])
                  /\ k <= PassLimit(pass, q) =>
                       \E i \in 1..Len(Merged(pass, q, back)) :
                         i <= k /\ Merged(pass, q, back)[i] \in Range(back[<<k, 0>>])
<1> DEFINE n == PassLimit(pass, q)
           fan == Fan(pass, q)
           w == Len(fan)
           vectors == IF pass = "provision" THEN Terms(q) ELSE 1
           V(v) == IF pass = "provision" THEN v ELSE 0
           of(k) == [v \in 1..vectors |-> back[<<k, V(v)>>]]
           one(k) == RoundRobin(of(k), n)
           sets == [k \in DOMAIN fan |-> one(k)]
           m == RoundRobin(sets, n)
<1>1. Merged(pass, q, back) = m
  BY DEF Merged
<1>2. n \in Nat
  BY ReadLimits
<1>3. w \in Nat /\ DOMAIN fan = 1..w
  BY FanOf, Places1
<1>4. vectors \in Nat
  BY QuestionType, LimitTypes DEF Terms
<1>5. ASSUME NEW k \in 1..w, NEW v \in 1..vectors PROVE <<k, V(v)>> \in Reads(pass, q)
  <2>1. V(v) \in Vectors(pass, q)
    BY DEF Vectors
  <2>2. k \in DOMAIN Fan(pass, q)
    BY <1>3
  <2> HIDE DEF V
  <2> QED
    BY <2>1, <2>2 DEF Reads
<1>6. pass = "primary" => vectors = 1 /\ \A v : V(v) = 0
  OBVIOUS
<1> HIDE DEF n, w, vectors, V
<1>7. ASSUME NEW k \in 1..w PROVE Results(of(k), vectors, A)
  <2>1. \A v \in 1..vectors : back[<<k, V(v)>>] \in Seq(A)
    BY <1>5
  <2>2. of(k) \in [1..vectors -> Seq(A)]
    BY <2>1
  <2>3. of(k) \in Seq(Seq(A)) /\ Len(of(k)) = vectors
    BY <1>4, <2>2
  <2> HIDE DEF of
  <2> QED
    BY <1>4, <2>2, <2>3 DEF Results
<1>8. ASSUME NEW k \in 1..w
      PROVE  /\ one(k) \in Seq(A)
             /\ \A p \in Range(one(k)) : \E v \in 1..vectors : p \in Range(back[<<k, V(v)>>])
  <2>1. n \in Int
    BY <1>2
  <2>2. \A v \in 1..vectors : of(k)[v] = back[<<k, V(v)>>]
    OBVIOUS
  <2>3. Results(of(k), vectors, A)
    BY <1>7
  <2> HIDE DEF of
  <2>4. /\ one(k) \in Seq(A)
        /\ \A p \in Range(one(k)) : \E v \in 1..vectors : p \in Range(of(k)[v])
    BY <2>1, <2>3, RoundRobinOf
  <2> QED
    BY <2>2, <2>4
<1> HIDE DEF one
<1>9. Results(sets, w, A)
  <2>1. sets \in [1..w -> Seq(A)]
    BY <1>3, <1>8
  <2>2. sets \in Seq(Seq(A)) /\ Len(sets) = w
    BY <1>3, <2>1
  <2> HIDE DEF sets
  <2> QED
    BY <1>3, <2>1, <2>2 DEF Results
<1>10. \A k \in 1..w : sets[k] = one(k)
  BY <1>3
<1> HIDE DEF sets, fan
<1>11. /\ m \in Seq(A) /\ IsInjective(m) /\ Len(m) <= n
       /\ \A p \in Range(m) : \E k \in 1..w : p \in Range(sets[k])
       /\ \A k \in 1..w : k <= n /\ sets[k] # <<>> => \E i \in 1..Len(m) : i <= k /\ m[i] = sets[k][1]
  <2>1. n \in Int /\ 0 <= n
    BY <1>2
  <2> QED
    BY <1>9, <2>1, RoundRobinOf
<1> HIDE DEF m
<1>12. ASSUME NEW p \in Range(m) PROVE \E r \in Reads(pass, q) : p \in Range(back[r])
  <2>1. PICK k \in 1..w : p \in Range(one(k))
    BY <1>10, <1>11
  <2>2. PICK v \in 1..vectors : p \in Range(back[<<k, V(v)>>])
    BY <1>8, <2>1
  <2> QED
    BY <1>5, <2>2
<1>13. ASSUME pass = "primary", NEW p \in Range(m)
       PROVE  \E k \in 1..w : /\ p \in Range(back[<<k, 0>>])
                              /\ k <= n => \E i \in 1..Len(m) : i <= k /\ m[i] \in Range(back[<<k, 0>>])
  <2>1. PICK k \in 1..w : p \in Range(one(k))
    BY <1>10, <1>11
  <2>2. \A x \in Range(one(k)) : x \in Range(back[<<k, 0>>])
    BY <1>6, <1>8, <1>13
  <2>3. ASSUME k <= n PROVE \E i \in 1..Len(m) : i <= k /\ m[i] \in Range(back[<<k, 0>>])
    <3>1. one(k) \in Seq(A)
      BY <1>8
    <3>2. DOMAIN one(k) # {} /\ Len(one(k)) \in Nat /\ DOMAIN one(k) = 1..Len(one(k))
      BY <2>1, <3>1, Places1 DEF Range
    <3>3. 1 \in DOMAIN one(k)
      BY <3>2
    <3>4. one(k) # <<>> /\ one(k)[1] \in Range(one(k))
      BY <3>3 DEF Range
    <3>5. PICK i \in 1..Len(m) : i <= k /\ m[i] = one(k)[1]
      BY <1>10, <1>11, <2>3, <3>4
    <3> QED
      BY <2>2, <3>4, <3>5
  <2> QED
    BY <2>1, <2>2, <2>3
<1>14. pass = "primary" =>
         \A p \in Range(m) : \E k \in DOMAIN fan :
           /\ p \in Range(back[<<k, 0>>])
           /\ k <= n => \E i \in 1..Len(m) : i <= k /\ m[i] \in Range(back[<<k, 0>>])
  BY <1>3, <1>13
<1> QED
  BY <1>1, <1>11, <1>12, <1>14 DEF n, fan

-----------------------------------------------------------------------------
(* The inductive invariant                                                 *)

\* What a pass yields, what the lookup finds and whether it sees all tables, of a question
\* and a collection.
Look(pass, q, by, store0) ==
    Merged(pass, q, [r \in Reads(pass, q) |->
                        Search(pass, q, Fan(pass, q)[r[1]], by[r[2]], store0)])

Fits(q) == Cardinality({p \in Point : RateTable(q, p)}) <= Limit.scanCap
Hits(q, store0) == {p \in store0 : RateTable(q, p) /\ RateMatch(q, p)}
OneHit(q, store0) ==
    IF RateClass(q) = None \/ Cardinality(Hits(q, store0)) > 1 THEN {} ELSE Hits(q, store0)

\* Tables the scroll has passed.
Passed(q, from) == {p \in Point : RateTable(q, p) /\ p < from}

\* Passes that are done.
Done == Len(Passes(question)) - Len(todo)

\* What runs and what it runs on; with no call of ingestion it is the whole corpus.
Asking ==
    /\ question \in Question
    /\ rank \in [0..Limit.maxTerms -> Order]
    /\ collection \subseteq Point
    /\ changes \in 0..MaxChanges
    /\ status \in {"reading", "answered", "failed"}
    /\ changes = 0 => collection = Point

\* The passes still to run are the last ones.
Remaining ==
    /\ todo \in Seq(Range(Passes(question)))
    /\ Done \in 0..Len(Passes(question))
    /\ \A i \in 1..Len(todo) : todo[i] = Passes(question)[Done + i]

\* What a read of the running pass has brought passes its filter.
HitsSound ==
    /\ hits = [r \in DOMAIN hits |-> hits[r]]
    /\ DOMAIN hits # {} => /\ todo # <<>> /\ Head(todo) # "rate"
                           /\ DOMAIN hits \subseteq Reads(Head(todo), question)
    /\ \A r \in DOMAIN hits :
         /\ hits[r] \in Seq(Point)
         /\ \A p \in Range(hits[r]) :
              Eligible(Head(todo), question, Fan(Head(todo), question)[r[1]], p)
         /\ changes = 0 => hits[r] = Search(Head(todo), question, Fan(Head(todo), question)[r[1]],
                                            rank[r[2]], collection)

\* The lookup has seen the tables up to its offset, and keeps the only match among them.
ScanSound ==
    /\ scan = [from |-> scan.from, count |-> scan.count, match |-> scan.match]
    /\ scan.from \in Nat /\ scan.count \in Nat
    /\ Done # 1 \/ Ahead(question) = 1 => scan = NoMatch
    /\ scan.match \subseteq Point /\ Cardinality(scan.match) <= 1
    /\ \A p \in scan.match : RateTable(question, p)
    /\ changes = 0 => /\ scan.count = Cardinality(Passed(question, scan.from))
                      /\ scan.match = {p \in Passed(question, scan.from) : RateMatch(question, p)}

\* A chunk of each of the first unions compared that has one leads the primary result.
PrimarySound ==
    /\ primary \in Seq(Point) /\ IsInjective(primary)
    /\ Len(primary) <= PassLimit("primary", question)
    /\ \A p \in Range(primary) : Admits(question, p)
    /\ \A k \in DOMAIN question.named :
         k <= Limit.minPrimary /\ (\E p \in Range(primary) : Chunk[p].union = question.named[k])
            => \E i \in 1..Len(primary) : i <= k /\ Chunk[primary[i]].union = question.named[k]
    /\ Done = 0 => primary = <<>>
    /\ Done > 0 /\ changes = 0 => primary = Look("primary", question, rank, collection)

\* The pinned chunk, if there is one, then a result for each secondary pass that is done.
LeadingSound ==
    /\ leading \in Seq(Seq(Point))
    /\ \A k \in 1..Len(leading) : \A p \in Range(leading[k]) : Admits(question, p)
    /\ pinned \subseteq Point /\ Cardinality(pinned) <= 1 /\ Dated(pinned) = pinned
    /\ Done < Ahead(question) => leading = <<>> /\ pinned = {}
    /\ RateClass(question) = None => pinned = {}
    /\ Done >= Ahead(question) =>
         /\ Len(leading) = Len(Pinning(pinned)) + Done - Ahead(question)
         /\ \A i \in 1..Len(Pinning(pinned)) : leading[i] = Pinning(pinned)[i]
         /\ changes = 0 /\ Fits(question) => pinned = Dated(OneHit(question, collection))
         /\ changes = 0 => \A k \in 1..Done - Ahead(question) :
              leading[Len(Pinning(pinned)) + k]
                = Look(Secondary(question)[k], question, rank, collection)

\* The answer is the merge of all results.
Merging ==
    IF Answered THEN todo = <<>> /\ sources = Assemble(question, primary, leading)
    ELSE sources = <<>>

IInv == /\ Asking
        /\ Remaining
        /\ HitsSound
        /\ ScanSound
        /\ PrimarySound
        /\ LeadingSound
        /\ Merging

-----------------------------------------------------------------------------
(* The scroll over the rate tables                                         *)

LEMMA PointFinite == IsFiniteSet(Point) /\ Point \subseteq Nat
<1>1. Chunk \in Seq(Range(Chunk))
  BY LimitAssumption
<1>2. Len(Chunk) \in Nat /\ DOMAIN Chunk = 1..Len(Chunk) /\ IsFiniteSet(DOMAIN Chunk)
  BY <1>1, Places1
<1> QED
  BY <1>2 DEF Point

\* A page is the first of the tables that are left; only when none is left it is empty.
LEMMA PageOf ==
    ASSUME NEW rest, rest \subseteq Nat, IsFiniteSet(rest), NEW size \in Nat, size >= 1,
           NEW page, page \subseteq rest,
           \A p \in rest : p \in page <=> Cardinality({t \in rest : t < p}) < size
    PROVE  /\ IsFiniteSet(page) /\ page \subseteq rest
           /\ page # rest => \E m \in page : \A t \in page : t <= m
           /\ \A m \in page, t \in rest : t <= m => t \in page
<1>1. page \in SUBSET rest
  OBVIOUS
<1>2. IsFiniteSet(page)
  BY <1>1, FS_Subset
<1>3. ASSUME page # rest PROVE page # {}
  <2>1. rest # {} /\ rest \subseteq Int
    <3>1. rest = {} => page = rest
      BY <1>1, Zenon
    <3>2. rest \subseteq Int
      OBVIOUS
    <3> QED
      BY <1>3, <3>1, <3>2
  <2>2. PICK l \in rest : \A t \in rest : l <= t
    BY <2>1, LeastNumber
  <2>3. ASSUME NEW t \in rest, t < l PROVE FALSE
    <3>1. l \in Int /\ t \in Int /\ l <= t
      BY <2>1, <2>2
    <3> QED
      BY <2>3, <3>1
  <2> DEFINE below == {t \in rest : t < l}
  <2>4. below = {}
    BY <2>3
  <2>5. l \in page <=> Cardinality(below) < size
    OBVIOUS
  <2> HIDE DEF below
  <2>6. Cardinality(below) = 0
    BY <2>4, FS_EmptySet
  <2> QED
    BY <2>5, <2>6
<1>4. ASSUME page # rest PROVE \E m \in page : \A t \in page : t <= m
  <2>1. page \subseteq Int
    BY <1>1
  <2> QED
    BY <1>2, <1>3, <1>4, <2>1, GreatestNumber
<1>5. ASSUME NEW m \in page, NEW t \in rest, t <= m PROVE t \in page
  <2> DEFINE a == {s \in rest : s < t}
             b == {s \in rest : s < m}
  <2>0. m \in Nat /\ t \in Nat /\ \A s \in rest : s \in Nat
    OBVIOUS
  <2>1. a \in SUBSET b /\ b \in SUBSET rest /\ a \in SUBSET rest
    <3>1. ASSUME NEW s \in a PROVE s \in b
      BY <1>5, <2>0
    <3> QED
      BY <3>1
  <2>2. IsFiniteSet(b) /\ IsFiniteSet(a)
    BY <2>1, FS_Subset
  <2>3. Cardinality(a) <= Cardinality(b) /\ Cardinality(a) \in Nat /\ Cardinality(b) \in Nat
    BY <2>1, <2>2, FS_Subset, FS_CardinalityType
  <2>4. (m \in page <=> Cardinality(b) < size) /\ (t \in page <=> Cardinality(a) < size)
    OBVIOUS
  <2> HIDE DEF a, b
  <2> QED
    BY <2>3, <2>4
<1> QED
  BY <1>1, <1>2, <1>4, <1>5

\* What the scroll knows after one more page.
LEMMA ScrollOf ==
    ASSUME Asking, ScanSound,
           NEW found, found = scan.match \cup {p \in Page : RateMatch(question, p)}
    PROVE  /\ found \subseteq Point /\ IsFiniteSet(found)
           /\ \A p \in found : RateTable(question, p)
           /\ changes = 0 => found \subseteq Matches
           /\ changes = 0 /\ Covered /\ LastPage(Page) => found = Matches
           /\ ~LastPage(Page) => After(Page) \in Nat /\ Cardinality(Page) \in Nat
           /\ ~LastPage(Page) /\ changes = 0 =>
                /\ scan.count + Cardinality(Page) = Cardinality(Passed(question, After(Page)))
                /\ found = {p \in Passed(question, After(Page)) : RateMatch(question, p)}
<1> DEFINE rest == {p \in collection : p >= scan.from /\ RateTable(question, p)}
           page == Page
           all == {p \in Point : RateTable(question, p)}
           seen == Passed(question, scan.from)
<1>0. /\ IsFiniteSet(Point) /\ Point \subseteq Nat /\ collection \subseteq Point
      /\ Limit.page \in Nat /\ Limit.page >= 1 /\ Limit.scanCap \in Nat
      /\ scan.from \in Nat /\ scan.count \in Nat /\ scan.match \subseteq Point
      /\ \A p \in scan.match : RateTable(question, p)
      /\ changes = 0 => /\ collection = Point
                        /\ scan.count = Cardinality(seen)
                        /\ scan.match = {p \in seen : RateMatch(question, p)}
  BY PointFinite, LimitTypes DEF Asking, ScanSound
<1>1. rest \in SUBSET Point /\ IsFiniteSet(rest) /\ rest \subseteq Nat
  <2>1. rest \in SUBSET Point
    BY <1>0
  <2> HIDE DEF rest
  <2> QED
    BY <1>0, <2>1, FS_Subset
<1>2. page = {p \in rest : Cardinality({t \in rest : t < p}) < Limit.page}
  BY DEF Page
<1>3. LastPage(page) <=> rest = page \/ scan.count + Cardinality(page) >= Limit.scanCap
  BY DEF LastPage
<1>4. \A p \in Point : p \in rest => RateTable(question, p) /\ p >= scan.from
  OBVIOUS
<1>5. changes = 0 => \A p \in all : p \in rest \/ p \in seen
  <2> SUFFICES ASSUME changes = 0, NEW p \in all, p \notin rest PROVE p \in seen
    OBVIOUS
  <2>1. p \in collection /\ p \in Nat /\ RateTable(question, p)
    BY <1>0
  <2>2. p < scan.from
    BY <1>0, <2>1
  <2> QED
    BY <2>2 DEF Passed
<1>6. changes = 0 => Matches = {p \in all : RateMatch(question, p)}
  BY <1>0 DEF Matches
<1>7. seen \in SUBSET all /\ all \in SUBSET Point /\ (changes = 0 => rest \in SUBSET all)
      /\ seen \cap rest = {}
  <2>1. seen \in SUBSET all /\ all \in SUBSET Point
    BY DEF Passed
  <2>2. changes = 0 => rest \in SUBSET all
    BY <1>0
  <2>3. ASSUME NEW p \in seen, p \in rest PROVE FALSE
    <3>1. p < scan.from /\ p >= scan.from /\ p \in Nat
      BY <1>0, <2>1, <2>3 DEF Passed
    <3> QED
      BY <1>0, <3>1
  <2> QED
    BY <2>1, <2>2, <2>3
<1>8. Covered <=> Cardinality(all) <= Limit.scanCap
  BY DEF Covered
<1>9. \A f : Passed(question, f) = {p \in all : p < f}
  BY DEF Passed
<1> HIDE DEF rest, page, all, seen
<1>10. /\ IsFiniteSet(page) /\ page \subseteq rest
       /\ page # rest => \E m \in page : \A t \in page : t <= m
       /\ \A m \in page, t \in rest : t <= m => t \in page
  <2>1. page \subseteq rest /\ \A p \in rest : p \in page <=> Cardinality({t \in rest : t < p}) < Limit.page
    BY <1>2
  <2> QED
    BY ZenonT(40), <1>0, <1>1, <2>1, PageOf
<1>11. found = scan.match \cup {p \in page : RateMatch(question, p)}
  BY DEF page
<1>12. found \subseteq Point /\ \A p \in found : RateTable(question, p)
  BY <1>0, <1>1, <1>4, <1>10, <1>11
<1>13. IsFiniteSet(found)
  BY <1>0, <1>12, FS_Subset
<1>14. IsFiniteSet(all) /\ IsFiniteSet(seen) /\ Cardinality(page) \in Nat /\ Cardinality(seen) \in Nat
       /\ Cardinality(all) \in Nat
  BY <1>0, <1>7, <1>10, FS_Subset, FS_CardinalityType
<1>15. Cardinality(seen \cup page) = Cardinality(seen) + Cardinality(page)
  <2>1. seen \cap page = {}
    BY <1>7, <1>10
  <2>2. /\ Cardinality(seen \cup page) = Cardinality(seen) + Cardinality(page) - Cardinality(seen \cap page)
        /\ Cardinality(seen \cap page) = 0
    BY <1>10, <1>14, <2>1, FS_Union, FS_EmptySet
  <2> QED
    BY <1>14, <2>2
<1>16. changes = 0 => found \subseteq Matches
  BY <1>0, <1>6, <1>7, <1>10, <1>11
<1>17. ASSUME changes = 0, Covered, LastPage(page) PROVE found = Matches
  <2>1. seen \cup page = all
    <3>1. CASE rest = page
      BY <1>5, <1>7, <1>17, <3>1
    <3>2. CASE scan.count + Cardinality(page) >= Limit.scanCap
      <4>1. seen \cup page \in SUBSET all
        BY <1>7, <1>10, <1>17
      <4>2. Cardinality(seen \cup page) >= Cardinality(all)
        BY <1>0, <1>8, <1>14, <1>15, <1>17, <3>2
      <4>3. Cardinality(seen \cup page) <= Cardinality(all)
        BY <1>14, <4>1, FS_Subset
      <4>4. Cardinality(seen \cup page) = Cardinality(all)
        BY <1>14, <1>15, <4>2, <4>3
      <4> QED
        BY <1>14, <4>1, <4>4, FS_Subset
    <3> QED
      BY <1>3, <1>17, <3>1, <3>2
  <2> QED
    BY <1>0, <1>6, <1>11, <1>17, <2>1
<1>18. ASSUME ~LastPage(page) PROVE \E m \in page : After(page) = m + 1 /\ \A t \in page : t <= m
  <2>1. \E m \in page : \A t \in page : t <= m
    BY <1>3, <1>10, <1>18
  <2> DEFINE m == CHOOSE p \in page : \A t \in page : t <= p
  <2>2. m \in page /\ \A t \in page : t <= m
    BY <2>1
  <2> QED
    BY <2>2 DEF After
<1>19. ASSUME ~LastPage(page) PROVE After(page) \in Nat
  BY <1>1, <1>10, <1>18, <1>19
<1>20. ASSUME ~LastPage(page), changes = 0
       PROVE  /\ scan.count + Cardinality(page) = Cardinality(Passed(question, After(page)))
              /\ found = {p \in Passed(question, After(page)) : RateMatch(question, p)}
  <2>1. PICK m \in page : After(page) = m + 1 /\ \A t \in page : t <= m
    BY <1>18, <1>20
  <2>2. m \in Nat /\ m >= scan.from
    BY <1>1, <1>4, <1>10
  <2>3. \A p \in seen : p < scan.from /\ p \in Nat
    BY <1>0, <1>7, <1>9 DEF seen
  <2>4. Passed(question, After(page)) \subseteq seen \cup page
    <3> SUFFICES ASSUME NEW p \in all, p < m + 1, p \notin seen PROVE p \in page
      BY <1>9, <2>1
    <3>1. p \in rest /\ p \in Nat
      BY <1>0, <1>5, <1>7, <1>20
    <3> QED
      BY <1>10, <2>2, <3>1
  <2>5. ASSUME NEW p \in seen \cup page PROVE p \in Passed(question, After(page))
    <3>1. p \in all /\ p \in Nat
      BY <1>0, <1>7, <1>10, <1>20
    <3>2. p < m + 1
      BY <1>0, <2>1, <2>2, <2>3, <3>1
    <3> QED
      BY <1>9, <2>1, <3>1, <3>2
  <2>6. Passed(question, After(page)) = seen \cup page
    BY <2>4, <2>5
  <2> QED
    BY <1>0, <1>11, <1>15, <1>20, <2>6
<1> QED
  BY <1>12, <1>13, <1>14, <1>16, <1>17, <1>19, <1>20 DEF page

-----------------------------------------------------------------------------
(* The invariant is inductive                                              *)

LEMMA EmptyRange == Range(<<>>) = {} /\ IsInjective(<<>>) /\ DOMAIN <<>> = {}
BY DEF Range, IsInjective

LEMMA PinningOf ==
    ASSUME NEW found, found \subseteq Point, IsFiniteSet(found), Cardinality(found) <= 1
    PROVE  /\ Dated(found) \subseteq found /\ Dated(Dated(found)) = Dated(found)
           /\ Pinning(found) = Pinning(Dated(found))
           /\ IsFiniteSet(Dated(found)) /\ Cardinality(Dated(found)) <= 1
           /\ Dated(found) # {} => \E p \in Point : found = {p} /\ Dated(found) = {p}
           /\ \A p : Dated(found) = {p} => Pinning(found) = <<<<p>>>>
           /\ Dated(found) = {} => Pinning(found) = <<>>
           /\ Pinning(found) \in Seq(Seq(Point)) /\ Len(Pinning(found)) \in 0..1
<1>1. Dated(found) \subseteq found /\ Dated(Dated(found)) = Dated(found)
  BY DEF Dated
<1>2. Pinning(found) = Pinning(Dated(found))
  BY <1>1 DEF Pinning
<1>3. IsFiniteSet(Dated(found)) /\ Cardinality(Dated(found)) <= Cardinality(found) /\ Cardinality(found) \in Nat
  BY <1>1, FS_Subset, FS_CardinalityType
<1>4. Dated(found) # {} => \E p \in Point : found = {p} /\ Dated(found) = {p}
  <2> SUFFICES ASSUME Dated(found) # {} PROVE \E p \in Point : found = {p} /\ Dated(found) = {p}
    OBVIOUS
  <2>1. found # {}
    BY <1>1
  <2>2. Cardinality(found) = 1
    BY <1>3, <2>1, FS_EmptySet
  <2>3. PICK p : found = {p}
    BY <2>2, FS_Singleton
  <2> QED
    BY <1>1, <2>3
<1>5. Dated(found) = {} => Pinning(found) = <<>>
  BY DEF Pinning
<1>6. ASSUME NEW p, Dated(found) = {p} PROVE Pinning(found) = <<<<p>>>>
  <2>1. Dated(found) # {}
    BY <1>6
  <2>2. (CHOOSE x \in Dated(found) : TRUE) = p
    BY <1>6
  <2> QED
    BY <2>1, <2>2 DEF Pinning
<1>7. Pinning(found) \in Seq(Seq(Point)) /\ Len(Pinning(found)) \in 0..1
  <2>1. CASE Dated(found) = {}
    BY <1>5, <2>1
  <2>2. CASE Dated(found) # {}
    <3>1. PICK p \in Point : Dated(found) = {p}
      BY <1>4, <2>2
    <3>2. Pinning(found) = <<<<p>>>>
      BY <1>6, <3>1
    <3>3. <<p>> \in Seq(Point)
      OBVIOUS
    <3> DEFINE s == <<p>>
    <3> HIDE DEF s
    <3>4. <<s>> \in Seq(Seq(Point)) /\ Len(<<s>>) = 1
      BY <3>3 DEF s
    <3> QED
      BY <3>2, <3>4 DEF s
  <2> QED
    BY <2>1, <2>2
<1>8. IsFiniteSet(Dated(found)) /\ Cardinality(Dated(found)) <= 1
  <2>1. Cardinality(Dated(found)) \in Nat
    BY <1>3, FS_CardinalityType
  <2> QED
    BY <1>3, <2>1
<1> QED
  BY <1>1, <1>2, <1>4, <1>5, <1>6, <1>7, <1>8

\* Where the head of the list is among the passes.
LEMMA HeadOf ==
    ASSUME Asking, Remaining, todo # <<>>
    PROVE  /\ Done \in Nat /\ Done < Len(Passes(question))
           /\ Head(todo) = Passes(question)[Done + 1]
           /\ Head(todo) = "primary" <=> Done = 0
           /\ Head(todo) = "rate" <=> Done = 1 /\ Ahead(question) = 2
           /\ Head(todo) # "rate" => Head(todo) \in SearchPass /\ (Head(todo) = "nuclear" => question.nuclear)
           /\ Done >= Ahead(question) =>
                /\ Done + 1 - Ahead(question) \in 1..Len(Secondary(question))
                /\ Head(todo) = Secondary(question)[Done + 1 - Ahead(question)]
           /\ Ahead(question) \in {1, 2}
<1> DEFINE P == Passes(question)
           S == Secondary(question)
           a == Ahead(question)
<1>1. /\ question \in Question /\ todo \in Seq(Range(P))
      /\ Done = Len(P) - Len(todo) /\ Done \in 0..Len(P)
      /\ \A i \in 1..Len(todo) : todo[i] = P[Done + i]
  BY DEF Asking, Remaining, Done
<1>2. Len(todo) \in Nat /\ Len(todo) # 0 /\ Head(todo) = todo[1]
  BY <1>1, EmptySeq, Places1
<1>3. /\ Len(P) = a + Len(S) /\ Len(P) \in Nat /\ P[1] = "primary" /\ (a = 2 => P[2] = "rate")
      /\ \A k \in 1..Len(S) : P[a + k] = S[k]
  BY <1>1, PassesOf
<1>4. /\ S \in Seq({"provision", "nuclear", "wage"}) /\ Len(S) \in 0..3
      /\ \A k \in 1..Len(S) : S[k] = "nuclear" => question.nuclear
  BY <1>1, SecondaryOf
<1>5. a \in {1, 2}
  BY DEF Ahead
<1>6. \A k \in 1..Len(S) : S[k] \in {"provision", "nuclear", "wage"}
  BY <1>4, Places1
<1> HIDE DEF P, S, a
<1>7. Done \in Nat /\ Done < Len(P) /\ 1 \in 1..Len(todo)
  BY <1>1, <1>2, <1>3
<1>8. Head(todo) = P[Done + 1]
  BY <1>1, <1>2, <1>7
<1>9. CASE Done = 0
  BY <1>3, <1>5, <1>7, <1>8, <1>9 DEF SearchPass, P, S, a
<1>10. CASE Done = 1 /\ a = 2
  BY <1>3, <1>5, <1>7, <1>8, <1>10 DEF SearchPass, P, S, a
<1>11. CASE Done >= a
  <2> DEFINE k == Done + 1 - a
  <2>1. k \in 1..Len(S) /\ a + k = Done + 1
    BY <1>3, <1>4, <1>5, <1>7, <1>11
  <2> HIDE DEF k
  <2>2. Head(todo) = S[k]
    BY <1>3, <1>8, <2>1
  <2>3. Head(todo) \in {"provision", "nuclear", "wage"} /\ (Head(todo) = "nuclear" => question.nuclear)
    BY <1>4, <1>6, <2>1, <2>2
  <2>4. Done # 0 /\ ~(Done = 1 /\ a = 2)
    BY <1>5, <1>7, <1>11
  <2> QED
    BY <1>5, <1>7, <1>8, <2>1, <2>2, <2>3, <2>4 DEF SearchPass, P, S, a, k
<1> QED
  BY <1>5, <1>7, <1>9, <1>10, <1>11 DEF a

\* A pass that is over makes room for the next.
LEMMA Advance ==
    ASSUME Asking, Remaining, todo # <<>>, todo' = Tail(todo), question' = question
    PROVE  Remaining' /\ Done' = Done + 1
<1> DEFINE P == Passes(question)
<1>1. /\ todo \in Seq(Range(P)) /\ Len(todo) \in Nat /\ Len(todo) # 0
      /\ Done = Len(P) - Len(todo) /\ Len(P) \in Nat
      /\ \A i \in 1..Len(todo) : todo[i] = P[Done + i]
  <2>1. todo \in Seq(Range(P)) /\ Done = Len(P) - Len(todo) /\ \A i \in 1..Len(todo) : todo[i] = P[Done + i]
    BY DEF Remaining, Done
  <2>2. Len(P) \in Nat
    BY PassesOf DEF Asking
  <2> QED
    BY <2>1, <2>2, EmptySeq, Places1
<1>2. Passes(question)' = P /\ Done' = Len(P) - Len(todo')
  BY DEF Done
<1> HIDE DEF P
<1>3. /\ Tail(todo) \in Seq(Range(P)) /\ Len(Tail(todo)) = Len(todo) - 1
      /\ \A i \in 1..Len(Tail(todo)) : Tail(todo)[i] = todo[i + 1]
  BY <1>1, HeadTailProperties
<1>4. Done' = Done + 1
  BY <1>1, <1>2, <1>3
<1>5. Done' \in 0..Len(P) /\ todo' \in Seq(Range(P))
  <2>1. Done \in Int /\ 0 <= Done
    BY <1>1 DEF Remaining, P
  <2> QED
    BY <1>1, <1>2, <1>3, <1>4, <2>1
<1>6. ASSUME NEW i \in 1..Len(todo') PROVE todo'[i] = P[Done' + i]
  <2>1. i + 1 \in 1..Len(todo) /\ Done + (i + 1) = Done' + i
    BY <1>1, <1>3, <1>4
  <2> QED
    BY <1>1, <1>3, <2>1
<1> QED
  BY <1>2, <1>4, <1>5, <1>6 DEF Remaining, P

\* A scan that has not begun.
LEMMA FreshScan ==
    ASSUME NEW s, s = NoMatch, NEW q
    PROVE  /\ s = [from |-> s.from, count |-> s.count, match |-> s.match]
           /\ s.from \in Nat /\ s.count \in Nat
           /\ s.match \subseteq Point /\ Cardinality(s.match) <= 1
           /\ \A p \in s.match : RateTable(q, p)
           /\ s.count = Cardinality(Passed(q, s.from))
           /\ s.match = {p \in Passed(q, s.from) : RateMatch(q, p)}
<1>1. Passed(q, 1) = {}
  <2> SUFFICES ASSUME NEW p \in Passed(q, 1) PROVE FALSE
    OBVIOUS
  <2>1. p \in 1..Len(Chunk) /\ p < 1 /\ Len(Chunk) \in Nat
    BY LimitAssumption, Places1 DEF Passed, Point
  <2> QED
    BY <2>1
<1>2. Cardinality({}) = 0
  BY FS_EmptySet
<1>3. /\ s.from = 1 /\ s.count = 0 /\ s.match = {}
      /\ s = [from |-> s.from, count |-> s.count, match |-> s.match]
  BY DEF NoMatch
<1>4. Passed(q, s.from) = {} /\ {p \in {} : RateMatch(q, p)} = {}
  BY <1>1, <1>3
<1>5. Cardinality(s.match) <= 1 /\ s.count = Cardinality(Passed(q, s.from))
  BY <1>2, <1>3, <1>4
<1>6. s.match = {p \in Passed(q, s.from) : RateMatch(q, p)}
  BY <1>3, <1>4
<1>7. /\ s.from \in Nat /\ s.count \in Nat /\ s.match \subseteq Point
      /\ \A p \in s.match : RateTable(q, p)
  BY <1>3
<1> QED
  BY <1>3, <1>5, <1>6, <1>7

LEMMA InitIInv == Init => IInv
<1> SUFFICES ASSUME Init PROVE IInv
  OBVIOUS
<1> USE DEF Init
<1>1. Asking
  BY RetrievalAssumption DEF Asking
<1>2. Passes(question) \in Seq({"primary", "rate", "provision", "nuclear", "wage"}) /\ Len(Passes(question)) \in Nat
  BY PassesOf
<1>3. Done = 0
  BY <1>2 DEF Done
<1>4. Remaining
  <2>1. Passes(question) \in Seq(Range(Passes(question)))
    BY <1>2, Places1 DEF Range
  <2> QED
    BY <1>2, <1>3, <2>1 DEF Remaining
<1>5. HitsSound
  BY EmptyRange DEF HitsSound
<1>6. ScanSound
  <2>1. scan = NoMatch
    OBVIOUS
  <2> HIDE DEF Init
  <2> QED
    BY <2>1, FreshScan DEF ScanSound
<1>7. PrimarySound
  <2>1. PassLimit("primary", question) \in Nat
    BY ReadLimits DEF SearchPass
  <2> QED
    BY <1>3, <2>1, EmptyRange DEF PrimarySound
<1>8. LeadingSound
  <2>1. Dated({}) = {} /\ Cardinality({}) = 0
    BY FS_EmptySet DEF Dated
  <2>2. ~(Done >= Ahead(question))
    BY <1>3 DEF Ahead
  <2> QED
    BY <2>1, <2>2 DEF LeadingSound
<1>9. Merging
  BY DEF Merging, Answered
<1> QED
  BY <1>1, <1>4, <1>5, <1>6, <1>7, <1>8, <1>9 DEF IInv

\* A read that comes back keeps to its filter.
LEMMA ReadIInv ==
    ASSUME IInv, NEW read, Read(read)
    PROVE  IInv'
<1> USE DEF IInv
<1>1. /\ status = "reading" /\ todo # <<>> /\ Head(todo) # "rate"
      /\ read \in Reads(Head(todo), question)
      /\ UNCHANGED <<question, rank, collection, changes, todo, scan, primary, leading, pinned,
                     status, sources>>
  BY DEF Read, Searching, asked, store, results, outcome
<1>2. Asking' /\ Remaining'
  BY <1>1 DEF Asking, Remaining, Done
<1>3. ScanSound'
  BY <1>1 DEF ScanSound, Done
<1>4. PrimarySound' /\ LeadingSound' /\ Merging'
  BY <1>1 DEF PrimarySound, LeadingSound, Merging, Answered, Done
<1> DEFINE pass == Head(todo)
           found == Search(pass, question, Fan(pass, question)[read[1]], rank[read[2]], collection)
           D == DOMAIN hits \cup {read}
<1>5. hits' = [r \in D |-> IF r = read THEN found ELSE hits[r]]
  BY DEF Read
<1>6. pass \in SearchPass
  BY <1>1, HeadOf
<1>7. rank[read[2]] \in Seq(Point)
  <2>1. read[2] \in Vectors(pass, question)
    BY <1>1 DEF Reads
  <2>2. read[2] \in 0..Limit.maxTerms
    <3>1. Limit.maxTerms \in Nat /\ question.terms \in Nat
      BY LimitTypes, QuestionType DEF Asking
    <3> QED
      BY <2>1, <3>1 DEF Vectors, Terms
  <2>3. rank[read[2]] \in Order
    BY <2>2 DEF Asking
  <2> QED
    BY <2>3, RetrievalAssumption DEF Point
<1> HIDE DEF D
<1>8. /\ found \in Seq(Point)
      /\ \A p \in Range(found) : Eligible(pass, question, Fan(pass, question)[read[1]], p)
  BY <1>6, <1>7, SearchOf
<1>9. HitsSound'
  <2>1. DOMAIN hits' = D
    BY <1>5
  <2>2. DOMAIN hits' \subseteq Reads(pass, question)
    BY <1>1, <2>1 DEF HitsSound, D
  <2>3. hits' = [r \in DOMAIN hits' |-> hits'[r]]
    BY <1>5
  <2>4. ASSUME NEW r \in D
        PROVE  /\ hits'[r] \in Seq(Point)
               /\ \A p \in Range(hits'[r]) : Eligible(pass, question, Fan(pass, question)[r[1]], p)
               /\ changes = 0 => hits'[r] = Search(pass, question, Fan(pass, question)[r[1]],
                                                   rank[r[2]], collection)
    <3>1. CASE r = read
      <4>1. hits'[r] = found
        BY <1>5, <3>1
      <4> QED
        BY <1>8, <3>1, <4>1
    <3>2. CASE r # read
      <4>1. r \in DOMAIN hits /\ hits'[r] = hits[r]
        BY <1>5, <3>2 DEF D
      <4> QED
        BY <4>1 DEF HitsSound
    <3> QED
      BY <3>1, <3>2
  <2> HIDE DEF found
  <2> QED
    BY <1>1, <2>1, <2>2, <2>3, <2>4 DEF HitsSound
<1> QED
  BY <1>2, <1>3, <1>4, <1>9

\* What the reads of a pass have brought, merged.
LEMMA PassResult ==
    ASSUME IInv, Searching, DOMAIN hits = Reads(Head(todo), question),
           NEW result, result = Merged(Head(todo), question, hits)
    PROVE  /\ result \in Seq(Point) /\ IsInjective(result)
           /\ Len(result) <= PassLimit(Head(todo), question)
           /\ \A p \in Range(result) : Admits(question, p)
           /\ changes = 0 => result = Look(Head(todo), question, rank, collection)
           /\ Head(todo) = "primary" =>
                \A k \in DOMAIN question.named :
                  k <= Limit.minPrimary /\ (\E p \in Range(result) : Chunk[p].union = question.named[k])
                     => \E i \in 1..Len(result) : i <= k /\ Chunk[result[i]].union = question.named[k]
<1> USE DEF IInv
<1> DEFINE pass == Head(todo)
           q == question
<1>1. /\ todo # <<>> /\ pass # "rate" /\ q \in Question
      /\ pass \in SearchPass /\ (pass = "nuclear" => q.nuclear)
  BY HeadOf DEF Searching, Asking
<1>2. /\ hits = [r \in DOMAIN hits |-> hits[r]]
      /\ \A r \in Reads(pass, q) :
           /\ hits[r] \in Seq(Point)
           /\ \A p \in Range(hits[r]) : Eligible(pass, q, Fan(pass, q)[r[1]], p)
           /\ changes = 0 => hits[r] = Search(pass, q, Fan(pass, q)[r[1]], rank[r[2]], collection)
  BY DEF HitsSound
<1>3. \A r \in Reads(pass, q) : r[1] \in DOMAIN Fan(pass, q)
  BY DEF Reads
<1>4. result = Merged(pass, q, hits)
  OBVIOUS
<1> HIDE DEF pass, IInv
<1>5. /\ result \in Seq(Point) /\ IsInjective(result) /\ Len(result) <= PassLimit(pass, q)
      /\ \A p \in Range(result) : \E r \in Reads(pass, q) : p \in Range(hits[r])
      /\ pass = "primary" =>
           \A p \in Range(result) : \E k \in DOMAIN Fan(pass, q) :
             /\ p \in Range(hits[<<k, 0>>])
             /\ k <= PassLimit(pass, q) =>
                  \E i \in 1..Len(result) : i <= k /\ result[i] \in Range(hits[<<k, 0>>])
  BY <1>1, <1>2, <1>4, MergedOf
<1>6. ASSUME NEW r \in Reads(pass, q), NEW p \in Range(hits[r])
      PROVE  Admits(q, p) /\ (q.named # <<>> => Chunk[p].union = q.named[r[1]])
  BY <1>1, <1>2, <1>3, EligibleAdmitted
<1>7. \A p \in Range(result) : Admits(q, p)
  BY <1>5, <1>6
<1>8. ASSUME changes = 0 PROVE result = Look(pass, q, rank, collection)
  <2>1. hits = [r \in Reads(pass, q) |->
                  Search(pass, q, Fan(pass, q)[r[1]], rank[r[2]], collection)]
    BY <1>2, <1>8 DEF pass
  <2> QED
    BY <1>4, <2>1 DEF Look
<1>9. ASSUME pass = "primary", NEW k \in DOMAIN q.named, k <= Limit.minPrimary,
             NEW p \in Range(result), Chunk[p].union = q.named[k]
      PROVE  \E i \in 1..Len(result) : i <= k /\ Chunk[result[i]].union = q.named[k]
  <2>1. q.named # <<>> /\ q.named \in Seq(Range(Known)) /\ IsInjective(q.named)
    BY <1>1, <1>9, QuestionType, EmptyRange
  <2>2. Fan(pass, q) = q.named /\ ~Enumerates(q)
    BY <1>1, <2>1, FanOf DEF Enumerates
  <2>3. PICK l \in DOMAIN q.named :
          /\ p \in Range(hits[<<l, 0>>])
          /\ l <= PassLimit(pass, q) =>
               \E i \in 1..Len(result) : i <= l /\ result[i] \in Range(hits[<<l, 0>>])
    BY <1>5, <1>9, <2>2
  <2>4. <<l, 0>> \in Reads(pass, q) /\ <<k, 0>> \in Reads(pass, q)
    BY <1>9, <2>2 DEF Reads, Vectors
  <2>5. Chunk[p].union = q.named[l]
    BY <1>6, <2>1, <2>3, <2>4
  <2>6. l = k
    BY <1>9, <2>1, <2>5 DEF IsInjective
  <2>7. k <= PassLimit(pass, q)
    <3>1. k \in Nat
      BY <1>9, <2>1, Places1
    <3>2. PassLimit(pass, q) = Limit.topK
      BY <1>9, <2>2 DEF PassLimit
    <3>3. Limit.topK \in Nat /\ Limit.minPrimary \in Nat /\ Limit.topK - Limit.minPrimary >= 4
      BY LimitTypes
    <3> QED
      BY <1>9, <3>1, <3>2, <3>3
  <2>8. PICK i \in 1..Len(result) : i <= k /\ result[i] \in Range(hits[<<k, 0>>])
    BY <2>3, <2>6, <2>7
  <2>9. Chunk[result[i]].union = q.named[k]
    BY <1>6, <2>1, <2>4, <2>8
  <2> QED
    BY <2>8, <2>9
<1> QED
  BY <1>5, <1>7, <1>8, <1>9 DEF pass

LEMMA CollectIInv ==
    ASSUME IInv, Collect
    PROVE  IInv'
<1> DEFINE pass == Head(todo)
           result == Merged(Head(todo), question, hits)
<1>1. /\ Searching /\ status = "reading" /\ todo # <<>> /\ pass # "rate"
      /\ DOMAIN hits = Reads(pass, question)
      /\ todo' = Tail(todo) /\ hits' = <<>>
      /\ IF pass = "primary" THEN primary' = result /\ leading' = leading
         ELSE leading' = Append(leading, result) /\ primary' = primary
      /\ UNCHANGED <<question, rank, collection, changes, scan, pinned, status, sources>>
  BY DEF Collect, Yield, Searching, asked, store, outcome
<1>2. Asking /\ Remaining /\ ScanSound /\ PrimarySound /\ LeadingSound /\ Merging
  BY DEF IInv
<1>3. /\ result \in Seq(Point) /\ IsInjective(result)
      /\ Len(result) <= PassLimit(pass, question)
      /\ \A p \in Range(result) : Admits(question, p)
      /\ changes = 0 => result = Look(pass, question, rank, collection)
      /\ pass = "primary" =>
           \A k \in DOMAIN question.named :
             k <= Limit.minPrimary /\ (\E p \in Range(result) : Chunk[p].union = question.named[k])
                => \E i \in 1..Len(result) : i <= k /\ Chunk[result[i]].union = question.named[k]
  BY <1>1, PassResult
<1>4. /\ Done \in Nat /\ (pass = "primary" <=> Done = 0)
      /\ (Done = 1 => Ahead(question) = 1)
      /\ (Done >= Ahead(question) => /\ Done + 1 - Ahead(question) \in 1..Len(Secondary(question))
                                     /\ pass = Secondary(question)[Done + 1 - Ahead(question)])
      /\ Ahead(question) \in {1, 2}
  BY <1>1, <1>2, HeadOf
<1>5. Remaining' /\ Done' = Done + 1
  BY <1>1, <1>2, Advance
<1> HIDE DEF pass, result
<1>6. Asking' /\ Merging'
  BY <1>1, <1>2 DEF Asking, Merging, Answered
<1>7. HitsSound'
  BY <1>1, EmptyRange DEF HitsSound
<1>8. ScanSound'
  <2>1. Done # 1 \/ Ahead(question) = 1
    BY <1>4
  <2>2. scan = NoMatch
    BY <1>2, <2>1 DEF ScanSound
  <2> QED
    BY <1>1, <2>2, FreshScan DEF ScanSound
<1>9. PrimarySound'
  <2>1. CASE pass = "primary"
    BY <1>1, <1>3, <1>4, <1>5, <2>1 DEF PrimarySound
  <2>2. CASE pass # "primary"
    <3>1. primary' = primary /\ Done > 0 /\ Done' > 0
      BY <1>1, <1>4, <1>5, <2>2
    <3> QED
      BY <1>1, <1>2, <3>1 DEF PrimarySound
  <2> QED
    BY <2>1, <2>2
<1>10. LeadingSound'
  <2>1. CASE pass = "primary"
    <3>1. leading' = leading /\ Done = 0 /\ Done' = 1 /\ leading = <<>> /\ pinned = {}
      BY <1>1, <1>2, <1>4, <1>5, <2>1 DEF LeadingSound
    <3>2. Pinning({}) = <<>> /\ Len(<<>>) = 0 /\ Dated({}) = {}
      BY DEF Pinning, Dated
    <3>3. Ahead(question) = 1 => OneHit(question, collection) = {}
      BY DEF Ahead, OneHit
    <3>4. /\ leading' \in Seq(Seq(Point)) /\ Len(leading') = 0
          /\ \A k \in 1..Len(leading') : \A p \in Range(leading'[k]) : Admits(question, p)
          /\ pinned' = {} /\ Dated(pinned') = pinned' /\ Cardinality(pinned') <= 1
          /\ leading' = <<>> /\ Len(Pinning(pinned')) = 0
      BY <1>1, <1>2, <3>1, <3>2 DEF LeadingSound
    <3>5. CASE Ahead(question) = 1
      <4>1. OneHit(question, collection) = {}
        BY <3>3, <3>5
      <4>2. ~(Done' < Ahead(question)) /\ Len(leading') = Len(Pinning(pinned')) + Done' - Ahead(question)
        BY <3>1, <3>4, <3>5
      <4>3. 1..Len(Pinning(pinned')) = {} /\ 1..Done' - Ahead(question) = {}
        BY <3>1, <3>4, <3>5
      <4> QED
        BY <1>1, <3>2, <3>4, <4>1, <4>2, <4>3 DEF LeadingSound
    <3>6. CASE Ahead(question) = 2
      <4>1. ~(Done' >= Ahead(question))
        BY <3>1, <3>6
      <4> QED
        BY <1>1, <3>4, <4>1 DEF LeadingSound
    <3> QED
      BY <1>4, <3>5, <3>6
  <2>2. CASE pass # "primary"
    <3> DEFINE pin == Pinning(pinned)
               a == Ahead(question)
    <3>1. Done >= a /\ Done' >= a /\ leading' = Append(leading, result)
      BY <1>1, <1>4, <1>5, <2>2
    <3>2. /\ leading \in Seq(Seq(Point)) /\ Len(leading) \in Nat
          /\ Len(leading) = Len(pin) + Done - a
          /\ \A i \in 1..Len(pin) : leading[i] = pin[i]
          /\ changes = 0 => \A k \in 1..Done - a :
               leading[Len(pin) + k] = Look(Secondary(question)[k], question, rank, collection)
          /\ \A k \in 1..Len(leading) : \A p \in Range(leading[k]) : Admits(question, p)
      BY <1>2, <3>1, Places1 DEF LeadingSound
    <3>3. /\ pinned \subseteq Point /\ Cardinality(pinned) <= 1 /\ Dated(pinned) = pinned
          /\ (RateClass(question) = None => pinned = {})
          /\ (changes = 0 /\ Fits(question) => pinned = Dated(OneHit(question, collection)))
      BY <1>2, <3>1 DEF LeadingSound
    <3>4. /\ leading' \in Seq(Seq(Point)) /\ Len(leading') = Len(leading) + 1
          /\ \A k \in 1..Len(leading) : leading'[k] = leading[k]
          /\ leading'[Len(leading) + 1] = result
      BY <1>3, <3>1, <3>2, AppendProperties
    <3>5. Len(pin) \in Nat
      <4>1. IsFiniteSet(pinned)
        BY <3>3, PointFinite, FS_Subset
      <4>2. Len(pin) \in 0..1
        BY <3>3, <4>1, PinningOf
      <4> QED
        BY <4>2
    <3> HIDE DEF pin, a
    <3>6. Len(leading') = Len(pin) + Done' - a
      BY <1>4, <1>5, <3>2, <3>4, <3>5 DEF a
    <3>7. \A i \in 1..Len(pin) : leading'[i] = pin[i]
      <4> SUFFICES ASSUME NEW i \in 1..Len(pin) PROVE leading'[i] = pin[i]
        OBVIOUS
      <4>1. i \in 1..Len(leading)
        BY <1>4, <3>1, <3>2, <3>5 DEF a
      <4> QED
        BY <3>2, <3>4, <4>1
    <3>8. ASSUME changes = 0, NEW k \in 1..Done' - a
          PROVE  leading'[Len(pin) + k] = Look(Secondary(question)[k], question, rank, collection)
      <4>1. CASE k \in 1..Done - a
        <5>1. Len(pin) + k \in 1..Len(leading)
          BY <1>4, <3>2, <3>5, <4>1 DEF a
        <5> QED
          BY <3>2, <3>4, <3>8, <4>1, <5>1
      <4>2. CASE ~(k \in 1..Done - a)
        <5>1. k = Done + 1 - a /\ Len(pin) + k = Len(leading) + 1
          BY <1>4, <1>5, <3>2, <3>5, <4>2 DEF a
        <5>2. pass = Secondary(question)[k]
          BY <1>4, <3>1, <5>1 DEF a
        <5> QED
          BY <1>3, <3>4, <3>8, <5>1, <5>2
      <4> QED
        BY <4>1, <4>2
    <3>9. \A k \in 1..Len(leading') : \A p \in Range(leading'[k]) : Admits(question, p)
      <4> SUFFICES ASSUME NEW k \in 1..Len(leading') PROVE \A p \in Range(leading'[k]) : Admits(question, p)
        OBVIOUS
      <4>1. k \in 1..Len(leading) \/ k = Len(leading) + 1
        BY <3>2, <3>4
      <4> QED
        BY <1>3, <3>2, <3>4, <4>1
    <3>10. ~(Done' < a)
      BY <1>4, <1>5, <3>1 DEF a
    <3> QED
      BY <1>1, <3>3, <3>4, <3>6, <3>7, <3>8, <3>9, <3>10 DEF LeadingSound, pin, a
  <2> QED
    BY <2>1, <2>2
<1> QED
  BY <1>5, <1>6, <1>7, <1>8, <1>9, <1>10 DEF IInv

LEMMA RateTableAdmitted ==
    ASSUME NEW q \in Question, NEW p, RateTable(q, p)
    PROVE  Admits(q, p)
<1>1. Chunk[p].kind = "wage" /\ OfUnion(Fan("rate", q)[1], p) /\ InScope(q, p)
  BY DEF RateTable
<1>2. q.named # <<>> => Chunk[p].union \in Range(q.named)
  <2> SUFFICES ASSUME q.named # <<>> PROVE Chunk[p].union \in Range(q.named)
    OBVIOUS
  <2>1. Fan("rate", q) = q.named
    BY FanOf
  <2>2. q.named \in Seq(Range(Known)) /\ None \notin Range(Known)
    BY QuestionType, LimitAssumption
  <2>3. Len(q.named) \in Nat /\ Len(q.named) # 0 /\ DOMAIN q.named = 1..Len(q.named)
    BY <2>2, EmptySeq, Places1
  <2>4. 1 \in DOMAIN q.named
    BY <2>3
  <2>5. q.named[1] \in Range(q.named) /\ q.named[1] # None
    BY <2>2, <2>3, <2>4, Places1 DEF Range
  <2> QED
    BY <1>1, <2>1, <2>5 DEF OfUnion
<1>3. q.scope # None => Chunk[p].scope \in {None, q.scope}
  BY <1>1 DEF InScope
<1> QED
  BY <1>1, <1>2, <1>3 DEF Admits

\* The lookup ends with the only match of all tables, or without one.
LEMMA LookupIInv ==
    ASSUME IInv, Running("rate"), NEW found, EndLookup(found),
           found \subseteq Point, IsFiniteSet(found), Cardinality(found) <= 1,
           \A p \in found : RateTable(question, p),
           changes = 0 /\ Fits(question) => found = OneHit(question, collection)
    PROVE  IInv'
<1>1. /\ status = "reading" /\ todo # <<>> /\ Head(todo) = "rate"
      /\ todo' = Tail(todo) /\ pinned' = Dated(found) /\ leading' = leading \o Pinning(found)
      /\ scan' = NoMatch
      /\ UNCHANGED <<question, rank, collection, changes, hits, primary, status, sources>>
  BY DEF Running, EndLookup, asked, store, outcome
<1>2. Asking /\ Remaining /\ HitsSound /\ PrimarySound /\ LeadingSound /\ Merging
  BY DEF IInv
<1>3. Done = 1 /\ Ahead(question) = 2 /\ question \in Question
  BY <1>1, <1>2, HeadOf DEF Asking
<1>4. Remaining' /\ Done' = 2
  BY <1>1, <1>2, <1>3, Advance
<1>5. Asking' /\ Merging'
  BY <1>1, <1>2 DEF Asking, Merging, Answered
<1>6. HitsSound'
  <2>1. DOMAIN hits = {}
    BY <1>1, <1>2 DEF HitsSound
  <2>2. hits = [r \in DOMAIN hits |-> hits[r]]
    BY <1>2 DEF HitsSound
  <2> QED
    BY <1>1, <2>1, <2>2 DEF HitsSound
<1>7. ScanSound'
  BY <1>1, FreshScan DEF ScanSound
<1>8. PrimarySound'
  BY <1>1, <1>2, <1>3, <1>4 DEF PrimarySound
<1>9. LeadingSound'
  <2> DEFINE pin == Pinning(found)
  <2>1. /\ pinned' \subseteq found /\ Dated(pinned') = pinned' /\ Pinning(pinned') = pin
        /\ Cardinality(pinned') <= 1
        /\ pin \in Seq(Seq(Point)) /\ Len(pin) \in 0..1
        /\ pinned' # {} => \E p \in Point : pinned' = {p}
        /\ \A p : pinned' = {p} => pin = <<<<p>>>>
        /\ pinned' = {} => pin = <<>>
    BY <1>1, PinningOf
  <2>2. leading = <<>>
    BY <1>2, <1>3 DEF LeadingSound
  <2>3. leading' = pin
    <3> HIDE DEF pin
    <3>1. <<>> \o pin = pin
      BY <2>1, ConcatEmptySeq
    <3> QED
      BY <1>1, <2>2, <3>1 DEF pin
  <2>4. \A k \in 1..Len(pin) : \A p \in Range(pin[k]) : Admits(question, p)
    <3> SUFFICES ASSUME NEW k \in 1..Len(pin), NEW p \in Range(pin[k]) PROVE Admits(question, p)
      OBVIOUS
    <3>1. CASE pinned' = {}
      <4>1. Len(pin) = 0
        BY <2>1, <3>1
      <4> QED
        BY <4>1
    <3>2. CASE pinned' # {}
      <4>1. PICK d \in Point : pinned' = {d}
        BY <2>1, <3>2
      <4>2. pin = <<<<d>>>> /\ d \in found
        BY <2>1, <4>1
      <4>3. k = 1
        <5>1. k \in 1..1
          BY <4>2
        <5> QED
          BY <5>1
      <4>4. Range(<<d>>) = {d}
        <5>1. DOMAIN <<d>> = 1..1 /\ <<d>>[1] = d
          OBVIOUS
        <5> QED
          BY <5>1 DEF Range
      <4>5. pin[k] = <<d>>
        BY <4>2, <4>3
      <4>6. p = d
        BY <4>4, <4>5
      <4> QED
        BY <1>3, <4>2, <4>6, RateTableAdmitted
    <3> QED
      BY <3>1, <3>2
  <2>5. changes = 0 /\ Fits(question) => pinned' = Dated(OneHit(question, collection))
    BY <1>1
  <2>6. RateClass(question) # None
    BY <1>3 DEF Ahead
  <2> HIDE DEF pin
  <2>7. 1..Done' - Ahead(question) = {} /\ Len(pin) = Len(pin) + Done' - Ahead(question)
        /\ ~(Done' < Ahead(question))
    BY <1>3, <1>4, <2>1
  <2> QED
    BY <1>1, <2>1, <2>3, <2>4, <2>5, <2>6, <2>7 DEF LeadingSound
<1> QED
  BY <1>4, <1>5, <1>6, <1>7, <1>8, <1>9 DEF IInv

LEMMA ScrollIInv ==
    ASSUME IInv, Scroll
    PROVE  IInv'
<1> DEFINE found == scan.match \cup {p \in Page : RateMatch(question, p)}
<1>1. /\ Running("rate") /\ status = "reading" /\ todo # <<>> /\ Head(todo) = "rate"
      /\ IF Cardinality(found) > 1 THEN EndLookup({})
         ELSE IF LastPage(Page) THEN EndLookup(found)
         ELSE /\ scan' = [from |-> After(Page), count |-> scan.count + Cardinality(Page), match |-> found]
              /\ UNCHANGED <<asked, store, todo, hits, results, outcome>>
  BY DEF Scroll, Running
<1>2. Asking /\ Remaining /\ HitsSound /\ ScanSound /\ PrimarySound /\ LeadingSound /\ Merging
  BY DEF IInv
<1>3. Done = 1 /\ Ahead(question) = 2
  BY <1>1, <1>2, HeadOf
<1>4. Matches = Hits(question, collection) /\ (Covered <=> Fits(question))
  BY DEF Matches, Hits, Covered, Fits
<1>5. RateClass(question) # None
  BY <1>3 DEF Ahead
<1> HIDE DEF found
<1>6. /\ found \subseteq Point /\ IsFiniteSet(found)
      /\ \A p \in found : RateTable(question, p)
      /\ changes = 0 => found \subseteq Matches
      /\ changes = 0 /\ Covered /\ LastPage(Page) => found = Matches
      /\ ~LastPage(Page) => After(Page) \in Nat /\ Cardinality(Page) \in Nat
      /\ ~LastPage(Page) /\ changes = 0 =>
           /\ scan.count + Cardinality(Page) = Cardinality(Passed(question, After(Page)))
           /\ found = {p \in Passed(question, After(Page)) : RateMatch(question, p)}
  BY <1>2, ScrollOf DEF found
<1>7. Cardinality(found) \in Nat
  BY <1>6, FS_CardinalityType
<1>8. CASE Cardinality(found) > 1
  <2>1. EndLookup({})
    BY <1>1, <1>8
  <2>2. changes = 0 => {} = OneHit(question, collection)
    <3> SUFFICES ASSUME changes = 0 PROVE {} = OneHit(question, collection)
      OBVIOUS
    <3>1. Matches \in SUBSET Point
      BY <1>2 DEF Matches, Asking
    <3>2. IsFiniteSet(Matches)
      BY <3>1, PointFinite, FS_Subset
    <3>3. Cardinality(found) <= Cardinality(Matches) /\ Cardinality(Matches) \in Nat
      BY <1>6, <3>2, FS_Subset, FS_CardinalityType
    <3>4. Cardinality(Hits(question, collection)) > 1
      BY <1>4, <1>7, <1>8, <3>3
    <3> QED
      BY <3>4 DEF OneHit
  <2>3. IsFiniteSet({}) /\ Cardinality({}) <= 1
    BY FS_EmptySet
  <2> QED
    BY <1>1, <2>1, <2>2, <2>3, LookupIInv
<1>9. CASE ~(Cardinality(found) > 1) /\ LastPage(Page)
  <2>1. EndLookup(found) /\ Cardinality(found) <= 1
    BY <1>1, <1>7, <1>9
  <2>2. changes = 0 /\ Fits(question) => found = OneHit(question, collection)
    <3> SUFFICES ASSUME changes = 0, Fits(question) PROVE found = OneHit(question, collection)
      OBVIOUS
    <3>1. found = Hits(question, collection)
      BY <1>4, <1>6, <1>9
    <3> QED
      BY <1>5, <1>9, <3>1 DEF OneHit
  <2> QED
    BY <1>1, <1>6, <2>1, <2>2, LookupIInv
<1>10. CASE ~(Cardinality(found) > 1) /\ ~LastPage(Page)
  <2>1. /\ scan' = [from |-> After(Page), count |-> scan.count + Cardinality(Page), match |-> found]
        /\ UNCHANGED <<question, rank, collection, changes, todo, hits, primary, leading, pinned,
                       status, sources>>
    BY <1>1, <1>10 DEF asked, store, results, outcome
  <2>2. Done' = 1
    BY <1>3, <2>1 DEF Done
  <2>3. Asking' /\ Remaining' /\ HitsSound' /\ Merging'
    BY <1>2, <2>1 DEF Asking, Remaining, HitsSound, Merging, Answered, Done
  <2>4. PrimarySound' /\ LeadingSound'
    BY <1>2, <2>1 DEF PrimarySound, LeadingSound, Done
  <2>5. /\ scan'.from = After(Page) /\ scan'.count = scan.count + Cardinality(Page)
        /\ scan'.match = found
        /\ scan' = [from |-> scan'.from, count |-> scan'.count, match |-> scan'.match]
    BY <2>1
  <2>6. scan'.count \in Nat /\ scan'.from \in Nat
    BY <1>2, <1>6, <1>10, <2>5 DEF ScanSound
  <2>7. ScanSound'
    BY <1>3, <1>6, <1>7, <1>10, <2>1, <2>2, <2>5, <2>6 DEF ScanSound
  <2> QED
    BY <2>3, <2>4, <2>7 DEF IInv
<1> QED
  BY <1>8, <1>9, <1>10

LEMMA StepIInv == IInv /\ [Next]_vars => IInv'
<1> SUFFICES ASSUME IInv, [Next]_vars PROVE IInv'
  OBVIOUS
<1>0. Asking /\ Remaining /\ HitsSound /\ ScanSound /\ PrimarySound /\ LeadingSound /\ Merging
  BY DEF IInv
<1>1. CASE Searching /\ \E read \in Reads(Head(todo), question) : Read(read)
  BY <1>1, ReadIInv
<1>2. CASE Collect
  BY <1>2, CollectIInv
<1>3. CASE Scroll
  BY <1>3, ScrollIInv
<1>4. CASE Finish \/ Fail
  <2>1. /\ status = "reading" /\ status' \in {"answered", "failed"}
        /\ UNCHANGED <<question, rank, collection, changes, todo, hits, scan, primary, leading, pinned>>
        /\ \/ status' = "answered" /\ todo = <<>> /\ sources' = Assemble(question, primary, leading)
           \/ status' = "failed" /\ sources' = sources
    BY <1>4 DEF Finish, Fail, asked, store, results
  <2>2. Asking' /\ Remaining' /\ HitsSound' /\ ScanSound'
    BY <1>0, <2>1 DEF Asking, Remaining, HitsSound, ScanSound, Done
  <2>3. PrimarySound' /\ LeadingSound'
    BY <1>0, <2>1 DEF PrimarySound, LeadingSound, Done
  <2>4. Merging'
    BY <1>0, <2>1 DEF Merging, Answered
  <2> QED
    BY <2>2, <2>3, <2>4 DEF IInv
<1>5. CASE \E document \in Document : Ingest(document)
  <2>1. PICK document \in Document : Ingest(document)
    BY <1>5
  <2>2. /\ changes < MaxChanges /\ changes' = changes + 1
        /\ collection' \in {collection \ document, collection \cup document}
        /\ UNCHANGED <<question, rank, todo, hits, scan, primary, leading, pinned, status, sources>>
    BY <2>1 DEF Ingest, asked, results, outcome
  <2>3. document \subseteq Point /\ MaxChanges \in Nat
    BY RetrievalAssumption DEF Point
  <2>4. changes' # 0 /\ changes' \in 0..MaxChanges
    BY <1>0, <2>2, <2>3 DEF Asking
  <2>5. Asking'
    BY <1>0, <2>2, <2>3, <2>4 DEF Asking
  <2>6. Remaining' /\ Merging'
    BY <1>0, <2>2 DEF Remaining, Merging, Answered, Done
  <2>7. HitsSound' /\ ScanSound'
    BY <1>0, <2>2, <2>4 DEF HitsSound, ScanSound, Done
  <2>8. PrimarySound' /\ LeadingSound'
    BY <1>0, <2>2, <2>4 DEF PrimarySound, LeadingSound, Done
  <2> QED
    BY <2>5, <2>6, <2>7, <2>8 DEF IInv
<1>6. CASE UNCHANGED vars
  <2>1. UNCHANGED <<question, rank, collection, changes, todo, hits, scan, primary, leading, pinned,
                    status, sources>>
    BY <1>6 DEF vars
  <2>2. Asking' /\ Remaining' /\ HitsSound' /\ ScanSound' /\ Merging'
    BY <1>0, <2>1 DEF Asking, Remaining, HitsSound, ScanSound, Merging, Answered, Done
  <2>3. PrimarySound' /\ LeadingSound'
    BY <1>0, <2>1 DEF PrimarySound, LeadingSound, Done
  <2> QED
    BY <2>2, <2>3 DEF IInv
<1> QED
  BY <1>1, <1>2, <1>3, <1>4, <1>5, <1>6 DEF Next

LEMMA Inductive == Spec => []IInv
BY InitIInv, StepIInv, PTL DEF Spec

-----------------------------------------------------------------------------
(* What follows for the answer                                             *)

\* The window is the merge, and the leading passes have their place in it.
LEMMA AnswerOf ==
    ASSUME IInv, Answered
    PROVE  /\ question \in Question
           /\ primary \in Seq(Point) /\ leading \in Seq(Seq(Point))
           /\ sources \in Seq(Point) /\ IsInjective(sources) /\ Len(sources) <= Window(question)
           /\ \A p \in Range(sources) :
                p \in Range(primary) \/ \E k \in 1..Len(leading) : p \in Range(leading[k])
           /\ Reserve(question, primary) \in Nat /\ Reserve(question, primary) <= Len(primary)
           /\ \A i \in 1..Reserve(question, primary) : primary[i] \in Range(sources)
           /\ \A k \in 1..Len(leading) : leading[k] # <<>> => leading[k][1] \in Range(sources)
           /\ \A p : leading # <<>> /\ leading[1] = <<p>> => sources[1] = p
           /\ IsFiniteSet(pinned)
           /\ Done = Ahead(question) + Len(Secondary(question)) /\ Done >= Ahead(question)
           /\ Len(leading) = Len(Pinning(pinned)) + Len(Secondary(question))
<1>1. /\ question \in Question /\ primary \in Seq(Point) /\ IsInjective(primary)
      /\ Len(primary) <= PassLimit("primary", question)
      /\ leading \in Seq(Seq(Point))
      /\ pinned \subseteq Point /\ Cardinality(pinned) <= 1 /\ Dated(pinned) = pinned
      /\ (RateClass(question) = None => pinned = {})
      /\ (Done >= Ahead(question) => Len(leading) = Len(Pinning(pinned)) + Done - Ahead(question))
      /\ todo = <<>> /\ sources = Assemble(question, primary, leading)
  BY DEF IInv, Asking, PrimarySound, LeadingSound, Merging
<1>2. /\ Reserve(question, primary) \in Nat /\ Reserve(question, primary) <= Len(primary)
      /\ Window(question) = PassLimit("primary", question)
  BY <1>1, WindowLimits
<1>3. /\ sources \in Seq(Point) /\ IsInjective(sources) /\ Len(sources) <= Window(question)
      /\ \A p \in Range(sources) :
           p \in Range(primary) \/ \E k \in 1..Len(leading) : p \in Range(leading[k])
      /\ \A i \in 1..Reserve(question, primary) : primary[i] \in Range(sources)
      /\ \A k \in 1..Len(leading) : k <= Room(question) /\ leading[k] # <<>> =>
           leading[k][1] \in Range(sources)
      /\ \A p : leading # <<>> /\ leading[1] = <<p>> => sources[1] = p
  BY <1>1, <1>2, AssembleOf
<1>4. IsFiniteSet(pinned)
  BY <1>1, PointFinite, FS_Subset
<1>5. /\ Len(Passes(question)) = Ahead(question) + Len(Secondary(question))
      /\ Len(Passes(question)) \in Nat /\ Len(Secondary(question)) \in 0..3
  BY <1>1, PassesOf, SecondaryOf
<1>6. Ahead(question) \in {1, 2}
  BY DEF Ahead
<1>7. Len(todo) = 0
  BY <1>1
<1>8. Done = Ahead(question) + Len(Secondary(question)) /\ Done >= Ahead(question)
  BY <1>5, <1>6, <1>7 DEF Done
<1>9. Len(Pinning(pinned)) \in 0..1 /\ (pinned = {} => Len(Pinning(pinned)) = 0)
  <2>1. Len(Pinning(pinned)) \in 0..1 /\ (Dated(pinned) = {} => Pinning(pinned) = <<>>)
    BY <1>1, <1>4, PinningOf
  <2> QED
    BY <1>1, <2>1
<1>10. Len(leading) = Len(Pinning(pinned)) + Len(Secondary(question))
  BY <1>1, <1>5, <1>6, <1>8, <1>9
<1>11. Len(leading) <= Room(question)
  <2>0. /\ Len(leading) = Len(Pinning(pinned)) + Len(Secondary(question))
        /\ Len(Pinning(pinned)) \in 0..1 /\ Len(Secondary(question)) \in 0..3
    BY <1>5, <1>9, <1>10
  <2>1. CASE Enumerates(question)
    <3>1. RateClass(question) = None
      BY <2>1 DEF Enumerates, RateClass, CrossUnion
    <3>2. Len(Pinning(pinned)) = 0
      BY <1>1, <1>9, <3>1
    <3>3. Room(question) = 3
      BY <2>1 DEF Room
    <3> QED
      BY <2>0, <3>2, <3>3
  <2>2. CASE ~Enumerates(question)
    <3>1. Room(question) = 4
      BY <2>2 DEF Room
    <3>2. \A x \in 0..1, y \in 0..3 : x + y <= 4
      OBVIOUS
    <3>3. Len(leading) <= 4
      BY <2>0, <3>2, Zenon
    <3> QED
      BY <3>1, <3>3
  <2> QED
    BY <2>1, <2>2
<1>12. \A k \in 1..Len(leading) : k <= Room(question)
  <2>1. Len(leading) \in Nat /\ Room(question) \in Nat
    BY <1>1, Places1 DEF Room
  <2> QED
    BY <1>11, <2>1
<1> QED
  BY <1>1, <1>2, <1>3, <1>4, <1>8, <1>10, <1>12

LEMMA WindowSoundOf == IInv => WindowSound
<1> SUFFICES ASSUME IInv, Answered
             PROVE  /\ Len(sources) <= Window(question) /\ IsInjective(sources)
                    /\ \A p \in Range(sources) : OnlyAsked(p)
  BY DEF WindowSound
<1>1. /\ Len(sources) <= Window(question) /\ IsInjective(sources)
      /\ \A p \in Range(sources) :
           p \in Range(primary) \/ \E k \in 1..Len(leading) : p \in Range(leading[k])
  BY AnswerOf
<1>2. /\ \A p \in Range(primary) : Admits(question, p)
      /\ \A k \in 1..Len(leading) : \A p \in Range(leading[k]) : Admits(question, p)
  BY DEF IInv, PrimarySound, LeadingSound
<1>3. \A p : Admits(question, p) => OnlyAsked(p)
  BY DEF Admits, OnlyAsked
<1> QED
  BY <1>1, <1>2, <1>3

LEMMA BaseStaysOf == IInv => BaseStays
<1> DEFINE n == Reserve(question, primary)
           heard == {p \in Range(primary) : Heard(p)}
           f == [i \in 1..n |-> primary[i]]
<1> SUFFICES ASSUME IInv, Answered PROVE Cardinality(heard) >= n
  BY DEF BaseStays
<1>1. /\ primary \in Seq(Point) /\ n \in Nat /\ n <= Len(primary)
      /\ \A i \in 1..n : primary[i] \in Range(sources)
  BY AnswerOf
<1>2. IsInjective(primary)
  BY DEF IInv, PrimarySound
<1>3. /\ DOMAIN primary = 1..Len(primary) /\ Len(primary) \in Nat
      /\ Range(primary) \subseteq Point /\ Range(primary) = {primary[i] : i \in 1..Len(primary)}
  BY <1>1, Places1
<1>4. heard \in SUBSET Point
  BY <1>3
<1>5. IsFiniteSet(heard)
  <2> HIDE DEF heard
  <2> QED
    BY <1>4, PointFinite, FS_Subset
<1>6. \A i \in 1..n : i \in 1..Len(primary) /\ primary[i] \in heard
  <2> HIDE DEF n
  <2> QED
    BY <1>1, <1>3 DEF Heard
<1> HIDE DEF n, heard
<1>7. f \in Injection(1..n, heard)
  BY <1>2, <1>3, <1>6 DEF Injection, IsInjective
<1>8. Cardinality(1..n) = n
  BY <1>1, FS_Interval
<1> HIDE DEF f
<1>9. Cardinality(1..n) <= Cardinality(heard)
  BY <1>5, <1>7, FS_Injection
<1>10. Cardinality(heard) \in Nat
  BY <1>5, FS_CardinalityType
<1> QED
  BY <1>1, <1>8, <1>9, <1>10

LEMMA PassesHeardOf == IInv => PassesHeard
<1> SUFFICES ASSUME IInv, Answered
             PROVE  /\ \A k \in DOMAIN leading : leading[k] # <<>> => Heard(leading[k][1])
                    /\ ComparedUnionsHeard
  BY DEF PassesHeard
<1>1. /\ question \in Question /\ primary \in Seq(Point) /\ leading \in Seq(Seq(Point))
      /\ \A i \in 1..Reserve(question, primary) : primary[i] \in Range(sources)
      /\ \A k \in 1..Len(leading) : leading[k] # <<>> => leading[k][1] \in Range(sources)
  BY AnswerOf
<1>2. \A k \in DOMAIN leading : leading[k] # <<>> => Heard(leading[k][1])
  BY <1>1, Places1 DEF Heard
<1>3. ASSUME NEW k \in DOMAIN question.named, k <= Limit.minPrimary,
             \E p \in Range(primary) : Chunk[p].union = question.named[k]
      PROVE  \E p \in Range(sources) : Chunk[p].union = question.named[k]
  <2>1. PICK i \in 1..Len(primary) : i <= k /\ Chunk[primary[i]].union = question.named[k]
    BY <1>3 DEF IInv, PrimarySound
  <2>2. question.named # <<>> /\ k \in Nat
    BY <1>1, <1>3, QuestionType, Places1, EmptyRange
  <2>3. ReserveCap(question) = Limit.minPrimary
    BY <2>2 DEF ReserveCap, Enumerates
  <2>4. /\ Reserve(question, primary) = Limit.minPrimary \/ Reserve(question, primary) = Len(primary)
        /\ Reserve(question, primary) \in Nat /\ Limit.minPrimary \in Nat /\ Len(primary) \in Nat
    BY <1>1, <2>3, WindowLimits, LimitTypes, Places1
  <2>5. i \in 1..Reserve(question, primary)
    BY <1>3, <2>1, <2>2, <2>4
  <2> QED
    BY <1>1, <2>1, <2>5
<1>4. ComparedUnionsHeard
  BY <1>3 DEF ComparedUnionsHeard
<1> QED
  BY <1>2, <1>4

LEMMA PinnedIsExactOf == IInv => PinnedIsExact
<1> SUFFICES ASSUME IInv, Answered, pinned # {}
             PROVE  sources[1] \in pinned /\ (changes = 0 /\ Covered => Matches = pinned)
  BY DEF PinnedIsExact
<1>1. /\ leading \in Seq(Seq(Point)) /\ IsFiniteSet(pinned) /\ Done >= Ahead(question)
      /\ \A p : leading # <<>> /\ leading[1] = <<p>> => sources[1] = p
  BY AnswerOf
<1>2. /\ pinned \subseteq Point /\ Cardinality(pinned) <= 1 /\ Dated(pinned) = pinned
      /\ Len(leading) = Len(Pinning(pinned)) + Done - Ahead(question)
      /\ \A i \in 1..Len(Pinning(pinned)) : leading[i] = Pinning(pinned)[i]
      /\ (changes = 0 /\ Fits(question) => pinned = Dated(OneHit(question, collection)))
      /\ collection \subseteq Point
  BY <1>1 DEF IInv, LeadingSound, Asking
<1>3. PICK p \in Point : pinned = {p} /\ Pinning(pinned) = <<<<p>>>>
  <2>1. /\ Dated(pinned) # {} => \E p \in Point : pinned = {p} /\ Dated(pinned) = {p}
        /\ \A p : Dated(pinned) = {p} => Pinning(pinned) = <<<<p>>>>
    BY <1>1, <1>2, PinningOf
  <2>2. PICK p \in Point : pinned = {p} /\ Dated(pinned) = {p}
    BY <1>2, <2>1
  <2>3. Pinning(pinned) = <<<<p>>>>
    BY <2>1, <2>2, Zenon
  <2> QED
    BY <2>2, <2>3, Zenon
<1>4. leading[1] = <<p>> /\ Len(Pinning(pinned)) = 1
  <2> DEFINE s == <<p>>
  <2> HIDE DEF s
  <2>1. Len(<<s>>) = 1 /\ <<s>>[1] = s
    OBVIOUS
  <2>2. Pinning(pinned) = <<s>>
    BY <1>3 DEF s
  <2> QED
    BY <1>2, <2>1, <2>2 DEF s
<1>5. leading # <<>>
  <2>1. Done \in Int /\ Ahead(question) \in Int
    BY DEF IInv, Remaining, Asking, Ahead
  <2>2. Len(leading) # 0
    BY <1>1, <1>2, <1>4, <2>1
  <2> QED
    BY <2>2
<1>6. sources[1] \in pinned
  BY <1>1, <1>3, <1>4, <1>5
<1>7. ASSUME changes = 0, Covered PROVE Matches = pinned
  <2> DEFINE hit == OneHit(question, collection)
  <2>1. pinned = Dated(hit)
    BY <1>2, <1>7 DEF Covered, Fits
  <2>2. hit # {}
    BY <2>1 DEF Dated
  <2>3. hit = Matches /\ ~(Cardinality(Matches) > 1)
    BY <2>2 DEF OneHit, Hits, Matches
  <2>4. Matches \in SUBSET Point
    BY <1>2 DEF Matches
  <2>5. IsFiniteSet(Matches) /\ Cardinality(Matches) \in Nat
    BY <2>4, PointFinite, FS_Subset, FS_CardinalityType
  <2>6. Cardinality(Matches) <= 1
    BY <2>3, <2>5
  <2>7. \E x \in Point : Matches = {x} /\ Dated(Matches) = {x}
    BY <2>1, <2>3, <2>4, <2>5, <2>6, PinningOf
  <2> QED
    BY <2>1, <2>3, <2>7
<1> QED
  BY <1>6, <1>7

LEMMA ReadsAsOneOf == IInv => ReadsAsOne
<1> SUFFICES ASSUME IInv, Answered, changes = 0, Covered PROVE sources = AtOnce
  BY DEF ReadsAsOne
<1> DEFINE sec == Secondary(question)
           pin == Pinning(pinned)
           late == [k \in 1..Len(sec) |-> LookedUp(sec[k])]
<1>1. /\ question \in Question /\ leading \in Seq(Seq(Point)) /\ IsFiniteSet(pinned)
      /\ Done = Ahead(question) + Len(sec) /\ Done >= Ahead(question)
      /\ Len(leading) = Len(pin) + Len(sec)
  BY AnswerOf
<1>2. /\ sources = Assemble(question, primary, leading)
      /\ Done > 0 => primary = Look("primary", question, rank, collection)
      /\ \A i \in 1..Len(pin) : leading[i] = pin[i]
      /\ pinned = Dated(OneHit(question, collection))
      /\ \A k \in 1..Done - Ahead(question) :
           leading[Len(pin) + k] = Look(sec[k], question, rank, collection)
      /\ pinned \subseteq Point /\ Cardinality(pinned) <= 1
      /\ collection \subseteq Point
  BY <1>1 DEF IInv, Asking, PrimarySound, LeadingSound, Merging, Covered, Fits
<1>3. \A pass : LookedUp(pass) = Look(pass, question, rank, collection)
  BY DEF LookedUp, Look
<1>4. Len(sec) \in 0..3 /\ Ahead(question) \in {1, 2} /\ Done - Ahead(question) = Len(sec) /\ Done > 0
  BY <1>1, SecondaryOf DEF Ahead
<1>5. primary = LookedUp("primary")
  BY <1>2, <1>3, <1>4
<1>6. Pinning(Sole) = pin
  <2>1. Sole = OneHit(question, collection)
    BY DEF Sole, OneHit, Hits, Matches
  <2>2. Sole \subseteq Point /\ Cardinality(Sole) <= 1 /\ IsFiniteSet(Sole)
    <3>1. Matches \in SUBSET Point
      BY <1>2 DEF Matches
    <3>2. IsFiniteSet(Matches) /\ Cardinality(Matches) \in Nat
      BY <3>1, PointFinite, FS_Subset, FS_CardinalityType
    <3>3. IsFiniteSet({}) /\ Cardinality({}) = 0
      BY FS_EmptySet
    <3> QED
      BY <3>1, <3>2, <3>3 DEF Sole
  <2>3. Pinning(Sole) = Pinning(Dated(Sole))
    BY <2>2, PinningOf
  <2> QED
    BY <1>2, <2>1, <2>3
<1>7. pin \in Seq(Seq(Point)) /\ Len(pin) \in 0..1
  BY <1>1, <1>2, PinningOf
<1> HIDE DEF sec, pin
<1>8. \A k \in 1..Len(sec) : leading[Len(pin) + k] = LookedUp(sec[k]) /\ late[k] = LookedUp(sec[k])
  BY <1>2, <1>3, <1>4
<1>9. late \in Seq(Seq(Point)) /\ Len(late) = Len(sec)
  <2>1. ASSUME NEW k \in 1..Len(sec) PROVE late[k] \in Seq(Point)
    <3>1. Len(pin) + k \in 1..Len(leading)
      BY <1>1, <1>4, <1>7
    <3>2. leading[Len(pin) + k] \in Seq(Point)
      BY <1>1, <3>1, Places1
    <3> QED
      BY <1>8, <3>2
  <2>2. late \in [1..Len(sec) -> Seq(Point)]
    <3>1. \A k \in 1..Len(sec) : LookedUp(sec[k]) \in Seq(Point)
      BY <1>8, <2>1
    <3> QED
      BY <3>1
  <2>3. Len(sec) \in Nat
    BY <1>4
  <2> HIDE DEF late
  <2> QED
    BY <2>2, <2>3
<1> HIDE DEF late
<1>10. leading = pin \o late
  <2>1. /\ pin \o late \in Seq(Seq(Point)) /\ Len(pin \o late) = Len(pin) + Len(late)
        /\ \A i \in 1..Len(pin) : (pin \o late)[i] = pin[i]
        /\ \A i \in 1..Len(late) : (pin \o late)[Len(pin) + i] = late[i]
    <3> DEFINE A == Seq(Point)
    <3>1. pin \in Seq(A) /\ late \in Seq(A)
      BY <1>7, <1>9 DEF pin
    <3> HIDE DEF A
    <3>2. /\ pin \o late \in Seq(A) /\ Len(pin \o late) = Len(pin) + Len(late)
          /\ \A i \in 1..Len(pin) : (pin \o late)[i] = pin[i]
          /\ \A i \in 1..Len(late) : (pin \o late)[Len(pin) + i] = late[i]
      BY <3>1, ConcatOf
    <3> QED
      BY <3>2 DEF A
  <2>2. ASSUME NEW i \in 1..Len(leading) PROVE leading[i] = (pin \o late)[i]
    <3>1. CASE i <= Len(pin)
      BY <1>2, <1>7, <2>1, <3>1 DEF pin
    <3>2. CASE ~(i <= Len(pin))
      <4>1. PICK k \in 1..Len(sec) : i = Len(pin) + k
        <5>1. i - Len(pin) \in 1..Len(sec) /\ i = Len(pin) + (i - Len(pin))
          BY <1>1, <1>4, <1>7, <3>2 DEF pin, sec
        <5> QED
          BY <5>1
      <4> QED
        BY <1>8, <1>9, <2>1, <4>1
    <3> QED
      BY <3>1, <3>2
  <2>3. Len(leading) = Len(pin \o late)
    BY <1>1, <1>9, <2>1 DEF pin, sec
  <2> DEFINE c == pin \o late
  <2> HIDE DEF c
  <2> QED
    BY <1>1, <2>1, <2>2, <2>3, SeqEqual DEF c
<1> QED
  BY <1>2, <1>5, <1>6, <1>10 DEF AtOnce, late, sec, pin

-----------------------------------------------------------------------------
(* Theorems                                                                *)

\* The passes, their reads and their results keep their types: the list of passes only
\* shrinks, a merge keeps to its limit, at most one point is pinned, and nothing but an
\* answer has sources.
THEOREM TypeCorrect == Spec => []TypeOK
<1>1. IInv => TypeOK
  <2> SUFFICES ASSUME IInv PROVE TypeOK
    OBVIOUS
  <2>1. Asking /\ Remaining /\ HitsSound /\ ScanSound /\ PrimarySound /\ LeadingSound /\ Merging
    BY DEF IInv
  <2> DEFINE S == {"primary", "rate", "provision", "nuclear", "wage"}
  <2>2. todo \in Seq(S)
    <3>1. Passes(question) \in Seq(S)
      BY <2>1, PassesOf DEF Asking
    <3> HIDE DEF S
    <3>2. Range(Passes(question)) \subseteq S
      BY <3>1, Places1
    <3> QED
      BY <2>1, <3>2, SeqMonotonic DEF Remaining
  <2>3. hits # <<>> => todo # <<>> /\ DOMAIN hits \subseteq Reads(Head(todo), question)
    <3>1. DOMAIN hits = {} => hits = <<>>
      <4> SUFFICES ASSUME DOMAIN hits = {} PROVE hits = <<>>
        OBVIOUS
      <4>1. hits = [r \in {} |-> hits[r]]
        BY <2>1 DEF HitsSound
      <4>2. [r \in {} |-> hits[r]] = <<>>
        OBVIOUS
      <4> QED
        BY <4>1, <4>2
    <3> QED
      BY <2>1, <3>1 DEF HitsSound
  <2>4. IsFiniteSet(pinned) /\ Len(leading) <= 4
    <3>1. /\ pinned \subseteq Point /\ Cardinality(pinned) <= 1
          /\ Done < Ahead(question) => leading = <<>>
          /\ Done >= Ahead(question) => Len(leading) = Len(Pinning(pinned)) + Done - Ahead(question)
      BY <2>1 DEF LeadingSound
    <3>2. IsFiniteSet(pinned)
      BY <3>1, PointFinite, FS_Subset
    <3>3. Len(Pinning(pinned)) \in 0..1
      BY <3>1, <3>2, PinningOf
    <3>4. /\ Done \in 0..Ahead(question) + Len(Secondary(question)) /\ Len(Secondary(question)) \in 0..3
          /\ Ahead(question) \in 1..2
      BY <2>1, PassesOf, SecondaryOf DEF Remaining, Asking, Ahead
    <3>5. CASE Done < Ahead(question)
      BY <3>1, <3>2, <3>5
    <3>6. CASE ~(Done < Ahead(question))
      <4>1. \A x \in 0..1, a \in 1..2, s \in 0..3 : \A d \in 0..a + s : d >= a => x + d - a <= 4
        OBVIOUS
      <4>2. Done >= Ahead(question)
        BY <3>4, <3>6
      <4>3. Len(Pinning(pinned)) + Done - Ahead(question) <= 4
        BY <3>3, <3>4, <4>1, <4>2, Zenon
      <4> QED
        BY <3>1, <3>2, <4>2, <4>3
    <3> QED
      BY <3>5, <3>6
  <2>5. sources \in Seq(Point) /\ (sources # <<>> => status = "answered")
    <3>1. CASE Answered
      BY <3>1, AnswerOf DEF Answered
    <3>2. CASE ~Answered
      BY <2>1, <3>2 DEF Merging
    <3> QED
      BY <3>1, <3>2
  <2>6. scan.from \in Nat /\ scan.count \in Nat /\ scan.match \subseteq Point /\ Cardinality(scan.match) <= 1
    BY <2>1 DEF ScanSound
  <2>7. primary \in Seq(Point) /\ Len(primary) <= PassLimit("primary", question)
    BY <2>1 DEF PrimarySound
  <2>8. leading \in Seq(Seq(Point)) /\ pinned \subseteq Point /\ Cardinality(pinned) <= 1
    BY <2>1 DEF LeadingSound
  <2> QED
    BY <2>1, <2>2, <2>3, <2>4, <2>5, <2>6, <2>7, <2>8 DEF TypeOK, Asking
<1> QED
  BY <1>1, Inductive, PTL

\* The context window is never exceeded, names no chunk twice and keeps to what was asked,
\* whatever passes ran, whatever they found and whatever was ingested between their reads
\* (retrieval.py, _retrieve_with_client and _merge_union_results).
THEOREM WindowIsSound == Spec => []WindowSound
<1>1. IInv => WindowSound
  BY WindowSoundOf
<1> QED
  BY <1>1, Inductive, PTL

\* Guaranteed passes never push the base agreement out: the primary pass keeps its reserved
\* places, for limits of any size (retrieval.py:1186-1196).
THEOREM ReserveIsKept == Spec => []BaseStays
<1>1. IInv => BaseStays
  BY BaseStaysOf
<1> QED
  BY <1>1, Inductive, PTL

\* The best chunk of each leading pass is in the window, and a chunk of each of the first
\* unions compared, for any number of unions (retrieval.py:1128-1132).
THEOREM EveryPassHeard == Spec => []PassesHeard
<1>1. IInv => PassesHeard
  BY PassesHeardOf
<1> QED
  BY <1>1, Inductive, PTL

\* A pinned rate leads the window and is the only match there is, for pages of any size,
\* unless the corpus changed or has more tables than the scroll's cap.
THEOREM RateIsExact == Spec => []PinnedIsExact
<1>1. IInv => PinnedIsExact
  BY PinnedIsExactOf
<1> QED
  BY <1>1, Inductive, PTL

\* In whatever order the concurrent reads come back, and over however many pages the scroll
\* goes, the window is that of one look at the store (retrieval.py:1081-1083).
THEOREM OrderDoesNotMatter == Spec => []ReadsAsOne
<1>1. IInv => ReadsAsOne
  BY ReadsAsOneOf
<1> QED
  BY <1>1, Inductive, PTL
=============================================================================
