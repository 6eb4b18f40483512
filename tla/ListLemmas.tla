----------------------------- MODULE ListLemmas -----------------------------
(***************************************************************************)
(* What the operators of Lists return, what FlattenSeq joins, and          *)
(* arguments by induction for the proofs of the modules that use them.     *)
(* A recursive definition is a function, so that its steps can be taken    *)
(* from a function of steps, and what holds of every number is stated as a *)
(* set that contains them.                                                 *)
(***************************************************************************)
EXTENDS Lists, SequencesExt, FiniteSetTheorems, FunctionTheorems, SequenceTheorems, TLAPS
-----------------------------------------------------------------------------
(* Ordering a finite set by a key                                          *)

UpTo(S, key, x) == {y \in S : key[y] <= key[x]}

Keyed(S, key) ==
    /\ IsFiniteSet(S)
    /\ key \in [S -> Int]
    /\ \A x, y \in S : key[x] = key[y] => x = y

\* A member's place is the number of members up to it.
LEMMA PlaceType ==
    ASSUME NEW S, NEW key, Keyed(S, key), NEW x \in S
    PROVE  /\ IsFiniteSet(UpTo(S, key, x)) /\ Cardinality(S) \in Nat
           /\ Cardinality(UpTo(S, key, x)) \in 1..Cardinality(S)
<1>1. IsFiniteSet(S) /\ UpTo(S, key, x) \in SUBSET S /\ Cardinality(S) \in Nat
  BY FS_CardinalityType DEF Keyed, UpTo
<1>2. IsFiniteSet(UpTo(S, key, x)) /\ Cardinality(UpTo(S, key, x)) <= Cardinality(S)
  BY <1>1, FS_Subset
<1>3. x \in UpTo(S, key, x)
  BY DEF Keyed, UpTo
<1>4. Cardinality(UpTo(S, key, x)) \in Nat /\ Cardinality(UpTo(S, key, x)) # 0
  BY <1>2, <1>3, FS_CardinalityType, FS_EmptySet
<1> QED
  BY <1>1, <1>2, <1>4

LEMMA PlaceRises ==
    ASSUME NEW S, NEW key, Keyed(S, key), NEW x \in S, NEW y \in S, key[x] < key[y]
    PROVE  Cardinality(UpTo(S, key, x)) < Cardinality(UpTo(S, key, y))
<1>0. \A z \in S : key[z] \in Int
  BY DEF Keyed
<1>1. UpTo(S, key, x) \in SUBSET UpTo(S, key, y)
  BY <1>0 DEF UpTo
<1>2. y \in UpTo(S, key, y) /\ y \notin UpTo(S, key, x)
  BY <1>0 DEF UpTo
<1>3. IsFiniteSet(UpTo(S, key, y)) /\ IsFiniteSet(UpTo(S, key, x))
  BY PlaceType
<1>4. /\ Cardinality(UpTo(S, key, x)) <= Cardinality(UpTo(S, key, y))
      /\ Cardinality(UpTo(S, key, x)) # Cardinality(UpTo(S, key, y))
  BY <1>1, <1>2, <1>3, FS_Subset
<1> QED
  BY <1>3, <1>4, FS_CardinalityType

LEMMA PlaceUnique ==
    ASSUME NEW S, NEW key, Keyed(S, key), NEW x \in S, NEW y \in S,
           Cardinality(UpTo(S, key, x)) = Cardinality(UpTo(S, key, y))
    PROVE  x = y
<1>1. key[x] \in Int /\ key[y] \in Int /\ (key[x] = key[y] => x = y)
  BY DEF Keyed
<1>2. Cardinality(UpTo(S, key, x)) \in Nat /\ Cardinality(UpTo(S, key, y)) \in Nat
  BY PlaceType
<1>3. ~(key[x] < key[y]) /\ ~(key[y] < key[x])
  BY <1>2, PlaceRises
<1> QED
  BY <1>1, <1>3

\* Every place is taken.
LEMMA PlaceTaken ==
    ASSUME NEW S, NEW key, Keyed(S, key), NEW k \in 1..Cardinality(S)
    PROVE  \E x \in S : Cardinality(UpTo(S, key, x)) = k
<1> DEFINE n == Cardinality(S)
           place == [x \in S |-> Cardinality(UpTo(S, key, x))]
<1>1. IsFiniteSet(S) /\ n \in Nat
  BY FS_CardinalityType DEF Keyed
<1>2. place \in [S -> 1..n]
  BY PlaceType
<1>3. place \in Injection(S, 1..n)
  BY <1>2, PlaceUnique DEF Injection, IsInjective
<1>4. IsFiniteSet(1..n) /\ Cardinality(1..n) = n
  <2> HIDE DEF n
  <2>1. 1 \in Int /\ n \in Int
    BY <1>1
  <2>2. IsFiniteSet(1..n) /\ Cardinality(1..n) = IF 1 > n THEN 0 ELSE n - 1 + 1
    BY <2>1, FS_Interval
  <2> QED
    BY <1>1, <2>2
<1>5. place \in Surjection(S, 1..n)
  BY <1>3, <1>4, FS_Injection
<1>6. PICK x \in S : place[x] = k
  BY <1>5 DEF Surjection
<1> QED
  BY <1>6

\* Ordered lists the set, each member at its place.
LEMMA OrderedLists ==
    ASSUME NEW S, NEW key, Keyed(S, key)
    PROVE  /\ Cardinality(S) \in Nat
           /\ Ordered(S, key) \in Seq(S)
           /\ Len(Ordered(S, key)) = Cardinality(S)
           /\ \A k \in 1..Cardinality(S) :
                /\ Ordered(S, key)[k] \in S
                /\ Cardinality(UpTo(S, key, Ordered(S, key)[k])) = k
           /\ \A x \in S : Ordered(S, key)[Cardinality(UpTo(S, key, x))] = x
<1> DEFINE n == Cardinality(S)
           At(k) == CHOOSE x \in S : Cardinality({y \in S : key[y] <= key[x]}) = k
<1>1. n \in Nat
  BY FS_CardinalityType DEF Keyed
<1>2. ASSUME NEW k \in 1..n PROVE At(k) \in S /\ Cardinality(UpTo(S, key, At(k))) = k
  <2>1. \E x \in S : Cardinality(UpTo(S, key, x)) = k
    BY PlaceTaken
  <2> QED
    BY <2>1 DEF UpTo
<1>3. Ordered(S, key) = [k \in 1..n |-> At(k)]
  BY DEF Ordered
<1>4. Ordered(S, key) \in Seq(S) /\ Len(Ordered(S, key)) = n
  <2> HIDE DEF n, At
  <2>1. Ordered(S, key) \in [1..n -> S]
    BY <1>2, <1>3
  <2> QED
    BY <1>1, <2>1
<1>5. ASSUME NEW x \in S PROVE Ordered(S, key)[Cardinality(UpTo(S, key, x))] = x
  <2> DEFINE k == Cardinality(UpTo(S, key, x))
  <2>1. k \in 1..n
    BY PlaceType
  <2>2. At(k) \in S /\ Cardinality(UpTo(S, key, At(k))) = k
    BY <1>2, <2>1
  <2>3. At(k) = x
    BY <2>2, PlaceUnique
  <2> HIDE DEF n, At, k
  <2>4. Ordered(S, key)[k] = x
    BY <1>3, <2>1, <2>3
  <2> QED
    BY <2>4 DEF k
<1> QED
  BY <1>1, <1>2, <1>3, <1>4, <1>5

\* A finite set of numbers that is not empty has a least one.
LEMMA LeastNumber ==
    ASSUME NEW I, I \subseteq Int, IsFiniteSet(I), I # {}
    PROVE  \E i \in I : \A j \in I : i <= j
<1> DEFINE key == [i \in I |-> i]
<1>1. Keyed(I, key)
  BY DEF Keyed
<1>2. Cardinality(I) \in Nat /\ Cardinality(I) # 0
  BY FS_CardinalityType, FS_EmptySet
<1>3. PICK i \in I : Cardinality(UpTo(I, key, i)) = 1
  <2>1. 1 \in 1..Cardinality(I)
    BY <1>2
  <2> HIDE DEF key
  <2> QED
    BY <1>1, <2>1, PlaceTaken
<1>4. ASSUME NEW j \in I, j < i PROVE FALSE
  <2>1. key[j] < key[i]
    BY <1>4
  <2>2. Cardinality(UpTo(I, key, j)) \in 1..Cardinality(I)
    BY <1>1, PlaceType
  <2>3. Cardinality(UpTo(I, key, j)) < Cardinality(UpTo(I, key, i))
    BY <1>1, <2>1, PlaceRises
  <2> HIDE DEF key
  <2> QED
    BY <1>2, <1>3, <2>2, <2>3
<1>5. \A j \in I : i <= j
  <2> SUFFICES ASSUME NEW j \in I PROVE i <= j
    OBVIOUS
  <2> QED
    BY <1>4
<1> QED
  BY <1>5

\* A finite set of numbers that is not empty has a greatest one.
LEMMA GreatestNumber ==
    ASSUME NEW I, I \subseteq Int, IsFiniteSet(I), I # {}
    PROVE  \E i \in I : \A j \in I : j <= i
<1> DEFINE key == [i \in I |-> 0 - i]
<1>1. Keyed(I, key)
  <2>1. \A i \in I : i \in Int /\ key[i] \in Int /\ key[i] = 0 - i
    OBVIOUS
  <2>2. key \in [I -> Int] /\ \A x, y \in I : key[x] = key[y] => x = y
    BY <2>1
  <2> QED
    BY <2>2 DEF Keyed
<1>2. Cardinality(I) \in Nat /\ Cardinality(I) # 0
  BY FS_CardinalityType, FS_EmptySet
<1>3. PICK i \in I : Cardinality(UpTo(I, key, i)) = 1
  <2>1. 1 \in 1..Cardinality(I)
    BY <1>2
  <2> HIDE DEF key
  <2> QED
    BY <1>1, <2>1, PlaceTaken
<1>4. ASSUME NEW j \in I, i < j PROVE FALSE
  <2>1. key[j] < key[i]
    BY <1>4
  <2>2. Cardinality(UpTo(I, key, j)) \in 1..Cardinality(I)
    BY <1>1, PlaceType
  <2>3. Cardinality(UpTo(I, key, j)) < Cardinality(UpTo(I, key, i))
    BY <1>1, <2>1, PlaceRises
  <2> HIDE DEF key
  <2> QED
    BY <1>2, <1>3, <2>2, <2>3
<1>5. \A j \in I : j <= i
  <2> SUFFICES ASSUME NEW j \in I PROVE j <= i
    OBVIOUS
  <2> QED
    BY <1>4
<1> QED
  BY <1>5

-----------------------------------------------------------------------------
(* Sequences and what is picked from them                                  *)

\* The places of a sequence and the entries at them.
LEMMA Places1 ==
    ASSUME NEW A, NEW s \in Seq(A)
    PROVE  /\ Len(s) \in Nat /\ DOMAIN s = 1..Len(s) /\ IsFiniteSet(DOMAIN s)
           /\ \A i \in 1..Len(s) : s[i] \in A
           /\ Range(s) = {s[i] : i \in 1..Len(s)} /\ Range(s) \subseteq A
<1>1. Len(s) \in Nat /\ DOMAIN s = 1..Len(s) /\ \A i \in 1..Len(s) : s[i] \in A
  BY LenProperties
<1>2. IsFiniteSet(1..Len(s))
  BY <1>1, FS_Interval
<1> QED
  BY <1>1, <1>2 DEF Range

\* What is picked keeps its order: the entry at place i is found no later than i.
LEMMA PickedFrom ==
    ASSUME NEW A, NEW s \in Seq(A), NEW I \in SUBSET DOMAIN s
    PROVE  /\ Picked(s, I) \in Seq(A)
           /\ Len(Picked(s, I)) = Cardinality(I) /\ Len(Picked(s, I)) <= Len(s)
           /\ Range(Picked(s, I)) = {s[i] : i \in I}
           /\ \A i \in I : \E k \in 1..Len(Picked(s, I)) : k <= i /\ Picked(s, I)[k] = s[i]
           /\ (\A i, j \in I : s[i] = s[j] => i = j) => IsInjective(Picked(s, I))
<1> DEFINE key == [i \in I |-> i]
           at == Ordered(I, key)
           n == Cardinality(I)
           p == [k \in 1..n |-> s[at[k]]]
<1>0. /\ Len(s) \in Nat /\ DOMAIN s = 1..Len(s) /\ IsFiniteSet(DOMAIN s)
      /\ \A i \in 1..Len(s) : s[i] \in A
  BY Places1
<1>1. IsFiniteSet(I) /\ n <= Len(s)
  <2>1. Cardinality(1..Len(s)) = Len(s)
    BY <1>0, FS_Interval
  <2> QED
    BY <1>0, <2>1, FS_Subset
<1>2. Keyed(I, key)
  BY <1>0, <1>1 DEF Keyed
<1>3. Picked(s, I) = p
  BY DEF Picked
<1> HIDE DEF key
<1>4. /\ n \in Nat
      /\ \A k \in 1..n : at[k] \in I /\ Cardinality(UpTo(I, key, at[k])) = k
      /\ \A i \in I : at[Cardinality(UpTo(I, key, i))] = i
  BY <1>2, OrderedLists
<1>5. \A i \in I : Cardinality(UpTo(I, key, i)) \in 1..n
  BY <1>2, PlaceType
<1>6. \A i \in I : Cardinality(UpTo(I, key, i)) <= i
  <2> SUFFICES ASSUME NEW i \in I PROVE Cardinality(UpTo(I, key, i)) <= i
    OBVIOUS
  <2>1. UpTo(I, key, i) \in SUBSET (1..i)
    BY <1>0 DEF UpTo, key
  <2>2. i \in Nat /\ 1 <= i
    BY <1>0
  <2>3. IsFiniteSet(1..i) /\ Cardinality(1..i) = i
    BY <2>2, FS_Interval
  <2> QED
    BY <2>1, <2>3, FS_Subset
<1> HIDE DEF at, n
<1>7. p \in Seq(A) /\ Len(p) = n /\ DOMAIN p = 1..n
  <2>1. p \in [1..n -> A]
    BY <1>0, <1>4
  <2> QED
    BY <1>4, <2>1
<1>8. Range(p) = {s[i] : i \in I}
  <2>1. Range(p) \subseteq {s[i] : i \in I}
    BY <1>4 DEF Range
  <2>2. ASSUME NEW i \in I PROVE s[i] \in Range(p)
    BY <1>4, <1>5 DEF Range
  <2> QED
    BY <2>1, <2>2
<1>9. \A i \in I : \E k \in 1..n : k <= i /\ p[k] = s[i]
  <2> SUFFICES ASSUME NEW i \in I PROVE \E k \in 1..n : k <= i /\ p[k] = s[i]
    OBVIOUS
  <2> DEFINE k == Cardinality(UpTo(I, key, i))
  <2>1. k \in 1..n /\ k <= i /\ at[k] = i
    BY <1>4, <1>5, <1>6
  <2> HIDE DEF k
  <2> QED
    BY <2>1
<1>10. (\A i, j \in I : s[i] = s[j] => i = j) => IsInjective(p)
  <2> SUFFICES ASSUME \A i, j \in I : s[i] = s[j] => i = j,
                      NEW k \in 1..n, NEW l \in 1..n, p[k] = p[l]
               PROVE  k = l
    BY <1>7 DEF IsInjective
  <2>1. at[k] = at[l]
    BY <1>4
  <2> QED
    BY <1>4, <2>1
<1> HIDE DEF p
<1> QED
  BY <1>1, <1>3, <1>7, <1>8, <1>9, <1>10 DEF n

\* A list rises by its key.
LEMMA OrderedRises ==
    ASSUME NEW S, NEW key, Keyed(S, key), NEW i \in 1..Cardinality(S), NEW j \in 1..Cardinality(S), i < j
    PROVE  key[Ordered(S, key)[i]] < key[Ordered(S, key)[j]]
<1> DEFINE x == Ordered(S, key)[i]
           y == Ordered(S, key)[j]
<1>1. /\ x \in S /\ Cardinality(UpTo(S, key, x)) = i
      /\ y \in S /\ Cardinality(UpTo(S, key, y)) = j
  BY OrderedLists
<1>2. key[x] \in Int /\ key[y] \in Int /\ (key[x] = key[y] => x = y)
  BY <1>1 DEF Keyed
<1> HIDE DEF x, y
<1>3. ~(key[y] < key[x])
  <2> SUFFICES ASSUME key[y] < key[x] PROVE FALSE
    OBVIOUS
  <2>1. Cardinality(UpTo(S, key, y)) < Cardinality(UpTo(S, key, x))
    BY <1>1, PlaceRises
  <2> QED
    BY <1>1, <2>1, OrderedLists
<1>4. x # y
  BY <1>1, OrderedLists
<1>5. key[x] < key[y]
  BY <1>2, <1>3, <1>4
<1> QED
  BY <1>5 DEF x, y

\* What is picked comes from places that rise, and what stood together stays together.
LEMMA PickedPlaces ==
    ASSUME NEW A, NEW s \in Seq(A), NEW I \in SUBSET DOMAIN s
    PROVE  \E at \in [1..Len(Picked(s, I)) -> I] :
             /\ Len(Picked(s, I)) \in Nat
             /\ \A k \in 1..Len(Picked(s, I)) : Picked(s, I)[k] = s[at[k]]
             /\ \A i \in I : \E k \in 1..Len(Picked(s, I)) : at[k] = i
             /\ \A k, l \in 1..Len(Picked(s, I)) : k < l => at[k] < at[l]
             /\ \A i \in I : i + 1 \in I =>
                  \A k \in 1..Len(Picked(s, I)) : at[k] = i =>
                    k + 1 \in 1..Len(Picked(s, I)) /\ at[k + 1] = i + 1
<1> DEFINE key == [i \in I |-> i]
           at == Ordered(I, key)
           n == Cardinality(I)
           p == [k \in 1..n |-> s[at[k]]]
           place == [i \in I |-> Cardinality(UpTo(I, key, i))]
<1>1. DOMAIN s = 1..Len(s) /\ IsFiniteSet(I) /\ I \subseteq Int
  <2>1. Len(s) \in Nat /\ DOMAIN s = 1..Len(s) /\ IsFiniteSet(DOMAIN s)
    BY Places1
  <2>2. IsFiniteSet(I)
    BY <2>1, FS_Subset
  <2> QED
    BY <2>1, <2>2
<1>2. Keyed(I, key)
  BY <1>1 DEF Keyed
<1>3. Picked(s, I) = p
  BY DEF Picked
<1>4. /\ n \in Nat /\ at \in Seq(I) /\ Len(at) = n
      /\ \A k \in 1..n : at[k] \in I /\ Cardinality(UpTo(I, key, at[k])) = k
      /\ \A i \in I : at[Cardinality(UpTo(I, key, i))] = i
  BY <1>2, OrderedLists
<1>5. \A i \in I : Cardinality(UpTo(I, key, i)) \in 1..n /\ IsFiniteSet(UpTo(I, key, i))
  BY <1>2, PlaceType
<1>6. \A k, l \in 1..n : k < l => key[at[k]] < key[at[l]]
  BY <1>2, <1>4, OrderedRises
<1>7. \A i \in I : i + 1 \in I => UpTo(I, key, i + 1) = UpTo(I, key, i) \cup {i + 1}
  BY <1>1 DEF UpTo
<1>8. \A i \in I : i + 1 \in I => i + 1 \notin UpTo(I, key, i)
  BY <1>1 DEF UpTo
<1>9. Len(p) = n
  BY <1>4
<1>10. \A i \in I : key[i] = i
  OBVIOUS
<1>11. at \in [1..n -> I]
  BY <1>4
<1>12. \A i \in I : place[i] = Cardinality(UpTo(I, key, i))
  OBVIOUS
<1>13. \A k \in 1..n : p[k] = s[at[k]]
  OBVIOUS
<1> HIDE DEF key, at, n, p, place
<1>14. \A k, l \in 1..n : k < l => at[k] < at[l]
  BY <1>4, <1>6, <1>10
<1>15. ASSUME NEW i \in I, i + 1 \in I PROVE place[i + 1] = place[i] + 1
  <2>1. Cardinality(UpTo(I, key, i) \cup {i + 1}) = Cardinality(UpTo(I, key, i)) + 1
    BY <1>5, <1>8, <1>15, FS_AddElement
  <2> QED
    BY <1>7, <1>12, <1>15, <2>1
<1>16. ASSUME NEW i \in I, i + 1 \in I, NEW k \in 1..n, at[k] = i
       PROVE  k + 1 \in 1..n /\ at[k + 1] = i + 1
  <2>1. place[i] = k
    BY <1>4, <1>12, <1>16
  <2>2. place[i + 1] \in 1..n /\ at[place[i + 1]] = i + 1
    BY <1>4, <1>5, <1>12, <1>16
  <2> QED
    BY <1>15, <1>16, <2>1, <2>2
<1>17. \A i \in I : \E k \in 1..n : at[k] = i
  BY <1>4, <1>5
<1> QED
  BY <1>3, <1>4, <1>9, <1>11, <1>13, <1>14, <1>16, <1>17

-----------------------------------------------------------------------------
(* Induction and recursion over the numbers up to n                        *)

LEMMA Induction ==
    ASSUME NEW n \in Nat, NEW P, 0 \in P, \A i \in 1..n : i - 1 \in P => i \in P
    PROVE  \A i \in 0..n : i \in P
<1> DEFINE missing == {i \in 0..n : i \notin P}
<1> SUFFICES ASSUME missing # {} PROVE FALSE
  OBVIOUS
<1>1. IsFiniteSet(0..n)
  BY FS_Interval
<1>2. IsFiniteSet(missing) /\ missing \subseteq Int
  BY <1>1, FS_Subset
<1>3. PICK i \in missing : \A j \in missing : i <= j
  BY <1>2, LeastNumber
<1>4. i \in 0..n /\ i \notin P
  OBVIOUS
<1>5. i \in 1..n /\ i - 1 \in 0..n
  BY <1>4
<1>6. i - 1 \notin missing
  BY <1>3, <1>5
<1> QED
  BY <1>4, <1>5, <1>6

\* f is what one gets from x by the steps 1, 2, ... n.
Runs(f, n, x, step) == f[0] = x /\ \A i \in 1..n : f[i] = step[i][f[i - 1]]

\* A recursive definition whose steps stay in S has the function it defines.
LEMMA Recursion ==
    ASSUME NEW S, NEW n \in Nat, NEW first \in S, NEW step \in [1..n -> [S -> S]]
    PROVE  \E f \in [0..n -> S] : Runs(f, n, first, step)
<1> DEFINE Starts(f, m) == f[0] = first /\ \A i \in 1..m : f[i] = step[i][f[i - 1]]
           P == {m \in 0..n : \E f \in [0..m -> S] : Starts(f, m)}
<1>1. 0 \in P
  <2> DEFINE f == [i \in 0..0 |-> first]
  <2>1. f \in [0..0 -> S] /\ f[0] = first /\ 0 \in 0..n
    OBVIOUS
  <2>2. Starts(f, 0)
    BY <2>1
  <2> HIDE DEF f
  <2> QED
    BY <2>1, <2>2
<1>2. ASSUME NEW m \in 1..n, m - 1 \in P PROVE m \in P
  <2>1. PICK f \in [0..m - 1 -> S] : Starts(f, m - 1)
    BY <1>2
  <2> DEFINE g == [i \in 0..m |-> IF i = m THEN step[m][f[m - 1]] ELSE f[i]]
  <2>2. f[m - 1] \in S /\ step[m] \in [S -> S]
    OBVIOUS
  <2>3. g \in [0..m -> S] /\ \A i \in 0..m - 1 : g[i] = f[i]
    BY <2>2
  <2>4. g[m] = step[m][f[m - 1]]
    OBVIOUS
  <2> HIDE DEF g
  <2>5. ASSUME NEW i \in 1..m PROVE g[i] = step[i][g[i - 1]]
    <3>1. i - 1 \in 0..m - 1 /\ (i # m => i \in 1..m - 1 /\ i \in 0..m - 1)
      OBVIOUS
    <3> QED
      BY <2>1, <2>3, <2>4, <3>1
  <2>6. g[0] = first
    BY <2>1, <2>3
  <2>7. Starts(g, m) /\ m \in 0..n
    BY <2>5, <2>6
  <2> QED
    BY <2>3, <2>7
<1> HIDE DEF P
<1>3. \A i \in 1..n : i - 1 \in P => i \in P
  BY <1>2
<1>4. n \in P
  <2>1. \A i \in 0..n : i \in P
    BY <1>1, <1>3, Induction
  <2> QED
    BY <2>1
<1> QED
  BY <1>4 DEF P, Runs

-----------------------------------------------------------------------------
(* FlattenSeq                                                              *)

\* FlattenSeq is a recursive function of the entries joined so far.
Joins(ss, f) ==
    /\ DOMAIN f = 1..Len(ss)
    /\ \A i \in 1..Len(ss) : f[i] = IF i = 1 THEN ss[i] ELSE f[i - 1] \o ss[i]

LEMMA JoinsOf ==
    ASSUME NEW A, NEW ss \in Seq(Seq(A)), ss # <<>>
    PROVE  \E f \in [1..Len(ss) -> Seq(A)] : Joins(ss, f) /\ FlattenSeq(ss) = f[Len(ss)]
<1> DEFINE n == Len(ss)
           step == [i \in 1..n |-> [x \in Seq(A) |-> x \o ss[i]]]
           Body(f) == [i \in 1..n |-> IF i = 1 THEN ss[i] ELSE f[i - 1] \o ss[i]]
           flatten == CHOOSE f : f = Body(f)
<1>1. n \in Nat \ {0} /\ \A i \in 1..n : ss[i] \in Seq(A)
  BY EmptySeq, LenProperties
<1>2. step \in [1..n -> [Seq(A) -> Seq(A)]] /\ <<>> \in Seq(A)
  BY <1>1, ConcatProperties
<1>3. \A i \in 1..n : \A x \in Seq(A) : step[i][x] = x \o ss[i]
  OBVIOUS
<1> HIDE DEF n, step
<1>4. PICK g \in [0..n -> Seq(A)] : Runs(g, n, <<>>, step)
  <2>1. n \in Nat
    BY <1>1
  <2> QED
    BY <1>2, <2>1, Recursion
<1>5. \A i \in 1..n : g[i] = IF i = 1 THEN ss[i] ELSE g[i - 1] \o ss[i]
  <2> SUFFICES ASSUME NEW i \in 1..n PROVE g[i] = IF i = 1 THEN ss[i] ELSE g[i - 1] \o ss[i]
    OBVIOUS
  <2>1. i - 1 \in 0..n /\ g[i - 1] \in Seq(A) /\ ss[i] \in Seq(A)
    BY <1>1
  <2>2. g[i] = g[i - 1] \o ss[i]
    BY <1>3, <1>4, <2>1 DEF Runs
  <2>3. <<>> \o ss[i] = ss[i]
    BY <2>1, ConcatEmptySeq
  <2>4. CASE i = 1
    <3>1. g[i - 1] = <<>>
      BY <1>4, <2>4 DEF Runs
    <3> QED
      BY <2>2, <2>3, <2>4, <3>1
  <2> QED
    BY <2>2, <2>4
<1> DEFINE h == [i \in 1..n |-> g[i]]
<1>6. h = Body(h)
  <2>1. \A i \in 1..n : i # 1 => i - 1 \in 1..n
    BY <1>1
  <2>2. \A i \in 1..n : h[i] = IF i = 1 THEN ss[i] ELSE h[i - 1] \o ss[i]
    BY <1>5, <2>1
  <2> HIDE DEF h
  <2>3. h = [i \in 1..n |-> h[i]]
    BY DEF h
  <2> QED
    BY <2>2, <2>3
<1>7. flatten = Body(flatten)
  <2>1. \E f : f = Body(f)
    BY <1>6
  <2> QED
    BY <2>1
<1> HIDE DEF h
<1>8. FlattenSeq(ss) = flatten[n]
  BY <1>1 DEF FlattenSeq, n
<1> HIDE DEF flatten
<1>9. Joins(ss, flatten)
  BY <1>7 DEF Joins, n
<1>10. \A i \in 0..n : i \in {k \in 0..n : k > 0 => flatten[k] = g[k]}
  <2> DEFINE P == {k \in 0..n : k > 0 => flatten[k] = g[k]}
  <2>1. 0 \in P
    BY <1>1
  <2>2. ASSUME NEW i \in 1..n, i - 1 \in P PROVE i \in P
    <3>1. i = 1 \/ i - 1 > 0
      OBVIOUS
    <3>2. flatten[i] = IF i = 1 THEN ss[i] ELSE flatten[i - 1] \o ss[i]
      BY <1>7
    <3> QED
      BY <1>5, <2>2, <3>1, <3>2
  <2>3. \A i \in 1..n : i - 1 \in P => i \in P
    BY <2>2
  <2> HIDE DEF P
  <2>4. n \in Nat
    BY <1>1
  <2>5. \A i \in 0..n : i \in P
    BY <2>1, <2>3, <2>4, Induction
  <2> QED
    BY <2>5 DEF P
<1>11. \A i \in 1..n : flatten[i] \in Seq(A)
  <2> SUFFICES ASSUME NEW i \in 1..n PROVE flatten[i] \in Seq(A)
    OBVIOUS
  <2>1. i \in 0..n /\ i > 0
    OBVIOUS
  <2> QED
    BY <1>10, <2>1
<1>12. flatten \in [1..n -> Seq(A)]
  BY <1>7, <1>11
<1> QED
  BY <1>8, <1>9, <1>12 DEF n

\* What is joined is what the parts hold.
LEMMA FlattenOf ==
    ASSUME NEW A, NEW ss \in Seq(Seq(A))
    PROVE  /\ FlattenSeq(ss) \in Seq(A)
           /\ Range(FlattenSeq(ss)) = UNION {Range(ss[i]) : i \in 1..Len(ss)}
<1>1. CASE ss = <<>>
  <2>1. FlattenSeq(ss) = <<>> /\ Len(ss) = 0 /\ <<>> \in Seq(A) /\ Len(<<>>) = 0
    BY <1>1, EmptySeq DEF FlattenSeq
  <2>2. Range(<<>>) = {}
    BY DEF Range
  <2>3. 1..Len(ss) = {}
    BY <2>1
  <2> QED
    BY <2>1, <2>2, <2>3
<1>2. CASE ss # <<>>
  <2> DEFINE n == Len(ss)
             Held(m) == UNION {Range(ss[i]) : i \in 1..m}
  <2>1. n \in Nat \ {0} /\ \A i \in 1..n : ss[i] \in Seq(A)
    BY <1>2, EmptySeq, LenProperties
  <2>2. PICK f \in [1..n -> Seq(A)] : Joins(ss, f) /\ FlattenSeq(ss) = f[n]
    BY <1>2, JoinsOf
  <2> HIDE DEF n
  <2>3. \A i \in 1..n : f[i] = IF i = 1 THEN ss[i] ELSE f[i - 1] \o ss[i]
    BY <2>2 DEF Joins, n
  <2> DEFINE P == {m \in 0..n : m > 0 => Range(f[m]) = Held(m)}
  <2>4. ASSUME NEW m \in 1..n, m - 1 \in P PROVE m \in P
    <3>1. CASE m = 1
      <4>1. 1..m = {1} /\ f[m] = ss[1]
        <5>1. 1..1 = {1}
          OBVIOUS
        <5> QED
          BY <2>3, <3>1, <5>1
      <4>2. Held(m) = Range(ss[1])
        <5>1. {Range(ss[i]) : i \in {1}} = {Range(ss[1])}
          OBVIOUS
        <5> QED
          BY <4>1, <5>1
      <4> HIDE DEF Held
      <4> QED
        BY <4>1, <4>2
    <3>2. CASE m # 1
      <4>1. m - 1 \in 1..n /\ f[m - 1] \in Seq(A) /\ ss[m] \in Seq(A)
        BY <2>1, <3>2
      <4>2. Range(f[m]) = Range(f[m - 1]) \cup Range(ss[m])
        <5>1. f[m] = f[m - 1] \o ss[m]
          BY <2>3, <3>2
        <5> QED
          BY <4>1, <5>1, RangeConcatenation
      <4>3. Range(f[m - 1]) = Held(m - 1)
        BY <2>4, <4>1
      <4>4. 1..m = 1..m - 1 \cup {m}
        OBVIOUS
      <4>5. Held(m) = Held(m - 1) \cup Range(ss[m])
        <5>1. {Range(ss[i]) : i \in 1..m} = {Range(ss[i]) : i \in 1..m - 1} \cup {Range(ss[m])}
          BY <4>4
        <5> QED
          BY <5>1
      <4>6. Range(f[m]) = Held(m)
        BY <4>2, <4>3, <4>5
      <4> HIDE DEF Held
      <4> QED
        BY <4>6
    <3> QED
      BY <3>1, <3>2
  <2>5. 0 \in P
    BY <2>1
  <2>6. \A i \in 1..n : i - 1 \in P => i \in P
    BY <2>4
  <2> HIDE DEF P
  <2>7. n \in P
    <3>1. n \in Nat
      BY <2>1
    <3>2. \A i \in 0..n : i \in P
      BY <2>5, <2>6, <3>1, Induction
    <3> QED
      BY <3>1, <3>2
  <2>8. Range(f[n]) = Held(n)
    BY <2>1, <2>7 DEF P
  <2>9. f[n] \in Seq(A)
    BY <2>1
  <2> QED
    BY <2>2, <2>8, <2>9 DEF n
<1> QED
  BY <1>1, <1>2

\* What is joined last comes last.
LEMMA FlattenAppend ==
    ASSUME NEW A, NEW ss \in Seq(Seq(A)), NEW s \in Seq(A)
    PROVE  FlattenSeq(Append(ss, s)) = FlattenSeq(ss) \o s
<1> DEFINE ts == Append(ss, s)
           n == Len(ss)
<1>1. /\ ts \in Seq(Seq(A)) /\ ts # <<>> /\ Len(ts) = n + 1
      /\ \A i \in 1..n : ts[i] = ss[i]
      /\ ts[n + 1] = s
  BY AppendProperties
<1>2. n \in Nat /\ \A i \in 1..n : ss[i] \in Seq(A)
  BY LenProperties
<1>3. PICK g \in [1..Len(ts) -> Seq(A)] : Joins(ts, g) /\ FlattenSeq(ts) = g[Len(ts)]
  BY <1>1, JoinsOf
<1>4. /\ \A i \in 1..n + 1 : g[i] = IF i = 1 THEN ts[i] ELSE g[i - 1] \o ts[i]
      /\ FlattenSeq(ts) = g[n + 1]
  BY <1>1, <1>3 DEF Joins
<1>5. CASE ss = <<>>
  <2>1. n = 0 /\ FlattenSeq(ss) = <<>>
    BY <1>5 DEF FlattenSeq
  <2>2. FlattenSeq(ts) = s
    BY <1>1, <1>4, <2>1
  <2>3. <<>> \o s = s
    BY ConcatEmptySeq
  <2> QED
    BY <2>1, <2>2, <2>3
<1>6. CASE ss # <<>>
  <2>1. PICK f \in [1..n -> Seq(A)] : Joins(ss, f) /\ FlattenSeq(ss) = f[n]
    BY <1>6, JoinsOf
  <2>2. n > 0
    BY <1>2, <1>6, EmptySeq, LenProperties
  <2>3. \A i \in 1..n : f[i] = IF i = 1 THEN ss[i] ELSE f[i - 1] \o ss[i]
    BY <2>1 DEF Joins
  <2> HIDE DEF ts, n
  <2> DEFINE P == {i \in 0..n : i > 0 => g[i] = f[i]}
  <2>4. ASSUME NEW i \in 1..n, i - 1 \in P PROVE i \in P
    <3>1. i \in 1..n + 1 /\ (i # 1 => i - 1 > 0)
      BY <1>2
    <3>2. g[i] = IF i = 1 THEN ss[i] ELSE g[i - 1] \o ss[i]
      BY <1>1, <1>4, <3>1
    <3>3. i # 1 => g[i - 1] = f[i - 1]
      BY <2>4, <3>1
    <3>4. g[i] = f[i]
      BY <2>3, <3>2, <3>3
    <3> QED
      BY <3>4
  <2>5. 0 \in P
    BY <1>2
  <2>6. \A i \in 1..n : i - 1 \in P => i \in P
    BY <2>4
  <2> HIDE DEF P
  <2>7. n \in P
    <3>1. \A i \in 0..n : i \in P
      BY <1>2, <2>5, <2>6, Induction
    <3> QED
      BY <1>2, <3>1
  <2>8. g[n] = f[n]
    BY <2>2, <2>7 DEF P
  <2>9. g[n + 1] = g[n] \o s
    <3>1. n + 1 \in 1..n + 1 /\ n + 1 # 1 /\ (n + 1) - 1 = n
      BY <1>2, <2>2
    <3> QED
      BY <1>1, <1>4, <3>1
  <2> QED
    BY <1>4, <2>1, <2>8, <2>9 DEF ts, n
<1> QED
  BY <1>5, <1>6

\* A flattened list begins with its first entry.
LEMMA FlattenBegins ==
    ASSUME NEW A, NEW ss \in Seq(Seq(A)), ss # <<>>
    PROVE  \A i \in 1..Len(ss[1]) : i \in 1..Len(FlattenSeq(ss)) /\ FlattenSeq(ss)[i] = ss[1][i]
<1> DEFINE n == Len(ss)
           Begins(s) == \A i \in 1..Len(ss[1]) : i \in 1..Len(s) /\ s[i] = ss[1][i]
           P(g) == {m \in 0..n : m # 0 => Begins(g[m])}
<1>0. ASSUME NEW s \in Seq(A), NEW t \in Seq(A), NEW i \in 1..Len(s)
      PROVE  i \in 1..Len(s \o t) /\ (s \o t)[i] = s[i]
  BY ConcatProperties, LenProperties
<1>1. n \in Nat \ {0} /\ \A i \in 1..n : ss[i] \in Seq(A)
  BY EmptySeq, LenProperties
<1>2. PICK g \in [1..n -> Seq(A)] : Joins(ss, g) /\ FlattenSeq(ss) = g[n]
  BY JoinsOf
<1> HIDE DEF n
<1>3. \A i \in 1..n : g[i] = IF i = 1 THEN ss[i] ELSE g[i - 1] \o ss[i]
  BY <1>2 DEF Joins, n
<1>4. ASSUME NEW m \in 1..n, m - 1 \in P(g) PROVE m \in P(g)
  <2>1. CASE m = 1
    <3>1. g[m] = ss[1]
      BY <1>3, <2>1
    <3> QED
      BY <1>1, <3>1
  <2>2. CASE m # 1
    <3>1. m - 1 \in 1..n /\ m - 1 # 0 /\ m \in 0..n
      BY <1>1, <2>2
    <3>2. g[m] = g[m - 1] \o ss[m] /\ g[m - 1] \in Seq(A) /\ ss[m] \in Seq(A)
      BY <1>1, <1>2, <1>3, <2>2, <3>1
    <3>4. \A i \in 1..Len(g[m - 1]) : i \in 1..Len(g[m]) /\ g[m][i] = g[m - 1][i]
      BY <1>0, <3>2
    <3>5. Begins(g[m - 1])
      BY <1>4, <3>1
    <3>6. Begins(g[m])
      BY <3>4, <3>5
    <3> QED
      BY <3>1, <3>6
  <2> QED
    BY <2>1, <2>2
<1>5. 0 \in P(g)
  BY <1>1
<1>6. \A m \in 0..n : m \in P(g)
  <2> DEFINE Q == P(g)
  <2>1. 0 \in Q /\ \A m \in 1..n : m - 1 \in Q => m \in Q
    BY <1>4, <1>5
  <2> HIDE DEF Q
  <2>2. \A m \in 0..n : m \in Q
    BY <1>1, <2>1, Induction
  <2> QED
    BY <2>2 DEF Q
<1>7. Begins(g[n])
  BY <1>1, <1>6
<1> QED
  BY <1>2, <1>7

\* The parts stand one after the other in what is joined.
LEMMA FlattenPlaces ==
    ASSUME NEW A, NEW ss \in Seq(Seq(A))
    PROVE  \E from \in [0..Len(ss) -> Nat] :
             /\ from[0] = 0 /\ Len(FlattenSeq(ss)) = from[Len(ss)]
             /\ \A i \in 1..Len(ss) : from[i] = from[i - 1] + Len(ss[i])
             /\ \A i \in 1..Len(ss) : \A k \in 1..Len(ss[i]) :
                  /\ from[i - 1] + k \in 1..Len(FlattenSeq(ss))
                  /\ FlattenSeq(ss)[from[i - 1] + k] = ss[i][k]
             /\ \A l \in 1..Len(FlattenSeq(ss)) :
                  \E i \in 1..Len(ss) : \E k \in 1..Len(ss[i]) : l = from[i - 1] + k
             /\ \A i, j \in 0..Len(ss) : i <= j => from[i] <= from[j]
<1> DEFINE n == Len(ss)
<1>1. n \in Nat /\ \A i \in 1..n : ss[i] \in Seq(A) /\ Len(ss[i]) \in Nat
  BY LenProperties
<1>2. PICK g \in [0..n -> Seq(A)] :
        /\ g[0] = <<>> /\ FlattenSeq(ss) = g[n]
        /\ \A i \in 1..n : g[i] = g[i - 1] \o ss[i]
  <2>1. CASE ss = <<>>
    <3>1. n = 0 /\ FlattenSeq(ss) = <<>>
      BY <2>1, EmptySeq DEF FlattenSeq
    <3> DEFINE g == [i \in 0..n |-> <<>>]
    <3>2. g \in [0..n -> Seq(A)] /\ g[0] = <<>> /\ 1..n = {} /\ g[n] = <<>>
      BY <3>1
    <3> QED
      BY <3>1, <3>2
  <2>2. CASE ss # <<>>
    <3>1. PICK f \in [1..n -> Seq(A)] : Joins(ss, f) /\ FlattenSeq(ss) = f[n]
      BY <2>2, JoinsOf
    <3>2. n # 0
      BY <2>2, EmptySeq, LenProperties
    <3> DEFINE g == [i \in 0..n |-> IF i = 0 THEN <<>> ELSE f[i]]
    <3>3. <<>> \in Seq(A) /\ \A i \in 0..n : i # 0 => i \in 1..n
      BY <1>1
    <3>4. g \in [0..n -> Seq(A)] /\ g[0] = <<>> /\ g[n] = f[n] /\ \A i \in 1..n : g[i] = f[i]
      BY <1>1, <3>2, <3>3
    <3> HIDE DEF g
    <3>5. ASSUME NEW i \in 1..n PROVE g[i] = g[i - 1] \o ss[i]
      <4>1. f[i] = IF i = 1 THEN ss[i] ELSE f[i - 1] \o ss[i]
        BY <3>1 DEF Joins
      <4>2. CASE i = 1
        <5>1. <<>> \o ss[i] = ss[i]
          BY <1>1, ConcatEmptySeq
        <5>2. g[i - 1] = <<>>
          BY <3>4, <4>2
        <5> QED
          BY <3>4, <4>1, <4>2, <5>1, <5>2
      <4>3. CASE i # 1
        <5>1. i - 1 \in 1..n
          BY <4>3
        <5> QED
          BY <3>4, <4>1, <4>3, <5>1
      <4> QED
        BY <4>2, <4>3
    <3> QED
      BY <3>1, <3>4, <3>5
  <2> QED
    BY <2>1, <2>2
<1> DEFINE from == [i \in 0..n |-> Len(g[i])]
<1>3. \A i \in 0..n : g[i] \in Seq(A) /\ Len(g[i]) \in Nat
  BY LenProperties
<1>4. from \in [0..n -> Nat] /\ \A i \in 0..n : from[i] = Len(g[i])
  BY <1>3
<1> HIDE DEF from, n
<1>5. from[0] = 0 /\ Len(FlattenSeq(ss)) = from[n]
  <2>1. 0 \in 0..n /\ n \in 0..n /\ Len(<<>>) = 0
    BY <1>1
  <2> QED
    BY <1>2, <1>4, <2>1
<1>6. ASSUME NEW i \in 1..n
      PROVE  /\ i - 1 \in 0..n /\ i \in 0..n /\ from[i - 1] \in Nat
             /\ from[i] = from[i - 1] + Len(ss[i])
             /\ \A l \in 1..from[i] : g[i][l] = IF l <= from[i - 1] THEN g[i - 1][l] ELSE ss[i][l - from[i - 1]]
  <2>1. i - 1 \in 0..n /\ i \in 0..n
    BY <1>1
  <2>2. g[i] = g[i - 1] \o ss[i] /\ g[i - 1] \in Seq(A) /\ ss[i] \in Seq(A)
    BY <1>1, <1>2, <1>3, <2>1
  <2> DEFINE x == g[i - 1]
             y == ss[i]
  <2>3. g[i] = x \o y /\ x \in Seq(A) /\ y \in Seq(A)
    BY <2>2
  <2>4. from[i] = Len(g[i]) /\ from[i - 1] = Len(x)
    BY <1>4, <2>1
  <2> HIDE DEF x, y
  <2>5. /\ Len(x) \in Nat /\ Len(g[i]) = Len(x) + Len(y)
        /\ \A l \in 1..Len(x) + Len(y) : g[i][l] = IF l <= Len(x) THEN x[l] ELSE y[l - Len(x)]
    BY <2>3, ConcatProperties, LenProperties
  <2> QED
    BY <2>1, <2>4, <2>5 DEF x, y
<1> DEFINE Into(m) == \A i \in 1..m : \A k \in 1..Len(ss[i]) :
                        from[i - 1] + k \in 1..from[m] /\ g[m][from[i - 1] + k] = ss[i][k]
           Onto(m) == \A l \in 1..from[m] : \E i \in 1..m : \E k \in 1..Len(ss[i]) : l = from[i - 1] + k
           Mono(m) == \A i \in 0..m : from[i] <= from[m]
           P == {m \in 0..n : Into(m) /\ Onto(m) /\ Mono(m)}
<1>7. 0 \in P
  BY <1>1, <1>5
<1>8. ASSUME NEW m \in 1..n, m - 1 \in P PROVE m \in P
  <2> DEFINE a == from[m - 1]
             c == Len(ss[m])
  <2>1. /\ a \in Nat /\ c \in Nat /\ from[m] = a + c /\ m \in 0..n
        /\ \A l \in 1..a + c : g[m][l] = IF l <= a THEN g[m - 1][l] ELSE ss[m][l - a]
    BY <1>1, <1>6
  <2>2. \A i : i \in 1..m <=> i \in 1..m - 1 \/ i = m
    BY <1>1
  <2>3. ASSUME NEW i \in 1..m, NEW k \in 1..Len(ss[i])
        PROVE  from[i - 1] + k \in 1..from[m] /\ g[m][from[i - 1] + k] = ss[i][k]
    <3>1. CASE i = m
      <4>1. k \in 1..c /\ a + k \in 1..a + c /\ ~(a + k <= a) /\ (a + k) - a = k
        BY <2>1, <3>1
      <4> HIDE DEF a, c
      <4>2. g[m][a + k] = ss[m][k]
        BY <2>1, <4>1
      <4> QED
        BY <2>1, <3>1, <4>1, <4>2 DEF a
    <3>2. CASE i \in 1..m - 1
      <4> DEFINE l == from[i - 1] + k
      <4>1. l \in 1..a /\ g[m - 1][l] = ss[i][k]
        BY <1>8, <3>2
      <4> HIDE DEF a, c, l
      <4>2. l \in 1..a + c /\ l <= a
        BY <2>1, <4>1
      <4> QED
        BY <2>1, <4>1, <4>2 DEF l
    <3> QED
      BY <2>2, <3>1, <3>2
  <2>4. ASSUME NEW l \in 1..from[m]
        PROVE  \E i \in 1..m : \E k \in 1..Len(ss[i]) : l = from[i - 1] + k
    <3>1. CASE l <= a
      <4>1. l \in 1..a
        BY <2>1, <3>1
      <4>2. PICK i \in 1..m - 1 : \E k \in 1..Len(ss[i]) : l = from[i - 1] + k
        BY <1>8, <4>1
      <4> QED
        BY <2>2, <4>2
    <3>2. CASE ~(l <= a)
      <4>1. l - a \in 1..c /\ l = a + (l - a)
        BY <2>1, <3>2
      <4>2. m \in 1..m
        BY <1>1
      <4> QED
        BY <4>1, <4>2
    <3> QED
      BY <3>1, <3>2
  <2>5. ASSUME NEW i \in 0..m PROVE from[i] <= from[m]
    <3>1. CASE i = m
      BY <2>1, <3>1
    <3>2. CASE i # m
      <4>1. i \in 0..m - 1 /\ i \in 0..n
        BY <1>1, <3>2
      <4>2. from[i] <= a
        BY <1>8, <4>1
      <4>3. from[i] \in Nat
        BY <1>4, <4>1
      <4> QED
        BY <2>1, <4>2, <4>3
    <3> QED
      BY <3>1, <3>2
  <2> QED
    BY <2>1, <2>3, <2>4, <2>5
<1>9. \A m \in 0..n : m \in P
  <2>1. \A m \in 1..n : m - 1 \in P => m \in P
    BY <1>8
  <2> HIDE DEF P
  <2> QED
    BY <1>1, <1>7, <2>1, Induction
<1>10. n \in P /\ \A i, j \in 0..n : i <= j => from[i] <= from[j]
  <2>1. n \in P
    <3> HIDE DEF P
    <3> QED
      BY <1>1, <1>9
  <2>2. ASSUME NEW i \in 0..n, NEW j \in 0..n, i <= j PROVE from[i] <= from[j]
    <3>1. j \in P /\ i \in 0..j
      BY <1>9, <2>2
    <3> QED
      BY <3>1
  <2> QED
    BY <2>1, <2>2
<1>11. Into(n) /\ Onto(n)
  BY <1>10
<1>12. FlattenSeq(ss) = g[n] /\ \A i \in 1..n : from[i] = from[i - 1] + Len(ss[i])
  BY <1>2, <1>6
<1> HIDE DEF P
<1>13. \A i \in 1..n : \A k \in 1..Len(ss[i]) :
         /\ from[i - 1] + k \in 1..Len(FlattenSeq(ss))
         /\ FlattenSeq(ss)[from[i - 1] + k] = ss[i][k]
  BY <1>5, <1>11, <1>12
<1>14. \A l \in 1..Len(FlattenSeq(ss)) :
         \E i \in 1..n : \E k \in 1..Len(ss[i]) : l = from[i - 1] + k
  BY <1>5, <1>11
<1> HIDE DEF Into, Onto
<1> QED
  BY <1>4, <1>5, <1>10, <1>12, <1>13, <1>14 DEF n

\* No two entries of the parts are at one place.
LEMMA FlattenApart ==
    ASSUME NEW n \in Nat, NEW from \in [0..n -> Nat], NEW size \in [1..n -> Nat],
           \A i \in 1..n : from[i] = from[i - 1] + size[i],
           \A i, j \in 0..n : i <= j => from[i] <= from[j],
           NEW i \in 1..n, NEW j \in 1..n, NEW k \in 1..size[i], NEW l \in 1..size[j],
           from[i - 1] + k = from[j - 1] + l
    PROVE  i = j /\ k = l
<1>1. /\ i - 1 \in 0..n /\ j - 1 \in 0..n /\ i \in 0..n /\ j \in 0..n
  OBVIOUS
<1>2. /\ from[i - 1] \in Nat /\ from[j - 1] \in Nat /\ from[i] \in Nat /\ from[j] \in Nat
      /\ from[i - 1] + k <= from[i] /\ from[j - 1] + l <= from[j]
  BY <1>1
<1>3. ~(i < j)
  <2> SUFFICES ASSUME i < j PROVE FALSE
    OBVIOUS
  <2>1. i <= j - 1
    OBVIOUS
  <2>2. from[i] <= from[j - 1]
    BY <1>1, <2>1
  <2> QED
    BY <1>2, <2>2
<1>4. ~(j < i)
  <2> SUFFICES ASSUME j < i PROVE FALSE
    OBVIOUS
  <2>1. j <= i - 1
    OBVIOUS
  <2>2. from[j] <= from[i - 1]
    BY <1>1, <2>1
  <2>3. k \in Nat /\ k > 0 /\ l \in Nat
    OBVIOUS
  <2>4. from[j - 1] + l <= from[i - 1] /\ from[i - 1] + k > from[i - 1]
    BY <1>2, <2>2, <2>3
  <2> QED
    BY <1>2, <2>3, <2>4
<1>5. i = j
  BY <1>3, <1>4
<1> QED
  BY <1>2, <1>5

-----------------------------------------------------------------------------
(* Finite sets                                                             *)

\* The values of a function on a finite set are finitely many.
LEMMA FiniteImage ==
    ASSUME NEW S, IsFiniteSet(S), NEW f, DOMAIN f = S, f = [x \in S |-> f[x]]
    PROVE  IsFiniteSet({f[x] : x \in S})
<1> DEFINE T == {f[x] : x \in S}
<1>1. f \in Surjection(S, T)
  BY DEF Surjection
<1> QED
  BY <1>1, FS_Surjection
=============================================================================
