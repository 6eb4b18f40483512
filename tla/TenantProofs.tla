---------------------------- MODULE TenantProofs ----------------------------
(***************************************************************************)
(* What a tenant is let do, and what it pays for: the two limits a         *)
(* question has to pass, the rate limiter and the monthly quota, and the   *)
(* webhook that writes the subscriptions the quota reads.  What each       *)
(* promises, for every value of its constants.                             *)
(*                                                                         *)
(* RateLimiter.  What makes its properties inductive is the relation       *)
(* between the deque of a key and the history of its admitted hits: the    *)
(* deque is the tail of the history, and what it has dropped has aged.     *)
(*                                                                         *)
(* TierQuota.  Whoever is refused has had its allowance of the period, a   *)
(* paying tenant is not taken for a lapsed one, and the overshoot of an    *)
(* allowance is what was in flight, plus what was lost.  The first and the *)
(* last are arguments by counting.  What a refused query has counted was   *)
(* asked since the period began, or crosses its first day, and those that  *)
(* cross were all being handled when the day began.  When a query is let   *)
(* through, those admitted for its period before it are lost, in flight    *)
(* (and hold a slot each), or logged, and the logged ones are among those  *)
(* it has just counted.                                                    *)
(*                                                                         *)
(* StripeWebhook.  A claim that is not committed is its delivery's alone,  *)
(* and the judgement a delivery made on a row stays true until it commits, *)
(* because it holds the row.                                               *)
(***************************************************************************)
EXTENDS RateLimiter, TierQuota, StripeWebhook, FiniteSetTheorems, WellFoundedInduction,
        SequenceTheorems, TLAPS

-----------------------------------------------------------------------------
(* The rate limiter                                                        *)

Time == 0..MaxTime

\* A history of hits: ascending, none in the future.
Ascending(l) ==
    \A i \in 1..Len(l) :
        /\ l[i] <= clock
        /\ \A j \in i..Len(l) : l[i] <= l[j]

\* w is what remains of l once its first s entries, all aged, are dropped.
TailAfter(w, l, s) ==
    /\ Len(w) = Len(l) - s
    /\ \A i \in 1..Len(w) : w[i] = l[s + i]
    /\ \A i \in 1..s : Aged(l[i])

TailOf(w, l) == \E s \in 0..Len(l) : TailAfter(w, l, s)

\* No MaxHits + 1 consecutive entries of l lie within the window.
Spread(l) == \A i \in 1..(Len(l) - MaxHits) : l[i + MaxHits] - l[i] > Span

Histories ==
    \A k \in Key : Ascending(log[k]) /\ TailOf(hits[k], log[k])

LimiterIInv == LimiterTypeOK /\ MemoryBound /\ Histories /\ WindowBound

-----------------------------------------------------------------------------
(* Lemmas about one deque and one history                                  *)

\* What popleft leaves.
LEMMA Popped ==
    ASSUME NEW w \in Seq(Time), NEW n \in 0..Len(w)
    PROVE  LET v == SubSeq(w, n + 1, Len(w))
           IN  /\ v \in Seq(Time)
               /\ Len(v) = Len(w) - n
               /\ \A i \in 1..Len(v) : v[i] = w[n + i]
<1>1. Len(w) \in Nat /\ \A i \in (n + 1)..Len(w) : w[i] \in Time
  BY LenProperties
<1>2. n + 1 \in Int /\ Len(w) \in Int
  BY <1>1
<1>3. /\ SubSeq(w, n + 1, Len(w)) \in Seq(Time)
      /\ Len(SubSeq(w, n + 1, Len(w))) = IF n + 1 <= Len(w) THEN Len(w) - (n + 1) + 1 ELSE 0
      /\ \A i \in 1..Len(w) - (n + 1) + 1 : SubSeq(w, n + 1, Len(w))[i] = w[(n + 1) + i - 1]
  BY <1>1, <1>2, SubSeqProperties
<1> QED
  BY <1>1, <1>3

\* What prune leaves is still a tail of the history.
LEMMA PrunedTail ==
    ASSUME NEW w \in Seq(Time), NEW l \in Seq(Time), NEW n \in 0..Len(w),
           Prune(w, n), TailOf(w, l)
    PROVE  \E s \in 0..Len(l) :
             /\ TailAfter(SubSeq(w, n + 1, Len(w)), l, s)
             /\ Len(w) - n = Len(l) - s
<1> DEFINE v == SubSeq(w, n + 1, Len(w))
<1>1. PICK s \in 0..Len(l) : TailAfter(w, l, s)
  BY DEF TailOf
<1>2. Len(l) \in Nat /\ Len(w) \in Nat
  BY LenProperties
<1>3. Len(v) = Len(w) - n /\ \A i \in 1..Len(v) : v[i] = w[n + i]
  BY Popped
<1> HIDE DEF v
<1>4. s + n \in 0..Len(l) /\ Len(v) = Len(l) - (s + n) /\ Len(w) - n = Len(l) - (s + n)
  BY <1>1, <1>2, <1>3 DEF TailAfter
<1>5. \A i \in 1..Len(v) : v[i] = l[(s + n) + i]
  <2> SUFFICES ASSUME NEW i \in 1..Len(v) PROVE v[i] = l[(s + n) + i]
    OBVIOUS
  <2>1. n + i \in 1..Len(w)
    BY <1>2, <1>3
  <2>2. w[n + i] = l[s + (n + i)]
    BY <1>1, <2>1 DEF TailAfter
  <2>3. s + (n + i) = (s + n) + i
    BY <1>2, <1>3
  <2> QED
    BY <1>3, <2>2, <2>3
<1>6. \A i \in 1..(s + n) : Aged(l[i])
  <2> SUFFICES ASSUME NEW i \in 1..(s + n) PROVE Aged(l[i])
    OBVIOUS
  <2>1. CASE i <= s
    BY <1>1, <2>1 DEF TailAfter
  <2>2. CASE i > s
    <3>1. i - s \in 1..n /\ i - s \in 1..Len(w) /\ s + (i - s) = i
      BY <1>2, <2>2
    <3>2. Aged(w[i - s]) /\ w[i - s] = l[i]
      BY <1>1, <3>1 DEF Prune, TailAfter
    <3> QED
      BY <3>2
  <2> QED
    BY <1>2, <2>1, <2>2
<1> QED
  BY <1>4, <1>5, <1>6 DEF TailAfter, v


\* Appending the hit of an admitted call keeps the tail, the order and the spread.
LEMMA Recorded ==
    ASSUME NEW v \in Seq(Time), NEW l \in Seq(Time), NEW s \in 0..Len(l),
           clock \in Time, TailAfter(v, l, s), Ascending(l)
    PROVE  /\ TailOf(Append(v, clock), Append(l, clock))
           /\ Ascending(Append(l, clock))
           /\ Spread(l) /\ Len(v) < MaxHits => Spread(Append(l, clock))
<1> DEFINE a == Append(v, clock)
           b == Append(l, clock)
<1>1. Len(l) \in Nat /\ Len(v) \in Nat /\ Len(v) = Len(l) - s
  BY LenProperties DEF TailAfter
<1>2. Len(a) = Len(v) + 1 /\ a[Len(v) + 1] = clock /\ \A i \in 1..Len(v) : a[i] = v[i]
  BY AppendProperties
<1>3. Len(b) = Len(l) + 1 /\ b[Len(l) + 1] = clock /\ \A i \in 1..Len(l) : b[i] = l[i]
  BY AppendProperties
<1>4. \A i \in 1..Len(l) : l[i] \in Time
  BY LenProperties
<1> HIDE DEF a, b
<1>5. TailAfter(a, b, s)
  <2>1. Len(a) = Len(b) - s
    BY <1>1, <1>2, <1>3 DEF TailAfter
  <2>2. \A i \in 1..Len(a) : a[i] = b[s + i]
    <3> SUFFICES ASSUME NEW i \in 1..Len(a) PROVE a[i] = b[s + i]
      OBVIOUS
    <3>1. CASE i = Len(v) + 1
      BY <1>1, <1>2, <1>3, <3>1 DEF TailAfter
    <3>2. CASE i # Len(v) + 1
      <4>1. i \in 1..Len(v) /\ s + i \in 1..Len(l)
        BY <1>1, <1>2, <3>2
      <4> QED
        BY <1>2, <1>3, <4>1 DEF TailAfter
    <3> QED
      BY <3>1, <3>2
  <2>3. \A i \in 1..s : Aged(b[i])
    BY <1>1, <1>3 DEF TailAfter
  <2> QED
    BY <2>1, <2>2, <2>3 DEF TailAfter
<1>6. TailOf(a, b)
  BY <1>1, <1>3, <1>5 DEF TailOf
<1>7. Ascending(b)
  <2> SUFFICES ASSUME NEW i \in 1..Len(b), NEW j \in i..Len(b)
               PROVE  b[i] <= clock /\ b[i] <= b[j]
    BY DEF Ascending
  <2>1. CASE i = Len(l) + 1
    BY <1>1, <1>3, <2>1 DEF Time
  <2>2. CASE i # Len(l) + 1 /\ j = Len(l) + 1
    BY <1>1, <1>3, <2>2 DEF Ascending
  <2>3. CASE i # Len(l) + 1 /\ j # Len(l) + 1
    BY <1>1, <1>3, <2>3 DEF Ascending
  <2> QED
    BY <2>1, <2>2, <2>3
<1>8. ASSUME Spread(l), Len(v) < MaxHits PROVE Spread(b)
  <2> SUFFICES ASSUME NEW i \in 1..(Len(b) - MaxHits) PROVE b[i + MaxHits] - b[i] > Span
    BY DEF Spread
  <2>1. CASE i = Len(b) - MaxHits
    <3>1. i \in 1..s /\ i + MaxHits = Len(l) + 1
      BY <1>1, <1>3, <1>8, <2>1, LimiterAssumption DEF TailAfter
    <3>2. Aged(b[i])
      BY <1>5, <3>1 DEF TailAfter
    <3> QED
      BY <1>3, <3>1, <3>2 DEF Aged
  <2>2. CASE i # Len(b) - MaxHits
    <3>1. i \in 1..(Len(l) - MaxHits) /\ i \in 1..Len(l) /\ i + MaxHits \in 1..Len(l)
      BY <1>1, <1>3, <2>2, LimiterAssumption
    <3> QED
      BY <1>3, <1>8, <3>1 DEF Spread
  <2> QED
    BY <2>1, <2>2
<1> QED
  BY <1>6, <1>7, <1>8 DEF a, b

\* A deque whose newest hit has aged may be forgotten: all of the history has.
LEMMA Forgotten ==
    ASSUME NEW w \in Seq(Time), NEW l \in Seq(Time), clock \in Time,
           TailOf(w, l), Ascending(l), w # <<>>, Aged(Newest(w))
    PROVE  TailOf(<<>>, l)
<1>1. PICK s \in 0..Len(l) : TailAfter(w, l, s)
  BY DEF TailOf
<1>2. Len(w) \in Nat \ {0} /\ Len(l) \in Nat \ {0}
  <2>1. Len(w) \in Nat /\ Len(l) \in Nat /\ Len(w) # 0
    BY LenProperties, EmptySeq
  <2> QED
    BY <1>1, <2>1 DEF TailAfter
<1>3. Newest(w) = l[Len(l)]
  BY <1>1, <1>2 DEF TailAfter, Newest
<1>4. \A i \in 1..Len(l) : l[i] \in Int
  BY LenProperties, LimiterAssumption DEF Time
<1>5. \A i \in 1..Len(l) : Aged(l[i])
  <2> SUFFICES ASSUME NEW i \in 1..Len(l) PROVE Aged(l[i])
    OBVIOUS
  <2>1. Len(l) \in i..Len(l) /\ l[i] \in Int /\ l[Len(l)] \in Int
    BY <1>2, <1>4
  <2>2. l[i] <= l[Len(l)]
    BY <2>1 DEF Ascending
  <2>3. clock - l[Len(l)] > Span /\ clock \in Int
    BY <1>3, LimiterAssumption DEF Aged, Time
  <2> QED
    BY <2>1, <2>2, <2>3, LimiterAssumption DEF Aged
<1> QED
  BY <1>2, <1>5 DEF TailOf, TailAfter


-----------------------------------------------------------------------------
(* The inductive invariant                                                 *)

LEMMA LimiterInitInv == LimiterInit => LimiterIInv
<1> SUFFICES ASSUME LimiterInit PROVE LimiterIInv
  OBVIOUS
<1>1. <<>> \in Seq(Time) /\ Len(<<>>) = 0
  BY EmptySeq
<1>2. LimiterTypeOK
  BY <1>1, LimiterAssumption DEF LimiterInit, LimiterTypeOK, Time
<1>3. MemoryBound
  BY FS_EmptySet, LimiterAssumption DEF LimiterInit, MemoryBound
<1>4. Histories
  BY <1>1 DEF LimiterInit, Histories, Ascending, TailOf, TailAfter
<1>5. WindowBound
  BY <1>1, LimiterAssumption DEF LimiterInit, WindowBound
<1> QED
  BY <1>2, <1>3, <1>4, <1>5 DEF LimiterIInv

\* Time only ages hits.
LEMMA TickInv == LimiterIInv /\ Tick => LimiterIInv'
<1> SUFFICES ASSUME LimiterIInv, Tick PROVE LimiterIInv'
  OBVIOUS
<1>1. /\ clock' = clock + 1 /\ clock' \in 0..MaxTime /\ clock \in Int
      /\ keys' = keys /\ hits' = hits /\ older' = older /\ log' = log
  BY LimiterAssumption DEF LimiterIInv, LimiterTypeOK, Tick
<1>2. LimiterTypeOK'
  BY <1>1 DEF LimiterIInv, LimiterTypeOK
<1>3. MemoryBound'
  BY <1>1 DEF LimiterIInv, MemoryBound
<1>4. Histories'
  <2> SUFFICES ASSUME NEW k \in Key
               PROVE  Ascending(log[k])' /\ TailOf(hits[k], log[k])'
    BY DEF Histories
  <2>1. log[k] \in Seq(Time)
    BY DEF LimiterIInv, LimiterTypeOK, Time
  <2>2. \A i \in 1..Len(log[k]) : log[k][i] \in Int
    BY <2>1, LenProperties, LimiterAssumption DEF Time
  <2>3. Ascending(log[k])'
    BY <1>1, <2>2 DEF LimiterIInv, Histories, Ascending
  <2>4. PICK s \in 0..Len(log[k]) : TailAfter(hits[k], log[k], s)
    BY DEF LimiterIInv, Histories, TailOf
  <2>5. \A i \in 1..s : clock' - log[k][i] > Span
    <3> SUFFICES ASSUME NEW i \in 1..s PROVE clock' - log[k][i] > Span
      OBVIOUS
    <3>1. Len(log[k]) \in Nat /\ i \in 1..Len(log[k])
      BY <2>1, LenProperties
    <3> QED
      BY <1>1, <2>2, <2>4, <3>1, LimiterAssumption DEF TailAfter, Aged
  <2>6. TailAfter(hits[k], log[k], s)'
    BY <1>1, <2>4, <2>5 DEF TailAfter, Aged
  <2> QED
    BY <1>1, <2>3, <2>6 DEF TailOf
<1>5. WindowBound'
  BY <1>1 DEF LimiterIInv, WindowBound
<1> QED
  BY <1>2, <1>3, <1>4, <1>5 DEF LimiterIInv

\* What holds of the new deques and histories at the old clock reading holds after
\* a step that leaves the clock alone.
LEMMA SameClock ==
    ASSUME clock' = clock, \A x \in Key : Ascending(log'[x]) /\ TailOf(hits'[x], log'[x])
    PROVE  Histories'
<1> SUFFICES ASSUME NEW x \in Key
             PROVE  Ascending(log[x])' /\ TailOf(hits[x], log[x])'
  BY DEF Histories
<1>1. Ascending(log[x])'
  <2>1. Ascending(log'[x])
    OBVIOUS
  <2> QED
    BY <2>1 DEF Ascending
<1>2. PICK s \in 0..Len(log'[x]) : TailAfter(hits'[x], log'[x], s)
  BY DEF TailOf
<1>3. TailAfter(hits[x], log[x], s)'
  BY <1>2 DEF TailAfter, Aged
<1> QED
  BY <1>1, <1>3 DEF TailOf

\* A refused call only drops aged hits, and keeps at least MaxHits.
LEMMA RejectInv ==
    ASSUME LimiterIInv, NEW k \in Key, NEW n \in 0..Len(hits[k]), Reject(k, n)
    PROVE  LimiterIInv'
<1> DEFINE v == SubSeq(hits[k], n + 1, Len(hits[k]))
<1>1. /\ hits[k] \in Seq(Time) /\ log[k] \in Seq(Time)
      /\ Len(hits[k]) \in Nat
  BY LenProperties DEF LimiterIInv, LimiterTypeOK, Time
<1>2. /\ clock' = clock /\ keys' = keys /\ older' = older /\ log' = log
      /\ hits' = [hits EXCEPT ![k] = v]
      /\ Prune(hits[k], n) /\ Len(hits[k]) - n >= MaxHits
  BY DEF Reject
<1>3. v \in Seq(Time) /\ Len(v) = Len(hits[k]) - n
  BY <1>1, Popped
<1>4. v # <<>> /\ hits[k] # <<>>
  <2> HIDE DEF v
  <2>1. Len(<<>>) = 0
    BY EmptySeq
  <2>2. Len(v) # 0 /\ Len(hits[k]) # 0
    BY <1>1, <1>2, <1>3, LimiterAssumption
  <2> QED
    BY <2>1, <2>2
<1>5. \E s \in 0..Len(log[k]) : TailAfter(v, log[k], s)
  BY <1>1, <1>2, PrunedTail DEF LimiterIInv, Histories
<1> HIDE DEF v
<1>6. \A x \in Key : hits'[x] = IF x = k THEN v ELSE hits[x]
  BY <1>2 DEF LimiterIInv, LimiterTypeOK
<1>7. LimiterTypeOK'
  BY <1>2, <1>3, <1>4, <1>6 DEF LimiterIInv, LimiterTypeOK, Time
<1>8. MemoryBound'
  BY <1>2 DEF LimiterIInv, MemoryBound
<1>9. Histories'
  <2>1. \A x \in Key : Ascending(log[x]) /\ TailOf(hits'[x], log[x])
    BY <1>5, <1>6 DEF LimiterIInv, Histories, TailOf
  <2> QED
    BY <1>2, <2>1, SameClock
<1>10. WindowBound'
  BY <1>2 DEF LimiterIInv, WindowBound
<1> QED
  BY <1>7, <1>8, <1>9, <1>10 DEF LimiterIInv


\* The dict, the deques and the insertion order an admitted call has before its sweep.
DictAfter(k) == keys \cup {k}
DequesAfter(k, n) == [hits EXCEPT ![k] = Append(SubSeq(@, n + 1, Len(@)), clock)]
OrderAfter(k) == IF k \in keys THEN older ELSE older \cup (keys \X {k})

\* Of the deques an admitted call leaves to its sweep, only the caller's is new; it ends
\* with the clock's reading, so the caller is not idle.
LEMMA BeforeSweep ==
    ASSUME LimiterIInv, NEW k \in Key, NEW n \in 0..Len(hits[k]), Prune(hits[k], n),
           Len(hits[k]) - n < MaxHits
    PROVE  LET h == DequesAfter(k, n)
           IN  /\ h \in [Key -> Seq(Time)]
               /\ \A x \in Key : x \in DictAfter(k) <=> h[x] # <<>>
               /\ \A x \in Key : x # k => h[x] = hits[x]
               /\ Newest(h[k]) = clock
               /\ k \notin Idle(DictAfter(k), h)
               /\ TailOf(h[k], Append(log[k], clock))
               /\ Ascending(Append(log[k], clock))
               /\ Spread(Append(log[k], clock))
<1> DEFINE v == SubSeq(hits[k], n + 1, Len(hits[k]))
           a == Append(v, clock)
           h == DequesAfter(k, n)
<1>1. /\ hits[k] \in Seq(Time) /\ log[k] \in Seq(Time) /\ clock \in Time
      /\ hits \in [Key -> Seq(Time)]
      /\ Ascending(log[k]) /\ TailOf(hits[k], log[k]) /\ Spread(log[k])
      /\ \A x \in Key : x \in keys <=> hits[x] # <<>>
  BY DEF LimiterIInv, LimiterTypeOK, Time, Histories, WindowBound, Spread
<1>2. v \in Seq(Time) /\ Len(v) = Len(hits[k]) - n
  BY <1>1, Popped
<1>3. PICK s \in 0..Len(log[k]) : TailAfter(v, log[k], s)
  BY <1>1, PrunedTail
<1>4. h = [hits EXCEPT ![k] = a]
  BY DEF DequesAfter
<1> HIDE DEF v, h
<1>5. /\ a \in Seq(Time) /\ a # <<>> /\ Len(a) = Len(v) + 1 /\ a[Len(v) + 1] = clock
  BY <1>1, <1>2, AppendProperties
<1>6. /\ TailOf(a, Append(log[k], clock)) /\ Ascending(Append(log[k], clock))
      /\ Spread(Append(log[k], clock))
  BY <1>1, <1>2, <1>3, Recorded
<1> HIDE DEF a
<1>7. h \in [Key -> Seq(Time)] /\ h[k] = a /\ \A x \in Key : x # k => h[x] = hits[x]
  BY <1>1, <1>4, <1>5
<1>8. \A x \in Key : x \in DictAfter(k) <=> h[x] # <<>>
  BY <1>1, <1>5, <1>7 DEF DictAfter
<1>9. Newest(h[k]) = clock
  BY <1>5, <1>7 DEF Newest
<1>10. ~Aged(clock)
  BY <1>1, LimiterAssumption DEF Aged, Time
<1>11. k \notin Idle(DictAfter(k), h)
  BY <1>5, <1>7, <1>9, <1>10 DEF Idle
<1> QED
  BY <1>6, <1>7, <1>8, <1>9, <1>11 DEF h

\* The sweep deletes keys of the dict, leaves no more than the cap, and what it deletes
\* first is idle.
LEMMA Swept ==
    ASSUME NEW ks \in SUBSET Key, NEW h, NEW ord, NEW idle \in SUBSET Key,
           NEW flood \in SUBSET Key, Evict(ks, h, ord, idle, flood)
    PROVE  /\ idle \subseteq Idle(ks, h) /\ flood \subseteq ks
           /\ Cardinality(ks \ (idle \cup flood)) <= MaxKeys
<1>1. CASE Cardinality(ks) <= MaxKeys
  <2>1. idle = {} /\ flood = {} /\ ks \ (idle \cup flood) = ks
    BY <1>1 DEF Evict
  <2> QED
    BY <1>1, <2>1
<1>2. CASE ~(Cardinality(ks) <= MaxKeys) /\ Cardinality(ks \ idle) <= MaxKeys
  <2>1. idle = Idle(ks, h) /\ flood = {} /\ ks \ (idle \cup flood) = ks \ idle
    BY <1>2 DEF Evict
  <2> QED
    BY <1>2, <2>1
<1>3. CASE ~(Cardinality(ks) <= MaxKeys) /\ ~(Cardinality(ks \ idle) <= MaxKeys)
  <2>1. /\ idle = Idle(ks, h) /\ flood \subseteq ks \ idle
        /\ Cardinality((ks \ idle) \ flood) = MaxKeys
    BY <1>3 DEF Evict
  <2>2. ks \ (idle \cup flood) = (ks \ idle) \ flood
    OBVIOUS
  <2> QED
    BY <2>1, <2>2, LimiterAssumption
<1> QED
  BY <1>1, <1>2, <1>3

\* An admitted call records its hit and sweeps.
LEMMA AdmitInv ==
    ASSUME LimiterIInv, NEW k \in Key, NEW n \in 0..Len(hits[k]), Admit(k, n)
    PROVE  LimiterIInv'
<1> DEFINE ks == DictAfter(k)
           h == DequesAfter(k, n)
           ord == OrderAfter(k)
<1>1. PICK idle \in SUBSET Key, flood \in SUBSET Key :
        /\ Evict(ks, h, ord, idle, flood)
        /\ keys' = ks \ (idle \cup flood)
        /\ hits' = [x \in Key |-> IF x \in idle \cup flood THEN <<>> ELSE h[x]]
        /\ older' = {p \in ord : p[1] \notin idle \cup flood /\ p[2] \notin idle \cup flood}
        /\ log' = [x \in Key |-> IF x \in flood THEN <<>>
                                 ELSE IF x = k THEN Append(log[x], clock) ELSE log[x]]
  BY DEF Admit, DictAfter, DequesAfter, OrderAfter
<1>2. clock' = clock /\ Prune(hits[k], n) /\ Len(hits[k]) - n < MaxHits
  BY DEF Admit
<1>3. /\ h \in [Key -> Seq(Time)]
      /\ \A x \in Key : x \in ks <=> h[x] # <<>>
      /\ \A x \in Key : x # k => h[x] = hits[x]
      /\ k \notin Idle(ks, h)
      /\ TailOf(h[k], Append(log[k], clock))
      /\ Ascending(Append(log[k], clock))
      /\ Spread(Append(log[k], clock))
  BY <1>2, BeforeSweep
<1>4. /\ ks \subseteq Key /\ keys \subseteq ks
      /\ ord \subseteq ks \X ks
  BY DEF LimiterIInv, LimiterTypeOK, DictAfter, OrderAfter
<1>5. /\ clock \in Time /\ log \in [Key -> Seq(Time)] /\ hits \in [Key -> Seq(Time)]
      /\ \A x \in Key : x \in keys <=> hits[x] # <<>>
      /\ \A x \in Key : Ascending(log[x]) /\ TailOf(hits[x], log[x]) /\ Spread(log[x])
  BY DEF LimiterIInv, LimiterTypeOK, Time, Histories, WindowBound, Spread
<1>6. Append(log[k], clock) \in Seq(Time) /\ <<>> \in Seq(Time) /\ Len(<<>>) = 0
  BY <1>5, AppendProperties, EmptySeq
<1> HIDE DEF ks, h, ord
<1>7. /\ idle \subseteq Idle(ks, h) /\ flood \subseteq ks
      /\ Cardinality(keys') <= MaxKeys
  BY <1>1, <1>4, Swept
<1>8. LimiterTypeOK'
  <2>1. hits' \in [Key -> Seq(Time)] /\ log' \in [Key -> Seq(Time)]
    BY <1>1, <1>3, <1>5, <1>6
  <2>2. \A x \in Key : x \in keys' <=> hits'[x] # <<>>
    BY <1>1, <1>3
  <2>3. keys' \subseteq Key
    BY <1>1, <1>4
  <2>4. older' \subseteq keys' \X keys'
    BY <1>1, <1>4
  <2> QED
    BY <1>2, <1>5, <2>1, <2>2, <2>3, <2>4 DEF LimiterTypeOK, Time
<1>9. MemoryBound'
  BY <1>7 DEF MemoryBound
<1>10. /\ Ascending(<<>>) /\ TailOf(<<>>, <<>>) /\ Spread(<<>>)
  BY <1>6, LimiterAssumption DEF Ascending, TailOf, TailAfter, Spread
<1>11. \A x \in Key : Ascending(log'[x]) /\ TailOf(hits'[x], log'[x]) /\ Spread(log'[x])
  <2> SUFFICES ASSUME NEW x \in Key
               PROVE  Ascending(log'[x]) /\ TailOf(hits'[x], log'[x]) /\ Spread(log'[x])
    OBVIOUS
  <2>1. CASE x \in flood
    <3>1. log'[x] = <<>> /\ hits'[x] = <<>>
      BY <1>1, <2>1
    <3> QED
      BY <1>10, <3>1
  <2>2. CASE x \notin flood /\ x \in idle
    <3>1. x # k /\ x \in ks /\ (h[x] = <<>> \/ Aged(Newest(h[x])))
      BY <1>3, <1>7, <2>2 DEF Idle
    <3>2. h[x] = hits[x] /\ h[x] # <<>> /\ Aged(Newest(hits[x]))
      BY <1>3, <3>1
    <3>3. log'[x] = log[x] /\ hits'[x] = <<>>
      BY <1>1, <2>2, <3>1
    <3>4. TailOf(<<>>, log[x])
      BY <1>5, <3>2, Forgotten
    <3> QED
      BY <1>5, <3>3, <3>4
  <2>3. CASE x \notin flood /\ x \notin idle /\ x = k
    <3>1. log'[x] = Append(log[k], clock) /\ hits'[x] = h[k]
      BY <1>1, <2>3
    <3> QED
      BY <1>3, <3>1
  <2>4. CASE x \notin flood /\ x \notin idle /\ x # k
    <3>1. log'[x] = log[x] /\ hits'[x] = hits[x]
      BY <1>1, <1>3, <2>4
    <3> QED
      BY <1>5, <3>1
  <2> QED
    BY <2>1, <2>2, <2>3, <2>4
<1>12. Histories'
  BY <1>2, <1>11, SameClock
<1>13. WindowBound'
  BY <1>11 DEF WindowBound, Spread
<1> QED
  BY <1>8, <1>9, <1>12, <1>13 DEF LimiterIInv

LEMMA NextInv == LimiterIInv /\ [LimiterNext]_limiterVars => LimiterIInv'
<1> SUFFICES ASSUME LimiterIInv, [LimiterNext]_limiterVars PROVE LimiterIInv'
  OBVIOUS
<1>1. CASE Tick
  BY <1>1, TickInv
<1>2. CASE \E k \in Key : Check(k)
  BY <1>2, RejectInv, AdmitInv DEF Check
<1>3. CASE UNCHANGED limiterVars
  BY <1>3 DEF limiterVars, LimiterIInv, LimiterTypeOK, MemoryBound, Histories, Ascending, TailOf, TailAfter,
              Aged, WindowBound
<1> QED
  BY <1>1, <1>2, <1>3 DEF LimiterNext

LEMMA Invariance == LimiterSpec => []LimiterIInv
BY LimiterInitInv, NextInv, PTL DEF LimiterSpec

-----------------------------------------------------------------------------
(* Theorems                                                                *)

\* The state has its type, and the dict holds no empty deque.
THEOREM LimiterTypeCorrect == LimiterSpec => []LimiterTypeOK
<1>1. LimiterIInv => LimiterTypeOK
  BY DEF LimiterIInv
<1> QED
  BY <1>1, Invariance, PTL

\* rate_limit_max_keys bounds the dict whatever clients come.
THEOREM BoundedMemory == LimiterSpec => []MemoryBound
<1>1. LimiterIInv => MemoryBound
  BY DEF LimiterIInv
<1> QED
  BY <1>1, Invariance, PTL

\* No window ever admits more than MaxHits hits of a client.
THEOREM BoundedRate == LimiterSpec => []WindowBound
<1>1. LimiterIInv => WindowBound
  BY DEF LimiterIInv
<1> QED
  BY <1>1, Invariance, PTL


\* The oldest hit a full window keeps is at or before the MaxHits-th last admitted one.
LEMMA FullWindow ==
    ASSUME LimiterIInv, NEW k \in Key, NEW n \in 0..Len(hits[k]), Reject(k, n)
    PROVE  /\ Len(log[k]) >= MaxHits
           /\ clock - log[k][Len(log[k]) - MaxHits + 1] <= Span
<1> DEFINE w == hits[k]
           l == log[k]
<1>1. /\ w \in Seq(Time) /\ l \in Seq(Time) /\ clock \in Time
      /\ Ascending(l) /\ TailOf(w, l)
      /\ Prune(w, n) /\ Len(w) - n >= MaxHits
  BY DEF LimiterIInv, LimiterTypeOK, Time, Histories, Reject
<1> HIDE DEF w, l
<1>2. Len(w) \in Nat /\ Len(l) \in Nat /\ n \in 0..Len(w)
  BY <1>1, LenProperties DEF w
<1>3. PICK s \in 0..Len(l) : TailAfter(w, l, s)
  BY <1>1 DEF TailOf
<1>4. Len(w) = Len(l) - s /\ n < Len(w) /\ Len(l) >= MaxHits
  BY <1>1, <1>2, <1>3, LimiterAssumption DEF TailAfter
<1>5. ~Aged(w[n + 1]) /\ w[n + 1] = l[s + (n + 1)]
  BY <1>1, <1>2, <1>3, <1>4 DEF Prune, TailAfter
<1> DEFINE i == s + (n + 1)
           j == Len(l) - MaxHits + 1
<1>6. i \in 1..Len(l) /\ j \in i..Len(l) /\ j \in 1..Len(l)
  BY <1>1, <1>2, <1>4, LimiterAssumption
<1>7. l[i] \in Int /\ l[j] \in Int /\ clock \in Int
  <2>1. \A x \in 1..Len(l) : l[x] \in Time
    BY <1>1, LenProperties
  <2>2. l[i] \in Time /\ l[j] \in Time
    BY <1>6, <2>1
  <2> QED
    BY <1>1, <2>2, LimiterAssumption DEF Time
<1>8. l[i] <= l[j]
  BY <1>1, <1>6 DEF Ascending
<1>9. ~(clock - l[i] > Span)
  BY <1>5 DEF Aged
<1>10. clock - l[j] <= Span
  BY <1>7, <1>8, <1>9, LimiterAssumption
<1> QED
  BY <1>4, <1>10 DEF l

\* A refused client really has had MaxHits hits admitted within the window.
THEOREM FairRefusal == LimiterSpec => RejectOnlyAtLimit
<1>1. LimiterIInv /\ [LimiterNext]_limiterVars =>
        [\A k \in Key : (\E n \in 0..Len(hits[k]) : Reject(k, n)) =>
           /\ Len(log[k]) >= MaxHits
           /\ clock - log[k][Len(log[k]) - MaxHits + 1] <= Span]_limiterVars
  BY FullWindow
<1> QED
  BY <1>1, Invariance, PTL DEF LimiterSpec, RejectOnlyAtLimit

\* A call sweeps only when its key is new to the full dict: then every other key was
\* inserted before it and was last seen no later, and one of them goes instead.
LEMMA NewcomerStays ==
    ASSUME LimiterIInv, NEW k \in Key, NEW n \in 0..Len(hits[k]), Admit(k, n)
    PROVE  k \in keys' /\ Newest(hits'[k]) = clock
<1> DEFINE ks == DictAfter(k)
           h == DequesAfter(k, n)
           ord == OrderAfter(k)
<1>1. PICK idle \in SUBSET Key, flood \in SUBSET Key :
        /\ Evict(ks, h, ord, idle, flood)
        /\ keys' = ks \ (idle \cup flood)
        /\ hits' = [x \in Key |-> IF x \in idle \cup flood THEN <<>> ELSE h[x]]
  BY DEF Admit, DictAfter, DequesAfter, OrderAfter
<1>2. clock' = clock /\ Prune(hits[k], n) /\ Len(hits[k]) - n < MaxHits
  BY DEF Admit
<1>3. /\ \A x \in Key : x \in ks <=> h[x] # <<>>
      /\ \A x \in Key : x # k => h[x] = hits[x]
      /\ Newest(h[k]) = clock
      /\ k \notin Idle(ks, h)
  BY <1>2, BeforeSweep
<1>4. /\ ks \subseteq Key /\ k \in ks
      /\ keys \subseteq ks /\ (k \in keys => ks = keys)
      /\ older \subseteq keys \X keys
      /\ k \notin keys => ord = older \cup (keys \X {k})
  BY DEF LimiterIInv, LimiterTypeOK, DictAfter, OrderAfter
<1>5. Cardinality(keys) <= MaxKeys
  BY DEF LimiterIInv, MemoryBound
<1>6. \A x \in Key : hits[x] # <<>> => Newest(hits[x]) <= clock /\ Newest(hits[x]) \in Int
  <2> SUFFICES ASSUME NEW x \in Key, hits[x] # <<>>
               PROVE  Newest(hits[x]) <= clock /\ Newest(hits[x]) \in Int
    OBVIOUS
  <2>1. hits[x] \in Seq(Time) /\ log[x] \in Seq(Time) /\ Ascending(log[x])
    BY DEF LimiterIInv, LimiterTypeOK, Time, Histories
  <2>2. Len(hits[x]) \in Nat \ {0} /\ Len(log[x]) \in Nat
    BY <2>1, EmptySeq, LenProperties
  <2>3. PICK s \in 0..Len(log[x]) : TailAfter(hits[x], log[x], s)
    BY DEF LimiterIInv, Histories, TailOf
  <2>4. Newest(hits[x]) = log[x][Len(log[x])] /\ Len(log[x]) \in 1..Len(log[x])
    <3>1. Len(hits[x]) \in 1..Len(hits[x]) /\ s + Len(hits[x]) = Len(log[x])
      BY <2>2, <2>3 DEF TailAfter
    <3>2. hits[x][Len(hits[x])] = log[x][s + Len(hits[x])]
      BY <2>3, <3>1 DEF TailAfter
    <3> QED
      BY <2>2, <3>1, <3>2 DEF Newest
  <2>5. log[x][Len(log[x])] \in Time
    BY <2>1, <2>4, LenProperties
  <2> QED
    BY <2>1, <2>4, <2>5, LimiterAssumption DEF Ascending, Time
<1> HIDE DEF ks, h, ord
<1>7. idle \subseteq Idle(ks, h)
  BY <1>1, <1>4, Swept
<1>8. k \notin flood
  <2> SUFFICES ASSUME k \in flood PROVE FALSE
    OBVIOUS
  <2> DEFINE rest == (ks \ idle) \ flood
  <2>1. /\ ~(Cardinality(ks) <= MaxKeys)
        /\ Cardinality(rest) = MaxKeys
        /\ \A a \in flood, b \in rest : SeenBefore(a, b, h, ord)
    BY <1>1 DEF Evict
  <2>2. k \notin keys
    BY <1>4, <1>5, <2>1
  <2>3. rest # {}
    <3>1. Cardinality({}) = 0
      BY FS_EmptySet
    <3> QED
      BY <2>1, <3>1, LimiterAssumption
  <2>4. PICK b \in rest : SeenBefore(k, b, h, ord)
    BY <2>1, <2>3
  <2>5. b \in Key /\ b # k /\ h[b] = hits[b] /\ hits[b] # <<>>
    BY <1>3, <1>4, <2>4
  <2>6. <<k, b>> \notin ord
    BY <1>4, <2>2, <2>5
  <2>7. clock < Newest(hits[b])
    BY <1>3, <2>4, <2>5, <2>6 DEF SeenBefore
  <2>8. clock \in Int
    BY LimiterAssumption DEF LimiterIInv, LimiterTypeOK
  <2> QED
    BY <1>6, <2>5, <2>7, <2>8
<1> QED
  BY <1>1, <1>3, <1>4, <1>7, <1>8

\* The client being admitted is never the one the sweep evicts.
THEOREM Newcomer == LimiterSpec => NewcomerCounts
<1>1. LimiterIInv /\ [LimiterNext]_limiterVars =>
        [\A k \in Key : (\E n \in 0..Len(hits[k]) : Admit(k, n))
           => k \in keys' /\ Newest(hits'[k]) = clock]_limiterVars
  BY NewcomerStays
<1> QED
  BY <1>1, Invariance, PTL DEF LimiterSpec, NewcomerCounts

-----------------------------------------------------------------------------
(* The monthly quota                                                       *)

\* No billing period starts in the future.
Begun == \A i \in DOMAIN subs : subs[i].start = None \/ subs[i].start <= now

\* A query that counts has an allowance, in a period that has begun, within a month if
\* the tenant is lapsed; and it is logged within that period.
Counting ==
    \A q \in Query :
        /\ seen[q] <= now /\ at[q] <= now
        /\ pc[q] \in {"count", "refused"} => limit[q] # None
        /\ pc[q] \in {"new", "subs", "count", "run"} => since[q] <= now
        /\ pc[q] = "logged" => since[q] <= at[q]
        /\ pc[q] \in {"count", "refused"} /\ lapsed[q] => since[q] > seen[q] - Month

InSlots == Cardinality(InFlight) <= Slots

\* Queries asked before day d that are answered on it or later, or may still be.
Crossing(d) ==
    {q \in Query : seen[q] < d /\ (q \in InFlight \/ (pc[q] = "logged" /\ at[q] >= d))}

\* They were all being handled when the day began.
FewCross == \A d \in Day : d <= now => Cardinality(Crossing(d)) <= Slots

Frame == TypeOK /\ Begun /\ Counting /\ InSlots /\ FewCross
IInv == Frame /\ FullAllowance /\ OvershootBounded

-----------------------------------------------------------------------------
(* Numbers                                                                 *)

\* A set of naturals that is not empty has a least element.
LEMMA Least == ASSUME NEW S \in SUBSET Nat, S # {} PROVE \E m \in S : \A n \in S : m <= n
<1> DEFINE Below == {0..n : n \in S}
<1>1. Below \subseteq FiniteSubsetsOf(Nat) /\ Below # {}
  <2>1. \A n \in S : 0..n \subseteq Nat /\ IsFiniteSet(0..n)
    BY FS_Interval
  <2> QED
    BY <2>1 DEF FiniteSubsetsOf
<1>2. PICK x \in Below : \A y \in Below : <<y, x>> \notin StrictSubsetOrdering(Nat)
  BY <1>1, WFMin, FS_StrictSubsetOrderingWellFounded
<1>3. PICK m \in S : x = 0..m
  OBVIOUS
<1>4. ASSUME NEW n \in S, n < m PROVE FALSE
  <2>1. m \in 0..m /\ m \notin 0..n
    BY <1>4
  <2>2. 0..n \subseteq 0..m /\ 0..n # 0..m
    BY <1>4, <2>1
  <2>3. <<0..n, 0..m>> \in StrictSubsetOrdering(Nat)
    BY <2>2 DEF StrictSubsetOrdering
  <2> QED
    BY <1>2, <1>3, <2>3
<1> QED
  BY <1>4

\* And a greatest one, if it is bounded.
LEMMA Greatest ==
    ASSUME NEW n \in Nat, NEW S \in SUBSET (1..n), S # {}
    PROVE  \E m \in S : \A k \in S : k <= m
<1> DEFINE Mirror == {n - k : k \in S}
<1>1. Mirror \subseteq Nat /\ Mirror # {}
  OBVIOUS
<1>2. PICK m \in S : \A k \in S : n - m <= n - k
  <2>1. PICK x \in Mirror : \A y \in Mirror : x <= y
    BY <1>1, Least
  <2> QED
    BY <2>1
<1> QED
  BY <1>2

LEMMA Numbers ==
    /\ 0 \in Day /\ (\A d \in Day : d \in Nat) /\ None \notin Day /\ None \notin Nat
    /\ \A d \in Day : \A e \in Nat : e <= d => e \in Day
BY QuotaAssumption DEF Day

LEMMA MonthStartTyped ==
    ASSUME now \in Day
    PROVE  MonthStart \in Day /\ MonthStart <= now /\ MonthStart > now - Month
<1>1. now \in Nat /\ Month \in Nat /\ Month > 0
  BY Numbers, QuotaAssumption
<1>2. now % Month \in 0..(Month - 1) /\ now % Month <= now
  BY <1>1
<1>3. MonthStart \in Nat /\ MonthStart <= now /\ MonthStart > now - Month
  BY <1>1, <1>2 DEF MonthStart
<1> QED
  BY <1>3, Numbers

-----------------------------------------------------------------------------
(* The order of the rows and the one that decides                          *)

LEMMA BeforeOrders ==
    ASSUME NEW i \in DOMAIN subs, NEW j \in DOMAIN subs, subs \in Seq(Row)
    PROVE  /\ ~Before(i, i)
           /\ ~(Before(i, j) /\ Before(j, i))
           /\ i # j => Before(i, j) \/ Before(j, i)
BY DEF Before

\* Among some rows there is a first one.
LEMMA FirstIsFirst ==
    ASSUME subs \in Seq(Row), NEW I \in SUBSET (DOMAIN subs), I # {}
    PROVE  FirstOf(I) \in I /\ \A j \in I \ {FirstOf(I)} : Before(FirstOf(I), j)
<1>1. Len(subs) \in Nat /\ DOMAIN subs = 1..Len(subs)
  BY LenProperties
<1> DEFINE Alive == {i \in I : Candidate(subs[i])}
<1>2. \E i \in I : \A j \in I \ {i} : Before(i, j)
  <2>1. CASE Alive # {}
    <3>1. PICK m \in Alive : \A k \in Alive : k <= m
      BY <1>1, <2>1, Greatest
    <3>2. \A j \in I \ {m} : Before(m, j)
      BY <1>1, <3>1 DEF Before
    <3> QED
      BY <3>2
  <2>2. CASE Alive = {}
    <3>1. PICK m \in I : \A k \in I : k <= m
      BY <1>1, Greatest
    <3>2. \A j \in I \ {m} : Before(m, j)
      BY <1>1, <2>2, <3>1 DEF Before
    <3> QED
      BY <3>2
  <2> QED
    BY <2>1, <2>2
<1> QED
  BY <1>2 DEF FirstOf

\* Something is fetched when there is something, the best row at least.
LEMMA SomeFetched == ASSUME subs \in Seq(Row), subs # <<>> PROVE Fetched # {}
<1>1. DOMAIN subs # {}
  BY LenProperties, EmptySeq
<1> DEFINE f == FirstOf(DOMAIN subs)
<1>2. f \in DOMAIN subs /\ \A j \in DOMAIN subs \ {f} : Before(f, j)
  BY <1>1, FirstIsFirst
<1>3. {j \in DOMAIN subs : Before(j, f)} = {}
  BY <1>2, BeforeOrders
<1> HIDE DEF f
<1>4. Cardinality({j \in DOMAIN subs : Before(j, f)}) < FetchLimit
  <2>1. Cardinality({j \in DOMAIN subs : Before(j, f)}) = 0
    BY <1>3, FS_EmptySet, Zenon
  <2>2. 0 < FetchLimit
    BY QuotaAssumption
  <2> QED
    BY <2>1, <2>2
<1>5. f \in Fetched
  BY <1>2, <1>4 DEF Fetched
<1> QED
  BY <1>5

LEMMA EffectiveTyped ==
    ASSUME subs \in Seq(Row), subs # <<>>, NEW day
    PROVE  /\ Effective(day) \in DOMAIN subs /\ subs[Effective(day)] \in Row
           /\ (\E i \in Fetched : Entitled(subs[i], day)) => Entitled(subs[Effective(day)], day)
<1> DEFINE paid == {i \in Fetched : Entitled(subs[i], day)}
<1>1. Fetched \subseteq DOMAIN subs /\ Fetched # {}
  BY SomeFetched DEF Fetched
<1>2. Effective(day) \in IF paid # {} THEN paid ELSE Fetched
  <2>1. Effective(day) = FirstOf(IF paid # {} THEN paid ELSE Fetched)
    BY DEF Effective
  <2> QED
    BY <1>1, <2>1, FirstIsFirst
<1>3. Effective(day) \in DOMAIN subs
  BY <1>1, <1>2
<1>4. subs[Effective(day)] \in Row
  BY <1>3, ElementOfSeq, LenProperties
<1> QED
  BY <1>2, <1>3, <1>4

\* The rows that may be entitled, when they fit in one fetch, are fetched.
LEMMA CandidatesFetched ==
    ASSUME subs \in Seq(Row),
           Cardinality({i \in DOMAIN subs : Candidate(subs[i])}) <= FetchLimit,
           NEW k \in DOMAIN subs, Candidate(subs[k])
    PROVE  k \in Fetched
<1> DEFINE Alive == {i \in DOMAIN subs : Candidate(subs[i])}
           ahead == {j \in DOMAIN subs : Before(j, k)}
<1>1. IsFiniteSet(DOMAIN subs)
  BY LenProperties, FS_Interval
<1>2. IsFiniteSet(Alive) /\ Cardinality(Alive) \in Nat
  BY <1>1, FS_Subset, FS_CardinalityType
<1>3. ahead \subseteq Alive \ {k}
  BY BeforeOrders DEF Before
<1>4. Cardinality(Alive \ {k}) = Cardinality(Alive) - 1 /\ IsFiniteSet(Alive \ {k})
  BY <1>2, FS_RemoveElement
<1>5. Cardinality(ahead) <= Cardinality(Alive \ {k}) /\ Cardinality(ahead) \in Nat
  BY <1>3, <1>4, FS_Subset, FS_CardinalityType
<1>6. Cardinality(ahead) < FetchLimit
  BY <1>2, <1>4, <1>5, QuotaAssumption
<1> QED
  BY <1>6 DEF Fetched

\* What a query reads from the rows: an allowance, and a window to count it in, which
\* is the calendar month for a tenant that has lapsed.
LEMMA AllowanceTyped ==
    ASSUME TypeOK, Begun, NEW day
    PROVE  /\ Allowance(day) \in Nat \cup {None}
           /\ Allowance(day) # None =>
                /\ Window(day) \in Day /\ Window(day) <= now
                /\ Lapsed(day) => Window(day) > now - Month
<1>1. now \in Day /\ subs \in Seq(Row)
  BY DEF TypeOK
<1>2. MonthStart \in Day /\ MonthStart <= now /\ MonthStart > now - Month
  BY <1>1, MonthStartTyped
<1>3. CASE subs = <<>>
  <2>1. Allowance(day) = None
    BY <1>3 DEF Allowance, Lapsed
  <2> QED
    BY <2>1
<1>4. CASE subs # <<>>
  <2> DEFINE e == Effective(day)
  <2>1. e \in DOMAIN subs /\ subs[e] \in Row
    BY <1>1, <1>4, EffectiveTyped
  <2> HIDE DEF e
  <2>2. subs[e].limit \in Nat \cup {None} /\ subs[e].start \in Day \cup {None}
    BY <2>1, QuotaAssumption DEF Row
  <2>3. subs[e].start # None => subs[e].start <= now
    BY <2>1 DEF Begun
  <2>4. Allowance(day) = IF Lapsed(day) THEN LapsedLimit ELSE subs[e].limit
    BY <1>4 DEF Allowance, e
  <2>5. Window(day) = IF ~Lapsed(day) /\ subs[e].start # None THEN subs[e].start ELSE MonthStart
    BY <1>4 DEF Window, e
  <2>7. Allowance(day) \in Nat \cup {None}
    BY <2>2, <2>4, QuotaAssumption
  <2> QED
    BY <1>2, <2>2, <2>3, <2>5, <2>7
<1> QED
  BY <1>3, <1>4

-----------------------------------------------------------------------------
(* Types                                                                   *)

LEMMA InitInv == Init => IInv
<1> SUFFICES ASSUME Init PROVE IInv
  OBVIOUS
<1>1. TypeOK
  <2>1. subs \in Seq(Row) /\ Len(subs) <= MaxRows
    BY EmptySeq, QuotaAssumption DEF Init
  <2>2. pc \in [Query -> Steps]
    BY DEF Init, Steps
  <2> QED
    BY <2>1, <2>2, Numbers DEF Init, TypeOK
<1>2. Begun /\ Counting /\ FullAllowance
  <2>1. DOMAIN subs = {}
    BY LenProperties DEF Init
  <2> QED
    BY <2>1 DEF Init, Begun, Counting, FullAllowance
<1>3. InSlots
  <2>1. InFlight = {}
    BY DEF Init, InFlight
  <2> QED
    BY <2>1, FS_EmptySet, QuotaAssumption DEF InSlots
<1>5. FewCross
  <2>1. \A d \in Day : d <= now => Crossing(d) = {}
    BY Numbers DEF Init, Crossing
  <2> QED
    BY <2>1, FS_EmptySet, QuotaAssumption DEF FewCross
<1>4. OvershootBounded
  <2>1. ASSUME NEW d \in Day, NEW l \in {Limit, LapsedLimit}
        PROVE  Cardinality(Admitted(d, l)) = 0 /\ Cardinality(Lost(d, l)) = 0
    <3>1. Admitted(d, l) = {} /\ Lost(d, l) = {}
      BY DEF Init, Admitted, Lost
    <3> QED
      BY <3>1, FS_EmptySet
  <2>2. \A l \in {Limit, LapsedLimit} : 0 <= l + Slots - 1 + 0
    BY QuotaAssumption
  <2> QED
    BY <2>1, <2>2 DEF OvershootBounded
<1> QED
  BY <1>1, <1>2, <1>3, <1>4, <1>5 DEF IInv, Frame

LEMMA AskTyped == ASSUME TypeOK, Begun, NEW q \in Query, Ask(q) PROVE TypeOK'
<1> USE Numbers
<1>1. CASE Start(q)
  BY <1>1 DEF TypeOK, Start, Goto, Steps
<1>2. CASE ReadSubs(q)
  <2> DEFINE day == seen[q]
  <2>1. /\ Allowance(day) \in Nat \cup {None}
        /\ Allowance(day) # None => Window(day) \in Day
    BY AllowanceTyped
  <2>2. pc' \in [Query -> Steps] /\ pc'[q] \in {"run", "count"}
    BY <1>2 DEF TypeOK, ReadSubs, Goto, Steps
  <2>3. limit' \in [Query -> Nat \cup {None}]
    BY <1>2, <2>1 DEF TypeOK, ReadSubs
  <2>4. since' \in [Query -> Day]
    BY <1>2, <2>1 DEF TypeOK, ReadSubs
  <2>8. lapsed' \in [Query -> BOOLEAN]
    <3>1. Lapsed(day) \in BOOLEAN
      BY DEF Lapsed
    <3> QED
      BY <1>2, <3>1 DEF TypeOK, ReadSubs
  <2>5. seen' \in [Query -> Day]
    BY <1>2 DEF TypeOK, ReadSubs
  <2>6. \A r \in Query : pc'[r] \in {"new", "failed"} => limit'[r] = None
    BY <1>2, <2>2 DEF TypeOK, ReadSubs, Goto
  <2> QED
    BY <1>2, <2>2, <2>3, <2>4, <2>5, <2>6, <2>8 DEF TypeOK, ReadSubs
<1>3. CASE Count(q)
  BY <1>3 DEF TypeOK, Count, Goto, Steps
<1>4. CASE Log(q) \/ Lose(q)
  BY ZenonT(40), <1>4 DEF TypeOK, Log, Lose, Goto, Steps
<1>5. CASE Fail(q)
  BY <1>5 DEF TypeOK, Fail, Goto, Steps
<1> QED
  BY <1>1, <1>2, <1>3, <1>4, <1>5 DEF Ask

LEMMA UpdateTyped ==
    ASSUME TypeOK, NEW i \in DOMAIN subs, NEW stripe \in StripeStatus, NEW start \in Day,
           Update(i, stripe, start)
    PROVE  subs' \in Seq(Row) /\ Len(subs') = Len(subs)
<1> DEFINE Up(r) == [[r EXCEPT !.stripe = stripe] EXCEPT !.start = start]
<1>1. subs[i] \in Row /\ subs[i].start # None
  BY ElementOfSeq, LenProperties DEF TypeOK, Update
<1>2. subs[i] \in [stripe : StripeStatus, start : Day, limit : {Limit}]
  BY <1>1 DEF Row
<1>3. Up(subs[i]) \in Row
  BY <1>2 DEF Row
<1>4. subs' = [subs EXCEPT ![i] = Up(subs[i])]
  BY DEF Update
<1> HIDE DEF Up
<1> QED
  BY <1>3, <1>4, ExceptSeq DEF TypeOK

LEMMA TypeStep == TypeOK /\ Begun /\ [Next]_vars => TypeOK'
<1> SUFFICES ASSUME TypeOK, Begun, [Next]_vars PROVE TypeOK'
  OBVIOUS
<1>1. CASE NextDay
  <2>1. now' \in Day
    BY <1>1, QuotaAssumption DEF TypeOK, NextDay, Day
  <2> QED
    BY <1>1, <2>1 DEF TypeOK, NextDay
<1>2. ASSUME NEW r \in Row, Subscribe(r) PROVE TypeOK'
  <2>1. subs' \in Seq(Row) /\ Len(subs') <= MaxRows
    BY <1>2, AppendProperties, QuotaAssumption, LenProperties DEF TypeOK, Subscribe
  <2> QED
    BY <1>2, <2>1 DEF TypeOK, Subscribe
<1>3. ASSUME NEW i \in DOMAIN subs, NEW stripe \in StripeStatus, NEW start \in Day,
             Update(i, stripe, start)
      PROVE  TypeOK'
  <2>1. subs' \in Seq(Row) /\ Len(subs') <= MaxRows
    BY <1>3, UpdateTyped DEF TypeOK
  <2> QED
    BY <1>3, <2>1 DEF TypeOK, Update
<1>4. CASE UNCHANGED vars
  BY <1>4 DEF TypeOK, vars
<1> QED
  BY <1>1, <1>2, <1>3, <1>4, AskTyped DEF Next

-----------------------------------------------------------------------------
(* The queries of a tenant                                                 *)

\* Anything that is not the step of a query leaves the queries alone.
LEMMA Environment ==
    Next => \/ \E q \in Query : Ask(q)
            \/ UNCHANGED <<pc, seen, since, limit, lapsed, at>>
BY DEF Next, NextDay, Subscribe, Update

\* A step of a query leaves the clock and the others alone.
LEMMA OthersStay ==
    ASSUME TypeOK, NEW q \in Query, Ask(q)
    PROVE  /\ now' = now /\ subs' = subs
           /\ \A r \in Query \ {q} : /\ pc'[r] = pc[r] /\ since'[r] = since[r] /\ at'[r] = at[r]
                                     /\ limit'[r] = limit[r] /\ seen'[r] = seen[r]
                                     /\ lapsed'[r] = lapsed[r]
BY DEF TypeOK, Ask, Start, ReadSubs, Count, Log, Lose, Fail, Goto

\* What a query has read once it counts stays with it.
Keeps(q) == /\ limit'[q] = limit[q] /\ since'[q] = since[q]
            /\ seen'[q] = seen[q] /\ lapsed'[q] = lapsed[q]

\* Where a step of a query can take it.
Moves(q) ==
    \/ pc[q] = "new" /\ pc'[q] = "subs" /\ limit'[q] = None
    \/ pc[q] = "subs" /\ pc'[q] = "run" /\ limit'[q] = None
    \/ pc[q] = "subs" /\ pc'[q] = "count"
    \/ pc[q] = "count" /\ pc'[q] = "run" /\ CountSince(since[q]) < limit[q] /\ Keeps(q)
    \/ pc[q] = "count" /\ pc'[q] = "refused" /\ ~(CountSince(since[q]) < limit[q]) /\ Keeps(q)
    \/ pc[q] = "run" /\ pc'[q] \in {"logged", "lost"} /\ Keeps(q)
    \/ pc[q] \in {"subs", "count", "run"} /\ pc'[q] = "failed" /\ limit'[q] = None

LEMMA AskMoves == ASSUME TypeOK, NEW q \in Query, Ask(q) PROVE Moves(q)
<1> HIDE DEF TypeOK
<1> USE DEF Goto, Moves, Keeps
<1>1. CASE Start(q)
  BY <1>1 DEF TypeOK, Start
<1>2. CASE ReadSubs(q)
  <2>1. /\ pc[q] = "subs"
        /\ pc'[q] = IF Allowance(seen[q]) = None THEN "run" ELSE "count"
        /\ limit'[q] = Allowance(seen[q])
    BY <1>2 DEF TypeOK, ReadSubs
  <2> QED
    BY <2>1
<1>3. CASE Count(q)
  <2>1. /\ pc[q] = "count"
        /\ pc'[q] = IF CountSince(since[q]) < limit[q] THEN "run" ELSE "refused"
        /\ Keeps(q)
    BY <1>3 DEF TypeOK, Count
  <2> QED
    BY <2>1
<1>4. CASE Log(q) \/ Lose(q)
  BY <1>4 DEF TypeOK, Log, Lose
<1>5. CASE Fail(q)
  BY <1>5 DEF TypeOK, Fail, InFlight
<1> QED
  BY <1>1, <1>2, <1>3, <1>4, <1>5 DEF Ask

-----------------------------------------------------------------------------
(* The frame                                                               *)

LEMMA BegunStep == TypeOK /\ Begun /\ [Next]_vars => Begun'
<1> SUFFICES ASSUME TypeOK, Begun, [Next]_vars PROVE Begun'
  OBVIOUS
<1>1. \A i \in DOMAIN subs : subs[i] \in Row /\ (subs[i].start = None \/ subs[i].start \in Int)
  <2>1. \A r \in Row : r.start = None \/ r.start \in Int
    BY Numbers DEF Row
  <2> QED
    BY <2>1, ElementOfSeq, LenProperties DEF TypeOK
<1>2. now \in Int
  BY Numbers DEF TypeOK
<1>3. CASE NextDay
  <2>1. now' = now + 1 /\ subs' = subs
    BY <1>3 DEF NextDay
  <2> QED
    BY <1>1, <1>2, <2>1 DEF Begun
<1>4. ASSUME NEW r \in Row, Subscribe(r) PROVE Begun'
  <2>1. /\ Len(subs') = Len(subs) + 1 /\ subs' \in Seq(Row)
        /\ \A i \in DOMAIN subs : subs'[i] = subs[i]
        /\ subs'[Len(subs) + 1] = r
    BY <1>4, AppendProperties, LenProperties DEF Subscribe, TypeOK
  <2>2. \A i \in DOMAIN subs' : i \in DOMAIN subs \/ i = Len(subs) + 1
    BY <2>1, LenProperties DEF TypeOK
  <2> QED
    BY <1>2, <1>4, <2>1, <2>2 DEF Begun, Subscribe
<1>5. ASSUME NEW i \in DOMAIN subs, NEW stripe \in StripeStatus, NEW start \in Day,
             Update(i, stripe, start)
      PROVE  Begun'
  <2> DEFINE Up(r) == [[r EXCEPT !.stripe = stripe] EXCEPT !.start = start]
  <2>1. subs' = [subs EXCEPT ![i] = Up(subs[i])] /\ now' = now
    BY <1>5 DEF Update
  <2>2. Up(subs[i]).start = start
    BY <1>1 DEF Row
  <2>3. start <= now
    BY <1>2, <1>5 DEF Update, Begun
  <2> HIDE DEF Up
  <2>4. DOMAIN subs' = DOMAIN subs /\ \A j \in DOMAIN subs : subs'[j] = IF j = i THEN Up(subs[i]) ELSE subs[j]
    BY <2>1
  <2> QED
    BY <2>1, <2>2, <2>3, <2>4 DEF Begun
<1>6. ASSUME UNCHANGED <<now, subs>> PROVE Begun'
  BY <1>6 DEF Begun
<1>7. CASE UNCHANGED vars
  BY <1>6, <1>7 DEF vars
<1> QED
  BY <1>3, <1>4, <1>5, <1>6, <1>7, OthersStay DEF Next

LEMMA CountingStep == TypeOK /\ Begun /\ Counting /\ [Next]_vars => Counting'
<1> SUFFICES ASSUME TypeOK, Begun, Counting, [Next]_vars PROVE Counting'
  OBVIOUS
<1>1. /\ now \in Int /\ now' \in Int /\ now <= now' /\ Month \in Int
      /\ \A q \in Query : since[q] \in Int /\ seen[q] \in Int /\ at[q] \in Int
  <2>1. now' = now + 1 \/ now' = now
    <3>1. ASSUME NEW q \in Query, Ask(q) PROVE now' = now
      BY <3>1, OthersStay
    <3> QED
      BY <3>1 DEF Next, NextDay, Subscribe, Update, vars
  <2> QED
    BY <2>1, Numbers, QuotaAssumption DEF TypeOK
<1>2. ASSUME NEW q \in Query, Ask(q) PROVE Counting'
  <2>1. Moves(q) /\ now' = now
    BY <1>2, AskMoves, OthersStay
  <2>2. ASSUME pc'[q] = "count"
        PROVE  /\ limit'[q] # None /\ since'[q] <= now
               /\ lapsed'[q] => since'[q] > seen'[q] - Month
    <3>1. ReadSubs(q)
      BY <1>2, <2>2 DEF Ask, Start, Count, Log, Lose, Fail, Goto, TypeOK
    <3> DEFINE day == seen[q]
    <3>2. Allowance(day) # None
      BY <2>2, <3>1 DEF ReadSubs, Goto, TypeOK
    <3>3. /\ Window(day) \in Day /\ Window(day) <= now
          /\ Lapsed(day) => Window(day) > now - Month
      BY <3>2, AllowanceTyped
    <3>4. /\ since'[q] = Window(day) /\ lapsed'[q] = Lapsed(day)
          /\ limit'[q] = Allowance(day) /\ seen'[q] = seen[q]
      BY <3>1, <3>2 DEF ReadSubs, TypeOK
    <3>5. seen[q] <= now
      BY DEF Counting
    <3>6. Lapsed(day) => Window(day) > seen[q] - Month
      BY <1>1, <3>3, <3>5, Numbers
    <3> QED
      BY <3>2, <3>3, <3>4, <3>6
  <2>3. ASSUME pc'[q] \in {"subs", "run"} PROVE since'[q] <= now
    <3>1. CASE pc[q] = "count"
      BY <2>1, <2>3, <3>1 DEF Moves, Keeps, Counting
    <3>2. CASE pc[q] = "new"
      BY <1>2, <3>2 DEF Ask, Start, ReadSubs, Count, Log, Lose, Fail, InFlight, Counting
    <3>3. CASE pc[q] = "subs"
      <4>1. ReadSubs(q)
        BY <1>2, <2>3, <3>3 DEF Ask, Start, Count, Log, Lose, Fail, Goto, TypeOK
      <4>2. Allowance(seen[q]) = None
        BY <2>3, <4>1 DEF ReadSubs, Goto, TypeOK
      <4>3. since'[q] = since[q]
        BY <4>1, <4>2 DEF ReadSubs, TypeOK
      <4> QED
        BY <3>3, <4>3 DEF Counting
    <3> QED
      BY <2>1, <2>3, <3>1, <3>2, <3>3 DEF Moves
  <2>4. ASSUME pc'[q] = "logged" PROVE since'[q] <= at'[q]
    <3>1. Log(q)
      BY <1>2, <2>4 DEF Ask, Start, ReadSubs, Count, Lose, Fail, Goto, TypeOK
    <3>2. at'[q] = now /\ since'[q] = since[q] /\ pc[q] = "run"
      BY <3>1 DEF Log, TypeOK
    <3> QED
      BY <3>2 DEF Counting
  <2>5. ASSUME pc'[q] = "refused"
        PROVE  limit'[q] # None /\ (lapsed'[q] => since'[q] > seen'[q] - Month)
    BY <2>1, <2>5 DEF Moves, Keeps, Counting
  <2>6. pc'[q] # "new"
    BY <2>1 DEF Moves
  <2>8. seen'[q] <= now /\ at'[q] <= now
    <3>1. seen'[q] \in {seen[q], now, 0} /\ at'[q] \in {at[q], now}
      BY <1>2 DEF Ask, Start, ReadSubs, Count, Log, Lose, Fail, TypeOK
    <3>2. 0 <= now
      BY Numbers DEF TypeOK
    <3> QED
      BY <1>1, <3>1, <3>2 DEF Counting
  <2>7. /\ seen'[q] <= now' /\ at'[q] <= now'
        /\ pc'[q] \in {"count", "refused"} => limit'[q] # None
        /\ pc'[q] \in {"new", "subs", "count", "run"} => since'[q] <= now'
        /\ pc'[q] = "logged" => since'[q] <= at'[q]
        /\ pc'[q] \in {"count", "refused"} /\ lapsed'[q] => since'[q] > seen'[q] - Month
    BY <2>1, <2>2, <2>3, <2>4, <2>5, <2>6, <2>8
  <2>9. \A r \in Query \ {q} : /\ pc'[r] = pc[r] /\ since'[r] = since[r] /\ at'[r] = at[r]
                               /\ limit'[r] = limit[r] /\ seen'[r] = seen[r]
                               /\ lapsed'[r] = lapsed[r]
    BY <1>2, OthersStay
  <2> QED
    BY <2>1, <2>7, <2>9 DEF Counting
<1>3. ASSUME UNCHANGED <<pc, seen, since, limit, lapsed, at>> PROVE Counting'
  BY <1>1, <1>3 DEF Counting
<1>4. CASE UNCHANGED vars
  BY <1>3, <1>4 DEF vars
<1> QED
  BY <1>2, <1>3, <1>4, Environment

LEMMA FlightFinite == IsFiniteSet(InFlight) /\ Cardinality(InFlight) \in Nat
BY FS_Subset, FS_CardinalityType, QuotaAssumption DEF InFlight

LEMMA SlotsStep == TypeOK /\ InSlots /\ [Next]_vars => InSlots'
<1> SUFFICES ASSUME TypeOK, InSlots, [Next]_vars PROVE InSlots'
  OBVIOUS
<1>1. ASSUME InFlight' \subseteq InFlight PROVE InSlots'
  <2>1. Cardinality(InFlight') <= Cardinality(InFlight) /\ Cardinality(InFlight') \in Nat
    BY <1>1, FlightFinite, FS_Subset, FS_CardinalityType
  <2> QED
    BY <2>1, FlightFinite, QuotaAssumption DEF InSlots
<1>2. ASSUME NEW q \in Query, Ask(q) PROVE InSlots'
  <2>1. Moves(q) /\ \A r \in Query \ {q} : pc'[r] = pc[r]
    BY <1>2, AskMoves, OthersStay
  <2>2. CASE pc[q] = "new"
    <3>1. Cardinality(InFlight) < Slots
      BY <1>2, <2>2 DEF Ask, Start, ReadSubs, Count, Log, Lose, Fail, InFlight
    <3>2. InFlight' = InFlight \cup {q} /\ q \notin InFlight
      BY <2>1, <2>2 DEF InFlight, Moves
    <3>3. Cardinality(InFlight') = Cardinality(InFlight) + 1
      BY <3>2, FlightFinite, FS_AddElement
    <3> QED
      BY <3>1, <3>3, FlightFinite, QuotaAssumption DEF InSlots
  <2>3. CASE pc[q] # "new"
    <3>1. InFlight' \subseteq InFlight
      BY <2>1, <2>3 DEF InFlight, Moves
    <3> QED
      BY <1>1, <3>1
  <2> QED
    BY <2>2, <2>3
<1>3. ASSUME UNCHANGED pc PROVE InSlots'
  BY <1>3, <1>1 DEF InFlight
<1>4. CASE UNCHANGED vars
  BY <1>3, <1>4 DEF vars
<1> QED
  BY <1>2, <1>3, <1>4, Environment

LEMMA CrossingFinite ==
    \A d : /\ IsFiniteSet(Crossing(d)) /\ Cardinality(Crossing(d)) \in Nat
           /\ IsFiniteSet(Crossing(d)') /\ Cardinality(Crossing(d)') \in Nat
<1>1. \A d : Crossing(d) \subseteq Query /\ Crossing(d)' \subseteq Query
  BY DEF Crossing
<1> QED
  BY <1>1, FS_Subset, FS_CardinalityType, QuotaAssumption

\* On the day itself those that cross are being handled; no query joins them later.
LEMMA CrossStep == TypeOK /\ Counting /\ InSlots /\ FewCross /\ [Next]_vars => FewCross'
<1> SUFFICES ASSUME TypeOK, Counting, InSlots, FewCross, [Next]_vars,
                    NEW d \in Day, d <= now'
             PROVE  Cardinality(Crossing(d)') <= Slots
  BY DEF FewCross
<1>1. /\ now \in Int /\ d \in Int /\ Slots \in Int
      /\ \A q \in Query : seen[q] \in Int /\ at[q] \in Int
  BY Numbers, QuotaAssumption DEF TypeOK
<1>2. ASSUME d <= now, Crossing(d)' \subseteq Crossing(d) PROVE Cardinality(Crossing(d)') <= Slots
  <2>1. Cardinality(Crossing(d)') <= Cardinality(Crossing(d))
    BY <1>2, CrossingFinite, FS_Subset
  <2>2. Cardinality(Crossing(d)) <= Slots
    BY <1>2 DEF FewCross
  <2> QED
    BY <1>1, <2>1, <2>2, CrossingFinite
<1>3. ASSUME UNCHANGED <<pc, seen, at>>, d <= now PROVE Cardinality(Crossing(d)') <= Slots
  <2>1. Crossing(d)' = Crossing(d)
    BY <1>3 DEF Crossing, InFlight
  <2> QED
    BY <1>2, <1>3, <2>1
<1>4. CASE NextDay
  <2>1. now' = now + 1 /\ UNCHANGED <<pc, seen, at>>
    BY <1>4 DEF NextDay
  <2>2. CASE d = now + 1
    <3>1. Crossing(d)' \subseteq InFlight
      <4>1. \A q \in Query : ~(at[q] >= d)
        BY <1>1, <2>2 DEF Counting
      <4> QED
        BY <2>1, <4>1 DEF Crossing, InFlight
    <3>2. Cardinality(Crossing(d)') <= Cardinality(InFlight)
      BY <3>1, FlightFinite, FS_Subset
    <3> QED
      BY <1>1, <3>2, CrossingFinite, FlightFinite DEF InSlots
  <2> QED
    BY <1>1, <1>3, <2>1, <2>2
<1>5. ASSUME NEW q \in Query, Ask(q) PROVE Cardinality(Crossing(d)') <= Slots
  <2>1. /\ Moves(q) /\ now' = now
        /\ \A r \in Query \ {q} : pc'[r] = pc[r] /\ at'[r] = at[r] /\ seen'[r] = seen[r]
    BY <1>5, AskMoves, OthersStay
  <2>2. q \in Crossing(d)' => q \in Crossing(d)
    <3>1. CASE pc[q] = "new"
      <4>1. seen'[q] = now
        BY <1>5, <3>1 DEF Ask, Start, ReadSubs, Count, Log, Lose, Fail, InFlight, TypeOK
      <4> QED
        BY <1>1, <2>1, <4>1 DEF Crossing
    <3>2. CASE pc[q] # "new" /\ pc'[q] \in {"subs", "count", "run", "logged"}
      <4>1. q \in InFlight
        BY <2>1, <3>2 DEF Moves, InFlight
      <4>2. seen'[q] = seen[q]
        <5>1. ~Start(q) /\ ~Fail(q)
          BY <3>2 DEF Start, Fail, Goto, TypeOK
        <5>2. CASE ReadSubs(q)
          BY <5>2 DEF ReadSubs
        <5>3. CASE Count(q)
          BY <5>3 DEF Count
        <5>4. CASE Log(q) \/ Lose(q)
          BY <5>4 DEF Log, Lose
        <5> QED
          BY <1>5, <5>1, <5>2, <5>3, <5>4 DEF Ask
      <4> QED
        BY <4>1, <4>2 DEF Crossing
    <3> QED
      BY <3>1, <3>2 DEF Crossing, InFlight
  <2>3. Crossing(d)' \subseteq Crossing(d)
    BY <2>1, <2>2 DEF Crossing, InFlight
  <2> QED
    BY <1>2, <2>1, <2>3
<1>6. ASSUME UNCHANGED <<now, pc, seen, at>> PROVE Cardinality(Crossing(d)') <= Slots
  BY <1>3, <1>6
<1> QED
  BY <1>4, <1>5, <1>6 DEF Next, Subscribe, Update, vars

LEMMA FrameStep == Frame /\ [Next]_vars => Frame'
BY TypeStep, BegunStep, CountingStep, SlotsStep, CrossStep DEF Frame

-----------------------------------------------------------------------------
(* What is counted was asked for, but for what crossed                     *)

Logged(d) == {q \in Query : pc[q] = "logged" /\ at[q] >= d}

LEMMA LoggedFinite == \A d : IsFiniteSet(Logged(d)) /\ Cardinality(Logged(d)) \in Nat /\ CountSince(d) = Cardinality(Logged(d))
BY FS_Subset, FS_CardinalityType, QuotaAssumption DEF Logged, CountSince

LEMMA AskedFinite ==
    \A d : /\ IsFiniteSet(AskedSince(d)) /\ Cardinality(AskedSince(d)) \in Nat
           /\ IsFiniteSet(AskedSince(d)') /\ Cardinality(AskedSince(d)') \in Nat
<1>1. \A d : AskedSince(d) \subseteq Query /\ AskedSince(d)' \subseteq Query
  BY DEF AskedSince
<1> QED
  BY <1>1, FS_Subset, FS_CardinalityType, QuotaAssumption

LEMMA CountedAsked ==
    ASSUME Frame, NEW d \in Day, d <= now
    PROVE  CountSince(d) <= Cardinality(AskedSince(d)) + Slots
<1>1. Logged(d) \subseteq AskedSince(d) \cup Crossing(d)
  <2>1. \A q \in Query : seen[q] >= d \/ seen[q] < d
    BY Numbers DEF Frame, TypeOK
  <2> QED
    BY <2>1 DEF Logged, AskedSince, Crossing
<1> DEFINE A == AskedSince(d)
           C == Crossing(d)
<1>2. /\ IsFiniteSet(A) /\ Cardinality(A) \in Nat
      /\ IsFiniteSet(C) /\ Cardinality(C) \in Nat
  BY AskedFinite, CrossingFinite
<1>3. Cardinality(C) <= Slots
  BY DEF Frame, FewCross
<1> HIDE DEF A, C
<1>4. /\ IsFiniteSet(A \cup C) /\ Cardinality(A \cup C) \in Nat
      /\ Cardinality(A \cup C) = Cardinality(A) + Cardinality(C) - Cardinality(A \cap C)
      /\ Cardinality(A \cap C) \in Nat
  BY <1>2, FS_Union, FS_Intersection, FS_CardinalityType
<1>5. Cardinality(Logged(d)) <= Cardinality(A \cup C)
  BY <1>1, <1>4, FS_Subset DEF A, C
<1>6. Cardinality(Logged(d)) <= Cardinality(A) + Slots
  BY <1>2, <1>3, <1>4, <1>5, LoggedFinite, QuotaAssumption
<1> QED
  BY <1>6, LoggedFinite DEF A

\* What was asked and answered stays so.
LEMMA AskedStays == ASSUME TypeOK, [Next]_vars, NEW d PROVE AskedSince(d) \subseteq AskedSince(d)'
<1>1. ASSUME NEW q \in Query, Ask(q) PROVE AskedSince(d) \subseteq AskedSince(d)'
  <2>1. pc[q] # "logged" /\ \A r \in Query \ {q} : pc'[r] = pc[r] /\ seen'[r] = seen[r]
    BY <1>1, AskMoves, OthersStay DEF Moves
  <2> QED
    BY <2>1 DEF AskedSince
<1>2. ASSUME UNCHANGED <<pc, seen>> PROVE AskedSince(d) \subseteq AskedSince(d)'
  BY <1>2 DEF AskedSince
<1> QED
  BY <1>1, <1>2, Environment DEF vars

LEMMA AllowanceStep == Frame /\ FullAllowance /\ [Next]_vars => FullAllowance'
<1> SUFFICES ASSUME Frame, FullAllowance, [Next]_vars, NEW q \in Query, pc'[q] = "refused"
             PROVE  /\ \E d \in Day : /\ d = since'[q]
                                      /\ Cardinality(AskedSince(d)') >= limit'[q] - Slots
                    /\ lapsed'[q] => since'[q] > seen'[q] - Month
  BY DEF FullAllowance, AskedSince
<1>1. TypeOK /\ Counting /\ Counting'
  BY FrameStep DEF Frame
<1> PICK d \in Day : d = since[q]
  BY <1>1 DEF TypeOK
<1>2. /\ since'[q] = d /\ limit'[q] = limit[q] /\ limit[q] \in Nat
      /\ Cardinality(AskedSince(d)) >= limit[q] - Slots
  <2>1. CASE pc[q] = "refused"
    <3>1. since'[q] = since[q] /\ limit'[q] = limit[q]
      <4>1. ASSUME NEW r \in Query, Ask(r) PROVE since'[q] = since[q] /\ limit'[q] = limit[q]
        <5>1. r # q
          BY <1>1, <2>1, <4>1, AskMoves DEF Moves
        <5> QED
          BY <1>1, <4>1, <5>1, OthersStay
      <4> QED
        BY <4>1, Environment DEF vars
    <3>2. Cardinality(AskedSince(d)) >= limit[q] - Slots
      BY <2>1 DEF FullAllowance
    <3>3. limit[q] \in Nat
      BY <1>1, <2>1 DEF TypeOK, Counting
    <3> QED
      BY <3>1, <3>2, <3>3
  <2>2. CASE pc[q] # "refused"
    <3>1. PICK r \in Query : Ask(r)
      BY <2>2, Environment DEF vars
    <3>2. r = q
      BY <1>1, <2>2, <3>1, OthersStay
    <3>3. pc[q] = "count" /\ ~(CountSince(since[q]) < limit[q]) /\ Keeps(q)
      BY <1>1, <2>2, <3>1, <3>2, AskMoves DEF Moves
    <3>4. d <= now /\ limit[q] \in Nat
      BY <1>1, <3>3 DEF Counting, TypeOK
    <3>5. ~(CountSince(d) < limit[q])
      BY <3>3
    <3>6. CountSince(d) <= Cardinality(AskedSince(d)) + Slots
      BY <3>4, CountedAsked
    <3>7. CountSince(d) \in Nat
      BY LoggedFinite
    <3>8. Cardinality(AskedSince(d)) >= limit[q] - Slots
      BY <3>4, <3>5, <3>6, <3>7, AskedFinite, QuotaAssumption
    <3> QED
      BY <3>3, <3>4, <3>8 DEF Keeps
  <2> QED
    BY <2>1, <2>2
<1>3. Cardinality(AskedSince(d)) <= Cardinality(AskedSince(d)')
  BY <1>1, AskedStays, AskedFinite, FS_Subset
<1>4. Cardinality(AskedSince(d)') >= limit'[q] - Slots
  BY <1>2, <1>3, AskedFinite, QuotaAssumption
<1>6. lapsed'[q] => since'[q] > seen'[q] - Month
  BY <1>1 DEF Counting
<1> QED
  BY <1>2, <1>4, <1>6

-----------------------------------------------------------------------------
(* The overshoot                                                           *)

LEMMA AdmittedFinite ==
    \A d, l : /\ IsFiniteSet(Admitted(d, l)) /\ Cardinality(Admitted(d, l)) \in Nat
              /\ IsFiniteSet(Lost(d, l)) /\ Cardinality(Lost(d, l)) \in Nat
              /\ IsFiniteSet(Admitted(d, l)') /\ Cardinality(Admitted(d, l)') \in Nat
              /\ IsFiniteSet(Lost(d, l)') /\ Cardinality(Lost(d, l)') \in Nat
<1>1. \A d, l : /\ Admitted(d, l) \subseteq Query /\ Lost(d, l) \subseteq Query
                /\ Admitted(d, l)' \subseteq Query /\ Lost(d, l)' \subseteq Query
  BY DEF Admitted, Lost
<1> QED
  BY <1>1, FS_Subset, FS_CardinalityType, QuotaAssumption

\* Those admitted for a period are lost, in flight, or logged and counted.
LEMMA WhereAdmitted ==
    ASSUME Frame, NEW d \in Day, NEW l \in Nat, NEW q \in InFlight, pc[q] = "count"
    PROVE  Cardinality(Admitted(d, l)) <= CountSince(d) + (Slots - 1) + Cardinality(Lost(d, l))
<1> DEFINE Waiting == InFlight \ {q}
<1>1. Admitted(d, l) \subseteq (Logged(d) \cup Waiting) \cup Lost(d, l)
  <2> SUFFICES ASSUME NEW r \in Admitted(d, l), r \notin Lost(d, l), pc[r] # "run"
               PROVE  r \in Logged(d)
    BY DEF InFlight, Admitted
  <2>1. r \in Query /\ pc[r] = "logged" /\ since[r] = d
    BY DEF Admitted, Lost
  <2>2. at[r] >= d
    BY <2>1, Numbers DEF Frame, Counting, TypeOK
  <2> QED
    BY <2>1, <2>2 DEF Logged
<1>2. IsFiniteSet(Waiting) /\ Cardinality(Waiting) \in Nat /\ Cardinality(Waiting) <= Slots - 1
  <2>1. Cardinality(Waiting) = Cardinality(InFlight) - 1 /\ IsFiniteSet(Waiting)
    BY FlightFinite, FS_RemoveElement
  <2>2. Cardinality(InFlight) <= Slots
    BY DEF Frame, InSlots
  <2> QED
    BY <2>1, <2>2, FlightFinite, FS_CardinalityType, QuotaAssumption
<1> HIDE DEF Waiting
<1> DEFINE Kept == Logged(d) \cup Waiting
           All == Kept \cup Lost(d, l)
<1>3. /\ IsFiniteSet(Kept) /\ Cardinality(Kept) \in Nat
      /\ Cardinality(Kept) <= Cardinality(Logged(d)) + Cardinality(Waiting)
  <2>1. IsFiniteSet(Kept) /\ Cardinality(Logged(d) \cap Waiting) \in Nat
    BY <1>2, LoggedFinite, FS_Union, FS_Intersection, FS_CardinalityType
  <2>2. Cardinality(Kept) =
          Cardinality(Logged(d)) + Cardinality(Waiting) - Cardinality(Logged(d) \cap Waiting)
    BY <1>2, LoggedFinite, FS_Union
  <2>3. Cardinality(Kept) \in Nat
    BY <2>1, FS_CardinalityType
  <2> HIDE DEF Kept
  <2> QED
    BY <1>2, <2>1, <2>2, <2>3, LoggedFinite
<1> HIDE DEF Kept
<1>4. /\ IsFiniteSet(All) /\ Cardinality(All) \in Nat
      /\ Cardinality(All) <= Cardinality(Kept) + Cardinality(Lost(d, l))
  <2>1. IsFiniteSet(All) /\ Cardinality(Kept \cap Lost(d, l)) \in Nat
    BY <1>3, AdmittedFinite, FS_Union, FS_Intersection, FS_CardinalityType
  <2>2. Cardinality(All) = Cardinality(Kept) + Cardinality(Lost(d, l)) - Cardinality(Kept \cap Lost(d, l))
    BY <1>3, AdmittedFinite, FS_Union
  <2>3. Cardinality(All) \in Nat
    BY <2>1, FS_CardinalityType
  <2> HIDE DEF All
  <2> QED
    BY <1>3, <2>1, <2>2, <2>3, AdmittedFinite
<1>5. Cardinality(Admitted(d, l)) <= Cardinality(All)
  BY <1>1, <1>4, FS_Subset DEF Kept
<1> HIDE DEF All
<1> QED
  BY <1>2, <1>3, <1>4, <1>5, LoggedFinite, AdmittedFinite, QuotaAssumption

LEMMA OvershootStep == Frame /\ OvershootBounded /\ [Next]_vars => OvershootBounded'
<1> SUFFICES ASSUME Frame, OvershootBounded, [Next]_vars,
                    NEW d \in Day, NEW l \in {Limit, LapsedLimit}
             PROVE  Cardinality(Admitted(d, l)') <= l + Slots - 1 + Cardinality(Lost(d, l)')
  BY DEF OvershootBounded
<1>1. l \in Nat /\ l # None /\ Slots \in Nat /\ TypeOK
  BY QuotaAssumption DEF Frame
<1>2. Cardinality(Admitted(d, l)) <= l + Slots - 1 + Cardinality(Lost(d, l))
  BY DEF OvershootBounded
<1>3. ASSUME Admitted(d, l)' \subseteq Admitted(d, l), Lost(d, l) \subseteq Lost(d, l)'
      PROVE  Cardinality(Admitted(d, l)') <= l + Slots - 1 + Cardinality(Lost(d, l)')
  <2>1. /\ Cardinality(Admitted(d, l)') <= Cardinality(Admitted(d, l))
        /\ Cardinality(Lost(d, l)) <= Cardinality(Lost(d, l)')
    BY <1>3, AdmittedFinite, FS_Subset
  <2> QED
    BY <1>1, <1>2, <2>1, AdmittedFinite
<1>4. ASSUME NEW q \in Query, Ask(q)
      PROVE  Cardinality(Admitted(d, l)') <= l + Slots - 1 + Cardinality(Lost(d, l)')
  <2>1. /\ Moves(q)
        /\ \A r \in Query \ {q} : pc'[r] = pc[r] /\ limit'[r] = limit[r] /\ since'[r] = since[r]
    BY <1>1, <1>4, AskMoves, OthersStay
  <2>2. Lost(d, l) \subseteq Lost(d, l)'
    BY <2>1 DEF Lost, Admitted, Moves
  <2>3. CASE pc[q] = "count" /\ pc'[q] = "run" /\ limit'[q] = l /\ since'[q] = d
    <3>1. CountSince(since[q]) < limit[q] /\ limit[q] = l /\ since[q] = d
      BY <2>1, <2>3 DEF Moves, Keeps
    <3>2. CountSince(d) < l
      BY <2>3, <3>1 DEF Frame, Counting
    <3>3. q \in InFlight
      BY <2>3 DEF InFlight
    <3>4. Cardinality(Admitted(d, l)) <= CountSince(d) + (Slots - 1) + Cardinality(Lost(d, l))
      BY <1>1, <2>3, <3>3, WhereAdmitted
    <3>5. Admitted(d, l)' = Admitted(d, l) \cup {q}
      BY <2>1, <2>3 DEF Admitted
    <3>6. Cardinality(Admitted(d, l)') = Cardinality(Admitted(d, l)) + 1
      <4>1. q \notin Admitted(d, l)
        BY <2>3 DEF Admitted
      <4>2. Cardinality(Admitted(d, l) \cup {q}) = Cardinality(Admitted(d, l)) + 1
        BY <4>1, AdmittedFinite, FS_AddElement
      <4> QED
        BY <3>5, <4>2
    <3>7. Cardinality(Lost(d, l)) <= Cardinality(Lost(d, l)')
      BY <2>2, AdmittedFinite, FS_Subset
    <3>8. CountSince(d) \in Nat
      BY LoggedFinite
    <3> QED
      BY <1>1, <3>2, <3>4, <3>6, <3>7, <3>8, AdmittedFinite
  <2>4. CASE ~(pc[q] = "count" /\ pc'[q] = "run" /\ limit'[q] = l /\ since'[q] = d)
    <3>1. q \in Admitted(d, l)' => q \in Admitted(d, l)
      BY <1>1, <2>1, <2>4 DEF Admitted, Moves, Keeps
    <3>2. Admitted(d, l)' \subseteq Admitted(d, l)
      BY <2>1, <3>1 DEF Admitted
    <3> QED
      BY <1>3, <2>2, <3>2
  <2> QED
    BY <2>3, <2>4
<1>5. ASSUME UNCHANGED <<pc, limit, since>>
      PROVE  Cardinality(Admitted(d, l)') <= l + Slots - 1 + Cardinality(Lost(d, l)')
  BY <1>3, <1>5 DEF Admitted, Lost
<1> QED
  BY <1>4, <1>5, Environment DEF vars

-----------------------------------------------------------------------------
LEMMA InvStep == IInv /\ [Next]_vars => IInv'
BY FrameStep, AllowanceStep, OvershootStep DEF IInv

\* Every state of every execution satisfies the inductive invariant.
THEOREM Reachable == Spec => []IInv
BY InitInv, InvStep, PTL DEF Spec

\* The clock, the rows and the state of every query keep their types; in particular the
\* row that decides an entitlement always exists (entitlements.py).
THEOREM TypeCorrect == Spec => []TypeOK
<1>1. IInv => TypeOK
  BY DEF IInv, Frame
<1> QED
  BY <1>1, Reachable, PTL

\* Whoever is refused asked for the whole allowance since the period began and got it, all
\* but the queries that were being answered at that moment; and the period of a lapsed
\* tenant began less than a month before the query was asked (tier_limit.py:54-69).
THEOREM NoneShortChanged == Spec => []FullAllowance
<1>1. IInv => FullAllowance
  BY DEF IInv
<1> QED
  BY <1>1, Reachable, PTL

\* Queries that overlap overshoot an allowance by less than the number handled at once,
\* plus the answers whose log row was lost (tier_limit.py:54-72, query.py).
THEOREM SmallOvershoot == Spec => []OvershootBounded
<1>1. IInv => OvershootBounded
  BY DEF IInv
<1> QED
  BY <1>1, Reachable, PTL

\* Whatever the rows are, a tenant that is paying for one of them is not taken for lapsed
\* as long as those that may be entitled fit in one fetch (subscriptions.py:74-79).
THEOREM PayingServed == Spec => []PayingIsServed
<1>1. TypeOK => PayingIsServed
  <2> SUFFICES ASSUME TypeOK, NEW i \in DOMAIN subs, Entitled(subs[i], now),
                      Cardinality({j \in DOMAIN subs : Candidate(subs[j])}) <= FetchLimit
               PROVE  ~Lapsed(now)
    BY DEF PayingIsServed
  <2>1. Candidate(subs[i])
    BY DEF Entitled, Candidate
  <2>2. subs \in Seq(Row) /\ subs # <<>>
    BY LenProperties DEF TypeOK
  <2>3. i \in Fetched
    BY <2>1, <2>2, CandidatesFetched
  <2> QED
    BY <2>2, <2>3, EffectiveTyped DEF Lapsed
<1> QED
  BY <1>1, TypeCorrect, PTL

-----------------------------------------------------------------------------
(* The webhook                                                             *)

\* An uncommitted claim is of an event nobody recorded, and is its delivery's alone.
Claims ==
    \A w \in Worker : Claiming(w) =>
        /\ ev[w] \notin ledger
        /\ \A v \in Worker : Claiming(v) /\ ev[v] = ev[w] => v = w

\* A row is locked by one delivery.
Locks ==
    \A v, w \in Worker : touched[v] /\ touched[w] /\ SubOf(v) = SubOf(w) => v = w

\* What a delivery knows of its event at each step.
DecidedAt(w) ==
    /\ stage[w] = "upsert" \/ touched[w] => event[ev[w]].kind # "inert"
    /\ stage[w] = "upsert" \/ touched[w] =>
         event[ev[w]].kind = "plain" \/ Resolvable(SubOf(w))
    /\ stage[w] = "commit" => touched[w] \/ event[ev[w]].kind # "plain"
    /\ touched[w] => (wrote[w] <=> Supersedes(ev[w], SubOf(w)))
    /\ ~touched[w] => ~wrote[w]
    /\ stage[w] = "answer" => ev[w] \in ledger
Decided == \A w \in Worker : DecidedAt(w)

\* A row holds the columns of a recorded event of its subscription.
RowFromLedger ==
    \A s \in Sub : row[s] # 0 => row[s] \in ledger /\ event[row[s]].sub = s

\* A recorded event that names its tenant is in the table or superseded there.
RowsRecorded ==
    \A e \in ledger : event[e].kind = "plain" =>
        LET s == event[e].sub IN row[s] # 0 /\ event[row[s]].at >= event[e].at

WebhookIInv ==
    /\ WebhookTypeOK
    /\ Claims
    /\ Locks
    /\ Decided
    /\ RowFromLedger
    /\ RowsRecorded
    /\ acked \subseteq ledger
    /\ TenantIsKnown


-----------------------------------------------------------------------------
LEMMA WebhookInitInv == WebhookInit => WebhookIInv
<1> SUFFICES ASSUME WebhookInit PROVE WebhookIInv
  OBVIOUS
<1>1. /\ \A w \in Worker : stage[w] = "idle" /\ ~touched[w] /\ ~wrote[w]
      /\ ledger = {} /\ acked = {} /\ \A s \in Sub : row[s] = 0
  BY DEF WebhookInit
<1>2. WebhookTypeOK
  BY WebhookAssumption DEF WebhookInit, WebhookTypeOK, Stage, Event
<1>3. Claims /\ Locks /\ Decided /\ RowFromLedger /\ RowsRecorded /\ TenantIsKnown
  BY <1>1 DEF Claims, Claiming, Locks, Decided, DecidedAt, RowFromLedger, RowsRecorded, TenantIsKnown
<1> QED
  BY <1>1, <1>2, <1>3 DEF WebhookIInv

\* A step that leaves the tables and the events alone keeps what only they decide.
LEMMA TablesKept ==
    ASSUME WebhookIInv, UNCHANGED <<event, ledger, row>>
    PROVE  /\ RowFromLedger' /\ RowsRecorded' /\ TenantIsKnown'
           /\ \A s \in Sub : Resolvable(s)' <=> Resolvable(s)
           /\ \A e \in Event, s \in Sub : Supersedes(e, s)' <=> Supersedes(e, s)
BY DEF WebhookIInv, RowFromLedger, RowsRecorded, TenantIsKnown, Resolvable, Supersedes

\* A delivery that is left alone, in a step that does not write its row, knows what it
\* knew.
LEMMA OthersKnow ==
    ASSUME WebhookIInv, NEW v \in Worker, event' = event, ledger \subseteq ledger',
           stage'[v] = stage[v], ev'[v] = ev[v], touched'[v] = touched[v], wrote'[v] = wrote[v],
           \A s \in Sub : row[s] # 0 => row'[s] # 0,
           touched[v] => row'[SubOf(v)] = row[SubOf(v)]
    PROVE  DecidedAt(v)'
<1>1. DecidedAt(v)
  BY DEF WebhookIInv, Decided
<1>2. Resolvable(SubOf(v)) => Resolvable(SubOf(v))'
  BY DEF Resolvable, SubOf
<1>3. touched[v] => (Supersedes(ev[v], SubOf(v))' <=> Supersedes(ev[v], SubOf(v)))
  BY DEF Supersedes, SubOf
<1> QED
  BY <1>1, <1>2, <1>3 DEF DecidedAt, SubOf

\* Stripe delivers an event.
LEMMA DeliverInv ==
    ASSUME WebhookIInv, NEW w \in Worker, NEW e \in Event, Deliver(w, e)
    PROVE  WebhookIInv'
<1>1. /\ stage[w] = "idle" /\ stage' = [stage EXCEPT ![w] = "claim"] /\ ev' = [ev EXCEPT ![w] = e]
      /\ UNCHANGED <<event, acked, ledger, row, touched, wrote>>
  BY DEF Deliver, MoveTo, tables
<1>2. stage \in [Worker -> Stage] /\ ev \in [Worker -> 0..MaxEvents] /\ e \in 0..MaxEvents
  BY WebhookAssumption DEF WebhookIInv, WebhookTypeOK, Event
<1>3. /\ stage'[w] = "claim" /\ ev'[w] = e /\ ~touched[w]
      /\ \A v \in Worker : v # w => stage'[v] = stage[v] /\ ev'[v] = ev[v]
  BY <1>1, <1>2 DEF WebhookIInv, WebhookTypeOK
<1>4. WebhookTypeOK'
  BY <1>1, <1>2, <1>3 DEF WebhookIInv, WebhookTypeOK, Stage
<1>5. Claims'
  BY <1>1, <1>3 DEF WebhookIInv, Claims, Claiming
<1>6. Locks'
  BY <1>1, <1>3 DEF WebhookIInv, Locks, SubOf
<1>7. Decided'
  <2>1. DecidedAt(w)'
    BY <1>1, <1>3 DEF WebhookIInv, Decided, DecidedAt
  <2>2. \A v \in Worker : v # w => DecidedAt(v)'
    BY <1>1, <1>3, OthersKnow
  <2> QED
    BY <2>1, <2>2 DEF Decided
<1> QED
  BY <1>1, <1>4, <1>5, <1>6, <1>7, TablesKept DEF WebhookIInv

\* A claim is had only when no other transaction holds one of the same event.
LEMMA ClaimInv ==
    ASSUME WebhookIInv, NEW w \in Worker, Claim(w)
    PROVE  WebhookIInv'
<1>1. /\ stage[w] = "claim" /\ \A v \in Worker : Claiming(v) => ev[v] # ev[w]
      /\ stage' = [stage EXCEPT ![w] = IF ev[w] \in ledger THEN "answer" ELSE "apply"]
      /\ UNCHANGED <<event, acked, ledger, row, ev, touched, wrote>>
  BY DEF Claim, MoveTo, tables
<1>2. /\ stage \in [Worker -> Stage] /\ ~touched[w]
      /\ stage'[w] = IF ev[w] \in ledger THEN "answer" ELSE "apply"
      /\ \A v \in Worker : v # w => stage'[v] = stage[v]
  BY <1>1 DEF WebhookIInv, WebhookTypeOK
<1>3. WebhookTypeOK'
  BY <1>1, <1>2 DEF WebhookIInv, WebhookTypeOK, Stage
<1>4. Claims'
  BY <1>1, <1>2 DEF WebhookIInv, Claims, Claiming
<1>5. Locks'
  BY <1>1 DEF WebhookIInv, Locks, SubOf
<1>6. Decided'
  <2>1. DecidedAt(w)'
    BY <1>1, <1>2 DEF WebhookIInv, Decided, DecidedAt
  <2>2. \A v \in Worker : v # w => DecidedAt(v)'
    BY <1>1, <1>2, OthersKnow
  <2> QED
    BY <2>1, <2>2 DEF Decided
<1> QED
  BY <1>1, <1>3, <1>4, <1>5, <1>6, TablesKept DEF WebhookIInv

\* A plain event always goes on to the upsert, an anonymous one with its tenant only.
LEMMA ApplyInv ==
    ASSUME WebhookIInv, NEW w \in Worker, Apply(w)
    PROVE  WebhookIInv'
<1>1. /\ stage[w] = "apply" /\ ev[w] \in Event
      /\ event[ev[w]].kind \in Kinds
      /\ UNCHANGED <<event, acked, ledger, row, ev, touched, wrote>>
  BY DEF Apply, tables, WebhookIInv, WebhookTypeOK
<1>2. /\ stage'[w] \in {"upsert", "commit"} /\ ~touched[w]
      /\ stage'[w] = "upsert" => \/ event[ev[w]].kind = "plain"
                                 \/ event[ev[w]].kind = "anonymous" /\ Resolvable(SubOf(w))
      /\ stage'[w] = "commit" => event[ev[w]].kind # "plain"
      /\ stage' \in [Worker -> Stage]
      /\ \A v \in Worker : v # w => stage'[v] = stage[v]
  BY <1>1 DEF Apply, MoveTo, WebhookIInv, WebhookTypeOK, Kinds, Stage
<1>3. WebhookTypeOK'
  BY <1>1, <1>2 DEF WebhookIInv, WebhookTypeOK
<1>4. Claims'
  BY <1>1, <1>2 DEF WebhookIInv, Claims, Claiming
<1>5. Locks'
  BY <1>1 DEF WebhookIInv, Locks, SubOf
<1>6. Decided'
  <2>1. DecidedAt(w)'
    BY <1>1, <1>2 DEF WebhookIInv, Decided, DecidedAt, Resolvable, SubOf
  <2>2. \A v \in Worker : v # w => DecidedAt(v)'
    BY <1>1, <1>2, OthersKnow
  <2> QED
    BY <2>1, <2>2 DEF Decided
<1> QED
  BY <1>1, <1>3, <1>4, <1>5, <1>6, TablesKept DEF WebhookIInv

\* The judgement on the row is made when the lock is had.
LEMMA UpsertInv ==
    ASSUME WebhookIInv, NEW w \in Worker, Upsert(w)
    PROVE  WebhookIInv'
<1>1. /\ stage[w] = "upsert"
      /\ \A v \in Worker : touched[v] => SubOf(v) # SubOf(w)
      /\ stage' = [stage EXCEPT ![w] = "commit"]
      /\ touched' = [touched EXCEPT ![w] = TRUE]
      /\ wrote' = [wrote EXCEPT ![w] = Supersedes(ev[w], SubOf(w))]
      /\ UNCHANGED <<event, acked, ledger, row, ev>>
  BY DEF Upsert, MoveTo, tables
<1>2. Supersedes(ev[w], SubOf(w)) \in BOOLEAN
  BY DEF Supersedes
<1>3. /\ stage'[w] = "commit" /\ touched'[w] /\ (wrote'[w] <=> Supersedes(ev[w], SubOf(w)))
      /\ stage' \in [Worker -> Stage]
      /\ touched' \in [Worker -> BOOLEAN] /\ wrote' \in [Worker -> BOOLEAN]
      /\ \A v \in Worker : v # w =>
           stage'[v] = stage[v] /\ touched'[v] = touched[v] /\ wrote'[v] = wrote[v]
  <2>1. /\ stage \in [Worker -> Stage] /\ touched \in [Worker -> BOOLEAN]
        /\ wrote \in [Worker -> BOOLEAN]
    BY DEF WebhookIInv, WebhookTypeOK
  <2> QED
    BY <1>1, <1>2, <2>1 DEF Stage
<1>4. WebhookTypeOK'
  BY <1>1, <1>3 DEF WebhookIInv, WebhookTypeOK
<1>5. Claims'
  BY <1>1, <1>3 DEF WebhookIInv, Claims, Claiming
<1>6. Locks'
  BY <1>1, <1>3 DEF WebhookIInv, Locks, SubOf
<1>7. Decided'
  <2>1. DecidedAt(w)'
    BY <1>1, <1>3 DEF WebhookIInv, Decided, DecidedAt, Resolvable, SubOf, Supersedes
  <2>2. \A v \in Worker : v # w => DecidedAt(v)'
    BY <1>1, <1>3, OthersKnow
  <2> QED
    BY <2>1, <2>2 DEF Decided
<1> QED
  BY <1>1, <1>4, <1>5, <1>6, <1>7, TablesKept DEF WebhookIInv


\* What a commit does to the row of its event, for the proofs below.
LEMMA CommitRow ==
    ASSUME WebhookIInv, NEW w \in Worker, Commit(w)
    PROVE  LET e == ev[w]
               s == event[ev[w]].sub
           IN  /\ e \in Event \ ledger /\ s \in Sub
               /\ ledger' = ledger \cup {e} /\ UNCHANGED <<event, acked, ev>>
               /\ event[e].kind = "plain" => touched[w]
               /\ touched[w] => \/ event[e].kind = "plain"
                                \/ event[e].kind = "anonymous" /\ Resolvable(s)
               /\ ~touched[w] => row' = row
               /\ touched[w] =>
                    row' = IF row[s] # 0 /\ event[e].at < event[row[s]].at THEN row
                           ELSE [row EXCEPT ![s] = e]
               /\ row' = row \/ row' = [row EXCEPT ![s] = e]
<1> DEFINE e == ev[w]
           s == event[ev[w]].sub
<1>1. /\ stage[w] = "commit" /\ ledger' = ledger \cup {e}
      /\ row' = IF wrote[w] THEN [row EXCEPT ![s] = e] ELSE row
      /\ UNCHANGED <<event, acked, ev>>
  BY DEF Commit, SubOf
<1>2. e \in Event /\ s \in Sub /\ event[e].kind \in Kinds
  BY <1>1 DEF WebhookIInv, WebhookTypeOK
<1>3. e \notin ledger
  BY <1>1 DEF WebhookIInv, Claims, Claiming
<1>4. /\ event[e].kind = "plain" => touched[w]
      /\ touched[w] => event[e].kind # "inert"
      /\ touched[w] => event[e].kind = "plain" \/ Resolvable(s)
      /\ touched[w] => (wrote[w] <=> Supersedes(e, s))
      /\ ~touched[w] => ~wrote[w]
  BY <1>1 DEF WebhookIInv, Decided, DecidedAt, SubOf
<1>5. row[s] # 0 => row[s] \in Event
  BY <1>2 DEF WebhookIInv, RowFromLedger, WebhookTypeOK
<1>6. Supersedes(e, s) <=> ~(row[s] # 0 /\ event[e].at < event[row[s]].at)
  <2>1. CASE row[s] = 0
    BY <2>1 DEF Supersedes
  <2>2. CASE row[s] # 0
    <3>1. event[e].at \in 0..MaxSecond /\ event[row[s]].at \in 0..MaxSecond
      BY <1>2, <1>5, <2>2 DEF WebhookIInv, WebhookTypeOK
    <3>2. event[e].at >= event[row[s]].at <=> ~(event[e].at < event[row[s]].at)
      BY <3>1, WebhookAssumption
    <3> QED
      BY <2>2, <3>2 DEF Supersedes
  <2> QED
    BY <2>1, <2>2
<1> HIDE DEF e, s
<1>7. /\ ~touched[w] => row' = row
      /\ touched[w] => row' = IF row[s] # 0 /\ event[e].at < event[row[s]].at THEN row
                              ELSE [row EXCEPT ![s] = e]
      /\ row' = row \/ row' = [row EXCEPT ![s] = e]
  BY <1>1, <1>4, <1>6
<1> QED
  BY <1>1, <1>2, <1>3, <1>4, <1>7 DEF e, s, Kinds

\* The claim and the row are committed at once.
LEMMA CommitInv ==
    ASSUME WebhookIInv, NEW w \in Worker, Commit(w)
    PROVE  WebhookIInv'
<1> DEFINE e == ev[w]
           s == event[ev[w]].sub
<1>1. /\ e \in Event \ ledger /\ s \in Sub
      /\ ledger' = ledger \cup {e} /\ UNCHANGED <<event, acked, ev>>
      /\ event[e].kind = "plain" => touched[w]
      /\ touched[w] => \/ event[e].kind = "plain"
                       \/ event[e].kind = "anonymous" /\ Resolvable(s)
      /\ ~touched[w] => row' = row
      /\ touched[w] =>
           row' = IF row[s] # 0 /\ event[e].at < event[row[s]].at THEN row
                  ELSE [row EXCEPT ![s] = e]
      /\ row' = row \/ row' = [row EXCEPT ![s] = e]
  BY CommitRow
<1>2. /\ stage[w] = "commit"
      /\ stage' = [stage EXCEPT ![w] = "answer"]
      /\ touched' = [touched EXCEPT ![w] = FALSE]
      /\ wrote' = [wrote EXCEPT ![w] = FALSE]
  BY DEF Commit, MoveTo
<1>3. /\ stage'[w] = "answer" /\ ~touched'[w] /\ ~wrote'[w]
      /\ stage' \in [Worker -> Stage]
      /\ touched' \in [Worker -> BOOLEAN] /\ wrote' \in [Worker -> BOOLEAN]
      /\ \A v \in Worker : v # w =>
           stage'[v] = stage[v] /\ touched'[v] = touched[v] /\ wrote'[v] = wrote[v]
  <2>1. /\ stage \in [Worker -> Stage] /\ touched \in [Worker -> BOOLEAN]
        /\ wrote \in [Worker -> BOOLEAN]
    BY DEF WebhookIInv, WebhookTypeOK
  <2> QED
    BY <1>2, <2>1 DEF Stage
<1>4. /\ row \in [Sub -> 0..MaxEvents] /\ e \in 0..MaxEvents /\ e # 0
      /\ event \in [Event -> [sub : Sub, kind : Kinds, at : 0..MaxSecond]]
  BY <1>1, WebhookAssumption DEF WebhookIInv, WebhookTypeOK, Event
<1>5. /\ row' \in [Sub -> 0..MaxEvents]
      /\ row'[s] \in {row[s], e}
      /\ \A t \in Sub : t # s => row'[t] = row[t]
      /\ \A t \in Sub : row[t] # 0 => row'[t] # 0
  BY <1>1, <1>4
<1>6. SubOf(w) = s
  BY DEF SubOf
<1> HIDE DEF e, s
<1>7. WebhookTypeOK'
  <2>1. ledger' \subseteq Event /\ \A v \in Worker : stage'[v] # "idle" => ev'[v] \in Event
    BY <1>1, <1>3 DEF WebhookIInv, WebhookTypeOK, e
  <2>2. \A v \in Worker : touched'[v] => stage'[v] = "commit"
    BY <1>3 DEF WebhookIInv, WebhookTypeOK
  <2> QED
    BY <1>1, <1>3, <1>5, <2>1, <2>2 DEF WebhookIInv, WebhookTypeOK
<1>8. Claims'
  <2>1. \A v \in Worker : v # w /\ Claiming(v) => ev[v] # e
    BY <1>2 DEF WebhookIInv, Claims, Claiming, e
  <2> QED
    BY <1>1, <1>3, <2>1 DEF WebhookIInv, Claims, Claiming
<1>9. Locks'
  BY <1>1, <1>3 DEF WebhookIInv, Locks, SubOf
<1>10. Decided'
  <2>1. DecidedAt(w)'
    BY <1>1, <1>3 DEF DecidedAt, e
  <2>2. \A v \in Worker : v # w => DecidedAt(v)'
    <3> SUFFICES ASSUME NEW v \in Worker, v # w PROVE DecidedAt(v)'
      OBVIOUS
    <3>1. touched[v] => row'[SubOf(v)] = row[SubOf(v)]
      <4> SUFFICES ASSUME touched[v] PROVE row'[SubOf(v)] = row[SubOf(v)]
        OBVIOUS
      <4>1. CASE touched[w]
        <5>1. SubOf(v) # s /\ SubOf(v) \in Sub
          BY <1>6, <4>1 DEF WebhookIInv, Locks, WebhookTypeOK, SubOf
        <5> QED
          BY <1>5, <5>1
      <4>2. CASE ~touched[w]
        BY <1>1, <4>2
      <4> QED
        BY <4>1, <4>2
    <3> QED
      BY <1>1, <1>3, <1>5, <3>1, OthersKnow
  <2> QED
    BY <2>1, <2>2 DEF Decided
<1>11. RowFromLedger'
  BY <1>1, <1>5 DEF WebhookIInv, RowFromLedger, s, e
<1>12. RowsRecorded'
  <2> SUFFICES ASSUME NEW d \in ledger', event[d].kind = "plain"
               PROVE  LET t == event[d].sub IN row'[t] # 0 /\ event[row'[t]].at >= event[d].at
    BY <1>1 DEF RowsRecorded
  <2> DEFINE t == event[d].sub
  <2>1. d \in Event /\ t \in Sub /\ event[d].at \in 0..MaxSecond
    BY <1>1, <1>4 DEF WebhookIInv, WebhookTypeOK
  <2>2. row[t] # 0 => row[t] \in Event /\ event[row[t]].at \in 0..MaxSecond
    BY <1>4, <2>1 DEF WebhookIInv, RowFromLedger, WebhookTypeOK
  <2>3. event[e].at \in 0..MaxSecond
    BY <1>1, <1>4
  <2>4. CASE d \in ledger
    <3>1. row[t] # 0 /\ event[row[t]].at >= event[d].at
      BY <2>4 DEF WebhookIInv, RowsRecorded
    <3>2. CASE row'[t] = row[t]
      BY <3>1, <3>2
    <3>3. CASE row'[t] # row[t]
      <4>1. t = s /\ row'[t] = e /\ ~(event[e].at < event[row[t]].at)
        BY <1>1, <1>4, <1>5, <2>1, <3>1, <3>3
      <4> QED
        BY <1>4, <2>1, <2>2, <2>3, <3>1, <4>1, WebhookAssumption
    <3> QED
      BY <3>2, <3>3
  <2>5. CASE d \notin ledger
    <3>1. d = e /\ t = s /\ touched[w]
      BY <1>1, <2>5 DEF e, s
    <3>2. CASE row[s] # 0 /\ event[e].at < event[row[s]].at
      BY <1>1, <2>2, <2>3, <3>1, <3>2, WebhookAssumption
    <3>3. CASE ~(row[s] # 0 /\ event[e].at < event[row[s]].at)
      <4>1. row'[s] = e
        BY <1>1, <1>4, <3>1, <3>3
      <4> QED
        BY <1>4, <2>3, <3>1, <4>1, WebhookAssumption
    <3> QED
      BY <3>2, <3>3
  <2> QED
    BY <2>4, <2>5
<1>13. (acked \subseteq ledger)'
  BY <1>1 DEF WebhookIInv
<1>14. TenantIsKnown'
  <2> SUFFICES ASSUME NEW t \in Sub, row'[t] # 0
               PROVE  \E d \in ledger' : /\ event[d].kind = "plain"
                                         /\ CustomerOf[event[d].sub] = CustomerOf[t]
    BY <1>1 DEF TenantIsKnown
  <2>1. \A u \in Sub : row[u] # 0 => \E d \in ledger : /\ event[d].kind = "plain"
                                                       /\ CustomerOf[event[d].sub] = CustomerOf[u]
    BY DEF WebhookIInv, TenantIsKnown
  <2>2. CASE row'[t] = row[t]
    BY <1>1, <2>1, <2>2
  <2>3. CASE row'[t] # row[t]
    <3>1. t = s /\ touched[w]
      BY <1>1, <1>5, <2>3
    <3>2. CASE event[e].kind = "plain"
      BY <1>1, <3>1, <3>2 DEF s, e
    <3>3. CASE Resolvable(s)
      BY <1>1, <2>1, <3>1, <3>3 DEF Resolvable
    <3> QED
      BY <1>1, <3>1, <3>2, <3>3
  <2> QED
    BY <2>2, <2>3
<1> QED
  BY <1>7, <1>8, <1>9, <1>10, <1>11, <1>12, <1>13, <1>14 DEF WebhookIInv


\* A delivery that ends, in failure or with its answer, releases what it held.
LEMMA ForgetInv ==
    ASSUME WebhookIInv, NEW w \in Worker, Forget(w), UNCHANGED <<event, ledger, row>>,
           acked' \subseteq ledger
    PROVE  WebhookIInv'
<1>1. /\ stage' = [stage EXCEPT ![w] = "idle"] /\ ev' = [ev EXCEPT ![w] = 0]
      /\ touched' = [touched EXCEPT ![w] = FALSE] /\ wrote' = [wrote EXCEPT ![w] = FALSE]
  BY DEF Forget
<1>2. /\ stage'[w] = "idle" /\ ~touched'[w] /\ ~wrote'[w]
      /\ stage' \in [Worker -> Stage] /\ ev' \in [Worker -> 0..MaxEvents]
      /\ touched' \in [Worker -> BOOLEAN] /\ wrote' \in [Worker -> BOOLEAN]
      /\ \A v \in Worker : v # w =>
           stage'[v] = stage[v] /\ ev'[v] = ev[v] /\ touched'[v] = touched[v] /\ wrote'[v] = wrote[v]
  <2>1. /\ stage \in [Worker -> Stage] /\ ev \in [Worker -> 0..MaxEvents] /\ 0 \in 0..MaxEvents
        /\ touched \in [Worker -> BOOLEAN] /\ wrote \in [Worker -> BOOLEAN]
    BY WebhookAssumption DEF WebhookIInv, WebhookTypeOK
  <2> QED
    BY <1>1, <2>1 DEF Stage
<1>3. WebhookTypeOK'
  BY <1>2 DEF WebhookIInv, WebhookTypeOK
<1>4. Claims'
  BY <1>2 DEF WebhookIInv, Claims, Claiming
<1>5. Locks'
  BY <1>2 DEF WebhookIInv, Locks, SubOf
<1>6. Decided'
  <2>1. DecidedAt(w)'
    BY <1>2 DEF DecidedAt
  <2>2. \A v \in Worker : v # w => DecidedAt(v)'
    BY <1>2, OthersKnow
  <2> QED
    BY <2>1, <2>2 DEF Decided
<1> QED
  BY <1>3, <1>4, <1>5, <1>6, TablesKept DEF WebhookIInv

LEMMA FailInv ==
    ASSUME WebhookIInv, NEW w \in Worker, RollBack(w)
    PROVE  WebhookIInv'
BY ForgetInv DEF RollBack, tables, WebhookIInv

\* A 2xx is only ever sent for an event in the ledger.
LEMMA AnswerInv ==
    ASSUME WebhookIInv, NEW w \in Worker, NEW delivered \in BOOLEAN, Answer(w, delivered)
    PROVE  WebhookIInv'
<1>1. ev[w] \in ledger
  BY DEF Answer, WebhookIInv, Decided, DecidedAt
<1>2. acked' \subseteq ledger
  BY <1>1 DEF Answer, WebhookIInv
<1> QED
  BY <1>2, ForgetInv DEF Answer, tables

LEMMA WebhookNextInv == WebhookIInv /\ [WebhookNext]_webhookVars => WebhookIInv'
<1> SUFFICES ASSUME WebhookIInv, [WebhookNext]_webhookVars PROVE WebhookIInv'
  OBVIOUS
<1>1. CASE WebhookNext
  <2>1. PICK w \in Worker :
          \/ \E e \in Event : Deliver(w, e)
          \/ Step(w)
          \/ RollBack(w)
          \/ \E delivered \in BOOLEAN : Answer(w, delivered)
    BY <1>1 DEF WebhookNext
  <2> QED
    BY <2>1, DeliverInv, ClaimInv, ApplyInv, UpsertInv, CommitInv, FailInv, AnswerInv DEF Step
<1>2. CASE UNCHANGED webhookVars
  <2>1. UNCHANGED <<event, acked, ledger, row, stage, ev, touched, wrote>>
    BY <1>2 DEF webhookVars
  <2>2. WebhookTypeOK' /\ Claims' /\ Locks'
    BY <2>1 DEF WebhookIInv, WebhookTypeOK, Claims, Claiming, Locks, SubOf
  <2>3. Decided'
    BY <2>1, OthersKnow DEF Decided
  <2> QED
    BY <2>1, <2>2, <2>3, TablesKept DEF WebhookIInv
<1> QED
  BY <1>1, <1>2

LEMMA WebhookInvariance == WebhookSpec => []WebhookIInv
BY WebhookInitInv, WebhookNextInv, PTL DEF WebhookSpec

-----------------------------------------------------------------------------
(* Theorems                                                                *)

\* The state has its type and a row is locked only until its transaction ends.
THEOREM WebhookTypeCorrect == WebhookSpec => []WebhookTypeOK
<1>1. WebhookIInv => WebhookTypeOK
  BY DEF WebhookIInv
<1> QED
  BY <1>1, WebhookInvariance, PTL

\* An event Stripe has heard a 2xx for is recorded, and applied or superseded.
THEOREM NothingLost == WebhookSpec => []AcknowledgedIsApplied
<1>1. WebhookIInv => AcknowledgedIsApplied
  BY DEF WebhookIInv, RowsRecorded, AcknowledgedIsApplied
<1> QED
  BY <1>1, WebhookInvariance, PTL

\* A customer's first row comes from an event that names the tenant.
THEOREM NoGuessing == WebhookSpec => []TenantIsKnown
<1>1. WebhookIInv => TenantIsKnown
  BY DEF WebhookIInv
<1> QED
  BY <1>1, WebhookInvariance, PTL

\* Only a commit changes the tables.
LEMMA OtherSteps ==
    ASSUME [WebhookNext]_webhookVars, \A w \in Worker : ~Commit(w)
    PROVE  UNCHANGED <<event, ledger, row>>
BY DEF WebhookNext, Step, Deliver, Claim, Apply, Upsert, RollBack, Answer, tables, webhookVars

\* Each event is applied at most once, with its recording, and never over a row of a
\* later second.
THEOREM OnceInOrder == WebhookSpec => AppliedOnceInOrder
<1>1. WebhookIInv /\ [WebhookNext]_webhookVars =>
        [\A s \in Sub : row'[s] # row[s] =>
           /\ row'[s] \notin ledger /\ row'[s] \in ledger'
           /\ row[s] # 0 => event[row'[s]].at >= event[row[s]].at]_webhookVars
  <2> SUFFICES ASSUME WebhookIInv, [WebhookNext]_webhookVars, NEW s \in Sub, row'[s] # row[s]
               PROVE  /\ row'[s] \notin ledger /\ row'[s] \in ledger'
                      /\ row[s] # 0 => event[row'[s]].at >= event[row[s]].at
    OBVIOUS
  <2>1. PICK w \in Worker : Commit(w)
    BY OtherSteps
  <2>2. /\ ev[w] \in Event \ ledger /\ ledger' = ledger \cup {ev[w]}
        /\ row \in [Sub -> 0..MaxEvents]
        /\ touched[w]
        /\ LET u == event[ev[w]].sub
           IN row' = IF row[u] # 0 /\ event[ev[w]].at < event[row[u]].at THEN row
                     ELSE [row EXCEPT ![u] = ev[w]]
    BY <2>1, CommitRow DEF WebhookIInv, WebhookTypeOK
  <2>3. row'[s] = ev[w] /\ ~(row[s] # 0 /\ event[ev[w]].at < event[row[s]].at)
    BY <2>2
  <2>4. row[s] # 0 => event[ev[w]].at \in 0..MaxSecond /\ event[row[s]].at \in 0..MaxSecond
    BY <2>2 DEF WebhookIInv, RowFromLedger, WebhookTypeOK
  <2> QED
    BY <2>2, <2>3, <2>4, WebhookAssumption
<1> QED
  BY <1>1, WebhookInvariance, PTL DEF WebhookSpec, AppliedOnceInOrder

\* Overlapping, failed and repeated deliveries implement atomic records.
THEOREM Refinement == WebhookSpec => ImplementsLedger
<1>1. WebhookInit => Promise!Init
  BY DEF WebhookInit, Promise!Init
<1>2. WebhookIInv /\ [WebhookNext]_webhookVars => [Promise!Next]_Promise!vars
  <2> SUFFICES ASSUME WebhookIInv, [WebhookNext]_webhookVars PROVE [Promise!Next]_Promise!vars
    OBVIOUS
  <2>1. CASE \A w \in Worker : ~Commit(w)
    BY <2>1, OtherSteps DEF Promise!vars
  <2>2. CASE \E w \in Worker : Commit(w)
    <3>1. PICK w \in Worker : Commit(w)
      BY <2>2
    <3> DEFINE e == ev[w]
               s == event[ev[w]].sub
    <3>2. /\ e \in Event \ ledger /\ ledger' = ledger \cup {e} /\ event' = event
          /\ event[e].kind = "plain" => touched[w]
          /\ touched[w] => event[e].kind # "inert"
          /\ ~touched[w] => row' = row
          /\ touched[w] =>
               row' = IF row[s] # 0 /\ event[e].at < event[row[s]].at THEN row
                      ELSE [row EXCEPT ![s] = e]
      BY <3>1, CommitRow
    <3>3. CASE touched[w]
      BY <3>2, <3>3 DEF Promise!Next, Promise!Record
    <3>4. CASE ~touched[w]
      BY <3>2, <3>4 DEF Promise!Next, Promise!Skip
    <3> QED
      BY <3>3, <3>4
  <2> QED
    BY <2>1, <2>2
<1> QED
  BY <1>1, <1>2, WebhookInvariance, PTL DEF WebhookSpec, ImplementsLedger, Promise!Spec
=============================================================================
