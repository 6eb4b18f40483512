---------------------------- MODULE RateLimiter ----------------------------
(***************************************************************************)
(* SlidingWindowLimiter of services/api/src/auth/rate_limit.py, as         *)
(* enforce_rate_limit and enforce_auth_rate_limit drive it: one instance,  *)
(* called with a fixed limit, a fixed max_keys and the monotonic clock.    *)
(* check() never awaits, so on the event loop it is one atomic step.       *)
(* A limit <= 0 returns before any state is touched and is left out.       *)
(***************************************************************************)
EXTENDS Integers, Sequences, FiniteSets

CONSTANTS Key,      \* client addresses
          MaxHits,  \* admitted hits per window
          MaxKeys,  \* rate_limit_max_keys
          Span,     \* _RATE_WINDOW_SECONDS, in clock ticks
          MaxTime   \* bound of the model: the clock stops here

ASSUME LimiterAssumption ==
    /\ MaxHits \in Nat \ {0}
    /\ MaxKeys \in Nat \ {0}
    /\ Span \in Nat
    /\ MaxTime \in Nat
    /\ IsFiniteSet(Key)

VARIABLES
    clock,   \* time.monotonic()
    keys,    \* keys of the dict _buckets
    hits,    \* the deque of each key; <<>> for a key that is not in the dict
    older,   \* insertion order of the dict: <<a, b>> when a was inserted before b
    log      \* history: hits admitted since a flood eviction last forgot the key

limiterVars == <<clock, keys, hits, older, log>>

\* Besides the types: the dict holds no empty deque, so the [-1] of the sweep's sort
\* never raises.
LimiterTypeOK ==
    /\ clock \in 0..MaxTime
    /\ keys \subseteq Key
    /\ hits \in [Key -> Seq(0..MaxTime)]
    /\ \A k \in Key : k \in keys <=> hits[k] # <<>>
    /\ older \subseteq keys \X keys
    /\ log \in [Key -> Seq(0..MaxTime)]

LimiterInit ==
    /\ clock = 0
    /\ keys = {}
    /\ hits = [k \in Key |-> <<>>]
    /\ older = {}
    /\ log = [k \in Key |-> <<>>]

-----------------------------------------------------------------------------
\* A hit that has left the window [clock - Span, clock].
Aged(t) == clock - t > Span

Newest(w) == w[Len(w)]

\* Faulty form: the boundary hit leaves the window a tick early.
PruneEarly(w, n) ==
    /\ \A i \in 1..n : clock - w[i] >= Span
    /\ n < Len(w) => clock - w[n + 1] < Span

\* _prune pops the first n hits of w: those that have aged, up to one that has not.
Prune(w, n) ==
    /\ \A i \in 1..n : Aged(w[i])
    /\ n < Len(w) => ~Aged(w[n + 1])

\* Idle keys of the dict that holds ks with the deques h.
Idle(ks, h) == {k \in ks : h[k] = <<>> \/ Aged(Newest(h[k]))}

\* The order of sorted(_buckets, key = newest hit), stable in insertion order.
SeenBefore(a, b, h, ord) ==
    \/ Newest(h[a]) < Newest(h[b])
    \/ Newest(h[a]) = Newest(h[b]) /\ <<a, b>> \in ord

\* Faulty form: the sort is reversed and the most recent keys go.
EvictNewest(ks, h, ord, idle, flood) ==
    IF Cardinality(ks) <= MaxKeys THEN idle = {} /\ flood = {}
    ELSE /\ idle = Idle(ks, h)
         /\ LET busy == ks \ idle
            IN  IF Cardinality(busy) <= MaxKeys THEN flood = {}
                ELSE /\ flood \subseteq busy
                     /\ Cardinality(busy \ flood) = MaxKeys
                     /\ \A a \in flood, b \in busy \ flood : SeenBefore(b, a, h, ord)

\* _evict_if_needed on the dict ks: above the cap it deletes the idle keys, and when
\* that is not enough the least recently seen ones.
Evict(ks, h, ord, idle, flood) ==
    IF Cardinality(ks) <= MaxKeys THEN idle = {} /\ flood = {}
    ELSE /\ idle = Idle(ks, h)
         /\ LET busy == ks \ idle
            IN  IF Cardinality(busy) <= MaxKeys THEN flood = {}
                ELSE /\ flood \subseteq busy
                     /\ Cardinality(busy \ flood) = MaxKeys
                     /\ \A a \in flood, b \in busy \ flood : SeenBefore(a, b, h, ord)

-----------------------------------------------------------------------------
Tick ==
    /\ clock < MaxTime
    /\ clock' = clock + 1
    /\ UNCHANGED <<keys, hits, older, log>>

\* Faulty form: the hit is recorded before the limit is looked at, so a rejected
\* client keeps its own window full.
RejectRecords(k, n) ==
    /\ Prune(hits[k], n)
    /\ Len(hits[k]) - n >= MaxHits
    /\ hits' = [hits EXCEPT ![k] = Append(SubSeq(@, n + 1, Len(@)), clock)]
    /\ UNCHANGED <<clock, keys, older, log>>

\* check() when the pruned window is full: refused and not recorded.  (The setdefault
\* before it adds nothing: a full window's key is in the dict.)
Reject(k, n) ==
    /\ Prune(hits[k], n)
    /\ Len(hits[k]) - n >= MaxHits
    /\ hits' = [hits EXCEPT ![k] = SubSeq(@, n + 1, Len(@))]
    /\ UNCHANGED <<clock, keys, older, log>>

\* check() when there is room: recorded, then the sweep.
Admit(k, n) ==
    LET ks  == keys \cup {k}
        h   == [hits EXCEPT ![k] = Append(SubSeq(@, n + 1, Len(@)), clock)]
        ord == IF k \in keys THEN older ELSE older \cup (keys \X {k})
    IN  /\ Prune(hits[k], n)
        /\ Len(hits[k]) - n < MaxHits
        /\ \E idle, flood \in SUBSET Key :
             LET gone == idle \cup flood
             IN  /\ Evict(ks, h, ord, idle, flood)
                 /\ keys' = ks \ gone
                 /\ hits' = [x \in Key |-> IF x \in gone THEN <<>> ELSE h[x]]
                 /\ older' = {p \in ord : p[1] \notin gone /\ p[2] \notin gone}
                 /\ log' = [x \in Key |->
                              IF x \in flood THEN <<>>
                              ELSE IF x = k THEN Append(log[x], clock) ELSE log[x]]
        /\ UNCHANGED clock

Check(k) == \E n \in 0..Len(hits[k]) : Reject(k, n) \/ Admit(k, n)

LimiterNext == Tick \/ \E k \in Key : Check(k)

LimiterSpec == LimiterInit /\ [][LimiterNext]_limiterVars

-----------------------------------------------------------------------------
(* Properties                                                              *)

\* The dict never holds more than max_keys buckets between two calls.
MemoryBound == Cardinality(keys) <= MaxKeys

\* Any MaxHits + 1 consecutive admitted hits of a client span more than the window: no
\* window [t, t + Window] ever holds more than MaxHits of them, although keys are
\* pruned, swept when idle and admitted again.  Only the eviction of an active key
\* under a flood of clients forgets what it had used.
WindowBound ==
    \A k \in Key : \A i \in 1..(Len(log[k]) - MaxHits) :
        log[k][i + MaxHits] - log[k][i] > Span

\* A client is refused only when it really has had MaxHits hits admitted within the
\* window: refusals never lengthen its wait.
RejectOnlyAtLimit ==
    [][\A k \in Key : (\E n \in 0..Len(hits[k]) : Reject(k, n)) =>
         /\ Len(log[k]) >= MaxHits
         /\ clock - log[k][Len(log[k]) - MaxHits + 1] <= Span]_limiterVars

\* The sweep a call triggers never deletes the bucket of the client being admitted:
\* its hit counts, however many clients are active in the same tick.
NewcomerCounts ==
    [][\A k \in Key : (\E n \in 0..Len(hits[k]) : Admit(k, n))
         => k \in keys' /\ Newest(hits'[k]) = clock]_limiterVars
=============================================================================
