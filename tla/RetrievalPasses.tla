-------------------------- MODULE RetrievalPasses --------------------------
(***************************************************************************)
(* The searches a question makes of the vector store and how their results *)
(* are merged into one context window (services/api/src/rag/retrieval.py), *)
(* with the decisions of rag/preprocess.py they follow from.               *)
(*                                                                         *)
(* A point is a chunk of the collection; what the searches look at is its  *)
(* record in Chunk.  A rank is a sequence of points, the order of their    *)
(* similarity to one vector.  What the text of a question makes preprocess *)
(* detect is the question's record.                                        *)
(***************************************************************************)
EXTENDS Lists

CONSTANTS Chunk, \* payload of each point: [union, kind, scope, dates, class,
                 \* place, table, rated]
          Known, \* sequence of the unions the documents table names
          Limit, \* the module's limits, a record
          None   \* no union, no scope, no classification

Limits == {"topK", "minPrimary", "maxTerms", "perTerm", "termPerUnion", "provisionMerged",
           "npaSlots", "npaPerUnion", "npaMerged", "wageSlots", "wagePerUnion", "wageMerged",
           "baseline", "enumPerUnion", "enumMaxUnions", "enumPrimary", "enumReserve", "page",
           "scanCap"}

\* What the limits have to satisfy for the merges to leave every pass its place.  The
\* documents table names a union once.
ASSUME LimitAssumption ==
    /\ Chunk \in Seq(Range(Chunk)) /\ Known \in Seq(Range(Known))
    /\ Known # <<>> /\ IsInjective(Known) /\ None \notin Range(Known)
    /\ Limit \in [Limits -> Nat \ {0}]
    /\ Limit.topK - Limit.minPrimary >= 4
    /\ Limit.enumPrimary - Limit.enumReserve >= 3

-----------------------------------------------------------------------------
(* Sequences of points                                                     *)

First(s, n) == SubSeq(s, 1, IF n < Len(s) THEN n ELSE Len(s))

\* The entries of s that are in S.
Among(s, S) == Picked(s, {i \in DOMAIN s : s[i] \in S})

\* Every point of s once, at its first place.
Distinct(s) == Picked(s, {i \in DOMAIN s : \A j \in 1..i - 1 : s[j] # s[i]})

\* The results of some reads: <<k, r>> stands for the r-th chunk of set k.
Places(sets) == UNION {{k} \X DOMAIN sets[k] : k \in DOMAIN sets}

Walk(sets, key) ==
    LET walk == Ordered(Places(sets), key)
    IN  [m \in 1..Cardinality(Places(sets)) |-> sets[walk[m][1]][walk[m][2]]]

\* Faulty form: one result set after the other.
Concatenated(sets, n) ==
    First(Distinct(Walk(sets, [at \in Places(sets) |->
        at[1] * Cardinality(Places(sets)) + at[2]])), n)

\* _merge_union_results: the first of every set, then the second of every set, and so on.
RoundRobin(sets, n) ==
    First(Distinct(Walk(sets, [at \in Places(sets) |-> (at[2] - 1) * Len(sets) + at[1]])), n)

-----------------------------------------------------------------------------
(* What is asked: preprocess, and the caller's gate on enumeration         *)

\* A broad question that names no union fans out over all of them.
Enumerates(q) == q.all /\ q.named = <<>>

CrossUnion(q) == q.compare \/ q.all \/ Len(q.named) > 1

\* The classification to pin: the only one named, of a wage question about one union.
RateClass(q) ==
    IF q.wage /\ ~CrossUnion(q) /\ Cardinality(q.classes) = 1
    THEN CHOOSE c \in q.classes : TRUE
    ELSE None

When(cond, pass) == IF cond THEN <<pass>> ELSE <<>>

Secondary(q) ==
    When(q.terms > 0, "provision") \o When(q.nuclear, "nuclear") \o When(q.wage, "wage")

\* Passes in the order they run, which is the order of their priority.
Passes(q) == <<"primary">> \o When(RateClass(q) # None, "rate") \o Secondary(q)

\* Union filters of the reads a pass makes side by side.
Fan(pass, q) ==
    IF pass = "primary" /\ Enumerates(q) THEN First(Known, Limit.enumMaxUnions)
    ELSE IF q.named = <<>> THEN <<None>> ELSE q.named

Terms(q) == IF q.terms < Limit.maxTerms THEN q.terms ELSE Limit.maxTerms

\* Vectors they are made with: 0 is the question's own, the others its focused terms'.
Vectors(pass, q) == IF pass = "provision" THEN 1..Terms(q) ELSE {0}

Reads(pass, q) == (DOMAIN Fan(pass, q)) \X Vectors(pass, q)

\* Chunks one read may bring, and what is left of a pass once its reads are merged.
ReadLimit(pass, q) ==
    LET many == Len(q.named) > 1
    IN  CASE pass = "primary"   -> IF Enumerates(q) THEN Limit.enumPerUnion ELSE Limit.topK
          [] pass = "provision" -> IF many THEN Limit.termPerUnion ELSE Limit.perTerm
          [] pass = "nuclear"   -> IF many THEN Limit.npaPerUnion ELSE Limit.npaSlots
          [] pass = "wage"      -> IF many THEN Limit.wagePerUnion ELSE Limit.wageSlots

PassLimit(pass, q) ==
    CASE pass = "primary"   -> IF Enumerates(q) THEN Limit.enumPrimary ELSE Limit.topK
      [] pass = "provision" -> Limit.provisionMerged
      [] pass = "nuclear"   -> Limit.npaMerged
      [] pass = "wage"      -> Limit.wageMerged

-----------------------------------------------------------------------------
(* One read                                                                *)

\* Neither expired nor, rate tables excepted, still to come.
InForce(p) ==
    \/ Chunk[p].dates = "current"
    \/ Chunk[p].dates = "future" /\ Chunk[p].kind = "wage"

OfUnion(u, p) == u = None \/ Chunk[p].union = u
InScope(q, p) == q.scope = None \/ Chunk[p].scope \in {None, q.scope}

\* The filter of a pass.  Wage tables are looked up whatever their dates.
Eligible(pass, q, u, p) ==
    /\ OfUnion(u, p) /\ InScope(q, p)
    /\ pass \in {"primary", "provision"} => InForce(p) /\ (q.nuclear \/ Chunk[p].kind # "npa")
    /\ pass = "nuclear" => InForce(p) /\ Chunk[p].kind = "npa"
    /\ pass = "wage" => Chunk[p].kind = "wage"

\* _wage_rank_boost: a classification the question names outweighs a location it names.
Boost(q, p) ==
    (IF Chunk[p].class \in q.classes THEN 2 ELSE 0) + (IF Chunk[p].place \in q.places THEN 1 ELSE 0)

\* _reserve_baseline_slots: the last slots go to journeyman tables when none is there.
WithBaseline(cand, top, n) ==
    LET places == {Chunk[p].place : p \in Range(top)}
        tables == {p \in Range(cand) : Chunk[p].class = "journeyman"}
        near == {p \in tables : Chunk[p].place \in places}
        base == First(Among(cand, near) \o Among(cand, tables \ near), Limit.baseline)
    IN  IF Range(top) \cap tables # {} THEN top
        ELSE IF base = <<>> THEN top
        ELSE First(top, n - Len(base)) \o base

\* _query_wage_schedules ranks all candidates by boost, then by similarity.
WageTop(q, cand, n) ==
    LET Boosted(b) == Among(cand, {p \in Range(cand) : Boost(q, p) = b})
        top == First(Boosted(3) \o Boosted(2) \o Boosted(1) \o Boosted(0), n)
    IN  IF q.premium THEN WithBaseline(cand, top, n) ELSE top

\* The best chunks of the collection for one vector under one filter.
Search(pass, q, u, rank, collection) ==
    LET cand == Among(rank, {p \in collection : Eligible(pass, q, u, p)})
        n    == ReadLimit(pass, q)
    IN  IF pass = "wage" THEN WageTop(q, cand, n) ELSE First(cand, n)

\* _rate_lookup_filter, and the test of a scanned record.
RateTable(q, p) ==
    /\ Chunk[p].kind = "wage" /\ Chunk[p].table
    /\ OfUnion(Fan("rate", q)[1], p) /\ InScope(q, p)

\* _build_pinned_chunk needs a rate row with a date.
Dated(match) == {p \in match : Chunk[p].rated}

\* The pinned chunk is a result set of its own.
Pinning(match) ==
    IF Dated(match) = {} THEN <<>> ELSE <<<<CHOOSE p \in Dated(match) : TRUE>>>>

RateMatch(q, p) == Chunk[p].class = RateClass(q) /\ Chunk[p].place \in q.places

-----------------------------------------------------------------------------
(* Merging                                                                 *)

\* What a pass yields: reads merged by vector within a union, then by union.
Merged(pass, q, hits) ==
    LET vectors == IF pass = "provision" THEN Terms(q) ELSE 1
        OneUnion(k) == RoundRobin([v \in 1..vectors |->
                           hits[<<k, IF pass = "provision" THEN v ELSE 0>>]], PassLimit(pass, q))
    IN  RoundRobin([k \in DOMAIN Fan(pass, q) |-> OneUnion(k)], PassLimit(pass, q))

Window(q) == IF Enumerates(q) THEN Limit.enumPrimary ELSE Limit.topK
ReserveCap(q) == IF Enumerates(q) THEN Limit.enumReserve ELSE Limit.minPrimary
Reserve(q, primary) ==
    IF ReserveCap(q) < Len(primary) THEN ReserveCap(q) ELSE Len(primary)

\* Faulty form: leading and primary chunks are concatenated as they came.
AssembleRepeating(q, primary, leading) ==
    First(RoundRobin(leading, Window(q) - Reserve(q, primary)) \o primary, Window(q))

\* The context window: the leading passes interleaved, up to the primary's reserve, then
\* the primary pass.
Assemble(q, primary, leading) ==
    IF \A k \in DOMAIN leading : leading[k] = <<>> THEN primary
    ELSE First(Distinct(RoundRobin(leading, Window(q) - Reserve(q, primary)) \o primary), Window(q))
=============================================================================
