----------------------------- MODULE Retrieval -----------------------------
(***************************************************************************)
(* Retrieval for one question (services/api/src/rag/retrieval.py,          *)
(* _retrieve_with_client): the primary pass, the rate lookup and the       *)
(* secondary passes run one after the other; within a pass the reads run   *)
(* side by side and come back in any order.  Meanwhile ingestion deletes   *)
(* and upserts documents: no two reads need see the same collection.       *)
(***************************************************************************)
EXTENDS RetrievalPasses

CONSTANTS Question,  \* what may be asked, see RetrievalPasses
          Order,     \* the ranks similarity may produce
          Document,  \* documents ingestion may be storing, each a set of points
          MaxChanges \* bound of the model: calls of ingestion during one question

\* detect_unions names a known union once.
ASSUME RetrievalAssumption ==
    /\ \A q \in Question : /\ q.named \in Seq(Range(Known)) /\ IsInjective(q.named)
                          /\ q.terms \in Nat
                          /\ {q.all, q.nuclear, q.wage, q.compare, q.premium} \subseteq BOOLEAN
    /\ \A r \in Order : r \in Seq(DOMAIN Chunk) /\ Range(r) = DOMAIN Chunk
    /\ \A d \in Document : d \subseteq DOMAIN Chunk
    /\ MaxChanges \in Nat

Point == DOMAIN Chunk

VARIABLES
    question,   \* what is asked; never changes
    rank,       \* similarity to each of the question's vectors; never changes
    collection, \* points in the vector store
    changes,    \* calls of ingestion since the question was asked
    todo,       \* passes still to run
    hits,       \* results of the reads of the running pass that are back
    scan,       \* rate lookup: next point to scan, points scanned, the match if any
    primary,    \* result of the primary pass
    leading,    \* results of the other passes
    pinned,     \* points the rate lookup pinned
    status,     \* "reading", "answered" or "failed"
    sources     \* the context window

vars == <<question, rank, collection, changes, todo, hits, scan, primary, leading, pinned,
          status, sources>>

asked == <<question, rank>>
store == <<collection, changes>>
results == <<primary, leading, pinned>>
outcome == <<status, sources>>

NoMatch == [from |-> 1, count |-> 0, match |-> {}]

TypeOK ==
    /\ question \in Question
    /\ rank \in [0..Limit.maxTerms -> Order]
    /\ collection \subseteq Point
    /\ changes \in 0..MaxChanges
    /\ todo \in Seq({"primary", "rate", "provision", "nuclear", "wage"})
    /\ hits # <<>> => todo # <<>> /\ DOMAIN hits \subseteq Reads(Head(todo), question)
    /\ scan.from \in Nat /\ scan.count \in Nat
    /\ scan.match \subseteq Point /\ Cardinality(scan.match) <= 1
    /\ primary \in Seq(Point) /\ Len(primary) <= PassLimit("primary", question)
    /\ leading \in Seq(Seq(Point)) /\ Len(leading) <= 4
    /\ pinned \subseteq Point /\ Cardinality(pinned) <= 1
    /\ status \in {"reading", "answered", "failed"}
    /\ sources \in Seq(Point) /\ (sources # <<>> => status = "answered")

Init ==
    /\ question \in Question
    /\ rank \in [0..Limit.maxTerms -> Order]
    /\ collection = Point
    /\ changes = 0
    /\ todo = Passes(question)
    /\ hits = <<>>
    /\ scan = NoMatch
    /\ primary = <<>>
    /\ leading = <<>>
    /\ pinned = {}
    /\ status = "reading"
    /\ sources = <<>>

Running(pass) == status = "reading" /\ todo # <<>> /\ Head(todo) = pass
Searching == status = "reading" /\ todo # <<>> /\ Head(todo) # "rate"

-----------------------------------------------------------------------------
(* The passes                                                              *)

\* One read of the running pass comes back: the union it was filtered by is the read's
\* place in the fan-out.
Read(read) ==
    /\ Searching
    /\ read \in Reads(Head(todo), question) \ DOMAIN hits
    /\ hits' = [r \in DOMAIN hits \cup {read} |->
                   IF r = read
                   THEN Search(Head(todo), question, Fan(Head(todo), question)[read[1]],
                               rank[read[2]], collection)
                   ELSE hits[r]]
    /\ UNCHANGED <<asked, store, todo, scan, results, outcome>>

\* A pass is over with a result: the primary one is kept apart.
Yield(result) ==
    /\ IF Head(todo) = "primary"
       THEN primary' = result /\ UNCHANGED leading
       ELSE leading' = Append(leading, result) /\ UNCHANGED primary
    /\ todo' = Tail(todo)
    /\ hits' = <<>>

\* Faulty form: the reads still out are given up.
CollectEarly ==
    /\ Searching
    /\ hits # <<>>
    /\ Yield(Merged(Head(todo), question,
                    [r \in Reads(Head(todo), question) |->
                        IF r \in DOMAIN hits THEN hits[r] ELSE <<>>]))
    /\ UNCHANGED <<asked, store, scan, pinned, outcome>>

\* All reads of the pass are back: gather returns them in the order of the arguments.
Collect ==
    /\ Searching
    /\ DOMAIN hits = Reads(Head(todo), question)
    /\ Yield(Merged(Head(todo), question, hits))
    /\ UNCHANGED <<asked, store, scan, pinned, outcome>>

\* The lookup ends: a match with dated rates is pinned, as a leading result of its own.
EndLookup(match) ==
    /\ todo' = Tail(todo)
    /\ pinned' = Dated(match)
    /\ leading' = leading \o Pinning(match)
    /\ scan' = NoMatch
    /\ UNCHANGED <<asked, store, hits, primary, outcome>>

\* The next page of the scroll over the wage tables.
Page ==
    LET tables == {p \in collection : p >= scan.from /\ RateTable(question, p)}
    IN  {p \in tables : Cardinality({t \in tables : t < p}) < Limit.page}

\* The offset the scroll goes on from.
After(page) == (CHOOSE p \in page : \A t \in page : t <= p) + 1

LastPage(page) ==
    \/ {p \in collection : p >= scan.from /\ RateTable(question, p)} = page
    \/ scan.count + Cardinality(page) >= Limit.scanCap

\* Faulty form: the first match is taken, without a look at the pages that follow.
ScrollEager ==
    /\ Running("rate")
    /\ LET found == {p \in Page : RateMatch(question, p)}
       IN  IF found # {} \/ LastPage(Page)
           THEN EndLookup({p \in found : \A t \in found : p <= t})
           ELSE /\ scan' = [from |-> After(Page), count |-> scan.count + Cardinality(Page), match |-> {}]
                /\ UNCHANGED <<asked, store, todo, hits, results, outcome>>

\* _scroll_rate_candidates reads one page: a second match ends the lookup without one.
Scroll ==
    /\ Running("rate")
    /\ LET found == scan.match \cup {p \in Page : RateMatch(question, p)}
       IN  IF Cardinality(found) > 1 THEN EndLookup({})
           ELSE IF LastPage(Page) THEN EndLookup(found)
           ELSE /\ scan' = [from |-> After(Page), count |-> scan.count + Cardinality(Page), match |-> found]
                /\ UNCHANGED <<asked, store, todo, hits, results, outcome>>

\* The passes are done and their results merged.
Finish ==
    /\ status = "reading"
    /\ todo = <<>>
    /\ status' = "answered"
    /\ sources' = Assemble(question, primary, leading)
    /\ UNCHANGED <<asked, store, todo, hits, scan, results>>

\* A read raises, and so does the retrieval.
Fail ==
    /\ status = "reading"
    /\ todo # <<>>
    /\ status' = "failed"
    /\ UNCHANGED <<asked, store, todo, hits, scan, results, sources>>

\* store_document or purge_documents deletes a document's points, or upserts them.
Ingest(document) ==
    /\ status = "reading"
    /\ changes < MaxChanges
    /\ changes' = changes + 1
    /\ collection' \in {collection \ document, collection \cup document}
    /\ UNCHANGED <<asked, todo, hits, scan, results, outcome>>

Next ==
    \/ Searching /\ \E read \in Reads(Head(todo), question) : Read(read)
    \/ Collect
    \/ Scroll
    \/ Finish
    \/ Fail
    \/ \E document \in Document : Ingest(document)

Spec == Init /\ [][Next]_vars

-----------------------------------------------------------------------------
(* Properties                                                              *)

Answered == status = "answered"
Heard(p) == p \in Range(sources)

\* No pass brings what the question excluded: a union it does not name, the other scope,
\* a nuclear agreement nobody asked for, an agreement that is not in force.
OnlyAsked(p) ==
    /\ question.named # <<>> => Chunk[p].union \in Range(question.named)
    /\ question.scope # None => Chunk[p].scope \in {None, question.scope}
    /\ Chunk[p].kind = "npa" => question.nuclear
    /\ Chunk[p].kind # "wage" => Chunk[p].dates = "current"

\* The window is never exceeded, no chunk takes two of its places, whatever passes found
\* it and whatever was ingested between them ([SOURCE n] is one chunk), and every pass
\* keeps to what was asked.
WindowSound ==
    Answered => /\ Len(sources) <= Window(question)
                /\ IsInjective(sources)
                /\ \A p \in Range(sources) : OnlyAsked(p)

\* Guaranteed passes never push the base agreement out: as many chunks of the primary
\* pass as are reserved, or all it has, are in the window (retrieval.py:1186-1196).
BaseStays ==
    Answered => Cardinality({p \in Range(primary) : Heard(p)}) >= Reserve(question, primary)

\* Of the unions a question compares, the first ones, as many as there are reserved
\* places, keep a chunk in the window if the primary pass found one.
ComparedUnionsHeard ==
    \A k \in DOMAIN question.named :
        k <= Limit.minPrimary /\ (\E p \in Range(primary) : Chunk[p].union = question.named[k])
            => \E p \in Range(sources) : Chunk[p].union = question.named[k]

\* No pass starves a later one, and no union another: the best chunk of each pass is in
\* the window (retrieval.py:1128-1132), and so are the unions compared.
PassesHeard ==
    Answered => /\ \A k \in DOMAIN leading : leading[k] # <<>> => Heard(leading[k][1])
                /\ ComparedUnionsHeard

\* The scroll gives up at its cap: beyond it tables are not looked at.
Covered == Cardinality({p \in Point : RateTable(question, p)}) <= Limit.scanCap

Matches == {p \in collection : RateTable(question, p) /\ RateMatch(question, p)}

\* A pinned rate leads the window, and unless the collection changed meanwhile, or has more
\* tables than are scanned, it is the only one that answers to the question's
\* classification and location.
PinnedIsExact ==
    Answered /\ pinned # {} => /\ sources[1] \in pinned
                               /\ changes = 0 /\ Covered => Matches = pinned

\* What a pass yields if all its reads are one look at the store.
LookedUp(pass) ==
    Merged(pass, question,
           [r \in Reads(pass, question) |->
               Search(pass, question, Fan(pass, question)[r[1]], rank[r[2]], collection)])

\* What the rate lookup pins in one look.
Sole == IF RateClass(question) = None \/ Cardinality(Matches) > 1 THEN {} ELSE Matches

\* The window if all reads of the question were one look.
AtOnce ==
    Assemble(question, LookedUp("primary"),
             Pinning(Sole) \o [k \in 1..Len(Secondary(question)) |-> LookedUp(Secondary(question)[k])])

\* The window does not depend on the order in which concurrent reads come back: without
\* ingestion, and within the cap, it is that of a single look (retrieval.py:1081-1083).
ReadsAsOne == Answered /\ changes = 0 /\ Covered => sources = AtOnce
=============================================================================
