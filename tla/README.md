# EPSCAxplor verification project

TLA+ models of EPSCAxplor, the TLC configurations that check them on small
instances, and TLAPS proofs that hold for every instance. Every definition is
translated from the source; `PROJECT.json` maps each one to its lines.

EPSCAxplor answers questions about the collective agreements of Ontario's
construction unions. A FastAPI service (`services/api`) holds tenants, users,
subscriptions, documents and a query log in PostgreSQL and the chunks of the
agreements in Qdrant; a batch pipeline (`services/ingestion`) turns PDFs into rows
and chunks; Stripe bills the tenants; a Next.js client (`apps/web`) talks to the API.

Contents: [1 Inventory](#1-inventory) ·
[2 Modules](#2-modules-and-how-they-correspond-to-the-code) ·
[3 Runs](#3-runs-what-is-checked) · [4 Fairness](#4-fairness) ·
[5 Disagreements](#5-where-the-code-and-its-documentation-disagree) ·
[6 Proofs](#6-what-is-proved) · [7 Not modelled](#7-what-is-not-modelled) ·
[8 Plan](#8-plan)

## 1 Inventory

### Modelled

| Component | State | Operations | What is hard | What makes it correct |
|---|---|---|---|---|
| **Refresh tokens** `auth/service.py`, `db/tokens.py`, `routes/auth.py` | rows of `refresh_tokens`: status, family, parent, expiry; the user's `is_active`; row locks; the clients' cookies | login, refresh (look up, check user, `mark_rotated`, insert child, commit), logout, `revoke_family` | requests that present one token at once; READ COMMITTED snapshots and lock waits; a crash between spending a token and inserting its successor; an answer the client never hears; revocations that deadlock | one usable token per family; one successor per token; a spent token has one; a closed session stays closed |
| **Web session** `lib/api-client.ts`, `lib/auth.tsx` | per tab: the access token, one shared refresh promise, status, a timer; the cookie all tabs share | mount, login, logout, refresh, retry once on a 401, the timer, reload | callers that ask for a refresh at once; answers that are lost or come after the page is gone; a login while the mount's refresh travels | no refresh presents a token another has spent; a signed-out page is told so |
| **Rate limiter** `auth/rate_limit.py` | a dict of deques, in insertion order; the monotonic clock | `check`: prune, refuse or admit, sweep | eviction under a flood of clients; the boundary of the window; a sweep that could remove the client being admitted | bounded memory; never more than the limit in any window; no refusal below it |
| **Stripe webhook** `routes/billing.py`, `billing/events.py`, `db/subscriptions.py` | `processed_stripe_events`, `subscriptions`, uncommitted claims and row locks; what Stripe has heard | claim the event, resolve the tenant, upsert unless older, commit, answer | at-least-once delivery in any order, overlapping deliveries, transactions that fail after the claim, answers that get lost, one-second timestamps | nothing acknowledged is lost; nothing is applied twice or backwards; every event lands |
| **Tier quota** `auth/tier_limit.py`, `billing/entitlements.py`, `db/query_logs.py`, `routes/query.py` | subscription rows, query log, the calendar | select the effective row, derive the window, count, run, log best effort | the check precedes the log row; rows, clock and count are read at three moments; frozen billing periods; more rows than one fetch returns | bounded overshoot; nobody refused early; a paying tenant never treated as lapsed |
| **Retrieval** `rag/retrieval.py`, decisions of `rag/preprocess.py`, gate of `routes/query.py` | the collection, the passes still to run, reads in flight, a scroll cursor, the window | primary pass (with its two fan-outs), rate lookup, provision, nuclear and wage passes, merges | passes that compete for one window; results in any order; ingestion between reads; ambiguity that shows on a later page only | no pass starved, base agreement kept, nothing excluded comes in, a pinned rate is the only match |
| **Document path** `convert.py`, `extract.py`, `chunk.py`, `epsca_wage_parser.py`, `wage_tables.py` | one document: its lines, blocks, the running article, title and section, a buffer, the wage form's pages | read a page in columns, read Markdown or printed pages, chunk, split with overlap, parse a form, fall back | context carried across blocks; an overlap walked back and forth; tables ended in four ways; gutters that narrow; rows that inherit a trade | nothing of a document is lost; chunks fit; tables stay whole; citations and rates are those of their lines |
| **Ingestion** `run_pipeline.py`, `download.py`, the cache of `convert.py` | `corpus/` and `corpus_md/` with their `.tmp` files, sidecars, stored documents | download, hash, look up the cache, convert, re-read, store, with filters and `--dry-run` | two renames; a PDF replaced between a hash and a read; runs that overlap or die anywhere | a cache hit is current; a part of a download never passes for a file; a rerun repairs |
| **Corpus store** `store.py`, `purge_documents.py` | rows of `documents`, points of the collection | store: upsert the row, delete the points, upsert the new ones; purge: resolve ids, delete points, delete row | two stores without a common transaction; runs that overlap; runs that die between calls | one row per file; no orphaned points; no mixture of two ingests; a rerun repairs |
| **Corpus drift** `check_corpus_drift.py`, `docs/runbooks/ingestion.md` | the publisher's page, the manifest, the files, the stored documents, a report | check; edit the manifest; ingest and purge by name | one document under two names and in two groups; renames of unchanged content; a page that changes while a report is worked off | every difference reported once; a report worked off leaves the store as the page |

Query preprocessing and the query route are modelled as far as these parts use them.

### Not modelled

| Component | State and operations | Standing |
|---|---|---|
| Checkout and portal `routes/billing.py`, `billing/gateway.py` | none of its own; an idempotency key kept by Stripe | depends on what Stripe does with a repeated key |
| Chat history `lib/chatHistory.ts`, `rag/condense.py` | the turns of a conversation | pure budgets |
| Query history page `app/history/page.tsx`, `routes/history.py` | an offset, a total, rows that arrive meanwhile | one SELECT per page |
| Backup and restore `infra/backups` | a dump, snapshots, a staging directory | see [section 7](#7-what-is-not-modelled) |
| Everything else | | see [section 7](#7-what-is-not-modelled) |

### How the components interact

- A query passes the access-token check, the rate limiter and the tier quota, in this
  order, then preprocessing, retrieval, generation and the query log. The quota counts
  the rows which that log writes, so the two are one model (`TierQuota`).
- The quota reads the rows the webhook writes. `TierQuota` keeps the rows with the
  statuses the webhook derives and lets them be rewritten between any two statements.
- Retrieval reads the collection that storing and purging rewrite. `Retrieval` takes a
  document's points away and puts them back between any two reads, as `CorpusStore`
  shows they may be.
- The web client's cookie is the token that `RefreshTokens` rotates. That module follows
  single requests; `WebSession` is the other end and takes of the service only what
  `LoginSession`, which `RefreshTokens` is proved to implement, promises.
- `CorpusDrift` decides what is ingested and purged, `Ingestion` runs it over the files,
  `DocumentPath` takes one file to its chunks, and `CorpusStore` writes them. Each takes
  the next one as a single step.

## 2 Modules and how they correspond to the code

`MC*` modules give constants their values and, where a run needs them, a symmetry or a
constraint. Operators called "Faulty" in a comment are plausible bugs, used to check that
each property can fail; nothing else refers to them.

**RefreshTokens** — each request is a process, each SQL statement a step.
`StartRefresh`/`Lookup`/`CheckUser`/`Claim`/`ClaimRow`/`InsertChild`/`CommitRotation`
are `rotate_refresh_token`; `StartLogout`/`LookupLogout` are `logout`;
`StartBurn`/`BurnRow`/`CommitBurn` are the one UPDATE of `revoke_family`. READ COMMITTED
is modelled by what the protocol depends on: a statement selects from a snapshot
(`snap`), locks row by row, and evaluates its WHERE clause again after waiting.
`Crash` is an error or a death before commit, `DeadlockVictim` PostgreSQL's detector,
`Reply(r, delivered)` an answer that may be lost, `Expire` and `Deactivate` the
environment. **LoginSession** is what a client may rely on: open, renew, close. The
refinement maps a family to its usable row.

**RateLimiter** — `check` never awaits, so a call is one step: `Reject` prunes and
refuses, `Admit` prunes, appends and, beyond `max_keys`, sweeps (idle buckets first,
then the least recently used, sparing the newcomer). `older` is the dict's insertion
order, which decides ties of the sort. `log` is a history variable.

**StripeWebhook** — `Deliver`, `Claim`, `Apply`, `Upsert`, `Commit`, `Answer` are the
statements of one delivery; `Fail` rolls it back at any of them. The claim waits for an
uncommitted claim of the same event, and the upsert holds its row even when its WHERE
clause rejects the event. The stream of events is chosen at the start, so TLC tries
every stream. **EventLedger** is the promise: events are recorded one at a time, and a
row never goes back to an earlier second.

**TierQuota** — `Start`, `ReadSubs`, `Count` are the three reads of
`enforce_tier_limit`; the pipeline between the verdict and the log is one step whose end
is `Log`, `Lose` (the log row is swallowed) or `Fail`. `Subscribe`/`Update` are the
webhook's writes; `NextDay` the clock. `Effective`, `Entitled`, `WithinGrace`, `Window`
translate the pure functions of `entitlements.py`. What a query was judged by (`seen`,
`since`, `limit`, `lapsed`) is kept after its verdict, as a history of it.

**CorpusStore** — two stores and no common transaction: `Select`, `WriteUpdate` or
`WriteInsert`, `DeletePoints`, `Upsert` for a store, `Resolve`, `PurgePoints`,
`PurgeRow` for a purge; `Crash` at any of them. `raced` is a history variable: which
kinds of runs have overlapped on a file. **Library** is what those who search may rely on:
of a file they find nothing or one content in full, it changes only while a run is on the
file and never from one content to another but through nothing, and a run tells the truth.
The refinement maps a file to the points that a search can find of it, `outcome` to what
has been told, and files with an entry in `raced` to those of which nothing is promised.

**RetrievalPasses** — the pure part of retrieval, as operators on sequences of points:
`RoundRobin` is `_merge_union_results`, `Eligible` the filters, `WageTop` the re-rank
with `WithBaseline` as `_reserve_baseline_slots`, `Assemble` the final merge with the
primary's reserve. **Retrieval** — `Read` is one concurrent read that comes back,
`Collect` the `gather` and merge of a pass, `Scroll` one page of the rate lookup,
`Finish` the final merge, `Fail` any read that raises, `Ingest` a document deleted or
upserted meanwhile. Similarity is an arbitrary order, one per vector; a question is the
record of what the regular expressions detect in it. That a classification boost
outweighs a location boost, and both any difference of similarity, is what the source
states of its constants (`retrieval.py:346-349`).

**Lists** — what Python's `sorted` and its filtering comprehensions return.

**Extraction**, **Chunking**, **WageForm**, **PageColumns** — the steps of one document,
each translated from one file; **DocumentPath** composes them as `run_pipeline.py` and
`wage_tables.py` do. A document is a sequence of lines with a kind (what the regular
expressions make of it), a name and characters; a chunk's text keeps for each character
the line and column it came from, so that loss, repetition and false citation show.
`ReadPage`, `ReadPipe`, `ReadHeading`, `ReadText`, `EndOfFile` are the branches of
`extract_markdown`, and `ExtractPdf` the printed pages; a step of `ChunkDocument` is one
line, one flush or one cut of the split loop (`Cut`, with `SentenceBoundary` and
`OverlapStart`).
`ParsePage` reads one page of a form into groups and notes, `FallBack` is the exception
that sends the document down the legacy path. `PageMarkdown` is the geometry of
`convert.py` as operators on words and tables, each with its place on the page. Each entry of `Corpus` is an initial
state, and everything after it is deterministic. `CorpusAssumption` says what an entry may
be: strings for lines, pages on which no two words or tables are set over each other, and
forms whose plain text has a body wherever their layout text has one. What a reader sees on
a page is defined apart from what the converter does: a word's row (`Row`), the blanks in it
(`Blanks`), a line across the page (`Crossing`), cards side by side (`Cards`).

**Ingestion** — a file on disk holds nothing, an edition, or `Torn`, the part of one. A
write is one step that is whole or cut short and ends the run; each rename is a step of
its own. `TakeHash`, `Look`, `Convert`, `WriteMd`, `RenameMd`, `WriteSidecar`,
`RenameSidecar`, `Reread` are `convert_pdf` and the read that follows; `Store` takes the
hash anew, as `store_document` does. `Publish`, `PlacePdf`, `RemovePdf` are the publisher
and the operator. `marred` is a history variable: what has happened to a file that the
cache cannot stand.

**CorpusDrift** — `Report` is `build_drift_report` with its pairs and its five sets: the
k-th addition of an identity takes its k-th removal, which is what popping from sorted lists
comes to (`Place`);
`Reissue`, `Rename`, `AddEntry`, `DropEntry`, `Ingest`, `Purge` are the steps of the
runbook; `Publish` changes the page between any two of them.

**WebSession** — a call to `/auth` is a record on its way; `Serve` is the route's answer,
`Deliver` the continuation in the tab, `Lose` the browser giving up, after which the call
may still reach the service. `Refresh` joins the promise in flight. A token is its
session and whether it is spent, so refreshing can go on for ever in finitely many states.
`excused` is a history variable: sessions one of whose refreshes was lost or not alone.

## 3 Runs: what is checked

| Run | Instance | Shows |
|---|---|---|
| `refresh_safety` | 3 token rows, 2 requests | the safety properties and the refinement of LoginSession |
| `refresh_liveness` | 2 token rows, 2 requests, fairness | every request ends, although two revocations can deadlock |
| `refresh_burn_escape` | as `refresh_safety` | **violation**, see section 5 |
| `web_session` | one tab that is closed and opened again, 2 sessions, 1 call of a page that is gone, fairness | only a logout ends a session whose refreshes arrived; a signed-out tab finds out |
| `rate_limiter` | 3 clients, limit 2, 2 buckets, window 2, clock to 6 | rate, fairness of refusals, the newcomer's hit |
| `webhook_sync` | 2 subscriptions of 1 customer, 2 events, 2 deliveries, 2 seconds, fairness | safety, the refinement of EventLedger, every event lands |
| `tier_quota` | 4 queries, 2 at once, an allowance of 3 and 1 row, or 1 query and 3 rows of which 2 are fetched; a month boundary | overshoot, refusals, the paying tenant |
| `retrieval` | 14 chunks, 3 unions, 144 questions, 8 assignments of ranks, 2 ingestions | the window under every combination of passes |
| `document_path` | thirteen families of documents, 710 272 states | nothing lost, limits, tables, citations, rates, words and columns, the split loop |
| `ingestion` | 2 runs, 2 files, 2 editions, 2 command lines | the cache, torn downloads, repair by a rerun |
| `corpus_store` | 2 processes, 2 files, contents of 0, 1 and 2 chunks, 2 document ids; not past the point where runs of both kinds have overlapped on every file, as no invariant speaks of any file there | rows and points under crashes and overlaps, the refinement of Library |
| `corpus_drift` | 5 files, 16 pages | the report, and the store after it is worked off |

Why the bounds are enough:

- *Tokens and requests.* Every refresh-token property speaks of at most two rows and one
  request; the hazards take two overlapping requests and a chain of a parent, a child and
  a rival child. The proofs remove the bound.
- *Web session.* A page that was closed leaves one call behind, which is a second client
  of the cookie; two sessions are the old one and the one a login opens meanwhile. Two
  tabs were explored to fourteen million states without an error, and are too many to
  finish; the proof of `OnlyLogoutEnds` removes the bound, `FindsOut` is for each tab.
- *Rate limiter.* Three clients against two buckets force both kinds of eviction, and six
  ticks hold a window, its boundary and another window. The proofs remove the bound.
- *Webhook.* Two events are enough for a duplicate, a reordering and a race for the row;
  two subscriptions of one customer for the tenant that only the other one names. The
  proofs remove the bound for safety; liveness is per event.
- *Quota.* Two queries that overlap over an allowance of three, with two before them, are
  the fewest that overshoot it and the fewest with which a refusal short of the allowance
  would show: with one place less granted, `FullAllowance` fails. `MaxDay` crosses a month's
  end. One row is enough to start, renew, lapse and be dunned; whether it is the right one of
  several is asked by one query, where three rows of any status against a fetch of two push
  one out (`FewOfEach` names this bound). The proofs remove it.
- *Retrieval.* The limits are scaled so that each can bind with fourteen chunks, keeping
  the relations between the source's limits that `LimitAssumption` names. Among the points
  are an expired agreement, an expired and a future rate table, scoped and nuclear
  agreements, a union without tables and a table without dated rates; the scroll takes
  several pages. The proofs remove the bound.
- *Document path.* The limits are scaled (a chunk of three tokens of two characters, an
  overlap of one token, a search of three characters, a lead of seven, notes of six) so
  that a few characters are cut three times. The families are agreements (articles,
  appendices, sections and tables in any order of up to four lines), the same printed,
  long lines of nine characters (letters, sentence ends and blanks), headed schedules,
  pages in columns (three rows of up to six places), columns under other columns (four rows,
  with and without a line across the page between them), slanted pages, pages with nested,
  touching and narrow tables, sheets of two pages, wage forms, forms of two pages, and rows of
  two to five amounts under every heading. A property of the path speaks of one line and what
  stands before it, so short documents show it; cards need two rows, and two more to be
  spoiled. The proofs remove the bound for all but `ColumnsApart`.
- *Ingestion.* A cache goes wrong by one replaced file and two runs; the file placed by
  hand shows the path that reads the PDF itself. The run does not go past the point where
  the converted file is marred, as nothing is said of it there. The proofs need no such
  limit.
- *Corpus.* Two ids are the fewest with a duplicate; contents of zero, one and two chunks
  shrink, grow and vanish. The proofs remove the bound.
- *Drift.* Three dates of one schedule are the fewest with a pairing that could go wrong;
  one of them is a rename, one is known by its name only, one entry is dead, and a form is
  a schedule to the publisher and a document to the curators. The proofs remove the bound.

`CHECK_DEADLOCK FALSE` is set where the system may stop: the clock of a bounded model
runs out (`rate_limiter`, `tier_quota`) and one question ends (`retrieval`). In
`document_path` it is not: a document that stops short of its chunks is a deadlock.

## 4 Fairness

- `RefreshTokens`: weak fairness of each request's own steps, since a handler that is
  scheduled runs to its next statement. Taking a row lock is strongly fair, because
  PostgreSQL queues the waiters of a lock and a waiter that can keep being overtaken is
  served in the end. `DeadlockVictim` is weakly fair (`deadlock_timeout`): without it two
  revocations that lock the rows of a family in opposite orders wait for ever. Clients are
  not fair: nobody has to log in, refresh or log out.
- `StripeWebhook`: strong fairness, per event, of delivery and of each statement. Stripe
  retries until it hears a 2xx, and failures are taken to be transient: an attempt that
  can be made again and again succeeds in the end. Stripe gives up after days of failures;
  a failure that lasts that long is outside the model.
- `WebSession`: weak fairness of each tab's timer, since a timeout that is set and not
  cleared fires, and of each kind of call of each tab: a call is answered or the browser
  gives it up. The service may refuse every call, and users do nothing in particular.
- `DocumentPath` needs none: `SplitShortens` says that a step that finds text waiting to be
  cut hands a piece over or leaves less of it, and deadlock is checked.
- The other modules have no liveness property: their operations are loops with fixed
  bounds, end with the request, or are started by hand.

## 5 Where the code and its documentation disagree

One is a run whose single property quotes the documentation, and which TLC violates:

- **A family burn can miss a child** (`refresh_burn_escape`). `revoke_family` is said to
  revoke every non-revoked token of the family. Its UPDATE selects from a snapshot: a
  rotation that is not committed when it starts has inserted a child it cannot see. It
  waits for the parent's lock, revokes the parent and leaves the child active. What
  does hold, and is proved, is `AnsweredBurnIsEffective` and `RevocationCoversAncestors`.

The others were met while modelling. No run repeats them; the properties state what holds
instead, and name the exception.

*Billing and quota.* The comparison of `created` timestamps is said to make rows monotonic
(`subscriptions.py:204`). Stripe stamps seconds and the comparison accepts equal ones
(`:238`), so of two events of one second the one delivered last stays. `tier_limit.py:51`
promises exactly the allowance; the count precedes the log row, and `OvershootBounded`
says by how much queries that overlap can exceed it.

*Retrieval.* The enumeration fan-out is to represent every union (`retrieval.py:95`); it
keeps twelve chunks (`:112`, `:1098`) of eighteen unions. The wage pass reserves its last
places for journeyman tables (`:366`, `:430`); the interleave with the provision pass
(`:1196`), which a foreman-premium question always runs, cuts exactly those.

*Corpus store.* FOR UPDATE is to keep two first ingests from inserting twice
(`store.py:108`); it locks rows that exist (`:117`), and both insert.

*Document path.* "Text outside every table survives" is the name of a test
(`tests/test_convert.py:440`), whose tables are as wide as the page; `_page_markdown` leaves out
of the text every word at a table's height (`convert.py:299`, `:308`), so one to the left or
right of a narrow table is in neither. `WordsKept` claims nothing of such a word: it says
that a word no table stands beside is written once and a table's own words never. Chunks are
said never to end inside a sentence (`chunk.py:9`); a sentence longer than the search does. Every piece of a split section carries the section's
first page. `extract_pdf` puts the tables of a page before its text, so they inherit the
section before it. A page of notes whose layout text is blank is not read again
(`epsca_wage_parser.py:495`); rows of rates before any label, and labels after the last
rates, are dropped; a label the parser does not know goes to the notes and its rates to
the group before. The key of narrative articles joins articles of one number. The runbook
speaks of a corridor at least 24 points wide that the lines agree on (`ingestion.md:101`);
each line has to have one, but `_narrow` accepts whatever they have in common, however little
(`convert.py:172`). A page of cards without a line across it and with cards of another corridor
right under them can be written interleaved: the first rows of the lower ones may join the
open band and leave too few for a band of their own. `Cards` asks for a table or a line across
the page between the two.

*Ingestion.* A cache hit does not compare the conversion engine (`convert.py:366`). Two
conversions of one file that overlap while it is replaced, or one of which dies between
the renames, can leave the older text under the newer sidecar. A file that goes back to an
earlier edition can find that edition's sidecar beside a later text. Two downloads of one
file share one `.tmp` name. These are the exceptions of `HitIsFresh`, `RunRepairs` and
`NothingTorn`.

*Drift.* The check compares the page with the manifest only, so an ingest that failed or
a purge that was skipped is not seen again. `WorkedOffIsCurrent` therefore rests on a
purge by the name the row has (`ingestion.md:143`), on downloads that succeed, and on no
file being placed over one that is there.

*Web session.* A refresh in flight when the user logs out puts an access token back into
the client (`api-client.ts:130`), for its lifetime. A reload, or a second tab, while a
refresh travels presents the old cookie, which the service takes for a replay, and the
session is closed, although `auth.tsx:6` says sessions survive page loads. A mount's
refresh that fails after a login has succeeded clears the new cookie, signs the page out
and leaves its timer. A logout that is lost leaves cookie and session in place while
the page shows it is signed out. `OnlyLogoutEnds` excepts sessions one of whose refreshes
was lost or not alone; `FindsOut` holds without exception.

## 6 What is proved

For every value of the constants, by TLAPS, from the assumptions that the modules state on
their constants and TLC evaluates: `NoneIsApart`, `LimiterAssumption`, `WebhookAssumption`,
`QuotaAssumption`, `CorpusAssumption` with `OutcomeAssumption`, `IngestionAssumption`,
`SessionAssumption`, `DriftAssumption`, `LimitAssumption` with `RetrievalAssumption`, and,
for documents, `LimitsAssumption`, `NotesAssumption`, `GeometryAssumption` and the
`CorpusAssumption` of `DocumentPath`. They ask that numbers are numbers, that the
finite things (queries, file names, chunks) are finite, that a value for "none" is no other
value, and, of the limits, the relations the source's own have (an overlap shorter than a
chunk, a reserve inside the window). In nine of the ten modelled parts every safety property
that a run checks is proved, and of the tenth, the document path, seven of the eight. Type
correctness of all ten, `MemoryBound`, `BaseStays`, `TenantIsKnown`, `AppliedOnceInOrder` (a part of
`ImplementsLedger`) and `StatusOnlyAdvances` are proved too, and no run repeats them. Every
inductive invariant was model-checked on the run's instance before it was proved.

**SessionProofs**, of `RefreshTokens` — `TypeCorrect`, `OneActive`, `OneSuccessor`, `SpentAndReplaced`,
`AncestorsRevoked`, `BurnEffective`, `Advances`, and `Refinement` (every behaviour
implements LoginSession). None of the properties is inductive by itself. `IInv` adds what
a rotation holds between `mark_rotated` and its commit (the parent's lock, over a row that
is still active), that an uncommitted child is nobody else's, and that the rows a
revocation selected are closed under parents up to rows already revoked, so that what it
revokes has no unrevoked ancestor. For the refinement, a commit of a rotation is `Renew`,
the commit of a revocation that takes the usable row is `Close`, and everything else
stutters.

*Of `WebSession`* — `WebTypeCorrect`, `OnlyByLogout`. A token that travels back in an
answer is nowhere else (`InTransit`); so the cookie is spent only while the answer that
will replace it is on its way to a tab (`Awaited`), whoever asks meanwhile waits for that
answer or is noted in `excused` (`Alone`, `Noted`), and no call that has yet to be served
bears a spent token (`Unspent`). This is proved for any number of tabs; TLC can finish one.

**TenantProofs**, of `RateLimiter` — `LimiterTypeCorrect`, `BoundedMemory`, `BoundedRate`, `FairRefusal`,
`Newcomer`. The invariant ties the deque to the history of admitted hits: the deque is
the history's tail, and what it has dropped has aged out of the window. `Newcomer` rests
on the order of the sweep: a call sweeps only when its key is new to the full dict; then
every other key was inserted before it and was last seen no later, and one of them goes
instead.

*Of `StripeWebhook`* — `WebhookTypeCorrect`, `NothingLost`, `NoGuessing`, `OnceInOrder`,
`Refinement` (EventLedger). Two facts carry them: an uncommitted claim is its delivery's
alone, and the judgement a delivery made on a row stays true until it commits because it
holds the row.

*Of `TierQuota`* — `TypeCorrect`, `NoneShortChanged`, `SmallOvershoot`,
`PayingServed`. `NoneShortChanged` compares two days of a query that the code keeps apart: it
is asked on one and logged, and so counted, on another. Those counted in a period but asked
before it (`Crossing`) were all being handled when the period began, hence no more than the
requests handled at once, and none joins them later (`FewCross`); what else was counted was
asked within the period. The overshoot is an argument by counting: when a query is let through,
those admitted to its period before it are lost, or in flight and hold a slot each
(`InSlots`), or logged; and the logged ones are among those it has just counted, because a
query counts from the start of its period and no row is older than the period it was
admitted for (`Counting`, and `Begun`: no period starts in the future). `PayingServed` rests
on the order of the fetch: if a row that entitles is pushed out, the rows before it fill the
fetch and are candidates all.

**IngestionProofs** — `TypeCorrect`, `WholeDownloads`, `FreshHits`, `Repaired`. While no
two runs were at a file at once, its `.tmp` files are their writer's (`Apart`, `Saved`),
and the cache moves forward only (`Forward`, `Cached`): the edition the sidecar records is
never later than the one the Markdown was converted from, and that one never later than
the newest there has been. A hit is a sidecar that equals the file, so all three are equal.
What a run holds at each step of a conversion is `Carried`. `TypeCorrect` leaves out
`todo`, the queue of a run, which `SelectSeq` cuts from the manifest by a recursion.
The first attempt failed for a good reason: after two runs have torn a file twice, its
hash is that of *a* torn file, and nothing can be said of a hit. `HitIsFresh` and
`RunRepairs` now speak of whole files (`Whole`), which is when the program gets to look.

**CorpusProofs** is about the two modules of the corpus.

*Of `CorpusStore`* — `TypeCorrect`, `OneRow`, `Unorphaned`, `Whole`, `CleanRuns`,
`Refinement` (Library). While two runs of
a file have not overlapped (`raced`), the processes on it are apart, and each property
needs only what its one run is in the middle of: a store that found no row is right to
insert one (`Inserting`); a store's row stays until its points are written, and a purge
that is about to delete a row has left no points (`Relied`); a store that is about to
write points writes into nothing (`Cleared`). The other processes disturb none of this,
since they would have to be on the same file. A row is lost only by a purge that has it at
hand, points appear only by an upsert, and both name the file the id was inserted under.
`CleanRuns` follows a run to its end: a store has listed every row there is (`Listed`), has
written the one it goes on with (`Written`), and a file no run is at stays as the last one
left it (`Quiet`). For the refinement, deleting the points of the one document that has any
is `Vanish` and an upsert is `Appear`; deletions that find nothing and everything done to
the rows stutter.

*Of `CorpusDrift`* — `DriftTypeCorrect`, `Accounts`, `WorkedOff`. `Accounts` is about
`build_drift_report` alone: the files of one identity have the places 0, 1, 2, ... in the
order of their names (`PlacesDiffer`, `PlacesFilled`), so that pairing by place pairs each
file once and leaves one side empty. `WorkedOff` needs that a link and a local name have
one entry each (`Linked`, `Named`), that contents on disk and in the store are those of
the name they are kept under (`Stocked`), that the open items speak of different files
(`Open`) and are the differences that are left (`Accounted`), and that what is stored and
what has an entry differ by the work still listed (`ToIngest`, `Held`). Proving it showed a
bound the model had left unsaid: with two local names for a file, a third rename of the same
content would have taken a name in use. `Nameable` says so, and a curator who has no name
left files nothing.

**RetrievalProofs** — `TypeCorrect`, `WindowIsSound`, `ReserveIsKept`, `EveryPassHeard`,
`RateIsExact`, `OrderDoesNotMatter`. `IInv` follows a question: the passes it has asked for
are those it implies and are done in order (`Asking`, `Remaining`); each read that is back
holds what the store had at that moment (`HitsSound`), and on a store that stood still what
it has now; the scroll has looked at everything up to its cursor and kept the matches
(`ScanSound`); the primary and the leading results are made of such reads and keep their
sizes (`PrimarySound`, `LeadingSound`), and the window is their merge (`Merging`). The
lemmas it rests on say what the merges return: a round robin keeps the head of every list,
deduplication keeps the first of each, the reserve cuts the leading results and never the
primary's. That the order of concurrent reads does not matter follows from each read of a
still store having one possible answer. `PinnedIsExact` and `ReadsAsOne` are stated for
tables within the scroll's cap, as the lookup gives up beyond it.

**DocumentPathProofs** — `TypeCorrect`, `NothingLostAlways`, `WithinLimitAlways`,
`SplitShortensAlways`, `WordsKeptAlways`. `IInv` has three parts. `TypeInv` says besides the types that readers, chunker and form parser work
one after the other (`InTurn`), that what is pending is a run of pipe lines or text and never
both (`Pending`), that the chunker is at a line there is (`AtBlock`), and that the chunks of a
form are those of the pages read (`FormRead`).
`NothingDropped` is what `NothingLost` becomes halfway: a line that was read is pending, in
a block the chunker has yet to reach, in its buffer, or every character of it is in the
queue or in a chunk; for a form, it is in the notes of a page. `TextCut` is the limit of the
chunks there are. A step of a reader adds blocks that hold what was pending and drops
separators and blank lines only (`Reads`); a step of the chunker takes one line from before
it to the buffer, or what was in the buffer to the queue (`Passes`); a cut leaves in the
remainder what it did not put in a chunk, and leaves less than there was, because the
overlap starts after the first character of the piece (`Remains`, `CutInside`). The
conversion of a page is proved to produce a document (`ConvertedType`), and that a page of a
form whose body can be seen is read from a layer that shows it (`BodyIsRead`) is where the
two readings of a page meet.

`WordsKeptAlways` follows the words of a page through `convert.py`, and says at each stage
that no word is in two places and that the phrases among its words are whole (`Neat`). The
words fall into lines, each from the left, with the words of a phrase side by side
(`LinePhrased`); the lines fall into bands, and a band with a gutter has no phrase across it,
as the gutter lies within a gap of each of its lines (`SoundBand`, `Banded`), so that each of
its columns is neat and so are both (`ColumnNeat`, `RenderedNeat`); the parts of a page share
no word, because the boundary that the tables push down never goes back (`Reach`,
`TakenNext`), and what is left out is at the height of a table (`Spared`). The lines of a page
are then numbered through the document (`PagesFrom`), and a place in it is a place on the
page (`PlacesAre`).

**ChunkProofs** — `TablesWholeAlways`, `CitationsTrueAlways`, `RatesTrueAlways`: that a
document is in its chunks is one thing, that they say of it what it says another. For the
tables the invariant goes on with `TablesKept`, which says where each one is. While
the reader works, the pending rows are the pipe lines just read from the first of their run
(`RowsPending`), and every table begun before them is one block that has its rows, with no
line of it in another block (`BlockOf`). When the reader is done that block is before the
chunker, or its rows are one piece of the queue, or one chunk, and no other piece or chunk
has a line of them (`Placed`, `Sole`), nor has the buffer (`Clear`). `Sole` also asks that
each line of the table has a character that is no blank, or stripping a piece could lose it.
A run of pipe lines is closed by the line after it (`RunBetween`, `FlushReads`), and a block
of text has no line of a table because its lines are no pipe lines; a table is emitted with
the buffer before it and never cut, as only text over the limit is (`TableThrough`,
`CutThrough`).

For the citations it goes on with `CitationsKept`. Blocks come in the order of the document,
every heading and section line in a block of text and each table between the texts around it
(`InSequence`, `Upright`, `AllInOrder`, `TextRead`); the tables of a page read from its PDF
come before the page's text, and the property excepts them. So the context the chunker
carries is what the document says of the line it has reached, which a heading turns and a
section line refines (`ContextTrue`, `Reached`, `Turning`), and the buffer is a run of lines
under it, section after section (`Gathered`, `SectionsCover`). A piece is therefore cited
for what all its lines stand under (`PieceCited`), and a cut takes lines away and adds none
(`LessCited`). The text before a table comes from a second pass, which works the context out
anew over all the text; that it says of every line what the document does is `NarrativeIs`,
and that the first character left of a stripped table is of its first row is `TableHead`.

For the rates it goes on with `FormKept`: the pages parsed are pages of the document, each
once, and one whose body the parser sees is not left out (`ReadFrom`); none has a line of
another (`OfPage`), and on a page of rates each line of rates is in the one group that has the
labels it stands under, or in none if there are none (`RatesRead`). A page is read in one
step, so what the parser knows half way down it is an invariant of that step's recursion
(`SheetAt`): the labels it holds are those after the last group (`OwnAt`), its apprentice
label is the last one so far, its rates are those printed since the last label, and every
rate before that is settled. A label closes the group above it with the parent that stood
over it (`SheetLabel`, `FlushSettles`). A chunk has the lines of its group and no others,
because a label and a line of rates are never blank (`LinesJoined`, `GroupLines`), so a line
that one group of one page has is in one chunk of the form (`PageHolds`, `FlattenOnce`). What
the amounts are called needs no history: the names are a function of the amounts and the
heading, and the number of names left to the right of the total is the number of amounts
left there (`ColumnsCalled`).

**ListLemmas** — what the operators of `Lists` and `FlattenSeq` return, with induction and
recursion stated on sets of numbers, so that what a recursive function computes can be
followed step by step; the proofs about retrieval and documents rest on it.

*Model-checked only.* Liveness (`EveryRequestEnds`, `EveryEventLands`, `FindsOut`), as
liveness under fairness and ENABLED are beyond TLAPS. Of the document path `ColumnsApart`:
that every word is written once is proved, but not that the cards of a page end up in one
band, which depends on the gutters of all the lines above them.
The type of Ingestion's `todo`, the queue of a run, which `SelectSeq` cuts from the
manifest: the library's definition takes an operator, which the provers cannot instantiate.

## 7 What is not modelled

- *Patterns*: the regular expressions of preprocessing, extraction, chunking and the wage
  parser. What a line or a question is, by them, is part of the input. Context formatting
  and citation extraction are text around one call.
- *Language models and embeddings*: a call to one is a step that may fail; similarity is
  an arbitrary rank. Classification is a lookup by file name.
- *Checkout and portal*: a session is made under an idempotency key of tenant and price
  while its parameters depend on the stored customer. What happens when they differ is
  Stripe's to decide.
- *Chat history, query history, documents page*: pure budgets and single SELECTs.
- *Backup and restore*: shell around dumps of two services. The dump and the snapshot are
  taken at two moments; what a restored pair is to promise is stated nowhere.
- *Cryptography and identity*: hashing and signing. An access token is checked
  statelessly and outlives a logout by its lifetime.
- *The connection pool*: a semaphore of ten which no request holds twice, since every
  `acquire` is released before the next one.
- *Operator scripts, evaluation, migrations, containers, CI*: no shared state at run
  time. `create_user.py` checks the user limit and inserts in two statements; it is run by
  hand by one operator.
- *Payload and wording*: names, titles and messages, unless a property is about them.

In the modelled parts: `revoke_all_for_user` has no caller and is left out; a rate limit
of zero or less returns before any state is touched; the dry run of a purge changes
nothing; a corpus beyond the scroll cap of 2000 tables is outside `PinnedIsExact` and `ReadsAsOne`; the
header fields of a wage form and the sentences its chunks are worded in are left out. Where a
step of a model is coarser or narrower than the code:

- *Sessions.* `Login` reads `is_active` (`service.py:64-75`) and inserts the row (`:88-101`) in
  one step; an account switched off between the two is not modelled, and no property speaks of
  it. In `WebSession` a refusal leaves the cookie; for an inactive user the route clears it and
  the session stays open (`routes/auth.py:188-192`). An answer is lost as a whole: a cookie that
  arrives without the body (`api-client.ts:129`) is not modelled.
- *Webhook.* Event types that are acknowledged without a ledger row (`billing.py:226-228`) and a
  tenant that does not exist are left out: neither writes anything.
- *Quota.* A row the webhook writes has a period start, and all carry one limit; rows without a
  start are those provisioned by hand. An answer is logged on the day its row is written.
- *Corpus store.* A call to Qdrant (`store.py:283-296`) takes effect as a whole, and before its
  caller hears of it or dies; one that takes effect after the client has given up is not modelled.
- *Retrieval.* A page of the scroll starts after the last id read, Qdrant's offset is the next
  page's first; the two differ only if ingestion moves points in between, of which nothing is
  claimed. What boosts a classification, alias or pattern, is one predicate.
- *Documents.* The form parser gives up for want of rates; `run_pipeline.py:201` catches any
  error of that path, to the same effect.
- *Ingestion.* An entry takes one path (`ReadPdf`): a wage entry with a `conversion_engine` reads the PDF
  first and turns to the cache only when the parser gives up (`run_pipeline.py:198-208`).
- *Drift.* The publisher does not change a file under the name it has, which the check cannot
  see; an operator purges a document that was withdrawn as well as one that was reissued, while
  the runbook (`ingestion.md:141-185`) names a purge for reissues and renames only.

## 8 Plan

Done, in this order: refresh tokens (the protocol with the most interleavings), the rate
limiter, the webhook, the quota, the corpus store, retrieval; then the document path,
ingestion, drift and the web session.

Proved, in this order: refresh tokens, the rate limiter, the webhook, the corpus store;
then the quota, ingestion, the web session, drift and what was left of the corpus store;
then retrieval, and loss, limits, the split loop, the tables, the citations, the rates and the
words of converted pages of the document path.

Next:

1. `ColumnsApart`: what a band is after the lines of a page down to a card's first, inside it
   and after it, and that a part of a page is a stretch of the document.
2. An *allowance* that TierQuota implements up to the overshoot.
