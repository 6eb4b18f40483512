----------------------------- MODULE CorpusDrift ----------------------------
(***************************************************************************)
(* Keeping the corpus up with the publisher: the monthly drift check       *)
(* (services/ingestion/check_corpus_drift.py) and the flow that works its  *)
(* report off (docs/runbooks/ingestion.md:134-189): the manifest is        *)
(* edited, the changed documents are ingested by name, superseded ones are *)
(* purged by name.  A document has two names, the publisher's, in its      *)
(* link, and the local one, which curators may choose.  A script run by    *)
(* the operator is one step here; Ingestion and CorpusStore take the runs  *)
(* apart.                                                                  *)
(***************************************************************************)
EXTENDS Integers, FiniteSets, Functions

CONSTANTS File,       \* file names of the publisher
          Rank,       \* their order as text
          Identity,   \* what is left of a name without its date
          Agreement,  \* those that name themselves agreements
          Filed,      \* the document_type curators give a file
          Content,    \* what a file says: an upstream rename leaves it alone
          Pages,      \* bound of the model: pages the publisher may show
          NoFile      \* no name

ASSUME DriftAssumption ==
    /\ IsFiniteSet(File)
    /\ Rank \in [File -> Nat] /\ IsInjective(Rank)
    /\ Agreement \subseteq File
    /\ DOMAIN Identity = File /\ DOMAIN Content = File
    /\ Filed \in [File -> {"wage_schedule", "other"}]
    /\ NoFile \notin File
    /\ \A page \in Pages :
        /\ page.wage \subseteq
               [linked : BOOLEAN, param : File \cup {NoFile}, name : File \cup {NoFile}]
        /\ page.links \subseteq File

\* Curators use the publisher's name, or one of their own for it.
Local == File \X {"own", "chosen"}

VARIABLES
    page,      \* what epsca.org shows: the wageSchedules object and the links
    manifest,  \* corpus_manifest.yaml: [url, local, type] of each document
    corpus,    \* corpus/: the content of each PDF, by local name
    stored,    \* stored documents: the content of each, by local name
    report,    \* items of the last report that are not worked off
    ingest,    \* local names the update has to ingest
    purge,     \* local names it has to purge
    current    \* history: the page has not changed since it was checked

driftVars == <<page, manifest, corpus, stored, report, ingest, purge, current>>

Types == {"wage_schedule", "other"}
Entry == [url : File \cup {NoFile}, local : Local, type : Types]
Contents == {Content[f] : f \in File}
Kinds == {"reissued", "new_wage", "removed_wage", "new_other", "removed_other"}
Item == [kind : Kinds, old : File \cup {NoFile}, new : File \cup {NoFile}]

DriftTypeOK ==
    /\ page \in Pages
    /\ manifest \subseteq Entry
    /\ DOMAIN corpus \subseteq Local /\ Range(corpus) \subseteq Contents
    /\ DOMAIN stored \subseteq Local /\ Range(stored) \subseteq Contents
    /\ report \subseteq Item
    /\ ingest \subseteq Local /\ purge \subseteq Local
    /\ current \in BOOLEAN

-----------------------------------------------------------------------------
(* What the check reads                                                    *)

\* site_filename_from_url, else the name that stands beside it
FilenameOf(entry) == IF entry.param # NoFile THEN entry.param ELSE entry.name

\* parse_wage_schedules: entries without a link or without any name are passed over.
RemoteWage(p) == {FilenameOf(entry) : entry \in {e \in p.wage : e.linked}} \ {NoFile}

\* parse_resource_links: forms that are no agreements are out of scope.
RemoteOther(p) == (p.links \cap Agreement) \ RemoteWage(p)

\* Faulty form: entries are known by the name they have on disk.
TrackedByLocalName(types) ==
    {entry.local[1] : entry \in {e \in manifest : e.type \in types /\ e.url # NoFile}}

\* load_manifest_filenames: entries are known by the name in their link.
Tracked(types) == {entry.url : entry \in {e \in manifest : e.type \in types}} \ {NoFile}

-----------------------------------------------------------------------------
(* build_drift_report                                                      *)

\* How many files of the same identity come before a file in order of name.
Place(f, files) == Cardinality({g \in files : Identity[g] = Identity[f] /\ Rank[g] < Rank[f]})

\* Faulty form: each bucket is compared with its own.
AddedByBucket == RemoteWage(page) \ Tracked({"wage_schedule"})

Added == RemoteWage(page) \ Tracked(Types)
Removed == Tracked({"wage_schedule"}) \ (RemoteWage(page) \cup RemoteOther(page))

\* The k-th addition of an identity takes its k-th removal, in order of name.
Pairs ==
    {pair \in Removed \X Added :
        /\ Identity[pair[1]] = Identity[pair[2]]
        /\ Place(pair[1], Removed) = Place(pair[2], Added)}

Entries(kind, olds, news) == [kind : {kind}, old : olds, new : news]

Report ==
    LET remote == RemoteWage(page) \cup RemoteOther(page)
    IN  {[kind |-> "reissued", old |-> pair[1], new |-> pair[2]] : pair \in Pairs}
        \cup Entries("new_wage", {NoFile}, Added \ {pair[2] : pair \in Pairs})
        \cup Entries("removed_wage", Removed \ {pair[1] : pair \in Pairs}, {NoFile})
        \cup Entries("new_other", {NoFile}, RemoteOther(page) \ Tracked(Types))
        \cup Entries("removed_other", Tracked({"other"}) \ remote, {NoFile})

HasDrift == Report # {}

-----------------------------------------------------------------------------
DriftInit ==
    /\ page \in Pages
    /\ manifest = {}
    /\ corpus = <<>> /\ stored = <<>>
    /\ report = {} /\ ingest = {} /\ purge = {}
    /\ current = FALSE

\* The publisher changes what the page shows.
Publish(p) ==
    /\ page' = p
    /\ current' = FALSE
    /\ UNCHANGED <<manifest, corpus, stored, report, ingest, purge>>

\* check_drift, once the last report is worked off
Check ==
    /\ report = {} /\ ingest = {} /\ purge = {}
    /\ report' = Report
    /\ current' = TRUE
    /\ UNCHANGED <<page, manifest, corpus, stored, ingest, purge>>

\* A local name is used once, and not before what it named is purged; a curator who has no
\* name left for a file does not file it (a bound of the model).
Taken(l) == l \in purge \/ \E e \in manifest : e.local = l
LocalFor(f) == IF Taken(<<f, "own">>) THEN <<f, "chosen">> ELSE <<f, "own">>
Nameable(f) == ~Taken(LocalFor(f))
EntriesOf(item) == {e \in manifest : e.url = item.old}

\* Step 1 of the runbook, reissue: link and source_filename change.
Reissue(item) ==
    /\ item \in report /\ item.kind = "reissued" /\ Nameable(item.new)
    /\ \E e \in EntriesOf(item) :
         LET new == LocalFor(item.new)
         IN  /\ manifest' = (manifest \ {e}) \cup {[e EXCEPT !.url = item.new, !.local = new]}
             /\ ingest' = ingest \cup {new}
             /\ purge' = purge \cup {e.local}
    /\ report' = report \ {item}
    /\ UNCHANGED <<page, corpus, stored, current>>

\* Step 1, rename of the same content: the link changes, source_filename is kept.
Rename(item) ==
    /\ item \in report /\ item.kind = "reissued"
    /\ Content[item.old] = Content[item.new]
    /\ \E e \in EntriesOf(item) :
         /\ manifest' = (manifest \ {e}) \cup {[e EXCEPT !.url = item.new]}
         /\ ingest' = ingest \cup {e.local}
    /\ report' = report \ {item}
    /\ UNCHANGED <<page, corpus, stored, purge, current>>

\* A document that is new gets an entry.
AddEntry(item) ==
    /\ item \in report /\ item.kind \in {"new_wage", "new_other"} /\ Nameable(item.new)
    /\ manifest' = manifest \cup
           {[url |-> item.new, local |-> LocalFor(item.new), type |-> Filed[item.new]]}
    /\ ingest' = ingest \cup {LocalFor(item.new)}
    /\ report' = report \ {item}
    /\ UNCHANGED <<page, corpus, stored, purge, current>>

\* The entry of a document that is gone goes, and its rows with it.
DropEntry(item) ==
    /\ item \in report /\ item.kind \in {"removed_wage", "removed_other"}
    /\ manifest' = manifest \ EntriesOf(item)
    /\ purge' = purge \cup {e.local : e \in EntriesOf(item)}
    /\ report' = report \ {item}
    /\ UNCHANGED <<page, corpus, stored, ingest, current>>

\* What is missing in corpus/ is downloaded.
Downloaded ==
    LET missing == {e \in manifest : e.url # NoFile /\ e.local \notin DOMAIN corpus}
    IN  [l \in DOMAIN corpus \cup {e.local : e \in missing} |->
            IF l \in DOMAIN corpus THEN corpus[l]
            ELSE Content[(CHOOSE e \in missing : e.local = l).url]]

\* Step 2: run_pipeline --source-filename ...
Ingest ==
    LET onDisk == Downloaded
    IN  /\ report = {} /\ ingest # {}
        /\ corpus' = onDisk
        /\ stored' = [l \in DOMAIN stored \cup (ingest \cap DOMAIN onDisk) |->
                       IF l \in ingest THEN onDisk[l] ELSE stored[l]]
        /\ ingest' = {}
        /\ UNCHANGED <<page, manifest, report, purge, current>>

\* Step 3: purge_documents, by old source_filename.
Purge ==
    /\ report = {} /\ ingest = {} /\ purge # {}
    /\ stored' = Restrict(stored, DOMAIN stored \ purge)
    /\ purge' = {}
    /\ UNCHANGED <<page, manifest, corpus, report, ingest, current>>

DriftNext ==
    \/ \E p \in Pages : Publish(p)
    \/ Check \/ Ingest \/ Purge
    \/ \E item \in report : Reissue(item) \/ Rename(item) \/ AddEntry(item) \/ DropEntry(item)

DriftSpec == DriftInit /\ [][DriftNext]_driftVars

-----------------------------------------------------------------------------
(* Properties                                                              *)

Advertised == RemoteWage(page) \cup RemoteOther(page)

\* The report accounts for every difference and for nothing else: a file only one side
\* knows is in exactly one item, a file both know is in none, whichever bucket each
\* files it under (#179), and no schedule is left as both new and removed
\* (check_corpus_drift.py:228-282).
DriftAccounted ==
    LET items == Report
        news == Advertised \ Tracked(Types)
        olds == Tracked(Types) \ Advertised
        With(f, end) == Cardinality({item \in items : item[end] = f})
    IN  /\ \A f \in File :
             /\ With(f, "new") = IF f \in news THEN 1 ELSE 0
             /\ With(f, "old") = IF f \in olds THEN 1 ELSE 0
        /\ \A a, b \in items :
             /\ a.kind = "reissued" => Identity[a.old] = Identity[a.new]
             /\ a.kind = "new_wage" /\ b.kind = "removed_wage" =>
                  Identity[a.new] # Identity[b.old]

\* Once a report is worked off along the runbook, and if the page has not changed
\* meanwhile, the check is clean and the store holds what the page shows and nothing
\* that was superseded, over any history of reissues, renames and withdrawals.
WorkedOffIsCurrent ==
    current /\ report = {} /\ ingest = {} /\ purge = {} =>
        /\ ~HasDrift
        /\ Range(stored) = {Content[f] : f \in Advertised}
=============================================================================
