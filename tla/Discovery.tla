----------------------------- MODULE Discovery -----------------------------
(***************************************************************************)
(* How an owner's documents are found: the exact search projection, the    *)
(* taxonomy of the terms that public documents name, and the change feed.  *)
(* A write of a document is one transaction that brings both projections   *)
(* and the feed along; the operator rebuilds a projection while the API    *)
(* runs; a reader takes several statements, each of which sees what is     *)
(* committed, and compares revisions.                                      *)
(*                                                                         *)
(* A document of schema 2 names one skill, under some label, and one work  *)
(* mode, which has one label: the two terms come and go together, and one  *)
(* state stands for the taxonomies.  The text of a document is its         *)
(* version, and results are ordered by it.  A search asks for the          *)
(* documents that name the skill, those that name the work mode, or for    *)
(* all.  Two waits of transactions for one another, which the database     *)
(* ends by aborting one, are left out: the one aborted leaves nothing.     *)
(***************************************************************************)
EXTENDS Naturals, Sequences, FiniteSets, SequencesExt

CONSTANTS
    Docs,           \* documents of one owner, numbers
    Labels,         \* labels a document can give the skill
    Slots,          \* writes that can be open at one time
    None,
    MaxWrites,      \* bound: writes
    MaxBackfills,   \* bound: backfills begun
    MaxReads        \* bound: searches begun and polls of the feed

VARIABLES
    docs,           \* Document rows: version, visibility, label (None in schema 1)
    snapshot,       \* PublicExactSearchDocumentSnapshot: the version projected, or 0
    exact,          \* PublicExactSearchProjectionState
    membership,     \* PublicTaxonomyDocumentSnapshot with its memberships
    term,           \* the label of the PublicTaxonomyTerm, "conflict", or None
    taxonomy,       \* PublicTaxonomyProjectionState
    events,         \* ChangeEvent.sequence of the events that are committed
    sequence,       \* the sequence's last value
    tx,             \* the open write of each slot
    exactJob, taxonomyJob,  \* the operator's backfills
    search, cursor, walk,   \* a client's search, its cursor, and the pages up to it
    feed,           \* a follower of the feed: its cursor and what it was sent
    runs, reads

docVars == <<docs, events, sequence, tx>>
exactVars == <<snapshot, exact, exactJob>>
taxonomyVars == <<membership, term, taxonomy, taxonomyJob>>
searchVars == <<search, cursor, walk>>
readerVars == <<feed, reads, runs>>
vars == <<docVars, exactVars, taxonomyVars, searchVars, readerVars>>

Versions == 1..(MaxWrites + 1)
TermLabels == Labels \cup {"conflict", None}

Document == [version: Versions, public: BOOLEAN, label: Labels \cup {None}]
ProjectionState == [revision: Nat, status: {"building", "ready", "failed"}]
Membership == [version: Versions, label: Labels]
Write ==
    [doc: Docs, row: Document \cup {None}, at: {"begun", "taxonomy"}, seq: 1..MaxWrites,
     affects: BOOLEAN, bump: BOOLEAN, term: TermLabels]

Digest == [Docs -> Labels \cup {None}]
Snapshots == [Docs -> 0..(MaxWrites + 1)]
SomeMemberships == UNION {[some -> Membership \cup {None}] : some \in SUBSET Docs}
ExactJob == [at: {"building"}] \cup [at: {"rebuilt"}, rows: Snapshots]
TaxonomyJob ==
    [at: {"read"}, revision: Nat]
        \cup [at: {"digested", "building"}, revision: Nat, before: Digest]
        \cup [at: {"rebuilt"}, revision: Nat, before: Digest, rows: SomeMemberships,
              term: TermLabels, touched: BOOLEAN]

ASSUME DiscoveryAssumption ==
    /\ IsFiniteSet(Docs) /\ Docs \subseteq Nat
    /\ None \notin Labels \cup Document \cup Membership
    /\ MaxWrites \in Nat /\ MaxBackfills \in Nat /\ MaxReads \in Nat

\* The rows, the writes and the backfills.
RowsTypeOK ==
    /\ docs \in [Docs -> Document \cup {None}]
    /\ snapshot \in Snapshots
    /\ membership \in [Docs -> Membership \cup {None}]
    /\ term \in TermLabels
    /\ exact \in ProjectionState /\ taxonomy \in ProjectionState
    /\ sequence \in 0..MaxWrites /\ events \subseteq 1..sequence
    /\ tx \in [Slots -> Write \cup {None}]
    /\ exactJob \in ExactJob \cup {None}
    /\ taxonomyJob \in TaxonomyJob \cup {None}

TypeOK ==
    /\ RowsTypeOK
    /\ walk \in Seq(Docs)
    /\ feed.cursor \in 0..sequence /\ feed.sent \subseteq events

-----------------------------------------------------------------------------
(* What the projections are made of *)

Public(d) == docs[d] # None /\ docs[d].public

\* _snapshot_values
Projected(row) == IF row # None /\ row.public THEN row.version ELSE 0

\* _reference_entries and the snapshot of a public document of schema 2
Entries(row) ==
    IF row # None /\ row.public /\ row.label # None
    THEN [version |-> row.version, label |-> row.label] ELSE None

\* _recalculate_terms: a term nobody names is deleted.
Aggregate(rows) ==
    LET labels == {rows[d].label : d \in {e \in Docs : rows[e] # None}} IN
    CASE labels = {} -> None
      [] Cardinality(labels) = 1 -> CHOOSE l \in labels : TRUE
      [] OTHER -> "conflict"

\* Some documents, whatever the version they start in, after a backfill of
\* each projection.
Init ==
    /\ docs \in [Docs -> {None} \cup {[version |-> 1, public |-> TRUE, label |-> l] : l \in Labels \cup {None}}]
    /\ snapshot = [d \in Docs |-> Projected(docs[d])]
    /\ membership = [d \in Docs |-> Entries(docs[d])]
    /\ term = Aggregate(membership)
    /\ exact = [revision |-> 1, status |-> "ready"]
    /\ taxonomy = [revision |-> 1, status |-> "ready"]
    /\ events = {} /\ sequence = 0
    /\ tx = [s \in Slots |-> None]
    /\ exactJob = None /\ taxonomyJob = None
    /\ search = None /\ cursor = None /\ walk = <<>>
    /\ feed = [cursor |-> 0, sent |-> {}]
    /\ runs = 0 /\ reads = 0

-----------------------------------------------------------------------------
(* Locks *)

At(s, stage) == tx[s] # None /\ tx[s].at = stage

\* The write touches the term: it named it, or will.
Affected(s) == membership[tx[s].doc] # None \/ Entries(tx[s].row) # None

TaxonomyLocked == \E s \in Slots : At(s, "taxonomy") /\ tx[s].affects

NoExactLock == FALSE            \* mutant: the exact state is read without FOR UPDATE

\* The row lock of the exact state, which the rebuild keeps; a write takes it
\* last and commits.
ExactLocked == exactJob # None /\ exactJob.at = "rebuilt"

\* The rebuild of the taxonomy has deleted and written the term's row.
TermRowsLocked == taxonomyJob # None /\ taxonomyJob.at = "rebuilt" /\ taxonomyJob.touched

DocLocked(d) ==
    \/ \E s \in Slots : tx[s] # None /\ tx[s].doc = d
    \/ taxonomyJob # None /\ taxonomyJob.at = "rebuilt" /\ Public(d)

-----------------------------------------------------------------------------
(* A write of a document *)

\* create, update (row is the next version) or an erasure (row is None), up to
\* the first lock: the row is locked, the event has its place in the feed, and
\* replace_document_projection saw the taxonomy ready where it asks.
BeginWrite(s, d, row) ==
    /\ tx[s] = None /\ sequence < MaxWrites /\ ~DocLocked(d)
    /\ row # None \/ docs[d] # None
    /\ Entries(row) # None => taxonomy.status = "ready"
    /\ sequence' = sequence + 1
    /\ tx' = [tx EXCEPT ![s] =
            [doc |-> d, row |-> row, at |-> "begun", seq |-> sequence + 1, affects |-> FALSE, bump |-> FALSE, term |-> None]]
    /\ UNCHANGED <<docs, events, exactVars, taxonomyVars, searchVars, readerVars>>

\* The row a client asks for.  The label in a private document is projected
\* nowhere.
NextRow(d, public, label) ==
    [version |-> IF docs[d] = None THEN 1 ELSE docs[d].version + 1, public |-> public, label |-> label]

\* replace_document_projection: the revision moves when the aggregates of the
\* terms it named, or names now, do; `before' has only those it named.
ProjectTaxonomy(s) ==
    LET d == tx[s].doc
        after == Aggregate([membership EXCEPT ![d] = Entries(tx[s].row)])
        before == IF membership[d] = None THEN None ELSE term
    IN
    /\ At(s, "begun")
    /\ Affected(s) => ~TaxonomyLocked /\ ~TermRowsLocked
    /\ tx' = [tx EXCEPT ![s].at = "taxonomy", ![s].affects = Affected(s),
                        ![s].term = after,
                        ![s].bump = Affected(s) /\ before # after /\ taxonomy.status = "ready"]
    /\ UNCHANGED <<docs, events, sequence, exactVars, taxonomyVars, searchVars, readerVars>>

\* _locked_write_state asks again under the lock; a removal needs no projection
\* that is ready.
Projectable(s) == Projected(tx[s].row) # 0 => exact.status = "ready"

\* The answer is 503 and the transaction is rolled back.
AbortWrite(s) ==
    /\ At(s, "taxonomy") /\ ~ExactLocked
    /\ ~Projectable(s)
    /\ tx' = [tx EXCEPT ![s] = None]
    /\ UNCHANGED <<docs, events, sequence, exactVars, taxonomyVars, searchVars, readerVars>>

\* mutant: the revision moves only as a document appears or disappears
Appears(d, version) == (snapshot[d] = 0) # (version = 0)

\* What is projected for the document changes.
Moves(d, version) == snapshot[d] # version

\* The terms of the taxonomy as the write recalculated them under the lock.
RecalculateTerms(s) ==
    /\ membership' = [membership EXCEPT ![tx[s].doc] = Entries(tx[s].row)]
    /\ term' = IF tx[s].affects THEN tx[s].term ELSE term
    /\ taxonomy' = IF tx[s].bump THEN [taxonomy EXCEPT !.revision = @ + 1] ELSE taxonomy

\* upsert_document and remove_document under the lock.
ProjectExact(d, version) ==
    /\ snapshot' = [snapshot EXCEPT ![d] = version]
    /\ exact' = IF Moves(d, version) THEN [exact EXCEPT !.revision = @ + 1] ELSE exact

CommitWrite(s) ==
    LET d == tx[s].doc
        version == Projected(tx[s].row)
    IN
    /\ At(s, "taxonomy") /\ ~ExactLocked
    /\ Projectable(s)
    /\ docs' = [docs EXCEPT ![d] = tx[s].row]
    /\ events' = events \cup {tx[s].seq}
    /\ ProjectExact(d, version)
    /\ RecalculateTerms(s)
    /\ tx' = [tx EXCEPT ![s] = None]
    /\ UNCHANGED <<sequence, exactJob, taxonomyJob, searchVars, readerVars>>

-----------------------------------------------------------------------------
(* The operator's backfills *)

\* ExactSearchService.backfill: the state says so before anything is deleted.
BeginExactBackfill ==
    /\ exactJob = None /\ runs < MaxBackfills /\ ~ExactLocked
    /\ exact' = [exact EXCEPT !.status = "building"]
    /\ exactJob' = [at |-> "building"]
    /\ runs' = runs + 1
    /\ UNCHANGED <<snapshot, feed, reads, docVars, taxonomyVars, searchVars>>

RebuildExact ==
    /\ exactJob # None /\ exactJob.at = "building" /\ ~ExactLocked
    /\ exactJob' = [at |-> "rebuilt", rows |-> [d \in Docs |-> Projected(docs[d])]]
    /\ UNCHANGED <<snapshot, exact, docVars, taxonomyVars, searchVars, readerVars>>

\* One step of the revision for each document, and one more.
CommitExactBackfill ==
    /\ exactJob # None /\ exactJob.at = "rebuilt"
    /\ snapshot' = exactJob.rows
    /\ exact' = [status |-> "ready",
                 revision |-> exact.revision + 1 + Cardinality({d \in Docs : exactJob.rows[d] # 0})]
    /\ exactJob' = None
    /\ UNCHANGED <<docVars, taxonomyVars, searchVars, readerVars>>

\* A file cannot be read, or the commit fails: everything is rolled back.
FailExactBackfill ==
    /\ exactJob # None
    /\ exactJob.at = "building" => ~ExactLocked
    /\ exact' = [exact EXCEPT !.status = "failed"]
    /\ exactJob' = None
    /\ UNCHANGED <<snapshot, docVars, taxonomyVars, searchVars, readerVars>>

\* _taxonomy_digest
TaxonomyDigest(rows) == [d \in Docs |-> IF rows[d] = None THEN None ELSE rows[d].label]

\* TaxonomyService.backfill reads the states, without a lock, and keeps them.
BeginTaxonomyBackfill ==
    /\ taxonomyJob = None /\ runs < MaxBackfills
    /\ taxonomyJob' = [at |-> "read", revision |-> taxonomy.revision]
    /\ runs' = runs + 1
    /\ UNCHANGED <<membership, term, taxonomy, feed, reads, docVars, exactVars, searchVars>>

TaxonomyBuilding ==
    /\ taxonomyJob # None /\ taxonomyJob.at = "digested" /\ ~TaxonomyLocked
    /\ taxonomy' = [taxonomy EXCEPT !.status = "building"]
    /\ taxonomyJob' = [taxonomyJob EXCEPT !.at = "building"]
    /\ UNCHANGED <<membership, term, docVars, exactVars, searchVars, readerVars>>

DigestTaxonomy ==
    /\ taxonomyJob # None /\ taxonomyJob.at = "read"
    /\ taxonomyJob' = [at |-> "digested", revision |-> taxonomyJob.revision, before |-> TaxonomyDigest(membership)]
    /\ UNCHANGED <<membership, term, taxonomy, docVars, exactVars, searchVars, readerVars>>

\* Everything is deleted and the public documents, locked, are projected
\* again.  The deletion waits for a write that touched the term's row.
RebuildTaxonomy ==
    LET public == {d \in Docs : Public(d)}
        rows == [d \in public |-> Entries(docs[d])]
        rebuilt == Aggregate([d \in Docs |-> IF d \in public THEN rows[d] ELSE None])
        touched == term # None \/ rebuilt # None
    IN
    /\ taxonomyJob # None /\ taxonomyJob.at = "building"
    /\ \A s \in Slots : tx[s] # None => tx[s].doc \notin public
    /\ touched => ~TaxonomyLocked
    /\ taxonomyJob' = [at |-> "rebuilt", revision |-> taxonomyJob.revision, before |-> taxonomyJob.before,
                       rows |-> rows, term |-> rebuilt, touched |-> touched]
    /\ UNCHANGED <<membership, term, taxonomy, docVars, exactVars, searchVars, readerVars>>

\* A document created since keeps what its own write projected, which the
\* second digest may or may not have seen.
CommitTaxonomyBackfill ==
    LET rows == [d \in Docs |-> IF d \in DOMAIN taxonomyJob.rows THEN taxonomyJob.rows[d] ELSE membership[d]]
        seen == [d \in Docs |-> IF d \in DOMAIN taxonomyJob.rows THEN taxonomyJob.rows[d] ELSE None]
    IN
    /\ taxonomyJob # None /\ taxonomyJob.at = "rebuilt" /\ ~TaxonomyLocked
    /\ membership' = rows
    /\ term' = IF taxonomyJob.touched THEN taxonomyJob.term ELSE term
    /\ \E after \in {TaxonomyDigest(rows), TaxonomyDigest(seen)} :
        taxonomy' = [status |-> "ready",
                     revision |-> IF taxonomyJob.before # after THEN taxonomyJob.revision + 1
                                  ELSE taxonomy.revision]
    /\ taxonomyJob' = None
    /\ UNCHANGED <<docVars, exactVars, searchVars, readerVars>>

FailTaxonomyBackfill ==
    /\ taxonomyJob # None /\ taxonomyJob.at \in {"building", "rebuilt"} /\ ~TaxonomyLocked
    /\ taxonomy' = [taxonomy EXCEPT !.status = "failed"]
    /\ taxonomyJob' = None
    /\ UNCHANGED <<membership, term, docVars, exactVars, searchVars, readerVars>>

-----------------------------------------------------------------------------
(* Exact search, a page of one hit at a time *)

\* _resolve_many: the terms that a filter can name; a term in conflict can be named.
Terms == IF taxonomy.status = "ready" /\ term # None THEN {term} ELSE {}

\* resolve_search: every taxonomy is ready; a filter on a term nobody names
\* finds nothing.
Resolvable == taxonomy.status = "ready"

\* field_name of the memberships as _reference_entries writes it, and as
\* _base_statement asks for it under each filter: they agree for work modes only.
StoredFields == {"skill_ids", "work_modes"}
AskedField == [skill_ids |-> "skills", work_modes |-> "work_modes"]
Filters == DOMAIN AskedField \cup {None}

\* _base_statement joins a snapshot with its document's current version, and
\* the memberships where the search has a filter.
Matching(filter) ==
    {d \in Docs :
        /\ Public(d) /\ snapshot[d] = docs[d].version
        /\ filter # None => Terms # {} /\ membership[d] # None /\ AskedField[filter] \in StoredFields}

\* Newest first, ties by id.
Before(d, e) == docs[d].version > docs[e].version \/ (docs[d].version = docs[e].version /\ d > e)
Results(found) == SetToSortSeq(found, Before)

\* _rows_to_hits
Hits(found) == [i \in 1..Cardinality(found) |->
    [doc |-> Results(found)[i], version |-> docs[Results(found)[i]].version]]

\* _taxonomy_revision_digest
TaxonomyRevisionDigest == <<taxonomy.revision, taxonomy.status>>

Idle == search' = None

\* _decode_cursor, and the comparison with the revisions: no cursor, or one of
\* the revisions as they are.
Decodable(c) == c # None => c.revision = exact.revision /\ c.digest = TaxonomyRevisionDigest

\* resolve_search, require_ready, and _decode_cursor: a cursor of another
\* revision is refused and the client begins again.
BeginSearch(c, filter) ==
    /\ search = None /\ reads < MaxReads
    /\ c # None => c = cursor /\ filter = c.filter
    /\ Resolvable /\ exact.status = "ready"
    /\ reads' = reads + 1
    /\ IF Decodable(c)
       THEN /\ search' = [at |-> "begun", revision |-> exact.revision, digest |-> TaxonomyRevisionDigest,
                          filter |-> filter, anchor |-> IF c = None THEN None ELSE c.anchor, rows |-> <<>>]
            /\ walk' = IF c = None THEN <<>> ELSE walk
            /\ UNCHANGED cursor
       ELSE search' = None /\ cursor' = None /\ walk' = <<>>
    /\ UNCHANGED <<docVars, exactVars, taxonomyVars, feed, runs>>

\* The statement for the hits, after the anchor if there is one.
ReadRows ==
    LET found == Matching(search.filter)
        rest == {d \in found : search.anchor # None => Before(search.anchor, d)}
    IN
    /\ search # None /\ search.at = "begun"
    /\ search.anchor # None => search.anchor \in found
    /\ search' = [search EXCEPT !.at = "read", !.rows = Hits(rest)]
    /\ UNCHANGED <<cursor, walk, docVars, exactVars, taxonomyVars, readerVars>>

NoRecheck == TRUE       \* mutant: the revisions are not compared at the end

\* The comparison at the end of search.
Unmoved ==
    /\ TaxonomyRevisionDigest = search.digest
    /\ exact.status = "ready" /\ exact.revision = search.revision

\* The page of the search.
SelectPage ==
    /\ search # None /\ search.at = "read" /\ Unmoved
    /\ walk' = IF search.rows = <<>> THEN walk ELSE Append(walk, search.rows[1].doc)
    /\ search' = [search EXCEPT !.at = "selected"]
    /\ UNCHANGED <<cursor, docVars, exactVars, taxonomyVars, readerVars>>

\* hydrate_hits keeps a hit that is still public in its version and whose
\* memberships, read again, are that version's and match.
Hydrated(hit) ==
    LET d == hit.doc IN
    /\ Public(d) /\ docs[d].version = hit.version
    /\ docs[d].label # None => membership[d] # None /\ membership[d].version = hit.version
    /\ search.filter # None => membership[d] # None

Authorized ==
    /\ taxonomy.status = "ready"
    /\ search.rows # <<>> => Hydrated(search.rows[1])

\* The answer, with the cursor of the next page.
AnswerSearch ==
    /\ search # None /\ search.at = "selected" /\ Authorized
    /\ cursor' = IF Len(search.rows) > 1
                 THEN [revision |-> search.revision, digest |-> search.digest, filter |-> search.filter,
                       anchor |-> search.rows[1].doc]
                 ELSE None
    /\ walk' = IF Len(search.rows) > 1 THEN walk ELSE <<>>
    /\ Idle
    /\ UNCHANGED <<docVars, exactVars, taxonomyVars, readerVars>>

\* The revisions moved, the anchor is gone, or a hit has changed: 409 or 503.
RefuseSearch ==
    /\ search # None
    /\ \/ search.at = "read" /\ ~Unmoved
       \/ search.at = "begun" /\ search.anchor # None /\ search.anchor \notin Matching(search.filter)
       \/ search.at = "selected" /\ ~Authorized
    /\ cursor' = None /\ walk' = <<>> /\ Idle
    /\ UNCHANGED <<docVars, exactVars, taxonomyVars, readerVars>>

-----------------------------------------------------------------------------
(* The change feed *)

\* changes: what is committed after the cursor, and the last of it as the next.
Changes ==
    LET page == {e \in events : e > feed.cursor} IN
    /\ reads < MaxReads /\ page # {}
    /\ feed' = [cursor |-> Max(page), sent |-> feed.sent \cup page]
    /\ reads' = reads + 1
    /\ UNCHANGED <<runs, docVars, exactVars, taxonomyVars, searchVars>>

Next ==
    \/ \E s \in Slots, d \in Docs :
        \/ BeginWrite(s, d, None)
        \/ BeginWrite(s, d, NextRow(d, FALSE, None))
        \/ \E label \in Labels \cup {None} : BeginWrite(s, d, NextRow(d, TRUE, label))
    \/ \E s \in Slots : ProjectTaxonomy(s) \/ AbortWrite(s) \/ CommitWrite(s)
    \/ BeginExactBackfill \/ RebuildExact \/ CommitExactBackfill \/ FailExactBackfill
    \/ BeginTaxonomyBackfill \/ DigestTaxonomy \/ TaxonomyBuilding \/ RebuildTaxonomy
    \/ CommitTaxonomyBackfill \/ FailTaxonomyBackfill
    \/ \E c \in {None, cursor}, filter \in Filters : BeginSearch(c, filter)
    \/ ReadRows \/ SelectPage \/ AnswerSearch \/ RefuseSearch
    \/ Changes

Spec == Init /\ [][Next]_vars

-----------------------------------------------------------------------------
(* Properties *)

\* verify_integrity of each projection: every public document in its current
\* version and nothing else; and no term that no document names.
ExactIntegrity == \A d \in Docs : snapshot[d] = Projected(docs[d])
TaxonomyIntegrity ==
    /\ \A d \in Docs : membership[d] = Entries(docs[d])
    /\ term = Aggregate(membership)

\* A projection that is ready passes verify_integrity, and has the term as the
\* documents name it, whichever writes ran while either projection was rebuilt.
ReadyMeansCurrent ==
    /\ exact.status = "ready" => ExactIntegrity
    /\ taxonomy.status = "ready" => TaxonomyIntegrity

\* What a search can find: the public documents in their versions.
PublicRows == {[doc |-> d, row |-> docs[d]] : d \in {e \in Docs : Public(e)}}

\* The revision never goes back, and stays only where the public documents do.
RevisionCoversRows ==
    /\ exact'.revision >= exact.revision
    /\ exact'.revision = exact.revision => PublicRows' = PublicRows

\* Two reads of one exact revision, however far apart, are of the same public
\* documents in the same versions, whatever was written, withdrawn or rebuilt
\* between them: what the comparison at the end of search relies on.
RevisionNamesResults == [][RevisionCoversRows]_vars

\* The pages of a cursor are, each time one is selected, the beginning of the
\* results as they are: no document is skipped or shown twice because another
\* was written or the projection rebuilt between two pages or inside one.
PagesAreThePrefix ==
    [][SelectPage => IsPrefix(walk', Results(Matching(search.filter)))]_vars

\* docs/social-network.md says that change feeds are authoritative for
\* synchronization: an event the cursor has passed was sent.
FeedIsAuthoritative == \A e \in events : e <= feed.cursor => e \in feed.sent
=============================================================================
