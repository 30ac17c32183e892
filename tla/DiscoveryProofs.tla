-------------------------- MODULE DiscoveryProofs --------------------------
(***************************************************************************)
(* The exact and the taxonomy projection agree with the documents, for any *)
(* number of documents, labels, open writes, backfills and searches.       *)
(***************************************************************************)
EXTENDS Discovery, FiniteSetTheorems, TLAPS

-----------------------------------------------------------------------------
(* The invariant *)

\* A version is made by a write, which took a place in the feed.
VersionsCounted ==
    /\ \A d \in Docs : docs[d] # None => docs[d].version <= sequence + 1
    /\ \A s \in Slots : tx[s] # None =>
        /\ tx[s].seq <= sequence
        /\ tx[s].row # None => tx[s].row.version <= sequence + 1

\* The row locks: a document has one writer, whose row is of a later version.
OneWriter ==
    \A s, t \in Slots : s # t /\ tx[s] # None /\ tx[t] # None => tx[s].doc # tx[t].doc

NewVersion(s) ==
    tx[s] # None /\ tx[s].row # None /\ docs[tx[s].doc] # None
        => tx[s].row.version > docs[tx[s].doc].version

NewVersions == \A s \in Slots : NewVersion(s)

\* What a rebuild of the exact projection has read stays true under its lock.
ExactRebuilt ==
    exactJob # None /\ exactJob.at = "rebuilt" => exactJob.rows = [d \in Docs |-> Projected(docs[d])]

\* The memberships as the write of s will leave them.
MembershipAfter(s) == [membership EXCEPT ![tx[s].doc] = Entries(tx[s].row)]

\* What a write has calculated under the lock of the taxonomy stays true; one
\* that took no lock has nothing to project.
Recalculated(s) ==
    At(s, "taxonomy") =>
        IF tx[s].affects THEN tx[s].term = Aggregate(MembershipAfter(s))
        ELSE membership[tx[s].doc] = None /\ Entries(tx[s].row) = None

AllRecalculated == \A s \in Slots : Recalculated(s)

OneTaxonomyLock ==
    \A s, t \in Slots :
        At(s, "taxonomy") /\ tx[s].affects /\ At(t, "taxonomy") /\ tx[t].affects => s = t

\* A rebuild of the taxonomy keeps the public documents locked and, where the
\* term is there before or after it, the term.
TaxonomyRebuilt ==
    taxonomyJob # None /\ taxonomyJob.at = "rebuilt" =>
        /\ \A d \in DOMAIN taxonomyJob.rows :
            d \in Docs /\ Public(d) /\ taxonomyJob.rows[d] = Entries(docs[d])
        /\ \A s \in Slots : tx[s] # None => tx[s].doc \notin DOMAIN taxonomyJob.rows
        /\ taxonomyJob.touched => ~TaxonomyLocked /\ taxonomyJob.term = Aggregate(membership)

DiscoveryInductive ==
    /\ RowsTypeOK
    /\ VersionsCounted
    /\ OneWriter
    /\ NewVersions
    /\ ExactIntegrity /\ ExactRebuilt
    /\ TaxonomyIntegrity
    /\ AllRecalculated /\ OneTaxonomyLock
    /\ TaxonomyRebuilt

-----------------------------------------------------------------------------
(* What the projections are made of *)

LEMMA ProjectedType ==
    ASSUME NEW row \in Document \cup {None}
    PROVE  Projected(row) \in 0..(MaxWrites + 1)
BY DiscoveryAssumption DEF Projected, Document, Versions

LEMMA EntriesType ==
    ASSUME NEW row \in Document \cup {None}
    PROVE  Entries(row) \in Membership \cup {None}
BY DiscoveryAssumption DEF Entries, Document, Membership, Versions

LEMMA AggregateType ==
    ASSUME NEW rows \in [Docs -> Membership \cup {None}]
    PROVE  Aggregate(rows) \in TermLabels
<1> DEFINE labels == {rows[d].label : d \in {e \in Docs : rows[e] # None}}
<1>1. labels \subseteq Labels
    BY DEF Membership
<1>2. CASE labels = {}
    BY <1>2, FS_EmptySet DEF Aggregate, TermLabels
<1>3. CASE labels # {}
  <2>1. (CHOOSE l \in labels : TRUE) \in Labels
    BY <1>1, <1>3
  <2>2. CASE Cardinality(labels) = 1
    BY <1>3, <2>1, <2>2 DEF Aggregate, TermLabels
  <2>3. CASE Cardinality(labels) # 1
    BY <1>3, <2>3 DEF Aggregate, TermLabels
  <2> QED
    BY <2>2, <2>3
<1> QED
    BY <1>2, <1>3

\* The row that a client asks for is of a later version, which the place of
\* its write in the feed bounds.
LaterRow(d, row) ==
    row # None =>
        /\ row \in Document /\ row.version <= sequence + 2
        /\ docs[d] # None => row.version > docs[d].version

LEMMA NextRowIsLater ==
    ASSUME DiscoveryInductive, NEW d \in Docs, NEW public \in BOOLEAN, NEW label \in Labels \cup {None},
           sequence < MaxWrites
    PROVE  LaterRow(d, NextRow(d, public, label))
<1>1. docs[d] \in Document \cup {None} /\ sequence \in Nat
    BY DEF DiscoveryInductive, RowsTypeOK
<1>2. docs[d] # None => docs[d].version \in Versions /\ docs[d].version <= sequence + 1
    BY <1>1 DEF DiscoveryInductive, VersionsCounted, Document
<1>3. NextRow(d, public, label).version \in Versions
    BY <1>1, <1>2, DiscoveryAssumption DEF NextRow, Versions
<1>4. NextRow(d, public, label) \in Document
    BY <1>3 DEF NextRow, Document
<1> QED
    BY <1>1, <1>2, <1>4 DEF NextRow, LaterRow, Versions

-----------------------------------------------------------------------------
(* Steps of a write *)

LEMMA SlotWritten ==
    ASSUME RowsTypeOK, NEW s \in Slots, NEW w \in Write \cup {None}, tx' = [tx EXCEPT ![s] = w]
    PROVE  /\ tx' \in [Slots -> Write \cup {None}]
           /\ tx'[s] = w /\ \A t \in Slots : t # s => tx'[t] = tx[t]
BY DEF RowsTypeOK

LEMMA BeginWriteKeeps ==
    ASSUME DiscoveryInductive, NEW s \in Slots, NEW d \in Docs, NEW row, LaterRow(d, row),
           BeginWrite(s, d, row)
    PROVE  DiscoveryInductive'
<1> USE DEF DiscoveryInductive
<1> DEFINE w == [doc |-> d, row |-> row, at |-> "begun", seq |-> sequence + 1, affects |-> FALSE,
                 bump |-> FALSE, term |-> None]
<1>1. sequence \in 0..MaxWrites /\ sequence + 1 \in 1..MaxWrites /\ sequence' = sequence + 1
    BY DiscoveryAssumption DEF RowsTypeOK, BeginWrite
<1>2. row \in Document \cup {None}
    BY DEF LaterRow
<1>3. w \in Write
    BY <1>1, <1>2 DEF Write, TermLabels
<1>4. /\ tx' \in [Slots -> Write \cup {None}]
      /\ tx'[s] = w /\ \A t \in Slots : t # s => tx'[t] = tx[t]
    BY <1>3, SlotWritten DEF BeginWrite
<1>5. /\ UNCHANGED <<docs, events, snapshot, exact, exactJob, membership, term, taxonomy, taxonomyJob>>
      /\ ~DocLocked(d)
    BY DEF BeginWrite, exactVars, taxonomyVars
<1>6. RowsTypeOK'
    BY <1>1, <1>4, <1>5 DEF RowsTypeOK
<1>7. VersionsCounted'
  <2>1. ASSUME NEW e \in Docs, docs[e] # None PROVE docs'[e].version <= sequence' + 1
    <3>1. docs[e].version <= sequence + 1 /\ docs[e].version \in Nat
      BY <2>1 DEF VersionsCounted, RowsTypeOK, Document, Versions
    <3> QED
      BY <1>1, <1>5, <3>1
  <2>2. tx'[s].seq <= sequence' /\ (tx'[s].row # None => tx'[s].row.version <= sequence' + 1)
    BY <1>1, <1>4 DEF LaterRow
  <2>3. ASSUME NEW t \in Slots, t # s, tx[t] # None
        PROVE  tx'[t].seq <= sequence' /\ (tx'[t].row # None => tx'[t].row.version <= sequence' + 1)
    <3>1. tx[t] \in Write
      BY <2>3 DEF RowsTypeOK
    <3>2. tx[t].seq \in Nat /\ (tx[t].row # None => tx[t].row \in Document)
      BY <3>1 DEF Write
    <3>3. tx[t].row # None => tx[t].row.version \in Nat
      BY <3>2 DEF Document, Versions
    <3> QED
      BY <1>1, <1>4, <2>3, <3>2, <3>3 DEF VersionsCounted
  <2> QED
    BY <1>4, <1>5, <2>1, <2>2, <2>3 DEF VersionsCounted
<1>8. OneWriter'
    BY <1>4, <1>5 DEF OneWriter, DocLocked
<1>9. NewVersions'
  <2>1. NewVersion(s)'
    BY <1>4, <1>5 DEF NewVersion, LaterRow
  <2>2. ASSUME NEW t \in Slots, t # s PROVE NewVersion(t)'
    BY <1>4, <1>5, <2>2 DEF NewVersion, NewVersions
  <2> QED
    BY <2>1, <2>2 DEF NewVersions
<1>10. ExactIntegrity' /\ ExactRebuilt' /\ TaxonomyIntegrity'
    BY <1>5 DEF ExactIntegrity, ExactRebuilt, TaxonomyIntegrity
<1>11. \A t \in Slots : t # s => (At(t, "taxonomy")' <=> At(t, "taxonomy"))
    BY <1>4 DEF At
<1>12. ~At(s, "taxonomy")'
    BY <1>4 DEF At
<1>13. AllRecalculated'
  <2>1. ASSUME NEW t \in Slots, t # s PROVE Recalculated(t)'
    BY <1>4, <1>5, <1>11, <2>1 DEF AllRecalculated, Recalculated, MembershipAfter
  <2>2. Recalculated(s)'
    BY <1>12 DEF Recalculated
  <2> QED
    BY <2>1, <2>2 DEF AllRecalculated
<1>14. OneTaxonomyLock'
    BY <1>4, <1>11, <1>12 DEF OneTaxonomyLock
<1>15. TaxonomyLocked' => TaxonomyLocked
    BY <1>4, <1>11, <1>12 DEF TaxonomyLocked
<1>16. TaxonomyRebuilt'
  <2>1. CASE taxonomyJob # None /\ taxonomyJob.at = "rebuilt"
    <3>1. d \notin DOMAIN taxonomyJob.rows
      BY <1>5, <2>1 DEF TaxonomyRebuilt, DocLocked
    <3>2. \A t \in Slots : tx'[t] # None => tx'[t].doc \notin DOMAIN taxonomyJob.rows
      BY <1>4, <2>1, <3>1 DEF TaxonomyRebuilt
    <3> QED
      BY <1>5, <1>15, <2>1, <3>2 DEF TaxonomyRebuilt, Public
  <2>2. CASE ~(taxonomyJob # None /\ taxonomyJob.at = "rebuilt")
    BY <1>5, <2>2 DEF TaxonomyRebuilt
  <2> QED
    BY <2>1, <2>2
<1> QED
    BY <1>6, <1>7, <1>8, <1>9, <1>10, <1>13, <1>14, <1>16

LEMMA MembershipAfterType ==
    ASSUME DiscoveryInductive, NEW s \in Slots, tx[s] # None
    PROVE  /\ tx[s] \in Write /\ tx[s].doc \in Docs /\ tx[s].row \in Document \cup {None}
           /\ MembershipAfter(s) \in [Docs -> Membership \cup {None}]
           /\ Aggregate(MembershipAfter(s)) \in TermLabels
<1>1. tx[s] \in Write
    BY DEF DiscoveryInductive, RowsTypeOK
<1>2. tx[s].doc \in Docs /\ tx[s].row \in Document \cup {None}
    BY <1>1 DEF Write
<1>3. Entries(tx[s].row) \in Membership \cup {None}
    BY <1>2, EntriesType
<1>4. MembershipAfter(s) \in [Docs -> Membership \cup {None}]
    BY <1>2, <1>3 DEF MembershipAfter, DiscoveryInductive, RowsTypeOK
<1> QED
    BY <1>1, <1>2, <1>4, AggregateType

\* replace_document_projection takes the lock of the taxonomy if it needs it.
LEMMA ProjectTaxonomyWrites ==
    ASSUME DiscoveryInductive, NEW s \in Slots, ProjectTaxonomy(s)
    PROVE  /\ tx' \in [Slots -> Write \cup {None}]
           /\ \A t \in Slots : t # s => tx'[t] = tx[t]
           /\ tx[s] # None /\ tx'[s].at = "taxonomy"
           /\ tx'[s].affects = Affected(s) /\ tx'[s].term = Aggregate(MembershipAfter(s))
           /\ tx'[s].doc = tx[s].doc /\ tx'[s].row = tx[s].row /\ tx'[s].seq = tx[s].seq
<1> DEFINE after == Aggregate(MembershipAfter(s))
           before == IF membership[tx[s].doc] = None THEN None ELSE term
           bump == Affected(s) /\ before # after /\ taxonomy.status = "ready"
           w == [tx[s] EXCEPT !.at = "taxonomy", !.affects = Affected(s), !.term = after, !.bump = bump]
<1>1. tx[s] # None /\ tx[s] \in Write /\ after \in TermLabels
    BY MembershipAfterType DEF ProjectTaxonomy, At
<1>2. Affected(s) \in BOOLEAN /\ bump \in BOOLEAN
    BY DEF Affected
<1>3. tx' = [tx EXCEPT ![s].at = "taxonomy", ![s].affects = Affected(s), ![s].term = after, ![s].bump = bump]
    BY DEF ProjectTaxonomy, MembershipAfter
<1> HIDE DEF after, bump
<1>4. w \in Write
    BY <1>1, <1>2 DEF Write
<1>5. tx' = [tx EXCEPT ![s] = w]
    BY <1>3 DEF DiscoveryInductive, RowsTypeOK
<1>6. /\ w.at = "taxonomy" /\ w.affects = Affected(s) /\ w.term = after
      /\ w.doc = tx[s].doc /\ w.row = tx[s].row /\ w.seq = tx[s].seq
    BY <1>1 DEF Write
<1> HIDE DEF w
<1>7. /\ tx' \in [Slots -> Write \cup {None}]
      /\ tx'[s] = w /\ \A t \in Slots : t # s => tx'[t] = tx[t]
    BY <1>4, <1>5, SlotWritten DEF DiscoveryInductive
<1> QED
    BY <1>1, <1>6, <1>7 DEF after

LEMMA ProjectTaxonomyKeeps ==
    ASSUME DiscoveryInductive, NEW s \in Slots, ProjectTaxonomy(s)
    PROVE  DiscoveryInductive'
<1> USE DEF DiscoveryInductive
<1>1. /\ tx' \in [Slots -> Write \cup {None}]
      /\ \A t \in Slots : t # s => tx'[t] = tx[t]
      /\ tx[s] # None /\ tx'[s].at = "taxonomy"
      /\ tx'[s].affects = Affected(s) /\ tx'[s].term = Aggregate(MembershipAfter(s))
      /\ tx'[s].doc = tx[s].doc /\ tx'[s].row = tx[s].row /\ tx'[s].seq = tx[s].seq
    BY ProjectTaxonomyWrites
<1>2. /\ UNCHANGED <<docs, events, sequence, snapshot, exact, exactJob, membership, term, taxonomy, taxonomyJob>>
      /\ Affected(s) => ~TaxonomyLocked /\ ~TermRowsLocked
      /\ At(s, "begun")
    BY DEF ProjectTaxonomy, exactVars, taxonomyVars
<1>3. RowsTypeOK'
    BY <1>1, <1>2 DEF RowsTypeOK
<1>4. VersionsCounted' /\ OneWriter'
    BY <1>1, <1>2 DEF VersionsCounted, OneWriter
<1>5. NewVersions'
  <2>1. ASSUME NEW t \in Slots PROVE NewVersion(t)'
    <3>1. tx'[t] # None => tx[t] # None /\ tx'[t].doc = tx[t].doc /\ tx'[t].row = tx[t].row
      BY <1>1
    <3> QED
      BY <1>2, <3>1 DEF NewVersions, NewVersion
  <2> QED
    BY <2>1 DEF NewVersions
<1>6. ExactIntegrity' /\ ExactRebuilt' /\ TaxonomyIntegrity'
    BY <1>2 DEF ExactIntegrity, ExactRebuilt, TaxonomyIntegrity
<1>7. \A t \in Slots : t # s => (At(t, "taxonomy")' <=> At(t, "taxonomy"))
    BY <1>1 DEF At
<1>8. AllRecalculated'
  <2>1. ASSUME NEW t \in Slots, t # s PROVE Recalculated(t)'
    BY <1>1, <1>2, <1>7, <2>1 DEF AllRecalculated, Recalculated, MembershipAfter
  <2>2. Recalculated(s)'
    BY <1>1, <1>2 DEF Recalculated, MembershipAfter, Affected
  <2> QED
    BY <2>1, <2>2 DEF AllRecalculated
<1>9. OneTaxonomyLock'
    BY <1>1, <1>2, <1>7 DEF OneTaxonomyLock, TaxonomyLocked
<1>10. TaxonomyLocked' => TaxonomyLocked \/ Affected(s)
    BY <1>1, <1>7 DEF TaxonomyLocked
<1>11. TaxonomyRebuilt'
  <2>1. CASE taxonomyJob # None /\ taxonomyJob.at = "rebuilt"
    <3>1. \A t \in Slots : tx'[t] # None => tx'[t].doc \notin DOMAIN taxonomyJob.rows
      BY <1>1, <2>1 DEF TaxonomyRebuilt
    <3>2. taxonomyJob.touched => ~TaxonomyLocked'
      BY <1>2, <1>10, <2>1 DEF TaxonomyRebuilt, TermRowsLocked
    <3> QED
      BY <1>2, <2>1, <3>1, <3>2 DEF TaxonomyRebuilt, Public
  <2>2. CASE ~(taxonomyJob # None /\ taxonomyJob.at = "rebuilt")
    BY <1>2, <2>2 DEF TaxonomyRebuilt
  <2> QED
    BY <2>1, <2>2
<1> QED
    BY <1>3, <1>4, <1>5, <1>6, <1>8, <1>9, <1>11

LEMMA AbortWriteKeeps ==
    ASSUME DiscoveryInductive, NEW s \in Slots, AbortWrite(s)
    PROVE  DiscoveryInductive'
<1> USE DEF DiscoveryInductive
<1>1. /\ tx' \in [Slots -> Write \cup {None}]
      /\ tx'[s] = None /\ \A t \in Slots : t # s => tx'[t] = tx[t]
    BY SlotWritten DEF AbortWrite
<1>2. UNCHANGED <<docs, events, sequence, snapshot, exact, exactJob, membership, term, taxonomy, taxonomyJob>>
    BY DEF AbortWrite, exactVars, taxonomyVars
<1>3. RowsTypeOK'
    BY <1>1, <1>2 DEF RowsTypeOK
<1>4. VersionsCounted' /\ OneWriter'
    BY <1>1, <1>2 DEF VersionsCounted, OneWriter
<1>5. ASSUME NEW t \in Slots PROVE NewVersion(t)' /\ Recalculated(t)'
    BY <1>1, <1>2 DEF NewVersions, NewVersion, AllRecalculated, Recalculated, At, MembershipAfter
<1>6. ExactIntegrity' /\ ExactRebuilt' /\ TaxonomyIntegrity'
    BY <1>2 DEF ExactIntegrity, ExactRebuilt, TaxonomyIntegrity
<1>7. OneTaxonomyLock' /\ (TaxonomyLocked' => TaxonomyLocked)
    BY <1>1 DEF OneTaxonomyLock, TaxonomyLocked, At
<1>8. TaxonomyRebuilt'
    BY <1>1, <1>2, <1>7 DEF TaxonomyRebuilt, Public
<1> QED
    BY <1>3, <1>4, <1>5, <1>6, <1>7, <1>8 DEF NewVersions, AllRecalculated

LEMMA CommitWriteKeeps ==
    ASSUME DiscoveryInductive, NEW s \in Slots, CommitWrite(s)
    PROVE  DiscoveryInductive'
<1> USE DEF DiscoveryInductive
<1> DEFINE d == tx[s].doc
           row == tx[s].row
<1>1. At(s, "taxonomy") /\ tx[s] # None /\ ~ExactLocked
    BY DEF CommitWrite, At
<1>2. /\ tx[s] \in Write /\ d \in Docs /\ row \in Document \cup {None}
      /\ MembershipAfter(s) \in [Docs -> Membership \cup {None}]
      /\ Aggregate(MembershipAfter(s)) \in TermLabels
    BY <1>1, MembershipAfterType
<1>3. /\ tx' \in [Slots -> Write \cup {None}]
      /\ tx'[s] = None /\ \A t \in Slots : t # s => tx'[t] = tx[t]
    BY SlotWritten DEF CommitWrite
<1>4. /\ docs' = [docs EXCEPT ![d] = row] /\ docs \in [Docs -> Document \cup {None}]
      /\ snapshot' = [snapshot EXCEPT ![d] = Projected(row)] /\ snapshot \in Snapshots
      /\ membership' = MembershipAfter(s) /\ membership \in [Docs -> Membership \cup {None}]
      /\ UNCHANGED <<sequence, exactJob, taxonomyJob>>
      /\ term' = IF tx[s].affects THEN tx[s].term ELSE term
    BY DEF CommitWrite, ProjectExact, RecalculateTerms, MembershipAfter, RowsTypeOK
<1>5. /\ docs'[d] = row /\ membership'[d] = Entries(row) /\ snapshot'[d] = Projected(row)
      /\ \A e \in Docs \ {d} :
            docs'[e] = docs[e] /\ membership'[e] = membership[e] /\ snapshot'[e] = snapshot[e]
    BY <1>2, <1>4 DEF MembershipAfter, Snapshots
<1>6. ~tx[s].affects => membership' = membership
  <2>1. ASSUME ~tx[s].affects PROVE \A e \in Docs : membership'[e] = membership[e]
    BY <1>1, <1>5, <2>1 DEF AllRecalculated, Recalculated
  <2> QED
    BY <1>2, <1>4, <2>1
<1>7. term' = Aggregate(membership')
  <2>1. CASE tx[s].affects
    BY <1>1, <1>4, <2>1 DEF AllRecalculated, Recalculated
  <2>2. CASE ~tx[s].affects
    BY <1>4, <1>6, <2>2 DEF TaxonomyIntegrity
  <2> QED
    BY <2>1, <2>2
<1>8. RowsTypeOK'
  <2>1. snapshot' \in Snapshots
    BY <1>2, <1>4, ProjectedType DEF Snapshots
  <2>2. exact' \in ProjectionState /\ taxonomy' \in ProjectionState
    BY DEF CommitWrite, ProjectExact, RecalculateTerms, RowsTypeOK, ProjectionState
  <2>3. events' \subseteq 1..sequence'
    <3>1. tx[s].seq \in 1..MaxWrites /\ tx[s].seq <= sequence /\ sequence \in Nat
      BY <1>1, <1>2 DEF Write, VersionsCounted, RowsTypeOK
    <3>2. events' = events \cup {tx[s].seq}
      BY DEF CommitWrite
    <3> QED
      BY <1>4, <3>1, <3>2 DEF RowsTypeOK
  <2>4. docs' \in [Docs -> Document \cup {None}]
    BY <1>2, <1>4
  <2>5. term' \in TermLabels
    BY <1>2, <1>4, <1>7
  <2> QED
    BY <1>2, <1>3, <1>4, <2>1, <2>2, <2>3, <2>4, <2>5 DEF RowsTypeOK
<1>9. VersionsCounted'
    BY <1>1, <1>3, <1>4, <1>5 DEF VersionsCounted
<1>10. OneWriter'
    BY <1>3 DEF OneWriter
<1>11. ASSUME NEW t \in Slots, t # s, tx[t] # None
       PROVE  tx[t].doc \in Docs \ {d} /\ docs'[tx[t].doc] = docs[tx[t].doc]
              /\ membership'[tx[t].doc] = membership[tx[t].doc]
  <2>1. tx[t].doc \in Docs
    BY <1>11, MembershipAfterType
  <2>2. tx[t].doc # d
    BY <1>1, <1>11 DEF OneWriter
  <2> QED
    BY <1>5, <2>1, <2>2
<1>12. NewVersions'
    BY <1>3, <1>11 DEF NewVersions, NewVersion
<1>13. ExactIntegrity'
    BY <1>5 DEF ExactIntegrity
<1>14. ExactRebuilt'
    BY <1>1, <1>4 DEF ExactRebuilt, ExactLocked
<1>15. TaxonomyIntegrity'
  <2>1. \A e \in Docs : membership'[e] = Entries(docs'[e])
    BY <1>5 DEF TaxonomyIntegrity
  <2> QED
    BY <1>7, <2>1 DEF TaxonomyIntegrity
<1>16. \A t \in Slots : t # s => (At(t, "taxonomy")' <=> At(t, "taxonomy"))
    BY <1>3 DEF At
<1>17. AllRecalculated'
  <2>1. ASSUME NEW t \in Slots, t # s, At(t, "taxonomy") PROVE Recalculated(t)'
    <3>1. CASE tx[t].affects
      <4>1. ~tx[s].affects
        BY <1>1, <2>1, <3>1 DEF OneTaxonomyLock
      <4> QED
        BY <1>3, <1>6, <2>1, <3>1, <4>1 DEF AllRecalculated, Recalculated, MembershipAfter
    <3>2. CASE ~tx[t].affects
      <4>1. tx[t] # None
        BY <2>1 DEF At
      <4> QED
        BY <1>3, <1>11, <2>1, <3>2, <4>1 DEF AllRecalculated, Recalculated
    <3> QED
      BY <3>1, <3>2
  <2>2. ASSUME NEW t \in Slots, t = s \/ ~At(t, "taxonomy") PROVE Recalculated(t)'
    BY <1>3, <1>16, <2>2 DEF Recalculated, At
  <2> QED
    BY <2>1, <2>2 DEF AllRecalculated
<1>18. OneTaxonomyLock' /\ (TaxonomyLocked' => TaxonomyLocked)
    BY <1>3 DEF OneTaxonomyLock, TaxonomyLocked, At
<1>19. TaxonomyRebuilt'
  <2>1. CASE taxonomyJob # None /\ taxonomyJob.at = "rebuilt"
    <3>1. d \notin DOMAIN taxonomyJob.rows
      BY <1>1, <2>1 DEF TaxonomyRebuilt
    <3>2. ASSUME NEW e \in DOMAIN taxonomyJob.rows PROVE e \in Docs /\ docs'[e] = docs[e]
      BY <1>5, <2>1, <3>1 DEF TaxonomyRebuilt
    <3>3. \A t \in Slots : tx'[t] # None => tx'[t].doc \notin DOMAIN taxonomyJob.rows
      BY <1>3, <2>1 DEF TaxonomyRebuilt
    <3>4. taxonomyJob.touched => ~TaxonomyLocked' /\ membership' = membership
      BY <1>1, <1>6, <1>18, <2>1 DEF TaxonomyRebuilt, TaxonomyLocked
    <3> QED
      BY <1>4, <2>1, <3>2, <3>3, <3>4 DEF TaxonomyRebuilt, Public
  <2>2. CASE ~(taxonomyJob # None /\ taxonomyJob.at = "rebuilt")
    BY <1>4, <2>2 DEF TaxonomyRebuilt
  <2> QED
    BY <2>1, <2>2
<1> QED
    BY <1>8, <1>9, <1>10, <1>12, <1>13, <1>14, <1>15, <1>17, <1>18, <1>19

-----------------------------------------------------------------------------
(* Steps of the backfills and of the readers *)

\* A step that leaves the documents and the writes alone.
LEMMA WritesStay ==
    ASSUME DiscoveryInductive, UNCHANGED docVars
    PROVE  /\ VersionsCounted' /\ OneWriter' /\ NewVersions' /\ OneTaxonomyLock'
           /\ (TaxonomyLocked' <=> TaxonomyLocked)
           /\ membership' = membership => AllRecalculated'
<1> USE DEF DiscoveryInductive, docVars
<1>1. VersionsCounted' /\ OneWriter'
    BY DEF VersionsCounted, OneWriter
<1>2. NewVersions'
    BY DEF NewVersions, NewVersion
<1>3. OneTaxonomyLock' /\ (TaxonomyLocked' <=> TaxonomyLocked)
    BY DEF OneTaxonomyLock, TaxonomyLocked, At
<1>4. membership' = membership => AllRecalculated'
    BY DEF AllRecalculated, Recalculated, At, MembershipAfter
<1> QED
    BY <1>1, <1>2, <1>3, <1>4

LEMMA ExactJobKeeps ==
    ASSUME DiscoveryInductive,
           BeginExactBackfill \/ RebuildExact \/ CommitExactBackfill \/ FailExactBackfill
    PROVE  DiscoveryInductive'
<1> USE DEF DiscoveryInductive
<1>1. UNCHANGED docVars /\ UNCHANGED <<membership, term, taxonomy, taxonomyJob>>
    BY DEF BeginExactBackfill, RebuildExact, CommitExactBackfill, FailExactBackfill, taxonomyVars
<1>2. UNCHANGED <<docs, events, sequence, tx>>
    BY <1>1 DEF docVars
<1>3. /\ VersionsCounted' /\ OneWriter' /\ NewVersions' /\ OneTaxonomyLock'
      /\ (TaxonomyLocked' <=> TaxonomyLocked) /\ AllRecalculated'
    BY <1>1, WritesStay
<1>4. TaxonomyIntegrity' /\ TaxonomyRebuilt'
    BY <1>1, <1>2, <1>3 DEF TaxonomyIntegrity, TaxonomyRebuilt, Public
<1>5. exact \in ProjectionState /\ snapshot \in Snapshots /\ exactJob \in ExactJob \cup {None}
    BY DEF RowsTypeOK
<1>6. [d \in Docs |-> Projected(docs[d])] \in Snapshots
    BY ProjectedType DEF RowsTypeOK, Snapshots
<1>7. exact' \in ProjectionState /\ snapshot' \in Snapshots /\ exactJob' \in ExactJob \cup {None}
  <2>1. CASE BeginExactBackfill
    BY <1>5, <2>1 DEF BeginExactBackfill, ProjectionState, ExactJob
  <2>2. CASE RebuildExact
    BY <1>5, <1>6, <2>2 DEF RebuildExact, ExactJob
  <2>3. CASE CommitExactBackfill
    <3>1. snapshot' \in Snapshots
      BY <1>6, <2>3 DEF CommitExactBackfill, ExactRebuilt
    <3>2. Cardinality({d \in Docs : exactJob.rows[d] # 0}) \in Nat
      BY DiscoveryAssumption, FS_Subset, FS_CardinalityType
    <3>3. exact.revision \in Nat
      BY <1>5 DEF ProjectionState
    <3>4. exact' \in ProjectionState
      BY <2>3, <3>2, <3>3 DEF CommitExactBackfill, ProjectionState
    <3> QED
      BY <2>3, <3>1, <3>4 DEF CommitExactBackfill
  <2>4. CASE FailExactBackfill
    BY <1>5, <2>4 DEF FailExactBackfill, ProjectionState
  <2> QED
    BY <2>1, <2>2, <2>3, <2>4
<1>8. RowsTypeOK'
    BY <1>1, <1>2, <1>7 DEF RowsTypeOK
<1>9. ExactIntegrity' /\ ExactRebuilt'
  <2>1. CASE BeginExactBackfill
    BY <1>2, <2>1 DEF BeginExactBackfill, ExactIntegrity, ExactRebuilt
  <2>2. CASE RebuildExact
    BY <1>2, <2>2 DEF RebuildExact, ExactIntegrity, ExactRebuilt
  <2>3. CASE CommitExactBackfill
    BY <1>2, <2>3 DEF CommitExactBackfill, ExactIntegrity, ExactRebuilt
  <2>4. CASE FailExactBackfill
    BY <1>2, <2>4 DEF FailExactBackfill, ExactIntegrity, ExactRebuilt
  <2> QED
    BY <2>1, <2>2, <2>3, <2>4
<1> QED
    BY <1>3, <1>4, <1>8, <1>9

\* What a rebuild of the taxonomy projects is what the documents' own writes
\* have projected.
LEMMA RebuildIsCurrent ==
    ASSUME DiscoveryInductive, RebuildTaxonomy
    PROVE  /\ TaxonomyRebuilt' /\ taxonomyJob' \in TaxonomyJob
<1> USE DEF DiscoveryInductive
<1> DEFINE public == {d \in Docs : Public(d)}
           rows == [d \in public |-> Entries(docs[d])]
           all == [d \in Docs |-> IF d \in public THEN rows[d] ELSE None]
           touched == term # None \/ Aggregate(all) # None
<1>1. /\ taxonomyJob' = [at |-> "rebuilt", revision |-> taxonomyJob.revision, before |-> taxonomyJob.before,
                         rows |-> rows, term |-> Aggregate(all), touched |-> touched]
      /\ \A s \in Slots : tx[s] # None => tx[s].doc \notin public
      /\ touched => ~TaxonomyLocked
      /\ UNCHANGED <<membership, docs, tx>>
      /\ taxonomyJob # None /\ taxonomyJob.at = "building"
    BY DEF RebuildTaxonomy, docVars
<1>2. all = membership
  <2>1. ASSUME NEW d \in Docs PROVE all[d] = membership[d]
    BY DEF TaxonomyIntegrity, Public, Entries
  <2>2. membership = [d \in Docs |-> membership[d]]
    BY DEF RowsTypeOK
  <2> QED
    BY <2>1, <2>2
<1>3. rows \in SomeMemberships
  <2>1. \A d \in public : Entries(docs[d]) \in Membership \cup {None}
    BY EntriesType DEF RowsTypeOK
  <2>2. rows \in [public -> Membership \cup {None}]
    BY <2>1
  <2>3. public \in SUBSET Docs
    OBVIOUS
  <2> QED
    BY <2>2, <2>3 DEF SomeMemberships
<1>4. taxonomyJob.revision \in Nat /\ taxonomyJob.before \in Digest
    BY <1>1 DEF RowsTypeOK, TaxonomyJob
<1>5. Aggregate(all) \in TermLabels
    BY <1>2, AggregateType DEF RowsTypeOK
<1>6. DOMAIN rows = public /\ \A d \in public : rows[d] = Entries(docs[d])
    OBVIOUS
<1>7. touched \in BOOLEAN
    OBVIOUS
<1> HIDE DEF rows, all, touched
<1>8. taxonomyJob' \in TaxonomyJob
    BY <1>1, <1>3, <1>4, <1>5, <1>7 DEF TaxonomyJob
<1>9. taxonomyJob'.rows = rows /\ taxonomyJob'.term = Aggregate(all) /\ taxonomyJob'.touched = touched
    BY <1>1
<1>10. TaxonomyLocked' <=> TaxonomyLocked
    BY <1>1 DEF TaxonomyLocked, At
<1>11. \A d \in public : d \in Docs /\ Public(d)' /\ Entries(docs'[d]) = Entries(docs[d])
    BY <1>1 DEF Public
<1>12. Aggregate(membership') = Aggregate(all)
    BY <1>1, <1>2
<1>13. TaxonomyRebuilt'
    BY <1>1, <1>6, <1>9, <1>10, <1>11, <1>12 DEF TaxonomyRebuilt
<1> QED
    BY <1>8, <1>13

\* Its commit writes the memberships and the term that are there.
LEMMA CommitTaxonomyChangesNothing ==
    ASSUME DiscoveryInductive, CommitTaxonomyBackfill
    PROVE  membership' = membership /\ term' = term
<1> USE DEF DiscoveryInductive
<1> DEFINE rows == [d \in Docs |->
                IF d \in DOMAIN taxonomyJob.rows THEN taxonomyJob.rows[d] ELSE membership[d]]
<1>1. taxonomyJob # None /\ taxonomyJob.at = "rebuilt" /\ membership' = rows
    BY DEF CommitTaxonomyBackfill
<1>2. \A d \in Docs : rows[d] = membership[d]
    BY <1>1 DEF TaxonomyRebuilt, TaxonomyIntegrity
<1>3. membership = [d \in Docs |-> membership[d]]
    BY DEF RowsTypeOK
<1>4. membership' = membership
    BY <1>1, <1>2, <1>3
<1>5. term' = term
    BY <1>1 DEF CommitTaxonomyBackfill, TaxonomyRebuilt, TaxonomyIntegrity
<1> QED
    BY <1>4, <1>5

LEMMA TaxonomyJobKeeps ==
    ASSUME DiscoveryInductive,
           \/ BeginTaxonomyBackfill \/ DigestTaxonomy \/ TaxonomyBuilding \/ RebuildTaxonomy
           \/ CommitTaxonomyBackfill \/ FailTaxonomyBackfill
    PROVE  DiscoveryInductive'
<1> USE DEF DiscoveryInductive
<1> DEFINE Step == \/ BeginTaxonomyBackfill \/ DigestTaxonomy \/ TaxonomyBuilding \/ RebuildTaxonomy
                   \/ CommitTaxonomyBackfill \/ FailTaxonomyBackfill
<1>1. UNCHANGED docVars /\ UNCHANGED <<snapshot, exact, exactJob>>
    BY DEF BeginTaxonomyBackfill, DigestTaxonomy, TaxonomyBuilding, RebuildTaxonomy,
        CommitTaxonomyBackfill, FailTaxonomyBackfill, exactVars
<1>2. UNCHANGED <<docs, events, sequence, tx>>
    BY <1>1 DEF docVars
<1>3. membership' = membership /\ term' = term
    BY CommitTaxonomyChangesNothing DEF BeginTaxonomyBackfill, DigestTaxonomy, TaxonomyBuilding,
        RebuildTaxonomy, FailTaxonomyBackfill
<1>4. /\ VersionsCounted' /\ OneWriter' /\ NewVersions' /\ OneTaxonomyLock' /\ AllRecalculated'
    BY <1>1, <1>3, WritesStay
<1>5. ExactIntegrity' /\ ExactRebuilt' /\ TaxonomyIntegrity'
    BY <1>1, <1>2, <1>3 DEF ExactIntegrity, ExactRebuilt, TaxonomyIntegrity
<1>6. taxonomy \in ProjectionState /\ taxonomy.revision \in Nat /\ taxonomyJob \in TaxonomyJob \cup {None}
    BY DEF RowsTypeOK, ProjectionState
<1>7. TaxonomyDigest(membership) \in Digest
    BY DEF RowsTypeOK, TaxonomyDigest, Digest, Membership
<1>8. taxonomyJob # None => taxonomyJob.revision \in Nat
    BY <1>6 DEF TaxonomyJob
<1>9. taxonomy' \in ProjectionState /\ taxonomyJob' \in TaxonomyJob \cup {None} /\ TaxonomyRebuilt'
  <2>1. CASE BeginTaxonomyBackfill
    BY <1>6, <2>1 DEF BeginTaxonomyBackfill, TaxonomyJob, TaxonomyRebuilt
  <2>2. CASE DigestTaxonomy
    BY <1>6, <1>7, <1>8, <2>2 DEF DigestTaxonomy, TaxonomyJob, TaxonomyRebuilt
  <2>3. CASE TaxonomyBuilding
    <3>1. taxonomyJob \in [at: {"digested", "building"}, revision: Nat, before: Digest]
      BY <1>6, <2>3 DEF TaxonomyBuilding, TaxonomyJob
    <3>2. taxonomyJob' \in [at: {"building"}, revision: Nat, before: Digest]
      BY <2>3, <3>1 DEF TaxonomyBuilding
    <3>3. taxonomyJob' \in TaxonomyJob /\ taxonomyJob'.at = "building"
      BY <3>2 DEF TaxonomyJob
    <3>4. taxonomy' \in ProjectionState
      BY <1>6, <2>3 DEF TaxonomyBuilding, ProjectionState
    <3> QED
      BY <3>3, <3>4 DEF TaxonomyRebuilt
  <2>4. CASE RebuildTaxonomy
    BY <1>6, <2>4, RebuildIsCurrent DEF RebuildTaxonomy
  <2>5. CASE CommitTaxonomyBackfill
    BY <1>6, <1>8, <2>5 DEF CommitTaxonomyBackfill, ProjectionState, TaxonomyRebuilt
  <2>6. CASE FailTaxonomyBackfill
    BY <1>6, <2>6 DEF FailTaxonomyBackfill, ProjectionState, TaxonomyRebuilt
  <2> QED
    BY <2>1, <2>2, <2>3, <2>4, <2>5, <2>6
<1>10. RowsTypeOK'
    BY <1>1, <1>2, <1>3, <1>9 DEF RowsTypeOK
<1> QED
    BY <1>4, <1>5, <1>9, <1>10

LEMMA ReadersKeep ==
    ASSUME DiscoveryInductive, UNCHANGED <<docVars, exactVars, taxonomyVars>>
    PROVE  DiscoveryInductive'
<1> USE DEF DiscoveryInductive
<1>1. UNCHANGED docVars
        /\ UNCHANGED <<docs, events, sequence, tx, snapshot, exact, exactJob, membership, term, taxonomy, taxonomyJob>>
    BY DEF docVars, exactVars, taxonomyVars
<1>2. /\ VersionsCounted' /\ OneWriter' /\ NewVersions' /\ OneTaxonomyLock'
      /\ (TaxonomyLocked' <=> TaxonomyLocked) /\ AllRecalculated'
    BY <1>1, WritesStay
<1>3. ExactIntegrity' /\ ExactRebuilt' /\ TaxonomyIntegrity' /\ TaxonomyRebuilt'
    BY <1>1, <1>2 DEF ExactIntegrity, ExactRebuilt, TaxonomyIntegrity, TaxonomyRebuilt, Public
<1>4. RowsTypeOK'
    BY <1>1 DEF RowsTypeOK
<1> QED
    BY <1>2, <1>3, <1>4

-----------------------------------------------------------------------------
(* Theorems *)

LEMMA DiscoveryInit == Init => DiscoveryInductive
<1> SUFFICES ASSUME Init PROVE DiscoveryInductive
    OBVIOUS
<1>1. \A d \in Docs : docs[d] \in Document \cup {None} /\ (docs[d] # None => docs[d].version = 1)
  <2>1. 1 \in Versions
    BY DiscoveryAssumption DEF Versions
  <2>2. ASSUME NEW l \in Labels \cup {None}
        PROVE  [version |-> 1, public |-> TRUE, label |-> l] \in Document
    BY <2>1 DEF Document
  <2>3. \A d \in Docs : docs[d] \in {None} \cup
            {[version |-> 1, public |-> TRUE, label |-> l] : l \in Labels \cup {None}}
    BY DEF Init
  <2> QED
    BY <2>2, <2>3
<1>2. docs \in [Docs -> Document \cup {None}]
    BY <1>1 DEF Init
<1>3. snapshot \in Snapshots
    BY <1>1, ProjectedType DEF Init, Snapshots
<1>4. membership \in [Docs -> Membership \cup {None}]
    BY <1>1, EntriesType DEF Init
<1>5. term \in TermLabels
    BY <1>4, AggregateType DEF Init
<1>6. RowsTypeOK
    BY <1>2, <1>3, <1>4, <1>5, DiscoveryAssumption DEF Init, RowsTypeOK, ProjectionState
<1>7. VersionsCounted /\ OneWriter
    BY <1>1 DEF Init, VersionsCounted, OneWriter
<1>8. NewVersions /\ AllRecalculated /\ OneTaxonomyLock
    BY DEF Init, NewVersions, NewVersion, AllRecalculated, Recalculated, OneTaxonomyLock, At
<1>9. ExactIntegrity /\ ExactRebuilt /\ TaxonomyIntegrity /\ TaxonomyRebuilt
    BY DEF Init, ExactIntegrity, ExactRebuilt, TaxonomyIntegrity, TaxonomyRebuilt
<1> QED
    BY <1>6, <1>7, <1>8, <1>9 DEF DiscoveryInductive

\* A write that may begin has a later row, an erasure has none.
LEMMA BegunWritesKeep ==
    ASSUME DiscoveryInductive, NEW s \in Slots, NEW d \in Docs,
           \/ BeginWrite(s, d, None)
           \/ BeginWrite(s, d, NextRow(d, FALSE, None))
           \/ \E label \in Labels \cup {None} : BeginWrite(s, d, NextRow(d, TRUE, label))
    PROVE  DiscoveryInductive' /\ UNCHANGED <<docs, exact>>
<1>1. ASSUME NEW row, LaterRow(d, row), BeginWrite(s, d, row)
      PROVE  DiscoveryInductive' /\ UNCHANGED <<docs, exact>>
    BY <1>1, BeginWriteKeeps DEF BeginWrite, exactVars
<1>2. CASE BeginWrite(s, d, None)
    BY <1>1, <1>2 DEF LaterRow
<1>3. ASSUME NEW public \in BOOLEAN, NEW label \in Labels \cup {None},
             BeginWrite(s, d, NextRow(d, public, label))
      PROVE  DiscoveryInductive' /\ UNCHANGED <<docs, exact>>
  <2>1. sequence < MaxWrites
    BY <1>3 DEF BeginWrite
  <2> QED
    BY <1>1, <1>3, <2>1, NextRowIsLater
<1> QED
    BY <1>2, <1>3

LEMMA DiscoveryNext == DiscoveryInductive /\ [Next]_vars => DiscoveryInductive'
<1> SUFFICES ASSUME DiscoveryInductive, [Next]_vars PROVE DiscoveryInductive'
    OBVIOUS
<1>1. CASE \E c \in {None, cursor}, filter \in Filters : BeginSearch(c, filter)
    BY <1>1, ReadersKeep DEF BeginSearch
<1>2. CASE ReadRows \/ SelectPage \/ AnswerSearch \/ RefuseSearch \/ Changes
    BY <1>2, ReadersKeep DEF ReadRows, SelectPage, AnswerSearch, RefuseSearch, Changes
<1>3. CASE UNCHANGED vars
    BY <1>3, ReadersKeep DEF vars
<1> QED
    BY <1>1, <1>2, <1>3, BegunWritesKeep, ProjectTaxonomyKeeps, AbortWriteKeeps, CommitWriteKeeps,
        ExactJobKeeps, TaxonomyJobKeeps DEF Next

\* The inductive invariant of the projections, which the theorems below rest
\* on: both agree with the documents in every state, because each lock keeps
\* true what its holder has read or calculated.
THEOREM DiscoveryInductiveHolds == Spec => []DiscoveryInductive
BY DiscoveryInit, DiscoveryNext, PTL DEF Spec

\* The rows of the documents and of both projections, the open writes and the
\* backfills have their types, and no version outruns the writes that the feed
\* has numbered (DocumentService.update, ExactSearchService.backfill,
\* TaxonomyService.backfill).
THEOREM RowsTypeCorrect == Spec => []RowsTypeOK
BY DiscoveryInductiveHolds, PTL DEF DiscoveryInductive

\* A projection that is ready passes verify_integrity, whichever writes ran
\* while it was rebuilt, for any number of documents, labels, writes and
\* backfills (upsert_document, remove_document, replace_document_projection,
\* backfill).
THEOREM ReadyProjectionsAreCurrent == Spec => []ReadyMeansCurrent
<1>1. DiscoveryInductive => ReadyMeansCurrent
    BY DEF DiscoveryInductive, ReadyMeansCurrent
<1> QED
    BY <1>1, DiscoveryInductiveHolds, PTL

\* A write that leaves the revision concerns a document that was not public
\* and does not become so.
LEMMA UnmovedWrite ==
    ASSUME DiscoveryInductive, NEW s \in Slots, CommitWrite(s)
    PROVE  RevisionCoversRows
<1> USE DEF DiscoveryInductive
<1> DEFINE d == tx[s].doc
           row == tx[s].row
<1>1. tx[s] # None /\ d \in Docs /\ row \in Document \cup {None}
    BY MembershipAfterType DEF CommitWrite, At
<1>2. exact.revision \in Nat /\ docs \in [Docs -> Document \cup {None}]
    BY DEF RowsTypeOK, ProjectionState
<1>3. CASE Moves(d, Projected(row))
  <2>1. exact'.revision = exact.revision + 1
    BY <1>3 DEF CommitWrite, ProjectExact, RowsTypeOK, ProjectionState
  <2> QED
    BY <1>2, <2>1 DEF RevisionCoversRows
<1>4. CASE ~Moves(d, Projected(row))
  <2>1. exact' = exact /\ docs' = [docs EXCEPT ![d] = row]
    BY <1>4 DEF CommitWrite, ProjectExact
  <2>2. Projected(docs[d]) = Projected(row)
    BY <1>1, <1>4 DEF Moves, ExactIntegrity
  <2>3. /\ docs[d] # None => docs[d].version \in Nat \ {0}
        /\ row # None => row.version \in Nat \ {0}
        /\ docs[d] # None /\ row # None => row.version > docs[d].version
    BY <1>1, <1>2 DEF Document, Versions, NewVersions, NewVersion
  <2>4. ~Public(d) /\ ~(row # None /\ row.public)
    BY <2>2, <2>3 DEF Projected, Public
  <2>5. ASSUME NEW e \in Docs
        PROVE  (Public(e)' <=> Public(e)) /\ (Public(e) => docs'[e] = docs[e])
    BY <1>1, <1>2, <2>1, <2>4 DEF Public
  <2>6. {e \in Docs : Public(e)}' = {e \in Docs : Public(e)}
    BY <2>5
  <2>7. PublicRows' = PublicRows
    BY <2>5, <2>6 DEF PublicRows
  <2> QED
    BY <1>2, <2>1, <2>7 DEF RevisionCoversRows
<1> QED
    BY <1>3, <1>4

LEMMA StepCoversRows == DiscoveryInductive /\ [Next]_vars => RevisionCoversRows
<1> SUFFICES ASSUME DiscoveryInductive, [Next]_vars PROVE RevisionCoversRows
    OBVIOUS
<1>1. exact.revision \in Nat /\ exact \in ProjectionState
    BY DEF DiscoveryInductive, RowsTypeOK, ProjectionState
<1>2. ASSUME UNCHANGED docs, exact'.revision >= exact.revision PROVE RevisionCoversRows
    BY <1>2 DEF RevisionCoversRows, PublicRows, Public
<1>3. ASSUME UNCHANGED <<docs, exact>> PROVE RevisionCoversRows
    BY <1>1, <1>2, <1>3
<1>4. CASE BeginExactBackfill \/ RebuildExact \/ FailExactBackfill
  <2>1. exact'.revision = exact.revision /\ UNCHANGED docs
    BY <1>1, <1>4 DEF BeginExactBackfill, RebuildExact, FailExactBackfill, docVars, ProjectionState
  <2> QED
    BY <1>1, <1>2, <2>1
<1>5. CASE CommitExactBackfill
  <2>1. Cardinality({d \in Docs : exactJob.rows[d] # 0}) \in Nat
    BY DiscoveryAssumption, FS_Subset, FS_CardinalityType
  <2>2. exact'.revision >= exact.revision /\ UNCHANGED docs
    BY <1>1, <1>5, <2>1 DEF CommitExactBackfill, docVars
  <2> QED
    BY <1>2, <2>2
<1>6. CASE \/ BeginTaxonomyBackfill \/ DigestTaxonomy \/ TaxonomyBuilding \/ RebuildTaxonomy
           \/ CommitTaxonomyBackfill \/ FailTaxonomyBackfill
    BY <1>3, <1>6 DEF BeginTaxonomyBackfill, DigestTaxonomy, TaxonomyBuilding, RebuildTaxonomy,
        CommitTaxonomyBackfill, FailTaxonomyBackfill, docVars, exactVars
<1>7. CASE \/ ReadRows \/ SelectPage \/ AnswerSearch \/ RefuseSearch \/ Changes
           \/ \E c \in {None, cursor}, filter \in Filters : BeginSearch(c, filter)
    BY <1>3, <1>7 DEF ReadRows, SelectPage, AnswerSearch, RefuseSearch, Changes, BeginSearch, docVars, exactVars
<1>8. ASSUME NEW s \in Slots, ProjectTaxonomy(s) \/ AbortWrite(s) PROVE RevisionCoversRows
    BY <1>3, <1>8 DEF ProjectTaxonomy, AbortWrite, exactVars
<1>9. CASE UNCHANGED vars
    BY <1>3, <1>9 DEF vars, docVars, exactVars
<1> QED
    BY <1>3, <1>4, <1>5, <1>6, <1>7, <1>8, <1>9, BegunWritesKeep, UnmovedWrite DEF Next

\* Two reads of one exact revision are of the same public documents in the same
\* versions: a search that compares the revision at its end, and a cursor that
\* carries it, have seen one result (ExactSearchService.search).
THEOREM RevisionsNameResults == Spec => RevisionNamesResults
BY DiscoveryInductiveHolds, StepCoversRows, PTL DEF Spec, RevisionNamesResults
=============================================================================
