---------------------------- MODULE RustdocIndex ----------------------------
(***************************************************************************)
(* Rustdoc JSON enrichment of the versions of a crate (rustdoc_json.rs),   *)
(* in the tables of SourceIndex: docs.rs first, then the local fallback    *)
(* directory; a version neither can serve cools down before the next try.  *)
(***************************************************************************)
EXTENDS SourceIndex

CONSTANTS
    LocalDoc,        \* the fallback file of each version: "none", "exact", "any"
    NameHasUnderscore, \* the crate's name on crates.io contains '_'
    Present,         \* the locally present versions
    RustdocPage,     \* per_page of a rustdoc sync
    DocItems         \* the items of the two documents, by document

ASSUME RustdocAssumption ==
    /\ LocalDoc \in [Indexed -> {"none", "exact", "any"}]
    /\ NameHasUnderscore \in BOOLEAN /\ Present \subseteq Indexed
    /\ RustdocPage \in Nat \ {0}
    /\ \A d \in DocPaths : IsFiniteSet(DocItems[d])

\* rustdoc gives the items of a crate small numbers from 0 on, so two documents
\* of a version share one; disjoint ones would not clash in InsertDocRows.
ASSUME SharedItems ==
    \A d, e \in DocPaths : DocItems[d] # {} /\ DocItems[e] # {} => DocItems[d] \cap DocItems[e] # {}

VARIABLES
    online,      \* versions whose JSON docs.rs serves
    enriched,    \* rustdoc_enriched_at is set
    cooling,     \* rustdoc_last_attempt_at is younger than the cooldown
    tried        \* versions a sync picked at least once

docVars == <<online, enriched, cooling, tried>>

\* docs.rs builds the documentation of a version.
DocsRsBuilds(v) ==
    /\ v \notin online
    /\ online' = online \cup {v}
    /\ UNCHANGED <<enriched, cooling, tried>> /\ UNCHANGED sourceVars

\* Mutant: a version that was tried before is a candidate at once.
DocCandidatesAgain(skip, retryNow) ==
    IF skip THEN Indexed \ enriched ELSE Indexed

\* fetch_rustdoc_sync_candidates: an explicit refresh takes every version, the
\* others those not enriched and, unless they retry now, not cooling down.
DocCandidates(skip, retryNow) ==
    IF ~skip THEN Indexed
    ELSE {v \in Indexed \ enriched : retryNow \/ v \notin cooling}

\* The retry cooldown of a version elapses: it is long, so whatever else waits
\* for the worker is tried before.
CooldownElapses(v) ==
    /\ v \in cooling /\ DocCandidates(TRUE, FALSE) \cap Present = {}
    /\ cooling' = cooling \ {v}
    /\ UNCHANGED <<online, enriched, tried>> /\ UNCHANGED sourceVars

NextDoc(r) ==
    IF r.todo = {} THEN IdleRun
    ELSE [IdleRun EXCEPT !.pc = "fetch", !.v = Max(r.todo), !.todo = r.todo \ {Max(r.todo)}]

\* A sync of the first page of the candidates among V, newest first.
StartDocs(p, V, skip, retryNow) ==
    LET page == FirstPage(DocCandidates(skip, retryNow) \cap V, RustdocPage)
    IN  /\ Goto(p, NextDoc([IdleRun EXCEPT !.todo = page]))
        /\ tried' = tried \cup page
        /\ UNCHANGED <<online, enriched, cooling>>
        /\ UNCHANGED <<dirs, disk, edits, files, rows, indexFaults>>

\* The rustdoc sync of index_crate_version, for its one version.
PickVersion(p) ==
    /\ At(p, "pick")
    /\ StartDocs(p, {run[p].v}, TRUE, TRUE)

\* A document that cannot be used: the fallback after docs.rs, an exact file
\* before one without a version; then the version counts as attempted.
GiveUpDoc(r, doc) ==
    IF doc = DocsRs /\ LocalDoc[r.v] # "none"
    THEN [r EXCEPT !.pc = "ingest", !.doc = Local, !.gone = {}, !.fid = NoId]
    ELSE [r EXCEPT !.pc = "attempted", !.gone = {}, !.fid = NoId]

\* fetch_rustdoc_json and the decoding of the payload.
FetchDoc(p) ==
    LET r == run[p]
    IN  /\ At(p, "fetch")
        /\ \/ /\ r.v \in online /\ UNCHANGED indexFaults
              /\ Goto(p, [r EXCEPT !.pc = "ingest", !.doc = DocsRs])
           \/ /\ IF r.v \in online THEN IndexFault ELSE UNCHANGED indexFaults
              /\ Goto(p, GiveUpDoc(r, DocsRs))
        /\ UNCHANGED docVars /\ UNCHANGED <<dirs, disk, edits, files, rows>>

\* The crate a document is of: '_' in the root item's name becomes '-'.
NameMatches == ~NameHasUnderscore

\* ingest_rustdoc_json_document: the name is compared and the file row that
\* will own the rows is written.
IngestFile(p) ==
    LET r == run[p]
        new == Upserted(r.v, r.doc, "json")
    IN  /\ At(p, "ingest")
        /\ \/ /\ NameMatches /\ UNCHANGED indexFaults
              /\ files' = [files EXCEPT ![r.v][r.doc] = new]
              /\ Goto(p, [r EXCEPT !.pc = "docClear", !.fid = new.id])
           \/ /\ IF NameMatches THEN IndexFault ELSE UNCHANGED indexFaults
              /\ UNCHANGED files
              /\ Goto(p, GiveUpDoc(r, r.doc))
        /\ UNCHANGED docVars /\ UNCHANGED <<dirs, disk, edits, rows>>

RustdocRows(v) == {x \in rows[v] : x.src = "rustdoc_json"}

\* replace_crate_version_index_rows: the DELETE of the version's rustdoc rows ...
ClearDocRows(p) ==
    LET r == run[p]
    IN  /\ At(p, "docClear")
        /\ Goto(p, [r EXCEPT !.pc = "docInsert", !.gone = RustdocRows(r.v)])
        /\ UNCHANGED docVars /\ UNCHANGED <<dirs, disk, edits, files, rows, indexFaults>>

\* ... and the inserts: an item another sync committed meanwhile violates the
\* unique index, and the transaction is rolled back.
InsertDocRows(p) ==
    LET r == run[p]
        clash == \E x \in RustdocRows(r.v) \ r.gone : x.item \in DocItems[r.doc]
    IN  /\ At(p, "docInsert")
        /\ \/ /\ ~clash /\ UNCHANGED indexFaults
              /\ Replace(r.v, r.gone, r.fid, "rustdoc_json", DocItems[r.doc])
              /\ Goto(p, [r EXCEPT !.pc = "enriched", !.gone = {}, !.fid = NoId])
           \/ /\ IF clash THEN UNCHANGED indexFaults ELSE IndexFault
              /\ UNCHANGED rows
              /\ Goto(p, GiveUpDoc(r, r.doc))
        /\ UNCHANGED docVars /\ UNCHANGED <<dirs, disk, edits, files>>

\* mark_version_rustdoc_enriched, mark_version_rustdoc_attempted: a failure is
\* ignored.
MarkVersion(p) ==
    LET r == run[p]
    IN  /\ run[p].pc \in {"enriched", "attempted"}
        /\ Goto(p, NextDoc(r))
        /\ \/ /\ enriched' = IF At(p, "enriched") THEN enriched \cup {r.v} ELSE enriched
              /\ cooling' = cooling \cup {r.v}
              /\ UNCHANGED indexFaults
           \/ IndexFault /\ UNCHANGED <<enriched, cooling>>
        /\ UNCHANGED <<online, tried>> /\ UNCHANGED <<dirs, disk, edits, files, rows>>

DocStep(p) ==
    \/ PickVersion(p) \/ FetchDoc(p) \/ IngestFile(p) \/ ClearDocRows(p) \/ InsertDocRows(p)
    \/ MarkVersion(p)
=============================================================================
