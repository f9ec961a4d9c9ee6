--------------------------- MODULE VersionIndexing ---------------------------
(***************************************************************************)
(* The source sync and the rustdoc sync of one crate, run against the same *)
(* tables by the refresh worker (local_cache and rustdoc_json jobs) and by *)
(* tool calls (index_refresh, index_crates with a version).                *)
(***************************************************************************)
EXTENDS RustdocIndex

CONSTANT MaxCalls    \* bound: tool calls

ASSUME CallAssumption == MaxCalls \in Nat /\ {"worker", "call"} \subseteq Runners

VARIABLE calls       \* tool calls so far

indexVars == <<sourceVars, docVars, calls>>

\* The tables when the server starts: some versions were enriched before, some
\* have sources on disk, and so many of the calls and edits are over.
IndexInit ==
    /\ dirs \in SUBSET Present /\ enriched \in SUBSET Present /\ calls \in 0..MaxCalls
    /\ online = enriched /\ cooling = {} /\ tried = enriched
    /\ edits \in 0..MaxEdits /\ indexFaults = 0
    /\ disk = [v \in Indexed |-> [q \in Paths |-> IF v \in dirs THEN "old" ELSE Absent]]
    /\ files = [v \in Indexed |-> [q \in AllPaths |->
                   IF v \in enriched /\ q = DocsRs THEN [sha |-> "json", id |-> 1] ELSE NoFile]]
    /\ rows = [v \in Indexed |-> IF v \in enriched
                   THEN {Row(1, "rustdoc_json", i, 0) : i \in DocItems[DocsRs]} ELSE {}]
    /\ run = [p \in Runners |-> IdleRun]

ACall == calls < MaxCalls /\ calls' = calls + 1

\* The worker claims a local_cache job ...
SourceJob == StartSource("worker", Present, Paths)

\* ... or a rustdoc_json job, which enrichment maintenance enqueues while a
\* present version needs it (fetch_unenriched_crate_names).
DocJob ==
    /\ At("worker", "idle")
    /\ DocCandidates(TRUE, FALSE) \cap Present # {}
    /\ StartDocs("worker", Present, TRUE, FALSE)

\* index_refresh with scope local_cache, and a path filter if query is given.
RefreshSource(filter) == StartSource("call", Indexed, filter)

\* index_refresh with scope rustdoc_json takes enriched versions, too.
RefreshDocs == At("call", "idle") /\ StartDocs("call", Indexed, FALSE, TRUE)

\* index_crate_version: source on disk, source sync, rustdoc sync.
IndexCrateVersion(v) ==
    /\ At("call", "idle")
    /\ Goto("call", [IdleRun EXCEPT !.pc = "ensure", !.v = v, !.filter = Paths, !.follows = TRUE])
    /\ UNCHANGED <<dirs, disk, edits, files, rows, indexFaults>>

\* One step of the sync p runs.
RunStep(p) ==
    \/ SourceStep(p) /\ UNCHANGED docVars /\ UNCHANGED calls
    \/ DocStep(p) /\ UNCHANGED calls

IndexNext ==
    \/ \E v \in Indexed, q \in Paths, c \in Contents \cup {Absent} :
          Edit(v, q, c) /\ UNCHANGED docVars /\ UNCHANGED calls
    \/ \E v \in Indexed : (DocsRsBuilds(v) \/ CooldownElapses(v)) /\ UNCHANGED calls
    \/ SourceJob /\ UNCHANGED docVars /\ UNCHANGED calls
    \/ DocJob /\ UNCHANGED calls
    \/ RefreshDocs /\ ACall
    \/ \E filter \in {Paths, {1}} : RefreshSource(filter) /\ ACall /\ UNCHANGED docVars
    \/ \E v \in Indexed : IndexCrateVersion(v) /\ ACall /\ UNCHANGED docVars
    \/ \E p \in Runners : RunStep(p) \/ (SyncFails(p) /\ UNCHANGED docVars /\ UNCHANGED calls)

\* A sync that runs goes on; the queue is first come, first served, so a
\* rustdoc job gets its turn between local_cache jobs; cooldowns end in order.
IndexFairness ==
    /\ \A p \in Runners : WF_indexVars(RunStep(p))
    /\ SF_indexVars(DocJob /\ UNCHANGED calls)
    /\ \A v \in Indexed : SF_indexVars(CooldownElapses(v) /\ UNCHANGED calls)

IndexSpec == IndexInit /\ [][IndexNext]_indexVars /\ IndexFairness

-----------------------------------------------------------------------------
(* Properties.                                                              *)

\* IndexTypeOK: the tables keep their foreign keys, whatever syncs overlap: files
\* have ids of their own and every row belongs to a file of its version, of its
\* own kind; only versions that a rustdoc sync picked are marked, and only an
\* indexed version is worked on (replace_*, prune_source_file_index_and_files).
IndexTypeOK ==
    /\ \A v \in Indexed :
          /\ \A q, z \in AllPaths : files[v][q].id = files[v][z].id => q = z \/ files[v][q] = NoFile
          /\ \A x \in rows[v] :
                IF x.src = "syn" THEN x.fid \in IdsAt(v, RustPaths) ELSE x.fid \in IdsAt(v, DocPaths)
    /\ enriched \cup cooling \subseteq tried /\ tried \subseteq Indexed
    /\ \A p \in Runners : run[p].pc \in {"scan", "upsert", "count", "insert"} => run[p].v \in Indexed

\* RustdocWhole: an enriched version has the rows of exactly one document, all
\* of them and each once, whatever syncs run at the same time, fail half-way or
\* prune source files (ingest_rustdoc_json_document, prune_*).
RustdocWhole ==
    \A v \in enriched : \E d \in DocPaths :
        /\ {x.item : x \in RustdocRows(v)} = DocItems[d]
        /\ Cardinality(RustdocRows(v)) = Cardinality(DocItems[d])
        /\ \A x \in RustdocRows(v) : x.fid = files[v][d].id

\* FilesIndexed: when source syncs of a present version keep coming and the disk
\* is left alone, every Rust file that parses ends up with rows, although a
\* sync died between writing the digest and the rows (sync_local_source_cache).
HasRows(v) ==
    \A q \in RustPaths : disk[v][q] \in Contents \ {Unparsable} =>
        \E x \in rows[v] : x.fid = files[v][q].id
FilesIndexed ==
    \A v \in Present : []<>(At("worker", "scan") /\ run["worker"].v = v) => <>[]HasRows(v)

\* EnrichmentReached: a present version whose JSON docs.rs serves is enriched
\* in the end, although a job takes one page and attempts that fail put
\* versions on a cooldown (sync_rustdoc_json_cache, run_enrichment_maintenance).
\* It holds for crates whose name has no underscore (NameHasUnderscore).
EnrichmentReached == \A v \in Present : (v \in online) ~> (v \in enriched)
=============================================================================
