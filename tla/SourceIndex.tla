----------------------------- MODULE SourceIndex -----------------------------
(***************************************************************************)
(* The index tables of one crate and the sync that fills them from sources *)
(* on disk (local_cache.rs, db/indexing.rs).                               *)
(*                                                                         *)
(* A sync is run by the refresh worker or by a tool call, and several may  *)
(* run at once: every database call is a step, and a transaction is two,   *)
(* the DELETE that sees what is committed and the commit.  RustdocIndex    *)
(* adds the sync that writes rustdoc rows into the same tables.            *)
(***************************************************************************)
EXTENDS Naturals, FiniteSets, FiniteSetsExt

CONSTANTS
    Indexed,         \* versions of the crate in the database, newer ones larger
    Paths,           \* numbers of the text files in a version, in path order
    RustPaths,       \* the .rs files among them
    Runners,         \* who runs syncs: "worker", "call"
    SourcePage,      \* per_page of a source sync
    MaxEdits,        \* bound: files edited, removed or put back on disk
    MaxIndexFaults   \* bound: syncs that fail or are cut off, calls that fail

ASSUME SourceAssumption ==
    /\ Indexed \subseteq Nat /\ IsFiniteSet(Indexed) /\ IsFiniteSet(Runners)
    /\ (\E n \in 1..100 : Paths = 1..n) /\ RustPaths \subseteq Paths
    /\ SourcePage \in Nat \ {0} /\ {MaxEdits, MaxIndexFaults} \subseteq Nat

VARIABLES
    dirs,        \* versions whose source directory exists
    disk,        \* disk[v][q]: the content of file q of version v
    edits,       \* changes on disk so far
    files,       \* source_files: files[v][q] is NoFile or the row's sha and id
    rows,        \* symbols, types, impls and traits: rows[v] is a set of rows
    run,         \* the syncs in progress
    indexFaults  \* failures so far

sourceVars == <<dirs, disk, edits, files, rows, run, indexFaults>>

Absent == "absent"
Unparsable == "bad"                    \* extract_rust_symbols refuses it
Contents == {"old", "new", Unparsable}

\* Paths of the synthetic files that own rustdoc rows (RUSTDOC_SOURCE_PATH_PREFIX).
DocsRs == 101
Local == 102
DocPaths == {DocsRs, Local}
AllPaths == Paths \cup DocPaths

NoFile == [sha |-> "none", id |-> 0]
NoId == 0

IdleRun == [pc |-> "idle", todo |-> {}, v |-> 0, filter |-> {}, found |-> << >>, at |-> 0,
            fid |-> NoId, wrote |-> FALSE, gone |-> {}, doc |-> 0, follows |-> FALSE]

\* Some rows are inserted twice: n tells two rows of the same item apart.
Row(fid, src, item, n) == [fid |-> fid, src |-> src, item |-> item, n |-> n]

IndexFault == indexFaults < MaxIndexFaults /\ indexFaults' = indexFaults + 1

At(p, pc) == run[p].pc = pc
Goto(p, r) == run' = [run EXCEPT ![p] = r]

\* The id of an inserted source_files row: one no row and no sync holds.
FreshId(v) ==
    CHOOSE id \in 1..(Cardinality(AllPaths) + Cardinality(Runners) + 1) :
        /\ \A q \in AllPaths : files[v][q].id # id
        /\ \A p \in Runners : run[p].fid # id

\* INSERT INTO source_files ... ON CONFLICT (crate_version_id, path) DO UPDATE.
Upserted(v, q, sha) ==
    IF files[v][q] = NoFile THEN [sha |-> sha, id |-> FreshId(v)]
    ELSE [files[v][q] EXCEPT !.sha = sha]

\* A number for new rows that no row, and no transaction in flight, uses.
FreshRow(v) ==
    CHOOSE n \in 0..(2 * Cardinality(Runners) + 2) :
        /\ \A r \in rows[v] : r.n # n
        /\ \A p \in Runners : \A r \in run[p].gone : r.n # n

\* persist of one extraction: what the DELETE saw goes, the batch comes
\* (clear_*_index_rows, insert_indexed_extraction_batch, COMMIT).
Replace(v, gone, fid, src, items) ==
    rows' = [rows EXCEPT ![v] = (@ \ gone) \cup {Row(fid, src, i, FreshRow(v)) : i \in items}]

\* The rows of a deleted file go with it (ON DELETE CASCADE).
IdsAt(v, Q) == {files[v][q].id : q \in Q} \ {NoId}

-----------------------------------------------------------------------------
(* The disk.                                                                *)

\* Somebody edits, removes or restores a file below an existing directory.
Edit(v, q, c) ==
    /\ v \in dirs /\ c \in Contents \cup {Absent} /\ c # disk[v][q]
    /\ edits < MaxEdits /\ edits' = edits + 1
    /\ disk' = [disk EXCEPT ![v][q] = c]
    /\ UNCHANGED <<dirs, files, rows, run, indexFaults>>

\* ensure_source_on_disk: the directory is there, or the archive is unpacked
\* file by file; unpacking that is cut off leaves what it wrote (see SyncFails).
UnpackNext(p) ==
    LET v == run[p].v
        q == run[p].at
    IN  /\ At(p, "unpack")
        /\ IF q \in Paths
           THEN /\ disk' = [disk EXCEPT ![v][q] = "old"]
                /\ dirs' = dirs \cup {v}
                /\ Goto(p, [run[p] EXCEPT !.at = q + 1])
           ELSE /\ Goto(p, [run[p] EXCEPT !.pc = "scan", !.at = 0])
                /\ UNCHANGED <<dirs, disk>>
        /\ UNCHANGED <<edits, files, rows, indexFaults>>

EnsureSource(p) ==
    /\ At(p, "ensure")
    /\ \/ /\ run[p].v \in dirs /\ UNCHANGED indexFaults
          /\ Goto(p, [run[p] EXCEPT !.pc = "scan"])
       \/ /\ run[p].v \notin dirs /\ UNCHANGED indexFaults
          /\ Goto(p, [run[p] EXCEPT !.pc = "unpack", !.at = 1])
       \/ /\ run[p].v \notin dirs /\ IndexFault        \* the download fails
          /\ Goto(p, [run[p] EXCEPT !.pc = "scan"])
    /\ UNCHANGED <<dirs, disk, edits, files, rows>>

-----------------------------------------------------------------------------
(* sync_local_source_cache.                                                 *)

\* Versions with a directory; of the candidates, newest first, one page is taken.
SourceCandidates(V) == V \cap dirs
FirstPage(V, size) == {v \in V : Cardinality({w \in V : w > v}) < size}

\* After the source sync: index_crate_version goes on to the rustdoc sync.
AfterSource(r) ==
    IF r.follows THEN [IdleRun EXCEPT !.pc = "pick", !.v = r.v] ELSE IdleRun

\* The next version of the page, or the end of the sync.
NextSource(r) ==
    IF r.todo = {} THEN AfterSource(r)
    ELSE [IdleRun EXCEPT !.pc = "scan", !.v = Max(r.todo), !.todo = r.todo \ {Max(r.todo)},
                         !.filter = r.filter, !.follows = r.follows]

\* A sync of the versions V whose paths the filter lets through.
StartSource(p, V, filter) ==
    /\ At(p, "idle")
    /\ SourceCandidates(V) # {}
    /\ Goto(p, NextSource([IdleRun EXCEPT !.todo = FirstPage(SourceCandidates(V), SourcePage),
                                          !.filter = filter]))
    /\ UNCHANGED <<dirs, disk, edits, files, rows, indexFaults>>

\* The files from q on that the walk found; after the last one, prune.
NextFile(r, q) ==
    LET later == {x \in DOMAIN r.found : x > q}
    IN  [r EXCEPT !.pc = IF later = {} THEN "prune" ELSE "upsert",
                  !.at = IF later = {} THEN 0 ELSE Min(later),
                  !.fid = NoId, !.wrote = FALSE, !.gone = {}]

\* scan_cache_version_dir reads every file that passes the filter; a directory
\* that cannot be read is reported and skipped.
ScanVersion(p) ==
    LET v == run[p].v
        found == {q \in run[p].filter : disk[v][q] # Absent}
    IN  /\ At(p, "scan")
        /\ \/ /\ v \in dirs /\ UNCHANGED indexFaults
              /\ Goto(p, NextFile([run[p] EXCEPT !.found = [q \in found |-> disk[v][q]]], 0))
           \/ /\ IF v \in dirs THEN IndexFault ELSE UNCHANGED indexFaults
              /\ Goto(p, NextSource(run[p]))
        /\ UNCHANGED <<dirs, disk, edits, files, rows>>

\* upsert_source_file_if_sha_changed.
UpsertFile(p) ==
    LET r == run[p]
        q == r.at
        sha == r.found[q]
        new == Upserted(r.v, q, sha)
    IN  /\ At(p, "upsert")
        /\ IF files[r.v][q].sha = sha
           THEN /\ Goto(p, [r EXCEPT !.pc = "lookup"])
                /\ UNCHANGED files
           ELSE /\ files' = [files EXCEPT ![r.v][q] = new]
                /\ Goto(p, IF q \in RustPaths
                           THEN [r EXCEPT !.pc = "count", !.fid = new.id, !.wrote = TRUE]
                           ELSE NextFile(r, q))
        /\ UNCHANGED <<dirs, disk, edits, rows, indexFaults>>

\* fetch_source_file_id_optional: another sync may have pruned the row.
LookupFile(p) ==
    LET r == run[p]
        id == files[r.v][r.at].id
    IN  /\ At(p, "lookup")
        /\ Goto(p, IF r.at \notin RustPaths \/ id = NoId THEN NextFile(r, r.at)
                   ELSE [r EXCEPT !.pc = "count", !.fid = id])
        /\ UNCHANGED <<dirs, disk, edits, files, rows, indexFaults>>

\* Mutant: only a file whose digest changed is extracted.
CountRowsChangedOnly(p) ==
    LET r == run[p]
    IN  /\ At(p, "count")
        /\ Goto(p, IF r.wrote /\ r.found[r.at] # Unparsable
                   THEN [r EXCEPT !.pc = "clear"] ELSE NextFile(r, r.at))
        /\ UNCHANGED <<dirs, disk, edits, files, rows, indexFaults>>

\* count_source_file_index_rows: a file without rows is extracted although its
\* digest is unchanged, so what an interrupted sync left out is made up for.
CountRows(p) ==
    LET r == run[p]
        empty == ~\E x \in rows[r.v] : x.fid = r.fid
    IN  /\ At(p, "count")
        /\ Goto(p, IF (r.wrote \/ empty) /\ r.found[r.at] # Unparsable
                   THEN [r EXCEPT !.pc = "clear"] ELSE NextFile(r, r.at))
        /\ UNCHANGED <<dirs, disk, edits, files, rows, indexFaults>>

\* replace_source_file_index_rows: the DELETE ...
ClearFileRows(p) ==
    LET r == run[p]
    IN  /\ At(p, "clear")
        /\ Goto(p, [r EXCEPT !.pc = "insert", !.gone = {x \in rows[r.v] : x.fid = r.fid}])
        /\ UNCHANGED <<dirs, disk, edits, files, rows, indexFaults>>

\* Mutant: the row of the file is not looked at.
InsertFileRowsAnyway(p) ==
    LET r == run[p]
    IN  /\ At(p, "insert")
        /\ Replace(r.v, r.gone, r.fid, "syn", {r.found[r.at]})
        /\ Goto(p, NextFile(r, r.at))
        /\ UNCHANGED <<dirs, disk, edits, files, indexFaults>>

\* ... and the inserts and the commit; without the source_files row the foreign
\* key refuses them and the sync ends.
InsertFileRows(p) ==
    LET r == run[p]
    IN  /\ At(p, "insert")
        /\ IF r.fid \in IdsAt(r.v, AllPaths)
           THEN /\ Replace(r.v, r.gone, r.fid, "syn", {r.found[r.at]})
                /\ Goto(p, NextFile(r, r.at))
           ELSE Goto(p, AfterSource(r)) /\ UNCHANGED rows
        /\ UNCHANGED <<dirs, disk, edits, files, indexFaults>>

\* Mutant: rustdoc rows are pruned with the rest.
PruneFilesAll(p) ==
    LET r == run[p]
        stale == AllPaths \ DOMAIN r.found
    IN  /\ At(p, "prune")
        /\ rows' = [rows EXCEPT ![r.v] = {x \in @ : x.fid \notin IdsAt(r.v, stale)}]
        /\ files' = [files EXCEPT ![r.v] = [q \in AllPaths |-> IF q \in stale THEN NoFile ELSE @[q]]]
        /\ Goto(p, NextSource(r))
        /\ UNCHANGED <<dirs, disk, edits, indexFaults>>

\* prune_source_file_index_and_files: what the walk did not see goes, also what
\* the filter hid from it; rustdoc rows stay.
PruneFiles(p) ==
    LET r == run[p]
        stale == Paths \ DOMAIN r.found
    IN  /\ At(p, "prune")
        /\ rows' = [rows EXCEPT ![r.v] = {x \in @ : x.fid \notin IdsAt(r.v, stale)}]
        /\ files' = [files EXCEPT ![r.v] = [q \in AllPaths |-> IF q \in stale THEN NoFile ELSE @[q]]]
        /\ Goto(p, NextSource(r))
        /\ UNCHANGED <<dirs, disk, edits, indexFaults>>

\* A database call fails and the sync returns the error, or the whole process
\* ends; an open transaction is rolled back.
SyncFails(p) ==
    /\ ~At(p, "idle") /\ IndexFault
    /\ Goto(p, AfterSource(run[p])) \/ Goto(p, IdleRun)
    /\ UNCHANGED <<dirs, disk, edits, files, rows>>

SourceStep(p) ==
    \/ EnsureSource(p) \/ UnpackNext(p) \/ ScanVersion(p) \/ UpsertFile(p) \/ LookupFile(p)
    \/ CountRows(p) \/ ClearFileRows(p) \/ InsertFileRows(p) \/ PruneFiles(p)
=============================================================================
