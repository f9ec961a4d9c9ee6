---------------------------- MODULE LocalRegistry ----------------------------
(***************************************************************************)
(* What the server knows about the cargo registry on this machine.         *)
(*                                                                         *)
(* cargo writes archives ({registry}/cache/{hash}/*.crate) and sources     *)
(* ({registry}/src/{hash}/{name}-{version}/).  Two tasks follow it: the    *)
(* discovery scan walks the sources and enqueues crates the database does  *)
(* not know (discovery.rs), the cache watcher compares the archive         *)
(* directory with its own index of it, guarded by the directory's mtime    *)
(* (cache_watcher.rs).  The refresh worker syncs a crate, marks which of   *)
(* its versions are locally present (worker.rs).  A sync with dependencies *)
(* also leaves a row with nothing but a name, a stub, for each of them.    *)
(* What is done with the marks, the rustdoc enrichment, is in RustdocIndex.*)
(*                                                                         *)
(* The queue is reduced to what these tasks see of it: at most one active  *)
(* row per crate and scope, whose payload the first request decides.       *)
(* RefreshQueue models it step by step.                                    *)
(***************************************************************************)
EXTENDS FiniteSets, Naturals

CONSTANTS
    Crates,
    Latest,          \* Latest[c]: the versions of c are 1..Latest[c], oldest first
    Dependencies,    \* the crates the latest version of a crate depends on
    PreWarm,         \* PRE_WARM_CRATES
    BatchLimit,      \* REGISTRY_SCAN_BATCH_LIMIT, 0 for no limit
    MaxChanges,      \* bound: changes cargo makes to the disk
    MaxFaults        \* bound: failing calls

ASSUME RegistryAssumption ==
    /\ IsFiniteSet(Crates) /\ Crates # {}
    /\ Latest \in [Crates -> Nat \ {0}]
    /\ Dependencies \in [Crates -> SUBSET Crates]
    /\ PreWarm \subseteq Crates
    /\ BatchLimit \in Nat
    /\ MaxChanges \in Nat
    /\ MaxFaults \in Nat

VARIABLES
    archives,   \* .crate files in the cache directory
    sources,    \* extracted version directories
    mtime,      \* modification time of the cache directory; 0: it does not exist
    index,      \* the watcher's CacheIndex of that directory
    watcher,    \* the watcher task: its step and what it has read so far
    scan,       \* the discovery task: its step and what it has read so far
    rows,       \* the active crate row of each crate and its local_versions
    job,        \* the worker between finishing a crate row and the next claim
    known,      \* names in the crates table, stubs included
    synced,     \* crates synced from crates.io: their versions are in the database
    present,    \* versions with locally_present = TRUE
    faults      \* calls that failed so far

disk == <<archives, sources, mtime>>
db == <<known, synced, present>>
vars == <<disk, db, index, watcher, scan, rows, job, faults>>

Versions == UNION {1..Latest[c] : c \in Crates}
Releases == UNION {{c} \X (1..Latest[c]) : c \in Crates}

\* The versions of crate c among releases R.
VersionsOf(c, R) == {v \in Versions : <<c, v>> \in R}
CratesOf(R) == {r[1] : r \in R}

Row == [active : BOOLEAN, list : SUBSET Versions]
NoRow == [active |-> FALSE, list |-> {}]

\* The index before the first successful look at the cache directory.
NoIndex == [mtime |-> 0, files |-> {}]

Idle == [pc |-> "idle", mtime |-> 0, files |-> {}]
IdleScan == [pc |-> "idle", found |-> {}]
IdleJob == [pc |-> "idle", crate |-> CHOOSE c \in Crates : TRUE, list |-> {}]

\* A first start: an empty database beside a registry cargo has used before.
Init ==
    /\ sources \in SUBSET Releases
    /\ archives = sources
    /\ mtime = Cardinality(archives) /\ mtime <= MaxChanges
    /\ index = NoIndex
    /\ watcher = [Idle EXCEPT !.pc = "start"]
    /\ scan = IdleScan
    /\ rows = [c \in Crates |-> NoRow]
    /\ job = IdleJob
    /\ known = {} /\ synced = {} /\ present = {}
    /\ faults = 0

Fault == faults < MaxFaults /\ faults' = faults + 1

-----------------------------------------------------------------------------
(* cargo: the environment.                                                   *)

\* cargo downloads an archive, which creates the directory if need be.
Download(r) ==
    /\ r \notin archives
    /\ mtime < MaxChanges
    /\ archives' = archives \cup {r}
    /\ mtime' = mtime + 1
    /\ UNCHANGED <<sources, db, index, watcher, scan, rows, job, faults>>

\* cargo unpacks a downloaded archive.
Extract(r) ==
    /\ r \in archives \ sources
    /\ sources' = sources \cup {r}
    /\ UNCHANGED <<archives, mtime, db, index, watcher, scan, rows, job, faults>>

-----------------------------------------------------------------------------
(* Enqueueing: an active row absorbs the request, its payload stays.        *)

\* A request for each crate of C, with its versions among R as local_versions.
Enqueued(C, R) ==
    [c \in Crates |-> IF c \in C /\ ~rows[c].active
                      THEN [active |-> TRUE, list |-> VersionsOf(c, R)] ELSE rows[c]]

\* A loop over the crates C that carries on when a request fails.
EnqueueEach(C, R) ==
    \/ rows' = Enqueued(C, R) /\ UNCHANGED faults
    \/ \E c \in C : rows' = Enqueued(C \ {c}, R) /\ Fault

\* A tool call or a freshness check asks for a crate without local_versions.
OnDemand(c) ==
    /\ ~rows[c].active
    /\ rows' = Enqueued({c}, {})
    /\ UNCHANGED <<disk, db, index, watcher, scan, job, faults>>

-----------------------------------------------------------------------------
(* The cache watcher.                                                       *)

\* At startup; a missing cache directory leaves the index empty.
WatcherStarts ==
    /\ watcher.pc = "start"
    /\ watcher' = IF mtime = 0 THEN Idle
                  ELSE [watcher EXCEPT !.pc = "startList", !.mtime = mtime]
    /\ UNCHANGED <<disk, db, index, scan, rows, job, faults>>

\* build_initial_index records what it finds without enqueueing it.
InitialIndex ==
    /\ watcher.pc = "startList"
    /\ index' = [mtime |-> watcher.mtime, files |-> archives]
    /\ watcher' = Idle
    /\ UNCHANGED <<disk, db, scan, rows, job, faults>>

\* poll_cache_changes finds a directory it does not know, or an mtime that is
\* not the indexed one; snapshot_subdir reads the mtime first ...
SnapshotStat ==
    /\ watcher.pc = "idle" /\ mtime # index.mtime
    /\ watcher' = [watcher EXCEPT !.pc = "list", !.mtime = mtime]
    /\ UNCHANGED <<disk, db, index, scan, rows, job, faults>>

\* ... and lists the files afterwards.
SnapshotList ==
    /\ watcher.pc = "list"
    /\ watcher' = [watcher EXCEPT !.pc = "enqueue", !.files = archives]
    /\ UNCHANGED <<disk, db, index, scan, rows, job, faults>>

NewFiles == watcher.files \ index.files

\* Mutant: the mtime is read again when the index is updated.
EnqueueNewFilesStatsAgain ==
    /\ watcher.pc = "enqueue"
    /\ EnqueueEach(CratesOf(NewFiles), NewFiles)
    /\ index' = [mtime |-> mtime, files |-> watcher.files]
    /\ watcher' = Idle
    /\ UNCHANGED <<disk, db, scan, job>>

\* enqueue_new_files: one request per crate with its new versions only; the
\* snapshot becomes the index whether or not the requests succeeded.
EnqueueNewFiles ==
    /\ watcher.pc = "enqueue"
    /\ EnqueueEach(CratesOf(NewFiles), NewFiles)
    /\ index' = [mtime |-> watcher.mtime, files |-> watcher.files]
    /\ watcher' = Idle
    /\ UNCHANGED <<disk, db, scan, job>>

WatcherStep ==
    WatcherStarts \/ InitialIndex \/ SnapshotStat \/ SnapshotList \/ EnqueueNewFiles

-----------------------------------------------------------------------------
(* The discovery scan.                                                      *)

\* collect_crate_versions_from_registry.
ScanWalk ==
    /\ scan.pc = "idle"
    /\ scan' = [pc |-> "enqueue", found |-> sources]
    /\ UNCHANGED <<disk, db, index, watcher, rows, job, faults>>

\* What the batch limit lets through, in the order of a hash map.
Batches(unknown) ==
    IF BatchLimit = 0 \/ Cardinality(unknown) < BatchLimit THEN {unknown}
    ELSE {B \in SUBSET unknown : Cardinality(B) = BatchLimit}

\* Mutant: the batch is taken from all crates found, known or not.
ScanEnqueueAll ==
    /\ scan.pc = "enqueue"
    /\ scan' = IdleScan
    /\ \E B \in Batches(CratesOf(scan.found)) : EnqueueEach(PreWarm \cup B, scan.found)
    /\ UNCHANGED <<disk, db, index, watcher, job>>

\* fetch_known_crate_names, stubs among them, then the pre-warm crates and a
\* batch of unknown ones; a scan that cannot read the names enqueues nothing.
ScanEnqueue ==
    /\ scan.pc = "enqueue"
    /\ scan' = IdleScan
    /\ \/ \E B \in Batches(CratesOf(scan.found) \ known) :
             EnqueueEach(PreWarm \cup B, scan.found)
       \/ Fault /\ UNCHANGED rows
    /\ UNCHANGED <<disk, db, index, watcher, job>>

ScanStep == ScanWalk \/ ScanEnqueue

-----------------------------------------------------------------------------
(* The refresh worker.                                                      *)

\* A job of scope crate that succeeds, which takes no dependencies along: the
\* crate is in the database, the row is settled.
SyncCrate(c) ==
    /\ job.pc = "idle" /\ rows[c].active
    /\ known' = known \cup {c}
    /\ synced' = synced \cup {c}
    /\ rows' = [rows EXCEPT ![c] = NoRow]
    /\ job' = [pc |-> "mark", crate |-> c, list |-> rows[c].list]
    /\ UNCHANGED <<disk, present, index, watcher, scan, faults>>

\* Mutant: a job that failed goes on to mark the versions of its crate.
SyncGivesUpMarks(c) ==
    /\ job.pc = "idle" /\ rows[c].active
    /\ Fault
    /\ rows' = [rows EXCEPT ![c] = NoRow]
    /\ job' = [pc |-> "mark", crate |-> c, list |-> rows[c].list]
    /\ UNCHANGED <<disk, db, index, watcher, scan>>

\* A crate job whose last attempt fails.
SyncGivesUp(c) ==
    /\ job.pc = "idle" /\ rows[c].active
    /\ Fault
    /\ rows' = [rows EXCEPT ![c] = NoRow]
    /\ UNCHANGED <<disk, db, index, watcher, scan, job>>

\* The versions the job found locally: those of its payload, otherwise those
\* whose sources are on disk.
LocalVersions == IF job.list # {} THEN job.list ELSE VersionsOf(job.crate, sources)

MarkVersionsLocallyPresent ==
    /\ job.pc = "mark"
    /\ job' = IdleJob
    /\ \/ /\ present' = {r \in present : r[1] # job.crate} \cup ({job.crate} \X LocalVersions)
          /\ UNCHANGED faults
       \/ Fault /\ UNCHANGED present
    /\ UNCHANGED <<disk, known, synced, index, watcher, scan, rows>>

\* A sync that takes the dependencies along: ensure_crate_stub_tx adds those that
\* are not in the database.
WithStubs(c, deps) ==
    /\ known' = known \cup {c} \cup deps
    /\ synced' = synced \cup {c}

\* A deep refresh, which a freshness check or a backfill has asked for; its row,
\* which has no local_versions, is in SearchCache.
DeepRefresh(c) ==
    /\ job.pc = "idle" /\ c \in synced
    /\ WithStubs(c, Dependencies[c])
    /\ job' = [pc |-> "mark", crate |-> c, list |-> {}]
    /\ UNCHANGED <<disk, present, index, watcher, scan, rows, faults>>

\* index_crates and index_refresh sync inside the call, with the dependencies if
\* so asked, and mark nothing.
SyncInCall(c) ==
    /\ \E deps \in {{}, Dependencies[c]} : WithStubs(c, deps)
    /\ UNCHANGED <<disk, present, index, watcher, scan, rows, job, faults>>

WorkerStep ==
    MarkVersionsLocallyPresent \/ \E c \in Crates : SyncCrate(c) \/ SyncGivesUp(c)

Next ==
    \/ \E r \in Releases : Download(r) \/ Extract(r)
    \/ \E c \in Crates : OnDemand(c) \/ DeepRefresh(c) \/ SyncInCall(c)
    \/ WatcherStep \/ ScanStep \/ WorkerStep

\* Every background task of the server keeps running; cargo and tool calls
\* owe nothing.
Fairness ==
    /\ WF_vars(WatcherStep) /\ WF_vars(ScanStep) /\ WF_vars(MarkVersionsLocallyPresent)
    /\ \A c \in Crates : SF_vars(SyncCrate(c))

Spec == Init /\ [][Next]_vars /\ Fairness

-----------------------------------------------------------------------------
(* Properties.                                                              *)

\* TypeOK: the disk, the database, the queue and the tasks keep their types,
\* and the index never runs ahead of the directory (cache_watcher.rs).
TypeOK ==
    /\ sources \subseteq archives /\ archives \subseteq Releases
    /\ mtime \in Nat /\ index.mtime \in 0..mtime /\ index.files \subseteq Releases
    /\ watcher \in [pc : {"start", "startList", "idle", "list", "enqueue"},
                   mtime : 0..mtime, files : SUBSET archives]
    /\ scan \in [pc : {"idle", "enqueue"}, found : SUBSET sources]
    /\ rows \in [Crates -> Row]
    /\ synced \subseteq known /\ known \subseteq Crates
    /\ present \subseteq {r \in Releases : r[1] \in synced}
    /\ job \in [pc : {"idle", "mark"}, crate : Crates, list : SUBSET Versions]

\* NoSilentFile: an archive the watcher has not indexed leaves an mtime that
\* differs from the indexed one, so the next poll looks again, however the
\* downloads interleave with the reads of a snapshot and its enqueues.
NoSilentFile == index.mtime = mtime => archives = index.files

\* EveryCrateDiscovered: a crate with sources on disk is synced unless it is a
\* stub, and a pre-warm crate even then, although scans take a batch of unknown
\* crates in any order, calls fail and jobs are given up (run_registry_scan).
EveryCrateDiscovered ==
    \A c \in Crates :
        c \in CratesOf(sources) ~> c \in synced \/ c \in known \ PreWarm

\* PresenceKept: a step never unmarks a version whose sources are on disk: the
\* worker is to "mark which versions are locally present in the cargo registry"
\* (worker.rs), and a list of new versions, or of a row that absorbed later
\* requests, is not the list of versions on disk.
PresenceKept == [][\A r \in present \ present' : r \notin sources]_vars
=============================================================================
