------------------------- MODULE LocalRegistryProofs -------------------------
(***************************************************************************)
(* The cache watcher overlooks no archive, for every set of crates, every  *)
(* number of releases, downloads and failing calls.                        *)
(***************************************************************************)
EXTENDS LocalRegistry, FiniteSetTheorems, TLAPS

\* A crate has finitely many releases, so the archives can be counted.
LEMMA ReleasesFinite == IsFiniteSet(Releases)
<1> DEFINE Of(c) == {c} \X (1..Latest[c])
           All == {Of(c) : c \in Crates}
           f == [c \in Crates |-> Of(c)]
<1>1. f \in Surjection(Crates, All)
  BY DEF Surjection
<1>2. IsFiniteSet(All)
  <2> HIDE DEF f, All
  <2> QED
    BY <1>1, FS_Surjection, RegistryAssumption
<1>3. \A c \in Crates : IsFiniteSet(Of(c))
  <2> TAKE c \in Crates
  <2>1. Latest[c] \in Nat
    BY RegistryAssumption
  <2>2. IsFiniteSet(1..Latest[c])
    BY <2>1, FS_Interval
  <2>3. IsFiniteSet({c})
    BY FS_Singleton
  <2> QED
    BY <2>2, <2>3, FS_Product
<1>4. \A T \in All : IsFiniteSet(T)
  BY <1>3
<1>5. Releases = UNION All
  BY DEF Releases
<1> HIDE DEF All
<1> QED
  BY <1>2, <1>4, <1>5, FS_UNION

\* A release is a crate with one of its versions.
LEMMA ReleaseParts ==
    /\ \A r \in Releases : r[1] \in Crates /\ r[2] \in 1..Latest[r[1]] /\ r = <<r[1], r[2]>>
    /\ \A c \in Crates : \A v \in 1..Latest[c] : <<c, v>> \in Releases
    /\ \A c \in Crates : 1..Latest[c] \subseteq Versions
  BY DEF Releases, Versions

\* VersionsOf yields versions the crate has.
LEMMA VersionsOfCrate ==
    ASSUME NEW c \in Crates, NEW R \in SUBSET Releases
    PROVE  VersionsOf(c, R) \subseteq 1..Latest[c]
<1> SUFFICES ASSUME NEW v \in VersionsOf(c, R) PROVE v \in 1..Latest[c]
  OBVIOUS
<1>1. <<c, v>> \in Releases
  BY DEF VersionsOf
<1>2. PICK r \in Releases : r = <<c, v>>
  BY <1>1
<1>3. r[1] = c /\ r[2] = v
  BY <1>2
<1> QED
  BY <1>3, ReleaseParts

\* The payload of a row, and of the job made from it, names versions of its own
\* crate; a job that marks them has synced the crate.
PayloadMatches ==
    /\ \A c \in Crates : rows[c].list \subseteq 1..Latest[c]
    /\ job.pc = "mark" => job.crate \in synced /\ job.list \subseteq 1..Latest[job.crate]

\* The files of a snapshot are those on disk unless the directory has changed
\* since its mtime was read.
SnapshotCurrent ==
    watcher.pc = "enqueue" /\ watcher.mtime = mtime => watcher.files = archives

RegistryInv == TypeOK /\ PayloadMatches /\ SnapshotCurrent /\ NoSilentFile

\* A first start satisfies it: a directory that does not exist has no archives.
LEMMA RegistryInit == Init => RegistryInv
<1> SUFFICES ASSUME Init PROVE RegistryInv
  OBVIOUS
<1>1. archives \in SUBSET Releases /\ sources = archives
  BY DEF Init
<1>2. IsFiniteSet(archives)
  BY <1>1, ReleasesFinite, FS_Subset
<1>3. mtime \in Nat /\ (mtime = 0 => archives = {})
  BY <1>2, FS_CardinalityType, FS_EmptySet DEF Init
<1>4. IdleJob.crate \in Crates /\ IdleJob.pc = "idle" /\ IdleJob.list = {}
  BY RegistryAssumption DEF IdleJob
<1>5. job \in [pc : {"idle", "mark"}, crate : Crates, list : SUBSET Versions] /\ job.pc = "idle"
  BY <1>4 DEF Init, IdleJob
<1>6. rows \in [Crates -> Row] /\ \A c \in Crates : rows[c].list = {}
  BY DEF Init, NoRow, Row
<1>7. /\ watcher = [pc |-> "start", mtime |-> 0, files |-> {}]
      /\ scan = [pc |-> "idle", found |-> {}]
      /\ index.mtime = 0 /\ index.files = {} /\ known = {} /\ synced = {} /\ present = {}
  BY DEF Init, Idle, IdleScan, NoIndex
<1>8. /\ watcher \in [pc : {"start", "startList", "idle", "list", "enqueue"},
                      mtime : 0..mtime, files : SUBSET archives]
      /\ watcher.pc = "start"
  BY <1>3, <1>7
<1>9. scan \in [pc : {"idle", "enqueue"}, found : SUBSET sources]
  BY <1>7
<1>10. TypeOK
  BY <1>1, <1>3, <1>5, <1>6, <1>7, <1>8, <1>9 DEF TypeOK
<1> QED
  BY <1>3, <1>5, <1>6, <1>7, <1>8, <1>10
  DEF RegistryInv, PayloadMatches, SnapshotCurrent, NoSilentFile

\* A request for any crates, with local_versions found on disk, leaves rows
\* whose payloads match their crates.
LEMMA EnqueuedMatches ==
    ASSUME RegistryInv, NEW C, NEW R \in SUBSET Releases
    PROVE  /\ Enqueued(C, R) \in [Crates -> Row]
           /\ \A c \in Crates : Enqueued(C, R)[c].list \subseteq 1..Latest[c]
<1>1. rows \in [Crates -> Row] /\ \A c \in Crates : rows[c].list \subseteq 1..Latest[c]
  BY DEF RegistryInv, TypeOK, PayloadMatches
<1>2. ASSUME NEW c \in Crates
      PROVE  /\ Enqueued(C, R)[c] \in Row
             /\ Enqueued(C, R)[c].list \subseteq 1..Latest[c]
  <2>1. VersionsOf(c, R) \subseteq 1..Latest[c] /\ VersionsOf(c, R) \subseteq Versions
    BY VersionsOfCrate, ReleaseParts
  <2> DEFINE list == VersionsOf(c, R)
  <2>2. [active |-> TRUE, list |-> list] \in Row /\ [active |-> TRUE, list |-> list].list = list
    BY <2>1 DEF Row
  <2>3. \/ Enqueued(C, R)[c] = [active |-> TRUE, list |-> list]
        \/ Enqueued(C, R)[c] = rows[c]
    BY DEF Enqueued
  <2> QED
    BY <1>1, <2>1, <2>2, <2>3
<1>3. Enqueued(C, R) = [c \in Crates |-> Enqueued(C, R)[c]]
  BY DEF Enqueued
<1> QED
  BY <1>2, <1>3

\* The same for a loop in which one request may fail.
LEMMA EnqueueEachMatches ==
    ASSUME RegistryInv, NEW C, NEW R \in SUBSET Releases, EnqueueEach(C, R)
    PROVE  /\ rows' \in [Crates -> Row]
           /\ \A c \in Crates : rows'[c].list \subseteq 1..Latest[c]
<1>1. CASE rows' = Enqueued(C, R)
  BY <1>1, EnqueuedMatches
<1>2. ASSUME NEW c \in C, rows' = Enqueued(C \ {c}, R)
      PROVE  /\ rows' \in [Crates -> Row]
             /\ \A b \in Crates : rows'[b].list \subseteq 1..Latest[b]
  BY <1>2, EnqueuedMatches
<1> QED
  BY <1>1, <1>2 DEF EnqueueEach

\* cargo changes the disk only: a download changes the mtime.
LEMMA CargoKeeps ==
    ASSUME RegistryInv, NEW r \in Releases, Download(r) \/ Extract(r)
    PROVE  RegistryInv'
<1>1. /\ archives \subseteq archives' /\ archives' \subseteq Releases
      /\ sources \subseteq sources' /\ sources' \subseteq archives'
      /\ mtime' \in Nat /\ mtime <= mtime'
      /\ UNCHANGED <<index, watcher, scan, rows, job, known, synced, present>>
  BY DEF Download, Extract, db, RegistryInv, TypeOK
<1>2. (archives' = archives /\ mtime' = mtime) \/ mtime' > mtime
  BY DEF Download, Extract, RegistryInv, TypeOK
<1>3. index.mtime \in 0..mtime /\ mtime \in Nat /\ watcher.mtime \in 0..mtime
  BY DEF RegistryInv, TypeOK
<1>4. watcher \in [pc : {"start", "startList", "idle", "list", "enqueue"},
                   mtime : 0..mtime', files : SUBSET archives']
  BY <1>1, <1>3 DEF RegistryInv, TypeOK
<1>5. scan \in [pc : {"idle", "enqueue"}, found : SUBSET sources']
  BY <1>1 DEF RegistryInv, TypeOK
<1>6. index.mtime \in 0..mtime'
  BY <1>1, <1>3
<1>7. TypeOK'
  BY <1>1, <1>4, <1>5, <1>6 DEF RegistryInv, TypeOK
<1>8. SnapshotCurrent' /\ NoSilentFile'
  BY <1>1, <1>2, <1>3 DEF RegistryInv, SnapshotCurrent, NoSilentFile
<1> QED
  BY <1>1, <1>7, <1>8 DEF RegistryInv, PayloadMatches

\* Each step of the watcher keeps it: whatever is downloaded between the reads
\* of a snapshot, the next poll sees another mtime.
LEMMA WatcherKeeps ==
    ASSUME RegistryInv, WatcherStep
    PROVE  RegistryInv'
<1> DEFINE Watchers == [pc : {"start", "startList", "idle", "list", "enqueue"},
                        mtime : 0..mtime, files : SUBSET archives]
<1>1. /\ mtime \in Nat /\ watcher \in Watchers /\ archives \subseteq Releases
      /\ index.mtime \in 0..mtime
  BY DEF RegistryInv, TypeOK
<1>2. Idle \in Watchers /\ Idle.pc = "idle"
  BY <1>1 DEF Idle
<1>3. CASE WatcherStarts
  <2>1. watcher' \in Watchers /\ watcher'.pc # "enqueue"
    <3>1. \/ watcher' = Idle
          \/ watcher' = [watcher EXCEPT !.pc = "startList", !.mtime = mtime]
      BY <1>3 DEF WatcherStarts
    <3>2. mtime \in 0..mtime
      BY <1>1
    <3> QED
      BY <1>1, <1>2, <3>1, <3>2
  <2>2. UNCHANGED <<archives, sources, mtime, known, synced, present, index, scan, rows, job>>
    BY <1>3 DEF WatcherStarts, disk, db
  <2> QED
    BY <2>1, <2>2
    DEF RegistryInv, TypeOK, PayloadMatches, SnapshotCurrent, NoSilentFile
<1>4. CASE InitialIndex
  <2>1. watcher' = Idle /\ index' = [mtime |-> watcher.mtime, files |-> archives]
    BY <1>4 DEF InitialIndex
  <2>2. index'.mtime = watcher.mtime /\ index'.files = archives
    BY <2>1
  <2>3. UNCHANGED <<archives, sources, mtime, known, synced, present, scan, rows, job>>
    BY <1>4 DEF InitialIndex, disk, db
  <2> QED
    BY <1>1, <1>2, <2>1, <2>2, <2>3
    DEF RegistryInv, TypeOK, PayloadMatches, SnapshotCurrent, NoSilentFile
<1>5. CASE SnapshotStat
  <2>1. watcher' \in Watchers /\ watcher'.pc = "list"
    <3>1. watcher' = [watcher EXCEPT !.pc = "list", !.mtime = mtime]
      BY <1>5 DEF SnapshotStat
    <3>2. mtime \in 0..mtime
      BY <1>1
    <3> QED
      BY <1>1, <3>1, <3>2
  <2>2. UNCHANGED <<archives, sources, mtime, known, synced, present, index, scan, rows, job>>
    BY <1>5 DEF SnapshotStat, disk, db
  <2> QED
    BY <2>1, <2>2
    DEF RegistryInv, TypeOK, PayloadMatches, SnapshotCurrent, NoSilentFile
<1>6. CASE SnapshotList
  <2>1. watcher' \in Watchers /\ watcher'.files = archives
    BY <1>1, <1>6 DEF SnapshotList
  <2>2. UNCHANGED <<archives, sources, mtime, known, synced, present, index, scan, rows, job>>
    BY <1>6 DEF SnapshotList, disk, db
  <2> QED
    BY <2>1, <2>2
    DEF RegistryInv, TypeOK, PayloadMatches, SnapshotCurrent, NoSilentFile
<1>7. CASE EnqueueNewFiles
  <2>1. /\ watcher' = Idle /\ index' = [mtime |-> watcher.mtime, files |-> watcher.files]
        /\ watcher.pc = "enqueue" /\ EnqueueEach(CratesOf(NewFiles), NewFiles)
    BY <1>7 DEF EnqueueNewFiles
  <2>2. index'.mtime = watcher.mtime /\ index'.files = watcher.files
    BY <2>1
  <2>3. UNCHANGED <<archives, sources, mtime, known, synced, present, scan, job>>
    BY <1>7 DEF EnqueueNewFiles, disk, db
  <2>4. NewFiles \in SUBSET Releases
    BY <1>1 DEF NewFiles
  <2>5. rows' \in [Crates -> Row] /\ \A c \in Crates : rows'[c].list \subseteq 1..Latest[c]
    BY <2>1, <2>4, EnqueueEachMatches
  <2>6. TypeOK'
    BY <1>1, <1>2, <2>1, <2>2, <2>3, <2>5 DEF RegistryInv, TypeOK
  <2>7. NoSilentFile' /\ SnapshotCurrent'
    BY <1>2, <2>1, <2>2, <2>3 DEF RegistryInv, SnapshotCurrent, NoSilentFile
  <2> QED
    BY <2>3, <2>5, <2>6, <2>7 DEF RegistryInv, PayloadMatches
<1> QED
  BY <1>3, <1>4, <1>5, <1>6, <1>7 DEF WatcherStep

\* A step that leaves the disk, the index and the watcher alone keeps it when
\* the database, the queue and the other tasks keep their types.
LEMMA DiskRests ==
    ASSUME RegistryInv, UNCHANGED <<archives, sources, mtime, index, watcher>>,
           scan' \in [pc : {"idle", "enqueue"}, found : SUBSET sources],
           rows' \in [Crates -> Row], synced' \subseteq known', known' \subseteq Crates,
           present' \subseteq {r \in Releases : r[1] \in synced'},
           job' \in [pc : {"idle", "mark"}, crate : Crates, list : SUBSET Versions],
           PayloadMatches'
    PROVE  RegistryInv'
  BY DEF RegistryInv, TypeOK, SnapshotCurrent, NoSilentFile

\* Requests from tool calls and the discovery scan keep it.
LEMMA RequestsKeep ==
    ASSUME RegistryInv, ScanStep \/ \E c \in Crates : OnDemand(c)
    PROVE  RegistryInv'
<1>1. /\ scan \in [pc : {"idle", "enqueue"}, found : SUBSET sources]
      /\ sources \subseteq archives /\ archives \subseteq Releases
      /\ rows \in [Crates -> Row]
  BY DEF RegistryInv, TypeOK
<1>2. CASE ScanWalk
  <2>1. scan' \in [pc : {"idle", "enqueue"}, found : SUBSET sources]
    BY <1>2 DEF ScanWalk
  <2>2. UNCHANGED <<archives, sources, mtime, index, watcher, known, synced, present, rows, job>>
    BY <1>2 DEF ScanWalk, disk, db
  <2> QED
    BY <2>1, <2>2, DiskRests DEF RegistryInv, TypeOK, PayloadMatches
<1>3. CASE ScanEnqueue
  <2>1. scan.found \in SUBSET Releases
    BY <1>1
  <2>2. rows' \in [Crates -> Row] /\ \A c \in Crates : rows'[c].list \subseteq 1..Latest[c]
    <3>1. CASE UNCHANGED rows
      BY <1>1, <3>1 DEF RegistryInv, PayloadMatches
    <3>2. ASSUME NEW B, EnqueueEach(PreWarm \cup B, scan.found)
          PROVE  /\ rows' \in [Crates -> Row]
                 /\ \A c \in Crates : rows'[c].list \subseteq 1..Latest[c]
      BY <2>1, <3>2, EnqueueEachMatches
    <3> QED
      BY <1>3, <3>1, <3>2 DEF ScanEnqueue
  <2>3. scan' \in [pc : {"idle", "enqueue"}, found : SUBSET sources]
    BY <1>3 DEF ScanEnqueue, IdleScan
  <2>4. UNCHANGED <<archives, sources, mtime, index, watcher, known, synced, present, job>>
    BY <1>3 DEF ScanEnqueue, disk, db
  <2> QED
    BY <2>2, <2>3, <2>4, DiskRests DEF RegistryInv, TypeOK, PayloadMatches
<1>4. ASSUME NEW c \in Crates, OnDemand(c) PROVE RegistryInv'
  <2>1. rows' \in [Crates -> Row] /\ \A b \in Crates : rows'[b].list \subseteq 1..Latest[b]
    BY <1>4, EnqueuedMatches DEF OnDemand
  <2>2. UNCHANGED <<archives, sources, mtime, index, watcher, known, synced, present, scan, job>>
    BY <1>4 DEF OnDemand, disk, db
  <2> QED
    BY <2>1, <2>2, DiskRests DEF RegistryInv, TypeOK, PayloadMatches
<1> QED
  BY <1>2, <1>3, <1>4 DEF ScanStep

\* The worker marks versions of a crate it has synced, as its payload or the
\* sources on disk name them.
LEMMA WorkerKeeps ==
    ASSUME RegistryInv, WorkerStep
    PROVE  RegistryInv'
<1> DEFINE Jobs == [pc : {"idle", "mark"}, crate : Crates, list : SUBSET Versions]
<1>1. /\ scan \in [pc : {"idle", "enqueue"}, found : SUBSET sources]
      /\ sources \subseteq Releases /\ rows \in [Crates -> Row]
      /\ synced \subseteq known /\ known \subseteq Crates
      /\ present \subseteq {r \in Releases : r[1] \in synced} /\ job \in Jobs
      /\ \A c \in Crates : rows[c].list \subseteq 1..Latest[c]
      /\ job.pc = "mark" => job.crate \in synced /\ job.list \subseteq 1..Latest[job.crate]
  BY DEF RegistryInv, TypeOK, PayloadMatches
<1>2. NoRow \in Row /\ NoRow.list = {} /\ IdleJob \in Jobs /\ IdleJob.pc = "idle"
  BY RegistryAssumption DEF NoRow, Row, IdleJob
<1>3. ASSUME NEW c \in Crates, SyncCrate(c) PROVE RegistryInv'
  <2>1. /\ rows' = [rows EXCEPT ![c] = NoRow] /\ known' = known \cup {c}
        /\ synced' = synced \cup {c}
        /\ job' = [pc |-> "mark", crate |-> c, list |-> rows[c].list]
        /\ UNCHANGED <<archives, sources, mtime, index, watcher, scan, present>>
    BY <1>3 DEF SyncCrate, disk
  <2>2. rows' \in [Crates -> Row] /\ \A b \in Crates : rows'[b].list \subseteq 1..Latest[b]
    BY <1>1, <1>2, <2>1
  <2>3. rows[c].list \subseteq 1..Latest[c] /\ rows[c].list \subseteq Versions
    BY <1>1, ReleaseParts
  <2>4. job' \in Jobs /\ job'.crate = c /\ job'.list = rows[c].list
    BY <2>1, <2>3
  <2>5. /\ synced' \subseteq known' /\ known' \subseteq Crates
        /\ present' \subseteq {r \in Releases : r[1] \in synced'}
    BY <1>1, <2>1
  <2>6. PayloadMatches'
    BY <2>1, <2>2, <2>3, <2>4 DEF PayloadMatches
  <2> QED
    BY <1>1, <2>1, <2>2, <2>4, <2>5, <2>6, DiskRests
<1>4. ASSUME NEW c \in Crates, SyncGivesUp(c) PROVE RegistryInv'
  <2>1. /\ rows' = [rows EXCEPT ![c] = NoRow]
        /\ UNCHANGED <<archives, sources, mtime, index, watcher, scan, known, synced, present, job>>
    BY <1>4 DEF SyncGivesUp, disk, db
  <2>2. rows' \in [Crates -> Row] /\ \A b \in Crates : rows'[b].list \subseteq 1..Latest[b]
    BY <1>1, <1>2, <2>1
  <2> QED
    BY <1>1, <2>1, <2>2, DiskRests DEF PayloadMatches
<1>5. CASE MarkVersionsLocallyPresent
  <2>1. /\ job.pc = "mark" /\ job' = IdleJob
        /\ UNCHANGED <<archives, sources, mtime, index, watcher, scan, known, synced, rows>>
    BY <1>5 DEF MarkVersionsLocallyPresent, disk
  <2>2. LocalVersions \subseteq 1..Latest[job.crate] /\ job.crate \in synced
    BY <1>1, <2>1, VersionsOfCrate DEF LocalVersions
  <2>3. {job.crate} \X LocalVersions \subseteq {r \in Releases : r[1] \in synced}
    <3>1. job.crate \in Crates
      BY <1>1
    <3>2. ASSUME NEW v \in LocalVersions
          PROVE  <<job.crate, v>> \in Releases /\ <<job.crate, v>>[1] \in synced
      BY <2>2, <3>1, ReleaseParts
    <3>3. \A r \in {job.crate} \X LocalVersions : \E v \in LocalVersions : r = <<job.crate, v>>
      OBVIOUS
    <3> QED
      BY <3>2, <3>3
  <2>4. \/ present' = present
        \/ present' = {r \in present : r[1] # job.crate} \cup ({job.crate} \X LocalVersions)
    BY <1>5 DEF MarkVersionsLocallyPresent
  <2>5. present' \subseteq {r \in Releases : r[1] \in synced'}
    BY <1>1, <2>1, <2>3, <2>4
  <2> QED
    BY <1>1, <1>2, <2>1, <2>5, DiskRests DEF PayloadMatches
<1> QED
  BY <1>3, <1>4, <1>5 DEF WorkerStep

\* Stubs only add names: no mark and no payload depends on them.
LEMMA StubsKeep ==
    ASSUME RegistryInv, NEW c \in Crates, NEW deps \in SUBSET Crates, WithStubs(c, deps),
           UNCHANGED <<archives, sources, mtime, index, watcher, scan, rows, present>>,
           \/ UNCHANGED job
           \/ job' = [pc |-> "mark", crate |-> c, list |-> {}]
    PROVE  RegistryInv'
<1>1. /\ synced' \subseteq known' /\ known' \subseteq Crates
      /\ synced \subseteq synced' /\ c \in synced'
  BY DEF WithStubs, RegistryInv, TypeOK
<1>2. present' \subseteq {r \in Releases : r[1] \in synced'}
  BY <1>1 DEF RegistryInv, TypeOK
<1>3. job' \in [pc : {"idle", "mark"}, crate : Crates, list : SUBSET Versions]
  BY DEF RegistryInv, TypeOK
<1>4. PayloadMatches'
  BY <1>1 DEF RegistryInv, PayloadMatches
<1> QED
  BY <1>1, <1>2, <1>3, <1>4, DiskRests DEF RegistryInv, TypeOK

LEMMA OtherSyncsKeep ==
    ASSUME RegistryInv, NEW c \in Crates, DeepRefresh(c) \/ SyncInCall(c)
    PROVE  RegistryInv'
<1>1. Dependencies[c] \in SUBSET Crates /\ {} \in SUBSET Crates
  BY RegistryAssumption
<1>2. CASE DeepRefresh(c)
  BY <1>1, <1>2, StubsKeep DEF DeepRefresh, disk
<1>3. CASE SyncInCall(c)
  <2>1. PICK deps \in {{}, Dependencies[c]} : WithStubs(c, deps)
    BY <1>3 DEF SyncInCall
  <2> QED
    BY <1>1, <1>3, <2>1, StubsKeep DEF SyncInCall, disk
<1> QED
  BY <1>2, <1>3

\* Every step of cargo, of a client and of the three tasks keeps the invariant.
LEMMA RegistryStep == RegistryInv /\ [Next]_vars => RegistryInv'
<1> SUFFICES ASSUME RegistryInv, [Next]_vars PROVE RegistryInv'
  OBVIOUS
<1>1. CASE UNCHANGED vars
  BY <1>1 DEF vars, disk, db, RegistryInv, TypeOK, PayloadMatches, SnapshotCurrent, NoSilentFile
<1> QED
  BY <1>1, CargoKeeps, WatcherKeeps, RequestsKeep, OtherSyncsKeep, WorkerKeeps DEF Next

\* The disk, the queue's rows, the marks and the tasks keep their types, and the
\* index of the watcher never runs ahead of the directory (cache_watcher.rs).
THEOREM RegistryTypes == Spec => []TypeOK
<1>1. RegistryInv => TypeOK
  BY DEF RegistryInv
<1> QED
  BY <1>1, RegistryInit, RegistryStep, PTL DEF Spec

\* However downloads interleave with a snapshot's stat and listing and with the
\* requests made from it, an archive the index does not have leaves an mtime the
\* next poll notices (snapshot_subdir reads the mtime before the files).
THEOREM NoFileOverlooked == Spec => []NoSilentFile
<1>1. RegistryInv => NoSilentFile
  BY DEF RegistryInv
<1> QED
  BY <1>1, RegistryInit, RegistryStep, PTL DEF Spec
=============================================================================
