# Verification of rust-mcp

`rust-mcp` is an MCP server that answers questions about Rust crates from a local
PostgreSQL index. The index is filled lazily: a tool call that needs a crate it
does not have enqueues a job, a single background worker executes it, and the
call waits. Other tasks keep what is indexed current. This directory holds TLA+
modules of that machinery and of the algorithms of the tools, TLC runs on small
instances, and TLAPS proofs of every safety property the passing runs check, for every
instance.

Paths below are relative to `src/crates/rust-mcp/src/`.

## Inventory

| Component | State | Operations | Hard because | Correct when |
|---|---|---|---|---|
| refresh job queue (`db/indexing.rs`, `migrations/0002`) | `refresh_jobs` rows: crate, scope, priority, payload, status, attempts, `requested_at` | enqueue-or-get, claim, finish, fail-or-requeue, flag crate | SELECT and INSERT are separate statements; rows outlive the process | rows only move along the life cycle, within the retry budget |
| refresh worker (`mcp/indexing/worker.rs`) | the claimed job | claim, execute, record, signal, enqueue enrichment | several database calls, each may fail or be cut off by a restart | one claim at a time, always given back; enrichment follows |
| indexing coordinator (`mcp/indexing/coordinator.rs`) | `waiters` map of watch channels, `Notify` permit | `enqueue_on_demand`, `wait_for_job`, `signal_completion`, `notify_worker` | tools and worker meet only through a map and a permit | no lost wake-up, no closed channel, truthful outcome, bounded wait |
| on-demand tools (`mcp/queries.rs`, `mcp/indexing/handlers.rs`) | none | `ensure_crate_indexed`, `ensure_source_indexed`, `ensure_rustdoc_indexed`, `index_crates` | coalescing with background jobs | a call ends; what it waited for is what it asked for |
| freshness (`mcp/indexing/freshness.rs`) | `next_check_at` | probe crates.io, inline sync, deep refresh, version backfill | syncs outside the worker, crates.io moves meanwhile | a call answers for a version that was the latest during the call |
| registry discovery, cache watcher (`discovery.rs`, `cache_watcher.rs`) | known files, mtimes | periodic scans that enqueue | cargo writes while they read | every crate with sources on disk that the database has no row of is discovered; no archive is passed over |
| source and rustdoc indexing (`local_cache.rs`, `rustdoc_json.rs`, `db/indexing.rs`) | files with digests, symbol rows, attempts and cooldowns | paged sync per version, prune, replace | two syncs on the same tables; digest and rows in separate statements | every file has its rows; an enriched version has one whole document |
| security sync (`security.rs`, `security_sync.rs`, `mcp/advisories.rs`) | `advisory_matches`, `security_checked_at` | replace the rows of a source, stamp, verdict on a version | three sources, of which any may fail; replacements overlap; versions are indexed later | reports say what the stored responses say, and catch up |
| GitHub sync (`github_sync.rs`, `git_probe.rs`) | repository metadata, releases, clones | passes over due crates | releases replaced row by row | every crate with a repository is completed |
| outbound rate limiter (`state.rs`) | `next_allowed_at`, `window_timestamps` | `acquire` | two locks, sleeps with and without the lock | requests are spaced and capped per window |
| query cache (`mcp/query_cache.rs`, `db/tools.rs`) | cached answers with expiry | look up, fill, invalidate | a fill may finish after the invalidation; some syncs invalidate nothing | no invalidation that is started is lost |
| sessions (`mcp/session.rs`) | live and persisted sessions | store, load, restore, delete, reap | reaper against activity | a live session can be restored |
| stdio adapter (`crates/rust-mcp-stdio`) | session id, cached handshake | forward lines, replay the handshake | the session may be gone when a line is sent | each line runs at most once and is answered once |
| crate, dependency, source and docs tools (`mcp/tools/`) | none of their own | paging, traversals, resolution, comparison, diff | rows are dropped or merged after LIMIT/OFFSET; cycles; greedy selection | walks are exact, traversals and advice hold for the rows |
| integration clients, types, metrics, ripgrep, HTTP wiring | none | I/O, declarations | | |

The tasks share one `AppState`: the database pool, the coordinator and the rate
limiters. Tools and feeders reach the worker only through the table and the
coordinator's permit; the worker reaches tools only through the watch channels.
The syncs meet in the index tables. The hazards of the code, each at its line,
are listed in `PROJECT.json`.

## Modules

| Module | What it is |
|---|---|
| `JobLifecycle` | abstract specification: what may ever happen to one row of `refresh_jobs` |
| `RefreshQueue` | table, worker, coordinator, tool calls and feeders, with database faults and restarts |
| `RateLimiter` | `OutboundRateLimiter::acquire` |
| `SearchCache` | cached, paginated searches against the worker's and the inline syncs |
| `LocalRegistry` | cargo's registry, the discovery scan, the cache watcher and presence marking |
| `SourceIndex`, `RustdocIndex` | the two syncs that fill the index tables of a crate |
| `VersionIndexing` | their composition: worker and tool calls on the same tables |
| `AdvisoryRanges`, `AdvisorySync` | what a stored advisory says of a version; how the rows are kept current |
| `GithubSync` | the passes of the GitHub metadata sync |
| `ToolCalls` | the stages of a tool call before it answers |
| `Sessions`, `StdioAdapter` | persisted sessions and the reaper; the adapter on top of them |
| `ToolPages` | how each list tool gets from rows to one page |
| `CrateGraph` | feature, dependency and docs-page traversals |
| `DependencyAdvice` | resolve, compatibility, audit, compare |
| `ApiHistory` | API diff and migration path |
| `Ordered` | a set listed in an order: `ORDER BY` and `sort_by` |
| `MCRefreshQueue`, `MCSearchCache`, `MCLocalRegistry`, `MCVersionIndexing`, `MCCrateMetadata`, `MCServerTools` | TLC instances |
| `RefreshQueueProofs` | proofs: table and life cycle, then waiters, signals, enrichment |
| `SearchCacheProofs`, `LocalRegistryProofs` | proofs about the module of that name |
| `ToolCallsProofs` | proofs about `ToolCalls`, `Sessions` and `StdioAdapter` |
| `VersionIndexingProofs` | proofs about the two syncs of the index tables, run together |
| `CrateMetadataProofs` | proofs about `RateLimiter`, `GithubSync`, `AdvisoryRanges` and `AdvisorySync` |
| `CrateGraphProofs` | proofs about `CrateGraph` |
| `ToolAnswersProofs` | proofs about `Ordered`, `ToolPages`, `ApiHistory` and `DependencyAdvice` |

### RefreshQueue

`jobs` is the table in insertion order; the id is the index. A row keeps its crate,
scope, trigger (which fixes priority and payload), status, attempts and whether
`requested_at` has been reached (`due`). `crateRow` is the crate's row in `crates`:
absent, clean, or with `last_refresh_error` set. `waiters` is the domain of the
coordinator's map; the value a channel last sent is kept in the subscriber
(`call[t].outcome`), which is enough because a channel is removed when it is sent to.
`permit` is tokio's `Notify`. `call` holds a program counter per tool call and feeder,
`worker` that of the worker.

Every await that other tasks can interleave with ends a step:

* enqueue: `SelectExisting`, `SelectNone`, `Insert`, `EnqueueFails`;
* tool: `ToolBegins` or `IndexCrates`, enqueue, `Register`, `Subscribe`, `Receive` or
  `Timeout`, `ToolReturns`. `index_crates` registers several jobs and then waits for
  them one by one; each (crate, scope) is a call of its own in the model, and the
  delay between its registration and its wait is the interleaving between `Register`
  and `Subscribe`;
* feeder (`discovery`, `pre_warm`, `cache_watch`, `maintenance`, `freshness`,
  `backfill`): `FeederBegins`, enqueue, `FeederNotifies` where the code notifies;
* worker: `Claim`, `ClaimNone`, `FallAsleep`, `Notified`, `PollIntervalElapses`, `ClaimFails`,
  `ExecSucceeds` or `ExecFails`, `RecordFinished`, `RecordFailure`, `RecordFails`,
  `FlagCrate`, `Signal`, `EnrichSelect`, `EnrichInsert`, `EnrichFails`;
* time and failure: `RetryDelayElapses`, `Crash`.

The execution of a scope is its result, plus the commit of `persist_crate_sync` for
crate scopes. The order of the claim is the `ORDER BY`; `requested_at` of a retry is
jittered, so retries of equal priority and attempts may be claimed in any order. The
claim's `SKIP LOCKED` has no effect with one worker.

Not in this module: invalidation of the query cache (see `SearchCache`) and marking of
locally present versions (see `LocalRegistry`), both between `Signal` and the enrichment
enqueues (they touch no variable of this module), and the scopes `all`, `security` and
`docs`, which the worker accepts and no code enqueues.

### RateLimiter

Instants are relative to now: ticks to sleep, ticks until `next_allowed_at`, ages of
`window_timestamps`. `queue` is the FIFO queue of tokio's mutex on `next_allowed_at`;
the mutex on `window_timestamps` is never held across an await, so each of its
critical sections is one step. `Prompt` makes time wait for runnable tasks, and
`TimerLag` is how late a timer fires; the run uses neither, so a caller may be delayed
for any number of ticks between two steps.

### SearchCache

One crate and one query. `sizes` is the history of the index: each sync that commits
appends a generation, in which the query has the hits 1, 2, ... in the order of its
`ORDER BY`. `cache` maps a key (spelling of the crate name, offset, limit) to an answer;
an answer remembers the generations its COUNT and its SELECT saw, and whether the index
had moved on when it was put (both only for the properties). A client starts a walk
(`FirstPage`), follows `next_cursor` (`NextPage`) or stops (`Leave`); each database call
of `handle_symbol_search` is a step: look-up (`Hit`, `Miss`), `Count`, `Fetch`, `Put`. A
cursor is its offset and limit, which is what `decode_cursor` and `resolve_pagination`
read back. The worker's part is `Claim`, `Exec`, `Record` (with the signal),
`Invalidate`; that of a freshness check is `InlineSync` and `InlineEnqueue`. The row of
the deep refresh is kept because it is what the inline sync relies on for its
invalidation; how rows are enqueued and claimed in general is in `RefreshQueue`.
`ToolSync` stands for what changes the index inside a tool call and neither invalidates
nor enqueues: `index_refresh`, `index_crates` with a pinned version, the sync of
`crate_features`. `silent` is history: the generations it committed.
`Expire` is the passing of `expires_at`. `Spellings` tells the job's own spelling from
others, which `LOWER` equates in the query and the invalidation does not. A call that
asks for a page by number starts in the middle of the hits and is not modelled; nor is
the content of a hit.

### LocalRegistry

`archives`, `sources` and `mtime` are the disk, which cargo changes by `Download` and
`Extract`. The watcher is `WatcherStarts`, `InitialIndex`, then per poll `SnapshotStat`,
`SnapshotList`, `EnqueueNewFiles`: the three reads and the enqueues of
`cache_watcher.rs`, between which cargo may write. The discovery task is `ScanWalk` and
`ScanEnqueue` with its batch limit. The worker's part is `SyncCrate`, `SyncGivesUp` (the
attempts are used up), `DeepRefresh` and `MarkVersionsLocallyPresent`; `SyncInCall` is a sync
by a tool. `known` has the names in `crates`, `synced` those of them that were ever synced:
`WithStubs` adds the dependencies (`Dependencies`) to the first only. The queue is reduced to one
active row per crate whose payload the first request decides, which is what the tasks
see of it.

### SourceIndex, RustdocIndex, VersionIndexing

The tables of one crate: `files` (digest and id per version and path), `rows` (symbols,
types, impls and traits, which file owns them and where they come from), `enriched` and
`cooling` (the two timestamps of the rustdoc sync). A sync is a record in `run[p]`, for
the worker and for a tool call. The source sync goes through `EnsureSource` (download and
unpack, file by file), `ScanVersion`, and per file `UpsertFile`, `LookupFile`, `CountRows`,
`ClearFileRows`, `InsertFileRows`, then `PruneFiles`; the rustdoc sync through
`PickVersion`, `FetchDoc` (docs.rs, then the local directory), `IngestFile`,
`ClearDocRows`, `InsertDocRows`, `MarkVersion`. A transaction is two steps, the DELETE that
sees what is committed and the commit, so that concurrent replacements can collide as
under READ COMMITTED. What a parser extracts from a file is the file's content. `SyncFails`
ends a sync at any step. `CooldownElapses` only lets a cooldown of hours end when the
worker has nothing else to try.

### AdvisoryRanges, AdvisorySync

Versions are positions in semver order. `AdvisoryRanges` translates the parsers' verdicts on
OSV events, GHSA comparators and RustSec `patched`/`unaffected` lists, and how
`advisories_for_version` combines rows. In `AdvisorySync`, `said` is how far each source is
in its history of responses, `matches` the rows, `stored` the response they come from. A
syncer is the periodic task or an explicit sync; its steps are `StartSync`, `Fetch`,
`FetchFails`, `Clear`, `Commit` and `Stamp`. `Publish`, `IndexVersion` and `GoStale` are the
environment. The replacement of a crate's rows is a READ COMMITTED transaction without a
lock: `Clear` is the DELETE, which sees what is committed, `Commit` the upserts. What another
sync commits to the same rows in between is `missed` by the DELETE and stays beside the new
rows unless an upsert hits its key (`Replaced`). `mixed` is history: the sources of a crate
whose last replacement missed something. Two simplifications: the versions are read in the
same step as the response, and a DELETE is never held up by another one's row locks, which
lets the model overlap more than the database does.

### GithubSync

`StartPass` selects the first `PassLimit` due crates; per crate `FetchMetadata`,
`FetchContributors`, `UpsertMetadata`, `FetchReleases`, `DeleteReleases`, `InsertRelease` (one
statement each), `CloneRepo`, `ReadCommits`, `CrateDone`; `Wake` ends the sleep, `Restarted`
cuts a pass off.

### ToolCalls

A tool is the list of the stages of its handler; the handlers with the same list behave
alike. Stages are `EnsureCrateIndexed`, `FindIndexedCrate`, `Register`, `Subscribe`,
`WaitEnds`, `LookUpLatest`, `FreshnessSkipped`, `FreshnessProbe`, `FreshnessProbeFails`,
`InlineRefresh`, `LookUpAgain`, `LatestAgain`, `ChooseVersion`, `ChooseAgain`,
`ChooseIndexed`, `EnsureIndexed` and `EnsureFeatures`. Between them crates.io publishes and
yanks (`Publish`, `Yank`), the crate falls due or turns up as a dependency of another
(`StubAppears`: known, without versions), and the worker's job reads crates.io, commits, and
signals (`JobReads`, `JobCommits`, `JobEnds`, `JobFails`, `SignalFailure`). The three halves
of joining a job are steps of their own: the row (`JoinJob`), the channel (`Register`: what
was signalled before is lost), the subscription (`Subscribe`: a channel that is gone counts
as completed, also when the job failed). The call remembers, for the property, what was the
highest and the newest version on crates.io while it ran (`moments`), and whether the job
had read crates.io before the call joined it (`late`). Recording the result of a job and
signalling it are one step where nothing of this module lies between them; a result that
cannot be recorded is in `RefreshQueue`.

### Sessions, StdioAdapter

`live` is rmcp's in-memory manager (external), `stored` the table with the ticks since
`last_seen_at`. `ReaperReads`, `TouchSessions` and `DeleteStaleSessions` are the three awaits
of the reaper; a request for an id that is not live is `LoadSession` and `RestoreSession`.
The adapter reads one line at a time (`ReadLine`), posts it (`SendLine`, `SendRestores`,
`SendNotFound`, `SendFails`) and replays `initialize` and `notifications/initialized`
(`SendInitialize`, `SendInitialized`). A post may fail before or after the server ran it.

### ToolPages, CrateGraph, DependencyAdvice, ApiHistory

Pure algorithms, each against a reference definition. The inputs are chosen in Init, one
step is one turn of the handler's loop.

* `ToolPages`: one operator per tool, from the rows to one page; the walk along
  `next_cursor` must give what one large page gives. Each page is a query or a run of
  ripgrep of its own, and `PageOrders` says in which orders it may find the rows: in one
  for the tools whose `ORDER BY` is total, in any that keeps the sort keys for `crate_api`,
  the lines of a file for `source_search`, the dependent crates for `crate_usage_patterns`.
  `crate_deprecated` pages by number, without a cursor, and is left out.
* `CrateGraph`: the work lists of `crate_features` and `dependency_feature_impact`, the two
  level-by-level traversals of `crate_graph` and its cycle search, the crawl of docs pages;
  compared with the least closed set of nodes and with shortest walks, on all graphs of
  three nodes.
* `DependencyAdvice`: the entries of a request are merged one per step and cut at the limit,
  each crate left gets a version (`SelectVersion`), and the edges of the versions selected
  are held against each other (`CheckEdges`); then the pairs of the compatibility tools
  (`TestPair`), the findings of the audit, the recommendation of the comparison. A crate
  may be known by its name alone (indexed, with no version), and a version may depend on a
  crate more than once. High confidence must mean that a consistent choice exists, and a
  recommendation must survive every outcome of the advisories that are unknown.
  Requirements are sets of versions, that is, they parse: one that does not ends
  `dependency_resolve` with an error, and the audit then takes the latest version. The
  matrix takes the versions of a crate from the request (`GivenVersions`), or else the
  newest of the index; of those given the index may have none, and may not have the crate.
  Such a pair is listed as incompatible, with a conflict that says why, also at high
  confidence: `MatrixSound` calls a pair compatible exactly when both versions are indexed
  and stand together. The two crates differ, versions given are full version numbers, and
  a request that fails (a crate to be listed that is not indexed, an empty list) has no
  answer.
* `ApiHistory`: the best row per symbol, the two passes of the diff, sorting, the cut, and
  the actions of the migration path.

## Runs

| Run | Instance | Shows |
|---|---|---|
| `Queue` | 2 tools, 1 feeder, 1 crate, 2 attempts, 4 rows, 1 fault or restart, in the combinations below | exclusive claims, exact retry budget, channels, wake-ups and outcomes of waiters, enrichment, refinement of `JobLifecycle` |
| `QueueLive` | 1 tool with its enrichment, 1 fault, 1 restart, fair | every job settles unless its running row is orphaned; every call returns |
| `LimiterGates` | 3 callers, interval 2, window 4, fair | burst gate spacing, rate cap, lock queue, `acquire` returns |
| `SearchWalks` | 2 clients, 4 hits on pages of 2, 2 syncs, 1 fault | walks are complete; apart from what tools commit, only a raced fill leaves a stale answer |
| `RegistryFollowed` | 2 crates, one a dependency of the other, 3 releases, 2 changes, batches of 1, 1 fault, fair | no archive passed over in silence; every crate on disk is synced unless it is a stub |
| `VersionSyncs` | 2 versions, 2 files, worker and call, 1 edit, 1 failure, fair | files get their rows, docs.rs versions are enriched, documents are whole |
| `CrateMetadata` | 3 sources, of which one changes, 2 syncers, 1 fault; 5 crates, 2 faults; fair | reports are faithful after replacements that did not overlap; advisories catch up, also after overlaps; GitHub data is completed |
| `ServerTools` | 2 sessions, 3 lines, 1 restart; 10 plans of stages, 3 versions, 1 yanked, 1 fault; 4 rows; 3 nodes; 2 ranks; 3 symbols | sessions, lines, what calls say about versions, walks of five tools, traversals, advice, diffs |

Runs that end in a violation show where the code differs from what it says of itself:

| Run | Claim | Behaviour |
|---|---|---|
| `StuckAfterRestart` | the queue is durable | a row left `running` by a restart is never claimed again |
| `PresenceLost` | a crate job marks the locally present versions | a `cache_watch` payload lists new files only, so older versions on disk are unmarked |
| `UnderscoreCrate` | rustdoc JSON of a version is fetched and indexed | the document's name is compared after mapping `_` to `-`, so that of a crate with an underscore is always refused |
| `PagesLost` | following `next_cursor` pages through the results | `crate_re_exports`, `crate_trait_impls` and `crate_error_types` drop or skip rows after the database applied the offset; `source_search`, `crate_usage_patterns` and `crate_api` cut every page from an order of its own. A walk of any of the six may lose items or repeat them |

Bounds. Every bound is a CONSTANT or named in an MC module.

* `Queue`: `Explored` in `MCRefreshQueue` says what is explored together: two calls racing for
  one scope with two rows; one crate call and the cache watcher with two rows and one
  fault or restart at any position; freshness checks alone with the whole table of four,
  for the enrichment of a crate and the rows it meets. These are the least numbers at
  which the races on enqueue, registration and signal, a retry, and both enrichment
  rows happen. An insert beyond `MaxJobs` fails like a database error.
* The limiter is finite without a bound on time. A walk of two pages, the second exactly
  full, reaches both ends of a cursor; two syncs let the worker and a freshness check race.
* `RegistryFollowed`: two changes let a download fall between any two reads of a poll; with
  batches of one the scan must come back for the second crate.
* `VersionSyncs`: `Scenario` starts either with the newer version under the worker and a
  call, or with both versions under the worker, or with an edit under the worker; with a
  rustdoc page of one version the second must get its turn.
* In `CrateMetadata` the first source changes once, so that the replacements of the two syncers
  overlap with the same and with different responses; for the others rows depend on the
  versions indexed at the time. In `PagesLost` the caps on ripgrep's matches (`SearchCap`,
  `MatchCap`) are out of reach: items are lost without them.
* `CrateMetadata` and `ServerTools` explore parts that share no variable, one per behaviour
  (`part`): nothing is lost, since no step of one can enable or disable one of another.
  Three versions (`LastVersion`) of which the middle one is there first (`FirstVersion`) let
  a higher and a lower one be published, and one be yanked, during a call. Four rows
  (`MaxRows`) in two groups (`MaxGroup`) and pages of one and two (`PageLimits`) give walks
  of up to four pages, with and without equal keys at the cut. Three nodes (`MaxNode`) give
  cycles of every length up to three, self loops and diamonds; two levels (`MaxDepth`) cut a
  graph off; five pages (`MaxPage`) against a cap of three (`CrawlCap`) let a crawl end by
  either. The advice tools get the inputs named in `MCServerTools` (`ThreeCrates`,
  `OneOrTwoEdges`, `TwoOrThreeEntries`, `OneOrTwoDependencies`, `FactsOfTheFirst`,
  `SomeSides`): three crates (`MaxCrate`) of two versions (`MaxRank`), of which two are
  resolved at once (`ResolveLimit`), are the least with two parents of one dependency; a
  matrix gets one or two versions of a crate, given or from the index, and room for all
  pairs or not (`GivenVersions`, `VersionLimits`, `PairLimits`). Two symbols with every kind
  of rows in both versions and a third that is new (`MaxSymbol`, `TwoSymbolsAndANew`,
  `ThirdForFirst`) give all kinds of change, cut or whole (`DiffLimits`).

Deadlock is checked except where the system may stop: `ServerTools` and `PagesLost` (a call
that answered ends its behaviour) and `VersionSyncs` and `UnderscoreCrate` (all versions are
indexed and the bounds are used up).

Fairness. `WF(WorkerStep)`: the worker is a task of the runtime, its database and HTTP
calls time out (`state.rs`: pool `acquire_timeout`, client `timeout`), so each execution
ends. `WF(ToolStep)`, `WF(FeederStep)`: tasks are scheduled. `WF(Timeout)`,
`WF(RetryDelayElapses)`, `WF(Tick)`: timers fire and the clock advances. In `LocalRegistry`
the watcher, the scan and the marking are such tasks; `SF(SyncCrate)` says that a crate
that is enqueued again and again is synced at some time: failures are bounded by
`MaxFaults`, and giving a job up is one. In `VersionIndexing`, `WF(RunStep)` carries on a sync,
`SF(DocJob)` is the periodic enrichment maintenance, and `SF(CooldownElapses)` the clock; both
are strong because other syncs of the same task disable them for a while. In
`MCCrateMetadata`, the two periodic tasks and a job that started go on, and `security_checked_at`
gets old. No fairness is asked of requests, faults, restarts, edits, sources, or of the
result of an execution.

### Other deviations noted while modelling

These follow from the code and differ from what one would expect or a comment says; no
run of its own is kept for them:

* `index_refresh`, `index_crates` with a pinned version and `crate_features` change the index
  and invalidate nothing (`handlers.rs:602`), so an answer cached before stays until it
  expires, although `docs/ROADMAP.md:50-51` ticks off the invalidation on re-index via
  `index_refresh`. `StaleOnlyByToolSync` says that nothing else keeps an answer that no sync
  raced.
* The discovery scan skips every crate that has a row (`db/indexing.rs:1627`), also the stubs
  that a sync with dependencies leaves for crates nobody has indexed, although its purpose is
  to find crates on disk that are not indexed (`discovery.rs:3-5`). `EveryCrateDiscovered` says
  that it finds all others.
* Replacements of a crate's advisories that overlap leave rows of two responses until the
  next sync replaces both (`security.rs:409`; `mixed` in `AdvisorySync`).
* A job that failed and was signalled between a call's registration and its subscription is
  taken for completed (`coordinator.rs:131`); the call then finds nothing and says that the
  version is not there after a refresh.
* `crate_deprecated` orders the parts of its `UNION ALL` by name and kind only
  (`db/tools.rs:1996`), so that equal rows may change places between its pages.
* A document whose library has another name than its crate is refused as well
  (`rustdoc_json.rs:1615`); the model has the underscore only.
* Two concurrent enqueues of one (crate, scope) may both insert a row
  (`db/indexing.rs`, SELECT then INSERT); the worker executes them one after the other.
* A job that is signalled between the enqueue's SELECT and the registration of its
  channel leaves the call waiting for its whole timeout (`coordinator.rs`).
* Sleepers in the window gate record their request without looking at the window again,
  so a window may hold more than `window_max` (`state.rs`); the burst gate still caps it.
* A search that read before a sync may put its answer into the cache after the
  invalidation (`symbol.rs`, `worker.rs`), where it stays until it expires.
* A pass of the GitHub sync takes the first due crates in id order; if as many of them
  as a pass holds keep failing, those behind are never reached.
* `dependency_audit` may report high confidence although a requirement matches no indexed
  version, which it lists as unresolved, and it raises no issue about a crate of which only
  the name is known when the manifest asks for no version of it.
* Two advisories of one response that share their identity through an alias share a row;
  the later one wins, so the range of the earlier one is lost where they differ.
* `queries.rs:14` speaks of the latest non-yanked version; the query does not filter.
* `local_cache.rs:790` says that versions that are not semver are sorted last; the
  comparison puts them first.
* A source refresh with a `query` prunes the rows of all files that do not match it.
* In `crate_graph`, edges to dependents beyond the first level carry the root's version.
* The compatibility tools keep one requirement when both sides name the same crate.
* Of two rustdoc syncs of one version at the same time only the unique index on item ids
  stops the second; documents without a common id would both be kept (`rustdoc_json.rs`).
* The adapter keeps a session whose `notifications/initialized` failed.

## Proofs

TLAPS proves, for all values of the constants that satisfy the assumptions below:

Queue (`RefreshQueueProofs`)

* `TypeCorrect`, `RetryBudget`: from the inductive invariant `Core`, which adds to
  `TypeOK` and `AttemptBudget` that past the claim the worker's id names a row, running
  until its result is recorded (`WorkerJob`: otherwise recording a failure could requeue
  a row without attempts left), and that a registered call holds the id of a row for
  what it asked for (`CallJob`: otherwise `waiters` could name no row).
* `QueueRefinesLifecycle`: every step leaves the table alone, appends a pending row or
  moves one row (`TableStep`), and each of these is a step of `JobLifecycle` on the
  status and attempts columns, or a stutter.
* `ChannelStaysOpen`: inductive relative to `Core`; `Signal` answers every subscriber of
  the channel it removes, and nothing else removes one.
* `WakeupNotLost`: the inductive `WakeupOwed` says the same already from the empty
  claim on; only a worker step can make an old row claimable for its first attempt, and
  a registration stores a permit.
* `ClaimIsExclusive`: from `RunningIsHeld`, the claim is taken only when nothing is held.
* `SignalIsTrue`: `OutcomeInv` adds what the worker knows of its job between claim and
  signal (`WorkerNews`), since the signal passes just that on, and that a call carries no
  outcome before it waits (`Unanswered`).
* `EnrichmentIsEnqueued`: `EnrichmentOwed` extends the claim to every position of the
  worker: a finished crate job has its two rows, or the worker is still enriching it, and
  past the first scope that scope's row is there. Rows are never deleted, and a full table
  stays full, so undisturbed now means undisturbed before.

Limiter (`CrateMetadataProofs`)

* `BurstGateSpaces`: `next_allowed_at` is one interval after the last pass, and the
  sleeper holds the lock.
* `LimiterTypes`: a caller is in the lock's queue once (`QueueOnce`), and the ages stay
  sorted (`StampsInOrder`), because requests are appended at age 0 and evicted from the
  front.
* `WindowIsCapped`: `Paced` counts, for every a up to the window, the requests younger
  than a plus the callers now past the burst gate, less all callers. Each one in excess
  needed a pass of the gate in those a ticks, so that excess e takes (e - 1) intervals
  besides the time since the last pass. Recording a request moves a caller from the second
  count to the first; a pass finds the gate's interval over; a tick moves the ages and the
  clock together. At a = window this is the cap.

Cache, registry, sessions (`SearchCacheProofs`, `LocalRegistryProofs`, `ToolCallsProofs`)

* `CacheTypes`, `InvalidationComplete`: `StaleInv` says of every entry at any time that it
  was raced, or only syncs of tools (`silent`) have changed the index since, or an
  invalidation is owed. One is owed from the commit of any other sync to the deletion that
  follows it; that the deep refresh row bridges the gap of a freshness check is the point
  of the argument.
* `WalkIsComplete`: `WalkInv` says that an answer computed from one generation is the page
  that generation has (`Good`, for cached answers and those about to be put), and that a
  walk before the page at offset n has shown the first n hits (`Before`). A sync leaves
  both alone because it only appends.
* `RegistryTypes`, `NoFileOverlooked`: `RegistryInv` adds that a list read after the stat is
  the list on disk unless the directory has changed since (`SnapshotCurrent`): the stat
  precedes the listing. `PayloadMatches` says that a payload's versions were on disk and that
  a job about to mark them has synced its crate: a stub has no versions to mark.
* `LiveSessionsKeepRows`: `SessionInv` bounds how long a pass of the reaper takes
  (`PassIsShort`), and says that a live session was among the ids read or was stored or
  restored since then (`SeenInPass`, `RestoringSeen`): its row is younger than the pass and
  so than the timeout when the deletion runs.
* `LinesDeliveredOnce`: `ProxyInv` relates the line in flight to what was run and answered:
  the server has run it only in the post under way or lost, a replay posts the handshake and
  then this line, and a post outside the handshake names a session.

Tool calls (`ToolCallsProofs`)

* `ToolsTellTheTruth`: `CallInv` follows a call through its stages. Which stages are left
  fixes what was found (`Shaped`); the call has witnessed crates.io's highest version and
  all published since it began (`Witnessed`); after a check that reached crates.io the index
  has one of these (`Anchored`), so that what the call takes for the latest is one of them,
  or published after one if the latest is read once more (`Vouched`); a version asked for
  is chosen or a stage that chooses it is left (`Obedient`); while the call waits, the job it
  registered for will bring that version, or has failed, unless it had read crates.io
  before the call joined it (`Fetched`); and a completed job leaves a crate with versions, so
  that what is said not to be there belongs to a failed one (`Found`). The lists of crates.io
  and of the job have each version once, in order of publication (`ListsInv`), and a step
  lets them, the index and the moments only grow (`Grows`).

Syncs (`CrateMetadataProofs`)

* `GithubTables`: `GitInv` adds that the stages after the upsert have a metadata row, and
  that without faults the only clone is the one whose log is being read (`CloneHeld`).
* `AdvisoryRows`: `SecInv` adds that a fetched response is one of the source's history, that
  the rows of a crate are one per key and name versions that were indexed then, and stay so
  as versions are only added. A replacement keeps them, because a row its DELETE missed
  stays only beside other keys, the rows kept and those of the response have different
  sources, and of two records with a key the later one wins (`ReplacedOk`, `ResponseShape`).
* `ReportsFaithful`: `StoredOk` adds that the rows of a source that is not `mixed` are those of
  the response that `stored` names, for the versions that were indexed when they were
  written; a replacement whose DELETE missed nothing makes this so again, whatever rows it
  found (`ReplacedStored`). A record gives
  a row for every listed version or one without a version; the verdict combines a version's
  rows by the strongest word (`Strongest`), and this is the strongest word of the records
  themselves unless one of them was overwritten. The theorem has the hypothesis
  `SourcesConsistent`: records of one response with the same identity agree on withdrawal and
  range, and an OSV record lists no version that its range excludes. Without it an earlier
  alias record is lost (see the deviations). The run's history satisfies it and TLC
  evaluates it (`ConsistentHistory` in `MCCrateMetadata`).

Index tables (`VersionIndexingProofs`)

* `IndexedTables`, `EnrichedIsWhole`: both from `IndexInv`, which TLC agrees with on the
  instance of `VersionSyncs`. It says what each stage of a sync holds (`RunOk`): a source
  sync's id is that of its file's row, or of no row since the file was pruned
  (`RunFiles`: otherwise it would delete another file's rows); a rustdoc sync's is that of
  its document, which nothing prunes; what its DELETE saw is nothing or the whole of one
  document, and once it is done its version has such a batch (`RunRows`). Every step
  touches one sync; `OtherRunOk` shows that the rest keep what they hold, because an upsert
  keeps ids and takes a fresh one (`FreshIdIsNew`, by counting; `UpsertOk`), pruning spares
  documents, and rustdoc rows change only from batch to batch (`KeepsDocs`). The heart is
  `InsertedWhole`: rows committed since the DELETE are all of them another batch
  (`BatchesApart`), so an item common to both documents violates the unique index and the
  transaction is rolled back.

Traversals (`CrateGraphProofs`)

* `GraphAnswers`: each traversal has its invariant, and the reference definitions are reduced
  to what the invariants need. A set reachable from a node is the least set that holds it
  and is closed under the edges, so a work list that only takes successors and ends empty
  has found it. For `crate_graph`, what level k of the search found is what a walk of k edges
  and none shorter reaches, up to the depth. For the cycle search, a gray node lies on the
  path from the root, a black one has only black successors and lies on no cycle: an edge to
  a gray node is a cycle, and a search that found none leaves only black nodes and roots
  without edges. In the crawl of docs pages the pages seen and those waiting are disjoint and
  together within the cap; below the cap every link of a fetched page is one of them, so an
  empty queue means that all were tried.

Answers (`ToolAnswersProofs`)

* `WalksExact`: for the five tools of `ServerTools` (hypothesis `WalkTools \subseteq
  ExactTools`), whose rows have one order, a page is a slice of a list that does not depend
  on the page, and what the walk has collected is the slice up to its offset. `Listed` is
  shown to list a set in its order, once each (`RanksInOrder`). The list behind the other
  tools depends on the page: `PagesLost` shows six that lose items, and `crate_alternatives`
  ranks a number of candidates that grows with the offset.
* `DiffsFaithful`: `DiffInv` says that the changes are those of the symbols that either loop
  has seen, each with the kind its best rows give it; sorting keeps them and puts additions
  last, so a diff that still has an addition after the cut has every breaking symbol, and a
  path of high confidence, which was not cut, has an action for each.
* `AdviceHolds`: one invariant per tool. `ResolveInv`: what is wanted of a crate is the
  requirement that counts among the entries merged so far, the last addition's or else the
  first; what is selected is the best match. `MatrixInv`: the pairs judged are those of
  the two lists before the two positions, each a selection (`Selected`) that the index and
  the edges allow or not, and the counter is their number, so that a full count means all
  pairs (by the product of the lengths). `AuditInv`: the counters and issues are those of the
  dependencies audited. `CompareInv`: a score never rises with the number of affected
  advisories, so every outcome lies between the worst case and the score. That no conflict
  among the edges means that a consistent choice exists, and conversely, is `StandsIff`.

Least and greatest members of sets (`FirstId`, `LeastIs`, `NewestIs`, shortest walks) are
found by the well-foundedness of < on the naturals, the set being fixed, and by the
finite-set theorems; no theorem rests on an induction over an operator.

The assumptions: bounds are naturals (`QueueAssumption`, `LimiterAssumption`,
`CacheAssumption`, `RegistryAssumption`, `SessionAssumption`, `ToolCallAssumption`,
`AdvisoryAssumption`, `GithubAssumption`, `SourceAssumption`, `RustdocAssumption`,
`CallAssumption`, `VersionAssumption`, `PageBounds`, `GraphBounds`, `DiffBounds`,
`AdviceBounds`); `MaxAttempts`, page sizes and the latest versions
are positive; tools and feeders differ and use scopes that exist; callers of the limiter
and crates of the registry are finitely many; session ids are positive, 0 being none;
crate ids of the GitHub sync are naturals; versions, syncs and items of a document are
finitely many, and the files of a version are numbered from 1 to at most 100; every
advisory source has a first response, and no crate is called what stands for no crate;
graphs have a node and a level, a docs crawl at least two pages and room for two; indexes,
edges, requests, lists of versions, manifests, facts and symbol tables have the types of
their rows, the first version on crates.io is one, dependencies are crates, the edges
of an index are finitely many, and a symbol has at most one that is most like it.

One assumption is about a program outside the repository. `SharedItems`: two non-empty
rustdoc documents of a version share an item id. Ids are the small numbers rustdoc gives
out (`rustdoc_item_id INTEGER`, `migrations/0007`), in one unique index per table. It is
needed for `EnrichedIsWhole`: without it TLC finds two syncs, one with the document of
docs.rs and one with the local file, that both commit. `VersionSyncs` evaluates the
assumption but has no two syncs with different documents of one version at the same time;
the proof covers them.

Only model-checked: the liveness properties (`EveryJobSettles`, `EveryCallReturns`,
`EveryAcquireReturns`, `EveryCrateDiscovered`, `FilesIndexed`, `EnrichmentReached`,
`AdvisoriesSettle`, `GithubReaches`), because fairness and ENABLED are out of the prover's
reach. Every invariant and action property of a passing run is proved.

## Not modelled

* Extraction: what the parsers make of Rust source and rustdoc JSON (`rustdoc_json.rs`,
  `local_cache.rs`) is a function of the file; only when it runs, what it replaces and
  what happens when it fails is modelled.
* Text: snippets, ranking, message wording, ripgrep's matching; license policy and the
  scores of `crate_alternatives` are tables of constants.
* Wire types and database row types: declarations.
* Integration clients: requests and responses are the inputs of the syncs; their retry
  and timeout is the result "fails".
* Metrics, configuration and HTTP wiring: no influence on the state modelled.
* Page numbers (`(page - 1) * limit` in `u32`, `utils.rs`): walks follow cursors.
* `source_search`, `docs_search` and `crate_search` use the query cache as `symbol_search`
  does and are not repeated in `SearchCache`; a key under another spelling of a crate
  name is in the model, but stays stale until it expires.
* Starvation of low priorities by an unbounded stream of on-demand jobs: the bound on
  rows ends every stream.

## State of the project

Planned and done: the queue with its actors, limiter, query cache, registry, indexing,
advisories, GitHub, tool calls, sessions and adapter, the algorithms of the tools; a run for
each, and the proofs above.

Open, as possible extensions: action properties of the index tables (a rustdoc row leaves
only with its whole document, a file row only by pruning); the verdicts of `AdvisoryRanges`
against the semver ranges they are parsed from; `source_search`, `docs_search` and
`crate_search` in the query cache.
