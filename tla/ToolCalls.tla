----------------------------- MODULE ToolCalls -----------------------------
(***************************************************************************)
(* What every crate tool does before it answers: find the crate (indexing  *)
(* it on demand), check its freshness against crates.io, choose a version  *)
(* (fetching a missing one), and make the rows the tool reads available.   *)
(* A tool is the list of the stages its handler goes through.  The stages  *)
(* are separate database and network calls: crates.io publishes and yanks, *)
(* and the worker's job for the crate runs, in between.                    *)
(*                                                                         *)
(* One crate; its versions are numbers in semver order, published in any   *)
(* order.  What the tools answer from the rows is in the modules ToolPages,*)
(* CrateGraph, DependencyAdvice and ApiHistory.                            *)
(***************************************************************************)
EXTENDS Integers, Sequences, SequencesExt, FiniteSets, FiniteSetsExt

CONSTANTS
    LastVersion,     \* versions 1..LastVersion may be published
    FirstVersion,    \* the one that is published already
    Asks,            \* the sets of versions a request may name
    MaxYanked,       \* versions that may be yanked
    MaxCallFaults    \* calls to crates.io or the database that may fail

CrateVersions == 1..LastVersion

ASSUME ToolCallAssumption ==
    /\ LastVersion \in Nat \ {0} /\ FirstVersion \in CrateVersions
    /\ Asks \subseteq SUBSET CrateVersions
    /\ {MaxYanked, MaxCallFaults} \subseteq Nat
-----------------------------------------------------------------------------
(* The tools, as the stages of their handlers. *)
VersionedPlan == <<"context", "version">>
CrateIntel == VersionedPlan
CrateUsagePatterns == VersionedPlan
CrateHotspots == VersionedPlan
CrateAlternatives == VersionedPlan
DependencyFeatureImpact == VersionedPlan
CrateFeatures == VersionedPlan \o <<"features">>
CrateApi == VersionedPlan \o <<"rustdoc">>
CrateTypeInfo == VersionedPlan \o <<"rustdoc">>
CrateTraitImpls == VersionedPlan \o <<"rustdoc">>
CrateReExports == VersionedPlan \o <<"rustdoc">>
CrateImportPath == VersionedPlan \o <<"rustdoc">>
CrateErrorTypes == VersionedPlan \o <<"rustdoc">>
CrateDeprecated == VersionedPlan \o <<"rustdoc, if it can be had">>
CrateDeriveMacros == VersionedPlan \o <<"source">>
CrateVersionsList == <<"context", "latest">>
CrateLicenseCheck == <<"context", "latest again", "version">>
CrateCompare == <<"context", "latest again", "version">>
CrateGraphTool == <<"context", "version, if indexed">>
CrateApiDiff == <<"context", "version, if indexed", "rustdoc">>
CrateMigrationPath == CrateApiDiff
SourceContext == <<"indexed crate", "version", "source">>
SourceRead == <<"known crate", "version, if indexed", "source">>

\* The plans that differ; tools with equal plans behave alike here.
Plans == {CrateIntel, CrateFeatures, CrateTypeInfo, CrateDeprecated, CrateDeriveMacros,
          CrateVersionsList, CrateLicenseCheck, CrateApiDiff, SourceContext, SourceRead}

VARIABLES
    published,   \* crates.io: the versions in the order of publication
    yanked,      \* crates.io: the versions yanked
    index,       \* the crate in the index
    crateJob,    \* the active job of scope "crate" of this crate
    toolCall,    \* the tool call
    callFaults   \* failures so far

callVars == <<published, yanked, index, crateJob, toolCall, callFaults>>

NoJob == [state |-> "none", read |-> {}]
NoCall == [pc |-> "idle"]

\* The crate is unknown, a stub that another crate depends on, or indexed.
CallInit ==
    /\ published = <<FirstVersion>> /\ yanked = {}
    /\ \E known \in BOOLEAN, rows \in {{}, {FirstVersion}} :
          /\ rows # {} => known
          /\ index = [known |-> known, rows |-> rows, due |-> known]
    /\ crateJob = NoJob
    /\ toolCall = NoCall
    /\ callFaults = 0
-----------------------------------------------------------------------------
(* crates.io. *)
OnCratesIo == ToSet(published)

\* The last published of these versions: ORDER BY published_at DESC LIMIT 1,
\* whether or not it is yanked.
Newest(rows) == published[Max({i \in DOMAIN published : published[i] \in rows})]

\* crates.io's max_version: the highest version that is not yanked, if any.
RemoteMax == IF OnCratesIo \subseteq yanked THEN Max(OnCratesIo) ELSE Max(OnCratesIo \ yanked)

\* A call sees crates.io at several moments; every one of them counts.
Seen(c) == IF c.pc = "idle" THEN c
           ELSE [c EXCEPT !.moments = @ \cup {RemoteMax', Newest(OnCratesIo)'}]

Publish ==
    /\ \E v \in CrateVersions \ OnCratesIo : published' = Append(published, v)
    /\ UNCHANGED <<yanked, index, crateJob, callFaults>>
    /\ toolCall' = Seen(toolCall)

Yank ==
    /\ Cardinality(yanked) < MaxYanked
    /\ \E v \in OnCratesIo \ yanked : yanked' = yanked \cup {v}
    /\ UNCHANGED <<published, index, crateJob, callFaults>>
    /\ toolCall' = Seen(toolCall)

\* next_check_at passes.
FallDue ==
    /\ index.known /\ ~ index.due
    /\ index' = [index EXCEPT !.due = TRUE]
    /\ UNCHANGED <<published, yanked, crateJob, toolCall, callFaults>>

\* The sync of a crate that depends on this one leaves a stub: no versions.
StubAppears ==
    /\ ~ index.known
    /\ index' = [index EXCEPT !.known = TRUE, !.due = TRUE]
    /\ UNCHANGED <<published, yanked, crateJob, toolCall, callFaults>>
-----------------------------------------------------------------------------
(* The worker's job for the crate: it reads crates.io, commits, records its *)
(* result and signals it, a failed one after it is queued again.            *)

\* One row per crate and scope: a request joins the job that is there.
Joined(j) == IF j.state = "none" THEN [state |-> "queued", read |-> {}] ELSE j

BackgroundJob ==
    /\ crateJob.state = "none"
    /\ crateJob' = Joined(crateJob)
    /\ UNCHANGED <<published, yanked, index, toolCall, callFaults>>

JobReads ==
    /\ crateJob.state = "queued"
    /\ crateJob' = [state |-> "running", read |-> OnCratesIo]
    /\ UNCHANGED <<published, yanked, index, toolCall, callFaults>>

\* persist_crate_sync: the crate and its versions in one transaction.
Persisted(i, read) ==
    [i EXCEPT !.known = TRUE, !.rows = @ \cup read, !.due = FALSE]

JobCommits ==
    /\ crateJob.state = "running"
    /\ index' = Persisted(index, crateJob.read)
    /\ crateJob' = [crateJob EXCEPT !.state = "stored"]
    /\ UNCHANGED <<published, yanked, toolCall, callFaults>>

\* signal_completion reaches the channel of the job once it is registered.
Listens(c) == c.pc \in {"subscribes", "waits"} /\ c.joined /\ c.outcome = "none"
Signalled(c, outcome) == IF Listens(c) THEN [c EXCEPT !.outcome = outcome] ELSE c

\* A request after the job has ended starts another.
Ended(c) == IF c.pc = "idle" THEN c ELSE [c EXCEPT !.joined = FALSE]

JobEnds ==
    /\ crateJob.state = "stored"
    /\ crateJob' = NoJob
    /\ toolCall' = Ended(Signalled(toolCall, "completed"))
    /\ UNCHANGED <<published, yanked, index, callFaults>>

\* The last attempt failed, or an attempt that is queued again.
JobFails ==
    /\ crateJob.state = "running"
    /\ callFaults < MaxCallFaults /\ callFaults' = callFaults + 1
    /\ \/ crateJob' = NoJob /\ toolCall' = Ended(Signalled(toolCall, "failed"))
       \/ crateJob' = [state |-> "requeued", read |-> {}] /\ UNCHANGED toolCall
    /\ UNCHANGED <<published, yanked, index>>

\* A call does not wait for the retry, also one that joined it already.
SignalFailure ==
    /\ crateJob.state = "requeued"
    /\ crateJob' = [crateJob EXCEPT !.state = "queued"]
    /\ toolCall' = Signalled(toolCall, "failed")
    /\ UNCHANGED <<published, yanked, index, callFaults>>
-----------------------------------------------------------------------------
(* The call. *)
Stage == Head(toolCall.plan)
AtStage(stages) == toolCall.pc = "stage" /\ Stage \in stages

\* The stage is done; after the last one the tool queries and answers.
Passed(c) == [c EXCEPT !.plan = Tail(@), !.pc = IF Len(c.plan) = 1 THEN "answered" ELSE "stage"]
Failed(c, why) == [c EXCEPT !.pc = "error", !.why = why]

\* ask is the set of versions named in the request, empty for the latest.
BeginCall(plan, ask) ==
    /\ toolCall.pc = "idle"
    /\ ask = {} \/ plan # CrateVersionsList
    /\ plan = CrateApiDiff => ask # {}
    /\ Cardinality(ask) = 2 => plan = CrateApiDiff
    /\ toolCall' = [plan |-> plan, pc |-> "stage", ask |-> ask, latest |-> 0,
                    chosen |-> {}, check |-> "none", why |-> "none",
                    joined |-> FALSE, outcome |-> "none", again |-> FALSE,
                    new |-> ~ (ask \subseteq OnCratesIo), late |-> FALSE,
                    moments |-> {RemoteMax, Newest(OnCratesIo)}]
    /\ UNCHANGED <<published, yanked, index, crateJob, callFaults>>

\* The response is sent and the call forgotten.
EndCall ==
    /\ toolCall.pc \in {"answered", "error"}
    /\ toolCall' = NoCall
    /\ UNCHANGED <<published, yanked, index, crateJob, callFaults>>

\* A database call of the handler fails; in crate_deprecated the enrichment
\* may fail, and sync_single_crate in crate_features.
ToolCallFails ==
    /\ toolCall.pc \notin {"idle", "answered", "error", "registers", "subscribes", "waits"}
    /\ callFaults < MaxCallFaults /\ callFaults' = callFaults + 1
    /\ toolCall' = IF AtStage({"rustdoc, if it can be had", "features"}) THEN Passed(toolCall)
                   ELSE Failed(toolCall, "database")
    /\ UNCHANGED <<published, yanked, index, crateJob>>

\* enqueue_on_demand: late when the job joined had already read crates.io.
JoinJob ==
    /\ crateJob' = Joined(crateJob)
    /\ toolCall' = [toolCall EXCEPT !.pc = "registers", !.outcome = "none", !.joined = TRUE,
                                    !.late = crateJob.state \in {"running", "stored"}]

\* ensure_crate_indexed.
EnsureCrateIndexed ==
    /\ AtStage({"context"})
    /\ IF index.known
       THEN toolCall' = [toolCall EXCEPT !.pc = "look up"] /\ UNCHANGED crateJob
       ELSE JoinJob
    /\ UNCHANGED <<published, yanked, index, callFaults>>

\* source_context and source_read want the crate indexed already; for the
\* latest version source_read goes on without the crate.
FindIndexedCrate ==
    /\ AtStage({"indexed crate", "known crate"})
    /\ toolCall' = CASE ~ index.known /\ (Stage = "indexed crate" \/ toolCall.ask # {})
                            -> Failed(toolCall, "not indexed")
                     [] Stage = "known crate" /\ toolCall.ask = {} /\ index.rows = {}
                            -> [toolCall EXCEPT !.pc = "answered"]
                     [] Stage = "known crate" /\ toolCall.ask = {} /\ index.rows # {}
                            -> Passed([toolCall EXCEPT !.latest = Newest(index.rows)])
                     [] index.known /\ Stage = "known crate" /\ toolCall.ask # {} -> Passed(toolCall)
                     [] OTHER -> [toolCall EXCEPT !.pc = "look up"]
    /\ UNCHANGED <<published, yanked, index, crateJob, callFaults>>

\* The second half of enqueue_on_demand: from here on a signal is kept.
Register ==
    /\ toolCall.pc = "registers"
    /\ toolCall' = [toolCall EXCEPT !.pc = "subscribes"]
    /\ UNCHANGED <<published, yanked, index, crateJob, callFaults>>

\* A stage waits for its job: the first stage that of the crate.
JobDone(c) == [c EXCEPT !.pc = IF Head(c.plan) = "context" THEN "look up" ELSE "choose again"]

\* wait_for_job: a channel that is gone counts as completed, whatever the job
\* signalled.
Subscribe ==
    /\ toolCall.pc = "subscribes"
    /\ toolCall' = IF toolCall.outcome = "none" THEN [toolCall EXCEPT !.pc = "waits"]
                   ELSE JobDone(toolCall)
    /\ UNCHANGED <<published, yanked, index, crateJob, callFaults>>

\* The waiting call is signalled, or its timeout strikes first.
WaitEnds ==
    /\ toolCall.pc = "waits"
    /\ \/ toolCall.outcome = "completed" /\ toolCall' = JobDone(toolCall)
       \/ toolCall.outcome = "failed" /\ toolCall' = Failed(toolCall, "job failed")
       \/ toolCall.outcome = "none" /\ toolCall' = Failed(toolCall, "timeout")
    /\ UNCHANGED <<published, yanked, index, crateJob, callFaults>>

LookUpLatest ==
    /\ toolCall.pc = "look up"
    /\ toolCall' = IF ~ index.known THEN Failed(toolCall, "could not be indexed")
                   ELSE IF index.rows = {} THEN Failed(toolCall, "no versions")
                   ELSE [toolCall EXCEPT !.latest = Newest(index.rows), !.pc = "check freshness"]
    /\ UNCHANGED <<published, yanked, index, crateJob, callFaults>>

\* ensure_freshness_for_interaction: not due, or the probe of crates.io.
Checked(result) == Passed([toolCall EXCEPT !.check = result])
FreshnessSkipped ==
    /\ toolCall.pc = "check freshness" /\ ~ index.due
    /\ toolCall' = Checked("skipped")
    /\ UNCHANGED <<published, yanked, index, crateJob, callFaults>>

\* mark_crate_probe_failed: checked again in an hour.
FreshnessProbeFails ==
    /\ toolCall.pc = "check freshness" /\ index.due
    /\ callFaults < MaxCallFaults /\ callFaults' = callFaults + 1
    /\ index' = [index EXCEPT !.due = FALSE]
    /\ toolCall' = Checked("failed")
    /\ UNCHANGED <<published, yanked, crateJob>>

\* Unchanged: the highest version on crates.io is the latest one here.
FreshnessProbe ==
    /\ toolCall.pc = "check freshness" /\ index.due
    /\ IF RemoteMax = toolCall.latest
       THEN index' = [index EXCEPT !.due = FALSE] /\ toolCall' = Checked("unchanged")
       ELSE toolCall' = [toolCall EXCEPT !.pc = "sync"] /\ UNCHANGED index
    /\ UNCHANGED <<published, yanked, crateJob, callFaults>>

\* sync_single_crate; the deep refresh it enqueues is another scope's job.
InlineRefresh ==
    /\ toolCall.pc = "sync"
    /\ index' = Persisted(index, OnCratesIo)
    /\ toolCall' = [toolCall EXCEPT !.check = "changed", !.pc = "look up again"]
    /\ UNCHANGED <<published, yanked, crateJob, callFaults>>

\* Mutant: the latest version read before the refresh is kept.
LookUpAgainNot ==
    /\ toolCall.pc = "look up again"
    /\ toolCall' = Passed(toolCall)
    /\ UNCHANGED <<published, yanked, index, crateJob, callFaults>>

\* The latest version is read again after the check found a change.
LookUpAgain ==
    /\ toolCall.pc = "look up again"
    /\ toolCall' = Passed([toolCall EXCEPT !.latest = Newest(index.rows)])
    /\ UNCHANGED <<published, yanked, index, crateJob, callFaults>>

\* crate_license_check and crate_compare read the latest version once more: a
\* job may have committed meanwhile, also an older list than crates.io has now.
LatestAgain ==
    /\ AtStage({"latest", "latest again"})
    /\ toolCall' = Passed(IF Stage = "latest" THEN [toolCall EXCEPT !.chosen = {toolCall.latest}]
                          ELSE [toolCall EXCEPT !.latest = Newest(index.rows), !.again = TRUE])
    /\ UNCHANGED <<published, yanked, index, crateJob, callFaults>>

\* The requested version, or the latest.
Chosen(c) == IF c.ask = {} THEN {c.latest} ELSE c.ask

\* resolve_version_or_latest; a missing version starts a backfill.
ChooseVersion ==
    /\ AtStage({"version"})
    /\ IF toolCall.ask \subseteq index.rows
       THEN /\ toolCall' = Passed([toolCall EXCEPT !.chosen = Chosen(toolCall), !.latest = 0])
            /\ UNCHANGED crateJob
       ELSE JoinJob
    /\ UNCHANGED <<published, yanked, index, callFaults>>

\* After the backfill the version is there or the tool gives up.
ChooseAgain ==
    /\ toolCall.pc = "choose again"
    /\ toolCall' = IF toolCall.ask \subseteq index.rows
                   THEN Passed([toolCall EXCEPT !.chosen = toolCall.ask])
                   ELSE Failed(toolCall, "not there after a refresh")
    /\ UNCHANGED <<published, yanked, index, crateJob, callFaults>>

\* crate_api_diff, crate_graph and source_read look and do not fetch.
ChooseIndexed ==
    /\ AtStage({"version, if indexed"})
    /\ toolCall' = IF toolCall.ask \subseteq index.rows
                   THEN Passed([toolCall EXCEPT !.chosen = Chosen(toolCall), !.latest = 0])
                   ELSE Failed(toolCall, "not indexed")
    /\ UNCHANGED <<published, yanked, index, crateJob, callFaults>>

\* ensure_source_indexed and ensure_rustdoc_indexed: the rows may be there
\* afterwards or not (the job fails, times out or finds nothing to index), and
\* the tool goes on with what it has.
EnsureIndexed ==
    /\ AtStage({"source", "rustdoc", "rustdoc, if it can be had"})
    /\ toolCall' = Passed(toolCall)
    /\ UNCHANGED <<published, yanked, index, crateJob, callFaults>>

\* crate_features syncs the crate once more when it finds no feature rows.
EnsureFeatures ==
    /\ AtStage({"features"})
    /\ index' \in {index, Persisted(index, OnCratesIo)}
    /\ toolCall' = Passed(toolCall)
    /\ UNCHANGED <<published, yanked, crateJob, callFaults>>

ToolCallStep ==
    \/ \E plan \in Plans, ask \in Asks : BeginCall(plan, ask)
    \/ EndCall \/ ToolCallFails
    \/ EnsureCrateIndexed \/ FindIndexedCrate \/ Register \/ Subscribe \/ WaitEnds \/ LookUpLatest
    \/ FreshnessSkipped \/ FreshnessProbeFails \/ FreshnessProbe \/ InlineRefresh \/ LookUpAgain
    \/ LatestAgain \/ ChooseVersion \/ ChooseAgain \/ ChooseIndexed
    \/ EnsureIndexed \/ EnsureFeatures

CallNext ==
    \/ Publish \/ Yank \/ FallDue \/ StubAppears
    \/ BackgroundJob \/ JobReads \/ JobCommits \/ JobEnds \/ JobFails \/ SignalFailure
    \/ ToolCallStep

CallSpec == CallInit /\ [][CallNext]_callVars
-----------------------------------------------------------------------------
(* Properties. *)

\* What a crate tool tells its client about versions is true.  Asked for the
\* latest version after a freshness check that reached crates.io, it answers
\* for one that was the highest or the newest there during the call, or, when it
\* reads the latest once more, for one published no earlier; asked for a
\* version, it answers for that one.  It says that a version is not there
\* although it refreshed the crate (resolve_version_or_latest) only when the
\* version was published after the call began, the job the call joined had read
\* crates.io before, or its failure was taken for success; that the crate could
\* not be indexed, only in this last case; and that the crate has no versions
\* (fetch_crate_context), only when no job it waited for completed.
CallsTruthful ==
    /\ toolCall.pc = "answered" =>
           /\ toolCall.ask = {} /\ toolCall.check \in {"changed", "unchanged"} =>
                  \A v \in toolCall.chosen : \E m \in toolCall.moments :
                      v = m \/ (toolCall.again /\ Newest({v, m}) = v)
           /\ toolCall.ask # {} => toolCall.chosen = toolCall.ask
    /\ toolCall.pc = "error" =>
           /\ toolCall.why = "not there after a refresh" =>
                  toolCall.late \/ toolCall.new \/ toolCall.outcome = "failed"
           /\ toolCall.why = "could not be indexed" => toolCall.outcome = "failed"
           /\ toolCall.why = "no versions" => toolCall.outcome # "completed"
=============================================================================
