----------------------------- MODULE GithubSync -----------------------------
(***************************************************************************)
(* The periodic GitHub metadata sync (github_sync.rs, git_probe.rs and the *)
(* client and queries it uses).  A pass takes the first crates, in id      *)
(* order, whose metadata is missing or old; for each it fetches and stores *)
(* the metadata, replaces the releases one statement at a time and clones  *)
(* the repository to look at its commits.  Only the metadata decides       *)
(* whether the crate counts as processed.                                  *)
(***************************************************************************)
EXTENDS Naturals, FiniteSets, FiniteSetsExt

CONSTANTS
    GitCrates,       \* crate ids
    Url,             \* Url[c]: "none" (not on GitHub), "odd" (contains github.com/ but
                     \* no owner and repository can be read off it), "gone", "repo"
    Tags,            \* the releases GitHub lists for a repository
    Drafts,          \* those of them that are drafts
    PassLimit,       \* crates per pass
    CloneDepth,      \* GIT_PROBE_CLONE_DEPTH; 0 switches the probe off
    MaxGitFaults     \* bound: failing calls and interrupted passes

ASSUME GithubAssumption ==
    /\ GitCrates \subseteq Nat /\ Url \in [GitCrates -> {"none", "odd", "gone", "repo"}]
    /\ Drafts \subseteq Tags /\ PassLimit \in Nat \ {0} /\ {CloneDepth, MaxGitFaults} \subseteq Nat

VARIABLES
    meta,        \* github_repo_metadata: "none", "fresh" or "old"
    contributors,\* crates whose row has a contributor count
    commits,     \* crates whose row has commit data
    releases,    \* github_releases
    clones,      \* crates whose clone directory is on disk
    pass,        \* the sync in progress
    gitFaults    \* failures so far

gitVars == <<meta, contributors, commits, releases, clones, pass, gitFaults>>

IdlePass == [pc |-> "idle", todo |-> {}, c |-> 0, known |-> FALSE, tags |-> {}]

GitInit ==
    /\ meta = [c \in GitCrates |-> "none"]
    /\ contributors = {} /\ commits = {} /\ clones = {}
    /\ releases = [c \in GitCrates |-> {}]
    /\ pass = IdlePass /\ gitFaults = 0

GitFault == gitFaults < MaxGitFaults /\ gitFaults' = gitFaults + 1

\* parse_github_owner_repo.
Parses(c) == Url[c] \in {"gone", "repo"}

\* fetch_crates_needing_github_metadata: ... LIKE '%github.com/%' ORDER BY id LIMIT.
NeedsMetadata(c) == Url[c] # "none" /\ meta[c] # "fresh"
Candidates ==
    LET all == {c \in GitCrates : NeedsMetadata(c)}
    IN  {c \in all : Cardinality({d \in all : d < c}) < PassLimit}

\* The next candidate whose URL names a repository.
NextCandidate(todo) ==
    LET usable == {c \in todo : Parses(c)}
    IN  IF usable = {} THEN [IdlePass EXCEPT !.pc = "asleep"]
        ELSE [IdlePass EXCEPT !.pc = "metadata", !.c = Min(usable),
                              !.todo = usable \ {Min(usable)}]

StartPass ==
    /\ pass.pc = "idle"
    /\ pass' = NextCandidate(Candidates)
    /\ UNCHANGED <<meta, contributors, commits, releases, clones, gitFaults>>

\* fetch_repo_metadata: a repository that is gone, or a failure, ends this crate.
FetchMetadata ==
    /\ pass.pc = "metadata"
    /\ \/ /\ Url[pass.c] = "repo" /\ UNCHANGED gitFaults
          /\ pass' = [pass EXCEPT !.pc = "contributors"]
       \/ /\ IF Url[pass.c] = "repo" THEN GitFault ELSE UNCHANGED gitFaults
          /\ pass' = NextCandidate(pass.todo)
    /\ UNCHANGED <<meta, contributors, commits, releases, clones>>

\* fetch_contributor_count: any failure is "not known".
FetchContributors ==
    /\ pass.pc = "contributors"
    /\ \/ pass' = [pass EXCEPT !.pc = "upsert", !.known = TRUE] /\ UNCHANGED gitFaults
       \/ pass' = [pass EXCEPT !.pc = "upsert"] /\ GitFault
    /\ UNCHANGED <<meta, contributors, commits, releases, clones>>

\* upsert_github_metadata writes the row and its time; on failure the crate ends.
UpsertMetadata ==
    /\ pass.pc = "upsert"
    /\ \/ /\ meta' = [meta EXCEPT ![pass.c] = "fresh"]
          /\ contributors' = IF pass.known THEN contributors \cup {pass.c}
                             ELSE contributors \ {pass.c}
          /\ pass' = [pass EXCEPT !.pc = "releases"]
          /\ UNCHANGED gitFaults
       \/ /\ pass' = NextCandidate(pass.todo) /\ GitFault
          /\ UNCHANGED <<meta, contributors>>
    /\ UNCHANGED <<commits, releases, clones>>

AfterReleases == [pass EXCEPT !.pc = IF CloneDepth > 0 THEN "clone" ELSE "done", !.tags = {}]

\* Mutant: drafts are stored, too.
FetchReleasesWithDrafts ==
    /\ pass.pc = "releases"
    /\ \/ pass' = [pass EXCEPT !.pc = "delete", !.tags = Tags] /\ UNCHANGED gitFaults
       \/ pass' = AfterReleases /\ GitFault
    /\ UNCHANGED <<meta, contributors, commits, releases, clones>>

\* fetch_releases, without the drafts; on failure the old releases stay.
FetchReleases ==
    /\ pass.pc = "releases"
    /\ \/ pass' = [pass EXCEPT !.pc = "delete", !.tags = Tags \ Drafts] /\ UNCHANGED gitFaults
       \/ pass' = AfterReleases /\ GitFault
    /\ UNCHANGED <<meta, contributors, commits, releases, clones>>

\* upsert_github_releases: DELETE, then one INSERT after the other, each
\* committed by itself; the first that fails ends it.
DeleteReleases ==
    /\ pass.pc = "delete"
    /\ \/ /\ releases' = [releases EXCEPT ![pass.c] = {}] /\ UNCHANGED gitFaults
          /\ pass' = [pass EXCEPT !.pc = "insert"]
       \/ pass' = AfterReleases /\ GitFault /\ UNCHANGED releases
    /\ UNCHANGED <<meta, contributors, commits, clones>>

InsertRelease ==
    /\ pass.pc = "insert"
    /\ \/ /\ pass.tags # {} /\ UNCHANGED gitFaults
          /\ LET t == CHOOSE t \in pass.tags : TRUE
             IN  /\ releases' = [releases EXCEPT ![pass.c] = @ \cup {t}]
                 /\ pass' = [pass EXCEPT !.tags = @ \ {t}]
       \/ pass.tags = {} /\ pass' = AfterReleases /\ UNCHANGED <<releases, gitFaults>>
       \/ pass.tags # {} /\ pass' = AfterReleases /\ GitFault /\ UNCHANGED releases
    /\ UNCHANGED <<meta, contributors, commits, clones>>

\* Mutant: a stale clone is not removed, so git refuses the directory.
CloneRepoKeepsStale ==
    /\ pass.pc = "clone"
    /\ IF pass.c \in clones
       THEN pass' = [pass EXCEPT !.pc = "done"] /\ UNCHANGED <<clones, gitFaults>>
       ELSE \/ pass' = [pass EXCEPT !.pc = "log"] /\ clones' = clones \cup {pass.c} /\ UNCHANGED gitFaults
            \/ pass' = [pass EXCEPT !.pc = "done"] /\ UNCHANGED clones /\ GitFault
    /\ UNCHANGED <<meta, contributors, commits, releases>>

\* probe_repo removes what an earlier run left, clones, and removes the
\* directory again when the clone fails.
CloneRepo ==
    /\ pass.pc = "clone"
    /\ \/ /\ clones' = clones \cup {pass.c} /\ UNCHANGED gitFaults
          /\ pass' = [pass EXCEPT !.pc = "log"]
       \/ /\ clones' = clones \ {pass.c} /\ GitFault
          /\ pass' = [pass EXCEPT !.pc = "done"]
    /\ UNCHANGED <<meta, contributors, commits, releases>>

\* extract_commit_data, the removal of the clone and update_git_probe_data.
ReadCommits ==
    /\ pass.pc = "log"
    /\ clones' = clones \ {pass.c}
    /\ pass' = [pass EXCEPT !.pc = "done"]
    /\ \/ commits' = commits \cup {pass.c} /\ UNCHANGED gitFaults
       \/ GitFault /\ UNCHANGED commits
    /\ UNCHANGED <<meta, contributors, releases>>

CrateDone ==
    /\ pass.pc = "done"
    /\ pass' = NextCandidate(pass.todo)
    /\ UNCHANGED <<meta, contributors, commits, releases, clones, gitFaults>>

\* run_github_metadata_sync sleeps for the interval that is also the age limit:
\* whatever the last pass fetched is old when the next one starts.
Wake ==
    /\ pass.pc = "asleep"
    /\ pass' = IdlePass
    /\ meta' = [c \in GitCrates |-> IF meta[c] = "fresh" THEN "old" ELSE meta[c]]
    /\ UNCHANGED <<contributors, commits, releases, clones, gitFaults>>

\* The server is restarted, which begins a new pass at once.
Restarted ==
    /\ pass.pc # "idle" /\ GitFault
    /\ pass' = IdlePass
    /\ UNCHANGED <<meta, contributors, commits, releases, clones>>

PassStep ==
    \/ StartPass \/ FetchMetadata \/ FetchContributors \/ UpsertMetadata \/ FetchReleases
    \/ DeleteReleases \/ InsertRelease \/ CloneRepo \/ ReadCommits \/ CrateDone
    \/ Wake

GitNext == PassStep \/ Restarted

GitSpec == GitInit /\ [][GitNext]_gitVars

-----------------------------------------------------------------------------
(* Properties.                                                              *)

\* GithubTypeOK: commit data and contributors only on existing rows, releases
\* are never drafts, and only the crate at work, or one whose pass was
\* interrupted, has a clone on disk (sync_github_metadata, probe_repo).
GithubTypeOK ==
    /\ contributors \cup commits \subseteq {c \in GitCrates : meta[c] # "none"}
    /\ \A c \in GitCrates : releases[c] \subseteq Tags \ Drafts
    /\ meta \in [GitCrates -> {"none", "fresh", "old"}]
    /\ pass.pc \notin {"idle", "asleep"} => pass.c \in GitCrates /\ Parses(pass.c)
    /\ gitFaults = 0 => clones \subseteq {pass.c}

\* The crate has its metadata, contributors, commits and all releases, and no
\* clone is left behind.
Complete(c) ==
    /\ meta[c] # "none" /\ c \in contributors /\ releases[c] = Tags \ Drafts
    /\ c \notin clones /\ (CloneDepth > 0 => c \in commits)
=============================================================================
