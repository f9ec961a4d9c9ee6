------------------------ MODULE CrateMetadataProofs ------------------------
(***************************************************************************)
(* Proofs about the two periodic syncs of crate metadata and about the     *)
(* limiter their calls go through: what the syncs leave in their tables is *)
(* of a piece, whatever fails and whenever it stops, and a report says of  *)
(* each version what the advisories stored last say of it; and the first   *)
(* tier of the limiter spaces requests and so bounds their rate, for every *)
(* number of callers, every interval and every schedule.                   *)
(***************************************************************************)
EXTENDS AdvisorySync, GithubSync, RateLimiter, SequenceTheorems, FiniteSetTheorems, WellFoundedInduction, TLAPS

-----------------------------------------------------------------------------
(* GithubSync: the crates of a pass. *)

\* Of a set of crate ids one is the first (ORDER BY id).
LEMMA FirstId ==
    ASSUME NEW T \in SUBSET Nat, T # {}
    PROVE  Min(T) \in T
<1> DEFINE R == {ss \in Nat \X Nat : ss[1] < ss[2]}
<1>1. IsWellFoundedOn(R, Nat)
  BY NatLessThanWellFounded DEF OpToRel
<1>2. PICK x \in T : \A y \in T : <<y, x>> \notin R
  <2> HIDE DEF R
  <2> QED
    BY <1>1, WFMin
<1>3. \A y \in T : x <= y
  <2> SUFFICES ASSUME NEW y \in T PROVE x <= y
    OBVIOUS
  <2>1. ~ (y < x) /\ x \in Nat /\ y \in Nat
    BY <1>2
  <2> QED
    BY <2>1
<1> QED
  BY <1>3 DEF Min

PassFields == {"pc", "todo", "c", "known", "tags"}

\* The next crate is one of those left whose URL names a repository, and the
\* crates left after it are among them.
LEMMA NextIsLeft ==
    ASSUME NEW todo \in SUBSET GitCrates
    PROVE  LET next == NextCandidate(todo)
           IN  /\ DOMAIN next = PassFields
               /\ next.todo \subseteq GitCrates /\ next.tags = {}
               /\ next.pc \in {"metadata", "asleep"}
               /\ next.pc = "metadata" => next.c \in GitCrates /\ Parses(next.c)
<1> DEFINE usable == {c \in todo : Parses(c)}
<1>1. CASE usable = {}
  BY <1>1 DEF NextCandidate, IdlePass, PassFields
<1>2. CASE usable # {}
  <2>1. Min(usable) \in usable
    <3>1. usable \in SUBSET Nat
      BY GithubAssumption DEF GithubAssumption
    <3> HIDE DEF usable
    <3> QED
      BY <1>2, <3>1, FirstId
  <2>2. NextCandidate(todo) = [IdlePass EXCEPT !.pc = "metadata", !.c = Min(usable),
                                               !.todo = usable \ {Min(usable)}]
    BY <1>2 DEF NextCandidate
  <2>3. Min(usable) \in GitCrates /\ Parses(Min(usable)) /\ usable \subseteq GitCrates
    BY <2>1
  <2> HIDE DEF usable
  <2> QED
    BY <2>2, <2>3 DEF IdlePass, PassFields
<1> QED
  BY <1>1, <1>2

-----------------------------------------------------------------------------
(* GithubSync: the invariant. *)

\* The stages after the metadata were stored.
StoredPcs == {"releases", "delete", "insert", "clone", "log", "done"}
GitPcs == {"idle", "asleep", "metadata", "contributors", "upsert"} \cup StoredPcs

PassType ==
    /\ DOMAIN pass = PassFields
    /\ pass.pc \in GitPcs /\ pass.todo \subseteq GitCrates /\ pass.tags \subseteq Tags \ Drafts
    /\ pass.pc \notin {"idle", "asleep"} => pass.c \in GitCrates /\ Parses(pass.c)
    /\ pass.pc \in StoredPcs => meta[pass.c] # "none"

\* Without faults the only clone is the one being read.
CloneHeld ==
    /\ gitFaults \in Nat
    /\ gitFaults = 0 => clones \subseteq IF pass.pc = "log" THEN {pass.c} ELSE {}

TablesType ==
    /\ meta \in [GitCrates -> {"none", "fresh", "old"}]
    /\ releases \in [GitCrates -> SUBSET (Tags \ Drafts)]
    /\ contributors \cup commits \subseteq {c \in GitCrates : meta[c] # "none"}

GitInv == PassType /\ TablesType /\ CloneHeld

\* GitInv contains the type invariant of the GitHub sync.
LEMMA GitInvMeans == GitInv => GithubTypeOK
  BY DEF GitInv, PassType, TablesType, CloneHeld, GithubTypeOK

\* Going on to the next crate, or to sleep, leaves nothing of the last one.
LEMMA NextCrate ==
    ASSUME PassType, pass' = NextCandidate(pass.todo)
    PROVE  PassType' /\ pass'.pc \notin StoredPcs
<1>1. pass.todo \in SUBSET GitCrates
  BY DEF PassType
<1>2. /\ DOMAIN pass' = PassFields /\ pass'.todo \subseteq GitCrates /\ pass'.tags = {}
      /\ pass'.pc \in {"metadata", "asleep"}
      /\ pass'.pc = "metadata" => pass'.c \in GitCrates /\ Parses(pass'.c)
  BY <1>1, NextIsLeft
<1> QED
  BY <1>2 DEF PassType, GitPcs, StoredPcs, Parses

\* The stage of the crate at work changes, and no more than its list of tags.
LEMMA NextStage ==
    ASSUME PassType, pass.pc \notin {"idle", "asleep"}, NEW stage \in GitPcs \ {"idle", "asleep"},
           NEW tags \in SUBSET (Tags \ Drafts),
           \/ pass' = [pass EXCEPT !.pc = stage]
           \/ pass' = [pass EXCEPT !.pc = stage, !.known = TRUE]
           \/ pass' = [pass EXCEPT !.pc = stage, !.tags = tags],
           stage \in StoredPcs => meta'[pass.c] # "none"
    PROVE  PassType' /\ pass'.pc = stage /\ pass'.c = pass.c
<1>1. /\ DOMAIN pass = PassFields /\ pass.todo \subseteq GitCrates
      /\ pass.tags \subseteq Tags \ Drafts
      /\ pass.c \in GitCrates /\ Parses(pass.c)
  BY DEF PassType
<1>2. /\ DOMAIN pass' = PassFields /\ pass'.pc = stage /\ pass'.c = pass.c
      /\ pass'.todo = pass.todo /\ pass'.tags \subseteq Tags \ Drafts
  <2>1. CASE pass' = [pass EXCEPT !.pc = stage]
    BY <1>1, <2>1 DEF PassFields
  <2>2. CASE pass' = [pass EXCEPT !.pc = stage, !.known = TRUE]
    BY <1>1, <2>2 DEF PassFields
  <2>3. CASE pass' = [pass EXCEPT !.pc = stage, !.tags = tags]
    BY <1>1, <2>3 DEF PassFields
  <2> QED
    BY <2>1, <2>2, <2>3
<1> QED
  BY <1>1, <1>2 DEF PassType, Parses

\* A pass that is idle is well formed.
LEMMA IdlePassType ==
    ASSUME pass' = IdlePass
    PROVE  PassType' /\ pass'.pc = "idle"
  BY DEF IdlePass, PassType, PassFields, GitPcs, StoredPcs

\* A fault is counted.
LEMMA FaultCounts ==
    ASSUME GitInv, GitFault \/ gitFaults' = gitFaults
    PROVE  /\ gitFaults' \in Nat
           /\ GitFault => gitFaults' # 0
           /\ gitFaults' = 0 => gitFaults = 0
  BY DEF GitInv, CloneHeld, GitFault

\* Every step of a pass, and its end by a restart, keep the tables of a piece.
LEMMA GitStep == GitInv /\ [GitNext]_gitVars => GitInv'
<1> SUFFICES ASSUME GitInv, [GitNext]_gitVars PROVE GitInv'
  OBVIOUS
<1>1. /\ PassType /\ TablesType /\ CloneHeld
      /\ pass.pc \notin {"idle", "asleep"} => pass.c \in GitCrates
      /\ pass.tags \subseteq Tags \ Drafts
  BY DEF GitInv, PassType
\* Steps that leave the tables alone: only the pass and the faults matter.
<1>2. ASSUME UNCHANGED <<meta, contributors, commits, releases>> PROVE TablesType'
  BY <1>1, <1>2 DEF TablesType
<1>3. ASSUME UNCHANGED clones, GitFault \/ gitFaults' = gitFaults,
             pass.pc # "log" \/ (pass' = pass)
      PROVE  CloneHeld'
  <2>1. gitFaults' \in Nat /\ (gitFaults' = 0 => gitFaults = 0)
    BY <1>3, FaultCounts
  <2> QED
    BY <1>1, <1>3, <2>1 DEF CloneHeld
<1>4. CASE StartPass
  <2>1. pass.pc = "idle" /\ pass' = NextCandidate(Candidates)
    BY <1>4 DEF StartPass
  <2>2. Candidates \in SUBSET GitCrates
    BY DEF Candidates
  <2>3. /\ DOMAIN pass' = PassFields /\ pass'.todo \subseteq GitCrates /\ pass'.tags = {}
        /\ pass'.pc \in {"metadata", "asleep"}
        /\ pass'.pc = "metadata" => pass'.c \in GitCrates /\ Parses(pass'.c)
    BY <2>1, <2>2, NextIsLeft
  <2>4. PassType'
    BY <2>3 DEF PassType, GitPcs, StoredPcs, Parses
  <2> QED
    BY <1>2, <1>3, <1>4, <2>1, <2>4 DEF StartPass, GitInv
<1>5. CASE FetchMetadata
  <2>1. /\ pass.pc = "metadata" /\ (GitFault \/ gitFaults' = gitFaults)
        /\ pass' = [pass EXCEPT !.pc = "contributors"] \/ pass' = NextCandidate(pass.todo)
    BY <1>5 DEF FetchMetadata
  <2>2. PassType'
    <3>1. CASE pass' = [pass EXCEPT !.pc = "contributors"]
      BY <1>1, <2>1, <3>1, NextStage DEF GitPcs, StoredPcs
    <3>2. CASE pass' = NextCandidate(pass.todo)
      BY <1>1, <3>2, NextCrate
    <3> QED
      BY <2>1, <3>1, <3>2
  <2> QED
    BY <1>2, <1>3, <1>5, <2>1, <2>2 DEF FetchMetadata, GitInv
<1>6. CASE FetchContributors
  <2>1. /\ pass.pc = "contributors" /\ (GitFault \/ gitFaults' = gitFaults)
        /\ \/ pass' = [pass EXCEPT !.pc = "upsert", !.known = TRUE]
           \/ pass' = [pass EXCEPT !.pc = "upsert"]
    BY <1>6 DEF FetchContributors
  <2>2. PassType'
    <3>1. "upsert" \in GitPcs \ {"idle", "asleep"} /\ "upsert" \notin StoredPcs
      BY DEF GitPcs, StoredPcs
    <3>2. CASE pass' = [pass EXCEPT !.pc = "upsert", !.known = TRUE]
      BY <1>1, <2>1, <3>1, <3>2, NextStage
    <3>3. CASE pass' = [pass EXCEPT !.pc = "upsert"]
      BY <1>1, <2>1, <3>1, <3>3, NextStage
    <3> QED
      BY <2>1, <3>2, <3>3
  <2> QED
    BY <1>2, <1>3, <1>6, <2>1, <2>2 DEF FetchContributors, GitInv
<1>7. CASE UpsertMetadata
  <2>1. CASE pass' = NextCandidate(pass.todo) /\ GitFault /\ UNCHANGED <<meta, contributors>>
    <3>1. PassType'
      BY <1>1, <2>1, NextCrate
    <3> QED
      BY <1>2, <1>3, <1>7, <2>1, <3>1 DEF UpsertMetadata, GitInv
  <2>2. CASE /\ meta' = [meta EXCEPT ![pass.c] = "fresh"]
             /\ contributors' = IF pass.known THEN contributors \cup {pass.c}
                                ELSE contributors \ {pass.c}
             /\ pass' = [pass EXCEPT !.pc = "releases"]
             /\ UNCHANGED gitFaults
    <3>1. pass.pc = "upsert" /\ pass.c \in GitCrates /\ UNCHANGED <<commits, releases, clones>>
      BY <1>1, <1>7 DEF UpsertMetadata
    <3>2. /\ meta' \in [GitCrates -> {"none", "fresh", "old"}] /\ meta'[pass.c] = "fresh"
          /\ \A c \in GitCrates : meta[c] # "none" => meta'[c] # "none"
      BY <1>1, <2>2, <3>1 DEF TablesType
    <3>3. PassType'
      BY <1>1, <2>2, <3>1, <3>2, NextStage DEF GitPcs, StoredPcs
    <3>4. TablesType'
      <4>1. contributors' \subseteq contributors \cup {pass.c}
        BY <2>2
      <4> QED
        BY <1>1, <3>1, <3>2, <4>1 DEF TablesType
    <3> QED
      BY <1>3, <2>2, <3>1, <3>3, <3>4 DEF GitInv
  <2> QED
    BY <1>7, <2>1, <2>2 DEF UpsertMetadata
<1>8. ASSUME pass.pc \in {"releases", "delete", "insert"},
             pass' = AfterReleases,
             UNCHANGED meta
      PROVE  PassType'
  <2>1. PICK stage \in {"clone", "done"} : pass' = [pass EXCEPT !.pc = stage, !.tags = {}]
    BY <1>8 DEF AfterReleases
  <2>2. meta'[pass.c] # "none" /\ stage \in GitPcs \ {"idle", "asleep"} /\ {} \in SUBSET (Tags \ Drafts)
    BY <1>1, <1>8 DEF PassType, StoredPcs, GitPcs
  <2> QED
    BY <1>1, <1>8, <2>1, <2>2, NextStage
<1>9. CASE FetchReleases
  <2>1. /\ pass.pc = "releases" /\ (GitFault \/ gitFaults' = gitFaults)
        /\ UNCHANGED <<meta, contributors, commits, releases, clones>>
        /\ pass' = [pass EXCEPT !.pc = "delete", !.tags = Tags \ Drafts] \/ pass' = AfterReleases
    BY <1>9 DEF FetchReleases
  <2>2. PassType'
    <3>1. CASE pass' = [pass EXCEPT !.pc = "delete", !.tags = Tags \ Drafts]
      <4>1. meta'[pass.c] # "none" /\ "delete" \in GitPcs \ {"idle", "asleep"}
        BY <1>1, <2>1 DEF PassType, StoredPcs, GitPcs
      <4> QED
        BY <1>1, <2>1, <3>1, <4>1, NextStage
    <3>2. CASE pass' = AfterReleases
      BY <1>8, <2>1, <3>2
    <3> QED
      BY <2>1, <3>1, <3>2
  <2> QED
    BY <1>2, <1>3, <2>1, <2>2 DEF GitInv
<1>10. CASE DeleteReleases
  <2>1. /\ pass.pc = "delete" /\ (GitFault \/ gitFaults' = gitFaults)
        /\ UNCHANGED <<meta, contributors, commits, clones>>
        /\ \/ releases' = [releases EXCEPT ![pass.c] = {}] /\ pass' = [pass EXCEPT !.pc = "insert"]
           \/ pass' = AfterReleases /\ UNCHANGED releases
    BY <1>10 DEF DeleteReleases
  <2>2. PassType'
    <3>1. CASE pass' = [pass EXCEPT !.pc = "insert"]
      <4>1. meta'[pass.c] # "none" /\ "insert" \in GitPcs \ {"idle", "asleep"}
        BY <1>1, <2>1 DEF PassType, StoredPcs, GitPcs
      <4> QED
        BY <1>1, <2>1, <3>1, <4>1, NextStage
    <3>2. CASE pass' = AfterReleases
      BY <1>8, <2>1, <3>2
    <3> QED
      BY <2>1, <3>1, <3>2
  <2>3. TablesType'
    BY <1>1, <2>1 DEF TablesType
  <2> QED
    BY <1>3, <2>1, <2>2, <2>3 DEF GitInv
<1>11. CASE InsertRelease
  <2>1. /\ pass.pc = "insert" /\ (GitFault \/ gitFaults' = gitFaults)
        /\ UNCHANGED <<meta, contributors, commits, clones>>
    BY <1>11 DEF InsertRelease
  <2>2. CASE pass' = AfterReleases /\ UNCHANGED releases
    BY <1>2, <1>3, <1>8, <2>1, <2>2 DEF GitInv
  <2>3. ASSUME pass.tags # {},
               LET t == CHOOSE t \in pass.tags : TRUE
               IN  /\ releases' = [releases EXCEPT ![pass.c] = @ \cup {t}]
                   /\ pass' = [pass EXCEPT !.tags = @ \ {t}]
        PROVE  GitInv'
    <3>1. PICK t \in pass.tags : /\ releases' = [releases EXCEPT ![pass.c] = @ \cup {t}]
                                 /\ pass' = [pass EXCEPT !.tags = @ \ {t}]
      BY <2>3
    <3>2. t \in Tags \ Drafts
      BY <1>1
    <3>3. releases' \in [GitCrates -> SUBSET (Tags \ Drafts)]
      BY <1>1, <3>1, <3>2 DEF TablesType
    <3>4. /\ DOMAIN pass' = PassFields /\ pass'.pc = "insert" /\ pass'.c = pass.c
          /\ pass'.todo = pass.todo /\ pass'.tags = pass.tags \ {t}
      BY <1>1, <2>1, <3>1 DEF PassType, PassFields
    <3>5. PassType'
      BY <1>1, <2>1, <3>4 DEF PassType, Parses, StoredPcs
    <3>6. TablesType'
      BY <1>1, <2>1, <3>3 DEF TablesType
    <3>7. CloneHeld'
      BY <1>3, <2>1
    <3> QED
      BY <3>5, <3>6, <3>7 DEF GitInv
  <2> QED
    BY <1>11, <2>2, <2>3 DEF InsertRelease
<1>12. CASE CloneRepo
  <2>1. pass.pc = "clone" /\ UNCHANGED <<meta, contributors, commits, releases>> /\ meta[pass.c] # "none"
    BY <1>1, <1>12 DEF CloneRepo, PassType, StoredPcs
  <2>2. CASE clones' = clones \cup {pass.c} /\ UNCHANGED gitFaults /\ pass' = [pass EXCEPT !.pc = "log"]
    <3>1. PassType' /\ pass'.pc = "log" /\ pass'.c = pass.c
      BY <1>1, <2>1, <2>2, NextStage DEF GitPcs, StoredPcs
    <3>2. CloneHeld'
      BY <1>1, <2>1, <2>2, <3>1 DEF CloneHeld
    <3> QED
      BY <1>2, <2>1, <3>1, <3>2 DEF GitInv
  <2>3. CASE GitFault /\ pass' = [pass EXCEPT !.pc = "done"]
    <3>1. PassType'
      BY <1>1, <2>1, <2>3, NextStage DEF GitPcs, StoredPcs
    <3>2. CloneHeld'
      BY <2>3, FaultCounts DEF CloneHeld
    <3> QED
      BY <1>2, <2>1, <3>1, <3>2 DEF GitInv
  <2> QED
    BY <1>12, <2>2, <2>3 DEF CloneRepo
<1>13. CASE ReadCommits
  <2>1. /\ pass.pc = "log" /\ clones' = clones \ {pass.c} /\ pass' = [pass EXCEPT !.pc = "done"]
        /\ commits' = commits \cup {pass.c} \/ commits' = commits
        /\ GitFault \/ gitFaults' = gitFaults
        /\ UNCHANGED <<meta, contributors, releases>>
    BY <1>13 DEF ReadCommits
  <2>2. meta[pass.c] # "none" /\ pass.c \in GitCrates
    BY <1>1, <2>1 DEF PassType, StoredPcs
  <2>3. PassType' /\ pass'.pc = "done"
    BY <1>1, <2>1, <2>2, NextStage DEF GitPcs, StoredPcs
  <2>4. TablesType'
    BY <1>1, <2>1, <2>2 DEF TablesType
  <2>5. CloneHeld'
    <3>1. gitFaults' \in Nat /\ (gitFaults' = 0 => gitFaults = 0)
      BY <2>1, FaultCounts
    <3> QED
      BY <1>1, <2>1, <2>3, <3>1 DEF CloneHeld
  <2> QED
    BY <2>3, <2>4, <2>5 DEF GitInv
<1>14. CASE CrateDone
  <2>1. PassType'
    BY <1>1, <1>14, NextCrate DEF CrateDone
  <2> QED
    BY <1>2, <1>3, <1>14, <2>1 DEF CrateDone, GitInv
<1>15. CASE Wake
  <2>1. PassType' /\ pass.pc = "asleep"
    BY <1>15, IdlePassType DEF Wake
  <2>2. /\ meta' \in [GitCrates -> {"none", "fresh", "old"}]
        /\ \A c \in GitCrates : meta[c] # "none" => meta'[c] # "none"
    BY <1>1, <1>15 DEF Wake, TablesType
  <2>3. TablesType'
    BY <1>1, <1>15, <2>2 DEF Wake, TablesType
  <2> QED
    BY <1>3, <1>15, <2>1, <2>3 DEF Wake, GitInv
<1>16. CASE Restarted
  <2>1. PassType' /\ UNCHANGED <<meta, contributors, commits, releases>>
    BY <1>16, IdlePassType DEF Restarted
  <2>2. CloneHeld'
    BY <1>16, FaultCounts DEF Restarted, CloneHeld
  <2> QED
    BY <1>2, <2>1, <2>2 DEF GitInv
<1>17. CASE UNCHANGED gitVars
  BY <1>1, <1>17 DEF gitVars, GitInv, PassType, TablesType, CloneHeld, Parses
<1> QED
  BY <1>4, <1>5, <1>6, <1>7, <1>9, <1>10, <1>11, <1>12, <1>13, <1>14, <1>15, <1>16, <1>17
  DEF GitNext, PassStep

\* Commit data and contributor counts belong to crates with metadata, drafts are
\* never stored as releases, a pass works at a crate whose URL names a
\* repository, and without failures no clone outlives its look at the commits
\* (sync_github_metadata, upsert_github_releases, probe_repo).
THEOREM GithubTables == GitSpec => []GithubTypeOK
<1>1. GitInit => GitInv
  BY DEF GitInit, GitInv, PassType, TablesType, CloneHeld, IdlePass, PassFields, GitPcs, StoredPcs
<1>2. GitInv /\ [GitNext]_gitVars => GitInv'
  BY GitStep
<1>3. GitInv => GithubTypeOK
  BY GitInvMeans
<1> QED
  BY <1>1, <1>2, <1>3, PTL DEF GitSpec

-----------------------------------------------------------------------------
(* AdvisorySync: the rows a response turns into. *)

\* A row comes from one of the sources its response replaces, and names an
\* indexed version or none.
LEMMA RowShape ==
    ASSUME NEW s, NEW r, NEW ids, NEW row \in RowsOf(s, r, ids)
    PROVE  row.source \in ClearedSources(s) /\ row.vid \in ids \cup {NoVersion}
<1>1. PICK v \in ids \cup {NoVersion} :
          row = [id |-> IF s = "osv" THEN Identity(r)[1] ELSE r.id,
                 source |-> IF s = "osv" THEN Identity(r)[2] ELSE s,
                 vid |-> v, range |-> r.range, resync |-> FALSE]
  BY DEF RowsOf, MatchedVersions
<1>2. Identity(r)[2] \in {"osv", "rustsec_osv"}
  BY DEF Identity
<1> QED
  BY <1>1, <1>2 DEF ClearedSources

\* Of one record no two rows have the same key.
LEMMA RecordOnce ==
    ASSUME NEW s, NEW r, NEW ids, NEW a \in RowsOf(s, r, ids), NEW b \in RowsOf(s, r, ids),
           SameKey(a, b)
    PROVE  a = b
<1> DEFINE Row(v) == [id |-> IF s = "osv" THEN Identity(r)[1] ELSE r.id,
                      source |-> IF s = "osv" THEN Identity(r)[2] ELSE s,
                      vid |-> v, range |-> r.range, resync |-> FALSE]
<1>1. (\E v : a = Row(v)) /\ (\E v : b = Row(v))
  BY DEF RowsOf
<1>2. PICK v : a = Row(v)
  BY <1>1
<1>3. PICK w : b = Row(w)
  BY <1>1
<1>4. a.vid = v /\ b.vid = w
  BY <1>2, <1>3
<1>5. v = w
  BY <1>4 DEF SameKey
<1> QED
  BY <1>2, <1>3, <1>5

\* The rows of a whole response, the last record with a key having the say.
LEMMA ResponseShape ==
    ASSUME NEW s \in Sources, NEW k \in DOMAIN History[s], NEW ids \in SUBSET Versions
    PROVE  /\ \A a, b \in ResponseRows[s][k][ids] : SameKey(a, b) => a = b
           /\ \A row \in ResponseRows[s][k][ids] :
                 row.source \in ClearedSources(s) /\ row.vid \in ids \cup {NoVersion}
<1> DEFINE R == History[s][k]
<1>1. ResponseRows[s][k][ids] = UNION {RecordRows(s, R, i, ids) : i \in DOMAIN R}
  BY DEF ResponseRows
<1>2. DOMAIN R \subseteq Int
  BY AdvisoryAssumption DEF AdvisoryAssumption
<1> HIDE DEF R
<1>3. ASSUME NEW a \in ResponseRows[s][k][ids], NEW b \in ResponseRows[s][k][ids], SameKey(a, b)
      PROVE  a = b
  <2>1. PICK i \in DOMAIN R : a \in RecordRows(s, R, i, ids)
    BY <1>1
  <2>2. PICK j \in DOMAIN R : b \in RecordRows(s, R, j, ids)
    BY <1>1
  <2>3. a \in RowsOf(s, R[i], ids) /\ b \in RowsOf(s, R[j], ids)
    BY <2>1, <2>2 DEF RecordRows
  <2>4. SameKey(b, a)
    BY <1>3 DEF SameKey
  <2>5. ~ (j > i) /\ ~ (i > j)
    BY <1>3, <2>1, <2>2, <2>3, <2>4 DEF RecordRows, Updates
  <2>6. i = j
    BY <1>2, <2>5
  <2> QED
    BY <1>3, <2>3, <2>6, RecordOnce
<1>4. ASSUME NEW row \in ResponseRows[s][k][ids]
      PROVE  row.source \in ClearedSources(s) /\ row.vid \in ids \cup {NoVersion}
  <2>1. PICK i \in DOMAIN R : row \in RecordRows(s, R, i, ids)
    BY <1>1
  <2>2. row \in RowsOf(s, R[i], ids)
    BY <2>1 DEF RecordRows
  <2> QED
    BY <2>2, RowShape
<1> QED
  BY <1>3, <1>4

\* What the rows of a crate are: one per key, each of an indexed version or of none.
RowsOk(rows, ids) ==
    /\ \A a, b \in rows : SameKey(a, b) => a = b
    /\ \A row \in rows : row.vid \in ids \cup {NoVersion}

\* The transaction of one crate and source keeps them so, although its DELETE
\* missed rows and its answer is of fewer versions.
LEMMA ReplacedOk ==
    ASSUME NEW rows, NEW missed, NEW s \in Sources, NEW k \in DOMAIN History[s],
           NEW ids \in SUBSET Versions, NEW at \in SUBSET ids, RowsOk(rows, ids)
    PROVE  RowsOk(Replaced(rows, missed, s, k, at), ids)
<1> DEFINE new == ResponseRows[s][k][at]
           kept == {row \in rows : row.source \notin ClearedSources(s)}
           left == {row \in rows \cap missed : ~ Updates(row, new)}
<1>1. Replaced(rows, missed, s, k, at) = (kept \cup left) \cup new
  BY DEF Replaced
<1>2. /\ \A a, b \in new : SameKey(a, b) => a = b
      /\ \A row \in new : row.source \in ClearedSources(s) /\ row.vid \in at \cup {NoVersion}
  <2>1. at \in SUBSET Versions
    OBVIOUS
  <2> QED
    BY <2>1, ResponseShape
<1>3. kept \cup left \subseteq rows
  OBVIOUS
<1>4. \A a \in kept, b \in new : ~ SameKey(a, b)
  BY <1>2 DEF SameKey
<1>5. \A a \in left, b \in new : ~ SameKey(a, b)
  BY DEF Updates
<1> HIDE DEF kept, left, new
<1>6. \A a \in kept \cup left, b \in new : ~ SameKey(a, b) /\ ~ SameKey(b, a)
  BY <1>4, <1>5 DEF SameKey
<1>7. \A row \in new : row.vid \in ids \cup {NoVersion}
  BY <1>2
<1> QED
  BY <1>1, <1>2, <1>3, <1>6, <1>7 DEF RowsOk

-----------------------------------------------------------------------------
(* AdvisorySync: the invariant. *)

SyncFields == {"pc", "crates", "step", "left", "cur", "got", "ids", "missed", "ok"}

\* A syncer that is not in its transaction.
AtRest(y) ==
    /\ DOMAIN y = SyncFields
    /\ y.crates \subseteq SecCrates /\ y.left \subseteq y.crates /\ y.ok \subseteq y.crates
    /\ y.step \in DOMAIN SourceOrder

\* What a syncer knows, when the versions ix are indexed.
SyncOk(y, ix) ==
    /\ AtRest(y)
    /\ \/ y.pc \in {"idle", "fetch", "stamp"} /\ y.cur = NoCrate
       \/ /\ y.pc \in {"clear", "commit"} /\ y.cur \in SecCrates
          /\ y.got \in DOMAIN History[SourceOrder[y.step]]
          /\ y.ids \subseteq ix[y.cur]

SaidOk == \A c \in SecCrates, s \in Sources : said[c][s] \in DOMAIN History[s]
SaidShape == DOMAIN said = SecCrates /\ \A c \in SecCrates : DOMAIN said[c] = Sources

MatchesOk ==
    /\ DOMAIN matches = SecCrates
    /\ indexed \in [SecCrates -> SUBSET Versions]
    /\ \A c \in SecCrates : RowsOk(matches[c], indexed[c])

ChecksOk == \A c \in SecCrates : checked[c] \in {"never", "recent", "stale"}

SecInv ==
    /\ SaidShape /\ SaidOk
    /\ MatchesOk
    /\ DOMAIN checked = SecCrates /\ ChecksOk
    /\ DOMAIN syncer = Syncers /\ \A p \in Syncers : SyncOk(syncer[p], indexed)

\* SecInv contains that of the security sync.
LEMMA SecInvMeans == SecInv => SecTypeOK
<1> SUFFICES ASSUME SecInv PROVE SecTypeOK
  OBVIOUS
<1>1. \A p \in Syncers : (syncer[p].pc \in {"clear", "commit"}) <=> (syncer[p].cur # NoCrate)
  BY AdvisoryAssumption DEF AdvisoryAssumption, SecInv, SyncOk
<1> QED
  BY <1>1 DEF SecInv, MatchesOk, RowsOk, ChecksOk, SyncOk, AtRest, SecTypeOK

\* The sources are tried in an order without gaps.
LEMMA StepsOfSync ==
    /\ \A i \in DOMAIN SourceOrder : i \in Nat /\ SourceOrder[i] \in Sources
    /\ 1 \in DOMAIN SourceOrder
    /\ \A i \in DOMAIN SourceOrder : i < Len(SourceOrder) => i + 1 \in DOMAIN SourceOrder
<1>1. CASE HasRustsecDb
  BY <1>1 DEF SourceOrder, Sources, Range
<1>2. CASE ~ HasRustsecDb
  BY <1>2 DEF SourceOrder, Sources, Range
<1> QED
  BY <1>1, <1>2

\* Going on to the next crate or source.
LEMMA ContinueOk ==
    ASSUME NEW y, NEW ix, AtRest(y)
    PROVE  SyncOk(Continue(y), ix)
<1> DEFINE z == [y EXCEPT !.cur = NoCrate, !.got = 0, !.ids = {}, !.missed = {}]
<1>1. /\ DOMAIN z = SyncFields /\ z.cur = NoCrate /\ z.step = y.step
      /\ z.crates = y.crates /\ z.left = y.left /\ z.ok = y.ok
  BY DEF AtRest, SyncFields
<1>2. Continue(y) = IF y.left # {} THEN [z EXCEPT !.pc = "fetch"]
                    ELSE IF y.step < Len(SourceOrder)
                    THEN [z EXCEPT !.pc = "fetch", !.step = @ + 1, !.left = y.crates]
                    ELSE [z EXCEPT !.pc = "stamp"]
  BY DEF Continue
<1> HIDE DEF z
<1>3. CASE y.left # {}
  <2>1. Continue(y) = [z EXCEPT !.pc = "fetch"]
    BY <1>2, <1>3
  <2> QED
    BY <1>1, <2>1 DEF AtRest, SyncOk, SyncFields
<1>4. CASE y.left = {} /\ y.step < Len(SourceOrder)
  <2>1. Continue(y) = [z EXCEPT !.pc = "fetch", !.step = y.step + 1, !.left = y.crates]
    BY <1>1, <1>2, <1>4 DEF SyncFields
  <2>2. y.step + 1 \in DOMAIN SourceOrder
    BY <1>4, StepsOfSync DEF AtRest
  <2> QED
    BY <1>1, <2>1, <2>2 DEF AtRest, SyncOk, SyncFields
<1>5. CASE y.left = {} /\ ~ (y.step < Len(SourceOrder))
  <2>1. Continue(y) = [z EXCEPT !.pc = "stamp"]
    BY <1>2, <1>5
  <2> QED
    BY <1>1, <2>1 DEF AtRest, SyncOk, SyncFields
<1> QED
  BY <1>3, <1>4, <1>5

\* A syncer that misses rows of another is otherwise as it was.
LEMMA MissingOk ==
    ASSUME NEW p, NEW y, NEW ix, SyncOk(y, ix)
    PROVE  SyncOk(Missing(p, y), ix)
<1> DEFINE more == y.missed \cup ResponseRows[CurSource(p)][syncer[p].got][syncer[p].ids]
           z == [y EXCEPT !.missed = more]
<1>1. Missing(p, y) = y \/ Missing(p, y) = z
  BY DEF Missing
<1> HIDE DEF more
<1>2. SyncOk(z, ix)
  BY DEF SyncOk, AtRest, SyncFields
<1> QED
  BY <1>1, <1>2

\* One syncer moves, the others and the versions stay.
LEMMA OneSyncer ==
    ASSUME SecInv, NEW p \in Syncers, NEW y, SyncOk(y, indexed), syncer' = [syncer EXCEPT ![p] = y]
    PROVE  DOMAIN syncer' = Syncers /\ \A q \in Syncers : SyncOk(syncer'[q], indexed)
  BY DEF SecInv

\* Every step keeps the rows of the crates and the syncers in order.
LEMMA SecStep == SecInv /\ [SecNext]_secVars => SecInv'
<1> SUFFICES ASSUME SecInv, [SecNext]_secVars PROVE SecInv'
  OBVIOUS
<1>1. /\ SaidShape /\ SaidOk /\ MatchesOk /\ ChecksOk
      /\ DOMAIN checked = SecCrates /\ DOMAIN syncer = Syncers
      /\ \A p \in Syncers : SyncOk(syncer[p], indexed)
  BY DEF SecInv
<1>2. ASSUME DOMAIN syncer' = Syncers, \A q \in Syncers : SyncOk(syncer'[q], indexed),
             UNCHANGED <<said, indexed, checked>>, MatchesOk'
      PROVE  SecInv'
  <2>1. SaidShape' /\ SaidOk' /\ ChecksOk' /\ DOMAIN checked' = SecCrates
    BY <1>1, <1>2 DEF SaidShape, SaidOk, ChecksOk
  <2>2. (\A p \in Syncers : SyncOk(syncer[p], indexed))'
    BY <1>2 DEF SyncOk, AtRest
  <2> QED
    BY <1>2, <2>1, <2>2 DEF SecInv
<1>3. ASSUME UNCHANGED <<matches, indexed>> PROVE MatchesOk'
  BY <1>1, <1>3 DEF MatchesOk, RowsOk
<1>4. ASSUME UNCHANGED syncer, \A c \in SecCrates : indexed[c] \subseteq indexed'[c]
      PROVE  (\A p \in Syncers : SyncOk(syncer[p], indexed))' /\ DOMAIN syncer' = Syncers
  BY <1>1, <1>4 DEF SyncOk, AtRest
<1>5. ASSUME NEW c \in SecCrates, NEW s \in Sources, Publish(c, s) PROVE SecInv'
  <2>1. /\ said' = [said EXCEPT ![c][s] = @ + 1] /\ said[c][s] < Len(History[s])
        /\ UNCHANGED <<matches, indexed, checked, syncer>>
    BY <1>5 DEF Publish
  <2>2. /\ DOMAIN said' = SecCrates /\ DOMAIN said'[c] = Sources /\ said'[c][s] = said[c][s] + 1
        /\ \A t \in Sources : t # s => said'[c][t] = said[c][t]
        /\ \A d \in SecCrates : d # c => said'[d] = said[d]
    BY <1>1, <2>1 DEF SaidShape
  <2>3. said[c][s] + 1 \in DOMAIN History[s]
    <3>1. said[c][s] \in 1..Len(History[s]) /\ Len(History[s]) \in Nat
          /\ DOMAIN History[s] = 1..Len(History[s])
      BY <1>1, AdvisoryAssumption DEF SaidOk, AdvisoryAssumption
    <3> HIDE DEF Sources
    <3> QED
      BY <2>1, <3>1
  <2>4. SaidShape'
    BY <1>1, <2>2 DEF SaidShape
  <2>5. SaidOk'
    <3> SUFFICES ASSUME NEW d \in SecCrates, NEW t \in Sources PROVE said'[d][t] \in DOMAIN History[t]
      BY DEF SaidOk
    <3>1. CASE d = c /\ t = s
      BY <2>2, <2>3, <3>1
    <3>2. CASE ~ (d = c /\ t = s)
      BY <1>1, <2>2, <3>2 DEF SaidOk
    <3> QED
      BY <3>1, <3>2
  <2> QED
    BY <1>1, <1>3, <1>4, <2>1, <2>4, <2>5 DEF SecInv, ChecksOk
<1>6. ASSUME NEW c \in SecCrates, NEW v \in Versions, IndexVersion(c, v) PROVE SecInv'
  <2>1. /\ indexed' = [indexed EXCEPT ![c] = @ \cup {v}]
        /\ UNCHANGED <<said, matches, checked, syncer>>
    BY <1>6 DEF IndexVersion
  <2>2. indexed' \in [SecCrates -> SUBSET Versions]
    BY <1>1, <2>1 DEF MatchesOk
  <2>3. \A d \in SecCrates : indexed[d] \subseteq indexed'[d]
    BY <1>1, <2>1 DEF MatchesOk
  <2>4. MatchesOk'
    BY <1>1, <2>1, <2>2, <2>3 DEF MatchesOk, RowsOk
  <2> QED
    BY <1>1, <1>4, <2>1, <2>3, <2>4 DEF SecInv, SaidShape, SaidOk, ChecksOk
<1>7. ASSUME NEW c \in SecCrates, GoStale(c) PROVE SecInv'
  <2>1. /\ checked' = [checked EXCEPT ![c] = "stale"]
        /\ UNCHANGED <<said, matches, indexed, syncer>>
    BY <1>7 DEF GoStale
  <2>2. ChecksOk' /\ DOMAIN checked' = SecCrates
    BY <1>1, <2>1 DEF ChecksOk
  <2> QED
    BY <1>1, <1>3, <1>4, <2>1, <2>2 DEF SecInv, SaidShape, SaidOk
<1>8. ASSUME NEW p \in Syncers, StartSync(p) PROVE SecInv'
  <2>1. PICK C \in SUBSET SecCrates :
            syncer' = [syncer EXCEPT ![p] = [IdleSync EXCEPT !.pc = "fetch", !.crates = C,
                                                             !.left = C, !.ok = C]]
    BY <1>8 DEF StartSync
  <2>2. SyncOk([IdleSync EXCEPT !.pc = "fetch", !.crates = C, !.left = C, !.ok = C],
                  indexed)
    BY StepsOfSync DEF IdleSync, SyncOk, AtRest, SyncFields
  <2> HIDE DEF IdleSync
  <2> QED
    BY <1>2, <1>3, <1>8, <2>1, <2>2, OneSyncer DEF StartSync
<1>9. ASSUME NEW p \in Syncers, NEW c \in SecCrates, Fetch(p, c) PROVE SecInv'
  <2> DEFINE y == [syncer[p] EXCEPT !.pc = "clear", !.cur = c, !.left = syncer[p].left \ {c},
                                    !.got = said[c][CurSource(p)], !.ids = indexed[c]]
  <2>1. /\ c \in syncer[p].left
        /\ syncer' = [syncer EXCEPT ![p] = y]
        /\ UNCHANGED <<said, matches, indexed, checked>>
    BY <1>1, <1>9 DEF Fetch
  <2>2. CurSource(p) = SourceOrder[syncer[p].step] /\ CurSource(p) \in Sources
    BY <1>1, StepsOfSync DEF CurSource, SyncOk, AtRest
  <2>3. said[c][CurSource(p)] \in DOMAIN History[CurSource(p)]
    BY <1>1, <2>2 DEF SaidOk
  <2>4. AtRest(syncer[p])
    BY <1>1 DEF SyncOk
  <2>5. /\ DOMAIN y = SyncFields /\ y.pc = "clear" /\ y.cur = c /\ y.step = syncer[p].step
        /\ y.crates = syncer[p].crates /\ y.ok = syncer[p].ok /\ y.left = syncer[p].left \ {c}
        /\ y.got = said[c][CurSource(p)] /\ y.ids = indexed[c]
    BY <2>4 DEF AtRest, SyncFields
  <2> HIDE DEF y
  <2>6. SyncOk(y, indexed)
    BY <2>2, <2>3, <2>4, <2>5 DEF SyncOk, AtRest
  <2> QED
    BY <1>2, <1>3, <2>1, <2>6, OneSyncer
<1>10. ASSUME NEW p \in Syncers, NEW c \in SecCrates, FetchFails(p, c) PROVE SecInv'
  <2> DEFINE y == [syncer[p] EXCEPT !.left = syncer[p].left \ {c}, !.ok = syncer[p].ok \ {c}]
  <2>1. /\ syncer' = [syncer EXCEPT ![p] = Continue(y)]
        /\ UNCHANGED <<said, matches, indexed, checked>>
    BY <1>1, <1>10 DEF FetchFails
  <2>2. AtRest(syncer[p])
    BY <1>1 DEF SyncOk
  <2>3. AtRest(y)
    BY <2>2 DEF AtRest, SyncFields
  <2> HIDE DEF y
  <2>4. SyncOk(Continue(y), indexed)
    BY <2>3, ContinueOk
  <2> QED
    BY <1>2, <1>3, <2>1, <2>4, OneSyncer
<1>11. ASSUME NEW p \in Syncers, Clear(p) PROVE SecInv'
  <2> DEFINE y == [syncer[p] EXCEPT !.pc = "commit"]
  <2>1. /\ syncer[p].pc = "clear" /\ syncer' = [syncer EXCEPT ![p] = y]
        /\ UNCHANGED <<said, matches, indexed, checked>>
    BY <1>1, <1>11 DEF Clear
  <2>2. SyncOk(syncer[p], indexed)
    BY <1>1
  <2>3. SyncOk(y, indexed)
    BY <2>1, <2>2 DEF SyncOk, AtRest, SyncFields
  <2> HIDE DEF y
  <2> QED
    BY <1>2, <1>3, <2>1, <2>3, OneSyncer
<1>12. ASSUME NEW p \in Syncers, Commit(p) PROVE SecInv'
  <2> DEFINE y == syncer[p]
             c == y.cur
             s == CurSource(p)
             aborted == [y EXCEPT !.left = {}, !.ok = {}]
             ended(z) == syncer' = [q \in Syncers |-> IF q = p THEN z ELSE syncer[q]]
             done(z) == /\ matches' = [matches EXCEPT ![c] = Replaced(matches[c], y.missed, s, y.got, y.ids)]
                        /\ syncer' = [q \in Syncers |-> IF q = p THEN z ELSE Missing(p, syncer[q])]
  <2>1. /\ y.pc = "commit" /\ UNCHANGED <<said, indexed, checked>>
        /\ \/ done(Continue(y)) \/ done(Continue(aborted))
           \/ ended(Continue(aborted)) /\ UNCHANGED matches
    BY <1>1, <1>12 DEF Commit, MatchesOk
  <2>2. /\ AtRest(y) /\ c \in SecCrates /\ s = SourceOrder[y.step]
        /\ s \in Sources /\ y.got \in DOMAIN History[s] /\ y.ids \subseteq indexed[c]
    BY <1>1, <2>1, StepsOfSync DEF SyncOk, AtRest, CurSource
  <2>3. AtRest(aborted)
    BY <2>2 DEF AtRest, SyncFields
  <2>4. indexed[c] \in SUBSET Versions /\ RowsOk(matches[c], indexed[c])
    BY <1>1, <2>2 DEF MatchesOk
  <2>5. SyncOk(Continue(y), indexed) /\ SyncOk(Continue(aborted), indexed)
    BY <2>2, <2>3, ContinueOk
  <2>6. \A q \in Syncers : SyncOk(syncer[q], indexed) /\ SyncOk(Missing(p, syncer[q]), indexed)
    BY <1>1, MissingOk
  <2>7. DOMAIN syncer' = Syncers /\ \A q \in Syncers : SyncOk(syncer'[q], indexed)
    <3> HIDE DEF aborted
    <3>1. ASSUME NEW z, SyncOk(z, indexed), ended(z) \/ done(z)
          PROVE  DOMAIN syncer' = Syncers /\ \A q \in Syncers : SyncOk(syncer'[q], indexed)
      BY <2>6, <3>1
    <3> QED
      BY <2>1, <2>5, <3>1
  <2>8. RowsOk(Replaced(matches[c], y.missed, s, y.got, y.ids), indexed[c])
    <3> HIDE DEF c, s
    <3> QED
      BY <2>2, <2>4, ReplacedOk
  <2>9. /\ DOMAIN matches' = SecCrates
        /\ \A d \in SecCrates : RowsOk(matches'[d], indexed[d])
    <3> DEFINE new == Replaced(matches[c], y.missed, s, y.got, y.ids)
    <3>1. matches' = [matches EXCEPT ![c] = new] \/ matches' = matches
      BY <2>1
    <3> HIDE DEF new, c
    <3>2. RowsOk(new, indexed[c]) /\ c \in SecCrates
      BY <2>2, <2>8 DEF new, c
    <3> QED
      BY <1>1, <3>1, <3>2 DEF MatchesOk
  <2>10. MatchesOk'
    BY <1>1, <2>1, <2>9 DEF MatchesOk, RowsOk
  <2> QED
    BY <1>2, <2>1, <2>7, <2>10
<1>13. ASSUME NEW p \in Syncers, Stamp(p) PROVE SecInv'
  <2>1. /\ syncer' = [syncer EXCEPT ![p] = IdleSync]
        /\ UNCHANGED <<said, matches, indexed>>
        /\ \E C : checked' = [c \in SecCrates |-> IF p = "task" /\ c \in C THEN "recent" ELSE checked[c]]
    BY <1>13 DEF Stamp
  <2>2. SyncOk(IdleSync, indexed)
    BY StepsOfSync DEF IdleSync, SyncOk, AtRest, SyncFields
  <2>3. DOMAIN syncer' = Syncers /\ \A q \in Syncers : SyncOk(syncer'[q], indexed)
    BY <2>1, <2>2, OneSyncer
  <2>4. (\A q \in Syncers : SyncOk(syncer[q], indexed))'
    BY <2>1, <2>3 DEF SyncOk, AtRest
  <2>5. ChecksOk' /\ DOMAIN checked' = SecCrates
    BY <1>1, <2>1 DEF ChecksOk
  <2> QED
    BY <1>1, <1>3, <2>1, <2>3, <2>4, <2>5 DEF SecInv, SaidShape, SaidOk
<1>14. CASE UNCHANGED secVars
  BY <1>1, <1>3, <1>4, <1>14 DEF secVars, SecInv, SaidShape, SaidOk, ChecksOk
<1> QED
  BY <1>5, <1>6, <1>7, <1>8, <1>9, <1>10, <1>11, <1>12, <1>13, <1>14 DEF SecNext, CarryOn

\* A crate starts with its legacy row and its first version, and no sync runs.
LEMMA SecStarts == SecInit => SecInv
<1> SUFFICES ASSUME SecInit PROVE SecInv
  OBVIOUS
<1>1. SaidShape /\ SaidOk
  BY AdvisoryAssumption DEF AdvisoryAssumption, SecInit, SaidShape, SaidOk
<1>2. MatchesOk
  <2>1. 0 \in Versions
    BY VersionAssumption DEF VersionAssumption, Versions
  <2>2. LegacyRow.vid = NoVersion
    BY DEF LegacyRow
  <2>3. DOMAIN matches = SecCrates /\ \A c \in SecCrates : matches[c] = {LegacyRow}
    BY DEF SecInit
  <2>4. indexed \in [SecCrates -> SUBSET Versions]
    BY <2>1 DEF SecInit
  <2> QED
    BY <2>2, <2>3, <2>4 DEF MatchesOk, RowsOk
<1>3. SyncOk(IdleSync, indexed)
  BY StepsOfSync DEF IdleSync, SyncOk, AtRest, SyncFields
<1> HIDE DEF IdleSync
<1> QED
  BY <1>1, <1>2, <1>3 DEF SecInit, SecInv, ChecksOk

\* The advisory rows of a crate have a row per key and name indexed versions or
\* none, and a syncer works through its own snapshot, although two overlap, the
\* sources change, versions are indexed meanwhile and calls fail
\* (sync_security_crates, the upserts of db/indexing.rs).
THEOREM AdvisoryRows == SecSpec => []SecTypeOK
<1>1. SecInit => SecInv
  BY SecStarts
<1>2. SecInv /\ [SecNext]_secVars => SecInv'
  BY SecStep
<1>3. SecInv => SecTypeOK
  BY SecInvMeans
<1> QED
  BY <1>1, <1>2, <1>3, PTL DEF SecSpec

----------------------------------------------------------------------------
(* Tier 1: the burst gate. *)

\* The clocks of the burst gate are in range.
GateTypes ==
    /\ pc \in [Callers -> {"idle", "gate", "burst", "window", "asleep"}]
    /\ rest = [c \in Callers |-> rest[c]]
    /\ queue \in Seq(Callers)
    /\ remaining \in 0..Burst
    /\ sinceGate \in 0..Burst

\* next_allowed_at is one interval after the last pass, and the caller that
\* sleeps in the gate holds its lock and wakes no earlier than that.
GateHeld ==
    \A c \in Callers : pc[c] = "burst" =>
        queue # <<>> /\ Head(queue) = c /\ rest[c] \in Nat /\ rest[c] >= remaining
GateClock == remaining + sinceGate >= Burst

\* The inductive invariant of the burst gate.
GateInv == GateTypes /\ GateHeld /\ GateClock

\* A fresh limiter (OutboundRateLimiter::new) satisfies it.
LEMMA GateInit == Init => GateInv
  BY LimiterAssumption, EmptySeq DEF Init, GateInv, GateTypes, GateHeld, GateClock

\* Every step of every caller, and the passing of time, keeps it.
LEMMA GateStep == GateInv /\ [Next]_vars => GateInv'
<1> SUFFICES ASSUME GateInv, [Next]_vars PROVE GateInv'
  OBVIOUS
<1> USE LimiterAssumption DEF GateInv, GateTypes, GateHeld, GateClock
<1>1. ASSUME NEW c \in Callers, Acquire(c) PROVE GateInv'
  <2>1. queue' \in Seq(Callers) /\ (queue # <<>> => queue' # <<>> /\ Head(queue') = Head(queue))
    BY <1>1, AppendProperties, HeadTailProperties DEF Acquire
  <2> QED
    BY <1>1, <2>1 DEF Acquire
<1>2. ASSUME NEW c \in Callers, BurstLock(c) PROVE GateInv'
  <2>1. Sleep(remaining) \in Nat /\ Sleep(remaining) >= remaining
    BY DEF Sleep
  <2>2. GateTypes' /\ GateClock'
    BY <1>2 DEF BurstLock
  <2>3. GateHeld'
    BY <1>2, <2>1 DEF BurstLock
  <2> QED
    BY <2>2, <2>3
<1>3. ASSUME NEW c \in Callers, BurstPass(c) PROVE GateInv'
  BY <1>3, HeadTailProperties DEF BurstPass
<1>4. ASSUME NEW c \in Callers, WindowPass(c) \/ WindowSleep(c) \/ WindowWake(c)
      PROVE GateInv'
  BY <1>4 DEF WindowPass, WindowSleep, WindowWake
<1>5. CASE Tick
  BY <1>5 DEF Tick, Down, Up
<1>6. CASE UNCHANGED vars
  BY <1>6 DEF vars
<1> QED
  BY <1>1, <1>2, <1>3, <1>4, <1>5, <1>6 DEF Next, CallerStep

\* The invariant of the burst gate of acquire holds in every reachable state.
THEOREM GateInvariant == Spec => []GateInv
  BY GateInit, GateStep, PTL DEF Spec

\* Callers of acquire pass the burst gate at least burst_interval apart, because
\* the lock on next_allowed_at is kept across the sleep.
THEOREM BurstGateSpaces == Spec => GateSpacing
<1>1. GateInv => [\A c \in Callers : BurstPass(c) => sinceGate >= Burst]_vars
  BY LimiterAssumption DEF GateInv, GateTypes, GateHeld, GateClock, BurstPass
<1> QED
  BY GateInvariant, <1>1, PTL DEF GateSpacing

----------------------------------------------------------------------------
(* Numbers. *)

\* A set of naturals has a least element.
LEMMA LeastElement ==
    ASSUME NEW T \in SUBSET Nat, T # {}
    PROVE  \E x \in T : \A y \in T : x <= y
<1> DEFINE R == {ss \in Nat \X Nat : ss[1] < ss[2]}
<1>1. IsWellFoundedOn(R, Nat)
  BY NatLessThanWellFounded DEF OpToRel
<1>2. PICK x \in T : \A y \in T : <<y, x>> \notin R
  <2> HIDE DEF R
  <2> QED
    BY <1>1, WFMin
<1>3. \A y \in T : ~ (y < x)
  BY <1>2
<1>4. x \in Nat /\ \A y \in T : y \in Nat
  OBVIOUS
<1> QED
  BY <1>3, <1>4

\* Division rounds down.
LEMMA DivisionBound ==
    ASSUME NEW x \in Nat, NEW d \in Nat, d > 0, NEW k \in Int, k * d <= x
    PROVE  k <= x \div d
<1>1. x \div d \in Int /\ x < d * (x \div d) + d
  <2>1. x \div d \in Int /\ x = d * (x \div d) + (x % d) /\ x % d \in 0..d - 1
    OBVIOUS
  <2>2. d * (x \div d) \in Int
    BY <2>1
  <2> QED
    BY <2>1, <2>2
<1>2. SUFFICES ASSUME k >= (x \div d) + 1 PROVE FALSE
  BY <1>1
<1>3. \A q \in Int : k >= q + 1 => k * d >= (q + 1) * d
  OBVIOUS
<1>4. k * d >= ((x \div d) + 1) * d
  BY <1>1, <1>2, <1>3
<1> QED
  BY <1>1, <1>4
----------------------------------------------------------------------------
(* Tier 2: the window. *)

Ages == 0..Window + 1

\* The loop that pops expired timestamps stops, at the first one in the window;
\* what it leaves is the rest of the sequence.
LEMMA EvictedRest ==
    ASSUME NEW s \in Seq(Ages)
    PROVE  /\ Stale(s) \in 0..Len(s)
           /\ Evicted(s) \in Seq(Ages)
           /\ Len(Evicted(s)) = Len(s) - Stale(s)
           /\ \A i \in 1..Len(s) - Stale(s) : Evicted(s)[i] = s[i + Stale(s)]
<1> DEFINE Stops == {n \in 0..Len(s) : n < Len(s) => s[n + 1] <= Window}
<1>1. Len(s) \in Nat /\ \A i \in 1..Len(s) : s[i] \in Nat
  BY LimiterAssumption DEF Ages
<1>2. PICK n \in Stops : \A m \in Stops : n <= m
  <2>1. Len(s) \in Stops
    BY <1>1
  <2>2. Stops \in SUBSET Nat
    OBVIOUS
  <2> HIDE DEF Stops
  <2> QED
    BY <2>1, <2>2, LeastElement
<1>3. \A i \in 1..n : s[i] > Window
  <2> SUFFICES ASSUME NEW i \in 1..n, ~ (s[i] > Window) PROVE FALSE
    OBVIOUS
  <2>1. s[i] <= Window /\ i - 1 \in 0..Len(s) /\ (i - 1) + 1 = i
    <3>1. i \in 1..Len(s) /\ s[i] \in Nat /\ Window \in Nat
      BY <1>1, LimiterAssumption
    <3> QED
      BY <1>1, <3>1
  <2>2. i - 1 \in Stops
    <3>1. s[(i - 1) + 1] <= Window
      BY <2>1
    <3> QED
      BY <2>1, <3>1
  <2>3. n <= i - 1
    BY <1>2, <2>2
  <2>4. n \in Nat
    BY <1>1
  <2> HIDE DEF Stops
  <2> QED
    BY <2>3, <2>4
<1>4. Stale(s) \in 0..Len(s)
  BY <1>2, <1>3 DEF Stale
<1>5. Stale(s) + 1 \in 1..Len(s) + 1 /\ Stale(s) \in Nat
  BY <1>1, <1>4
<1> HIDE DEF Stops
<1> QED
  BY <1>1, <1>4, <1>5, SubSeqProperties DEF Evicted

\* window_timestamps is in order, oldest first.
InOrder(s) == \A i, j \in DOMAIN s : i < j => s[i] >= s[j]
StampsInOrder == stamps \in Seq(Ages) /\ InOrder(stamps)

\* Evicting from the front and recording a request keep the order.
LEMMA EvictedInOrder ==
    ASSUME StampsInOrder
    PROVE  /\ Evicted(stamps) \in Seq(Ages) /\ InOrder(Evicted(stamps))
           /\ Append(Evicted(stamps), 0) \in Seq(Ages) /\ InOrder(Append(Evicted(stamps), 0))
<1> DEFINE rst == Evicted(stamps)
           n == Stale(stamps)
<1>1. /\ n \in 0..Len(stamps) /\ rst \in Seq(Ages) /\ Len(rst) = Len(stamps) - n
      /\ \A i \in 1..Len(stamps) - n : rst[i] = stamps[i + n]
  BY EvictedRest DEF StampsInOrder
<1>2. Len(stamps) \in Nat /\ DOMAIN stamps = 1..Len(stamps) /\ DOMAIN rst = 1..Len(rst)
  BY <1>1, LenProperties DEF StampsInOrder
<1>3. 0 \in Ages
  BY LimiterAssumption DEF Ages
<1> HIDE DEF rst, n
<1>4. InOrder(rst)
  <2> SUFFICES ASSUME NEW i \in 1..Len(rst), NEW j \in 1..Len(rst), i < j
               PROVE  rst[i] >= rst[j]
    BY <1>2 DEF InOrder
  <2>1. rst[i] = stamps[i + n] /\ rst[j] = stamps[j + n]
    BY <1>1
  <2>2. i + n \in 1..Len(stamps) /\ j + n \in 1..Len(stamps) /\ i + n < j + n
    BY <1>1, <1>2
  <2> QED
    BY <1>2, <2>1, <2>2 DEF StampsInOrder, InOrder
<1>5. /\ Append(rst, 0) \in Seq(Ages) /\ DOMAIN Append(rst, 0) = 1..Len(rst) + 1
      /\ \A i \in 1..Len(rst) : Append(rst, 0)[i] = rst[i]
      /\ Append(rst, 0)[Len(rst) + 1] = 0
  BY <1>1, <1>3, AppendProperties, LenProperties
<1>6. InOrder(Append(rst, 0))
  <2> SUFFICES ASSUME NEW i \in 1..Len(rst) + 1, NEW j \in 1..Len(rst) + 1, i < j
               PROVE  Append(rst, 0)[i] >= Append(rst, 0)[j]
    BY <1>5 DEF InOrder
  <2>1. Len(rst) \in Nat
    BY <1>1, <1>2
  <2>2. i \in 1..Len(rst) /\ rst[i] \in Nat
    BY <1>1, <2>1, ElementOfSeq, LimiterAssumption DEF Ages
  <2>3. CASE j = Len(rst) + 1
    BY <1>5, <2>2, <2>3
  <2>4. CASE j \in 1..Len(rst)
    BY <1>2, <1>4, <1>5, <2>2, <2>4 DEF InOrder
  <2> QED
    BY <2>1, <2>3, <2>4
<1> QED
  BY <1>1, <1>4, <1>5, <1>6 DEF rst

\* So do the passing of time and every other step.
LEMMA StampsStep == StampsInOrder /\ [Next]_vars => StampsInOrder'
<1> SUFFICES ASSUME StampsInOrder, [Next]_vars PROVE StampsInOrder'
  OBVIOUS
<1>1. ASSUME NEW c \in Callers, WindowPass(c) \/ WindowSleep(c) \/ WindowWake(c)
      PROVE StampsInOrder'
  BY <1>1, EvictedInOrder DEF WindowPass, WindowSleep, WindowWake, StampsInOrder
<1>2. CASE Tick
  <2>1. stamps' = [i \in DOMAIN stamps |-> Up(stamps[i], Window + 1)]
    BY <1>2 DEF Tick
  <2>2. Len(stamps) \in Nat /\ DOMAIN stamps = 1..Len(stamps)
        /\ \A i \in 1..Len(stamps) : stamps[i] \in Ages
    BY LenProperties, ElementOfSeq DEF StampsInOrder
  <2>3. \A a \in Ages : Up(a, Window + 1) \in Ages
    BY LimiterAssumption DEF Up, Ages
  <2>4. \A a, b \in Ages : a >= b => Up(a, Window + 1) >= Up(b, Window + 1)
    BY LimiterAssumption DEF Up, Ages
  <2>5. stamps' \in [1..Len(stamps) -> Ages]
    BY <2>1, <2>2, <2>3
  <2>6. stamps' \in Seq(Ages)
    BY <2>2, <2>5, SeqDef
  <2>7. InOrder(stamps')
    BY <2>1, <2>2, <2>4 DEF StampsInOrder, InOrder
  <2> QED
    BY <2>6, <2>7 DEF StampsInOrder
<1>3. ASSUME NEW c \in Callers, Acquire(c) \/ BurstLock(c) \/ BurstPass(c)
      PROVE StampsInOrder'
  BY <1>3 DEF Acquire, BurstLock, BurstPass, StampsInOrder
<1>4. CASE UNCHANGED vars
  BY <1>4 DEF vars, StampsInOrder
<1> QED
  BY <1>1, <1>2, <1>3, <1>4 DEF Next, CallerStep
----------------------------------------------------------------------------
(* The queue of tier 1. *)

\* Who waits for the tier-1 lock or has it is in the queue, once; nobody else is.
QueueOnce ==
    /\ \A i, j \in DOMAIN queue : queue[i] = queue[j] => i = j
    /\ \A i \in DOMAIN queue : pc[queue[i]] \in {"gate", "burst"}
    /\ \A c \in Callers : pc[c] \in {"gate", "burst"} => \E i \in DOMAIN queue : queue[i] = c

\* Acquire joins the queue at its end, BurstPass leaves it at its head, and no
\* other step changes who is in it.
LEMMA QueueStep == GateInv /\ QueueOnce /\ [Next]_vars => QueueOnce'
<1> SUFFICES ASSUME GateInv, QueueOnce, [Next]_vars PROVE QueueOnce'
  OBVIOUS
<1>1. /\ pc \in [Callers -> {"idle", "gate", "burst", "window", "asleep"}]
      /\ Len(queue) \in Nat /\ DOMAIN queue = 1..Len(queue)
      /\ \A i \in 1..Len(queue) : queue[i] \in Callers
  BY LenProperties, ElementOfSeq DEF GateInv, GateTypes
<1>2. ASSUME NEW c \in Callers, Acquire(c) PROVE QueueOnce'
  <2>1. /\ pc' = [pc EXCEPT ![c] = "gate"] /\ pc[c] = "idle" /\ DOMAIN queue' = 1..Len(queue) + 1
        /\ \A i \in 1..Len(queue) : queue'[i] = queue[i]
        /\ queue'[Len(queue) + 1] = c
    BY <1>2, AppendProperties, LenProperties DEF Acquire, GateInv, GateTypes
  <2>2. \A i \in 1..Len(queue) : queue[i] # c
    BY <1>1, <2>1 DEF QueueOnce
  <2>3. \A i \in 1..Len(queue) + 1 : i \in 1..Len(queue) \/ i = Len(queue) + 1
    BY <1>1
  <2>4. \A i, j \in DOMAIN queue' : queue'[i] = queue'[j] => i = j
    BY <1>1, <2>1, <2>2, <2>3 DEF QueueOnce
  <2>5. \A i \in DOMAIN queue' : pc'[queue'[i]] \in {"gate", "burst"}
    BY <1>1, <2>1, <2>2, <2>3 DEF QueueOnce
  <2>6. ASSUME NEW b \in Callers, pc'[b] \in {"gate", "burst"}
        PROVE  \E i \in DOMAIN queue' : queue'[i] = b
    <3>1. CASE b = c
      <4>1. Len(queue) + 1 \in DOMAIN queue'
        BY <1>1, <2>1
      <4> QED
        BY <2>1, <3>1, <4>1
    <3>2. CASE b # c
      <4>1. PICK i \in 1..Len(queue) : queue[i] = b
        BY <1>1, <2>1, <2>6, <3>2 DEF QueueOnce
      <4>2. i \in DOMAIN queue' /\ queue'[i] = b
        BY <1>1, <2>1, <4>1
      <4> QED
        BY <4>2
    <3> QED
      BY <3>1, <3>2
  <2> QED
    BY <2>4, <2>5, <2>6 DEF QueueOnce
<1>3. ASSUME NEW c \in Callers, BurstPass(c) PROVE QueueOnce'
  <2>1. /\ queue # <<>> /\ Head(queue) = c /\ pc[c] = "burst" /\ queue' = Tail(queue)
        /\ pc' = [pc EXCEPT ![c] = IF WindowMax > 0 THEN "window" ELSE "idle"]
    BY <1>3 DEF BurstPass, GateInv, GateHeld
  <2>2. /\ Len(queue) > 0 /\ queue[1] = c /\ DOMAIN queue' = 1..Len(queue) - 1
        /\ \A i \in 1..Len(queue) - 1 : queue'[i] = queue[i + 1]
    BY <2>1, HeadTailProperties, EmptySeq, LenProperties DEF GateInv, GateTypes
  <2>3. \A i \in 1..Len(queue) - 1 : i + 1 \in DOMAIN queue /\ i + 1 # 1
    BY <1>1
  <2>4. \A i \in 1..Len(queue) - 1 : queue[i + 1] # c
    <3> SUFFICES ASSUME NEW i \in 1..Len(queue) - 1, queue[i + 1] = c PROVE FALSE
      OBVIOUS
    <3>1. 1 \in DOMAIN queue /\ i + 1 \in DOMAIN queue /\ i + 1 # 1
      BY <1>1, <2>2, <2>3
    <3> QED
      BY <2>2, <3>1 DEF QueueOnce
  <2>5. \A i, j \in DOMAIN queue' : queue'[i] = queue'[j] => i = j
    <3> SUFFICES ASSUME NEW i \in DOMAIN queue', NEW j \in DOMAIN queue', queue'[i] = queue'[j]
                 PROVE  i = j
      OBVIOUS
    <3>1. queue[i + 1] = queue[j + 1] /\ i + 1 \in DOMAIN queue /\ j + 1 \in DOMAIN queue
      BY <2>2, <2>3
    <3>2. i + 1 = j + 1
      BY <3>1 DEF QueueOnce
    <3>3. i \in Int /\ j \in Int
      BY <2>2
    <3> QED
      BY <3>2, <3>3
  <2>6. \A i \in DOMAIN queue' : pc'[queue'[i]] \in {"gate", "burst"}
    BY <1>1, <2>1, <2>2, <2>3, <2>4 DEF QueueOnce
  <2>7. ASSUME NEW b \in Callers, pc'[b] \in {"gate", "burst"}
        PROVE  \E i \in DOMAIN queue' : queue'[i] = b
    <3>1. b # c /\ pc[b] \in {"gate", "burst"}
      BY <1>1, <2>1, <2>7
    <3>2. PICK i \in 1..Len(queue) : queue[i] = b
      BY <1>1, <3>1 DEF QueueOnce
    <3>3. i - 1 \in 1..Len(queue) - 1 /\ (i - 1) + 1 = i
      BY <1>1, <2>2, <3>1, <3>2
    <3>4. queue'[i - 1] = queue[(i - 1) + 1]
      BY <2>2, <3>3
    <3> QED
      BY <2>2, <3>2, <3>3, <3>4
  <2> QED
    BY <2>5, <2>6, <2>7 DEF QueueOnce
<1>4. ASSUME NEW c \in Callers, BurstLock(c) PROVE QueueOnce'
  <2>1. queue' = queue /\ pc' = [pc EXCEPT ![c] = "burst"] /\ pc[c] = "gate"
    BY <1>4 DEF BurstLock
  <2> QED
    BY <1>1, <2>1 DEF QueueOnce
<1>5. ASSUME NEW c \in Callers, WindowPass(c) \/ WindowSleep(c) \/ WindowWake(c)
      PROVE QueueOnce'
  <2>1. PICK p \in {"idle", "asleep"} : pc' = [pc EXCEPT ![c] = p]
    BY <1>5 DEF WindowPass, WindowSleep, WindowWake
  <2>2. queue' = queue /\ pc[c] \notin {"gate", "burst"}
    BY <1>5 DEF WindowPass, WindowSleep, WindowWake
  <2> QED
    BY <1>1, <2>1, <2>2 DEF QueueOnce
<1>6. CASE Tick \/ UNCHANGED vars
  BY <1>6 DEF Tick, vars, QueueOnce
<1> QED
  BY <1>2, <1>3, <1>4, <1>5, <1>6 DEF Next, CallerStep

\* In such a queue a caller that waits or has the lock occurs exactly once.
LEMMA QueueOnceCounts ==
    ASSUME QueueOnce, NEW c \in Callers
    PROVE  pc[c] \in {"gate", "burst"} <=> Cardinality({i \in DOMAIN queue : queue[i] = c}) = 1
<1> DEFINE At == {i \in DOMAIN queue : queue[i] = c}
<1>1. CASE pc[c] \in {"gate", "burst"}
  <2>1. PICK k \in DOMAIN queue : queue[k] = c
    BY <1>1 DEF QueueOnce
  <2>2. At = {k}
    BY <2>1 DEF QueueOnce
  <2> QED
    BY <1>1, <2>2, FS_Singleton
<1>2. CASE pc[c] \notin {"gate", "burst"}
  <2>1. At = {}
    BY <1>2 DEF QueueOnce
  <2> QED
    BY <1>2, <2>1, FS_EmptySet
<1> QED
  BY <1>1, <1>2

\* The time a caller still sleeps is never negative: tier 2 sleeps only while
\* its oldest request is in the window.
RestType == rest \in [Callers -> Nat]

\* Every step of the limiter keeps the types of what its callers hold.
LEMMA RestStep == GateInv /\ StampsInOrder /\ RestType /\ [Next]_vars => RestType'
<1> SUFFICES ASSUME GateInv, StampsInOrder, RestType, [Next]_vars PROVE RestType'
  OBVIOUS
<1>1. ASSUME NEW n \in Int PROVE Sleep(n) \in Nat
  BY LimiterAssumption DEF Sleep
<1>2. ASSUME NEW c \in Callers, Acquire(c) \/ BurstPass(c) \/ WindowPass(c) \/ WindowWake(c)
      PROVE RestType'
  BY <1>2 DEF Acquire, BurstPass, WindowPass, WindowWake, RestType
<1>3. ASSUME NEW c \in Callers, BurstLock(c) PROVE RestType'
  <2>1. remaining \in Int
    BY LimiterAssumption DEF GateInv, GateTypes
  <2> QED
    BY <1>1, <1>3, <2>1 DEF BurstLock, RestType
<1>4. ASSUME NEW c \in Callers, WindowSleep(c) PROVE RestType'
  <2>1. /\ stamps' = Evicted(stamps) /\ stamps' # <<>>
        /\ rest' = [rest EXCEPT ![c] = Sleep(Window - Head(stamps'))]
    BY <1>4 DEF WindowSleep, MustWait
  <2>2. Head(stamps') \in Ages
    BY <2>1, EvictedInOrder, HeadTailProperties
  <2>3. Window - Head(stamps') \in Int
    BY <2>2, LimiterAssumption DEF Ages
  <2> QED
    BY <1>1, <2>1, <2>3 DEF RestType
<1>5. CASE Tick
  <2>1. \A n \in Nat : Down(n) \in Nat
    BY DEF Down
  <2> QED
    BY <1>5, <2>1 DEF Tick, RestType
<1>6. CASE UNCHANGED vars
  BY <1>6 DEF vars, RestType
<1> QED
  BY <1>2, <1>3, <1>4, <1>5, <1>6 DEF Next, CallerStep

TypesInv == GateInv /\ QueueOnce /\ StampsInOrder /\ RestType

\* A fresh limiter satisfies the invariant, and every step keeps it.
LEMMA TypesInit == Init => TypesInv
<1> SUFFICES ASSUME Init PROVE TypesInv
  OBVIOUS
<1>1. queue = <<>> /\ stamps = <<>> /\ DOMAIN <<>> = {} /\ <<>> \in Seq(Ages)
  BY EmptySeq DEF Init
<1> QED
  BY <1>1, GateInit DEF Init, TypesInv, QueueOnce, StampsInOrder, InOrder, RestType

\* Every step of the limiter keeps all of its types.
LEMMA TypesStep == TypesInv /\ [Next]_vars => TypesInv'
  BY GateStep, QueueStep, StampsStep, RestStep DEF TypesInv

\* The limiter keeps its types: window_timestamps stays in order, which eviction
\* from its front relies on, and a caller queues for the tier-1 lock once.
THEOREM LimiterTypes == Spec => []TypeOK
<1>1. TypesInv => TypeOK
  BY QueueOnceCounts
  DEF TypesInv, TypeOK, GateInv, GateTypes, StampsInOrder, InOrder, RestType, Ages
<1> QED
  BY <1>1, TypesInit, TypesStep, PTL DEF Spec
----------------------------------------------------------------------------
(* The rate. *)

\* The callers between the gates, and the requests of the last a ticks.
Past == {c \in Callers : pc[c] \in {"window", "asleep"}}
Recent(a) == {i \in DOMAIN stamps : stamps[i] < a}

\* The requests of the last a ticks that the callers between the gates at their
\* beginning cannot account for, were all those still there to make theirs.
Excess(a) == Cardinality(Recent(a)) + Cardinality(Past) - Cardinality(Callers)

\* Each of those is the request of a pass of the burst gate in these ticks, and
\* the passes are a burst interval apart, the last one sinceGate ago.
Paced == \A a \in 0..Window : Excess(a) > 0 => (Excess(a) - 1) * Burst + sinceGate < a

\* The requests and the callers can be counted.
Counts ==
    /\ IsFiniteSet(Past) /\ Cardinality(Past) \in Nat
    /\ Cardinality(Past) <= Cardinality(Callers) /\ Cardinality(Callers) \in Nat
    /\ \A a \in 0..Window : IsFiniteSet(Recent(a)) /\ Cardinality(Recent(a)) \in Nat
    /\ Cardinality(Recent(0)) = 0

\* What the limiter counts are natural numbers.
LEMMA CountsAreNaturals == TypesInv => Counts
<1> SUFFICES ASSUME TypesInv PROVE Counts
  OBVIOUS
<1>1. Past \in SUBSET Callers
  BY DEF Past
<1>2. Len(stamps) \in Nat /\ DOMAIN stamps = 1..Len(stamps)
      /\ \A i \in DOMAIN stamps : stamps[i] \in Nat
  BY LenProperties, ElementOfSeq, LimiterAssumption DEF TypesInv, StampsInOrder, Ages
<1>3. IsFiniteSet(DOMAIN stamps)
  BY <1>2, FS_Interval
<1>4. \A a \in 0..Window : Recent(a) \in SUBSET (DOMAIN stamps)
  BY DEF Recent
<1>5. Recent(0) = {}
  BY <1>2 DEF Recent
<1> QED
  BY <1>1, <1>3, <1>4, <1>5, FS_Subset, FS_CardinalityType, FS_EmptySet, LimiterAssumption
  DEF Counts

\* So they can after a step.
LEMMA CountsAfter == TypesInv' => Counts'
  BY CountsAreNaturals, PTL

\* Fewer requests to account for take no more passes; one more takes one more.
LEMMA FewerPasses ==
    ASSUME NEW k \in Int, NEW m \in Int, NEW d \in Nat
    PROVE  /\ m <= k => (m - 1) * d <= (k - 1) * d /\ (m - 1) * d \in Int /\ (k - 1) * d \in Int
           /\ m <= k + 1 => (m - 1) * d <= (k - 1) * d + d
<1>1. \A x, y \in Int : x <= y => x * d <= y * d
  OBVIOUS
<1>2. k * d = (k - 1) * d + d
  OBVIOUS
<1>3. m <= k + 1 => (m - 1) * d <= k * d
  BY <1>1
<1>4. m <= k => (m - 1) * d <= (k - 1) * d
  BY <1>1
<1> QED
  BY <1>2, <1>3, <1>4

\* Evicting expired requests leaves the recent ones; recording one adds one.
LEMMA EvictedRecent ==
    ASSUME TypesInv, NEW a \in 0..Window,
           \/ stamps' = Evicted(stamps)
           \/ stamps' = Append(Evicted(stamps), 0)
    PROVE  /\ stamps' = Evicted(stamps) =>
                  Cardinality(Recent(a)') <= Cardinality(Recent(a))
           /\ Cardinality(Recent(a)') <= Cardinality(Recent(a)) + 1
<1> DEFINE rst == Evicted(stamps)
           n == Stale(stamps)
           Left == {i \in DOMAIN rst : rst[i] < a}
           f == [i \in Left |-> i + n]
<1>1. /\ n \in 0..Len(stamps) /\ rst \in Seq(Ages) /\ Len(rst) = Len(stamps) - n
      /\ \A i \in 1..Len(stamps) - n : rst[i] = stamps[i + n]
      /\ Len(stamps) \in Nat /\ DOMAIN stamps = 1..Len(stamps)
  BY EvictedRest, LenProperties DEF TypesInv, StampsInOrder
<1>2. DOMAIN rst = 1..Len(rst) /\ 0 \in Ages
  BY <1>1, LenProperties, LimiterAssumption DEF Ages
<1> HIDE DEF rst, n
<1>3. f \in Injection(Left, Recent(a))
  <2>1. \A i \in Left : i \in Int /\ i + n \in Recent(a)
    BY <1>1, <1>2 DEF Recent
  <2>2. \A i, j \in Left : i + n = j + n => i = j
    BY <1>1, <2>1
  <2> HIDE DEF Left
  <2> QED
    BY <2>1, <2>2 DEF Injection, IsInjective
<1>4. IsFiniteSet(Recent(a)) /\ Cardinality(Recent(a)) \in Nat
  BY CountsAreNaturals DEF Counts
<1> HIDE DEF f
<1>5. IsFiniteSet(Left) /\ Cardinality(Left) \in Nat /\ Cardinality(Left) <= Cardinality(Recent(a))
  BY <1>3, <1>4, FS_Injection, FS_CardinalityType
<1>6. CASE stamps' = rst
  <2>1. Recent(a)' = Left
    BY <1>6 DEF Recent
  <2> QED
    BY <1>4, <1>5, <2>1
<1>7. CASE stamps' = Append(rst, 0)
  <2>1. /\ DOMAIN stamps' = 1..Len(rst) + 1
        /\ \A i \in 1..Len(rst) : stamps'[i] = rst[i]
    BY <1>1, <1>2, <1>7, AppendProperties, LenProperties
  <2>2. Recent(a)' \in SUBSET (Left \cup {Len(rst) + 1})
    BY <1>1, <1>2, <2>1 DEF Recent
  <2>3. /\ IsFiniteSet(Left \cup {Len(rst) + 1})
        /\ Cardinality(Left \cup {Len(rst) + 1}) <= Cardinality(Left) + 1
    <3> HIDE DEF Left
    <3> DEFINE x == Len(rst) + 1
    <3> HIDE DEF x
    <3>1. IsFiniteSet(Left \cup {x}) /\ Cardinality(Left \cup {x}) =
              IF x \in Left THEN Cardinality(Left) ELSE Cardinality(Left) + 1
      BY <1>5, FS_AddElement
    <3>2. Cardinality(Left \cup {x}) <= Cardinality(Left) + 1
      BY <1>5, <3>1
    <3> QED
      BY <3>1, <3>2 DEF x
  <2>4. Cardinality(Left \cup {Len(rst) + 1}) \in Nat
    BY <2>3, FS_CardinalityType
  <2>5. Cardinality(Recent(a)') <= Cardinality(Left) + 1 /\ Cardinality(Recent(a)') \in Nat
    <3>1. IsFiniteSet(Recent(a)') /\ Cardinality(Recent(a)') <= Cardinality(Left \cup {Len(rst) + 1})
      <4> DEFINE more == Left \cup {Len(rst) + 1}
      <4>1. IsFiniteSet(more) /\ Recent(a)' \in SUBSET more
        BY <2>2, <2>3
      <4> HIDE DEF more
      <4>2. IsFiniteSet(Recent(a)') /\ Cardinality(Recent(a)') <= Cardinality(more)
        BY <4>1, FS_Subset
      <4> QED
        BY <4>2 DEF more
    <3>2. Cardinality(Recent(a)') \in Nat
      BY <3>1, FS_CardinalityType
    <3> QED
      BY <1>5, <2>3, <2>4, <3>1, <3>2
  <2>6. Len(stamps') # Len(rst)
    BY <1>1, <1>2, <1>7, AppendProperties, LenProperties
  <2>7. stamps' # rst
    BY <2>6
  <2> QED
    BY <1>4, <1>5, <2>5, <2>7 DEF rst
<1> QED
  BY <1>6, <1>7 DEF rst

\* A step in which the excess does not grow and no time passes keeps the bound.
LEMMA PacedWhenFewer ==
    ASSUME TypesInv, TypesInv', Paced, sinceGate' = sinceGate,
           \A a \in 0..Window : Excess(a)' <= Excess(a)
    PROVE  Paced'
<1> SUFFICES ASSUME NEW a \in 0..Window, Excess(a)' > 0
             PROVE  (Excess(a)' - 1) * Burst + sinceGate' < a
  BY DEF Paced
<1> DEFINE k == Excess(a)
           m == Excess(a)'
<1>1. k \in Int /\ m \in Int
  BY CountsAreNaturals, CountsAfter DEF Counts, Excess
<1>2. m <= k /\ m > 0 /\ (k > 0 => (k - 1) * Burst + sinceGate < a)
  BY DEF Paced
<1>3. a \in Int /\ Burst \in Nat /\ sinceGate \in Int
  BY LimiterAssumption DEF TypesInv, GateInv, GateTypes
<1> HIDE DEF k, m
<1>4. (m - 1) * Burst <= (k - 1) * Burst /\ (m - 1) * Burst \in Int /\ (k - 1) * Burst \in Int
  BY <1>1, <1>2, <1>3, FewerPasses
<1>5. (k - 1) * Burst + sinceGate < a
  BY <1>1, <1>2
<1>6. (m - 1) * Burst + sinceGate < a
  BY <1>3, <1>4, <1>5
<1> QED
  BY <1>6 DEF m

\* A pass of the burst gate accounts for one more request, and comes a burst
\* interval after the pass before it.
LEMMA PacedAfterPass ==
    ASSUME TypesInv, TypesInv', Paced, NEW c \in Callers, BurstPass(c)
    PROVE  Paced'
<1> SUFFICES ASSUME NEW a \in 0..Window, Excess(a)' > 0
             PROVE  (Excess(a)' - 1) * Burst + sinceGate' < a
  BY DEF Paced
<1> DEFINE k == Excess(a)
           m == Excess(a)'
<1>1. /\ k \in Int /\ m \in Int /\ a \in Nat /\ Burst \in Nat /\ sinceGate \in Int
      /\ sinceGate' = 0 /\ stamps' = stamps
  <2>1. k \in Int /\ m \in Int
    BY CountsAreNaturals, CountsAfter DEF Counts, Excess
  <2>2. a \in Nat /\ Burst \in Nat /\ sinceGate \in Int
    BY LimiterAssumption DEF TypesInv, GateInv, GateTypes
  <2>3. sinceGate' = 0 /\ stamps' = stamps
    BY DEF BurstPass
  <2> QED
    BY <2>1, <2>2, <2>3
<1>2. sinceGate >= Burst
  BY LimiterAssumption DEF TypesInv, GateInv, GateTypes, GateHeld, GateClock, BurstPass
<1>3. a # 0
  <2>1. Cardinality(Recent(0)') = 0 /\ Cardinality(Past') <= Cardinality(Callers)
        /\ Cardinality(Past') \in Nat /\ Cardinality(Callers) \in Nat
    BY CountsAfter DEF Counts
  <2>2. ~ (Excess(0)' > 0)
    BY <2>1 DEF Excess
  <2> QED
    BY <2>2
<1>4. m <= k + 1
  <2>1. Past' \in SUBSET (Past \cup {c})
    BY DEF BurstPass, TypesInv, GateInv, GateTypes, Past
  <2>2. IsFiniteSet(Past) /\ Cardinality(Past) \in Nat
    BY CountsAreNaturals DEF Counts
  <2> DEFINE more == Past \cup {c}
  <2>3. IsFiniteSet(more) /\ Cardinality(more) <= Cardinality(Past) + 1
    <3>1. IsFiniteSet(Past \cup {c}) /\ Cardinality(Past \cup {c}) =
              IF c \in Past THEN Cardinality(Past) ELSE Cardinality(Past) + 1
      BY <2>2, FS_AddElement
    <3> QED
      BY <2>2, <3>1
  <2> HIDE DEF more
  <2>4. Cardinality(Past') <= Cardinality(more) /\ Cardinality(more) \in Nat
    BY <2>1, <2>3, FS_Subset, FS_CardinalityType DEF more
  <2>5. Recent(a)' = Recent(a)
    BY <1>1 DEF Recent
  <2>6. Cardinality(Past') \in Nat /\ Cardinality(Callers) \in Nat
        /\ Cardinality(Recent(a)) \in Nat
    BY CountsAreNaturals, CountsAfter DEF Counts
  <2>7. Cardinality(Past') <= Cardinality(Past) + 1
    BY <2>2, <2>3, <2>4, <2>6
  <2> QED
    BY <2>2, <2>5, <2>6, <2>7 DEF Excess
<1>5. m > 0 /\ (k > 0 => (k - 1) * Burst + sinceGate < a)
  BY DEF Paced
<1> HIDE DEF k, m
<1>6. (m - 1) * Burst < a
  <2>1. CASE k > 0
    <3>1. (m - 1) * Burst <= (k - 1) * Burst + Burst
      BY <1>1, <1>4, FewerPasses
    <3>2. (k - 1) * Burst \in Int /\ (m - 1) * Burst \in Int
      BY <1>1
    <3>3. (k - 1) * Burst + sinceGate < a
      BY <1>5, <2>1
    <3> QED
      BY <1>1, <1>2, <3>1, <3>2, <3>3
  <2>2. CASE ~ (k > 0)
    <3>1. m = 1
      BY <1>1, <1>4, <1>5, <2>2
    <3> QED
      BY <1>1, <1>3, <3>1
  <2> QED
    BY <2>1, <2>2
<1>7. (m - 1) * Burst \in Int
  BY <1>1
<1> QED
  BY <1>1, <1>6, <1>7 DEF m

\* When a tick passes, the requests of the last a ticks are those that were of
\* the last a - 1.
LEMMA PacedAfterTick ==
    ASSUME TypesInv, TypesInv', Paced, Tick
    PROVE  Paced'
<1> SUFFICES ASSUME NEW a \in 0..Window, Excess(a)' > 0
             PROVE  (Excess(a)' - 1) * Burst + sinceGate' < a
  BY DEF Paced
<1>1. /\ a \in Nat /\ Burst \in Nat /\ sinceGate \in Int /\ Window \in Nat
      /\ sinceGate' = Up(sinceGate, Burst) /\ pc' = pc
      /\ stamps' = [i \in DOMAIN stamps |-> Up(stamps[i], Window + 1)]
  BY LimiterAssumption DEF TypesInv, GateInv, GateTypes, Tick
<1>2. a # 0
  <2>1. Cardinality(Recent(0)') = 0 /\ Cardinality(Past') <= Cardinality(Callers)
        /\ Cardinality(Past') \in Nat /\ Cardinality(Callers) \in Nat
    BY CountsAfter DEF Counts
  <2>2. ~ (Excess(0)' > 0)
    BY <2>1 DEF Excess
  <2> QED
    BY <2>2
<1>3. a - 1 \in 0..Window
  BY <1>1, <1>2
<1>4. Recent(a)' = Recent(a - 1)
  <2>1. \A i \in DOMAIN stamps : stamps[i] \in Ages
    BY LenProperties, ElementOfSeq DEF TypesInv, StampsInOrder
  <2>2. \A n \in Ages : Up(n, Window + 1) < a <=> n < a - 1
    BY <1>1 DEF Up, Ages
  <2>3. DOMAIN stamps' = DOMAIN stamps
        /\ \A i \in DOMAIN stamps : stamps'[i] < a <=> stamps[i] < a - 1
    BY <1>1, <2>1, <2>2
  <2> QED
    BY <2>3 DEF Recent
<1>5. Past' = Past
  BY <1>1 DEF Past
<1> DEFINE k == Excess(a - 1)
<1>6. Excess(a)' = k
  BY <1>4, <1>5 DEF Excess
<1>7. k \in Int /\ k > 0
  BY <1>3, <1>6, CountsAreNaturals DEF Counts, Excess
<1>8. (k - 1) * Burst + sinceGate < a - 1
  BY <1>3, <1>7 DEF Paced
<1>9. sinceGate' \in Int /\ sinceGate' <= sinceGate + 1
  BY <1>1, LimiterAssumption DEF Up, TypesInv, GateInv, GateTypes
<1> HIDE DEF k
<1>10. (k - 1) * Burst \in Int
  BY <1>1, <1>7
<1>11. (k - 1) * Burst + sinceGate' < a
  BY <1>1, <1>8, <1>9, <1>10
<1> QED
  BY <1>6, <1>11

\* The invariant of the rate: every step keeps it.
LEMMA PacedStep == TypesInv /\ TypesInv' /\ Paced /\ [Next]_vars => Paced'
<1> SUFFICES ASSUME TypesInv, TypesInv', Paced, [Next]_vars PROVE Paced'
  OBVIOUS
<1>1. CASE Tick
  BY <1>1, PacedAfterTick
<1>2. ASSUME NEW c \in Callers, BurstPass(c) PROVE Paced'
  BY <1>2, PacedAfterPass
<1>3. ASSUME NEW c \in Callers, Acquire(c) \/ BurstLock(c) PROVE Paced'
  <2>1. sinceGate' = sinceGate /\ stamps' = stamps
    BY <1>3 DEF Acquire, BurstLock
  <2>2. Past' = Past
    BY <1>3 DEF Acquire, BurstLock, TypesInv, GateInv, GateTypes, Past
  <2>3. \A a \in 0..Window : Excess(a)' = Excess(a) /\ Excess(a) \in Int
    BY <2>1, <2>2, CountsAreNaturals DEF Counts, Excess, Recent
  <2> QED
    BY <2>1, <2>3, PacedWhenFewer
<1>4. ASSUME NEW c \in Callers, WindowSleep(c) PROVE Paced'
  <2>1. sinceGate' = sinceGate /\ stamps' = Evicted(stamps)
    BY <1>4 DEF WindowSleep
  <2>2. Past' = Past
    BY <1>4 DEF WindowSleep, TypesInv, GateInv, GateTypes, Past
  <2>3. ASSUME NEW a \in 0..Window PROVE Excess(a)' <= Excess(a)
    <3>1. Cardinality(Recent(a)') <= Cardinality(Recent(a))
      BY <2>1, EvictedRecent
    <3> QED
      BY <2>2, <3>1, CountsAreNaturals, CountsAfter DEF Counts, Excess
  <2> QED
    BY <2>1, <2>3, PacedWhenFewer
<1>5. ASSUME NEW c \in Callers, WindowPass(c) \/ WindowWake(c) PROVE Paced'
  <2>1. sinceGate' = sinceGate /\ stamps' = Append(Evicted(stamps), 0)
    BY <1>5 DEF WindowPass, WindowWake
  <2>2. c \in Past /\ Past' = Past \ {c}
    BY <1>5 DEF WindowPass, WindowWake, TypesInv, GateInv, GateTypes, Past
  <2>3. Cardinality(Past') = Cardinality(Past) - 1
    BY <2>2, CountsAreNaturals, FS_RemoveElement DEF Counts
  <2>4. ASSUME NEW a \in 0..Window PROVE Excess(a)' <= Excess(a)
    <3>1. Cardinality(Recent(a)') <= Cardinality(Recent(a)) + 1
      BY <2>1, EvictedRecent
    <3> QED
      BY <2>3, <3>1, CountsAreNaturals, CountsAfter DEF Counts, Excess
  <2> QED
    BY <2>1, <2>4, PacedWhenFewer
<1>6. CASE UNCHANGED vars
  BY <1>6 DEF vars, Paced, Excess, Past, Recent
<1> QED
  BY <1>1, <1>2, <1>3, <1>4, <1>5, <1>6 DEF Next, CallerStep

\* Whatever tier 2 lets through at once, in any window at most one request per
\* burst interval is made, plus one for each caller that was past the burst gate
\* of acquire when the window began.
THEOREM WindowIsCapped == Spec => []ThroughputCap
<1>1. Init => Paced
  <2> SUFFICES ASSUME Init PROVE Paced
    OBVIOUS
  <2>1. DOMAIN stamps = {}
    BY EmptySeq DEF Init
  <2>2. \A a \in 0..Window : Recent(a) = {} /\ Past = {}
    BY <2>1 DEF Init, Recent, Past
  <2>3. \A a \in 0..Window : ~ (Excess(a) > 0)
    <3>1. Cardinality(Callers) \in Nat /\ Cardinality({}) = 0
      BY FS_EmptySet, FS_CardinalityType, LimiterAssumption
    <3>2. \A a \in 0..Window : Excess(a) = 0 + 0 - Cardinality(Callers)
      BY <2>2, <3>1 DEF Excess
    <3> QED
      BY <3>1, <3>2
  <2> QED
    BY <2>3 DEF Paced
<1>2. TypesInv /\ Paced => ThroughputCap
  <2> SUFFICES ASSUME TypesInv, Paced, Burst > 0
               PROVE  Cardinality(InWindow)
                          <= (Window + Burst - 1) \div Burst + Cardinality(Callers)
    BY DEF ThroughputCap
  <2> DEFINE k == Cardinality(InWindow) - Cardinality(Callers)
  <2>1. Burst \in Nat /\ Window \in Nat /\ sinceGate \in Nat /\ Window \in 0..Window
    BY LimiterAssumption DEF TypesInv, GateInv, GateTypes
  <2>2. InWindow = Recent(Window)
    BY DEF InWindow, Recent
  <2>3. /\ Cardinality(InWindow) \in Nat /\ Cardinality(Callers) \in Nat
        /\ k \in Int /\ Excess(Window) \in Int /\ k <= Excess(Window)
    BY <2>1, <2>2, CountsAreNaturals DEF Counts, Excess
  <2> DEFINE m == Excess(Window)
  <2>4. m > 0 => (m - 1) * Burst + sinceGate < Window
    BY <2>1 DEF Paced
  <2> HIDE DEF k, m
  <2>5. k * Burst <= Window + Burst - 1
    <3>1. CASE k > 0
      <4>1. (k - 1) * Burst <= (m - 1) * Burst /\ (m - 1) * Burst \in Int
        BY <2>1, <2>3, FewerPasses DEF m
      <4>2. (m - 1) * Burst + sinceGate < Window
        BY <2>3, <2>4, <3>1 DEF m
      <4>3. (k - 1) * Burst \in Int /\ k * Burst \in Int /\ k * Burst = (k - 1) * Burst + Burst
        BY <2>1, <2>3
      <4> QED
        BY <2>1, <4>1, <4>2, <4>3
    <3>2. CASE ~ (k > 0)
      <4>1. k * Burst <= 0 /\ k * Burst \in Int
        BY <2>1, <2>3, <3>2
      <4> QED
        BY <2>1, <4>1
    <3> QED
      BY <3>1, <3>2
  <2>6. k <= (Window + Burst - 1) \div Burst
    BY <2>1, <2>3, <2>5, DivisionBound
  <2>7. (Window + Burst - 1) \div Burst \in Int
    BY <2>1
  <2> QED
    BY <2>3, <2>6, <2>7 DEF k
<1> QED
  BY <1>1, <1>2, TypesInit, TypesStep, PacedStep, PTL DEF Spec
-----------------------------------------------------------------------------
(* AdvisorySync: what the rows of a response keep of its records. *)

\* What a row says of its record.
LEMMA RowSays ==
    ASSUME NEW s, NEW r, NEW ids, NEW row \in RowsOf(s, r, ids)
    PROVE  /\ row.id = IdOf(<<s, r>>) /\ row.range = r.range /\ ~ row.resync
           /\ row.vid = NoVersion \/ row.vid \in MatchedVersions(s, r, ids)
<1>1. PICK v \in MatchedVersions(s, r, ids) \cup {NoVersion} :
          row = [id |-> IF s = "osv" THEN Identity(r)[1] ELSE r.id,
                 source |-> IF s = "osv" THEN Identity(r)[2] ELSE s,
                 vid |-> v, range |-> r.range, resync |-> FALSE]
  BY DEF RowsOf
<1> DEFINE id == IF s = "osv" THEN Identity(r)[1] ELSE r.id
           source == IF s = "osv" THEN Identity(r)[2] ELSE s
<1>2. id = IdOf(<<s, r>>)
  BY DEF IdOf
<1> HIDE DEF id, source
<1>3. row = [id |-> id, source |-> source, vid |-> v, range |-> r.range, resync |-> FALSE]
  BY <1>1 DEF id, source
<1>4. row.id = id /\ row.range = r.range /\ row.vid = v /\ ~ row.resync
  BY <1>3
<1> QED
  BY <1>1, <1>2, <1>4

\* A record has a row, and one of each version it matches.
LEMMA RecordHasRows ==
    ASSUME NEW s, NEW r, NEW ids
    PROVE  /\ RowsOf(s, r, ids) # {}
           /\ \A v \in MatchedVersions(s, r, ids) : \E row \in RowsOf(s, r, ids) : row.vid = v
<1> DEFINE id == IF s = "osv" THEN Identity(r)[1] ELSE r.id
           source == IF s = "osv" THEN Identity(r)[2] ELSE s
           vids == MatchedVersions(s, r, ids)
           Row(v) == [id |-> id, source |-> source, vid |-> v, range |-> r.range, resync |-> FALSE]
<1>1. RowsOf(s, r, ids) = {Row(v) : v \in IF vids = {} THEN {NoVersion} ELSE vids}
  BY Zenon DEF RowsOf
<1>2. \A v : Row(v).vid = v
  OBVIOUS
<1> HIDE DEF id, source, vids, Row
<1>3. RowsOf(s, r, ids) # {} /\ \A v \in vids : \E row \in RowsOf(s, r, ids) : row.vid = v
  BY <1>1, <1>2
<1> QED
  BY <1>3, Zenon DEF vids

\* Of a set of places in a response one is the last.
LEMMA LastPlace ==
    ASSUME NEW n \in Nat, NEW T \in SUBSET (1..n), T # {}
    PROVE  \E x \in T : \A y \in T : y <= x
<1> DEFINE U == {n - x : x \in T}
<1>1. U \in SUBSET Nat /\ U # {}
  <2>1. \A x \in T : n - x \in Nat
    OBVIOUS
  <2>2. PICK x \in T : TRUE
    OBVIOUS
  <2>3. n - x \in U
    BY <2>2
  <2> QED
    BY <2>1, <2>3
<1>2. PICK u \in U : \A w \in U : u <= w
  <2> HIDE DEF U
  <2> QED
    BY <1>1, LeastElement
<1>3. PICK x \in T : u = n - x
  BY <1>2
<1>4. \A y \in T : n - x <= n - y
  BY <1>2, <1>3
<1>5. \A y \in T : y <= x
  BY <1>4
<1> QED
  BY <1>5

\* Of every row a response turns into, its key is stored: it is there itself or a
\* later record has updated it.
LEMMA KeyStored ==
    ASSUME NEW s \in Sources, NEW k \in DOMAIN History[s], NEW ids \in SUBSET Versions,
           NEW i \in DOMAIN History[s][k], NEW row \in RowsOf(s, History[s][k][i], ids)
    PROVE  \E j \in DOMAIN History[s][k] : \E other \in RowsOf(s, History[s][k][j], ids) :
               SameKey(row, other) /\ other \in ResponseRows[s][k][ids]
<1> DEFINE R == History[s][k]
           T == {j \in DOMAIN R : Updates(row, RowsOf(s, R[j], ids))}
<1> DEFINE n == Len(R)
<1>1. DOMAIN R = 1..n /\ n \in Nat
  BY AdvisoryAssumption DEF AdvisoryAssumption
<1>2. ResponseRows[s][k][ids] = UNION {RecordRows(s, R, j, ids) : j \in DOMAIN R}
  BY DEF ResponseRows
<1> HIDE DEF n
<1>3. T \in SUBSET (1..n) /\ i \in T
  BY <1>1 DEF Updates, SameKey
<1>4. n \in Nat
  BY <1>1
<1>5. PICK j \in T : \A x \in T : x <= j
  <2> HIDE DEF T
  <2> QED
    BY <1>3, <1>4, LastPlace
<1> HIDE DEF R
<1>6. PICK other \in RowsOf(s, R[j], ids) : SameKey(row, other)
  BY <1>5 DEF Updates
<1>7. \A x \in DOMAIN R : x > j => ~ Updates(other, RowsOf(s, R[x], ids))
  <2> SUFFICES ASSUME NEW x \in DOMAIN R, x > j, Updates(other, RowsOf(s, R[x], ids))
               PROVE  FALSE
    OBVIOUS
  <2>1. Updates(row, RowsOf(s, R[x], ids))
    BY <1>6 DEF Updates, SameKey
  <2>2. x \in T /\ x \in Nat /\ j \in Nat
    BY <1>1, <2>1
  <2> HIDE DEF T
  <2> QED
    BY <1>5, <2>2
<1>8. other \in RecordRows(s, R, j, ids)
  BY <1>6, <1>7 DEF RecordRows
<1>9. j \in DOMAIN R
  OBVIOUS
<1> QED
  BY <1>2, <1>6, <1>8, <1>9 DEF R

\* What a response keeps of its records: every row comes from one, and every
\* record has a row of its advisory, one of a version it matches if it matches any.
LEMMA ResponseSays ==
    ASSUME NEW s \in Sources, NEW k \in DOMAIN History[s], NEW ids \in SUBSET Versions
    PROVE  /\ \A row \in ResponseRows[s][k][ids] : \E i \in DOMAIN History[s][k] :
                  row \in RowsOf(s, History[s][k][i], ids)
           /\ \A i \in DOMAIN History[s][k] :
                  /\ \E j \in DOMAIN History[s][k] : \E row \in ResponseRows[s][k][ids] :
                        /\ row \in RowsOf(s, History[s][k][j], ids)
                        /\ row.id = IdOf(<<s, History[s][k][i]>>)
                  /\ \A v \in MatchedVersions(s, History[s][k][i], ids) :
                        \E row \in ResponseRows[s][k][ids] :
                            row.id = IdOf(<<s, History[s][k][i]>>) /\ row.vid = v
<1> DEFINE R == History[s][k]
           rows == ResponseRows[s][k][ids]
<1>1. rows = UNION {RecordRows(s, R, j, ids) : j \in DOMAIN R}
  BY DEF ResponseRows
<1>2. \A row \in rows : \E i \in DOMAIN R : row \in RowsOf(s, R[i], ids)
  BY <1>1 DEF RecordRows
<1>3. ASSUME NEW i \in DOMAIN R, NEW row \in RowsOf(s, R[i], ids)
      PROVE  \E j \in DOMAIN R : \E other \in rows :
                 other \in RowsOf(s, R[j], ids) /\ other.id = IdOf(<<s, R[i]>>) /\ other.vid = row.vid
  <2>1. PICK j \in DOMAIN R : \E other \in RowsOf(s, R[j], ids) : SameKey(row, other) /\ other \in rows
    BY <1>3, KeyStored
  <2>2. row.id = IdOf(<<s, R[i]>>)
    BY <1>3, RowSays
  <2> QED
    BY <2>1, <2>2 DEF SameKey
<1> HIDE DEF R, rows
<1>4. ASSUME NEW i \in DOMAIN R
      PROVE  \E j \in DOMAIN R : \E row \in rows : row \in RowsOf(s, R[j], ids) /\ row.id = IdOf(<<s, R[i]>>)
  BY <1>3, RecordHasRows
<1>5. ASSUME NEW i \in DOMAIN R, NEW v \in MatchedVersions(s, R[i], ids)
      PROVE  \E row \in rows : row.id = IdOf(<<s, R[i]>>) /\ row.vid = v
  <2>1. PICK row \in RowsOf(s, R[i], ids) : row.vid = v
    BY RecordHasRows
  <2> QED
    BY <1>3, <2>1
<1> QED
  BY <1>2, <1>4, <1>5 DEF R, rows
-----------------------------------------------------------------------------
(* AdvisorySync: whose rows are stored. *)

\* The rows of a source.
RowsOfSource(rows, s) == {row \in rows : ~ row.resync /\ row.source \in ClearedSources(s)}

\* Every row is the legacy row or comes from a source; and the rows of a source
\* that was not last replaced in overlap are those of the response stored last,
\* for versions indexed at the time.
RowsStored(rows, from, mix, ids) ==
    /\ \A row \in rows : row = LegacyRow \/ \E s \in Sources : row \in RowsOfSource(rows, s)
    /\ \A s \in Sources :
          \/ s \in mix
          \/ from[s] = 0 /\ RowsOfSource(rows, s) = {}
          \/ from[s] \in DOMAIN History[s] /\ \E at \in SUBSET ids : RowsOfSource(rows, s) = ResponseRows[s][from[s]][at]

StoredOk ==
    /\ DOMAIN stored = SecCrates /\ \A c \in SecCrates : DOMAIN stored[c] = Sources
    /\ DOMAIN mixed = SecCrates
    /\ \A c \in SecCrates : RowsStored(matches[c], stored[c], mixed[c], indexed[c])

\* A sync of one source clears no rows of another.
LEMMA SourcesApart ==
    /\ Sources \subseteq {"osv", "ghsa", "rustsec_db"}
    /\ \A s, t \in Sources : s # t => ClearedSources(s) \cap ClearedSources(t) = {}
<1>1. Sources \subseteq {"osv", "ghsa", "rustsec_db"}
  <2>1. CASE HasRustsecDb
    BY <2>1 DEF SourceOrder, Sources, Range
  <2>2. CASE ~ HasRustsecDb
    BY <2>2 DEF SourceOrder, Sources, Range
  <2> QED
    BY <2>1, <2>2
<1> QED
  BY <1>1 DEF ClearedSources

\* The transaction of one source replaces its rows and leaves those of the others.
LEMMA ReplacedStored ==
    ASSUME NEW rows, NEW missed, NEW from, DOMAIN from = Sources, NEW mix, NEW ids \in SUBSET Versions,
           RowsStored(rows, from, mix, ids),
           NEW s \in Sources, NEW k \in DOMAIN History[s], NEW at \in SUBSET ids
    PROVE  RowsStored(Replaced(rows, missed, s, k, at), [from EXCEPT ![s] = k],
                      IF missed = {} THEN mix \ {s} ELSE mix \cup {s}, ids)
<1> DEFINE new == ResponseRows[s][k][at]
           after == Replaced(rows, missed, s, k, at)
           kept == {row \in rows : row.source \notin ClearedSources(s)}
           left == {row \in rows \cap missed : ~ Updates(row, new)}
<1>1. \A row \in new : ~ row.resync /\ row.source \in ClearedSources(s)
  <2> TAKE row \in new
  <2>1. at \in SUBSET Versions
    OBVIOUS
  <2>2. row.source \in ClearedSources(s)
    BY <2>1, ResponseShape
  <2>3. PICK i \in DOMAIN History[s][k] : row \in RowsOf(s, History[s][k][i], at)
    BY <2>1, ResponseSays
  <2>4. ~ row.resync
    BY <2>3, RowSays
  <2> QED
    BY <2>2, <2>4
<1>2. after = (kept \cup left) \cup new
  BY DEF Replaced
<1>3. left \subseteq rows /\ (missed = {} => left = {})
  OBVIOUS
<1> HIDE DEF new, after, left
<1>4. missed = {} => RowsOfSource(after, s) = new
  BY <1>1, <1>2, <1>3 DEF RowsOfSource
<1>5. \A t \in Sources : t # s => RowsOfSource(after, t) = RowsOfSource(rows, t)
  BY <1>1, <1>2, <1>3, SourcesApart DEF RowsOfSource
<1>6. ASSUME NEW row \in after
      PROVE  row = LegacyRow \/ \E t \in Sources : row \in RowsOfSource(after, t)
  <2>1. CASE row \in new
    BY <1>1, <1>6, <2>1 DEF RowsOfSource
  <2>2. CASE row \in rows /\ row # LegacyRow
    <3>1. PICK t \in Sources : row \in RowsOfSource(rows, t)
      BY <2>2 DEF RowsStored
    <3> QED
      BY <1>6, <3>1 DEF RowsOfSource
  <2> QED
    BY <1>2, <1>3, <1>6, <2>1, <2>2
<1> DEFINE now == [from EXCEPT ![s] = k]
           mix2 == IF missed = {} THEN mix \ {s} ELSE mix \cup {s}
<1>7. now[s] = k /\ \A t \in Sources : t # s => now[t] = from[t] /\ (t \in mix2 <=> t \in mix)
  OBVIOUS
<1>8. s \in mix2 \/ missed = {}
  OBVIOUS
<1> HIDE DEF now, mix2
<1>9. ASSUME NEW t \in Sources
      PROVE  \/ t \in mix2
             \/ now[t] = 0 /\ RowsOfSource(after, t) = {}
             \/ now[t] \in DOMAIN History[t] /\ \E x \in SUBSET ids : RowsOfSource(after, t) = ResponseRows[t][now[t]][x]
  <2>1. CASE t = s /\ missed = {}
    <3>1. RowsOfSource(after, s) = ResponseRows[s][now[s]][at] /\ now[s] \in DOMAIN History[s]
      BY <1>4, <1>7, <2>1 DEF new
    <3> QED
      BY <2>1, <3>1
  <2>2. CASE t # s
    BY <1>5, <1>7, <2>2 DEF RowsStored
  <2> QED
    BY <1>8, <2>1, <2>2
<1> QED
  BY <1>6, <1>9 DEF RowsStored, now, after, mix2
-----------------------------------------------------------------------------
(* AdvisorySync: the verdict on a version. *)

\* What a record says of a version: that of its range, a withdrawal, its list.
RangeSays(sr, v) == RangeApplicability(sr[2].range, v)
Gone(sr) == sr[2].range.format = "withdrawn"
Lists(sr, v) == sr[1] = "osv" /\ v \in sr[2].listed

\* What a tool shows of an advisory is what its records say, when the rows are
\* those of the stored responses, no source being last replaced in overlap.
LEMMA VerdictIs ==
    ASSUME SourcesConsistent, SecInv, StoredOk, NEW c \in SecCrates, mixed[c] = {},
           NEW v \in indexed[c], NEW id, id # "legacy"
    PROVE  LET shown == AdvisoryVerdict({row \in matches[c] : row.id = id}, v, v)
           IN  shown = Evidence(c, id, v) \/ (shown = Unknown /\ Evidence(c, id, v) = Affected)
<1> DEFINE M == {row \in matches[c] : row.id = id}
           A == {sr \in StoredRecords(c) : IdOf(sr) = id}
<1>1. v \in Versions /\ v # NoVersion /\ RowsStored(matches[c], stored[c], {}, indexed[c])
      /\ indexed[c] \in SUBSET Versions
  BY VersionAssumption DEF SecInv, MatchesOk, StoredOk, Versions, NoVersion
\* A row of the advisory comes from a record of it.
<1>2. \A row \in M : /\ ~ row.resync
                     /\ \E sr \in A : /\ row.range = sr[2].range
                                      /\ row.vid = v => ~ Gone(sr) /\ (Lists(sr, v) \/ RangeSays(sr, v) = Affected)
  <2> SUFFICES ASSUME NEW row \in M
               PROVE  /\ ~ row.resync
                      /\ \E sr \in A : /\ row.range = sr[2].range
                                       /\ row.vid = v => ~ Gone(sr) /\ (Lists(sr, v) \/ RangeSays(sr, v) = Affected)
    OBVIOUS
  <2>1. row \in matches[c] /\ row.id = id /\ row # LegacyRow
    BY DEF LegacyRow
  <2>2. PICK s \in Sources : row \in RowsOfSource(matches[c], s)
    BY <1>1, <2>1 DEF RowsStored
  <2> DEFINE k == stored[c][s]
  <2>3. k # 0 /\ k \in DOMAIN History[s]
        /\ \E at \in SUBSET indexed[c] : RowsOfSource(matches[c], s) = ResponseRows[s][k][at]
    <3>1. RowsOfSource(matches[c], s) # {}
      BY <2>2
    <3>2. k \in DOMAIN History[s] => k # 0
      BY AdvisoryAssumption DEF AdvisoryAssumption
    <3> HIDE DEF k
    <3> QED
      BY <1>1, <3>1, <3>2 DEF RowsStored, k
  <2>4. PICK at \in SUBSET indexed[c] : RowsOfSource(matches[c], s) = ResponseRows[s][k][at]
    BY <2>3
  <2> HIDE DEF k
  <2>5. PICK i \in DOMAIN History[s][k] : row \in RowsOf(s, History[s][k][i], at)
    <3>1. at \in SUBSET Versions
      BY <1>1
    <3> QED
      BY <2>2, <2>3, <2>4, <3>1, ResponseSays
  <2> DEFINE r == History[s][k][i]
  <2>6. /\ row.id = IdOf(<<s, r>>) /\ row.range = r.range /\ ~ row.resync
        /\ row.vid = NoVersion \/ row.vid \in MatchedVersions(s, r, at)
    BY <2>5, RowSays
  <2>7. <<s, r>> \in StoredRecords(c)
    <3>1. r \in Range(History[s][k])
      BY DEF Range
    <3> QED
      BY <2>3, <3>1 DEF StoredRecords, k
  <2> HIDE DEF r
  <2>8. <<s, r>> \in A
    BY <2>1, <2>6, <2>7
  <2>9. row.vid = v => r.range.format # "withdrawn"
                       /\ ((s = "osv" /\ v \in r.listed) \/ RangeApplicability(r.range, v) = Affected)
    BY <1>1, <2>6 DEF MatchedVersions
  <2>10. <<s, r>>[1] = s /\ <<s, r>>[2] = r
    OBVIOUS
  <2> QED
    BY <2>6, <2>8, <2>9, <2>10 DEF Gone, Lists, RangeSays
\* A record of the advisory has a row that says the same, but for the list.
<1>3. \A sr \in A : /\ \E row \in M : /\ (row.range.format = "withdrawn") <=> Gone(sr)
                                      /\ RangeApplicability(row.range, v) = RangeSays(sr, v)
                    /\ Lists(sr, v) /\ ~ Gone(sr) => RangeSays(sr, v) \in {Affected, Unknown}
  <2> SUFFICES ASSUME NEW sr \in A
               PROVE  /\ \E row \in M : /\ (row.range.format = "withdrawn") <=> Gone(sr)
                                        /\ RangeApplicability(row.range, v) = RangeSays(sr, v)
                      /\ Lists(sr, v) /\ ~ Gone(sr) => RangeSays(sr, v) \in {Affected, Unknown}
    OBVIOUS
  <2>1. PICK s \in Sources : /\ stored[c][s] # 0
                             /\ sr \in {<<s, r>> : r \in Range(History[s][stored[c][s]])}
    <3>1. PICK s \in Sources :
              sr \in {<<s, r>> : r \in IF stored[c][s] = 0 THEN {} ELSE Range(History[s][stored[c][s]])}
      BY DEF StoredRecords
    <3> QED
      BY <3>1
  <2> DEFINE k == stored[c][s]
  <2>2. PICK i \in DOMAIN History[s][k] : sr = <<s, History[s][k][i]>>
    BY <2>1 DEF Range
  <2>3. k \in DOMAIN History[s] /\ \E at \in SUBSET indexed[c] : RowsOfSource(matches[c], s) = ResponseRows[s][k][at]
    BY <1>1, <2>1 DEF RowsStored
  <2>4. PICK at \in SUBSET indexed[c] : RowsOfSource(matches[c], s) = ResponseRows[s][k][at]
    BY <2>3
  <2> HIDE DEF k
  <2>5. at \in SUBSET Versions
    BY <1>1
  <2>6. PICK j \in DOMAIN History[s][k] : \E row \in ResponseRows[s][k][at] :
            row \in RowsOf(s, History[s][k][j], at) /\ row.id = IdOf(<<s, History[s][k][i]>>)
    BY <2>3, <2>5, ResponseSays
  <2>7. PICK row \in ResponseRows[s][k][at] :
            row \in RowsOf(s, History[s][k][j], at) /\ row.id = IdOf(<<s, History[s][k][i]>>)
    BY <2>6
  <2> DEFINE response == History[s][k]
             r == response[i]
             q == response[j]
  <2>8. row.id = IdOf(<<s, q>>) /\ row.range = q.range
    BY <2>7, RowSays
  <2>9. row \in M
    <3>1. row \in matches[c]
      BY <2>4 DEF RowsOfSource
    <3>2. IdOf(<<s, r>>) = id
      BY <2>2
    <3> QED
      BY <2>7, <3>1, <3>2
  <2>10. /\ IdOf(<<s, r>>) = IdOf(<<s, q>>) =>
               /\ (r.range.format = "withdrawn") <=> (q.range.format = "withdrawn")
               /\ RangeApplicability(r.range, v) = RangeApplicability(q.range, v)
         /\ s = "osv" /\ r.range.format # "withdrawn" /\ v \in r.listed =>
               RangeApplicability(r.range, v) \in {Affected, Unknown}
    BY <1>1, <2>3 DEF SourcesConsistent
  <2>11. IdOf(<<s, r>>) = IdOf(<<s, q>>)
    BY <2>7, <2>8
  <2> HIDE DEF r, q, response
  <2>12. sr[1] = s /\ sr[2] = r
    BY <2>2 DEF r, response
  <2> QED
    BY <2>8, <2>9, <2>10, <2>11, <2>12 DEF Gone, Lists, RangeSays
<1> DEFINE V == {RowApplicability(row, v, v) : row \in M}
           W == {IF Lists(sr, v) THEN Affected ELSE RangeSays(sr, v) : sr \in A}
           shown == AdvisoryVerdict(M, v, v)
           evidence == Evidence(c, id, v)
<1>4. (\E row \in M : Withdrawn(row)) <=> (\E sr \in A : Gone(sr))
  <2>1. \A row \in M : Withdrawn(row) <=> row.range.format = "withdrawn"
    BY <1>2, Zenon DEF Withdrawn
  <2>2. \A row \in M : \A sr \in A : row.range = sr[2].range => (Gone(sr) <=> row.range.format = "withdrawn")
    BY Zenon DEF Gone
  <2> HIDE DEF M, A
  <2>3. ASSUME NEW row \in M, Withdrawn(row) PROVE \E sr \in A : Gone(sr)
    <3>1. PICK sr \in A : row.range = sr[2].range
      BY <1>2
    <3> QED
      BY <2>1, <2>2, <2>3, <3>1, Zenon
  <2>4. ASSUME NEW sr \in A, Gone(sr) PROVE \E row \in M : Withdrawn(row)
    BY <1>3, <2>1, <2>4, Zenon
  <2> QED
    BY <2>3, <2>4, Zenon
<1>5. shown = IF \E row \in M : Withdrawn(row) THEN NotAffected ELSE Strongest(V)
  BY Zenon DEF AdvisoryVerdict
<1>6. evidence = IF \E sr \in A : Gone(sr) THEN NotAffected ELSE Strongest(W)
  BY Zenon DEF Evidence, Gone, Lists, RangeSays
<1>7. CASE \E sr \in A : Gone(sr)
  <2> HIDE DEF M, A, shown, evidence
  <2>1. shown = NotAffected /\ evidence = NotAffected
    BY <1>4, <1>5, <1>6, <1>7, Zenon
  <2> QED
    BY <2>1 DEF shown, evidence, M
<1>8. CASE ~ \E sr \in A : Gone(sr)
  <2>1. \A row \in M : RowApplicability(row, v, v) =
                          IF row.vid = v THEN Affected ELSE RangeApplicability(row.range, v)
    BY <1>2 DEF RowApplicability
  <2>2. \A sr \in A : (Lists(sr, v) => Affected \in W) /\ (~ Lists(sr, v) => RangeSays(sr, v) \in W)
    OBVIOUS
  <2>3. \A x \in W : \E sr \in A : IF Lists(sr, v) THEN x = Affected ELSE x = RangeSays(sr, v)
    OBVIOUS
  <2>4. \A row \in M : /\ row.vid = v => Affected \in V
                       /\ row.vid # v => RangeApplicability(row.range, v) \in V
    BY <2>1
  <2>5. \A x \in V : \E row \in M : IF row.vid = v THEN x = Affected ELSE x = RangeApplicability(row.range, v)
    BY <2>1
  <2>6. \A row \in M : \E sr \in A : /\ RangeApplicability(row.range, v) = RangeSays(sr, v)
                                     /\ row.vid = v => Lists(sr, v) \/ RangeSays(sr, v) = Affected
    <3>1. \A row \in M : \A sr \in A : row.range = sr[2].range => RangeApplicability(row.range, v) = RangeSays(sr, v)
      BY DEF RangeSays
    <3> HIDE DEF M, A
    <3> QED
      BY <1>2, <3>1
  <2>7. \A sr \in A : /\ \E row \in M : RangeApplicability(row.range, v) = RangeSays(sr, v)
                      /\ Lists(sr, v) => RangeSays(sr, v) \in {Affected, Unknown}
    BY <1>3, <1>8
  <2> HIDE DEF M, A, V, W
  <2>8. Affected \in V => Affected \in W
    <3> SUFFICES ASSUME Affected \in V
                 PROVE  Affected \in W
      OBVIOUS
    <3>1. PICK row \in M : IF row.vid = v THEN TRUE ELSE Affected = RangeApplicability(row.range, v)
      BY <2>5
    <3>2. PICK sr \in A : /\ RangeApplicability(row.range, v) = RangeSays(sr, v)
                          /\ row.vid = v => Lists(sr, v) \/ RangeSays(sr, v) = Affected
      BY <2>6
    <3>3. Lists(sr, v) \/ RangeSays(sr, v) = Affected
      BY <3>1, <3>2
    <3> QED
      BY <2>2, <3>3
  <2>9. Unknown \in V => Affected \in W \/ Unknown \in W
    <3> SUFFICES ASSUME Unknown \in V
                 PROVE  Affected \in W \/ Unknown \in W
      OBVIOUS
    <3>1. PICK row \in M : IF row.vid = v THEN Unknown = Affected ELSE Unknown = RangeApplicability(row.range, v)
      BY <2>5
    <3>2. Unknown # Affected
      BY DEF Unknown, Affected
    <3>3. PICK sr \in A : RangeApplicability(row.range, v) = RangeSays(sr, v)
      BY <2>6
    <3>4. RangeSays(sr, v) = Unknown
      BY <3>1, <3>2, <3>3
    <3> QED
      BY <2>2, <3>4
  <2>10. ASSUME NEW x \in {Affected, Unknown}, x \in W
         PROVE  Affected \in V \/ Unknown \in V
    <3>1. PICK sr \in A : IF Lists(sr, v) THEN x = Affected ELSE x = RangeSays(sr, v)
      BY <2>3, <2>10
    <3>2. RangeSays(sr, v) \in {Affected, Unknown}
      BY <2>7, <2>10, <3>1
    <3>3. PICK row \in M : RangeApplicability(row.range, v) = RangeSays(sr, v)
      BY <2>7
    <3> QED
      BY <2>4, <3>2, <3>3
  <2>11. shown = Strongest(V) /\ evidence = Strongest(W)
    BY <1>4, <1>5, <1>6, <1>8, Zenon
  <2> HIDE DEF shown, evidence
  <2>12. shown = evidence \/ (shown = Unknown /\ evidence = Affected)
    BY <2>8, <2>9, <2>10, <2>11 DEF Strongest
  <2> QED
    BY <2>12 DEF shown, evidence, M
<1> QED
  BY <1>7, <1>8
-----------------------------------------------------------------------------
(* AdvisorySync: every step. *)

\* More indexed versions: the rows are of those that were indexed.
LEMMA RowsStoredStill ==
    ASSUME NEW rows, NEW from, NEW mix, NEW ids, NEW more, ids \subseteq more,
           RowsStored(rows, from, mix, ids)
    PROVE  RowsStored(rows, from, mix, more)
  BY DEF RowsStored

\* At first no row of a source is stored, only the legacy row.
LEMMA StoredInit == SecInit => StoredOk
<1> SUFFICES ASSUME SecInit PROVE StoredOk
  OBVIOUS
<1>1. stored = [c \in SecCrates |-> [s \in Sources |-> 0]] /\ matches = [c \in SecCrates |-> {LegacyRow}]
      /\ mixed = [c \in SecCrates |-> {}]
  BY DEF SecInit
<1>2. \A s \in Sources : RowsOfSource({LegacyRow}, s) = {}
  BY DEF RowsOfSource, LegacyRow
<1>3. \A c \in SecCrates : RowsStored({LegacyRow}, stored[c], mixed[c], indexed[c])
  BY <1>1, <1>2 DEF RowsStored
<1> QED
  BY <1>1, <1>3 DEF StoredOk

\* Only a transaction changes rows, and it stores the response it fetched.
LEMMA StoredStep == SecInv /\ StoredOk /\ [SecNext]_secVars => StoredOk'
<1> SUFFICES ASSUME SecInv, StoredOk, [SecNext]_secVars PROVE StoredOk'
  OBVIOUS
<1>1. ASSUME UNCHANGED <<matches, stored, mixed, indexed>> PROVE StoredOk'
  BY <1>1 DEF StoredOk
<1>2. ASSUME NEW c \in SecCrates, NEW v \in Versions, IndexVersion(c, v) PROVE StoredOk'
  <2>1. indexed' = [indexed EXCEPT ![c] = @ \cup {v}] /\ UNCHANGED <<matches, stored, mixed>>
    BY <1>2 DEF IndexVersion
  <2>2. \A d \in SecCrates : indexed[d] \subseteq indexed'[d]
    BY <2>1 DEF SecInv, MatchesOk
  <2>3. \A d \in SecCrates : RowsStored(matches[d], stored[d], mixed[d], indexed'[d])
    BY <2>2, RowsStoredStill DEF StoredOk
  <2> QED
    BY <2>1, <2>3 DEF StoredOk
<1>3. ASSUME NEW p \in Syncers, Commit(p) PROVE StoredOk'
  <2> DEFINE c == syncer[p].cur
             s == CurSource(p)
             k == syncer[p].got
             at == syncer[p].ids
             missed == syncer[p].missed
             rows == Replaced(matches[c], missed, s, k, at)
             mix == IF missed = {} THEN mixed[c] \ {s} ELSE mixed[c] \cup {s}
  <2>1. /\ syncer[p].pc = "commit" /\ UNCHANGED indexed
        /\ \/ /\ matches' = [matches EXCEPT ![c] = rows]
              /\ stored' = [stored EXCEPT ![c][s] = k]
              /\ mixed' = [mixed EXCEPT ![c] = mix]
           \/ UNCHANGED <<matches, stored, mixed>>
    BY <1>3 DEF Commit, StoredOk, SecInv, MatchesOk
  <2>2. /\ c \in SecCrates /\ s = SourceOrder[syncer[p].step] /\ s \in Sources /\ k \in DOMAIN History[s]
        /\ at \subseteq indexed[c]
    BY <2>1, StepsOfSync DEF SecInv, SyncOk, AtRest, CurSource
  <2> HIDE DEF c, s, k, at, missed, rows, mix
  <2>3. CASE UNCHANGED <<matches, stored, mixed>>
    BY <1>1, <2>1, <2>3
  <2>4. CASE /\ matches' = [matches EXCEPT ![c] = rows]
             /\ stored' = [stored EXCEPT ![c][s] = k]
             /\ mixed' = [mixed EXCEPT ![c] = mix]
    <3>1. DOMAIN stored[c] = Sources /\ indexed[c] \in SUBSET Versions
          /\ RowsStored(matches[c], stored[c], mixed[c], indexed[c])
      BY <2>2 DEF StoredOk, SecInv, MatchesOk
    <3>2. RowsStored(rows, [stored[c] EXCEPT ![s] = k], mix, indexed[c])
      BY <2>2, <3>1, ReplacedStored DEF rows, mix
    <3>3. /\ stored'[c] = [stored[c] EXCEPT ![s] = k] /\ DOMAIN stored' = SecCrates
          /\ \A d \in SecCrates : d # c => stored'[d] = stored[d]
      BY <2>2, <2>4 DEF StoredOk
    <3>4. /\ matches'[c] = rows
          /\ \A d \in SecCrates : d # c => matches'[d] = matches[d]
      BY <2>2, <2>4 DEF SecInv, MatchesOk
    <3>5. /\ mixed'[c] = mix /\ DOMAIN mixed' = SecCrates
          /\ \A d \in SecCrates : d # c => mixed'[d] = mixed[d]
      BY <2>2, <2>4 DEF StoredOk
    <3>6. \A d \in SecCrates : RowsStored(matches'[d], stored'[d], mixed'[d], indexed'[d])
      BY <2>1, <3>2, <3>3, <3>4, <3>5 DEF StoredOk
    <3>7. \A d \in SecCrates : DOMAIN stored'[d] = Sources
      BY <3>1, <3>3 DEF StoredOk
    <3> QED
      BY <3>3, <3>5, <3>6, <3>7 DEF StoredOk
  <2> QED
    BY <2>1, <2>3, <2>4
<1>4. CASE UNCHANGED secVars
  BY <1>1, <1>4 DEF secVars
<1> QED
  BY <1>1, <1>2, <1>3, <1>4
     DEF SecNext, CarryOn, Publish, GoStale, StartSync, Fetch, FetchFails, Clear, Stamp

\* ReportFaithful: as long as the sources do not contradict themselves, and once
\* no source of a crate was last replaced in overlap with another sync of it,
\* what a tool reports of a version is what the responses stored last say of it
\* (sync_osv_security, sync_ghsa_security, sync_rustsec_db_security,
\* advisories_for_version), for every history of the sources and order of syncs.
THEOREM ReportsFaithful == SourcesConsistent => (SecSpec => []ReportFaithful)
<1> SUFFICES ASSUME SourcesConsistent PROVE SecSpec => []ReportFaithful
  OBVIOUS
<1>1. SecInit => SecInv /\ StoredOk
  BY SecStarts, StoredInit
<1>2. SecInv /\ StoredOk /\ [SecNext]_secVars => (SecInv /\ StoredOk)'
  BY SecStep, StoredStep
<1>3. SecInv /\ StoredOk => ReportFaithful
  BY VerdictIs DEF ReportFaithful
<1> QED
  BY <1>1, <1>2, <1>3, PTL DEF SecSpec
=============================================================================
