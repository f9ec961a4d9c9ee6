---------------------------- MODULE AdvisorySync ----------------------------
(***************************************************************************)
(* Keeping the advisories of the indexed crates in step with their three   *)
(* sources (security.rs, security_sync.rs).                                *)
(*                                                                         *)
(* A syncer takes a snapshot of crates and, source by source, fetches what *)
(* the source says of each crate and replaces the crate's rows of that     *)
(* source: a DELETE and upserts in a READ COMMITTED transaction.  The      *)
(* periodic task selects crates that are due and stamps those all of whose *)
(* sources succeeded; the "job", a call of index_refresh or a job of scope *)
(* security, takes any crates and stamps none.  Both may run at once, and  *)
(* the DELETE of one does not see what the other commits after it.  Crate  *)
(* syncs add versions meanwhile, and tools derive from the rows what       *)
(* affects a version (AdvisoryRanges).                                     *)
(***************************************************************************)
EXTENDS AdvisoryRanges, Functions

CONSTANTS
    SecCrates,       \* indexed crates
    History,         \* History[s]: what source s says over time, a sequence of
                     \* responses; a response is a sequence of records
    RustsecIds,      \* the IDs that start with RUSTSEC-
    HasRustsecDb,    \* RUSTSEC_DB_DIR is configured
    Syncers,         \* subset of {"task", "job"}
    MaxSecFaults     \* bound: failing calls

\* The order of sync_security_crates; the last only when it is configured.
SourceOrder == IF HasRustsecDb THEN <<"osv", "ghsa", "rustsec_db">> ELSE <<"osv", "ghsa">>
Sources == Range(SourceOrder)

NoCrate == "none"

ASSUME AdvisoryAssumption ==
    /\ HasRustsecDb \in BOOLEAN
    /\ Syncers \subseteq {"task", "job"}
    /\ MaxSecFaults \in Nat
    /\ NoCrate \notin SecCrates
    /\ \A s \in Sources :
          /\ Len(History[s]) \in Nat \ {0} /\ DOMAIN History[s] = 1..Len(History[s])
          /\ \A k \in DOMAIN History[s] :
                /\ Len(History[s][k]) \in Nat
                /\ DOMAIN History[s][k] = 1..Len(History[s][k])

VARIABLES
    said,       \* said[c][s]: how far source s is in its history for crate c
    matches,    \* advisory_matches of each crate
    indexed,    \* the versions of each crate in the database
    checked,    \* security_checked_at: "never", "recent" or "stale"
    syncer,     \* the running syncs
    stored,     \* stored[c][s]: the point of the history committed last
    mixed,      \* history: the sources of a crate last replaced in overlap
    secFaults   \* calls that failed so far

secVars == <<said, matches, indexed, checked, syncer, stored, mixed, secFaults>>

NoVersion == -3          \* version_id IS NULL

\* A legacy row an older release stored, flagged by a migration.
LegacyRow == [id |-> "legacy", source |-> "osv", vid |-> NoVersion,
              range |-> [format |-> "unknown"], resync |-> TRUE]

IdleSync == [pc |-> "idle", crates |-> {}, step |-> 1, left |-> {}, cur |-> NoCrate,
             got |-> 0, ids |-> {}, missed |-> {}, ok |-> {}]

SecInit ==
    /\ said = [c \in SecCrates |-> [s \in Sources |-> 1]]
    /\ matches = [c \in SecCrates |-> {LegacyRow}]
    /\ indexed = [c \in SecCrates |-> {0}]
    /\ checked = [c \in SecCrates |-> "never"]
    /\ syncer = [p \in Syncers |-> IdleSync]
    /\ stored = [c \in SecCrates |-> [s \in Sources |-> 0]]
    /\ mixed = [c \in SecCrates |-> {}]
    /\ secFaults = 0

SecFault == secFaults < MaxSecFaults /\ secFaults' = secFaults + 1

-----------------------------------------------------------------------------
(* The rows a response turns into.                                          *)

\* advisory_identity: aliases share affected evidence, not withdrawals.
Identity(r) ==
    IF r.id \in RustsecIds THEN <<r.id, "rustsec_osv">>
    ELSE IF r.range.format # "withdrawn" /\ r.alias \in RustsecIds
    THEN <<r.alias, "rustsec_osv">>
    ELSE <<r.id, "osv">>

\* The indexed versions a record names: OSV lists them, the others give ranges.
MatchedVersions(s, r, ids) ==
    IF r.range.format = "withdrawn" THEN {}
    ELSE IF s = "osv" THEN r.listed \cap ids
    ELSE {v \in ids : RangeApplicability(r.range, v) = Affected}

\* Mutant: a record that matches no indexed version is dropped.
RowsOfMatchedOnly(s, r, ids) ==
    {[id |-> IF s = "osv" THEN Identity(r)[1] ELSE r.id,
      source |-> IF s = "osv" THEN Identity(r)[2] ELSE s,
      vid |-> v, range |-> r.range, resync |-> FALSE] : v \in MatchedVersions(s, r, ids)}

\* One row per matched version, or a crate-level row when there is none.
RowsOf(s, r, ids) ==
    LET vids == MatchedVersions(s, r, ids)
    IN  {[id |-> IF s = "osv" THEN Identity(r)[1] ELSE r.id,
          source |-> IF s = "osv" THEN Identity(r)[2] ELSE s,
          vid |-> v, range |-> r.range, resync |-> FALSE]
          : v \in IF vids = {} THEN {NoVersion} ELSE vids}

SameKey(a, b) == a.id = b.id /\ a.source = b.source /\ a.vid = b.vid

\* Mutant: a row is inserted although its key is there.
UpdatesNone(row, new) == FALSE

\* INSERT ... ON CONFLICT (crate_id, version_id, advisory_id, source) DO UPDATE.
Updates(row, new) == \E b \in new : SameKey(row, b)

\* clear_*_advisory_matches.
ClearedSources(s) == IF s = "osv" THEN {"osv", "rustsec_osv"} ELSE {s}

\* The rows of record i of a response of source s that no later record updates,
\* when the versions ids are indexed.
RecordRows(s, response, i, ids) ==
    {row \in RowsOf(s, response[i], ids) :
        \A j \in DOMAIN response : j > i => ~ Updates(row, RowsOf(s, response[j], ids))}

\* The rows of response k of source s, upserted record by record.
ResponseRows ==
    [s \in Sources |-> [k \in DOMAIN History[s] |-> [ids \in SUBSET Versions |->
        UNION {RecordRows(s, History[s][k], i, ids) : i \in DOMAIN History[s][k]}]]]

\* The transaction of one crate and source: the rows its DELETE saw are gone,
\* those it missed stay unless an upsert hits their key.
Replaced(rows, missed, s, k, ids) ==
    LET new == ResponseRows[s][k][ids]
    IN  {row \in rows : row.source \notin ClearedSources(s)}
        \cup {row \in rows \cap missed : ~ Updates(row, new)} \cup new

-----------------------------------------------------------------------------
(* The world around the syncers.                                            *)

\* A source publishes, changes or withdraws advisories of a crate.
Publish(c, s) ==
    /\ said[c][s] < Len(History[s])
    /\ said' = [said EXCEPT ![c][s] = @ + 1]
    /\ UNCHANGED <<matches, indexed, checked, syncer, stored, mixed, secFaults>>

\* A crate sync indexes another version (persist_crate_sync).
IndexVersion(c, v) ==
    /\ v \notin indexed[c]
    /\ indexed' = [indexed EXCEPT ![c] = @ \cup {v}]
    /\ UNCHANGED <<said, matches, checked, syncer, stored, mixed, secFaults>>

\* SECURITY_SYNC_INTERVAL_SECS have passed since the stamp.
GoStale(c) ==
    /\ checked[c] = "recent"
    /\ checked' = [checked EXCEPT ![c] = "stale"]
    /\ UNCHANGED <<said, matches, indexed, syncer, stored, mixed, secFaults>>

-----------------------------------------------------------------------------
(* The syncers.                                                             *)

\* Mutant: only crates that were never checked are selected.
DueOnce(c) == checked[c] = "never"

\* fetch_security_crates_page with a staleness threshold.
Due(c) == checked[c] # "recent" \/ \E row \in matches[c] : row.resync

\* The task snapshots what is due before it stamps anything; a job takes a page.
StartSync(p) ==
    /\ syncer[p].pc = "idle"
    /\ \E C \in SUBSET SecCrates :
          /\ C # {}
          /\ p = "task" => C = {c \in SecCrates : Due(c)}
          /\ syncer' = [syncer EXCEPT ![p] = [IdleSync EXCEPT !.pc = "fetch", !.crates = C,
                                                              !.left = C, !.ok = C]]
    /\ UNCHANGED <<said, matches, indexed, checked, stored, mixed, secFaults>>

\* After the last crate of a source the next source starts with all crates.
Continue(y) ==
    LET z == [y EXCEPT !.cur = NoCrate, !.got = 0, !.ids = {}, !.missed = {}]
    IN  IF y.left # {} THEN [z EXCEPT !.pc = "fetch"]
        ELSE IF y.step < Len(SourceOrder)
        THEN [z EXCEPT !.pc = "fetch", !.step = @ + 1, !.left = y.crates]
        ELSE [z EXCEPT !.pc = "stamp"]

CurSource(p) == SourceOrder[syncer[p].step]

\* The source answers for c, or the advisory files of c are read; the indexed
\* versions are read with it, outside the transaction ...
Fetch(p, c) ==
    /\ syncer[p].pc = "fetch" /\ c \in syncer[p].left
    /\ LET y == [syncer[p] EXCEPT !.pc = "clear", !.cur = c, !.left = @ \ {c},
                                  !.got = said[c][CurSource(p)], !.ids = indexed[c]]
       IN  syncer' = [syncer EXCEPT ![p] = y]
    /\ UNCHANGED <<said, matches, indexed, checked, stored, mixed, secFaults>>

\* ... or not: the crate keeps its rows and is not checked, the others go on.
FetchFails(p, c) ==
    /\ syncer[p].pc = "fetch" /\ c \in syncer[p].left
    /\ SecFault
    /\ LET y == [syncer[p] EXCEPT !.left = @ \ {c}, !.ok = @ \ {c}]
       IN  syncer' = [syncer EXCEPT ![p] = Continue(y)]
    /\ UNCHANGED <<said, matches, indexed, checked, stored, mixed>>

\* The DELETE sees the rows committed so far.  Deleted rows stay locked, but
\* rows inserted later are no concern of it.
Clear(p) ==
    /\ syncer[p].pc = "clear"
    /\ syncer' = [syncer EXCEPT ![p].pc = "commit"]
    /\ UNCHANGED <<said, matches, indexed, checked, stored, mixed, secFaults>>

\* Another DELETE of the same rows, done before this commit, missed what the
\* commit inserts.
Missing(p, y) ==
    IF y.pc = "commit" /\ y.cur = syncer[p].cur /\ SourceOrder[y.step] = CurSource(p)
    THEN [y EXCEPT !.missed = @ \cup ResponseRows[CurSource(p)][syncer[p].got][syncer[p].ids]]
    ELSE y

\* The upserts and the commit, then the query cache invalidation; an error
\* before or after the commit ends this source for the whole snapshot, and no
\* crate is checked.
Commit(p) ==
    LET y == syncer[p]
        c == y.cur
        s == CurSource(p)
        ended(z) == syncer' = [q \in Syncers |-> IF q = p THEN z ELSE syncer[q]]
        done(z) ==
            /\ matches' = [matches EXCEPT ![c] = Replaced(@, y.missed, s, y.got, y.ids)]
            /\ stored' = [stored EXCEPT ![c][s] = y.got]
            /\ mixed' = [mixed EXCEPT ![c] = IF y.missed = {} THEN @ \ {s} ELSE @ \cup {s}]
            /\ syncer' = [q \in Syncers |-> IF q = p THEN z ELSE Missing(p, syncer[q])]
        aborted == Continue([y EXCEPT !.left = {}, !.ok = {}])
    IN  /\ y.pc = "commit"
        /\ \/ done(Continue(y)) /\ UNCHANGED secFaults
           \/ SecFault /\ done(aborted)
           \/ SecFault /\ ended(aborted) /\ UNCHANGED <<matches, stored, mixed>>
        /\ UNCHANGED <<said, indexed, checked>>

\* The task stamps the crates every source succeeded for, as far as it can.
Stamp(p) ==
    /\ syncer[p].pc = "stamp"
    /\ syncer' = [syncer EXCEPT ![p] = IdleSync]
    /\ \E C \in SUBSET syncer[p].ok :
          /\ \/ C = syncer[p].ok /\ UNCHANGED secFaults
             \/ C # syncer[p].ok /\ SecFault
          /\ checked' = [c \in SecCrates |-> IF p = "task" /\ c \in C THEN "recent" ELSE checked[c]]
    /\ UNCHANGED <<said, matches, indexed, stored, mixed>>

\* A sync that runs goes on.
CarryOn(p) ==
    \/ Clear(p) \/ Commit(p) \/ Stamp(p)
    \/ \E c \in SecCrates : Fetch(p, c) \/ FetchFails(p, c)

SecNext ==
    \/ \E c \in SecCrates, s \in Sources : Publish(c, s)
    \/ \E c \in SecCrates, v \in Versions : IndexVersion(c, v)
    \/ \E c \in SecCrates : GoStale(c)
    \/ \E p \in Syncers : StartSync(p) \/ CarryOn(p)

SecSpec == SecInit /\ [][SecNext]_secVars

\* The loop of the periodic task (run_security_sync).
SecProgress == StartSync("task") \/ CarryOn("task")

-----------------------------------------------------------------------------
(* Properties.                                                              *)

\* SecTypeOK: rows come from known sources, at most one per key, and belong to
\* indexed versions; a syncer works through its own snapshot.
SecTypeOK ==
    /\ \A c \in SecCrates :
          /\ \A a, b \in matches[c] : SameKey(a, b) => a = b
          /\ \A row \in matches[c] : row.vid \in indexed[c] \cup {NoVersion}
          /\ checked[c] \in {"never", "recent", "stale"}
    /\ \A p \in Syncers : LET y == syncer[p] IN
          /\ y.pc \in {"idle", "fetch", "clear", "commit", "stamp"}
          /\ y.step \in DOMAIN SourceOrder
          /\ y.ok \subseteq y.crates /\ y.left \subseteq y.crates
          /\ (y.pc \in {"clear", "commit"}) <=> (y.cur # NoCrate)

\* What the stored responses say of advisory id and version v of c, without
\* looking at rows: a record of that ID withdraws it, or the strongest verdict
\* of its records counts.
StoredRecords(c) ==
    UNION {{<<s, r>> : r \in IF stored[c][s] = 0 THEN {} ELSE Range(History[s][stored[c][s]])}
           : s \in Sources}
IdOf(sr) == IF sr[1] = "osv" THEN Identity(sr[2])[1] ELSE sr[2].id
Evidence(c, id, v) ==
    LET about == {sr \in StoredRecords(c) : IdOf(sr) = id}
    IN  IF \E sr \in about : sr[2].range.format = "withdrawn" THEN NotAffected
        ELSE Strongest({IF sr[1] = "osv" /\ v \in sr[2].listed THEN Affected
                        ELSE RangeApplicability(sr[2].range, v) : sr \in about})

\* SourcesConsistent: of one response, the records of an advisory agree on what
\* its ranges say (an alias is copied), and a version OSV lists is never outside
\* the ranges of the record that lists it.
SourcesConsistent ==
    \A s \in Sources : \A k \in DOMAIN History[s] :
        LET response == History[s][k]
        IN  \A i \in DOMAIN response :
               /\ \A j \in DOMAIN response :
                     IdOf(<<s, response[i]>>) = IdOf(<<s, response[j]>>) =>
                         /\ (response[i].range.format = "withdrawn") <=> (response[j].range.format = "withdrawn")
                         /\ \A v \in Versions : RangeApplicability(response[i].range, v)
                                                  = RangeApplicability(response[j].range, v)
               /\ s = "osv" /\ response[i].range.format # "withdrawn" =>
                     \A v \in response[i].listed \cap Versions :
                         RangeApplicability(response[i].range, v) \in {Affected, Unknown}

\* ReportFaithful: after a replacement no other one overlapped, whatever rows
\* earlier overlaps left behind, what a tool reports of a version is what the
\* responses stored last say of it, also for versions indexed after the sync; a
\* listed version that was not indexed then may be reported as unknown at worst
\* (sync_osv_security, sync_ghsa_security, sync_rustsec_db_security,
\* advisories_for_version).
ReportFaithful ==
    \A c \in SecCrates : mixed[c] = {} => \A v \in indexed[c] :
        \A id \in {row.id : row \in matches[c]} \cup {IdOf(sr) : sr \in StoredRecords(c)} :
            LET shown == AdvisoryVerdict({row \in matches[c] : row.id = id}, v, v)
                evidence == Evidence(c, id, v)
            IN  id # "legacy" => \/ shown = evidence
                                 \/ shown = Unknown /\ evidence = Affected

\* Every crate has the rows of what the sources say now and no other rows, none
\* of an older response and none that awaits a re-sync.
AdvisoriesCurrent ==
    \A c \in SecCrates :
        /\ stored[c] = said[c]
        /\ \A row \in matches[c] : \E s \in Sources : \E ids \in SUBSET indexed[c] :
              row \in ResponseRows[s][said[c][s]][ids]
=============================================================================
