-------------------------- MODULE MCCrateMetadata --------------------------
(* Instances of the two periodic syncs that keep crate metadata current. They *)
(* touch different tables and are explored side by side, one per behaviour.   *)
EXTENDS AdvisorySync, GithubSync

Osv(i, e) == [format |-> "osv",
              ranges |-> << [events |-> <<[kind |-> "introduced", at |-> i],
                                          [kind |-> "fixed", at |-> e]>>, limits |-> {}] >>]
OsvUpTo(i, l) == [format |-> "osv",
                  ranges |-> << [events |-> <<[kind |-> "introduced", at |-> i],
                                              [kind |-> "last_affected", at |-> l]>>, limits |-> {}] >>]
GhsaFrom(v) == [format |-> "ghsa", alternatives |-> {{[op |-> ">=", at |-> v]}}]
RustsecFixedIn(v) == [format |-> "rustsec_db", patched |-> {{[op |-> ">=", at |-> v]}}, unaffected |-> {}]
Withdrawal == [format |-> "withdrawn"]
Record(id, alias, range, listed) == [id |-> id, alias |-> alias, range |-> range, listed |-> listed]

\* An advisory that moves, and an alias of it that OSV drops and GitHub has
\* withdrawn; later one whose range OSV cannot read and GitHub can; RustSec has
\* a range of its own for the first.
ChangingAdvisories ==
    [s \in {"osv", "ghsa", "rustsec_db"} |->
        CASE s = "osv" -> << <<Record("R1", "none", Osv(0, 2), {0, 1}),
                              Record("G1", "R1", OsvUpTo(0, 1), {0, 1})>>,
                            <<Record("R1", "none", Osv(1, 2), {1}),
                              Record("G2", "none", [format |-> "unknown"], {1})>> >>
          [] s = "ghsa" -> << <<Record("G2", "none", GhsaFrom(1), {}),
                               Record("G1", "R1", Withdrawal, {})>> >>
          [] OTHER -> << <<Record("R1", "none", RustsecFixedIn(1), {})>> >>]

\* One repository that is gone, one URL that names none, one elsewhere.
MixedUrls == [c \in GitCrates |-> CASE c = 2 -> "gone" [] c = 3 -> "odd" [] c = 4 -> "none"
                                    [] OTHER -> "repo"]

ASSUME ConsistentHistory == SourcesConsistent

VARIABLE part
MetadataInit == SecInit /\ GitInit /\ part \in {"advisories", "github"}
MetadataNext ==
    /\ UNCHANGED part
    /\ \/ part = "advisories" /\ SecNext /\ UNCHANGED gitVars
       \/ part = "github" /\ GitNext /\ UNCHANGED secVars

\* The periodic tasks are tokio tasks that loop for ever, a job that started is
\* carried on, and time passes.
Advisories(A) == part = "advisories" /\ A
MetadataSpec ==
    /\ MetadataInit /\ [][MetadataNext]_<<secVars, gitVars, part>>
    /\ WF_secVars(Advisories(SecProgress))
    /\ \A p \in Syncers \ {"task"} : WF_secVars(Advisories(CarryOn(p)))
    /\ \A c \in SecCrates : WF_secVars(Advisories(GoStale(c)))
    /\ WF_gitVars(part = "github" /\ PassStep)

\* AdvisoriesSettle: once the sources stop changing, every crate ends up with the
\* rows of what they say, and no row awaits a re-sync, although a job and the
\* task overwrite each other's work and calls fail (run_security_sync).
AdvisoriesSettle == <>[](part = "advisories" => AdvisoriesCurrent)

\* GithubReaches: every crate whose repository answers gets its metadata, and the
\* details a pass failed to store are complete again after a later pass
\* (run_github_metadata_sync, sync_github_metadata).
GithubReaches == \A c \in GitCrates : []<>(part = "github" /\ Url[c] = "repo" => Complete(c))
=============================================================================
