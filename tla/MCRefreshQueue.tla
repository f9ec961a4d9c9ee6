--------------------------- MODULE MCRefreshQueue ---------------------------
(* Small instances of RefreshQueue for TLC; the cfg files give the bounds.  *)
EXTENDS RefreshQueue, TLC, FiniteSets

\* Tool calls are interchangeable.
ToolSymmetry == Permutations(Tools)

\* The requests under way and the rows they left: who asked, and for what.
Requests == {call[p] : p \in {q \in Clients : call[q].pc # "idle"}}
            \cup {jobs[j] : j \in Ids}
Only(triggers, scopes) ==
    \A r \in Requests :
        /\ r.trigger \in triggers \cup {"proactive_enrich"}
        /\ r.trigger = "on_demand" => r.scope \in scopes
OneCall == Cardinality({t \in Tools : call[t].pc # "idle"}) <= 1
NothingFailed == faults = 0 /\ crashes = 0

\* Bound: what is explored together.  Two calls for one scope race; one call
\* for a crate and a watcher share two rows while a database call fails or
\* the process restarts; and freshness checks alone have the whole table, for
\* the enrichment of a crate and what it meets there.
Explored ==
    \/ NothingFailed /\ Len(jobs) <= 2 /\ Only({"on_demand"}, {"rustdoc_json"})
    \/ OneCall /\ Len(jobs) <= 2 /\ faults + crashes <= 1
       /\ Only({"on_demand", "cache_watch"}, {"crate"})
    \/ NothingFailed /\ Only({"freshness"}, {})
=============================================================================
