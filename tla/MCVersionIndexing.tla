------------------------- MODULE MCVersionIndexing -------------------------
(* Instances of VersionIndexing. *)
EXTENDS VersionIndexing
OlderHasExactFile == [v \in Indexed |-> IF v = 1 THEN "exact" ELSE "none"]
TwoDocuments == [d \in DocPaths |-> IF d = DocsRs THEN {"i1", "i2"} ELSE {"i2", "i3"}]

\* The newer version is indexed by the worker and a call, or the worker alone
\* works through both, or a file changes under the worker.
Scenario ==
    \/ calls = 0 /\ dirs = {2} /\ enriched = {1} /\ edits = MaxEdits
    \/ calls = MaxCalls /\ dirs = {1, 2} /\ enriched = {} /\ edits = MaxEdits
    \/ calls = MaxCalls /\ dirs = {2} /\ enriched = {1} /\ edits = 0
MCInit == IndexInit /\ Scenario
MCSpec == MCInit /\ [][IndexNext]_indexVars /\ IndexFairness
=============================================================================
