----------------------------- MODULE CrateGraph -----------------------------
(***************************************************************************)
(* The traversals of the tools: the feature graph of crate_features and    *)
(* dependency_feature_impact, the dependency graph of crate_graph with its *)
(* cycle note, and the crawl of the docs.rs pages of a version.  Each run  *)
(* starts from any small graph, with cycles and self loops, and one step   *)
(* takes one element off the work list.                                    *)
(***************************************************************************)
EXTENDS Integers, Sequences, FiniteSets, FiniteSetsExt, SequencesExt

CONSTANTS
    MaxNode,      \* features, or crates, of a graph
    MaxDepth,     \* levels crate_graph descends
    MaxPage,      \* docs pages of a version
    CrawlCap      \* DOCS_DISCOVERY_MAX_PAGES

ASSUME GraphBounds ==
    MaxNode \in Nat \ {0} /\ MaxDepth \in Nat \ {0} /\ {MaxPage, CrawlCap} \subseteq Nat \ {0, 1}

Nodes == 1..MaxNode
Below(edges, n) == {m \in Nodes : <<n, m>> \in edges}

VARIABLE trav
travVars == <<trav>>
-----------------------------------------------------------------------------
(* Features.  A feature may enable a dependency of its own number; optional *)
(* dependencies are the ones the crate does not already have.               *)

\* transitive_feature_enables starts below the feature, expand_feature_dependencies at it.
FeatureRoots(tool, edges, root) ==
    IF tool = "crate_features" THEN Below(edges, root) ELSE {root}

BeginFeatures ==
    \E edges \in SUBSET (Nodes \X Nodes), deps, optional \in SUBSET Nodes,
       tool \in {"crate_features", "dependency_feature_impact"} :
        /\ tool = "crate_features" => deps = {} /\ optional = {}
        /\ trav = [tool |-> tool, edges |-> edges, deps |-> deps, optional |-> optional,
                   queue |-> SetToSeq(FeatureRoots(tool, edges, 1)),
                   seen |-> {}, extras |-> {}, done |-> FALSE]

\* Mutant: a feature seen before is taken for the end of the work.
ExpandFeatureStops ==
    LET f == Head(trav.queue) IN
    /\ trav.tool \in {"crate_features", "dependency_feature_impact"}
    /\ ~ trav.done
    /\ trav.queue # <<>>
    /\ trav' = IF f \in trav.seen THEN [trav EXCEPT !.done = TRUE]
               ELSE [trav EXCEPT !.queue = Tail(@) \o SetToSeq(Below(trav.edges, f) \ ({f} \cup trav.seen)),
                                 !.seen = @ \cup {f},
                                 !.extras = @ \cup ({f} \cap trav.deps \cap trav.optional)]

\* One turn of the while loop: a feature seen before is passed over, another is
\* followed to the features it enables; what it enables of the optional
\* dependencies is what the impact of the feature adds.
ExpandFeature ==
    LET f == Head(trav.queue) IN
    /\ trav.tool \in {"crate_features", "dependency_feature_impact"}
    /\ ~ trav.done
    /\ trav.queue # <<>>
    /\ trav' = IF f \in trav.seen THEN [trav EXCEPT !.queue = Tail(@)]
               ELSE [trav EXCEPT !.queue = Tail(@) \o SetToSeq(Below(trav.edges, f) \ ({f} \cup trav.seen)),
                                 !.seen = @ \cup {f},
                                 !.extras = @ \cup ({f} \cap trav.deps \cap trav.optional)]

FeaturesDone ==
    /\ trav.tool \in {"crate_features", "dependency_feature_impact"}
    /\ ~ trav.done /\ trav.queue = <<>>
    /\ trav' = [trav EXCEPT !.done = TRUE]
-----------------------------------------------------------------------------
(* crate_graph.  Crate 1 is the root; version 0 is an older version of it,   *)
(* version n the latest of crate n.  Edges go from a version to a crate.     *)
CrateOf(v) == IF v = 0 THEN 1 ELSE v

BeginGraph ==
    \E edges \in SUBSET ((0..MaxNode) \X Nodes), selected \in {0, 1}, depth \in 1..MaxDepth,
       direction \in {"dependencies", "dependents", "both"} :
        trav = [tool |-> "crate_graph", edges |-> edges, selected |-> selected,
                direction |-> direction, depth |-> depth,
                phase |-> IF direction = "dependents" THEN "dependents" ELSE "dependencies",
                level |-> 1, frontier |-> {IF direction = "dependents" THEN 1 ELSE selected},
                dist |-> [n \in {1} |-> 0], slice |-> {}, done |-> FALSE]

\* entry().and_modify(min).or_insert
Nearer(dist, ns, d) ==
    [n \in DOMAIN dist \cup ns |-> IF n \notin ns THEN dist[n]
                                  ELSE IF n \in DOMAIN dist THEN Min({dist[n], d}) ELSE d]

\* The rows of one level: each gives both its crates a distance and the answer an edge.
Recorded(t, rows, nears, fars) ==
    [t EXCEPT !.dist = Nearer(Nearer(@, nears, t.level - 1), fars, t.level),
              !.slice = @ \cup {<<CrateOf(r[1]), r[2], t.level>> : r \in rows},
              !.frontier = fars,
              !.level = @ + 1]

\* One level down: the rows of the versions of the frontier, then the latest
\* versions of the crates they lead to.
DependencyLevel ==
    /\ trav.tool = "crate_graph" /\ ~ trav.done /\ trav.phase = "dependencies"
    /\ trav.level <= trav.depth /\ trav.frontier # {}
    /\ LET rows == {e \in trav.edges : e[1] \in trav.frontier}
       IN  trav' = Recorded(trav, rows, {CrateOf(r[1]) : r \in rows}, {r[2] : r \in rows})

\* One level up: the rows of all versions that depend on a crate of the frontier.
DependentLevel ==
    /\ trav.tool = "crate_graph" /\ ~ trav.done /\ trav.phase = "dependents"
    /\ trav.level <= trav.depth /\ trav.frontier # {}
    /\ LET rows == {e \in trav.edges : e[2] \in trav.frontier}
       IN  trav' = Recorded(trav, rows, {r[2] : r \in rows}, {CrateOf(r[1]) : r \in rows})

\* The second traversal starts again at the root; after the last the edges of
\* the answer are searched for a cycle.
LevelsDone ==
    /\ trav.tool = "crate_graph" /\ ~ trav.done
    /\ trav.level > trav.depth \/ trav.frontier = {}
    /\ trav' = IF trav.phase = "dependencies" /\ trav.direction = "both"
               THEN [trav EXCEPT !.phase = "dependents", !.level = 1, !.frontier = {1}]
               ELSE [trav EXCEPT !.done = TRUE]
-----------------------------------------------------------------------------
(* detect_cycle_presence: a depth first search with three colours.  The      *)
(* neighbours of a node are a hash set and come in any order.                *)
BeginCycles ==
    \E edges \in SUBSET (Nodes \X Nodes) :
        trav = [tool |-> "cycles", edges |-> edges, gray |-> <<>>,
                left |-> [n \in Nodes |-> Below(edges, n)], black |-> {},
                found |-> FALSE, done |-> FALSE]

\* A white key of the map is visited from outside.
VisitRoot ==
    /\ trav.tool = "cycles" /\ ~ trav.done /\ trav.gray = <<>>
    /\ \E n \in Nodes \ trav.black :
          /\ Below(trav.edges, n) # {}
          /\ trav' = [trav EXCEPT !.gray = <<n>>]

\* The next neighbour of the node on top: gray ends the search, black is
\* passed over, white is visited.
VisitNeighbor ==
    LET n == Last(trav.gray) IN
    /\ trav.tool = "cycles" /\ ~ trav.done /\ trav.gray # <<>>
    /\ \E m \in trav.left[n] :
          trav' = IF m \in ToSet(trav.gray) THEN [trav EXCEPT !.found = TRUE, !.done = TRUE]
                  ELSE IF m \in trav.black THEN [trav EXCEPT !.left[n] = @ \ {m}]
                  ELSE [trav EXCEPT !.left[n] = @ \ {m}, !.gray = Append(@, m)]

Blacken ==
    LET n == Last(trav.gray) IN
    /\ trav.tool = "cycles" /\ ~ trav.done /\ trav.gray # <<>> /\ trav.left[n] = {}
    /\ trav' = [trav EXCEPT !.black = @ \cup {n}, !.gray = Front(@)]

CyclesDone ==
    /\ trav.tool = "cycles" /\ ~ trav.done /\ trav.gray = <<>>
    /\ \A n \in Nodes \ trav.black : Below(trav.edges, n) = {}
    /\ trav' = [trav EXCEPT !.done = TRUE]
-----------------------------------------------------------------------------
(* sync_docs_pages.  Pages 1 and 2 are the module root and its index.html,   *)
(* which docs.rs answers alike; pages link to the others.                    *)
DocsPages == 1..MaxPage
PageLinks(links, p) == {q \in DocsPages : <<IF p = 2 THEN 1 ELSE p, q>> \in links}

BeginCrawl ==
    \E links \in SUBSET ((DocsPages \ {2}) \X (DocsPages \ {1, 2})) :
        trav = [tool |-> "docs", links |-> links, queue |-> <<1, 2>>, pending |-> {1, 2},
                seen |-> {}, fetched |-> {}, aborted |-> FALSE, done |-> FALSE]

\* The links not seen and not waiting, in the order of the page, until the cap.
Discovered(t, p) ==
    LET fresh == PageLinks(t.links, p) \ (t.seen \cup t.pending \cup {p})
        room == CrawlCap - Cardinality(t.seen \cup {p}) - Cardinality(t.pending \ {p})
    IN  SubSeq(SetToSeq(fresh), 1, Min({Cardinality(fresh), Max({room, 0})}))

CrawlPage ==
    LET p == Head(trav.queue)
        found == Discovered(trav, p)
    IN
    /\ trav.tool = "docs" /\ ~ trav.done /\ trav.queue # <<>>
    /\ trav' = [trav EXCEPT !.queue = Tail(@) \o found,
                            !.pending = (@ \ {p}) \cup ToSet(found),
                            !.seen = @ \cup {p}, !.fetched = @ \cup {p}]

\* A page that cannot be fetched is counted as seen and its links are not known.
CrawlPageFails ==
    LET p == Head(trav.queue) IN
    /\ trav.tool = "docs" /\ ~ trav.done /\ trav.queue # <<>>
    /\ trav' = [trav EXCEPT !.queue = Tail(@), !.pending = @ \ {p}, !.seen = @ \cup {p}]

\* A page that cannot be stored ends the whole sync.
CrawlAborts ==
    /\ trav.tool = "docs" /\ ~ trav.done /\ trav.queue # <<>>
    /\ trav' = [trav EXCEPT !.aborted = TRUE, !.done = TRUE]

CrawlDone ==
    /\ trav.tool = "docs" /\ ~ trav.done /\ trav.queue = <<>>
    /\ trav' = [trav EXCEPT !.done = TRUE]

GraphInit == BeginFeatures \/ BeginGraph \/ BeginCycles \/ BeginCrawl
GraphNext ==
    \/ ExpandFeature \/ FeaturesDone
    \/ DependencyLevel \/ DependentLevel \/ LevelsDone
    \/ VisitRoot \/ VisitNeighbor \/ Blacken \/ CyclesDone
    \/ CrawlPage \/ CrawlPageFails \/ CrawlAborts \/ CrawlDone

GraphSpec == GraphInit /\ [][GraphNext]_travVars
-----------------------------------------------------------------------------
(* Properties. *)
\* The nodes that some chain of edges leads to from n: the least set that holds
\* what is below n and what is below its members.
Reachable(edges, n) ==
    {m \in Nodes : \A S \in SUBSET Nodes :
         (Below(edges, n) \subseteq S /\ \A k \in S : Below(edges, k) \subseteq S) => m \in S}

\* p is a walk down from version v, through latest versions.
WalkDown(edges, v, p) ==
    \A i \in DOMAIN p : <<IF i = 1 THEN v ELSE p[i - 1], p[i]>> \in edges
WalkUp(edges, p) ==
    \A i \in DOMAIN p : \E e \in edges : CrateOf(e[1]) = p[i] /\ e[2] = IF i = 1 THEN 1 ELSE p[i - 1]

\* The crates d levels from the root, in the directions asked for.
AtLevel(t, d) ==
    IF d = 0 THEN {1}
    ELSE {p[d] : p \in {q \in [1..d -> Nodes] :
              \/ t.direction # "dependents" /\ WalkDown(t.edges, t.selected, q)
              \/ t.direction # "dependencies" /\ WalkUp(t.edges, q)}}

\* A feature is reported to enable exactly the features some chain of enables
\* leads to, and to add exactly the optional dependencies of these and itself:
\* neither a cycle nor two ways to a feature ends the search early or repeats it.
FeaturesExact ==
    LET below == Reachable(trav.edges, 1)
    IN  IF trav.tool = "crate_features" THEN trav.seen = below
        ELSE trav.extras = ({1} \cup below) \cap trav.deps \cap trav.optional

\* Every crate of the answer stands at the length of a shortest chain of
\* dependencies from the root, none within the depth is missing, and each edge
\* hangs from a crate one level nearer.
DistancesExact ==
    /\ DOMAIN trav.dist = UNION {AtLevel(trav, d) : d \in 0..trav.depth}
    /\ \A n \in DOMAIN trav.dist : trav.dist[n] = Min({d \in 0..trav.depth : n \in AtLevel(trav, d)})
    /\ \A e \in trav.slice : {e[1], e[2]} \subseteq DOMAIN trav.dist

\* The note on cycles is true of the edges, whatever the order of the search.
CycleNoteTrue ==
    trav.found <=> \E n \in Nodes : n \in Reachable(trav.edges, n)

\* The crawl fetches a page once and at most CrawlCap pages, and below the cap
\* leaves out none that a fetched page links to.
CrawlComplete ==
    \/ trav.aborted
    \/ Cardinality(trav.seen) = CrawlCap
    \/ \A p \in trav.fetched : PageLinks(trav.links, p) \subseteq trav.seen

\* GraphSound: a traversal that ends has ended with exactly what the graph has: the
\* features a feature turns on (expand_feature_dependencies), the crates within
\* the depth at their shortest distance (handle_crate_graph), a cycle note if and
\* only if there is a cycle, and the docs pages below the cap.
GraphSound ==
    /\ trav.tool = "docs" => Cardinality(trav.seen \cup trav.pending) <= CrawlCap
    /\ trav.done => CASE trav.tool = "crate_graph" -> DistancesExact
                      [] trav.tool = "cycles" -> CycleNoteTrue
                      [] trav.tool = "docs" -> CrawlComplete
                      [] OTHER -> FeaturesExact
=============================================================================
