-------------------------- MODULE DependencyAdvice --------------------------
(***************************************************************************)
(* dependency_resolve, the two compatibility tools built on it,            *)
(* dependency_audit and crate_compare.  What is asked for is merged by     *)
(* crate name, each crate gets one indexed version, and the indexed        *)
(* dependency edges of these versions are held against each other.         *)
(*                                                                         *)
(* A version is its rank in semver order, a requirement the set of the     *)
(* versions it matches; no requirement is {}, the requirement r is {r}.    *)
(***************************************************************************)
EXTENDS Integers, Sequences, FiniteSets, FiniteSetsExt, SequencesExt

CONSTANTS
    MaxCrate,       \* crates, 1 and 2 are those a compatibility tool is asked about
    MaxRank,        \* versions of a crate
    Indexes,        \* what may be indexed: the versions of each crate, newest published first
    EdgeSets,       \* the dependency edges of these versions
    Inputs,         \* the entries of a resolve request
    Manifests,      \* the requirements of an audited manifest
    FactTables,     \* what is known of each version
    Sides,          \* the crates compared
    ResolveLimit,   \* dependencies evaluated by one call
    GivenVersions,  \* the lists of versions a matrix request may give for a crate
    VersionLimits,  \* values of version_limit, for a crate without such a list
    PairLimits      \* values of max_pairs

Crates == 1..MaxCrate
Ranks == 1..MaxRank
Pair == {1, 2}
Versioned == Crates \X Ranks
Requirement == {{}} \cup {{r} : r \in SUBSET Ranks}

\* A version may depend on a crate more than once, say to build and to run.
EdgeRow == [from : Versioned, to : Crates, kind : {"normal", "build"}, req : SUBSET Ranks]
Source == {"explicit", "cargo_toml", "addition"}

\* The facts about a version: yanked, an advisory affects it, an advisory may
\* affect it, its MSRV is above the package's.
Facts == {"yanked", "advisory", "unknown advisory", "msrv"}

\* A crate that others depend on may be known by its name alone.
ASSUME AdviceBounds ==
    /\ MaxCrate \in Nat /\ MaxRank \in Nat /\ ResolveLimit \in Nat
    /\ PairLimits \subseteq Nat /\ VersionLimits \subseteq Nat
    /\ \A list \in GivenVersions : list \in Seq(Ranks)
    /\ \A index \in Indexes : /\ DOMAIN index \subseteq Crates
                              /\ \A n \in DOMAIN index : index[n] \in Seq(Ranks)
    /\ \A edges \in EdgeSets : edges \subseteq EdgeRow /\ IsFiniteSet(edges)
    /\ \A entries \in Inputs : entries \in Seq([name : Crates, req : Requirement, source : Source])
    /\ \A wanted \in Manifests : DOMAIN wanted \subseteq Crates /\ \A n \in DOMAIN wanted : wanted[n] \in Requirement
    /\ FactTables \subseteq [Versioned -> SUBSET Facts]
    /\ Sides \subseteq [signals : Int, affected : Nat, unknown : Nat, yanked : BOOLEAN]

VARIABLE advice
adviceVars == <<advice>>

\* An edge is between crates that have a row.
Related(edges, index) == \A e \in edges : {e.from[1], e.to} \subseteq DOMAIN index

\* f with a value of n, which it may have had.
With(f, n, x) == [m \in DOMAIN f \cup {n} |-> IF m = n THEN x ELSE f[m]]
-----------------------------------------------------------------------------
(* dependency_resolve. *)
BeginResolve ==
    \E index \in Indexes, edges \in EdgeSets, entries \in Inputs :
        /\ entries # <<>> /\ Related(edges, index)
        /\ advice = [tool |-> "dependency_resolve", pc |-> "merge", index |-> index, edges |-> edges,
                     entries |-> entries, merged |-> 0, wanted |-> <<>>, todo |-> {},
                     selected |-> <<>>, conflicts |-> {}]

\* normalize_inputs keeps one entry per crate: the first with a requirement,
\* unless an addition with a requirement comes later.  parse_manifest, whose
\* entries are no additions, merges the sections of a manifest in the same way.
Overrides(new, old) == new.req # {} /\ (new.source = "addition" \/ old = {})

MergeEntry ==
    /\ advice.tool = "dependency_resolve" /\ advice.pc = "merge"
    /\ advice.merged < Len(advice.entries)
    /\ LET new == advice.entries[advice.merged + 1]
           known == new.name \in DOMAIN advice.wanted
       IN  advice' = [advice EXCEPT
               !.merged = @ + 1,
               !.wanted = IF known /\ ~ Overrides(new, @[new.name]) THEN @ ELSE With(@, new.name, new.req)]

\* Sorted by name and cut at the limit.
Kept(names) == {n \in names : Cardinality({m \in names : m < n}) < ResolveLimit}
CutInputs ==
    /\ advice.tool = "dependency_resolve" /\ advice.pc = "merge"
    /\ advice.merged = Len(advice.entries)
    /\ LET kept == Kept(DOMAIN advice.wanted)
       IN  advice' = [advice EXCEPT !.pc = "select", !.todo = kept,
                                    !.wanted = [n \in kept |-> advice.wanted[n]]]

\* The highest version the requirement matches; without one the newest listed.
Candidates(listing, req) == ToSet(listing) \cap UNION req
Selection(listing, req) ==
    IF req = {} THEN {listing[i] : i \in {1} \cap DOMAIN listing}
    ELSE {v \in Candidates(listing, req) : \A w \in Candidates(listing, req) : v >= w}

\* One turn of the loop over the dependencies.
SelectVersion(n) ==
    /\ advice.tool = "dependency_resolve" /\ advice.pc = "select"
    /\ n \in advice.todo /\ \A m \in advice.todo : n <= m
    /\ LET found == IF n \in DOMAIN advice.index THEN Selection(advice.index[n], advice.wanted[n])
                    ELSE {}
           why == IF n \in DOMAIN advice.index THEN "no version" ELSE "not indexed"
       IN  \/ \E v \in found : advice' = [advice EXCEPT !.todo = @ \ {n}, !.selected = With(@, n, v)]
           \/ /\ found = {}
              /\ advice' = [advice EXCEPT !.todo = @ \ {n}, !.conflicts = @ \cup {<<n, why>>}]

\* The edges of the selected versions: an edge to a selected crate must match
\* its version, and two or more edges to one crate must have an indexed version
\* in common.
EdgesOf(edges, selected) ==
    {e \in edges : e.from[1] \in DOMAIN selected /\ e.from[2] = selected[e.from[1]]}
Unmatched(rows, selected) ==
    {e.to : e \in {f \in rows : f.to \in DOMAIN selected /\ selected[f.to] \notin f.req}}
Shared(rows, index) == {c \in DOMAIN index : Cardinality({e \in rows : e.to = c}) >= 2}
Disjoint(rows, index) ==
    {c \in Shared(rows, index) :
        \A v \in ToSet(index[c]) : \E e \in rows : e.to = c /\ v \notin e.req}

\* Mutant: an edge to a selected crate is taken to be satisfied.
CheckEdgesShared ==
    /\ advice.tool = "dependency_resolve" /\ advice.pc = "select" /\ advice.todo = {}
    /\ LET rows == EdgesOf(advice.edges, advice.selected)
       IN  advice' = [advice EXCEPT !.pc = "done",
               !.conflicts = @ \cup {<<c, "disjoint">> : c \in Disjoint(rows, advice.index)}]

CheckEdges ==
    /\ advice.tool = "dependency_resolve" /\ advice.pc = "select" /\ advice.todo = {}
    /\ LET rows == EdgesOf(advice.edges, advice.selected)
       IN  advice' = [advice EXCEPT !.pc = "done",
               !.conflicts = @ \cup {<<c, "unmatched">> : c \in Unmatched(rows, advice.selected)}
                               \cup {<<c, "disjoint">> : c \in Disjoint(rows, advice.index)}]

\* evaluate_confidence
Confidence(selected, conflicts) ==
    CASE DOMAIN selected = {} -> "low"
      [] DOMAIN selected # {} /\ conflicts # {} -> "medium"
      [] OTHER -> "high"
-----------------------------------------------------------------------------
(* crate_compatibility is dependency_resolve for two entries with exact       *)
(* requirements, crate_compatibility_matrix that for every pair of a version  *)
(* of crate 1 and one of crate 2.                                             *)

\* The versions of a crate: those the request gives, which the index may not
\* have, or the newest ones of an indexed crate.
Lists(index, n, limit) ==
    GivenVersions \cup {SubSeq(index[m], 1, Min({limit, Len(index[m])})) : m \in {n} \cap DOMAIN index}

BeginMatrix ==
    \E index \in Indexes, edges \in EdgeSets, limit \in VersionLimits, cap \in PairLimits :
    \E left \in Lists(index, 1, limit), right \in Lists(index, 2, limit) :
        /\ left # <<>> /\ right # <<>> /\ Related(edges, index)
        /\ advice = [tool |-> "crate_compatibility_matrix", pc |-> "pairs", index |-> index,
                     edges |-> edges, lists |-> <<left, right>>, cap |-> cap,
                     left |-> 1, right |-> 1, tested |-> 0,
                     compatible |-> {}, incompatible |-> {}]

\* An exact requirement selects the version, or nothing.
Selected(pair, index) ==
    [n \in {m \in Pair \cap DOMAIN index : pair[m] \in ToSet(index[m])} |-> pair[n]]

\* dependency_resolve has no conflict: both are selected, and their edges agree.
Compatible(selected, index, edges) ==
    LET rows == EdgesOf(edges, selected)
    IN  Unmatched(rows, selected) = {} /\ Disjoint(rows, index) = {}
Fits(pair, index, edges) ==
    LET selected == Selected(pair, index)
    IN  DOMAIN selected = Pair /\ Compatible(selected, index, edges)

\* The loop over the versions of crate 1, and in it over those of crate 2.
MorePairs == advice.left <= Len(advice.lists[1]) /\ advice.tested < advice.cap
TestPair ==
    /\ advice.tool = "crate_compatibility_matrix" /\ advice.pc = "pairs" /\ MorePairs
    /\ LET pair == <<advice.lists[1][advice.left], advice.lists[2][advice.right]>>
           fits == Fits(pair, advice.index, advice.edges)
           last == advice.right = Len(advice.lists[2])
       IN  advice' = [advice EXCEPT
               !.left = IF last THEN @ + 1 ELSE @,
               !.right = IF last THEN 1 ELSE @ + 1,
               !.tested = @ + 1,
               !.compatible = IF fits THEN @ \cup {pair} ELSE @,
               !.incompatible = IF fits THEN @ ELSE @ \cup {pair}]

\* High only when no pair was left out.
MatrixConfidence(a) ==
    CASE a.tested = 0 -> "low"
      [] a.tested # 0 /\ a.tested < Len(a.lists[1]) * Len(a.lists[2]) -> "medium"
      [] OTHER -> "high"

MatrixDone ==
    /\ advice.tool = "crate_compatibility_matrix" /\ advice.pc = "pairs" /\ ~ MorePairs
    /\ advice' = [advice EXCEPT !.pc = "done"]
-----------------------------------------------------------------------------
(* dependency_audit. *)
BeginAudit ==
    \E index \in Indexes, wanted \in Manifests, facts \in FactTables :
        advice = [tool |-> "dependency_audit", pc |-> "audit", index |-> index, wanted |-> wanted,
                  facts |-> facts, audited |-> <<>>, issues |-> {}, unresolved |-> 0,
                  bare |-> 0, unclear |-> 0]

\* What the selected version brings: its facts, and whether a newer one is listed.
Troubles(index, facts, n, found) ==
    (UNION {facts[<<n, v>>] : v \in found})
        \cup (IF \E v \in found : v # index[n][1] THEN {"outdated"} ELSE {})

\* One dependency, which is not indexed ...
AuditUnknown(n) ==
    /\ advice.tool = "dependency_audit" /\ advice.pc = "audit"
    /\ n \in DOMAIN advice.wanted \ (DOMAIN advice.audited \cup DOMAIN advice.index)
    /\ advice' = [advice EXCEPT !.audited = With(@, n, {"not indexed"}), !.unresolved = @ + 1,
                                !.issues = @ \cup {<<n, "unresolved">>}]

\* ... or is: the version selected, its markers and its issues.
AuditDependency(n) ==
    /\ advice.tool = "dependency_audit" /\ advice.pc = "audit"
    /\ n \in (DOMAIN advice.wanted \cap DOMAIN advice.index) \ DOMAIN advice.audited
    /\ LET req == advice.wanted[n]
           found == Selection(advice.index[n], req)
           troubles == Troubles(advice.index, advice.facts, n, found)
           marks == troubles \cup (IF req = {} THEN {"missing requirement"} ELSE {})
           open == troubles \cup (IF req # {} /\ found = {} THEN {"unresolved"} ELSE {})
       IN  advice' = [advice EXCEPT
               !.audited = With(@, n, IF marks = {} THEN {"ok"} ELSE marks),
               !.issues = @ \cup {<<n, f>> : f \in open},
               !.bare = IF req = {} THEN @ + 1 ELSE @,
               !.unclear = IF "unknown advisory" \in troubles THEN @ + 1 ELSE @]

AuditDone ==
    /\ advice.tool = "dependency_audit" /\ advice.pc = "audit"
    /\ DOMAIN advice.wanted = DOMAIN advice.audited
    /\ advice' = [advice EXCEPT !.pc = "done"]

\* evaluate_confidence of the audit.
AuditConfidence(a) ==
    CASE DOMAIN a.wanted = {} -> "low"
      [] DOMAIN a.wanted # {} /\ a.unresolved + a.unclear + a.bare > 0 -> "medium"
      [] OTHER -> "high"
-----------------------------------------------------------------------------
(* crate_compare.  signals is what adoption, features and MSRV bring a crate;  *)
(* confirmed advisories and a yanked version cost points, unknown advisories   *)
(* do not.                                                                     *)
MaintenanceScore(side) ==
    LET points == side.signals - 12 * side.affected - (IF side.yanked THEN 40 ELSE 0)
    IN  Max({0, Min({100, points})})

\* With every unknown advisory taken for a confirmed one.
WorstCase(side) == [side EXCEPT !.affected = @ + side.unknown, !.unknown = 0]

BeginCompare ==
    \E left, right \in Sides :
        advice = [tool |-> "crate_compare", pc |-> "compare", sides |-> <<left, right>>,
                  recommended |-> 0]

\* compare_recommendation: none for a small gap, and none when the unknown
\* advisories of the winner could close it.
CompareSides ==
    /\ advice.tool = "crate_compare" /\ advice.pc = "compare"
    /\ LET score == [i \in 1..2 |-> MaintenanceScore(advice.sides[i])]
           winner == IF score[1] > score[2] THEN 1 ELSE 2
           worst == MaintenanceScore(WorstCase(advice.sides[winner]))
           uncertain == \E i \in 1..2 : advice.sides[i].unknown > 0
       IN  advice' = [advice EXCEPT !.pc = "done",
               !.recommended = IF \/ score[winner] - score[3 - winner] < 3
                                  \/ uncertain /\ worst - score[3 - winner] < 3
                               THEN 0 ELSE winner]

AdviceInit == BeginResolve \/ BeginMatrix \/ BeginAudit \/ BeginCompare
AdviceNext ==
    \/ MergeEntry \/ CutInputs \/ CheckEdges
    \/ TestPair \/ MatrixDone \/ CompareSides \/ AuditDone
    \/ \E n \in Crates : SelectVersion(n) \/ AuditUnknown(n) \/ AuditDependency(n)

AdviceSpec == AdviceInit /\ [][AdviceNext]_adviceVars
-----------------------------------------------------------------------------
(* Properties. *)

\* The versions selected, and one of each crate several of them depend on, can
\* be picked so that every requirement between them is met.
Stands(selected, index, edges) ==
    LET rows == EdgesOf(edges, selected)
        shared == Shared(rows, index)
    IN  \E picks \in [DOMAIN selected \cup shared -> Ranks] :
            /\ \A n \in DOMAIN selected : picks[n] = selected[n]
            /\ \A n \in shared : picks[n] \in ToSet(index[n])
            /\ \A e \in rows : e.to \in DOMAIN picks => picks[e.to] \in e.req

\* Entry i has the requirement of its crate that counts: of the last addition,
\* else the first one.
Counts(entries, i) ==
    LET rivals == {j \in DOMAIN entries : entries[j].name = entries[i].name /\ entries[j].req # {}}
        added == {j \in rivals : entries[j].source = "addition"}
    IN  /\ i \in rivals
        /\ IF i \in added THEN \A j \in added : j <= i ELSE added = {} /\ \A j \in rivals : i <= j

\* High confidence means that every crate kept has an indexed version, and that
\* the index has versions for all that these need; it is withheld for no other
\* reason.  A version selected satisfies the requirement that counts for its
\* crate, and below the limit every crate named is kept.
ResolveSound ==
    LET a == advice
        names == {a.entries[i].name : i \in DOMAIN a.entries}
    IN  /\ Confidence(a.selected, a.conflicts) = "high" <=>
               /\ DOMAIN a.wanted # {} /\ DOMAIN a.wanted \subseteq DOMAIN a.selected
               /\ Stands(a.selected, a.index, a.edges)
        /\ \A n \in DOMAIN a.selected : n \in DOMAIN a.index /\ a.selected[n] \in ToSet(a.index[n])
        /\ \A i \in DOMAIN a.entries : Counts(a.entries, i) /\ a.entries[i].name \in DOMAIN a.selected =>
               \A r \in a.entries[i].req : a.selected[a.entries[i].name] \in r
        /\ Cardinality(names) <= ResolveLimit => DOMAIN a.wanted = names

\* Both versions are indexed and stand together.
Holds(pair, index, edges) ==
    LET selected == Selected(pair, index)
    IN  DOMAIN selected = Pair /\ Stands(selected, index, edges)

\* The matrix calls a pair compatible when both versions are indexed and they,
\* with one of each crate both depend on, can stand together; incompatible when
\* not, so also a pair that the client asks about and the index does not have;
\* and says so of every pair asked about when its confidence is high.
MatrixSound ==
    LET a == advice IN
    /\ \A p \in a.compatible : Holds(p, a.index, a.edges)
    /\ \A p \in a.incompatible : ~ Holds(p, a.index, a.edges)
    /\ MatrixConfidence(a) = "high" =>
           a.compatible \cup a.incompatible = ToSet(a.lists[1]) \X ToSet(a.lists[2])

\* However the unknown advisories turn out, for either crate, the crate that is
\* recommended scores better.
Outcomes(side) == {[side EXCEPT !.affected = @ + k, !.unknown = 0] : k \in 0..side.unknown}
RecommendationHolds ==
    LET w == advice.recommended IN
    w # 0 => \A s \in Outcomes(advice.sides[w]), t \in Outcomes(advice.sides[3 - w]) :
                 MaintenanceScore(s) > MaintenanceScore(t)

\* A dependency the audit raises no issue about has a version the requirement
\* matches and none higher matches, which is not yanked, is hit by no advisory
\* for sure or perhaps, and runs on the package's Rust, unless it asks for
\* nothing of a crate known by its name alone; and with high confidence
\* nothing is left open about any dependency but a requirement that matches no
\* version, which is an issue of its own.
AuditSound ==
    LET a == advice
        Open(n) == {f \in {i[2] : i \in a.issues} : <<n, f>> \in a.issues}
    IN  \A n \in DOMAIN a.wanted :
            /\ Open(n) = {} /\ (a.wanted[n] # {} \/ a.index[n] # <<>>) =>
                   \E v \in ToSet(a.index[n]) :
                       /\ a.wanted[n] = {} \/ v = Max(Candidates(a.index[n], a.wanted[n]))
                       /\ a.facts[<<n, v>>] = {}
            /\ AuditConfidence(a) = "high" =>
                   /\ n \in DOMAIN a.index /\ a.wanted[n] # {}
                   /\ Candidates(a.index[n], a.wanted[n]) = {} <=> "unresolved" \in Open(n)
                   /\ "unknown advisory" \notin Open(n)

\* AdviceSound: the tools give advice that the index supports: the selection of
\* dependency_resolve, the pairs of the compatibility tools, the verdicts of
\* dependency_audit and the recommendation of crate_compare hold for the rows.
AdviceSound ==
    advice.pc = "done" => CASE advice.tool = "dependency_resolve" -> ResolveSound
                            [] advice.tool = "crate_compatibility_matrix" -> MatrixSound
                            [] advice.tool = "crate_compare" -> RecommendationHolds
                            [] OTHER -> AuditSound
=============================================================================
