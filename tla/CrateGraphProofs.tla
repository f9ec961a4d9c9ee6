-------------------------- MODULE CrateGraphProofs --------------------------
(***************************************************************************)
(* Proofs about the traversals: a traversal that ends has ended with       *)
(* exactly what its graph holds, for every graph of every size, every      *)
(* depth and every order in which rows, features and links are taken.      *)
(* Reachability is the least closed set and a distance the length of a     *)
(* shortest walk; the invariants say how far the two have been got to.     *)
(***************************************************************************)
EXTENDS CrateGraph, FiniteSetTheorems, SequenceTheorems, TLAPS

FeatureTools == {"crate_features", "dependency_feature_impact"}
Edges == Nodes \X Nodes

\* What a feature walk knows: the queue and the features seen lie between the
\* root and what the root reaches, and what a feature seen enables is seen or
\* waits.
FeatureTypes ==
    trav \in [tool : FeatureTools, edges : SUBSET Edges, deps : SUBSET Nodes, optional : SUBSET Nodes,
              queue : Seq(Nodes), seen : SUBSET Nodes, extras : SUBSET Nodes, done : BOOLEAN]
FeatureInv ==
    /\ FeatureTypes
    /\ FeatureRoots(trav.tool, trav.edges, 1) \subseteq trav.seen \cup ToSet(trav.queue)
    /\ trav.seen \cup ToSet(trav.queue)
           \subseteq FeatureRoots(trav.tool, trav.edges, 1) \cup Reachable(trav.edges, 1)
    /\ \A f \in trav.seen : Below(trav.edges, f) \subseteq trav.seen \cup ToSet(trav.queue)
    /\ trav.extras = trav.seen \cap trav.deps \cap trav.optional
    /\ trav.done => trav.queue = <<>>

\* What a node points at are nodes.
LEMMA BelowNodes == \A edges, n : Below(edges, n) \subseteq Nodes
BY DEF Below

\* Reachable is the least set closed under the edges.
LEMMA ReachableLeast ==
    ASSUME NEW edges, NEW n,
           NEW S \in SUBSET Nodes, Below(edges, n) \subseteq S, \A k \in S : Below(edges, k) \subseteq S
    PROVE  Reachable(edges, n) \subseteq S
BY DEF Reachable

\* What a node reaches contains what it points at, and is closed under edges.
LEMMA ReachableClosed ==
    ASSUME NEW edges, NEW n
    PROVE  /\ Reachable(edges, n) \subseteq Nodes
           /\ Below(edges, n) \subseteq Reachable(edges, n)
           /\ \A k \in Reachable(edges, n) : Below(edges, k) \subseteq Reachable(edges, n)
BY DEF Reachable, Below

\* SetToSeq lists every element of a finite set once.
LEMMA ListedOnce ==
    ASSUME NEW S, IsFiniteSet(S)
    PROVE  /\ SetToSeq(S) \in Seq(S)
           /\ ToSet(SetToSeq(S)) = S
           /\ Len(SetToSeq(S)) = Cardinality(S)
           /\ \A i, j \in 1..Cardinality(S) : SetToSeq(S)[i] = SetToSeq(S)[j] => i = j
<1> DEFINE n == Cardinality(S)
<1>1. n \in Nat /\ ExistsBijection(1..n, S)
  BY FS_CardinalityType
<1>2. PICK f \in Bijection(1..n, S) : TRUE
  BY <1>1 DEF ExistsBijection
<1>3. f \in [1..n -> S] /\ IsInjective(f)
  BY <1>2 DEF Bijection, Injection, IsInjective
<1>4. SetToSeq(S) \in [1..n -> S] /\ IsInjective(SetToSeq(S))
  BY <1>3 DEF SetToSeq
<1>5. SetToSeq(S) \in Injection(1..n, S)
  BY <1>4 DEF Injection, IsInjective
<1>6. IsFiniteSet(1..n) /\ Cardinality(1..n) = n
  BY <1>1, FS_Interval, 1 \in Int
<1>7. SetToSeq(S) \in Surjection(1..n, S)
  BY <1>5, <1>6, FS_Injection
<1>8. \A x \in S : \E i \in 1..n : SetToSeq(S)[i] = x
  BY <1>7 DEF Surjection
<1>9. SetToSeq(S) \in Seq(S) /\ Len(SetToSeq(S)) = n
  BY <1>4, <1>1, SeqDef
<1>10. ToSet(SetToSeq(S)) = S
  BY <1>4, <1>8 DEF ToSet
<1>11. QED
  BY <1>4, <1>9, <1>10 DEF IsInjective

\* A set of nodes, listed, is a sequence of exactly these nodes.
LEMMA ListedNodes ==
    ASSUME NEW S \in SUBSET Nodes
    PROVE  /\ IsFiniteSet(S)
           /\ SetToSeq(S) \in Seq(Nodes)
           /\ ToSet(SetToSeq(S)) = S
<1>1. IsFiniteSet(Nodes)
  BY GraphBounds, FS_Interval, 1 \in Int, MaxNode \in Int DEF Nodes
<1>2. IsFiniteSet(S)
  BY <1>1, FS_Subset
<1>3. SetToSeq(S) \in Seq(S) /\ ToSet(SetToSeq(S)) = S
  BY <1>2, ListedOnce
<1>4. SetToSeq(S) \in Seq(Nodes)
  BY <1>3, SeqMonotonic
<1>5. QED
  BY <1>2, <1>3, <1>4

\* The elements of a sequence, of its tail and of a concatenation.
LEMMA ElementsOfTail ==
    ASSUME NEW T, NEW s \in Seq(T), s # <<>>
    PROVE  /\ Head(s) \in ToSet(s) /\ Head(s) \in T /\ Tail(s) \in Seq(T)
           /\ ToSet(s) = {Head(s)} \cup ToSet(Tail(s))
<1>1. Len(s) \in Nat \ {0} /\ DOMAIN s = 1..Len(s) /\ Head(s) = s[1]
  BY EmptySeq, LenProperties
<1>2. /\ Head(s) \in T /\ Tail(s) \in Seq(T) /\ Len(Tail(s)) = Len(s) - 1
      /\ \A i \in 1..Len(Tail(s)) : Tail(s)[i] = s[i + 1]
  BY HeadTailProperties
<1>3. DOMAIN Tail(s) = 1..(Len(s) - 1)
  BY <1>2, LenProperties
<1>4. \A i \in 1..Len(s) : i = 1 \/ (i - 1 \in 1..(Len(s) - 1) /\ s[i] = Tail(s)[i - 1])
  BY <1>1, <1>2
<1>5. ToSet(s) \subseteq {Head(s)} \cup ToSet(Tail(s))
  <2> SUFFICES ASSUME NEW i \in 1..Len(s)
               PROVE  s[i] \in {Head(s)} \cup ToSet(Tail(s))
    BY <1>1 DEF ToSet
  <2>1. CASE i = 1
    BY <1>1, <2>1
  <2>2. CASE i # 1
    BY <1>3, <1>4, <2>2 DEF ToSet
  <2>3. QED
    BY <2>1, <2>2
<1>6. ToSet(Tail(s)) \subseteq ToSet(s)
  <2>1. \A i \in 1..(Len(s) - 1) : i + 1 \in 1..Len(s)
    BY <1>1
  <2>2. QED
    BY <1>1, <1>2, <1>3, <2>1 DEF ToSet
<1>7. Head(s) \in ToSet(s)
  BY <1>1 DEF ToSet
<1>8. QED
  BY <1>2, <1>5, <1>6, <1>7

\* Two sequences put together hold what both hold.
LEMMA ElementsOfConcat ==
    ASSUME NEW T, NEW s \in Seq(T), NEW t \in Seq(T)
    PROVE  s \o t \in Seq(T) /\ ToSet(s \o t) = ToSet(s) \cup ToSet(t)
<1>1. /\ s \o t \in Seq(T) /\ Len(s \o t) = Len(s) + Len(t)
      /\ \A i \in 1..Len(s) + Len(t) :
            (s \o t)[i] = IF i <= Len(s) THEN s[i] ELSE t[i - Len(s)]
  BY ConcatProperties
<1>2. /\ Len(s) \in Nat /\ Len(t) \in Nat
      /\ DOMAIN s = 1..Len(s) /\ DOMAIN t = 1..Len(t) /\ DOMAIN (s \o t) = 1..(Len(s) + Len(t))
  BY <1>1, LenProperties
<1>3. ToSet(s) \subseteq ToSet(s \o t)
  <2>1. \A i \in 1..Len(s) : i \in 1..(Len(s) + Len(t)) /\ (s \o t)[i] = s[i]
    BY <1>1, <1>2
  <2>2. QED
    BY <1>2, <2>1 DEF ToSet
<1>4. ToSet(t) \subseteq ToSet(s \o t)
  <2>1. \A i \in 1..Len(t) : i + Len(s) \in 1..(Len(s) + Len(t)) /\ (s \o t)[i + Len(s)] = t[i]
    BY <1>1, <1>2
  <2>2. QED
    BY <1>2, <2>1 DEF ToSet
<1>5. ToSet(s \o t) \subseteq ToSet(s) \cup ToSet(t)
  <2>1. \A i \in 1..(Len(s) + Len(t)) :
            \/ i \in 1..Len(s) /\ (s \o t)[i] = s[i]
            \/ i - Len(s) \in 1..Len(t) /\ (s \o t)[i] = t[i - Len(s)]
    BY <1>1, <1>2
  <2>2. QED
    BY <1>2, <2>1 DEF ToSet
<1>6. QED
  BY <1>1, <1>3, <1>4, <1>5

\* The roots of a feature walk are features, and a walk that has them all has
\* what they reach.
LEMMA RootsOfFeatures ==
    ASSUME NEW tool \in FeatureTools, NEW edges
    PROVE  FeatureRoots(tool, edges, 1) \in SUBSET Nodes
BY GraphBounds DEF FeatureRoots, Below, Nodes

\* A feature walk starts with its root in the queue.
LEMMA FeaturesStart ==
    ASSUME BeginFeatures
    PROVE  FeatureInv
<1>1. PICK edges \in SUBSET (Nodes \X Nodes), deps, optional \in SUBSET Nodes,
           tool \in {"crate_features", "dependency_feature_impact"} :
        trav = [tool |-> tool, edges |-> edges, deps |-> deps, optional |-> optional,
                queue |-> SetToSeq(FeatureRoots(tool, edges, 1)),
                seen |-> {}, extras |-> {}, done |-> FALSE]
  BY DEF BeginFeatures
<1>2. FeatureRoots(tool, edges, 1) \in SUBSET Nodes
  BY RootsOfFeatures DEF FeatureTools
<1>3. /\ SetToSeq(FeatureRoots(tool, edges, 1)) \in Seq(Nodes)
      /\ ToSet(SetToSeq(FeatureRoots(tool, edges, 1))) = FeatureRoots(tool, edges, 1)
  BY <1>2, ListedNodes
<1>4. FeatureTypes
  BY <1>1, <1>3 DEF FeatureTypes, FeatureTools, Edges
<1>5. QED
  BY <1>1, <1>3, <1>4 DEF FeatureInv

\* Taking a feature from the queue and queueing what it enables keeps FeatureInv.
LEMMA FeatureExpands ==
    ASSUME FeatureInv, ExpandFeature
    PROVE  FeatureInv'
<1> DEFINE f == Head(trav.queue)
           new == Below(trav.edges, f) \ ({f} \cup trav.seen)
<1>1. /\ ~ trav.done /\ trav.queue # <<>>
      /\ trav' = IF f \in trav.seen THEN [trav EXCEPT !.queue = Tail(@)]
                 ELSE [trav EXCEPT !.queue = Tail(@) \o SetToSeq(new),
                                   !.seen = @ \cup {f},
                                   !.extras = @ \cup ({f} \cap trav.deps \cap trav.optional)]
  BY DEF ExpandFeature
<1>2. FeatureTypes /\ trav.queue \in Seq(Nodes)
  BY DEF FeatureInv, FeatureTypes
<1>3. /\ f \in Nodes /\ Tail(trav.queue) \in Seq(Nodes)
      /\ ToSet(trav.queue) = {f} \cup ToSet(Tail(trav.queue))
  BY <1>1, <1>2, ElementsOfTail
<1>4. new \in SUBSET Nodes
  BY BelowNodes
<1>5. SetToSeq(new) \in Seq(Nodes) /\ ToSet(SetToSeq(new)) = new
  BY <1>4, ListedNodes
<1>6. /\ Tail(trav.queue) \o SetToSeq(new) \in Seq(Nodes)
      /\ ToSet(Tail(trav.queue) \o SetToSeq(new)) = ToSet(Tail(trav.queue)) \cup new
  <2> HIDE DEF f, new
  <2>1. Tail(trav.queue) \in Seq(Nodes) /\ SetToSeq(new) \in Seq(Nodes)
    BY <1>3, <1>5
  <2>2. /\ Tail(trav.queue) \o SetToSeq(new) \in Seq(Nodes)
        /\ ToSet(Tail(trav.queue) \o SetToSeq(new))
               = ToSet(Tail(trav.queue)) \cup ToSet(SetToSeq(new))
    BY <2>1, ElementsOfConcat
  <2>3. QED
    BY <1>5, <2>2
<1>7. CASE f \in trav.seen
  <2>1. trav' = [trav EXCEPT !.queue = Tail(@)]
    BY <1>1, <1>7
  <2>2. FeatureTypes'
    BY <1>2, <1>3, <2>1 DEF FeatureTypes
  <2>3. /\ trav'.tool = trav.tool /\ trav'.edges = trav.edges /\ trav'.seen = trav.seen
        /\ trav'.deps = trav.deps /\ trav'.optional = trav.optional /\ trav'.extras = trav.extras
        /\ trav'.done = trav.done /\ trav'.queue = Tail(trav.queue)
    BY <1>2, <2>1 DEF FeatureTypes
  <2>4. trav'.seen \cup ToSet(trav'.queue) = trav.seen \cup ToSet(trav.queue)
    BY <1>3, <1>7, <2>3
  <2>5. QED
    BY <1>1, <2>2, <2>3, <2>4 DEF FeatureInv
<1>8. CASE f \notin trav.seen
  <2>1. trav' = [trav EXCEPT !.queue = Tail(@) \o SetToSeq(new),
                             !.seen = @ \cup {f},
                             !.extras = @ \cup ({f} \cap trav.deps \cap trav.optional)]
    BY <1>1, <1>8
  <2>2. FeatureTypes'
    BY <1>2, <1>3, <1>6, <2>1 DEF FeatureTypes
  <2>3. /\ trav'.tool = trav.tool /\ trav'.edges = trav.edges /\ trav'.seen = trav.seen \cup {f}
        /\ trav'.deps = trav.deps /\ trav'.optional = trav.optional
        /\ trav'.extras = trav.extras \cup ({f} \cap trav.deps \cap trav.optional)
        /\ trav'.done = trav.done /\ trav'.queue = Tail(trav.queue) \o SetToSeq(new)
    BY <1>2, <2>1 DEF FeatureTypes
  <2>4. trav'.seen \cup ToSet(trav'.queue)
            = trav.seen \cup ToSet(trav.queue) \cup Below(trav.edges, f)
    BY <1>3, <1>6, <2>3
  <2>5. Below(trav.edges, f)
            \subseteq FeatureRoots(trav.tool, trav.edges, 1) \cup Reachable(trav.edges, 1)
    <3>1. f \in FeatureRoots(trav.tool, trav.edges, 1) \cup Reachable(trav.edges, 1)
      BY <1>3 DEF FeatureInv
    <3>2. f = 1 \/ f \in Reachable(trav.edges, 1)
      BY <3>1, ReachableClosed DEF FeatureRoots
    <3>3. QED
      BY <3>2, ReachableClosed
  <2>6. \A g \in trav'.seen : Below(trav'.edges, g) \subseteq trav'.seen \cup ToSet(trav'.queue)
    BY <2>3, <2>4 DEF FeatureInv
  <2>7. trav'.extras = trav'.seen \cap trav'.deps \cap trav'.optional
    BY <2>3 DEF FeatureInv
  <2>8. QED
    BY <1>1, <2>2, <2>3, <2>4, <2>5, <2>6, <2>7 DEF FeatureInv
<1>9. QED
  BY <1>7, <1>8

\* So does stopping when the queue is empty.
LEMMA FeaturesEnd ==
    ASSUME FeatureInv, FeaturesDone
    PROVE  FeatureInv'
<1>1. FeatureTypes /\ trav.queue = <<>> /\ trav' = [trav EXCEPT !.done = TRUE]
  BY DEF FeatureInv, FeaturesDone
<1>2. FeatureTypes'
  BY <1>1 DEF FeatureTypes
<1>3. /\ trav'.tool = trav.tool /\ trav'.edges = trav.edges /\ trav'.seen = trav.seen
      /\ trav'.deps = trav.deps /\ trav'.optional = trav.optional /\ trav'.extras = trav.extras
      /\ trav'.queue = trav.queue
  BY <1>1 DEF FeatureTypes
<1>4. QED
  BY <1>1, <1>2, <1>3 DEF FeatureInv

\* At the end of a feature walk nothing waits, so what was seen is closed.
LEMMA FeaturesAtEnd ==
    ASSUME FeatureInv, trav.done
    PROVE  FeaturesExact
<1> DEFINE roots == FeatureRoots(trav.tool, trav.edges, 1)
           reach == Reachable(trav.edges, 1)
<1>1. FeatureTypes /\ trav.queue = <<>> /\ ToSet(trav.queue) = {}
  BY DEF FeatureInv, ToSet
<1>2. trav.seen \in SUBSET Nodes /\ trav.tool \in FeatureTools
  BY <1>1 DEF FeatureTypes
<1>3. /\ roots \subseteq trav.seen /\ trav.seen \subseteq roots \cup reach
      /\ \A f \in trav.seen : Below(trav.edges, f) \subseteq trav.seen
  BY <1>1 DEF FeatureInv
<1>4. Below(trav.edges, 1) \subseteq trav.seen
  BY <1>2, <1>3 DEF FeatureRoots, FeatureTools
<1>5. reach \subseteq trav.seen
  BY <1>2, <1>3, <1>4, ReachableLeast
<1>6. CASE trav.tool = "crate_features"
  <2>1. roots \subseteq reach
    BY <1>6, ReachableClosed DEF FeatureRoots
  <2>2. QED
    BY <1>3, <1>5, <1>6, <2>1 DEF FeaturesExact
<1>7. CASE trav.tool # "crate_features"
  <2>1. roots = {1}
    BY <1>7 DEF FeatureRoots
  <2>2. trav.seen = {1} \cup reach
    BY <1>3, <1>5, <2>1
  <2>3. QED
    BY <1>7, <2>2 DEF FeaturesExact, FeatureInv
<1>8. QED
  BY <1>6, <1>7
-----------------------------------------------------------------------------
(* crate_graph. *)

\* The crates d steps below version v, and above the root.
Down(edges, v, d) == {p[d] : p \in {q \in [1..d -> Nodes] : WalkDown(edges, v, q)}}
UpEdges(edges) == {<<e[2], CrateOf(e[1])>> : e \in edges}
Up(edges, d) == Down(UpEdges(edges), 1, d)
VersionEdges == (0..MaxNode) \X Nodes

\* Turned around, version edges are version edges.
LEMMA UpEdgesTyped ==
    ASSUME NEW edges \in SUBSET VersionEdges
    PROVE  UpEdges(edges) \in SUBSET VersionEdges
BY GraphBounds DEF UpEdges, VersionEdges, CrateOf, Nodes

\* A walk to dependents is a walk to dependencies along the edges turned around.
LEMMA WalkUpIsDown ==
    ASSUME NEW edges \in SUBSET VersionEdges, NEW p
    PROVE  WalkUp(edges, p) <=> WalkDown(UpEdges(edges), 1, p)
<1>1. \A a, b : <<a, b>> \in UpEdges(edges) <=> \E e \in edges : CrateOf(e[1]) = b /\ e[2] = a
  BY DEF UpEdges
<1>2. ASSUME NEW i \in DOMAIN p
      PROVE  <<IF i = 1 THEN 1 ELSE p[i - 1], p[i]>> \in UpEdges(edges)
                <=> \E e \in edges : CrateOf(e[1]) = p[i] /\ e[2] = IF i = 1 THEN 1 ELSE p[i - 1]
  <2> DEFINE a == IF i = 1 THEN 1 ELSE p[i - 1]
  <2>1. <<a, p[i]>> \in UpEdges(edges) <=> \E e \in edges : CrateOf(e[1]) = p[i] /\ e[2] = a
    BY <1>1
  <2>2. QED
    BY <2>1
<1>3. QED
  BY <1>2 DEF WalkUp, WalkDown

\* The first step of a walk, and one step more.
LEMMA FirstStep ==
    ASSUME NEW edges \in SUBSET VersionEdges, NEW v
    PROVE  Down(edges, v, 1) = {e[2] : e \in {x \in edges : x[1] = v}}
<1>1. ASSUME NEW n \in Down(edges, v, 1)
      PROVE  n \in {e[2] : e \in {x \in edges : x[1] = v}}
  <2>1. PICK q \in [1..1 -> Nodes] : WalkDown(edges, v, q) /\ n = q[1]
    BY <1>1 DEF Down
  <2>2. <<v, n>> \in edges
    BY <2>1 DEF WalkDown
  <2>3. QED
    BY <2>2
<1>2. ASSUME NEW e \in edges, e[1] = v
      PROVE  e[2] \in Down(edges, v, 1)
  <2> DEFINE q == [i \in 1..1 |-> e[2]]
  <2>1. e = <<e[1], e[2]>> /\ e[2] \in Nodes
    BY DEF VersionEdges
  <2>2. q \in [1..1 -> Nodes] /\ DOMAIN q = 1..1 /\ q[1] = e[2]
    BY <2>1
  <2>3. WalkDown(edges, v, q)
    BY <1>2, <2>1, <2>2 DEF WalkDown
  <2>4. QED
    BY <2>2, <2>3 DEF Down
<1>3. QED
  BY <1>1, <1>2

\* Level d + 1 is what the edges out of level d lead to.
LEMMA NextStep ==
    ASSUME NEW edges \in SUBSET VersionEdges, NEW v, NEW d \in Nat \ {0}
    PROVE  Down(edges, v, d + 1) = {e[2] : e \in {x \in edges : x[1] \in Down(edges, v, d)}}
<1>1. ASSUME NEW n \in Down(edges, v, d + 1)
      PROVE  n \in {e[2] : e \in {x \in edges : x[1] \in Down(edges, v, d)}}
  <2>1. PICK q \in [1..(d + 1) -> Nodes] : WalkDown(edges, v, q) /\ n = q[d + 1]
    BY <1>1 DEF Down
  <2> DEFINE p == [i \in 1..d |-> q[i]]
  <2>2. p \in [1..d -> Nodes] /\ DOMAIN p = 1..d /\ p[d] = q[d] /\ DOMAIN q = 1..(d + 1)
    BY <2>1
  <2>3. WalkDown(edges, v, p)
    <3> SUFFICES ASSUME NEW i \in 1..d
                 PROVE  <<IF i = 1 THEN v ELSE p[i - 1], p[i]>> \in edges
      BY <2>2 DEF WalkDown
    <3>1. i \in 1..(d + 1) /\ p[i] = q[i] /\ (i # 1 => p[i - 1] = q[i - 1])
      OBVIOUS
    <3>2. <<IF i = 1 THEN v ELSE q[i - 1], q[i]>> \in edges
      BY <2>1, <2>2, <3>1 DEF WalkDown
    <3>3. QED
      BY <3>1, <3>2
  <2>4. <<q[d], q[d + 1]>> \in edges
    <3>1. d + 1 \in 1..(d + 1) /\ d + 1 # 1 /\ (d + 1) - 1 = d
      OBVIOUS
    <3>2. QED
      BY <2>1, <2>2, <3>1 DEF WalkDown
  <2>5. q[d] \in Down(edges, v, d)
    BY <2>2, <2>3 DEF Down
  <2>6. QED
    BY <2>1, <2>4, <2>5
<1>2. ASSUME NEW e \in edges, e[1] \in Down(edges, v, d)
      PROVE  e[2] \in Down(edges, v, d + 1)
  <2>1. PICK p \in [1..d -> Nodes] : WalkDown(edges, v, p) /\ e[1] = p[d]
    BY <1>2 DEF Down
  <2>2. e = <<e[1], e[2]>> /\ e[2] \in Nodes
    BY DEF VersionEdges
  <2> DEFINE q == [i \in 1..(d + 1) |-> IF i = d + 1 THEN e[2] ELSE p[i]]
  <2>3. q \in [1..(d + 1) -> Nodes] /\ DOMAIN q = 1..(d + 1) /\ q[d + 1] = e[2]
    BY <2>1, <2>2
  <2>4. WalkDown(edges, v, q)
    <3> SUFFICES ASSUME NEW i \in 1..(d + 1)
                 PROVE  <<IF i = 1 THEN v ELSE q[i - 1], q[i]>> \in edges
      BY <2>3 DEF WalkDown
    <3>1. CASE i = d + 1
      <4>1. i # 1 /\ q[i - 1] = p[d] /\ q[i] = e[2]
        BY <3>1
      <4>2. QED
        BY <2>1, <2>2, <4>1
    <3>2. CASE i # d + 1
      <4>1. i \in 1..d /\ q[i] = p[i] /\ (i # 1 => q[i - 1] = p[i - 1])
        BY <3>2
      <4>2. <<IF i = 1 THEN v ELSE p[i - 1], p[i]>> \in edges
        BY <2>1, <4>1 DEF WalkDown
      <4>3. QED
        BY <4>1, <4>2
    <3>3. QED
      BY <3>1, <3>2
  <2>5. QED
    BY <2>3, <2>4 DEF Down
<1>3. QED
  BY <1>1, <1>2

\* The same, seen from the later level.
LEMMA LastStep ==
    ASSUME NEW edges \in SUBSET VersionEdges, NEW v, NEW l \in Nat \ {0, 1}
    PROVE  Down(edges, v, l) = {e[2] : e \in {x \in edges : x[1] \in Down(edges, v, l - 1)}}
<1>1. PICK d \in Nat \ {0} : l = d + 1 /\ l - 1 = d
  <2>1. l - 1 \in Nat \ {0} /\ l = (l - 1) + 1
    OBVIOUS
  <2>2. QED
    BY <2>1
<1>2. QED
  BY <1>1, NextStep

\* Levels hold nodes.
LEMMA DownNodes ==
    ASSUME NEW edges, NEW v, NEW d \in Nat \ {0}
    PROVE  Down(edges, v, d) \subseteq Nodes
<1>1. d \in 1..d
  OBVIOUS
<1>2. QED
  BY <1>1 DEF Down

\* Where a walk of d steps ends nowhere, so does a longer one.
LEMMA NoLongerWalk ==
    ASSUME NEW edges, NEW v, NEW d \in Nat \ {0}, NEW m \in Nat, d <= m, Down(edges, v, d) = {}
    PROVE  Down(edges, v, m) = {}
<1>1. SUFFICES ASSUME Down(edges, v, m) # {} PROVE FALSE
  OBVIOUS
<1>2. PICK q \in [1..m -> Nodes] : WalkDown(edges, v, q)
  BY <1>1 DEF Down
<1> DEFINE p == [i \in 1..d |-> q[i]]
<1>3. p \in [1..d -> Nodes] /\ DOMAIN p = 1..d /\ DOMAIN q = 1..m
  BY <1>2
<1>4. WalkDown(edges, v, p)
  <2> SUFFICES ASSUME NEW i \in 1..d
               PROVE  <<IF i = 1 THEN v ELSE p[i - 1], p[i]>> \in edges
    BY <1>3 DEF WalkDown
  <2>1. i \in 1..m /\ p[i] = q[i] /\ (i # 1 => p[i - 1] = q[i - 1])
    OBVIOUS
  <2>2. <<IF i = 1 THEN v ELSE q[i - 1], q[i]>> \in edges
    BY <1>2, <1>3, <2>1 DEF WalkDown
  <2>3. QED
    BY <2>1, <2>2
<1>5. p[d] \in Down(edges, v, d)
  BY <1>3, <1>4 DEF Down
<1>6. QED
  BY <1>5

\* dist is the nearest of the places M has for each crate.
Nearest(dist, M) ==
    /\ DOMAIN dist = {x[1] : x \in M}
    /\ \A n \in DOMAIN dist : <<n, dist[n]>> \in M /\ \A d \in Nat : <<n, d>> \in M => dist[n] <= d

\* The least of two numbers.
LEMMA SmallerOfTwo ==
    ASSUME NEW a \in Int, NEW b \in Int
    PROVE  Min({a, b}) = IF a <= b THEN a ELSE b
BY DEF Min

\* Entering the nodes of a level keeps the nearest place of each: a node that has
\* a smaller distance already keeps it.
LEMMA NearerKeeps ==
    ASSUME NEW dist, NEW M \in SUBSET (Nodes \X Nat), Nearest(dist, M),
           NEW ns \in SUBSET Nodes, NEW d \in Nat
    PROVE  Nearest(Nearer(dist, ns, d), M \cup (ns \X {d}))
<1> DEFINE new == Nearer(dist, ns, d)
           M2 == M \cup (ns \X {d})
<1>1. \A n \in DOMAIN dist : n \in Nodes /\ dist[n] \in Nat /\ <<n, dist[n]>> \in M
  BY DEF Nearest
<1>2. DOMAIN new = DOMAIN dist \cup ns
  BY DEF Nearer
<1>3. DOMAIN new = {x[1] : x \in M2}
  <2>1. \A n \in ns : <<n, d>> \in M2 /\ <<n, d>>[1] = n
    OBVIOUS
  <2>2. \A x \in M2 : x \in M \/ x[1] \in ns
    OBVIOUS
  <2>3. DOMAIN dist = {x[1] : x \in M}
    BY DEF Nearest
  <2>4. ns \subseteq {x[1] : x \in M2}
    BY <2>1
  <2>5. {x[1] : x \in M2} \subseteq DOMAIN dist \cup ns
    BY <2>2, <2>3
  <2>6. QED
    BY <1>2, <2>3, <2>4, <2>5
<1>4. ASSUME NEW n \in DOMAIN new
      PROVE  <<n, new[n]>> \in M2 /\ \A k \in Nat : <<n, k>> \in M2 => new[n] <= k
  <2>1. new[n] = IF n \notin ns THEN dist[n]
                 ELSE IF n \in DOMAIN dist THEN Min({dist[n], d}) ELSE d
    BY <1>2 DEF Nearer
  <2>2. \A k \in Nat : <<n, k>> \in M2 => <<n, k>> \in M \/ (n \in ns /\ k = d)
    OBVIOUS
  <2>3. \A k \in Nat : <<n, k>> \in M => n \in DOMAIN dist /\ dist[n] <= k
    <3>1. \A k \in Nat : <<n, k>> \in M => n \in {x[1] : x \in M}
      <4> SUFFICES ASSUME NEW k \in Nat, <<n, k>> \in M PROVE n \in {x[1] : x \in M}
        OBVIOUS
      <4>1. <<n, k>>[1] = n
        OBVIOUS
      <4>2. QED
        BY <4>1
    <3>2. QED
      BY <3>1 DEF Nearest
  <2>4. CASE n \notin ns
    <3>1. n \in DOMAIN dist
      BY <1>2, <2>4
    <3>2. QED
      BY <1>1, <2>1, <2>2, <2>3, <2>4, <3>1
  <2>5. CASE n \in ns /\ n \notin DOMAIN dist
    BY <2>1, <2>2, <2>3, <2>5
  <2>6. CASE n \in ns /\ n \in DOMAIN dist
    <3>1. new[n] = IF dist[n] <= d THEN dist[n] ELSE d
      <4>1. dist[n] \in Int /\ d \in Int
        <5> HIDE DEF new, M2
        <5>1. dist[n] \in Nat
          BY <1>1, <2>6, Zenon
        <5>2. QED
          BY <5>1
      <4>2. Min({dist[n], d}) = IF dist[n] <= d THEN dist[n] ELSE d
        BY <4>1, SmallerOfTwo, Zenon
      <4> HIDE DEF new
      <4>3. new[n] = Min({dist[n], d})
        BY <2>1, <2>6, Zenon
      <4>4. QED
        BY <4>2, <4>3, Zenon
    <3>2. <<n, d>> \in M2 /\ <<n, dist[n]>> \in M2
      BY <1>1, <2>6
    <3>3. QED
      BY <1>1, <2>2, <2>3, <2>6, <3>1, <3>2
  <2>7. QED
    BY <2>4, <2>5, <2>6
<1>5. QED
  BY <1>3, <1>4 DEF Nearest

Directions == {"dependencies", "dependents", "both"}
Distances == UNION {[S -> Nat] : S \in SUBSET Nodes}
LevelTypes ==
    trav \in [tool : {"crate_graph"}, edges : SUBSET VersionEdges, selected : {0, 1},
              direction : Directions, depth : 1..MaxDepth, phase : {"dependencies", "dependents"},
              level : Nat \ {0}, frontier : SUBSET (0..MaxNode),
              dist : Distances,
              slice : SUBSET (Nodes \X Nodes \X Nat), done : BOOLEAN]

\* The levels done of either traversal.
DownLevels(t) ==
    IF t.phase = "dependencies" THEN t.level - 1 ELSE IF t.direction = "both" THEN t.depth ELSE 0
UpLevels(t) == IF t.phase = "dependents" THEN t.level - 1 ELSE 0

\* The places the traversals have found for the crates.
Places(t) ==
    {x \in Nodes \X Nat : \/ x = <<1, 0>>
                          \/ x[2] \in 1..DownLevels(t) /\ x[1] \in Down(t.edges, t.selected, x[2])
                          \/ x[2] \in 1..UpLevels(t) /\ x[1] \in Up(t.edges, x[2])}

Frontier(t) ==
    IF t.phase = "dependencies"
    THEN IF t.level = 1 THEN {t.selected} ELSE Down(t.edges, t.selected, t.level - 1)
    ELSE IF t.level = 1 THEN {1} ELSE Up(t.edges, t.level - 1)

\* The frontier is the last level, and the distances are the nearest places of
\* the levels done.
LevelInv ==
    /\ LevelTypes
    /\ trav.level <= trav.depth + 1
    /\ trav.direction \in {"dependencies", "dependents"} => trav.phase = trav.direction
    /\ trav.frontier = Frontier(trav)
    /\ Nearest(trav.dist, Places(trav))
    /\ \A e \in trav.slice : {e[1], e[2]} \subseteq DOMAIN trav.dist
    /\ trav.done => /\ trav.level > trav.depth \/ trav.frontier = {}
                    /\ ~ (trav.phase = "dependencies" /\ trav.direction = "both")

\* A graph answer starts with the root alone, at distance zero.
LEMMA LevelsStart ==
    ASSUME BeginGraph
    PROVE  LevelInv
<1>1. PICK edges \in SUBSET ((0..MaxNode) \X Nodes), selected \in {0, 1}, depth \in 1..MaxDepth,
           direction \in {"dependencies", "dependents", "both"} :
        trav = [tool |-> "crate_graph", edges |-> edges, selected |-> selected,
                direction |-> direction, depth |-> depth,
                phase |-> IF direction = "dependents" THEN "dependents" ELSE "dependencies",
                level |-> 1, frontier |-> {IF direction = "dependents" THEN 1 ELSE selected},
                dist |-> [n \in {1} |-> 0], slice |-> {}, done |-> FALSE]
  BY DEF BeginGraph
<1>2. 1 \in Nodes /\ 0 \in 0..MaxNode /\ 1 \in 0..MaxNode
  BY GraphBounds DEF Nodes
<1>3. [n \in {1} |-> 0] \in Distances
  <2>1. [n \in {1} |-> 0] \in [{1} -> Nat] /\ {1} \in SUBSET Nodes
    BY <1>2
  <2>2. QED
    BY <2>1 DEF Distances
<1>4. LevelTypes
  BY <1>1, <1>2, <1>3 DEF LevelTypes, Directions, VersionEdges
<1>5. Places(trav) = {<<1, 0>>}
  <2>1. DownLevels(trav) = 0 /\ UpLevels(trav) = 0
    BY <1>1 DEF DownLevels, UpLevels
  <2>2. QED
    BY <1>2, <2>1 DEF Places
<1>6. Nearest(trav.dist, Places(trav))
  <2>1. trav.dist = [n \in {1} |-> 0] /\ DOMAIN trav.dist = {1} /\ trav.dist[1] = 0
    BY <1>1
  <2>2. {x[1] : x \in {<<1, 0>>}} = {1}
    OBVIOUS
  <2>3. QED
    BY <1>5, <2>1, <2>2 DEF Nearest
<1>7. trav.frontier = Frontier(trav)
  BY <1>1 DEF Frontier
<1>8. /\ trav.level = 1 /\ trav.depth = depth /\ trav.slice = {} /\ trav.done = FALSE
      /\ trav.direction = direction
      /\ trav.phase = IF direction = "dependents" THEN "dependents" ELSE "dependencies"
  BY <1>1
<1>9. trav.level <= trav.depth + 1
  BY <1>8, GraphBounds
<1>10. QED
  BY <1>4, <1>6, <1>7, <1>8, <1>9 DEF LevelInv

\* One level of rows, in either direction: the crates it leads to are the next
\* level, and the crates it starts from have their place already.
LEMMA LevelRecorded ==
    ASSUME LevelInv, ~ trav.done, trav.level <= trav.depth,
           NEW rows \in SUBSET trav.edges, NEW nears \in SUBSET Nodes, NEW fars \in SUBSET Nodes,
           trav' = Recorded(trav, rows, nears, fars),
           nears \X {trav.level - 1} \subseteq Places(trav),
           fars = IF trav.phase = "dependencies" THEN Down(trav.edges, trav.selected, trav.level)
                  ELSE Up(trav.edges, trav.level),
           \A r \in rows : {CrateOf(r[1]), r[2]} \subseteq nears \cup fars
    PROVE  LevelInv'
<1> DEFINE l == trav.level
           new == Nearer(Nearer(trav.dist, nears, l - 1), fars, l)
           M == Places(trav)
<1>1. LevelTypes /\ l \in Nat \ {0} /\ l - 1 \in Nat
  BY DEF LevelInv, LevelTypes
<1>2. M \in SUBSET (Nodes \X Nat)
  BY DEF Places
<1>3. Nearest(Nearer(trav.dist, nears, l - 1), M \cup (nears \X {l - 1}))
  BY <1>1, <1>2, NearerKeeps DEF LevelInv
<1>4. M \cup (nears \X {l - 1}) = M
  OBVIOUS
<1>5. Nearest(new, M \cup (fars \X {l}))
  BY <1>1, <1>2, <1>3, <1>4, NearerKeeps
<1>6. new \in Distances
  <2> DEFINE N2 == M \cup (fars \X {l})
  <2>1. N2 \in SUBSET (Nodes \X Nat)
    BY <1>1, <1>2
  <2>2. DOMAIN new = {x[1] : x \in N2} /\ \A n \in DOMAIN new : <<n, new[n]>> \in N2
    BY <1>5 DEF Nearest
  <2>3. DOMAIN new \in SUBSET Nodes /\ \A n \in DOMAIN new : new[n] \in Nat
    <3> HIDE DEF N2, new
    <3>1. QED
      BY <2>1, <2>2
  <2>4. new = [n \in DOMAIN new |-> new[n]]
    BY DEF Nearer
  <2>5. new \in [DOMAIN new -> Nat]
    <3> HIDE DEF N2, new
    <3>1. QED
      BY <2>3, <2>4
  <2>6. QED
    BY <2>3, <2>5 DEF Distances
<1>7. \A r \in rows : CrateOf(r[1]) \in Nodes /\ r[2] \in Nodes
  OBVIOUS
<1>8. /\ trav' = [trav EXCEPT !.dist = new,
                              !.slice = trav.slice \cup {<<CrateOf(r[1]), r[2], l>> : r \in rows},
                              !.frontier = fars,
                              !.level = l + 1]
  BY DEF Recorded
<1> HIDE DEF new, M
<1>9. LevelTypes'
  <2>1. {<<CrateOf(r[1]), r[2], l>> : r \in rows} \in SUBSET (Nodes \X Nodes \X Nat)
    BY <1>1, <1>7
  <2>2. fars \in SUBSET (0..MaxNode)
    BY DEF Nodes
  <2>3. l + 1 \in Nat \ {0}
    BY <1>1
  <2>4. trav.slice \cup {<<CrateOf(r[1]), r[2], l>> : r \in rows} \in SUBSET (Nodes \X Nodes \X Nat)
    BY <1>1, <2>1 DEF LevelTypes
  <2> DEFINE slice2 == trav.slice \cup {<<CrateOf(r[1]), r[2], l>> : r \in rows}
  <2>5. trav' = [trav EXCEPT !.dist = new, !.slice = slice2, !.frontier = fars, !.level = l + 1]
    BY <1>8
  <2> HIDE DEF slice2, l
  <2>6. trav' = [tool |-> trav.tool, edges |-> trav.edges, selected |-> trav.selected,
                 direction |-> trav.direction, depth |-> trav.depth, phase |-> trav.phase,
                 level |-> l + 1, frontier |-> fars, dist |-> new, slice |-> slice2,
                 done |-> trav.done]
    BY <1>1, <2>5 DEF LevelTypes
  <2>7. slice2 \in SUBSET (Nodes \X Nodes \X Nat)
    BY <2>4 DEF slice2
  <2>8. QED
    BY <1>1, <1>6, <2>2, <2>3, <2>6, <2>7 DEF LevelTypes
<1>10. /\ trav'.edges = trav.edges /\ trav'.selected = trav.selected
       /\ trav'.direction = trav.direction /\ trav'.depth = trav.depth
       /\ trav'.phase = trav.phase /\ trav'.done = trav.done /\ trav'.level = l + 1
       /\ trav'.frontier = fars /\ trav'.dist = new
       /\ trav'.slice = trav.slice \cup {<<CrateOf(r[1]), r[2], l>> : r \in rows}
  BY <1>1, <1>8 DEF LevelTypes
<1>11. trav'.frontier = Frontier(trav')
  BY <1>1, <1>10 DEF Frontier
<1>12. Places(trav') = M \cup (fars \X {l})
  <2>1. CASE trav.phase = "dependencies"
    <3>1. DownLevels(trav) = l - 1 /\ DownLevels(trav') = l /\ UpLevels(trav) = 0 /\ UpLevels(trav') = 0
      BY <1>1, <1>10, <2>1 DEF DownLevels, UpLevels
    <3>2. 1..l = 1..(l - 1) \cup {l}
      BY <1>1
    <3>3. fars = Down(trav.edges, trav.selected, l)
      BY <2>1
    <3>4. \A x \in Nodes \X Nat : x \in fars \X {l} <=> x[2] = l /\ x[1] \in fars
      BY <1>1
    <3>5. \A x \in Nodes \X Nat : x \in Places(trav') <=> x \in M \/ x \in fars \X {l}
      BY <1>10, <3>1, <3>2, <3>3, <3>4 DEF Places, M
    <3>6. fars \X {l} \subseteq Nodes \X Nat /\ M \subseteq Nodes \X Nat
      BY <1>1, <1>2
    <3>7. Places(trav') \subseteq Nodes \X Nat
      BY DEF Places
    <3> HIDE DEF l
    <3>8. QED
      BY <3>5, <3>6, <3>7
  <2>2. CASE trav.phase = "dependents"
    <3>1. /\ DownLevels(trav') = DownLevels(trav)
          /\ UpLevels(trav) = l - 1 /\ UpLevels(trav') = l
      BY <1>1, <1>10, <2>2 DEF DownLevels, UpLevels
    <3>2. 1..l = 1..(l - 1) \cup {l}
      BY <1>1
    <3>3. fars = Up(trav.edges, l)
      BY <2>2
    <3>4. \A x \in Nodes \X Nat : x \in fars \X {l} <=> x[2] = l /\ x[1] \in fars
      BY <1>1
    <3>5. \A x \in Nodes \X Nat : x \in Places(trav') <=> x \in M \/ x \in fars \X {l}
      BY <1>10, <3>1, <3>2, <3>3, <3>4 DEF Places, M
    <3>6. fars \X {l} \subseteq Nodes \X Nat /\ M \subseteq Nodes \X Nat
      BY <1>1, <1>2
    <3>7. Places(trav') \subseteq Nodes \X Nat
      BY DEF Places
    <3> HIDE DEF l
    <3>8. QED
      BY <3>5, <3>6, <3>7
  <2>3. QED
    BY <1>1, <2>1, <2>2 DEF LevelTypes
<1>13. Nearest(trav'.dist, Places(trav'))
  BY <1>5, <1>10, <1>12
<1>14. \A e \in trav'.slice : {e[1], e[2]} \subseteq DOMAIN trav'.dist
  <2>1. DOMAIN trav'.dist = DOMAIN trav.dist \cup nears \cup fars
    BY <1>10 DEF Nearer, new
  <2>2. \A e \in trav.slice : {e[1], e[2]} \subseteq DOMAIN trav'.dist
    BY <2>1 DEF LevelInv
  <2>3. \A r \in rows : {CrateOf(r[1]), r[2]} \subseteq DOMAIN trav'.dist
    BY <2>1
  <2>4. QED
    BY <1>10, <2>2, <2>3
<1>15. QED
  BY <1>1, <1>9, <1>10, <1>11, <1>13, <1>14 DEF LevelInv, LevelTypes

\* Following the edges of one level of dependencies keeps LevelInv.
LEMMA DependencyLevelKeeps ==
    ASSUME LevelInv, DependencyLevel
    PROVE  LevelInv'
<1> DEFINE rows == {e \in trav.edges : e[1] \in trav.frontier}
           nears == {CrateOf(r[1]) : r \in rows}
           fars == {r[2] : r \in rows}
           l == trav.level
<1>1. /\ ~ trav.done /\ trav.phase = "dependencies" /\ trav.level <= trav.depth
      /\ trav' = Recorded(trav, rows, nears, fars)
  BY DEF DependencyLevel
<1>2. /\ trav.edges \in SUBSET VersionEdges /\ l \in Nat \ {0} /\ trav.selected \in {0, 1}
      /\ trav.frontier = IF l = 1 THEN {trav.selected} ELSE Down(trav.edges, trav.selected, l - 1)
  BY <1>1 DEF LevelInv, LevelTypes, Frontier
<1>3. nears \in SUBSET Nodes /\ fars \in SUBSET Nodes
  BY <1>2, GraphBounds DEF VersionEdges, CrateOf, Nodes
<1>4. fars = Down(trav.edges, trav.selected, l)
  <2>1. CASE l = 1
    <3>1. rows = {x \in trav.edges : x[1] = trav.selected}
      BY <1>2, <2>1
    <3>2. QED
      BY <1>2, <2>1, <3>1, FirstStep
  <2>2. CASE l # 1
    <3>1. l \in Nat \ {0, 1}
      BY <1>2, <2>2
    <3>2. rows = {x \in trav.edges : x[1] \in Down(trav.edges, trav.selected, l - 1)}
      BY <1>2, <2>2
    <3> HIDE DEF l
    <3>3. QED
      BY <1>2, <3>1, <3>2, LastStep
  <2>3. QED
    BY <2>1, <2>2
<1>5. nears \X {l - 1} \subseteq Places(trav)
  <2> SUFFICES ASSUME NEW r \in rows
               PROVE  <<CrateOf(r[1]), l - 1>> \in Places(trav)
    OBVIOUS
  <2>1. CrateOf(r[1]) \in Nodes /\ l - 1 \in Nat /\ r[1] \in trav.frontier
    BY <1>2, <1>3
  <2>2. CASE l = 1
    <3>1. CrateOf(r[1]) = 1 /\ l - 1 = 0
      BY <1>2, <2>1, <2>2 DEF CrateOf
    <3>2. QED
      BY <2>1, <3>1 DEF Places
  <2>3. CASE l # 1
    <3>1. l - 1 \in Nat \ {0}
      BY <1>2, <2>3
    <3>2. r[1] \in Down(trav.edges, trav.selected, l - 1) /\ r[1] \in Nodes
      BY <1>2, <2>1, <2>3, <3>1, DownNodes
    <3>3. CrateOf(r[1]) = r[1]
      BY <3>2 DEF CrateOf, Nodes
    <3>4. DownLevels(trav) = l - 1 /\ l - 1 \in 1..(l - 1)
      BY <1>1, <1>2, <3>1 DEF DownLevels
    <3>5. QED
      BY <2>1, <3>2, <3>3, <3>4 DEF Places
  <2>4. QED
    BY <2>2, <2>3
<1>6. \A r \in rows : {CrateOf(r[1]), r[2]} \subseteq nears \cup fars
  OBVIOUS
<1>7. rows \in SUBSET trav.edges
  OBVIOUS
<1>8. fars = IF trav.phase = "dependencies" THEN Down(trav.edges, trav.selected, trav.level)
             ELSE Up(trav.edges, trav.level)
  BY <1>1, <1>4
<1> HIDE DEF rows, nears, fars
<1>9. QED
  BY <1>1, <1>3, <1>5, <1>6, <1>7, <1>8, LevelRecorded

\* So does following those of one level of dependents.
LEMMA DependentLevelKeeps ==
    ASSUME LevelInv, DependentLevel
    PROVE  LevelInv'
<1> DEFINE rows == {e \in trav.edges : e[2] \in trav.frontier}
           nears == {r[2] : r \in rows}
           fars == {CrateOf(r[1]) : r \in rows}
           up == UpEdges(trav.edges)
           l == trav.level
<1>1. /\ ~ trav.done /\ trav.phase = "dependents" /\ trav.level <= trav.depth
      /\ trav' = Recorded(trav, rows, nears, fars)
  BY DEF DependentLevel
<1>2. /\ trav.edges \in SUBSET VersionEdges /\ l \in Nat \ {0}
      /\ trav.frontier = IF l = 1 THEN {1} ELSE Up(trav.edges, l - 1)
  BY <1>1 DEF LevelInv, LevelTypes, Frontier
<1>3. nears \in SUBSET Nodes /\ fars \in SUBSET Nodes
  BY <1>2, GraphBounds DEF VersionEdges, CrateOf, Nodes
<1>4. up \in SUBSET VersionEdges
  BY <1>2, UpEdgesTyped
<1>5. fars = {e[2] : e \in {x \in up : x[1] \in trav.frontier}}
  <2>1. \A r \in rows : /\ <<r[2], CrateOf(r[1])>> \in up
                        /\ <<r[2], CrateOf(r[1])>>[1] \in trav.frontier
                        /\ <<r[2], CrateOf(r[1])>>[2] = CrateOf(r[1])
    BY DEF UpEdges
  <2>2. \A x \in up : \E r \in trav.edges : x[1] = r[2] /\ x[2] = CrateOf(r[1])
    BY DEF UpEdges
  <2>3. fars \subseteq {e[2] : e \in {x \in up : x[1] \in trav.frontier}}
    BY <2>1
  <2>4. {e[2] : e \in {x \in up : x[1] \in trav.frontier}} \subseteq fars
    BY <2>2
  <2>5. QED
    BY <2>3, <2>4
<1>6. fars = Up(trav.edges, l)
  <2>1. CASE l = 1
    <3>1. {x \in up : x[1] \in trav.frontier} = {x \in up : x[1] = 1}
      BY <1>2, <2>1
    <3>2. Down(up, 1, 1) = {e[2] : e \in {x \in up : x[1] = 1}}
      <4> HIDE DEF up
      <4>1. QED
        BY <1>4, FirstStep
    <3>3. QED
      BY <1>5, <2>1, <3>1, <3>2 DEF Up
  <2>2. CASE l # 1
    <3>1. l \in Nat \ {0, 1}
      BY <1>2, <2>2
    <3>2. {x \in up : x[1] \in trav.frontier} = {x \in up : x[1] \in Down(up, 1, l - 1)}
      BY <1>2, <2>2 DEF Up
    <3>3. Down(up, 1, l) = {e[2] : e \in {x \in up : x[1] \in Down(up, 1, l - 1)}}
      <4> HIDE DEF up, l
      <4>1. QED
        BY <1>4, <3>1, LastStep
    <3>4. QED
      BY <1>5, <3>1, <3>2, <3>3 DEF Up
  <2>3. QED
    BY <2>1, <2>2
<1>7. nears \X {l - 1} \subseteq Places(trav)
  <2> SUFFICES ASSUME NEW r \in rows
               PROVE  <<r[2], l - 1>> \in Places(trav)
    OBVIOUS
  <2>1. r[2] \in Nodes /\ l - 1 \in Nat /\ r[2] \in trav.frontier
    BY <1>2, <1>3
  <2>2. CASE l = 1
    <3>1. r[2] = 1 /\ l - 1 = 0
      BY <1>2, <2>1, <2>2
    <3>2. QED
      BY <2>1, <3>1 DEF Places
  <2>3. CASE l # 1
    <3>1. l - 1 \in Nat \ {0}
      BY <1>2, <2>3
    <3>2. r[2] \in Up(trav.edges, l - 1)
      BY <1>2, <2>1, <2>3
    <3>3. UpLevels(trav) = l - 1 /\ l - 1 \in 1..(l - 1)
      BY <1>1, <1>2, <3>1 DEF UpLevels
    <3>4. QED
      BY <2>1, <3>2, <3>3 DEF Places
  <2>4. QED
    BY <2>2, <2>3
<1>8. \A r \in rows : {CrateOf(r[1]), r[2]} \subseteq nears \cup fars
  OBVIOUS
<1>9. rows \in SUBSET trav.edges
  OBVIOUS
<1>10. fars = IF trav.phase = "dependencies" THEN Down(trav.edges, trav.selected, trav.level)
              ELSE Up(trav.edges, trav.level)
  BY <1>1, <1>6
<1> HIDE DEF rows, nears, fars
<1>11. QED
  BY <1>1, <1>3, <1>7, <1>8, <1>9, <1>10, LevelRecorded

\* When a traversal has no more rows, or is as deep as was asked, the levels it
\* did not do are empty or too deep.
LEMMA LevelsOver ==
    ASSUME LevelInv, trav.level > trav.depth \/ trav.frontier = {}
    PROVE  /\ trav.phase = "dependencies" =>
                  \A d \in 1..trav.depth : d \notin 1..(trav.level - 1)
                      => Down(trav.edges, trav.selected, d) = {}
           /\ trav.phase = "dependents" =>
                  \A d \in 1..trav.depth : d \notin 1..(trav.level - 1) => Up(trav.edges, d) = {}
<1> DEFINE l == trav.level
<1>1. l \in Nat \ {0} /\ trav.depth \in Nat \ {0}
  BY DEF LevelInv, LevelTypes
<1>2. ASSUME NEW d \in 1..trav.depth, d \notin 1..(l - 1)
      PROVE  l <= d /\ d \in Nat \ {0} /\ trav.frontier = {}
  BY <1>1, <1>2
<1>3. trav.frontier = {} => l - 1 \in Nat \ {0}
  <2>1. l = 1 => trav.frontier # {}
    BY DEF LevelInv, Frontier
  <2>2. QED
    BY <1>1, <2>1
<1>4. ASSUME trav.phase = "dependencies", NEW d \in 1..trav.depth, d \notin 1..(l - 1)
      PROVE  Down(trav.edges, trav.selected, d) = {}
  <2>1. l - 1 <= d /\ d \in Nat /\ l - 1 \in Nat \ {0} /\ l # 1
    BY <1>1, <1>2, <1>3, <1>4
  <2>2. Down(trav.edges, trav.selected, l - 1) = {}
    BY <1>2, <1>4, <2>1 DEF LevelInv, Frontier
  <2>3. QED
    BY <2>1, <2>2, NoLongerWalk
<1>5. ASSUME trav.phase = "dependents", NEW d \in 1..trav.depth, d \notin 1..(l - 1)
      PROVE  Up(trav.edges, d) = {}
  <2>1. l - 1 <= d /\ d \in Nat /\ l - 1 \in Nat \ {0} /\ l # 1
    BY <1>1, <1>2, <1>3, <1>5
  <2>2. Up(trav.edges, l - 1) = {}
    BY <1>2, <1>5, <2>1 DEF LevelInv, Frontier
  <2>3. QED
    BY <2>1, <2>2, NoLongerWalk DEF Up
<1>6. QED
  BY <1>4, <1>5

\* So does turning from dependencies to dependents, and stopping.
LEMMA LevelsDoneKeeps ==
    ASSUME LevelInv, LevelsDone
    PROVE  LevelInv'
<1>1. LevelTypes /\ ~ trav.done /\ (trav.level > trav.depth \/ trav.frontier = {})
  BY DEF LevelInv, LevelsDone
<1>2. CASE trav.phase = "dependencies" /\ trav.direction = "both"
  <2>1. trav' = [trav EXCEPT !.phase = "dependents", !.level = 1, !.frontier = {1}]
    BY <1>2 DEF LevelsDone
  <2>2. {1} \in SUBSET (0..MaxNode) /\ 1 \in Nat \ {0}
    BY GraphBounds
  <2>3. LevelTypes'
    BY <1>1, <2>1, <2>2 DEF LevelTypes
  <2>4. /\ trav'.edges = trav.edges /\ trav'.selected = trav.selected
        /\ trav'.direction = trav.direction /\ trav'.depth = trav.depth
        /\ trav'.phase = "dependents" /\ trav'.done = trav.done /\ trav'.level = 1
        /\ trav'.frontier = {1} /\ trav'.dist = trav.dist /\ trav'.slice = trav.slice
    BY <1>1, <2>1 DEF LevelTypes
  <2>5. /\ DownLevels(trav) = trav.level - 1 /\ DownLevels(trav') = trav.depth
        /\ UpLevels(trav) = 0 /\ UpLevels(trav') = 0
    BY <1>2, <2>4 DEF DownLevels, UpLevels
  <2>6. trav.level \in Nat \ {0} /\ trav.depth \in Nat \ {0} /\ trav.level <= trav.depth + 1
    BY <1>1 DEF LevelInv, LevelTypes
  <2>7. \A d \in 1..trav.depth : d \notin 1..(trav.level - 1)
            => Down(trav.edges, trav.selected, d) = {}
    BY <1>1, <1>2, LevelsOver
  <2>8. \A d \in 1..(trav.level - 1) : d \in 1..trav.depth
    BY <2>6
  <2>9. Places(trav') = Places(trav)
    BY <2>4, <2>5, <2>7, <2>8 DEF Places
  <2>10. trav'.level <= trav'.depth + 1
    BY <2>4, <2>6
  <2>11. trav'.frontier = Frontier(trav')
    BY <2>4 DEF Frontier
  <2>12. QED
    BY <1>1, <1>2, <2>3, <2>4, <2>9, <2>10, <2>11 DEF LevelInv
<1>3. CASE ~ (trav.phase = "dependencies" /\ trav.direction = "both")
  <2>1. trav' = [trav EXCEPT !.done = TRUE]
    BY <1>3 DEF LevelsDone
  <2>2. LevelTypes'
    BY <1>1, <2>1 DEF LevelTypes
  <2>3. /\ trav'.edges = trav.edges /\ trav'.selected = trav.selected
        /\ trav'.direction = trav.direction /\ trav'.depth = trav.depth
        /\ trav'.phase = trav.phase /\ trav'.level = trav.level
        /\ trav'.frontier = trav.frontier /\ trav'.dist = trav.dist /\ trav'.slice = trav.slice
    BY <1>1, <2>1 DEF LevelTypes
  <2>4. Places(trav') = Places(trav) /\ Frontier(trav') = Frontier(trav)
    BY <2>3 DEF Places, DownLevels, UpLevels, Frontier
  <2>5. QED
    BY <1>1, <1>3, <2>2, <2>3, <2>4 DEF LevelInv
<1>4. QED
  BY <1>2, <1>3

\* A crate is d levels away when a walk of d steps ends there, in a direction
\* that was asked for.
LEMMA AtLevelIs ==
    ASSUME NEW t, t.edges \in SUBSET VersionEdges, NEW d \in Nat \ {0}, NEW n
    PROVE  n \in AtLevel(t, d) <=> \/ t.direction # "dependents" /\ n \in Down(t.edges, t.selected, d)
                                   \/ t.direction # "dependencies" /\ n \in Up(t.edges, d)
<1>1. \A p : WalkUp(t.edges, p) <=> WalkDown(UpEdges(t.edges), 1, p)
  BY WalkUpIsDown
<1>2. d # 0
  OBVIOUS
<1>3. AtLevel(t, d) = {p[d] : p \in {q \in [1..d -> Nodes] :
              \/ t.direction # "dependents" /\ WalkDown(t.edges, t.selected, q)
              \/ t.direction # "dependencies" /\ WalkDown(UpEdges(t.edges), 1, q)}}
  BY <1>1, <1>2 DEF AtLevel
<1>4. QED
  BY <1>3 DEF Down, Up

\* At the end the places seen are those at the levels asked for.
LEMMA PlacesAtEnd ==
    ASSUME LevelInv, trav.done
    PROVE  Places(trav) = {x \in Nodes \X Nat : x[2] \in 0..trav.depth /\ x[1] \in AtLevel(trav, x[2])}
<1>1. /\ trav.edges \in SUBSET VersionEdges /\ trav.direction \in Directions
      /\ trav.phase \in {"dependencies", "dependents"}
      /\ trav.level \in Nat \ {0} /\ trav.depth \in Nat \ {0} /\ trav.level <= trav.depth + 1
  BY DEF LevelInv, LevelTypes
<1>2. /\ trav.level > trav.depth \/ trav.frontier = {}
      /\ ~ (trav.phase = "dependencies" /\ trav.direction = "both")
      /\ trav.direction \in {"dependencies", "dependents"} => trav.phase = trav.direction
  BY DEF LevelInv
<1>3. /\ trav.direction = "dependencies" => trav.phase = "dependencies"
      /\ trav.direction # "dependencies" => trav.phase = "dependents"
  BY <1>1, <1>2 DEF Directions
<1> DEFINE down(d) == Down(trav.edges, trav.selected, d)
           up(d) == Up(trav.edges, d)
<1>4. /\ trav.phase = "dependencies" =>
            \A d \in 1..trav.depth : d \notin 1..(trav.level - 1) => down(d) = {}
      /\ trav.phase = "dependents" =>
            \A d \in 1..trav.depth : d \notin 1..(trav.level - 1) => up(d) = {}
  BY <1>2, LevelsOver
<1>5. \A d \in 1..(trav.level - 1) : d \in 1..trav.depth
  BY <1>1
<1>6. \A d : 0 \notin 1..d
  OBVIOUS
<1>7. AtLevel(trav, 0) = {1}
  BY DEF AtLevel
<1>8. ASSUME NEW x \in Nodes \X Nat, x[2] = 0
      PROVE  x \in Places(trav) <=> x[2] \in 0..trav.depth /\ x[1] \in AtLevel(trav, x[2])
  <2>1. x \in Places(trav) <=> x = <<1, 0>>
    BY <1>6, <1>8 DEF Places
  <2>2. x = <<x[1], x[2]>>
    OBVIOUS
  <2>3. QED
    BY <1>1, <1>7, <1>8, <2>1, <2>2
<1>9. ASSUME NEW x \in Nodes \X Nat, x[2] # 0
      PROVE  x \in Places(trav) <=> x[2] \in 0..trav.depth /\ x[1] \in AtLevel(trav, x[2])
  <2> DEFINE d == x[2]
             n == x[1]
  <2>1. d \in Nat \ {0} /\ x # <<1, 0>>
    BY <1>9
  <2>2. d \in 0..trav.depth <=> d \in 1..trav.depth
    BY <1>1, <2>1
  <2>3. n \in AtLevel(trav, d) <=> \/ trav.direction # "dependents" /\ n \in down(d)
                                   \/ trav.direction # "dependencies" /\ n \in up(d)
    BY <1>1, <2>1, AtLevelIs
  <2>4. x \in Places(trav) <=> \/ d \in 1..DownLevels(trav) /\ n \in down(d)
                               \/ d \in 1..UpLevels(trav) /\ n \in up(d)
    BY <2>1 DEF Places
  <2>5. CASE trav.phase = "dependencies"
    <3>1. DownLevels(trav) = trav.level - 1 /\ UpLevels(trav) = 0 /\ trav.direction = "dependencies"
      BY <1>3, <2>5 DEF DownLevels, UpLevels
    <3>2. d \notin 1..0
      BY <2>1
    <3>3. QED
      BY <1>4, <1>5, <2>2, <2>3, <2>4, <2>5, <3>1, <3>2
  <2>6. CASE trav.phase = "dependents"
    <3>1. trav.direction \in {"both", "dependents"} /\ UpLevels(trav) = trav.level - 1
      BY <1>1, <1>3, <2>6 DEF UpLevels, Directions
    <3>2. DownLevels(trav) = IF trav.direction = "both" THEN trav.depth ELSE 0
      BY <2>6 DEF DownLevels
    <3>3. d \notin 1..0
      BY <2>1
    <3>4. QED
      BY <1>4, <1>5, <2>2, <2>3, <2>4, <2>6, <3>1, <3>2, <3>3
  <2>7. QED
    BY <1>1, <2>5, <2>6
<1>10. \A x \in Nodes \X Nat :
          x \in Places(trav) <=> x[2] \in 0..trav.depth /\ x[1] \in AtLevel(trav, x[2])
  BY <1>8, <1>9
<1>11. Places(trav) \subseteq Nodes \X Nat
  BY DEF Places
<1>12. QED
  BY <1>10, <1>11

\* So each node has its shortest distance, and no node within reach is missing.
LEMMA LevelsAtEnd ==
    ASSUME LevelInv, trav.done
    PROVE  DistancesExact
<1> DEFINE M == Places(trav)
           At(n) == {d \in 0..trav.depth : n \in AtLevel(trav, d)}
<1>1. M = {x \in Nodes \X Nat : x[2] \in 0..trav.depth /\ x[1] \in AtLevel(trav, x[2])}
  BY PlacesAtEnd
<1>2. trav.edges \in SUBSET VersionEdges /\ trav.depth \in Nat
  BY DEF LevelInv, LevelTypes
<1>3. \A d \in 0..trav.depth : AtLevel(trav, d) \subseteq Nodes
  <2>1. AtLevel(trav, 0) \subseteq Nodes
    BY GraphBounds DEF AtLevel, Nodes
  <2>2. ASSUME NEW d \in 0..trav.depth, d # 0
        PROVE  AtLevel(trav, d) \subseteq Nodes
    <3>1. d \in Nat \ {0} /\ d \in 1..d
      BY <1>2, <2>2
    <3>2. QED
      BY <2>2, <3>1 DEF AtLevel
  <2>3. QED
    BY <2>1, <2>2
<1>4. \A n, d : <<n, d>> \in M <=> d \in 0..trav.depth /\ n \in AtLevel(trav, d)
  <2>1. \A d \in 0..trav.depth : d \in Nat
    BY <1>2
  <2>2. QED
    BY <1>1, <1>3, <2>1
<1>5. /\ DOMAIN trav.dist = {x[1] : x \in M}
      /\ \A n \in DOMAIN trav.dist :
            <<n, trav.dist[n]>> \in M /\ \A d \in Nat : <<n, d>> \in M => trav.dist[n] <= d
  BY DEF LevelInv, Nearest
<1>6. DOMAIN trav.dist = UNION {AtLevel(trav, d) : d \in 0..trav.depth}
  <2>1. \A x \in M : x[1] \in UNION {AtLevel(trav, d) : d \in 0..trav.depth}
    BY <1>1
  <2>2. \A d \in 0..trav.depth : \A n \in AtLevel(trav, d) : n \in {x[1] : x \in M}
    <3> SUFFICES ASSUME NEW d \in 0..trav.depth, NEW n \in AtLevel(trav, d)
                 PROVE  n \in {x[1] : x \in M}
      OBVIOUS
    <3>1. <<n, d>> \in M /\ <<n, d>>[1] = n
      BY <1>4
    <3> HIDE DEF M
    <3>2. QED
      BY <3>1
  <2>3. QED
    BY <1>5, <2>1, <2>2
<1>7. ASSUME NEW n \in DOMAIN trav.dist
      PROVE  trav.dist[n] = Min(At(n))
  <2>1. trav.dist[n] \in At(n)
    BY <1>4, <1>5, <1>7
  <2>2. \A d \in At(n) : trav.dist[n] <= d
    <3> SUFFICES ASSUME NEW d \in 0..trav.depth, n \in AtLevel(trav, d)
                 PROVE  trav.dist[n] <= d
      OBVIOUS
    <3>1. d \in Nat /\ <<n, d>> \in M
      BY <1>2, <1>4
    <3> HIDE DEF M
    <3>2. QED
      BY <1>5, <3>1
  <2>3. At(n) \subseteq Int
    BY <1>2
  <2> HIDE DEF At
  <2>4. QED
    BY <2>1, <2>2, <2>3 DEF Min
<1>8. QED
  BY <1>6, <1>7 DEF DistancesExact, LevelInv
-----------------------------------------------------------------------------
(* detect_cycle_presence. *)

CycleTypes ==
    trav \in [tool : {"cycles"}, edges : SUBSET Edges, gray : Seq(Nodes),
              left : [Nodes -> SUBSET Nodes], black : SUBSET Nodes, found : BOOLEAN, done : BOOLEAN]

\* A gray node is reached from every one below it on the stack.
GrayPath ==
    \A i, j \in 1..Len(trav.gray) : i < j => trav.gray[j] \in Reachable(trav.edges, trav.gray[i])
Coloured ==
    /\ \A i, j \in 1..Len(trav.gray) : trav.gray[i] = trav.gray[j] => i = j
    /\ ToSet(trav.gray) \cap trav.black = {}
    /\ \A n \in Nodes : trav.left[n] \subseteq Below(trav.edges, n)
    /\ \A n \in Nodes \ (ToSet(trav.gray) \cup trav.black) : trav.left[n] = Below(trav.edges, n)

\* What is below a black node is black and on no cycle; a neighbour of a gray
\* node that is not left to visit is black, or the next on the stack.
BlackClosed ==
    \A n \in trav.black : Below(trav.edges, n) \subseteq trav.black /\ n \notin Reachable(trav.edges, n)
GrayVisited ==
    \A i \in 1..Len(trav.gray) :
        \A m \in Below(trav.edges, trav.gray[i]) \ trav.left[trav.gray[i]] :
            m \in trav.black \/ (i < Len(trav.gray) /\ m = trav.gray[i + 1])
CycleInv ==
    /\ CycleTypes
    /\ GrayPath
    /\ Coloured
    /\ BlackClosed
    /\ GrayVisited
    /\ trav.found => trav.done /\ \E n \in Nodes : n \in Reachable(trav.edges, n)
    /\ trav.done /\ ~ trav.found => \A n \in Nodes \ trav.black : Below(trav.edges, n) = {}

\* The cycle search starts with every node white.
LEMMA CyclesStart ==
    ASSUME BeginCycles
    PROVE  CycleInv
<1>1. PICK edges \in SUBSET (Nodes \X Nodes) :
        trav = [tool |-> "cycles", edges |-> edges, gray |-> <<>>,
                left |-> [n \in Nodes |-> Below(edges, n)], black |-> {},
                found |-> FALSE, done |-> FALSE]
  BY DEF BeginCycles
<1>2. [n \in Nodes |-> Below(edges, n)] \in [Nodes -> SUBSET Nodes]
  BY BelowNodes
<1>3. CycleTypes
  BY <1>1, <1>2 DEF CycleTypes, Edges
<1>4. /\ trav.gray = <<>> /\ Len(trav.gray) = 0 /\ ToSet(trav.gray) = {} /\ trav.black = {}
      /\ trav.edges = edges /\ trav.left = [n \in Nodes |-> Below(edges, n)]
      /\ ~ trav.found /\ ~ trav.done
  BY <1>1 DEF ToSet
<1>5. GrayPath /\ Coloured /\ BlackClosed /\ GrayVisited
  BY <1>4 DEF GrayPath, Coloured, BlackClosed, GrayVisited
<1>6. QED
  BY <1>3, <1>4, <1>5 DEF CycleInv

\* A node pushed on the stack.
LEMMA ElementsOfAppend ==
    ASSUME NEW T, NEW s \in Seq(T), NEW m \in T
    PROVE  /\ Append(s, m) \in Seq(T) /\ Len(Append(s, m)) = Len(s) + 1 /\ Len(s) \in Nat
           /\ \A i \in 1..Len(s) : Append(s, m)[i] = s[i]
           /\ Append(s, m)[Len(s) + 1] = m
           /\ ToSet(Append(s, m)) = ToSet(s) \cup {m}
<1>1. /\ Append(s, m) \in Seq(T) /\ Len(Append(s, m)) = Len(s) + 1
      /\ \A i \in 1..Len(s) : Append(s, m)[i] = s[i]
      /\ Append(s, m)[Len(s) + 1] = m
  BY AppendProperties
<1>2. /\ Len(s) \in Nat /\ DOMAIN s = 1..Len(s)
      /\ DOMAIN Append(s, m) = 1..(Len(s) + 1)
  BY <1>1, LenProperties
<1>3. \A i \in 1..(Len(s) + 1) : i \in 1..Len(s) \/ i = Len(s) + 1
  BY <1>2
<1>4. \A i \in 1..Len(s) : i \in 1..(Len(s) + 1)
  BY <1>2
<1>5. Len(s) + 1 \in 1..(Len(s) + 1)
  BY <1>2
<1>6. ToSet(Append(s, m)) = ToSet(s) \cup {m}
  BY <1>1, <1>2, <1>3, <1>4, <1>5 DEF ToSet
<1>7. QED
  BY <1>1, <1>2, <1>6

\* Starting from a white root keeps CycleInv.
LEMMA RootVisited ==
    ASSUME CycleInv, VisitRoot
    PROVE  CycleInv'
<1>1. PICK n \in Nodes \ trav.black : trav' = [trav EXCEPT !.gray = <<n>>]
  BY DEF VisitRoot
<1>2. CycleTypes /\ ~ trav.done /\ ~ trav.found /\ trav.gray = <<>>
  BY DEF CycleInv, VisitRoot
<1>3. <<n>> \in Seq(Nodes) /\ Len(<<n>>) = 1 /\ <<n>>[1] = n
  BY <1>1
<1>4. ToSet(<<n>>) = {n} /\ ToSet(trav.gray) = {}
  BY <1>2 DEF ToSet
<1>5. CycleTypes'
  BY <1>1, <1>2, <1>3 DEF CycleTypes
<1>6. /\ trav'.edges = trav.edges /\ trav'.gray = <<n>> /\ trav'.left = trav.left
      /\ trav'.black = trav.black /\ trav'.found = trav.found /\ trav'.done = trav.done
  BY <1>1, <1>2 DEF CycleTypes
<1>7. GrayPath' /\ BlackClosed'
  BY <1>3, <1>6 DEF GrayPath, BlackClosed, CycleInv
<1>8. Coloured'
  BY <1>1, <1>3, <1>4, <1>6 DEF Coloured, CycleInv
<1>9. GrayVisited'
  <2>1. trav.left[n] = Below(trav.edges, n)
    BY <1>1, <1>4 DEF Coloured, CycleInv
  <2>2. QED
    BY <1>3, <1>6, <2>1 DEF GrayVisited
<1>10. QED
  BY <1>2, <1>5, <1>6, <1>7, <1>8, <1>9 DEF CycleInv

\* The end of the gray path is the node the search is at.
LEMMA LastGray ==
    ASSUME CycleTypes, trav.gray # <<>>
    PROVE  /\ Len(trav.gray) \in Nat \ {0} /\ DOMAIN trav.gray = 1..Len(trav.gray)
           /\ Last(trav.gray) = trav.gray[Len(trav.gray)] /\ Last(trav.gray) \in Nodes
           /\ \A i \in 1..Len(trav.gray) : trav.gray[i] \in Nodes /\ trav.gray[i] \in ToSet(trav.gray)
<1>1. trav.gray \in Seq(Nodes)
  BY DEF CycleTypes
<1>2. Len(trav.gray) \in Nat \ {0} /\ DOMAIN trav.gray = 1..Len(trav.gray)
  BY <1>1, EmptySeq, LenProperties
<1>3. \A i \in 1..Len(trav.gray) : trav.gray[i] \in Nodes
  BY <1>1, ElementOfSeq
<1>4. \A i \in 1..Len(trav.gray) : trav.gray[i] \in ToSet(trav.gray)
  BY <1>2 DEF ToSet
<1>5. QED
  BY <1>2, <1>3, <1>4 DEF Last

\* Looking at a neighbor of it, and going on from there if it is white, keeps CycleInv.
LEMMA NeighborVisited ==
    ASSUME CycleInv, VisitNeighbor
    PROVE  CycleInv'
<1> DEFINE n == Last(trav.gray)
           k == Len(trav.gray)
<1>1. PICK m \in trav.left[n] :
          trav' = IF m \in ToSet(trav.gray) THEN [trav EXCEPT !.found = TRUE, !.done = TRUE]
                  ELSE IF m \in trav.black THEN [trav EXCEPT !.left[n] = @ \ {m}]
                  ELSE [trav EXCEPT !.left[n] = @ \ {m}, !.gray = Append(@, m)]
  BY DEF VisitNeighbor
<1>2. CycleTypes /\ ~ trav.done /\ ~ trav.found /\ trav.gray # <<>>
  BY DEF CycleInv, VisitNeighbor
<1>3. /\ k \in Nat \ {0} /\ DOMAIN trav.gray = 1..k /\ n = trav.gray[k] /\ n \in Nodes /\ k \in 1..k
      /\ \A i \in 1..k : trav.gray[i] \in Nodes /\ trav.gray[i] \in ToSet(trav.gray)
  BY <1>2, LastGray
<1>4. m \in Below(trav.edges, n) /\ m \in Nodes
  BY <1>1, <1>3, BelowNodes DEF Coloured, CycleInv
<1>5. \A i \in 1..k : m \in Reachable(trav.edges, trav.gray[i])
  <2> SUFFICES ASSUME NEW i \in 1..k PROVE m \in Reachable(trav.edges, trav.gray[i])
    OBVIOUS
  <2>1. i = k \/ n \in Reachable(trav.edges, trav.gray[i])
    BY <1>3 DEF GrayPath, CycleInv
  <2>2. QED
    BY <1>3, <1>4, <2>1, ReachableClosed
<1>6. CASE m \in ToSet(trav.gray)
  <2>1. trav' = [trav EXCEPT !.found = TRUE, !.done = TRUE]
    BY <1>1, <1>6
  <2>2. CycleTypes'
    BY <1>2, <2>1 DEF CycleTypes
  <2>3. /\ trav'.edges = trav.edges /\ trav'.gray = trav.gray /\ trav'.left = trav.left
        /\ trav'.black = trav.black /\ trav'.found = TRUE /\ trav'.done = TRUE
    BY <1>2, <2>1 DEF CycleTypes
  <2>4. m \in Reachable(trav.edges, m)
    BY <1>3, <1>5, <1>6 DEF ToSet
  <2>5. GrayPath' /\ Coloured' /\ BlackClosed' /\ GrayVisited'
    BY <2>3 DEF GrayPath, Coloured, BlackClosed, GrayVisited, CycleInv
  <2>6. QED
    BY <1>4, <2>2, <2>3, <2>4, <2>5 DEF CycleInv
<1> DEFINE left2 == [trav.left EXCEPT ![n] = @ \ {m}]
<1>7. /\ left2 \in [Nodes -> SUBSET Nodes] /\ left2[n] = trav.left[n] \ {m}
      /\ \A x \in Nodes : x # n => left2[x] = trav.left[x]
  BY <1>2, <1>3 DEF CycleTypes
<1>8. \A i \in 1..k : trav.gray[i] = n => i = k
  BY <1>3 DEF Coloured, CycleInv
<1>9. n \in ToSet(trav.gray) /\ n \notin trav.black
  BY <1>3 DEF Coloured, CycleInv
<1> HIDE DEF n, k
<1>10. CASE m \notin ToSet(trav.gray) /\ m \in trav.black
  <2>1. trav' = [trav EXCEPT !.left = left2]
    BY <1>1, <1>10
  <2> HIDE DEF left2
  <2>2. CycleTypes'
    BY <1>2, <1>7, <2>1 DEF CycleTypes
  <2>3. /\ trav'.edges = trav.edges /\ trav'.gray = trav.gray /\ trav'.left = left2
        /\ trav'.black = trav.black /\ trav'.found = trav.found /\ trav'.done = trav.done
    BY <1>2, <2>1 DEF CycleTypes
  <2>4. GrayPath' /\ BlackClosed'
    BY <2>3 DEF GrayPath, BlackClosed, CycleInv
  <2>5. Coloured'
    BY <1>7, <1>9, <2>3 DEF Coloured, CycleInv
  <2>6. GrayVisited'
    <3> SUFFICES ASSUME NEW i \in 1..k,
                        NEW x \in Below(trav.edges, trav.gray[i]) \ left2[trav.gray[i]]
                 PROVE  x \in trav.black \/ (i < k /\ x = trav.gray[i + 1])
      BY <2>3 DEF GrayVisited, k
    <3>1. x \in Below(trav.edges, trav.gray[i]) \ trav.left[trav.gray[i]] \/ x = m
      BY <1>3, <1>7
    <3>2. QED
      BY <1>10, <3>1 DEF GrayVisited, CycleInv, k
  <2>7. QED
    BY <1>2, <2>2, <2>3, <2>4, <2>5, <2>6 DEF CycleInv
<1>11. CASE m \notin ToSet(trav.gray) /\ m \notin trav.black
  <2> DEFINE gray2 == Append(trav.gray, m)
  <2>1. trav' = [trav EXCEPT !.left = left2, !.gray = gray2]
    BY <1>1, <1>11
  <2>2. /\ gray2 \in Seq(Nodes) /\ Len(gray2) = k + 1
        /\ \A i \in 1..k : gray2[i] = trav.gray[i]
        /\ gray2[k + 1] = m
        /\ ToSet(gray2) = ToSet(trav.gray) \cup {m}
    BY <1>2, <1>4, ElementsOfAppend DEF CycleTypes, k
  <2> HIDE DEF left2, gray2
  <2>3. CycleTypes'
    BY <1>2, <1>7, <2>1, <2>2 DEF CycleTypes
  <2>4. /\ trav'.edges = trav.edges /\ trav'.gray = gray2 /\ trav'.left = left2
        /\ trav'.black = trav.black /\ trav'.found = trav.found /\ trav'.done = trav.done
    BY <1>2, <2>1 DEF CycleTypes
  <2>5. \A i \in 1..(k + 1) : i \in 1..k \/ i = k + 1
    BY <1>3
  <2>6. GrayPath'
    <3> SUFFICES ASSUME NEW i \in 1..(k + 1), NEW j \in 1..(k + 1), i < j
                 PROVE  gray2[j] \in Reachable(trav.edges, gray2[i])
      BY <2>2, <2>4 DEF GrayPath
    <3>1. i \in 1..k
      BY <1>3
    <3>2. CASE j = k + 1
      BY <1>5, <2>2, <3>1, <3>2
    <3>3. CASE j \in 1..k
      BY <2>2, <3>1, <3>3 DEF GrayPath, CycleInv, k
    <3>4. QED
      BY <2>5, <3>2, <3>3
  <2>7. BlackClosed'
    BY <2>4 DEF BlackClosed, CycleInv
  <2>8. \A i, j \in 1..(k + 1) : gray2[i] = gray2[j] => i = j
    <3> SUFFICES ASSUME NEW i \in 1..(k + 1), NEW j \in 1..(k + 1), gray2[i] = gray2[j]
                 PROVE  i = j
      OBVIOUS
    <3>1. i \in 1..k => gray2[i] \in ToSet(trav.gray)
      BY <1>3, <2>2
    <3>2. j \in 1..k => gray2[j] \in ToSet(trav.gray)
      BY <1>3, <2>2
    <3>3. i \in 1..k /\ j \in 1..k => i = j
      BY <2>2 DEF Coloured, CycleInv, k
    <3>4. QED
      BY <1>11, <2>2, <2>5, <3>1, <3>2, <3>3
  <2>9. Coloured'
    <3>1. \A x \in Nodes : left2[x] \subseteq Below(trav.edges, x)
      BY <1>7 DEF Coloured, CycleInv
    <3>2. \A x \in Nodes \ (ToSet(gray2) \cup trav.black) : left2[x] = Below(trav.edges, x)
      BY <1>7, <1>9, <2>2 DEF Coloured, CycleInv
    <3>3. ToSet(gray2) \cap trav.black = {}
      BY <1>11, <2>2 DEF Coloured, CycleInv
    <3>4. QED
      BY <2>2, <2>4, <2>8, <3>1, <3>2, <3>3 DEF Coloured
  <2>10. GrayVisited'
    <3> SUFFICES ASSUME NEW i \in 1..(k + 1),
                        NEW x \in Below(trav.edges, gray2[i]) \ left2[gray2[i]]
                 PROVE  x \in trav.black \/ (i < k + 1 /\ x = gray2[i + 1])
      BY <2>2, <2>4 DEF GrayVisited
    <3>1. CASE i = k + 1
      <4>1. left2[m] = Below(trav.edges, m)
        <5>1. m # n
          BY <1>9, <1>11
        <5>2. trav.left[m] = Below(trav.edges, m)
          BY <1>4, <1>11 DEF Coloured, CycleInv
        <5>3. QED
          BY <1>4, <1>7, <5>1, <5>2
      <4>2. QED
        BY <2>2, <3>1, <4>1
    <3>2. CASE i = k
      <4>1. gray2[i] = n /\ gray2[i + 1] = m
        BY <1>3, <2>2, <3>2
      <4>2. x = m \/ x \in Below(trav.edges, n) \ trav.left[n]
        BY <1>7, <4>1
      <4>3. x \in Below(trav.edges, n) \ trav.left[n] => x \in trav.black
        BY <1>3 DEF GrayVisited, CycleInv, k
      <4>4. QED
        BY <1>3, <3>2, <4>1, <4>2, <4>3
    <3>3. CASE i # k /\ i # k + 1
      <4>1. i \in 1..k /\ i + 1 \in 1..k /\ i < k
        BY <1>3, <3>3
      <4>2. gray2[i] = trav.gray[i] /\ gray2[i + 1] = trav.gray[i + 1] /\ trav.gray[i] # n
        BY <1>8, <2>2, <3>3, <4>1
      <4>3. x \in Below(trav.edges, trav.gray[i]) \ trav.left[trav.gray[i]]
        BY <1>3, <1>7, <4>1, <4>2
      <4>4. x \in trav.black \/ x = trav.gray[i + 1]
        BY <4>1, <4>3 DEF GrayVisited, CycleInv, k
      <4>5. QED
        BY <1>3, <4>1, <4>2, <4>4
    <3>4. QED
      BY <3>1, <3>2, <3>3
  <2>11. QED
    BY <1>2, <2>3, <2>4, <2>6, <2>7, <2>9, <2>10 DEF CycleInv
<1>12. QED
  BY <1>6, <1>10, <1>11

\* The node on top has no neighbour left: what is below it is black and it is
\* not, so it is on no cycle.
LEMMA NodeBlackened ==
    ASSUME CycleInv, Blacken
    PROVE  CycleInv'
<1> DEFINE n == Last(trav.gray)
           k == Len(trav.gray)
           gray2 == Front(trav.gray)
<1>1. /\ CycleTypes /\ ~ trav.done /\ ~ trav.found /\ trav.gray # <<>> /\ trav.left[n] = {}
      /\ trav' = [trav EXCEPT !.black = @ \cup {n}, !.gray = gray2]
  BY DEF CycleInv, Blacken
<1>2. /\ k \in Nat \ {0} /\ DOMAIN trav.gray = 1..k /\ n = trav.gray[k] /\ n \in Nodes /\ k \in 1..k
      /\ \A i \in 1..k : trav.gray[i] \in Nodes /\ trav.gray[i] \in ToSet(trav.gray)
  BY <1>1, LastGray
<1>3. /\ gray2 \in Seq(Nodes) /\ Len(gray2) = k - 1
      /\ \A i \in 1..(k - 1) : gray2[i] = trav.gray[i]
  <2>1. \A i \in 1..(k - 1) : trav.gray[i] \in Nodes
    BY <1>2
  <2>2. /\ SubSeq(trav.gray, 1, k - 1) \in Seq(Nodes)
        /\ Len(SubSeq(trav.gray, 1, k - 1)) = IF 1 <= k - 1 THEN (k - 1) - 1 + 1 ELSE 0
        /\ \A i \in 1 .. (k - 1) - 1 + 1 : SubSeq(trav.gray, 1, k - 1)[i] = trav.gray[1 + i - 1]
    <3>1. 1 \in Int /\ k - 1 \in Int
      BY <1>2
    <3> HIDE DEF k
    <3>2. QED
      BY <2>1, <3>1, SubSeqProperties
  <2>3. QED
    BY <1>2, <2>2 DEF Front
<1>4. ToSet(trav.gray) = ToSet(gray2) \cup {n} /\ n \notin ToSet(gray2)
  <2>1. DOMAIN gray2 = 1..(k - 1)
    BY <1>3, LenProperties
  <2>2. \A i \in 1..k : i \in 1..(k - 1) \/ i = k
    BY <1>2
  <2>3. \A i \in 1..(k - 1) : i \in 1..k /\ i # k
    BY <1>2
  <2>4. ToSet(gray2) = {trav.gray[i] : i \in 1..(k - 1)}
    BY <1>3, <2>1 DEF ToSet
  <2>5. ToSet(trav.gray) = {trav.gray[i] : i \in 1..k}
    BY <1>2 DEF ToSet
  <2> HIDE DEF gray2
  <2>6. ToSet(trav.gray) = ToSet(gray2) \cup {n}
    BY <1>2, <2>2, <2>3, <2>4, <2>5
  <2>7. \A i \in 1..(k - 1) : trav.gray[i] # n
    BY <1>2, <2>3 DEF Coloured, CycleInv
  <2>8. QED
    BY <2>4, <2>6, <2>7
<1> HIDE DEF n, k, gray2
<1>5. CycleTypes'
  BY <1>1, <1>2, <1>3 DEF CycleTypes
<1>6. /\ trav'.edges = trav.edges /\ trav'.gray = gray2 /\ trav'.left = trav.left
      /\ trav'.black = trav.black \cup {n} /\ trav'.found = trav.found /\ trav'.done = trav.done
  BY <1>1 DEF CycleTypes
<1>7. Below(trav.edges, n) \subseteq trav.black
  BY <1>1, <1>2 DEF GrayVisited, CycleInv, k
<1>8. n \notin Reachable(trav.edges, n)
  <2>1. n \notin trav.black
    BY <1>2 DEF Coloured, CycleInv
  <2>2. trav.black \in SUBSET Nodes
    BY <1>1 DEF CycleTypes
  <2>3. \A b \in trav.black : Below(trav.edges, b) \subseteq trav.black
    BY DEF BlackClosed, CycleInv
  <2>4. Reachable(trav.edges, n) \subseteq trav.black
    BY <1>7, <2>2, <2>3, ReachableLeast
  <2>5. QED
    BY <2>1, <2>4
<1>9. BlackClosed'
  BY <1>6, <1>7, <1>8 DEF BlackClosed, CycleInv
<1>10. \A i \in 1..(k - 1) : i \in 1..k /\ i < k
  BY <1>2
<1>11. GrayPath'
  BY <1>3, <1>6, <1>10 DEF GrayPath, CycleInv, k
<1>12. Coloured'
  BY <1>3, <1>4, <1>6, <1>10 DEF Coloured, CycleInv, k
<1>13. GrayVisited'
  <2> SUFFICES ASSUME NEW i \in 1..(k - 1),
                      NEW x \in Below(trav.edges, gray2[i]) \ trav.left[gray2[i]]
               PROVE  x \in trav.black \cup {n} \/ (i < k - 1 /\ x = gray2[i + 1])
    BY <1>3, <1>6 DEF GrayVisited
  <2>1. gray2[i] = trav.gray[i] /\ i \in 1..k
    BY <1>3, <1>10
  <2>2. x \in trav.black \/ x = trav.gray[i + 1]
    BY <2>1 DEF GrayVisited, CycleInv, k
  <2>3. CASE i = k - 1
    <3>1. i + 1 = k
      BY <1>2, <2>3
    <3>2. QED
      BY <1>2, <2>2, <3>1
  <2>4. CASE i # k - 1
    <3>1. i < k - 1 /\ i + 1 \in 1..(k - 1)
      BY <1>2, <2>4
    <3>2. gray2[i + 1] = trav.gray[i + 1]
      BY <1>3, <3>1
    <3>3. QED
      BY <2>2, <3>1, <3>2
  <2>5. QED
    BY <2>3, <2>4
<1>14. QED
  BY <1>1, <1>5, <1>6, <1>9, <1>11, <1>12, <1>13 DEF CycleInv

\* So does stopping when no white root is left.
LEMMA CyclesEnd ==
    ASSUME CycleInv, CyclesDone
    PROVE  CycleInv'
<1>1. /\ CycleTypes /\ ~ trav.found /\ trav' = [trav EXCEPT !.done = TRUE]
      /\ \A n \in Nodes \ trav.black : Below(trav.edges, n) = {}
  BY DEF CycleInv, CyclesDone
<1>2. CycleTypes'
  BY <1>1 DEF CycleTypes
<1>3. /\ trav'.edges = trav.edges /\ trav'.gray = trav.gray /\ trav'.left = trav.left
      /\ trav'.black = trav.black /\ trav'.found = trav.found /\ trav'.done
  BY <1>1 DEF CycleTypes
<1>4. GrayPath' /\ Coloured' /\ BlackClosed' /\ GrayVisited'
  BY <1>3 DEF GrayPath, Coloured, BlackClosed, GrayVisited, CycleInv
<1>5. QED
  BY <1>1, <1>2, <1>3, <1>4 DEF CycleInv

\* The note about cycles is true: a node with an edge to a gray one closes a cycle,
\* and when every node is black and none did, there is none.
LEMMA CyclesAtEnd ==
    ASSUME CycleInv, trav.done
    PROVE  CycleNoteTrue
<1>1. ASSUME ~ trav.found, NEW n \in Nodes
      PROVE  n \notin Reachable(trav.edges, n)
  <2>1. CASE n \in trav.black
    BY <2>1 DEF BlackClosed, CycleInv
  <2>2. CASE n \notin trav.black
    <3>1. Below(trav.edges, n) \subseteq {}
      BY <1>1, <2>2 DEF CycleInv
    <3>2. Reachable(trav.edges, n) \subseteq {}
      BY <3>1, ReachableLeast, {} \in SUBSET Nodes
    <3>3. QED
      BY <3>2
  <2>3. QED
    BY <2>1, <2>2
<1>2. trav.found => \E n \in Nodes : n \in Reachable(trav.edges, n)
  BY DEF CycleInv
<1>3. trav.found \in BOOLEAN
  BY DEF CycleInv, CycleTypes
<1>4. QED
  BY <1>1, <1>2, <1>3 DEF CycleNoteTrue
-----------------------------------------------------------------------------
(* sync_docs_pages. *)

Links == SUBSET ((DocsPages \ {2}) \X (DocsPages \ {1, 2}))
CrawlTypes ==
    trav \in [tool : {"docs"}, links : Links, queue : Seq(DocsPages), pending : SUBSET DocsPages,
              seen : SUBSET DocsPages, fetched : SUBSET DocsPages, aborted : BOOLEAN, done : BOOLEAN]

\* The pages that wait are the queue, each once and none seen before; below the
\* cap every link of a fetched page is seen or waits.
CrawlInv ==
    /\ CrawlTypes
    /\ \A i, j \in 1..Len(trav.queue) : trav.queue[i] = trav.queue[j] => i = j
    /\ trav.pending = ToSet(trav.queue)
    /\ trav.seen \cap trav.pending = {}
    /\ trav.fetched \subseteq trav.seen
    /\ Cardinality(trav.seen \cup trav.pending) <= CrawlCap
    /\ \/ Cardinality(trav.seen \cup trav.pending) = CrawlCap
       \/ \A p \in trav.fetched : PageLinks(trav.links, p) \subseteq trav.seen \cup trav.pending
    /\ trav.done /\ ~ trav.aborted => trav.queue = <<>>

\* Sets of pages are finite.
LEMMA PagesFinite ==
    ASSUME NEW S \in SUBSET DocsPages
    PROVE  IsFiniteSet(S) /\ Cardinality(S) \in Nat
<1>1. 1 \in Int /\ MaxPage \in Int
  BY GraphBounds
<1>2. IsFiniteSet(DocsPages)
  BY <1>1, FS_Interval DEF DocsPages
<1>3. QED
  BY <1>2, FS_Subset, FS_CardinalityType

\* A crawl starts with the front page and the list of all items waiting.
LEMMA CrawlStarts ==
    ASSUME BeginCrawl
    PROVE  CrawlInv
<1>1. PICK links \in Links :
        trav = [tool |-> "docs", links |-> links, queue |-> <<1, 2>>, pending |-> {1, 2},
                seen |-> {}, fetched |-> {}, aborted |-> FALSE, done |-> FALSE]
  BY DEF BeginCrawl, Links
<1>2. 1 \in DocsPages /\ 2 \in DocsPages /\ CrawlCap >= 2 /\ CrawlCap \in Nat
  BY GraphBounds DEF DocsPages
<1>3. <<1, 2>> \in Seq(DocsPages) /\ Len(<<1, 2>>) = 2
  BY <1>2
<1>4. ToSet(<<1, 2>>) = {1, 2}
  <2>1. DOMAIN <<1, 2>> = 1..2 /\ <<1, 2>>[1] = 1 /\ <<1, 2>>[2] = 2
    OBVIOUS
  <2>2. 1..2 = {1, 2}
    OBVIOUS
  <2>3. QED
    BY <2>1, <2>2 DEF ToSet
<1>5. Cardinality({1, 2}) = 2
  <2>1. 1..2 = {1, 2} /\ 1 \in Int /\ 2 \in Int
    OBVIOUS
  <2>2. Cardinality(1..2) = IF 1 > 2 THEN 0 ELSE 2 - 1 + 1
    BY <2>1, FS_Interval
  <2>3. QED
    BY <2>1, <2>2
<1>6. CrawlTypes
  BY <1>1, <1>2, <1>3 DEF CrawlTypes
<1>7. /\ trav.queue = <<1, 2>> /\ trav.pending = {1, 2} /\ trav.seen = {} /\ trav.fetched = {}
      /\ ~ trav.done /\ trav.seen \cup trav.pending = {1, 2}
  BY <1>1
<1>8. \A i, j \in 1..Len(trav.queue) : trav.queue[i] = trav.queue[j] => i = j
  <2>1. \A i \in 1..2 : <<1, 2>>[i] = i
    OBVIOUS
  <2>2. QED
    BY <1>3, <1>7, <2>1
<1>9. QED
  BY <1>2, <1>4, <1>5, <1>6, <1>7, <1>8 DEF CrawlInv

\* The first k elements of a set in some order.
LEMMA FirstElements ==
    ASSUME NEW S \in SUBSET DocsPages, NEW k \in Nat, k <= Cardinality(S)
    PROVE  LET s == SubSeq(SetToSeq(S), 1, k)
           IN  /\ s \in Seq(DocsPages) /\ Len(s) = k
               /\ \A i, j \in 1..k : s[i] = s[j] => i = j
               /\ ToSet(s) \subseteq S /\ Cardinality(ToSet(s)) = k
               /\ k = Cardinality(S) => ToSet(s) = S
<1> DEFINE f == SetToSeq(S)
           n == Cardinality(S)
           s == SubSeq(f, 1, k)
<1>1. IsFiniteSet(S) /\ n \in Nat
  BY PagesFinite
<1>2. /\ f \in Seq(S) /\ ToSet(f) = S /\ Len(f) = n
      /\ \A i, j \in 1..n : f[i] = f[j] => i = j
  BY <1>1, ListedOnce
<1>3. DOMAIN f = 1..n /\ \A i \in 1..n : f[i] \in S
  BY <1>2, LenProperties, ElementOfSeq
<1>4. \A i \in 1..k : i \in 1..n
  BY <1>1
<1>5. /\ s \in Seq(S) /\ Len(s) = IF 1 <= k THEN k - 1 + 1 ELSE 0
      /\ \A i \in 1 .. k - 1 + 1 : s[i] = f[1 + i - 1]
  <2>1. \A i \in 1..k : f[i] \in S
    BY <1>3, <1>4
  <2>2. 1 \in Int /\ k \in Int
    OBVIOUS
  <2> HIDE DEF f
  <2>3. QED
    BY <2>1, <2>2, SubSeqProperties
<1>6. Len(s) = k /\ \A i \in 1..k : s[i] = f[i]
  BY <1>5
<1>7. s \in Seq(DocsPages) /\ DOMAIN s = 1..k
  BY <1>5, <1>6, SeqMonotonic, LenProperties
<1> HIDE DEF s, f, n
<1>8. \A i, j \in 1..k : s[i] = s[j] => i = j
  BY <1>2, <1>4, <1>6
<1>9. ToSet(s) \subseteq S
  BY <1>3, <1>4, <1>6, <1>7 DEF ToSet
<1>10. Cardinality(ToSet(s)) = k
  <2>1. s \in [1..k -> ToSet(s)] /\ \A x \in ToSet(s) : \E i \in 1..k : s[i] = x
    <3>1. s \in Seq(S)
      BY <1>5 DEF s
    <3>2. s = [i \in 1..k |-> s[i]]
      BY <1>6, <3>1, LenProperties
    <3>3. QED
      BY <1>7, <3>2 DEF ToSet
  <2>2. s \in Bijection(1..k, ToSet(s))
    BY <1>7, <1>8, <2>1 DEF Bijection, Injection, Surjection, IsInjective
  <2>3. ExistsBijection(1..k, ToSet(s))
    BY <2>2 DEF ExistsBijection
  <2>4. QED
    BY <2>3, FS_CountingElements
<1>11. k = n => ToSet(s) = S
  BY <1>2, <1>3, <1>6, <1>7 DEF ToSet
<1>12. QED
  BY <1>6, <1>7, <1>8, <1>9, <1>10, <1>11 DEF s, f, n

\* Two sets without a common page count as many pages as both together.
LEMMA TwoApart ==
    ASSUME NEW S \in SUBSET DocsPages, NEW T \in SUBSET DocsPages, S \cap T = {}
    PROVE  Cardinality(S \cup T) = Cardinality(S) + Cardinality(T)
<1>1. /\ IsFiniteSet(S) /\ IsFiniteSet(T) /\ Cardinality(S) \in Nat /\ Cardinality(T) \in Nat
  BY PagesFinite
<1>2. Cardinality(S \cup T) = Cardinality(S) + Cardinality(T) - Cardinality(S \cap T)
  BY <1>1, FS_Union
<1>3. Cardinality(S \cap T) = 0
  BY FS_EmptySet
<1>4. QED
  BY <1>1, <1>2, <1>3

\* The page at the head of the queue waits no more and has been seen.
LEMMA HeadPage ==
    ASSUME CrawlInv, trav.queue # <<>>
    PROVE  /\ Head(trav.queue) \in trav.pending /\ Head(trav.queue) \notin trav.seen
           /\ Head(trav.queue) \in DocsPages
           /\ Tail(trav.queue) \in Seq(DocsPages)
           /\ ToSet(Tail(trav.queue)) = trav.pending \ {Head(trav.queue)}
           /\ \A i, j \in 1..Len(Tail(trav.queue)) :
                  Tail(trav.queue)[i] = Tail(trav.queue)[j] => i = j
<1> DEFINE q == trav.queue
<1>1. /\ q \in Seq(DocsPages) /\ trav.pending = ToSet(q) /\ trav.seen \cap trav.pending = {}
      /\ \A i, j \in 1..Len(q) : q[i] = q[j] => i = j
  BY DEF CrawlInv, CrawlTypes
<1>2. Head(q) \in ToSet(q) /\ ToSet(q) = {Head(q)} \cup ToSet(Tail(q))
      /\ Tail(q) \in Seq(DocsPages) /\ Head(q) \in DocsPages
  BY <1>1, ElementsOfTail
<1>3. Len(q) \in Nat \ {0} /\ Head(q) = q[1]
  BY <1>1, EmptySeq
<1>4. Len(Tail(q)) = Len(q) - 1 /\ \A i \in 1..Len(Tail(q)) : Tail(q)[i] = q[i + 1]
  BY <1>1, HeadTailProperties
<1>5. DOMAIN Tail(q) = 1..Len(Tail(q))
  BY <1>2, LenProperties
<1>6. \A i \in 1..Len(Tail(q)) : i + 1 \in 1..Len(q) /\ i + 1 # 1
  BY <1>3, <1>4
<1>7. \A i, j \in 1..Len(Tail(q)) : Tail(q)[i] = Tail(q)[j] => i = j
  <2> SUFFICES ASSUME NEW i \in 1..Len(Tail(q)), NEW j \in 1..Len(Tail(q)), Tail(q)[i] = Tail(q)[j]
               PROVE  i = j
    OBVIOUS
  <2>1. i + 1 = j + 1
    BY <1>1, <1>4, <1>6
  <2>2. QED
    BY <2>1
<1>8. Head(q) \notin ToSet(Tail(q))
  <2>1. \A i \in 1..Len(Tail(q)) : Tail(q)[i] # Head(q)
    BY <1>1, <1>3, <1>4, <1>6
  <2>2. QED
    BY <1>5, <2>1 DEF ToSet
<1>9. QED
  BY <1>1, <1>2, <1>7, <1>8

\* What a page brings is new, and as much of it as the cap has room for.
LEMMA DiscoveredPages ==
    ASSUME CrawlInv, trav.queue # <<>>
    PROVE  LET p == Head(trav.queue)
               found == Discovered(trav, p)
               fresh == PageLinks(trav.links, p) \ (trav.seen \cup trav.pending \cup {p})
           IN  /\ found \in Seq(DocsPages)
               /\ \A i, j \in 1..Len(found) : found[i] = found[j] => i = j
               /\ ToSet(found) \subseteq fresh
               /\ Cardinality(trav.seen \cup trav.pending) + Cardinality(ToSet(found)) <= CrawlCap
               /\ \/ Cardinality(trav.seen \cup trav.pending) + Cardinality(ToSet(found)) = CrawlCap
                  \/ ToSet(found) = fresh
<1> DEFINE p == Head(trav.queue)
           found == Discovered(trav, p)
           fresh == PageLinks(trav.links, p) \ (trav.seen \cup trav.pending \cup {p})
           used == Cardinality(trav.seen \cup trav.pending)
           room == CrawlCap - Cardinality(trav.seen \cup {p}) - Cardinality(trav.pending \ {p})
           k == Min({Cardinality(fresh), Max({room, 0})})
<1>1. p \in trav.pending /\ p \notin trav.seen /\ p \in DocsPages
  BY HeadPage
<1>2. /\ trav.seen \in SUBSET DocsPages /\ trav.pending \in SUBSET DocsPages
      /\ trav.seen \cap trav.pending = {} /\ used <= CrawlCap /\ CrawlCap \in Nat
  BY GraphBounds DEF CrawlInv, CrawlTypes
<1>3. fresh \in SUBSET DocsPages
  BY DEF PageLinks
<1>4. Cardinality(fresh) \in Nat /\ used \in Nat
  <2>1. trav.seen \cup trav.pending \in SUBSET DocsPages
    BY <1>2
  <2>2. QED
    BY <1>3, <2>1, PagesFinite
<1>5. room = CrawlCap - used /\ room \in Nat
  <2>1. /\ trav.seen \cup {p} \in SUBSET DocsPages /\ trav.pending \ {p} \in SUBSET DocsPages
        /\ (trav.seen \cup {p}) \cap (trav.pending \ {p}) = {}
        /\ (trav.seen \cup {p}) \cup (trav.pending \ {p}) = trav.seen \cup trav.pending
    BY <1>1, <1>2
  <2>2. used = Cardinality(trav.seen \cup {p}) + Cardinality(trav.pending \ {p})
    BY <2>1, TwoApart
  <2>3. Cardinality(trav.seen \cup {p}) \in Nat /\ Cardinality(trav.pending \ {p}) \in Nat
    BY <2>1, PagesFinite
  <2>4. QED
    BY <1>2, <1>4, <2>2, <2>3
<1>6. Max({room, 0}) = room
  <2> HIDE DEF room
  <2>1. room >= 0 /\ room \in Int
    BY <1>5
  <2>2. QED
    BY <2>1 DEF Max
<1>7. k = (IF Cardinality(fresh) <= room THEN Cardinality(fresh) ELSE room)
  <2> HIDE DEF fresh, room
  <2>1. Cardinality(fresh) \in Int /\ room \in Int
    BY <1>4, <1>5
  <2>2. Min({Cardinality(fresh), room})
            = IF Cardinality(fresh) <= room THEN Cardinality(fresh) ELSE room
    BY <2>1, SmallerOfTwo, Zenon
  <2>3. QED
    BY <1>6, <2>2
<1>8. k \in Nat /\ k <= Cardinality(fresh) /\ k <= room /\ (k = room \/ k = Cardinality(fresh))
  <2> HIDE DEF fresh, room, k
  <2>1. QED
    BY <1>4, <1>5, <1>7
<1>9. found = SubSeq(SetToSeq(fresh), 1, k)
  BY DEF Discovered
<1> HIDE DEF fresh, room, k, found, p
<1>10. /\ found \in Seq(DocsPages) /\ Len(found) = k
       /\ \A i, j \in 1..k : found[i] = found[j] => i = j
       /\ ToSet(found) \subseteq fresh /\ Cardinality(ToSet(found)) = k
       /\ k = Cardinality(fresh) => ToSet(found) = fresh
  BY <1>3, <1>8, <1>9, FirstElements
<1>11. /\ used + Cardinality(ToSet(found)) <= CrawlCap
       /\ used + Cardinality(ToSet(found)) = CrawlCap \/ ToSet(found) = fresh
  BY <1>2, <1>4, <1>5, <1>8, <1>10
<1>12. QED
  BY <1>10, <1>11 DEF fresh, found, p

\* Two sequences of distinct elements, with none in common, make one.
LEMMA DistinctConcat ==
    ASSUME NEW T, NEW s \in Seq(T), NEW t \in Seq(T), ToSet(s) \cap ToSet(t) = {},
           \A i, j \in 1..Len(s) : s[i] = s[j] => i = j,
           \A i, j \in 1..Len(t) : t[i] = t[j] => i = j
    PROVE  \A i, j \in 1..Len(s \o t) : (s \o t)[i] = (s \o t)[j] => i = j
<1>1. /\ Len(s \o t) = Len(s) + Len(t)
      /\ \A i \in 1..Len(s) + Len(t) :
            (s \o t)[i] = IF i <= Len(s) THEN s[i] ELSE t[i - Len(s)]
  BY ConcatProperties
<1>2. /\ Len(s) \in Nat /\ Len(t) \in Nat
      /\ DOMAIN s = 1..Len(s) /\ DOMAIN t = 1..Len(t)
  BY LenProperties
<1>3. /\ \A i \in 1..Len(s) : s[i] \in ToSet(s) /\ s[i] \notin ToSet(t)
      /\ \A i \in 1..Len(t) : t[i] \in ToSet(t) /\ t[i] \notin ToSet(s)
  <2>1. \A i \in 1..Len(s) : s[i] \in ToSet(s)
    BY <1>2 DEF ToSet
  <2>2. \A i \in 1..Len(t) : t[i] \in ToSet(t)
    BY <1>2 DEF ToSet
  <2>3. QED
    BY <2>1, <2>2
<1> SUFFICES ASSUME NEW i \in 1..(Len(s) + Len(t)), NEW j \in 1..(Len(s) + Len(t)),
                    (s \o t)[i] = (s \o t)[j]
             PROVE  i = j
  BY <1>1
<1>4. \A k \in 1..(Len(s) + Len(t)) :
          \/ k \in 1..Len(s) /\ (s \o t)[k] = s[k]
          \/ k - Len(s) \in 1..Len(t) /\ (s \o t)[k] = t[k - Len(s)]
  BY <1>1, <1>2
<1>5. CASE i \in 1..Len(s) /\ (s \o t)[i] = s[i] /\ j \in 1..Len(s) /\ (s \o t)[j] = s[j]
  BY <1>5
<1>6. CASE /\ i - Len(s) \in 1..Len(t) /\ (s \o t)[i] = t[i - Len(s)]
           /\ j - Len(s) \in 1..Len(t) /\ (s \o t)[j] = t[j - Len(s)]
  <2>1. i - Len(s) = j - Len(s)
    BY <1>6
  <2>2. QED
    BY <1>2, <2>1
<1>7. CASE /\ i \in 1..Len(s) /\ (s \o t)[i] = s[i]
           /\ j - Len(s) \in 1..Len(t) /\ (s \o t)[j] = t[j - Len(s)]
  <2>1. s[i] \notin ToSet(t) /\ t[j - Len(s)] \in ToSet(t)
    BY <1>3, <1>7
  <2>2. QED
    BY <1>7, <2>1
<1>8. CASE /\ j \in 1..Len(s) /\ (s \o t)[j] = s[j]
           /\ i - Len(s) \in 1..Len(t) /\ (s \o t)[i] = t[i - Len(s)]
  <2>1. s[j] \notin ToSet(t) /\ t[i - Len(s)] \in ToSet(t)
    BY <1>3, <1>8
  <2>2. QED
    BY <1>8, <2>1
<1>9. QED
  BY <1>4, <1>5, <1>6, <1>7, <1>8

\* Fetching a page and queueing its links up to the cap keeps CrawlInv.
LEMMA CrawlPageKeeps ==
    ASSUME CrawlInv, CrawlPage
    PROVE  CrawlInv'
<1> DEFINE p == Head(trav.queue)
           found == Discovered(trav, p)
           fresh == PageLinks(trav.links, p) \ (trav.seen \cup trav.pending \cup {p})
           rest == Tail(trav.queue)
<1>1. trav.queue # <<>> /\ ~ trav.done
  BY DEF CrawlPage
<1>2. /\ p \in trav.pending /\ p \notin trav.seen /\ p \in DocsPages /\ rest \in Seq(DocsPages)
      /\ ToSet(rest) = trav.pending \ {p}
      /\ \A i, j \in 1..Len(rest) : rest[i] = rest[j] => i = j
  BY <1>1, HeadPage
<1>3. /\ found \in Seq(DocsPages)
      /\ \A i, j \in 1..Len(found) : found[i] = found[j] => i = j
      /\ ToSet(found) \subseteq fresh
      /\ Cardinality(trav.seen \cup trav.pending) + Cardinality(ToSet(found)) <= CrawlCap
      /\ \/ Cardinality(trav.seen \cup trav.pending) + Cardinality(ToSet(found)) = CrawlCap
         \/ ToSet(found) = fresh
  BY <1>1, DiscoveredPages
<1>4. /\ trav \in [tool : {"docs"}, links : Links, queue : Seq(DocsPages), pending : SUBSET DocsPages,
                   seen : SUBSET DocsPages, fetched : SUBSET DocsPages, aborted : BOOLEAN,
                   done : BOOLEAN]
      /\ trav.fetched \subseteq trav.seen /\ trav.seen \cap trav.pending = {}
  BY DEF CrawlInv, CrawlTypes
<1>5. fresh \in SUBSET DocsPages
  BY DEF PageLinks
<1>6. trav' = [trav EXCEPT !.queue = rest \o found,
                           !.pending = (trav.pending \ {p}) \cup ToSet(found),
                           !.seen = trav.seen \cup {p}, !.fetched = trav.fetched \cup {p}]
  BY DEF CrawlPage
<1>7. fresh \cap (trav.seen \cup trav.pending) = {} /\ p \notin fresh
  OBVIOUS
<1>8. PageLinks(trav.links, p) \subseteq fresh \cup trav.seen \cup trav.pending
  BY <1>2
<1> HIDE DEF found, fresh, rest, p
<1>9. rest \o found \in Seq(DocsPages) /\ ToSet(rest \o found) = ToSet(rest) \cup ToSet(found)
  BY <1>2, <1>3, ElementsOfConcat
<1>10. ToSet(found) \in SUBSET DocsPages
  BY <1>3, <1>5
<1>11. /\ trav'.tool = "docs" /\ trav'.links = trav.links /\ trav'.queue = rest \o found
       /\ trav'.pending = (trav.pending \ {p}) \cup ToSet(found)
       /\ trav'.seen = trav.seen \cup {p} /\ trav'.fetched = trav.fetched \cup {p}
       /\ trav'.aborted = trav.aborted /\ trav'.done = trav.done
  BY <1>4, <1>6
<1>12. CrawlTypes'
  <2>1. trav' = [tool |-> "docs", links |-> trav.links, queue |-> rest \o found,
                 pending |-> (trav.pending \ {p}) \cup ToSet(found),
                 seen |-> trav.seen \cup {p}, fetched |-> trav.fetched \cup {p},
                 aborted |-> trav.aborted, done |-> trav.done]
    BY <1>4, <1>6
  <2>2. /\ (trav.pending \ {p}) \cup ToSet(found) \in SUBSET DocsPages
        /\ trav.seen \cup {p} \in SUBSET DocsPages /\ trav.fetched \cup {p} \in SUBSET DocsPages
    BY <1>2, <1>4, <1>10
  <2>3. QED
    BY <1>4, <1>9, <2>1, <2>2 DEF CrawlTypes
<1>13. \A i, j \in 1..Len(trav'.queue) : trav'.queue[i] = trav'.queue[j] => i = j
  <2>1. ToSet(rest) \cap ToSet(found) = {}
    BY <1>2, <1>3, <1>7
  <2>2. \A i, j \in 1..Len(rest \o found) : (rest \o found)[i] = (rest \o found)[j] => i = j
    BY <1>2, <1>3, <2>1, DistinctConcat
  <2>3. QED
    BY <1>11, <2>2
<1>14. trav'.pending = ToSet(trav'.queue)
  BY <1>2, <1>9, <1>11
<1>15. trav'.seen \cap trav'.pending = {} /\ trav'.fetched \subseteq trav'.seen
  BY <1>2, <1>3, <1>4, <1>7, <1>11
<1>16. trav'.seen \cup trav'.pending = (trav.seen \cup trav.pending) \cup ToSet(found)
  BY <1>2, <1>11
<1>17. Cardinality(trav'.seen \cup trav'.pending)
          = Cardinality(trav.seen \cup trav.pending) + Cardinality(ToSet(found))
  <2>1. (trav.seen \cup trav.pending) \cap ToSet(found) = {}
    BY <1>3, <1>7
  <2>2. trav.seen \cup trav.pending \in SUBSET DocsPages
    BY <1>4
  <2>3. QED
    BY <1>10, <1>16, <2>1, <2>2, TwoApart
<1>18. \/ Cardinality(trav'.seen \cup trav'.pending) = CrawlCap
       \/ \A q \in trav'.fetched : PageLinks(trav'.links, q) \subseteq trav'.seen \cup trav'.pending
  <2>1. CASE Cardinality(trav.seen \cup trav.pending) + Cardinality(ToSet(found)) = CrawlCap
    BY <1>17, <2>1
  <2>2. CASE ToSet(found) = fresh /\ Cardinality(trav.seen \cup trav.pending) = CrawlCap
    <3>1. /\ Cardinality(ToSet(found)) \in Nat /\ CrawlCap \in Nat
          /\ Cardinality(trav.seen \cup trav.pending) \in Nat
      <4>1. trav.seen \cup trav.pending \in SUBSET DocsPages
        BY <1>4
      <4>2. QED
        BY <1>10, <4>1, PagesFinite, GraphBounds
    <3>2. Cardinality(ToSet(found)) = 0
      BY <1>3, <2>2, <3>1
    <3>3. QED
      BY <1>17, <2>2, <3>1, <3>2
  <2>3. CASE /\ ToSet(found) = fresh
             /\ \A q \in trav.fetched : PageLinks(trav.links, q) \subseteq trav.seen \cup trav.pending
    BY <1>8, <1>11, <1>16, <2>3
  <2>4. QED
    <3>1. \/ Cardinality(trav.seen \cup trav.pending) = CrawlCap
          \/ \A q \in trav.fetched : PageLinks(trav.links, q) \subseteq trav.seen \cup trav.pending
      BY DEF CrawlInv
    <3>2. QED
      BY <1>3, <2>1, <2>2, <2>3, <3>1
<1>19. Cardinality(trav'.seen \cup trav'.pending) <= CrawlCap
  BY <1>3, <1>17
<1>20. ~ trav'.done
  BY <1>1, <1>11
<1>21. QED
  BY <1>12, <1>13, <1>14, <1>15, <1>18, <1>19, <1>20 DEF CrawlInv

\* So does a page that cannot be fetched.
LEMMA CrawlPageFailsKeeps ==
    ASSUME CrawlInv, CrawlPageFails
    PROVE  CrawlInv'
<1> DEFINE p == Head(trav.queue)
           rest == Tail(trav.queue)
<1>1. trav.queue # <<>> /\ ~ trav.done
  BY DEF CrawlPageFails
<1>2. /\ p \in trav.pending /\ p \notin trav.seen /\ p \in DocsPages /\ rest \in Seq(DocsPages)
      /\ ToSet(rest) = trav.pending \ {p}
      /\ \A i, j \in 1..Len(rest) : rest[i] = rest[j] => i = j
  BY <1>1, HeadPage
<1>3. trav \in [tool : {"docs"}, links : Links, queue : Seq(DocsPages), pending : SUBSET DocsPages,
                seen : SUBSET DocsPages, fetched : SUBSET DocsPages, aborted : BOOLEAN, done : BOOLEAN]
  BY DEF CrawlInv, CrawlTypes
<1>4. trav' = [trav EXCEPT !.queue = rest, !.pending = trav.pending \ {p}, !.seen = trav.seen \cup {p}]
  BY DEF CrawlPageFails
<1> HIDE DEF rest, p
<1>5. /\ trav'.links = trav.links /\ trav'.queue = rest /\ trav'.pending = trav.pending \ {p}
      /\ trav'.seen = trav.seen \cup {p} /\ trav'.fetched = trav.fetched
      /\ trav'.done = trav.done
  BY <1>3, <1>4
<1>6. CrawlTypes'
  BY <1>2, <1>3, <1>4 DEF CrawlTypes
<1>7. trav'.seen \cup trav'.pending = trav.seen \cup trav.pending
  BY <1>2, <1>5
<1>8. QED
  BY <1>1, <1>2, <1>5, <1>6, <1>7 DEF CrawlInv

\* So do the abort of the crawl and its end.
LEMMA CrawlEnds ==
    ASSUME CrawlInv, CrawlAborts \/ CrawlDone
    PROVE  CrawlInv'
<1>1. trav \in [tool : {"docs"}, links : Links, queue : Seq(DocsPages), pending : SUBSET DocsPages,
                seen : SUBSET DocsPages, fetched : SUBSET DocsPages, aborted : BOOLEAN, done : BOOLEAN]
  BY DEF CrawlInv, CrawlTypes
<1>2. PICK a \in BOOLEAN : trav' = [trav EXCEPT !.aborted = a, !.done = TRUE]
                           /\ (a \/ trav.queue = <<>>)
  <2>1. trav.aborted \in BOOLEAN /\ trav = [trav EXCEPT !.aborted = trav.aborted]
    BY <1>1
  <2>2. CASE CrawlAborts
    BY <2>2 DEF CrawlAborts
  <2>3. CASE CrawlDone
    BY <1>1, <2>1, <2>3 DEF CrawlDone
  <2>4. QED
    BY <2>2, <2>3
<1>3. /\ trav'.links = trav.links /\ trav'.queue = trav.queue /\ trav'.pending = trav.pending
      /\ trav'.seen = trav.seen /\ trav'.fetched = trav.fetched /\ trav'.aborted = a
  BY <1>1, <1>2
<1>4. CrawlTypes'
  BY <1>1, <1>2 DEF CrawlTypes
<1>5. QED
  BY <1>2, <1>3, <1>4 DEF CrawlInv

\* A crawl that ends below the cap has left out no link of a page it fetched.
LEMMA CrawlAtEnd ==
    ASSUME CrawlInv, trav.done
    PROVE  CrawlComplete
<1>1. CASE trav.aborted
  BY <1>1 DEF CrawlComplete
<1>2. CASE ~ trav.aborted
  <2>1. trav.pending = {}
    BY <1>2 DEF CrawlInv, ToSet
  <2>2. trav.seen \cup trav.pending = trav.seen
    BY <2>1
  <2>3. QED
    BY <2>2 DEF CrawlInv, CrawlComplete
<1>3. QED
  BY <1>1, <1>2
-----------------------------------------------------------------------------
(* All four. *)

GraphInv ==
    \/ FeatureInv \/ LevelInv \/ CycleInv \/ CrawlInv

\* Whichever tool is called, its part of GraphInv holds at first.
LEMMA GraphStarts == GraphInit => GraphInv
BY FeaturesStart, LevelsStart, CyclesStart, CrawlStarts DEF GraphInit, GraphInv

\* Every step keeps it, and no step of one traversal is one of another.
LEMMA GraphSteps == GraphInv /\ [GraphNext]_travVars => GraphInv'
<1> SUFFICES ASSUME GraphInv, [GraphNext]_travVars
             PROVE  GraphInv'
  OBVIOUS
<1>1. CASE FeatureInv
  <2>1. trav.tool \in FeatureTools /\ trav.tool # "crate_graph" /\ trav.tool # "cycles"
        /\ trav.tool # "docs"
    BY <1>1 DEF FeatureInv, FeatureTypes, FeatureTools
  <2>2. CASE ExpandFeature
    BY <1>1, <2>2, FeatureExpands DEF GraphInv
  <2>3. CASE FeaturesDone
    BY <1>1, <2>3, FeaturesEnd DEF GraphInv
  <2>4. CASE UNCHANGED travVars
    <3>1. trav' = trav
      BY <2>4 DEF travVars
    <3>2. FeatureInv'
      BY <1>1, <3>1 DEF FeatureInv, FeatureTypes
    <3>3. QED
      BY <3>2 DEF GraphInv
  <2>5. QED
    BY <2>1, <2>2, <2>3, <2>4
       DEF GraphNext, DependencyLevel, DependentLevel, LevelsDone, VisitRoot, VisitNeighbor, Blacken,
           CyclesDone, CrawlPage, CrawlPageFails, CrawlAborts, CrawlDone
<1>2. CASE LevelInv
  <2>1. trav.tool = "crate_graph"
    BY <1>2 DEF LevelInv, LevelTypes
  <2>2. CASE DependencyLevel
    BY <1>2, <2>2, DependencyLevelKeeps DEF GraphInv
  <2>3. CASE DependentLevel
    BY <1>2, <2>3, DependentLevelKeeps DEF GraphInv
  <2>4. CASE LevelsDone
    BY <1>2, <2>4, LevelsDoneKeeps DEF GraphInv
  <2>5. CASE UNCHANGED travVars
    <3>1. trav' = trav
      BY <2>5 DEF travVars
    <3>2. LevelInv'
      BY <1>2, <3>1 DEF LevelInv, LevelTypes
    <3>3. QED
      BY <3>2 DEF GraphInv
  <2>6. QED
    BY <2>1, <2>2, <2>3, <2>4, <2>5
       DEF GraphNext, ExpandFeature, FeaturesDone, VisitRoot, VisitNeighbor, Blacken,
           CyclesDone, CrawlPage, CrawlPageFails, CrawlAborts, CrawlDone
<1>3. CASE CycleInv
  <2>1. trav.tool = "cycles"
    BY <1>3 DEF CycleInv, CycleTypes
  <2>2. CASE VisitRoot
    BY <1>3, <2>2, RootVisited DEF GraphInv
  <2>3. CASE VisitNeighbor
    BY <1>3, <2>3, NeighborVisited DEF GraphInv
  <2>4. CASE Blacken
    BY <1>3, <2>4, NodeBlackened DEF GraphInv
  <2>5. CASE CyclesDone
    BY <1>3, <2>5, CyclesEnd DEF GraphInv
  <2>6. CASE UNCHANGED travVars
    <3>1. trav' = trav
      BY <2>6 DEF travVars
    <3>2. CycleInv'
      BY <1>3, <3>1 DEF CycleInv, CycleTypes, GrayPath, Coloured, BlackClosed, GrayVisited
    <3>3. QED
      BY <3>2 DEF GraphInv
  <2>7. QED
    BY <2>1, <2>2, <2>3, <2>4, <2>5, <2>6
       DEF GraphNext, ExpandFeature, FeaturesDone, DependencyLevel, DependentLevel, LevelsDone,
           CrawlPage, CrawlPageFails, CrawlAborts, CrawlDone
<1>4. CASE CrawlInv
  <2>1. trav.tool = "docs"
    BY <1>4 DEF CrawlInv, CrawlTypes
  <2>2. CASE CrawlPage
    BY <1>4, <2>2, CrawlPageKeeps DEF GraphInv
  <2>3. CASE CrawlPageFails
    BY <1>4, <2>3, CrawlPageFailsKeeps DEF GraphInv
  <2>4. CASE CrawlAborts \/ CrawlDone
    BY <1>4, <2>4, CrawlEnds DEF GraphInv
  <2>5. CASE UNCHANGED travVars
    <3>1. trav' = trav
      BY <2>5 DEF travVars
    <3>2. CrawlInv'
      BY <1>4, <3>1 DEF CrawlInv, CrawlTypes
    <3>3. QED
      BY <3>2 DEF GraphInv
  <2>6. QED
    BY <2>1, <2>2, <2>3, <2>4, <2>5
       DEF GraphNext, ExpandFeature, FeaturesDone, DependencyLevel, DependentLevel, LevelsDone,
           VisitRoot, VisitNeighbor, Blacken, CyclesDone
<1>5. QED
  BY <1>1, <1>2, <1>3, <1>4 DEF GraphInv

\* It says of a traversal that has ended what GraphSound says.
LEMMA GraphEnds == GraphInv => GraphSound
<1> SUFFICES ASSUME GraphInv
             PROVE  GraphSound
  OBVIOUS
<1>1. CASE FeatureInv
  <2>1. trav.tool \in FeatureTools
    BY <1>1 DEF FeatureInv, FeatureTypes
  <2>2. trav.done => FeaturesExact
    BY <1>1, FeaturesAtEnd
  <2>3. QED
    BY <2>1, <2>2 DEF GraphSound, FeatureTools
<1>2. CASE LevelInv
  <2>1. trav.tool = "crate_graph"
    BY <1>2 DEF LevelInv, LevelTypes
  <2>2. trav.done => DistancesExact
    BY <1>2, LevelsAtEnd
  <2>3. QED
    BY <2>1, <2>2 DEF GraphSound
<1>3. CASE CycleInv
  <2>1. trav.tool = "cycles"
    BY <1>3 DEF CycleInv, CycleTypes
  <2>2. trav.done => CycleNoteTrue
    BY <1>3, CyclesAtEnd
  <2>3. QED
    BY <2>1, <2>2 DEF GraphSound
<1>4. CASE CrawlInv
  <2>1. trav.tool = "docs" /\ Cardinality(trav.seen \cup trav.pending) <= CrawlCap
    BY <1>4 DEF CrawlInv, CrawlTypes
  <2>2. trav.done => CrawlComplete
    BY <1>4, CrawlAtEnd
  <2>3. QED
    BY <2>1, <2>2 DEF GraphSound
<1>5. QED
  BY <1>1, <1>2, <1>3, <1>4 DEF GraphInv

\* GraphAnswers: a traversal that has ended has ended with exactly what its graph
\* holds (GraphSound): the features expand_feature_dependencies turns on, the
\* crates handle_crate_graph reaches and their shortest distances, the note on
\* cycles, and below the cap the docs pages that sync_docs_pages crawls.
THEOREM GraphAnswers == GraphSpec => []GraphSound
<1>1. GraphInit => GraphInv
  BY GraphStarts
<1>2. GraphInv /\ [GraphNext]_travVars => GraphInv'
  BY GraphSteps
<1>3. GraphInv => GraphSound
  BY GraphEnds
<1>4. QED
  BY <1>1, <1>2, <1>3, PTL DEF GraphSpec
=============================================================================
