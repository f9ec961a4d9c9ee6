------------------------ MODULE VersionIndexingProofs ------------------------
(***************************************************************************)
(* Proofs about the index tables of a crate: the source sync and the       *)
(* rustdoc sync keep them of a piece, whoever runs them at the same time.  *)
(***************************************************************************)
EXTENDS VersionIndexing, FiniteSetTheorems, WellFoundedInduction, TLAPS

-----------------------------------------------------------------------------
(* Choosing from the pages, the files and the ids. *)

\* Of a set of numbers one is the least (ORDER BY path).
LEMMA LeastIs ==
    ASSUME NEW T \in SUBSET Nat, T # {}
    PROVE  Min(T) \in T /\ \A y \in T : Min(T) <= y
<1> DEFINE R == {ss \in Nat \X Nat : ss[1] < ss[2]}
<1>1. IsWellFoundedOn(R, Nat)
  BY NatLessThanWellFounded DEF OpToRel
<1>2. PICK x \in T : \A y \in T : <<y, x>> \notin R
  <2> HIDE DEF R
  <2> QED
    BY <1>1, WFMin
<1>3. \A y \in T : x <= y
  <2> SUFFICES ASSUME NEW y \in T PROVE x <= y
    OBVIOUS
  <2>1. ~ (y < x) /\ x \in Nat /\ y \in Nat
    BY <1>2
  <2> QED
    BY <2>1
<1> QED
  BY <1>3 DEF Min

\* Of the versions left one is the newest: it is the one with the fewest newer.
LEMMA NewestIs ==
    ASSUME NEW T \in SUBSET Indexed, T # {}
    PROVE  Max(T) \in T
<1> DEFINE Newer(v) == {w \in T : w > v}
           Counts == {Cardinality(Newer(v)) : v \in T}
<1>1. T \in SUBSET Nat /\ IsFiniteSet(T)
  BY SourceAssumption, FS_Subset DEF SourceAssumption
<1>2. \A v \in T : IsFiniteSet(Newer(v)) /\ Cardinality(Newer(v)) \in Nat
  BY <1>1, FS_Subset, FS_CardinalityType
<1>3. Counts \in SUBSET Nat /\ Counts # {}
  BY <1>2
<1>4. PICK x \in T : \A y \in T : Cardinality(Newer(x)) <= Cardinality(Newer(y))
  <2>1. Min(Counts) \in Counts /\ \A n \in Counts : Min(Counts) <= n
    BY <1>3, LeastIs
  <2> QED
    BY <2>1
<1>5. ASSUME NEW y \in T PROVE x >= y
  <2> SUFFICES ASSUME y > x PROVE FALSE
    BY <1>1
  <2>1. Newer(y) \in SUBSET Newer(x)
    <3> SUFFICES ASSUME NEW w \in T, w > y PROVE w > x
      OBVIOUS
    <3>1. w \in Nat /\ x \in Nat /\ y \in Nat
      BY <1>1
    <3> QED
      BY <3>1
  <2>2. y \in Newer(x) /\ y \notin Newer(y)
    BY <1>1
  <2>3. Cardinality(Newer(y)) <= Cardinality(Newer(x))
        /\ (Cardinality(Newer(x)) = Cardinality(Newer(y)) => Newer(x) = Newer(y))
    <3> HIDE DEF Newer
    <3> QED
      BY <1>2, <2>1, FS_Subset
  <2>4. Cardinality(Newer(x)) = Cardinality(Newer(y))
    <3> HIDE DEF Newer
    <3> QED
      BY <1>2, <1>4, <2>3
  <2> QED
    BY <2>2, <2>3, <2>4
<1> QED
  BY <1>5 DEF Max

\* The files of a version are numbered, and none of them is a rustdoc file.
LEMMA PathsAreNumbers ==
    /\ Paths \in SUBSET Nat /\ 1 \in Paths /\ RustPaths \subseteq Paths /\ Paths \cap DocPaths = {}
    /\ IsFiniteSet(AllPaths) /\ Cardinality(AllPaths) \in Nat
<1>1. Paths \in SUBSET (1..100) /\ RustPaths \subseteq Paths /\ 1 \in Paths
  <2>1. PICK n \in 1..100 : Paths = 1..n
    BY SourceAssumption DEF SourceAssumption
  <2>2. Paths \in SUBSET (1..100) /\ 1 \in Paths
    BY <2>1
  <2> QED
    BY <2>2, SourceAssumption DEF SourceAssumption
<1>2. IsFiniteSet(1..100) /\ IsFiniteSet({DocsRs} \cup {Local})
  <2>1. IsFiniteSet(1..100)
    <3>1. 1 \in Int /\ 100 \in Int
      OBVIOUS
    <3> QED
      BY <3>1, FS_Interval
  <2>2. IsFiniteSet({DocsRs})
    BY FS_Singleton
  <2> QED
    BY <2>1, <2>2, FS_AddElement
<1>3. AllPaths = Paths \cup ({DocsRs} \cup {Local})
  BY DEF AllPaths, DocPaths
<1>4. IsFiniteSet(Paths)
  BY <1>1, <1>2, FS_Subset
<1>5. IsFiniteSet(AllPaths)
  BY <1>2, <1>3, <1>4, FS_Union
<1>6. Paths \cap DocPaths = {}
  BY <1>1 DEF DocPaths, DocsRs, Local
<1>7. Paths \in SUBSET Nat
  BY <1>1
<1>8. Cardinality(AllPaths) \in Nat
  BY <1>5, FS_CardinalityType
<1>9. RustPaths \subseteq Paths /\ 1 \in Paths
  BY <1>1
<1> HIDE DEF AllPaths
<1> QED
  BY <1>5, <1>6, <1>7, <1>8, <1>9

\* The id of an inserted source_files row is new: there are more ids than files
\* and syncs.
LEMMA FreshIdIsNew ==
    ASSUME NEW v
    PROVE  /\ FreshId(v) # NoId
           /\ \A q \in AllPaths : files[v][q].id # FreshId(v)
           /\ \A p \in Runners : run[p].fid # FreshId(v)
<1> DEFINE N == Cardinality(AllPaths) + Cardinality(Runners) + 1
           Filed == {files[v][q].id : q \in AllPaths}
           Held == {run[p].fid : p \in Runners}
<1>1. /\ IsFiniteSet(AllPaths) /\ Cardinality(AllPaths) \in Nat
      /\ IsFiniteSet(Runners) /\ Cardinality(Runners) \in Nat
  BY PathsAreNumbers, SourceAssumption, FS_CardinalityType DEF SourceAssumption
<1>2. IsFiniteSet(Filed) /\ Cardinality(Filed) <= Cardinality(AllPaths)
  <2>1. [q \in AllPaths |-> files[v][q].id] \in Surjection(AllPaths, Filed)
    BY DEF Surjection
  <2> HIDE DEF Filed
  <2> QED
    BY <1>1, <2>1, FS_Surjection
<1>3. IsFiniteSet(Held) /\ Cardinality(Held) <= Cardinality(Runners)
  <2>1. [p \in Runners |-> run[p].fid] \in Surjection(Runners, Held)
    BY DEF Surjection
  <2> HIDE DEF Held
  <2> QED
    BY <1>1, <2>1, FS_Surjection
<1>4. \E id \in 1..N : id \notin Filed \cup Held
  <2> HIDE DEF Filed, Held
  <2> SUFFICES ASSUME 1..N \subseteq Filed \cup Held PROVE FALSE
    OBVIOUS
  <2>1. IsFiniteSet(Filed \cup Held)
        /\ Cardinality(Filed \cup Held)
              = Cardinality(Filed) + Cardinality(Held) - Cardinality(Filed \cap Held)
    BY <1>2, <1>3, FS_Union
  <2>2. Cardinality(Filed) \in Nat /\ Cardinality(Held) \in Nat /\ Cardinality(Filed \cap Held) \in Nat
    BY <1>2, <1>3, FS_CardinalityType, FS_Intersection
  <2>3. N \in Nat /\ Cardinality(1..N) = N
    <3>1. N \in Nat /\ N >= 1
      BY <1>1
    <3> HIDE DEF N
    <3> QED
      BY <3>1, FS_Interval
  <2>4. Cardinality(1..N) <= Cardinality(Filed \cup Held)
    <3> HIDE DEF N
    <3> QED
      BY <2>1, FS_Subset
  <2> QED
    BY <1>1, <1>2, <1>3, <2>1, <2>2, <2>3, <2>4
<1>5. \E id \in 1..N : /\ \A q \in AllPaths : files[v][q].id # id
                       /\ \A p \in Runners : run[p].fid # id
  BY <1>4
<1>6. /\ FreshId(v) \in 1..N
      /\ \A q \in AllPaths : files[v][q].id # FreshId(v)
      /\ \A p \in Runners : run[p].fid # FreshId(v)
  BY <1>5 DEF FreshId
<1>7. FreshId(v) # 0
  <2>1. N \in Nat
    BY <1>1
  <2> HIDE DEF N
  <2> QED
    BY <1>6, <2>1
<1> QED
  BY <1>6, <1>7 DEF NoId

-----------------------------------------------------------------------------
(* The invariant. *)

RunFields == {"pc", "todo", "v", "filter", "found", "at", "fid", "wrote", "gone", "doc", "follows"}

\* The stages that work at a file, those that know the id of its row, and those
\* of the rustdoc sync.
OwnerPcs == {"count", "clear", "insert"}
FilePcs == {"upsert", "lookup"} \cup OwnerPcs
ReplacePcs == {"docClear", "docInsert"}
PagePcs == {"fetch", "ingest", "enriched", "attempted"} \cup ReplacePcs

\* What a sync works at; T are the versions a rustdoc sync picked so far.
RunShape(r, T) ==
    /\ DOMAIN r = RunFields
    /\ r.todo \subseteq Indexed /\ r.filter \subseteq Paths /\ r.follows \in BOOLEAN
    /\ r.pc # "idle" => r.v \in Indexed
    /\ r.pc \in FilePcs \cup {"prune"} => DOMAIN r.found \subseteq Paths
    /\ r.pc \in FilePcs => r.at \in DOMAIN r.found
    /\ r.pc \in OwnerPcs => r.at \in RustPaths
    /\ r.pc \in PagePcs => r.v \in T /\ r.todo \subseteq T
    /\ r.pc \in {"ingest"} \cup ReplacePcs => r.doc \in DocPaths

\* The id a source sync holds is the row of its file, or of none since that was
\* pruned; the one a rustdoc sync holds is the row of its document. f is files.
RunFiles(r, f) ==
    /\ r.pc \in OwnerPcs =>
           r.fid # NoId /\ \A q \in AllPaths : f[r.v][q].id = r.fid => q = r.at
    /\ r.pc \in ReplacePcs => r.fid # NoId /\ f[r.v][r.doc].id = r.fid

\* The rows of one document, inserted by one transaction.
Batch(fid, d, n) == {Row(fid, "rustdoc_json", i, n) : i \in DocItems[d]}
OfDocument(B, f, v) ==
    \E d \in DocPaths : \E n : f[v][d].id # NoId /\ B = Batch(f[v][d].id, d, n)

DocRows(R, v) == {x \in R[v] : x.src = "rustdoc_json"}

\* What a transaction has deleted, and what a sync that is done has left behind;
\* R is rows.
RunRows(r, f, R) ==
    /\ r.pc = "insert" => \A x \in r.gone : x.fid = r.fid
    /\ r.pc = "docInsert" => r.gone = {} \/ OfDocument(r.gone, f, r.v)
    /\ r.pc = "enriched" => OfDocument(DocRows(R, r.v), f, r.v)

RunOk(r, f, R, T) == RunShape(r, T) /\ RunFiles(r, f) /\ RunRows(r, f, R)

\* source_files: a row per version and path, and no two with one id.
FilesOk(f) ==
    /\ DOMAIN f = Indexed
    /\ \A v \in Indexed :
          /\ DOMAIN f[v] = AllPaths
          /\ \A q \in AllPaths :
                 f[v][q] = NoFile \/ (DOMAIN f[v][q] = {"sha", "id"} /\ f[v][q].id # NoId)
          /\ \A q, z \in AllPaths : f[v][q].id = f[v][z].id => q = z \/ f[v][q] = NoFile

\* The rows belong to files of their version and kind.
Ids(f, v, Q) == {f[v][q].id : q \in Q} \ {NoId}
RowsOk(f, R) ==
    /\ DOMAIN R = Indexed
    /\ \A v \in Indexed : \A x \in R[v] :
          \/ x.src = "syn" /\ x.fid \in Ids(f, v, RustPaths)
          \/ x.src = "rustdoc_json" /\ x.fid \in Ids(f, v, DocPaths)

\* The rustdoc rows of a version are those of one document, or none.
DocsOk(f, R) == \A v \in Indexed : DocRows(R, v) = {} \/ OfDocument(DocRows(R, v), f, v)

\* The marks: enriched versions have the rows of a document.
MarksOk(f, R, E, C, T) ==
    /\ E \cup C \subseteq T /\ T \subseteq Indexed
    /\ \A v \in E : OfDocument(DocRows(R, v), f, v)

RunsOk(runs, f, R, T) == DOMAIN runs = Runners /\ \A p \in Runners : RunOk(runs[p], f, R, T)

IndexInv ==
    /\ FilesOk(files) /\ RowsOk(files, rows) /\ DocsOk(files, rows)
    /\ MarksOk(files, rows, enriched, cooling, tried)
    /\ RunsOk(run, files, rows, tried)

\* The invariant says at least what the two invariants of the run say.
LEMMA InvIsTyped == IndexInv => IndexTypeOK
<1> SUFFICES ASSUME IndexInv PROVE IndexTypeOK
  OBVIOUS
<1>1. \A v \in Indexed : \A q, z \in AllPaths :
          files[v][q].id = files[v][z].id => q = z \/ files[v][q] = NoFile
  BY DEF IndexInv, FilesOk
<1>2. \A v \in Indexed : \A x \in rows[v] :
          IF x.src = "syn" THEN x.fid \in IdsAt(v, RustPaths) ELSE x.fid \in IdsAt(v, DocPaths)
  BY DEF IndexInv, RowsOk, Ids, IdsAt
<1>3. enriched \cup cooling \subseteq tried /\ tried \subseteq Indexed
  BY DEF IndexInv, MarksOk
<1>4. \A p \in Runners : run[p].pc \in {"scan", "upsert", "count", "insert"} => run[p].v \in Indexed
  BY DEF IndexInv, RunsOk, RunOk, RunShape
<1> QED
  BY <1>1, <1>2, <1>3, <1>4 DEF IndexTypeOK

\* A batch has each item of its document once, so RustdocWhole follows as well.
LEMMA InvIsWhole == IndexInv => RustdocWhole
<1> SUFFICES ASSUME IndexInv, NEW v \in enriched
             PROVE  \E d \in DocPaths :
                       /\ {x.item : x \in RustdocRows(v)} = DocItems[d]
                       /\ Cardinality(RustdocRows(v)) = Cardinality(DocItems[d])
                       /\ \A x \in RustdocRows(v) : x.fid = files[v][d].id
  BY DEF RustdocWhole
<1>1. OfDocument(RustdocRows(v), files, v)
  BY DEF IndexInv, MarksOk, RustdocRows, DocRows
<1>2. PICK d \in DocPaths : \E n : RustdocRows(v) = Batch(files[v][d].id, d, n)
  BY <1>1 DEF OfDocument
<1>0. PICK n : RustdocRows(v) = Batch(files[v][d].id, d, n)
  BY <1>2
<1> DEFINE fid == files[v][d].id
           RowOf == [i \in DocItems[d] |-> Row(fid, "rustdoc_json", i, n)]
<1>3. \A i : Row(fid, "rustdoc_json", i, n).item = i /\ Row(fid, "rustdoc_json", i, n).fid = fid
  BY DEF Row
<1>4. {x.item : x \in RustdocRows(v)} = DocItems[d] /\ \A x \in RustdocRows(v) : x.fid = fid
  BY <1>0, <1>3 DEF Batch
<1>5. RowOf \in Bijection(DocItems[d], RustdocRows(v))
  <2>1. RowOf \in [DocItems[d] -> RustdocRows(v)]
    BY <1>0 DEF Batch
  <2>2. \A i, j \in DocItems[d] : RowOf[i] = RowOf[j] => i = j
    BY <1>3
  <2>3. \A x \in RustdocRows(v) : \E i \in DocItems[d] : RowOf[i] = x
    BY <1>0 DEF Batch
  <2> HIDE DEF RowOf, fid
  <2>4. RowOf \in Injection(DocItems[d], RustdocRows(v))
    BY <2>1, <2>2 DEF Injection, IsInjective
  <2>5. RowOf \in Surjection(DocItems[d], RustdocRows(v))
    BY <2>1, <2>3 DEF Surjection
  <2> QED
    BY <2>4, <2>5 DEF Bijection
<1>6. Cardinality(RustdocRows(v)) = Cardinality(DocItems[d])
  <2>1. IsFiniteSet(DocItems[d])
    BY RustdocAssumption DEF RustdocAssumption
  <2>2. ExistsBijection(DocItems[d], RustdocRows(v))
    BY <1>5 DEF ExistsBijection
  <2> QED
    BY <2>1, <2>2, FS_Bijection
<1> QED
  BY <1>4, <1>6

-----------------------------------------------------------------------------
(* The next version, the next file. *)

\* A sync at a stage that holds no row.
LEMMA Unheld ==
    ASSUME NEW r, NEW f, NEW R, NEW T, RunShape(r, T),
           r.pc \notin OwnerPcs \cup ReplacePcs \cup {"enriched"}
    PROVE  RunOk(r, f, R, T)
  BY DEF RunOk, RunFiles, RunRows, OwnerPcs, ReplacePcs

\* A sync that is over holds nothing.
LEMMA IdleShape == \A T : RunShape(IdleRun, T) /\ IdleRun.pc = "idle"
  BY DEF IdleRun, RunShape, RunFields, FilePcs, OwnerPcs, PagePcs, ReplacePcs

\* So it is consistent with every state of the tables.
LEMMA IdleOk == \A f, R, T : RunOk(IdleRun, f, R, T)
<1> TAKE f, R, T
<1>1. RunShape(IdleRun, T) /\ IdleRun.pc = "idle"
  BY IdleShape
<1> QED
  BY <1>1, Unheld DEF OwnerPcs, ReplacePcs

\* After the source sync index_crate_version goes on with the rustdoc sync.
LEMMA AfterSourceOk ==
    ASSUME NEW r, NEW f, NEW R, NEW T, r.v \in Indexed
    PROVE  RunOk(AfterSource(r), f, R, T)
<1>1. RunOk(IdleRun, f, R, T)
  BY IdleOk
<1> DEFINE pick == [IdleRun EXCEPT !.pc = "pick", !.v = r.v]
<1>2. RunShape(pick, T) /\ pick.pc = "pick"
  BY DEF IdleRun, RunShape, RunFields, FilePcs, OwnerPcs, PagePcs, ReplacePcs
<1>3. AfterSource(r) \in {pick, IdleRun}
  BY DEF AfterSource
<1> HIDE DEF pick
<1>4. RunOk(pick, f, R, T)
  BY <1>2, Unheld DEF OwnerPcs, ReplacePcs
<1> QED
  BY <1>1, <1>3, <1>4

\* The next version of the page, or the end of the source sync.
LEMMA NextSourceOk ==
    ASSUME NEW r, NEW f, NEW R, NEW T, r.v \in Indexed \/ ~ r.follows,
           r.todo \subseteq Indexed, r.filter \subseteq Paths, r.follows \in BOOLEAN
    PROVE  RunOk(NextSource(r), f, R, T)
<1>1. CASE r.todo = {}
  <2>1. CASE r.v \in Indexed
    BY <1>1, <2>1, AfterSourceOk DEF NextSource
  <2>2. CASE ~ r.follows
    BY <1>1, <2>2, IdleOk DEF NextSource, AfterSource
  <2> QED
    BY <2>1, <2>2
<1>2. CASE r.todo # {}
  <2> DEFINE m == Max(r.todo)
             next == [IdleRun EXCEPT !.pc = "scan", !.v = m, !.todo = r.todo \ {m},
                                     !.filter = r.filter, !.follows = r.follows]
  <2>1. m \in r.todo /\ m \in Indexed
    BY <1>2, NewestIs
  <2>2. NextSource(r) = next
    BY <1>2 DEF NextSource
  <2> HIDE DEF m
  <2>3. RunShape(next, T) /\ next.pc = "scan"
    BY <2>1 DEF IdleRun, RunShape, RunFields, FilePcs, OwnerPcs, PagePcs, ReplacePcs
  <2> HIDE DEF next
  <2> QED
    BY <2>2, <2>3, Unheld DEF OwnerPcs, ReplacePcs
<1> QED
  BY <1>1, <1>2

\* The next file of the walk, or the pruning.
LEMMA NextFileOk ==
    ASSUME NEW r, NEW q, NEW f, NEW R, NEW T, DOMAIN r = RunFields, r.v \in Indexed,
           r.todo \subseteq Indexed, r.filter \subseteq Paths, r.follows \in BOOLEAN,
           DOMAIN r.found \subseteq Paths
    PROVE  RunOk(NextFile(r, q), f, R, T)
<1> DEFINE later == {x \in DOMAIN r.found : x > q}
           pc == IF later = {} THEN "prune" ELSE "upsert"
           at == IF later = {} THEN 0 ELSE Min(later)
           next == [r EXCEPT !.pc = pc, !.at = at, !.fid = NoId, !.wrote = FALSE, !.gone = {}]
<1>1. later # {} => at \in DOMAIN r.found /\ pc = "upsert"
  <2>1. later \in SUBSET Nat
    BY PathsAreNumbers
  <2>2. later # {} => Min(later) \in later
    <3> HIDE DEF later
    <3> QED
      BY <2>1, LeastIs
  <2> QED
    BY <2>2
<1>2. later = {} => pc = "prune"
  OBVIOUS
<1>3. NextFile(r, q) = next
  BY DEF NextFile
<1> HIDE DEF pc, at, later
<1>4. RunShape(next, T) /\ next.pc = pc
  BY <1>1, <1>2 DEF RunShape, RunFields, FilePcs, OwnerPcs, PagePcs, ReplacePcs
<1> HIDE DEF next
<1> QED
  BY <1>1, <1>2, <1>3, <1>4, Unheld DEF OwnerPcs, ReplacePcs

\* The next version of a rustdoc sync, or its end.
LEMMA NextDocOk ==
    ASSUME NEW r, NEW f, NEW R, NEW T, r.todo \subseteq T, r.todo \subseteq Indexed
    PROVE  RunOk(NextDoc(r), f, R, T)
<1>1. CASE r.todo = {}
  BY <1>1, IdleOk DEF NextDoc
<1>2. CASE r.todo # {}
  <2> DEFINE m == Max(r.todo)
             next == [IdleRun EXCEPT !.pc = "fetch", !.v = m, !.todo = r.todo \ {m}]
  <2>1. m \in r.todo /\ m \in Indexed
    BY <1>2, NewestIs
  <2>2. NextDoc(r) = next
    BY <1>2 DEF NextDoc
  <2> HIDE DEF m
  <2>3. RunShape(next, T) /\ next.pc = "fetch"
    BY <2>1 DEF IdleRun, RunShape, RunFields, FilePcs, OwnerPcs, PagePcs, ReplacePcs
  <2> HIDE DEF next
  <2> QED
    BY <2>2, <2>3, Unheld DEF OwnerPcs, ReplacePcs
<1> QED
  BY <1>1, <1>2

\* The local fallback, or an attempt without success.
LEMMA GiveUpOk ==
    ASSUME NEW r, NEW d, NEW f, NEW R, NEW T, RunShape(r, T), r.pc \in PagePcs
    PROVE  RunOk(GiveUpDoc(r, d), f, R, T)
<1> DEFINE local == [r EXCEPT !.pc = "ingest", !.doc = Local, !.gone = {}, !.fid = NoId]
           attempted == [r EXCEPT !.pc = "attempted", !.gone = {}, !.fid = NoId]
<1>1. RunShape(local, T) /\ local.pc = "ingest"
  BY DEF RunShape, RunFields, FilePcs, OwnerPcs, PagePcs, ReplacePcs, DocPaths
<1>2. RunShape(attempted, T) /\ attempted.pc = "attempted"
  BY DEF RunShape, RunFields, FilePcs, OwnerPcs, PagePcs, ReplacePcs
<1>3. GiveUpDoc(r, d) \in {local, attempted}
  BY DEF GiveUpDoc
<1> HIDE DEF local, attempted
<1>4. RunOk(local, f, R, T) /\ RunOk(attempted, f, R, T)
  BY <1>1, <1>2, Unheld DEF OwnerPcs, ReplacePcs
<1> QED
  BY <1>3, <1>4

-----------------------------------------------------------------------------
(* What a write of one sync leaves of the others. *)

\* From the files f to g the rows of documents keep their ids, and no file comes
\* to an id a sync holds.
Keeps(runs, f, g) ==
    /\ \A v \in Indexed, d \in DocPaths : f[v][d].id # NoId => g[v][d].id = f[v][d].id
    /\ \A v \in Indexed, q \in AllPaths, o \in Runners :
          g[v][q].id = runs[o].fid /\ runs[o].fid # NoId => f[v][q].id = g[v][q].id

\* From the rows R to S each version keeps its rustdoc rows or gets a document's.
KeepsDocs(R, g, S) ==
    \A v \in Indexed : DocRows(S, v) = DocRows(R, v) \/ OfDocument(DocRows(S, v), g, v)

\* A document's rows remain those of a document when its file keeps its id.
LEMMA OfDocumentKept ==
    ASSUME NEW runs, NEW f, NEW g, Keeps(runs, f, g), NEW v \in Indexed, NEW B, OfDocument(B, f, v)
    PROVE  OfDocument(B, g, v)
<1>1. PICK d \in DocPaths : \E n : f[v][d].id # NoId /\ B = Batch(f[v][d].id, d, n)
  BY DEF OfDocument
<1>2. PICK n : f[v][d].id # NoId /\ B = Batch(f[v][d].id, d, n)
  BY <1>1
<1>3. g[v][d].id = f[v][d].id
  BY <1>2 DEF Keeps
<1> QED
  BY <1>2, <1>3 DEF OfDocument

\* A sync that does not step stays as consistent as it was.
LEMMA OtherRunOk ==
    ASSUME NEW runs, NEW o \in Runners, NEW f, NEW R, NEW T, RunOk(runs[o], f, R, T),
           NEW g, NEW S, NEW U, Keeps(runs, f, g), KeepsDocs(R, g, S), T \subseteq U
    PROVE  RunOk(runs[o], g, S, U)
<1> DEFINE r == runs[o]
<1>1. RunShape(r, U)
  BY DEF RunOk, RunShape
<1>2. r.pc \in OwnerPcs \cup ReplacePcs \cup {"enriched", "insert", "docInsert"} => r.v \in Indexed
  BY DEF RunOk, RunShape, OwnerPcs, ReplacePcs
<1>3. RunFiles(r, g)
  <2>1. ASSUME r.pc \in OwnerPcs
        PROVE  r.fid # NoId /\ \A q \in AllPaths : g[r.v][q].id = r.fid => q = r.at
    <3>1. r.fid # NoId /\ r.v \in Indexed /\ \A q \in AllPaths : f[r.v][q].id = r.fid => q = r.at
      BY <2>1, <1>2 DEF RunOk, RunFiles
    <3>2. ASSUME NEW q \in AllPaths, g[r.v][q].id = r.fid PROVE f[r.v][q].id = r.fid
      BY <3>1, <3>2 DEF Keeps
    <3> QED
      BY <3>1, <3>2
  <2>2. ASSUME r.pc \in ReplacePcs PROVE r.fid # NoId /\ g[r.v][r.doc].id = r.fid
    <3>1. r.fid # NoId /\ f[r.v][r.doc].id = r.fid /\ r.v \in Indexed
      BY <2>2, <1>2 DEF RunOk, RunFiles
    <3>2. r.doc \in DocPaths
      BY <2>2 DEF RunOk, RunShape
    <3> QED
      BY <3>1, <3>2 DEF Keeps
  <2> QED
    BY <2>1, <2>2 DEF RunFiles
<1>4. RunRows(r, g, S)
  <2>1. r.pc = "insert" => \A x \in r.gone : x.fid = r.fid
    BY DEF RunOk, RunRows
  <2>2. r.pc = "docInsert" => r.gone = {} \/ OfDocument(r.gone, g, r.v)
    <3>1. r.pc = "docInsert" => r.gone = {} \/ OfDocument(r.gone, f, r.v)
      BY DEF RunOk, RunRows
    <3> QED
      BY <1>2, <3>1, OfDocumentKept
  <2>3. r.pc = "enriched" => OfDocument(DocRows(S, r.v), g, r.v)
    <3>1. r.pc = "enriched" => OfDocument(DocRows(R, r.v), f, r.v)
      BY DEF RunOk, RunRows
    <3>2. r.pc = "enriched" => OfDocument(DocRows(R, r.v), g, r.v)
      BY <1>2, <3>1, OfDocumentKept
    <3>3. r.pc = "enriched" => DocRows(S, r.v) = DocRows(R, r.v) \/ OfDocument(DocRows(S, r.v), g, r.v)
      BY <1>2 DEF KeepsDocs
    <3> QED
      BY <3>2, <3>3
  <2> QED
    BY <2>1, <2>2, <2>3 DEF RunRows
<1> QED
  BY <1>1, <1>3, <1>4 DEF RunOk

\* One sync steps: what has to be shown of the tables and of that sync.
LEMMA Step ==
    ASSUME IndexInv, NEW p \in Runners, NEW s, run' = [run EXCEPT ![p] = s],
           FilesOk(files'), Keeps(run, files, files'), RowsOk(files', rows'),
           KeepsDocs(rows, files', rows'), tried \subseteq tried', tried' \subseteq Indexed,
           enriched' \cup cooling' \subseteq tried',
           \A v \in enriched' \ enriched : OfDocument(DocRows(rows', v), files', v),
           RunOk(s, files', rows', tried')
    PROVE  IndexInv'
<1>1. DocsOk(files', rows')
  <2> SUFFICES ASSUME NEW v \in Indexed
               PROVE  DocRows(rows', v) = {} \/ OfDocument(DocRows(rows', v), files', v)
    BY DEF DocsOk
  <2>1. DocRows(rows, v) = {} \/ OfDocument(DocRows(rows, v), files', v)
    BY OfDocumentKept DEF IndexInv, DocsOk
  <2> QED
    BY <2>1 DEF KeepsDocs
<1>2. MarksOk(files', rows', enriched', cooling', tried')
  <2> SUFFICES ASSUME NEW v \in enriched' PROVE OfDocument(DocRows(rows', v), files', v)
    BY DEF MarksOk
  <2>1. CASE v \in enriched
    <3>1. v \in Indexed /\ OfDocument(DocRows(rows, v), files, v)
      BY <2>1 DEF IndexInv, MarksOk
    <3>2. OfDocument(DocRows(rows, v), files', v)
      BY <3>1, OfDocumentKept
    <3> QED
      BY <3>1, <3>2 DEF KeepsDocs
  <2> QED
    BY <2>1
<1>3. RunsOk(run', files', rows', tried')
  <2>1. DOMAIN run = Runners /\ \A o \in Runners : RunOk(run[o], files, rows, tried)
    BY DEF IndexInv, RunsOk
  <2>2. DOMAIN run' = Runners /\ run'[p] = s /\ \A o \in Runners \ {p} : run'[o] = run[o]
    BY <2>1
  <2>3. \A o \in Runners : RunOk(run[o], files', rows', tried')
    BY <2>1, OtherRunOk
  <2>4. \A o \in Runners : RunOk(run'[o], files', rows', tried')
    BY <2>2, <2>3
  <2> QED
    BY <2>2, <2>4 DEF RunsOk
<1> QED
  BY <1>1, <1>2, <1>3 DEF IndexInv

\* One sync steps and the tables stay.
LEMMA QuietStep ==
    ASSUME IndexInv, NEW p \in Runners, NEW s, run' = [run EXCEPT ![p] = s],
           files' = files, rows' = rows, enriched' = enriched, cooling' = cooling,
           tried \subseteq tried', tried' \subseteq Indexed, RunOk(s, files, rows, tried')
    PROVE  IndexInv'
<1>1. FilesOk(files') /\ RowsOk(files', rows') /\ RunOk(s, files', rows', tried')
  BY DEF IndexInv
<1>2. Keeps(run, files, files')
  BY DEF Keeps
<1>3. KeepsDocs(rows, files', rows')
  BY DEF KeepsDocs
<1>4. enriched' \cup cooling' \subseteq tried' /\ enriched' \ enriched = {}
  BY DEF IndexInv, MarksOk
<1> QED
  BY <1>1, <1>2, <1>3, <1>4, Step

\* An upsert keeps the ids of the rows there are and gives a new one to the rest.
LEMMA UpsertOk ==
    ASSUME FilesOk(files), NEW v \in Indexed, NEW q \in AllPaths, NEW sha, NEW g,
           g = [files EXCEPT ![v][q] = Upserted(v, q, sha)]
    PROVE  /\ FilesOk(g) /\ Keeps(run, files, g)
           /\ Upserted(v, q, sha).id # NoId
           /\ \A w \in Indexed, z \in AllPaths : files[w][z].id # NoId => g[w][z].id = files[w][z].id
<1> DEFINE new == Upserted(v, q, sha)
<1>1. DOMAIN files = Indexed /\ DOMAIN files[v] = AllPaths
  BY DEF FilesOk
<1>2. g[v][q] = new /\ \A z \in AllPaths : z # q => g[v][z] = files[v][z]
  BY <1>1
<1>3. DOMAIN g = Indexed /\ \A w \in Indexed : DOMAIN g[w] = AllPaths /\ (w # v => g[w] = files[w])
  BY <1>1 DEF FilesOk
<1>4. DOMAIN new = {"sha", "id"} /\ new.id # NoId
      /\ \/ new.id = files[v][q].id
         \/ /\ files[v][q].id = NoId
            /\ \A z \in AllPaths : files[v][z].id # new.id
            /\ \A p \in Runners : run[p].fid # new.id
  <2>1. CASE files[v][q] = NoFile
    <3>1. new = [sha |-> sha, id |-> FreshId(v)] /\ files[v][q].id = NoId
      BY <2>1 DEF Upserted, NoFile, NoId
    <3> HIDE DEF new
    <3>2. new.id = FreshId(v) /\ DOMAIN new = {"sha", "id"}
      BY <3>1
    <3> QED
      BY <3>1, <3>2, FreshIdIsNew
  <2>2. CASE files[v][q] # NoFile
    <3>1. new = [files[v][q] EXCEPT !.sha = sha]
      BY <2>2 DEF Upserted
    <3>2. DOMAIN files[v][q] = {"sha", "id"} /\ files[v][q].id # NoId
      BY <2>2 DEF FilesOk
    <3> HIDE DEF new
    <3> QED
      BY <3>1, <3>2
  <2> QED
    BY <2>1, <2>2
<1>5. \A w \in Indexed, z \in AllPaths : files[w][z].id # NoId => g[w][z].id = files[w][z].id
  <2> HIDE DEF new
  <2> QED
    BY <1>2, <1>3, <1>4
<1>6. Keeps(run, files, g)
  <2>1. \A w \in Indexed, d \in DocPaths : files[w][d].id # NoId => g[w][d].id = files[w][d].id
    BY <1>5 DEF AllPaths
  <2>2. ASSUME NEW w \in Indexed, NEW z \in AllPaths, NEW o \in Runners,
               g[w][z].id = run[o].fid, run[o].fid # NoId
        PROVE  files[w][z].id = g[w][z].id
    <3> HIDE DEF new
    <3> QED
      BY <1>2, <1>3, <1>4, <2>2
  <2> QED
    BY <2>1, <2>2 DEF Keeps
<1>7. FilesOk(g)
  <2>1. ASSUME NEW w \in Indexed, NEW z \in AllPaths
        PROVE  g[w][z] = NoFile \/ (DOMAIN g[w][z] = {"sha", "id"} /\ g[w][z].id # NoId)
    <3> HIDE DEF new
    <3> QED
      BY <1>2, <1>3, <1>4 DEF FilesOk
  <2>2. ASSUME NEW w \in Indexed, NEW y \in AllPaths, NEW z \in AllPaths, g[w][y].id = g[w][z].id
        PROVE  y = z \/ g[w][y] = NoFile
    <3> USE <2>2
    <3> HIDE DEF new
    <3>1. \A a, b \in AllPaths : files[w][a].id = files[w][b].id => a = b \/ files[w][a] = NoFile
      BY DEF FilesOk
    <3>2. NoFile.id = NoId
      BY DEF NoFile, NoId
    <3>3. CASE w # v
      BY <1>3, <3>1, <3>3
    <3>4. CASE w = v /\ y # q /\ z # q
      BY <1>2, <3>1, <3>4
    <3>5. CASE w = v /\ y = q /\ z # q
      <4>1. g[w][z] = files[v][z] /\ g[w][y] = new
        BY <1>2, <3>5
      <4> QED
        BY <1>4, <3>1, <3>2, <3>5, <4>1
    <3>6. CASE w = v /\ y # q /\ z = q
      <4>1. g[w][y] = files[v][y] /\ g[w][z] = new
        BY <1>2, <3>6
      <4> QED
        BY <1>4, <3>1, <3>2, <3>6, <4>1
    <3> QED
      BY <3>3, <3>4, <3>5, <3>6
  <2> QED
    BY <1>3, <2>1, <2>2 DEF FilesOk
<1>8. new.id # NoId
  <2> HIDE DEF new
  <2> QED
    BY <1>2, <1>4
<1> QED
  BY <1>5, <1>6, <1>7, <1>8

\* Rows stay with their files when no file loses its id.
LEMMA RowsKept ==
    ASSUME NEW f, NEW g, NEW R, RowsOk(f, R),
           \A w \in Indexed, z \in AllPaths : f[w][z].id # NoId => g[w][z].id = f[w][z].id
    PROVE  RowsOk(g, R)
<1>1. RustPaths \subseteq AllPaths /\ DocPaths \subseteq AllPaths
  BY PathsAreNumbers DEF AllPaths
<1>2. \A w \in Indexed, Q \in SUBSET AllPaths : Ids(f, w, Q) \subseteq Ids(g, w, Q)
  BY DEF Ids
<1>3. \A w \in Indexed : Ids(f, w, RustPaths) \subseteq Ids(g, w, RustPaths)
                         /\ Ids(f, w, DocPaths) \subseteq Ids(g, w, DocPaths)
  BY <1>1, <1>2
<1> QED
  BY <1>3 DEF RowsOk

-----------------------------------------------------------------------------
(* Initially, and with every step. *)

\* The tables the server starts with: enriched versions have docs.rs's document.
LEMMA InitInv == IndexInit => IndexInv
<1> SUFFICES ASSUME IndexInit PROVE IndexInv
  OBVIOUS
<1> DEFINE json == [sha |-> "json", id |-> 1]
           batch == {Row(1, "rustdoc_json", i, 0) : i \in DocItems[DocsRs]}
<1>0. DocsRs \in AllPaths /\ DocsRs \in DocPaths /\ DocPaths \subseteq AllPaths /\ enriched \subseteq Indexed
  BY RustdocAssumption DEF IndexInit, AllPaths, DocPaths, RustdocAssumption
<1>1. DOMAIN files = Indexed /\ \A v \in Indexed : DOMAIN files[v] = AllPaths
      /\ \A q \in AllPaths : files[v][q] = IF v \in enriched /\ q = DocsRs THEN json ELSE NoFile
  BY DEF IndexInit
<1>2. DOMAIN rows = Indexed /\ \A v \in Indexed : rows[v] = IF v \in enriched THEN batch ELSE {}
  BY DEF IndexInit
<1>3. DOMAIN json = {"sha", "id"} /\ json.id = 1 /\ NoFile.id = NoId /\ NoId = 0
  BY DEF NoFile, NoId
<1>4. \A x \in batch : x.src = "rustdoc_json" /\ x.fid = 1
  BY DEF Row
<1>5. FilesOk(files)
  <2> HIDE DEF json
  <2>1. ASSUME NEW v \in Indexed, NEW q \in AllPaths
        PROVE  files[v][q] = NoFile \/ (DOMAIN files[v][q] = {"sha", "id"} /\ files[v][q].id # NoId)
    BY <1>1, <1>3
  <2>2. ASSUME NEW v \in Indexed, NEW q \in AllPaths, NEW z \in AllPaths, files[v][q].id = files[v][z].id
        PROVE  q = z \/ files[v][q] = NoFile
    BY <1>1, <1>3, <2>2
  <2> QED
    BY <1>1, <2>1, <2>2 DEF FilesOk
<1>6. \A v \in enriched : files[v][DocsRs].id = 1
  BY <1>0, <1>1, <1>3
<1>7. RowsOk(files, rows)
  <2> HIDE DEF batch
  <2> SUFFICES ASSUME NEW v \in Indexed, NEW x \in rows[v]
               PROVE  x.src = "rustdoc_json" /\ x.fid \in Ids(files, v, DocPaths)
    BY <1>2 DEF RowsOk
  <2>1. v \in enriched /\ x \in batch
    BY <1>2
  <2>2. x.fid = files[v][DocsRs].id /\ x.fid # NoId /\ x.src = "rustdoc_json"
    BY <1>3, <1>4, <1>6, <2>1
  <2> QED
    BY <1>0, <2>2 DEF Ids
<1>8. \A v \in enriched : OfDocument(DocRows(rows, v), files, v)
  <2> SUFFICES ASSUME NEW v \in enriched PROVE OfDocument(DocRows(rows, v), files, v)
    OBVIOUS
  <2>1. rows[v] = batch
    BY <1>0, <1>2
  <2>2. DocRows(rows, v) = batch
    <3> HIDE DEF batch
    <3> QED
      BY <1>4, <2>1 DEF DocRows
  <2>3. batch = Batch(files[v][DocsRs].id, DocsRs, 0) /\ files[v][DocsRs].id # NoId
    BY <1>3, <1>6 DEF Batch
  <2> HIDE DEF batch
  <2> QED
    BY <1>0, <2>2, <2>3 DEF OfDocument
<1>9. DocsOk(files, rows)
  <2> SUFFICES ASSUME NEW v \in Indexed, v \notin enriched PROVE DocRows(rows, v) = {}
    BY <1>8 DEF DocsOk
  <2> QED
    BY <1>2 DEF DocRows
<1>10. MarksOk(files, rows, enriched, cooling, tried)
  BY <1>0, <1>8 DEF IndexInit, MarksOk
<1>11. RunsOk(run, files, rows, tried)
  BY IdleOk DEF IndexInit, RunsOk
<1> QED
  BY <1>5, <1>7, <1>9, <1>10, <1>11 DEF IndexInv

\* What the invariant says of the sync that steps, at each stage.
LEMMA RunOf ==
    ASSUME IndexInv, NEW p \in Runners
    PROVE  /\ RunOk(run[p], files, rows, tried) /\ RunShape(run[p], tried)
           /\ tried \subseteq Indexed /\ DOMAIN run = Runners
  BY DEF IndexInv, RunsOk, RunOk, MarksOk

\* Nothing of the index tables and of the syncs changes.
LEMMA Untouched ==
    ASSUME IndexInv, UNCHANGED <<files, rows, run, enriched, tried>>, cooling' \subseteq cooling
    PROVE  IndexInv'
<1>1. MarksOk(files', rows', enriched', cooling', tried')
  BY DEF IndexInv, MarksOk
<1>2. FilesOk(files') /\ RowsOk(files', rows') /\ DocsOk(files', rows')
      /\ RunsOk(run', files', rows', tried')
  BY DEF IndexInv
<1> QED
  BY <1>1, <1>2 DEF IndexInv

\* A sync that goes to a stage at which it holds no row.
LEMMA UnheldStep ==
    ASSUME IndexInv, NEW p \in Runners, NEW s, Goto(p, s),
           UNCHANGED <<files, rows, enriched, cooling, tried>>, RunOk(s, files, rows, tried)
    PROVE  IndexInv'
<1>1. run' = [run EXCEPT ![p] = s] /\ tried' = tried /\ tried \subseteq Indexed
  BY DEF Goto, IndexInv, MarksOk
<1> QED
  BY <1>1, QuietStep

\* ensure_source_on_disk writes no table.
LEMMA EnsureSourceInv ==
    ASSUME IndexInv, NEW p \in Runners, EnsureSource(p), UNCHANGED docVars
    PROVE  IndexInv'
<1> DEFINE r == run[p]
           scan == [r EXCEPT !.pc = "scan"]
           unpack == [r EXCEPT !.pc = "unpack", !.at = 1]
<1>1. RunShape(r, tried) /\ r.pc = "ensure" /\ UNCHANGED <<files, rows, enriched, cooling, tried>>
  BY RunOf DEF EnsureSource, At, docVars
<1>2. Goto(p, scan) \/ Goto(p, unpack)
  BY DEF EnsureSource
<1> HIDE DEF r
<1>3. RunShape(scan, tried) /\ scan.pc = "scan" /\ RunShape(unpack, tried) /\ unpack.pc = "unpack"
  BY <1>1 DEF RunShape, RunFields, FilePcs, OwnerPcs, PagePcs, ReplacePcs
<1> HIDE DEF scan, unpack
<1>4. RunOk(scan, files, rows, tried) /\ RunOk(unpack, files, rows, tried)
  BY <1>3, Unheld DEF OwnerPcs, ReplacePcs
<1> QED
  BY <1>1, <1>2, <1>4, UnheldStep

\* Nor does the unpacking of the archive.
LEMMA UnpackNextInv ==
    ASSUME IndexInv, NEW p \in Runners, UnpackNext(p), UNCHANGED docVars
    PROVE  IndexInv'
<1> DEFINE r == run[p]
           scan == [r EXCEPT !.pc = "scan", !.at = 0]
           unpack == [r EXCEPT !.at = r.at + 1]
<1>1. RunShape(r, tried) /\ r.pc = "unpack" /\ UNCHANGED <<files, rows, enriched, cooling, tried>>
  BY RunOf DEF UnpackNext, At, docVars
<1>2. Goto(p, scan) \/ Goto(p, unpack)
  BY DEF UnpackNext
<1> HIDE DEF r
<1>3. RunShape(scan, tried) /\ scan.pc = "scan" /\ RunShape(unpack, tried) /\ unpack.pc = "unpack"
  BY <1>1 DEF RunShape, RunFields, FilePcs, OwnerPcs, PagePcs, ReplacePcs
<1> HIDE DEF scan, unpack
<1>4. RunOk(scan, files, rows, tried) /\ RunOk(unpack, files, rows, tried)
  BY <1>3, Unheld DEF OwnerPcs, ReplacePcs
<1> QED
  BY <1>1, <1>2, <1>4, UnheldStep

\* scan_cache_version_dir finds files of the version only, the filter's.
LEMMA ScanVersionInv ==
    ASSUME IndexInv, NEW p \in Runners, ScanVersion(p), UNCHANGED docVars
    PROVE  IndexInv'
<1> DEFINE r == run[p]
           seen == {q \in r.filter : disk[r.v][q] # Absent}
           walked == [r EXCEPT !.found = [q \in seen |-> disk[r.v][q]]]
<1>1. RunShape(r, tried) /\ r.pc = "scan" /\ UNCHANGED <<files, rows, enriched, cooling, tried>>
  BY RunOf DEF ScanVersion, At, docVars
<1>2. Goto(p, NextFile(walked, 0)) \/ Goto(p, NextSource(r))
  BY DEF ScanVersion
<1> HIDE DEF r
<1>3. r.v \in Indexed /\ r.todo \subseteq Indexed /\ r.filter \subseteq Paths /\ r.follows \in BOOLEAN
  BY <1>1 DEF RunShape
<1>4. DOMAIN walked = RunFields /\ walked.v = r.v /\ walked.todo = r.todo /\ walked.filter = r.filter
      /\ walked.follows = r.follows /\ DOMAIN walked.found \subseteq Paths
  <2>1. DOMAIN r = RunFields
    BY <1>1 DEF RunShape
  <2>2. walked.found = [q \in seen |-> disk[r.v][q]] /\ seen \subseteq Paths
    BY <1>3, <2>1 DEF RunFields
  <2>3. DOMAIN walked.found \subseteq Paths
    <3> HIDE DEF walked
    <3> QED
      BY <2>2
  <2>4. walked.v = r.v /\ walked.todo = r.todo /\ walked.filter = r.filter /\ walked.follows = r.follows
        /\ DOMAIN walked = RunFields
    BY <2>1 DEF RunFields
  <2> HIDE DEF walked
  <2> QED
    BY <2>3, <2>4
<1> HIDE DEF walked
<1>5. RunOk(NextFile(walked, 0), files, rows, tried)
  BY <1>3, <1>4, NextFileOk
<1>6. RunOk(NextSource(r), files, rows, tried)
  BY <1>3, NextSourceOk
<1> QED
  BY <1>1, <1>2, <1>5, <1>6, UnheldStep

\* What a source sync at a file knows.
LEMMA AtFile ==
    ASSUME IndexInv, NEW p \in Runners, run[p].pc \in FilePcs \cup {"prune"}
    PROVE  /\ DOMAIN run[p] = RunFields /\ run[p].v \in Indexed
           /\ run[p].todo \subseteq Indexed /\ run[p].filter \subseteq Paths
           /\ run[p].follows \in BOOLEAN /\ DOMAIN run[p].found \subseteq Paths
           /\ run[p].pc \in FilePcs => run[p].at \in DOMAIN run[p].found /\ run[p].at \in AllPaths
           /\ run[p].pc \in OwnerPcs => run[p].at \in RustPaths
<1>1. RunShape(run[p], tried)
  BY RunOf
<1>2. Paths \subseteq AllPaths
  BY DEF AllPaths
<1>3. run[p].pc # "idle"
  BY DEF FilePcs, OwnerPcs
<1> QED
  BY <1>1, <1>2, <1>3 DEF RunShape

\* upsert_source_file_if_sha_changed: the sync then holds the id of that file.
LEMMA UpsertFileInv ==
    ASSUME IndexInv, NEW p \in Runners, UpsertFile(p), UNCHANGED docVars
    PROVE  IndexInv'
<1> DEFINE r == run[p]
           q == r.at
           new == Upserted(r.v, q, r.found[q])
           lookup == [r EXCEPT !.pc = "lookup"]
           count == [r EXCEPT !.pc = "count", !.fid = new.id, !.wrote = TRUE]
<1>1. RunShape(r, tried) /\ r.pc = "upsert" /\ tried \subseteq Indexed
      /\ UNCHANGED <<rows, enriched, cooling, tried>>
  BY RunOf DEF UpsertFile, At, docVars
<1>2. DOMAIN r = RunFields /\ r.v \in Indexed /\ r.todo \subseteq Indexed /\ r.filter \subseteq Paths
      /\ r.follows \in BOOLEAN /\ DOMAIN r.found \subseteq Paths /\ q \in DOMAIN r.found /\ q \in AllPaths
  BY <1>1, AtFile DEF FilePcs
<1>3. \/ files' = files /\ Goto(p, lookup)
      \/ /\ files' = [files EXCEPT ![r.v][q] = new]
         /\ \/ q \in RustPaths /\ Goto(p, count)
            \/ Goto(p, NextFile(r, q))
  BY DEF UpsertFile
<1>4. CASE files' = files /\ Goto(p, lookup)
  <2> HIDE DEF r
  <2>1. RunShape(lookup, tried) /\ lookup.pc = "lookup"
    BY <1>1 DEF RunShape, RunFields, FilePcs, OwnerPcs, PagePcs, ReplacePcs
  <2> HIDE DEF lookup
  <2>2. RunOk(lookup, files, rows, tried)
    BY <2>1, Unheld DEF OwnerPcs, ReplacePcs
  <2> QED
    BY <1>1, <1>4, <2>2, UnheldStep
<1>5. CASE /\ files' = [files EXCEPT ![r.v][q] = new]
           /\ \/ q \in RustPaths /\ Goto(p, count)
              \/ Goto(p, NextFile(r, q))
  <2>1. /\ FilesOk(files') /\ Keeps(run, files, files')
        /\ files'[r.v][q].id = new.id /\ new.id # NoId
        /\ \A w \in Indexed, z \in AllPaths : files[w][z].id # NoId => files'[w][z].id = files[w][z].id
    <3>1. FilesOk(files)
      BY DEF IndexInv
    <3>2. files' = [files EXCEPT ![r.v][q] = Upserted(r.v, q, r.found[q])]
      BY <1>5
    <3>3. r.v \in Indexed /\ q \in AllPaths
      BY <1>2
    <3>4. files'[r.v][q] = new
      <4>1. DOMAIN files = Indexed /\ DOMAIN files[r.v] = AllPaths
        BY <3>1, <3>3 DEF FilesOk
      <4> HIDE DEF r, q
      <4> QED
        BY <3>2, <3>3, <4>1
    <3> HIDE DEF r, q
    <3>5. FilesOk(files') /\ Keeps(run, files, files')
      BY <3>1, <3>2, <3>3, UpsertOk
    <3>7. new.id # NoId
      BY <3>1, <3>2, <3>3, UpsertOk
    <3>6. \A w \in Indexed, z \in AllPaths : files[w][z].id # NoId => files'[w][z].id = files[w][z].id
      BY <3>1, <3>2, <3>3, UpsertOk
    <3> HIDE DEF new
    <3> QED
      BY <3>4, <3>5, <3>6, <3>7
  <2>2. RowsOk(files', rows')
    <3>1. RowsOk(files, rows)
      BY DEF IndexInv
    <3>2. RowsOk(files', rows)
      BY <2>1, <3>1, RowsKept
    <3> QED
      BY <1>1, <3>2
  <2>3. KeepsDocs(rows, files', rows')
    BY <1>1 DEF KeepsDocs
  <2>4. RunOk(NextFile(r, q), files', rows', tried')
    <3> HIDE DEF r, q
    <3> QED
      BY <1>2, NextFileOk
  <2>5. ASSUME q \in RustPaths PROVE RunOk(count, files', rows', tried')
    <3>1. \A z \in AllPaths : files'[r.v][z].id = new.id => z = q
      <4>1. NoFile.id = NoId
        BY DEF NoFile, NoId
      <4> HIDE DEF r, q, new
      <4> QED
        BY <1>2, <2>1, <4>1 DEF FilesOk
    <3>2. DOMAIN count = RunFields /\ count.pc = "count" /\ count.fid = new.id
          /\ \A x \in {"todo", "v", "filter", "found", "at", "doc", "follows"} : count[x] = r[x]
      <4> HIDE DEF r, new
      <4> QED
        BY <1>2 DEF RunFields
    <3> HIDE DEF count, new
    <3>3. count.todo = r.todo /\ count.v = r.v /\ count.filter = r.filter /\ count.found = r.found
          /\ count.at = r.at /\ count.follows = r.follows
      BY <3>2
    <3>4. RunShape(count, tried')
      <4> HIDE DEF r
      <4> QED
        BY <1>2, <2>5, <3>2, <3>3 DEF RunShape, FilePcs, OwnerPcs, PagePcs, ReplacePcs
    <3>5. RunFiles(count, files')
      BY <2>1, <3>1, <3>2, <3>3 DEF RunFiles, OwnerPcs, ReplacePcs
    <3>6. RunRows(count, files', rows')
      BY <3>2 DEF RunRows
    <3> QED
      BY <3>4, <3>5, <3>6 DEF RunOk
  <2>6. PICK s : run' = [run EXCEPT ![p] = s] /\ RunOk(s, files', rows', tried')
    BY <1>5, <2>4, <2>5 DEF Goto
  <2>7. tried \subseteq tried' /\ tried' \subseteq Indexed /\ enriched' \cup cooling' \subseteq tried'
        /\ enriched' \ enriched = {}
    BY <1>1 DEF IndexInv, MarksOk
  <2> QED
    BY <2>1, <2>2, <2>3, <2>6, <2>7, Step
<1> QED
  BY <1>3, <1>4, <1>5

\* fetch_source_file_id_optional: an id that is found is that of this file alone.
LEMMA LookupFileInv ==
    ASSUME IndexInv, NEW p \in Runners, LookupFile(p), UNCHANGED docVars
    PROVE  IndexInv'
<1> DEFINE r == run[p]
           id == files[r.v][r.at].id
           count == [r EXCEPT !.pc = "count", !.fid = id]
<1>1. r.pc = "lookup" /\ UNCHANGED <<files, rows, enriched, cooling, tried>>
  BY DEF LookupFile, At, docVars
<1>2. DOMAIN r = RunFields /\ r.v \in Indexed /\ r.todo \subseteq Indexed /\ r.filter \subseteq Paths
      /\ r.follows \in BOOLEAN /\ DOMAIN r.found \subseteq Paths /\ r.at \in DOMAIN r.found /\ r.at \in AllPaths
  BY <1>1, AtFile DEF FilePcs
<1>3. Goto(p, NextFile(r, r.at)) \/ (r.at \in RustPaths /\ id # NoId /\ Goto(p, count))
  BY DEF LookupFile
<1>4. RunOk(NextFile(r, r.at), files, rows, tried)
  <2> HIDE DEF r
  <2> QED
    BY <1>2, NextFileOk
<1>5. ASSUME r.at \in RustPaths, id # NoId PROVE RunOk(count, files, rows, tried)
  <2>1. \A z \in AllPaths : files[r.v][z].id = id => z = r.at
    <3>1. NoFile.id = NoId
      BY DEF NoFile, NoId
    <3>2. FilesOk(files)
      BY DEF IndexInv
    <3> HIDE DEF r
    <3> QED
      BY <1>2, <1>5, <3>1, <3>2 DEF FilesOk
  <2>2. DOMAIN count = RunFields /\ count.pc = "count" /\ count.fid = id
        /\ count.todo = r.todo /\ count.v = r.v /\ count.filter = r.filter /\ count.found = r.found
        /\ count.at = r.at /\ count.follows = r.follows
    <3> HIDE DEF r, id
    <3> QED
      BY <1>2 DEF RunFields
  <2> HIDE DEF count
  <2>3. RunShape(count, tried)
    <3> HIDE DEF r, id
    <3> QED
      BY <1>2, <1>5, <2>2 DEF RunShape, FilePcs, OwnerPcs, PagePcs, ReplacePcs
  <2>4. RunFiles(count, files)
    BY <1>5, <2>1, <2>2 DEF RunFiles, OwnerPcs, ReplacePcs
  <2>5. RunRows(count, files, rows)
    BY <2>2 DEF RunRows
  <2> QED
    BY <2>3, <2>4, <2>5 DEF RunOk
<1>6. PICK s : Goto(p, s) /\ RunOk(s, files, rows, tried)
  BY <1>3, <1>4, <1>5
<1> QED
  BY <1>1, <1>6, UnheldStep

\* A sync that has a file's row goes on with that row.
LEMMA OwnerGoesOn ==
    ASSUME NEW r, NEW s, NEW f, NEW R, NEW T, RunOk(r, f, R, T), r.pc \in OwnerPcs, s.pc \in OwnerPcs,
           DOMAIN s = RunFields, s.todo = r.todo, s.v = r.v, s.filter = r.filter, s.found = r.found,
           s.at = r.at, s.fid = r.fid, s.follows = r.follows,
           s.pc = "insert" => \A x \in s.gone : x.fid = s.fid
    PROVE  RunOk(s, f, R, T)
<1>1. RunShape(s, T)
  BY DEF RunOk, RunShape, FilePcs, OwnerPcs, PagePcs, ReplacePcs
<1>2. RunFiles(s, f)
  BY DEF RunOk, RunFiles, OwnerPcs, ReplacePcs
<1>3. RunRows(s, f, R)
  BY DEF RunRows, OwnerPcs
<1> QED
  BY <1>1, <1>2, <1>3 DEF RunOk

\* count_source_file_index_rows only decides whether the file is extracted.
LEMMA CountRowsInv ==
    ASSUME IndexInv, NEW p \in Runners, CountRows(p), UNCHANGED docVars
    PROVE  IndexInv'
<1> DEFINE r == run[p]
           clear == [r EXCEPT !.pc = "clear"]
<1>1. r.pc = "count" /\ UNCHANGED <<files, rows, enriched, cooling, tried>>
      /\ RunOk(r, files, rows, tried)
  BY RunOf DEF CountRows, At, docVars
<1>2. DOMAIN r = RunFields /\ r.v \in Indexed /\ r.todo \subseteq Indexed /\ r.filter \subseteq Paths
      /\ r.follows \in BOOLEAN /\ DOMAIN r.found \subseteq Paths
  BY <1>1, AtFile DEF FilePcs, OwnerPcs
<1>3. Goto(p, NextFile(r, r.at)) \/ Goto(p, clear)
  BY DEF CountRows
<1> HIDE DEF r
<1>4. RunOk(NextFile(r, r.at), files, rows, tried)
  BY <1>2, NextFileOk
<1>5. DOMAIN clear = RunFields /\ clear.pc = "clear" /\ clear.fid = r.fid
      /\ clear.todo = r.todo /\ clear.v = r.v /\ clear.filter = r.filter /\ clear.found = r.found
      /\ clear.at = r.at /\ clear.follows = r.follows
  BY <1>2 DEF RunFields
<1> HIDE DEF clear
<1>6. RunOk(clear, files, rows, tried)
  BY <1>1, <1>5, OwnerGoesOn DEF OwnerPcs
<1> QED
  BY <1>1, <1>3, <1>4, <1>6, UnheldStep

\* The DELETE of replace_source_file_index_rows takes rows of this file only.
LEMMA ClearFileRowsInv ==
    ASSUME IndexInv, NEW p \in Runners, ClearFileRows(p), UNCHANGED docVars
    PROVE  IndexInv'
<1> DEFINE r == run[p]
           gone == {x \in rows[r.v] : x.fid = r.fid}
           insert == [r EXCEPT !.pc = "insert", !.gone = gone]
<1>1. r.pc = "clear" /\ UNCHANGED <<files, rows, enriched, cooling, tried>>
      /\ RunOk(r, files, rows, tried) /\ Goto(p, insert)
  BY RunOf DEF ClearFileRows, At, docVars
<1>2. DOMAIN r = RunFields
  BY <1>1, AtFile DEF FilePcs, OwnerPcs
<1>3. \A x \in gone : x.fid = r.fid
  OBVIOUS
<1> HIDE DEF r, gone
<1>4. DOMAIN insert = RunFields /\ insert.pc = "insert" /\ insert.fid = r.fid /\ insert.gone = gone
      /\ insert.todo = r.todo /\ insert.v = r.v /\ insert.filter = r.filter /\ insert.found = r.found
      /\ insert.at = r.at /\ insert.follows = r.follows
  BY <1>2 DEF RunFields
<1> HIDE DEF insert
<1>5. RunOk(insert, files, rows, tried)
  BY <1>1, <1>3, <1>4, OwnerGoesOn DEF OwnerPcs
<1> QED
  BY <1>1, <1>5, UnheldStep

\* The rows of one file are replaced: those of other files, rustdoc's among
\* them, stay.
LEMMA InsertFileRowsInv ==
    ASSUME IndexInv, NEW p \in Runners, InsertFileRows(p), UNCHANGED docVars
    PROVE  IndexInv'
<1> DEFINE r == run[p]
           new == {Row(r.fid, "syn", i, FreshRow(r.v)) : i \in {r.found[r.at]}}
<1>1. r.pc = "insert" /\ UNCHANGED <<files, enriched, cooling, tried>> /\ RunOk(r, files, rows, tried)
  BY RunOf DEF InsertFileRows, At, docVars
<1>2. DOMAIN r = RunFields /\ r.v \in Indexed /\ r.todo \subseteq Indexed /\ r.filter \subseteq Paths
      /\ r.follows \in BOOLEAN /\ DOMAIN r.found \subseteq Paths /\ r.at \in RustPaths
  BY <1>1, AtFile DEF FilePcs, OwnerPcs
<1>3. \/ /\ r.fid \in IdsAt(r.v, AllPaths) /\ Goto(p, NextFile(r, r.at))
         /\ rows' = [rows EXCEPT ![r.v] = (rows[r.v] \ r.gone) \cup new]
      \/ rows' = rows /\ Goto(p, AfterSource(r))
  BY DEF InsertFileRows, Replace
<1>4. CASE rows' = rows /\ Goto(p, AfterSource(r))
  <2>1. RunOk(AfterSource(r), files, rows, tried)
    BY <1>2, AfterSourceOk
  <2> QED
    BY <1>1, <1>4, <2>1, UnheldStep
<1>5. CASE /\ r.fid \in IdsAt(r.v, AllPaths) /\ Goto(p, NextFile(r, r.at))
           /\ rows' = [rows EXCEPT ![r.v] = (rows[r.v] \ r.gone) \cup new]
  <2>0. FilesOk(files) /\ RowsOk(files, rows) /\ DOMAIN rows = Indexed
    BY DEF IndexInv, RowsOk
  <2>1. \A x \in new : x.src = "syn" /\ x.fid = r.fid
    BY DEF Row
  <2>2. r.fid # NoId /\ (\A q \in AllPaths : files[r.v][q].id = r.fid => q = r.at)
        /\ \A x \in r.gone : x.fid = r.fid
    BY <1>1 DEF RunOk, RunFiles, RunRows, OwnerPcs
  <2>3. r.fid \in Ids(files, r.v, RustPaths)
    BY <1>2, <1>5, <2>2 DEF Ids, IdsAt
  <2>4. rows'[r.v] = (rows[r.v] \ r.gone) \cup new /\ DOMAIN rows' = Indexed
        /\ \A w \in Indexed : w # r.v => rows'[w] = rows[w]
    <3> HIDE DEF r, new
    <3> QED
      BY <1>2, <1>5, <2>0
  <2> HIDE DEF new
  <2>5. RowsOk(files', rows')
    <3> SUFFICES ASSUME NEW w \in Indexed, NEW x \in rows'[w]
                 PROVE  \/ x.src = "syn" /\ x.fid \in Ids(files, w, RustPaths)
                        \/ x.src = "rustdoc_json" /\ x.fid \in Ids(files, w, DocPaths)
      BY <1>1, <2>4 DEF RowsOk
    <3>1. x \in rows[w] \/ (w = r.v /\ x \in new)
      BY <2>4
    <3>2. CASE x \in rows[w]
      BY <2>0, <3>2 DEF RowsOk
    <3>3. CASE w = r.v /\ x \in new
      BY <2>1, <2>3, <3>3
    <3> QED
      BY <3>1, <3>2, <3>3
  <2>6. ASSUME NEW x \in rows[r.v], x.src = "rustdoc_json" PROVE x \notin r.gone
    <3> SUFFICES ASSUME x.fid = r.fid PROVE FALSE
      BY <2>2
    <3>1. x.fid \in Ids(files, r.v, DocPaths)
      BY <1>2, <2>0, <2>6 DEF RowsOk
    <3>2. PICK d \in DocPaths : files[r.v][d].id = r.fid
      BY <3>1 DEF Ids
    <3>3. d = r.at
      BY <2>2, <3>2 DEF AllPaths
    <3> QED
      BY <1>2, <3>3, PathsAreNumbers
  <2>7. DocRows(rows', r.v) = DocRows(rows, r.v)
    BY <2>1, <2>4, <2>6 DEF DocRows
  <2>8. KeepsDocs(rows, files', rows')
    BY <2>4, <2>7 DEF KeepsDocs, DocRows
  <2>9. FilesOk(files') /\ Keeps(run, files, files')
    BY <1>1, <2>0 DEF Keeps
  <2>10. RunOk(NextFile(r, r.at), files', rows', tried')
    <3> HIDE DEF r
    <3> QED
      BY <1>2, NextFileOk
  <2>11. tried \subseteq tried' /\ tried' \subseteq Indexed /\ enriched' \cup cooling' \subseteq tried'
         /\ enriched' \ enriched = {} /\ run' = [run EXCEPT ![p] = NextFile(r, r.at)]
    BY <1>1, <1>5 DEF IndexInv, MarksOk, Goto
  <2> QED
    BY <2>5, <2>8, <2>9, <2>10, <2>11, Step
<1> QED
  BY <1>3, <1>4, <1>5

\* Pruning takes source files and their rows, never the file of a document.
LEMMA PruneFilesInv ==
    ASSUME IndexInv, NEW p \in Runners, PruneFiles(p), UNCHANGED docVars
    PROVE  IndexInv'
<1> DEFINE r == run[p]
           stale == Paths \ DOMAIN r.found
           left == [q \in AllPaths |-> IF q \in stale THEN NoFile ELSE files[r.v][q]]
           kept == {x \in rows[r.v] : x.fid \notin IdsAt(r.v, stale)}
<1>1. r.pc = "prune" /\ UNCHANGED <<enriched, cooling, tried>> /\ Goto(p, NextSource(r))
      /\ files' = [files EXCEPT ![r.v] = left] /\ rows' = [rows EXCEPT ![r.v] = kept]
  BY DEF PruneFiles, At, docVars
<1>2. r.v \in Indexed /\ r.todo \subseteq Indexed /\ r.filter \subseteq Paths /\ r.follows \in BOOLEAN
  BY <1>1, AtFile
<1>3. FilesOk(files) /\ RowsOk(files, rows) /\ DOMAIN rows = Indexed /\ DOMAIN files = Indexed
      /\ DOMAIN files[r.v] = AllPaths
  BY <1>2 DEF IndexInv, RowsOk, FilesOk
<1>4. files'[r.v] = left /\ rows'[r.v] = kept /\ DOMAIN files' = Indexed /\ DOMAIN rows' = Indexed
      /\ \A w \in Indexed : w # r.v => files'[w] = files[w] /\ rows'[w] = rows[w]
  <2> HIDE DEF r, left, kept
  <2> QED
    BY <1>1, <1>2, <1>3
<1>5. DOMAIN files'[r.v] = AllPaths
      /\ \A q \in AllPaths : files'[r.v][q] = IF q \in stale THEN NoFile ELSE files[r.v][q]
  BY <1>4
<1>6. NoFile.id = NoId /\ stale \cap DocPaths = {} /\ stale \subseteq AllPaths /\ DocPaths \subseteq AllPaths
      /\ RustPaths \subseteq AllPaths
  BY PathsAreNumbers DEF NoFile, NoId, AllPaths
<1>7. \A x \in kept : x \in rows[r.v] /\ x.fid \notin IdsAt(r.v, stale)
  OBVIOUS
<1>8. \A x \in rows[r.v] : x.fid \notin IdsAt(r.v, stale) => x \in kept
  OBVIOUS
<1> HIDE DEF r, stale, left, kept
<1>9. FilesOk(files')
  <2>1. ASSUME NEW w \in Indexed
        PROVE  /\ DOMAIN files'[w] = AllPaths
               /\ \A q \in AllPaths : files'[w][q] = NoFile \/ files'[w][q] = files[w][q]
    BY <1>3, <1>4, <1>5 DEF FilesOk
  <2>2. ASSUME NEW w \in Indexed, NEW y \in AllPaths, NEW z \in AllPaths, files'[w][y].id = files'[w][z].id
        PROVE  y = z \/ files'[w][y] = NoFile
    <3>1. CASE files'[w][z] = NoFile /\ files'[w][y] # NoFile
      <4>1. files'[w][y] = files[w][y] /\ files[w][y].id # NoId
        BY <1>3, <2>1, <3>1 DEF FilesOk
      <4> QED
        BY <1>6, <2>2, <3>1, <4>1
    <3>2. CASE files'[w][z] # NoFile /\ files'[w][y] # NoFile
      BY <1>3, <2>1, <2>2, <3>2 DEF FilesOk
    <3> QED
      BY <3>1, <3>2
  <2>3. \A w \in Indexed, q \in AllPaths :
            files'[w][q] = NoFile \/ (DOMAIN files'[w][q] = {"sha", "id"} /\ files'[w][q].id # NoId)
    BY <1>3, <2>1 DEF FilesOk
  <2> QED
    BY <1>4, <2>1, <2>2, <2>3 DEF FilesOk
<1>10. Keeps(run, files, files')
  <2>1. \A w \in Indexed, d \in DocPaths : files'[w][d] = files[w][d]
    BY <1>4, <1>5, <1>6
  <2>2. ASSUME NEW w \in Indexed, NEW q \in AllPaths, files'[w][q].id # NoId
        PROVE  files'[w][q].id = files[w][q].id
    BY <1>4, <1>5, <1>6, <2>2
  <2> QED
    BY <2>1, <2>2 DEF Keeps
<1>11. \A Q \in SUBSET AllPaths : \A x \in kept : x.fid \in Ids(files, r.v, Q) => x.fid \in Ids(files', r.v, Q)
  <2> SUFFICES ASSUME NEW Q \in SUBSET AllPaths, NEW x \in kept, x.fid \in Ids(files, r.v, Q)
               PROVE  x.fid \in Ids(files', r.v, Q)
    OBVIOUS
  <2>1. PICK q \in Q : x.fid = files[r.v][q].id /\ x.fid # NoId
    BY DEF Ids
  <2>2. q \notin stale
    BY <1>7, <2>1 DEF IdsAt
  <2>3. files'[r.v][q] = files[r.v][q]
    BY <1>5, <2>2
  <2> QED
    BY <2>1, <2>3 DEF Ids
<1>12. RowsOk(files', rows')
  <2> SUFFICES ASSUME NEW w \in Indexed, NEW x \in rows'[w]
               PROVE  \/ x.src = "syn" /\ x.fid \in Ids(files', w, RustPaths)
                      \/ x.src = "rustdoc_json" /\ x.fid \in Ids(files', w, DocPaths)
    BY <1>4 DEF RowsOk
  <2>1. x \in rows[w]
    BY <1>4, <1>7
  <2>2. \/ x.src = "syn" /\ x.fid \in Ids(files, w, RustPaths)
        \/ x.src = "rustdoc_json" /\ x.fid \in Ids(files, w, DocPaths)
    BY <1>3, <2>1 DEF RowsOk
  <2>3. CASE w = r.v
    BY <1>4, <1>6, <1>11, <2>2, <2>3
  <2>4. CASE w # r.v
    BY <1>4, <2>2, <2>4 DEF Ids
  <2> QED
    BY <2>3, <2>4
<1>13. ASSUME NEW x \in rows[r.v], x.src = "rustdoc_json" PROVE x \in kept
  <2> SUFFICES ASSUME x.fid \in IdsAt(r.v, stale) PROVE FALSE
    BY <1>8
  <2>1. x.fid \in Ids(files, r.v, DocPaths)
    BY <1>2, <1>3, <1>13 DEF RowsOk
  <2>2. PICK d \in DocPaths : files[r.v][d].id = x.fid /\ x.fid # NoId
    BY <2>1 DEF Ids
  <2>3. PICK q \in stale : files[r.v][q].id = x.fid
    BY DEF IdsAt
  <2>4. q = d
    BY <1>2, <1>3, <1>6, <2>2, <2>3 DEF FilesOk
  <2> QED
    BY <1>6, <2>4
<1>14. KeepsDocs(rows, files', rows')
  <2>1. DocRows(rows', r.v) = DocRows(rows, r.v)
    BY <1>4, <1>7, <1>13 DEF DocRows
  <2> QED
    BY <1>4, <2>1 DEF KeepsDocs, DocRows
<1>15. RunOk(NextSource(r), files', rows', tried')
  BY <1>2, NextSourceOk
<1>16. tried \subseteq tried' /\ tried' \subseteq Indexed /\ enriched' \cup cooling' \subseteq tried'
       /\ enriched' \ enriched = {} /\ run' = [run EXCEPT ![p] = NextSource(r)]
  BY <1>1 DEF IndexInv, MarksOk, Goto
<1> QED
  BY <1>9, <1>10, <1>12, <1>14, <1>15, <1>16, Step

\* A sync that fails.
LEMMA SyncFailsInv ==
    ASSUME IndexInv, NEW p \in Runners, SyncFails(p), UNCHANGED docVars
    PROVE  IndexInv'
<1>1. run[p].pc # "idle" /\ UNCHANGED <<files, rows, enriched, cooling, tried>>
      /\ (Goto(p, AfterSource(run[p])) \/ Goto(p, IdleRun))
  BY DEF SyncFails, At, docVars
<1>2. run[p].v \in Indexed
  BY <1>1, RunOf DEF RunShape
<1>3. RunOk(AfterSource(run[p]), files, rows, tried) /\ RunOk(IdleRun, files, rows, tried)
  BY <1>2, AfterSourceOk, IdleOk
<1> QED
  BY <1>1, <1>3, UnheldStep

-----------------------------------------------------------------------------
(* The steps of a rustdoc sync. *)

\* What a rustdoc sync at a version knows.
LEMMA AtPage ==
    ASSUME IndexInv, NEW p \in Runners, run[p].pc \in PagePcs
    PROVE  /\ RunOk(run[p], files, rows, tried) /\ RunShape(run[p], tried)
           /\ DOMAIN run[p] = RunFields /\ run[p].v \in Indexed /\ run[p].v \in tried
           /\ run[p].todo \subseteq tried /\ run[p].todo \subseteq Indexed
           /\ run[p].pc \in {"ingest"} \cup ReplacePcs => run[p].doc \in DocPaths
           /\ run[p].filter \subseteq Paths /\ run[p].follows \in BOOLEAN /\ tried \subseteq Indexed
<1>1. RunOk(run[p], files, rows, tried) /\ RunShape(run[p], tried) /\ tried \subseteq Indexed
  BY RunOf
<1>2. run[p].pc # "idle"
  BY DEF PagePcs, ReplacePcs
<1> QED
  BY <1>1, <1>2 DEF RunShape

\* A rustdoc sync with a page of versions it has not tried, or has.
LEMMA StartDocsInv ==
    ASSUME IndexInv, NEW p \in Runners, NEW V, V \subseteq Indexed, NEW skip, NEW retryNow,
           StartDocs(p, V, skip, retryNow)
    PROVE  IndexInv'
<1> DEFINE C == DocCandidates(skip, retryNow) \cap V
           page == FirstPage(C, RustdocPage)
           first == [IdleRun EXCEPT !.todo = page]
<1>1. Goto(p, NextDoc(first)) /\ tried' = tried \cup page
      /\ UNCHANGED <<files, rows, enriched, cooling>>
  BY DEF StartDocs
<1>2. page \subseteq Indexed
  BY DEF FirstPage
<1> HIDE DEF page
<1>3. first.todo = page
  BY DEF IdleRun
<1> HIDE DEF first
<1>4. tried' \subseteq Indexed
  BY <1>1, <1>2, RunOf
<1>5. RunOk(NextDoc(first), files, rows, tried')
  BY <1>1, <1>2, <1>3, NextDocOk
<1>6. run' = [run EXCEPT ![p] = NextDoc(first)]
  BY <1>1 DEF Goto
<1> QED
  BY <1>1, <1>4, <1>5, <1>6, QuietStep

\* The rustdoc sync of index_crate_version: its one version, if it is a candidate.
LEMMA PickVersionInv ==
    ASSUME IndexInv, NEW p \in Runners, PickVersion(p)
    PROVE  IndexInv'
<1>1. run[p].pc = "pick" /\ StartDocs(p, {run[p].v}, TRUE, TRUE)
  BY DEF PickVersion, At
<1>2. {run[p].v} \subseteq Indexed
  BY <1>1, RunOf DEF RunShape
<1> QED
  BY <1>1, <1>2, StartDocsInv

\* fetch_rustdoc_json: the document of docs.rs, or the fallback.
LEMMA FetchDocInv ==
    ASSUME IndexInv, NEW p \in Runners, FetchDoc(p)
    PROVE  IndexInv'
<1> DEFINE r == run[p]
           ingest == [r EXCEPT !.pc = "ingest", !.doc = DocsRs]
<1>1. r.pc = "fetch" /\ UNCHANGED <<files, rows, enriched, cooling, tried>>
      /\ (Goto(p, ingest) \/ Goto(p, GiveUpDoc(r, DocsRs)))
  BY DEF FetchDoc, At, docVars
<1>2. RunShape(r, tried) /\ r.pc \in PagePcs
  BY <1>1, AtPage DEF PagePcs
<1> HIDE DEF r
<1>3. RunShape(ingest, tried) /\ ingest.pc = "ingest"
  BY <1>2 DEF RunShape, RunFields, FilePcs, OwnerPcs, PagePcs, ReplacePcs, DocPaths
<1> HIDE DEF ingest
<1>4. RunOk(ingest, files, rows, tried)
  BY <1>3, Unheld DEF OwnerPcs, ReplacePcs
<1>5. RunOk(GiveUpDoc(r, DocsRs), files, rows, tried)
  BY <1>2, GiveUpOk
<1> QED
  BY <1>1, <1>4, <1>5, UnheldStep

\* ingest_rustdoc_json_document: the sync then holds the id of the document's file.
LEMMA IngestFileInv ==
    ASSUME IndexInv, NEW p \in Runners, IngestFile(p)
    PROVE  IndexInv'
<1> DEFINE r == run[p]
           new == Upserted(r.v, r.doc, "json")
           clear == [r EXCEPT !.pc = "docClear", !.fid = new.id]
<1>1. r.pc = "ingest" /\ UNCHANGED <<rows, enriched, cooling, tried>>
      /\ \/ files' = [files EXCEPT ![r.v][r.doc] = new] /\ Goto(p, clear)
         \/ files' = files /\ Goto(p, GiveUpDoc(r, r.doc))
  BY DEF IngestFile, At, docVars
<1>2. /\ RunShape(r, tried) /\ DOMAIN r = RunFields /\ r.v \in Indexed /\ r.v \in tried
      /\ r.todo \subseteq tried /\ r.todo \subseteq Indexed /\ r.doc \in DocPaths
      /\ r.filter \subseteq Paths /\ r.follows \in BOOLEAN /\ r.pc \in PagePcs
  BY <1>1, AtPage DEF PagePcs
<1>3. CASE files' = files /\ Goto(p, GiveUpDoc(r, r.doc))
  <2>1. RunOk(GiveUpDoc(r, r.doc), files, rows, tried)
    BY <1>2, GiveUpOk
  <2> QED
    BY <1>1, <1>3, <2>1, UnheldStep
<1>4. CASE files' = [files EXCEPT ![r.v][r.doc] = new] /\ Goto(p, clear)
  <2>1. FilesOk(files) /\ RowsOk(files, rows)
    BY DEF IndexInv
  <2>2. files' = [files EXCEPT ![r.v][r.doc] = Upserted(r.v, r.doc, "json")]
    BY <1>4
  <2>3. r.v \in Indexed /\ r.doc \in AllPaths
    BY <1>2 DEF AllPaths
  <2>4. files'[r.v][r.doc] = new
    <3>1. DOMAIN files = Indexed /\ DOMAIN files[r.v] = AllPaths
      BY <2>1, <2>3 DEF FilesOk
    <3> HIDE DEF r
    <3> QED
      BY <2>2, <2>3, <3>1
  <2>5. FilesOk(files') /\ Keeps(run, files, files')
    <3> HIDE DEF r
    <3> QED
      BY <2>1, <2>2, <2>3, UpsertOk
  <2>6. new.id # NoId
    <3> HIDE DEF r
    <3> QED
      BY <2>1, <2>2, <2>3, UpsertOk
  <2>7. \A w \in Indexed, z \in AllPaths : files[w][z].id # NoId => files'[w][z].id = files[w][z].id
    <3> HIDE DEF r
    <3> QED
      BY <2>1, <2>2, <2>3, UpsertOk
  <2>8. RowsOk(files', rows')
    <3>1. RowsOk(files', rows)
      BY <2>1, <2>7, RowsKept
    <3> QED
      BY <1>1, <3>1
  <2>9. KeepsDocs(rows, files', rows')
    BY <1>1 DEF KeepsDocs
  <2>10. DOMAIN clear = RunFields /\ clear.pc = "docClear" /\ clear.fid = new.id
         /\ clear.todo = r.todo /\ clear.v = r.v /\ clear.filter = r.filter /\ clear.doc = r.doc
         /\ clear.follows = r.follows
    <3> HIDE DEF r, new
    <3> QED
      BY <1>2 DEF RunFields
  <2> HIDE DEF new, clear
  <2>11. RunShape(clear, tried)
    <3> HIDE DEF r
    <3> QED
      BY <1>2, <2>10 DEF RunShape, FilePcs, OwnerPcs, PagePcs, ReplacePcs
  <2>12. RunFiles(clear, files')
    BY <2>4, <2>6, <2>10 DEF RunFiles, OwnerPcs, ReplacePcs
  <2>13. RunRows(clear, files', rows')
    BY <2>10 DEF RunRows
  <2>14. RunOk(clear, files', rows', tried')
    BY <1>1, <2>11, <2>12, <2>13 DEF RunOk
  <2>15. tried \subseteq tried' /\ tried' \subseteq Indexed /\ enriched' \cup cooling' \subseteq tried'
         /\ enriched' \ enriched = {} /\ run' = [run EXCEPT ![p] = clear]
    BY <1>1, <1>4 DEF IndexInv, MarksOk, Goto
  <2> QED
    BY <2>5, <2>8, <2>9, <2>14, <2>15, Step
<1> QED
  BY <1>1, <1>3, <1>4

\* The DELETE of replace_crate_version_index_rows sees a whole document or nothing.
LEMMA ClearDocRowsInv ==
    ASSUME IndexInv, NEW p \in Runners, ClearDocRows(p)
    PROVE  IndexInv'
<1> DEFINE r == run[p]
           gone == RustdocRows(r.v)
           insert == [r EXCEPT !.pc = "docInsert", !.gone = gone]
<1>1. r.pc = "docClear" /\ UNCHANGED <<files, rows, enriched, cooling, tried>> /\ Goto(p, insert)
  BY DEF ClearDocRows, At, docVars
<1>2. /\ RunOk(r, files, rows, tried) /\ DOMAIN r = RunFields /\ r.v \in Indexed /\ r.v \in tried
      /\ r.todo \subseteq tried /\ r.todo \subseteq Indexed /\ r.doc \in DocPaths
      /\ r.filter \subseteq Paths /\ r.follows \in BOOLEAN
  BY <1>1, AtPage DEF PagePcs, ReplacePcs
<1>3. gone = {} \/ OfDocument(gone, files, r.v)
  BY <1>2 DEF IndexInv, DocsOk, RustdocRows, DocRows
<1> HIDE DEF r, gone
<1>4. DOMAIN insert = RunFields /\ insert.pc = "docInsert" /\ insert.fid = r.fid /\ insert.gone = gone
      /\ insert.todo = r.todo /\ insert.v = r.v /\ insert.filter = r.filter /\ insert.doc = r.doc
      /\ insert.follows = r.follows
  BY <1>2 DEF RunFields
<1> HIDE DEF insert
<1>5. RunShape(insert, tried)
  BY <1>2, <1>4 DEF RunShape, FilePcs, OwnerPcs, PagePcs, ReplacePcs
<1>6. RunFiles(insert, files)
  BY <1>1, <1>2, <1>4 DEF RunOk, RunFiles, OwnerPcs, ReplacePcs
<1>7. RunRows(insert, files, rows)
  BY <1>3, <1>4 DEF RunRows
<1>8. RunOk(insert, files, rows, tried)
  BY <1>5, <1>6, <1>7 DEF RunOk
<1> QED
  BY <1>1, <1>8, UnheldStep

\* Two batches of a version that share a row are one.
LEMMA BatchesApart ==
    ASSUME FilesOk(files), NEW v \in Indexed, NEW A, NEW B,
           OfDocument(A, files, v), OfDocument(B, files, v), A \cap B # {}
    PROVE  A = B
<1>1. PICK d \in DocPaths : \E n : files[v][d].id # NoId /\ A = Batch(files[v][d].id, d, n)
  BY DEF OfDocument
<1>2. PICK m : files[v][d].id # NoId /\ A = Batch(files[v][d].id, d, m)
  BY <1>1
<1>3. PICK e \in DocPaths : \E n : files[v][e].id # NoId /\ B = Batch(files[v][e].id, e, n)
  BY DEF OfDocument
<1>4. PICK n : files[v][e].id # NoId /\ B = Batch(files[v][e].id, e, n)
  BY <1>3
<1>5. PICK x : x \in A /\ x \in B
  OBVIOUS
<1>6. x.fid = files[v][d].id /\ x.n = m
  BY <1>2, <1>5 DEF Batch, Row
<1>7. x.fid = files[v][e].id /\ x.n = n
  BY <1>4, <1>5 DEF Batch, Row
<1>8. d = e
  <2>1. NoFile.id = NoId /\ d \in AllPaths /\ e \in AllPaths
    BY DEF NoFile, NoId, AllPaths
  <2> QED
    BY <1>2, <1>6, <1>7, <2>1 DEF FilesOk
<1> QED
  BY <1>2, <1>4, <1>6, <1>7, <1>8

\* The inserts of a document that clash with no row leave the rows of one
\* document: what the DELETE did not see and is still there is all of another
\* document, and shares an item with this one.
LEMMA InsertedWhole ==
    ASSUME IndexInv, NEW v \in Indexed, NEW d \in DocPaths, NEW gone, NEW fid, NEW n,
           files[v][d].id = fid, fid # NoId, gone = {} \/ OfDocument(gone, files, v),
           ~ \E x \in RustdocRows(v) \ gone : x.item \in DocItems[d]
    PROVE  OfDocument((RustdocRows(v) \ gone) \cup Batch(fid, d, n), files, v)
<1> DEFINE old == RustdocRows(v)
<1>1. FilesOk(files) /\ (old = {} \/ OfDocument(old, files, v))
  BY DEF IndexInv, DocsOk, RustdocRows, DocRows
<1>2. OfDocument(Batch(fid, d, n), files, v)
  BY DEF OfDocument
<1> HIDE DEF old
<1>3. CASE old \ gone = {}
  <2>1. (old \ gone) \cup Batch(fid, d, n) = Batch(fid, d, n)
    BY <1>3
  <2> QED
    BY <1>2, <2>1 DEF old
<1>4. CASE old \ gone # {}
  <2>1. OfDocument(old, files, v)
    BY <1>1, <1>4
  <2>2. old \ gone = old
    <3>1. CASE gone = {}
      BY <3>1
    <3>2. CASE OfDocument(gone, files, v)
      <4>1. old \cap gone # {} => old = gone
        BY <1>1, <2>1, <3>2, BatchesApart
      <4> QED
        BY <1>4, <4>1
    <3> QED
      BY <3>1, <3>2
  <2>3. PICK e \in DocPaths : \E m : files[v][e].id # NoId /\ old = Batch(files[v][e].id, e, m)
    BY <2>1 DEF OfDocument
  <2>4. PICK m : files[v][e].id # NoId /\ old = Batch(files[v][e].id, e, m)
    BY <2>3
  <2>5. ASSUME NEW i \in DocItems[e] PROVE \E x \in old : x.item = i
    <3>1. Row(files[v][e].id, "rustdoc_json", i, m).item = i
      BY DEF Row
    <3>2. Row(files[v][e].id, "rustdoc_json", i, m) \in old
      BY <2>4 DEF Batch
    <3> QED
      BY <3>1, <3>2
  <2>6. DocItems[e] # {}
    BY <1>4, <2>4 DEF Batch
  <2>7. DocItems[e] \cap DocItems[d] = {}
    BY <2>2, <2>5 DEF old
  <2>8. DocItems[d] = {}
    BY <2>6, <2>7, SharedItems DEF SharedItems
  <2>9. Batch(fid, d, n) = {}
    BY <2>8 DEF Batch
  <2>10. (old \ gone) \cup Batch(fid, d, n) = old
    BY <2>2, <2>9
  <2> QED
    BY <2>1, <2>10 DEF old
<1> QED
  BY <1>3, <1>4

\* Its inserts leave a whole document, or the transaction is rolled back.
LEMMA InsertDocRowsInv ==
    ASSUME IndexInv, NEW p \in Runners, InsertDocRows(p)
    PROVE  IndexInv'
<1> DEFINE r == run[p]
           clash == \E x \in RustdocRows(r.v) \ r.gone : x.item \in DocItems[r.doc]
           new == Batch(r.fid, r.doc, FreshRow(r.v))
           done == [r EXCEPT !.pc = "enriched", !.gone = {}, !.fid = NoId]
<1>1. r.pc = "docInsert" /\ UNCHANGED <<files, enriched, cooling, tried>>
      /\ \/ /\ ~clash /\ Goto(p, done)
            /\ rows' = [rows EXCEPT ![r.v] = (rows[r.v] \ r.gone) \cup new]
         \/ rows' = rows /\ Goto(p, GiveUpDoc(r, r.doc))
  BY DEF InsertDocRows, At, docVars, Replace, Batch
<1>2. /\ RunOk(r, files, rows, tried) /\ RunShape(r, tried) /\ DOMAIN r = RunFields
      /\ r.v \in Indexed /\ r.v \in tried /\ r.todo \subseteq tried /\ r.todo \subseteq Indexed
      /\ r.doc \in DocPaths /\ r.filter \subseteq Paths /\ r.follows \in BOOLEAN /\ r.pc \in PagePcs
  BY <1>1, AtPage DEF PagePcs, ReplacePcs
<1>3. CASE rows' = rows /\ Goto(p, GiveUpDoc(r, r.doc))
  <2>1. RunOk(GiveUpDoc(r, r.doc), files, rows, tried)
    BY <1>2, GiveUpOk
  <2> QED
    BY <1>1, <1>3, <2>1, UnheldStep
<1>4. CASE /\ ~clash /\ Goto(p, done)
           /\ rows' = [rows EXCEPT ![r.v] = (rows[r.v] \ r.gone) \cup new]
  <2>0. FilesOk(files) /\ RowsOk(files, rows) /\ DOMAIN rows = Indexed
    BY DEF IndexInv, RowsOk
  <2>1. r.fid # NoId /\ files[r.v][r.doc].id = r.fid /\ (r.gone = {} \/ OfDocument(r.gone, files, r.v))
    BY <1>1, <1>2 DEF RunOk, RunFiles, RunRows, ReplacePcs
  <2>2. OfDocument((RustdocRows(r.v) \ r.gone) \cup new, files, r.v)
    BY <1>2, <1>4, <2>1, InsertedWhole
  <2>3. \A x \in new : x.src = "rustdoc_json" /\ x.fid = r.fid
    BY DEF Batch, Row
  <2>4. rows'[r.v] = (rows[r.v] \ r.gone) \cup new /\ DOMAIN rows' = Indexed
        /\ \A w \in Indexed : w # r.v => rows'[w] = rows[w]
    <3> HIDE DEF r, new
    <3> QED
      BY <1>2, <1>4, <2>0
  <2>5. r.fid \in Ids(files, r.v, DocPaths)
    BY <1>2, <2>1 DEF Ids
  <2> HIDE DEF new
  <2>6. DocRows(rows', r.v) = (RustdocRows(r.v) \ r.gone) \cup new
    BY <2>3, <2>4 DEF DocRows, RustdocRows
  <2>7. KeepsDocs(rows, files', rows')
    <3> SUFFICES ASSUME NEW w \in Indexed
                 PROVE  DocRows(rows', w) = DocRows(rows, w) \/ OfDocument(DocRows(rows', w), files', w)
      BY DEF KeepsDocs
    <3>1. CASE w = r.v
      BY <1>1, <2>2, <2>6, <3>1
    <3>2. CASE w # r.v
      BY <2>4, <3>2 DEF DocRows
    <3> QED
      BY <3>1, <3>2
  <2>8. RowsOk(files', rows')
    <3> SUFFICES ASSUME NEW w \in Indexed, NEW x \in rows'[w]
                 PROVE  \/ x.src = "syn" /\ x.fid \in Ids(files, w, RustPaths)
                        \/ x.src = "rustdoc_json" /\ x.fid \in Ids(files, w, DocPaths)
      BY <1>1, <2>4 DEF RowsOk
    <3>1. x \in rows[w] \/ (w = r.v /\ x \in new)
      BY <2>4
    <3>2. CASE x \in rows[w]
      BY <2>0, <3>2 DEF RowsOk
    <3>3. CASE w = r.v /\ x \in new
      BY <2>3, <2>5, <3>3
    <3> QED
      BY <3>1, <3>2, <3>3
  <2>9. FilesOk(files') /\ Keeps(run, files, files')
    BY <1>1, <2>0 DEF Keeps
  <2>10. DOMAIN done = RunFields /\ done.pc = "enriched" /\ done.todo = r.todo /\ done.v = r.v
         /\ done.filter = r.filter /\ done.follows = r.follows
    <3> HIDE DEF r
    <3> QED
      BY <1>2 DEF RunFields
  <2> HIDE DEF done
  <2>11. RunShape(done, tried)
    <3> HIDE DEF r
    <3> QED
      BY <1>2, <2>10 DEF RunShape, FilePcs, OwnerPcs, PagePcs, ReplacePcs
  <2>12. RunFiles(done, files')
    BY <2>10 DEF RunFiles, OwnerPcs, ReplacePcs
  <2>13. RunRows(done, files', rows')
    BY <1>1, <2>2, <2>6, <2>10 DEF RunRows
  <2>14. RunOk(done, files', rows', tried')
    BY <1>1, <2>11, <2>12, <2>13 DEF RunOk
  <2>15. tried \subseteq tried' /\ tried' \subseteq Indexed /\ enriched' \cup cooling' \subseteq tried'
         /\ enriched' \ enriched = {} /\ run' = [run EXCEPT ![p] = done]
    BY <1>1, <1>4 DEF IndexInv, MarksOk, Goto
  <2> QED
    BY <2>7, <2>8, <2>9, <2>14, <2>15, Step
<1> QED
  BY <1>1, <1>3, <1>4

\* A version is marked after its rows are there, and whatever the other syncs
\* did in between they are those of a document.
LEMMA MarkVersionInv ==
    ASSUME IndexInv, NEW p \in Runners, MarkVersion(p)
    PROVE  IndexInv'
<1> DEFINE r == run[p]
<1>1. r.pc \in {"enriched", "attempted"} /\ Goto(p, NextDoc(r)) /\ UNCHANGED <<files, rows, tried>>
      /\ cooling' \subseteq cooling \cup {r.v}
      /\ (enriched' = enriched \/ (r.pc = "enriched" /\ enriched' = enriched \cup {r.v}))
  BY DEF MarkVersion, At
<1>2. RunOk(r, files, rows, tried) /\ r.v \in tried /\ r.todo \subseteq tried /\ r.todo \subseteq Indexed
      /\ tried \subseteq Indexed
  BY <1>1, AtPage DEF PagePcs
<1>3. \A v \in enriched' \ enriched : OfDocument(DocRows(rows', v), files', v)
  <2>1. r.pc = "enriched" => OfDocument(DocRows(rows, r.v), files, r.v)
    BY <1>2 DEF RunOk, RunRows
  <2> QED
    BY <1>1, <2>1
<1>4. enriched' \cup cooling' \subseteq tried' /\ tried \subseteq tried' /\ tried' \subseteq Indexed
  BY <1>1, <1>2 DEF IndexInv, MarksOk
<1>5. FilesOk(files') /\ RowsOk(files', rows')
  BY <1>1 DEF IndexInv
<1>6. Keeps(run, files, files') /\ KeepsDocs(rows, files', rows')
  BY <1>1 DEF Keeps, KeepsDocs
<1>7. RunOk(NextDoc(r), files', rows', tried')
  BY <1>1, <1>2, NextDocOk
<1>8. run' = [run EXCEPT ![p] = NextDoc(r)]
  BY <1>1 DEF Goto
<1> QED
  BY <1>3, <1>4, <1>5, <1>6, <1>7, <1>8, Step

-----------------------------------------------------------------------------
(* The jobs and calls that start a sync, and the whole. *)

\* sync_local_source_cache starts with versions of the crate.
LEMMA StartSourceInv ==
    ASSUME IndexInv, NEW p \in Runners, NEW V, V \subseteq Indexed, NEW filter, filter \subseteq Paths,
           StartSource(p, V, filter), UNCHANGED docVars
    PROVE  IndexInv'
<1> DEFINE page == FirstPage(SourceCandidates(V), SourcePage)
           first == [IdleRun EXCEPT !.todo = page, !.filter = filter]
<1>1. Goto(p, NextSource(first)) /\ UNCHANGED <<files, rows, enriched, cooling, tried>>
  BY DEF StartSource, docVars
<1>2. page \subseteq Indexed
  BY DEF FirstPage, SourceCandidates
<1> HIDE DEF page
<1>3. first.todo = page /\ first.filter = filter /\ first.follows = FALSE
  BY DEF IdleRun
<1> HIDE DEF first
<1>4. RunOk(NextSource(first), files, rows, tried)
  BY <1>2, <1>3, NextSourceOk
<1> QED
  BY <1>1, <1>4, UnheldStep

\* index_crate_version starts with its version.
LEMMA IndexCrateVersionInv ==
    ASSUME IndexInv, NEW v \in Indexed, IndexCrateVersion(v), UNCHANGED docVars
    PROVE  IndexInv'
<1> DEFINE first == [IdleRun EXCEPT !.pc = "ensure", !.v = v, !.filter = Paths, !.follows = TRUE]
<1>1. Goto("call", first) /\ UNCHANGED <<files, rows, enriched, cooling, tried>>
  BY DEF IndexCrateVersion, docVars
<1>2. RunShape(first, tried) /\ first.pc = "ensure"
  BY DEF IdleRun, RunShape, RunFields, FilePcs, OwnerPcs, PagePcs, ReplacePcs
<1> HIDE DEF first
<1>3. RunOk(first, files, rows, tried)
  BY <1>2, Unheld DEF OwnerPcs, ReplacePcs
<1>4. "call" \in Runners
  BY CallAssumption DEF CallAssumption
<1> QED
  BY <1>1, <1>3, <1>4, UnheldStep

\* Every step, of whichever sync, keeps the invariant.
LEMMA NextInv == IndexInv /\ [IndexNext]_indexVars => IndexInv'
<1> SUFFICES ASSUME IndexInv, [IndexNext]_indexVars PROVE IndexInv'
  OBVIOUS
<1>0. {"worker", "call"} \subseteq Runners /\ Present \subseteq Indexed /\ {1} \subseteq Paths
  BY CallAssumption, RustdocAssumption, PathsAreNumbers DEF CallAssumption, RustdocAssumption
<1>1. CASE UNCHANGED indexVars
  BY <1>1, Untouched DEF indexVars, sourceVars, docVars
<1>2. ASSUME NEW v \in Indexed, NEW q \in Paths, NEW c \in Contents \cup {Absent},
             Edit(v, q, c), UNCHANGED docVars
      PROVE  IndexInv'
  BY <1>2, Untouched DEF Edit, docVars
<1>3. ASSUME NEW v \in Indexed, DocsRsBuilds(v) PROVE IndexInv'
  BY <1>3, Untouched DEF DocsRsBuilds, sourceVars
<1>4. ASSUME NEW v \in Indexed, CooldownElapses(v) PROVE IndexInv'
  <2>1. cooling' \subseteq cooling /\ UNCHANGED <<files, rows, run, enriched, tried>>
    BY <1>4 DEF CooldownElapses, sourceVars
  <2> QED
    BY <2>1, Untouched
<1>5. ASSUME SourceJob, UNCHANGED docVars PROVE IndexInv'
  BY <1>0, <1>5, StartSourceInv DEF SourceJob
<1>6. ASSUME DocJob PROVE IndexInv'
  BY <1>0, <1>6, StartDocsInv DEF DocJob
<1>7. ASSUME RefreshDocs PROVE IndexInv'
  BY <1>0, <1>7, StartDocsInv DEF RefreshDocs
<1>8. ASSUME NEW filter \in {Paths, {1}}, RefreshSource(filter), UNCHANGED docVars PROVE IndexInv'
  <2>1. StartSource("call", Indexed, filter)
    BY <1>8 DEF RefreshSource
  <2> QED
    BY <1>0, <1>8, <2>1, StartSourceInv
<1>9. ASSUME NEW v \in Indexed, IndexCrateVersion(v), UNCHANGED docVars PROVE IndexInv'
  BY <1>9, IndexCrateVersionInv
<1>10. ASSUME NEW p \in Runners, SourceStep(p), UNCHANGED docVars PROVE IndexInv'
  <2>1. CASE EnsureSource(p)
    BY <1>10, <2>1, EnsureSourceInv
  <2>2. CASE UnpackNext(p)
    BY <1>10, <2>2, UnpackNextInv
  <2>3. CASE ScanVersion(p)
    BY <1>10, <2>3, ScanVersionInv
  <2>4. CASE UpsertFile(p)
    BY <1>10, <2>4, UpsertFileInv
  <2>5. CASE LookupFile(p)
    BY <1>10, <2>5, LookupFileInv
  <2>6. CASE CountRows(p)
    BY <1>10, <2>6, CountRowsInv
  <2>7. CASE ClearFileRows(p)
    BY <1>10, <2>7, ClearFileRowsInv
  <2>8. CASE InsertFileRows(p)
    BY <1>10, <2>8, InsertFileRowsInv
  <2>9. CASE PruneFiles(p)
    BY <1>10, <2>9, PruneFilesInv
  <2> QED
    BY <1>10, <2>1, <2>2, <2>3, <2>4, <2>5, <2>6, <2>7, <2>8, <2>9 DEF SourceStep
<1>11. ASSUME NEW p \in Runners, DocStep(p) PROVE IndexInv'
  <2>1. CASE PickVersion(p)
    BY <2>1, PickVersionInv
  <2>2. CASE FetchDoc(p)
    BY <2>2, FetchDocInv
  <2>3. CASE IngestFile(p)
    BY <2>3, IngestFileInv
  <2>4. CASE ClearDocRows(p)
    BY <2>4, ClearDocRowsInv
  <2>5. CASE InsertDocRows(p)
    BY <2>5, InsertDocRowsInv
  <2>6. CASE MarkVersion(p)
    BY <2>6, MarkVersionInv
  <2> QED
    BY <1>11, <2>1, <2>2, <2>3, <2>4, <2>5, <2>6 DEF DocStep
<1>12. ASSUME NEW p \in Runners, SyncFails(p), UNCHANGED docVars PROVE IndexInv'
  BY <1>12, SyncFailsInv
<1> QED
  BY <1>1, <1>2, <1>3, <1>4, <1>5, <1>6, <1>7, <1>8, <1>9, <1>10, <1>11, <1>12 DEF IndexNext, RunStep

\* The invariant holds throughout, whoever syncs what and whichever sync fails
\* (local_cache.rs, rustdoc_json.rs, db/indexing.rs).
LEMMA IndexInvariant == IndexSpec => []IndexInv
<1>1. IndexInit => IndexInv
  BY InitInv
<1>2. IndexInv /\ [IndexNext]_indexVars => IndexInv'
  BY NextInv
<1> QED
  BY <1>1, <1>2, PTL DEF IndexSpec

\* The index tables keep their foreign keys: every row of symbols and items
\* belongs to a file of its version and kind, no two files share an id, and only
\* versions a rustdoc sync picked are marked (replace_source_file_index_rows,
\* prune_source_file_index_and_files, mark_version_rustdoc_*).
THEOREM IndexedTables == IndexSpec => []IndexTypeOK
  BY IndexInvariant, InvIsTyped, PTL

\* A version marked as enriched has the rows of exactly one document, each once,
\* owned by that document's file, while the worker and calls replace and prune
\* rows of the same version (ingest_rustdoc_json_document,
\* replace_crate_version_index_rows, prune_source_file_index_and_files).
THEOREM EnrichedIsWhole == IndexSpec => []RustdocWhole
  BY IndexInvariant, InvIsWhole, PTL
=============================================================================
