-------------------------- MODULE ToolAnswersProofs --------------------------
(***************************************************************************)
(* Proofs about what the crate tools answer from the index: that the pages *)
(* a client collects are the list, for every list and page size; that a    *)
(* diff tells the truth of the two versions, for every pair of versions;   *)
(* and that the advice of the dependency tools holds for the rows, for     *)
(* every index, manifest, request and table of facts.                      *)
(***************************************************************************)
EXTENDS ToolPages, ApiHistory, DependencyAdvice, CrateGraphProofs, WellFoundedInduction

\* How many members of S come before x.
RankIn(S, R, x) == Cardinality({q \in S : <<q, x>> \in R})

\* R orders S: a strict total order.
Orders(R, S) ==
    /\ \A x \in S : <<x, x>> \notin R
    /\ \A x, y, z \in S : <<x, y>> \in R /\ <<y, z>> \in R => <<x, z>> \in R
    /\ \A x, y \in S : x # y => <<x, y>> \in R \/ <<y, x>> \in R

\* In a strict total order of n members, members rank from 0 to n - 1, each once.
LEMMA RanksInOrder ==
    ASSUME NEW S, IsFiniteSet(S), NEW R, Orders(R, S)
    PROVE  /\ Cardinality(S) \in Nat
           /\ \A x \in S : RankIn(S, R, x) \in 0..(Cardinality(S) - 1)
           /\ \A x, y \in S : <<x, y>> \in R => RankIn(S, R, x) < RankIn(S, R, y)
           /\ \A x, y \in S : RankIn(S, R, x) = RankIn(S, R, y) => x = y
           /\ \A i \in 1..Cardinality(S) : \E r \in S : RankIn(S, R, r) = i - 1
<1> DEFINE n == Cardinality(S)
           below(x) == {q \in S : <<q, x>> \in R}
           rank(x) == Cardinality(below(x))
<1>1. n \in Nat
  BY FS_CardinalityType
<1>2. \A x \in S : IsFiniteSet(below(x)) /\ rank(x) \in Nat
  <2> TAKE x \in S
  <2>1. below(x) \subseteq S
    OBVIOUS
  <2>2. IsFiniteSet(below(x))
    BY <2>1, FS_Subset
  <2>3. QED
    BY <2>2, FS_CardinalityType
<1>3. \A x \in S : rank(x) \in 0..(n - 1)
  <2> TAKE x \in S
  <2>1. below(x) \subseteq S \ {x}
    BY DEF Orders
  <2>2. IsFiniteSet(S \ {x}) /\ Cardinality(S \ {x}) = n - 1
    BY FS_RemoveElement
  <2> HIDE DEF below
  <2>3. rank(x) <= n - 1
    BY <2>1, <2>2, FS_Subset
  <2>4. QED
    BY <1>1, <1>2, <2>3
<1>4. \A x, y \in S : <<x, y>> \in R => rank(x) < rank(y)
  <2> SUFFICES ASSUME NEW x \in S, NEW y \in S, <<x, y>> \in R
               PROVE  rank(x) < rank(y)
    OBVIOUS
  <2>1. x \notin below(x) /\ below(x) \cup {x} \subseteq below(y)
    BY DEF Orders
  <2>2. Cardinality(below(x) \cup {x}) = rank(x) + 1
    <3> HIDE DEF below
    <3>1. QED
      BY <1>2, <2>1, FS_AddElement
  <2>3. Cardinality(below(x) \cup {x}) <= rank(y)
    <3> HIDE DEF below
    <3>1. QED
      BY <1>2, <2>1, FS_Subset
  <2>4. rank(x) \in Nat /\ rank(y) \in Nat
    BY <1>2
  <2> HIDE DEF below, rank
  <2>5. QED
    BY <2>2, <2>3, <2>4
<1> HIDE DEF rank, n
<1>5. \A x, y \in S : rank(x) = rank(y) => x = y
  <2> SUFFICES ASSUME NEW x \in S, NEW y \in S, x # y
               PROVE  rank(x) # rank(y)
    OBVIOUS
  <2>1. <<x, y>> \in R \/ <<y, x>> \in R
    BY DEF Orders
  <2>2. rank(x) < rank(y) \/ rank(y) < rank(x)
    BY <1>4, <2>1
  <2>3. rank(x) \in Nat /\ rank(y) \in Nat
    BY <1>2
  <2> HIDE DEF below
  <2>4. QED
    BY <2>2, <2>3
<1>6. \A i \in 1..n : \E r \in S : rank(r) = i - 1
  <2> DEFINE g == [x \in S |-> rank(x)]
  <2>1. g \in Injection(S, 0..(n - 1))
    BY <1>3, <1>5 DEF Injection, IsInjective
  <2>2. 0 \in Int /\ n - 1 \in Int
    BY <1>1
  <2>3. IsFiniteSet(0..(n - 1)) /\ Cardinality(0..(n - 1)) = n
    BY <1>1, <2>2, FS_Interval
  <2> HIDE DEF g
  <2>4. g \in Surjection(S, 0..(n - 1))
    BY <2>1, <2>3, FS_Injection DEF n
  <2> USE DEF g
  <2>5. \A k \in 0..(n - 1) : \E r \in S : rank(r) = k
    BY <2>4 DEF Surjection
  <2>6. \A i \in 1..n : i - 1 \in 0..(n - 1)
    BY <1>1
  <2>7. QED
    BY <2>5, <2>6
<1>7. QED
  BY <1>1, <1>3, <1>4, <1>5, <1>6 DEF RankIn, rank, n

\* A listing in a strict total order has every member once, in the order.
LEMMA OrderedOnce ==
    ASSUME NEW S, IsFiniteSet(S), NEW R, Orders(R, S)
    PROVE  LET f == Listed(S, R)
           IN  /\ f \in Seq(S) /\ Len(f) = Cardinality(S) /\ ToSet(f) = S
               /\ \A i, j \in 1..Cardinality(S) : i < j => f[i] # f[j] /\ <<f[i], f[j]>> \in R
<1> DEFINE f == Listed(S, R)
           n == Cardinality(S)
           rank(x) == RankIn(S, R, x)
<1>1. /\ n \in Nat
      /\ \A x \in S : rank(x) \in 0..(n - 1)
      /\ \A x, y \in S : <<x, y>> \in R => rank(x) < rank(y)
      /\ \A x, y \in S : rank(x) = rank(y) => x = y
      /\ \A i \in 1..n : \E r \in S : rank(r) = i - 1
  <2>1. /\ Cardinality(S) \in Nat
        /\ \A x \in S : RankIn(S, R, x) \in 0..(Cardinality(S) - 1)
        /\ \A x, y \in S : <<x, y>> \in R => RankIn(S, R, x) < RankIn(S, R, y)
        /\ \A x, y \in S : RankIn(S, R, x) = RankIn(S, R, y) => x = y
        /\ \A i \in 1..Cardinality(S) : \E r \in S : RankIn(S, R, r) = i - 1
    BY RanksInOrder
  <2>2. QED
    BY <2>1
<1> HIDE DEF rank, n, f
<1>2. \A i \in 1..n : f[i] \in S /\ rank(f[i]) = i - 1
  <2> TAKE i \in 1..n
  <2>1. f[i] = CHOOSE r \in S : rank(r) = i - 1
    BY DEF f, Listed, RankIn, rank, n
  <2>2. \E r \in S : rank(r) = i - 1
    BY <1>1
  <2>3. QED
    BY <2>1, <2>2
<1>3. f \in Seq(S) /\ Len(f) = n /\ DOMAIN f = 1..n
  <2>1. DOMAIN f = 1..n
    BY DEF f, Listed, n
  <2>2. f \in [1..n -> S]
    <3> DEFINE nth(i) == CHOOSE r \in S : Cardinality({q \in S : <<q, r>> \in R}) = i - 1
    <3>0. f = [i \in 1..n |-> nth(i)]
      BY Zenon DEF f, Listed, n
    <3> HIDE DEF nth
    <3>1. f = [i \in 1..n |-> f[i]]
      BY <3>0
    <3>2. QED
      BY <1>2, <3>1
  <2>3. f \in Seq(S)
    BY <1>1, <2>2, SeqDef
  <2>4. QED
    BY <1>1, <2>1, <2>3, LenProperties
<1>4. S \subseteq ToSet(f)
  <2> SUFFICES ASSUME NEW x \in S
               PROVE  \E i \in 1..n : f[i] = x
    BY <1>3 DEF ToSet
  <2> DEFINE k == rank(x) + 1
  <2>1. k \in 1..n /\ k - 1 = rank(x)
    BY <1>1
  <2> HIDE DEF k
  <2>2. f[k] \in S /\ rank(f[k]) = rank(x)
    BY <1>2, <2>1
  <2>3. f[k] = x
    BY <1>1, <2>2
  <2>4. QED
    BY <2>1, <2>3
<1>5. ToSet(f) \subseteq S
  BY <1>2, <1>3 DEF ToSet
<1>6. ASSUME NEW i \in 1..n, NEW j \in 1..n, i < j
       PROVE  f[i] # f[j] /\ <<f[i], f[j]>> \in R
  <2>1. /\ f[i] \in S /\ f[j] \in S
        /\ rank(f[i]) = i - 1 /\ rank(f[j]) = j - 1
    BY <1>2
  <2>2. f[i] # f[j] /\ ~ (rank(f[j]) < rank(f[i]))
    BY <1>6, <2>1
  <2>3. QED
    BY <1>1, <2>1, <2>2 DEF Orders
<1>7. QED
  BY <1>3, <1>4, <1>5, <1>6 DEF n, f

\* The part of a sequence from one place to another.
LEMMA PartOf ==
    ASSUME NEW T, NEW s \in Seq(T), NEW a \in Nat, NEW b \in Nat, b <= Len(s)
    PROVE  /\ SubSeq(s, a + 1, b) \in Seq(T)
           /\ Len(SubSeq(s, a + 1, b)) = IF a <= b THEN b - a ELSE 0
           /\ \A i \in 1..(b - a) : SubSeq(s, a + 1, b)[i] = s[a + i]
<1>1. Len(s) \in Nat
  BY LenProperties
<1>2. \A i \in (a + 1)..b : i \in 1..Len(s)
  BY <1>1
<1>3. \A i \in (a + 1)..b : s[i] \in T
  BY <1>2, ElementOfSeq
<1>4. a + 1 \in Int /\ b \in Int
  OBVIOUS
<1>5. /\ SubSeq(s, a + 1, b) \in Seq(T)
      /\ Len(SubSeq(s, a + 1, b)) = IF a + 1 <= b THEN b - (a + 1) + 1 ELSE 0
      /\ \A i \in 1..(b - (a + 1) + 1) : SubSeq(s, a + 1, b)[i] = s[a + 1 + i - 1]
  BY <1>3, <1>4, SubSeqProperties
<1>6. b - (a + 1) + 1 = b - a /\ \A i \in 1..(b - a) : a + 1 + i - 1 = a + i
  OBVIOUS
<1>7. \A i \in 1..(b - a) : SubSeq(s, a + 1, b)[i] = s[a + i]
  BY <1>5, <1>6
<1>8. QED
  BY <1>5, <1>7

\* A part of a sequence is one of the same elements.
LEMMA PartIn ==
    \A T : \A s \in Seq(T) : \A a, b \in Nat : b <= Len(s) => SubSeq(s, a + 1, b) \in Seq(T)
<1> SUFFICES ASSUME NEW T, NEW s \in Seq(T), NEW a \in Nat, NEW b \in Nat, b <= Len(s)
             PROVE  SubSeq(s, a + 1, b) \in Seq(T)
  OBVIOUS
<1>1. QED
  BY PartOf

\* Two sequences of a length with the same elements are the same.
LEMMA SameSequence ==
    ASSUME NEW T, NEW s \in Seq(T), NEW t \in Seq(T), Len(s) = Len(t),
           \A i \in 1..Len(s) : s[i] = t[i]
    PROVE  s = t
BY SeqEqual

\* The last place of a page.
Cut(s, n) == IF n <= Len(s) THEN n ELSE Len(s)

\* A page read with LIMIT limit + 1 OFFSET offset (apply_pagination_limit) holds
\* the items after the offset, and says there are more exactly when there are.
LEMMA SqlPageIs ==
    ASSUME NEW T, NEW s \in Seq(T), NEW offset \in Nat, NEW limit \in Nat
    PROVE  /\ SqlPage(s, offset, limit).items = SubSeq(s, offset + 1, Cut(s, offset + limit))
           /\ SqlPage(s, offset, limit).more <=> Len(s) > offset + limit
<1> DEFINE n == Len(s)
           b == IF offset + limit + 1 <= n THEN offset + limit + 1 ELSE n
           f == SubSeq(s, offset + 1, b)
           k == IF limit <= Len(f) THEN limit ELSE Len(f)
           c == Cut(s, offset + limit)
<1>1. n \in Nat
  BY LenProperties
<1>2. b \in Nat /\ b <= Len(s) /\ c \in Nat /\ c <= Len(s)
  BY <1>1 DEF Cut
<1>3. Min({offset + limit + 1, Len(s)}) = b
  <2>1. offset + limit + 1 \in Int /\ Len(s) \in Int
    BY <1>1
  <2>2. QED
    BY <2>1, SmallerOfTwo
<1> HIDE DEF b
<1>4. /\ f \in Seq(T) /\ Len(f) = IF offset <= b THEN b - offset ELSE 0
      /\ \A i \in 1..(b - offset) : f[i] = s[offset + i]
  BY <1>2, PartOf
<1>5. Fetched(s, offset, limit) = f
  BY <1>3 DEF Fetched
<1> HIDE DEF f
<1>6. Len(f) \in Nat
  BY <1>4, LenProperties
<1>7. Min({limit, Len(f)}) = k
  <2>1. limit \in Int /\ Len(f) \in Int
    BY <1>6
  <2>2. QED
    BY <2>1, SmallerOfTwo
<1>8. k \in Nat /\ k <= Len(f)
  BY <1>6
<1> HIDE DEF k
<1>9. /\ SubSeq(f, 1, k) \in Seq(T) /\ Len(SubSeq(f, 1, k)) = k
      /\ \A i \in 1..k : SubSeq(f, 1, k)[i] = f[i]
  <2>1. /\ SubSeq(f, 0 + 1, k) \in Seq(T)
        /\ Len(SubSeq(f, 0 + 1, k)) = IF 0 <= k THEN k - 0 ELSE 0
        /\ \A i \in 1..(k - 0) : SubSeq(f, 0 + 1, k)[i] = f[0 + i]
    BY <1>4, <1>8, PartOf
  <2>2. 0 + 1 = 1 /\ 0 <= k /\ k - 0 = k /\ \A i \in 1..k : 0 + i = i
    BY <1>8
  <2>3. QED
    BY <2>1, <2>2
<1>10. /\ SubSeq(s, offset + 1, c) \in Seq(T)
       /\ Len(SubSeq(s, offset + 1, c)) = IF offset <= c THEN c - offset ELSE 0
       /\ \A i \in 1..(c - offset) : SubSeq(s, offset + 1, c)[i] = s[offset + i]
  BY <1>2, PartOf
<1>11. k = IF offset <= c THEN c - offset ELSE 0
  BY <1>1, <1>2, <1>4 DEF b, k, Cut
<1>12. \A i \in 1..k : i \in 1..(c - offset) /\ i \in 1..(b - offset)
  <2>1. c <= b /\ b \in Int /\ c \in Int
    BY <1>1 DEF b, Cut
  <2>2. k \in Nat
    BY <1>8
  <2> HIDE DEF c
  <2>3. QED
    BY <1>11, <2>1, <2>2
<1>13. SubSeq(f, 1, k) = SubSeq(s, offset + 1, c)
  <2>1. Len(SubSeq(f, 1, k)) = Len(SubSeq(s, offset + 1, c))
    BY <1>9, <1>10, <1>11
  <2>2. \A i \in 1..Len(SubSeq(f, 1, k)) : SubSeq(f, 1, k)[i] = SubSeq(s, offset + 1, c)[i]
    BY <1>4, <1>9, <1>10, <1>12
  <2> HIDE DEF c
  <2>3. QED
    BY <1>9, <1>10, <2>1, <2>2, SameSequence
<1>14. Len(f) > limit <=> n > offset + limit
  BY <1>1, <1>2, <1>4 DEF b
<1>15. SqlPage(s, offset, limit) = [items |-> SubSeq(f, 1, k), more |-> Len(f) > limit]
  BY <1>5, <1>7 DEF SqlPage, Paginated
<1> DEFINE more == Len(f) > limit
           items == SubSeq(f, 1, k)
<1>16. SqlPage(s, offset, limit) = [items |-> items, more |-> more]
  BY <1>15
<1> HIDE DEF items, more
<1>17. SqlPage(s, offset, limit).items = SubSeq(s, offset + 1, Cut(s, offset + limit))
  <2>1. SqlPage(s, offset, limit).items = items
    BY <1>16
  <2>2. QED
    BY <1>13, <2>1, Zenon DEF items
<1>18. SqlPage(s, offset, limit).more = more
  BY <1>16
<1>19. SqlPage(s, offset, limit).more <=> Len(s) > offset + limit
  BY <1>14, <1>18, Zenon DEF more
<1>20. QED
  BY <1>17, <1>19, Zenon

-----------------------------------------------------------------------------
(* A tool is exact when every page finds the rows in one order, and the list *)
(* its pages are cut from is the same for every page.                        *)
RowTools == {"crate_search", "docs_search", "crate_versions", "crate_import_path"}
ExactTools == RowTools \cup {"crate_hotspots"}

PagedList(tool, rows) == IF tool \in RowTools THEN Rows(rows) ELSE BySeverity(rows)

\* A page of a tool that pages in SQL is a slice of its list.
LEMMA PageIs ==
    ASSUME NEW tool \in ExactTools, NEW rows, NEW offset, NEW limit
    PROVE  Page(tool, rows, offset, limit) = SqlPage(PagedList(tool, rows), offset, limit)
<1>1. CASE tool \in RowTools
  BY <1>1 DEF PagedList, RowTools, Page, CrateSearchPage, DocsSearchPage, VersionsPage, ImportPathPage
<1>2. CASE tool = "crate_hotspots"
  BY <1>2 DEF PagedList, RowTools, Page, HotspotsPage
<1>3. QED
  BY <1>1, <1>2 DEF ExactTools

\* Of n rows no more than n are chosen.
LEMMA RowsCounted ==
    ASSUME NEW n \in Nat, NEW S \in SUBSET (1..n)
    PROVE  Cardinality(S) \in Nat /\ Cardinality(S) <= n
<1>1. 1 \in Int /\ n \in Int
  OBVIOUS
<1>2. IsFiniteSet(1..n) /\ Cardinality(1..n) = n
  BY <1>1, FS_Interval
<1>3. IsFiniteSet(S) /\ Cardinality(S) <= Cardinality(1..n)
  BY <1>2, FS_Subset
<1>4. QED
  BY <1>2, <1>3, FS_CardinalityType

\* The severities, and the order of the rows where they are equal, settle the
\* order of crate_hotspots.
SeverityOrder(S, rows) ==
    {p \in S \X S :
        \/ rows[p[1]].group < rows[p[2]].group
        \/ rows[p[1]].group = rows[p[2]].group /\ p[1] < p[2]}

LEMMA SeveritiesOrder ==
    ASSUME NEW n \in Nat, NEW rows \in [1..n -> TableRow]
    PROVE  Orders(SeverityOrder(1..n, rows), 1..n)
<1> DEFINE S == 1..n
           R == SeverityOrder(S, rows)
           g(i) == rows[i].group
<1>1. \A i \in S : g(i) \in Int /\ i \in Int
  BY PageBounds DEF TableRow
<1> HIDE DEF S
<1>2. \A i, j \in S : <<i, j>> \in R <=> (g(i) < g(j) \/ (g(i) = g(j) /\ i < j))
  BY DEF SeverityOrder
<1> HIDE DEF R, g
<1>3. \A i \in S : <<i, i>> \notin R
  BY <1>1, <1>2
<1>4. \A i, j, k \in S : <<i, j>> \in R /\ <<j, k>> \in R => <<i, k>> \in R
  BY <1>1, <1>2
<1>5. \A i, j \in S : i # j => <<i, j>> \in R \/ <<j, i>> \in R
  BY <1>1, <1>2
<1>6. QED
  BY <1>3, <1>4, <1>5 DEF Orders, R, S

\* The list that a tool pages through is a sequence of the rows.
LEMMA PagedListTyped ==
    ASSUME NEW tool \in ExactTools, NEW n \in Nat, NEW rows \in [1..n -> TableRow]
    PROVE  LET s == PagedList(tool, rows) IN s \in Seq(1..n) /\ Len(s) <= n
<1>1. Rows(rows) \in Seq(1..n) /\ Len(Rows(rows)) <= n
  <2>1. Rows(rows) \in [1..n -> 1..n]
    BY DEF Rows
  <2>2. Rows(rows) \in Seq(1..n) /\ DOMAIN Rows(rows) = 1..n
    BY <2>1, SeqDef
  <2> HIDE DEF Rows
  <2>3. DOMAIN Rows(rows) = 1..Len(Rows(rows)) /\ Len(Rows(rows)) \in Nat
    BY <2>2, LenProperties
  <2>4. QED
    BY <2>2, <2>3
<1>2. BySeverity(rows) \in Seq(1..n) /\ Len(BySeverity(rows)) <= n
  <2> DEFINE S == 1..n
             R == SeverityOrder(S, rows)
  <2>1. BySeverity(rows) = Listed(DOMAIN rows, SeverityOrder(DOMAIN rows, rows))
    BY Zenon DEF BySeverity, InOrder, SeverityOrder
  <2>2. DOMAIN rows = S
    OBVIOUS
  <2>3. BySeverity(rows) = Listed(S, R)
    BY <2>1, <2>2, Zenon
  <2>4. IsFiniteSet(S) /\ Cardinality(S) <= n
    <3>1. S \in SUBSET (1..n) /\ 1 \in Int /\ n \in Int
      OBVIOUS
    <3>2. IsFiniteSet(S)
      BY <3>1, FS_Interval
    <3>3. QED
      BY <3>1, <3>2, RowsCounted
  <2>5. Orders(R, S)
    BY SeveritiesOrder
  <2> HIDE DEF S, R
  <2>6. Listed(S, R) \in Seq(S) /\ Len(Listed(S, R)) = Cardinality(S)
    BY <2>4, <2>5, OrderedOnce
  <2>7. QED
    BY <2>3, <2>4, <2>6 DEF S
<1>3. QED
  BY <1>1, <1>2 DEF PagedList
-----------------------------------------------------------------------------
\* A client has the items before its offset, and is told there are more exactly
\* when there are.
WalkInv ==
    /\ listing.tool \in ExactTools
    /\ listing.offset \in Nat /\ listing.limit \in Nat /\ listing.more \in BOOLEAN
    /\ \E n \in Nat : listing.rows \in [1..n -> TableRow]
    /\ listing = [tool |-> listing.tool, rows |-> listing.rows, limit |-> listing.limit,
                  offset |-> listing.offset, got |-> listing.got, more |-> listing.more]
    /\ LET s == PagedList(listing.tool, listing.rows)
       IN  /\ listing.got = SubSeq(s, 1, Cut(s, listing.offset))
           /\ IF listing.more THEN listing.offset <= Len(s) ELSE Len(s) <= listing.offset

\* Before the first page nothing is collected.
LEMMA WalkStarts == WalkTools \subseteq ExactTools /\ PageInit => WalkInv
<1> SUFFICES ASSUME WalkTools \subseteq ExactTools, PageInit
             PROVE  WalkInv
  OBVIOUS
<1>1. PICK tool \in WalkTools, limit \in PageLimits, n \in 0..MaxRows :
          \E rows \in [1..n -> TableRow] :
              listing = [tool |-> tool, rows |-> rows, limit |-> limit, offset |-> 0,
                         got |-> <<>>, more |-> TRUE]
  BY DEF PageInit
<1>2. PICK rows \in [1..n -> TableRow] :
              listing = [tool |-> tool, rows |-> rows, limit |-> limit, offset |-> 0,
                         got |-> <<>>, more |-> TRUE]
  BY <1>1
<1>3. n \in Nat /\ limit \in Nat /\ tool \in ExactTools
  BY PageBounds
<1> DEFINE s == PagedList(tool, rows)
<1>4. s \in Seq(1..n) /\ Len(s) \in Nat
  <2>1. s \in Seq(1..n)
    BY <1>3, PagedListTyped
  <2> HIDE DEF s
  <2>2. QED
    BY <2>1, LenProperties
<1> HIDE DEF s
<1>5. Cut(s, 0) = 0
  BY <1>4 DEF Cut
<1>6. SubSeq(s, 1, 0) = <<>>
  BY SubSeqEmpty
<1>7. /\ listing.tool = tool /\ listing.rows = rows /\ listing.limit = limit /\ listing.offset = 0
      /\ listing.got = <<>> /\ listing.more = TRUE
  BY <1>2
<1>8. listing = [tool |-> listing.tool, rows |-> listing.rows, limit |-> listing.limit,
                 offset |-> listing.offset, got |-> listing.got, more |-> listing.more]
  BY <1>2, <1>7
<1>9. PagedList(listing.tool, listing.rows) = s
  BY <1>7 DEF s
<1>10. listing.got = SubSeq(s, 1, Cut(s, listing.offset)) /\ listing.offset <= Len(s)
  BY <1>4, <1>5, <1>6, <1>7
<1>11. QED
  <2>1. listing.more \in BOOLEAN /\ listing.more
    BY <1>7, Zenon
  <2>2. listing.tool \in ExactTools /\ listing.offset \in Nat /\ listing.limit \in Nat
    BY <1>3, <1>7
  <2>3. listing.rows \in [1..n -> TableRow]
    BY <1>7
  <2>4. QED
    BY <1>3, <1>8, <1>9, <1>10, <2>1, <2>2, <2>3, Zenon DEF WalkInv

\* A page adds to what is collected the rows between its offset and the next one.
LEMMA WalkGoesOn == WalkInv /\ [PageNext]_pageVars => WalkInv'
<1> SUFFICES ASSUME WalkInv, [PageNext]_pageVars
             PROVE  WalkInv'
  OBVIOUS
<1>1. CASE UNCHANGED pageVars
  BY <1>1 DEF pageVars, WalkInv
<1>2. CASE FollowCursor
  <2> DEFINE s == PagedList(listing.tool, listing.rows)
             o == listing.offset
             l == listing.limit
             page == Page(listing.tool, listing.rows, o, l)
  <2>1. PICK n \in Nat : listing.rows \in [1..n -> TableRow]
    BY DEF WalkInv
  <2>2. listing.tool \in ExactTools /\ o \in Nat /\ l \in Nat /\ o + l \in Nat
    BY DEF WalkInv
  <2>3. s \in Seq(1..n) /\ Len(s) \in Nat
    <3>1. s \in Seq(1..n)
      BY <2>1, <2>2, PagedListTyped
    <3> HIDE DEF s
    <3>2. QED
      BY <3>1, LenProperties
  <2>4. page = SqlPage(s, o, l)
    BY <2>2, PageIs
  <2>5. listing.more /\ listing' = [listing EXCEPT !.got = listing.got \o page.items, !.more = page.more,
                                                   !.offset = o + l]
    <3> DEFINE all == listing.rows
               order == Rows(all)
               ordered == [i \in DOMAIN order |-> all[order[i]]]
               items == [i \in DOMAIN page.items |-> order[page.items[i]]]
    <3>1. PageOrders(listing.tool, all) = {order}
      BY <2>2 DEF PageOrders, InAnyOrder, ExactTools, RowTools
    <3>2. DOMAIN order = 1..n /\ \A i \in 1..n : order[i] = i
      BY <2>1 DEF Rows
    <3>3. ordered = all
      BY <2>1, <3>2
    <3>4. page.items \in Seq(1..n)
      <4> HIDE DEF s, o, l, page
      <4>1. page.items = SubSeq(s, o + 1, Cut(s, o + l))
        BY <2>2, <2>3, <2>4, SqlPageIs
      <4>2. Cut(s, o + l) \in Nat /\ Cut(s, o + l) <= Len(s)
        <5> DEFINE len == Len(s)
                   end == o + l
        <5>1. len \in Nat /\ end \in Nat
          BY <2>2, <2>3
        <5>2. Cut(s, o + l) = IF end <= len THEN end ELSE len
          BY Zenon DEF Cut
        <5> HIDE DEF len, end
        <5>3. QED
          BY <5>1, <5>2 DEF len
      <4>3. o \in Nat
        BY <2>2
      <4>4. SubSeq(s, o + 1, Cut(s, o + l)) \in Seq(1..n)
        <5> DEFINE cut == Cut(s, o + l)
        <5>1. cut \in Nat /\ cut <= Len(s)
          BY <4>2
        <5> HIDE DEF cut
        <5>2. SubSeq(s, o + 1, cut) \in Seq(1..n)
          BY <2>3, <4>3, <5>1, PartIn, Zenon
        <5>3. QED
          BY <5>2 DEF cut
      <4>5. QED
        BY <4>1, <4>4, Zenon
    <3>5. items = page.items
      <4> DEFINE got == page.items
      <4>1. got \in Seq(1..n)
        BY <3>4
      <4> HIDE DEF got
      <4>2. \A i \in DOMAIN got : got[i] \in 1..n
        BY <4>1, ElementOfSeq, LenProperties
      <4>3. got = [i \in DOMAIN got |-> got[i]]
        BY <4>1
      <4> HIDE DEF order, page
      <4>4. [i \in DOMAIN got |-> order[got[i]]] = [i \in DOMAIN got |-> got[i]]
        BY <3>2, <4>2
      <4>5. QED
        BY <4>3, <4>4, Zenon DEF got
    <3>6. listing.more /\ listing' = [listing EXCEPT !.got = listing.got \o items, !.more = page.more,
                                                     !.offset = o + l]
      <4>1. PICK p \in PageOrders(listing.tool, listing.rows) :
               LET rows == [i \in DOMAIN p |-> listing.rows[p[i]]]
                   pp == Page(listing.tool, rows, listing.offset, listing.limit)
                   ii == [i \in DOMAIN pp.items |-> p[pp.items[i]]]
               IN  listing' = [listing EXCEPT !.got = listing.got \o ii, !.more = pp.more,
                                              !.offset = listing.offset + listing.limit]
        BY <1>2, Zenon DEF FollowCursor
      <4>2. p = order
        BY <3>1
      <4>3. [i \in DOMAIN p |-> listing.rows[p[i]]] = all
        BY <3>3, <4>2
      <4>4. listing.more
        BY <1>2 DEF FollowCursor
      <4> HIDE DEF order, ordered
      <4>5. QED
        BY <4>1, <4>2, <4>3, <4>4, Zenon
    <3>7. QED
      BY <3>5, <3>6, Zenon
  <2>6. listing.got = SubSeq(s, 1, Cut(s, o)) /\ o <= Len(s)
    BY <2>5 DEF WalkInv
  <2>7. listing = [tool |-> listing.tool, rows |-> listing.rows, limit |-> l,
                   offset |-> o, got |-> listing.got, more |-> listing.more]
    BY DEF WalkInv
  <2> HIDE DEF s, o, l, page
  <2>8. /\ page.items = SubSeq(s, o + 1, Cut(s, o + l))
        /\ page.more <=> Len(s) > o + l
    BY <2>2, <2>3, <2>4, SqlPageIs
  <2>9. Cut(s, o) = o /\ Cut(s, o + l) \in o..Len(s) /\ Cut(s, o + l) \in Int
    BY <2>2, <2>3, <2>6 DEF Cut
  <2>10. SubSeq(s, 1, o) \o SubSeq(s, o + 1, Cut(s, o + l)) = SubSeq(s, 1, Cut(s, o + l))
    <3>1. 1 \in 1..Len(s) + 1 /\ o \in (1 - 1)..Len(s)
      BY <2>2, <2>3, <2>6
    <3>2. QED
      BY <2>3, <2>9, <3>1, ConcatAdjacentSubSeq
  <2> DEFINE got == listing.got \o page.items
             more == page.more
  <2>11. got = SubSeq(s, 1, Cut(s, o + l))
    BY <2>6, <2>8, <2>9, <2>10, Zenon
  <2>12. more <=> Len(s) > o + l
    BY <2>8, Zenon
  <2>13. more \in BOOLEAN
    <3>1. page = [items |-> page.items, more |-> Len(Fetched(s, o, l)) > l]
      BY <2>4 DEF SqlPage, Paginated
    <3>2. page.more = (Len(Fetched(s, o, l)) > l)
      BY <3>1
    <3>3. (Len(Fetched(s, o, l)) > l) \in BOOLEAN
      OBVIOUS
    <3>4. QED
      BY <3>2, <3>3, Zenon
  <2> HIDE DEF got, more
  <2>14. listing' = [tool |-> listing.tool, rows |-> listing.rows, limit |-> l,
                     offset |-> o + l, got |-> got, more |-> more]
    <3> DEFINE tool == listing.tool
               rows == listing.rows
               old == listing.got
               last == listing.more
    <3>1. listing' = [listing EXCEPT !.got = got, !.more = more, !.offset = o + l]
      BY <2>5, Zenon DEF got, more
    <3>2. listing = [tool |-> tool, rows |-> rows, limit |-> l, offset |-> o, got |-> old, more |-> last]
      BY <2>7
    <3> HIDE DEF tool, rows, old, last
    <3>3. listing' = [tool |-> tool, rows |-> rows, limit |-> l, offset |-> o + l,
                      got |-> got, more |-> more]
      BY <3>1, <3>2
    <3>4. QED
      BY <3>3 DEF tool, rows
  <2>15. /\ listing'.tool = listing.tool /\ listing'.rows = listing.rows /\ listing'.limit = l
         /\ listing'.offset = o + l /\ listing'.got = got
    BY <2>14
  <2>16. listing'.more = more
    BY <2>14
  <2>17. listing' = [tool |-> listing'.tool, rows |-> listing'.rows, limit |-> listing'.limit,
                     offset |-> listing'.offset, got |-> listing'.got, more |-> listing'.more]
    BY <2>14, <2>15, <2>16, Zenon
  <2>18. PagedList(listing'.tool, listing'.rows) = s
    BY <2>15 DEF s
  <2>19. IF listing'.more THEN listing'.offset <= Len(s) ELSE Len(s) <= listing'.offset
    <3>1. CASE more
      <4>1. Len(s) > o + l
        BY <2>12, <3>1, Zenon
      <4>2. o + l <= Len(s)
        BY <2>2, <2>3, <4>1
      <4>3. QED
        BY <2>15, <2>16, <3>1, <4>2, Zenon
    <3>2. CASE ~ more
      <4>1. ~ (Len(s) > o + l)
        BY <2>12, <3>2, Zenon
      <4>2. Len(s) <= o + l
        BY <2>2, <2>3, <4>1
      <4>3. QED
        BY <2>15, <2>16, <3>2, <4>2, Zenon
    <3>3. QED
      BY <3>1, <3>2
  <2>20. listing'.got = SubSeq(s, 1, Cut(s, listing'.offset))
    BY <2>11, <2>15, Zenon
  <2>21. /\ listing'.tool \in ExactTools /\ listing'.offset \in Nat /\ listing'.limit \in Nat
         /\ listing'.rows \in [1..n -> TableRow]
    BY <2>1, <2>2, <2>15
  <2>22. listing'.more \in BOOLEAN
    BY <2>13, <2>16, Zenon
  <2>23. QED
    BY <2>1, <2>17, <2>18, <2>19, <2>20, <2>21, <2>22, Zenon DEF WalkInv
<1>3. QED
  BY <1>1, <1>2 DEF PageNext

\* When no page is left, that is the whole list.
LEMMA WalkAtEnd == WalkInv => WalkExact
<1> SUFFICES ASSUME WalkInv, ~ listing.more
             PROVE  listing.got = Page(listing.tool, listing.rows, 0, Len(listing.rows)).items
  BY DEF WalkExact, OnePage
<1> DEFINE s == PagedList(listing.tool, listing.rows)
           o == listing.offset
<1>1. PICK n \in Nat : listing.rows \in [1..n -> TableRow]
  BY DEF WalkInv
<1>2. listing.tool \in ExactTools /\ o \in Nat
  BY DEF WalkInv
<1>3. s \in Seq(1..n) /\ Len(s) <= n
  BY <1>1, <1>2, PagedListTyped
<1>4. Len(listing.rows) = n
  <2>1. listing.rows \in Seq(TableRow)
    BY <1>1, SeqDef
  <2>2. QED
    BY <1>1, <2>1, LenProperties
<1>5. listing.got = SubSeq(s, 1, Cut(s, o)) /\ Len(s) <= o
  BY DEF WalkInv
<1>6. Page(listing.tool, listing.rows, 0, n) = SqlPage(s, 0, n)
  BY <1>2, PageIs
<1> HIDE DEF s, o
<1>7. Len(s) \in Nat
  BY <1>3, LenProperties
<1>8. SqlPage(s, 0, n).items = SubSeq(s, 0 + 1, Cut(s, 0 + n))
  BY <1>3, SqlPageIs
<1>9. Cut(s, 0 + n) = Len(s) /\ Cut(s, o) = Len(s) /\ 0 + 1 = 1
  BY <1>2, <1>3, <1>5, <1>7 DEF Cut
<1>10. QED
  BY <1>4, <1>5, <1>6, <1>8, <1>9, Zenon

\* WalksExact: a client that follows the cursor of a tool that settles the order
\* of its rows (crate_search, docs_search, crate_versions, crate_import_path,
\* crate_hotspots) to the end has collected every row of its list, each once and
\* in order (WalkExact), as one page large enough would have given them.
THEOREM WalksExact == WalkTools \subseteq ExactTools => (PageSpec => []WalkExact)
<1>1. WalkTools \subseteq ExactTools /\ PageInit => WalkInv
  BY WalkStarts
<1>2. WalkInv /\ [PageNext]_pageVars => WalkInv'
  BY WalkGoesOn
<1>3. WalkInv => WalkExact
  BY WalkAtEnd
<1>4. QED
  BY <1>1, <1>2, <1>3, PTL DEF PageSpec
-----------------------------------------------------------------------------
(* The symbols of the two versions. *)

SymbolData == [sig : Nat, vis : {"public", "none"}]

\* Of a set of numbers one is the least.
LEMMA LeastOf ==
    ASSUME NEW T \in SUBSET Nat, T # {}
    PROVE  \E x \in T : \A y \in T : x <= y
<1> DEFINE R == {ss \in Nat \X Nat : ss[1] < ss[2]}
<1>1. IsWellFoundedOn(R, Nat)
  BY NatLessThanWellFounded DEF OpToRel
<1>2. PICK x \in T : \A y \in T : <<y, x>> \notin R
  <2> HIDE DEF R
  <2> QED
    BY <1>1, WFMin
<1>3. \A y \in T : ~ (y < x)
  BY <1>2
<1>4. x \in Nat /\ \A y \in T : y \in Nat
  OBVIOUS
<1>5. QED
  BY <1>3, <1>4

\* The row the query keeps for a symbol (SELECT DISTINCT ON) is one of its rows,
\* and not a private one.
LEMMA BestIsPublic ==
    ASSUME NEW rows \in Seq(SymbolRow), Public(rows) # {}
    PROVE  Best(rows) \in SymbolRow /\ Best(rows).vis # "private"
<1> DEFINE P == Public(rows)
           Class(i) == IF rows[i].source = "rustdoc_json"
                       THEN IF rows[i].sig # 0 THEN 0 ELSE 1
                       ELSE IF rows[i].sig # 0 THEN 2 ELSE 3
           classes == {Class(i) : i \in P}
<1>1. \A i \in P : rows[i] \in SymbolRow /\ rows[i].vis # "private" /\ i \in Nat
  <2> TAKE i \in P
  <2>1. i \in DOMAIN rows /\ rows[i].vis # "private"
    BY DEF Public
  <2>2. QED
    BY <2>1, ElementOfSeq, LenProperties
<1>2. \A i, j \in P : Better(rows[i], rows[j]) <=> Class(i) < Class(j)
  <2> TAKE i, j \in P
  <2>1. rows[i] \in SymbolRow /\ rows[j] \in SymbolRow
    BY <1>1
  <2>2. QED
    BY <2>1 DEF Better, SymbolRow
<1>3. PICK c \in classes : \A d \in classes : c <= d
  <2>1. classes \in SUBSET Nat /\ classes # {}
    OBVIOUS
  <2> HIDE DEF classes
  <2>2. QED
    BY <2>1, LeastOf
<1> DEFINE T == {i \in P : Class(i) = c}
<1>4. PICK i \in T : \A j \in T : i <= j
  <2>1. T \in SUBSET Nat /\ T # {}
    BY <1>1
  <2> HIDE DEF T
  <2>2. QED
    BY <2>1, LeastOf
<1>5. i \in P /\ \A j \in P : ~ Better(rows[j], rows[i]) /\ (j < i => Better(rows[i], rows[j]))
  <2>1. i \in P /\ Class(i) = c
    OBVIOUS
  <2> SUFFICES ASSUME NEW j \in P
               PROVE  ~ Better(rows[j], rows[i]) /\ (j < i => Better(rows[i], rows[j]))
    BY <2>1
  <2>2. Class(j) \in classes /\ c <= Class(j)
    BY <1>3
  <2>3. Class(j) = c => i <= j
    BY <1>4
  <2>4. i \in Nat /\ j \in Nat /\ Class(j) \in Nat /\ c \in Nat
    BY <1>1, <2>1
  <2>5. (Better(rows[j], rows[i]) <=> Class(j) < c) /\ (Better(rows[i], rows[j]) <=> c < Class(j))
    BY <1>2, <2>1
  <2> HIDE DEF Class, classes, P, T
  <2>6. QED
    BY <2>2, <2>3, <2>4, <2>5
<1> DEFINE Good_(k) == \A j \in P : ~ Better(rows[j], rows[k]) /\ (j < k => Better(rows[k], rows[j]))
           k0 == CHOOSE k \in P : Good_(k)
<1>6. k0 \in P
  BY <1>5
<1>7. Best(rows) = rows[k0]
  BY Zenon DEF Best
<1> HIDE DEF k0, P
<1>8. QED
  BY <1>1, <1>6, <1>7

\* What is compared of a version: of each symbol it has, a signature and whether
\* it is marked public.
LEMMA SnapshotTyped ==
    ASSUME NEW table \in [Symbols -> Seq(SymbolRow)]
    PROVE  DOMAIN Snapshot(table) \subseteq Symbols /\ Snapshot(table) \in [DOMAIN Snapshot(table) -> SymbolData]
<1> DEFINE D == {t \in Symbols : Public(table[t]) # {}}
           Data(s) == LET r == Best(table[s]) IN [sig |-> r.sig, vis |-> r.vis]
<1>1. Snapshot(table) = [s \in D |-> Data(s)]
  BY Zenon DEF Snapshot
<1>2. \A s \in D : Data(s) \in SymbolData
  <2> TAKE s \in D
  <2>1. table[s] \in Seq(SymbolRow) /\ Public(table[s]) # {}
    OBVIOUS
  <2>2. Best(table[s]) \in SymbolRow /\ Best(table[s]).vis # "private"
    BY <2>1, BestIsPublic
  <2>3. QED
    BY <2>2 DEF SymbolRow, SymbolData
<1> HIDE DEF Data
<1>3. DOMAIN Snapshot(table) = D /\ Snapshot(table) \in [D -> SymbolData]
  BY <1>1, <1>2
<1>4. QED
  BY <1>3
-----------------------------------------------------------------------------
(* The changes between two versions. *)

TwoVersions(old, new) ==
    /\ DOMAIN old \subseteq Symbols /\ old \in [DOMAIN old -> SymbolData]
    /\ DOMAIN new \subseteq Symbols /\ new \in [DOMAIN new -> SymbolData]

\* The symbols of which there is a change, and the change.
Differ(old, new) ==
    {s \in DOMAIN old \cup DOMAIN new : ~ (s \in DOMAIN old /\ s \in DOMAIN new /\ old[s] = new[s])}
ChangeOf(old, new, s) ==
    IF s \notin DOMAIN old THEN Change(s, "added", NoSymbol, new[s], FALSE)
    ELSE IF s \notin DOMAIN new THEN Change(s, "removed", old[s], NoSymbol, TRUE)
    ELSE Changed(s, old[s], new[s])
ChangesOf(old, new, S) == {ChangeOf(old, new, s) : s \in S}

\* Breaks, of two versions.
BreaksFrom(old, new, s) == s \in DOMAIN old /\ (s \in DOMAIN new => old[s].sig # new[s].sig)

ChangeRecords ==
    [symbol : Symbols, type : {"removed", "visibility changed", "signature changed", "added"},
     from : SymbolData \cup {NoSymbol}, to : SymbolData \cup {NoSymbol}, breaking : BOOLEAN]

\* What each change says.
LEMMA ChangeIs ==
    ASSUME NEW old, NEW new, TwoVersions(old, new), NEW s \in Differ(old, new)
    PROVE  LET c == ChangeOf(old, new, s)
           IN  /\ c \in ChangeRecords /\ c.symbol = s
               /\ c.type = "removed" <=> s \notin DOMAIN new
               /\ c.type = "added" <=> s \notin DOMAIN old
               /\ s \in DOMAIN new => c.to = new[s]
               /\ c.breaking <=> BreaksFrom(old, new, s)
<1> DEFINE c == ChangeOf(old, new, s)
<1>1. s \in Symbols /\ (s \in DOMAIN old \/ s \in DOMAIN new)
  BY DEF TwoVersions, Differ
<1>2. /\ s \in DOMAIN old => old[s] \in SymbolData
      /\ s \in DOMAIN new => new[s] \in SymbolData
  BY DEF TwoVersions
<1>3. CASE s \notin DOMAIN old
  <2>1. c = [symbol |-> s, type |-> "added", from |-> NoSymbol, to |-> new[s], breaking |-> FALSE]
    BY <1>3 DEF ChangeOf, Change
  <2> DEFINE t == new[s]
  <2> HIDE DEF c, t
  <2>2. c.symbol = s /\ c.type = "added" /\ c.to = t /\ ~ c.breaking /\ c \in ChangeRecords
    BY <1>1, <1>2, <1>3, <2>1 DEF ChangeRecords, t
  <2>3. QED
    BY <1>1, <1>3, <2>2 DEF c, t, BreaksFrom
<1>4. CASE s \in DOMAIN old /\ s \notin DOMAIN new
  <2>1. c = [symbol |-> s, type |-> "removed", from |-> old[s], to |-> NoSymbol, breaking |-> TRUE]
    BY <1>4 DEF ChangeOf, Change
  <2> HIDE DEF c
  <2>2. c.symbol = s /\ c.type = "removed" /\ c.breaking /\ c \in ChangeRecords
    BY <1>1, <1>2, <1>4, <2>1 DEF ChangeRecords
  <2>3. QED
    BY <1>4, <2>2 DEF c, BreaksFrom
<1>5. CASE s \in DOMAIN old /\ s \in DOMAIN new
  <2> DEFINE f == old[s]
             t == new[s]
             b == (f.vis = "public" /\ t.vis = "private") \/ f.sig # t.sig
             type == IF f.vis # t.vis THEN "visibility changed" ELSE "signature changed"
  <2>1. c = [symbol |-> s, type |-> type, from |-> f, to |-> t, breaking |-> b]
    BY <1>5 DEF ChangeOf, Changed, Change
  <2>2. b <=> f.sig # t.sig
    BY <1>2, <1>5 DEF SymbolData
  <2>3. b \in BOOLEAN /\ type \in {"visibility changed", "signature changed"}
        /\ f \in SymbolData /\ t \in SymbolData
    BY <1>2, <1>5
  <2>4. BreaksFrom(old, new, s) <=> f.sig # t.sig
    BY <1>5 DEF BreaksFrom
  <2> HIDE DEF b, c, type, f, t
  <2>5. c.symbol = s /\ c.type = type /\ c.to = t /\ c \in ChangeRecords
    BY <1>1, <2>1, <2>3 DEF ChangeRecords
  <2>6. c.breaking = b
    BY <2>1
  <2>7. c.breaking <=> BreaksFrom(old, new, s)
    BY <2>2, <2>4, <2>6, Zenon
  <2>8. c.type # "removed" /\ c.type # "added"
    BY <2>3, <2>5
  <2>9. QED
    BY <1>5, <2>5, <2>7, <2>8 DEF c, t
<1>6. QED
  BY <1>1, <1>3, <1>4, <1>5

\* A symbol that breaks is one of them.
LEMMA BreaksDiffer ==
    ASSUME NEW old, NEW new, NEW s, BreaksFrom(old, new, s)
    PROVE  s \in Differ(old, new)
BY DEF BreaksFrom, Differ

\* The changes and their symbols are one for one.
LEMMA ChangesApart ==
    ASSUME NEW old, NEW new, TwoVersions(old, new), NEW S \in SUBSET Differ(old, new)
    PROVE  /\ IsFiniteSet(ChangesOf(old, new, S))
           /\ ChangesOf(old, new, S) \subseteq ChangeRecords
           /\ \A c, d \in ChangesOf(old, new, S) : c.symbol = d.symbol => c = d
<1> DEFINE C == ChangesOf(old, new, S)
           g == [c \in C |-> c.symbol]
<1>1. \A c \in C : \E s \in S : c = ChangeOf(old, new, s) /\ c.symbol = s /\ c \in ChangeRecords
  BY ChangeIs DEF ChangesOf
<1>2. \A c, d \in C : c.symbol = d.symbol => c = d
  BY <1>1
<1>3. \A c \in C : c.symbol \in Symbols
  BY <1>1 DEF ChangeRecords
<1>4. IsFiniteSet(Symbols)
  <2>1. 1 \in Int /\ MaxSymbol \in Int
    BY DiffBounds
  <2>2. QED
    BY <2>1, FS_Interval DEF Symbols
<1> HIDE DEF C
<1>5. g \in Injection(C, Symbols)
  BY <1>2, <1>3 DEF Injection, IsInjective
<1> HIDE DEF g
<1>6. IsFiniteSet(C)
  BY <1>4, <1>5, FS_Injection
<1>7. QED
  BY <1>1, <1>2, <1>6 DEF C

\* What the two versions have of each other, counted as far as the loop is.
LEMMA SymbolsCounted ==
    ASSUME NEW S \in SUBSET Symbols
    PROVE  IsFiniteSet(S) /\ Cardinality(S) \in Nat
<1>1. 1 \in Int /\ MaxSymbol \in Int
  BY DiffBounds
<1>2. IsFiniteSet(Symbols)
  BY <1>1, FS_Interval DEF Symbols
<1>3. QED
  BY <1>2, FS_Subset, FS_CardinalityType
-----------------------------------------------------------------------------
(* The cut at the limit. *)

RankOrder(C) ==
    {p \in C \X C : \/ Rank(p[1].type) < Rank(p[2].type)
                    \/ Rank(p[1].type) = Rank(p[2].type) /\ p[1].symbol < p[2].symbol}

\* Additions rank last of all changes.
LEMMA RankIs ==
    ASSUME NEW c \in ChangeRecords
    PROVE  Rank(c.type) \in 0..3 /\ (c.type = "added" <=> Rank(c.type) = 3)
<1>1. c.type \in {"removed", "visibility changed", "signature changed", "added"}
  BY DEF ChangeRecords
<1>2. Rank("removed") = 0 /\ Rank("visibility changed") = 1 /\ Rank("signature changed") = 2 /\ Rank("added") = 3
  BY Zenon DEF Rank
<1>3. Rank(c.type) = 0 \/ Rank(c.type) = 1 \/ Rank(c.type) = 2 \/ Rank(c.type) = 3
  BY <1>1, <1>2, Zenon
<1>4. c.type = "added" => Rank(c.type) = 3
  BY <1>2, Zenon
<1>5. c.type # "added" => Rank(c.type) = 0 \/ Rank(c.type) = 1 \/ Rank(c.type) = 2
  BY <1>1, <1>2, Zenon
<1> DEFINE r == Rank(c.type)
<1> HIDE DEF r
<1>6. (r = 0 \/ r = 1 \/ r = 2 \/ r = 3) /\ (r = 0 \/ r = 1 \/ r = 2 => r # 3)
  BY <1>3 DEF r
<1>7. r \in 0..3 /\ (c.type = "added" <=> r = 3)
  BY <1>4, <1>5, <1>6 DEF r
<1>8. QED
  BY <1>7 DEF r

\* The changes of a diff are in a strict total order: no two are of one symbol.
LEMMA RanksOrder ==
    ASSUME NEW C \in SUBSET ChangeRecords, \A c, d \in C : c.symbol = d.symbol => c = d
    PROVE  Orders(RankOrder(C), C)
<1> DEFINE R == RankOrder(C)
           r(c) == Rank(c.type)
<1>1. \A c \in C : r(c) \in Int /\ c.symbol \in Int
  <2> TAKE c \in C
  <2>1. c.symbol \in Symbols
    BY DEF ChangeRecords
  <2>2. c.symbol \in Int
    BY <2>1, DiffBounds DEF Symbols
  <2>3. QED
    BY <2>2, RankIs
<1>2. \A c, d \in C : <<c, d>> \in R <=> (r(c) < r(d) \/ (r(c) = r(d) /\ c.symbol < d.symbol))
  BY DEF RankOrder
<1> HIDE DEF R, r
<1>3. \A c \in C : <<c, c>> \notin R
  BY <1>1, <1>2
<1>4. \A c, d, e \in C : <<c, d>> \in R /\ <<d, e>> \in R => <<c, e>> \in R
  BY <1>1, <1>2
<1>5. \A c, d \in C : c # d => <<c, d>> \in R \/ <<d, c>> \in R
  BY <1>1, <1>2
<1>6. QED
  BY <1>3, <1>4, <1>5 DEF Orders, R

CutOf(changes, limit) == SubSeq(Sorted(changes), 1, Min({limit, Len(changes)}))

\* What a cut keeps.
Keeps(old, new, changes, limit, cut) ==
    /\ Len(changes) <= limit => ToSet(cut) = ToSet(changes)
    /\ (\E i \in DOMAIN cut : cut[i].type = "added") =>
           \A s \in Symbols : BreaksFrom(old, new, s) => \E j \in DOMAIN cut : cut[j].symbol = s

\* The cut keeps the first changes of the sorted ones: all of them when the limit
\* allows, and an addition only when every change that breaks is kept.
LEMMA CutKeeps ==
    ASSUME NEW old, NEW new, TwoVersions(old, new), NEW limit \in Nat,
           NEW changes \in Seq(ChangeRecords), Len(changes) = Cardinality(ToSet(changes)),
           ToSet(changes) = ChangesOf(old, new, Differ(old, new))
    PROVE  Keeps(old, new, changes, limit, CutOf(changes, limit))
<1> DEFINE C == ToSet(changes)
           R == RankOrder(C)
           f == Sorted(changes)
           n == Len(changes)
           k == IF limit <= n THEN limit ELSE n
           cut == SubSeq(f, 1, k)
<1>1. n \in Nat
  BY LenProperties
<1>2. Min({limit, n}) = k
  <2>1. limit \in Int /\ n \in Int
    BY <1>1
  <2>2. QED
    BY <2>1, SmallerOfTwo
<1>3. C \subseteq ChangeRecords /\ IsFiniteSet(C) /\ \A c, d \in C : c.symbol = d.symbol => c = d
  BY ChangesApart
<1>4. Orders(R, C)
  <2> HIDE DEF C
  <2>1. QED
    BY <1>3, RanksOrder
<1>5. f = Listed(C, R)
  BY Zenon DEF Sorted, InOrder, RankOrder
<1>6. k \in Nat /\ k <= n
  BY <1>1
<1> HIDE DEF f, R, C, k
<1>7. /\ f \in Seq(C) /\ Len(f) = Cardinality(C) /\ ToSet(f) = C
      /\ \A i, j \in 1..Cardinality(C) : i < j => f[i] # f[j] /\ <<f[i], f[j]>> \in R
  BY <1>3, <1>4, <1>5, OrderedOnce
<1>8. Len(f) = n /\ DOMAIN f = 1..n
  BY <1>7, LenProperties DEF C
<1>9. /\ cut \in Seq(C) /\ Len(cut) = k /\ DOMAIN cut = 1..k
      /\ \A i \in 1..k : cut[i] = f[i]
  <2>1. /\ SubSeq(f, 0 + 1, k) \in Seq(C)
        /\ Len(SubSeq(f, 0 + 1, k)) = IF 0 <= k THEN k - 0 ELSE 0
        /\ \A i \in 1..(k - 0) : SubSeq(f, 0 + 1, k)[i] = f[0 + i]
    BY <1>6, <1>7, <1>8, PartOf
  <2>2. 0 + 1 = 1 /\ 0 <= k /\ k - 0 = k /\ \A i \in 1..k : 0 + i = i
    BY <1>6
  <2>3. cut \in Seq(C) /\ Len(cut) = k /\ \A i \in 1..k : cut[i] = f[i]
    BY <2>1, <2>2
  <2> HIDE DEF cut
  <2>4. QED
    BY <2>3, LenProperties
<1> HIDE DEF cut
<1>10. ASSUME n <= limit
       PROVE  ToSet(cut) = C
  <2>1. k = n
    BY <1>1, <1>10 DEF k
  <2>2. ToSet(cut) = ToSet(f)
    BY <1>8, <1>9, <2>1 DEF ToSet
  <2>3. QED
    BY <1>7, <2>2
<1>11. ASSUME NEW i \in DOMAIN cut, cut[i].type = "added",
              NEW s \in Symbols, BreaksFrom(old, new, s)
       PROVE  \E j \in DOMAIN cut : cut[j].symbol = s
  <2> DEFINE c == ChangeOf(old, new, s)
  <2>1. s \in Differ(old, new)
    BY <1>11, BreaksDiffer
  <2>2. c \in C
    BY <2>1 DEF C, ChangesOf
  <2>3. c.symbol = s /\ c.type # "added"
    <3>1. s \in DOMAIN old
      BY <1>11 DEF BreaksFrom
    <3>2. c.symbol = s /\ (c.type = "added" <=> s \notin DOMAIN old)
      BY <2>1, ChangeIs
    <3> HIDE DEF c
    <3>3. QED
      BY <3>1, <3>2
  <2> HIDE DEF c
  <2>4. PICK j \in 1..n : f[j] = c
    BY <1>7, <1>8, <2>2 DEF ToSet
  <2>5. i \in 1..k /\ i \in 1..n /\ f[i] \in C /\ f[i].type = "added"
    <3>1. i \in 1..k /\ f[i] = cut[i]
      BY <1>9
    <3>2. i \in 1..n
      BY <1>1, <1>6, <3>1
    <3>3. QED
      BY <1>7, <1>8, <1>11, <3>1, <3>2, ElementOfSeq
  <2>6. j < i
    <3>1. j # i
      BY <2>3, <2>4, <2>5
    <3>2. ~ (i < j)
      <4> SUFFICES ASSUME i < j
                   PROVE  FALSE
        OBVIOUS
      <4>1. <<f[i], f[j]>> \in R
        BY <1>7, <1>8, <2>4, <2>5
      <4>2. Rank(f[i].type) < Rank(c.type) \/ Rank(f[i].type) = Rank(c.type)
        BY <2>4, <4>1 DEF R, RankOrder
      <4>3. Rank(f[i].type) = 3 /\ Rank(c.type) \in 0..3 /\ Rank(c.type) # 3
        BY <1>3, <2>2, <2>3, <2>5, RankIs
      <4>4. QED
        BY <4>2, <4>3
    <3>3. QED
      BY <3>1, <3>2, <2>4, <2>5
  <2>7. j \in 1..k
    BY <1>6, <2>4, <2>5, <2>6
  <2>8. j \in DOMAIN cut /\ cut[j].symbol = s
    BY <1>9, <2>3, <2>4, <2>7
  <2>9. QED
    BY <2>8
<1>12. QED
  BY <1>2, <1>10, <1>11 DEF cut, f, C, Keeps, CutOf
-----------------------------------------------------------------------------
(* The two loops. *)

\* What the loops have told of the symbols S.
Told(old, new, S, changes, removed, added, breaking) ==
    /\ changes \in Seq(ChangeRecords) /\ Len(changes) = Cardinality(ToSet(changes))
    /\ ToSet(changes) = ChangesOf(old, new, S)
    /\ removed = Cardinality(S \ DOMAIN new) /\ added = Cardinality(S \ DOMAIN old)
    /\ breaking \in BOOLEAN /\ (breaking <=> \E s \in S : BreaksFrom(old, new, s))

\* Before the first symbol nothing is told.
LEMMA NothingTold ==
    ASSUME NEW old, NEW new
    PROVE  Told(old, new, {}, <<>>, 0, 0, FALSE)
<1>1. <<>> \in Seq(ChangeRecords) /\ Len(<<>>) = 0 /\ ToSet(<<>>) = {}
  BY EmptySeq DEF ToSet
<1>2. Cardinality({}) = 0
  BY FS_EmptySet
<1>3. ChangesOf(old, new, {}) = {} /\ {} \ DOMAIN new = {} /\ {} \ DOMAIN old = {}
  BY DEF ChangesOf
<1>4. FALSE \in BOOLEAN /\ (FALSE <=> \E s \in {} : BreaksFrom(old, new, s))
  OBVIOUS
<1>5. QED
  BY <1>1, <1>2, <1>3, <1>4 DEF Told

\* Each change is of a symbol that has none yet.
LEMMA OneMoreTold ==
    ASSUME NEW old, NEW new, TwoVersions(old, new), NEW S \in SUBSET Differ(old, new),
           NEW s \in Differ(old, new) \ S,
           NEW changes, NEW removed, NEW added, NEW breaking, NEW broken,
           Told(old, new, S, changes, removed, added, breaking),
           broken \in BOOLEAN, broken <=> (breaking \/ BreaksFrom(old, new, s))
    PROVE  Told(old, new, S \cup {s}, Append(changes, ChangeOf(old, new, s)),
                IF s \in DOMAIN new THEN removed ELSE removed + 1,
                IF s \in DOMAIN old THEN added ELSE added + 1, broken)
<1> DEFINE c == ChangeOf(old, new, s)
           C == ToSet(changes)
           more == Append(changes, c)
<1>1. /\ changes \in Seq(ChangeRecords) /\ Len(changes) = Cardinality(C) /\ C = ChangesOf(old, new, S)
      /\ removed = Cardinality(S \ DOMAIN new) /\ added = Cardinality(S \ DOMAIN old)
  BY DEF Told
<1>2. c \in ChangeRecords /\ c.symbol = s
  BY ChangeIs
<1>3. c \notin C
  <2>1. \A d \in C : d.symbol # s
    BY <1>1, ChangeIs DEF ChangesOf
  <2> HIDE DEF c, C
  <2>2. QED
    BY <1>2, <2>1
<1>4. IsFiniteSet(C)
  BY <1>1, ChangesApart
<1>5. ChangesOf(old, new, S \cup {s}) = C \cup {c}
  BY <1>1 DEF ChangesOf
<1> HIDE DEF c
<1>6. /\ more \in Seq(ChangeRecords) /\ Len(more) = Len(changes) + 1 /\ Len(changes) \in Nat
      /\ \A i \in 1..Len(changes) : more[i] = changes[i]
      /\ more[Len(changes) + 1] = c
  BY <1>1, <1>2, ElementsOfAppend
<1>7. ToSet(more) = C \cup {c}
  <2> HIDE DEF more
  <2>1. DOMAIN more = 1..(Len(changes) + 1) /\ DOMAIN changes = 1..Len(changes)
    BY <1>1, <1>6, LenProperties
  <2>2. 1..(Len(changes) + 1) = 1..Len(changes) \cup {Len(changes) + 1}
    BY <1>6
  <2>3. QED
    BY <1>6, <2>1, <2>2 DEF ToSet
<1> HIDE DEF C, more
<1>8. Cardinality(C \cup {c}) = Cardinality(C) + 1
  BY <1>3, <1>4, FS_AddElement
<1>9. Len(more) = Cardinality(ToSet(more))
  BY <1>1, <1>6, <1>7, <1>8
<1>10. S \in SUBSET Symbols /\ s \in Symbols
  BY DEF Differ, TwoVersions
<1>11. /\ s \in DOMAIN new => Cardinality((S \cup {s}) \ DOMAIN new) = removed
       /\ s \notin DOMAIN new => Cardinality((S \cup {s}) \ DOMAIN new) = removed + 1
  <2> DEFINE A == S \ DOMAIN new
  <2>1. s \in DOMAIN new => (S \cup {s}) \ DOMAIN new = A
    OBVIOUS
  <2>2. s \notin DOMAIN new => (S \cup {s}) \ DOMAIN new = A \cup {s}
    OBVIOUS
  <2>3. IsFiniteSet(A) /\ s \notin A
    BY <1>10, SymbolsCounted
  <2>4. removed = Cardinality(A)
    BY <1>1
  <2> HIDE DEF A
  <2>5. Cardinality(A \cup {s}) = Cardinality(A) + 1
    BY <2>3, FS_AddElement
  <2>6. QED
    BY <2>1, <2>2, <2>4, <2>5
<1>12. /\ s \in DOMAIN old => Cardinality((S \cup {s}) \ DOMAIN old) = added
       /\ s \notin DOMAIN old => Cardinality((S \cup {s}) \ DOMAIN old) = added + 1
  <2> DEFINE A == S \ DOMAIN old
  <2>1. s \in DOMAIN old => (S \cup {s}) \ DOMAIN old = A
    OBVIOUS
  <2>2. s \notin DOMAIN old => (S \cup {s}) \ DOMAIN old = A \cup {s}
    OBVIOUS
  <2>3. IsFiniteSet(A) /\ s \notin A
    BY <1>10, SymbolsCounted
  <2>4. added = Cardinality(A)
    BY <1>1
  <2> HIDE DEF A
  <2>5. Cardinality(A \cup {s}) = Cardinality(A) + 1
    BY <2>3, FS_AddElement
  <2>6. QED
    BY <2>1, <2>2, <2>4, <2>5
<1>13. broken <=> \E t \in S \cup {s} : BreaksFrom(old, new, t)
  <2>1. breaking <=> \E t \in S : BreaksFrom(old, new, t)
    BY DEF Told
  <2>2. (\E t \in S \cup {s} : BreaksFrom(old, new, t))
            <=> (\E t \in S : BreaksFrom(old, new, t)) \/ BreaksFrom(old, new, s)
    OBVIOUS
  <2>3. QED
    BY <2>1, <2>2, Zenon
<1> DEFINE r == IF s \in DOMAIN new THEN removed ELSE removed + 1
           a == IF s \in DOMAIN old THEN added ELSE added + 1
<1>14. r = Cardinality((S \cup {s}) \ DOMAIN new) /\ a = Cardinality((S \cup {s}) \ DOMAIN old)
  BY <1>11, <1>12
<1> HIDE DEF r, a
<1>15. Told(old, new, S \cup {s}, more, r, a, broken)
  BY <1>5, <1>6, <1>7, <1>9, <1>13, <1>14, Zenon DEF Told
<1>16. QED
  BY <1>15 DEF more, c, r, a
-----------------------------------------------------------------------------
(* What a diff that is not cut says, and the path made of it. *)

\* The old version, with every change that the diff tells made to it, is the new one.
LEMMA PatchedIsNew ==
    ASSUME NEW old, NEW new, TwoVersions(old, new), NEW changes,
           ToSet(changes) = ChangesOf(old, new, Differ(old, new))
    PROVE  Patched(old, changes) = new
<1> DEFINE C == ToSet(changes)
           gone == {c.symbol : c \in {d \in C : d.type = "removed"}}
           told == {c.symbol : c \in {d \in C : d.type # "removed"}}
           To(s) == (CHOOSE c \in C : c.symbol = s).to
           P(s) == IF s \in told THEN To(s) ELSE old[s]
<1>1. Patched(old, changes) = [s \in (DOMAIN old \ gone) \cup told |-> P(s)]
  BY Zenon DEF Patched
<1>2. \A c \in C : \E s \in Differ(old, new) : c = ChangeOf(old, new, s) /\ c.symbol = s
                                                /\ (c.type = "removed" <=> s \notin DOMAIN new)
  BY ChangeIs DEF ChangesOf
<1>3. \A s \in Differ(old, new) : \E c \in C : c.symbol = s /\ (c.type = "removed" <=> s \notin DOMAIN new)
                                                /\ (s \in DOMAIN new => c.to = new[s])
  BY ChangeIs DEF ChangesOf
<1>4. \A c, d \in C : c.symbol = d.symbol => c = d
  BY ChangesApart
<1> HIDE DEF C
<1>5. gone = Differ(old, new) \ DOMAIN new
  BY <1>2, <1>3
<1>6. told = Differ(old, new) \cap DOMAIN new
  BY <1>2, <1>3
<1>7. (DOMAIN old \ gone) \cup told = DOMAIN new
  BY <1>5, <1>6 DEF Differ
<1>8. \A s \in DOMAIN new : P(s) = new[s]
  <2> TAKE s \in DOMAIN new
  <2>1. CASE s \in told
    <3>1. s \in Differ(old, new)
      BY <1>6, <2>1
    <3>2. PICK c \in C : c.symbol = s /\ c.to = new[s]
      BY <1>3, <3>1
    <3>3. (CHOOSE d \in C : d.symbol = s) = c
      BY <1>4, <3>2
    <3>4. To(s) = new[s]
      BY <3>2, <3>3
    <3>5. QED
      BY <2>1, <3>4
  <2>2. CASE s \notin told
    <3>1. s \notin Differ(old, new)
      BY <1>6, <2>2
    <3>2. s \in DOMAIN old /\ old[s] = new[s]
      BY <3>1 DEF Differ
    <3>3. QED
      BY <2>2, <3>2
  <2>3. QED
    BY <2>1, <2>2
<1> HIDE DEF P, told, gone
<1>9. Patched(old, changes) = [s \in DOMAIN new |-> new[s]]
  BY <1>1, <1>7, <1>8
<1>10. new = [s \in DOMAIN new |-> new[s]]
  BY DEF TwoVersions
<1>11. QED
  BY <1>9, <1>10

\* An action of the path: a breaking change's symbol and the new names for it.
ActionOf(c, changes, alike) ==
    [symbol |-> c.symbol,
     replacement |-> {d.symbol : d \in {e \in ToSet(changes) : c.type = "removed" /\ e.type = "added"
                                                                 /\ <<c.symbol, e.symbol>> \in alike}}]
PathOf(changes, alike) ==
    {ActionOf(c, changes, alike) : c \in {d \in ToSet(changes) : d.breaking \/ d.type = "removed"}}

\* The path made of all changes has an action for each symbol that breaks.
LEMMA PathComplete ==
    ASSUME NEW old, NEW new, TwoVersions(old, new), NEW changes, NEW alike,
           ToSet(changes) = ChangesOf(old, new, Differ(old, new))
    PROVE  /\ {a.symbol : a \in PathOf(changes, alike)} = {s \in Symbols : BreaksFrom(old, new, s)}
           /\ \A a \in PathOf(changes, alike) :
                  a.replacement = {s \in DOMAIN new \ DOMAIN old :
                                       a.symbol \notin DOMAIN new /\ <<a.symbol, s>> \in alike}
<1> DEFINE C == ToSet(changes)
           path == PathOf(changes, alike)
           hurt == {d \in C : d.breaking \/ d.type = "removed"}
<1>1. \A c \in C : /\ c.symbol \in Differ(old, new)
                   /\ c.type = "removed" <=> c.symbol \notin DOMAIN new
                   /\ c.type = "added" <=> c.symbol \notin DOMAIN old
                   /\ c.breaking <=> BreaksFrom(old, new, c.symbol)
  <2> TAKE c \in C
  <2>1. PICK s \in Differ(old, new) : c = ChangeOf(old, new, s)
    BY DEF ChangesOf
  <2>2. /\ ChangeOf(old, new, s).symbol = s
        /\ ChangeOf(old, new, s).type = "removed" <=> s \notin DOMAIN new
        /\ ChangeOf(old, new, s).type = "added" <=> s \notin DOMAIN old
        /\ ChangeOf(old, new, s).breaking <=> BreaksFrom(old, new, s)
    BY ChangeIs
  <2>3. QED
    BY <2>1, <2>2, Zenon
<1>2. \A s \in Differ(old, new) : \E c \in C : c.symbol = s
  BY ChangeIs DEF ChangesOf
<1>3. Differ(old, new) \subseteq Symbols
  BY DEF Differ, TwoVersions
<1>4. \A s \in DOMAIN new \ DOMAIN old : s \in Differ(old, new)
  BY DEF Differ
<1>5. \A s : BreaksFrom(old, new, s) => s \in Differ(old, new)
  BY BreaksDiffer
<1>6. \A c \in C : c \in hurt <=> BreaksFrom(old, new, c.symbol)
  <2> TAKE c \in C
  <2>1. c.type = "removed" => BreaksFrom(old, new, c.symbol)
    <3>1. c.symbol \in DOMAIN old \/ c.symbol \in DOMAIN new
      BY <1>1 DEF Differ
    <3>2. QED
      BY <1>1, <3>1 DEF BreaksFrom
  <2>2. c \in hurt <=> (c.breaking \/ c.type = "removed")
    OBVIOUS
  <2>3. c.breaking <=> BreaksFrom(old, new, c.symbol)
    BY <1>1
  <2>4. QED
    BY <2>1, <2>2, <2>3, Zenon
<1>7. \A c \in hurt : c \in C
  OBVIOUS
<1>8. path = {ActionOf(c, changes, alike) : c \in hurt}
  BY Zenon DEF PathOf
<1>9. \A c : ActionOf(c, changes, alike).symbol = c.symbol
  BY DEF ActionOf
<1>10. \A c \in C : ActionOf(c, changes, alike).replacement
                        = {s \in DOMAIN new \ DOMAIN old : c.symbol \notin DOMAIN new /\ <<c.symbol, s>> \in alike}
  <2> TAKE c \in C
  <2> DEFINE E == {e \in C : c.type = "removed" /\ e.type = "added" /\ <<c.symbol, e.symbol>> \in alike}
             N == {s \in DOMAIN new \ DOMAIN old : c.symbol \notin DOMAIN new /\ <<c.symbol, s>> \in alike}
  <2>1. ActionOf(c, changes, alike).replacement = {d.symbol : d \in E}
    BY DEF ActionOf
  <2>2. c.type = "removed" <=> c.symbol \notin DOMAIN new
    BY <1>1
  <2>3. \A e \in C : e.type = "added" <=> e.symbol \notin DOMAIN old
    BY <1>1
  <2>4. \A e \in C : e.symbol \in DOMAIN old \/ e.symbol \in DOMAIN new
    BY <1>1 DEF Differ
  <2> HIDE DEF C
  <2>5. \A e \in E : e.symbol \in N
    BY <2>2, <2>3, <2>4
  <2>6. \A s \in N : \E e \in E : e.symbol = s
    <3> TAKE s \in N
    <3>1. PICK e \in C : e.symbol = s
      BY <1>2, <1>4
    <3>2. QED
      BY <2>2, <2>3, <3>1
  <2> HIDE DEF E, N
  <2>7. {d.symbol : d \in E} = N
    BY <2>5, <2>6
  <2>8. QED
    BY <2>1, <2>7 DEF N
<1> HIDE DEF C, hurt, path
<1>11. \A a \in path : \E c \in hurt : a = ActionOf(c, changes, alike) /\ a.symbol = c.symbol
  BY <1>8, <1>9
<1>12. \A c \in hurt : \E a \in path : a.symbol = c.symbol
  BY <1>8, <1>9
<1>13. {a.symbol : a \in path} = {s \in Symbols : BreaksFrom(old, new, s)}
  <2>1. \A a \in path : a.symbol \in Symbols /\ BreaksFrom(old, new, a.symbol)
    BY <1>1, <1>3, <1>6, <1>7, <1>11
  <2>2. \A s : BreaksFrom(old, new, s) => \E a \in path : a.symbol = s
    BY <1>2, <1>5, <1>6, <1>12
  <2>3. QED
    BY <2>1, <2>2
<1>14. \A a \in path : a.replacement = {s \in DOMAIN new \ DOMAIN old :
                                            a.symbol \notin DOMAIN new /\ <<a.symbol, s>> \in alike}
  BY <1>7, <1>10, <1>11
<1>15. QED
  BY <1>13, <1>14 DEF path
-----------------------------------------------------------------------------
(* The invariant of a diff. *)

DiffRec(pc, old, new, alike, limit, at, changes, added, removed, changed, breaking, vague, actions,
        truncated, confidence) ==
    [pc |-> pc, old |-> old, new |-> new, alike |-> alike, limit |-> limit, at |-> at, changes |-> changes,
     added |-> added, removed |-> removed, changed |-> changed, breaking |-> breaking, vague |-> vague,
     actions |-> actions, truncated |-> truncated, confidence |-> confidence]

\* The symbols a loop has been at.
SeenBy(pc, at, old, new) ==
    {s \in Differ(old, new) : IF s \in DOMAIN old THEN pc = "old" => s < at ELSE pc = "new" /\ s < at}

LoopInv ==
    /\ diff.at \in 1..(MaxSymbol + 1)
    /\ Told(diff.old, diff.new, SeenBy(diff.pc, diff.at, diff.old, diff.new),
            diff.changes, diff.removed, diff.added, diff.breaking)

CutInv ==
    /\ diff.truncated \/ ToSet(diff.changes) = ChangesOf(diff.old, diff.new, Differ(diff.old, diff.new))
    /\ (\E i \in DOMAIN diff.changes : diff.changes[i].type = "added") =>
           \A s \in Symbols : BreaksFrom(diff.old, diff.new, s) =>
               \E j \in DOMAIN diff.changes : diff.changes[j].symbol = s
    /\ diff.removed = Cardinality(DOMAIN diff.old \ DOMAIN diff.new)
    /\ diff.added = Cardinality(DOMAIN diff.new \ DOMAIN diff.old)
    /\ diff.breaking <=> \E s \in Symbols : BreaksFrom(diff.old, diff.new, s)

PathInv ==
    /\ diff.actions = PathOf(diff.changes, diff.alike)
    /\ diff.confidence = "high" => ~ diff.truncated

DiffInv ==
    /\ diff = DiffRec(diff.pc, diff.old, diff.new, diff.alike, diff.limit, diff.at, diff.changes, diff.added,
                      diff.removed, diff.changed, diff.breaking, diff.vague, diff.actions, diff.truncated,
                      diff.confidence)
    /\ diff.pc \in {"old", "new", "cut", "done"}
    /\ TwoVersions(diff.old, diff.new) /\ diff.limit \in Nat
    /\ diff.pc \in {"old", "new"} => LoopInv
    /\ diff.pc \in {"cut", "done"} => CutInv
    /\ diff.pc = "done" => PathInv

\* One more symbol: nothing to tell of it, or its change.
LEMMA SeenNext ==
    ASSUME NEW old, NEW new, TwoVersions(old, new), NEW pc \in {"old", "new"}, NEW at \in Symbols
    PROVE  LET S == SeenBy(pc, at, old, new)
               mine == at \in Differ(old, new) /\ (pc = "old" <=> at \in DOMAIN old)
           IN  /\ S \in SUBSET Differ(old, new)
               /\ ~ mine => SeenBy(pc, at + 1, old, new) = S
               /\ mine => SeenBy(pc, at + 1, old, new) = S \cup {at} /\ at \notin S
<1>1. Differ(old, new) \subseteq Symbols
  BY DEF Differ, TwoVersions
<1>2. \A s \in Symbols : s < at + 1 <=> (s < at \/ s = at)
  BY DiffBounds DEF Symbols
<1>3. ~ (at < at)
  BY DiffBounds DEF Symbols
<1>4. QED
  BY <1>1, <1>2, <1>3 DEF SeenBy

\* Behind the last symbol of the old version every old one is seen, and behind that of
\* the new version every symbol that differs.
LEMMA SeenAll ==
    ASSUME NEW old, NEW new, TwoVersions(old, new), NEW at \in 1..(MaxSymbol + 1), at \notin Symbols
    PROVE  /\ SeenBy("old", 1, old, new) = {}
           /\ SeenBy("new", 1, old, new) = SeenBy("old", at, old, new)
           /\ SeenBy("new", at, old, new) = Differ(old, new)
<1>1. Differ(old, new) \subseteq Symbols
  BY DEF Differ, TwoVersions
<1>2. \A s \in Symbols : s < at /\ ~ (s < 1)
  BY DiffBounds DEF Symbols
<1>3. QED
  BY <1>1, <1>2 DEF SeenBy

\* A diff starts before the first symbol.
LEMMA DiffStarts == DiffInit => DiffInv
<1> SUFFICES ASSUME DiffInit
             PROVE  DiffInv
  OBVIOUS
<1>1. PICK tables \in SymbolTables, limit \in DiffLimits, alike \in SUBSET Renames :
        diff = [pc |-> "old", old |-> Snapshot(tables[1]), new |-> Snapshot(tables[2]), alike |-> alike,
                limit |-> limit, at |-> 1, changes |-> <<>>,
                added |-> 0, removed |-> 0, changed |-> 0, breaking |-> FALSE, vague |-> 0,
                actions |-> {}, truncated |-> FALSE, confidence |-> "none"]
  BY DEF DiffInit, BeginDiff
<1> DEFINE old == Snapshot(tables[1])
           new == Snapshot(tables[2])
<1>2. tables[1] \in [Symbols -> Seq(SymbolRow)] /\ tables[2] \in [Symbols -> Seq(SymbolRow)]
  BY DiffBounds
<1>3. TwoVersions(old, new)
  BY <1>2, SnapshotTyped DEF TwoVersions
<1>4. limit \in Nat
  BY DiffBounds
<1> HIDE DEF old, new
<1>5. diff = DiffRec("old", old, new, alike, limit, 1, <<>>, 0, 0, 0, FALSE, 0, {}, FALSE, "none")
  BY <1>1 DEF DiffRec, old, new
<1>6. /\ diff.pc = "old" /\ diff.old = old /\ diff.new = new /\ diff.alike = alike /\ diff.limit = limit
      /\ diff.at = 1 /\ diff.changes = <<>> /\ diff.added = 0 /\ diff.removed = 0 /\ diff.changed = 0
      /\ diff.breaking = FALSE /\ diff.vague = 0 /\ diff.actions = {} /\ diff.truncated = FALSE
      /\ diff.confidence = "none"
  BY <1>5 DEF DiffRec
<1>7. 1 \in 1..(MaxSymbol + 1)
  BY DiffBounds
<1>8. SeenBy("old", 1, old, new) = {}
  <2>1. MaxSymbol + 1 \in 1..(MaxSymbol + 1) /\ MaxSymbol + 1 \notin Symbols
    BY DiffBounds DEF Symbols
  <2>2. QED
    BY <1>3, <2>1, SeenAll
<1>9. LoopInv
  <2>1. Told(old, new, {}, <<>>, 0, 0, FALSE)
    BY NothingTold
  <2>2. QED
    BY <1>6, <1>7, <1>8, <2>1, Zenon DEF LoopInv
<1>10. diff = DiffRec(diff.pc, diff.old, diff.new, diff.alike, diff.limit, diff.at, diff.changes, diff.added,
                      diff.removed, diff.changed, diff.breaking, diff.vague, diff.actions, diff.truncated,
                      diff.confidence)
  BY <1>5, <1>6, Zenon
<1>11. diff.pc \in {"old", "new", "cut", "done"} /\ diff.pc # "cut" /\ diff.pc # "done"
  BY <1>6
<1>12. TwoVersions(diff.old, diff.new) /\ diff.limit \in Nat
  BY <1>3, <1>4, <1>6
<1>13. QED
  BY <1>9, <1>10, <1>11, <1>12, Zenon DEF DiffInv

\* A step of a loop that changes what is told and the place, no more.
LEMMA LoopStep ==
    \A at, changes, removed, added, changed, breaking, vague :
        /\ DiffInv /\ diff.pc \in {"old", "new"}
        /\ diff' = DiffRec(diff.pc, diff.old, diff.new, diff.alike, diff.limit, at, changes, added, removed,
                           changed, breaking, vague, diff.actions, diff.truncated, diff.confidence)
        /\ at \in 1..(MaxSymbol + 1)
        /\ Told(diff.old, diff.new, SeenBy(diff.pc, at, diff.old, diff.new), changes, removed, added, breaking)
        => DiffInv'
<1> SUFFICES ASSUME NEW at, NEW changes, NEW removed, NEW added, NEW changed, NEW breaking, NEW vague,
                    DiffInv, diff.pc \in {"old", "new"},
                    diff' = DiffRec(diff.pc, diff.old, diff.new, diff.alike, diff.limit, at, changes, added,
                                    removed, changed, breaking, vague, diff.actions, diff.truncated,
                                    diff.confidence),
                    at \in 1..(MaxSymbol + 1),
                    Told(diff.old, diff.new, SeenBy(diff.pc, at, diff.old, diff.new), changes, removed, added,
                         breaking)
             PROVE  DiffInv'
  OBVIOUS
<1>1. /\ diff'.pc = diff.pc /\ diff'.old = diff.old /\ diff'.new = diff.new /\ diff'.alike = diff.alike
      /\ diff'.limit = diff.limit /\ diff'.at = at /\ diff'.changes = changes /\ diff'.added = added
      /\ diff'.removed = removed /\ diff'.changed = changed /\ diff'.breaking = breaking
      /\ diff'.vague = vague /\ diff'.actions = diff.actions /\ diff'.truncated = diff.truncated
      /\ diff'.confidence = diff.confidence
  BY DEF DiffRec
<1>2. LoopInv'
  BY <1>1, Zenon DEF LoopInv
<1>3. diff' = DiffRec(diff'.pc, diff'.old, diff'.new, diff'.alike, diff'.limit, diff'.at, diff'.changes,
                      diff'.added, diff'.removed, diff'.changed, diff'.breaking, diff'.vague, diff'.actions,
                      diff'.truncated, diff'.confidence)
  BY <1>1, Zenon
<1>4. diff'.pc \in {"old", "new", "cut", "done"} /\ diff'.pc # "cut" /\ diff'.pc # "done"
  BY <1>1
<1>5. TwoVersions(diff'.old, diff'.new) /\ diff'.limit \in Nat
  BY <1>1, Zenon DEF DiffInv
<1>6. QED
  BY <1>2, <1>3, <1>4, <1>5, Zenon DEF DiffInv

\* Comparing one symbol of the old version with the new one keeps DiffInv.
LEMMA DiffOldKeeps == DiffInv /\ DiffOld => DiffInv'
<1> SUFFICES ASSUME DiffInv, DiffOld
             PROVE  DiffInv'
  OBVIOUS
<1> DEFINE s == diff.at
           old == diff.old
           new == diff.new
           f == old[s]
           t == new[s]
           S == SeenBy("old", s, old, new)
           c == ChangeOf(old, new, s)
<1>1. diff.pc = "old" /\ s \in Symbols /\ s + 1 \in 1..(MaxSymbol + 1)
  BY DiffBounds DEF DiffOld, Symbols
<1>2. /\ TwoVersions(old, new)
      /\ Told(old, new, S, diff.changes, diff.removed, diff.added, diff.breaking)
  BY <1>1, Zenon DEF DiffInv, LoopInv
<1>3. diff = DiffRec(diff.pc, old, new, diff.alike, diff.limit, s, diff.changes, diff.added, diff.removed,
                     diff.changed, diff.breaking, diff.vague, diff.actions, diff.truncated, diff.confidence)
  BY Zenon DEF DiffInv
<1>4. CASE s \notin DOMAIN old \/ (s \in DOMAIN new /\ f = t)
  <2>1. diff' = [diff EXCEPT !.at = s + 1]
    BY <1>4 DEF DiffOld
  <2> HIDE DEF old, new, s
  <2>2. diff' = DiffRec(diff.pc, old, new, diff.alike, diff.limit, s + 1, diff.changes, diff.added,
                        diff.removed, diff.changed, diff.breaking, diff.vague, diff.actions,
                        diff.truncated, diff.confidence)
    BY <1>3, <2>1 DEF DiffRec
  <2>3. ~ (s \in Differ(old, new) /\ s \in DOMAIN old)
    BY <1>4 DEF Differ
  <2>4. SeenBy("old", s + 1, old, new) = S
    BY <1>1, <1>2, <2>3, SeenNext
  <2>5. Told(old, new, SeenBy(diff.pc, s + 1, old, new), diff.changes, diff.removed, diff.added, diff.breaking)
    BY <1>1, <1>2, <2>4, Zenon
  <2>6. QED
    BY <1>1, <2>2, <2>5, LoopStep DEF old, new
<1>5. CASE s \in DOMAIN old /\ ~ (s \in DOMAIN new /\ f = t)
  <2>1. s \in Differ(old, new)
    BY <1>5 DEF Differ
  <2>2. SeenBy("old", s + 1, old, new) = S \cup {s} /\ s \notin S /\ S \in SUBSET Differ(old, new)
    BY <1>1, <1>2, <1>5, <2>1, SeenNext
  <2> DEFINE changes == Append(diff.changes, c)
             added == IF s \in DOMAIN old THEN diff.added ELSE diff.added + 1
             removed == IF s \in DOMAIN new THEN diff.removed ELSE diff.removed + 1
             P(broken, changed, vague) ==
                 DiffRec(diff.pc, old, new, diff.alike, diff.limit, s + 1, changes, added, removed,
                         changed, broken, vague, diff.actions, diff.truncated, diff.confidence)
  <2>3. \A broken, changed, vague :
            /\ broken \in BOOLEAN
            /\ broken <=> (diff.breaking \/ BreaksFrom(old, new, s))
            /\ diff' = P(broken, changed, vague)
            => DiffInv'
    <3> SUFFICES ASSUME NEW broken, NEW changed, NEW vague, broken \in BOOLEAN,
                        broken <=> (diff.breaking \/ BreaksFrom(old, new, s)),
                        diff' = P(broken, changed, vague)
                 PROVE  DiffInv'
      OBVIOUS
    <3>1. Told(old, new, S \cup {s}, changes, removed, added, broken)
      <4> HIDE DEF old, new, s, S
      <4>1. s \in Differ(old, new) \ S
        BY <2>1, <2>2
      <4>2. QED
        BY <1>2, <2>2, <4>1, OneMoreTold
    <3>2. Told(old, new, SeenBy(diff.pc, s + 1, old, new), changes, removed, added, broken)
      BY <1>1, <2>2, <3>1, Zenon
    <3> HIDE DEF changes, added, removed
    <3>3. QED
      BY <1>1, <3>2, LoopStep
  <2>4. CASE s \notin DOMAIN new
    <3>1. diff' = [diff EXCEPT !.at = s + 1, !.removed = diff.removed + 1, !.breaking = TRUE,
                               !.changes = Append(diff.changes, Change(s, "removed", f, NoSymbol, TRUE))]
      BY <1>5, <2>4, <1>1 DEF DiffOld
    <3>2. c = Change(s, "removed", f, NoSymbol, TRUE)
      BY <1>5, <2>4 DEF ChangeOf
    <3>3. changes = Append(diff.changes, Change(s, "removed", f, NoSymbol, TRUE))
          /\ removed = diff.removed + 1 /\ added = diff.added
      BY <1>5, <2>4, <3>2
    <3>4. BreaksFrom(old, new, s)
      BY <1>5, <2>4 DEF BreaksFrom
    <3> DEFINE yes == TRUE
    <3> HIDE DEF old, new, s, changes, added, removed, yes
    <3>5. diff' = [diff EXCEPT !.at = s + 1, !.removed = removed, !.breaking = yes, !.changes = changes]
      BY <3>1, <3>3 DEF yes
    <3>6. diff' = P(yes, diff.changed, diff.vague)
      <4> DEFINE pc == diff.pc
                 alike == diff.alike
                 limit == diff.limit
                 chs == diff.changes
                 add == diff.added
                 rem == diff.removed
                 chd == diff.changed
                 brk == diff.breaking
                 vag == diff.vague
                 act == diff.actions
                 trunc == diff.truncated
                 conf == diff.confidence
      <4>1. diff = DiffRec(pc, old, new, alike, limit, s, chs, add, rem, chd, brk, vag, act, trunc, conf)
        BY <1>3
      <4>2. diff' = [diff EXCEPT !.at = s + 1, !.removed = removed, !.breaking = yes, !.changes = changes]
        BY <3>5
      <4>3. added = add
        BY <3>3
      <4> HIDE DEF pc, alike, limit, chs, add, rem, chd, brk, vag, act, trunc, conf
      <4>4. diff' = DiffRec(pc, old, new, alike, limit, s + 1, changes, add, removed, chd, yes, vag, act,
                            trunc, conf)
        BY <4>1, <4>2 DEF DiffRec
      <4>5. QED
        BY <4>3, <4>4 DEF pc, alike, limit, chd, vag, act, trunc, conf
    <3>7. yes \in BOOLEAN /\ (yes <=> (diff.breaking \/ BreaksFrom(old, new, s)))
      BY <3>4 DEF yes
    <3> HIDE DEF P
    <3>8. QED
      BY <2>3, <3>6, <3>7
  <2>5. CASE s \in DOMAIN new
    <3> DEFINE vague == IF f.sig = 0 \/ t.sig = 0 THEN diff.vague + 1 ELSE diff.vague
               broken == diff.breaking \/ Changed(s, f, t).breaking
    <3>1. diff' = [diff EXCEPT !.at = s + 1, !.changed = diff.changed + 1, !.vague = vague,
                               !.breaking = broken, !.changes = Append(diff.changes, Changed(s, f, t))]
      BY <1>5, <2>5, <1>1 DEF DiffOld
    <3>2. c = Changed(s, f, t)
      BY <1>5, <2>5 DEF ChangeOf
    <3>3. changes = Append(diff.changes, Changed(s, f, t)) /\ removed = diff.removed /\ added = diff.added
      BY <1>5, <2>5, <3>2
    <3>4. c.breaking <=> BreaksFrom(old, new, s)
      BY <1>2, <2>1, ChangeIs
    <3>5. broken \in BOOLEAN /\ (broken <=> (diff.breaking \/ BreaksFrom(old, new, s)))
      <4>1. broken <=> (diff.breaking \/ c.breaking)
        BY <3>2, Zenon
      <4>2. broken \in BOOLEAN
        OBVIOUS
      <4>3. QED
        BY <3>4, <4>1, <4>2, Zenon
    <3> HIDE DEF old, new, s, changes, added, removed, vague, broken
    <3>6. diff' = [diff EXCEPT !.at = s + 1, !.changed = diff.changed + 1, !.vague = vague,
                               !.breaking = broken, !.changes = changes]
      BY <3>1, <3>3, Zenon
    <3>7. diff' = P(broken, diff.changed + 1, vague)
      <4> DEFINE pc == diff.pc
                 alike == diff.alike
                 limit == diff.limit
                 chs == diff.changes
                 add == diff.added
                 rem == diff.removed
                 chd == diff.changed
                 brk == diff.breaking
                 vag == diff.vague
                 act == diff.actions
                 trunc == diff.truncated
                 conf == diff.confidence
                 more == diff.changed + 1
      <4>1. diff = DiffRec(pc, old, new, alike, limit, s, chs, add, rem, chd, brk, vag, act, trunc, conf)
        BY <1>3
      <4>2. diff' = [diff EXCEPT !.at = s + 1, !.changed = more, !.vague = vague, !.breaking = broken, !.changes = changes]
        BY <3>6
      <4>3. added = add /\ removed = rem
        BY <3>3
      <4> HIDE DEF pc, alike, limit, chs, add, rem, chd, brk, vag, act, trunc, conf, more
      <4>4. diff' = DiffRec(pc, old, new, alike, limit, s + 1, changes, add, rem, more, broken, vague, act,
                            trunc, conf)
        BY <4>1, <4>2 DEF DiffRec
      <4>5. QED
        BY <4>3, <4>4 DEF pc, alike, limit, act, trunc, conf, more
    <3> HIDE DEF P
    <3>8. QED
      BY <2>3, <3>5, <3>7
  <2>6. QED
    BY <2>4, <2>5
<1>6. QED
  BY <1>4, <1>5

\* So does looking for one symbol of the new version in the old one.
LEMMA DiffNewKeeps == DiffInv /\ DiffNew => DiffInv'
<1> SUFFICES ASSUME DiffInv, DiffNew
             PROVE  DiffInv'
  OBVIOUS
<1> DEFINE s == diff.at
           old == diff.old
           new == diff.new
           pc == diff.pc
           alike == diff.alike
           limit == diff.limit
           chs == diff.changes
           add == diff.added
           rem == diff.removed
           chd == diff.changed
           brk == diff.breaking
           vag == diff.vague
           act == diff.actions
           trunc == diff.truncated
           conf == diff.confidence
           S == SeenBy("new", s, old, new)
           c == ChangeOf(old, new, s)
           changes == Append(chs, c)
           added == add + 1
<1>1. pc = "new" /\ s \in Symbols /\ s + 1 \in 1..(MaxSymbol + 1)
  BY DiffBounds DEF DiffNew, Symbols
<1>2. TwoVersions(old, new) /\ Told(old, new, S, chs, rem, add, brk)
  BY <1>1, Zenon DEF DiffInv, LoopInv
<1>3. diff = DiffRec(pc, old, new, alike, limit, s, chs, add, rem, chd, brk, vag, act, trunc, conf)
  BY Zenon DEF DiffInv
<1>4. CASE s \notin DOMAIN new \ DOMAIN old
  <2>1. diff' = [diff EXCEPT !.at = s + 1]
    BY <1>4 DEF DiffNew
  <2> HIDE DEF old, new, s, pc, alike, limit, chs, add, rem, chd, brk, vag, act, trunc, conf
  <2>2. diff' = DiffRec(pc, old, new, alike, limit, s + 1, chs, add, rem, chd, brk, vag, act, trunc, conf)
    BY <1>3, <2>1 DEF DiffRec
  <2>3. ~ (s \in Differ(old, new) /\ s \notin DOMAIN old)
    BY <1>4 DEF Differ
  <2>4. SeenBy("new", s + 1, old, new) = S
    BY <1>1, <1>2, <2>3, SeenNext
  <2>5. Told(old, new, SeenBy(pc, s + 1, old, new), chs, rem, add, brk)
    BY <1>1, <1>2, <2>4, Zenon
  <2>6. QED
    BY <1>1, <2>2, <2>5, LoopStep
       DEF old, new, s, pc, alike, limit, chs, add, rem, chd, brk, vag, act, trunc, conf
<1>5. CASE s \in DOMAIN new \ DOMAIN old
  <2>1. diff' = [diff EXCEPT !.at = s + 1, !.added = added,
                             !.changes = Append(chs, Change(s, "added", NoSymbol, new[s], FALSE))]
    BY <1>5 DEF DiffNew
  <2>2. c = Change(s, "added", NoSymbol, new[s], FALSE)
    BY <1>5 DEF ChangeOf
  <2>3. diff' = [diff EXCEPT !.at = s + 1, !.added = added, !.changes = changes]
    BY <2>1, <2>2
  <2>4. s \in Differ(old, new)
    BY <1>5 DEF Differ
  <2> HIDE DEF old, new, s, pc, alike, limit, chs, add, rem, chd, brk, vag, act, trunc, conf
  <2>5. SeenBy("new", s + 1, old, new) = S \cup {s} /\ s \notin S /\ S \in SUBSET Differ(old, new)
    BY <1>1, <1>2, <1>5, <2>4, SeenNext
  <2>6. ~ BreaksFrom(old, new, s)
    BY <1>5 DEF BreaksFrom
  <2>7. brk \in BOOLEAN /\ (brk <=> (brk \/ BreaksFrom(old, new, s)))
    BY <1>2, <2>6, Zenon DEF Told
  <2>8. Told(old, new, S \cup {s}, changes, IF s \in DOMAIN new THEN rem ELSE rem + 1,
             IF s \in DOMAIN old THEN add ELSE add + 1, brk)
    <3>1. s \in Differ(old, new) \ S
      BY <2>4, <2>5
    <3> HIDE DEF S
    <3>2. QED
      BY <1>2, <2>5, <2>7, <3>1, OneMoreTold
  <2>9. Told(old, new, S \cup {s}, changes, rem, added, brk)
    BY <1>5, <2>8
  <2>10. Told(old, new, SeenBy(pc, s + 1, old, new), changes, rem, added, brk)
    BY <1>1, <2>5, <2>9, Zenon
  <2> HIDE DEF changes, added
  <2>11. diff' = DiffRec(pc, old, new, alike, limit, s + 1, changes, added, rem, chd, brk, vag, act, trunc, conf)
    BY <1>3, <2>3 DEF DiffRec
  <2>12. QED
    BY <1>1, <2>10, <2>11, LoopStep
       DEF old, new, s, pc, alike, limit, chs, add, rem, chd, brk, vag, act, trunc, conf
<1>6. QED
  BY <1>4, <1>5

\* So does turning to the new version.
LEMMA OldDoneKeeps == DiffInv /\ OldDone => DiffInv'
<1> SUFFICES ASSUME DiffInv, OldDone
             PROVE  DiffInv'
  OBVIOUS
<1> DEFINE s == diff.at
           old == diff.old
           new == diff.new
           alike == diff.alike
           limit == diff.limit
           chs == diff.changes
           add == diff.added
           rem == diff.removed
           chd == diff.changed
           brk == diff.breaking
           vag == diff.vague
           act == diff.actions
           trunc == diff.truncated
           conf == diff.confidence
<1>1. diff.pc = "old" /\ s \notin Symbols /\ diff' = [diff EXCEPT !.pc = "new", !.at = 1]
  BY DEF OldDone
<1>2. /\ TwoVersions(old, new) /\ limit \in Nat /\ s \in 1..(MaxSymbol + 1)
      /\ Told(old, new, SeenBy("old", s, old, new), chs, rem, add, brk)
  BY <1>1, Zenon DEF DiffInv, LoopInv
<1>3. diff = DiffRec(diff.pc, old, new, alike, limit, s, chs, add, rem, chd, brk, vag, act, trunc, conf)
  BY Zenon DEF DiffInv
<1> HIDE DEF old, new, s, alike, limit, chs, add, rem, chd, brk, vag, act, trunc, conf
<1>4. diff' = DiffRec("new", old, new, alike, limit, 1, chs, add, rem, chd, brk, vag, act, trunc, conf)
  <2> DEFINE pc == diff.pc
  <2>1. diff' = [diff EXCEPT !.pc = "new", !.at = 1]
    BY <1>1
  <2>2. diff = DiffRec(pc, old, new, alike, limit, s, chs, add, rem, chd, brk, vag, act, trunc, conf)
    BY <1>3
  <2> HIDE DEF pc
  <2>3. QED
    BY <2>1, <2>2 DEF DiffRec
<1>5. Told(old, new, SeenBy("new", 1, old, new), chs, rem, add, brk)
  BY <1>1, <1>2, SeenAll
<1>6. /\ diff'.pc = "new" /\ diff'.old = old /\ diff'.new = new /\ diff'.alike = alike /\ diff'.limit = limit
      /\ diff'.at = 1 /\ diff'.changes = chs /\ diff'.added = add /\ diff'.removed = rem
      /\ diff'.changed = chd /\ diff'.breaking = brk /\ diff'.vague = vag /\ diff'.actions = act
      /\ diff'.truncated = trunc /\ diff'.confidence = conf
  BY <1>4 DEF DiffRec
<1>7. 1 \in 1..(MaxSymbol + 1)
  BY DiffBounds
<1>8. LoopInv'
  BY <1>5, <1>6, <1>7, Zenon DEF LoopInv
<1>9. diff' = DiffRec(diff'.pc, diff'.old, diff'.new, diff'.alike, diff'.limit, diff'.at, diff'.changes,
                      diff'.added, diff'.removed, diff'.changed, diff'.breaking, diff'.vague, diff'.actions,
                      diff'.truncated, diff'.confidence)
  BY <1>4, <1>6, Zenon
<1>10. diff'.pc \in {"old", "new", "cut", "done"} /\ diff'.pc # "cut" /\ diff'.pc # "done"
  BY <1>6
<1>11. TwoVersions(diff'.old, diff'.new) /\ diff'.limit \in Nat
  BY <1>2, <1>6, Zenon
<1>12. QED
  BY <1>8, <1>9, <1>10, <1>11, Zenon DEF DiffInv

\* So does sorting the changes and cutting them at the limit.
LEMMA CutKeepsInv == DiffInv /\ CutChanges => DiffInv'
<1> SUFFICES ASSUME DiffInv, CutChanges
             PROVE  DiffInv'
  OBVIOUS
<1> DEFINE s == diff.at
           old == diff.old
           new == diff.new
           alike == diff.alike
           limit == diff.limit
           chs == diff.changes
           add == diff.added
           rem == diff.removed
           chd == diff.changed
           brk == diff.breaking
           vag == diff.vague
           act == diff.actions
           trunc == diff.truncated
           conf == diff.confidence
           cut == SubSeq(Sorted(chs), 1, Min({limit, Len(chs)}))
           short == Len(chs) > limit
           sure == CASE old = <<>> \/ new = <<>> -> "low"
                     [] old # <<>> /\ new # <<>> /\ vag > 0 -> "medium"
                     [] OTHER -> "high"
<1>1. /\ diff.pc = "new" /\ s \notin Symbols
      /\ diff' = [diff EXCEPT !.pc = "cut", !.changes = cut, !.truncated = short, !.confidence = sure]
  BY DEF CutChanges
<1>2. /\ TwoVersions(old, new) /\ limit \in Nat /\ s \in 1..(MaxSymbol + 1)
      /\ Told(old, new, SeenBy("new", s, old, new), chs, rem, add, brk)
  BY <1>1, Zenon DEF DiffInv, LoopInv
<1>3. diff = DiffRec(diff.pc, old, new, alike, limit, s, chs, add, rem, chd, brk, vag, act, trunc, conf)
  BY Zenon DEF DiffInv
<1> HIDE DEF old, new, s, alike, limit, chs, add, rem, chd, brk, vag, act, trunc, conf, cut, short, sure
<1>4. diff' = DiffRec("cut", old, new, alike, limit, s, cut, add, rem, chd, brk, vag, act, short, sure)
  <2> DEFINE pc == diff.pc
  <2>1. diff' = [diff EXCEPT !.pc = "cut", !.changes = cut, !.truncated = short, !.confidence = sure]
    BY <1>1
  <2>2. diff = DiffRec(pc, old, new, alike, limit, s, chs, add, rem, chd, brk, vag, act, trunc, conf)
    BY <1>3
  <2> HIDE DEF pc
  <2>3. QED
    BY <2>1, <2>2 DEF DiffRec
<1>5. Told(old, new, Differ(old, new), chs, rem, add, brk)
  BY <1>1, <1>2, SeenAll
<1>6. /\ diff'.pc = "cut" /\ diff'.old = old /\ diff'.new = new /\ diff'.alike = alike /\ diff'.limit = limit
      /\ diff'.at = s /\ diff'.changes = cut /\ diff'.added = add /\ diff'.removed = rem
      /\ diff'.changed = chd /\ diff'.breaking = brk /\ diff'.vague = vag /\ diff'.actions = act
      /\ diff'.truncated = short /\ diff'.confidence = sure
  BY <1>4 DEF DiffRec
<1>7. /\ chs \in Seq(ChangeRecords) /\ Len(chs) = Cardinality(ToSet(chs))
      /\ ToSet(chs) = ChangesOf(old, new, Differ(old, new))
  BY <1>5, Zenon DEF Told
<1>8. /\ Len(chs) <= limit => ToSet(cut) = ToSet(chs)
      /\ (\E i \in DOMAIN cut : cut[i].type = "added") =>
             \A r \in Symbols : BreaksFrom(old, new, r) => \E j \in DOMAIN cut : cut[j].symbol = r
  <2>1. TwoVersions(old, new) /\ limit \in Nat
    BY <1>2
  <2>2. Keeps(old, new, chs, limit, CutOf(chs, limit))
    BY <1>7, <2>1, CutKeeps
  <2>3. CutOf(chs, limit) = cut
    BY Zenon DEF CutOf, cut
  <2>4. QED
    BY <2>2, <2>3, Zenon DEF Keeps
<1>9. short \/ ToSet(cut) = ChangesOf(old, new, Differ(old, new))
  <2>1. Len(chs) \in Nat
    BY <1>7, LenProperties
  <2>2. ~ (Len(chs) > limit) => Len(chs) <= limit
    BY <1>2, <2>1
  <2>3. QED
    BY <1>7, <1>8, <2>2, Zenon DEF short
<1>10. Differ(old, new) \ DOMAIN new = DOMAIN old \ DOMAIN new
       /\ Differ(old, new) \ DOMAIN old = DOMAIN new \ DOMAIN old
  BY DEF Differ
<1>11. rem = Cardinality(DOMAIN old \ DOMAIN new) /\ add = Cardinality(DOMAIN new \ DOMAIN old)
  BY <1>5, <1>10, Zenon DEF Told
<1>12. brk <=> \E r \in Symbols : BreaksFrom(old, new, r)
  <2>1. brk <=> \E r \in Differ(old, new) : BreaksFrom(old, new, r)
    BY <1>5, Zenon DEF Told
  <2>2. Differ(old, new) \subseteq Symbols
    BY <1>2 DEF Differ, TwoVersions
  <2>3. \A r : BreaksFrom(old, new, r) => r \in Differ(old, new)
    BY BreaksDiffer
  <2>4. (\E r \in Differ(old, new) : BreaksFrom(old, new, r)) <=> (\E r \in Symbols : BreaksFrom(old, new, r))
    BY <2>2, <2>3
  <2>5. QED
    BY <2>1, <2>4, Zenon
<1>13. CutInv'
  BY <1>6, <1>8, <1>9, <1>11, <1>12, Zenon DEF CutInv
<1>14. diff' = DiffRec(diff'.pc, diff'.old, diff'.new, diff'.alike, diff'.limit, diff'.at, diff'.changes,
                      diff'.added, diff'.removed, diff'.changed, diff'.breaking, diff'.vague, diff'.actions,
                      diff'.truncated, diff'.confidence)
  BY <1>4, <1>6, Zenon
<1>15. diff'.pc \in {"old", "new", "cut", "done"} /\ diff'.pc \notin {"old", "new"} /\ diff'.pc # "done"
  BY <1>6
<1>16. TwoVersions(diff'.old, diff'.new) /\ diff'.limit \in Nat
  BY <1>2, <1>6, Zenon
<1>17. QED
  BY <1>13, <1>14, <1>15, <1>16, Zenon DEF DiffInv

\* So does choosing the steps of the migration path.
LEMMA PathKeepsInv == DiffInv /\ MigrationPath => DiffInv'
<1> SUFFICES ASSUME DiffInv, MigrationPath
             PROVE  DiffInv'
  OBVIOUS
<1> DEFINE s == diff.at
           old == diff.old
           new == diff.new
           alike == diff.alike
           limit == diff.limit
           chs == diff.changes
           add == diff.added
           rem == diff.removed
           chd == diff.changed
           brk == diff.breaking
           vag == diff.vague
           act == diff.actions
           trunc == diff.truncated
           conf == diff.confidence
           path == PathOf(chs, alike)
           sure == IF trunc THEN "medium" ELSE "high"
<1>1. /\ diff.pc = "cut"
      /\ diff' = [diff EXCEPT !.pc = "done", !.actions = path, !.confidence = sure]
  BY DEF MigrationPath, PathOf, ActionOf, Replacement
<1>2. TwoVersions(old, new) /\ limit \in Nat /\ CutInv
  BY <1>1, Zenon DEF DiffInv
<1>3. diff = DiffRec(diff.pc, old, new, alike, limit, s, chs, add, rem, chd, brk, vag, act, trunc, conf)
  BY Zenon DEF DiffInv
<1>4. sure = "high" => ~ trunc
  OBVIOUS
<1> HIDE DEF old, new, s, alike, limit, chs, add, rem, chd, brk, vag, act, trunc, conf, path, sure
<1>5. diff' = DiffRec("done", old, new, alike, limit, s, chs, add, rem, chd, brk, vag, path, trunc, sure)
  <2> DEFINE pc == diff.pc
  <2>1. diff' = [diff EXCEPT !.pc = "done", !.actions = path, !.confidence = sure]
    BY <1>1
  <2>2. diff = DiffRec(pc, old, new, alike, limit, s, chs, add, rem, chd, brk, vag, act, trunc, conf)
    BY <1>3
  <2> HIDE DEF pc
  <2>3. QED
    BY <2>1, <2>2 DEF DiffRec
<1>6. /\ diff'.pc = "done" /\ diff'.old = old /\ diff'.new = new /\ diff'.alike = alike /\ diff'.limit = limit
      /\ diff'.at = s /\ diff'.changes = chs /\ diff'.added = add /\ diff'.removed = rem
      /\ diff'.changed = chd /\ diff'.breaking = brk /\ diff'.vague = vag /\ diff'.actions = path
      /\ diff'.truncated = trunc /\ diff'.confidence = sure
  BY <1>5 DEF DiffRec
<1>7. CutInv'
  BY <1>2, <1>6, Zenon DEF CutInv, old, new, chs, add, rem, brk, trunc
<1>8. PathInv'
  BY <1>4, <1>6, Zenon DEF PathInv, path
<1>9. diff' = DiffRec(diff'.pc, diff'.old, diff'.new, diff'.alike, diff'.limit, diff'.at, diff'.changes,
                      diff'.added, diff'.removed, diff'.changed, diff'.breaking, diff'.vague, diff'.actions,
                      diff'.truncated, diff'.confidence)
  BY <1>5, <1>6, Zenon
<1>10. diff'.pc \in {"old", "new", "cut", "done"} /\ diff'.pc \notin {"old", "new"}
  BY <1>6
<1>11. TwoVersions(diff'.old, diff'.new) /\ diff'.limit \in Nat
  BY <1>2, <1>6, Zenon
<1>12. QED
  BY <1>7, <1>8, <1>9, <1>10, <1>11, Zenon DEF DiffInv

\* Every step of a diff keeps DiffInv.
LEMMA DiffGoesOn == DiffInv /\ [DiffNext]_diffVars => DiffInv'
<1> SUFFICES ASSUME DiffInv, [DiffNext]_diffVars
             PROVE  DiffInv'
  OBVIOUS
<1>1. CASE UNCHANGED diffVars
  BY <1>1 DEF diffVars, DiffInv, LoopInv, CutInv, PathInv
<1>2. CASE DiffOld
  BY <1>2, DiffOldKeeps
<1>3. CASE OldDone
  BY <1>3, OldDoneKeeps
<1>4. CASE DiffNew
  BY <1>4, DiffNewKeeps
<1>5. CASE CutChanges
  BY <1>5, CutKeepsInv
<1>6. CASE MigrationPath
  BY <1>6, PathKeepsInv
<1>7. QED
  BY <1>1, <1>2, <1>3, <1>4, <1>5, <1>6 DEF DiffNext

\* DiffInv says of an answer what DiffFaithful says.
LEMMA DiffAtEnd == DiffInv => DiffFaithful
<1> SUFFICES ASSUME DiffInv
             PROVE  DiffFaithful
  OBVIOUS
<1> DEFINE old == diff.old
           new == diff.new
           chs == diff.changes
           act == diff.actions
           all == ChangesOf(old, new, Differ(old, new))
<1>1. TwoVersions(old, new)
  BY Zenon DEF DiffInv
<1>2. \A r : Breaks(r) <=> BreaksFrom(old, new, r)
  BY DEF Breaks, BreaksFrom
<1>3. ASSUME diff.pc \in {"cut", "done"}
      PROVE  /\ diff.truncated \/ Patched(old, chs) = new
             /\ (\E i \in DOMAIN chs : chs[i].type = "added") =>
                    \A r \in Symbols : Breaks(r) => \E j \in DOMAIN chs : chs[j].symbol = r
             /\ diff.removed = Cardinality(DOMAIN old \ DOMAIN new)
             /\ diff.added = Cardinality(DOMAIN new \ DOMAIN old)
             /\ diff.breaking <=> \E r \in Symbols : Breaks(r)
  <2>1. CutInv
    BY <1>3, Zenon DEF DiffInv
  <2>2. ToSet(chs) = all => Patched(old, chs) = new
    <3> HIDE DEF old, new, chs
    <3>1. QED
      BY <1>1, PatchedIsNew
  <2>3. diff.truncated \/ ToSet(chs) = all
    BY <2>1, Zenon DEF CutInv
  <2>4. diff.truncated \/ Patched(old, chs) = new
    BY <2>2, <2>3, Zenon
  <2>5. (\E i \in DOMAIN chs : chs[i].type = "added") =>
            \A r \in Symbols : Breaks(r) => \E j \in DOMAIN chs : chs[j].symbol = r
    BY <1>2, <2>1, Zenon DEF CutInv
  <2>6. diff.breaking <=> \E r \in Symbols : Breaks(r)
    BY <1>2, <2>1, Zenon DEF CutInv
  <2>7. QED
    BY <2>1, <2>4, <2>5, <2>6, Zenon DEF CutInv
<1>4. ASSUME diff.pc = "done", diff.confidence = "high"
      PROVE  /\ {a.symbol : a \in act} = {r \in Symbols : Breaks(r)}
             /\ \A a \in act : a.replacement = {r \in DOMAIN new \ DOMAIN old :
                                                    a.symbol \notin DOMAIN new /\ <<a.symbol, r>> \in diff.alike}
  <2>1. CutInv /\ PathInv
    <3>1. diff.pc \in {"cut", "done"}
      BY <1>4
    <3>2. QED
      BY <1>4, <3>1, Zenon DEF DiffInv
  <2>2. ToSet(chs) = all /\ act = PathOf(chs, diff.alike)
    BY <1>4, <2>1, Zenon DEF CutInv, PathInv
  <2> HIDE DEF old, new, chs, act
  <2>3. /\ {a.symbol : a \in PathOf(chs, diff.alike)} = {r \in Symbols : BreaksFrom(old, new, r)}
        /\ \A a \in PathOf(chs, diff.alike) :
               a.replacement = {r \in DOMAIN new \ DOMAIN old :
                                    a.symbol \notin DOMAIN new /\ <<a.symbol, r>> \in diff.alike}
    BY <1>1, <2>2, PathComplete
  <2>4. {r \in Symbols : BreaksFrom(old, new, r)} = {r \in Symbols : Breaks(r)}
    BY <1>2
  <2>5. QED
    BY <2>2, <2>3, <2>4
<1>5. QED
  BY <1>3, <1>4, Zenon DEF DiffFaithful

\* DiffsFaithful: a diff of crate_api_diff, cut or whole, tells the truth of the two
\* versions, and a migration path of high confidence misses no symbol that breaks
\* (DiffFaithful).
THEOREM DiffsFaithful == DiffSpec => []DiffFaithful
<1>1. DiffInit => DiffInv
  BY DiffStarts
<1>2. DiffInv /\ [DiffNext]_diffVars => DiffInv'
  BY DiffGoesOn
<1>3. DiffInv => DiffFaithful
  BY DiffAtEnd
<1>4. QED
  BY <1>1, <1>2, <1>3, PTL DEF DiffSpec

-----------------------------------------------------------------------------
(* DependencyAdvice: the operators. *)

\* Partial functions of crates.
Known(T) == UNION {[S -> T] : S \in SUBSET Crates}

\* With has a value of n more ...
LEMMA WithDomain == ASSUME NEW f, NEW n, NEW x PROVE DOMAIN With(f, n, x) = DOMAIN f \cup {n}
  BY DEF With

\* ... which is x, ...
LEMMA WithNew == ASSUME NEW f, NEW n, NEW x PROVE With(f, n, x)[n] = x
  BY DEF With

\* ... and leaves the others.
LEMMA WithOld ==
    ASSUME NEW f, NEW n, NEW x, NEW m \in DOMAIN f, m # n
    PROVE  With(f, n, x)[m] = f[m]
  BY DEF With

\* With keeps to the crates.
LEMMA WithTyped ==
    ASSUME NEW T, NEW f \in Known(T), NEW n \in Crates, NEW x \in T
    PROVE  With(f, n, x) \in Known(T)
<1>1. PICK S \in SUBSET Crates : f \in [S -> T]
  BY DEF Known
<1>2. With(f, n, x) \in [S \cup {n} -> T] /\ S \cup {n} \in SUBSET Crates
  BY <1>1 DEF With
<1> QED
  BY <1>2 DEF Known

\* Of versions there is a highest.
LEMMA HighestRank ==
    ASSUME NEW T \in SUBSET Ranks, T # {}
    PROVE  \E x \in T : \A y \in T : x >= y
<1> DEFINE U == {MaxRank - x : x \in T}
<1>1. MaxRank \in Nat /\ \A x \in T : x \in Nat /\ MaxRank - x \in Nat
  BY AdviceBounds DEF Ranks
<1>2. U \in SUBSET Nat /\ U # {}
  BY <1>1
<1>3. \A z \in U : \E x \in T : z = MaxRank - x
  OBVIOUS
<1>4. \A x \in T : MaxRank - x \in U
  OBVIOUS
<1> HIDE DEF U
<1>5. PICK z \in U : \A u \in U : z <= u
  BY <1>2, LeastOf
<1>6. PICK x \in T : z = MaxRank - x
  BY <1>3
<1>7. \A y \in T : MaxRank - x <= MaxRank - y
  BY <1>4, <1>5, <1>6
<1> QED
  BY <1>1, <1>7

\* A version at least as high as every other is the maximum.
LEMMA TheMaximum ==
    ASSUME NEW T \in SUBSET Ranks, NEW x \in T, \A y \in T : x >= y
    PROVE  x = Max(T)
<1>1. \A y \in T : y \in Int
  BY DEF Ranks
<1>2. \A z \in T : (\A y \in T : z >= y) => z = x
  BY <1>1
<1> DEFINE top == CHOOSE z \in T : \A y \in T : z >= y
<1>3. top \in T /\ \A y \in T : top >= y
  OBVIOUS
<1>4. Max(T) = top
  BY DEF Max
<1> HIDE DEF top
<1> QED
  BY <1>2, <1>3, <1>4

\* The listed versions of an indexed crate are versions.
LEMMA ListedRanks ==
    ASSUME NEW index \in Indexes, NEW n \in DOMAIN index
    PROVE  /\ n \in Crates /\ index[n] \in Seq(Ranks) /\ ToSet(index[n]) \subseteq Ranks
           /\ Len(index[n]) \in Nat /\ DOMAIN index[n] = 1..Len(index[n])
           /\ index[n] # <<>> <=> 1 \in DOMAIN index[n]
<1>1. n \in Crates /\ index[n] \in Seq(Ranks)
  BY AdviceBounds
<1>2. Len(index[n]) \in Nat /\ DOMAIN index[n] = 1..Len(index[n])
      /\ \A i \in 1..Len(index[n]) : index[n][i] \in Ranks
  BY <1>1
<1>3. ToSet(index[n]) \subseteq Ranks
  BY <1>2 DEF ToSet
<1>4. index[n] # <<>> <=> Len(index[n]) # 0
  BY <1>1
<1> QED
  BY <1>1, <1>2, <1>3, <1>4

\* What is selected: a listed version that the requirement matches and none
\* higher, and something unless nothing matches or nothing is listed.
LEMMA SelectionIs ==
    ASSUME NEW index \in Indexes, NEW n \in DOMAIN index, NEW req \in Requirement
    PROVE  /\ \A v \in Selection(index[n], req) :
                  /\ v \in Ranks /\ v \in ToSet(index[n]) /\ \A r \in req : v \in r
                  /\ req # {} => v = Max(Candidates(index[n], req))
           /\ req # {} => (Selection(index[n], req) = {} <=> Candidates(index[n], req) = {})
           /\ req = {} /\ index[n] # <<>> => Selection(index[n], req) # {}
<1> DEFINE choices == index[n]
           C == Candidates(choices, req)
<1>1. ToSet(choices) \subseteq Ranks /\ (choices # <<>> <=> 1 \in DOMAIN choices)
  BY ListedRanks
<1>2. C \in SUBSET Ranks /\ C \subseteq ToSet(choices)
  BY <1>1 DEF Candidates
<1>3. \A v \in C : \A r \in req : v \in r
  <2>1. PICK r \in SUBSET Ranks : req = {} \/ req = {r}
    BY DEF Requirement
  <2>2. req = {r} => \A v \in C : v \in r
    BY DEF Candidates
  <2> HIDE DEF C
  <2> QED
    BY <2>1, <2>2
<1>4. CASE req = {}
  <2>1. Selection(choices, req) = {choices[i] : i \in {1} \cap DOMAIN choices}
    BY <1>4 DEF Selection
  <2>2. \A i \in DOMAIN choices : choices[i] \in ToSet(choices)
    BY DEF ToSet
  <2> HIDE DEF choices
  <2>3. \A v \in Selection(choices, req) : v \in ToSet(choices)
    BY <2>1, <2>2
  <2>4. choices # <<>> => Selection(choices, req) # {}
    BY <1>1, <2>1
  <2> QED
    BY <1>1, <1>4, <2>3, <2>4 DEF choices
<1>5. CASE req # {}
  <2>1. Selection(choices, req) = {v \in C : \A w \in C : v >= w}
    BY <1>5 DEF Selection
  <2> HIDE DEF C
  <2>2. C # {} => Selection(choices, req) # {}
    BY <1>2, <2>1, HighestRank
  <2>3. \A v \in Selection(choices, req) : v = Max(C)
    BY <1>2, <2>1, TheMaximum
  <2>4. C = {} => Selection(choices, req) = {}
    BY <2>1
  <2>5. \A v \in Selection(choices, req) : v \in C
    BY <2>1
  <2> HIDE DEF choices
  <2> QED
    BY <1>1, <1>2, <1>3, <1>5, <2>2, <2>3, <2>4, <2>5 DEF C, choices
<1> QED
  BY <1>4, <1>5

\* Versions can stand together exactly if no edge between them is unmatched and
\* no crate that several of them depend on is left without a version.
LEMMA StandsIff ==
    ASSUME NEW index \in Indexes, NEW edges, NEW selected \in Known(Ranks),
           \A n \in DOMAIN selected : n \in DOMAIN index /\ selected[n] \in ToSet(index[n])
    PROVE  Compatible(selected, index, edges) <=> Stands(selected, index, edges)
<1> DEFINE rows == EdgesOf(edges, selected)
           shared == Shared(rows, index)
           unmatched == {f \in rows : f.to \in DOMAIN selected /\ selected[f.to] \notin f.req}
           D == DOMAIN selected \cup shared
<1>1. /\ Unmatched(rows, selected) = {e.to : e \in unmatched}
      /\ Compatible(selected, index, edges) <=> Unmatched(rows, selected) = {} /\ Disjoint(rows, index) = {}
      /\ Stands(selected, index, edges) <=>
            \E picks \in [D -> Ranks] :
                /\ \A n \in DOMAIN selected : picks[n] = selected[n]
                /\ \A n \in shared : picks[n] \in ToSet(index[n])
                /\ \A e \in rows : e.to \in DOMAIN picks => picks[e.to] \in e.req
  BY DEF Compatible, Stands, Unmatched
<1>2. Disjoint(rows, index) = {c \in shared : \A v \in ToSet(index[c]) : \E e \in rows : e.to = c /\ v \notin e.req}
  BY DEF Disjoint
<1>3. shared \subseteq DOMAIN index
  BY DEF Shared
<1>4. \A n \in DOMAIN selected : selected[n] \in Ranks
  BY DEF Known
<1>5. \A n \in DOMAIN index : ToSet(index[n]) \subseteq Ranks
  BY ListedRanks
<1> HIDE DEF rows, shared, D
<1>6. ASSUME Stands(selected, index, edges) PROVE Compatible(selected, index, edges)
  <2>1. PICK picks \in [D -> Ranks] :
                /\ \A n \in DOMAIN selected : picks[n] = selected[n]
                /\ \A n \in shared : picks[n] \in ToSet(index[n])
                /\ \A e \in rows : e.to \in D => picks[e.to] \in e.req
    BY <1>1, <1>6
  <2>2. Unmatched(rows, selected) = {}
    BY <1>1, <2>1 DEF D
  <2>3. ASSUME NEW c \in shared PROVE c \notin Disjoint(rows, index)
    <3>1. picks[c] \in ToSet(index[c]) /\ \A e \in rows : e.to = c => picks[c] \in e.req
      BY <2>1 DEF D
    <3> QED
      BY <1>2, <3>1
  <2> QED
    BY <1>1, <1>2, <2>2, <2>3
<1>7. ASSUME Compatible(selected, index, edges) PROVE Stands(selected, index, edges)
  <2>1. unmatched = {} /\ Disjoint(rows, index) = {}
    BY <1>1, <1>7
  <2>2. \A e \in rows : e.to \in DOMAIN selected => selected[e.to] \in e.req
    BY <2>1
  <2> DEFINE Common(c, v) == v \in ToSet(index[c]) /\ \A e \in rows : e.to = c => v \in e.req
             common == [c \in shared |-> CHOOSE v \in Ranks : Common(c, v)]
             picks == [n \in D |-> IF n \in DOMAIN selected THEN selected[n] ELSE common[n]]
  <2>3. ASSUME NEW c \in shared PROVE common[c] \in Ranks /\ Common(c, common[c])
    <3>1. PICK v \in ToSet(index[c]) : \A e \in rows : e.to = c => v \in e.req
      BY <1>2, <2>1
    <3>2. v \in Ranks /\ Common(c, v)
      BY <1>3, <1>5, <3>1
    <3> HIDE DEF Common
    <3> QED
      BY <3>2
  <2> HIDE DEF common
  <2>4. picks \in [D -> Ranks] /\ \A n \in DOMAIN selected : picks[n] = selected[n]
    <3>1. \A n \in D : n \in DOMAIN selected \/ n \in shared
      BY DEF D
    <3>2. \A n \in D : (IF n \in DOMAIN selected THEN selected[n] ELSE common[n]) \in Ranks
      BY <1>4, <2>3, <3>1
    <3>3. DOMAIN selected \subseteq D
      BY DEF D
    <3> QED
      BY <3>2, <3>3
  <2>5. \A n \in shared : IF n \in DOMAIN selected THEN picks[n] = selected[n] ELSE picks[n] = common[n]
    BY DEF D
  <2>6. \A n \in D : n \in DOMAIN selected \/ n \in shared
    BY DEF D
  <2> HIDE DEF picks
  <2>7. \A n \in shared : picks[n] \in ToSet(index[n])
    BY <2>3, <2>5
  <2>8. \A e \in rows : e.to \in D => picks[e.to] \in e.req
    BY <2>2, <2>3, <2>4, <2>5, <2>6
  <2>9. DOMAIN picks = D
    BY <2>4
  <2> QED
    BY <1>1, <2>4, <2>7, <2>8, <2>9
<1> QED
  BY <1>6, <1>7

-----------------------------------------------------------------------------
(* crate_compare. *)

CrateSide == [signals : Int, affected : Nat, unknown : Nat, yanked : BOOLEAN]
Points(side) == side.signals - 12 * side.affected - (IF side.yanked THEN 40 ELSE 0)
Clamp(points) == IF points < 0 THEN 0 ELSE IF points > 100 THEN 100 ELSE points

\* Of two numbers.
LEMMA MaxOfTwo ==
    ASSUME NEW a \in Int, NEW b \in Int
    PROVE  Max({a, b}) = IF a >= b THEN a ELSE b
<1> DEFINE top == CHOOSE z \in {a, b} : \A y \in {a, b} : z >= y
<1>1. \E z \in {a, b} : \A y \in {a, b} : z >= y
  OBVIOUS
<1>2. top \in {a, b} /\ \A y \in {a, b} : top >= y
  BY <1>1
<1>3. Max({a, b}) = top
  BY DEF Max
<1> HIDE DEF top
<1> QED
  BY <1>2, <1>3

\* The maintenance score: the points, kept between 0 and 100.
LEMMA ScoreIs == ASSUME NEW side \in CrateSide PROVE MaintenanceScore(side) = Clamp(Points(side))
<1> DEFINE points == Points(side)
<1>1. points \in Int
  BY DEF CrateSide, Points
<1>2. MaintenanceScore(side) = Max({0, Min({100, points})})
  BY Zenon DEF MaintenanceScore, Points
<1> HIDE DEF points
<1>3. Min({100, points}) = IF 100 <= points THEN 100 ELSE points
  BY <1>1, SmallerOfTwo
<1> DEFINE low == Min({100, points})
<1>4. low \in Int
  BY <1>1, <1>3
<1>5. MaintenanceScore(side) = Max({0, low})
  BY <1>2
<1>6. low = IF 100 <= points THEN 100 ELSE points
  BY <1>3
<1> HIDE DEF low
<1>7. Max({0, low}) = IF 0 >= low THEN 0 ELSE low
  BY <1>4, MaxOfTwo
<1>8. Max({0, low}) = Clamp(points)
  BY <1>1, <1>6, <1>7 DEF Clamp
<1> QED
  BY <1>5, <1>8 DEF points

\* More confirmed advisories never raise a score.
LEMMA ScoreFalls ==
    ASSUME NEW a \in CrateSide, NEW b \in CrateSide,
           a.signals = b.signals, a.yanked = b.yanked, a.affected <= b.affected
    PROVE  MaintenanceScore(b) <= MaintenanceScore(a) /\ MaintenanceScore(a) \in Int /\ MaintenanceScore(b) \in Int
<1>1. Points(a) \in Int /\ Points(b) \in Int /\ Points(b) <= Points(a)
  BY DEF Points, CrateSide
<1>2. \A p, q \in Int : Clamp(p) \in Int /\ (p <= q => Clamp(p) <= Clamp(q))
  BY DEF Clamp
<1>3. MaintenanceScore(a) = Clamp(Points(a)) /\ MaintenanceScore(b) = Clamp(Points(b))
  BY ScoreIs
<1> QED
  BY <1>1, <1>2, <1>3

\* The outcomes of a crate lie between its worst case and its score.
LEMMA OutcomesBetween ==
    ASSUME NEW side \in CrateSide, NEW s \in Outcomes(side)
    PROVE  /\ MaintenanceScore(WorstCase(side)) <= MaintenanceScore(s)
           /\ MaintenanceScore(s) <= MaintenanceScore(side)
           /\ {MaintenanceScore(WorstCase(side)), MaintenanceScore(s), MaintenanceScore(side)} \subseteq Int
           /\ side.unknown = 0 => s = side
<1>1. PICK k \in 0..side.unknown : s = [side EXCEPT !.affected = @ + k, !.unknown = 0]
  BY DEF Outcomes
<1>2. PICK p \in Int, q \in Nat, u \in Nat, y \in BOOLEAN :
          side = [signals |-> p, affected |-> q, unknown |-> u, yanked |-> y]
  BY DEF CrateSide
<1> DEFINE w == [signals |-> p, affected |-> q + u, unknown |-> 0, yanked |-> y]
           o == [signals |-> p, affected |-> q + k, unknown |-> 0, yanked |-> y]
<1>3. side.signals = p /\ side.affected = q /\ side.unknown = u /\ side.yanked = y
  BY <1>2
<1>4. WorstCase(side) = w
  <2>1. WorstCase(side) = [side EXCEPT !.affected = q + u, !.unknown = 0]
    BY <1>3 DEF WorstCase
  <2> QED
    BY <1>2, <2>1
<1>5. s = o
  <2>1. s = [side EXCEPT !.affected = q + k, !.unknown = 0]
    BY <1>1, <1>3
  <2> QED
    BY <1>2, <2>1
<1>6. k \in Nat /\ k <= u
  BY <1>1, <1>3
<1>7. w \in CrateSide /\ o \in CrateSide
  BY <1>6 DEF CrateSide
<1>8. /\ w.signals = p /\ w.affected = q + u /\ w.yanked = y
      /\ o.signals = p /\ o.affected = q + k /\ o.yanked = y
  OBVIOUS
<1>9. u = 0 => o = side
  BY <1>2, <1>6
<1> HIDE DEF w, o
<1>10. /\ MaintenanceScore(o) <= MaintenanceScore(side) /\ MaintenanceScore(o) \in Int
       /\ MaintenanceScore(side) \in Int
  BY <1>3, <1>6, <1>7, <1>8, ScoreFalls
<1>11. MaintenanceScore(w) <= MaintenanceScore(o) /\ MaintenanceScore(w) \in Int
  BY <1>6, <1>7, <1>8, ScoreFalls
<1> QED
  BY <1>3, <1>4, <1>5, <1>9, <1>10, <1>11

-----------------------------------------------------------------------------
(* dependency_resolve. *)

RequestEntry == [name : Crates, req : Requirement, source : Source]

\* Of the first k entries, entry i has the requirement that counts.
CountsUpTo(entries, k, i) ==
    LET rivals == {j \in 1..k : entries[j].name = entries[i].name /\ entries[j].req # {}}
        added == {j \in rivals : entries[j].source = "addition"}
    IN  /\ i \in rivals
        /\ IF i \in added THEN \A j \in added : j <= i ELSE added = {} /\ \A j \in rivals : i <= j

\* wanted is what the first k entries ask for.
MergedOk(entries, k, wanted) ==
    /\ DOMAIN wanted = {entries[i].name : i \in 1..k}
    /\ \A n \in DOMAIN wanted :
           IF wanted[n] = {} THEN \A i \in 1..k : entries[i].name = n => entries[i].req = {}
           ELSE \E i \in 1..k : /\ entries[i].name = n /\ entries[i].req = wanted[n]
                                /\ CountsUpTo(entries, k, i)
    /\ \A i \in 1..k : CountsUpTo(entries, k, i) => wanted[entries[i].name] = entries[i].req

\* One entry more.
Grown(wanted, new) ==
    IF new.name \in DOMAIN wanted /\ ~ Overrides(new, wanted[new.name]) THEN wanted
    ELSE With(wanted, new.name, new.req)

\* An entry that counts among more entries counts among fewer.
LEMMA CountsBefore ==
    ASSUME NEW entries, NEW k \in Nat, NEW j \in 1..k, CountsUpTo(entries, k + 1, j)
    PROVE  CountsUpTo(entries, k, j)
<1> DEFINE R(m) == {x \in 1..m : entries[x].name = entries[j].name /\ entries[x].req # {}}
           A(m) == {x \in R(m) : entries[x].source = "addition"}
<1>1. \A m : CountsUpTo(entries, m, j) <=>
              /\ j \in R(m)
              /\ IF j \in A(m) THEN \A x \in A(m) : x <= j ELSE A(m) = {} /\ \A x \in R(m) : j <= x
  BY Zenon DEF CountsUpTo
<1>2. R(k) \subseteq R(k + 1) /\ A(k) \subseteq A(k + 1)
  OBVIOUS
<1>3. j \in R(k + 1)
  BY <1>1
<1>4. j \in R(k) /\ (j \in A(k + 1) <=> j \in A(k))
  BY <1>3
<1> HIDE DEF R, A
<1> QED
  BY <1>1, <1>2, <1>4

\* Whether an entry counts, once there is one more.
LEMMA CountsStill ==
    ASSUME NEW entries \in Seq(RequestEntry), NEW k \in Nat, k < Len(entries),
           NEW i \in 1..k, entries[i].name # entries[k + 1].name \/ entries[k + 1].req = {}
    PROVE  CountsUpTo(entries, k + 1, i) <=> CountsUpTo(entries, k, i)
<1> DEFINE R(m) == {j \in 1..m : entries[j].name = entries[i].name /\ entries[j].req # {}}
<1>1. R(k + 1) = R(k)
  <2>1. \A j \in 1..(k + 1) : j \in 1..k \/ j = k + 1
    OBVIOUS
  <2>2. 1..k \subseteq 1..(k + 1)
    OBVIOUS
  <2> QED
    BY <2>1, <2>2
<1> QED
  BY <1>1 DEF CountsUpTo

\* What an entry changes in what is wanted.
LEMMA GrownIs ==
    ASSUME NEW wanted \in Known(Requirement), NEW new, new.name \in Crates, new.req \in Requirement
    PROVE  /\ Grown(wanted, new) \in Known(Requirement)
           /\ DOMAIN Grown(wanted, new) = DOMAIN wanted \cup {new.name}
           /\ \A m \in DOMAIN wanted : m # new.name => Grown(wanted, new)[m] = wanted[m]
           /\ Grown(wanted, new)[new.name] =
                  IF new.name \in DOMAIN wanted /\ ~ Overrides(new, wanted[new.name])
                  THEN wanted[new.name] ELSE new.req
<1>1. PICK n \in Crates, x \in Requirement : n = new.name /\ x = new.req
  OBVIOUS
<1> DEFINE f == With(wanted, n, x)
<1>2. f \in Known(Requirement) /\ DOMAIN f = DOMAIN wanted \cup {n} /\ f[n] = x
  <2>1. f \in Known(Requirement)
    BY WithTyped
  <2>2. DOMAIN f = DOMAIN wanted \cup {n}
    BY WithDomain
  <2>3. f[n] = x
    BY WithNew
  <2> QED
    BY <2>1, <2>2, <2>3
<1>6. \A m \in DOMAIN wanted : m # n => f[m] = wanted[m]
  BY WithOld
<1>3. Grown(wanted, new) = IF n \in DOMAIN wanted /\ ~ Overrides(new, wanted[n]) THEN wanted ELSE f
  BY <1>1 DEF Grown
<1> HIDE DEF f
<1>4. CASE n \in DOMAIN wanted /\ ~ Overrides(new, wanted[n])
  BY <1>1, <1>3, <1>4
<1>5. CASE ~ (n \in DOMAIN wanted /\ ~ Overrides(new, wanted[n]))
  <2>1. Grown(wanted, new) = f
    BY <1>3, <1>5
  <2> QED
    BY <1>1, <1>2, <1>5, <1>6, <2>1
<1> QED
  BY <1>4, <1>5

\* Merging one entry more keeps to the requirements that count (normalize_inputs).
LEMMA MergeGrows ==
    ASSUME NEW entries \in Seq(RequestEntry), NEW k \in Nat, k < Len(entries),
           NEW wanted \in Known(Requirement), MergedOk(entries, k, wanted)
    PROVE  /\ Grown(wanted, entries[k + 1]) \in Known(Requirement)
           /\ MergedOk(entries, k + 1, Grown(wanted, entries[k + 1]))
<1> DEFINE new == entries[k + 1]
           n == new.name
           now == Grown(wanted, new)
           names(m) == {entries[i].name : i \in 1..m}
<1>1. new \in RequestEntry /\ n \in Crates /\ new.req \in Requirement
  <2>1. k + 1 \in 1..Len(entries) /\ \A i \in 1..Len(entries) : entries[i] \in RequestEntry
    OBVIOUS
  <2>2. new \in RequestEntry
    BY <2>1
  <2> HIDE DEF new
  <2> QED
    BY <2>2 DEF RequestEntry
<1>2. 1..(k + 1) = 1..k \cup {k + 1}
  OBVIOUS
<1>3. names(k + 1) = names(k) \cup {n} /\ DOMAIN wanted = names(k)
  <2>1. DOMAIN wanted = names(k)
    BY DEF MergedOk
  <2> QED
    BY <1>2, <2>1
<1> HIDE DEF names, now
<1>4. /\ now \in Known(Requirement) /\ DOMAIN now = DOMAIN wanted \cup {n}
      /\ \A m \in DOMAIN wanted : m # n => now[m] = wanted[m]
      /\ now[n] = IF n \in DOMAIN wanted /\ ~ Overrides(new, wanted[n]) THEN wanted[n] ELSE new.req
  <2> HIDE DEF new
  <2> QED
    BY <1>1, GrownIs DEF now
<1>5. \A i \in 1..(k + 1) : entries[i] \in RequestEntry
  OBVIOUS
\* The requirement of n after the step, and the entry that counts for it.
<1>6. /\ IF now[n] = {} THEN \A i \in 1..(k + 1) : entries[i].name = n => entries[i].req = {}
         ELSE \E i \in 1..(k + 1) : /\ entries[i].name = n /\ entries[i].req = now[n]
                                    /\ CountsUpTo(entries, k + 1, i)
      /\ \A i \in 1..(k + 1) : entries[i].name = n /\ CountsUpTo(entries, k + 1, i) => now[n] = entries[i].req
  <2>1. n \in DOMAIN wanted =>
            IF wanted[n] = {} THEN \A i \in 1..k : entries[i].name = n => entries[i].req = {}
            ELSE \E i \in 1..k : /\ entries[i].name = n /\ entries[i].req = wanted[n]
                                 /\ CountsUpTo(entries, k, i)
    BY DEF MergedOk
  <2>2. \A i \in 1..k : entries[i].name = n /\ CountsUpTo(entries, k, i) => wanted[n] = entries[i].req
    BY DEF MergedOk
  <2>3. n \notin DOMAIN wanted => \A i \in 1..k : entries[i].name # n
    BY <1>3 DEF names
  <2>4. CASE new.req = {}
    <3>1. \A i \in 1..k : CountsUpTo(entries, k + 1, i) <=> CountsUpTo(entries, k, i)
      BY <2>4, CountsStill
    <3>2. ~ CountsUpTo(entries, k + 1, k + 1)
      BY <2>4 DEF CountsUpTo
    <3>3. now[n] = IF n \in DOMAIN wanted THEN wanted[n] ELSE {}
      BY <1>4, <2>4 DEF Overrides
    <3> QED
      BY <1>2, <2>1, <2>2, <2>3, <2>4, <3>1, <3>2, <3>3
  <2>5. CASE new.req # {} /\ n \in DOMAIN wanted /\ wanted[n] # {} /\ new.source # "addition"
    <3>1. now[n] = wanted[n]
      BY <1>4, <2>5 DEF Overrides
    <3>2. PICK i \in 1..k : entries[i].name = n /\ entries[i].req = wanted[n] /\ CountsUpTo(entries, k, i)
      BY <2>1, <2>5
    <3>3. CountsUpTo(entries, k + 1, i)
      BY <2>5, <3>2 DEF CountsUpTo
    <3>4. \A j \in 1..k : entries[j].name = n /\ CountsUpTo(entries, k + 1, j) => CountsUpTo(entries, k, j)
      BY CountsBefore
    <3>5. ~ CountsUpTo(entries, k + 1, k + 1)
      BY <2>5, <3>2 DEF CountsUpTo
    <3> QED
      BY <1>2, <2>2, <2>5, <3>1, <3>2, <3>3, <3>4, <3>5
  <2>6. CASE new.req # {} /\ ~ (n \in DOMAIN wanted /\ wanted[n] # {} /\ new.source # "addition")
    <3>1. now[n] = new.req
      BY <1>4, <2>6 DEF Overrides
    <3>2. new.source # "addition" => \A j \in 1..k : entries[j].name = n => entries[j].req = {}
      BY <2>1, <2>3, <2>6
    <3>3. CountsUpTo(entries, k + 1, k + 1)
      BY <1>2, <2>6, <3>2 DEF CountsUpTo
    <3>4. \A i \in 1..k : entries[i].name = n => ~ CountsUpTo(entries, k + 1, i)
      <4> SUFFICES ASSUME NEW i \in 1..k, entries[i].name = n, CountsUpTo(entries, k + 1, i)
                   PROVE  FALSE
        OBVIOUS
      <4>1. entries[i].req # {} /\ new.source = "addition"
        BY <3>2 DEF CountsUpTo
      <4>2. k + 1 \in {j \in 1..(k + 1) : entries[j].name = entries[i].name /\ entries[j].req # {}}
        BY <2>6
      <4> QED
        BY <4>1, <4>2 DEF CountsUpTo
    <3> QED
      BY <1>2, <2>6, <3>1, <3>3, <3>4
  <2> QED
    BY <2>4, <2>5, <2>6
<1>7. ASSUME NEW m \in DOMAIN now, m # n
      PROVE  IF now[m] = {} THEN \A i \in 1..(k + 1) : entries[i].name = m => entries[i].req = {}
             ELSE \E i \in 1..(k + 1) : /\ entries[i].name = m /\ entries[i].req = now[m]
                                        /\ CountsUpTo(entries, k + 1, i)
  <2>1. m \in DOMAIN wanted /\ now[m] = wanted[m]
    BY <1>4, <1>7
  <2>2. IF wanted[m] = {} THEN \A i \in 1..k : entries[i].name = m => entries[i].req = {}
        ELSE \E i \in 1..k : /\ entries[i].name = m /\ entries[i].req = wanted[m]
                             /\ CountsUpTo(entries, k, i)
    BY <2>1 DEF MergedOk
  <2>3. \A i \in 1..k : entries[i].name = m => (CountsUpTo(entries, k + 1, i) <=> CountsUpTo(entries, k, i))
    BY <1>7, CountsStill
  <2> QED
    BY <1>2, <1>7, <2>1, <2>2, <2>3
<1>8. \A i \in 1..(k + 1) : entries[i].name # n /\ CountsUpTo(entries, k + 1, i) => now[entries[i].name] = entries[i].req
  <2> SUFFICES ASSUME NEW i \in 1..(k + 1), entries[i].name # n, CountsUpTo(entries, k + 1, i)
               PROVE  now[entries[i].name] = entries[i].req
    OBVIOUS
  <2>1. i \in 1..k
    BY <1>2
  <2>2. CountsUpTo(entries, k, i)
    BY <2>1, CountsStill
  <2>3. wanted[entries[i].name] = entries[i].req
    BY <2>1, <2>2 DEF MergedOk
  <2>4. entries[i].name \in DOMAIN wanted
    BY <1>3, <2>1 DEF names
  <2> QED
    BY <1>4, <2>3, <2>4
<1> HIDE DEF n
<1>9. DOMAIN now = {entries[i].name : i \in 1..(k + 1)}
  BY <1>3, <1>4 DEF names
<1>10. MergedOk(entries, k + 1, now)
  BY <1>6, <1>7, <1>8, <1>9 DEF MergedOk
<1> QED
  BY <1>4, <1>10 DEF now

\* What is kept below the limit, and up to it.
LEMMA KeptIs ==
    ASSUME NEW names \in SUBSET Crates
    PROVE  Kept(names) \subseteq names /\ (Cardinality(names) <= ResolveLimit => Kept(names) = names)
<1> DEFINE before(n) == {m \in names : m < n}
<1>1. IsFiniteSet(names) /\ \A n \in names : n \in Nat
  <2>1. IsFiniteSet(1..MaxCrate)
    BY AdviceBounds, FS_Interval
  <2>2. names \in SUBSET (1..MaxCrate)
    BY DEF Crates
  <2>3. IsFiniteSet(names)
    BY <2>1, <2>2, FS_Subset
  <2>4. \A n \in 1..MaxCrate : n \in Nat
    BY AdviceBounds
  <2> QED
    BY <2>2, <2>3, <2>4
<1>2. ASSUME NEW n \in names, Cardinality(names) <= ResolveLimit
      PROVE  Cardinality(before(n)) < ResolveLimit
  <2>1. before(n) \subseteq names \ {n}
    BY <1>1
  <2>2. IsFiniteSet(names \ {n}) /\ Cardinality(names \ {n}) = Cardinality(names) - 1
    BY <1>1, FS_RemoveElement
  <2> HIDE DEF before
  <2>3. Cardinality(before(n)) <= Cardinality(names \ {n})
    BY <2>1, <2>2, FS_Subset
  <2>4. Cardinality(before(n)) \in Nat /\ Cardinality(names) \in Nat
    BY <1>1, <2>1, <2>2, FS_Subset, FS_CardinalityType
  <2> QED
    BY <1>2, <2>2, <2>3, <2>4, AdviceBounds
<1>3. Kept(names) = {n \in names : Cardinality(before(n)) < ResolveLimit}
  BY DEF Kept
<1> HIDE DEF before
<1> QED
  BY <1>2, <1>3

\* wanted is what the entries ask for, cut at the limit.
KeptOk(entries, wanted) ==
    LET names == {entries[i].name : i \in DOMAIN entries}
    IN  /\ Cardinality(names) <= ResolveLimit => DOMAIN wanted = names
        /\ \A i \in DOMAIN entries : Counts(entries, i) /\ entries[i].name \in DOMAIN wanted =>
               wanted[entries[i].name] = entries[i].req

\* Of the crates kept at the limit the requirement is still the one that counts.
LEMMA CutKeepsCounting ==
    ASSUME NEW entries \in Seq(RequestEntry), NEW wanted \in Known(Requirement),
           MergedOk(entries, Len(entries), wanted)
    PROVE  LET kept == Kept(DOMAIN wanted)
               cut == [n \in kept |-> wanted[n]]
           IN  kept \in SUBSET Crates /\ cut \in Known(Requirement) /\ DOMAIN cut = kept /\ KeptOk(entries, cut)
<1> DEFINE kept == Kept(DOMAIN wanted)
           cut == [n \in kept |-> wanted[n]]
           names == {entries[i].name : i \in DOMAIN entries}
<1>1. DOMAIN wanted \in SUBSET Crates /\ \A n \in DOMAIN wanted : wanted[n] \in Requirement
  BY DEF Known
<1>2. kept \subseteq DOMAIN wanted /\ (Cardinality(DOMAIN wanted) <= ResolveLimit => kept = DOMAIN wanted)
  BY <1>1, KeptIs
<1>3. DOMAIN entries = 1..Len(entries)
  OBVIOUS
<1>4. DOMAIN wanted = names
  BY <1>3 DEF MergedOk
<1>5. \A i \in DOMAIN entries : Counts(entries, i) <=> CountsUpTo(entries, Len(entries), i)
  BY <1>3 DEF Counts, CountsUpTo
<1> HIDE DEF kept
<1>6. DOMAIN cut = kept /\ \A n \in kept : cut[n] = wanted[n]
  OBVIOUS
<1>7. cut \in [kept -> Requirement] /\ kept \in SUBSET Crates
  BY <1>1, <1>2
<1>8. cut \in Known(Requirement)
  BY <1>7 DEF Known
<1> HIDE DEF cut, names
<1>9. Cardinality(names) <= ResolveLimit => DOMAIN cut = names
  BY <1>2, <1>4, <1>6
<1>10. \A i \in DOMAIN entries : Counts(entries, i) /\ entries[i].name \in kept => cut[entries[i].name] = entries[i].req
  BY <1>3, <1>5, <1>6 DEF MergedOk
<1>11. KeptOk(entries, cut)
  BY <1>6, <1>9, <1>10 DEF KeptOk, names
<1> QED
  BY <1>6, <1>7, <1>8, <1>11 DEF kept, cut

\* The crates looked at so far have a selected version, or there is a conflict.
SelectedOk(index, wanted, todo, selected, conflicts) ==
    /\ todo \subseteq DOMAIN wanted /\ DOMAIN selected \subseteq DOMAIN wanted \ todo
    /\ \A n \in DOMAIN selected : n \in DOMAIN index /\ selected[n] \in Selection(index[n], wanted[n])
    /\ conflicts = {} <=> DOMAIN wanted \ todo \subseteq DOMAIN selected

ResolveRec(pc, index, edges, entries, merged, wanted, todo, selected, conflicts) ==
    [tool |-> "dependency_resolve", pc |-> pc, index |-> index, edges |-> edges, entries |-> entries,
     merged |-> merged, wanted |-> wanted, todo |-> todo, selected |-> selected, conflicts |-> conflicts]

ResolveOk(pc, index, edges, entries, merged, wanted, todo, selected, conflicts) ==
    /\ pc \in {"merge", "select", "done"}
    /\ index \in Indexes /\ edges \in EdgeSets /\ entries \in Inputs
    /\ wanted \in Known(Requirement) /\ selected \in Known(Ranks)
    /\ pc = "merge" => /\ merged \in 0..Len(entries) /\ MergedOk(entries, merged, wanted)
                       /\ DOMAIN selected = {} /\ conflicts = {}
    /\ pc # "merge" => KeptOk(entries, wanted)
    /\ pc = "select" => SelectedOk(index, wanted, todo, selected, conflicts)
    /\ pc = "done" =>
           /\ \A n \in DOMAIN selected : n \in DOMAIN wanted \cap DOMAIN index /\ selected[n] \in Selection(index[n], wanted[n])
           /\ conflicts = {} <=> DOMAIN wanted \subseteq DOMAIN selected /\ Compatible(selected, index, edges)

ResolveInv ==
    \E pc, index, edges, entries, merged, wanted, todo, selected, conflicts :
        /\ advice = ResolveRec(pc, index, edges, entries, merged, wanted, todo, selected, conflicts)
        /\ ResolveOk(pc, index, edges, entries, merged, wanted, todo, selected, conflicts)

\* What a resolve request holds.
LEMMA EntriesTyped == \A entries \in Inputs : entries \in Seq(RequestEntry)
  BY AdviceBounds DEF RequestEntry

\* The function of no crate.
LEMMA NothingKnown == ASSUME NEW T PROVE <<>> \in Known(T) /\ DOMAIN <<>> = {}
<1>1. <<>> \in [{} -> T] /\ {} \in SUBSET Crates /\ DOMAIN <<>> = {}
  OBVIOUS
<1> QED
  BY <1>1 DEF Known

\* dependency_resolve starts with nothing merged.
LEMMA ResolveStarts == BeginResolve => ResolveInv
<1> SUFFICES ASSUME BeginResolve PROVE ResolveInv
  OBVIOUS
<1>1. PICK index \in Indexes, edges \in EdgeSets, entries \in Inputs :
          advice = ResolveRec("merge", index, edges, entries, 0, <<>>, {}, <<>>, {})
  BY DEF BeginResolve, ResolveRec
<1>2. MergedOk(entries, 0, <<>>)
  BY NothingKnown DEF MergedOk
<1>3. 0 \in 0..Len(entries)
  <2>1. Len(entries) \in Nat
    BY EntriesTyped
  <2> QED
    BY <2>1
<1>4. ResolveOk("merge", index, edges, entries, 0, <<>>, {}, <<>>, {})
  BY <1>2, <1>3, NothingKnown DEF ResolveOk
<1> QED
  BY <1>1, <1>4, Zenon DEF ResolveInv

\* Merging one entry more keeps ResolveInv.
LEMMA MergeEntryKeeps == ResolveInv /\ MergeEntry => ResolveInv'
<1> SUFFICES ASSUME ResolveInv, MergeEntry PROVE ResolveInv'
  OBVIOUS
<1>1. PICK pc, index, edges, entries, merged, wanted, todo, selected, conflicts :
          /\ advice = ResolveRec(pc, index, edges, entries, merged, wanted, todo, selected, conflicts)
          /\ ResolveOk(pc, index, edges, entries, merged, wanted, todo, selected, conflicts)
  BY Zenon DEF ResolveInv
<1>2. advice.pc = pc /\ advice.entries = entries /\ advice.merged = merged /\ advice.wanted = wanted
  BY <1>1 DEF ResolveRec
<1> DEFINE new == entries[merged + 1]
           now == Grown(wanted, new)
<1>3. pc = "merge" /\ merged < Len(entries) /\ advice' = [advice EXCEPT !.merged = merged + 1, !.wanted = now]
  BY <1>2 DEF MergeEntry, Grown
<1>4. /\ entries \in Seq(RequestEntry) /\ merged \in Nat /\ wanted \in Known(Requirement)
      /\ MergedOk(entries, merged, wanted) /\ merged + 1 \in 0..Len(entries)
  BY <1>1, <1>3, EntriesTyped DEF ResolveOk
<1>5. now \in Known(Requirement) /\ MergedOk(entries, merged + 1, now)
  BY <1>3, <1>4, MergeGrows
<1> HIDE DEF now
<1>6. advice' = ResolveRec(pc, index, edges, entries, merged + 1, now, todo, selected, conflicts)
  BY <1>1, <1>3 DEF ResolveRec
<1>7. ResolveOk(pc, index, edges, entries, merged + 1, now, todo, selected, conflicts)
  BY <1>1, <1>3, <1>4, <1>5 DEF ResolveOk
<1> QED
  BY <1>6, <1>7, Zenon DEF ResolveInv

\* So does sorting the crates and cutting them at the limit.
LEMMA CutInputsKeeps == ResolveInv /\ CutInputs => ResolveInv'
<1> SUFFICES ASSUME ResolveInv, CutInputs PROVE ResolveInv'
  OBVIOUS
<1>1. PICK pc, index, edges, entries, merged, wanted, todo, selected, conflicts :
          /\ advice = ResolveRec(pc, index, edges, entries, merged, wanted, todo, selected, conflicts)
          /\ ResolveOk(pc, index, edges, entries, merged, wanted, todo, selected, conflicts)
  BY Zenon DEF ResolveInv
<1>2. advice.pc = pc /\ advice.entries = entries /\ advice.merged = merged /\ advice.wanted = wanted
  BY <1>1 DEF ResolveRec
<1> DEFINE kept == Kept(DOMAIN wanted)
           cut == [n \in kept |-> wanted[n]]
<1>3. pc = "merge" /\ merged = Len(entries) /\ advice' = [advice EXCEPT !.pc = "select", !.todo = kept, !.wanted = cut]
  BY <1>2 DEF CutInputs
<1>4. /\ entries \in Seq(RequestEntry) /\ wanted \in Known(Requirement)
      /\ MergedOk(entries, Len(entries), wanted) /\ DOMAIN selected = {} /\ conflicts = {}
  BY <1>1, <1>3, EntriesTyped DEF ResolveOk
<1>5. kept \in SUBSET Crates /\ cut \in Known(Requirement) /\ DOMAIN cut = kept /\ KeptOk(entries, cut)
  BY <1>4, CutKeepsCounting
<1> HIDE DEF kept, cut
<1>6. advice' = ResolveRec("select", index, edges, entries, merged, cut, kept, selected, conflicts)
  BY <1>1, <1>3 DEF ResolveRec
<1>7. SelectedOk(index, cut, kept, selected, conflicts)
  BY <1>4, <1>5 DEF SelectedOk
<1>8. ResolveOk("select", index, edges, entries, merged, cut, kept, selected, conflicts)
  BY <1>1, <1>5, <1>7 DEF ResolveOk
<1> QED
  BY <1>6, <1>8, Zenon DEF ResolveInv

\* Selecting the version of one crate more.
LEMMA SelectVersionKeeps == ResolveInv /\ (\E n \in Crates : SelectVersion(n)) => ResolveInv'
<1> SUFFICES ASSUME ResolveInv, NEW n \in Crates, SelectVersion(n) PROVE ResolveInv'
  OBVIOUS
<1>1. PICK pc, index, edges, entries, merged, wanted, todo, selected, conflicts :
          /\ advice = ResolveRec(pc, index, edges, entries, merged, wanted, todo, selected, conflicts)
          /\ ResolveOk(pc, index, edges, entries, merged, wanted, todo, selected, conflicts)
  BY Zenon DEF ResolveInv
<1>2. /\ advice.pc = pc /\ advice.index = index /\ advice.wanted = wanted /\ advice.todo = todo
      /\ advice.selected = selected /\ advice.conflicts = conflicts
  BY <1>1 DEF ResolveRec
<1> DEFINE found == IF n \in DOMAIN index THEN Selection(index[n], wanted[n]) ELSE {}
           why == IF n \in DOMAIN index THEN "no version" ELSE "not indexed"
<1>3. /\ pc = "select" /\ n \in todo
      /\ \/ \E v \in found : advice' = [advice EXCEPT !.todo = todo \ {n}, !.selected = With(selected, n, v)]
         \/ found = {} /\ advice' = [advice EXCEPT !.todo = todo \ {n}, !.conflicts = conflicts \cup {<<n, why>>}]
  BY <1>2 DEF SelectVersion
<1>4. /\ index \in Indexes /\ wanted \in Known(Requirement) /\ selected \in Known(Ranks)
      /\ SelectedOk(index, wanted, todo, selected, conflicts)
  BY <1>1, <1>3 DEF ResolveOk
<1>5. n \in DOMAIN wanted /\ n \notin DOMAIN selected /\ todo \subseteq DOMAIN wanted
  BY <1>3, <1>4 DEF SelectedOk
<1>6. wanted[n] \in Requirement
  BY <1>4, <1>5 DEF Known
<1>7. DOMAIN wanted \ (todo \ {n}) = (DOMAIN wanted \ todo) \cup {n}
  BY <1>3, <1>5
<1>8. ASSUME NEW v \in found, advice' = [advice EXCEPT !.todo = todo \ {n}, !.selected = With(selected, n, v)]
      PROVE  ResolveInv'
  <2> DEFINE now == With(selected, n, v)
  <2>1. n \in DOMAIN index /\ v \in Selection(index[n], wanted[n])
    BY <1>8
  <2>2. v \in Ranks
    BY <1>4, <1>6, <2>1, SelectionIs
  <2>3. now \in Known(Ranks)
    BY <1>4, <2>2, WithTyped
  <2>4. DOMAIN now = DOMAIN selected \cup {n}
    BY WithDomain
  <2>5. now[n] = v
    BY WithNew
  <2>6. \A m \in DOMAIN selected : now[m] = selected[m]
    BY <1>5, WithOld
  <2> HIDE DEF now, found
  <2>7. SelectedOk(index, wanted, todo \ {n}, now, conflicts)
    <3>1. \A m \in DOMAIN now : m \in DOMAIN index /\ now[m] \in Selection(index[m], wanted[m])
      BY <1>4, <2>1, <2>4, <2>5, <2>6 DEF SelectedOk
    <3>2. todo \ {n} \subseteq DOMAIN wanted /\ DOMAIN now \subseteq DOMAIN wanted \ (todo \ {n})
      BY <1>4, <1>5, <1>7, <2>4 DEF SelectedOk
    <3>3. conflicts = {} <=> DOMAIN wanted \ (todo \ {n}) \subseteq DOMAIN now
      BY <1>4, <1>3, <1>5, <1>7, <2>4 DEF SelectedOk
    <3> QED
      BY <3>1, <3>2, <3>3 DEF SelectedOk
  <2>8. advice' = ResolveRec(pc, index, edges, entries, merged, wanted, todo \ {n}, now, conflicts)
    BY <1>1, <1>8 DEF ResolveRec, now
  <2>9. ResolveOk(pc, index, edges, entries, merged, wanted, todo \ {n}, now, conflicts)
    BY <1>1, <1>3, <2>3, <2>7 DEF ResolveOk
  <2> QED
    BY <2>8, <2>9, Zenon DEF ResolveInv
<1>9. ASSUME advice' = [advice EXCEPT !.todo = todo \ {n}, !.conflicts = conflicts \cup {<<n, why>>}]
      PROVE  ResolveInv'
  <2> DEFINE now == conflicts \cup {<<n, why>>}
  <2>1. now # {}
    OBVIOUS
  <2> HIDE DEF now, found, why
  <2>2. SelectedOk(index, wanted, todo \ {n}, selected, now)
    <3>1. todo \ {n} \subseteq DOMAIN wanted /\ DOMAIN selected \subseteq DOMAIN wanted \ (todo \ {n})
      BY <1>4, <1>5, <1>7 DEF SelectedOk
    <3>2. ~ (DOMAIN wanted \ (todo \ {n}) \subseteq DOMAIN selected)
      BY <1>5, <1>7
    <3> QED
      BY <1>4, <2>1, <3>1, <3>2 DEF SelectedOk
  <2>3. advice' = ResolveRec(pc, index, edges, entries, merged, wanted, todo \ {n}, selected, now)
    BY <1>1, <1>9 DEF ResolveRec, now
  <2>4. ResolveOk(pc, index, edges, entries, merged, wanted, todo \ {n}, selected, now)
    BY <1>1, <1>3, <2>2 DEF ResolveOk
  <2> QED
    BY <2>3, <2>4, Zenon DEF ResolveInv
<1> HIDE DEF found, why
<1> QED
  BY <1>3, <1>8, <1>9

\* The edges of the selected versions are looked at last.
LEMMA CheckEdgesKeeps == ResolveInv /\ CheckEdges => ResolveInv'
<1> SUFFICES ASSUME ResolveInv, CheckEdges PROVE ResolveInv'
  OBVIOUS
<1>1. PICK pc, index, edges, entries, merged, wanted, todo, selected, conflicts :
          /\ advice = ResolveRec(pc, index, edges, entries, merged, wanted, todo, selected, conflicts)
          /\ ResolveOk(pc, index, edges, entries, merged, wanted, todo, selected, conflicts)
  BY Zenon DEF ResolveInv
<1>2. /\ advice.pc = pc /\ advice.index = index /\ advice.edges = edges /\ advice.todo = todo
      /\ advice.selected = selected /\ advice.conflicts = conflicts
  BY <1>1 DEF ResolveRec
<1> DEFINE rows == EdgesOf(edges, selected)
           U == {<<c, "unmatched">> : c \in Unmatched(rows, selected)}
           J == {<<c, "disjoint">> : c \in Disjoint(rows, index)}
           now == conflicts \cup U \cup J
<1>3. pc = "select" /\ todo = {} /\ advice' = [advice EXCEPT !.pc = "done", !.conflicts = now]
  BY <1>2 DEF CheckEdges
<1>4. SelectedOk(index, wanted, {}, selected, conflicts)
  BY <1>1, <1>3 DEF ResolveOk
<1>5. now = {} <=> conflicts = {} /\ Compatible(selected, index, edges)
  <2>1. U = {} <=> Unmatched(rows, selected) = {}
    OBVIOUS
  <2>2. J = {} <=> Disjoint(rows, index) = {}
    OBVIOUS
  <2>3. Compatible(selected, index, edges) <=> Unmatched(rows, selected) = {} /\ Disjoint(rows, index) = {}
    BY DEF Compatible
  <2> HIDE DEF U, J, rows
  <2> QED
    BY <2>1, <2>2, <2>3
<1> HIDE DEF now
<1>6. advice' = ResolveRec("done", index, edges, entries, merged, wanted, todo, selected, now)
  BY <1>1, <1>3 DEF ResolveRec
<1>7. /\ \A n \in DOMAIN selected : n \in DOMAIN wanted \cap DOMAIN index /\ selected[n] \in Selection(index[n], wanted[n])
      /\ conflicts = {} <=> DOMAIN wanted \subseteq DOMAIN selected
  BY <1>4 DEF SelectedOk
<1>8. ResolveOk("done", index, edges, entries, merged, wanted, todo, selected, now)
  BY <1>1, <1>3, <1>5, <1>7 DEF ResolveOk
<1> QED
  BY <1>6, <1>8, Zenon DEF ResolveInv

\* ResolveInv says of an answer what ResolveSound says.
LEMMA ResolveAtEnd == ResolveInv /\ advice.pc = "done" => ResolveSound
<1> SUFFICES ASSUME ResolveInv, advice.pc = "done" PROVE ResolveSound
  OBVIOUS
<1>1. PICK pc, index, edges, entries, merged, wanted, todo, selected, conflicts :
          /\ advice = ResolveRec(pc, index, edges, entries, merged, wanted, todo, selected, conflicts)
          /\ ResolveOk(pc, index, edges, entries, merged, wanted, todo, selected, conflicts)
  BY Zenon DEF ResolveInv
<1>2. /\ advice.pc = pc /\ advice.index = index /\ advice.edges = edges /\ advice.entries = entries
      /\ advice.wanted = wanted /\ advice.selected = selected /\ advice.conflicts = conflicts
  BY <1>1 DEF ResolveRec
<1>3. /\ index \in Indexes /\ wanted \in Known(Requirement) /\ selected \in Known(Ranks) /\ KeptOk(entries, wanted)
      /\ \A n \in DOMAIN selected : n \in DOMAIN wanted \cap DOMAIN index /\ selected[n] \in Selection(index[n], wanted[n])
      /\ conflicts = {} <=> DOMAIN wanted \subseteq DOMAIN selected /\ Compatible(selected, index, edges)
  BY <1>1, <1>2 DEF ResolveOk
<1>4. ASSUME NEW n \in DOMAIN selected
      PROVE  n \in DOMAIN index /\ selected[n] \in ToSet(index[n]) /\ \A r \in wanted[n] : selected[n] \in r
  <2>1. n \in DOMAIN wanted /\ n \in DOMAIN index /\ selected[n] \in Selection(index[n], wanted[n])
    BY <1>3
  <2>2. wanted[n] \in Requirement
    BY <1>3, <2>1 DEF Known
  <2> QED
    BY <1>3, <2>1, <2>2, SelectionIs
<1>5. Compatible(selected, index, edges) <=> Stands(selected, index, edges)
  BY <1>3, <1>4, StandsIff
<1>6. DOMAIN selected \subseteq DOMAIN wanted
  BY <1>3
<1>7. Confidence(selected, conflicts) = "high" <=> DOMAIN selected # {} /\ conflicts = {}
  BY DEF Confidence
<1>8. Confidence(selected, conflicts) = "high" <=>
          /\ DOMAIN wanted # {} /\ DOMAIN wanted \subseteq DOMAIN selected
          /\ Stands(selected, index, edges)
  BY <1>3, <1>5, <1>6, <1>7
<1>9. \A i \in DOMAIN entries : Counts(entries, i) /\ entries[i].name \in DOMAIN selected =>
          \A r \in entries[i].req : selected[entries[i].name] \in r
  BY <1>3, <1>4, <1>6 DEF KeptOk
<1>10. Cardinality({entries[i].name : i \in DOMAIN entries}) <= ResolveLimit
           => DOMAIN wanted = {entries[i].name : i \in DOMAIN entries}
  BY <1>3, Zenon DEF KeptOk
<1>11. \A n \in DOMAIN selected : n \in DOMAIN index /\ selected[n] \in ToSet(index[n])
  BY <1>4
<1> QED
  BY <1>2, <1>8, <1>9, <1>10, <1>11, Zenon DEF ResolveSound

-----------------------------------------------------------------------------
(* crate_compare, step by step. *)

\* What crate_compare has: the crates, and once it is done a recommendation that holds.
CompareRec(pc, sides, recommended) ==
    [tool |-> "crate_compare", pc |-> pc, sides |-> sides, recommended |-> recommended]

CompareInv ==
    \E pc \in {"compare", "done"}, left, right \in Sides, recommended \in 0..2 :
        /\ advice = CompareRec(pc, <<left, right>>, recommended)
        /\ pc = "done" => RecommendationHolds

\* crate_compare starts with two crates and no recommendation.
LEMMA CompareStarts == BeginCompare => CompareInv
<1> SUFFICES ASSUME BeginCompare PROVE CompareInv
  OBVIOUS
<1>1. PICK left \in Sides, right \in Sides : advice = CompareRec("compare", <<left, right>>, 0)
  BY DEF BeginCompare, CompareRec
<1> QED
  BY <1>1 DEF CompareInv

\* The crate that wins by three points or more, and in its worst case too when
\* anything is unknown, scores better however the unknown advisories turn out.
LEMMA WinnerHolds ==
    ASSUME NEW x \in CrateSide, NEW y \in CrateSide,
           MaintenanceScore(x) - MaintenanceScore(y) >= 3,
           (x.unknown > 0 \/ y.unknown > 0) => MaintenanceScore(WorstCase(x)) - MaintenanceScore(y) >= 3,
           NEW s \in Outcomes(x), NEW t \in Outcomes(y)
    PROVE  MaintenanceScore(s) > MaintenanceScore(t)
<1>1. /\ MaintenanceScore(WorstCase(x)) <= MaintenanceScore(s)
      /\ {MaintenanceScore(WorstCase(x)), MaintenanceScore(s), MaintenanceScore(x)} \subseteq Int
      /\ x.unknown = 0 => s = x
  BY OutcomesBetween, Zenon
<1>2. /\ MaintenanceScore(t) <= MaintenanceScore(y)
      /\ {MaintenanceScore(WorstCase(y)), MaintenanceScore(t), MaintenanceScore(y)} \subseteq Int
      /\ y.unknown = 0 => t = y
  BY OutcomesBetween, Zenon
<1>3. x.unknown \in Nat /\ y.unknown \in Nat
  BY DEF CrateSide
<1>4. CASE x.unknown > 0 \/ y.unknown > 0
  BY <1>1, <1>2, <1>4
<1>5. CASE ~ (x.unknown > 0 \/ y.unknown > 0)
  <2>1. s = x
    BY <1>1, <1>3, <1>5
  <2> QED
    BY <1>1, <1>2, <2>1
<1> QED
  BY <1>4, <1>5

\* Comparing the two crates.
LEMMA CompareKeeps == CompareInv /\ CompareSides => CompareInv'
<1> SUFFICES ASSUME CompareInv, CompareSides PROVE CompareInv'
  OBVIOUS
<1>1. PICK pc \in {"compare", "done"}, left \in Sides, right \in Sides, recommended \in 0..2 :
          advice = CompareRec(pc, <<left, right>>, recommended)
  BY DEF CompareInv
<1> DEFINE sides == <<left, right>>
           score == [i \in 1..2 |-> MaintenanceScore(sides[i])]
           winner == IF score[1] > score[2] THEN 1 ELSE 2
           worst == MaintenanceScore(WorstCase(sides[winner]))
           uncertain == \E i \in 1..2 : sides[i].unknown > 0
           r == IF \/ score[winner] - score[3 - winner] < 3
                   \/ uncertain /\ worst - score[3 - winner] < 3
                THEN 0 ELSE winner
<1>2. advice.sides = sides
  BY <1>1 DEF CompareRec
<1>3. advice' = [advice EXCEPT !.pc = "done", !.recommended = r]
  BY <1>2, Zenon DEF CompareSides
<1>4. r \in 0..2 /\ winner \in 1..2
  OBVIOUS
<1>5. ASSUME r # 0, NEW s \in Outcomes(sides[r]), NEW t \in Outcomes(sides[3 - r])
      PROVE  MaintenanceScore(s) > MaintenanceScore(t)
  <2>1. left \in CrateSide /\ right \in CrateSide
    BY AdviceBounds DEF CrateSide
  <2>2. r = winner /\ sides[r] \in CrateSide /\ sides[3 - r] \in CrateSide
    BY <1>4, <1>5, <2>1
  <2>3. MaintenanceScore(sides[r]) \in Int /\ MaintenanceScore(sides[3 - r]) \in Int /\ worst \in Int
    <3> HIDE DEF r, winner, sides
    <3>1. {MaintenanceScore(WorstCase(sides[r])), MaintenanceScore(sides[r])} \subseteq Int
      BY <1>5, <2>2, OutcomesBetween
    <3>2. MaintenanceScore(sides[3 - r]) \in Int
      BY <1>5, <2>2, OutcomesBetween
    <3> QED
      BY <2>2, <3>1, <3>2
  <2>4. score[r] = MaintenanceScore(sides[r]) /\ score[3 - r] = MaintenanceScore(sides[3 - r])
    BY <1>4, <2>2
  <2>5. ~ (score[r] - score[3 - r] < 3) /\ (uncertain => ~ (worst - score[3 - r] < 3))
    BY <1>5, <2>2
  <2>6. worst = MaintenanceScore(WorstCase(sides[r]))
    BY <2>2
  <2>7. sides[r].unknown > 0 \/ sides[3 - r].unknown > 0 => uncertain
    BY <1>4, <2>2
  <2> HIDE DEF r, winner, score, worst, sides, uncertain
  <2>8. MaintenanceScore(sides[r]) - MaintenanceScore(sides[3 - r]) >= 3
    BY <2>3, <2>4, <2>5
  <2>9. sides[r].unknown > 0 \/ sides[3 - r].unknown > 0
            => MaintenanceScore(WorstCase(sides[r])) - MaintenanceScore(sides[3 - r]) >= 3
    BY <2>3, <2>4, <2>5, <2>6, <2>7
  <2> QED
    BY <1>5, <2>2, <2>8, <2>9, WinnerHolds
<1> HIDE DEF r
<1>6. advice' = CompareRec("done", <<left, right>>, r)
  BY <1>1, <1>3 DEF CompareRec
<1>7. advice'.sides = sides /\ advice'.recommended = r
  BY <1>6 DEF CompareRec
<1>8. RecommendationHolds'
  <2> HIDE DEF sides
  <2> QED
    BY <1>5, <1>7, Zenon DEF RecommendationHolds
<1> QED
  BY <1>4, <1>6, <1>8, Zenon DEF CompareInv

-----------------------------------------------------------------------------
(* crate_compatibility_matrix. *)

\* The pairs of versions asked about.
Pairs(lists) == ToSet(lists[1]) \X ToSet(lists[2])
PairAt(lists, i, j) == <<lists[1][i], lists[2][j]>>

\* There are versions of both crates.
BothListed(lists) ==
    /\ lists[1] \in Seq(Ranks) /\ lists[2] \in Seq(Ranks)
    /\ lists[1] # <<>> /\ lists[2] # <<>>

\* Where the two loops are, and what they have counted.
AtPair(m, n, left, right, tested) ==
    /\ left \in 1..(m + 1) /\ right \in 1..n /\ (left = m + 1 => right = 1)
    /\ tested = (left - 1) * n + (right - 1)

\* yes and no hold the pairs before that, sorted by Fits.
SortedOut(index, edges, lists, left, right, yes, no) ==
    /\ \A p \in yes : p \in Pairs(lists) /\ Fits(p, index, edges)
    /\ \A p \in no : p \in Pairs(lists) /\ ~ Fits(p, index, edges)
    /\ \A i \in DOMAIN lists[1], j \in DOMAIN lists[2] :
           i < left \/ (i = left /\ j < right) => PairAt(lists, i, j) \in yes \cup no

MatrixRec(pc, index, edges, lists, cap, left, right, tested, yes, no) ==
    [tool |-> "crate_compatibility_matrix", pc |-> pc, index |-> index, edges |-> edges,
     lists |-> lists, cap |-> cap,
     left |-> left, right |-> right, tested |-> tested, compatible |-> yes, incompatible |-> no]

MatrixOk(index, edges, lists, left, right, tested, yes, no) ==
    /\ index \in Indexes /\ BothListed(lists)
    /\ AtPair(Len(lists[1]), Len(lists[2]), left, right, tested)
    /\ SortedOut(index, edges, lists, left, right, yes, no)

MatrixInv ==
    \E pc, index, edges, lists, cap, left, right, tested, yes, no :
        /\ advice = MatrixRec(pc, index, edges, lists, cap, left, right, tested, yes, no)
        /\ MatrixOk(index, edges, lists, left, right, tested, yes, no)

\* Both lists have lengths.
LEMMA BothLengths ==
    ASSUME NEW lists, BothListed(lists)
    PROVE  /\ Len(lists[1]) \in Nat \ {0} /\ Len(lists[2]) \in Nat \ {0}
           /\ DOMAIN lists[1] = 1..Len(lists[1]) /\ DOMAIN lists[2] = 1..Len(lists[2])
<1>1. \A s \in Seq(Ranks) : s # <<>> => Len(s) \in Nat \ {0} /\ DOMAIN s = 1..Len(s)
  BY LenProperties, EmptySeq
<1> QED
  BY <1>1 DEF BothListed

\* The versions of a crate that a request gives or leaves to the index.
LEMMA ListsTyped ==
    ASSUME NEW index \in Indexes, NEW n, NEW limit \in VersionLimits
    PROVE  Lists(index, n, limit) \subseteq Seq(Ranks)
<1>1. \A list \in GivenVersions : list \in Seq(Ranks)
  BY AdviceBounds
<1>2. ASSUME n \in DOMAIN index PROVE SubSeq(index[n], 1, Min({limit, Len(index[n])})) \in Seq(Ranks)
  <2> DEFINE s == index[n]  len == Len(index[n])
  <2>1. s \in Seq(Ranks) /\ len \in Nat
    BY <1>2, ListedRanks, LenProperties
  <2>2. limit \in Int /\ limit >= 0
    BY AdviceBounds
  <2> DEFINE b == IF limit <= len THEN limit ELSE len
  <2>3. b \in Nat /\ b <= len
    BY <2>1, <2>2
  <2>4. Min({limit, len}) = b
    BY <2>1, <2>2, SmallerOfTwo
  <2>5. SubSeq(s, 0 + 1, b) \in Seq(Ranks)
    <3> HIDE DEF s, b
    <3> QED
      BY <2>1, <2>3, PartOf DEF len, s
  <2>6. SubSeq(s, 1, Min({limit, len})) \in Seq(Ranks)
    <3>1. 0 + 1 = 1
      OBVIOUS
    <3> HIDE DEF s, b, len
    <3> QED
      BY <2>4, <2>5, <3>1, Zenon
  <2> QED
    BY <2>6, Zenon
<1> QED
  BY <1>1, <1>2 DEF Lists

\* What is selected for a pair are indexed versions of the two crates.
LEMMA PairsAreSelections ==
    ASSUME NEW index \in Indexes, NEW p
    PROVE  LET selected == Selected(p, index)
           IN  /\ selected \in Known(Ranks)
               /\ \A n \in DOMAIN selected : n \in DOMAIN index /\ selected[n] \in ToSet(index[n])
<1> DEFINE D == {m \in Pair \cap DOMAIN index : p[m] \in ToSet(index[m])}
<1>1. \A n \in D : n \in DOMAIN index /\ p[n] \in ToSet(index[n])
  OBVIOUS
<1>2. \A n \in DOMAIN index : n \in Crates /\ ToSet(index[n]) \subseteq Ranks
  BY ListedRanks
<1>3. D \in SUBSET Crates /\ \A n \in D : p[n] \in Ranks
  BY <1>1, <1>2
<1>4. Selected(p, index) = [n \in D |-> p[n]]
  BY DEF Selected
<1> HIDE DEF D
<1>5. [n \in D |-> p[n]] \in [D -> Ranks]
  BY <1>3
<1> QED
  BY <1>1, <1>3, <1>4, <1>5 DEF Known

\* The count of the pairs stays short of their number until the last is tested.
LEMMA PairsShort ==
    ASSUME NEW m \in Nat \ {0}, NEW n \in Nat \ {0}, NEW left, NEW right, NEW tested,
           AtPair(m, n, left, right, tested), left <= m
    PROVE  tested \in Nat /\ tested < m * n
<1>1. left \in 1..m /\ right \in 1..n /\ tested = (left - 1) * n + (right - 1)
  BY DEF AtPair
<1> DEFINE a == left - 1  b == m - left
<1>2. a \in Nat /\ b \in Nat /\ m = a + b + 1
  BY <1>1
<1>3. a * n \in Nat /\ b * n \in Nat
  BY <1>2
<1>4. m * n = a * n + b * n + n
  <2>1. \A x, y \in Nat : (x + y + 1) * n = x * n + y * n + n
    OBVIOUS
  <2> QED
    BY <1>2, <2>1
<1> DEFINE an == a * n  bn == b * n
<1>5. tested = an + (right - 1) /\ m * n = an + bn + n
  BY <1>1, <1>4
<1> HIDE DEF an, bn, a, b
<1> QED
  BY <1>1, <1>3, <1>5 DEF an, bn

\* The next pair.
LEMMA NextPair ==
    ASSUME NEW m \in Nat \ {0}, NEW n \in Nat \ {0}, NEW left, NEW right, NEW tested,
           AtPair(m, n, left, right, tested), left <= m
    PROVE  AtPair(m, n, IF right = n THEN left + 1 ELSE left, IF right = n THEN 1 ELSE right + 1, tested + 1)
<1>1. left \in 1..m /\ right \in 1..n /\ tested = (left - 1) * n + (right - 1)
  BY DEF AtPair
<1>2. CASE right # n
  BY <1>1, <1>2 DEF AtPair
<1>3. CASE right = n
  <2>1. left * n = (left - 1) * n + n
    <3>1. \A x \in Nat : (x + 1) * n = x * n + n
      OBVIOUS
    <3>2. left - 1 \in Nat /\ left = (left - 1) + 1
      BY <1>1
    <3> QED
      BY <3>1, <3>2
  <2>2. (left - 1) * n \in Nat
    BY <1>1
  <2> DEFINE before == (left - 1) * n
  <2>3. before \in Nat /\ tested = before + (right - 1) /\ left * n = before + n
    BY <1>1, <2>1, <2>2
  <2>4. (left + 1) - 1 = left
    BY <1>1
  <2> HIDE DEF before
  <2>5. tested + 1 = left * n + 0
    BY <1>1, <1>3, <2>3
  <2> QED
    BY <1>1, <1>3, <2>4, <2>5 DEF AtPair
<1> QED
  BY <1>2, <1>3

\* The matrix starts at the first pair.
LEMMA MatrixStarts == BeginMatrix => MatrixInv
<1> SUFFICES ASSUME BeginMatrix PROVE MatrixInv
  OBVIOUS
<1>1. PICK index \in Indexes, edges \in EdgeSets, limit \in VersionLimits, cap \in PairLimits :
          \E left \in Lists(index, 1, limit), right \in Lists(index, 2, limit) :
              /\ left # <<>> /\ right # <<>>
              /\ advice = MatrixRec("pairs", index, edges, <<left, right>>, cap, 1, 1, 0, {}, {})
  BY DEF BeginMatrix, MatrixRec
<1>2. PICK left \in Lists(index, 1, limit), right \in Lists(index, 2, limit) :
              /\ left # <<>> /\ right # <<>>
              /\ advice = MatrixRec("pairs", index, edges, <<left, right>>, cap, 1, 1, 0, {}, {})
  BY <1>1
<1> DEFINE lists == <<left, right>>
<1>3. BothListed(lists)
  <2>1. left \in Seq(Ranks) /\ right \in Seq(Ranks)
    BY ListsTyped
  <2> QED
    BY <1>2, <2>1 DEF BothListed
<1> HIDE DEF lists
<1>4. AtPair(Len(lists[1]), Len(lists[2]), 1, 1, 0)
  BY <1>3, BothLengths DEF AtPair
<1>5. SortedOut(index, edges, lists, 1, 1, {}, {})
  BY <1>3, BothLengths DEF SortedOut
<1>6. MatrixOk(index, edges, lists, 1, 1, 0, {}, {})
  BY <1>3, <1>4, <1>5 DEF MatrixOk
<1> QED
  BY <1>2, <1>6, Zenon DEF MatrixInv, lists

\* Testing one pair.
LEMMA TestPairKeeps == MatrixInv /\ TestPair => MatrixInv'
<1> SUFFICES ASSUME MatrixInv, TestPair PROVE MatrixInv'
  OBVIOUS
<1>1. PICK pc, index, edges, lists, cap, left, right, tested, yes, no :
          /\ advice = MatrixRec(pc, index, edges, lists, cap, left, right, tested, yes, no)
          /\ MatrixOk(index, edges, lists, left, right, tested, yes, no)
  BY Zenon DEF MatrixInv
<1>2. /\ advice.index = index /\ advice.edges = edges /\ advice.lists = lists /\ advice.left = left /\ advice.right = right
      /\ advice.tested = tested /\ advice.compatible = yes /\ advice.incompatible = no /\ advice.cap = cap
  BY <1>1 DEF MatrixRec
<1> DEFINE pair == PairAt(lists, left, right)
           fits == Fits(pair, index, edges)
           last == right = Len(lists[2])
           left2 == IF last THEN left + 1 ELSE left
           right2 == IF last THEN 1 ELSE right + 1
           yes2 == IF fits THEN yes \cup {pair} ELSE yes
           no2 == IF fits THEN no ELSE no \cup {pair}
<1>3. /\ left <= Len(lists[1])
      /\ advice' = [advice EXCEPT !.left = left2, !.right = right2, !.tested = tested + 1,
                                  !.compatible = yes2, !.incompatible = no2]
  BY <1>2, Zenon DEF TestPair, MorePairs, PairAt
<1>4. /\ index \in Indexes /\ BothListed(lists) /\ AtPair(Len(lists[1]), Len(lists[2]), left, right, tested)
      /\ SortedOut(index, edges, lists, left, right, yes, no)
  BY <1>1 DEF MatrixOk
<1>5. /\ Len(lists[1]) \in Nat \ {0} /\ Len(lists[2]) \in Nat \ {0}
      /\ DOMAIN lists[1] = 1..Len(lists[1]) /\ DOMAIN lists[2] = 1..Len(lists[2])
  BY <1>4, BothLengths
<1>6. AtPair(Len(lists[1]), Len(lists[2]), left2, right2, tested + 1)
  BY <1>3, <1>4, <1>5, NextPair
<1>7. left \in DOMAIN lists[1] /\ right \in DOMAIN lists[2]
  BY <1>3, <1>4, <1>5 DEF AtPair
<1>8. pair \in Pairs(lists)
  BY <1>7 DEF Pairs, PairAt, ToSet
<1>9. ASSUME NEW i \in DOMAIN lists[1], NEW j \in DOMAIN lists[2], i < left2 \/ (i = left2 /\ j < right2)
      PROVE  (i < left \/ (i = left /\ j < right)) \/ (i = left /\ j = right)
  BY <1>5, <1>7, <1>9
<1> HIDE DEF fits, left2, right2
<1>10. pair \in yes2 \cup no2 /\ yes \subseteq yes2 /\ no \subseteq no2
  OBVIOUS
<1>11. SortedOut(index, edges, lists, left2, right2, yes2, no2)
  <2>1. \A p \in yes2 : p \in Pairs(lists) /\ Fits(p, index, edges)
    BY <1>4, <1>8, Zenon DEF SortedOut, fits
  <2>2. \A p \in no2 : p \in Pairs(lists) /\ ~ Fits(p, index, edges)
    BY <1>4, <1>8, Zenon DEF SortedOut, fits
  <2> HIDE DEF yes2, no2
  <2>3. ASSUME NEW i \in DOMAIN lists[1], NEW j \in DOMAIN lists[2], i < left2 \/ (i = left2 /\ j < right2)
        PROVE  PairAt(lists, i, j) \in yes2 \cup no2
    <3>1. CASE i < left \/ (i = left /\ j < right)
      BY <1>4, <1>10, <3>1 DEF SortedOut
    <3>2. CASE i = left /\ j = right
      BY <1>10, <3>2
    <3> QED
      BY <1>9, <2>3, <3>1, <3>2
  <2> QED
    BY <2>1, <2>2, <2>3 DEF SortedOut
<1> HIDE DEF yes2, no2
<1>12. advice' = MatrixRec(pc, index, edges, lists, cap, left2, right2, tested + 1, yes2, no2)
  BY <1>1, <1>3 DEF MatrixRec
<1>13. MatrixOk(index, edges, lists, left2, right2, tested + 1, yes2, no2)
  BY <1>4, <1>6, <1>11 DEF MatrixOk
<1> QED
  BY <1>12, <1>13, Zenon DEF MatrixInv

\* The end of the loops changes nothing of that.
LEMMA MatrixDoneKeeps == MatrixInv /\ MatrixDone => MatrixInv'
<1> SUFFICES ASSUME MatrixInv, MatrixDone PROVE MatrixInv'
  OBVIOUS
<1>1. PICK pc, index, edges, lists, cap, left, right, tested, yes, no :
          /\ advice = MatrixRec(pc, index, edges, lists, cap, left, right, tested, yes, no)
          /\ MatrixOk(index, edges, lists, left, right, tested, yes, no)
  BY Zenon DEF MatrixInv
<1>2. advice' = [advice EXCEPT !.pc = "done"]
  BY DEF MatrixDone
<1>3. advice' = MatrixRec("done", index, edges, lists, cap, left, right, tested, yes, no)
  BY <1>1, <1>2 DEF MatrixRec
<1> QED
  BY <1>1, <1>3, Zenon DEF MatrixInv

\* What the matrix says is right, and says it of every pair when it is sure.
LEMMA MatrixAtEnd == MatrixInv => MatrixSound
<1> SUFFICES ASSUME MatrixInv PROVE MatrixSound
  OBVIOUS
<1>1. PICK pc, index, edges, lists, cap, left, right, tested, yes, no :
          /\ advice = MatrixRec(pc, index, edges, lists, cap, left, right, tested, yes, no)
          /\ MatrixOk(index, edges, lists, left, right, tested, yes, no)
  BY Zenon DEF MatrixInv
<1>2. /\ advice.index = index /\ advice.edges = edges /\ advice.lists = lists /\ advice.tested = tested
      /\ advice.compatible = yes /\ advice.incompatible = no
  BY <1>1 DEF MatrixRec
<1>3. /\ index \in Indexes /\ BothListed(lists) /\ AtPair(Len(lists[1]), Len(lists[2]), left, right, tested)
      /\ SortedOut(index, edges, lists, left, right, yes, no)
  BY <1>1 DEF MatrixOk
<1>4. \A p : Fits(p, index, edges) <=> Holds(p, index, edges)
  <2> SUFFICES ASSUME NEW p PROVE Fits(p, index, edges) <=> Holds(p, index, edges)
    OBVIOUS
  <2> DEFINE selected == Selected(p, index)
  <2>1. /\ selected \in Known(Ranks)
        /\ \A n \in DOMAIN selected : n \in DOMAIN index /\ selected[n] \in ToSet(index[n])
    BY <1>3, PairsAreSelections
  <2> HIDE DEF selected
  <2>2. Compatible(selected, index, edges) <=> Stands(selected, index, edges)
    BY <1>3, <2>1, StandsIff
  <2> QED
    BY <2>2 DEF Fits, Holds, selected
<1>5. (\A p \in yes : Holds(p, index, edges)) /\ \A p \in no : ~ Holds(p, index, edges)
  BY <1>3, <1>4 DEF SortedOut
<1>6. ASSUME ~ (tested < Len(lists[1]) * Len(lists[2])) PROVE yes \cup no = Pairs(lists)
  <2>1. /\ Len(lists[1]) \in Nat \ {0} /\ Len(lists[2]) \in Nat \ {0}
        /\ DOMAIN lists[1] = 1..Len(lists[1]) /\ DOMAIN lists[2] = 1..Len(lists[2])
    BY <1>3, BothLengths
  <2>2. ~ (left <= Len(lists[1]))
    BY <1>3, <1>6, <2>1, PairsShort
  <2>3. \A i \in DOMAIN lists[1] : i < left
    BY <1>3, <2>1, <2>2 DEF AtPair
  <2>4. \A i \in DOMAIN lists[1], j \in DOMAIN lists[2] : PairAt(lists, i, j) \in yes \cup no
    BY <1>3, <2>3 DEF SortedOut
  <2>5. \A p \in Pairs(lists) : \E i \in DOMAIN lists[1], j \in DOMAIN lists[2] : p = PairAt(lists, i, j)
    BY DEF Pairs, PairAt, ToSet
  <2>6. yes \cup no \subseteq Pairs(lists)
    BY <1>3 DEF SortedOut
  <2> QED
    BY <2>4, <2>5, <2>6
<1>7. MatrixConfidence(advice) = "high" => ~ (tested < Len(lists[1]) * Len(lists[2]))
  <2> DEFINE all == Len(lists[1]) * Len(lists[2])
  <2>1. MatrixConfidence(advice) =
            CASE tested = 0 -> "low"
              [] tested # 0 /\ tested < all -> "medium"
              [] OTHER -> "high"
    BY <1>2, Zenon DEF MatrixConfidence
  <2>2. tested = 0 \/ (tested # 0 /\ tested < all) => MatrixConfidence(advice) # "high"
    <3> HIDE DEF all
    <3> QED
      BY <2>1
  <2>3. tested = 0 => MatrixConfidence(advice) # "high"
    BY <2>2
  <2> HIDE DEF all
  <2> QED
    BY <2>2, <2>3 DEF all
<1> QED
  BY <1>2, <1>5, <1>6, <1>7, Zenon DEF MatrixSound, Pairs

-----------------------------------------------------------------------------
(* dependency_audit. *)

\* The issues of an indexed dependency.
OpenOf(index, facts, n, req) ==
    LET found == Selection(index[n], req)
    IN  Troubles(index, facts, n, found) \cup (IF req # {} /\ found = {} THEN {"unresolved"} ELSE {})

\* What the counters and the issues say of dependency n, once it is audited.
AuditedOk(index, wanted, facts, issues, unresolved, bare, unclear, n) ==
    IF n \in DOMAIN index
    THEN /\ \A f : <<n, f>> \in issues <=> f \in OpenOf(index, facts, n, wanted[n])
         /\ wanted[n] = {} => bare > 0
         /\ <<n, "unknown advisory">> \in issues => unclear > 0
    ELSE unresolved > 0 /\ <<n, "unresolved">> \in issues

AuditRec(pc, index, wanted, facts, audited, issues, unresolved, bare, unclear) ==
    [tool |-> "dependency_audit", pc |-> pc, index |-> index, wanted |-> wanted, facts |-> facts,
     audited |-> audited, issues |-> issues, unresolved |-> unresolved, bare |-> bare, unclear |-> unclear]

AuditOk(pc, index, wanted, facts, audited, issues, unresolved, bare, unclear) ==
    /\ index \in Indexes /\ facts \in [Versioned -> SUBSET Facts]
    /\ DOMAIN wanted \subseteq Crates /\ \A n \in DOMAIN wanted : wanted[n] \in Requirement
    /\ unresolved \in Nat /\ bare \in Nat /\ unclear \in Nat
    /\ pc = "done" => DOMAIN wanted \subseteq DOMAIN audited
    /\ \A n, f : <<n, f>> \in issues => n \in DOMAIN audited
    /\ \A n \in DOMAIN audited : AuditedOk(index, wanted, facts, issues, unresolved, bare, unclear, n)

AuditInv ==
    \E pc, index, wanted, facts, audited, issues, unresolved, bare, unclear :
        /\ advice = AuditRec(pc, index, wanted, facts, audited, issues, unresolved, bare, unclear)
        /\ AuditOk(pc, index, wanted, facts, audited, issues, unresolved, bare, unclear)

\* An audit starts with nothing audited.
LEMMA AuditStarts == BeginAudit => AuditInv
<1> SUFFICES ASSUME BeginAudit PROVE AuditInv
  OBVIOUS
<1>1. PICK index \in Indexes, wanted \in Manifests, facts \in FactTables :
          advice = AuditRec("audit", index, wanted, facts, <<>>, {}, 0, 0, 0)
  BY DEF BeginAudit, AuditRec
<1>2. /\ facts \in [Versioned -> SUBSET Facts] /\ DOMAIN wanted \subseteq Crates
      /\ \A n \in DOMAIN wanted : wanted[n] \in Requirement
  BY AdviceBounds
<1>3. DOMAIN <<>> = {}
  OBVIOUS
<1>4. AuditOk("audit", index, wanted, facts, <<>>, {}, 0, 0, 0)
  BY <1>2, <1>3 DEF AuditOk
<1> QED
  BY <1>1, <1>4, Zenon DEF AuditInv

\* A dependency audited keeps what was said of it when others follow.
LEMMA AuditedStays ==
    ASSUME NEW index, NEW wanted, NEW facts, NEW issues, NEW n, NEW more, \A f : <<n, f>> \notin more,
           NEW u1 \in Nat, NEW b1 \in Nat, NEW c1 \in Nat, NEW u2 \in Nat, NEW b2 \in Nat, NEW c2 \in Nat,
           u1 <= u2, b1 <= b2, c1 <= c2,
           AuditedOk(index, wanted, facts, issues, u1, b1, c1, n)
    PROVE  AuditedOk(index, wanted, facts, issues \cup more, u2, b2, c2, n)
<1>1. \A f : <<n, f>> \in issues \cup more <=> <<n, f>> \in issues
  OBVIOUS
<1>2. (u1 > 0 => u2 > 0) /\ (b1 > 0 => b2 > 0) /\ (c1 > 0 => c2 > 0)
  OBVIOUS
<1> QED
  BY <1>1, <1>2, Zenon DEF AuditedOk

\* One dependency that is not indexed.
LEMMA AuditUnknownKeeps == AuditInv /\ (\E n \in Crates : AuditUnknown(n)) => AuditInv'
<1> SUFFICES ASSUME AuditInv, NEW n \in Crates, AuditUnknown(n) PROVE AuditInv'
  OBVIOUS
<1>1. PICK pc, index, wanted, facts, audited, issues, unresolved, bare, unclear :
          /\ advice = AuditRec(pc, index, wanted, facts, audited, issues, unresolved, bare, unclear)
          /\ AuditOk(pc, index, wanted, facts, audited, issues, unresolved, bare, unclear)
  BY Zenon DEF AuditInv
<1>2. /\ advice.pc = pc /\ advice.index = index /\ advice.wanted = wanted /\ advice.audited = audited
      /\ advice.issues = issues /\ advice.unresolved = unresolved
  BY <1>1 DEF AuditRec
<1> DEFINE now == With(audited, n, {"not indexed"})
           more == {<<n, "unresolved">>}
<1>3. /\ pc = "audit" /\ n \in DOMAIN wanted /\ n \notin DOMAIN audited /\ n \notin DOMAIN index
      /\ advice' = [advice EXCEPT !.audited = now, !.unresolved = unresolved + 1, !.issues = issues \cup more]
  BY <1>2 DEF AuditUnknown
<1>4. DOMAIN now = DOMAIN audited \cup {n}
  BY WithDomain
<1> HIDE DEF now
<1>5. unresolved \in Nat /\ bare \in Nat /\ unclear \in Nat
  BY <1>1 DEF AuditOk
<1>6. ASSUME NEW m \in DOMAIN audited
      PROVE  AuditedOk(index, wanted, facts, issues \cup more, unresolved + 1, bare, unclear, m)
  <2>1. AuditedOk(index, wanted, facts, issues, unresolved, bare, unclear, m)
    BY <1>1 DEF AuditOk
  <2>2. \A f : <<m, f>> \notin more
    BY <1>3
  <2>3. unresolved + 1 \in Nat /\ unresolved <= unresolved + 1 /\ bare <= bare /\ unclear <= unclear
    BY <1>5
  <2> HIDE DEF more
  <2> QED
    BY <1>5, <2>1, <2>2, <2>3, AuditedStays
<1>7. AuditedOk(index, wanted, facts, issues \cup more, unresolved + 1, bare, unclear, n)
  <2>1. unresolved + 1 > 0
    BY <1>5
  <2> QED
    BY <1>3, <2>1 DEF AuditedOk
<1>8. \A m, f : <<m, f>> \in issues \cup more => m \in DOMAIN now
  BY <1>1, <1>4 DEF AuditOk
<1> HIDE DEF more
<1>9. advice' = AuditRec(pc, index, wanted, facts, now, issues \cup more, unresolved + 1, bare, unclear)
  BY <1>1, <1>3 DEF AuditRec
<1>10. AuditOk(pc, index, wanted, facts, now, issues \cup more, unresolved + 1, bare, unclear)
  BY <1>1, <1>3, <1>4, <1>5, <1>6, <1>7, <1>8 DEF AuditOk
<1> QED
  BY <1>9, <1>10, Zenon DEF AuditInv

\* One that is.
LEMMA AuditDependencyKeeps == AuditInv /\ (\E n \in Crates : AuditDependency(n)) => AuditInv'
<1> SUFFICES ASSUME AuditInv, NEW n \in Crates, AuditDependency(n) PROVE AuditInv'
  OBVIOUS
<1>1. PICK pc, index, wanted, facts, audited, issues, unresolved, bare, unclear :
          /\ advice = AuditRec(pc, index, wanted, facts, audited, issues, unresolved, bare, unclear)
          /\ AuditOk(pc, index, wanted, facts, audited, issues, unresolved, bare, unclear)
  BY Zenon DEF AuditInv
<1>2. /\ advice.pc = pc /\ advice.index = index /\ advice.wanted = wanted /\ advice.audited = audited
      /\ advice.issues = issues /\ advice.facts = facts /\ advice.bare = bare /\ advice.unclear = unclear
  BY <1>1 DEF AuditRec
<1> DEFINE req == wanted[n]
           found == Selection(index[n], req)
           troubles == Troubles(index, facts, n, found)
           marks == troubles \cup (IF req = {} THEN {"missing requirement"} ELSE {})
           open == troubles \cup (IF req # {} /\ found = {} THEN {"unresolved"} ELSE {})
           now == With(audited, n, IF marks = {} THEN {"ok"} ELSE marks)
           more == {<<n, f>> : f \in open}
           bare2 == IF req = {} THEN bare + 1 ELSE bare
           unclear2 == IF "unknown advisory" \in troubles THEN unclear + 1 ELSE unclear
<1>3. /\ pc = "audit" /\ n \in DOMAIN wanted /\ n \notin DOMAIN audited /\ n \in DOMAIN index
      /\ advice' = [advice EXCEPT !.audited = now, !.issues = issues \cup more,
                                  !.bare = bare2, !.unclear = unclear2]
  BY <1>2, Zenon DEF AuditDependency
<1>4. DOMAIN now = DOMAIN audited \cup {n}
  BY WithDomain
<1>5. unresolved \in Nat /\ bare \in Nat /\ unclear \in Nat
  BY <1>1 DEF AuditOk
<1>6. open = OpenOf(index, facts, n, wanted[n])
  BY Zenon DEF OpenOf
<1>7. "unknown advisory" \in open => "unknown advisory" \in troubles
  OBVIOUS
<1> HIDE DEF now, marks, troubles, open, found
<1>8. /\ bare2 \in Nat /\ unclear2 \in Nat /\ bare <= bare2 /\ unclear <= unclear2 /\ unresolved <= unresolved
      /\ req = {} => bare2 > 0
      /\ "unknown advisory" \in troubles => unclear2 > 0
  <2> DEFINE asks == req # {}
             warned == "unknown advisory" \in troubles
  <2>1. bare2 = (IF asks THEN bare ELSE bare + 1) /\ unclear2 = (IF warned THEN unclear + 1 ELSE unclear)
    OBVIOUS
  <2> HIDE DEF asks, warned, bare2, unclear2
  <2>2. /\ bare2 \in Nat /\ unclear2 \in Nat /\ bare <= bare2 /\ unclear <= unclear2 /\ unresolved <= unresolved
        /\ (~ asks => bare2 > 0) /\ (warned => unclear2 > 0)
    BY <1>5, <2>1
  <2> QED
    BY <2>2 DEF asks, warned
<1> HIDE DEF bare2, unclear2
<1>9. \A m, f : <<m, f>> \in more => m = n
  OBVIOUS
<1>10. \A f : <<n, f>> \in issues \cup more <=> f \in open
  <2>1. \A f : <<n, f>> \notin issues
    BY <1>1, <1>3 DEF AuditOk
  <2>2. \A f : <<n, f>> \in more <=> f \in open
    OBVIOUS
  <2> HIDE DEF more
  <2> QED
    BY <2>1, <2>2
<1> HIDE DEF more
<1>11. ASSUME NEW m \in DOMAIN audited
       PROVE  AuditedOk(index, wanted, facts, issues \cup more, unresolved, bare2, unclear2, m)
  <2>1. AuditedOk(index, wanted, facts, issues, unresolved, bare, unclear, m)
    BY <1>1 DEF AuditOk
  <2>2. \A f : <<m, f>> \notin more
    BY <1>3, <1>9
  <2> QED
    BY <1>5, <1>8, <2>1, <2>2, AuditedStays
<1>12. AuditedOk(index, wanted, facts, issues \cup more, unresolved, bare2, unclear2, n)
  BY <1>3, <1>6, <1>7, <1>8, <1>10, Zenon DEF AuditedOk
<1>13. \A m, f : <<m, f>> \in issues \cup more => m \in DOMAIN now
  BY <1>1, <1>4, <1>9 DEF AuditOk
<1>14. advice' = AuditRec(pc, index, wanted, facts, now, issues \cup more, unresolved, bare2, unclear2)
  BY <1>1, <1>3 DEF AuditRec
<1>15. AuditOk(pc, index, wanted, facts, now, issues \cup more, unresolved, bare2, unclear2)
  <2>1. \A m \in DOMAIN now : AuditedOk(index, wanted, facts, issues \cup more, unresolved, bare2, unclear2, m)
    BY <1>4, <1>11, <1>12
  <2>2. pc # "done"
    BY <1>3
  <2> QED
    BY <1>1, <1>5, <1>8, <1>13, <2>1, <2>2 DEF AuditOk
<1> QED
  BY <1>14, <1>15, Zenon DEF AuditInv

\* The end of the audit: every dependency is audited.
LEMMA AuditDoneKeeps == AuditInv /\ AuditDone => AuditInv'
<1> SUFFICES ASSUME AuditInv, AuditDone PROVE AuditInv'
  OBVIOUS
<1>1. PICK pc, index, wanted, facts, audited, issues, unresolved, bare, unclear :
          /\ advice = AuditRec(pc, index, wanted, facts, audited, issues, unresolved, bare, unclear)
          /\ AuditOk(pc, index, wanted, facts, audited, issues, unresolved, bare, unclear)
  BY Zenon DEF AuditInv
<1>2. advice.wanted = wanted /\ advice.audited = audited
  BY <1>1 DEF AuditRec
<1>3. DOMAIN wanted = DOMAIN audited /\ advice' = [advice EXCEPT !.pc = "done"]
  BY <1>2 DEF AuditDone
<1>4. advice' = AuditRec("done", index, wanted, facts, audited, issues, unresolved, bare, unclear)
  BY <1>1, <1>3 DEF AuditRec
<1>5. AuditOk("done", index, wanted, facts, audited, issues, unresolved, bare, unclear)
  BY <1>1, <1>3 DEF AuditOk
<1> QED
  BY <1>4, <1>5, Zenon DEF AuditInv

\* No fact about a version is called "unresolved".
LEMMA TroublesNamed ==
    ASSUME NEW index \in Indexes, NEW facts \in [Versioned -> SUBSET Facts], NEW n \in DOMAIN index,
           NEW found \in SUBSET Ranks
    PROVE  "unresolved" \notin Troubles(index, facts, n, found)
<1>1. n \in Crates
  BY ListedRanks
<1>2. \A v \in found : facts[<<n, v>>] \subseteq Facts
  BY <1>1 DEF Versioned
<1>3. "unresolved" \notin Facts
  BY DEF Facts
<1>4. \A v \in found : "unresolved" \notin facts[<<n, v>>]
  BY <1>2, <1>3
<1> DEFINE known == UNION {facts[<<n, v>>] : v \in found}
           newer == IF \E v \in found : v # index[n][1] THEN {"outdated"} ELSE {}
<1>5. "unresolved" \notin known
  BY <1>4
<1>6. "unresolved" \notin newer
  OBVIOUS
<1>7. Troubles(index, facts, n, found) = known \cup newer
  BY Zenon DEF Troubles
<1> HIDE DEF known, newer
<1> QED
  BY <1>5, <1>6, <1>7

\* The verdict of the audit holds for the rows.
LEMMA AuditAtEnd == AuditInv /\ advice.pc = "done" => AuditSound
<1> SUFFICES ASSUME AuditInv, advice.pc = "done" PROVE AuditSound
  OBVIOUS
<1>1. PICK pc, index, wanted, facts, audited, issues, unresolved, bare, unclear :
          /\ advice = AuditRec(pc, index, wanted, facts, audited, issues, unresolved, bare, unclear)
          /\ AuditOk(pc, index, wanted, facts, audited, issues, unresolved, bare, unclear)
  BY Zenon DEF AuditInv
<1>2. /\ advice.pc = pc /\ advice.index = index /\ advice.wanted = wanted /\ advice.facts = facts
      /\ advice.issues = issues /\ advice.unresolved = unresolved /\ advice.bare = bare
      /\ advice.unclear = unclear
  BY <1>1 DEF AuditRec
<1> DEFINE Open(n) == {f \in {i[2] : i \in issues} : <<n, f>> \in issues}
<1>3. \A n, f : f \in Open(n) <=> <<n, f>> \in issues
  <2> SUFFICES ASSUME NEW n, NEW f, <<n, f>> \in issues PROVE f \in {i[2] : i \in issues}
    OBVIOUS
  <2>1. <<n, f>>[2] = f
    OBVIOUS
  <2> QED
    BY <2>1
<1> HIDE DEF Open
<1>4. /\ index \in Indexes /\ facts \in [Versioned -> SUBSET Facts]
      /\ unresolved \in Nat /\ bare \in Nat /\ unclear \in Nat
      /\ \A n \in DOMAIN wanted : wanted[n] \in Requirement
      /\ \A n \in DOMAIN wanted : AuditedOk(index, wanted, facts, issues, unresolved, bare, unclear, n)
  BY <1>1, <1>2 DEF AuditOk
<1>5. ASSUME NEW n \in DOMAIN wanted, Open(n) = {}, wanted[n] # {} \/ index[n] # <<>>
      PROVE  \E v \in ToSet(index[n]) : /\ wanted[n] = {} \/ v = Max(Candidates(index[n], wanted[n]))
                                        /\ facts[<<n, v>>] = {}
  <2> DEFINE found == Selection(index[n], wanted[n])
  <2>1. \A f : <<n, f>> \notin issues
    BY <1>3, <1>5
  <2>2. n \in DOMAIN index
    BY <1>4, <2>1, Zenon DEF AuditedOk
  <2>3. \A f : f \notin OpenOf(index, facts, n, wanted[n])
    BY <1>4, <2>1, <2>2, Zenon DEF AuditedOk
  <2>4. ~ (wanted[n] # {} /\ found = {})
    <3>1. wanted[n] # {} /\ found = {} => "unresolved" \in OpenOf(index, facts, n, wanted[n])
      BY DEF OpenOf
    <3> QED
      BY <2>3, <3>1
  <2>5. /\ \A v \in found : v \in ToSet(index[n]) /\ (wanted[n] # {} => v = Max(Candidates(index[n], wanted[n])))
        /\ wanted[n] = {} /\ index[n] # <<>> => found # {}
    BY <1>4, <2>2, SelectionIs
  <2>6. \A v \in found : \A f : f \notin facts[<<n, v>>]
    BY <2>3 DEF OpenOf, Troubles
  <2> HIDE DEF found
  <2>7. PICK v \in found : TRUE
    BY <1>5, <2>4, <2>5
  <2>8. facts[<<n, v>>] = {}
    <3>1. facts[<<n, v>>] \in SUBSET Facts
      <4>1. v \in Ranks /\ n \in Crates
        BY <1>4, <2>2, <2>5, ListedRanks
      <4> QED
        BY <1>4, <4>1 DEF Versioned
    <3> QED
      BY <2>6, <3>1
  <2> QED
    BY <2>5, <2>7, <2>8
<1>6. ASSUME NEW n \in DOMAIN wanted, AuditConfidence(advice) = "high"
      PROVE  /\ n \in DOMAIN index /\ wanted[n] # {}
             /\ Candidates(index[n], wanted[n]) = {} <=> "unresolved" \in Open(n)
             /\ "unknown advisory" \notin Open(n)
  <2>1. AuditConfidence(advice) = "high" <=>
            ~ (DOMAIN wanted = {}) /\ ~ (DOMAIN wanted # {} /\ unresolved + unclear + bare > 0)
    BY <1>2 DEF AuditConfidence
  <2>2. unresolved = 0 /\ unclear = 0 /\ bare = 0
    BY <1>4, <1>6, <2>1
  <2>3. ~ (unresolved > 0) /\ ~ (bare > 0) /\ ~ (unclear > 0)
    BY <2>2
  <2>4. /\ n \in DOMAIN index /\ wanted[n] # {} /\ <<n, "unknown advisory">> \notin issues
        /\ <<n, "unresolved">> \in issues <=> "unresolved" \in OpenOf(index, facts, n, wanted[n])
    BY <1>4, <2>3, Zenon DEF AuditedOk
  <2> DEFINE found == Selection(index[n], wanted[n])
  <2>5. found \in SUBSET Ranks /\ (found = {} <=> Candidates(index[n], wanted[n]) = {})
    <3>1. wanted[n] \in Requirement /\ index \in Indexes /\ n \in DOMAIN index /\ wanted[n] # {}
      BY <1>4, <2>4
    <3>2. \A v \in found : v \in Ranks
      BY <3>1, SelectionIs
    <3>3. found = {} <=> Candidates(index[n], wanted[n]) = {}
      BY <3>1, SelectionIs
    <3> HIDE DEF found
    <3> QED
      BY <3>2, <3>3, Zenon
  <2>6. "unresolved" \notin Troubles(index, facts, n, found)
    <3> HIDE DEF found
    <3> QED
      BY <1>4, <2>4, <2>5, TroublesNamed
  <2>7. "unresolved" \in OpenOf(index, facts, n, wanted[n]) <=> found = {}
    BY <2>4, <2>6 DEF OpenOf
  <2> HIDE DEF found
  <2> QED
    BY <1>3, <2>4, <2>5, <2>7
<1> QED
  BY <1>2, <1>5, <1>6, Zenon DEF AuditSound, Open

-----------------------------------------------------------------------------
(* All of the tools. *)

AdviceInv == ResolveInv \/ MatrixInv \/ AuditInv \/ CompareInv

\* Each part is about one tool.
LEMMA ToolOf ==
    /\ ResolveInv => advice.tool = "dependency_resolve"
    /\ MatrixInv => advice.tool = "crate_compatibility_matrix"
    /\ AuditInv => advice.tool = "dependency_audit"
    /\ CompareInv => advice.tool = "crate_compare"
<1>1. ResolveInv => advice.tool = "dependency_resolve"
  BY DEF ResolveInv, ResolveRec
<1>2. MatrixInv => advice.tool = "crate_compatibility_matrix"
  BY DEF MatrixInv, MatrixRec
<1>3. AuditInv => advice.tool = "dependency_audit"
  BY DEF AuditInv, AuditRec
<1>4. CompareInv => advice.tool = "crate_compare"
  BY DEF CompareInv, CompareRec
<1> QED
  BY <1>1, <1>2, <1>3, <1>4

\* No step touches another tool's answer.
LEMMA AdviceGoesOn == AdviceInv /\ [AdviceNext]_adviceVars => AdviceInv'
<1> SUFFICES ASSUME AdviceInv, [AdviceNext]_adviceVars PROVE AdviceInv'
  OBVIOUS
<1> USE ToolOf
<1>1. CASE MergeEntry
  BY <1>1, MergeEntryKeeps DEF AdviceInv, MergeEntry
<1>2. CASE CutInputs
  BY <1>2, CutInputsKeeps DEF AdviceInv, CutInputs
<1>3. CASE CheckEdges
  BY <1>3, CheckEdgesKeeps DEF AdviceInv, CheckEdges
<1>4. CASE \E n \in Crates : SelectVersion(n)
  BY <1>4, SelectVersionKeeps DEF AdviceInv, SelectVersion
<1>5. CASE TestPair
  BY <1>5, TestPairKeeps DEF AdviceInv, TestPair
<1>6. CASE MatrixDone
  BY <1>6, MatrixDoneKeeps DEF AdviceInv, MatrixDone
<1>7. CASE CompareSides
  BY <1>7, CompareKeeps DEF AdviceInv, CompareSides
<1>8. CASE \E n \in Crates : AuditUnknown(n)
  BY <1>8, AuditUnknownKeeps DEF AdviceInv, AuditUnknown
<1>9. CASE \E n \in Crates : AuditDependency(n)
  BY <1>9, AuditDependencyKeeps DEF AdviceInv, AuditDependency
<1>10. CASE AuditDone
  BY <1>10, AuditDoneKeeps DEF AdviceInv, AuditDone
<1>11. CASE UNCHANGED adviceVars
  <2>1. advice' = advice
    BY <1>11 DEF adviceVars
  <2>2. ResolveInv => ResolveInv'
    BY <2>1, Zenon DEF ResolveInv
  <2>3. ASSUME MatrixInv PROVE MatrixInv'
    <3>1. PICK pc, index, edges, lists, cap, left, right, tested, yes, no :
              /\ advice = MatrixRec(pc, index, edges, lists, cap, left, right, tested, yes, no)
              /\ MatrixOk(index, edges, lists, left, right, tested, yes, no)
      BY <2>3, Zenon DEF MatrixInv
    <3>2. advice' = MatrixRec(pc, index, edges, lists, cap, left, right, tested, yes, no)
      BY <2>1, <3>1, Zenon
    <3> QED
      BY <3>1, <3>2, Zenon DEF MatrixInv
  <2>4. AuditInv => AuditInv'
    BY <2>1, Zenon DEF AuditInv
  <2>5. CompareInv => CompareInv'
    BY <2>1, Zenon DEF CompareInv, RecommendationHolds
  <2> QED
    BY <2>2, <2>3, <2>4, <2>5 DEF AdviceInv
<1> QED
  BY <1>1, <1>2, <1>3, <1>4, <1>5, <1>6, <1>7, <1>8, <1>9, <1>10, <1>11 DEF AdviceNext

\* An answer that is done is sound.
LEMMA AdviceAtEnd == AdviceInv => AdviceSound
<1> SUFFICES ASSUME AdviceInv, advice.pc = "done"
             PROVE  CASE advice.tool = "dependency_resolve" -> ResolveSound
                      [] advice.tool = "crate_compatibility_matrix" -> MatrixSound
                      [] advice.tool = "crate_compare" -> RecommendationHolds
                      [] OTHER -> AuditSound
  BY DEF AdviceSound
<1>1. CompareInv => RecommendationHolds
  BY DEF CompareInv, CompareRec
<1> QED
  BY <1>1, ToolOf, ResolveAtEnd, MatrixAtEnd, AuditAtEnd DEF AdviceInv

\* AdviceHolds: whatever the index holds and whatever is asked, the advice of
\* dependency_resolve, of the compatibility tools, of dependency_audit and of
\* crate_compare holds for the rows (AdviceSound).
THEOREM AdviceHolds == AdviceSpec => []AdviceSound
<1>1. AdviceInit => AdviceInv
  BY ResolveStarts, MatrixStarts, AuditStarts, CompareStarts DEF AdviceInit, AdviceInv
<1>2. AdviceInv /\ [AdviceNext]_adviceVars => AdviceInv'
  BY AdviceGoesOn
<1>3. AdviceInv => AdviceSound
  BY AdviceAtEnd
<1> QED
  BY <1>1, <1>2, <1>3, PTL DEF AdviceSpec
=============================================================================
