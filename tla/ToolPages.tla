----------------------------- MODULE ToolPages -----------------------------
(***************************************************************************)
(* Paging in the list tools.  A client asks for a first page and follows   *)
(* next_cursor; each tool has its own way from the rows the index holds to *)
(* the items of one page, and the number of rows it reads, the rows it     *)
(* drops and the order it sorts them in all meet the offset somewhere.     *)
(*                                                                         *)
(* A row is [group, good]: what group and good stand for is said at each   *)
(* tool.  An item is the number of its row in the listing of the first     *)
(* page.  Every page is a query of its own, or a run of ripgrep of its own:*)
(* some of them settle the order of the rows completely, some do not.      *)
(***************************************************************************)
EXTENDS Integers, Sequences, SequencesExt, FiniteSets, FiniteSetsExt, Ordered

CONSTANTS
    WalkTools,        \* the tools walked
    MaxRows,          \* rows the index holds
    MaxGroup,         \* groups they fall into
    PageLimits,       \* page sizes
    MatchCap,         \* matches taken from ripgrep for one dependent crate
    SearchCap,        \* matches source_search takes from ripgrep
    CandidateFactor   \* candidates crate_alternatives reads per item wanted

ASSUME PageBounds ==
    MaxRows \in Nat /\ MaxGroup \in Nat \ {0} /\ PageLimits \subseteq Nat \ {0}

TableRow == [group : 1..MaxGroup, good : BOOLEAN]

Rows(s) == [i \in DOMAIN s |-> i]

\* Mutant: the row more that shows there is another page is not read.
FetchedJustThePage(s, offset, limit) == SubSeq(s, offset + 1, Min({offset + limit, Len(s)}))

\* limit rows from the offset on, and one more to see whether there are more.
Fetched(s, offset, limit) == SubSeq(s, offset + 1, Min({offset + limit + 1, Len(s)}))

\* apply_pagination_limit, which most handlers spell out.
Paginated(s, limit) == [items |-> SubSeq(s, 1, Min({limit, Len(s)})), more |-> Len(s) > limit]

\* LIMIT limit + 1 OFFSET offset in SQL.
SqlPage(s, offset, limit) == Paginated(Fetched(s, offset, limit), limit)
-----------------------------------------------------------------------------
(* The tools. *)
CrateSearchPage(rows, offset, limit) == SqlPage(Rows(rows), offset, limit)
DocsSearchPage(rows, offset, limit) == SqlPage(Rows(rows), offset, limit)
VersionsPage(rows, offset, limit) == SqlPage(Rows(rows), offset, limit)
ImportPathPage(rows, offset, limit) == SqlPage(Rows(rows), offset, limit)

Good(rows) == InOrder({i \in DOMAIN rows : rows[i].good}, <)

\* good: extracted from rustdoc JSON, preferred when there is any; group: kind,
\* name, file and lines, which symbols that a macro generates share.
Preferred(rows) == IF Good(rows) = <<>> THEN Rows(rows) ELSE Good(rows)
CrateApiPage(rows, offset, limit) == SqlPage(Preferred(rows), offset, limit)

\* group: the severity.  All hits are sorted before the page is cut.
BySeverity(rows) ==
    InOrder(DOMAIN rows, LAMBDA i, j : \/ rows[i].group < rows[j].group
                                       \/ rows[i].group = rows[j].group /\ i < j)
HotspotsPage(rows, offset, limit) == SqlPage(BySeverity(rows), offset, limit)

\* The hits collected until there are enough for this page and one more.
Collected(s, offset, limit) ==
    LET hits == SubSeq(s, 1, Min({offset + limit + 1, Len(s)}))
    IN  Paginated(SubSeq(hits, offset + 1, Len(hits)), limit)

\* group: the file; its first match is its hit.
FirstOfGroup(rows) ==
    InOrder({i \in 1..Min({SearchCap, Len(rows)}) :
                 \A j \in 1..(i - 1) : rows[j].group # rows[i].group}, <)
SourceSearchPage(rows, offset, limit) == Collected(FirstOfGroup(rows), offset, limit)

\* group: the dependent crate, searched up to MatchCap matches.
UnderCap(rows) ==
    InOrder({i \in DOMAIN rows :
                 Cardinality({j \in 1..i : rows[j].group = rows[i].group}) <= MatchCap}, <)
UsagePatternsPage(rows, offset, limit) == Collected(UnderCap(rows), offset, limit)

\* group: the identity of the impl; good: from rustdoc JSON, which wins, else
\* the first row does.  Duplicates are dropped from the rows of one page.
PrioritizeImplRows(rows, s) ==
    LET Before(i, j) == \/ rows[i].good /\ ~ rows[j].good
                        \/ rows[i].good = rows[j].good /\ i < j
        Wins(i) == \A j \in ToSet(s) : rows[j].group = rows[i].group /\ j # i => Before(i, j)
    IN  InOrder({i \in ToSet(s) : Wins(i)}, Before)
TraitImplsPage(rows, offset, limit) ==
    Paginated(PrioritizeImplRows(rows, Fetched(Rows(rows), offset, limit)), limit)

\* good: the candidate has a type row; one without is passed over, although the
\* offset counts it.
ErrorTypesPage(rows, offset, limit) ==
    LET entries == InOrder({i \in (offset + 1)..Len(rows) : rows[i].good}, <)
    IN  Paginated(SubSeq(entries, 1, Min({limit + 1, Len(entries)})), limit)

\* good: from rustdoc JSON, paged by the database; when the database returns
\* nothing the pub use statements of the source are parsed instead.  The offset
\* is skipped in what either returned.
ReExportsPage(rows, offset, limit) ==
    LET rustdoc == Fetched(Good(rows), offset, limit)
        parsed == InOrder({i \in DOMAIN rows : ~ rows[i].good}, <)
        found == IF rustdoc # <<>> THEN rustdoc
                 ELSE SubSeq(parsed, 1, Min({offset + limit + 1, Len(parsed)}))
    IN  Paginated(SubSeq(found, offset + 1, Len(found)), limit)

\* good: the candidate passes the policy and the relevance gate; group: its
\* score.  The page is cut from the best of a number of candidates that depends
\* on the page.
AlternativesPage(rows, offset, limit) ==
    LET read == 1..Min({(offset + limit + 1) * CandidateFactor, Len(rows)})
        ranked == InOrder({i \in read : rows[i].good},
                          LAMBDA i, j : \/ rows[i].group > rows[j].group
                                        \/ rows[i].group = rows[j].group /\ i < j)
    IN  SqlPage(ranked, offset, limit)

Page(tool, rows, offset, limit) ==
    CASE tool = "crate_search" -> CrateSearchPage(rows, offset, limit)
      [] tool = "docs_search" -> DocsSearchPage(rows, offset, limit)
      [] tool = "crate_versions" -> VersionsPage(rows, offset, limit)
      [] tool = "crate_import_path" -> ImportPathPage(rows, offset, limit)
      [] tool = "crate_api" -> CrateApiPage(rows, offset, limit)
      [] tool = "crate_hotspots" -> HotspotsPage(rows, offset, limit)
      [] tool = "source_search" -> SourceSearchPage(rows, offset, limit)
      [] tool = "crate_usage_patterns" -> UsagePatternsPage(rows, offset, limit)
      [] tool = "crate_trait_impls" -> TraitImplsPage(rows, offset, limit)
      [] tool = "crate_error_types" -> ErrorTypesPage(rows, offset, limit)
      [] tool = "crate_re_exports" -> ReExportsPage(rows, offset, limit)
      [] tool = "crate_alternatives" -> AlternativesPage(rows, offset, limit)
-----------------------------------------------------------------------------
(* A client follows the cursor. *)
VARIABLE listing
pageVars == <<listing>>

PageInit ==
    \E tool \in WalkTools, limit \in PageLimits, n \in 0..MaxRows :
    \E rows \in [1..n -> TableRow] :
        listing = [tool |-> tool, rows |-> rows, limit |-> limit, offset |-> 0,
                   got |-> <<>>, more |-> TRUE]

\* What every page keeps of the order: crate_api that of its sort keys, which
\* rows may share; ripgrep, which searches the files of a directory in parallel
\* and is not told to sort, that of the lines of a file (source_search), and
\* crate_usage_patterns that of the dependent crates, each match in a file of its
\* own.  crate_trait_impls, whose sort keys may be shared as well, loses items
\* already when the order is settled.
InAnyOrder == {"crate_api", "source_search", "crate_usage_patterns"}
Settled(tool, row, next) ==
    IF tool = "source_search" THEN row.group = next.group ELSE row.group # next.group

\* The orders a page may find the rows in.
PageOrders(tool, rows) ==
    IF tool \notin InAnyOrder THEN {Rows(rows)}
    ELSE {p \in Bijection(DOMAIN rows, DOMAIN rows) :
              \A i, j \in DOMAIN rows : i < j /\ p[j] < p[i] => ~ Settled(tool, rows[p[j]], rows[p[i]])}

\* resolve_pagination takes the offset from the cursor, next_cursor adds limit.
FollowCursor ==
    /\ listing.more
    /\ \E order \in PageOrders(listing.tool, listing.rows) :
          LET rows == [i \in DOMAIN order |-> listing.rows[order[i]]]
              page == Page(listing.tool, rows, listing.offset, listing.limit)
              items == [i \in DOMAIN page.items |-> order[page.items[i]]]
          IN  listing' = [listing EXCEPT !.got = @ \o items, !.more = page.more,
                                         !.offset = @ + listing.limit]
PageNext == FollowCursor

PageSpec == PageInit /\ [][PageNext]_pageVars
-----------------------------------------------------------------------------
(* Properties. *)

\* What one page large enough for everything gives.
OnePage == Page(listing.tool, listing.rows, 0, Len(listing.rows)).items

\* Following next_cursor to the end gives what one page large enough for
\* everything gives: no item is lost, repeated or out of order, whatever a
\* handler drops or sorts between the rows and the page.
WalkExact == ~ listing.more => listing.got = OnePage

\* Following next_cursor to the end gives every item once, in whatever order
\* (the claim of the README about the tools that page; false of those that drop
\* rows of a page and of those whose pages do not agree on the order).
EveryItemOnce ==
    ~ listing.more => IsInjective(listing.got) /\ ToSet(listing.got) = ToSet(OnePage)
=============================================================================
