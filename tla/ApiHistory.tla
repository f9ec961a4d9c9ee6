----------------------------- MODULE ApiHistory -----------------------------
(***************************************************************************)
(* crate_api_diff and crate_migration_path: the public symbols of two      *)
(* versions, each the best of the rows the index has for it, are compared  *)
(* key by key; the changes are sorted, cut at a limit and turned into      *)
(* actions.                                                                *)
(***************************************************************************)
EXTENDS Integers, Sequences, FiniteSets, FiniteSetsExt, SequencesExt, Ordered

CONSTANTS
    MaxSymbol,    \* symbols, by name and kind
    SymbolTables, \* the symbols tables of the old and the new version
    Renames,      \* pairs of a symbol and the one most like it
    DiffLimits    \* values of limit

\* A symbol is its name and kind.
Symbols == 1..MaxSymbol

\* Rows of the symbols table: where from, the signature text (0: none) and the
\* visibility.
SymbolRow == [source : {"rustdoc_json", "source"}, sig : Nat, vis : {"public", "none", "private"}]

ASSUME DiffBounds ==
    /\ MaxSymbol \in Nat
    /\ DiffLimits \subseteq Nat
    /\ \A p, q \in Renames : p[1] = q[1] => p = q
    /\ SymbolTables \subseteq [Symbols -> Seq(SymbolRow)] \X [Symbols -> Seq(SymbolRow)]

VARIABLE diff
diffVars == <<diff>>

\* SELECT DISTINCT ON (name, kind) among the rows that are not private: rustdoc
\* JSON first, then one with a signature, then the first in the file.
Better(a, b) ==
    \/ a.source = "rustdoc_json" /\ b.source # "rustdoc_json"
    \/ a.source = b.source /\ a.sig # 0 /\ b.sig = 0
Public(rows) == {i \in DOMAIN rows : rows[i].vis # "private"}
Best(rows) ==
    rows[CHOOSE i \in Public(rows) : \A j \in Public(rows) :
             ~ Better(rows[j], rows[i]) /\ (j < i => Better(rows[i], rows[j]))]

\* map_symbols
Snapshot(table) == [s \in {t \in Symbols : Public(table[t]) # {}} |->
                       LET r == Best(table[s]) IN [sig |-> r.sig, vis |-> r.vis]]

BeginDiff ==
    \E tables \in SymbolTables, limit \in DiffLimits, alike \in SUBSET Renames :
        diff = [pc |-> "old", old |-> Snapshot(tables[1]), new |-> Snapshot(tables[2]), alike |-> alike,
                limit |-> limit, at |-> 1, changes |-> <<>>,
                added |-> 0, removed |-> 0, changed |-> 0, breaking |-> FALSE, vague |-> 0,
                actions |-> {}, truncated |-> FALSE, confidence |-> "none"]
-----------------------------------------------------------------------------
Change(symbol, type, from, to, breaking) ==
    [symbol |-> symbol, type |-> type, from |-> from, to |-> to, breaking |-> breaking]
NoSymbol == [sig |-> 0, vis |-> "absent"]

\* Mutant: a signature that changed along with the visibility does not count.
ChangedVisibilityFirst(s, f, t) ==
    IF f.vis # t.vis
    THEN Change(s, "visibility changed", f, t, f.vis = "public" /\ t.vis = "private")
    ELSE Change(s, "signature changed", f, t, f.sig # t.sig)

\* A symbol of both versions that is not the same in both.
Changed(s, f, t) ==
    Change(s, IF f.vis # t.vis THEN "visibility changed" ELSE "signature changed", f, t,
           (f.vis = "public" /\ t.vis = "private") \/ f.sig # t.sig)

\* The first loop, over the symbols of the old version.
DiffOld ==
    LET s == diff.at
        f == diff.old[s]
        t == diff.new[s]
    IN
    /\ diff.pc = "old" /\ s \in Symbols
    /\ diff' = CASE s \notin DOMAIN diff.old \/ (s \in DOMAIN diff.new /\ f = t)
                        -> [diff EXCEPT !.at = @ + 1]
                 [] s \in DOMAIN diff.old /\ s \notin DOMAIN diff.new
                        -> [diff EXCEPT !.at = @ + 1, !.removed = @ + 1, !.breaking = TRUE,
                                        !.changes = Append(@, Change(s, "removed", f, NoSymbol, TRUE))]
                 [] OTHER
                        -> [diff EXCEPT !.at = @ + 1, !.changed = @ + 1,
                                        !.vague = IF f.sig = 0 \/ t.sig = 0 THEN @ + 1 ELSE @,
                                        !.breaking = @ \/ Changed(s, f, t).breaking,
                                        !.changes = Append(@, Changed(s, f, t))]

OldDone ==
    /\ diff.pc = "old" /\ diff.at \notin Symbols
    /\ diff' = [diff EXCEPT !.pc = "new", !.at = 1]

\* The second loop, over the symbols of the new version.
DiffNew ==
    LET s == diff.at IN
    /\ diff.pc = "new" /\ s \in Symbols
    /\ diff' = IF s \in DOMAIN diff.new \ DOMAIN diff.old
               THEN [diff EXCEPT !.at = @ + 1, !.added = @ + 1,
                         !.changes = Append(@, Change(s, "added", NoSymbol, diff.new[s], FALSE))]
               ELSE [diff EXCEPT !.at = @ + 1]

\* change_sort_rank
Rank(type) ==
    CASE type = "removed" -> 0
      [] type = "visibility changed" -> 1
      [] type = "signature changed" -> 2
      [] type = "added" -> 3

Sorted(changes) ==
    InOrder(ToSet(changes), LAMBDA a, b : \/ Rank(a.type) < Rank(b.type)
                                          \/ Rank(a.type) = Rank(b.type) /\ a.symbol < b.symbol)

\* The changes are sorted and cut; counts and flags are those of all changes.
CutChanges ==
    /\ diff.pc = "new" /\ diff.at \notin Symbols
    /\ diff' = [diff EXCEPT !.pc = "cut",
                            !.changes = SubSeq(Sorted(@), 1, Min({diff.limit, Len(@)})),
                            !.truncated = Len(diff.changes) > diff.limit,
                            !.confidence = CASE diff.old = <<>> \/ diff.new = <<>> -> "low"
                                             [] diff.old # <<>> /\ diff.new # <<>> /\ diff.vague > 0 -> "medium"
                                             [] OTHER -> "high"]

\* replacement_candidate: an added symbol like the removed one.
Replacement(change, changes) ==
    {c.symbol : c \in {d \in ToSet(changes) : change.type = "removed" /\ d.type = "added"
                                              /\ <<change.symbol, d.symbol>> \in diff.alike}}

\* crate_migration_path: an action for each breaking change of the diff.
MigrationPath ==
    /\ diff.pc = "cut"
    /\ diff' = [diff EXCEPT !.pc = "done",
                   !.actions = {[symbol |-> c.symbol, replacement |-> Replacement(c, diff.changes)] :
                                    c \in {d \in ToSet(diff.changes) : d.breaking \/ d.type = "removed"}},
                   !.confidence = IF diff.truncated THEN "medium" ELSE "high"]

DiffInit == BeginDiff
DiffNext == DiffOld \/ OldDone \/ DiffNew \/ CutChanges \/ MigrationPath

DiffSpec == DiffInit /\ [][DiffNext]_diffVars
-----------------------------------------------------------------------------
(* Properties. *)

\* What the changes make of the old version.
Patched(old, changes) ==
    LET gone == {c.symbol : c \in {d \in ToSet(changes) : d.type = "removed"}}
        told == {c.symbol : c \in {d \in ToSet(changes) : d.type # "removed"}}
        To(s) == (CHOOSE c \in ToSet(changes) : c.symbol = s).to
    IN  [s \in (DOMAIN old \ gone) \cup told |-> IF s \in told THEN To(s) ELSE old[s]]

\* Callers that compile against the old version and not against the new one: the
\* symbol is gone, or its signature is another.
Breaks(s) == s \in DOMAIN diff.old /\ (s \in DOMAIN diff.new => diff.old[s].sig # diff.new[s].sig)

\* The whole diff turns one version into the other; a diff cut at the limit has
\* lost additions before anything that can break a caller, and its counts and
\* its breaking flag still speak of all changes; and a migration path of high
\* confidence has an action for every symbol that breaks, with its new name.
DiffFaithful ==
    /\ diff.pc \in {"cut", "done"} =>
           /\ diff.truncated \/ Patched(diff.old, diff.changes) = diff.new
           /\ (\E i \in DOMAIN diff.changes : diff.changes[i].type = "added") =>
                  \A s \in Symbols : Breaks(s) => \E j \in DOMAIN diff.changes : diff.changes[j].symbol = s
           /\ diff.removed = Cardinality(DOMAIN diff.old \ DOMAIN diff.new)
           /\ diff.added = Cardinality(DOMAIN diff.new \ DOMAIN diff.old)
           /\ diff.breaking <=> \E s \in Symbols : Breaks(s)
    /\ diff.pc = "done" /\ diff.confidence = "high" =>
           /\ {a.symbol : a \in diff.actions} = {s \in Symbols : Breaks(s)}
           /\ \A a \in diff.actions :
                  a.replacement = {s \in DOMAIN diff.new \ DOMAIN diff.old :
                                       a.symbol \notin DOMAIN diff.new /\ <<a.symbol, s>> \in diff.alike}
=============================================================================
