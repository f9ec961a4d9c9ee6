--------------------------- MODULE AdvisoryRanges ---------------------------
(***************************************************************************)
(* Whether a stored advisory affects a crate version (advisories.rs).      *)
(*                                                                         *)
(* A version is its position in the semver precedence order, which ignores *)
(* build metadata; Unparsable stands for text that is not a version.  A    *)
(* stored range is a record of the format it was rendered in.              *)
(***************************************************************************)
EXTENDS Integers, FiniteSets, Sequences, SequencesExt

CONSTANT MaxVersion    \* bound: versions are 0..MaxVersion

ASSUME VersionAssumption == MaxVersion \in Nat

Versions == 0..MaxVersion
Unparsable == -2
Start == -1             \* the sentinel "introduced=0", before every version

Affected == "affected"
NotAffected == "not_affected"
Unknown == "unknown"

\* The stronger evidence of a set of verdicts: affected, then unknown.
Strongest(verdicts) ==
    IF Affected \in verdicts THEN Affected
    ELSE IF Unknown \in verdicts THEN Unknown ELSE NotAffected

-----------------------------------------------------------------------------
(* OSV ranges: a sequence of events and a set of upper limits.              *)

EventKinds == {"introduced", "fixed", "last_affected"}
Rank == [introduced |-> 1, fixed |-> 2, last_affected |-> 3]

\* parse_osv_events refuses a range it cannot evaluate.
OsvParsable(events) ==
    LET kinds == {events[i].kind : i \in DOMAIN events}
    IN  /\ "introduced" \in kinds
        /\ ~({"fixed", "last_affected"} \subseteq kinds)
        /\ \A i \in DOMAIN events : events[i].at # Unparsable

\* The order of the derived Ord on (bound, kind).
EventBefore(e, f) == e.at < f.at \/ (e.at = f.at /\ Rank[e.kind] < Rank[f.kind])
SortEvents(events) == SortSeq(events, EventBefore)

\* One step of osv_range_affects.
Transition(affected, e, v) ==
    CASE e.kind = "introduced" /\ v >= e.at -> TRUE
      [] e.kind = "fixed" /\ v >= e.at -> FALSE
      [] e.kind = "last_affected" /\ v > e.at -> FALSE
      [] OTHER -> affected

OsvRangeAffects(range, v) ==
    /\ range.limits = {} \/ \E l \in range.limits : v < l
    /\ FoldLeft(LAMBDA affected, e : Transition(affected, e, v), FALSE, SortEvents(range.events))

\* osv_applicability: any range that affects decides, one that cannot be
\* parsed leaves the answer open.
OsvApplicability(ranges, v) ==
    Strongest({IF ~OsvParsable(ranges[i].events) THEN Unknown
               ELSE IF OsvRangeAffects(ranges[i], v) THEN Affected ELSE NotAffected
               : i \in DOMAIN ranges})

-----------------------------------------------------------------------------
(* Comparators, shared by the two remaining formats.                        *)

Holds(c, v) ==
    CASE c.op = ">=" -> v >= c.at
      [] c.op = "<=" -> v <= c.at
      [] c.op = ">"  -> v > c.at
      [] c.op = "<"  -> v < c.at
      [] c.op = "="  -> v = c.at
      [] OTHER -> FALSE

Comparable(c) == c.op \in {">=", "<=", ">", "<", "="} /\ c.at # Unparsable

\* rustsec_applicability: vulnerable unless patched or unaffected; patched and
\* unaffected are sets of requirements, a requirement a set of comparators.
RustsecApplicability(range, v) ==
    LET reqs == range.patched \cup range.unaffected
    IN  IF \E req \in reqs : \E c \in req : ~Comparable(c) THEN Unknown
        ELSE IF \E req \in reqs : \A c \in req : Holds(c, v) THEN NotAffected
        ELSE Affected

\* ghsa_applicability: alternatives, each a set of comparators that must hold.
GhsaApplicability(alternatives, v) ==
    Strongest({IF \E c \in alt : ~Comparable(c) THEN Unknown
               ELSE IF \A c \in alt : Holds(c, v) THEN Affected ELSE NotAffected
               : alt \in alternatives})

\* range_applicability: withdrawn before all, then the version, then the format.
RangeApplicability(range, v) ==
    CASE range.format = "withdrawn" -> NotAffected
      [] range.format # "withdrawn" /\ v = Unparsable -> Unknown
      [] range.format = "osv" /\ v # Unparsable -> OsvApplicability(range.ranges, v)
      [] range.format = "rustsec_db" /\ v # Unparsable -> RustsecApplicability(range, v)
      [] range.format = "ghsa" /\ v # Unparsable -> GhsaApplicability(range.alternatives, v)
      [] OTHER -> Unknown

-----------------------------------------------------------------------------
(* advisories_for_version: the rows of one crate merged per advisory.       *)

Withdrawn(row) == ~row.resync /\ row.range.format = "withdrawn"

RowApplicability(row, vid, v) ==
    IF row.resync THEN Unknown
    ELSE IF row.vid = vid THEN Affected
    ELSE RangeApplicability(row.range, v)

\* The verdict for one advisory ID; rows is the set of its rows.
AdvisoryVerdict(rows, vid, v) ==
    IF \E row \in rows : Withdrawn(row) THEN NotAffected
    ELSE Strongest({RowApplicability(row, vid, v) : row \in rows})

\* advisories_for_version, as the IDs and their verdicts, and advisory_counts.
AdvisoriesForVersion(rows, vid, v) ==
    LET ids == {row.id : row \in rows}
        verdict == [id \in ids |-> AdvisoryVerdict({r \in rows : r.id = id}, vid, v)]
    IN  {<<id, verdict[id]>> : id \in {i \in ids : verdict[i] # NotAffected}}

AdvisoryCounts(rows, vid, v) ==
    LET found == AdvisoriesForVersion(rows, vid, v)
    IN  [affected |-> Cardinality({f \in found : f[2] = Affected}),
         unknown |-> Cardinality({f \in found : f[2] = Unknown})]
=============================================================================
