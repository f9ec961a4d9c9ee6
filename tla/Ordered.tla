------------------------------ MODULE Ordered ------------------------------
(***************************************************************************)
(* The order of a listing: ORDER BY of the database, sort_by of the        *)
(* handlers.                                                               *)
(***************************************************************************)
EXTENDS Integers, FiniteSets

\* A finite set listed in the order R: the i-th member is the one that i - 1
\* members come before.
Listed(S, R) ==
    [i \in 1..Cardinality(S) |-> CHOOSE r \in S : Cardinality({q \in S : <<q, r>> \in R}) = i - 1]

InOrder(S, Before(_, _)) == Listed(S, {p \in S \X S : Before(p[1], p[2])})
=============================================================================
