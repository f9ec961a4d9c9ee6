--------------------------- MODULE MCSearchCache ---------------------------
(* Small instances of SearchCache for TLC; the cfg files give the bounds.   *)
EXTENDS SearchCache, TLC

\* Search calls are interchangeable.
ClientSymmetry == Permutations(Clients)
=============================================================================
