--------------------------- MODULE MCLocalRegistry ---------------------------
(* Small instances of LocalRegistry for TLC.                                 *)
EXTENDS LocalRegistry

CONSTANTS a, b

\* Two crates, one with an older and a newer version.
TwoCrates == {a, b}
ThreeReleases == [c \in TwoCrates |-> IF c = a THEN 2 ELSE 1]

\* The first crate depends on the second.
AUsesB == [c \in TwoCrates |-> IF c = a THEN {b} ELSE {}]
=============================================================================
