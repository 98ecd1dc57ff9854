--------------------------- MODULE MCOptionsBook ---------------------------
(* Small instances of OptionsBook. *)
EXTENDS OptionsBook, TLC

CONSTANTS o1, o2

OneClose == {o1}
TwoCloses == {o1, o2}
Interchangeable == Permutations(OrderIds)

\* The initial stop, the entry, targets, and highs that lift the trailing stop.
TwoTargets == {-5, 0, 3, 6}
Trailing == {-5, 3, 10, 15}
Live == {-5, 6}
=============================================================================
