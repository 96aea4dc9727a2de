---------------------------- MODULE MCMediaItems ----------------------------
(* Instances of MediaItems for TLC. *)
EXTENDS MediaItems, TLC

CONSTANTS i1, i2, c1, c2

OneItem == {i1}
TwoItems == {i1, i2}
OneTab == {c1}
TwoTabs == {c1, c2}

\* Items and tabs are interchangeable.
Symmetry == Permutations({i1, i2}) \cup Permutations({c1, c2})

=============================================================================
