----------------------------- MODULE MCChatTree -----------------------------
(* Instances of ChatTree for TLC. *)
EXTENDS ChatTree, TLC

CONSTANTS k1, k2, c1, c2

OneChat == {k1}
TwoChats == {k1, k2}
OneTab == {c1}
TwoTabs == {c1, c2}

\* Chats and tabs are interchangeable.
Symmetry == Permutations({k1, k2}) \cup Permutations({c1, c2})

=============================================================================
