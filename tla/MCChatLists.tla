---------------------------- MODULE MCChatLists ----------------------------
(* Instances of ChatLists for TLC. *)
EXTENDS ChatLists, TLC

CONSTANTS c1, c2, s1, p1, p2, t1, t2

TwoChats == {c1, c2}
OneSpace == {s1}
TwoPictures == {p1, p2}
OneThread == {t1}
TwoThreads == {t1, t2}

\* Chats and pictures are interchangeable.
Symmetry == Permutations({c1, c2}) \cup Permutations({p1, p2})

=============================================================================
