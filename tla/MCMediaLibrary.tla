--------------------------- MODULE MCMediaLibrary ---------------------------
(* Instances of MediaLibrary for TLC. *)
EXTENDS MediaLibrary, TLC

CONSTANTS c1, c2, u1, g1, t1, t2

OneChat == {c1}
TwoChats == {c1, c2}
OneUpload == {u1}
OnePicture == {g1}
Copies == [g \in OnePicture |-> u1]
OneHandler == {t1}
TwoHandlers == {t1, t2}

\* Chats are interchangeable.
Symmetry == Permutations({c1, c2})

=============================================================================
