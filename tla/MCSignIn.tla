------------------------------ MODULE MCSignIn ------------------------------
(* Instances of SignIn for TLC. *)
EXTENDS SignIn, TLC

CONSTANTS a1, a2, g1, g2, s1, s2, w1, w2, t1, t2, i1, i2

TwoAccounts == {a1, a2}

\* An address and an X handle that differ in a capital.
TwoAddresses == {"owner", "Owner"}
AllLower == [e \in TwoAddresses |-> "owner"]

OneTab == {t1}
TwoTabs == {t1, t2}
TwoIps == {i1, i2}
OneWord == {w1}
TwoWords == {w1, w2}
TwoSlots == {"pollo", "venice"}
TwoSecrets == {s1, s2}
TwoPeople == {g1, g2}

\* Nothing configured; the same, after the secret was changed; dev; an open door.
FourPolicies ==
  LET Bare(s) == [open |-> FALSE, allowed |-> {}, admins |-> {}, dev |-> FALSE, secret |-> s]
  IN  {Bare(s1), Bare(s2), [Bare(s2) EXCEPT !.dev = TRUE], [Bare(s1) EXCEPT !.open = TRUE]}

Symmetry == Permutations({a1, a2}) \cup Permutations({g1, g2}) \cup Permutations({i1, i2})

=============================================================================
