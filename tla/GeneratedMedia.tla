--------------------------- MODULE GeneratedMedia ---------------------------
(***************************************************************************)
(* What the user is promised of a generated image or video: once its card  *)
(* is shown it renders until it is done or has failed, a failed one can be *)
(* tried again, a finished one stays as it is, and any of them can be      *)
(* removed.                                                                *)
(***************************************************************************)
CONSTANT Items

VARIABLE state

States == {"none", "pending", "done", "error", "removed"}

Init == state = [i \in Items |-> "none"]

Becomes(i, from, to) == state[i] \in from /\ state' = [state EXCEPT ![i] = to]

\* A generation starts, or one more image of the same generation arrives.
Appear(i) == Becomes(i, {"none"}, "pending") \/ Becomes(i, {"none"}, "done")

Finish(i) == Becomes(i, {"pending"}, "done")

Fail(i) == Becomes(i, {"pending"}, "error")

TryAgain(i) == Becomes(i, {"error"}, "pending")

\* Removing a turn or a chat removes several at once; a generation may also
\* find its reply gone before its card was ever stored.
Remove ==
  \E S \in SUBSET Items :
    /\ S # {}
    /\ state' = [i \in Items |-> IF i \in S THEN "removed" ELSE state[i]]

\* After a restart what was being made has failed, or goes on.
Interrupt ==
  \E S \in SUBSET {i \in Items : state[i] = "pending"} :
    /\ S # {}
    /\ state' = [i \in Items |-> IF i \in S THEN "error" ELSE state[i]]

Next ==
  \/ \E i \in Items : Appear(i) \/ Finish(i) \/ Fail(i) \/ TryAgain(i)
  \/ Remove
  \/ Interrupt

Spec == Init /\ [][Next]_state

\* What is rendering does not render for ever.
Fairness == \A i \in Items : WF_state(Finish(i) \/ Fail(i))

FairSpec == Spec /\ Fairness

=============================================================================
