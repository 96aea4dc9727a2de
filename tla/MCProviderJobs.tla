--------------------------- MODULE MCProviderJobs ---------------------------
(* Instances of ProviderJobs for TLC. *)
EXTENDS ProviderJobs, TLC

CONSTANT v1

OneJob == {v1}

=============================================================================
