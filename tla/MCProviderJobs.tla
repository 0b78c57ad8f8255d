--------------------------- MODULE MCProviderJobs ---------------------------
(* Small instances of ProviderJobs. *)
EXTENDS ProviderJobs, TLC

Symmetry == Permutations(Jobs) \union Permutations(Workers)
=============================================================================
