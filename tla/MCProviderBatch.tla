-------------------------- MODULE MCProviderBatch --------------------------
(* Instances of ProviderBatch for TLC.                                     *)
EXTENDS BatchImplementsContract, TLC

\* Jobs, workers, handlers and the chains GET starts are interchangeable.
Symmetry ==
    Permutations(Jobs) \cup Permutations(Workers) \cup Permutations(Handlers) \cup Permutations(Chains)
=============================================================================
