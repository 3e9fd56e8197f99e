------------------------ MODULE MCProviderRegistry ------------------------
(* The registry alone, for TLC. *)
EXTENDS ProviderRegistry, TLC

\* Providers and keepers are interchangeable.
Symmetry == Permutations(Providers) \cup Permutations(Keepers)
=============================================================================
