-------------------------- MODULE MCProofVerifier --------------------------
(***************************************************************************)
(* Small instances of ProofVerifier for TLC.  The clock counts in units of *)
(* two hours: an interval of 12, and a grace period of 1.                  *)
(***************************************************************************)
EXTENDS ProofVerifier

\* Hashes around the byte boundary, of which <<0, 15>> starts with 12 zero
\* bits and <<0, 16>> with 11.
SomeHashes == {<<0, 0>>, <<0, 15>>, <<0, 16>>, <<1, 0>>}

\* One hash that passes 8 bits of difficulty and one that does not.
TwoHashes == {<<0, 0>>, <<1, 0>>}
=============================================================================
