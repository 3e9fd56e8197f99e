--------------------------- MODULE MCTokenVesting ---------------------------
(***************************************************************************)
(* A small instance of TokenVesting, and of the token below it, for TLC.   *)
(***************************************************************************)
EXTENDS TokenVesting
=============================================================================
