-------------------------- MODULE MCCapacityPledge --------------------------
(***************************************************************************)
(* A small instance of CapacityPledge for TLC.  Terms are counted in days, *)
(* so that the last day of a term reaches the one-percent floor.           *)
(***************************************************************************)
EXTENDS CapacityPledge
=============================================================================
