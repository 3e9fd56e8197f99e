------------------------- MODULE MCSlashingManager -------------------------
(***************************************************************************)
(* Small instances of SlashingManager for TLC.  The windows keep their     *)
(* order: misses and appeals (48 hours) < cooldown (7 days) < repeats      *)
(* (30 days).                                                              *)
(***************************************************************************)
EXTENDS SlashingManager
=============================================================================
