----------------------------- MODULE BlockClock -----------------------------
(***************************************************************************)
(* The time the contracts see: block.timestamp, which never runs backwards *)
(* and stands still within a transaction.                                  *)
(***************************************************************************)
EXTENDS Integers

CONSTANTS
    StartTime,   \* block.timestamp when the contracts are deployed
    Instants     \* bound: the timestamps of the blocks mined afterwards

ASSUME ClockAssumption == StartTime \in Nat /\ Instants \subseteq Nat

VARIABLE now     \* block.timestamp

\* A block is mined, any time after the last one.
Advance == now' \in {t \in Instants : t > now}
=============================================================================
