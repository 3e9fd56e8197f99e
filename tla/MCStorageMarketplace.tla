------------------------ MODULE MCStorageMarketplace ------------------------
(***************************************************************************)
(* Small instances of StorageMarketplace for TLC.  A deal of three shards, *)
(* two of which reconstruct the file, with one spare provider; or deals of *)
(* two shards, one of which does, where several deals matter.              *)
(***************************************************************************)
EXTENDS StorageMarketplace

CONSTANTS p1, p2, p3, p4

ThreeShards == {<<p1, p2, p3>>}

\* A good list, one that names a provider twice and one that is too short.
TwoShards == {<<p1, p2>>, <<p1, p1>>, <<p1>>}

OnePair == {<<p1, p2>>}

MCAccounts == {Market, Distributor} \cup Treasuries \cup Clients \cup Providers
=============================================================================
