------------------------ MODULE MCPaymentDistributor ------------------------
(***************************************************************************)
(* Small instances of the on-chain system for TLC: one deal of two shards, *)
(* one of which reconstructs the file, and two providers that pledge.      *)
(***************************************************************************)
EXTENDS PaymentDistributor

CONSTANTS p1, p2

OnePair == {<<p1, p2>>}

MCAccounts ==
    {Market, Distributor, PledgeContract, Deployer} \cup Treasuries \cup Clients \cup Providers
=============================================================================
