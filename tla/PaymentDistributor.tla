------------------------- MODULE PaymentDistributor -------------------------
(***************************************************************************)
(* The providers' earnings: capacity rewards and proof bonuses minted into *)
(* the distributor, usage rewards paid from completed deals, withdrawals,  *)
(* the protocol's fee and the repair reserve                               *)
(* (smart-contracts/contracts/core/PaymentDistributor.sol).                *)
(*                                                                         *)
(* The module puts the on-chain system together: the marketplace, the      *)
(* registry, the token and the pledges run beside the distributor.         *)
(***************************************************************************)
EXTENDS StorageMarketplace, CapacityPledge

CONSTANTS
    CapacityRates,   \* values of capacityRatePerGBMonth, the first of them a minimum
    PostBonuses,     \* values of postBonusPerSubmission
    ReserveDraws,    \* amounts passed to useRepairReserve
    MaxUsageBooked   \* bound: what distributeUsageRewards books in a behaviour

PROTOCOL_FEE_RATE == 300
RESERVE_RATE == 500

ASSUME DistributorAddresses ==
    /\ Pledgers \subseteq Providers
    /\ Distributor \in Contracts
    /\ Distributor \notin Providers \cup Clients \cup Treasuries \cup {PledgeContract}
    /\ PledgeContract \notin {Market} \cup Clients \cup Treasuries
ASSUME DistributorParameters ==
    /\ CapacityRates \cup PostBonuses \cup ReserveDraws \cup {MaxUsageBooked} \subseteq Nat

VARIABLES
    earnings,               \* mapping(address => ProviderEarnings)
    protocolFeeCollected,
    repairReserve,
    capacityRatePerGBMonth,
    postBonusPerSubmission,
    usageBooked             \* history: all that distributeUsageRewards has booked

reserveVars == <<protocolFeeCollected, repairReserve, usageBooked>>
rateVars == <<capacityRatePerGBMonth, postBonusPerSubmission>>
distVars == <<earnings, reserveVars, rateVars>>
burnVars == <<totalSupply, totalTokensBurned, minted, roleVars, inflationVars>>

\* The marketplace's variables without the balances.
dealVars ==
    <<deals, dealCount, providerDeals, totalFeesCollected, retrievals, settingVars, bookVars>>
standingVars == <<providers, providerList, authorizedRecordKeepers, offSince>>
systemVars == <<vars, burnVars, pledgeVars, distVars>>

\* lastClaimTimestamp is never read and left out.
ProviderEarnings ==
    [capacityRewards: Nat, usageRewards: Nat, proofBonuses: Nat, totalEarned: Nat,
     totalWithdrawn: Nat]

\* Deployed and wired by scripts/deploy-v2.js: the distributor may mint.
DistInit ==
    /\ MarketStart
    /\ TokenStart([a \in Accounts |-> IF a \in Clients THEN InitialKYN
                                      ELSE IF a \in Pledgers THEN PledgerKYN ELSE 0],
                  {Distributor}, {})
    /\ NoPledges
    /\ earnings = [p \in Providers |->
          [capacityRewards |-> 0, usageRewards |-> 0, proofBonuses |-> 0, totalEarned |-> 0,
           totalWithdrawn |-> 0]]
    /\ protocolFeeCollected = 0
    /\ repairReserve = 0
    /\ capacityRatePerGBMonth \in CapacityRates
    /\ postBonusPerSubmission \in PostBonuses
    /\ usageBooked = 0

\* The total is not increased.
EarnedMutant(e, kind, amount) == [e EXCEPT ![kind] = @ + amount]

\* Earnings e with amount credited under one of the three kinds.
Earned(e, kind, amount) ==
    [e EXCEPT ![kind] = @ + amount, !.totalEarned = @ + amount]


MintReward(amount) ==
    /\ Distributor \in authorizedMinters
    /\ MintTo(Distributor, amount)

CapacityReward(pledge) ==
    (pledge.capacityGB * capacityRatePerGBMonth * pledge.multiplier) \div 100

\* onlyOwner, as all but withdrawEarnings.  Nothing here waits for a month to pass.
distributeCapacityRewards(p, id) ==
    LET reward == CapacityReward(pledges[p][id])
    IN  /\ pledges[p][id].active
        /\ isProviderActive(p)
        /\ MintReward(reward)
        /\ earnings' = [earnings EXCEPT ![p] = Earned(@, "capacityRewards", reward)]
        /\ UNCHANGED <<standingVars, now, dealVars, roleVars, inflationVars, pledgeVars,
                       reserveVars, rateVars>>

\* The contract's literals 10 and 15 are the marketplace's MIN_PROVIDERS and
\* SHARDS_PER_FILE.  The fee and the reserve are not set apart from the balance.
distributeUsageRewards(d) ==
    LET deal           == deals[d]
        protocolFee    == (deal.totalCost * PROTOCOL_FEE_RATE) \div BasisPoints
        reserve        == (deal.totalCost * RESERVE_RATE) \div BasisPoints
        providerPool   == deal.totalCost - protocolFee - reserve
        perShardReward == providerPool \div SHARDS_PER_FILE
        shardsOf(p)    == IF deal.shardAllocations[p].active
                          THEN Cardinality({i \in DOMAIN deal.providers : deal.providers[i] = p})
                          ELSE 0
        booked         == protocolFee + reserve
                            + perShardReward * SumOver(Providers, shardsOf)
    IN  /\ deal.status = "Completed"
        /\ ~TooFewShards(deal)
        /\ Covers(Distributor, providerPool)
        /\ usageBooked + booked <= MaxUsageBooked
        /\ protocolFeeCollected' = protocolFeeCollected + protocolFee
        /\ repairReserve' = repairReserve + reserve
        /\ earnings' = [p \in Providers |->
                          Earned(earnings[p], "usageRewards", perShardReward * shardsOf(p))]
        /\ usageBooked' = usageBooked + booked
        /\ UNCHANGED <<vars, burnVars, pledgeVars, rateVars>>

payProofBonus(p) ==
    /\ isProviderActive(p)
    /\ earnings' = [earnings EXCEPT ![p] = Earned(@, "proofBonuses", postBonusPerSubmission)]
    /\ MintReward(postBonusPerSubmission)
    /\ UNCHANGED <<standingVars, now, dealVars, roleVars, inflationVars, pledgeVars,
                   reserveVars, rateVars>>

Withdrawn(e, amount) == [e EXCEPT !.totalWithdrawn = @ + amount]

withdrawEarnings(p) ==
    LET available == earnings[p].totalEarned - earnings[p].totalWithdrawn
    IN  /\ available > 0
        /\ earnings' = [earnings EXCEPT ![p] = Withdrawn(@, available)]
        /\ transfer(Distributor, p, available)
        /\ UNCHANGED <<standingVars, now, dealVars, burnVars, pledgeVars, reserveVars, rateVars>>

withdrawProtocolFees(recipient) ==
    /\ protocolFeeCollected > 0
    /\ protocolFeeCollected' = 0
    /\ transfer(Distributor, recipient, protocolFeeCollected)
    /\ UNCHANGED <<standingVars, now, dealVars, burnVars, pledgeVars, earnings, repairReserve,
                   usageBooked, rateVars>>

\* The reserve is not checked.
useRepairReserveMutant(newProvider, amount) ==
    /\ repairReserve' = repairReserve - amount
    /\ earnings' = [earnings EXCEPT ![newProvider] = Earned(@, "usageRewards", amount)]
    /\ UNCHANGED <<vars, burnVars, pledgeVars, protocolFeeCollected, usageBooked, rateVars>>

useRepairReserve(newProvider, amount) ==
    /\ repairReserve >= amount
    /\ repairReserve' = repairReserve - amount
    /\ earnings' = [earnings EXCEPT ![newProvider] = Earned(@, "usageRewards", amount)]
    /\ UNCHANGED <<vars, burnVars, pledgeVars, protocolFeeCollected, usageBooked, rateVars>>

\* usageRatePerGBMonth is never read and left out.
updateRates(newCapacityRate, newPostBonus) ==
    /\ capacityRatePerGBMonth' = newCapacityRate
    /\ postBonusPerSubmission' = newPostBonus
    /\ UNCHANGED <<vars, burnVars, pledgeVars, earnings, reserveVars>>

DistributorNext ==
    \/ \E p \in Pledgers : \E id \in DOMAIN pledges[p] : distributeCapacityRewards(p, id)
    \/ \E p \in Providers :
          \/ payProofBonus(p)
          \/ withdrawEarnings(p)
          \/ \E amount \in ReserveDraws : useRepairReserve(p, amount)
    \/ \E d \in DealIds : distributeUsageRewards(d)
    \/ \E recipient \in Treasuries : withdrawProtocolFees(recipient)
    \/ \E rate \in CapacityRates, bonus \in PostBonuses : updateRates(rate, bonus)

\* Steps of the other contracts leave the distributor's books alone.
SystemNext ==
    \/ DistributorNext
    \/ MarketNext /\ UNCHANGED <<burnVars, pledgeVars, distVars>>
    \/ PledgeNext /\ UNCHANGED <<standingVars, dealVars, distVars>>

SystemSpec == DistInit /\ [][SystemNext]_systemVars

(***************************************************************************)
(* Properties.                                                             *)
(***************************************************************************)

\* Type correctness of the distributor's books.
EarningsTypeOK ==
    /\ earnings \in [Providers -> ProviderEarnings]
    /\ {protocolFeeCollected, repairReserve, usageBooked} \subseteq Nat

\* A provider's total is the sum of its three kinds of earnings, and it has
\* withdrawn no more than that: the subtraction in withdrawEarnings never
\* reverts and no earning is paid twice.
EarningsConsistent ==
    \A p \in Providers :
        /\ earnings[p].totalEarned =
              earnings[p].capacityRewards + earnings[p].usageRewards + earnings[p].proofBonuses
        /\ earnings[p].totalWithdrawn <= earnings[p].totalEarned

\* What the distributor has promised and not paid.
Promised ==
    SumOver(Providers, LAMBDA p : earnings[p].totalEarned - earnings[p].totalWithdrawn)
      + protocolFeeCollected + repairReserve



\* What distributeUsageRewards' comment says: "Distribute usage rewards when
\* deal completes", so a completed deal passes its shard check.
CompletedDealsPayable ==
    \A d \in DealIds : deals[d].status = "Completed" => ~TooFewShards(deals[d])
=============================================================================
