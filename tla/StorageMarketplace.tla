------------------------- MODULE StorageMarketplace -------------------------
(***************************************************************************)
(* Storage deals: a client escrows the price of a deal, the file's shards  *)
(* are assigned to providers, shards are lost and repaired, and the deal   *)
(* ends completed, cancelled or failed with its escrow paid out            *)
(* (smart-contracts/contracts/core/StorageMarketplace.sol).                *)
(*                                                                         *)
(* Every external function is one atomic action.  The calls it makes on    *)
(* the registry and the token are part of it: they use the operators of    *)
(* ProviderRegistry and TokenLedger, and a call that would revert is a     *)
(* conjunct of the guard.  The clock counts days.                          *)
(***************************************************************************)
EXTENDS ProviderRegistry, TokenLedger, SequencesExt

CONSTANTS
    Clients,          \* addresses that create deals
    Market,           \* the marketplace's own address
    Distributor,      \* the PaymentDistributor's address
    Treasuries,       \* addresses that may be the treasury
    NoAddress,        \* address(0)
    SHARDS_PER_FILE,  \* 15 in the contract: 10 data + 5 parity
    MIN_PROVIDERS,    \* 10 in the contract
    MIN_PRICE_USD,    \* 5000 in the contract
    Month,            \* 30 days
    KYN,              \* 10^18, the token's unit
    Selections,       \* provider lists passed to createDeal
    Sizes,            \* file sizes in GB
    Durations,        \* durations in days, for createDeal and renewDeal
    UsdPrices,        \* prices per GB and month passed to createDeal
    KynPrices,        \* prices of one KYN the owner may set
    FeeRates,         \* basis points the owner may set
    RetrievalAmounts, \* amounts locked by initiateRetrieval
    InitialKYN,       \* KYN each client starts with
    CarelessRepair,   \* whether a replacement may hold a shard already (see RepairArguments)
    MaxDeals,         \* bound: deals created
    MaxRetrievals     \* bound: retrievals initiated

MAX_FEE_BASIS_POINTS == 1000
BasisPoints == 10000

ASSUME MarketAddresses ==
    /\ Market \in Keepers
    /\ {Market, Distributor} \cup Treasuries \cup Clients \cup Providers \subseteq Accounts
    /\ Market \notin {Distributor} \cup Treasuries \cup Clients \cup Providers
    /\ NoAddress \notin Accounts
    /\ IsFiniteSet(Providers)
ASSUME MarketParameters ==
    /\ {SHARDS_PER_FILE, MIN_PROVIDERS, Month, KYN} \subseteq Nat \ {0}
    /\ MIN_PROVIDERS <= SHARDS_PER_FILE
    /\ MIN_PRICE_USD \in Nat
    /\ Selections \subseteq Seq(Providers)
    /\ Sizes \cup Durations \cup UsdPrices \cup FeeRates \cup RetrievalAmounts \subseteq Nat
    /\ KynPrices \subseteq Nat
    /\ {MaxDeals, MaxRetrievals, InitialKYN} \subseteq Nat
    /\ CarelessRepair \in BOOLEAN

VARIABLES
    deals,                  \* mapping(uint256 => Deal)
    dealCount,
    providerDeals,          \* mapping(address => uint256[])
    totalFeesCollected,
    protocolFeeBasisPoints,
    kynPriceUSD,
    treasury,
    paymentDistributor,
    retrievals,             \* retrievals 0..retrievalCount-1, as a sequence
    charged,                \* history: what the client paid into each deal
    paidOut,                \* history: what each deal's escrow paid out
    feesCharged             \* history: all protocol fees ever charged

bookVars == <<charged, paidOut, feesCharged>>
settingVars == <<protocolFeeBasisPoints, kynPriceUSD, treasury, paymentDistributor>>
marketVars ==
    <<deals, dealCount, providerDeals, totalFeesCollected, retrievals, balanceOf,
      settingVars, bookVars>>
vars == <<registryVars, marketVars>>

\* One id more than deals are created: an id that does not exist yet.
DealIds == 0..MaxDeals

DealStatus == {"Active", "Completed", "Failed", "Cancelled", "InGracePeriod"}
Running == {"Active", "InGracePeriod"}

ShardAllocation == [shardIndex: Nat, active: BOOLEAN]
NoAllocation == [shardIndex |-> 0, active |-> FALSE]

\* duration is endTime - startTime in days; file and shard CIDs and shard
\* sizes travel with shardIndex.
Deal ==
    [client: Clients \cup {NoAddress}, fileSizeGB: Nat, pricePerGBMonth: Nat,
     totalCost: Nat, startTime: Nat, endTime: Nat, providers: Seq(Providers),
     shardAllocations: [Providers -> ShardAllocation], activeShards: Nat,
     status: DealStatus, escrowedAmount: Nat]

\* What the mapping holds for an id that was never assigned: the enum's zero
\* value is Active.
NoDeal ==
    [client |-> NoAddress, fileSizeGB |-> 0, pricePerGBMonth |-> 0,
     totalCost |-> 0, startTime |-> 0, endTime |-> 0, providers |-> <<>>,
     shardAllocations |-> [p \in Providers |-> NoAllocation], activeShards |-> 0,
     status |-> "Active", escrowedAmount |-> 0]

\* The contracts deployed and wired by scripts/deploy-v2.js, except that the
\* payment distributor is still to be set, with every provider registered.
MarketStart ==
    /\ providers = [p \in Providers |-> NewProvider(0)]
    /\ providerList = SetToSeq(Providers)
    /\ authorizedRecordKeepers = {Market}
    /\ now = StartTime
    /\ offSince = [p \in Providers |-> StartTime]
    /\ deals = [d \in DealIds |-> NoDeal]
    /\ dealCount = 0
    /\ providerDeals = [p \in Providers |-> <<>>]
    /\ totalFeesCollected = 0
    /\ protocolFeeBasisPoints = 300
    /\ kynPriceUSD = 100000
    /\ treasury \in Treasuries
    /\ paymentDistributor = NoAddress
    /\ retrievals = <<>>
    /\ charged = [d \in DealIds |-> 0]
    /\ paidOut = [d \in DealIds |-> 0]
    /\ feesCharged = 0

MarketInit ==
    /\ MarketStart
    /\ balanceOf = [a \in Accounts |-> IF a \in Clients THEN InitialKYN ELSE 0]

(***************************************************************************)
(* Prices and fees.                                                        *)
(***************************************************************************)

Fee(amount) == (amount * protocolFeeBasisPoints) \div BasisPoints

totalMonths(days) == (days + Month - 1) \div Month

\* The price in KYN of a price in USD, at the current rate.
priceKYN(usd) == (usd * KYN) \div kynPriceUSD

(***************************************************************************)
(* A deal's life.                                                          *)
(***************************************************************************)

Holders(deal) == Range(deal.providers)

\* The deal's providers whose shard is still active: what the loops of
\* completeDeal and cancelDeal act on.
LiveHolders(deal) == {p \in Holders(deal) : deal.shardAllocations[p].active}

\* One shard too many may be lost.
TooFewShardsMutant(deal) == deal.activeShards + 1 < MIN_PROVIDERS

TooFewShards(deal) == deal.activeShards < MIN_PROVIDERS

\* Whether the deal still runs is not checked.
RunningDealOfMutant(deal, client) == deal.client = client

RunningDealOf(deal, client) ==
    /\ deal.status \in Running
    /\ deal.client = client

\* The deal r after createDeal filled it in.  createDeal appends to the array
\* and overwrites the allocations of the selected providers only.
CreatedDeal(r, client, selected, size, days, price, cost) ==
    [client |-> client, fileSizeGB |-> size, pricePerGBMonth |-> price,
     totalCost |-> cost, startTime |-> now, endTime |-> now + days,
     providers |-> r.providers \o selected,
     shardAllocations |->
        [p \in Providers |->
            IF p \in Range(selected)
            THEN [shardIndex |-> (CHOOSE i \in DOMAIN selected : selected[i] = p) - 1,
                  active |-> TRUE]
            ELSE r.shardAllocations[p]],
     activeShards |-> SHARDS_PER_FILE, status |-> "Active", escrowedAmount |-> cost]

createDeal(client, selected, size, days, usd) ==
    LET price           == priceKYN(usd)
        providerPayment == size * price * totalMonths(days)
        protocolFee     == Fee(providerPayment)
        totalCost       == providerPayment + protocolFee
        dealId          == dealCount
    IN  /\ dealCount < MaxDeals
        /\ Len(selected) = SHARDS_PER_FILE
        /\ usd >= MIN_PRICE_USD
        /\ \A i \in DOMAIN selected : isProviderActive(selected[i])
        /\ IsInjective(selected)
        /\ transfer(client, Market, totalCost)
        /\ totalFeesCollected' = totalFeesCollected + protocolFee
        /\ deals' = [deals EXCEPT ![dealId] =
                        CreatedDeal(@, client, selected, size, days, price, totalCost)]
        /\ dealCount' = dealCount + 1
        /\ providerDeals' = [p \in Providers |->
                                IF p \in Range(selected)
                                THEN Append(providerDeals[p], dealId)
                                ELSE providerDeals[p]]
        /\ charged' = [charged EXCEPT ![dealId] = @ + totalCost]
        /\ feesCharged' = feesCharged + protocolFee
        /\ UNCHANGED <<registryVars, retrievals, settingVars, paidOut>>


\* The deal with its remaining shards switched off.
ShardsReleased(deal) ==
    [deal EXCEPT
        !.shardAllocations = [p \in Providers |->
            IF p \in LiveHolders(deal) THEN [deal.shardAllocations[p] EXCEPT !.active = FALSE]
            ELSE deal.shardAllocations[p]],
        !.activeShards = @ - Cardinality(LiveHolders(deal))]

\* The escrow is paid out and yet kept on the books.
EndedMutant(deal, status, escrow) ==
    [deal EXCEPT !.status = status]

Ended(deal, status, escrow) ==
    [deal EXCEPT !.status = status, !.escrowedAmount = escrow]

completeDeal(d) ==
    LET deal            == deals[d]
        live            == LiveHolders(deal)
        protocolFee     == Fee(deal.totalCost)
        providerPayment == deal.escrowedAmount - protocolFee
        paid            == IF paymentDistributor # NoAddress THEN providerPayment ELSE 0
    IN  /\ deal.status = "Active"
        /\ now >= deal.endTime
        /\ ~TooFewShards(deal)
        /\ deal.activeShards >= Cardinality(live)
        /\ live # {} => onlyAuthorizedKeeper(Market)
        /\ \A p \in live : providers[p].registered
        /\ deal.escrowedAmount >= protocolFee
        /\ providers' = [p \in Providers |->
                            IF p \in live THEN DealCompletedOn(providers[p]) ELSE providers[p]]
        /\ NoteOff
        /\ deals' = [deals EXCEPT ![d] = Ended(ShardsReleased(@), "Completed", 0)]
        /\ IF paid > 0 THEN transfer(Market, paymentDistributor, paid)
                       ELSE UNCHANGED balanceOf
        /\ paidOut' = [paidOut EXCEPT ![d] = @ + paid]
        /\ UNCHANGED <<providerList, authorizedRecordKeepers, now, dealCount, providerDeals,
                       totalFeesCollected, retrievals, settingVars, charged, feesCharged>>

\* The part of the escrow that pays for the time not yet elapsed.
Refund(deal) ==
    LET elapsed       == IF now > deal.startTime THEN now - deal.startTime ELSE 0
        totalDuration == deal.endTime - deal.startTime
    IN  IF elapsed < totalDuration
        THEN (deal.escrowedAmount * (totalDuration - elapsed)) \div totalDuration
        ELSE 0

cancelDeal(client, d) ==
    LET deal == deals[d]
        refundAmount == Refund(deal)
    IN  /\ RunningDealOf(deal, client)
        /\ deal.activeShards >= Cardinality(LiveHolders(deal))
        /\ deals' = [deals EXCEPT ![d] = Ended(ShardsReleased(@), "Cancelled",
                                               @.escrowedAmount - refundAmount)]
        /\ IF refundAmount > 0 THEN transfer(Market, client, refundAmount)
                               ELSE UNCHANGED balanceOf
        /\ paidOut' = [paidOut EXCEPT ![d] = @ + refundAmount]
        /\ UNCHANGED <<registryVars, dealCount, providerDeals, totalFeesCollected, retrievals,
                       settingVars, charged, feesCharged>>

\* totalCost stays what createDeal made it.
RenewedDeal(deal, days, cost) ==
    [deal EXCEPT !.endTime = @ + days, !.escrowedAmount = @ + cost, !.status = "Active"]

renewDeal(client, d, days) ==
    LET deal        == deals[d]
        renewalCost == deal.fileSizeGB * deal.pricePerGBMonth * totalMonths(days)
        protocolFee == Fee(renewalCost)
        totalCost   == renewalCost + protocolFee
    IN  /\ RunningDealOf(deal, client)
        /\ transfer(client, Market, totalCost)
        /\ totalFeesCollected' = totalFeesCollected + protocolFee
        /\ deals' = [deals EXCEPT ![d] = RenewedDeal(@, days, totalCost)]
        /\ charged' = [charged EXCEPT ![d] = @ + totalCost]
        /\ feesCharged' = feesCharged + protocolFee
        /\ UNCHANGED <<registryVars, dealCount, providerDeals, retrievals, settingVars, paidOut>>

ShardLost(deal, p) ==
    [deal EXCEPT !.shardAllocations[p].active = FALSE, !.activeShards = @ - 1]

\* onlyOwner: the monitoring service's report.
reportLostShard(d, p) ==
    LET deal   == deals[d]
        lost   == ShardLost(deal, p)
        failed == TooFewShards(lost)
        refund == IF failed THEN deal.escrowedAmount ELSE 0
    IN  /\ deal.status \in Running
        /\ deal.shardAllocations[p].active
        /\ deal.activeShards > 0
        /\ deals' = [deals EXCEPT ![d] = IF failed THEN Ended(lost, "Failed", 0) ELSE lost]
        /\ IF refund > 0 THEN transfer(Market, deal.client, refund)
                         ELSE UNCHANGED balanceOf
        /\ IF failed
           THEN /\ onlyAuthorizedKeeper(Market)
                /\ providers[p].registered
                /\ providers' = [providers EXCEPT ![p] = DealFailedOn(@)]
           ELSE UNCHANGED providers
        /\ NoteOff
        /\ paidOut' = [paidOut EXCEPT ![d] = @ + refund]
        /\ UNCHANGED <<providerList, authorizedRecordKeepers, now, dealCount, providerDeals,
                       totalFeesCollected, retrievals, settingVars, charged, feesCharged>>

\* The array with the first occurrence of old replaced.
FirstReplaced(array, old, new) ==
    [i \in DOMAIN array |->
        IF array[i] = old /\ \A j \in 1..(i - 1) : array[j] # old THEN new ELSE array[i]]


\* The old allocation is deleted before the new one is written.
ShardRepaired(deal, old, new) ==
    [deal EXCEPT
        !.shardAllocations =
            [[@ EXCEPT ![old] = NoAllocation] EXCEPT
                ![new] = [shardIndex |-> deal.shardAllocations[old].shardIndex,
                          active |-> TRUE]],
        !.providers = FirstReplaced(@, old, new),
        !.activeShards = @ + 1]


\* The list without the first occurrence of d: the last entry takes its place.
removeProviderDeal(list, d) ==
    IF d \notin Range(list) THEN list
    ELSE LET i == CHOOSE k \in DOMAIN list :
                    list[k] = d /\ \A j \in 1..(k - 1) : list[j] # d
         IN  Front([list EXCEPT ![i] = Last(list)])

\* onlyOwner: the repair service's call.
repairShard(d, old, new) ==
    LET deal   == deals[d]
        pushed == [providerDeals EXCEPT ![new] = Append(@, d)]
    IN  /\ deal.status \in Running
        /\ ~deal.shardAllocations[old].active
        /\ isProviderActive(new)
        /\ deals' = [deals EXCEPT ![d] = ShardRepaired(@, old, new)]
        /\ providerDeals' = [pushed EXCEPT ![old] = removeProviderDeal(@, d)]
        /\ UNCHANGED <<registryVars, dealCount, totalFeesCollected, retrievals, balanceOf,
                       settingVars, bookVars>>

\* The providers the owner's services pass to repairShard, for a deal that is
\* short of shards: a provider of the deal whose shard is lost, and its
\* replacement.  The repair service's selectNewProvider takes one that has no
\* shard of the deal; the deal orchestrator's repairDeal takes the first of a
\* fresh selection, whoever it is.
RepairArguments(d) ==
    {pair \in Holders(deals[d]) \X Providers :
        /\ deals[d].activeShards < SHARDS_PER_FILE
        /\ CarelessRepair \/ pair[2] \notin Holders(deals[d])}

(***************************************************************************)
(* Paid retrievals, and the owner's settings.                              *)
(***************************************************************************)

\* The deal id is only checked for its status, and the provider not at all.
\* The id is stored and never read again: the record leaves it out.
initiateRetrieval(client, d, p, amount) ==
    /\ Len(retrievals) < MaxRetrievals
    /\ deals[d].status = "Active"
    /\ amount > 0
    /\ transfer(client, Market, amount)
    /\ retrievals' = Append(retrievals, [client |-> client, provider |-> p, amount |-> amount,
                                         completed |-> FALSE])
    /\ UNCHANGED <<registryVars, deals, dealCount, providerDeals, totalFeesCollected,
                   settingVars, bookVars>>

\* The retrieval is not marked as claimed.
claimRetrievalPaymentMutant(p, id) ==
    /\ ~retrievals[id].completed
    /\ retrievals[id].provider = p
    /\ transfer(Market, p, retrievals[id].amount)
    /\ UNCHANGED <<registryVars, retrievals, deals, dealCount, providerDeals, totalFeesCollected,
                   settingVars, bookVars>>

claimRetrievalPayment(p, id) ==
    /\ ~retrievals[id].completed
    /\ retrievals[id].provider = p
    /\ transfer(Market, p, retrievals[id].amount)
    /\ retrievals' = [retrievals EXCEPT ![id].completed = TRUE]
    /\ UNCHANGED <<registryVars, deals, dealCount, providerDeals, totalFeesCollected,
                   settingVars, bookVars>>

setProtocolFee(rate) ==
    /\ rate <= MAX_FEE_BASIS_POINTS
    /\ protocolFeeBasisPoints' = rate
    /\ UNCHANGED <<registryVars, deals, dealCount, providerDeals, totalFeesCollected, retrievals,
                   balanceOf, kynPriceUSD, treasury, paymentDistributor, bookVars>>

setTreasury(account) ==
    /\ treasury' = account
    /\ UNCHANGED <<registryVars, deals, dealCount, providerDeals, totalFeesCollected, retrievals,
                   balanceOf, protocolFeeBasisPoints, kynPriceUSD, paymentDistributor, bookVars>>

updateKynPrice(price) ==
    /\ price > 0
    /\ kynPriceUSD' = price
    /\ UNCHANGED <<registryVars, deals, dealCount, providerDeals, totalFeesCollected, retrievals,
                   balanceOf, protocolFeeBasisPoints, treasury, paymentDistributor, bookVars>>

setPaymentDistributor(account) ==
    /\ paymentDistributor = NoAddress
    /\ paymentDistributor' = account
    /\ UNCHANGED <<registryVars, deals, dealCount, providerDeals, totalFeesCollected, retrievals,
                   balanceOf, protocolFeeBasisPoints, kynPriceUSD, treasury, bookVars>>

\* The collected fees are not reset.
withdrawFeesMutant ==
    /\ totalFeesCollected > 0
    /\ totalFeesCollected' = totalFeesCollected
    /\ transfer(Market, treasury, totalFeesCollected)
    /\ UNCHANGED <<registryVars, deals, dealCount, providerDeals, retrievals, settingVars,
                   bookVars>>

withdrawFees ==
    /\ totalFeesCollected > 0
    /\ totalFeesCollected' = 0
    /\ transfer(Market, treasury, totalFeesCollected)
    /\ UNCHANGED <<registryVars, deals, dealCount, providerDeals, retrievals, settingVars,
                   bookVars>>

MarketNext ==
    \/ \E c \in Clients, selected \in Selections, size \in Sizes, days \in Durations,
          usd \in UsdPrices : createDeal(c, selected, size, days, usd)
    \/ \E d \in DealIds : completeDeal(d)
    \/ \E c \in Clients, d \in DealIds : cancelDeal(c, d)
    \/ \E c \in Clients, d \in DealIds, days \in Durations : renewDeal(c, d, days)
    \/ \E d \in DealIds, p \in Providers : reportLostShard(d, p)
    \/ \E d \in DealIds : \E pair \in RepairArguments(d) : repairShard(d, pair[1], pair[2])
    \/ \E c \in Clients, d \in DealIds, p \in Providers, amount \in RetrievalAmounts :
          initiateRetrieval(c, d, p, amount)
    \/ \E p \in Providers, id \in DOMAIN retrievals : claimRetrievalPayment(p, id)
    \/ \E rate \in FeeRates : setProtocolFee(rate)
    \/ \E account \in Treasuries : setTreasury(account)
    \/ \E price \in KynPrices : updateKynPrice(price)
    \/ setPaymentDistributor(Distributor)
    \/ withdrawFees
    \/ RegistryNextBy({Owner}) /\ UNCHANGED marketVars

MarketSpec == MarketInit /\ [][MarketNext]_vars

(***************************************************************************)
(* Properties.                                                             *)
(***************************************************************************)

Exists(d) == d < dealCount

SumOver(S, f(_)) == MapThenSumSet(f, S)

OpenRetrievals == {i \in DOMAIN retrievals : ~retrievals[i].completed}

\* Type correctness of the marketplace's own state.
MarketTypeOK ==
    /\ deals \in [DealIds -> Deal]
    /\ dealCount \in DealIds
    /\ providerDeals \in [Providers -> Seq(DealIds)]
    /\ {totalFeesCollected, kynPriceUSD, feesCharged} \subseteq Nat
    /\ protocolFeeBasisPoints \in 0..MAX_FEE_BASIS_POINTS
    /\ treasury \in Treasuries
    /\ paymentDistributor \in {NoAddress, Distributor}
    /\ balanceOf \in [Accounts -> Nat]
    /\ charged \in [DealIds -> Nat]
    /\ paidOut \in [DealIds -> Nat]

\* A deal that still runs has enough shards to reconstruct its file: however
\* losses, repairs and renewals interleave, reportLostShard fails the deal in
\* the very step that takes it below MIN_PROVIDERS.
RunningHasQuorum ==
    \A d \in DealIds :
        Exists(d) /\ deals[d].status \in Running => deals[d].activeShards >= MIN_PROVIDERS

\* A deal never pays out more than its client paid in: escrow, refunds and
\* the distributor's payment stay within what createDeal and renewDeal charged.
DealNeverOverpays ==
    \A d \in DealIds : paidOut[d] + deals[d].escrowedAmount <= charged[d]




\* The marketplace's books: what it owes to open deals, to open retrievals
\* and to the treasury.
Owed ==
    SumOver(DealIds, LAMBDA d : deals[d].escrowedAmount)
      + SumOver(OpenRetrievals, LAMBDA i : retrievals[i].amount)
      + totalFeesCollected

\* The contract never owes more than it holds by more than the protocol fees
\* it ever charged: a fee is booked both in totalFeesCollected and in the
\* deal's escrow, and nothing else is booked twice.
BooksOffByFeesOnly == Owed <= balanceOf[Market] + feesCharged

\* A deal that has ended is never touched again: its status, its escrow, its
\* shards and its payouts stay as they are, so no deal is paid twice.
EndedIsFinal ==
    [][\A d \in DealIds :
          deals[d].status \notin Running =>
              deals'[d] = deals[d] /\ paidOut'[d] = paidOut[d]]_vars

\* What the comment "Transfer payment to escrow" promises: the tokens a deal
\* has in escrow are in the contract.
EscrowsHeld ==
    balanceOf[Market] >= SumOver(DealIds, LAMBDA d : deals[d].escrowedAmount)

\* What cancelDeal documents: it is the client's early termination, so no deal
\* is cancelled once its term is over and its providers are to be paid.
CancelIsEarly ==
    [][\A d \in DealIds :
          deals[d].status # "Cancelled" /\ deals'[d].status = "Cancelled" =>
              now < deals[d].endTime]_vars
=============================================================================
