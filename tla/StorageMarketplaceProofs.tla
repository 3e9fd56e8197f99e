---------------------- MODULE StorageMarketplaceProofs ----------------------
(***************************************************************************)
(* Proofs about StorageMarketplace.                                        *)
(***************************************************************************)
EXTENDS StorageMarketplace, FiniteSetTheorems, TLAPS

\* What the proofs need to know of the types.
DealsTyped ==
    /\ deals \in [DealIds -> Deal]
    /\ dealCount \in DealIds
    /\ protocolFeeBasisPoints \in Nat
    /\ kynPriceUSD \in Nat \ {0}
    /\ now \in Nat
    /\ charged \in [DealIds -> Nat]
    /\ paidOut \in [DealIds -> Nat]

-----------------------------------------------------------------------------
(* Arithmetic. *)

\* The quotient of natural numbers is a natural number.
LEMMA QuotientNat ==
    ASSUME NEW a \in Nat, NEW b \in Nat, b > 0
    PROVE  a \div b \in Nat
  OBVIOUS

\* The product of natural numbers is a natural number.
LEMMA ProductNat ==
    ASSUME NEW a \in Nat, NEW b \in Nat
    PROVE  a * b \in Nat
  OBVIOUS

\* A part r of T of an amount e is at most e.
LEMMA PartBounded ==
    ASSUME NEW e \in Nat, NEW r \in Nat, NEW T \in Nat, T > 0, r <= T
    PROVE  (e * r) \div T \in Nat /\ (e * r) \div T <= e
<1>1. e * r \in Nat /\ e * T \in Nat
  BY ProductNat
<1>2. e * r <= e * T
  OBVIOUS
<1>3. (e * T) \div T = e
  OBVIOUS
<1>4. \A a, b \in Nat : a <= b => a \div T <= b \div T
  OBVIOUS
<1>5. QED
  BY <1>1, <1>2, <1>3, <1>4, QuotientNat

\* The fee on an amount is a natural number.
LEMMA FeeNat ==
    ASSUME protocolFeeBasisPoints \in Nat, NEW amount \in Nat
    PROVE  Fee(amount) \in Nat
  BY ProductNat, QuotientNat DEF Fee, BasisPoints

\* The price of a term is a natural number.
LEMMA CostNat ==
    ASSUME NEW size \in Nat, NEW price \in Nat, NEW days \in Nat
    PROVE  size * price * totalMonths(days) \in Nat
<1>1. Month \in Nat /\ Month > 0
  BY MarketParameters
<1>2. days + Month - 1 \in Nat
  BY <1>1
<1>3. totalMonths(days) \in Nat
  BY <1>1, <1>2, QuotientNat DEF totalMonths
<1>4. QED
  BY <1>3, ProductNat

\* The refund of cancelDeal is at most the escrow.
LEMMA RefundBounded ==
    ASSUME NEW r \in Deal, now \in Nat
    PROVE  Refund(r) \in Nat /\ Refund(r) <= r.escrowedAmount
<1> DEFINE elapsed == IF now > r.startTime THEN now - r.startTime ELSE 0
           total   == r.endTime - r.startTime
           e       == r.escrowedAmount
<1>1. /\ elapsed \in Nat /\ total \in Int /\ e \in Nat
      /\ Refund(r) = IF elapsed < total THEN (e * (total - elapsed)) \div total ELSE 0
  BY DEF Deal, Refund
<1> HIDE DEF elapsed, total
<1>2. CASE elapsed < total
  <2>1. total \in Nat /\ total > 0 /\ total - elapsed \in Nat /\ total - elapsed <= total
    BY <1>1, <1>2
  <2>2. QED
    BY <1>1, <1>2, <2>1, PartBounded
<1>3. CASE ~(elapsed < total)
  BY <1>1, <1>3
<1>4. QED
  BY <1>2, <1>3

-----------------------------------------------------------------------------
(* The effects on a deal's record. *)

\* The fields of a deal that are not its shards stay when shards change.
SameTerms(r, s) ==
    /\ s.client = r.client
    /\ s.status = r.status
    /\ s.totalCost = r.totalCost
    /\ s.escrowedAmount = r.escrowedAmount

\* Switching a shard off leaves an allocation.
LEMMA SwitchedOff ==
    ASSUME NEW a \in ShardAllocation
    PROVE  [a EXCEPT !.active = FALSE] \in ShardAllocation
  BY Zenon DEF ShardAllocation

\* reportLostShard takes one shard off the count.
LEMMA LostOne ==
    ASSUME NEW r \in Deal, NEW p \in Providers, r.activeShards > 0
    PROVE  /\ ShardLost(r, p) \in Deal
           /\ SameTerms(r, ShardLost(r, p))
           /\ ShardLost(r, p).activeShards = r.activeShards - 1
<1> DEFINE s == r.shardAllocations
           t == [s EXCEPT ![p] = [s[p] EXCEPT !.active = FALSE]]
           n == r.activeShards - 1
<1>1. s \in [Providers -> ShardAllocation] /\ n \in Nat
  BY DEF Deal
<1>2. ShardLost(r, p) = [r EXCEPT !.shardAllocations = t, !.activeShards = n]
  BY DEF ShardLost
<1> HIDE DEF s, n
<1>3. t \in [Providers -> ShardAllocation]
  BY <1>1, SwitchedOff
<1> HIDE DEF t
<1>4. QED
  BY Zenon, <1>1, <1>2, <1>3 DEF Deal, SameTerms, n

\* The shards a deal's end switches off can be counted.
LEMMA LiveHoldersFinite ==
    ASSUME NEW r \in Deal
    PROVE  Cardinality(LiveHolders(r)) \in Nat
<1>1. LiveHolders(r) \subseteq Providers
  BY DEF LiveHolders, Holders, Range, Deal
<1>2. QED
  BY <1>1, MarketAddresses, FS_Subset, FS_CardinalityType

\* The end of a deal switches its remaining shards off.
LEMMA Released ==
    ASSUME NEW r \in Deal, r.activeShards >= Cardinality(LiveHolders(r))
    PROVE  ShardsReleased(r) \in Deal /\ SameTerms(r, ShardsReleased(r))
<1> DEFINE t == [p \in Providers |->
                    IF p \in LiveHolders(r) THEN [r.shardAllocations[p] EXCEPT !.active = FALSE]
                    ELSE r.shardAllocations[p]]
           n == r.activeShards - Cardinality(LiveHolders(r))
<1>1. n \in Nat
  BY LiveHoldersFinite DEF Deal
<1>2. \A p \in Providers : r.shardAllocations[p] \in ShardAllocation
  BY DEF Deal
<1>3. t \in [Providers -> ShardAllocation]
  BY <1>2, SwitchedOff
<1>4. ShardsReleased(r) = [r EXCEPT !.shardAllocations = t, !.activeShards = n]
  BY DEF ShardsReleased
<1> HIDE DEF t, n
<1>5. QED
  BY Zenon, <1>1, <1>3, <1>4 DEF Deal, SameTerms

\* A deal that is given an end and an escrow is a deal.
LEMMA EndedDeal ==
    ASSUME NEW r \in Deal, NEW status \in DealStatus, NEW escrow, escrow \in Nat
    PROVE  /\ Ended(r, status, escrow) \in Deal
           /\ Ended(r, status, escrow).status = status
           /\ Ended(r, status, escrow).escrowedAmount = escrow
  BY Zenon DEF Deal, Ended

\* Renewing adds the days and the cost, and leaves the shards alone.
LEMMA Renewed ==
    ASSUME NEW r \in Deal, NEW days, NEW cost, days \in Nat, cost \in Nat
    PROVE  /\ RenewedDeal(r, days, cost) \in Deal
           /\ RenewedDeal(r, days, cost).activeShards = r.activeShards
           /\ RenewedDeal(r, days, cost).escrowedAmount = r.escrowedAmount + cost
<1>1. r.endTime + days \in Nat /\ r.escrowedAmount + cost \in Nat /\ "Active" \in DealStatus
  BY DEF Deal, DealStatus
<1>2. QED
  BY Zenon, <1>1 DEF Deal, RenewedDeal

\* A repair replaces one provider in the array.
LEMMA ReplacedIsSeq ==
    ASSUME NEW array \in Seq(Providers), NEW old \in Providers, NEW new \in Providers
    PROVE  FirstReplaced(array, old, new) \in Seq(Providers)
  BY DEF FirstReplaced

\* A repair adds one shard to the count.
LEMMA Repaired ==
    ASSUME NEW r \in Deal, NEW old \in Providers, NEW new \in Providers
    PROVE  /\ ShardRepaired(r, old, new) \in Deal
           /\ SameTerms(r, ShardRepaired(r, old, new))
           /\ ShardRepaired(r, old, new).activeShards = r.activeShards + 1
<1> DEFINE s == r.shardAllocations
           a == [shardIndex |-> s[old].shardIndex, active |-> TRUE]
           t == [[s EXCEPT ![old] = NoAllocation] EXCEPT ![new] = a]
           l == FirstReplaced(r.providers, old, new)
           n == r.activeShards + 1
<1>1. s \in [Providers -> ShardAllocation] /\ n \in Nat /\ r.providers \in Seq(Providers)
  BY DEF Deal
<1>2. ShardRepaired(r, old, new) =
         [r EXCEPT !.shardAllocations = t, !.providers = l, !.activeShards = n]
  BY DEF ShardRepaired
<1>3. l \in Seq(Providers)
  BY <1>1, ReplacedIsSeq
<1> HIDE DEF s, l, n
<1>4. a \in ShardAllocation /\ NoAllocation \in ShardAllocation
  BY <1>1 DEF ShardAllocation, NoAllocation
<1> HIDE DEF a
<1>5. t \in [Providers -> ShardAllocation]
  BY <1>1, <1>4
<1> HIDE DEF t
<1>6. QED
  BY ZenonT(30), <1>1, <1>2, <1>3, <1>5 DEF Deal, SameTerms, n

\* createDeal fills in a deal of SHARDS_PER_FILE shards.
LEMMA Created ==
    ASSUME NEW r \in Deal, NEW client \in Clients, NEW selected \in Seq(Providers),
           NEW size, NEW days, NEW price, NEW cost,
           size \in Nat, days \in Nat, price \in Nat, cost \in Nat, now \in Nat
    PROVE  /\ CreatedDeal(r, client, selected, size, days, price, cost) \in Deal
           /\ CreatedDeal(r, client, selected, size, days, price, cost).activeShards
                = SHARDS_PER_FILE
           /\ CreatedDeal(r, client, selected, size, days, price, cost).escrowedAmount = cost
<1> DEFINE t == [p \in Providers |->
                    IF p \in Range(selected)
                    THEN [shardIndex |-> (CHOOSE i \in DOMAIN selected : selected[i] = p) - 1,
                          active |-> TRUE]
                    ELSE r.shardAllocations[p]]
           l == r.providers \o selected
<1>1. \A p \in Range(selected) :
         (CHOOSE i \in DOMAIN selected : selected[i] = p) \in DOMAIN selected
  BY DEF Range
<1>2. \A p \in Range(selected) :
         (CHOOSE i \in DOMAIN selected : selected[i] = p) - 1 \in Nat
  <2> TAKE p \in Range(selected)
  <2> DEFINE first == CHOOSE i \in DOMAIN selected : selected[i] = p
  <2>1. first \in DOMAIN selected
    BY Zenon, <1>1
  <2> HIDE DEF first
  <2>2. first - 1 \in Nat
    BY <2>1
  <2>3. QED
    BY <2>2 DEF first
<1>3. \A p \in Providers : r.shardAllocations[p] \in ShardAllocation
  BY DEF Deal
<1>4. t \in [Providers -> ShardAllocation]
  BY <1>2, <1>3 DEF ShardAllocation
<1>5. l \in Seq(Providers)
  BY DEF Deal
<1>6. CreatedDeal(r, client, selected, size, days, price, cost) =
        [client |-> client, fileSizeGB |-> size, pricePerGBMonth |-> price,
         totalCost |-> cost, startTime |-> now, endTime |-> now + days,
         providers |-> l, shardAllocations |-> t,
         activeShards |-> SHARDS_PER_FILE, status |-> "Active", escrowedAmount |-> cost]
  BY DEF CreatedDeal
<1>7. SHARDS_PER_FILE \in Nat /\ "Active" \in DealStatus /\ now + days \in Nat
  BY MarketParameters DEF DealStatus
<1> HIDE DEF t, l
<1>8. QED
  BY <1>4, <1>5, <1>6, <1>7 DEF Deal

-----------------------------------------------------------------------------
(* What a transaction does to the deals. *)

dealBooks == <<deals, dealCount, charged, paidOut>>

\* A transaction on the running deal d turns it into r, charges the client and
\* pays out: it never creates escrow, and r has its quorum or has ended.
DealChanged(d, r, cost, paid) ==
    /\ d < dealCount
    /\ deals[d].status \in Running
    /\ deals' = [deals EXCEPT ![d] = r]
    /\ charged' = [charged EXCEPT ![d] = @ + cost]
    /\ paidOut' = [paidOut EXCEPT ![d] = @ + paid]
    /\ dealCount' = dealCount
    /\ r.status \in Running => r.activeShards >= MIN_PROVIDERS
    /\ r.escrowedAmount + paid <= deals[d].escrowedAmount + cost

\* A transaction creates deal dealCount as r.
DealAdded(r, cost) ==
    /\ dealCount < MaxDeals
    /\ deals' = [deals EXCEPT ![dealCount] = r]
    /\ charged' = [charged EXCEPT ![dealCount] = @ + cost]
    /\ paidOut' = paidOut
    /\ dealCount' = dealCount + 1
    /\ r.activeShards >= MIN_PROVIDERS
    /\ r.escrowedAmount = cost

\* No id beyond dealCount has been written yet.
FreshDeals == \A d \in DealIds : d >= dealCount => deals[d] = NoDeal

\* The inductive invariant: the deals are typed, no future id is written, a
\* deal that runs has its quorum and no deal overpays.
DealInv ==
    /\ DealsTyped
    /\ FreshDeals
    /\ RunningHasQuorum
    /\ DealNeverOverpays

\* createDeal adds one deal with all its shards.
LEMMA CreateStep ==
    ASSUME DealInv, NEW client \in Clients, NEW selected \in Selections, NEW size \in Sizes,
           NEW days \in Durations, NEW usd \in UsdPrices,
           createDeal(client, selected, size, days, usd)
    PROVE  \E r \in Deal, cost \in Nat : DealAdded(r, cost)
<1> DEFINE price == priceKYN(usd)
           providerPayment == size * price * totalMonths(days)
           fee == Fee(providerPayment)
           cost == providerPayment + fee
           old == deals[dealCount]
           r == CreatedDeal(old, client, selected, size, days, price, cost)
<1>1. /\ size \in Nat /\ days \in Nat /\ usd \in Nat /\ KYN \in Nat
      /\ selected \in Seq(Providers)
      /\ SHARDS_PER_FILE >= MIN_PROVIDERS
  BY MarketParameters
<1>2. /\ kynPriceUSD \in Nat /\ kynPriceUSD > 0 /\ protocolFeeBasisPoints \in Nat /\ now \in Nat
      /\ dealCount \in DealIds /\ old \in Deal
  BY DEF DealInv, DealsTyped
<1>3. price \in Nat
  BY <1>1, <1>2, ProductNat, QuotientNat DEF priceKYN
<1>4. providerPayment \in Nat
  BY <1>1, <1>3, CostNat
<1>5. cost \in Nat
  BY <1>2, <1>4, FeeNat
<1>6. /\ dealCount < MaxDeals
      /\ deals' = [deals EXCEPT ![dealCount] = r]
      /\ charged' = [charged EXCEPT ![dealCount] = @ + cost]
      /\ paidOut' = paidOut
      /\ dealCount' = dealCount + 1
  BY DEF createDeal
<1> HIDE DEF price, cost, old
<1>7. r \in Deal /\ r.activeShards = SHARDS_PER_FILE /\ r.escrowedAmount = cost
  <2>1. /\ old \in Deal /\ client \in Clients /\ selected \in Seq(Providers) /\ size \in Nat
        /\ days \in Nat /\ price \in Nat /\ cost \in Nat /\ now \in Nat
    BY <1>1, <1>2, <1>3, <1>5
  <2>2. QED
    BY ONLY <2>1, Created
<1> HIDE DEF r
<1>8. DealAdded(r, cost)
  BY <1>1, <1>6, <1>7 DEF DealAdded
<1>9. QED
  BY <1>5, <1>7, <1>8

\* A deal that has been written to, by its shards, its client or its status,
\* has been created.
LEMMA Touched ==
    ASSUME DealInv, NEW d \in DealIds,
           \/ deals[d].activeShards > 0
           \/ deals[d].client \in Clients
           \/ deals[d].providers # << >>
    PROVE  d < dealCount
<1>1. MaxDeals \in Nat /\ NoAddress \notin Clients
  BY MarketAddresses, MarketParameters
<1>2. deals[d] # NoDeal
  BY <1>1 DEF NoDeal
<1>3. d \in Int /\ dealCount \in Int
  BY <1>1 DEF DealInv, DealsTyped, DealIds
<1>4. QED
  BY <1>2, <1>3 DEF DealInv, FreshDeals

\* completeDeal pays the escrow less the fee, or nothing, and closes the deal.
LEMMA CompleteStep ==
    ASSUME DealInv, NEW d \in DealIds, completeDeal(d)
    PROVE  \E r \in Deal, cost \in Nat, paid \in Nat : DealChanged(d, r, cost, paid)
<1> DEFINE deal == deals[d]
           fee == Fee(deal.totalCost)
           paid == IF paymentDistributor # NoAddress THEN deal.escrowedAmount - fee ELSE 0
           r == Ended(ShardsReleased(deal), "Completed", 0)
<1>1. /\ deal \in Deal /\ protocolFeeBasisPoints \in Nat
      /\ charged \in [DealIds -> Nat] /\ paidOut \in [DealIds -> Nat]
  BY DEF DealInv, DealsTyped
<1>2. /\ deal.status = "Active"
      /\ ~TooFewShards(deal)
      /\ deal.activeShards >= Cardinality(LiveHolders(deal))
      /\ deal.escrowedAmount >= fee
      /\ deals' = [deals EXCEPT ![d] = r]
      /\ paidOut' = [paidOut EXCEPT ![d] = @ + paid]
      /\ charged' = charged
      /\ dealCount' = dealCount
  BY DEF completeDeal
<1>3. deal.activeShards \in Nat /\ deal.totalCost \in Nat /\ deal.escrowedAmount \in Nat
  BY <1>1 DEF Deal
<1>4. fee \in Nat
  BY <1>1, <1>3, FeeNat
<1>5. paid \in Nat /\ paid <= deal.escrowedAmount
  BY <1>2, <1>3, <1>4
<1>6. deal.activeShards > 0
  BY <1>2, <1>3, MarketParameters DEF TooFewShards
<1>7. d < dealCount
  BY <1>6, Touched
<1>8. r \in Deal /\ r.status = "Completed" /\ r.escrowedAmount = 0
  <2> HIDE DEF deal
  <2>1. ShardsReleased(deal) \in Deal
    BY <1>1, <1>2, Released
  <2>2. "Completed" \in DealStatus
    BY DEF DealStatus
  <2>3. QED
    BY <2>1, <2>2, EndedDeal
<1>9. charged' = [charged EXCEPT ![d] = @ + 0]
  BY <1>1, <1>2
<1> HIDE DEF r, paid
<1>10. deals[d].status \in Running /\ r.status \notin Running
  BY <1>2, <1>8 DEF Running
<1>11. r.escrowedAmount + paid <= deals[d].escrowedAmount + 0
  BY <1>3, <1>5, <1>8
<1>12. DealChanged(d, r, 0, paid)
  BY Zenon, <1>2, <1>7, <1>9, <1>10, <1>11 DEF DealChanged
<1>13. QED
  BY <1>5, <1>8, <1>12

\* cancelDeal refunds a part of the escrow and closes the deal.
LEMMA CancelStep ==
    ASSUME DealInv, NEW d \in DealIds, NEW client \in Clients, cancelDeal(client, d)
    PROVE  \E r \in Deal, cost \in Nat, paid \in Nat : DealChanged(d, r, cost, paid)
<1> DEFINE deal == deals[d]
           paid == Refund(deal)
           r == Ended(ShardsReleased(deal), "Cancelled", deal.escrowedAmount - paid)
<1>1. deal \in Deal /\ now \in Nat /\ charged \in [DealIds -> Nat]
  BY DEF DealInv, DealsTyped
<1>2. /\ deal.status \in Running
      /\ deal.client \in Clients
      /\ deal.activeShards >= Cardinality(LiveHolders(deal))
      /\ deals' = [deals EXCEPT ![d] = r]
      /\ paidOut' = [paidOut EXCEPT ![d] = @ + paid]
      /\ charged' = charged
      /\ dealCount' = dealCount
  BY DEF cancelDeal, RunningDealOf
<1>3. paid \in Nat /\ paid <= deal.escrowedAmount /\ deal.escrowedAmount \in Nat
  BY <1>1, RefundBounded DEF Deal
<1>4. d < dealCount
  BY <1>2, Touched
<1>5. charged' = [charged EXCEPT ![d] = @ + 0]
  BY <1>1, <1>2
<1> HIDE DEF paid
<1>6. /\ r \in Deal
      /\ r.status = "Cancelled"
      /\ r.escrowedAmount = deal.escrowedAmount - paid
  <2> HIDE DEF deal
  <2>1. ShardsReleased(deal) \in Deal
    BY <1>1, <1>2, Released
  <2>2. "Cancelled" \in DealStatus /\ deal.escrowedAmount - paid \in Nat
    BY <1>3 DEF DealStatus
  <2>3. QED
    BY <2>1, <2>2, EndedDeal
<1> HIDE DEF r
<1>7. r.status \notin Running
  BY <1>6 DEF Running
<1>8. r.escrowedAmount + paid <= deals[d].escrowedAmount + 0
  BY <1>3, <1>6
<1>9. DealChanged(d, r, 0, paid)
  BY Zenon, <1>2, <1>4, <1>5, <1>7, <1>8 DEF DealChanged
<1>10. QED
  BY <1>3, <1>6, <1>9

\* renewDeal charges the client and adds what it charged to the escrow.
LEMMA RenewStep ==
    ASSUME DealInv, NEW d \in DealIds, NEW client \in Clients, NEW days \in Durations,
           renewDeal(client, d, days)
    PROVE  \E r \in Deal, cost \in Nat, paid \in Nat : DealChanged(d, r, cost, paid)
<1> DEFINE deal == deals[d]
           renewal == deal.fileSizeGB * deal.pricePerGBMonth * totalMonths(days)
           cost == renewal + Fee(renewal)
           r == RenewedDeal(deal, days, cost)
<1>1. /\ deal \in Deal /\ protocolFeeBasisPoints \in Nat /\ paidOut \in [DealIds -> Nat]
      /\ days \in Nat
  BY MarketParameters DEF DealInv, DealsTyped
<1>2. /\ deal.status \in Running
      /\ deal.client \in Clients
      /\ deals' = [deals EXCEPT ![d] = r]
      /\ charged' = [charged EXCEPT ![d] = @ + cost]
      /\ paidOut' = paidOut
      /\ dealCount' = dealCount
  BY DEF renewDeal, RunningDealOf
<1>3. /\ deal.fileSizeGB \in Nat /\ deal.pricePerGBMonth \in Nat
      /\ deal.escrowedAmount \in Nat /\ deal.activeShards \in Nat
  BY <1>1 DEF Deal
<1>4. renewal \in Nat
  BY <1>1, <1>3, CostNat
<1>5. cost \in Nat
  BY <1>1, <1>4, FeeNat
<1>6. d < dealCount
  BY <1>2, Touched
<1>7. deal.activeShards >= MIN_PROVIDERS
  BY <1>2, <1>6 DEF DealInv, RunningHasQuorum, Exists
<1>8. paidOut' = [paidOut EXCEPT ![d] = @ + 0]
  BY <1>1, <1>2
<1> HIDE DEF cost
<1>9. /\ r \in Deal
      /\ r.activeShards = deal.activeShards
      /\ r.escrowedAmount = deal.escrowedAmount + cost
  <2> HIDE DEF deal
  <2>1. QED
    BY <1>1, <1>5, Renewed
<1> HIDE DEF r
<1>10. r.escrowedAmount + 0 <= deals[d].escrowedAmount + cost
  BY <1>3, <1>5, <1>9
<1>11. DealChanged(d, r, cost, 0)
  BY ZenonT(30), <1>2, <1>6, <1>7, <1>8, <1>9, <1>10 DEF DealChanged
<1>12. QED
  BY <1>5, <1>9, <1>11

\* reportLostShard takes a shard off, and fails and refunds the deal in the
\* same transaction when the quorum is gone.
LEMMA LostStep ==
    ASSUME DealInv, NEW d \in DealIds, NEW p \in Providers, reportLostShard(d, p)
    PROVE  \E r \in Deal, cost \in Nat, paid \in Nat : DealChanged(d, r, cost, paid)
<1> DEFINE deal == deals[d]
           lost == ShardLost(deal, p)
           failed == TooFewShards(lost)
           paid == IF failed THEN deal.escrowedAmount ELSE 0
           r == IF failed THEN Ended(lost, "Failed", 0) ELSE lost
<1>1. deal \in Deal /\ charged \in [DealIds -> Nat]
  BY DEF DealInv, DealsTyped
<1>2. /\ deal.status \in Running
      /\ deal.activeShards > 0
      /\ deals' = [deals EXCEPT ![d] = r]
      /\ paidOut' = [paidOut EXCEPT ![d] = @ + paid]
      /\ charged' = charged
      /\ dealCount' = dealCount
  BY DEF reportLostShard
<1>3. deal.escrowedAmount \in Nat /\ deal.activeShards \in Nat
  BY <1>1 DEF Deal
<1>4. paid \in Nat
  BY <1>3
<1>5. d < dealCount
  BY <1>2, Touched
<1>6. charged' = [charged EXCEPT ![d] = @ + 0]
  BY <1>1, <1>2
<1>7. /\ lost \in Deal
      /\ lost.escrowedAmount = deal.escrowedAmount
      /\ lost.activeShards \in Nat
  <2> HIDE DEF deal
  <2>1. lost \in Deal /\ SameTerms(deal, lost)
    BY <1>1, <1>2, LostOne
  <2> HIDE DEF lost
  <2>2. QED
    BY <2>1 DEF Deal, SameTerms
<1>8. /\ r \in Deal
      /\ r.status \in Running => r.activeShards >= MIN_PROVIDERS
      /\ r.escrowedAmount + paid <= deal.escrowedAmount + 0
  <2> HIDE DEF lost
  <2>1. CASE failed
    <3>1. "Failed" \in DealStatus /\ "Failed" \notin Running
      BY DEF DealStatus, Running
    <3>2. r \in Deal /\ r.status = "Failed" /\ r.escrowedAmount = 0
      BY <1>7, <2>1, <3>1, EndedDeal
    <3>3. paid = deal.escrowedAmount
      BY <2>1
    <3> HIDE DEF r, paid
    <3>4. QED
      BY <1>3, <3>1, <3>2, <3>3
  <2>2. CASE ~failed
    <3>1. r = lost /\ paid = 0 /\ ~(lost.activeShards < MIN_PROVIDERS)
      BY <2>2 DEF TooFewShards
    <3>2. MIN_PROVIDERS \in Nat
      BY MarketParameters
    <3> HIDE DEF r, paid
    <3>3. QED
      BY <1>3, <1>7, <3>1, <3>2
  <2>3. QED
    BY <2>1, <2>2
<1> HIDE DEF r, paid
<1>9. DealChanged(d, r, 0, paid)
  BY Zenon, <1>2, <1>5, <1>6, <1>8 DEF DealChanged
<1>10. QED
  BY <1>4, <1>8, <1>9

\* repairShard adds a shard and moves no money.
LEMMA RepairStep ==
    ASSUME DealInv, NEW d \in DealIds, NEW pair \in RepairArguments(d),
           repairShard(d, pair[1], pair[2])
    PROVE  \E r \in Deal, cost \in Nat, paid \in Nat : DealChanged(d, r, cost, paid)
<1> DEFINE deal == deals[d]
           old == pair[1]
           new == pair[2]
           r == ShardRepaired(deal, old, new)
<1>1. deal \in Deal /\ charged \in [DealIds -> Nat] /\ paidOut \in [DealIds -> Nat]
  BY DEF DealInv, DealsTyped
<1>2. old \in Holders(deal) /\ new \in Providers
  BY DEF RepairArguments
<1>3. deal.providers \in Seq(Providers)
  BY <1>1 DEF Deal
<1>4. old \in Providers /\ deal.providers # << >>
  BY <1>2, <1>3 DEF Holders, Range
<1>5. /\ deal.status \in Running
      /\ deals' = [deals EXCEPT ![d] = r]
      /\ UNCHANGED <<dealCount, charged, paidOut>>
  BY DEF repairShard, bookVars
<1>6. d < dealCount
  BY <1>4, Touched
<1>7. /\ charged' = [charged EXCEPT ![d] = @ + 0]
      /\ paidOut' = [paidOut EXCEPT ![d] = @ + 0]
  BY <1>1, <1>5
<1>8. deal.activeShards \in Nat /\ deal.escrowedAmount \in Nat /\ MIN_PROVIDERS \in Nat
  BY ZenonT(30), <1>1, MarketParameters DEF Deal
<1>9. deal.activeShards >= MIN_PROVIDERS
  BY <1>5, <1>6 DEF DealInv, RunningHasQuorum, Exists
<1>10. r \in Deal /\ SameTerms(deal, r) /\ r.activeShards = deal.activeShards + 1
  <2> HIDE DEF deal, old, new
  <2>1. QED
    BY <1>1, <1>2, <1>4, Repaired
<1> HIDE DEF r
<1>11. r.activeShards >= MIN_PROVIDERS /\ r.escrowedAmount + 0 <= deals[d].escrowedAmount + 0
  BY <1>8, <1>9, <1>10 DEF SameTerms
<1>12. DealChanged(d, r, 0, 0)
  BY ZenonT(30), <1>5, <1>6, <1>7, <1>11 DEF DealChanged
<1>13. QED
  BY Zenon, <1>10, <1>12

-----------------------------------------------------------------------------
(* The theorems. *)

\* Every step of the marketplace changes one running deal, adds one, or leaves
\* the deals and their books alone.
LEMMA EveryStep ==
    ASSUME DealInv, [MarketNext]_vars
    PROVE  \/ \E d \in DealIds, r \in Deal, cost \in Nat, paid \in Nat :
                  DealChanged(d, r, cost, paid)
           \/ \E r \in Deal, cost \in Nat : DealAdded(r, cost)
           \/ UNCHANGED dealBooks
<1>1. CASE \E c \in Clients, selected \in Selections, size \in Sizes, days \in Durations,
              usd \in UsdPrices : createDeal(c, selected, size, days, usd)
  BY <1>1, CreateStep
<1>2. CASE \E d \in DealIds : completeDeal(d)
  BY <1>2, CompleteStep
<1>3. CASE \E c \in Clients, d \in DealIds : cancelDeal(c, d)
  BY <1>3, CancelStep
<1>4. CASE \E c \in Clients, d \in DealIds, days \in Durations : renewDeal(c, d, days)
  BY <1>4, RenewStep
<1>5. CASE \E d \in DealIds, p \in Providers : reportLostShard(d, p)
  BY <1>5, LostStep
<1>6. CASE \E d \in DealIds : \E pair \in RepairArguments(d) : repairShard(d, pair[1], pair[2])
  BY <1>6, RepairStep
<1>7. CASE \E c \in Clients, d \in DealIds, p \in Providers, amount \in RetrievalAmounts :
              initiateRetrieval(c, d, p, amount)
  BY <1>7 DEF initiateRetrieval, dealBooks, bookVars
<1>8. CASE \E p \in Providers, id \in DOMAIN retrievals : claimRetrievalPayment(p, id)
  BY <1>8 DEF claimRetrievalPayment, dealBooks, bookVars
<1>9. CASE \/ \E rate \in FeeRates : setProtocolFee(rate)
           \/ \E account \in Treasuries : setTreasury(account)
           \/ \E price \in KynPrices : updateKynPrice(price)
           \/ setPaymentDistributor(Distributor)
           \/ withdrawFees
  BY <1>9 DEF setProtocolFee, setTreasury, updateKynPrice, setPaymentDistributor, withdrawFees,
              dealBooks, bookVars
<1>10. CASE (RegistryNextBy({Owner}) /\ UNCHANGED marketVars) \/ UNCHANGED vars
  BY <1>10 DEF vars, marketVars, dealBooks, bookVars
<1>11. QED
  BY <1>1, <1>2, <1>3, <1>4, <1>5, <1>6, <1>7, <1>8, <1>9, <1>10 DEF MarketNext

\* The settings and the clock keep their types.
LEMMA SettingsTyped ==
    ASSUME DealsTyped, [MarketNext]_vars
    PROVE  /\ protocolFeeBasisPoints' \in Nat
           /\ kynPriceUSD' \in Nat \ {0}
           /\ now' \in Nat
<1> USE DEF DealsTyped
<1>1. CASE \E rate \in FeeRates : setProtocolFee(rate)
  BY Zenon, <1>1, MarketParameters DEF setProtocolFee, registryVars
<1>2. CASE \E price \in KynPrices : updateKynPrice(price)
  <2>1. PICK price \in KynPrices : updateKynPrice(price)
    BY <1>2
  <2>2. price \in Nat /\ price > 0
    BY Zenon, <2>1, MarketParameters DEF updateKynPrice
  <2>3. /\ kynPriceUSD' = price
        /\ UNCHANGED <<protocolFeeBasisPoints, now>>
    BY <2>1 DEF updateKynPrice, registryVars
  <2>4. QED
    BY <2>2, <2>3
<1>3. CASE RegistryNextBy({Owner}) /\ UNCHANGED marketVars
  <2>1. UNCHANGED settingVars
    BY <1>3 DEF marketVars
  <2>2. now' = now \/ Advance
    BY Zenon, <1>3 DEF RegistryNextBy, registerProvider, updateProvider, updateCapacity,
        reactivateProvider, increaseReputation, decreaseReputation, recordDealCompleted,
        recordDealFailed, recordSlashing, KeeperCall, authorizeRecordKeeper,
        revokeRecordKeeper, Tick
  <2>3. now' \in Nat
    BY Zenon, <2>2, ClockAssumption DEF Advance
  <2>4. QED
    BY <2>1, <2>3 DEF settingVars
<1>4. CASE UNCHANGED vars
  BY <1>4 DEF vars, marketVars, settingVars, registryVars
<1>5. CASE \/ \E account \in Treasuries : setTreasury(account)
           \/ setPaymentDistributor(Distributor)
           \/ withdrawFees
  BY <1>5 DEF setTreasury, setPaymentDistributor, withdrawFees, settingVars, registryVars
<1>6. CASE UNCHANGED <<settingVars, now>>
  BY <1>6 DEF settingVars
<1>7. ASSUME NEW c \in Clients, NEW selected \in Selections, NEW size \in Sizes,
             NEW days \in Durations, NEW usd \in UsdPrices,
             createDeal(c, selected, size, days, usd)
      PROVE  UNCHANGED <<settingVars, now>>
  BY <1>7 DEF createDeal, registryVars
<1>8. ASSUME NEW d \in DealIds, completeDeal(d)
      PROVE  UNCHANGED <<settingVars, now>>
  BY <1>8 DEF completeDeal
<1>9. ASSUME NEW c \in Clients, NEW d \in DealIds, NEW days \in Durations,
             renewDeal(c, d, days)
      PROVE  UNCHANGED <<settingVars, now>>
  BY <1>9 DEF renewDeal, registryVars
<1>10. ASSUME NEW c \in Clients, NEW d \in DealIds, cancelDeal(c, d)
       PROVE  UNCHANGED <<settingVars, now>>
  BY <1>10 DEF cancelDeal, registryVars
<1>11. ASSUME NEW d \in DealIds, NEW p \in Providers, reportLostShard(d, p)
       PROVE  UNCHANGED <<settingVars, now>>
  BY <1>11 DEF reportLostShard
<1>12. ASSUME NEW d \in DealIds, NEW pair \in RepairArguments(d),
              repairShard(d, pair[1], pair[2])
       PROVE  UNCHANGED <<settingVars, now>>
  BY Zenon, <1>12 DEF repairShard, registryVars
<1>13. ASSUME NEW c \in Clients, NEW d \in DealIds, NEW p \in Providers,
              NEW amount \in RetrievalAmounts, initiateRetrieval(c, d, p, amount)
       PROVE  UNCHANGED <<settingVars, now>>
  BY <1>13 DEF initiateRetrieval, registryVars
<1>14. ASSUME NEW p \in Providers, NEW id \in DOMAIN retrievals, claimRetrievalPayment(p, id)
       PROVE  UNCHANGED <<settingVars, now>>
  BY <1>14 DEF claimRetrievalPayment, registryVars
<1>15. QED
  BY <1>1, <1>2, <1>3, <1>4, <1>5, <1>6, <1>7, <1>8, <1>9, <1>10, <1>11, <1>12, <1>13, <1>14
  DEF MarketNext

\* The deals are typed and unused ids unwritten, a deal that runs has enough
\* shards to reconstruct its file, and no deal pays out more than its client
\* paid in, whatever mix of creations, renewals, losses, repairs and endings.
THEOREM DealsInvariant == MarketSpec => []DealInv
<1>1. MarketInit => DealInv
  <2> SUFFICES ASSUME MarketInit PROVE DealInv
    OBVIOUS
  <2>1. NoAllocation \in ShardAllocation
    BY DEF NoAllocation, ShardAllocation
  <2>2. NoDeal \in Deal
    BY <2>1 DEF NoDeal, Deal, DealStatus
  <2>3. DealsTyped
    BY <2>2, ClockAssumption, MarketParameters
    DEF MarketInit, MarketStart, DealsTyped, DealIds
  <2>4. FreshDeals
    BY DEF MarketInit, MarketStart, FreshDeals
  <2>5. RunningHasQuorum
    BY MarketParameters DEF MarketInit, MarketStart, RunningHasQuorum, Exists, DealIds
  <2>6. DealNeverOverpays
    BY DEF MarketInit, MarketStart, DealNeverOverpays, NoDeal
  <2>7. QED
    BY <2>3, <2>4, <2>5, <2>6 DEF DealInv
<1>2. DealInv /\ [MarketNext]_vars => DealInv'
  <2> SUFFICES ASSUME DealInv, [MarketNext]_vars PROVE DealInv'
    OBVIOUS
  <2>1. /\ protocolFeeBasisPoints' \in Nat /\ kynPriceUSD' \in Nat \ {0} /\ now' \in Nat
    BY SettingsTyped DEF DealInv
  <2>2. /\ deals \in [DealIds -> Deal] /\ dealCount \in DealIds
        /\ charged \in [DealIds -> Nat] /\ paidOut \in [DealIds -> Nat]
        /\ MaxDeals \in Nat
        /\ \A e \in DealIds : e \in Nat
    BY MarketParameters DEF DealInv, DealsTyped, DealIds
  <2>3. ASSUME NEW d \in DealIds, NEW r \in Deal, NEW cost \in Nat, NEW paid \in Nat,
               DealChanged(d, r, cost, paid)
        PROVE  DealInv'
    <3>1. DealsTyped'
      BY <2>1, <2>2, <2>3 DEF DealsTyped, DealChanged
    <3>2. FreshDeals'
      BY <2>2, <2>3 DEF DealInv, FreshDeals, DealChanged
    <3>3. RunningHasQuorum'
      BY <2>2, <2>3 DEF DealInv, RunningHasQuorum, Exists, DealChanged
    <3>4. DealNeverOverpays'
      <4> SUFFICES ASSUME NEW e \in DealIds
                   PROVE  paidOut'[e] + deals'[e].escrowedAmount <= charged'[e]
        BY DEF DealNeverOverpays
      <4>1. paidOut[e] + deals[e].escrowedAmount <= charged[e]
        BY DEF DealInv, DealNeverOverpays
      <4>2. CASE e # d
        BY <2>2, <2>3, <4>1, <4>2 DEF DealChanged
      <4>3. CASE e = d
        <5>1. /\ paidOut'[e] = paidOut[d] + paid
              /\ charged'[e] = charged[d] + cost
              /\ deals'[e] = r
              /\ r.escrowedAmount + paid <= deals[d].escrowedAmount + cost
          BY <2>2, <2>3, <4>3 DEF DealChanged
        <5>2. /\ r.escrowedAmount \in Nat /\ deals[d].escrowedAmount \in Nat
              /\ paidOut[d] \in Nat /\ charged[d] \in Nat
          BY <2>2 DEF Deal
        <5>3. QED
          BY <4>1, <4>3, <5>1, <5>2
      <4>4. QED
        BY <4>2, <4>3
    <3>5. QED
      BY <3>1, <3>2, <3>3, <3>4 DEF DealInv
  <2>4. ASSUME NEW r \in Deal, NEW cost \in Nat, DealAdded(r, cost)
        PROVE  DealInv'
    <3>1. dealCount + 1 \in DealIds
      BY <2>2, <2>4 DEF DealAdded, DealIds
    <3>2. DealsTyped'
      BY <2>1, <2>2, <2>4, <3>1 DEF DealsTyped, DealAdded
    <3>3. FreshDeals'
      BY <2>2, <2>4 DEF DealInv, FreshDeals, DealAdded
    <3>4. RunningHasQuorum'
      BY <2>2, <2>4 DEF DealInv, RunningHasQuorum, Exists, DealAdded
    <3>5. DealNeverOverpays'
      <4> SUFFICES ASSUME NEW e \in DealIds
                   PROVE  paidOut'[e] + deals'[e].escrowedAmount <= charged'[e]
        BY DEF DealNeverOverpays
      <4>1. paidOut[e] + deals[e].escrowedAmount <= charged[e]
        BY DEF DealInv, DealNeverOverpays
      <4>2. CASE e # dealCount
        BY <2>2, <2>4, <4>1, <4>2 DEF DealAdded
      <4>3. CASE e = dealCount
        <5>1. /\ paidOut'[e] = paidOut[e]
              /\ charged'[e] = charged[e] + cost
              /\ deals'[e] = r
              /\ r.escrowedAmount = cost
          BY <2>2, <2>4, <4>3 DEF DealAdded
        <5>2. deals[e].escrowedAmount \in Nat /\ paidOut[e] \in Nat /\ charged[e] \in Nat
          BY <2>2 DEF Deal
        <5>3. paidOut[e] <= charged[e]
          BY ONLY <4>1, <5>2
        <5>4. paidOut[e] + cost <= charged[e] + cost
          BY ONLY <5>2, <5>3, cost \in Nat
        <5>5. QED
          BY <5>1, <5>4
      <4>4. QED
        BY <4>2, <4>3
    <3>6. QED
      BY <3>2, <3>3, <3>4, <3>5 DEF DealInv
  <2>5. CASE UNCHANGED dealBooks
    BY <2>1, <2>5 DEF DealInv, DealsTyped, FreshDeals, RunningHasQuorum, Exists,
                      DealNeverOverpays, dealBooks
  <2>6. QED
    BY <2>3, <2>4, <2>5, EveryStep
<1>3. QED
  BY <1>1, <1>2, PTL DEF MarketSpec

\* reportLostShard fails a deal in the step that costs it its quorum.
THEOREM Quorum == MarketSpec => []RunningHasQuorum
<1>1. DealInv => RunningHasQuorum
  BY DEF DealInv
<1>2. QED
  BY <1>1, DealsInvariant, PTL

\* Escrow, refunds and payments of a deal stay within what its client paid.
THEOREM NoOverpayment == MarketSpec => []DealNeverOverpays
<1>1. DealInv => DealNeverOverpays
  BY DEF DealInv
<1>2. QED
  BY <1>1, DealsInvariant, PTL

\* No transaction touches a deal that has completed, failed or been cancelled.
THEOREM EndIsFinal == MarketSpec => EndedIsFinal
<1> DEFINE Final == \A d \in DealIds : deals[d].status \notin Running =>
                        deals'[d] = deals[d] /\ paidOut'[d] = paidOut[d]
<1>1. DealInv /\ [MarketNext]_vars => [Final]_vars
  <2> SUFFICES ASSUME DealInv, [MarketNext]_vars, NEW d \in DealIds,
                      deals[d].status \notin Running
               PROVE  deals'[d] = deals[d] /\ paidOut'[d] = paidOut[d]
    OBVIOUS
  <2>1. /\ deals \in [DealIds -> Deal] /\ dealCount \in DealIds
        /\ charged \in [DealIds -> Nat] /\ paidOut \in [DealIds -> Nat]
        /\ d \in Nat /\ dealCount \in Nat
    BY MarketParameters DEF DealInv, DealsTyped, DealIds
  <2>2. CASE \E e \in DealIds, r \in Deal, cost \in Nat, paid \in Nat :
                DealChanged(e, r, cost, paid)
    BY <2>1, <2>2 DEF DealChanged
  <2>3. CASE \E r \in Deal, cost \in Nat : DealAdded(r, cost)
    <3>1. d # dealCount
      BY <2>1 DEF DealInv, FreshDeals, NoDeal, Running
    <3>2. QED
      BY <2>1, <2>3, <3>1 DEF DealAdded
  <2>4. CASE UNCHANGED dealBooks
    BY <2>4 DEF dealBooks
  <2>5. QED
    BY ZenonT(40), <2>2, <2>3, <2>4, EveryStep
<1>2. QED
  BY <1>1, DealsInvariant, PTL DEF MarketSpec, EndedIsFinal
=============================================================================
