-------------------------- MODULE ProviderRegistry --------------------------
(***************************************************************************)
(* The on-chain registry of storage providers: registration, reputation,   *)
(* slashing records, deactivation for a cooldown and reactivation          *)
(* (smart-contracts/contracts/core/ProviderRegistry.sol).                  *)
(*                                                                         *)
(* A transaction is one atomic step; a require that fails reverts it, so   *)
(* every require is a conjunct of the action's guard.  The effects of a    *)
(* record-keeper's call on one provider are operators on the provider's    *)
(* record, because the marketplace and the slashing manager make the same  *)
(* calls inside transactions of their own.                                 *)
(***************************************************************************)
EXTENDS BlockClock, Sequences, FiniteSetsExt

CONSTANTS
    Providers,        \* addresses that may register as providers
    Owner,            \* the registry's owner (Ownable)
    Keepers,          \* contracts the owner may authorise as record keepers
    COOLDOWN_PERIOD,  \* 7 days in the contract, in ticks of the clock here
    Prices,           \* values of minPriceUSD
    Capacities,       \* values of totalCapacityGB
    Amounts,          \* amounts passed to increase/decreaseReputation
    MaxRecorded,      \* bound: deals recorded by calls on the registry, over all providers
    MaxSlashes        \* bound: slashing events recorded per provider

ASSUME CooldownAssumption == COOLDOWN_PERIOD \in Nat
ASSUME RegistryInputs ==
    /\ Prices \subseteq Nat
    /\ Capacities \subseteq Nat
    /\ Amounts \subseteq Nat
    /\ {MaxRecorded, MaxSlashes} \subseteq Nat
ASSUME OwnerIsNoContract == Owner \notin Keepers

INITIAL_REPUTATION == 50
MAX_REPUTATION == 100
MIN_REPUTATION == 0
LowReputation == 20       \* decreaseReputation deactivates below this score
SlashingLimit == 5        \* recordSlashing deactivates from this count on

VARIABLES
    providers,                \* mapping(address => Provider)
    providerList,             \* address[]
    authorizedRecordKeepers,  \* the addresses mapped to true
    offSince                  \* history: when each provider last became inactive

registryVars == <<providers, providerList, authorizedRecordKeepers, now, offSince>>

Provider ==
    [registered: BOOLEAN, active: BOOLEAN, reputationScore: Nat,
     totalDealsCompleted: Nat, totalDealsFailed: Nat, totalSlashingEvents: Nat,
     deactivatedUntil: Nat, minPriceUSD: Nat, totalCapacityGB: Nat]

\* What the mapping holds for an address that never registered.
NoProvider ==
    [registered |-> FALSE, active |-> FALSE, reputationScore |-> 0,
     totalDealsCompleted |-> 0, totalDealsFailed |-> 0, totalSlashingEvents |-> 0,
     deactivatedUntil |-> 0, minPriceUSD |-> 0, totalCapacityGB |-> 0]

RegistryInit ==
    /\ providers = [p \in Providers |-> NoProvider]
    /\ providerList = <<>>
    /\ authorizedRecordKeepers = {}
    /\ now = StartTime
    /\ offSince = [p \in Providers |-> StartTime]

(***************************************************************************)
(* Effects on one provider's record.                                       *)
(***************************************************************************)

Deactivated(r) ==
    [r EXCEPT !.active = FALSE, !.deactivatedUntil = now + COOLDOWN_PERIOD]

\* The cap on the sum is forgotten.
IncreasedMutant(r, amount) ==
    [r EXCEPT !.reputationScore = @ + amount]

Increased(r, amount) ==
    LET newScore == r.reputationScore + amount
    IN  [r EXCEPT !.reputationScore =
            IF newScore > MAX_REPUTATION THEN MAX_REPUTATION ELSE newScore]

Decreased(r, amount) ==
    LET newScore == IF r.reputationScore > amount
                    THEN r.reputationScore - amount ELSE MIN_REPUTATION
        scored   == [r EXCEPT !.reputationScore = newScore]
    IN  IF newScore < LowReputation THEN Deactivated(scored) ELSE scored

DealCompletedOn(r) ==
    Increased([r EXCEPT !.totalDealsCompleted = @ + 1], 1)

DealFailedOn(r) ==
    Decreased([r EXCEPT !.totalDealsFailed = @ + 1], 5)

SlashedOn(r) ==
    LET hit == Decreased([r EXCEPT !.totalSlashingEvents = @ + 1], 20)
    IN  IF hit.totalSlashingEvents >= SlashingLimit THEN Deactivated(hit) ELSE hit

onlyAuthorizedKeeper(sender) ==
    sender = Owner \/ sender \in authorizedRecordKeepers

isProviderActive(p) == providers[p].registered /\ providers[p].active

\* Every step that writes providers also notes who has just become inactive.
NoteOff ==
    offSince' = [p \in Providers |->
                    IF providers[p].active /\ ~providers'[p].active
                    THEN now ELSE offSince[p]]

(***************************************************************************)
(* Transactions.                                                           *)
(***************************************************************************)

NewProvider(price) ==
    [registered |-> TRUE, active |-> TRUE, reputationScore |-> INITIAL_REPUTATION,
     totalDealsCompleted |-> 0, totalDealsFailed |-> 0, totalSlashingEvents |-> 0,
     deactivatedUntil |-> 0, minPriceUSD |-> price, totalCapacityGB |-> 0]

\* The check against registering twice is forgotten.
registerProviderMutant(p, price) ==
    /\ providers' = [providers EXCEPT ![p] = NewProvider(price)]
    /\ Len(providerList) < 3
    /\ providerList' = Append(providerList, p)
    /\ NoteOff
    /\ UNCHANGED <<authorizedRecordKeepers, now>>

registerProvider(p, price) ==
    /\ ~providers[p].registered
    /\ providers' = [providers EXCEPT ![p] = NewProvider(price)]
    /\ providerList' = Append(providerList, p)
    /\ NoteOff
    /\ UNCHANGED <<authorizedRecordKeepers, now>>

updateProvider(p, price) ==
    /\ providers[p].registered
    /\ providers' = [providers EXCEPT ![p].minPriceUSD = price]
    /\ NoteOff
    /\ UNCHANGED <<providerList, authorizedRecordKeepers, now>>

updateCapacity(p, capacity) ==
    /\ providers[p].registered
    /\ providers' = [providers EXCEPT ![p].totalCapacityGB = capacity]
    /\ NoteOff
    /\ UNCHANGED <<providerList, authorizedRecordKeepers, now>>

\* A record keeper's call that turns p's record r into newRecord.
KeeperCall(sender, p, newRecord) ==
    /\ onlyAuthorizedKeeper(sender)
    /\ providers[p].registered
    /\ providers' = [providers EXCEPT ![p] = newRecord]
    /\ NoteOff
    /\ UNCHANGED <<providerList, authorizedRecordKeepers, now>>

increaseReputation(sender, p, amount) ==
    KeeperCall(sender, p, Increased(providers[p], amount))

decreaseReputation(sender, p, amount) ==
    KeeperCall(sender, p, Decreased(providers[p], amount))

DealsRecorded ==
    MapThenSumSet(LAMBDA p : providers[p].totalDealsCompleted + providers[p].totalDealsFailed,
                  Providers)

recordDealCompleted(sender, p) ==
    /\ DealsRecorded < MaxRecorded
    /\ KeeperCall(sender, p, DealCompletedOn(providers[p]))

recordDealFailed(sender, p) ==
    /\ DealsRecorded < MaxRecorded
    /\ KeeperCall(sender, p, DealFailedOn(providers[p]))

recordSlashing(sender, p) ==
    /\ providers[p].totalSlashingEvents < MaxSlashes
    /\ KeeperCall(sender, p, SlashedOn(providers[p]))

authorizeRecordKeeper(keeper) ==
    /\ authorizedRecordKeepers' = authorizedRecordKeepers \cup {keeper}
    /\ UNCHANGED <<providers, providerList, now, offSince>>

revokeRecordKeeper(keeper) ==
    /\ authorizedRecordKeepers' = authorizedRecordKeepers \ {keeper}
    /\ UNCHANGED <<providers, providerList, now, offSince>>

\* The slashing history survives the reactivation.
reactivateProviderMutant(p) ==
    /\ providers[p].registered
    /\ ~providers[p].active
    /\ now >= providers[p].deactivatedUntil
    /\ providers' = [providers EXCEPT ![p].active = TRUE,
                                      ![p].reputationScore = INITIAL_REPUTATION]
    /\ NoteOff
    /\ UNCHANGED <<providerList, authorizedRecordKeepers, now>>

\* The cooldown is one tick short.
reactivateProviderEarlyMutant(p) ==
    /\ providers[p].registered
    /\ ~providers[p].active
    /\ now + 1 >= providers[p].deactivatedUntil
    /\ providers' = [providers EXCEPT ![p].active = TRUE,
                                      ![p].reputationScore = INITIAL_REPUTATION,
                                      ![p].totalSlashingEvents = 0]
    /\ NoteOff
    /\ UNCHANGED <<providerList, authorizedRecordKeepers, now>>

reactivateProvider(p) ==
    /\ providers[p].registered
    /\ ~providers[p].active
    /\ now >= providers[p].deactivatedUntil
    /\ providers' = [providers EXCEPT ![p].active = TRUE,
                                      ![p].reputationScore = INITIAL_REPUTATION,
                                      ![p].totalSlashingEvents = 0]
    /\ NoteOff
    /\ UNCHANGED <<providerList, authorizedRecordKeepers, now>>

Tick ==
    /\ Advance
    /\ UNCHANGED <<providers, providerList, authorizedRecordKeepers, offSince>>

\* The activity test of the filter is forgotten.
getEligibleProvidersMutant(maxPrice, minReputation) ==
    SelectSeq(providerList,
              LAMBDA p : /\ providers[p].reputationScore >= minReputation
                         /\ providers[p].minPriceUSD <= maxPrice)

\* getEligibleProviders filters the list and does not look at "registered".
getEligibleProviders(maxPrice, minReputation) ==
    SelectSeq(providerList,
              LAMBDA p : /\ providers[p].active
                         /\ providers[p].reputationScore >= minReputation
                         /\ providers[p].minPriceUSD <= maxPrice)

\* senders: who may make a record keeper's calls.
RegistryNextBy(senders) ==
    \/ \E p \in Providers, price \in Prices :
          registerProvider(p, price) \/ updateProvider(p, price)
    \/ \E p \in Providers, capacity \in Capacities : updateCapacity(p, capacity)
    \/ \E p \in Providers : reactivateProvider(p)
    \/ \E s \in senders, p \in Providers :
          \/ \E amount \in Amounts :
                increaseReputation(s, p, amount) \/ decreaseReputation(s, p, amount)
          \/ recordDealCompleted(s, p)
          \/ recordDealFailed(s, p)
          \/ recordSlashing(s, p)
    \/ \E k \in Keepers : authorizeRecordKeeper(k) \/ revokeRecordKeeper(k)
    \/ Tick

RegistryNext == RegistryNextBy(Keepers \cup {Owner})

RegistrySpec == RegistryInit /\ [][RegistryNext]_registryVars

(***************************************************************************)
(* Properties.                                                             *)
(***************************************************************************)

\* Type correctness; the reputation never leaves 0..MAX_REPUTATION, the range
\* the Provider struct documents ("0-100").
RegistryTypeOK ==
    /\ providers \in [Providers -> Provider]
    /\ \A p \in Providers : providers[p].reputationScore <= MAX_REPUTATION
    /\ providerList \in Seq(Providers)
    /\ authorizedRecordKeepers \subseteq Keepers
    /\ now \in Nat
    /\ offSince \in [Providers -> Nat]

\* A provider that can be given shards is in good standing: whatever mix of
\* penalties, rewards and reactivations it went through, an active provider's
\* score is at least 20 and it has fewer than 5 slashing events on record
\* (decreaseReputation, recordSlashing and reactivateProvider together).
GoodStanding ==
    \A p \in Providers :
        providers[p].active =>
            /\ providers[p].registered
            /\ providers[p].reputationScore >= LowReputation
            /\ providers[p].totalSlashingEvents < SlashingLimit

\* The list getEligibleProviders walks holds each registered provider exactly
\* once, so a selection never names a provider twice and never one that
\* createDeal's isProviderActive check would refuse.
ListMatchesMapping ==
    /\ \A p \in Providers :
          providers[p].registered <=> \E i \in 1..Len(providerList) : providerList[i] = p
    /\ \A i, j \in 1..Len(providerList) :
          providerList[i] = providerList[j] => i = j

\* A provider that was taken out of service stays out for the full cooldown,
\* counted from the moment it last became inactive, whatever further penalties
\* or rewards are recorded in between (deactivateProvider, reactivateProvider).
CooldownServed ==
    [][\A p \in Providers :
          providers[p].registered /\ ~providers[p].active /\ providers'[p].active
              => now >= offSince[p] + COOLDOWN_PERIOD]_registryVars

\* Every provider the selection view returns can be used in createDeal, and
\* none is returned twice.
EligibleAreUsable ==
    \A price \in Prices, rep \in {0, LowReputation} :
        LET eligible == getEligibleProviders(price, rep)
        IN  /\ \A i \in 1..Len(eligible) : isProviderActive(eligible[i])
            /\ \A i, j \in 1..Len(eligible) : eligible[i] = eligible[j] => i = j

\* The inductive strengthening of GoodStanding and CooldownServed: a provider
\* out of service may return no earlier than a cooldown after it left, and an
\* address that never registered is not active.
StandingInv ==
    /\ GoodStanding
    /\ \A p \in Providers :
          /\ offSince[p] <= now
          /\ providers[p].registered /\ ~providers[p].active =>
                providers[p].deactivatedUntil >= offSince[p] + COOLDOWN_PERIOD
=============================================================================
