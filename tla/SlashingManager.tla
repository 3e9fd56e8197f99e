-------------------------- MODULE SlashingManager --------------------------
(***************************************************************************)
(* Penalties: KYN burned from a provider's account for missed proofs, data *)
(* loss and early exits, the escalation of repeated penalties, and appeals *)
(* (smart-contracts/contracts/core/SlashingManager.sol), on top of the     *)
(* registry and the token whose functions they call.                       *)
(***************************************************************************)
EXTENDS ProviderRegistry, StorageToken

CONSTANTS
    Slashing,         \* the SlashingManager's own address
    MissWindow,       \* 48 hours: misses at most this far apart are consecutive
    REPEAT_WINDOW,    \* 30 days
    APPEAL_WINDOW,    \* 48 hours
    SlashCollaterals, \* collateral passed to slashMissedPost
    SlashAmounts,     \* amounts passed to slashDataLoss and slashEarlyExit
    ProviderKYN,      \* KYN each provider starts with
    MaxRecords        \* bound: slashings per provider

MISSED_POST_PENALTY_RATE == 100

ASSUME SlashingAddresses ==
    /\ Slashing \in Keepers \cap Contracts
    /\ Providers \subseteq Accounts
    /\ Slashing \notin Providers
ASSUME SlashingParameters ==
    /\ {MissWindow, REPEAT_WINDOW, APPEAL_WINDOW, ProviderKYN, MaxRecords} \subseteq Nat
    /\ SlashCollaterals \cup SlashAmounts \subseteq Nat
    \* the epoch is long ago: a time of 0 is outside every window
    /\ StartTime > REPEAT_WINDOW /\ StartTime > MissWindow
    /\ ProviderKYN * Cardinality(Providers) <= MAX_SUPPLY

VARIABLES
    penaltyStates,     \* mapping(address => ProviderPenaltyState)
    slashingHistory    \* mapping(address => SlashingRecord[])

slashVars == <<penaltyStates, slashingHistory>>
slashingVars == <<registryVars, supplyVars, roleVars, inflationVars, slashVars>>

ProviderPenaltyState ==
    [consecutiveMissedPosts: Nat, lastMissedPostTime: Nat, totalSlashed: Nat,
     lastSlashTime: Nat, slashCountInWindow: Nat]

\* appealDeadlines is kept in the record as deadline; the reason is left out.
SlashingRecord ==
    [timestamp: Nat, amount: Nat, appealed: BOOLEAN, resolved: BOOLEAN, deadline: Nat]

\* Deployed and wired by scripts/deploy-v2.js, every provider registered and funded.
SlashInit ==
    /\ providers = [p \in Providers |-> NewProvider(0)]
    /\ providerList = SetToSeq(Providers)
    /\ authorizedRecordKeepers = {Slashing}
    /\ now = StartTime
    /\ offSince = [p \in Providers |-> StartTime]
    /\ TokenStart([a \in Accounts |-> IF a \in Providers THEN ProviderKYN ELSE 0],
                  {}, {Slashing})
    /\ penaltyStates = [p \in Providers |->
          [consecutiveMissedPosts |-> 0, lastMissedPostTime |-> 0, totalSlashed |-> 0,
           lastSlashTime |-> 0, slashCountInWindow |-> 0]]
    /\ slashingHistory = [p \in Providers |-> <<>>]


calculateRepeatMultiplier(state) ==
    LET multiplier == 2 ^ state.slashCountInWindow
    IN  CASE now - state.lastSlashTime > REPEAT_WINDOW -> 1
          [] OTHER -> IF multiplier > 8 THEN 8 ELSE multiplier

\* The state with one more missed proof.
MissNoted(state) ==
    [state EXCEPT
        !.consecutiveMissedPosts = IF now - state.lastMissedPostTime <= MissWindow
                                   THEN @ + 1 ELSE 1,
        !.lastMissedPostTime = now]



\* The state with one more penalty.
SlashNoted(state, amount) ==
    [state EXCEPT
        !.totalSlashed = @ + amount,
        !.slashCountInWindow = IF now - state.lastSlashTime <= REPEAT_WINDOW THEN @ + 1 ELSE 1,
        !.lastSlashTime = now]

NewRecord(amount) ==
    [timestamp |-> now, amount |-> amount, appealed |-> FALSE, resolved |-> FALSE,
     deadline |-> now + APPEAL_WINDOW]

\* _applySlashing on a penalty state that the caller may have changed already.
applySlashing(p, state, amount) ==
    /\ Len(slashingHistory[p]) < MaxRecords
    /\ Slashing \in authorizedBurners
    /\ BurnOf(p, amount)
    /\ penaltyStates' = [penaltyStates EXCEPT ![p] = SlashNoted(state, amount)]
    /\ slashingHistory' = [slashingHistory EXCEPT ![p] = Append(@, NewRecord(amount))]
    /\ UNCHANGED <<roleVars, inflationVars>>

PostPenalty(state, collateral) ==
    ((collateral * MISSED_POST_PENALTY_RATE) \div 10000) * calculateRepeatMultiplier(state)

\* onlyOwner, as the other two.  _deregisterProvider only emits an event.
slashMissedPost(p, collateral) ==
    /\ applySlashing(p, MissNoted(penaltyStates[p]), PostPenalty(penaltyStates[p], collateral))
    /\ KeeperCall(Slashing, p, SlashedOn(providers[p]))

slashDataLoss(p, dealCollateral) ==
    /\ applySlashing(p, penaltyStates[p], dealCollateral)
    /\ KeeperCall(Slashing, p, SlashedOn(Decreased(providers[p], 50)))

slashEarlyExit(p, penaltyAmount) ==
    /\ applySlashing(p, penaltyStates[p], penaltyAmount)
    /\ UNCHANGED registryVars

submitAppeal(p, i) ==
    LET record == slashingHistory[p][i]
    IN  /\ ~record.appealed
        /\ ~record.resolved
        /\ now <= record.deadline
        /\ slashingHistory' = [slashingHistory EXCEPT ![p][i].appealed = TRUE]
        /\ UNCHANGED <<registryVars, supplyVars, roleVars, inflationVars, penaltyStates>>

\* The appeal stays open.
ResolvedMutant(p, i) == UNCHANGED slashingHistory

Resolved(p, i) == slashingHistory' = [slashingHistory EXCEPT ![p][i].resolved = TRUE]

\* onlyOwner.  An appeal that succeeds is refunded by minting.
resolveAppeal(p, i, upheld) ==
    LET record == slashingHistory[p][i]
    IN  /\ record.appealed
        /\ ~record.resolved
        /\ Resolved(p, i)
        /\ IF upheld THEN UNCHANGED <<supplyVars, registryVars>>
           ELSE /\ Slashing \in authorizedMinters
                /\ MintTo(p, record.amount)
                /\ KeeperCall(Slashing, p, Increased(providers[p], 10))
        /\ UNCHANGED <<roleVars, inflationVars, penaltyStates>>

\* The owner's calls on the token that concern this contract.
SlashingRoles ==
    /\ authorizeMinter(Slashing) \/ revokeMinter(Slashing)
    /\ UNCHANGED <<registryVars, slashVars>>

SlashNext ==
    \/ \E p \in Providers :
          \/ \E collateral \in SlashCollaterals : slashMissedPost(p, collateral)
          \/ \E amount \in SlashAmounts : slashDataLoss(p, amount) \/ slashEarlyExit(p, amount)
          \/ \E i \in DOMAIN slashingHistory[p] :
                submitAppeal(p, i) \/ \E upheld \in BOOLEAN : resolveAppeal(p, i, upheld)
    \/ SlashingRoles
    \/ RegistryNextBy({Owner}) /\ UNCHANGED <<supplyVars, roleVars, inflationVars, slashVars>>

SlashSpec == SlashInit /\ [][SlashNext]_slashingVars

(***************************************************************************)
(* Properties.                                                             *)
(***************************************************************************)

AmountsOf(p, test(_)) ==
    LET chosen == {i \in DOMAIN slashingHistory[p] : test(slashingHistory[p][i])}
    IN  MapThenSumSet(LAMBDA i : slashingHistory[p][i].amount, chosen)

\* Type correctness of the penalties.
SlashTypeOK ==
    /\ penaltyStates \in [Providers -> ProviderPenaltyState]
    /\ slashingHistory \in [Providers -> Seq(SlashingRecord)]
    /\ balanceOf \in [Accounts -> Nat]


\* A slashing is refunded at most once, and only after an appeal: minting in
\* resolveAppeal stays within the penalties whose appeals are closed.
RefundsWithinPenalties ==
    minted <= MapThenSumSet(
                LAMBDA p : AmountsOf(p, LAMBDA r : r.appealed /\ r.resolved), Providers)


\* The records since the last gap longer than the window.
LastChain(p) ==
    LET history == slashingHistory[p]
    IN  {i \in DOMAIN history :
            \A j \in (i + 1)..Len(history) :
                history[j].timestamp - history[j - 1].timestamp <= REPEAT_WINDOW}

=============================================================================
