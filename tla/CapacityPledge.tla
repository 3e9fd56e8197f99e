--------------------------- MODULE CapacityPledge ---------------------------
(***************************************************************************)
(* Capacity pledges: a provider locks collateral for a term, gets it back  *)
(* at the end of the term, or earlier with part of it burned               *)
(* (smart-contracts/contracts/core/CapacityPledge.sol).                    *)
(***************************************************************************)
EXTENDS StorageToken

CONSTANTS
    Pledgers,          \* addresses that pledge capacity
    PledgeContract,    \* the contract's own address
    DURATION_30_DAYS, DURATION_90_DAYS, DURATION_180_DAYS, DURATION_365_DAYS,
    COLLATERAL_PER_GB, \* 75 * 10^16, the fixed ratio of calculateMinimumCollateral
    PledgeCapacities,  \* capacities in GB passed to createPledge
    PledgeDurations,   \* durations passed to createPledge
    Collaterals,       \* collateral amounts passed to createPledge
    Utilizations,      \* utilisations passed to updateUtilization
    PledgerKYN,        \* KYN each pledger starts with
    MaxPledges         \* bound: pledges per provider

EARLY_EXIT_PENALTY_PERCENT == 20

\* The multiplier of each of the four terms.
Multiplier ==
    (DURATION_30_DAYS :> 100) @@ (DURATION_90_DAYS :> 110)
        @@ (DURATION_180_DAYS :> 120) @@ (DURATION_365_DAYS :> 130)

ASSUME PledgeAddresses ==
    /\ Pledgers \cup {PledgeContract} \subseteq Accounts
    /\ PledgeContract \notin Pledgers \cup {Deployer}
ASSUME PledgeParameters ==
    /\ {DURATION_30_DAYS, DURATION_90_DAYS, DURATION_180_DAYS, DURATION_365_DAYS}
          \subseteq Nat \ {0}
    \* the ratio is far above 100, so that one percent of a collateral is not 0
    /\ COLLATERAL_PER_GB \in Nat /\ COLLATERAL_PER_GB >= 100
    /\ PledgeCapacities \cup PledgeDurations \cup Collaterals \cup Utilizations \subseteq Nat
    /\ {PledgerKYN, MaxPledges} \subseteq Nat

VARIABLES
    pledges,                 \* pledges[provider]: the provider's pledges, in order of id
    totalPledgedCapacityGB,
    totalActiveCollateral

pledgeVars == <<pledges, totalPledgedCapacityGB, totalActiveCollateral>>

Pledge ==
    [capacityGB: Nat, collateral: Nat, startTime: Nat, duration: Nat,
     multiplier: Nat, utilizationGB: Nat, active: BOOLEAN]

NoPledges ==
    /\ pledges = [p \in Pledgers |-> <<>>]
    /\ totalPledgedCapacityGB = 0
    /\ totalActiveCollateral = 0

\* The token's deployer has handed the pledgers their KYN.
PledgeInit ==
    /\ TokenStart([a \in Accounts |-> IF a \in Pledgers THEN PledgerKYN ELSE 0], {}, {})
    /\ NoPledges

calculateMinimumCollateral(capacityGB) == capacityGB * COLLATERAL_PER_GB

createPledge(p, capacityGB, duration, collateralAmount) ==
    /\ Len(pledges[p]) < MaxPledges
    /\ capacityGB > 0
    /\ duration \in DOMAIN Multiplier
    /\ collateralAmount >= calculateMinimumCollateral(capacityGB)
    /\ transfer(p, PledgeContract, collateralAmount)
    /\ pledges' = [pledges EXCEPT ![p] = Append(@,
          [capacityGB |-> capacityGB, collateral |-> collateralAmount, startTime |-> now,
           duration |-> duration, multiplier |-> Multiplier[duration],
           utilizationGB |-> 0, active |-> TRUE])]
    /\ totalPledgedCapacityGB' = totalPledgedCapacityGB + capacityGB
    /\ totalActiveCollateral' = totalActiveCollateral + collateralAmount
    /\ UNCHANGED <<totalSupply, totalTokensBurned, minted, roleVars, inflationVars, now>>

\* The capacity of a closed pledge stays in the total.
ClosedMutant(p, id) ==
    /\ pledges' = [pledges EXCEPT ![p][id].active = FALSE]
    /\ totalPledgedCapacityGB' = totalPledgedCapacityGB
    /\ totalActiveCollateral' = totalActiveCollateral - pledges[p][id].collateral

\* Both ways out switch the pledge off and take it off the totals.
Closed(p, id) ==
    /\ pledges' = [pledges EXCEPT ![p][id].active = FALSE]
    /\ totalPledgedCapacityGB' = totalPledgedCapacityGB - pledges[p][id].capacityGB
    /\ totalActiveCollateral' = totalActiveCollateral - pledges[p][id].collateral

completePledge(p, id) ==
    /\ pledges[p][id].active
    /\ now >= pledges[p][id].startTime + pledges[p][id].duration
    /\ Closed(p, id)
    /\ transfer(PledgeContract, p, pledges[p][id].collateral)
    /\ UNCHANGED <<totalSupply, totalTokensBurned, minted, roleVars, inflationVars, now>>

Remaining(pledge) ==
    LET elapsed == now - pledge.startTime
    IN  IF pledge.duration > elapsed THEN pledge.duration - elapsed ELSE 0

\* The floor is forgotten.
PenaltyMutant(pledge) ==
    LET remaining  == Remaining(pledge)
        penalty    == (pledge.collateral * remaining * EARLY_EXIT_PENALTY_PERCENT)
                         \div (pledge.duration * 100)
    IN  penalty

\* The penalty is charged on the time elapsed.
PenaltyElapsedMutant(pledge) ==
    LET remaining  == pledge.duration - Remaining(pledge)
        penalty    == (pledge.collateral * remaining * EARLY_EXIT_PENALTY_PERCENT)
                         \div (pledge.duration * 100)
        minPenalty == pledge.collateral \div 100
    IN  IF penalty < minPenalty /\ remaining > 0 THEN minPenalty ELSE penalty

\* The part of the collateral that leaving now would burn.
Penalty(pledge) ==
    LET remaining  == Remaining(pledge)
        penalty    == (pledge.collateral * remaining * EARLY_EXIT_PENALTY_PERCENT)
                         \div (pledge.duration * 100)
        minPenalty == pledge.collateral \div 100
    IN  IF penalty < minPenalty /\ remaining > 0 THEN minPenalty ELSE penalty

\* The penalty is taken off the supply and stays in the contract.
exitPledgeEarlyMutant(p, id) ==
    LET pledge       == pledges[p][id]
        penalty      == Penalty(pledge)
        returnAmount == pledge.collateral - penalty
    IN  /\ pledge.active
        /\ returnAmount >= 0
        /\ Closed(p, id)
        /\ Covers(PledgeContract, pledge.collateral)
        /\ balanceOf' = [balanceOf EXCEPT ![PledgeContract] = @ - returnAmount,
                                          ![p] = @ + returnAmount]
        /\ totalSupply' = totalSupply - penalty
        /\ totalTokensBurned' = totalTokensBurned + penalty
        /\ UNCHANGED <<minted, roleVars, inflationVars, now>>

\* The penalty is burned out of the contract's balance, the rest returned.
exitPledgeEarly(p, id) ==
    LET pledge       == pledges[p][id]
        penalty      == Penalty(pledge)
        returnAmount == pledge.collateral - penalty
    IN  /\ pledge.active
        /\ returnAmount >= 0
        /\ Closed(p, id)
        /\ Covers(PledgeContract, pledge.collateral)
        /\ balanceOf' = [balanceOf EXCEPT ![PledgeContract] = @ - pledge.collateral,
                                          ![p] = @ + returnAmount]
        /\ totalSupply' = totalSupply - penalty
        /\ totalTokensBurned' = totalTokensBurned + penalty
        /\ UNCHANGED <<minted, roleVars, inflationVars, now>>

\* The use is not compared with the capacity.
updateUtilizationMutant(p, id, newUtilizationGB) ==
    /\ pledges[p][id].active
    /\ pledges' = [pledges EXCEPT ![p][id].utilizationGB = newUtilizationGB]
    /\ UNCHANGED <<supplyVars, roleVars, inflationVars, now, totalPledgedCapacityGB,
                   totalActiveCollateral>>

\* onlyOwner.
updateUtilization(p, id, newUtilizationGB) ==
    /\ pledges[p][id].active
    /\ newUtilizationGB <= pledges[p][id].capacityGB
    /\ pledges' = [pledges EXCEPT ![p][id].utilizationGB = newUtilizationGB]
    /\ UNCHANGED <<supplyVars, roleVars, inflationVars, now, totalPledgedCapacityGB,
                   totalActiveCollateral>>

getAvailableCapacity(p, id) ==
    IF pledges[p][id].active
    THEN pledges[p][id].capacityGB - pledges[p][id].utilizationGB
    ELSE 0

PledgeTick ==
    /\ Advance
    /\ UNCHANGED <<supplyVars, roleVars, inflationVars, pledgeVars>>

PledgeNext ==
    \/ \E p \in Pledgers, capacityGB \in PledgeCapacities, duration \in PledgeDurations,
          collateral \in Collaterals : createPledge(p, capacityGB, duration, collateral)
    \/ \E p \in Pledgers : \E id \in DOMAIN pledges[p] :
          \/ completePledge(p, id)
          \/ exitPledgeEarly(p, id)
          \/ \E used \in Utilizations : updateUtilization(p, id, used)
    \/ PledgeTick

PledgeSpec == PledgeInit /\ [][PledgeNext]_<<tokenVars, pledgeVars>>

(***************************************************************************)
(* Properties.                                                             *)
(***************************************************************************)

ActivePledges ==
    UNION {{<<p, id>> : id \in {i \in DOMAIN pledges[p] : pledges[p][i].active}} : p \in Pledgers}

\* Type correctness of the pledges.
PledgeTypeOK ==
    /\ balanceOf \in [Accounts -> Nat]
    /\ \A p \in Pledgers : \A id \in DOMAIN pledges[p] :
          pledges[p][id] \in Pledge /\ getAvailableCapacity(p, id) \in Nat
    /\ {totalPledgedCapacityGB, totalActiveCollateral, totalSupply, now} \subseteq Nat

\* The two running totals are the sums over the active pledges, so the
\* subtractions on the way out never revert and trap a pledge.
TotalsMatch ==
    /\ totalActiveCollateral =
          MapThenSumSet(LAMBDA x : pledges[x[1]][x[2]].collateral, ActivePledges)
    /\ totalPledgedCapacityGB =
          MapThenSumSet(LAMBDA x : pledges[x[1]][x[2]].capacityGB, ActivePledges)

\* The contract holds exactly the collateral of the active pledges: whoever
\* leaves last still gets everything back.
CollateralBacked == balanceOf[PledgeContract] = totalActiveCollateral

\* Leaving before the term always burns something, never more than 20 percent
\* (or 1 percent of a tiny remainder), and nothing after the term: the floor
\* that is there "to prevent zero-penalty exits" and the cap hold together.
PenaltyInRange ==
    \A x \in ActivePledges :
        LET pledge == pledges[x[1]][x[2]]
        IN  /\ Penalty(pledge) * 100 <= pledge.collateral * EARLY_EXIT_PENALTY_PERCENT
            /\ Penalty(pledge) > 0 <=> Remaining(pledge) > 0

\* Waiting never costs: as time passes the penalty of a pledge only falls.
PenaltyFalls ==
    [][\A x \in ActivePledges :
          pledges'[x[1]][x[2]].active =>
              Penalty(pledges[x[1]][x[2]])' <= Penalty(pledges[x[1]][x[2]])]_<<tokenVars, pledgeVars>>

\* No KYN appears or disappears but by the penalties: what pledgers hold and
\* the contract holds is what they started with less what was burned.
NothingLost ==
    /\ totalSupply = MapThenSumSet(LAMBDA a : balanceOf[a], Accounts)
    /\ totalSupply + totalTokensBurned = PledgerKYN * Cardinality(Pledgers)
=============================================================================
