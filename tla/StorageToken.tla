---------------------------- MODULE StorageToken ----------------------------
(***************************************************************************)
(* The KYN token beyond plain transfers: minting up to MAX_SUPPLY by       *)
(* authorised minters, burning, the roles, and the yearly inflation step   *)
(* (smart-contracts/contracts/core/StorageToken.sol).                      *)
(***************************************************************************)
EXTENDS TokenLedger, BlockClock, SequencesExt

CONSTANTS
    Deployer,         \* owner of the token; receives the initial supply
    Contracts,        \* addresses that may be given the minter or burner role
    INITIAL_SUPPLY,   \* 500 million KYN
    MAX_SUPPLY,       \* 1 billion KYN
    Year,             \* 365 days
    TokenAmounts,     \* amounts moved, minted or burned
    MaxMinted         \* bound: KYN minted in a behaviour

INFLATION_DECREASE_PER_YEAR == 50
MIN_INFLATION_RATE == 0
FirstInflationRate == 500

ASSUME TokenAddresses == {Deployer} \cup Contracts \subseteq Accounts
ASSUME TokenParameters ==
    /\ {INITIAL_SUPPLY, MAX_SUPPLY, MaxMinted} \subseteq Nat
    /\ INITIAL_SUPPLY <= MAX_SUPPLY
    /\ Year \in Nat \ {0}
    /\ TokenAmounts \subseteq Nat

VARIABLES
    totalSupply,
    totalTokensBurned,
    authorizedMinters,        \* the addresses mapped to true
    authorizedBurners,
    annualInflationRate,
    lastInflationTimestamp,
    minted                    \* history: KYN minted after deployment

supplyVars == <<balanceOf, totalSupply, totalTokensBurned, minted>>
roleVars == <<authorizedMinters, authorizedBurners>>
inflationVars == <<annualInflationRate, lastInflationTimestamp>>
tokenVars == <<supplyVars, roleVars, inflationVars, now>>

TotalBalance == MapThenSumSet(LAMBDA a : balanceOf[a], Accounts)

\* The token with its supply handed out to holders and its roles granted.
TokenStart(balances, minters, burners) ==
    /\ balanceOf = balances
    /\ totalSupply = TotalBalance
    /\ totalTokensBurned = 0
    /\ authorizedMinters = minters
    /\ authorizedBurners = burners
    /\ annualInflationRate = FirstInflationRate
    /\ now = StartTime
    /\ lastInflationTimestamp = StartTime
    /\ minted = 0

TokenInit ==
    TokenStart([a \in Accounts |-> IF a = Deployer THEN INITIAL_SUPPLY ELSE 0], {}, {})

(***************************************************************************)
(* The supply, as the other contracts change it.                           *)
(***************************************************************************)

\* The cap is compared with the supply before the mint.
MintToMutant(to, amount) ==
    /\ totalSupply <= MAX_SUPPLY
    /\ minted + amount <= MaxMinted
    /\ balanceOf' = [balanceOf EXCEPT ![to] = @ + amount]
    /\ totalSupply' = totalSupply + amount
    /\ minted' = minted + amount
    /\ UNCHANGED totalTokensBurned

\* What mint does for a caller that is authorised.
MintTo(to, amount) ==
    /\ totalSupply + amount <= MAX_SUPPLY
    /\ minted + amount <= MaxMinted
    /\ balanceOf' = [balanceOf EXCEPT ![to] = @ + amount]
    /\ totalSupply' = totalSupply + amount
    /\ minted' = minted + amount
    /\ UNCHANGED totalTokensBurned

\* The burned tokens stay in the supply.
BurnOfMutant(from, amount) ==
    /\ Covers(from, amount)
    /\ balanceOf' = [balanceOf EXCEPT ![from] = @ - amount]
    /\ totalTokensBurned' = totalTokensBurned + amount
    /\ UNCHANGED <<totalSupply, minted>>

\* What burn and burnFrom do once the caller is cleared.
BurnOf(from, amount) ==
    /\ Covers(from, amount)
    /\ balanceOf' = [balanceOf EXCEPT ![from] = @ - amount]
    /\ totalSupply' = totalSupply - amount
    /\ totalTokensBurned' = totalTokensBurned + amount
    /\ UNCHANGED minted

(***************************************************************************)
(* Transactions on the token itself.                                       *)
(***************************************************************************)

mint(sender, to, amount) ==
    /\ sender \in authorizedMinters
    /\ MintTo(to, amount)
    /\ UNCHANGED <<roleVars, inflationVars, now>>

burn(sender, amount) ==
    /\ BurnOf(sender, amount)
    /\ UNCHANGED <<roleVars, inflationVars, now>>

burnFrom(sender, from, amount) ==
    /\ sender \in authorizedBurners
    /\ BurnOf(from, amount)
    /\ UNCHANGED <<roleVars, inflationVars, now>>

authorizeBurner(c) ==
    /\ authorizedBurners' = authorizedBurners \cup {c}
    /\ UNCHANGED <<supplyVars, authorizedMinters, inflationVars, now>>

revokeBurner(c) ==
    /\ authorizedBurners' = authorizedBurners \ {c}
    /\ UNCHANGED <<supplyVars, authorizedMinters, inflationVars, now>>

authorizeMinter(c) ==
    /\ authorizedMinters' = authorizedMinters \cup {c}
    /\ UNCHANGED <<supplyVars, authorizedBurners, inflationVars, now>>

revokeMinter(c) ==
    /\ authorizedMinters' = authorizedMinters \ {c}
    /\ UNCHANGED <<supplyVars, authorizedBurners, inflationVars, now>>

\* The date of the last step is not moved on.
updateInflationRateMutant ==
    /\ now >= lastInflationTimestamp + Year
    /\ annualInflationRate' =
          IF annualInflationRate > INFLATION_DECREASE_PER_YEAR
          THEN annualInflationRate - INFLATION_DECREASE_PER_YEAR ELSE MIN_INFLATION_RATE
    /\ UNCHANGED <<supplyVars, roleVars, lastInflationTimestamp, now>>

updateInflationRate ==
    /\ now >= lastInflationTimestamp + Year
    /\ annualInflationRate' =
          IF annualInflationRate > INFLATION_DECREASE_PER_YEAR
          THEN annualInflationRate - INFLATION_DECREASE_PER_YEAR ELSE MIN_INFLATION_RATE
    /\ lastInflationTimestamp' = now
    /\ UNCHANGED <<supplyVars, roleVars, now>>

\* One transfer of a batch; acc.ok tells whether all transfers so far were covered.
BatchStep(sender, acc, to, amount) ==
    [ok |-> acc.ok /\ acc.b[sender] >= amount,
     b  |-> Moved(acc.b, sender, to, amount)]

\* payments: the recipients and amounts zipped.  One that fails reverts them all.
batchTransfer(sender, payments) ==
    LET batch == FoldLeft(LAMBDA acc, pay : BatchStep(sender, acc, pay[1], pay[2]),
                          [ok |-> TRUE, b |-> balanceOf], payments)
    IN  /\ Len(payments) <= 100
        /\ batch.ok
        /\ balanceOf' = batch.b
        /\ UNCHANGED <<totalSupply, totalTokensBurned, minted, roleVars, inflationVars, now>>

Years ==
    /\ Advance
    /\ UNCHANGED <<supplyVars, roleVars, inflationVars>>

Payments == Accounts \X TokenAmounts

TokenNext ==
    \/ \E c \in Contracts, a \in Accounts, amount \in TokenAmounts :
          mint(c, a, amount) \/ burnFrom(c, a, amount)
    \/ \E a \in Accounts, amount \in TokenAmounts : burn(a, amount)
    \/ \E c \in Contracts :
          \/ authorizeBurner(c)
          \/ revokeBurner(c)
          \/ authorizeMinter(c)
          \/ revokeMinter(c)
    \/ updateInflationRate
    \/ \E a \in Accounts, payments \in [1..2 -> Payments] : batchTransfer(a, payments)
    \/ Years

TokenSpec == TokenInit /\ [][TokenNext]_tokenVars

(***************************************************************************)
(* Properties.                                                             *)
(***************************************************************************)

\* Type correctness of the token.
TokenTypeOK ==
    /\ balanceOf \in [Accounts -> Nat]
    /\ {totalSupply, totalTokensBurned, minted, lastInflationTimestamp, now} \subseteq Nat
    /\ authorizedMinters \subseteq Contracts
    /\ authorizedBurners \subseteq Contracts
    /\ annualInflationRate \in 0..FirstInflationRate

\* The supply is the sum of the balances, through batches with the sender
\* among the recipients, mints and both kinds of burn.
SupplyIsSum == totalSupply = TotalBalance

\* However often minters come and go, the supply never exceeds MAX_SUPPLY, and
\* every token minted or burned is accounted for.
SupplyCapped ==
    /\ totalSupply <= MAX_SUPPLY
    /\ totalSupply + totalTokensBurned = INITIAL_SUPPLY + minted

\* The rate falls by at most INFLATION_DECREASE_PER_YEAR for every full year
\* since deployment ("called annually").
InflationAnnual ==
    FirstInflationRate - annualInflationRate
        <= INFLATION_DECREASE_PER_YEAR * ((now - StartTime) \div Year)
=============================================================================
