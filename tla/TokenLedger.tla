----------------------------- MODULE TokenLedger -----------------------------
(***************************************************************************)
(* The ERC-20 balances of the KYN token, as far as the other contracts     *)
(* move them (OpenZeppelin's ERC20).  A transfer that is not covered       *)
(* reverts the transaction that makes it: Covers is a conjunct of the      *)
(* action's guard.  Allowances are left out: an approval that is missing   *)
(* only makes transferFrom revert, and a reverted transaction is a step    *)
(* that changes nothing.                                                   *)
(***************************************************************************)
EXTENDS Integers

CONSTANT Accounts     \* every address that holds KYN

VARIABLE balanceOf

\* The balance check is missing.
CoversMutant(from, value) == TRUE

Covers(from, value) == balanceOf[from] >= value

\* The balances b after _transfer(from, to, value).
Moved(b, from, to, value) ==
    IF from = to THEN b
    ELSE [a \in Accounts |->
            CASE a = from -> b[a] - value
              [] a = to   -> b[a] + value
              [] OTHER    -> b[a]]

transfer(from, to, value) ==
    /\ Covers(from, value)
    /\ balanceOf' = Moved(balanceOf, from, to, value)
=============================================================================
