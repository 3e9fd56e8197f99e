---------------------------- MODULE TokenVesting ----------------------------
(***************************************************************************)
(* Vesting of KYN with a cliff and a linear release, which the owner may   *)
(* revoke (smart-contracts/contracts/TokenVesting.sol).  The contract is a *)
(* holder of the token like any other: the token's own transactions go on  *)
(* beside it, and nothing ties its balance to its schedules.               *)
(***************************************************************************)
EXTENDS StorageToken

CONSTANTS
    Beneficiaries,    \* addresses that may be given a schedule
    Vesting,          \* the contract's own address
    VestingStarts,    \* values of _start
    VestingCliffs,    \* values of _cliff
    VestingDurations, \* values of _duration
    VestingAmounts    \* values of _amount

ASSUME VestingAddresses ==
    /\ Beneficiaries \cup {Vesting} \subseteq Accounts
    /\ Vesting \notin Beneficiaries \cup {Deployer}
ASSUME VestingParameters ==
    VestingStarts \cup VestingCliffs \cup VestingDurations \cup VestingAmounts \subseteq Nat

VARIABLES
    vestingSchedules,   \* mapping(address => VestingSchedule); the beneficiary is the key
    returned            \* history: what revoke sent back to the owner

vestingVars == <<vestingSchedules, returned>>

\* What the mapping holds for an address without a schedule.
NoSchedule ==
    [start |-> 0, cliff |-> 0, duration |-> 0, totalAmount |-> 0, releasedAmount |-> 0,
     revoked |-> FALSE]

VestingInit ==
    /\ TokenInit
    /\ vestingSchedules = [b \in Beneficiaries |-> NoSchedule]
    /\ returned = [b \in Beneficiaries |-> 0]

\* onlyOwner.  The tokens are not checked to be there.
createVestingSchedule(b, start, cliff, duration, amount) ==
    /\ amount > 0
    /\ vestingSchedules[b].totalAmount = 0
    /\ vestingSchedules' = [vestingSchedules EXCEPT ![b] =
          [start |-> start, cliff |-> start + cliff, duration |-> duration,
           totalAmount |-> amount, releasedAmount |-> 0, revoked |-> FALSE]]
    /\ UNCHANGED <<tokenVars, returned>>

\* The cliff is not looked at.
vestedAmountMutant(schedule) ==
    CASE now >= schedule.start + schedule.duration -> schedule.totalAmount
      [] OTHER -> IF now < schedule.start THEN 0
                  ELSE (schedule.totalAmount * (now - schedule.start)) \div schedule.duration

\* _calculateVestedAmount
vestedAmount(schedule) ==
    CASE now < schedule.cliff -> 0
      [] now >= schedule.cliff /\ now >= schedule.start + schedule.duration ->
            schedule.totalAmount
      [] OTHER -> (schedule.totalAmount * (now - schedule.start)) \div schedule.duration

getReleasableAmount(b) ==
    LET schedule == vestingSchedules[b]
    IN  IF schedule.totalAmount = 0 \/ schedule.revoked THEN 0
        ELSE vestedAmount(schedule) - schedule.releasedAmount

\* Sent by the beneficiary.
release(b) ==
    LET schedule         == vestingSchedules[b]
        releasableAmount == vestedAmount(schedule) - schedule.releasedAmount
    IN  /\ schedule.totalAmount > 0
        /\ ~schedule.revoked
        /\ releasableAmount > 0
        /\ vestingSchedules' =
              [vestingSchedules EXCEPT ![b].releasedAmount = @ + releasableAmount]
        /\ transfer(Vesting, b, releasableAmount)
        /\ UNCHANGED <<totalSupply, totalTokensBurned, minted, roleVars, inflationVars, now,
                       returned>>

\* All of the schedule goes back.
UnvestedMutant(schedule) == schedule.totalAmount

\* What revoke calls the unvested amount.
Unvested(schedule) == schedule.totalAmount - schedule.releasedAmount

\* onlyOwner.
revoke(b) ==
    LET schedule       == vestingSchedules[b]
        unvestedAmount == Unvested(schedule)
    IN  /\ schedule.totalAmount > 0
        /\ ~schedule.revoked
        /\ vestingSchedules' = [vestingSchedules EXCEPT ![b].revoked = TRUE]
        /\ IF unvestedAmount > 0 THEN transfer(Vesting, Deployer, unvestedAmount)
                                 ELSE UNCHANGED balanceOf
        /\ returned' = [returned EXCEPT ![b] = @ + unvestedAmount]
        /\ UNCHANGED <<totalSupply, totalTokensBurned, minted, roleVars, inflationVars, now>>

VestingNext ==
    \/ \E b \in Beneficiaries :
          \/ \E start \in VestingStarts, cliff \in VestingCliffs,
                duration \in VestingDurations, amount \in VestingAmounts :
                createVestingSchedule(b, start, cliff, duration, amount)
          \/ release(b)
          \/ revoke(b)
    \/ TokenNext /\ UNCHANGED vestingVars

VestingSpec == VestingInit /\ [][VestingNext]_<<tokenVars, vestingVars>>

(***************************************************************************)
(* Properties.                                                             *)
(***************************************************************************)

\* No schedule pays out ahead of time: what was released never exceeds what
\* has vested, so the subtractions in release and getReleasableAmount never
\* revert, and nothing is released before the cliff.
ReleasedIsVested ==
    \A b \in Beneficiaries :
        LET schedule == vestingSchedules[b]
        IN  /\ schedule.totalAmount > 0 => schedule.releasedAmount <= vestedAmount(schedule)
            /\ schedule.releasedAmount > 0 => now >= schedule.cliff
            /\ getReleasableAmount(b) \in Nat

\* A schedule never costs the contract more than its amount, revoked or not:
\* released and returned tokens together stay within totalAmount.
ScheduleNeverOverpays ==
    \A b \in Beneficiaries :
        vestingSchedules[b].releasedAmount + returned[b] <= vestingSchedules[b].totalAmount
=============================================================================
