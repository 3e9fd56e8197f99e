--------------------------- MODULE ProofVerifier ---------------------------
(***************************************************************************)
(* Proofs of replication and of spacetime: a provider registers the root   *)
(* of its sealed replica once, is challenged over it, and answers before   *)
(* the deadline or is recorded as having missed the challenge              *)
(* (smart-contracts/contracts/core/ProofVerifier.sol).                     *)
(*                                                                         *)
(* A hash is abstracted to what it is compared by: a commitment to the     *)
(* seed it commits to, a Merkle path to the root it leads to, the hash of  *)
(* the proof of work to its first bytes.                                   *)
(***************************************************************************)
EXTENDS BlockClock, Sequences, FiniteSets

CONSTANTS
    Providers,      \* addresses that prove
    NoAddress,      \* address(0)
    ProvenDeals,    \* deal ids
    Roots,          \* roots of sealed or unsealed data
    NoRoot,         \* bytes32(0)
    Seeds,          \* seeds providers commit to
    Nonces,         \* nonces of the proof of work
    WorkHashes,     \* first bytes of the hashes of the proof of work
    Difficulties,   \* values passed to setPoRepDifficulty
    FirstDifficulty,\* 20 in the contract
    POST_INTERVAL,  \* 24 hours
    GRACE_PERIOD,   \* 2 hours
    MaxChallenges   \* bound: challenges created

ASSUME ProofAddresses ==
    /\ NoAddress \notin Providers
    /\ NoRoot \notin Roots
    /\ ProvenDeals # {} /\ Seeds # {}
ASSUME ProofParameters ==
    /\ {POST_INTERVAL, GRACE_PERIOD, MaxChallenges} \subseteq Nat
    /\ FirstDifficulty \in 0..256
    /\ Difficulties \subseteq Nat
    /\ WorkHashes \subseteq Seq(0..255)
    /\ StartTime > 0

VARIABLES
    porepProofs,         \* mapping(uint256 => mapping(address => PoRepProof))
    postChallenges,      \* mapping(uint256 => PoStChallenge)
    challengeCount,
    lastPostSubmission,  \* mapping(address => mapping(uint256 => uint256))
    consecutiveMisses,   \* mapping(address => uint256)
    usedPoRepNonces,     \* mapping(address => mapping(uint256 => bool)), as sets
    poregDifficultyBits

porepVars == <<porepProofs, usedPoRepNonces, poregDifficultyBits>>
postVars == <<postChallenges, challengeCount, lastPostSubmission, consecutiveMisses>>
proofVars == <<now, porepVars, postVars>>

\* One id more than challenges are created: an id that does not exist yet.
ChallengeIds == 0..MaxChallenges

\* unsealedCID and timestamp are never read and left out.
PoRepProof == [sealedCID: Roots \cup {NoRoot}, verified: BOOLEAN]
NoPoRep == [sealedCID |-> NoRoot, verified |-> FALSE]

\* The fields submitted and verified are always set together.
PoStChallenge ==
    [dealId: ProvenDeals, provider: Providers \cup {NoAddress}, deadline: Nat,
     submitted: BOOLEAN, checked: BOOLEAN, commitment: Seeds]

\* What the mapping holds for an id that was never assigned, up to the deal
\* and the commitment, which nothing looks at then.
NoChallenge ==
    [dealId |-> CHOOSE d \in ProvenDeals : TRUE, provider |-> NoAddress, deadline |-> 0,
     submitted |-> FALSE, checked |-> FALSE, commitment |-> CHOOSE s \in Seeds : TRUE]

ProofInit ==
    /\ now = StartTime
    /\ porepProofs = [d \in ProvenDeals |-> [p \in Providers |-> NoPoRep]]
    /\ postChallenges = [id \in ChallengeIds |-> NoChallenge]
    /\ challengeCount = 0
    /\ lastPostSubmission = [p \in Providers |-> [d \in ProvenDeals |-> 0]]
    /\ consecutiveMisses = [p \in Providers \cup {NoAddress} |-> 0]
    /\ usedPoRepNonces = [p \in Providers |-> {}]
    /\ poregDifficultyBits = FirstDifficulty

\* The byte value & (0xFF >> n): the mask keeps the low 8 - n bits.
MaskedLow(byte, n) == byte % (2 ^ (8 - n))

hasLeadingZeroBits(value, bits) ==
    LET fullBytes     == bits \div 8
        remainingBits == bits % 8
    IN  /\ \A i \in 1..fullBytes : value[i] = 0
        /\ remainingBits > 0 => MaskedLow(value[fullBytes + 1], remainingBits) = 0

\* _verifyPoRepProof.  The commitment and the hash the sender encodes are the
\* recomputed ones: any other proof data makes the transaction revert.
verifyPoRepProof(p, sealedCID, unsealedCID, nonce, workHash) ==
    /\ sealedCID # NoRoot /\ unsealedCID # NoRoot
    /\ sealedCID # unsealedCID
    /\ nonce \notin usedPoRepNonces[p]
    /\ hasLeadingZeroBits(workHash, poregDifficultyBits)

\* A replica may be registered again.
UnprovenMutant(d, p) == TRUE

Unproven(d, p) == ~porepProofs[d][p].verified

submitPoRep(p, d, sealedCID, unsealedCID, nonce, workHash) ==
    /\ Unproven(d, p)
    /\ verifyPoRepProof(p, sealedCID, unsealedCID, nonce, workHash)
    /\ porepProofs' = [porepProofs EXCEPT ![d][p] =
          [sealedCID |-> sealedCID, verified |-> TRUE]]
    /\ UNCHANGED <<now, usedPoRepNonces, poregDifficultyBits, postVars>>

\* onlyOwner.  Neither the deal nor the provider is looked up anywhere.
createPoStChallenge(d, p, seedCommitment) ==
    /\ challengeCount < MaxChallenges
    /\ challengeCount' = challengeCount + 1
    /\ postChallenges' = [postChallenges EXCEPT ![challengeCount] =
          [dealId |-> d, provider |-> p, deadline |-> now + POST_INTERVAL + GRACE_PERIOD,
           submitted |-> FALSE, checked |-> FALSE, commitment |-> seedCommitment]]
    /\ UNCHANGED <<now, porepVars, lastPostSubmission, consecutiveMisses>>

\* The answer is not compared with the registered replica.
ProvesReplicaMutant(root, p, challenge) == TRUE

\* The Merkle paths of the answer lead to the root registered for the deal.
ProvesReplica(root, p, challenge) ==
    LET registered == porepProofs[challenge.dealId][p].sealedCID
    IN  /\ registered # NoRoot
        /\ root = registered

submitPoSt(p, id, root, providerSeed) ==
    LET challenge == postChallenges[id]
    IN  /\ challenge.provider = p
        /\ ~challenge.submitted
        /\ now <= challenge.deadline
        /\ providerSeed = challenge.commitment
        /\ ProvesReplica(root, p, challenge)
        /\ postChallenges' = [postChallenges EXCEPT ![id].submitted = TRUE]
        /\ lastPostSubmission' = [lastPostSubmission EXCEPT ![p][challenge.dealId] = now]
        /\ consecutiveMisses' = [consecutiveMisses EXCEPT ![p] = 0]
        /\ UNCHANGED <<now, porepVars, challengeCount>>

\* A challenge is overdue from its deadline on.
OverdueMutant(challenge) ==
    now >= challenge.deadline /\ ~challenge.submitted /\ ~challenge.checked

\* A miss may be counted again.
OverdueAgainMutant(challenge) == now > challenge.deadline /\ ~challenge.submitted

Overdue(challenge) == now > challenge.deadline /\ ~challenge.submitted /\ ~challenge.checked

\* onlyOwner.  The id is not compared with challengeCount.
checkMissedPoSt(id) ==
    LET challenge == postChallenges[id]
    IN  /\ Overdue(challenge)
        /\ postChallenges' = [postChallenges EXCEPT ![id].checked = TRUE]
        /\ consecutiveMisses' = [consecutiveMisses EXCEPT ![challenge.provider] = @ + 1]
        /\ UNCHANGED <<now, porepVars, challengeCount, lastPostSubmission>>

\* The difficulty is not bounded.
setPoRepDifficultyMutant(bits) ==
    /\ poregDifficultyBits' = bits
    /\ UNCHANGED <<now, porepProofs, usedPoRepNonces, postVars>>

\* onlyOwner.
setPoRepDifficulty(bits) ==
    /\ bits <= 256
    /\ poregDifficultyBits' = bits
    /\ UNCHANGED <<now, porepProofs, usedPoRepNonces, postVars>>

\* onlyOwner.  Nothing else marks a nonce as used.
markNonceUsed(p, nonce) ==
    /\ usedPoRepNonces' = [usedPoRepNonces EXCEPT ![p] = @ \cup {nonce}]
    /\ UNCHANGED <<now, porepProofs, poregDifficultyBits, postVars>>

needsPoSt(p, d) ==
    \/ lastPostSubmission[p][d] = 0
    \/ now >= lastPostSubmission[p][d] + POST_INTERVAL

ProofNext ==
    \/ \E p \in Providers :
          \/ \E d \in ProvenDeals, sealedCID, unsealedCID \in Roots \cup {NoRoot},
                nonce \in Nonces, workHash \in WorkHashes :
                submitPoRep(p, d, sealedCID, unsealedCID, nonce, workHash)
          \/ \E d \in ProvenDeals, seed \in Seeds : createPoStChallenge(d, p, seed)
          \/ \E id \in ChallengeIds, root \in Roots, seed \in Seeds :
                submitPoSt(p, id, root, seed)
          \/ \E nonce \in Nonces : markNonceUsed(p, nonce)
    \/ \E id \in ChallengeIds : checkMissedPoSt(id)
    \/ \E bits \in Difficulties : setPoRepDifficulty(bits)
    \/ Advance /\ UNCHANGED <<porepVars, postVars>>

ProofSpec == ProofInit /\ [][ProofNext]_proofVars

(***************************************************************************)
(* Properties.                                                             *)
(***************************************************************************)

Exists(id) == id < challengeCount

\* Type correctness, with a difficulty some hash can meet.
ProofTypeOK ==
    /\ now \in Nat
    /\ porepProofs \in [ProvenDeals -> [Providers -> PoRepProof]]
    /\ postChallenges \in [ChallengeIds -> PoStChallenge]
    /\ challengeCount \in ChallengeIds
    /\ lastPostSubmission \in [Providers -> [ProvenDeals -> Nat]]
    /\ consecutiveMisses \in [Providers \cup {NoAddress} -> Nat]
    /\ usedPoRepNonces \in [Providers -> SUBSET Nonces]
    /\ poregDifficultyBits \in 0..256

\* A challenge has one verdict: it is never both answered and recorded as
\* missed.  submitPoSt does not look at checked, so this rests on the two
\* deadline comparisons being each other's complement.
OneVerdict ==
    \A id \in ChallengeIds : ~(postChallenges[id].submitted /\ postChallenges[id].checked)

\* Every consecutive miss of a provider is a challenge of its own that was
\* checked: no challenge counts twice, and none counts against another provider.
MissesAreChecked ==
    \A p \in Providers :
        consecutiveMisses[p] <=
            Cardinality({id \in ChallengeIds :
                Exists(id) /\ postChallenges[id].checked /\ postChallenges[id].provider = p})

\* An answered challenge has a registered replica behind it, and its answer
\* was given in time: it is on record for the deal, no later than the clock
\* and no earlier than the challenge.
AnswersAreBacked ==
    \A id \in ChallengeIds :
        LET challenge == postChallenges[id]
        IN  challenge.submitted =>
              LET p == challenge.provider
                  d == challenge.dealId
              IN  /\ porepProofs[d][p].verified
                  /\ lastPostSubmission[p][d] + POST_INTERVAL + GRACE_PERIOD
                        >= challenge.deadline
                  /\ lastPostSubmission[p][d] <= now

\* The replica a provider answers for is the one it first proved: a verified
\* root never changes, whatever is submitted later.
ReplicaIsFinal ==
    [][\A d \in ProvenDeals, p \in Providers :
          porepProofs[d][p].verified => porepProofs'[d][p] = porepProofs[d][p]]_proofVars

\* The first two bytes as a number, most significant byte first.
FirstBits(value) == 256 * value[1] + value[2]

\* What _hasLeadingZeroBits documents: "at least `bits` leading zero bits", at
\* every difficulty the owner sets.
WorkAsDocumented ==
    \A value \in WorkHashes :
        hasLeadingZeroBits(value, poregDifficultyBits) <=>
            FirstBits(value) < 2 ^ (16 - poregDifficultyBits)
=============================================================================
