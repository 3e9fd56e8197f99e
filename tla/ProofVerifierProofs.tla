------------------------ MODULE ProofVerifierProofs ------------------------
(***************************************************************************)
(* ProofVerifier's invariants for any providers, deals, challenges and any *)
(* interval.  The argument: a challenge is checked only once its deadline  *)
(* is over and answered only before, and the clock does not run backwards, *)
(* so the first verdict excludes the second for good; and a challenge is   *)
(* never due later than one interval from now, so an answer given now      *)
(* postdates the challenge it answers.                                     *)
(***************************************************************************)
EXTENDS ProofVerifier, TLAPS

\* Marking a challenge as answered or as missed keeps it well typed.
LEMMA Marked ==
    ASSUME NEW r \in PoStChallenge
    PROVE  /\ [r EXCEPT !.submitted = TRUE] \in PoStChallenge
           /\ [r EXCEPT !.checked = TRUE] \in PoStChallenge
  BY DEF PoStChallenge

\* Every action of the contract keeps its state well typed.
THEOREM ProofsTyped == ProofSpec => []ProofTypeOK
<1>1. ProofInit => ProofTypeOK
  <2> SUFFICES ASSUME ProofInit PROVE ProofTypeOK
    OBVIOUS
  <2>1. NoChallenge.dealId \in ProvenDeals /\ NoChallenge.commitment \in Seeds
    BY ProofAddresses, Zenon DEF NoChallenge
  <2>2. NoChallenge \in PoStChallenge
    BY <2>1 DEF NoChallenge, PoStChallenge
  <2>3. NoPoRep \in PoRepProof
    BY DEF NoPoRep, PoRepProof
  <2>4. QED
    BY <2>2, <2>3, ProofParameters, ClockAssumption DEF ProofInit, ProofTypeOK, ChallengeIds
<1>2. ProofTypeOK /\ [ProofNext]_proofVars => ProofTypeOK'
  <2> SUFFICES ASSUME ProofTypeOK, [ProofNext]_proofVars PROVE ProofTypeOK'
    OBVIOUS
  <2> USE DEF ProofTypeOK
  <2>1. ASSUME NEW p \in Providers, NEW d \in ProvenDeals,
               NEW sealedCID \in Roots \cup {NoRoot}, NEW unsealedCID \in Roots \cup {NoRoot},
               NEW nonce \in Nonces, NEW workHash \in WorkHashes,
               submitPoRep(p, d, sealedCID, unsealedCID, nonce, workHash)
        PROVE  ProofTypeOK'
    BY <2>1 DEF submitPoRep, PoRepProof, postVars
  <2>2. ASSUME NEW p \in Providers, NEW d \in ProvenDeals, NEW seed \in Seeds,
               createPoStChallenge(d, p, seed)
        PROVE  ProofTypeOK'
    <3> DEFINE c == [dealId |-> d, provider |-> p,
                     deadline |-> now + POST_INTERVAL + GRACE_PERIOD,
                     submitted |-> FALSE, checked |-> FALSE, commitment |-> seed]
    <3>1. c \in PoStChallenge
      BY ProofParameters DEF PoStChallenge
    <3>2. postChallenges' = [postChallenges EXCEPT ![challengeCount] = c]
      BY <2>2 DEF createPoStChallenge
    <3> HIDE DEF c
    <3>3. challengeCount' \in ChallengeIds
      BY <2>2, ProofParameters DEF createPoStChallenge, ChallengeIds
    <3>4. postChallenges' \in [ChallengeIds -> PoStChallenge]
      BY <3>1, <3>2
    <3>5. QED
      BY <2>2, <3>3, <3>4 DEF createPoStChallenge, porepVars
  <2>3. ASSUME NEW p \in Providers, NEW id \in ChallengeIds, NEW root \in Roots,
               NEW seed \in Seeds, submitPoSt(p, id, root, seed)
        PROVE  ProofTypeOK'
    <3> DEFINE c == [postChallenges[id] EXCEPT !.submitted = TRUE]
    <3>0. c \in PoStChallenge
      BY Marked
    <3>1. postChallenges' \in [ChallengeIds -> PoStChallenge]
      <4>1. postChallenges' = [postChallenges EXCEPT ![id] = c]
        BY <2>3 DEF submitPoSt
      <4> HIDE DEF c
      <4>2. QED
        BY <3>0, <4>1
    <3>2. postChallenges[id].dealId \in ProvenDeals
      BY DEF PoStChallenge
    <3>3. QED
      BY <2>3, <3>1, <3>2 DEF submitPoSt, porepVars
  <2>4. ASSUME NEW p \in Providers, NEW nonce \in Nonces, markNonceUsed(p, nonce)
        PROVE  ProofTypeOK'
    BY <2>4 DEF markNonceUsed, postVars
  <2>5. ASSUME NEW id \in ChallengeIds, checkMissedPoSt(id)
        PROVE  ProofTypeOK'
    <3> DEFINE c == [postChallenges[id] EXCEPT !.checked = TRUE]
    <3>0. c \in PoStChallenge
      BY Marked
    <3>1. postChallenges' \in [ChallengeIds -> PoStChallenge]
      <4>1. postChallenges' = [postChallenges EXCEPT ![id] = c]
        BY <2>5 DEF checkMissedPoSt
      <4> HIDE DEF c
      <4>2. QED
        BY <3>0, <4>1
    <3>2. postChallenges[id].provider \in Providers \cup {NoAddress}
      BY DEF PoStChallenge
    <3>3. QED
      BY <2>5, <3>1, <3>2 DEF checkMissedPoSt, porepVars
  <2>6. ASSUME NEW bits \in Difficulties, setPoRepDifficulty(bits)
        PROVE  ProofTypeOK'
    BY <2>6, ProofParameters DEF setPoRepDifficulty, postVars
  <2>7. CASE Advance /\ UNCHANGED <<porepVars, postVars>>
    BY <2>7, ClockAssumption DEF Advance, porepVars, postVars
  <2>8. CASE UNCHANGED proofVars
    BY <2>8 DEF proofVars, porepVars, postVars
  <2>9. QED
    BY <2>1, <2>2, <2>3, <2>4, <2>5, <2>6, <2>7, <2>8 DEF ProofNext
<1>3. QED
  BY <1>1, <1>2, PTL DEF ProofSpec

\* What makes OneVerdict inductive: a checked challenge is past its deadline
\* and unanswered.
VerdictInv ==
    \A id \in ChallengeIds :
        postChallenges[id].checked =>
            now > postChallenges[id].deadline /\ ~postChallenges[id].submitted

\* A challenge is never both answered and recorded as missed: submitPoSt and
\* checkMissedPoSt exclude each other in either order.
THEOREM Verdict == ProofSpec => []OneVerdict
<1>1. ProofInit => VerdictInv
  BY DEF ProofInit, VerdictInv, NoChallenge
<1>2. ProofTypeOK /\ VerdictInv /\ [ProofNext]_proofVars => VerdictInv'
  <2> SUFFICES ASSUME ProofTypeOK, VerdictInv, [ProofNext]_proofVars PROVE VerdictInv'
    OBVIOUS
  <2>0. /\ now \in Nat
        /\ postChallenges \in [ChallengeIds -> PoStChallenge]
        /\ \A id \in ChallengeIds : postChallenges[id].deadline \in Nat
    BY DEF ProofTypeOK, PoStChallenge
  <2>1. ASSUME NEW p \in Providers, NEW d \in ProvenDeals, NEW seed \in Seeds,
               createPoStChallenge(d, p, seed)
        PROVE  VerdictInv'
    BY <2>0, <2>1 DEF createPoStChallenge, VerdictInv
  <2>2. ASSUME NEW p \in Providers, NEW id \in ChallengeIds, NEW root \in Roots,
               NEW seed \in Seeds, submitPoSt(p, id, root, seed)
        PROVE  VerdictInv'
    <3>1. ~postChallenges[id].checked
      BY <2>0, <2>2 DEF submitPoSt, VerdictInv
    <3>2. QED
      BY <2>0, <2>2, <3>1 DEF submitPoSt, VerdictInv, PoStChallenge
  <2>3. ASSUME NEW id \in ChallengeIds, checkMissedPoSt(id)
        PROVE  VerdictInv'
    BY <2>0, <2>3 DEF checkMissedPoSt, Overdue, VerdictInv, PoStChallenge
  <2>4. CASE UNCHANGED <<now, postVars>>
    BY <2>4 DEF VerdictInv, postVars
  <2>5. CASE Advance /\ UNCHANGED <<porepVars, postVars>>
    BY <2>0, <2>5, ClockAssumption DEF Advance, VerdictInv, postVars
  <2>6. QED
    BY <2>1, <2>2, <2>3, <2>4, <2>5
    DEF ProofNext, submitPoRep, markNonceUsed, setPoRepDifficulty, proofVars
<1>3. VerdictInv => OneVerdict
  BY DEF VerdictInv, OneVerdict
<1>4. QED
  BY <1>1, <1>2, <1>3, ProofsTyped, PTL DEF ProofSpec

\* A verified root never changes: submitPoRep is the only writer and refuses
\* a provider that has proved the deal already.
THEOREM Replica == ProofSpec => ReplicaIsFinal
<1> DEFINE Kept == \A d \in ProvenDeals, p \in Providers :
                      porepProofs[d][p].verified => porepProofs'[d][p] = porepProofs[d][p]
<1>1. ProofTypeOK /\ [ProofNext]_proofVars => [Kept]_proofVars
  <2> SUFFICES ASSUME ProofTypeOK, ProofNext PROVE Kept
    OBVIOUS
  <2>1. ASSUME NEW p \in Providers, NEW d \in ProvenDeals,
               NEW sealedCID \in Roots \cup {NoRoot}, NEW unsealedCID \in Roots \cup {NoRoot},
               NEW nonce \in Nonces, NEW workHash \in WorkHashes,
               submitPoRep(p, d, sealedCID, unsealedCID, nonce, workHash)
        PROVE  Kept
    BY <2>1 DEF submitPoRep, Unproven, ProofTypeOK
  <2>2. CASE UNCHANGED porepProofs
    BY <2>2
  <2>3. QED
    BY <2>1, <2>2
    DEF ProofNext, createPoStChallenge, submitPoSt, markNonceUsed, checkMissedPoSt,
        setPoRepDifficulty, porepVars
<1>2. QED
  BY <1>1, ProofsTyped, PTL DEF ProofSpec, ReplicaIsFinal

\* What makes AnswersAreBacked inductive: no challenge is due later than one
\* interval and grace period from now, and no answer is dated in the future.
AnswerInv ==
    /\ \A id \in ChallengeIds : postChallenges[id].deadline <= now + POST_INTERVAL + GRACE_PERIOD
    /\ \A p \in Providers, d \in ProvenDeals : lastPostSubmission[p][d] <= now
    /\ \A id \in ChallengeIds :
          postChallenges[id].submitted =>
              LET p == postChallenges[id].provider
                  d == postChallenges[id].dealId
              IN  /\ p \in Providers
                  /\ porepProofs[d][p].verified
                  /\ lastPostSubmission[p][d] + POST_INTERVAL + GRACE_PERIOD
                        >= postChallenges[id].deadline

\* A root other than bytes32(0) is one that submitPoRep verified.
RootInv ==
    \A d \in ProvenDeals, p \in Providers :
        porepProofs[d][p].sealedCID # NoRoot => porepProofs[d][p].verified

\* An answered challenge has a verified replica behind it, and its answer is
\* on record, dated between the challenge and now.
THEOREM Answers == ProofSpec => []AnswersAreBacked
<1> USE ProofParameters
<1>1. ProofInit => RootInv /\ AnswerInv
  BY ClockAssumption DEF ProofInit, RootInv, AnswerInv, NoPoRep, NoChallenge
<1>2. ProofTypeOK /\ RootInv /\ AnswerInv /\ [ProofNext]_proofVars => RootInv' /\ AnswerInv'
  <2> SUFFICES ASSUME ProofTypeOK, RootInv, AnswerInv, [ProofNext]_proofVars
               PROVE  RootInv' /\ AnswerInv'
    OBVIOUS
  <2>0. /\ now \in Nat
        /\ postChallenges \in [ChallengeIds -> PoStChallenge]
        /\ lastPostSubmission \in [Providers -> [ProvenDeals -> Nat]]
        /\ porepProofs \in [ProvenDeals -> [Providers -> PoRepProof]]
        /\ \A id \in ChallengeIds : /\ postChallenges[id].deadline \in Nat
                                     /\ postChallenges[id].dealId \in ProvenDeals
    BY DEF ProofTypeOK, PoStChallenge
  <2>1. ASSUME NEW p \in Providers, NEW d \in ProvenDeals,
               NEW sealedCID \in Roots \cup {NoRoot}, NEW unsealedCID \in Roots \cup {NoRoot},
               NEW nonce \in Nonces, NEW workHash \in WorkHashes,
               submitPoRep(p, d, sealedCID, unsealedCID, nonce, workHash)
        PROVE  RootInv' /\ AnswerInv'
    <3>1. \A e \in ProvenDeals, q \in Providers :
             \/ porepProofs'[e][q] = porepProofs[e][q]
             \/ porepProofs'[e][q].verified
      BY <2>0, <2>1 DEF submitPoRep
    <3>2. RootInv'
      BY <3>1 DEF RootInv
    <3>3. AnswerInv'
      BY <2>0, <2>1, <3>1 DEF submitPoRep, AnswerInv, postVars
    <3>4. QED
      BY <3>2, <3>3
  <2>2. ASSUME NEW p \in Providers, NEW d \in ProvenDeals, NEW seed \in Seeds,
               createPoStChallenge(d, p, seed)
        PROVE  RootInv' /\ AnswerInv'
    <3>1. RootInv'
      BY <2>2 DEF createPoStChallenge, RootInv, porepVars
    <3>2. AnswerInv'
      BY <2>0, <2>2 DEF createPoStChallenge, AnswerInv, porepVars
    <3>3. QED
      BY <3>1, <3>2
  <2>3. ASSUME NEW p \in Providers, NEW id \in ChallengeIds, NEW root \in Roots,
               NEW seed \in Seeds, submitPoSt(p, id, root, seed)
        PROVE  RootInv' /\ AnswerInv'
    <3> DEFINE d == postChallenges[id].dealId
    <3>1. RootInv'
      BY <2>3 DEF submitPoSt, RootInv, porepVars
    <3>2. /\ postChallenges[id].provider = p
          /\ porepProofs[d][p].verified
      BY <2>0, <2>3 DEF submitPoSt, ProvesReplica, RootInv
    <3>3. \A i \in ChallengeIds :
             /\ postChallenges'[i].provider = postChallenges[i].provider
             /\ postChallenges'[i].dealId = postChallenges[i].dealId
             /\ postChallenges'[i].deadline = postChallenges[i].deadline
             /\ postChallenges'[i].submitted => i = id \/ postChallenges[i].submitted
      BY <2>0, <2>3 DEF submitPoSt, PoStChallenge
    <3>4. /\ now' = now
          /\ porepProofs' = porepProofs
          /\ \A q \in Providers, e \in ProvenDeals :
                lastPostSubmission'[q][e] = IF q = p /\ e = d THEN now
                                            ELSE lastPostSubmission[q][e]
      BY <2>0, <2>3 DEF submitPoSt, porepVars
    <3> HIDE DEF d
    <3>5. \A q \in Providers, e \in ProvenDeals :
             lastPostSubmission'[q][e] <= now /\ lastPostSubmission'[q][e] >= lastPostSubmission[q][e]
      <4> SUFFICES ASSUME NEW q \in Providers, NEW e \in ProvenDeals
                   PROVE  /\ lastPostSubmission'[q][e] <= now
                          /\ lastPostSubmission'[q][e] >= lastPostSubmission[q][e]
        OBVIOUS
      <4>1. lastPostSubmission[q][e] \in Nat /\ lastPostSubmission[q][e] <= now
        BY <2>0 DEF AnswerInv
      <4>2. lastPostSubmission'[q][e] = now \/ lastPostSubmission'[q][e] = lastPostSubmission[q][e]
        BY <3>4
      <4>. DEFINE before == lastPostSubmission[q][e]
                  after  == lastPostSubmission'[q][e]
      <4>3. now \in Nat /\ before \in Nat /\ before <= now /\ (after = now \/ after = before)
        BY <2>0, <4>1, <4>2
      <4>. HIDE DEF before, after
      <4>4. after <= now /\ after >= before
        BY <4>3
      <4>5. QED
        BY <4>4 DEF before, after
    <3>6. AnswerInv'
      <4>1. \A i \in ChallengeIds : postChallenges'[i].deadline <= now' + POST_INTERVAL + GRACE_PERIOD
        BY <3>3, <3>4 DEF AnswerInv
      <4>2. ASSUME NEW i \in ChallengeIds, postChallenges'[i].submitted
            PROVE  LET q == postChallenges'[i].provider
                       e == postChallenges'[i].dealId
                   IN  /\ q \in Providers
                       /\ porepProofs'[e][q].verified
                       /\ lastPostSubmission'[q][e] + POST_INTERVAL + GRACE_PERIOD
                             >= postChallenges'[i].deadline
        <5>1. CASE i = id
          BY <2>0, <3>2, <3>3, <3>4, <5>1 DEF AnswerInv, d
        <5>2. CASE postChallenges[i].submitted
          <6>1. /\ postChallenges[i].provider \in Providers
                /\ postChallenges[i].dealId \in ProvenDeals
            BY <2>0, <5>2 DEF AnswerInv
          <6>2. /\ lastPostSubmission[postChallenges[i].provider][postChallenges[i].dealId] \in Nat
                /\ lastPostSubmission'[postChallenges[i].provider][postChallenges[i].dealId] \in Nat
            BY <2>0, <3>4, <6>1
          <6>3. /\ lastPostSubmission'[postChallenges[i].provider][postChallenges[i].dealId]
                     >= lastPostSubmission[postChallenges[i].provider][postChallenges[i].dealId]
                /\ lastPostSubmission[postChallenges[i].provider][postChallenges[i].dealId]
                     + POST_INTERVAL + GRACE_PERIOD >= postChallenges[i].deadline
                /\ porepProofs[postChallenges[i].dealId][postChallenges[i].provider].verified
            BY <3>5, <5>2, <6>1 DEF AnswerInv
          <6>4. postChallenges[i].deadline \in Nat /\ POST_INTERVAL \in Nat /\ GRACE_PERIOD \in Nat
            BY <2>0
          <6>. HIDE ProofParameters
          <6>. DEFINE before == lastPostSubmission[postChallenges[i].provider][postChallenges[i].dealId]
                      after  == lastPostSubmission'[postChallenges[i].provider][postChallenges[i].dealId]
                      due    == postChallenges[i].deadline
          <6>7. /\ before \in Nat /\ after \in Nat /\ due \in Nat
                /\ after >= before /\ before + POST_INTERVAL + GRACE_PERIOD >= due
            BY <6>2, <6>3, <6>4
          <6>. HIDE DEF before, after, due
          <6>8. after + POST_INTERVAL + GRACE_PERIOD >= due
            BY <6>4, <6>7
          <6>5. lastPostSubmission'[postChallenges[i].provider][postChallenges[i].dealId]
                     + POST_INTERVAL + GRACE_PERIOD >= postChallenges[i].deadline
            BY <6>8 DEF after, due
          <6>6. QED
            BY <3>3, <3>4, <6>1, <6>3, <6>5
        <5>3. QED
          BY <3>3, <4>2, <5>1, <5>2
      <4>3. QED
        BY <3>4, <3>5, <4>1, <4>2 DEF AnswerInv
    <3>7. QED
      BY <3>1, <3>6
  <2>4. ASSUME NEW id \in ChallengeIds, checkMissedPoSt(id)
        PROVE  RootInv' /\ AnswerInv'
    <3>1. \A i \in ChallengeIds :
             /\ postChallenges'[i].provider = postChallenges[i].provider
             /\ postChallenges'[i].dealId = postChallenges[i].dealId
             /\ postChallenges'[i].deadline = postChallenges[i].deadline
             /\ postChallenges'[i].submitted = postChallenges[i].submitted
      BY <2>0, <2>4 DEF checkMissedPoSt, PoStChallenge
    <3>2. UNCHANGED <<now, porepProofs, lastPostSubmission>>
      BY <2>4 DEF checkMissedPoSt, porepVars
    <3>3. QED
      BY <3>1, <3>2 DEF AnswerInv, RootInv
  <2>5. CASE UNCHANGED <<now, porepProofs, postVars>>
    BY <2>5 DEF AnswerInv, RootInv, postVars
  <2>6. CASE Advance /\ UNCHANGED <<porepVars, postVars>>
    <3>1. now' \in Nat /\ now' > now /\ UNCHANGED <<porepProofs, postVars>>
      BY <2>6, ClockAssumption DEF Advance, porepVars
    <3>2. QED
      BY <2>0, <3>1 DEF AnswerInv, RootInv, postVars
  <2>7. QED
    BY <2>1, <2>2, <2>3, <2>4, <2>5, <2>6
    DEF ProofNext, markNonceUsed, setPoRepDifficulty, proofVars, porepVars
<1>3. ProofTypeOK /\ AnswerInv => AnswersAreBacked
  BY DEF ProofTypeOK, PoStChallenge, AnswerInv, AnswersAreBacked
<1>4. QED
  BY <1>1, <1>2, <1>3, ProofsTyped, PTL DEF ProofSpec
=============================================================================
