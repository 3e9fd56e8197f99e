----------------------- MODULE ProviderRegistryProofs -----------------------
(***************************************************************************)
(* The registry's invariants for any set of providers, any keepers and any *)
(* cooldown.  The argument: the effect operators keep a record well-typed   *)
(* and "sound" (an active record is in good standing), and an operator that *)
(* takes a provider out of service dates its return a cooldown ahead.      *)
(***************************************************************************)
EXTENDS ProviderRegistry, TLAPS

\* A record the mapping may hold: well typed, the score in range, and in good
\* standing when active.
Sound(r) ==
    /\ r \in Provider
    /\ r.reputationScore <= MAX_REPUTATION
    /\ r.active => /\ r.registered
                   /\ r.reputationScore >= LowReputation
                   /\ r.totalSlashingEvents < SlashingLimit

\* A record keeper's effect: s results from r by a call that neither registers
\* nor reactivates, and dates the return whenever it deactivates.
Penalty(r, s) ==
    /\ s.registered = r.registered
    /\ s.active => r.active
    /\ s.deactivatedUntil # r.deactivatedUntil => s.deactivatedUntil = now + COOLDOWN_PERIOD
    /\ r.active /\ ~s.active => s.deactivatedUntil = now + COOLDOWN_PERIOD

\* increaseReputation keeps a record sound and its standing.
LEMMA IncreasedSound ==
    ASSUME NEW r, Sound(r), NEW amount \in Nat
    PROVE  Sound(Increased(r, amount)) /\ Penalty(r, Increased(r, amount))
<1> DEFINE n == r.reputationScore + amount
           c == IF n > MAX_REPUTATION THEN MAX_REPUTATION ELSE n
<1>1. c \in Nat /\ c <= MAX_REPUTATION /\ (r.reputationScore >= LowReputation => c >= LowReputation)
  BY DEF Sound, Provider, MAX_REPUTATION, LowReputation
<1>2. Increased(r, amount) = [r EXCEPT !.reputationScore = c]
  BY DEF Increased
<1> HIDE DEF c
<1>3. QED
  BY <1>1, <1>2 DEF Sound, Penalty, Provider

\* decreaseReputation, its automatic deactivation included, keeps an
\* otherwise sound record sound; a count that has already reached the limit
\* is what recordSlashing repairs afterwards, so the count is free here.
LEMMA DecreasedSound ==
    ASSUME NEW r \in Provider, r.reputationScore <= MAX_REPUTATION,
           r.active => r.registered,
           NEW amount \in Nat, now \in Nat
    PROVE  LET s == Decreased(r, amount)
           IN  /\ s \in Provider
               /\ s.reputationScore <= MAX_REPUTATION
               /\ s.active => s.registered /\ s.reputationScore >= LowReputation
               /\ s.totalSlashingEvents = r.totalSlashingEvents
               /\ Penalty(r, s)
<1> DEFINE n == IF r.reputationScore > amount
                THEN r.reputationScore - amount ELSE MIN_REPUTATION
           scored == [r EXCEPT !.reputationScore = n]
<1>1. n \in Nat /\ n <= MAX_REPUTATION
  BY DEF Provider, MAX_REPUTATION, MIN_REPUTATION
<1>2. Decreased(r, amount) = IF n < LowReputation THEN Deactivated(scored) ELSE scored
  BY DEF Decreased
<1>3. now + COOLDOWN_PERIOD \in Nat
  BY CooldownAssumption
<1> HIDE DEF n
<1>4. CASE n < LowReputation
  BY <1>1, <1>2, <1>3, <1>4 DEF Deactivated, Provider, Penalty
<1>5. CASE ~(n < LowReputation)
  BY <1>1, <1>2, <1>5 DEF Provider, Penalty, LowReputation
<1>6. QED
  BY <1>4, <1>5

\* recordDealCompleted, recordDealFailed and recordSlashing keep a record sound.
LEMMA RecordsSound ==
    ASSUME NEW r, Sound(r), now \in Nat
    PROVE  /\ Sound(DealCompletedOn(r)) /\ Penalty(r, DealCompletedOn(r))
           /\ Sound(DealFailedOn(r)) /\ Penalty(r, DealFailedOn(r))
           /\ Sound(SlashedOn(r)) /\ Penalty(r, SlashedOn(r))
           /\ \A amount \in Nat : Sound(Decreased(r, amount)) /\ Penalty(r, Decreased(r, amount))
<1>1. Sound(DealCompletedOn(r)) /\ Penalty(r, DealCompletedOn(r))
  <2> DEFINE c == [r EXCEPT !.totalDealsCompleted = @ + 1]
  <2>1. Sound(c) /\ c.registered = r.registered /\ c.active = r.active
                 /\ c.deactivatedUntil = r.deactivatedUntil
    BY DEF Sound, Provider
  <2>2. Sound(Increased(c, 1)) /\ Penalty(c, Increased(c, 1))
    BY <2>1, IncreasedSound
  <2>3. DealCompletedOn(r) = Increased(c, 1)
    BY DEF DealCompletedOn
  <2> HIDE DEF c
  <2>4. QED
    BY <2>1, <2>2, <2>3 DEF Penalty
<1>2. Sound(DealFailedOn(r)) /\ Penalty(r, DealFailedOn(r))
  <2> DEFINE c == [r EXCEPT !.totalDealsFailed = @ + 1]
  <2>1. Sound(c) /\ c.registered = r.registered /\ c.active = r.active
                 /\ c.deactivatedUntil = r.deactivatedUntil
    BY DEF Sound, Provider
  <2>2. DealFailedOn(r) = Decreased(c, 5)
    BY DEF DealFailedOn
  <2> HIDE DEF c
  <2>3. Sound(Decreased(c, 5)) /\ Penalty(c, Decreased(c, 5))
    BY <2>1, DecreasedSound DEF Sound, Penalty
  <2>4. QED
    BY <2>1, <2>2, <2>3 DEF Penalty
<1>3. Sound(SlashedOn(r)) /\ Penalty(r, SlashedOn(r))
  <2> DEFINE c == [r EXCEPT !.totalSlashingEvents = @ + 1]
             hit == Decreased(c, 20)
  <2>1. c \in Provider /\ c.reputationScore <= MAX_REPUTATION /\ (c.active => c.registered)
          /\ c.registered = r.registered /\ c.active = r.active
          /\ c.deactivatedUntil = r.deactivatedUntil
    BY DEF Sound, Provider
  <2> HIDE DEF c
  <2>2. /\ hit \in Provider
        /\ hit.reputationScore <= MAX_REPUTATION
        /\ hit.active => hit.registered /\ hit.reputationScore >= LowReputation
        /\ Penalty(c, hit)
    BY <2>1, DecreasedSound
  <2>3. SlashedOn(r) = IF hit.totalSlashingEvents >= SlashingLimit
                       THEN Deactivated(hit) ELSE hit
    BY DEF SlashedOn, c
  <2>4. now + COOLDOWN_PERIOD \in Nat
    BY CooldownAssumption
  <2> HIDE DEF hit
  <2>5. CASE hit.totalSlashingEvents >= SlashingLimit
    BY <2>1, <2>2, <2>3, <2>4, <2>5 DEF Deactivated, Sound, Penalty, Provider
  <2>6. CASE ~(hit.totalSlashingEvents >= SlashingLimit)
    BY <2>1, <2>2, <2>3, <2>6 DEF Sound, Penalty, Provider, SlashingLimit
  <2>7. QED
    BY <2>5, <2>6
<1>4. ASSUME NEW amount \in Nat
      PROVE  Sound(Decreased(r, amount)) /\ Penalty(r, Decreased(r, amount))
  <2>1. r \in Provider /\ r.reputationScore <= MAX_REPUTATION /\ (r.active => r.registered)
    BY DEF Sound
  <2> DEFINE s == Decreased(r, amount)
  <2>2. /\ s \in Provider
        /\ s.reputationScore <= MAX_REPUTATION
        /\ s.active => s.registered /\ s.reputationScore >= LowReputation
        /\ s.totalSlashingEvents = r.totalSlashingEvents
        /\ Penalty(r, s)
    BY <2>1, DecreasedSound
  <2> HIDE DEF s
  <2>3. Sound(s) /\ Penalty(r, s)
    BY <2>2 DEF Sound, Penalty
  <2>4. QED
    BY <2>3 DEF s
<1>5. QED
  BY <1>1, <1>2, <1>3, <1>4

(***************************************************************************)
(* The inductive invariant: every record is sound, and a provider out of   *)
(* service returns no earlier than a cooldown after it left.               *)
(***************************************************************************)
IInv ==
    /\ RegistryTypeOK
    /\ StandingInv

\* A step that replaces p's record by a sound penalty of it keeps the invariant.
LEMMA PenaltyStep ==
    ASSUME IInv, NEW p \in Providers, NEW s, Sound(s), Penalty(providers[p], s),
           providers' = [providers EXCEPT ![p] = s],
           NoteOff,
           UNCHANGED <<providerList, authorizedRecordKeepers, now>>
    PROVE  IInv'
<1>1. RegistryTypeOK'
  BY DEF IInv, RegistryTypeOK, Sound, NoteOff
<1>2. \A q \in Providers : /\ offSince'[q] = IF providers[q].active /\ ~providers'[q].active
                                               THEN now ELSE offSince[q]
                           /\ providers'[q] = IF q = p THEN s ELSE providers[q]
  BY DEF IInv, RegistryTypeOK, NoteOff
<1>3. GoodStanding'
  BY <1>2 DEF IInv, RegistryTypeOK, StandingInv, GoodStanding, Sound
<1>4. ASSUME NEW q \in Providers
      PROVE  /\ offSince'[q] <= now'
             /\ providers'[q].registered /\ ~providers'[q].active =>
                   providers'[q].deactivatedUntil >= offSince'[q] + COOLDOWN_PERIOD
  <2>1. /\ now \in Nat /\ now' = now /\ offSince[q] \in Nat /\ offSince[q] <= now
        /\ providers[q] \in Provider
        /\ providers[q].registered /\ ~providers[q].active =>
              providers[q].deactivatedUntil >= offSince[q] + COOLDOWN_PERIOD
    BY DEF IInv, RegistryTypeOK, StandingInv
  <2>2. CASE q = p
    BY <1>2, <2>1, <2>2, CooldownAssumption DEF Penalty, Sound, Provider
  <2>3. CASE q # p
    BY <1>2, <2>1, <2>3, CooldownAssumption
  <2>4. QED
    BY <2>2, <2>3
<1>5. QED
  BY <1>1, <1>3, <1>4 DEF IInv, StandingInv

\* In a state of the invariant every stored record is sound.
LEMMA StoredSound ==
    ASSUME IInv, NEW p \in Providers
    PROVE  Sound(providers[p]) /\ now \in Nat
BY DEF IInv, RegistryTypeOK, StandingInv, GoodStanding, Sound

\* The deployed registry satisfies the invariant.
LEMMA InitInv == RegistryInit => IInv
BY ClockAssumption DEF RegistryInit, IInv, RegistryTypeOK, StandingInv, GoodStanding, NoProvider, Provider,
       MAX_REPUTATION

\* registerProvider starts a record in good standing.
LEMMA RegisterStep ==
    ASSUME IInv, NEW p \in Providers, NEW price \in Prices, registerProvider(p, price)
    PROVE  IInv'
<1> DEFINE s == NewProvider(price)
<1>1. Sound(s) /\ s.active
  BY RegistryInputs DEF NewProvider, Sound, Provider, INITIAL_REPUTATION, MAX_REPUTATION,
     LowReputation, SlashingLimit
<1>2. providers' = [providers EXCEPT ![p] = s] /\ NoteOff /\ now' = now
        /\ authorizedRecordKeepers' = authorizedRecordKeepers
        /\ providerList' = Append(providerList, p)
  BY DEF registerProvider
<1> HIDE DEF s
<1>3. RegistryTypeOK'
  BY <1>1, <1>2 DEF IInv, RegistryTypeOK, Sound, NoteOff
<1>4. \A q \in Providers : /\ offSince'[q] = IF providers[q].active /\ ~providers'[q].active
                                               THEN now ELSE offSince[q]
                           /\ providers'[q] = IF q = p THEN s ELSE providers[q]
  BY <1>2 DEF IInv, RegistryTypeOK, NoteOff
<1>5. StandingInv'
  BY <1>1, <1>2, <1>4 DEF IInv, RegistryTypeOK, StandingInv, GoodStanding, Sound
<1>6. QED
  BY <1>3, <1>5 DEF IInv

\* reactivateProvider restores good standing.
LEMMA ReactivateStep ==
    ASSUME IInv, NEW p \in Providers, reactivateProvider(p)
    PROVE  IInv'
<1> DEFINE s == [providers[p] EXCEPT !.active = TRUE,
                                     !.reputationScore = INITIAL_REPUTATION,
                                     !.totalSlashingEvents = 0]
<1>0. providers[p] \in Provider /\ providers[p].registered
  BY DEF IInv, RegistryTypeOK, reactivateProvider
<1>1. Sound(s) /\ s.active
  <2> DEFINE r == providers[p]
  <2>1. /\ s \in Provider
        /\ s.active = TRUE
        /\ s.registered = r.registered
        /\ s.reputationScore = 50
        /\ s.totalSlashingEvents = 0
    BY <1>0 DEF Provider, INITIAL_REPUTATION
  <2> HIDE DEF s
  <2>2. QED
    BY <1>0, <2>1 DEF Sound, MAX_REPUTATION, LowReputation, SlashingLimit
<1>2. providers' = [providers EXCEPT ![p] = s] /\ NoteOff
        /\ UNCHANGED <<providerList, authorizedRecordKeepers, now>>
  BY DEF reactivateProvider, IInv, RegistryTypeOK
<1> HIDE DEF s
<1>3. RegistryTypeOK'
  BY <1>1, <1>2 DEF IInv, RegistryTypeOK, Sound, NoteOff
<1>4. \A q \in Providers : /\ offSince'[q] = IF providers[q].active /\ ~providers'[q].active
                                               THEN now ELSE offSince[q]
                           /\ providers'[q] = IF q = p THEN s ELSE providers[q]
  BY <1>2 DEF IInv, RegistryTypeOK, NoteOff
<1>5. StandingInv'
  BY <1>1, <1>2, <1>4 DEF IInv, RegistryTypeOK, StandingInv, GoodStanding, Sound
<1>6. QED
  BY <1>3, <1>5 DEF IInv

\* Every step of the registry keeps the invariant.
LEMMA NextInv == IInv /\ [RegistryNext]_registryVars => IInv'
<1> SUFFICES ASSUME IInv, [RegistryNext]_registryVars PROVE IInv'
  OBVIOUS
<1>1. ASSUME NEW p \in Providers, NEW price \in Prices, registerProvider(p, price)
      PROVE  IInv'
  BY <1>1, RegisterStep
<1>2. ASSUME NEW p \in Providers, NEW price \in Prices, updateProvider(p, price)
      PROVE  IInv'
  <2> DEFINE s == [providers[p] EXCEPT !.minPriceUSD = price]
  <2>1. Sound(providers[p])
    BY StoredSound
  <2>2. Sound(s) /\ Penalty(providers[p], s)
    BY <2>1, RegistryInputs DEF Sound, Penalty, Provider
  <2>3. providers' = [providers EXCEPT ![p] = s]
    BY <1>2 DEF updateProvider
  <2> HIDE DEF s
  <2>4. QED
    BY <1>2, <2>2, <2>3, PenaltyStep DEF updateProvider
<1>3. ASSUME NEW p \in Providers, NEW capacity \in Capacities, updateCapacity(p, capacity)
      PROVE  IInv'
  <2> DEFINE s == [providers[p] EXCEPT !.totalCapacityGB = capacity]
  <2>1. Sound(providers[p])
    BY StoredSound
  <2>2. Sound(s) /\ Penalty(providers[p], s)
    BY <2>1, RegistryInputs DEF Sound, Penalty, Provider
  <2>3. providers' = [providers EXCEPT ![p] = s]
    BY <1>3 DEF updateCapacity
  <2> HIDE DEF s
  <2>4. QED
    BY <1>3, <2>2, <2>3, PenaltyStep DEF updateCapacity
<1>4. ASSUME NEW p \in Providers, reactivateProvider(p)
      PROVE  IInv'
  BY <1>4, ReactivateStep
<1>5. ASSUME NEW sender, NEW p \in Providers, NEW s, KeeperCall(sender, p, s),
             Sound(s), Penalty(providers[p], s)
      PROVE  IInv'
  BY <1>5, PenaltyStep DEF KeeperCall
<1>6. ASSUME NEW sender, NEW p \in Providers, NEW amount \in Amounts,
             increaseReputation(sender, p, amount) \/ decreaseReputation(sender, p, amount)
      PROVE  IInv'
  <2>1. Sound(providers[p]) /\ now \in Nat /\ amount \in Nat
    BY StoredSound, RegistryInputs
  <2>2. Sound(Increased(providers[p], amount)) /\ Penalty(providers[p], Increased(providers[p], amount))
    BY <2>1, IncreasedSound
  <2>3. Sound(Decreased(providers[p], amount)) /\ Penalty(providers[p], Decreased(providers[p], amount))
    BY <2>1, RecordsSound
  <2>4. QED
    BY <1>5, <1>6, <2>2, <2>3 DEF increaseReputation, decreaseReputation
<1>7. ASSUME NEW sender, NEW p \in Providers,
             \/ recordDealCompleted(sender, p)
             \/ recordDealFailed(sender, p)
             \/ recordSlashing(sender, p)
      PROVE  IInv'
  BY <1>5, <1>7, StoredSound, RecordsSound
     DEF recordDealCompleted, recordDealFailed, recordSlashing
<1>8. ASSUME NEW k \in Keepers, authorizeRecordKeeper(k) \/ revokeRecordKeeper(k)
      PROVE  IInv'
  BY <1>8 DEF authorizeRecordKeeper, revokeRecordKeeper, IInv, RegistryTypeOK, StandingInv,
     GoodStanding
<1>9. CASE Tick
  BY <1>9, CooldownAssumption, ClockAssumption DEF Tick, Advance, IInv, RegistryTypeOK, StandingInv, GoodStanding
<1>10. CASE UNCHANGED registryVars
  BY <1>10 DEF registryVars, IInv, RegistryTypeOK, StandingInv, GoodStanding
<1>11. QED
  BY <1>1, <1>2, <1>3, <1>4, <1>6, <1>7, <1>8, <1>9, <1>10 DEF RegistryNext, RegistryNextBy

\* The registry is type correct and its reputations stay in 0..100.
THEOREM TypeCorrect == RegistrySpec => []RegistryTypeOK
<1>1. IInv => RegistryTypeOK
  BY DEF IInv
<1>2. QED
  BY <1>1, InitInv, NextInv, PTL DEF RegistrySpec

\* An active provider is always in good standing, and one out of service has
\* its return dated a full cooldown after it left.
THEOREM Standing == RegistrySpec => []StandingInv
<1>1. IInv => StandingInv
  BY DEF IInv
<1>2. QED
  BY <1>1, InitInv, NextInv, PTL DEF RegistrySpec

\* No provider returns to service before its cooldown is over.
THEOREM Cooldown == RegistrySpec => CooldownServed
<1> DEFINE A == \A p \in Providers :
                  providers[p].registered /\ ~providers[p].active /\ providers'[p].active
                      => now >= offSince[p] + COOLDOWN_PERIOD
<1>1. IInv /\ [RegistryNext]_registryVars => [A]_registryVars
  <2> SUFFICES ASSUME IInv, RegistryNext,
                      NEW p \in Providers,
                      providers[p].registered, ~providers[p].active, providers'[p].active
               PROVE  now >= offSince[p] + COOLDOWN_PERIOD
    OBVIOUS
  <2>1. ASSUME NEW q \in Providers, NEW s, Penalty(providers[q], s),
               providers' = [providers EXCEPT ![q] = s]
        PROVE  FALSE
    BY <2>1 DEF Penalty, IInv, RegistryTypeOK
  <2>2. CASE \E q \in Providers : reactivateProvider(q)
    <3>1. PICK q \in Providers : reactivateProvider(q)
      BY <2>2
    <3>2. q = p
      BY <3>1 DEF reactivateProvider, IInv, RegistryTypeOK
    <3>3. now >= providers[p].deactivatedUntil /\ providers[p] \in Provider
            /\ offSince[p] \in Nat /\ now \in Nat
      BY <3>1, <3>2 DEF reactivateProvider, IInv, RegistryTypeOK
    <3>4. providers[p].deactivatedUntil >= offSince[p] + COOLDOWN_PERIOD
      BY DEF IInv, StandingInv
    <3>5. QED
      BY <3>3, <3>4, CooldownAssumption DEF Provider
  <2>3. CASE \E q \in Providers, price \in Prices : registerProvider(q, price)
    BY <2>3 DEF registerProvider, IInv, RegistryTypeOK
  <2>4. CASE \E q \in Providers, price \in Prices : updateProvider(q, price)
    BY <2>4 DEF updateProvider, IInv, RegistryTypeOK, Provider
  <2>5. CASE \E q \in Providers, capacity \in Capacities : updateCapacity(q, capacity)
    BY <2>5 DEF updateCapacity, IInv, RegistryTypeOK, Provider
  <2>6. CASE \E sender \in Keepers \cup {Owner}, q \in Providers, amount \in Amounts :
                \/ increaseReputation(sender, q, amount)
                \/ decreaseReputation(sender, q, amount)
    <3>1. PICK sender \in Keepers \cup {Owner}, q \in Providers, amount \in Amounts :
                \/ increaseReputation(sender, q, amount)
                \/ decreaseReputation(sender, q, amount)
      BY <2>6
    <3>2. Sound(providers[q]) /\ now \in Nat /\ amount \in Nat
      BY StoredSound, RegistryInputs
    <3>3. Penalty(providers[q], Increased(providers[q], amount))
            /\ Penalty(providers[q], Decreased(providers[q], amount))
      BY <3>2, IncreasedSound, RecordsSound
    <3>4. QED
      BY <2>1, <3>1, <3>3 DEF increaseReputation, decreaseReputation, KeeperCall
  <2>7. CASE \E sender \in Keepers \cup {Owner}, q \in Providers :
                \/ recordDealCompleted(sender, q)
                \/ recordDealFailed(sender, q)
                \/ recordSlashing(sender, q)
    BY <2>1, <2>7, StoredSound, RecordsSound
       DEF recordDealCompleted, recordDealFailed, recordSlashing, KeeperCall
  <2>8. CASE \/ \E k \in Keepers : authorizeRecordKeeper(k) \/ revokeRecordKeeper(k)
             \/ Tick
    BY <2>8 DEF authorizeRecordKeeper, revokeRecordKeeper, Tick
  <2>9. QED
    BY <2>2, <2>3, <2>4, <2>5, <2>6, <2>7, <2>8 DEF RegistryNext, RegistryNextBy
<1>2. QED
  BY <1>1, InitInv, NextInv, PTL DEF RegistrySpec, CooldownServed
\* The list and the mapping agree: registration is the only step that touches
\* either one's domain, and it extends both by the same new provider.
THEOREM ListMatches == RegistrySpec => []ListMatchesMapping
<1>1. RegistryInit => ListMatchesMapping
  BY DEF RegistryInit, NoProvider, ListMatchesMapping
<1>2. ASSUME RegistryTypeOK, RegistryTypeOK', ListMatchesMapping, [RegistryNext]_registryVars
      PROVE  ListMatchesMapping'
  <2>1. CASE \E p \in Providers, price \in Prices : registerProvider(p, price)
    <3>1. PICK p \in Providers, price \in Prices : registerProvider(p, price)
      BY <2>1
    <3>2. /\ providerList' = Append(providerList, p)
          /\ ~providers[p].registered
          /\ \A q \in Providers : providers'[q].registered <=>
                                     (providers[q].registered \/ q = p)
          /\ providerList \in Seq(Providers)
      BY <1>2, <3>1 DEF registerProvider, RegistryTypeOK, NewProvider
    <3>3. /\ Len(providerList') = Len(providerList) + 1
          /\ Len(providerList) \in Nat
          /\ \A i \in 1..Len(providerList) : providerList'[i] = providerList[i]
          /\ providerList'[Len(providerList) + 1] = p
          /\ \A i \in 1..Len(providerList) : providerList[i] # p
      BY <1>2, <3>2 DEF ListMatchesMapping
    <3>4. QED
      BY <1>2, <3>2, <3>3 DEF ListMatchesMapping
  <2>2. ASSUME providerList' = providerList,
               \A p \in Providers : providers'[p].registered = providers[p].registered
        PROVE  ListMatchesMapping'
    BY <1>2, <2>2 DEF ListMatchesMapping
  <2>3. CASE \E p \in Providers, price \in Prices : updateProvider(p, price)
    BY <1>2, <2>2, <2>3 DEF updateProvider, RegistryTypeOK, Provider
  <2>4. CASE \E p \in Providers, capacity \in Capacities : updateCapacity(p, capacity)
    BY <1>2, <2>2, <2>4 DEF updateCapacity, RegistryTypeOK, Provider
  <2>5. CASE \E p \in Providers : reactivateProvider(p)
    <3>1. PICK p \in Providers : reactivateProvider(p)
      BY <2>5
    <3>2. \A q \in Providers \ {p} : providers'[q] = providers[q]
      BY <1>2, <3>1 DEF reactivateProvider, RegistryTypeOK
    <3>3. providers'[p].registered = providers[p].registered
      BY <1>2, <3>1 DEF reactivateProvider, RegistryTypeOK, Provider
    <3>4. QED
      BY <2>2, <3>1, <3>2, <3>3 DEF reactivateProvider
  <2>6. ASSUME NEW sender, NEW p \in Providers, NEW r, KeeperCall(sender, p, r), r.registered
        PROVE  ListMatchesMapping'
    BY <1>2, <2>2, <2>6 DEF KeeperCall, RegistryTypeOK, Provider
  <2>7. CASE \E sender \in Keepers \cup {Owner}, p \in Providers :
                \/ \E amount \in Amounts : \/ increaseReputation(sender, p, amount)
                                           \/ decreaseReputation(sender, p, amount)
                \/ recordDealCompleted(sender, p)
                \/ recordDealFailed(sender, p)
                \/ recordSlashing(sender, p)
    <3>1. PICK sender \in Keepers \cup {Owner}, p \in Providers :
                \/ \E amount \in Amounts : \/ increaseReputation(sender, p, amount)
                                           \/ decreaseReputation(sender, p, amount)
                \/ recordDealCompleted(sender, p)
                \/ recordDealFailed(sender, p)
                \/ recordSlashing(sender, p)
      BY <2>7
    <3>2. providers[p].registered /\ providers[p] \in Provider
      BY <1>2, <3>1 DEF increaseReputation, decreaseReputation, recordDealCompleted,
         recordDealFailed, recordSlashing, KeeperCall, RegistryTypeOK
    <3>3. ASSUME NEW r \in Provider, r.registered, NEW amount
          PROVE  Increased(r, amount).registered /\ Decreased(r, amount).registered
      BY <3>3 DEF Increased, Decreased, Deactivated, Provider
    <3>4. ASSUME NEW amount PROVE \/ ~increaseReputation(sender, p, amount)
                                   \/ ListMatchesMapping'
      BY <2>6, <3>2, <3>3 DEF increaseReputation
    <3>5. ASSUME NEW amount PROVE \/ ~decreaseReputation(sender, p, amount)
                                   \/ ListMatchesMapping'
      BY <2>6, <3>2, <3>3 DEF decreaseReputation
    <3>6. CASE recordDealCompleted(sender, p)
      <4>1. DealCompletedOn(providers[p]).registered
        BY <3>2 DEF DealCompletedOn, Increased, Provider
      <4>2. QED
        BY <2>6, <3>6, <4>1 DEF recordDealCompleted
    <3>7. CASE recordDealFailed(sender, p)
      <4>1. DealFailedOn(providers[p]).registered
        BY <3>2 DEF DealFailedOn, Decreased, Deactivated, Provider
      <4>2. QED
        BY <2>6, <3>7, <4>1 DEF recordDealFailed
    <3>8. CASE recordSlashing(sender, p)
      <4>1. SlashedOn(providers[p]).registered
        BY <3>2 DEF SlashedOn, Decreased, Deactivated, Provider
      <4>2. QED
        BY <2>6, <3>8, <4>1 DEF recordSlashing
    <3>9. QED
      BY <3>1, <3>4, <3>5, <3>6, <3>7, <3>8
  <2>8. CASE \E k \in Keepers : authorizeRecordKeeper(k) \/ revokeRecordKeeper(k)
    BY <2>2, <2>8 DEF authorizeRecordKeeper, revokeRecordKeeper
  <2>9. CASE Tick \/ UNCHANGED registryVars
    BY <2>2, <2>9 DEF Tick, Advance, registryVars
  <2>10. QED
    BY <1>2, <2>1, <2>3, <2>4, <2>5, <2>7, <2>8, <2>9 DEF RegistryNext, RegistryNextBy
<1>3. QED
  BY <1>1, <1>2, TypeCorrect, PTL DEF RegistrySpec
=============================================================================
