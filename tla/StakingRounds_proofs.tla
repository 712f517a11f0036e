------------------------ MODULE StakingRounds_proofs ------------------------
(***************************************************************************)
(* The safety invariants of StakingRounds, for every set of collators,     *)
(* every delay and every bound.                                            *)
(*                                                                         *)
(* None of them is inductive alone. Together they are once we add that     *)
(* nothing is on record for a round before its time (Ahead), that the      *)
(* points of a collator are a trace of its work (PointsAreWork), that a    *)
(* snapshot is a payment not made (SnapshotsUnpaid), that a round being    *)
(* paid is over (PaidRoundsOver), and that no block ends in a state from   *)
(* which the bound would be crossed (Bounded).                             *)
(*                                                                         *)
(* That everybody has been paid when the turn of a round is over needs a   *)
(* hypothesis on the lengths of rounds (LongRounds) and a count: what is   *)
(* left to pay and the blocks already used for it fit together (OnTime).   *)
(***************************************************************************)
EXTENDS StakingRounds, FiniteSetTheorems, TLAPS

Ahead ==
    \A r \in Rounds :
        /\ r > now => atStake[r] = {} /\ authored[r] = {}
        /\ r >= now => wasInactive[r] = {}

PointsAreWork ==
    \A r \in Rounds, c \in Collators : awardedPts[r][c] # 0 => c \in authored[r]

SnapshotsUnpaid ==
    \A r \in Rounds : \A c \in Collators :
        r > now \/ c \in atStake[r] => payouts[r][c] = 0

PaidRoundsOver == \A r \in delayedPayouts : r < now

Bounded == ~building => now < MaxRound \/ ~ShouldUpdate(block + 1)

IInv ==
    /\ TypeOK
    /\ SelectedHaveSnapshots
    /\ PaidOnceForWork
    /\ WorkDueOrPaid
    /\ PointsUntilClosed
    /\ InactiveDidNotAuthor
    /\ InactiveRecordsKept
    /\ Ahead
    /\ PointsAreWork
    /\ SnapshotsUnpaid
    /\ PaidRoundsOver
    /\ Bounded

-----------------------------------------------------------------------------
USE DelayAssumption, LimitsAssumption DEF DelayAssumption, LimitsAssumption

\* The first round's collators have snapshots and nothing else is on record.
LEMMA InitIInv == Init => IInv
<1> SUFFICES ASSUME Init PROVE IInv
    OBVIOUS
<1>1. TopCandidates \subseteq Collators
    BY DEF Init, TopCandidates, Pools
<1>2. TypeOK
  <2>1. selected \subseteq Collators
    BY <1>1 DEF Init
  <2>2. round \in [current : 1..MaxRound, first : Nat, length : Nat] /\ totalSelected \in Nat
    BY DEF Init
  <2>3. /\ atStake \in [Rounds -> SUBSET Collators]
        /\ wasInactive \in [Rounds -> SUBSET Collators]
        /\ authored \in [Rounds -> SUBSET Collators]
    BY <2>1 DEF Init
  <2>4. /\ awardedPts \in [Rounds -> [Collators -> Nat]]
        /\ payouts \in [Rounds -> [Collators -> Nat]]
        /\ points \in [Rounds -> Nat]
    BY DEF Init
  <2> QED
    BY <2>1, <2>2, <2>3, <2>4 DEF Init, TypeOK
<1>3. SelectedHaveSnapshots /\ Ahead /\ Bounded
    BY <1>1 DEF Init, SelectedHaveSnapshots, Ahead, Bounded, Rounds, now, ShouldUpdate
<1>4. PaidOnceForWork /\ WorkDueOrPaid /\ PointsUntilClosed /\ SnapshotsUnpaid
    BY DEF Init, PaidOnceForWork, WorkDueOrPaid, PointsUntilClosed, SnapshotsUnpaid, Rounds
<1>5. InactiveDidNotAuthor /\ PaidRoundsOver /\ PointsAreWork
    BY DEF Init, InactiveDidNotAuthor, PaidRoundsOver, PointsAreWork, Rounds
<1>6. InactiveRecordsKept
    BY DEF Init, InactiveRecordsKept, Rounds, now
<1> QED
    BY <1>2, <1>3, <1>4, <1>5, <1>6 DEF IInv

\* What a call changes is in none of the conjuncts but the type invariant.
LEMMA CallStep ==
    ASSUME IInv, DuringBlock, now' = now, round' \in [current : Nat, first : Nat, length : Nat],
           totalSelected' \in Nat, candidatePool' \in Pools, markingOffline' \in BOOLEAN
    PROVE  IInv'
<1> USE DEF DuringBlock, chainVars, rewardVars, historyVars
<1>1. TypeOK'
    BY DEF IInv, TypeOK, now
<1>2. SelectedHaveSnapshots' /\ Ahead' /\ Bounded'
    BY DEF IInv, SelectedHaveSnapshots, Ahead, Bounded
<1>3. /\ PaidOnceForWork' /\ WorkDueOrPaid' /\ PointsUntilClosed'
      /\ SnapshotsUnpaid' /\ PointsAreWork'
    BY DEF IInv, PaidOnceForWork, WorkDueOrPaid, PointsUntilClosed, SnapshotsUnpaid, PointsAreWork
<1>4. InactiveDidNotAuthor' /\ PaidRoundsOver' /\ InactiveRecordsKept'
    BY DEF IInv, InactiveDidNotAuthor, PaidRoundsOver, InactiveRecordsKept
<1> QED
    BY <1>1, <1>2, <1>3, <1>4 DEF IInv

LEMMA PoolsKept ==
    ASSUME candidatePool \in Pools, NEW c \in Collators,
           \/ RemoveFromPool(c)
           \/ \E s \in Stakes : EnterPool(c, s) \/ ChangeStake(c, s)
    PROVE  candidatePool' \in Pools
<1>1. PICK S \in SUBSET Collators : candidatePool \in [S -> Stakes]
    BY DEF Pools
<1>2. S \cup {c} \in SUBSET Collators /\ S \ {c} \in SUBSET Collators
    OBVIOUS
<1>3. CASE RemoveFromPool(c)
  <2>1. candidatePool' \in [S \ {c} -> Stakes]
    BY <1>1, <1>3 DEF RemoveFromPool
  <2> QED
    BY <1>2, <2>1 DEF Pools
<1>4. CASE \E s \in Stakes : EnterPool(c, s)
  <2>1. candidatePool' \in [S \cup {c} -> Stakes]
    BY <1>1, <1>4 DEF EnterPool
  <2> QED
    BY <1>2, <2>1 DEF Pools
<1>5. CASE \E s \in Stakes : ChangeStake(c, s)
  <2>1. candidatePool' \in [S -> Stakes]
    BY <1>1, <1>5 DEF ChangeStake
  <2> QED
    BY <2>1 DEF Pools
<1> QED
    BY <1>3, <1>4, <1>5

Call ==
    \/ \E c \in Collators :
          \/ LeavePool(c)
          \/ NotifyInactiveCollator(c)
          \/ \E s \in Stakes : EnterPool(c, s) \/ ChangeStake(c, s)
    \/ \E n \in 1..MaxCandidates : SetTotalSelected(n)
    \/ \E length \in Lengths : SetBlocksPerRound(length)
    \/ \E value \in BOOLEAN : EnableMarkingOffline(value)

LEMMA Calls == IInv /\ Call => IInv'
<1> SUFFICES ASSUME IInv, Call PROVE IInv'
    OBVIOUS
<1>t. /\ round \in [current : Nat, first : Nat, length : Nat]
      /\ totalSelected \in Nat /\ candidatePool \in Pools /\ markingOffline \in BOOLEAN
    BY DEF IInv, TypeOK
<1>1. CASE \E c \in Collators : LeavePool(c) \/ NotifyInactiveCollator(c)
                                \/ \E s \in Stakes : EnterPool(c, s) \/ ChangeStake(c, s)
  <2>1. candidatePool' \in Pools
    BY <1>1, <1>t, PoolsKept DEF LeavePool, NotifyInactiveCollator
  <2>2. DuringBlock /\ UNCHANGED configVars
    BY <1>1 DEF LeavePool, NotifyInactiveCollator, EnterPool, ChangeStake, PoolCall
  <2> QED
    BY <1>t, <2>1, <2>2, CallStep DEF configVars, now
<1>2. CASE \E n \in 1..MaxCandidates : SetTotalSelected(n)
    BY <1>t, <1>2, CallStep DEF SetTotalSelected, ConfigCall, now
<1>3. CASE \E length \in Lengths : SetBlocksPerRound(length)
    BY <1>t, <1>3, CallStep DEF SetBlocksPerRound, ConfigCall, now
<1>4. CASE \E value \in BOOLEAN : EnableMarkingOffline(value)
    BY <1>t, <1>4, CallStep DEF EnableMarkingOffline, ConfigCall, now
<1> QED
    BY <1>1, <1>2, <1>3, <1>4 DEF Call

-----------------------------------------------------------------------------
(* on_initialize                                                           *)

LEMMA StartRoundStep == IInv /\ StartRound => IInv'
<1> SUFFICES ASSUME IInv, StartRound PROVE IInv'
    OBVIOUS
<1> DEFINE next == now + 1
<1>t. TypeOK /\ SelectedHaveSnapshots /\ Ahead /\ Bounded
    BY DEF IInv
<1>0. round \in [current : 1..MaxRound, first : Nat, length : Nat] /\ block \in Nat
    BY <1>t DEF TypeOK
<1>1. /\ now \in 1..MaxRound /\ now < MaxRound /\ now' = next /\ building' = TRUE
      /\ round' \in [current : 1..MaxRound, first : Nat, length : Nat]
      /\ next \in Rounds /\ now \in Rounds /\ next - 1 = now
  <2>1. ~building /\ building' = TRUE /\ ShouldUpdate(block + 1)
    BY DEF StartRound, BeginBlock
  <2>2. now \in 1..MaxRound /\ now < MaxRound
    <3>1. now \in 1..MaxRound
      BY <1>0 DEF now
    <3> QED
      BY <1>t, <2>1, <3>1 DEF Bounded
  <2>3. round' = [round EXCEPT !.current = next, !.first = block + 1]
    BY DEF StartRound, now
  <2>4. now' = next /\ round' \in [current : 1..MaxRound, first : Nat, length : Nat]
    <3>1. next \in 1..MaxRound /\ block + 1 \in Nat
      BY <1>0, <2>2
    <3> HIDE DEF next
    <3> QED
      BY <1>0, <2>3, <3>1 DEF now
  <2> QED
    BY <2>1, <2>2, <2>4 DEF Rounds
<1>2. PICK top \in SUBSET Collators :
         atStake' = [atStake EXCEPT ![next] = top] /\ selected' = top
  <2>0. atStake[next] = {} /\ atStake[now] = selected
    BY <1>1, <1>t DEF Ahead, SelectedHaveSnapshots
  <2>1. TopCandidates \subseteq Collators /\ selected \subseteq Collators
    BY <1>t DEF TypeOK, TopCandidates, Pools
  <2>2. SelectTopCandidates(next)
    BY DEF StartRound
  <2> QED
    BY <1>1, <2>0, <2>1, <2>2 DEF SelectTopCandidates
<1>3. /\ UNCHANGED <<totalSelected, markingOffline, candidatePool, authored>>
      /\ UNCHANGED <<awardedPts, points, payouts>> /\ block' \in Nat
    BY <1>t DEF StartRound, BeginBlock, TypeOK
<1>4. wasInactive' = [wasInactive EXCEPT ![now] = @ \cup {c \in atStake[now] : awardedPts[now][c] = 0}]
    BY DEF StartRound, MarkCollatorsAsInactive
<1>5. delayedPayouts' = IF points[now] = 0 THEN delayedPayouts ELSE delayedPayouts \cup {now}
    BY DEF StartRound, PrepareStakingPayouts
<1>6. TypeOK'
  <2>1. atStake' \in [Rounds -> SUBSET Collators]
    BY <1>1, <1>2, <1>t DEF TypeOK
  <2>2. wasInactive' \in [Rounds -> SUBSET Collators]
    BY <1>1, <1>4, <1>t DEF TypeOK
  <2>3. delayedPayouts' \subseteq Rounds
    BY <1>1, <1>5, <1>t DEF TypeOK
  <2> QED
    BY <1>1, <1>2, <1>3, <2>1, <2>2, <2>3, <1>t DEF TypeOK
<1>a. atStake'[next] = top /\ \A r \in Rounds : r # next => atStake'[r] = atStake[r]
    BY <1>1, <1>2, <1>t DEF TypeOK
<1>b. \A r \in Rounds : r # now => wasInactive'[r] = wasInactive[r]
    BY <1>1, <1>4, <1>t DEF TypeOK
<1>7. SelectedHaveSnapshots' /\ Ahead' /\ Bounded'
  <2>1. SelectedHaveSnapshots'
    <3>1. now' = next /\ selected' = top
      BY <1>1, <1>2
    <3> QED
      BY <1>a, <3>1 DEF SelectedHaveSnapshots
  <2>2. Ahead'
    <3> SUFFICES ASSUME NEW r \in Rounds
                 PROVE  /\ r > next => atStake'[r] = {} /\ authored'[r] = {}
                        /\ r >= next => wasInactive'[r] = {}
      BY <1>1 DEF Ahead
    <3>1. r >= next => r > now /\ r # now
      BY <1>1 DEF Rounds
    <3>2. r > next => r # next
      BY <1>1 DEF Rounds
    <3>3. /\ r > now => atStake[r] = {} /\ authored[r] = {}
          /\ r > now => wasInactive[r] = {}
      BY <1>1, <1>t DEF Ahead, Rounds
    <3>4. r > next => r >= next
      BY <1>1 DEF Rounds
    <3> QED
      BY <1>3, <1>a, <1>b, <3>1, <3>2, <3>3, <3>4
  <2> QED
    BY <1>1, <2>1, <2>2 DEF Bounded
<1>8. PaidOnceForWork' /\ PointsAreWork'
    BY <1>3 DEF IInv, PaidOnceForWork, PointsAreWork
<1>9. WorkDueOrPaid'
  <2>1. authored[next] = {}
    BY <1>1, <1>t DEF Ahead, Rounds
  <2>2. \A r \in Rounds : r # next => atStake'[r] = atStake[r]
    BY <1>a
  <2> QED
    BY <1>3, <2>1, <2>2 DEF IInv, WorkDueOrPaid
<1>10. PointsUntilClosed' /\ PaidRoundsOver'
  <2>1. PointsUntilClosed'
    BY <1>3, <1>5 DEF IInv, PointsUntilClosed
  <2>2. PaidRoundsOver'
    BY <1>1, <1>3, <1>5, <1>t DEF IInv, PaidRoundsOver, TypeOK, Rounds
  <2> QED
    BY <2>1, <2>2
<1>11. SnapshotsUnpaid'
    BY <1>1, <1>2, <1>3, <1>t DEF IInv, SnapshotsUnpaid, TypeOK, Rounds
<1>12. InactiveDidNotAuthor'
    BY <1>1, <1>3, <1>4, <1>t DEF IInv, InactiveDidNotAuthor, WorkDueOrPaid, TypeOK
<1>13. InactiveRecordsKept'
  <2> SUFFICES ASSUME NEW r \in Rounds, r < next, r >= next - MaxOfflineRounds
               PROVE  atStake'[r] \ authored[r] \subseteq wasInactive'[r]
    BY <1>1, <1>3 DEF InactiveRecordsKept
  <2>1. atStake'[r] = atStake[r]
    BY <1>1, <1>2, <1>t DEF TypeOK, Rounds
  <2>2. CASE r = now
    BY <1>1, <1>4, <1>t, <2>1, <2>2 DEF IInv, PointsAreWork, TypeOK
  <2>3. CASE r # now
    BY <1>1, <1>4, <1>t, <2>1, <2>3 DEF IInv, InactiveRecordsKept, TypeOK, Rounds
  <2> QED
    BY <2>2, <2>3
<1> QED
    BY <1>6, <1>7, <1>8, <1>9, <1>10, <1>11, <1>12, <1>13 DEF IInv

LEMMA PayOneCollatorStep == ASSUME IInv, NEW c \in Collators, PayOneCollator(c) PROVE IInv'
<1> DEFINE paidFor == now - RewardPaymentDelay
<1>t. TypeOK /\ SelectedHaveSnapshots /\ Ahead
    BY DEF IInv
<1>0. /\ building' = TRUE /\ block' = block + 1 /\ round' = round /\ now' = now
      /\ totalSelected' = totalSelected /\ markingOffline' = markingOffline
      /\ candidatePool' = candidatePool /\ authored' = authored /\ selected' = selected
      /\ points' = points /\ delayedPayouts' = delayedPayouts /\ wasInactive' = wasInactive
    BY DEF PayOneCollator, BeginBlock, now
<1>1. /\ now \in Rounds /\ paidFor \in Rounds /\ paidFor < now /\ paidFor # now
      /\ c \in atStake[paidFor]
  <2>1. now \in 1..MaxRound
    BY <1>t DEF TypeOK, now
  <2>2. now >= RewardPaymentDelay /\ c \in atStake[paidFor]
    BY DEF PayOneCollator
  <2> QED
    BY <2>1, <2>2 DEF Rounds
<1>2. /\ atStake' = [atStake EXCEPT ![paidFor] = @ \ {c}]
      /\ awardedPts' = [awardedPts EXCEPT ![paidFor][c] = 0]
      /\ payouts' = IF awardedPts[paidFor][c] = 0 THEN payouts
                    ELSE [payouts EXCEPT ![paidFor][c] = @ + 1]
    BY DEF PayOneCollator, TakeAwardedPts, EarnedPoints
<1>3. payouts[paidFor][c] = 0
    BY <1>1 DEF IInv, SnapshotsUnpaid
<1> HIDE DEF paidFor
<1>a. \A r \in Rounds :
         atStake'[r] = IF r = paidFor THEN atStake[r] \ {c} ELSE atStake[r]
    BY <1>1, <1>2, <1>t DEF TypeOK
<1>b. \A r \in Rounds, d \in Collators :
         awardedPts'[r][d] = IF r = paidFor /\ d = c THEN 0 ELSE awardedPts[r][d]
    BY <1>1, <1>2, <1>t DEF TypeOK
<1>c. \A r \in Rounds, d \in Collators :
         payouts'[r][d] = IF r = paidFor /\ d = c /\ awardedPts[r][d] # 0
                          THEN 1 ELSE payouts[r][d]
  <2>1. CASE awardedPts[paidFor][c] = 0
    BY <1>2, <2>1
  <2>2. CASE awardedPts[paidFor][c] # 0
    BY <1>1, <1>2, <1>3, <1>t, <2>2 DEF TypeOK
  <2> QED
    BY <2>1, <2>2
<1>4. \A r \in Rounds, d \in Collators :
         /\ atStake'[r] \subseteq atStake[r]
         /\ d \in atStake'[r] => awardedPts'[r][d] = awardedPts[r][d] /\ payouts'[r][d] = payouts[r][d]
         /\ awardedPts'[r][d] # 0 => awardedPts[r][d] # 0
         /\ payouts'[r][d] = payouts[r][d] \/ (payouts'[r][d] = 1 /\ awardedPts[r][d] # 0 /\ r = paidFor)
  <2> TAKE r \in Rounds, d \in Collators
  <2>1. atStake'[r] \subseteq atStake[r] /\ (r = paidFor => c \notin atStake'[r])
    BY <1>a
  <2>2. awardedPts'[r][d] = awardedPts[r][d] \/ (r = paidFor /\ d = c /\ awardedPts'[r][d] = 0)
    BY <1>b
  <2>3. payouts'[r][d] = payouts[r][d]
        \/ (r = paidFor /\ d = c /\ payouts'[r][d] = 1 /\ awardedPts[r][d] # 0)
    BY <1>c
  <2> QED
    BY <2>1, <2>2, <2>3
<1>5. TypeOK'
  <2>1. atStake' \in [Rounds -> SUBSET Collators] /\ awardedPts' \in [Rounds -> [Collators -> Nat]]
    BY <1>1, <1>2, <1>t DEF TypeOK
  <2>2. payouts' \in [Rounds -> [Collators -> Nat]]
    BY <1>1, <1>2, <1>t DEF TypeOK
  <2>3. block' \in Nat
    BY <1>0, <1>t DEF TypeOK
  <2> QED
    BY <1>0, <2>1, <2>2, <2>3, <1>t DEF TypeOK
<1>6. SelectedHaveSnapshots' /\ Ahead' /\ Bounded'
  <2>1. SelectedHaveSnapshots'
    <3>1. atStake'[now] = atStake[now]
      BY <1>1, <1>a
    <3> QED
      BY <1>0, <1>t, <3>1 DEF SelectedHaveSnapshots
  <2>2. Ahead'
    BY <1>0, <1>4, <1>t DEF Ahead, TypeOK
  <2> QED
    BY <1>0, <2>1, <2>2 DEF Bounded
<1>7. PaidOnceForWork' /\ PointsAreWork' /\ SnapshotsUnpaid'
  <2>1. PaidOnceForWork'
    BY <1>0, <1>4 DEF IInv, PaidOnceForWork, PointsAreWork
  <2>2. PointsAreWork'
    BY <1>0, <1>4 DEF IInv, PointsAreWork
  <2>3. SnapshotsUnpaid'
    BY <1>0, <1>1, <1>4, <1>a DEF IInv, SnapshotsUnpaid, Rounds
  <2> QED
    BY <2>1, <2>2, <2>3
<1>8. WorkDueOrPaid'
  <2> SUFFICES ASSUME NEW r \in Rounds, NEW d \in authored[r]
               PROVE  IF d \in atStake'[r]
                      THEN awardedPts'[r][d] \in 1..points[r] /\ payouts'[r][d] = 0
                      ELSE awardedPts'[r][d] = 0 /\ payouts'[r][d] = 1
    BY <1>0 DEF WorkDueOrPaid
  <2>1. d \in Collators
    BY <1>t DEF TypeOK
  <2>2. IF d \in atStake[r] THEN awardedPts[r][d] \in 1..points[r] /\ payouts[r][d] = 0
                            ELSE awardedPts[r][d] = 0 /\ payouts[r][d] = 1
    BY DEF IInv, WorkDueOrPaid
  <2>3. points[r] \in Nat
    BY <1>t DEF TypeOK
  <2> QED
    <3>1. CASE r = paidFor /\ d = c
      <4>1. d \in atStake[r] /\ d \notin atStake'[r]
        BY <1>1, <1>a, <3>1
      <4>2. awardedPts[r][d] # 0
        BY <2>2, <2>3, <4>1
      <4> QED
        BY <1>b, <1>c, <2>1, <3>1, <4>1, <4>2
    <3>2. CASE ~(r = paidFor /\ d = c)
      <4>1. d \in atStake'[r] <=> d \in atStake[r]
        BY <1>a, <3>2
      <4>2. awardedPts'[r][d] = awardedPts[r][d] /\ payouts'[r][d] = payouts[r][d]
        BY <1>b, <1>c, <2>1, <3>2
      <4> QED
        BY <2>2, <4>1, <4>2
    <3> QED
      BY <3>1, <3>2
<1>9. PointsUntilClosed' /\ PaidRoundsOver' /\ InactiveDidNotAuthor' /\ InactiveRecordsKept'
    BY <1>0, <1>4 DEF IInv, PointsUntilClosed, PaidRoundsOver, InactiveDidNotAuthor,
                      InactiveRecordsKept
<1> QED
    BY <1>5, <1>6, <1>7, <1>8, <1>9 DEF IInv

LEMMA FinishPayoutsStep == IInv /\ FinishPayouts => IInv'
<1> SUFFICES ASSUME IInv, FinishPayouts PROVE IInv'
    OBVIOUS
<1> DEFINE paidFor == now - RewardPaymentDelay
<1>t. TypeOK /\ SelectedHaveSnapshots /\ Ahead
    BY DEF IInv
<1>1. /\ building' = TRUE /\ block' \in Nat /\ now' = now
      /\ paidFor \in delayedPayouts /\ paidFor \in Rounds
      /\ UNCHANGED <<totalSelected, markingOffline, candidatePool, authored>>
      /\ UNCHANGED <<round, selected, atStake, awardedPts, wasInactive, payouts>>
    BY <1>t DEF TypeOK, FinishPayouts, BeginBlock, now
<1>2. /\ delayedPayouts' = delayedPayouts \ {paidFor}
      /\ points' = [points EXCEPT ![paidFor] = 0]
    BY DEF FinishPayouts, CloseRound
<1>3. atStake[paidFor] = {}
    BY <1>1 DEF IInv, PointsUntilClosed, FinishPayouts
<1>4. TypeOK'
    BY <1>1, <1>2, <1>t DEF TypeOK
<1>5. SelectedHaveSnapshots' /\ Ahead' /\ Bounded'
    BY <1>1, <1>t DEF SelectedHaveSnapshots, Ahead, Bounded
<1>6. PaidOnceForWork' /\ PointsAreWork' /\ SnapshotsUnpaid'
    BY <1>1 DEF IInv, PaidOnceForWork, PointsAreWork, SnapshotsUnpaid
<1>7. WorkDueOrPaid' /\ PointsUntilClosed'
    BY <1>1, <1>2, <1>3, <1>t DEF IInv, WorkDueOrPaid, PointsUntilClosed, TypeOK
<1>8. PaidRoundsOver' /\ InactiveDidNotAuthor' /\ InactiveRecordsKept'
    BY <1>1, <1>2 DEF IInv, PaidRoundsOver, InactiveDidNotAuthor, InactiveRecordsKept
<1> QED
    BY <1>4, <1>5, <1>6, <1>7, <1>8 DEF IInv

LEMMA NothingToPayStep == IInv /\ NothingToPay => IInv'
<1> SUFFICES ASSUME IInv, NothingToPay PROVE IInv'
    OBVIOUS
<1>1. /\ building' = TRUE /\ block' = block + 1 /\ now' = now
      /\ UNCHANGED <<totalSelected, markingOffline, candidatePool, authored>>
      /\ UNCHANGED <<round, selected, atStake, rewardVars, payouts>>
    BY DEF NothingToPay, BeginBlock, now
<1>2. TypeOK' /\ SelectedHaveSnapshots' /\ Ahead' /\ Bounded'
    BY <1>1 DEF IInv, TypeOK, SelectedHaveSnapshots, Ahead, Bounded, rewardVars
<1>3. PaidOnceForWork' /\ PointsAreWork' /\ SnapshotsUnpaid' /\ WorkDueOrPaid'
    BY <1>1 DEF IInv, PaidOnceForWork, PointsAreWork, SnapshotsUnpaid, WorkDueOrPaid, rewardVars
<1>4. PointsUntilClosed' /\ PaidRoundsOver' /\ InactiveDidNotAuthor' /\ InactiveRecordsKept'
    BY <1>1 DEF IInv, PointsUntilClosed, PaidRoundsOver, InactiveDidNotAuthor,
                InactiveRecordsKept, rewardVars
<1> QED
    BY <1>2, <1>3, <1>4 DEF IInv

-----------------------------------------------------------------------------
(* on_finalize                                                             *)

LEMMA OnFinalizeStep == ASSUME IInv, NEW a \in Collators, OnFinalize(a) PROVE IInv'
<1>t. TypeOK /\ SelectedHaveSnapshots /\ Ahead
    BY DEF IInv
<1>1. /\ building' = FALSE /\ now' = now /\ now \in Rounds /\ a \in atStake[now]
      /\ now < MaxRound \/ ~ShouldUpdate(block + 1)
      /\ block' = block /\ round' = round /\ totalSelected' = totalSelected
      /\ markingOffline' = markingOffline /\ candidatePool' = candidatePool
      /\ selected' = selected /\ atStake' = atStake
      /\ delayedPayouts' = delayedPayouts /\ payouts' = payouts
  <2>1. now \in Rounds
    BY <1>t DEF TypeOK, Rounds, now
  <2> QED
    BY <1>t, <2>1 DEF OnFinalize, SelectedHaveSnapshots, now, configVars, selectionVars
<1>2. /\ awardedPts' = [awardedPts EXCEPT ![now][a] = @ + 20]
      /\ points' = [points EXCEPT ![now] = @ + 20]
      /\ authored' = [authored EXCEPT ![now] = @ \cup {a}]
    BY DEF OnFinalize
<1>a. \A r \in Rounds, d \in Collators :
         awardedPts'[r][d] = IF r = now /\ d = a THEN awardedPts[r][d] + 20 ELSE awardedPts[r][d]
    BY <1>1, <1>2, <1>t DEF TypeOK
<1>b. \A r \in Rounds :
         /\ points'[r] = IF r = now THEN points[r] + 20 ELSE points[r]
         /\ authored'[r] = IF r = now THEN authored[r] \cup {a} ELSE authored[r]
    BY <1>1, <1>2, <1>t DEF TypeOK
<1>d. \A r \in Rounds : points'[r] \in Nat /\ points'[r] >= points[r]
  <2> SUFFICES ASSUME NEW r \in Rounds PROVE points'[r] \in Nat /\ points'[r] >= points[r]
    OBVIOUS
  <2>1. points[r] \in Nat
    BY <1>t DEF TypeOK
  <2>2. points'[r] = points[r] \/ points'[r] = points[r] + 20
    BY <1>b
  <2> QED
    BY <2>1, <2>2
<1>c. \A r \in Rounds, d \in Collators :
         /\ awardedPts[r][d] \in Nat /\ points[r] \in Nat
         /\ authored[r] \subseteq Collators /\ atStake[r] \subseteq Collators
    BY <1>t DEF TypeOK
<1>3. /\ awardedPts' \in [Rounds -> [Collators -> Nat]]
      /\ points' \in [Rounds -> Nat]
      /\ authored' \in [Rounds -> SUBSET Collators]
    BY <1>1, <1>2, <1>t DEF TypeOK
<1>4. /\ wasInactive' \in [Rounds -> SUBSET Collators]
      /\ \A r \in Rounds : /\ wasInactive'[r] \subseteq wasInactive[r]
                           /\ r >= now - MaxOfflineRounds => wasInactive'[r] = wasInactive[r]
  <2> DEFINE old == now - (MaxOfflineRounds + 1)
  <2>1. CleanupInactiveCollatorInfo /\ wasInactive \in [Rounds -> SUBSET Collators]
    BY <1>t DEF OnFinalize, TypeOK
  <2>2. CASE wasInactive' = wasInactive
    BY <2>1, <2>2
  <2>3. CASE ~(wasInactive' = wasInactive)
    <3>1. old \in Rounds
      BY <1>1, <2>1, <2>3 DEF CleanupInactiveCollatorInfo, PruneRecords, Rounds
    <3>2. PICK c \in wasInactive[old] : wasInactive' = [wasInactive EXCEPT ![old] = @ \ {c}]
      BY <2>1, <2>3 DEF CleanupInactiveCollatorInfo, PruneRecords
    <3> QED
      BY <1>1, <2>1, <3>1, <3>2 DEF Rounds
  <2> QED
    BY <2>2, <2>3
<1>5. TypeOK'
    BY <1>1, <1>3, <1>4, <1>t DEF TypeOK
<1>6. SelectedHaveSnapshots' /\ Ahead' /\ Bounded'
  <2>1. \A r \in Rounds : r >= now => wasInactive'[r] = {}
    BY <1>1, <1>4, <1>t DEF Ahead
  <2> QED
    <3>1. SelectedHaveSnapshots'
      BY <1>1, <1>t DEF SelectedHaveSnapshots
    <3>2. Ahead'
      <4> SUFFICES ASSUME NEW r \in Rounds
                   PROVE  /\ r > now => atStake'[r] = {} /\ authored'[r] = {}
                          /\ r >= now => wasInactive'[r] = {}
        BY <1>1 DEF Ahead
      <4>1. r > now => r # now /\ atStake[r] = {} /\ authored[r] = {}
        BY <1>1, <1>t DEF Ahead, Rounds
      <4> QED
        BY <1>1, <1>b, <2>1, <4>1
    <3>3. Bounded'
      BY <1>1 DEF Bounded, ShouldUpdate
    <3> QED
      BY <3>1, <3>2, <3>3
<1>7. PaidOnceForWork' /\ PointsAreWork' /\ SnapshotsUnpaid'
  <2>1. PaidOnceForWork' /\ SnapshotsUnpaid'
    BY <1>1, <1>b DEF IInv, PaidOnceForWork, SnapshotsUnpaid
  <2>2. PointsAreWork'
    BY <1>a, <1>b DEF IInv, PointsAreWork
  <2> QED
    BY <2>1, <2>2
<1>8. WorkDueOrPaid'
  <2> SUFFICES ASSUME NEW r \in Rounds, NEW d \in authored'[r]
               PROVE  IF d \in atStake[r]
                      THEN awardedPts'[r][d] \in 1..points'[r] /\ payouts[r][d] = 0
                      ELSE awardedPts'[r][d] = 0 /\ payouts[r][d] = 1
    BY <1>1 DEF WorkDueOrPaid
  <2>1. d \in Collators
    BY <1>b, <1>c
  <2>2. CASE r = now /\ d = a
    <3>1. payouts[r][d] = 0 /\ awardedPts[r][d] \in Nat /\ points[r] \in Nat
      BY <1>1, <1>c, <2>1, <2>2 DEF IInv, SnapshotsUnpaid
    <3>2. awardedPts[r][d] <= points[r]
      <4>1. CASE awardedPts[r][d] = 0
        BY <3>1, <4>1
      <4>2. CASE awardedPts[r][d] # 0
        <5>1. d \in authored[r]
          BY <2>1, <4>2 DEF IInv, PointsAreWork
        <5> QED
          BY <1>1, <2>2, <3>1, <5>1 DEF IInv, WorkDueOrPaid
      <4> QED
        BY <4>1, <4>2
    <3> QED
      <4>1. awardedPts'[r][d] = awardedPts[r][d] + 20 /\ points'[r] = points[r] + 20
        BY <1>a, <1>b, <2>1, <2>2
      <4>2. d \in atStake[r]
        BY <1>1, <2>2
      <4> QED
        BY <3>1, <3>2, <4>1, <4>2
  <2>3. CASE ~(r = now /\ d = a)
    <3>1. d \in authored[r]
      BY <1>b, <2>3
    <3>2. IF d \in atStake[r] THEN awardedPts[r][d] \in 1..points[r] /\ payouts[r][d] = 0
                              ELSE awardedPts[r][d] = 0 /\ payouts[r][d] = 1
      BY <3>1 DEF IInv, WorkDueOrPaid
    <3> QED
      <4>1. awardedPts'[r][d] = awardedPts[r][d]
        BY <1>a, <2>1, <2>3
      <4>2. points'[r] >= points[r] /\ points[r] \in Nat /\ points'[r] \in Nat
        BY <1>c, <1>d, <2>1
      <4> QED
        BY <3>2, <4>1, <4>2
  <2> QED
    BY <2>2, <2>3
<1>9. PointsUntilClosed' /\ PaidRoundsOver'
  <2>1. \A r \in delayedPayouts : r \in Rounds /\ points[r] # 0 /\ points[r] \in Nat
    BY <1>t DEF IInv, PointsUntilClosed, TypeOK
  <2>2. \A r \in delayedPayouts : points'[r] # 0
    BY <1>d, <2>1
  <2> QED
    BY <1>1, <2>2 DEF IInv, PointsUntilClosed, PaidRoundsOver
<1>10. InactiveDidNotAuthor'
  <2> SUFFICES ASSUME NEW r \in Rounds PROVE wasInactive'[r] \cap authored'[r] = {}
    BY DEF InactiveDidNotAuthor
  <2>1. CASE r = now
    <3>1. wasInactive[r] = {}
      BY <1>1, <1>t, <2>1 DEF Ahead, Rounds
    <3> QED
      BY <1>4, <3>1
  <2>2. CASE r # now
    BY <1>4, <1>b, <2>2 DEF IInv, InactiveDidNotAuthor
  <2> QED
    BY <2>1, <2>2
<1>11. InactiveRecordsKept'
    BY <1>1, <1>b, <1>4 DEF IInv, InactiveRecordsKept, Rounds
<1> QED
    BY <1>5, <1>6, <1>7, <1>8, <1>9, <1>10, <1>11 DEF IInv

-----------------------------------------------------------------------------
LEMMA NextIInv == IInv /\ [Next]_vars => IInv'
<1> SUFFICES ASSUME IInv, [Next]_vars PROVE IInv'
    OBVIOUS
<1>1. CASE OnInitialize
    BY <1>1, StartRoundStep, PayOneCollatorStep, FinishPayoutsStep, NothingToPayStep
    DEF OnInitialize
<1>2. CASE \E c \in Collators : OnFinalize(c)
    BY <1>2, OnFinalizeStep
<1>3. CASE Call
    BY <1>3, Calls
<1>4. CASE UNCHANGED vars
  <2>1. TypeOK' /\ SelectedHaveSnapshots' /\ Ahead' /\ Bounded'
    BY <1>4 DEF IInv, vars, chainVars, configVars, selectionVars, rewardVars, historyVars,
                TypeOK, SelectedHaveSnapshots, Ahead, Bounded, now, ShouldUpdate
  <2>2. PaidOnceForWork' /\ PointsAreWork' /\ SnapshotsUnpaid' /\ WorkDueOrPaid'
    BY <1>4 DEF IInv, vars, configVars, selectionVars, rewardVars, historyVars,
                PaidOnceForWork, PointsAreWork, SnapshotsUnpaid, WorkDueOrPaid, now
  <2>3. PointsUntilClosed' /\ PaidRoundsOver' /\ InactiveDidNotAuthor' /\ InactiveRecordsKept'
    BY <1>4 DEF IInv, vars, configVars, selectionVars, rewardVars, historyVars,
                PointsUntilClosed, PaidRoundsOver, InactiveDidNotAuthor, InactiveRecordsKept, now
  <2> QED
    BY <2>1, <2>2, <2>3 DEF IInv
<1> QED
    BY <1>1, <1>2, <1>3, <1>4 DEF Next, Call

\* The strengthened invariant holds in every state.
THEOREM Invariance == Spec => []IInv
<1> QED
    BY InitIInv, NextIInv, PTL DEF Spec

\* Storage items keep the types the pallet declares for them.
THEOREM TypeCorrect == Spec => []TypeOK
<1>1. IInv => TypeOK
    BY DEF IInv
<1> QED
    BY Invariance, <1>1, PTL

\* Every selected collator has a snapshot of the current round, whatever the
\* candidates do and however often the pool runs empty.
THEOREM SnapshotsExist == Spec => []SelectedHaveSnapshots
<1>1. IInv => SelectedHaveSnapshots
    BY DEF IInv
<1> QED
    BY Invariance, <1>1, PTL

\* No collator is paid twice for a round, nor for a round it did not work in; the
\* work of a round is on record with snapshot and points until it is paid.
THEOREM PaymentsAlwaysExact == Spec => []PaymentsExact
<1>1. IInv => PaymentsExact
    BY DEF IInv, PaymentsExact
<1> QED
    BY Invariance, <1>1, PTL

\* The inactivity records notify_inactive_collator relies on are exact: nobody who
\* produced a block is on record, and nobody who did not is missing.
THEOREM InactivityExact == Spec => []InactivityRecords
<1>1. IInv => InactivityRecords
    BY DEF IInv, InactivityRecords
<1> QED
    BY Invariance, <1>1, PTL

\* The authors can_author predicts on the state before a block are the ones its
\* on_initialize selects: the election reads nothing that on_initialize has changed
\* before it, and without an election the collators stay.
THEOREM PredictionExact == Spec => PredictionIsExact
<1> DEFINE Predicted == OnInitialize => selected' = PredictedAuthors
<1>1. StartRound => selected' = PredictedAuthors
  <2> SUFFICES ASSUME StartRound PROVE selected' = PredictedAuthors
      OBVIOUS
  <2>1. CASE TopCandidates = {}
      BY <2>1 DEF StartRound, SelectTopCandidates, PredictedAuthors
  <2>2. CASE TopCandidates # {}
      BY <2>2 DEF StartRound, SelectTopCandidates, PredictedAuthors
  <2> QED
      BY <2>1, <2>2
<1>2. ASSUME NEW c \in Collators, PayOneCollator(c) PROVE selected' = PredictedAuthors
    BY <1>2 DEF PayOneCollator, PredictedAuthors
<1>3. FinishPayouts => selected' = PredictedAuthors
    BY DEF FinishPayouts, PredictedAuthors
<1>4. NothingToPay => selected' = PredictedAuthors
    BY DEF NothingToPay, PredictedAuthors
<1>5. [Next]_vars => [Predicted]_vars
    BY <1>1, <1>2, <1>3, <1>4 DEF OnInitialize
<1> QED
    BY <1>5, PTL DEF Spec, PredictionIsExact

-----------------------------------------------------------------------------
(* Every round is paid in time, if no round is too short.                  *)

\* The most collators a round may elect, and the lengths a round may have.
Places == IF GovernanceActs THEN MaxCandidates ELSE GenesisSelected
RoundLengths == {GenesisLength} \cup (IF GovernanceActs THEN Lengths ELSE {})

\* Every round has a block for each collator of another, besides the one that starts it.
\* set_blocks_per_round and set_total_selected see to it for the collators to come, not
\* for those of rounds still to be paid.
LongRounds == \A length \in RoundLengths : length > Places

\* Nobody who worked in the round is left to be paid for it.
Settled(r) == authored[r] \cap atStake[r] = {}

Configured ==
    /\ totalSelected <= Places
    /\ round.length \in RoundLengths
    /\ round.first <= block

FewSnapshots == \A r \in Rounds : Cardinality(atStake[r]) <= Places

\* A round that is over and has no payment under way owes nothing.
OverMeansSettled == \A r \in Rounds : r < now /\ r \notin delayedPayouts => Settled(r)

\* The turn of a round is enough: each of its blocks but the first takes one snapshot.
OnTime ==
    \A r \in Rounds :
        /\ r + RewardPaymentDelay < now => Settled(r)
        /\ r + RewardPaymentDelay = now =>
              Settled(r) \/ Cardinality(atStake[r]) + (block - round.first) <= Places

TInv == Configured /\ FewSnapshots /\ OverMeansSettled /\ OnTime

\* Of the candidates, each with fewer than n that beat it, there are no more than n: no two
\* are beaten by as many.
LEMMA FewBeatAll ==
    ASSUME NEW pool \in SUBSET Collators, NEW total \in [pool -> Nat], NEW n \in Nat,
           NEW Before, Before = [c \in pool |->
               {d \in pool : total[d] > total[c] \/ (total[d] = total[c] /\ d > c)}]
    PROVE  Cardinality({c \in pool : Cardinality(Before[c]) < n}) <= n
<1> DEFINE top == {c \in pool : Cardinality(Before[c]) < n}
           rank == [c \in top |-> Cardinality(Before[c])]
<1>1. pool \subseteq Nat /\ IsFiniteSet(pool)
  BY CollatorsAssumption, FS_Subset
<1>2. \A c \in pool : IsFiniteSet(Before[c]) /\ Cardinality(Before[c]) \in Nat
  <2> TAKE c \in pool
  <2>1. Before[c] \in SUBSET pool
    OBVIOUS
  <2>2. IsFiniteSet(Before[c])
    BY <1>1, <2>1, FS_Subset
  <2> QED BY <2>2, FS_CardinalityType
<1>3. \A c \in pool, d \in pool : d \in Before[c] => Cardinality(Before[d]) < Cardinality(Before[c])
  <2> SUFFICES ASSUME NEW c \in pool, NEW d \in pool, d \in Before[c]
               PROVE  Cardinality(Before[d]) < Cardinality(Before[c])
    OBVIOUS
  <2>1. \A x \in pool : x \in Nat /\ total[x] \in Nat
    BY <1>1
  <2>2. total[d] > total[c] \/ (total[d] = total[c] /\ d > c)
    OBVIOUS
  <2>3. \A e \in pool : e \in Before[d] => e \in Before[c]
    <3> TAKE e \in pool
    <3>1. HAVE e \in Before[d]
    <3>2. total[e] > total[d] \/ (total[e] = total[d] /\ e > d)
      BY <3>1
    <3>3. total[e] > total[c] \/ (total[e] = total[c] /\ e > c)
      BY <2>1, <2>2, <3>2
    <3> QED BY <3>3
  <2>4. d \notin Before[d]
    BY <2>1
  <2>5. Before[d] \in SUBSET Before[c] /\ Before[d] # Before[c]
    <3>1. Before[d] \subseteq pool
      OBVIOUS
    <3> QED BY <2>3, <2>4, <3>1
  <2>6. Cardinality(Before[d]) <= Cardinality(Before[c])
        /\ Cardinality(Before[d]) # Cardinality(Before[c])
    <3>1. PICK A : A = Before[d]
      OBVIOUS
    <3>2. PICK B : B = Before[c]
      OBVIOUS
    <3>3. IsFiniteSet(B) /\ A \in SUBSET B /\ A # B
      BY <1>2, <2>5, <3>1, <3>2, Zenon
    <3>4. Cardinality(A) <= Cardinality(B) /\ Cardinality(A) # Cardinality(B)
      BY ONLY <3>3, FS_Subset
    <3> QED BY <3>1, <3>2, <3>4, Zenon
  <2>7. Cardinality(Before[d]) \in Nat /\ Cardinality(Before[c]) \in Nat
    BY <1>2, Zenon
  <2> QED BY ONLY <2>6, <2>7
<1>4. \A c \in pool, d \in pool : c # d => d \in Before[c] \/ c \in Before[d]
  <2> TAKE c \in pool, d \in pool
  <2>1. HAVE c # d
  <2>2. c \in Nat /\ d \in Nat /\ total[c] \in Nat /\ total[d] \in Nat
    BY <1>1
  <2>3. \/ total[d] > total[c] \/ (total[d] = total[c] /\ d > c)
        \/ total[c] > total[d] \/ (total[c] = total[d] /\ c > d)
    BY <2>1, <2>2
  <2> QED BY <2>3
<1>5. \A c \in pool, d \in pool : c # d => Cardinality(Before[c]) # Cardinality(Before[d])
  <2> TAKE c \in pool, d \in pool
  <2>1. HAVE c # d
  <2>2. \/ Cardinality(Before[d]) < Cardinality(Before[c])
        \/ Cardinality(Before[c]) < Cardinality(Before[d])
    BY <1>3, <1>4, <2>1, Zenon
  <2>3. Cardinality(Before[d]) \in Nat /\ Cardinality(Before[c]) \in Nat
    BY <1>2, Zenon
  <2> QED BY ONLY <2>2, <2>3
<1>6. rank \in [top -> 0 .. n - 1]
  BY <1>2
<1>7. \A c \in top, d \in top : rank[c] = rank[d] => c = d
  BY <1>5
<1>8. rank \in Injection(top, 0 .. n - 1)
  BY <1>6, <1>7 DEF Injection, IsInjective
<1>9. IsFiniteSet(0 .. n - 1) /\ Cardinality(0 .. n - 1) = n
  BY FS_Interval
<1> HIDE DEF rank, top
<1>10. Cardinality(top) <= n
  BY <1>8, <1>9, FS_Injection
<1> QED BY <1>10 DEF top

\* compute_top_candidates returns no more than TotalSelected.
LEMMA NoMoreThanSelected ==
    ASSUME candidatePool \in Pools, totalSelected \in Nat
    PROVE  Cardinality(TopCandidates) <= totalSelected
<1> DEFINE pool == DOMAIN candidatePool
<1>1. pool \in SUBSET Collators /\ candidatePool \in [pool -> Nat] /\ IsFiniteSet(pool)
  <2>1. PICK S \in SUBSET Collators : candidatePool \in [S -> Stakes]
    BY DEF Pools
  <2>2. pool = S
    BY <2>1
  <2>3. candidatePool \in [pool -> Nat]
    BY <2>1, <2>2, StakesAssumption
  <2> QED BY <2>2, <2>3, CollatorsAssumption, FS_Subset
<1>2. Cardinality(pool) \in Nat
  BY <1>1, FS_CardinalityType
<1>3. CASE totalSelected = 0
  BY <1>3, FS_EmptySet DEF TopCandidates
<1>4. CASE totalSelected # 0 /\ Cardinality(pool) <= totalSelected
  <2>1. ~(Cardinality(pool) > totalSelected)
    BY <1>2, <1>4
  <2>2. TopCandidates = pool
    BY <1>4, <2>1 DEF TopCandidates
  <2> QED BY <1>4, <2>2
<1>5. CASE totalSelected # 0 /\ Cardinality(pool) > totalSelected
  <2>1. PICK Before : Before = [c \in pool |->
            {d \in pool : \/ candidatePool[d] > candidatePool[c]
                          \/ candidatePool[d] = candidatePool[c] /\ d > c}]
    OBVIOUS
  <2>2. TopCandidates = {c \in pool : Cardinality({d \in pool : Beats(d, c)}) < totalSelected}
    BY <1>5 DEF TopCandidates
  <2>3. \A c \in pool : {d \in pool : Beats(d, c)} = Before[c]
    BY <2>1 DEF Beats
  <2>4. TopCandidates = {c \in pool : Cardinality(Before[c]) < totalSelected}
    BY <2>2, <2>3
  <2>5. Cardinality({c \in pool : Cardinality(Before[c]) < totalSelected}) <= totalSelected
    BY <1>1, <2>1, FewBeatAll
  <2> QED BY <2>4, <2>5
<1> QED BY <1>2, <1>3, <1>4, <1>5

LEMMA SizesAreNumbers ==
    /\ Places \in Nat /\ RoundLengths \subseteq Nat /\ GenesisSelected <= Places
    /\ \A S \in SUBSET Collators : IsFiniteSet(S) /\ Cardinality(S) \in Nat
<1>1. Places \in Nat /\ RoundLengths \subseteq Nat /\ GenesisSelected <= Places
  BY DEF Places, RoundLengths
<1>2. ASSUME NEW S \in SUBSET Collators PROVE IsFiniteSet(S) /\ Cardinality(S) \in Nat
  <2>1. IsFiniteSet(S)
    BY CollatorsAssumption, FS_Subset
  <2> QED BY <2>1, FS_CardinalityType
<1> QED BY <1>1, <1>2

LEMMA InitTInv == Init => TInv
<1> SUFFICES ASSUME Init PROVE TInv
  OBVIOUS
<1>1. Configured
  BY SizesAreNumbers DEF Init, Configured, RoundLengths
<1>2. FewSnapshots
  <2>1. Cardinality(selected) <= totalSelected
    BY NoMoreThanSelected DEF Init
  <2>2. Cardinality(selected) \in Nat /\ Cardinality({}) = 0
    <3>1. selected \in SUBSET Collators
      BY DEF Init, TopCandidates, Pools
    <3> QED BY <3>1, SizesAreNumbers, FS_EmptySet
  <2> QED BY <2>1, <2>2, SizesAreNumbers DEF Init, FewSnapshots
<1>3. OverMeansSettled /\ OnTime
  BY DEF Init, OverMeansSettled, OnTime, Settled
<1> QED BY <1>1, <1>2, <1>3 DEF TInv

\* A call changes the pool and the configuration, within their bounds.
LEMMA CallTInv ==
    ASSUME IInv, TInv, Call
    PROVE  TInv'
<1>1. UNCHANGED <<block, atStake, delayedPayouts, authored>> /\ now' = now /\ round'.first = round.first
  <2>1. DuringBlock
    BY DEF Call, LeavePool, NotifyInactiveCollator, EnterPool, ChangeStake, SetTotalSelected,
           SetBlocksPerRound, EnableMarkingOffline, PoolCall, ConfigCall
  <2>2. round' = round \/ \E length \in Lengths : round' = [round EXCEPT !.length = length]
    BY DEF Call, LeavePool, NotifyInactiveCollator, EnterPool, ChangeStake, SetTotalSelected,
           SetBlocksPerRound, EnableMarkingOffline, PoolCall, configVars
  <2>3. round \in [current : 1..MaxRound, first : Nat, length : Nat]
    BY DEF IInv, TypeOK
  <2>4. now' = now /\ round'.first = round.first
    BY <2>2, <2>3 DEF now
  <2> QED BY <2>1, <2>4 DEF DuringBlock, chainVars, rewardVars, historyVars
<1>2. totalSelected' <= Places
  <2>1. CASE totalSelected' = totalSelected
    BY <2>1 DEF TInv, Configured
  <2>2. CASE \E n \in 1..MaxCandidates : SetTotalSelected(n)
    BY <2>2 DEF SetTotalSelected, Places
  <2> QED BY <2>1, <2>2 DEF Call, LeavePool, NotifyInactiveCollator, EnterPool, ChangeStake,
                 SetBlocksPerRound, EnableMarkingOffline, PoolCall, configVars
<1>3. round'.length \in RoundLengths
  <2>1. CASE round' = round
    BY <2>1 DEF TInv, Configured
  <2>2. CASE \E length \in Lengths : SetBlocksPerRound(length)
    <3>1. PICK length \in Lengths : SetBlocksPerRound(length)
      BY <2>2
    <3>2. GovernanceActs /\ round' = [round EXCEPT !.length = length]
      BY <3>1 DEF SetBlocksPerRound
    <3>3. round \in [current : 1..MaxRound, first : Nat, length : Nat]
      BY DEF IInv, TypeOK
    <3> QED BY <3>2, <3>3 DEF RoundLengths
  <2> QED BY <2>1, <2>2 DEF Call, LeavePool, NotifyInactiveCollator, EnterPool, ChangeStake,
                 SetTotalSelected, EnableMarkingOffline, PoolCall, configVars
<1>4. Configured'
  BY <1>1, <1>2, <1>3 DEF TInv, Configured
<1>5. FewSnapshots' /\ OverMeansSettled' /\ OnTime'
  BY <1>1 DEF TInv, FewSnapshots, OverMeansSettled, OnTime, Settled
<1> QED BY <1>4, <1>5 DEF TInv

\* When the next round starts, the blocks of this one have sufficed.
LEMMA StartRoundTInv ==
    ASSUME LongRounds, IInv, TInv, StartRound, IInv'
    PROVE  TInv'
<1>t. TypeOK /\ TypeOK' /\ Ahead
  BY DEF IInv
<1>0. /\ now \in Rounds /\ now \in 1 .. MaxRound /\ block \in Nat
      /\ round \in [current : 1..MaxRound, first : Nat, length : Nat]
  BY <1>t DEF TypeOK, now, Rounds
<1>1. /\ block' = block + 1 /\ now' = now + 1 /\ now + 1 \in Rounds
      /\ round'.first = block + 1 /\ round'.length = round.length
      /\ authored' = authored /\ totalSelected' = totalSelected
  <2>1. round' = [round EXCEPT !.current = now + 1, !.first = block + 1]
    BY DEF StartRound, now
  <2>2. now' = now + 1 /\ round'.first = block + 1 /\ round'.length = round.length
    BY <1>0, <2>1 DEF now
  <2>3. now' \in Rounds
    BY <1>t DEF TypeOK, now, Rounds
  <2> QED BY <2>2, <2>3 DEF StartRound, BeginBlock
<1>2. block - round.first >= Places
  <2>1. (block + 1) - round.first >= round.length
    BY DEF StartRound, ShouldUpdate
  <2>2. round.length > Places
    BY DEF LongRounds, TInv, Configured
  <2>3. round.first \in Nat /\ round.length \in Nat
    BY <1>0
  <2> QED BY <1>0, <2>1, <2>2, <2>3, SizesAreNumbers
<1>3. /\ \A r \in Rounds : r # now + 1 => atStake'[r] = atStake[r]
      /\ atStake'[now + 1] = TopCandidates \/ atStake'[now + 1] = atStake[now]
  <2>1. atStake \in [Rounds -> SUBSET Collators] /\ atStake[now + 1] = {}
    BY <1>0, <1>1, <1>t DEF TypeOK, Ahead, Rounds
  <2>2. SelectTopCandidates(now + 1)
    BY DEF StartRound
  <2>3. (now + 1) - 1 = now
    BY <1>0
  <2>4. PICK next : next = now + 1
    OBVIOUS
  <2>5. \/ atStake' = [atStake EXCEPT ![next] = @ \cup TopCandidates]
        \/ atStake' = [atStake EXCEPT ![next] = @ \cup atStake[now]]
    BY <2>2, <2>3, <2>4 DEF SelectTopCandidates
  <2> QED BY <1>1, <2>1, <2>4, <2>5
<1>4. Configured'
  BY <1>0, <1>1 DEF TInv, Configured
<1>5. FewSnapshots'
  <2>1. Cardinality(TopCandidates) <= Places
    <3>1. Cardinality(TopCandidates) <= totalSelected /\ totalSelected \in Nat
      BY <1>t, NoMoreThanSelected DEF TypeOK
    <3>2. TopCandidates \in SUBSET Collators
      BY <1>t DEF TypeOK, TopCandidates, Pools
    <3>3. totalSelected <= Places
      BY DEF TInv, Configured
    <3>4. Cardinality(TopCandidates) \in Nat
      BY <3>2, SizesAreNumbers
    <3> QED BY <3>1, <3>3, <3>4, SizesAreNumbers
  <2> QED BY <1>0, <1>3, <2>1 DEF TInv, FewSnapshots
<1>6. Settled(now) \/ points[now] # 0
  <2> SUFFICES ASSUME NEW c \in authored[now], c \in atStake[now] PROVE points[now] # 0
    BY DEF Settled
  <2>1. awardedPts[now][c] \in 1 .. points[now] /\ points[now] \in Nat
    BY <1>0, <1>t DEF IInv, WorkDueOrPaid, TypeOK
  <2> QED BY <2>1
<1>7. \A r \in Rounds : r < now + 1 => (Settled(r)' <=> Settled(r))
  BY <1>0, <1>1, <1>3 DEF Settled, Rounds
<1>8. OverMeansSettled'
  <2> SUFFICES ASSUME NEW r \in Rounds, r < now + 1, r \notin delayedPayouts' PROVE Settled(r)'
    BY <1>1 DEF OverMeansSettled
  <2>1. delayedPayouts' = IF points[now] = 0 THEN delayedPayouts ELSE delayedPayouts \cup {now}
    BY DEF StartRound, PrepareStakingPayouts
  <2>2. r = now \/ r < now
    BY <1>0 DEF Rounds
  <2>3. Settled(r)
    BY <1>6, <2>1, <2>2 DEF TInv, OverMeansSettled
  <2> QED BY <1>7, <2>3
<1>9. OnTime'
  <2> SUFFICES ASSUME NEW r \in Rounds
               PROVE  /\ r + RewardPaymentDelay < now + 1 => Settled(r)'
                      /\ r + RewardPaymentDelay = now + 1 =>
                            Cardinality(atStake'[r]) + (block' - round'.first) <= Places
    BY <1>1 DEF OnTime
  <2>0. Cardinality(atStake[r]) \in Nat /\ atStake[r] \in SUBSET Collators
    <3>1. atStake[r] \in SUBSET Collators
      BY <1>t DEF TypeOK
    <3> QED BY <3>1, SizesAreNumbers
  <2>1. ASSUME r + RewardPaymentDelay < now + 1 PROVE Settled(r)'
    <3>1. r + RewardPaymentDelay < now \/ r + RewardPaymentDelay = now
      BY <1>0, <2>1 DEF Rounds
    <3>2. r < now + 1
      BY <1>0, <2>1 DEF Rounds
    <3>3. Settled(r) \/ Cardinality(atStake[r]) + (block - round.first) <= Places
      BY <3>1 DEF TInv, OnTime
    <3>4. CASE Cardinality(atStake[r]) + (block - round.first) <= Places
      <4>1. Cardinality(atStake[r]) = 0
        BY <1>0, <1>2, <2>0, <3>4, SizesAreNumbers
      <4>2. atStake[r] = {}
        BY <2>0, <4>1, SizesAreNumbers, FS_EmptySet
      <4> QED BY <1>7, <3>2, <4>2 DEF Settled
    <3> QED BY <1>7, <3>2, <3>3, <3>4
  <2>2. ASSUME r + RewardPaymentDelay = now + 1
        PROVE  Cardinality(atStake'[r]) + (block' - round'.first) <= Places
    <3>1. Cardinality(atStake'[r]) <= Places
      BY <1>5 DEF FewSnapshots
    <3>2. block' - round'.first = 0
      BY <1>0, <1>1
    <3>3. Cardinality(atStake'[r]) \in Nat
      <4>1. atStake'[r] \in SUBSET Collators
        BY <1>t DEF TypeOK
      <4> QED BY <4>1, SizesAreNumbers
    <3> QED BY <3>1, <3>2, <3>3, SizesAreNumbers
  <2> QED BY <2>1, <2>2
<1> QED BY <1>4, <1>5, <1>8, <1>9 DEF TInv

\* A block that pays takes a snapshot of the round whose turn it is.
LEMMA PayTInv ==
    ASSUME IInv, TInv, NEW c \in Collators, PayOneCollator(c)
    PROVE  TInv'
<1> DEFINE paidFor == now - RewardPaymentDelay
<1>t. TypeOK
  BY DEF IInv
<1>0. /\ now \in 1 .. MaxRound /\ block \in Nat
      /\ round \in [current : 1..MaxRound, first : Nat, length : Nat]
  BY <1>t DEF TypeOK, now
<1>1. /\ block' = block + 1 /\ UNCHANGED <<round, totalSelected, delayedPayouts, authored>>
      /\ now' = now /\ paidFor \in Rounds /\ c \in atStake[paidFor]
      /\ atStake' = [atStake EXCEPT ![paidFor] = @ \ {c}]
  <2>1. now >= RewardPaymentDelay
    BY DEF PayOneCollator
  <2>2. paidFor \in Rounds
    BY <1>0, <2>1 DEF Rounds
  <2> QED BY <2>2 DEF PayOneCollator, BeginBlock, now
<1>2. \A r \in Rounds :
        /\ IsFiniteSet(atStake[r]) /\ Cardinality(atStake[r]) \in Nat
        /\ atStake'[r] = IF r = paidFor THEN atStake[r] \ {c} ELSE atStake[r]
  <2>1. atStake \in [Rounds -> SUBSET Collators]
    BY <1>t DEF TypeOK
  <2>2. ASSUME NEW r \in Rounds PROVE IsFiniteSet(atStake[r]) /\ Cardinality(atStake[r]) \in Nat
    <3>1. atStake[r] \in SUBSET Collators
      BY <2>1
    <3> QED BY <3>1, SizesAreNumbers
  <2> HIDE DEF paidFor
  <2>3. \A r \in Rounds : atStake'[r] = IF r = paidFor THEN atStake[r] \ {c} ELSE atStake[r]
    BY <1>1, <2>1
  <2> QED
    <3> TAKE r \in Rounds
    <3>1. IsFiniteSet(atStake[r]) /\ Cardinality(atStake[r]) \in Nat
      BY <2>2
    <3> QED BY <2>3, <3>1, Zenon
<1>3. Cardinality(atStake'[paidFor]) = Cardinality(atStake[paidFor]) - 1
  <2>1. PICK S : S = atStake[paidFor]
    OBVIOUS
  <2>2. IsFiniteSet(S) /\ c \in S /\ atStake'[paidFor] = S \ {c}
    BY <1>1, <1>2, <2>1
  <2>3. Cardinality(S \ {c}) = Cardinality(S) - 1
    BY ONLY <2>2, FS_RemoveElement
  <2> QED BY <2>1, <2>2, <2>3
<1>4. Configured'
  BY <1>0, <1>1 DEF TInv, Configured
<1>5. FewSnapshots'
  <2> SUFFICES ASSUME NEW r \in Rounds PROVE Cardinality(atStake'[r]) <= Places
    BY DEF FewSnapshots
  <2>1. Cardinality(atStake[r]) <= Places /\ Cardinality(atStake[r]) \in Nat
    BY <1>2 DEF TInv, FewSnapshots
  <2>2. Cardinality(atStake'[r]) = Cardinality(atStake[r])
        \/ Cardinality(atStake'[r]) = Cardinality(atStake[r]) - 1
    <3>1. CASE r = paidFor
      BY <1>3, <3>1
    <3>2. CASE r # paidFor
      BY <1>2, <3>2
    <3> QED BY <3>1, <3>2
  <2> QED BY <2>1, <2>2, SizesAreNumbers
<1>6. \A r \in Rounds : Settled(r) => Settled(r)'
  BY <1>1, <1>2 DEF Settled
<1>7. OverMeansSettled'
  BY <1>1, <1>6 DEF TInv, OverMeansSettled
<1>8. OnTime'
  <2> SUFFICES ASSUME NEW r \in Rounds
               PROVE  /\ r + RewardPaymentDelay < now => Settled(r)'
                      /\ r + RewardPaymentDelay = now =>
                            \/ Settled(r)'
                            \/ Cardinality(atStake'[r]) + (block' - round.first) <= Places
    BY <1>1 DEF OnTime
  <2>1. r + RewardPaymentDelay < now => Settled(r)'
    BY <1>6 DEF TInv, OnTime
  <2>2. ASSUME r + RewardPaymentDelay = now
        PROVE  \/ Settled(r)'
               \/ Cardinality(atStake'[r]) + (block' - round.first) <= Places
    <3>1. r = paidFor
      BY <1>0, <2>2 DEF Rounds
    <3>2. Settled(r) \/ Cardinality(atStake[r]) + (block - round.first) <= Places
      BY <2>2 DEF TInv, OnTime
    <3>3. Cardinality(atStake'[r]) + (block' - round.first)
            = Cardinality(atStake[r]) + (block - round.first)
      <4>1. Cardinality(atStake'[r]) = Cardinality(atStake[r]) - 1 /\ Cardinality(atStake[r]) \in Nat
        BY <1>2, <1>3, <3>1
      <4>2. round.first \in Nat
        BY <1>0
      <4> QED BY <1>0, <1>1, <4>1, <4>2
    <3> QED BY <1>6, <3>2, <3>3
  <2> QED BY <2>1, <2>2
<1> QED BY <1>4, <1>5, <1>7, <1>8 DEF TInv

\* Nobody is left who could be paid, or the turn of the round was over before.
LEMMA NoPaymentTInv ==
    ASSUME IInv, TInv, FinishPayouts \/ NothingToPay
    PROVE  TInv'
<1>t. TypeOK
  BY DEF IInv
<1>0. /\ now \in 1 .. MaxRound /\ block \in Nat
      /\ round \in [current : 1..MaxRound, first : Nat, length : Nat]
  BY <1>t DEF TypeOK, now
<1>1. /\ block' = block + 1 /\ UNCHANGED <<round, totalSelected, authored, atStake>> /\ now' = now
  BY DEF FinishPayouts, NothingToPay, BeginBlock, now
<1>2. \A r \in Rounds : Settled(r)' <=> Settled(r)
  BY <1>1 DEF Settled
<1>3. \A r \in Rounds : r < now /\ r \notin delayedPayouts' => Settled(r)
  <2>1. CASE FinishPayouts
    <3> DEFINE paidFor == now - RewardPaymentDelay
    <3>1. paidFor \in delayedPayouts /\ delayedPayouts' = delayedPayouts \ {paidFor}
      BY <2>1 DEF FinishPayouts, CloseRound
    <3>2. atStake[paidFor] = {}
      BY <2>1, <3>1 DEF FinishPayouts, IInv, PointsUntilClosed
    <3> QED BY <3>1, <3>2 DEF TInv, OverMeansSettled, Settled
  <2>2. CASE NothingToPay
    BY <2>2 DEF NothingToPay, rewardVars, TInv, OverMeansSettled
  <2> QED BY <2>1, <2>2
<1>4. \A r \in Rounds : r + RewardPaymentDelay = now => r < now /\ Settled(r)
  <2> SUFFICES ASSUME NEW r \in Rounds, r + RewardPaymentDelay = now
               PROVE  r < now /\ Settled(r)
    OBVIOUS
  <2>1. r < now /\ r = now - RewardPaymentDelay /\ now >= RewardPaymentDelay
    BY <1>0 DEF Rounds
  <2>2. r \notin delayedPayouts'
    <3>1. CASE FinishPayouts
      BY <2>1, <3>1 DEF FinishPayouts, CloseRound
    <3>2. CASE NothingToPay
      <4>1. ~(now < RewardPaymentDelay)
        BY <1>0, <2>1
      <4>2. now - RewardPaymentDelay \notin delayedPayouts
        BY <3>2, <4>1 DEF NothingToPay
      <4> QED BY <2>1, <3>2, <4>2 DEF NothingToPay, rewardVars
    <3> QED BY <3>1, <3>2
  <2> QED BY <1>3, <2>1, <2>2
<1>5. Configured'
  BY <1>0, <1>1 DEF TInv, Configured
<1>6. FewSnapshots' /\ OverMeansSettled'
  BY <1>1, <1>2, <1>3 DEF TInv, FewSnapshots, OverMeansSettled
<1>7. OnTime'
  BY <1>1, <1>2, <1>4 DEF TInv, OnTime
<1> QED BY <1>5, <1>6, <1>7 DEF TInv

\* An author works in the present round, which is not over.
LEMMA OnFinalizeTInv ==
    ASSUME IInv, TInv, NEW a \in Collators, OnFinalize(a)
    PROVE  TInv'
<1>t. TypeOK
  BY DEF IInv
<1>0. now \in 1 .. MaxRound /\ now \in Rounds
  BY <1>t DEF TypeOK, now, Rounds
<1>1. /\ UNCHANGED <<block, round, totalSelected, atStake, delayedPayouts>> /\ now' = now
      /\ authored' = [authored EXCEPT ![now] = @ \cup {a}]
  BY DEF OnFinalize, configVars, selectionVars, now
<1>2. \A r \in Rounds : r < now => (Settled(r)' <=> Settled(r))
  <2>1. authored \in [Rounds -> SUBSET Collators]
    BY <1>t DEF TypeOK
  <2>2. \A r \in Rounds : r < now => r # now
    BY <1>0 DEF Rounds
  <2>3. \A r \in Rounds : r < now => authored'[r] = authored[r]
    BY <1>0, <1>1, <2>1, <2>2
  <2> QED BY <1>1, <2>3 DEF Settled
<1>3. \A r \in Rounds : r + RewardPaymentDelay <= now => r < now
  BY <1>0 DEF Rounds
<1>4. \A r \in Rounds : r + RewardPaymentDelay < now \/ r + RewardPaymentDelay = now => r < now
  BY <1>0 DEF Rounds
<1>5. Configured' /\ FewSnapshots' /\ OverMeansSettled'
  BY <1>1, <1>2 DEF TInv, Configured, FewSnapshots, OverMeansSettled
<1>6. OnTime'
  BY <1>1, <1>2, <1>4 DEF TInv, OnTime
<1> QED BY <1>5, <1>6 DEF TInv

\* Where no round is too short for the payments of another, whatever the candidates and
\* governance do, everybody who worked in a round has been paid when its turn is over.
THEOREM LongRoundsPayAll == ASSUME LongRounds PROVE Spec => []AllPaid
<1>1. TInv /\ IInv /\ IInv' /\ [Next]_vars => TInv'
  <2> SUFFICES ASSUME TInv, IInv, IInv', [Next]_vars PROVE TInv'
    OBVIOUS
  <2>1. CASE OnInitialize
    BY <2>1, StartRoundTInv, PayTInv, NoPaymentTInv DEF OnInitialize
  <2>2. CASE \E c \in Collators : OnFinalize(c)
    BY <2>2, OnFinalizeTInv
  <2>3. CASE Call
    BY <2>3, CallTInv
  <2>4. CASE UNCHANGED vars
    BY <2>4 DEF vars, chainVars, configVars, selectionVars, rewardVars, historyVars, TInv,
                Configured, FewSnapshots, OverMeansSettled, OnTime, Settled, now
  <2> QED BY <2>1, <2>2, <2>3, <2>4 DEF Next, Call
<1>2. IInv /\ TInv => AllPaid
  <2> SUFFICES ASSUME IInv, TInv, NEW r \in Rounds, r + RewardPaymentDelay < now, NEW c \in authored[r]
               PROVE  payouts[r][c] = 1
    BY DEF AllPaid
  <2>1. c \notin atStake[r]
    BY DEF TInv, OnTime, Settled
  <2> QED BY <2>1 DEF IInv, WorkDueOrPaid
<1> QED BY <1>1, <1>2, InitTInv, Invariance, PTL DEF Spec

=============================================================================
