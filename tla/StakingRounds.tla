--------------------------- MODULE StakingRounds ---------------------------
(***************************************************************************)
(* The clock of the parachain-staking pallet: blocks, rounds, the choice   *)
(* of the collators of a round, the points they earn, the payments made    *)
(* for a round RewardPaymentDelay rounds later, one collator per block,    *)
(* and the record of the collators that produced nothing.                  *)
(*                                                                         *)
(* A block is on_initialize, then any number of calls, then on_finalize.   *)
(* Who delegates to whom is left to ParachainStaking: here the pool of     *)
(* candidates only carries the total each one is backed by.                *)
(*                                                                         *)
(* A definition named X_how is X with a plausible mistake in it: the runs  *)
(* show that the properties notice the mistake.                            *)
(***************************************************************************)
EXTENDS Integers, FiniteSets

CONSTANTS
    Collators,           \* accounts that may be candidates; ordered as AccountId is
    Stakes,              \* backing amounts a candidate of the pool may have
    RewardPaymentDelay,  \* rounds between the end of a round and its payment
    MaxOfflineRounds,    \* rounds without a block before a collator may be notified
    MinSelectedCandidates,
    MinBlocksPerRound,
    MaxCandidates,
    Lengths,             \* round lengths governance may choose
    GenesisLength,       \* blocks per round of the genesis configuration
    GenesisSelected,     \* collators per round of the genesis configuration
    GovernanceActs,      \* whether governance changes the two numbers above
    MaxRound             \* bound: no block is built after this round

ASSUME CollatorsAssumption == Collators \subseteq Nat /\ IsFiniteSet(Collators)
ASSUME StakesAssumption == Stakes \subseteq Nat
ASSUME DelayAssumption ==
    /\ RewardPaymentDelay \in Nat \ {0}
    /\ MaxOfflineRounds \in 1..RewardPaymentDelay
ASSUME LimitsAssumption ==
    /\ MinSelectedCandidates \in Nat \ {0}
    /\ MaxCandidates \in Nat \ {0}
    /\ MinBlocksPerRound \in Nat
    /\ Lengths \subseteq Nat
    /\ GenesisLength \in Nat \ {0}
    /\ GenesisSelected \in MinSelectedCandidates..MaxCandidates
    /\ GovernanceActs \in BOOLEAN
    /\ MaxRound \in Nat \ {0, 1}

Rounds == 0..MaxRound

VARIABLES
    block,            \* number of the block under construction, or of the last one
    building,         \* TRUE between on_initialize and on_finalize
    round,            \* Round: current index, first block, length
    totalSelected,    \* TotalSelected
    candidatePool,    \* CandidatePool: backing of each active candidate
    selected,         \* SelectedCandidates
    atStake,          \* AtStake: collators with a snapshot, per round
    awardedPts,       \* AwardedPts: points of a collator in a round
    points,           \* Points: all points given in a round
    delayedPayouts,   \* DelayedPayouts: rounds still being paid
    wasInactive,      \* WasInactive: collators that earned nothing, per round
    markingOffline,   \* EnableMarkingOffline
    authored,         \* history: who produced a block of the round
    payouts           \* history: how often a collator was paid for a round

chainVars == <<block, building>>
configVars == <<round, totalSelected, markingOffline>>
selectionVars == <<candidatePool, selected, atStake>>
rewardVars == <<awardedPts, points, delayedPayouts, wasInactive>>
historyVars == <<authored, payouts>>
vars == <<chainVars, configVars, selectionVars, rewardVars, historyVars>>

now == round.current

-----------------------------------------------------------------------------
(* The choice of the collators of a round.                                 *)

\* the order of compute_top_candidates: by amount, then by account
Beats(c, d) ==
    \/ candidatePool[c] > candidatePool[d]
    \/ candidatePool[c] = candidatePool[d] /\ c > d

TopCandidates ==
    LET pool == DOMAIN candidatePool
    IN  IF totalSelected = 0 THEN {}
        ELSE IF Cardinality(pool) > totalSelected
             THEN {c \in pool : Cardinality({d \in pool : Beats(d, c)}) < totalSelected}
             ELSE pool

ShouldUpdate(n) == n - round.first >= round.length

PredictedAuthors_parentBlock ==
    IF ShouldUpdate(block) /\ TopCandidates # {} THEN TopCandidates ELSE selected

\* The runtime API tells a node, before the next block exists, who may author it.
PredictedAuthors ==
    IF ShouldUpdate(block + 1) /\ TopCandidates # {} THEN TopCandidates ELSE selected

-----------------------------------------------------------------------------
(* on_initialize                                                           *)

SelectTopCandidates_noFallback(r) ==
    /\ atStake' = [atStake EXCEPT ![r] = @ \cup TopCandidates]
    /\ selected' = IF TopCandidates = {} THEN selected ELSE TopCandidates

\* Neither collators nor snapshots change when nobody is in the pool:
\* the snapshots of the last round are taken over.
SelectTopCandidates(r) ==
    IF TopCandidates = {}
    THEN /\ atStake' = [atStake EXCEPT ![r] = @ \cup atStake[r - 1]]
         /\ UNCHANGED selected
    ELSE /\ atStake' = [atStake EXCEPT ![r] = @ \cup TopCandidates]
         /\ selected' = TopCandidates

PrepareStakingPayouts(ended) ==
    delayedPayouts' = IF points[ended] = 0 THEN delayedPayouts
                                           ELSE delayedPayouts \cup {ended}

MarkCollatorsAsInactive(ended) ==
    wasInactive' = [wasInactive EXCEPT ![ended] =
                       @ \cup {c \in atStake[ended] : awardedPts[ended][c] = 0}]

BeginBlock ==
    /\ ~building
    /\ building' = TRUE
    /\ block' = block + 1
    /\ UNCHANGED <<totalSelected, markingOffline, candidatePool, authored>>

\* the first block of a round
StartRound ==
    /\ BeginBlock
    /\ ShouldUpdate(block + 1)
    /\ round' = [round EXCEPT !.current = @ + 1, !.first = block + 1]
    /\ PrepareStakingPayouts(now)
    /\ SelectTopCandidates(now + 1)
    /\ MarkCollatorsAsInactive(now)
    /\ UNCHANGED <<awardedPts, points, payouts>>

EarnedPoints_unchecked(r, c) == TRUE
EarnedPoints_twoBlocks(r, c) == awardedPts[r][c] > 20

EarnedPoints(r, c) == awardedPts[r][c] # 0

TakeAwardedPts_oneBlock(r, c) == awardedPts' = [awardedPts EXCEPT ![r][c] = @ - 20]

TakeAwardedPts(r, c) == awardedPts' = [awardedPts EXCEPT ![r][c] = 0]

\* any other block, when a round is due for payment: take one snapshot,
\* in the order of the storage keys, which is not the order of the accounts
PayOneCollator(c) ==
    LET paidFor == now - RewardPaymentDelay
    IN  /\ BeginBlock
        /\ ~ShouldUpdate(block + 1)
        /\ now >= RewardPaymentDelay
        /\ paidFor \in delayedPayouts
        /\ points[paidFor] # 0
        /\ c \in atStake[paidFor]
        /\ atStake' = [atStake EXCEPT ![paidFor] = @ \ {c}]
        /\ TakeAwardedPts(paidFor, c)
        /\ payouts' = IF EarnedPoints(paidFor, c)
                      THEN [payouts EXCEPT ![paidFor][c] = @ + 1]
                      ELSE payouts
        /\ UNCHANGED <<round, selected, points, delayedPayouts, wasInactive>>

CloseRound(r) ==
    /\ delayedPayouts' = delayedPayouts \ {r}
    /\ points' = [points EXCEPT ![r] = 0]

\* the block that finds no snapshot left closes the round's payments
FinishPayouts ==
    LET paidFor == now - RewardPaymentDelay
    IN  /\ BeginBlock
        /\ ~ShouldUpdate(block + 1)
        /\ now >= RewardPaymentDelay
        /\ paidFor \in delayedPayouts
        /\ points[paidFor] = 0 \/ atStake[paidFor] = {}
        /\ CloseRound(paidFor)
        /\ UNCHANGED <<round, selected, atStake, awardedPts, wasInactive, payouts>>

NothingToPay ==
    /\ BeginBlock
    /\ ~ShouldUpdate(block + 1)
    /\ now < RewardPaymentDelay \/ now - RewardPaymentDelay \notin delayedPayouts
    /\ UNCHANGED <<round, selected, atStake, rewardVars, payouts>>

-----------------------------------------------------------------------------
(* on_finalize: 20 points to the author, one old inactivity record pruned. *)

PruneRecords(old) ==
    IF old < 0 \/ wasInactive[old] = {}
    THEN UNCHANGED wasInactive
    ELSE \E c \in wasInactive[old] :
            wasInactive' = [wasInactive EXCEPT ![old] = @ \ {c}]

CleanupInactiveCollatorInfo_early == PruneRecords(now - MaxOfflineRounds)

CleanupInactiveCollatorInfo == PruneRecords(now - (MaxOfflineRounds + 1))

OnFinalize(author) ==
    /\ building
    /\ author \in selected           \* CanAuthor, checked by the author inherent
    /\ now < MaxRound \/ ~ShouldUpdate(block + 1)   \* bound
    /\ building' = FALSE
    /\ awardedPts' = [awardedPts EXCEPT ![now][author] = @ + 20]
    /\ points' = [points EXCEPT ![now] = @ + 20]
    /\ authored' = [authored EXCEPT ![now] = @ \cup {author}]
    /\ CleanupInactiveCollatorInfo
    /\ UNCHANGED <<block, configVars, selectionVars, delayedPayouts, payouts>>

-----------------------------------------------------------------------------
(* Calls, made while a block is being built. What a call of another part   *)
(* of the pallet does to the pool is EnterPool, ChangeStake or LeavePool.  *)

DuringBlock ==
    /\ building
    /\ UNCHANGED <<chainVars, selected, atStake, rewardVars, historyVars>>

ConfigCall == DuringBlock /\ UNCHANGED candidatePool

PoolCall == DuringBlock /\ UNCHANGED configVars

EnterPool(c, s) ==
    /\ PoolCall
    /\ c \notin DOMAIN candidatePool
    /\ Cardinality(DOMAIN candidatePool) < MaxCandidates
    /\ candidatePool' = [d \in DOMAIN candidatePool \cup {c} |->
                            IF d = c THEN s ELSE candidatePool[d]]

ChangeStake(c, s) ==
    /\ PoolCall
    /\ c \in DOMAIN candidatePool
    /\ s # candidatePool[c]
    /\ candidatePool' = [candidatePool EXCEPT ![c] = s]

RemoveFromPool(c) ==
    candidatePool' = [d \in DOMAIN candidatePool \ {c} |-> candidatePool[d]]

LeavePool(c) ==
    /\ PoolCall
    /\ c \in DOMAIN candidatePool
    /\ RemoveFromPool(c)

SetTotalSelected(n) ==
    /\ ConfigCall
    /\ GovernanceActs
    /\ n \in MinSelectedCandidates..MaxCandidates
    /\ n # totalSelected
    /\ n < round.length
    /\ totalSelected' = n
    /\ UNCHANGED <<round, markingOffline>>

SetBlocksPerRound(length) ==
    /\ ConfigCall
    /\ GovernanceActs
    /\ length >= MinBlocksPerRound
    /\ length # round.length
    /\ length > totalSelected
    /\ round' = [round EXCEPT !.length = length]
    /\ UNCHANGED <<totalSelected, markingOffline>>

EnableMarkingOffline(value) ==
    /\ ConfigCall
    /\ value # markingOffline
    /\ markingOffline' = value
    /\ UNCHANGED <<round, totalSelected>>

\* Anybody may have a silent collator taken out of the pool. (The runtime spares
\* one whose orbiter pool was active, and an error of go_offline_inner is
\* dropped: both leave the state as it is.)
NotifyInactiveCollator(c) ==
    /\ PoolCall
    /\ markingOffline
    /\ Cardinality(selected) * 3 > totalSelected * 2
    /\ now > MaxOfflineRounds
    /\ \A r \in (now - MaxOfflineRounds)..(now - 1) : c \in wasInactive[r]
    /\ c \in DOMAIN candidatePool
    /\ RemoveFromPool(c)

-----------------------------------------------------------------------------
Pools == UNION {[S -> Stakes] : S \in SUBSET Collators}

Init ==
    /\ block = 0
    /\ building = FALSE
    /\ round = [current |-> 1, first |-> 0, length |-> GenesisLength]
    /\ totalSelected = GenesisSelected
    /\ candidatePool \in Pools
    /\ Cardinality(DOMAIN candidatePool) <= MaxCandidates
    /\ selected = TopCandidates
    /\ selected # {}                 \* a chain without an author has no block 1
    /\ atStake = [r \in Rounds |-> IF r = 1 THEN selected ELSE {}]
    /\ awardedPts = [r \in Rounds |-> [c \in Collators |-> 0]]
    /\ points = [r \in Rounds |-> 0]
    /\ delayedPayouts = {}
    /\ wasInactive = [r \in Rounds |-> {}]
    /\ markingOffline = FALSE
    /\ authored = [r \in Rounds |-> {}]
    /\ payouts = [r \in Rounds |-> [c \in Collators |-> 0]]

OnInitialize ==
    \/ StartRound
    \/ \E c \in Collators : PayOneCollator(c)
    \/ FinishPayouts
    \/ NothingToPay

Next ==
    \/ OnInitialize
    \/ \E c \in Collators :
          \/ OnFinalize(c)
          \/ LeavePool(c)
          \/ NotifyInactiveCollator(c)
          \/ \E s \in Stakes : EnterPool(c, s) \/ ChangeStake(c, s)
    \/ \E n \in 1..MaxCandidates : SetTotalSelected(n)
    \/ \E length \in Lengths : SetBlocksPerRound(length)
    \/ \E value \in BOOLEAN : EnableMarkingOffline(value)

Spec == Init /\ [][Next]_vars

-----------------------------------------------------------------------------
(* Properties                                                              *)

\* Every storage item holds a value of its kind.
TypeOK ==
    /\ block \in Nat
    /\ building \in BOOLEAN
    /\ round \in [current : 1..MaxRound, first : Nat, length : Nat]
    /\ totalSelected \in Nat
    /\ candidatePool \in Pools
    /\ selected \subseteq Collators
    /\ atStake \in [Rounds -> SUBSET Collators]
    /\ awardedPts \in [Rounds -> [Collators -> Nat]]
    /\ points \in [Rounds -> Nat]
    /\ delayedPayouts \subseteq Rounds
    /\ wasInactive \in [Rounds -> SUBSET Collators]
    /\ markingOffline \in BOOLEAN
    /\ authored \in [Rounds -> SUBSET Collators]
    /\ payouts \in [Rounds -> [Collators -> Nat]]

\* The collators of the current round are exactly those with a snapshot for it,
\* so the expect of select_top_candidates cannot fail when the pool is empty.
SelectedHaveSnapshots == atStake[now] = selected

\* No collator is paid twice for one round, and none is paid for a round in
\* which it produced nothing, however rounds, payments and elections overlap.
PaidOnceForWork ==
    \A r \in Rounds, c \in Collators :
        /\ payouts[r][c] <= 1
        /\ payouts[r][c] = 1 => c \in authored[r]

\* The work of a round is either still to be paid, with its snapshot, its points
\* and the round's total on record, or paid and off the record. No order of
\* elections, payments and clean-up loses it or lets a share exceed the whole.
WorkDueOrPaid ==
    \A r \in Rounds : \A c \in authored[r] :
        IF c \in atStake[r]
        THEN awardedPts[r][c] \in 1..points[r] /\ payouts[r][c] = 0
        ELSE awardedPts[r][c] = 0 /\ payouts[r][c] = 1

\* pay_one_collator_reward names a case that "could mean one of two different logic
\* errors": a payment in progress for a round without points. It cannot happen.
PointsUntilClosed == \A r \in delayedPayouts : points[r] # 0

\* No order of elections, payments, configuration changes and clean-up pays work
\* twice, pays for none, or loses what the payment of work still to be paid needs.
PaymentsExact == PaidOnceForWork /\ WorkDueOrPaid /\ PointsUntilClosed

\* A collator on record as inactive in a round produced no block of it.
InactiveDidNotAuthor == \A r \in Rounds : wasInactive[r] \cap authored[r] = {}

\* The rounds notify_inactive_collator looks at are complete: no record of them
\* was pruned early, so a silent collator cannot escape notification.
InactiveRecordsKept ==
    \A r \in Rounds : r < now /\ r >= now - MaxOfflineRounds =>
        atStake[r] \ authored[r] \subseteq wasInactive[r]

\* What notify_inactive_collator reads of the last rounds is true and complete.
InactivityRecords == InactiveDidNotAuthor /\ InactiveRecordsKept

\* The runtime API's prediction, made on the state before a block, names the
\* collators that the block's on_initialize selects.
PredictionIsExact == [][OnInitialize => selected' = PredictedAuthors]_vars

\* "Immediately following a round change, payments are made once-per-block until
\* all payments have been made": a round whose turn is over has been paid in full.
\* So it is where every round has a block more than there are collators to pay;
\* where governance makes rounds shorter than that, TLC finds it violated.
AllPaid ==
    \A r \in Rounds : r + RewardPaymentDelay < now =>
        \A c \in authored[r] : payouts[r][c] = 1

-----------------------------------------------------------------------------
(* What the documentation says and the code does not do: no run checks     *)
(* it, TLC finds it violated.                                              *)

\* lib.rs: "clean up storage items that we no longer need".  A round whose turn of
\* payments is over keeps no payout record.
PayoutsClosed ==
    \A r \in delayedPayouts : now <= r + RewardPaymentDelay
=============================================================================
