-------------------------- MODULE ParachainStaking --------------------------
(***************************************************************************)
(* Who stakes what in the parachain-staking pallet: candidates and their   *)
(* self bond, the books of their delegations, the delegators' own records, *)
(* the requests that take a delegation back after a delay, the rewards     *)
(* compounded into delegations, the pool of candidates, the locks and the  *)
(* total. StakingRounds models the clock: here a round only passes.        *)
(*                                                                         *)
(* A call that returns an error leaves no trace, so it is a disabled       *)
(* action; MintAndCompound is no call and keeps what it wrote before an    *)
(* error. The hints that callers give about the length of lists only bound *)
(* the weight of a call and are left out. Sums saturate where the code's   *)
(* do, at zero; no sum comes near the upper bound of a balance.            *)
(***************************************************************************)
EXTENDS DelegationBook, RewardSplit

CONSTANTS
    CandidateAccounts,           \* accounts that may become candidates
    DelegatorAccounts,           \* accounts that may delegate
    MinCandidateStk,
    MinDelegation,
    MaxCandidates,
    MaxDelegationsPerDelegator,
    LeaveCandidatesDelay,        \* rounds a leaving candidate waits
    CandidateBondLessDelay,      \* rounds a smaller self bond waits
    RevokeDelegationDelay,       \* rounds a revocation waits
    DelegationBondLessDelay,     \* rounds a smaller delegation waits
    Bonds,                       \* self bonds and changes of them tried
    Amounts,                     \* delegations and changes of them tried
    Percents,                    \* auto-compounding percentages tried
    Rewards,                     \* rewards paid
    Payouts,                     \* payouts of a round divided among stakers
    InitialBalance,              \* balance of each account at genesis
    MaxBalance,                  \* bound: no reward lifts a balance above it
    MaxStale,                    \* bound: how far a stored list total may run ahead
    MaxRound                     \* bound: the last round

Accounts == CandidateAccounts \cup DelegatorAccounts

ASSUME AccountsAssumption == IsFiniteSet(CandidateAccounts) /\ IsFiniteSet(DelegatorAccounts)
ASSUME MinimaAssumption ==
    /\ MinCandidateStk \in Nat \ {0} /\ MinDelegation \in Nat \ {0}
    /\ MaxCandidates \in Nat \ {0} /\ MaxDelegationsPerDelegator \in Nat \ {0}
ASSUME DelaysAssumption ==
    /\ LeaveCandidatesDelay \in Nat /\ CandidateBondLessDelay \in Nat
    /\ RevokeDelegationDelay \in Nat /\ DelegationBondLessDelay \in Nat
ASSUME InputsAssumption ==
    /\ Bonds \subseteq Nat /\ Amounts \subseteq Nat \ {0} /\ Rewards \subseteq Nat
    /\ Percents \subseteq 0..100
    /\ InitialBalance \in [Accounts -> Nat] /\ MaxBalance \in Nat /\ MaxStale \in Nat /\ MaxRound \in Nat \ {0}
ASSUME PayoutsAssumption == Payouts \subseteq [issuance : Nat, reward : Nat, commission : Nat]

VARIABLES
    round,            \* Round: the current index
    candidateInfo,    \* CandidateInfo, TopDelegations and BottomDelegations
    candidatePool,    \* CandidatePool: what each active candidate counts
    delegatorState,   \* DelegatorState: a delegator's own record
    requests,         \* DelegationScheduledRequests
    autoCompound,     \* AutoCompoundingDelegations
    totalStaked,      \* Total
    collatorLock,     \* the lock of each account as a candidate
    delegatorLock,    \* the lock of each account as a delegator
    balance           \* external: free balance of each account

lockVars == <<collatorLock, delegatorLock, balance>>
delegationVars == <<delegatorState, requests, autoCompound>>
vars == <<round, candidateInfo, candidatePool, totalStaked, delegationVars, lockVars>>

Candidates == DOMAIN candidateInfo
Delegators == DOMAIN delegatorState
Pairs == CandidateAccounts \X DelegatorAccounts

Minus(f, S) == Restrict(f, DOMAIN f \ S)
With(f, x, value) == [y \in DOMAIN f \cup {x} |-> IF y = x THEN value ELSE f[y]]
Monus(a, b) == IF a >= b THEN a - b ELSE 0

IsActive(c) == candidateInfo[c].status = "active"
IsLeaving(c) == candidateInfo[c].status = "leaving"

Delegates(d, c) == d \in Delegators /\ c \in DOMAIN delegatorState[d].delegations
HasRequest(d, c) == <<c, d>> \in DOMAIN requests
RevokePending(d, c) == HasRequest(d, c) /\ requests[<<c, d>>].action = "revoke"

\* what an account may still stake
DelegatorStakable(d) ==
    Monus(balance[d], IF d \in Delegators THEN delegatorState[d].total ELSE 0)
CollatorStakable(c) ==
    Monus(balance[c], IF c \in Candidates THEN candidateInfo[c].book.bond ELSE 0)

-----------------------------------------------------------------------------
(* A book that has changed is stored, and the pool follows what it counts. *)

StoreBook(c, book) ==
    /\ candidateInfo' = [candidateInfo EXCEPT ![c].book = book]
    /\ candidatePool' = IF IsActive(c) /\ book.counted # candidateInfo[c].book.counted
                        THEN With(candidatePool, c, book.counted) ELSE candidatePool

\* what is left of a delegator's record when its delegation to c is gone
Remaining(d, c) ==
    LET state == delegatorState[d]
        asked == IF HasRequest(d, c) THEN requests[<<c, d>>].amount ELSE 0
    IN  [delegations |-> Minus(state.delegations, {c}),
         total |-> Monus(state.total, state.delegations[c]),
         lessTotal |-> Monus(state.lessTotal, asked)]

\* a delegator's record with its delegation to c changed, or begun, by delta
Grown(state, c, delta) ==
    LET before == IF c \in DOMAIN state.delegations THEN state.delegations[c] ELSE 0
    IN  [state EXCEPT !.delegations = With(@, c, before + delta), !.total = @ + delta]

NoDelegations == [delegations |-> <<>>, total |-> 0, lessTotal |-> 0]

OnlyDelegation(d) == Cardinality(DOMAIN delegatorState[d].delegations) = 1

\* the delegators' records and locks after those of the set lost their delegation to c
StatesWithout(c, losers, left) ==
    [d \in Delegators \ left |->
        IF d \in losers THEN Remaining(d, c) ELSE delegatorState[d]]

LocksWithout_onlyRemaining(c, losers) ==
    [d \in DelegatorAccounts |->
        IF d \in losers /\ ~OnlyDelegation(d) THEN Remaining(d, c).total ELSE delegatorLock[d]]

LocksWithout(c, losers) ==
    [d \in DelegatorAccounts |->
        IF d \in losers THEN Remaining(d, c).total ELSE delegatorLock[d]]

RequestsWithout_keepsThem(c, losers) == requests

RequestsWithout(c, losers) == Minus(requests, {c} \X losers)

CompoundsWithout(c, losers) == Minus(autoCompound, {c} \X losers)

-----------------------------------------------------------------------------
(* Candidates.                                                             *)

MayJoin(c) == c \notin Candidates /\ c \notin Delegators

JoinCandidatesInner(c, bond) ==
    /\ MayJoin(c)
    /\ Cardinality(DOMAIN candidatePool) < MaxCandidates
    /\ CollatorStakable(c) >= bond
    /\ candidateInfo' = With(candidateInfo, c,
          [book |-> NewBook(bond), status |-> "active", leaveAt |-> 0, request |-> {}])
    /\ candidatePool' = With(candidatePool, c, bond)
    /\ collatorLock' = [collatorLock EXCEPT ![c] = bond]
    /\ totalStaked' = totalStaked + bond
    /\ UNCHANGED <<round, delegationVars, delegatorLock, balance>>

JoinCandidates(c, bond) == bond >= MinCandidateStk /\ JoinCandidatesInner(c, bond)

\* governance may add a candidate with any bond
ForceJoinCandidates(c, bond) == JoinCandidatesInner(c, bond)

ScheduleLeaveCandidates(c) ==
    /\ c \in Candidates /\ ~IsLeaving(c)
    /\ candidateInfo' = [candidateInfo EXCEPT ![c].status = "leaving",
                                              ![c].leaveAt = round + LeaveCandidatesDelay]
    /\ candidatePool' = Minus(candidatePool, {c})
    /\ UNCHANGED <<round, delegationVars, totalStaked, lockVars>>

DueToLeave(c) == IsLeaving(c) /\ candidateInfo[c].leaveAt <= round

ReturnedTo_topOnly(book) == Owners(book.top)

ReturnedTo(book) == Owners(book.top) \cup Owners(book.bottom)

\* anyone may call it; every delegation is returned, whatever was asked for it
ExecuteLeaveCandidates(c) ==
    /\ c \in Candidates /\ DueToLeave(c)
    /\ LET book == candidateInfo[c].book
           losers == ReturnedTo(book)
           left == {d \in losers : Remaining(d, c).total = 0}
       IN  /\ delegatorState' = StatesWithout(c, losers, left)
           /\ delegatorLock' = LocksWithout(c, losers)
           /\ totalStaked' = Monus(totalStaked, book.bond + book.top.total + book.bottom.total)
    /\ requests' = RequestsWithout(c, DelegatorAccounts)
    /\ autoCompound' = CompoundsWithout(c, DelegatorAccounts)
    /\ candidateInfo' = Minus(candidateInfo, {c})
    /\ collatorLock' = [collatorLock EXCEPT ![c] = 0]
    /\ UNCHANGED <<round, candidatePool, balance>>

\* Back into the pool, if the pool has room.
GoOnlineInner(c) ==
    /\ Cardinality(DOMAIN candidatePool) < MaxCandidates
    /\ c \notin DOMAIN candidatePool
    /\ candidateInfo' = [candidateInfo EXCEPT ![c].status = "active", ![c].leaveAt = 0]
    /\ candidatePool' = With(candidatePool, c, candidateInfo[c].book.counted)
    /\ UNCHANGED <<round, delegationVars, totalStaked, lockVars>>

CancelLeaveCandidates(c) == c \in Candidates /\ IsLeaving(c) /\ GoOnlineInner(c)

GoOnline(c) == c \in Candidates /\ ~IsActive(c) /\ ~IsLeaving(c) /\ GoOnlineInner(c)

GoOffline(c) ==
    /\ c \in Candidates /\ IsActive(c)
    /\ candidateInfo' = [candidateInfo EXCEPT ![c].status = "idle"]
    /\ candidatePool' = Minus(candidatePool, {c})
    /\ UNCHANGED <<round, delegationVars, totalStaked, lockVars>>

\* the self bond changes by delta
Rebond(c, delta, request) ==
    LET info == candidateInfo[c]
        book == [info.book EXCEPT !.bond = @ + delta, !.counted = @ + delta]
    IN  /\ candidateInfo' = [candidateInfo EXCEPT ![c].book = book, ![c].request = request]
        /\ candidatePool' = IF IsActive(c) THEN With(candidatePool, c, book.counted)
                                           ELSE candidatePool
        /\ collatorLock' = [collatorLock EXCEPT ![c] = book.bond]
        /\ totalStaked' = Monus(totalStaked, 0 - delta)
        /\ UNCHANGED <<round, delegationVars, delegatorLock, balance>>

CandidateBondMore(c, more) ==
    /\ c \in Candidates
    /\ CollatorStakable(c) >= more
    /\ Rebond(c, more, candidateInfo[c].request)

ScheduleCandidateBondLess(c, less) ==
    /\ c \in Candidates /\ candidateInfo[c].request = {}
    /\ candidateInfo[c].book.bond > less
    /\ candidateInfo[c].book.bond - less >= MinCandidateStk
    /\ candidateInfo' = [candidateInfo EXCEPT ![c].request =
          {[amount |-> less, when |-> round + CandidateBondLessDelay]}]
    /\ UNCHANGED <<round, candidatePool, delegationVars, totalStaked, lockVars>>

ExecuteCandidateBondLess_keepsRequest(c) ==
    /\ c \in Candidates
    /\ \E request \in candidateInfo[c].request :
          request.when <= round /\ Rebond(c, 0 - request.amount, {request})

ExecuteCandidateBondLess(c) ==
    /\ c \in Candidates
    /\ \E request \in candidateInfo[c].request :
          request.when <= round /\ Rebond(c, 0 - request.amount, {})

CancelCandidateBondLess(c) ==
    /\ c \in Candidates /\ candidateInfo[c].request # {}
    /\ candidateInfo' = [candidateInfo EXCEPT ![c].request = {}]
    /\ UNCHANGED <<round, candidatePool, delegationVars, totalStaked, lockVars>>

-----------------------------------------------------------------------------
(* Delegations.                                                            *)

\* A new delegation may push the lowest of a full bottom list out: its owner
\* loses the delegation with its request and its compounding, and is a delegator
\* no more when it was the only one. The status of the candidate does not matter.
Delegate(d, c, amount, percent) ==
    /\ c \in Candidates /\ ~Delegates(d, c)
    /\ amount >= MinDelegation /\ DelegatorStakable(d) >= amount
    /\ IF d \in Delegators
       THEN Cardinality(DOMAIN delegatorState[d].delegations) < MaxDelegationsPerDelegator
       ELSE d \notin Candidates
    /\ Accepts(candidateInfo[c].book, [owner |-> d, amount |-> amount])
    /\ LET book == candidateInfo[c].book
           own == IF d \in Delegators THEN delegatorState[d] ELSE NoDelegations
           kicked == Kicked(book)
       IN  /\ StoreBook(c, AddDelegation(book, [owner |-> d, amount |-> amount]))
           /\ delegatorState' =
                 With(StatesWithout(c, kicked, {k \in kicked : OnlyDelegation(k)}),
                      d, Grown(own, c, amount))
           /\ delegatorLock' = [LocksWithout(c, kicked) EXCEPT ![d] = own.total + amount]
           /\ requests' = RequestsWithout(c, kicked)
           /\ autoCompound' = IF percent = 0 THEN CompoundsWithout(c, kicked)
                              ELSE With(CompoundsWithout(c, kicked), <<c, d>>, percent)
           /\ totalStaked' = totalStaked + Monus(amount, LessTotalStaked(book))
    /\ UNCHANGED <<round, collatorLock, balance>>

\* What a bond-more writes once it is known to succeed.
BondMore(d, c, more) ==
    LET state == delegatorState[d]
    IN  /\ StoreBook(c, IncreaseDelegation(candidateInfo[c].book, d, state.delegations[c], more))
        /\ delegatorState' = [delegatorState EXCEPT ![d] = Grown(state, c, more)]
        /\ totalStaked' = totalStaked + more

FoundInBook(d, c) ==
    c \in Candidates /\ CanChange(candidateInfo[c].book, d, delegatorState[d].delegations[c])

DelegatorBondMore(d, c, more) ==
    /\ Delegates(d, c) /\ ~RevokePending(d, c)
    /\ DelegatorStakable(d) >= more
    /\ FoundInBook(d, c)
    /\ BondMore(d, c, more)
    /\ delegatorLock' = [delegatorLock EXCEPT ![d] = delegatorState[d].total + more]
    /\ UNCHANGED <<round, requests, autoCompound, collatorLock, balance>>

CompoundAmount(percent, amount) == (percent * amount + 99) \div 100

CompoundBlocked(d, c) == ~Delegates(d, c) \/ RevokePending(d, c)

\* A reward is minted, then part of it delegated. The percentage is the one of
\* the snapshot of the round paid for, so it need not be the stored one. Nothing
\* undoes the lock if the candidate's book then refuses the larger delegation.
MintAndCompound(d, c, amount, percent) ==
    LET more == CompoundAmount(percent, amount)
        stops == \/ more = 0 \/ CompoundBlocked(d, c)
                 \/ Monus(balance[d] + amount, delegatorState[d].total) < more
    IN  /\ balance[d] + amount <= MaxBalance
        /\ balance' = [balance EXCEPT ![d] = @ + amount]
        /\ delegatorLock' = IF stops THEN delegatorLock
                            ELSE [delegatorLock EXCEPT ![d] = delegatorState[d].total + more]
        /\ IF stops \/ ~FoundInBook(d, c)
           THEN UNCHANGED <<candidateInfo, candidatePool, delegatorState, totalStaked>>
           ELSE BondMore(d, c, more)
        /\ UNCHANGED <<round, requests, autoCompound, collatorLock>>

SetAutoCompound(d, c, percent) ==
    /\ Delegates(d, c)
    /\ autoCompound' = IF percent = 0 THEN Minus(autoCompound, {<<c, d>>})
                                      ELSE With(autoCompound, <<c, d>>, percent)
    /\ UNCHANGED <<round, candidateInfo, candidatePool, delegatorState, requests,
                   totalStaked, lockVars>>

-----------------------------------------------------------------------------
(* Requests.                                                               *)

\* the list of requests of a candidate is as long as both its lists
RoomForRequest(c) ==
    Cardinality({p \in DOMAIN requests : p[1] = c}) < MaxTop + MaxBottom

Schedule(d, c, action, amount, delay) ==
    /\ requests' = With(requests, <<c, d>>,
          [action |-> action, amount |-> amount, when |-> round + delay])
    /\ delegatorState' = [delegatorState EXCEPT ![d].lessTotal = @ + amount]
    /\ UNCHANGED <<round, candidateInfo, candidatePool, autoCompound, totalStaked, lockVars>>

ScheduleRevoke(d, c) ==
    /\ Delegates(d, c) /\ ~HasRequest(d, c) /\ RoomForRequest(c)
    /\ Schedule(d, c, "revoke", delegatorState[d].delegations[c], RevokeDelegationDelay)

LeavesEnough_inTotal(d, c, less) ==
    less <= Monus(Monus(delegatorState[d].total, delegatorState[d].lessTotal), MinDelegation)

\* what stays of this delegation, and of all of them when every request is executed
LeavesEnough(d, c, less) ==
    LET state == delegatorState[d]
    IN  /\ state.delegations[c] > less
        /\ state.delegations[c] - less >= MinDelegation
        /\ less <= Monus(Monus(state.total, state.lessTotal), MinDelegation)

ScheduleBondDecrease(d, c, less) ==
    /\ Delegates(d, c) /\ ~HasRequest(d, c) /\ RoomForRequest(c)
    /\ LeavesEnough(d, c, less)
    /\ Schedule(d, c, "decrease", less, DelegationBondLessDelay)

CancelRequest(d, c) ==
    /\ d \in Delegators /\ HasRequest(d, c)
    /\ requests' = Minus(requests, {<<c, d>>})
    /\ delegatorState' = [delegatorState EXCEPT
          ![d].lessTotal = Monus(@, requests[<<c, d>>].amount)]
    /\ UNCHANGED <<round, candidateInfo, candidatePool, autoCompound, totalStaked, lockVars>>

IsDue_early(d, c) == TRUE

IsDue(d, c) == requests[<<c, d>>].when <= round

\* Whether a due revocation, or a due decrease, goes through.
RevokeSucceeds(d, c) ==
    LET state == delegatorState[d]
        amount == requests[<<c, d>>].amount
    IN  /\ OnlyDelegation(d) \/ Monus(state.total, MinDelegation) >= amount
        /\ c \in Candidates
        /\ CanRemove(candidateInfo[c].book, d, amount)

DecreaseSucceeds(d, c) ==
    LET state == delegatorState[d]
        amount == requests[<<c, d>>].amount
    IN  /\ Delegates(d, c) /\ state.delegations[c] > amount
        /\ c \in Candidates
        /\ Monus(state.total, amount) >= MinDelegation
        /\ CanChange(candidateInfo[c].book, d, state.delegations[c])

ExecuteRevoke(d, c) ==
    /\ d \in Delegators /\ RevokePending(d, c) /\ IsDue(d, c) /\ RevokeSucceeds(d, c)
    /\ LET amount == requests[<<c, d>>].amount
       IN  /\ StoreBook(c, RemoveDelegation(candidateInfo[c].book, d, amount))
           /\ totalStaked' = Monus(totalStaked, amount)
    /\ delegatorState' = StatesWithout(c, {d}, IF OnlyDelegation(d) THEN {d} ELSE {})
    /\ delegatorLock' = LocksWithout(c, {d})
    /\ requests' = RequestsWithout(c, {d})
    /\ autoCompound' = CompoundsWithout(c, {d})
    /\ UNCHANGED <<round, collatorLock, balance>>

ExecuteDecrease(d, c) ==
    /\ d \in Delegators /\ HasRequest(d, c) /\ requests[<<c, d>>].action = "decrease"
    /\ IsDue(d, c) /\ DecreaseSucceeds(d, c)
    /\ LET state == delegatorState[d]
           amount == requests[<<c, d>>].amount
       IN  /\ StoreBook(c, DecreaseDelegation(candidateInfo[c].book, d,
                                              state.delegations[c], amount))
           /\ delegatorState' = [delegatorState EXCEPT ![d] =
                 [Grown(state, c, 0 - amount) EXCEPT !.lessTotal = Monus(@, amount)]]
           /\ delegatorLock' = [delegatorLock EXCEPT ![d] = Monus(state.total, amount)]
           /\ totalStaked' = Monus(totalStaked, amount)
           /\ LET bottom == candidateInfo'[c].book.bottom
              IN  bottom.total <= SumOf(bottom) + MaxStale
    /\ requests' = Minus(requests, {<<c, d>>})
    /\ UNCHANGED <<round, autoCompound, collatorLock, balance>>

-----------------------------------------------------------------------------

NextRound ==
    /\ round < MaxRound
    /\ round' = round + 1
    /\ UNCHANGED <<candidateInfo, candidatePool, totalStaked, delegationVars, lockVars>>

Init ==
    /\ round = 1
    /\ candidateInfo = <<>> /\ candidatePool = <<>>
    /\ delegatorState = <<>> /\ requests = <<>> /\ autoCompound = <<>>
    /\ totalStaked = 0
    /\ collatorLock = [a \in CandidateAccounts |-> 0]
    /\ delegatorLock = [a \in DelegatorAccounts |-> 0]
    /\ balance = InitialBalance

CandidateCall(c) ==
    \/ \E bond \in Bonds : \/ JoinCandidates(c, bond)
                           \/ ForceJoinCandidates(c, bond)
                           \/ CandidateBondMore(c, bond)
                           \/ ScheduleCandidateBondLess(c, bond)
    \/ ScheduleLeaveCandidates(c)
    \/ ExecuteLeaveCandidates(c)
    \/ CancelLeaveCandidates(c)
    \/ GoOffline(c)
    \/ GoOnline(c)
    \/ ExecuteCandidateBondLess(c)
    \/ CancelCandidateBondLess(c)

DelegatorCall(d, c) ==
    \/ \E amount \in Amounts : \/ \E p \in {0} \cup Percents : Delegate(d, c, amount, p)
                               \/ DelegatorBondMore(d, c, amount)
                               \/ ScheduleBondDecrease(d, c, amount)
    \/ \E p \in {0} \cup Percents : \/ SetAutoCompound(d, c, p)
                                    \/ \E r \in Rewards : MintAndCompound(d, c, r, p)
    \/ ScheduleRevoke(d, c)
    \/ CancelRequest(d, c)
    \/ ExecuteRevoke(d, c)
    \/ ExecuteDecrease(d, c)

Next ==
    \/ NextRound
    \/ \E c \in CandidateAccounts : CandidateCall(c)
    \/ \E d \in DelegatorAccounts, c \in CandidateAccounts : DelegatorCall(d, c)

Spec == Init /\ [][Next]_vars

-----------------------------------------------------------------------------
(* What rewards are computed from: a delegation someone is taking back     *)
(* earns on what will be left of it.                                       *)

TopAmount(c, d) == AmountOf(candidateInfo[c].book.top, d)

Uncounted_wholeDelegation(c, d) == IF HasRequest(d, c) THEN TopAmount(c, d) ELSE 0

Uncounted(c, d) ==
    IF ~HasRequest(d, c) THEN 0
    ELSE IF requests[<<c, d>>].action = "revoke" THEN TopAmount(c, d)
    ELSE requests[<<c, d>>].amount

Rewardable(c, d) ==
    IF ~HasRequest(d, c) THEN TopAmount(c, d)
    ELSE IF requests[<<c, d>>].action = "revoke" THEN 0
    ELSE Monus(TopAmount(c, d), requests[<<c, d>>].amount)

\* What select_top_candidates keeps of a candidate for the payment of the round.
CollatorSnapshot(c) ==
    LET book   == candidateInfo[c].book
        owners == Owners(book.top)
    IN  [bond |-> book.bond,
         delegations |-> [d \in owners |-> Rewardable(c, d)],
         total |-> Monus(book.counted, SumFunction([d \in owners |-> Uncounted(c, d)]))]

-----------------------------------------------------------------------------
(* Properties.                                                             *)

Requests == [action : {"revoke", "decrease"}, amount : Nat, when : Nat]

\* Every variable holds values of its shape.
TypeOK ==
    /\ round \in 1..MaxRound /\ totalStaked \in Nat
    /\ Candidates \subseteq CandidateAccounts /\ Delegators \subseteq DelegatorAccounts
    /\ \A c \in Candidates :
          /\ candidateInfo[c].status \in {"active", "idle", "leaving"}
          /\ candidateInfo[c].leaveAt \in Nat
          /\ \A r \in candidateInfo[c].request : r.amount \in Nat /\ r.when \in Nat
    /\ \A c \in DOMAIN candidatePool : c \in CandidateAccounts /\ candidatePool[c] \in Nat
    /\ \A d \in Delegators : delegatorState[d].total \in Nat /\ delegatorState[d].lessTotal \in Nat
    /\ \A p \in DOMAIN requests : p \in Pairs /\ requests[p] \in Requests
    /\ \A p \in DOMAIN autoCompound : p \in Pairs /\ autoCompound[p] \in 1..100
    /\ collatorLock \in [CandidateAccounts -> Nat]
    /\ delegatorLock \in [DelegatorAccounts -> Nat]
    /\ balance \in [Accounts -> Nat]

\* Whatever bumps, promotions, kicks, increases and decreases have happened, the two
\* lists of a candidate stay sorted, disjoint and divided at the right amount.
BooksOrdered == \A c \in Candidates : BookOrdered(candidateInfo[c].book)

\* Wherever the binary search of insert_sorted_greatest_to_least stops among equal
\* amounts of a list that calls can produce, the delegation lands behind all of them.
SearchAgrees ==
    \A c \in Candidates, d \in DelegatorAccounts, amount \in Amounts :
        LET book == candidateInfo[c].book
            all == book.top.delegations \o book.bottom.delegations
            new == [owner |-> d, amount |-> amount]
        IN  \A found \in SearchResults(all, new) :
                InsertSearched(all, new, found) = InsertSorted(all, new)

\* The copies of list data in the candidate's metadata, on which later calls decide
\* which list to touch, never go stale.
BookMetadataExact == \A c \in Candidates : MetadataExact(candidateInfo[c].book)

\* A candidate's book is in order wherever a call decides on it.
BooksExact == BooksOrdered /\ BookMetadataExact /\ SearchAgrees

\* The candidates' books and the delegators' records tell the same story: the expects of
\* add_bottom_delegation and execute_leave_candidates that rely on it cannot fail.
BothSidesAgree ==
    /\ \A d \in Delegators, c \in CandidateAccounts : Delegates(d, c) =>
          /\ c \in Candidates
          /\ LET book == candidateInfo[c].book
             IN  \E list \in {book.top, book.bottom} :
                    /\ d \in Owners(list)
                    /\ AmountOf(list, d) = delegatorState[d].delegations[c]
    /\ \A c \in Candidates : \A d \in ReturnedTo(candidateInfo[c].book) : Delegates(d, c)
    /\ \A d \in Delegators : LET state == delegatorState[d] IN
          /\ state.delegations # <<>>
          /\ state.total = SumFunction(state.delegations)

\* What a candidate has locked is its self bond, and nothing once it has left.
SelfBondsLocked ==
    \A c \in CandidateAccounts :
        collatorLock[c] = IF c \in Candidates THEN candidateInfo[c].book.bond ELSE 0

\* What is locked is what is staked, after every kick, departure and failed compounding,
\* and never more than the account has.
LocksExact ==
    /\ SelfBondsLocked
    /\ \A d \in DelegatorAccounts : delegatorLock[d] =
          IF d \in Delegators THEN delegatorState[d].total ELSE 0
    /\ \A c \in CandidateAccounts : collatorLock[c] <= balance[c]
    /\ \A d \in DelegatorAccounts : delegatorLock[d] <= balance[d]

\* No auto-compounding entry outlives its delegation, so none is inherited by a later one.
CompoundsLive == \A p \in DOMAIN autoCompound : Delegates(p[2], p[1])

\* Nothing of a delegation that ended, by whatever way, is left to bind its owner or to
\* be inherited: neither a lock nor an auto-compounding entry.
NothingOutlives == LocksExact /\ CompoundsLive

\* No request outlives its delegation; a revocation is for all of it, a decrease leaves
\* the minimum; and a delegator's lessTotal is what its requests will take.
RequestsLive ==
    /\ \A c \in CandidateAccounts, d \in DelegatorAccounts : HasRequest(d, c) =>
          /\ Delegates(d, c)
          /\ IF RevokePending(d, c)
             THEN requests[<<c, d>>].amount = delegatorState[d].delegations[c]
             ELSE requests[<<c, d>>].amount + MinDelegation <= delegatorState[d].delegations[c]
    /\ \A d \in Delegators : delegatorState[d].lessTotal =
          SumFunction([p \in {q \in DOMAIN requests : q[2] = d} |-> requests[p].amount])

\* A request that is due can always be executed: no later call on either side leaves a
\* delegator unable to get the stake back.
DueRequestsSucceed ==
    \A c \in CandidateAccounts, d \in DelegatorAccounts :
        HasRequest(d, c) /\ IsDue(d, c) =>
            IF RevokePending(d, c) THEN RevokeSucceeds(d, c) ELSE DecreaseSucceeds(d, c)

\* What a snapshot counts for a candidate is its bond and what its delegations earn on.
RewardableExact ==
    \A c \in Candidates :
        LET owners == Owners(candidateInfo[c].book.top)
        IN  candidateInfo[c].book.counted - SumFunction([d \in owners |-> Uncounted(c, d)])
              = candidateInfo[c].book.bond + SumFunction([d \in owners |-> Rewardable(c, d)])

\* The pool from which collators are chosen holds the active candidates, with what their
\* books count for them.
PoolFollowsBooks ==
    /\ DOMAIN candidatePool = {c \in Candidates : IsActive(c)}
    /\ \A c \in DOMAIN candidatePool : candidatePool[c] = candidateInfo[c].book.counted

\* The pool follows the books; and what a book counts, less what is being withdrawn, is
\* what a snapshot rewards.
PoolExact == PoolFollowsBooks /\ RewardableExact

AllLocked == SumFunction(collatorLock) + SumFunction(delegatorLock)

\* The total never claims more than is locked.
TotalNotOverstated == totalStaked <= AllLocked

\* The total is what is locked, as the comment of the storage item says.
TotalExact == totalStaked = AllLocked

\* Whatever is being withdrawn of a book and however the shares are rounded, a
\* collator and its delegators together are paid what is due to them, within half a
\* unit and a part in Accuracy for each of them; commission is paid in full even if
\* nothing is left to share; who has more in the book is not paid less; and a
\* delegation that is being revoked earns nothing. Nothing is shared when nothing counts:
\* a candidate forced in without a bond whose delegations are all being revoked.
RewardsShared ==
    \A c \in Candidates, payout \in Payouts, pts \in 1 .. 3 :
        LET snapshot == CollatorSnapshot(c)
            owners   == DOMAIN snapshot.delegations
            pct      == FromRational(pts, 3)
            due      == AmountDue(payout, pct, snapshot)
            commission == CommissionOf(payout, pct, snapshot)
            reward(d) == DelegatorReward(payout, pct, snapshot, d)
            paid     == CollatorReward(payout, pct, snapshot) + SumFunction([d \in owners |-> reward(d)])
            parts    == Cardinality(owners) + 1
        IN  /\ 2 * paid <= 2 * MaxOfTwo(Times(pct, payout.reward), commission) + parts
            /\ snapshot.total # 0 \/ Alone(snapshot) =>
                  2 * Accuracy * (paid - commission) >= 2 * Accuracy * due - parts * (2 * due + Accuracy)
            /\ \A d, e \in owners : Rewardable(c, d) <= Rewardable(c, e) => reward(d) <= reward(e)
            /\ \A d \in owners : RevokePending(d, c) => reward(d) = 0

DelegationOf(d, c) == IF Delegates(d, c) THEN delegatorState[d].delegations[c] ELSE 0

\* A new delegation was taken that is larger than d's, the lowest of a full book.
KickedByLarger(d, c) ==
    /\ Kicked(candidateInfo[c].book) = {d}
    /\ \E e \in DelegatorAccounts :
          /\ ~Delegates(e, c) /\ Delegates(e, c)'
          /\ delegatorState'[e].delegations[c] > delegatorState[d].delegations[c]

\* A delegation ends, or shrinks, in three ways: its own request is due, its candidate
\* leaves after the delay, or a larger delegation takes the place of the lowest.
DelegationsEndRightly ==
    [][\A c \in CandidateAccounts, d \in DelegatorAccounts :
          DelegationOf(d, c)' < DelegationOf(d, c) =>
              \/ HasRequest(d, c) /\ requests[<<c, d>>].when <= round
              \/ c \notin Candidates' /\ candidateInfo[c].leaveAt <= round
              \/ ~Delegates(d, c)' /\ KickedByLarger(d, c)]_vars

\* A self bond that shrinks without ending keeps the minimum, whatever was executed before.
SelfBondKeepsMinimum ==
    [][\A c \in Candidates \cap Candidates' :
          LET bond == candidateInfo[c].book.bond
          IN  bond' < bond => bond' >= MinCandidateStk]_vars

-----------------------------------------------------------------------------
(* What the documentation says and the code does not do: no run checks     *)
(* this, TLC finds it violated.                                            *)

\* The order in which a candidate serves two delegations of one amount.
Precedes(book, d, e) ==
    LET all == book.top.delegations \o book.bottom.delegations
    IN  \E i, j \in DOMAIN all :
          i < j /\ all[i].owner = d /\ all[j].owner = e /\ all[i].amount = all[j].amount

\* types.rs: the lowest delegation is kicked "to enforce first come first served".  Of two
\* delegations of the same amount the one that stands first stays first for as long as
\* neither changes (with MaxTop = 1 and MaxBottom = 2 it does not: the delegation bumped from
\* the top stands behind its equals of the bottom).
FirstComeFirstServed ==
    [][\A c \in Candidates \cap Candidates', d, e \in DelegatorAccounts :
          /\ Precedes(candidateInfo[c].book, d, e)
          /\ DelegationOf(d, c)' = DelegationOf(d, c)
          /\ DelegationOf(e, c)' = DelegationOf(e, c)
          => Precedes(candidateInfo'[c].book, d, e)]_vars

=============================================================================
