------------------------------ MODULE Orbiters ------------------------------
(***************************************************************************)
(* The moonbeam-orbiters pallet: collators lend their place to orbiters.   *)
(* At every rotation the next orbiter of each pool gets the right to author*)
(* blocks for the collator, which loses it, and the reward of the rounds   *)
(* until the next rotation.                                                *)
(*                                                                         *)
(* Rounds are those of StakingRounds.  on_new_round is called by the first *)
(* block of a round, and the pallet's own on_initialize runs after it in   *)
(* the same block; the author of a block is looked up after both.          *)
(*                                                                         *)
(* A definition named X_how is X with a plausible mistake in it.           *)
(***************************************************************************)
EXTENDS Integers, Sequences, SequencesExt

CONSTANTS
    Collators,          \* candidates of the staking pallet
    Orbiters,           \* accounts that may register as orbiters
    PoolOrder,          \* the collators in the order storage iterates over them
    MaxPoolSize,        \* orbiters per collator
    RotatePeriod,       \* rounds between rotations
    MaxRoundArchive,    \* rounds OrbiterPerRound is kept
    RewardPaymentDelay, \* of the staking pallet
    Removable,          \* the collators that governance may also remove
    MaxRound            \* bound: last round

ASSUME PoolsAssumption ==
    /\ PoolOrder \in Seq(Collators) /\ ToSet(PoolOrder) = Collators
    /\ IsInjective(PoolOrder)
ASSUME PeriodsAssumption ==
    /\ MaxPoolSize \in Nat
    /\ RotatePeriod \in Nat \ {0} /\ MaxRound \in Nat \ {0}
    /\ RewardPaymentDelay \in Nat \ {0} /\ MaxRoundArchive \in Nat
    /\ RewardPaymentDelay < MaxRoundArchive
    /\ Removable \subseteq Collators

Accounts == Collators \cup Orbiters
\* Removing a pool parts its collator, in mid-round, from an orbiter that is still paid for
\* it; history and what is said of it are about the collators that stay.
Permanent == Collators \ Removable
Shifts == (1..MaxRound) \X Permanent

VARIABLES
    round,            \* the staking pallet's round; CurrentRound from the first change on
    registered,       \* accounts with a deposit (RegisteredOrbiter)
    pools,            \* CollatorsPool
    override,         \* AccountLookupOverride: a collator or, for a replaced one, nobody
    orbiterPerRound,  \* OrbiterPerRound
    authored,         \* history: who produced the blocks credited to a collator in a round
    payee             \* history: who was paid in this round, for an earlier one

vars == <<round, registered, pools, override, orbiterPerRound, authored, payee>>

-----------------------------------------------------------------------------
(* CollatorPoolInfo: the orbiters, the index (from 0) of the next one, and *)
(* the current one, marked once it has been removed.                       *)

NobodyCurrent == {}
EmptyPool == [orbiters |-> <<>>, current |-> NobodyCurrent, next |-> 0]

Lists(pool, o) == o \in ToSet(pool.orbiters)

ContainsOrbiter_list(pool, o) == Lists(pool, o)

ContainsOrbiter(pool, o) == Lists(pool, o) \/ \E cur \in pool.current : cur.account = o

AddOrbiter_beforeNext(pool, o) ==
    LET at == IF pool.next > Len(pool.orbiters) THEN 0 ELSE pool.next
    IN  [pool EXCEPT !.orbiters = InsertAt(@, at + 1, o), !.next = at]

\* The newcomer takes the place just passed: everyone else comes first.
AddOrbiter(pool, o) ==
    LET at == IF pool.next > Len(pool.orbiters) THEN 0 ELSE pool.next
    IN  [pool EXCEPT !.orbiters = InsertAt(@, at + 1, o), !.next = at + 1]

Place(pool, o) == CHOOSE i \in DOMAIN pool.orbiters : pool.orbiters[i] = o

\* The index of the next one stays as it was.
RemoveOrbiter(pool, o) ==
    [pool EXCEPT !.orbiters = RemoveAt(@, Place(pool, o)),
                 !.current = {[cur EXCEPT !.removed = @ \/ cur.account = o] : cur \in @}]

NextIndex(pool) == IF pool.next >= Len(pool.orbiters) THEN 0 ELSE pool.next

NextOrbiter(pool) == pool.orbiters[NextIndex(pool) + 1]

\* An empty pool keeps the current orbiter it had.
RotateOrbiter(pool) ==
    IF pool.orbiters = <<>> THEN [pool EXCEPT !.next = 0]
    ELSE [pool EXCEPT !.current = {[account |-> NextOrbiter(pool), removed |-> FALSE]},
                      !.next = NextIndex(pool) + 1]

-----------------------------------------------------------------------------
(* Calls                                                                   *)

Without(f, S) == [x \in DOMAIN f \ S |-> f[x]]

\* new where it is defined, and old elsewhere
Over(new, old) ==
    [x \in DOMAIN new \cup DOMAIN old |-> IF x \in DOMAIN new THEN new[x] ELSE old[x]]

JoinsPool(c, o) ==
    Len(pools[c].orbiters) < MaxPoolSize /\ ~Lists(pools[c], o) /\ o \in registered

CollatorAddOrbiter(c, o) ==
    /\ c \in DOMAIN pools
    /\ JoinsPool(c, o)
    /\ pools' = [pools EXCEPT ![c] = AddOrbiter(@, o)]
    /\ UNCHANGED <<round, registered, override, orbiterPerRound, authored, payee>>

\* collator_remove_orbiter and orbiter_leave_collator_pool
RemoveOrbiterFromPool(c, o) ==
    /\ c \in DOMAIN pools
    /\ Lists(pools[c], o)
    /\ pools' = [pools EXCEPT ![c] = RemoveOrbiter(@, o)]
    /\ UNCHANGED <<round, registered, override, orbiterPerRound, authored, payee>>

OrbiterRegister(o) ==
    /\ registered' = registered \cup {o}
    /\ UNCHANGED <<round, pools, override, orbiterPerRound, authored, payee>>

InNoPool(o) == \A c \in DOMAIN pools : ~ContainsOrbiter(pools[c], o)

OrbiterUnregister(o) ==
    /\ InNoPool(o)
    /\ registered' = registered \ {o}
    /\ UNCHANGED <<round, pools, override, orbiterPerRound, authored, payee>>

AddCollator(c) ==
    /\ c \notin DOMAIN pools
    /\ pools' = Over([d \in {c} |-> EmptyPool], pools)
    /\ UNCHANGED <<round, registered, override, orbiterPerRound, authored, payee>>

LookupsOfPool(c) == ToSet(pools[c].orbiters) \cup {c}

RemoveCollator(c) ==
    /\ c \in Removable
    /\ c \in DOMAIN pools
    /\ pools' = Without(pools, {c})
    /\ override' = Without(override, LookupsOfPool(c))
    /\ UNCHANGED <<round, registered, orbiterPerRound, authored, payee>>

-----------------------------------------------------------------------------
(* Rounds                                                                  *)

OldOrbiter(pool) == {cur.account : cur \in pool.current}

\* The collator is looked up as nobody, and then its orbiter as the collator.
StandsIn(c, next) == Over([o \in next |-> {c}], [d \in {c} |-> {}])

LookupsAfter_keepsLock(c, next, old, lookups) ==
    IF next = {} THEN Without(lookups, old)
    ELSE Over(StandsIn(c, next), Without(lookups, old))

LookupsAfter_oldLast(c, next, old, lookups) ==
    Without(IF next = {} THEN Without(lookups, {c})
            ELSE Over(StandsIn(c, next), lookups), old)

LookupsAfter_keepsOld(c, next, old, lookups) ==
    IF next = {} THEN Without(lookups, {c})
    ELSE Over(StandsIn(c, next), lookups)

\* The old orbiter loses its override before the next one gets its own.
LookupsAfter(c, next, old, lookups) ==
    IF next = {} THEN Without(lookups, old \cup {c})
    ELSE Over(StandsIn(c, next), Without(lookups, old))

Period(r) == r..(r + RotatePeriod - 1)

\* one pool of on_rotate; st is what the pools before it in the iteration left
RotatePool(r, st, c) ==
    IF c \notin DOMAIN st.pools THEN st
    ELSE LET pool == RotateOrbiter(st.pools[c])
             next == IF pool.orbiters = <<>> THEN {} ELSE OldOrbiter(pool)
         IN  [pools |-> [st.pools EXCEPT ![c] = pool],
              override |-> LookupsAfter(c, next, OldOrbiter(st.pools[c]), st.override),
              orbiterPerRound |->
                  Over([s \in Period(r) \X (IF next = {} THEN {} ELSE {c}) |->
                           CHOOSE o \in next : TRUE], st.orbiterPerRound)]

Storage == [pools |-> pools, override |-> override, orbiterPerRound |-> orbiterPerRound]

\* what the first n pools of the iteration leave, for each n
Rotated(r) ==
    LET after[n \in 0..Len(PoolOrder)] ==
            IF n = 0 THEN Storage ELSE RotatePool(r, after[n - 1], PoolOrder[n])
    IN  after

OnRotate(r) == Rotated(r)[Len(PoolOrder)]

IsRotation(r) == r % RotatePeriod = 0

OnNewRound(r) == IF IsRotation(r) THEN OnRotate(r) ELSE Storage

\* on_initialize clears the one round that leaves the archive
Archived(r, perRound) ==
    Without(perRound, {s \in DOMAIN perRound : s[1] = r - MaxRoundArchive})

\* rounds that were paid for are forgotten
Recent(r, history) ==
    [s \in Shifts |-> IF s[1] < r - RewardPaymentDelay THEN {} ELSE history[s]]

NewRound ==
    /\ round < MaxRound
    /\ round' = round + 1
    /\ LET st == OnNewRound(round')
       IN  /\ pools' = st.pools
           /\ override' = st.override
           /\ orbiterPerRound' = Archived(round', st.orbiterPerRound)
    /\ authored' = Recent(round', authored) /\ payee' = [s \in {} |-> 0]
    /\ UNCHANGED registered

\* whom the blocks of an account are credited to
LookupAccount(a) == IF a \in DOMAIN override THEN override[a] ELSE {a}

\* whom the API can_author, called on the last block of a round, takes for eligible:
\* the selected collators (here all of them), found without the overrides
PredictedAuthors == Collators

\* a block by account a, credited to collator c
Author(a, c) ==
    /\ c \in LookupAccount(a)
    /\ authored' = [s \in Shifts |->
                        IF s = <<round, c>> THEN authored[s] \cup {a} ELSE authored[s]]
    /\ UNCHANGED <<round, registered, pools, override, orbiterPerRound, payee>>

PaidFor == round - RewardPaymentDelay

\* PayoutCollatorOrOrbiterReward of the runtime, with distribute_rewards
PayCollator(c) ==
    LET s == <<PaidFor, c>>
        stoodIn == s \in DOMAIN orbiterPerRound
    IN  /\ s \in Shifts /\ authored[s] # {}
        /\ s \notin DOMAIN payee
        /\ payee' = Over([t \in {s} |-> IF stoodIn THEN orbiterPerRound[s] ELSE c], payee)
        /\ orbiterPerRound' = Without(orbiterPerRound, {s})
        /\ UNCHANGED <<round, registered, pools, override, authored>>

Init ==
    /\ round = 1
    /\ registered = {}
    /\ pools = <<>> /\ override = <<>> /\ orbiterPerRound = <<>>
    /\ authored = [s \in Shifts |-> {}]
    /\ payee = <<>>

Next ==
    \/ NewRound
    \/ \E o \in Orbiters : OrbiterRegister(o) \/ OrbiterUnregister(o)
    \/ \E c \in Collators :
        \/ AddCollator(c) \/ RemoveCollator(c) \/ PayCollator(c)
        \/ \E a \in Accounts : Author(a, c)
        \/ \E o \in Orbiters : CollatorAddOrbiter(c, o) \/ RemoveOrbiterFromPool(c, o)

Spec == Init /\ [][Next]_vars

-----------------------------------------------------------------------------
(* Properties                                                              *)

\* A pool has at most MaxPoolSize orbiters, none twice, and at most one current one,
\* which is listed unless it has been removed.
PoolOK(pool) ==
    /\ pool \in [orbiters : Seq(Orbiters), next : 0..MaxPoolSize,
                 current : SUBSET [account : Orbiters, removed : BOOLEAN]]
    /\ Len(pool.orbiters) <= MaxPoolSize
    /\ IsInjective(pool.orbiters)
    /\ \A cur \in pool.current :
        pool.current = {cur} /\ (cur.removed \/ Lists(pool, cur.account))

\* No storage item is ever malformed (types.rs add_orbiter, remove_orbiter,
\* rotate_orbiter and what lib.rs inserts).
TypeOK ==
    /\ round \in 1..MaxRound
    /\ registered \subseteq Orbiters
    /\ DOMAIN pools \subseteq Collators
    /\ \A c \in DOMAIN pools : PoolOK(pools[c])
    /\ DOMAIN override \subseteq Accounts
    /\ \A a \in DOMAIN override : override[a] \in SUBSET Collators
    /\ DOMAIN orbiterPerRound \subseteq Nat \X Collators
    /\ authored \in [Shifts -> SUBSET Accounts]
    /\ DOMAIN payee \subseteq Shifts

\* Whoever authors for a collator that stays is, today, the orbiter its reward of this round
\* goes to: a rotation moves the lookup and the reward together, on_new_round
\* without a rotation leaves no hole, and pools do not mix each other's up.
AuthorIsPaid ==
    \A a \in Orbiters \cap DOMAIN override : \A c \in override[a] \cap Permanent :
        /\ <<round, c>> \in DOMAIN orbiterPerRound
        /\ orbiterPerRound[<<round, c>>] = a

\* The reward of a round goes to the only author of the blocks it is for, whatever
\* happened to the pool between the round and its payment.
PaidForOwnBlocks == \A s \in DOMAIN payee : authored[s] = {payee[s]}

\* Reward and work stay together, before the payment and by it.
RewardFollowsWork == AuthorIsPaid /\ PaidForOwnBlocks

\* A collator is kept from authoring only while somebody is paid in its place
\* (on_rotate removes its override with the last orbiter, remove_collator too).
LockedOutHasStandIn ==
    \A c \in Collators \cap DOMAIN override :
        override[c] = {} => <<round, c>> \in DOMAIN orbiterPerRound

\* A deposit cannot be taken back while its owner is in a pool or authors blocks
\* (orbiter_unregister looks at the lists and at the current orbiters).
DepositHeld ==
    /\ \A c \in DOMAIN pools : ToSet(pools[c].orbiters) \subseteq registered
    /\ \A a \in Orbiters \cap DOMAIN override :
        override[a] \cap Permanent # {} => a \in registered

\* Whatever calls, rotations and removals leave behind in storage is well formed and
\* backed by deposits.
StorageSound == TypeOK /\ DepositHeld

ListedBy(o) == {c \in DOMAIN pools : Lists(pools[c], o)}
FoundBy(o) == {c \in DOMAIN pools : ContainsOrbiter(pools[c], o)}

\* c is given orbiter o by the rotation
Appoints(c, o) ==
    /\ IsRotation(round')
    /\ c \in DOMAIN pools /\ pools[c].orbiters # <<>>
    /\ pools'[c].current = {[account |-> o, removed |-> FALSE]}

\* o takes over from c: it authors for c, and c for nobody
TakesOver(o, c) ==
    /\ o \in DOMAIN override' /\ override'[o] = {c}
    /\ c \in DOMAIN override' /\ override'[c] = {}

\* An orbiter that no other pool knows takes over from the collator that appoints
\* it, in whatever order on_rotate visits the pools.
SoleOrbiterTakesOver ==
    [][round' # round => \A c \in Collators, o \in Orbiters :
          Appoints(c, o) /\ FoundBy(o) = {c} => TakesOver(o, c)]_vars

\* the pool's orbiters, the next one first
TurnOrder(pool) ==
    LET n == NextIndex(pool)
    IN  SubSeq(pool.orbiters, n + 1, Len(pool.orbiters)) \o SubSeq(pool.orbiters, 1, n)

TurnQueues == [c \in DOMAIN pools |-> TurnOrder(pools[c])]

\* the orbiter recorded for a collator in this round
Serving ==
    [c \in Collators |-> IF <<round, c>> \in DOMAIN orbiterPerRound
                         THEN {orbiterPerRound[<<round, c>>]} ELSE {}]

Turns == INSTANCE OrbiterTurns WITH queue <- TurnQueues, serving <- Serving

\* The pools are the queues of OrbiterTurns, and the orbiter recorded for a round
\* is the one the queue put in the collator's place.
TurnsKept == Turns!TurnsSpec

-----------------------------------------------------------------------------
(* What the pallet says of itself and does not keep.                       *)

\* lib.rs: each orbiter will replace the collator in turn.  An orbiter listed by
\* one pool only takes over from the collator that appoints it.
ListedOrbiterTakesOver ==
    [][round' # round => \A c \in Collators, o \in Orbiters :
          Appoints(c, o) /\ ListedBy(o) = {c} => TakesOver(o, c)]_vars

-----------------------------------------------------------------------------
(* What the documentation says and the code does not do: no run checks     *)
(* these, TLC finds each of them violated.                                 *)

\* lib.rs: each orbiter in turn with the other orbiters.  A rotation does not
\* appoint the same orbiter again while another one is listed.
NobodyTwiceInTurn ==
    [][round' # round => \A c \in Collators, o \in Orbiters :
          /\ Appoints(c, o)
          /\ pools[c].current = {[account |-> o, removed |-> FALSE]}
          => pools[c].orbiters = <<o>>]_vars

\* apis.rs: the runtime API computes the selection "to accurately predict the
\* authors" of the first block of a round.  The accounts it accepts are those that
\* author for a collator once the round has begun and the pools have rotated.
PredictionFollowsRotation ==
    [][round' # round => PredictedAuthors = {a \in Accounts : LookupAccount(a)' \cap Collators # {}}]_vars

\* lib.rs: a deposit is kept only from an orbiter that is still in a pool.  One
\* that no pool lists and that authors for nobody may take it back.
DepositReturnable ==
    \A o \in registered : ListedBy(o) = {} /\ o \notin DOMAIN override => InNoPool(o)
=============================================================================
