------------------------ MODULE XcmExecution_proofs ------------------------
(***************************************************************************)
(* What every sequence of messages, calls and transfers does to the assets *)
(* of the chain, for any accounts, siblings, assets, prices and amounts.   *)
(*                                                                         *)
(* First the foreign assets: states that are Sound stay so, and an         *)
(* operation on one asset changes what is held of it by its amount         *)
(* (Gains).  Then the operations of the executor, which are folds over     *)
(* the assets of a bundle: what each step keeps, all steps keep, and the   *)
(* amounts follow asset by asset.  Last the messages: XInv describes the   *)
(* state between any two instructions, and the totals are conserved.       *)
(***************************************************************************)
EXTENDS XcmExecution, Sums_proofs, SequenceTheorems

-----------------------------------------------------------------------------
(* Foreign assets: sound states                                            *)

Contracts == [paused : BOOLEAN, balances : [Accounts -> Nat]]

\* The two maps and the contracts agree on every asset.
Agree(byId, byLocation, contracts) ==
    /\ byId \in [DOMAIN byId -> Locations]
    /\ byLocation \in [DOMAIN byLocation -> [id : AssetIds, status : AssetStatus]]
    /\ contracts \in [DOMAIN contracts -> Contracts]
    /\ DOMAIN contracts = DOMAIN byId
    /\ \A id \in DOMAIN byId :
           /\ byId[id] \in DOMAIN byLocation
           /\ byLocation[byId[id]].id = id
           /\ contracts[id].paused <=> byLocation[byId[id]].status # "Active"
    /\ \A l \in DOMAIN byLocation :
           byLocation[l].id \in DOMAIN byId /\ byId[byLocation[l].id] = l

Deposits(details) == [id \in DOMAIN details |-> details[id].deposit]
OfAccount(details, x) == {id \in DOMAIN details : details[id].account = x}

\* The deposits on record are reserved.
Ledger(byId, details, native, reserved) ==
    /\ details \in [DOMAIN details -> [account : Accounts, deposit : Nat]]
    /\ DOMAIN details \subseteq DOMAIN byId
    /\ native \in [Accounts -> Nat] /\ reserved \in [Accounts -> Nat]
    /\ \A x \in Accounts :
           reserved[x] = SumFunctionOnSet(Deposits(details), OfAccount(details, x))

State(byId, byLocation, details, contracts, native, reserved) ==
    [assetsById |-> byId, assetsByLocation |-> byLocation, creationDetails |-> details,
     contracts |-> contracts, native |-> native, reserved |-> reserved]

Sound(a) ==
    /\ a = State(a.assetsById, a.assetsByLocation, a.creationDetails, a.contracts,
                 a.native, a.reserved)
    /\ Agree(a.assetsById, a.assetsByLocation, a.contracts)
    /\ Ledger(a.assetsById, a.creationDetails, a.native, a.reserved)

LEMMA SoundFrom ==
    ASSUME NEW B, NEW L, NEW D, NEW C, NEW N, NEW R, Agree(B, L, C), Ledger(B, D, N, R)
    PROVE  Sound(State(B, L, D, C, N, R))
BY DEF Sound, State

LEMMA StateParts ==
    ASSUME NEW B, NEW L, NEW D, NEW C, NEW N, NEW R, NEW b, b = State(B, L, D, C, N, R)
    PROVE  /\ b.assetsById = B /\ b.assetsByLocation = L /\ b.creationDetails = D
           /\ b.contracts = C /\ b.native = N /\ b.reserved = R
BY DEF State

LEMMA AgreeFinite ==
    ASSUME NEW B, NEW L, NEW C, Agree(B, L, C)
    PROVE  /\ DOMAIN B \subseteq AssetIds /\ DOMAIN L \subseteq Locations
           /\ IsFiniteSet(DOMAIN B) /\ IsFiniteSet(DOMAIN L) /\ IsFiniteSet(DOMAIN C)
<1>1. DOMAIN B \subseteq AssetIds /\ DOMAIN L \subseteq Locations /\ DOMAIN C = DOMAIN B
  BY DEF Agree
<1> QED BY <1>1, FS_Subset, ForeignAssetsAssumption

\* Sound states are what the invariants of the model say.
LEMMA SoundIsConsistent ==
    ASSUME NEW a, Sound(a)
    PROVE  MapsAgreeIn(a) /\ FrozenIffPausedIn(a) /\ DepositsReservedIn(a)
<1>a. Agree(a.assetsById, a.assetsByLocation, a.contracts)
      /\ Ledger(a.assetsById, a.creationDetails, a.native, a.reserved)
  BY DEF Sound
<1>1. \A l : l \in DOMAIN a.assetsByLocation <=> \E id \in DOMAIN a.assetsById : l = a.assetsById[id]
  BY <1>a DEF Agree
<1>2. DOMAIN a.assetsByLocation = {a.assetsById[id] : id \in DOMAIN a.assetsById}
  BY <1>1
<1>3. MapsAgreeIn(a)
  BY <1>a, <1>2 DEF MapsAgreeIn, Agree
<1>4. FrozenIffPausedIn(a)
  BY <1>a DEF FrozenIffPausedIn, StatusOf, Agree
<1>5. DepositsReservedIn(a)
  BY <1>a DEF DepositsReservedIn, Ledger, Deposits, OfAccount
<1> QED BY <1>3, <1>4, <1>5

LEMMA ConsistentIsSound ==
    ASSUME NEW a, IsAssetState(a), MapsAgreeIn(a), FrozenIffPausedIn(a), DepositsReservedIn(a)
    PROVE  Sound(a)
<1>1. a = State(a.assetsById, a.assetsByLocation, a.creationDetails, a.contracts,
                a.native, a.reserved)
  BY DEF IsAssetState, State
<1>2. Agree(a.assetsById, a.assetsByLocation, a.contracts)
  BY DEF Agree, IsAssetState, MapsAgreeIn, FrozenIffPausedIn, StatusOf, Contracts
<1>3. Ledger(a.assetsById, a.creationDetails, a.native, a.reserved)
  BY DEF Ledger, IsAssetState, DepositsReservedIn, Deposits, OfAccount
<1> QED BY <1>1, <1>2, <1>3 DEF Sound

-----------------------------------------------------------------------------
(* Foreign assets: operations on what is held                              *)

\* No asset is created, moved, frozen or thawed, and what is frozen stands still.
Steady(a, b) ==
    /\ b.assetsById = a.assetsById /\ b.assetsByLocation = a.assetsByLocation
    /\ b.creationDetails = a.creationDetails /\ b.reserved = a.reserved
    /\ DOMAIN b.contracts = DOMAIN a.contracts
    /\ \A id \in DOMAIN a.contracts :
           /\ b.contracts[id].paused = a.contracts[id].paused
           /\ a.contracts[id].paused => b.contracts[id] = a.contracts[id]

LEMMA SteadyTwice ==
    ASSUME NEW a, NEW b, NEW c, Steady(a, b), Steady(b, c)
    PROVE  Steady(a, c)
BY DEF Steady

LEMMA SteadySelf == ASSUME NEW a PROVE Steady(a, a)
BY DEF Steady

\* What accounts hold of a foreign asset, or of the native currency.
Held(a, x) ==
    IF x = NativeLocation THEN SumFunction(a.native)
    ELSE IF x \in DOMAIN a.assetsByLocation
         THEN SumFunction(a.contracts[a.assetsByLocation[x].id].balances)
         ELSE 0

Kinds == Locations \cup {NativeLocation}

\* The state becomes b, in which n more of x is held.
Gains(a, b, x, n) ==
    /\ Sound(b) /\ Steady(a, b)
    /\ \A y \in Kinds : Held(b, y) = IF y = x THEN Held(a, y) + n ELSE Held(a, y)

LEMMA SumOfNats ==
    ASSUME NEW f \in [Accounts -> Nat]
    PROVE  SumFunction(f) \in Nat
<1>1. SumFunction(f) = SumFunctionOnSet(f, Accounts)
  BY SumIs
<1> QED BY <1>1, SumNat, ForeignAssetsAssumption

\* One balance changed.
LEMMA SumOfOneChanged ==
    ASSUME NEW f \in [Accounts -> Nat], NEW x \in Accounts, NEW n \in Nat
    PROVE  SumFunction([f EXCEPT ![x] = n]) = SumFunction(f) + (n - f[x])
<1> DEFINE g == [f EXCEPT ![x] = n]
<1>1. g \in [Accounts -> Nat] /\ g[x] = n /\ \A y \in Accounts \ {x} : f[y] = g[y]
  OBVIOUS
<1> HIDE DEF g
<1>2. SumFunction(f) = SumFunctionOnSet(f, Accounts) /\ SumFunction(g) = SumFunctionOnSet(g, Accounts)
  <2>1. DOMAIN f = Accounts /\ DOMAIN g = Accounts
    BY <1>1
  <2> QED BY <2>1, SumIs
<1>3. SumShifts(f, g, Accounts, x)
  <2>1. \A y \in Accounts : f[y] \in Int /\ g[y] \in Int
    BY <1>1
  <2> QED BY <1>1, <2>1, SumChanges, ForeignAssetsAssumption
<1>4. SumFunction(f) \in Int /\ f[x] \in Int
  BY SumOfNats
<1>5. SumFunction(g) = SumFunction(f) + (n - f[x])
  BY <1>1, <1>2, <1>3, <1>4 DEF SumShifts
<1> QED BY <1>5 DEF g

LEMMA HeldNat ==
    ASSUME NEW a, Sound(a), NEW x \in Kinds
    PROVE  Held(a, x) \in Nat
<1>1. a.native \in [Accounts -> Nat]
  BY DEF Sound, Ledger
<1>2. ASSUME x \in DOMAIN a.assetsByLocation
      PROVE  a.contracts[a.assetsByLocation[x].id].balances \in [Accounts -> Nat]
  BY <1>2 DEF Sound, Agree, Contracts
<1> QED BY <1>1, <1>2, SumOfNats DEF Held

LEMMA GainsTwice ==
    ASSUME NEW a, NEW b, NEW c, Sound(a), NEW x \in Kinds, NEW n \in Int, NEW m \in Int,
           Gains(a, b, x, n), Gains(b, c, x, m)
    PROVE  Gains(a, c, x, n + m)
<1>1. \A y \in Kinds : Held(a, y) \in Int
  BY HeldNat
<1>2. Sound(c) /\ Steady(a, c)
  BY SteadyTwice DEF Gains
<1>3. \A y \in Kinds : Held(c, y) = IF y = x THEN Held(a, y) + (n + m) ELSE Held(a, y)
  BY <1>1 DEF Gains
<1> QED BY <1>2, <1>3 DEF Gains

LEMMA BalanceGains ==
    ASSUME NEW a, Sound(a), NEW l \in DOMAIN a.assetsByLocation,
           NEW id, id = a.assetsByLocation[l].id, ~a.contracts[id].paused,
           NEW who \in Accounts, NEW n \in Nat,
           NEW b, b = [a EXCEPT !.contracts[id].balances[who] = n]
    PROVE  Gains(a, b, l, n - a.contracts[id].balances[who])
<1> DEFINE v == [a.contracts[id].balances EXCEPT ![who] = n]
           c == [a.contracts[id] EXCEPT !.balances = v]
           C == [a.contracts EXCEPT ![id] = c]
           r == State(a.assetsById, a.assetsByLocation, a.creationDetails, a.contracts,
                      a.native, a.reserved)
<1>a. Agree(a.assetsById, a.assetsByLocation, a.contracts)
      /\ Ledger(a.assetsById, a.creationDetails, a.native, a.reserved)
      /\ a = r
  BY DEF Sound
<1>b. id \in DOMAIN a.contracts /\ id \in DOMAIN a.assetsById /\ a.assetsById[id] = l
      /\ a.contracts[id] \in Contracts /\ a.contracts[id].balances \in [Accounts -> Nat]
      /\ l \in Locations
  BY <1>a DEF Agree, Contracts
<1>1. b = [a EXCEPT !.contracts = C]
  BY Zenon
<1>2. v \in [Accounts -> Nat]
      /\ SumFunction(v) = SumFunction(a.contracts[id].balances) + (n - a.contracts[id].balances[who])
  BY <1>b, SumOfOneChanged
<1> HIDE DEF v
<1>3. c \in Contracts /\ ~c.paused /\ c.balances = v
  BY <1>b, <1>2 DEF Contracts
<1> HIDE DEF c
<1>4. /\ DOMAIN C = DOMAIN a.contracts /\ C[id] = c
      /\ \A x \in DOMAIN C : x # id => C[x] = a.contracts[x]
      /\ C \in [DOMAIN C -> Contracts]
  BY <1>a, <1>b, <1>3 DEF Agree
<1> HIDE DEF C
<1>5. b = State(a.assetsById, a.assetsByLocation, a.creationDetails, C, a.native, a.reserved)
  <2>1. b = [r EXCEPT !.contracts = C]
    BY <1>a, <1>1
  <2> QED BY <2>1 DEF State
<1>6. Agree(a.assetsById, a.assetsByLocation, C)
  BY <1>a, <1>b, <1>3, <1>4 DEF Agree
<1>7. Sound(b)
  BY <1>a, <1>5, <1>6, SoundFrom
<1>8. /\ b.assetsById = a.assetsById /\ b.assetsByLocation = a.assetsByLocation
      /\ b.creationDetails = a.creationDetails /\ b.reserved = a.reserved
      /\ b.contracts = C /\ b.native = a.native
  BY <1>5 DEF State
<1>9. Steady(a, b)
  BY <1>3, <1>4, <1>8 DEF Steady
<1>10. ASSUME NEW y \in Kinds
       PROVE  Held(b, y) = IF y = l THEN Held(a, y) + (n - a.contracts[id].balances[who])
                           ELSE Held(a, y)
  <2>0. l # NativeLocation
    BY <1>b, XcmExecutionAssumption
  <2>1. CASE y = l
    BY <2>0, <2>1, <1>2, <1>3, <1>4, <1>8 DEF Held
  <2>2. CASE y # l /\ y \in DOMAIN a.assetsByLocation
    <3>1. a.assetsByLocation[y].id # id /\ a.assetsByLocation[y].id \in DOMAIN C
      BY <2>2, <1>a, <1>b, <1>4 DEF Agree
    <3> QED BY <2>2, <3>1, <1>4, <1>8 DEF Held
  <2>3. CASE y # l /\ y \notin DOMAIN a.assetsByLocation
    BY <2>3, <1>8 DEF Held
  <2> QED BY <2>1, <2>2, <2>3
<1> QED BY <1>7, <1>9, <1>10 DEF Gains

LEMMA MintGains ==
    ASSUME NEW a, Sound(a), NEW l \in DOMAIN a.assetsByLocation,
           NEW who \in Accounts, NEW amount \in Nat,
           NEW b \in MintInto(a, a.assetsByLocation[l].id, who, amount)
    PROVE  Gains(a, b, l, amount)
<1> DEFINE id == a.assetsByLocation[l].id
           m == a.contracts[id].balances[who]
           n == m + amount
<1>1. m \in Nat
  BY DEF Sound, Agree, Contracts
<1>2. ~a.contracts[id].paused /\ b = [a EXCEPT !.contracts[id].balances[who] = n]
  BY Zenon DEF MintInto
<1>3. n \in Nat /\ n - m = amount
  BY <1>1
<1> HIDE DEF n
<1>4. Gains(a, b, l, n - m)
  BY <1>2, <1>3, BalanceGains
<1> QED BY <1>3, <1>4

LEMMA BurnGains ==
    ASSUME NEW a, Sound(a), NEW l \in DOMAIN a.assetsByLocation,
           NEW who \in Accounts, NEW amount \in Nat,
           NEW b \in BurnFrom(a, a.assetsByLocation[l].id, who, amount)
    PROVE  Gains(a, b, l, 0 - amount)
<1> DEFINE id == a.assetsByLocation[l].id
           m == a.contracts[id].balances[who]
           n == m - amount
<1>1. m \in Nat
  BY DEF Sound, Agree, Contracts
<1>2. ~a.contracts[id].paused /\ m >= amount
      /\ b = [a EXCEPT !.contracts[id].balances[who] = n]
  BY Zenon DEF BurnFrom
<1>3. n \in Nat /\ n - m = 0 - amount
  BY <1>1, <1>2
<1> HIDE DEF n
<1>4. Gains(a, b, l, n - m)
  BY <1>2, <1>3, BalanceGains
<1> QED BY <1>3, <1>4

\* A transfer leaves what is held as it is.
LEMMA TransferGains ==
    ASSUME NEW a, Sound(a), NEW l \in DOMAIN a.assetsByLocation,
           NEW from \in Accounts, NEW to \in Accounts, NEW amount \in Nat,
           NEW b \in TokenTransfer(a, a.assetsByLocation[l].id, from, to, amount)
    PROVE  Gains(a, b, l, 0)
<1> DEFINE id == a.assetsByLocation[l].id
<1>1. PICK x \in BurnFrom(a, id, from, amount) : b \in MintInto(x, id, to, amount)
  BY DEF TokenTransfer
<1>2. Gains(a, x, l, 0 - amount)
  BY <1>1, BurnGains
<1>3. Sound(x) /\ x.assetsByLocation = a.assetsByLocation
  BY <1>2 DEF Gains, Steady
<1>4. Gains(x, b, l, amount)
  BY <1>1, <1>3, MintGains
<1>5. l \in Kinds
  BY DEF Sound, Agree, Kinds
<1>6. Gains(a, b, l, (0 - amount) + amount)
  BY <1>2, <1>4, <1>5, GainsTwice
<1>7. (0 - amount) + amount = 0
  OBVIOUS
<1> QED BY <1>6, <1>7

LEMMA NativeGains ==
    ASSUME NEW a, Sound(a), NEW who \in Accounts, NEW n \in Nat,
           NEW b, b = [a EXCEPT !.native[who] = n]
    PROVE  Gains(a, b, NativeLocation, n - a.native[who])
<1> DEFINE N == [a.native EXCEPT ![who] = n]
           r == State(a.assetsById, a.assetsByLocation, a.creationDetails, a.contracts,
                      a.native, a.reserved)
<1>a. Agree(a.assetsById, a.assetsByLocation, a.contracts)
      /\ Ledger(a.assetsById, a.creationDetails, a.native, a.reserved)
      /\ a = r
  BY DEF Sound
<1>b. a.native \in [Accounts -> Nat]
  BY <1>a DEF Ledger
<1>1. b = [a EXCEPT !.native = N]
  BY Zenon
<1>2. N \in [Accounts -> Nat] /\ SumFunction(N) = SumFunction(a.native) + (n - a.native[who])
  BY <1>b, SumOfOneChanged
<1> HIDE DEF N
<1>3. b = State(a.assetsById, a.assetsByLocation, a.creationDetails, a.contracts, N, a.reserved)
  <2>1. b = [r EXCEPT !.native = N]
    BY <1>a, <1>1
  <2> QED BY <2>1 DEF State
<1>4. Ledger(a.assetsById, a.creationDetails, N, a.reserved)
  BY <1>a, <1>2 DEF Ledger
<1>5. Sound(b)
  BY <1>a, <1>3, <1>4, SoundFrom
<1>6. /\ b.assetsById = a.assetsById /\ b.assetsByLocation = a.assetsByLocation
      /\ b.creationDetails = a.creationDetails /\ b.reserved = a.reserved
      /\ b.contracts = a.contracts /\ b.native = N
  BY <1>3 DEF State
<1>7. Steady(a, b)
  BY <1>6 DEF Steady
<1>8. \A y \in Kinds : Held(b, y) = IF y = NativeLocation
                                   THEN Held(a, y) + (n - a.native[who]) ELSE Held(a, y)
  BY <1>2, <1>6 DEF Held
<1> QED BY <1>5, <1>7, <1>8 DEF Gains

LEMMA PayGains ==
    ASSUME NEW a, Sound(a), NEW who \in Accounts, NEW amount \in Nat, NEW b \in Pay(a, who, amount)
    PROVE  Gains(a, b, NativeLocation, amount)
<1> DEFINE n == a.native[who] + amount
<1>1. a.native[who] \in Nat /\ n \in Nat /\ n - a.native[who] = amount
  BY DEF Sound, Ledger
<1>2. b = [a EXCEPT !.native[who] = n]
  BY DEF Pay
<1> HIDE DEF n
<1>3. Gains(a, b, NativeLocation, n - a.native[who])
  BY <1>1, <1>2, NativeGains
<1> QED BY <1>1, <1>3

LEMMA TakeGains ==
    ASSUME NEW a, Sound(a), NEW who \in Accounts, NEW amount \in Nat, NEW b \in Take(a, who, amount)
    PROVE  Gains(a, b, NativeLocation, 0 - amount)
<1> DEFINE n == a.native[who] - amount
<1>1. a.native[who] >= amount /\ b = [a EXCEPT !.native[who] = n]
  BY Zenon DEF Take
<1>2. a.native[who] \in Nat /\ n \in Nat /\ n - a.native[who] = 0 - amount
  BY <1>1 DEF Sound, Ledger
<1> HIDE DEF n
<1>3. Gains(a, b, NativeLocation, n - a.native[who])
  BY <1>1, <1>2, NativeGains
<1> QED BY <1>2, <1>3

-----------------------------------------------------------------------------
(* Notes of the ERC20 bridge                                               *)

Notes == [who : Accounts, amount : Nat]

LEMMA OwedNat ==
    ASSUME NEW o \in Seq(Notes)
    PROVE  Owed(o) \in Nat
<1> DEFINE f == [i \in DOMAIN o |-> o[i].amount]
<1>1. DOMAIN o = 1 .. Len(o) /\ Len(o) \in Nat /\ \A i \in DOMAIN o : f[i] \in Nat
  <2>1. DOMAIN o = 1 .. Len(o) /\ Len(o) \in Nat /\ \A i \in DOMAIN o : o[i] \in Notes
    OBVIOUS
  <2> QED BY <2>1 DEF Notes
<1>2. IsFiniteSet(DOMAIN o) /\ DOMAIN f = DOMAIN o
  BY <1>1, FS_Interval
<1>3. Owed(o) = SumFunctionOnSet(f, DOMAIN o)
  BY <1>2, SumIs DEF Owed
<1> HIDE DEF f
<1>4. SumFunctionOnSet(f, DOMAIN o) \in Nat
  BY <1>1, <1>2, SumNat
<1> QED BY <1>3, <1>4

LEMMA Slice ==
    ASSUME NEW S, NEW s \in Seq(S), NEW m \in Nat \ {0}, NEW n \in Nat, n <= Len(s), m <= n + 1
    PROVE  /\ SubSeq(s, m, n) \in Seq(S) /\ Len(SubSeq(s, m, n)) = (n + 1) - m
           /\ \A i \in 1 .. (n + 1) - m : SubSeq(s, m, n)[i] = s[(m + i) - 1]
<1>1. \A i \in m .. n : s[i] \in S
  OBVIOUS
<1>2. m \in Int /\ n \in Int
  OBVIOUS
<1>3. /\ SubSeq(s, m, n) \in Seq(S)
      /\ Len(SubSeq(s, m, n)) = IF m <= n THEN n - m + 1 ELSE 0
      /\ \A i \in 1 .. n - m + 1 : SubSeq(s, m, n)[i] = s[m + i - 1]
  BY <1>1, <1>2, SubSeqProperties
<1>4. (IF m <= n THEN n - m + 1 ELSE 0) = (n + 1) - m /\ n - m + 1 = (n + 1) - m
  BY <1>2
<1>5. \A i \in 1 .. (n + 1) - m : m + i - 1 = (m + i) - 1
  BY <1>2
<1> QED BY <1>3, <1>4, <1>5

\* What is owed, as a sum over any numbers that index the amounts.
LEMMA OwedIs ==
    ASSUME NEW o \in Seq(Notes)
    PROVE  /\ IsFiniteSet(1 .. Len(o))
           /\ Owed(o) = SumFunctionOnSet([i \in 1 .. Len(o) |-> o[i].amount], 1 .. Len(o))
<1> DEFINE f == [i \in DOMAIN o |-> o[i].amount]
<1>1. DOMAIN o = 1 .. Len(o) /\ Len(o) \in Nat /\ DOMAIN f = DOMAIN o
  OBVIOUS
<1>2. IsFiniteSet(1 .. Len(o))
  BY <1>1, FS_Interval
<1>3. Owed(o) = SumFunctionOnSet(f, DOMAIN f)
  BY SumIs DEF Owed
<1> QED BY Zenon, <1>1, <1>2, <1>3

LEMMA OwedNothing == Owed(<<>>) = 0
<1> DEFINE f == [i \in DOMAIN <<>> |-> <<>>[i].amount]
<1>1. DOMAIN f = {}
  OBVIOUS
<1>2. Owed(<<>>) = SumFunctionOnSet(f, DOMAIN f)
  BY SumIs DEF Owed
<1> QED BY <1>1, <1>2, SumEmpty

LEMMA OwedSplits ==
    ASSUME NEW o \in Seq(Notes), NEW n \in 0 .. Len(o)
    PROVE  /\ SubSeq(o, 1, n) \in Seq(Notes) /\ SubSeq(o, n + 1, Len(o)) \in Seq(Notes)
           /\ Owed(o) = Owed(SubSeq(o, 1, n)) + Owed(SubSeq(o, n + 1, Len(o)))
<1> DEFINE p == SubSeq(o, 1, n)
           q == SubSeq(o, n + 1, Len(o))
           f == [i \in 1 .. Len(o) |-> o[i].amount]
           fp == [i \in 1 .. Len(p) |-> p[i].amount]
           fq == [i \in 1 .. Len(q) |-> q[i].amount]
           S == 1 .. n
           T == n + 1 .. Len(o)
           h == [i \in 1 .. Len(q) |-> i + n]
<1>0. Len(o) \in Nat /\ n \in Nat /\ n <= Len(o)
  OBVIOUS
<1>1. p \in Seq(Notes) /\ Len(p) = n /\ \A i \in 1 .. n : p[i] = o[i]
  <2>1. Len(p) = (n + 1) - 1 /\ \A i \in 1 .. (n + 1) - 1 : p[i] = o[(1 + i) - 1]
    BY <1>0, Slice
  <2>2. p \in Seq(Notes)
    BY <1>0, Slice
  <2>3. (n + 1) - 1 = n /\ \A i \in 1 .. n : (1 + i) - 1 = i
    BY <1>0
  <2> HIDE DEF p
  <2> QED BY <2>1, <2>2, <2>3
<1>2. q \in Seq(Notes) /\ Len(q) = Len(o) - n /\ \A i \in 1 .. Len(o) - n : q[i] = o[i + n]
  <2>1. PICK m \in Nat \ {0} : m = n + 1 /\ m <= Len(o) + 1
    BY <1>0
  <2>2. /\ SubSeq(o, m, Len(o)) \in Seq(Notes) /\ Len(SubSeq(o, m, Len(o))) = (Len(o) + 1) - m
        /\ \A i \in 1 .. (Len(o) + 1) - m : SubSeq(o, m, Len(o))[i] = o[(m + i) - 1]
    BY <1>0, <2>1, Slice
  <2>3. q = SubSeq(o, m, Len(o))
    BY <2>1
  <2>4. (Len(o) + 1) - m = Len(o) - n /\ \A i \in 1 .. Len(o) - n : (m + i) - 1 = i + n
    BY <1>0, <2>1
  <2> HIDE DEF q
  <2> QED BY <2>2, <2>3, <2>4
<1>3. \A i \in 1 .. Len(o) : f[i] \in Nat
  <2>1. \A i \in 1 .. Len(o) : o[i] \in Notes
    OBVIOUS
  <2> QED BY <2>1 DEF Notes
<1>4. IsFiniteSet(S) /\ IsFiniteSet(T) /\ S \cap T = {} /\ S \cup T = 1 .. Len(o)
  <2>1. S \cap T = {} /\ S \cup T = 1 .. Len(o)
    BY <1>0
  <2>2. 1 \in Int /\ n \in Int /\ n + 1 \in Int /\ Len(o) \in Int
    BY <1>0
  <2> QED BY <2>1, <2>2, FS_Interval
<1>5. SumFunctionOnSet(f, S \cup T) = SumFunctionOnSet(f, S) + SumFunctionOnSet(f, T)
  <2>1. \A i \in S \cup T : f[i] \in Int
    BY <1>3, <1>4
  <2> HIDE DEF f, S, T
  <2> QED BY <1>4, <2>1, SumOfTwo
<1>6. SumFunctionOnSet(fp, S) = SumFunctionOnSet(f, S) /\ 1 .. Len(p) = S
  <2>1. \A i \in S : fp[i] \in Int /\ fp[i] = f[i]
    BY <1>0, <1>1, <1>3
  <2>2. 1 .. Len(p) = S
    BY <1>1
  <2> HIDE DEF f, fp, S, p
  <2> QED BY <1>4, <2>1, <2>2, SumAgrees
<1>7. SumFunctionOnSet(fq, 1 .. Len(q)) = SumFunctionOnSet(f, T)
  <2>0. IsFiniteSet(1 .. Len(q))
    <3>1. 1 \in Int /\ Len(q) \in Int
      BY <1>2
    <3> QED BY <3>1, FS_Interval
  <2>1. \A i \in 1 .. Len(q) : h[i] \in T /\ fq[i] = f[h[i]]
    BY <1>0, <1>2
  <2>2. \A j \in T : f[j] \in Int /\ \E i \in 1 .. Len(q) : j = h[i]
    <3> TAKE j \in T
    <3>1. j - n \in 1 .. Len(q) /\ h[j - n] = j
      BY <1>0, <1>2
    <3>2. j \in 1 .. Len(o)
      BY <1>0
    <3> HIDE DEF h, q
    <3> QED BY <1>3, <3>1, <3>2
  <2>3. \A i, j \in 1 .. Len(q) : h[i] = h[j] => i = j
    BY <1>0
  <2> DEFINE U == 1 .. Len(q)
  <2>4. /\ IsFiniteSet(U) /\ \A i \in U : h[i] \in T /\ fq[i] = f[h[i]]
        /\ \A j \in T : f[j] \in Int /\ \E i \in U : j = h[i]
        /\ \A i, j \in U : h[i] = h[j] => i = j
    BY <2>0, <2>1, <2>2, <2>3
  <2> HIDE DEF f, fq, h, T, q, U
  <2>5. SumFunctionOnSet(fq, U) = SumFunctionOnSet(f, T)
    BY <2>4, SumRenamed
  <2> QED BY <2>5 DEF U
<1>8. Owed(o) = SumFunctionOnSet(f, 1 .. Len(o))
  BY OwedIs
<1>9. Owed(p) = SumFunctionOnSet(fp, 1 .. Len(p)) /\ Owed(q) = SumFunctionOnSet(fq, 1 .. Len(q))
  <2> HIDE DEF p, q
  <2> QED BY <1>1, <1>2, OwedIs
<1> HIDE DEF f, fp, fq, S, T, h
<1> QED BY <1>1, <1>2, <1>4, <1>5, <1>6, <1>7, <1>8, <1>9

LEMMA OwedOne ==
    ASSUME NEW note \in Notes
    PROVE  Owed(<<note>>) = note.amount
<1> DEFINE f == [i \in 1 .. 1 |-> note.amount]
           g == [i \in 1 .. 1 |-> <<note>>[i].amount]
<1>1. note.amount \in Nat /\ <<note>> \in Seq(Notes) /\ Len(<<note>>) = 1
  BY DEF Notes
<1>2. g = f
  OBVIOUS
<1>3. Owed(<<note>>) = SumFunctionOnSet(g, 1 .. 1)
  BY <1>1, OwedIs
<1>4. IsFiniteSet(1 .. 1) /\ Cardinality(1 .. 1) = 1
  <2>1. 1 .. 1 = {1}
    OBVIOUS
  <2> QED BY <2>1, FS_Singleton
<1>5. SumFunctionOnSet(f, 1 .. 1) = note.amount * Cardinality(1 .. 1)
  <2>1. note.amount \in Int
    BY <1>1
  <2> QED BY <2>1, <1>4, SumOfEquals
<1>6. SumFunctionOnSet(f, 1 .. 1) = note.amount
  BY <1>1, <1>4, <1>5
<1> QED BY <1>2, <1>3, <1>6

LEMMA OwedAppended ==
    ASSUME NEW o \in Seq(Notes), NEW who \in Accounts, NEW amount \in Nat
    PROVE  insert(o, who, amount) \in Seq(Notes) /\ Owed(insert(o, who, amount)) = Owed(o) + amount
<1> DEFINE note == Note(who, amount)
           p == Append(o, note)
<1>1. note \in Notes /\ note.amount = amount
  BY DEF Note, Notes
<1> HIDE DEF note
<1>2. /\ p \in Seq(Notes) /\ Len(p) = Len(o) + 1 /\ p[Len(o) + 1] = note
      /\ \A i \in 1 .. Len(o) : p[i] = o[i]
  BY <1>1, AppendProperties
<1>3. Len(o) \in Nat /\ Len(o) \in 0 .. Len(p)
  BY <1>2
<1> HIDE DEF p
<1>4. Owed(p) = Owed(SubSeq(p, 1, Len(o))) + Owed(SubSeq(p, Len(o) + 1, Len(p)))
  BY <1>2, <1>3, OwedSplits
<1>5. SubSeq(p, 1, Len(o)) = o
  <2>1. /\ SubSeq(p, 1, Len(o)) \in Seq(Notes) /\ Len(SubSeq(p, 1, Len(o))) = Len(o)
        /\ \A i \in 1 .. Len(o) : SubSeq(p, 1, Len(o))[i] = o[i]
    BY <1>2, <1>3, SubSeqProperties
  <2> QED BY <2>1, SeqEqual
<1>6. SubSeq(p, Len(o) + 1, Len(p)) = <<note>>
  <2> DEFINE q == SubSeq(p, Len(o) + 1, Len(o) + 1)
  <2>1. q \in Seq(Notes) /\ Len(q) = 1 /\ q[1] = p[Len(o) + 1]
    BY <1>2, <1>3, SubSeqProperties
  <2>2. <<note>> \in Seq(Notes) /\ Len(<<note>>) = 1 /\ <<note>>[1] = note
    BY <1>1
  <2> HIDE DEF q
  <2>3. q = <<note>>
    BY <1>2, <2>1, <2>2, SeqEqual
  <2> QED BY <1>2, <2>3 DEF q
<1>7. Owed(<<note>>) = amount
  BY <1>1, OwedOne
<1>8. Owed(p) = Owed(o) + amount
  BY <1>4, <1>5, <1>6, <1>7
<1> QED BY <1>2, <1>8 DEF insert, p, note

\* A drain that succeeds takes notes of the amount asked for.
LEMMA DrainTakes ==
    ASSUME NEW o \in Seq(Notes), NEW amount \in Nat, NEW d, d = drain(o, amount)
    PROVE  /\ d.drained \in Seq(Notes) /\ d.left \in Seq(Notes) /\ d.ok \in BOOLEAN
           /\ d.ok => Owed(d.left) = Owed(o) - amount
<1>1. CASE drain_inner(o, amount) = {}
  <2>1. d = [ok |-> FALSE, drained |-> <<>>, left |-> o]
    BY <1>1 DEF drain
  <2>2. <<>> \in Seq(Notes)
    OBVIOUS
  <2> QED BY <2>1, <2>2
<1>2. CASE drain_inner(o, amount) # {}
  <2> DEFINE n == CHOOSE m \in drain_inner(o, amount) : TRUE
  <2>1. n \in drain_inner(o, amount)
    BY <1>2
  <2>2. d = [ok |-> TRUE, drained |-> SubSeq(o, 1, n), left |-> SubSeq(o, n + 1, Len(o))]
    BY <1>2 DEF drain
  <2> HIDE DEF n
  <2>3. n \in 1 .. Len(o) /\ Owed(SubSeq(o, 1, n)) = amount
    BY <2>1 DEF drain_inner
  <2>4. n \in 0 .. Len(o)
    BY <2>3
  <2>5. /\ SubSeq(o, 1, n) \in Seq(Notes) /\ SubSeq(o, n + 1, Len(o)) \in Seq(Notes)
        /\ Owed(o) = amount + Owed(SubSeq(o, n + 1, Len(o)))
    BY <2>3, <2>4, OwedSplits
  <2>6. Owed(SubSeq(o, n + 1, Len(o))) \in Nat
    BY <2>5, OwedNat
  <2> QED BY <2>2, <2>5, <2>6
<1> QED BY <1>1, <1>2

-----------------------------------------------------------------------------
(* Transfers of the ERC20 token                                            *)

Balances == [Accounts -> Nat]

LEMMA Erc20Moves ==
    ASSUME NEW e \in Balances, NEW from \in Accounts, NEW to \in Accounts, NEW amount \in Nat
    PROVE  erc20_transfer(e, from, to, amount) \subseteq Balances
<1>1. CASE e[from] < amount
  BY <1>1 DEF erc20_transfer
<1>2. CASE ~(e[from] < amount)
  <2> DEFINE g == [e EXCEPT ![from] = @ - amount]
             h == [g EXCEPT ![to] = @ + amount]
  <2>1. e[from] \in Nat /\ e[from] - amount \in Nat
    BY <1>2 DEF Balances
  <2>2. g \in Balances
    BY <2>1 DEF Balances
  <2> HIDE DEF g
  <2>3. g[to] + amount \in Nat
    BY <2>2 DEF Balances
  <2>4. h \in Balances
    BY <2>2, <2>3 DEF Balances
  <2> HIDE DEF h
  <2>5. erc20_transfer(e, from, to, amount) = {h}
    BY <1>2 DEF erc20_transfer, g, h
  <2> QED BY <2>4, <2>5
<1> QED BY <1>1, <1>2

\* The states after one more of the transfers of a deposit.
NoteMoves(states, note, to) ==
    UNION {erc20_transfer(s, note.who, to, note.amount) : s \in states}

LEMMA NotesMove ==
    ASSUME NEW e \in Balances, NEW notes \in Seq(Notes), NEW to \in Accounts
    PROVE  TransferAll(e, notes, to) \subseteq Balances
<1> DEFINE n == Len(notes)
           A == SUBSET Balances
           G == [p \in A \X (1 .. n) |-> NoteMoves(p[1], notes[p[2]], to)]
           IsTable(h) == h = [s \in SUBSET (1 .. n) |->
                                IF s = {} THEN {e}
                                ELSE NoteMoves(h[s \ {Max(s)}], notes[Max(s)], to)]
           T == CHOOSE h : IsTable(h)
<1>1. n \in Nat /\ DOMAIN notes = 1 .. n /\ \A i \in 1 .. n : notes[i] \in Notes
  OBVIOUS
<1>2. \A p \in A, i \in 1 .. n : NoteMoves(p, notes[i], to) \in A
  BY <1>1, Erc20Moves DEF NoteMoves, Notes
<1>3. G \in [A \X (1 .. n) -> A] /\ {e} \in A
  BY <1>2
<1>4. \A s \in SUBSET (1 .. n) : s # {} => Max(s) \in 1 .. n
  BY <1>1, MaxIn
<1>5. PICK h \in [SUBSET (1 .. n) -> A] : Folds(h, n, {e}, G)
  <2> HIDE DEF A, G
  <2> QED BY <1>1, <1>3, FoldTable
<1>6. IsTable(h)
  <2>1. \A s \in SUBSET (1 .. n) : s # {} =>
            G[<<h[s \ {Max(s)}], Max(s)>>] = NoteMoves(h[s \ {Max(s)}], notes[Max(s)], to)
    BY <1>4, <1>5
  <2> HIDE DEF G
  <2> QED BY <1>5, <2>1 DEF Folds
<1>7. IsTable(T)
  BY <1>6
<1>8. TransferAll(e, notes, to) = T[1 .. n]
  <2>1. TransferAll(e, notes, to) = T[DOMAIN notes]
    BY Zenon, <1>1 DEF TransferAll, FoldLeft, MapThenFoldSet, NoteMoves
  <2> QED BY <1>1, <2>1
<1> DEFINE P == {i \in 0 .. n : T[1 .. i] \in A}
<1>9. 0 \in P
  <2>1. 1 .. 0 = {} /\ {} \in SUBSET (1 .. n)
    OBVIOUS
  <2>2. T[{}] = {e}
    BY <1>7, <2>1
  <2> HIDE DEF T
  <2> QED BY <1>1, <1>3, <2>1, <2>2
<1>10. ASSUME NEW i \in 1 .. n, i - 1 \in P PROVE i \in P
  <2>1. 1 .. i \in SUBSET (1 .. n) /\ i \in Nat \ {0}
    BY <1>1
  <2>2. 1 .. i # {} /\ Max(1 .. i) = i /\ (1 .. i) \ {i} = 1 .. i - 1
    BY <2>1, Prefix
  <2>3. T[1 .. i] = NoteMoves(T[1 .. i - 1], notes[i], to)
    <3> HIDE DEF T
    <3> QED BY <1>7, <2>1, <2>2
  <2> HIDE DEF T, A
  <2>4. T[1 .. i - 1] \in A
    BY <1>10
  <2> QED BY <1>1, <1>2, <2>3, <2>4
<1>11. 0 .. n \subseteq P
  <2> HIDE DEF P
  <2> QED BY <1>1, <1>9, <1>10, StepsKeep
<1>12. T[1 .. n] \in A
  <2> HIDE DEF T, A
  <2> QED BY <1>1, <1>11
<1> QED BY <1>8, <1>12

-----------------------------------------------------------------------------
(* What an asset operation works on                                        *)

MapsOf(X, Y) == UNION {[D -> Y] : D \in SUBSET X}

SoundStates ==
    {a \in [assetsById : MapsOf(AssetIds, Locations),
            assetsByLocation : MapsOf(Locations, [id : AssetIds, status : AssetStatus]),
            creationDetails : MapsOf(AssetIds, [account : Accounts, deposit : Nat]),
            contracts : MapsOf(AssetIds, Contracts),
            native : Balances, reserved : Balances] : Sound(a)}

Worlds == [assets : SoundStates, erc20 : Balances, origins : Seq(Notes)]

LEMMA InMaps ==
    ASSUME NEW X, NEW Y, NEW f, f \in [DOMAIN f -> Y], DOMAIN f \subseteq X
    PROVE  f \in MapsOf(X, Y)
BY DEF MapsOf

LEMMA SoundInStates ==
    ASSUME NEW a
    PROVE  a \in SoundStates <=> Sound(a)
<1>1. ASSUME Sound(a) PROVE a \in SoundStates
  <2> DEFINE B == a.assetsById
             L == a.assetsByLocation
             D == a.creationDetails
             C == a.contracts
             N == a.native
             R == a.reserved
  <2>1. a = State(B, L, D, C, N, R) /\ Agree(B, L, C) /\ Ledger(B, D, N, R)
    BY <1>1 DEF Sound
  <2> HIDE DEF B, L, D, C, N, R
  <2>2. DOMAIN B \subseteq AssetIds /\ DOMAIN L \subseteq Locations /\ DOMAIN C = DOMAIN B
    BY <2>1, AgreeFinite DEF Agree
  <2>3. B \in MapsOf(AssetIds, Locations)
    BY <2>1, <2>2, InMaps DEF Agree
  <2>4. L \in MapsOf(Locations, [id : AssetIds, status : AssetStatus])
    BY <2>1, <2>2, InMaps DEF Agree
  <2>5. C \in MapsOf(AssetIds, Contracts)
    BY <2>1, <2>2, InMaps DEF Agree
  <2>6. D \in MapsOf(AssetIds, [account : Accounts, deposit : Nat])
    BY <2>1, <2>2, InMaps DEF Ledger
  <2>7. N \in Balances /\ R \in Balances
    BY <2>1 DEF Ledger, Balances
  <2> HIDE DEF Balances
  <2> QED BY <1>1, <2>1, <2>3, <2>4, <2>5, <2>6, <2>7 DEF SoundStates, State
<1>2. ASSUME a \in SoundStates PROVE Sound(a)
  BY <1>2 DEF SoundStates
<1> QED BY <1>1, <1>2

LEMMA WorldParts ==
    ASSUME NEW w \in Worlds
    PROVE  /\ Sound(w.assets) /\ w.erc20 \in Balances /\ w.origins \in Seq(Notes)
           /\ w = [assets |-> w.assets, erc20 |-> w.erc20, origins |-> w.origins]
<1>1. /\ w.assets \in SoundStates /\ w.erc20 \in Balances /\ w.origins \in Seq(Notes)
      /\ w = [assets |-> w.assets, erc20 |-> w.erc20, origins |-> w.origins]
  BY DEF Worlds
<1> QED BY <1>1, SoundInStates

LEMMA WorldOf ==
    ASSUME NEW a, Sound(a), NEW e \in Balances, NEW o \in Seq(Notes)
    PROVE  [assets |-> a, erc20 |-> e, origins |-> o] \in Worlds
<1>1. a \in SoundStates
  BY SoundInStates
<1> QED BY <1>1 DEF Worlds

\* What there is of an asset; of the ERC20 token, less what the message owes.
Amount(w, x) == IF x = Erc20 THEN 0 - Owed(w.origins) ELSE Held(w.assets, x)

LEMMA AmountInt ==
    ASSUME NEW w \in Worlds, NEW x \in Assets
    PROVE  Amount(w, x) \in Int /\ (x # Erc20 => Amount(w, x) \in Nat)
<1>1. Sound(w.assets) /\ Owed(w.origins) \in Nat
  BY WorldParts, OwedNat
<1>2. CASE x = Erc20
  BY <1>1, <1>2 DEF Amount
<1>3. CASE x # Erc20
  BY <1>1, <1>3, HeldNat DEF Amount, Assets, Kinds
<1> QED BY <1>2, <1>3

\* The world becomes v, with n more of x.
Changes(w, v, x, n) ==
    /\ v \in Worlds /\ Steady(w.assets, v.assets)
    /\ \A y \in Assets : Amount(v, y) = IF y = x THEN Amount(w, y) + n ELSE Amount(w, y)

LEMMA AssetsChange ==
    ASSUME NEW w \in Worlds, NEW x \in Kinds, NEW n \in Int, NEW a, Gains(w.assets, a, x, n),
           NEW v, v = [w EXCEPT !.assets = a]
    PROVE  Changes(w, v, x, n)
<1>1. v = [assets |-> a, erc20 |-> w.erc20, origins |-> w.origins]
  BY WorldParts
<1>2. v \in Worlds
  BY <1>1, WorldParts, WorldOf DEF Gains
<1>3. x # Erc20
  BY XcmExecutionAssumption DEF Kinds
<1>4. ASSUME NEW y \in Assets
      PROVE  Amount(v, y) = IF y = x THEN Amount(w, y) + n ELSE Amount(w, y)
  <2>1. CASE y = Erc20
    BY <1>1, <1>3, <2>1 DEF Amount
  <2>2. CASE y # Erc20
    <3>1. y \in Kinds
      BY <2>2 DEF Assets, Kinds
    <3>2. Amount(v, y) = Held(a, y) /\ Amount(w, y) = Held(w.assets, y)
      BY <1>1, <2>2 DEF Amount
    <3> QED BY <3>1, <3>2 DEF Gains
  <2> QED BY <2>1, <2>2
<1>5. Steady(w.assets, v.assets)
  BY <1>1 DEF Gains
<1> QED BY <1>2, <1>4, <1>5 DEF Changes

LEMMA NotesChange ==
    ASSUME NEW w \in Worlds, NEW e \in Balances, NEW o \in Seq(Notes), NEW n \in Int,
           Owed(o) = Owed(w.origins) - n,
           NEW v, v = [assets |-> w.assets, erc20 |-> e, origins |-> o]
    PROVE  Changes(w, v, Erc20, n)
<1>1. v \in Worlds
  BY WorldParts, WorldOf
<1>2. Owed(w.origins) \in Nat /\ Owed(o) \in Nat
  BY WorldParts, OwedNat
<1>3. \A y \in Assets : Amount(v, y) = IF y = Erc20 THEN Amount(w, y) + n ELSE Amount(w, y)
  BY <1>2 DEF Amount
<1>4. Steady(w.assets, v.assets)
  BY SteadySelf
<1> QED BY <1>1, <1>3, <1>4 DEF Changes

-----------------------------------------------------------------------------
(* One asset                                                               *)

LEMMA Cases ==
    ASSUME NEW x \in Assets
    PROVE  \/ x = NativeLocation /\ x # Erc20
           \/ x = Erc20 /\ x # NativeLocation
           \/ x \in Locations /\ x # Erc20 /\ x # NativeLocation
BY XcmExecutionAssumption DEF Assets

LEMMA WithdrawChanges ==
    ASSUME NEW w \in Worlds, NEW x \in Assets, NEW who \in Accounts, NEW amount \in Nat,
           NEW v \in withdraw_asset(w, x, who, amount)
    PROVE  Changes(w, v, x, 0 - amount)
<1>0. 0 - amount \in Int /\ Sound(w.assets)
  BY WorldParts
<1>1. CASE x = NativeLocation /\ x # Erc20
  <2>1. PICK a \in Take(w.assets, who, amount) : v = [w EXCEPT !.assets = a]
    BY <1>1 DEF withdraw_asset, WithAssets
  <2>2. Gains(w.assets, a, x, 0 - amount) /\ x \in Kinds
    BY <1>0, <1>1, <2>1, TakeGains DEF Kinds
  <2> QED BY <1>0, <2>1, <2>2, AssetsChange
<1>2. CASE x = Erc20 /\ x # NativeLocation
  <2> DEFINE o == insert(w.origins, who, amount)
  <2>1. v = [w EXCEPT !.origins = o]
    BY <1>2 DEF withdraw_asset, withdraw_erc20
  <2>2. o \in Seq(Notes) /\ Owed(o) = Owed(w.origins) + amount
    BY WorldParts, OwedAppended
  <2> HIDE DEF o
  <2>3. v = [assets |-> w.assets, erc20 |-> w.erc20, origins |-> o]
    BY <2>1, WorldParts
  <2>4. Owed(w.origins) \in Nat
    BY WorldParts, OwedNat
  <2>5. Owed(o) = Owed(w.origins) - (0 - amount)
    BY <2>2, <2>4
  <2>6. Changes(w, v, Erc20, 0 - amount)
    BY <1>0, <2>2, <2>3, <2>5, WorldParts, NotesChange
  <2> QED BY <1>2, <2>6
<1>3. CASE x \in Locations /\ x # Erc20 /\ x # NativeLocation
  <2>1. PICK a \in withdraw_foreign(w.assets, x, who, amount) : v = [w EXCEPT !.assets = a]
    BY <1>3 DEF withdraw_asset, WithAssets
  <2>2. x \in DOMAIN w.assets.assetsByLocation
        /\ a \in BurnFrom(w.assets, w.assets.assetsByLocation[x].id, who, amount)
    BY <2>1 DEF withdraw_foreign, IsForeignAsset
  <2>3. Gains(w.assets, a, x, 0 - amount) /\ x \in Kinds
    BY <1>0, <1>3, <2>2, BurnGains DEF Kinds
  <2> QED BY <1>0, <2>1, <2>3, AssetsChange
<1> QED BY <1>1, <1>2, <1>3, Cases

LEMMA DepositChanges ==
    ASSUME NEW w \in Worlds, NEW x \in Assets, NEW who \in Accounts, NEW amount \in Nat,
           NEW d, d = deposit_asset(w, x, who, amount)
    PROVE  /\ d.origins \in Seq(Notes) /\ (x # Erc20 => d.origins = w.origins)
           /\ \A v \in d.worlds : Changes(w, v, x, amount)
<1>0. amount \in Int /\ Sound(w.assets) /\ w.origins \in Seq(Notes)
  BY WorldParts
<1>1. CASE x = NativeLocation /\ x # Erc20
  <2>1. d = [worlds |-> WithAssets(w, Pay(w.assets, who, amount)), origins |-> w.origins]
    BY <1>1 DEF deposit_asset
  <2>2. ASSUME NEW v \in d.worlds PROVE Changes(w, v, x, amount)
    <3>1. PICK a \in Pay(w.assets, who, amount) : v = [w EXCEPT !.assets = a]
      BY <2>1, <2>2 DEF WithAssets
    <3>2. Gains(w.assets, a, x, amount) /\ x \in Kinds
      BY <1>0, <1>1, <3>1, PayGains DEF Kinds
    <3> QED BY <1>0, <3>1, <3>2, AssetsChange
  <2> QED BY <1>0, <2>1, <2>2
<1>2. CASE x = Erc20 /\ x # NativeLocation
  <2>1. PICK k : k = deposit_erc20(w.erc20, w.origins, who, amount)
    OBVIOUS
  <2> DEFINE V == {[w EXCEPT !.erc20 = e, !.origins = k.origins] : e \in k.balances}
  <2>a. d = [worlds |-> V, origins |-> k.origins]
    BY <1>2, <2>1 DEF deposit_asset
  <2> HIDE DEF V
  <2>2. d.worlds = V /\ d.origins = k.origins
    BY <2>a
  <2>3. PICK t : t = drain(w.origins, amount)
    OBVIOUS
  <2>4. /\ t.drained \in Seq(Notes) /\ t.left \in Seq(Notes)
        /\ t.ok => Owed(t.left) = Owed(w.origins) - amount
    BY <1>0, <2>3, DrainTakes
  <2>5. k.origins = t.left /\ k.balances = IF t.ok THEN TransferAll(w.erc20, t.drained, who) ELSE {}
    BY <2>1, <2>3 DEF deposit_erc20
  <2>6. ASSUME NEW v \in d.worlds PROVE Changes(w, v, x, amount)
    <3>1. PICK e \in k.balances : v = [w EXCEPT !.erc20 = e, !.origins = k.origins]
      BY <2>2 DEF V
    <3>2. t.ok /\ e \in TransferAll(w.erc20, t.drained, who)
      BY <2>5, <3>1
    <3>3. e \in Balances
      BY <2>4, <3>2, WorldParts, NotesMove
    <3>a. v = [w EXCEPT !.erc20 = e, !.origins = t.left]
      BY <2>5, <3>1
    <3>b. w = [assets |-> w.assets, erc20 |-> w.erc20, origins |-> w.origins]
      BY WorldParts
    <3>4. v = [assets |-> w.assets, erc20 |-> e, origins |-> t.left]
      BY <3>a, <3>b
    <3>5. Changes(w, v, Erc20, amount)
      BY <1>0, <2>4, <3>2, <3>3, <3>4, NotesChange
    <3> QED BY <1>2, <3>5
  <2>7. d.origins = t.left
    BY <2>2, <2>5
  <2> QED BY <1>2, <2>4, <2>6, <2>7
<1>3. CASE x \in Locations /\ x # Erc20 /\ x # NativeLocation
  <2>1. d = [worlds |-> WithAssets(w, deposit_foreign(w.assets, x, who, amount)),
             origins |-> w.origins]
    BY <1>3 DEF deposit_asset
  <2>2. ASSUME NEW v \in d.worlds PROVE Changes(w, v, x, amount)
    <3>1. PICK a \in deposit_foreign(w.assets, x, who, amount) : v = [w EXCEPT !.assets = a]
      BY <2>1, <2>2 DEF WithAssets
    <3>2. x \in DOMAIN w.assets.assetsByLocation
          /\ a \in MintInto(w.assets, w.assets.assetsByLocation[x].id, who, amount)
      BY <3>1 DEF deposit_foreign, IsForeignAsset
    <3>3. Gains(w.assets, a, x, amount) /\ x \in Kinds
      BY <1>0, <1>3, <3>2, MintGains DEF Kinds
    <3> QED BY <1>0, <3>1, <3>3, AssetsChange
  <2> QED BY <1>0, <2>1, <2>2
<1> QED BY <1>1, <1>2, <1>3, Cases

LEMMA TransferChanges ==
    ASSUME NEW w \in Worlds, NEW x \in Assets, NEW from \in Accounts, NEW to \in Accounts,
           NEW amount \in Nat, NEW v \in internal_transfer_asset(w, x, from, to, amount)
    PROVE  Changes(w, v, x, 0)
<1>0. 0 - amount \in Int /\ amount \in Int /\ Sound(w.assets) /\ 0 \in Int /\ (0 - amount) + amount = 0
  BY WorldParts
<1>1. CASE x = NativeLocation /\ x # Erc20
  <2>1. PICK a \in UNION {Pay(b, to, amount) : b \in Take(w.assets, from, amount)} :
               v = [w EXCEPT !.assets = a]
    BY <1>1 DEF internal_transfer_asset, WithAssets
  <2>2. PICK b \in Take(w.assets, from, amount) : a \in Pay(b, to, amount)
    BY <2>1
  <2>3. Gains(w.assets, b, x, 0 - amount) /\ x \in Kinds
    BY <1>0, <1>1, <2>2, TakeGains DEF Kinds
  <2>4. Gains(b, a, x, amount)
    BY <1>1, <2>2, <2>3, PayGains DEF Gains
  <2>5. Gains(w.assets, a, x, (0 - amount) + amount)
    BY <1>0, <2>3, <2>4, GainsTwice
  <2> QED BY <1>0, <2>1, <2>3, <2>5, AssetsChange
<1>2. CASE x = Erc20 /\ x # NativeLocation
  <2>1. PICK e \in erc20_transfer(w.erc20, from, to, amount) : v = [w EXCEPT !.erc20 = e]
    BY <1>2 DEF internal_transfer_asset, internal_transfer_erc20
  <2>2. e \in Balances
    BY <2>1, WorldParts, Erc20Moves
  <2>3. v = [assets |-> w.assets, erc20 |-> e, origins |-> w.origins]
    BY <2>1, WorldParts
  <2>4. Owed(w.origins) = Owed(w.origins) - 0 /\ w.origins \in Seq(Notes)
    BY WorldParts, OwedNat
  <2>5. Changes(w, v, Erc20, 0)
    BY <1>0, <2>2, <2>3, <2>4, NotesChange
  <2> QED BY <1>2, <2>5
<1>3. CASE x \in Locations /\ x # Erc20 /\ x # NativeLocation
  <2>1. PICK a \in internal_transfer_foreign(w.assets, x, from, to, amount) :
               v = [w EXCEPT !.assets = a]
    BY <1>3 DEF internal_transfer_asset, WithAssets
  <2>2. x \in DOMAIN w.assets.assetsByLocation
        /\ a \in TokenTransfer(w.assets, w.assets.assetsByLocation[x].id, from, to, amount)
    BY <2>1 DEF internal_transfer_foreign, IsForeignAsset
  <2>3. Gains(w.assets, a, x, 0) /\ x \in Kinds
    BY <1>0, <1>3, <2>2, TransferGains DEF Kinds
  <2> QED BY <1>0, <2>1, <2>3, AssetsChange
<1> QED BY <1>1, <1>2, <1>3, Cases

-----------------------------------------------------------------------------
(* The order of the assets of a bundle                                     *)

\* Each element of S once.
Lists(xs, S) ==
    /\ xs \in Seq(S)
    /\ \A i, j \in 1 .. Len(xs) : xs[i] = xs[j] => i = j
    /\ \A x \in S : \E i \in 1 .. Len(xs) : xs[i] = x

LEMMA ListsTogether ==
    ASSUME NEW S, NEW T, S \cap T = {}, NEW s, NEW t, Lists(s, S), Lists(t, T)
    PROVE  Lists(s \o t, S \cup T)
<1> DEFINE u == s \o t
           U == S \cup T
<1>1. /\ s \in Seq(U) /\ t \in Seq(U) /\ Len(s) \in Nat /\ Len(t) \in Nat
      /\ \A i \in 1 .. Len(s) : s[i] \in S
      /\ \A i \in 1 .. Len(t) : t[i] \in T
  <2>1. s \in Seq(S) /\ t \in Seq(T)
    BY DEF Lists
  <2> QED BY <2>1
<1>2. /\ u \in Seq(U) /\ Len(u) = Len(s) + Len(t)
      /\ \A i \in 1 .. Len(s) + Len(t) : u[i] = IF i <= Len(s) THEN s[i] ELSE t[i - Len(s)]
  BY <1>1, ConcatProperties
<1> HIDE DEF u, U
<1>3. ASSUME NEW i \in 1 .. Len(u), NEW j \in 1 .. Len(u), u[i] = u[j] PROVE i = j
  <2>1. CASE i <= Len(s) /\ j <= Len(s)
    <3>1. i \in 1 .. Len(s) /\ j \in 1 .. Len(s) /\ s[i] = s[j]
      BY <1>1, <1>2, <1>3, <2>1
    <3> QED BY <3>1 DEF Lists
  <2>2. CASE ~(i <= Len(s)) /\ ~(j <= Len(s))
    <3>1. i - Len(s) \in 1 .. Len(t) /\ j - Len(s) \in 1 .. Len(t) /\ t[i - Len(s)] = t[j - Len(s)]
      BY <1>1, <1>2, <1>3, <2>2
    <3>2. i - Len(s) = j - Len(s)
      BY <3>1 DEF Lists
    <3> QED BY <1>1, <1>2, <3>2
  <2>3. CASE i <= Len(s) /\ ~(j <= Len(s))
    <3>1. s[i] = t[j - Len(s)] /\ i \in 1 .. Len(s) /\ j - Len(s) \in 1 .. Len(t)
      BY <1>1, <1>2, <1>3, <2>3
    <3> QED BY <1>1, <3>1
  <2>4. CASE ~(i <= Len(s)) /\ j <= Len(s)
    <3>1. s[j] = t[i - Len(s)] /\ j \in 1 .. Len(s) /\ i - Len(s) \in 1 .. Len(t)
      BY <1>1, <1>2, <1>3, <2>4
    <3> QED BY <1>1, <3>1
  <2> QED BY <2>1, <2>2, <2>3, <2>4
<1>4. ASSUME NEW x \in U PROVE \E i \in 1 .. Len(u) : u[i] = x
  <2>1. CASE x \in S
    <3>1. PICK i \in 1 .. Len(s) : s[i] = x
      BY <2>1 DEF Lists
    <3>2. i \in 1 .. Len(u) /\ u[i] = x
      BY <1>1, <1>2, <3>1
    <3> QED BY <3>2
  <2>2. CASE x \in T
    <3>1. PICK i \in 1 .. Len(t) : t[i] = x
      BY <2>2 DEF Lists
    <3>2. i + Len(s) \in 1 .. Len(u) /\ ~(i + Len(s) <= Len(s)) /\ (i + Len(s)) - Len(s) = i
      BY <1>1, <1>2, <3>1
    <3>3. u[i + Len(s)] = x
      BY <1>1, <1>2, <3>1, <3>2
    <3> QED BY <3>2, <3>3
  <2> QED BY <2>1, <2>2 DEF U
<1> QED BY <1>2, <1>3, <1>4 DEF Lists, u, U

LEMMA ListsOne == ASSUME NEW x PROVE Lists(<<x>>, {x})
<1>1. <<x>> \in Seq({x}) /\ Len(<<x>>) = 1 /\ <<x>>[1] = x
  OBVIOUS
<1>2. \A i \in 1 .. 1 : i = 1
  OBVIOUS
<1> QED BY <1>1, <1>2 DEF Lists

LEMMA ListsNone == Lists(<<>>, {})
<1>1. <<>> \in Seq({}) /\ Len(<<>>) = 0 /\ 1 .. 0 = {}
  OBVIOUS
<1> QED BY <1>1 DEF Lists

LEMMA ListsSet ==
    ASSUME NEW S, IsFiniteSet(S)
    PROVE  Lists(SetToSeq(S), S)
<1> DEFINE n == Cardinality(S)
           f == SetToSeq(S)
<1>1. n \in Nat /\ IsFiniteSet(1 .. n) /\ Cardinality(1 .. n) = n
  <2>1. n \in Nat
    BY FS_CardinalityType
  <2>2. IsFiniteSet(1 .. n) /\ Cardinality(1 .. n) = IF 1 > n THEN 0 ELSE (n - 1) + 1
    BY <2>1, FS_Interval
  <2> QED BY <2>1, <2>2
<1>2. ExistsBijection(1 .. n, S)
  <2> HIDE DEF n
  <2> QED BY <1>1, FS_SameCardinalityBij DEF n
<1>3. \E g \in [1 .. n -> S] : IsInjective(g)
  BY <1>2 DEF ExistsBijection, Bijection, Injection
<1>4. f \in [1 .. n -> S] /\ IsInjective(f)
  BY <1>3 DEF SetToSeq
<1>5. f \in Injection(1 .. n, S)
  BY <1>4 DEF Injection
<1>6. f \in Surjection(1 .. n, S)
  <2>1. Cardinality(1 .. n) = Cardinality(S)
    BY <1>1
  <2> HIDE DEF f, n
  <2> QED BY <1>5, <2>1, FS_Injection
<1> HIDE DEF f
<1>7. \A x \in S : \E i \in 1 .. n : f[i] = x
  <2> HIDE DEF n
  <2> QED BY <1>6 DEF Surjection
<1>8. f \in Seq(S) /\ Len(f) = n
  <2> HIDE DEF n
  <2> QED BY <1>1, <1>4
<1>9. \A i, j \in 1 .. n : f[i] = f[j] => i = j
  <2> HIDE DEF n
  <2> QED BY <1>4 DEF IsInjective
<1>10. Lists(f, S)
  <2> HIDE DEF n
  <2> QED BY <1>7, <1>8, <1>9 DEF Lists
<1> QED BY <1>10 DEF f

Named(bundle) == {x \in Assets : bundle[x] > 0}

LEMMA InOrderLists ==
    ASSUME NEW bundle \in [Assets -> Nat]
    PROVE  Lists(InOrder(bundle), Named(bundle))
<1> DEFINE one(x) == IF bundle[x] > 0 THEN <<x>> ELSE <<>>
           set(x) == IF bundle[x] > 0 THEN {x} ELSE {}
           L == {l \in Locations : bundle[l] > 0}
           s == SetToSeq(L)
<1>1. \A x : Lists(one(x), set(x))
  BY ListsOne, ListsNone
<1>2. Lists(s, L)
  <2>1. IsFiniteSet(L)
    BY FS_Subset, ForeignAssetsAssumption
  <2> HIDE DEF L
  <2> QED BY <2>1, ListsSet
<1>3. set(NativeLocation) \cap set(Erc20) = {} /\ (set(NativeLocation) \cup set(Erc20)) \cap L = {}
  BY XcmExecutionAssumption
<1>4. InOrder(bundle) = one(NativeLocation) \o one(Erc20) \o s
  BY Zenon DEF InOrder
<1>5. (set(NativeLocation) \cup set(Erc20)) \cup L = Named(bundle)
  BY DEF Named, Assets
<1> HIDE DEF one, set, L, s
<1>6. Lists(one(NativeLocation) \o one(Erc20), set(NativeLocation) \cup set(Erc20))
  BY <1>1, <1>3, ListsTogether
<1>7. Lists((one(NativeLocation) \o one(Erc20)) \o s, (set(NativeLocation) \cup set(Erc20)) \cup L)
  BY <1>2, <1>3, <1>6, ListsTogether
<1> QED BY <1>4, <1>5, <1>7

-----------------------------------------------------------------------------
(* Withdrawals of a bundle                                                 *)

Withdrawals == [ok : BOOLEAN, world : Worlds]

WithdrawStep(acc, x, bundle, who) == Withdrawn(acc, withdraw_asset(acc.world, x, who, bundle[x]))

WithdrawSteps(xs, bundle, who) ==
    [p \in Withdrawals \X (1 .. Len(xs)) |-> WithdrawStep(p[1], xs[p[2]], bundle, who)]

LEMMA WithdrawStays ==
    ASSUME NEW bundle \in [Assets -> Nat], NEW who \in Accounts, NEW x \in Assets,
           NEW acc \in Withdrawals
    PROVE  WithdrawStep(acc, x, bundle, who) \in Withdrawals
<1>1. acc.world \in Worlds /\ acc.ok \in BOOLEAN /\ bundle[x] \in Nat
  BY DEF Withdrawals
<1> DEFINE worlds == withdraw_asset(acc.world, x, who, bundle[x])
<1>2. \A v \in worlds : v \in Worlds
  BY <1>1, WithdrawChanges DEF Changes
<1> HIDE DEF worlds
<1>3. worlds # {} => (CHOOSE w \in worlds : TRUE) \in Worlds
  BY <1>2
<1>4. Withdrawn(acc, worlds) \in Withdrawals
  BY <1>3 DEF Withdrawn, Withdrawals
<1> QED BY <1>4 DEF WithdrawStep, worlds

LEMMA WithdrawRun ==
    ASSUME NEW bundle \in [Assets -> Nat], NEW who \in Accounts, World \in Worlds,
           NEW xs, xs = InOrder(bundle)
    PROVE  \E f : Run(f, Len(xs), Withdrawals, [ok |-> TRUE, world |-> World],
                      WithdrawSteps(xs, bundle, who), WithdrawAll(bundle, who))
<1> DEFINE n == Len(xs)
           A == Withdrawals
           base == [ok |-> TRUE, world |-> World]
           G == WithdrawSteps(xs, bundle, who)
           IsTable(h) == h = [s \in SUBSET (1 .. n) |->
                                IF s = {} THEN base
                                ELSE WithdrawStep(h[s \ {Max(s)}], xs[Max(s)], bundle, who)]
           T == CHOOSE h : IsTable(h)
<1>1. n \in Nat /\ DOMAIN xs = 1 .. n /\ \A i \in 1 .. n : xs[i] \in Assets
  <2>1. xs \in Seq(Named(bundle))
    BY InOrderLists DEF Lists
  <2>2. xs \in Seq(Assets)
    BY <2>1 DEF Named
  <2> QED BY <2>2
<1>2. base \in A
  BY DEF Withdrawals
<1>3. G \in [A \X (1 .. n) -> A]
  BY <1>1, WithdrawStays DEF WithdrawSteps
<1>4. \A u \in A, i \in 1 .. n : G[<<u, i>>] = WithdrawStep(u, xs[i], bundle, who)
  BY <1>1 DEF WithdrawSteps
<1>5. \A s \in SUBSET (1 .. n) : s # {} => Max(s) \in 1 .. n
  BY <1>1, MaxIn
<1>6. PICK h \in [SUBSET (1 .. n) -> A] : Folds(h, n, base, G)
  <2> HIDE DEF A, G, base, n
  <2> QED BY <1>1, <1>2, <1>3, FoldTable
<1>7. IsTable(h)
  <2>1. \A s \in SUBSET (1 .. n) : s # {} =>
            G[<<h[s \ {Max(s)}], Max(s)>>] = WithdrawStep(h[s \ {Max(s)}], xs[Max(s)], bundle, who)
    BY <1>4, <1>5, <1>6
  <2> HIDE DEF G, A, base, n
  <2> QED BY <1>6, <2>1 DEF Folds
<1>8. IsTable(T)
  BY <1>7
<1>9. WithdrawAll(bundle, who) = T[1 .. n]
  <2>1. WithdrawAll(bundle, who) = T[DOMAIN xs]
    BY Zenon, <1>1 DEF WithdrawAll, FoldLeft, MapThenFoldSet, WithdrawStep
  <2> QED BY <1>1, <2>1
<1>10. T[{}] = base
  <2> HIDE DEF T, base
  <2> QED BY <1>8
<1>11. ASSUME NEW i \in 1 .. n, T[(1 .. i) \ {i}] \in A
       PROVE  T[1 .. i] = G[<<T[(1 .. i) \ {i}], i>>]
  <2>1. 1 .. i \in SUBSET (1 .. n) /\ i \in Nat \ {0}
    BY <1>1
  <2>2. 1 .. i # {} /\ Max(1 .. i) = i
    BY <2>1, Prefix
  <2> HIDE DEF T, A, G, n
  <2>3. T[1 .. i] = WithdrawStep(T[(1 .. i) \ {i}], xs[i], bundle, who)
    BY <1>8, <2>1, <2>2
  <2> QED BY <1>4, <1>11, <2>3
<1> HIDE DEF A, base, G, n, T, IsTable
<1>12. \E f : Run(f, n, A, base, G, T[1 .. n])
  BY <1>1, <1>2, <1>3, <1>10, <1>11, FoldRun
<1> QED BY <1>9, <1>12 DEF A, base, G, n

Upto(xs, i) == {xs[k] : k \in 1 .. i}

LEMMA UptoGrows ==
    ASSUME NEW S, NEW xs, Lists(xs, S)
    PROVE  /\ Upto(xs, 0) = {} /\ Upto(xs, Len(xs)) = S
           /\ \A i \in 1 .. Len(xs) : /\ xs[i] \in S /\ xs[i] \notin Upto(xs, i - 1)
                                      /\ Upto(xs, i) = Upto(xs, i - 1) \cup {xs[i]}
<1>1. Len(xs) \in Nat /\ \A i \in 1 .. Len(xs) : xs[i] \in S
  <2>1. xs \in Seq(S)
    BY DEF Lists
  <2> QED BY <2>1
<1>2. \A x \in S : \E i \in 1 .. Len(xs) : xs[i] = x
  BY DEF Lists
<1>3. Upto(xs, 0) = {} /\ Upto(xs, Len(xs)) = S
  BY <1>1, <1>2 DEF Upto
<1>4. ASSUME NEW i \in 1 .. Len(xs)
      PROVE  xs[i] \notin Upto(xs, i - 1) /\ Upto(xs, i) = Upto(xs, i - 1) \cup {xs[i]}
  <2>1. 1 .. i = (1 .. i - 1) \cup {i}
    BY <1>1
  <2>2. \A k \in 1 .. i - 1 : k \in 1 .. Len(xs) /\ k # i
    BY <1>1
  <2>3. \A k \in 1 .. i - 1 : xs[k] # xs[i]
    BY <2>2 DEF Lists
  <2> QED BY <2>1, <2>3 DEF Upto
<1> QED BY <1>1, <1>3, <1>4

\* The world becomes v, with less of the assets in S, as the bundle says.
Leaves(w, v, bundle, S) ==
    /\ v \in Worlds /\ Steady(w.assets, v.assets)
    /\ \A x \in Assets : Amount(v, x) = Amount(w, x) - (IF x \in S THEN bundle[x] ELSE 0)

LEMMA WithdrawStepLeaves ==
    ASSUME NEW w \in Worlds, NEW bundle \in [Assets -> Nat], NEW who \in Accounts,
           NEW x \in Assets, NEW S, x \notin S, NEW acc \in Withdrawals,
           acc.ok => Leaves(w, acc.world, bundle, S),
           NEW b, b = WithdrawStep(acc, x, bundle, who), b.ok
    PROVE  Leaves(w, b.world, bundle, S \cup {x})
<1> DEFINE worlds == withdraw_asset(acc.world, x, who, bundle[x])
           v == CHOOSE u \in worlds : TRUE
<1>1. acc.ok /\ worlds # {} /\ b.world = v
  <2>1. b = Withdrawn(acc, worlds)
    BY DEF WithdrawStep
  <2> HIDE DEF worlds
  <2> QED BY <2>1 DEF Withdrawn, Withdrawals
<1>2. v \in worlds
  BY <1>1
<1>3. acc.world \in Worlds /\ bundle[x] \in Nat
  BY DEF Withdrawals
<1>4. Changes(acc.world, v, x, 0 - bundle[x])
  <2> HIDE DEF v
  <2> QED BY <1>2, <1>3, WithdrawChanges
<1>5. Leaves(w, acc.world, bundle, S)
  BY <1>1
<1> HIDE DEF v, worlds
<1>6. v \in Worlds /\ Steady(w.assets, v.assets)
  BY <1>4, <1>5, SteadyTwice DEF Changes, Leaves
<1>7. ASSUME NEW y \in Assets
      PROVE  Amount(v, y) = Amount(w, y) - (IF y \in S \cup {x} THEN bundle[y] ELSE 0)
  <2>1. Amount(w, y) \in Int /\ bundle[y] \in Nat
    BY AmountInt
  <2>2. Amount(acc.world, y) = Amount(w, y) - (IF y \in S THEN bundle[y] ELSE 0)
    BY <1>5 DEF Leaves
  <2>3. Amount(v, y) = IF y = x THEN Amount(acc.world, y) + (0 - bundle[x]) ELSE Amount(acc.world, y)
    BY <1>4 DEF Changes
  <2> QED BY <2>1, <2>2, <2>3
<1> QED BY <1>1, <1>6, <1>7 DEF Leaves

LEMMA WithdrawAllLeaves ==
    ASSUME NEW bundle \in [Assets -> Nat], NEW who \in Accounts, World \in Worlds,
           NEW r, r = WithdrawAll(bundle, who)
    PROVE  /\ r \in Withdrawals
           /\ r.ok => Leaves(World, r.world, bundle, Assets)
<1>1. PICK xs : xs = InOrder(bundle)
  OBVIOUS
<1>2. PICK w \in Worlds : w = World
  OBVIOUS
<1>3. PICK f : Run(f, Len(xs), Withdrawals, [ok |-> TRUE, world |-> w],
                   WithdrawSteps(xs, bundle, who), r)
  BY <1>1, <1>2, WithdrawRun
<1> DEFINE n == Len(xs)
           P == {i \in 0 .. n : f[i].ok => Leaves(w, f[i].world, bundle, Upto(xs, i))}
<1>4. Lists(xs, Named(bundle)) /\ Named(bundle) \subseteq Assets
  BY <1>1, InOrderLists DEF Named
<1>5. n \in Nat /\ \A i \in 1 .. n : xs[i] \in Assets
  <2>1. xs \in Seq(Named(bundle))
    BY <1>4 DEF Lists
  <2> QED BY <1>4, <2>1, UptoGrows
<1>6. /\ f \in [0 .. n -> Withdrawals] /\ f[0] = [ok |-> TRUE, world |-> w] /\ f[n] = r
      /\ \A i \in 1 .. n : /\ f[i - 1] \in Withdrawals
                            /\ f[i] = WithdrawStep(f[i - 1], xs[i], bundle, who)
  <2>1. /\ f \in [0 .. n -> Withdrawals] /\ f[0] = [ok |-> TRUE, world |-> w] /\ f[n] = r
        /\ \A i \in 1 .. n : /\ f[i - 1] \in Withdrawals
                              /\ f[i] = WithdrawSteps(xs, bundle, who)[<<f[i - 1], i>>]
    BY <1>3 DEF Run
  <2> QED BY <2>1 DEF WithdrawSteps
<1>7. 0 \in P
  <2>1. f[0].world = w
    BY <1>6
  <2>2. \A x \in Assets : Amount(w, x) = Amount(w, x) - 0
    BY AmountInt
  <2>3. Leaves(w, w, bundle, {})
    BY <2>2, SteadySelf DEF Leaves
  <2>4. Upto(xs, 0) = {}
    BY <1>4, UptoGrows
  <2>5. Leaves(w, f[0].world, bundle, Upto(xs, 0))
    BY Zenon, <2>1, <2>3, <2>4
  <2>6. 0 \in 0 .. n
    BY <1>5
  <2> QED BY <2>5, <2>6
<1>8. ASSUME NEW i \in 1 .. n, i - 1 \in P PROVE i \in P
  <2>1. f[i - 1] \in Withdrawals /\ f[i] = WithdrawStep(f[i - 1], xs[i], bundle, who)
    BY <1>6
  <2>2. xs[i] \notin Upto(xs, i - 1) /\ Upto(xs, i) = Upto(xs, i - 1) \cup {xs[i]} /\ xs[i] \in Assets
    BY <1>4, <1>5, UptoGrows
  <2>3. f[i - 1].ok => Leaves(w, f[i - 1].world, bundle, Upto(xs, i - 1))
    BY <1>8
  <2>4. f[i].ok => Leaves(w, f[i].world, bundle, Upto(xs, i - 1) \cup {xs[i]})
    BY <2>1, <2>2, <2>3, WithdrawStepLeaves
  <2>5. i \in 0 .. n
    BY <1>5
  <2> QED BY <2>2, <2>4, <2>5
<1>9. 0 .. n \subseteq P
  <2> HIDE DEF P, n
  <2> QED BY <1>5, <1>7, <1>8, StepsKeep
<1>10. r.ok => Leaves(w, r.world, bundle, Named(bundle))
  <2>1. n \in 0 .. n /\ Upto(xs, n) = Named(bundle)
    BY <1>4, <1>5, UptoGrows
  <2> QED BY <1>6, <1>9, <2>1
<1>11. r \in Withdrawals
  BY <1>5, <1>6
<1>12. \A x \in Assets : (IF x \in Named(bundle) THEN bundle[x] ELSE 0)
                            = IF x \in Assets THEN bundle[x] ELSE 0
  BY DEF Named
<1>13. Leaves(w, r.world, bundle, Named(bundle)) => Leaves(w, r.world, bundle, Assets)
  BY <1>12 DEF Leaves
<1> QED BY <1>2, <1>10, <1>11, <1>13

-----------------------------------------------------------------------------
(* Transfers of a bundle                                                   *)

TransferStep(worlds, x, bundle, from, to) ==
    UNION {internal_transfer_asset(w, x, from, to, bundle[x]) : w \in worlds}

\* The same amounts are there.
Same(w, v) ==
    /\ v \in Worlds /\ Steady(w.assets, v.assets)
    /\ \A x \in Assets : Amount(v, x) = Amount(w, x)

SameAs(w) == {v \in Worlds : Same(w, v)}

TransferSteps(w, xs, bundle, from, to) ==
    [p \in (SUBSET SameAs(w)) \X (1 .. Len(xs)) |-> TransferStep(p[1], xs[p[2]], bundle, from, to)]

LEMMA TransferStays ==
    ASSUME NEW w \in Worlds, NEW bundle \in [Assets -> Nat], NEW from \in Accounts,
           NEW to \in Accounts, NEW x \in Assets, NEW worlds \in SUBSET SameAs(w)
    PROVE  TransferStep(worlds, x, bundle, from, to) \in SUBSET SameAs(w)
<1>1. ASSUME NEW u \in worlds, NEW v \in internal_transfer_asset(u, x, from, to, bundle[x])
      PROVE  v \in SameAs(w)
  <2>1. u \in Worlds /\ Same(w, u) /\ bundle[x] \in Nat
    BY DEF SameAs
  <2>2. Changes(u, v, x, 0)
    BY <1>1, <2>1, TransferChanges
  <2>3. \A y \in Assets : Amount(v, y) = Amount(u, y)
    BY <2>1, <2>2, AmountInt DEF Changes
  <2> QED BY <2>1, <2>2, <2>3, SteadyTwice DEF SameAs, Same, Changes
<1> QED BY <1>1 DEF TransferStep

LEMMA TransferUnfolds ==
    ASSUME NEW bundle, NEW from, NEW to
    PROVE  TransferEach(bundle, from, to) =
               (CHOOSE h : h = [s \in SUBSET DOMAIN InOrder(bundle) |->
                                   IF s = {} THEN {World}
                                   ELSE TransferStep(h[s \ {Max(s)}], InOrder(bundle)[Max(s)],
                                                     bundle, from, to)])[DOMAIN InOrder(bundle)]
BY Zenon DEF TransferEach, FoldLeft, MapThenFoldSet, TransferStep

LEMMA TransferEachSame ==
    ASSUME NEW bundle \in [Assets -> Nat], NEW from \in Accounts, NEW to \in Accounts,
           World \in Worlds
    PROVE  \A v \in TransferEach(bundle, from, to) : Same(World, v)
<1>1. PICK xs : xs = InOrder(bundle)
  OBVIOUS
<1>2. PICK w \in Worlds : w = World
  OBVIOUS
<1> DEFINE n == Len(xs)
           A == SUBSET SameAs(w)
           base == {World}
           G == TransferSteps(w, xs, bundle, from, to)
           IsTable(h) == h = [s \in SUBSET DOMAIN InOrder(bundle) |->
                                IF s = {} THEN {World}
                                ELSE TransferStep(h[s \ {Max(s)}], InOrder(bundle)[Max(s)],
                                                  bundle, from, to)]
           T == CHOOSE h : IsTable(h)
<1>3. n \in Nat /\ DOMAIN xs = 1 .. n /\ \A i \in 1 .. n : xs[i] \in Assets
  <2>1. xs \in Seq(Named(bundle))
    BY <1>1, InOrderLists DEF Lists
  <2>2. xs \in Seq(Assets)
    BY <2>1 DEF Named
  <2> QED BY <2>2
<1>4. base \in A
  BY <1>2, SteadySelf DEF SameAs, Same
<1>5. G \in [A \X (1 .. n) -> A]
  <2>1. \A u \in A, i \in 1 .. n : TransferStep(u, xs[i], bundle, from, to) \in A
    BY <1>3, TransferStays
  <2> HIDE DEF A
  <2>2. [p \in A \X (1 .. n) |-> TransferStep(p[1], xs[p[2]], bundle, from, to)] \in [A \X (1 .. n) -> A]
    BY <2>1
  <2> QED BY <2>2 DEF TransferSteps, A
<1>6. \A u \in A, i \in 1 .. n : G[<<u, i>>] = TransferStep(u, xs[i], bundle, from, to)
  BY <1>3 DEF TransferSteps
<1>7. \A s \in SUBSET (1 .. n) : s # {} => Max(s) \in 1 .. n
  BY <1>3, MaxIn
<1>8. PICK h \in [SUBSET (1 .. n) -> A] : Folds(h, n, base, G)
  <2> HIDE DEF A, G, base, n
  <2> QED BY <1>3, <1>4, <1>5, FoldTable
<1>9. IsTable(h)
  <2>1. \A s \in SUBSET (1 .. n) : s # {} =>
            G[<<h[s \ {Max(s)}], Max(s)>>] = TransferStep(h[s \ {Max(s)}], xs[Max(s)], bundle, from, to)
    BY <1>6, <1>7, <1>8
  <2>2. DOMAIN InOrder(bundle) = 1 .. n
    BY <1>1, <1>3
  <2> HIDE DEF G, A, n
  <2> QED BY <1>1, <1>8, <2>1, <2>2 DEF Folds
<1>10. T = [s \in SUBSET (1 .. n) |->
               IF s = {} THEN base
               ELSE TransferStep(T[s \ {Max(s)}], xs[Max(s)], bundle, from, to)]
  <2>1. IsTable(T)
    BY <1>9
  <2>2. DOMAIN InOrder(bundle) = 1 .. n
    BY <1>1, <1>3
  <2> HIDE DEF T
  <2> QED BY <1>1, <2>1, <2>2
<1>11. TransferEach(bundle, from, to) = T[1 .. n]
  <2>1. TransferEach(bundle, from, to) = T[DOMAIN InOrder(bundle)]
    BY TransferUnfolds
  <2> QED BY <1>1, <1>3, <2>1
<1>12. T[{}] = base
  <2> HIDE DEF T, base
  <2> QED BY <1>10
<1>13. ASSUME NEW i \in 1 .. n, T[(1 .. i) \ {i}] \in A
       PROVE  T[1 .. i] = G[<<T[(1 .. i) \ {i}], i>>]
  <2>1. 1 .. i \in SUBSET (1 .. n) /\ i \in Nat \ {0}
    BY <1>3
  <2>2. 1 .. i # {} /\ Max(1 .. i) = i
    BY <2>1, Prefix
  <2> HIDE DEF T, A, G, n
  <2>3. T[1 .. i] = TransferStep(T[(1 .. i) \ {i}], xs[i], bundle, from, to)
    BY <1>10, <2>1, <2>2
  <2> QED BY <1>6, <1>13, <2>3
<1> HIDE DEF A, base, G, n, T, IsTable
<1>14. PICK f : Run(f, n, A, base, G, T[1 .. n])
  BY <1>3, <1>4, <1>5, <1>12, <1>13, FoldRun
<1>15. T[1 .. n] \in A
  BY <1>3, <1>14 DEF Run
<1> QED BY <1>2, <1>11, <1>15 DEF A, SameAs

-----------------------------------------------------------------------------
(* Deposits of a bundle                                                    *)

Passes == [world : Worlds, failed : Seq(Assets)]

DepositStep(acc, x, bundle, who) == Deposited(acc, x, deposit_asset(acc.world, x, who, bundle[x]))

DepositSteps(xs, bundle, who) ==
    [p \in Passes \X (1 .. Len(xs)) |-> DepositStep(p[1], xs[p[2]], bundle, who)]

\* Of the assets in D those in F failed, the others arrived.  A deposit of the ERC20
\* token that failed may have used up notes.
Pass(w, acc, bundle, D, F) ==
    /\ acc \in Passes /\ Steady(w.assets, acc.world.assets)
    /\ F \in SUBSET D /\ Lists(acc.failed, F)
    /\ \A x \in Assets : (x # Erc20 \/ x \notin F) =>
           Amount(acc.world, x) = Amount(w, x) + (IF x \in D \ F THEN bundle[x] ELSE 0)

LEMMA ListsLonger ==
    ASSUME NEW F, NEW s, Lists(s, F), NEW x, x \notin F
    PROVE  Lists(Append(s, x), F \cup {x})
<1>1. F \cap {x} = {} /\ Append(s, x) = s \o <<x>>
  <2>1. s \in Seq(F \cup {x})
    BY DEF Lists
  <2> QED BY <2>1, AppendIsConcat
<1>2. Lists(<<x>>, {x})
  BY ListsOne
<1>3. Lists(s \o <<x>>, F \cup {x})
  BY <1>1, <1>2, ListsTogether
<1> QED BY <1>1, <1>3

\* A deposit succeeds and changes the world by its amount, or fails, and the world
\* is as it was but for the notes.
LEMMA DepositStepForms ==
    ASSUME NEW bundle \in [Assets -> Nat], NEW who \in Accounts, NEW x \in Assets,
           NEW acc \in Passes, NEW b, b = DepositStep(acc, x, bundle, who)
    PROVE  \/ Changes(acc.world, b.world, x, bundle[x]) /\ b.failed = acc.failed /\ b \in Passes
           \/ /\ b.failed = Append(acc.failed, x) /\ b \in Passes
              /\ b.world.assets = acc.world.assets
              /\ x # Erc20 => b.world = acc.world
<1> DEFINE w == acc.world
           d == deposit_asset(w, x, who, bundle[x])
<1>1. w \in Worlds /\ bundle[x] \in Nat /\ acc.failed \in Seq(Assets)
      /\ acc = [world |-> w, failed |-> acc.failed]
  BY DEF Passes
<1>2. /\ d.origins \in Seq(Notes) /\ (x # Erc20 => d.origins = w.origins)
      /\ \A v \in d.worlds : Changes(w, v, x, bundle[x])
  <2> HIDE DEF w
  <2> QED BY <1>1, DepositChanges
<1> HIDE DEF d, w
<1>3. b = Deposited(acc, x, d)
  BY DEF DepositStep, d, w
<1>4. CASE d.worlds = {}
  <2> DEFINE u == [w EXCEPT !.origins = d.origins]
  <2>1. b = [world |-> [acc.world EXCEPT !.origins = d.origins], failed |-> Append(acc.failed, x)]
    BY <1>3, <1>4 DEF Deposited
  <2>2. b = [world |-> u, failed |-> Append(acc.failed, x)]
    BY <2>1 DEF w
  <2>3. w = [assets |-> w.assets, erc20 |-> w.erc20, origins |-> w.origins]
        /\ Sound(w.assets) /\ w.erc20 \in Balances
    BY <1>1, WorldParts
  <2>4. u = [assets |-> w.assets, erc20 |-> w.erc20, origins |-> d.origins]
    BY <2>3
  <2>5. u \in Worlds
    BY <1>2, <2>3, <2>4, WorldOf
  <2>6. u.assets = w.assets /\ (x # Erc20 => u = w)
    BY <1>2, <2>3, <2>4
  <2> HIDE DEF u
  <2>7. Append(acc.failed, x) \in Seq(Assets)
    BY <1>1, AppendProperties
  <2>8. b \in Passes /\ b.world = u /\ b.failed = Append(acc.failed, x)
    BY <2>2, <2>5, <2>7 DEF Passes
  <2> QED BY <2>6, <2>8 DEF w
<1>5. CASE d.worlds # {}
  <2> DEFINE v == CHOOSE u \in d.worlds : TRUE
  <2>1. v \in d.worlds
    BY <1>5
  <2>2. b = [acc EXCEPT !.world = v]
    BY <1>3, <1>5 DEF Deposited
  <2> HIDE DEF v
  <2>3. Changes(w, v, x, bundle[x])
    BY <1>2, <2>1
  <2>4. b = [world |-> v, failed |-> acc.failed]
    BY <1>1, <2>2
  <2>5. b \in Passes
    BY <1>1, <2>3, <2>4 DEF Passes, Changes
  <2> QED BY <2>3, <2>4, <2>5 DEF w
<1> QED BY <1>4, <1>5

LEMMA DepositStepPasses ==
    ASSUME NEW w \in Worlds, NEW bundle \in [Assets -> Nat], NEW who \in Accounts,
           NEW x \in Assets, NEW D, x \notin D, NEW F, NEW acc, Pass(w, acc, bundle, D, F),
           NEW b, b = DepositStep(acc, x, bundle, who)
    PROVE  \/ Pass(w, b, bundle, D \cup {x}, F)
           \/ Pass(w, b, bundle, D \cup {x}, F \cup {x})
<1>1. acc \in Passes /\ F \subseteq D /\ x \notin F /\ Lists(acc.failed, F) /\ acc.world \in Worlds
  BY DEF Pass, Passes
<1>2. CASE Changes(acc.world, b.world, x, bundle[x]) /\ b.failed = acc.failed /\ b \in Passes
  <2>1. Steady(w.assets, b.world.assets)
    BY <1>2, SteadyTwice DEF Pass, Changes
  <2>2. ASSUME NEW y \in Assets, y # Erc20 \/ y \notin F
        PROVE  Amount(b.world, y) = Amount(w, y) + (IF y \in (D \cup {x}) \ F THEN bundle[y] ELSE 0)
    <3>1. Amount(acc.world, y) = Amount(w, y) + (IF y \in D \ F THEN bundle[y] ELSE 0)
      BY <2>2 DEF Pass
    <3>2. Amount(b.world, y) = IF y = x THEN Amount(acc.world, y) + bundle[x] ELSE Amount(acc.world, y)
      BY <1>2 DEF Changes
    <3>3. Amount(w, y) \in Int /\ bundle[y] \in Nat
      BY AmountInt
    <3> QED BY <1>1, <3>1, <3>2, <3>3
  <2>3. Pass(w, b, bundle, D \cup {x}, F)
    BY <1>1, <1>2, <2>1, <2>2 DEF Pass
  <2> QED BY <2>3
<1>3. CASE /\ b.failed = Append(acc.failed, x) /\ b \in Passes
           /\ b.world.assets = acc.world.assets
           /\ x # Erc20 => b.world = acc.world
  <2>1. Steady(w.assets, b.world.assets)
    BY <1>3 DEF Pass
  <2>2. Lists(b.failed, F \cup {x})
    BY <1>1, <1>3, ListsLonger
  <2>3. ASSUME NEW y \in Assets, y # Erc20 \/ y \notin F \cup {x}
        PROVE  Amount(b.world, y)
                 = Amount(w, y) + (IF y \in (D \cup {x}) \ (F \cup {x}) THEN bundle[y] ELSE 0)
    <3>1. Amount(acc.world, y) = Amount(w, y) + (IF y \in D \ F THEN bundle[y] ELSE 0)
      BY <2>3 DEF Pass
    <3>2. Amount(b.world, y) = Amount(acc.world, y)
      <4>1. CASE y # Erc20
        BY <1>3, <4>1 DEF Amount
      <4>2. CASE y = Erc20
        BY <1>3, <2>3, <4>2
      <4> QED BY <4>1, <4>2
    <3>3. y \in D \ F <=> y \in (D \cup {x}) \ (F \cup {x})
      BY <1>1
    <3> QED BY <3>1, <3>2, <3>3
  <2>4. Pass(w, b, bundle, D \cup {x}, F \cup {x})
    BY <1>1, <1>3, <2>1, <2>2, <2>3 DEF Pass
  <2> QED BY <2>4
<1> QED BY <1>1, <1>2, <1>3, DepositStepForms

LEMMA PassUnfolds ==
    ASSUME NEW world, NEW bundle, NEW xs, NEW who
    PROVE  DepositPass(world, bundle, xs, who) =
               (CHOOSE h : h = [s \in SUBSET DOMAIN xs |->
                                   IF s = {} THEN [world |-> world, failed |-> <<>>]
                                   ELSE DepositStep(h[s \ {Max(s)}], xs[Max(s)], bundle, who)])
                   [DOMAIN xs]
BY Zenon DEF DepositPass, FoldLeft, MapThenFoldSet, DepositStep

LEMMA PassRun ==
    ASSUME NEW bundle \in [Assets -> Nat], NEW who \in Accounts, NEW w \in Worlds,
           NEW xs \in Seq(Assets)
    PROVE  \E f : Run(f, Len(xs), Passes, [world |-> w, failed |-> <<>>],
                      DepositSteps(xs, bundle, who), DepositPass(w, bundle, xs, who))
<1> DEFINE n == Len(xs)
           A == Passes
           base == [world |-> w, failed |-> <<>>]
           G == DepositSteps(xs, bundle, who)
           IsTable(h) == h = [s \in SUBSET DOMAIN xs |->
                                IF s = {} THEN [world |-> w, failed |-> <<>>]
                                ELSE DepositStep(h[s \ {Max(s)}], xs[Max(s)], bundle, who)]
           T == CHOOSE h : IsTable(h)
<1>1. n \in Nat /\ DOMAIN xs = 1 .. n /\ \A i \in 1 .. n : xs[i] \in Assets
  OBVIOUS
<1>2. base \in A
  <2>1. <<>> \in Seq(Assets)
    OBVIOUS
  <2> QED BY <2>1 DEF Passes
<1>3. \A u \in A, i \in 1 .. n : DepositStep(u, xs[i], bundle, who) \in A
  BY <1>1, DepositStepForms
<1>4. G \in [A \X (1 .. n) -> A]
  BY <1>3 DEF DepositSteps
<1>5. \A u \in A, i \in 1 .. n : G[<<u, i>>] = DepositStep(u, xs[i], bundle, who)
  BY <1>1 DEF DepositSteps
<1>6. \A s \in SUBSET (1 .. n) : s # {} => Max(s) \in 1 .. n
  BY <1>1, MaxIn
<1>7. PICK h \in [SUBSET (1 .. n) -> A] : Folds(h, n, base, G)
  <2> HIDE DEF A, G, base, n
  <2> QED BY <1>1, <1>2, <1>4, FoldTable
<1>8. IsTable(h)
  <2>1. \A s \in SUBSET (1 .. n) : s # {} =>
            G[<<h[s \ {Max(s)}], Max(s)>>] = DepositStep(h[s \ {Max(s)}], xs[Max(s)], bundle, who)
    BY <1>5, <1>6, <1>7
  <2> HIDE DEF G, A, n
  <2> QED BY <1>1, <1>7, <2>1 DEF Folds
<1>9. T = [s \in SUBSET (1 .. n) |->
               IF s = {} THEN base ELSE DepositStep(T[s \ {Max(s)}], xs[Max(s)], bundle, who)]
  <2>1. IsTable(T)
    BY <1>8
  <2> HIDE DEF T
  <2> QED BY <1>1, <2>1
<1>10. DepositPass(w, bundle, xs, who) = T[1 .. n]
  <2>1. DepositPass(w, bundle, xs, who) = T[DOMAIN xs]
    BY PassUnfolds
  <2> QED BY <1>1, <2>1
<1>11. T[{}] = base
  <2> HIDE DEF T, base
  <2> QED BY <1>9
<1>12. ASSUME NEW i \in 1 .. n, T[(1 .. i) \ {i}] \in A
       PROVE  T[1 .. i] = G[<<T[(1 .. i) \ {i}], i>>]
  <2>1. 1 .. i \in SUBSET (1 .. n) /\ i \in Nat \ {0}
    BY <1>1
  <2>2. 1 .. i # {} /\ Max(1 .. i) = i
    BY <2>1, Prefix
  <2> HIDE DEF T, A, G, n
  <2>3. T[1 .. i] = DepositStep(T[(1 .. i) \ {i}], xs[i], bundle, who)
    BY <1>9, <2>1, <2>2
  <2> QED BY <1>5, <1>12, <2>3
<1> HIDE DEF A, base, G, n, T, IsTable
<1>13. \E f : Run(f, n, A, base, G, T[1 .. n])
  BY <1>1, <1>2, <1>4, <1>11, <1>12, FoldRun
<1> QED BY <1>10, <1>13 DEF A, base, G, n

LEMMA DepositPassGives ==
    ASSUME NEW bundle \in [Assets -> Nat], NEW who \in Accounts, NEW w \in Worlds,
           NEW S \in SUBSET Assets, NEW xs, Lists(xs, S), NEW r, r = DepositPass(w, bundle, xs, who)
    PROVE  \E F \in SUBSET Assets : Pass(w, r, bundle, S, F)
<1> DEFINE n == Len(xs)
           Passed(acc, D) == \E F \in SUBSET Assets : Pass(w, acc, bundle, D, F)
<1>1. xs \in Seq(Assets) /\ n \in Nat
  <2>1. xs \in Seq(S)
    BY DEF Lists
  <2> QED BY <2>1
<1>2. PICK f : Run(f, n, Passes, [world |-> w, failed |-> <<>>], DepositSteps(xs, bundle, who), r)
  BY <1>1, PassRun
<1> DEFINE P == {i \in 0 .. n : Passed(f[i], Upto(xs, i))}
<1>3. /\ f[0] = [world |-> w, failed |-> <<>>] /\ f[n] = r
      /\ \A i \in 1 .. n : f[i] = DepositStep(f[i - 1], xs[i], bundle, who)
  <2>1. /\ f[0] = [world |-> w, failed |-> <<>>] /\ f[n] = r
        /\ \A i \in 1 .. n : /\ f[i - 1] \in Passes
                              /\ f[i] = DepositSteps(xs, bundle, who)[<<f[i - 1], i>>]
    BY <1>2 DEF Run
  <2> QED BY <2>1 DEF DepositSteps
<1>4. Passed(f[0], Upto(xs, 0))
  <2>1. f[0].world = w /\ f[0].failed = <<>> /\ f[0] \in Passes
    <3>1. <<>> \in Seq(Assets)
      OBVIOUS
    <3> QED BY <1>3, <3>1 DEF Passes
  <2>2. \A x \in Assets : Amount(w, x) = Amount(w, x) + 0
    BY AmountInt
  <2>3. Pass(w, f[0], bundle, {}, {})
    BY <2>1, <2>2, SteadySelf, ListsNone DEF Pass
  <2>4. Upto(xs, 0) = {}
    BY UptoGrows
  <2> QED BY <2>3, <2>4
<1>5. ASSUME NEW i \in 1 .. n, Passed(f[i - 1], Upto(xs, i - 1)) PROVE Passed(f[i], Upto(xs, i))
  <2>1. PICK F \in SUBSET Assets : Pass(w, f[i - 1], bundle, Upto(xs, i - 1), F)
    BY <1>5
  <2>2. xs[i] \in Assets /\ xs[i] \notin Upto(xs, i - 1) /\ Upto(xs, i) = Upto(xs, i - 1) \cup {xs[i]}
    BY UptoGrows
  <2>3. \/ Pass(w, f[i], bundle, Upto(xs, i - 1) \cup {xs[i]}, F)
        \/ Pass(w, f[i], bundle, Upto(xs, i - 1) \cup {xs[i]}, F \cup {xs[i]})
    BY <1>3, <2>1, <2>2, DepositStepPasses
  <2>4. F \cup {xs[i]} \in SUBSET Assets
    BY <2>2
  <2> QED BY <2>2, <2>3, <2>4
<1> HIDE DEF Passed
<1>6. 0 \in P /\ \A i \in 1 .. n : i - 1 \in P => i \in P
  <2>1. \A i \in 1 .. n : i \in 0 .. n
    BY <1>1
  <2>2. 0 \in 0 .. n
    BY <1>1
  <2> QED BY <1>4, <1>5, <2>1, <2>2
<1>7. 0 .. n \subseteq P
  <2> HIDE DEF P, n
  <2> QED BY <1>1, <1>6, StepsKeep
<1>8. Passed(f[n], Upto(xs, n))
  <2>1. n \in 0 .. n
    BY <1>1
  <2> QED BY <1>7, <2>1
<1>9. Upto(xs, n) = S
  BY UptoGrows
<1> QED BY <1>3, <1>8, <1>9 DEF Passed

\* Both passes.
LEMMA DepositAllGives ==
    ASSUME NEW bundle \in [Assets -> Nat], NEW who \in Accounts, World \in Worlds,
           NEW r, r = DepositAll(bundle, who)
    PROVE  /\ r.world \in Worlds /\ Steady(World.assets, r.world.assets) /\ r.retried \in BOOLEAN
           /\ r.failed = <<>> =>
                  \A x \in Assets : (x # Erc20 \/ ~r.retried) =>
                      Amount(r.world, x) = Amount(World, x) + bundle[x]
<1> DEFINE S == Named(bundle)
<1>1. PICK w \in Worlds : w = World
  OBVIOUS
<1>2. PICK p : p = DepositPass(w, bundle, InOrder(bundle), who)
  OBVIOUS
<1>3. PICK q : q = DepositPass(p.world, bundle, p.failed, who)
  OBVIOUS
<1>4. PICK F \in SUBSET Assets : Pass(w, p, bundle, S, F)
  <2>1. S \in SUBSET Assets /\ Lists(InOrder(bundle), S)
    BY InOrderLists DEF Named
  <2> QED BY <1>2, <2>1, DepositPassGives
<1>5. p \in Passes /\ p.world \in Worlds /\ Lists(p.failed, F) /\ Steady(w.assets, p.world.assets)
      /\ F \subseteq S
  BY <1>4 DEF Pass, Passes
<1>6. PICK H \in SUBSET Assets : Pass(p.world, q, bundle, F, H)
  BY <1>3, <1>5, DepositPassGives
<1>7. q \in Passes /\ q.world \in Worlds /\ Lists(q.failed, H) /\ Steady(p.world.assets, q.world.assets)
  BY <1>6 DEF Pass, Passes
<1>8. r.world = q.world /\ r.failed = q.failed /\ r.retried = (p.failed # <<>>)
  <2>1. r = [world |-> q.world, failed |-> q.failed, retried |-> p.failed # <<>>]
    BY <1>1, <1>2, <1>3 DEF DepositAll, Retry
  <2> QED BY <2>1
<1>9. ASSUME q.failed = <<>> PROVE H = {}
  BY <1>7, <1>9 DEF Lists
<1>10. ASSUME p.failed = <<>> PROVE F = {}
  BY <1>5, <1>10 DEF Lists
<1>11. ASSUME q.failed = <<>>, NEW x \in Assets, x # Erc20 \/ p.failed = <<>>
       PROVE  Amount(q.world, x) = Amount(w, x) + bundle[x]
  <2>1. x # Erc20 \/ x \notin F
    BY <1>10, <1>11
  <2>2. Amount(p.world, x) = Amount(w, x) + (IF x \in S \ F THEN bundle[x] ELSE 0)
    BY <1>4, <2>1 DEF Pass
  <2>3. Amount(q.world, x) = Amount(p.world, x) + (IF x \in F THEN bundle[x] ELSE 0)
    BY <1>6, <1>9, <1>11 DEF Pass
  <2>4. x \notin S => bundle[x] = 0
    BY DEF Named
  <2>5. Amount(w, x) \in Int /\ bundle[x] \in Nat
    BY AmountInt
  <2> HIDE DEF S
  <2> QED BY <1>5, <2>2, <2>3, <2>4, <2>5
<1>12. Steady(w.assets, q.world.assets)
  BY <1>5, <1>7, SteadyTwice
<1> QED BY <1>1, <1>7, <1>8, <1>11, <1>12

-----------------------------------------------------------------------------
(* Foreign assets: the calls                                               *)

\* A new asset enters both maps and gets a contract.
LEMMA CreatedAgree ==
    ASSUME NEW B, NEW L, NEW C, Agree(B, L, C), NEW id \in AssetIds, id \notin DOMAIN B,
           NEW location \in Locations, location \notin DOMAIN L
    PROVE  Agree(Put(B, id, location), Put(L, location, [id |-> id, status |-> "Active"]),
                 Put(C, id, [paused |-> FALSE, balances |-> [x \in Accounts |-> 0]]))
<1> DEFINE e == [id |-> id, status |-> "Active"]
           k == [paused |-> FALSE, balances |-> [x \in Accounts |-> 0]]
           B2 == Put(B, id, location)
           L2 == Put(L, location, e)
           C2 == Put(C, id, k)
<1>1. e \in [id : AssetIds, status : AssetStatus] /\ e.id = id /\ e.status = "Active"
  BY DEF AssetStatus
<1>2. k \in Contracts /\ k.paused = FALSE
  BY DEF Contracts
<1>3. /\ DOMAIN B2 = DOMAIN B \cup {id} /\ B2[id] = location
      /\ \A x \in DOMAIN B : x # id => B2[x] = B[x]
      /\ B2 \in [DOMAIN B2 -> Locations]
  <2>1. B \in [DOMAIN B -> Locations]
    BY DEF Agree
  <2> QED BY <2>1 DEF Put
<1> HIDE DEF e
<1>4. /\ DOMAIN L2 = DOMAIN L \cup {location} /\ L2[location] = e
      /\ \A x \in DOMAIN L : x # location => L2[x] = L[x]
      /\ L2 \in [DOMAIN L2 -> [id : AssetIds, status : AssetStatus]]
  <2>1. L \in [DOMAIN L -> [id : AssetIds, status : AssetStatus]]
    BY DEF Agree
  <2> QED BY <1>1, <2>1 DEF Put
<1> HIDE DEF k
<1>5. /\ DOMAIN C2 = DOMAIN C \cup {id} /\ C2[id] = k
      /\ \A x \in DOMAIN C : x # id => C2[x] = C[x]
      /\ C2 \in [DOMAIN C2 -> Contracts]
  <2>1. C \in [DOMAIN C -> Contracts]
    BY DEF Agree
  <2> QED BY <1>2, <2>1 DEF Put
<1> HIDE DEF B2, L2, C2
<1>6. ASSUME NEW x \in DOMAIN B2
      PROVE  /\ B2[x] \in DOMAIN L2 /\ L2[B2[x]].id = x
             /\ C2[x].paused <=> L2[B2[x]].status # "Active"
  <2>1. CASE x = id
    BY <2>1, <1>1, <1>2, <1>3, <1>4, <1>5
  <2>2. CASE x \in DOMAIN B
    <3>1. x # id /\ B[x] \in DOMAIN L /\ B[x] # location
      BY <2>2 DEF Agree
    <3> QED BY <2>2, <3>1, <1>3, <1>4, <1>5 DEF Agree
  <2> QED BY <2>1, <2>2, <1>3
<1>7. ASSUME NEW l \in DOMAIN L2
      PROVE  L2[l].id \in DOMAIN B2 /\ B2[L2[l].id] = l
  <2>1. CASE l = location
    BY <2>1, <1>1, <1>3, <1>4
  <2>2. CASE l \in DOMAIN L
    <3>1. l # location /\ L[l].id \in DOMAIN B /\ L[l].id # id
      BY <2>2 DEF Agree
    <3> QED BY <2>2, <3>1, <1>3, <1>4 DEF Agree
  <2> QED BY <2>1, <2>2, <1>4
<1>8. DOMAIN C2 = DOMAIN B2
  BY <1>3, <1>5 DEF Agree
<1>9. Agree(B2, L2, C2)
  BY <1>3, <1>4, <1>5, <1>6, <1>7, <1>8 DEF Agree
<1> QED BY <1>9 DEF B2, L2, C2, e, k

\* An asset moves to a free location and takes its status along.
LEMMA RelocatedAgree ==
    ASSUME NEW B, NEW L, NEW C, Agree(B, L, C), NEW id \in DOMAIN B,
           NEW new \in Locations, new \notin DOMAIN L
    PROVE  Agree([B EXCEPT ![id] = new],
                 Put(Without(L, B[id]), new, [id |-> id, status |-> L[B[id]].status]), C)
<1> DEFINE previous == B[id]
           e == [id |-> id, status |-> L[previous].status]
           W == Without(L, previous)
           B2 == [B EXCEPT ![id] = new]
           L2 == Put(W, new, e)
<1>1. previous \in DOMAIN L /\ L[previous].id = id /\ previous # new
  BY DEF Agree
<1>2. e \in [id : AssetIds, status : AssetStatus] /\ e.id = id /\ e.status = L[previous].status
  <2>1. L[previous] \in [id : AssetIds, status : AssetStatus]
    BY <1>1 DEF Agree
  <2> QED BY <1>1, <2>1
<1>3. /\ DOMAIN B2 = DOMAIN B /\ B2[id] = new
      /\ \A x \in DOMAIN B : x # id => B2[x] = B[x]
      /\ B2 \in [DOMAIN B2 -> Locations]
  BY DEF Agree
<1> HIDE DEF e, previous
<1>4. /\ DOMAIN W = DOMAIN L \ {previous}
      /\ \A x \in DOMAIN L : x # previous => W[x] = L[x]
      /\ W \in [DOMAIN W -> [id : AssetIds, status : AssetStatus]]
  <2>1. L \in [DOMAIN L -> [id : AssetIds, status : AssetStatus]]
    BY DEF Agree
  <2> QED BY <2>1 DEF Without
<1> HIDE DEF W
<1>5. /\ DOMAIN L2 = (DOMAIN L \ {previous}) \cup {new} /\ L2[new] = e
      /\ \A x \in DOMAIN L : x # previous /\ x # new => L2[x] = L[x]
      /\ L2 \in [DOMAIN L2 -> [id : AssetIds, status : AssetStatus]]
  <2>1. /\ DOMAIN L2 = DOMAIN W \cup {new} /\ L2[new] = e
        /\ \A x \in DOMAIN W : x # new => L2[x] = W[x]
        /\ L2 \in [DOMAIN L2 -> [id : AssetIds, status : AssetStatus]]
    BY <1>2, <1>4 DEF Put
  <2> HIDE DEF L2
  <2> QED BY <1>4, <2>1
<1> HIDE DEF B2, L2
<1>6. ASSUME NEW x \in DOMAIN B2
      PROVE  /\ B2[x] \in DOMAIN L2 /\ L2[B2[x]].id = x
             /\ C[x].paused <=> L2[B2[x]].status # "Active"
  <2>1. CASE x = id
    BY <2>1, <1>2, <1>3, <1>5 DEF Agree, previous
  <2>2. CASE x # id
    <3>1. x \in DOMAIN B /\ B[x] \in DOMAIN L /\ B[x] # new /\ B[x] # previous
      BY <2>2, <1>1, <1>3 DEF Agree
    <3> QED BY <2>2, <3>1, <1>3, <1>5 DEF Agree
  <2> QED BY <2>1, <2>2
<1>7. ASSUME NEW l \in DOMAIN L2
      PROVE  L2[l].id \in DOMAIN B2 /\ B2[L2[l].id] = l
  <2>1. CASE l = new
    BY <2>1, <1>2, <1>3, <1>5
  <2>2. CASE l # new
    <3>1. l \in DOMAIN L /\ l # previous /\ L2[l] = L[l]
      BY <2>2, <1>5
    <3>2. L[l].id \in DOMAIN B /\ B[L[l].id] = l
      BY <3>1 DEF Agree
    <3>3. L[l].id # id
      BY <3>1, <3>2 DEF previous
    <3> QED BY <3>1, <3>2, <3>3, <1>3
  <2> QED BY <2>1, <2>2
<1>8. Agree(B2, L2, C)
  BY <1>3, <1>5, <1>6, <1>7 DEF Agree
<1> QED BY <1>8 DEF B2, L2, W, e, previous

\* Status and contract of an asset change together.
LEMMA FrozenAgree ==
    ASSUME NEW B, NEW L, NEW C, Agree(B, L, C), NEW id \in DOMAIN B,
           NEW status \in AssetStatus, NEW paused \in BOOLEAN, paused <=> status # "Active"
    PROVE  Agree(B, [L EXCEPT ![B[id]] = [@ EXCEPT !.status = status]],
                 [C EXCEPT ![id] = [@ EXCEPT !.paused = paused]])
<1> DEFINE l0 == B[id]
           e == [L[l0] EXCEPT !.status = status]
           k == [C[id] EXCEPT !.paused = paused]
           L2 == [L EXCEPT ![l0] = e]
           C2 == [C EXCEPT ![id] = k]
<1>1. l0 \in DOMAIN L /\ L[l0] \in [id : AssetIds, status : AssetStatus] /\ L[l0].id = id
      /\ C[id] \in Contracts
  BY DEF Agree
<1> HIDE DEF l0
<1>2. e \in [id : AssetIds, status : AssetStatus] /\ e.id = id /\ e.status = status
  BY <1>1
<1>3. k \in Contracts /\ k.paused = paused
  BY <1>1 DEF Contracts
<1> HIDE DEF e, k
<1>4. /\ DOMAIN L2 = DOMAIN L /\ L2 \in [DOMAIN L -> [id : AssetIds, status : AssetStatus]]
      /\ L2[l0] = e /\ \A x \in DOMAIN L : x # l0 => L2[x] = L[x]
  BY <1>1, <1>2 DEF Agree
<1>5. /\ DOMAIN C2 = DOMAIN C /\ C2 \in [DOMAIN C -> Contracts]
      /\ C2[id] = k /\ \A x \in DOMAIN C : x # id => C2[x] = C[x]
  BY <1>3 DEF Agree
<1> HIDE DEF L2, C2
<1>6. ASSUME NEW x \in DOMAIN B
      PROVE  /\ B[x] \in DOMAIN L2 /\ L2[B[x]].id = x
             /\ C2[x].paused <=> L2[B[x]].status # "Active"
  <2>1. CASE x = id
    BY <2>1, <1>1, <1>2, <1>3, <1>4, <1>5 DEF l0
  <2>2. CASE x # id
    <3>1. B[x] \in DOMAIN L /\ B[x] # l0 /\ x \in DOMAIN C
      BY <2>2, <1>1 DEF Agree
    <3> QED BY <2>2, <3>1, <1>4, <1>5 DEF Agree
  <2> QED BY <2>1, <2>2
<1>7. ASSUME NEW l \in DOMAIN L2
      PROVE  L2[l].id \in DOMAIN B /\ B[L2[l].id] = l
  BY <1>1, <1>2, <1>4 DEF Agree, l0
<1>8. Agree(B, L2, C2)
  BY <1>4, <1>5, <1>6, <1>7 DEF Agree
<1> QED BY <1>8 DEF L2, C2, e, k, l0

\* What a call did to the maps and the contracts, all else as it was.
Became(a, b, byId, byLocation, contracts) ==
    b = State(byId, byLocation, a.creationDetails, contracts, a.native, a.reserved)

\* The same, and a deposit for an asset was reserved.
Reserved(a, b, byId, byLocation, contracts, id, account) ==
    /\ account \in Accounts /\ a.native[account] >= ForeignAssetCreationDeposit
    /\ b = State(byId, byLocation,
                 Put(a.creationDetails, id,
                     [account |-> account, deposit |-> ForeignAssetCreationDeposit]),
                 contracts,
                 [a.native EXCEPT ![account] = a.native[account] - ForeignAssetCreationDeposit],
                 [a.reserved EXCEPT ![account] = a.reserved[account] + ForeignAssetCreationDeposit])

LEMMA BecameSound ==
    ASSUME NEW a, Sound(a), NEW b, NEW B, NEW L, NEW C, Became(a, b, B, L, C), Agree(B, L, C),
           DOMAIN a.assetsById \subseteq DOMAIN B
    PROVE  Sound(b)
<1>1. Ledger(B, a.creationDetails, a.native, a.reserved)
  BY DEF Sound, Ledger
<1> QED BY <1>1, SoundFrom DEF Became

\* The deposit of a new asset is put on record and reserved.
LEMMA DepositLedger ==
    ASSUME NEW B, NEW D, NEW N, NEW R, Ledger(B, D, N, R), IsFiniteSet(DOMAIN B),
           NEW id, id \notin DOMAIN B, NEW B2, DOMAIN B2 = DOMAIN B \cup {id},
           NEW acc \in Accounts, NEW n \in Nat, N[acc] >= n
    PROVE  Ledger(B2, Put(D, id, [account |-> acc, deposit |-> n]),
                  [N EXCEPT ![acc] = N[acc] - n], [R EXCEPT ![acc] = R[acc] + n])
<1> DEFINE e == [account |-> acc, deposit |-> n]
           D2 == Put(D, id, e)
           N2 == [N EXCEPT ![acc] = N[acc] - n]
           R2 == [R EXCEPT ![acc] = R[acc] + n]
<1>a. /\ D \in [DOMAIN D -> [account : Accounts, deposit : Nat]]
      /\ DOMAIN D \subseteq DOMAIN B /\ id \notin DOMAIN D
      /\ N \in [Accounts -> Nat] /\ R \in [Accounts -> Nat]
  BY DEF Ledger
<1>1. e \in [account : Accounts, deposit : Nat] /\ e.account = acc /\ e.deposit = n
  OBVIOUS
<1> HIDE DEF e
<1>2. /\ DOMAIN D2 = DOMAIN D \cup {id} /\ D2[id] = e
      /\ \A y \in DOMAIN D : D2[y] = D[y]
      /\ D2 \in [DOMAIN D2 -> [account : Accounts, deposit : Nat]]
  BY <1>a, <1>1 DEF Put
<1> HIDE DEF D2
<1>3. N2 \in [Accounts -> Nat] /\ R2 \in [Accounts -> Nat]
      /\ R2[acc] = R[acc] + n /\ \A x \in Accounts : x # acc => R2[x] = R[x]
  BY <1>a
<1> HIDE DEF N2, R2
<1>4. ASSUME NEW x \in Accounts
      PROVE  R2[x] = SumFunctionOnSet(Deposits(D2), OfAccount(D2, x))
  <2> DEFINE S == OfAccount(D, x)
  <2>1. IsFiniteSet(S) /\ id \notin S /\ S \subseteq DOMAIN D
    <3>1. S \subseteq DOMAIN B
      BY <1>a DEF OfAccount
    <3> QED BY <3>1, <1>a, FS_Subset DEF OfAccount
  <2>2. \A y \in S : Deposits(D)[y] \in Int /\ Deposits(D)[y] = Deposits(D2)[y]
    <3>1. ASSUME NEW y \in DOMAIN D
          PROVE  Deposits(D)[y] \in Int /\ Deposits(D)[y] = Deposits(D2)[y]
      BY <1>a, <1>2 DEF Deposits
    <3> QED BY <3>1, <2>1
  <2>3. SumFunctionOnSet(Deposits(D), S) = SumFunctionOnSet(Deposits(D2), S)
    BY <2>1, <2>2, SumAgrees
  <2>4. R[x] = SumFunctionOnSet(Deposits(D2), S)
    BY <2>3 DEF Ledger
  <2>5. CASE x = acc
    <3>1. OfAccount(D2, x) = S \cup {id}
      BY <2>5, <1>1, <1>2 DEF OfAccount
    <3>2. Deposits(D2)[id] = n
      BY <1>1, <1>2 DEF Deposits
    <3>3. \A y \in S \cup {id} : Deposits(D2)[y] \in Int
      BY <2>2, <3>2
    <3> HIDE DEF S
    <3>4. SumFunctionOnSet(Deposits(D2), S \cup {id}) = n + SumFunctionOnSet(Deposits(D2), S)
      BY <2>1, <3>2, <3>3, SumAdds
    <3>5. R[x] \in Nat
      BY <1>a
    <3> QED BY <2>4, <2>5, <3>1, <3>4, <3>5, <1>3
  <2>6. CASE x # acc
    <3>1. OfAccount(D2, x) = S
      BY <2>6, <1>a, <1>1, <1>2 DEF OfAccount
    <3> QED BY <2>4, <2>6, <3>1, <1>3
  <2> QED BY <2>5, <2>6
<1>5. DOMAIN D2 \subseteq DOMAIN B2
  BY <1>a, <1>2
<1>6. Ledger(B2, D2, N2, R2)
  BY <1>2, <1>3, <1>4, <1>5 DEF Ledger
<1> QED BY <1>6 DEF D2, N2, R2, e

LEMMA CreateForm ==
    ASSUME NEW a, Sound(a), NEW origin, NEW id \in AssetIds, NEW location \in Locations,
           NEW b \in create_foreign_asset(a, origin, id, location),
           NEW B, B = Put(a.assetsById, id, location),
           NEW L, L = Put(a.assetsByLocation, location, [id |-> id, status |-> "Active"]),
           NEW C, C = Put(a.contracts, id, [paused |-> FALSE, balances |-> [x \in Accounts |-> 0]])
    PROVE  /\ id \notin DOMAIN a.assetsById /\ location \notin DOMAIN a.assetsByLocation
           /\ Became(a, b, B, L, C) \/ \E acc \in Accounts : Reserved(a, b, B, L, C, id, acc)
<1> DEFINE r == State(a.assetsById, a.assetsByLocation, a.creationDetails, a.contracts,
                      a.native, a.reserved)
           created == [a EXCEPT !.contracts = C, !.assetsById = B, !.assetsByLocation = L]
           acc == IF origin = Governance THEN "none" ELSE origin
           dep == ForeignAssetCreationDeposit
<1>1. b \in do_create_asset(a, id, location, acc)
  BY DEF create_foreign_asset
<1>a. acc # "none" => acc \in Accounts
  BY ForeignAssetsAssumption DEF create_foreign_asset, IsManager
<1> HIDE DEF acc
<1>2. /\ id \notin DOMAIN a.assetsById /\ location \notin DOMAIN a.assetsByLocation
      /\ \/ b = created
         \/ acc # "none" /\ \E x \in Reserve(created, acc, dep) :
               b = [x EXCEPT !.creationDetails = Put(x.creationDetails, id,
                       [account |-> acc, deposit |-> dep])]
  BY <1>1, Zenon DEF do_create_asset
<1>3. created = State(B, L, a.creationDetails, C, a.native, a.reserved)
  <2>1. a = r
    BY DEF Sound
  <2>2. created = [r EXCEPT !.contracts = C, !.assetsById = B, !.assetsByLocation = L]
    BY <2>1
  <2>3. created = [State(a.assetsById, a.assetsByLocation, a.creationDetails, a.contracts,
                         a.native, a.reserved)
                       EXCEPT !.contracts = C, !.assetsById = B, !.assetsByLocation = L]
    BY <2>2
  <2> HIDE DEF created
  <2> QED BY ONLY <2>3 DEF State
<1> HIDE DEF created
<1>5. ASSUME acc # "none", NEW x \in Reserve(created, acc, dep),
             b = [x EXCEPT !.creationDetails = Put(x.creationDetails, id,
                       [account |-> acc, deposit |-> dep])]
      PROVE  Reserved(a, b, B, L, C, id, acc)
  <2> DEFINE D == Put(x.creationDetails, id, [account |-> acc, deposit |-> dep])
             N == [created.native EXCEPT ![acc] = created.native[acc] - dep]
             R == [created.reserved EXCEPT ![acc] = created.reserved[acc] + dep]
  <2>1. b = [x EXCEPT !.creationDetails = D]
    BY <1>5
  <2>2. x = [created EXCEPT !.native = N, !.reserved = R] /\ created.native[acc] >= dep
    BY Zenon DEF Reserve
  <2>3. created.native = a.native /\ created.reserved = a.reserved
        /\ created.creationDetails = a.creationDetails
    BY <1>3 DEF State
  <2> HIDE DEF D, N, R
  <2>4. x = State(B, L, a.creationDetails, C, N, R)
    <3>1. x = [State(B, L, a.creationDetails, C, a.native, a.reserved)
                   EXCEPT !.native = N, !.reserved = R]
      BY <1>3, <2>2, Zenon
    <3> QED BY <3>1 DEF State
  <2>5. b = State(B, L, D, C, N, R)
    BY <2>1, <2>4 DEF State
  <2>6. x.creationDetails = a.creationDetails
    BY <2>4 DEF State
  <2>7. D = Put(a.creationDetails, id, [account |-> acc, deposit |-> dep])
        /\ N = [a.native EXCEPT ![acc] = a.native[acc] - dep]
        /\ R = [a.reserved EXCEPT ![acc] = a.reserved[acc] + dep]
    BY <2>3, <2>6 DEF D, N, R
  <2> QED BY <1>5, <1>a, <2>2, <2>3, <2>5, <2>7 DEF Reserved
<1>6. Became(a, b, B, L, C) \/ \E k \in Accounts : Reserved(a, b, B, L, C, id, k)
  <2>1. CASE b = created
    BY <1>3, <2>1 DEF Became
  <2>2. CASE b # created
    <3>1. acc \in Accounts /\ Reserved(a, b, B, L, C, id, acc)
      BY <1>2, <1>5, <1>a, <2>2
    <3> QED BY <3>1
  <2> QED BY <2>1, <2>2
<1> QED BY <1>2, <1>6

LEMMA CreateSound ==
    ASSUME NEW a, Sound(a), NEW origin, NEW id \in AssetIds, NEW location \in Locations,
           NEW b \in create_foreign_asset(a, origin, id, location)
    PROVE  /\ Sound(b)
           /\ SumFunction(b.native) + SumFunction(b.reserved)
              = SumFunction(a.native) + SumFunction(a.reserved)
<1> DEFINE B == Put(a.assetsById, id, location)
           L == Put(a.assetsByLocation, location, [id |-> id, status |-> "Active"])
           C == Put(a.contracts, id, [paused |-> FALSE, balances |-> [x \in Accounts |-> 0]])
           dep == ForeignAssetCreationDeposit
<1>a. /\ Agree(a.assetsById, a.assetsByLocation, a.contracts)
      /\ Ledger(a.assetsById, a.creationDetails, a.native, a.reserved)
      /\ a.native \in [Accounts -> Nat] /\ a.reserved \in [Accounts -> Nat]
  BY DEF Sound, Ledger
<1>1. /\ id \notin DOMAIN a.assetsById /\ location \notin DOMAIN a.assetsByLocation
      /\ Became(a, b, B, L, C) \/ \E acc \in Accounts : Reserved(a, b, B, L, C, id, acc)
  BY CreateForm
<1>2. Agree(B, L, C)
  BY <1>a, <1>1, CreatedAgree
<1>3. DOMAIN B = DOMAIN a.assetsById \cup {id}
  BY DEF Put
<1> HIDE DEF B, L, C
<1>4. CASE Became(a, b, B, L, C)
  <2>1. Sound(b)
    BY <1>2, <1>3, <1>4, BecameSound
  <2>2. b.native = a.native /\ b.reserved = a.reserved
    BY <1>4 DEF Became, State
  <2> QED BY <2>1, <2>2
<1>5. CASE \E acc \in Accounts : Reserved(a, b, B, L, C, id, acc)
  <2>1. PICK acc \in Accounts : Reserved(a, b, B, L, C, id, acc)
    BY <1>5
  <2> DEFINE D == Put(a.creationDetails, id, [account |-> acc, deposit |-> dep])
             n == a.native[acc] - dep
             r == a.reserved[acc] + dep
             N == [a.native EXCEPT ![acc] = n]
             R == [a.reserved EXCEPT ![acc] = r]
  <2>2. a.native[acc] >= dep /\ b = State(B, L, D, C, N, R)
    BY <2>1 DEF Reserved
  <2>3. Ledger(B, D, N, R)
    BY <1>a, <1>1, <1>3, <2>2, AgreeFinite, DepositLedger, ForeignAssetsAssumption
  <2>4. n \in Nat /\ r \in Nat /\ n - a.native[acc] = 0 - dep /\ r - a.reserved[acc] = dep
    BY <1>a, <2>2, ForeignAssetsAssumption
  <2> HIDE DEF n, r
  <2>5. /\ SumFunction(N) = SumFunction(a.native) + (n - a.native[acc])
        /\ SumFunction(R) = SumFunction(a.reserved) + (r - a.reserved[acc])
    BY <1>a, <2>4, SumOfOneChanged
  <2>6. SumFunction(a.native) \in Nat /\ SumFunction(a.reserved) \in Nat /\ dep \in Nat
    BY <1>a, SumOfNats, ForeignAssetsAssumption
  <2> HIDE DEF N, R, D, dep
  <2>7. b.native = N /\ b.reserved = R
    BY <2>2 DEF State
  <2>8. Sound(b)
    BY <1>2, <2>2, <2>3, SoundFrom
  <2>9. SumFunction(N) + SumFunction(R) = SumFunction(a.native) + SumFunction(a.reserved)
    BY ONLY <2>4, <2>5, <2>6
  <2> QED BY <2>7, <2>8, <2>9
<1> QED BY <1>1, <1>4, <1>5

LEMMA ChangeForm ==
    ASSUME NEW a, Sound(a), NEW origin, NEW id, NEW new \in Locations,
           NEW b \in change_xcm_location(a, origin, id, new)
    PROVE  /\ id \in DOMAIN a.assetsById /\ new \notin DOMAIN a.assetsByLocation
           /\ ensure_origin_can_modify_location(origin, new)
           /\ ensure_origin_can_modify_location(origin, a.assetsById[id])
           /\ Became(a, b, [a.assetsById EXCEPT ![id] = new],
                     Put(Without(a.assetsByLocation, a.assetsById[id]), new,
                         [id |-> id, status |-> a.assetsByLocation[a.assetsById[id]].status]),
                     a.contracts)
<1> DEFINE B == [a.assetsById EXCEPT ![id] = new]
           L == Put(Without(a.assetsByLocation, a.assetsById[id]), new,
                         [id |-> id, status |-> a.assetsByLocation[a.assetsById[id]].status])
           r == State(a.assetsById, a.assetsByLocation, a.creationDetails, a.contracts,
                      a.native, a.reserved)
<1>1. /\ id \in DOMAIN a.assetsById
      /\ ensure_origin_can_modify_location(origin, new)
      /\ ensure_origin_can_modify_location(origin, a.assetsById[id])
      /\ b \in do_change_xcm_location(a, id, new)
  BY Zenon DEF change_xcm_location
<1>2. new \notin DOMAIN a.assetsByLocation
      /\ b = [a EXCEPT !.assetsById[id] = new, !.assetsByLocation = L]
  BY <1>1, Zenon DEF do_change_xcm_location
<1>3. b = [a EXCEPT !.assetsById = B, !.assetsByLocation = L]
  BY <1>2, Zenon
<1> HIDE DEF B, L
<1>4. b = [r EXCEPT !.assetsById = B, !.assetsByLocation = L]
  BY <1>3 DEF Sound
<1>5. b = State(B, L, a.creationDetails, a.contracts, a.native, a.reserved)
  BY <1>4 DEF State
<1> QED BY <1>1, <1>2, <1>5 DEF Became, B, L

\* The status of an asset and its contract become frozen, or both active again.
FrozenForm(a, origin, id, b) ==
    /\ id \in DOMAIN a.assetsById
    /\ ensure_origin_can_modify_location(origin, a.assetsById[id])
    /\ \E status \in AssetStatus, paused \in BOOLEAN :
          /\ paused <=> status # "Active"
          /\ Became(a, b, a.assetsById,
                 [a.assetsByLocation EXCEPT ![a.assetsById[id]] = [@ EXCEPT !.status = status]],
                 [a.contracts EXCEPT ![id] = [@ EXCEPT !.paused = paused]])

LEMMA StatusForm ==
    ASSUME NEW a, Sound(a), NEW origin, NEW id, CanManage(a, origin, id),
           NEW status \in AssetStatus, NEW paused \in BOOLEAN, paused <=> status # "Active",
           NEW x, x = [a EXCEPT !.contracts[id].paused = paused],
           NEW b, b = [x EXCEPT !.assetsByLocation[x.assetsById[id]].status = status]
    PROVE  FrozenForm(a, origin, id, b)
<1> DEFINE C == [a.contracts EXCEPT ![id] = [@ EXCEPT !.paused = paused]]
           L == [a.assetsByLocation EXCEPT ![a.assetsById[id]] = [@ EXCEPT !.status = status]]
           r == State(a.assetsById, a.assetsByLocation, a.creationDetails, a.contracts,
                      a.native, a.reserved)
<1>1. x = [a EXCEPT !.contracts = C]
  BY Zenon
<1>2. x = [r EXCEPT !.contracts = C]
  BY <1>1 DEF Sound
<1>3. x = State(a.assetsById, a.assetsByLocation, a.creationDetails, C, a.native, a.reserved)
  BY <1>2 DEF State
<1>4. x.assetsById = a.assetsById /\ x.assetsByLocation = a.assetsByLocation
  BY <1>3 DEF State
<1> HIDE DEF C
<1>5. b = [x EXCEPT !.assetsByLocation = L]
  BY <1>4, Zenon
<1> HIDE DEF L
<1>6. b = State(a.assetsById, L, a.creationDetails, C, a.native, a.reserved)
  <2>1. b = [State(a.assetsById, a.assetsByLocation, a.creationDetails, C, a.native, a.reserved)
                 EXCEPT !.assetsByLocation = L]
    BY <1>3, <1>5, Zenon
  <2> QED BY <2>1 DEF State
<1>7. id \in DOMAIN a.assetsById /\ ensure_origin_can_modify_location(origin, a.assetsById[id])
  BY DEF CanManage
<1> QED BY <1>6, <1>7 DEF FrozenForm, Became, L, C

LEMMA FreezeForm ==
    ASSUME NEW a, Sound(a), NEW origin, NEW id, NEW allow \in BOOLEAN,
           NEW b \in freeze_foreign_asset(a, origin, id, allow)
    PROVE  FrozenForm(a, origin, id, b)
<1> DEFINE status == IF allow THEN "FrozenXcmDepositAllowed" ELSE "FrozenXcmDepositForbidden"
<1>1. PICK x \in Pause(a, id) :
          b = [x EXCEPT !.assetsByLocation[x.assetsById[id]].status = status]
  BY Zenon DEF freeze_foreign_asset
<1>2. CanManage(a, origin, id)
  BY DEF freeze_foreign_asset
<1>3. x = [a EXCEPT !.contracts[id].paused = TRUE]
  BY <1>1, Zenon DEF Pause
<1>4. status \in AssetStatus /\ status # "Active"
  BY DEF AssetStatus
<1> HIDE DEF status
<1> QED BY <1>1, <1>2, <1>3, <1>4, StatusForm

LEMMA UnfreezeForm ==
    ASSUME NEW a, Sound(a), NEW origin, NEW id,
           NEW b \in unfreeze_foreign_asset(a, origin, id)
    PROVE  FrozenForm(a, origin, id, b)
<1>1. PICK x \in Unpause(a, id) :
          b = [x EXCEPT !.assetsByLocation[x.assetsById[id]].status = "Active"]
  BY Zenon DEF unfreeze_foreign_asset
<1>2. CanManage(a, origin, id)
  BY DEF unfreeze_foreign_asset
<1>3. x = [a EXCEPT !.contracts[id].paused = FALSE]
  BY <1>1, Zenon DEF Unpause
<1>4. "Active" \in AssetStatus
  BY DEF AssetStatus
<1> QED BY <1>1, <1>2, <1>3, <1>4, StatusForm

-----------------------------------------------------------------------------
(* What a call leaves of the assets there are                              *)

LEMMA BecameParts ==
    ASSUME NEW a, NEW b, NEW B, NEW L, NEW C, Became(a, b, B, L, C)
    PROVE  /\ b.assetsById = B /\ b.assetsByLocation = L /\ b.contracts = C
           /\ b.native = a.native /\ b.reserved = a.reserved
BY DEF Became, State

LEMMA CreatedParts ==
    ASSUME NEW a, NEW b, NEW B, NEW L, NEW C, NEW id,
           Became(a, b, B, L, C) \/ \E acc \in Accounts : Reserved(a, b, B, L, C, id, acc)
    PROVE  b.assetsById = B /\ b.assetsByLocation = L /\ b.contracts = C
<1>1. ASSUME NEW acc \in Accounts, Reserved(a, b, B, L, C, id, acc)
      PROVE  b.assetsById = B /\ b.assetsByLocation = L /\ b.contracts = C
  <2>1. PICK D, N, R : b = State(B, L, D, C, N, R)
    BY <1>1 DEF Reserved
  <2> QED BY <2>1 DEF State
<1> QED BY <1>1, BecameParts

\* The status of an asset in a state whose maps agree.
LEMMA StatusIn ==
    ASSUME NEW a, Sound(a), NEW id \in DOMAIN a.assetsById
    PROVE  StatusOf(a, id) = a.assetsByLocation[a.assetsById[id]].status
BY DEF StatusOf, Sound, Agree

\* A call moved the asset or changed its status.
Touched(a, b, id) == b.assetsById[id] # a.assetsById[id] \/ StatusOf(b, id) # StatusOf(a, id)

LEMMA CreateTouchesNone ==
    ASSUME NEW a, Sound(a), NEW origin, NEW id \in AssetIds, NEW location \in Locations,
           NEW b \in create_foreign_asset(a, origin, id, location), NEW x \in DOMAIN a.assetsById
    PROVE  ~Touched(a, b, x) /\ b.contracts[x] = a.contracts[x]
<1> DEFINE B == Put(a.assetsById, id, location)
           L == Put(a.assetsByLocation, location, [id |-> id, status |-> "Active"])
           C == Put(a.contracts, id, [paused |-> FALSE, balances |-> [y \in Accounts |-> 0]])
<1>0. /\ id \notin DOMAIN a.assetsById /\ location \notin DOMAIN a.assetsByLocation
      /\ Became(a, b, B, L, C) \/ \E acc \in Accounts : Reserved(a, b, B, L, C, id, acc)
  BY CreateForm
<1> HIDE DEF B, L, C
<1>a. b.assetsById = B /\ b.assetsByLocation = L /\ b.contracts = C
  BY <1>0, CreatedParts
<1> USE DEF B, L, C
<1>1. /\ id \notin DOMAIN a.assetsById /\ location \notin DOMAIN a.assetsByLocation
      /\ b.assetsById = Put(a.assetsById, id, location)
      /\ b.assetsByLocation =
             Put(a.assetsByLocation, location, [id |-> id, status |-> "Active"])
      /\ b.contracts =
             Put(a.contracts, id, [paused |-> FALSE, balances |-> [y \in Accounts |-> 0]])
  BY <1>0, <1>a
<1>2. /\ x # id /\ a.assetsById[x] # location
      /\ a.assetsById[x] \in DOMAIN a.assetsByLocation /\ x \in DOMAIN a.contracts
  BY <1>1 DEF Sound, Agree
<1>3. b.assetsById[x] = a.assetsById[x]
  BY <1>1, <1>2 DEF Put
<1>4. /\ a.assetsById[x] \in DOMAIN b.assetsByLocation
      /\ b.assetsByLocation[a.assetsById[x]] = a.assetsByLocation[a.assetsById[x]]
  BY <1>1, <1>2 DEF Put
<1>5. b.contracts[x] = a.contracts[x]
  BY <1>1, <1>2 DEF Put
<1> QED BY <1>2, <1>3, <1>4, <1>5 DEF Touched, StatusOf

LEMMA ChangeTouchesOwn ==
    ASSUME NEW a, Sound(a), NEW origin, NEW id, NEW new \in Locations,
           NEW b \in change_xcm_location(a, origin, id, new), NEW x \in DOMAIN a.assetsById
    PROVE  /\ Touched(a, b, x) =>
                  /\ ensure_origin_can_modify_location(origin, a.assetsById[x])
                  /\ ensure_origin_can_modify_location(origin, b.assetsById[x])
           /\ b.contracts = a.contracts
<1>1. /\ id \in DOMAIN a.assetsById /\ new \notin DOMAIN a.assetsByLocation
      /\ ensure_origin_can_modify_location(origin, new)
      /\ ensure_origin_can_modify_location(origin, a.assetsById[id])
      /\ b.assetsById = [a.assetsById EXCEPT ![id] = new]
      /\ b.assetsByLocation =
             Put(Without(a.assetsByLocation, a.assetsById[id]), new,
                 [id |-> id, status |-> a.assetsByLocation[a.assetsById[id]].status])
      /\ b.contracts = a.contracts
  BY ChangeForm, BecameParts
<1>2. CASE x = id
  BY <1>1, <1>2
<1>3. CASE x # id
  <2>1. b.assetsById[x] = a.assetsById[x]
    BY <1>1, <1>3
  <2>2. /\ a.assetsById[x] \in DOMAIN a.assetsByLocation
        /\ a.assetsById[x] # new /\ a.assetsById[x] # a.assetsById[id]
    BY <1>1, <1>3 DEF Sound, Agree
  <2>3. /\ a.assetsById[x] \in DOMAIN b.assetsByLocation
        /\ b.assetsByLocation[a.assetsById[x]] = a.assetsByLocation[a.assetsById[x]]
    BY <1>1, <2>2 DEF Put, Without
  <2> QED BY <1>1, <2>1, <2>2, <2>3 DEF Touched, StatusOf
<1> QED BY <1>2, <1>3

LEMMA FrozenTouchesOwn ==
    ASSUME NEW a, Sound(a), NEW origin, NEW id, NEW b, FrozenForm(a, origin, id, b),
           NEW x \in DOMAIN a.assetsById
    PROVE  /\ Touched(a, b, x) =>
                  /\ ensure_origin_can_modify_location(origin, a.assetsById[x])
                  /\ ensure_origin_can_modify_location(origin, b.assetsById[x])
           /\ b.contracts[x].balances = a.contracts[x].balances
<1>1. PICK status \in AssetStatus, paused \in BOOLEAN :
          Became(a, b, a.assetsById,
                 [a.assetsByLocation EXCEPT ![a.assetsById[id]] = [@ EXCEPT !.status = status]],
                 [a.contracts EXCEPT ![id] = [@ EXCEPT !.paused = paused]])
  BY DEF FrozenForm
<1>2. /\ b.assetsById = a.assetsById
      /\ b.assetsByLocation =
             [a.assetsByLocation EXCEPT ![a.assetsById[id]] = [@ EXCEPT !.status = status]]
      /\ b.contracts = [a.contracts EXCEPT ![id] = [@ EXCEPT !.paused = paused]]
  BY <1>1, BecameParts
<1>3. id \in DOMAIN a.assetsById /\ ensure_origin_can_modify_location(origin, a.assetsById[id])
  BY DEF FrozenForm
<1>4. x \in DOMAIN a.contracts /\ a.contracts[x] \in Contracts
  BY DEF Sound, Agree
<1>5. CASE x = id
  <2>1. b.contracts[x] = [a.contracts[x] EXCEPT !.paused = paused]
    BY <1>2, <1>4, <1>5
  <2>2. b.contracts[x].balances = a.contracts[x].balances
    BY <1>4, <2>1 DEF Contracts
  <2> QED BY <1>2, <1>3, <1>5, <2>2
<1>6. CASE x # id
  <2>1. b.contracts[x] = a.contracts[x]
    BY <1>2, <1>4, <1>6
  <2>2. /\ a.assetsById[x] \in DOMAIN a.assetsByLocation
        /\ a.assetsById[x] # a.assetsById[id]
    BY <1>3, <1>6 DEF Sound, Agree
  <2>3. /\ a.assetsById[x] \in DOMAIN b.assetsByLocation
        /\ b.assetsByLocation[a.assetsById[x]] = a.assetsByLocation[a.assetsById[x]]
    BY <1>2, <2>2
  <2> QED BY <1>2, <2>1, <2>2, <2>3 DEF Touched, StatusOf
<1> QED BY <1>5, <1>6

\* What a call of the origin may do.
Called(a, b, origin) ==
    /\ Sound(b)
    /\ \A x \in DOMAIN a.assetsById :
           /\ x \in DOMAIN b.assetsById
           /\ Touched(a, b, x) =>
                  /\ ensure_origin_can_modify_location(origin, a.assetsById[x])
                  /\ ensure_origin_can_modify_location(origin, b.assetsById[x])
           /\ b.contracts[x].balances = a.contracts[x].balances
    /\ \A x \in DOMAIN b.contracts \ DOMAIN a.contracts :
           b.contracts[x].balances = [y \in Accounts |-> 0]
    /\ SumFunction(b.native) + SumFunction(b.reserved)
       = SumFunction(a.native) + SumFunction(a.reserved)

LEMMA CreateCalled ==
    ASSUME NEW a, Sound(a), NEW origin, NEW id \in AssetIds, NEW location \in Locations,
           NEW b \in create_foreign_asset(a, origin, id, location)
    PROVE  Called(a, b, origin)
<1> DEFINE B == Put(a.assetsById, id, location)
           L == Put(a.assetsByLocation, location, [id |-> id, status |-> "Active"])
           k == [paused |-> FALSE, balances |-> [y \in Accounts |-> 0]]
           C == Put(a.contracts, id, k)
<1>1. Became(a, b, B, L, C) \/ \E acc \in Accounts : Reserved(a, b, B, L, C, id, acc)
  BY CreateForm
<1>2. k.balances = [y \in Accounts |-> 0]
  OBVIOUS
<1> HIDE DEF k
<1>3. /\ DOMAIN B = DOMAIN a.assetsById \cup {id}
      /\ DOMAIN C = DOMAIN a.contracts \cup {id} /\ C[id] = k
  BY DEF Put
<1> HIDE DEF B, L, C
<1>4. b.assetsById = B /\ b.assetsByLocation = L /\ b.contracts = C
  BY <1>1, CreatedParts
<1>5. ASSUME NEW x \in DOMAIN a.assetsById
      PROVE  /\ x \in DOMAIN b.assetsById /\ ~Touched(a, b, x)
             /\ b.contracts[x].balances = a.contracts[x].balances
  BY <1>3, <1>4, CreateTouchesNone
<1>6. \A x \in DOMAIN b.contracts \ DOMAIN a.contracts : b.contracts[x] = k
  BY <1>3, <1>4
<1> QED BY <1>2, <1>5, <1>6, CreateSound DEF Called

LEMMA ChangeCalled ==
    ASSUME NEW a, Sound(a), NEW origin, NEW id, NEW new \in Locations,
           NEW b \in change_xcm_location(a, origin, id, new)
    PROVE  Called(a, b, origin)
<1> DEFINE B == [a.assetsById EXCEPT ![id] = new]
           L == Put(Without(a.assetsByLocation, a.assetsById[id]), new,
                    [id |-> id, status |-> a.assetsByLocation[a.assetsById[id]].status])
<1>1. /\ id \in DOMAIN a.assetsById /\ new \notin DOMAIN a.assetsByLocation
      /\ Became(a, b, B, L, a.contracts)
  BY ChangeForm
<1>2. Agree(a.assetsById, a.assetsByLocation, a.contracts)
  BY DEF Sound
<1>3. Agree(B, L, a.contracts)
  BY <1>1, <1>2, RelocatedAgree
<1>4. DOMAIN B = DOMAIN a.assetsById
  OBVIOUS
<1> HIDE DEF B, L
<1>5. b.assetsById = B /\ b.contracts = a.contracts /\ b.native = a.native /\ b.reserved = a.reserved
  BY <1>1, BecameParts
<1>6. Sound(b)
  BY <1>1, <1>3, <1>4, BecameSound
<1>7. ASSUME NEW x \in DOMAIN a.assetsById
      PROVE  /\ Touched(a, b, x) =>
                    /\ ensure_origin_can_modify_location(origin, a.assetsById[x])
                    /\ ensure_origin_can_modify_location(origin, b.assetsById[x])
  BY ChangeTouchesOwn
<1> QED BY <1>4, <1>5, <1>6, <1>7 DEF Called

LEMMA FrozenCalled ==
    ASSUME NEW a, Sound(a), NEW origin, NEW id, NEW b, FrozenForm(a, origin, id, b)
    PROVE  Called(a, b, origin)
<1>1. id \in DOMAIN a.assetsById
  BY DEF FrozenForm
<1>2. PICK status \in AssetStatus, paused \in BOOLEAN :
          /\ paused <=> status # "Active"
          /\ Became(a, b, a.assetsById,
                 [a.assetsByLocation EXCEPT ![a.assetsById[id]] = [@ EXCEPT !.status = status]],
                 [a.contracts EXCEPT ![id] = [@ EXCEPT !.paused = paused]])
  BY DEF FrozenForm
<1> DEFINE L == [a.assetsByLocation EXCEPT ![a.assetsById[id]] = [@ EXCEPT !.status = status]]
           C == [a.contracts EXCEPT ![id] = [@ EXCEPT !.paused = paused]]
<1>3. Agree(a.assetsById, a.assetsByLocation, a.contracts)
  BY DEF Sound
<1>4. Agree(a.assetsById, L, C)
  BY <1>1, <1>2, <1>3, FrozenAgree
<1>5. DOMAIN C = DOMAIN a.contracts
  OBVIOUS
<1>6. Became(a, b, a.assetsById, L, C)
  BY <1>2
<1> HIDE DEF L, C
<1>7. b.assetsById = a.assetsById /\ b.contracts = C /\ b.native = a.native /\ b.reserved = a.reserved
  BY <1>6, BecameParts
<1>8. Sound(b)
  BY <1>4, <1>6, BecameSound
<1> QED BY <1>5, <1>7, <1>8, FrozenTouchesOwn DEF Called

\* Whatever call an origin makes in a message or governance between messages.
LEMMA CallsAreCalled ==
    ASSUME Sound(assets), NEW origin, NEW b \in CallsOf(origin)
    PROVE  Called(assets, b, origin)
<1> DEFINE U == UNION {create_foreign_asset(assets, origin, id, l) : id \in AssetIds, l \in Locations}
           V == UNION {change_xcm_location(assets, origin, id, l) : id \in AssetIds, l \in Locations}
           W == UNION {freeze_foreign_asset(assets, origin, id, allow) :
                           id \in AssetIds, allow \in BOOLEAN}
           X == UNION {unfreeze_foreign_asset(assets, origin, id) : id \in AssetIds}
<1>1. CallsOf(origin) =
          (UNION {create_foreign_asset(assets, origin, id, l) : id \in AssetIds, l \in Locations})
          \cup (UNION {change_xcm_location(assets, origin, id, l) : id \in AssetIds, l \in Locations})
          \cup (UNION {freeze_foreign_asset(assets, origin, id, allow) :
                          id \in AssetIds, allow \in BOOLEAN})
          \cup (UNION {unfreeze_foreign_asset(assets, origin, id) : id \in AssetIds})
  BY DEF CallsOf
<1>2. CASE b \in U
  BY <1>2, CreateCalled
<1>3. CASE b \in V
  BY <1>3, ChangeCalled
<1>4. CASE b \in W
  BY <1>4, FreezeForm, FrozenCalled
<1>5. CASE b \in X
  BY <1>5, UnfreezeForm, FrozenCalled
<1>6. b \in U \/ b \in V \/ b \in W \/ b \in X
  BY ONLY <1>1, b \in CallsOf(origin)
<1> QED BY <1>2, <1>3, <1>4, <1>5, <1>6

-----------------------------------------------------------------------------
(* The totals                                                              *)

SupplyOf(a) ==
    SumFunction([id \in DOMAIN a.contracts |-> SumFunction(a.contracts[id].balances)])

HeldIn(a) == [x \in Locations |-> Held(a, x)]

\* The supply summed over contracts is what is held, summed over locations.
LEMMA SupplyIsHeld ==
    ASSUME NEW a, Sound(a)
    PROVE  SupplyOf(a) \in Nat /\ SupplyOf(a) = SumOver(HeldIn(a))
<1> DEFINE S == DOMAIN a.contracts
           T == DOMAIN a.assetsByLocation
           f == [id \in S |-> SumFunction(a.contracts[id].balances)]
           g == HeldIn(a)
<1>1. Agree(a.assetsById, a.assetsByLocation, a.contracts)
  BY DEF Sound
<1>a. IsFiniteSet(S) /\ T \subseteq Locations
  BY <1>1, AgreeFinite
<1>2. IsFiniteSet(S) /\ T \subseteq Locations /\ S = DOMAIN a.assetsById
  BY <1>1, <1>a DEF Agree
<1>3. \A id \in S : f[id] \in Nat
  <2>1. \A id \in S : a.contracts[id].balances \in [Accounts -> Nat]
    BY <1>1 DEF Agree, Contracts
  <2> QED BY <2>1, SumOfNats
<1>4. \A x \in Locations : g[x] \in Int
  BY HeldNat DEF HeldIn, Kinds
<1>5. \A x \in S : a.assetsById[x] \in T /\ f[x] = g[a.assetsById[x]]
  <2>1. \A x \in T : g[x] = SumFunction(a.contracts[a.assetsByLocation[x].id].balances)
    BY <1>2, XcmExecutionAssumption DEF HeldIn, Held
  <2> HIDE DEF g
  <2> QED BY <1>1, <1>2, <2>1 DEF Agree
<1>6. \A y \in T : g[y] \in Int /\ \E x \in S : y = a.assetsById[x]
  <2> HIDE DEF g
  <2> QED BY <1>1, <1>2, <1>4 DEF Agree
<1>7. \A x, y \in S : a.assetsById[x] = a.assetsById[y] => x = y
  BY <1>1, <1>2 DEF Agree
<1>8. \A x \in Locations \ T : g[x] = 0
  BY XcmExecutionAssumption DEF HeldIn, Held
<1>9. DOMAIN f = S /\ SupplyOf(a) = SumFunction(f)
  BY DEF SupplyOf
<1> HIDE DEF f, g, S, T
<1>10. SumFunction(f) = SumFunctionOnSet(f, S)
  BY <1>9, SumIs
<1>11. SumFunctionOnSet(f, S) = SumFunctionOnSet(g, T)
  BY <1>2, <1>5, <1>6, <1>7, SumRenamed
<1>12. SumFunctionOnSet(g, Locations) = SumFunctionOnSet(g, T)
  BY <1>2, <1>4, <1>8, SumOfPart, ForeignAssetsAssumption
<1>13. SumFunctionOnSet(f, S) \in Nat
  BY <1>2, <1>3, SumNat
<1> QED BY <1>9, <1>10, <1>11, <1>12, <1>13 DEF g, SumOver

LEMMA SumOfZeros == SumFunction([y \in Accounts |-> 0]) = 0
<1>1. PICK c \in Int : c = 0
  OBVIOUS
<1>2. SumFunctionOnSet([y \in Accounts |-> c], Accounts) = c * Cardinality(Accounts)
  BY SumOfEquals, ForeignAssetsAssumption
<1>3. Cardinality(Accounts) \in Nat
  BY FS_CardinalityType, ForeignAssetsAssumption
<1>4. c * Cardinality(Accounts) = 0
  BY <1>1, <1>3
<1> DEFINE f == [y \in Accounts |-> c]
<1>5. DOMAIN f = Accounts
  OBVIOUS
<1> HIDE DEF f
<1>6. SumFunction(f) = SumFunctionOnSet(f, Accounts)
  BY <1>5, SumIs
<1>7. SumFunction(f) = 0
  BY <1>2, <1>4, <1>6 DEF f
<1> QED BY <1>1, <1>7 DEF f

\* No call makes or destroys tokens.
LEMMA CalledSupply ==
    ASSUME NEW a, Sound(a), NEW origin, NEW b, Called(a, b, origin)
    PROVE  SupplyOf(b) = SupplyOf(a)
<1> DEFINE S == DOMAIN a.contracts
           U == DOMAIN b.contracts
           f == [id \in S |-> SumFunction(a.contracts[id].balances)]
           g == [id \in U |-> SumFunction(b.contracts[id].balances)]
<1>1. /\ Agree(a.assetsById, a.assetsByLocation, a.contracts)
      /\ Agree(b.assetsById, b.assetsByLocation, b.contracts)
  BY DEF Sound, Called
<1>a. IsFiniteSet(U)
  BY <1>1, AgreeFinite
<1>b. S = DOMAIN a.assetsById /\ U = DOMAIN b.assetsById
  BY <1>1 DEF Agree
<1>2. IsFiniteSet(U) /\ S \subseteq U /\ S = DOMAIN a.assetsById
  BY <1>a, <1>b DEF Called
<1>3. \A id \in U : g[id] \in Int
  <2>1. \A id \in U : b.contracts[id].balances \in [Accounts -> Nat]
    BY <1>1 DEF Agree, Contracts
  <2> QED BY <2>1, SumOfNats
<1>4. \A id \in S : g[id] = f[id]
  BY <1>2 DEF Called
<1>5. \A id \in U \ S : g[id] = 0
  BY SumOfZeros DEF Called
<1>6. /\ DOMAIN f = S /\ SupplyOf(a) = SumFunction(f)
      /\ DOMAIN g = U /\ SupplyOf(b) = SumFunction(g)
  BY DEF SupplyOf
<1> HIDE DEF f, g, S, U
<1>7. SumFunction(f) = SumFunctionOnSet(f, S) /\ SumFunction(g) = SumFunctionOnSet(g, U)
  BY <1>6, SumIs
<1>8. SumFunctionOnSet(g, U) = SumFunctionOnSet(g, S)
  BY <1>2, <1>3, <1>5, SumOfPart
<1>9. IsFiniteSet(S) /\ \A x \in S : g[x] \in Int /\ g[x] = f[x]
  BY <1>2, <1>3, <1>4, FS_Subset
<1>10. SumFunctionOnSet(g, S) = SumFunctionOnSet(f, S)
  BY <1>9, SumAgrees
<1> QED BY <1>6, <1>7, <1>8, <1>10

AddsUp(p, a1, a2, a3, a4, a5) ==
    \A x \in Locations : /\ a1[x] \in Int /\ a2[x] \in Int /\ a3[x] \in Int
                         /\ a4[x] \in Int /\ a5[x] \in Int
                         /\ p[x] = a1[x] + a2[x] + a3[x] + a4[x] + a5[x]

AddsUpInAll(p, a1, a2, a3, a4, a5) ==
    /\ SumOver(a1) \in Int /\ SumOver(a2) \in Int /\ SumOver(a3) \in Int
    /\ SumOver(a4) \in Int /\ SumOver(a5) \in Int
    /\ SumOver(p) = SumOver(a1) + SumOver(a2) + SumOver(a3) + SumOver(a4) + SumOver(a5)

LEMMA SumOfFive ==
    ASSUME NEW a1, NEW a2, NEW a3, NEW a4, NEW a5, NEW p, AddsUp(p, a1, a2, a3, a4, a5)
    PROVE  AddsUpInAll(p, a1, a2, a3, a4, a5)
<1> USE DEF AddsUp, AddsUpInAll
<1>0. IsFiniteSet(Locations)
  BY ForeignAssetsAssumption
<1> DEFINE b2 == [x \in Locations |-> a1[x] + a2[x]]
           b3 == [x \in Locations |-> b2[x] + a3[x]]
           b4 == [x \in Locations |-> b3[x] + a4[x]]
<1>1. \A x \in Locations : b2[x] \in Int /\ b2[x] = a1[x] + a2[x]
  OBVIOUS
<1> HIDE DEF b2
<1>2. \A x \in Locations : b3[x] \in Int /\ b3[x] = b2[x] + a3[x]
  BY <1>1
<1> HIDE DEF b3
<1>3. \A x \in Locations : b4[x] \in Int /\ b4[x] = b3[x] + a4[x]
  BY <1>2
<1> HIDE DEF b4
<1>4. \A x \in Locations : p[x] = b4[x] + a5[x]
  BY <1>1, <1>2, <1>3
<1>5. SumFunctionOnSet(b2, Locations)
      = SumFunctionOnSet(a1, Locations) + SumFunctionOnSet(a2, Locations)
  BY <1>0, <1>1, SumPlus
<1>6. SumFunctionOnSet(b3, Locations)
      = SumFunctionOnSet(b2, Locations) + SumFunctionOnSet(a3, Locations)
  BY <1>0, <1>1, <1>2, SumPlus
<1>7. SumFunctionOnSet(b4, Locations)
      = SumFunctionOnSet(b3, Locations) + SumFunctionOnSet(a4, Locations)
  BY <1>0, <1>2, <1>3, SumPlus
<1>8. SumFunctionOnSet(p, Locations)
      = SumFunctionOnSet(b4, Locations) + SumFunctionOnSet(a5, Locations)
  BY <1>0, <1>3, <1>4, SumPlus
<1>9. /\ SumFunctionOnSet(a1, Locations) \in Int /\ SumFunctionOnSet(a2, Locations) \in Int
      /\ SumFunctionOnSet(a3, Locations) \in Int /\ SumFunctionOnSet(a4, Locations) \in Int
      /\ SumFunctionOnSet(a5, Locations) \in Int
  BY <1>0, SumType
<1> QED BY <1>5, <1>6, <1>7, <1>8, <1>9 DEF SumOver

EvenOut(h, f, l, d, i, h2, f2, l2, e, i2) ==
    \A x \in Locations :
        /\ h[x] \in Int /\ f[x] \in Int /\ l[x] \in Int /\ d[x] \in Int /\ i[x] \in Int
        /\ h2[x] \in Int /\ f2[x] \in Int /\ l2[x] \in Int /\ e[x] \in Int /\ i2[x] \in Int
        /\ h2[x] + f2[x] + l2[x] + d[x] + i[x] = h[x] + f[x] + l[x] + e[x] + i2[x]

EvenOutInAll(h, f, l, d, i, h2, f2, l2, e, i2) ==
    /\ SumOver(h2) + SumOver(f2) + SumOver(l2) + SumOver(d) + SumOver(i)
       = SumOver(h) + SumOver(f) + SumOver(l) + SumOver(e) + SumOver(i2)
    /\ SumOver(h) \in Int /\ SumOver(f) \in Int /\ SumOver(l) \in Int
    /\ SumOver(d) \in Int /\ SumOver(i) \in Int
    /\ SumOver(h2) \in Int /\ SumOver(f2) \in Int /\ SumOver(l2) \in Int
    /\ SumOver(e) \in Int /\ SumOver(i2) \in Int

\* What is gained at one place is lost at another, asset by asset and in total.
LEMMA TotalsStay ==
    ASSUME NEW h, NEW f, NEW l, NEW d, NEW i, NEW h2, NEW f2, NEW l2, NEW e, NEW i2,
           EvenOut(h, f, l, d, i, h2, f2, l2, e, i2)
    PROVE  EvenOutInAll(h, f, l, d, i, h2, f2, l2, e, i2)
<1> DEFINE p == [x \in Locations |-> h2[x] + f2[x] + l2[x] + d[x] + i[x]]
<1>1. AddsUp(p, h2, f2, l2, d, i) /\ AddsUp(p, h, f, l, e, i2)
  BY DEF AddsUp, EvenOut
<1> HIDE DEF p
<1>2. AddsUpInAll(p, h2, f2, l2, d, i) /\ AddsUpInAll(p, h, f, l, e, i2)
  BY <1>1, SumOfFive
<1> QED BY <1>2 DEF AddsUpInAll, EvenOutInAll

-----------------------------------------------------------------------------
(* The traps                                                               *)

Traps == [who : Accounts, assets : {h \in [Assets -> Nat] : h[Erc20] = 0}, message : Nat]

Trapped(T) == SumFunction([t \in T |-> SumOver(t.assets)])
TrappedNative(T) == SumFunction([t \in T |-> t.assets[NativeLocation]])

\* g has one entry more than f.
HasMore(f, g, T, k) ==
    /\ DOMAIN f = T /\ DOMAIN g = T \cup {k} /\ \A t \in T : f[t] = g[t]
    /\ \A t \in T \cup {k} : g[t] \in Int

LEMMA SumOfMore ==
    ASSUME NEW T, IsFiniteSet(T), NEW k, k \notin T, NEW f, NEW g, HasMore(f, g, T, k)
    PROVE  /\ SumFunction(g) = SumFunction(f) + g[k]
           /\ SumFunction(f) \in Int /\ SumFunction(g) \in Int
<1> USE DEF HasMore
<1>1. SumFunction(g) = SumFunctionOnSet(g, T \cup {k}) /\ SumFunction(f) = SumFunctionOnSet(f, T)
  BY SumIs
<1>2. SumFunctionOnSet(g, T \cup {k}) = g[k] + SumFunctionOnSet(g, T)
  BY SumAdds
<1>3. SumFunctionOnSet(f, T) = SumFunctionOnSet(g, T)
  BY SumAgrees
<1>4. SumFunctionOnSet(g, T) \in Int
  BY SumType
<1> QED BY <1>1, <1>2, <1>3, <1>4

LEMMA TrapsMore ==
    ASSUME NEW T \in SUBSET Traps, IsFiniteSet(T), NEW k \in Traps, k \notin T
    PROVE  /\ IsFiniteSet(T \cup {k})
           /\ Trapped(T \cup {k}) = Trapped(T) + SumOver(k.assets)
           /\ TrappedNative(T \cup {k}) = TrappedNative(T) + k.assets[NativeLocation]
           /\ Trapped(T) \in Int /\ TrappedNative(T) \in Int
<1> DEFINE U == T \cup {k}
           f == [t \in T |-> SumOver(t.assets)]
           g == [t \in U |-> SumOver(t.assets)]
           m == [t \in T |-> t.assets[NativeLocation]]
           n == [t \in U |-> t.assets[NativeLocation]]
<1>1. \A t \in Traps : t.assets \in [Assets -> Nat]
  BY DEF Traps
<1>2. \A t \in Traps : SumOver(t.assets) \in Int /\ t.assets[NativeLocation] \in Int
  <2>1. ASSUME NEW t \in Traps PROVE SumOver(t.assets) \in Int /\ t.assets[NativeLocation] \in Int
    <3>1. \A x \in Locations : t.assets[x] \in Int
      BY <1>1 DEF Assets
    <3>2. t.assets[NativeLocation] \in Int
      BY <1>1 DEF Assets
    <3> QED BY <3>1, <3>2, SumType, ForeignAssetsAssumption DEF SumOver
  <2> QED BY <2>1
<1>3. HasMore(f, g, T, k) /\ g[k] = SumOver(k.assets)
  BY <1>2 DEF HasMore
<1>4. HasMore(m, n, T, k) /\ n[k] = k.assets[NativeLocation]
  BY <1>2 DEF HasMore
<1>a. U = T \cup {k}
  OBVIOUS
<1> HIDE DEF f, g, m, n, U
<1>5. SumFunction(g) = SumFunction(f) + g[k] /\ SumFunction(f) \in Int
  BY <1>3, <1>a, SumOfMore
<1>6. SumFunction(n) = SumFunction(m) + n[k] /\ SumFunction(m) \in Int
  BY <1>4, <1>a, SumOfMore
<1>7. IsFiniteSet(U)
  BY <1>a, FS_AddElement
<1>8. /\ SumFunction(f) = Trapped(T) /\ SumFunction(g) = Trapped(U)
      /\ SumFunction(m) = TrappedNative(T) /\ SumFunction(n) = TrappedNative(U)
  BY DEF Trapped, TrappedNative, f, g, m, n
<1> QED BY <1>3, <1>4, <1>5, <1>6, <1>7, <1>8, <1>a

LEMMA TrapsNone == Trapped({}) = 0 /\ TrappedNative({}) = 0
<1>1. ASSUME NEW f, DOMAIN f = {} PROVE SumFunction(f) = 0
  BY <1>1, SumIs, SumEmpty
<1> QED BY <1>1 DEF Trapped, TrappedNative

LEMMA TrapsInt ==
    ASSUME NEW T \in SUBSET Traps, IsFiniteSet(T)
    PROVE  Trapped(T) \in Int /\ TrappedNative(T) \in Int
<1>1. CASE T = {}
  BY <1>1, TrapsNone
<1>2. CASE T # {}
  <2>1. PICK k \in T : TRUE
    BY <1>2
  <2> DEFINE S == T \ {k}
  <2>2. IsFiniteSet(S) /\ S \in SUBSET Traps /\ k \notin S /\ k \in Traps /\ T = S \cup {k}
    BY <2>1, FS_RemoveElement
  <2> HIDE DEF S
  <2>3. /\ Trapped(T) = Trapped(S) + SumOver(k.assets)
        /\ TrappedNative(T) = TrappedNative(S) + k.assets[NativeLocation]
        /\ Trapped(S) \in Int /\ TrappedNative(S) \in Int
    BY <2>2, TrapsMore
  <2>4. k.assets \in [Assets -> Nat]
    BY <2>2 DEF Traps
  <2>5. (\A x \in Locations : k.assets[x] \in Int) /\ k.assets[NativeLocation] \in Int
    BY <2>4 DEF Assets
  <2>6. SumOver(k.assets) \in Int
    BY <2>5, SumType, ForeignAssetsAssumption DEF SumOver
  <2> QED BY <2>3, <2>5, <2>6
<1> QED BY <1>1, <1>2

-----------------------------------------------------------------------------
(* The state between any two steps                                         *)

Traders == {t \in [weight : Nat, paid : BOOLEAN, location : Assets \ {Erc20}, amount : Nat] :
                ~t.paid => t.amount = 0}

Phases == {"none", "running", "failed", "handling", "ended"}

Messages == [phase : Phases, origin : Accounts \cup {"none"}, holding : [Assets -> Nat],
             trader : Traders, origins : Seq(Notes), failed : BOOLEAN, steps : Nat]

\* A trap bears the number of its message: when a message ends its trap is a new one.
TrapsInv ==
    /\ trapped \subseteq Traps /\ IsFiniteSet(trapped)
    /\ \A t \in trapped : t.message <= messages
    /\ msg.phase # "none" => \A t \in trapped : t.message # messages

PricesInv ==
    /\ DOMAIN supported \subseteq FeeLocations
    /\ supported \in [DOMAIN supported -> [enabled : BOOLEAN, price : Nat \ {0}]]

MessageInv == msg \in Messages /\ messages \in Nat /\ (msg.phase # "none" => msg.origin \in Accounts)

Typed ==
    /\ Sound(assets) /\ erc20 \in Balances
    /\ PricesInv /\ MessageInv /\ TrapsInv
    /\ issued \in [Assets -> Nat] /\ lost \in [Assets -> Nat]

\* What the invariants of the runs need to be inductive.
XInv == Typed /\ TokensConserved /\ NotesMatchHolding

-----------------------------------------------------------------------------
(* The books                                                               *)

\* What the message has in flight: its holding and the payment of its trader.
FlightOf(m) == Plus(m.holding, Only(m.trader.location, m.trader.amount))

\* TokensConserved of any state.
Books(a, f, l, T, i) ==
    /\ SupplyOf(a) + SumOver(f) + SumOver(l) + Trapped(T) = SumOver(i)
    /\ SumFunction(a.native) + SumFunction(a.reserved) + f[NativeLocation] + TrappedNative(T)
       = SumFunction(InitAssets.native) + SumFunction(InitAssets.reserved)

LEMMA BooksAreConserved ==
    /\ TokensConserved <=> Books(assets, FlightOf(msg), lost, trapped, issued)
    /\ TokensConserved' <=> Books(assets', FlightOf(msg'), lost', trapped', issued')
BY DEF TokensConserved, Books, Supply, SupplyOf, InFlight, FlightOf, Trapped, TrappedNative

InFlightIs(f, h, x, n) ==
    f \in [Assets -> Nat] /\ \A y \in Assets : f[y] = h[y] + (IF y = x THEN n ELSE 0)

LEMMA FlightIs ==
    ASSUME NEW h \in [Assets -> Nat], NEW x \in Assets, NEW n \in Nat,
           NEW f, f = Plus(h, Only(x, n))
    PROVE  InFlightIs(f, h, x, n)
<1> DEFINE o == Only(x, n)
<1>1. \A y \in Assets : o[y] = IF y = x THEN n ELSE 0
  BY DEF Only, Nothing
<1>2. \A y \in Assets : o[y] \in Nat
  BY <1>1
<1> HIDE DEF o
<1>3. f = [y \in Assets |-> h[y] + o[y]]
  BY DEF Plus, o
<1> QED BY <1>1, <1>2, <1>3 DEF InFlightIs

\* What is added to the traps and what is taken out of them.
TrapsChange(T, U, d, e) ==
    /\ Trapped(T) \in Int /\ Trapped(U) \in Int
    /\ TrappedNative(T) \in Int /\ TrappedNative(U) \in Int
    /\ Trapped(U) + SumOver(e) = Trapped(T) + SumOver(d)
    /\ TrappedNative(U) + e[NativeLocation] = TrappedNative(T) + d[NativeLocation]

\* Asset by asset: what is held, in flight or lost, or goes into a trap, was held, in
\* flight or lost, or came out of a trap or from a sibling.
Balanced(a, f, l, i, b, f2, l2, i2, d, e) ==
    /\ \A x \in Locations :
           Held(b, x) + f2[x] + l2[x] + d[x] + i[x] = Held(a, x) + f[x] + l[x] + e[x] + i2[x]
    /\ SumFunction(b.native) + SumFunction(b.reserved) + f2[NativeLocation] + d[NativeLocation]
       = SumFunction(a.native) + SumFunction(a.reserved) + f[NativeLocation] + e[NativeLocation]

LEMMA BooksKept ==
    ASSUME NEW a, Sound(a), NEW b, Sound(b), NEW f \in [Assets -> Nat], NEW f2 \in [Assets -> Nat],
           NEW l \in [Assets -> Nat], NEW l2 \in [Assets -> Nat],
           NEW i \in [Assets -> Nat], NEW i2 \in [Assets -> Nat],
           NEW d \in [Assets -> Nat], NEW e \in [Assets -> Nat],
           NEW T, NEW U, TrapsChange(T, U, d, e), Balanced(a, f, l, i, b, f2, l2, i2, d, e),
           Books(a, f, l, T, i)
    PROVE  Books(b, f2, l2, U, i2)
<1> DEFINE h == HeldIn(a)
           h2 == HeldIn(b)
<1>1. \A x \in Locations : /\ h[x] = Held(a, x) /\ h2[x] = Held(b, x)
                           /\ h[x] \in Int /\ h2[x] \in Int
  BY HeldNat DEF HeldIn, Kinds
<1> HIDE DEF h, h2
<1>2. SupplyOf(a) = SumOver(h) /\ SupplyOf(b) = SumOver(h2)
  BY SupplyIsHeld DEF h, h2
<1>3. \A x \in Locations :
          /\ f[x] \in Int /\ f2[x] \in Int /\ l[x] \in Int /\ l2[x] \in Int
          /\ i[x] \in Int /\ i2[x] \in Int /\ d[x] \in Int /\ e[x] \in Int
  BY DEF Assets
<1>4. EvenOut(h, f, l, d, i, h2, f2, l2, e, i2)
  BY <1>1, <1>3 DEF Balanced, EvenOut
<1>a. EvenOutInAll(h, f, l, d, i, h2, f2, l2, e, i2)
  BY <1>4, TotalsStay
<1>5. SupplyOf(b) + SumOver(f2) + SumOver(l2) + Trapped(U) = SumOver(i2)
  BY <1>2, <1>a DEF Books, TrapsChange, EvenOutInAll
<1>6. /\ a.native \in [Accounts -> Nat] /\ b.native \in [Accounts -> Nat]
      /\ a.reserved \in [Accounts -> Nat] /\ b.reserved \in [Accounts -> Nat]
  BY DEF Sound, Ledger
<1>7. /\ SumFunction(a.native) \in Nat /\ SumFunction(b.native) \in Nat
      /\ SumFunction(a.reserved) \in Nat /\ SumFunction(b.reserved) \in Nat
  BY <1>6, SumOfNats
<1>8. /\ f[NativeLocation] \in Nat /\ f2[NativeLocation] \in Nat
      /\ d[NativeLocation] \in Nat /\ e[NativeLocation] \in Nat
  BY DEF Assets
<1>9. SumFunction(b.native) + SumFunction(b.reserved) + f2[NativeLocation] + TrappedNative(U)
      = SumFunction(InitAssets.native) + SumFunction(InitAssets.reserved)
  BY <1>7, <1>8 DEF Books, TrapsChange, Balanced
<1> QED BY <1>5, <1>9 DEF Books

LEMMA NothingIs == Nothing \in [Assets -> Nat] /\ \A x \in Assets : Nothing[x] = 0
BY DEF Nothing

\* The traps as they are.
LEMMA TrapsSame ==
    ASSUME NEW T \in SUBSET Traps, IsFiniteSet(T)
    PROVE  TrapsChange(T, T, Nothing, Nothing)
<1>1. Trapped(T) \in Int /\ TrappedNative(T) \in Int
  BY TrapsInt
<1>2. \A x \in Locations : Nothing[x] \in Int
  BY NothingIs DEF Assets
<1>3. SumOver(Nothing) \in Int
  BY <1>2, SumType, ForeignAssetsAssumption DEF SumOver
<1>4. Nothing[NativeLocation] = 0
  BY NothingIs DEF Assets
<1> QED BY <1>1, <1>3, <1>4 DEF TrapsChange

\* Tokens move between accounts and the message.
LEMMA BooksMoved ==
    ASSUME NEW a, Sound(a), NEW b, Sound(b), Steady(a, b),
           NEW f \in [Assets -> Nat], NEW f2 \in [Assets -> Nat],
           NEW l \in [Assets -> Nat], NEW i \in [Assets -> Nat],
           NEW T \in SUBSET Traps, IsFiniteSet(T),
           \A x \in Kinds : Held(b, x) + f2[x] = Held(a, x) + f[x],
           Books(a, f, l, T, i)
    PROVE  Books(b, f2, l, T, i)
<1>1. TrapsChange(T, T, Nothing, Nothing)
  BY TrapsSame
<1>2. \A x \in Kinds : /\ Held(a, x) \in Nat /\ Held(b, x) \in Nat
                       /\ f[x] \in Nat /\ f2[x] \in Nat /\ l[x] \in Nat /\ i[x] \in Nat
                       /\ Nothing[x] = 0
  BY HeldNat, NothingIs DEF Kinds, Assets
<1>3. b.reserved = a.reserved
  BY DEF Steady
<1>4. Held(a, NativeLocation) = SumFunction(a.native) /\ Held(b, NativeLocation) = SumFunction(b.native)
  BY DEF Held
<1>5. SumFunction(a.reserved) \in Nat
  BY SumOfNats DEF Sound, Ledger
<1>6. NativeLocation \in Kinds /\ Locations \subseteq Kinds
  BY DEF Kinds
<1>7. \A x \in Locations : Held(b, x) + f2[x] + l[x] + Nothing[x] + i[x]
                           = Held(a, x) + f[x] + l[x] + Nothing[x] + i[x]
  BY <1>2, <1>6
<1>8. SumFunction(b.native) + SumFunction(b.reserved) + f2[NativeLocation] + Nothing[NativeLocation]
      = SumFunction(a.native) + SumFunction(a.reserved) + f[NativeLocation] + Nothing[NativeLocation]
  <2>1. Held(b, NativeLocation) + f2[NativeLocation] = Held(a, NativeLocation) + f[NativeLocation]
    BY <1>6
  <2>2. /\ SumFunction(a.native) \in Nat /\ SumFunction(b.native) \in Nat
        /\ f[NativeLocation] \in Nat /\ f2[NativeLocation] \in Nat /\ Nothing[NativeLocation] = 0
    BY <1>2, <1>4, <1>6
  <2> QED BY ONLY <2>1, <2>2, <1>3, <1>4, <1>5
<1>9. Balanced(a, f, l, i, b, f2, l, i, Nothing, Nothing)
  BY <1>7, <1>8 DEF Balanced
<1> QED BY <1>1, <1>9, NothingIs, BooksKept

-----------------------------------------------------------------------------
(* The instructions                                                        *)

LEMMA WorldIs ==
    ASSUME Typed
    PROVE  /\ World \in Worlds /\ World.assets = assets /\ World.erc20 = erc20
           /\ World.origins = msg.origins /\ msg.origins \in Seq(Notes)
<1>1. msg.origins \in Seq(Notes)
  BY DEF Typed, MessageInv, Messages
<1> QED BY <1>1, WorldOf DEF World, Typed

LEMMA MessageParts ==
    ASSUME NEW m \in Messages
    PROVE  /\ m.phase \in Phases /\ m.origin \in Accounts \cup {"none"}
           /\ m.holding \in [Assets -> Nat] /\ m.origins \in Seq(Notes) /\ m.failed \in BOOLEAN
           /\ m.steps \in Nat /\ m.trader \in Traders
           /\ m.trader.location \in Assets \ {Erc20} /\ m.trader.amount \in Nat
           /\ m.trader.weight \in Nat /\ m.trader.paid \in BOOLEAN
           /\ InFlightIs(FlightOf(m), m.holding, m.trader.location, m.trader.amount)
<1>1. /\ m.phase \in Phases /\ m.origin \in Accounts \cup {"none"}
      /\ m.holding \in [Assets -> Nat] /\ m.origins \in Seq(Notes) /\ m.failed \in BOOLEAN
      /\ m.steps \in Nat /\ m.trader \in Traders
  BY DEF Messages
<1>2. /\ m.trader.location \in Assets \ {Erc20} /\ m.trader.amount \in Nat
      /\ m.trader.weight \in Nat /\ m.trader.paid \in BOOLEAN
  BY <1>1 DEF Traders
<1> DEFINE x == m.trader.location
           n == m.trader.amount
           f == Plus(m.holding, Only(x, n))
<1>a. x \in Assets /\ n \in Nat
  BY <1>2
<1> HIDE DEF x, n
<1>b. InFlightIs(f, m.holding, x, n)
  BY <1>1, <1>a, FlightIs
<1>3. InFlightIs(FlightOf(m), m.holding, m.trader.location, m.trader.amount)
  BY <1>b DEF FlightOf, x, n
<1> QED BY <1>1, <1>2, <1>3

\* An instruction succeeded with the state w and the holding h.
DoneForm(retried, w, h) ==
    /\ assets' = w.assets /\ erc20' = w.erc20
    /\ msg'.holding = h /\ msg'.trader = msg.trader /\ msg'.origins = w.origins
    /\ msg'.origin = msg.origin /\ msg'.phase = msg.phase
    /\ msg'.failed <=> (msg.failed \/ retried)

LEMMA DoneTyped ==
    ASSUME Typed, Running, NEW w \in Worlds, NEW h \in [Assets -> Nat], NEW retried \in BOOLEAN,
           DoneAfter(retried, w, h), UNCHANGED <<supported, messages>>,
           trapped' \subseteq trapped, issued' \in [Assets -> Nat], lost' \in [Assets -> Nat]
    PROVE  Typed' /\ DoneForm(retried, w, h)
<1> DEFINE g == msg.failed \/ retried
           n == msg.steps + 1
<1>1. msg \in Messages /\ msg.phase # "none" /\ msg.origin \in Accounts
  BY DEF Typed, MessageInv, Running
<1>2. msg' = [msg EXCEPT !.holding = h, !.origins = w.origins, !.steps = n, !.failed = g]
  BY Zenon DEF DoneAfter
<1>3. g \in BOOLEAN /\ n \in Nat
  BY <1>1, MessageParts
<1>4. w.origins \in Seq(Notes) /\ Sound(w.assets) /\ w.erc20 \in Balances
  BY WorldParts
<1> HIDE DEF g, n
<1>5. msg' \in Messages /\ msg'.holding = h /\ msg'.trader = msg.trader /\ msg'.origins = w.origins
      /\ msg'.origin = msg.origin /\ msg'.phase = msg.phase /\ msg'.failed = g
  BY <1>1, <1>2, <1>3, <1>4 DEF Messages
<1>6. DoneForm(retried, w, h)
  BY <1>5 DEF DoneForm, DoneAfter, g
<1>7. MessageInv'
  BY <1>1, <1>5 DEF MessageInv, Typed
<1>8. TrapsInv'
  <2>1. TrapsInv
    BY DEF Typed
  <2>2. IsFiniteSet(trapped')
    BY <2>1, FS_Subset DEF TrapsInv
  <2>3. trapped' \subseteq Traps /\ \A t \in trapped' : t.message <= messages'
    BY <2>1 DEF TrapsInv
  <2>4. \A t \in trapped' : t.message # messages'
    BY <2>1, <1>1 DEF TrapsInv
  <2> QED BY <2>2, <2>3, <2>4 DEF TrapsInv
<1>9. PricesInv'
  BY DEF Typed, PricesInv
<1>10. Sound(assets') /\ erc20' \in Balances
  BY <1>4, <1>6 DEF DoneForm
<1> QED BY <1>6, <1>7, <1>8, <1>9, <1>10 DEF Typed

LEMMA FailedKeeps ==
    ASSUME XInv, Running, NEW o \in Seq(Notes), Failed(o),
           UNCHANGED <<supported, trapped, issued, lost, messages>>
    PROVE  XInv' /\ UNCHANGED assets
<1> DEFINE n == msg.steps + 1
           p == IF msg.phase = "running" THEN "failed" ELSE "ended"
<1>1. msg \in Messages /\ msg.phase # "none" /\ msg.origin \in Accounts
  BY DEF XInv, Typed, MessageInv, Running
<1>2. msg' = [msg EXCEPT !.origins = o, !.steps = n, !.failed = TRUE, !.phase = p]
      /\ assets' = assets /\ erc20' = erc20
  BY Zenon DEF Failed
<1>3. n \in Nat /\ p \in Phases /\ p # "none"
  BY <1>1, MessageParts DEF Phases
<1> HIDE DEF n, p
<1>4. msg' \in Messages /\ msg'.holding = msg.holding /\ msg'.trader = msg.trader
      /\ msg'.origin = msg.origin /\ msg'.phase # "none" /\ msg'.failed
  BY <1>1, <1>2, <1>3 DEF Messages
<1>5. FlightOf(msg') = FlightOf(msg)
  BY <1>4 DEF FlightOf
<1>6. TokensConserved'
  BY <1>2, <1>5, BooksAreConserved DEF XInv
<1>7. NotesMatchHolding'
  BY <1>4 DEF NotesMatchHolding
<1>8. Sound(assets') /\ erc20' \in Balances /\ PricesInv'
  BY <1>2 DEF XInv, Typed, PricesInv
<1>9. MessageInv'
  BY <1>1, <1>4 DEF XInv, Typed, MessageInv
<1>10. TrapsInv'
  BY <1>1, <1>4 DEF XInv, Typed, TrapsInv
<1> QED BY <1>2, <1>6, <1>7, <1>8, <1>9, <1>10 DEF XInv, Typed

\* The instruction moved tokens between accounts and the holding.
LEMMA DoneMoves ==
    ASSUME XInv, Running, NEW w \in Worlds, NEW h \in [Assets -> Nat], NEW retried \in BOOLEAN,
           DoneAfter(retried, w, h), UNCHANGED <<supported, trapped, issued, lost, messages>>,
           Steady(assets, w.assets),
           \A x \in Kinds : Held(w.assets, x) + h[x] = Held(assets, x) + msg.holding[x],
           ~retried => Owed(w.origins) + msg.holding[Erc20] = Owed(msg.origins) + h[Erc20]
    PROVE  XInv' /\ Steady(assets, assets')
<1>1. Typed /\ TokensConserved /\ NotesMatchHolding
  BY DEF XInv
<1>2. Typed' /\ DoneForm(retried, w, h)
  BY <1>1, DoneTyped DEF Typed
<1>3. msg \in Messages /\ msg' \in Messages /\ Sound(assets) /\ Sound(assets')
      /\ trapped \in SUBSET Traps /\ IsFiniteSet(trapped)
      /\ lost \in [Assets -> Nat] /\ issued \in [Assets -> Nat]
  BY <1>1, <1>2 DEF Typed, MessageInv, TrapsInv
<1> DEFINE f == FlightOf(msg)
           g == FlightOf(msg')
           p == [x \in Assets |-> IF x = msg.trader.location THEN msg.trader.amount ELSE 0]
<1>4. /\ f \in [Assets -> Nat] /\ g \in [Assets -> Nat]
      /\ \A y \in Assets : p[y] \in Nat /\ f[y] = msg.holding[y] + p[y] /\ g[y] = h[y] + p[y]
  <2>1. \A y \in Assets : p[y] \in Nat
    BY <1>3, MessageParts
  <2>2. /\ InFlightIs(f, msg.holding, msg.trader.location, msg.trader.amount)
        /\ InFlightIs(g, h, msg.trader.location, msg.trader.amount)
    BY <1>2, <1>3, MessageParts DEF DoneForm
  <2> HIDE DEF f, g
  <2> QED BY <2>1, <2>2 DEF InFlightIs
<1> HIDE DEF f, g, p
<1>5. assets' = w.assets
  BY <1>2 DEF DoneForm
<1>6. \A x \in Kinds : Held(assets', x) + g[x] = Held(assets, x) + f[x]
  <2>1. msg.holding \in [Assets -> Nat] /\ Kinds \subseteq Assets
    BY <1>3, MessageParts DEF Kinds, Assets
  <2>2. \A x \in Kinds : Held(assets, x) \in Nat /\ Held(assets', x) \in Nat
    BY <1>3, HeldNat
  <2> QED BY <1>4, <1>5, <2>1, <2>2
<1>7. Books(assets, f, lost, trapped, issued)
  BY <1>1, BooksAreConserved DEF f
<1>8. Books(assets', g, lost, trapped, issued)
  BY <1>3, <1>4, <1>5, <1>6, <1>7, BooksMoved
<1>9. TokensConserved'
  BY <1>8, BooksAreConserved DEF g
<1>10. NotesMatchHolding'
  <2>1. Erc20 \in Assets /\ msg.holding \in [Assets -> Nat]
    BY <1>3, MessageParts DEF Assets
  <2>2. Owed(msg.origins) \in Nat /\ Owed(w.origins) \in Nat
    BY <1>3, OwedNat, MessageParts, WorldParts
  <2>3. msg.holding[Erc20] \in Nat /\ h[Erc20] \in Nat
    BY <2>1
  <2> QED BY <1>1, <1>2, <2>2, <2>3 DEF NotesMatchHolding, DoneForm
<1> QED BY <1>2, <1>5, <1>9, <1>10 DEF XInv

LEMMA KindsAre == Kinds = Assets \ {Erc20} /\ NativeLocation \in Kinds /\ Locations \subseteq Kinds
BY XcmExecutionAssumption DEF Kinds, Assets

LEMMA PlusIs ==
    ASSUME NEW h \in [Assets -> Nat], NEW k \in [Assets -> Nat]
    PROVE  Plus(h, k) \in [Assets -> Nat] /\ \A x \in Assets : Plus(h, k)[x] = h[x] + k[x]
BY DEF Plus

LEMMA AmountIs ==
    ASSUME NEW w \in Worlds
    PROVE  /\ \A x \in Kinds : Amount(w, x) = Held(w.assets, x)
           /\ Amount(w, Erc20) = 0 - Owed(w.origins) /\ Owed(w.origins) \in Nat
<1>1. Owed(w.origins) \in Nat
  BY OwedNat, WorldParts
<1> QED BY <1>1, KindsAre DEF Amount

LEMMA SenderIs ==
    ASSUME Typed, Running
    PROVE  msg.origin \in Accounts /\ msg.holding \in [Assets -> Nat] /\ msg \in Messages
<1>1. msg \in Messages /\ msg.origin \in Accounts
  BY DEF Typed, MessageInv, Running
<1> QED BY <1>1, MessageParts

LEMMA WithdrawKeeps ==
    ASSUME XInv, NEW bundle \in Bundles, WithdrawAsset(bundle)
    PROVE  XInv' /\ Steady(assets, assets')
<1> DEFINE r == WithdrawAll(bundle, msg.origin)
           h == Plus(msg.holding, bundle)
<1>1. Typed /\ Running /\ bundle \in [Assets -> Nat]
  BY XcmExecutionAssumption DEF XInv, WithdrawAsset
<1>2. msg.origin \in Accounts /\ msg.holding \in [Assets -> Nat]
  BY <1>1, SenderIs
<1>3. World \in Worlds /\ World.assets = assets /\ World.origins = msg.origins
  BY <1>1, WorldIs
<1>4. r \in Withdrawals /\ (r.ok => Leaves(World, r.world, bundle, Assets))
  BY <1>1, <1>2, <1>3, WithdrawAllLeaves
<1>5. /\ IF r.ok THEN Done(r.world, h) ELSE Failed(r.world.origins)
      /\ UNCHANGED <<supported, trapped, issued, lost, messages>>
  BY DEF WithdrawAsset, outside
<1>6. h \in [Assets -> Nat] /\ \A x \in Assets : h[x] = msg.holding[x] + bundle[x]
  BY <1>1, <1>2, PlusIs
<1> HIDE DEF r, h
<1>7. r.world \in Worlds
  BY <1>4 DEF Withdrawals
<1>8. CASE r.ok
  <2>1. Steady(assets, r.world.assets)
        /\ \A x \in Assets : Amount(r.world, x) = Amount(World, x) - bundle[x]
    BY <1>3, <1>4, <1>8 DEF Leaves
  <2>2. \A x \in Kinds : Held(r.world.assets, x) = Held(assets, x) - bundle[x]
    BY <1>3, <1>7, <2>1, AmountIs, KindsAre
  <2>3. \A x \in Kinds : Held(assets, x) \in Nat
    BY <1>1, HeldNat DEF Typed
  <2>4. \A x \in Kinds : Held(r.world.assets, x) + h[x] = Held(assets, x) + msg.holding[x]
    BY <1>1, <1>2, <1>6, <2>2, <2>3, KindsAre
  <2>5. Erc20 \in Assets
    BY DEF Assets
  <2>6. 0 - Owed(r.world.origins) = (0 - Owed(msg.origins)) - bundle[Erc20]
        /\ Owed(r.world.origins) \in Nat /\ Owed(msg.origins) \in Nat
    BY <1>3, <1>7, <2>1, <2>5, AmountIs
  <2>7. Owed(r.world.origins) + msg.holding[Erc20] = Owed(msg.origins) + h[Erc20]
    <3>1. bundle[Erc20] \in Nat /\ msg.holding[Erc20] \in Nat
          /\ h[Erc20] = msg.holding[Erc20] + bundle[Erc20]
      BY <1>1, <1>2, <1>6, <2>5
    <3> QED BY ONLY <2>6, <3>1
  <2>8. DoneAfter(FALSE, r.world, h)
    BY <1>5, <1>8 DEF Done
  <2> QED BY <1>1, <1>5, <1>6, <1>7, <2>1, <2>4, <2>7, <2>8, DoneMoves
<1>9. CASE ~r.ok
  <2>1. Failed(r.world.origins) /\ r.world.origins \in Seq(Notes)
    BY <1>5, <1>7, <1>9, WorldParts
  <2> QED BY <1>1, <1>5, <2>1, FailedKeeps, SteadySelf
<1> QED BY <1>8, <1>9

LEMMA DepositKeeps ==
    ASSUME XInv, NEW bundle \in Bundles, NEW who \in Recipients, DepositAsset(bundle, who)
    PROVE  XInv' /\ Steady(assets, assets')
<1> DEFINE taken == MinOf(msg.holding, bundle)
           r == DepositAll(taken, who)
           h == Minus(msg.holding, taken)
<1>1. Typed /\ Running /\ bundle \in [Assets -> Nat] /\ who \in Accounts
  BY XcmExecutionAssumption DEF XInv, DepositAsset
<1>2. msg.origin \in Accounts /\ msg.holding \in [Assets -> Nat]
  BY <1>1, SenderIs
<1>3. World \in Worlds /\ World.assets = assets /\ World.origins = msg.origins
  BY <1>1, WorldIs
<1>4. taken \in [Assets -> Nat] /\ \A x \in Assets : taken[x] <= msg.holding[x]
  BY <1>1, <1>2 DEF MinOf
<1>5. /\ IF r.failed = <<>> THEN DoneAfter(r.retried, r.world, h) ELSE Failed(r.world.origins)
      /\ UNCHANGED <<supported, trapped, issued, lost, messages>>
  BY DEF DepositAsset, outside
<1> HIDE DEF taken
<1>6. h \in [Assets -> Nat] /\ \A x \in Assets : h[x] = msg.holding[x] - taken[x]
  BY <1>2, <1>4 DEF Minus
<1>7. /\ r.world \in Worlds /\ Steady(assets, r.world.assets) /\ r.retried \in BOOLEAN
      /\ r.failed = <<>> =>
             \A x \in Assets : (x # Erc20 \/ ~r.retried) =>
                 Amount(r.world, x) = Amount(World, x) + taken[x]
  BY <1>1, <1>3, <1>4, DepositAllGives
<1> HIDE DEF r, h
<1>8. CASE r.failed = <<>>
  <2>1. \A x \in Kinds : Held(r.world.assets, x) = Held(assets, x) + taken[x]
    BY <1>3, <1>7, <1>8, AmountIs, KindsAre
  <2>2. \A x \in Kinds : Held(assets, x) \in Nat
    BY <1>1, HeldNat DEF Typed
  <2>3. \A x \in Kinds : Held(r.world.assets, x) + h[x] = Held(assets, x) + msg.holding[x]
    BY <1>2, <1>4, <1>6, <2>1, <2>2, KindsAre
  <2>4. Erc20 \in Assets
    BY DEF Assets
  <2>5. ASSUME ~r.retried
        PROVE  Owed(r.world.origins) + msg.holding[Erc20] = Owed(msg.origins) + h[Erc20]
    <3>1. 0 - Owed(r.world.origins) = (0 - Owed(msg.origins)) + taken[Erc20]
          /\ Owed(r.world.origins) \in Nat /\ Owed(msg.origins) \in Nat
      BY <1>3, <1>7, <1>8, <2>4, <2>5, AmountIs
    <3>2. taken[Erc20] \in Nat /\ msg.holding[Erc20] \in Nat
          /\ h[Erc20] = msg.holding[Erc20] - taken[Erc20]
      BY <1>2, <1>4, <1>6, <2>4
    <3> QED BY ONLY <3>1, <3>2
  <2>6. DoneAfter(r.retried, r.world, h)
    BY <1>5, <1>8
  <2> QED BY <1>1, <1>5, <1>6, <1>7, <2>3, <2>5, <2>6, DoneMoves
<1>9. CASE r.failed # <<>>
  <2>1. Failed(r.world.origins) /\ r.world.origins \in Seq(Notes)
    BY <1>5, <1>7, <1>9, WorldParts
  <2> QED BY <1>1, <1>5, <2>1, FailedKeeps, SteadySelf
<1> QED BY <1>8, <1>9

LEMMA TransferKeeps ==
    ASSUME XInv, NEW bundle \in Bundles, NEW who \in Recipients, TransferAsset(bundle, who)
    PROVE  XInv' /\ Steady(assets, assets')
<1> DEFINE worlds == TransferEach(bundle, msg.origin, who)
<1>1. Typed /\ Running /\ bundle \in [Assets -> Nat] /\ who \in Accounts
  BY XcmExecutionAssumption DEF XInv, TransferAsset
<1>2. msg.origin \in Accounts /\ msg.holding \in [Assets -> Nat]
  BY <1>1, SenderIs
<1>3. World \in Worlds /\ World.assets = assets /\ World.origins = msg.origins
      /\ msg.origins \in Seq(Notes)
  BY <1>1, WorldIs
<1>4. \A w \in worlds : Same(World, w)
  BY <1>1, <1>2, <1>3, TransferEachSame
<1>5. /\ IF worlds = {} THEN Failed(msg.origins) ELSE \E w \in worlds : Done(w, msg.holding)
      /\ UNCHANGED <<supported, trapped, issued, lost, messages>>
  BY DEF TransferAsset, outside
<1> HIDE DEF worlds
<1>6. ASSUME NEW w \in worlds, Done(w, msg.holding)
      PROVE  XInv' /\ Steady(assets, assets')
  <2>1. w \in Worlds /\ Steady(assets, w.assets) /\ \A x \in Assets : Amount(w, x) = Amount(World, x)
    BY <1>3, <1>4 DEF Same
  <2>2. \A x \in Kinds : Held(w.assets, x) + msg.holding[x] = Held(assets, x) + msg.holding[x]
    BY <1>3, <2>1, AmountIs, KindsAre
  <2>3. Erc20 \in Assets
    BY DEF Assets
  <2>4. 0 - Owed(w.origins) = 0 - Owed(msg.origins)
        /\ Owed(w.origins) \in Nat /\ Owed(msg.origins) \in Nat
    BY <1>3, <2>1, <2>3, AmountIs
  <2>5. Owed(w.origins) + msg.holding[Erc20] = Owed(msg.origins) + msg.holding[Erc20]
    <3>1. Owed(w.origins) = Owed(msg.origins)
      BY ONLY <2>4
    <3> QED BY <3>1
  <2>6. DoneAfter(FALSE, w, msg.holding)
    BY <1>6 DEF Done
  <2> QED BY <1>1, <1>2, <1>5, <2>1, <2>2, <2>5, <2>6, DoneMoves
<1>7. ASSUME Failed(msg.origins) PROVE XInv' /\ Steady(assets, assets')
  BY <1>1, <1>3, <1>5, <1>7, FailedKeeps, SteadySelf
<1> QED BY <1>5, <1>6, <1>7

LEMMA TransactTransferKeeps ==
    ASSUME XInv, NEW to \in Recipients, TransactTransfer(to)
    PROVE  XInv' /\ Steady(assets, assets')
<1>1. Typed /\ Running /\ to \in Accounts
  BY XcmExecutionAssumption DEF XInv, TransactTransfer
<1>2. msg.origin \in Accounts /\ msg.holding \in [Assets -> Nat]
  BY <1>1, SenderIs
<1>3. World \in Worlds /\ World.assets = assets /\ World.origins = msg.origins
      /\ msg.origins \in Seq(Notes) /\ World = [assets |-> assets, erc20 |-> erc20, origins |-> msg.origins]
  BY <1>1, WorldIs DEF World
<1>4. PICK e \in erc20_transfer(erc20, msg.origin, to, 1) :
          Done([World EXCEPT !.erc20 = e], msg.holding)
  BY DEF TransactTransfer
<1>5. UNCHANGED <<supported, trapped, issued, lost, messages>>
  BY DEF TransactTransfer, outside
<1>6. e \in Balances
  <2>1. 1 \in Nat /\ erc20 \in Balances
    BY <1>1 DEF Typed
  <2> QED BY <1>1, <1>2, <1>4, <2>1, Erc20Moves
<1> DEFINE w == [World EXCEPT !.erc20 = e]
<1>7. w = [assets |-> assets, erc20 |-> e, origins |-> msg.origins]
  BY <1>3
<1>8. DoneAfter(FALSE, w, msg.holding)
  BY <1>4 DEF Done
<1> HIDE DEF w
<1>9. w \in Worlds /\ w.assets = assets /\ w.origins = msg.origins
  BY <1>1, <1>3, <1>6, <1>7, WorldOf DEF Typed
<1> QED BY <1>1, <1>2, <1>5, <1>8, <1>9, SteadySelf, DoneMoves

LEMMA SumOfNothing == SumOver(Nothing) = 0
<1>0. \A x \in Locations : Nothing[x] = 0
  BY NothingIs DEF Assets
<1>1. PICK c \in Int : c = 0
  OBVIOUS
<1> DEFINE z == [x \in Locations |-> c]
<1>2. SumFunctionOnSet(z, Locations) = c * Cardinality(Locations)
  BY SumOfEquals, ForeignAssetsAssumption
<1>3. \A x \in Locations : Nothing[x] \in Int /\ Nothing[x] = z[x]
  BY <1>0, <1>1
<1> HIDE DEF z
<1>4. SumFunctionOnSet(Nothing, Locations) = SumFunctionOnSet(z, Locations)
  BY <1>3, SumAgrees, ForeignAssetsAssumption
<1>5. Cardinality(Locations) \in Nat
  BY FS_CardinalityType, ForeignAssetsAssumption
<1>6. c * Cardinality(Locations) = 0
  BY <1>1, <1>5
<1> QED BY <1>2, <1>4, <1>6 DEF SumOver

\* The books before and after an instruction that was done.
LEMMA DoneFlights ==
    ASSUME Typed, Typed', NEW w, NEW h, NEW retried, DoneForm(retried, w, h)
    PROVE  /\ FlightOf(msg) \in [Assets -> Nat] /\ FlightOf(msg') \in [Assets -> Nat]
           /\ \A x \in Assets : /\ msg.holding[x] \in Nat /\ h[x] \in Nat
                                /\ FlightOf(msg')[x] + msg.holding[x] = FlightOf(msg)[x] + h[x]
<1> DEFINE f == FlightOf(msg)
           g == FlightOf(msg')
           p == [x \in Assets |-> IF x = msg.trader.location THEN msg.trader.amount ELSE 0]
<1>1. msg \in Messages /\ msg' \in Messages
  BY DEF Typed, MessageInv
<1>2. /\ InFlightIs(f, msg.holding, msg.trader.location, msg.trader.amount)
      /\ InFlightIs(g, h, msg.trader.location, msg.trader.amount)
      /\ msg.holding \in [Assets -> Nat] /\ h \in [Assets -> Nat]
  BY <1>1, MessageParts DEF DoneForm
<1>3. \A y \in Assets : p[y] \in Nat
  BY <1>1, MessageParts
<1> HIDE DEF f, g
<1>4. \A y \in Assets : f[y] = msg.holding[y] + p[y] /\ g[y] = h[y] + p[y]
  BY <1>2 DEF InFlightIs
<1> HIDE DEF p
<1>5. \A x \in Assets : /\ msg.holding[x] \in Nat /\ h[x] \in Nat
                        /\ g[x] + msg.holding[x] = f[x] + h[x]
  BY <1>2, <1>3, <1>4
<1>6. f \in [Assets -> Nat] /\ g \in [Assets -> Nat]
  BY <1>2 DEF InFlightIs
<1> QED BY <1>5, <1>6 DEF f, g

LEMMA ReserveKeeps ==
    ASSUME XInv, NEW bundle \in Bundles, ReserveAssetDeposited(bundle)
    PROVE  XInv' /\ Steady(assets, assets')
<1> DEFINE h == Plus(msg.holding, bundle)
           i == Plus(issued, bundle)
<1>1. Typed /\ Running /\ bundle \in [Assets -> Nat] /\ TokensConserved /\ NotesMatchHolding
  BY XcmExecutionAssumption DEF XInv, ReserveAssetDeposited
<1>2. msg.origin \in Accounts /\ msg.holding \in [Assets -> Nat] /\ issued \in [Assets -> Nat]
  BY <1>1, SenderIs DEF Typed
<1>3. World \in Worlds /\ World.assets = assets /\ World.origins = msg.origins
  BY <1>1, WorldIs
<1>4. /\ DoneAfter(FALSE, World, h) /\ issued' = i
      /\ UNCHANGED <<supported, trapped, lost, messages>>
      /\ \A x \in Assets : bundle[x] > 0 => x \in Locations
  BY DEF ReserveAssetDeposited, Done
<1>5. /\ h \in [Assets -> Nat] /\ \A x \in Assets : h[x] = msg.holding[x] + bundle[x]
      /\ i \in [Assets -> Nat] /\ \A x \in Assets : i[x] = issued[x] + bundle[x]
  BY <1>1, <1>2, PlusIs
<1> HIDE DEF h, i
<1>6. Typed' /\ DoneForm(FALSE, World, h)
  BY <1>1, <1>3, <1>4, <1>5, DoneTyped DEF Typed
<1>7. assets' = assets
  BY <1>3, <1>6 DEF DoneForm
<1>8. /\ Sound(assets) /\ trapped \in SUBSET Traps /\ IsFiniteSet(trapped) /\ lost \in [Assets -> Nat]
  BY <1>1 DEF Typed, TrapsInv
<1> DEFINE f == FlightOf(msg)
           g == FlightOf(msg')
<1>9. /\ f \in [Assets -> Nat] /\ g \in [Assets -> Nat]
      /\ \A x \in Assets : /\ msg.holding[x] \in Nat /\ h[x] \in Nat
                           /\ g[x] + msg.holding[x] = f[x] + h[x]
  BY <1>1, <1>6, DoneFlights
<1> HIDE DEF f, g
<1>10. \A x \in Assets : /\ f[x] \in Nat /\ g[x] \in Nat /\ bundle[x] \in Nat
                         /\ g[x] = f[x] + bundle[x] /\ lost[x] \in Nat /\ issued[x] \in Nat
                         /\ i[x] = issued[x] + bundle[x] /\ Nothing[x] = 0
  BY <1>1, <1>2, <1>5, <1>8, <1>9, NothingIs
<1>11. bundle[NativeLocation] = 0 /\ bundle[Erc20] = 0 /\ NativeLocation \in Assets /\ Erc20 \in Assets
  <2>1. NativeLocation \in Assets /\ Erc20 \in Assets
    BY DEF Assets
  <2> QED BY <1>1, <1>4, <2>1, XcmExecutionAssumption
<1>12. Balanced(assets, f, lost, issued, assets, g, lost, i, Nothing, Nothing)
  <2>1. \A x \in Locations : Held(assets, x) + g[x] + lost[x] + Nothing[x] + issued[x]
                             = Held(assets, x) + f[x] + lost[x] + Nothing[x] + i[x]
    <3>1. \A x \in Locations : x \in Assets /\ Held(assets, x) \in Nat
      BY <1>8, HeldNat, KindsAre
    <3> QED BY <1>10, <3>1
  <2>2. g[NativeLocation] = f[NativeLocation]
    BY <1>10, <1>11
  <2> QED BY <2>1, <2>2 DEF Balanced
<1>13. Books(assets, f, lost, trapped, issued)
  BY <1>1, BooksAreConserved DEF f
<1>14. Books(assets, g, lost, trapped, i)
  BY <1>2, <1>5, <1>8, <1>9, <1>12, <1>13, TrapsSame, NothingIs, BooksKept
<1>15. TokensConserved'
  BY <1>4, <1>7, <1>14, BooksAreConserved DEF g
<1>16. NotesMatchHolding'
  <2>1. h[Erc20] = msg.holding[Erc20]
    BY <1>2, <1>5, <1>11
  <2> QED BY <1>1, <1>3, <1>6, <2>1 DEF NotesMatchHolding, DoneForm
<1> QED BY <1>6, <1>7, <1>15, <1>16, SteadySelf DEF XInv

LEMMA ClaimKeeps ==
    ASSUME XInv, NEW trap \in trapped, ClaimAsset(trap)
    PROVE  XInv' /\ Steady(assets, assets')
<1> DEFINE h == Plus(msg.holding, trap.assets)
           U == trapped \ {trap}
<1>1. Typed /\ Running /\ TokensConserved /\ NotesMatchHolding
  BY DEF XInv, ClaimAsset
<1>2. msg.origin \in Accounts /\ msg.holding \in [Assets -> Nat]
  BY <1>1, SenderIs DEF Typed
<1>3. World \in Worlds /\ World.assets = assets /\ World.origins = msg.origins
  BY <1>1, WorldIs
<1>4. /\ DoneAfter(FALSE, World, h) /\ trapped' = U
      /\ UNCHANGED <<supported, issued, lost, messages>>
  BY DEF ClaimAsset, Done, outside
<1>5. /\ Sound(assets) /\ trapped \in SUBSET Traps /\ IsFiniteSet(trapped)
      /\ lost \in [Assets -> Nat] /\ issued \in [Assets -> Nat]
      /\ trap \in Traps
  BY <1>1 DEF Typed, TrapsInv
<1>6. trap.assets \in [Assets -> Nat] /\ trap.assets[Erc20] = 0
  BY <1>5 DEF Traps
<1>7. h \in [Assets -> Nat] /\ \A x \in Assets : h[x] = msg.holding[x] + trap.assets[x]
  BY <1>2, <1>6, PlusIs
<1>8. U \in SUBSET Traps /\ IsFiniteSet(U) /\ trap \notin U /\ trapped = U \cup {trap}
  BY <1>5, FS_RemoveElement
<1> HIDE DEF h, U
<1>9. Typed' /\ DoneForm(FALSE, World, h)
  BY <1>1, <1>3, <1>4, <1>5, <1>7, <1>8, DoneTyped
<1>10. assets' = assets
  BY <1>3, <1>9 DEF DoneForm
<1> DEFINE f == FlightOf(msg)
           g == FlightOf(msg')
<1>11. /\ f \in [Assets -> Nat] /\ g \in [Assets -> Nat]
       /\ \A x \in Assets : /\ msg.holding[x] \in Nat /\ h[x] \in Nat
                            /\ g[x] + msg.holding[x] = f[x] + h[x]
  BY <1>1, <1>9, DoneFlights
<1> HIDE DEF f, g
<1>12. \A x \in Assets : /\ f[x] \in Nat /\ g[x] \in Nat /\ trap.assets[x] \in Nat
                         /\ g[x] = f[x] + trap.assets[x] /\ lost[x] \in Nat /\ issued[x] \in Nat
                         /\ Nothing[x] = 0
  <2> DEFINE k == trap.assets
  <2>1. k \in [Assets -> Nat] /\ \A x \in Assets : h[x] = msg.holding[x] + k[x]
    BY <1>6, <1>7
  <2> HIDE DEF k
  <2>2. \A x \in Assets : k[x] \in Nat /\ h[x] = msg.holding[x] + k[x]
    BY <2>1
  <2>3. \A x \in Assets : f[x] \in Nat /\ g[x] \in Nat /\ g[x] = f[x] + k[x]
    BY <1>11, <2>2
  <2>4. \A x \in Assets : lost[x] \in Nat /\ issued[x] \in Nat /\ Nothing[x] = 0
    BY <1>5, NothingIs
  <2> QED BY <2>2, <2>3, <2>4 DEF k
<1>13. NativeLocation \in Assets /\ Erc20 \in Assets
  BY DEF Assets
<1>14. Balanced(assets, f, lost, issued, assets, g, lost, issued, Nothing, trap.assets)
  <2>1. \A x \in Locations : Held(assets, x) + g[x] + lost[x] + Nothing[x] + issued[x]
                             = Held(assets, x) + f[x] + lost[x] + trap.assets[x] + issued[x]
    <3>1. \A x \in Locations : x \in Assets /\ Held(assets, x) \in Nat
      BY <1>5, HeldNat, KindsAre
    <3> QED BY <1>12, <3>1
  <2>2. /\ g[NativeLocation] = f[NativeLocation] + trap.assets[NativeLocation]
        /\ f[NativeLocation] \in Nat /\ trap.assets[NativeLocation] \in Nat
        /\ Nothing[NativeLocation] = 0
    BY <1>12, <1>13
  <2>3. SumFunction(assets.native) \in Nat /\ SumFunction(assets.reserved) \in Nat
    BY <1>5, SumOfNats DEF Sound, Ledger
  <2>4. SumFunction(assets.native) + SumFunction(assets.reserved) + g[NativeLocation]
            + Nothing[NativeLocation]
        = SumFunction(assets.native) + SumFunction(assets.reserved) + f[NativeLocation]
            + trap.assets[NativeLocation]
    BY ONLY <2>2, <2>3
  <2> QED BY <2>1, <2>4 DEF Balanced
<1>15. TrapsChange(trapped, U, Nothing, trap.assets)
  <2>1. /\ Trapped(trapped) = Trapped(U) + SumOver(trap.assets)
        /\ TrappedNative(trapped) = TrappedNative(U) + trap.assets[NativeLocation]
    BY <1>5, <1>8, TrapsMore
  <2>2. TrapsChange(trapped, trapped, Nothing, Nothing)
    BY <1>5, TrapsSame
  <2>3. Trapped(U) \in Int /\ TrappedNative(U) \in Int
    BY <1>8, TrapsInt
  <2>4. \A x \in Locations : trap.assets[x] \in Int /\ Nothing[x] \in Int /\ Nothing[x] = 0
    BY <1>12, KindsAre
  <2>5. SumOver(Nothing) = 0
    BY SumOfNothing
  <2>6. Nothing[NativeLocation] = 0 /\ trap.assets[NativeLocation] \in Nat
    BY <1>12, <1>13
  <2>7. SumOver(trap.assets) \in Int
    BY <2>4, SumType, ForeignAssetsAssumption DEF SumOver
  <2>8. Trapped(trapped) \in Int /\ TrappedNative(trapped) \in Int
    BY <2>2 DEF TrapsChange
  <2> QED BY <2>1, <2>3, <2>5, <2>6, <2>7, <2>8 DEF TrapsChange
<1>16. Books(assets, f, lost, trapped, issued)
  BY <1>1, BooksAreConserved DEF f
<1>17. Books(assets, g, lost, U, issued)
  BY <1>5, <1>6, <1>11, <1>14, <1>15, <1>16, NothingIs, BooksKept
<1>18. TokensConserved'
  BY <1>4, <1>10, <1>17, BooksAreConserved DEF g
<1>19. NotesMatchHolding'
  <2>1. h[Erc20] = msg.holding[Erc20]
    BY <1>2, <1>6, <1>7, <1>13
  <2> QED BY <1>1, <1>3, <1>9, <2>1 DEF NotesMatchHolding, DoneForm
<1> QED BY <1>9, <1>10, <1>18, <1>19, SteadySelf DEF XInv

\* A call a message dispatches moves no token.
LEMMA TransactKeeps ==
    ASSUME XInv, Transact
    PROVE  XInv' /\ Called(assets, assets', msg.origin) /\ msg.origin \in Accounts
<1>1. Typed /\ Running /\ TokensConserved /\ NotesMatchHolding
  BY DEF XInv, Transact
<1>2. msg.origin \in Accounts /\ msg.holding \in [Assets -> Nat]
  BY <1>1, SenderIs DEF Typed
<1>3. PICK a \in CallsOf(msg.origin) : Done([World EXCEPT !.assets = a], msg.holding)
  BY DEF Transact
<1>4. Sound(assets) /\ erc20 \in Balances
  BY <1>1 DEF Typed
<1>5. Called(assets, a, msg.origin)
  BY <1>3, <1>4, CallsAreCalled
<1>6. Sound(a)
  BY <1>5 DEF Called
<1> DEFINE w == [World EXCEPT !.assets = a]
<1>7. w = [assets |-> a, erc20 |-> erc20, origins |-> msg.origins]
  BY DEF World
<1>8. DoneAfter(FALSE, w, msg.holding)
  BY <1>3 DEF Done
<1> HIDE DEF w
<1>9. msg.origins \in Seq(Notes)
  BY <1>1, WorldIs
<1>10. w \in Worlds /\ w.assets = a /\ w.origins = msg.origins
  BY <1>4, <1>6, <1>7, <1>9, WorldOf
<1>11. UNCHANGED <<supported, trapped, issued, lost, messages>>
  BY DEF Transact, outside
<1>12. Typed' /\ DoneForm(FALSE, w, msg.holding)
  BY <1>1, <1>2, <1>8, <1>10, <1>11, DoneTyped DEF Typed
<1>13. assets' = a /\ FlightOf(msg') = FlightOf(msg)
  BY <1>10, <1>12 DEF DoneForm, FlightOf
<1>14. SupplyOf(a) = SupplyOf(assets)
  BY <1>4, <1>5, CalledSupply
<1>15. SumFunction(a.native) + SumFunction(a.reserved)
       = SumFunction(assets.native) + SumFunction(assets.reserved)
  BY <1>5 DEF Called
<1>16. Books(assets, FlightOf(msg), lost, trapped, issued)
  BY <1>1, BooksAreConserved
<1>17. Books(a, FlightOf(msg), lost, trapped, issued)
  BY <1>14, <1>15, <1>16 DEF Books
<1>18. TokensConserved'
  BY <1>11, <1>13, <1>17, BooksAreConserved
<1>19. NotesMatchHolding'
  BY <1>1, <1>10, <1>12 DEF NotesMatchHolding, DoneForm
<1> QED BY <1>2, <1>5, <1>12, <1>13, <1>18, <1>19 DEF XInv

\* The message changed and nothing else; what it has in flight is the same.
LEMMA MessageKeeps ==
    ASSUME XInv, UNCHANGED <<assets, supported, erc20, trapped, issued, lost, messages>>,
           msg.phase # "none", msg' \in Messages, msg'.phase # "none", msg'.origin \in Accounts,
           msg'.failed = msg.failed, msg'.origins = msg.origins,
           msg'.holding[Erc20] = msg.holding[Erc20],
           \A x \in Kinds : FlightOf(msg')[x] = FlightOf(msg)[x]
    PROVE  XInv' /\ Steady(assets, assets')
<1>1. Typed /\ TokensConserved /\ NotesMatchHolding
  BY DEF XInv
<1>2. msg \in Messages /\ Sound(assets) /\ trapped \in SUBSET Traps /\ IsFiniteSet(trapped)
      /\ lost \in [Assets -> Nat] /\ issued \in [Assets -> Nat]
  BY <1>1 DEF Typed, MessageInv, TrapsInv
<1>3. FlightOf(msg) \in [Assets -> Nat] /\ FlightOf(msg') \in [Assets -> Nat]
  BY <1>2, MessageParts DEF InFlightIs
<1>4. Books(assets, FlightOf(msg), lost, trapped, issued)
  BY <1>1, BooksAreConserved
<1>5. \A x \in Kinds : Held(assets, x) + FlightOf(msg')[x] = Held(assets, x) + FlightOf(msg)[x]
  OBVIOUS
<1>6. Books(assets, FlightOf(msg'), lost, trapped, issued)
  BY <1>2, <1>3, <1>4, <1>5, SteadySelf, BooksMoved
<1>7. TokensConserved'
  BY <1>6, BooksAreConserved
<1>8. NotesMatchHolding'
  BY <1>1 DEF NotesMatchHolding
<1>9. Sound(assets') /\ erc20' \in Balances /\ PricesInv'
      /\ issued' \in [Assets -> Nat] /\ lost' \in [Assets -> Nat]
  BY <1>1 DEF Typed, PricesInv
<1>10. MessageInv'
  BY <1>1 DEF Typed, MessageInv
<1>11. TrapsInv'
  BY <1>1 DEF Typed, TrapsInv
<1> QED BY <1>7, <1>8, <1>9, <1>10, <1>11, SteadySelf DEF XInv, Typed

LEMMA ChargeNat ==
    ASSUME PricesInv, NEW weight \in Nat, NEW x, NEW n \in compute_amount_to_charge(supported, weight, x)
    PROVE  n \in Nat /\ x # Erc20
<1>1. CASE x = NativeLocation
  <2>1. compute_amount_to_charge(supported, weight, x) = {WeightToFee(weight)}
    <3>1. x \notin DOMAIN supported
      BY <1>1, TraderAssumption DEF PricesInv
    <3> QED BY <1>1, <3>1 DEF compute_amount_to_charge
  <2>2. n = weight
    BY <2>1 DEF WeightToFee
  <2> QED BY <1>1, <2>2, XcmExecutionAssumption
<1>2. CASE x # NativeLocation
  <2>1. x \in DOMAIN supported
        /\ n = (WeightToFee(weight) * RelativePriceUnit) \div supported[x].price
    BY <1>2 DEF compute_amount_to_charge
  <2> DEFINE p == supported[x].price
             m == WeightToFee(weight) * RelativePriceUnit
  <2>2. p \in Nat \ {0}
    BY <2>1 DEF PricesInv
  <2>3. m \in Nat
    BY TraderAssumption DEF WeightToFee
  <2> HIDE DEF p, m
  <2>4. m \div p \in Nat
    BY <2>2, <2>3
  <2>5. x # Erc20
    BY <2>1, XcmExecutionAssumption DEF PricesInv
  <2> QED BY <2>1, <2>4, <2>5 DEF p, m
<1> QED BY <1>1, <1>2

\* The holding and the trader of a message changed.
Rewritten(m, v, t, k, n) ==
    v = [m EXCEPT !.trader = t, !.holding = [m.holding EXCEPT ![k] = n], !.steps = m.steps + 1]

RewrittenForm(m, v, t, k, n) ==
    /\ v \in Messages /\ v.phase = m.phase /\ v.origin = m.origin
    /\ v.failed = m.failed /\ v.origins = m.origins /\ v.trader = t
    /\ \A y \in Assets : v.holding[y] = IF y = k THEN n ELSE m.holding[y]

LEMMA HoldingChanged ==
    ASSUME NEW m \in Messages, NEW k \in Assets, NEW n \in Nat, NEW t \in Traders,
           NEW v, Rewritten(m, v, t, k, n)
    PROVE  RewrittenForm(m, v, t, k, n)
<1> DEFINE h == [m.holding EXCEPT ![k] = n]
           s == m.steps + 1
<1>1. m.holding \in [Assets -> Nat] /\ m.steps \in Nat
  BY MessageParts
<1>2. h \in [Assets -> Nat] /\ s \in Nat /\ \A y \in Assets : h[y] = IF y = k THEN n ELSE m.holding[y]
  BY <1>1
<1>3. v = [m EXCEPT !.trader = t, !.holding = h, !.steps = s]
  BY DEF Rewritten
<1> HIDE DEF h, s
<1>4. v \in Messages /\ v.phase = m.phase /\ v.origin = m.origin
      /\ v.failed = m.failed /\ v.origins = m.origins /\ v.trader = t /\ v.holding = h
  BY <1>2, <1>3 DEF Messages
<1> QED BY <1>2, <1>4 DEF RewrittenForm

\* What leaves the holding is with the trader, and the other way round.
LEMMA TraderKeeps ==
    ASSUME XInv, UNCHANGED <<assets, supported, erc20, trapped, issued, lost, messages>>,
           msg.phase # "none", NEW k \in Assets, k # Erc20, NEW n \in Nat, NEW t \in Traders,
           Rewritten(msg, msg', t, k, n),
           t.amount = 0 \/ t.location = k,
           msg.trader.amount = 0 \/ msg.trader.location = k,
           n + t.amount = msg.holding[k] + msg.trader.amount
    PROVE  XInv' /\ Steady(assets, assets')
<1>1. msg \in Messages /\ msg.origin \in Accounts
  BY DEF XInv, Typed, MessageInv
<1>2. /\ msg' \in Messages /\ msg'.phase = msg.phase /\ msg'.origin = msg.origin
      /\ msg'.failed = msg.failed /\ msg'.origins = msg.origins /\ msg'.trader = t
      /\ \A y \in Assets : msg'.holding[y] = IF y = k THEN n ELSE msg.holding[y]
  BY <1>1, HoldingChanged DEF RewrittenForm
<1> DEFINE f == FlightOf(msg)
           g == FlightOf(msg')
           a == msg.trader.amount
           b == t.amount
<1>3. /\ InFlightIs(f, msg.holding, msg.trader.location, a)
      /\ InFlightIs(g, msg'.holding, t.location, b)
      /\ msg.holding \in [Assets -> Nat] /\ a \in Nat /\ b \in Nat
  BY <1>1, <1>2, MessageParts
<1> HIDE DEF f, g, a, b
<1>4. ASSUME NEW x \in Kinds
      PROVE  g[x] = f[x]
  <2>1. x \in Assets /\ msg.holding[x] \in Nat
    BY <1>3, KindsAre
  <2>2. /\ f[x] = msg.holding[x] + (IF x = msg.trader.location THEN a ELSE 0)
        /\ g[x] = msg'.holding[x] + (IF x = t.location THEN b ELSE 0)
    BY <1>3, <2>1 DEF InFlightIs
  <2>3. CASE x = k
    <3>1. f[x] = msg.holding[x] + a /\ g[x] = n + b
      BY <1>2, <1>3, <2>1, <2>2, <2>3 DEF a, b
    <3> QED BY <2>3, <3>1 DEF a, b
  <2>4. CASE x # k
    <3>1. f[x] = msg.holding[x] + 0 /\ g[x] = msg.holding[x] + 0
      BY <1>2, <1>3, <2>1, <2>2, <2>4 DEF a, b
    <3> QED BY <3>1
  <2> QED BY <2>3, <2>4
<1>5. msg'.holding[Erc20] = msg.holding[Erc20]
  BY <1>2 DEF Assets
<1>6. \A x \in Kinds : FlightOf(msg')[x] = FlightOf(msg)[x]
  BY <1>4 DEF f, g
<1> QED BY <1>1, <1>2, <1>5, <1>6, MessageKeeps

LEMMA BuyKeeps ==
    ASSUME XInv, NEW weight \in 1 .. MaxWeight, NEW x \in Assets, BuyExecution(weight, x)
    PROVE  XInv' /\ Steady(assets, assets')
<1> DEFINE bought == buy_weight(supported, msg.trader, weight, x, msg.holding[x])
<1>1. /\ Running /\ UNCHANGED <<supported, trapped, issued, lost, messages>>
      /\ IF bought = {} THEN Failed(msg.origins)
         ELSE /\ \E b \in bought : msg' = [msg EXCEPT !.trader = b.trader, !.holding[x] = b.unused,
                                                      !.steps = @ + 1]
              /\ UNCHANGED <<assets, erc20>>
  BY DEF BuyExecution, outside
<1>2. Typed /\ PricesInv
  BY DEF XInv, Typed
<1>3. msg \in Messages /\ msg.origin \in Accounts /\ msg.phase # "none"
      /\ msg.holding \in [Assets -> Nat] /\ weight \in Nat
  <2>1. msg.origin \in Accounts /\ msg.holding \in [Assets -> Nat] /\ msg \in Messages
    BY <1>1, <1>2, SenderIs DEF Typed, MessageInv
  <2>2. weight \in Nat
    BY XcmExecutionAssumption
  <2>3. msg.phase # "none"
    BY <1>1 DEF Running
  <2> QED BY <2>1, <2>2, <2>3
<1>4. ASSUME Failed(msg.origins) PROVE XInv' /\ Steady(assets, assets')
  <2>1. msg.origins \in Seq(Notes)
    BY <1>2, WorldIs
  <2> QED BY <1>1, <1>4, <2>1, FailedKeeps, SteadySelf
<1>5. ASSUME NEW b \in bought, UNCHANGED <<assets, erc20>>,
             msg' = [msg EXCEPT !.trader = b.trader, !.holding[x] = b.unused, !.steps = @ + 1]
      PROVE  XInv' /\ Steady(assets, assets')
  <2> DEFINE offer == msg.holding[x]
             t0 == msg.trader
  <2>1. PICK amount \in compute_amount_to_charge(supported, weight, x) :
            /\ amount <= offer /\ ~t0.paid
            /\ b = [trader |-> IF amount = 0 THEN t0
                               ELSE [weight |-> weight, paid |-> TRUE, location |-> x,
                                     amount |-> amount],
                    unused |-> offer - amount]
    BY DEF buy_weight
  <2>2. amount \in Nat /\ x # Erc20
    BY <1>2, <1>3, <2>1, ChargeNat
  <2>3. t0 \in Traders /\ t0.amount = 0 /\ offer \in Nat
    BY <1>3, <2>1, MessageParts DEF Traders
  <2> DEFINE t == b.trader
             n == b.unused
  <2>4. n \in Nat /\ n = offer - amount
    BY <2>1, <2>2, <2>3
  <2>5. t \in Traders /\ (t.amount = 0 \/ t.location = x) /\ t.amount = amount
    BY <1>3, <2>1, <2>2, <2>3 DEF Traders
  <2>6. Rewritten(msg, msg', t, x, n)
    BY <1>5, Zenon DEF Rewritten
  <2> HIDE DEF t, n
  <2>7. n + t.amount = offer + t0.amount
    BY <2>2, <2>3, <2>4, <2>5
  <2> QED BY <1>1, <1>3, <1>5, <2>2, <2>3, <2>4, <2>5, <2>6, <2>7, TraderKeeps
<1> QED BY <1>1, <1>4, <1>5

LEMMA RefundKeeps ==
    ASSUME XInv, NEW actual \in 0 .. MaxWeight, RefundSurplus(actual)
    PROVE  XInv' /\ Steady(assets, assets')
<1> DEFINE t0 == msg.trader
           k == t0.location
           r == refund_weight(supported, t0, actual)
<1>1. /\ UNCHANGED <<assets, supported, erc20, trapped, issued, lost, messages>>
      /\ msg.phase # "none" /\ t0.paid
      /\ msg' = [msg EXCEPT !.trader = r.trader, !.holding[k] = @ + r.refund, !.steps = @ + 1]
  BY DEF RefundSurplus, outside
<1>2. PricesInv /\ msg \in Messages
  BY DEF XInv, Typed, MessageInv
<1>3. /\ msg.holding \in [Assets -> Nat] /\ actual \in Nat /\ t0 \in Traders
      /\ t0.weight \in Nat /\ t0.amount \in Nat /\ k \in Assets /\ k # Erc20
  BY <1>2, MessageParts, XcmExecutionAssumption
<1>4. msg.holding[k] \in Nat
  BY <1>3
<1>5. r.trader \in Traders /\ r.trader.location = k /\ r.refund \in Nat
      /\ r.refund + r.trader.amount = t0.amount
  <2>1. CASE actual = t0.weight
    <3>1. r = [trader |-> t0, refund |-> 0]
      BY <2>1 DEF refund_weight
    <3> QED BY <1>3, <3>1
  <2>2. CASE actual # t0.weight
    <3> DEFINE weight == IF actual < t0.weight THEN actual ELSE t0.weight
               charge == compute_amount_to_charge(supported, weight, k)
               amount == IF charge = {} THEN Overpriced ELSE CHOOSE x \in charge : TRUE
               final  == IF amount < t0.amount THEN amount ELSE t0.amount
               left   == t0.weight - weight
    <3>1. r = [trader |-> [t0 EXCEPT !.weight = left, !.amount = final],
               refund |-> t0.amount - final]
      BY <1>1, <2>2, Zenon DEF refund_weight
    <3>2. weight \in Nat /\ left \in Nat
      BY <1>3
    <3> HIDE DEF weight, left
    <3>3. amount \in Nat
      <4>1. CASE charge = {}
        BY <4>1, TraderAssumption DEF Overpriced
      <4>2. CASE charge # {}
        BY <1>2, <3>2, <4>2, ChargeNat
      <4> QED BY <4>1, <4>2
    <3> HIDE DEF amount, charge
    <3>4. final \in Nat /\ t0.amount - final \in Nat /\ (t0.amount - final) + final = t0.amount
      BY <1>3, <3>3
    <3> HIDE DEF final
    <3> DEFINE u == [t0 EXCEPT !.weight = left, !.amount = final]
               z == t0.amount - final
    <3>5. u \in Traders /\ u.location = k /\ u.amount = final
      BY <1>1, <1>3, <3>2, <3>4 DEF Traders
    <3>6. r = [trader |-> u, refund |-> z] /\ z \in Nat /\ z + final = t0.amount
      BY <3>1, <3>4
    <3> HIDE DEF u, z, r
    <3>7. r.trader = u /\ r.refund = z
      BY <3>6
    <3> QED BY <3>5, <3>6, <3>7 DEF r
  <2> QED BY <2>1, <2>2
<1> DEFINE n == msg.holding[k] + r.refund
           t == r.trader
<1>6. Rewritten(msg, msg', t, k, n)
  BY <1>1, Zenon DEF Rewritten
<1>7. t.amount \in Nat
  BY <1>5 DEF Traders
<1>8. n \in Nat /\ n + t.amount = msg.holding[k] + t0.amount
  BY <1>3, <1>4, <1>5, <1>7
<1> HIDE DEF r, n, t
<1>9. t \in Traders /\ t.location = k
  BY <1>5 DEF t
<1> QED BY <1>1, <1>3, <1>6, <1>8, <1>9, TraderKeeps

LEMMA DescendKeeps ==
    ASSUME XInv, DescendOrigin
    PROVE  XInv' /\ Steady(assets, assets')
<1> DEFINE o == DerivedOf[msg.origin]
           s == msg.steps + 1
<1>1. /\ Running /\ msg.origin \in DOMAIN DerivedOf
      /\ UNCHANGED <<assets, supported, erc20, trapped, issued, lost, messages>>
      /\ msg' = [msg EXCEPT !.origin = o, !.steps = s]
  BY DEF DescendOrigin, outside
<1>2. msg \in Messages /\ msg.phase # "none"
  BY <1>1 DEF XInv, Typed, MessageInv, Running
<1>3. o \in Accounts /\ s \in Nat
  BY <1>1, <1>2, MessageParts, XcmExecutionAssumption
<1> HIDE DEF o, s
<1>4. msg' \in Messages /\ msg'.origin = o /\ msg'.phase = msg.phase /\ msg'.failed = msg.failed
      /\ msg'.origins = msg.origins /\ msg'.holding = msg.holding /\ msg'.trader = msg.trader
  BY <1>1, <1>2, <1>3 DEF Messages
<1>5. FlightOf(msg') = FlightOf(msg)
  BY <1>4 DEF FlightOf
<1> QED BY <1>1, <1>2, <1>3, <1>4, <1>5, MessageKeeps

LEMMA HandleKeeps ==
    ASSUME XInv, HandleError
    PROVE  XInv' /\ Steady(assets, assets')
<1>1. /\ UNCHANGED <<assets, supported, erc20, trapped, issued, lost, messages>>
      /\ msg.phase # "none" /\ msg' = [msg EXCEPT !.phase = "handling"]
  BY DEF HandleError, outside
<1>2. msg \in Messages /\ msg.origin \in Accounts
  BY <1>1 DEF XInv, Typed, MessageInv
<1>3. msg' \in Messages /\ msg'.origin = msg.origin /\ msg'.phase # "none" /\ msg'.failed = msg.failed
      /\ msg'.origins = msg.origins /\ msg'.holding = msg.holding /\ msg'.trader = msg.trader
  BY <1>1, <1>2 DEF Messages, Phases
<1>4. FlightOf(msg') = FlightOf(msg)
  BY <1>3 DEF FlightOf
<1> QED BY <1>1, <1>2, <1>3, <1>4, MessageKeeps

\* Nothing of the message, its traps and the books changed.
LEMMA BetweenKeeps ==
    ASSUME XInv, UNCHANGED <<trapped, msg, issued, lost, messages>>,
           Sound(assets'), erc20' \in Balances, PricesInv',
           Books(assets', FlightOf(msg), lost, trapped, issued)
    PROVE  XInv'
<1>1. Typed /\ NotesMatchHolding
  BY DEF XInv
<1>2. FlightOf(msg') = FlightOf(msg)
  BY DEF FlightOf
<1>3. TokensConserved'
  BY <1>2, BooksAreConserved
<1>4. NotesMatchHolding'
  BY <1>1 DEF NotesMatchHolding
<1>5. MessageInv' /\ TrapsInv' /\ issued' \in [Assets -> Nat] /\ lost' \in [Assets -> Nat]
  BY <1>1 DEF Typed, MessageInv, TrapsInv
<1> QED BY <1>3, <1>4, <1>5 DEF XInv, Typed

LEMMA BeginKeeps ==
    ASSUME XInv, NEW sender \in Senders, Begin(sender)
    PROVE  XInv' /\ Steady(assets, assets')
<1>1. /\ UNCHANGED <<assets, supported, erc20, trapped, issued, lost>>
      /\ messages' = messages + 1
      /\ msg' = [msg EXCEPT !.phase = "running", !.origin = sender]
  BY DEF Begin
<1>2. Typed /\ TokensConserved /\ NotesMatchHolding /\ sender \in Accounts
  BY XcmExecutionAssumption DEF XInv
<1>3. msg \in Messages /\ messages \in Nat
  BY <1>2 DEF Typed, MessageInv
<1>4. msg' \in Messages /\ msg'.origin = sender /\ msg'.phase = "running"
      /\ msg'.failed = msg.failed /\ msg'.origins = msg.origins
      /\ msg'.holding = msg.holding /\ msg'.trader = msg.trader
  BY <1>1, <1>2, <1>3 DEF Messages, Phases
<1>5. FlightOf(msg') = FlightOf(msg)
  BY <1>4 DEF FlightOf
<1>6. TokensConserved'
  BY <1>1, <1>2, <1>5, BooksAreConserved
<1>7. NotesMatchHolding'
  BY <1>2, <1>4 DEF NotesMatchHolding
<1>8. MessageInv'
  BY <1>1, <1>2, <1>3, <1>4 DEF MessageInv
<1>9. TrapsInv'
  <2>1. trapped \subseteq Traps /\ IsFiniteSet(trapped) /\ \A t \in trapped : t.message <= messages
    BY <1>2 DEF Typed, TrapsInv
  <2>2. \A t \in trapped : t.message \in Nat
    BY <2>1 DEF Traps
  <2>3. \A t \in trapped : t.message <= messages + 1 /\ t.message # messages + 1
    BY <1>3, <2>1, <2>2
  <2> QED BY <1>1, <2>1, <2>3 DEF TrapsInv
<1>10. Sound(assets') /\ erc20' \in Balances /\ PricesInv'
       /\ issued' \in [Assets -> Nat] /\ lost' \in [Assets -> Nat]
  BY <1>1, <1>2 DEF Typed, PricesInv
<1>11. Typed'
  BY <1>8, <1>9, <1>10 DEF Typed
<1> QED BY <1>1, <1>6, <1>7, <1>11, SteadySelf DEF XInv

\* Between messages there is nothing in flight.
NoMessageForm(m) ==
    /\ m \in Messages /\ m.phase = "none" /\ m.origins = <<>> /\ m.holding[Erc20] = 0
    /\ FlightOf(m) \in [Assets -> Nat] /\ \A x \in Assets : FlightOf(m)[x] = 0

LEMMA NoMessageIs ==
    ASSUME NEW s \in Nat, NEW m, m = [NoMessage EXCEPT !.steps = s] \/ (m = NoMessage /\ s = 0)
    PROVE  NoMessageForm(m)
<1>1. NewTrader \in Traders /\ NewTrader.location = NativeLocation /\ NewTrader.amount = 0
  <2>1. NativeLocation \in Assets \ {Erc20}
    BY XcmExecutionAssumption DEF Assets
  <2> QED BY <2>1 DEF NewTrader, Traders
<1>2. m = [phase |-> "none", origin |-> "none", holding |-> Nothing, trader |-> NewTrader,
           origins |-> <<>>, failed |-> FALSE, steps |-> s]
  BY DEF NoMessage
<1>3. Nothing \in [Assets -> Nat] /\ Erc20 \in Assets
  BY NothingIs DEF Assets
<1> DEFINE e == <<>>
           t == NewTrader
           h == Nothing
           v == [phase |-> "none", origin |-> "none", holding |-> h, trader |-> t,
                 origins |-> e, failed |-> FALSE, steps |-> s]
<1>a. e \in Seq(Notes)
  OBVIOUS
<1>b. t \in Traders /\ h \in [Assets -> Nat] /\ s \in Nat
  BY <1>1, <1>3
<1>c. m = v
  BY <1>2
<1> HIDE DEF e, t, h
<1>d. v \in Messages
  BY ONLY <1>a, <1>b DEF Messages, Phases
<1>e. v.phase = "none" /\ v.origins = e /\ v.holding = h /\ v.trader = t
  BY ONLY DEF v
<1>4. m \in Messages /\ m.phase = "none" /\ m.origins = <<>> /\ m.holding = Nothing
      /\ m.trader = NewTrader
  BY <1>c, <1>d, <1>e DEF e, t, h
<1> HIDE DEF v
<1>5. InFlightIs(FlightOf(m), Nothing, NativeLocation, 0)
  BY <1>1, <1>4, MessageParts
<1>6. \A x \in Assets : FlightOf(m)[x] = Nothing[x] + 0
  BY <1>5 DEF InFlightIs
<1>7. \A x \in Assets : FlightOf(m)[x] = 0
  BY <1>6, NothingIs
<1>8. FlightOf(m) \in [Assets -> Nat]
  BY <1>5 DEF InFlightIs
<1> QED BY <1>3, <1>4, <1>7, <1>8, NothingIs DEF NoMessageForm

\* What is left in the holding goes into a new trap.
LEMMA TrapHolds ==
    ASSUME Typed, msg.phase # "none", NEW kept, kept = [msg.holding EXCEPT ![Erc20] = 0]
    PROVE  /\ TrapsChange(trapped, Trap(msg.holding), kept, Nothing)
           /\ Trap(msg.holding) \subseteq Traps /\ IsFiniteSet(Trap(msg.holding))
           /\ \A t \in Trap(msg.holding) : t.message <= messages
           /\ kept \in [Assets -> Nat]
           /\ \A x \in Kinds : kept[x] = msg.holding[x]
<1> DEFINE U == Trap(msg.holding)
           k == [who |-> msg.origin, assets |-> kept, message |-> messages]
<1>1. /\ trapped \in SUBSET Traps /\ IsFiniteSet(trapped)
      /\ \A t \in trapped : t.message <= messages /\ t.message # messages
      /\ msg.holding \in [Assets -> Nat] /\ msg.origin \in Accounts /\ messages \in Nat
  <2>1. msg \in Messages /\ msg.origin \in Accounts /\ messages \in Nat
    BY DEF Typed, MessageInv
  <2>2. TrapsInv
    BY DEF Typed
  <2> QED BY <2>1, <2>2, MessageParts DEF TrapsInv
<1>2. kept \in [Assets -> Nat] /\ kept[Erc20] = 0
  BY <1>1 DEF Assets
<1>3. \A x \in Kinds : kept[x] = msg.holding[x]
  BY <1>1, KindsAre
<1>4. U = IF kept = Nothing THEN trapped ELSE trapped \cup {k}
  BY DEF Trap
<1>5. k \in Traps /\ k.assets = kept /\ k.message = messages
  BY <1>1, <1>2 DEF Traps
<1>6. k \notin trapped
  BY <1>1, <1>5
<1> HIDE DEF U, k
<1>7. CASE kept = Nothing
  BY <1>1, <1>2, <1>3, <1>4, <1>7, TrapsSame DEF U
<1>8. CASE kept # Nothing
  <2>1. U = trapped \cup {k}
    BY <1>4, <1>8
  <2>2. /\ IsFiniteSet(U) /\ Trapped(U) = Trapped(trapped) + SumOver(kept)
        /\ TrappedNative(U) = TrappedNative(trapped) + kept[NativeLocation]
        /\ Trapped(trapped) \in Int /\ TrappedNative(trapped) \in Int
    BY <1>1, <1>5, <1>6, <2>1, TrapsMore
  <2>3. U \in SUBSET Traps
    BY <1>1, <1>5, <2>1
  <2>4. Trapped(U) \in Int /\ TrappedNative(U) \in Int
    BY <2>2, <2>3, TrapsInt
  <2>5. Nothing[NativeLocation] = 0 /\ SumOver(Nothing) = 0
    BY NothingIs, SumOfNothing DEF Assets
  <2>6. TrapsChange(trapped, U, kept, Nothing)
    BY <2>2, <2>4, <2>5 DEF TrapsChange
  <2>7. \A t \in U : t.message <= messages
    BY <1>1, <1>5, <2>1
  <2> QED BY <1>2, <1>3, <2>2, <2>3, <2>6, <2>7 DEF U
<1> QED BY <1>7, <1>8

\* The payment of the trader went to the fees account, or is lost.
FeePaid(fee) ==
    /\ Sound(assets') /\ Steady(assets, assets') /\ lost' \in [Assets -> Nat]
    /\ \A x \in Locations : Held(assets', x) + lost'[x] = Held(assets, x) + lost[x] + fee[x]
    /\ Held(assets', NativeLocation) = Held(assets, NativeLocation) + fee[NativeLocation]

LEMMA EndPays ==
    ASSUME Typed, End, NEW fee, fee = Only(msg.trader.location, msg.trader.amount)
    PROVE  FeePaid(fee) /\ fee \in [Assets -> Nat]
           /\ FlightOf(msg) = Plus(msg.holding, fee)
<1> DEFINE x == msg.trader.location
           n == msg.trader.amount
           d == deposit_asset(World, x, XcmFeesAccount, n)
<1>1. /\ x \in Assets \ {Erc20} /\ n \in Nat /\ msg.holding \in [Assets -> Nat]
      /\ Sound(assets) /\ lost \in [Assets -> Nat]
  <2>1. msg \in Messages /\ Sound(assets) /\ lost \in [Assets -> Nat]
    BY DEF Typed, MessageInv
  <2> QED BY <2>1, MessageParts
<1>2. World \in Worlds /\ World.assets = assets
  BY WorldIs
<1>3. \A w \in d.worlds : Changes(World, w, x, n)
  BY <1>1, <1>2, XcmExecutionAssumption, DepositChanges
<1>4. FlightOf(msg) = Plus(msg.holding, fee)
  BY DEF FlightOf
<1>5. fee = [Nothing EXCEPT ![x] = n]
  BY DEF Only
<1>6. IF fee = Nothing \/ d.worlds = {} THEN lost' = Plus(lost, fee) /\ UNCHANGED assets
      ELSE (\E w \in d.worlds : assets' = w.assets) /\ UNCHANGED lost
  BY DEF End
<1>7. x = NativeLocation => d.worlds # {}
  <2>1. ASSUME x = NativeLocation PROVE d.worlds # {}
    <3>1. d = [worlds |-> WithAssets(World, Pay(World.assets, XcmFeesAccount, n)), origins |-> World.origins]
      BY <1>1, <2>1 DEF deposit_asset
    <3>2. d.worlds = WithAssets(World, Pay(World.assets, XcmFeesAccount, n))
      BY <3>1
    <3> QED BY <3>2 DEF WithAssets, Pay
  <2> QED BY <2>1
<1> HIDE DEF d, x, n
<1>8. fee \in [Assets -> Nat] /\ \A y \in Assets : fee[y] = IF y = x THEN n ELSE 0
  <2>1. Nothing \in [Assets -> Nat] /\ \A y \in Assets : Nothing[y] = 0
    BY NothingIs
  <2> HIDE DEF Nothing
  <2> QED BY <1>1, <1>5, <2>1
<1>9. \A y \in Kinds : Held(assets, y) \in Nat /\ fee[y] \in Nat /\ lost[y] \in Nat
  BY <1>1, <1>8, HeldNat, KindsAre
<1>10. CASE fee = Nothing \/ d.worlds = {}
  <2>1. lost' = Plus(lost, fee) /\ assets' = assets
    BY <1>6, <1>10
  <2>2. lost' \in [Assets -> Nat] /\ \A y \in Assets : lost'[y] = lost[y] + fee[y]
    BY <1>1, <1>8, <2>1, PlusIs
  <2>3. fee[NativeLocation] = 0
    BY <1>7, <1>8, <1>10, NothingIs DEF Assets
  <2>4. \A y \in Locations : Held(assets, y) + lost'[y] = Held(assets, y) + lost[y] + fee[y]
    BY <1>9, <2>2, KindsAre
  <2>5. Held(assets, NativeLocation) = Held(assets, NativeLocation) + fee[NativeLocation]
    BY <1>9, <2>3, KindsAre
  <2>6. FeePaid(fee)
    BY <1>1, <2>1, <2>2, <2>4, <2>5, SteadySelf DEF FeePaid
  <2> QED BY <1>4, <1>8, <2>6
<1>11. CASE ~(fee = Nothing \/ d.worlds = {})
  <2>1. PICK w \in d.worlds : assets' = w.assets
    BY <1>6, <1>11
  <2>2. lost' = lost
    BY <1>6, <1>11
  <2>3. w \in Worlds /\ Steady(assets, w.assets)
        /\ \A y \in Assets : Amount(w, y) = IF y = x THEN Amount(World, y) + n ELSE Amount(World, y)
    BY <1>2, <1>3 DEF Changes
  <2>4. \A y \in Kinds : Held(w.assets, y) = IF y = x THEN Held(assets, y) + n ELSE Held(assets, y)
    BY <1>2, <2>3, AmountIs, KindsAre
  <2>5. \A y \in Kinds : Held(assets', y) = Held(assets, y) + fee[y]
    BY <1>8, <1>9, <2>1, <2>4, KindsAre
  <2>6. \A y \in Locations : Held(assets', y) + lost'[y] = Held(assets, y) + lost[y] + fee[y]
    BY <1>9, <2>2, <2>5, KindsAre
  <2>7. Sound(assets')
    BY <2>1, <2>3, WorldParts
  <2>8. FeePaid(fee)
    BY <1>1, <2>1, <2>2, <2>3, <2>5, <2>6, <2>7, KindsAre DEF FeePaid
  <2> QED BY <1>4, <1>8, <2>8
<1> QED BY <1>10, <1>11

LEMMA EndKeeps ==
    ASSUME XInv, End
    PROVE  XInv' /\ Steady(assets, assets')
<1> DEFINE fee  == Only(msg.trader.location, msg.trader.amount)
           kept == [msg.holding EXCEPT ![Erc20] = 0]
           U == Trap(msg.holding)
           f == FlightOf(msg)
           g == FlightOf(msg')
<1>1. Typed /\ TokensConserved /\ msg.phase # "none"
  BY DEF XInv, End
<1>2. /\ trapped' = U /\ UNCHANGED <<supported, erc20, issued, messages>>
      /\ msg' = [NoMessage EXCEPT !.steps = msg.steps]
  BY DEF End
<1>3. msg \in Messages /\ msg.steps \in Nat /\ msg.holding \in [Assets -> Nat] /\ messages \in Nat
      /\ Sound(assets) /\ lost \in [Assets -> Nat] /\ issued \in [Assets -> Nat]
  <2>1. msg \in Messages /\ messages \in Nat
        /\ Sound(assets) /\ lost \in [Assets -> Nat] /\ issued \in [Assets -> Nat]
    BY <1>1 DEF Typed, MessageInv
  <2> QED BY <2>1, MessageParts
<1>4. FeePaid(fee) /\ fee \in [Assets -> Nat] /\ f = Plus(msg.holding, fee)
  BY <1>1, EndPays
<1>5. /\ TrapsChange(trapped, U, kept, Nothing) /\ U \subseteq Traps /\ IsFiniteSet(U)
      /\ \A t \in U : t.message <= messages
      /\ kept \in [Assets -> Nat] /\ \A x \in Kinds : kept[x] = msg.holding[x]
  BY <1>1, TrapHolds
<1>6. NoMessageForm(msg')
  BY <1>2, <1>3, NoMessageIs
<1>7. g \in [Assets -> Nat] /\ \A x \in Assets : g[x] = 0
  BY <1>6 DEF NoMessageForm
<1>8. Books(assets, f, lost, trapped, issued)
  BY <1>1, BooksAreConserved
<1> HIDE DEF fee, kept, U, f, g
<1>9. f \in [Assets -> Nat] /\ \A x \in Assets : f[x] = msg.holding[x] + fee[x]
  BY <1>3, <1>4, PlusIs
<1>10. Sound(assets') /\ Steady(assets, assets') /\ lost' \in [Assets -> Nat]
  BY <1>4 DEF FeePaid
<1>11. \A x \in Kinds :
           /\ x \in Assets /\ g[x] = 0 /\ Nothing[x] = 0
           /\ f[x] = kept[x] + fee[x] /\ kept[x] \in Nat /\ fee[x] \in Nat
           /\ lost[x] \in Nat /\ lost'[x] \in Nat /\ issued[x] \in Nat
           /\ Held(assets, x) \in Nat /\ Held(assets', x) \in Nat
  <2>1. \A x \in Kinds : x \in Assets /\ Held(assets, x) \in Nat /\ Held(assets', x) \in Nat
    BY <1>3, <1>10, HeldNat, KindsAre
  <2>2. \A x \in Kinds : g[x] = 0 /\ Nothing[x] = 0 /\ f[x] = kept[x] + fee[x]
    BY <1>5, <1>7, <1>9, <2>1, NothingIs
  <2>3. \A x \in Kinds : kept[x] \in Nat /\ fee[x] \in Nat
                         /\ lost[x] \in Nat /\ lost'[x] \in Nat /\ issued[x] \in Nat
    BY <1>3, <1>4, <1>5, <1>10, <2>1
  <2> QED BY <2>1, <2>2, <2>3
<1>12. Balanced(assets, f, lost, issued, assets', g, lost', issued, kept, Nothing)
  <2>1. \A x \in Locations :
            Held(assets', x) + g[x] + lost'[x] + kept[x] + issued[x]
            = Held(assets, x) + f[x] + lost[x] + Nothing[x] + issued[x]
    <3>1. \A x \in Locations : x \in Kinds /\ Held(assets', x) + lost'[x] = Held(assets, x) + lost[x] + fee[x]
      BY <1>4, KindsAre DEF FeePaid
    <3> QED BY ONLY <1>11, <3>1
  <2> DEFINE N == NativeLocation
  <2>2. /\ Held(assets', N) = Held(assets, N) + fee[N]
        /\ g[N] = 0 /\ Nothing[N] = 0
        /\ f[N] = kept[N] + fee[N] /\ kept[N] \in Nat /\ fee[N] \in Nat
        /\ Held(assets, N) \in Nat /\ Held(assets', N) \in Nat
    BY <1>4, <1>11, KindsAre DEF FeePaid
  <2>3. Held(assets, N) = SumFunction(assets.native) /\ Held(assets', N) = SumFunction(assets'.native)
    BY DEF Held
  <2>4. assets'.reserved = assets.reserved
    BY <1>10 DEF Steady
  <2>5. SumFunction(assets.reserved) \in Nat
    BY <1>3, SumOfNats DEF Sound, Ledger
  <2>6. SumFunction(assets'.native) + SumFunction(assets'.reserved) + g[N] + kept[N]
        = SumFunction(assets.native) + SumFunction(assets.reserved) + f[N] + Nothing[N]
    BY ONLY <2>2, <2>3, <2>4, <2>5
  <2> QED BY <2>1, <2>6 DEF Balanced
<1>13. Books(assets', g, lost', U, issued)
  BY <1>3, <1>5, <1>7, <1>8, <1>9, <1>10, <1>12, NothingIs, BooksKept
<1>14. TokensConserved'
  BY <1>2, <1>13, BooksAreConserved DEF g
<1>15. NotesMatchHolding'
  BY <1>6, OwedNothing DEF NotesMatchHolding, NoMessageForm
<1>16. MessageInv' /\ TrapsInv'
  BY <1>2, <1>3, <1>5, <1>6 DEF MessageInv, TrapsInv, NoMessageForm
<1>17. PricesInv' /\ erc20' \in Balances /\ issued' \in [Assets -> Nat]
  BY <1>1, <1>2 DEF Typed, PricesInv
<1> QED BY <1>10, <1>14, <1>15, <1>16, <1>17 DEF XInv, Typed

LEMMA ManageKeeps ==
    ASSUME XInv, ManageAssets
    PROVE  XInv' /\ Called(assets, assets', Governance) /\ msg.phase = "none"
<1>1. Typed /\ TokensConserved
  BY DEF XInv
<1>2. /\ assets' \in CallsOf(Governance) /\ msg.phase = "none"
      /\ UNCHANGED <<supported, erc20, trapped, msg, issued, lost, messages>>
  BY DEF ManageAssets, Between
<1>3. Sound(assets) /\ erc20' \in Balances /\ PricesInv'
  BY <1>1, <1>2 DEF Typed, PricesInv
<1>4. Called(assets, assets', Governance)
  BY <1>2, <1>3, CallsAreCalled
<1>5. Sound(assets') /\ SumFunction(assets'.native) + SumFunction(assets'.reserved)
                        = SumFunction(assets.native) + SumFunction(assets.reserved)
  BY <1>4 DEF Called
<1>6. SupplyOf(assets') = SupplyOf(assets)
  BY <1>3, <1>4, CalledSupply
<1>7. Books(assets, FlightOf(msg), lost, trapped, issued)
  BY <1>1, BooksAreConserved
<1>8. Books(assets', FlightOf(msg), lost, trapped, issued)
  BY <1>5, <1>6, <1>7 DEF Books
<1> QED BY <1>2, <1>3, <1>4, <1>5, <1>8, BetweenKeeps

\* The prices are of assets that may pay fees, and no price is zero.
Priced(s) ==
    /\ DOMAIN s \subseteq FeeLocations
    /\ s \in [DOMAIN s -> [enabled : BOOLEAN, price : Nat \ {0}]]

LEMMA PricesChange ==
    ASSUME NEW s, Priced(s), NEW l \in FeeLocations, NEW p \in Nat,
           NEW r, \/ r \in add_asset(s, l, p) \/ r \in edit_asset(s, l, p)
                  \/ r \in pause_asset_support(s, l) \/ r \in resume_asset_support(s, l)
                  \/ r \in remove_asset(s, l)
    PROVE  Priced(r)
<1> DEFINE P == [enabled : BOOLEAN, price : Nat \ {0}]
<1>0. \A x \in DOMAIN s : s[x] \in P
  BY DEF Priced
<1>1. CASE r \in add_asset(s, l, p)
  <2>1. p # 0 /\ r = [x \in DOMAIN s \cup {l} |->
                         IF x = l THEN [enabled |-> TRUE, price |-> p] ELSE s[x]]
    BY <1>1 DEF add_asset
  <2> DEFINE n == [enabled |-> TRUE, price |-> p]
  <2>2. n \in P
    BY <2>1
  <2> HIDE DEF n, P
  <2>3. r = [x \in DOMAIN s \cup {l} |-> IF x = l THEN n ELSE s[x]]
    BY <2>1 DEF n
  <2>4. DOMAIN r = DOMAIN s \cup {l} /\ r \in [DOMAIN r -> P]
    BY <1>0, <2>2, <2>3
  <2> QED BY <2>4 DEF Priced, P
<1>2. ASSUME NEW v \in P, l \in DOMAIN s, r = [s EXCEPT ![l] = v]
      PROVE  Priced(r)
  <2> HIDE DEF P
  <2>1. DOMAIN r = DOMAIN s /\ r \in [DOMAIN r -> P]
    BY <1>0, <1>2
  <2> QED BY <2>1 DEF Priced, P
<1>3. CASE r \in edit_asset(s, l, p)
  <2>1. p # 0 /\ l \in DOMAIN s /\ r = [s EXCEPT ![l].price = p]
    BY <1>3 DEF edit_asset
  <2> DEFINE v == [s[l] EXCEPT !.price = p]
  <2>2. v \in P
    BY <1>0, <2>1
  <2>3. r = [s EXCEPT ![l] = v]
    BY <2>1, Zenon
  <2> QED BY <1>2, <2>1, <2>2, <2>3
<1>4. ASSUME NEW b \in BOOLEAN, l \in DOMAIN s, r = [s EXCEPT ![l].enabled = b]
      PROVE  Priced(r)
  <2> DEFINE v == [s[l] EXCEPT !.enabled = b]
  <2>2. v \in P
    BY <1>0, <1>4
  <2>3. r = [s EXCEPT ![l] = v]
    BY <1>4, Zenon
  <2> QED BY <1>2, <1>4, <2>2, <2>3
<1>5. CASE r \in pause_asset_support(s, l)
  <2>1. l \in DOMAIN s /\ r = [s EXCEPT ![l].enabled = FALSE]
    BY <1>5 DEF pause_asset_support
  <2> QED BY <1>4, <2>1
<1>6. CASE r \in resume_asset_support(s, l)
  <2>1. l \in DOMAIN s /\ r = [s EXCEPT ![l].enabled = TRUE]
    BY <1>6 DEF resume_asset_support
  <2> QED BY <1>4, <2>1
<1>7. CASE r \in remove_asset(s, l)
  <2>1. r = [x \in DOMAIN s \ {l} |-> s[x]]
    BY <1>7 DEF remove_asset
  <2>2. \A x \in DOMAIN s \ {l} : s[x] \in P
    BY <1>0
  <2> HIDE DEF P
  <2>3. DOMAIN r = DOMAIN s \ {l} /\ r \in [DOMAIN r -> P]
    BY <2>1, <2>2
  <2> QED BY <2>3 DEF Priced, P
<1> QED BY <1>1, <1>3, <1>5, <1>6, <1>7

LEMMA PricesKeep ==
    ASSUME XInv, ManagePrices
    PROVE  XInv' /\ Steady(assets, assets')
<1>1. Typed /\ TokensConserved
  BY DEF XInv
<1>2. UNCHANGED <<assets, erc20, trapped, msg, issued, lost, messages>>
  BY DEF ManagePrices
<1>3. Priced(supported) /\ Prices \subseteq Nat
  BY <1>1, XcmExecutionAssumption DEF Typed, PricesInv, Priced
<1>4. \E l \in FeeLocations, p \in Nat :
          \/ supported' \in add_asset(supported, l, p) \/ supported' \in edit_asset(supported, l, p)
          \/ supported' \in pause_asset_support(supported, l)
          \/ supported' \in resume_asset_support(supported, l)
          \/ supported' \in remove_asset(supported, l)
  <2>1. CASE \E l \in FeeLocations, p \in Prices :
                 supported' \in add_asset(supported, l, p) \cup edit_asset(supported, l, p)
    BY <1>3, <2>1
  <2>2. CASE \E l \in FeeLocations :
                 supported' \in pause_asset_support(supported, l) \cup resume_asset_support(supported, l)
                                \cup remove_asset(supported, l)
    <3>1. 0 \in Nat
      OBVIOUS
    <3> QED BY <2>2, <3>1
  <2>3. \/ supported' \in UNION {add_asset(supported, l, p) \cup edit_asset(supported, l, p) :
                                   l \in FeeLocations, p \in Prices}
        \/ supported' \in UNION {pause_asset_support(supported, l) \cup resume_asset_support(supported, l)
                                   \cup remove_asset(supported, l) : l \in FeeLocations}
    BY DEF ManagePrices
  <2> QED BY <2>1, <2>2, <2>3
<1>5. Priced(supported')
  BY <1>3, <1>4, PricesChange
<1>6. PricesInv' /\ Sound(assets') /\ erc20' \in Balances
  BY <1>1, <1>2, <1>5 DEF Typed, PricesInv, Priced
<1>7. Books(assets', FlightOf(msg), lost, trapped, issued)
  BY <1>1, <1>2, BooksAreConserved
<1> QED BY <1>2, <1>6, <1>7, BetweenKeeps, SteadySelf

LEMMA UserKeeps ==
    ASSUME XInv, NEW from \in Accounts, NEW to \in Recipients, UserTransfer(from, to)
    PROVE  XInv' /\ Steady(assets, assets')
<1>1. Typed /\ TokensConserved /\ to \in Accounts
  BY XcmExecutionAssumption DEF XInv
<1>2. UNCHANGED <<supported, trapped, msg, issued, lost, messages>>
  BY DEF UserTransfer
<1>3. /\ Sound(assets) /\ erc20 \in Balances /\ PricesInv'
      /\ trapped \in SUBSET Traps /\ IsFiniteSet(trapped)
      /\ lost \in [Assets -> Nat] /\ issued \in [Assets -> Nat] /\ msg \in Messages
  BY <1>1, <1>2 DEF Typed, TrapsInv, MessageInv, PricesInv
<1> DEFINE f == FlightOf(msg)
<1>4. f \in [Assets -> Nat]
  BY <1>3, MessageParts DEF InFlightIs
<1>5. Books(assets, f, lost, trapped, issued)
  BY <1>1, BooksAreConserved
<1> HIDE DEF f
<1>6. ASSUME NEW id \in DOMAIN assets.contracts,
             assets' \in TokenTransfer(assets, id, from, to, 1), erc20' = erc20
      PROVE  XInv' /\ Steady(assets, assets')
  <2> DEFINE l == assets.assetsById[id]
  <2>1. l \in DOMAIN assets.assetsByLocation /\ assets.assetsByLocation[l].id = id
    BY <1>3, <1>6 DEF Sound, Agree
  <2> HIDE DEF l
  <2>2. Gains(assets, assets', l, 0)
    <3>1. 1 \in Nat
      OBVIOUS
    <3> QED BY <1>1, <1>3, <1>6, <2>1, <3>1, TransferGains
  <2>3. /\ Sound(assets') /\ Steady(assets, assets')
        /\ \A y \in Kinds : Held(assets', y) = IF y = l THEN Held(assets, y) + 0 ELSE Held(assets, y)
    BY <2>2 DEF Gains
  <2>4. \A y \in Kinds : Held(assets, y) \in Nat
    BY <1>3, HeldNat
  <2>5. \A y \in Kinds : Held(assets', y) + f[y] = Held(assets, y) + f[y]
    BY <2>3, <2>4
  <2>6. Books(assets', f, lost, trapped, issued)
    BY <1>3, <1>4, <1>5, <2>3, <2>5, BooksMoved
  <2> QED BY <1>2, <1>3, <1>6, <2>3, <2>6, BetweenKeeps DEF f
<1>7. ASSUME erc20' \in erc20_transfer(erc20, from, to, 1), assets' = assets
      PROVE  XInv' /\ Steady(assets, assets')
  <2>1. erc20' \in Balances
    <3>1. 1 \in Nat
      OBVIOUS
    <3> QED BY <1>1, <1>3, <1>7, <3>1, Erc20Moves
  <2> QED BY <1>2, <1>3, <1>5, <1>7, <2>1, BetweenKeeps, SteadySelf DEF f
<1> QED BY <1>6, <1>7 DEF UserTransfer

\* The first block.
LEMMA InitHolds == Init => XInv
<1> SUFFICES ASSUME Init PROVE XInv
  OBVIOUS
<1> DEFINE L == InitAssets.assetsByLocation
           C == InitAssets.contracts
<1>1. /\ assets = InitAssets /\ supported = InitSupported /\ erc20 = InitErc20 /\ trapped = {}
      /\ msg = NoMessage /\ lost = Nothing /\ messages = 0
      /\ issued = [x \in Assets |-> IF x \in DOMAIN L THEN SumFunction(C[L[x].id].balances) ELSE 0]
  BY DEF Init
<1>2. Sound(assets)
  BY <1>1, InitialAssumption, ConsistentIsSound
<1>3. \A x \in Locations : x # NativeLocation /\ x \in Assets
  BY XcmExecutionAssumption DEF Assets
<1>4. \A x \in Locations : issued[x] = Held(assets, x)
  BY <1>1, <1>3 DEF Held
<1>5. DOMAIN L \subseteq Locations
  BY <1>1, <1>2, AgreeFinite DEF Sound
<1>6. issued \in [Assets -> Nat]
  <2>1. \A x \in Locations : Held(assets, x) \in Nat
    BY <1>2, HeldNat, KindsAre
  <2>2. \A x \in Assets : issued[x] \in Nat
    <3>1. \A x \in Assets : x \notin Locations => issued[x] = 0
      BY <1>1, <1>5
    <3> QED BY <1>4, <2>1, <3>1
  <2>3. DOMAIN issued = Assets /\ issued = [x \in Assets |-> issued[x]]
    BY <1>1
  <2> QED BY <2>2, <2>3
<1>7. NoMessageForm(msg)
  <2>1. 0 \in Nat
    OBVIOUS
  <2> QED BY <1>1, <2>1, NoMessageIs
<1>8. lost \in [Assets -> Nat] /\ \A x \in Assets : lost[x] = 0
  BY <1>1, NothingIs
<1> DEFINE f == FlightOf(msg)
<1>9. f \in [Assets -> Nat] /\ \A x \in Assets : f[x] = 0
  BY <1>7 DEF NoMessageForm
<1>10. SumOver(f) = 0 /\ SumOver(lost) = 0
  <2>1. \A x \in Locations : f[x] = Nothing[x] /\ Nothing[x] \in Int /\ f[x] \in Int
    BY <1>3, <1>9, NothingIs
  <2> HIDE DEF f
  <2>2. SumFunctionOnSet(f, Locations) = SumFunctionOnSet(Nothing, Locations)
    BY <2>1, SumAgrees, ForeignAssetsAssumption
  <2> QED BY <1>1, <2>2, SumOfNothing DEF SumOver
<1> HIDE DEF f
<1>11. SupplyOf(assets) = SumOver(issued)
  <2> DEFINE h == HeldIn(assets)
  <2>1. \A x \in Locations : h[x] = issued[x] /\ h[x] \in Int /\ issued[x] \in Int
    BY <1>3, <1>4, <1>6 DEF HeldIn
  <2>2. SupplyOf(assets) = SumOver(h)
    BY <1>2, SupplyIsHeld
  <2> HIDE DEF h
  <2>3. SumFunctionOnSet(h, Locations) = SumFunctionOnSet(issued, Locations)
    BY <2>1, SumAgrees, ForeignAssetsAssumption
  <2> QED BY <2>2, <2>3 DEF SumOver
<1>12. SumOver(issued) \in Int
  <2>1. \A x \in Locations : issued[x] \in Int
    BY <1>3, <1>6
  <2> QED BY <2>1, SumType, ForeignAssetsAssumption DEF SumOver
<1>13. Trapped(trapped) = 0 /\ TrappedNative(trapped) = 0
  BY <1>1, TrapsNone
<1>14. f[NativeLocation] = 0
  BY <1>9, KindsAre
<1>15. SumFunction(InitAssets.native) \in Nat /\ SumFunction(InitAssets.reserved) \in Nat
  BY <1>1, <1>2, SumOfNats DEF Sound, Ledger
<1>16. Books(assets, f, lost, trapped, issued)
  <2>1. SupplyOf(assets) + SumOver(f) + SumOver(lost) + Trapped(trapped) = SumOver(issued)
    BY ONLY <1>10, <1>11, <1>12, <1>13
  <2>2. SumFunction(assets.native) + SumFunction(assets.reserved) + f[NativeLocation]
            + TrappedNative(trapped)
        = SumFunction(InitAssets.native) + SumFunction(InitAssets.reserved)
    BY ONLY <1>1, <1>13, <1>14, <1>15
  <2> QED BY <2>1, <2>2 DEF Books
<1>17. TokensConserved
  BY <1>16, BooksAreConserved DEF f
<1>18. NotesMatchHolding
  BY <1>7, OwedNothing DEF NotesMatchHolding, NoMessageForm
<1>19. MessageInv
  BY <1>1, <1>7 DEF MessageInv, NoMessageForm
<1>20. TrapsInv
  BY <1>1, FS_EmptySet DEF TrapsInv
<1>21. PricesInv /\ erc20 \in Balances
  BY <1>1, InitialAssumption DEF PricesInv, Balances
<1> QED BY <1>2, <1>6, <1>8, <1>17, <1>18, <1>19, <1>20, <1>21 DEF XInv, Typed

-----------------------------------------------------------------------------
(* Every step                                                              *)

\* A step leaves the assets as they were but for balances, or is a call of the
\* origin of the message, or between messages one of governance.
AssetsStep ==
    \/ Steady(assets, assets')
    \/ Called(assets, assets', msg.origin) /\ msg.origin \in Accounts
    \/ Called(assets, assets', Governance) /\ msg.phase = "none"

LEMMA StepKeeps == XInv /\ [Next]_vars => XInv' /\ AssetsStep
<1> SUFFICES ASSUME XInv, [Next]_vars PROVE XInv' /\ AssetsStep
  OBVIOUS
<1> USE DEF AssetsStep
<1>1. ASSUME NEW b \in Bundles, WithdrawAsset(b) \/ ReserveAssetDeposited(b)
      PROVE  XInv' /\ AssetsStep
  BY <1>1, WithdrawKeeps, ReserveKeeps
<1>2. ASSUME NEW b \in Bundles, NEW who \in Recipients, DepositAsset(b, who) \/ TransferAsset(b, who)
      PROVE  XInv' /\ AssetsStep
  BY <1>2, DepositKeeps, TransferKeeps
<1>3. ASSUME NEW w \in 1 .. MaxWeight, NEW x \in Assets, BuyExecution(w, x)
      PROVE  XInv' /\ AssetsStep
  BY <1>3, BuyKeeps
<1>4. ASSUME NEW w \in 0 .. MaxWeight, RefundSurplus(w)
      PROVE  XInv' /\ AssetsStep
  BY <1>4, RefundKeeps
<1>5. CASE DescendOrigin
  BY <1>5, DescendKeeps
<1>6. ASSUME NEW t \in trapped, ClaimAsset(t)
      PROVE  XInv' /\ AssetsStep
  BY <1>6, ClaimKeeps
<1>7. CASE Transact
  BY <1>7, TransactKeeps
<1>8. ASSUME NEW to \in Recipients, TransactTransfer(to)
      PROVE  XInv' /\ AssetsStep
  BY <1>8, TransactTransferKeeps
<1>9. CASE HandleError
  BY <1>9, HandleKeeps
<1>10. CASE Instruction
  BY <1>1, <1>2, <1>3, <1>4, <1>5, <1>6, <1>7, <1>8, <1>9, <1>10 DEF Instruction
<1>11. ASSUME NEW s \in Senders, Begin(s)
       PROVE  XInv' /\ AssetsStep
  BY <1>11, BeginKeeps
<1>12. CASE End
  BY <1>12, EndKeeps
<1>13. CASE ManageAssets
  BY <1>13, ManageKeeps
<1>14. CASE ManagePrices
  BY <1>14, PricesKeep
<1>15. ASSUME NEW x \in Accounts, NEW y \in Recipients, UserTransfer(x, y)
       PROVE  XInv' /\ AssetsStep
  BY <1>15, UserKeeps
<1>16. CASE UNCHANGED vars
  <2>1. UNCHANGED <<assets, erc20, supported, trapped, msg, issued, lost, messages>>
    BY <1>16 DEF vars
  <2>2. Typed /\ TokensConserved
    BY DEF XInv
  <2>3. PricesInv' /\ Sound(assets') /\ erc20' \in Balances
    BY <2>1, <2>2 DEF Typed, PricesInv
  <2>4. Books(assets', FlightOf(msg), lost, trapped, issued)
    BY <2>1, <2>2, BooksAreConserved
  <2> QED BY <2>1, <2>3, <2>4, BetweenKeeps, SteadySelf
<1> QED BY <1>10, <1>11, <1>12, <1>13, <1>14, <1>15, <1>16 DEF Next

\* XInv is inductive: every behaviour of the executor keeps it.
THEOREM ExecutionInvariant == Spec => []XInv
<1>1. Init => XInv
  BY InitHolds
<1>2. XInv /\ [Next]_vars => XInv'
  BY StepKeeps
<1> QED BY <1>1, <1>2, PTL DEF Spec

\* The two maps describe the same assets, the status says frozen exactly when the
\* contract is paused, and the deposits on record are reserved: whatever calls
\* governance makes and messages dispatch, whatever instructions fail.
THEOREM AssetsAreConsistent == Spec => []AssetsConsistent
<1>1. XInv => AssetsConsistent
  <2> SUFFICES ASSUME XInv PROVE AssetsConsistent
    OBVIOUS
  <2>1. /\ Sound(assets) /\ erc20 \in [Accounts -> Nat] /\ msg \in Messages
    BY DEF XInv, Typed, MessageInv, Balances
  <2>2. MapsAgreeIn(assets) /\ FrozenIffPausedIn(assets) /\ DepositsReservedIn(assets)
    BY <2>1, SoundIsConsistent
  <2>3. /\ assets.assetsByLocation \in
               [DOMAIN assets.assetsByLocation -> [id : AssetIds, status : AssetStatus]]
        /\ DOMAIN assets.assetsByLocation \subseteq Locations
        /\ assets.contracts \in [DOMAIN assets.contracts -> Contracts]
        /\ assets.native \in [Accounts -> Nat]
    BY <2>1, AgreeFinite DEF Sound, Agree, Ledger
  <2>4. \A id \in DOMAIN assets.contracts, x \in Accounts :
            assets.contracts[id].balances[x] >= 0
    BY <2>3 DEF Contracts
  <2>5. \A x \in Accounts : assets.native[x] >= 0 /\ erc20[x] >= 0
    BY <2>1, <2>3
  <2>6. /\ msg.phase \in Phases /\ msg.trader.amount >= 0 /\ msg.trader.weight >= 0
        /\ \A x \in Assets : msg.holding[x] >= 0
    BY <2>1, MessageParts
  <2>7. TypeOK
    BY <2>3, <2>4, <2>5, <2>6 DEF TypeOK, Phases
  <2> QED BY <2>2, <2>7 DEF AssetsConsistent
<1> QED BY <1>1, ExecutionInvariant, PTL

\* No message makes or destroys a token: what siblings sent is with the accounts, in
\* flight, trapped, or among the fees that could not be deposited.
THEOREM TokensAreConserved == Spec => []TokensConserved
<1>1. XInv => TokensConserved
  BY DEF XInv
<1> QED BY <1>1, ExecutionInvariant, PTL

\* Until an operation of the message fails, the notes of the ERC20 bridge are worth
\* the ERC20 tokens of the holding.
THEOREM NotesAlwaysMatch == Spec => []NotesMatchHolding
<1>1. XInv => NotesMatchHolding
  BY DEF XInv
<1> QED BY <1>1, ExecutionInvariant, PTL

\* In a step of a message only the sibling an asset belongs to moves, freezes or
\* thaws it, and it cannot move it out of its own locations.
THEOREM SiblingsKeepToTheirOwn == Spec => SiblingsKeepTheirAssets
<1> DEFINE Kept(id) ==
        (assets'.assetsById[id] # assets.assetsById[id] \/ StatusOf(assets, id)' # StatusOf(assets, id))
        => /\ ParaOf[assets.assetsById[id]] = msg.origin
           /\ ParaOf[assets'.assetsById[id]] = msg.origin
<1>1. ASSUME XInv, AssetsStep, msg.phase # "none", NEW id \in DOMAIN assets.assetsById
      PROVE  Kept(id)
  <2>1. CASE Steady(assets, assets')
    <3>1. assets'.assetsById = assets.assetsById /\ assets'.assetsByLocation = assets.assetsByLocation
      BY <2>1 DEF Steady
    <3>2. StatusOf(assets, id)' = StatusOf(assets, id)
      BY <3>1 DEF StatusOf
    <3> QED BY <3>1, <3>2
  <2>2. CASE Called(assets, assets', msg.origin) /\ msg.origin \in Accounts
    <3>1. Touched(assets, assets', id) =>
              /\ ensure_origin_can_modify_location(msg.origin, assets.assetsById[id])
              /\ ensure_origin_can_modify_location(msg.origin, assets'.assetsById[id])
      BY <2>2 DEF Called
    <3>2. msg.origin # Governance
      BY <2>2, ForeignAssetsAssumption
    <3>3. StatusOf(assets, id)' = StatusOf(assets', id)
      BY DEF StatusOf
    <3> QED BY <3>1, <3>2, <3>3 DEF Touched, ensure_origin_can_modify_location
  <2> QED BY <1>1, <2>1, <2>2 DEF AssetsStep
<1>2. XInv /\ [Next]_vars =>
          [msg.phase # "none" => \A id \in DOMAIN assets.assetsById : Kept(id)]_vars
  BY <1>1, StepKeeps
<1>3. XInv /\ [Next]_vars =>
          [msg.phase # "none" =>
            \A id \in DOMAIN assets.assetsById :
                LET l == assets.assetsById[id]
                    moved == assets'.assetsById[id] # l
                    frozen == StatusOf(assets, id)' # StatusOf(assets, id) IN
                (moved \/ frozen) => /\ ParaOf[l] = msg.origin
                                     /\ ParaOf[assets'.assetsById[id]] = msg.origin]_vars
  BY <1>2
<1> QED BY <1>3, ExecutionInvariant, PTL DEF Spec, SiblingsKeepTheirAssets

\* While an asset is frozen none of its balances changes.
THEOREM FrozenAssetsStandStill == Spec => FrozenStandsStill
<1>1. ASSUME XInv, AssetsStep, NEW id \in DOMAIN assets.contracts, StatusOf(assets, id) # "Active"
      PROVE  assets'.contracts[id].balances = assets.contracts[id].balances
  <2>1. Sound(assets)
    BY <1>1 DEF XInv, Typed
  <2>2. assets.contracts[id].paused
    BY <1>1, <2>1, SoundIsConsistent DEF FrozenIffPausedIn
  <2>3. id \in DOMAIN assets.assetsById
    BY <1>1, <2>1 DEF Sound, Agree
  <2> QED BY <1>1, <2>2, <2>3 DEF AssetsStep, Steady, Called
<1>2. XInv /\ [Next]_vars =>
          [\A id \in DOMAIN assets.contracts :
            (StatusOf(assets, id) # "Active" /\ StatusOf(assets, id)' # "Active") =>
                assets'.contracts[id].balances = assets.contracts[id].balances]_vars
  BY <1>1, StepKeeps
<1> QED BY <1>2, ExecutionInvariant, PTL DEF Spec, FrozenStandsStill

-----------------------------------------------------------------------------
(* The pallet that kept the assets of other chains before: asset-manager   *)

CONSTANTS ManagedIds, AssetTypes, IdOf(_)
VARIABLES assetIdType, assetTypeId

Manager == INSTANCE AssetManager WITH AssetIds <- ManagedIds

\* For any types and ids, in whatever order assets are registered, changed and removed:
\* no type leads to an asset that was removed or now has another type.
THEOREM TypesAlwaysLeadHome == Manager!Spec => []Manager!TypesLeadHome
<1> USE DEF Manager!TypesLeadHome, Manager!Insert, Manager!Remove
<1>1. Manager!Init => Manager!TypesLeadHome
  BY DEF Manager!Init
<1>2. ASSUME Manager!TypesLeadHome, [Manager!Next]_Manager!vars PROVE Manager!TypesLeadHome'
  <2>1. ASSUME NEW t \in AssetTypes, Manager!RegisterForeignAsset(t) PROVE Manager!TypesLeadHome'
    BY <1>2, <2>1 DEF Manager!RegisterForeignAsset
  <2>2. ASSUME NEW id \in ManagedIds, NEW t \in AssetTypes, Manager!ChangeExistingAssetType(id, t)
        PROVE  Manager!TypesLeadHome'
    BY <1>2, <2>2 DEF Manager!ChangeExistingAssetType
  <2>3. ASSUME NEW id \in ManagedIds, Manager!RemoveExistingAssetType(id) PROVE Manager!TypesLeadHome'
    BY <1>2, <2>3 DEF Manager!RemoveExistingAssetType
  <2>4. CASE UNCHANGED Manager!vars
    BY <1>2, <2>4 DEF Manager!vars
  <2> QED BY <1>2, <2>1, <2>2, <2>3, <2>4 DEF Manager!Next
<1> QED BY <1>1, <1>2, PTL DEF Manager!Spec
=============================================================================
