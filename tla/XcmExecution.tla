---------------------------- MODULE XcmExecution ----------------------------
(***************************************************************************)
(* The execution of XCM messages over the assets of the runtime            *)
(* (src/runtime/moonbeam/src/xcm_config.rs): the native currency, foreign  *)
(* assets (ForeignAssets) and a local ERC20 token (Erc20XcmBridge), with   *)
(* the weight paid through XcmWeightTrader.  Between messages governance   *)
(* manages assets and prices, and users move their tokens.                 *)
(*                                                                         *)
(* The XCM executor is external.  It runs one instruction after the other, *)
(* each in a storage transaction (FrameTransactionalProcessor).  An        *)
(* instruction that fails is rolled back, and the holding is as before it; *)
(* the message then ends, or goes on with its error handler.  At the end   *)
(* the trader is dropped and what is left in the holding is trapped.       *)
(***************************************************************************)
EXTENDS ForeignAssets, XcmWeightTrader, Erc20XcmBridge

CONSTANTS
    Erc20,           \* the location of the ERC20 token
    XcmFeesAccount,
    DerivedOf,       \* the account a sibling's origin may descend to
    Senders,         \* the origins of messages
    Bundles,         \* bound: the assets an instruction may name, with their amounts
    Prices,          \* bound: the prices governance sets
    MaxWeight,       \* bound: the weight a message buys
    MaxCalls,        \* bound: the calls between messages
    MaxMessages,     \* bound
    MaxInstructions, \* bound: the instructions of all messages
    Recipients       \* bound: the accounts named as beneficiaries

Assets == Locations \cup {NativeLocation, Erc20}

\* AssetFeesFilter lets no token of the ERC20 bridge pay for weight.
ASSUME XcmExecutionAssumption ==
    /\ Erc20 \notin Locations /\ NativeLocation \notin Locations \cup {Erc20}
    /\ Erc20 \notin FeeLocations
    /\ XcmFeesAccount \in Accounts /\ Senders \cup Recipients \subseteq Accounts
    /\ DerivedOf \in [DOMAIN DerivedOf -> Accounts]
    /\ Bundles \subseteq [Assets -> Nat] /\ Prices \subseteq Nat
    /\ MaxWeight \in Nat /\ MaxCalls \in Nat /\ MaxMessages \in Nat /\ MaxInstructions \in Nat

VARIABLES
    assets,     \* the state of ForeignAssets
    supported,  \* the state of XcmWeightTrader
    erc20,      \* the balances of the ERC20 token
    trapped,    \* the traps of pallet-xcm: whose assets wait to be claimed
    msg,        \* the message in execution
    issued,     \* history: the foreign assets siblings have sent here
    lost,       \* history: the fees that could not be deposited
    calls, messages

vars == <<assets, supported, erc20, trapped, msg, issued, lost, calls, messages>>
outside == <<issued, lost, calls, messages>>

Nothing == [x \in Assets |-> 0]
Plus(h, k)  == [x \in Assets |-> h[x] + k[x]]
Minus(h, k) == [x \in Assets |-> h[x] - k[x]]
MinOf(h, k) == [x \in Assets |-> IF h[x] < k[x] THEN h[x] ELSE k[x]]
Only(x, n)  == [Nothing EXCEPT ![x] = n]

NoMessage == [phase |-> "none", origin |-> "none", holding |-> Nothing, trader |-> NewTrader,
              origins |-> <<>>, failed |-> FALSE, steps |-> 0]

-----------------------------------------------------------------------------
(* AssetTransactors: the first transactor that handles the asset           *)

\* What an asset operation works on: the state and the origins of the message.
World == [assets |-> assets, erc20 |-> erc20, origins |-> msg.origins]

Pay(a, to, amount)  == {[a EXCEPT !.native[to] = @ + amount]}
Take(a, who, amount) ==
    { b \in {[a EXCEPT !.native[who] = @ - amount]} : a.native[who] >= amount }

WithAssets(w, states) == {[w EXCEPT !.assets = s] : s \in states}

\* The storage a deposit leads to, if it succeeds, and the origins it leaves either way.
deposit_asset(w, x, who, amount) ==
    CASE x = NativeLocation ->
            [worlds |-> WithAssets(w, Pay(w.assets, who, amount)), origins |-> w.origins]
      [] x = Erc20 ->
            LET d == deposit_erc20(w.erc20, w.origins, who, amount) IN
            [worlds |-> {[w EXCEPT !.erc20 = e, !.origins = d.origins] : e \in d.balances},
             origins |-> d.origins]
      [] OTHER ->
            [worlds |-> WithAssets(w, deposit_foreign(w.assets, x, who, amount)),
             origins |-> w.origins]

withdraw_asset(w, x, who, amount) ==
    CASE x = NativeLocation -> WithAssets(w, Take(w.assets, who, amount))
      [] x = Erc20          -> {[w EXCEPT !.origins = withdraw_erc20(@, who, amount)]}
      [] OTHER              -> WithAssets(w, withdraw_foreign(w.assets, x, who, amount))

internal_transfer_asset(w, x, from, to, amount) ==
    CASE x = NativeLocation ->
            WithAssets(w, UNION {Pay(b, to, amount) : b \in Take(w.assets, from, amount)})
      [] x = Erc20 ->
            {[w EXCEPT !.erc20 = e] : e \in internal_transfer_erc20(w.erc20, from, to, amount)}
      [] OTHER ->
            WithAssets(w, internal_transfer_foreign(w.assets, x, from, to, amount))

\* The assets of a bundle in the order the executor takes them: those of this chain
\* first.
InOrder(bundle) ==
    LET Named(x) == IF bundle[x] > 0 THEN <<x>> ELSE <<>> IN
    Named(NativeLocation) \o Named(Erc20) \o SetToSeq({l \in Locations : bundle[l] > 0})

\* A sequence of withdrawals up to the first that fails.
Withdrawn(acc, worlds) ==
    IF ~acc.ok THEN acc
    ELSE IF worlds = {} THEN [acc EXCEPT !.ok = FALSE]
    ELSE [acc EXCEPT !.world = CHOOSE w \in worlds : TRUE]

WithdrawAll(bundle, who) ==
    FoldLeft(LAMBDA acc, x : Withdrawn(acc, withdraw_asset(acc.world, x, who, bundle[x])),
             [ok |-> TRUE, world |-> World], InOrder(bundle))

TransferEach(bundle, from, to) ==
    FoldLeft(LAMBDA worlds, x :
                 UNION {internal_transfer_asset(w, x, from, to, bundle[x]) : w \in worlds},
             {World}, InOrder(bundle))

\* One pass over the assets of a deposit; the ones that fail are collected.
Deposited(acc, x, d) ==
    IF d.worlds = {}
    THEN [world |-> [acc.world EXCEPT !.origins = d.origins], failed |-> Append(acc.failed, x)]
    ELSE [acc EXCEPT !.world = CHOOSE w \in d.worlds : TRUE]

DepositPass(world, bundle, xs, who) ==
    FoldLeft(LAMBDA acc, x : Deposited(acc, x, deposit_asset(acc.world, x, who, bundle[x])),
             [world |-> world, failed |-> <<>>], xs)

\* The executor tries the deposits that failed once more.
Retry(first, bundle, who) ==
    LET second == DepositPass(first.world, bundle, first.failed, who) IN
    [world |-> second.world, failed |-> second.failed, retried |-> first.failed # <<>>]

DepositAll(bundle, who) ==
    Retry(DepositPass(World, bundle, InOrder(bundle), who), bundle, who)

-----------------------------------------------------------------------------
(* The instructions of a message                                           *)

Running == msg.phase \in {"running", "handling"} /\ msg.steps < MaxInstructions

Begin(sender) ==
    /\ msg.phase = "none"
    /\ messages < MaxMessages
    /\ msg' = [msg EXCEPT !.phase = "running", !.origin = sender]
    /\ messages' = messages + 1
    /\ UNCHANGED <<assets, supported, erc20, trapped, issued, lost, calls>>

\* An instruction that succeeded, and one that failed.  The notes of the ERC20
\* tokens are not storage: a failed instruction keeps what it did to them.
DoneAfter(retried, w, holding) ==
    /\ assets' = w.assets
    /\ erc20' = w.erc20
    /\ msg' = [msg EXCEPT !.holding = holding, !.origins = w.origins, !.steps = @ + 1,
                          !.failed = @ \/ retried]

Done(w, holding) == DoneAfter(FALSE, w, holding)

Failed(origins) ==
    /\ msg' = [msg EXCEPT !.origins = origins, !.steps = @ + 1, !.failed = TRUE,
                          !.phase = IF @ = "running" THEN "failed" ELSE "ended"]
    /\ UNCHANGED <<assets, erc20>>

\* An error stops the message, unless it has set an error handler.
HandleError ==
    /\ msg.phase = "failed" /\ msg.steps < MaxInstructions
    /\ msg' = [msg EXCEPT !.phase = "handling"]
    /\ UNCHANGED <<assets, supported, erc20, trapped, outside>>

WithdrawAsset(bundle) ==
    /\ Running
    /\ \E r \in {WithdrawAll(bundle, msg.origin)} :
       IF r.ok THEN Done(r.world, Plus(msg.holding, bundle)) ELSE Failed(r.world.origins)
    /\ UNCHANGED <<supported, trapped, outside>>

\* A sibling sends assets it is the reserve of.
ReserveAssetDeposited(bundle) ==
    /\ Running
    /\ \A x \in Assets : bundle[x] > 0 => x \in Locations /\ ParaOf[x] = msg.origin
    /\ Done(World, Plus(msg.holding, bundle))
    /\ issued' = Plus(issued, bundle)
    /\ UNCHANGED <<supported, trapped, lost, calls, messages>>

DepositAsset(bundle, who) ==
    /\ Running
    /\ \E taken \in {MinOf(msg.holding, bundle)} \ {Nothing} :
       \E r \in {DepositAll(taken, who)} :
           IF r.failed = <<>> THEN DoneAfter(r.retried, r.world, Minus(msg.holding, taken))
           ELSE Failed(r.world.origins)
    /\ UNCHANGED <<supported, trapped, outside>>

TransferAsset(bundle, who) ==
    /\ Running
    /\ \E worlds \in {TransferEach(bundle, msg.origin, who)} :
       IF worlds = {} THEN Failed(msg.origins) ELSE \E w \in worlds : Done(w, msg.holding)
    /\ UNCHANGED <<supported, trapped, outside>>

BuyExecution(weight, x) ==
    LET offer  == msg.holding[x]
        bought == buy_weight(supported, msg.trader, weight, x, offer) IN
    /\ Running
    /\ offer > 0
    /\ IF bought = {}
       THEN Failed(msg.origins)
       ELSE /\ \E b \in bought :
                   msg' = [msg EXCEPT !.trader = b.trader, !.holding[x] = b.unused, !.steps = @ + 1]
            /\ UNCHANGED <<assets, erc20>>
    /\ UNCHANGED <<supported, trapped, outside>>

\* As an instruction, and once more when the message has ended.
RefundSurplus(actual) ==
    LET r == refund_weight(supported, msg.trader, actual) IN
    /\ msg.phase # "none" /\ msg.trader.paid
    /\ msg.steps < MaxInstructions
    /\ msg' = [msg EXCEPT !.trader = r.trader, !.holding[msg.trader.location] = @ + r.refund,
                          !.steps = @ + 1]
    /\ UNCHANGED <<assets, supported, erc20, trapped, outside>>

DescendOrigin ==
    /\ Running
    /\ msg.origin \in DOMAIN DerivedOf
    /\ msg' = [msg EXCEPT !.origin = DerivedOf[@], !.steps = @ + 1]
    /\ UNCHANGED <<assets, supported, erc20, trapped, outside>>

ClaimAsset(trap) ==
    /\ Running
    /\ trap \in trapped /\ trap.who = msg.origin
    /\ trapped' = trapped \ {trap}
    /\ Done(World, Plus(msg.holding, trap.assets))
    /\ UNCHANGED <<supported, outside>>

\* What a Transact may dispatch for the origin: the calls of ForeignAssets, and an
\* ERC20 transfer of its own tokens.  A call that fails is no error of the message.
CallsOf(origin) ==
         (UNION {create_foreign_asset(assets, origin, id, l) : id \in AssetIds, l \in Locations})
    \cup (UNION {change_xcm_location(assets, origin, id, l) : id \in AssetIds, l \in Locations})
    \cup (UNION {freeze_foreign_asset(assets, origin, id, allow) :
                     id \in AssetIds, allow \in BOOLEAN})
    \cup (UNION {unfreeze_foreign_asset(assets, origin, id) : id \in AssetIds})

Transact ==
    /\ Running
    /\ \E a \in CallsOf(msg.origin) : Done([World EXCEPT !.assets = a], msg.holding)
    /\ UNCHANGED <<supported, trapped, outside>>

TransactTransfer(to) ==
    /\ Running
    /\ \E e \in erc20_transfer(erc20, msg.origin, to, 1) :
           Done([World EXCEPT !.erc20 = e], msg.holding)
    /\ UNCHANGED <<supported, trapped, outside>>

-----------------------------------------------------------------------------
(* The end of a message                                                    *)

\* The trap takes the ERC20 tokens as well.
Trap_all(holding) ==
    IF holding = Nothing THEN trapped
    ELSE trapped \cup {[who |-> msg.origin, assets |-> holding, message |-> messages]}

\* The trap of pallet-xcm, behind the filter for ERC20 tokens: those never left
\* their owners.
Trap(holding) ==
    LET kept == [holding EXCEPT ![Erc20] = 0] IN
    IF kept = Nothing THEN trapped
    ELSE trapped \cup {[who |-> msg.origin, assets |-> kept, message |-> messages]}

\* The trader deposits its payment to the fees account when it is dropped.
End ==
    LET fee  == Only(msg.trader.location, msg.trader.amount)
        paid == deposit_asset(World, msg.trader.location, XcmFeesAccount, msg.trader.amount).worlds
    IN
    /\ msg.phase # "none"
    /\ IF fee = Nothing \/ paid = {}
       THEN /\ lost' = Plus(lost, fee)
            /\ UNCHANGED assets
       ELSE /\ \E w \in paid : assets' = w.assets
            /\ UNCHANGED lost
    /\ trapped' = Trap(msg.holding)
    /\ msg' = [NoMessage EXCEPT !.steps = msg.steps]
    /\ UNCHANGED <<supported, erc20, issued, calls, messages>>

-----------------------------------------------------------------------------
(* Between messages                                                        *)

Between == msg.phase = "none" /\ calls < MaxCalls

ManageAssets ==
    /\ Between
    /\ assets' \in CallsOf(Governance)
    /\ calls' = calls + 1
    /\ UNCHANGED <<supported, erc20, trapped, msg, issued, lost, messages>>

ManagePrices ==
    /\ Between
    /\ supported' \in
            (UNION {add_asset(supported, l, p) \cup edit_asset(supported, l, p) :
                        l \in FeeLocations, p \in Prices})
       \cup (UNION {pause_asset_support(supported, l) \cup resume_asset_support(supported, l)
                        \cup remove_asset(supported, l) : l \in FeeLocations})
    /\ calls' = calls + 1
    /\ UNCHANGED <<assets, erc20, trapped, msg, issued, lost, messages>>

\* A user of the EVM moves a token of a foreign asset or of the ERC20 contract.
UserTransfer(from, to) ==
    /\ Between
    /\ from # to
    /\ \/ \E id \in DOMAIN assets.contracts :
              assets' \in TokenTransfer(assets, id, from, to, 1)
          /\ UNCHANGED erc20
       \/ erc20' \in erc20_transfer(erc20, from, to, 1) /\ UNCHANGED assets
    /\ calls' = calls + 1
    /\ UNCHANGED <<supported, trapped, msg, issued, lost, messages>>

CONSTANTS InitAssets, InitSupported, InitErc20   \* the state of the first block

ASSUME InitialAssumption ==
    /\ IsAssetState(InitAssets)
    /\ MapsAgreeIn(InitAssets) /\ FrozenIffPausedIn(InitAssets) /\ DepositsReservedIn(InitAssets)
    /\ DOMAIN InitSupported \subseteq FeeLocations
    /\ InitSupported \in [DOMAIN InitSupported -> [enabled : BOOLEAN, price : Nat \ {0}]]
    /\ InitErc20 \in [Accounts -> Nat]

Init ==
    /\ assets = InitAssets
    /\ supported = InitSupported
    /\ erc20 = InitErc20
    /\ trapped = {}
    /\ msg = NoMessage
    /\ issued = [x \in Assets |->
           IF x \in DOMAIN InitAssets.assetsByLocation
           THEN SumFunction(InitAssets.contracts[InitAssets.assetsByLocation[x].id].balances)
           ELSE 0]
    /\ lost = Nothing
    /\ calls = 0
    /\ messages = 0

Instruction ==
    \/ \E b \in Bundles : WithdrawAsset(b) \/ ReserveAssetDeposited(b)
    \/ \E b \in Bundles, who \in Recipients : DepositAsset(b, who) \/ TransferAsset(b, who)
    \/ \E w \in 1 .. MaxWeight, x \in Assets : BuyExecution(w, x)
    \/ \E w \in 0 .. MaxWeight : RefundSurplus(w)
    \/ DescendOrigin
    \/ \E t \in trapped : ClaimAsset(t)
    \/ Transact
    \/ \E to \in Recipients : TransactTransfer(to)
    \/ HandleError

Next ==
    \/ \E s \in Senders : Begin(s)
    \/ Instruction
    \/ End
    \/ ManageAssets \/ ManagePrices
    \/ \E x \in Accounts, y \in Recipients : UserTransfer(x, y)

Spec == Init /\ [][Next]_vars

-----------------------------------------------------------------------------
(* Properties                                                              *)

TypeOK ==
    /\ DOMAIN assets.assetsByLocation \subseteq Locations
    /\ \A x \in Accounts : assets.native[x] >= 0 /\ erc20[x] >= 0
    /\ \A id \in DOMAIN assets.contracts, x \in Accounts :
           assets.contracts[id].balances[x] >= 0
    /\ \A x \in Assets : msg.holding[x] >= 0
    /\ msg.trader.weight >= 0 /\ msg.trader.amount >= 0
    /\ msg.phase \in {"none", "running", "failed", "handling", "ended"}

\* Whoever creates, moves, freezes and thaws assets in whatever order, in or
\* between messages: both maps describe the same assets, the status says frozen
\* exactly when the contract is paused, and the deposits on record are reserved.
AssetsConsistent ==
    /\ TypeOK
    /\ MapsAgreeIn(assets) /\ FrozenIffPausedIn(assets) /\ DepositsReservedIn(assets)

SumOver(f) == SumFunctionOnSet(f, Locations)
InFlight == Plus(msg.holding, Only(msg.trader.location, msg.trader.amount))
Supply ==
    SumFunction([id \in DOMAIN assets.contracts |-> SumFunction(assets.contracts[id].balances)])

\* No message makes or destroys a token, however its instructions fail, its fees
\* are refunded at another price or its assets are trapped and claimed: what
\* siblings sent is with the accounts, in the holding, with the trader or in a
\* trap, but for fees the trader could not deposit.  The same holds of the native
\* currency, reserved deposits included.
TokensConserved ==
    /\ Supply + SumOver(InFlight) + SumOver(lost)
           + SumFunction([t \in trapped |-> SumOver(t.assets)]) = SumOver(issued)
    /\ SumFunction(assets.native) + SumFunction(assets.reserved) + InFlight[NativeLocation]
           + SumFunction([t \in trapped |-> t.assets[NativeLocation]])
       = SumFunction(InitAssets.native) + SumFunction(InitAssets.reserved)

\* As long as no asset operation of the message has failed, the notes of the ERC20 bridge are worth
\* exactly the ERC20 tokens in the holding: each token that can be deposited is
\* owed by an account that withdrew it in this message.
NotesMatchHolding == ~msg.failed => Owed(msg.origins) = msg.holding[Erc20]

\* A message of one sibling never moves an asset that belongs to another: neither
\* to nor from a location of the other, and it neither freezes nor thaws it.
SiblingsKeepTheirAssets ==
    [][msg.phase # "none" =>
        \A id \in DOMAIN assets.assetsById :
            LET l == assets.assetsById[id]
                moved == assets'.assetsById[id] # l
                frozen == StatusOf(assets, id)' # StatusOf(assets, id) IN
            (moved \/ frozen) => /\ ParaOf[l] = msg.origin
                                 /\ ParaOf[assets'.assetsById[id]] = msg.origin]_vars

\* While an asset is frozen no balance of it changes: not by users, not by XCM,
\* not by fees.
FrozenStandsStill ==
    [][\A id \in DOMAIN assets.contracts :
        (StatusOf(assets, id) # "Active" /\ StatusOf(assets, id)' # "Active") =>
            assets'.contracts[id].balances = assets.contracts[id].balances]_vars

-----------------------------------------------------------------------------
(* What the documentation says and the code does not do: no run checks     *)
(* these, TLC finds each of them violated.                                 *)

\* What the status FrozenXcmDepositAllowed is documented to mean
\* (moonbeam-foreign-assets/src/lib.rs:146): deposits from XCM still work.
DepositIntoFrozen ==
    \A l \in DOMAIN assets.assetsByLocation :
        assets.assetsByLocation[l].status = "FrozenXcmDepositAllowed" =>
            deposit_foreign(assets, l, XcmFeesAccount, 1) # {}

\* The assertion of the trader's destructor (xcm-weight-trader/src/lib.rs:507): the
\* deposit of the fee to the fees account succeeds.
FeesReachAccount == lost = Nothing
=============================================================================
