---------------------------- MODULE ForeignAssets ----------------------------
(***************************************************************************)
(* pallet-moonbeam-foreign-assets (src/pallets/moonbeam-foreign-assets):   *)
(* tokens of other chains, each with an id, an XCM location and an ERC20   *)
(* contract of its own that only the pallet may mint, burn and pause.      *)
(*                                                                         *)
(* The state that calls change is one record, a, so that the XCM executor, *)
(* which runs calls and asset operations in storage transactions, can work *)
(* on a copy (module XcmExecution).  Operators named after the pallet's    *)
(* functions return the set of states they can lead to: none when they     *)
(* fail.  The contract is resources/foreign_erc20.sol; allowances, decimals *)
(* and names are left out, and the EVM never runs out of gas.              *)
(***************************************************************************)
EXTENDS Integers, FiniteSets, FiniteSetsExt, Functions

CONSTANTS
    Accounts,          \* the accounts; a location converts to one of them
    Paras,             \* the siblings, each with its sovereign account
    AssetIds,
    Locations,         \* the locations of foreign assets
    ParaOf,            \* the sibling a location starts with, or "none"
    MaxForeignAssets,
    ForeignAssetCreationDeposit

Governance == "governance"

\* Accounts, ids and locations are finite types of the code, and governance is no
\* account.
ASSUME ForeignAssetsAssumption ==
    /\ IsFiniteSet(Accounts) /\ IsFiniteSet(AssetIds) /\ IsFiniteSet(Locations)
    /\ Governance \notin Accounts /\ "none" \notin Accounts
    /\ Paras \subseteq Accounts
    /\ ParaOf \in [Locations -> Paras \cup {"none"}]
    /\ MaxForeignAssets \in Nat /\ ForeignAssetCreationDeposit \in Nat

AssetStatus == {"Active", "FrozenXcmDepositAllowed", "FrozenXcmDepositForbidden"}

Put(f, k, v) == [x \in DOMAIN f \cup {k} |-> IF x = k THEN v ELSE f[x]]
Without(f, k) == [x \in DOMAIN f \ {k} |-> f[x]]

\* AssetsById, AssetsByLocation, AssetsCreationDetails, the contracts, and of the
\* native currency the free and the reserved balances.
IsAssetState(a) ==
    /\ a = [assetsById |-> a.assetsById, assetsByLocation |-> a.assetsByLocation,
            creationDetails |-> a.creationDetails, contracts |-> a.contracts,
            native |-> a.native, reserved |-> a.reserved]
    /\ a.assetsById \in [DOMAIN a.assetsById -> Locations]
    /\ a.assetsByLocation \in
           [DOMAIN a.assetsByLocation -> [id : AssetIds, status : AssetStatus]]
    /\ a.creationDetails \in
           [DOMAIN a.creationDetails -> [account : Accounts, deposit : Nat]]
    /\ a.contracts \in
           [DOMAIN a.contracts -> [paused : BOOLEAN, balances : [Accounts -> Nat]]]
    /\ a.native \in [Accounts -> Nat] /\ a.reserved \in [Accounts -> Nat]

NoAssets(native) ==
    [assetsById |-> <<>>, assetsByLocation |-> <<>>, creationDetails |-> <<>>,
     contracts |-> <<>>, native |-> native, reserved |-> [x \in Accounts |-> 0]]

-----------------------------------------------------------------------------
(* The contract: ERC20 with ERC20Pausable and an owner, the pallet         *)

\* ERC20Pausable._update: nothing moves, is minted or burnt while paused.
MintInto(a, id, to, amount) ==
    { b \in {[a EXCEPT !.contracts[id].balances[to] = @ + amount]} : ~a.contracts[id].paused }

BurnFrom(a, id, from, amount) ==
    { b \in {[a EXCEPT !.contracts[id].balances[from] = @ - amount]} :
          ~a.contracts[id].paused /\ a.contracts[id].balances[from] >= amount }

TokenTransfer(a, id, from, to, amount) ==
    UNION {MintInto(b, id, to, amount) : b \in BurnFrom(a, id, from, amount)}

Pause(a, id)   == { b \in {[a EXCEPT !.contracts[id].paused = TRUE]} : ~a.contracts[id].paused }
Unpause(a, id) == { b \in {[a EXCEPT !.contracts[id].paused = FALSE]} : a.contracts[id].paused }

-----------------------------------------------------------------------------
(* The calls, from governance or from a sibling through XCM                *)

ensure_origin_can_modify_location(origin, location) ==
    origin = Governance \/ ParaOf[location] = origin

IsManager(origin) == origin \in Paras \cup {Governance}

Reserve(a, account, amount) ==
    { b \in {[a EXCEPT !.native[account] = @ - amount, !.reserved[account] = @ + amount]} :
          a.native[account] >= amount }

\* The contract is created first; the deposit of a sibling is reserved after it.
do_create_asset(a, id, location, depositAccount) ==
    IF \/ id \in DOMAIN a.assetsById \/ location \in DOMAIN a.assetsByLocation
       \/ Cardinality(DOMAIN a.assetsById) >= MaxForeignAssets
    THEN {}
    ELSE LET created == [a EXCEPT
                 !.contracts = Put(@, id, [paused |-> FALSE, balances |-> [x \in Accounts |-> 0]]),
                 !.assetsById = Put(@, id, location),
                 !.assetsByLocation = Put(@, location, [id |-> id, status |-> "Active"])] IN
         IF depositAccount = "none" THEN {created}
         ELSE { [b EXCEPT !.creationDetails = Put(@, id,
                     [account |-> depositAccount, deposit |-> ForeignAssetCreationDeposit])] :
                b \in Reserve(created, depositAccount, ForeignAssetCreationDeposit) }

create_foreign_asset(a, origin, id, location) ==
    IF IsManager(origin) /\ ensure_origin_can_modify_location(origin, location)
    THEN do_create_asset(a, id, location, IF origin = Governance THEN "none" ELSE origin)
    ELSE {}

\* The asset appears at its new place and stays at the old one.
do_change_xcm_location_kept(a, id, new) ==
    IF new \in DOMAIN a.assetsByLocation \/ a.assetsById[id] \notin DOMAIN a.assetsByLocation
    THEN {}
    ELSE {[a EXCEPT !.assetsById[id] = new,
                    !.assetsByLocation = Put(@, new, @[a.assetsById[id]])]}

do_change_xcm_location(a, id, new) ==
    LET previous == a.assetsById[id] IN
    IF new \in DOMAIN a.assetsByLocation \/ previous \notin DOMAIN a.assetsByLocation THEN {}
    ELSE {[a EXCEPT !.assetsById[id] = new,
                    !.assetsByLocation =
                        Put(Without(@, previous), new, [id |-> id, status |-> @[previous].status])]}

\* Only the new location is checked against the origin.
change_xcm_location_anyPrevious(a, origin, id, new) ==
    IF /\ IsManager(origin)
       /\ ensure_origin_can_modify_location(origin, new)
       /\ id \in DOMAIN a.assetsById
    THEN do_change_xcm_location(a, id, new) ELSE {}

change_xcm_location(a, origin, id, new) ==
    IF /\ IsManager(origin)
       /\ ensure_origin_can_modify_location(origin, new)
       /\ id \in DOMAIN a.assetsById
       /\ ensure_origin_can_modify_location(origin, a.assetsById[id])
    THEN do_change_xcm_location(a, id, new) ELSE {}

\* The status of the asset, where the maps say it is.
StatusOf(a, id) ==
    LET location == a.assetsById[id] IN
    IF location \in DOMAIN a.assetsByLocation THEN a.assetsByLocation[location].status ELSE "lost"

CanManage(a, origin, id) ==
    /\ IsManager(origin)
    /\ id \in DOMAIN a.assetsById
    /\ ensure_origin_can_modify_location(origin, a.assetsById[id])

\* The status says frozen, the contract does not.
freeze_foreign_asset_unpaused(a, origin, id, allowXcmDeposit) ==
    IF CanManage(a, origin, id) /\ StatusOf(a, id) = "Active"
    THEN {[a EXCEPT !.assetsByLocation[a.assetsById[id]].status =
              IF allowXcmDeposit THEN "FrozenXcmDepositAllowed" ELSE "FrozenXcmDepositForbidden"]}
    ELSE {}

freeze_foreign_asset(a, origin, id, allowXcmDeposit) ==
    IF CanManage(a, origin, id) /\ StatusOf(a, id) = "Active"
    THEN { [b EXCEPT !.assetsByLocation[b.assetsById[id]].status =
               IF allowXcmDeposit THEN "FrozenXcmDepositAllowed" ELSE "FrozenXcmDepositForbidden"] :
           b \in Pause(a, id) }
    ELSE {}

unfreeze_foreign_asset(a, origin, id) ==
    IF /\ CanManage(a, origin, id)
       /\ StatusOf(a, id) \in {"FrozenXcmDepositAllowed", "FrozenXcmDepositForbidden"}
    THEN { [b EXCEPT !.assetsByLocation[b.assetsById[id]].status = "Active"] : b \in Unpause(a, id) }
    ELSE {}

-----------------------------------------------------------------------------
(* TransactAsset.  A location that is no asset's is not handled.           *)

IsForeignAsset(a, location) == location \in DOMAIN a.assetsByLocation

deposit_foreign(a, location, who, amount) ==
    IF IsForeignAsset(a, location) /\ a.assetsByLocation[location].status # "FrozenXcmDepositForbidden"
    THEN MintInto(a, a.assetsByLocation[location].id, who, amount) ELSE {}

withdraw_foreign(a, location, who, amount) ==
    IF IsForeignAsset(a, location) /\ a.assetsByLocation[location].status = "Active"
    THEN BurnFrom(a, a.assetsByLocation[location].id, who, amount) ELSE {}

internal_transfer_foreign(a, location, from, to, amount) ==
    IF IsForeignAsset(a, location) /\ a.assetsByLocation[location].status = "Active"
    THEN TokenTransfer(a, a.assetsByLocation[location].id, from, to, amount) ELSE {}

-----------------------------------------------------------------------------
(* What must hold of every state                                           *)

\* The two maps describe the same assets, each at one place.
MapsAgreeIn(a) ==
    /\ DOMAIN a.assetsByLocation = {a.assetsById[id] : id \in DOMAIN a.assetsById}
    /\ \A id \in DOMAIN a.assetsById : a.assetsByLocation[a.assetsById[id]].id = id
    /\ DOMAIN a.contracts = DOMAIN a.assetsById

\* An asset is frozen for XCM exactly when its contract is paused for everyone else.
FrozenIffPausedIn(a) ==
    \A id \in DOMAIN a.contracts : (StatusOf(a, id) # "Active") <=> a.contracts[id].paused

\* What is reserved of an account is the sum of the deposits on record.
DepositsReservedIn(a) ==
    LET deposits == [id \in DOMAIN a.creationDetails |-> a.creationDetails[id].deposit] IN
    /\ DOMAIN deposits \subseteq DOMAIN a.assetsById
    /\ \A x \in Accounts :
           a.reserved[x] = SumFunctionOnSet(deposits,
                               {id \in DOMAIN deposits : a.creationDetails[id].account = x})
=============================================================================
