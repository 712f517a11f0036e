---------------------------- MODULE AssetManager ----------------------------
(***************************************************************************)
(* The asset-manager pallet: which asset type an asset id stands for, and  *)
(* the reverse.  A type names an asset of another chain; a message that    *)
(* brings one is minted as the id the reverse map gives.                   *)
(*                                                                         *)
(* The registrar that creates and destroys the assets belongs to the       *)
(* runtime: here it may refuse, which undoes the call.  All calls need a   *)
(* privileged origin.                                                      *)
(***************************************************************************)
CONSTANTS
    AssetIds,
    AssetTypes,
    IdOf(_)   \* From<AssetType>: the id a type is registered with, a hash of it

VARIABLES
    assetIdType,   \* AssetIdType
    assetTypeId    \* AssetTypeId

vars == <<assetIdType, assetTypeId>>

Insert(f, x, v) == [y \in DOMAIN f \cup {x} |-> IF y = x THEN v ELSE f[y]]
Remove(f, x) == [y \in DOMAIN f \ {x} |-> f[y]]

Init == assetIdType = <<>> /\ assetTypeId = <<>>

RegisterForeignAsset(t) ==
    /\ IdOf(t) \notin DOMAIN assetIdType
    /\ assetIdType' = Insert(assetIdType, IdOf(t), t)
    /\ assetTypeId' = Insert(assetTypeId, t, IdOf(t))

\* Whether another asset has the new type is not looked at, nor whether it is new.
ChangeExistingAssetType(id, t) ==
    /\ id \in DOMAIN assetIdType
    /\ assetIdType' = Insert(assetIdType, id, t)
    /\ assetTypeId' = Remove(Insert(assetTypeId, t, id), assetIdType[id])

\* remove_existing_asset_type and, with the asset itself, destroy_foreign_asset
RemoveExistingAssetType(id) ==
    /\ id \in DOMAIN assetIdType
    /\ assetIdType' = Remove(assetIdType, id)
    /\ assetTypeId' = Remove(assetTypeId, assetIdType[id])

Next ==
    \/ \E t \in AssetTypes : RegisterForeignAsset(t)
    \/ \E id \in AssetIds, t \in AssetTypes : ChangeExistingAssetType(id, t)
    \/ \E id \in AssetIds : RemoveExistingAssetType(id)

Spec == Init /\ [][Next]_vars

-----------------------------------------------------------------------------
(* Properties                                                              *)

\* However calls have moved the types of assets about, and whatever entries they have
\* overwritten, no type leads to an asset that was removed or now has another type:
\* what a message brings is never minted as an asset of another kind.
TypesLeadHome ==
    \A t \in DOMAIN assetTypeId :
        /\ assetTypeId[t] \in DOMAIN assetIdType
        /\ assetIdType[assetTypeId[t]] = t
=============================================================================
