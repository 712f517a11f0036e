--------------------------- MODULE XcmWeightTrader ---------------------------
(***************************************************************************)
(* pallet-xcm-weight-trader (src/pallets/xcm-weight-trader): the prices of *)
(* the assets that may pay for the execution of XCM messages, and the      *)
(* trader object that one message buys its weight from.                    *)
(*                                                                         *)
(* SupportedAssets is the function s.  As in ForeignAssets an operator     *)
(* returns the set of its results, none when it fails.                     *)
(***************************************************************************)
EXTENDS Integers, FiniteSets, FiniteSetsExt

CONSTANTS
    NativeLocation,     \* the native currency
    FeeLocations,       \* the locations that pass AssetLocationFilter
    RelativePriceUnit,  \* 10 ^ RELATIVE_PRICE_DECIMALS
    MaxAmount           \* the largest u128

ASSUME TraderAssumption ==
    RelativePriceUnit \in Nat \ {0} /\ MaxAmount \in Nat /\ NativeLocation \notin FeeLocations

\* u128::MAX, the charge when none can be computed, is more than any amount.
Overpriced == MaxAmount + 1

\* The WeightToFee of the runtime is linear.
WeightToFee(weight) == weight

-----------------------------------------------------------------------------
(* The calls, from the origins of governance                               *)

add_asset(s, location, price) ==
    IF price = 0 \/ location \in DOMAIN s \/ location \notin FeeLocations THEN {}
    ELSE {[l \in DOMAIN s \cup {location} |->
              IF l = location THEN [enabled |-> TRUE, price |-> price] ELSE s[l]]}

edit_asset(s, location, price) ==
    IF price = 0 \/ location \notin DOMAIN s THEN {} ELSE {[s EXCEPT ![location].price = price]}

pause_asset_support(s, location) ==
    IF location \in DOMAIN s /\ s[location].enabled
    THEN {[s EXCEPT ![location].enabled = FALSE]} ELSE {}

resume_asset_support(s, location) ==
    IF location \in DOMAIN s /\ ~s[location].enabled
    THEN {[s EXCEPT ![location].enabled = TRUE]} ELSE {}

remove_asset(s, location) ==
    IF location \in DOMAIN s THEN {[l \in DOMAIN s \ {location} |-> s[l]]} ELSE {}

-----------------------------------------------------------------------------
(* The trader: the weight bought and the payment it holds                  *)

NewTrader == [weight |-> 0, paid |-> FALSE, location |-> NativeLocation, amount |-> 0]

compute_amount_to_charge(s, weight, location) ==
    CASE location = NativeLocation -> {WeightToFee(weight)}
      [] location \in DOMAIN s /\ s[location].enabled ->
             IF WeightToFee(weight) * RelativePriceUnit > MaxAmount THEN {}
             ELSE {(WeightToFee(weight) * RelativePriceUnit) \div s[location].price}
      [] OTHER -> {}

\* Buys once, with the given location; the result says what of the offer is left.
\* A charge of nothing leaves the trader as it is.
buy_weight(s, trader, weight, location, offer) ==
    IF trader.paid THEN {}
    ELSE { [trader |-> IF amount = 0 THEN trader
                       ELSE [weight |-> weight, paid |-> TRUE, location |-> location, amount |-> amount],
            unused |-> offer - amount] :
           amount \in {x \in compute_amount_to_charge(s, weight, location) : x <= offer} }

\* What is given back stays with the trader as well.
refund_weight_kept(s, trader, actual) ==
    IF ~trader.paid \/ actual = trader.weight THEN [trader |-> trader, refund |-> 0]
    ELSE LET weight == IF actual < trader.weight THEN actual ELSE trader.weight
             charge == compute_amount_to_charge(s, weight, trader.location)
             final  == IF charge = {} THEN trader.amount ELSE CHOOSE x \in charge : TRUE IN
         [trader |-> [trader EXCEPT !.weight = @ - weight], refund |-> trader.amount - final]

\* The payment is charged anew for the given weight, at the price of now, and
\* the rest is given back; when the price is gone nothing is.
refund_weight(s, trader, actual) ==
    IF ~trader.paid \/ actual = trader.weight THEN [trader |-> trader, refund |-> 0]
    ELSE LET weight == IF actual < trader.weight THEN actual ELSE trader.weight
             charge == compute_amount_to_charge(s, weight, trader.location)
             amount == IF charge = {} THEN Overpriced ELSE CHOOSE x \in charge : TRUE
             final  == IF amount < trader.amount THEN amount ELSE trader.amount IN
         [trader |-> [trader EXCEPT !.weight = @ - weight, !.amount = final],
          refund |-> trader.amount - final]
=============================================================================
