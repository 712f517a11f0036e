------------------------------- MODULE MCXcm -------------------------------
(***************************************************************************)
(* The instance of XcmExecution for TLC: two siblings, the first one with  *)
(* an asset that is accepted for fees, the second with a place for one.    *)
(***************************************************************************)
EXTENDS XcmExecution

CONSTANTS p, q, derived, treasury

ParaOfLocation == [l \in {"p1", "p2", "q1"} |-> IF l = "q1" THEN q ELSE p]
Derived == [x \in {p} |-> derived]

Balances(f) == [x \in Accounts |-> IF x \in DOMAIN f THEN f[x] ELSE 0]
OneAsset ==
    [NoAssets(Balances([x \in {p, q} |-> 2])) EXCEPT
        !.assetsById = [i \in {1} |-> "p1"],
        !.assetsByLocation = [l \in {"p1"} |-> [id |-> 1, status |-> "Active"]],
        !.contracts = [i \in {1} |-> [paused |-> FALSE, balances |-> Balances([x \in {p} |-> 2])]]]
OnePrice == [l \in {"p1"} |-> [enabled |-> TRUE, price |-> 2]]
Erc20Holders == Balances([x \in {p, derived} |-> 1])

Bundle(f) == [x \in Assets |-> IF x \in DOMAIN f THEN f[x] ELSE 0]
SomeBundles ==
    {Bundle([x \in {"p1"} |-> 2]), Bundle([x \in {"p1", "erc20"} |-> 1]),
     Bundle([x \in {"native", "erc20"} |-> 1])}
=============================================================================
