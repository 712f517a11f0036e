----------------------------- MODULE RewardSplit -----------------------------
(***************************************************************************)
(* How the reward of a round is divided: what inflation leaves for stakers,*)
(* and what of it a collator and its delegators are paid for the points    *)
(* the collator made (parachain-staking, compute_issuance,                 *)
(* prepare_staking_payouts and pay_one_collator_reward).                   *)
(*                                                                         *)
(* Shares are Perbill: parts of Accuracy.  Making one rounds down, taking  *)
(* one of an amount rounds to the nearest unit, ties down.                 *)
(***************************************************************************)
EXTENDS Integers, Sequences, SequencesExt

CONSTANT Accuracy    \* Perbill::ACCURACY

ASSUME AccuracyAssumption == Accuracy \in Nat \ {0}

MinOfTwo(a, b) == IF a < b THEN a ELSE b
MaxOfTwo(a, b) == IF a < b THEN b ELSE a
LessOrZero(a, b) == IF a < b THEN 0 ELSE a - b

\* Perbill::from_rational
FromRational(p, q) == (MinOfTwo(p, MaxOfTwo(q, 1)) * Accuracy) \div MaxOfTwo(q, 1)

\* Perbill and Percent times a balance
TimesOf(accuracy, parts, x) ==
    LET whole == (parts * x) \div accuracy
        rest  == (parts * x) % accuracy
    IN  IF 2 * rest > accuracy THEN whole + 1 ELSE whole
Times(parts, x) == TimesOf(Accuracy, parts, x)

-----------------------------------------------------------------------------
(* What a round is worth                                                   *)

RoundIssuance(duration, idealDuration, idealIssuance) ==
    (duration * idealIssuance) \div idealDuration

\* Each account of the inflation distribution takes its percentage of the whole
\* issuance, if it exists.
LeftIssuance(issuance, percents) ==
    FoldLeft(LAMBDA left, percent : LessOrZero(left, TimesOf(100, percent, issuance)),
             issuance, percents)

PreparePayout(issuance, percents, commission) ==
    [issuance |-> issuance, reward |-> LeftIssuance(issuance, percents), commission |-> commission]

-----------------------------------------------------------------------------
(* What one collator's part of it is divided into.  A snapshot has the     *)
(* collator's bond, the amount each delegator earns on and their total.    *)

Alone(snapshot) == DOMAIN snapshot.delegations = {}

\* The commission is one of the whole issuance, taken before stakers share.
CommissionOf(payout, pct, snapshot) ==
    IF Alone(snapshot) THEN 0 ELSE Times(pct, Times(payout.commission, payout.issuance))

AmountDue_whole(payout, pct, snapshot) == Times(pct, payout.reward)

AmountDue(payout, pct, snapshot) ==
    LessOrZero(Times(pct, payout.reward), CommissionOf(payout, pct, snapshot))

ShareOf(amount, due, snapshot) == Times(FromRational(amount, snapshot.total), due)

CollatorReward(payout, pct, snapshot) ==
    LET due == AmountDue(payout, pct, snapshot)
    IN  IF Alone(snapshot) THEN due
        ELSE ShareOf(snapshot.bond, due, snapshot) + CommissionOf(payout, pct, snapshot)

DelegatorReward(payout, pct, snapshot, d) ==
    ShareOf(snapshot.delegations[d], AmountDue(payout, pct, snapshot), snapshot)
=============================================================================
