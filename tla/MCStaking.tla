------------------------------ MODULE MCStaking -----------------------------
(* Instances of ParachainStaking for TLC.                                  *)
EXTENDS ParachainStaking

CONSTANTS c1, c2, d1, d2, d3, d4

OneCandidate == {c1}
TwoCandidates == {c1, c2}
TwoDelegators == {d1, d2}
ThreeDelegators == {d1, d2, d3}
FourDelegators == {d1, d2, d3, d4}
BothRolesToo == {c2, d1, d2}

\* what candidates and delegators start with; an account of both kinds is a candidate
Funds(cs, ds, forC, forD) == [a \in cs \cup ds |-> IF a \in cs THEN forC ELSE forD]
BookFunds == Funds(OneCandidate, FourDelegators, 4, 4)
CallFunds == Funds(TwoCandidates, BothRolesToo, 2, 2)
RequestFunds == Funds(TwoCandidates, TwoDelegators, 1, 3)
CompoundFunds == Funds(OneCandidate, ThreeDelegators, 1, 2)

\* payouts of a round of 12 seconds' blocks that lasted twice its time, and of one that
\* ran on time; reserves of 30%; commissions of a fifth and of four fifths
SomePayouts ==
    {PreparePayout(RoundIssuance(duration, 24, 20), <<30, 0>>, commission) :
        duration \in {24, 49}, commission \in {20, 80}}
NoPayouts == {}

TwoAlike == Permutations(TwoDelegators)
FourAlike == Permutations(FourDelegators)
ThreeAlike == Permutations(ThreeDelegators)

=============================================================================
