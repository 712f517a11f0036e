----------------------------- MODULE MCOrbiters -----------------------------
(* Instances of Orbiters for TLC.                                          *)
EXTENDS Orbiters, TLC

CONSTANTS c1, c2, o1, o2, o3

SecondCollator == {c2}
TwoCollators == {c1, c2}
OrderOfTwo == <<c1, c2>>
TwoOrbiters == {o1, o2}
ThreeOrbiters == {o1, o2, o3}

\* Nothing tells the orbiters apart.
OrbitersAlike == Permutations(Orbiters)
=============================================================================
