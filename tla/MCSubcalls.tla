----------------------------- MODULE MCSubcalls -----------------------------
(* Instances of Subcalls for TLC.                                          *)
EXTENDS Subcalls

NoLimitOrThree == {0, 3}
OneOrThree == {1, 3}
=============================================================================
