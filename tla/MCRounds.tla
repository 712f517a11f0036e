------------------------------ MODULE MCRounds ------------------------------
(* Instances of StakingRounds for TLC.                                     *)
EXTENDS StakingRounds

=============================================================================
