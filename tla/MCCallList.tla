----------------------------- MODULE MCCallList -----------------------------
(* Model values for CallList.                                              *)
EXTENDS CallList, TLC
=============================================================================
