---------------------------- MODULE MCTraceCache ----------------------------
(***************************************************************************)
(* The instances of TraceCache for TLC.  The requests are ranges of two    *)
(* blocks, overlapping so that they share entries.                         *)
(***************************************************************************)
EXTENDS TraceCache, TLC

CONSTANTS c1, c2

PairRanges == c1 :> <<1, 2>> @@ c2 :> <<1, 2>>
=============================================================================
