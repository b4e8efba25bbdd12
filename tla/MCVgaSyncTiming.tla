--------------------------- MODULE MCVgaSyncTiming ---------------------------
(* Small pictures for TLC: every combination of porches and pulses below.  *)
EXTENDS VgaSyncTiming

MCTimings ==
  [Hdata : {1, 3}, HFP : {0, 1}, HS : {1, 2}, HBP : {1},
   Vdata : {2}, VFP : {0, 1}, VS : {1}, VBP : {1}]
=============================================================================
