------------------------- MODULE MCBenchmarkTracker -------------------------
(***************************************************************************)
(* Small instance of BenchmarkTracker: one operation name (names only      *)
(* label the output), two phases that may overlap, be restarted and be     *)
(* ended in any order.                                                     *)
(***************************************************************************)
EXTENDS BenchmarkTracker

MCOpNames == {"op"}
MCPhaseNames == {"red", "green"}
=============================================================================
