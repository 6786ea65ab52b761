------------------------- MODULE MCCompilationCache -------------------------
(***************************************************************************)
(* Two processes that share one module, and directories of up to four for  *)
(* the limits of a cleanup.                                                *)
(***************************************************************************)
EXTENDS CacheCleanup

MCSizes == 1..2
Symmetry == Permutations(Procs)
=============================================================================
