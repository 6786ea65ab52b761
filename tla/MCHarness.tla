----------------------------- MODULE MCHarness ------------------------------
(***************************************************************************)
(* Small instances of Harness: three versions of the sources, the third of *)
(* which comes with another wasmtime, and files of two chunks.             *)
(***************************************************************************)
EXTENDS Harness

MCVersions == 1..3
MCTwoVersions == 1..2
MCEngineOf == [v \in 0..3 |-> IF v = 3 THEN 2 ELSE 1]
MCOneHost == {1}
MCTwoHosts == {1, 2}
=============================================================================
