------------------------------ MODULE MCWasiNn ------------------------------
(***************************************************************************)
(* Small instances of WasiNn. Two models, one registered name, two Fp32    *)
(* tensors and one of another type, and tables that are filled up:         *)
(*   MCWasiNn.cfg       two graphs and two contexts, one input each, one   *)
(*                      or two outputs;                                    *)
(*   MCWasiNnErrors.cfg and MCWasiNnHandle.cfg: one graph and one context, *)
(*                      up to two inputs and two outputs.                  *)
(* The two Fp32 tensors are interchangeable; the properties are safety     *)
(* properties, for which symmetry reduction is sound.                      *)
(***************************************************************************)
EXTENDS WasiNn, TLC

CONSTANTS a, b, int  \* model values: tensors

MCModels == {"m1", "m2"}
MCBadModels == {"bad"}
MCOneInput == [m \in MCModels |-> 1]
MCNumInputs == [m \in MCModels |-> IF m = "m1" THEN 1 ELSE 2]
MCNumOutputs == [m \in MCModels |-> IF m = "m1" THEN 1 ELSE 2]
MCNames == {"mobilenet"}
MCTensors == {a, b, int}
MCFp32 == {a, b}
MCSymmetry == Permutations(MCFp32)
=============================================================================
