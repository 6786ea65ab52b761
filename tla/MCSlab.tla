------------------------------- MODULE MCSlab -------------------------------
(***************************************************************************)
(* A slab of at most four entries, in which ids stand for numbers up to 4. *)
(***************************************************************************)
EXTENDS Slab

CONSTANTS v1, v2
MCValues == {v1, v2}
=============================================================================
