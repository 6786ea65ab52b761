-------------------------- MODULE MCComponentCalls --------------------------
(***************************************************************************)
(* Two instances, the first of which defines the resource.                 *)
(***************************************************************************)
EXTENDS ComponentCalls

MCInstances == {"a", "b"}
=============================================================================
