-------------------------------- MODULE IdMap -------------------------------
(***************************************************************************)
(* What a slab promises: a map from ids to values in which an allocation   *)
(* takes an id that is not in use and touches no other.                    *)
(***************************************************************************)

CONSTANTS Ids, Values

VARIABLE map

vars == <<map>>

Init == map = [i \in {} |-> {}]

Alloc == \E v \in Values, id \in Ids \ DOMAIN map :
    map' = [i \in DOMAIN map \cup {id} |-> IF i = id THEN {v} ELSE map[i]]

Dealloc == \E id \in DOMAIN map : map' = [i \in DOMAIN map \ {id} |-> map[i]]

Drain == map' = [i \in {} |-> {}]

Next == Alloc \/ Dealloc \/ Drain

Spec == Init /\ [][Next]_vars
=============================================================================
