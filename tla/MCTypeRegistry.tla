--------------------------- MODULE MCTypeRegistry ---------------------------
(***************************************************************************)
(* A struct type "a", its subtype "b", a function type "t", and two groups *)
(* of two: "c", whose types extend "b" and use the trampoline type "t",    *)
(* and "r", whose two types refer to each other.                           *)
(***************************************************************************)
EXTENDS TypeRegistry

CONSTANTS t1, t2   \* threads

Symmetry == Permutations(Threads)

Plain(n) == [types |-> n, refs |-> <<>>, inner |-> [m \in 1..n |-> {}],
             parent |-> [m \in 1..n |-> {}], tramp |-> [m \in 1..n |-> {}]]

MCGroups == {"a", "b", "c", "r", "t"}
MCDef == [g \in MCGroups |->
    CASE g = "b" -> [Plain(1) EXCEPT !.refs = <<<<"a", 1>>>>, !.parent[1] = {<<"ref", 1>>}]
      [] g = "c" -> [Plain(2) EXCEPT !.refs = <<<<"b", 1>>>>, !.parent[1] = {<<"ref", 1>>},
                                     !.tramp[2] = {"t"}]
      [] g = "r" -> [Plain(2) EXCEPT !.inner = <<{2}, {1}>>]
      [] OTHER -> Plain(1)]

MCModules == <<<<"a", "b", "c">>, <<"t", "a">>>>
MCSmallModules == <<<<"t">>>>
MCRecursive == <<<<"a">>, <<"t">>, <<"r">>>>
=============================================================================
