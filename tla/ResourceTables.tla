--------------------------- MODULE ResourceTables ---------------------------
(***************************************************************************)
(* The tables of component-model resources of a store: one for each        *)
(* component instance and one for the host (vm/component/resources.rs),    *)
(* the scopes of the calls in progress, which count borrows, and the       *)
(* generations that protect the host's handles (component/resources.rs).   *)
(*                                                                         *)
(* An operation takes the state and returns a result: the new state, a     *)
(* value, and whether it is Ok, an error or a panic. A handle is the place *)
(* of its slot, counted from 1 as in the component model.                  *)
(***************************************************************************)
EXTENDS Naturals, Sequences

CONSTANTS
    Instances,              \* the component instances
    Definer,                \* the one that defines the resource type
    MAX_RESOURCE_HANDLE

\* The host has a table of its own.
Host == "host"

ASSUME ResourceAssumption ==
    Definer \in Instances /\ Host \notin Instances /\ MAX_RESOURCE_HANDLE \in Nat

\* A slot: count is the lend_count of an Own, scope the place of a Borrow's scope, next
\* that of the next free slot.
Free(next) == [kind |-> "free", next |-> next]
Own(rep) == [kind |-> "own", rep |-> rep, count |-> 0]
Borrow(rep, scope) == [kind |-> "borrow", rep |-> rep, scope |-> scope]

NewState ==
    [tables |-> [t \in Instances \cup {Host} |-> [next |-> 1, slots |-> <<>>]],
     scopes |-> <<>>,
     cur_generation |-> 0,
     metadata |-> <<>>]    \* table_slot_metadata: the generation of each host handle

Ok(st, v) == [r |-> "ok", st |-> st, v |-> v]
Err(st) == [r |-> "err", st |-> st, v |-> {}]
Panic(st) == [r |-> "panic", st |-> st, v |-> {}]

\* The operator `?` of Rust: go on with an Ok.
Then(res, F(_, _)) == IF res.r = "ok" THEN F(res.st, res.v) ELSE res

-----------------------------------------------------------------------------
(* ResourceTable *)

Used(st, t, h) == h \in DOMAIN st.tables[t].slots /\ st.tables[t].slots[h].kind # "free"
SlotAt(st, t, h) == st.tables[t].slots[h]

insert(st, t, slot) ==
    LET h == st.tables[t].next
        old == st.tables[t].slots
        slots == IF h = Len(old) + 1 THEN Append(old, Free(h + 1)) ELSE old
        new == [st EXCEPT !.tables[t] =
                   [next |-> slots[h].next, slots |-> [slots EXCEPT ![h] = slot]]]
    IN  IF slots[h].kind # "free" THEN Panic(st)
        ELSE IF h >= MAX_RESOURCE_HANDLE THEN Err(new) ELSE Ok(new, h)

\* Mutant of remove: the handle stays in its table.
RemoveCopies(st, t, h) == IF Used(st, t, h) THEN Ok(st, SlotAt(st, t, h)) ELSE Err(st)

remove(st, t, h) ==
    IF ~Used(st, t, h) THEN Err(st)
    ELSE Ok([st EXCEPT !.tables[t] = [next |-> h, slots |-> [@.slots EXCEPT ![h] = Free(st.tables[t].next)]]],
            SlotAt(st, t, h))

-----------------------------------------------------------------------------
(* ResourceTables *)

resource_new(st, t, rep) == insert(st, t, Own(rep))
resource_lower_own(st, t, rep) == insert(st, t, Own(rep))

\* borrow_count -= 1 of a scope.
Unborrow(st, scope) ==
    IF scope \notin DOMAIN st.scopes THEN Panic(st)
    ELSE IF st.scopes[scope].borrow_count = 0 THEN Panic(st)
    ELSE Ok([st EXCEPT !.scopes[scope].borrow_count = @ - 1], {})

\* Mutant of resource_drop: an owned resource may be dropped while it is lent.
DropLent(st, t, h) == Then(remove(st, t, h), LAMBDA s, slot :
    IF slot.kind = "own" THEN Ok(s, {slot.rep}) ELSE Unborrow(s, slot.scope))

\* resource_drop: the rep to destroy, if the handle was an Own.
resource_drop(st, t, h) == Then(remove(st, t, h), LAMBDA s, slot :
    IF slot.kind = "borrow" THEN Unborrow(s, slot.scope)
    ELSE IF slot.count > 0 THEN Err(s)
    ELSE Ok(s, {slot.rep}))

\* Mutant of resource_lift_own: a lent resource may be given away.
LiftLent(st, t, h) == Then(remove(st, t, h), LAMBDA s, slot :
    IF slot.kind = "own" THEN Ok(s, slot.rep) ELSE Err(s))

resource_lift_own(st, t, h) == Then(remove(st, t, h), LAMBDA s, slot :
    IF slot.kind = "own" /\ slot.count = 0 THEN Ok(s, slot.rep) ELSE Err(s))

\* resource_lift_borrow: a lender is recorded in the innermost scope, unless the handle
\* is a borrow itself.
resource_lift_borrow(st, t, h) ==
    IF ~Used(st, t, h) THEN Err(st)
    ELSE IF SlotAt(st, t, h).kind = "borrow" THEN Ok(st, SlotAt(st, t, h).rep)
    ELSE IF st.scopes = <<>> THEN Panic(st)
    ELSE Ok([st EXCEPT !.tables[t].slots[h].count = @ + 1,
                       !.scopes[Len(st.scopes)].lenders = Append(@, [ty |-> t, idx |-> h])],
            SlotAt(st, t, h).rep)

resource_lower_borrow(st, t, rep) ==
    IF st.scopes = <<>> THEN Panic(st)
    ELSE insert([st EXCEPT !.scopes[Len(st.scopes)].borrow_count = @ + 1],
                t, Borrow(rep, Len(st.scopes)))

enter_call(st) == [st EXCEPT !.scopes = Append(@, [lenders |-> <<>>, borrow_count |-> 0])]

\* The end of a lend: the panics of exit_call are its unwrap, its unreachable and an
\* underflow.
Return(st, lender) ==
    IF ~Used(st, lender.ty, lender.idx) THEN Panic(st)
    ELSE IF SlotAt(st, lender.ty, lender.idx).kind # "own" THEN Panic(st)
    ELSE IF SlotAt(st, lender.ty, lender.idx).count = 0 THEN Panic(st)
    ELSE Ok([st EXCEPT !.tables[lender.ty].slots[lender.idx].count = @ - 1], {})

\* Mutant of exit_call: the lenders are not told.
ExitKeepsLends(st) ==
    IF st.scopes = <<>> THEN Panic(st)
    ELSE LET cx == st.scopes[Len(st.scopes)]
             popped == [st EXCEPT !.scopes = SubSeq(@, 1, Len(@) - 1)]
         IN  IF cx.borrow_count > 0 THEN Err(popped) ELSE Ok(popped, {})

exit_call(st) ==
    IF st.scopes = <<>> THEN Panic(st)
    ELSE LET cx == st.scopes[Len(st.scopes)]
             popped == [st EXCEPT !.scopes = SubSeq(@, 1, Len(@) - 1)]
             returned[i \in 0..Len(cx.lenders)] ==
                 IF i = 0 THEN Ok(popped, {})
                 ELSE Then(returned[i - 1], LAMBDA s, v : Return(s, cx.lenders[i]))
         IN  IF cx.borrow_count > 0 THEN Err(popped) ELSE returned[Len(cx.lenders)]

-----------------------------------------------------------------------------
(* HostResourceTables. A handle of the host is a place and a generation. *)

\* Mutant of validate_host_index: a removal does not start a new generation.
ValidateForever(st, any, is_removal) ==
    IF any.idx \in DOMAIN st.metadata /\ st.metadata[any.idx] # any.gen THEN Err(st)
    ELSE Ok(st, any.idx)

validate_host_index(st, any, is_removal) ==
    IF any.idx \in DOMAIN st.metadata /\ st.metadata[any.idx] # any.gen THEN Err(st)
    ELSE Ok(IF is_removal THEN [st EXCEPT !.cur_generation = @ + 1] ELSE st, any.idx)

\* new_host_index, with the resource it is for and whether it owns it.
new_host_index(st, idx, rep, owned) ==
    LET any == [idx |-> idx, gen |-> st.cur_generation, rep |-> rep, owned |-> owned]
    IN  IF idx \in DOMAIN st.metadata
        THEN Ok([st EXCEPT !.metadata[idx] = st.cur_generation], any)
        ELSE IF idx # Len(st.metadata) + 1 THEN Panic(st)
        ELSE Ok([st EXCEPT !.metadata = Append(@, st.cur_generation)], any)

host_resource_lift_own(st, any) == Then(validate_host_index(st, any, TRUE),
    LAMBDA s, idx : resource_lift_own(s, Host, idx))
host_resource_lift_borrow(st, any) == Then(validate_host_index(st, any, FALSE),
    LAMBDA s, idx : resource_lift_borrow(s, Host, idx))
host_resource_lower_own(st, rep) == Then(resource_lower_own(st, Host, rep),
    LAMBDA s, idx : new_host_index(s, idx, rep, TRUE))
host_resource_lower_borrow(st, rep) == Then(resource_lower_borrow(st, Host, rep),
    LAMBDA s, idx : new_host_index(s, idx, rep, FALSE))

\* host_resource_drop, with the match of resource_drop_impl: only an Own yields a rep.
host_resource_drop(st, any) == Then(validate_host_index(st, any, TRUE),
    LAMBDA s, idx : Then(resource_drop(s, Host, idx),
        LAMBDA s2, rep : IF any.owned = (rep # {}) THEN Ok(s2, rep) ELSE Panic(s2)))

-----------------------------------------------------------------------------
(* A value that crosses a boundary: nothing, an own or a borrow of a handle *)

\* lower_borrow of an instance that defines the resource: it gets the rep itself.
guest_resource_lower_borrow(st, i, rep) ==
    IF i = Definer THEN Ok(st, rep) ELSE resource_lower_borrow(st, i, rep)

\* ResourceAny::lower_to_index, from the host to an instance.
lower_to_index(st, i, x) ==
    CASE x.kind = "none" -> Ok(st, 0)
      [] x.kind = "own" -> Then(host_resource_lift_own(st, x.of),
                                LAMBDA s, rep : resource_lower_own(s, i, rep))
      [] x.kind = "borrow" -> Then(host_resource_lift_borrow(st, x.of),
                                   LAMBDA s, rep : guest_resource_lower_borrow(s, i, rep))

\* ResourceAny::lift_from_index, from an instance to the host.
lift_from_index(st, i, x) ==
    CASE x.kind = "none" -> Ok(st, {})
      [] x.kind = "own" -> Then(resource_lift_own(st, i, x.of),
                                LAMBDA s, rep : host_resource_lower_own(s, rep))
      [] x.kind = "borrow" -> Then(resource_lift_borrow(st, i, x.of),
                                   LAMBDA s, rep : host_resource_lower_borrow(s, rep))

\* resource_transfer_own and resource_transfer_borrow, from instance i to j.
resource_transfer(st, i, j, x) ==
    CASE x.kind = "none" -> Ok(st, 0)
      [] x.kind = "own" -> Then(resource_lift_own(st, i, x.of),
                                LAMBDA s, rep : resource_lower_own(s, j, rep))
      [] x.kind = "borrow" -> Then(resource_lift_borrow(st, i, x.of),
                                   LAMBDA s, rep : guest_resource_lower_borrow(s, j, rep))
=============================================================================
