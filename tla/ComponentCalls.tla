--------------------------- MODULE ComponentCalls ---------------------------
(***************************************************************************)
(* Calls between the host and the instances of a component, with handles   *)
(* of one resource type as parameters and results: the host calls an       *)
(* export, a guest calls an import of the host or, through an adapter, an  *)
(* export of another instance, in any nesting. One parameter and one       *)
(* result at most; the order of several makes no difference to the tables. *)
(*                                                                         *)
(* The embedder is one that gives up a store after an error, and that      *)
(* follows every call by its post_return before it returns from what it    *)
(* was called by. It may use a ResourceAny, which is Copy, at any time     *)
(* after it got it, and a guest may use any handle. A destructor is one    *)
(* step.                                                                   *)
(***************************************************************************)
EXTENDS ResourceTables, FiniteSets

CONSTANTS
    MaxFrames,      \* bound: calls in progress
    MaxReps,        \* bound: resources created
    MaxGeneration   \* bound: removals from the host's table

ASSUME BoundsAssumption == MaxFrames \in Nat /\ MaxReps \in Nat

VARIABLES
    st,         \* the tables, scopes and generations
    frames,     \* the calls in progress, the innermost last
    may_enter,  \* the instances whose flag is set
    status,     \* "ok", or how the use of the store ended: "err" or "panic"
    created,    \* the number of resources; reps are 1..created
    destroyed,  \* history: the reps whose destructor was called, each with how often
    given       \* history: every ResourceAny the host ever got

vars == <<st, frames, may_enter, status, created, destroyed, given>>

Init ==
    /\ st = NewState
    /\ frames = <<>>
    /\ may_enter = Instances
    /\ status = "ok"
    /\ created = 0
    /\ destroyed = [r \in 1..MaxReps |-> 0]
    /\ given = {}

-----------------------------------------------------------------------------
Top == frames[Len(frames)]
Pop == frames' = SubSeq(frames, 1, Len(frames) - 1)

\* scoped: whether the call entered a scope; raw: the rep that the definer got instead of
\* a borrow.
Push(kind, i, scoped, raw) ==
    /\ Len(frames) < MaxFrames
    /\ frames' = Append(frames, [kind |-> kind, inst |-> i, scoped |-> scoped, raw |-> raw,
                                 done |-> FALSE])

GuestRuns(i) ==
    status = "ok" /\ frames # <<>> /\ Top.kind # "import" /\ ~Top.done /\ Top.inst = i
HostRuns ==
    status = "ok" /\ (frames = <<>> \/ (frames # <<>> /\ (Top.kind = "import" \/ Top.done)))

\* The result of the operations of a step.
Do(res) == st' = res.st /\ status' = res.r /\ res.st.cur_generation <= MaxGeneration

None == [kind |-> "none"]
Values(kinds, handles) == {None} \cup {[kind |-> k, of |-> h] : k \in kinds, h \in handles}
Handles == 1..MAX_RESOURCE_HANDLE

\* The rep an instance holds because it defines the resource.
Raw(i, x, v) == IF x.kind = "borrow" /\ i = Definer THEN {v} ELSE {}
Give(x, v) == given' = IF x.kind = "none" THEN given ELSE given \cup {v}

Destroy(reps) == destroyed' = [r \in 1..MaxReps |-> IF r \in reps THEN destroyed[r] + 1 ELSE destroyed[r]]

-----------------------------------------------------------------------------
(* Steps of a guest *)

\* resource.new of the instance that defines the resource.
New ==
    /\ GuestRuns(Definer) /\ created < MaxReps
    /\ Do(resource_new(st, Definer, created + 1))
    /\ created' = created + 1
    /\ UNCHANGED <<frames, may_enter, destroyed, given>>

\* The destructor is called if the definer may be entered. An error leaves it out.
Destructor(i, res) ==
    LET reenters == res.r = "ok" /\ res.v # {} /\ i # Definer /\ Definer \notin may_enter
    IN  /\ Do(IF reenters THEN Err(res.st) ELSE res)
        /\ Destroy(IF res.r = "ok" /\ ~reenters THEN res.v ELSE {})

\* resource.drop.
Drop(i, h) ==
    /\ GuestRuns(i)
    /\ Destructor(i, resource_drop(st, i, h))
    /\ UNCHANGED <<frames, may_enter, created, given>>

\* call_host up to the closure of the host.
CallImport(i, x) ==
    /\ GuestRuns(i)
    /\ LET res == lift_from_index(enter_call(st), i, x)
       IN  Do(res) /\ Push("import", i, TRUE, {}) /\ (res.r = "ok" => Give(x, res.v))
             /\ (res.r # "ok" => UNCHANGED given)
    /\ UNCHANGED <<may_enter, created, destroyed>>

\* An adapter to another instance. It enters a scope when its type has a borrow.
CallAdapter(i, j, x) ==
    /\ GuestRuns(i) /\ i # j /\ j \in may_enter
    /\ LET scoped == x.kind = "borrow"
           res == resource_transfer(IF scoped THEN enter_call(st) ELSE st, i, j, x)
       IN  Do(res) /\ Push("adapter", j, scoped, Raw(j, x, res.v))
    /\ may_enter' = may_enter \ {j}
    /\ UNCHANGED <<created, destroyed, given>>

\* The callee of an adapter returns an own or nothing to instance i, its caller.
ReturnAdapter(i, x) ==
    /\ status = "ok" /\ Len(frames) > 1 /\ Top.kind = "adapter" /\ frames[Len(frames) - 1].inst = i
    /\ Do(Then(resource_transfer(st, Top.inst, i, x),
               LAMBDA s, v : IF Top.scoped THEN exit_call(s) ELSE Ok(s, {})))
    /\ Pop
    /\ may_enter' = may_enter \cup {Top.inst}
    /\ UNCHANGED <<created, destroyed, given>>

\* A function that the host called returns.
ReturnFunc(i, x) ==
    /\ GuestRuns(i) /\ Top.kind = "func"
    /\ LET res == lift_from_index(st, i, x)
       IN  Do(res) /\ (res.r = "ok" => Give(x, res.v)) /\ (res.r # "ok" => UNCHANGED given)
    /\ frames' = [frames EXCEPT ![Len(frames)].done = TRUE]
    /\ UNCHANGED <<may_enter, created, destroyed>>

-----------------------------------------------------------------------------
(* Steps of the host *)

\* call_raw. An instance that may not be entered is refused before anything happens.
Call(i, x) ==
    /\ HostRuns /\ i \in may_enter
    /\ LET res == lower_to_index(enter_call(st), i, x)
       IN  Do(res) /\ Push("func", i, TRUE, Raw(i, x, res.v))
    /\ may_enter' = may_enter \ {i}
    /\ UNCHANGED <<created, destroyed, given>>

\* post_return_impl.
PostReturn ==
    /\ HostRuns /\ frames # <<>> /\ Top.kind = "func"
    /\ Do(exit_call(st))
    /\ may_enter' = may_enter \cup {Top.inst}
    /\ Pop
    /\ UNCHANGED <<created, destroyed, given>>

\* call_host after the closure.
ReturnImport(x) ==
    /\ status = "ok" /\ frames # <<>> /\ Top.kind = "import"
    /\ Do(Then(lower_to_index(st, Top.inst, x), LAMBDA s, v : exit_call(s)))
    /\ Pop
    /\ UNCHANGED <<may_enter, created, destroyed, given>>

\* ResourceAny::resource_drop.
HostDrop(any) ==
    /\ HostRuns
    /\ Destructor(Host, host_resource_drop(st, any))
    /\ UNCHANGED <<frames, may_enter, created, given>>

Next ==
    \/ New
    \/ \E i \in Instances, h \in Handles : Drop(i, h)
    \/ \E i \in Instances, x \in Values({"own", "borrow"}, Handles) :
          CallImport(i, x) \/ \E j \in Instances : CallAdapter(i, j, x)
    \/ \E i \in Instances, x \in Values({"own"}, Handles) : ReturnAdapter(i, x) \/ ReturnFunc(i, x)
    \/ \E i \in Instances, x \in Values({"own", "borrow"}, given) : Call(i, x)
    \/ PostReturn
    \/ \E x \in Values({"own"}, given) : ReturnImport(x)
    \/ \E any \in given : HostDrop(any)

Spec == Init /\ [][Next]_vars

-----------------------------------------------------------------------------
(* Properties *)

AllSlots == {p \in (Instances \cup {Host}) \X Handles : Used(st, p[1], p[2])}
Slot(p) == SlotAt(st, p[1], p[2])
Owns(rep) == {p \in AllSlots : Slot(p).kind = "own" /\ Slot(p).rep = rep}

\* The dynamic tracking of borrows is exact: the lend_count of an owned handle is the
\* number of times it is a lender in a scope, the borrow_count of a scope the number of
\* handles borrowed in it, and no borrow outlives its scope.
BorrowsAreTracked == status = "ok" =>
    /\ \A p \in AllSlots : Slot(p).kind = "own" =>
          Slot(p).count = Cardinality({l \in (1..MaxFrames) \X (1..MaxFrames) :
              /\ l[1] \in DOMAIN st.scopes /\ l[2] \in DOMAIN st.scopes[l[1]].lenders
              /\ st.scopes[l[1]].lenders[l[2]] = [ty |-> p[1], idx |-> p[2]]})
    /\ \A s \in DOMAIN st.scopes : st.scopes[s].borrow_count =
          Cardinality({p \in AllSlots : Slot(p).kind = "borrow" /\ Slot(p).scope = s})
    /\ \A p \in AllSlots : Slot(p).kind = "borrow" => Slot(p).scope \in DOMAIN st.scopes

\* The comment of exit_call: "Note the panics here which should never get triggered in
\* theory due to the dynamic tracking of borrows". Nor do the other panics of the tables.
NeverPanics == status # "panic"

\* Whoever has a borrow of a resource, or its rep in its place, finds the resource alive,
\* whatever the owner, the borrower and the host do meanwhile.
BorrowedIsAlive == status = "ok" =>
    /\ \A p \in AllSlots : Slot(p).kind = "borrow" => destroyed[Slot(p).rep] = 0
    /\ \A n \in DOMAIN frames : \A r \in frames[n].raw : destroyed[r] = 0

\* Every resource has exactly one owner until it is destroyed, once, and none after.
OwnedOnce == status = "ok" => \A r \in 1..created :
    Cardinality(Owns(r)) + destroyed[r] = 1

\* A ResourceAny never comes to stand for another resource, although slots are used again
\* and the host may keep it for as long as it likes.
HandleNamesOneResource == \A any \in given :
    any.idx \in DOMAIN st.metadata /\ st.metadata[any.idx] = any.gen /\ Used(st, Host, any.idx)
        => /\ SlotAt(st, Host, any.idx).rep = any.rep
           /\ (SlotAt(st, Host, any.idx).kind = "own") = any.owned
=============================================================================
