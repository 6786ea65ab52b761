---------------------------- MODULE TypeRegistry ----------------------------
(***************************************************************************)
(* wasmtime's registry of Wasm types (runtime/type_registry.rs): recursion *)
(* groups are interned in a hash-consing map and counted by references;    *)
(* their types live in a slab, whose ids are the VMSharedTypeIndexes that  *)
(* call_indirect compares. A RegisteredType decrements its count without   *)
(* the registry's lock and takes the lock only when it reached zero;       *)
(* everything else happens under the lock, in one step.                    *)
(***************************************************************************)
EXTENDS SlabOps, Sequences, FiniteSets, SequencesExt

CONSTANTS
    Groups,      \* recursion groups that modules and embedders define
    Def,         \* per group: types (how many), refs (types of earlier groups, as
                 \* <<group, member>>), inner and parent (per member, referenced
                 \* members; its supertype as <<"ref", k>> or <<"in", j>>), tramp (per
                 \* member, the group of a trampoline type other than itself)
    Modules,     \* modules, each a sequence of groups in order of definition
    Threads,     \* threads with a RegisteredType of their own
    MaxEntries,  \* bound: entries at a time
    FollowAgain  \* bound: behaviours are followed past the point that again records

VARIABLES
    reg,      \* TypeRegistryInner, with the entries that Arcs point to
    handle,   \* per thread, its RegisteredType and where the thread is
    loaded,   \* per module, its TypeCollection's rec_groups, <<>> when not loaded
    again     \* history: an entry was given up again while a thread that had given it
              \* up before was still waiting for the lock

vars == <<reg, handle, loaded, again>>

Indices == 1..MAX_CAPACITY
Unused == [key |-> [group |-> "", refs |-> <<>>], indices |-> <<>>, registrations |-> 0]
None == [pc |-> "none", entry |-> 0, index |-> 0]

Init ==
    /\ reg = [entry |-> [e \in 1..MaxEntries |-> Unused], map |-> {}, slab |-> NewSlab, panic |-> FALSE,
              type_to_rec_group |-> [i \in Indices |-> {}],
              type_to_supertypes |-> [i \in Indices |-> <<>>],
              type_to_trampoline |-> [i \in Indices |-> {}]]
    /\ handle = [t \in Threads |-> None]
    /\ loaded = [m \in DOMAIN Modules |-> <<>>]
    /\ again = FALSE

Count(r, e) == r.entry[e].registrations
Bump(r, e, by) == [r EXCEPT !.entry[e].registrations = @ + by]
incref(r, e) == Bump(r, e, 1)
decref(r, e) == Bump(r, e, -1)

\* An entry's memory is freed with the last Arc to it.
Settle(r) ==
    reg' = [r EXCEPT !.entry = [e \in 1..MaxEntries |->
        IF \/ e \in r.map \/ \E t \in DOMAIN handle' : handle'[t].entry = e
           \/ \E m \in DOMAIN loaded' : e \in Range(loaded'[m])
        THEN @[e] ELSE Unused]]
Fresh(r) == {e \in 1..MaxEntries : r.entry[e] = Unused}
NewEntry(r) == CHOOSE e \in Fresh(r) : \A d \in Fresh(r) : e <= d

Slot(r, i) == CHOOSE ty \in r.slab.value[i] : TRUE

-----------------------------------------------------------------------------
(* Registration *)

\* map[idx] for the groups registered before: <<group, member>> to engine index.
Resolve(r, entries, ref) ==
    LET e == CHOOSE e \in Range(entries) : r.entry[e].key.group = ref[1]
    IN  r.entry[e].indices[ref[2]]

\* canonicalize_for_hash_consing: references to other groups become engine indices,
\* those within the group stay relative.
Key(r, entries, g) ==
    [group |-> g, refs |-> [k \in 1..Len(Def[g].refs) |-> Resolve(r, entries, Def[g].refs[k])]]

\* The supertype of member m, an engine index; start is engine_rec_group_start.
SuperOf(key, start, m) ==
    {IF p[1] = "ref" THEN key.refs[p[2]] ELSE start + p[2] : p \in Def[key.group].parent[m]}

\* Mutant of insert_one_type: only the immediate supertype is listed.
InsertShallow(r, key, start, m) ==
    LET i == alloc_index(r.slab)
        ty == [key |-> key, member |-> m, inner |-> {start + j : j \in Def[key.group].inner[m]}]
    IN  [r EXCEPT !.slab = alloc(@, ty),
                  !.type_to_supertypes[i] = SetToSeq(SuperOf(key, start, m))]

\* insert_one_type_from_rec_group: the type, canonicalized for runtime usage, goes
\* into the slab, and the list of its supertypes is that of its parent and the parent.
insert_one_type(r, key, start, m) ==
    LET i == alloc_index(r.slab)
        ty == [key |-> key, member |-> m, inner |-> {start + j : j \in Def[key.group].inner[m]}]
        parent == SuperOf(key, start, m)
    IN  [r EXCEPT !.slab = alloc(@, ty),
                  !.type_to_supertypes[i] =
                      IF parent = {} THEN <<>>
                      ELSE LET p == CHOOSE p \in parent : TRUE
                           IN  Append(r.type_to_supertypes[p], p)]

\* Members one after the other; the indices collect what each alloc returned.
InsertTypes(r, key, start) ==
    FoldLeft(LAMBDA acc, m : [reg |-> insert_one_type(acc.reg, key, start, m),
                              indices |-> Append(acc.indices, alloc_index(acc.reg.slab))],
             [reg |-> r, indices |-> <<>>], [m \in 1..Def[key.group].types |-> m])

Duplicates(r, key) == {e \in r.map : r.entry[e].key = key}

\* A new group's reference to the group of type i; a type of no group is an unwrap of None.
Retain(r, i) ==
    IF r.type_to_rec_group[i] = {} THEN [r EXCEPT !.panic = TRUE]
    ELSE incref(r, CHOOSE o \in r.type_to_rec_group[i] : TRUE)

\* Mutant of Enter: references to other groups are not counted.
EnterUncounted(r, entries, g) ==
    LET key == Key(r, entries, g)
        e == NewEntry(r)
        done == InsertTypes(r, key, r.slab.len)
        seen == Duplicates(r, key)
    IN  IF seen # {} THEN [reg |-> incref(r, CHOOSE d \in seen : TRUE),
                           entry |-> CHOOSE d \in seen : TRUE]
        ELSE [reg |-> [done.reg EXCEPT
                  !.entry[e] = [key |-> key, indices |-> done.indices, registrations |-> 1],
                  !.map = @ \cup {e},
                  !.type_to_rec_group = [i \in Indices |->
                      IF i \in Range(done.indices) THEN {e} ELSE @[i]]],
              entry |-> e]

\* register_rec_group but for the trampolines: an equal group is reused; a new one
\* counts its references to other groups and enters its types. Indices within the
\* group are computed from the number of types registered, types.len().
Enter(r, entries, g) ==
    LET key == Key(r, entries, g)
        e == NewEntry(r)
        counted == FoldLeft(Retain, r, key.refs)
        done == InsertTypes(counted, key, r.slab.len)
        seen == Duplicates(r, key)
    IN  IF seen # {} THEN [reg |-> incref(r, CHOOSE d \in seen : TRUE),
                           entry |-> CHOOSE d \in seen : TRUE]
        ELSE IF counted.panic THEN [reg |-> counted, entry |-> 0]
        ELSE [reg |-> [done.reg EXCEPT
                  !.entry[e] = [key |-> key, indices |-> done.indices, registrations |-> 1],
                  !.map = @ \cup {e},
                  !.type_to_rec_group = [i \in Indices |->
                      IF i \in Range(done.indices) THEN {e} ELSE @[i]]],
              entry |-> e]

\* The end of register_rec_group: function types whose trampoline type is another one
\* register it, a group of one that is its own trampoline type, and hold it.
Trampoline(r, g, i, m) ==
    FoldLeft(LAMBDA acc, t :
                 LET entered == Enter(acc, <<>>, t)
                 IN  [entered.reg EXCEPT !.type_to_trampoline[i] =
                         {entered.reg.entry[entered.entry].indices[1]}],
             r, SetToSeq(Def[g].tramp[m]))

register_rec_group(r, entries, g) ==
    LET entered == Enter(r, entries, g)
        e == entered.entry
    IN  IF e \in r.map \/ entered.reg.panic THEN entered
        ELSE [reg |-> FoldLeft(LAMBDA acc, m : Trampoline(acc, g, acc.entry[e].indices[m], m),
                               entered.reg, [m \in 1..Def[g].types |-> m]),
              entry |-> e]

register_module_types(r, groups) ==
    FoldLeft(LAMBDA acc, g :
                 LET done == register_rec_group(acc.reg, acc.entries, g)
                 IN  IF acc.reg.panic THEN acc
                     ELSE [reg |-> done.reg, entries |-> Append(acc.entries, done.entry)],
             [reg |-> r, entries |-> <<>>], groups)

-----------------------------------------------------------------------------
(* Removal *)

\* A decref inside the registry; an entry at zero goes on the drop stack.
Release(acc, i) ==
    IF acc.reg.panic \/ acc.reg.type_to_rec_group[i] = {}
    THEN [acc EXCEPT !.reg.panic = TRUE]
    ELSE LET e == CHOOSE e \in acc.reg.type_to_rec_group[i] : TRUE
         IN  [reg |-> decref(acc.reg, e),
              stack |-> IF Count(acc.reg, e) = 1 THEN Append(acc.stack, e) ELSE acc.stack]

\* One type of a removed group: its reverse entry, trampoline, supertypes and slot.
\* Release builds do not evaluate the debug_assert on the reverse entry; dealloc
\* panics for a vacant slot.
RemoveType(acc, i) ==
    LET taken == [acc EXCEPT !.reg.type_to_rec_group[i] = {}]
        released == FoldLeft(Release, [taken EXCEPT !.reg.type_to_trampoline[i] = {}],
                             SetToSeq(acc.reg.type_to_trampoline[i]))
    IN  IF released.reg.panic \/ ~contains(released.reg.slab, i)
        THEN [released EXCEPT !.reg.panic = TRUE]
        ELSE [released EXCEPT !.reg.slab = dealloc(@, i), !.reg.type_to_supertypes[i] = <<>>]

\* Mutant of RemoveEntry: the count is not looked at again under the lock.
RemoveUnchecked(acc, e) ==
    LET entry == acc.reg.entry[e]
        released == FoldLeft(Release, acc, entry.key.refs)
        unmapped == [released EXCEPT !.reg.map = @ \ Duplicates(released.reg, entry.key)]
    IN  FoldLeft(RemoveType, unmapped, entry.indices)

\* One iteration of unregister_entry: nothing when the entry was resurrected,
\* otherwise its references are released, the map forgets an entry with its key, and
\* its types go.
RemoveEntry(acc, e) ==
    LET entry == acc.reg.entry[e]
        released == FoldLeft(Release, acc, entry.key.refs)
        unmapped == [released EXCEPT !.reg.map = @ \ Duplicates(released.reg, entry.key)]
    IN  IF entry.registrations # 0 THEN acc ELSE FoldLeft(RemoveType, unmapped, entry.indices)

RECURSIVE Drain(_)
Drain(acc) ==
    IF acc.stack = <<>> \/ acc.reg.panic THEN acc.reg
    ELSE Drain(RemoveEntry([acc EXCEPT !.stack = Front(@)], Last(acc.stack)))

unregister_entry(r, e) == Drain([reg |-> r, stack |-> <<e>>])

\* Mutant of unregister_type_collection: the groups are counted down, not removed.
UnregisterNothing(r, entries) == FoldLeft(decref, r, entries)

unregister_type_collection(r, entries) ==
    FoldLeft(LAMBDA acc, e :
                 IF acc.panic THEN acc
                 ELSE IF Count(acc, e) = 1 THEN unregister_entry(decref(acc, e), e)
                 ELSE decref(acc, e),
             r, entries)

-----------------------------------------------------------------------------
(* Operations *)

Free == {t \in Threads : handle[t].pc = "none"}
Enabled == ~reg.panic /\ (again => FollowAgain)

\* TypeCollection::new_for_module.
LoadModule(m) ==
    /\ Enabled /\ loaded[m] = <<>>
    /\ LET done == register_module_types(reg, Modules[m])
       IN  /\ loaded' = IF done.reg.panic THEN loaded ELSE [loaded EXCEPT ![m] = done.entries]
           /\ UNCHANGED handle
           /\ Settle(done.reg)

\* Drop for TypeCollection.
DropModule(m) ==
    /\ Enabled /\ loaded[m] # <<>>
    /\ loaded' = [loaded EXCEPT ![m] = <<>>]
    /\ UNCHANGED handle
    /\ Settle(unregister_type_collection(reg, loaded[m]))

Hold(t, e, i) == handle' = [handle EXCEPT ![t] = [pc |-> "held", entry |-> e, index |-> i]]

\* RegisteredType::new, of types that refer to no other.
New(t) ==
    /\ Enabled /\ t \in Free
    /\ \E g \in Groups :
          /\ Def[g].types = 1 /\ Def[g].refs = <<>> /\ Def[g].inner[1] = {}
          /\ LET done == register_rec_group(reg, <<>>, g)
             IN  /\ Hold(t, done.entry, done.reg.entry[done.entry].indices[1])
                 /\ UNCHANGED loaded
                 /\ Settle(done.reg)

\* RegisteredType::root, of an index that a loaded module uses.
Root(t) ==
    /\ Enabled /\ t \in Free
    /\ \E m \in DOMAIN Modules : \E e \in Range(loaded[m]) : \E i \in Range(reg.entry[e].indices) :
          /\ reg.slab.value[i] # {} /\ reg.type_to_rec_group[i] # {}
          /\ LET owner == CHOOSE o \in reg.type_to_rec_group[i] : TRUE
             IN  reg' = incref(reg, owner) /\ Hold(t, owner, i)
    /\ UNCHANGED loaded

\* Clone for RegisteredType, without the lock.
Clone(t) ==
    /\ Enabled /\ t \in Free
    /\ \E u \in Threads :
          /\ handle[u].pc = "held"
          /\ reg' = incref(reg, handle[u].entry)
          /\ Hold(t, handle[u].entry, handle[u].index)
    /\ UNCHANGED loaded

\* Drop for RegisteredType, first half: decref without the lock.
DropHandle(t) ==
    /\ Enabled /\ handle[t].pc = "held"
    /\ reg' = decref(reg, handle[t].entry)
    /\ handle' = [handle EXCEPT ![t] =
          IF Count(reg, @.entry) = 1 THEN [@ EXCEPT !.pc = "unregister"] ELSE None]
    /\ UNCHANGED loaded

\* Drop for RegisteredType, second half: the count reached zero; lock and unregister.
Unregister(t) ==
    /\ Enabled /\ handle[t].pc = "unregister"
    /\ handle' = [handle EXCEPT ![t] = None]
    /\ UNCHANGED loaded
    /\ Settle(unregister_entry(reg, handle[t].entry))

\* The entry a thread is about to unregister had been revived, and its count is zero again.
GivenUpAgain ==
    \E t \in Threads :
        /\ handle[t].pc = "unregister" /\ handle'[t] = handle[t]
        /\ Count(reg, handle[t].entry) > 0 /\ Count(reg', handle[t].entry) = 0

Next ==
    /\ \/ \E m \in DOMAIN Modules : LoadModule(m) \/ DropModule(m)
       \/ \E t \in Threads : New(t) \/ Root(t) \/ Clone(t) \/ DropHandle(t) \/ Unregister(t)
    /\ again' = (again \/ GivenUpAgain)

Spec == Init /\ [][Next]_vars

-----------------------------------------------------------------------------
(* Properties *)

Uses(e) ==
    LET live == reg.map
    IN  Cardinality({t \in Threads : handle[t].pc = "held" /\ handle[t].entry = e})
        + Cardinality({<<m, k>> \in (DOMAIN Modules) \X (1..MaxEntries) :
                          k <= Len(loaded[m]) /\ loaded[m][k] = e})
        + Cardinality({<<o, k>> \in live \X (1..MaxEntries) :
                          /\ k <= Len(reg.entry[o].key.refs)
                          /\ reg.entry[o].key.refs[k] \in Range(reg.entry[e].indices)})
        + Cardinality({i \in Indices : reg.type_to_trampoline[i] \cap Range(reg.entry[e].indices) # {}})

\* Reference counting is exact: the count of a registered group is the number of
\* handles, module collections, references from other groups and trampoline links to it.
\* A group may be revived between the decref of a dropped handle and its lock.
CountsAreExact == again \/ \A e \in reg.map : Count(reg, e) = Uses(e)

\* A registered group's types are in the slab under the indices it gave out, no two
\* equal groups are registered, and once nothing uses the registry it is empty: what
\* the debug-build Drop of TypeRegistryInner asserts.
RegistryIsConsistent == again \/
    /\ ~reg.panic
    /\ \A e \in reg.map : \A m \in DOMAIN reg.entry[e].indices :
          LET i == reg.entry[e].indices[m]
          IN  /\ reg.type_to_rec_group[i] = {e}
              /\ reg.slab.value[i] # {}
              /\ Slot(reg, i).key = reg.entry[e].key /\ Slot(reg, i).member = m
    /\ \A d, e \in reg.map : reg.entry[d].key = reg.entry[e].key => d = e
    /\ (\A t \in Threads : handle[t] = None) /\ (\A m \in DOMAIN Modules : loaded[m] = <<>>)
          => reg.map = {} /\ reg.slab.len = 0

\* What the documentation of RegisteredType says (type_registry.rs:186): it "Prevents
\* its associated type from being unregistered while it is alive".
AliveIsRegistered ==
    \A t \in Threads : handle[t].pc = "held" =>
        /\ handle[t].entry \in reg.map
        /\ reg.type_to_rec_group[handle[t].index] = {handle[t].entry}

\* It does so whoever runs between the decref of a dropped handle and its lock, and may
\* revive the group: unregister_entry looks at the count again. Only when the revived
\* group is given up a second time before the first thread has the lock is it too late.
HandleKeepsItsType == again \/ AliveIsRegistered

\* TypeRegistry::is_subtype: the constant-time look at one place of the list.
is_subtype(sub, sup) ==
    LET depth == Len(reg.type_to_supertypes[sup])
        list == reg.type_to_supertypes[sub]
    IN  sub = sup \/ (depth < Len(list) /\ list[depth + 1] = sup)

RECURSIVE Declared(_, _)
Declared(sub, sup) ==
    \/ sub = sup
    \/ \E p \in Def[sub[1]].parent[sub[2]] :
          Declared(IF p[1] = "ref" THEN Def[sub[1]].refs[p[2]] ELSE <<sub[1], p[2]>>, sup)

\* The constant-time subtype check answers as the definitions of the types say,
\* whatever was registered and removed before.
SubtypingIsDeclared == again \/
    \A i, j \in {k \in 1..reg.slab.size : reg.slab.value[k] # {}} :
        LET a == Slot(reg, i)
            b == Slot(reg, j)
        IN  is_subtype(i, j) <=> Declared(<<a.key.group, a.member>>, <<b.key.group, b.member>>)

\* What the documentation of canonicalize_for_runtime_usage says (types/src/lib.rs:57):
\* it rewrites "all type references inside `self` from module-level interned type
\* indices to engine-level interned type indices". A reference to a member of the same
\* group becomes that member's index.
InnerReferencesResolve ==
    \A e \in reg.map : \A m \in DOMAIN reg.entry[e].indices :
        Slot(reg, reg.entry[e].indices[m]).inner =
            {reg.entry[e].indices[j] : j \in Def[reg.entry[e].key.group].inner[m]}
=============================================================================
