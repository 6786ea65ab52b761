-------------------------------- MODULE Slab --------------------------------
(***************************************************************************)
(* A slab driven by any sequence of calls, with ids that may be stale.     *)
(***************************************************************************)
EXTENDS SlabOps, FiniteSets

CONSTANT Values

VARIABLES
    slab,
    panicked,
    rank      \* history: place of each vacant entry in the free list, from its end

vars == <<slab, panicked, rank>>

Init ==
    /\ slab = NewSlab
    /\ panicked = FALSE
    /\ rank = [i \in 1..0 |-> 0]

Vacant == slab.size - slab.len
Occupied == {i \in 1..slab.size : slab.value[i] # {}}

Alloc ==
    /\ ~panicked
    /\ \/ /\ AllocPanics(slab)
          /\ panicked' = TRUE /\ UNCHANGED <<slab, rank>>
       \/ /\ ~AllocPanics(slab)
          /\ \E v \in Values : slab' = alloc(slab, v)
          /\ rank' = [i \in 1..slab'.size |-> IF i = alloc_index(slab) THEN 0 ELSE rank[i]]
          /\ UNCHANGED panicked

\* reserve, also from with_capacity.
Reserve ==
    /\ ~panicked
    /\ \E additional \in 0..MAX_CAPACITY :
          LET cap == CapacityFor(slab, additional)
          IN  \/ /\ cap > MAX_CAPACITY
                 /\ panicked' = TRUE /\ UNCHANGED slab
              \/ /\ cap <= MAX_CAPACITY
                 /\ slab' = [slab EXCEPT !.cap = cap] /\ UNCHANGED panicked
    /\ UNCHANGED rank

Dealloc ==
    /\ ~panicked
    /\ \E i \in 1..(slab.size + 1) :
          \/ /\ contains(slab, i)
             /\ slab' = dealloc(slab, i)
             /\ rank' = [j \in 1..slab.size |-> IF j = i THEN Vacant + 1 ELSE rank[j]]
             /\ UNCHANGED panicked
          \/ /\ ~contains(slab, i)
             /\ panicked' = TRUE /\ UNCHANGED <<slab, rank>>

Drain ==
    /\ ~panicked
    /\ slab' = drain(slab)
    /\ rank' = [i \in 1..0 |-> 0]
    /\ UNCHANGED panicked

Next == Alloc \/ Reserve \/ Dealloc \/ Drain

Spec == Init /\ [][Next]_vars

-----------------------------------------------------------------------------
(* Properties *)

\* Type invariant.
TypeOK ==
    /\ slab \in [size: Nat, value: [1..slab.size -> SUBSET Values],
                 next: [1..slab.size -> 0..slab.size], free: 0..slab.size,
                 len: 0..slab.size, cap: Nat]
    /\ panicked \in BOOLEAN
    /\ rank \in [1..slab.size -> Nat]

\* The free list goes through every vacant entry once and through no occupied one
\* (the unreachable!() of try_alloc), ends, and has as many entries as `len`, the number
\* of occupied ones, leaves. The history rank numbers its entries from the end.
FreeList ==
    LET vacant == {i \in 1..slab.size : slab.value[i] = {}}
    IN  /\ slab.len = Cardinality(Occupied)
        /\ slab.free = 0 <=> Vacant = 0
        /\ slab.free # 0 => slab.free \in vacant /\ rank[slab.free] = Vacant
        /\ \A i \in vacant :
              /\ rank[i] \in 1..Vacant
              /\ slab.next[i] = 0 <=> rank[i] = 1
              /\ slab.next[i] # 0 => slab.next[i] \in vacant /\ rank[slab.next[i]] = rank[i] - 1
        /\ \A i, j \in vacant : rank[i] = rank[j] => i = j

\* The documentation of next_id: "Get the Id that will be returned for the next
\* allocation in this slab", although it computes it from len and not from the number
\* of entries.
NextIdIsNext == next_id(slab) = alloc_index(slab)

\* EntryIndex::new never fails its assertion: the entries stay within the capacity,
\* and the capacity within MAX_CAPACITY.
WithinCapacity == slab.size <= slab.cap /\ slab.cap <= MAX_CAPACITY

AbstractMap == [i \in Occupied |-> slab.value[i]]

Abstract == INSTANCE IdMap WITH Ids <- 1..MAX_CAPACITY,
    map <- AbstractMap

\* The slab is a map from ids to values: an allocation returns an id that is not in
\* use and no call disturbs another entry.
ImplementsIdMap == Abstract!Spec
=============================================================================
