------------------------------- MODULE SlabOps ------------------------------
(***************************************************************************)
(* wasmtime-slab: an arena whose vacant entries form a free list inside    *)
(* the storage. A slab is a record: entry i (EntryIndex is one-based)      *)
(* holds {v} when occupied and {} when vacant, next[i] links vacant        *)
(* entries, 0 is None.                                                     *)
(***************************************************************************)
EXTENDS Integers

CONSTANTS
    MAX_CAPACITY,  \* u32::MAX - 1 in the code
    MIN_CAPACITY   \* 16 in the code

ASSUME SlabAssumption ==
    /\ MAX_CAPACITY \in Nat
    /\ MIN_CAPACITY \in Nat \ {0}

NewSlab == [size |-> 0, value |-> [i \in 1..0 |-> {}], next |-> [i \in 1..0 |-> 0],
            free |-> 0, len |-> 0, cap |-> 0]

\* External: Vec::reserve grows by doubling at least.
Reserved(cap, needed) ==
    IF needed <= cap THEN cap ELSE IF needed < 2 * cap THEN 2 * cap ELSE needed

\* The capacity after reserve(additional).
CapacityFor(s, additional) ==
    IF s.cap - s.len >= additional THEN s.cap ELSE Reserved(s.cap, s.size + additional)

\* double_capacity.
Doubled(s) == CapacityFor(s, IF s.cap < MIN_CAPACITY THEN MIN_CAPACITY ELSE s.cap)

\* try_alloc_index finds an entry without growing the storage.
HasRoom(s) == s.free # 0 \/ s.size < s.cap

\* The assertion of reserve that alloc_slow may run into.
AllocPanics(s) == ~HasRoom(s) /\ Doubled(s) > MAX_CAPACITY

\* next_id, without any look at the entries.
next_id(s) == IF s.free # 0 THEN s.free ELSE s.len + 1

\* Mutants of alloc_index: a new entry although there is a vacant one; the entry after
\* as many as are occupied.
AllocFresh(s) == s.size + 1
AllocAtLen(s) == s.len + 1

\* try_alloc_index: the head of the free list or a new entry at the end.
alloc_index(s) == IF s.free # 0 THEN s.free ELSE s.size + 1

\* alloc: try_alloc, after double_capacity when there is no room.
alloc(s, v) ==
    LET i == alloc_index(s)
        size == IF i > s.size THEN i ELSE s.size
    IN  [size |-> size,
         value |-> [j \in 1..size |-> IF j = i THEN {v} ELSE s.value[j]],
         next |-> [j \in 1..size |-> IF j = i THEN 0 ELSE s.next[j]],
         free |-> IF s.free # 0 THEN s.next[s.free] ELSE 0,
         len |-> s.len + 1,
         cap |-> IF HasRoom(s) THEN s.cap ELSE Doubled(s)]

\* get and contains; get panics for an id past the end.
contains(s, i) == i \in 1..s.size /\ s.value[i] # {}

\* Mutant of dealloc: the entry is vacated but the list forgets the older entries.
DeallocForgets(s, i) ==
    [size |-> s.size,
     value |-> [j \in 1..s.size |-> IF j = i THEN {} ELSE s.value[j]],
     next |-> [j \in 1..s.size |-> IF j = i THEN 0 ELSE s.next[j]],
     free |-> i, len |-> s.len - 1, cap |-> s.cap]

\* dealloc of an occupied entry, pushed on the free list. It panics for others.
dealloc(s, i) ==
    [size |-> s.size,
     value |-> [j \in 1..s.size |-> IF j = i THEN {} ELSE s.value[j]],
     next |-> [j \in 1..s.size |-> IF j = i THEN s.free ELSE s.next[j]],
     free |-> i, len |-> s.len - 1, cap |-> s.cap]

\* drain.
drain(s) == [NewSlab EXCEPT !.cap = s.cap]
=============================================================================
