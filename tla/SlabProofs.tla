----------------------------- MODULE SlabProofs -----------------------------
(***************************************************************************)
(* Proofs about Slab, for any capacity and any values: the free list is    *)
(* exactly the vacant entries, next_id is right, and the slab implements   *)
(* the abstract map from ids to values.                                    *)
(***************************************************************************)
EXTENDS Slab, FiniteSetTheorems, TLAPS

\* The inductive invariant. FreeList needs the types of the record's fields, and the
\* growth of the storage needs FreeList: only a slab without vacant entries grows.
IndInv == TypeOK /\ FreeList /\ WithinCapacity

\* The fields of a slab that is well typed, one by one.
LEMMA SlabFields ==
    ASSUME TypeOK
    PROVE  /\ slab = [size |-> slab.size, value |-> slab.value, next |-> slab.next,
                      free |-> slab.free, len |-> slab.len, cap |-> slab.cap]
           /\ slab.size \in Nat /\ slab.cap \in Nat
           /\ slab.value \in [1..slab.size -> SUBSET Values]
           /\ slab.next \in [1..slab.size -> 0..slab.size]
           /\ slab.free \in 0..slab.size /\ slab.len \in 0..slab.size
           /\ rank \in [1..slab.size -> Nat]
BY DEF TypeOK

\* The free list as separate facts.
LEMMA FreeListFacts ==
    ASSUME TypeOK, FreeList
    PROVE  /\ slab.free = 0 <=> slab.size = slab.len
           /\ slab.free # 0 => slab.value[slab.free] = {} /\ rank[slab.free] = slab.size - slab.len
           /\ \A i \in 1..slab.size : slab.value[i] = {} =>
                 /\ rank[i] \in 1..(slab.size - slab.len)
                 /\ slab.next[i] = 0 <=> rank[i] = 1
                 /\ slab.next[i] # 0 => /\ slab.next[i] \in 1..slab.size
                                        /\ slab.value[slab.next[i]] = {}
                                        /\ rank[slab.next[i]] = rank[i] - 1
           /\ \A i, j \in 1..slab.size :
                 slab.value[i] = {} /\ slab.value[j] = {} /\ rank[i] = rank[j] => i = j
<1>1. slab.size \in Nat /\ slab.len \in 0..slab.size
  BY SlabFields
<1>2. (Vacant = 0) <=> (slab.size = slab.len)
  BY <1>1 DEF Vacant
<1> QED
  BY <1>1, <1>2 DEF FreeList, Vacant

\* len is the size of a finite set.
LEMMA OccupiedFacts ==
    ASSUME TypeOK, FreeList
    PROVE  IsFiniteSet(Occupied) /\ slab.len = Cardinality(Occupied)
<1>1. slab.size \in Int /\ Occupied \in SUBSET (1..slab.size)
  BY SlabFields DEF Occupied
<1>2. IsFiniteSet(1..slab.size)
  BY <1>1, FS_Interval
<1>3. IsFiniteSet(Occupied)
  BY <1>1, <1>2, FS_Subset
<1> QED
  BY <1>3 DEF FreeList

\* next_id computes from len what try_alloc_index takes from the storage.
LEMMA NextId ==
    ASSUME TypeOK, FreeList
    PROVE  NextIdIsNext
BY SlabFields, FreeListFacts DEF NextIdIsNext, next_id, alloc_index

\* Storage that grows has room for one more entry.
LEMMA Growth ==
    ASSUME IndInv, ~HasRoom(slab)
    PROVE  Doubled(slab) \in Nat /\ Doubled(slab) > slab.size
<1>1. slab.size \in Nat /\ slab.cap \in Nat /\ slab.len \in 0..slab.size /\ MIN_CAPACITY \in Nat \ {0}
  BY SlabFields, SlabAssumption DEF IndInv
<1>2. slab.free = 0 /\ slab.size = slab.cap
  BY <1>1 DEF HasRoom, IndInv, WithinCapacity
<1>3. slab.len = slab.size
  BY <1>2, FreeListFacts DEF IndInv
<1> QED
  BY <1>1, <1>2, <1>3 DEF Doubled, CapacityFor, Reserved

\* A new slab has no entries and an empty free list.
LEMMA InitIndInv == Init => IndInv
<1> SUFFICES ASSUME Init PROVE IndInv
  OBVIOUS
<1>0. 1..0 = {}
  OBVIOUS
<1>1. /\ slab.size = 0 /\ slab.free = 0 /\ slab.len = 0 /\ slab.cap = 0 /\ panicked \in BOOLEAN
      /\ slab.value = [i \in 1..0 |-> {}] /\ slab.next = [i \in 1..0 |-> 0]
      /\ rank = [i \in 1..0 |-> 0]
      /\ slab = [size |-> slab.size, value |-> slab.value, next |-> slab.next,
                 free |-> slab.free, len |-> slab.len, cap |-> slab.cap]
  BY DEF Init, NewSlab
<1>2. TypeOK
  <2>1. /\ slab.value \in [1..slab.size -> SUBSET Values]
        /\ slab.next \in [1..slab.size -> 0..slab.size]
        /\ rank \in [1..slab.size -> Nat]
    BY <1>0, <1>1
  <2>2. slab.size \in Nat /\ slab.free \in 0..slab.size /\ slab.len \in 0..slab.size
    BY <1>1
  <2> QED
    BY <2>1, <2>2, <1>1 DEF TypeOK
<1>3. Occupied = {} /\ Cardinality(Occupied) = 0
  BY <1>0, <1>1, FS_EmptySet DEF Occupied
<1>4. FreeList
  BY <1>0, <1>1, <1>3 DEF FreeList, Vacant
<1>5. WithinCapacity
  BY <1>1, SlabAssumption DEF WithinCapacity
<1> QED
  BY <1>2, <1>4, <1>5 DEF IndInv

\* An allocation keeps the invariant.
LEMMA AllocKeeps ==
    ASSUME IndInv, NEW v \in Values, ~AllocPanics(slab), slab' = alloc(slab, v),
           rank' = [i \in 1..slab'.size |-> IF i = alloc_index(slab) THEN 0 ELSE rank[i]],
           UNCHANGED panicked
    PROVE  IndInv'
<1> DEFINE i == alloc_index(slab)
           n == IF i > slab.size THEN i ELSE slab.size
<1>1. /\ slab.size \in Nat /\ slab.cap \in Nat
      /\ slab.value \in [1..slab.size -> SUBSET Values]
      /\ slab.next \in [1..slab.size -> 0..slab.size]
      /\ slab.free \in 0..slab.size /\ slab.len \in 0..slab.size
      /\ rank \in [1..slab.size -> Nat] /\ panicked \in BOOLEAN
  BY SlabFields DEF IndInv, TypeOK
<1>2. /\ slab'.size = n
      /\ slab'.value = [j \in 1..n |-> IF j = i THEN {v} ELSE slab.value[j]]
      /\ slab'.next = [j \in 1..n |-> IF j = i THEN 0 ELSE slab.next[j]]
      /\ slab'.free = (IF slab.free # 0 THEN slab.next[slab.free] ELSE 0)
      /\ slab'.len = slab.len + 1
      /\ slab'.cap = (IF HasRoom(slab) THEN slab.cap ELSE Doubled(slab))
  BY DEF alloc
<1>3. rank' = [j \in 1..n |-> IF j = i THEN 0 ELSE rank[j]]
  BY <1>2
<1>4. /\ n \in Nat /\ i \in 1..n
      /\ slab.free # 0 => i = slab.free /\ n = slab.size
      /\ slab.free = 0 => i = slab.size + 1 /\ n = slab.size + 1 /\ slab.len = slab.size
      /\ slab.len < n
  BY <1>1, FreeListFacts DEF IndInv, alloc_index
<1>5. \A j \in 1..n : j # i => j \in 1..slab.size
  BY <1>1, <1>4
<1>6. slab'.cap \in Nat /\ n <= slab'.cap /\ slab'.cap <= MAX_CAPACITY
  <2>1. CASE HasRoom(slab)
    BY <2>1, <1>1, <1>2, <1>4, SlabAssumption DEF IndInv, WithinCapacity, HasRoom
  <2>2. CASE ~HasRoom(slab)
    BY <2>2, <1>1, <1>2, <1>4, Growth, SlabAssumption DEF AllocPanics, HasRoom
  <2> QED
    BY <2>1, <2>2
<1>7. slab'.value \in [1..n -> SUBSET Values]
  BY <1>1, <1>2, <1>4, <1>5
<1>8. slab'.next \in [1..n -> 0..n]
  BY <1>1, <1>2, <1>4, <1>5
<1>9. rank' \in [1..n -> Nat]
  BY <1>1, <1>3, <1>4, <1>5
<1>10. slab'.free \in 0..n /\ slab'.len \in 0..n
  BY <1>1, <1>2, <1>4
<1>11. TypeOK'
  <2>1. slab' = [size |-> slab'.size, value |-> slab'.value, next |-> slab'.next,
                 free |-> slab'.free, len |-> slab'.len, cap |-> slab'.cap]
    BY DEF alloc
  <2> HIDE DEF n, i
  <2> QED
    BY <2>1, <1>1, <1>2, <1>4, <1>6, <1>7, <1>8, <1>9, <1>10 DEF TypeOK
<1>12. \A j \in 1..n : slab'.value[j] = {} <=> j # i /\ slab.value[j] = {}
  BY <1>2, <1>4
<1>13. \A j \in 1..n : j # i => slab'.next[j] = slab.next[j] /\ rank'[j] = rank[j]
  BY <1>2, <1>3
<1>14. FreeList'
  <2> DEFINE k == slab.size - slab.len
  <2>1. Vacant' = n - (slab.len + 1) /\ k \in Nat /\ k = slab.size - slab.len
    BY <1>1, <1>2 DEF Vacant
  <2>2. \A j \in 1..slab.size : rank[j] \in Nat
    BY <1>1
  <2>c. slab'.len = Cardinality(Occupied')
    <3> HIDE DEF n, i
    <3>1. i \notin Occupied
      BY <1>1, <1>4, FreeListFacts DEF Occupied, IndInv
    <3>2. \A x \in 1..n : slab'.value[x] # {} <=> x = i \/ x \in Occupied
      BY <1>4, <1>5, <1>12 DEF Occupied
    <3>3. Occupied \subseteq 1..n
      BY <1>1, <1>4 DEF Occupied
    <3>4. Occupied' = {x \in 1..n : slab'.value[x] # {}}
      BY <1>2 DEF Occupied
    <3>5. Occupied' = Occupied \cup {i}
      BY <3>2, <3>3, <3>4, <1>4
    <3>6. IsFiniteSet(Occupied) /\ slab.len = Cardinality(Occupied)
      BY OccupiedFacts DEF IndInv
    <3> QED
      <4>1. Cardinality(Occupied \cup {i}) = Cardinality(Occupied) + 1
        BY <3>1, <3>6, FS_AddElement
      <4> QED
        BY <4>1, <3>5, <3>6, <1>2
  <2> HIDE DEF n, i, k
  <2>3. CASE slab.free = 0
    <3>0. slab.len = slab.size /\ \A j \in 1..slab.size : slab.value[j] # {}
      BY <2>3, <1>1, FreeListFacts DEF IndInv
    <3>1. \A j \in 1..n : slab'.value[j] # {}
      BY <3>0, <1>5, <1>12
    <3>2. Vacant' = 0 /\ slab'.free = 0
      BY <2>1, <2>3, <1>1, <1>2, <1>4
    <3> QED
      BY <3>1, <3>2, <1>2, <2>c DEF FreeList
  <2>4. CASE slab.free # 0
    <3>1. Vacant' = k - 1 /\ n = slab.size /\ i = slab.free /\ slab'.free = slab.next[i]
      BY <2>1, <2>4, <1>1, <1>2, <1>4
    <3>2. slab.value[i] = {} /\ rank[i] = k /\ k \in 1..k
      BY <2>1, <2>4, <3>1, <1>1, <1>4, FreeListFacts DEF IndInv
    <3>3. \A j \in 1..n : slab'.value[j] = {} =>
              /\ j # i /\ slab.value[j] = {} /\ j \in 1..slab.size
              /\ rank'[j] = rank[j] /\ slab'.next[j] = slab.next[j]
      BY <1>12, <1>5, <1>13
    <3>4. \A j \in 1..n : slab'.value[j] = {} => rank[j] \in 1..k /\ rank[j] # rank[i]
      BY <3>1, <3>2, <3>3, <2>1, <1>4, FreeListFacts DEF IndInv
    <3>5. \A j \in 1..n : slab'.value[j] = {} => rank'[j] \in 1..(k - 1)
      BY <3>2, <3>3, <3>4, <2>1
    <3>6. ASSUME NEW j \in 1..n, slab'.value[j] = {}
          PROVE  /\ slab'.next[j] = 0 <=> rank'[j] = 1
                 /\ slab'.next[j] # 0 => /\ slab'.next[j] \in 1..n
                                         /\ slab'.value[slab'.next[j]] = {}
                                         /\ rank'[slab'.next[j]] = rank'[j] - 1
      <4>1. /\ slab.next[j] = 0 <=> rank[j] = 1
            /\ slab.next[j] # 0 => /\ slab.next[j] \in 1..slab.size
                                   /\ slab.value[slab.next[j]] = {}
                                   /\ rank[slab.next[j]] = rank[j] - 1
        BY <3>3, <3>6, FreeListFacts DEF IndInv
      <4>2. rank[j] \in 1..k
        BY <3>4, <3>6
      <4>3. slab.next[j] # 0 => slab.next[j] # i
        BY <4>1, <4>2, <3>2, <2>1
      <4>4. rank'[j] = rank[j] /\ slab'.next[j] = slab.next[j]
        BY <3>3, <3>6
      <4>5. slab.next[j] # 0 => /\ slab'.value[slab.next[j]] = {}
                                /\ rank'[slab.next[j]] = rank[slab.next[j]]
        BY <4>1, <4>3, <3>1, <1>12, <1>13
      <4> QED
        BY <4>1, <4>4, <4>5, <3>1
    <3>7. \A j, l \in 1..n : slab'.value[j] = {} /\ slab'.value[l] = {} /\ rank'[j] = rank'[l] => j = l
      <4> SUFFICES ASSUME NEW j \in 1..n, NEW l \in 1..n, slab'.value[j] = {},
                          slab'.value[l] = {}, rank'[j] = rank'[l]
                   PROVE  j = l
        OBVIOUS
      <4>1. /\ slab.value[j] = {} /\ j \in 1..slab.size /\ rank'[j] = rank[j]
            /\ slab.value[l] = {} /\ l \in 1..slab.size /\ rank'[l] = rank[l]
        BY <3>3
      <4> QED
        BY <4>1, FreeListFacts DEF IndInv
    <3>8. slab'.free = 0 <=> k - 1 = 0
      BY <2>1, <3>1, <3>2, <1>1, <1>4, FreeListFacts DEF IndInv
    <3>9. slab'.free # 0 => /\ slab'.free \in 1..n /\ slab'.value[slab'.free] = {}
                            /\ rank'[slab'.free] = k - 1
      <4> SUFFICES ASSUME slab'.free # 0
                   PROVE  /\ slab'.free \in 1..n /\ slab'.value[slab'.free] = {}
                          /\ rank'[slab'.free] = k - 1
        OBVIOUS
      <4>1. /\ slab.next[i] \in 1..slab.size /\ slab.value[slab.next[i]] = {}
            /\ rank[slab.next[i]] = k - 1
        BY <3>1, <3>2, <1>4, FreeListFacts DEF IndInv
      <4>2. slab.next[i] # i
        BY <4>1, <3>2, <2>1
      <4> QED
        BY <4>1, <4>2, <3>1, <1>12, <1>13
    <3> DEFINE vac == {j \in 1..slab'.size : slab'.value[j] = {}}
    <3>10. \A j \in vac : /\ rank'[j] \in 1..Vacant'
                          /\ slab'.next[j] = 0 <=> rank'[j] = 1
                          /\ slab'.next[j] # 0 => slab'.next[j] \in vac /\ rank'[slab'.next[j]] = rank'[j] - 1
      BY <3>1, <3>5, <3>6, <1>2
    <3>11. \A j, l \in vac : rank'[j] = rank'[l] => j = l
      BY <3>7, <1>2
    <3>12. slab'.free # 0 => slab'.free \in vac /\ rank'[slab'.free] = Vacant'
      BY <3>1, <3>9, <1>2
    <3>13. slab'.free = 0 <=> Vacant' = 0
      BY <3>1, <3>8
    <3> QED
      BY <3>10, <3>11, <3>12, <3>13, <2>c DEF FreeList
  <2> QED
    BY <2>3, <2>4
<1>15. WithinCapacity'
  BY <1>2, <1>6 DEF WithinCapacity
<1> QED
  BY <1>11, <1>14, <1>15 DEF IndInv

\* Deallocation of an occupied entry keeps the invariant.
LEMMA DeallocKeeps ==
    ASSUME IndInv, NEW i, contains(slab, i), slab' = dealloc(slab, i),
           rank' = [j \in 1..slab.size |-> IF j = i THEN Vacant + 1 ELSE rank[j]],
           UNCHANGED panicked
    PROVE  IndInv'
<1> DEFINE n == slab.size
           k == slab.size - slab.len
<1>1. /\ slab.size \in Nat /\ slab.cap \in Nat
      /\ slab.value \in [1..n -> SUBSET Values]
      /\ slab.next \in [1..n -> 0..n]
      /\ slab.free \in 0..n /\ slab.len \in 0..n
      /\ rank \in [1..n -> Nat] /\ panicked \in BOOLEAN
  BY SlabFields DEF IndInv, TypeOK
<1>2. /\ slab'.size = n
      /\ slab'.value = [j \in 1..n |-> IF j = i THEN {} ELSE slab.value[j]]
      /\ slab'.next = [j \in 1..n |-> IF j = i THEN slab.free ELSE slab.next[j]]
      /\ slab'.free = i /\ slab'.len = slab.len - 1 /\ slab'.cap = slab.cap
      /\ slab' = [size |-> slab'.size, value |-> slab'.value, next |-> slab'.next,
                  free |-> slab'.free, len |-> slab'.len, cap |-> slab'.cap]
  BY DEF dealloc
<1>3. rank' = [j \in 1..n |-> IF j = i THEN k + 1 ELSE rank[j]]
  BY DEF Vacant
<1>4. i \in 1..n /\ slab.value[i] # {}
  BY DEF contains
<1>5. slab'.len = Cardinality(Occupied') /\ slab.len \in 1..n
  <2>1. Occupied' = Occupied \ {i} /\ i \in Occupied
    BY <1>1, <1>2, <1>4 DEF Occupied
  <2>2. IsFiniteSet(Occupied) /\ slab.len = Cardinality(Occupied)
    BY OccupiedFacts DEF IndInv
  <2>3. Cardinality(Occupied) # 0
    BY <2>1, <2>2, FS_EmptySet
  <2>4. Cardinality(Occupied \ {i}) = Cardinality(Occupied) - 1
    BY <2>1, <2>2, FS_RemoveElement
  <2>5. slab'.len = Cardinality(Occupied')
    BY <2>1, <2>2, <2>4, <1>2
  <2> HIDE DEF n
  <2> QED
    BY <2>2, <2>3, <2>5, <1>1
<1>6. k \in Nat /\ Vacant' = k + 1 /\ k = slab.size - slab.len
  BY <1>1, <1>2, <1>5 DEF Vacant
<1>7. TypeOK'
  <2>0. slab'.size \in Nat /\ slab'.cap \in Nat /\ panicked' \in BOOLEAN
    BY <1>1, <1>2
  <2>1. slab'.value \in [1..n -> SUBSET Values]
    BY <1>1, <1>2, <1>4
  <2>2. slab'.next \in [1..n -> 0..n]
    BY <1>1, <1>2, <1>4
  <2>3. rank' \in [1..n -> Nat]
    BY <1>1, <1>3, <1>4, <1>6
  <2>4. slab'.free \in 0..n /\ slab'.len \in 0..n
    BY <1>1, <1>2, <1>4, <1>5
  <2> HIDE DEF n, k
  <2> QED
    BY <2>0, <2>1, <2>2, <2>3, <2>4, <1>2 DEF TypeOK
<1>8. \A j \in 1..n : slab'.value[j] = {} <=> j = i \/ slab.value[j] = {}
  BY <1>2, <1>4
<1>9. \A j \in 1..n : j # i => slab'.next[j] = slab.next[j] /\ rank'[j] = rank[j]
  BY <1>2, <1>3
<1>10. slab'.next[i] = slab.free /\ rank'[i] = k + 1 /\ slab'.value[i] = {}
  BY <1>2, <1>3, <1>4
<1>11. FreeList'
  <2> DEFINE vac == {j \in 1..slab'.size : slab'.value[j] = {}}
  <2> HIDE DEF n, k
  <2>0. n = slab.size
    BY DEF n
  <2>1. \A j \in vac : j # i => /\ slab.value[j] = {} /\ j \in 1..slab.size /\ rank'[j] = rank[j]
                                 /\ rank[j] \in 1..k /\ slab'.next[j] = slab.next[j]
    BY <2>0, <1>2, <1>6, <1>8, <1>9, FreeListFacts DEF IndInv
  <2>2. \A j \in 1..slab.size : slab.value[j] = {} => j \in vac /\ j # i
    BY <2>0, <1>2, <1>4, <1>8
  <2>3. ASSUME NEW j \in vac
        PROVE  /\ rank'[j] \in 1..Vacant'
               /\ slab'.next[j] = 0 <=> rank'[j] = 1
               /\ slab'.next[j] # 0 => slab'.next[j] \in vac /\ rank'[slab'.next[j]] = rank'[j] - 1
    <3>1. CASE j = i
      <4>1. slab.free = 0 <=> k = 0
        BY <1>1, <1>6, <2>0, FreeListFacts DEF IndInv
      <4>a. slab.free # 0 => /\ slab.free \in 1..slab.size /\ slab.value[slab.free] = {}
                             /\ rank[slab.free] = k
        BY <1>1, <1>6, <2>0, FreeListFacts DEF IndInv
      <4>2. slab.free # 0 => slab.free \in vac /\ slab.free # i /\ rank[slab.free] = k
        BY <4>a, <2>2
      <4>3. slab.free # 0 => rank'[slab.free] = k
        BY <4>2, <2>1
      <4> QED
        BY <3>1, <4>1, <4>2, <4>3, <1>6, <1>10
    <3>2. CASE j # i
      <4>1. /\ slab.value[j] = {} /\ j \in 1..slab.size /\ rank'[j] = rank[j]
            /\ rank[j] \in 1..k /\ slab'.next[j] = slab.next[j]
        BY <3>2, <2>1, <2>3
      <4>2. /\ slab.next[j] = 0 <=> rank[j] = 1
            /\ slab.next[j] # 0 => /\ slab.next[j] \in 1..slab.size
                                   /\ slab.value[slab.next[j]] = {}
                                   /\ rank[slab.next[j]] = rank[j] - 1
        BY <4>1, FreeListFacts DEF IndInv
      <4>3. slab.next[j] # 0 => slab.next[j] \in vac /\ rank'[slab.next[j]] = rank[slab.next[j]]
        BY <4>2, <2>1, <2>2
      <4>4. rank[j] \in 1..Vacant'
        BY <4>1, <1>6
      <4> QED
        BY <4>1, <4>2, <4>3, <4>4
    <3> QED
      BY <3>1, <3>2
  <2>4. ASSUME NEW j \in vac, NEW l \in vac, rank'[j] = rank'[l]
        PROVE  j = l
    <3>0. /\ j # i => rank'[j] \in 1..k
          /\ l # i => rank'[l] \in 1..k
          /\ k \in Nat /\ rank'[i] = k + 1
      BY <2>1, <2>4, <1>10, <1>6
    <3>1. CASE j = i /\ l # i
      BY <3>1, <3>0, <2>4
    <3>2. CASE j # i /\ l = i
      BY <3>2, <3>0, <2>4
    <3>3. CASE j # i /\ l # i
      <4>1. /\ slab.value[j] = {} /\ j \in 1..slab.size /\ rank'[j] = rank[j]
            /\ slab.value[l] = {} /\ l \in 1..slab.size /\ rank'[l] = rank[l]
        BY <3>3, <2>1, <2>4
      <4>2. rank[j] = rank[l]
        BY <4>1, <2>4
      <4> HIDE DEF vac
      <4> QED
        BY <4>1, <4>2, FreeListFacts DEF IndInv
    <3> QED
      BY <3>1, <3>2, <3>3
  <2>5. slab'.free # 0 /\ slab'.free \in vac /\ rank'[slab'.free] = Vacant' /\ Vacant' # 0
    BY <2>0, <1>1, <1>2, <1>4, <1>6, <1>10
  <2> QED
    BY <2>3, <2>4, <2>5, <1>5 DEF FreeList
<1>12. WithinCapacity'
  BY <1>2 DEF WithinCapacity, IndInv
<1> QED
  BY <1>7, <1>11, <1>12 DEF IndInv

\* Draining leaves a new slab.
LEMMA DrainKeeps == IndInv /\ Drain => IndInv'
<1> SUFFICES ASSUME IndInv, Drain PROVE IndInv'
  OBVIOUS
<1>0. 1..0 = {}
  OBVIOUS
<1>1. /\ slab'.size = 0 /\ slab'.free = 0 /\ slab'.len = 0 /\ slab'.cap = slab.cap
      /\ slab'.value = [i \in 1..0 |-> {}] /\ slab'.next = [i \in 1..0 |-> 0]
      /\ rank' = [i \in 1..0 |-> 0]
      /\ slab' = [size |-> slab'.size, value |-> slab'.value, next |-> slab'.next,
                  free |-> slab'.free, len |-> slab'.len, cap |-> slab'.cap]
  BY DEF Drain, drain, NewSlab
<1>2. slab.cap \in Nat /\ panicked' \in BOOLEAN
  BY SlabFields DEF IndInv, TypeOK, Drain
<1>3. TypeOK'
  <2>1. /\ slab'.value \in [1..slab'.size -> SUBSET Values]
        /\ slab'.next \in [1..slab'.size -> 0..slab'.size]
        /\ rank' \in [1..slab'.size -> Nat]
    BY <1>0, <1>1
  <2>2. slab'.size \in Nat /\ slab'.free \in 0..slab'.size /\ slab'.len \in 0..slab'.size
    BY <1>1
  <2> QED
    BY <2>1, <2>2, <1>1, <1>2 DEF TypeOK
<1>4. Occupied' = {} /\ Cardinality(Occupied') = 0
  BY <1>0, <1>1, FS_EmptySet DEF Occupied
<1>5. FreeList'
  BY <1>0, <1>1, <1>4 DEF FreeList, Vacant
<1>6. WithinCapacity'
  BY <1>1, <1>2 DEF WithinCapacity, IndInv
<1> QED
  BY <1>3, <1>5, <1>6 DEF IndInv

\* Growing the storage keeps the invariant and the entries.
LEMMA ReserveKeeps ==
    ASSUME IndInv, Reserve
    PROVE  IndInv' /\ slab'.size = slab.size /\ slab'.value = slab.value
<1>1. PICK additional \in 0..MAX_CAPACITY :
          LET cap == CapacityFor(slab, additional)
          IN  \/ /\ cap > MAX_CAPACITY
                 /\ panicked' = TRUE /\ UNCHANGED slab
              \/ /\ cap <= MAX_CAPACITY
                 /\ slab' = [slab EXCEPT !.cap = cap] /\ UNCHANGED panicked
  BY DEF Reserve
<1>2. rank' = rank /\ panicked' \in BOOLEAN
  BY <1>1 DEF Reserve, IndInv, TypeOK
<1>3. /\ slab.size \in Nat /\ slab.cap \in Nat /\ slab.len \in 0..slab.size
      /\ slab.size <= slab.cap /\ slab.cap <= MAX_CAPACITY
  BY SlabFields DEF IndInv, WithinCapacity
<1>4. CapacityFor(slab, additional) \in Nat /\ CapacityFor(slab, additional) >= slab.cap
  BY <1>3, SlabAssumption DEF CapacityFor, Reserved
<1>5. /\ slab'.size = slab.size /\ slab'.value = slab.value /\ slab'.next = slab.next
      /\ slab'.free = slab.free /\ slab'.len = slab.len
      /\ slab'.cap \in Nat /\ slab.size <= slab'.cap /\ slab'.cap <= MAX_CAPACITY
      /\ slab' = [size |-> slab'.size, value |-> slab'.value, next |-> slab'.next,
                  free |-> slab'.free, len |-> slab'.len, cap |-> slab'.cap]
  <2>1. CASE UNCHANGED slab
    BY <2>1, <1>3, SlabFields DEF IndInv
  <2>2. CASE /\ slab' = [slab EXCEPT !.cap = CapacityFor(slab, additional)]
             /\ CapacityFor(slab, additional) <= MAX_CAPACITY
    BY <2>2, <1>3, <1>4, SlabFields, SlabAssumption DEF IndInv
  <2> QED
    BY <1>1, <2>1, <2>2
<1>6. TypeOK'
  BY <1>2, <1>5, SlabFields DEF TypeOK, IndInv
<1>7. FreeList'
  <2>1. Vacant' = Vacant /\ Occupied' = Occupied
    BY <1>5 DEF Vacant, Occupied
  <2> QED
    BY <2>1, <1>2, <1>5 DEF FreeList, IndInv
<1> QED
  BY <1>5, <1>6, <1>7 DEF IndInv, WithinCapacity

\* Every step keeps the invariant.
LEMMA NextIndInv == IndInv /\ [Next]_vars => IndInv'
<1> SUFFICES ASSUME IndInv, [Next]_vars PROVE IndInv'
  OBVIOUS
<1>0. panicked \in BOOLEAN
  BY DEF IndInv, TypeOK
<1>s. ASSUME UNCHANGED <<slab, rank>>, panicked' \in BOOLEAN PROVE IndInv'
  BY <1>s DEF IndInv, TypeOK, FreeList, WithinCapacity, Vacant, Occupied
<1>1. CASE Alloc
  <2>1. CASE panicked' = TRUE /\ UNCHANGED <<slab, rank>>
    BY <2>1, <1>s
  <2>2. CASE /\ ~AllocPanics(slab)
             /\ \E v \in Values : slab' = alloc(slab, v)
             /\ rank' = [i \in 1..slab'.size |-> IF i = alloc_index(slab) THEN 0 ELSE rank[i]]
             /\ UNCHANGED panicked
    BY <2>2, AllocKeeps
  <2> QED
    BY <1>1, <2>1, <2>2 DEF Alloc
<1>2. CASE Reserve
  BY <1>2, ReserveKeeps
<1>3. CASE Dealloc
  <2>1. PICK i \in 1..(slab.size + 1) :
          \/ /\ contains(slab, i)
             /\ slab' = dealloc(slab, i)
             /\ rank' = [j \in 1..slab.size |-> IF j = i THEN Vacant + 1 ELSE rank[j]]
             /\ UNCHANGED panicked
          \/ /\ ~contains(slab, i)
             /\ panicked' = TRUE /\ UNCHANGED <<slab, rank>>
    BY <1>3 DEF Dealloc
  <2>2. CASE panicked' = TRUE /\ UNCHANGED <<slab, rank>>
    BY <2>2, <1>s
  <2>3. CASE /\ contains(slab, i)
             /\ slab' = dealloc(slab, i)
             /\ rank' = [j \in 1..slab.size |-> IF j = i THEN Vacant + 1 ELSE rank[j]]
             /\ UNCHANGED panicked
    BY <2>3, DeallocKeeps
  <2> QED
    BY <2>1, <2>2, <2>3
<1>4. CASE Drain
  BY <1>4, DrainKeeps
<1>5. CASE UNCHANGED vars
  BY <1>5, <1>s, <1>0 DEF vars
<1> QED
  BY <1>1, <1>2, <1>3, <1>4, <1>5 DEF Next

\* For any capacity and values, whatever the calls: the slab is well typed, its free
\* list is exactly its vacant entries, and no index exceeds MAX_CAPACITY.
THEOREM SlabFreeList == Spec => [](TypeOK /\ FreeList /\ WithinCapacity)
<1>1. Spec => []IndInv
  BY InitIndInv, NextIndInv, PTL DEF Spec
<1> QED
  BY <1>1, PTL DEF IndInv

\* next_id is the id of the next allocation, as its documentation says.
THEOREM SlabNextId == Spec => []NextIdIsNext
<1>1. Spec => []IndInv
  BY InitIndInv, NextIndInv, PTL DEF Spec
<1>2. IndInv => NextIdIsNext
  BY NextId DEF IndInv
<1> QED
  BY <1>1, <1>2, PTL

\* An allocation adds one id that was not in use.
LEMMA AllocMaps ==
    ASSUME IndInv, NEW v \in Values, ~AllocPanics(slab), slab' = alloc(slab, v),
           rank' = [i \in 1..slab'.size |-> IF i = alloc_index(slab) THEN 0 ELSE rank[i]],
           UNCHANGED panicked
    PROVE  Abstract!Alloc
<1> DEFINE i == alloc_index(slab)
<1>1. /\ slab.size \in Nat /\ slab.free \in 0..slab.size
      /\ slab.free # 0 => slab.value[slab.free] = {}
  BY SlabFields, FreeListFacts DEF IndInv
<1>2. IndInv'
  BY AllocKeeps
<1>3. i \in 1..slab'.size /\ i \notin Occupied
  BY <1>1 DEF alloc, alloc_index, Occupied
<1>4. slab'.size \in Nat /\ slab'.size <= MAX_CAPACITY
  BY <1>2, SlabFields, SlabAssumption DEF IndInv, WithinCapacity, TypeOK
<1>5. i \in (1..MAX_CAPACITY) \ Occupied
  BY <1>3, <1>4, SlabAssumption DEF alloc
<1>6. /\ slab.size <= slab'.size
      /\ \A j \in 1..slab'.size : j # i => j \in 1..slab.size
      /\ slab'.value = [j \in 1..slab'.size |-> IF j = i THEN {v} ELSE slab.value[j]]
  BY <1>1 DEF alloc, alloc_index
<1>7. Occupied' = Occupied \cup {i}
  <2>1. Occupied' = {x \in 1..slab'.size : slab'.value[x] # {}}
    BY DEF Occupied
  <2>2. \A x \in 1..slab'.size : slab'.value[x] # {} <=> x = i \/ x \in Occupied
    BY <1>3, <1>6 DEF Occupied
  <2>3. Occupied \subseteq 1..slab'.size
    BY <1>1, <1>4, <1>6 DEF Occupied
  <2> HIDE DEF i
  <2> QED
    BY <2>1, <2>2, <2>3, <1>3
<1>8. \A j \in Occupied' : slab'.value[j] = (IF j = i THEN {v} ELSE slab.value[j])
  BY <1>6 DEF Occupied
<1>9. AbstractMap' = [j \in DOMAIN AbstractMap \cup {i} |-> IF j = i THEN {v} ELSE AbstractMap[j]]
  <2> HIDE DEF i
  <2> QED
    BY <1>7, <1>8 DEF AbstractMap
<1>10. DOMAIN AbstractMap = Occupied
  BY DEF AbstractMap
<1> HIDE DEF i
<1> QED
  BY <1>5, <1>9, <1>10 DEF Abstract!Alloc, AbstractMap

\* A deallocation takes one id away.
LEMMA DeallocMaps ==
    ASSUME IndInv, NEW i, contains(slab, i), slab' = dealloc(slab, i)
    PROVE  Abstract!Dealloc
<1>1. i \in Occupied
  BY DEF contains, Occupied
<1>2. /\ slab'.size = slab.size
      /\ slab'.value = [j \in 1..slab.size |-> IF j = i THEN {} ELSE slab.value[j]]
  BY DEF dealloc
<1>3. Occupied' = Occupied \ {i}
  BY <1>2 DEF Occupied
<1>4. \A j \in Occupied' : slab'.value[j] = slab.value[j]
  BY <1>2 DEF Occupied
<1>5. AbstractMap' = [j \in DOMAIN AbstractMap \ {i} |-> AbstractMap[j]]
  BY <1>3, <1>4 DEF AbstractMap
<1>6. DOMAIN AbstractMap = Occupied
  BY DEF AbstractMap
<1> QED
  BY <1>1, <1>5, <1>6 DEF Abstract!Dealloc, AbstractMap

\* The slab, its free list and its growth implement the abstract map from ids to values.
THEOREM SlabImplementsIdMap == Spec => ImplementsIdMap
<1>1. Init => Abstract!Init
  <2> SUFFICES ASSUME Init PROVE Abstract!Init
    OBVIOUS
  <2>1. Occupied = {}
    BY DEF Init, NewSlab, Occupied
  <2>2. AbstractMap = [i \in {} |-> {}]
    BY <2>1 DEF AbstractMap
  <2> QED
    BY <2>2 DEF Abstract!Init
<1>2. IndInv /\ [Next]_vars => [Abstract!Next]_Abstract!vars
  <2> SUFFICES ASSUME IndInv, [Next]_vars PROVE Abstract!Next \/ AbstractMap' = AbstractMap
    BY DEF Abstract!vars
  <2>s. ASSUME UNCHANGED slab PROVE AbstractMap' = AbstractMap
    BY <2>s DEF AbstractMap, Occupied
  <2>1. CASE Alloc
    <3>1. CASE UNCHANGED slab
      BY <3>1, <2>s
    <3>2. CASE /\ ~AllocPanics(slab)
               /\ \E v \in Values : slab' = alloc(slab, v)
               /\ rank' = [i \in 1..slab'.size |-> IF i = alloc_index(slab) THEN 0 ELSE rank[i]]
               /\ UNCHANGED panicked
      BY <3>2, AllocMaps DEF Abstract!Next
    <3> QED
      BY <2>1, <3>1, <3>2 DEF Alloc
  <2>2. CASE Reserve
    <3>1. slab'.size = slab.size /\ slab'.value = slab.value
      BY <2>2, ReserveKeeps
    <3> QED
      BY <3>1 DEF AbstractMap, Occupied
  <2>3. CASE Dealloc
    <3>1. CASE UNCHANGED slab
      BY <3>1, <2>s
    <3>2. CASE \E i \in 1..(slab.size + 1) : contains(slab, i) /\ slab' = dealloc(slab, i)
      BY <3>2, DeallocMaps DEF Abstract!Next
    <3> QED
      BY <2>3, <3>1, <3>2 DEF Dealloc
  <2>4. CASE Drain
    <3>1. slab'.size = 0
      BY <2>4 DEF Drain, drain, NewSlab
    <3>2. Occupied' = {}
      BY <3>1 DEF Occupied
    <3>3. AbstractMap' = [i \in {} |-> {}]
      BY <3>2 DEF AbstractMap
    <3> QED
      BY <3>3 DEF Abstract!Next, Abstract!Drain
  <2>5. CASE UNCHANGED vars
    BY <2>5, <2>s DEF vars
  <2> QED
    BY <2>1, <2>2, <2>3, <2>4, <2>5 DEF Next
<1>3. Spec => []IndInv
  BY InitIndInv, NextIndInv, PTL DEF Spec
<1>4. Spec => Abstract!Init /\ [][Abstract!Next]_Abstract!vars
  BY <1>1, <1>2, <1>3, PTL DEF Spec
<1> QED
  BY <1>4 DEF ImplementsIdMap, Abstract!Spec
=============================================================================
