------------------------ MODULE ResourceTablesProofs ------------------------
(***************************************************************************)
(* Lemmas about ResourceTables: what an operation on the tables does to    *)
(* them, for any instances and any table size.                             *)
(*                                                                         *)
(* An operation is understood in two steps. A table with its free list is  *)
(* a partial map from handles to slots, to which it adds a slot or from    *)
(* which it takes one. What the calls promise is about that map and the    *)
(* scopes alone: CallsOK, with one lemma for every change an operation can *)
(* make to it. Good puts the two together, and every operation that starts *)
(* in a good state is Fine: it fails or ends in a good state.              *)
(***************************************************************************)
EXTENDS ResourceTables, FiniteSetTheorems, TLAPS

Tables == Instances \cup {Host}

FreeSlots == [kind : {"free"}, next : Nat]
OwnSlots == [kind : {"own"}, rep : Nat, count : Nat]
BorrowSlots == [kind : {"borrow"}, rep : Nat, scope : Nat]
InUse == OwnSlots \cup BorrowSlots
Slots == FreeSlots \cup InUse
Places == Tables \X Nat
Lenders == [ty : Tables, idx : Nat]

TableType == [next : Nat, slots : Seq(Slots)]
ScopeType == [lenders : Seq(Lenders), borrow_count : Nat]
State == [tables : [Tables -> TableType], scopes : Seq(ScopeType),
          cur_generation : Nat, metadata : Seq(Nat)]

\* The free list of a table: it starts at next, visits free slots only, each of them
\* from one place, and ends after the last slot.
Vacant(tb) == {h \in DOMAIN tb.slots : tb.slots[h].kind = "free"}
FreeList(tb) ==
    /\ tb.next \in Vacant(tb) \cup {Len(tb.slots) + 1}
    /\ \A h \in Vacant(tb) : /\ tb.slots[h].next \in Vacant(tb) \cup {Len(tb.slots) + 1}
                             /\ tb.slots[h].next # tb.next
    /\ \A g, h \in Vacant(tb) : tb.slots[g].next = tb.slots[h].next => g = h

TableOK(tb) ==
    /\ tb \in TableType
    /\ FreeList(tb)
    /\ \A h \in DOMAIN tb.slots : h < MAX_RESOURCE_HANDLE

\* new_host_index finds a place for the generation of a new handle.
StateOK(s) ==
    /\ s \in State
    /\ \A t \in Tables : TableOK(s.tables[t])
    /\ Len(s.metadata) = Len(s.tables[Host].slots)

\* The slots in use, as a map.
Live(s) == [p \in {q \in Places : Used(s, q[1], q[2])} |-> SlotAt(s, p[1], p[2])]

Maps == UNION {[P -> InUse] : P \in SUBSET Places}
Owned(f) == {p \in DOMAIN f : f[p].kind = "own"}
Borrowed(f) == {p \in DOMAIN f : f[p].kind = "borrow"}

\* The reps that have an owner are those of O, and each has one.
OwnersOK(f, O) ==
    /\ \A p \in Owned(f) : f[p].rep \in O
    /\ \A p, q \in Owned(f) : f[p].rep = f[q].rep => p = q
    /\ \A r \in O : \E p \in Owned(f) : f[p].rep = r

\* The scopes in which a handle is lent: a scope has one lender at most.
Lent(p) == <<[ty |-> p[1], idx |-> p[2]]>>
Lends(sc, p) == {k \in DOMAIN sc : sc[k].lenders = Lent(p)}
LendersOK(f, sc) ==
    /\ \A k \in DOMAIN sc : sc[k].lenders = <<>> \/ \E p \in Owned(f) : sc[k].lenders = Lent(p)
    /\ \A p \in Owned(f) : f[p].count = Cardinality(Lends(sc, p))

Borrowers(f, k) == {p \in Borrowed(f) : f[p].scope = k}
BorrowersOK(f, sc) == \A k \in DOMAIN sc :
    IsFiniteSet(Borrowers(f, k)) /\ sc[k].borrow_count = Cardinality(Borrowers(f, k))

\* A borrow of rep r in scope k is backed by a lend of its owner, in that scope or in
\* one around it. W are the borrows that are in no table: a pair of a rep and a scope.
Backed(f, sc, r, k) == \E m \in DOMAIN sc : m <= k /\ \E p \in Owned(f) : f[p].rep = r /\ m \in Lends(sc, p)
BackedOK(f, sc, W) ==
    /\ \A p \in Borrowed(f) : f[p].scope \in DOMAIN sc /\ Backed(f, sc, f[p].rep, f[p].scope)
    /\ \A w \in W : w[2] \in DOMAIN sc /\ Backed(f, sc, w[1], w[2])

CallsOK(f, sc, O, W) ==
    /\ f \in Maps /\ sc \in Seq(ScopeType) /\ O \in SUBSET Nat
    /\ OwnersOK(f, O) /\ LendersOK(f, sc) /\ BorrowersOK(f, sc) /\ BackedOK(f, sc, W)

\* What is known of every ResourceAny in G: one of the current generation has not been
\* removed, and one whose generation is that of its slot stands for what is there.
Anys == [idx : Nat, gen : Nat, rep : Nat, owned : BOOLEAN]
GivenOK(f, md, cur, G) == \A any \in G :
    /\ any \in Anys
    /\ any.idx \in DOMAIN md /\ any.gen <= md[any.idx] /\ md[any.idx] <= cur
    /\ any.gen = cur => <<Host, any.idx>> \in DOMAIN f
    /\ md[any.idx] = any.gen /\ <<Host, any.idx>> \in DOMAIN f =>
          /\ f[<<Host, any.idx>>].rep = any.rep
          /\ (f[<<Host, any.idx>>].kind = "own") = any.owned

GivenIn(s, G) == GivenOK(Live(s), s.metadata, s.cur_generation, G)

\* A state in which the reps O have owners, the borrows W are in no table and D scopes
\* are open; and a result that is an error or such a state.
Good(s, O, W, G, D) ==
    /\ StateOK(s) /\ Len(s.scopes) = D
    /\ CallsOK(Live(s), s.scopes, O, W)
    /\ GivenIn(s, G)
Fine(res, O, W, G, D) ==
    /\ res.r \in {"ok", "err"}
    /\ GivenIn(res.st, G)
    /\ res.r = "ok" => Good(res.st, O, W, G, D)

-----------------------------------------------------------------------------
(* A table and its free list *)

Linked(tb) == LET old == tb.slots
              IN  IF tb.next = Len(old) + 1 THEN Append(old, Free(tb.next + 1)) ELSE old
Filled(tb, slot) == [next |-> Linked(tb)[tb.next].next,
                     slots |-> [Linked(tb) EXCEPT ![tb.next] = slot]]
Emptied(tb, h) == [next |-> h, slots |-> [tb.slots EXCEPT ![h] = Free(tb.next)]]

-----------------------------------------------------------------------------
(* The map of the slots in use, and the scopes *)

With(f, p, slot) == [q \in DOMAIN f \cup {p} |-> IF q = p THEN slot ELSE f[q]]
Minus(f, p) == [q \in DOMAIN f \ {p} |-> f[q]]

\* A slot in use is an Own or a Borrow.
LEMMA MapFacts ==
    ASSUME NEW f \in Maps
    PROVE  /\ DOMAIN f \in SUBSET Places
           /\ f = [p \in DOMAIN f |-> f[p]] /\ \A p \in DOMAIN f : f[p] \in InUse
           /\ \A p \in DOMAIN f : \/ p \in Owned(f) /\ f[p] \in OwnSlots /\ p \notin Borrowed(f)
                                  \/ p \in Borrowed(f) /\ f[p] \in BorrowSlots /\ p \notin Owned(f)
           /\ \A p \in Owned(f) : p \in DOMAIN f /\ f[p] \in OwnSlots
           /\ \A p \in Borrowed(f) : p \in DOMAIN f /\ f[p] \in BorrowSlots
<1>1. PICK P \in SUBSET Places : f \in [P -> InUse]
  BY DEF Maps
<1>2. DOMAIN f = P /\ f = [p \in DOMAIN f |-> f[p]] /\ \A p \in DOMAIN f : f[p] \in InUse
  BY <1>1
<1>3. \A p \in DOMAIN f : \/ f[p] \in OwnSlots /\ f[p].kind = "own"
                          \/ f[p] \in BorrowSlots /\ f[p].kind = "borrow"
  BY <1>2 DEF InUse, OwnSlots, BorrowSlots
<1> QED
  BY <1>1, <1>2, <1>3 DEF Owned, Borrowed

\* A map with a slot more is a map.
LEMMA WithMaps ==
    ASSUME NEW f \in Maps, NEW p \in Places, NEW slot \in InUse
    PROVE  With(f, p, slot) \in Maps
<1>1. DOMAIN f \in SUBSET Places /\ \A q \in DOMAIN f : f[q] \in InUse
  BY MapFacts
<1>2. With(f, p, slot) \in [DOMAIN f \cup {p} -> InUse]
  BY <1>1 DEF With
<1>3. DOMAIN f \cup {p} \in SUBSET Places
  BY <1>1
<1> QED
  BY <1>2, <1>3 DEF Maps

\* A map without a handle: the other handles keep their slots.
LEMMA MinusFacts ==
    ASSUME NEW f \in Maps, NEW p
    PROVE  /\ Minus(f, p) \in Maps
           /\ DOMAIN Minus(f, p) = DOMAIN f \ {p}
           /\ \A q \in DOMAIN f \ {p} : Minus(f, p)[q] = f[q]
<1>1. DOMAIN f \in SUBSET Places /\ \A q \in DOMAIN f : f[q] \in InUse
  BY MapFacts
<1>2. Minus(f, p) \in [DOMAIN f \ {p} -> InUse]
  BY <1>1 DEF Minus
<1>3. DOMAIN f \ {p} \in SUBSET Places
  BY <1>1
<1> QED
  BY <1>2, <1>3, Zenon DEF Minus, Maps

\* A lender is one handle, and the handle of one lender.
LEMMA LenderFacts ==
    /\ \A p, q \in Places : Lent(p) = Lent(q) => p = q
    /\ \A p \in Places : /\ Lent(p) \in Seq(Lenders) /\ Len(Lent(p)) = 1 /\ Lent(p) # <<>>
                         /\ Lent(p)[1].ty = p[1] /\ Lent(p)[1].idx = p[2]
<1>1. \A p, q \in Places : Lent(p) = Lent(q) => p = q
  <2> SUFFICES ASSUME NEW p \in Places, NEW q \in Places, Lent(p) = Lent(q)
               PROVE  p = q
    OBVIOUS
  <2>1. Lent(p)[1].ty = Lent(q)[1].ty /\ Lent(p)[1].idx = Lent(q)[1].idx
    OBVIOUS
  <2>2. p[1] = q[1] /\ p[2] = q[2]
    BY <2>1 DEF Lent
  <2> QED
    BY <2>2 DEF Places
<1>2. \A p \in Places : /\ Lent(p) \in Seq(Lenders) /\ Len(Lent(p)) = 1 /\ Lent(p) # <<>>
                        /\ Lent(p)[1].ty = p[1] /\ Lent(p)[1].idx = p[2]
  BY DEF Lent, Lenders, Places
<1> QED
  BY <1>1, <1>2

\* The scopes in which a handle is lent are finitely many.
LEMMA LendsFinite ==
    ASSUME NEW sc \in Seq(ScopeType), NEW p
    PROVE  /\ IsFiniteSet(Lends(sc, p)) /\ Cardinality(Lends(sc, p)) \in Nat
           /\ Lends(sc, p) \in SUBSET (DOMAIN sc) /\ DOMAIN sc = 1..Len(sc) /\ Len(sc) \in Nat
<1>1. DOMAIN sc = 1..Len(sc) /\ Len(sc) \in Nat
  OBVIOUS
<1>2. IsFiniteSet(DOMAIN sc)
  BY <1>1, FS_Interval
<1>3. Lends(sc, p) \in SUBSET (DOMAIN sc)
  BY DEF Lends
<1> QED
  BY <1>1, <1>2, <1>3, FS_Subset, FS_CardinalityType

\* A new owner: of a rep that had none, in a handle that was not in use.
LEMMA AddOwn ==
    ASSUME NEW f, NEW sc, NEW O, NEW W, CallsOK(f, sc, O, W),
           NEW p \in Places \ DOMAIN f, NEW r \in Nat \ O
    PROVE  CallsOK(With(f, p, Own(r)), sc, O \cup {r}, W)
<1> DEFINE g == With(f, p, Own(r))
<1>1. f \in Maps /\ sc \in Seq(ScopeType) /\ O \in SUBSET Nat /\ p \in Places
  BY DEF CallsOK
<1>2. Own(r) \in OwnSlots /\ Own(r).kind = "own" /\ Own(r).rep = r /\ Own(r).count = 0
  BY DEF Own, OwnSlots
<1>3. /\ g \in Maps /\ DOMAIN g = DOMAIN f \cup {p} /\ g[p] = Own(r)
      /\ \A q \in DOMAIN f : g[q] = f[q]
  <2>1. Own(r) \in InUse
    BY <1>2 DEF InUse
  <2>2. /\ g \in Maps /\ DOMAIN g = DOMAIN f \cup {p} /\ g[p] = Own(r)
        /\ \A q \in DOMAIN f \ {p} : g[q] = f[q]
    <3> DEFINE e == Own(r)
    <3>1. e \in InUse
      BY <2>1
    <3> HIDE DEF e
    <3>2. With(f, p, e) \in Maps
      BY <1>1, <3>1, WithMaps
    <3>3. /\ DOMAIN With(f, p, e) = DOMAIN f \cup {p} /\ With(f, p, e)[p] = e
          /\ \A q \in DOMAIN f \ {p} : With(f, p, e)[q] = f[q]
      BY DEF With
    <3> QED
      BY <3>2, <3>3 DEF e
  <2>3. p \notin DOMAIN f
    OBVIOUS
  <2> QED
    BY <2>2, <2>3
<1> HIDE DEF g
<1>4. Owned(g) = Owned(f) \cup {p} /\ Borrowed(g) = Borrowed(f) /\ p \notin Owned(f)
  BY <1>2, <1>3 DEF Owned, Borrowed
<1>5. \A q \in Owned(f) \cup Borrowed(f) : q \in DOMAIN f /\ g[q] = f[q]
  BY <1>3 DEF Owned, Borrowed
<1>6. OwnersOK(g, O \cup {r})
  <2>1. OwnersOK(f, O)
    BY DEF CallsOK
  <2> QED
    BY <2>1, <1>2, <1>3, <1>4, <1>5 DEF OwnersOK
<1>7. LendersOK(f, sc)
  BY DEF CallsOK
<1>8. Lends(sc, p) = {}
  <2> SUFFICES ASSUME NEW k \in DOMAIN sc, sc[k].lenders = Lent(p) PROVE FALSE
    BY DEF Lends
  <2>1. PICK q \in Owned(f) : sc[k].lenders = Lent(q)
    BY <1>7, LenderFacts DEF LendersOK
  <2>2. q \in Places /\ Lent(p) = Lent(q)
    BY <2>1, <1>1, MapFacts, LenderFacts
  <2> QED
    BY <2>2, <1>1, <1>4, LenderFacts
<1>9. LendersOK(g, sc)
  <2>1. Cardinality(Lends(sc, p)) = 0
    BY <1>8, FS_EmptySet
  <2> QED
    BY <2>1, <1>2, <1>3, <1>4, <1>5, <1>7 DEF LendersOK
<1>10. BorrowersOK(g, sc)
  <2>1. \A k : Borrowers(g, k) = Borrowers(f, k)
    BY <1>4, <1>5 DEF Borrowers
  <2> QED
    BY <2>1 DEF BorrowersOK, CallsOK
<1>11. BackedOK(g, sc, W)
  <2>1. \A s, k : Backed(f, sc, s, k) => Backed(g, sc, s, k)
    <3> SUFFICES ASSUME NEW s, NEW k, Backed(f, sc, s, k) PROVE Backed(g, sc, s, k)
      OBVIOUS
    <3> QED
      BY <1>4, <1>5 DEF Backed
  <2> QED
    BY <2>1, <1>4, <1>5 DEF BackedOK, CallsOK
<1> QED
  BY <1>1, <1>3, <1>6, <1>9, <1>10, <1>11 DEF CallsOK, g

\* The owner of a rep that is not lent can be taken out.
LEMMA RemoveOwn ==
    ASSUME NEW f, NEW sc, NEW O, NEW W, CallsOK(f, sc, O, W),
           NEW p \in Owned(f), f[p].count = 0
    PROVE  f[p].rep \in O /\ CallsOK(Minus(f, p), sc, O \ {f[p].rep}, W)
<1> DEFINE g == Minus(f, p)
           r == f[p].rep
<1>1. f \in Maps /\ sc \in Seq(ScopeType) /\ O \in SUBSET Nat /\ OwnersOK(f, O) /\ LendersOK(f, sc)
  BY DEF CallsOK
<1>2. g \in Maps /\ DOMAIN g = DOMAIN f \ {p} /\ \A q \in DOMAIN f \ {p} : g[q] = f[q]
  BY <1>1, MinusFacts, Zenon
<1> HIDE DEF g
<1>4. Owned(g) = Owned(f) \ {p} /\ Borrowed(g) = Borrowed(f)
  BY <1>1, <1>2, MapFacts DEF Owned, Borrowed
<1>5. \A q \in Owned(g) \cup Borrowed(g) : q \in DOMAIN f /\ g[q] = f[q]
  BY <1>2 DEF Owned, Borrowed
<1>6. r \in O
  BY <1>1 DEF OwnersOK
<1>7. OwnersOK(g, O \ {r})
  BY <1>1, <1>4, <1>5 DEF OwnersOK
<1>8. Lends(sc, p) = {}
  <2>1. Cardinality(Lends(sc, p)) = 0
    BY <1>1 DEF LendersOK
  <2> QED
    BY <2>1, <1>1, LendsFinite, FS_EmptySet
<1>9. LendersOK(g, sc)
  BY <1>1, <1>4, <1>5, <1>8, Zenon DEF LendersOK, Lends
<1>10. BorrowersOK(g, sc)
  <2>1. \A k : Borrowers(g, k) = Borrowers(f, k)
    BY <1>4, <1>5 DEF Borrowers
  <2> QED
    BY <2>1 DEF BorrowersOK, CallsOK
<1>11. BackedOK(g, sc, W)
  <2>1. \A s, k : Backed(f, sc, s, k) => Backed(g, sc, s, k)
    <3> SUFFICES ASSUME NEW s, NEW k, Backed(f, sc, s, k) PROVE Backed(g, sc, s, k)
      OBVIOUS
    <3> QED
      BY <1>4, <1>5, <1>8 DEF Backed
  <2> QED
    BY <2>1, <1>4, <1>5 DEF BackedOK, CallsOK
<1> QED
  BY <1>1, <1>2, <1>6, <1>7, <1>9, <1>10, <1>11, Zenon DEF CallsOK, g

Recount(sc, k, c) == [sc EXCEPT ![k] = [sc[k] EXCEPT !.borrow_count = c]]

\* A change of a borrow_count leaves the lenders alone.
LEMMA RecountFacts ==
    ASSUME NEW sc \in Seq(ScopeType), NEW k \in DOMAIN sc, NEW c \in Nat, NEW scg, scg = Recount(sc, k, c)
    PROVE  /\ scg \in Seq(ScopeType) /\ DOMAIN scg = DOMAIN sc /\ Len(scg) = Len(sc)
           /\ scg[k].borrow_count = c
           /\ \A m \in DOMAIN sc : scg[m].lenders = sc[m].lenders
           /\ \A m \in DOMAIN sc \ {k} : scg[m].borrow_count = sc[m].borrow_count
           /\ \A p : Lends(scg, p) = Lends(sc, p)
<1> DEFINE x == [sc[k] EXCEPT !.borrow_count = c]
<1>1. sc[k] \in ScopeType
  OBVIOUS
<1>2. x \in ScopeType /\ x.borrow_count = c /\ x.lenders = sc[k].lenders
  BY <1>1, Zenon DEF ScopeType
<1>3. scg = [sc EXCEPT ![k] = x]
  BY DEF Recount
<1> HIDE DEF x
<1>4. /\ scg \in Seq(ScopeType) /\ DOMAIN scg = DOMAIN sc /\ Len(scg) = Len(sc)
      /\ scg[k] = x /\ \A m \in DOMAIN sc \ {k} : scg[m] = sc[m]
  BY <1>2, <1>3
<1>5. \A m \in DOMAIN sc : scg[m].lenders = sc[m].lenders
  BY <1>2, <1>4
<1>6. \A p : Lends(scg, p) = Lends(sc, p)
  BY <1>4, <1>5 DEF Lends
<1> QED
  BY <1>2, <1>4, <1>5, <1>6

Counted(f, p, c) == With(f, p, [f[p] EXCEPT !.count = c])
Relend(sc, k, ls) == [sc EXCEPT ![k] = [sc[k] EXCEPT !.lenders = ls]]
Entered(sc) == Append(sc, [lenders |-> <<>>, borrow_count |-> 0])
Left(sc) == SubSeq(sc, 1, Len(sc) - 1)

\* The map g is f with another count at p.
OnlyCount(f, p, c, g) ==
    /\ g \in Maps /\ DOMAIN g = DOMAIN f
    /\ Owned(g) = Owned(f) /\ Borrowed(g) = Borrowed(f)
    /\ g[p].count = c
    /\ \A q \in Owned(f) \ {p} : g[q].count = f[q].count
    /\ \A q \in DOMAIN f : g[q].rep = f[q].rep /\ g[q].kind = f[q].kind
    /\ \A q \in Borrowed(f) : g[q] = f[q]

\* A change of a lend_count changes nothing else in the map.
LEMMA CountedFacts ==
    ASSUME NEW f \in Maps, NEW p \in Owned(f), NEW c \in Nat
    PROVE  OnlyCount(f, p, c, Counted(f, p, c))
<1> DEFINE g == Counted(f, p, c)
<1> DEFINE e == [f[p] EXCEPT !.count = c]
<1>1. p \in DOMAIN f /\ f[p] \in OwnSlots /\ DOMAIN f \in SUBSET Places
  BY MapFacts
<1>2. e \in OwnSlots /\ e.kind = f[p].kind /\ e.rep = f[p].rep /\ e.count = c /\ f[p].kind = "own"
  BY <1>1 DEF OwnSlots
<1>3. e \in InUse /\ p \in Places /\ g = With(f, p, e)
  BY <1>1, <1>2 DEF InUse, Counted
<1> HIDE DEF e, g
<1>4. g \in Maps
  BY <1>3, WithMaps
<1>5. DOMAIN g = DOMAIN f /\ g[p] = e /\ \A q \in DOMAIN f \ {p} : g[q] = f[q]
  BY <1>1, <1>3 DEF With
<1>6. \A q \in DOMAIN f : g[q].rep = f[q].rep /\ g[q].kind = f[q].kind
  BY <1>2, <1>5
<1>7. Owned(g) = Owned(f) /\ Borrowed(g) = Borrowed(f)
  BY <1>5, <1>6 DEF Owned, Borrowed
<1>8. p \notin Borrowed(f) /\ \A q \in Owned(f) \cup Borrowed(f) : q \in DOMAIN f
  BY <1>2 DEF Owned, Borrowed
<1>9. OnlyCount(f, p, c, g)
  BY <1>2, <1>4, <1>5, <1>6, <1>7, <1>8 DEF OnlyCount
<1> QED
  BY <1>9 DEF g

\* Owners and borrowers do not depend on lend counts, nor on lenders.
LEMMA CountedKeeps ==
    ASSUME NEW f, NEW p, NEW c, NEW g, OnlyCount(f, p, c, g), NEW O
    PROVE  /\ OwnersOK(f, O) => OwnersOK(g, O)
           /\ \A k : Borrowers(g, k) = Borrowers(f, k)
<1>1. /\ Owned(g) = Owned(f) /\ Borrowed(g) = Borrowed(f)
      /\ \A q \in DOMAIN f : g[q].rep = f[q].rep
      /\ \A q \in Borrowed(f) : g[q] = f[q]
  BY DEF OnlyCount
<1>2. \A q \in Owned(f) : g[q].rep = f[q].rep
  BY <1>1 DEF Owned
<1>3. OwnersOK(f, O) => OwnersOK(g, O)
  BY <1>1, <1>2 DEF OwnersOK
<1>4. \A k : Borrowers(g, k) = Borrowers(f, k)
  BY <1>1 DEF Borrowers
<1> QED
  BY <1>3, <1>4

\* A borrow that is in no table may be forgotten.
LEMMA Forget ==
    ASSUME NEW f, NEW sc, NEW O, NEW W, CallsOK(f, sc, O, W), NEW V \in SUBSET W
    PROVE  CallsOK(f, sc, O, V)
BY DEF CallsOK, BackedOK

-----------------------------------------------------------------------------
(* The operations on a table, as changes of the map *)

Replace(s, t, tb) == [s EXCEPT !.tables = [s.tables EXCEPT ![t] = tb]]
Put(s, t, slot) == Replace(s, t, Filled(s.tables[t], slot))
Take(s, t, h) == Replace(s, t, Emptied(s.tables[t], h))

\* The fields of a state, one by one.
LEMMA StateFields ==
    ASSUME NEW s, StateOK(s)
    PROVE  /\ s = [tables |-> s.tables, scopes |-> s.scopes, cur_generation |-> s.cur_generation,
                   metadata |-> s.metadata]
           /\ s.tables \in [Tables -> TableType] /\ s.scopes \in Seq(ScopeType)
           /\ s.cur_generation \in Nat /\ s.metadata \in Seq(Nat)
           /\ Len(s.metadata) = Len(s.tables[Host].slots)
           /\ \A t \in Tables : /\ s.tables[t] \in TableType /\ FreeList(s.tables[t])
                                /\ \A h \in DOMAIN s.tables[t].slots : h < MAX_RESOURCE_HANDLE
                                /\ s.tables[t].slots \in Seq(Slots)
                                /\ \A h \in DOMAIN s.tables[t].slots : h \in Nat /\ s.tables[t].slots[h] \in Slots
<1>1. s \in State
  BY DEF StateOK
<1>2. /\ s = [tables |-> s.tables, scopes |-> s.scopes, cur_generation |-> s.cur_generation,
              metadata |-> s.metadata]
      /\ s.tables \in [Tables -> TableType] /\ s.scopes \in Seq(ScopeType)
      /\ s.cur_generation \in Nat /\ s.metadata \in Seq(Nat)
  BY <1>1 DEF State
<1>3. \A t \in Tables : /\ s.tables[t] \in TableType /\ FreeList(s.tables[t])
                        /\ \A h \in DOMAIN s.tables[t].slots : h < MAX_RESOURCE_HANDLE
  BY DEF StateOK, TableOK
<1>4. \A t \in Tables : s.tables[t].slots \in Seq(Slots)
  BY <1>3 DEF TableType
<1>5. \A t \in Tables : \A h \in DOMAIN s.tables[t].slots : h \in Nat /\ s.tables[t].slots[h] \in Slots
  BY <1>4
<1> QED
  BY <1>2, <1>3, <1>4, <1>5 DEF StateOK

\* What Used and SlotAt say of a state, in terms of the map.
LEMMA UsedFacts ==
    ASSUME NEW s, NEW t \in Tables, NEW h \in Nat
    PROVE  /\ <<t, h>> \in Places
           /\ Used(s, t, h) <=> <<t, h>> \in DOMAIN Live(s)
           /\ Used(s, t, h) => SlotAt(s, t, h) = Live(s)[<<t, h>>]
<1>1. <<t, h>> \in Places /\ <<t, h>>[1] = t /\ <<t, h>>[2] = h
  BY DEF Places
<1> DEFINE p == <<t, h>>
<1> HIDE DEF p
<1>2. p \in Places /\ p[1] = t /\ p[2] = h
  BY <1>1 DEF p
<1>3. /\ Used(s, t, h) <=> p \in DOMAIN Live(s)
      /\ Used(s, t, h) => SlotAt(s, t, h) = Live(s)[p]
  BY <1>2 DEF Live
<1> QED
  BY <1>1, <1>3 DEF p

\* The map, place by place.
LEMMA LiveFacts ==
    ASSUME NEW s
    PROVE  /\ Live(s) = [p \in DOMAIN Live(s) |-> Live(s)[p]] /\ DOMAIN Live(s) \in SUBSET Places
           /\ \A p \in DOMAIN Live(s) : /\ p[1] \in Tables /\ p[2] \in Nat /\ p = <<p[1], p[2]>>
                                         /\ Used(s, p[1], p[2]) /\ Live(s)[p] = SlotAt(s, p[1], p[2])
<1>1. Live(s) = [p \in DOMAIN Live(s) |-> Live(s)[p]] /\ DOMAIN Live(s) \in SUBSET Places
  BY DEF Live
<1>2. \A p \in DOMAIN Live(s) : p \in Places /\ Used(s, p[1], p[2]) /\ Live(s)[p] = SlotAt(s, p[1], p[2])
  BY DEF Live
<1>3. \A p \in Places : p[1] \in Tables /\ p[2] \in Nat /\ p = <<p[1], p[2]>>
  BY DEF Places
<1> QED
  BY <1>1, <1>2, <1>3

\* Two states that use the same slots have the same map.
LEMMA LiveSame ==
    ASSUME NEW n, NEW f, f = [p \in DOMAIN f |-> f[p]], DOMAIN f \in SUBSET Places,
           \A t \in Tables : \A h \in Nat :
               /\ Used(n, t, h) <=> <<t, h>> \in DOMAIN f
               /\ Used(n, t, h) => SlotAt(n, t, h) = f[<<t, h>>]
    PROVE  Live(n) = f
<1>1. \A p \in Places : p[1] \in Tables /\ p[2] \in Nat /\ p = <<p[1], p[2]>>
  BY DEF Places
<1>2. \A p \in Places : /\ Used(n, p[1], p[2]) <=> p \in DOMAIN f
                        /\ Used(n, p[1], p[2]) => SlotAt(n, p[1], p[2]) = f[p]
  BY <1>1
<1>3. DOMAIN Live(n) = DOMAIN f
  BY <1>2, Zenon DEF Live
<1>4. \A p \in DOMAIN f : Live(n)[p] = f[p]
  BY <1>2, <1>3 DEF Live
<1>5. Live(n) = [p \in DOMAIN Live(n) |-> Live(n)[p]]
  BY LiveFacts
<1> QED
  BY <1>3, <1>4, <1>5

\* The slots in use of a well-formed state are such a map.
LEMMA LiveIsMap ==
    ASSUME NEW s, StateOK(s)
    PROVE  Live(s) \in Maps
<1>1. DOMAIN Live(s) \in SUBSET Places
  BY LiveFacts, Zenon
<1>2. ASSUME NEW p \in DOMAIN Live(s) PROVE Live(s)[p] \in InUse
  <2>1. p[1] \in Tables /\ Used(s, p[1], p[2]) /\ Live(s)[p] = SlotAt(s, p[1], p[2])
    BY LiveFacts, Zenon
  <2>2. /\ p[2] \in DOMAIN s.tables[p[1]].slots /\ s.tables[p[1]].slots[p[2]].kind # "free"
        /\ Live(s)[p] = s.tables[p[1]].slots[p[2]]
    BY <2>1, Zenon DEF Used, SlotAt
  <2>3. Live(s)[p] \in Slots
    BY <2>1, <2>2, StateFields
  <2> QED
    BY <2>1, <2>2, <2>3 DEF Slots, FreeSlots
<1>3. Live(s) = [p \in DOMAIN Live(s) |-> Live(s)[p]]
  BY LiveFacts
<1>4. Live(s) \in [DOMAIN Live(s) -> InUse]
  BY <1>2, <1>3
<1> QED
  BY <1>1, <1>4 DEF Maps

\* A state in which one table is replaced.
LEMMA NewTable ==
    ASSUME NEW s, StateOK(s), NEW t \in Tables, NEW tb \in TableType, NEW n,
           n = Replace(s, t, tb)
    PROVE  /\ n \in State /\ n.tables[t] = tb /\ \A u \in Tables \ {t} : n.tables[u] = s.tables[u]
           /\ n.scopes = s.scopes /\ n.cur_generation = s.cur_generation /\ n.metadata = s.metadata
<1> DEFINE T == [s.tables EXCEPT ![t] = tb]
<1>1. /\ s = [tables |-> s.tables, scopes |-> s.scopes, cur_generation |-> s.cur_generation,
              metadata |-> s.metadata]
      /\ s.tables \in [Tables -> TableType] /\ s.scopes \in Seq(ScopeType)
      /\ s.cur_generation \in Nat /\ s.metadata \in Seq(Nat)
  BY StateFields
<1>2. T \in [Tables -> TableType] /\ T[t] = tb /\ \A u \in Tables \ {t} : T[u] = s.tables[u]
  BY <1>1
<1> HIDE DEF T
<1>3. n = [tables |-> T, scopes |-> s.scopes, cur_generation |-> s.cur_generation, metadata |-> s.metadata]
  BY <1>1, Zenon DEF T, Replace
<1> QED
  BY <1>1, <1>2, <1>3 DEF State

\* insert never panics: the head of the free list is free. It adds a slot to the map, and
\* it is an error when the handle is too large.
LEMMA InsertFacts ==
    ASSUME NEW s, StateOK(s), NEW t \in Tables, NEW slot \in InUse, NEW h, h = s.tables[t].next, NEW n, n = Put(s, t, slot)
    PROVE  /\ insert(s, t, slot) = IF h >= MAX_RESOURCE_HANDLE THEN Err(n) ELSE Ok(n, h)
           /\ h \in Nat /\ <<t, h>> \in Places \ DOMAIN Live(s)
           /\ Live(n) = With(Live(s), <<t, h>>, slot)
           /\ n.scopes = s.scopes /\ n.cur_generation = s.cur_generation /\ n.metadata = s.metadata
           /\ h < MAX_RESOURCE_HANDLE /\ t # Host => StateOK(n)
           /\ h < MAX_RESOURCE_HANDLE => n \in State /\ \A u \in Tables : TableOK(n.tables[u])
           /\ t = Host => /\ h > 0 /\ h <= Len(s.metadata) + 1 /\ Len(s.metadata) \in Nat
                          /\ h >= MAX_RESOURCE_HANDLE => h \notin DOMAIN s.metadata
                          /\ Len(n.tables[Host].slots) = IF h = Len(s.metadata) + 1 THEN h ELSE Len(s.metadata)
\* The slot at the head of the free list is free, also when it has just been added.
<1>LinkedFacts. ASSUME NEW tb \in TableType, FreeList(tb)
                PROVE  /\ tb.next \in Nat /\ tb.next > 0 /\ Len(tb.slots) \in Nat /\ tb.next <= Len(tb.slots) + 1
                       /\ Linked(tb) \in Seq(Slots)
                       /\ Len(Linked(tb)) = IF tb.next = Len(tb.slots) + 1 THEN tb.next ELSE Len(tb.slots)
                       /\ tb.next \in DOMAIN Linked(tb)
                       /\ Linked(tb)[tb.next].kind = "free"
                       /\ Linked(tb)[tb.next].next \in Nat
                       /\ \A h0 \in DOMAIN tb.slots : Linked(tb)[h0] = tb.slots[h0]
                       /\ tb.next = Len(tb.slots) + 1 => Linked(tb)[tb.next].next = tb.next + 1
  <2> USE <1>LinkedFacts
  <2>1. /\ tb.slots \in Seq(Slots) /\ tb.next \in Nat /\ Len(tb.slots) \in Nat
        /\ DOMAIN tb.slots = 1..Len(tb.slots)
    BY DEF TableType
  <2>2. tb.next \in Vacant(tb) \/ tb.next = Len(tb.slots) + 1
    BY DEF FreeList
  <2>3. CASE tb.next = Len(tb.slots) + 1
    <3> DEFINE e == Free(tb.next + 1)
    <3>1. e \in Slots /\ e.kind = "free" /\ e.next = tb.next + 1
      BY <2>1 DEF Free, Slots, FreeSlots
    <3> HIDE DEF e
    <3>2. Linked(tb) = Append(tb.slots, e)
      BY <2>3 DEF Linked, e
    <3> QED
      BY <2>1, <2>3, <3>1, <3>2
  <2>4. CASE tb.next \in Vacant(tb)
    <3>1. tb.next \in 1..Len(tb.slots) /\ tb.slots[tb.next].kind = "free"
      BY <2>1, <2>4 DEF Vacant
    <3>2. Linked(tb) = tb.slots
      BY <2>1, <3>1 DEF Linked
    <3>3. tb.slots[tb.next] \in FreeSlots
      <4>1. tb.slots[tb.next] \in Slots
        BY <2>1, <3>1
      <4> QED
        BY <4>1, <3>1 DEF Slots, InUse, FreeSlots, OwnSlots, BorrowSlots
    <3>4. tb.slots[tb.next].next \in Nat
      BY <3>3 DEF FreeSlots
    <3> QED
      BY <2>1, <3>1, <3>2, <3>4
  <2> QED
    BY <2>2, <2>3, <2>4
\* Filling the first free slot keeps the free list.
<1>FilledFacts. ASSUME NEW tb \in TableType, FreeList(tb), NEW slot0 \in InUse
                PROVE  /\ Filled(tb, slot0) \in TableType
                       /\ FreeList(Filled(tb, slot0))
                       /\ DOMAIN Filled(tb, slot0).slots = DOMAIN tb.slots \cup {tb.next}
                       /\ Len(Filled(tb, slot0).slots) = IF tb.next = Len(tb.slots) + 1 THEN tb.next ELSE Len(tb.slots)
                       /\ Filled(tb, slot0).slots[tb.next] = slot0 /\ slot0.kind # "free"
                       /\ tb.next \notin DOMAIN tb.slots \/ tb.slots[tb.next].kind = "free"
                       /\ \A h0 \in DOMAIN tb.slots \ {tb.next} : Filled(tb, slot0).slots[h0] = tb.slots[h0]
  <2> USE <1>FilledFacts
  <2> DEFINE n0 == tb.next
             L == Linked(tb)
             T == Filled(tb, slot0)
  <2>1. /\ tb.slots \in Seq(Slots) /\ Len(tb.slots) \in Nat /\ DOMAIN tb.slots = 1..Len(tb.slots)
        /\ slot0 \in Slots /\ slot0.kind # "free"
    BY DEF TableType, Slots, InUse, OwnSlots, BorrowSlots
  <2>2. /\ n0 \in Nat /\ n0 > 0 /\ L \in Seq(Slots) /\ n0 \in DOMAIN L /\ L[n0].kind = "free" /\ L[n0].next \in Nat
        /\ Len(L) = IF n0 = Len(tb.slots) + 1 THEN n0 ELSE Len(tb.slots)
        /\ \A h0 \in DOMAIN tb.slots : L[h0] = tb.slots[h0]
        /\ n0 <= Len(tb.slots) + 1
        /\ n0 = Len(tb.slots) + 1 => L[n0].next = n0 + 1
    BY <1>LinkedFacts
  <2>3. T.next = L[n0].next /\ T.slots = [L EXCEPT ![n0] = slot0]
    BY DEF Filled
  <2>4. T = [next |-> T.next, slots |-> T.slots]
    BY DEF Filled
  <2> HIDE DEF n0, L, T
  <2>5. T.slots \in Seq(Slots) /\ Len(T.slots) = Len(L) /\ DOMAIN T.slots = 1..Len(L) /\ T.slots[n0] = slot0
    BY <2>1, <2>2, <2>3
  <2>6. T \in TableType
    BY <2>2, <2>3, <2>4, <2>5, Zenon DEF TableType
  <2>7. \A h0 \in DOMAIN tb.slots \ {n0} : T.slots[h0] = tb.slots[h0]
    BY <2>1, <2>2, <2>3
  <2>8. DOMAIN T.slots = DOMAIN tb.slots \cup {n0}
    BY <2>1, <2>2, <2>5
  <2>9. Vacant(T) = Vacant(tb) \ {n0}
    BY <2>1, <2>5, <2>7, <2>8 DEF Vacant
  <2>10. n0 \notin DOMAIN tb.slots \/ tb.slots[n0].kind = "free"
    BY <2>2
  <2>11. /\ n0 \in Vacant(tb) \cup {Len(tb.slots) + 1}
         /\ \A h0 \in Vacant(tb) : tb.slots[h0].next \in Vacant(tb) \cup {Len(tb.slots) + 1} /\ tb.slots[h0].next # n0
         /\ \A g, h0 \in Vacant(tb) : tb.slots[g].next = tb.slots[h0].next => g = h0
    BY DEF FreeList, n0
  <2>12. Vacant(tb) \subseteq DOMAIN tb.slots
    BY DEF Vacant
  <2>13. FreeList(T)
    <3>1. \A h0 \in Vacant(T) : T.slots[h0].next = tb.slots[h0].next
      BY <2>7, <2>9, <2>12
    <3>2. CASE n0 = Len(tb.slots) + 1
      <4>1. Len(T.slots) = n0 /\ T.next = n0 + 1
        BY <2>2, <2>3, <2>5, <3>2
      <4>2. \A h0 \in Vacant(T) : tb.slots[h0].next \in Vacant(tb) /\ tb.slots[h0].next # n0
        BY <2>9, <2>11, <3>2
      <4>3. \A h0 \in Vacant(T) : T.slots[h0].next \in Vacant(T) /\ T.slots[h0].next # T.next
        <5> SUFFICES ASSUME NEW h0 \in Vacant(T) PROVE T.slots[h0].next \in Vacant(T) /\ T.slots[h0].next # T.next
          OBVIOUS
        <5>1. T.slots[h0].next \in Vacant(tb) /\ T.slots[h0].next # n0
          BY <3>1, <4>2
        <5>2. T.slots[h0].next \in 1..Len(tb.slots)
          BY <5>1, <2>12, <2>1, Zenon
        <5> QED
          BY <5>1, <5>2, <4>1, <2>9, <3>2, <2>1
      <4> QED
        BY <4>1, <4>3, <3>1, <2>9, <2>11 DEF FreeList
    <3>3. CASE n0 # Len(tb.slots) + 1
      <4>1. n0 \in Vacant(tb) /\ Len(T.slots) = Len(tb.slots) /\ T.next = tb.slots[n0].next
        BY <2>2, <2>3, <2>5, <2>11, <2>12, <3>3, Zenon
      <4>2. T.next \in Vacant(T) \cup {Len(T.slots) + 1}
        BY <4>1, <2>9, <2>11, Zenon
      <4>3. \A h0 \in Vacant(T) : T.slots[h0].next \in Vacant(T) \cup {Len(T.slots) + 1} /\ T.slots[h0].next # T.next
        BY <4>1, <3>1, <2>9, <2>11, Zenon
      <4> QED
        BY <4>2, <4>3, <3>1, <2>9, <2>11, Zenon DEF FreeList
    <3> QED
      BY <3>2, <3>3
  <2> QED
    BY <2>1, <2>2, <2>5, <2>6, <2>7, <2>8, <2>10, <2>13, Zenon DEF n0, T
<1> DEFINE tb == s.tables[t]
           T == Filled(tb, slot)
<1>1. tb \in TableType /\ FreeList(tb) /\ tb.slots \in Seq(Slots) /\ \A g \in DOMAIN tb.slots : g < MAX_RESOURCE_HANDLE
  BY StateFields, Zenon
<1>2. /\ h \in Nat /\ h > 0 /\ Len(tb.slots) \in Nat /\ h <= Len(tb.slots) + 1
      /\ Linked(tb)[h].kind = "free"
  BY <1>1, <1>LinkedFacts, SMTT(30)
<1>3. /\ T \in TableType /\ FreeList(T) /\ DOMAIN T.slots = DOMAIN tb.slots \cup {h}
      /\ Len(T.slots) = IF h = Len(tb.slots) + 1 THEN h ELSE Len(tb.slots)
      /\ T.slots[h] = slot /\ slot.kind # "free"
      /\ h \notin DOMAIN tb.slots \/ tb.slots[h].kind = "free"
      /\ \A g \in DOMAIN tb.slots \ {h} : T.slots[g] = tb.slots[g]
  BY <1>1, <1>FilledFacts, ZenonT(30)
<1>4. insert(s, t, slot) = IF h >= MAX_RESOURCE_HANDLE THEN Err(n) ELSE Ok(n, h)
  <2>1. insert(s, t, slot) = IF Linked(tb)[h].kind # "free" THEN Panic(s)
                             ELSE IF h >= MAX_RESOURCE_HANDLE THEN Err(n) ELSE Ok(n, h)
    BY Zenon DEF insert, Put, Replace, Filled, Linked
  <2> QED
    BY <2>1, <1>2, Zenon
<1> HIDE DEF T
<1>5. /\ n \in State /\ n.tables[t] = T /\ \A u \in Tables \ {t} : n.tables[u] = s.tables[u]
      /\ n.scopes = s.scopes /\ n.cur_generation = s.cur_generation /\ n.metadata = s.metadata
  BY <1>3, NewTable, SMTT(30) DEF Put, T
<1>6. h < MAX_RESOURCE_HANDLE => \A u \in Tables : TableOK(n.tables[u])
  <2>1. \A u \in Tables : TableOK(s.tables[u])
    BY DEF StateOK
  <2> QED
    BY <1>1, <1>3, <1>5, <2>1 DEF TableOK
<1>7. <<t, h>> \in Places /\ <<t, h>> \notin DOMAIN Live(s)
  <2>1. ~Used(s, t, h)
    BY <1>3 DEF Used
  <2> QED
    BY <2>1, <1>2, UsedFacts, Zenon
<1>8. Live(n) = With(Live(s), <<t, h>>, slot)
  <2> DEFINE p == <<t, h>>
             g == With(Live(s), p, slot)
  <2>1. g = [q \in DOMAIN g |-> g[q]] /\ DOMAIN g = DOMAIN Live(s) \cup {p} /\ DOMAIN g \in SUBSET Places
    BY <1>7, LiveFacts DEF With
  <2>2. g[p] = slot /\ \A q \in DOMAIN Live(s) \ {p} : g[q] = Live(s)[q]
    BY DEF With
  <2> HIDE DEF g
  <2>3. ASSUME NEW u \in Tables, NEW k \in Nat
        PROVE  /\ Used(n, u, k) <=> <<u, k>> \in DOMAIN g
               /\ Used(n, u, k) => SlotAt(n, u, k) = g[<<u, k>>]
    <3>1. /\ Used(s, u, k) <=> <<u, k>> \in DOMAIN Live(s)
          /\ Used(s, u, k) => SlotAt(s, u, k) = Live(s)[<<u, k>>]
      BY UsedFacts
    <3>2. CASE u = t /\ k = h
      <4>1. Used(n, t, h) /\ SlotAt(n, t, h) = slot
        BY <1>3, <1>5 DEF Used, SlotAt
      <4> QED
        BY <4>1, <3>2, <2>1, <2>2, Zenon
    <3>3. CASE ~(u = t /\ k = h)
      <4>1. <<u, k>> # p
        BY <3>3
      <4>2. /\ Used(n, u, k) <=> Used(s, u, k)
            /\ Used(s, u, k) => SlotAt(n, u, k) = SlotAt(s, u, k)
        <5>1. CASE u = t
          <6>1. k # h
            BY <3>3, <5>1, Zenon
          <6>2. k \in DOMAIN T.slots <=> k \in DOMAIN tb.slots
            BY <1>3, <6>1, Zenon
          <6>3. k \in DOMAIN tb.slots => T.slots[k] = tb.slots[k]
            BY <1>3, <6>1, Zenon
          <6> QED
            BY <6>2, <6>3, <5>1, <1>5, Zenon DEF Used, SlotAt
        <5>2. CASE u # t
          BY <5>2, <1>5 DEF Used, SlotAt
        <5> QED
          BY <5>1, <5>2, Zenon
      <4> HIDE DEF p
      <4> QED
        BY <4>1, <4>2, <3>1, <2>1, <2>2
    <3> QED
      BY <3>2, <3>3
  <2> QED
    BY <2>1, <2>3, LiveSame, SMTT(30) DEF g
<1>9. Host \in Tables /\ Len(s.metadata) = Len(s.tables[Host].slots)
  BY StateFields DEF Tables
<1>10. h < MAX_RESOURCE_HANDLE /\ t # Host => StateOK(n)
  BY <1>5, <1>6, <1>9, Zenon DEF StateOK
<1>11. t = Host => /\ h <= Len(s.metadata) + 1 /\ Len(s.metadata) \in Nat
                   /\ h >= MAX_RESOURCE_HANDLE => h \notin DOMAIN s.metadata
                   /\ Len(n.tables[Host].slots) = IF h = Len(s.metadata) + 1 THEN h ELSE Len(s.metadata)
  <2>1. DOMAIN tb.slots = 1..Len(tb.slots) /\ DOMAIN s.metadata = 1..Len(s.metadata)
    BY <1>1, StateFields
  <2>2. h >= MAX_RESOURCE_HANDLE => h \notin DOMAIN tb.slots
    BY <1>1, <1>2, ResourceAssumption, SMTT(30)
  <2> QED
    BY <1>2, <1>3, <1>5, <1>9, <2>1, <2>2, ZenonT(30)
<1> QED
  BY <1>2, <1>4, <1>5, <1>6, <1>7, <1>8, <1>10, <1>11, Zenon

\* remove takes a slot in use out of the map.
LEMMA RemoveFacts ==
    ASSUME NEW s, StateOK(s), NEW t \in Tables, NEW h \in Nat, Used(s, t, h), NEW n, n = Take(s, t, h)
    PROVE  /\ remove(s, t, h) = Ok(n, Live(s)[<<t, h>>])
           /\ StateOK(n) /\ <<t, h>> \in DOMAIN Live(s)
           /\ Live(n) = Minus(Live(s), <<t, h>>)
           /\ n.scopes = s.scopes /\ n.cur_generation = s.cur_generation /\ n.metadata = s.metadata
\* Emptying a slot in use puts it at the head of the free list.
<1>EmptiedFacts. ASSUME NEW tb \in TableType, FreeList(tb), NEW h0 \in DOMAIN tb.slots, tb.slots[h0].kind # "free"
                 PROVE  /\ Emptied(tb, h0) \in TableType
                        /\ FreeList(Emptied(tb, h0))
                        /\ DOMAIN Emptied(tb, h0).slots = DOMAIN tb.slots
                        /\ Len(Emptied(tb, h0).slots) = Len(tb.slots)
                        /\ Emptied(tb, h0).slots[h0].kind = "free"
                        /\ \A g \in DOMAIN tb.slots \ {h0} : Emptied(tb, h0).slots[g] = tb.slots[g]
  <2> USE <1>EmptiedFacts
  <2> DEFINE T == Emptied(tb, h0)
             e == Free(tb.next)
  <2>1. /\ tb.slots \in Seq(Slots) /\ tb.next \in Nat /\ Len(tb.slots) \in Nat
        /\ DOMAIN tb.slots = 1..Len(tb.slots)
    BY DEF TableType
  <2>2. e \in Slots /\ e.kind = "free" /\ e.next = tb.next
    BY <2>1 DEF Free, Slots, FreeSlots
  <2>3. T.next = h0 /\ T.slots = [tb.slots EXCEPT ![h0] = e] /\ T = [next |-> h0, slots |-> T.slots]
    BY DEF Emptied
  <2> HIDE DEF T, e
  <2>4. /\ T.slots \in Seq(Slots) /\ Len(T.slots) = Len(tb.slots) /\ DOMAIN T.slots = DOMAIN tb.slots
        /\ T.slots[h0] = e /\ \A g \in DOMAIN tb.slots \ {h0} : T.slots[g] = tb.slots[g]
    BY <2>1, <2>2, <2>3
  <2>5. T \in TableType
    BY <2>1, <2>3, <2>4 DEF TableType
  <2>6. Vacant(T) = Vacant(tb) \cup {h0} /\ h0 \notin Vacant(tb) /\ Vacant(tb) \subseteq DOMAIN tb.slots
    BY <2>2, <2>4 DEF Vacant
  <2>7. /\ tb.next \in Vacant(tb) \cup {Len(tb.slots) + 1}
        /\ \A g \in Vacant(tb) : tb.slots[g].next \in Vacant(tb) \cup {Len(tb.slots) + 1} /\ tb.slots[g].next # tb.next
        /\ \A f, g \in Vacant(tb) : tb.slots[f].next = tb.slots[g].next => f = g
    BY DEF FreeList
  <2>8. h0 # Len(tb.slots) + 1 /\ tb.next # h0
    BY <2>1, <2>6, <2>7
  <2>9. T.slots[h0].next = tb.next /\ \A g \in Vacant(tb) : T.slots[g].next = tb.slots[g].next /\ tb.slots[g].next # h0
    BY <2>2, <2>4, <2>6, <2>7, <2>8
  <2>10. FreeList(T)
    BY <2>3, <2>4, <2>6, <2>7, <2>8, <2>9 DEF FreeList
  <2> QED
    BY <2>2, <2>4, <2>5, <2>10 DEF T
<1> DEFINE tb == s.tables[t]
           T == Emptied(tb, h)
           p == <<t, h>>
           g == Minus(Live(s), p)
<1>1. /\ tb \in TableType /\ FreeList(tb) /\ h \in DOMAIN tb.slots /\ tb.slots[h].kind # "free"
      /\ \A k \in DOMAIN tb.slots : k < MAX_RESOURCE_HANDLE
  BY StateFields, Zenon DEF Used
<1>2. /\ T \in TableType /\ FreeList(T) /\ DOMAIN T.slots = DOMAIN tb.slots /\ Len(T.slots) = Len(tb.slots)
      /\ T.slots[h].kind = "free" /\ \A k \in DOMAIN tb.slots \ {h} : T.slots[k] = tb.slots[k]
  BY <1>1, <1>EmptiedFacts, Zenon
<1>3. p \in Places /\ p \in DOMAIN Live(s) /\ SlotAt(s, t, h) = Live(s)[p]
  BY UsedFacts
<1>4. remove(s, t, h) = Ok(n, Live(s)[p])
  BY <1>3, Zenon DEF remove, Take, Replace, Emptied
<1> HIDE DEF T, p
<1>5. /\ n \in State /\ n.tables[t] = T /\ \A u \in Tables \ {t} : n.tables[u] = s.tables[u]
      /\ n.scopes = s.scopes /\ n.cur_generation = s.cur_generation /\ n.metadata = s.metadata
  BY <1>2, NewTable DEF Take, T
<1>6. StateOK(n)
  <2>1. Host \in Tables /\ Len(s.metadata) = Len(s.tables[Host].slots)
    BY StateFields, Zenon DEF Tables
  <2>2. \A u \in Tables : TableOK(n.tables[u])
    BY <1>1, <1>2, <1>5, Zenon DEF TableOK, StateOK
  <2>3. Len(n.tables[Host].slots) = Len(s.tables[Host].slots)
    BY <2>1, <1>2, <1>5
  <2> QED
    BY <2>1, <2>2, <2>3, <1>5 DEF StateOK
<1>7. g = [q \in DOMAIN g |-> g[q]] /\ DOMAIN g = DOMAIN Live(s) \ {p} /\ DOMAIN g \in SUBSET Places
      /\ \A q \in DOMAIN Live(s) \ {p} : g[q] = Live(s)[q]
  BY LiveFacts DEF Minus
<1> HIDE DEF g
<1>8. ASSUME NEW u \in Tables, NEW k \in Nat
      PROVE  /\ Used(n, u, k) <=> <<u, k>> \in DOMAIN g
             /\ Used(n, u, k) => SlotAt(n, u, k) = g[<<u, k>>]
  <2>1. /\ Used(s, u, k) <=> <<u, k>> \in DOMAIN Live(s)
        /\ Used(s, u, k) => SlotAt(s, u, k) = Live(s)[<<u, k>>]
    BY UsedFacts
  <2>2. CASE u = t /\ k = h
    <3>1. ~Used(n, t, h)
      BY <1>2, <1>5 DEF Used
    <3> QED
      BY <3>1, <2>2, <1>7, Zenon DEF p
  <2>3. CASE ~(u = t /\ k = h)
    <3>1. <<u, k>> # p
      BY <2>3 DEF p
    <3>2. /\ Used(n, u, k) <=> Used(s, u, k)
          /\ Used(s, u, k) => SlotAt(n, u, k) = SlotAt(s, u, k)
      <4>1. CASE u = t
        <5>1. k \in DOMAIN tb.slots => T.slots[k] = tb.slots[k]
          BY <1>2, <2>3, <4>1, Zenon
        <5> QED
          BY <5>1, <4>1, <1>2, <1>5, Zenon DEF Used, SlotAt
      <4>2. CASE u # t
        BY <4>2, <1>5 DEF Used, SlotAt
      <4> QED
        BY <4>1, <4>2, Zenon
    <3> QED
      BY <3>1, <3>2, <2>1, <1>7
  <2> QED
    BY <2>2, <2>3
<1>9. Live(n) = g
  BY <1>7, <1>8, LiveSame
<1> QED
  BY <1>3, <1>4, <1>5, <1>6, <1>9, Zenon DEF g, p

Rescope(s, sc) == [s EXCEPT !.scopes = sc]
Recounted(tb, h, c) == [tb EXCEPT !.slots = [tb.slots EXCEPT ![h] = [tb.slots[h] EXCEPT !.count = c]]]
Reslot(s, t, h, c) == Replace(s, t, Recounted(s.tables[t], h, c))

\* A change of the scopes leaves the tables alone.
LEMMA RescopeFacts ==
    ASSUME NEW s, StateOK(s), NEW sc \in Seq(ScopeType), NEW n, n = Rescope(s, sc)
    PROVE  /\ StateOK(n) /\ Live(n) = Live(s) /\ n.scopes = sc /\ n.tables = s.tables
           /\ n.cur_generation = s.cur_generation /\ n.metadata = s.metadata
<1>1. /\ s = [tables |-> s.tables, scopes |-> s.scopes, cur_generation |-> s.cur_generation,
              metadata |-> s.metadata]
      /\ s.tables \in [Tables -> TableType] /\ s.cur_generation \in Nat /\ s.metadata \in Seq(Nat)
  BY StateFields
<1>2. n = [tables |-> s.tables, scopes |-> sc, cur_generation |-> s.cur_generation, metadata |-> s.metadata]
  BY <1>1, Zenon DEF Rescope
<1>3. /\ n \in State /\ n.scopes = sc /\ n.tables = s.tables
      /\ n.cur_generation = s.cur_generation /\ n.metadata = s.metadata
  BY <1>1, <1>2 DEF State
<1>4. Live(n) = Live(s)
  BY <1>3 DEF Live, Used, SlotAt
<1> QED
  BY <1>3, <1>4 DEF StateOK

\* A change of a lend_count, likewise.
LEMMA ReslotFacts ==
    ASSUME NEW s, StateOK(s), NEW t \in Tables, NEW h \in Nat, NEW c \in Nat,
           <<t, h>> \in Owned(Live(s)), NEW n, n = Reslot(s, t, h, c)
    PROVE  /\ StateOK(n) /\ Live(n) = Counted(Live(s), <<t, h>>, c)
           /\ n.scopes = s.scopes /\ n.cur_generation = s.cur_generation /\ n.metadata = s.metadata
<1> DEFINE tb == s.tables[t]
           e == [tb.slots[h] EXCEPT !.count = c]
           T == Recounted(tb, h, c)
           p == <<t, h>>
           g == Counted(Live(s), p, c)
<1>1. p \in DOMAIN Live(s) /\ Live(s)[p].kind = "own"
  BY DEF Owned
<1>2. Used(s, t, h) /\ SlotAt(s, t, h) = Live(s)[p]
  BY <1>1, UsedFacts
<1>3. /\ tb \in TableType /\ FreeList(tb) /\ h \in DOMAIN tb.slots /\ tb.slots \in Seq(Slots)
      /\ tb.slots[h] = Live(s)[p] /\ tb.slots[h] \in Slots
      /\ \A k \in DOMAIN tb.slots : k < MAX_RESOURCE_HANDLE
  BY <1>2, StateFields, Zenon DEF Used, SlotAt
<1>4. tb.slots[h] \in OwnSlots
  BY <1>1, <1>3, Zenon DEF Slots, InUse, FreeSlots, BorrowSlots
<1>5. e \in OwnSlots /\ e \in Slots /\ e.kind = "own"
  BY <1>4, Zenon DEF OwnSlots, Slots, InUse
<1>6. T = [next |-> tb.next, slots |-> [tb.slots EXCEPT ![h] = e]]
  <2> DEFINE q == [tb.slots EXCEPT ![h] = e]
  <2>1. tb = [next |-> tb.next, slots |-> tb.slots]
    BY <1>3 DEF TableType
  <2>2. T = [tb EXCEPT !.slots = q]
    BY Zenon DEF Recounted
  <2> HIDE DEF q, T
  <2> QED
    BY <2>1, <2>2, Zenon DEF q
<1> HIDE DEF e
<1>7. /\ T \in TableType /\ T.next = tb.next /\ DOMAIN T.slots = DOMAIN tb.slots /\ Len(T.slots) = Len(tb.slots)
      /\ T.slots[h] = e /\ \A k \in DOMAIN tb.slots \ {h} : T.slots[k] = tb.slots[k]
  <2>1. tb.next \in Nat
    BY <1>3, Zenon DEF TableType
  <2> DEFINE q == [tb.slots EXCEPT ![h] = e]
  <2>2. q \in Seq(Slots) /\ DOMAIN q = DOMAIN tb.slots /\ Len(q) = Len(tb.slots)
        /\ q[h] = e /\ \A k \in DOMAIN tb.slots \ {h} : q[k] = tb.slots[k]
    BY <1>3, <1>5, SMTT(30)
  <2>3. T = [next |-> tb.next, slots |-> q]
    BY <1>6, Zenon
  <2> HIDE DEF q, T
  <2>4. T.next = tb.next /\ T.slots = q /\ T \in TableType
    BY <2>1, <2>2, <2>3, SMTT(30) DEF TableType
  <2> QED
    BY <2>2, <2>4
<1>8. Vacant(T) = Vacant(tb) /\ \A k \in Vacant(tb) : T.slots[k] = tb.slots[k]
  BY <1>3, <1>4, <1>5, <1>7, ZenonT(30) DEF Vacant, OwnSlots
<1>9. FreeList(T)
  BY <1>3, <1>7, <1>8, Zenon DEF FreeList
<1>10. /\ n \in State /\ n.tables[t] = T /\ \A u \in Tables \ {t} : n.tables[u] = s.tables[u]
       /\ n.scopes = s.scopes /\ n.cur_generation = s.cur_generation /\ n.metadata = s.metadata
  BY <1>7, NewTable DEF Reslot
<1> HIDE DEF T
<1>11. StateOK(n)
  <2>1. Host \in Tables /\ Len(s.metadata) = Len(s.tables[Host].slots)
    BY StateFields, Zenon DEF Tables
  <2>2. \A u \in Tables : TableOK(n.tables[u])
    BY <1>3, <1>7, <1>9, <1>10, Zenon DEF TableOK, StateOK
  <2>3. Len(n.tables[Host].slots) = Len(s.tables[Host].slots)
    BY <2>1, <1>7, <1>10, Zenon
  <2> QED
    BY <2>1, <2>2, <2>3, <1>10 DEF StateOK
<1> HIDE DEF p
<1>12. /\ g = [q \in DOMAIN g |-> g[q]] /\ DOMAIN g = DOMAIN Live(s) /\ DOMAIN g \in SUBSET Places
       /\ \A q \in DOMAIN Live(s) \ {p} : g[q] = Live(s)[q]
       /\ g[p] = e
  <2>1. Live(s)[p] = tb.slots[h]
    BY <1>3
  <2>2. e = [Live(s)[p] EXCEPT !.count = c]
    BY <2>1 DEF e
  <2>3. g = With(Live(s), p, e)
    BY <2>2, Zenon DEF Counted
  <2> HIDE DEF g
  <2> QED
    BY <1>1, <2>3, LiveFacts DEF With
<1> HIDE DEF g
<1>13. ASSUME NEW u \in Tables, NEW k \in Nat
      PROVE  /\ Used(n, u, k) <=> <<u, k>> \in DOMAIN g
             /\ Used(n, u, k) => SlotAt(n, u, k) = g[<<u, k>>]
  <2>1. /\ Used(s, u, k) <=> <<u, k>> \in DOMAIN Live(s)
        /\ Used(s, u, k) => SlotAt(s, u, k) = Live(s)[<<u, k>>]
    BY UsedFacts
  <2>2. CASE u = t /\ k = h
    <3>1. Used(n, t, h) /\ SlotAt(n, t, h) = e
      BY <1>3, <1>5, <1>7, <1>10, Zenon DEF Used, SlotAt
    <3> QED
      BY <3>1, <2>2, <1>1, <1>12, Zenon DEF p
  <2>3. CASE ~(u = t /\ k = h)
    <3>1. <<u, k>> # p
      BY <2>3 DEF p
    <3>2. /\ Used(n, u, k) <=> Used(s, u, k)
          /\ Used(s, u, k) => SlotAt(n, u, k) = SlotAt(s, u, k)
      <4>1. CASE u = t
        <5>1. k \in DOMAIN tb.slots => T.slots[k] = tb.slots[k]
          BY <1>7, <2>3, <4>1, ZenonT(30)
        <5> QED
          BY <5>1, <4>1, <1>7, <1>10, Zenon DEF Used, SlotAt
      <4>2. CASE u # t
        BY <4>2, <1>10 DEF Used, SlotAt
      <4> QED
        BY <4>1, <4>2, Zenon
    <3> QED
      BY <3>1, <3>2, <2>1, <1>12
  <2> QED
    BY <2>2, <2>3, Zenon
<1>14. Live(n) = g
  BY <1>12, <1>13, LiveSame, SMTT(30)
<1> QED
  BY <1>10, <1>11, <1>14 DEF g, p

-----------------------------------------------------------------------------
(* The operations on the handles *)

\* What is known of the host's handles depends on the host's table only.
LEMMA GivenKept ==
    ASSUME NEW f, NEW md, NEW cur, NEW G, GivenOK(f, md, cur, G), NEW g,
           \A h \in Nat : /\ <<Host, h>> \in DOMAIN g <=> <<Host, h>> \in DOMAIN f
                          /\ <<Host, h>> \in DOMAIN f => /\ g[<<Host, h>>].rep = f[<<Host, h>>].rep
                                                         /\ g[<<Host, h>>].kind = f[<<Host, h>>].kind
    PROVE  GivenOK(g, md, cur, G)
<1> SUFFICES ASSUME NEW any \in G
             PROVE  /\ any \in Anys
                    /\ any.idx \in DOMAIN md /\ any.gen <= md[any.idx] /\ md[any.idx] <= cur
                    /\ any.gen = cur => <<Host, any.idx>> \in DOMAIN g
                    /\ md[any.idx] = any.gen /\ <<Host, any.idx>> \in DOMAIN g =>
                          /\ g[<<Host, any.idx>>].rep = any.rep
                          /\ (g[<<Host, any.idx>>].kind = "own") = any.owned
  BY Zenon DEF GivenOK
<1>1. /\ any \in Anys
      /\ any.idx \in DOMAIN md /\ any.gen <= md[any.idx] /\ md[any.idx] <= cur
      /\ any.gen = cur => <<Host, any.idx>> \in DOMAIN f
      /\ md[any.idx] = any.gen /\ <<Host, any.idx>> \in DOMAIN f =>
            /\ f[<<Host, any.idx>>].rep = any.rep
            /\ (f[<<Host, any.idx>>].kind = "own") = any.owned
  BY DEF GivenOK
<1>2. any.idx \in Nat
  BY <1>1, Zenon DEF Anys
<1> DEFINE p == <<Host, any.idx>>
<1>3. /\ p \in DOMAIN g <=> p \in DOMAIN f
      /\ p \in DOMAIN f => g[p].rep = f[p].rep /\ g[p].kind = f[p].kind
  BY <1>2, Zenon
<1> HIDE DEF p
<1>4. /\ any.gen = cur => p \in DOMAIN f
      /\ md[any.idx] = any.gen /\ p \in DOMAIN f => f[p].rep = any.rep /\ (f[p].kind = "own") = any.owned
  BY <1>1, Zenon DEF p
<1>5. /\ any.gen = cur => p \in DOMAIN g
      /\ md[any.idx] = any.gen /\ p \in DOMAIN g => g[p].rep = any.rep /\ (g[p].kind = "own") = any.owned
  BY <1>3, <1>4
<1> QED
  BY <1>1, <1>5, Zenon DEF p

\* An instance's table is not the host's.
LEMMA GivenElsewhere ==
    ASSUME NEW f, NEW md, NEW cur, NEW G, GivenOK(f, md, cur, G), NEW t \in Instances, NEW h, NEW slot
    PROVE  /\ GivenOK(With(f, <<t, h>>, slot), md, cur, G)
           /\ GivenOK(Minus(f, <<t, h>>), md, cur, G)
<1> DEFINE p == <<t, h>>
<1>1. \A k : <<Host, k>> # p
  BY ResourceAssumption
<1> HIDE DEF p
<1>2. \A q : q # p => /\ q \in DOMAIN With(f, p, slot) <=> q \in DOMAIN f
                      /\ q \in DOMAIN f => With(f, p, slot)[q] = f[q]
  BY DEF With
<1>3. \A q : q # p => /\ q \in DOMAIN Minus(f, p) <=> q \in DOMAIN f
                      /\ q \in DOMAIN f => Minus(f, p)[q] = f[q]
  BY DEF Minus
<1>4. GivenOK(With(f, p, slot), md, cur, G)
  BY <1>1, <1>2, GivenKept, Zenon
<1>5. GivenOK(Minus(f, p), md, cur, G)
  BY <1>1, <1>3, GivenKept
<1> QED
  BY <1>4, <1>5 DEF p

\* A lend_count is not part of what a handle stands for.
LEMMA GivenCounted ==
    ASSUME NEW f \in Maps, NEW md, NEW cur, NEW G, GivenOK(f, md, cur, G), NEW p \in Owned(f), NEW c \in Nat
    PROVE  GivenOK(Counted(f, p, c), md, cur, G)
<1> DEFINE g == Counted(f, p, c)
<1>1. DOMAIN g = DOMAIN f /\ \A q \in DOMAIN f : g[q].rep = f[q].rep /\ g[q].kind = f[q].kind
  <2>1. OnlyCount(f, p, c, g)
    BY CountedFacts, Zenon
  <2> HIDE DEF g
  <2> QED
    BY <2>1, Zenon DEF OnlyCount
<1> HIDE DEF g
<1>2. GivenOK(g, md, cur, G)
  BY <1>1, GivenKept
<1> QED
  BY <1>2, Zenon DEF g

\* Lowering a slot into the table of an instance.
LEMMA InsertFine ==
    ASSUME NEW s, StateOK(s), NEW t \in Instances, NEW slot \in InUse, NEW G, GivenIn(s, G), NEW O, NEW W,
           CallsOK(With(Live(s), <<t, s.tables[t].next>>, slot), s.scopes, O, W)
    PROVE  Fine(insert(s, t, slot), O, W, G, Len(s.scopes))
<1> DEFINE h == s.tables[t].next
           n == Put(s, t, slot)
           f == With(Live(s), <<t, h>>, slot)
<1>1. t \in Tables /\ t # Host
  BY ResourceAssumption, Zenon DEF Tables
<1>2. /\ insert(s, t, slot) = IF h >= MAX_RESOURCE_HANDLE THEN Err(n) ELSE Ok(n, h)
      /\ h \in Nat /\ Live(n) = f
      /\ n.scopes = s.scopes /\ n.cur_generation = s.cur_generation /\ n.metadata = s.metadata
      /\ h < MAX_RESOURCE_HANDLE => StateOK(n)
  BY <1>1, InsertFacts, SMTT(30)
<1>3. GivenOK(f, s.metadata, s.cur_generation, G)
  BY GivenElsewhere DEF GivenIn
<1> HIDE DEF h, n, f
<1>4. GivenIn(n, G)
  BY <1>2, <1>3 DEF GivenIn
<1>5. CASE h >= MAX_RESOURCE_HANDLE
  BY <1>2, <1>4, <1>5 DEF Fine, Err
<1>6. CASE ~(h >= MAX_RESOURCE_HANDLE)
  <2>1. h < MAX_RESOURCE_HANDLE
    BY <1>2, <1>6, ResourceAssumption
  <2>2. Good(n, O, W, G, Len(s.scopes))
    BY <2>1, <1>2, <1>4 DEF Good, f, h
  <2> QED
    BY <2>2, <1>2, <1>4, <1>6 DEF Fine, Ok
<1> QED
  BY <1>5, <1>6

\* resource_new and resource_lower_own: a rep without an owner gets one.
LEMMA LowerOwnFine ==
    ASSUME NEW s, NEW O, NEW W, NEW G, NEW D, Good(s, O, W, G, D), NEW t \in Instances, NEW r \in Nat \ O
    PROVE  /\ Fine(resource_lower_own(s, t, r), O \cup {r}, W, G, D)
           /\ Fine(resource_new(s, t, r), O \cup {r}, W, G, D)
<1> DEFINE h == s.tables[t].next
<1>1. StateOK(s) /\ Len(s.scopes) = D /\ CallsOK(Live(s), s.scopes, O, W) /\ GivenIn(s, G)
  BY DEF Good
<1>2. Own(r) \in InUse
  BY DEF Own, OwnSlots, InUse
<1>3. t \in Tables
  BY Zenon DEF Tables
<1>4. <<t, h>> \in Places \ DOMAIN Live(s)
  BY <1>1, <1>2, <1>3, InsertFacts, Zenon
<1>5. CallsOK(With(Live(s), <<t, h>>, Own(r)), s.scopes, O \cup {r}, W)
  BY <1>1, <1>4, AddOwn, SMTT(30)
<1>6. Fine(insert(s, t, Own(r)), O \cup {r}, W, G, D)
  BY <1>1, <1>2, <1>5, InsertFine, Zenon
<1> QED
  BY <1>6 DEF resource_lower_own, resource_new

\* Taking a slot out of a table keeps what is known of the host's handles, when the
\* generation has changed if the table is the host's.
LEMMA TakeGiven ==
    \A s, G : \A t \in Tables, h \in Nat :
        (/\ StateOK(s)
         /\ GivenIn(s, G)
         /\ Used(s, t, h)
         /\ t = Host => \A any \in G : any.gen # s.cur_generation)
        => (GivenIn(Take(s, t, h), G))
\* A slot of the host may be emptied after the generation has changed.
<1>GivenRemoved. ASSUME NEW f, NEW md, NEW cur, NEW G, GivenOK(f, md, cur, G), \A any \in G : any.gen # cur, NEW h
                 PROVE  GivenOK(Minus(f, <<Host, h>>), md, cur, G)
  <2> USE <1>GivenRemoved
  <2> DEFINE p == <<Host, h>>
             g == Minus(f, p)
  <2>1. \A q : q \in DOMAIN g => q \in DOMAIN f /\ g[q] = f[q]
    BY DEF Minus
  <2> HIDE DEF g
  <2>2. GivenOK(g, md, cur, G)
    BY <2>1 DEF GivenOK
  <2> QED
    BY <2>2 DEF g
<1>Main. ASSUME NEW s, StateOK(s), NEW G, GivenIn(s, G), NEW t \in Tables, NEW h \in Nat, Used(s, t, h),
                t = Host => \A any \in G : any.gen # s.cur_generation
         PROVE  GivenIn(Take(s, t, h), G)
  <2> USE <1>Main
  <2> DEFINE n == Take(s, t, h)
  <2>1. /\ Live(n) = Minus(Live(s), <<t, h>>) /\ n.cur_generation = s.cur_generation /\ n.metadata = s.metadata
    BY RemoveFacts
  <2>2. GivenOK(Minus(Live(s), <<t, h>>), s.metadata, s.cur_generation, G)
    <3>1. CASE t \in Instances
      BY <3>1, GivenElsewhere, Zenon DEF GivenIn
    <3>2. CASE t = Host
      BY <3>2, <1>GivenRemoved, Zenon DEF GivenIn
    <3> QED
      BY <3>1, <3>2, Zenon DEF Tables
  <2> HIDE DEF n
  <2>3. GivenIn(n, G)
    BY <2>1, <2>2, Zenon DEF GivenIn
  <2> QED
    BY <2>3, Zenon DEF n
<1> QED
  BY <1>Main, Zenon

\* resource_lift_own: the rep it returns loses its owner.
LEMMA LiftOwnFine ==
    ASSUME NEW s, NEW O, NEW W, NEW G, NEW D, Good(s, O, W, G, D), NEW t \in Tables, NEW h \in Nat,
           t = Host => \A any \in G : any.gen # s.cur_generation,
           NEW res, res = resource_lift_own(s, t, h)
    PROVE  /\ res.r \in {"ok", "err"} /\ GivenIn(res.st, G)
           /\ res.r = "ok" => res.v \in O /\ Good(res.st, O \ {res.v}, W, G, D)
<1> DEFINE p == <<t, h>>
           n == Take(s, t, h)
           slot == Live(s)[p]
<1>1. StateOK(s) /\ Len(s.scopes) = D /\ CallsOK(Live(s), s.scopes, O, W) /\ GivenIn(s, G)
  BY Zenon DEF Good
<1>2. CASE ~Used(s, t, h)
  <2>1. res = Err(s)
    BY <1>2, Zenon DEF resource_lift_own, Then, remove, Err
  <2> QED
    BY <2>1, <1>1 DEF Err
<1>3. CASE Used(s, t, h)
  <2>1. /\ remove(s, t, h) = Ok(n, slot) /\ StateOK(n) /\ p \in DOMAIN Live(s)
        /\ Live(n) = Minus(Live(s), p) /\ n.scopes = s.scopes
    BY <1>1, <1>3, RemoveFacts, ZenonT(30)
  <2>2. GivenIn(n, G)
    BY <1>1, <1>3, TakeGiven, Zenon
  <2> HIDE DEF n, slot
  <2>3. res = IF slot.kind = "own" /\ slot.count = 0 THEN Ok(n, slot.rep) ELSE Err(n)
    BY <2>1, SMTT(30) DEF resource_lift_own, Then, Ok
  <2>4. CASE ~(slot.kind = "own" /\ slot.count = 0)
    BY <2>2, <2>3, <2>4, SMTT(30) DEF Err
  <2>5. CASE slot.kind = "own" /\ slot.count = 0
    <3>1. p \in Owned(Live(s))
      BY <2>1, <2>5, Zenon DEF Owned, slot
    <3>2. slot.rep \in O /\ CallsOK(Minus(Live(s), p), s.scopes, O \ {slot.rep}, W)
      BY <3>1, <2>5, <1>1, RemoveOwn, Zenon DEF slot
    <3>3. Good(n, O \ {slot.rep}, W, G, D)
      BY <3>2, <2>1, <2>2, <1>1, Zenon DEF Good
    <3>4. res = Ok(n, slot.rep)
      BY <2>3, <2>5, Zenon
    <3> QED
      BY <3>2, <3>3, <3>4, <2>2, SMTT(30) DEF Ok
  <2> QED
    BY <2>4, <2>5, SMTT(30)
<1> QED
  BY <1>2, <1>3, Zenon

\* res is the result of dropping h in table t; what it promises.
DropOf(s, t, h, res) == res = resource_drop(s, t, h)
Dropped(s, t, h, res, O, W, G, D) ==
    /\ res.r \in {"ok", "err"} /\ GivenIn(res.st, G)
    /\ res.r = "ok" => /\ res.v \in SUBSET O /\ Good(res.st, O \ res.v, W, G, D)
                       /\ <<t, h>> \in DOMAIN Live(s)
                       /\ (Live(s)[<<t, h>>].kind = "own") = (res.v # {})

\* resource_drop: the rep that it returns, if any, loses its owner.
LEMMA DropFine ==
    ASSUME NEW s, NEW O, NEW W, NEW G, NEW D, Good(s, O, W, G, D), NEW t \in Tables, NEW h \in Nat,
           t = Host => \A any \in G : any.gen # s.cur_generation, NEW res, DropOf(s, t, h, res)
    PROVE  Dropped(s, t, h, res, O, W, G, D)
\* A borrow given back: its scope counts one less.
<1>RemoveBorrow. ASSUME NEW f, NEW sc, NEW O0, NEW W0, CallsOK(f, sc, O0, W0), NEW p \in Borrowed(f)
                 PROVE  /\ f[p].scope \in DOMAIN sc /\ sc[f[p].scope].borrow_count \in Nat \ {0}
                        /\ CallsOK(Minus(f, p), Recount(sc, f[p].scope, sc[f[p].scope].borrow_count - 1), O0, W0)
  <2> USE <1>RemoveBorrow
  <2> DEFINE g == Minus(f, p)
             k == f[p].scope
             c == sc[k].borrow_count
  <2>1. /\ f \in Maps /\ sc \in Seq(ScopeType) /\ O0 \in SUBSET Nat
        /\ OwnersOK(f, O0) /\ LendersOK(f, sc) /\ BorrowersOK(f, sc) /\ BackedOK(f, sc, W0)
    BY Zenon DEF CallsOK
  <2>2. k \in DOMAIN sc
    BY <2>1, Zenon DEF BackedOK
  <2>3. IsFiniteSet(Borrowers(f, k)) /\ c = Cardinality(Borrowers(f, k)) /\ p \in Borrowers(f, k)
    BY <2>1, <2>2, Zenon DEF BorrowersOK, Borrowers
  <2>4. c \in Nat /\ c # 0 /\ c - 1 \in Nat
    <3>1. c \in Nat
      BY <2>3, FS_CardinalityType
    <3>2. c # 0
      BY <2>3, FS_EmptySet
    <3> QED
      BY <3>1, <3>2
  <2>5. g \in Maps /\ DOMAIN g = DOMAIN f \ {p} /\ \A q \in DOMAIN f \ {p} : g[q] = f[q]
    BY <2>1, MinusFacts, Zenon
  <2> HIDE DEF g
  <2>6. Owned(g) = Owned(f) /\ Borrowed(g) = Borrowed(f) \ {p}
    BY <2>1, <2>5, MapFacts DEF Owned, Borrowed
  <2>7. \A q \in Owned(g) \cup Borrowed(g) : q \in DOMAIN f /\ g[q] = f[q]
    BY <2>5, Zenon DEF Owned, Borrowed
  <2>8. ASSUME NEW scg, scg = Recount(sc, k, c - 1)
        PROVE  CallsOK(g, scg, O0, W0)
    <3>1. /\ scg \in Seq(ScopeType) /\ DOMAIN scg = DOMAIN sc /\ Len(scg) = Len(sc)
          /\ scg[k].borrow_count = c - 1
          /\ \A m \in DOMAIN sc : scg[m].lenders = sc[m].lenders
          /\ \A m \in DOMAIN sc \ {k} : scg[m].borrow_count = sc[m].borrow_count
          /\ \A q : Lends(scg, q) = Lends(sc, q)
      <4> DEFINE d == c - 1
      <4>1. d \in Nat /\ scg = Recount(sc, k, d)
        BY <2>4, <2>8, ZenonT(30)
      <4> HIDE DEF k, c, d
      <4>2. /\ scg \in Seq(ScopeType) /\ DOMAIN scg = DOMAIN sc /\ Len(scg) = Len(sc)
            /\ scg[k].borrow_count = d
            /\ \A m \in DOMAIN sc : scg[m].lenders = sc[m].lenders
            /\ \A m \in DOMAIN sc \ {k} : scg[m].borrow_count = sc[m].borrow_count
            /\ \A q : Lends(scg, q) = Lends(sc, q)
        BY <2>1, <2>2, <4>1, RecountFacts
      <4> QED
        BY <4>2, Zenon DEF d
    <3>2. OwnersOK(g, O0)
      BY <2>1, <2>6, <2>7, Zenon DEF OwnersOK
    <3>3. LendersOK(g, scg)
      BY <2>1, <2>6, <2>7, <3>1 DEF LendersOK
    <3>4. \A m : m # k => Borrowers(g, m) = Borrowers(f, m)
      BY <2>6, <2>7, Zenon DEF Borrowers
    <3>5. Borrowers(g, k) = Borrowers(f, k) \ {p}
      BY <2>6, <2>7, Zenon DEF Borrowers
    <3>6. IsFiniteSet(Borrowers(g, k)) /\ Cardinality(Borrowers(g, k)) = c - 1
      BY <2>3, <3>5, FS_RemoveElement
    <3>7. BorrowersOK(g, scg)
      <4> HIDE DEF k, c
      <4> QED
        BY <2>1, <3>1, <3>4, <3>6, Zenon DEF BorrowersOK
    <3>8. \A s0, m : Backed(f, sc, s0, m) => Backed(g, scg, s0, m)
      <4> SUFFICES ASSUME NEW s0, NEW m, Backed(f, sc, s0, m) PROVE Backed(g, scg, s0, m)
        BY Zenon
      <4> QED
        BY <2>6, <2>7, <3>1, Zenon DEF Backed
    <3>9. BackedOK(g, scg, W0)
      BY <2>1, <2>6, <2>7, <3>1, <3>8, Zenon DEF BackedOK
    <3> QED
      BY <2>1, <2>5, <3>1, <3>2, <3>3, <3>7, <3>9, Zenon DEF CallsOK
  <2> QED
    BY <2>2, <2>4, <2>8, Zenon DEF g
<1> SUFFICES /\ res.r \in {"ok", "err"} /\ GivenIn(res.st, G)
             /\ res.r = "ok" => /\ res.v \in SUBSET O /\ Good(res.st, O \ res.v, W, G, D)
                                /\ <<t, h>> \in DOMAIN Live(s)
                                /\ (Live(s)[<<t, h>>].kind = "own") = (res.v # {})
  BY Zenon DEF Dropped
<1> DEFINE p == <<t, h>>
           n == Take(s, t, h)
           slot == Live(s)[p]
<1>1. StateOK(s) /\ Len(s.scopes) = D /\ CallsOK(Live(s), s.scopes, O, W) /\ GivenIn(s, G)
  BY DEF Good
<1>2. CASE ~Used(s, t, h)
  <2>1. res = Err(s)
    BY <1>2, Zenon DEF DropOf, resource_drop, Then, remove, Err
  <2> QED
    BY <2>1, <1>1, SMTT(30) DEF Err
<1>3. CASE Used(s, t, h)
  <2>1. /\ remove(s, t, h) = Ok(n, slot) /\ StateOK(n) /\ p \in DOMAIN Live(s)
        /\ Live(n) = Minus(Live(s), p) /\ n.scopes = s.scopes
    BY <1>1, <1>3, RemoveFacts, Zenon
  <2>2. GivenIn(n, G)
    BY <1>1, <1>3, TakeGiven, Zenon
  <2>3. Live(s) \in Maps
    BY <1>1 DEF CallsOK
  <2>4. \/ p \in Owned(Live(s)) /\ slot \in OwnSlots
        \/ p \in Borrowed(Live(s)) /\ slot \in BorrowSlots
    BY <2>1, <2>3, MapFacts, Zenon
  <2> HIDE DEF n, slot, p
  <2>5. res = IF slot.kind = "borrow" THEN Unborrow(n, slot.scope)
              ELSE IF slot.count > 0 THEN Err(n) ELSE Ok(n, {slot.rep})
    BY <2>1, SMTT(30) DEF DropOf, resource_drop, Then, Ok
  <2>6. CASE p \in Owned(Live(s)) /\ slot \in OwnSlots
    <3>1. slot.kind = "own" /\ slot.count \in Nat
      BY <2>6, Zenon DEF OwnSlots
    <3>2. CASE slot.count > 0
      <4>1. res = Err(n)
        BY <3>1, <3>2, <2>5, Zenon
      <4> QED
        BY <4>1, <2>2, SMTT(30) DEF Err
    <3>3. CASE ~(slot.count > 0)
      <4>1. slot.count = 0 /\ res = Ok(n, {slot.rep})
        BY <3>1, <3>3, <2>5, SMTT(30)
      <4>2. slot.rep \in O /\ CallsOK(Minus(Live(s), p), s.scopes, O \ {slot.rep}, W)
        BY <4>1, <2>6, <1>1, RemoveOwn, Zenon DEF slot
      <4>3. Good(n, O \ {slot.rep}, W, G, D)
        BY <4>2, <2>1, <2>2, <1>1, Zenon DEF Good
      <4>4. res.r = "ok" /\ res.st = n /\ res.v = {slot.rep}
        BY <4>1, SMTT(30) DEF Ok
      <4>5. (slot.kind = "own") = (res.v # {})
        BY <3>1, <4>4, Zenon
      <4> QED
        BY <4>2, <4>3, <4>4, <4>5, <2>1, <2>2, ZenonT(30) DEF slot, p
    <3> QED
      BY <3>2, <3>3, Zenon
  <2>7. CASE p \in Borrowed(Live(s)) /\ slot \in BorrowSlots
    <3> DEFINE k == slot.scope
               c == n.scopes[k].borrow_count
               sc == Recount(n.scopes, k, c - 1)
               m == Rescope(n, sc)
    <3>1. slot.kind = "borrow"
      BY <2>7, SMTT(30) DEF BorrowSlots
    <3>2. k \in DOMAIN n.scopes /\ c \in Nat \ {0} /\ CallsOK(Minus(Live(s), p), sc, O, W)
      BY <2>1, <2>7, <1>1, <1>RemoveBorrow, Zenon DEF slot
    <3>3. sc \in Seq(ScopeType) /\ Len(sc) = D /\ n.scopes \in Seq(ScopeType)
      <4>1. n.scopes \in Seq(ScopeType)
        BY <2>1, <1>1, Zenon DEF CallsOK
      <4> DEFINE d == c - 1
      <4>2. d \in Nat
        BY <3>2, SMTT(30)
      <4> HIDE DEF d, k
      <4>3. Recount(n.scopes, k, d) \in Seq(ScopeType) /\ Len(Recount(n.scopes, k, d)) = Len(n.scopes)
        BY <4>1, <4>2, <3>2, RecountFacts, SMTT(30)
      <4> QED
        BY <4>1, <4>3, <2>1, <1>1, Zenon DEF d
    <3>4. res = Ok(m, {})
      <4>1. res = Unborrow(n, k)
        BY <3>1, <2>5, Zenon
      <4>2. Unborrow(n, k) = Ok([n EXCEPT !.scopes[k].borrow_count = @ - 1], {})
        BY <3>2 DEF Unborrow
      <4>3. [n EXCEPT !.scopes[k].borrow_count = @ - 1] = m
        BY Zenon DEF Rescope, Recount
      <4> QED
        BY <4>1, <4>2, <4>3, Zenon
    <3> HIDE DEF sc
    <3>5. /\ StateOK(m) /\ Live(m) = Live(n) /\ m.scopes = sc
          /\ m.cur_generation = n.cur_generation /\ m.metadata = n.metadata
      BY <2>1, <3>3, RescopeFacts, SMTT(30)
    <3> HIDE DEF m
    <3>6. GivenIn(m, G)
      BY <3>5, <2>2, Zenon DEF GivenIn
    <3>7. Good(m, O, W, G, D)
      BY <3>2, <3>3, <3>5, <3>6, <2>1, Zenon DEF Good
    <3>8. res.r = "ok" /\ res.st = m /\ res.v = {}
      BY <3>4 DEF Ok
    <3>9. (slot.kind = "own") = (res.v # {})
      BY <3>1, <3>8, Zenon
    <3>10. O \ {} = O
      BY Zenon
    <3> QED
      BY <3>6, <3>7, <3>8, <3>9, <3>10, <2>1, Zenon DEF slot, p
  <2> QED
    BY <2>4, <2>6, <2>7, ZenonT(30)
<1> QED
  BY <1>2, <1>3, Zenon

\* DropFine, of the expression itself, in the host's table.
LEMMA Drops ==
    ASSUME NEW s, NEW O, NEW W, NEW G, NEW D, Good(s, O, W, G, D), NEW h \in Nat, Host \in Tables,
           \A any \in G : any.gen # s.cur_generation
    PROVE  Dropped(s, Host, h, resource_drop(s, Host, h), O, W, G, D)
<1>1. DropOf(s, Host, h, resource_drop(s, Host, h))
  BY Zenon DEF DropOf
<1> QED
  BY <1>1, DropFine, Zenon

\* resource_lift_borrow in a scope that has no lender yet: the rep it returns is backed
\* in that scope.
LEMMA LiftBorrowFine ==
    ASSUME NEW s, NEW O, NEW W, NEW G, NEW D \in Nat \ {0}, Good(s, O, W, G, D), s.scopes[D].lenders = <<>>,
           NEW t \in Tables, NEW h \in Nat, NEW res, res = resource_lift_borrow(s, t, h)
    PROVE  /\ res.r \in {"ok", "err"} /\ GivenIn(res.st, G)
           /\ res.r = "ok" => res.v \in Nat /\ Good(res.st, O, W \cup {<<res.v, D>>}, G, D)
\* A change of a scope's lenders leaves its borrow_count alone, and the other scopes.
<1>RelendFacts. ASSUME NEW sc \in Seq(ScopeType), NEW k \in DOMAIN sc, NEW ls \in Seq(Lenders), NEW scg,
                       scg = Relend(sc, k, ls)
                PROVE  /\ scg \in Seq(ScopeType) /\ DOMAIN scg = DOMAIN sc /\ Len(scg) = Len(sc)
                       /\ scg[k].lenders = ls
                       /\ \A m \in DOMAIN sc \ {k} : scg[m] = sc[m]
                       /\ \A m \in DOMAIN sc : scg[m].borrow_count = sc[m].borrow_count
  <2> USE <1>RelendFacts
  <2> DEFINE x == [sc[k] EXCEPT !.lenders = ls]
  <2>1. sc[k] \in ScopeType
    OBVIOUS
  <2>2. x \in ScopeType /\ x.borrow_count = sc[k].borrow_count /\ x.lenders = ls
    BY <2>1, Zenon DEF ScopeType
  <2>3. scg = [sc EXCEPT ![k] = x]
    BY Zenon DEF Relend
  <2> HIDE DEF x
  <2> QED
    BY <2>2, <2>3
\* A lend: the owner counts one more, and the innermost scope remembers it.
<1>Lend. ASSUME NEW f, NEW sc, NEW O0, NEW W0, CallsOK(f, sc, O0, W0), NEW p \in Owned(f),
                NEW k \in DOMAIN sc, sc[k].lenders = <<>>
         PROVE  CallsOK(Counted(f, p, f[p].count + 1), Relend(sc, k, Lent(p)), O0, W0 \cup {<<f[p].rep, k>>})
  <2> USE <1>Lend
  <2> DEFINE c == f[p].count
             d == c + 1
             g == Counted(f, p, d)
             scg == Relend(sc, k, Lent(p))
  <2>1. /\ f \in Maps /\ sc \in Seq(ScopeType) /\ O0 \in SUBSET Nat
        /\ OwnersOK(f, O0) /\ LendersOK(f, sc) /\ BorrowersOK(f, sc) /\ BackedOK(f, sc, W0)
    BY Zenon DEF CallsOK
  <2>2. /\ f[p] \in OwnSlots /\ Owned(f) \subseteq Places /\ p \in Places /\ p \in DOMAIN f
        /\ Lent(p) \in Seq(Lenders) /\ Lent(p) # <<>>
    BY <2>1, MapFacts, LenderFacts, Zenon
  <2>3. c \in Nat /\ d \in Nat
    BY <2>2 DEF OwnSlots
  <2>4. c = Cardinality(Lends(sc, p))
    BY <2>1, Zenon DEF LendersOK
  <2> HIDE DEF d
  <2>count. OnlyCount(f, p, d, g)
    BY <2>1, <2>3, CountedFacts, Zenon
  <2>5. /\ g \in Maps /\ DOMAIN g = DOMAIN f /\ Owned(g) = Owned(f) /\ Borrowed(g) = Borrowed(f)
        /\ g[p].count = d /\ \A q \in Owned(f) \ {p} : g[q].count = f[q].count
        /\ \A q \in DOMAIN f : g[q].rep = f[q].rep /\ g[q].kind = f[q].kind
        /\ \A q \in Borrowed(f) : g[q] = f[q]
    <3> HIDE DEF g
    <3> QED
      BY <2>count, Zenon DEF OnlyCount
  <2>6. OwnersOK(g, O0) /\ \A m : Borrowers(g, m) = Borrowers(f, m)
    <3> HIDE DEF g
    <3> QED
      BY <2>1, <2>count, CountedKeeps
  <2>7. /\ scg \in Seq(ScopeType) /\ DOMAIN scg = DOMAIN sc /\ Len(scg) = Len(sc)
        /\ scg[k].lenders = Lent(p)
        /\ \A m \in DOMAIN sc \ {k} : scg[m] = sc[m]
        /\ \A m \in DOMAIN sc : scg[m].borrow_count = sc[m].borrow_count
    BY <2>1, <2>2, <1>RelendFacts
  <2> HIDE DEF g, scg
  <2>8. Lends(scg, p) = Lends(sc, p) \cup {k} /\ k \notin Lends(sc, p)
    BY <2>2, <2>7, Zenon DEF Lends
  <2>9. \A q \in Places \ {p} : Lends(scg, q) = Lends(sc, q)
    <3> SUFFICES ASSUME NEW q \in Places \ {p} PROVE Lends(scg, q) = Lends(sc, q)
      BY Zenon
    <3>1. Lent(q) # Lent(p) /\ Lent(q) # <<>>
      BY <2>2, LenderFacts, Zenon
    <3> QED
      BY <3>1, <2>7, Zenon DEF Lends
  <2>10. Cardinality(Lends(scg, p)) = d
    <3>1. IsFiniteSet(Lends(sc, p))
      BY <2>1, LendsFinite, Zenon
    <3>2. Cardinality(Lends(sc, p) \cup {k}) = Cardinality(Lends(sc, p)) + 1
      BY <2>8, <3>1, FS_AddElement, Zenon
    <3> QED
      BY <3>2, <2>4, <2>8, Zenon DEF d
  <2>11. LendersOK(g, scg)
    <3>1. \A m \in DOMAIN scg : scg[m].lenders = <<>> \/ \E q \in Owned(g) : scg[m].lenders = Lent(q)
      BY <2>1, <2>5, <2>7 DEF LendersOK
    <3>2. \A q \in Owned(g) : g[q].count = Cardinality(Lends(scg, q))
      BY <2>1, <2>2, <2>5, <2>9, <2>10, Zenon DEF LendersOK
    <3> QED
      BY <3>1, <3>2, Zenon DEF LendersOK
  <2>12. BorrowersOK(g, scg)
    BY <2>1, <2>6, <2>7, Zenon DEF BorrowersOK
  <2>13. \A q \in Owned(f) : q \in DOMAIN f /\ g[q].rep = f[q].rep /\ Lends(sc, q) \subseteq Lends(scg, q)
    BY <2>2, <2>5, <2>8, <2>9, Zenon DEF Owned
  <2>14. \A s0, m : Backed(f, sc, s0, m) => Backed(g, scg, s0, m)
    <3> SUFFICES ASSUME NEW s0, NEW m, Backed(f, sc, s0, m) PROVE Backed(g, scg, s0, m)
      BY Zenon
    <3> QED
      BY <2>5, <2>7, <2>13, Zenon DEF Backed
  <2>15. Backed(g, scg, f[p].rep, k)
    <3>1. k \in Nat
      BY <2>1, SMTT(30)
    <3> QED
      BY <3>1, <2>5, <2>7, <2>8, <2>13, SMTT(30) DEF Backed
  <2>16. BackedOK(g, scg, W0 \cup {<<f[p].rep, k>>})
    <3>1. \A q \in Borrowed(g) : g[q].scope \in DOMAIN scg /\ Backed(g, scg, g[q].rep, g[q].scope)
      BY <2>1, <2>5, <2>7, <2>14, Zenon DEF BackedOK
    <3>2. \A w \in W0 : w[2] \in DOMAIN scg /\ Backed(g, scg, w[1], w[2])
      BY <2>1, <2>7, <2>14, Zenon DEF BackedOK
    <3> QED
      BY <3>1, <3>2, <2>7, <2>15, SMTT(30) DEF BackedOK
  <2> QED
    BY <2>1, <2>5, <2>6, <2>7, <2>11, <2>12, <2>16, Zenon DEF CallsOK, g, scg, d
\* A borrow of a borrow is backed by the same lend, in its scope and in those inside it.
<1>BorrowAgain. ASSUME NEW f, NEW sc, NEW O0, NEW W0, CallsOK(f, sc, O0, W0), NEW p \in Borrowed(f)
                PROVE  CallsOK(f, sc, O0, W0 \cup {<<f[p].rep, Len(sc)>>})
  <2> USE <1>BorrowAgain
  <2>1. f[p].scope \in DOMAIN sc /\ Backed(f, sc, f[p].rep, f[p].scope) /\ BackedOK(f, sc, W0) /\ sc \in Seq(ScopeType)
    BY Zenon DEF CallsOK, BackedOK
  <2>2. Len(sc) \in DOMAIN sc /\ \A m \in DOMAIN sc : m \in Nat /\ m <= Len(sc)
    BY <2>1
  <2>3. Backed(f, sc, f[p].rep, Len(sc))
    BY <2>1, <2>2, Zenon DEF Backed
  <2>4. BackedOK(f, sc, W0 \cup {<<f[p].rep, Len(sc)>>})
    BY <2>1, <2>2, <2>3, SMTT(30) DEF BackedOK
  <2> QED
    BY <2>4, Zenon DEF CallsOK
<1> DEFINE p == <<t, h>>
           f == Live(s)
           slot == f[p]
<1>1. /\ StateOK(s) /\ Len(s.scopes) = D /\ CallsOK(f, s.scopes, O, W) /\ GivenIn(s, G)
      /\ f \in Maps /\ s.scopes \in Seq(ScopeType) /\ s.scopes # <<>> /\ D \in DOMAIN s.scopes
  <2>1. StateOK(s) /\ Len(s.scopes) = D /\ CallsOK(f, s.scopes, O, W) /\ GivenIn(s, G)
    BY Zenon DEF Good
  <2>2. f \in Maps /\ s.scopes \in Seq(ScopeType)
    BY <2>1, Zenon DEF CallsOK
  <2> QED
    BY <2>1, <2>2, SMTT(30)
<1>2. CASE ~Used(s, t, h)
  <2>1. res = Err(s)
    BY <1>2, Zenon DEF resource_lift_borrow
  <2> QED
    BY <2>1, <1>1 DEF Err
<1>3. CASE Used(s, t, h)
  <2>1. p \in DOMAIN f /\ SlotAt(s, t, h) = slot
    BY <1>3, UsedFacts, Zenon
  <2>2. \/ p \in Owned(f) /\ slot \in OwnSlots
        \/ p \in Borrowed(f) /\ slot \in BorrowSlots
    BY <2>1, <1>1, MapFacts, Zenon
  <2>3. CASE p \in Borrowed(f) /\ slot \in BorrowSlots
    <3>1. slot.kind = "borrow" /\ slot.rep \in Nat
      BY <2>3 DEF BorrowSlots
    <3>2. res = Ok(s, slot.rep)
      BY <3>1, <2>1, <1>3, SMTT(30) DEF resource_lift_borrow
    <3>3. CallsOK(f, s.scopes, O, W \cup {<<slot.rep, D>>})
      BY <1>1, <2>3, <1>BorrowAgain, Zenon
    <3>4. Good(s, O, W \cup {<<slot.rep, D>>}, G, D)
      BY <3>3, <1>1, Zenon DEF Good
    <3> QED
      BY <3>1, <3>2, <3>4, <1>1, SMTT(30) DEF Ok
  <2>4. CASE p \in Owned(f) /\ slot \in OwnSlots
    <3> DEFINE c == slot.count
               d == c + 1
               sc == Relend(s.scopes, D, Lent(p))
               n == Reslot(s, t, h, d)
               m == Rescope(n, sc)
    <3>1. slot.kind = "own" /\ slot.rep \in Nat /\ c \in Nat /\ d \in Nat
      BY <2>4, SMTT(30) DEF OwnSlots
    <3>2. CallsOK(Counted(f, p, d), sc, O, W \cup {<<slot.rep, D>>})
      BY <1>1, <2>4, <1>Lend, ZenonT(30)
    <3>3. sc \in Seq(ScopeType) /\ Len(sc) = D
      <4>1. p \in Places
        BY UsedFacts
      <4>2. Lent(p) \in Seq(Lenders)
        BY <4>1, LenderFacts, Zenon
      <4> QED
        BY <4>2, <1>1, <1>RelendFacts, SMTT(30)
    <3>4. res = Ok(m, slot.rep)
      <4> DEFINE x == [s EXCEPT !.tables[t].slots[h].count = @ + 1,
                                !.scopes[Len(s.scopes)].lenders = Append(@, [ty |-> t, idx |-> h])]
      <4>1. res = Ok(x, SlotAt(s, t, h).rep)
        BY <3>1, <2>1, <1>1, <1>3, Zenon DEF resource_lift_borrow
      <4>2. x = m
        <5>1. Append(s.scopes[D].lenders, [ty |-> t, idx |-> h]) = Lent(p)
          BY DEF Lent
        <5>2. s.tables[t].slots[h].count = c
          BY <2>1 DEF SlotAt
        <5> DEFINE A == [s.tables EXCEPT ![t].slots[h].count = @ + 1]
                   B == [s.scopes EXCEPT ![Len(s.scopes)].lenders = Append(@, [ty |-> t, idx |-> h])]
        <5>3. A = [s.tables EXCEPT ![t] = Recounted(s.tables[t], h, d)]
          BY <5>2 DEF Recounted
        <5>4. B = sc
          BY <5>1, <1>1, Zenon DEF Relend
        <5>5. x = [s EXCEPT !.tables = A, !.scopes = B]
          OBVIOUS
        <5>6. m = [[s EXCEPT !.tables = A] EXCEPT !.scopes = B]
          BY <5>3, <5>4, ZenonT(30) DEF Rescope, Reslot, Replace
        <5> HIDE DEF A, B, x, m
        <5> QED
          BY <5>5, <5>6, Zenon
      <4> QED
        BY <4>1, <4>2, <2>1, Zenon
    <3> HIDE DEF sc, d
    <3>5. /\ StateOK(n) /\ Live(n) = Counted(f, p, d) /\ n.scopes = s.scopes
          /\ n.cur_generation = s.cur_generation /\ n.metadata = s.metadata
      BY <1>1, <2>4, <3>1, ReslotFacts, SMTT(30)
    <3> HIDE DEF n
    <3>6. /\ StateOK(m) /\ Live(m) = Live(n) /\ m.scopes = sc
          /\ m.cur_generation = n.cur_generation /\ m.metadata = n.metadata
      BY <3>3, <3>5, RescopeFacts, SMTT(30)
    <3> HIDE DEF m
    <3>7. GivenIn(m, G)
      <4>1. GivenOK(Counted(f, p, d), s.metadata, s.cur_generation, G)
        BY <1>1, <2>4, <3>1, GivenCounted, Zenon DEF GivenIn
      <4> QED
        BY <4>1, <3>5, <3>6, Zenon DEF GivenIn
    <3>8. Good(m, O, W \cup {<<slot.rep, D>>}, G, D)
      BY <3>2, <3>3, <3>5, <3>6, <3>7, Zenon DEF Good
    <3> QED
      BY <3>1, <3>4, <3>7, <3>8, SMTT(30) DEF Ok
  <2> QED
    BY <2>2, <2>3, <2>4, Zenon
<1> QED
  BY <1>2, <1>3, Zenon

\* resource_lower_borrow of a rep that is backed in the innermost scope counts a borrow
\* there and inserts it.
LEMMA LowerBorrowInserts ==
    ASSUME NEW s, NEW O, NEW W, NEW G, NEW D \in Nat \ {0}, Good(s, O, W, G, D),
           NEW t \in Tables, NEW r \in Nat, <<r, D>> \in W
    PROVE  \E n : \E e \in InUse :
             /\ resource_lower_borrow(s, t, r) = insert(n, t, e)
             /\ StateOK(n) /\ GivenIn(n, G) /\ Len(n.scopes) = D /\ e.kind = "borrow" /\ e.rep = r
             /\ CallsOK(With(Live(n), <<t, n.tables[t].next>>, e), n.scopes, O, W)
\* A borrow lowered into a table: its scope counts one more.
<1>AddBorrow. ASSUME NEW f, NEW sc, NEW O0, NEW W0, CallsOK(f, sc, O0, W0), NEW p \in Places \ DOMAIN f,
                     NEW r0 \in Nat, NEW k \in Nat, <<r0, k>> \in W0
              PROVE  CallsOK(With(f, p, Borrow(r0, k)), Recount(sc, k, sc[k].borrow_count + 1), O0, W0)
  <2> USE <1>AddBorrow
  <2> DEFINE e == Borrow(r0, k)
             g == With(f, p, e)
             c == sc[k].borrow_count
             scg == Recount(sc, k, c + 1)
  <2>1. /\ f \in Maps /\ sc \in Seq(ScopeType) /\ O0 \in SUBSET Nat /\ p \in Places /\ p \notin DOMAIN f
        /\ OwnersOK(f, O0) /\ LendersOK(f, sc) /\ BorrowersOK(f, sc) /\ BackedOK(f, sc, W0)
    BY Zenon DEF CallsOK
  <2>2. k \in DOMAIN sc /\ Backed(f, sc, r0, k)
    BY <2>1, Zenon DEF BackedOK
  <2>3. e \in InUse /\ e.kind = "borrow" /\ e.rep = r0 /\ e.scope = k
    BY DEF Borrow, BorrowSlots, InUse
  <2> HIDE DEF e
  <2>4. g \in Maps
    BY <2>1, <2>3, WithMaps, Zenon
  <2>5. DOMAIN g = DOMAIN f \cup {p} /\ g[p] = e /\ \A q \in DOMAIN f : g[q] = f[q]
    BY <2>1, Zenon DEF With
  <2> HIDE DEF g
  <2>6. Owned(g) = Owned(f) /\ Borrowed(g) = Borrowed(f) \cup {p} /\ p \notin Borrowed(f)
    BY <2>1, <2>3, <2>5, Zenon DEF Owned, Borrowed
  <2>7. \A q \in Owned(f) \cup Borrowed(f) : q \in DOMAIN f /\ g[q] = f[q]
    BY <2>5, Zenon DEF Owned, Borrowed
  <2>8. IsFiniteSet(Borrowers(f, k)) /\ c = Cardinality(Borrowers(f, k)) /\ c \in Nat /\ c + 1 \in Nat
    <3>1. IsFiniteSet(Borrowers(f, k)) /\ c = Cardinality(Borrowers(f, k))
      BY <2>1, <2>2, Zenon DEF BorrowersOK
    <3>2. c \in Nat
      BY <3>1, FS_CardinalityType, Zenon
    <3> QED
      BY <3>1, <3>2
  <2>9. /\ scg \in Seq(ScopeType) /\ DOMAIN scg = DOMAIN sc /\ Len(scg) = Len(sc)
        /\ scg[k].borrow_count = c + 1
        /\ \A m \in DOMAIN sc : scg[m].lenders = sc[m].lenders
        /\ \A m \in DOMAIN sc \ {k} : scg[m].borrow_count = sc[m].borrow_count
        /\ \A q : Lends(scg, q) = Lends(sc, q)
    <3> DEFINE d == c + 1
    <3>1. d \in Nat /\ scg = Recount(sc, k, d)
      BY <2>8, Zenon
    <3> HIDE DEF c, d
    <3> HIDE DEF scg
    <3>2. /\ scg \in Seq(ScopeType) /\ DOMAIN scg = DOMAIN sc /\ Len(scg) = Len(sc)
          /\ scg[k].borrow_count = d
          /\ \A m \in DOMAIN sc : scg[m].lenders = sc[m].lenders
          /\ \A m \in DOMAIN sc \ {k} : scg[m].borrow_count = sc[m].borrow_count
          /\ \A q : Lends(scg, q) = Lends(sc, q)
      BY <2>1, <2>2, <3>1, RecountFacts, SMTT(30)
    <3> QED
      BY <3>2, Zenon DEF d
  <2> HIDE DEF scg
  <2>10. OwnersOK(g, O0)
    BY <2>1, <2>6, <2>7 DEF OwnersOK
  <2>11. LendersOK(g, scg)
    <3> HIDE DEF c
    <3>1. \A m \in DOMAIN scg : scg[m].lenders = <<>> \/ \E q \in Owned(g) : scg[m].lenders = Lent(q)
      BY <2>1, <2>6, <2>9, Zenon DEF LendersOK
    <3>2. \A q \in Owned(g) : g[q].count = Cardinality(Lends(scg, q))
      BY <2>1, <2>6, <2>7, <2>9, Zenon DEF LendersOK
    <3> QED
      BY <3>1, <3>2, Zenon DEF LendersOK
  <2>12. /\ \A m : m # k => Borrowers(g, m) = Borrowers(f, m)
         /\ Borrowers(g, k) = Borrowers(f, k) \cup {p} /\ p \notin Borrowers(f, k)
    BY <2>3, <2>5, <2>6, <2>7, Zenon DEF Borrowers
  <2>13. IsFiniteSet(Borrowers(g, k)) /\ Cardinality(Borrowers(g, k)) = c + 1
    BY <2>8, <2>12, FS_AddElement
  <2>14. BorrowersOK(g, scg)
    <3> HIDE DEF c
    <3>1. \A m \in DOMAIN sc \ {k} : IsFiniteSet(Borrowers(g, m)) /\ scg[m].borrow_count = Cardinality(Borrowers(g, m))
      BY <2>1, <2>9, <2>12, Zenon DEF BorrowersOK
    <3> QED
      BY <2>9, <2>13, <3>1, Zenon DEF BorrowersOK
  <2>15. \A s0, m : Backed(f, sc, s0, m) => Backed(g, scg, s0, m)
    <3> SUFFICES ASSUME NEW s0, NEW m, Backed(f, sc, s0, m) PROVE Backed(g, scg, s0, m)
      BY Zenon
    <3> QED
      BY <2>6, <2>7, <2>9, Zenon DEF Backed
  <2>16. BackedOK(g, scg, W0)
    BY <2>1, <2>2, <2>3, <2>5, <2>6, <2>7, <2>9, <2>15, ZenonT(30) DEF BackedOK
  <2> QED
    BY <2>1, <2>4, <2>9, <2>10, <2>11, <2>14, <2>16, Zenon DEF CallsOK, g, e, scg
<1> DEFINE f == Live(s)
           c == s.scopes[D].borrow_count
           sc == Recount(s.scopes, D, c + 1)
           n == Rescope(s, sc)
           h == s.tables[t].next
           e == Borrow(r, D)
<1>1. /\ StateOK(s) /\ Len(s.scopes) = D /\ CallsOK(f, s.scopes, O, W) /\ GivenIn(s, G)
      /\ s.scopes \in Seq(ScopeType) /\ s.scopes # <<>> /\ D \in DOMAIN s.scopes
  <2>1. StateOK(s) /\ Len(s.scopes) = D /\ CallsOK(f, s.scopes, O, W) /\ GivenIn(s, G)
    BY DEF Good
  <2>2. s.scopes \in Seq(ScopeType)
    BY <2>1, SMTT(30) DEF CallsOK
  <2> QED
    BY <2>1, <2>2
<1>2. c \in Nat
  <2>1. s.scopes[D] \in ScopeType
    BY <1>1
  <2> QED
    BY <2>1, Zenon DEF ScopeType
<1>3. e \in InUse /\ e.kind = "borrow" /\ e.rep = r
  BY SMTT(30) DEF Borrow, BorrowSlots, InUse
<1>5. <<t, h>> \in Places \ DOMAIN f
  BY <1>1, <1>3, InsertFacts, Zenon
<1>6. CallsOK(With(f, <<t, h>>, e), sc, O, W)
  <2> DEFINE p == <<t, h>>
  <2>1. p \in Places \ DOMAIN f
    BY <1>5, Zenon
  <2> HIDE DEF p
  <2>2. CallsOK(With(f, p, e), sc, O, W)
    BY <1>1, <2>1, <1>AddBorrow, Zenon
  <2> QED
    BY <2>2, Zenon DEF p
<1>7. resource_lower_borrow(s, t, r) = insert(n, t, e)
  <2>1. resource_lower_borrow(s, t, r) = insert([s EXCEPT !.scopes[Len(s.scopes)].borrow_count = @ + 1], t,
                                                Borrow(r, Len(s.scopes)))
    BY <1>1 DEF resource_lower_borrow
  <2>2. [s EXCEPT !.scopes[Len(s.scopes)].borrow_count = @ + 1] = n
    BY <1>1, Zenon DEF Rescope, Recount
  <2> QED
    BY <2>1, <2>2, <1>1
<1> HIDE DEF e
<1>8. sc \in Seq(ScopeType) /\ Len(sc) = D
  <2> DEFINE d == c + 1
  <2>1. d \in Nat
    BY <1>2, SMTT(30)
  <2> HIDE DEF d
  <2>2. Recount(s.scopes, D, d) \in Seq(ScopeType) /\ Len(Recount(s.scopes, D, d)) = Len(s.scopes)
    BY <2>1, <1>1, RecountFacts, SMTT(30)
  <2> QED
    BY <2>2, <1>1 DEF d
<1> HIDE DEF sc
<1>9. /\ StateOK(n) /\ Live(n) = f /\ n.scopes = sc /\ n.tables = s.tables
      /\ n.cur_generation = s.cur_generation /\ n.metadata = s.metadata
  BY <1>1, <1>8, RescopeFacts, ZenonT(30)
<1> HIDE DEF n
<1>10. GivenIn(n, G)
  BY <1>1, <1>9, Zenon DEF GivenIn
<1>11. CallsOK(With(Live(n), <<t, n.tables[t].next>>, e), n.scopes, O, W)
  BY <1>6, <1>9
<1> QED
  BY <1>3, <1>7, <1>8, <1>9, <1>10, <1>11, Zenon

\* resource_lower_borrow gives an instance a handle for a borrow it was passed as a rep.
LEMMA LowerBorrowFine ==
    ASSUME NEW s, NEW O, NEW W, NEW G, NEW D \in Nat \ {0}, Good(s, O, W, G, D),
           NEW t \in Instances, NEW r \in Nat, <<r, D>> \in W
    PROVE  Fine(resource_lower_borrow(s, t, r), O, W, G, D)
<1>1. t \in Tables
  BY Zenon DEF Tables
<1>2. PICK n : \E e \in InUse :
             /\ resource_lower_borrow(s, t, r) = insert(n, t, e)
             /\ StateOK(n) /\ GivenIn(n, G) /\ Len(n.scopes) = D
             /\ CallsOK(With(Live(n), <<t, n.tables[t].next>>, e), n.scopes, O, W)
  BY <1>1, LowerBorrowInserts, SMTT(30)
<1> QED
  BY <1>2, InsertFine, Zenon

\* enter_call opens a scope without lenders.
LEMMA EnterGood ==
    \A s, O, W, G : \A D \in Nat : \A n :
        (/\ Good(s, O, W, G, D)
         /\ n = enter_call(s))
        => (Good(n, O, W, G, D + 1) /\ n.scopes[D + 1].lenders = <<>>)
\* A call enters an empty scope.
<1>EnterScope. ASSUME NEW f, NEW sc, NEW O, NEW W, CallsOK(f, sc, O, W)
               PROVE  /\ CallsOK(f, Entered(sc), O, W)
                      /\ Len(Entered(sc)) = Len(sc) + 1 /\ Len(sc) + 1 \in DOMAIN Entered(sc)
                      /\ Entered(sc)[Len(sc) + 1].lenders = <<>>
  <2> USE <1>EnterScope
  <2> DEFINE x == [lenders |-> <<>>, borrow_count |-> 0]
             scg == Entered(sc)
             k == Len(sc) + 1
  <2>1. /\ f \in Maps /\ sc \in Seq(ScopeType) /\ O \in SUBSET Nat
        /\ OwnersOK(f, O) /\ LendersOK(f, sc) /\ BorrowersOK(f, sc) /\ BackedOK(f, sc, W)
    BY DEF CallsOK
  <2>2. x \in ScopeType /\ x.lenders = <<>> /\ x.borrow_count = 0
    BY DEF ScopeType
  <2>3. scg = Append(sc, x)
    BY ZenonT(30) DEF Entered
  <2> HIDE DEF x, scg
  <2>4. /\ scg \in Seq(ScopeType) /\ DOMAIN scg = DOMAIN sc \cup {k} /\ k \notin DOMAIN sc /\ Len(scg) = k
        /\ scg[k] = x /\ \A m \in DOMAIN sc : scg[m] = sc[m]
    BY <2>1, <2>2, <2>3, SMTT(30)
  <2> HIDE DEF k
  <2>5. \A p \in Places : Lends(scg, p) = Lends(sc, p)
    <3> SUFFICES ASSUME NEW p \in Places PROVE Lends(scg, p) = Lends(sc, p)
      OBVIOUS
    <3>1. Lent(p) # <<>>
      BY LenderFacts
    <3> QED
      BY <3>1, <2>2, <2>4 DEF Lends
  <2>6. Owned(f) \subseteq Places
    BY <2>1, MapFacts, Zenon
  <2>7. LendersOK(f, scg)
    <3>1. \A m \in DOMAIN scg : scg[m].lenders = <<>> \/ \E q \in Owned(f) : scg[m].lenders = Lent(q)
      BY <2>1, <2>2, <2>4, Zenon DEF LendersOK
    <3>2. \A q \in Owned(f) : f[q].count = Cardinality(Lends(scg, q))
      BY <2>1, <2>5, <2>6, Zenon DEF LendersOK
    <3> QED
      BY <3>1, <3>2, Zenon DEF LendersOK
  <2>8. Borrowers(f, k) = {}
    BY <2>1, <2>4, Zenon DEF Borrowers, BackedOK
  <2>9. BorrowersOK(f, scg)
    <3>1. IsFiniteSet(Borrowers(f, k)) /\ Cardinality(Borrowers(f, k)) = 0
      BY <2>8, FS_EmptySet, Zenon
    <3> QED
      BY <3>1, <2>1, <2>2, <2>4, Zenon DEF BorrowersOK
  <2>10. \A s, m : Backed(f, sc, s, m) => Backed(f, scg, s, m)
    <3> SUFFICES ASSUME NEW s, NEW m, Backed(f, sc, s, m) PROVE Backed(f, scg, s, m)
      BY Zenon
    <3> QED
      BY <2>4, <2>5, <2>6, Zenon DEF Backed
  <2>11. BackedOK(f, scg, W)
    BY <2>1, <2>4, <2>10, Zenon DEF BackedOK
  <2> QED
    BY <2>1, <2>2, <2>4, <2>7, <2>9, <2>11, Zenon DEF CallsOK, scg, k
<1>Main. ASSUME NEW s, NEW O, NEW W, NEW G, NEW D \in Nat, Good(s, O, W, G, D), NEW n, n = enter_call(s)
         PROVE  Good(n, O, W, G, D + 1) /\ n.scopes[D + 1].lenders = <<>>
  <2> USE <1>Main
  <2>1. StateOK(s) /\ Len(s.scopes) = D /\ CallsOK(Live(s), s.scopes, O, W) /\ GivenIn(s, G)
    BY Zenon DEF Good
  <2> DEFINE sc == Entered(s.scopes)
  <2>2. CallsOK(Live(s), sc, O, W) /\ Len(sc) = D + 1 /\ sc[D + 1].lenders = <<>>
    BY <2>1, <1>EnterScope, Zenon
  <2>3. sc \in Seq(ScopeType)
    BY <2>2 DEF CallsOK
  <2>4. n = Rescope(s, sc)
    BY DEF enter_call, Rescope, Entered
  <2> HIDE DEF sc
  <2>5. /\ StateOK(n) /\ Live(n) = Live(s) /\ n.scopes = sc
        /\ n.cur_generation = s.cur_generation /\ n.metadata = s.metadata
    BY <2>1, <2>3, <2>4, RescopeFacts, SMTT(30)
  <2>6. GivenIn(n, G)
    BY <2>1, <2>5 DEF GivenIn
  <2> QED
    BY <2>2, <2>5, <2>6, Zenon DEF Good
<1> QED
  BY <1>Main, Zenon

\* The loop of exit_call over the lenders, as the equation of its recursive function.
Turn(f, a, ls) == [i \in 0..Len(ls) |-> IF i = 0 THEN a
                      ELSE IF f[i - 1].r = "ok" THEN Return(f[i - 1].st, ls[i]) ELSE f[i - 1]]
Popped(s) == Rescope(s, Left(s.scopes))

\* exit_call never panics, and is an error only when borrows remain: the lender, if there
\* is one, is still there and still counts its lend.
LEMMA ExitFine ==
    \A s, O, W, G : \A D \in Nat \ {0} :
        (/\ Good(s, O, W, G, D))
        => (Fine(exit_call(s), O, {w \in W : w[2] # D}, G, D - 1))
\* The scopes that stay when the innermost is left.
<1>LeftFacts. ASSUME NEW sc \in Seq(ScopeType), sc # <<>>
              PROVE  /\ Len(sc) \in Nat /\ Len(sc) \in DOMAIN sc
                     /\ Left(sc) \in Seq(ScopeType) /\ Len(Left(sc)) = Len(sc) - 1
                     /\ DOMAIN Left(sc) = DOMAIN sc \ {Len(sc)}
                     /\ \A m \in DOMAIN sc \ {Len(sc)} : Left(sc)[m] = sc[m] /\ m < Len(sc)
                     /\ \A m \in DOMAIN sc : m \in Nat
                     /\ \A p : Lends(Left(sc), p) = Lends(sc, p) \ {Len(sc)}
  <2> USE <1>LeftFacts
  <2>1. Len(sc) \in Nat /\ Len(sc) > 0 /\ DOMAIN sc = 1..Len(sc)
    OBVIOUS
  <2>2. /\ Left(sc) \in Seq(ScopeType) /\ Len(Left(sc)) = Len(sc) - 1
        /\ DOMAIN Left(sc) = 1..(Len(sc) - 1)
        /\ \A m \in 1..(Len(sc) - 1) : Left(sc)[m] = sc[m]
    BY <2>1 DEF Left
  <2>3. DOMAIN Left(sc) = DOMAIN sc \ {Len(sc)}
    BY <2>1, <2>2
  <2>4. \A m \in DOMAIN sc \ {Len(sc)} : Left(sc)[m] = sc[m] /\ m < Len(sc)
    BY <2>1, <2>2
  <2>5. \A p : Lends(Left(sc), p) = Lends(sc, p) \ {Len(sc)}
    BY <2>3, <2>4, Zenon DEF Lends
  <2> QED
    BY <2>1, <2>2, <2>3, <2>4, <2>5, SMTT(30)
\* What was backed in an outer scope is backed when the innermost has been left.
<1>BackedOutside. ASSUME NEW f \in Maps, NEW sc \in Seq(ScopeType), sc # <<>>, NEW W, BackedOK(f, sc, W),
                         Borrowers(f, Len(sc)) = {},
                         NEW g, Owned(g) = Owned(f), Borrowed(g) = Borrowed(f),
                         \A q \in DOMAIN f : g[q].rep = f[q].rep, \A q \in Borrowed(f) : g[q] = f[q]
                  PROVE  BackedOK(g, Left(sc), {w \in W : w[2] # Len(sc)})
  <2> USE <1>BackedOutside
  <2>1. \A q \in Owned(f) : g[q].rep = f[q].rep
    BY Zenon DEF Owned
  <2>2. \A s : \A m \in DOMAIN sc \ {Len(sc)} : Backed(f, sc, s, m) => Backed(g, Left(sc), s, m)
    <3> SUFFICES ASSUME NEW s, NEW m \in DOMAIN sc \ {Len(sc)}, Backed(f, sc, s, m)
                 PROVE  Backed(g, Left(sc), s, m)
      OBVIOUS
    <3>1. PICK n \in DOMAIN sc : n <= m /\ \E p \in Owned(f) : f[p].rep = s /\ n \in Lends(sc, p)
      BY DEF Backed
    <3>2. n # Len(sc) /\ n \in DOMAIN Left(sc)
      <4>1. Len(sc) \in Nat /\ m \in Nat /\ n \in Nat /\ m < Len(sc) /\ DOMAIN Left(sc) = DOMAIN sc \ {Len(sc)}
        BY <3>1, <1>LeftFacts, Zenon
      <4> QED
        BY <3>1, <4>1
    <3>3. PICK p \in Owned(f) : f[p].rep = s /\ n \in Lends(sc, p)
      BY <3>1
    <3>4. p \in Owned(g) /\ g[p].rep = s /\ n \in Lends(Left(sc), p)
      BY <3>2, <3>3, <2>1, <1>LeftFacts, Zenon
    <3> QED
      BY <3>1, <3>2, <3>4, Zenon DEF Backed
  <2>3. \A q \in Borrowed(f) : f[q].scope \in DOMAIN sc \ {Len(sc)} /\ Backed(f, sc, f[q].rep, f[q].scope)
    BY Zenon DEF BackedOK, Borrowers
  <2>4. \A w \in W : w[2] \in DOMAIN sc /\ Backed(f, sc, w[1], w[2])
    BY DEF BackedOK
  <2>5. DOMAIN Left(sc) = DOMAIN sc \ {Len(sc)}
    BY <1>LeftFacts, Zenon
  <2>6. \A q \in Borrowed(g) : g[q].scope \in DOMAIN Left(sc) /\ Backed(g, Left(sc), g[q].rep, g[q].scope)
    BY <2>2, <2>3, <2>5, Zenon
  <2>7. \A w \in {v \in W : v[2] # Len(sc)} : w[2] \in DOMAIN Left(sc) /\ Backed(g, Left(sc), w[1], w[2])
    BY <2>2, <2>4, <2>5, Zenon
  <2> QED
    BY <2>6, <2>7, Zenon DEF BackedOK
\* A scope without lenders is left.
<1>LeaveScope. ASSUME NEW f, NEW sc, NEW O, NEW W, CallsOK(f, sc, O, W), sc # <<>>,
                      sc[Len(sc)].borrow_count = 0, sc[Len(sc)].lenders = <<>>
               PROVE  CallsOK(f, Left(sc), O, {w \in W : w[2] # Len(sc)})
  <2> USE <1>LeaveScope
  <2> DEFINE k == Len(sc)
  <2>1. /\ f \in Maps /\ sc \in Seq(ScopeType) /\ O \in SUBSET Nat
        /\ OwnersOK(f, O) /\ LendersOK(f, sc) /\ BorrowersOK(f, sc) /\ BackedOK(f, sc, W)
    BY DEF CallsOK
  <2>2. /\ k \in DOMAIN sc /\ Left(sc) \in Seq(ScopeType) /\ DOMAIN Left(sc) = DOMAIN sc \ {k}
        /\ \A m \in DOMAIN sc \ {k} : Left(sc)[m] = sc[m]
        /\ \A p : Lends(Left(sc), p) = Lends(sc, p) \ {k}
    BY <2>1, <1>LeftFacts, Zenon
  <2>3. \A p \in Owned(f) : p \in Places /\ k \notin Lends(sc, p)
    BY <2>1, MapFacts, LenderFacts, Zenon DEF Lends
  <2>4. LendersOK(f, Left(sc))
    <3>1. \A m \in DOMAIN Left(sc) : Left(sc)[m].lenders = <<>> \/ \E q \in Owned(f) : Left(sc)[m].lenders = Lent(q)
      BY <2>1, <2>2 DEF LendersOK
    <3>2. \A p \in Owned(f) : Lends(Left(sc), p) = Lends(sc, p)
      BY <2>2, <2>3, Zenon
    <3> QED
      BY <3>1, <3>2, <2>1, Zenon DEF LendersOK
  <2>5. BorrowersOK(f, Left(sc))
    BY <2>1, <2>2, Zenon DEF BorrowersOK
  <2>6. Borrowers(f, k) = {}
    <3>1. IsFiniteSet(Borrowers(f, k)) /\ Cardinality(Borrowers(f, k)) = 0
      BY <2>1, <2>2, Zenon DEF BorrowersOK
    <3> QED
      BY <3>1, FS_EmptySet, Zenon
  <2>7. BackedOK(f, Left(sc), {w \in W : w[2] # k})
    BY <2>1, <2>6, <1>BackedOutside, Zenon
  <2> QED
    BY <2>1, <2>2, <2>4, <2>5, <2>7, Zenon DEF CallsOK
\* A scope with a lender is left, and the lender counts one less.
<1>ReturnLend. ASSUME NEW f, NEW sc, NEW O, NEW W, CallsOK(f, sc, O, W), sc # <<>>,
                      sc[Len(sc)].borrow_count = 0, NEW p \in Owned(f), sc[Len(sc)].lenders = Lent(p)
               PROVE  /\ f[p].count \in Nat \ {0}
                      /\ CallsOK(Counted(f, p, f[p].count - 1), Left(sc), O, {w \in W : w[2] # Len(sc)})
  <2> USE <1>ReturnLend
  <2> DEFINE k == Len(sc)
             c == f[p].count
             d == c - 1
             g == Counted(f, p, d)
  <2>1. /\ f \in Maps /\ sc \in Seq(ScopeType) /\ O \in SUBSET Nat
        /\ OwnersOK(f, O) /\ LendersOK(f, sc) /\ BorrowersOK(f, sc) /\ BackedOK(f, sc, W)
    BY Zenon DEF CallsOK
  <2>2. /\ k \in DOMAIN sc /\ Left(sc) \in Seq(ScopeType) /\ DOMAIN Left(sc) = DOMAIN sc \ {k}
        /\ \A m \in DOMAIN sc \ {k} : Left(sc)[m] = sc[m]
        /\ \A q : Lends(Left(sc), q) = Lends(sc, q) \ {k}
    BY <2>1, <1>LeftFacts, Zenon
  <2>3. p \in Places /\ k \in Lends(sc, p) /\ \A q \in Owned(f) \ {p} : q \in Places /\ k \notin Lends(sc, q)
    BY <2>1, <2>2, MapFacts, LenderFacts, Zenon DEF Lends
  <2>4. IsFiniteSet(Lends(sc, p)) /\ c = Cardinality(Lends(sc, p)) /\ c \in Nat
    BY <2>1, LendsFinite, Zenon DEF LendersOK
  <2>5. c # 0 /\ d \in Nat
    <3>1. c # 0
      BY <2>3, <2>4, FS_EmptySet
    <3> QED
      BY <3>1, <2>4, SMTT(30)
  <2>6. Cardinality(Lends(sc, p) \ {k}) = d
    BY <2>3, <2>4, FS_RemoveElement, ZenonT(30)
  <2> HIDE DEF d
  <2>count. OnlyCount(f, p, d, g)
    BY <2>1, <2>5, CountedFacts, Zenon
  <2>7. /\ g \in Maps /\ DOMAIN g = DOMAIN f /\ Owned(g) = Owned(f) /\ Borrowed(g) = Borrowed(f)
        /\ g[p].count = d /\ \A q \in Owned(f) \ {p} : g[q].count = f[q].count
        /\ \A q \in DOMAIN f : g[q].rep = f[q].rep /\ g[q].kind = f[q].kind
        /\ \A q \in Borrowed(f) : g[q] = f[q]
    <3> HIDE DEF g
    <3> QED
      BY <2>count, Zenon DEF OnlyCount
  <2>8. OwnersOK(g, O) /\ \A m : Borrowers(g, m) = Borrowers(f, m)
    <3> HIDE DEF g
    <3> QED
      BY <2>1, <2>count, CountedKeeps
  <2> HIDE DEF g
  <2>9. LendersOK(g, Left(sc))
    <3>1. \A m \in DOMAIN Left(sc) : Left(sc)[m].lenders = <<>> \/ \E q \in Owned(g) : Left(sc)[m].lenders = Lent(q)
      BY <2>1, <2>2, <2>7 DEF LendersOK
    <3>2. \A q \in Owned(f) \ {p} : Lends(Left(sc), q) = Lends(sc, q)
      BY <2>2, <2>3, ZenonT(30)
    <3>3. \A q \in Owned(g) : g[q].count = Cardinality(Lends(Left(sc), q))
      BY <3>2, <2>1, <2>2, <2>6, <2>7, ZenonT(30) DEF LendersOK
    <3> QED
      BY <3>1, <3>3, ZenonT(30) DEF LendersOK
  <2>10. BorrowersOK(g, Left(sc))
    BY <2>1, <2>2, <2>8, Zenon DEF BorrowersOK
  <2>11. Borrowers(f, k) = {}
    <3>1. IsFiniteSet(Borrowers(f, k)) /\ Cardinality(Borrowers(f, k)) = 0
      BY <2>1, <2>2, ZenonT(30) DEF BorrowersOK
    <3> QED
      BY <3>1, FS_EmptySet, Zenon
  <2>12. BackedOK(g, Left(sc), {w \in W : w[2] # k})
    BY <2>1, <2>7, <2>11, <1>BackedOutside, SMTT(30)
  <2> QED
    BY <2>1, <2>2, <2>4, <2>5, <2>7, <2>8, <2>9, <2>10, <2>12, ZenonT(30) DEF CallsOK, g, d
\* exit_call with its loop over the lenders named.
<1>ExitLoop. ASSUME NEW s, s.scopes # <<>>, NEW cx, cx = s.scopes[Len(s.scopes)]
             PROVE  exit_call(s) = IF cx.borrow_count > 0 THEN Err(Popped(s))
                                   ELSE (CHOOSE f : f = Turn(f, Ok(Popped(s), {}), cx.lenders))[Len(cx.lenders)]
  BY <1>ExitLoop DEF exit_call, Then, Turn, Popped, Rescope, Left
\* The loop without a turn, and with one.
<1>NoTurn. ASSUME NEW a
           PROVE  (CHOOSE f : f = Turn(f, a, <<>>))[Len(<<>>)] = a
  <2> DEFINE F == [i \in 0..0 |-> a]
             R == CHOOSE f : f = Turn(f, a, <<>>)
  <2>1. F = Turn(F, a, <<>>)
    <3>1. Len(<<>>) = 0 /\ \A i \in 0..0 : i = 0
      OBVIOUS
    <3> QED
      BY <3>1 DEF Turn
  <2>2. R = Turn(R, a, <<>>)
    BY <2>1
  <2> HIDE DEF R
  <2>3. R[0] = a
    BY <2>2 DEF Turn
  <2> QED
    BY <2>3 DEF R
\* A scope has one lender at most, so the loop has one turn at most.
<1>OneTurn. ASSUME NEW a, a.r = "ok", NEW ls, Len(ls) = 1
            PROVE  (CHOOSE f : f = Turn(f, a, ls))[Len(ls)] = Return(a.st, ls[1])
  <2> USE <1>OneTurn
  <2> DEFINE F == [i \in 0..1 |-> IF i = 0 THEN a ELSE Return(a.st, ls[1])]
             R == CHOOSE f : f = Turn(f, a, ls)
  <2>1. F = Turn(F, a, ls)
    <3>1. F[0] = a
      OBVIOUS
    <3>2. \A i \in 0..1 : i # 0 => i = 1 /\ F[i - 1] = a
      BY <3>1, SMTT(30)
    <3>3. \A i \in 0..1 : F[i] = IF i = 0 THEN a ELSE IF F[i - 1].r = "ok" THEN Return(F[i - 1].st, ls[i]) ELSE F[i - 1]
      BY <3>1, <3>2
    <3>4. F = [i \in 0..1 |-> F[i]]
      OBVIOUS
    <3> HIDE DEF F
    <3> QED
      BY <3>3, <3>4 DEF Turn
  <2>2. R = Turn(R, a, ls)
    BY <2>1
  <2> HIDE DEF R
  <2>3. R[0] = a
    BY <2>2 DEF Turn
  <2>4. R[1] = Return(a.st, ls[1])
    BY <2>2, <2>3, SMTT(30) DEF Turn
  <2> QED
    BY <2>4 DEF R
<1>Main. ASSUME NEW s, NEW O, NEW W, NEW G, NEW D \in Nat \ {0}, Good(s, O, W, G, D)
         PROVE  Fine(exit_call(s), O, {w \in W : w[2] # D}, G, D - 1)
  <2> USE <1>Main
  <2> DEFINE f == Live(s)
             sc == Left(s.scopes)
             n == Popped(s)
             cx == s.scopes[D]
             a == Ok(n, {})
             V == {w \in W : w[2] # D}
  <2>1. /\ StateOK(s) /\ Len(s.scopes) = D /\ CallsOK(f, s.scopes, O, W) /\ GivenIn(s, G)
        /\ f \in Maps /\ s.scopes \in Seq(ScopeType) /\ s.scopes # <<>> /\ D \in DOMAIN s.scopes
    <3>1. StateOK(s) /\ Len(s.scopes) = D /\ CallsOK(f, s.scopes, O, W) /\ GivenIn(s, G)
      BY DEF Good
    <3>2. f \in Maps /\ s.scopes \in Seq(ScopeType)
      BY <3>1, SMTT(30) DEF CallsOK
    <3> QED
      BY <3>1, <3>2
  <2>2. sc \in Seq(ScopeType) /\ Len(sc) = D - 1
    BY <2>1, <1>LeftFacts, Zenon
  <2> HIDE DEF sc
  <2>3. /\ StateOK(n) /\ Live(n) = f /\ n.scopes = sc /\ n.tables = s.tables
        /\ n.cur_generation = s.cur_generation /\ n.metadata = s.metadata
    BY <2>1, <2>2, RescopeFacts, ZenonT(30) DEF Popped, sc
  <2>4. GivenIn(n, G)
    BY <2>1, <2>3 DEF GivenIn
  <2>5. exit_call(s) = IF cx.borrow_count > 0 THEN Err(n)
                       ELSE (CHOOSE g : g = Turn(g, a, cx.lenders))[Len(cx.lenders)]
    BY <2>1, <1>ExitLoop, Zenon
  <2>6. a.r = "ok" /\ a.st = n
    BY Zenon DEF Ok
  <2>7. cx.borrow_count \in Nat
    <3>1. cx \in ScopeType
      BY <2>1, SMTT(30)
    <3> QED
      BY <3>1, Zenon DEF ScopeType
  <2> HIDE DEF n, a
  <2>8. CASE cx.borrow_count > 0
    <3>1. exit_call(s) = Err(n)
      BY <2>5, <2>8, Zenon
    <3> QED
      BY <3>1, <2>4, SMTT(30) DEF Fine, Err
  <2>9. CASE ~(cx.borrow_count > 0)
    <3>1. cx.borrow_count = 0 /\ exit_call(s) = (CHOOSE g : g = Turn(g, a, cx.lenders))[Len(cx.lenders)]
      BY <2>5, <2>7, <2>9, SMTT(30)
    <3>2. cx.lenders = <<>> \/ \E p \in Owned(f) : cx.lenders = Lent(p)
      BY <2>1, Zenon DEF CallsOK, LendersOK
    <3>3. CASE cx.lenders = <<>>
      <4>1. exit_call(s) = a
        BY <3>1, <3>3, <1>NoTurn, ZenonT(30)
      <4>2. CallsOK(f, sc, O, V)
        BY <2>1, <3>1, <3>3, <1>LeaveScope, SMTT(30) DEF sc
      <4>3. Good(n, O, V, G, D - 1)
        BY <4>2, <2>2, <2>3, <2>4, ZenonT(30) DEF Good
      <4> QED
        BY <4>1, <4>3, <2>4, <2>6, Zenon DEF Fine
    <3>4. ASSUME NEW p \in Owned(f), cx.lenders = Lent(p)
          PROVE  Fine(exit_call(s), O, V, G, D - 1)
      <4> DEFINE t == p[1]
                 h == p[2]
                 c == f[p].count
                 d == c - 1
                 m == Reslot(n, t, h, d)
      <4>1. p \in Places /\ p \in DOMAIN f /\ f[p] \in OwnSlots
        BY <2>1, MapFacts, Zenon
      <4>2. t \in Tables /\ h \in Nat /\ p = <<t, h>>
        BY <4>1, SMTT(30) DEF Places
      <4>3. Len(Lent(p)) = 1 /\ Lent(p)[1].ty = t /\ Lent(p)[1].idx = h
        BY <4>1, LenderFacts, ZenonT(30)
      <4>4. exit_call(s) = Return(n, Lent(p)[1])
        BY <3>1, <3>4, <4>3, <2>6, <1>OneTurn, SMTT(30)
      <4>5. c \in Nat \ {0} /\ CallsOK(Counted(f, p, d), sc, O, V)
        <5>1. {w \in W : w[2] # Len(s.scopes)} = V
          BY <2>1, Zenon
        <5>2. s.scopes[Len(s.scopes)].borrow_count = 0 /\ s.scopes[Len(s.scopes)].lenders = Lent(p)
          BY <2>1, <3>1, <3>4, SMTT(30)
        <5> HIDE DEF V
        <5>3. c \in Nat \ {0}
          BY <2>1, <3>4, <5>2, <1>ReturnLend, Zenon
        <5>4. CallsOK(Counted(f, p, c - 1), Left(s.scopes), O, V)
          BY <2>1, <3>4, <5>1, <5>2, <1>ReturnLend, ZenonT(30)
        <5> QED
          BY <5>3, <5>4, Zenon DEF sc
      <4>6. Used(n, t, h) /\ SlotAt(n, t, h) = f[p] /\ f[p].kind = "own"
        <5>1. <<t, h>> \in DOMAIN Live(n)
          BY <4>1, <4>2, <2>3
        <5> QED
          BY <5>1, <4>1, <4>2, <2>3, UsedFacts, SMTT(30) DEF OwnSlots
      <4>7. Return(n, Lent(p)[1]) = Ok(m, {})
        <5>1. Return(n, Lent(p)[1]) = Ok([n EXCEPT !.tables[t].slots[h].count = @ - 1], {})
          BY <4>3, <4>5, <4>6, Zenon DEF Return
        <5>2. [n EXCEPT !.tables[t].slots[h].count = @ - 1] = m
          BY <4>6, Zenon DEF Reslot, Replace, Recounted, SlotAt
        <5> QED
          BY <5>1, <5>2, Zenon
      <4>8. d \in Nat
        BY <4>5, SMTT(30)
      <4> HIDE DEF d, t, h
      <4>9. /\ StateOK(m) /\ Live(m) = Counted(f, p, d) /\ m.scopes = sc
            /\ m.cur_generation = s.cur_generation /\ m.metadata = s.metadata
        BY <2>3, <3>4, <4>2, <4>8, ReslotFacts, SMTT(30)
      <4> HIDE DEF m
      <4>10. GivenIn(m, G)
        <5>1. GivenOK(Counted(f, p, d), s.metadata, s.cur_generation, G)
          BY <2>1, <3>4, <4>8, GivenCounted, Zenon DEF GivenIn
        <5> QED
          BY <5>1, <4>9, Zenon DEF GivenIn
      <4>11. Good(m, O, V, G, D - 1)
        BY <4>5, <4>9, <4>10, <2>2, Zenon DEF Good
      <4> QED
        BY <4>4, <4>7, <4>10, <4>11, SMTT(30) DEF Fine, Ok
    <3> QED
      BY <3>2, <3>3, <3>4, Zenon
  <2> QED
    BY <2>8, <2>9, Zenon
<1> QED
  BY <1>Main, Zenon

-----------------------------------------------------------------------------
(* The handles of the host *)

Bumped(s) == [s EXCEPT !.cur_generation = s.cur_generation + 1]

\* A removal starts a new generation, to which no handle belongs yet.
LEMMA BumpGood ==
    ASSUME NEW s, NEW O, NEW W, NEW G, NEW D, Good(s, O, W, G, D), NEW n, n = Bumped(s)
    PROVE  /\ Good(n, O, W, G, D) /\ Live(n) = Live(s) /\ n.metadata = s.metadata
           /\ \A any \in G : any.gen # n.cur_generation
\* A new generation is above those of all handles.
<1>GivenBumped. ASSUME NEW f, NEW md \in Seq(Nat), NEW cur \in Nat, NEW G0, GivenOK(f, md, cur, G0)
                PROVE  GivenOK(f, md, cur + 1, G0) /\ \A any \in G0 : any.gen # cur + 1
  <2> USE <1>GivenBumped
  <2>1. ASSUME NEW any \in G0
        PROVE  any.gen \in Nat /\ md[any.idx] \in Nat /\ any.gen <= md[any.idx] /\ md[any.idx] <= cur
    <3>1. any \in Anys /\ any.idx \in DOMAIN md /\ any.gen <= md[any.idx] /\ md[any.idx] <= cur
      BY Zenon DEF GivenOK
    <3> QED
      BY <3>1 DEF Anys
  <2>2. \A any \in G0 : any.gen # cur + 1 /\ md[any.idx] <= cur + 1
    BY <2>1
  <2> QED
    BY <2>2 DEF GivenOK
<1>1. StateOK(s) /\ Len(s.scopes) = D /\ CallsOK(Live(s), s.scopes, O, W) /\ GivenIn(s, G)
  BY DEF Good
<1> DEFINE cur == s.cur_generation + 1
<1>2. /\ s = [tables |-> s.tables, scopes |-> s.scopes, cur_generation |-> s.cur_generation,
              metadata |-> s.metadata]
      /\ s.tables \in [Tables -> TableType] /\ s.scopes \in Seq(ScopeType)
      /\ s.cur_generation \in Nat /\ s.metadata \in Seq(Nat) /\ cur \in Nat
  BY <1>1, StateFields
<1>3. GivenOK(Live(s), s.metadata, cur, G) /\ \A any \in G : any.gen # cur
  BY <1>1, <1>2, <1>GivenBumped, Zenon DEF GivenIn
<1> HIDE DEF cur
<1>4. n = [tables |-> s.tables, scopes |-> s.scopes, cur_generation |-> cur, metadata |-> s.metadata]
  BY <1>2, Zenon DEF Bumped, cur
<1>5. /\ n \in State /\ n.scopes = s.scopes /\ n.tables = s.tables
      /\ n.cur_generation = cur /\ n.metadata = s.metadata
  BY <1>2, <1>4, SMTT(30) DEF State
<1>6. Live(n) = Live(s)
  BY <1>5 DEF Live, Used, SlotAt
<1>7. StateOK(n)
  BY <1>1, <1>5 DEF StateOK
<1> QED
  BY <1>1, <1>3, <1>5, <1>6, <1>7, ZenonT(30) DEF Good, GivenIn

\* validate_host_index accepts a handle of the generation of its slot only.
LEMMA ValidateFacts ==
    ASSUME NEW s, NEW G, GivenIn(s, G), NEW any \in G, NEW is_removal \in BOOLEAN
    PROVE  /\ any \in Anys
           /\ validate_host_index(s, any, is_removal) =
                 IF s.metadata[any.idx] # any.gen THEN Err(s)
                 ELSE Ok(IF is_removal THEN Bumped(s) ELSE s, any.idx)
<1>1. any \in Anys /\ any.idx \in DOMAIN s.metadata
  BY Zenon DEF GivenIn, GivenOK
<1> QED
  BY <1>1 DEF validate_host_index, Bumped

\* host_resource_lift_own, host_resource_lift_borrow.
LEMMA HostLiftOwnFine ==
    ASSUME NEW s, NEW O, NEW W, NEW G, NEW D, Good(s, O, W, G, D), NEW any \in G,
           NEW res, res = host_resource_lift_own(s, any)
    PROVE  /\ res.r \in {"ok", "err"} /\ GivenIn(res.st, G)
           /\ res.r = "ok" => res.v \in O /\ Good(res.st, O \ {res.v}, W, G, D)
<1>1. GivenIn(s, G)
  BY DEF Good
<1> DEFINE n == Bumped(s)
           v == validate_host_index(s, any, TRUE)
<1>2. any \in Anys /\ v =
         IF s.metadata[any.idx] # any.gen THEN Err(s) ELSE Ok(n, any.idx)
  BY <1>1, ValidateFacts, Zenon
<1>3. Good(n, O, W, G, D) /\ \A b \in G : b.gen # n.cur_generation
  <2>1. n = Bumped(s)
    OBVIOUS
  <2> HIDE DEF n
  <2> QED
    BY <2>1, BumpGood
<1> HIDE DEF n
<1> HIDE DEF v
<1>4. CASE s.metadata[any.idx] # any.gen
  <2>0. v = Err(s) /\ v.r # "ok"
    BY <1>2, <1>4 DEF Err
  <2>1. res = Err(s)
    BY <2>0, Zenon DEF host_resource_lift_own, Then, v
  <2> QED
    BY <2>1, <1>1, SMTT(30) DEF Err
<1>5. CASE s.metadata[any.idx] = any.gen
  <2>0. v.r = "ok" /\ v.st = n /\ v.v = any.idx
    BY <1>2, <1>5 DEF Ok
  <2>1. res = resource_lift_own(n, Host, any.idx)
    BY <2>0, Zenon DEF host_resource_lift_own, Then, v
  <2>2. any.idx \in Nat /\ Host \in Tables
    BY <1>2, Zenon DEF Anys, Tables
  <2> QED
    BY <1>3, <2>1, <2>2, LiftOwnFine, ZenonT(30)
<1> QED
  BY <1>4, <1>5, Zenon

\* host_resource_lift_borrow lends a handle of the host: the call holds the rep.
LEMMA HostLiftBorrowFine ==
    ASSUME NEW s, NEW O, NEW W, NEW G, NEW D \in Nat \ {0}, Good(s, O, W, G, D), s.scopes[D].lenders = <<>>,
           NEW any \in G, NEW res, res = host_resource_lift_borrow(s, any)
    PROVE  /\ res.r \in {"ok", "err"} /\ GivenIn(res.st, G)
           /\ res.r = "ok" => res.v \in Nat /\ Good(res.st, O, W \cup {<<res.v, D>>}, G, D)
<1>1. GivenIn(s, G)
  BY Zenon DEF Good
<1> DEFINE v == validate_host_index(s, any, FALSE)
<1>2. any \in Anys /\ v =
         IF s.metadata[any.idx] # any.gen THEN Err(s) ELSE Ok(s, any.idx)
  BY <1>1, ValidateFacts, Zenon
<1> HIDE DEF v
<1>4. CASE s.metadata[any.idx] # any.gen
  <2>0. v = Err(s) /\ v.r # "ok"
    BY <1>2, <1>4, Zenon DEF Err
  <2>1. res = Err(s)
    BY <2>0, Zenon DEF host_resource_lift_borrow, Then, v
  <2> QED
    BY <2>1, <1>1, SMTT(30) DEF Err
<1>5. CASE s.metadata[any.idx] = any.gen
  <2>0. v.r = "ok" /\ v.st = s /\ v.v = any.idx
    BY <1>2, <1>5 DEF Ok
  <2>1. res = resource_lift_borrow(s, Host, any.idx)
    BY <2>0, Zenon DEF host_resource_lift_borrow, Then, v
  <2>2. any.idx \in Nat /\ Host \in Tables
    BY <1>2, Zenon DEF Anys, Tables
  <2> QED
    BY <2>1, <2>2, LiftBorrowFine, Zenon
<1> QED
  BY <1>4, <1>5

\* host_resource_drop never panics: a handle says truly whether it owns.
LEMMA HostDropFine ==
    ASSUME NEW s, NEW O, NEW W, NEW G, NEW D, Good(s, O, W, G, D), NEW any \in G,
           NEW res, res = host_resource_drop(s, any)
    PROVE  /\ res.r \in {"ok", "err"} /\ GivenIn(res.st, G)
           /\ res.r = "ok" => res.v \in SUBSET O /\ Good(res.st, O \ res.v, W, G, D)
<1>1. GivenIn(s, G)
  BY DEF Good
<1> DEFINE n == Bumped(s)
           v == validate_host_index(s, any, TRUE)
           p == <<Host, any.idx>>
           d == resource_drop(n, Host, any.idx)
<1>2. any \in Anys /\ v =
         IF s.metadata[any.idx] # any.gen THEN Err(s) ELSE Ok(n, any.idx)
  BY <1>1, ValidateFacts, Zenon
<1>3. Good(n, O, W, G, D) /\ Live(n) = Live(s) /\ \A b \in G : b.gen # n.cur_generation
  <2>1. n = Bumped(s)
    OBVIOUS
  <2> HIDE DEF n
  <2> QED
    BY <2>1, BumpGood, SMTT(30)
<1> HIDE DEF n
<1> HIDE DEF v
<1>4. CASE s.metadata[any.idx] # any.gen
  <2>0. v = Err(s) /\ v.r # "ok"
    BY <1>2, <1>4 DEF Err
  <2>1. res = Err(s)
    BY <2>0, Zenon DEF host_resource_drop, Then, v
  <2> QED
    BY <2>1, <1>1, SMTT(30) DEF Err
<1>5. CASE s.metadata[any.idx] = any.gen
  <2>0. v.r = "ok" /\ v.st = n /\ v.v = any.idx
    BY <1>2, <1>5 DEF Ok
  <2>1. res = IF d.r = "ok" THEN IF any.owned = (d.v # {}) THEN Ok(d.st, d.v) ELSE Panic(d.st) ELSE d
    BY <2>0, Zenon DEF host_resource_drop, Then, v
  <2>2. any.idx \in Nat /\ Host \in Tables
    BY <1>2, SMTT(30) DEF Anys, Tables
  <2>3. /\ d.r \in {"ok", "err"} /\ GivenIn(d.st, G)
        /\ d.r = "ok" => /\ d.v \in SUBSET O /\ Good(d.st, O \ d.v, W, G, D)
                         /\ p \in DOMAIN Live(n)
                         /\ (Live(n)[p].kind = "own") = (d.v # {})
    <3>1. Dropped(n, Host, any.idx, d, O, W, G, D)
      BY <1>3, <2>2, Drops, Zenon
    <3> QED
      BY <3>1, Zenon DEF Dropped
  <2> HIDE DEF d, p
  <2>4. d.r = "ok" => any.owned = (d.v # {})
    <3>1. p \in DOMAIN Live(s) => (Live(s)[p].kind = "own") = any.owned
      BY <1>1, <1>5, Zenon DEF GivenIn, GivenOK, p
    <3> QED
      BY <3>1, <2>3, <1>3, Zenon
  <2>5. CASE d.r = "ok"
    <3>1. res = Ok(d.st, d.v)
      BY <2>1, <2>4, <2>5, Zenon
    <3> QED
      BY <3>1, <2>3, <2>5, SMTT(30) DEF Ok
  <2>6. CASE d.r # "ok"
    BY <2>1, <2>3, <2>6, Zenon
  <2> QED
    BY <2>5, <2>6, Zenon
<1> QED
  BY <1>4, <1>5, ZenonT(30)

Noted(md, h, cur) == IF h \in DOMAIN md THEN [md EXCEPT ![h] = cur] ELSE Append(md, cur)

NotedAt(md, h, cur) == [k \in DOMAIN md \cup {h} |-> IF k = h THEN cur ELSE md[k]]

\* What new_host_index returns for a slot.
Stands(any, h, cur, slot) ==
    any \in Anys /\ any.idx = h /\ any.gen = cur /\ any.rep = slot.rep /\ any.owned = (slot.kind = "own")

-----------------------------------------------------------------------------
(* What crosses a boundary *)

AnyAt(h, cur, rep, owned) == [idx |-> h, gen |-> cur, rep |-> rep, owned |-> owned]
Remeta(s, m) == [s EXCEPT !.metadata = m]

Indexed(ins, rep, owned) == IF ins.r = "ok" THEN new_host_index(ins.st, ins.v, rep, owned) ELSE ins

\* new_host_index overwrites a generation or appends one, never leaves a gap.
LEMMA NotedFacts ==
    ASSUME NEW md \in Seq(Nat), NEW h \in Nat, h > 0, h <= Len(md) + 1, NEW cur \in Nat, NEW m, m = Noted(md, h, cur)
    PROVE  /\ m \in Seq(Nat) /\ m = NotedAt(md, h, cur)
           /\ Len(m) = IF h = Len(md) + 1 THEN h ELSE Len(md)
           /\ h \notin DOMAIN md => h = Len(md) + 1
<1>1. Len(md) \in Nat /\ DOMAIN md = 1..Len(md)
  OBVIOUS
<1>2. CASE h \in DOMAIN md
  <2>1. m = [md EXCEPT ![h] = cur]
    BY <1>2 DEF Noted
  <2>2. m \in Seq(Nat) /\ Len(m) = Len(md) /\ DOMAIN m = DOMAIN md
    BY <1>1, <1>2, <2>1, SMTT(30)
  <2>3. m[h] = cur /\ \A k \in DOMAIN md \ {h} : m[k] = md[k]
    BY <2>1, <1>2
  <2>4. h # Len(md) + 1 /\ DOMAIN md = DOMAIN md \cup {h}
    BY <1>1, <1>2
  <2>5. m = NotedAt(md, h, cur)
    BY <2>2, <2>3, <2>4, SMTT(30) DEF NotedAt
  <2> QED
    BY <1>2, <2>2, <2>4, <2>5, Zenon
<1>3. CASE h \notin DOMAIN md
  <2>0. h = Len(md) + 1
    BY <1>1, <1>3
  <2>1. m = Append(md, cur) /\ h = Len(md) + 1
    BY <2>0, <1>3, Zenon DEF Noted
  <2>2. m \in Seq(Nat) /\ Len(m) = h
    BY <2>1
  <2>3. m[h] = cur /\ \A k \in DOMAIN md \ {h} : m[k] = md[k]
    BY <2>1, <1>1
  <2>4. 1..h = (1..Len(md)) \cup {h} /\ DOMAIN m = 1..h
    BY <1>1, <2>1, <2>2, SMTT(30)
  <2>5. m = NotedAt(md, h, cur)
    BY <1>1, <2>2, <2>3, <2>4, SMTT(30) DEF NotedAt
  <2> QED
    BY <2>1, <2>2, <2>5
<1> QED
  BY <1>2, <1>3

\* A slot that was free gets the current generation, which no handle of it had.
LEMMA GivenAdded ==
    ASSUME NEW f, NEW md \in Seq(Nat), NEW cur \in Nat, NEW G, GivenOK(f, md, cur, G),
           NEW h \in Nat, h > 0, h <= Len(md) + 1, <<Host, h>> \notin DOMAIN f, NEW slot,
           NEW any, Stands(any, h, cur, slot), NEW m, m = Noted(md, h, cur)
    PROVE  GivenOK(With(f, <<Host, h>>, slot), m, cur, G \cup {any})
<1> DEFINE p == <<Host, h>>
           g == With(f, p, slot)
<1>1. DOMAIN m = DOMAIN md \cup {h} /\ m[h] = cur /\ \A k \in DOMAIN md \ {h} : m[k] = md[k]
  <2> HIDE DEF p, g
  <2>1. m = NotedAt(md, h, cur)
    BY NotedFacts, SMTT(30)
  <2> QED
    BY <2>1, ZenonT(30) DEF NotedAt
<1>2. p \in DOMAIN g /\ g[p] = slot /\ DOMAIN g = DOMAIN f \cup {p} /\ \A q \in DOMAIN f \ {p} : g[q] = f[q]
  BY Zenon DEF With
<1> HIDE DEF g
<1>3. ASSUME NEW b \in G \cup {any}
      PROVE  /\ b \in Anys
             /\ b.idx \in DOMAIN m /\ b.gen <= m[b.idx] /\ m[b.idx] <= cur
             /\ b.gen = cur => <<Host, b.idx>> \in DOMAIN g
             /\ m[b.idx] = b.gen /\ <<Host, b.idx>> \in DOMAIN g =>
                  /\ g[<<Host, b.idx>>].rep = b.rep
                  /\ (g[<<Host, b.idx>>].kind = "own") = b.owned
  <2>1. CASE b = any
    <3>1. <<Host, b.idx>> = p /\ b \in Anys
      BY <2>1, Zenon DEF Stands
    <3> HIDE DEF p
    <3>2. (g[p].kind = "own") = b.owned
      BY <2>1, <1>2, Zenon DEF Stands
    <3>3. b.idx \in DOMAIN m /\ b.gen = m[b.idx] /\ m[b.idx] = cur /\ g[p].rep = b.rep
      BY <2>1, <1>1, <1>2, ZenonT(30) DEF Stands
    <3>4. cur <= cur
      BY SMTT(30)
    <3> QED
      BY <2>1, <3>1, <3>2, <3>3, <3>4, <1>2, Zenon
  <2>2. CASE b \in G
    <3>1. /\ b \in Anys
          /\ b.idx \in DOMAIN md /\ b.gen <= md[b.idx] /\ md[b.idx] <= cur
          /\ b.gen = cur => <<Host, b.idx>> \in DOMAIN f
          /\ md[b.idx] = b.gen /\ <<Host, b.idx>> \in DOMAIN f =>
                /\ f[<<Host, b.idx>>].rep = b.rep
                /\ (f[<<Host, b.idx>>].kind = "own") = b.owned
      BY <2>2, ZenonT(30) DEF GivenOK
    <3>2. b.gen \in Nat /\ md[b.idx] \in Nat
      BY <3>1, SMTT(30) DEF Anys
    <3>3. CASE b.idx = h
      <4>1. b.gen # cur
        BY <3>1, <3>3, ZenonT(30)
      <4>2. b.gen <= cur /\ m[b.idx] = cur /\ b.idx \in DOMAIN m
        BY <3>1, <3>2, <3>3, <1>1, SMTT(30)
      <4> QED
        BY <3>1, <4>1, <4>2, SMTT(30)
    <3>4. CASE b.idx # h
      <4>1. <<Host, b.idx>> # p
        BY <3>4, Zenon
      <4>2. m[b.idx] = md[b.idx] /\ b.idx \in DOMAIN m
        BY <3>1, <3>4, <1>1, Zenon
      <4> DEFINE z == <<Host, b.idx>>
      <4>0. z # p
        BY <4>1, Zenon
      <4>4. /\ b.gen = cur => z \in DOMAIN f
            /\ md[b.idx] = b.gen /\ z \in DOMAIN f => f[z].rep = b.rep /\ (f[z].kind = "own") = b.owned
        BY <3>1, Zenon
      <4> HIDE DEF z, p
      <4>3. /\ z \in DOMAIN g <=> z \in DOMAIN f
            /\ z \in DOMAIN f => g[z] = f[z]
        BY <4>0, <1>2, Zenon
      <4>5. /\ b.gen = cur => z \in DOMAIN g
            /\ m[b.idx] = b.gen /\ z \in DOMAIN g => g[z].rep = b.rep /\ (g[z].kind = "own") = b.owned
        BY <4>2, <4>3, <4>4, Zenon
      <4> QED
        BY <3>1, <4>2, <4>5, Zenon DEF z
    <3> QED
      BY <3>3, <3>4, Zenon
  <2> QED
    BY <2>1, <2>2, Zenon
<1>4. GivenOK(g, m, cur, G \cup {any})
  BY <1>3, Zenon DEF GivenOK
<1> QED
  BY <1>4, Zenon DEF g

\* m, the generations with one more noted: their number is that of the host's slots.
NotedFine(md, h, m) == m \in Seq(Nat) /\ Len(m) = IF h = Len(md) + 1 THEN h ELSE Len(md)

\* NotedFacts, of the expression itself.
LEMMA NotedIs ==
    ASSUME NEW md \in Seq(Nat), NEW h \in Nat, h > 0, h <= Len(md) + 1, NEW cur \in Nat
    PROVE  NotedFine(md, h, Noted(md, h, cur))
BY NotedFacts DEF NotedFine

\* new_host_index of slot h yields state k and handle v.
Makes(n, h, rep, owned, k, v) == new_host_index(n, h, rep, owned) = Ok(k, v)

\* new_host_index does not panic where the host's table has a slot for each generation,
\* or for all but the last.
LEMMA NewIndex ==
    ASSUME NEW n, NEW h, h \in DOMAIN n.metadata \/ h = Len(n.metadata) + 1, NEW rep, NEW owned
    PROVE  Makes(n, h, rep, owned, Remeta(n, Noted(n.metadata, h, n.cur_generation)),
                 AnyAt(h, n.cur_generation, rep, owned))
<1> DEFINE md == n.metadata
           cur == n.cur_generation
<1>1. CASE h \in DOMAIN md
  <2>1. Noted(md, h, cur) = [md EXCEPT ![h] = cur]
    BY <1>1 DEF Noted
  <2> QED
    BY <1>1, <2>1, Zenon DEF Makes, new_host_index, Remeta, AnyAt
<1>2. CASE h \notin DOMAIN md
  <2>1. Noted(md, h, cur) = Append(md, cur)
    BY <1>2, Zenon DEF Noted
  <2> QED
    BY <1>2, <2>1, Zenon DEF Makes, new_host_index, Remeta, AnyAt
<1> QED
  BY <1>1, <1>2, Zenon

\* A slot without a generation is not that of a handle.
LEMMA GivenBeyond ==
    ASSUME NEW f, NEW md, NEW cur, NEW G, GivenOK(f, md, cur, G), NEW h, h \notin DOMAIN md, NEW slot
    PROVE  GivenOK(With(f, <<Host, h>>, slot), md, cur, G)
<1> DEFINE p == <<Host, h>>
           g == With(f, p, slot)
<1>1. DOMAIN g = DOMAIN f \cup {p} /\ \A q \in DOMAIN f \ {p} : g[q] = f[q]
  BY Zenon DEF With
<1>2. \A any \in G : <<Host, any.idx>> # p
  BY ZenonT(30) DEF GivenOK
<1> HIDE DEF g, p
<1>3. GivenOK(g, md, cur, G)
  BY <1>1, <1>2, SMTT(30) DEF GivenOK
<1> QED
  BY <1>3, Zenon DEF g, p

\* The parts of a result.
LEMMA ResultParts ==
    ASSUME NEW n, NEW v
    PROVE  /\ Err(n).r = "err" /\ Err(n).st = n
           /\ Ok(n, v).r = "ok" /\ Ok(n, v).st = n /\ Ok(n, v).v = v
BY DEF Ok, Err

\* An error of insert is passed on; an index becomes a host handle.
LEMMA IndexedIs ==
    ASSUME NEW n, NEW h, NEW rep, NEW owned
    PROVE  /\ Indexed(Err(n), rep, owned) = Err(n)
           /\ Indexed(Ok(n, h), rep, owned) = new_host_index(n, h, rep, owned)
BY ResultParts, SMTT(30) DEF Indexed

\* The host is handed the new handle, or an error.
Handed(res, O, W, G, D) ==
    /\ res.r \in {"ok", "err"} /\ GivenIn(res.st, G)
    /\ res.r = "ok" => Good(res.st, O, W, G \cup {res.v}, D)

\* An error hands nothing out.
LEMMA ErrHanded ==
    ASSUME NEW n, NEW rep, NEW owned, NEW O, NEW W, NEW G, NEW D, GivenIn(n, G)
    PROVE  Handed(Indexed(Err(n), rep, owned), O, W, G, D)
BY ResultParts, IndexedIs DEF Handed

\* A state that is good with the new handle hands it out.
LEMMA OkHanded ==
    ASSUME NEW n, NEW h, NEW rep, NEW owned, NEW O, NEW W, NEW G, NEW D, NEW k, NEW v, GivenIn(k, G),
           Good(k, O, W, G \cup {v}, D), Makes(n, h, rep, owned, k, v)
    PROVE  Handed(Indexed(Ok(n, h), rep, owned), O, W, G, D)
<1>1. Handed(Ok(k, v), O, W, G, D)
  BY ResultParts DEF Handed
<1>2. Indexed(Ok(n, h), rep, owned) = Ok(k, v)
  BY IndexedIs DEF Makes
<1> QED
  BY <1>1, <1>2, Zenon

\* What insert does to the host's table, with h and n its index and its outcome.
HostPut(s, slot, h, n) ==
    /\ insert(s, Host, slot) = IF h >= MAX_RESOURCE_HANDLE THEN Err(n) ELSE Ok(n, h)
    /\ h \in Nat /\ <<Host, h>> \in Places \ DOMAIN Live(s)
    /\ Live(n) = With(Live(s), <<Host, h>>, slot)
    /\ n.scopes = s.scopes /\ n.cur_generation = s.cur_generation /\ n.metadata = s.metadata
    /\ h < MAX_RESOURCE_HANDLE => n \in State /\ \A u \in Tables : TableOK(n.tables[u])
    /\ h > 0 /\ h <= Len(s.metadata) + 1
    /\ h \in DOMAIN s.metadata \/ h = Len(s.metadata) + 1
    /\ h >= MAX_RESOURCE_HANDLE => h \notin DOMAIN s.metadata
    /\ ~(h >= MAX_RESOURCE_HANDLE) => h < MAX_RESOURCE_HANDLE
    /\ Len(n.tables[Host].slots) = IF h = Len(s.metadata) + 1 THEN h ELSE Len(s.metadata)

\* insert puts the slot at the host's next index.
LEMMA HostPutFacts ==
    ASSUME NEW s, StateOK(s), NEW slot \in InUse
    PROVE  HostPut(s, slot, s.tables[Host].next, Put(s, Host, slot))
<1> DEFINE h == s.tables[Host].next
           n == Put(s, Host, slot)
<1>1. s.metadata \in Seq(Nat) /\ Host \in Tables
  BY StateFields, SMTT(30) DEF Tables
<1>2. h = s.tables[Host].next /\ n = Put(s, Host, slot)
  BY Zenon
<1> HIDE DEF h, n
<1>3. /\ insert(s, Host, slot) = IF h >= MAX_RESOURCE_HANDLE THEN Err(n) ELSE Ok(n, h)
      /\ h \in Nat /\ <<Host, h>> \in Places \ DOMAIN Live(s)
      /\ Live(n) = With(Live(s), <<Host, h>>, slot)
      /\ n.scopes = s.scopes /\ n.cur_generation = s.cur_generation /\ n.metadata = s.metadata
      /\ h < MAX_RESOURCE_HANDLE => n \in State /\ \A u \in Tables : TableOK(n.tables[u])
      /\ h > 0 /\ h <= Len(s.metadata) + 1 /\ Len(s.metadata) \in Nat
      /\ h >= MAX_RESOURCE_HANDLE => h \notin DOMAIN s.metadata
      /\ Len(n.tables[Host].slots) = IF h = Len(s.metadata) + 1 THEN h ELSE Len(s.metadata)
  BY <1>1, <1>2, InsertFacts, SMTT(30)
<1>4. h \in DOMAIN s.metadata \/ h = Len(s.metadata) + 1
  BY <1>1, <1>3, SMTT(30)
<1>5. ~(h >= MAX_RESOURCE_HANDLE) => h < MAX_RESOURCE_HANDLE
  BY <1>3, ResourceAssumption, SMTT(30)
<1>6. HostPut(s, slot, h, n)
  BY <1>3, <1>4, <1>5, Zenon DEF HostPut
<1> QED
  BY <1>6, Zenon DEF h, n

\* insert into the host's table followed by new_host_index.
LEMMA HostInsertFine ==
    ASSUME NEW s, StateOK(s), NEW G, GivenIn(s, G), NEW slot \in InUse, NEW owned \in BOOLEAN,
           owned <=> slot.kind = "own", NEW O, NEW W,
           CallsOK(With(Live(s), <<Host, s.tables[Host].next>>, slot), s.scopes, O, W)
    PROVE  Handed(Indexed(insert(s, Host, slot), slot.rep, owned), O, W, G, Len(s.scopes))
<1> DEFINE h == s.tables[Host].next
           n == Put(s, Host, slot)
           cur == s.cur_generation
           md == s.metadata
           m == Noted(md, h, cur)
           k == Remeta(n, m)
           any == AnyAt(h, cur, slot.rep, owned)
           g == With(Live(s), <<Host, h>>, slot)
<1>1. cur \in Nat /\ md \in Seq(Nat) /\ Len(md) \in Nat
  BY StateFields, SMTT(30)
<1>2. HostPut(s, slot, h, n)
  BY HostPutFacts, Zenon
<1>3. slot.rep \in Nat
  BY Zenon DEF InUse, OwnSlots, BorrowSlots
<1>4. Stands(any, h, cur, slot)
  BY <1>1, <1>2, <1>3, Zenon DEF Stands, AnyAt, Anys, HostPut
<1>5. GivenOK(Live(s), md, cur, G)
  BY Zenon DEF GivenIn
<1>6. CallsOK(g, s.scopes, O, W)
  BY ZenonT(30)
<1>7. h \in Nat /\ h > 0 /\ h <= Len(md) + 1 /\ <<Host, h>> \notin DOMAIN Live(s)
  BY <1>2, Zenon DEF HostPut
<1>8. Makes(n, h, slot.rep, owned, k, any)
  <2>1. n.metadata = md /\ n.cur_generation = cur
    BY <1>2, Zenon DEF HostPut
  <2>2. h \in DOMAIN n.metadata \/ h = Len(n.metadata) + 1
    BY <1>2, Zenon DEF HostPut
  <2> HIDE DEF h, n, md, cur
  <2>3. Makes(n, h, slot.rep, owned, Remeta(n, Noted(n.metadata, h, n.cur_generation)),
             AnyAt(h, n.cur_generation, slot.rep, owned))
    BY <2>2, NewIndex, Zenon
  <2> QED
    BY <2>1, <2>3, Zenon
<1>9. GivenOK(g, m, cur, G \cup {any})
  <2>1. m = Noted(md, h, cur)
    BY Zenon
  <2> HIDE DEF h, m, any, cur, md
  <2> QED
    BY <1>1, <1>4, <1>5, <1>7, <2>1, GivenAdded, Zenon
<1>10. m \in Seq(Nat) /\ Len(m) = IF h = Len(md) + 1 THEN h ELSE Len(md)
  <2> HIDE DEF h, cur, md
  <2>1. NotedFine(md, h, m)
    BY <1>1, <1>7, NotedIs, Zenon
  <2> QED
    BY <2>1, Zenon DEF NotedFine
<1>11. Live(n) = g /\ n.scopes = s.scopes /\ n.cur_generation = cur /\ n.metadata = md
  BY <1>2, Zenon DEF HostPut
<1> HIDE DEF h, n, cur, m, any, g
<1>12. CASE h >= MAX_RESOURCE_HANDLE
  <2>1. insert(s, Host, slot) = Err(n) /\ h \notin DOMAIN md
    BY <1>2, <1>12, Zenon DEF HostPut
  <2>3. GivenOK(g, md, cur, G)
    BY <1>5, <2>1, GivenBeyond, Zenon DEF g
  <2>4. GivenIn(n, G)
    BY <2>3, <1>11, Zenon DEF GivenIn
  <2>5. Handed(Indexed(Err(n), slot.rep, owned), O, W, G, Len(s.scopes))
    BY <2>4, ErrHanded, Zenon
  <2> QED
    BY <2>1, <2>5, Zenon
<1>13. CASE ~(h >= MAX_RESOURCE_HANDLE)
  <2>1. insert(s, Host, slot) = Ok(n, h) /\ n \in State /\ \A u \in Tables : TableOK(n.tables[u])
    BY <1>2, <1>13, Zenon DEF HostPut
  <2> HIDE DEF md
  <2>4. k \in State /\ k.tables = n.tables /\ k.scopes = n.scopes /\ k.cur_generation = n.cur_generation /\ k.metadata = m
    BY <2>1, <1>10, Zenon DEF State, Remeta
  <2>5. StateOK(k)
    BY <2>1, <2>4, <1>2, <1>10, Zenon DEF StateOK, HostPut, md
  <2>6. Live(k) = g
    BY <2>4, <1>11, Zenon DEF Live, Used, SlotAt
  <2> HIDE DEF k
  <2>7. GivenIn(k, G \cup {any})
    BY <1>9, <1>11, <2>4, <2>6, Zenon DEF GivenIn
  <2>8. Good(k, O, W, G \cup {any}, Len(s.scopes))
    BY <1>6, <1>11, <2>4, <2>5, <2>6, <2>7, Zenon DEF Good
  <2>9. GivenIn(k, G)
    BY <2>7, Zenon DEF GivenIn, GivenOK
  <2>10. Handed(Indexed(Ok(n, h), slot.rep, owned), O, W, G, Len(s.scopes))
    BY <1>8, <2>8, <2>9, OkHanded, Zenon
  <2> QED
    BY <2>1, <2>10, Zenon
<1> QED
  BY <1>12, <1>13, Zenon

\* host_resource_lower_own and host_resource_lower_borrow: the handle joins those given.
LEMMA HostLowerOwnFine ==
    ASSUME NEW s, NEW O, NEW W, NEW G, NEW D, Good(s, O, W, G, D), NEW r \in Nat \ O,
           NEW res, res = host_resource_lower_own(s, r)
    PROVE  /\ res.r \in {"ok", "err"} /\ GivenIn(res.st, G)
           /\ res.r = "ok" => Good(res.st, O \cup {r}, W, G \cup {res.v}, D)
<1> DEFINE h == s.tables[Host].next
           ins == insert(s, Host, Own(r))
<1>1. StateOK(s) /\ Len(s.scopes) = D /\ CallsOK(Live(s), s.scopes, O, W) /\ GivenIn(s, G)
  BY DEF Good
<1>2. Own(r) \in InUse /\ Own(r).kind = "own" /\ Own(r).rep = r
  BY DEF Own, OwnSlots, InUse
<1>3. Host \in Tables
  BY SMTT(30) DEF Tables
<1>4. <<Host, h>> \in Places \ DOMAIN Live(s)
  BY <1>1, <1>2, <1>3, InsertFacts, Zenon
<1>5. CallsOK(With(Live(s), <<Host, h>>, Own(r)), s.scopes, O \cup {r}, W)
  BY <1>1, <1>4, AddOwn, Zenon
<1> DEFINE e == Own(r)
           o == TRUE
<1>6. res = Indexed(ins, e.rep, o)
  BY <1>2 DEF host_resource_lower_own, resource_lower_own, Then, Indexed
<1>7. ins = insert(s, Host, e) /\ o \in BOOLEAN /\ e \in InUse /\ (o <=> e.kind = "own")
  BY <1>2, Zenon
<1>8. CallsOK(With(Live(s), <<Host, s.tables[Host].next>>, e), s.scopes, O \cup {r}, W)
  BY <1>5, SMTT(30)
<1> HIDE DEF e, o
<1>9. Handed(Indexed(insert(s, Host, e), e.rep, o), O \cup {r}, W, G, Len(s.scopes))
  BY <1>1, <1>7, <1>8, HostInsertFine, Zenon
<1> QED
  BY <1>1, <1>6, <1>7, <1>9, Zenon DEF Handed

\* host_resource_lower_borrow gives the host a handle for a borrow it was passed as a rep.
LEMMA HostLowerBorrowFine ==
    ASSUME NEW s, NEW O, NEW W, NEW G, NEW D \in Nat \ {0}, Good(s, O, W, G, D), NEW r \in Nat, <<r, D>> \in W,
           NEW res, res = host_resource_lower_borrow(s, r)
    PROVE  /\ res.r \in {"ok", "err"} /\ GivenIn(res.st, G)
           /\ res.r = "ok" => Good(res.st, O, W, G \cup {res.v}, D)
<1>1. Host \in Tables
  BY Zenon DEF Tables
<1>2. PICK n : \E e \in InUse :
             /\ resource_lower_borrow(s, Host, r) = insert(n, Host, e)
             /\ StateOK(n) /\ GivenIn(n, G) /\ Len(n.scopes) = D /\ e.kind = "borrow" /\ e.rep = r
             /\ CallsOK(With(Live(n), <<Host, n.tables[Host].next>>, e), n.scopes, O, W)
  BY <1>1, LowerBorrowInserts
<1>3. PICK e \in InUse :
             /\ resource_lower_borrow(s, Host, r) = insert(n, Host, e)
             /\ StateOK(n) /\ GivenIn(n, G) /\ Len(n.scopes) = D /\ e.kind = "borrow" /\ e.rep = r
             /\ CallsOK(With(Live(n), <<Host, n.tables[Host].next>>, e), n.scopes, O, W)
  BY <1>2, Zenon
<1> DEFINE ins == insert(n, Host, e)
<1> DEFINE o == FALSE
<1>6. res = Indexed(ins, e.rep, o)
  BY <1>3, Zenon DEF host_resource_lower_borrow, Then, Indexed
<1>7. ins = insert(n, Host, e) /\ o \in BOOLEAN /\ (o <=> e.kind = "own")
  BY <1>3
<1> HIDE DEF o
<1>8. Handed(Indexed(insert(n, Host, e), e.rep, o), O, W, G, Len(n.scopes))
  BY <1>3, <1>7, HostInsertFine, Zenon
<1> QED
  BY <1>3, <1>6, <1>7, <1>8, Zenon DEF Handed
=============================================================================
