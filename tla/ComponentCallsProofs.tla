------------------------ MODULE ComponentCallsProofs ------------------------
(***************************************************************************)
(* Proofs about ComponentCalls, for any instances and any bounds: no       *)
(* operation on the tables panics, borrows are tracked exactly, and every  *)
(* resource has one owner and is alive while it is borrowed.               *)
(*                                                                         *)
(* IndInv relates the tables to the calls: the scopes are those of the     *)
(* frames, the reps that have an owner are those created and not yet       *)
(* destroyed, and the borrows that are in no table are those the frames    *)
(* hold as reps. Every step lands in a good state or in an error.          *)
(***************************************************************************)
EXTENDS ComponentCalls, ResourceTablesProofs

\* The scope of a frame, counted from the outermost.
ScopeOf(fr, n) == Cardinality({m \in 1..n : fr[m].scoped})
Depth(fr) == ScopeOf(fr, Len(fr))

Frames == [kind : {"import", "adapter", "func"}, inst : Instances, scoped : BOOLEAN,
           raw : SUBSET Nat, done : BOOLEAN]
HasScope(f) == (f.kind # "adapter" \/ f.raw # {}) => f.scoped
FramesOK(fr) ==
    /\ fr \in Seq(Frames) /\ Len(fr) <= MaxFrames
    /\ \A n \in DOMAIN fr : HasScope(fr[n])

Raws(fr) == UNION {{<<r, ScopeOf(fr, n)>> : r \in fr[n].raw} : n \in DOMAIN fr}
Alive == {r \in 1..created : destroyed[r] = 0}

CountersOK ==
    /\ created \in 0..MaxReps
    /\ destroyed \in [1..MaxReps -> 0..1]
    /\ \A r \in 1..MaxReps : r > created => destroyed[r] = 0

IndInv ==
    /\ status \in {"ok", "err"}
    /\ GivenIn(st, given)
    /\ status = "ok" =>
          /\ CountersOK /\ FramesOK(frames)
          /\ Good(st, Alive, Raws(frames), given, Depth(frames))

Tagged(R, D) == {<<r, D>> : r \in R}
Rawly(i, x, v, D) == Tagged(Raw(i, x, v), D)
GivenTo(x, v, G) == IF x.kind = "none" THEN G ELSE G \cup {v}

\* A frame may forget the reps it was passed.
LEMMA ForgetGood ==
    ASSUME NEW s, NEW O, NEW W, NEW G, NEW D, Good(s, O, W, G, D), NEW V \in SUBSET W
    PROVE  Good(s, O, V, G, D)
BY Forget DEF Good

\* guest_resource_lower_borrow: the definer gets the rep and every other instance a borrow.
LEMMA GuestLowerBorrowFine ==
    ASSUME NEW s, NEW O, NEW W, NEW G, NEW D \in Nat \ {0}, NEW r \in Nat, Good(s, O, W \cup {<<r, D>>}, G, D),
           NEW i \in Instances, NEW x, x.kind = "borrow", NEW res, res = guest_resource_lower_borrow(s, i, r)
    PROVE  /\ res.r \in {"ok", "err"} /\ GivenIn(res.st, G)
           /\ res.r = "ok" => Good(res.st, O, W \cup Rawly(i, x, res.v, D), G, D)
<1>1. CASE i = Definer
  <2>1. res = Ok(s, r)
    BY <1>1 DEF guest_resource_lower_borrow
  <2>2. Rawly(i, x, r, D) = {<<r, D>>}
    BY <1>1 DEF Rawly, Tagged, Raw
  <2>3. GivenIn(s, G)
    BY DEF Good
  <2> QED
    BY <2>1, <2>2, <2>3 DEF Ok
<1>2. CASE i # Definer
  <2> DEFINE V == W \cup {<<r, D>>}
  <2>1. res = resource_lower_borrow(s, i, r)
    BY <1>2 DEF guest_resource_lower_borrow
  <2>2. Good(s, O, V, G, D) /\ <<r, D>> \in V /\ W \in SUBSET V
    OBVIOUS
  <2> HIDE DEF V
  <2>3. Fine(res, O, V, G, D)
    BY <2>1, <2>2, LowerBorrowFine
  <2>4. Rawly(i, x, res.v, D) = {}
    BY <1>2 DEF Rawly, Tagged, Raw
  <2>5. res.r = "ok" => Good(res.st, O, W, G, D)
    BY <2>2, <2>3, ForgetGood DEF Fine
  <2> QED
    BY <2>3, <2>4, <2>5 DEF Fine
<1> QED
  BY <1>1, <1>2

\* An argument is no resource, an owned one or a borrowed one.
LEMMA ValueFacts ==
    ASSUME NEW H, NEW x \in Values({"own", "borrow"}, H)
    PROVE  \/ x.kind = "none"
           \/ x.kind = "own" /\ x.of \in H
           \/ x.kind = "borrow" /\ x.of \in H
BY DEF Values, None

\* The second step of the crossing of an own: what one table loses another gets.
LEMMA OwnLowered ==
    ASSUME NEW v, NEW O, NEW W, NEW G, NEW D, NEW i \in Instances, O \in SUBSET Nat,
           v.r \in {"ok", "err"}, GivenIn(v.st, G),
           v.r = "ok" => v.v \in O /\ Good(v.st, O \ {v.v}, W, G, D),
           NEW res, res = IF v.r = "ok" THEN resource_lower_own(v.st, i, v.v) ELSE v
    PROVE  Fine(res, O, W, G, D)
<1>1. CASE v.r = "ok"
  <2> DEFINE r == v.v
             t == v.st
             P == O \ {r}
  <2>1. r \in Nat \ P /\ P \cup {r} = O /\ Good(t, P, W, G, D) /\ res = resource_lower_own(t, i, r)
    BY <1>1, Zenon
  <2> HIDE DEF r, t, P
  <2> QED
    BY <2>1, LowerOwnFine
<1>2. CASE v.r # "ok"
  BY <1>2 DEF Fine
<1> QED
  BY <1>1, <1>2

\* A borrow that was lifted is lowered into an instance: as a rep where it defines the type.
LEMMA BorrowLowered ==
    ASSUME NEW v, NEW O, NEW W, NEW G, NEW D \in Nat \ {0}, NEW i \in Instances, NEW x, x.kind = "borrow",
           v.r \in {"ok", "err"}, GivenIn(v.st, G),
           v.r = "ok" => v.v \in Nat /\ Good(v.st, O, W \cup {<<v.v, D>>}, G, D),
           NEW res, res = IF v.r = "ok" THEN guest_resource_lower_borrow(v.st, i, v.v) ELSE v
    PROVE  /\ res.r \in {"ok", "err"} /\ GivenIn(res.st, G)
           /\ res.r = "ok" => Good(res.st, O, W \cup Rawly(i, x, res.v, D), G, D)
<1>1. CASE v.r = "ok"
  <2> DEFINE r == v.v
             t == v.st
  <2>1. r \in Nat /\ Good(t, O, W \cup {<<r, D>>}, G, D) /\ res = guest_resource_lower_borrow(t, i, r)
    BY <1>1
  <2> HIDE DEF r, t
  <2> QED
    BY <2>1, GuestLowerBorrowFine, Zenon
<1>2. CASE v.r # "ok"
  BY <1>2
<1> QED
  BY <1>1, <1>2

\* The types that a good state implies.
LEMMA OwnersAreNat ==
    ASSUME NEW s, NEW O, NEW W, NEW G, NEW D, Good(s, O, W, G, D)
    PROVE  O \in SUBSET Nat /\ StateOK(s) /\ GivenIn(s, G)
BY DEF Good, CallsOK

\* Only a borrow is ever passed as a rep.
LEMMA NotRaw ==
    ASSUME NEW i, NEW x, x.kind # "borrow", NEW v, NEW D, NEW W
    PROVE  W \cup Rawly(i, x, v, D) = W
BY DEF Rawly, Tagged, Raw

\* lower_to_index, resource_transfer and lift_from_index.
LEMMA LowerToIndexFine ==
    ASSUME NEW s, NEW O, NEW W, NEW G, NEW D \in Nat \ {0}, Good(s, O, W, G, D),
           NEW i \in Instances, NEW x \in Values({"own", "borrow"}, G),
           x.kind = "borrow" => s.scopes[D].lenders = <<>>, NEW res, res = lower_to_index(s, i, x)
    PROVE  /\ res.r \in {"ok", "err"} /\ GivenIn(res.st, G)
           /\ res.r = "ok" => Good(res.st, O, W \cup Rawly(i, x, res.v, D), G, D)
<1>1. CASE x.kind = "none"
  <2>1. res = Ok(s, 0)
    BY <1>1 DEF lower_to_index
  <2>2. W \cup Rawly(i, x, res.v, D) = W
    BY <1>1, NotRaw
  <2>3. res.r = "ok" /\ res.st = s
    BY <2>1 DEF Ok
  <2>4. GivenIn(s, G)
    BY DEF Good
  <2> QED
    BY <2>2, <2>3, <2>4, Zenon
<1>2. CASE x.kind = "own" /\ x.of \in G
  <2> DEFINE v == host_resource_lift_own(s, x.of)
  <2>1. res = IF v.r = "ok" THEN resource_lower_own(v.st, i, v.v) ELSE v
    BY <1>2 DEF lower_to_index, Then
  <2>2. /\ v.r \in {"ok", "err"} /\ GivenIn(v.st, G)
        /\ v.r = "ok" => v.v \in O /\ Good(v.st, O \ {v.v}, W, G, D)
    BY <1>2, HostLiftOwnFine
  <2> HIDE DEF v
  <2>3. Fine(res, O, W, G, D)
    BY <2>1, <2>2, OwnLowered, OwnersAreNat, Zenon
  <2>4. W \cup Rawly(i, x, res.v, D) = W
    BY <1>2, NotRaw
  <2> QED
    BY <2>3, <2>4, Zenon DEF Fine
<1>3. CASE x.kind = "borrow" /\ x.of \in G
  <2> DEFINE v == host_resource_lift_borrow(s, x.of)
  <2>1. res = IF v.r = "ok" THEN guest_resource_lower_borrow(v.st, i, v.v) ELSE v
    BY <1>3 DEF lower_to_index, Then
  <2>2. /\ v.r \in {"ok", "err"} /\ GivenIn(v.st, G)
        /\ v.r = "ok" => v.v \in Nat /\ Good(v.st, O, W \cup {<<v.v, D>>}, G, D)
    BY <1>3, HostLiftBorrowFine, Zenon
  <2> HIDE DEF v
  <2> QED
    BY <1>3, <2>1, <2>2, BorrowLowered, Zenon
<1> QED
  BY <1>1, <1>2, <1>3, ValueFacts

\* resource_transfer from one instance to another: own or borrow.
LEMMA TransferFine ==
    ASSUME NEW s, NEW O, NEW W, NEW G, NEW D \in Nat, Good(s, O, W, G, D),
           NEW i \in Instances, NEW j \in Instances, NEW x \in Values({"own", "borrow"}, Handles),
           x.kind = "borrow" => D > 0 /\ s.scopes[D].lenders = <<>>, NEW res, res = resource_transfer(s, i, j, x)
    PROVE  /\ res.r \in {"ok", "err"} /\ GivenIn(res.st, G)
           /\ res.r = "ok" => Good(res.st, O, W \cup Rawly(j, x, res.v, D), G, D)
<1>0. i \in Tables /\ Handles \in SUBSET Nat /\ i # Host
  BY ResourceAssumption DEF Tables, Handles
<1>1. CASE x.kind = "none"
  <2>1. res = Ok(s, 0)
    BY <1>1 DEF resource_transfer
  <2>2. W \cup Rawly(j, x, res.v, D) = W
    BY <1>1, NotRaw
  <2>3. res.r = "ok" /\ res.st = s
    BY <2>1 DEF Ok
  <2>4. GivenIn(s, G)
    BY DEF Good
  <2> QED
    BY <2>2, <2>3, <2>4, Zenon
<1>2. CASE x.kind = "own" /\ x.of \in Handles
  <2> DEFINE v == resource_lift_own(s, i, x.of)
  <2>1. res = IF v.r = "ok" THEN resource_lower_own(v.st, j, v.v) ELSE v
    BY <1>2 DEF resource_transfer, Then
  <2>2. /\ v.r \in {"ok", "err"} /\ GivenIn(v.st, G)
        /\ v.r = "ok" => v.v \in O /\ Good(v.st, O \ {v.v}, W, G, D)
    BY <1>0, <1>2, LiftOwnFine, Zenon
  <2> HIDE DEF v
  <2>3. Fine(res, O, W, G, D)
    BY <2>1, <2>2, OwnLowered, OwnersAreNat, Zenon
  <2>4. W \cup Rawly(j, x, res.v, D) = W
    BY <1>2, NotRaw
  <2> QED
    BY <2>3, <2>4, Zenon DEF Fine
<1>3. CASE x.kind = "borrow" /\ x.of \in Handles
  <2> DEFINE v == resource_lift_borrow(s, i, x.of)
  <2>0. D \in Nat \ {0} /\ s.scopes[D].lenders = <<>>
    BY <1>3
  <2>1. res = IF v.r = "ok" THEN guest_resource_lower_borrow(v.st, j, v.v) ELSE v
    BY <1>3 DEF resource_transfer, Then
  <2>2. /\ v.r \in {"ok", "err"} /\ GivenIn(v.st, G)
        /\ v.r = "ok" => v.v \in Nat /\ Good(v.st, O, W \cup {<<v.v, D>>}, G, D)
    BY <1>0, <1>3, <2>0, LiftBorrowFine, Zenon
  <2> HIDE DEF v
  <2> QED
    BY <1>3, <2>0, <2>1, <2>2, BorrowLowered, Zenon
<1> QED
  BY <1>1, <1>2, <1>3, ValueFacts

\* lift_from_index hands a resource of an instance to the host.
LEMMA LiftFromIndexFine ==
    ASSUME NEW s, NEW O, NEW W, NEW G, NEW D \in Nat \ {0}, Good(s, O, W, G, D),
           NEW i \in Instances, NEW x \in Values({"own", "borrow"}, Handles),
           x.kind = "borrow" => s.scopes[D].lenders = <<>>, NEW res, res = lift_from_index(s, i, x)
    PROVE  /\ res.r \in {"ok", "err"} /\ GivenIn(res.st, G)
           /\ res.r = "ok" => Good(res.st, O, W, GivenTo(x, res.v, G), D)
<1>0. i \in Tables /\ Handles \in SUBSET Nat /\ i # Host
  BY ResourceAssumption DEF Tables, Handles
<1>1. CASE x.kind = "none"
  <2>1. res = Ok(s, {})
    BY <1>1 DEF lift_from_index
  <2> QED
    BY <1>1, <2>1, OwnersAreNat, SMTT(30) DEF Ok, GivenTo
<1>2. CASE x.kind = "own" /\ x.of \in Handles
  <2> DEFINE v == resource_lift_own(s, i, x.of)
             r == v.v
             t == v.st
             P == O \ {r}
  <2>1. res = IF v.r = "ok" THEN host_resource_lower_own(t, r) ELSE v
    BY <1>2 DEF lift_from_index, Then
  <2>2. /\ v.r \in {"ok", "err"} /\ GivenIn(v.st, G)
        /\ v.r = "ok" => v.v \in O /\ Good(v.st, O \ {v.v}, W, G, D)
    BY <1>0, <1>2, LiftOwnFine, Zenon
  <2> HIDE DEF v
  <2>3. CASE v.r = "ok"
    <3>1. r \in Nat \ P /\ P \cup {r} = O /\ Good(t, P, W, G, D) /\ res = host_resource_lower_own(t, r)
      BY <2>1, <2>2, <2>3, OwnersAreNat, Zenon
    <3> HIDE DEF r, t, P
    <3> QED
      BY <1>2, <3>1, HostLowerOwnFine, Zenon DEF GivenTo
  <2>4. CASE v.r # "ok"
    BY <2>1, <2>2, <2>4, Zenon
  <2> QED
    BY <2>3, <2>4
<1>3. CASE x.kind = "borrow" /\ x.of \in Handles
  <2> DEFINE v == resource_lift_borrow(s, i, x.of)
             r == v.v
             t == v.st
             V == W \cup {<<r, D>>}
  <2>1. res = IF v.r = "ok" THEN host_resource_lower_borrow(t, r) ELSE v
    BY <1>3 DEF lift_from_index, Then
  <2>2. /\ v.r \in {"ok", "err"} /\ GivenIn(v.st, G)
        /\ v.r = "ok" => v.v \in Nat /\ Good(v.st, O, W \cup {<<v.v, D>>}, G, D)
    BY <1>0, <1>3, LiftBorrowFine, Zenon
  <2> HIDE DEF v
  <2>3. CASE v.r = "ok"
    <3>1. /\ r \in Nat /\ Good(t, O, V, G, D) /\ <<r, D>> \in V /\ W \in SUBSET V
          /\ res = host_resource_lower_borrow(t, r)
      BY <2>1, <2>2, <2>3
    <3> HIDE DEF r, t, V
    <3>2. /\ res.r \in {"ok", "err"} /\ GivenIn(res.st, G)
          /\ res.r = "ok" => Good(res.st, O, V, G \cup {res.v}, D)
      BY <3>1, HostLowerBorrowFine, Zenon
    <3>3. res.r = "ok" => Good(res.st, O, W, G \cup {res.v}, D)
      BY <3>1, <3>2, ForgetGood, Zenon
    <3> QED
      BY <1>3, <3>2, <3>3, Zenon DEF GivenTo
  <2>4. CASE v.r # "ok"
    BY <2>1, <2>2, <2>4
  <2> QED
    BY <2>3, <2>4
<1> QED
  BY <1>1, <1>2, <1>3, ValueFacts, Zenon

-----------------------------------------------------------------------------
(* The calls in progress *)

Scoped(fr, n) == {m \in 1..n : fr[m].scoped}

\* The scope of the n-th frame is at most n.
LEMMA ScopedFinite ==
    ASSUME NEW fr, NEW n \in Nat
    PROVE  /\ IsFiniteSet(Scoped(fr, n)) /\ ScopeOf(fr, n) = Cardinality(Scoped(fr, n))
           /\ ScopeOf(fr, n) \in Nat /\ ScopeOf(fr, n) <= n
<1>1. IsFiniteSet(1..n) /\ Cardinality(1..n) = n
  BY FS_Interval
<1>2. Scoped(fr, n) \in SUBSET (1..n) /\ ScopeOf(fr, n) = Cardinality(Scoped(fr, n))
  BY DEF Scoped, ScopeOf
<1>3. IsFiniteSet(Scoped(fr, n)) /\ Cardinality(Scoped(fr, n)) <= Cardinality(1..n)
  BY <1>1, <1>2, FS_Subset, Zenon
<1> QED
  BY <1>1, <1>2, <1>3, FS_CardinalityType, Zenon

\* One frame more is one scope more, or none.
LEMMA ScopeStep ==
    ASSUME NEW fr, NEW n \in Nat, NEW k, k = n + 1
    PROVE  /\ fr[k].scoped => ScopeOf(fr, k) = ScopeOf(fr, n) + 1
           /\ ~fr[k].scoped => ScopeOf(fr, k) = ScopeOf(fr, n)
<1>1. 1..k = (1..n) \cup {k} /\ k \notin 1..n /\ k \in Nat
  OBVIOUS
<1>2. IsFiniteSet(Scoped(fr, n)) /\ ScopeOf(fr, n) = Cardinality(Scoped(fr, n))
  BY ScopedFinite
<1>3. ScopeOf(fr, k) = Cardinality(Scoped(fr, k))
  BY <1>1, ScopedFinite
<1>4. CASE fr[k].scoped
  <2>1. Scoped(fr, k) = Scoped(fr, n) \cup {k} /\ k \notin Scoped(fr, n)
    BY <1>1, <1>4, SMTT(30) DEF Scoped
  <2>2. Cardinality(Scoped(fr, n) \cup {k}) = Cardinality(Scoped(fr, n)) + 1
    BY <1>2, <2>1, FS_AddElement, Zenon
  <2> QED
    BY <1>2, <1>3, <1>4, <2>1, <2>2, Zenon
<1>5. CASE ~fr[k].scoped
  <2>1. Scoped(fr, k) = Scoped(fr, n)
    BY <1>1, <1>5 DEF Scoped
  <2> QED
    BY <1>2, <1>3, <1>5, <2>1, Zenon
<1> QED
  BY <1>4, <1>5

\* An inner frame has the scope of an outer one or one further in.
LEMMA ScopeMono ==
    ASSUME NEW fr, NEW n \in Nat, NEW m \in Nat, m <= n
    PROVE  ScopeOf(fr, m) <= ScopeOf(fr, n)
<1>1. Scoped(fr, m) \in SUBSET Scoped(fr, n)
  <2>1. 1..m \in SUBSET (1..n)
    OBVIOUS
  <2> QED
    BY <2>1 DEF Scoped
<1>2. IsFiniteSet(Scoped(fr, n)) /\ ScopeOf(fr, n) = Cardinality(Scoped(fr, n)) /\ ScopeOf(fr, m) = Cardinality(Scoped(fr, m))
  BY ScopedFinite
<1>3. Cardinality(Scoped(fr, m)) <= Cardinality(Scoped(fr, n))
  BY <1>1, <1>2, FS_Subset, Zenon
<1> QED
  BY <1>2, <1>3

\* Scopes depend only on which frames have one.
LEMMA ScopeSame ==
    ASSUME NEW fr, NEW gr, NEW n \in Nat, \A m \in 1..n : fr[m].scoped = gr[m].scoped
    PROVE  ScopeOf(fr, n) = ScopeOf(gr, n)
<1>1. {m \in 1..n : fr[m].scoped} = {m \in 1..n : gr[m].scoped}
  OBVIOUS
<1> QED
  BY <1>1, Zenon DEF ScopeOf

RawsOf(fr, n) == Tagged(fr[n].raw, ScopeOf(fr, n))
RawsTo(fr, n) == UNION {RawsOf(fr, m) : m \in 1..n}

\* The frames as a sequence.
LEMMA FramesFacts ==
    ASSUME NEW fr, FramesOK(fr)
    PROVE  /\ fr \in Seq(Frames) /\ Len(fr) \in Nat /\ DOMAIN fr = 1..Len(fr) /\ Len(fr) <= MaxFrames
           /\ \A n \in 1..Len(fr) : /\ n \in Nat /\ fr[n] \in Frames /\ fr[n].scoped \in BOOLEAN
                                     /\ HasScope(fr[n])
           /\ Raws(fr) = RawsTo(fr, Len(fr))
<1>1. fr \in Seq(Frames) /\ Len(fr) \in Nat /\ DOMAIN fr = 1..Len(fr) /\ Len(fr) <= MaxFrames
  BY DEF FramesOK
<1>2. \A n \in 1..Len(fr) : n \in Nat /\ fr[n] \in Frames
  BY <1>1
<1>3. \A n \in 1..Len(fr) : fr[n].scoped \in BOOLEAN
  BY <1>2 DEF Frames
<1>4. Raws(fr) = RawsTo(fr, Len(fr))
  BY <1>1 DEF Raws, RawsOf, RawsTo, Tagged
<1> QED
  BY <1>1, <1>2, <1>3, <1>4, Zenon DEF FramesOK

\* The calls in progress agree below depth n.
Agree(fr, gr, n) == \A m \in 1..n : fr[m].scoped = gr[m].scoped /\ fr[m].raw = gr[m].raw

\* Frames that agree up to n agree on scopes and reps up to n.
LEMMA AgreeScopes ==
    ASSUME NEW fr, NEW gr, NEW n \in Nat, Agree(fr, gr, n)
    PROVE  ScopeOf(fr, n) = ScopeOf(gr, n) /\ RawsTo(fr, n) = RawsTo(gr, n)
<1>1. ASSUME NEW m \in Nat, m <= n PROVE ScopeOf(fr, m) = ScopeOf(gr, m)
  <2>1. \A k \in 1..m : fr[k].scoped = gr[k].scoped
    BY <1>1 DEF Agree
  <2> QED
    BY <2>1, ScopeSame, SMTT(30)
<1>2. \A m \in 1..n : RawsOf(fr, m) = RawsOf(gr, m)
  BY <1>1 DEF RawsOf, Agree
<1> QED
  BY <1>1, <1>2, SMTT(30) DEF RawsTo

\* One frame more adds its own reps; those below are of scopes further out.
LEMMA RawsStep ==
    ASSUME NEW fr, NEW n \in Nat, NEW k, k = n + 1
    PROVE  /\ RawsTo(fr, k) = RawsTo(fr, n) \cup RawsOf(fr, k)
           /\ \A w \in RawsTo(fr, n) : w[2] \in Nat /\ w[2] <= ScopeOf(fr, n)
<1>1. 1..k = (1..n) \cup {k}
  OBVIOUS
<1>2. RawsTo(fr, k) = RawsTo(fr, n) \cup RawsOf(fr, k)
  BY <1>1 DEF RawsTo
<1>3. ASSUME NEW w \in RawsTo(fr, n) PROVE w[2] \in Nat /\ w[2] <= ScopeOf(fr, n)
  <2>1. PICK m \in 1..n : w \in RawsOf(fr, m)
    BY DEF RawsTo
  <2>2. w[2] = ScopeOf(fr, m)
    BY <2>1 DEF RawsOf, Tagged
  <2>3. m \in Nat /\ m <= n
    OBVIOUS
  <2>4. ScopeOf(fr, m) \in Nat /\ ScopeOf(fr, m) <= ScopeOf(fr, n)
    BY <2>3, ScopeMono, ScopedFinite, Zenon
  <2> QED
    BY <2>2, <2>4, Zenon
<1> QED
  BY <1>2, <1>3, SMTT(30)

\* gr is fr with one frame more.
Longer(fr, gr) ==
    /\ FramesOK(fr) /\ FramesOK(gr) /\ Len(gr) = Len(fr) + 1
    /\ Agree(fr, gr, Len(fr))

\* The innermost frame: it adds its scope, if it has one, and its reps.
LEMMA LongerFacts ==
    ASSUME NEW fr, NEW gr, Longer(fr, gr), NEW top, top = gr[Len(gr)]
    PROVE  /\ Depth(fr) \in Nat /\ Depth(gr) \in Nat
           /\ top.scoped => Depth(gr) = Depth(fr) + 1 /\ \A w \in Raws(fr) : w[2] # Depth(gr)
           /\ ~top.scoped => Depth(gr) = Depth(fr)
           /\ Raws(gr) = Raws(fr) \cup Tagged(top.raw, Depth(gr))
<1> DEFINE k == Len(fr)
           l == Len(gr)
<1>1. k \in Nat /\ l = k + 1 /\ Raws(fr) = RawsTo(fr, k) /\ Raws(gr) = RawsTo(gr, l) /\ Agree(fr, gr, k)
  BY FramesFacts DEF Longer
<1>2. top = gr[l] /\ Depth(fr) = ScopeOf(fr, k) /\ Depth(gr) = ScopeOf(gr, l)
  BY DEF Depth
<1> HIDE DEF k, l
<1>3. ScopeOf(fr, k) = ScopeOf(gr, k) /\ RawsTo(fr, k) = RawsTo(gr, k)
  BY <1>1, AgreeScopes, SMTT(30)
<1>4. RawsTo(gr, l) = RawsTo(gr, k) \cup RawsOf(gr, l) /\ \A w \in RawsTo(gr, k) : w[2] \in Nat /\ w[2] <= ScopeOf(gr, k)
  BY <1>1, RawsStep, SMTT(30)
<1>5. /\ gr[l].scoped => ScopeOf(gr, l) = ScopeOf(gr, k) + 1
      /\ ~gr[l].scoped => ScopeOf(gr, l) = ScopeOf(gr, k)
  BY <1>1, ScopeStep, SMTT(30)
<1>6. Depth(fr) \in Nat /\ Depth(gr) \in Nat
  <2>1. l \in Nat
    BY <1>1
  <2> QED
    BY <1>1, <1>2, <2>1, ScopedFinite, Zenon
<1>7. RawsOf(gr, l) = Tagged(top.raw, Depth(gr))
  BY <1>2, SMTT(30) DEF RawsOf
<1>8. top.scoped => Depth(gr) = Depth(fr) + 1 /\ \A w \in Raws(fr) : w[2] # Depth(gr)
  BY <1>1, <1>2, <1>3, <1>4, <1>5, <1>6, SMTT(30)
<1> QED
  BY <1>1, <1>2, <1>3, <1>4, <1>5, <1>6, <1>7, <1>8, ZenonT(30)

Pushed(fr, gr, frame) == gr = Append(fr, frame)
Shorter(fr, gr) == fr # <<>> /\ gr = SubSeq(fr, 1, Len(fr) - 1)
Finished(fr, gr) == fr # <<>> /\ gr = [fr EXCEPT ![Len(fr)].done = TRUE]

\* Push.
LEMMA PushFrames ==
    ASSUME NEW fr, FramesOK(fr), Len(fr) < MaxFrames, NEW frame \in Frames,
           HasScope(frame),
           NEW gr, Pushed(fr, gr, frame)
    PROVE  /\ FramesOK(gr) /\ Depth(fr) \in Nat
           /\ frame.scoped => Depth(gr) = Depth(fr) + 1
           /\ ~frame.scoped => Depth(gr) = Depth(fr)
           /\ Raws(gr) = Raws(fr) \cup Tagged(frame.raw, Depth(gr))
<1> DEFINE k == Len(fr)
           l == k + 1
<1>1. /\ fr \in Seq(Frames) /\ k \in Nat /\ DOMAIN fr = 1..k /\ k <= MaxFrames
      /\ \A n \in 1..k : HasScope(fr[n])
  BY FramesFacts
<1>2. gr \in Seq(Frames) /\ Len(gr) = l /\ DOMAIN gr = 1..l /\ gr[l] = frame /\ \A n \in 1..k : gr[n] = fr[n]
  BY <1>1 DEF Pushed
<1>3. l \in Nat /\ l = k + 1 /\ 1..l = (1..k) \cup {l} /\ l <= MaxFrames
  BY <1>1, BoundsAssumption, SMTT(30)
<1>4. FramesOK(gr)
  <2>2. \A n \in 1..l : HasScope(gr[n])
    <3> TAKE n \in 1..l
    <3>1. CASE n \in 1..k
      BY <1>1, <3>1, <1>2, SMTT(30)
    <3>2. CASE n = l
      BY <3>2, <1>2, SMTT(30)
    <3> QED
      BY <3>1, <3>2, <1>3, Zenon
  <2> QED
    BY <1>2, <1>3, <2>2, SMTT(30) DEF FramesOK
<1>5. Agree(fr, gr, k)
  BY <1>2 DEF Agree
<1>6. Longer(fr, gr) /\ frame = gr[Len(gr)]
  BY <1>2, <1>4, <1>5, Zenon DEF Longer
<1> QED
  BY <1>4, <1>6, LongerFacts, SMTT(30)

\* Pop. The borrows of the scope that ends are those of its frame.
LEMMA PopFrames ==
    ASSUME NEW fr, FramesOK(fr), NEW top, top = fr[Len(fr)], NEW gr, Shorter(fr, gr)
    PROVE  /\ FramesOK(gr) /\ Depth(fr) \in Nat /\ Depth(gr) \in Nat
           /\ top.scoped => /\ Depth(fr) > 0 /\ Depth(gr) = Depth(fr) - 1
                            /\ \A w \in Raws(gr) : w[2] # Depth(fr)
           /\ ~top.scoped => Depth(gr) = Depth(fr)
           /\ Raws(gr) \in SUBSET Raws(fr)
<1> DEFINE l == Len(fr)
           k == l - 1
<1>1. /\ fr \in Seq(Frames) /\ l \in Nat /\ DOMAIN fr = 1..l /\ l <= MaxFrames
      /\ \A n \in 1..l : HasScope(fr[n])
  BY FramesFacts
<1>2. l > 0 /\ k \in Nat /\ l = k + 1 /\ 1..k \in SUBSET (1..l) /\ k <= MaxFrames
  BY <1>1, BoundsAssumption, SMTT(30) DEF Shorter
<1>3. gr \in Seq(Frames) /\ Len(gr) = k /\ DOMAIN gr = 1..k /\ \A n \in 1..k : gr[n] = fr[n]
  BY <1>1, <1>2, SMTT(30) DEF Shorter
<1>4. FramesOK(gr)
  BY <1>1, <1>2, <1>3, SMTT(30) DEF FramesOK
<1>5. Agree(gr, fr, k)
  BY <1>3 DEF Agree
<1>6. Longer(gr, fr)
  BY <1>2, <1>3, <1>4, <1>5, ZenonT(30) DEF Longer
<1>7. /\ Depth(fr) \in Nat /\ Depth(gr) \in Nat
      /\ top.scoped => Depth(fr) = Depth(gr) + 1 /\ \A w \in Raws(gr) : w[2] # Depth(fr)
      /\ ~top.scoped => Depth(fr) = Depth(gr)
      /\ Raws(fr) = Raws(gr) \cup Tagged(top.raw, Depth(fr))
  BY <1>6, LongerFacts, SMTT(30)
<1> QED
  BY <1>4, <1>7, SMTT(30)

\* The return of a function, which leaves its frame until post_return.
LEMMA DoneFrames ==
    ASSUME NEW fr, FramesOK(fr), NEW gr, Finished(fr, gr)
    PROVE  FramesOK(gr) /\ Raws(gr) = Raws(fr) /\ Depth(gr) = Depth(fr)
<1> DEFINE l == Len(fr)
<1>1. /\ fr \in Seq(Frames) /\ l \in Nat /\ DOMAIN fr = 1..l /\ Raws(fr) = RawsTo(fr, l)
      /\ l <= MaxFrames /\ \A n \in 1..l : /\ n \in Nat /\ fr[n] \in Frames
                                           /\ HasScope(fr[n])
  BY FramesFacts
<1>2. gr = [fr EXCEPT ![l] = [fr[l] EXCEPT !.done = TRUE]] /\ l \in 1..l
  BY <1>1 DEF Finished
<1>3. [fr[l] EXCEPT !.done = TRUE] \in Frames /\ \A f : f = [fr[l] EXCEPT !.done = TRUE] =>
         f.kind = fr[l].kind /\ f.raw = fr[l].raw /\ f.scoped = fr[l].scoped
  BY <1>1, <1>2, Zenon DEF Frames
<1>4. /\ gr \in Seq(Frames) /\ Len(gr) = l /\ DOMAIN gr = 1..l
      /\ \A n \in 1..l : gr[n].kind = fr[n].kind /\ gr[n].raw = fr[n].raw /\ gr[n].scoped = fr[n].scoped
  <2> DEFINE f == [fr[l] EXCEPT !.done = TRUE]
  <2>1. f \in Frames /\ f.kind = fr[l].kind /\ f.raw = fr[l].raw /\ f.scoped = fr[l].scoped /\ gr = [fr EXCEPT ![l] = f]
    BY <1>2, <1>3
  <2> HIDE DEF f
  <2>2. gr[l] = f /\ \A n \in 1..l : n # l => gr[n] = fr[n]
    <3> HIDE DEF l
    <3> QED
      BY <2>1, <1>1, <1>2, Zenon
  <2>3. gr \in Seq(Frames) /\ Len(gr) = l /\ DOMAIN gr = 1..l
    <3>1. gr = [n \in 1..l |-> gr[n]] /\ \A n \in 1..l : gr[n] \in Frames
      BY <2>1, <2>2, <1>1, Zenon
    <3> QED
      BY <3>1, <1>1, SMTT(30)
  <2> QED
    BY <2>1, <2>2, <2>3
<1>5. FramesOK(gr) /\ Agree(gr, fr, l)
  <2>1. \A n \in 1..l : HasScope(gr[n])
    BY <1>1, <1>4, Zenon DEF HasScope
  <2> QED
    BY <1>1, <1>4, <2>1, Zenon DEF FramesOK, Agree
<1>6. Raws(gr) = RawsTo(gr, Len(gr))
  BY <1>5, FramesFacts, SMTT(30)
<1>7. ScopeOf(gr, l) = ScopeOf(fr, l) /\ RawsTo(gr, l) = RawsTo(fr, l)
  BY <1>1, <1>5, AgreeScopes, ZenonT(30)
<1> QED
  BY <1>1, <1>4, <1>5, <1>6, <1>7, ZenonT(30) DEF Depth

Frame(kind, i, scoped, raw) ==
    [kind |-> kind, inst |-> i, scoped |-> scoped, raw |-> raw, done |-> FALSE]

\* Whatever is borrowed is owned.
LEMMA BorrowsAreOwned ==
    ASSUME NEW s, NEW O, NEW W, NEW G, NEW D, Good(s, O, W, G, D)
    PROVE  /\ \A w \in W : w[1] \in O
           /\ \A p \in Borrowed(Live(s)) : Live(s)[p].rep \in O
BY DEF Good, CallsOK, BackedOK, Backed, OwnersOK

\* A state that is good for a call with its scope and reps is good once the frame is pushed.
LEMMA CallEntered ==
    ASSUME NEW fr, FramesOK(fr), Len(fr) < MaxFrames,
           NEW kind \in {"import", "adapter", "func"}, NEW i \in Instances, NEW scoped \in BOOLEAN, NEW raw,
           HasScope(Frame(kind, i, scoped, raw)), NEW gr, Pushed(fr, gr, Frame(kind, i, scoped, raw)),
           NEW s, NEW O, NEW G, NEW E, E = IF scoped THEN Depth(fr) + 1 ELSE Depth(fr),
           Good(s, O, Raws(fr) \cup Tagged(raw, E), G, E)
    PROVE  FramesOK(gr) /\ Good(s, O, Raws(gr), G, Depth(gr))
<1> DEFINE frame == Frame(kind, i, scoped, raw)
<1>1. raw \in SUBSET Nat
  <2> DEFINE W == Raws(fr) \cup Tagged(raw, E)
  <2>1. Good(s, O, W, G, E) /\ \A r \in raw : <<r, E>> \in W
    BY DEF Tagged
  <2> HIDE DEF W
  <2>2. \A w \in W : w[1] \in O
    BY <2>1, BorrowsAreOwned, SMTT(30)
  <2>3. \A r \in raw : r \in O
    BY <2>1, <2>2, Zenon
  <2> QED
    BY <2>3, OwnersAreNat, ZenonT(30)
<1>2. frame \in Frames /\ frame.scoped = scoped /\ frame.raw = raw /\ HasScope(frame)
  BY <1>1 DEF Frames, Frame
<1> HIDE DEF frame
<1>3. Pushed(fr, gr, frame)
  BY DEF frame
<1>4. /\ FramesOK(gr) /\ Depth(fr) \in Nat
      /\ frame.scoped => Depth(gr) = Depth(fr) + 1
      /\ ~frame.scoped => Depth(gr) = Depth(fr)
      /\ Raws(gr) = Raws(fr) \cup Tagged(frame.raw, Depth(gr))
  BY <1>2, <1>3, PushFrames
<1>5. E = Depth(gr)
  BY <1>2, <1>4, Zenon
<1>6. Raws(fr) \cup Tagged(raw, E) = Raws(gr)
  BY <1>2, <1>4, <1>5, SMTT(30)
<1>7. Good(s, O, Raws(gr), G, E)
  BY <1>6, Zenon
<1> QED
  BY <1>4, <1>5, <1>7, Zenon

\* The innermost frame, and that only an adapter's may lack a scope.
LEMMA TopFrame ==
    ASSUME NEW fr, FramesOK(fr), fr # <<>>, NEW top, top = fr[Len(fr)]
    PROVE  /\ top.inst \in Instances /\ top.scoped \in BOOLEAN
           /\ top.kind # "adapter" => top.scoped
           /\ Depth(fr) \in Nat /\ (top.scoped => Depth(fr) \in Nat \ {0})
<1>1. Len(fr) \in 1..Len(fr) /\ Len(fr) \in Nat
  <2>1. fr \in Seq(Frames)
    BY FramesFacts
  <2> QED
    BY <2>1
<1>2. top \in Frames /\ HasScope(top)
  BY <1>1, FramesFacts, Zenon
<1>3. Shorter(fr, SubSeq(fr, 1, Len(fr) - 1))
  BY DEF Shorter
<1>4. Depth(fr) \in Nat /\ (top.scoped => Depth(fr) > 0)
  BY <1>3, PopFrames, Zenon
<1> QED
  BY <1>2, <1>4 DEF Frames, HasScope

Innermost(fr) == fr[Len(fr)]
Returned(v, top) == IF v.r = "ok" THEN IF top.scoped THEN exit_call(v.st) ELSE Ok(v.st, {}) ELSE v

\* A call that returned v leaves its scope, if it has one.
LEMMA ReturnFine ==
    ASSUME NEW fr, FramesOK(fr), NEW top, top = Innermost(fr), NEW gr, Shorter(fr, gr),
           NEW v, NEW O, NEW G, v.r \in {"ok", "err"}, GivenIn(v.st, G),
           v.r = "ok" => Good(v.st, O, Raws(fr), G, Depth(fr)),
           NEW res, res = Returned(v, top)
    PROVE  FramesOK(gr) /\ Fine(res, O, Raws(gr), G, Depth(gr))
<1>1. /\ FramesOK(gr) /\ Depth(fr) \in Nat /\ Depth(gr) \in Nat
      /\ top.scoped => Depth(fr) > 0 /\ Depth(gr) = Depth(fr) - 1 /\ \A w \in Raws(gr) : w[2] # Depth(fr)
      /\ ~top.scoped => Depth(gr) = Depth(fr)
      /\ Raws(gr) \in SUBSET Raws(fr)
  BY PopFrames DEF Innermost
<1>2. CASE v.r # "ok"
  BY <1>1, <1>2, Zenon DEF Fine, Returned
<1>3. CASE v.r = "ok" /\ top.scoped
  <2> DEFINE s == v.st
             D == Depth(fr)
             E == Depth(gr)
             W == Raws(fr)
             V == {w \in W : w[2] # D}
  <2>1. D \in Nat \ {0} /\ E = D - 1 /\ Good(s, O, W, G, D) /\ res = exit_call(s) /\ Raws(gr) \in SUBSET V
    BY <1>1, <1>3, SMTT(30) DEF Returned
  <2> HIDE DEF s, D, E, W
  <2>2. Fine(res, O, V, G, E)
    BY <2>1, ExitFine, SMTT(30)
  <2> HIDE DEF V
  <2>3. Fine(res, O, Raws(gr), G, E)
    BY <2>1, <2>2, ForgetGood, Zenon DEF Fine
  <2> QED
    BY <1>1, <2>3, Zenon DEF E
<1>4. CASE v.r = "ok" /\ ~top.scoped
  <2>1. res = Ok(v.st, {}) /\ Good(v.st, O, Raws(fr), G, Depth(gr))
    BY <1>1, <1>4, Zenon DEF Returned
  <2>2. Good(v.st, O, Raws(gr), G, Depth(gr))
    BY <1>1, <2>1, ForgetGood, Zenon
  <2> QED
    BY <1>1, <2>1, <2>2, SMTT(30) DEF Fine, Ok
<1> QED
  BY <1>2, <1>3, <1>4, Zenon

\* A result is never a borrow.
LEMMA OwnValues ==
    ASSUME NEW H, NEW x \in Values({"own"}, H)
    PROVE  x \in Values({"own", "borrow"}, H) /\ x.kind # "borrow"
BY DEF Values, None

-----------------------------------------------------------------------------
(* The steps keep the invariant *)

Now == CountersOK /\ FramesOK(frames) /\ Good(st, Alive, Raws(frames), given, Depth(frames))

\* What the invariant says while no operation has failed.
LEMMA NowHolds ==
    ASSUME IndInv, status = "ok"
    PROVE  Now /\ Depth(frames) \in Nat /\ GivenIn(st, given) /\ Alive \in SUBSET Nat
<1>1. Now
  BY SMTT(30) DEF IndInv, Now
<1>2. Depth(frames) \in Nat
  BY <1>1, FramesFacts, ScopedFinite, Zenon DEF Now, Depth
<1> QED
  BY <1>1, <1>2, SMTT(30) DEF IndInv, Alive

\* A step lands in the invariant when its result is an error or a good state.
LEMMA Landed ==
    ASSUME NEW res, st' = res.st, status' = res.r, res.r \in {"ok", "err"}, GivenIn(res.st, given'),
           res.r = "ok" => /\ CountersOK' /\ FramesOK(frames')
                           /\ Good(res.st, Alive', Raws(frames'), given', Depth(frames'))
    PROVE  IndInv'
BY DEF IndInv

\* A step that creates and destroys nothing leaves the same reps alive.
LEMMA SameCounters ==
    ASSUME CountersOK, UNCHANGED <<created, destroyed>>
    PROVE  CountersOK' /\ Alive' = Alive
BY SMTT(30) DEF CountersOK, Alive

\* resource.new keeps the invariant.
LEMMA NewKeeps ==
    ASSUME IndInv, New
    PROVE  IndInv'
<1>1. /\ status = "ok" /\ created < MaxReps /\ created' = created + 1
      /\ frames' = frames /\ destroyed' = destroyed /\ given' = given
      /\ st' = resource_new(st, Definer, created + 1).st /\ status' = resource_new(st, Definer, created + 1).r
  BY DEF New, GuestRuns, Do
<1>2. Now /\ Definer \in Instances
  BY <1>1, NowHolds, ResourceAssumption, Zenon
<1> DEFINE r == created + 1
           res == resource_new(st, Definer, r)
<1>3. created \in Nat /\ r \in Nat \ Alive
  BY <1>2, BoundsAssumption, SMTT(30) DEF Now, CountersOK, Alive
<1>4. CountersOK' /\ Alive' = Alive \cup {r}
  <2>1. r \in 1..MaxReps /\ destroyed[r] = 0 /\ 1..r = (1..created) \cup {r}
    BY <1>1, <1>2, <1>3, BoundsAssumption, SMTT(30) DEF Now, CountersOK
  <2>2. CountersOK'
    BY <1>1, <1>2, <1>3, <2>1, BoundsAssumption, SMTT(30) DEF Now, CountersOK
  <2>3. Alive' = {q \in 1..r : destroyed[q] = 0}
    BY <1>1, Zenon DEF Alive
  <2> QED
    BY <2>1, <2>2, <2>3, Zenon DEF Alive
<1> HIDE DEF r
<1>5. Fine(res, Alive \cup {r}, Raws(frames), given, Depth(frames))
  BY <1>2, <1>3, LowerOwnFine, Zenon DEF Now
<1>6. st' = res.st /\ status' = res.r
  BY <1>1, Zenon DEF r
<1> HIDE DEF res
<1> QED
  BY <1>1, <1>2, <1>4, <1>5, <1>6, Landed, ZenonT(30) DEF Fine, Now

\* The end of a drop: the destructor is called, or refused.
LEMMA DestructorKeeps ==
    ASSUME IndInv, status = "ok", NEW i, NEW res, Destructor(i, res), UNCHANGED <<frames, created, given>>,
           res.r \in {"ok", "err"}, GivenIn(res.st, given),
           res.r = "ok" => res.v \in SUBSET Alive /\ Good(res.st, Alive \ res.v, Raws(frames), given, Depth(frames))
    PROVE  IndInv'
<1> DEFINE reenters == res.r = "ok" /\ res.v # {} /\ i # Definer /\ Definer \notin may_enter
<1>1. /\ Do(IF reenters THEN Err(res.st) ELSE res)
      /\ Destroy(IF res.r = "ok" /\ ~reenters THEN res.v ELSE {})
  BY DEF Destructor
<1>2. Now /\ frames' = frames /\ created' = created /\ given' = given
  BY NowHolds, Zenon
<1> HIDE DEF reenters
<1>3. CASE reenters
  <2>1. st' = res.st /\ status' = "err"
    BY <1>1, <1>3, Zenon DEF Do, Err
  <2> QED
    BY <1>2, <2>1, Zenon DEF IndInv
<1>4. CASE ~reenters
  <2>1. st' = res.st /\ status' = res.r
    BY <1>1, <1>4, Zenon DEF Do
  <2>2. res.r = "ok" => CountersOK' /\ Alive' = Alive \ res.v
    <3> SUFFICES ASSUME res.r = "ok" PROVE CountersOK' /\ Alive' = Alive \ res.v
      BY SMTT(30)
    <3> DEFINE R == res.v
    <3>1. R \in SUBSET Alive /\ Destroy(R)
      BY <1>1, <1>4, Zenon
    <3> HIDE DEF R
    <3>2. /\ created \in 0..MaxReps /\ destroyed \in [1..MaxReps -> 0..1]
          /\ \A r \in 1..MaxReps : r > created => destroyed[r] = 0
          /\ 1..created \in SUBSET (1..MaxReps)
      BY <1>2, BoundsAssumption, SMTT(30) DEF Now, CountersOK
    <3>3. \A r \in 1..MaxReps : destroyed'[r] = IF r \in R THEN destroyed[r] + 1 ELSE destroyed[r]
      BY <3>1, Zenon DEF Destroy
    <3>4. \A r \in R : r \in 1..created /\ destroyed[r] = 0
      BY <3>1, Zenon DEF Alive
    <3>5. \A r \in 1..MaxReps : destroyed'[r] \in 0..1 /\ (r > created => destroyed'[r] = 0)
      <4> TAKE r \in 1..MaxReps
      <4>1. CASE r \in R
        <5>1. destroyed'[r] = 1 /\ ~(r > created)
          BY <3>2, <3>3, <3>4, <4>1, SMTT(30)
        <5> QED
          BY <5>1, SMTT(30)
      <4>2. CASE r \notin R
        BY <3>2, <3>3, <4>2, Zenon
      <4> QED
        BY <4>1, <4>2, Zenon
    <3>6. destroyed' \in [1..MaxReps -> 0..1]
      <4>1. destroyed' = [r \in 1..MaxReps |-> destroyed'[r]]
        BY <3>1, Zenon DEF Destroy
      <4> QED
        BY <4>1, <3>5, Zenon
    <3>7. CountersOK'
      BY <1>2, <3>2, <3>5, <3>6, Zenon DEF CountersOK
    <3>8. Alive' = {r \in 1..created : destroyed'[r] = 0}
      BY <1>2, Zenon DEF Alive
    <3>9. \A r \in 1..created : destroyed'[r] = 0 <=> destroyed[r] = 0 /\ r \notin R
      BY <3>2, <3>3, <3>4, SMTT(30)
    <3> QED
      BY <3>7, <3>8, <3>9, Zenon DEF Alive, R
  <2> QED
    BY <1>2, <2>1, <2>2, Landed, Zenon DEF Now
<1> QED
  BY <1>3, <1>4, Zenon

\* resource.drop keeps the invariant: a destroyed rep had this owner alone.
LEMMA DropKeeps ==
    ASSUME IndInv, NEW i \in Instances, NEW h \in Handles, Drop(i, h)
    PROVE  IndInv'
<1> DEFINE res == resource_drop(st, i, h)
<1>1. status = "ok" /\ Destructor(i, res) /\ UNCHANGED <<frames, created, given>>
  BY DEF Drop, GuestRuns
<1>2. Now
  BY <1>1, NowHolds, Zenon
<1>3. i \in Tables /\ i # Host /\ h \in Nat
  BY ResourceAssumption, SMTT(30) DEF Tables, Handles
<1>4. /\ res.r \in {"ok", "err"} /\ GivenIn(res.st, given)
      /\ res.r = "ok" => res.v \in SUBSET Alive /\ Good(res.st, Alive \ res.v, Raws(frames), given, Depth(frames))
  <2>1. Good(st, Alive, Raws(frames), given, Depth(frames))
    BY <1>2, ZenonT(30) DEF Now
  <2>2. DropOf(st, i, h, res)
    BY Zenon DEF DropOf
  <2> HIDE DEF res
  <2>3. Dropped(st, i, h, res, Alive, Raws(frames), given, Depth(frames))
    BY <1>3, <2>1, <2>2, DropFine, Zenon
  <2> QED
    BY <2>3, Zenon DEF Dropped
<1> HIDE DEF res
<1> QED
  BY <1>1, <1>4, DestructorKeeps, Zenon

\* ResourceAny::resource_drop keeps the invariant.
LEMMA HostDropKeeps ==
    ASSUME IndInv, NEW any \in given, HostDrop(any)
    PROVE  IndInv'
<1> DEFINE res == host_resource_drop(st, any)
<1>1. status = "ok" /\ Destructor(Host, res) /\ UNCHANGED <<frames, created, given>>
  BY DEF HostDrop, HostRuns
<1>2. Now
  BY <1>1, NowHolds, SMTT(30)
<1>3. /\ res.r \in {"ok", "err"} /\ GivenIn(res.st, given)
      /\ res.r = "ok" => res.v \in SUBSET Alive /\ Good(res.st, Alive \ res.v, Raws(frames), given, Depth(frames))
  BY <1>2, HostDropFine, Zenon DEF Now
<1> HIDE DEF res
<1> QED
  BY <1>1, <1>3, DestructorKeeps, SMTT(30)

\* The start of a call: the scope and the parameter.
LEMMA EnterNow ==
    ASSUME IndInv, status = "ok", NEW s, s = enter_call(st), NEW D, D = Depth(frames) + 1
    PROVE  /\ D \in Nat \ {0} /\ D > 0
           /\ Good(s, Alive, Raws(frames), given, D) /\ s.scopes[D].lenders = <<>>
<1>1. Now /\ Depth(frames) \in Nat
  BY NowHolds, SMTT(30)
<1> QED
  BY <1>1, EnterGood, SMTT(30) DEF Now

\* A call of a host function keeps the invariant.
LEMMA CallImportKeeps ==
    ASSUME IndInv, NEW i \in Instances, NEW x \in Values({"own", "borrow"}, Handles), CallImport(i, x)
    PROVE  IndInv'
<1> DEFINE s == enter_call(st)
           D == Depth(frames) + 1
           res == lift_from_index(s, i, x)
<1>1. /\ status = "ok" /\ st' = res.st /\ status' = res.r /\ Len(frames) < MaxFrames
      /\ Pushed(frames, frames', Frame("import", i, TRUE, {}))
      /\ UNCHANGED <<created, destroyed>>
      /\ given' = IF res.r = "ok" THEN GivenTo(x, res.v, given) ELSE given
  BY Zenon DEF CallImport, GuestRuns, Do, Push, Pushed, Frame, Give, GivenTo
<1>2. Now
  BY <1>1, NowHolds, Zenon
<1>3. CountersOK' /\ Alive' = Alive
  BY <1>1, <1>2, SameCounters, Zenon DEF Now
<1>4. D \in Nat \ {0} /\ Good(s, Alive, Raws(frames), given, D) /\ s.scopes[D].lenders = <<>>
  BY <1>1, EnterNow, Zenon
<1> HIDE DEF s, D
<1>5. /\ res.r \in {"ok", "err"} /\ GivenIn(res.st, given)
      /\ res.r = "ok" => Good(res.st, Alive, Raws(frames), GivenTo(x, res.v, given), D)
  BY <1>4, LiftFromIndexFine, Zenon
<1> HIDE DEF res
<1>6. ASSUME res.r = "ok" PROVE FramesOK(frames') /\ Good(res.st, Alive, Raws(frames'), given', Depth(frames'))
  <2>1. Good(res.st, Alive, Raws(frames) \cup Tagged({}, D), given', D)
    <3>1. Raws(frames) \cup Tagged({}, D) = Raws(frames)
      BY Zenon DEF Tagged
    <3> QED
      BY <1>1, <1>5, <1>6, <3>1, ZenonT(30)
  <2> DEFINE k == "import"
             sp == TRUE
             raw == {}
  <2>2. k \in {"import", "adapter", "func"} /\ sp \in BOOLEAN /\ D = IF sp THEN Depth(frames) + 1 ELSE Depth(frames)
    BY DEF D
  <2>3. HasScope(Frame(k, i, sp, raw))
    BY DEF HasScope, Frame
  <2>4. FramesOK(frames) /\ Len(frames) < MaxFrames /\ Pushed(frames, frames', Frame(k, i, sp, raw))
        /\ Good(res.st, Alive, Raws(frames) \cup Tagged(raw, D), given', D)
    BY <1>1, <1>2, <2>1, Zenon DEF Now
  <2> HIDE DEF k, sp, raw
  <2> QED
    BY <2>2, <2>3, <2>4, CallEntered, ZenonT(30)
<1>7. GivenIn(res.st, given')
  <2>1. CASE res.r = "ok"
    BY <1>6, <2>1, Zenon DEF Good
  <2>2. CASE res.r # "ok"
    BY <1>1, <1>5, <2>2, Zenon
  <2> QED
    BY <2>1, <2>2, Zenon
<1> QED
  BY <1>1, <1>3, <1>5, <1>6, <1>7, Landed, ZenonT(30)

\* A call from one instance to another keeps the invariant.
LEMMA CallAdapterKeeps ==
    ASSUME IndInv, NEW i \in Instances, NEW j \in Instances, NEW x \in Values({"own", "borrow"}, Handles),
           CallAdapter(i, j, x)
    PROVE  IndInv'
<1> DEFINE sp == x.kind = "borrow"
           s == IF sp THEN enter_call(st) ELSE st
           D == IF sp THEN Depth(frames) + 1 ELSE Depth(frames)
           res == resource_transfer(s, i, j, x)
           raw == Raw(j, x, res.v)
           k == "adapter"
<1>1. /\ status = "ok" /\ st' = res.st /\ status' = res.r /\ Len(frames) < MaxFrames
      /\ Pushed(frames, frames', Frame(k, j, sp, raw))
      /\ UNCHANGED <<created, destroyed, given>>
  BY Zenon DEF CallAdapter, GuestRuns, Do, Push, Pushed, Frame
<1>2. Now /\ Depth(frames) \in Nat
  BY <1>1, NowHolds, Zenon
<1>3. CountersOK' /\ Alive' = Alive
  BY <1>1, <1>2, SameCounters, Zenon DEF Now
<1>4. D \in Nat /\ Good(s, Alive, Raws(frames), given, D) /\ (sp => D > 0 /\ s.scopes[D].lenders = <<>>)
  <2>1. CASE sp
    <3> DEFINE e == enter_call(st)
               d == Depth(frames) + 1
    <3>1. e = s /\ d = D
      BY <2>1, SMTT(30)
    <3>2. d \in Nat \ {0} /\ d > 0 /\ Good(e, Alive, Raws(frames), given, d) /\ e.scopes[d].lenders = <<>>
      BY <1>1, EnterNow, Zenon
    <3> HIDE DEF e, d, s, D
    <3> QED
      BY <3>1, <3>2, Zenon
  <2>2. CASE ~sp
    <3>1. s = st /\ D = Depth(frames)
      BY <2>2, SMTT(30)
    <3> HIDE DEF s, D, sp
    <3> QED
      BY <1>2, <2>2, <3>1, ZenonT(30) DEF Now
  <2> QED
    BY <2>1, <2>2, Zenon
<1>5. /\ k \in {"import", "adapter", "func"} /\ sp \in BOOLEAN /\ D = IF sp THEN Depth(frames) + 1 ELSE Depth(frames)
      /\ HasScope(Frame(k, j, sp, raw))
  <2>1. raw # {} => sp
    BY DEF Raw
  <2> HIDE DEF sp, raw, D
  <2>2. HasScope(Frame(k, j, sp, raw))
    BY <2>1, SMTT(30) DEF HasScope, Frame
  <2> QED
    BY <2>2, SMTT(30) DEF D, sp
<1>6. sp <=> x.kind = "borrow"
  BY SMTT(30)
<1> HIDE DEF s, D, sp
<1>7. /\ res.r \in {"ok", "err"} /\ GivenIn(res.st, given)
      /\ res.r = "ok" => Good(res.st, Alive, Raws(frames) \cup Rawly(j, x, res.v, D), given, D)
  <2>1. x.kind = "borrow" => D > 0 /\ s.scopes[D].lenders = <<>>
    BY <1>4, <1>6, SMTT(30)
  <2>2. res = resource_transfer(s, i, j, x)
    OBVIOUS
  <2> HIDE DEF res
  <2> QED
    BY <1>4, <2>1, <2>2, TransferFine, ZenonT(30)
<1> HIDE DEF res
<1>8. Tagged(raw, D) = Rawly(j, x, res.v, D)
  BY SMTT(30) DEF Rawly
<1> HIDE DEF raw, k
<1>9. ASSUME res.r = "ok" PROVE FramesOK(frames') /\ Good(res.st, Alive, Raws(frames'), given, Depth(frames'))
  <2>1. Good(res.st, Alive, Raws(frames) \cup Tagged(raw, D), given, D) /\ FramesOK(frames)
    BY <1>2, <1>7, <1>8, <1>9, ZenonT(30) DEF Now
  <2> QED
    BY <1>1, <1>5, <2>1, CallEntered, ZenonT(30)
<1> QED
  BY <1>1, <1>3, <1>7, <1>9, Landed, ZenonT(30)

\* A call by the host keeps the invariant.
LEMMA CallKeeps ==
    ASSUME IndInv, NEW i \in Instances, NEW x \in Values({"own", "borrow"}, given), Call(i, x)
    PROVE  IndInv'
<1> DEFINE s == enter_call(st)
           D == Depth(frames) + 1
           res == lower_to_index(s, i, x)
           raw == Raw(i, x, res.v)
           k == "func"
           sp == TRUE
<1>1. /\ status = "ok" /\ st' = res.st /\ status' = res.r /\ Len(frames) < MaxFrames
      /\ Pushed(frames, frames', Frame(k, i, sp, raw))
      /\ UNCHANGED <<created, destroyed, given>>
  BY DEF Call, HostRuns, Do, Push, Pushed, Frame
<1>2. Now
  BY <1>1, NowHolds, Zenon
<1>3. CountersOK' /\ Alive' = Alive
  BY <1>1, <1>2, SameCounters, Zenon DEF Now
<1>4. D \in Nat \ {0} /\ Good(s, Alive, Raws(frames), given, D) /\ s.scopes[D].lenders = <<>>
  BY <1>1, EnterNow, ZenonT(30)
<1>5. /\ k \in {"import", "adapter", "func"} /\ sp \in BOOLEAN /\ D = IF sp THEN Depth(frames) + 1 ELSE Depth(frames)
      /\ HasScope(Frame(k, i, sp, raw))
  <2> HIDE DEF raw
  <2> QED
    BY SMTT(30) DEF HasScope, Frame
<1> HIDE DEF s, D, sp
<1>7. /\ res.r \in {"ok", "err"} /\ GivenIn(res.st, given)
      /\ res.r = "ok" => Good(res.st, Alive, Raws(frames) \cup Rawly(i, x, res.v, D), given, D)
  <2>2. res = lower_to_index(s, i, x)
    OBVIOUS
  <2> HIDE DEF res
  <2> QED
    BY <1>4, <2>2, LowerToIndexFine, ZenonT(30)
<1> HIDE DEF res
<1>8. Tagged(raw, D) = Rawly(i, x, res.v, D)
  BY DEF Rawly
<1> HIDE DEF raw, k
<1>9. ASSUME res.r = "ok" PROVE FramesOK(frames') /\ Good(res.st, Alive, Raws(frames'), given, Depth(frames'))
  <2>1. Good(res.st, Alive, Raws(frames) \cup Tagged(raw, D), given, D) /\ FramesOK(frames)
    BY <1>2, <1>7, <1>8, <1>9, ZenonT(30) DEF Now
  <2> QED
    BY <1>1, <1>5, <2>1, CallEntered, ZenonT(30)
<1> QED
  BY <1>1, <1>3, <1>7, <1>9, Landed, ZenonT(30)

\* The end of a call.
LEMMA ReturnKeeps ==
    ASSUME IndInv, status = "ok", frames # <<>>, Pop, UNCHANGED <<created, destroyed, given>>,
           NEW v, v.r \in {"ok", "err"}, GivenIn(v.st, given),
           v.r = "ok" => Good(v.st, Alive, Raws(frames), given, Depth(frames)),
           NEW res, res = Returned(v, Top),
           st' = res.st, status' = res.r
    PROVE  IndInv'
<1>1. Now
  BY NowHolds, Zenon
<1>2. CountersOK' /\ Alive' = Alive
  BY <1>1, SameCounters, Zenon DEF Now
<1>3. Shorter(frames, frames') /\ Top = frames[Len(frames)]
  BY DEF Shorter, Pop, Top
<1>4. FramesOK(frames') /\ Fine(res, Alive, Raws(frames'), given, Depth(frames'))
  <2> DEFINE fr == frames
             gr == frames'
             O == Alive
             G == given
             top == Top
  <2>1. FramesOK(fr) /\ Shorter(fr, gr) /\ top = Innermost(fr) /\ res = Returned(v, top)
    BY <1>1, <1>3, ZenonT(30) DEF Now, Innermost
  <2>2. GivenIn(v.st, G) /\ (v.r = "ok" => Good(v.st, O, Raws(fr), G, Depth(fr)))
    OBVIOUS
  <2> HIDE DEF fr, gr, O, G, top
  <2>3. FramesOK(gr) /\ Fine(res, O, Raws(gr), G, Depth(gr))
    BY <2>1, <2>2, ReturnFine, SMTT(30)
  <2> QED
    BY <2>3, Zenon DEF fr, gr, O, G
<1> QED
  BY <1>2, <1>4, Landed, Zenon DEF Fine

\* A return from one instance to another keeps the invariant.
LEMMA ReturnAdapterKeeps ==
    ASSUME IndInv, NEW i \in Instances, NEW x \in Values({"own"}, Handles), ReturnAdapter(i, x)
    PROVE  IndInv'
<1> DEFINE v == resource_transfer(st, Top.inst, i, x)
           res == Returned(v, Top)
<1>1. /\ status = "ok" /\ Len(frames) > 1 /\ Pop /\ UNCHANGED <<created, destroyed, given>>
      /\ st' = res.st /\ status' = res.r
  BY Zenon DEF ReturnAdapter, Do, Then, Returned
<1>2. Now /\ Depth(frames) \in Nat
  BY <1>1, NowHolds, Zenon
<1>3. frames # <<>>
  BY <1>1, SMTT(30)
<1>4. Top.inst \in Instances
  BY <1>2, <1>3, TopFrame, Zenon DEF Now, Top
<1>5. x \in Values({"own", "borrow"}, Handles) /\ x.kind # "borrow"
  BY OwnValues, Zenon
<1>6. v.r \in {"ok", "err"} /\ GivenIn(v.st, given) /\ (v.r = "ok" => Good(v.st, Alive, Raws(frames), given, Depth(frames)))
  <2> DEFINE j == Top.inst
  <2>1. v = resource_transfer(st, j, i, x) /\ j \in Instances /\ Good(st, Alive, Raws(frames), given, Depth(frames))
    BY <1>2, <1>4, Zenon DEF Now
  <2> HIDE DEF v, j
  <2>2. /\ v.r \in {"ok", "err"} /\ GivenIn(v.st, given)
        /\ v.r = "ok" => Good(v.st, Alive, Raws(frames) \cup Rawly(i, x, v.v, Depth(frames)), given, Depth(frames))
    BY <1>2, <1>5, <2>1, TransferFine, ZenonT(30)
  <2>3. Raws(frames) \cup Rawly(i, x, v.v, Depth(frames)) = Raws(frames)
    BY <1>5, NotRaw, SMTT(30)
  <2> QED
    BY <2>2, <2>3, Zenon
<1>7. res = Returned(v, Top)
  OBVIOUS
<1> HIDE DEF v, res
<1> QED
  BY <1>1, <1>3, <1>6, <1>7, ReturnKeeps, SMTT(30)

\* A return from the host keeps the invariant.
LEMMA ReturnImportKeeps ==
    ASSUME IndInv, NEW x \in Values({"own"}, given), ReturnImport(x)
    PROVE  IndInv'
<1> DEFINE v == lower_to_index(st, Top.inst, x)
           res == IF v.r = "ok" THEN exit_call(v.st) ELSE v
<1>1. /\ status = "ok" /\ frames # <<>> /\ Top.kind = "import" /\ Pop /\ UNCHANGED <<created, destroyed, given>>
      /\ st' = res.st /\ status' = res.r
  BY Zenon DEF ReturnImport, Do, Then
<1>2. Now
  BY <1>1, NowHolds, Zenon
<1>4. Top.inst \in Instances /\ Top.scoped /\ Depth(frames) \in Nat \ {0}
  BY <1>1, <1>2, TopFrame, ZenonT(30) DEF Now, Top
<1>5. x \in Values({"own", "borrow"}, given) /\ x.kind # "borrow"
  BY OwnValues, Zenon
<1>6. v.r \in {"ok", "err"} /\ GivenIn(v.st, given) /\ (v.r = "ok" => Good(v.st, Alive, Raws(frames), given, Depth(frames)))
  <2> DEFINE j == Top.inst
  <2>1. v = lower_to_index(st, j, x) /\ j \in Instances /\ Good(st, Alive, Raws(frames), given, Depth(frames))
    BY <1>2, <1>4, Zenon DEF Now
  <2> HIDE DEF v, j
  <2>2. /\ v.r \in {"ok", "err"} /\ GivenIn(v.st, given)
        /\ v.r = "ok" => Good(v.st, Alive, Raws(frames) \cup Rawly(j, x, v.v, Depth(frames)), given, Depth(frames))
    BY <1>4, <1>5, <2>1, LowerToIndexFine, ZenonT(30)
  <2>3. Raws(frames) \cup Rawly(j, x, v.v, Depth(frames)) = Raws(frames)
    BY <1>5, NotRaw, SMTT(30)
  <2> QED
    BY <2>2, <2>3, Zenon
<1>7. res = Returned(v, Top)
  BY <1>4, Zenon DEF Returned
<1> HIDE DEF v, res
<1> QED
  BY <1>1, <1>6, <1>7, ReturnKeeps, SMTT(30)

\* post_return keeps the invariant.
LEMMA PostReturnKeeps ==
    ASSUME IndInv, PostReturn
    PROVE  IndInv'
<1> DEFINE v == Ok(st, {})
           res == exit_call(st)
<1>1. /\ status = "ok" /\ frames # <<>> /\ Top.kind = "func" /\ Pop /\ UNCHANGED <<created, destroyed, given>>
      /\ st' = res.st /\ status' = res.r
  BY DEF PostReturn, HostRuns, Do
<1>2. Now /\ GivenIn(st, given)
  BY <1>1, NowHolds, Zenon
<1>4. Top.scoped
  BY <1>1, <1>2, TopFrame, ZenonT(30) DEF Now, Top
<1>5. v.r = "ok" /\ v.st = st
  BY DEF Ok
<1> HIDE DEF v
<1>6. v.r \in {"ok", "err"} /\ GivenIn(v.st, given) /\ (v.r = "ok" => Good(v.st, Alive, Raws(frames), given, Depth(frames)))
  BY <1>2, <1>5, Zenon DEF Now
<1>7. res = Returned(v, Top)
  BY <1>4, <1>5, Zenon DEF Returned
<1> HIDE DEF res
<1> QED
  BY <1>1, <1>6, <1>7, ReturnKeeps, SMTT(30)

\* A return to the host keeps the invariant.
LEMMA ReturnFuncKeeps ==
    ASSUME IndInv, NEW i \in Instances, NEW x \in Values({"own"}, Handles), ReturnFunc(i, x)
    PROVE  IndInv'
<1> DEFINE D == Depth(frames)
           res == lift_from_index(st, i, x)
<1>1. /\ status = "ok" /\ st' = res.st /\ status' = res.r /\ frames # <<>> /\ Top.kind = "func"
      /\ Finished(frames, frames')
      /\ UNCHANGED <<created, destroyed>>
      /\ given' = IF res.r = "ok" THEN GivenTo(x, res.v, given) ELSE given
  BY Zenon DEF ReturnFunc, GuestRuns, Do, Finished, Give, GivenTo
<1>2. Now
  BY <1>1, NowHolds, Zenon
<1>3. CountersOK' /\ Alive' = Alive
  BY <1>1, <1>2, SameCounters, ZenonT(30) DEF Now
<1>4. D \in Nat \ {0} /\ Good(st, Alive, Raws(frames), given, D)
  BY <1>1, <1>2, TopFrame, ZenonT(30) DEF Now, Top
<1>5. x \in Values({"own", "borrow"}, Handles) /\ x.kind # "borrow"
  BY OwnValues
<1> HIDE DEF D
<1>6. /\ res.r \in {"ok", "err"} /\ GivenIn(res.st, given)
      /\ res.r = "ok" => Good(res.st, Alive, Raws(frames), GivenTo(x, res.v, given), D)
  <2>1. res = lift_from_index(st, i, x)
    OBVIOUS
  <2> HIDE DEF res
  <2> QED
    BY <1>4, <1>5, <2>1, LiftFromIndexFine, ZenonT(30)
<1> HIDE DEF res
<1>7. FramesOK(frames') /\ Raws(frames') = Raws(frames) /\ Depth(frames') = D
  BY <1>1, <1>2, DoneFrames, ZenonT(30) DEF Now, D
<1>8. res.r = "ok" => Good(res.st, Alive, Raws(frames'), given', Depth(frames'))
  BY <1>1, <1>6, <1>7, ZenonT(30)
<1>9. GivenIn(res.st, given')
  <2>1. CASE res.r = "ok"
    BY <1>8, <2>1, Zenon DEF Good
  <2>2. CASE res.r # "ok"
    BY <1>1, <1>6, <2>2, Zenon
  <2> QED
    BY <2>1, <2>2, Zenon
<1> QED
  BY <1>1, <1>3, <1>6, <1>7, <1>8, <1>9, Landed, ZenonT(30)

-----------------------------------------------------------------------------
(* The invariant *)

\* A new store is good: no slots, no scopes, no owners.
LEMMA StartsGood ==
    Good(NewState, {}, {}, {}, 0)
<1> DEFINE s == NewState
           e == [next |-> 1, slots |-> <<>>]
<1>1. /\ s.tables = [t \in Tables |-> e] /\ s.scopes = <<>> /\ s.cur_generation = 0 /\ s.metadata = <<>>
  BY DEF NewState, Tables
<1>2. e \in TableType /\ e.slots = <<>> /\ e.next = 1
  BY SMTT(30) DEF TableType
<1>3. s \in State
  <2> HIDE DEF e
  <2>1. [t \in Tables |-> e] \in [Tables -> TableType]
    BY <1>2, SMTT(30)
  <2>2. <<>> \in Seq(ScopeType) /\ <<>> \in Seq(Nat) /\ 0 \in Nat
    OBVIOUS
  <2> QED
    BY <2>1, <2>2, Zenon DEF NewState, State, Tables, e
<1> HIDE DEF s
<1>4. TableOK(e)
  <2>1. Vacant(e) = {} /\ Len(e.slots) = 0
    BY <1>2, SMTT(30) DEF Vacant
  <2>2. FreeList(e)
    <3> HIDE DEF e
    <3> QED
      BY <1>2, <2>1, SMTT(30) DEF FreeList
  <2>3. DOMAIN e.slots = {}
    BY <1>2, SMTT(30)
  <2> QED
    BY <1>2, <2>2, <2>3, Zenon DEF TableOK
<1> HIDE DEF e
<1>5. StateOK(s)
  <2>1. \A t \in Tables : s.tables[t] = e
    BY <1>1
  <2>2. Host \in Tables
    BY DEF Tables
  <2> QED
    BY <1>1, <1>2, <1>3, <1>4, <2>1, <2>2, ZenonT(30) DEF StateOK
<1>6. DOMAIN Live(s) = {}
  <2>1. \A t \in Tables : \A h : ~Used(s, t, h)
    BY <1>1, <1>2, SMTT(30) DEF Used
  <2> QED
    BY <2>1, Zenon DEF Live, Places
<1>7. CallsOK(Live(s), <<>>, {}, {})
  <2>1. Owned(Live(s)) = {} /\ Borrowed(Live(s)) = {}
    BY <1>6 DEF Owned, Borrowed
  <2>2. Live(s) \in Maps
    BY <1>5, LiveIsMap, Zenon
  <2> HIDE DEF s
  <2> QED
    BY <2>1, <2>2, SMTT(30) DEF CallsOK, OwnersOK, LendersOK, BorrowersOK, BackedOK
<1>8. GivenIn(s, {})
  BY Zenon DEF GivenIn, GivenOK
<1>9. Good(s, {}, {}, {}, 0)
  BY <1>1, <1>5, <1>7, <1>8, Zenon DEF Good
<1> QED
  BY <1>9, Zenon DEF s

\* The invariant holds at the start.
LEMMA InitIndInv ==
    ASSUME Init
    PROVE  IndInv
<1>1. FramesOK(frames) /\ Raws(frames) = {} /\ Depth(frames) = 0
  <2>1. frames = <<>> /\ Len(frames) = 0 /\ DOMAIN frames = {} /\ frames \in Seq(Frames)
    BY DEF Init
  <2>2. {m \in 1..0 : frames[m].scoped} = {}
    OBVIOUS
  <2>3. Depth(frames) = 0
    BY <2>1, <2>2, FS_EmptySet, ZenonT(30) DEF Depth, ScopeOf
  <2> QED
    BY <2>1, <2>3, BoundsAssumption, SMTT(30) DEF FramesOK, Raws
<1>2. CountersOK /\ Alive = {}
  BY BoundsAssumption, SMTT(30) DEF Init, CountersOK, Alive
<1>3. Good(st, Alive, Raws(frames), given, Depth(frames))
  BY <1>1, <1>2, StartsGood, ZenonT(30) DEF Init
<1>4. GivenIn(st, given)
  BY <1>3, Zenon DEF Good
<1> QED
  BY <1>1, <1>2, <1>3, <1>4, ZenonT(30) DEF IndInv, Init

\* Every step keeps the invariant.
LEMMA NextIndInv ==
    ASSUME IndInv, [Next]_vars
    PROVE  IndInv'
<1>1. CASE UNCHANGED vars
  BY <1>1 DEF vars, IndInv, CountersOK, Alive
<1>2. CASE New
  BY <1>2, NewKeeps, SMTT(30)
<1>3. CASE \E i \in Instances, h \in Handles : Drop(i, h)
  BY <1>3, DropKeeps, Zenon
<1>4. CASE \E i \in Instances, x \in Values({"own", "borrow"}, Handles) : CallImport(i, x)
  BY <1>4, CallImportKeeps, Zenon
<1>5. CASE \E i \in Instances, x \in Values({"own", "borrow"}, Handles) : \E j \in Instances : CallAdapter(i, j, x)
  BY <1>5, CallAdapterKeeps, Zenon
<1>6. CASE \E i \in Instances, x \in Values({"own"}, Handles) : ReturnAdapter(i, x)
  BY <1>6, ReturnAdapterKeeps, Zenon
<1>7. CASE \E i \in Instances, x \in Values({"own"}, Handles) : ReturnFunc(i, x)
  BY <1>7, ReturnFuncKeeps, SMTT(30)
<1>8. CASE \E i \in Instances, x \in Values({"own", "borrow"}, given) : Call(i, x)
  BY <1>8, CallKeeps, ZenonT(30)
<1>9. CASE PostReturn
  BY <1>9, PostReturnKeeps
<1>10. CASE \E x \in Values({"own"}, given) : ReturnImport(x)
  BY <1>10, ReturnImportKeeps, Zenon
<1>11. CASE \E any \in given : HostDrop(any)
  BY <1>11, HostDropKeeps, SMTT(30)
<1> QED
  BY <1>1, <1>2, <1>3, <1>4, <1>5, <1>6, <1>7, <1>8, <1>9, <1>10, <1>11, ZenonT(30) DEF Next

\* IndInv holds in every reachable state.
LEMMA Invariant ==
    Spec => []IndInv
<1>1. Init => IndInv
  BY InitIndInv, SMTT(30)
<1>2. IndInv /\ [Next]_vars => IndInv'
  BY NextIndInv, SMTT(30)
<1> QED
  BY <1>1, <1>2, PTL, SMTT(30) DEF Spec

-----------------------------------------------------------------------------
(* What it says of the calls *)

\* The handles of the properties are the slots in use.
LEMMA SlotsInUse ==
    ASSUME IndInv, status = "ok"
    PROVE  AllSlots = DOMAIN Live(st) /\ \A p \in AllSlots : Slot(p) = Live(st)[p]
<1>1. StateOK(st)
  BY NowHolds, SMTT(30) DEF Now, Good
<1>2. ASSUME NEW t \in Tables, NEW h, Used(st, t, h) PROVE h \in Handles /\ h \in Nat
  <2>1. st.tables[t].slots \in Seq(Slots) /\ h \in DOMAIN st.tables[t].slots /\ h < MAX_RESOURCE_HANDLE
    BY <1>1, <1>2, StateFields, ZenonT(30) DEF Used
  <2>2. h \in Nat /\ h >= 1
    BY <2>1
  <2> QED
    BY <2>1, <2>2, ResourceAssumption, SMTT(30) DEF Handles
<1>3. AllSlots = DOMAIN Live(st)
  <2>1. \A p \in AllSlots : p \in DOMAIN Live(st)
    BY <1>2 DEF AllSlots, Live, Places, Tables
  <2>2. \A p \in DOMAIN Live(st) : p \in AllSlots
    BY <1>2, SMTT(30) DEF AllSlots, Live, Places, Tables
  <2> QED
    BY <2>1, <2>2, Zenon
<1>4. \A p \in DOMAIN Live(st) : SlotAt(st, p[1], p[2]) = Live(st)[p]
  BY LiveFacts, Zenon
<1> QED
  BY <1>3, <1>4, Zenon DEF Slot

\* BorrowsAreTracked follows: lend counts and borrow counts are those of the scopes.
LEMMA Tracked ==
    ASSUME IndInv
    PROVE  BorrowsAreTracked
<1> SUFFICES ASSUME status = "ok" PROVE BorrowsAreTracked
  BY SMTT(30) DEF BorrowsAreTracked
<1> DEFINE f == Live(st)
           sc == st.scopes
           In(p) == {l \in (1..MaxFrames) \X (1..MaxFrames) :
              /\ l[1] \in DOMAIN sc /\ l[2] \in DOMAIN sc[l[1]].lenders
              /\ sc[l[1]].lenders[l[2]] = [ty |-> p[1], idx |-> p[2]]}
<1>1. /\ f \in Maps /\ sc \in Seq(ScopeType)
      /\ LendersOK(f, sc) /\ BorrowersOK(f, sc) /\ BackedOK(f, sc, Raws(frames))
      /\ Len(sc) = Depth(frames) /\ FramesOK(frames)
  BY NowHolds, SMTT(30) DEF Now, Good, CallsOK
<1>2. AllSlots = DOMAIN f /\ \A p \in AllSlots : Slot(p) = f[p]
  BY SlotsInUse, ZenonT(30)
<1>3. DOMAIN sc = 1..Len(sc) /\ Len(sc) \in Nat /\ Len(sc) <= MaxFrames
  <2>1. Len(frames) \in Nat /\ Len(frames) <= MaxFrames
    BY <1>1, FramesFacts, Zenon
  <2>2. Depth(frames) \in Nat /\ Depth(frames) <= Len(frames)
    BY <2>1, ScopedFinite, Zenon DEF Depth
  <2> QED
    BY <1>1, <2>1, <2>2, BoundsAssumption, SMTT(30)
<1> HIDE DEF f, sc
<1>4. ASSUME NEW p \in AllSlots, Slot(p).kind = "own" PROVE Slot(p).count = Cardinality(In(p))
  <2> DEFINE L == Lends(sc, p)
             b == [k \in L |-> <<k, 1>>]
  <2>1. p \in Owned(f) /\ p \in Places
    BY <1>1, <1>2, <1>4, MapFacts, ZenonT(30) DEF Owned
  <2>2. Slot(p).count = Cardinality(L) /\ IsFiniteSet(L)
    BY <1>1, <1>2, <2>1, LendsFinite, ZenonT(30) DEF LendersOK
  <2>3. Lent(p) = <<[ty |-> p[1], idx |-> p[2]]>>
    BY Zenon DEF Lent
  <2>4. ASSUME NEW k \in L PROVE <<k, 1>> \in In(p)
    <3>1. k \in DOMAIN sc /\ sc[k].lenders = Lent(p)
      BY DEF Lends
    <3>2. k \in 1..MaxFrames /\ 1 \in 1..MaxFrames
      BY <1>3, <3>1, BoundsAssumption, SMTT(30)
    <3>3. 1 \in DOMAIN sc[k].lenders /\ sc[k].lenders[1] = [ty |-> p[1], idx |-> p[2]]
      BY <2>3, <3>1, SMTT(30)
    <3> QED
      BY <3>1, <3>2, <3>3, Zenon
  <2>5. ASSUME NEW l \in In(p) PROVE l[1] \in L /\ l = <<l[1], 1>>
    <3>1. /\ l[1] \in DOMAIN sc /\ l[2] \in DOMAIN sc[l[1]].lenders
          /\ sc[l[1]].lenders[l[2]] = [ty |-> p[1], idx |-> p[2]] /\ l = <<l[1], l[2]>>
      BY SMTT(30)
    <3> DEFINE k == l[1]
    <3>2. sc[k].lenders # <<>>
      BY <3>1, SMTT(30)
    <3>3. PICK q \in Owned(f) : sc[k].lenders = Lent(q)
      BY <1>1, <3>1, <3>2, Zenon DEF LendersOK
    <3>4. q \in Places
      BY <1>1, MapFacts, Zenon
    <3>5. l[2] = 1 /\ [ty |-> p[1], idx |-> p[2]] = [ty |-> q[1], idx |-> q[2]]
      BY <3>1, <3>3, SMTT(30) DEF Lent
    <3>6. q = p
      BY <3>4, <3>5, <2>1, SMTT(30) DEF Places
    <3> QED
      BY <3>1, <3>3, <3>5, <3>6, ZenonT(30) DEF Lends
  <2> HIDE DEF L, In
  <2>6. b \in [L -> In(p)]
    BY <2>4, Zenon
  <2>7. b \in Bijection(L, In(p))
    <3>1. \A k, m \in L : b[k] = b[m] => k = m
      OBVIOUS
    <3>2. \A l \in In(p) : \E k \in L : b[k] = l
      BY <2>5, SMTT(30)
    <3> HIDE DEF b
    <3> QED
      BY <2>6, <3>1, <3>2, ZenonT(30) DEF Bijection, Injection, Surjection, IsInjective
  <2>8. ExistsBijection(L, In(p))
    BY <2>7, Zenon DEF ExistsBijection
  <2>9. Cardinality(In(p)) = Cardinality(L)
    BY <2>2, <2>8, FS_Bijection, Zenon
  <2> QED
    BY <2>2, <2>9, Zenon
<1>5. ASSUME NEW k \in DOMAIN sc
      PROVE  sc[k].borrow_count = Cardinality({p \in AllSlots : Slot(p).kind = "borrow" /\ Slot(p).scope = k})
  <2>1. {p \in AllSlots : Slot(p).kind = "borrow" /\ Slot(p).scope = k} = Borrowers(f, k)
    BY <1>2, Zenon DEF Borrowers, Borrowed
  <2> QED
    BY <1>1, <2>1, Zenon DEF BorrowersOK
<1>6. ASSUME NEW p \in AllSlots, Slot(p).kind = "borrow" PROVE Slot(p).scope \in DOMAIN sc
  BY <1>1, <1>2, <1>6, Zenon DEF BackedOK, Borrowed
<1> QED
  BY <1>4, <1>5, <1>6, ZenonT(30) DEF BorrowsAreTracked, sc

\* OwnedOnce follows: the owners are those of the reps alive.
LEMMA OneOwner ==
    ASSUME IndInv
    PROVE  OwnedOnce
<1> SUFFICES ASSUME status = "ok", NEW r \in 1..created PROVE Cardinality(Owns(r)) + destroyed[r] = 1
  BY DEF OwnedOnce
<1> DEFINE f == Live(st)
<1>1. CountersOK /\ OwnersOK(f, Alive)
  BY NowHolds, Zenon DEF Now, Good, CallsOK
<1>2. Owns(r) = {p \in Owned(f) : f[p].rep = r}
  BY SlotsInUse, SMTT(30) DEF Owns, Owned
<1>3. destroyed[r] \in 0..1
  BY <1>1, BoundsAssumption, SMTT(30) DEF CountersOK
<1> HIDE DEF f
<1>4. CASE destroyed[r] = 0
  <2>1. r \in Alive
    BY <1>4, SMTT(30) DEF Alive
  <2>2. PICK p \in Owned(f) : f[p].rep = r
    BY <1>1, <2>1, Zenon DEF OwnersOK
  <2>3. Owns(r) = {p}
    BY <1>1, <1>2, <2>2, Zenon DEF OwnersOK
  <2>4. Cardinality({p}) = 1
    BY FS_Singleton, Zenon
  <2>5. Cardinality(Owns(r)) = 1
    BY <2>3, <2>4, Zenon
  <2> QED
    BY <1>4, <2>5, SMTT(30)
<1>5. CASE destroyed[r] = 1
  <2>1. r \notin Alive
    BY <1>5, SMTT(30) DEF Alive
  <2>2. Owns(r) = {}
    BY <1>1, <1>2, <2>1, SMTT(30) DEF OwnersOK
  <2> QED
    BY <1>5, <2>2, FS_EmptySet, SMTT(30)
<1> QED
  BY <1>3, <1>4, <1>5, SMTT(30)

\* BorrowedIsAlive follows: a borrow is backed by an owner.
LEMMA AliveWhileBorrowed ==
    ASSUME IndInv
    PROVE  BorrowedIsAlive
<1> SUFFICES ASSUME status = "ok" PROVE BorrowedIsAlive
  BY Zenon DEF BorrowedIsAlive
<1>1. /\ \A w \in Raws(frames) : w[1] \in Alive
      /\ \A p \in Borrowed(Live(st)) : Live(st)[p].rep \in Alive
  BY NowHolds, BorrowsAreOwned, Zenon DEF Now
<1>2. \A p \in AllSlots : Slot(p).kind = "borrow" => Slot(p).rep \in Alive
  BY <1>1, SlotsInUse, SMTT(30) DEF Borrowed
<1>3. \A n \in DOMAIN frames : \A r \in frames[n].raw : r \in Alive
  <2>1. \A n \in DOMAIN frames : \A r \in frames[n].raw : <<r, ScopeOf(frames, n)>> \in Raws(frames)
    BY DEF Raws
  <2> QED
    BY <1>1, <2>1, Zenon
<1> QED
  BY <1>2, <1>3, Zenon DEF BorrowedIsAlive, Alive

\* HandleNamesOneResource follows: a generation that matches is that of the slot.
LEMMA NamesOne ==
    ASSUME IndInv
    PROVE  HandleNamesOneResource
<1>1. GivenOK(Live(st), st.metadata, st.cur_generation, given)
  BY Zenon DEF IndInv, GivenIn
<1> SUFFICES ASSUME NEW any \in given, st.metadata[any.idx] = any.gen, Used(st, Host, any.idx)
             PROVE  /\ SlotAt(st, Host, any.idx).rep = any.rep
                    /\ (SlotAt(st, Host, any.idx).kind = "own") = any.owned
  BY SMTT(30) DEF HandleNamesOneResource
<1> DEFINE p == <<Host, any.idx>>
<1>2. any.idx \in Nat /\ Host \in Tables
  BY <1>1, Zenon DEF GivenOK, Anys, Tables
<1>3. p \in DOMAIN Live(st) /\ SlotAt(st, Host, any.idx) = Live(st)[p]
  BY <1>2, UsedFacts, Zenon
<1>4. Live(st)[p].rep = any.rep /\ (Live(st)[p].kind = "own") = any.owned
  BY <1>1, <1>3, SMTT(30) DEF GivenOK
<1> QED
  BY <1>3, <1>4

\* Borrows are tracked exactly, for any number of instances, handles and nested calls.
THEOREM ComponentBorrowsAreTracked == Spec => []BorrowsAreTracked
BY Invariant, Tracked, PTL, SMTT(30)

\* None of the panics of the tables is reached: the unwrap, the unreachable and the
\* underflows of exit_call and resource_drop, the assertions of insert and
\* new_host_index and the match of resource_drop_impl.
THEOREM ComponentNeverPanics == Spec => []NeverPanics
<1>1. IndInv => NeverPanics
  BY ZenonT(30) DEF IndInv, NeverPanics
<1> QED
  BY <1>1, Invariant, PTL, SMTT(30)

\* What is borrowed, by a handle or by its rep, has not been destroyed.
THEOREM ComponentBorrowedIsAlive == Spec => []BorrowedIsAlive
BY Invariant, AliveWhileBorrowed, PTL

\* A resource has one owner until it is destroyed, which happens once.
THEOREM ComponentOwnedOnce == Spec => []OwnedOnce
BY Invariant, OneOwner, PTL

\* The generations keep a ResourceAny from ever standing for another resource.
THEOREM ComponentHandleNamesOneResource == Spec => []HandleNamesOneResource
BY Invariant, NamesOne, PTL
=============================================================================
