------------------------- MODULE SharedMemoryProofs -------------------------
(***************************************************************************)
(* A shared memory, for any finite set of threads, sizes and growths.      *)
(*                                                                         *)
(* Its length: a thread that grows publishes a length it computed earlier; *)
(* the invariant says that the lock is the reason why that is still the    *)
(* mapped length.                                                          *)
(*                                                                         *)
(* Its queues: Queues(l, Q) says that the links of the table l are those   *)
(* of the sequences Q. push, remove and the loop of notify are shown to    *)
(* append to, cut from and drop the front of a sequence; the rest of the   *)
(* argument is about sequences.                                            *)
(***************************************************************************)
EXTENDS SharedMemory, FiniteSetTheorems, TLAPS

IsCall(c) == DOMAIN c = {"key", "expected", "deadline", "new_len"}

\* A thread that grows holds the lock alone, and has computed the mapped length.
GrowInv ==
    /\ len \in Nat /\ current_length \in Nat /\ locked \in BOOLEAN
    /\ DOMAIN pc = Threads
    /\ DOMAIN call = Threads /\ \A t \in Threads : IsCall(call[t])
    /\ \A t \in Threads : pc[t] = "growing" => locked /\ call[t].new_len = len
    /\ \A t, u \in Threads : pc[t] = "growing" /\ pc[u] = "growing" => t = u
    /\ LengthIsMapped

\* Every step keeps the invariant and never shrinks the length.
LEMMA GrowStep ==
    (/\ GrowInv
     /\ [Next]_vars)
    => (GrowInv' /\ current_length' >= current_length)
\* The calls that Finish, Enqueue and Expire write.
<1>CallFacts. ASSUME GrowInv, NEW t \in Threads, NEW c, IsCall(c), call' = [call EXCEPT ![t] = c]
              PROVE  /\ DOMAIN call' = Threads /\ call'[t] = c
                     /\ \A u \in Threads \ {t} : call'[u] = call[u]
  BY <1>CallFacts DEF GrowInv
\* Finish leaves the thread idle.
<1>FinishFacts. ASSUME GrowInv, NEW t \in Threads, NEW r, NEW k, Finish(t, r, k)
                PROVE  /\ pc' = [pc EXCEPT ![t] = "idle"]
                       /\ DOMAIN call' = Threads /\ IsCall(call'[t])
                       /\ \A u \in Threads \ {t} : call'[u] = call[u]
  <2> USE <1>FinishFacts
  <2>1. IsCall(NoCall)
    BY DEF NoCall, IsCall
  <2>2. call' = [call EXCEPT ![t] = NoCall] /\ pc' = [pc EXCEPT ![t] = "idle"]
    BY DEF Finish, Become
  <2> QED
    BY <2>1, <2>2, <1>CallFacts, Zenon
\* The steps that neither grow the memory nor publish a length.
<1>NoGrowth. \A t \in Threads :
                 (/\ GrowInv
                  /\ \/ Store(t) \/ AddrTrap(t) \/ Wait(t) \/ WaitReturns(t)
                     \/ ParkReturns(t) \/ Relock(t) \/ Notify(t))
                 => (GrowInv' /\ UNCHANGED current_length)
  \* A step after which the thread does not grow, and that leaves the memory alone.
  <2>OtherStep. ASSUME GrowInv, NEW t \in Threads, UNCHANGED memory, pc[t] # "growing",
                       pc' = pc \/ \E s \in {"idle", "parked", "awake"} : pc' = [pc EXCEPT ![t] = s],
                       DOMAIN call' = Threads, IsCall(call'[t]),
                       \A u \in Threads \ {t} : call'[u] = call[u]
                PROVE  GrowInv'
    <3> USE <2>OtherStep
    <3>1. DOMAIN pc' = Threads /\ \A u \in Threads \ {t} : pc'[u] = pc[u]
      BY DEF GrowInv
    <3>2. pc'[t] # "growing"
      BY DEF GrowInv
    <3>3. UNCHANGED <<len, current_length, locked>>
      BY DEF memory
    <3> QED
      BY <3>1, <3>2, <3>3 DEF GrowInv, LengthIsMapped
  <2>Main. ASSUME GrowInv, NEW t \in Threads,
                  \/ Store(t) \/ AddrTrap(t) \/ Wait(t) \/ WaitReturns(t)
                  \/ ParkReturns(t) \/ Relock(t) \/ Notify(t)
           PROVE  GrowInv' /\ UNCHANGED current_length
    <3> USE <2>Main
    <3>0. DOMAIN call = Threads /\ IsCall(call[t])
      BY DEF GrowInv
    <3>1. CASE Store(t)
      BY <3>0, <3>1, <2>OtherStep DEF Store, memory
    <3>2. CASE AddrTrap(t)
      BY <3>0, <3>2, <2>OtherStep DEF AddrTrap, memory
    <3>3. CASE Wait(t)
      <4>1. PICK k \in Keys, e \in Values, d \in Deadlines \ {"past"} : Enqueue(t, k, e, d)
        BY <3>3 DEF Wait
      <4> DEFINE c == [NoCall EXCEPT !.key = k, !.expected = e, !.deadline = d]
      <4>2. IsCall(c)
        BY DEF NoCall, IsCall
      <4>3. call' = [call EXCEPT ![t] = c] /\ pc' = [pc EXCEPT ![t] = "parked"] /\ UNCHANGED memory
        BY <4>1 DEF Enqueue, Become
      <4> HIDE DEF c
      <4>4. pc[t] = "idle"
        BY <3>3 DEF Wait
      <4>5. UNCHANGED current_length
        BY <4>3 DEF memory
      <4> QED
        BY <4>2, <4>3, <4>4, <4>5, <1>CallFacts, <2>OtherStep, Zenon
    <3>4. CASE WaitReturns(t)
      <4>1. pc[t] = "idle" /\ UNCHANGED memory /\ \E r, k : Finish(t, r, k)
        BY <3>4, Zenon DEF WaitReturns
      <4>2. UNCHANGED current_length
        BY <4>1 DEF memory
      <4> QED
        BY <4>1, <4>2, <1>FinishFacts, <2>OtherStep
    <3>5. CASE ParkReturns(t)
      BY <3>0, <3>5, <2>OtherStep, Zenon DEF ParkReturns, Become, memory
    <3>6. CASE Relock(t)
      <4>1. pc[t] = "awake" /\ UNCHANGED memory
        BY <3>6 DEF Relock
      <4>2. UNCHANGED current_length
        BY <4>1 DEF memory
      <4>3. CASE \E r, k : Finish(t, r, k)
        BY <4>1, <4>2, <4>3, <1>FinishFacts, <2>OtherStep
      <4>4. CASE Become(t, "parked") /\ UNCHANGED call
        BY <3>0, <4>1, <4>2, <4>4, <2>OtherStep, Zenon DEF Become
      <4> QED
        BY <3>6, <4>3, <4>4 DEF Relock
    <3>7. CASE Notify(t)
      <4>1. pc[t] = "idle" /\ UNCHANGED <<memory, pc, call>>
        BY <3>7 DEF Notify
      <4>2. UNCHANGED current_length
        BY <4>1 DEF memory
      <4> QED
        BY <3>0, <4>1, <4>2, <2>OtherStep
    <3> QED
      BY <3>1, <3>2, <3>3, <3>4, <3>5, <3>6, <3>7
  <2> QED
    BY <2>Main, Zenon
\* A deadline that passes changes a call, but not the length in it.
<1>ExpireGrow. ASSUME GrowInv, NEW t \in Threads, Expire(t)
               PROVE  GrowInv' /\ UNCHANGED current_length
  <2> USE <1>ExpireGrow
  <2> DEFINE c == [call[t] EXCEPT !.deadline = "past"]
  <2>1. IsCall(c) /\ c.new_len = call[t].new_len
    BY DEF GrowInv, IsCall
  <2>2. call' = [call EXCEPT ![t] = c] /\ UNCHANGED <<memory, pc>>
    BY DEF Expire
  <2> HIDE DEF c
  <2>3. UNCHANGED <<len, current_length, locked, pc>>
    BY <2>2 DEF memory
  <2>4. /\ DOMAIN call' = Threads /\ call'[t] = c
        /\ \A u \in Threads \ {t} : call'[u] = call[u]
    BY <2>1, <2>2, <1>CallFacts, Zenon
  <2> QED
    BY <2>1, <2>3, <2>4 DEF GrowInv, LengthIsMapped
\* Grow takes the lock, so no other thread grows.
<1>GrowGrow. ASSUME GrowInv, NEW t \in Threads, Grow(t)
             PROVE  GrowInv' /\ UNCHANGED current_length
  <2> USE <1>GrowGrow
  <2>1. PICK delta \in Deltas :
          /\ ~locked /\ locked' = TRUE /\ len' = len + delta
          /\ call' = [call EXCEPT ![t] = [NoCall EXCEPT !.new_len = len + delta]]
          /\ pc' = [pc EXCEPT ![t] = "growing"]
          /\ UNCHANGED current_length
    BY Zenon DEF Grow, Become
  <2> DEFINE c == [NoCall EXCEPT !.new_len = len + delta]
  <2>2. IsCall(c) /\ c.new_len = len'
    BY <2>1 DEF NoCall, IsCall
  <2>3. call' = [call EXCEPT ![t] = c]
    BY <2>1
  <2> HIDE DEF c
  <2>4. /\ DOMAIN call' = Threads /\ call'[t] = c
        /\ \A u \in Threads \ {t} : call'[u] = call[u]
    BY <2>2, <2>3, <1>CallFacts, Zenon
  <2>5. \A u \in Threads : pc[u] # "growing"
    BY <2>1 DEF GrowInv
  <2>6. /\ DOMAIN pc' = Threads /\ pc'[t] = "growing"
        /\ \A u \in Threads \ {t} : pc'[u] # "growing"
    BY <2>1, <2>5 DEF GrowInv
  <2>7. delta \in Nat /\ len \in Nat /\ current_length \in Nat /\ current_length <= len
    BY DeltasAssumption DEF GrowInv, LengthIsMapped
  <2>8. len' \in Nat /\ current_length' <= len' /\ current_length' \in Nat
    BY <2>1, <2>7
  <2>9. \A u \in Threads : IsCall(call'[u])
    BY <2>2, <2>4 DEF GrowInv
  <2> QED
    BY <2>1, <2>2, <2>4, <2>6, <2>8, <2>9 DEF GrowInv, LengthIsMapped
\* Publish makes the mapped length visible.
<1>PublishGrow. ASSUME GrowInv, NEW t \in Threads, Publish(t)
                PROVE  GrowInv' /\ current_length' >= current_length
  <2> USE <1>PublishGrow
  <2>1. /\ pc[t] = "growing" /\ current_length' = call[t].new_len /\ locked' = FALSE
        /\ len' = len /\ Finish(t, "Grown", call[t].new_len)
    BY DEF Publish
  <2>2. current_length' = len
    BY <2>1 DEF GrowInv
  <2>3. /\ pc' = [pc EXCEPT ![t] = "idle"]
        /\ DOMAIN call' = Threads /\ IsCall(call'[t])
        /\ \A u \in Threads \ {t} : call'[u] = call[u]
    BY <2>1, <1>FinishFacts
  <2>4. DOMAIN pc' = Threads /\ \A u \in Threads : pc'[u] # "growing"
    BY <2>1, <2>3 DEF GrowInv
  <2>5. len \in Nat /\ current_length \in Nat /\ current_length <= len
    BY DEF GrowInv, LengthIsMapped
  <2>6. current_length' >= current_length /\ current_length' <= len' /\ current_length' = len'
    BY <2>1, <2>2, <2>5
  <2>7. \A u \in Threads : IsCall(call'[u])
    BY <2>3 DEF GrowInv
  <2>8. len' \in Nat /\ current_length' \in Nat /\ locked' \in BOOLEAN
    BY <2>1, <2>2, <2>5, Zenon
  <2> QED
    BY <2>3, <2>4, <2>6, <2>7, <2>8 DEF GrowInv, LengthIsMapped
<1>Main. ASSUME GrowInv, [Next]_vars
         PROVE  GrowInv' /\ current_length' >= current_length
  <2> USE <1>Main
  <2>0. current_length \in Nat
    BY DEF GrowInv
  <2>1. CASE UNCHANGED vars
    BY <2>0, <2>1 DEF vars, GrowInv, LengthIsMapped
  <2>2. CASE Next
    BY <2>0, <2>2, <1>NoGrowth, <1>ExpireGrow, <1>GrowGrow, <1>PublishGrow DEF Next
  <2> QED
    BY <2>1, <2>2
<1> QED
  BY <1>Main, Zenon

\* Init.
LEMMA GrowInit == Init => GrowInv
<1> SUFFICES ASSUME Init PROVE GrowInv
  OBVIOUS
<1>1. IsCall(NoCall)
  BY DEF NoCall, IsCall
<1> QED
  <2>1. len = Minimum /\ current_length = Minimum /\ locked = FALSE
    BY DEF Init
  <2>2. DOMAIN pc = Threads /\ \A t \in Threads : pc[t] = "idle"
    BY DEF Init
  <2>3. DOMAIN call = Threads /\ \A t \in Threads : call[t] = NoCall
    BY DEF Init
  <2>4. len \in Nat /\ current_length \in Nat /\ locked \in BOOLEAN /\ LengthIsMapped
    <3>1. len \in Nat /\ current_length = len /\ current_length <= len
      <4>1. Minimum \in Nat /\ Minimum <= Minimum
        BY SizesAssumption
      <4> QED
        BY <2>1, <4>1
    <3>2. locked \in BOOLEAN
      BY <2>1, Zenon
    <3> QED
      BY <3>1, <3>2 DEF LengthIsMapped
  <2>5. \A t \in Threads : pc[t] # "growing"
    BY <2>2
  <2>6. \A t \in Threads : IsCall(call[t])
    BY <1>1, <2>3
  <2> QED
    BY <2>2, <2>3, <2>4, <2>5, <2>6 DEF GrowInv

\* The length that compiled code reads is never ahead of the mapped memory, and is that
\* memory whenever no thread grows it (SharedMemory::grow).
THEOREM SharedLengthIsMapped == Spec => []LengthIsMapped
<1>1. GrowInv /\ [Next]_vars => GrowInv'
  BY GrowStep
<1>2. GrowInv => LengthIsMapped
  BY DEF GrowInv
<1> QED
  BY GrowInit, <1>1, <1>2, PTL DEF Spec

\* The length that compiled code reads never shrinks, whatever order threads grow in: the
\* assumption of the code that reads it without a lock.
THEOREM SharedLengthOnlyGrows == Spec => LengthOnlyGrows
<1>1. GrowInv /\ [Next]_vars => GrowInv'
  BY GrowStep
<1>2. GrowInv /\ [Next]_vars => [current_length' >= current_length]_vars
  BY GrowStep
<1> QED
  BY GrowInit, <1>1, <1>2, PTL DEF Spec, LengthOnlyGrows

-----------------------------------------------------------------------------
(* The queues *)

\* The least element of a set of numbers: the form in which the proofs use induction.
LEMMA Least ==
    ASSUME NEW S \in SUBSET Nat, S # {}
    PROVE  \E n \in S : \A m \in S : n <= m
<1> DEFINE R == {ss \in Nat \X Nat : ss[1] < ss[2]}
<1>1. IsWellFoundedOn(R, Nat)
  BY NatLessThanWellFounded DEF OpToRel
<1>2. \E x \in S : \A y \in S : ~(<<y, x>> \in R)
  <2> HIDE DEF R
  <2> QED
    BY <1>1, WFMin, Zenon
<1>3. PICK x \in S : \A y \in S : ~(<<y, x>> \in R)
  BY <1>2
<1>4. \A y \in S : ~(y < x)
  BY <1>3, Zenon
<1>5. x \in Nat /\ \A y \in S : y \in Nat
  OBVIOUS
<1> QED
  BY <1>4, <1>5

LotType ==
    [head : [Keys -> SUBSET Threads], tail : [Keys -> SUBSET Threads],
     next : [Threads -> SUBSET Threads], prev : [Threads -> SUBSET Threads],
     notified : [Threads -> BOOLEAN]]

On(q) == {q[i] : i \in 1..Len(q)}
Distinct(q) == \A i, j \in 1..Len(q) : q[i] = q[j] => i = j

\* The links h and tl to the ends of a queue and those between its waiters are q's.
Links(h, tl, nx, pv, q) ==
    /\ Len(q) = 0 => h = {} /\ tl = {}
    /\ Len(q) > 0 => h = {q[1]} /\ tl = {q[Len(q)]} /\ pv[q[1]] = {} /\ nx[q[Len(q)]] = {}
    /\ \A i \in 1..Len(q) : i < Len(q) => nx[q[i]] = {q[i + 1]}
    /\ \A i \in 1..Len(q) : i > 1 => pv[q[i]] = {q[i - 1]}

Cut(q, i) == [j \in 1..(Len(q) - 1) |-> IF j < i THEN q[j] ELSE q[j + 1]]

\* The whole table: every queue is linked, no thread is on two, and one that is on none
\* has no links.
Queues(l, Q) ==
    /\ l \in LotType /\ Q \in [Keys -> Seq(Threads)]
    /\ \A k \in Keys : Distinct(Q[k]) /\ Links(l.head[k], l.tail[k], l.next, l.prev, Q[k])
    /\ \A j, k \in Keys : j # k => On(Q[j]) \cap On(Q[k]) = {}
    /\ \A t \in Threads : (\A k \in Keys : t \notin On(Q[k])) => l.next[t] = {} /\ l.prev[t] = {}

\* A queue whose waiters keep their links.
LEMMA SameLinks ==
    ASSUME NEW q \in Seq(Threads), NEW h, NEW tl, NEW nx, NEW pv, Links(h, tl, nx, pv, q),
           NEW ny, NEW py, \A u \in On(q) : ny[u] = nx[u] /\ py[u] = pv[u]
    PROVE  Links(h, tl, ny, py, q)
<1>1. Len(q) \in Nat /\ \A i \in 1..Len(q) : q[i] \in On(q)
  BY DEF On
<1>2. \A i \in 1..Len(q) : ny[q[i]] = nx[q[i]] /\ py[q[i]] = pv[q[i]]
  BY <1>1
<1>3. Len(q) > 0 => 1 \in 1..Len(q) /\ Len(q) \in 1..Len(q)
  BY <1>1
<1> QED
  BY <1>1, <1>2, <1>3, Zenon DEF Links

\* A waiter at the end of a queue.
LEMMA AppendFacts ==
    ASSUME NEW q \in Seq(Threads), NEW t \in Threads
    PROVE  /\ Append(q, t) \in Seq(Threads) /\ Len(q) \in Nat /\ Len(Append(q, t)) = Len(q) + 1
           /\ Append(q, t)[Len(q) + 1] = t /\ \A i \in 1..Len(q) : Append(q, t)[i] = q[i]
           /\ On(Append(q, t)) = On(q) \cup {t}
<1> DEFINE p == Append(q, t)
<1>1. /\ p \in Seq(Threads) /\ Len(q) \in Nat /\ Len(p) = Len(q) + 1 /\ p[Len(q) + 1] = t
      /\ \A i \in 1..Len(q) : p[i] = q[i]
  OBVIOUS
<1> HIDE DEF p
<1>2. On(p) = On(q) \cup {t}
  BY <1>1 DEF On
<1> QED
  BY <1>1, <1>2 DEF p

\* What push does to the links nx and pv of the waiters, t being linked to the tail tl.
Linked(t, tl, nx, pv, ny, py) ==
    /\ nx[t] = {}
    /\ \A u \in Threads : ny[u] = IF u \in tl THEN {t} ELSE nx[u]
    /\ py[t] = tl
    /\ \A u \in Threads \ {t} : py[u] = pv[u]

\* A queue without one of its waiters.
LEMMA CutFacts ==
    ASSUME NEW q \in Seq(Threads), Distinct(q), NEW i \in 1..Len(q)
    PROVE  /\ Cut(q, i) \in Seq(Threads) /\ Len(q) \in Nat /\ Len(Cut(q, i)) = Len(q) - 1
           /\ \A j \in 1..(Len(q) - 1) : Cut(q, i)[j] = IF j < i THEN q[j] ELSE q[j + 1]
           /\ Distinct(Cut(q, i)) /\ On(Cut(q, i)) = On(q) \ {q[i]}
<1> DEFINE p == Cut(q, i)
           N == Len(q)
<1>1. N \in Nat /\ N > 0 /\ i \in Nat /\ \A j \in 1..N : q[j] \in Threads
  OBVIOUS
<1>2. p \in Seq(Threads) /\ Len(p) = N - 1
  BY <1>1 DEF Cut
<1>3. \A j \in 1..(N - 1) : p[j] = IF j < i THEN q[j] ELSE q[j + 1]
  BY DEF Cut
<1> HIDE DEF p
<1>4. Distinct(p)
  <2> SUFFICES ASSUME NEW a \in 1..(N - 1), NEW b \in 1..(N - 1), p[a] = p[b] PROVE a = b
    BY <1>2 DEF Distinct
  <2> DEFINE x == IF a < i THEN a ELSE a + 1
             y == IF b < i THEN b ELSE b + 1
  <2>1. x \in 1..N /\ y \in 1..N /\ (x = y => a = b)
    BY <1>1
  <2>2. p[a] = q[x] /\ p[b] = q[y]
    BY <1>3
  <2> HIDE DEF x, y
  <2> QED
    BY <2>1, <2>2, Zenon DEF Distinct
<1>5. On(p) = On(q) \ {q[i]}
  <2>1. ASSUME NEW j \in 1..(N - 1) PROVE p[j] \in On(q) \ {q[i]}
    BY <1>1, <1>3 DEF On, Distinct
  <2>2. ASSUME NEW j \in 1..N, q[j] # q[i] PROVE q[j] \in On(p)
    <3>1. CASE j < i
      BY <1>1, <1>2, <1>3, <3>1 DEF On
    <3>2. CASE j > i
      <4>1. j - 1 \in 1..(N - 1) /\ p[j - 1] = q[j]
        BY <1>1, <1>3, <3>2
      <4> QED
        BY <1>2, <4>1 DEF On
    <3> QED
      BY <1>1, <2>2, <3>1, <3>2
  <2> QED
    BY <1>2, <2>1, <2>2, Zenon DEF On
<1> QED
  BY <1>1, <1>2, <1>3, <1>4, <1>5 DEF p

\* What remove does to the links of the waiters.
Unlinked(t, nx, pv, ny, py) ==
    /\ \A u \in Threads : ny[u] = IF u = t THEN {} ELSE IF u \in pv[t] THEN nx[t] ELSE nx[u]
    /\ \A u \in Threads : py[u] = IF u = t THEN {} ELSE IF u \in nx[t] THEN pv[t] ELSE pv[u]

\* What push, remove and Flag do to each field of the table.
PushedOn(l, k, t, m) ==
    /\ m.notified = l.notified
    /\ m.head[k] = IF l.tail[k] = {} THEN {t} ELSE l.head[k]
    /\ m.tail[k] = {t}
    /\ \A j \in Keys \ {k} : m.head[j] = l.head[j] /\ m.tail[j] = l.tail[j]
    /\ \A u \in Threads : m.next[u] = IF u \in l.tail[k] THEN {t} ELSE l.next[u]
    /\ m.prev[t] = l.tail[k]
    /\ \A u \in Threads \ {t} : m.prev[u] = l.prev[u]

\* push, field by field.
LEMMA PushFields ==
    ASSUME NEW l \in LotType, NEW k \in Keys, NEW t \in Threads
    PROVE  push(l, k, t) \in LotType /\ PushedOn(l, k, t, push(l, k, t))
<1> DEFINE hd == [l.head EXCEPT ![k] = IF l.tail[k] = {} THEN {t} ELSE l.head[k]]
           td == [l.tail EXCEPT ![k] = {t}]
           nx == [u \in Threads |-> IF u \in l.tail[k] THEN {t} ELSE l.next[u]]
           pv == [l.prev EXCEPT ![t] = l.tail[k]]
           m == push(l, k, t)
<1>1. m = [l EXCEPT !.head = hd, !.tail = td, !.next = nx, !.prev = pv]
  BY DEF push
<1>2. /\ hd \in [Keys -> SUBSET Threads] /\ td \in [Keys -> SUBSET Threads]
      /\ nx \in [Threads -> SUBSET Threads] /\ pv \in [Threads -> SUBSET Threads]
  BY DEF LotType
<1>3. /\ hd[k] = (IF l.tail[k] = {} THEN {t} ELSE l.head[k]) /\ td[k] = {t}
      /\ \A j \in Keys \ {k} : hd[j] = l.head[j] /\ td[j] = l.tail[j]
      /\ \A u \in Threads : nx[u] = IF u \in l.tail[k] THEN {t} ELSE l.next[u]
      /\ pv[t] = l.tail[k] /\ \A u \in Threads \ {t} : pv[u] = l.prev[u]
  BY DEF LotType
<1> HIDE DEF hd, td, nx, pv, m
<1>4. m.head = hd /\ m.tail = td /\ m.next = nx /\ m.prev = pv /\ m.notified = l.notified /\ m \in LotType
  BY <1>1, <1>2, Zenon DEF LotType
<1> QED
  BY <1>3, <1>4, Zenon DEF m, PushedOn

RemovedFrom(l, k, t, m) ==
    /\ m.notified = l.notified
    /\ m.head[k] = IF l.prev[t] = {} THEN l.next[t] ELSE l.head[k]
    /\ m.tail[k] = IF l.next[t] = {} THEN l.prev[t] ELSE l.tail[k]
    /\ \A j \in Keys \ {k} : m.head[j] = l.head[j] /\ m.tail[j] = l.tail[j]
    /\ Unlinked(t, l.next, l.prev, m.next, m.prev)

\* remove, field by field.
LEMMA RemoveFields ==
    ASSUME NEW l \in LotType, NEW k \in Keys, NEW t \in Threads
    PROVE  remove(l, k, t) \in LotType /\ RemovedFrom(l, k, t, remove(l, k, t))
<1> DEFINE hd == [l.head EXCEPT ![k] = IF l.prev[t] = {} THEN l.next[t] ELSE l.head[k]]
           td == [l.tail EXCEPT ![k] = IF l.next[t] = {} THEN l.prev[t] ELSE l.tail[k]]
           nx == [u \in Threads |-> IF u = t THEN {} ELSE IF u \in l.prev[t] THEN l.next[t] ELSE l.next[u]]
           pv == [u \in Threads |-> IF u = t THEN {} ELSE IF u \in l.next[t] THEN l.prev[t] ELSE l.prev[u]]
           m == remove(l, k, t)
<1>1. m = [l EXCEPT !.head = hd, !.tail = td, !.next = nx, !.prev = pv]
  BY DEF remove
<1>2. /\ hd \in [Keys -> SUBSET Threads] /\ td \in [Keys -> SUBSET Threads]
      /\ nx \in [Threads -> SUBSET Threads] /\ pv \in [Threads -> SUBSET Threads]
  BY DEF LotType
<1>3. /\ hd[k] = IF l.prev[t] = {} THEN l.next[t] ELSE l.head[k]
      /\ td[k] = IF l.next[t] = {} THEN l.prev[t] ELSE l.tail[k]
      /\ \A j \in Keys \ {k} : hd[j] = l.head[j] /\ td[j] = l.tail[j]
      /\ \A u \in Threads : nx[u] = IF u = t THEN {} ELSE IF u \in l.prev[t] THEN l.next[t] ELSE l.next[u]
      /\ \A u \in Threads : pv[u] = IF u = t THEN {} ELSE IF u \in l.next[t] THEN l.prev[t] ELSE l.prev[u]
  BY DEF LotType
<1> HIDE DEF hd, td, nx, pv, m
<1>4. m.head = hd /\ m.tail = td /\ m.next = nx /\ m.prev = pv /\ m.notified = l.notified /\ m \in LotType
  BY <1>1, <1>2, Zenon DEF LotType
<1> QED
  BY <1>3, <1>4 DEF m, RemovedFrom, Unlinked

\* A flag is no link.
LEMMA FlagQueues ==
    \A l, Q : \A t \in Threads, b \in BOOLEAN :
        (/\ Queues(l, Q))
        => (Queues(Flag(l, t, b), Q))
\* A flag set or cleared leaves the links.
<1>FlagFields. ASSUME NEW l \in LotType, NEW t \in Threads, NEW b \in BOOLEAN
               PROVE  /\ Flag(l, t, b) \in LotType
                      /\ Flag(l, t, b).head = l.head /\ Flag(l, t, b).tail = l.tail
                      /\ Flag(l, t, b).next = l.next /\ Flag(l, t, b).prev = l.prev
                      /\ Flag(l, t, b).notified[t] = b
                      /\ \A u \in Threads \ {t} : Flag(l, t, b).notified[u] = l.notified[u]
  <2> DEFINE n == [l.notified EXCEPT ![t] = b]
             m == Flag(l, t, b)
  <2>1. n \in [Threads -> BOOLEAN] /\ n[t] = b /\ \A u \in Threads \ {t} : n[u] = l.notified[u]
    BY DEF LotType
  <2>2. m = [l EXCEPT !.notified = n]
    BY DEF Flag
  <2> HIDE DEF n, m
  <2>3. m \in LotType /\ m.notified = n /\ m.head = l.head /\ m.tail = l.tail /\ m.next = l.next /\ m.prev = l.prev
    BY <2>1, <2>2, Zenon DEF LotType
  <2> QED
    BY <2>1, <2>3 DEF m
<1>Main. ASSUME NEW l, NEW Q, Queues(l, Q), NEW t \in Threads, NEW b \in BOOLEAN
         PROVE  Queues(Flag(l, t, b), Q)
  <2> USE <1>Main
  <2> DEFINE m == Flag(l, t, b)
  <2>1. m \in LotType /\ m.head = l.head /\ m.tail = l.tail /\ m.next = l.next /\ m.prev = l.prev
    BY <1>FlagFields DEF Queues
  <2> HIDE DEF m
  <2>2. Queues(m, Q)
    BY <2>1 DEF Queues
  <2> QED
    BY <2>2 DEF m
<1> QED
  BY <1>Main, Zenon

\* Links stay within a queue.
LEMMA LinksStay ==
    ASSUME NEW q \in Seq(Threads), NEW h, NEW tl, NEW nx, NEW pv, Links(h, tl, nx, pv, q)
    PROVE  /\ h \subseteq On(q) /\ tl \subseteq On(q)
           /\ \A i \in 1..Len(q) : nx[q[i]] \subseteq On(q) /\ pv[q[i]] \subseteq On(q)
<1>1. Len(q) \in Nat /\ \A i \in 1..Len(q) : q[i] \in On(q)
  BY DEF On
<1>2. h \subseteq On(q) /\ tl \subseteq On(q)
  BY <1>1 DEF Links
<1>3. ASSUME NEW i \in 1..Len(q) PROVE nx[q[i]] \subseteq On(q) /\ pv[q[i]] \subseteq On(q)
  <2>1. i < Len(q) => i + 1 \in 1..Len(q)
    BY <1>1
  <2>2. i > 1 => i - 1 \in 1..Len(q)
    BY <1>1
  <2>3. nx[q[i]] = {} \/ (nx[q[i]] = {q[i + 1]} /\ i < Len(q))
    BY <1>1 DEF Links
  <2>4. pv[q[i]] = {} \/ (pv[q[i]] = {q[i - 1]} /\ i > 1)
    BY <1>1 DEF Links
  <2> QED
    BY <1>1, <2>1, <2>2, <2>3, <2>4, SMTT(30)
<1> QED
  BY <1>2, <1>3

\* push puts a thread that waits nowhere at the end of a queue.
LEMMA PushQueues ==
    \A l, Q : \A k \in Keys, t \in Threads :
        (/\ Queues(l, Q)
         /\ \A j \in Keys : t \notin On(Q[j]))
        => (Queues(push(l, k, t), [Q EXCEPT ![k] = Append(Q[k], t)]))
\* push links the waiter behind the last one.
<1>PushLinks. ASSUME NEW q \in Seq(Threads), NEW t \in Threads, t \notin On(q), Distinct(q),
                     NEW h, NEW tl, NEW nx, NEW pv, Links(h, tl, nx, pv, q),
                     NEW ny, NEW py, Linked(t, tl, nx, pv, ny, py)
              PROVE  /\ Distinct(Append(q, t))
                     /\ Links(IF tl = {} THEN {t} ELSE h, {t}, ny, py, Append(q, t))
  <2> USE <1>PushLinks
  <2> DEFINE p == Append(q, t)
             N == Len(q)
  <2> USE DEF Linked
  <2>1. /\ p \in Seq(Threads) /\ N \in Nat /\ Len(p) = N + 1 /\ p[N + 1] = t
        /\ \A i \in 1..N : p[i] = q[i]
    BY AppendFacts
  <2>2. \A i \in 1..N : q[i] \in Threads /\ q[i] # t
    BY DEF On
  <2> HIDE DEF p
  <2>3. Distinct(p)
    BY <2>1, <2>2 DEF Distinct
  <2>4. (N = 0 => tl = {}) /\ (N > 0 => tl # {} /\ tl = {q[N]} /\ h = {q[1]})
    BY <2>1 DEF Links
  <2>5. (IF tl = {} THEN {t} ELSE h) = {p[1]}
    BY <2>1, <2>4
  <2>6. \A i \in 1..N : q[i] \in tl <=> i = N
    BY <2>1, <2>4 DEF Distinct
  <2>7. t \notin tl
    BY <2>1, <2>2, <2>4
  <2>8. ny[p[N + 1]] = {} /\ py[p[N + 1]] = tl
    BY <2>1, <2>7
  <2>9. py[p[1]] = {}
    BY <2>1, <2>2, <2>4, <2>8 DEF Links
  <2>10. ASSUME NEW i \in 1..(N + 1), i < N + 1 PROVE ny[p[i]] = {p[i + 1]}
    <3>1. i \in 1..N /\ p[i] = q[i]
      BY <2>1, <2>10
    <3>2. CASE i = N
      BY <2>1, <2>2, <2>6, <3>1, <3>2
    <3>3. CASE i # N
      <4>1. ny[p[i]] = nx[q[i]] /\ p[i + 1] = q[i + 1]
        BY <2>1, <2>2, <2>6, <3>1, <3>3
      <4>2. nx[q[i]] = {q[i + 1]}
        BY <2>1, <3>1, <3>3 DEF Links
      <4> QED
        BY <4>1, <4>2
    <3> QED
      BY <3>2, <3>3
  <2>11. ASSUME NEW i \in 1..(N + 1), i > 1 PROVE py[p[i]] = {p[i - 1]}
    <3>1. i - 1 \in 1..N /\ p[i - 1] = q[i - 1]
      BY <2>1, <2>11
    <3>2. CASE i = N + 1
      BY <2>1, <2>4, <2>8, <3>1, <3>2
    <3>3. CASE i # N + 1
      <4>1. i \in 1..N /\ py[p[i]] = pv[q[i]]
        BY <2>1, <2>2, <3>3
      <4>2. pv[q[i]] = {q[i - 1]}
        BY <2>11, <4>1 DEF Links
      <4> QED
        BY <3>1, <4>1, <4>2
    <3> QED
      BY <3>2, <3>3
  <2>12. Links(IF tl = {} THEN {t} ELSE h, {t}, ny, py, p)
    <3>1. Len(p) = N + 1 /\ N \in Nat /\ {t} = {p[N + 1]}
      BY <2>1
    <3> HIDE DEF N
    <3> QED
      BY <2>5, <2>8, <2>9, <2>10, <2>11, <3>1, SMTT(30) DEF Links
  <2> QED
    BY <2>3, <2>12 DEF p
<1>Main. ASSUME NEW l, NEW Q, Queues(l, Q), NEW k \in Keys, NEW t \in Threads, \A j \in Keys : t \notin On(Q[j])
         PROVE  Queues(push(l, k, t), [Q EXCEPT ![k] = Append(Q[k], t)])
  <2> USE <1>Main
  <2> DEFINE m == push(l, k, t)
             p == Append(Q[k], t)
             R == [Q EXCEPT ![k] = p]
  <2>1. l \in LotType /\ Q \in [Keys -> Seq(Threads)] /\ Q[k] \in Seq(Threads)
    BY DEF Queues
  <2>2. m \in LotType /\ PushedOn(l, k, t, m)
    BY <2>1, PushFields
  <2>3. p \in Seq(Threads) /\ On(p) = On(Q[k]) \cup {t}
    BY <2>1, AppendFacts, Zenon
  <2>4. Distinct(Q[k]) /\ Links(l.head[k], l.tail[k], l.next, l.prev, Q[k]) /\ l.next[t] = {}
    BY DEF Queues
  <2>5. l.tail[k] \subseteq On(Q[k])
    BY <2>1, <2>4, LinksStay, SMTT(30)
  <2>6. Distinct(p) /\ Links(IF l.tail[k] = {} THEN {t} ELSE l.head[k], {t}, m.next, m.prev, p)
    <3>1. Linked(t, l.tail[k], l.next, l.prev, m.next, m.prev)
      BY <2>2, <2>4, Zenon DEF PushedOn, Linked
    <3> HIDE DEF m
    <3> QED
      BY <2>1, <2>4, <3>1, <1>PushLinks, Zenon
  <2> HIDE DEF m, p
  <2>7. R \in [Keys -> Seq(Threads)] /\ R[k] = p /\ \A j \in Keys \ {k} : R[j] = Q[j]
    BY <2>1, <2>3
  <2> HIDE DEF R
  <2>8. ASSUME NEW i \in Keys, NEW j \in Keys, i # j PROVE On(R[i]) \cap On(R[j]) = {}
    <3>1. On(Q[i]) \cap On(Q[j]) = {} /\ t \notin On(Q[i]) /\ t \notin On(Q[j])
      BY <2>8 DEF Queues
    <3>2. /\ On(R[i]) = On(Q[i]) \/ (i = k /\ On(R[i]) = On(Q[i]) \cup {t})
          /\ On(R[j]) = On(Q[j]) \/ (j = k /\ On(R[j]) = On(Q[j]) \cup {t})
      BY <2>3, <2>7
    <3> QED
      BY <2>8, <3>1, <3>2
  <2>9. ASSUME NEW j \in Keys PROVE Distinct(R[j]) /\ Links(m.head[j], m.tail[j], m.next, m.prev, R[j])
    <3>1. CASE j = k
      BY <2>2, <2>6, <2>7, <3>1, Zenon DEF PushedOn
    <3>2. CASE j # k
      <4>1. R[j] = Q[j] /\ Distinct(Q[j]) /\ Links(l.head[j], l.tail[j], l.next, l.prev, Q[j])
        BY <2>7, <3>2 DEF Queues
      <4>2. Q[j] \in Seq(Threads) /\ On(Q[j]) \subseteq Threads
        BY <2>1 DEF On
      <4>3. \A u \in On(Q[j]) : u # t /\ u \notin l.tail[k]
        BY <2>5, <3>2, Zenon DEF Queues
      <4>4. \A u \in On(Q[j]) : m.next[u] = l.next[u] /\ m.prev[u] = l.prev[u]
        BY <2>2, <4>2, <4>3, Zenon DEF PushedOn
      <4>5. Links(l.head[j], l.tail[j], m.next, m.prev, Q[j])
        BY <4>1, <4>2, <4>4, SameLinks, SMTT(30)
      <4> QED
        BY <2>2, <3>2, <4>1, <4>5, Zenon DEF PushedOn
    <3> QED
      BY <3>1, <3>2, SMTT(30)
  <2>10. ASSUME NEW u \in Threads, \A j \in Keys : u \notin On(R[j])
         PROVE  m.next[u] = {} /\ m.prev[u] = {}
    <3>1. u # t /\ \A j \in Keys : u \notin On(Q[j])
      BY <2>3, <2>7, <2>10, Zenon
    <3>2. l.next[u] = {} /\ l.prev[u] = {} /\ u \notin l.tail[k]
      BY <2>5, <3>1, SMTT(30) DEF Queues
    <3> QED
      BY <2>2, <3>1, <3>2 DEF PushedOn
  <2>11. Queues(m, R)
    BY <2>2, <2>7, <2>8, <2>9, <2>10, Zenon DEF Queues
  <2> QED
    BY <2>11 DEF m, p, R
<1> QED
  BY <1>Main, Zenon

\* remove takes a thread out of a queue, wherever it stands.
LEMMA RemoveQueues ==
    \A l, Q : \A k \in Keys : \A i \in 1..Len(Q[k]) : \A t :
        (/\ Queues(l, Q)
         /\ t = Q[k][i])
        => (Queues(remove(l, k, t), [Q EXCEPT ![k] = Cut(Q[k], i)]))
\* remove links the neighbours of the waiter to each other.
<1>RemoveLinks. ASSUME NEW q \in Seq(Threads), Distinct(q), NEW i \in 1..Len(q), NEW t, t = q[i],
                       NEW h, NEW tl, NEW nx, NEW pv, Links(h, tl, nx, pv, q),
                       NEW ny, NEW py, Unlinked(t, nx, pv, ny, py)
                PROVE  Links(IF pv[t] = {} THEN nx[t] ELSE h, IF nx[t] = {} THEN pv[t] ELSE tl, ny, py, Cut(q, i))
  <2> USE <1>RemoveLinks
  <2> DEFINE p == Cut(q, i)
             N == Len(q)
             hd == IF pv[t] = {} THEN nx[t] ELSE h
             td == IF nx[t] = {} THEN pv[t] ELSE tl
  <2>1. /\ p \in Seq(Threads) /\ N \in Nat /\ Len(p) = N - 1
        /\ \A j \in 1..(N - 1) : p[j] = IF j < i THEN q[j] ELSE q[j + 1]
    BY CutFacts
  <2>2. i \in Nat /\ i <= N /\ i >= 1 /\ \A j \in 1..N : q[j] \in Threads
    OBVIOUS
  <2>3. /\ i = 1 => pv[t] = {}
        /\ i > 1 => pv[t] = {q[i - 1]}
        /\ i = N => nx[t] = {}
        /\ i < N => nx[t] = {q[i + 1]}
    <3>1. i = 1 => pv[t] = {}
      BY <2>1, <2>2 DEF Links
    <3>2. i > 1 => pv[t] = {q[i - 1]}
      BY <2>1, <2>2, Zenon DEF Links
    <3>3. i = N => nx[t] = {}
      BY <2>1, <2>2 DEF Links
    <3>4. i < N => nx[t] = {q[i + 1]}
      BY <2>1, <2>2, Zenon DEF Links
    <3> QED
      BY <3>1, <3>2, <3>3, <3>4, Zenon
  <2>4. \A a, b \in 1..N : q[a] = q[b] => a = b
    BY DEF Distinct
  <2>5. \A j \in 1..N : j # i => q[j] # t /\ (q[j] \in pv[t] <=> j = i - 1) /\ (q[j] \in nx[t] <=> j = i + 1)
    <3> SUFFICES ASSUME NEW j \in 1..N, j # i
                 PROVE  q[j] # t /\ (q[j] \in pv[t] <=> j = i - 1) /\ (q[j] \in nx[t] <=> j = i + 1)
      OBVIOUS
    <3>1. q[j] # t
      BY <2>4
    <3>2. q[j] \in pv[t] <=> j = i - 1
      <4>1. CASE i = 1
        BY <2>1, <2>3, <4>1
      <4>2. CASE i > 1
        <5>1. pv[t] = {q[i - 1]} /\ i - 1 \in 1..N
          BY <2>1, <2>2, <2>3, <4>2
        <5> QED
          BY <2>4, <5>1, Zenon
      <4> QED
        BY <2>2, <4>1, <4>2
    <3>3. q[j] \in nx[t] <=> j = i + 1
      <4>1. CASE i = N
        BY <2>1, <2>3, <4>1
      <4>2. CASE i < N
        <5>1. nx[t] = {q[i + 1]} /\ i + 1 \in 1..N
          BY <2>1, <2>2, <2>3, <4>2
        <5> QED
          BY <2>4, <5>1, Zenon
      <4> QED
        BY <2>1, <2>2, <4>1, <4>2
    <3> QED
      BY <3>1, <3>2, <3>3, Zenon
  <2>6. \A j \in 1..N : j # i => /\ ny[q[j]] = IF j = i - 1 THEN nx[t] ELSE nx[q[j]]
                                 /\ py[q[j]] = IF j = i + 1 THEN pv[t] ELSE pv[q[j]]
    <3> SUFFICES ASSUME NEW j \in 1..N, j # i
                 PROVE  /\ ny[q[j]] = IF j = i - 1 THEN nx[t] ELSE nx[q[j]]
                        /\ py[q[j]] = IF j = i + 1 THEN pv[t] ELSE pv[q[j]]
      OBVIOUS
    <3>1. q[j] \in Threads
      BY <2>2
    <3>2. ny[q[j]] = IF q[j] \in pv[t] THEN nx[t] ELSE nx[q[j]]
      BY <2>5, <3>1 DEF Unlinked
    <3>3. py[q[j]] = IF q[j] \in nx[t] THEN pv[t] ELSE pv[q[j]]
      BY <2>5, <3>1, Zenon DEF Unlinked
    <3>4. (q[j] \in pv[t] <=> j = i - 1) /\ (q[j] \in nx[t] <=> j = i + 1)
      BY <2>5
    <3> QED
      BY <3>2, <3>3, <3>4, Zenon
  <2> HIDE DEF p
  <2>7. N - 1 = 0 => hd = {} /\ td = {}
    <3>1. N - 1 = 0 => i = 1 /\ i = N
      BY <2>1, <2>2
    <3> QED
      BY <2>3, <3>1
  <2>8. N - 1 > 0 => hd = {p[1]} /\ td = {p[N - 1]}
    <3> SUFFICES ASSUME N - 1 > 0 PROVE hd = {p[1]} /\ td = {p[N - 1]}
      OBVIOUS
    <3>1. h = {q[1]} /\ tl = {q[N]}
      BY <2>1 DEF Links
    <3>2. p[1] = (IF i = 1 THEN q[2] ELSE q[1]) /\ p[N - 1] = IF i = N THEN q[N - 1] ELSE q[N]
      BY <2>1, <2>2
    <3>3. hd = {p[1]}
      <4>1. CASE i = 1
        BY <2>1, <2>3, <3>2, <4>1
      <4>2. CASE i # 1
        <5>1. pv[t] = {q[i - 1]}
          BY <2>2, <2>3, <4>2
        <5>2. hd = h
          BY <5>1, Zenon
        <5> QED
          BY <3>1, <3>2, <4>2, <5>2, Zenon
      <4> QED
        BY <4>1, <4>2, Zenon
    <3>4. td = {p[N - 1]}
      <4>1. CASE i = N
        BY <2>1, <2>3, <3>2, <4>1
      <4>2. CASE i # N
        <5>1. nx[t] = {q[i + 1]}
          BY <2>1, <2>2, <2>3, <4>2
        <5>2. td = tl
          BY <5>1, Zenon
        <5> QED
          BY <3>1, <3>2, <4>2, <5>2, Zenon
      <4> QED
        BY <4>1, <4>2, Zenon
    <3> QED
      BY <3>3, <3>4
  <2>9. N - 1 > 0 => py[p[1]] = {} /\ ny[p[N - 1]] = {}
    <3> SUFFICES ASSUME N - 1 > 0 PROVE py[p[1]] = {} /\ ny[p[N - 1]] = {}
      OBVIOUS
    <3>1. pv[q[1]] = {} /\ nx[q[N]] = {}
      BY <2>1 DEF Links
    <3>2. p[1] = (IF i = 1 THEN q[2] ELSE q[1]) /\ p[N - 1] = IF i = N THEN q[N - 1] ELSE q[N]
      BY <2>1, <2>2
    <3>3. py[p[1]] = {}
      <4>1. CASE i = 1
        <5>1. py[q[2]] = pv[t]
          BY <2>1, <2>6, <4>1
        <5> QED
          BY <2>3, <3>2, <4>1, <5>1, Zenon
      <4>2. CASE i # 1
        <5>1. py[q[1]] = pv[q[1]]
          BY <2>1, <2>2, <2>6, <4>2
        <5> QED
          BY <3>1, <3>2, <4>2, <5>1, Zenon
      <4> QED
        BY <4>1, <4>2, Zenon
    <3>4. ny[p[N - 1]] = {}
      <4>1. CASE i = N
        <5>1. ny[q[N - 1]] = nx[t]
          BY <2>1, <2>6, <4>1
        <5> QED
          BY <2>3, <3>2, <4>1, <5>1, Zenon
      <4>2. CASE i # N
        <5>1. ny[q[N]] = nx[q[N]]
          BY <2>1, <2>2, <2>6, <4>2
        <5> QED
          BY <3>1, <3>2, <4>2, <5>1, Zenon
      <4> QED
        BY <4>1, <4>2, Zenon
    <3> QED
      BY <3>3, <3>4
  <2>10. ASSUME NEW j \in 1..(N - 1), j < N - 1 PROVE ny[p[j]] = {p[j + 1]}
    <3>1. /\ p[j] = IF j < i THEN q[j] ELSE q[j + 1]
          /\ p[j + 1] = IF j + 1 < i THEN q[j + 1] ELSE q[j + 2]
      BY <2>1, <2>10
    <3>2. CASE j = i - 1
      <4>1. ny[q[j]] = nx[t] /\ nx[t] = {q[i + 1]}
        BY <2>1, <2>2, <2>3, <2>6, <2>10, <3>2, SMTT(30)
      <4>2. p[j] = q[j] /\ p[j + 1] = q[i + 1]
        <5>1. j < i /\ ~(j + 1 < i) /\ j + 2 = i + 1
          BY <2>2, <3>2
        <5> QED
          BY <3>1, <5>1
      <4> QED
        BY <4>1, <4>2, Zenon
    <3>3. CASE j < i - 1
      <4>1. ny[q[j]] = nx[q[j]] /\ nx[q[j]] = {q[j + 1]}
        <5>1. j \in 1..N /\ j < N /\ j # i /\ j # i - 1
          BY <2>1, <2>2, <2>10, <3>3
        <5>2. ny[q[j]] = nx[q[j]]
          BY <2>6, <5>1, Zenon
        <5>3. nx[q[j]] = {q[j + 1]}
          BY <5>1, Zenon DEF Links
        <5> QED
          BY <5>2, <5>3
      <4> QED
        BY <2>2, <3>1, <3>3, <4>1, SMTT(30)
    <3>4. CASE j >= i
      <4>1. ny[q[j + 1]] = nx[q[j + 1]] /\ nx[q[j + 1]] = {q[j + 1 + 1]}
        <5>1. j + 1 \in 1..N /\ j + 1 < N /\ j + 1 # i /\ j + 1 # i - 1
          BY <2>1, <2>2, <2>10, <3>4
        <5>2. ny[q[j + 1]] = nx[q[j + 1]]
          BY <2>6, <5>1
        <5>3. nx[q[j + 1]] = {q[j + 1 + 1]}
          BY <5>1, Zenon DEF Links
        <5> QED
          BY <5>2, <5>3
      <4>2. p[j] = q[j + 1] /\ p[j + 1] = q[j + 1 + 1]
        BY <2>2, <3>1, <3>4
      <4> QED
        BY <4>1, <4>2, Zenon
    <3> QED
      BY <2>2, <3>2, <3>3, <3>4
  <2>11. ASSUME NEW j \in 1..(N - 1), j > 1 PROVE py[p[j]] = {p[j - 1]}
    <3>1. /\ p[j] = IF j < i THEN q[j] ELSE q[j + 1]
          /\ p[j - 1] = IF j - 1 < i THEN q[j - 1] ELSE q[j]
      <4>1. j - 1 \in 1..(N - 1) /\ j - 1 + 1 = j
        BY <2>1, <2>11
      <4> QED
        BY <2>1, <4>1
    <3>2. CASE j = i
      <4>1. py[q[j + 1]] = pv[t] /\ pv[t] = {q[i - 1]}
        BY <2>1, <2>2, <2>3, <2>6, <2>11, <3>2, SMTT(30)
      <4>2. p[j] = q[j + 1] /\ p[j - 1] = q[i - 1]
        BY <2>2, <3>1, <3>2
      <4> QED
        BY <4>1, <4>2, Zenon
    <3>3. CASE j < i
      <4>1. j \in 1..N /\ j # i /\ j # i + 1
        BY <2>1, <2>2, <2>11, <3>3
      <4>2. py[q[j]] = pv[q[j]]
        BY <2>6, <4>1
      <4>3. pv[q[j]] = {q[j - 1]}
        BY <2>11, <4>1, Zenon DEF Links
      <4>4. p[j] = q[j] /\ p[j - 1] = q[j - 1]
        BY <2>2, <3>1, <3>3
      <4> QED
        BY <4>2, <4>3, <4>4, Zenon
    <3>4. CASE j > i
      <4>1. j + 1 \in 1..N /\ j + 1 # i /\ j + 1 # i + 1 /\ j + 1 > 1 /\ j + 1 - 1 = j
        BY <2>1, <2>2, <2>11, <3>4, SMTT(30)
      <4>2. py[q[j + 1]] = pv[q[j + 1]]
        BY <2>6, <4>1, Zenon
      <4>3. pv[q[j + 1]] = {q[j]}
        <5> DEFINE g == j + 1
        <5>1. g \in 1..Len(q) /\ g > 1 /\ g - 1 = j
          BY <4>1
        <5> HIDE DEF g
        <5>2. pv[q[g]] = {q[g - 1]}
          BY <5>1, Zenon DEF Links
        <5> QED
          BY <5>1, <5>2 DEF g
      <4>4. p[j] = q[j + 1] /\ p[j - 1] = q[j]
        <5>1. ~(j < i) /\ ~(j - 1 < i)
          BY <2>2, <3>4
        <5> QED
          BY <3>1, <5>1
      <4> QED
        BY <4>1, <4>2, <4>3, <4>4, Zenon
    <3> QED
      BY <2>2, <3>2, <3>3, <3>4
  <2>12. Links(hd, td, ny, py, p)
    <3> HIDE DEF N, hd, td
    <3> QED
      BY <2>1, <2>7, <2>8, <2>9, <2>10, <2>11, Zenon DEF Links
  <2> QED
    BY <2>12 DEF p
<1>Main. ASSUME NEW l, NEW Q, Queues(l, Q), NEW k \in Keys, NEW i \in 1..Len(Q[k]), NEW t, t = Q[k][i]
         PROVE  Queues(remove(l, k, t), [Q EXCEPT ![k] = Cut(Q[k], i)])
  <2> USE <1>Main
  <2> DEFINE m == remove(l, k, t)
             p == Cut(Q[k], i)
             R == [Q EXCEPT ![k] = p]
  <2>1. /\ l \in LotType /\ Q \in [Keys -> Seq(Threads)] /\ Q[k] \in Seq(Threads)
        /\ t \in Threads /\ t \in On(Q[k])
    BY DEF Queues, On
  <2>2. m \in LotType /\ RemovedFrom(l, k, t, m)
    BY <2>1, RemoveFields, Zenon
  <2>3. Distinct(Q[k]) /\ Links(l.head[k], l.tail[k], l.next, l.prev, Q[k])
    BY Zenon DEF Queues
  <2>4. p \in Seq(Threads) /\ Distinct(p) /\ On(p) = On(Q[k]) \ {t}
    BY <2>1, <2>3, CutFacts, Zenon
  <2>5. l.next[t] \subseteq On(Q[k]) /\ l.prev[t] \subseteq On(Q[k])
    BY <2>1, <2>3, LinksStay, SMTT(30)
  <2>6. Links(IF l.prev[t] = {} THEN l.next[t] ELSE l.head[k], IF l.next[t] = {} THEN l.prev[t] ELSE l.tail[k],
              m.next, m.prev, p)
    <3>1. Unlinked(t, l.next, l.prev, m.next, m.prev)
      BY <2>2 DEF RemovedFrom
    <3> HIDE DEF m
    <3> QED
      BY <2>1, <2>3, <3>1, <1>RemoveLinks, ZenonT(30)
  <2> HIDE DEF m, p
  <2>7. R \in [Keys -> Seq(Threads)] /\ R[k] = p /\ \A j \in Keys \ {k} : R[j] = Q[j]
    BY <2>1, <2>4
  <2> HIDE DEF R
  <2>8. \A g, j \in Keys : g # j => On(R[g]) \cap On(R[j]) = {}
    BY <2>4, <2>7, ZenonT(30) DEF Queues
  <2>9. ASSUME NEW j \in Keys PROVE Distinct(R[j]) /\ Links(m.head[j], m.tail[j], m.next, m.prev, R[j])
    <3>1. CASE j = k
      BY <2>2, <2>4, <2>6, <2>7, <3>1, Zenon DEF RemovedFrom
    <3>2. CASE j # k
      <4>1. R[j] = Q[j] /\ Distinct(Q[j]) /\ Links(l.head[j], l.tail[j], l.next, l.prev, Q[j])
        BY <2>7, <3>2 DEF Queues
      <4>2. Q[j] \in Seq(Threads) /\ On(Q[j]) \subseteq Threads
        BY <2>1 DEF On
      <4>3. \A u \in On(Q[j]) : u # t /\ u \notin l.next[t] /\ u \notin l.prev[t]
        BY <2>1, <2>5, <3>2, Zenon DEF Queues
      <4>4. \A u \in On(Q[j]) : m.next[u] = l.next[u] /\ m.prev[u] = l.prev[u]
        BY <2>2, <4>2, <4>3, Zenon DEF RemovedFrom, Unlinked
      <4>5. Links(l.head[j], l.tail[j], m.next, m.prev, Q[j])
        BY <4>1, <4>2, <4>4, SameLinks
      <4> QED
        BY <2>2, <3>2, <4>1, <4>5, Zenon DEF RemovedFrom
    <3> QED
      BY <3>1, <3>2
  <2>10. ASSUME NEW u \in Threads, \A j \in Keys : u \notin On(R[j])
         PROVE  m.next[u] = {} /\ m.prev[u] = {}
    <3>1. CASE u = t
      BY <2>2, <3>1, Zenon DEF RemovedFrom, Unlinked
    <3>2. CASE u # t
      <4>1. \A j \in Keys : u \notin On(Q[j])
        BY <2>4, <2>7, <2>10, <3>2, Zenon
      <4>2. l.next[u] = {} /\ l.prev[u] = {} /\ u \notin l.next[t] /\ u \notin l.prev[t]
        BY <2>5, <4>1, Zenon DEF Queues
      <4> QED
        BY <2>2, <3>2, <4>2, Zenon DEF RemovedFrom, Unlinked
    <3> QED
      BY <3>1, <3>2, Zenon
  <2>11. Queues(m, R)
    BY <2>2, <2>7, <2>8, <2>9, <2>10 DEF Queues
  <2> QED
    BY <2>11 DEF m, p, R
<1> QED
  BY <1>Main, Zenon

\* The walk of QueueOf: a step of it, the recursion, and what it has found after i steps.
WalkStep(l, p) ==
    IF p.at = {} THEN p
    ELSE [queue |-> Append(p.queue, CHOOSE u \in p.at : TRUE), at |-> l.next[CHOOSE u \in p.at : TRUE]]
Walk(f, l, k) == [i \in 0..Cardinality(Threads) |-> IF i = 0 THEN [queue |-> <<>>, at |-> l.head[k]]
                                                    ELSE WalkStep(l, f[i - 1])]
Walked(q, i) == [queue |-> [j \in 1..(IF i < Len(q) THEN i ELSE Len(q)) |-> q[j]],
                 at |-> IF i < Len(q) THEN {q[i + 1]} ELSE {}]

\* QueueOf finds the queue that is linked.
LEMMA QueueOfIs ==
    \A l, Q : \A k \in Keys :
        (/\ Queues(l, Q))
        => (QueueOf(l, k) = Q[k])
\* A queue is no longer than there are threads.
<1>QueueFits. ASSUME NEW q \in Seq(Threads), Distinct(q)
              PROVE  Cardinality(Threads) \in Nat /\ Len(q) \in Nat /\ Len(q) <= Cardinality(Threads)
  <2> USE <1>QueueFits
  <2>1. Len(q) \in Nat /\ q \in [1..Len(q) -> Threads] /\ IsFiniteSet(Threads)
    BY ThreadsAssumption
  <2>2. q \in Injection(1..Len(q), Threads)
    BY <2>1 DEF Injection, IsInjective, Distinct
  <2>3. Cardinality(1..Len(q)) <= Cardinality(Threads)
    BY <2>1, <2>2, FS_Injection
  <2>4. Cardinality(1..Len(q)) = Len(q)
    BY <2>1, FS_Interval, SMTT(30)
  <2>5. Cardinality(Threads) \in Nat
    BY <2>1, FS_CardinalityType
  <2> QED
    BY <2>1, <2>3, <2>4, <2>5
\* The walk that QueueOf makes.
<1>QueueIsWalk. ASSUME NEW l, NEW k
                PROVE  QueueOf(l, k) = (CHOOSE f : f = Walk(f, l, k))[Cardinality(Threads)].queue
  BY DEF QueueOf, Walk, WalkStep
\* A step of the walk along a linked queue.
<1>WalkStepIs. ASSUME NEW l, NEW k, NEW q \in Seq(Threads), Links(l.head[k], l.tail[k], l.next, l.prev, q),
                      NEW i \in Nat \ {0}
               PROVE  WalkStep(l, Walked(q, i - 1)) = Walked(q, i)
  <2> USE <1>WalkStepIs
  <2>1. Len(q) \in Nat
    BY SMTT(30)
  <2>2. CASE i - 1 < Len(q)
    <3> DEFINE p == [j \in 1..(i - 1) |-> q[j]]
               r == [j \in 1..i |-> q[j]]
    <3>1. Walked(q, i - 1) = [queue |-> p, at |-> {q[i]}]
      <4>1. (IF i - 1 < Len(q) THEN i - 1 ELSE Len(q)) = i - 1 /\ i - 1 + 1 = i
        BY <2>2
      <4>2. (IF i - 1 < Len(q) THEN {q[i - 1 + 1]} ELSE {}) = {q[i]}
        BY <2>2, <4>1
      <4> QED
        BY <4>1, <4>2, Zenon DEF Walked
    <3>2. i \in 1..Len(q)
      BY <2>1, <2>2
    <3>3. Append(p, q[i]) = r
      <4>1. p \in Seq(Threads) /\ Len(p) = i - 1 /\ q[i] \in Threads
        BY <3>2
      <4>2. r \in Seq(Threads) /\ Len(r) = i
        BY <3>2
      <4>3. \A j \in 1..i : Append(p, q[i])[j] = r[j]
        BY <4>1
      <4>4. Append(p, q[i]) \in Seq(Threads) /\ Len(Append(p, q[i])) = i
        BY <4>1
      <4> HIDE DEF p, r
      <4> QED
        BY <4>2, <4>3, <4>4
    <3>4. (CHOOSE u \in {q[i]} : TRUE) = q[i]
      OBVIOUS
    <3>5. l.next[q[i]] = IF i < Len(q) THEN {q[i + 1]} ELSE {}
      <4>1. CASE i < Len(q)
        BY <3>2, <4>1 DEF Links
      <4>2. CASE i = Len(q)
        <5>1. Len(q) > 0 /\ ~(i < Len(q))
          BY <2>1, <3>2, <4>2
        <5>2. l.next[q[Len(q)]] = {}
          BY <5>1 DEF Links
        <5> QED
          BY <4>2, <5>1, <5>2
      <4>3. i < Len(q) \/ i = Len(q)
        BY <2>1, <3>2
      <4> QED
        BY <4>1, <4>2, <4>3, Zenon
    <3>6. Walked(q, i) = [queue |-> r, at |-> IF i < Len(q) THEN {q[i + 1]} ELSE {}]
      <4>1. (IF i < Len(q) THEN i ELSE Len(q)) = i
        BY <2>1, <3>2
      <4> QED
        BY <4>1, Zenon DEF Walked
    <3> HIDE DEF p, r
    <3>7. WalkStep(l, [queue |-> p, at |-> {q[i]}]) = [queue |-> Append(p, q[i]), at |-> l.next[q[i]]]
      BY <3>4, Zenon DEF WalkStep
    <3> QED
      BY <3>1, <3>3, <3>5, <3>6, <3>7, SMTT(30)
  <2>3. CASE ~(i - 1 < Len(q))
    <3>1. ~(i < Len(q))
      BY <2>1, <2>3
    <3>2. Walked(q, i - 1) = Walked(q, i) /\ Walked(q, i).at = {}
      BY <2>3, <3>1 DEF Walked
    <3> QED
      BY <3>2 DEF WalkStep
  <2> QED
    BY <2>2, <2>3
<1>Main. ASSUME NEW l, NEW Q, Queues(l, Q), NEW k \in Keys
         PROVE  QueueOf(l, k) = Q[k]
  <2> USE <1>Main
  <2> DEFINE q == Q[k]
             C == Cardinality(Threads)
             F == [i \in 0..C |-> Walked(q, i)]
             R == CHOOSE f : f = Walk(f, l, k)
             S == {i \in 0..C : R[i] # Walked(q, i)}
  <2>1. q \in Seq(Threads) /\ Distinct(q) /\ Links(l.head[k], l.tail[k], l.next, l.prev, q)
    BY DEF Queues
  <2>2. C \in Nat /\ Len(q) \in Nat /\ Len(q) <= C
    BY <2>1, <1>QueueFits
  <2> HIDE DEF q
  <2>3. [queue |-> <<>>, at |-> l.head[k]] = Walked(q, 0)
    <3>1. l.head[k] = IF 0 < Len(q) THEN {q[0 + 1]} ELSE {}
      <4>1. 0 < Len(q) => l.head[k] = {q[1]}
        BY <2>1, <2>2, Zenon DEF Links
      <4>2. ~(0 < Len(q)) => l.head[k] = {}
        BY <2>1, <2>2 DEF Links
      <4>3. 0 + 1 = 1
        OBVIOUS
      <4>4. CASE 0 < Len(q)
        BY <4>1, <4>3, <4>4
      <4>5. CASE ~(0 < Len(q))
        BY <4>2, <4>5
      <4> QED
        BY <4>4, <4>5
    <3>2. [j \in 1..(IF 0 < Len(q) THEN 0 ELSE Len(q)) |-> q[j]] = <<>>
      BY <2>2
    <3> QED
      BY <3>1, <3>2, Zenon DEF Walked
  <2>4. \A i \in 1..C : WalkStep(l, Walked(q, i - 1)) = Walked(q, i)
    BY <2>1, <2>2, <1>WalkStepIs
  <2>5. F = Walk(F, l, k)
    <3>1. \A i \in 1..C : F[i - 1] = Walked(q, i - 1)
      BY <2>2
    <3>2. \A i \in 0..C : F[i] = IF i = 0 THEN [queue |-> <<>>, at |-> l.head[k]] ELSE WalkStep(l, F[i - 1])
      BY <2>2, <2>3, <2>4, <3>1
    <3>3. F = [i \in 0..C |-> F[i]]
      OBVIOUS
    <3> HIDE DEF F
    <3> QED
      BY <3>2, <3>3, Zenon DEF Walk
  <2>6. R = Walk(R, l, k)
    BY <2>5, Zenon
  <2> HIDE DEF R
  <2>7. R[0] = Walked(q, 0) /\ \A i \in 1..C : R[i] = WalkStep(l, R[i - 1])
    BY <2>2, <2>3, <2>6 DEF Walk
  <2>8. S = {}
    <3> SUFFICES ASSUME S # {} PROVE FALSE
      OBVIOUS
    <3>1. S \in SUBSET Nat
      BY <2>2
    <3>2. PICK n \in S : \A m \in S : n <= m
      <4> HIDE DEF S
      <4> QED
        BY <3>1, Least
    <3>3. n \in 1..C
      BY <2>2, <2>7, <3>2
    <3>4. n - 1 \notin S /\ n - 1 \in 0..C
      BY <2>2, <3>2, <3>3
    <3>5. R[n - 1] = Walked(q, n - 1)
      BY <3>4
    <3> QED
      BY <2>4, <2>7, <3>2, <3>3, <3>5, Zenon
  <2>9. R[C] = Walked(q, C)
    BY <2>2, <2>8
  <2>10. Walked(q, C).queue = q
    <3>1. ~(C < Len(q))
      BY <2>2
    <3> QED
      BY <2>1, <3>1 DEF Walked
  <2>11. QueueOf(l, k) = R[C].queue
    BY <1>QueueIsWalk DEF R
  <2> QED
    BY <2>9, <2>10, <2>11, Zenon DEF q
<1> QED
  BY <1>Main, Zenon

\* The loop of notify: a turn of it, the recursion, and what it leaves after it has taken
\* the first m of the waiters in k's queue.
TurnStep(k, p) ==
    IF p.lot.head[k] = {} THEN p
    ELSE [lot |-> Flag(remove(p.lot, k, CHOOSE t \in p.lot.head[k] : TRUE),
                       CHOOSE t \in p.lot.head[k] : TRUE, TRUE),
          popped |-> p.popped \cup {CHOOSE t \in p.lot.head[k] : TRUE}]
Turns(f, l, k, n) == [i \in 0..n |-> IF i = 0 THEN [lot |-> l, popped |-> {}] ELSE TurnStep(k, f[i - 1])]

Drop(q, m) == [j \in 1..(Len(q) - m) |-> q[j + m]]
First(q, m) == {q[j] : j \in 1..m}
After(l, Q, k, m, p) ==
    /\ Queues(p.lot, [Q EXCEPT ![k] = Drop(Q[k], m)])
    /\ p.popped = First(Q[k], m)
    /\ \A u \in Threads : p.lot.notified[u] <=> l.notified[u] \/ u \in p.popped
Upto(q, i) == IF i < Len(q) THEN i ELSE Len(q)

-----------------------------------------------------------------------------
(* Who is on the queues *)

Queue == [k \in Keys |-> QueueOf(lot, k)]
Woken == {t \in Threads : InWait(t) /\ lot.notified[t]}
WaitsOn(t, k) == k = call[t].key
CutFrom(t, k) == \E i \in 1..Len(Queue[k]) : Queue[k][i] = t /\ Queue' = [Queue EXCEPT ![k] = Cut(Queue[k], i)]
Waiters(k) == {t \in Threads : InWait(t) /\ call[t].key = k /\ ~lot.notified[t]}

\* The table is linked, and the threads on a queue are the ones that wait there unnotified.
ParkInv ==
    /\ \A t \in Threads : InWait(t) => call[t].key \in Keys
    /\ Queues(lot, Queue)
    /\ \A k \in Keys : On(Queue[k]) = Waiters(k)

\* The queues that are linked are the ones the walk finds.
LEMMA QueueIs ==
    ASSUME NEW Q, Queues(lot', Q)
    PROVE  Queue' = Q
<1>1. Q \in [Keys -> Seq(Threads)]
  BY DEF Queues
<1>2. \A k \in Keys : QueueOf(lot', k) = Q[k]
  BY QueueOfIs
<1>3. Queue' = [k \in Keys |-> QueueOf(lot', k)]
  BY DEF Queue
<1>4. Queue' = [k \in Keys |-> Q[k]]
  BY <1>2, <1>3, Zenon
<1> QED
  BY <1>1, <1>4

\* A thread that does not wait is on no queue.
LEMMA NotQueued ==
    ASSUME ParkInv, NEW t \in Threads, ~InWait(t) \/ lot.notified[t]
    PROVE  \A k \in Keys : t \notin On(Queue[k])
BY Zenon DEF ParkInv, Waiters

\* Every step leaves the program counters and the calls of the other threads alone.
OthersStay(t) == \A u \in Threads \ {t} : pc'[u] = pc[u] /\ call'[u] = call[u]

\* A step that leaves the table alone, and after which the thread waits as before, or
\* does not wait, notified if it did.
LEMMA QuietStep ==
    ASSUME ParkInv, NEW t \in Threads, OthersStay(t), lot' = lot,
           \/ InWait(t)' /\ InWait(t) /\ call'[t].key = call[t].key
           \/ ~InWait(t)' /\ (InWait(t) => lot.notified[t])
    PROVE  ParkInv' /\ Queue' = Queue /\ Woken' = IF InWait(t)' THEN Woken ELSE Woken \ {t}
<1>1. Queue' = Queue
  BY DEF Queue
<1>2. \A u \in Threads \ {t} : (InWait(u)' <=> InWait(u)) /\ call'[u] = call[u]
  BY DEF OthersStay, InWait
<1>3. ASSUME NEW k \in Keys PROVE Waiters(k)' = Waiters(k)
  BY <1>2, Zenon DEF Waiters
<1>4. Queues(lot', Queue')
  BY <1>1, Zenon DEF ParkInv
<1>5. \A k \in Keys : On(Queue[k])' = Waiters(k)'
  BY <1>1, <1>3, Zenon DEF ParkInv
<1>6. \A u \in Threads : InWait(u)' => call'[u].key \in Keys
  BY <1>2, Zenon DEF ParkInv
<1>7. Woken' = IF InWait(t)' THEN Woken ELSE Woken \ {t}
  BY <1>2 DEF Woken
<1> QED
  BY <1>1, <1>4, <1>5, <1>6, <1>7, Zenon DEF ParkInv

\* A lowered flag.
LEMMA FlagDown ==
    ASSUME NEW l \in LotType, NEW t \in Threads
    PROVE  \A u \in Threads : Flag(l, t, FALSE).notified[u] <=> u # t /\ l.notified[u]
<1> DEFINE n == [l.notified EXCEPT ![t] = FALSE]
           m == Flag(l, t, FALSE)
<1>1. n \in [Threads -> BOOLEAN] /\ ~n[t] /\ \A u \in Threads \ {t} : n[u] = l.notified[u]
  BY DEF LotType
<1>2. m = [l EXCEPT !.notified = n]
  BY DEF Flag
<1> HIDE DEF n, m
<1>3. m.notified = n
  BY <1>1, <1>2 DEF LotType
<1>4. \A u \in Threads : n[u] <=> u # t /\ l.notified[u]
  BY <1>1, Zenon
<1> QED
  BY <1>3, <1>4, Zenon DEF m

\* A step leaves the calls of the other threads alone.
LEMMA OthersStayPut ==
    ASSUME GrowInv, NEW t \in Threads,
           \/ Store(t) \/ AddrTrap(t) \/ Wait(t) \/ WaitReturns(t) \/ Expire(t)
           \/ ParkReturns(t) \/ Relock(t) \/ Notify(t) \/ Grow(t) \/ Publish(t)
    PROVE  OthersStay(t)
<1>0. DOMAIN pc = Threads /\ DOMAIN call = Threads
  BY DEF GrowInv
<1>1. ASSUME NEW s, NEW c, pc' = pc \/ pc' = [pc EXCEPT ![t] = s], call' = call \/ call' = [call EXCEPT ![t] = c]
      PROVE  OthersStay(t)
  BY <1>0, <1>1 DEF OthersStay
<1>2. CASE Expire(t)
  <2>1. call' = [call EXCEPT ![t] = [call[t] EXCEPT !.deadline = "past"]] /\ pc' = pc
    BY <1>2 DEF Expire
  <2> QED
    BY <1>1, <2>1, Zenon
<1>4. CASE Wait(t)
  <2>1. PICK k, e, d : Enqueue(t, k, e, d)
    BY <1>4 DEF Wait
  <2> QED
    BY <1>1, <2>1, Zenon DEF Enqueue, Become
<1>5. CASE Grow(t)
  <2>1. PICK delta : /\ call' = [call EXCEPT ![t] = [NoCall EXCEPT !.new_len = len + delta]]
                     /\ Become(t, "growing")
    BY <1>5, Zenon DEF Grow
  <2> QED
    BY <1>1, <2>1, Zenon DEF Become
<1>6. CASE \E r, k : Finish(t, r, k)
  BY <1>1, <1>6, Zenon DEF Finish, Become
<1>7. CASE WaitReturns(t) \/ Publish(t)
  BY <1>6, <1>7, Zenon DEF WaitReturns, Publish
<1>8. CASE Relock(t)
  <2>1. CASE Become(t, "parked") /\ UNCHANGED call
    BY <1>1, <2>1, Zenon DEF Become
  <2> QED
    BY <1>6, <1>8, <2>1, Zenon DEF Relock
<1>9. CASE ParkReturns(t)
  BY <1>1, <1>9, Zenon DEF ParkReturns, Become
<1>10. CASE Store(t) \/ AddrTrap(t) \/ Notify(t)
  <2>1. pc' = pc /\ call' = call
    BY <1>10, Zenon DEF Store, AddrTrap, Notify
  <2> QED
    BY <1>1, <2>1
<1> QED
  BY <1>2, <1>4, <1>5, <1>7, <1>8, <1>9, <1>10, ZenonT(30)

\* A step that changes the queue of one address and the flags, the thread's waiting and
\* the flags being such that the queue holds who waits there unnotified.
LEMMA QueueStep ==
    ASSUME ParkInv, NEW t \in Threads, OthersStay(t), NEW k \in Keys, NEW q,
           Queues(lot', [Queue EXCEPT ![k] = q]),
           InWait(t)' => call'[t].key \in Keys,
           On(q) = Waiters(k)', \A j \in Keys \ {k} : Waiters(j)' = Waiters(j)
    PROVE  ParkInv' /\ Queue' = [Queue EXCEPT ![k] = q]
<1> DEFINE R == [Queue EXCEPT ![k] = q]
<1>1. Queue' = R
  BY QueueIs
<1>2. R[k] = q /\ \A j \in Keys \ {k} : R[j] = Queue[j]
  BY DEF Queue
<1> HIDE DEF R
<1>3. \A j \in Keys : On(R[j]) = Waiters(j)'
  BY <1>2, Zenon DEF ParkInv
<1>4. \A j \in Keys : On(Queue[j])' = Waiters(j)'
  BY <1>1, <1>3
<1>5. Queues(lot', Queue')
  BY <1>1 DEF R
<1>6. \A u \in Threads : InWait(u)' => call'[u].key \in Keys
  BY Zenon DEF ParkInv, OthersStay, InWait
<1> QED
  BY <1>1, <1>4, <1>5, <1>6, SMTT(30) DEF ParkInv, R

\* A wait that parks goes to the end of its queue.
LEMMA EnqueueFacts ==
    ASSUME GrowInv, ParkInv, NEW t \in Threads, OthersStay(t), pc[t] = "idle",
           NEW k \in Keys, NEW e, NEW d, Enqueue(t, k, e, d)
    PROVE  /\ ParkInv' /\ Queue' = [Queue EXCEPT ![k] = Append(Queue[k], t)] /\ Woken' = Woken
           /\ InWait(t)' /\ call'[t].key = k /\ call'[t].expected = e
           /\ \A u \in Threads \ {t} : lot'.notified[u] <=> lot.notified[u]
<1> DEFINE l == Flag(lot, t, FALSE)
           p == push(l, k, t)
           c == [NoCall EXCEPT !.key = k, !.expected = e, !.deadline = d]
<1>1. lot' = p /\ pc' = [pc EXCEPT ![t] = "parked"] /\ call' = [call EXCEPT ![t] = c]
  BY DEF Enqueue, Become
<1>2. c.key = k /\ c.expected = e
  BY DEF NoCall
<1> HIDE DEF c
<1>3. pc'[t] = "parked" /\ call'[t] = c
  BY <1>1, Zenon DEF GrowInv
<1>4. InWait(t)' /\ ~InWait(t)
  BY <1>3, Zenon DEF InWait
<1>5. \A j \in Keys : t \notin On(Queue[j])
  BY <1>4, NotQueued, SMTT(30)
<1>6. Queues(lot, Queue) /\ lot \in LotType /\ Queue \in [Keys -> Seq(Threads)] /\ FALSE \in BOOLEAN
  BY Zenon DEF ParkInv, Queues
<1>7. Queues(l, Queue) /\ l \in LotType
  BY <1>6, FlagQueues, Zenon DEF Queues
<1>8. \A u \in Threads : l.notified[u] <=> u # t /\ lot.notified[u]
  BY <1>6, FlagDown, Zenon
<1> HIDE DEF l
<1>9. Queues(p, [Queue EXCEPT ![k] = Append(Queue[k], t)])
  BY <1>5, <1>7, PushQueues, Zenon
<1>10. p.notified = l.notified
  <2>1. PushedOn(l, k, t, p)
    BY <1>7, PushFields
  <2> QED
    BY <2>1, Zenon DEF PushedOn
<1> HIDE DEF p
<1>11. \A u \in Threads : lot'.notified[u] <=> u # t /\ lot.notified[u]
  BY <1>1, <1>8, <1>10, Zenon
<1>12. On(Append(Queue[k], t)) = On(Queue[k]) \cup {t}
  BY <1>6, AppendFacts, Zenon
<1>13. \A u \in Threads \ {t} : (InWait(u)' <=> InWait(u)) /\ call'[u] = call[u]
  BY Zenon DEF OthersStay, InWait
<1>14. Waiters(k)' = Waiters(k) \cup {t}
  BY <1>2, <1>3, <1>4, <1>11, <1>13, Zenon DEF Waiters
<1>15. ASSUME NEW j \in Keys \ {k} PROVE Waiters(j)' = Waiters(j)
  BY <1>2, <1>3, <1>4, <1>11, <1>13, Zenon DEF Waiters
<1>16. On(Append(Queue[k], t)) = Waiters(k)'
  BY <1>12, <1>14, Zenon DEF ParkInv
<1>17. Woken' = Woken
  BY <1>4, <1>11, <1>13, Zenon DEF Woken
<1>18. Queues(lot', [Queue EXCEPT ![k] = Append(Queue[k], t)])
  BY <1>1, <1>9, Zenon
<1>19. call'[t].key \in Keys
  BY <1>2, <1>3
<1>20. ParkInv' /\ Queue' = [Queue EXCEPT ![k] = Append(Queue[k], t)]
  <2> DEFINE a == Append(Queue[k], t)
  <2> HIDE DEF a
  <2>1. Queues(lot', [Queue EXCEPT ![k] = a]) /\ On(a) = Waiters(k)'
    BY <1>16, <1>18, SMTT(30) DEF a
  <2>2. ParkInv' /\ Queue' = [Queue EXCEPT ![k] = a]
    BY <1>15, <1>19, <2>1, QueueStep, Zenon
  <2> QED
    BY <2>2 DEF a
<1> QED
  BY <1>2, <1>3, <1>4, <1>11, <1>17, <1>20, Zenon

\* A notification takes the first waiters of the queue, and all of them if it counts less
\* than it was asked for.
LEMMA NotifyFacts ==
    \A t \in Threads, k \in Keys, n \in Nat :
        (/\ GrowInv
         /\ ParkInv
         /\ pc' = pc
         /\ call' = call
         /\ lot' = NotifyLoop(lot, k, n).lot)
        => (/\ ParkInv'
            /\ \E m \in 0..Len(Queue[k]) :
                  /\ Queue' = [Queue EXCEPT ![k] = Drop(Queue[k], m)]
                  /\ Woken' = Woken \cup First(Queue[k], m)
                  /\ Cardinality(NotifyLoop(lot, k, n).popped) = m
            /\ \A u \in Threads : lot.notified[u] => lot'.notified[u]
            /\ Cardinality(NotifyLoop(lot, k, n).popped) < n => Waiters(k)' = {})
\* The rest of a queue.
<1>DropFacts. ASSUME NEW q \in Seq(Threads), NEW m \in Nat, m <= Len(q)
              PROVE  /\ Drop(q, m) \in Seq(Threads) /\ Len(Drop(q, m)) = Len(q) - m
                     /\ \A j \in 1..(Len(q) - m) : Drop(q, m)[j] = q[j + m]
                     /\ m < Len(q) => Cut(Drop(q, m), 1) = Drop(q, m + 1)
  <2> USE <1>DropFacts
  <2>1. Len(q) \in Nat /\ Len(q) - m \in Nat
    OBVIOUS
  <2>2. \A j \in 1..(Len(q) - m) : j + m \in 1..Len(q)
    BY <2>1
  <2>3. Drop(q, m) \in Seq(Threads) /\ Len(Drop(q, m)) = Len(q) - m
    BY <2>1, <2>2 DEF Drop
  <2>4. \A j \in 1..(Len(q) - m) : Drop(q, m)[j] = q[j + m]
    BY DEF Drop
  <2>5. ASSUME m < Len(q) PROVE Cut(Drop(q, m), 1) = Drop(q, m + 1)
    <3>1. Len(q) - m - 1 = Len(q) - (m + 1)
      BY <2>1
    <3>2. \A j \in 1..(Len(q) - m - 1) : ~(j < 1) /\ j + 1 \in 1..(Len(q) - m) /\ j + 1 + m = j + (m + 1)
      BY <2>1
    <3>3. \A j \in 1..(Len(q) - m - 1) : (IF j < 1 THEN Drop(q, m)[j] ELSE Drop(q, m)[j + 1]) = q[j + (m + 1)]
      BY <2>4, <3>2
    <3>4. Cut(Drop(q, m), 1) = [j \in 1..(Len(q) - m - 1) |-> q[j + (m + 1)]]
      BY <2>3, <3>3, Zenon DEF Cut
    <3> QED
      BY <3>1, <3>4 DEF Drop
  <2> QED
    BY <2>3, <2>4, <2>5
\* notify takes the first n waiters, or all of them when there are fewer.
<1>NotifyIs. \A l, Q : \A k \in Keys, n \in Nat :
                 (/\ Queues(l, Q))
                 => (/\ Upto(Q[k], n) \in 0..Len(Q[k])
                     /\ After(l, Q, k, Upto(Q[k], n), NotifyLoop(l, k, n)))
  \* The loop of notify is that recursion.
  <2>LoopIsTurns. ASSUME NEW l, NEW k, NEW n
                  PROVE  NotifyLoop(l, k, n) = (CHOOSE f : f = Turns(f, l, k, n))[n]
    BY DEF NotifyLoop, Turns, TurnStep
  \* The recursion has a solution for every number of turns.
  <2>TurnsExist. ASSUME NEW l, NEW k, NEW n \in Nat
                 PROVE  \E f : f = Turns(f, l, k, n)
    <3> DEFINE S == {m \in Nat : ~\E f : f = Turns(f, l, k, m)}
    <3> SUFFICES ASSUME S # {} PROVE FALSE
      OBVIOUS
    <3>1. PICK m \in S : \A j \in S : m <= j
      <4>1. S \in SUBSET Nat
        OBVIOUS
      <4> HIDE DEF S
      <4> QED
        BY <4>1, Least
    <3>2. CASE m = 0
      <4> DEFINE g == [i \in 0..0 |-> [lot |-> l, popped |-> {}]]
      <4>1. g = Turns(g, l, k, 0)
        BY DEF Turns
      <4> QED
        BY <3>2, <4>1, Zenon
    <3>3. CASE m # 0
      <4>1. m \in Nat /\ m - 1 \in Nat /\ m - 1 \notin S
        BY <3>1, <3>3
      <4>2. PICK f : f = Turns(f, l, k, m - 1)
        BY <4>1, SMTT(30)
      <4> DEFINE g == [i \in 0..m |-> IF i = m THEN TurnStep(k, f[m - 1]) ELSE f[i]]
      <4>3. \A i \in 0..(m - 1) : f[i] = IF i = 0 THEN [lot |-> l, popped |-> {}] ELSE TurnStep(k, f[i - 1])
        BY <4>2, Zenon DEF Turns
      <4>4. g[m] = TurnStep(k, f[m - 1]) /\ \A i \in 0..(m - 1) : g[i] = f[i]
        BY <4>1
      <4>5. ASSUME NEW i \in 0..m
            PROVE  g[i] = IF i = 0 THEN [lot |-> l, popped |-> {}] ELSE TurnStep(k, g[i - 1])
        <5> HIDE DEF g
        <5>1. CASE i = m
          <6>1. g[m - 1] = f[m - 1] /\ i # 0
            BY <3>3, <4>1, <4>4, <5>1, SMTT(30)
          <6> QED
            BY <4>4, <5>1, <6>1, Zenon
        <5>2. CASE i = 0
          BY <3>3, <4>1, <4>3, <4>4, <5>2, SMTT(30)
        <5>3. CASE i # m /\ i # 0
          <6>1. i \in 0..(m - 1) /\ i - 1 \in 0..(m - 1)
            BY <4>1, <5>3
          <6> QED
            BY <4>3, <4>4, <5>3, <6>1, Zenon
        <5> QED
          BY <5>1, <5>2, <5>3, Zenon
      <4>6. g = [i \in 0..m |-> g[i]]
        OBVIOUS
      <4> HIDE DEF g
      <4>7. g = Turns(g, l, k, m)
        BY <4>5, <4>6, Zenon DEF Turns
      <4> QED
        BY <3>1, <4>7
    <3> QED
      BY <3>2, <3>3
  \* A turn takes the first waiter that is left.
  <2>TurnTakes. \A l \in LotType, Q \in [Keys -> Seq(Threads)], k \in Keys, m \in Nat : \A p :
                    (/\ m < Len(Q[k])
                     /\ After(l, Q, k, m, p))
                    => (After(l, Q, k, m + 1, TurnStep(k, p)))
    \* A raised flag.
    <3>FlagUp. ASSUME NEW l \in LotType, NEW t \in Threads
               PROVE  \A u \in Threads : Flag(l, t, TRUE).notified[u] <=> u = t \/ l.notified[u]
      <4> DEFINE n == [l.notified EXCEPT ![t] = TRUE]
                 m == Flag(l, t, TRUE)
      <4>1. n \in [Threads -> BOOLEAN] /\ n[t] /\ \A u \in Threads \ {t} : n[u] = l.notified[u]
        BY DEF LotType
      <4>2. m = [l EXCEPT !.notified = n]
        BY DEF Flag
      <4> HIDE DEF n, m
      <4>3. m.notified = n
        BY <4>1, <4>2 DEF LotType
      <4>4. \A u \in Threads : n[u] <=> u = t \/ l.notified[u]
        BY <4>1, ZenonT(30)
      <4> QED
        BY <4>3, <4>4, Zenon DEF m
    <3>Main. ASSUME NEW l \in LotType, NEW Q \in [Keys -> Seq(Threads)], NEW k \in Keys, NEW m \in Nat, m < Len(Q[k]),
                    NEW p, After(l, Q, k, m, p)
             PROVE  After(l, Q, k, m + 1, TurnStep(k, p))
      <4> USE <3>Main
      <4> DEFINE q == Q[k]
                 d == Drop(q, m)
                 e == Drop(q, m + 1)
                 R == [Q EXCEPT ![k] = d]
                 t == q[m + 1]
                 r == remove(p.lot, k, t)
                 z == Flag(r, t, TRUE)
      <4>1. q \in Seq(Threads) /\ Len(q) \in Nat /\ m + 1 \in 1..Len(q) /\ t \in Threads
        OBVIOUS
      <4> HIDE DEF q
      <4>0. m <= Len(q) /\ m < Len(q)
        BY <4>1
      <4>2. /\ d \in Seq(Threads) /\ Len(d) = Len(q) - m /\ \A j \in 1..(Len(q) - m) : d[j] = q[j + m]
            /\ Cut(d, 1) = e
        BY <4>0, <4>1, <1>DropFacts, Zenon DEF d, e
      <4> HIDE DEF d, e
      <4>3. Len(d) > 0 /\ 1 \in 1..Len(d) /\ d[1] = t
        BY <4>1, <4>2
      <4> HIDE DEF t
      <4>4. R \in [Keys -> Seq(Threads)] /\ R[k] = d
        BY <4>2
      <4>5. [R EXCEPT ![k] = e] = [Q EXCEPT ![k] = e]
        BY Zenon
      <4>6. Queues(p.lot, R) /\ p.lot \in LotType
        BY Zenon DEF After, Queues, d, q
      <4> HIDE DEF R
      <4>7. p.lot.head[k] = {t}
        <5>1. Links(p.lot.head[k], p.lot.tail[k], p.lot.next, p.lot.prev, d)
          BY <4>4, <4>6 DEF Queues
        <5> QED
          BY <4>3, <5>1, Zenon DEF Links
      <4>8. Queues(r, [R EXCEPT ![k] = Cut(R[k], 1)])
        BY <4>3, <4>4, <4>6, RemoveQueues, Zenon
      <4>9. Queues(r, [Q EXCEPT ![k] = e])
        BY <4>2, <4>4, <4>5, <4>8, Zenon
      <4>10. r \in LotType /\ r.notified = p.lot.notified
        BY <4>1, <4>6, RemoveFields, ZenonT(30) DEF RemovedFrom
      <4> HIDE DEF r
      <4>11. Queues(z, [Q EXCEPT ![k] = e])
        BY <4>1, <4>9, FlagQueues, Zenon
      <4>12. \A u \in Threads : z.notified[u] <=> u = t \/ p.lot.notified[u]
        BY <4>1, <4>10, <3>FlagUp, Zenon DEF z
      <4> HIDE DEF z
      <4>13. TurnStep(k, p) = [lot |-> z, popped |-> p.popped \cup {t}]
        <5>1. (CHOOSE u \in p.lot.head[k] : TRUE) = t
          BY <4>7
        <5>2. p.lot.head[k] # {}
          BY <4>7
        <5> QED
          BY <5>1, <5>2, Zenon DEF TurnStep, z, r
      <4>14. p.popped = First(q, m) /\ \A u \in Threads : p.lot.notified[u] <=> l.notified[u] \/ u \in p.popped
        BY DEF After, q
      <4>15. First(q, m) \cup {t} = First(q, m + 1)
        BY SMTT(30) DEF First, t
      <4>16. \A u \in Threads : z.notified[u] <=> l.notified[u] \/ u \in p.popped \cup {t}
        BY <4>12, <4>14, Zenon
      <4> QED
        BY <4>11, <4>13, <4>14, <4>15, <4>16, SMTT(30) DEF After, e, q
    <3> QED
      BY <3>Main, Zenon
  \* A turn with nobody left does nothing.
  <2>TurnEnds. ASSUME NEW l, NEW Q \in [Keys -> Seq(Threads)], NEW k \in Keys, NEW p, After(l, Q, k, Len(Q[k]), p)
               PROVE  TurnStep(k, p) = p
    <3> USE <2>TurnEnds
    <3> DEFINE d == Drop(Q[k], Len(Q[k]))
               R == [Q EXCEPT ![k] = d]
    <3>1. d \in Seq(Threads) /\ Len(d) = 0
      BY <1>DropFacts
    <3> HIDE DEF d
    <3>2. R[k] = d
      OBVIOUS
    <3>3. Queues(p.lot, R)
      BY Zenon DEF After, d
    <3> HIDE DEF R
    <3>4. Links(p.lot.head[k], p.lot.tail[k], p.lot.next, p.lot.prev, d)
      BY <3>2, <3>3, Zenon DEF Queues
    <3>5. p.lot.head[k] = {}
      BY <3>1, <3>4 DEF Links
    <3> QED
      BY <3>5, Zenon DEF TurnStep
  <2>Main. ASSUME NEW l, NEW Q, Queues(l, Q), NEW k \in Keys, NEW n \in Nat
           PROVE  /\ Upto(Q[k], n) \in 0..Len(Q[k])
                  /\ After(l, Q, k, Upto(Q[k], n), NotifyLoop(l, k, n))
    <3> USE <2>Main
    <3> DEFINE q == Q[k]
               R == CHOOSE f : f = Turns(f, l, k, n)
               S == {i \in 0..n : ~After(l, Q, k, Upto(q, i), R[i])}
    <3>1. l \in LotType /\ Q \in [Keys -> Seq(Threads)] /\ q \in Seq(Threads) /\ Len(q) \in Nat
      BY DEF Queues
    <3>2. R = Turns(R, l, k, n)
      BY <2>TurnsExist
    <3> HIDE DEF R
    <3>3. R[0] = [lot |-> l, popped |-> {}] /\ \A i \in 1..n : R[i] = TurnStep(k, R[i - 1])
      <4>1. R = [i \in 0..n |-> IF i = 0 THEN [lot |-> l, popped |-> {}] ELSE TurnStep(k, R[i - 1])]
        BY <3>2, Zenon DEF Turns
      <4>2. \A i \in 0..n : R[i] = IF i = 0 THEN [lot |-> l, popped |-> {}] ELSE TurnStep(k, R[i - 1])
        BY <4>1, Zenon
      <4>3. 0 \in 0..n /\ \A i \in 1..n : i \in 0..n /\ i # 0
        OBVIOUS
      <4> QED
        BY <4>2, <4>3, Zenon
    <3>4. Upto(q, 0) = 0 /\ \A i \in Nat : Upto(q, i) \in 0..Len(q)
      BY <3>1 DEF Upto
    <3>5. After(l, Q, k, 0, [lot |-> l, popped |-> {}])
      <4>1. Drop(q, 0) = q
        <5>1. Len(q) - 0 = Len(q) /\ \A j \in 1..Len(q) : j + 0 = j
          BY <3>1
        <5>2. Drop(q, 0) = [j \in 1..Len(q) |-> q[j]]
          BY <5>1 DEF Drop
        <5> QED
          BY <3>1, <5>2
      <4>2. [Q EXCEPT ![k] = Q[k]] = Q
        BY <3>1
      <4>3. First(q, 0) = {}
        BY DEF First
      <4> QED
        BY <4>1, <4>2, <4>3 DEF After
    <3>6. S = {}
      <4> SUFFICES ASSUME S # {} PROVE FALSE
        OBVIOUS
      <4>1. S \in SUBSET Nat
        OBVIOUS
      <4>2. PICK i \in S : \A j \in S : i <= j
        <5> HIDE DEF S
        <5> QED
          BY <4>1, Least, Zenon
      <4>3. i \in 1..n
        BY <3>3, <3>4, <3>5, <4>2
      <4>4. After(l, Q, k, Upto(q, i - 1), R[i - 1])
        BY <4>2, <4>3, SMTT(30)
      <4>5. CASE i - 1 < Len(q)
        <5>1. Upto(q, i - 1) = i - 1 /\ Upto(q, i) = i - 1 + 1 /\ i - 1 \in Nat
          BY <3>1, <4>3, <4>5 DEF Upto
        <5>2. After(l, Q, k, i - 1, R[i - 1])
          BY <4>4, <5>1, Zenon
        <5>3. After(l, Q, k, i - 1 + 1, TurnStep(k, R[i - 1]))
          <6> DEFINE g == i - 1
                     p == R[i - 1]
          <6>1. g \in Nat /\ g < Len(Q[k]) /\ After(l, Q, k, g, p)
            BY <4>5, <5>1, <5>2, Zenon
          <6> HIDE DEF g, p
          <6>2. After(l, Q, k, g + 1, TurnStep(k, p))
            BY <3>1, <6>1, <2>TurnTakes, Zenon
          <6> QED
            BY <6>2, Zenon DEF g, p
        <5> QED
          BY <3>3, <4>2, <4>3, <5>1, <5>3, Zenon
      <4>6. CASE ~(i - 1 < Len(q))
        <5>1. Upto(q, i - 1) = Len(q) /\ Upto(q, i) = Len(q)
          BY <3>1, <4>3, <4>6, SMTT(30) DEF Upto
        <5>2. TurnStep(k, R[i - 1]) = R[i - 1]
          BY <3>1, <4>4, <5>1, <2>TurnEnds, Zenon
        <5> QED
          BY <3>3, <4>2, <4>3, <4>4, <5>1, <5>2, Zenon
      <4> QED
        BY <4>5, <4>6
    <3>7. After(l, Q, k, Upto(q, n), R[n])
      BY <3>6
    <3>8. NotifyLoop(l, k, n) = R[n]
      BY <2>LoopIsTurns, Zenon DEF R
    <3> QED
      BY <3>4, <3>7, <3>8, Zenon
  <2> QED
    BY <2>Main, Zenon
\* What is left of a queue, and the number of those taken.
<1>FirstFacts. ASSUME NEW q \in Seq(Threads), Distinct(q), NEW m \in 0..Len(q)
               PROVE  /\ On(Drop(q, m)) = On(q) \ First(q, m) /\ First(q, m) \subseteq On(q)
                      /\ Cardinality(First(q, m)) = m
                      /\ m = Len(q) => On(q) \ First(q, m) = {}
  <2> USE <1>FirstFacts
  <2>1. Len(q) \in Nat /\ m \in Nat /\ m <= Len(q) /\ \A j \in 1..m : j \in 1..Len(q)
    OBVIOUS
  <2>2. Drop(q, m) \in Seq(Threads) /\ Len(Drop(q, m)) = Len(q) - m /\ \A j \in 1..(Len(q) - m) : Drop(q, m)[j] = q[j + m]
    BY <2>1, <1>DropFacts, Zenon
  <2> DEFINE d == Drop(q, m)
  <2> HIDE DEF d
  <2>3. On(d) = {q[j + m] : j \in 1..(Len(q) - m)}
    BY <2>2, Zenon DEF On, d
  <2>4. ASSUME NEW j \in 1..(Len(q) - m) PROVE q[j + m] \in On(q) \ First(q, m)
    BY <2>1, SMTT(30) DEF On, First, Distinct
  <2>5. ASSUME NEW i \in 1..Len(q), q[i] \notin First(q, m) PROVE q[i] \in On(d)
    <3>1. i > m
      BY <2>1, <2>5 DEF First
    <3>2. i - m \in 1..(Len(q) - m) /\ (i - m) + m = i
      BY <2>1, <3>1, SMTT(30)
    <3> QED
      BY <2>3, <3>2
  <2>6. On(d) = On(q) \ First(q, m)
    <3>1. On(q) = {q[i] : i \in 1..Len(q)}
      BY DEF On
    <3> QED
      BY <2>3, <2>4, <2>5, <3>1, Zenon
  <2>7. First(q, m) \subseteq On(q)
    BY <2>1, Zenon DEF First, On
  <2>8. Cardinality(First(q, m)) = m
    <3> DEFINE f == [j \in 1..m |-> q[j]]
    <3>1. f \in Bijection(1..m, First(q, m))
      <4>1. f \in [1..m -> First(q, m)]
        BY DEF First
      <4>2. \A a, b \in 1..m : f[a] = f[b] => a = b
        BY <2>1, SMTT(30) DEF Distinct
      <4>3. \A x \in First(q, m) : \E a \in 1..m : f[a] = x
        BY DEF First
      <4> HIDE DEF f
      <4> QED
        BY <4>1, <4>2, <4>3, Zenon DEF Bijection, Injection, Surjection, IsInjective
    <3>2. IsFiniteSet(1..m) /\ Cardinality(1..m) = m
      BY <2>1, FS_Interval
    <3> HIDE DEF f
    <3>3. ExistsBijection(1..m, First(q, m))
      BY <3>1, Zenon DEF ExistsBijection
    <3> QED
      BY <3>2, <3>3, FS_Bijection, Zenon
  <2>9. m = Len(q) => On(q) \ First(q, m) = {}
    BY SMTT(30) DEF On, First
  <2> QED
    BY <2>6, <2>7, <2>8, <2>9, Zenon DEF d
<1>Main. ASSUME GrowInv, ParkInv, NEW t \in Threads, pc' = pc, call' = call,
                NEW k \in Keys, NEW n \in Nat, lot' = NotifyLoop(lot, k, n).lot
         PROVE  /\ ParkInv'
                /\ \E m \in 0..Len(Queue[k]) :
                      /\ Queue' = [Queue EXCEPT ![k] = Drop(Queue[k], m)]
                      /\ Woken' = Woken \cup First(Queue[k], m)
                      /\ Cardinality(NotifyLoop(lot, k, n).popped) = m
                /\ \A u \in Threads : lot.notified[u] => lot'.notified[u]
                /\ Cardinality(NotifyLoop(lot, k, n).popped) < n => Waiters(k)' = {}
  <2> USE <1>Main
  <2> DEFINE q == Queue[k]
             m == Upto(q, n)
             r == NotifyLoop(lot, k, n)
             d == Drop(q, m)
             F == First(q, m)
  <2>1. Queues(lot, Queue) /\ q \in Seq(Threads) /\ Distinct(q) /\ On(q) = Waiters(k) /\ Len(q) \in Nat
    <3>1. Queues(lot, Queue) /\ q \in Seq(Threads) /\ Distinct(q) /\ On(q) = Waiters(k)
      BY Zenon DEF ParkInv, Queues
    <3> HIDE DEF q
    <3> QED
      BY <3>1
  <2>2. m \in 0..Len(q) /\ After(lot, Queue, k, m, r)
    BY <2>1, <1>NotifyIs, Zenon
  <2>3. m < n => m = Len(q)
    BY <2>1 DEF Upto
  <2> HIDE DEF m, r
  <2>4. Queues(lot', [Queue EXCEPT ![k] = d])
    BY <2>2, Zenon DEF After, r
  <2>5. r.popped = F /\ \A u \in Threads : lot'.notified[u] <=> lot.notified[u] \/ u \in F
    BY <2>2, Zenon DEF After, r
  <2> HIDE DEF q
  <2>6. On(d) = On(q) \ F /\ F \subseteq On(q) /\ Cardinality(F) = m /\ (m = Len(q) => On(q) \ F = {})
    BY <2>1, <2>2, <1>FirstFacts, SMTT(30)
  <2> HIDE DEF d, F
  <2>7. \A u \in Threads : (InWait(u)' <=> InWait(u)) /\ call'[u] = call[u]
    BY Zenon DEF InWait
  <2>8. Waiters(k)' = Waiters(k) \ F
    BY <2>5, <2>7, Zenon DEF Waiters
  <2>9. ASSUME NEW j \in Keys \ {k} PROVE Waiters(j)' = Waiters(j)
    <3>1. \A u \in Threads : u \in F => call[u].key = k
      BY <2>1, <2>6, Zenon DEF Waiters
    <3> QED
      BY <2>5, <2>7, <3>1, Zenon DEF Waiters
  <2>10. Woken' = Woken \cup F
    <3>1. \A u \in F : u \in Threads /\ InWait(u)
      BY <2>1, <2>6, SMTT(30) DEF Waiters
    <3> QED
      BY <2>5, <2>7, <3>1, ZenonT(30) DEF Woken
  <2>11. On(d) = Waiters(k)'
    BY <2>1, <2>6, <2>8, Zenon
  <2>12. OthersStay(t) /\ (InWait(t)' => call'[t].key \in Keys)
    BY <2>7, SMTT(30) DEF OthersStay, ParkInv
  <2>13. ParkInv' /\ Queue' = [Queue EXCEPT ![k] = d]
    BY <2>4, <2>9, <2>11, <2>12, QueueStep, Zenon
  <2>14. Cardinality(r.popped) = m
    BY <2>5, <2>6, Zenon
  <2>15. Cardinality(r.popped) < n => Waiters(k)' = {}
    BY <2>1, <2>3, <2>6, <2>8, <2>14, Zenon
  <2> QED
    BY <2>2, <2>5, <2>10, <2>13, <2>14, <2>15, Zenon DEF q, d, F, r
<1> QED
  BY <1>Main, Zenon

\* The steps that leave the table alone.
LEMMA QuietSteps ==
    ASSUME GrowInv, ParkInv, NEW t \in Threads,
           \/ Store(t) \/ AddrTrap(t) \/ Expire(t) \/ ParkReturns(t) \/ Grow(t) \/ Publish(t)
    PROVE  ParkInv' /\ Queue' = Queue /\ Woken' = Woken
<1>1. OthersStay(t)
  BY OthersStayPut
<1>2. lot' = lot
  BY SMTT(30) DEF Store, AddrTrap, Expire, ParkReturns, Grow, Publish
<1>3. DOMAIN pc = Threads /\ DOMAIN call = Threads /\ IsCall(call[t])
  BY Zenon DEF GrowInv
<1>4. CASE InWait(t)' /\ InWait(t) /\ call'[t].key = call[t].key
  BY <1>1, <1>2, <1>4, QuietStep, Zenon
<1>5. CASE ~InWait(t)' /\ ~InWait(t)
  <2>1. t \notin Woken
    BY <1>5 DEF Woken
  <2> QED
    BY <1>1, <1>2, <1>5, <2>1, QuietStep, Zenon
<1>6. CASE Store(t) \/ AddrTrap(t)
  <2>1. pc' = pc /\ pc[t] = "idle"
    BY <1>6 DEF Store, AddrTrap
  <2> QED
    BY <1>5, <2>1, Zenon DEF InWait
<1>7. CASE Expire(t)
  <2>1. pc' = pc /\ call' = [call EXCEPT ![t] = [call[t] EXCEPT !.deadline = "past"]]
    BY <1>7 DEF Expire
  <2>2. call'[t] = [call[t] EXCEPT !.deadline = "past"]
    BY <1>3, <2>1
  <2>3. call'[t].key = call[t].key
    BY <1>3, <2>2, Zenon DEF IsCall
  <2> QED
    BY <1>4, <1>5, <2>1, <2>3, Zenon DEF InWait
<1>8. CASE ParkReturns(t)
  <2>1. pc[t] = "parked" /\ pc' = [pc EXCEPT ![t] = "awake"] /\ call' = call
    BY <1>8 DEF ParkReturns, Become
  <2> QED
    BY <1>3, <1>4, <2>1, Zenon DEF InWait
<1>9. CASE Grow(t)
  <2>1. pc[t] = "idle" /\ pc' = [pc EXCEPT ![t] = "growing"]
    BY <1>9 DEF Grow, Become
  <2> QED
    BY <1>3, <1>5, <2>1 DEF InWait
<1>10. CASE Publish(t)
  <2>1. pc[t] = "growing" /\ pc' = [pc EXCEPT ![t] = "idle"]
    BY <1>10, SMTT(30) DEF Publish, Finish, Become
  <2> QED
    BY <1>3, <1>5, <2>1, Zenon DEF InWait
<1> QED
  BY <1>6, <1>7, <1>8, <1>9, <1>10, Zenon

\* A wait that finishes without parking.
LEMMA WaitReturnsFacts ==
    \A t \in Threads :
        (/\ GrowInv
         /\ ParkInv
         /\ WaitReturns(t))
        => (/\ ParkInv' /\ Queue' = Queue /\ Woken' = Woken /\ ~InWait(t) /\ ~InWait(t)'
            /\ \E r \in {"Mismatch", "TimedOut"}, k \in Keys : returned' = {<<t, r, k>>}
            /\ \A u \in Threads \ {t} : lot'.notified[u] <=> lot.notified[u])
\* A wait whose deadline is past before it parks leaves the queues as they were.
<1>PassFacts. ASSUME GrowInv, ParkInv, NEW t \in Threads, OthersStay(t), ~InWait(t), ~InWait(t)', NEW k \in Keys,
                     lot' = remove(push(Flag(lot, t, FALSE), k, t), k, t)
              PROVE  /\ ParkInv' /\ Queue' = Queue /\ Woken' = Woken
                     /\ \A u \in Threads \ {t} : lot'.notified[u] <=> lot.notified[u]
  <2> USE <1>PassFacts
  <2> DEFINE l == Flag(lot, t, FALSE)
             p == push(l, k, t)
             q == Queue[k]
             a == Append(q, t)
             R == [Queue EXCEPT ![k] = a]
  <2>1. Queues(lot, Queue) /\ lot \in LotType /\ Queue \in [Keys -> Seq(Threads)] /\ FALSE \in BOOLEAN
    BY Zenon DEF ParkInv, Queues
  <2>2. Queues(l, Queue) /\ l \in LotType
    BY <2>1, FlagQueues, Zenon DEF Queues
  <2>3. \A u \in Threads : l.notified[u] <=> u # t /\ lot.notified[u]
    BY <2>1, FlagDown, Zenon
  <2> HIDE DEF l
  <2>4. \A j \in Keys : t \notin On(Queue[j])
    BY NotQueued
  <2>5. Queues(p, R)
    BY <2>2, <2>4, PushQueues, Zenon
  <2>6. p.notified = l.notified
    <3>1. PushedOn(l, k, t, p)
      BY <2>2, PushFields, Zenon
    <3> QED
      BY <3>1, Zenon DEF PushedOn
  <2> HIDE DEF p
  <2>7. q \in Seq(Threads)
    BY <2>1, SMTT(30)
  <2>8. a \in Seq(Threads) /\ Len(a) = Len(q) + 1 /\ a[Len(q) + 1] = t /\ \A i \in 1..Len(q) : a[i] = q[i]
    BY <2>7, AppendFacts, Zenon
  <2>9. R[k] = a /\ [R EXCEPT ![k] = q] = Queue
    BY <2>1, Zenon
  <2> HIDE DEF R, a
  <2>10. Cut(a, Len(q) + 1) = q
    <3>1. Len(q) \in Nat /\ Len(a) - 1 = Len(q) /\ \A j \in 1..Len(q) : j < Len(q) + 1
      BY <2>7, <2>8, SMTT(30)
    <3>2. Cut(a, Len(q) + 1) = [j \in 1..Len(q) |-> a[j]]
      BY <3>1 DEF Cut
    <3> QED
      BY <2>7, <2>8, <3>2, SMTT(30)
  <2>11. Queues(remove(p, k, t), [R EXCEPT ![k] = Cut(R[k], Len(q) + 1)])
    <3>1. Len(q) + 1 \in 1..Len(R[k]) /\ t = R[k][Len(q) + 1]
      BY <2>7, <2>8, <2>9, SMTT(30)
    <3> DEFINE i == Len(q) + 1
    <3> HIDE DEF i
    <3>2. i \in 1..Len(R[k]) /\ t = R[k][i]
      BY <3>1, Zenon DEF i
    <3>3. Queues(remove(p, k, t), [R EXCEPT ![k] = Cut(R[k], i)])
      BY <2>5, <3>2, RemoveQueues, SMTT(30)
    <3> QED
      BY <3>3, Zenon DEF i
  <2>12. Queues(lot', Queue)
    BY <2>9, <2>10, <2>11, Zenon DEF p, l
  <2>13. Queue' = Queue
    BY <2>12, QueueIs, Zenon
  <2>14. \A u \in Threads : lot'.notified[u] <=> u # t /\ lot.notified[u]
    <3>1. p \in LotType
      BY <2>5, Zenon DEF Queues
    <3>2. RemovedFrom(p, k, t, remove(p, k, t))
      BY <3>1, RemoveFields, SMTT(30)
    <3>3. lot'.notified = l.notified
      BY <2>6, <3>2, Zenon DEF RemovedFrom, p, l
    <3> QED
      BY <2>3, <3>3, Zenon
  <2>15. \A u \in Threads \ {t} : (InWait(u)' <=> InWait(u)) /\ call'[u] = call[u]
    BY Zenon DEF OthersStay, InWait
  <2>16. ASSUME NEW j \in Keys PROVE Waiters(j)' = Waiters(j)
    BY <2>14, <2>15, Zenon DEF Waiters
  <2>17. Woken' = Woken
    BY <2>14, <2>15, ZenonT(30) DEF Woken
  <2>18. \A j \in Keys : On(Queue[j])' = Waiters(j)'
    BY <2>13, <2>16 DEF ParkInv
  <2>19. \A u \in Threads : InWait(u)' => call'[u].key \in Keys
    BY <2>15, Zenon DEF ParkInv
  <2>20. ParkInv'
    BY <2>12, <2>13, <2>18, <2>19, Zenon DEF ParkInv
  <2> QED
    BY <2>13, <2>14, <2>17, <2>20, Zenon
<1>Main. ASSUME GrowInv, ParkInv, NEW t \in Threads, WaitReturns(t)
         PROVE  /\ ParkInv' /\ Queue' = Queue /\ Woken' = Woken /\ ~InWait(t) /\ ~InWait(t)'
                /\ \E r \in {"Mismatch", "TimedOut"}, k \in Keys : returned' = {<<t, r, k>>}
                /\ \A u \in Threads \ {t} : lot'.notified[u] <=> lot.notified[u]
  <2> USE <1>Main
  <2>1. PICK k \in Keys :
          \/ Finish(t, "Mismatch", k) /\ UNCHANGED lot
          \/ lot' = remove(push(Flag(lot, t, FALSE), k, t), k, t) /\ Finish(t, "TimedOut", k)
    BY Zenon DEF WaitReturns
  <2>2. OthersStay(t) /\ pc[t] = "idle"
    BY OthersStayPut, Zenon DEF WaitReturns
  <2>3. pc' = [pc EXCEPT ![t] = "idle"] /\ \E r \in {"Mismatch", "TimedOut"} : returned' = {<<t, r, k>>}
    BY <2>1, Zenon DEF Finish, Become
  <2>4. ~InWait(t) /\ ~InWait(t)'
    BY <2>2, <2>3, Zenon DEF InWait, GrowInv
  <2>5. CASE UNCHANGED lot
    <3>1. t \notin Woken
      BY <2>4, Zenon DEF Woken
    <3>2. ParkInv' /\ Queue' = Queue /\ Woken' = Woken
      BY <2>2, <2>4, <2>5, <3>1, QuietStep, Zenon
    <3> QED
      BY <2>3, <2>4, <2>5, <3>2, Zenon
  <2>6. CASE lot' = remove(push(Flag(lot, t, FALSE), k, t), k, t)
    BY <2>2, <2>3, <2>4, <2>6, <1>PassFacts, Zenon
  <2> QED
    BY <2>1, <2>5, <2>6, Zenon
<1> QED
  BY <1>Main, Zenon

\* What a thread that was woken finds: it was notified, its time has run out, or neither.
LEMMA RelockFacts ==
    \A t \in Threads :
        (/\ GrowInv
         /\ ParkInv
         /\ Relock(t))
        => (/\ ParkInv' /\ InWait(t)
            /\ \/ /\ t \in Woken /\ Queue' = Queue /\ Woken' = Woken \ {t} /\ ~InWait(t)'
                  /\ \E k \in Keys : returned' = {<<t, "Ok", k>>}
               \/ /\ t \notin Woken /\ Woken' = Woken /\ ~InWait(t)'
                  /\ \E k \in Keys : /\ returned' = {<<t, "TimedOut", k>>}
                                     /\ \E i \in 1..Len(Queue[k]) :
                                           /\ Queue[k][i] = t
                                           /\ Queue' = [Queue EXCEPT ![k] = Cut(Queue[k], i)]
               \/ /\ Queue' = Queue /\ Woken' = Woken /\ returned' = {}
                  /\ InWait(t)' /\ call'[t] = call[t]
            /\ \A u \in Threads : lot'.notified[u] <=> lot.notified[u])
\* A wait that gives up leaves the place where it was.
<1>LeaveFacts. ASSUME GrowInv, ParkInv, NEW t \in Threads, OthersStay(t), InWait(t), ~lot.notified[t], ~InWait(t)',
                      NEW k, WaitsOn(t, k), lot' = remove(lot, k, t)
               PROVE  /\ ParkInv' /\ Woken' = Woken
                      /\ k \in Keys
                      /\ CutFrom(t, k)
                      /\ \A u \in Threads : lot'.notified[u] <=> lot.notified[u]
  <2> USE <1>LeaveFacts
  <2> k = call[t].key
    BY Zenon DEF WaitsOn
  <2>1. k \in Keys /\ t \in Waiters(k)
    BY Zenon DEF ParkInv, Waiters
  <2>2. \A j \in Keys \ {k} : t \notin Waiters(j)
    BY SMTT(30) DEF Waiters
  <2>3. Queues(lot, Queue) /\ lot \in LotType /\ Queue \in [Keys -> Seq(Threads)] /\ On(Queue[k]) = Waiters(k)
    BY <2>1, Zenon DEF ParkInv, Queues
  <2>4. \A u \in Threads : lot'.notified[u] <=> lot.notified[u]
    <3>1. RemovedFrom(lot, k, t, lot')
      BY <2>1, <2>3, RemoveFields, Zenon
    <3> QED
      BY <3>1, Zenon DEF RemovedFrom
  <2>5. \A u \in Threads \ {t} : (InWait(u)' <=> InWait(u)) /\ call'[u] = call[u]
    BY Zenon DEF OthersStay, InWait
  <2> DEFINE q == Queue[k]
  <2>6. q \in Seq(Threads) /\ Distinct(q)
    BY <2>1, <2>3, Zenon DEF Queues
  <2>7. PICK i \in 1..Len(q) : q[i] = t
    BY <2>1, <2>3, ZenonT(30) DEF On
  <2> DEFINE a == Cut(q, i)
  <2>8. On(a) = On(q) \ {t}
    BY <2>6, <2>7, CutFacts, SMTT(30)
  <2>9. Queues(lot', [Queue EXCEPT ![k] = a])
    BY <2>1, <2>3, <2>7, RemoveQueues, Zenon
  <2> HIDE DEF a
  <2>10. Waiters(k)' = Waiters(k) \ {t}
    BY <2>4, <2>5, Zenon DEF Waiters
  <2>11. ASSUME NEW j \in Keys \ {k} PROVE Waiters(j)' = Waiters(j)
    BY <2>2, <2>4, <2>5, Zenon DEF Waiters
  <2>12. Woken' = Woken
    BY <2>4, <2>5, Zenon DEF Woken
  <2>13. On(a) = Waiters(k)'
    BY <2>3, <2>8, <2>10, Zenon
  <2>14. ParkInv' /\ Queue' = [Queue EXCEPT ![k] = a]
    BY <2>1, <2>9, <2>11, <2>13, QueueStep, Zenon
  <2> QED
    BY <2>1, <2>4, <2>7, <2>12, <2>14, Zenon DEF a, CutFrom
<1>Main. ASSUME GrowInv, ParkInv, NEW t \in Threads, Relock(t)
         PROVE  /\ ParkInv' /\ InWait(t)
                /\ \/ /\ t \in Woken /\ Queue' = Queue /\ Woken' = Woken \ {t} /\ ~InWait(t)'
                      /\ \E k \in Keys : returned' = {<<t, "Ok", k>>}
                   \/ /\ t \notin Woken /\ Woken' = Woken /\ ~InWait(t)'
                      /\ \E k \in Keys : /\ returned' = {<<t, "TimedOut", k>>}
                                         /\ \E i \in 1..Len(Queue[k]) :
                                               /\ Queue[k][i] = t
                                               /\ Queue' = [Queue EXCEPT ![k] = Cut(Queue[k], i)]
                   \/ /\ Queue' = Queue /\ Woken' = Woken /\ returned' = {}
                      /\ InWait(t)' /\ call'[t] = call[t]
                /\ \A u \in Threads : lot'.notified[u] <=> lot.notified[u]
  <2> USE <1>Main
  <2>1. OthersStay(t) /\ pc[t] = "awake" /\ InWait(t) /\ DOMAIN pc = Threads
    BY OthersStayPut, Zenon DEF Relock, InWait, GrowInv
  <2>2. PICK k : k = call[t].key
    BY SMTT(30)
  <2>3. k \in Keys
    BY <2>1, <2>2, Zenon DEF ParkInv
  <2>4. CASE lot.notified[t] /\ Finish(t, "Ok", k) /\ UNCHANGED lot
    <3>1. pc' = [pc EXCEPT ![t] = "idle"] /\ returned' = {<<t, "Ok", k>>}
      BY <2>4 DEF Finish, Become
    <3>2. ~InWait(t)' /\ t \in Woken
      BY <2>1, <2>4, <3>1, Zenon DEF InWait, Woken
    <3>3. ParkInv' /\ Queue' = Queue /\ Woken' = Woken \ {t}
      BY <2>1, <2>4, <3>2, QuietStep, Zenon
    <3> QED
      BY <2>1, <2>3, <2>4, <3>1, <3>2, <3>3, Zenon
  <2>5. CASE ~lot.notified[t] /\ lot' = remove(lot, k, t) /\ Finish(t, "TimedOut", k)
    <3>1. pc' = [pc EXCEPT ![t] = "idle"] /\ returned' = {<<t, "TimedOut", k>>}
      BY <2>5 DEF Finish, Become
    <3>2. ~InWait(t)' /\ t \notin Woken
      BY <2>1, <2>5, <3>1, Zenon DEF InWait, Woken
    <3>3. /\ ParkInv' /\ Woken' = Woken
          /\ CutFrom(t, k)
          /\ \A u \in Threads : lot'.notified[u] <=> lot.notified[u]
      <4>1. WaitsOn(t, k)
        BY <2>2, Zenon DEF WaitsOn
      <4> QED
        BY <2>1, <2>5, <3>2, <4>1, <1>LeaveFacts, Zenon
    <3> QED
      BY <2>1, <2>3, <3>1, <3>2, <3>3, ZenonT(30) DEF CutFrom
  <2>6. CASE Become(t, "parked") /\ returned' = {} /\ UNCHANGED <<lot, call>>
    <3>1. InWait(t)' /\ call'[t] = call[t]
      BY <2>1, <2>6, Zenon DEF Become, InWait
    <3>2. ParkInv' /\ Queue' = Queue /\ Woken' = Woken
      BY <2>1, <2>6, <3>1, QuietStep, Zenon
    <3> QED
      BY <2>1, <2>6, <3>1, <3>2, Zenon
  <2> QED
    BY <2>2, <2>4, <2>5, <2>6, Zenon DEF Relock
<1> QED
  BY <1>Main, Zenon

\* Every step keeps the invariant.
LEMMA ParkStep ==
    ASSUME GrowInv, ParkInv, [Next]_vars
    PROVE  ParkInv'
<1>1. CASE UNCHANGED vars
  BY <1>1, Zenon DEF vars, ParkInv, Queue, Waiters, InWait
<1>2. ASSUME NEW t \in Threads, Wait(t) PROVE ParkInv'
  <2>1. PICK k \in Keys, e \in Values, d \in Deadlines : Enqueue(t, k, e, d) /\ pc[t] = "idle"
    BY <1>2 DEF Wait
  <2>2. OthersStay(t)
    BY <1>2, OthersStayPut, Zenon
  <2> QED
    BY <2>1, <2>2, EnqueueFacts, Zenon
<1>3. ASSUME NEW t \in Threads, Notify(t) PROVE ParkInv'
  <2>1. PICK k \in Keys, n \in 0..Cardinality(Threads) : lot' = NotifyLoop(lot, k, n).lot /\ pc' = pc /\ call' = call
    BY <1>3 DEF Notify
  <2>2. n \in Nat
    BY SMTT(30)
  <2> QED
    BY <2>1, <2>2, NotifyFacts, Zenon
<1>4. CASE Next
  BY <1>2, <1>3, <1>4, QuietSteps, WaitReturnsFacts, RelockFacts, Zenon DEF Next
<1> QED
  BY <1>1, <1>4, Zenon

\* Nobody waits at first.
LEMMA ParkInit == Init => ParkInv /\ Queue = [k \in Keys |-> <<>>]
<1> SUFFICES ASSUME Init PROVE ParkInv /\ Queue = [k \in Keys |-> <<>>]
  OBVIOUS
<1> DEFINE Q == [k \in Keys |-> <<>>]
<1>1. lot = [head |-> [k \in Keys |-> {}], tail |-> [k \in Keys |-> {}],
             next |-> [t \in Threads |-> {}], prev |-> [t \in Threads |-> {}],
             notified |-> [t \in Threads |-> FALSE]]
  BY Zenon DEF Init
<1>2. lot \in LotType /\ Q \in [Keys -> Seq(Threads)]
  BY <1>1 DEF LotType
<1>3. \A k \in Keys : Q[k] = <<>> /\ Len(Q[k]) = 0 /\ On(Q[k]) = {}
  BY DEF On
<1>4. /\ \A k \in Keys : lot.head[k] = {} /\ lot.tail[k] = {}
      /\ \A t \in Threads : lot.next[t] = {} /\ lot.prev[t] = {}
  BY <1>1, ZenonT(30)
<1> HIDE DEF Q
<1>5. Queues(lot, Q)
  BY <1>2, <1>3, <1>4, SMTT(30) DEF Queues, Distinct, Links
<1>6. \A k \in Keys : QueueOf(lot, k) = Q[k]
  BY <1>5, QueueOfIs
<1>7. Queue = Q
  BY <1>2, <1>6, Zenon DEF Queue, Q
<1>8. \A t \in Threads : ~InWait(t)
  BY SMTT(30) DEF Init, InWait
<1>9. \A k \in Keys : Waiters(k) = {}
  BY <1>8 DEF Waiters
<1> QED
  BY <1>3, <1>5, <1>7, <1>8, <1>9, Zenon DEF ParkInv, Q

Agrees(q, k) ==
    /\ {q[i] : i \in DOMAIN q} = {t \in Threads : InWait(t) /\ call[t].key = k /\ ~lot.notified[t]}
    /\ lot.tail[k] = IF q = <<>> THEN {} ELSE {q[Len(q)]}
    /\ \A i \in DOMAIN q : lot.prev[q[i]] = IF i = 1 THEN {} ELSE {q[i - 1]}

\* The queues are linked in both directions, through exactly the threads that wait there
\* unnotified, whatever waits, notifications and time-outs come in whatever order: what
\* the assertions of WaiterSpot and of the parking spot's list check at run time.
THEOREM SharedLinksAgree ==
    Spec => []LinksAgree
\* What the assertions of the code say follows from the links.
<1>ParkLinks. ParkInv => LinksAgree
  <2> SUFFICES ASSUME ParkInv PROVE LinksAgree
    BY Zenon
  <2>1. Queues(lot, Queue)
    BY DEF ParkInv
  <2>2. ASSUME NEW k \in Keys, NEW q, q = QueueOf(lot, k) PROVE Agrees(q, k)
    <3>1. q = Queue[k]
      BY <2>2, SMTT(30) DEF Queue
    <3>2. q \in Seq(Threads) /\ Links(lot.head[k], lot.tail[k], lot.next, lot.prev, q) /\ On(q) = Waiters(k)
      BY <2>1, <3>1, Zenon DEF Queues, ParkInv
    <3>3. DOMAIN q = 1..Len(q) /\ Len(q) \in Nat /\ (q = <<>> <=> Len(q) = 0)
      BY <3>2
    <3>4. {q[i] : i \in DOMAIN q} = On(q)
      BY <3>3 DEF On
    <3>5. Waiters(k) = {t \in Threads : InWait(t) /\ call[t].key = k /\ ~lot.notified[t]}
      BY Zenon DEF Waiters
    <3>6. (q = <<>> => lot.tail[k] = {}) /\ (q # <<>> => lot.tail[k] = {q[Len(q)]})
      BY <3>2, <3>3, SMTT(30) DEF Links
    <3>7. ASSUME NEW i \in 1..Len(q)
          PROVE  (i = 1 => lot.prev[q[i]] = {}) /\ (i # 1 => lot.prev[q[i]] = {q[i - 1]})
      <4>1. i > 1 => lot.prev[q[i]] = {q[i - 1]}
        BY <3>2, Zenon DEF Links
      <4>2. i = 1 => lot.prev[q[i]] = {}
        BY <3>2, <3>3, SMTT(30) DEF Links
      <4> QED
        BY <4>1, <4>2, SMTT(30)
    <3> QED
      BY <3>2, <3>3, <3>4, <3>5, <3>6, <3>7, Zenon DEF Agrees
  <2>3. ASSUME NEW t \in Threads, ~InWait(t) \/ lot.notified[t] PROVE lot.next[t] = {} /\ lot.prev[t] = {}
    <3>1. \A k \in Keys : t \notin On(Queue[k])
      BY <2>3, NotQueued
    <3> QED
      BY <2>1, <3>1, Zenon DEF Queues
  <2> QED
    <3>1. \A k \in Keys : Agrees(QueueOf(lot, k), k)
      BY <2>2
    <3> QED
      BY <2>3, <3>1, Zenon DEF LinksAgree, Agrees
<1>1. GrowInv /\ ParkInv /\ [Next]_vars => GrowInv' /\ ParkInv'
  BY GrowStep, ParkStep
<1>2. Init => GrowInv /\ ParkInv
  BY GrowInit, ParkInit, SMTT(30)
<1> QED
  BY <1>1, <1>2, <1>ParkLinks, PTL, SMTT(30) DEF Spec

-----------------------------------------------------------------------------
(* No wake-up is lost *)

StaleInv == DOMAIN word = Keys /\ NobodySleepsOnAStaleValue

\* Unless a store to an address has not been followed by a notification of all its
\* waiters, whoever sleeps there expects the value that is there: atomic_wait compares
\* the word and enqueues the thread under the lock that notify takes.
THEOREM SharedNobodySleepsOnAStaleValue ==
    Spec => []NobodySleepsOnAStaleValue
\* Every step.
<1>StaleStep. (/\ GrowInv
               /\ ParkInv
               /\ StaleInv
               /\ [Next]_vars)
              => (StaleInv')
  \* A step that neither stores nor notifies, and does not start a wait.
  <2>StaleKept. ASSUME StaleInv, NEW t \in Threads, OthersStay(t), word' = word, stored' = stored,
                       \A u \in Threads \ {t} : lot'.notified[u] <=> lot.notified[u],
                       InWait(t)' => /\ InWait(t) /\ lot'.notified = lot.notified
                                     /\ call'[t].key = call[t].key /\ call'[t].expected = call[t].expected
                PROVE  StaleInv'
    <3> USE <2>StaleKept
    <3>1. ASSUME NEW u \in Threads, InWait(u)', ~lot'.notified[u], call'[u].key \notin stored'
          PROVE  word'[call'[u].key] = call'[u].expected
      <4>1. CASE u = t
        BY <3>1, <4>1, Zenon DEF StaleInv, NobodySleepsOnAStaleValue
      <4>2. CASE u # t
        <5>1. InWait(u) /\ ~lot.notified[u] /\ call'[u] = call[u]
          BY <3>1, <4>2, Zenon DEF OthersStay, InWait
        <5> QED
          BY <3>1, <5>1, Zenon DEF StaleInv, NobodySleepsOnAStaleValue
      <4> QED
        BY <4>1, <4>2, Zenon
    <3> QED
      BY <3>1, Zenon DEF StaleInv, NobodySleepsOnAStaleValue
  \* A store of another value is recorded.
  <2>StaleStore. ASSUME StaleInv, ParkInv, NEW t \in Threads, Store(t)
                 PROVE  StaleInv'
    <3> USE <2>StaleStore
    <3>1. PICK k \in Keys, v \in Values :
            /\ word' = [word EXCEPT ![k] = v] /\ stored' = (IF v = word[k] THEN stored ELSE stored \cup {k})
            /\ UNCHANGED <<lot, pc, call>>
      BY Zenon DEF Store
    <3>2. \A u \in Threads : InWait(u)' <=> InWait(u)
      BY <3>1, Zenon DEF InWait
    <3>3. ASSUME NEW u \in Threads, InWait(u), ~lot.notified[u], call[u].key \notin stored'
          PROVE  word'[call[u].key] = call[u].expected
      <4>1. call[u].key \in Keys /\ call[u].key \notin stored
        BY <3>1, <3>3, Zenon DEF ParkInv
      <4>2. word[call[u].key] = call[u].expected
        BY <3>3, <4>1, Zenon DEF StaleInv, NobodySleepsOnAStaleValue
      <4>3. word'[call[u].key] = word[call[u].key]
        BY <3>1, <3>3, <4>1, Zenon DEF StaleInv
      <4> QED
        BY <4>2, <4>3
    <3>4. DOMAIN word' = Keys
      BY <3>1, SMTT(30) DEF StaleInv
    <3> QED
      BY <3>1, <3>2, <3>3, <3>4, Zenon DEF StaleInv, NobodySleepsOnAStaleValue
  \* A notification that counts less than it was asked for leaves nobody on the address.
  <2>StaleNotify. ASSUME GrowInv, StaleInv, ParkInv, NEW t \in Threads, Notify(t)
                  PROVE  StaleInv'
    <3> USE <2>StaleNotify
    <3>1. PICK k \in Keys, n \in 0..Cardinality(Threads) :
            /\ lot' = NotifyLoop(lot, k, n).lot
            /\ stored' = IF Cardinality(NotifyLoop(lot, k, n).popped) < n THEN stored \ {k} ELSE stored
            /\ UNCHANGED <<word, pc, call>>
      BY Zenon DEF Notify
    <3>2. n \in Nat
      BY SMTT(30)
    <3>3. /\ \A u \in Threads : lot.notified[u] => lot'.notified[u]
          /\ Cardinality(NotifyLoop(lot, k, n).popped) < n => Waiters(k)' = {}
      BY <3>1, <3>2, NotifyFacts, Zenon
    <3>4. \A u \in Threads : InWait(u)' <=> InWait(u)
      BY <3>1, SMTT(30) DEF InWait
    <3>5. ASSUME NEW u \in Threads, InWait(u)', ~lot'.notified[u], call'[u].key \notin stored'
          PROVE  word'[call'[u].key] = call'[u].expected
      <4>1. u \in Waiters(call[u].key)'
        BY <3>1, <3>5, Zenon DEF Waiters
      <4>2. call[u].key \notin stored
        <5>1. Waiters(k)' = {} => call[u].key # k
          BY <3>1, <3>5 DEF Waiters
        <5> QED
          BY <3>1, <3>3, <3>5, <5>1, Zenon
      <4> QED
        BY <3>1, <3>3, <3>4, <3>5, <4>2, Zenon DEF StaleInv, NobodySleepsOnAStaleValue
    <3> QED
      BY <3>1, <3>5, Zenon DEF StaleInv, NobodySleepsOnAStaleValue
  <2>Main. ASSUME GrowInv, ParkInv, StaleInv, [Next]_vars
           PROVE  StaleInv'
    <3> USE <2>Main
    <3>1. CASE UNCHANGED vars
      BY <3>1, Zenon DEF vars, StaleInv, NobodySleepsOnAStaleValue, InWait
    <3>2. ASSUME NEW t \in Threads, Wait(t) PROVE StaleInv'
      <4>1. PICK k \in Keys, e \in Values, d \in Deadlines : Enqueue(t, k, e, d) /\ pc[t] = "idle" /\ word[k] = e
        BY <3>2 DEF Wait
      <4>2. OthersStay(t)
        BY <3>2, OthersStayPut, SMTT(30)
      <4>3. /\ InWait(t)' /\ call'[t].key = k /\ call'[t].expected = e
            /\ \A u \in Threads \ {t} : lot'.notified[u] <=> lot.notified[u]
        BY <4>1, <4>2, EnqueueFacts, Zenon
      <4>4. word' = word /\ stored' = stored
        BY <4>1, SMTT(30) DEF Enqueue
      <4>5. ASSUME NEW u \in Threads \ {t}, InWait(u)', ~lot'.notified[u], call'[u].key \notin stored'
            PROVE  word'[call'[u].key] = call'[u].expected
        <5>1. InWait(u) /\ ~lot.notified[u] /\ call'[u] = call[u]
          BY <4>2, <4>3, <4>5, Zenon DEF OthersStay, InWait
        <5> QED
          BY <4>4, <4>5, <5>1, Zenon DEF StaleInv, NobodySleepsOnAStaleValue
      <4> QED
        BY <4>1, <4>3, <4>4, <4>5, Zenon DEF StaleInv, NobodySleepsOnAStaleValue
    <3>3. ASSUME NEW t \in Threads, WaitReturns(t) PROVE StaleInv'
      <4>1. ~InWait(t)' /\ \A u \in Threads \ {t} : lot'.notified[u] <=> lot.notified[u]
        BY <3>3, WaitReturnsFacts, SMTT(30)
      <4>2. OthersStay(t) /\ word' = word /\ stored' = stored
        BY <3>3, OthersStayPut, Zenon DEF WaitReturns
      <4> QED
        BY <4>1, <4>2, <2>StaleKept, Zenon
    <3>4. ASSUME NEW t \in Threads, Relock(t) PROVE StaleInv'
      <4>1. \A u \in Threads : lot'.notified[u] <=> lot.notified[u]
        BY <3>4, RelockFacts, SMTT(30)
      <4>2. OthersStay(t) /\ word' = word /\ stored' = stored
        BY <3>4, OthersStayPut, Zenon DEF Relock
      <4>3. DOMAIN pc = Threads
        BY SMTT(30) DEF GrowInv
      <4>4. ~InWait(t)' \/ (lot' = lot /\ call' = call)
        BY <3>4, <4>3, ZenonT(30) DEF Relock, Finish, Become, InWait
      <4>5. InWait(t)
        BY <3>4 DEF Relock, InWait
      <4> QED
        BY <4>1, <4>2, <4>4, <4>5, <2>StaleKept, ZenonT(30)
    <3>5. ASSUME NEW t \in Threads, AddrTrap(t) \/ Expire(t) \/ ParkReturns(t) \/ Grow(t) \/ Publish(t) PROVE StaleInv'
      <4>1. OthersStay(t)
        BY <3>5, OthersStayPut
      <4>2. lot' = lot /\ word' = word /\ stored' = stored
        BY <3>5, Zenon DEF AddrTrap, Expire, ParkReturns, Grow, Publish
      <4>3. DOMAIN pc = Threads /\ DOMAIN call = Threads /\ IsCall(call[t])
        BY Zenon DEF GrowInv
      <4>4. CASE AddrTrap(t) \/ ParkReturns(t)
        <5>1. call' = call /\ (InWait(t)' => InWait(t))
          BY <4>4, Zenon DEF AddrTrap, ParkReturns, InWait
        <5> QED
          BY <4>1, <4>2, <5>1, <2>StaleKept, Zenon
      <4>5. CASE Grow(t) \/ Publish(t)
        <5>1. ~InWait(t)'
          BY <4>3, <4>5, Zenon DEF Grow, Publish, Finish, Become, InWait
        <5> QED
          BY <4>1, <4>2, <5>1, <2>StaleKept, Zenon
      <4>6. CASE Expire(t)
        <5>1. pc' = pc /\ call' = [call EXCEPT ![t] = [call[t] EXCEPT !.deadline = "past"]]
          BY <4>6 DEF Expire
        <5>2. call'[t] = [call[t] EXCEPT !.deadline = "past"]
          BY <4>3, <5>1
        <5>3. call'[t].key = call[t].key /\ call'[t].expected = call[t].expected /\ (InWait(t)' => InWait(t))
          BY <4>3, <5>1, <5>2, Zenon DEF IsCall, InWait
        <5> QED
          BY <4>1, <4>2, <5>3, <2>StaleKept, Zenon
      <4> QED
        BY <3>5, <4>4, <4>5, <4>6, Zenon
    <3>6. CASE Next
      BY <3>2, <3>3, <3>4, <3>5, <3>6, <2>StaleStore, <2>StaleNotify, Zenon DEF Next
    <3> QED
      BY <3>1, <3>6, SMTT(30)
  <2> QED
    BY <2>Main, Zenon
<1>1. GrowInv /\ ParkInv /\ StaleInv /\ [Next]_vars => GrowInv' /\ ParkInv' /\ StaleInv'
  BY GrowStep, ParkStep, <1>StaleStep, Zenon
<1>2. Init => GrowInv /\ ParkInv
  BY GrowInit, ParkInit
<1>3. Init => StaleInv
  BY DEF Init, StaleInv, NobodySleepsOnAStaleValue, InWait
<1>4. StaleInv => NobodySleepsOnAStaleValue
  BY DEF StaleInv
<1> QED
  BY <1>1, <1>2, <1>3, <1>4, PTL, SMTT(30) DEF Spec

-----------------------------------------------------------------------------
(* The refinement *)

Ret == {r \in returned : r[2] # "Grown"}

\* The queues linked through the waiters behave as queues in order of arrival, of which a
\* notification takes the first threads; a wait returns Ok exactly when a notification
\* counted it, although its time can run out in between (ParkingSpot::wait and notify
\* implement Futex). It covers any finite set of threads.
THEOREM SharedImplementsFutex ==
    Spec => ImplementsFutex
\* The queues without a thread.
<1>QueuesWithout. \A t \in Threads :
                      (/\ ParkInv)
                      => (/\ ~InWait(t) => [k \in Keys |-> Abstract!Without(Queue[k], t)] = Queue
                          /\ \A k \in Keys : \A i \in 1..Len(Queue[k]) : Queue[k][i] = t =>
                                [j \in Keys |-> Abstract!Without(Queue[j], t)] = [Queue EXCEPT ![k] = Cut(Queue[k], i)])
  \* Removing a thread from a queue that it is not on, and from one that it is on.
  <2>WithoutFacts. ASSUME NEW q \in Seq(Threads), Distinct(q), NEW t
                   PROVE  /\ t \notin On(q) => Abstract!Without(q, t) = q
                          /\ \A i \in 1..Len(q) : q[i] = t => Abstract!Without(q, t) = Cut(q, i)
    <3> USE <2>WithoutFacts
    <3>1. DOMAIN q = 1..Len(q)
      BY SMTT(30)
    <3>2. t \notin On(q) => Abstract!Without(q, t) = q
      BY <3>1 DEF On, Abstract!Without
    <3>3. ASSUME NEW i \in 1..Len(q), q[i] = t PROVE Abstract!Without(q, t) = Cut(q, i)
      <4> DEFINE c == CHOOSE j \in DOMAIN q : q[j] = t
      <4>1. c \in DOMAIN q /\ q[c] = t
        BY <3>1, <3>3
      <4> HIDE DEF c
      <4>2. c = i
        BY <3>1, <3>3, <4>1, Zenon DEF Distinct
      <4>3. Abstract!Without(q, t) = Abstract!Cut(q, c)
        BY <3>1, <3>3, SMTT(30) DEF Abstract!Without, c
      <4> QED
        BY <4>2, <4>3 DEF Abstract!Cut, Cut
    <3> QED
      BY <3>2, <3>3
  <2>Main. ASSUME ParkInv, NEW t \in Threads
           PROVE  /\ ~InWait(t) => [k \in Keys |-> Abstract!Without(Queue[k], t)] = Queue
                  /\ \A k \in Keys : \A i \in 1..Len(Queue[k]) : Queue[k][i] = t =>
                        [j \in Keys |-> Abstract!Without(Queue[j], t)] = [Queue EXCEPT ![k] = Cut(Queue[k], i)]
    <3> USE <2>Main
    <3>1. /\ Queue \in [Keys -> Seq(Threads)] /\ \A k \in Keys : Distinct(Queue[k])
          /\ \A j, k \in Keys : j # k => On(Queue[j]) \cap On(Queue[k]) = {}
      BY Zenon DEF ParkInv, Queues
    <3>2. \A k \in Keys : /\ t \notin On(Queue[k]) => Abstract!Without(Queue[k], t) = Queue[k]
                          /\ \A i \in 1..Len(Queue[k]) : Queue[k][i] = t => Abstract!Without(Queue[k], t) = Cut(Queue[k], i)
      BY <3>1, <2>WithoutFacts, Zenon
    <3>3. ASSUME ~InWait(t) PROVE [k \in Keys |-> Abstract!Without(Queue[k], t)] = Queue
      <4>1. \A k \in Keys : Abstract!Without(Queue[k], t) = Queue[k]
        BY <3>2, <3>3, NotQueued, Zenon
      <4> QED
        BY <3>1, <4>1, Zenon
    <3>4. ASSUME NEW k \in Keys, NEW i \in 1..Len(Queue[k]), Queue[k][i] = t
          PROVE  [j \in Keys |-> Abstract!Without(Queue[j], t)] = [Queue EXCEPT ![k] = Cut(Queue[k], i)]
      <4>1. t \in On(Queue[k])
        BY <3>4, Zenon DEF On
      <4>2. \A j \in Keys \ {k} : t \notin On(Queue[j])
        BY <3>1, <4>1, Zenon
      <4>3. Abstract!Without(Queue[k], t) = Cut(Queue[k], i)
        BY <3>2, <3>4, Zenon
      <4>4. \A j \in Keys \ {k} : Abstract!Without(Queue[j], t) = Queue[j]
        BY <3>2, <4>2
      <4> QED
        BY <3>1, <4>3, <4>4, Zenon
    <3> QED
      BY <3>3, <3>4, Zenon
  <2> QED
    BY <2>Main, Zenon
\* The specification of the futex, in terms of its three variables.
<1>FutexSteps. ASSUME NEW t \in Threads
               PROVE  /\ \A k \in Keys :
                            /\ t \notin Woken /\ \A j \in Keys : t \notin {Queue[j][i] : i \in DOMAIN Queue[j]}
                            /\ Queue' = [Queue EXCEPT ![k] = Append(Queue[k], t)] /\ Ret' = {} /\ Woken' = Woken
                            => Abstract!Wait(t)
                      /\ \A r \in {"Mismatch", "TimedOut", "Trap"}, k \in Keys :
                            /\ t \notin Woken /\ Ret' = {<<t, r, k>>} /\ Woken' = Woken
                            /\ Queue' = [j \in Keys |-> Abstract!Without(Queue[j], t)]
                            => Abstract!Return(t)
                      /\ \A k \in Keys : \A n \in 0..Len(Queue[k]) :
                            /\ Queue' = [Queue EXCEPT ![k] = SubSeq(Queue[k], n + 1, Len(Queue[k]))]
                            /\ Woken' = Woken \cup {Queue[k][i] : i \in 1..n}
                            /\ Ret' = {<<t, "Notified", n>>}
                            => Abstract!Wake(t)
                      /\ \A k \in Keys :
                            t \in Woken /\ Woken' = Woken \ {t} /\ Ret' = {<<t, "Ok", k>>} /\ Queue' = Queue
                            => Abstract!ReturnOk(t)
                      /\ Ret' = {} /\ Queue' = Queue /\ Woken' = Woken => Abstract!Other
                      /\ Ret' = Ret /\ Queue' = Queue /\ Woken' = Woken => UNCHANGED Abstract!vars
  <2>1. ASSUME NEW k \in Keys, t \notin Woken, \A j \in Keys : t \notin {Queue[j][i] : i \in DOMAIN Queue[j]},
               Queue' = [Queue EXCEPT ![k] = Append(Queue[k], t)], Ret' = {}, Woken' = Woken
        PROVE  Abstract!Wait(t)
    <3>1. t \notin Abstract!Waiting
      BY <2>1 DEF Abstract!Waiting, Queue, Woken
    <3> QED
      BY <2>1, <3>1, ZenonT(30) DEF Abstract!Wait, Queue, Woken, Ret
  <2>2. ASSUME NEW r \in {"Mismatch", "TimedOut", "Trap"}, NEW k \in Keys,
               t \notin Woken, Ret' = {<<t, r, k>>}, Woken' = Woken,
               Queue' = [j \in Keys |-> Abstract!Without(Queue[j], t)]
        PROVE  Abstract!Return(t)
    BY <2>2, Zenon DEF Abstract!Return, Queue, Woken, Ret
  <2>3. ASSUME NEW k \in Keys, NEW n \in 0..Len(Queue[k]),
               Queue' = [Queue EXCEPT ![k] = SubSeq(Queue[k], n + 1, Len(Queue[k]))],
               Woken' = Woken \cup {Queue[k][i] : i \in 1..n}, Ret' = {<<t, "Notified", n>>}
        PROVE  Abstract!Wake(t)
    BY <2>3, Zenon DEF Abstract!Wake, Queue, Woken, Ret
  <2>4. ASSUME NEW k \in Keys, t \in Woken, Woken' = Woken \ {t}, Ret' = {<<t, "Ok", k>>}, Queue' = Queue
        PROVE  Abstract!ReturnOk(t)
    BY <2>4, Zenon DEF Abstract!ReturnOk, Queue, Woken, Ret
  <2>5. ASSUME Ret' = {}, Queue' = Queue, Woken' = Woken PROVE Abstract!Other
    BY <2>5, Zenon DEF Abstract!Other, Queue, Woken, Ret
  <2>6. ASSUME Ret' = Ret, Queue' = Queue, Woken' = Woken PROVE UNCHANGED Abstract!vars
    BY <2>6 DEF Abstract!vars, Queue, Woken, Ret
  <2> QED
    BY <2>1, <2>2, <2>3, <2>4, <2>5, <2>6, Zenon
\* What a call returns, growth apart.
<1>RetFacts. /\ returned' = {} => Ret' = {}
             /\ \A t, r, k : returned' = {<<t, r, k>>} => Ret' = IF r = "Grown" THEN {} ELSE {<<t, r, k>>}
  <2>1. returned' = {} => Ret' = {}
    BY DEF Ret
  <2>2. ASSUME NEW t, NEW r, NEW k, returned' = {<<t, r, k>>}
        PROVE  Ret' = IF r = "Grown" THEN {} ELSE {<<t, r, k>>}
    <3>1. <<t, r, k>>[2] = r
      OBVIOUS
    <3>2. Ret' = {x \in {<<t, r, k>>} : x[2] # "Grown"}
      BY <2>2, SMTT(30) DEF Ret
    <3> QED
      BY <3>1, <3>2
  <2> QED
    BY <2>1, <2>2
\* A wait that parks joins the end of its queue.
<1>WaitImplements. ASSUME GrowInv, ParkInv, NEW t \in Threads, Wait(t)
                   PROVE  Abstract!Wait(t)
  <2> USE <1>WaitImplements
  <2>1. PICK k \in Keys, e \in Values, d \in Deadlines : Enqueue(t, k, e, d) /\ pc[t] = "idle"
    BY DEF Wait
  <2>2. OthersStay(t)
    BY OthersStayPut, Zenon
  <2>3. Queue' = [Queue EXCEPT ![k] = Append(Queue[k], t)] /\ Woken' = Woken
    BY <2>1, <2>2, EnqueueFacts, Zenon
  <2>4. ~InWait(t)
    BY <2>1, SMTT(30) DEF InWait
  <2>5. t \notin Woken /\ \A j \in Keys : t \notin On(Queue[j])
    BY <2>4, NotQueued, Zenon DEF Woken
  <2>6. ASSUME NEW j \in Keys PROVE {Queue[j][i] : i \in DOMAIN Queue[j]} = On(Queue[j])
    <3>1. Queue[j] \in Seq(Threads)
      BY Zenon DEF ParkInv, Queues
    <3>2. DOMAIN Queue[j] = 1..Len(Queue[j])
      BY <3>1, SMTT(30)
    <3> QED
      BY <3>2, SMTT(30) DEF On
  <2>7. \A j \in Keys : t \notin {Queue[j][i] : i \in DOMAIN Queue[j]}
    BY <2>5, <2>6
  <2>8. returned' = {}
    BY <2>1 DEF Enqueue
  <2>9. Ret' = {}
    BY <2>8, <1>RetFacts, SMTT(30)
  <2> QED
    BY <2>3, <2>5, <2>7, <2>9, <1>FutexSteps, Zenon
\* A notification is one step that wakes the first threads of the queue.
<1>NotifyImplements. ASSUME GrowInv, ParkInv, NEW t \in Threads, Notify(t)
                     PROVE  Abstract!Wake(t)
  <2> USE <1>NotifyImplements
  <2>1. PICK k \in Keys, n \in 0..Cardinality(Threads) :
          /\ lot' = NotifyLoop(lot, k, n).lot /\ pc' = pc /\ call' = call
          /\ returned' = {<<t, "Notified", Cardinality(NotifyLoop(lot, k, n).popped)>>}
    BY DEF Notify
  <2>2. n \in Nat
    BY SMTT(30)
  <2>3. PICK m \in 0..Len(Queue[k]) :
          /\ Queue' = [Queue EXCEPT ![k] = Drop(Queue[k], m)]
          /\ Woken' = Woken \cup First(Queue[k], m)
          /\ Cardinality(NotifyLoop(lot, k, n).popped) = m
    BY <2>1, <2>2, NotifyFacts, Zenon
  <2>4. Queue[k] \in Seq(Threads)
    BY Zenon DEF ParkInv, Queues
  <2> DEFINE q == Queue[k]
  <2>5. SubSeq(q, m + 1, Len(q)) = Drop(q, m)
    <3>1. q \in Seq(Threads) /\ Len(q) \in Nat /\ m \in Nat /\ m <= Len(q)
      BY <2>4
    <3> HIDE DEF q
    <3>2. SubSeq(q, m + 1, Len(q)) = [i \in 1..(Len(q) - (m + 1) + 1) |-> q[(m + 1) + i - 1]]
      BY <3>1
    <3>3. Len(q) - (m + 1) + 1 = Len(q) - m /\ \A i \in Nat : (m + 1) + i - 1 = i + m
      BY <3>1, SMTT(30)
    <3> QED
      BY <3>2, <3>3, SMTT(30) DEF Drop
  <2>6. First(q, m) = {q[i] : i \in 1..m}
    BY Zenon DEF First
  <2>7. Ret' = {<<t, "Notified", m>>}
    BY <2>1, <2>3, <1>RetFacts, Zenon
  <2> QED
    BY <2>3, <2>5, <2>6, <2>7, <1>FutexSteps, ZenonT(30)
\* A wait that is answered at once leaves the queues as they are.
<1>WaitReturnsImplements. ASSUME GrowInv, ParkInv, NEW t \in Threads, WaitReturns(t)
                          PROVE  Abstract!Return(t)
  <2> USE <1>WaitReturnsImplements
  <2>1. PICK r \in {"Mismatch", "TimedOut"}, k \in Keys : returned' = {<<t, r, k>>}
    BY WaitReturnsFacts, Zenon
  <2>2. Queue' = Queue /\ Woken' = Woken /\ ~InWait(t)
    BY WaitReturnsFacts, Zenon
  <2>3. t \notin Woken
    BY <2>2, Zenon DEF Woken
  <2>4. Queue' = [j \in Keys |-> Abstract!Without(Queue[j], t)]
    BY <2>2, <1>QueuesWithout, Zenon
  <2>5. Ret' = {<<t, r, k>>} /\ r \in {"Mismatch", "TimedOut", "Trap"}
    BY <2>1, <1>RetFacts, SMTT(30)
  <2> QED
    BY <2>2, <2>3, <2>4, <2>5, <1>FutexSteps, Zenon
\* A wait that looks at its flag and its deadline returns as Futex says, or parks again.
<1>RelockImplements. ASSUME GrowInv, ParkInv, NEW t \in Threads, Relock(t)
                     PROVE  Abstract!ReturnOk(t) \/ Abstract!Return(t) \/ Abstract!Other
  <2> USE <1>RelockImplements
  <2>1. CASE /\ t \in Woken /\ Queue' = Queue /\ Woken' = Woken \ {t}
             /\ \E k \in Keys : returned' = {<<t, "Ok", k>>}
    <3>1. PICK k \in Keys : returned' = {<<t, "Ok", k>>}
      BY <2>1
    <3>2. Ret' = {<<t, "Ok", k>>}
      BY <3>1, <1>RetFacts, Zenon
    <3> QED
      BY <2>1, <3>2, <1>FutexSteps, Zenon
  <2>2. CASE /\ t \notin Woken /\ Woken' = Woken
             /\ \E k \in Keys : /\ returned' = {<<t, "TimedOut", k>>}
                                /\ \E i \in 1..Len(Queue[k]) :
                                      /\ Queue[k][i] = t
                                      /\ Queue' = [Queue EXCEPT ![k] = Cut(Queue[k], i)]
    <3>1. PICK k \in Keys : /\ returned' = {<<t, "TimedOut", k>>}
                            /\ \E i \in 1..Len(Queue[k]) :
                                  Queue[k][i] = t /\ Queue' = [Queue EXCEPT ![k] = Cut(Queue[k], i)]
      BY <2>2, Zenon
    <3>2. Queue' = [j \in Keys |-> Abstract!Without(Queue[j], t)]
      <4>1. PICK i \in 1..Len(Queue[k]) : Queue[k][i] = t /\ Queue' = [Queue EXCEPT ![k] = Cut(Queue[k], i)]
        BY <3>1, Zenon
      <4>2. [j \in Keys |-> Abstract!Without(Queue[j], t)] = [Queue EXCEPT ![k] = Cut(Queue[k], i)]
        BY <4>1, <1>QueuesWithout, Zenon
      <4> QED
        BY <4>1, <4>2
    <3>3. Ret' = {<<t, "TimedOut", k>>}
      BY <3>1, <1>RetFacts, Zenon
    <3> QED
      BY <2>2, <3>2, <3>3, <1>FutexSteps, Zenon
  <2>3. CASE Queue' = Queue /\ Woken' = Woken /\ returned' = {}
    <3>1. Ret' = {}
      BY <2>3, <1>RetFacts, SMTT(30)
    <3> QED
      BY <2>3, <3>1, <1>FutexSteps, Zenon
  <2> QED
    BY <2>1, <2>2, <2>3, RelockFacts, Zenon
\* The steps that leave the table alone.
<1>QuietImplements. ASSUME GrowInv, ParkInv, NEW t \in Threads,
                           \/ Store(t) \/ AddrTrap(t) \/ Expire(t) \/ ParkReturns(t) \/ Grow(t) \/ Publish(t)
                    PROVE  Abstract!Return(t) \/ Abstract!Other
  <2> USE <1>QuietImplements
  <2>1. Queue' = Queue /\ Woken' = Woken
    BY QuietSteps, SMTT(30)
  <2>2. CASE AddrTrap(t)
    <3>1. PICK k \in Keys : returned' = {<<t, "Trap", k>>} /\ pc[t] = "idle"
      BY <2>2 DEF AddrTrap
    <3>2. ~InWait(t)
      BY <3>1 DEF InWait
    <3>3. t \notin Woken
      BY <3>2, SMTT(30) DEF Woken
    <3>4. Queue' = [j \in Keys |-> Abstract!Without(Queue[j], t)]
      BY <2>1, <3>2, <1>QueuesWithout, SMTT(30)
    <3>5. Ret' = {<<t, "Trap", k>>}
      BY <3>1, <1>RetFacts, SMTT(30)
    <3> QED
      BY <2>1, <3>3, <3>4, <3>5, <1>FutexSteps, Zenon
  <2>3. CASE Store(t) \/ Expire(t) \/ ParkReturns(t) \/ Grow(t) \/ Publish(t)
    <3>1. returned' = {} \/ \E k : returned' = {<<t, "Grown", k>>}
      BY <2>3, Zenon DEF Store, Expire, ParkReturns, Grow, Publish, Finish
    <3>2. Ret' = {}
      BY <3>1, <1>RetFacts
    <3> QED
      BY <2>1, <3>2, <1>FutexSteps, Zenon
  <2> QED
    BY <2>2, <2>3, Zenon
<1>1. Init => Abstract!Init
  <2> SUFFICES ASSUME Init PROVE Abstract!Init
    OBVIOUS
  <2>1. Queue = [k \in Keys |-> <<>>]
    BY ParkInit, Zenon
  <2>2. Woken = {}
    BY Zenon DEF Init, Woken, InWait
  <2>3. Ret = {}
    BY Zenon DEF Init, Ret
  <2> QED
    BY <2>1, <2>2, <2>3, Zenon DEF Abstract!Init, Queue, Woken, Ret
<1>2. GrowInv /\ ParkInv /\ [Next]_vars => GrowInv' /\ ParkInv'
  BY GrowStep, ParkStep
<1>3. Init => GrowInv /\ ParkInv
  BY GrowInit, ParkInit
<1>4. GrowInv /\ ParkInv /\ [Next]_vars => [Abstract!Next]_Abstract!vars
  <2> SUFFICES ASSUME GrowInv, ParkInv, [Next]_vars PROVE Abstract!Next \/ UNCHANGED Abstract!vars
    BY Zenon
  <2>1. CASE UNCHANGED vars
    BY <2>1 DEF vars, Abstract!vars, InWait
  <2>2. ASSUME NEW t \in Threads,
               \/ Store(t) \/ AddrTrap(t) \/ Wait(t) \/ WaitReturns(t) \/ Expire(t)
               \/ ParkReturns(t) \/ Relock(t) \/ Notify(t) \/ Grow(t) \/ Publish(t)
        PROVE  Abstract!Next
    <3>1. Abstract!Wait(t) \/ Abstract!Return(t) \/ Abstract!Wake(t) \/ Abstract!ReturnOk(t) \/ Abstract!Other
      BY <2>2, <1>WaitImplements, <1>NotifyImplements, <1>WaitReturnsImplements, <1>RelockImplements, <1>QuietImplements, Zenon
    <3> QED
      BY <3>1, SMTT(30) DEF Abstract!Next
  <2> QED
    BY <2>1, <2>2 DEF Next
<1> QED
  BY <1>1, <1>2, <1>3, <1>4, PTL DEF Spec, ImplementsFutex, Abstract!Spec

=============================================================================
