----------------------- MODULE BenchmarkTrackerProofs -----------------------
(***************************************************************************)
(* Proofs about BenchmarkTracker, for every set of names and all bounds.   *)
(*                                                                         *)
(* The safety properties are not inductive as they stand. That a phase     *)
(* stays within the total needs two more facts: the time of all completed  *)
(* operations (`timed`) ends no later than the operation being timed began *)
(* and every entry of phase_metrics was at most `timed` when it was        *)
(* pushed. IndInv adds them.                                               *)
(*                                                                         *)
(* TimeOf and PrintedPhases are recursions over a list. What they compute  *)
(* is proved without an induction rule: the least index at which a claim   *)
(* fails (lemma Least) is not the first one, and the claim holds just      *)
(* before it.                                                              *)
(***************************************************************************)
EXTENDS BenchmarkTracker, WellFoundedInduction, TLAPS

\* What Metrics::current returns at an instant up to now.
Sampled(m) ==
    /\ m \in Metrics
    /\ m.timestamp <= now
    /\ m.user_time = 1 /\ m.system_time = 1 /\ m.max_rss = 0

\* Operations are timed one after the other from the tracker's creation on.
Disjoint ==
    /\ timed + start_metrics.timestamp <= now
    /\ \A m \in current_operation : timed + start_metrics.timestamp <= m.timestamp

EndedWithinTimed ==
    \A i \in DOMAIN phase_metrics : phase_metrics[i][2].wall_clock_time <= timed

IndInv ==
    /\ TypeOK
    /\ Sampled(start_metrics)
    /\ \A m \in current_operation : Sampled(m)
    /\ Disjoint
    /\ PhaseCountsItsOperations
    /\ \A p \in DOMAIN active_phases : phase_base[p] <= timed
    /\ EndedWithinTimed
    /\ PhaseOrderListsStarted

-----------------------------------------------------------------------------
\* The CPU percentage that diff and combine compute is a natural number.
LEMMA CpuUsageType ==
    ASSUME NEW c \in Nat, NEW w \in Nat
    PROVE  CpuUsage(c, w) \in Nat
<1>1. c * 100 \in Nat
  OBVIOUS
<1>2. ASSUME NEW k \in Nat, w > 0 PROVE k \div w \in Nat
  BY <1>2
<1> QED
  BY <1>1, <1>2 DEF CpuUsage

\* Metrics::current samples the clock.
LEMMA CurrentType ==
    ASSUME NEW name \in OpNames \cup PhaseNames \cup {"Total"}, now \in Nat
    PROVE  Sampled(Current(name))
BY DEF Sampled, Current, Metrics

\* The difference of two samples is a Metrics whose time is the time between them:
\* no subtraction of Metrics::diff underflows.
LEMMA DiffType ==
    ASSUME NEW a, NEW b, now \in Nat, Sampled(a), Sampled(b), b.timestamp <= a.timestamp
    PROVE  /\ Diff(a, b) \in Metrics
           /\ Diff(a, b).wall_clock_time = a.timestamp - b.timestamp
<1> DEFINE w == a.timestamp - b.timestamp
<1>1. w \in Nat
  BY DEF Sampled, Metrics
<1>2. CpuUsage(0, w) \in Nat
  BY <1>1, CpuUsageType
<1> QED
  BY <1>1, <1>2 DEF Diff, Sampled, Metrics

\* Metrics::combine adds the times.
LEMMA CombineType ==
    ASSUME NEW a \in Metrics, NEW b \in Metrics
    PROVE  /\ Combine(a, b) \in Metrics
           /\ Combine(a, b).wall_clock_time = a.wall_clock_time + b.wall_clock_time
<1> DEFINE w == a.wall_clock_time + b.wall_clock_time
           u == a.user_time + b.user_time
           s == a.system_time + b.system_time
           c == CpuUsage(u + s, w)
<1>1. w \in Nat /\ u \in Nat /\ s \in Nat
  BY DEF Metrics
<1>2. u + s \in Nat
  BY <1>1
<1>3. c \in Nat
  <2> HIDE DEF w, u, s
  <2> QED  BY <1>1, <1>2, CpuUsageType
<1> QED
  BY <1>1, <1>3 DEF Combine, Metrics

-----------------------------------------------------------------------------
\* The invariant holds when `new` returns.
LEMMA InitIndInv == Init => IndInv
<1> SUFFICES ASSUME Init PROVE IndInv
  OBVIOUS
<1>1. now = 0 /\ now \in Nat
  BY DEF Init
<1>2. Sampled(start_metrics)
  BY <1>1, CurrentType DEF Init
<1>3. start_metrics.timestamp = 0
  BY <1>1 DEF Init, Current
<1> QED
  BY <1>1, <1>2, <1>3 DEF Init, IndInv, TypeOK, Sampled, Disjoint, EmptyMap,
     PhaseCountsItsOperations, EndedWithinTimed, PhaseOrderListsStarted

\* start_operation keeps the invariant.
LEMMA StartOperationIndInv ==
    ASSUME IndInv, NEW name \in OpNames, start_operation(name)
    PROVE  IndInv'
<1>1. Sampled(Current(name)) /\ Current(name).timestamp = now
  BY CurrentType DEF IndInv, TypeOK, Current
<1>2. \A m : Sampled(m) => Sampled(m)'
  BY DEF Sampled, start_operation
<1>3. TypeOK'
  BY <1>1 DEF IndInv, TypeOK, start_operation, Sampled
<1>4. Disjoint'
  BY <1>1 DEF IndInv, Disjoint, start_operation
<1> QED
  BY <1>1, <1>3, <1>4 DEF IndInv, start_operation, Sampled, PhaseCountsItsOperations,
     EndedWithinTimed, PhaseOrderListsStarted

\* finish_operation keeps the invariant, with an operation being timed or without.
LEMMA FinishOperationIndInv ==
    ASSUME IndInv, finish_operation
    PROVE  IndInv'
<1>1. CASE current_operation = {}
  <2>1. UNCHANGED vars
    BY <1>1 DEF finish_operation, vars, tracker
  <2> QED
    BY <2>1 DEF IndInv, TypeOK, Sampled, Disjoint, PhaseCountsItsOperations,
       EndedWithinTimed, PhaseOrderListsStarted, vars, tracker
<1>2. CASE current_operation # {}
  <2>1. PICK start \in current_operation : finish_operation_internal(start)
    BY <1>2 DEF finish_operation
  <2> DEFINE diff == Diff(Current(start.name), start)
  <2>2. Sampled(start) /\ now \in Nat
    BY DEF IndInv, TypeOK
  <2>3. /\ Sampled(Current(start.name))
        /\ Current(start.name).timestamp = now
    BY <2>2, CurrentType DEF Sampled, Metrics, Current
  <2>4. diff \in Metrics /\ diff.wall_clock_time = now - start.timestamp
    BY <2>2, <2>3, DiffType DEF Sampled
  <2>5. /\ completed_metrics' = Append(completed_metrics, diff)
        /\ active_phases' = [p \in DOMAIN active_phases |->
                                Combine(active_phases[p], diff)]
        /\ timed' = timed + diff.wall_clock_time
        /\ current_operation' = {}
        /\ UNCHANGED <<now, start_metrics, phase_metrics, phase_order, phase_base>>
    BY <2>1 DEF finish_operation, finish_operation_internal
  <2>6. start.timestamp \in Nat /\ start.timestamp <= now
    BY <2>2 DEF Sampled, Metrics
  <2> HIDE DEF diff
  <2>7. diff.wall_clock_time \in Nat
    BY <2>4 DEF Metrics
  <2>8. \A p \in DOMAIN active_phases :
          /\ active_phases'[p] \in Metrics
          /\ active_phases'[p].wall_clock_time
                = active_phases[p].wall_clock_time + diff.wall_clock_time
    BY <2>4, <2>5, CombineType DEF IndInv, TypeOK
  <2>9. DOMAIN active_phases' = DOMAIN active_phases
    BY <2>5
  <2>10. timed' \in Nat /\ timed <= timed'
    BY <2>5, <2>7 DEF IndInv, TypeOK
  <2>11. TypeOK'
    BY <2>4, <2>5, <2>8, <2>9, <2>10 DEF IndInv, TypeOK
  <2>12. Disjoint'
    <3>1. start_metrics.timestamp \in Nat /\ timed \in Nat /\ now \in Nat
      BY DEF IndInv, TypeOK, Metrics
    <3>2. timed + start_metrics.timestamp <= start.timestamp
      BY DEF IndInv, Disjoint
    <3>3. timed' + start_metrics'.timestamp <= now'
      BY <2>4, <2>5, <2>6, <3>1, <3>2, SMTT(30)
    <3> QED
      BY <2>5, <3>3 DEF Disjoint
  <2>13. PhaseCountsItsOperations'
    <3> SUFFICES ASSUME NEW p \in DOMAIN active_phases
                 PROVE  active_phases'[p].wall_clock_time = timed' - phase_base[p]
      BY <2>5, <2>9 DEF PhaseCountsItsOperations
    <3>1. active_phases[p].wall_clock_time = timed - phase_base[p]
      BY DEF IndInv, PhaseCountsItsOperations
    <3>2. timed \in Nat /\ phase_base[p] \in Nat
      BY DEF IndInv, TypeOK
    <3> QED
      BY <2>5, <2>7, <2>8, <3>1, <3>2, SMTT(30)
  <2>14. \A p \in DOMAIN active_phases' : phase_base'[p] <= timed'
    BY <2>5, <2>9, <2>10 DEF IndInv, TypeOK
  <2>15. EndedWithinTimed'
    <3> SUFFICES ASSUME NEW i \in DOMAIN phase_metrics
                 PROVE  phase_metrics[i][2].wall_clock_time <= timed'
      BY <2>5 DEF EndedWithinTimed
    <3>1. phase_metrics[i] \in PhaseNames \X Metrics
      BY DEF IndInv, TypeOK
    <3>2. phase_metrics[i][2].wall_clock_time \in Nat
      BY <3>1 DEF Metrics
    <3> QED
      BY <2>10, <3>2 DEF IndInv, TypeOK, EndedWithinTimed
  <2>16. PhaseOrderListsStarted'
    BY <2>5, <2>9 DEF IndInv, PhaseOrderListsStarted, Contains
  <2>17. Sampled(start_metrics)' /\ \A m \in current_operation' : Sampled(m)'
    BY <2>5 DEF IndInv, Sampled
  <2> QED
    BY <2>11, <2>12, <2>13, <2>14, <2>15, <2>16, <2>17, SMTT(30) DEF IndInv
<1> QED
  BY <1>1, <1>2

\* start_phase keeps the invariant, whether or not the phase is already active.
LEMMA StartPhaseIndInv ==
    ASSUME IndInv, NEW p \in PhaseNames, start_phase(p)
    PROVE  IndInv'
<1>1. Zero(p) \in Metrics /\ Zero(p).wall_clock_time = 0
  BY DEF IndInv, TypeOK, Zero, Metrics
<1>2. /\ DOMAIN active_phases' = DOMAIN active_phases \cup {p}
      /\ active_phases'[p] = Zero(p)
      /\ phase_base'[p] = timed
      /\ \A q \in DOMAIN active_phases : q # p =>
            active_phases'[q] = active_phases[q] /\ phase_base'[q] = phase_base[q]
  BY DEF start_phase, Insert, IndInv, TypeOK
<1>3. TypeOK'
  <2>1. active_phases' \in [DOMAIN active_phases' -> Metrics]
    BY <1>1 DEF start_phase, Insert, IndInv, TypeOK
  <2>2. phase_base' \in [DOMAIN active_phases' -> Nat]
    BY <1>2 DEF start_phase, Insert, IndInv, TypeOK
  <2>3. phase_order' \in Seq(PhaseNames)
    BY DEF start_phase, IndInv, TypeOK
  <2> QED
    BY <1>2, <2>1, <2>2, <2>3 DEF start_phase, IndInv, TypeOK
<1>4. PhaseCountsItsOperations' /\ \A q \in DOMAIN active_phases' : phase_base'[q] <= timed'
  BY <1>1, <1>2 DEF start_phase, IndInv, TypeOK, PhaseCountsItsOperations
<1>5. PhaseOrderListsStarted'
  <2>1. Len(phase_order) \in Nat /\ DOMAIN phase_order = 1..Len(phase_order)
    BY DEF IndInv, TypeOK
  <2>2. CASE Contains(phase_order, p)
    BY <1>2, <2>2 DEF start_phase, IndInv, PhaseOrderListsStarted, Contains
  <2>3. CASE ~Contains(phase_order, p)
    <3>1. /\ Len(phase_order') = Len(phase_order) + 1
          /\ phase_order'[Len(phase_order) + 1] = p
          /\ \A i \in 1..Len(phase_order) : phase_order'[i] = phase_order[i]
          /\ DOMAIN phase_order' = 1..(Len(phase_order) + 1)
      BY <2>3 DEF start_phase, IndInv, TypeOK
    <3>2. \A i \in 1..Len(phase_order) : phase_order[i] # p
      BY <2>3 DEF Contains
    <3>3. \A q : Contains(phase_order, q) => Contains(phase_order', q)
      BY <2>1, <3>1 DEF Contains
    <3>4. Contains(phase_order', p)
      BY <2>1, <3>1 DEF Contains
    <3>5. \A i, j \in DOMAIN phase_order' : phase_order'[i] = phase_order'[j] => i = j
      BY <2>1, <3>1, <3>2 DEF IndInv, PhaseOrderListsStarted
    <3> QED
      BY <1>2, <3>3, <3>4, <3>5 DEF start_phase, IndInv, PhaseOrderListsStarted
  <2> QED
    BY <2>2, <2>3
<1> QED
  BY <1>3, <1>4, <1>5 DEF start_phase, IndInv, Sampled, Disjoint, EndedWithinTimed

\* end_phase keeps the invariant, whether or not the phase is active.
LEMMA EndPhaseIndInv ==
    ASSUME IndInv, NEW p \in PhaseNames, end_phase(p)
    PROVE  IndInv'
<1>1. /\ DOMAIN active_phases' = DOMAIN active_phases \ {p}
      /\ \A q \in DOMAIN active_phases' :
            active_phases'[q] = active_phases[q] /\ phase_base'[q] = phase_base[q]
  BY DEF end_phase, RemoveKey, IndInv, TypeOK
<1>2. /\ active_phases' \in [DOMAIN active_phases' -> Metrics]
      /\ phase_base' \in [DOMAIN active_phases' -> Nat]
  BY <1>1 DEF end_phase, RemoveKey, IndInv, TypeOK
<1>3. phase_metrics' \in Seq(PhaseNames \X Metrics)
  <2>1. ASSUME p \in DOMAIN active_phases
        PROVE  <<p, active_phases[p]>> \in PhaseNames \X Metrics
    BY <2>1 DEF IndInv, TypeOK
  <2>2. ASSUME NEW e \in PhaseNames \X Metrics
        PROVE  Append(phase_metrics, e) \in Seq(PhaseNames \X Metrics)
    BY DEF IndInv, TypeOK
  <2> QED
    BY <2>1, <2>2, Zenon DEF end_phase, IndInv, TypeOK
<1>4. TypeOK'
  BY <1>1, <1>2, <1>3 DEF end_phase, IndInv, TypeOK
<1>5. EndedWithinTimed' /\ PhaseOrderListsStarted'
  <2>1. CASE p \notin DOMAIN active_phases
    BY <1>1, <2>1 DEF end_phase, IndInv, EndedWithinTimed, PhaseOrderListsStarted
  <2>2. CASE p \in DOMAIN active_phases
    <3>1. /\ DOMAIN phase_metrics' = DOMAIN phase_metrics \cup {Len(phase_metrics) + 1}
          /\ phase_metrics'[Len(phase_metrics) + 1] = <<p, active_phases[p]>>
          /\ \A i \in DOMAIN phase_metrics : phase_metrics'[i] = phase_metrics[i]
      <4> DEFINE e == <<p, active_phases[p]>>
      <4>1. e \in PhaseNames \X Metrics
        BY <2>2 DEF IndInv, TypeOK
      <4>2. phase_metrics' = Append(phase_metrics, e)
        BY <2>2 DEF end_phase
      <4> HIDE DEF e
      <4>3. Len(phase_metrics) \in Nat
        BY DEF IndInv, TypeOK
      <4>4. /\ DOMAIN phase_metrics' = DOMAIN phase_metrics \cup {Len(phase_metrics) + 1}
            /\ phase_metrics'[Len(phase_metrics) + 1] = e
            /\ \A i \in DOMAIN phase_metrics : phase_metrics'[i] = phase_metrics[i]
        BY <4>1, <4>2, <4>3 DEF IndInv, TypeOK
      <4> QED  BY <4>4 DEF e
    <3>2. active_phases[p].wall_clock_time <= timed
      BY <2>2 DEF IndInv, TypeOK, PhaseCountsItsOperations
    <3>3. EndedWithinTimed'
      BY <3>1, <3>2 DEF end_phase, IndInv, EndedWithinTimed
    <3>4. PhaseOrderListsStarted'
      BY <1>1, <2>2, <3>1 DEF end_phase, IndInv, PhaseOrderListsStarted
    <3> QED
      BY <3>3, <3>4
  <2> QED
    BY <2>1, <2>2
<1>6. PhaseCountsItsOperations' /\ \A q \in DOMAIN active_phases' : phase_base'[q] <= timed'
  BY <1>1 DEF end_phase, IndInv, PhaseCountsItsOperations
<1> QED
  BY <1>4, <1>5, <1>6 DEF end_phase, IndInv, Sampled, Disjoint

\* Time passing keeps the invariant.
LEMMA TickIndInv ==
    ASSUME IndInv, Tick
    PROVE  IndInv'
<1>1. now \in Nat /\ now' = now + 1 /\ UNCHANGED tracker
  BY DEF IndInv, TypeOK, Tick
<1>2. TypeOK'
  BY <1>1 DEF IndInv, TypeOK, tracker
<1>3. Sampled(start_metrics)' /\ \A m \in current_operation' : Sampled(m)'
  BY <1>1 DEF IndInv, Sampled, tracker, Metrics
<1>4. Disjoint'
  BY <1>1 DEF IndInv, Disjoint, tracker, Sampled, Metrics, TypeOK
<1> QED
  BY <1>1, <1>2, <1>3, <1>4 DEF IndInv, PhaseCountsItsOperations, EndedWithinTimed,
     PhaseOrderListsStarted, tracker

-----------------------------------------------------------------------------
\* IndInv is an invariant: every method keeps it.
THEOREM TrackerIndInv == Spec => []IndInv
<1>1. ASSUME IndInv, [Next]_vars PROVE IndInv'
  <2>1. ASSUME NEW name \in OpNames, start_operation(name) PROVE IndInv'
    BY <1>1, <2>1, StartOperationIndInv
  <2>2. ASSUME finish_operation PROVE IndInv'
    BY <1>1, <2>2, FinishOperationIndInv, SMTT(30)
  <2>3. ASSUME NEW p \in PhaseNames, start_phase(p) PROVE IndInv'
    BY <1>1, <2>3, StartPhaseIndInv
  <2>4. ASSUME NEW p \in PhaseNames, end_phase(p) PROVE IndInv'
    BY <1>1, <2>4, EndPhaseIndInv
  <2>5. CASE Tick
    BY <1>1, <2>5, TickIndInv
  <2>6. CASE UNCHANGED vars
    BY <1>1, <2>6 DEF IndInv, TypeOK, Sampled, Disjoint, PhaseCountsItsOperations,
       EndedWithinTimed, PhaseOrderListsStarted, vars, tracker
  <2> QED
    BY <1>1, <2>1, <2>2, <2>3, <2>4, <2>5, <2>6, SMTT(30) DEF Next
<1> QED
  BY InitIndInv, <1>1, PTL DEF Spec

\* The tracker's type invariant: in particular Metrics::diff never panics on a
\* Duration that would be negative.
THEOREM TrackerTypeOK == Spec => []TypeOK
BY TrackerIndInv, PTL DEF IndInv

\* A phase's time is that of the operations that finished since its start_phase.
THEOREM TrackerPhaseCounts == Spec => []PhaseCountsItsOperations
BY TrackerIndInv, PTL DEF IndInv

\* phase_order lists every phase that was started, each once.
THEOREM TrackerPhaseOrder == Spec => []PhaseOrderListsStarted
BY TrackerIndInv, PTL DEF IndInv

\* No phase is ever charged more than the total that print_all_metrics prints.
THEOREM TrackerPhaseWithinTotal == Spec => []PhaseWithinTotal
<1>1. ASSUME IndInv PROVE PhaseWithinTotal
  <2>1. now \in Nat /\ Sampled(start_metrics)
    BY <1>1 DEF IndInv, TypeOK
  <2>2. Sampled(Current("Total")) /\ Current("Total").timestamp = now
    BY <2>1, CurrentType DEF Current
  <2>3. get_total_metrics.wall_clock_time = now - start_metrics.timestamp
    BY <2>1, <2>2, DiffType, SMTT(30) DEF get_total_metrics, Sampled
  <2>4. timed \in Nat /\ timed <= now - start_metrics.timestamp
    BY <1>1, <2>1 DEF IndInv, TypeOK, Disjoint, Sampled, Metrics
  <2>5. ASSUME NEW p \in DOMAIN active_phases
        PROVE  active_phases[p].wall_clock_time <= timed
    BY <1>1 DEF IndInv, TypeOK, PhaseCountsItsOperations
  <2>6. ASSUME NEW i \in DOMAIN phase_metrics
        PROVE  /\ phase_metrics[i][2].wall_clock_time <= timed
               /\ phase_metrics[i][2].wall_clock_time \in Nat
    <3>1. phase_metrics[i] \in PhaseNames \X Metrics
      BY <1>1 DEF IndInv, TypeOK
    <3>2. phase_metrics[i][2] \in Metrics
      BY <3>1
    <3> QED
      BY <1>1, <3>2 DEF IndInv, EndedWithinTimed, Metrics
  <2>7. ASSUME NEW p \in DOMAIN active_phases
        PROVE  active_phases[p].wall_clock_time \in Nat
    BY <1>1 DEF IndInv, TypeOK, Metrics
  <2>8. start_metrics.timestamp \in Nat
    BY <2>1 DEF Sampled, Metrics
  <2> QED
    BY <2>1, <2>3, <2>4, <2>5, <2>6, <2>7, <2>8, SMTT(30) DEF PhaseWithinTotal
<1> QED
  BY TrackerIndInv, <1>1, PTL, SMTT(30)

-----------------------------------------------------------------------------
(* The sum of the times *)

\* The least element of a set of numbers: the form in which the proofs use induction.
LEMMA Least ==
    ASSUME NEW S \in SUBSET Nat, S # {}
    PROVE  \E n \in S : \A m \in S : n <= m
<1> DEFINE R == {ss \in Nat \X Nat : ss[1] < ss[2]}
<1>1. IsWellFoundedOn(R, Nat)
  BY NatLessThanWellFounded DEF OpToRel
<1>2. \E x \in S : \A y \in S : ~(<<y, x>> \in R)
  <2> HIDE DEF R
  <2> QED
    BY <1>1, WFMin, Zenon
<1>3. PICK x \in S : \A y \in S : ~(<<y, x>> \in R)
  BY <1>2
<1>4. \A y \in S : ~(y < x)
  BY <1>3, Zenon
<1>5. x \in Nat /\ \A y \in S : y \in Nat
  OBVIOUS
<1> QED
  BY <1>4, <1>5

\* f holds the sums of the first 0, 1, ..., n times of ms.
Sums(f, ms, n) == [i \in 0..n |-> IF i = 0 THEN 0 ELSE f[i - 1] + ms[i].wall_clock_time]

\* TimeOf is a recursion over the sequence.
LEMMA TimeOfIs ==
    ASSUME NEW ms
    PROVE  TimeOf(ms) = (CHOOSE f : f = Sums(f, ms, Len(ms)))[Len(ms)]
BY DEF TimeOf, Sums

\* The recursion has a solution.
LEMMA SumsExist ==
    ASSUME NEW ms, NEW n \in Nat
    PROVE  \E f : f = Sums(f, ms, n)
<1> DEFINE S == {m \in Nat : ~\E f : f = Sums(f, ms, m)}
<1> SUFFICES ASSUME S # {} PROVE FALSE
  OBVIOUS
<1>1. PICK m \in S : \A j \in S : m <= j
  <2>1. S \in SUBSET Nat
    OBVIOUS
  <2> HIDE DEF S
  <2> QED
    BY <2>1, Least
<1>2. CASE m = 0
  <2> DEFINE g == [i \in 0..0 |-> 0]
  <2>1. g = Sums(g, ms, 0)
    BY DEF Sums
  <2> QED
    BY <1>2, <2>1
<1>3. CASE m # 0
  <2>1. m \in Nat /\ m - 1 \in Nat /\ m - 1 \notin S
    BY <1>1, <1>3
  <2>2. PICK f : f = Sums(f, ms, m - 1)
    BY <2>1
  <2> DEFINE g == [i \in 0..m |-> IF i = m THEN f[m - 1] + ms[m].wall_clock_time ELSE f[i]]
  <2>3. \A i \in 0..(m - 1) : f[i] = IF i = 0 THEN 0 ELSE f[i - 1] + ms[i].wall_clock_time
    BY <2>2 DEF Sums
  <2>4. g[m] = f[m - 1] + ms[m].wall_clock_time /\ \A i \in 0..(m - 1) : g[i] = f[i]
    BY <2>1
  <2>5. ASSUME NEW i \in 0..m
        PROVE  g[i] = IF i = 0 THEN 0 ELSE g[i - 1] + ms[i].wall_clock_time
    <3> HIDE DEF g
    <3>1. CASE i = m
      <4>1. g[m - 1] = f[m - 1] /\ i # 0
        BY <1>3, <2>1, <2>4, <3>1, SMTT(30)
      <4> QED
        BY <2>4, <3>1, <4>1, SMTT(30)
    <3>2. CASE i = 0
      BY <1>3, <2>1, <2>3, <2>4, <3>2, SMTT(30)
    <3>3. CASE i # m /\ i # 0
      <4>1. i \in 0..(m - 1) /\ i - 1 \in 0..(m - 1)
        BY <2>1, <3>3
      <4> QED
        BY <2>3, <2>4, <3>3, <4>1, SMTT(30)
    <3> QED
      BY <3>1, <3>2, <3>3, SMTT(30)
  <2>6. g = [i \in 0..m |-> g[i]]
    OBVIOUS
  <2> HIDE DEF g
  <2>7. g = Sums(g, ms, m)
    BY <2>5, <2>6, Zenon DEF Sums
  <2> QED
    BY <1>1, <2>7
<1> QED
  BY <1>2, <1>3

\* The values of a solution, one by one.
LEMMA SumsValues ==
    ASSUME NEW f, NEW ms, NEW n \in Nat, f = Sums(f, ms, n)
    PROVE  f[0] = 0 /\ \A i \in 1..n : f[i] = f[i - 1] + ms[i].wall_clock_time
<1>1. f = [i \in 0..n |-> IF i = 0 THEN 0 ELSE f[i - 1] + ms[i].wall_clock_time]
  BY Zenon DEF Sums
<1>2. \A i \in 0..n : f[i] = IF i = 0 THEN 0 ELSE f[i - 1] + ms[i].wall_clock_time
  BY <1>1, Zenon
<1>3. 0 \in 0..n /\ \A i \in 1..n : i \in 0..n /\ i # 0
  OBVIOUS
<1> QED
  BY <1>2, <1>3, Zenon

\* One more completed operation adds its time.
LEMMA TimeOfAppend ==
    ASSUME NEW ms \in Seq(Metrics), NEW m \in Metrics
    PROVE  TimeOf(Append(ms, m)) = TimeOf(ms) + m.wall_clock_time
<1> DEFINE n == Len(ms)
           a == Append(ms, m)
           f == CHOOSE h : h = Sums(h, ms, n)
           g == CHOOSE h : h = Sums(h, a, n + 1)
           S == {i \in 0..n : f[i] # g[i]}
<1>1. n \in Nat /\ n + 1 \in Nat /\ Len(a) = n + 1 /\ a[n + 1] = m /\ \A i \in 1..n : a[i] = ms[i]
  OBVIOUS
<1>2. f = Sums(f, ms, n)
  BY <1>1, SumsExist
<1>3. g = Sums(g, a, n + 1)
  <2> HIDE DEF a
  <2> QED
    BY <1>1, SumsExist
<1>4. TimeOf(ms) = f[n]
  BY TimeOfIs
<1>5. TimeOf(a) = g[n + 1]
  <2>1. TimeOf(a) = (CHOOSE h : h = Sums(h, a, Len(a)))[Len(a)]
    BY TimeOfIs, Zenon
  <2> QED
    BY <1>1, <2>1
<1> HIDE DEF f, g, n, a
<1>6. f[0] = 0 /\ \A i \in 1..n : f[i] = f[i - 1] + ms[i].wall_clock_time
  BY <1>1, <1>2, SumsValues
<1>7. g[0] = 0 /\ \A i \in 1..(n + 1) : g[i] = g[i - 1] + a[i].wall_clock_time
  BY <1>1, <1>3, SumsValues, SMTT(30)
<1>8. S = {}
  <2> SUFFICES ASSUME S # {} PROVE FALSE
    OBVIOUS
  <2>1. PICK i \in S : \A j \in S : i <= j
    <3>1. S \in SUBSET Nat
      BY <1>1
    <3> HIDE DEF S
    <3> QED
      BY <3>1, Least
  <2>2. i \in 1..n
    BY <1>1, <1>6, <1>7, <2>1, SMTT(30)
  <2>3. f[i - 1] = g[i - 1]
    BY <1>1, <2>1, <2>2, SMTT(30)
  <2>4. i \in 1..(n + 1) /\ f[i] = f[i - 1] + ms[i].wall_clock_time /\ g[i] = g[i - 1] + ms[i].wall_clock_time
    BY <1>1, <1>6, <1>7, <2>2, SMTT(30)
  <2> QED
    BY <2>1, <2>3, <2>4
<1>9. f[n] = g[n]
  BY <1>1, <1>8
<1>10. n + 1 \in 1..(n + 1) /\ n + 1 - 1 = n
  BY <1>1
<1>11. g[n + 1] = g[n] + m.wall_clock_time
  BY <1>1, <1>7, <1>10
<1> QED
  BY <1>4, <1>5, <1>9, <1>11, SMTT(30) DEF a

\* Nothing has been timed at first.
LEMMA TimeOfEmpty == TimeOf(<<>>) = 0
<1> DEFINE f == CHOOSE h : h = Sums(h, <<>>, 0)
<1>1. f = Sums(f, <<>>, 0)
  BY SumsExist
<1>2. TimeOf(<<>>) = f[0]
  <2>1. Len(<<>>) = 0
    OBVIOUS
  <2> QED
    BY <2>1, TimeOfIs
<1> HIDE DEF f
<1>3. f[0] = 0
  BY <1>1, SumsValues
<1> QED
  BY <1>2, <1>3

\* `timed` is the sum of the times of the completed operations.
TimedIsTheSum == timed = TimeOf(completed_metrics)

\* Every method keeps `timed` the sum.
LEMMA TimedStep ==
    ASSUME IndInv, TimedIsTheSum, [Next]_vars
    PROVE  TimedIsTheSum'
<1>1. CASE finish_operation /\ current_operation # {}
  <2>1. PICK start \in current_operation : finish_operation_internal(start)
    BY <1>1 DEF finish_operation
  <2> DEFINE diff == Diff(Current(start.name), start)
  <2>2. Sampled(start) /\ now \in Nat
    BY DEF IndInv, TypeOK
  <2>3. /\ Sampled(Current(start.name))
        /\ Current(start.name).timestamp = now
    BY <2>2, CurrentType DEF Sampled, Metrics, Current
  <2>4. diff \in Metrics
    BY <2>2, <2>3, DiffType DEF Sampled
  <2>5. completed_metrics' = Append(completed_metrics, diff) /\ timed' = timed + diff.wall_clock_time
    BY <2>1 DEF finish_operation_internal
  <2>6. completed_metrics \in Seq(Metrics)
    BY DEF IndInv, TypeOK
  <2> HIDE DEF diff
  <2>7. TimeOf(Append(completed_metrics, diff)) = TimeOf(completed_metrics) + diff.wall_clock_time
    BY <2>4, <2>6, TimeOfAppend
  <2>8. TimeOf(completed_metrics)' = TimeOf(completed_metrics')
    BY DEF TimeOf
  <2> QED
    BY <2>5, <2>7, <2>8 DEF TimedIsTheSum
<1>2. CASE UNCHANGED <<timed, completed_metrics>>
  BY <1>2 DEF TimedIsTheSum, TimeOf
<1>3. \/ finish_operation /\ current_operation # {}
      \/ UNCHANGED <<timed, completed_metrics>>
  BY DEF Next, start_operation, finish_operation, start_phase, end_phase, Tick, tracker, vars
<1> QED
  BY <1>1, <1>2, <1>3

\* The times of the completed operations add up to no more than the total that
\* print_all_metrics prints: every tick is charged to at most one operation.
THEOREM TrackerCompletedWithinTotal == Spec => []CompletedWithinTotal
<1>1. Init => TimedIsTheSum
  BY TimeOfEmpty DEF Init, TimedIsTheSum
<1>2. ASSUME IndInv, TimedIsTheSum PROVE CompletedWithinTotal
  <2>1. now \in Nat /\ Sampled(start_metrics)
    BY <1>2, SMTT(30) DEF IndInv, TypeOK
  <2>2. Sampled(Current("Total")) /\ Current("Total").timestamp = now
    BY <2>1, CurrentType DEF Current
  <2>3. get_total_metrics.wall_clock_time = now - start_metrics.timestamp
    BY <2>1, <2>2, DiffType DEF get_total_metrics, Sampled
  <2>4. timed \in Nat /\ timed <= now - start_metrics.timestamp
    BY <1>2, <2>1 DEF IndInv, TypeOK, Disjoint, Sampled, Metrics
  <2> QED
    BY <1>2, <2>3, <2>4 DEF TimedIsTheSum, CompletedWithinTotal
<1> QED
  BY TrackerIndInv, TimedStep, <1>1, <1>2, PTL DEF Spec

-----------------------------------------------------------------------------
(* What print_all_metrics prints *)

\* Every Metrics of a phase carries the name of the phase.
NamesAgree ==
    /\ \A p \in DOMAIN active_phases : active_phases[p].name = p
    /\ \A i \in DOMAIN phase_metrics : phase_metrics[i][2].name = phase_metrics[i][1]

\* start_phase names the phase, finish_operation keeps the name, end_phase pushes it.
LEMMA NamesStep ==
    ASSUME IndInv, NamesAgree, [Next]_vars
    PROVE  NamesAgree'
<1>1. CASE finish_operation /\ current_operation # {}
  <2>1. PICK start \in current_operation : finish_operation_internal(start)
    BY <1>1 DEF finish_operation
  <2>2. \A a, b : Combine(a, b).name = a.name
    BY DEF Combine
  <2>3. /\ DOMAIN active_phases' = DOMAIN active_phases
        /\ \A p \in DOMAIN active_phases : active_phases'[p].name = active_phases[p].name
    BY <2>1, <2>2 DEF finish_operation_internal
  <2>4. UNCHANGED phase_metrics
    BY <1>1 DEF finish_operation
  <2> QED
    BY <2>3, <2>4, SMTT(30) DEF NamesAgree
<1>2. ASSUME NEW p \in PhaseNames, start_phase(p) PROVE NamesAgree'
  <2>1. Zero(p).name = p
    BY DEF Zero
  <2>2. /\ DOMAIN active_phases' = DOMAIN active_phases \cup {p}
        /\ active_phases'[p] = Zero(p)
        /\ \A q \in DOMAIN active_phases : q # p => active_phases'[q] = active_phases[q]
        /\ UNCHANGED phase_metrics
    BY <1>2 DEF start_phase, Insert
  <2> QED
    BY <2>1, <2>2 DEF NamesAgree
<1>3. ASSUME NEW p \in PhaseNames, end_phase(p) PROVE NamesAgree'
  <2>1. /\ DOMAIN active_phases' = DOMAIN active_phases \ {p}
        /\ \A q \in DOMAIN active_phases' : active_phases'[q] = active_phases[q]
    BY <1>3 DEF end_phase, RemoveKey
  <2>2. CASE p \notin DOMAIN active_phases
    BY <1>3, <2>1, <2>2, SMTT(30) DEF end_phase, NamesAgree
  <2>3. CASE p \in DOMAIN active_phases
    <3> DEFINE e == <<p, active_phases[p]>>
    <3>1. e \in PhaseNames \X Metrics /\ e[1] = p /\ e[2].name = p
      BY <2>3 DEF IndInv, TypeOK, NamesAgree
    <3>2. phase_metrics' = Append(phase_metrics, e)
      BY <1>3, <2>3 DEF end_phase
    <3> HIDE DEF e
    <3>3. Len(phase_metrics) \in Nat /\ phase_metrics \in Seq(PhaseNames \X Metrics)
      BY DEF IndInv, TypeOK
    <3>4. /\ DOMAIN phase_metrics' = DOMAIN phase_metrics \cup {Len(phase_metrics) + 1}
          /\ phase_metrics'[Len(phase_metrics) + 1] = e
          /\ \A i \in DOMAIN phase_metrics : phase_metrics'[i] = phase_metrics[i]
      BY <3>1, <3>2, <3>3
    <3> QED
      BY <2>1, <3>1, <3>4, SMTT(30) DEF NamesAgree
  <2> QED
    BY <2>2, <2>3
<1>4. CASE UNCHANGED <<active_phases, phase_metrics>>
  BY <1>4 DEF NamesAgree
<1>5. \/ finish_operation /\ current_operation # {}
      \/ \E p \in PhaseNames : start_phase(p)
      \/ \E p \in PhaseNames : end_phase(p)
      \/ UNCHANGED <<active_phases, phase_metrics>>
  BY DEF Next, start_operation, finish_operation, Tick, tracker, vars
<1> QED
  BY <1>1, <1>2, <1>3, <1>4, <1>5, SMTT(30)

\* The last entry of phase_metrics with a name exists.
LEMMA LastExists ==
    ASSUME NEW q, NEW n \in Nat, DOMAIN q = 1..n, NEW p, \E i \in 1..n : q[i][1] = p
    PROVE  \E i \in 1..n : q[i][1] = p /\ \A j \in 1..n : q[j][1] = p => j <= i
<1> DEFINE S == {m \in 0..n : \A j \in 1..n : q[j][1] = p => j <= m}
<1>1. n \in S /\ S \in SUBSET Nat
  OBVIOUS
<1>2. PICK m \in S : \A k \in S : m <= k
  <2> HIDE DEF S
  <2> QED
    BY <1>1, Least, Zenon
<1>3. m \in 1..n
  BY <1>2
<1>4. q[m][1] = p
  <2> SUFFICES ASSUME q[m][1] # p PROVE FALSE
    OBVIOUS
  <2>1. m - 1 \in S
    BY <1>2, <1>3
  <2> QED
    BY <1>2, <1>3, <2>1, SMTT(30)
<1> QED
  BY <1>2, <1>3, <1>4

\* group_map maps every name that ended to a Metrics of that name.
LEMMA GroupMap ==
    ASSUME IndInv, NamesAgree
    PROVE  /\ DOMAIN group_map = {phase_metrics[i][1] : i \in DOMAIN phase_metrics}
           /\ \A p \in DOMAIN group_map : group_map[p] \in Metrics /\ group_map[p].name = p
<1>1. PICK n \in Nat : DOMAIN phase_metrics = 1..n
  <2>1. Len(phase_metrics) \in Nat /\ DOMAIN phase_metrics = 1..Len(phase_metrics)
    BY DEF IndInv, TypeOK
  <2> QED
    BY <2>1, Zenon
<1>2. DOMAIN group_map = {phase_metrics[i][1] : i \in DOMAIN phase_metrics}
  BY DEF group_map
<1>3. ASSUME NEW p \in DOMAIN group_map
      PROVE  group_map[p] \in Metrics /\ group_map[p].name = p
  <2> DEFINE IsLast(i) == /\ phase_metrics[i][1] = p
                          /\ \A j \in DOMAIN phase_metrics : phase_metrics[j][1] = p => j <= i
             l == CHOOSE i \in DOMAIN phase_metrics : IsLast(i)
  <2>1. \E i \in 1..n : phase_metrics[i][1] = p
    BY <1>1, <1>2
  <2>2. \E i \in DOMAIN phase_metrics : IsLast(i)
    BY <1>1, <2>1, LastExists, Zenon
  <2>3. l \in DOMAIN phase_metrics /\ IsLast(l)
    <3> HIDE DEF IsLast
    <3> QED
      BY <2>2
  <2>4. group_map[p] = phase_metrics[l][2]
    BY <1>2 DEF group_map
  <2> HIDE DEF l
  <2>5. phase_metrics[l] \in PhaseNames \X Metrics
    BY <2>3 DEF IndInv, TypeOK
  <2>6. phase_metrics[l][2] \in Metrics
    BY <2>5
  <2> QED
    BY <2>3, <2>4, <2>6 DEF NamesAgree
<1> QED
  BY <1>2, <1>3, SMTT(30)

\* f[i] is what has been printed after i steps of the loop over the names of o,
\* each looked up in the map g.
Printing(f, o, g, n) ==
    [i \in 0..n |-> IF i = 0 THEN <<>>
                    ELSE IF o[i] \in DOMAIN g THEN Append(f[i - 1], g[o[i]]) ELSE f[i - 1]]

\* PrintedPhases is such a loop.
LEMMA PrintedIs ==
    PrintedPhases = (CHOOSE f : f = Printing(f, phase_order, group_map, Len(phase_order)))[Len(phase_order)]
BY DEF PrintedPhases, Printing

\* The loop has a result.
LEMMA PrintingExists ==
    ASSUME NEW o, NEW g, NEW n \in Nat
    PROVE  \E f : f = Printing(f, o, g, n)
<1> DEFINE S == {m \in Nat : ~\E f : f = Printing(f, o, g, m)}
           Step(f, i) == IF o[i] \in DOMAIN g THEN Append(f[i - 1], g[o[i]]) ELSE f[i - 1]
<1> SUFFICES ASSUME S # {} PROVE FALSE
  OBVIOUS
<1>1. PICK m \in S : \A j \in S : m <= j
  <2>1. S \in SUBSET Nat
    OBVIOUS
  <2> HIDE DEF S
  <2> QED
    BY <2>1, Least
<1>2. CASE m = 0
  <2> DEFINE h == [i \in 0..0 |-> <<>>]
  <2>1. h = Printing(h, o, g, 0)
    BY DEF Printing
  <2> QED
    BY <1>2, <2>1
<1>3. CASE m # 0
  <2>1. m \in Nat /\ m - 1 \in Nat /\ m - 1 \notin S
    BY <1>1, <1>3
  <2>2. PICK f : f = Printing(f, o, g, m - 1)
    BY <2>1
  <2> DEFINE h == [i \in 0..m |-> IF i = m THEN Step(f, m) ELSE f[i]]
  <2>3. \A i \in 0..(m - 1) : f[i] = IF i = 0 THEN <<>> ELSE Step(f, i)
    <3>1. f = [i \in 0..(m - 1) |-> IF i = 0 THEN <<>> ELSE Step(f, i)]
      BY <2>2, Zenon DEF Printing
    <3> HIDE DEF Step
    <3> QED
      BY <3>1, Zenon
  <2>4. h[m] = Step(f, m) /\ \A i \in 0..(m - 1) : h[i] = f[i]
    <3> HIDE DEF Step
    <3> QED
      BY <2>1
  <2>5. ASSUME NEW i \in 0..m, i # 0 PROVE Step(h, i) = Step(f, i)
    <3>1. h[i - 1] = f[i - 1]
      <4> HIDE DEF h
      <4> QED
        BY <2>1, <2>4, <2>5, SMTT(30)
    <3> HIDE DEF h
    <3> QED
      BY <3>1
  <2>6. h = [i \in 0..m |-> h[i]]
    OBVIOUS
  <2> HIDE DEF h
  <2>7. ASSUME NEW i \in 0..m PROVE h[i] = IF i = 0 THEN <<>> ELSE Step(h, i)
    <3> HIDE DEF Step
    <3>1. CASE i = m
      BY <1>3, <2>4, <2>5, <3>1
    <3>2. CASE i # m
      <4>1. i \in 0..(m - 1)
        BY <2>1, <3>2
      <4> QED
        BY <2>3, <2>4, <2>5, <4>1, SMTT(30)
    <3> QED
      BY <3>1, <3>2
  <2>8. h = [i \in 0..m |-> IF i = 0 THEN <<>> ELSE Step(h, i)]
    <3> HIDE DEF Step
    <3> QED
      BY <2>6, <2>7
  <2>9. h = Printing(h, o, g, m)
    BY <2>8, Zenon DEF Printing
  <2> QED
    BY <1>1, <2>9
<1> QED
  BY <1>2, <1>3

\* What has been printed: Metrics with the names of N, each name once.
PrintsOnce(s, N) ==
    /\ s \in Seq(Metrics)
    /\ {s[i].name : i \in DOMAIN s} = N
    /\ \A i, j \in DOMAIN s : s[i].name = s[j].name => i = j

\* Printing one more name.
LEMMA PrintsOneMore ==
    ASSUME NEW s, NEW N, PrintsOnce(s, N), NEW m \in Metrics, m.name \notin N
    PROVE  PrintsOnce(Append(s, m), N \cup {m.name})
<1> DEFINE a == Append(s, m)
           n == Len(s)
<1>1. /\ s \in Seq(Metrics) /\ n \in Nat /\ a \in Seq(Metrics)
      /\ DOMAIN s = 1..n /\ DOMAIN a = 1..(n + 1)
      /\ a[n + 1] = m /\ \A i \in 1..n : a[i] = s[i]
  BY DEF PrintsOnce
<1> HIDE DEF a, n
<1>2. 1..(n + 1) = (1..n) \cup {n + 1} /\ n + 1 \notin 1..n
  BY <1>1
<1>3. \A i \in 1..n : a[i].name \in N
  BY <1>1 DEF PrintsOnce
<1>4. {a[i].name : i \in DOMAIN a} = N \cup {m.name}
  <2>1. ASSUME NEW x \in N PROVE \E i \in DOMAIN a : a[i].name = x
    <3>1. PICK i \in 1..n : s[i].name = x
      BY <1>1 DEF PrintsOnce
    <3> QED
      BY <1>1, <1>2, <3>1, SMTT(30)
  <2>2. \E i \in DOMAIN a : a[i].name = m.name
    BY <1>1, <1>2
  <2>3. ASSUME NEW i \in DOMAIN a PROVE a[i].name \in N \cup {m.name}
    BY <1>1, <1>2, <1>3, SMTT(30)
  <2> QED
    BY <2>1, <2>2, <2>3
<1>5. ASSUME NEW i \in DOMAIN a, NEW j \in DOMAIN a, a[i].name = a[j].name PROVE i = j
  <2>1. CASE i \in 1..n /\ j \in 1..n
    BY <1>1, <1>5, <2>1, SMTT(30) DEF PrintsOnce
  <2>2. CASE i = n + 1 /\ j \in 1..n
    BY <1>1, <1>3, <1>5, <2>2, SMTT(30)
  <2>3. CASE i \in 1..n /\ j = n + 1
    BY <1>1, <1>3, <1>5, <2>3, SMTT(30)
  <2> QED
    BY <1>1, <1>2, <2>1, <2>2, <2>3, SMTT(30)
<1>6. PrintsOnce(a, N \cup {m.name})
  BY <1>1, <1>4, <1>5, Zenon DEF PrintsOnce
<1> QED
  BY <1>6 DEF a

\* The first i names of o that g maps.
Found(o, g, i) == {o[j] : j \in 1..i} \cap DOMAIN g

\* A loop over a list without repetition prints the names it finds in the map, once.
LEMMA PrintingPrintsOnce ==
    ASSUME NEW f, NEW o, NEW g, NEW n \in Nat, f = Printing(f, o, g, n),
           \A i, j \in 1..n : o[i] = o[j] => i = j,
           \A p \in DOMAIN g : g[p] \in Metrics /\ g[p].name = p
    PROVE  PrintsOnce(f[n], Found(o, g, n))
<1> DEFINE Names(i) == Found(o, g, i)
           S == {i \in 0..n : ~PrintsOnce(f[i], Names(i))}
<1>1. \A i \in 0..n : f[i] = IF i = 0 THEN <<>>
                             ELSE IF o[i] \in DOMAIN g THEN Append(f[i - 1], g[o[i]]) ELSE f[i - 1]
  <2>1. f = [i \in 0..n |-> IF i = 0 THEN <<>>
                            ELSE IF o[i] \in DOMAIN g THEN Append(f[i - 1], g[o[i]]) ELSE f[i - 1]]
    BY Zenon DEF Printing
  <2> QED
    BY <2>1, Zenon
<1>2. PrintsOnce(f[0], Names(0))
  <2>1. 0 \in 0..n
    OBVIOUS
  <2>2. f[0] = <<>> /\ Names(0) = {}
    BY <1>1, <2>1 DEF Found
  <2>3. <<>> \in Seq(Metrics) /\ DOMAIN <<>> = {}
    OBVIOUS
  <2>4. PrintsOnce(<<>>, {})
    BY <2>3 DEF PrintsOnce
  <2> QED
    BY <2>2, <2>4, SMTT(30)
<1>3. ASSUME NEW i \in 1..n, PrintsOnce(f[i - 1], Names(i - 1))
      PROVE  PrintsOnce(f[i], Names(i))
  <2>1. i \in 0..n /\ i # 0 /\ 1..i = (1..(i - 1)) \cup {i} /\ i \notin 1..(i - 1)
    OBVIOUS
  <2>2. CASE o[i] \in DOMAIN g
    <3>1. f[i] = Append(f[i - 1], g[o[i]])
      BY <1>1, <2>1, <2>2, Zenon
    <3>2. o[i] \notin Names(i - 1)
      BY <2>1 DEF Found
    <3>3. Names(i) = Names(i - 1) \cup {o[i]}
      BY <2>1, <2>2 DEF Found
    <3>4. g[o[i]] \in Metrics /\ g[o[i]].name = o[i]
      BY <2>2
    <3> HIDE DEF Names
    <3> QED
      BY <1>3, <3>1, <3>2, <3>3, <3>4, PrintsOneMore, SMTT(30)
  <2>3. CASE o[i] \notin DOMAIN g
    <3>1. f[i] = f[i - 1]
      BY <1>1, <2>1, <2>3, SMTT(30)
    <3>2. Names(i) = Names(i - 1)
      BY <2>1, <2>3, SMTT(30) DEF Found
    <3> HIDE DEF Names
    <3> QED
      BY <1>3, <3>1, <3>2, SMTT(30)
  <2> QED
    BY <2>2, <2>3
<1> HIDE DEF Names
<1>4. S = {}
  <2> SUFFICES ASSUME S # {} PROVE FALSE
    OBVIOUS
  <2>1. S \in SUBSET Nat
    OBVIOUS
  <2>2. PICK i \in S : \A j \in S : i <= j
    <3> HIDE DEF S
    <3> QED
      BY <2>1, Least, SMTT(30)
  <2>3. i \in 0..n /\ ~PrintsOnce(f[i], Names(i))
    OBVIOUS
  <2>4. i \in 1..n /\ i - 1 \in 0..n /\ i - 1 \notin S
    BY <1>2, <2>2, <2>3, SMTT(30)
  <2>5. PrintsOnce(f[i - 1], Names(i - 1))
    BY <2>4
  <2> QED
    BY <1>3, <2>3, <2>4, <2>5, SMTT(30)
<1>5. PrintsOnce(f[n], Names(n))
  BY <1>4, SMTT(30)
<1> QED
  BY <1>5 DEF Names

\* print_all_metrics prints every phase that has ended once, under its own name,
\* although it walks phase_order and looks the phases up in another list.
THEOREM TrackerPrintsEveryEndedPhaseOnce == Spec => []PrintsEveryEndedPhaseOnce
<1>1. Init => NamesAgree
  BY DEF Init, NamesAgree, EmptyMap
<1>2. ASSUME IndInv, NamesAgree PROVE PrintsEveryEndedPhaseOnce
  <2> DEFINE n == Len(phase_order)
             f == CHOOSE h : h = Printing(h, phase_order, group_map, n)
             N == {phase_metrics[i][1] : i \in DOMAIN phase_metrics}
  <2>1. n \in Nat /\ DOMAIN phase_order = 1..n
    BY <1>2 DEF IndInv, TypeOK
  <2>2. f = Printing(f, phase_order, group_map, n)
    BY <2>1, PrintingExists, SMTT(30)
  <2>3. PrintedPhases = f[n]
    BY PrintedIs, SMTT(30)
  <2>4. \A i, j \in 1..n : phase_order[i] = phase_order[j] => i = j
    BY <1>2, <2>1, SMTT(30) DEF IndInv, PhaseOrderListsStarted
  <2>5. DOMAIN group_map = N /\ \A p \in DOMAIN group_map : group_map[p] \in Metrics /\ group_map[p].name = p
    BY <1>2, GroupMap, SMTT(30)
  <2>6. N \subseteq {phase_order[j] : j \in 1..n}
    BY <1>2, <2>1, SMTT(30) DEF IndInv, PhaseOrderListsStarted, Contains
  <2> HIDE DEF n, f, N
  <2>7. PrintsOnce(f[n], Found(phase_order, group_map, n))
    BY <2>1, <2>2, <2>4, <2>5, PrintingPrintsOnce, SMTT(30)
  <2>8. Found(phase_order, group_map, n) = N
    BY <2>5, <2>6 DEF Found
  <2>9. PrintsOnce(PrintedPhases, N)
    BY <2>3, <2>7, <2>8
  <2> QED
    BY <2>9, Zenon DEF PrintsOnce, PrintsEveryEndedPhaseOnce, N
<1> QED
  BY TrackerIndInv, NamesStep, <1>1, <1>2, PTL DEF Spec
=============================================================================
