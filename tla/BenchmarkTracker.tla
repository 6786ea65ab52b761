-------------------------- MODULE BenchmarkTracker --------------------------
(***************************************************************************)
(* The guest's time keeper: `Metrics` and `BenchmarkTracker` of            *)
(* wasm-module/src/main.rs.                                                *)
(*                                                                         *)
(* The tracker times one operation at a time and adds the time of every    *)
(* operation that finishes to every phase that is active at that moment.   *)
(* One action per method; the methods may be called in any order, which is *)
(* more than `main` does (module GuestMain restricts the order to main's). *)
(* `Duration`s and `Instant`s are natural numbers of clock ticks.          *)
(***************************************************************************)
EXTENDS Integers, Sequences, SequencesExt

CONSTANTS
    OpNames,     \* names passed to start_operation
    PhaseNames,  \* names passed to start_phase and end_phase
    MaxTime,     \* bound: last instant the clock reaches
    MaxOps,      \* bound: operations that may finish
    MaxPhases    \* bound: phases that may end

ASSUME TrackerAssumption ==
    /\ MaxTime \in Nat
    /\ MaxOps \in Nat
    /\ MaxPhases \in Nat

VARIABLES
    now,                \* what Instant::now() returns
    start_metrics,
    current_operation,  \* Option<Metrics>: {} is None, {m} is Some(m)
    completed_metrics,
    active_phases,      \* HashMap<String, Metrics>: a function on its keys
    phase_metrics,
    phase_order,
    timed,              \* history: wall clock time of all completed operations
    phase_base          \* history: `timed` at the start_phase of each active phase

tracker == <<start_metrics, current_operation, completed_metrics,
             active_phases, phase_metrics, phase_order, timed, phase_base>>
vars == <<now, tracker>>

-----------------------------------------------------------------------------
(* Metrics *)

Metrics == [name: OpNames \cup PhaseNames \cup {"Total"},
            timestamp: Nat, wall_clock_time: Nat,
            user_time: Nat, system_time: Nat, max_rss: Nat, cpu_usage: Nat]

\* The percentage `diff` and `combine` compute, 0 when no time has passed.
CpuUsage(cpu_time, wall) == IF wall > 0 THEN (cpu_time * 100) \div wall ELSE 0

\* Metrics::current. The getrusage call is commented out in the code: both CPU
\* times are the constant 1 s and the resident set size is 0.
Current(name) ==
    [name |-> name, timestamp |-> now, wall_clock_time |-> 0,
     user_time |-> 1, system_time |-> 1, max_rss |-> 0, cpu_usage |-> 0]

\* Mutant of Diff: the two instants swapped.
DiffSwapped(self, prev) ==
    [self EXCEPT !.wall_clock_time = prev.timestamp - self.timestamp,
                 !.user_time = 0, !.system_time = 0]

\* Metrics::diff. Instant::duration_since saturates at zero.
Diff(self, prev) ==
    LET wall == IF self.timestamp >= prev.timestamp
                THEN self.timestamp - prev.timestamp ELSE 0
        user == self.user_time - prev.user_time
        system == self.system_time - prev.system_time
    IN  [name |-> self.name, timestamp |-> self.timestamp,
         wall_clock_time |-> wall, user_time |-> user, system_time |-> system,
         max_rss |-> self.max_rss - prev.max_rss,
         cpu_usage |-> CpuUsage(user + system, wall)]

\* Metrics::combine.
Combine(self, other) ==
    LET wall == self.wall_clock_time + other.wall_clock_time
        user == self.user_time + other.user_time
        system == self.system_time + other.system_time
    IN  [name |-> self.name, timestamp |-> self.timestamp,
         wall_clock_time |-> wall, user_time |-> user, system_time |-> system,
         max_rss |-> IF self.max_rss >= other.max_rss
                     THEN self.max_rss ELSE other.max_rss,
         cpu_usage |-> CpuUsage(user + system, wall)]

\* The zero_metrics of start_phase.
Zero(name) ==
    [name |-> name, timestamp |-> now, wall_clock_time |-> 0,
     user_time |-> 0, system_time |-> 0, max_rss |-> 0, cpu_usage |-> 0]

-----------------------------------------------------------------------------
(* BenchmarkTracker *)

\* HashMap::new, insert and remove.
EmptyMap == [k \in {} |-> {}]

Insert(map, key, value) ==
    [k \in DOMAIN map \cup {key} |-> IF k = key THEN value ELSE map[k]]

RemoveKey(map, key) == [k \in DOMAIN map \ {key} |-> map[k]]

\* BenchmarkTracker::new, called at instant 0.
Init ==
    /\ now = 0
    /\ start_metrics = Current("Total")
    /\ current_operation = {}
    /\ completed_metrics = <<>>
    /\ active_phases = EmptyMap
    /\ phase_metrics = <<>>
    /\ phase_order = <<>>
    /\ timed = 0
    /\ phase_base = EmptyMap

\* An operation that is still being timed is dropped, not finished.
start_operation(name) ==
    /\ current_operation' = {Current(name)}
    /\ UNCHANGED <<now, start_metrics, completed_metrics, active_phases,
                   phase_metrics, phase_order, timed, phase_base>>

finish_operation_internal(start) ==
    LET diff == Diff(Current(start.name), start)
    IN  /\ completed_metrics' = Append(completed_metrics, diff)
        /\ active_phases' = [p \in DOMAIN active_phases |->
                                Combine(active_phases[p], diff)]
        /\ timed' = timed + diff.wall_clock_time

\* Mutant of finish_operation: reads current_operation without taking it.
FinishWithoutTake ==
    /\ \/ \E start \in current_operation : finish_operation_internal(start)
       \/ /\ current_operation = {}
          /\ UNCHANGED <<completed_metrics, active_phases, timed>>
    /\ UNCHANGED <<now, start_metrics, current_operation, phase_metrics,
                   phase_order, phase_base>>

\* Without an operation being timed the method does nothing.
finish_operation ==
    /\ \/ \E start \in current_operation : finish_operation_internal(start)
       \/ /\ current_operation = {}
          /\ UNCHANGED <<completed_metrics, active_phases, timed>>
    /\ current_operation' = {}
    /\ UNCHANGED <<now, start_metrics, phase_metrics, phase_order, phase_base>>

\* Mutants of start_phase: keeps the time of a phase that is already active;
\* pushes every name.
StartKeepsActive(p) ==
    /\ active_phases' = IF p \in DOMAIN active_phases THEN active_phases
                        ELSE Insert(active_phases, p, Zero(p))
    /\ phase_order' = IF Contains(phase_order, p) THEN phase_order
                      ELSE Append(phase_order, p)
    /\ phase_base' = Insert(phase_base, p, timed)
    /\ UNCHANGED <<now, start_metrics, current_operation, completed_metrics,
                   phase_metrics, timed>>

StartAlwaysPushes(p) ==
    /\ active_phases' = Insert(active_phases, p, Zero(p))
    /\ phase_order' = Append(phase_order, p)
    /\ phase_base' = Insert(phase_base, p, timed)
    /\ UNCHANGED <<now, start_metrics, current_operation, completed_metrics,
                   phase_metrics, timed>>

\* A phase that is already active starts again from zero.
start_phase(p) ==
    /\ active_phases' = Insert(active_phases, p, Zero(p))
    /\ phase_order' = IF Contains(phase_order, p) THEN phase_order
                      ELSE Append(phase_order, p)
    /\ phase_base' = Insert(phase_base, p, timed)
    /\ UNCHANGED <<now, start_metrics, current_operation, completed_metrics,
                   phase_metrics, timed>>

\* Ending a phase that is not active does nothing; an operation still being
\* timed goes on, and is not counted in this phase.
end_phase(p) ==
    /\ \/ /\ p \in DOMAIN active_phases
          /\ phase_metrics' = Append(phase_metrics, <<p, active_phases[p]>>)
       \/ /\ p \notin DOMAIN active_phases
          /\ UNCHANGED phase_metrics
    /\ active_phases' = RemoveKey(active_phases, p)
    /\ phase_base' = RemoveKey(phase_base, p)
    /\ UNCHANGED <<now, start_metrics, current_operation, completed_metrics,
                   phase_order, timed>>

get_total_metrics == Diff(Current("Total"), start_metrics)

\* The phases print_all_metrics prints, in order: phase_metrics collected into
\* a map, where the last entry of a name wins, and read in phase_order.
group_map ==
    [p \in {phase_metrics[i][1] : i \in DOMAIN phase_metrics} |->
        phase_metrics[CHOOSE i \in DOMAIN phase_metrics :
                         /\ phase_metrics[i][1] = p
                         /\ \A j \in DOMAIN phase_metrics : phase_metrics[j][1] = p => j <= i][2]]

PrintedPhases ==
    LET printed[i \in 0..Len(phase_order)] ==
            IF i = 0 THEN <<>>
            ELSE IF phase_order[i] \in DOMAIN group_map
                 THEN Append(printed[i - 1], group_map[phase_order[i]]) ELSE printed[i - 1]
    IN  printed[Len(phase_order)]

\* Time passes between two calls; the clock is monotonic.
Tick ==
    /\ now < MaxTime
    /\ now' = now + 1
    /\ UNCHANGED tracker

-----------------------------------------------------------------------------
Next ==
    \/ \E name \in OpNames : start_operation(name)
    \/ Len(completed_metrics) < MaxOps /\ finish_operation
    \/ \E p \in PhaseNames : start_phase(p)
    \/ \E p \in PhaseNames : Len(phase_metrics) < MaxPhases /\ end_phase(p)
    \/ Tick

Spec == Init /\ [][Next]_vars
-----------------------------------------------------------------------------
(* Properties *)

\* Type invariant. In particular no `Duration` subtraction of `diff` underflows
\* (which would panic), since every field of every Metrics is a natural.
TypeOK ==
    /\ now \in Nat
    /\ start_metrics \in Metrics
    /\ current_operation \in SUBSET Metrics
    /\ completed_metrics \in Seq(Metrics)
    /\ DOMAIN active_phases \subseteq PhaseNames
    /\ active_phases \in [DOMAIN active_phases -> Metrics]
    /\ phase_metrics \in Seq(PhaseNames \X Metrics)
    /\ phase_order \in Seq(PhaseNames)
    /\ timed \in Nat
    /\ phase_base \in [DOMAIN active_phases -> Nat]

\* The sum of the times of some Metrics.
TimeOf(ms) ==
    LET sum[i \in 0..Len(ms)] == IF i = 0 THEN 0 ELSE sum[i - 1] + ms[i].wall_clock_time
    IN  sum[Len(ms)]

\* Every tick is charged to at most one operation: the times of the completed
\* operations add up to no more than the total print_all_metrics prints, however
\* operations are restarted or abandoned and phases overlap.
CompletedWithinTotal == TimeOf(completed_metrics) <= get_total_metrics.wall_clock_time

\* A phase's time is the time of exactly the operations that finished since its
\* latest start_phase: finish_operation_internal adds each of them once, to every
\* active phase, and no other method changes it.
PhaseCountsItsOperations ==
    \A p \in DOMAIN active_phases :
        active_phases[p].wall_clock_time = timed - phase_base[p]

\* No phase, active or ended, is charged more time than has passed since the
\* tracker was created, so no phase is ever printed longer than the total.
PhaseWithinTotal ==
    /\ \A p \in DOMAIN active_phases :
          active_phases[p].wall_clock_time <= get_total_metrics.wall_clock_time
    /\ \A i \in DOMAIN phase_metrics :
          phase_metrics[i][2].wall_clock_time <= get_total_metrics.wall_clock_time

\* print_all_metrics walks phase_order, a list kept apart from phase_metrics. It
\* still prints every phase that has ended, each of them once and under its own
\* name, when phases are restarted, ended twice or ended in another order.
PrintsEveryEndedPhaseOnce ==
    /\ {PrintedPhases[i].name : i \in DOMAIN PrintedPhases}
          = {phase_metrics[i][1] : i \in DOMAIN phase_metrics}
    /\ \A i, j \in DOMAIN PrintedPhases :
          PrintedPhases[i].name = PrintedPhases[j].name => i = j

\* The reason for PrintsEveryEndedPhaseOnce: phase_order lists every phase that
\* was ever started, without repetition.
PhaseOrderListsStarted ==
    /\ \A i, j \in DOMAIN phase_order : phase_order[i] = phase_order[j] => i = j
    /\ \A p \in DOMAIN active_phases : Contains(phase_order, p)
    /\ \A i \in DOMAIN phase_metrics : Contains(phase_order, phase_metrics[i][1])

=============================================================================
