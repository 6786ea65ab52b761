------------------------------ MODULE Harness -------------------------------
(***************************************************************************)
(* The two programs of scripts/ around the host: build.c removes the old   *)
(* binaries, compiles module and host and moves them into place;           *)
(* benchmark.c runs the host a given number of times, one after the other, *)
(* and stops at the first run that fails. The README's use is              *)
(*     ./build && ./benchmark 2 "./wasmtime-test wasi-nn-module.wasm"      *)
(* Between two uses the sources are edited. With Concurrent, a build or a  *)
(* second benchmark may start while another is running.                    *)
(***************************************************************************)
EXTENDS ModuleCache

CONSTANTS
    Runs,        \* the argument n of ./benchmark
    MaxBuilds,   \* bound: builds started
    MaxBenchs,   \* bound: benchmarks started
    Concurrent   \* whether programs of scripts/ may overlap

ASSUME HarnessAssumption ==
    /\ 1 \in Versions
    /\ Runs \in Nat
    /\ MaxBuilds \in Nat /\ MaxBenchs \in Nat
    /\ Concurrent \in BOOLEAN

VARIABLES
    src,      \* version of the sources
    build,    \* where ./build is, "idle" when it is not running
    object,   \* what cargo produced last, not yet moved
    bench,    \* per host slot, the benchmark that uses it: its state and loop index
    builds, benchs,
    survivor  \* history: a host was running when ./build removed the executable

vars == <<cacheVars, src, build, object, bench, builds, benchs, survivor>>
scripts == <<src, build, object, bench, builds, benchs, survivor>>

Init ==
    /\ CacheInit
    /\ src = 1
    /\ build = "idle"
    /\ object = 0
    /\ bench = [b \in Hosts |-> [pc |-> "idle", i |-> 0]]
    /\ builds = 0
    /\ benchs = 0
    /\ survivor = FALSE

Edit ==
    /\ src + 1 \in Versions
    /\ src' = src + 1
    /\ UNCHANGED <<cacheVars, build, object, bench, builds, benchs, survivor>>

-----------------------------------------------------------------------------
(* build.c *)

Running(b) == bench[b].pc \in {"loop", "wait"}

StartBuild ==
    /\ build = "idle" /\ builds < MaxBuilds
    /\ Concurrent \/ \A b \in Hosts : ~Running(b)
    /\ build' = "rm_exe"
    /\ builds' = builds + 1
    /\ UNCHANGED <<cacheVars, src, object, bench, benchs, survivor>>

\* Mutant of RemoveOld: the SERIALIZED file is not in the list.
RemoveAllButCache ==
    /\ \/ /\ build = "rm_exe"
          /\ exe' = 0 /\ build' = "rm_wasm" /\ UNCHANGED wasm
       \/ /\ build = "rm_wasm"
          /\ wasm' = 0 /\ build' = "cargo_wasm" /\ UNCHANGED exe
    /\ compiles' = 0
    /\ UNCHANGED <<cache, inodes, content, proc, src, object, bench, builds, benchs,
                   survivor>>

\* The executable is removed; history notes whether a process still runs it.
RemoveExe ==
    /\ exe' = 0
    /\ survivor' = (survivor \/ \E h \in Hosts : Alive(h))

\* Mutant of RemoveOld: the list in another order, the executable last.
RemoveExeLast ==
    /\ \/ /\ build = "rm_exe"
          /\ cache' = 0 /\ build' = "rm_wasm" /\ UNCHANGED <<exe, wasm, survivor>>
       \/ /\ build = "rm_wasm"
          /\ wasm' = 0 /\ build' = "rm_cache" /\ UNCHANGED <<exe, cache, survivor>>
       \/ /\ build = "rm_cache"
          /\ RemoveExe /\ build' = "cargo_wasm" /\ UNCHANGED <<wasm, cache>>
    /\ compiles' = 0
    /\ UNCHANGED <<inodes, content, proc, src, object, bench, builds, benchs>>

\* remove_old_binaries: three remove() calls; a file that is not there is skipped.
RemoveOld ==
    /\ \/ /\ build = "rm_exe"
          /\ RemoveExe /\ build' = "rm_wasm" /\ UNCHANGED <<wasm, cache>>
       \/ /\ build = "rm_wasm"
          /\ wasm' = 0 /\ build' = "rm_cache" /\ UNCHANGED <<exe, cache, survivor>>
       \/ /\ build = "rm_cache"
          /\ cache' = 0 /\ build' = "cargo_wasm" /\ UNCHANGED <<exe, wasm, survivor>>
    /\ compiles' = 0
    /\ UNCHANGED <<inodes, content, proc, src, object, bench, builds, benchs>>

\* run_command("cargo build ..."): a failure ends the script.
Cargo ==
    /\ \/ /\ build = "cargo_wasm"
          /\ object' = src /\ build' = "mv_wasm"
       \/ /\ build = "cargo_host"
          /\ object' = src /\ build' = "mv_host"
       \/ /\ build \in {"cargo_wasm", "cargo_host"}
          /\ build' = "idle" /\ UNCHANGED object
    /\ UNCHANGED <<cacheVars, src, bench, builds, benchs, survivor>>

\* move_file: mv replaces the destination at once, or fails and ends the script.
MoveFile ==
    /\ \/ /\ build = "mv_wasm"
          /\ wasm' = object /\ build' = "cargo_host" /\ UNCHANGED exe
       \/ /\ build = "mv_host"
          /\ exe' = object /\ build' = "idle" /\ UNCHANGED wasm
       \/ /\ build \in {"mv_wasm", "mv_host"}
          /\ build' = "idle" /\ UNCHANGED <<wasm, exe>>
    /\ UNCHANGED <<cache, inodes, content, proc, compiles, src, object, bench,
                   builds, benchs, survivor>>

\* The script is killed between two of its steps.
KillBuild ==
    /\ build # "idle"
    /\ build' = "idle"
    /\ UNCHANGED <<cacheVars, src, object, bench, builds, benchs, survivor>>

-----------------------------------------------------------------------------
(* benchmark.c *)

StartBenchmark(b) ==
    /\ ~Running(b) /\ benchs < MaxBenchs
    /\ Concurrent \/ (build = "idle" /\ \A c \in Hosts : ~Running(c))
    /\ bench' = [bench EXCEPT ![b] = [pc |-> "loop", i |-> 0]]
    /\ benchs' = benchs + 1
    /\ UNCHANGED <<cacheVars, src, build, object, builds, survivor>>

\* The loop: i from 1 to n, each time system(command).
LoopIteration(b) ==
    /\ bench[b].pc = "loop"
    /\ \/ /\ bench[b].i = Runs
          /\ bench' = [bench EXCEPT ![b].pc = "succeeded"]
          /\ UNCHANGED proc
       \/ /\ bench[b].i < Runs /\ exe # 0
          /\ Spawn(b)
          /\ bench' = [bench EXCEPT ![b].pc = "wait"]
       \/ /\ bench[b].i < Runs /\ exe = 0
          /\ bench' = [bench EXCEPT ![b].pc = "failed"]
          /\ UNCHANGED proc
    /\ UNCHANGED <<files, compiles, src, build, object, builds, benchs, survivor>>

\* Mutant of CommandReturns: a failed run is repeated.
CommandRetries(b) ==
    /\ bench[b].pc = "wait" /\ proc[b].pc = "exited"
    /\ bench' = [bench EXCEPT ![b] =
          [pc |-> "loop", i |-> IF proc[b].status = 0 THEN @.i + 1 ELSE @.i]]
    /\ UNCHANGED <<cacheVars, src, build, object, builds, benchs, survivor>>

\* run_command after system() returned: any status but 0 ends the benchmark.
CommandReturns(b) ==
    /\ bench[b].pc = "wait" /\ proc[b].pc = "exited"
    /\ \/ /\ proc[b].status = 0
          /\ bench' = [bench EXCEPT ![b] = [pc |-> "loop", i |-> @.i + 1]]
       \/ /\ proc[b].status # 0
          /\ bench' = [bench EXCEPT ![b].pc = "failed"]
    /\ UNCHANGED <<cacheVars, src, build, object, builds, benchs, survivor>>

-----------------------------------------------------------------------------
Host(h) == HostStep(h) /\ UNCHANGED scripts
Kill(h) == Killed(h) /\ UNCHANGED scripts
Build == RemoveOld \/ Cargo \/ MoveFile
Benchmark(b) == LoopIteration(b) \/ CommandReturns(b)

Next ==
    \/ Edit \/ StartBuild \/ Build \/ KillBuild
    \/ \E b \in Hosts : StartBenchmark(b) \/ Benchmark(b)
    \/ \E h \in Hosts : Host(h) \/ Kill(h)

Spec == Init /\ [][Next]_vars

\* Programs that have started are scheduled, and the guest's main, which has no
\* unbounded loop, returns.
FairSpec ==
    /\ Spec
    /\ \A b \in Hosts : WF_vars(Benchmark(b)) /\ WF_vars(Host(b))

-----------------------------------------------------------------------------
(* Properties *)

\* With the scripts used one after the other, the guest that runs was compiled, by
\* this host's engine, from the module file that is there now, although main maps
\* the SERIALIZED file without comparing it with the module: whatever was edited,
\* which builds failed, and wherever earlier runs were killed.
RunsCurrentModule ==
    \A h \in Hosts :
        proc[h].pc = "call" => Code(h) = {[wasm |-> wasm, engine |-> EngineOf[exe]]}

\* Builds and benchmarks may overlap in any way, and several runs may overlap with each
\* other, as long as no run is under way at the instant ./build removes the executable:
\* no run executes a chunk of an outdated module. remove_old_binaries removes the
\* executable first, so no run can start between the removal of the SERIALIZED file
\* and the arrival of the new host.
StaleCodeNeedsASurvivor ==
    ~survivor => \A h \in Hosts :
        proc[h].pc = "call" => Code(h) \subseteq {[wasm |-> wasm, engine |-> EngineOf[exe]], Hole}

\* No run executes part of a module, although a run may be killed, or its disk fill
\* up, in the middle of writing the file: what is mapped was written to the end by
\* one run.
NeverRunsPartialFile ==
    \A h \in Hosts : proc[h].pc \in {"link", "call"} /\ proc[h].map # 0
        => \E m \in Stamp : content[proc[h].map] = [i \in 1..Chunks |-> m]

\* The cache works: after a build at most one run compiles the module to the end,
\* all later ones map the file, so their times are free of compilation.
CompilesOncePerBuild == compiles <= 1

\* A benchmark that has started ends: it completes its runs or stops at a failure.
BenchmarkEnds == \A b \in Hosts : Running(b) ~> ~Running(b)

\* What the documentation of Module::deserialize_file asks for (module.rs:422):
\* "the file referenced must remain unchanged and a valid precompiled module for the
\* entire lifetime of the Module returned".
MappedFileIsUnchanged ==
    [][\A h \in Hosts : Alive(h) /\ proc[h].map # 0 =>
          content'[proc[h].map] = content[proc[h].map]]_vars

\* What benchmark.c:11 says: "Run the command and check for errors". A run that
\* the benchmark counts as a success is one whose guest returned.
SuccessMeansGuestReturned ==
    \A b \in Hosts : bench[b].pc = "wait" /\ proc[b].pc = "exited" /\ proc[b].status = 0
        => proc[b].result = "returned"
=============================================================================
