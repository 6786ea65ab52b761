-------------------------- MODULE CompilationCache --------------------------
(***************************************************************************)
(* wasmtime's own cache of compiled code (crates/cache): processes that    *)
(* share a directory, each with a thread that gets and updates modules and *)
(* a worker thread that counts usages, recompresses modules that are used  *)
(* often and cleans up. No lock outside the directory protects it: files   *)
(* are created exclusively and renamed into place, and a lock is a file    *)
(* with an age.                                                            *)
(*                                                                         *)
(* A process is its pid: one that crashes does not come back. A file has   *)
(* the thread that created it, so that what this thread goes on to write   *)
(* is found wherever the file was renamed to. mtime of a file is the time  *)
(* it was renamed into place; only the order of these times is kept.       *)
(***************************************************************************)
EXTENDS CacheLimits

CONSTANTS
    Procs, Mods,
    Threshold,      \* optimized_compression_usage_counter_threshold
    QueueSize,      \* worker_event_queue_size
    MaxCrashes,     \* bound: processes that crash
    MaxExpired      \* bound: locks beyond their time-out at any moment

ASSUME CacheAssumption ==
    Threshold \in Nat /\ QueueSize \in Nat /\ MaxCrashes \in Nat /\ MaxExpired \in Nat

BASE == 1   \* baseline_compression_level
OPT == 2    \* optimized_compression_level

VARIABLES
    fs,         \* the cache directory: the files by name
    dir,        \* whether the directory exists
    recent,     \* the modules by the mtime that counts in a cleanup, youngest first
    main,       \* per process, the thread that uses the cache
    queue,      \* per process, the channel to its worker
    worker,     \* per process, the worker thread
    alive,
    stolen,     \* history: a cleanup deleted a lock or temporary file of a living process
    lost        \* history: the queue dropped the event of an update

vars == <<fs, dir, recent, main, queue, worker, alive, stolen, lost>>

Mod(m) == <<"mod", m>>
Tmp(m) == <<"wip-atomic-write-mod", m>>
Stats(m) == <<"stats", m>>
StatsTmp(m) == <<"wip-atomic-write-stats", m>>
Lock(m, p) == <<"wip", m, p>>
CleanupLock(p) == <<"cleanup.wip", p>>

WipFiles(m) == {Tmp(m), StatsTmp(m)} \cup {Lock(m, p) : p \in Procs}
Locks == UNION {WipFiles(m) : m \in Mods} \cup {CleanupLock(p) : p \in Procs}

Exists(n) == n \in DOMAIN fs
File(thread, level, usages, complete) ==
    [by |-> thread, level |-> level, usages |-> usages, complete |-> complete, expired |-> FALSE]

\* The directory with the file f at n, without the files N, with n renamed to n2, and
\* after the thread wrote all it had to write.
Put(d, n, f) == [x \in DOMAIN d \cup {n} |-> IF x = n THEN f ELSE d[x]]
Without(d, N) == [x \in DOMAIN d \ N |-> d[x]]
Move(d, n, n2) == Without(Put(d, n2, [d[n] EXCEPT !.expired = FALSE]), {n})
Written(d, thread) ==
    [x \in DOMAIN d |-> IF d[x].by = thread THEN [d[x] EXCEPT !.complete = TRUE] ELSE d[x]]

NewStats == [usages |-> 0, level |-> BASE]

\* A file that a reader can decode: zstd and toml both refuse a part of one.
Readable(n) == Exists(n) /\ fs[n].complete
read_stats_file(m) ==
    IF Readable(Stats(m)) THEN [usages |-> fs[Stats(m)].usages, level |-> fs[Stats(m)].level]
    ELSE NewStats

\* Usages count up to the threshold, beyond which they make no difference.
Used(st) == [st EXCEPT !.usages = IF @ < Threshold THEN @ + 1 ELSE @]

Young(m) == <<m>> \o SelectSeq(recent, LAMBDA x : x # m)

NoWork == [pc |-> "recv", m |-> {}, then |-> "recv", st |-> NewStats, todo |-> {}]

Init ==
    /\ fs = [n \in {} |-> {}]
    /\ dir = FALSE
    /\ recent = <<>>
    /\ main = [p \in Procs |-> [pc |-> "idle", m |-> {}, tries |-> 0]]
    /\ queue = [p \in Procs |-> <<>>]
    /\ worker = [p \in Procs |-> NoWork]
    /\ alive = Procs
    /\ stolen = FALSE
    /\ lost = FALSE

-----------------------------------------------------------------------------
(* The thread that uses the cache *)

\* send_cache_event: a full queue drops the event.
Send(p, ev) ==
    \/ /\ Len(queue[p]) < QueueSize
       /\ queue' = [queue EXCEPT ![p] = Append(@, ev)]
       /\ UNCHANGED lost
    \/ /\ Len(queue[p]) = QueueSize
       /\ lost' = (lost \/ ev[1] = "update")
       /\ UNCHANGED queue

\* get_data_raw up to `compute`: a hit is a file that can be decoded.
Get(p) == \E m \in Mods :
    /\ p \in alive /\ main[p].pc = "idle"
    /\ \/ Readable(Mod(m)) /\ Send(p, <<"get", m>>) /\ UNCHANGED main
       \/ /\ ~Readable(Mod(m))
          /\ main' = [main EXCEPT ![p] = [pc |-> "create", m |-> {m}, tries |-> 2]]
          /\ UNCHANGED <<queue, lost>>
    /\ UNCHANGED <<fs, dir, recent, worker, alive, stolen>>

\* update_data tries fs_write_atomic twice, and creates the directory in between.
WriteFails(p) ==
    /\ main' = [main EXCEPT ![p] = IF @.tries = 2 THEN [@ EXCEPT !.pc = "create", !.tries = 1]
                                   ELSE [pc |-> "idle", m |-> {}, tries |-> 0]]
    /\ dir' = TRUE
    /\ UNCHANGED <<fs, recent, queue, lost>>

TruncateTmp(p) == \E m \in main[p].m :
    /\ p \in alive /\ main[p].pc = "create"
    /\ \/ ~dir /\ WriteFails(p)
       \/ /\ dir
          /\ fs' = Put(fs, Tmp(m), File(<<p, "main">>, BASE, 0, FALSE))
          /\ main' = [main EXCEPT ![p].pc = "write"]
          /\ UNCHANGED <<dir, recent, queue, lost>>
    /\ UNCHANGED <<worker, alive, stolen>>

\* fs_write_atomic: exclusive creation, ...
CreateTmp(p) == \E m \in main[p].m :
    /\ p \in alive /\ main[p].pc = "create"
    /\ \/ (~dir \/ Exists(Tmp(m))) /\ WriteFails(p)
       \/ /\ dir /\ ~Exists(Tmp(m))
          /\ fs' = Put(fs, Tmp(m), File(<<p, "main">>, BASE, 0, FALSE))
          /\ main' = [main EXCEPT ![p].pc = "write"]
          /\ UNCHANGED <<dir, recent, queue, lost>>
    /\ UNCHANGED <<worker, alive, stolen>>

\* ... write_all to the open file, ...
WriteTmp(p) ==
    /\ p \in alive /\ main[p].pc = "write"
    /\ fs' = Written(fs, <<p, "main">>)
    /\ main' = [main EXCEPT ![p].pc = "rename"]
    /\ UNCHANGED <<dir, recent, queue, worker, alive, stolen, lost>>

\* ... and rename of what has the name by then. Only a success is reported to the worker.
RenameTmp(p) == \E m \in main[p].m :
    /\ p \in alive /\ main[p].pc = "rename"
    /\ \/ ~Exists(Tmp(m)) /\ WriteFails(p)
       \/ /\ Exists(Tmp(m))
          /\ fs' = Move(fs, Tmp(m), Mod(m))
          /\ recent' = IF Exists(Stats(m)) THEN recent ELSE Young(m)
          /\ main' = [main EXCEPT ![p] = [pc |-> "idle", m |-> {}, tries |-> 0]]
          /\ Send(p, <<"update", m>>)
          /\ UNCHANGED dir
    /\ UNCHANGED <<worker, alive, stolen>>

-----------------------------------------------------------------------------
(* The worker *)

At(p, label) == p \in alive /\ worker[p].pc = label
Goto(p, label) == worker' = [worker EXCEPT ![p].pc = label]
Done(p) == worker' = [worker EXCEPT ![p] = NoWork]
NotWorker == <<dir, main, alive, lost>>

WriteStatsThen(p, m, st, then) ==
    worker' = [worker EXCEPT ![p] =
        [pc |-> "create_stats", m |-> {m}, then |-> then, st |-> st, todo |-> {}]]

\* The first step of handle_on_cache_get and of handle_on_cache_update.
Receive(p) ==
    /\ At(p, "recv") /\ queue[p] # <<>>
    /\ LET ev == Head(queue[p])
           m == ev[2]
       IN  \/ ev[1] = "get" /\ WriteStatsThen(p, m, Used(read_stats_file(m)), "decide")
           \/ ev[1] = "update" /\ WriteStatsThen(p, m, Used(NewStats), "cl_list")
    /\ queue' = [queue EXCEPT ![p] = Tail(@)]
    /\ UNCHANGED <<fs, recent, stolen, NotWorker>>

\* write_stats_file failed: an update goes on to its cleanup, a get gives up.
StatsFail(p) == IF worker[p].then = "cl_list" THEN Goto(p, "cl_list") ELSE Done(p)

CreateStats(p) == \E m \in worker[p].m :
    /\ At(p, "create_stats")
    /\ \/ Exists(StatsTmp(m)) /\ StatsFail(p) /\ UNCHANGED fs
       \/ /\ ~Exists(StatsTmp(m))
          /\ fs' = Put(fs, StatsTmp(m),
                       File(<<p, "worker">>, worker[p].st.level, worker[p].st.usages, FALSE))
          /\ Goto(p, "write_stats")
    /\ UNCHANGED <<recent, queue, stolen, NotWorker>>

WriteStats(p) ==
    /\ At(p, "write_stats")
    /\ fs' = Written(fs, <<p, "worker">>)
    /\ Goto(p, "rename_stats")
    /\ UNCHANGED <<recent, queue, stolen, NotWorker>>

CopyStats(p) == \E m \in worker[p].m :
    /\ At(p, "rename_stats")
    /\ fs' = Put(fs, Stats(m), fs[StatsTmp(m)])
    /\ recent' = Young(m)
    /\ IF worker[p].then = "recv" THEN Done(p) ELSE Goto(p, worker[p].then)
    /\ UNCHANGED <<queue, stolen, NotWorker>>

RenameStats(p) == \E m \in worker[p].m :
    /\ At(p, "rename_stats")
    /\ \/ ~Exists(StatsTmp(m)) /\ StatsFail(p) /\ UNCHANGED <<fs, recent>>
       \/ /\ Exists(StatsTmp(m))
          /\ fs' = Move(fs, StatsTmp(m), Stats(m))
          /\ recent' = Young(m)
          /\ IF worker[p].then = "recv" THEN Done(p) ELSE Goto(p, worker[p].then)
    /\ UNCHANGED <<queue, stolen, NotWorker>>

\* Whether to recompress: usages and level, then acquire_task_fs_lock, which lists the
\* directory and creates the lock in two steps.
Decide(p) ==
    /\ At(p, "decide")
    /\ IF worker[p].st.level < OPT /\ worker[p].st.usages >= Threshold
       THEN Goto(p, "lock_list") ELSE Done(p)
    /\ UNCHANGED <<fs, recent, queue, stolen, NotWorker>>

LockList(p) == \E m \in worker[p].m :
    /\ At(p, "lock_list")
    /\ IF \E n \in WipFiles(m) : Exists(n) /\ ~fs[n].expired
       THEN Done(p) ELSE Goto(p, "lock_create")
    /\ UNCHANGED <<fs, recent, queue, stolen, NotWorker>>

LockCreate(p) == \E m \in worker[p].m :
    /\ At(p, "lock_create")
    /\ \/ Exists(Lock(m, p)) /\ Done(p) /\ UNCHANGED fs
       \/ /\ ~Exists(Lock(m, p))
          /\ fs' = Put(fs, Lock(m, p), File(<<p, "worker">>, 0, 0, TRUE))
          /\ Goto(p, "read_mod")
    /\ UNCHANGED <<recent, queue, stolen, NotWorker>>

\* A module that is gone ends the task and leaves its lock.
ReadMod(p) == \E m \in worker[p].m :
    /\ At(p, "read_mod")
    /\ IF Readable(Mod(m)) THEN Goto(p, "write_lock") ELSE Done(p)
    /\ UNCHANGED <<fs, recent, queue, stolen, NotWorker>>

\* fs::write creates the file again when a cleanup deleted it.
WriteLock(p) == \E m \in worker[p].m :
    /\ At(p, "write_lock")
    /\ fs' = Put(fs, Lock(m, p), File(<<p, "worker">>, OPT, 0, TRUE))
    /\ Goto(p, "rename_lock")
    /\ UNCHANGED <<recent, queue, stolen, NotWorker>>

RenameLock(p) == \E m \in worker[p].m :
    /\ At(p, "rename_lock")
    /\ \/ ~Exists(Lock(m, p)) /\ Done(p) /\ UNCHANGED <<fs, recent>>
       \/ /\ Exists(Lock(m, p))
          /\ fs' = Move(fs, Lock(m, p), Mod(m))
          /\ recent' = IF Exists(Stats(m)) THEN recent ELSE Young(m)
          /\ Goto(p, "reread")
    /\ UNCHANGED <<queue, stolen, NotWorker>>

Reread(p) == \E m \in worker[p].m :
    /\ At(p, "reread")
    /\ IF Readable(Stats(m)) /\ fs[Stats(m)].level < OPT
       THEN WriteStatsThen(p, m, [usages |-> fs[Stats(m)].usages, level |-> OPT], "recv")
       ELSE Done(p)
    /\ UNCHANGED <<fs, recent, queue, stolen, NotWorker>>

\* The cleanup of handle_on_cache_update: its lock, in two steps, ...
CleanupList(p) ==
    /\ At(p, "cl_list")
    /\ IF \E q \in Procs : Exists(CleanupLock(q)) /\ ~fs[CleanupLock(q)].expired
       THEN Done(p) ELSE Goto(p, "cl_create")
    /\ UNCHANGED <<fs, recent, queue, stolen, NotWorker>>

CleanupCreate(p) ==
    /\ At(p, "cl_create")
    /\ \/ Exists(CleanupLock(p)) /\ Done(p) /\ UNCHANGED fs
       \/ /\ ~Exists(CleanupLock(p))
          /\ fs' = Put(fs, CleanupLock(p), File(<<p, "worker">>, 0, 0, TRUE))
          /\ Goto(p, "list")
    /\ UNCHANGED <<recent, queue, stolen, NotWorker>>

Index ==
    LET place(m) == CHOOSE i \in DOMAIN recent : recent[i] = m
    IN  {[path |-> m, mtime |-> Len(recent) - place(m), size |-> 1] :
            m \in {x \in Mods : Exists(Mod(x))}}

\* ... list_cache_contents and the limits: expired locks, statistics without a module
\* and the modules beyond the limits are to be deleted ...
List(p) ==
    /\ At(p, "list")
    /\ worker' = [worker EXCEPT ![p].pc = "delete",
          ![p].todo = {n \in Locks : Exists(n) /\ fs[n].expired}
              \cup {Stats(m) : m \in {x \in Mods : Exists(Stats(x)) /\ ~Exists(Mod(x))}}
              \cup {Mod(e.path) : e \in Deleted(ByAge(Index, Len(recent)))}]
    /\ UNCHANGED <<fs, recent, queue, stolen, NotWorker>>

\* ... one by one, by name.
Delete(p) ==
    /\ At(p, "delete")
    /\ \/ worker[p].todo = {} /\ Done(p) /\ UNCHANGED <<fs, stolen>>
       \/ \E n \in worker[p].todo :
             /\ worker' = [worker EXCEPT ![p].todo = @ \ {n}]
             /\ fs' = Without(fs, {n})
             /\ stolen' = (stolen \/ (Exists(n) /\ n \in Locks
                                      /\ (fs[n].by[1] \in alive \/ ~fs[n].expired)))
    /\ UNCHANGED <<recent, queue, NotWorker>>

-----------------------------------------------------------------------------

Expire(n) ==
    /\ Exists(n) /\ ~fs[n].expired
    /\ Cardinality({x \in DOMAIN fs : fs[x].expired}) < MaxExpired
    /\ fs' = [fs EXCEPT ![n].expired = TRUE]
    /\ UNCHANGED <<dir, recent, main, queue, worker, alive, stolen, lost>>

Crash(p) ==
    /\ p \in alive /\ Cardinality(Procs \ alive) < MaxCrashes
    /\ alive' = alive \ {p}
    /\ main' = [main EXCEPT ![p] = [pc |-> "idle", m |-> {}, tries |-> 0]]
    /\ queue' = [queue EXCEPT ![p] = <<>>]
    /\ worker' = [worker EXCEPT ![p] = NoWork]
    /\ UNCHANGED <<fs, dir, recent, stolen, lost>>

Main(p) == CreateTmp(p) \/ WriteTmp(p) \/ RenameTmp(p)

Work(p) ==
    \/ Receive(p) \/ CreateStats(p) \/ WriteStats(p) \/ RenameStats(p)
    \/ Decide(p) \/ LockList(p) \/ LockCreate(p) \/ ReadMod(p) \/ WriteLock(p)
    \/ RenameLock(p) \/ Reread(p)
    \/ CleanupList(p) \/ CleanupCreate(p) \/ List(p) \/ Delete(p)

Next ==
    \/ \E p \in Procs : Get(p) \/ Main(p) \/ Work(p) \/ Crash(p)
    \/ \E n \in Locks : Expire(n)

\* Every process goes on using the cache, both its threads run, and time passes.
Fairness ==
    /\ \A p \in Procs : WF_vars(Get(p)) /\ WF_vars(Main(p)) /\ WF_vars(Work(p))
    /\ \A n \in Locks : WF_vars(Expire(n))

Spec == Init /\ [][Next]_vars
FairSpec == Spec /\ Fairness

-----------------------------------------------------------------------------
(* Properties *)

\* "atomic file creation", "atomic file rename": a reader never sees part of a module or
\* of its statistics, whoever crashes and when, unless a cleanup took a temporary file
\* from a writer that was slower than its time-out.
FilesAreWhole == stolen \/ \A m \in Mods, n \in {"mod", "stats"} :
    Exists(<<n, m>>) => fs[<<n, m>>].complete

Quiet == \A p \in Procs : main[p].pc = "idle" /\ queue[p] = <<>> /\ worker[p].pc = "recv"

\* "we guarantee eventual consistency": when all events are handled and none was lost,
\* statistics that say a module is optimized are true; no later get would correct them.
QuietStatsAreTrue == ~lost /\ Quiet => \A m \in Mods :
    Readable(Stats(m)) /\ fs[Stats(m)].level = OPT /\ Exists(Mod(m)) => fs[Mod(m)].level = OPT

\* A module that goes on being used is recompressed.
HotModuleIsOptimized == \A m \in Mods : Exists(Mod(m)) ~> Exists(Mod(m)) /\ fs[Mod(m)].level = OPT

\* docs/cli-cache.md on cleanup-interval: when "this interval has already passed since
\* last cleaning up, the worker will attempt a new cleanup".
CleansUpAgain == [][\A p \in alive' :
    worker[p].pc = "cl_create" /\ worker'[p] # worker[p] => worker'[p].pc = "list"]_vars

\* The comment of fs_write_atomic: "there's no need to remove temporary file here - cleanup
\* task will do it later".
LeftoverIsRemoved == \A m \in Mods :
    Exists(Tmp(m)) /\ fs[Tmp(m)].by[1] \notin alive ~> ~Exists(Tmp(m))
=============================================================================
