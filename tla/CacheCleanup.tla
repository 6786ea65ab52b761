---------------------------- MODULE CacheCleanup ----------------------------
(***************************************************************************)
(* The files that a worker's cleanup picks in the directory it finds, for  *)
(* every small directory, against what the documentation of the limits     *)
(* says. The directory of CompilationCache has no sizes; here the files    *)
(* have any sizes and times.                                               *)
(***************************************************************************)
EXTENDS CompilationCache

CONSTANTS
    Paths,
    Sizes,
    Now,        \* the time of the cleanup, with the tolerated drift of other clocks
    LastMtime   \* bound: times of files

\* The directories: some paths, each with its size and with a time of its own.
Directories == UNION {
    {{[path |-> p, mtime |-> mt[p], size |-> sz[p]] : p \in P} :
        mt \in {f \in [P -> 0..LastMtime] : \A p, q \in P : f[p] = f[q] => p = q},
        sz \in [P -> Sizes]} : P \in SUBSET Paths}

SizeOf(S) == MapThenSumSet(LAMBDA f : f.size, S)

Within(S, percent) ==
    /\ SizeOf(S) * 100 <= SizeLimit * percent
    /\ Cardinality(S) * 100 <= CountLimit * percent

MeetsLimits(files) ==
    LET deleted == Deleted(ByAge(files, Now))
        kept == files \ deleted
    IN  IF Within(files, 100) THEN deleted = {}
        ELSE /\ Within(kept, Percent)
             /\ \A f \in deleted :
                   (\A g \in deleted : g = f \/ Younger(Now, f, g))
                       => ~Within(kept \cup {f}, Percent)

KeepsYounger(files) ==
    LET deleted == Deleted(ByAge(files, Now))
    IN  \A f \in deleted, g \in files \ deleted :
            f.mtime > Now \/ (g.mtime <= Now /\ g.mtime > f.mtime)

AllMeetLimits == \A files \in Directories : MeetsLimits(files)
AllKeepYounger == \A files \in Directories : KeepsYounger(files)

CleansUp == \E p \in Procs : At(p, "list")

\* The documentation of both limits: when a cleanup finds that one is exceeded, "after the
\* task" neither file count nor total size exceeds its percentage of the limit; when none
\* is exceeded, nothing is deleted; and no more is deleted than that takes.
CleanupMeetsLimits == CleansUp => AllMeetLimits

\* "Wasmtime uses Least Recently Used": what a cleanup keeps is younger than what it
\* deletes, and a file from the far future goes before every other.
CleanupIsLRU == CleansUp => AllKeepYounger
=============================================================================
