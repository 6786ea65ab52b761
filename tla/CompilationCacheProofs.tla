----------------------- MODULE CompilationCacheProofs -----------------------
(***************************************************************************)
(* FilesAreWhole for any processes, modules, limits, crashes and time-outs.*)
(*                                                                         *)
(* A file under a final name got there by a rename, so the invariant says  *)
(* whose file a temporary name is. As long as no cleanup took a file from  *)
(* a living process, a thread between the creation and the rename of a     *)
(* temporary file has it under that name, and at the rename it is whole.   *)
(* Two threads at these places for one module would both be the creator of *)
(* one file; exclusive creation lets no second one in.                     *)
(***************************************************************************)
EXTENDS CompilationCache, TLAPS

AtMostOne == {{}} \cup {{m} : m \in Mods}
Labels == {"idle", "create", "write", "rename"}
MainStates == [pc : Labels, m : AtMostOne, tries : Nat]
IsWorkerState(r) ==
    /\ DOMAIN r = {"pc", "m", "then", "st", "todo"}
    /\ r.m \in AtMostOne
    /\ r.then \in {"recv", "decide", "cl_list"}
HasFields(f) == {"by", "complete", "expired"} \subseteq DOMAIN f
IsDirectory(d) == \A n \in DOMAIN d : HasFields(d[n])

\* The shape of the state, as far as the argument needs it.
TypeInv ==
    /\ IsDirectory(fs)
    /\ main \in [Procs -> MainStates]
    /\ DOMAIN worker = Procs
    /\ \A p \in Procs : IsWorkerState(worker[p])
    /\ queue \in [Procs -> Seq({"get", "update"} \X Mods)]
    /\ alive \subseteq Procs
    /\ stolen \in BOOLEAN

\* In directory d, n is a file of the thread, whole if it has to be.
Holds(d, n, thread, whole) ==
    n \in DOMAIN d /\ d[n].by = thread /\ (whole => d[n].complete)

MainOwns(d, mn, p) == mn[p].pc \in {"write", "rename"} =>
    \A m \in mn[p].m : Holds(d, Tmp(m), <<p, "main">>, mn[p].pc = "rename")
WorkerOwns(d, wk, p) == wk[p].pc \in {"write_stats", "rename_stats"} =>
    \A m \in wk[p].m : Holds(d, StatsTmp(m), <<p, "worker">>, wk[p].pc = "rename_stats")

Whole(d, n) == n \in DOMAIN d => d[n].complete
WholeFiles(d) == \A m \in Mods :
    /\ Whole(d, Mod(m))
    /\ Whole(d, Stats(m))
    /\ \A p \in Procs : Whole(d, Lock(m, p))

OwnInv ==
    /\ \A p \in alive : MainOwns(fs, main, p) /\ WorkerOwns(fs, worker, p)
    /\ WholeFiles(fs)

IInv == TypeInv /\ (~stolen => OwnInv)

-----------------------------------------------------------------------------
(* The operations on a directory *)

\* Put changes one file.
LEMMA PutFacts ==
    ASSUME NEW d, NEW n, NEW f
    PROVE  /\ DOMAIN Put(d, n, f) = DOMAIN d \cup {n}
           /\ Put(d, n, f)[n] = f
           /\ \A x \in DOMAIN d \ {n} : Put(d, n, f)[x] = d[x]
BY DEF Put

\* Without keeps the files it does not delete.
LEMMA WithoutFacts ==
    ASSUME NEW d, NEW N
    PROVE  /\ DOMAIN Without(d, N) = DOMAIN d \ N
           /\ \A x \in DOMAIN d \ N : Without(d, N)[x] = d[x]
BY DEF Without

\* Move, the rename, brings a file as it is to its new name.
LEMMA MoveFacts ==
    ASSUME IsDirectory(fs), NEW n \in DOMAIN fs, NEW n2, n # n2
    PROVE  /\ DOMAIN Move(fs, n, n2) = (DOMAIN fs \cup {n2}) \ {n}
           /\ Move(fs, n, n2)[n2].complete = fs[n].complete
           /\ HasFields(Move(fs, n, n2)[n2])
           /\ \A x \in DOMAIN fs \ {n, n2} : Move(fs, n, n2)[x] = fs[x]
<1> DEFINE f == [fs[n] EXCEPT !.expired = FALSE]
<1>1. HasFields(f) /\ f.complete = fs[n].complete
  BY DEF IsDirectory, HasFields
<1> HIDE DEF f
<1>2. Move(fs, n, n2) = Without(Put(fs, n2, f), {n})
  BY DEF Move, f
<1> DEFINE e == Put(fs, n2, f)
<1>3. /\ DOMAIN e = DOMAIN fs \cup {n2}
      /\ e[n2] = f
      /\ \A x \in DOMAIN fs \ {n2} : e[x] = fs[x]
  BY DEF Put
<1> HIDE DEF e
<1>4. /\ DOMAIN Without(e, {n}) = DOMAIN e \ {n}
      /\ \A x \in DOMAIN e \ {n} : Without(e, {n})[x] = e[x]
  BY WithoutFacts, Zenon
<1>5. Move(fs, n, n2) = Without(e, {n})
  BY <1>2 DEF e
<1> QED
  BY <1>1, <1>3, <1>4, <1>5, SMTT(30)

\* Written makes the files of a thread whole and changes nothing else.
LEMMA WrittenFacts ==
    ASSUME NEW d, IsDirectory(d), NEW thread
    PROVE  /\ DOMAIN Written(d, thread) = DOMAIN d
           /\ \A x \in DOMAIN d :
                 /\ Written(d, thread)[x].by = d[x].by
                 /\ HasFields(Written(d, thread)[x])
                 /\ d[x].complete => Written(d, thread)[x].complete
                 /\ d[x].by = thread => Written(d, thread)[x].complete
<1>1. DOMAIN Written(d, thread) = DOMAIN d
  BY DEF Written
<1>2. ASSUME NEW x \in DOMAIN d
      PROVE  /\ Written(d, thread)[x].by = d[x].by
             /\ HasFields(Written(d, thread)[x])
             /\ d[x].complete => Written(d, thread)[x].complete
             /\ d[x].by = thread => Written(d, thread)[x].complete
  <2> DEFINE f == [d[x] EXCEPT !.complete = TRUE]
  <2>1. HasFields(d[x])
    BY DEF IsDirectory
  <2>2. HasFields(f) /\ f.by = d[x].by /\ f.complete
    BY <2>1 DEF HasFields
  <2>3. Written(d, thread)[x] = IF d[x].by = thread THEN f ELSE d[x]
    BY DEF Written
  <2> HIDE DEF f
  <2> QED
    BY <2>1, <2>2, <2>3, SMTT(30)
<1> QED
  BY <1>1, <1>2

\* The names of different kinds of files, and of files of different modules, differ.
LEMMA NamesDiffer ==
    ASSUME NEW m, NEW m2, NEW p, NEW p2
    PROVE  /\ Tmp(m) # Mod(m2) /\ Tmp(m) # Stats(m2) /\ Tmp(m) # StatsTmp(m2)
           /\ Tmp(m) # Lock(m2, p) /\ Tmp(m) # CleanupLock(p)
           /\ StatsTmp(m) # Mod(m2) /\ StatsTmp(m) # Stats(m2)
           /\ StatsTmp(m) # Lock(m2, p) /\ StatsTmp(m) # CleanupLock(p)
           /\ Mod(m) # Stats(m2) /\ Mod(m) # Lock(m2, p) /\ Mod(m) # CleanupLock(p)
           /\ Stats(m) # Lock(m2, p) /\ Stats(m) # CleanupLock(p)
           /\ Lock(m, p) # CleanupLock(p2)
           /\ (Tmp(m) = Tmp(m2) => m = m2)
           /\ (StatsTmp(m) = StatsTmp(m2) => m = m2)
           /\ (Mod(m) = Mod(m2) => m = m2) /\ (Stats(m) = Stats(m2) => m = m2)
           /\ (<<p, "main">> = <<p2, "main">> => p = p2)
           /\ (<<p, "worker">> = <<p2, "worker">> => p = p2)
           /\ <<p, "main">> # <<p2, "worker">>
BY DEF Tmp, StatsTmp, Mod, Stats, Lock, CleanupLock

-----------------------------------------------------------------------------
(* What keeps the invariant: a change of the directory, or of the threads *)

\* From directory d to e, the living threads other than t keep their temporary files.
Keeps(d, e, t) == \A m \in Mods : \A n \in {Tmp(m), StatsTmp(m)} :
    n \in DOMAIN d /\ d[n].by # t /\ d[n].by[1] \in alive
        => n \in DOMAIN e /\ e[n].by = d[n].by /\ (d[n].complete => e[n].complete)

\* Then another living thread still holds what it held.
LEMMA OthersHold ==
    ASSUME NEW d, NEW e, NEW p, NEW q \in alive, NEW t, NEW u, Keeps(d, e, <<p, t>>),
           <<q, u>> # <<p, t>>,
           NEW m \in Mods, NEW n \in {Tmp(m), StatsTmp(m)},
           n \in DOMAIN d, d[n].by = <<q, u>>
    PROVE  n \in DOMAIN e /\ e[n].by = <<q, u>> /\ (d[n].complete => e[n].complete)
<1>1. d[n].by # <<p, t>> /\ d[n].by[1] \in alive
  OBVIOUS
<1> QED
  BY <1>1 DEF Keeps

\* The module a thread works on, if any.
LEMMA OneModule ==
    ASSUME NEW S \in AtMostOne
    PROVE  S \subseteq Mods /\ \A a, b \in S : a = b
BY SMTT(30) DEF AtMostOne

\* A step of the main thread of p, whose changes to the directory concern its own files.
LEMMA MainStep ==
    ASSUME IInv, NEW p \in alive,
           UNCHANGED <<worker, alive, stolen>>,
           main' \in [Procs -> MainStates],
           \A q \in Procs \ {p} : main'[q] = main[q],
           queue' \in [Procs -> Seq({"get", "update"} \X Mods)],
           IsDirectory(fs'),
           ~stolen => /\ Keeps(fs, fs', <<p, "main">>)
                      /\ MainOwns(fs', main', p)
                      /\ WholeFiles(fs')
    PROVE  IInv'
<1>1. TypeInv'
  BY DEF IInv, TypeInv
<1>2. ASSUME ~stolen, NEW q \in alive
      PROVE  MainOwns(fs', main', q) /\ WorkerOwns(fs', worker, q)
  <2>1. MainOwns(fs, main, q) /\ WorkerOwns(fs, worker, q) /\ q \in Procs
    BY <1>2 DEF IInv, OwnInv, TypeInv
  <2>2. ASSUME q # p PROVE MainOwns(fs', main', q)
    <3>1. main'[q] = main[q] /\ main[q].m \subseteq Mods
      BY <2>1, <2>2, OneModule, SMTT(30) DEF IInv, TypeInv, MainStates
    <3>2. ASSUME main[q].pc \in {"write", "rename"}, NEW m \in main[q].m
          PROVE  Holds(fs', Tmp(m), <<q, "main">>, main[q].pc = "rename")
      <4>1. Holds(fs, Tmp(m), <<q, "main">>, main[q].pc = "rename") /\ m \in Mods
        BY <2>1, <3>1, <3>2, Zenon DEF MainOwns
      <4>2. <<q, "main">> # <<p, "main">>
        BY <2>2
      <4>3. /\ Tmp(m) \in DOMAIN fs' /\ fs'[Tmp(m)].by = <<q, "main">>
            /\ fs[Tmp(m)].complete => fs'[Tmp(m)].complete
        BY <1>2, <4>1, <4>2, OthersHold, Zenon DEF Holds
      <4> QED
        BY <4>1, <4>3, SMTT(30) DEF Holds
    <3> QED
      BY <3>1, <3>2, Zenon DEF MainOwns
  <2>3. WorkerOwns(fs', worker, q)
    <3>1. worker[q].m \subseteq Mods
      BY <2>1, OneModule, SMTT(30) DEF IInv, TypeInv, IsWorkerState
    <3>2. ASSUME worker[q].pc \in {"write_stats", "rename_stats"}, NEW m \in worker[q].m
          PROVE  Holds(fs', StatsTmp(m), <<q, "worker">>, worker[q].pc = "rename_stats")
      <4>1. Holds(fs, StatsTmp(m), <<q, "worker">>, worker[q].pc = "rename_stats") /\ m \in Mods
        BY <2>1, <3>1, <3>2, Zenon DEF WorkerOwns
      <4>2. <<q, "worker">> # <<p, "main">>
        OBVIOUS
      <4>3. /\ StatsTmp(m) \in DOMAIN fs' /\ fs'[StatsTmp(m)].by = <<q, "worker">>
            /\ fs[StatsTmp(m)].complete => fs'[StatsTmp(m)].complete
        BY <1>2, <4>1, <4>2, OthersHold, Zenon DEF Holds
      <4> QED
        BY <4>1, <4>3, SMTT(30) DEF Holds
    <3> QED
      BY <3>2, Zenon DEF WorkerOwns
  <2> QED
    BY <1>2, <2>2, <2>3, Zenon
<1> QED
  BY <1>1, <1>2, SMTT(30) DEF IInv, OwnInv, MainOwns, WorkerOwns, WholeFiles, Whole, Holds

\* A step of the worker of p, likewise.
LEMMA WorkerStep ==
    ASSUME IInv, NEW p \in alive,
           UNCHANGED <<main, alive>>, stolen' \in BOOLEAN, stolen => stolen',
           DOMAIN worker' = Procs,
           \A q \in Procs \ {p} : worker'[q] = worker[q],
           IsWorkerState(worker'[p]),
           queue' \in [Procs -> Seq({"get", "update"} \X Mods)],
           IsDirectory(fs'),
           ~stolen' => /\ Keeps(fs, fs', <<p, "worker">>)
                       /\ WorkerOwns(fs', worker', p)
                       /\ WholeFiles(fs')
    PROVE  IInv'
<1>1. TypeInv'
  BY Zenon DEF IInv, TypeInv
<1>2. ASSUME ~stolen', NEW q \in alive
      PROVE  MainOwns(fs', main, q) /\ WorkerOwns(fs', worker', q)
  <2>0. Keeps(fs, fs', <<p, "worker">>)
    BY <1>2, SMTT(30)
  <2>1. MainOwns(fs, main, q) /\ WorkerOwns(fs, worker, q) /\ q \in Procs
    BY <1>2, SMTT(30) DEF IInv, OwnInv, TypeInv
  <2>2. ASSUME q # p PROVE WorkerOwns(fs', worker', q)
    <3>1. worker'[q] = worker[q] /\ worker[q].m \subseteq Mods
      BY <2>1, <2>2, OneModule, Zenon DEF IInv, TypeInv, IsWorkerState
    <3>2. ASSUME worker[q].pc \in {"write_stats", "rename_stats"}, NEW m \in worker[q].m
          PROVE  Holds(fs', StatsTmp(m), <<q, "worker">>, worker[q].pc = "rename_stats")
      <4>1. Holds(fs, StatsTmp(m), <<q, "worker">>, worker[q].pc = "rename_stats") /\ m \in Mods
        BY <2>1, <3>1, <3>2, Zenon DEF WorkerOwns
      <4>2. <<q, "worker">> # <<p, "worker">>
        BY <2>2, SMTT(30)
      <4>3. StatsTmp(m) \in DOMAIN fs /\ fs[StatsTmp(m)].by = <<q, "worker">> /\ fs[StatsTmp(m)].by[1] \in alive
        BY <4>1 DEF Holds
      <4>4. /\ StatsTmp(m) \in DOMAIN fs' /\ fs'[StatsTmp(m)].by = <<q, "worker">>
            /\ fs[StatsTmp(m)].complete => fs'[StatsTmp(m)].complete
        BY <2>0, <4>1, <4>2, <4>3, Zenon DEF Keeps
      <4> QED
        BY <4>1, <4>4, SMTT(30) DEF Holds
    <3> QED
      BY <3>1, <3>2, SMTT(30) DEF WorkerOwns
  <2>3. MainOwns(fs', main, q)
    <3>1. main[q].m \subseteq Mods
      BY <2>1, OneModule, SMTT(30) DEF IInv, TypeInv, MainStates
    <3>2. ASSUME main[q].pc \in {"write", "rename"}, NEW m \in main[q].m
          PROVE  Holds(fs', Tmp(m), <<q, "main">>, main[q].pc = "rename")
      <4>1. Holds(fs, Tmp(m), <<q, "main">>, main[q].pc = "rename") /\ m \in Mods
        BY <2>1, <3>1, <3>2, Zenon DEF MainOwns
      <4>2. <<q, "main">> # <<p, "worker">>
        OBVIOUS
      <4>3. Tmp(m) \in DOMAIN fs /\ fs[Tmp(m)].by = <<q, "main">> /\ fs[Tmp(m)].by[1] \in alive
        BY <4>1 DEF Holds
      <4>4. /\ Tmp(m) \in DOMAIN fs' /\ fs'[Tmp(m)].by = <<q, "main">>
            /\ fs[Tmp(m)].complete => fs'[Tmp(m)].complete
        BY <2>0, <4>1, <4>2, <4>3, Zenon DEF Keeps
      <4> QED
        BY <4>1, <4>4, SMTT(30) DEF Holds
    <3> QED
      BY <3>2, Zenon DEF MainOwns
  <2> QED
    BY <1>2, <2>2, <2>3, SMTT(30)
<1> QED
  BY <1>1, <1>2, SMTT(30) DEF IInv, OwnInv, MainOwns, WorkerOwns, WholeFiles, Whole, Holds

\* The directory does not change: everything but the owner's own claim holds already.
LEMMA SameDirectory ==
    ASSUME IInv, fs' = fs
    PROVE  /\ IsDirectory(fs')
           /\ ~stolen => WholeFiles(fs')
           /\ \A t : Keeps(fs, fs', t)
BY DEF IInv, TypeInv, OwnInv, Keeps

\* Put, under a name that is not a final one, and a free one if it is temporary.
LEMMA PutKeeps ==
    ASSUME IInv, NEW n, NEW f, HasFields(f), fs' = Put(fs, n, f),
           n \in DOMAIN fs => \A m \in Mods : n # Tmp(m) /\ n # StatsTmp(m),
           \A m \in Mods : n # Mod(m) /\ n # Stats(m),
           \A m \in Mods, p \in Procs : n = Lock(m, p) => f.complete
    PROVE  /\ IsDirectory(fs')
           /\ ~stolen => WholeFiles(fs')
           /\ \A t : Keeps(fs, fs', t)
<1>1. /\ DOMAIN fs' = DOMAIN fs \cup {n}
      /\ fs'[n] = f
      /\ \A x \in DOMAIN fs \ {n} : fs'[x] = fs[x]
  BY DEF Put
<1>2. IsDirectory(fs')
  BY <1>1 DEF IInv, TypeInv, IsDirectory
<1>3. \A t : Keeps(fs, fs', t)
  BY <1>1 DEF Keeps
<1>4. ASSUME ~stolen PROVE WholeFiles(fs')
  <2>1. WholeFiles(fs)
    BY <1>4 DEF IInv, OwnInv
  <2> QED
    BY <1>1, <2>1 DEF WholeFiles, Whole
<1> QED
  BY <1>2, <1>3, <1>4, SMTT(30)

\* Written keeps everything.
LEMMA WrittenKeeps ==
    ASSUME IInv, NEW u, fs' = Written(fs, u)
    PROVE  /\ IsDirectory(fs')
           /\ ~stolen => WholeFiles(fs')
           /\ \A t : Keeps(fs, fs', t)
<1>1. IsDirectory(fs)
  BY DEF IInv, TypeInv
<1>2. /\ DOMAIN fs' = DOMAIN fs
      /\ \A x \in DOMAIN fs : /\ fs'[x].by = fs[x].by
                              /\ HasFields(fs'[x])
                              /\ fs[x].complete => fs'[x].complete
  BY <1>1, WrittenFacts, SMTT(30)
<1>3. IsDirectory(fs')
  BY <1>2 DEF IsDirectory
<1>4. \A t : Keeps(fs, fs', t)
  BY <1>2, SMTT(30) DEF Keeps
<1>5. ASSUME ~stolen PROVE WholeFiles(fs')
  <2>1. WholeFiles(fs)
    BY <1>5 DEF IInv, OwnInv
  <2> QED
    BY <1>2, <2>1, SMTT(30) DEF WholeFiles, Whole
<1> QED
  BY <1>3, <1>4, <1>5, Zenon

\* Move of a whole file of thread u to a final name.
LEMMA MoveKeeps ==
    ASSUME IInv, NEW m \in Mods, NEW p \in Procs, NEW u,
           NEW n \in {Tmp(m), StatsTmp(m), Lock(m, p)}, NEW n2 \in {Mod(m), Stats(m)},
           n \in DOMAIN fs, fs' = Move(fs, n, n2),
           ~stolen => fs[n].complete /\ (n # Lock(m, p) => fs[n].by = u)
    PROVE  /\ IsDirectory(fs')
           /\ ~stolen => WholeFiles(fs') /\ Keeps(fs, fs', u)
<1>1. IsDirectory(fs) /\ n # n2 /\ n \in DOMAIN fs
  BY DEF IInv, TypeInv, Tmp, StatsTmp, Lock, Mod, Stats
<1>2. /\ DOMAIN fs' = (DOMAIN fs \cup {n2}) \ {n}
      /\ fs'[n2].complete = fs[n].complete
      /\ HasFields(fs'[n2])
      /\ \A x \in DOMAIN fs \ {n, n2} : fs'[x] = fs[x]
  <2>1. /\ DOMAIN Move(fs, n, n2) = (DOMAIN fs \cup {n2}) \ {n}
        /\ Move(fs, n, n2)[n2].complete = fs[n].complete
        /\ HasFields(Move(fs, n, n2)[n2])
        /\ \A x \in DOMAIN fs \ {n, n2} : Move(fs, n, n2)[x] = fs[x]
    BY <1>1, MoveFacts, Zenon
  <2> QED
    BY <2>1
<1>3. IsDirectory(fs')
  BY <1>1, <1>2, SMTT(30) DEF IsDirectory
<1>4. ASSUME ~stolen PROVE WholeFiles(fs')
  <2>1. WholeFiles(fs) /\ fs[n].complete
    BY <1>4, SMTT(30) DEF IInv, OwnInv
  <2> QED
    BY <1>2, <2>1, Zenon DEF WholeFiles, Whole
<1>5. ASSUME ~stolen PROVE Keeps(fs, fs', u)
  <2>1. \A m2 \in Mods : \A x \in {Tmp(m2), StatsTmp(m2)} :
            x # n2 /\ (x = n => fs[x].by = u)
    BY <1>5, NamesDiffer, SMTT(30)
  <2> QED
    BY <1>2, <2>1, SMTT(30) DEF Keeps
<1> QED
  BY <1>3, <1>4, <1>5, Zenon

\* send_cache_event keeps the type of the queues.
LEMMA SendType ==
    ASSUME IInv, NEW p \in Procs, NEW ev \in {"get", "update"} \X Mods, Send(p, ev)
    PROVE  queue' \in [Procs -> Seq({"get", "update"} \X Mods)]
<1> DEFINE Events == {"get", "update"} \X Mods
<1> HIDE DEF Events
<1>1. queue \in [Procs -> Seq(Events)] /\ ev \in Events
  BY DEF IInv, TypeInv, Events
<1>2. Append(queue[p], ev) \in Seq(Events)
  BY <1>1
<1>3. queue' = queue \/ queue' = [queue EXCEPT ![p] = Append(queue[p], ev)]
  BY DEF Send
<1>4. queue' \in [Procs -> Seq(Events)]
  BY <1>1, <1>2, <1>3, Zenon
<1> QED
  BY <1>4 DEF Events

-----------------------------------------------------------------------------
(* The steps of the main thread *)

\* A new state of one thread.
LEMMA UpdateMain ==
    ASSUME IInv, NEW p \in Procs, NEW r \in MainStates, main' = [main EXCEPT ![p] = r]
    PROVE  /\ main' \in [Procs -> MainStates]
           /\ \A q \in Procs \ {p} : main'[q] = main[q]
           /\ main'[p] = r
BY DEF IInv, TypeInv

\* The idle state, and the start of a write.
LEMMA StatesOfMain ==
    /\ [pc |-> "idle", m |-> {}, tries |-> 0] \in MainStates
    /\ \A m \in Mods : [pc |-> "create", m |-> {m}, tries |-> 2] \in MainStates
<1>1. {} \in AtMostOne /\ \A m \in Mods : {m} \in AtMostOne
  BY DEF AtMostOne
<1>2. ASSUME NEW S \in AtMostOne, NEW l \in Labels, NEW k \in Nat
      PROVE  [pc |-> l, m |-> S, tries |-> k] \in MainStates
  BY DEF MainStates
<1>3. "idle" \in Labels /\ "create" \in Labels
  BY DEF Labels
<1> QED
  BY <1>1, <1>2, <1>3, Zenon

\* The move to another step of a write.
LEMMA MoveOfMain ==
    ASSUME NEW r \in MainStates, NEW l \in Labels
    PROVE  /\ [r EXCEPT !.pc = l] \in MainStates
           /\ [r EXCEPT !.pc = l].pc = l
           /\ [r EXCEPT !.pc = l].m = r.m
           /\ [r EXCEPT !.pc = l, !.tries = 1] \in MainStates
BY Zenon DEF MainStates

\* After the failure of fs_write_atomic the thread owns nothing.
LEMMA WriteFailsKeeps ==
    ASSUME IInv, NEW p \in alive, WriteFails(p), UNCHANGED <<worker, alive, stolen>>
    PROVE  IInv'
<1>1. p \in Procs /\ main \in [Procs -> MainStates]
  BY DEF IInv, TypeInv
<1>2. /\ main' \in [Procs -> MainStates]
      /\ \A q \in Procs \ {p} : main'[q] = main[q]
      /\ main'[p].pc \in {"create", "idle"}
  <2> DEFINE r == IF main[p].tries = 2 THEN [main[p] EXCEPT !.pc = "create", !.tries = 1]
                  ELSE [pc |-> "idle", m |-> {}, tries |-> 0]
  <2>1. r \in MainStates
    BY <1>1, StatesOfMain, MoveOfMain, Zenon DEF Labels
  <2>2. r.pc \in {"create", "idle"}
    BY <1>1 DEF MainStates
  <2> HIDE DEF r
  <2>3. main' = [main EXCEPT ![p] = r]
    BY DEF WriteFails, r
  <2> QED
    BY <1>1, <2>1, <2>2, <2>3, UpdateMain, Zenon
<1>3. fs' = fs /\ queue' = queue
  BY DEF WriteFails
<1>4. queue' \in [Procs -> Seq({"get", "update"} \X Mods)]
  BY <1>3, SMTT(30) DEF IInv, TypeInv
<1> QED
  BY <1>2, <1>3, <1>4, SameDirectory, MainStep, Zenon DEF MainOwns

\* Get.
LEMMA GetKeeps ==
    ASSUME IInv, NEW p \in Procs, Get(p)
    PROVE  IInv'
<1>1. PICK m \in Mods :
        \/ Readable(Mod(m)) /\ Send(p, <<"get", m>>) /\ UNCHANGED main
        \/ /\ ~Readable(Mod(m))
           /\ main' = [main EXCEPT ![p] = [pc |-> "create", m |-> {m}, tries |-> 2]]
           /\ UNCHANGED <<queue, lost>>
  BY DEF Get
<1>2. p \in alive /\ main[p].pc = "idle" /\ UNCHANGED <<fs, worker, alive, stolen>>
  BY DEF Get
<1>3. queue' \in [Procs -> Seq({"get", "update"} \X Mods)]
  BY <1>1, SendType, Zenon DEF IInv, TypeInv
<1>4. /\ main' \in [Procs -> MainStates]
      /\ \A q \in Procs \ {p} : main'[q] = main[q]
      /\ main'[p].pc \in {"create", "idle"}
  <2>1. CASE UNCHANGED main
    BY <1>2, <2>1, SMTT(30) DEF IInv, TypeInv
  <2>2. CASE main' = [main EXCEPT ![p] = [pc |-> "create", m |-> {m}, tries |-> 2]]
    BY <2>2, StatesOfMain, UpdateMain, Zenon
  <2> QED
    BY <1>1, <2>1, <2>2, Zenon
<1> QED
  BY <1>2, <1>3, <1>4, SameDirectory, MainStep, Zenon DEF MainOwns

\* CreateTmp: the name was free, so the thread is the owner of what it creates.
LEMMA CreateTmpKeeps ==
    ASSUME IInv, NEW p \in Procs, CreateTmp(p)
    PROVE  IInv'
<1>1. PICK m \in main[p].m :
        \/ WriteFails(p)
        \/ /\ ~Exists(Tmp(m))
           /\ fs' = Put(fs, Tmp(m), File(<<p, "main">>, BASE, 0, FALSE))
           /\ main' = [main EXCEPT ![p].pc = "write"]
           /\ UNCHANGED <<dir, recent, queue, lost>>
  BY Zenon DEF CreateTmp
<1>2. p \in alive /\ UNCHANGED <<worker, alive, stolen>>
  BY DEF CreateTmp
<1>3. CASE WriteFails(p)
  BY <1>2, <1>3, WriteFailsKeeps, Zenon
<1>4. CASE /\ ~Exists(Tmp(m))
           /\ fs' = Put(fs, Tmp(m), File(<<p, "main">>, BASE, 0, FALSE))
           /\ main' = [main EXCEPT ![p].pc = "write"]
           /\ UNCHANGED <<dir, recent, queue, lost>>
  <2>1. main \in [Procs -> MainStates]
    BY DEF IInv, TypeInv
  <2>2. /\ main' \in [Procs -> MainStates]
        /\ \A q \in Procs \ {p} : main'[q] = main[q]
        /\ main'[p].pc = "write" /\ main'[p].m = main[p].m
    <3> DEFINE r == [main[p] EXCEPT !.pc = "write"]
    <3>1. r \in MainStates /\ r.pc = "write" /\ r.m = main[p].m
      BY <2>1, main[p] \in MainStates, MoveOfMain, Zenon DEF Labels
    <3>2. main' = [main EXCEPT ![p] = r]
      BY <1>4, SMTT(30)
    <3> HIDE DEF r
    <3> QED
      BY <3>1, <3>2, UpdateMain, Zenon
  <2>3. m \in Mods /\ \A m2 \in main[p].m : m2 = m
    <3>1. main[p].m \in AtMostOne
      BY <2>1, SMTT(30) DEF MainStates
    <3> QED
      BY <3>1, OneModule, SMTT(30)
  <2> DEFINE f == File(<<p, "main">>, BASE, 0, FALSE)
  <2>4. HasFields(f) /\ f.by = <<p, "main">>
    BY DEF File, HasFields
  <2> HIDE DEF f
  <2>5. fs' = Put(fs, Tmp(m), f) /\ Tmp(m) \notin DOMAIN fs
    BY <1>4, SMTT(30) DEF f, Exists
  <2>6. /\ \A m2 \in Mods : Tmp(m) # Mod(m2) /\ Tmp(m) # Stats(m2)
        /\ \A m2 \in Mods, q \in Procs : Tmp(m) # Lock(m2, q)
    BY NamesDiffer, SMTT(30)
  <2>7. IsDirectory(fs') /\ (~stolen => WholeFiles(fs')) /\ \A t : Keeps(fs, fs', t)
    BY <2>4, <2>5, <2>6, PutKeeps, Zenon
  <2>8. Tmp(m) \in DOMAIN fs' /\ fs'[Tmp(m)] = f
    BY <2>5 DEF Put
  <2>9. MainOwns(fs', main', p)
    BY <2>2, <2>3, <2>4, <2>8, Zenon DEF MainOwns, Holds
  <2>10. queue' \in [Procs -> Seq({"get", "update"} \X Mods)]
    BY <1>4 DEF IInv, TypeInv
  <2> QED
    BY <1>2, <2>2, <2>7, <2>9, <2>10, MainStep, Zenon
<1> QED
  BY <1>1, <1>3, <1>4, Zenon

\* WriteTmp makes the owner's file whole.
LEMMA WriteTmpKeeps ==
    ASSUME IInv, NEW p \in Procs, WriteTmp(p)
    PROVE  IInv'
<1>1. /\ p \in alive /\ main[p].pc = "write"
      /\ fs' = Written(fs, <<p, "main">>)
      /\ main' = [main EXCEPT ![p].pc = "rename"]
      /\ UNCHANGED <<queue, worker, alive, stolen>>
  BY DEF WriteTmp
<1>2. main \in [Procs -> MainStates] /\ IsDirectory(fs)
  BY DEF IInv, TypeInv
<1>3. /\ main' \in [Procs -> MainStates]
      /\ \A q \in Procs \ {p} : main'[q] = main[q]
      /\ main'[p].pc = "rename" /\ main'[p].m = main[p].m
  <2> DEFINE r == [main[p] EXCEPT !.pc = "rename"]
  <2>1. r \in MainStates /\ r.pc = "rename" /\ r.m = main[p].m
    BY <1>2, main[p] \in MainStates, MoveOfMain, Zenon DEF Labels
  <2>2. main' = [main EXCEPT ![p] = r]
    BY <1>1
  <2> HIDE DEF r
  <2> QED
    BY <2>1, <2>2, UpdateMain, Zenon
<1>4. IsDirectory(fs') /\ (~stolen => WholeFiles(fs')) /\ \A t : Keeps(fs, fs', t)
  BY <1>1, WrittenKeeps, Zenon
<1>5. ~stolen => MainOwns(fs', main', p)
  <2>1. ~stolen => \A m \in main[p].m : Holds(fs, Tmp(m), <<p, "main">>, FALSE)
    BY <1>1 DEF IInv, OwnInv, MainOwns, Holds
  <2>2. /\ DOMAIN fs' = DOMAIN fs
        /\ \A x \in DOMAIN fs : /\ fs'[x].by = fs[x].by
                                /\ fs[x].by = <<p, "main">> => fs'[x].complete
    BY <1>1, <1>2, WrittenFacts, Zenon
  <2> QED
    BY <1>3, <2>1, <2>2, Zenon DEF MainOwns, Holds
<1>6. queue' \in [Procs -> Seq({"get", "update"} \X Mods)]
  BY <1>1 DEF IInv, TypeInv
<1> QED
  BY <1>1, <1>3, <1>4, <1>5, <1>6, MainStep, Zenon

\* RenameTmp moves the owner's file, which is whole.
LEMMA RenameTmpKeeps ==
    ASSUME IInv, NEW p \in Procs, RenameTmp(p)
    PROVE  IInv'
<1>1. PICK m \in main[p].m :
        \/ WriteFails(p)
        \/ /\ Exists(Tmp(m))
           /\ fs' = Move(fs, Tmp(m), Mod(m))
           /\ main' = [main EXCEPT ![p] = [pc |-> "idle", m |-> {}, tries |-> 0]]
           /\ Send(p, <<"update", m>>)
  BY Zenon DEF RenameTmp
<1>2. p \in alive /\ main[p].pc = "rename" /\ UNCHANGED <<worker, alive, stolen>>
  BY DEF RenameTmp
<1>3. CASE WriteFails(p)
  BY <1>2, <1>3, WriteFailsKeeps, Zenon
<1>4. CASE /\ Exists(Tmp(m))
           /\ fs' = Move(fs, Tmp(m), Mod(m))
           /\ main' = [main EXCEPT ![p] = [pc |-> "idle", m |-> {}, tries |-> 0]]
           /\ Send(p, <<"update", m>>)
  <2>1. main[p].m \in AtMostOne
    BY DEF IInv, TypeInv, MainStates
  <2>2. m \in Mods
    BY <2>1, OneModule, SMTT(30)
  <2>3. /\ main' \in [Procs -> MainStates]
        /\ \A q \in Procs \ {p} : main'[q] = main[q]
        /\ main'[p].pc = "idle"
    BY <1>4, StatesOfMain, UpdateMain, Zenon
  <2>4. queue' \in [Procs -> Seq({"get", "update"} \X Mods)]
    BY <1>4, <2>2, SendType, Zenon
  <2>5. ~stolen => fs[Tmp(m)].complete /\ fs[Tmp(m)].by = <<p, "main">>
    BY <1>2, Zenon DEF IInv, OwnInv, MainOwns, Holds
  <2>6. IsDirectory(fs') /\ (~stolen => WholeFiles(fs') /\ Keeps(fs, fs', <<p, "main">>))
    BY <1>4, <2>2, <2>5, MoveKeeps, Zenon DEF Exists
  <2> QED
    BY <1>2, <2>3, <2>4, <2>6, MainStep, Zenon DEF MainOwns
<1> QED
  BY <1>1, <1>3, <1>4, Zenon

-----------------------------------------------------------------------------
(* The steps of the worker *)

\* A new state of one worker.
LEMMA UpdateWorker ==
    ASSUME IInv, NEW p \in Procs, NEW r, IsWorkerState(r), worker' = [worker EXCEPT ![p] = r]
    PROVE  /\ DOMAIN worker' = Procs
           /\ \A q \in Procs \ {p} : worker'[q] = worker[q]
           /\ worker'[p] = r
BY DEF IInv, TypeInv

\* Goto moves a worker and leaves the rest of it.
LEMMA GotoFacts ==
    ASSUME IInv, NEW p \in Procs, NEW l, Goto(p, l)
    PROVE  /\ DOMAIN worker' = Procs
           /\ \A q \in Procs \ {p} : worker'[q] = worker[q]
           /\ IsWorkerState(worker'[p])
           /\ worker'[p].pc = l /\ worker'[p].m = worker[p].m
<1> DEFINE r == [worker[p] EXCEPT !.pc = l]
<1>1. IsWorkerState(worker[p])
  BY DEF IInv, TypeInv
<1>2. IsWorkerState(r) /\ r.pc = l /\ r.m = worker[p].m
  BY <1>1 DEF IsWorkerState
<1>3. worker' = [worker EXCEPT ![p] = r]
  BY DEF Goto
<1> HIDE DEF r
<1> QED
  BY <1>2, <1>3, UpdateWorker, Zenon

\* Done leaves it without work.
LEMMA DoneFacts ==
    ASSUME IInv, NEW p \in Procs, Done(p)
    PROVE  /\ DOMAIN worker' = Procs
           /\ \A q \in Procs \ {p} : worker'[q] = worker[q]
           /\ IsWorkerState(worker'[p])
           /\ worker'[p].pc = "recv"
<1>1. {} \in AtMostOne
  BY DEF AtMostOne
<1>2. IsWorkerState(NoWork) /\ NoWork.pc = "recv"
  BY <1>1, SMTT(30) DEF NoWork, IsWorkerState
<1>3. worker' = [worker EXCEPT ![p] = NoWork]
  BY DEF Done
<1> QED
  BY <1>2, <1>3, UpdateWorker, Zenon

\* WriteStatsThen gives it statistics to write.
LEMMA WriteStatsThenFacts ==
    ASSUME IInv, NEW p \in Procs, NEW m \in Mods, NEW st,
           NEW then \in {"recv", "decide", "cl_list"}, WriteStatsThen(p, m, st, then)
    PROVE  /\ DOMAIN worker' = Procs
           /\ \A q \in Procs \ {p} : worker'[q] = worker[q]
           /\ IsWorkerState(worker'[p])
           /\ worker'[p].pc = "create_stats"
<1> DEFINE r == [pc |-> "create_stats", m |-> {m}, then |-> then, st |-> st, todo |-> {}]
<1>1. {m} \in AtMostOne
  BY SMTT(30) DEF AtMostOne
<1>2. IsWorkerState(r) /\ r.pc = "create_stats"
  BY <1>1, SMTT(30) DEF IsWorkerState
<1>3. worker' = [worker EXCEPT ![p] = r]
  BY SMTT(30) DEF WriteStatsThen
<1> HIDE DEF r
<1> QED
  BY <1>2, <1>3, UpdateWorker, Zenon

\* A step that neither changes a file nor leads to a place where one is owned.
LEMMA IdleStep ==
    ASSUME IInv, NEW p \in alive, UNCHANGED <<fs, main, alive, stolen>>,
           DOMAIN worker' = Procs,
           \A q \in Procs \ {p} : worker'[q] = worker[q],
           IsWorkerState(worker'[p]),
           worker'[p].pc \notin {"write_stats", "rename_stats"},
           queue' \in [Procs -> Seq({"get", "update"} \X Mods)]
    PROVE  IInv'
<1>1. stolen \in BOOLEAN
  BY DEF IInv, TypeInv
<1> QED
  BY <1>1, SameDirectory, WorkerStep, Zenon DEF WorkerOwns

\* The steps that only look: Decide, LockList, ReadMod, Reread, CleanupList and List.
LEMMA LookKeeps ==
    ASSUME IInv, NEW p \in Procs,
           \/ Decide(p) \/ LockList(p) \/ ReadMod(p) \/ CleanupList(p) \/ Reread(p) \/ List(p)
    PROVE  IInv'
<1>1. p \in alive /\ UNCHANGED <<fs, queue, main, alive, stolen>>
  BY Zenon DEF Decide, LockList, ReadMod, CleanupList, Reread, List, At, NotWorker
<1>2. queue' \in [Procs -> Seq({"get", "update"} \X Mods)]
  BY <1>1, Zenon DEF IInv, TypeInv
<1>3. CASE Decide(p)
  BY <1>1, <1>2, <1>3, DoneFacts, GotoFacts, IdleStep, SMTT(30) DEF Decide
<1>4. CASE LockList(p)
  BY <1>1, <1>2, <1>4, DoneFacts, GotoFacts, IdleStep, SMTT(30) DEF LockList
<1>5. CASE ReadMod(p)
  BY <1>1, <1>2, <1>5, DoneFacts, GotoFacts, IdleStep, SMTT(30) DEF ReadMod
<1>6. CASE CleanupList(p)
  BY <1>1, <1>2, <1>6, DoneFacts, GotoFacts, IdleStep, SMTT(30) DEF CleanupList
<1>7. CASE Reread(p)
  <2>1. worker[p].m \subseteq Mods
    BY OneModule, SMTT(30) DEF IInv, TypeInv, IsWorkerState
  <2> QED
    BY <1>1, <1>2, <1>7, <2>1, DoneFacts, WriteStatsThenFacts, IdleStep, Zenon DEF Reread
<1>8. CASE List(p)
  <2>1. PICK S : worker' = [worker EXCEPT ![p].pc = "delete", ![p].todo = S]
    BY <1>8, SMTT(30) DEF List
  <2> DEFINE r == [worker[p] EXCEPT !.pc = "delete", !.todo = S]
  <2>2. IsWorkerState(r) /\ r.pc = "delete"
    BY DEF IInv, TypeInv, IsWorkerState
  <2>3. worker' = [worker EXCEPT ![p] = r]
    BY <2>1, Zenon
  <2> HIDE DEF r
  <2> QED
    BY <1>1, <1>2, <2>2, <2>3, UpdateWorker, IdleStep, Zenon
<1> QED
  BY <1>3, <1>4, <1>5, <1>6, <1>7, <1>8, Zenon

\* Receive.
LEMMA ReceiveKeeps ==
    ASSUME IInv, NEW p \in Procs, Receive(p)
    PROVE  IInv'
<1> DEFINE Events == {"get", "update"} \X Mods
<1>1. p \in alive /\ queue[p] # <<>> /\ queue' = [queue EXCEPT ![p] = Tail(queue[p])]
      /\ UNCHANGED <<fs, main, alive, stolen>>
  BY Zenon DEF Receive, At, NotWorker
<1>2. queue \in [Procs -> Seq(Events)]
  BY DEF IInv, TypeInv
<1>3. Head(queue[p]) \in Events /\ Tail(queue[p]) \in Seq(Events)
  <2> HIDE DEF Events
  <2>1. queue[p] \in Seq(Events) /\ queue[p] # <<>>
    BY <1>1, <1>2, Zenon
  <2> QED
    BY <2>1, SMTT(30)
<1>4. queue' \in [Procs -> Seq(Events)]
  <2> HIDE DEF Events
  <2> QED
    BY <1>1, <1>2, <1>3, Zenon
<1> DEFINE m == Head(queue[p])[2]
<1>5. m \in Mods
  BY <1>3, Zenon
<1>6. \/ WriteStatsThen(p, m, Used(read_stats_file(m)), "decide")
      \/ WriteStatsThen(p, m, Used(NewStats), "cl_list")
  BY DEF Receive
<1> HIDE DEF m
<1>7. /\ DOMAIN worker' = Procs
      /\ \A q \in Procs \ {p} : worker'[q] = worker[q]
      /\ IsWorkerState(worker'[p])
      /\ worker'[p].pc = "create_stats"
  BY <1>5, <1>6, WriteStatsThenFacts, Zenon
<1> QED
  BY <1>1, <1>4, <1>7, IdleStep, Zenon

\* A failure of write_stats_file.
LEMMA StatsFailKeeps ==
    ASSUME IInv, NEW p \in alive, StatsFail(p), UNCHANGED <<fs, queue, main, alive, stolen>>
    PROVE  IInv'
<1>1. p \in Procs /\ queue' \in [Procs -> Seq({"get", "update"} \X Mods)]
  BY DEF IInv, TypeInv
<1> QED
  BY <1>1, GotoFacts, DoneFacts, IdleStep, Zenon DEF StatsFail

\* CreateStats: as with a module, the name was free.
LEMMA CreateStatsKeeps ==
    ASSUME IInv, NEW p \in Procs, CreateStats(p)
    PROVE  IInv'
<1>1. PICK m \in worker[p].m :
        \/ StatsFail(p) /\ UNCHANGED fs
        \/ /\ ~Exists(StatsTmp(m))
           /\ fs' = Put(fs, StatsTmp(m),
                        File(<<p, "worker">>, worker[p].st.level, worker[p].st.usages, FALSE))
           /\ Goto(p, "write_stats")
  BY Zenon DEF CreateStats
<1>2. p \in alive /\ UNCHANGED <<queue, main, alive, stolen>>
  BY DEF CreateStats, At, NotWorker
<1>3. CASE StatsFail(p) /\ UNCHANGED fs
  BY <1>2, <1>3, StatsFailKeeps, Zenon
<1>4. CASE /\ ~Exists(StatsTmp(m))
           /\ fs' = Put(fs, StatsTmp(m),
                        File(<<p, "worker">>, worker[p].st.level, worker[p].st.usages, FALSE))
           /\ Goto(p, "write_stats")
  <2>1. /\ DOMAIN worker' = Procs
        /\ \A q \in Procs \ {p} : worker'[q] = worker[q]
        /\ IsWorkerState(worker'[p])
        /\ worker'[p].pc = "write_stats" /\ worker'[p].m = worker[p].m
    BY <1>4, GotoFacts, Zenon
  <2>2. worker[p].m \in AtMostOne
    BY Zenon DEF IInv, TypeInv, IsWorkerState
  <2>3. m \in Mods /\ \A m2 \in worker[p].m : m2 = m
    BY <2>2, OneModule
  <2> DEFINE f == File(<<p, "worker">>, worker[p].st.level, worker[p].st.usages, FALSE)
  <2>4. HasFields(f) /\ f.by = <<p, "worker">>
    BY SMTT(30) DEF File, HasFields
  <2>5. fs' = Put(fs, StatsTmp(m), f) /\ StatsTmp(m) \notin DOMAIN fs
    BY <1>4, SMTT(30) DEF Exists
  <2> HIDE DEF f
  <2>6. /\ \A m2 \in Mods : StatsTmp(m) # Mod(m2) /\ StatsTmp(m) # Stats(m2)
        /\ \A m2 \in Mods, q \in Procs : StatsTmp(m) # Lock(m2, q)
    BY NamesDiffer, SMTT(30)
  <2>7. IsDirectory(fs') /\ (~stolen => WholeFiles(fs')) /\ \A t : Keeps(fs, fs', t)
    BY <2>4, <2>5, <2>6, PutKeeps, Zenon
  <2>8. StatsTmp(m) \in DOMAIN fs' /\ fs'[StatsTmp(m)] = f
    BY <2>5, Zenon DEF Put
  <2>9. WorkerOwns(fs', worker', p)
    BY <2>1, <2>3, <2>4, <2>8, Zenon DEF WorkerOwns, Holds
  <2>10. stolen' \in BOOLEAN /\ queue' \in [Procs -> Seq({"get", "update"} \X Mods)]
    BY <1>2, SMTT(30) DEF IInv, TypeInv
  <2> QED
    BY <1>2, <2>1, <2>7, <2>9, <2>10, WorkerStep, Zenon
<1> QED
  BY <1>1, <1>3, <1>4, Zenon

\* WriteStats.
LEMMA WriteStatsKeeps ==
    ASSUME IInv, NEW p \in Procs, WriteStats(p)
    PROVE  IInv'
<1>1. /\ p \in alive /\ worker[p].pc = "write_stats"
      /\ fs' = Written(fs, <<p, "worker">>)
      /\ Goto(p, "rename_stats")
      /\ UNCHANGED <<queue, main, alive, stolen>>
  BY SMTT(30) DEF WriteStats, At, NotWorker
<1>2. /\ DOMAIN worker' = Procs
      /\ \A q \in Procs \ {p} : worker'[q] = worker[q]
      /\ IsWorkerState(worker'[p])
      /\ worker'[p].pc = "rename_stats" /\ worker'[p].m = worker[p].m
  BY <1>1, GotoFacts, Zenon
<1>3. IsDirectory(fs') /\ (~stolen => WholeFiles(fs')) /\ \A t : Keeps(fs, fs', t)
  BY <1>1, WrittenKeeps, Zenon
<1>4. ~stolen => WorkerOwns(fs', worker', p)
  <2>1. ~stolen => \A m \in worker[p].m : Holds(fs, StatsTmp(m), <<p, "worker">>, FALSE)
    BY <1>1, SMTT(30) DEF IInv, OwnInv, WorkerOwns, Holds
  <2>2. IsDirectory(fs)
    BY Zenon DEF IInv, TypeInv
  <2>3. /\ DOMAIN fs' = DOMAIN fs
        /\ \A x \in DOMAIN fs : /\ fs'[x].by = fs[x].by
                                /\ fs[x].by = <<p, "worker">> => fs'[x].complete
    BY <1>1, <2>2, WrittenFacts, Zenon
  <2> QED
    BY <1>2, <2>1, <2>3, Zenon DEF WorkerOwns, Holds
<1>5. stolen' \in BOOLEAN /\ queue' \in [Procs -> Seq({"get", "update"} \X Mods)]
  BY <1>1, Zenon DEF IInv, TypeInv
<1> QED
  BY <1>1, <1>2, <1>3, <1>4, <1>5, WorkerStep, Zenon

\* RenameStats.
LEMMA RenameStatsKeeps ==
    ASSUME IInv, NEW p \in Procs, RenameStats(p)
    PROVE  IInv'
<1>1. PICK m \in worker[p].m :
        \/ StatsFail(p) /\ UNCHANGED fs
        \/ /\ Exists(StatsTmp(m))
           /\ fs' = Move(fs, StatsTmp(m), Stats(m))
           /\ IF worker[p].then = "recv" THEN Done(p) ELSE Goto(p, worker[p].then)
  BY Zenon DEF RenameStats
<1>2. p \in alive /\ worker[p].pc = "rename_stats" /\ UNCHANGED <<queue, main, alive, stolen>>
  BY SMTT(30) DEF RenameStats, At, NotWorker
<1>3. CASE StatsFail(p) /\ UNCHANGED fs
  BY <1>2, <1>3, StatsFailKeeps, Zenon
<1>4. CASE /\ Exists(StatsTmp(m))
           /\ fs' = Move(fs, StatsTmp(m), Stats(m))
           /\ IF worker[p].then = "recv" THEN Done(p) ELSE Goto(p, worker[p].then)
  <2>1. worker[p].m \in AtMostOne /\ worker[p].then \in {"recv", "decide", "cl_list"}
    BY DEF IInv, TypeInv, IsWorkerState
  <2>2. m \in Mods
    BY <2>1, OneModule, Zenon
  <2>3. /\ DOMAIN worker' = Procs
        /\ \A q \in Procs \ {p} : worker'[q] = worker[q]
        /\ IsWorkerState(worker'[p])
        /\ worker'[p].pc \in {"recv", "decide", "cl_list"}
    BY <1>4, <2>1, DoneFacts, GotoFacts, Zenon
  <2>4. ~stolen => fs[StatsTmp(m)].complete /\ fs[StatsTmp(m)].by = <<p, "worker">>
    BY <1>2, Zenon DEF IInv, OwnInv, WorkerOwns, Holds
  <2>5. IsDirectory(fs') /\ (~stolen => WholeFiles(fs') /\ Keeps(fs, fs', <<p, "worker">>))
    BY <1>4, <2>2, <2>4, MoveKeeps, Zenon DEF Exists
  <2>6. stolen' \in BOOLEAN /\ queue' \in [Procs -> Seq({"get", "update"} \X Mods)]
    BY <1>2, SMTT(30) DEF IInv, TypeInv
  <2> QED
    BY <1>2, <2>3, <2>5, <2>6, WorkerStep, Zenon DEF WorkerOwns
<1> QED
  BY <1>1, <1>3, <1>4, Zenon

\* The lock files, which are never renamed before they are whole: LockCreate, WriteLock
\* and CleanupCreate.
LEMMA LockKeeps ==
    ASSUME IInv, NEW p \in Procs, LockCreate(p) \/ WriteLock(p) \/ CleanupCreate(p)
    PROVE  IInv'
<1>1. p \in alive /\ UNCHANGED <<queue, main, alive, stolen>>
  BY Zenon DEF LockCreate, WriteLock, CleanupCreate, At, NotWorker
<1>2. stolen' \in BOOLEAN /\ queue' \in [Procs -> Seq({"get", "update"} \X Mods)]
  BY <1>1, Zenon DEF IInv, TypeInv
<1>3. CASE UNCHANGED fs /\ Done(p)
  BY <1>1, <1>2, <1>3, DoneFacts, IdleStep, Zenon
<1>4. ASSUME NEW n, NEW level, NEW l \in {"read_mod", "rename_lock", "list"},
             n = CleanupLock(p) \/ \E m \in worker[p].m : n = Lock(m, p),
             fs' = Put(fs, n, File(<<p, "worker">>, level, 0, TRUE)),
             Goto(p, l)
      PROVE  IInv'
  <2> DEFINE f == File(<<p, "worker">>, level, 0, TRUE)
  <2>1. HasFields(f) /\ f.complete
    BY SMTT(30) DEF File, HasFields
  <2>2. fs' = Put(fs, n, f)
    BY <1>4, Zenon
  <2> HIDE DEF f
  <2>3. \A m2 \in Mods : n # Tmp(m2) /\ n # StatsTmp(m2) /\ n # Mod(m2) /\ n # Stats(m2)
    BY <1>4, NamesDiffer, SMTT(30)
  <2>4. IsDirectory(fs') /\ (~stolen => WholeFiles(fs')) /\ \A t : Keeps(fs, fs', t)
    BY <2>1, <2>2, <2>3, PutKeeps, Zenon
  <2>5. /\ DOMAIN worker' = Procs
        /\ \A q \in Procs \ {p} : worker'[q] = worker[q]
        /\ IsWorkerState(worker'[p])
        /\ worker'[p].pc = l
    BY <1>4, GotoFacts, SMTT(30)
  <2> QED
    BY <1>1, <1>2, <2>4, <2>5, WorkerStep, Zenon DEF WorkerOwns
<1>5. CASE LockCreate(p)
  BY <1>3, <1>4, <1>5, Zenon DEF LockCreate
<1>6. CASE WriteLock(p)
  BY <1>3, <1>4, <1>6, Zenon DEF WriteLock
<1>7. CASE CleanupCreate(p)
  BY <1>3, <1>4, <1>7, Zenon DEF CleanupCreate
<1> QED
  BY <1>5, <1>6, <1>7, Zenon

\* RenameLock.
LEMMA RenameLockKeeps ==
    ASSUME IInv, NEW p \in Procs, RenameLock(p)
    PROVE  IInv'
<1>1. PICK m \in worker[p].m :
        \/ Done(p) /\ UNCHANGED fs
        \/ /\ Exists(Lock(m, p))
           /\ fs' = Move(fs, Lock(m, p), Mod(m))
           /\ Goto(p, "reread")
  BY Zenon DEF RenameLock
<1>2. p \in alive /\ UNCHANGED <<queue, main, alive, stolen>>
  BY Zenon DEF RenameLock, At, NotWorker
<1>3. stolen' \in BOOLEAN /\ queue' \in [Procs -> Seq({"get", "update"} \X Mods)]
  BY <1>2 DEF IInv, TypeInv
<1>4. CASE Done(p) /\ UNCHANGED fs
  BY <1>2, <1>3, <1>4, DoneFacts, IdleStep, Zenon
<1>5. CASE Exists(Lock(m, p)) /\ fs' = Move(fs, Lock(m, p), Mod(m)) /\ Goto(p, "reread")
  <2>1. worker[p].m \in AtMostOne
    BY SMTT(30) DEF IInv, TypeInv, IsWorkerState
  <2>2. m \in Mods
    BY <2>1, OneModule
  <2>3. /\ DOMAIN worker' = Procs
        /\ \A q \in Procs \ {p} : worker'[q] = worker[q]
        /\ IsWorkerState(worker'[p])
        /\ worker'[p].pc = "reread"
    BY <1>5, GotoFacts, Zenon
  <2>4. ~stolen => fs[Lock(m, p)].complete
    BY <1>5, <2>2, Zenon DEF IInv, OwnInv, WholeFiles, Whole, Exists
  <2>5. IsDirectory(fs') /\ (~stolen => WholeFiles(fs') /\ Keeps(fs, fs', <<p, "worker">>))
    BY <1>5, <2>2, <2>4, MoveKeeps, Zenon DEF Exists
  <2> QED
    BY <1>2, <1>3, <2>3, <2>5, WorkerStep, Zenon DEF WorkerOwns
<1> QED
  BY <1>1, <1>4, <1>5, Zenon

\* Delete: a temporary file of a living process makes the cleanup a thief.
LEMMA DeleteKeeps ==
    ASSUME IInv, NEW p \in Procs, Delete(p)
    PROVE  IInv'
<1>1. p \in alive /\ worker[p].pc = "delete" /\ UNCHANGED <<queue, main, alive>>
  BY Zenon DEF Delete, At, NotWorker
<1>2. queue' \in [Procs -> Seq({"get", "update"} \X Mods)] /\ stolen \in BOOLEAN
  BY <1>1, Zenon DEF IInv, TypeInv
<1>3. CASE Done(p) /\ UNCHANGED <<fs, stolen>>
  BY <1>1, <1>2, <1>3, DoneFacts, IdleStep, Zenon
<1>4. CASE \E n \in worker[p].todo :
             /\ worker' = [worker EXCEPT ![p].todo = @ \ {n}]
             /\ fs' = Without(fs, {n})
             /\ stolen' = (stolen \/ (Exists(n) /\ n \in Locks
                                      /\ (fs[n].by[1] \in alive \/ ~fs[n].expired)))
  <2>1. PICK n \in worker[p].todo :
             /\ worker' = [worker EXCEPT ![p].todo = @ \ {n}]
             /\ fs' = Without(fs, {n})
             /\ stolen' = (stolen \/ (Exists(n) /\ n \in Locks
                                      /\ (fs[n].by[1] \in alive \/ ~fs[n].expired)))
    BY <1>4, Zenon
  <2>2. stolen' \in BOOLEAN /\ (stolen => stolen')
    BY <1>2, <2>1, SMTT(30)
  <2>3. /\ DOMAIN worker' = Procs
        /\ \A q \in Procs \ {p} : worker'[q] = worker[q]
        /\ IsWorkerState(worker'[p])
        /\ worker'[p].pc = "delete"
    <3> DEFINE r == [worker[p] EXCEPT !.todo = worker[p].todo \ {n}]
    <3>1. IsWorkerState(r) /\ r.pc = "delete"
      BY <1>1, SMTT(30) DEF IInv, TypeInv, IsWorkerState
    <3>2. worker' = [worker EXCEPT ![p] = r]
      BY <2>1, SMTT(30)
    <3> HIDE DEF r
    <3> QED
      BY <3>1, <3>2, UpdateWorker, Zenon
  <2>4. /\ DOMAIN fs' = DOMAIN fs \ {n}
        /\ \A x \in DOMAIN fs \ {n} : fs'[x] = fs[x]
    BY <2>1, Zenon DEF Without
  <2>5. IsDirectory(fs')
    BY <2>4, Zenon DEF IInv, TypeInv, IsDirectory
  <2>6. ASSUME ~stolen' PROVE WholeFiles(fs')
    <3>1. WholeFiles(fs)
      BY <2>2, <2>6, Zenon DEF IInv, OwnInv
    <3> QED
      BY <2>4, <3>1, Zenon DEF WholeFiles, Whole
  <2>7. ASSUME ~stolen' PROVE Keeps(fs, fs', <<p, "worker">>)
    <3>1. ASSUME NEW m \in Mods, NEW x \in {Tmp(m), StatsTmp(m)},
                 x \in DOMAIN fs, fs[x].by[1] \in alive
          PROVE  x # n
      <4>1. x \in Locks
        <5>1. x \in WipFiles(m)
          BY DEF WipFiles
        <5> QED
          BY <5>1, SMTT(30) DEF Locks
      <4> QED
        BY <2>1, <2>7, <3>1, <4>1, Zenon DEF Exists
    <3> QED
      BY <2>4, <3>1, Zenon DEF Keeps
  <2> QED
    BY <1>1, <1>2, <2>2, <2>3, <2>5, <2>6, <2>7, WorkerStep, Zenon DEF WorkerOwns
<1> QED
  BY <1>3, <1>4, Zenon DEF Delete

-----------------------------------------------------------------------------
(* Time, crashes, and the theorem *)

\* A file that expires is the same file.
LEMMA ExpireKeeps ==
    ASSUME IInv, NEW n, Expire(n)
    PROVE  IInv'
<1>1. n \in DOMAIN fs /\ IsDirectory(fs)
  BY DEF Expire, Exists, IInv, TypeInv
<1>2. fs' = [fs EXCEPT ![n].expired = TRUE] /\ UNCHANGED <<main, queue, worker, alive, stolen>>
  BY DEF Expire
<1>3. /\ DOMAIN fs' = DOMAIN fs
      /\ \A x \in DOMAIN fs : HasFields(fs'[x]) /\ fs'[x].by = fs[x].by
                              /\ fs'[x].complete = fs[x].complete
  <2> DEFINE f == [fs[n] EXCEPT !.expired = TRUE]
  <2>1. HasFields(f) /\ f.by = fs[n].by /\ f.complete = fs[n].complete
    BY <1>1, SMTT(30) DEF IsDirectory, HasFields
  <2>2. fs' = [fs EXCEPT ![n] = f]
    BY <1>2, SMTT(30)
  <2> HIDE DEF f
  <2> QED
    BY <1>1, <2>1, <2>2, Zenon DEF IsDirectory
<1>4. TypeInv'
  BY <1>2, <1>3, Zenon DEF IInv, TypeInv, IsDirectory
<1>5. ASSUME ~stolen PROVE OwnInv'
  <2>1. WholeFiles(fs')
    BY <1>3, <1>5, Zenon DEF IInv, OwnInv, WholeFiles, Whole
  <2>2. ASSUME NEW q \in alive
        PROVE  MainOwns(fs', main, q) /\ WorkerOwns(fs', worker, q)
    BY <1>3, <1>5, Zenon DEF IInv, OwnInv, MainOwns, WorkerOwns, Holds
  <2> QED
    BY <1>2, <2>1, <2>2, Zenon DEF OwnInv, MainOwns, WorkerOwns, WholeFiles, Whole, Holds
<1> QED
  BY <1>2, <1>4, <1>5, Zenon DEF IInv

\* A process that crashes leaves its files as they are and no longer owns any.
LEMMA CrashKeeps ==
    ASSUME IInv, NEW p \in Procs, Crash(p)
    PROVE  IInv'
<1> DEFINE idle == [pc |-> "idle", m |-> {}, tries |-> 0]
<1>1. /\ alive' = alive \ {p} /\ UNCHANGED <<fs, stolen>>
      /\ main' = [main EXCEPT ![p] = idle]
      /\ queue' = [queue EXCEPT ![p] = <<>>]
      /\ Done(p)
  BY Zenon DEF Crash, Done
<1>2. idle \in MainStates
  BY StatesOfMain, SMTT(30)
<1> HIDE DEF idle
<1>3. main' \in [Procs -> MainStates] /\ \A q \in Procs \ {p} : main'[q] = main[q]
  BY <1>1, <1>2, UpdateMain, Zenon
<1>4. DOMAIN worker' = Procs /\ (\A q \in Procs \ {p} : worker'[q] = worker[q])
      /\ IsWorkerState(worker'[p])
  BY <1>1, DoneFacts, SMTT(30)
<1>5. queue' \in [Procs -> Seq({"get", "update"} \X Mods)]
  BY <1>1, SMTT(30) DEF IInv, TypeInv
<1>6. TypeInv'
  BY <1>1, <1>3, <1>4, <1>5, Zenon DEF IInv, TypeInv
<1>7. ASSUME ~stolen PROVE OwnInv'
  <2>1. \A q \in alive' : q \in alive /\ q \in Procs \ {p}
    BY <1>1, SMTT(30) DEF IInv, TypeInv
  <2>2. OwnInv /\ fs' = fs
    BY <1>1, <1>7, Zenon DEF IInv
  <2>3. ASSUME NEW q \in alive' PROVE MainOwns(fs, main, q)' /\ WorkerOwns(fs, worker, q)'
    <3>1. MainOwns(fs, main, q) /\ WorkerOwns(fs, worker, q)
      BY <2>1, <2>2, Zenon DEF OwnInv
    <3>2. main'[q] = main[q] /\ worker'[q] = worker[q]
      BY <1>3, <1>4, <2>1, Zenon
    <3>3. MainOwns(fs, main, q)'
      BY <2>2, <3>1, <3>2, Zenon DEF MainOwns, Holds
    <3>4. WorkerOwns(fs, worker, q)'
      BY <2>2, <3>1, <3>2, Zenon DEF WorkerOwns, Holds
    <3> QED
      BY <3>3, <3>4, Zenon
  <2>4. WholeFiles(fs)'
    BY <2>2, SMTT(30) DEF OwnInv, WholeFiles, Whole
  <2> QED
    BY <2>3, <2>4, Zenon DEF OwnInv
<1> QED
  BY <1>1, <1>6, <1>7, Zenon DEF IInv

\* Stuttering.
LEMMA StutterKeeps ==
    ASSUME IInv, UNCHANGED vars
    PROVE  IInv'
BY Zenon DEF vars, IInv, TypeInv, OwnInv, MainOwns, WorkerOwns, WholeFiles, Whole, Holds

\* The empty directory.
LEMMA InitHolds == Init => IInv
<1> SUFFICES ASSUME Init PROVE IInv
  OBVIOUS
<1>1. {} \in AtMostOne
  BY DEF AtMostOne
<1>2. IsWorkerState(NoWork) /\ NoWork.pc = "recv"
  BY <1>1, Zenon DEF NoWork, IsWorkerState
<1>3. [pc |-> "idle", m |-> {}, tries |-> 0] \in MainStates
  BY StatesOfMain, Zenon
<1>4. TypeInv
  <2>1. DOMAIN fs = {}
    BY Zenon DEF Init
  <2>2. main \in [Procs -> MainStates]
    BY <1>3, SMTT(30) DEF Init
  <2>3. DOMAIN worker = Procs /\ \A p \in Procs : worker[p] = NoWork
    BY DEF Init
  <2>4. queue \in [Procs -> Seq({"get", "update"} \X Mods)]
    BY DEF Init
  <2>5. alive \subseteq Procs /\ stolen \in BOOLEAN
    BY Zenon DEF Init
  <2> QED
    BY <1>2, <2>1, <2>2, <2>3, <2>4, <2>5, Zenon DEF TypeInv, IsDirectory
<1>5. OwnInv
  BY <1>2, SMTT(30) DEF Init, OwnInv, MainOwns, WorkerOwns, WholeFiles, Whole
<1> QED
  BY <1>4, <1>5, SMTT(30) DEF IInv

\* A reader of the cache never finds part of a module or of its statistics (get_data,
\* read_stats_file) under any number of processes that crash anywhere, any limits and any
\* time-outs, unless a cleanup deleted a lock of a living process.
THEOREM CacheFilesAreWhole == Spec => []FilesAreWhole
<1>1. IInv /\ [Next]_vars => IInv'
  <2> SUFFICES ASSUME IInv, [Next]_vars PROVE IInv'
    OBVIOUS
  <2>1. CASE UNCHANGED vars
    BY <2>1, StutterKeeps, Zenon
  <2>2. ASSUME NEW p \in Procs, Get(p) \/ Main(p) \/ Work(p) \/ Crash(p)
        PROVE  IInv'
    <3>1. CASE Get(p)
      BY <3>1, GetKeeps, Zenon
    <3>2. CASE Main(p)
      BY <3>2, CreateTmpKeeps, WriteTmpKeeps, RenameTmpKeeps, Zenon DEF Main
    <3>3. CASE Work(p)
      BY Zenon, <3>3, ReceiveKeeps, CreateStatsKeeps, WriteStatsKeeps, RenameStatsKeeps, LookKeeps,
         LockKeeps, RenameLockKeeps, DeleteKeeps DEF Work
    <3>4. CASE Crash(p)
      BY <3>4, CrashKeeps, SMTT(30)
    <3> QED
      BY <2>2, <3>1, <3>2, <3>3, <3>4, Zenon
  <2>3. ASSUME NEW n \in Locks, Expire(n) PROVE IInv'
    BY <2>3, ExpireKeeps, Zenon
  <2> QED
    BY <2>1, <2>2, <2>3, Zenon DEF Next
<1>2. IInv => FilesAreWhole
  BY DEF IInv, TypeInv, OwnInv, WholeFiles, Whole, FilesAreWhole, Exists, Mod, Stats
<1> QED
  BY InitHolds, <1>1, <1>2, PTL, SMTT(30) DEF Spec
=============================================================================
