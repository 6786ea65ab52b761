---------------------------- MODULE HarnessProofs ---------------------------
(***************************************************************************)
(* What a benchmark may rely on when the scripts are used one after the    *)
(* other, for any sources, number of runs, hosts, builds and size of the   *)
(* SERIALIZED file.                                                        *)
(*                                                                         *)
(* main never compares the SERIALIZED file with the module. The invariant  *)
(* says why it need not: while there is an executable to start, the file   *)
(* under that name holds chunks of the module and the engine that are      *)
(* there now, although maybe not all of them. remove_old_binaries removes  *)
(* the executable first, so this survives a build that ends anywhere; and  *)
(* a run that dies in the middle leaves a file that is too short, which    *)
(* deserialize_file rejects.                                               *)
(***************************************************************************)
EXTENDS Harness, TLAPS

Engines == {EngineOf[v] : v \in Versions}
Labels == {"none", "start", "lookup", "compile", "create", "write", "link", "call", "exited"}
Processes ==
    [pc : Labels, engine : Engines \cup {0}, module : SUBSET Stamp, map : Nat, fd : Nat,
     off : Nat, status : Nat, result : {"none", "returned", "trapped", "panicked"}]
Removing == {"rm_wasm", "rm_cache"}
Making == {"cargo_wasm", "mv_wasm", "cargo_host", "mv_host"}
Benchmarks == [pc : {"idle", "loop", "wait", "succeeded", "failed"}, i : Nat]

TypeInv ==
    /\ wasm \in Versions \cup {0}
    /\ exe \in Versions \cup {0}
    /\ src \in Versions
    /\ object \in Versions \cup {0}
    /\ inodes \in 0..MaxInodes
    /\ cache \in 0..inodes
    /\ content \in [1..MaxInodes -> Seq(Stamp)]
    /\ proc \in [Hosts -> Processes]
    /\ bench \in [Hosts -> Benchmarks]
    /\ build \in {"idle", "rm_exe"} \cup Removing \cup Making
    /\ compiles \in Nat

\* The scripts run one after the other.
OneAtATime ==
    /\ \A b, c \in Hosts : Running(b) /\ Running(c) => b = c
    /\ build # "idle" => \A b \in Hosts : ~Running(b)

\* What ./build has removed so far.
Removed ==
    /\ build \in Removing \cup Making => exe = 0 /\ compiles = 0
    /\ build \in Making => cache = 0

Current == [wasm |-> wasm, engine |-> EngineOf[exe]]

\* The SERIALIZED file, whole or not, is of the module and the engine there are.
FilesInv ==
    /\ \A i \in 1..MaxInodes : i > inodes => content[i] = <<>>
    /\ exe # 0 /\ cache # 0 => \A i \in 1..Len(content[cache]) : content[cache][i] = Current
    /\ compiles <= 1
    /\ exe # 0 /\ compiles = 1 => cache # 0 /\ Len(content[cache]) = Chunks

\* A running host has the engine and the module there are, and is where it is in main
\* for a reason that still holds.
HostInv(h) ==
    /\ bench[h].pc = "wait" /\ exe # 0
    /\ proc[h].engine = EngineOf[exe]
    /\ proc[h].pc \in {"create", "write"} => proc[h].module = {Current}
    /\ proc[h].pc \in {"compile", "create", "write"} => compiles = 0
    /\ proc[h].pc \notin {"write", "link", "call"} => proc[h].off = 0
    /\ proc[h].pc = "write" =>
          /\ cache # 0 /\ proc[h].fd = cache
          /\ proc[h].off = Len(content[cache]) /\ proc[h].off <= Chunks
    /\ proc[h].map # 0 =>
          /\ proc[h].pc \in {"link", "call"}
          /\ proc[h].map = cache /\ Len(content[cache]) = Chunks
    /\ proc[h].pc \in {"link", "call"} /\ proc[h].map = 0 => proc[h].module = {Current}

HostsInv == \A h \in Hosts : Alive(h) => HostInv(h)

IInv == TypeInv /\ OneAtATime /\ Removed /\ FilesInv /\ HostsInv

-----------------------------------------------------------------------------
(* One host at a time *)

\* A host that runs is the only one, and no build is under way.
LEMMA OnlyOneAlive ==
    ASSUME IInv, NEW h \in Hosts, Alive(h)
    PROVE  /\ build = "idle" /\ HostInv(h) /\ Running(h)
           /\ \A g \in Hosts : g # h => ~Alive(g)
<1>1. \A g \in Hosts : Alive(g) => HostInv(g)
  BY DEF IInv, HostsInv
<1>2. \A g \in Hosts : HostInv(g) => Running(g)
  BY DEF HostInv, Running
<1>3. \A g \in Hosts : Alive(g) => Running(g)
  BY <1>1, <1>2
<1> QED
  BY <1>1, <1>3 DEF IInv, OneAtATime

\* A step that gives one host a new state.
LEMMA ProcUpdate ==
    ASSUME proc \in [Hosts -> Processes], NEW h \in Hosts, NEW r \in Processes,
           proc' = [proc EXCEPT ![h] = r]
    PROVE  /\ proc' \in [Hosts -> Processes]
           /\ proc'[h] = r
           /\ \A g \in Hosts : g # h => proc'[g] = proc[g]
OBVIOUS

\* Then only that host can be alive after the step.
LEMMA OthersStayDead ==
    ASSUME NEW h \in Hosts, \A g \in Hosts : g # h => ~Alive(g),
           \A g \in Hosts : g # h => proc'[g] = proc[g],
           Alive(h)' => HostInv(h)'
    PROVE  HostsInv'
<1> SUFFICES ASSUME NEW g \in Hosts, Alive(g)' PROVE HostInv(g)'
  BY DEF HostsInv
<1>1. g = h
  BY DEF Alive
<1> QED
  BY <1>1

\* A host step that changes no file.
LEMMA QuietStep ==
    ASSUME IInv, NEW h \in Hosts, Alive(h), NEW r \in Processes,
           proc' = [proc EXCEPT ![h] = r],
           UNCHANGED files, UNCHANGED compiles, UNCHANGED scripts,
           Alive(h)' => HostInv(h)'
    PROVE  IInv'
<1>1. proc \in [Hosts -> Processes]
  BY DEF IInv, TypeInv
<1>2. /\ proc' \in [Hosts -> Processes]
      /\ \A g \in Hosts : g # h => proc'[g] = proc[g]
  BY <1>1, ProcUpdate
<1>3. \A g \in Hosts : g # h => ~Alive(g)
  BY OnlyOneAlive
<1>4. HostsInv'
  BY <1>2, <1>3, OthersStayDead
<1>5. TypeInv'
  BY <1>2 DEF IInv, TypeInv, files, scripts
<1>6. OneAtATime'
  BY DEF IInv, OneAtATime, Running, scripts
<1>7. Removed'
  BY DEF IInv, Removed, files, scripts
<1>8. FilesInv'
  BY DEF IInv, FilesInv, Current, files
<1> QED
  BY <1>4, <1>5, <1>6, <1>7, <1>8 DEF IInv

\* A host that exits.
LEMMA ExitStep ==
    ASSUME IInv, NEW h \in Hosts, Alive(h), NEW r \in Processes,
           proc' = [proc EXCEPT ![h] = r], r.pc = "exited",
           UNCHANGED files, UNCHANGED compiles, UNCHANGED scripts
    PROVE  IInv'
<1>1. proc'[h] = r
  BY DEF IInv, TypeInv
<1>2. ~Alive(h)'
  BY <1>1 DEF Alive
<1> QED
  BY <1>2, QuietStep

\* Exit is such a step.
LEMMA ExitIsQuiet ==
    ASSUME IInv, NEW h \in Hosts, Alive(h), NEW s \in Nat, Exit(h, s),
           UNCHANGED files, UNCHANGED compiles, UNCHANGED scripts
    PROVE  IInv'
<1> DEFINE r == [proc[h] EXCEPT !.pc = "exited", !.status = s]
<1>1. proc[h] \in Processes
  BY DEF IInv, TypeInv
<1>2. r \in Processes /\ r.pc = "exited"
  BY <1>1 DEF Processes, Labels
<1>3. proc' = [proc EXCEPT ![h] = r]
  BY DEF Exit
<1> HIDE DEF r
<1> QED
  BY <1>2, <1>3, ExitStep

\* Goto changes where a host is and nothing else of it.
LEMMA GotoFacts ==
    ASSUME proc \in [Hosts -> Processes], NEW h \in Hosts, NEW x \in Labels, Goto(h, x)
    PROVE  /\ [proc[h] EXCEPT !.pc = x] \in Processes
           /\ proc' = [proc EXCEPT ![h] = [proc[h] EXCEPT !.pc = x]]
           /\ proc'[h].pc = x /\ proc'[h].engine = proc[h].engine
           /\ proc'[h].module = proc[h].module /\ proc'[h].map = proc[h].map
           /\ proc'[h].off = proc[h].off
<1> DEFINE r == [proc[h] EXCEPT !.pc = x]
<1>1. proc[h] \in Processes
  OBVIOUS
<1>2. /\ r \in Processes
      /\ r.pc = x /\ r.engine = proc[h].engine
      /\ r.module = proc[h].module /\ r.map = proc[h].map
      /\ r.off = proc[h].off
  BY <1>1 DEF Processes
<1>3. proc' = [proc EXCEPT ![h] = r]
  BY DEF Goto
<1> HIDE DEF r
<1>4. proc'[h] = r
  BY <1>1, <1>3
<1> QED
  BY <1>2, <1>3, <1>4 DEF r

-----------------------------------------------------------------------------
(* The steps of main *)

\* The set-up has no part in the cache.
LEMMA SetupInv ==
    ASSUME IInv, NEW h \in Hosts, Setup(h), UNCHANGED scripts
    PROVE  IInv'
<1>1. Alive(h) /\ proc[h].pc = "start"
  BY DEF Setup, Alive
<1>2. HostInv(h)
  BY <1>1, OnlyOneAlive
<1>3. CASE Goto(h, "lookup")
  <2>1. proc \in [Hosts -> Processes] /\ "lookup" \in Labels
    BY DEF IInv, TypeInv, Labels
  <2>2. /\ proc'[h].pc = "lookup" /\ proc'[h].engine = proc[h].engine
        /\ proc'[h].map = proc[h].map /\ proc'[h].off = proc[h].off
    BY <1>3, <2>1, GotoFacts
  <2>3. HostInv(h)'
    BY <1>1, <1>2, <2>2 DEF HostInv, Setup, files, scripts
  <2> QED
    BY <1>1, <1>3, <2>1, <2>3, GotoFacts, QuietStep DEF Setup
<1>4. CASE Exit(h, 1) \/ Exit(h, 101)
  BY <1>1, <1>4, ExitIsQuiet DEF Setup
<1> QED
  BY <1>3, <1>4 DEF Setup

\* A file the engine accepts is whole; the mapping keeps its inode.
LEMMA DeserializeOkInv ==
    ASSUME IInv, NEW h \in Hosts, DeserializeOk(h), UNCHANGED scripts
    PROVE  IInv'
<1>1. Alive(h) /\ proc[h].pc = "lookup"
  BY DEF DeserializeOk, Alive
<1>2. HostInv(h)
  BY <1>1, OnlyOneAlive
<1> DEFINE r == [proc[h] EXCEPT !.pc = "link", !.map = cache]
<1>3. proc[h] \in Processes /\ proc \in [Hosts -> Processes] /\ cache \in Nat
  BY DEF IInv, TypeInv
<1>4. /\ r \in Processes
      /\ r.pc = "link" /\ r.engine = proc[h].engine /\ r.map = cache
  BY <1>3 DEF Processes, Labels
<1>5. proc' = [proc EXCEPT ![h] = r]
  BY DEF DeserializeOk
<1> HIDE DEF r
<1>6. proc'[h] = r
  BY <1>3, <1>5
<1>7. cache # 0 /\ Len(content[cache]) = Chunks
  BY DEF DeserializeOk, MayAccept
<1>8. HostInv(h)'
  BY <1>1, <1>2, <1>4, <1>6, <1>7 DEF HostInv, DeserializeOk, files, scripts
<1> QED
  BY <1>1, <1>4, <1>5, <1>8, QuietStep DEF DeserializeOk

\* A whole file of this engine is never rejected, so a host compiles only when none was
\* written since the build.
LEMMA DeserializeErrInv ==
    ASSUME IInv, NEW h \in Hosts, DeserializeErr(h), UNCHANGED scripts
    PROVE  IInv'
<1>1. Alive(h) /\ proc[h].pc = "lookup"
  BY DEF DeserializeErr, Alive
<1>2. HostInv(h)
  BY <1>1, OnlyOneAlive
<1>3. compiles = 0
  <2> SUFFICES ASSUME compiles # 0 PROVE FALSE
    OBVIOUS
  <2>1. compiles = 1 /\ exe # 0 /\ proc[h].engine = EngineOf[exe]
    BY <1>2 DEF IInv, TypeInv, FilesInv, HostInv
  <2>2. /\ cache # 0 /\ Len(content[cache]) = Chunks
        /\ \A i \in 1..Chunks : content[cache][i] = Current
    BY <2>1 DEF IInv, FilesInv
  <2>3. MayReject(content[cache], proc[h].engine)
    BY <2>2 DEF DeserializeErr
  <2>4. \A i \in 1..Chunks : content[cache][i].engine = proc[h].engine
    BY <2>1, <2>2 DEF Current
  <2>5. 1 \in 1..Chunks
    BY CacheAssumption
  <2> QED
    BY <2>2, <2>3, <2>4, <2>5 DEF MayReject
<1>4. proc \in [Hosts -> Processes] /\ "compile" \in Labels
  BY DEF IInv, TypeInv, Labels
<1>5. /\ proc'[h].pc = "compile" /\ proc'[h].engine = proc[h].engine
      /\ proc'[h].map = proc[h].map /\ proc'[h].off = proc[h].off
  BY <1>4, GotoFacts DEF DeserializeErr
<1>6. HostInv(h)'
  BY <1>1, <1>2, <1>3, <1>5 DEF HostInv, DeserializeErr, files, scripts
<1> QED
  BY <1>1, <1>4, <1>6, GotoFacts, QuietStep DEF DeserializeErr

\* The module that is compiled is the one there is.
LEMMA FromFileInv ==
    ASSUME IInv, NEW h \in Hosts, FromFile(h), UNCHANGED scripts
    PROVE  IInv'
<1>1. Alive(h) /\ proc[h].pc = "compile"
  BY DEF FromFile, Alive
<1>2. HostInv(h)
  BY <1>1, OnlyOneAlive
<1> DEFINE r == [proc[h] EXCEPT !.pc = "create",
                                !.module = {[wasm |-> wasm, engine |-> proc[h].engine]}]
<1>3. CASE wasm # 0 /\ proc' = [proc EXCEPT ![h] = r]
  <2>1. proc[h] \in Processes /\ proc \in [Hosts -> Processes]
    BY DEF IInv, TypeInv
  <2>2. Current \in Stamp
    BY <1>2, <1>3 DEF IInv, TypeInv, HostInv, Current, Stamp
  <2>3. Current = [wasm |-> wasm, engine |-> proc[h].engine]
    BY <1>2 DEF HostInv, Current
  <2>4. /\ r \in Processes
        /\ r.pc = "create" /\ r.engine = proc[h].engine /\ r.map = proc[h].map
        /\ r.module = {Current} /\ r.off = proc[h].off
    BY <2>1, <2>2, <2>3 DEF Processes, Labels
  <2> HIDE DEF r
  <2>5. proc'[h] = r
    BY <1>3, <2>1
  <2>6. Current' = Current
    BY DEF FromFile, files, Current
  <2>7. HostInv(h)'
    BY <1>1, <1>2, <2>4, <2>5, <2>6 DEF HostInv, FromFile, files, scripts
  <2> QED
    BY <1>1, <1>3, <2>4, <2>7, QuietStep DEF FromFile
<1>4. CASE Exit(h, 1)
  BY <1>1, <1>4, ExitIsQuiet DEF FromFile
<1> QED
  BY <1>3, <1>4 DEF FromFile

\* The host that writes starts with an empty file: the one it truncates or a new one.
LEMMA WriteCreateInv ==
    ASSUME IInv, NEW h \in Hosts, WriteCreate(h), UNCHANGED scripts
    PROVE  IInv'
<1>1. Alive(h) /\ proc[h].pc = "create"
  BY DEF WriteCreate, Alive
<1>2. HostInv(h) /\ \A g \in Hosts : g # h => ~Alive(g)
  BY <1>1, OnlyOneAlive
<1>3. CASE Exit(h, 101) /\ UNCHANGED <<cache, inodes, content>>
  BY <1>1, <1>3, ExitIsQuiet DEF WriteCreate, files
<1>4. ASSUME NEW i \in 1..MaxInodes, proc' = [proc EXCEPT ![h].pc = "write", ![h].fd = i],
             cache' = i, content' \in [1..MaxInodes -> Seq(Stamp)], content'[i] = <<>>,
             \A j \in 1..MaxInodes : j # i => content'[j] = content[j],
             inodes' \in 0..MaxInodes, inodes <= inodes', i <= inodes',
             UNCHANGED <<wasm, exe, compiles>>
      PROVE  IInv'
  <2> DEFINE r == [proc[h] EXCEPT !.pc = "write", !.fd = i]
  <2>a. i \in Nat
    BY CacheAssumption
  <2>1. proc[h] \in Processes /\ proc \in [Hosts -> Processes]
    BY DEF IInv, TypeInv
  <2>2. /\ r \in Processes
        /\ r.pc = "write" /\ r.engine = proc[h].engine /\ r.map = proc[h].map
        /\ r.fd = i /\ r.module = proc[h].module /\ r.off = proc[h].off
    BY <2>a, <2>1 DEF Processes, Labels
  <2>3. proc' = [proc EXCEPT ![h] = r]
    BY <1>4
  <2> HIDE DEF r
  <2>4. /\ proc' \in [Hosts -> Processes] /\ proc'[h] = r
        /\ \A g \in Hosts : g # h => proc'[g] = proc[g]
    BY <2>1, <2>2, <2>3
  <2>5. Current' = Current /\ Len(content'[i]) = 0
    BY <1>4 DEF Current
  <2>6. HostInv(h)'
    BY <1>1, <1>2, <1>4, <2>2, <2>4, <2>5, CacheAssumption DEF HostInv, scripts
  <2>7. HostsInv'
    BY <1>2, <2>4, <2>6, OthersStayDead
  <2>8. TypeInv'
    BY <1>4, <2>4 DEF IInv, TypeInv, scripts
  <2>9. OneAtATime'
    BY DEF IInv, OneAtATime, Running, scripts
  <2>10. Removed'
    BY <1>1, <1>4, OnlyOneAlive DEF Removed, Removing, Making, scripts
  <2>11. FilesInv'
    BY <1>1, <1>2, <1>4, <2>5 DEF IInv, TypeInv, FilesInv, HostInv
  <2> QED
    BY <2>7, <2>8, <2>9, <2>10, <2>11 DEF IInv
<1>5. TypeInv /\ FilesInv /\ <<>> \in Seq(Stamp)
  BY DEF IInv
<1>6. CASE /\ cache # 0
           /\ content' = [content EXCEPT ![cache] = <<>>]
           /\ proc' = [proc EXCEPT ![h].pc = "write", ![h].fd = cache]
           /\ UNCHANGED <<cache, inodes>>
  <2>1. cache \in 1..MaxInodes /\ inodes \in 0..MaxInodes /\ cache <= inodes
    BY <1>5, <1>6, CacheAssumption DEF TypeInv
  <2>2. /\ content' \in [1..MaxInodes -> Seq(Stamp)] /\ content'[cache] = <<>>
        /\ \A j \in 1..MaxInodes : j # cache => content'[j] = content[j]
    BY <1>5, <1>6, <2>1 DEF TypeInv
  <2> QED
    <3> DEFINE i == cache
    <3>1. UNCHANGED <<wasm, exe, compiles>>
      BY DEF WriteCreate
    <3>2. inodes' \in 0..MaxInodes /\ inodes <= inodes' /\ i <= inodes' /\ cache' = i
      BY <1>6, <2>1
    <3> QED
      BY <1>4, <1>6, <2>1, <2>2, <3>1, <3>2
<1>7. CASE /\ cache = 0 /\ inodes < MaxInodes
           /\ inodes' = inodes + 1
           /\ cache' = inodes + 1
           /\ proc' = [proc EXCEPT ![h].pc = "write", ![h].fd = inodes + 1]
           /\ UNCHANGED content
  <2>1. inodes + 1 \in 1..MaxInodes /\ inodes' \in 0..MaxInodes /\ inodes <= inodes'
    BY <1>5, <1>7, CacheAssumption DEF TypeInv
  <2>2. content'[inodes + 1] = <<>>
    BY <1>5, <1>7, <2>1 DEF FilesInv, TypeInv
  <2> QED
    <3> DEFINE i == inodes + 1
    <3>1. UNCHANGED <<wasm, exe, compiles>>
      BY DEF WriteCreate
    <3>2. i <= inodes' /\ cache' = i /\ i \in 1..MaxInodes /\ content'[i] = <<>>
      BY <1>7, <2>1, <2>2
    <3>3. /\ content' \in [1..MaxInodes -> Seq(Stamp)]
          /\ \A j \in 1..MaxInodes : j # i => content'[j] = content[j]
      BY <1>5, <1>7 DEF TypeInv
    <3>4. proc' = [proc EXCEPT ![h].pc = "write", ![h].fd = i]
      BY <1>7
    <3> HIDE DEF i
    <3> QED
      BY <1>4, <2>1, <3>1, <3>2, <3>3, <3>4
<1> QED
  BY <1>3, <1>6, <1>7 DEF WriteCreate

\* A write at the end of a file appends.
LEMMA WriteAtEnd ==
    ASSUME NEW f \in Seq(Stamp), NEW m \in Stamp
    PROVE  /\ WriteAt(f, Len(f), m) \in Seq(Stamp)
           /\ Len(WriteAt(f, Len(f), m)) = Len(f) + 1
           /\ \A i \in 1..Len(f) : WriteAt(f, Len(f), m)[i] = f[i]
           /\ WriteAt(f, Len(f), m)[Len(f) + 1] = m
<1> DEFINE w == WriteAt(f, Len(f), m)
<1>1. Len(f) \in Nat
  OBVIOUS
<1>2. w = [i \in 1..(Len(f) + 1) |-> CASE i = Len(f) + 1 -> m
                                       [] i <= Len(f) /\ i # Len(f) + 1 -> f[i]
                                       [] OTHER -> Hole]
  BY <1>1 DEF WriteAt
<1> HIDE DEF w
<1>3. /\ DOMAIN w = 1..(Len(f) + 1)
      /\ \A i \in 1..Len(f) : w[i] = f[i]
      /\ w[Len(f) + 1] = m
  BY <1>1, <1>2
<1>4. \A i \in 1..(Len(f) + 1) : w[i] \in Stamp
  BY <1>1, <1>3
<1>5. w \in [1..(Len(f) + 1) -> Stamp]
  BY <1>2, <1>4
<1>6. w \in Seq(Stamp) /\ Len(w) = Len(f) + 1
  BY <1>1, <1>5
<1> QED
  BY <1>3, <1>6 DEF w

\* A chunk goes to the end of the file, which nobody else writes.
LEMMA WriteChunkInv ==
    ASSUME IInv, NEW h \in Hosts, WriteChunk(h), UNCHANGED scripts
    PROVE  IInv'
<1>1. Alive(h) /\ proc[h].pc = "write" /\ proc[h].off < Chunks
  BY DEF WriteChunk, Alive
<1>2. HostInv(h) /\ \A g \in Hosts : g # h => ~Alive(g)
  BY <1>1, OnlyOneAlive
<1>3. CASE Exit(h, 101) /\ UNCHANGED content
  BY <1>1, <1>3, ExitIsQuiet DEF WriteChunk, files
<1>4. CASE /\ \E m \in proc[h].module :
                 content' = [content EXCEPT ![proc[h].fd] = WriteAt(@, proc[h].off, m)]
           /\ proc' = [proc EXCEPT ![h].off = @ + 1]
  <2> DEFINE f == content[cache]
             w == WriteAt(f, Len(f), Current)
             r == [proc[h] EXCEPT !.off = @ + 1]
  <2>1. /\ proc[h].module = {Current} /\ proc[h].fd = cache /\ proc[h].off = Len(f)
        /\ cache # 0 /\ exe # 0 /\ compiles = 0
    BY <1>1, <1>2 DEF HostInv
  <2>2. content' = [content EXCEPT ![cache] = w]
    BY <1>4, <2>1
  <2>3. proc[h] \in Processes /\ proc \in [Hosts -> Processes]
    BY DEF IInv, TypeInv
  <2>4. Current \in Stamp
    BY <2>1, <2>3 DEF Processes
  <2>5. cache \in 1..MaxInodes /\ f \in Seq(Stamp)
    BY <2>1, CacheAssumption DEF IInv, TypeInv
  <2>6. /\ w \in Seq(Stamp) /\ Len(w) = Len(f) + 1
        /\ \A i \in 1..Len(f) : w[i] = f[i]
        /\ w[Len(f) + 1] = Current
    BY <2>4, <2>5, WriteAtEnd
  <2>7. /\ r \in Processes /\ r.off = proc[h].off + 1
        /\ r.pc = proc[h].pc /\ r.engine = proc[h].engine /\ r.map = proc[h].map
        /\ r.fd = proc[h].fd /\ r.module = proc[h].module
    BY <2>3 DEF Processes
  <2>8. proc' = [proc EXCEPT ![h] = r]
    BY <1>4
  <2> HIDE DEF r, w
  <2>9. /\ proc' \in [Hosts -> Processes] /\ proc'[h] = r
        /\ \A g \in Hosts : g # h => proc'[g] = proc[g]
    BY <2>3, <2>7, <2>8
  <2>10. /\ content' \in [1..MaxInodes -> Seq(Stamp)] /\ content'[cache] = w
         /\ \A j \in 1..MaxInodes : j # cache => content'[j] = content[j]
    BY <2>2, <2>5, <2>6 DEF IInv, TypeInv
  <2>11. /\ UNCHANGED <<wasm, exe, cache, inodes, compiles>> /\ Current' = Current
         /\ UNCHANGED scripts
    BY DEF WriteChunk, Current
  <2>12. HostInv(h)'
    <3>1. proc[h].off \in Nat /\ proc[h].off + 1 <= Chunks
      BY <1>1, <2>3, CacheAssumption DEF Processes
    <3>2. proc'[h].off = Len(content'[cache'])
      BY <2>1, <2>6, <2>7, <2>9, <2>10, <2>11
    <3> QED
      BY <1>1, <1>2, <2>1, <2>7, <2>9, <2>11, <3>1, <3>2 DEF HostInv, scripts
  <2>13. HostsInv'
    BY <1>2, <2>9, <2>12, OthersStayDead
  <2>14. TypeInv'
    BY <2>9, <2>10, <2>11 DEF IInv, TypeInv, scripts
  <2>15. OneAtATime'
    BY DEF IInv, OneAtATime, Running, scripts
  <2>16. Removed'
    BY <2>11 DEF IInv, Removed, scripts
  <2>17. FilesInv'
    <3>1. \A i \in 1..MaxInodes : i > inodes' => content'[i] = <<>>
      BY <2>5, <2>10, <2>11 DEF IInv, FilesInv, TypeInv
    <3>2. \A i \in 1..Len(w) : w[i] = Current
      BY <2>1, <2>5, <2>6 DEF IInv, FilesInv
    <3> QED
      BY <2>1, <2>10, <2>11, <3>1, <3>2 DEF FilesInv
  <2> QED
    BY <2>13, <2>14, <2>15, <2>16, <2>17 DEF IInv
<1> QED
  BY <1>3, <1>4 DEF WriteChunk

\* The file is whole when the host is done with it.
LEMMA WriteDoneInv ==
    ASSUME IInv, NEW h \in Hosts, WriteDone(h), UNCHANGED scripts
    PROVE  IInv'
<1>1. Alive(h) /\ proc[h].pc = "write" /\ proc[h].off = Chunks
  BY DEF WriteDone, Alive
<1>2. HostInv(h) /\ \A g \in Hosts : g # h => ~Alive(g)
  BY <1>1, OnlyOneAlive
<1>3. TypeInv /\ proc \in [Hosts -> Processes] /\ "link" \in Labels
  BY DEF IInv, TypeInv, Labels
<1>4. /\ [proc[h] EXCEPT !.pc = "link"] \in Processes
      /\ proc' = [proc EXCEPT ![h] = [proc[h] EXCEPT !.pc = "link"]]
      /\ proc'[h].pc = "link" /\ proc'[h].engine = proc[h].engine
      /\ proc'[h].module = proc[h].module /\ proc'[h].map = proc[h].map
  BY <1>3, GotoFacts DEF WriteDone
<1>5. /\ proc' \in [Hosts -> Processes]
      /\ \A g \in Hosts : g # h => proc'[g] = proc[g]
  BY <1>3, <1>4, ProcUpdate DEF TypeInv
<1>6. /\ compiles' = 1 /\ UNCHANGED <<wasm, exe, cache, inodes, content>>
      /\ UNCHANGED scripts /\ Current' = Current
  BY <1>1, <1>2 DEF WriteDone, HostInv, files, Current
<1>7. HostInv(h)'
  BY <1>1, <1>2, <1>4, <1>6 DEF HostInv, scripts
<1>8. HostsInv'
  BY <1>2, <1>5, <1>7, OthersStayDead
<1>9. TypeInv'
  BY <1>3, <1>5, <1>6 DEF TypeInv, scripts
<1>10. OneAtATime'
  BY DEF IInv, OneAtATime, Running, scripts
<1>11. Removed'
  BY <1>1, <1>6, OnlyOneAlive DEF Removed, Removing, Making, scripts
<1>12. FilesInv'
  BY <1>1, <1>2, <1>6 DEF IInv, FilesInv, HostInv
<1> QED
  BY <1>8, <1>9, <1>10, <1>11, <1>12 DEF IInv

\* Linking keeps what the host has, mapped or compiled.
LEMMA LinkInv ==
    ASSUME IInv, NEW h \in Hosts, Link(h), UNCHANGED scripts
    PROVE  IInv'
<1>1. Alive(h) /\ proc[h].pc = "link"
  BY DEF Link, Alive
<1>2. HostInv(h)
  BY <1>1, OnlyOneAlive
<1>3. CASE Goto(h, "call")
  <2>1. proc \in [Hosts -> Processes] /\ "call" \in Labels
    BY DEF IInv, TypeInv, Labels
  <2>2. /\ proc'[h].pc = "call" /\ proc'[h].engine = proc[h].engine
        /\ proc'[h].map = proc[h].map /\ proc'[h].module = proc[h].module
    BY <1>3, <2>1, GotoFacts
  <2>3. Current' = Current
    BY DEF Link, files, Current
  <2>4. HostInv(h)'
    BY <1>1, <1>2, <2>2, <2>3 DEF HostInv, Link, files, scripts
  <2> QED
    BY <1>1, <1>3, <2>1, <2>4, GotoFacts, QuietStep DEF Link
<1>4. CASE Exit(h, 1) \/ Exit(h, 101)
  BY <1>1, <1>4, ExitIsQuiet DEF Link
<1> QED
  BY <1>3, <1>4 DEF Link

\* After the call, and after a panic in it, the host is gone.
LEMMA CallInv ==
    ASSUME IInv, NEW h \in Hosts, Call(h) \/ CallPanics(h), UNCHANGED scripts
    PROVE  IInv'
<1>1. Alive(h)
  BY DEF Call, CallPanics, Alive
<1>2. PICK x \in {"returned", "trapped", "panicked"}, n \in {0, 101} :
        proc' = [proc EXCEPT ![h] = [@ EXCEPT !.pc = "exited", !.status = n, !.result = x]]
  BY DEF Call, CallPanics
<1> DEFINE r == [proc[h] EXCEPT !.pc = "exited", !.status = n, !.result = x]
<1>3. proc[h] \in Processes
  BY DEF IInv, TypeInv
<1>4. n \in Nat /\ x \in {"none", "returned", "trapped", "panicked"}
  OBVIOUS
<1>5. r \in Processes /\ r.pc = "exited"
  BY <1>3, <1>4 DEF Processes, Labels
<1>6. proc' = [proc EXCEPT ![h] = r]
  BY <1>2
<1> HIDE DEF r
<1> QED
  BY <1>1, <1>5, <1>6, ExitStep DEF Call, CallPanics

\* A host that is killed leaves its file as it is.
LEMMA KillInv ==
    ASSUME IInv, NEW h \in Hosts, Kill(h)
    PROVE  IInv'
BY ExitIsQuiet DEF Kill, Killed

\* Every step of main keeps the invariant.
LEMMA HostStepInv ==
    ASSUME IInv, NEW h \in Hosts, Host(h)
    PROVE  IInv'
BY SetupInv, DeserializeOkInv, DeserializeErrInv, FromFileInv, WriteCreateInv,
   WriteChunkInv, WriteDoneInv, LinkInv, CallInv DEF Host, HostStep

-----------------------------------------------------------------------------
(* The scripts *)

\* No host runs while ./build does.
LEMMA NoneAliveInBuild ==
    ASSUME IInv, build # "idle"
    PROVE  \A h \in Hosts : ~Alive(h)
<1>1. \A h \in Hosts : Alive(h) => bench[h].pc = "wait"
  BY DEF IInv, HostsInv, HostInv
<1>2. \A h \in Hosts : ~Running(h)
  BY DEF IInv, OneAtATime
<1> QED
  BY <1>1, <1>2 DEF Running

\* A step of ./build, on the files.
LEMMA BuildInv ==
    ASSUME IInv, build # "idle", Build \/ KillBuild
    PROVE  IInv'
<1>1. UNCHANGED <<inodes, content, proc, src, bench, builds, benchs>>
  BY DEF Build, KillBuild, RemoveOld, Cargo, MoveFile, cacheVars, files
<1>2. \A h \in Hosts : ~Alive(h)
  BY NoneAliveInBuild
<1>3. HostsInv'
  BY <1>1, <1>2 DEF HostsInv, Alive
<1>4. \A b \in Hosts : ~Running(b)
  BY DEF IInv, OneAtATime
<1>5. OneAtATime'
  BY <1>1, <1>4 DEF OneAtATime, Running
<1>6. TypeInv
  BY DEF IInv
<1>7. CASE RemoveOld
  <2>1. CASE /\ build = "rm_exe"
             /\ RemoveExe /\ build' = "rm_wasm" /\ UNCHANGED <<wasm, cache>>
    <3>1. /\ exe' = 0 /\ compiles' = 0
          /\ UNCHANGED <<wasm, cache, inodes, content, object, src, proc, bench>>
      BY <1>7, <2>1 DEF RemoveOld, RemoveExe
    <3>2. TypeInv'
      BY <1>6, <2>1, <3>1 DEF TypeInv, Removing
    <3>3. Removed' /\ FilesInv'
      BY <2>1, <3>1 DEF IInv, Removed, FilesInv, Making
    <3> QED
      BY <1>3, <1>5, <3>2, <3>3 DEF IInv
  <2>2. CASE /\ build = "rm_wasm"
             /\ wasm' = 0 /\ build' = "rm_cache" /\ UNCHANGED <<exe, cache, survivor>>
    <3>1. /\ exe = 0 /\ exe' = 0 /\ compiles' = 0
          /\ UNCHANGED <<cache, inodes, content, object, src, proc, bench>>
      BY <1>7, <2>2 DEF RemoveOld, IInv, Removed, Removing
    <3>2. TypeInv'
      BY <1>6, <2>2, <3>1 DEF TypeInv, Removing
    <3>3. Removed' /\ FilesInv'
      BY <2>2, <3>1 DEF IInv, Removed, FilesInv, Making
    <3> QED
      BY <1>3, <1>5, <3>2, <3>3 DEF IInv
  <2>3. CASE /\ build = "rm_cache"
             /\ cache' = 0 /\ build' = "cargo_wasm" /\ UNCHANGED <<exe, wasm, survivor>>
    <3>1. /\ exe = 0 /\ exe' = 0 /\ compiles' = 0
          /\ UNCHANGED <<wasm, inodes, content, object, src, proc, bench>>
      BY <1>7, <2>3 DEF RemoveOld, IInv, Removed, Removing
    <3>2. TypeInv'
      BY <1>6, <2>3, <3>1 DEF TypeInv, Making
    <3>3. Removed' /\ FilesInv'
      BY <2>3, <3>1 DEF IInv, Removed, FilesInv
    <3> QED
      BY <1>3, <1>5, <3>2, <3>3 DEF IInv
  <2> QED
    BY <1>7, <2>1, <2>2, <2>3 DEF RemoveOld
<1>8. CASE Cargo \/ KillBuild
  <2>1. UNCHANGED <<wasm, exe, cache, inodes, content, proc, compiles, src, bench>>
    BY <1>8 DEF Cargo, KillBuild, cacheVars, files
  <2>2. /\ object' \in Versions \cup {0}
        /\ build' = "idle" \/ (build \in Making /\ build' \in Making)
    BY <1>6, <1>8 DEF Cargo, KillBuild, TypeInv, Making
  <2>3. TypeInv'
    BY <1>6, <2>1, <2>2 DEF TypeInv
  <2>4. Removed'
    BY <2>1, <2>2 DEF IInv, Removed, Removing, Making
  <2>5. FilesInv'
    BY <2>1 DEF IInv, FilesInv, Current
  <2> QED
    BY <1>3, <1>5, <2>3, <2>4, <2>5 DEF IInv
<1>9. CASE MoveFile
  <2>1. UNCHANGED <<cache, inodes, content, proc, compiles, src, bench, object>>
    BY <1>9 DEF MoveFile
  <2>2. cache = 0 /\ exe = 0 /\ compiles = 0
    BY <1>9 DEF MoveFile, IInv, Removed, Making
  <2>3. /\ wasm' \in {wasm, object} /\ exe' \in {exe, object}
        /\ build' = "idle" \/ (build' = "cargo_host" /\ exe' = exe)
    BY <1>9 DEF MoveFile
  <2>4. TypeInv'
    BY <1>6, <2>1, <2>3 DEF TypeInv, Making
  <2>5. Removed'
    BY <2>1, <2>2, <2>3 DEF Removed, Removing, Making
  <2>6. FilesInv'
    BY <2>1, <2>2 DEF IInv, FilesInv
  <2> QED
    BY <1>3, <1>5, <2>4, <2>5, <2>6 DEF IInv
<1> QED
  BY <1>7, <1>8, <1>9 DEF Build

\* An edit touches no file that main reads.
LEMMA EditInv ==
    ASSUME IInv, Edit
    PROVE  IInv'
<1>1. /\ UNCHANGED <<wasm, exe, cache, inodes, content, proc, compiles, build, object, bench>>
      /\ src' \in Versions
  BY DEF Edit, cacheVars, files
<1>2. TypeInv' /\ OneAtATime' /\ Removed'
  BY <1>1 DEF IInv, TypeInv, OneAtATime, Removed, Running
<1>3. FilesInv'
  BY <1>1 DEF IInv, FilesInv, Current
<1>4. HostsInv'
  BY <1>1 DEF IInv, HostsInv, HostInv, Alive, Current
<1> QED
  BY <1>2, <1>3, <1>4 DEF IInv

\* A build starts when no benchmark runs.
LEMMA StartBuildInv ==
    ASSUME ~Concurrent, IInv, StartBuild
    PROVE  IInv'
<1>1. /\ UNCHANGED <<wasm, exe, cache, inodes, content, proc, compiles, src, object, bench>>
      /\ build' = "rm_exe"
  BY DEF StartBuild, cacheVars, files
<1>2. TypeInv' /\ Removed'
  BY <1>1 DEF IInv, TypeInv, Removed, Removing, Making
<1>3. OneAtATime'
  BY <1>1 DEF IInv, OneAtATime, Running, StartBuild
<1>4. FilesInv'
  BY <1>1 DEF IInv, FilesInv, Current
<1>5. HostsInv'
  BY <1>1 DEF IInv, HostsInv, HostInv, Alive, Current
<1> QED
  BY <1>2, <1>3, <1>4, <1>5 DEF IInv

\* A step of ./benchmark that starts no host.
LEMMA BenchStep ==
    ASSUME IInv, NEW b \in Hosts, ~Alive(b), NEW r \in Benchmarks,
           bench' = [bench EXCEPT ![b] = r],
           UNCHANGED <<cacheVars, src, build, object>>,
           r.pc \in {"loop", "wait"} => build = "idle" /\ \A c \in Hosts : c # b => ~Running(c)
    PROVE  IInv'
<1>1. UNCHANGED <<wasm, exe, cache, inodes, content, proc, compiles, src, build, object>>
  BY DEF cacheVars, files
<1>2. /\ bench' \in [Hosts -> Benchmarks] /\ bench'[b] = r
      /\ \A c \in Hosts : c # b => bench'[c] = bench[c]
  BY DEF IInv, TypeInv
<1>3. TypeInv' /\ Removed'
  BY <1>1, <1>2 DEF IInv, TypeInv, Removed
<1>4. OneAtATime'
  BY <1>1, <1>2 DEF IInv, OneAtATime, Running
<1>5. FilesInv'
  BY <1>1 DEF IInv, FilesInv, Current
<1>6. HostsInv'
  <2> SUFFICES ASSUME NEW h \in Hosts, Alive(h)' PROVE HostInv(h)'
    BY DEF HostsInv
  <2>1. Alive(h) /\ h # b
    BY <1>1 DEF Alive
  <2>2. HostInv(h) /\ bench'[h] = bench[h] /\ Current' = Current
    BY <1>1, <1>2, <2>1 DEF IInv, HostsInv, Current
  <2> QED
    BY <1>1, <2>2 DEF HostInv
<1> QED
  BY <1>3, <1>4, <1>5, <1>6 DEF IInv

\* The slot of a benchmark that does not wait has no running host.
LEMMA AliveWaits ==
    ASSUME IInv, NEW b \in Hosts, bench[b].pc # "wait" \/ proc[b].pc = "exited"
    PROVE  ~Alive(b)
BY DEF IInv, HostsInv, HostInv, Alive

\* A benchmark starts when nothing else runs, with no host yet.
LEMMA StartBenchmarkInv ==
    ASSUME ~Concurrent, IInv, NEW b \in Hosts, StartBenchmark(b)
    PROVE  IInv'
<1> DEFINE r == [pc |-> "loop", i |-> 0]
<1>1. r \in Benchmarks
  BY DEF Benchmarks
<1>2. ~Alive(b)
  BY AliveWaits DEF StartBenchmark, Running
<1>3. bench' = [bench EXCEPT ![b] = r] /\ UNCHANGED <<cacheVars, src, build, object>>
  BY DEF StartBenchmark
<1>4. build = "idle" /\ \A c \in Hosts : ~Running(c)
  BY DEF StartBenchmark
<1> QED
  BY <1>1, <1>2, <1>3, <1>4, BenchStep

\* The shell starts a host with an empty state and the engine of the executable.
LEMMA SpawnInv ==
    ASSUME IInv, NEW b \in Hosts, bench[b].pc = "loop", exe # 0, Spawn(b),
           bench' = [bench EXCEPT ![b].pc = "wait"],
           UNCHANGED <<files, compiles, src, build, object>>
    PROVE  IInv'
<1> DEFINE r == [Idle EXCEPT !.pc = "start", !.engine = EngineOf[exe]]
           n == [bench[b] EXCEPT !.pc = "wait"]
<1>1. /\ proc \in [Hosts -> Processes] /\ bench \in [Hosts -> Benchmarks]
      /\ bench[b] \in Benchmarks /\ exe \in Versions
  BY DEF IInv, TypeInv
<1>2. /\ r \in Processes /\ r.pc = "start" /\ r.engine = EngineOf[exe]
      /\ r.map = 0 /\ r.off = 0
  BY <1>1 DEF Idle, Processes, Labels, Engines
<1>3. n \in Benchmarks /\ n.pc = "wait"
  BY <1>1 DEF Benchmarks
<1>4. proc' = [proc EXCEPT ![b] = r] /\ bench' = [bench EXCEPT ![b] = n]
  BY DEF Spawn
<1> HIDE DEF r, n
<1>5. /\ proc' \in [Hosts -> Processes] /\ proc'[b] = r
      /\ \A g \in Hosts : g # b => proc'[g] = proc[g]
  BY <1>1, <1>2, <1>4
<1>6. /\ bench' \in [Hosts -> Benchmarks] /\ bench'[b] = n
      /\ \A g \in Hosts : g # b => bench'[g] = bench[g]
  BY <1>1, <1>3, <1>4
<1>7. UNCHANGED <<wasm, exe, cache, inodes, content, compiles, src, build, object>>
  BY DEF files
<1>8. build = "idle" /\ \A g \in Hosts : g # b => ~Running(g)
  BY DEF IInv, OneAtATime, Running
<1>9. \A g \in Hosts : g # b => ~Alive(g)
  BY <1>8 DEF IInv, HostsInv, HostInv, Running
<1>10. HostInv(b)'
  BY <1>2, <1>3, <1>5, <1>6, <1>7 DEF HostInv
<1>11. HostsInv'
  BY <1>5, <1>9, <1>10, OthersStayDead
<1>12. TypeInv' /\ Removed'
  BY <1>5, <1>6, <1>7 DEF IInv, TypeInv, Removed
<1>13. OneAtATime'
  BY <1>6, <1>7, <1>8 DEF OneAtATime, Running
<1>14. FilesInv'
  BY <1>7 DEF IInv, FilesInv, Current
<1> QED
  BY <1>11, <1>12, <1>13, <1>14 DEF IInv

\* An iteration starts a host if there is an executable, or ends the benchmark.
LEMMA LoopIterationInv ==
    ASSUME IInv, NEW b \in Hosts, LoopIteration(b)
    PROVE  IInv'
<1>1. bench[b].pc = "loop" /\ UNCHANGED <<files, compiles, src, build, object>>
  BY DEF LoopIteration
<1>2. CASE exe # 0 /\ Spawn(b) /\ bench' = [bench EXCEPT ![b].pc = "wait"]
  BY <1>1, <1>2, SpawnInv
<1>3. ASSUME NEW x \in {"succeeded", "failed"}, bench' = [bench EXCEPT ![b].pc = x],
             UNCHANGED proc
      PROVE  IInv'
  <2> DEFINE r == [bench[b] EXCEPT !.pc = x]
  <2>1. bench[b] \in Benchmarks
    BY DEF IInv, TypeInv
  <2>2. r \in Benchmarks /\ r.pc = x
    BY <2>1 DEF Benchmarks
  <2>3. bench' = [bench EXCEPT ![b] = r]
    BY <1>3
  <2> HIDE DEF r
  <2>4. UNCHANGED <<cacheVars, src, build, object>>
    BY <1>1, <1>3 DEF cacheVars
  <2>5. ~Alive(b)
    BY <1>1, AliveWaits
  <2>6. r.pc \notin {"loop", "wait"}
    BY <2>2
  <2> QED
    BY <2>2, <2>3, <2>4, <2>5, <2>6, BenchStep
<1> QED
  BY <1>2, <1>3 DEF LoopIteration

\* The benchmark goes on, or stops, after the host has exited.
LEMMA CommandReturnsInv ==
    ASSUME IInv, NEW b \in Hosts, CommandReturns(b)
    PROVE  IInv'
<1>1. /\ bench[b].pc = "wait" /\ proc[b].pc = "exited"
      /\ UNCHANGED <<cacheVars, src, build, object>>
  BY DEF CommandReturns
<1>2. ~Alive(b)
  BY <1>1, AliveWaits
<1>3. build = "idle" /\ \A c \in Hosts : c # b => ~Running(c)
  BY <1>1 DEF IInv, OneAtATime, Running
<1>4. bench[b] \in Benchmarks
  BY DEF IInv, TypeInv
<1>5. CASE bench' = [bench EXCEPT ![b] = [pc |-> "loop", i |-> @.i + 1]]
  <2> DEFINE r == [pc |-> "loop", i |-> bench[b].i + 1]
  <2>1. r \in Benchmarks
    BY <1>4 DEF Benchmarks
  <2>2. bench' = [bench EXCEPT ![b] = r]
    BY <1>5
  <2> HIDE DEF r
  <2> QED
    BY <1>1, <1>2, <1>3, <2>1, <2>2, BenchStep
<1>6. CASE bench' = [bench EXCEPT ![b].pc = "failed"]
  <2> DEFINE r == [bench[b] EXCEPT !.pc = "failed"]
  <2>1. r \in Benchmarks
    BY <1>4 DEF Benchmarks
  <2>2. bench' = [bench EXCEPT ![b] = r]
    BY <1>6
  <2> HIDE DEF r
  <2> QED
    BY <1>1, <1>2, <1>3, <2>1, <2>2, BenchStep
<1> QED
  BY <1>5, <1>6 DEF CommandReturns

-----------------------------------------------------------------------------
(* The theorems *)

\* At first there are no files and no hosts.
LEMMA InitInv == Init => IInv
<1> SUFFICES ASSUME Init PROVE IInv
  OBVIOUS
<1>1. /\ wasm = 0 /\ exe = 0 /\ cache = 0 /\ inodes = 0 /\ compiles = 0
      /\ content = [i \in 1..MaxInodes |-> <<>>] /\ proc = [h \in Hosts |-> Idle]
      /\ src = 1 /\ build = "idle" /\ object = 0
      /\ bench = [b \in Hosts |-> [pc |-> "idle", i |-> 0]]
  BY DEF Init, CacheInit
<1>2. Idle \in Processes /\ Idle.pc = "none" /\ <<>> \in Seq(Stamp)
  BY DEF Idle, Processes, Labels
<1>3. [pc |-> "idle", i |-> 0] \in Benchmarks
  BY DEF Benchmarks
<1>4. TypeInv
  BY <1>1, <1>2, <1>3, CacheAssumption, HarnessAssumption DEF TypeInv
<1>5. OneAtATime /\ Removed
  BY <1>1 DEF OneAtATime, Removed, Running, Removing, Making
<1>6. FilesInv
  BY <1>1 DEF FilesInv
<1>7. HostsInv
  BY <1>1, <1>2 DEF HostsInv, Alive
<1> QED
  BY <1>4, <1>5, <1>6, <1>7 DEF IInv

\* Without concurrency every step keeps the invariant.
LEMMA NextInv ==
    ASSUME ~Concurrent, IInv, [Next]_vars
    PROVE  IInv'
<1>1. CASE UNCHANGED vars
  <2>1. UNCHANGED <<wasm, exe, cache, inodes, content, proc, compiles, src, build, object, bench>>
    BY <1>1 DEF vars, cacheVars, files
  <2>2. TypeInv' /\ OneAtATime' /\ Removed'
    BY <2>1 DEF IInv, TypeInv, OneAtATime, Removed, Running
  <2>3. FilesInv' /\ HostsInv'
    BY <2>1 DEF IInv, FilesInv, HostsInv, HostInv, Alive, Current
  <2> QED
    BY <2>2, <2>3 DEF IInv
<1>2. CASE Build \/ KillBuild
  <2>1. build # "idle"
    BY <1>2 DEF Build, KillBuild, RemoveOld, Cargo, MoveFile
  <2> QED
    BY <1>2, <2>1, BuildInv
<1>3. ASSUME NEW b \in Hosts, StartBenchmark(b) \/ Benchmark(b)
      PROVE  IInv'
  BY <1>3, StartBenchmarkInv, LoopIterationInv, CommandReturnsInv DEF Benchmark
<1>4. ASSUME NEW h \in Hosts, Host(h) \/ Kill(h)
      PROVE  IInv'
  BY <1>4, HostStepInv, KillInv
<1> QED
  BY <1>1, <1>2, <1>3, <1>4, EditInv, StartBuildInv DEF Next

\* The invariant holds in every use of the scripts one after the other.
LEMMA HarnessInvariant ==
    ASSUME ~Concurrent
    PROVE  Spec => []IInv
<1>1. IInv /\ [Next]_vars => IInv'
  BY NextInv
<1> QED
  BY <1>1, InitInv, PTL DEF Spec

\* What the invariant says of a mapped file: it is whole and of the module there is.
LEMMA MappedIsWhole ==
    ASSUME IInv, NEW h \in Hosts, Alive(h), proc[h].map # 0
    PROVE  /\ content[proc[h].map] = [i \in 1..Chunks |-> Current]
           /\ Len(content[proc[h].map]) = Chunks
           /\ Current \in Stamp
<1> DEFINE f == content[cache]
<1>1. proc[h].map = cache /\ Len(f) = Chunks /\ exe # 0
  BY OnlyOneAlive DEF HostInv
<1>2. cache \in 1..MaxInodes /\ f \in Seq(Stamp)
  BY <1>1, CacheAssumption DEF IInv, TypeInv
<1>3. \A i \in 1..Chunks : f[i] = Current
  BY <1>1, <1>2 DEF IInv, FilesInv
<1>4. 1 \in 1..Chunks
  BY CacheAssumption
<1>5. f = [i \in 1..Chunks |-> Current]
  BY <1>1, <1>2, <1>3
<1>6. Current \in Stamp
  BY <1>1, <1>2, <1>3, <1>4
<1> QED
  BY <1>1, <1>5, <1>6

\* RunsCurrentModule: used one after the other, the scripts never let a guest run that
\* was compiled from another module or by another engine than the ones that are there,
\* whatever was edited, which builds failed and where runs were killed.
THEOREM HarnessRunsCurrentModule ==
    ASSUME ~Concurrent
    PROVE  Spec => []RunsCurrentModule
<1>1. IInv => RunsCurrentModule
  <2> SUFFICES ASSUME IInv, NEW h \in Hosts, proc[h].pc = "call"
               PROVE  Code(h) = {Current}
    BY DEF RunsCurrentModule, Current
  <2>1. Alive(h)
    BY DEF Alive
  <2>2. CASE proc[h].map = 0
    BY <2>1, <2>2, OnlyOneAlive DEF HostInv, Code
  <2>3. CASE proc[h].map # 0
    <3> DEFINE f == content[proc[h].map]
    <3>1. f = [i \in 1..Chunks |-> Current] /\ Len(f) = Chunks
      BY <2>1, <2>3, MappedIsWhole
    <3>2. Code(h) = {f[i] : i \in 1..Chunks}
      BY <2>3, <3>1 DEF Code
    <3>3. 1 \in 1..Chunks
      BY CacheAssumption
    <3> QED
      BY <3>1, <3>2, <3>3
  <2> QED
    BY <2>2, <2>3
<1> QED
  BY <1>1, HarnessInvariant, PTL

\* NeverRunsPartialFile: what a host maps was written to the end by one run, although
\* runs are killed in the middle of std::fs::write.
THEOREM HarnessNeverRunsPartialFile ==
    ASSUME ~Concurrent
    PROVE  Spec => []NeverRunsPartialFile
<1>1. IInv => NeverRunsPartialFile
  <2> SUFFICES ASSUME IInv, NEW h \in Hosts, proc[h].pc \in {"link", "call"}, proc[h].map # 0
               PROVE  \E m \in Stamp : content[proc[h].map] = [i \in 1..Chunks |-> m]
    BY DEF NeverRunsPartialFile
  <2>1. Alive(h)
    BY DEF Alive
  <2> QED
    BY <2>1, MappedIsWhole
<1> QED
  BY <1>1, HarnessInvariant, PTL

\* CompilesOncePerBuild: at most one run after a build compiles the module to the end,
\* since what it leaves behind is never rejected.
THEOREM HarnessCompilesOncePerBuild ==
    ASSUME ~Concurrent
    PROVE  Spec => []CompilesOncePerBuild
<1>1. IInv => CompilesOncePerBuild
  BY DEF IInv, FilesInv, CompilesOncePerBuild
<1> QED
  BY <1>1, HarnessInvariant, PTL

\* MappedFileIsUnchanged: the condition Module::deserialize_file puts on its caller is
\* met; nobody truncates or writes a file while a host has it mapped.
THEOREM HarnessMappedFileIsUnchanged ==
    ASSUME ~Concurrent
    PROVE  Spec => MappedFileIsUnchanged
<1> DEFINE Same(h) == content'[proc[h].map] = content[proc[h].map]
<1>1. ASSUME IInv, [Next]_vars, NEW h \in Hosts, Alive(h), proc[h].map # 0
      PROVE  Same(h)
  <2>1. proc[h].pc \in {"link", "call"} /\ build = "idle" /\ \A g \in Hosts : g # h => ~Alive(g)
    BY <1>1, OnlyOneAlive DEF HostInv
  <2>2. \A g \in Hosts : ~WriteCreate(g) /\ ~WriteChunk(g)
    BY <2>1 DEF WriteCreate, WriteChunk, Alive
  <2>3. UNCHANGED content
    <3>1. CASE \E g \in Hosts : Host(g) \/ Kill(g)
      BY <2>2, <3>1 DEF Host, Kill, HostStep, Killed, Setup, DeserializeOk, DeserializeErr,
         FromFile, WriteDone, Link, Call, CallPanics, files
    <3>2. CASE \E b \in Hosts : StartBenchmark(b) \/ Benchmark(b)
      BY <3>2 DEF StartBenchmark, Benchmark, LoopIteration, CommandReturns, cacheVars, files
    <3>3. CASE Edit \/ StartBuild \/ Build \/ KillBuild
      BY <3>3 DEF Edit, StartBuild, Build, KillBuild, RemoveOld, Cargo, MoveFile, cacheVars, files
    <3>4. CASE UNCHANGED vars
      BY <3>4 DEF vars, cacheVars, files
    <3> QED
      BY <1>1, <3>1, <3>2, <3>3, <3>4 DEF Next
  <2> QED
    BY <2>3
<1>2. IInv /\ [Next]_vars =>
          [\A h \in Hosts : Alive(h) /\ proc[h].map # 0 => Same(h)]_vars
  BY <1>1
<1> QED
  BY <1>2, HarnessInvariant, PTL DEF Spec, MappedFileIsUnchanged

-----------------------------------------------------------------------------
(***************************************************************************)
(* StaleCodeNeedsASurvivor: builds, benchmarks and any number of hosts may *)
(* overlap, and still no host runs outdated code unless one was under way  *)
(* when ./build removed the executable.                                    *)
(*                                                                         *)
(* The argument is the order of remove_old_binaries. A build that has gone *)
(* past its first step has left no executable, so nobody starts a host     *)
(* until the build is over; without a survivor there is then no host at    *)
(* all. As long as a host lives, module, engine and SERIALIZED file are    *)
(* therefore the ones it was started with. Hosts that write the file at    *)
(* the same time can leave holes in it, but no chunk of another module.    *)
(***************************************************************************)

Pieces == Stamp \cup {Hole}

Shapes ==
    /\ wasm \in Versions \cup {0}
    /\ exe \in Versions \cup {0}
    /\ src \in Versions
    /\ object \in Versions \cup {0}
    /\ inodes \in 0..MaxInodes
    /\ cache \in 0..inodes
    /\ content \in [1..MaxInodes -> Seq(Pieces)]
    /\ proc \in [Hosts -> Processes]

\* What ./build has removed so far, and files that were never opened.
BuildGone ==
    /\ build \in Removing \cup Making => exe = 0
    /\ build \in Making => cache = 0
    /\ \A i \in 1..MaxInodes : i > inodes => content[i] = <<>>

OfCurrent(file) == \A i \in 1..Len(file) : file[i] \in {Current, Hole}

FileCurrent == exe # 0 /\ cache # 0 => OfCurrent(content[cache])

\* A running host was started from the executable that is there and has nothing, in
\* memory, mapped or open, that is not of the module that is there.
HostCurrent(h) ==
    /\ exe # 0
    /\ proc[h].engine = EngineOf[exe]
    /\ proc[h].module \subseteq {Current}
    /\ proc[h].pc = "write" => cache # 0 /\ proc[h].fd = cache
    /\ proc[h].map # 0 => proc[h].map = cache

HostsCurrent == \A h \in Hosts : Alive(h) => HostCurrent(h)

Tame == Shapes /\ BuildGone /\ FileCurrent /\ HostsCurrent
OInv == ~survivor => Tame

-----------------------------------------------------------------------------
(* The steps of main *)

\* A host step that changes no file: the other hosts are not affected.
LEMMA OverlapQuietStep ==
    ASSUME Tame, NEW h \in Hosts, NEW r \in Processes,
           proc' = [proc EXCEPT ![h] = r], UNCHANGED files, UNCHANGED <<src, object, build>>,
           Alive(h)' => HostCurrent(h)'
    PROVE  Tame'
<1>1. /\ proc' \in [Hosts -> Processes]
      /\ \A g \in Hosts : g # h => proc'[g] = proc[g]
  BY ProcUpdate DEF Tame, Shapes
<1>2. UNCHANGED <<wasm, exe, cache, inodes, content, src, object, build>> /\ Current' = Current
  BY DEF files, Current
<1>3. Shapes' /\ BuildGone'
  BY <1>1, <1>2 DEF Tame, Shapes, BuildGone
<1>4. FileCurrent'
  BY <1>2 DEF Tame, FileCurrent, OfCurrent
<1>5. HostsCurrent'
  <2> SUFFICES ASSUME NEW g \in Hosts, Alive(g)', g # h PROVE HostCurrent(g)'
    BY DEF HostsCurrent
  <2>1. Alive(g) /\ proc'[g] = proc[g]
    BY <1>1 DEF Alive
  <2>2. HostCurrent(g)
    BY <2>1 DEF Tame, HostsCurrent
  <2> QED
    BY <1>2, <2>1, <2>2 DEF HostCurrent
<1> QED
  BY <1>3, <1>4, <1>5 DEF Tame

\* A host that exits, however it does.
LEMMA OverlapExit ==
    ASSUME Tame, NEW h \in Hosts, NEW s \in Nat, Exit(h, s), UNCHANGED files, UNCHANGED scripts
    PROVE  Tame'
<1> DEFINE r == [proc[h] EXCEPT !.pc = "exited", !.status = s]
<1>1. proc[h] \in Processes /\ proc \in [Hosts -> Processes]
  BY DEF Tame, Shapes
<1>2. r \in Processes /\ r.pc = "exited"
  BY <1>1 DEF Processes, Labels
<1>3. proc' = [proc EXCEPT ![h] = r]
  BY DEF Exit
<1> HIDE DEF r
<1>4. ~Alive(h)'
  BY <1>1, <1>2, <1>3 DEF Alive
<1> QED
  BY <1>2, <1>3, <1>4, OverlapQuietStep DEF scripts

\* A host that goes on in main without opening the file for writing.
LEMMA OverlapGoto ==
    ASSUME Tame, NEW h \in Hosts, Alive(h), NEW x \in Labels \ {"write"}, Goto(h, x),
           UNCHANGED files, UNCHANGED scripts
    PROVE  Tame'
<1>1. proc \in [Hosts -> Processes] /\ HostCurrent(h)
  BY DEF Tame, Shapes, HostsCurrent
<1>2. /\ [proc[h] EXCEPT !.pc = x] \in Processes
      /\ proc' = [proc EXCEPT ![h] = [proc[h] EXCEPT !.pc = x]]
      /\ proc'[h].pc = x /\ proc'[h].engine = proc[h].engine
      /\ proc'[h].module = proc[h].module /\ proc'[h].map = proc[h].map
  BY <1>1, GotoFacts
<1>3. HostCurrent(h)'
  BY <1>1, <1>2 DEF HostCurrent, Current, files
<1> QED
  BY <1>2, <1>3, OverlapQuietStep DEF scripts

\* A host maps the file under the name it is looking for.
LEMMA OverlapDeserializeOk ==
    ASSUME Tame, NEW h \in Hosts, DeserializeOk(h), UNCHANGED scripts
    PROVE  Tame'
<1> DEFINE r == [proc[h] EXCEPT !.pc = "link", !.map = cache]
<1>1. /\ proc[h] \in Processes /\ proc \in [Hosts -> Processes] /\ cache \in Nat
      /\ HostCurrent(h)
  BY DEF Tame, Shapes, HostsCurrent, DeserializeOk, Alive
<1>2. /\ r \in Processes /\ r.module = proc[h].module
      /\ r.pc = "link" /\ r.engine = proc[h].engine /\ r.map = cache
  BY <1>1 DEF Processes, Labels
<1>3. proc' = [proc EXCEPT ![h] = r]
  BY DEF DeserializeOk
<1> HIDE DEF r
<1>4. HostCurrent(h)'
  BY <1>1, <1>2, <1>3 DEF HostCurrent, DeserializeOk, files, Current
<1> QED
  BY <1>2, <1>3, <1>4, OverlapQuietStep DEF DeserializeOk, scripts

\* The module that is compiled is the one that is there.
LEMMA OverlapFromFile ==
    ASSUME Tame, NEW h \in Hosts, FromFile(h), UNCHANGED scripts
    PROVE  Tame'
<1> DEFINE r == [proc[h] EXCEPT !.pc = "create",
                                !.module = {[wasm |-> wasm, engine |-> proc[h].engine]}]
<1>1. proc[h] \in Processes /\ proc \in [Hosts -> Processes] /\ HostCurrent(h)
  BY DEF Tame, Shapes, HostsCurrent, FromFile, Alive
<1>2. CASE wasm # 0 /\ proc' = [proc EXCEPT ![h] = r]
  <2>1. Current \in Stamp
    BY <1>1, <1>2 DEF Tame, Shapes, HostCurrent, Current, Stamp
  <2>2. Current = [wasm |-> wasm, engine |-> proc[h].engine]
    BY <1>1 DEF HostCurrent, Current
  <2>3. /\ r \in Processes
        /\ r.pc = "create" /\ r.engine = proc[h].engine /\ r.map = proc[h].map
        /\ r.module = {Current}
    BY <1>1, <2>1, <2>2 DEF Processes, Labels
  <2> HIDE DEF r
  <2>4. HostCurrent(h)'
    BY <1>1, <1>2, <2>3 DEF HostCurrent, FromFile, files, Current
  <2> QED
    BY <1>2, <2>3, <2>4, OverlapQuietStep DEF FromFile, scripts
<1>3. CASE Exit(h, 1)
  BY <1>3, OverlapExit DEF FromFile
<1> QED
  BY <1>2, <1>3 DEF FromFile

\* A host step that changes the SERIALIZED file, or creates it.
LEMMA OverlapFileStep ==
    ASSUME Tame, NEW h \in Hosts, Alive(h), NEW r \in Processes,
           proc' = [proc EXCEPT ![h] = r],
           UNCHANGED <<wasm, exe>>, UNCHANGED scripts,
           cache' = cache \/ cache = 0,
           inodes' \in 0..MaxInodes, cache' \in 1..inodes',
           content' \in [1..MaxInodes -> Seq(Pieces)],
           \A i \in 1..MaxInodes : i > inodes' => content'[i] = <<>>,
           \A i \in 1..Len(content'[cache']) : content'[cache'][i] \in {Current, Hole},
           HostCurrent(h)'
    PROVE  Tame'
<1>1. /\ proc' \in [Hosts -> Processes]
      /\ \A g \in Hosts : g # h => proc'[g] = proc[g]
  BY ProcUpdate DEF Tame, Shapes
<1>2. UNCHANGED <<wasm, exe, src, object, build>> /\ Current' = Current
  BY DEF scripts, Current
<1>3. exe # 0
  BY DEF Tame, HostsCurrent, HostCurrent
<1>4. cache' \in 0..inodes'
  OBVIOUS
<1>5. Shapes'
  BY <1>1, <1>2, <1>4 DEF Tame, Shapes
<1>6. BuildGone'
  BY <1>2, <1>3 DEF Tame, BuildGone, Removing, Making
<1>7. FileCurrent'
  BY <1>2 DEF FileCurrent, OfCurrent
<1>8. HostsCurrent'
  <2> SUFFICES ASSUME NEW g \in Hosts, Alive(g)', g # h PROVE HostCurrent(g)'
    BY DEF HostsCurrent
  <2>1. Alive(g) /\ proc'[g] = proc[g]
    BY <1>1 DEF Alive
  <2>2. HostCurrent(g)
    BY <2>1 DEF Tame, HostsCurrent
  <2>3. (proc[g].map # 0 \/ proc[g].pc = "write") => cache' = cache
    BY <2>2 DEF HostCurrent
  <2> QED
    BY <1>2, <2>1, <2>2, <2>3 DEF HostCurrent
<1> QED
  BY <1>5, <1>6, <1>7, <1>8 DEF Tame

\* Truncating the file, or creating it, leaves it empty.
LEMMA OverlapWriteCreate ==
    ASSUME Tame, NEW h \in Hosts, WriteCreate(h), UNCHANGED scripts
    PROVE  Tame'
<1>1. /\ proc[h] \in Processes /\ proc \in [Hosts -> Processes]
      /\ Alive(h) /\ HostCurrent(h) /\ Shapes
  BY DEF Tame, Shapes, HostsCurrent, WriteCreate, Alive
<1>2. CASE Exit(h, 101) /\ UNCHANGED <<cache, inodes, content>>
  BY <1>2, OverlapExit DEF WriteCreate, files
<1>3. ASSUME NEW i \in 1..inodes', proc' = [proc EXCEPT ![h].pc = "write", ![h].fd = i],
             cache' = i, cache' = cache \/ cache = 0, inodes' \in 0..MaxInodes,
             content' \in [1..MaxInodes -> Seq(Pieces)], content'[i] = <<>>,
             \A j \in 1..MaxInodes : j > inodes' => content'[j] = <<>>,
             UNCHANGED <<wasm, exe>>
      PROVE  Tame'
  <2> DEFINE r == [proc[h] EXCEPT !.pc = "write", !.fd = i]
  <2>1. i \in Nat /\ i # 0
    BY <1>3, CacheAssumption
  <2>2. /\ r \in Processes
        /\ r.pc = "write" /\ r.engine = proc[h].engine /\ r.map = proc[h].map
        /\ r.fd = i /\ r.module = proc[h].module
    BY <1>1, <2>1 DEF Processes, Labels
  <2>3. proc' = [proc EXCEPT ![h] = r]
    BY <1>3
  <2> HIDE DEF r
  <2>4. proc'[h] = r
    BY <1>1, <2>3
  <2>5. proc[h].map # 0 => cache' = cache
    BY <1>1, <1>3 DEF HostCurrent
  <2>6. HostCurrent(h)'
    BY <1>1, <1>3, <2>1, <2>2, <2>4, <2>5 DEF HostCurrent, Current
  <2>7. \A j \in 1..Len(content'[cache']) : content'[cache'][j] \in {Current, Hole}
    BY <1>3
  <2> QED
    BY <1>1, <1>3, <2>2, <2>3, <2>6, <2>7, OverlapFileStep
<1>4. UNCHANGED <<wasm, exe>> /\ <<>> \in Seq(Pieces)
  BY DEF WriteCreate
<1>5. CASE /\ cache # 0
           /\ content' = [content EXCEPT ![cache] = <<>>]
           /\ proc' = [proc EXCEPT ![h].pc = "write", ![h].fd = cache]
           /\ UNCHANGED <<cache, inodes>>
  <2> DEFINE i == cache
  <2>1. i \in 1..inodes' /\ i \in 1..MaxInodes /\ inodes' \in 0..MaxInodes /\ cache' = i
    BY <1>1, <1>5, CacheAssumption DEF Shapes
  <2>2. /\ content' \in [1..MaxInodes -> Seq(Pieces)] /\ content'[i] = <<>>
        /\ \A j \in 1..MaxInodes : j > inodes' => content'[j] = <<>>
    BY <1>1, <1>4, <1>5, <2>1 DEF Shapes, Tame, BuildGone
  <2> QED
    BY <1>3, <1>4, <1>5, <2>1, <2>2
<1>6. CASE /\ cache = 0 /\ inodes < MaxInodes
           /\ inodes' = inodes + 1
           /\ cache' = inodes + 1
           /\ proc' = [proc EXCEPT ![h].pc = "write", ![h].fd = inodes + 1]
           /\ UNCHANGED content
  <2> DEFINE i == inodes + 1
  <2>1. i \in 1..inodes' /\ i \in 1..MaxInodes /\ inodes' \in 0..MaxInodes /\ cache' = i
    BY <1>1, <1>6, CacheAssumption DEF Shapes
  <2>2. /\ content' \in [1..MaxInodes -> Seq(Pieces)] /\ content'[i] = <<>>
        /\ \A j \in 1..MaxInodes : j > inodes' => content'[j] = <<>>
    BY <1>1, <1>6, <2>1 DEF Shapes, Tame, BuildGone
  <2>3. proc' = [proc EXCEPT ![h].pc = "write", ![h].fd = i]
    BY <1>6
  <2> HIDE DEF i
  <2> QED
    BY <1>3, <1>4, <1>6, <2>1, <2>2, <2>3
<1> QED
  BY <1>2, <1>5, <1>6 DEF WriteCreate

\* A write at any offset: the chunk, what was there, and zeros in a gap.
LEMMA WriteAnywhere ==
    ASSUME NEW f \in Seq(Pieces), NEW off \in Nat, NEW m \in Pieces
    PROVE  /\ WriteAt(f, off, m) \in Seq(Pieces)
           /\ \A i \in 1..Len(WriteAt(f, off, m)) :
                 \/ WriteAt(f, off, m)[i] \in {m, Hole}
                 \/ i \in 1..Len(f) /\ WriteAt(f, off, m)[i] = f[i]
<1> DEFINE w == WriteAt(f, off, m)
           n == IF Len(f) > off THEN Len(f) ELSE off + 1
<1>1. Len(f) \in Nat /\ n \in Nat /\ Hole \in Pieces
  BY DEF Pieces
<1>2. w = [i \in 1..n |-> CASE i = off + 1 -> m
                            [] i <= Len(f) /\ i # off + 1 -> f[i]
                            [] OTHER -> Hole]
  BY DEF WriteAt
<1> HIDE DEF w, n
<1>3. \A i \in 1..n : w[i] \in {m, Hole} \/ (i \in 1..Len(f) /\ w[i] = f[i])
  BY <1>1, <1>2
<1>4. \A i \in 1..n : w[i] \in Pieces
  BY <1>1, <1>3
<1>5. w \in [1..n -> Pieces]
  BY <1>2, <1>4
<1>6. w \in Seq(Pieces) /\ Len(w) = n
  BY <1>1, <1>5
<1> QED
  BY <1>3, <1>6 DEF w

\* Hosts that write the same file mix their chunks, which are of one module.
LEMMA OverlapWriteChunk ==
    ASSUME Tame, NEW h \in Hosts, WriteChunk(h), UNCHANGED scripts
    PROVE  Tame'
<1>1. /\ proc[h] \in Processes /\ proc \in [Hosts -> Processes]
      /\ Alive(h) /\ HostCurrent(h) /\ Shapes /\ proc[h].pc = "write"
  BY DEF Tame, Shapes, HostsCurrent, WriteChunk, Alive
<1>2. CASE Exit(h, 101) /\ UNCHANGED content
  BY <1>2, OverlapExit DEF WriteChunk, files
<1>3. CASE /\ \E m \in proc[h].module :
                 content' = [content EXCEPT ![proc[h].fd] = WriteAt(@, proc[h].off, m)]
           /\ proc' = [proc EXCEPT ![h].off = @ + 1]
  <2> DEFINE off == proc[h].off
             f == content[cache]
             w == WriteAt(f, off, Current)
             r == [proc[h] EXCEPT !.off = @ + 1]
  <2>1. proc[h].fd = cache /\ cache # 0 /\ exe # 0 /\ proc[h].module \subseteq {Current}
    BY <1>1 DEF HostCurrent
  <2>2. Current \in proc[h].module /\ content' = [content EXCEPT ![cache] = w]
    BY <1>3, <2>1
  <2>3. Current \in Pieces /\ off \in Nat
    BY <1>1, <2>2 DEF Processes, Pieces
  <2>4. cache \in 1..MaxInodes /\ cache \in 1..inodes /\ f \in Seq(Pieces)
    BY <1>1, <2>1, CacheAssumption DEF Shapes
  <2>5. /\ w \in Seq(Pieces)
        /\ \A i \in 1..Len(w) : w[i] \in {Current, Hole} \/ (i \in 1..Len(f) /\ w[i] = f[i])
    BY <2>3, <2>4, WriteAnywhere
  <2>6. /\ r \in Processes
        /\ r.pc = proc[h].pc /\ r.engine = proc[h].engine /\ r.map = proc[h].map
        /\ r.fd = proc[h].fd /\ r.module = proc[h].module
    BY <1>1 DEF Processes
  <2>7. proc' = [proc EXCEPT ![h] = r]
    BY <1>3
  <2> HIDE DEF r, w
  <2>8. proc'[h] = r
    BY <1>1, <2>7
  <2>9. UNCHANGED <<wasm, exe, cache, inodes>>
    BY DEF WriteChunk
  <2>10. /\ content' \in [1..MaxInodes -> Seq(Pieces)] /\ content'[cache] = w
         /\ \A i \in 1..MaxInodes : i # cache => content'[i] = content[i]
    BY <1>1, <2>2, <2>4, <2>5 DEF Shapes
  <2>11. \A i \in 1..Len(w) : w[i] \in {Current, Hole}
    BY <2>1, <2>5 DEF Tame, FileCurrent, OfCurrent
  <2>12. \A i \in 1..MaxInodes : i > inodes' => content'[i] = <<>>
    BY <1>1, <2>4, <2>9, <2>10 DEF Tame, BuildGone, Shapes
  <2>13. HostCurrent(h)'
    BY <1>1, <2>6, <2>8, <2>9 DEF HostCurrent, Current
  <2>14. \A i \in 1..Len(content'[cache']) : content'[cache'][i] \in {Current, Hole}
    BY <2>9, <2>10, <2>11
  <2>15. /\ content' \in [1..MaxInodes -> Seq(Pieces)]
         /\ inodes' \in 0..MaxInodes /\ cache' \in 1..inodes'
    BY <1>1, <2>4, <2>9, <2>10 DEF Shapes
  <2> QED
    BY <1>1, <2>6, <2>7, <2>9, <2>12, <2>13, <2>14, <2>15, OverlapFileStep
<1> QED
  BY <1>2, <1>3 DEF WriteChunk

\* The call ends the host.
LEMMA OverlapCall ==
    ASSUME Tame, NEW h \in Hosts, Call(h) \/ CallPanics(h), UNCHANGED scripts
    PROVE  Tame'
<1>1. PICK x \in {"returned", "trapped", "panicked"}, n \in {0, 101} :
        proc' = [proc EXCEPT ![h] = [@ EXCEPT !.pc = "exited", !.status = n, !.result = x]]
  BY DEF Call, CallPanics
<1> DEFINE r == [proc[h] EXCEPT !.pc = "exited", !.status = n, !.result = x]
<1>2. proc[h] \in Processes /\ proc \in [Hosts -> Processes]
  BY DEF Tame, Shapes
<1>3. n \in Nat /\ x \in {"none", "returned", "trapped", "panicked"}
  OBVIOUS
<1>4. r \in Processes /\ r.pc = "exited"
  BY <1>2, <1>3 DEF Processes, Labels
<1>5. proc' = [proc EXCEPT ![h] = r]
  BY <1>1
<1> HIDE DEF r
<1>6. ~Alive(h)'
  BY <1>2, <1>4, <1>5 DEF Alive
<1>7. UNCHANGED files /\ UNCHANGED <<src, object, build>>
  BY DEF Call, CallPanics, scripts
<1> QED
  BY <1>4, <1>5, <1>6, <1>7, OverlapQuietStep

\* Every step of main, and the end of a host at any point.
LEMMA OverlapHost ==
    ASSUME Tame, NEW h \in Hosts, Host(h) \/ Kill(h)
    PROVE  Tame'
<1>1. UNCHANGED scripts
  BY DEF Host, Kill
<1>2. {"lookup", "compile", "link", "call"} \subseteq Labels \ {"write"}
  BY DEF Labels
<1>3. CASE Setup(h)
  <2>1. Alive(h) /\ UNCHANGED files
    BY <1>3 DEF Setup, Alive
  <2> QED
    BY <1>1, <1>2, <1>3, <2>1, OverlapGoto, OverlapExit DEF Setup
<1>4. CASE DeserializeErr(h)
  <2>1. Alive(h) /\ UNCHANGED files
    BY <1>4 DEF DeserializeErr, Alive
  <2> QED
    BY <1>1, <1>2, <1>4, <2>1, OverlapGoto DEF DeserializeErr
<1>5. CASE WriteDone(h)
  <2>1. Alive(h) /\ UNCHANGED files
    BY <1>5 DEF WriteDone, Alive
  <2> QED
    BY <1>1, <1>2, <1>5, <2>1, OverlapGoto DEF WriteDone
<1>6. CASE Link(h)
  <2>1. Alive(h) /\ UNCHANGED files
    BY <1>6 DEF Link, Alive
  <2> QED
    BY <1>1, <1>2, <1>6, <2>1, OverlapGoto, OverlapExit DEF Link
<1>7. CASE Kill(h)
  BY <1>1, <1>7, OverlapExit DEF Kill, Killed
<1> QED
  BY <1>1, <1>3, <1>4, <1>5, <1>6, <1>7, OverlapDeserializeOk, OverlapFromFile,
     OverlapWriteCreate, OverlapWriteChunk, OverlapCall DEF Host, HostStep

-----------------------------------------------------------------------------
(* The scripts *)

\* A script step that touches no file main reads, and no host.
LEMMA OverlapScriptStep ==
    ASSUME Tame, UNCHANGED files, UNCHANGED proc, src' \in Versions,
           object' \in Versions \cup {0}, BuildGone'
    PROVE  Tame'
<1>1. UNCHANGED <<wasm, exe, cache, inodes, content, proc>> /\ Current' = Current
  BY DEF files, Current
<1>2. Shapes'
  BY <1>1 DEF Tame, Shapes
<1>3. FileCurrent'
  BY <1>1 DEF Tame, FileCurrent, OfCurrent
<1>4. HostsCurrent'
  BY <1>1 DEF Tame, HostsCurrent, HostCurrent, Alive
<1> QED
  BY <1>2, <1>3, <1>4 DEF Tame

\* A step of ./build on the files happens while there is no host.
LEMMA OverlapBuildStep ==
    ASSUME Tame, \A h \in Hosts : ~Alive(h), UNCHANGED <<inodes, content, proc, src, object>>,
           wasm' \in {wasm, object, 0}, exe' \in {exe, object, 0}, cache' \in {cache, 0},
           exe' = 0 \/ cache' = 0, BuildGone'
    PROVE  Tame'
<1>1. Shapes'
  BY DEF Tame, Shapes
<1>2. FileCurrent'
  BY DEF FileCurrent
<1>3. HostsCurrent'
  BY DEF HostsCurrent, Alive
<1> QED
  BY <1>1, <1>2, <1>3 DEF Tame

\* The steps of ./build. The first removes the executable, and any host that runs at
\* that instant is a survivor.
LEMMA OverlapBuild ==
    ASSUME Tame, ~survivor', Build \/ KillBuild
    PROVE  Tame'
<1>1. exe = 0 => \A h \in Hosts : ~Alive(h)
  BY DEF Tame, HostsCurrent, HostCurrent
<1>2. CASE RemoveOld /\ build = "rm_exe"
  <2>1. /\ exe' = 0 /\ build' = "rm_wasm"
        /\ UNCHANGED <<wasm, cache, inodes, content, proc, src, object>>
        /\ \A h \in Hosts : ~Alive(h)
    BY <1>2 DEF RemoveOld, RemoveExe
  <2>2. BuildGone'
    BY <2>1 DEF Tame, BuildGone, Making
  <2> QED
    BY <2>1, <2>2, OverlapBuildStep
<1>3. CASE RemoveOld /\ build # "rm_exe"
  <2>1. /\ exe = 0 /\ UNCHANGED <<exe, inodes, content, proc, src, object>>
        /\ wasm' \in {wasm, 0} /\ cache' \in {cache, 0}
        /\ build' = "rm_cache" \/ (build' = "cargo_wasm" /\ cache' = 0)
    BY <1>3 DEF RemoveOld, Tame, BuildGone, Removing
  <2>2. BuildGone'
    BY <2>1 DEF Tame, BuildGone, Making
  <2> QED
    BY <1>1, <2>1, <2>2, OverlapBuildStep
<1>4. CASE Cargo \/ KillBuild
  <2>1. /\ UNCHANGED files /\ UNCHANGED proc /\ UNCHANGED src
        /\ object' \in {object, src}
        /\ build' = "idle" \/ (build \in Making /\ build' \in Making)
    BY <1>4 DEF Cargo, KillBuild, cacheVars, Making
  <2>2. BuildGone'
    BY <2>1 DEF Tame, BuildGone, files, Removing, Making
  <2>3. src' \in Versions /\ object' \in Versions \cup {0}
    BY <2>1 DEF Tame, Shapes
  <2> QED
    BY <2>1, <2>2, <2>3, OverlapScriptStep
<1>5. CASE MoveFile
  <2>1. /\ exe = 0 /\ cache = 0
        /\ UNCHANGED <<cache, inodes, content, proc, src, object>>
        /\ wasm' \in {wasm, object} /\ exe' \in {exe, object}
        /\ build' = "idle" \/ (build' = "cargo_host" /\ exe' = exe)
    BY <1>5 DEF MoveFile, Tame, BuildGone, Making
  <2>2. BuildGone'
    BY <2>1 DEF Tame, BuildGone, Removing, Making
  <2> QED
    BY <1>1, <2>1, <2>2, OverlapBuildStep
<1> QED
  BY <1>2, <1>3, <1>4, <1>5 DEF Build

\* The steps of ./benchmark; a host starts with the engine of the executable.
LEMMA OverlapBenchmark ==
    ASSUME Tame, NEW b \in Hosts, StartBenchmark(b) \/ Benchmark(b)
    PROVE  Tame'
<1>1. UNCHANGED files /\ UNCHANGED <<src, object, build>>
  BY DEF StartBenchmark, Benchmark, LoopIteration, CommandReturns, cacheVars
<1>2. CASE UNCHANGED proc
  <2>1. BuildGone' /\ src' \in Versions /\ object' \in Versions \cup {0}
    BY <1>1 DEF Tame, BuildGone, Shapes, files
  <2> QED
    BY <1>1, <1>2, <2>1, OverlapScriptStep
<1>3. CASE exe # 0 /\ Spawn(b)
  <2> DEFINE r == [Idle EXCEPT !.pc = "start", !.engine = EngineOf[exe]]
  <2>1. proc \in [Hosts -> Processes] /\ exe \in Versions
    BY <1>3 DEF Tame, Shapes
  <2>2. /\ r \in Processes /\ r.pc = "start" /\ r.engine = EngineOf[exe]
        /\ r.map = 0 /\ r.module = {}
    BY <2>1 DEF Idle, Processes, Labels, Engines
  <2>3. proc' = [proc EXCEPT ![b] = r]
    BY <1>3 DEF Spawn
  <2> HIDE DEF r
  <2>4. proc'[b] = r
    BY <2>1, <2>3
  <2>5. HostCurrent(b)'
    BY <1>1, <1>3, <2>2, <2>4 DEF HostCurrent, files
  <2> QED
    BY <1>1, <2>2, <2>3, <2>5, OverlapQuietStep
<1> QED
  BY <1>2, <1>3 DEF StartBenchmark, Benchmark, LoopIteration, CommandReturns, cacheVars

\* An edit, and the start of a build.
LEMMA OverlapEdit ==
    ASSUME Tame, Edit \/ StartBuild
    PROVE  Tame'
<1>1. /\ UNCHANGED files /\ UNCHANGED proc /\ UNCHANGED object
      /\ src' = src \/ src' \in Versions
      /\ build' = build \/ build' = "rm_exe"
  BY DEF Edit, StartBuild, cacheVars
<1>2. src' \in Versions /\ object' \in Versions \cup {0}
  BY <1>1 DEF Tame, Shapes
<1>3. BuildGone'
  BY <1>1 DEF Tame, BuildGone, files, Removing, Making
<1> QED
  BY <1>1, <1>2, <1>3, OverlapScriptStep

-----------------------------------------------------------------------------
(* The theorem *)

\* At first there are no files and no hosts.
LEMMA OverlapInit == Init => OInv
<1> SUFFICES ASSUME Init PROVE Tame
  BY DEF OInv
<1>1. /\ wasm = 0 /\ exe = 0 /\ cache = 0 /\ inodes = 0
      /\ content = [i \in 1..MaxInodes |-> <<>>] /\ proc = [h \in Hosts |-> Idle]
      /\ src = 1 /\ build = "idle" /\ object = 0
  BY DEF Init, CacheInit
<1>2. Idle \in Processes /\ Idle.pc = "none" /\ <<>> \in Seq(Pieces)
  BY DEF Idle, Processes, Labels
<1>3. Shapes
  BY <1>1, <1>2, CacheAssumption, HarnessAssumption DEF Shapes
<1>4. BuildGone /\ FileCurrent
  BY <1>1 DEF BuildGone, FileCurrent, Removing, Making
<1>5. HostsCurrent
  BY <1>1, <1>2 DEF HostsCurrent, Alive
<1> QED
  BY <1>3, <1>4, <1>5 DEF Tame

\* Every step of any script or host keeps the invariant; survivor never falls.
LEMMA OverlapNext ==
    ASSUME OInv, [Next]_vars
    PROVE  OInv'
<1> SUFFICES ASSUME ~survivor' PROVE Tame'
  BY DEF OInv
<1>1. CASE UNCHANGED vars
  <2>1. UNCHANGED files /\ UNCHANGED <<proc, src, object, build, survivor>>
    BY <1>1 DEF vars, cacheVars
  <2>2. Tame
    BY <2>1 DEF OInv
  <2>3. BuildGone' /\ src' \in Versions /\ object' \in Versions \cup {0}
    BY <2>1, <2>2 DEF Tame, BuildGone, Shapes, files
  <2> QED
    BY <2>1, <2>2, <2>3, OverlapScriptStep
<1>2. CASE Build \/ KillBuild
  <2>1. ~survivor
    BY <1>2 DEF Build, KillBuild, RemoveOld, RemoveExe, Cargo, MoveFile
  <2> QED
    BY <1>2, <2>1, OverlapBuild DEF OInv
<1>3. CASE \E b \in Hosts : StartBenchmark(b) \/ Benchmark(b)
  <2>1. ~survivor
    BY <1>3 DEF StartBenchmark, Benchmark, LoopIteration, CommandReturns
  <2> QED
    BY <1>3, <2>1, OverlapBenchmark DEF OInv
<1>4. CASE \E h \in Hosts : Host(h) \/ Kill(h)
  <2>1. ~survivor
    BY <1>4 DEF Host, Kill, scripts
  <2> QED
    BY <1>4, <2>1, OverlapHost DEF OInv
<1>5. CASE Edit \/ StartBuild
  <2>1. ~survivor
    BY <1>5 DEF Edit, StartBuild
  <2> QED
    BY <1>5, <2>1, OverlapEdit DEF OInv
<1> QED
  BY <1>1, <1>2, <1>3, <1>4, <1>5 DEF Next

\* StaleCodeNeedsASurvivor: for any number of hosts, builds and benchmarks that overlap
\* in any way, a guest runs outdated code only if a host was under way when a build
\* removed the executable.
THEOREM HarnessStaleCodeNeedsASurvivor == Spec => []StaleCodeNeedsASurvivor
<1>1. OInv => StaleCodeNeedsASurvivor
  <2> SUFFICES ASSUME Tame, NEW h \in Hosts, proc[h].pc = "call"
               PROVE  Code(h) \subseteq {Current, Hole}
    BY DEF OInv, StaleCodeNeedsASurvivor, Current
  <2>1. HostCurrent(h)
    BY DEF Tame, HostsCurrent, Alive
  <2>2. CASE proc[h].map = 0
    BY <2>1, <2>2 DEF HostCurrent, Code
  <2>3. CASE proc[h].map # 0
    <3>1. OfCurrent(content[cache]) /\ proc[h].map = cache
      BY <2>1, <2>3 DEF Tame, FileCurrent, HostCurrent
    <3> QED
      BY <2>3, <3>1 DEF Code, OfCurrent
  <2> QED
    BY <2>2, <2>3
<1>2. OInv /\ [Next]_vars => OInv'
  BY OverlapNext
<1> QED
  BY <1>1, <1>2, OverlapInit, PTL DEF Spec

=============================================================================
