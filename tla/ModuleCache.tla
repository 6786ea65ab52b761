----------------------------- MODULE ModuleCache ----------------------------
(***************************************************************************)
(* A process of the host program (wasmtime-custom/src/main.rs) and the     *)
(* files it shares with other processes: the Wasm module, the host         *)
(* executable and the ahead-of-time compiled module `<module>.SERIALIZED`. *)
(*                                                                         *)
(* `main` maps the SERIALIZED file when the engine accepts it, otherwise   *)
(* compiles the module and overwrites the file, with a truncating open     *)
(* followed by writes: other processes, and a crash, can come in between.  *)
(* A file is a sequence of chunks, each stamped with the versions of the   *)
(* module and of the engine it was compiled by. A mapping is private but   *)
(* shows later changes of pages that were not yet touched.                 *)
(***************************************************************************)
EXTENDS Integers, Sequences

CONSTANTS
    Hosts,      \* process slots
    Versions,   \* versions of the sources, as positive numbers
    EngineOf,   \* wasmtime version and settings of each source version
    Chunks,     \* chunks of a complete SERIALIZED file
    MaxInodes   \* bound: SERIALIZED files ever created

ASSUME CacheAssumption ==
    /\ Versions \subseteq Nat \ {0}
    /\ Chunks \in Nat \ {0}
    /\ MaxInodes \in Nat

VARIABLES
    wasm,     \* version of the module file, 0 when there is none
    exe,      \* version of the host executable, 0 when there is none
    cache,    \* inode of the SERIALIZED file, 0 when there is none
    inodes,   \* number of SERIALIZED files created so far
    content,  \* chunks of each of them, also of removed ones
    proc,     \* the host process in each slot
    compiles  \* history: complete SERIALIZED files written since the last build

files == <<wasm, exe, cache, inodes, content>>
cacheVars == <<files, proc, compiles>>

Stamp == [wasm: Versions, engine: {EngineOf[v] : v \in Versions}]
Hole == [wasm |-> 0, engine |-> 0]

Idle == [pc |-> "none", engine |-> 0, module |-> {}, map |-> 0, fd |-> 0,
         off |-> 0, status |-> 0, result |-> "none"]

CacheInit ==
    /\ wasm = 0
    /\ exe = 0
    /\ cache = 0
    /\ inodes = 0
    /\ content = [i \in 1..MaxInodes |-> <<>>]
    /\ proc = [h \in Hosts |-> Idle]
    /\ compiles = 0

-----------------------------------------------------------------------------
Goto(h, pc) == proc' = [proc EXCEPT ![h].pc = pc]

\* main returns (status 0), returns an error (1), panics (101) or is killed (9).
Exit(h, status) ==
    proc' = [proc EXCEPT ![h].pc = "exited", ![h].status = status]

\* The shell starts the executable.
Spawn(h) ==
    proc' = [proc EXCEPT ![h] = [Idle EXCEPT !.pc = "start", !.engine = EngineOf[exe]]]

\* Engine, linker, Ctx::new with its preopened directories.
Setup(h) ==
    /\ proc[h].pc = "start"
    /\ Goto(h, "lookup") \/ Exit(h, 1) \/ Exit(h, 101)
    /\ UNCHANGED <<files, compiles>>

\* Module::deserialize_file maps the file, parses it as ELF and checks the engine's
\* version and settings (check_compatible). The section table is at the end of the
\* file, so one that lacks its end is rejected, as is an empty one. Nothing compares
\* the file with the Wasm module. A file of mixed chunks may be accepted or not.
MayAccept(file, engine) == Len(file) = Chunks /\ \E i \in 1..Chunks : file[i].engine = engine
MayReject(file, engine) == \/ Len(file) # Chunks
                           \/ \E i, j \in 1..Len(file) : file[i] # file[j]
                           \/ \A i \in 1..Len(file) : file[i].engine # engine

\* Mutant of DeserializeOk: the file is written again although it is mapped.
DeserializeThenWrite(h) ==
    /\ proc[h].pc = "lookup"
    /\ cache # 0 /\ MayAccept(content[cache], proc[h].engine)
    /\ proc' = [proc EXCEPT ![h].pc = "compile", ![h].map = cache]
    /\ UNCHANGED <<files, compiles>>

DeserializeOk(h) ==
    /\ proc[h].pc = "lookup"
    /\ cache # 0 /\ MayAccept(content[cache], proc[h].engine)
    /\ proc' = [proc EXCEPT ![h].pc = "link", ![h].map = cache]
    /\ UNCHANGED <<files, compiles>>

DeserializeErr(h) ==
    /\ proc[h].pc = "lookup"
    /\ cache # 0 => MayReject(content[cache], proc[h].engine)
    /\ Goto(h, "compile")
    /\ UNCHANGED <<files, compiles>>

\* Module::from_file and Module::serialize, which may fail on any file.
FromFile(h) ==
    /\ proc[h].pc = "compile"
    /\ \/ /\ wasm # 0
          /\ proc' = [proc EXCEPT ![h].pc = "create",
                         ![h].module = {[wasm |-> wasm, engine |-> proc[h].engine]}]
       \/ Exit(h, 1)
    /\ UNCHANGED <<files, compiles>>

\* Mutants of WriteCreate: the file gets its full length at once; the file is
\* created under another name than the one looked up.
PreallocatingCreate(h) ==
    /\ proc[h].pc = "create"
    /\ LET i == IF cache = 0 THEN inodes + 1 ELSE cache
       IN  /\ i <= MaxInodes
           /\ content' = [content EXCEPT ![i] = [k \in 1..Chunks |-> Hole]]
           /\ cache' = i
           /\ inodes' = IF cache = 0 THEN i ELSE inodes
           /\ proc' = [proc EXCEPT ![h].pc = "write", ![h].fd = i]
    /\ UNCHANGED <<wasm, exe, compiles>>

CreateElsewhere(h) ==
    /\ proc[h].pc = "create"
    /\ inodes < MaxInodes
    /\ inodes' = inodes + 1
    /\ proc' = [proc EXCEPT ![h].pc = "write", ![h].fd = inodes + 1]
    /\ UNCHANGED <<wasm, exe, cache, content, compiles>>

\* std::fs::write, first half: open with O_CREAT and O_TRUNC.
WriteCreate(h) ==
    /\ proc[h].pc = "create"
    /\ \/ /\ cache # 0
          /\ content' = [content EXCEPT ![cache] = <<>>]
          /\ proc' = [proc EXCEPT ![h].pc = "write", ![h].fd = cache]
          /\ UNCHANGED <<cache, inodes>>
       \/ /\ cache = 0 /\ inodes < MaxInodes
          /\ inodes' = inodes + 1
          /\ cache' = inodes + 1
          /\ proc' = [proc EXCEPT ![h].pc = "write", ![h].fd = inodes + 1]
          /\ UNCHANGED content
       \/ /\ Exit(h, 101)
          /\ UNCHANGED <<cache, inodes, content>>
    /\ UNCHANGED <<wasm, exe, compiles>>

\* A chunk written at an offset; a gap before it reads as zeros.
WriteAt(file, off, chunk) ==
    [i \in 1..(IF Len(file) > off THEN Len(file) ELSE off + 1) |->
        CASE i = off + 1 -> chunk
          [] i <= Len(file) /\ i # off + 1 -> file[i]
          [] OTHER -> Hole]

\* std::fs::write, second half: write_all. An error (a full disk) is unwrapped.
WriteChunk(h) ==
    /\ proc[h].pc = "write" /\ proc[h].off < Chunks
    /\ \/ /\ \E m \in proc[h].module :
                content' = [content EXCEPT ![proc[h].fd] = WriteAt(@, proc[h].off, m)]
          /\ proc' = [proc EXCEPT ![h].off = @ + 1]
       \/ /\ Exit(h, 101)
          /\ UNCHANGED content
    /\ UNCHANGED <<wasm, exe, cache, inodes, compiles>>

WriteDone(h) ==
    /\ proc[h].pc = "write" /\ proc[h].off = Chunks
    /\ Goto(h, "link")
    /\ compiles' = compiles + 1
    /\ UNCHANGED files

\* Linker::module, Linker::get, into_func, typed.
Link(h) ==
    /\ proc[h].pc = "link"
    /\ Goto(h, "call") \/ Exit(h, 1) \/ Exit(h, 101)
    /\ UNCHANGED <<files, compiles>>

\* inference_function.call: its result is dropped, main returns Ok(()). A panic of
\* a host function unwinds through the call and ends the process.
Call(h) ==
    /\ proc[h].pc = "call"
    /\ \E result \in {"returned", "trapped"} :
          proc' = [proc EXCEPT ![h] = [@ EXCEPT !.pc = "exited", !.status = 0, !.result = result]]
    /\ UNCHANGED <<files, compiles>>

CallPanics(h) ==
    /\ proc[h].pc = "call"
    /\ proc' = [proc EXCEPT ![h] = [@ EXCEPT !.pc = "exited", !.status = 101, !.result = "panicked"]]
    /\ UNCHANGED <<files, compiles>>

Alive(h) == proc[h].pc \notin {"none", "exited"}

\* The process is killed, or touches a page of its mapping past the end of a file
\* that was truncated.
Killed(h) ==
    /\ Alive(h)
    /\ Exit(h, 9)
    /\ UNCHANGED <<files, compiles>>

HostStep(h) ==
    \/ Setup(h) \/ DeserializeOk(h) \/ DeserializeErr(h) \/ FromFile(h)
    \/ WriteCreate(h) \/ WriteChunk(h) \/ WriteDone(h) \/ Link(h)
    \/ Call(h) \/ CallPanics(h)

-----------------------------------------------------------------------------
\* The chunks a process runs: those of its mapping, as they are now, or the module
\* it compiled.
Code(h) ==
    IF proc[h].map # 0 THEN {content[proc[h].map][i] : i \in 1..Len(content[proc[h].map])}
    ELSE proc[h].module
=============================================================================
