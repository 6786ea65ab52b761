------------------------------- MODULE WasiNn -------------------------------
(***************************************************************************)
(* The host side of wasi-nn as the benchmark links it: the WITX bindings   *)
(* (crates/wasi-nn/src/witx.rs) over the handle tables of ctx.rs, the      *)
(* registry and the ONNX backend (backend/onnxruntime.rs). One action per  *)
(* call a guest can make, with every argument it may pass.                 *)
(*                                                                         *)
(* The ONNX runtime itself is external: what a session returns for a model *)
(* and its inputs is the uninterpreted value Infer(model, inputs, i), and  *)
(* building or running a session may fail at any time.                     *)
(***************************************************************************)
EXTENDS Integers, Sequences, FiniteSets

CONSTANTS
    Models,      \* byte strings the ONNX runtime accepts as a model
    BadModels,   \* byte strings it rejects
    NumInputs,   \* session.inputs.len() of each model
    NumOutputs,  \* session.outputs.len() of each model
    Names,       \* names a guest may ask load_by_name for
    Tensors,     \* tensors a guest may pass to set_input
    Fp32,        \* those that are Fp32 with data that fits their dimensions
    TableSize,   \* 2^32 in the code: number of u32 keys
    MaxGraphs,   \* bound: graphs that may be loaded
    MaxContexts  \* bound: execution contexts that may be created

ASSUME WasiNnAssumption ==
    /\ NumInputs \in [Models -> Nat]
    /\ NumOutputs \in [Models -> Nat]
    /\ Fp32 \subseteq Tensors
    /\ TableSize \in Nat \ {0}
    /\ MaxGraphs \in Nat /\ MaxGraphs <= TableSize
    /\ MaxContexts \in Nat /\ MaxContexts <= TableSize

VARIABLES
    registry,    \* InMemoryRegistry: function from some names to models
    graphs,      \* Table<GraphId, Graph>
    executions,  \* Table<GraphExecutionContextId, ExecutionContext>
    host,        \* "running", or "panicked": the host process has aborted
    error,       \* the call that failed and its WasiNnError, "none" before
    reply,       \* what the last call returned to the guest
    loaded,      \* history: number of graphs inserted
    created,     \* history: number of contexts inserted
    bound,       \* history: graph handle each context was created from
    computed     \* history: inputs of the last run of each context

vars == <<registry, graphs, executions, host, error, reply, loaded, created,
          bound, computed>>

-----------------------------------------------------------------------------
(* Table of ctx.rs *)

EmptyMap == [k \in {} |-> {}]

\* HashMap::insert.
Put(map, key, value) ==
    [k \in DOMAIN map \cup {key} |-> IF k = key THEN value ELSE map[k]]

\* Mutant of Insert: the counter is not advanced.
InsertSameKey(table, value) ==
    [entries |-> Put(table.entries, table.next_key, value),
     next_key |-> table.next_key]

\* Table::insert. The key counter wraps in a release build.
Insert(table, value) ==
    [entries |-> Put(table.entries, table.next_key, value),
     next_key |-> (table.next_key + 1) % TableSize]

\* Table::get_mut: the value of a key is changed in place.
Update(table, key, value) ==
    [entries |-> [table.entries EXCEPT ![key] = value], next_key |-> table.next_key]

EmptyTable == [entries |-> EmptyMap, next_key |-> 0]

-----------------------------------------------------------------------------
(* Outcomes of a call *)

\* A reply: the handle a call created or used and, for get_output, what it copied.
Reply(op, handle) == [op |-> op, handle |-> handle, output |-> {}]
NoReply == Reply("none", 0)

Ok(value) ==
    /\ reply' = value
    /\ UNCHANGED <<host, error>>

Error(call, kind) == [call |-> call, kind |-> kind]

\* Mutant of nn_errno_from_wasi_nn_error: the error goes back to the guest.
ErrnoReturned(call, kind) ==
    /\ error' = Error(call, kind)
    /\ reply' = NoReply
    /\ UNCHANGED host

\* Every arm is unimplemented!().
nn_errno_from_wasi_nn_error(call, kind) ==
    /\ error' = Error(call, kind)
    /\ host' = "panicked"
    /\ reply' = NoReply

\* A failed unwrap, an index out of bounds or an unimplemented!().
Panic ==
    /\ host' = "panicked"
    /\ reply' = NoReply
    /\ UNCHANGED error

\* External: output i of a run of the model's session.
Infer(model, inputs, i) == [model |-> model, inputs |-> inputs, index |-> i]

-----------------------------------------------------------------------------
(* The calls *)

\* Ctx::new of the benchmark passes one backend and an empty registry; preload
\* of ctx.rs fills it from directories. Any registry is possible here.
Init ==
    /\ registry \in UNION {[S -> Models] : S \in SUBSET Names}
    /\ graphs = EmptyTable
    /\ executions = EmptyTable
    /\ host = "running"
    /\ error = Error("none", "none")
    /\ reply = NoReply
    /\ loaded = 0
    /\ created = 0
    /\ bound = EmptyMap
    /\ computed = EmptyMap

InsertGraph(model) ==
    /\ graphs' = Insert(graphs, model)
    /\ loaded' = loaded + 1
    /\ Ok(Reply("graph", graphs.next_key))

\* OnnxBackend::load: the errors it may return and the models it may make a graph of.
\* Building a session may fail for any bytes.
LoadErrors(builders) == IF Len(builders) = 1 THEN {"BackendAccess"}
                        ELSE {"InvalidNumberOfBuilders"}
LoadedModel(builders) == {m \in Models : builders = <<m>>}

load(builders, encoding) ==
    /\ host = "running"
    /\ \/ /\ encoding # "onnx"
          /\ nn_errno_from_wasi_nn_error("load", "InvalidEncoding")
          /\ UNCHANGED <<graphs, loaded>>
       \/ /\ encoding = "onnx"
          /\ \E kind \in LoadErrors(builders) : nn_errno_from_wasi_nn_error("load", kind)
          /\ UNCHANGED <<graphs, loaded>>
       \/ /\ encoding = "onnx"
          /\ \E m \in LoadedModel(builders) : InsertGraph(m)
    /\ UNCHANGED <<registry, executions, created, bound, computed>>

load_by_name(name) ==
    /\ host = "running"
    /\ \/ /\ name \in DOMAIN registry
          /\ InsertGraph(registry[name])
       \/ /\ name \notin DOMAIN registry
          /\ nn_errno_from_wasi_nn_error("load_by_name", "NotFound")
          /\ UNCHANGED <<graphs, loaded>>
    /\ UNCHANGED <<registry, executions, created, bound, computed>>

\* ONNXGraph::init_execution_context. An Option is the set of its values.
NewContext(model) ==
    [graph |-> model,
     inputs |-> [i \in 0..(NumInputs[model] - 1) |-> {}],
     outputs |-> [i \in 0..(NumOutputs[model] - 1) |-> {}]]

init_execution_context(g) ==
    /\ host = "running"
    /\ \/ /\ g \in DOMAIN graphs.entries
          /\ executions' = Insert(executions, NewContext(graphs.entries[g]))
          /\ created' = created + 1
          /\ bound' = Put(bound, executions.next_key, g)
          /\ Ok(Reply("context", executions.next_key))
       \/ /\ g \notin DOMAIN graphs.entries
          /\ nn_errno_from_wasi_nn_error("init_execution_context", "InvalidGraphHandle")
          /\ UNCHANGED <<executions, created, bound>>
    /\ UNCHANGED <<registry, graphs, loaded, computed>>

\* ONNXExecutionContext::set_input.
SetSlot(e, i, tensor) ==
    LET c == executions.entries[e]
    IN  executions' = Update(executions, e,
            [graph |-> c.graph, inputs |-> [c.inputs EXCEPT ![i] = {tensor}],
             outputs |-> c.outputs])

\* An unknown context is reported as an invalid *graph* handle.
set_input(e, i, tensor) ==
    /\ host = "running"
    /\ \/ /\ e \notin DOMAIN executions.entries
          /\ nn_errno_from_wasi_nn_error("set_input", "InvalidGraphHandle")
          /\ UNCHANGED executions
       \/ /\ e \in DOMAIN executions.entries
          /\ i \notin DOMAIN executions.entries[e].inputs
          /\ Panic
          /\ UNCHANGED executions
       \/ /\ e \in DOMAIN executions.entries
          /\ i \in DOMAIN executions.entries[e].inputs
          /\ SetSlot(e, i, tensor)
          /\ Ok(Reply("set", e))
    /\ UNCHANGED <<registry, graphs, loaded, created, bound, computed>>

\* Every input is set and is an Fp32 tensor the runtime can take.
Shaped(context) ==
    \A i \in DOMAIN context.inputs :
        context.inputs[i] # {} /\ context.inputs[i] \subseteq Fp32

\* Mutant of Extract: the loop stops one output early.
ExtractTooFew(c, n) ==
    [graph |-> c.graph, inputs |-> c.inputs,
     outputs |-> [i \in DOMAIN c.outputs |->
        IF i < n - 1 THEN {Infer(c.graph, c.inputs, i)} ELSE c.outputs[i]]]

\* The context c after n rounds of the loop of compute, which replaces the outputs
\* one after the other.
Extract(c, n) ==
    [graph |-> c.graph, inputs |-> c.inputs,
     outputs |-> [i \in DOMAIN c.outputs |->
        IF i < n THEN {Infer(c.graph, c.inputs, i)} ELSE c.outputs[i]]]

\* ONNXExecutionContext::compute: the inputs are shaped, the session runs, the
\* outputs are replaced one by one and an output that is not f32 stops the loop.
compute(e) ==
    /\ host = "running"
    /\ \/ /\ e \notin DOMAIN executions.entries
          /\ nn_errno_from_wasi_nn_error("compute", "InvalidExecutionContextHandle")
          /\ UNCHANGED <<executions, computed>>
       \/ /\ e \in DOMAIN executions.entries
          /\ ~Shaped(executions.entries[e])
          /\ Panic
          /\ UNCHANGED <<executions, computed>>
       \/ /\ e \in DOMAIN executions.entries
          /\ Shaped(executions.entries[e])
          /\ nn_errno_from_wasi_nn_error("compute", "BackendAccess")
          /\ \E n \in {0} \cup 1..(NumOutputs[executions.entries[e].graph] - 1) :
                executions' = Update(executions, e, Extract(executions.entries[e], n))
          /\ UNCHANGED computed
       \/ /\ e \in DOMAIN executions.entries
          /\ Shaped(executions.entries[e])
          /\ executions' = Update(executions, e, Extract(executions.entries[e],
                               NumOutputs[executions.entries[e].graph]))
          /\ computed' = Put(computed, e, executions.entries[e].inputs)
          /\ Ok(Reply("computed", e))
    /\ UNCHANGED <<registry, graphs, loaded, created, bound>>

\* outputs[i], empty when i is out of bounds or nothing has been computed.
OutputAt(e, i) ==
    LET outputs == executions.entries[e].outputs
    IN  IF i \in DOMAIN outputs THEN outputs[i] ELSE {}

\* fits: the guest's buffer is at least as long as the output.
get_output(e, i, fits) ==
    /\ host = "running"
    /\ \/ /\ e \notin DOMAIN executions.entries
          /\ nn_errno_from_wasi_nn_error("get_output", "InvalidGraphHandle")
       \/ /\ e \in DOMAIN executions.entries
          /\ OutputAt(e, i) = {} \/ ~fits
          /\ Panic
       \/ /\ e \in DOMAIN executions.entries
          /\ fits
          /\ \E output \in OutputAt(e, i) :
                Ok([op |-> "output", handle |-> e, output |-> {output}])
    /\ UNCHANGED <<registry, graphs, executions, loaded, created,
          bound, computed>>

-----------------------------------------------------------------------------
\* The arguments a guest may pass: model bytes, several buffers, unknown handles.
Builders == {<<m>> : m \in Models \cup BadModels} \cup {<<m, m>> : m \in Models}
GraphArgs == 0..MaxGraphs
ContextArgs == 0..MaxContexts
IndexArgs == UNION {0..NumInputs[m] : m \in Models}
OutputArgs == UNION {0..NumOutputs[m] : m \in Models}

Next ==
    \/ \E b \in Builders, c \in {"onnx", "openvino"} :
          loaded < MaxGraphs /\ load(b, c)
    \/ \E name \in Names : loaded < MaxGraphs /\ load_by_name(name)
    \/ \E g \in GraphArgs : created < MaxContexts /\ init_execution_context(g)
    \/ \E e \in ContextArgs, i \in IndexArgs, t \in Tensors : set_input(e, i, t)
    \/ \E e \in ContextArgs : compute(e)
    \/ \E e \in ContextArgs, i \in OutputArgs, fits \in BOOLEAN : get_output(e, i, fits)

Spec == Init /\ [][Next]_vars

-----------------------------------------------------------------------------
(* Properties *)

Contexts == DOMAIN executions.entries

\* Type invariant.
TypeOK ==
    /\ DOMAIN registry \subseteq Names /\ registry \in [DOMAIN registry -> Models]
    /\ graphs.next_key \in 0..(TableSize - 1)
    /\ graphs.entries \in [DOMAIN graphs.entries -> Models]
    /\ executions.next_key \in 0..(TableSize - 1)
    /\ \A e \in Contexts : LET c == executions.entries[e] IN
          /\ c.graph \in Models
          /\ c.inputs \in [0..(NumInputs[c.graph] - 1) -> SUBSET Tensors]
          /\ DOMAIN c.outputs = 0..(NumOutputs[c.graph] - 1)
    /\ host \in {"running", "panicked"}
    /\ DOMAIN computed \subseteq Contexts
    /\ loaded \in 0..MaxGraphs
    /\ created \in 0..MaxContexts

\* Table::use_next_key never hands out a key that is in use, as long as no more
\* than 2^32 values are inserted: the keys in use are those below the count.
KeysAreFresh ==
    /\ DOMAIN graphs.entries = 0..(loaded - 1)
    /\ graphs.next_key = loaded % TableSize
    /\ Contexts = 0..(created - 1)
    /\ executions.next_key = created % TableSize

\* A handle keeps naming the graph or the context it was returned for: no call
\* overwrites or removes another's entry.
HandlesKeepTheirMeaning ==
    [][/\ \A g \in DOMAIN graphs.entries :
             g \in DOMAIN graphs.entries' /\ graphs.entries'[g] = graphs.entries[g]
       /\ \A e \in Contexts :
             e \in Contexts' /\ executions.entries'[e].graph = executions.entries[e].graph]_vars

\* A context runs the model of the graph handle it was created from, whatever is
\* loaded afterwards, by bytes or by name.
ContextRunsItsGraph ==
    \A e \in Contexts : executions.entries[e].graph = graphs.entries[bound[e]]

\* While the host lives, the outputs of a context all come from one run of its own
\* model on the inputs of its latest successful compute, or none is set: the loop
\* of compute that replaces them one by one is never seen half done.
OutputsOfOneRun ==
    host = "running" =>
        \A e \in Contexts : LET c == executions.entries[e] IN
            \A i \in DOMAIN c.outputs :
                c.outputs[i] = IF e \in DOMAIN computed
                               THEN {Infer(c.graph, computed[e], i)} ELSE {}

\* A context as a guest sees it: its model, its inputs, and the inputs of its latest
\* successful compute; not the output buffers.
AbstractContexts ==
    [e \in Contexts |->
        [model |-> executions.entries[e].graph,
         inputs |-> executions.entries[e].inputs,
         result |-> IF e \in DOMAIN computed THEN {computed[e]} ELSE {}]]

\* What wasi-nn promises: the tables, sessions and output buffers implement it.
Abstract == INSTANCE Inference WITH
    Handles <- 0..(TableSize - 1),
    alive <- host = "running",
    models <- graphs.entries,
    contexts <- AbstractContexts,
    output <- reply.output

\* Every call of the WITX bindings is a step of the abstract service, or its death.
ImplementsInference == Abstract!Spec

\* What the comment "Convert the host errors to their WITX-generated type"
\* (witx.rs:37) says: an error of a call is converted to an nn_errno and returned,
\* so that the guest goes on. The code panics instead.
ErrorsAreConverted == error.kind # "none" => host = "running"

\* What ctx.rs:80 says: an unknown context is an "Invalid execution context handle;
\* has it been initialized?". Of the three calls that take a context, set_input and
\* get_output report an invalid graph handle.
UnknownContextIsReportedAsSuch ==
    error.call \in {"set_input", "compute", "get_output"}
        => error.kind # "InvalidGraphHandle"
=============================================================================
