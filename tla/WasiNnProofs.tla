---------------------------- MODULE WasiNnProofs ----------------------------
(***************************************************************************)
(* Proofs about WasiNn, for every set of models, names and tensors and     *)
(* every size of the tables: its type invariant, that keys are never       *)
(* reused, that a context runs its own graph, that outputs are those of    *)
(* one run, and that it implements the abstract service of Inference.      *)
(***************************************************************************)
EXTENDS WasiNn, TLAPS

\* Every context was created from a graph handle that is still in the table.
BoundIsKnown ==
    /\ DOMAIN bound = Contexts
    /\ \A e \in Contexts : bound[e] \in DOMAIN graphs.entries

\* The inductive invariant. KeysAreFresh is what makes an insertion leave the other
\* entries alone; the others then hold of each entry by itself.
IndInv ==
    /\ TypeOK
    /\ KeysAreFresh
    /\ BoundIsKnown
    /\ ContextRunsItsGraph
    /\ OutputsOfOneRun

\* A count below the size of the table is its own key, and any count has a key.
LEMMA KeyOfCount ==
    ASSUME NEW n \in Nat
    PROVE  /\ n % TableSize \in 0..(TableSize - 1)
           /\ n < TableSize => n % TableSize = n
<1>1. TableSize \in Nat /\ TableSize > 0
    BY WasiNnAssumption
<1> QED  BY <1>1

\* WasiNnCtx::new establishes the invariant.
LEMMA InitIndInv == Init => IndInv
<1> SUFFICES ASSUME Init PROVE IndInv
    OBVIOUS
<1>0. TableSize \in Nat \ {0} /\ MaxGraphs \in Nat /\ MaxContexts \in Nat
    BY WasiNnAssumption
<1>1. /\ graphs.entries = EmptyMap /\ graphs.next_key = 0
      /\ executions.entries = EmptyMap /\ executions.next_key = 0
    BY DEF Init, EmptyTable
<1>2. DOMAIN EmptyMap = {}
    BY DEF EmptyMap
<1>3. TypeOK
    BY <1>0, <1>1, <1>2 DEF Init, TypeOK, Contexts
<1>4. KeysAreFresh
    BY <1>0, <1>1, <1>2, KeyOfCount DEF Init, KeysAreFresh, Contexts
<1> QED  BY <1>1, <1>2, <1>3, <1>4
    DEF Init, IndInv, BoundIsKnown, ContextRunsItsGraph, OutputsOfOneRun, Contexts

-----------------------------------------------------------------------------
\* A call that changes no table keeps the invariant, whether it returns or the host
\* dies of it: all errors and panics but that of compute, and get_output.
LEMMA TablesKeptIndInv ==
    ASSUME IndInv, host' \in {host, "panicked"},
           UNCHANGED <<registry, graphs, executions, loaded, created, bound, computed>>
    PROVE  IndInv'
<1>1. TypeOK'
    BY DEF IndInv, TypeOK, Contexts
<1>2. KeysAreFresh' /\ BoundIsKnown' /\ ContextRunsItsGraph'
    BY DEF IndInv, KeysAreFresh, BoundIsKnown, ContextRunsItsGraph, Contexts
<1>3. OutputsOfOneRun'
    BY DEF IndInv, OutputsOfOneRun, Contexts, Infer
<1> QED  BY <1>1, <1>2, <1>3 DEF IndInv

\* load and load_by_name insert a graph under a fresh key.
LEMMA InsertGraphIndInv ==
    ASSUME IndInv, NEW m \in Models, loaded < MaxGraphs, InsertGraph(m),
           UNCHANGED <<registry, executions, created, bound, computed>>
    PROVE  IndInv'
<1>0. /\ TableSize \in Nat \ {0} /\ MaxGraphs \in Nat /\ MaxGraphs <= TableSize
      /\ loaded \in Nat /\ loaded < TableSize
    BY WasiNnAssumption DEF IndInv, TypeOK
<1>1. graphs.next_key = loaded /\ DOMAIN graphs.entries = 0..(loaded - 1)
    BY <1>0, KeyOfCount DEF IndInv, KeysAreFresh
<1>2. /\ graphs'.entries = Put(graphs.entries, loaded, m)
      /\ graphs'.next_key = (loaded + 1) % TableSize
      /\ loaded' = loaded + 1 /\ host' = host
    BY <1>1 DEF InsertGraph, Insert, Ok
<1>3. /\ DOMAIN graphs'.entries = 0..loaded
      /\ graphs'.entries[loaded] = m
      /\ \A g \in DOMAIN graphs.entries : graphs'.entries[g] = graphs.entries[g]
    BY <1>0, <1>1, <1>2 DEF Put
<1>4. graphs'.next_key \in 0..(TableSize - 1)
    BY <1>0, <1>2, KeyOfCount
<1>5. graphs'.entries \in [DOMAIN graphs'.entries -> Models]
  <2>1. graphs.entries \in [0..(loaded - 1) -> Models]
      BY <1>1 DEF IndInv, TypeOK
  <2>2. \A k \in (0..(loaded - 1)) \cup {loaded} :
            (IF k = loaded THEN m ELSE graphs.entries[k]) \in Models
      BY <2>1
  <2> QED  BY <1>1, <1>2, <2>2 DEF Put
<1>6. TypeOK'
    BY <1>0, <1>2, <1>4, <1>5 DEF IndInv, TypeOK, Contexts
<1>7. KeysAreFresh'
    BY <1>0, <1>2, <1>3 DEF IndInv, KeysAreFresh, Contexts
<1>8. BoundIsKnown' /\ ContextRunsItsGraph'
    BY <1>0, <1>1, <1>3 DEF IndInv, BoundIsKnown, ContextRunsItsGraph, Contexts
<1>9. OutputsOfOneRun'
    BY <1>2 DEF IndInv, OutputsOfOneRun, Contexts, Infer
<1> QED  BY <1>6, <1>7, <1>8, <1>9 DEF IndInv

\* load keeps the invariant.
LEMMA LoadIndInv ==
    ASSUME IndInv, NEW b \in Builders, NEW c \in {"onnx", "openvino"},
           loaded < MaxGraphs, load(b, c)
    PROVE  IndInv'
<1>1. CASE \E m \in Models : InsertGraph(m)
    BY <1>1, InsertGraphIndInv DEF load
<1>2. CASE host' = "panicked" /\ UNCHANGED <<graphs, loaded>>
    BY <1>2, TablesKeptIndInv DEF load
<1> QED  BY <1>1, <1>2 DEF load, LoadedModel, nn_errno_from_wasi_nn_error

\* load_by_name keeps the invariant: what the registry holds is a model.
LEMMA LoadByNameIndInv ==
    ASSUME IndInv, NEW name \in Names, loaded < MaxGraphs, load_by_name(name)
    PROVE  IndInv'
<1>1. CASE name \in DOMAIN registry /\ InsertGraph(registry[name])
  <2>1. registry[name] \in Models
      BY <1>1 DEF IndInv, TypeOK
  <2> QED  BY <1>1, <2>1, InsertGraphIndInv DEF load_by_name
<1>2. CASE host' = "panicked" /\ UNCHANGED <<graphs, loaded>>
    BY <1>2, TablesKeptIndInv DEF load_by_name
<1> QED  BY <1>1, <1>2 DEF load_by_name, nn_errno_from_wasi_nn_error

\* get_output reads the tables only.
LEMMA GetOutputIndInv ==
    ASSUME IndInv, NEW e, NEW i, NEW fits, get_output(e, i, fits)
    PROVE  IndInv'
<1>1. host' \in {host, "panicked"}
    BY DEF get_output, nn_errno_from_wasi_nn_error, Panic, Ok
<1> QED  BY <1>1, TablesKeptIndInv DEF get_output

-----------------------------------------------------------------------------
\* A context is inserted under a fresh key, without outputs and without a run.
LEMMA NewContextIndInv ==
    ASSUME IndInv, NEW g \in DOMAIN graphs.entries, created < MaxContexts,
           executions' = Insert(executions, NewContext(graphs.entries[g])),
           created' = created + 1,
           bound' = Put(bound, executions.next_key, g),
           UNCHANGED <<registry, graphs, loaded, computed, host>>
    PROVE  IndInv'
<1> DEFINE m == graphs.entries[g]
<1>0. /\ TableSize \in Nat \ {0} /\ MaxContexts \in Nat /\ MaxContexts <= TableSize
      /\ created \in Nat /\ created < TableSize
    BY WasiNnAssumption DEF IndInv, TypeOK
<1>m. m \in Models
    BY DEF IndInv, TypeOK
<1>1. executions.next_key = created /\ Contexts = 0..(created - 1)
    BY <1>0, KeyOfCount DEF IndInv, KeysAreFresh
<1>2. /\ executions'.entries = Put(executions.entries, created, NewContext(m))
      /\ executions'.next_key = (created + 1) % TableSize
      /\ bound' = Put(bound, created, g)
    BY <1>1 DEF Insert
<1>3. /\ Contexts' = 0..created /\ created \notin Contexts
      /\ executions'.entries[created] = NewContext(m)
      /\ \A e \in Contexts : executions'.entries[e] = executions.entries[e]
    BY <1>0, <1>1, <1>2 DEF Put, Contexts
<1>4. executions'.next_key \in 0..(TableSize - 1)
    BY <1>0, <1>2, KeyOfCount
<1>5. /\ NewContext(m).graph = m
      /\ NewContext(m).inputs \in [0..(NumInputs[m] - 1) -> SUBSET Tensors]
      /\ DOMAIN NewContext(m).outputs = 0..(NumOutputs[m] - 1)
      /\ \A i \in DOMAIN NewContext(m).outputs : NewContext(m).outputs[i] = {}
    BY DEF NewContext
<1>6. \A e \in Contexts' : e \in Contexts \/ e = created
    BY <1>0, <1>1, <1>3
<1> HIDE DEF m
<1>7. TypeOK'
  <2>1. \A e \in Contexts' : LET c == executions'.entries[e] IN
            /\ c.graph \in Models
            /\ c.inputs \in [0..(NumInputs[c.graph] - 1) -> SUBSET Tensors]
            /\ DOMAIN c.outputs = 0..(NumOutputs[c.graph] - 1)
      BY <1>m, <1>3, <1>5, <1>6 DEF IndInv, TypeOK
  <2>2. DOMAIN computed \subseteq Contexts'
      BY <1>0, <1>1, <1>3 DEF IndInv, TypeOK
  <2>3. created' \in 0..MaxContexts
      BY <1>0
  <2> QED  BY <1>4, <2>1, <2>2, <2>3 DEF IndInv, TypeOK, Contexts
<1>8. KeysAreFresh'
  <2>1. DOMAIN executions'.entries = 0..(created' - 1)
      BY <1>0, <1>3 DEF Contexts
  <2> QED  BY <1>2, <2>1 DEF IndInv, KeysAreFresh, Contexts
<1>9. BoundIsKnown' /\ ContextRunsItsGraph'
  <2>1. DOMAIN bound = Contexts
      BY DEF IndInv, BoundIsKnown
  <2>2. DOMAIN bound' = Contexts'
      BY <1>0, <1>1, <1>2, <1>3, <2>1 DEF Put
  <2>3. bound'[created] = g /\ \A e \in Contexts : bound'[e] = bound[e]
      BY <1>2, <1>3, <2>1 DEF Put
  <2>4. \A e \in Contexts' : /\ bound'[e] \in DOMAIN graphs.entries
                             /\ executions'.entries[e].graph = graphs.entries[bound'[e]]
      BY <1>3, <1>5, <1>6, <2>3 DEF IndInv, BoundIsKnown, ContextRunsItsGraph, m
  <2> QED  BY <2>2, <2>4 DEF BoundIsKnown, ContextRunsItsGraph, Contexts
<1>10. OutputsOfOneRun'
  <2>1. created \notin DOMAIN computed
      BY <1>3 DEF IndInv, TypeOK
  <2> SUFFICES ASSUME host = "running", NEW e \in Contexts',
                      NEW i \in DOMAIN executions'.entries[e].outputs
               PROVE  executions'.entries[e].outputs[i] =
                        IF e \in DOMAIN computed
                        THEN {Infer(executions'.entries[e].graph, computed[e], i)} ELSE {}
      BY DEF OutputsOfOneRun, Contexts, Infer
  <2>2. CASE e = created
      BY <1>3, <1>5, <2>1, <2>2
  <2>3. CASE e \in Contexts
      BY <1>3, <2>3 DEF IndInv, OutputsOfOneRun
  <2> QED  BY <1>6, <2>2, <2>3
<1> QED  BY <1>7, <1>8, <1>9, <1>10 DEF IndInv

\* init_execution_context keeps the invariant.
LEMMA CreateIndInv ==
    ASSUME IndInv, NEW g, created < MaxContexts, init_execution_context(g)
    PROVE  IndInv'
<1>1. CASE g \in DOMAIN graphs.entries
    BY <1>1, NewContextIndInv DEF init_execution_context, Ok
<1>2. CASE g \notin DOMAIN graphs.entries
    BY <1>2, TablesKeptIndInv DEF init_execution_context, nn_errno_from_wasi_nn_error
<1> QED  BY <1>1, <1>2

-----------------------------------------------------------------------------
\* A context that is changed in place keeps the invariant when it stays a context of
\* its graph and, while the host lives, its outputs are those of its latest run.
LEMMA UpdateIndInv ==
    ASSUME IndInv, NEW e \in Contexts, NEW c,
           executions' = Update(executions, e, c),
           c.graph = executions.entries[e].graph,
           c.inputs \in [0..(NumInputs[c.graph] - 1) -> SUBSET Tensors],
           DOMAIN c.outputs = DOMAIN executions.entries[e].outputs,
           DOMAIN computed' \subseteq Contexts,
           \A f \in Contexts \ {e} :
               /\ f \in DOMAIN computed' <=> f \in DOMAIN computed
               /\ f \in DOMAIN computed => computed'[f] = computed[f],
           host' \in {host, "panicked"},
           host' = "running" =>
               \A i \in DOMAIN c.outputs :
                   c.outputs[i] = IF e \in DOMAIN computed'
                                  THEN {Infer(c.graph, computed'[e], i)} ELSE {},
           UNCHANGED <<registry, graphs, loaded, created, bound>>
    PROVE  IndInv'
<1>1. /\ Contexts' = Contexts
      /\ executions'.next_key = executions.next_key
      /\ executions'.entries[e] = c
      /\ \A f \in Contexts \ {e} : executions'.entries[f] = executions.entries[f]
    BY DEF Update, Contexts
<1>2. TypeOK'
  <2>1. \A f \in Contexts : LET d == executions'.entries[f] IN
            /\ d.graph \in Models
            /\ d.inputs \in [0..(NumInputs[d.graph] - 1) -> SUBSET Tensors]
            /\ DOMAIN d.outputs = 0..(NumOutputs[d.graph] - 1)
      BY <1>1 DEF IndInv, TypeOK
  <2> QED  BY <1>1, <2>1 DEF IndInv, TypeOK
<1>3. KeysAreFresh'
    BY <1>1 DEF IndInv, KeysAreFresh
<1>4. BoundIsKnown' /\ ContextRunsItsGraph'
    BY <1>1 DEF IndInv, BoundIsKnown, ContextRunsItsGraph
<1>5. OutputsOfOneRun'
  <2> SUFFICES ASSUME host' = "running", NEW f \in Contexts,
                      NEW i \in DOMAIN executions'.entries[f].outputs
               PROVE  executions'.entries[f].outputs[i] =
                        IF f \in DOMAIN computed'
                        THEN {Infer(executions'.entries[f].graph, computed'[f], i)} ELSE {}
      BY <1>1 DEF OutputsOfOneRun, Infer
  <2>1. CASE f = e
      BY <1>1, <2>1
  <2>2. CASE f # e
    <3>1. host = "running"
        OBVIOUS
    <3>2. executions'.entries[f] = executions.entries[f]
        BY <1>1, <2>2
    <3>3. /\ f \in DOMAIN computed' <=> f \in DOMAIN computed
          /\ f \in DOMAIN computed => computed'[f] = computed[f]
        BY <2>2
    <3>4. executions.entries[f].outputs[i] =
             IF f \in DOMAIN computed
             THEN {Infer(executions.entries[f].graph, computed[f], i)} ELSE {}
        BY <3>1, <3>2 DEF IndInv, OutputsOfOneRun
    <3> QED  BY <3>2, <3>3, <3>4
  <2> QED  BY <2>1, <2>2
<1> QED  BY <1>2, <1>3, <1>4, <1>5 DEF IndInv

\* set_input keeps the invariant: it leaves the outputs of the last run alone.
LEMMA SetInputIndInv ==
    ASSUME IndInv, NEW e, NEW i, NEW t \in Tensors, set_input(e, i, t)
    PROVE  IndInv'
<1>1. CASE e \in Contexts /\ SetSlot(e, i, t) /\ i \in DOMAIN executions.entries[e].inputs
           /\ UNCHANGED host
  <2> DEFINE old == executions.entries[e]
             c == [graph |-> old.graph, inputs |-> [old.inputs EXCEPT ![i] = {t}],
                   outputs |-> old.outputs]
  <2>1. executions' = Update(executions, e, c)
      BY <1>1 DEF SetSlot
  <2>2. old.inputs \in [0..(NumInputs[old.graph] - 1) -> SUBSET Tensors]
      BY <1>1 DEF IndInv, TypeOK
  <2>3. /\ c.graph = old.graph /\ c.outputs = old.outputs
        /\ c.inputs \in [0..(NumInputs[c.graph] - 1) -> SUBSET Tensors]
      BY <1>1, <2>2
  <2>4. DOMAIN computed \subseteq Contexts
      BY DEF IndInv, TypeOK
  <2>5. host = "running" => \A k \in DOMAIN c.outputs :
            c.outputs[k] = IF e \in DOMAIN computed
                           THEN {Infer(c.graph, computed[e], k)} ELSE {}
      BY <1>1, <2>3 DEF IndInv, OutputsOfOneRun
  <2>6. UNCHANGED <<registry, graphs, loaded, created, bound, computed>>
      BY DEF set_input
  <2>7. DOMAIN c.outputs = DOMAIN executions.entries[e].outputs
      BY <2>3
  <2>8. host' = "running" => \A k \in DOMAIN c.outputs :
            c.outputs[k] = IF e \in DOMAIN computed'
                           THEN {Infer(c.graph, computed'[e], k)} ELSE {}
      BY <1>1, <2>5, <2>6
  <2>9. /\ DOMAIN computed' \subseteq Contexts
        /\ \A f \in Contexts \ {e} : /\ f \in DOMAIN computed' <=> f \in DOMAIN computed
                                     /\ computed'[f] = computed[f]
      BY <2>4, <2>6
  <2>10. c.graph = executions.entries[e].graph
      BY <2>3
  <2> HIDE DEF c
  <2> QED  BY <1>1, <2>1, <2>3, <2>6, <2>7, <2>8, <2>9, <2>10, UpdateIndInv
<1>2. CASE host' = "panicked" /\ UNCHANGED executions
    BY <1>2, TablesKeptIndInv DEF set_input
<1> QED  BY <1>1, <1>2 DEF set_input, nn_errno_from_wasi_nn_error, Panic, Ok, Contexts

\* What n rounds of the loop of compute leave in a context: the first n outputs are
\* those of this run, the rest of it is the same.
LEMMA ExtractFields ==
    ASSUME NEW c, NEW n
    PROVE  /\ Extract(c, n).graph = c.graph
           /\ Extract(c, n).inputs = c.inputs
           /\ DOMAIN Extract(c, n).outputs = DOMAIN c.outputs
           /\ \A i \in DOMAIN c.outputs :
                 i < n => Extract(c, n).outputs[i] = {Infer(c.graph, c.inputs, i)}
BY DEF Extract

\* compute keeps the invariant: a loop that stops half-way leaves mixed outputs, but
\* then the host is dead.
LEMMA ComputeIndInv ==
    ASSUME IndInv, NEW e, compute(e)
    PROVE  IndInv'
<1> DEFINE old == executions.entries[e]
<1>0. DOMAIN computed \subseteq Contexts
    BY DEF IndInv, TypeOK
<1>u. UNCHANGED <<registry, graphs, loaded, created, bound>>
    BY DEF compute
<1>1. CASE host' = "panicked" /\ UNCHANGED <<executions, computed>>
    BY <1>1, TablesKeptIndInv DEF compute
<1>2. CASE /\ e \in Contexts /\ host' = "panicked" /\ UNCHANGED computed
           /\ \E n \in {0} \cup 1..(NumOutputs[old.graph] - 1) :
                 executions' = Update(executions, e, Extract(old, n))
  <2>1. PICK n : executions' = Update(executions, e, Extract(old, n))
      BY <1>2
  <2> DEFINE c == Extract(old, n)
  <2>o. old.inputs \in [0..(NumInputs[old.graph] - 1) -> SUBSET Tensors]
      BY <1>2 DEF IndInv, TypeOK
  <2>2. /\ executions' = Update(executions, e, c) /\ c.graph = old.graph
        /\ c.inputs \in [0..(NumInputs[c.graph] - 1) -> SUBSET Tensors]
        /\ DOMAIN c.outputs = DOMAIN old.outputs
      BY <2>1, <2>o, ExtractFields
  <2>3. /\ DOMAIN computed' \subseteq Contexts
        /\ \A f \in Contexts \ {e} : /\ f \in DOMAIN computed' <=> f \in DOMAIN computed
                                     /\ computed'[f] = computed[f]
      BY <1>0, <1>2
  <2>4. host' # "running"
      BY <1>2
  <2> HIDE DEF c
  <2> QED  BY <1>2, <1>u, <2>2, <2>3, <2>4, UpdateIndInv
<1>3. CASE /\ e \in Contexts
           /\ executions' = Update(executions, e, Extract(old, NumOutputs[old.graph]))
           /\ computed' = Put(computed, e, old.inputs) /\ UNCHANGED host
  <2> DEFINE c == Extract(old, NumOutputs[old.graph])
  <2>o. old.inputs \in [0..(NumInputs[old.graph] - 1) -> SUBSET Tensors]
      BY <1>3 DEF IndInv, TypeOK
  <2>1. /\ executions' = Update(executions, e, c) /\ c.graph = old.graph
        /\ c.inputs = old.inputs
        /\ c.inputs \in [0..(NumInputs[c.graph] - 1) -> SUBSET Tensors]
        /\ DOMAIN c.outputs = DOMAIN old.outputs
        /\ \A i \in DOMAIN c.outputs : i < NumOutputs[old.graph]
              => c.outputs[i] = {Infer(c.graph, c.inputs, i)}
    <3>1. /\ c.graph = old.graph /\ c.inputs = old.inputs
          /\ DOMAIN c.outputs = DOMAIN old.outputs
        BY ExtractFields
    <3>2. \A i \in DOMAIN old.outputs : i < NumOutputs[old.graph]
              => c.outputs[i] = {Infer(old.graph, old.inputs, i)}
        BY ExtractFields
    <3>3. executions' = Update(executions, e, c)
        BY <1>3
    <3> HIDE DEF c, old
    <3> QED  BY <2>o, <3>1, <3>2, <3>3
  <2>2. /\ old.graph \in Models
        /\ DOMAIN old.outputs = 0..(NumOutputs[old.graph] - 1)
      BY <1>3 DEF IndInv, TypeOK
  <2>3. NumOutputs[old.graph] \in Nat
      BY <2>2, WasiNnAssumption
  <2>4. /\ DOMAIN computed' \subseteq Contexts
        /\ e \in DOMAIN computed' /\ computed'[e] = old.inputs
        /\ \A f \in Contexts \ {e} : f \in DOMAIN computed' <=> f \in DOMAIN computed
      BY <1>0, <1>3 DEF Put
  <2>5. \A f \in DOMAIN computed \ {e} : computed'[f] = computed[f]
      BY <1>3 DEF Put
  <2> HIDE DEF c
  <2>6. \A i \in DOMAIN c.outputs : c.outputs[i] = {Infer(c.graph, computed'[e], i)}
      BY <2>1, <2>2, <2>3, <2>4
  <2>7. \A f \in Contexts \ {e} :
            /\ f \in DOMAIN computed' <=> f \in DOMAIN computed
            /\ f \in DOMAIN computed => computed'[f] = computed[f]
      BY <2>4, <2>5
  <2>8. host' \in {host, "panicked"}
      BY <1>3
  <2>9. \A i \in DOMAIN c.outputs :
            c.outputs[i] = IF e \in DOMAIN computed'
                           THEN {Infer(c.graph, computed'[e], i)} ELSE {}
      BY <2>4, <2>6
  <2> QED  BY <1>3, <1>u, <2>1, <2>4, <2>7, <2>8, <2>9, UpdateIndInv
<1> QED  BY <1>1, <1>2, <1>3
    DEF compute, nn_errno_from_wasi_nn_error, Panic, Ok, Contexts

-----------------------------------------------------------------------------
\* Every call a guest can make keeps the invariant.
LEMMA NextIndInv == IndInv /\ [Next]_vars => IndInv'
<1> SUFFICES ASSUME IndInv, [Next]_vars PROVE IndInv'
    OBVIOUS
<1>1. CASE \E b \in Builders, c \in {"onnx", "openvino"} : loaded < MaxGraphs /\ load(b, c)
    BY <1>1, LoadIndInv
<1>2. CASE \E name \in Names : loaded < MaxGraphs /\ load_by_name(name)
    BY <1>2, LoadByNameIndInv
<1>3. CASE \E g \in GraphArgs : created < MaxContexts /\ init_execution_context(g)
    BY <1>3, CreateIndInv
<1>4. CASE \E e \in ContextArgs, i \in IndexArgs, t \in Tensors : set_input(e, i, t)
    BY <1>4, SetInputIndInv
<1>5. CASE \E e \in ContextArgs : compute(e)
    BY <1>5, ComputeIndInv
<1>6. CASE \E e \in ContextArgs, i \in OutputArgs, fits \in BOOLEAN : get_output(e, i, fits)
    BY <1>6, GetOutputIndInv
<1>7. CASE UNCHANGED vars
    BY <1>7, TablesKeptIndInv DEF vars
<1> QED  BY <1>1, <1>2, <1>3, <1>4, <1>5, <1>6, <1>7 DEF Next

\* The inductive invariant of the wasi-nn host.
THEOREM WasiNnIndInv == Spec => []IndInv
<1> QED  BY InitIndInv, NextIndInv, PTL DEF Spec

\* Table::use_next_key never hands out a key in use, for tables of any size that are
\* not overfilled.
THEOREM WasiNnKeysAreFresh == Spec => [](TypeOK /\ KeysAreFresh)
<1>1. IndInv => TypeOK /\ KeysAreFresh
    BY DEF IndInv
<1> QED  BY <1>1, WasiNnIndInv, PTL

\* A context runs the model of the graph it was created from.
THEOREM WasiNnContextRunsItsGraph == Spec => []ContextRunsItsGraph
<1>1. IndInv => ContextRunsItsGraph
    BY DEF IndInv
<1> QED  BY <1>1, WasiNnIndInv, PTL

\* While the host lives no output is left from an earlier run, for models with any
\* number of inputs and outputs.
THEOREM WasiNnOutputsOfOneRun == Spec => []OutputsOfOneRun
<1>1. IndInv => OutputsOfOneRun
    BY DEF IndInv
<1> QED  BY <1>1, WasiNnIndInv, PTL

-----------------------------------------------------------------------------
(* WasiNn implements Inference *)

\* A call the host dies of is the death of the abstract service, when it changes no
\* more than output buffers.
LEMMA DieStep ==
    ASSUME host = "running", host' = "panicked", reply' = NoReply,
           graphs' = graphs, AbstractContexts' = AbstractContexts
    PROVE  Abstract!Next
<1>1. reply'.output = {}
    BY DEF NoReply, Reply
<1>2. Abstract!Die
    BY <1>1 DEF Abstract!Die
<1> QED  BY <1>2 DEF Abstract!Next

\* Contexts and runs that do not change look the same to a guest.
LEMMA SameContexts ==
    ASSUME UNCHANGED <<executions, computed>>
    PROVE  AbstractContexts' = AbstractContexts
BY DEF AbstractContexts, Contexts

\* Inserting a graph is the step Load of the abstract service.
LEMMA InsertGraphStep ==
    ASSUME IndInv, NEW m \in Models, host = "running", loaded < MaxGraphs, InsertGraph(m),
           UNCHANGED <<executions, computed>>
    PROVE  Abstract!Next
<1>1. /\ TableSize \in Nat \ {0} /\ MaxGraphs \in Nat /\ MaxGraphs <= TableSize
      /\ loaded \in Nat /\ loaded < TableSize
    BY WasiNnAssumption DEF IndInv, TypeOK
<1>2. graphs.next_key = loaded /\ DOMAIN graphs.entries = 0..(loaded - 1)
    BY <1>1, KeyOfCount DEF IndInv, KeysAreFresh
<1>3. graphs'.entries = Put(graphs.entries, loaded, m) /\ host' = host /\ reply'.output = {}
    BY <1>2 DEF InsertGraph, Insert, Ok, Reply
<1>4. AbstractContexts' = AbstractContexts
    BY SameContexts
<1>5. loaded \notin DOMAIN graphs.entries /\ loaded \in 0..(TableSize - 1)
    BY <1>1, <1>2
<1>6. Abstract!Load(loaded, m)
    BY <1>3, <1>4, <1>5 DEF Abstract!Load, Abstract!Put, Put
<1> QED  BY <1>5, <1>6 DEF Abstract!Next

\* load is the step Load, or Die.
LEMMA LoadStep ==
    ASSUME IndInv, NEW b \in Builders, NEW c \in {"onnx", "openvino"},
           loaded < MaxGraphs, load(b, c)
    PROVE  Abstract!Next
<1>1. CASE \E m \in Models : InsertGraph(m)
    BY <1>1, InsertGraphStep DEF load
<1>2. CASE host' = "panicked" /\ reply' = NoReply /\ UNCHANGED graphs
    BY <1>2, DieStep, SameContexts DEF load
<1> QED  BY <1>1, <1>2 DEF load, LoadedModel, nn_errno_from_wasi_nn_error

\* load_by_name is the step Load, or Die.
LEMMA LoadByNameStep ==
    ASSUME IndInv, NEW name \in Names, loaded < MaxGraphs, load_by_name(name)
    PROVE  Abstract!Next
<1>1. CASE name \in DOMAIN registry /\ InsertGraph(registry[name])
  <2>1. registry[name] \in Models
      BY <1>1 DEF IndInv, TypeOK
  <2> QED  BY <1>1, <2>1, InsertGraphStep DEF load_by_name
<1>2. CASE host' = "panicked" /\ reply' = NoReply /\ UNCHANGED graphs
    BY <1>2, DieStep, SameContexts DEF load_by_name
<1> QED  BY <1>1, <1>2 DEF load_by_name, nn_errno_from_wasi_nn_error

\* init_execution_context is the step Create, or Die.
LEMMA CreateStep ==
    ASSUME IndInv, NEW g, created < MaxContexts, init_execution_context(g)
    PROVE  Abstract!Next
<1>1. CASE g \in DOMAIN graphs.entries
  <2> DEFINE m == graphs.entries[g]
             new == [model |-> m, inputs |-> [i \in 0..(NumInputs[m] - 1) |-> {}],
                     result |-> {}]
  <2>1. /\ TableSize \in Nat \ {0} /\ MaxContexts \in Nat /\ MaxContexts <= TableSize
        /\ created \in Nat /\ created < TableSize
      BY WasiNnAssumption DEF IndInv, TypeOK
  <2>2. executions.next_key = created /\ Contexts = 0..(created - 1)
      BY <2>1, KeyOfCount DEF IndInv, KeysAreFresh
  <2>3. /\ executions'.entries = Put(executions.entries, created, NewContext(m))
        /\ host' = host /\ reply'.output = {} /\ graphs' = graphs /\ computed' = computed
      BY <1>1, <2>2 DEF init_execution_context, Insert, Ok, Reply
  <2>4. created \notin Contexts /\ created \in 0..(TableSize - 1)
      BY <2>1, <2>2
  <2>5. created \notin DOMAIN computed
      BY <2>4 DEF IndInv, TypeOK
  <2>6. /\ Contexts' = Contexts \cup {created}
        /\ executions'.entries[created].graph = m
        /\ executions'.entries[created].inputs = new.inputs
        /\ \A e \in Contexts : executions'.entries[e] = executions.entries[e]
    <3>1. NewContext(m).graph = m /\ NewContext(m).inputs = new.inputs
        BY DEF NewContext
    <3>2. executions'.entries[created] = NewContext(m)
        BY <2>3 DEF Put
    <3>3. /\ Contexts' = Contexts \cup {created}
          /\ \A e \in Contexts : executions'.entries[e] = executions.entries[e]
        BY <2>3, <2>4 DEF Put, Contexts
    <3> QED  BY <3>1, <3>2, <3>3
  <2>7. DOMAIN AbstractContexts = Contexts
      BY DEF AbstractContexts
  <2>8. AbstractContexts' = Put(AbstractContexts, created, new)
    <3>1. \A e \in Contexts : AbstractContexts[e] =
              [model |-> executions'.entries[e].graph,
               inputs |-> executions'.entries[e].inputs,
               result |-> IF e \in DOMAIN computed' THEN {computed'[e]} ELSE {}]
        BY <2>3, <2>6 DEF AbstractContexts
    <3>2. new = [model |-> executions'.entries[created].graph,
                 inputs |-> executions'.entries[created].inputs,
                 result |-> IF created \in DOMAIN computed' THEN {computed'[created]} ELSE {}]
        BY <2>3, <2>5, <2>6
    <3> HIDE DEF new
    <3> QED  BY <2>4, <2>6, <2>7, <3>1, <3>2 DEF Put, AbstractContexts
  <2>9. Abstract!Create(created, g)
    <3>1. AbstractContexts' = Abstract!Put(AbstractContexts, created, new)
        BY <2>8 DEF Abstract!Put, Put
    <3>2. created \notin DOMAIN AbstractContexts /\ (host' = "running") = (host = "running")
        BY <2>3, <2>4, <2>7
    <3> QED  BY <1>1, <2>3, <3>1, <3>2 DEF Abstract!Create
  <2> QED  BY <1>1, <2>4, <2>9 DEF Abstract!Next, init_execution_context
<1>2. CASE g \notin DOMAIN graphs.entries
    BY <1>2, DieStep, SameContexts DEF init_execution_context, nn_errno_from_wasi_nn_error
<1> QED  BY <1>1, <1>2

\* A context changed in place is the same change of the abstract context.
LEMMA UpdateContexts ==
    ASSUME NEW e \in Contexts, NEW c, executions' = Update(executions, e, c),
           \A f \in Contexts \ {e} :
               /\ f \in DOMAIN computed' <=> f \in DOMAIN computed
               /\ f \in DOMAIN computed => computed'[f] = computed[f]
    PROVE  AbstractContexts' = Put(AbstractContexts, e,
               [model |-> c.graph, inputs |-> c.inputs,
                result |-> IF e \in DOMAIN computed' THEN {computed'[e]} ELSE {}])
<1>1. /\ Contexts' = Contexts
      /\ executions'.entries[e] = c
      /\ \A f \in Contexts \ {e} : executions'.entries[f] = executions.entries[f]
    BY DEF Update, Contexts
<1>2. DOMAIN AbstractContexts = Contexts
    BY DEF AbstractContexts
<1>3. \A f \in Contexts \ {e} : AbstractContexts[f] =
          [model |-> executions'.entries[f].graph, inputs |-> executions'.entries[f].inputs,
           result |-> IF f \in DOMAIN computed' THEN {computed'[f]} ELSE {}]
    BY <1>1 DEF AbstractContexts
<1> DEFINE view(f) ==
              [model |-> executions'.entries[f].graph, inputs |-> executions'.entries[f].inputs,
               result |-> IF f \in DOMAIN computed' THEN {computed'[f]} ELSE {}]
           new == [model |-> c.graph, inputs |-> c.inputs,
                   result |-> IF e \in DOMAIN computed' THEN {computed'[e]} ELSE {}]
<1>4. AbstractContexts' = [f \in Contexts |-> view(f)]
    BY <1>1 DEF AbstractContexts
<1>5. view(e) = new
    BY <1>1
<1>6. \A f \in Contexts \ {e} : AbstractContexts[f] = view(f)
    BY <1>3
<1> HIDE DEF view, new
<1>7. Contexts \cup {e} = Contexts
    OBVIOUS
<1>8. AbstractContexts' = Put(AbstractContexts, e, new)
    BY <1>2, <1>4, <1>5, <1>6, <1>7 DEF Put
<1> QED  BY <1>8 DEF new

\* set_input is the step SetInput, or Die.
LEMMA SetInputStep ==
    ASSUME IndInv, NEW e, NEW i, NEW t \in Tensors, set_input(e, i, t)
    PROVE  Abstract!Next
<1>1. CASE e \in Contexts /\ SetSlot(e, i, t) /\ i \in DOMAIN executions.entries[e].inputs
           /\ Ok(Reply("set", e))
  <2> DEFINE old == executions.entries[e]
             c == [graph |-> old.graph, inputs |-> [old.inputs EXCEPT ![i] = {t}],
                   outputs |-> old.outputs]
  <2>1. executions' = Update(executions, e, c) /\ computed' = computed /\ graphs' = graphs
      BY <1>1 DEF SetSlot, set_input
  <2>2. AbstractContexts' = Put(AbstractContexts, e,
            [model |-> c.graph, inputs |-> c.inputs,
             result |-> IF e \in DOMAIN computed' THEN {computed'[e]} ELSE {}])
    <3>1. \A f \in Contexts \ {e} :
              /\ f \in DOMAIN computed' <=> f \in DOMAIN computed
              /\ f \in DOMAIN computed => computed'[f] = computed[f]
        BY <2>1
    <3>2. e \in Contexts /\ executions' = Update(executions, e, c)
        BY <1>1, <2>1
    <3> HIDE DEF c
    <3> QED  BY <3>1, <3>2, UpdateContexts
  <2>3. /\ AbstractContexts[e].model = old.graph
        /\ AbstractContexts[e].inputs = old.inputs
        /\ AbstractContexts[e].result = IF e \in DOMAIN computed THEN {computed[e]} ELSE {}
        /\ DOMAIN AbstractContexts = Contexts
      BY <1>1 DEF AbstractContexts
  <2>4. host' = host /\ reply'.output = {}
      BY <1>1 DEF Ok, Reply
  <2>5. AbstractContexts' = Put(AbstractContexts, e,
            [model |-> AbstractContexts[e].model,
             inputs |-> [AbstractContexts[e].inputs EXCEPT ![i] = {t}],
             result |-> AbstractContexts[e].result])
      BY <2>1, <2>2, <2>3
  <2>6. Abstract!SetInput(e, i, t)
      BY <1>1, <2>1, <2>3, <2>4, <2>5 DEF Abstract!SetInput, Abstract!Put, Put
  <2> QED  BY <1>1, <2>3, <2>6 DEF Abstract!Next, set_input
<1>2. CASE host' = "panicked" /\ reply' = NoReply /\ UNCHANGED executions
    BY <1>2, DieStep, SameContexts DEF set_input
<1> QED  BY <1>1, <1>2 DEF set_input, nn_errno_from_wasi_nn_error, Panic, Contexts

\* compute is the step Compute, or Die: an error changes only output buffers, which
\* the abstract service does not have.
LEMMA ComputeStep ==
    ASSUME IndInv, NEW e, compute(e)
    PROVE  Abstract!Next
<1> DEFINE old == executions.entries[e]
<1>0. host = "running" /\ graphs' = graphs
    BY DEF compute
<1>a. /\ DOMAIN AbstractContexts = Contexts
      /\ e \in Contexts => AbstractContexts[e] =
            [model |-> old.graph, inputs |-> old.inputs,
             result |-> IF e \in DOMAIN computed THEN {computed[e]} ELSE {}]
    BY DEF AbstractContexts
<1>1. CASE host' = "panicked" /\ reply' = NoReply /\ UNCHANGED <<executions, computed>>
    BY <1>0, <1>1, DieStep, SameContexts
<1>2. CASE /\ e \in Contexts /\ host' = "panicked" /\ reply' = NoReply /\ UNCHANGED computed
           /\ \E n \in {0} \cup 1..(NumOutputs[old.graph] - 1) :
                 executions' = Update(executions, e, Extract(old, n))
  <2>1. PICK n : executions' = Update(executions, e, Extract(old, n))
      BY <1>2
  <2>2. /\ Contexts' = Contexts
        /\ executions'.entries[e] = Extract(old, n)
        /\ \A f \in Contexts \ {e} : executions'.entries[f] = executions.entries[f]
      BY <1>2, <2>1 DEF Update, Contexts
  <2>3. \A f \in Contexts : /\ executions'.entries[f].graph = executions.entries[f].graph
                            /\ executions'.entries[f].inputs = executions.entries[f].inputs
      BY <2>2, ExtractFields
  <2>4. AbstractContexts' = AbstractContexts
      BY <1>2, <2>2, <2>3 DEF AbstractContexts
  <2> QED  BY <1>0, <1>2, <2>4, DieStep
<1>3. CASE /\ e \in Contexts /\ Shaped(old)
           /\ executions' = Update(executions, e, Extract(old, NumOutputs[old.graph]))
           /\ computed' = Put(computed, e, old.inputs) /\ Ok(Reply("computed", e))
  <2> DEFINE c == Extract(old, NumOutputs[old.graph])
  <2>1. executions' = Update(executions, e, c) /\ c.graph = old.graph /\ c.inputs = old.inputs
      BY <1>3, ExtractFields
  <2>2. /\ \A f \in Contexts \ {e} :
              /\ f \in DOMAIN computed' <=> f \in DOMAIN computed
              /\ f \in DOMAIN computed => computed'[f] = computed[f]
        /\ e \in DOMAIN computed' /\ computed'[e] = old.inputs
      BY <1>3 DEF Put
  <2>3. AbstractContexts' = Put(AbstractContexts, e,
            [model |-> c.graph, inputs |-> c.inputs,
             result |-> IF e \in DOMAIN computed' THEN {computed'[e]} ELSE {}])
    <3> HIDE DEF c
    <3> QED  BY <1>3, <2>1, <2>2, UpdateContexts
  <2> HIDE DEF c
  <2>4. AbstractContexts' = Put(AbstractContexts, e,
            [model |-> AbstractContexts[e].model, inputs |-> AbstractContexts[e].inputs,
             result |-> {AbstractContexts[e].inputs}])
      BY <1>3, <1>a, <2>1, <2>2, <2>3
  <2>5. host' = host /\ reply'.output = {}
      BY <1>3 DEF Ok, Reply
  <2>6. \A i \in DOMAIN AbstractContexts[e].inputs : AbstractContexts[e].inputs[i] # {}
      BY <1>3, <1>a DEF Shaped
  <2>7. Abstract!Compute(e)
      BY <1>0, <1>3, <1>a, <2>4, <2>5, <2>6 DEF Abstract!Compute, Abstract!Put, Put
  <2> QED  BY <1>0, <1>3, <1>a, <2>7 DEF Abstract!Next
<1> QED  BY <1>1, <1>2, <1>3 DEF compute, nn_errno_from_wasi_nn_error, Panic, Contexts

\* Here OutputsOfOneRun is needed: the buffer that get_output copies is the abstract
\* service's answer.
LEMMA GetOutputStep ==
    ASSUME IndInv, NEW e, NEW i, NEW fits, get_output(e, i, fits)
    PROVE  Abstract!Next
<1>0. host = "running" /\ UNCHANGED <<graphs, executions, computed>>
    BY DEF get_output
<1>1. CASE host' = "panicked" /\ reply' = NoReply
    BY <1>0, <1>1, DieStep, SameContexts
<1>2. CASE /\ e \in Contexts
           /\ \E output \in OutputAt(e, i) :
                 Ok([op |-> "output", handle |-> e, output |-> {output}])
  <2> DEFINE old == executions.entries[e]
  <2>1. PICK output \in OutputAt(e, i) :
            Ok([op |-> "output", handle |-> e, output |-> {output}])
      BY <1>2
  <2>2. i \in DOMAIN old.outputs /\ output \in old.outputs[i]
      BY <2>1 DEF OutputAt
  <2>3. old.outputs[i] = IF e \in DOMAIN computed
                         THEN {Infer(old.graph, computed[e], i)} ELSE {}
      BY <1>0, <1>2, <2>2 DEF IndInv, OutputsOfOneRun
  <2>4. e \in DOMAIN computed /\ output = Infer(old.graph, computed[e], i)
      BY <2>2, <2>3
  <2>5. i \in 0..(NumOutputs[old.graph] - 1)
      BY <1>2, <2>2 DEF IndInv, TypeOK
  <2>6. /\ DOMAIN AbstractContexts = Contexts
        /\ AbstractContexts[e].model = old.graph
        /\ AbstractContexts[e].result = {computed[e]}
      BY <1>2, <2>4 DEF AbstractContexts
  <2>7. host' = host /\ reply'.output = {output}
      BY <2>1 DEF Ok
  <2>8. AbstractContexts' = AbstractContexts
      BY <1>0, SameContexts
  <2>9. reply'.output = {Abstract!Infer(AbstractContexts[e].model, computed[e], i)}
      BY <2>4, <2>6, <2>7 DEF Infer, Abstract!Infer
  <2>10. Abstract!GetOutput(e, i)
      BY <1>0, <1>2, <2>5, <2>6, <2>7, <2>8, <2>9 DEF Abstract!GetOutput
  <2> QED  BY <1>0, <1>2, <2>5, <2>6, <2>10 DEF Abstract!Next
<1> QED  BY <1>1, <1>2 DEF get_output, nn_errno_from_wasi_nn_error, Panic, Contexts

\* Every step of the host is a step of the abstract service, or leaves it unchanged.
LEMMA StepSimulation == IndInv /\ [Next]_vars => [Abstract!Next]_Abstract!vars
<1> SUFFICES ASSUME IndInv, [Next]_vars PROVE [Abstract!Next]_Abstract!vars
    OBVIOUS
<1>1. CASE \E b \in Builders, c \in {"onnx", "openvino"} :
              loaded < MaxGraphs /\ load(b, c)
    BY <1>1, LoadStep
<1>2. CASE \E name \in Names : loaded < MaxGraphs /\ load_by_name(name)
    BY <1>2, LoadByNameStep
<1>3. CASE \E g \in GraphArgs : created < MaxContexts /\ init_execution_context(g)
    BY <1>3, CreateStep
<1>4. CASE \E e \in ContextArgs, i \in IndexArgs, t \in Tensors : set_input(e, i, t)
    BY <1>4, SetInputStep
<1>5. CASE \E e \in ContextArgs : compute(e)
    BY <1>5, ComputeStep
<1>6. CASE \E e \in ContextArgs, i \in OutputArgs, fits \in BOOLEAN :
              get_output(e, i, fits)
    BY <1>6, GetOutputStep
<1>7. CASE UNCHANGED vars
    BY <1>7, SameContexts DEF vars, Abstract!vars
<1> QED  BY <1>1, <1>2, <1>3, <1>4, <1>5, <1>6, <1>7 DEF Next

\* The WITX bindings over the handle tables and the ONNX backend implement the abstract
\* inference service: every call is one of its steps, or its death.
THEOREM WasiNnImplementsInference == Spec => ImplementsInference
<1>1. Init => Abstract!Init
  <2> SUFFICES ASSUME Init PROVE Abstract!Init
      OBVIOUS
  <2>1. graphs.entries = EmptyMap /\ executions.entries = EmptyMap
      BY DEF Init, EmptyTable
  <2>2. AbstractContexts = [h \in {} |-> {}]
      BY <2>1 DEF AbstractContexts, Contexts, EmptyMap
  <2>3. reply.output = {} /\ host = "running"
      BY DEF Init, NoReply, Reply
  <2> QED  BY <2>1, <2>2, <2>3 DEF Abstract!Init, EmptyMap
<1>2. IndInv /\ [Next]_vars => [Abstract!Next]_Abstract!vars
    BY StepSimulation
<1> QED  BY <1>1, <1>2, WasiNnIndInv, PTL DEF Spec, ImplementsInference, Abstract!Spec

\* No step of the abstract service makes a handle name another model or another
\* context's model.
LEMMA AbstractHandlesKept ==
    ASSUME [Abstract!Next]_Abstract!vars
    PROVE  /\ \A g \in DOMAIN graphs.entries :
                 g \in DOMAIN graphs'.entries /\ graphs'.entries[g] = graphs.entries[g]
           /\ \A e \in DOMAIN AbstractContexts :
                 /\ e \in DOMAIN AbstractContexts'
                 /\ AbstractContexts'[e].model = AbstractContexts[e].model
<1>1. CASE \E h \in 0..(TableSize - 1), m \in Models : Abstract!Load(h, m)
    BY <1>1 DEF Abstract!Load, Abstract!Put
<1>2. CASE \E h \in 0..(TableSize - 1), g \in DOMAIN graphs.entries : Abstract!Create(h, g)
    BY <1>2 DEF Abstract!Create, Abstract!Put
<1>3. CASE \E h \in DOMAIN AbstractContexts :
              \E i \in DOMAIN AbstractContexts[h].inputs, t \in Tensors :
                 Abstract!SetInput(h, i, t)
    BY <1>3 DEF Abstract!SetInput, Abstract!Put
<1>4. CASE \E h \in DOMAIN AbstractContexts : Abstract!Compute(h)
    BY <1>4 DEF Abstract!Compute, Abstract!Put
<1>5. CASE UNCHANGED <<graphs.entries, AbstractContexts>>
    BY <1>5
<1> QED  BY <1>1, <1>2, <1>3, <1>4, <1>5
    DEF Abstract!Next, Abstract!GetOutput, Abstract!Die, Abstract!vars

\* A handle keeps naming the graph or the context it was returned for.
THEOREM WasiNnHandlesKeepTheirMeaning == Spec => HandlesKeepTheirMeaning
<1> DEFINE Kept ==
              /\ \A g \in DOMAIN graphs.entries :
                    g \in DOMAIN graphs.entries' /\ graphs.entries'[g] = graphs.entries[g]
              /\ \A e \in Contexts :
                    e \in Contexts' /\ executions.entries'[e].graph = executions.entries[e].graph
<1>1. IndInv /\ [Next]_vars => [Kept]_vars
  <2> SUFFICES ASSUME IndInv, [Next]_vars PROVE Kept
      OBVIOUS
  <2>1. [Abstract!Next]_Abstract!vars
      BY StepSimulation
  <2>2. /\ DOMAIN AbstractContexts = Contexts /\ DOMAIN AbstractContexts' = Contexts'
        /\ \A e \in Contexts : AbstractContexts[e].model = executions.entries[e].graph
        /\ \A e \in Contexts' : AbstractContexts'[e].model = executions'.entries[e].graph
      BY DEF AbstractContexts
  <2> QED  BY <2>1, <2>2, AbstractHandlesKept
<1>2. Spec => [][Kept]_vars
    BY <1>1, WasiNnIndInv, PTL DEF Spec
<1> QED  BY <1>2 DEF HandlesKeepTheirMeaning
=============================================================================
