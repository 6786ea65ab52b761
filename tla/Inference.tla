----------------------------- MODULE Inference ------------------------------
(***************************************************************************)
(* What wasi-nn promises a guest (crates/wasi-nn/wit/wasi-nn.wit): loading *)
(* gives a new handle that names that model for good, a context is bound   *)
(* to the model of the graph it was created from, and an output is the     *)
(* output of ONE inference of that model, on the inputs the context had at *)
(* its latest successful compute. The service may die at any moment; it    *)
(* never returns a wrong answer.                                           *)
(***************************************************************************)
EXTENDS Integers

CONSTANTS Models, Tensors, NumInputs, NumOutputs, Handles

VARIABLES
    alive,
    models,    \* graph handle -> model
    contexts,  \* context handle -> [model, inputs, result]
    output     \* outputs returned by the latest call, a set of at most one

vars == <<alive, models, contexts, output>>

Infer(model, inputs, i) == [model |-> model, inputs |-> inputs, index |-> i]

Put(map, key, value) ==
    [k \in DOMAIN map \cup {key} |-> IF k = key THEN value ELSE map[k]]

Init ==
    /\ alive = TRUE
    /\ models = [h \in {} |-> {}]
    /\ contexts = [h \in {} |-> {}]
    /\ output = {}

Load(h, model) ==
    /\ h \notin DOMAIN models
    /\ models' = Put(models, h, model)
    /\ output' = {}
    /\ UNCHANGED <<alive, contexts>>

Create(h, g) ==
    /\ h \notin DOMAIN contexts
    /\ g \in DOMAIN models
    /\ contexts' = Put(contexts, h,
          [model |-> models[g],
           inputs |-> [i \in 0..(NumInputs[models[g]] - 1) |-> {}],
           result |-> {}])
    /\ output' = {}
    /\ UNCHANGED <<alive, models>>

SetInput(h, i, tensor) ==
    /\ h \in DOMAIN contexts
    /\ i \in DOMAIN contexts[h].inputs
    /\ contexts' = Put(contexts, h,
          [model |-> contexts[h].model,
           inputs |-> [contexts[h].inputs EXCEPT ![i] = {tensor}],
           result |-> contexts[h].result])
    /\ output' = {}
    /\ UNCHANGED <<alive, models>>

Compute(h) ==
    /\ h \in DOMAIN contexts
    /\ \A i \in DOMAIN contexts[h].inputs : contexts[h].inputs[i] # {}
    /\ contexts' = Put(contexts, h,
          [model |-> contexts[h].model,
           inputs |-> contexts[h].inputs,
           result |-> {contexts[h].inputs}])
    /\ output' = {}
    /\ UNCHANGED <<alive, models>>

GetOutput(h, i) ==
    /\ h \in DOMAIN contexts
    /\ i \in 0..(NumOutputs[contexts[h].model] - 1)
    /\ \E inputs \in contexts[h].result :
          output' = {Infer(contexts[h].model, inputs, i)}
    /\ UNCHANGED <<alive, models, contexts>>

Die ==
    /\ alive' = FALSE
    /\ output' = {}
    /\ UNCHANGED <<models, contexts>>

Next ==
    /\ alive
    /\ \/ \E h \in Handles, m \in Models : Load(h, m)
       \/ \E h \in Handles, g \in DOMAIN models : Create(h, g)
       \/ \E h \in DOMAIN contexts : \E i \in DOMAIN contexts[h].inputs, t \in Tensors :
             SetInput(h, i, t)
       \/ \E h \in DOMAIN contexts : Compute(h)
       \/ \E h \in DOMAIN contexts :
             \E i \in 0..(NumOutputs[contexts[h].model] - 1) : GetOutput(h, i)
       \/ Die

Spec == Init /\ [][Next]_vars
=============================================================================
