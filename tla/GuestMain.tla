----------------------------- MODULE GuestMain ------------------------------
(***************************************************************************)
(* The guest program, `main` of wasm-module/src/main.rs, composed with its *)
(* BenchmarkTracker and with the wasi-nn host it calls. `main` is a        *)
(* straight line of statements; each is one step, and the clock may tick   *)
(* between and during them. An unwrap that fails is a panic of the guest,  *)
(* a trap for the host; a host error or panic ends the process, because    *)
(* the WITX bindings never return an error.                                *)
(***************************************************************************)
EXTENDS Tensor, FiniteSets

CONSTANTS
    MaxTime,   \* bound: last instant of the clock
    Models, Images,
    GoodModel, \* what /assets/models/mobilenetv2-10.onnx holds, when readable
    TableSize  \* number of handles of each kind

VARIABLES
    \* BenchmarkTracker
    now, start_metrics, current_operation, completed_metrics, active_phases,
    phase_metrics, phase_order, timed, phase_base,
    \* WasiNnCtx
    registry, graphs, executions, host, error, reply, loaded, created, bound, computed,
    \* locals of main
    pc,         \* index of the next statement
    guest,      \* "running", "trapped" or "returned"
    model,      \* handle of the Graph
    context,    \* handle of the GraphExecutionContext
    original_img,
    output,     \* history: what get_output copied
    data,       \* history: the data that just passed from one side to the other, the
                \* floats the backend gave to its session or the scores and their class
    printed     \* what print_all_metrics printed: phases and total

trackerVars == <<start_metrics, current_operation, completed_metrics, active_phases,
                 phase_metrics, phase_order, timed, phase_base>>
nnVars == <<registry, graphs, executions, host, error, reply, loaded, created, bound,
            computed>>
handles == <<model, context>>
locals == <<handles, original_img, output, data, printed>>
vars == <<now, trackerVars, nnVars, pc, guest, locals>>

OpNames == {"loadmodel", "envload", "readimg", "Pre-processing", "Inference",
            "Post-processing"}
PhaseNames == {"RED BOX Phase", "GREEN BOX Phase"}

\* MobileNet has one input and one output. In the tables of the host the tensor of an
\* image stands for the image: image_to_tensor always makes an Fp32 tensor of one shape.
Tracker == INSTANCE BenchmarkTracker WITH
    MaxOps <- Cardinality(OpNames), MaxPhases <- Cardinality(PhaseNames)
Nn == INSTANCE WasiNn WITH
    BadModels <- {}, Names <- {}, Tensors <- Images, Fp32 <- Images,
    NumInputs <- [m \in Models |-> 1], NumOutputs <- [m \in Models |-> 1],
    MaxGraphs <- 1, MaxContexts <- 1

-----------------------------------------------------------------------------
Statement(op, arg) == [op |-> op, arg |-> arg]

\* An operation: start_operation, the work, finish_operation.
Timed(name, work) == <<Statement("start_operation", name), Statement(work, ""),
                       Statement("finish_operation", "")>>

\* Mutants of Program: the RED phase ends after the GREEN phase has started; the
\* GREEN phase starts in the middle of an operation.
PhasesOverlap ==
    <<Statement("start_phase", "RED BOX Phase")>>
    \o Timed("loadmodel", "load_model") \o Timed("envload", "initialize_env")
    \o Timed("readimg", "read_img")
    \o <<Statement("start_phase", "GREEN BOX Phase")>>
    \o Timed("Pre-processing", "process_image")
    \o <<Statement("end_phase", "RED BOX Phase")>>
    \o Timed("Inference", "run_model") \o Timed("Post-processing", "post_process")
    \o <<Statement("end_phase", "GREEN BOX Phase"), Statement("print_all_metrics", "")>>

PhaseStartsLate ==
    <<Statement("start_phase", "RED BOX Phase")>>
    \o Timed("loadmodel", "load_model") \o Timed("envload", "initialize_env")
    \o Timed("readimg", "read_img")
    \o <<Statement("end_phase", "RED BOX Phase"),
         Statement("start_operation", "Pre-processing"), Statement("process_image", ""),
         Statement("start_phase", "GREEN BOX Phase"), Statement("finish_operation", "")>>
    \o Timed("Inference", "run_model") \o Timed("Post-processing", "post_process")
    \o <<Statement("end_phase", "GREEN BOX Phase"), Statement("print_all_metrics", "")>>

\* The statements of main.
Program ==
    <<Statement("start_phase", "RED BOX Phase")>>
    \o Timed("loadmodel", "load_model")
    \o Timed("envload", "initialize_env")
    \o Timed("readimg", "read_img")
    \o <<Statement("end_phase", "RED BOX Phase"), Statement("start_phase", "GREEN BOX Phase")>>
    \o Timed("Pre-processing", "process_image")
    \o Timed("Inference", "run_model")
    \o Timed("Post-processing", "post_process")
    \o <<Statement("end_phase", "GREEN BOX Phase"), Statement("print_all_metrics", "")>>

Init ==
    /\ Tracker!Init
    /\ Nn!Init
    /\ pc = 1
    /\ guest = "running"
    /\ model = 0 /\ context = 0
    /\ original_img = {}
    /\ output = {}
    /\ data = {}
    /\ printed = {}

-----------------------------------------------------------------------------
Unwrap == guest' = "trapped" /\ UNCHANGED pc

\* The next statement, or the end of main.
Advance ==
    /\ pc' = pc + 1
    /\ guest' = IF pc = Len(Program) THEN "returned" ELSE guest

\* A call of wasi-nn whose result is unwrapped: it returned op, or an error. When
\* the host is dead neither matters.
Unwrapped(op) == IF host' = "running" /\ reply'.op # op THEN Unwrap ELSE Advance

\* At a statement op of a running guest.
At(op) == guest = "running" /\ host = "running" /\ Program[pc].op = op

TrackerCall ==
    /\ \/ /\ At("start_phase") /\ Tracker!start_phase(Program[pc].arg)
       \/ /\ At("end_phase") /\ Tracker!end_phase(Program[pc].arg)
       \/ /\ At("start_operation") /\ Tracker!start_operation(Program[pc].arg)
       \/ /\ At("finish_operation") /\ Tracker!finish_operation
    /\ data' = {}
    /\ Advance
    /\ UNCHANGED <<nnVars, handles, original_img, output, printed>>

\* load_model: build_from_files reads the file and calls load.
load_model ==
    /\ At("load_model")
    /\ \/ /\ Nn!load(<<GoodModel>>, "onnx")
          /\ model' = reply'.handle
          /\ Unwrapped("graph")
       \/ /\ Unwrap
          /\ UNCHANGED <<nnVars, model>>
    /\ UNCHANGED <<now, trackerVars, context, original_img, output, data, printed>>

initialize_env ==
    /\ At("initialize_env")
    /\ Nn!init_execution_context(model)
    /\ context' = reply'.handle
    /\ Unwrapped("context")
    /\ UNCHANGED <<now, trackerVars, model, original_img, output, data, printed>>

\* read_img: open, decode and resize.
read_img ==
    /\ At("read_img")
    /\ \/ /\ \E image \in Images : original_img' = {image}
          /\ Advance
       \/ /\ Unwrap
          /\ UNCHANGED original_img
    /\ UNCHANGED <<now, trackerVars, nnVars, handles, output, data, printed>>

\* Mutant of process_image: the tensor of another image.
ProcessAnyImage ==
    /\ At("process_image")
    /\ \E image \in Images : Nn!set_input(context, 0, image)
    /\ Advance
    /\ UNCHANGED <<now, trackerVars, locals>>

\* process_image and set_input, whose result is ignored.
process_image ==
    /\ At("process_image")
    /\ \E image \in original_img : Nn!set_input(context, 0, image)
    /\ Advance
    /\ UNCHANGED <<now, trackerVars, locals>>

\* run_model, whose result is ignored. The bytes of the tensor become floats again in
\* the backend, which gives them to its session.
run_model ==
    /\ At("run_model")
    /\ Nn!compute(context)
    /\ data' = {[floats |-> bytes_to_f32_vec(f32_vec_to_bytes(image_to_tensor(image)))] :
                    image \in executions.entries[context].inputs[0]}
    /\ Advance
    /\ UNCHANGED <<now, trackerVars, handles, original_img, output, printed>>

\* External: a session returns any scores.
AnyScores == [1..Classes -> {NaN} \cup {{v} : v \in Scores}]

\* What post_process makes of scores: they are copied, as bytes, into a buffer of zeros
\* that is larger, and the class is the place of its maximum.
Classified(scores) ==
    [scores |-> scores, class |-> max_by(Padded(bytes_to_f32_vec(f32_vec_to_bytes(scores))))]
Classifications == {Classified(scores) : scores \in AnyScores}

post_process ==
    /\ At("post_process")
    /\ Nn!get_output(context, 0, TRUE)
    /\ output' = reply'.output
    /\ \/ output' = {} /\ data' = {}
       \/ output' # {} /\ \E c \in Classifications : data' = {c}
    /\ Unwrapped("output")
    /\ UNCHANGED <<now, trackerVars, handles, original_img, printed>>

print_all_metrics ==
    /\ At("print_all_metrics")
    /\ printed' = {[phases |-> Tracker!PrintedPhases, total |-> Tracker!get_total_metrics]}
    /\ Advance
    /\ UNCHANGED <<now, trackerVars, nnVars, handles, original_img, output, data>>

Step ==
    \/ TrackerCall \/ load_model \/ initialize_env \/ read_img \/ process_image
    \/ run_model \/ post_process \/ print_all_metrics

Tick ==
    /\ guest = "running" /\ host = "running"
    /\ Tracker!Tick
    /\ UNCHANGED <<nnVars, pc, guest, locals>>

Next == Step \/ Tick

Spec == Init /\ [][Next]_vars

-----------------------------------------------------------------------------
(* Properties *)

Wall(m) == m.wall_clock_time

\* The class that main prints is taken from an inference of the model it loaded, on
\* the image it read, although main ignores the results of set_input and compute.
PredictionIsOfThisImage ==
    guest = "returned" =>
        \E image \in original_img :
            output = {Nn!Infer(GoodModel, [i \in 0..0 |-> {image}], 0)}

\* The session gets the image that was read in NCHW order: the float at
\* c*Side^2 + y*Side + x is channel c of the pixel at column x and row y, normalised with
\* the constants of that channel, after the guest's and the host's conversions.
TensorIsNCHW ==
    pc > 1 /\ Program[pc - 1].op = "run_model" => \A d \in data, image \in original_img :
        /\ Len(d.floats) = 3 * Side * Side
        /\ \A x, y \in 0..(Side - 1), c \in 0..2 :
              d.floats[c * Side * Side + y * Side + x + 1] = Pixel(image, x, y, c)

\* The class post_process returns, compared with its definition. When some score is
\* positive and none is NaN it is the last class with the highest score. With no
\* positive score the padding, which compares as 0, wins: the class is the length of
\* the buffer, which is no class of the model. After a NaN the maximum starts anew.
ClassIsLastMaximum ==
    pc > 1 /\ Program[pc - 1].op = "post_process" => \A d \in data :
        LET scores == d.scores
            nan == {n \in 1..Classes : scores[n] = NaN}
            first == IF nan = {} THEN 1 ELSE 1 + CHOOSE n \in nan : \A k \in nan : k <= n
            seen == first..Classes
            best == {n \in seen : /\ Number(scores[n]) > 0
                                  /\ \A k \in seen : ~Greater(scores[k], scores[n])}
        IN  IF best = {}
            THEN d.class = Capacity
            ELSE d.class \in best /\ \A n \in best : n <= d.class

\* The report of a completed run shows the RED phase, then the GREEN phase. Every
\* operation is counted in exactly one of them, and together they are within the total.
PhasesPartitionTheRun ==
    \A report \in printed :
        LET red == Wall(report.phases[1])
            green == Wall(report.phases[2])
            op(i) == Wall(completed_metrics[i])
        IN  /\ Len(report.phases) = 2 /\ Len(completed_metrics) = 6
            /\ red = op(1) + op(2) + op(3)
            /\ green = op(4) + op(5) + op(6)
            /\ red + green <= Wall(report.total)

\* A phase is charged no more than the time between its start_phase and now: no
\* operation of main that is counted in a phase began before it. The tracker alone
\* does not guarantee this.
PhaseWithinItsSpan ==
    \A p \in DOMAIN active_phases :
        Wall(active_phases[p]) <= now - active_phases[p].timestamp

\* What the comments of main say (main.rs:330): "RED BOX: Environment setup, image
\* loading, processing, and model loading". The time of Pre-processing is part of
\* the RED phase.
ProcessingIsInRedBox ==
    \A report \in printed :
        Wall(report.phases[1]) >= Wall(completed_metrics[1]) + Wall(completed_metrics[2])
            + Wall(completed_metrics[3]) + Wall(completed_metrics[4])
=============================================================================
