SPECIFICATION Spec
CONSTANTS
    Models <- MCModels
    BadModels <- MCBadModels
    NumInputs <- MCOneInput
    NumOutputs <- MCNumOutputs
    Names <- MCNames
    Tensors <- MCTensors
    Fp32 <- MCFp32
    a = a
    b = b
    int = int
    TableSize = 2
    MaxGraphs = 2
    MaxContexts = 2
SYMMETRY MCSymmetry
INVARIANTS
    OutputsOfOneRun
PROPERTIES
    HandlesKeepTheirMeaning
    ImplementsInference
CHECK_DEADLOCK FALSE
