SPECIFICATION Spec
CONSTANTS
    MaxTime = 4
    Models <- MCModels
    Images <- MCImages
    GoodModel = "mobilenetv2"
    TableSize = 2
    Side = 2
    Scores <- MCScores
    Classes = 3
    Capacity = 4
INVARIANTS
    PredictionIsOfThisImage
    TensorIsNCHW
    ClassIsLastMaximum
    
    PhaseWithinItsSpan
CHECK_DEADLOCK FALSE
