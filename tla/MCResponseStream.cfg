SPECIFICATION Spec
CONSTANTS
    MaxTurns = 1
    Chunks = 2
    Buffer = 2
    Shapes <- MCShapes
INVARIANTS
    TextArrivesOnce
    CompleteIsWhole
    ShownIsRecorded
    SpanTellsOutcome
CHECK_DEADLOCK FALSE
