SPECIFICATION FairSpec
CONSTANTS
    MaxTurns = 3
    Chunks = 2
    Buffer = 2
    Shapes <- FakeShapes
INVARIANTS
    PriorReasoningIsSent
PROPERTIES
    TurnsEnd
CHECK_DEADLOCK FALSE
