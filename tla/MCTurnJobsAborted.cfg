SPECIFICATION Spec
CONSTANTS
    t1 = t1
    t2 = t2
    a1 = a1
    a2 = a2
    Turns <- TwoTurns
    AbortRequests <- OneAbort
    NoTurn = NoTurn
    NoIndex = NoIndex
    MaxParts = 1
    History <- MCHistory
    ReplaceFroms <- AppendOnly
    StoreMayFail = FALSE
PROPERTIES AbortedIsKept
CHECK_DEADLOCK FALSE
