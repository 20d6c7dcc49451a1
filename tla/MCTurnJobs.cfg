SPECIFICATION Spec
CONSTANTS
    t1 = t1
    t2 = t2
    a1 = a1
    a2 = a2
    Turns <- TwoTurns
    AbortRequests <- TwoAborts
    NoTurn = NoTurn
    NoIndex = NoIndex
    MaxParts = 1
    History <- MCHistory
    ReplaceFroms <- MCReplaceFroms
    StoreMayFail = TRUE
SYMMETRY Symmetry2
INVARIANTS OneTurnRuns EveryTurnReports AnsweredIsSettled AdmittedFindsSessionFree
PROPERTIES ReplyFollowsItsContext EventMatchesStore OnlyRunningTurnWrites
CHECK_DEADLOCK FALSE
