SPECIFICATION SessionSpec
CONSTANTS
    t1 = t1
    t2 = t2
    t3 = t3
    Turns <- MCTurns
    NoTurn = NoTurn
    NoIndex = NoIndex
    MaxParts = 1
    History <- MCHistory
    ReplaceFroms <- MCReplaceFroms
    StoreMayFail = TRUE
SYMMETRY MCSymmetry
INVARIANTS CacheIsStored StoredIsTranscript InFlightIsHeld
PROPERTIES CompletedIsWritten WritesEachTurnOnce
CHECK_DEADLOCK FALSE
