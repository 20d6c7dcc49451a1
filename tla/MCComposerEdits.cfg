SPECIFICATION Spec
CONSTANTS
    t1 = t1
    t2 = t2
    t3 = t3
    Turns <- ThreeTurns
    NoTurn = NoTurn
    NoIndex = NoIndex
    History <- MCHistory
    MaxParts = 1
    MaxFaults = 0
PROPERTIES EditReplacesItsPrompt
CHECK_DEADLOCK FALSE
