SPECIFICATION FairSpec
CONSTANTS
    t1 = t1
    t2 = t2
    t3 = t3
    Turns <- TwoTurns
    NoTurn = NoTurn
    NoIndex = NoIndex
    History <- MCHistory
    MaxParts = 1
    MaxFaults = 1
INVARIANTS PageIsConversation StreamingIsFollowed VerdictIsFinal
PROPERTIES ComposerIsFreed
CHECK_DEADLOCK FALSE
