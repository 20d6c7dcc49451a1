SPECIFICATION FairSpec
CONSTANTS
    t1 = t1
    t2 = t2
    t3 = t3
    w1 = w1
    w2 = w2
    cli = cli
    server = server
    shell = shell
    Turns <- ThreeTurns
    NoTurn = NoTurn
    NoIndex = NoIndex
    MaxParts = 1
    History <- MCHistory
    Sessions <- AllSessions
    Processes <- AllProcesses
    ProcessOf <- MCProcessOf
    ReplaceFroms <- MCReplaceFroms
INVARIANTS TableIsTranscript CopyLacksOnlyOthers
PROPERTIES OnlyReplacementsRemove SharedLog TurnsSettle
CHECK_DEADLOCK FALSE
