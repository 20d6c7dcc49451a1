SPECIFICATION FairSpec
CONSTANTS
    s1 = s1
    s2 = s2
    c1 = c1
    t1 = t1
    t2 = t2
    Servers <- TwoServers
    Commands <- OneCommand
    Turns <- MCTurns
    Schemas <- MCSchemas
    Reply = 2
INVARIANTS
    VersionTellsSchema
    VerdictIsTrue
    CleanExitAnswersReaders
PROPERTIES StopsWhenTold
CHECK_DEADLOCK FALSE
