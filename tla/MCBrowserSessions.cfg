SPECIFICATION Spec
CONSTANTS
    q1 = q1
    q2 = q2
    q3 = q3
    alice = alice
    Requests <- ThreeRequests
    Users <- OneUser
    Anonymous = Anonymous
    Absent = Absent
    Nothing = Nothing
    Boot = Boot
    Kinds <- AllKinds
    MaxFaults = 1
SYMMETRY Symmetry
INVARIANTS ServedAsStored EndsWhenRetired RunningTurnIsReachable OneTurnPerSession
CHECK_DEADLOCK FALSE
