SPECIFICATION FairSpec
CONSTANTS
    None = None
    turn = turn
    again = again
    ask = ask
    Conns <- MCConns
    Requests <- MCRequests
    Capacity = 1
    MaxFaults = 1
    Faults = {"store", "tmp", "status", "away", "stuck", "term", "kill"}
INVARIANTS
    TypeOK
    CapacityHolds
    IndexFree
    EndedIsOver
    QueryClears
PROPERTY EveryAttemptEnds
CHECK_DEADLOCK FALSE
