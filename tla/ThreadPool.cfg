CONSTANTS
    Workers = {w1, w2, w3}
    Nobody = nobody
    MaxTasks = 3
SPECIFICATION FairSpec
INVARIANTS TakenInOrder NothingLeftBehind
PROPERTIES TasksRun DestructorReturns
CHECK_DEADLOCK FALSE
