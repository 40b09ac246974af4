SPECIFICATION Spec
CONSTANTS
    NoStatus = NoStatus
    Faults = TRUE
    OthersAct = TRUE
    Retries = TRUE
    MaxQueue = 2
INVARIANT FeedCatchesUp
INVARIANT ArrivalStillComing
PROPERTY VerdictIsEarned
PROPERTY SettlesOrMissed
PROPERTY OperationEnds
