CONSTANTS
    Timeout = 10
    WorkerTimeout = 30
    RetryTotal = 3
    RetryAfters <- MCRetryAfters
    FailMax = 3
SPECIFICATION Spec
INVARIANTS
    TypeOK
    OneRouteCall
    BreakerStaysClosed
    
    CodesTellTheCause
PROPERTY EveryRequestEnds
