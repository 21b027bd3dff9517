\* Two workers, two requests at a time and three in all that revive or purge
\* dead tasks, and one failed command, which may strike between two commands
\* of a pipeline: without it no request loses a task but by the race for the
\* processed key, MaxRetry bounds each life of a task, and what is pending
\* can be read.
CONSTANTS
    t1 = t1
    w1 = w1
    w2 = w2
    q1 = q1
    q2 = q2
    Tasks <- OneTask
    Delayed <- None
    Unhandled <- None
    Undecodable <- None
    Workers <- TwoWorkers
    MaxRetry = 2
    BatchSize = 2
    SlowHandlers = FALSE
    StableNames = FALSE
    SplitPipelines = TRUE
    Budget <- OneFault
    Requests <- TwoRequests
    MaxRequests = 3
SPECIFICATION DLSpec
SYMMETRY RequestSymmetry
\* An idle system only polls, and polls that change nothing are not steps.
CHECK_DEADLOCK FALSE
INVARIANTS
    DLTypeOK
    LostOnlyInTheRace
    AttemptsBounded
    PendingInStream
