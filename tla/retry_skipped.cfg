\* redis.go:692 clears the processed key "so task can be processed again"; a
\* worker that takes the revived message before that DEL skips the task,
\* without any fault.
CONSTANTS
    t1 = t1
    w1 = w1
    w2 = w2
    q1 = q1
    q2 = q2
    Tasks <- OneTask
    Delayed <- None
    Unhandled <- None
    Undecodable <- None
    Workers <- OneWorker
    MaxRetry = 1
    BatchSize = 1
    SlowHandlers = FALSE
    StableNames = FALSE
    SplitPipelines = FALSE
    Budget <- Publish1
    Requests <- TwoRequests
    MaxRequests = 2
SPECIFICATION DLSpec
SYMMETRY RequestSymmetry
\* An idle system only polls, and polls that change nothing are not steps.
CHECK_DEADLOCK FALSE
INVARIANTS
    RevivedIsProcessed
