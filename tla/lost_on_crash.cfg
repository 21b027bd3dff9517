\* README.md:12 and :18 promise at-least-once delivery and recovery of
\* orphaned tasks; a worker that crashes in a first attempt loses the task to
\* the idempotency key.
CONSTANTS
    t1 = t1
    t2 = t2
    w1 = w1
    w2 = w2
    Tasks <- OneTask
    Delayed <- None
    Unhandled <- None
    Undecodable <- None
    Workers <- TwoWorkers
    MaxRetry = 2
    BatchSize = 2
    SlowHandlers = FALSE
    StableNames = FALSE
    SplitPipelines = FALSE
    Budget <- OneCrash
SPECIFICATION Spec
SYMMETRY WorkerSymmetry
\* An idle system only polls, and polls that change nothing are not steps.
CHECK_DEADLOCK FALSE
INVARIANTS
    NoTaskLost
