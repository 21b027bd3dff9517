\* Handlers that outlive ClaimStaleAfter, so that claims take messages from
\* live workers, with a crash and a failed command: until one of them happens
\* no task is lost, and a task on a retry survives them though several
\* goroutines run and store it.
CONSTANTS
    t1 = t1
    t2 = t2
    w1 = w1
    w2 = w2
    Tasks <- OneTask
    Delayed <- OneTask
    Unhandled <- None
    Undecodable <- None
    Workers <- TwoWorkers
    MaxRetry = 2
    BatchSize = 2
    SlowHandlers = TRUE
    StableNames = FALSE
    SplitPipelines = FALSE
    Budget <- CrashAndFault
SPECIFICATION Spec
SYMMETRY WorkerSymmetry
\* An idle system only polls, and polls that change nothing are not steps.
CHECK_DEADLOCK FALSE
INVARIANTS
    NoLossWithoutFaults
    RetriedTasksSurvive
