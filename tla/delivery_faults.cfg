\* Two workers whose names are not reused, one task enqueued up to twice, and
\* one crash, shutdown, failed command and expired key in every order: types,
\* the idempotency key, exclusive runs, retries that survive, and the message
\* lifecycle all hold.
CONSTANTS
    t1 = t1
    t2 = t2
    w1 = w1
    w2 = w2
    Tasks <- OneTask
    Delayed <- None
    Unhandled <- None
    Undecodable <- None
    Workers <- TwoWorkers
    MaxRetry = 2
    BatchSize = 2
    SlowHandlers = FALSE
    StableNames = FALSE
    SplitPipelines = FALSE
    Budget <- TwoOfEach
SPECIFICATION Spec
SYMMETRY WorkerSymmetry
\* An idle system only polls, and polls that change nothing are not steps.
CHECK_DEADLOCK FALSE
INVARIANTS
    TypeOK
    FirstAttemptOnce
    RetriedTasksSurvive
    NoConcurrentRuns
    NoStrandedMessage
    CompletedCountsOnce
PROPERTIES
    ImplementsLifecycle
