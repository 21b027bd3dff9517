\* Workers that crash, shut down and restart under their consumer name, as in
\* a StatefulSet, with recovery and claimer reading the same entries, a
\* failed command, a task with a handler or one without, and a cleanup by a
\* worker or the web server: what a cleanup can take away, that nothing else
\* loses a retry or strands a message, and, under fairness, that no message
\* stays pending and that without faults every task settles.
CONSTANTS
    t1 = t1
    t2 = t2
    w1 = w1
    w2 = w2
    web = web
    Tasks <- TwoTasks
    Delayed <- None
    Unhandled <- JustT2
    Undecodable <- None
    Workers <- TwoWorkers
    MaxRetry = 2
    BatchSize = 1
    SlowHandlers = FALSE
    StableNames = TRUE
    SplitPipelines = FALSE
    Budget <- OneOfEach
    Web <- web
    MaxCleanups = 1
SPECIFICATION CCFairSpec
\* An idle system only polls, and polls that change nothing are not steps.
CHECK_DEADLOCK FALSE
INVARIANTS
    CCTypeOK
    DropsOnlyRestarted
    RetriedLostOnlyByDrop
    StrandedOnlyByDrop
PROPERTIES
    OrphansRecovered
    EverySettles
