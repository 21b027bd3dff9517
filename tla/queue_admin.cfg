\* One worker, a scheduled task, one failed command, and three pages or
\* purges: what a page that reads eight keys one after the other can show,
\* and what PurgeQueue, which takes the consumer group with the stream, can
\* take away.
CONSTANTS
    t1 = t1
    w1 = w1
    Tasks <- OneTask
    Delayed <- OneTask
    Unhandled <- None
    Undecodable <- None
    Workers <- OneWorker
    MaxRetry = 2
    BatchSize = 1
    SlowHandlers = FALSE
    StableNames = TRUE
    SplitPipelines = FALSE
    Budget <- PublishAndFault
    MaxCalls = 3
SPECIFICATION QASpec
\* An idle system only polls, and polls that change nothing are not steps.
CHECK_DEADLOCK FALSE
INVARIANTS
    QATypeOK
    QuietPageIsExact
    PageMissesOnlyMoved
    PurgeTakesOnlyTheStream
