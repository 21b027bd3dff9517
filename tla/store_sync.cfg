\* Two tasks with one unique key, a worker and the task store, with a crash,
\* one failed command or write, one expired key, and one request that revives
\* or purges dead tasks or edits a row: rows follow the tasks, never run
\* ahead of Redis, and the key admits one task at a time.
CONSTANTS
    t1 = t1
    t2 = t2
    w1 = w1
    q1 = q1
    Tasks <- TwoTasks
    Delayed <- OneTask
    Unhandled <- None
    Undecodable <- JustT2
    Workers <- OneWorker
    MaxRetry = 2
    BatchSize = 1
    SlowHandlers = FALSE
    StableNames = FALSE
    SplitPipelines = FALSE
    Budget <- NoShutdown
    Requests <- OneRequest
    MaxRequests = 1
    Keyed <- TwoTasks
    SlowStore = FALSE
SPECIFICATION SSSpec
\* An idle system only polls, and polls that change nothing are not steps.
CHECK_DEADLOCK FALSE
INVARIANTS
    SSTypeOK
    RowIsCurrent
    RowNeverAhead
    OnePublishedPerKey
