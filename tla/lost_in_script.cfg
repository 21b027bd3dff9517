\* README.md:12 promises at-least-once delivery; a scheduled task with a
\* duration of 10^14 ns or more is re-encoded by cjson in a form
\* json.Unmarshal rejects, and is dropped without any fault.
CONSTANTS
    t1 = t1
    t2 = t2
    w1 = w1
    w2 = w2
    Tasks <- OneTask
    Delayed <- OneTask
    Unhandled <- None
    Undecodable <- OneTask
    Workers <- TwoWorkers
    MaxRetry = 2
    BatchSize = 2
    SlowHandlers = FALSE
    StableNames = FALSE
    SplitPipelines = FALSE
    Budget <- Publish1
SPECIFICATION Spec
SYMMETRY WorkerSymmetry
\* An idle system only polls, and polls that change nothing are not steps.
CHECK_DEADLOCK FALSE
INVARIANTS
    NoTaskLost
