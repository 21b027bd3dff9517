\* Two tasks with every combination of options, half a second a tick, and
\* integers of four bits: when tasks leave the sorted sets, how long retries
\* wait once the product overflows, how often a task is attempted, and when a
\* unique key is free again.
CONSTANTS
    t1 = t1
    t2 = t2
    None = None
    Tasks <- TwoTasks
    Second = 2
    Hour = 3
    RetryBase = 2
    RetryMax = 3
    RetryLimit = 8
    DurationLimit = 8
    MaxRetries <- ManyRetries
    Delays <- PastAndFuture
    TTLs <- ShortTTL
    MaxTime = 5
SPECIFICATION TTSpec
SYMMETRY TaskSymmetry
\* The clock stops at its bound.
CHECK_DEADLOCK FALSE
INVARIANTS
    TTTypeOK
    TakenWhenDue
    DelaysDouble
    AttemptsAsStored
    KeyExcludes
