\* client.go:125 promises ErrDuplicateTask within the TTL the caller passes;
\* EnqueueUnique drops its ttl argument, so that a second task takes the key
\* after an hour although the first asked for longer.
CONSTANTS
    t1 = t1
    t2 = t2
    None = None
    Tasks <- TwoTasks
    Second = 2
    Hour = 3
    RetryBase = 2
    RetryMax = 3
    RetryLimit = 8
    DurationLimit = 8
    MaxRetries <- ManyRetries
    Delays <- PastAndFuture
    TTLs <- LongTTL
    MaxTime = 5
SPECIFICATION TTSpec
SYMMETRY TaskSymmetry
\* The clock stops at its bound.
CHECK_DEADLOCK FALSE
INVARIANTS
    UniqueWithinTTL
