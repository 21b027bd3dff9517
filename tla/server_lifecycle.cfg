\* Two calls of Start and two of Shutdown, a signal, and errors of Redis to
\* Subscribe, at any moment: a cancelled Subscribe begins at most one more
\* batch, its loop gives up only after all its sleeps, the only panics are
\* the two known ones, whoever is asked to stop stops, and nothing a Start
\* launched outlives it for ever.
CONSTANTS
    MaxStarts = 2
    MaxShutdowns = 2
    MaxSignals = 1
    MaxErrors = 4
    MaxRetries = 3
    BackoffCap = 2
    CleanupEnabled = TRUE
SPECIFICATION LCFairSpec
\* A server that was stopped stays stopped, and so does a process that ended.
CHECK_DEADLOCK FALSE
INVARIANTS
    LCTypeOK
    OldSubscribesDrain
    PanicsOnlyIf
    GracefulLeavesNone
    LoopIsPatient
PROPERTIES
    RefusedOnlyIf
    StopsWhenAsked
    NothingLeftRunning
