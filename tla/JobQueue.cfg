SPECIFICATION FairSpec
CONSTANTS
    Jobs = {j1, j2}
    Workers = {w1, w2}
    MaxAttempts = 2
    MaxFaults = 1
    NoJob = NoJob
INVARIANTS
    ExclusiveUntilOverrun
    AttemptsFence
    NoSilentLoss
PROPERTIES
    DoneIsFinal
    ImplementsAtLeastOnce
    ServedOrExhausted
    EventuallySettled
\* All jobs may have been published, settled and purged.
CHECK_DEADLOCK FALSE
