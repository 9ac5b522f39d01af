SPECIFICATION FairSpec
CONSTANTS
    Replicas = {s1, s2, s3}
    JobNames = {retention, compaction}
    Free = Free
    MaxDeaths = 3
    MaxDrops = 1
INVARIANTS OneFlightPerSession StrandedOnlyInShutdown
PROPERTIES EveryJobRuns
