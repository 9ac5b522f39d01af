SPECIFICATION Spec
CONSTANTS
    None = None
    Agents = {a1}
    Memories <- MCMemories
    Versions <- MCVersions
    Queries <- MCQueries
    USize = 3
    VSize = 2
    WSize = 1
    Threshold = 2
    MaxIds = 1
    ListMin = 2
    ListFactor = 2
    MaxRecalls = 3
    MaxClears = 1
CONSTRAINT OneRecallOrThree
INVARIANTS CriticalIsRecalled ResultsAnswerTheQuery CacheRepeatsAnswers
CHECK_DEADLOCK FALSE
