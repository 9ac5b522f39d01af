SPECIFICATION TraceSpec
CONSTANTS
    Traces = {t1, t2}
    Memories = {m1, m2, m3, m4}
    MaxLength = 4
    Rankings <- AllRankings
SYMMETRY Symmetric
\* Every memory may have been erased.
CHECK_DEADLOCK FALSE
INVARIANTS TracesForgetAndExplain
