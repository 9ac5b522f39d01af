SPECIFICATION Spec
CONSTANTS
    m1 = m1
    Mem <- OneMemory
    Rank <- OneRank
    Tasks = {t1, t2, t3}
    ListCap = 1
    Ops = {"ingest", "delete", "redact", "merge", "sweep", "reindex", "retrieve"}
    NoRow = NoRow
    NoMem = NoMem
SYMMETRY Symmetric
INVARIANTS NeverServesTheDead AloneForgets
PROPERTIES OnlyStaleCopiesResurrect
