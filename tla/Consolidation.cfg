SPECIFICATION Spec
CONSTANTS
    a = a
    b = b
    c = c
    d = d
    Requests = {a, b, c, d}
    None = None
    Rel <- Denial
    MaxTries = 3
    ListCap = 2
    MaxBusy = 3
    Compactions = 1
    MaxFaults = 2
\* Requests, retries and compactions are finitely many: the system may stop.
CHECK_DEADLOCK FALSE
CONSTRAINT AloneOrThree
INVARIANTS AloneRetriesMerge IngestionKeepsFacts SupersessionIsHistory
PROPERTIES SupersededStays
