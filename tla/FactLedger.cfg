SPECIFICATION Spec
CONSTANTS
    Facts = {f1, f2}
    Agents = {a1, a2}
    \* One rank: list_facts may return the facts in any order.
    Ranks = {1}
    MaxAdds = 3
    MaxRebuilds = 1
    MaxCrashes = 1
    MaxRaces = 1
    Logged = TRUE
    None = None
SYMMETRY Symmetry
INVARIANTS
    HeirIsYounger
    IndexesFollowLedger
    KnowledgeRepeatsLedger
CHECK_DEADLOCK FALSE
