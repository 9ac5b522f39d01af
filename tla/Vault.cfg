SPECIFICATION Spec
CONSTANTS
    Memories = {plain, large, bad}
    Large = {large}
    Bad = {bad}
    Agents = {a1, a2}
    MaxCalls = 3
    MaxRebuilds = 1
    MaxCrashes = 1
    MaxRaces = 1
    Garbled = Garbled
    None = None
SYMMETRY Symmetry
INVARIANTS
    AnsweredIsCanonical
    AnsweredPayloadIsWhole
    AnsweredIsIndexed
    IndexesFollowJournal
    BoxIsNumbered
CHECK_DEADLOCK FALSE
