SPECIFICATION Spec
CONSTANTS
    Agents = {a1, a2}
    None = None
    Patches <- MCPatches
    Captures <- MCCaptures
    MaxCalls = 4
    MaxCrashes = 1
SYMMETRY Symmetry
INVARIANTS NoUpdateLost ApprovalsAreFinal CapturesAreWhole
PROPERTIES SequenceNeverBack
CHECK_DEADLOCK FALSE
