SPECIFICATION Spec
CONSTANTS
    None = None
    NoTask = NoTask
    CharsPerToken = 4
    Late = 9
    Fixed = 40
    MaxChars = 7
    MaxTraces = 2
    MaxServed = 3
    MaxWrites = 2
    Memories <- MCMemories
    Envelopes <- MCEnvelopes
    Queries <- MCQueries
    Rows <- MCRows
    Generic = {"now"}
    Sizes <- MCSizes
    Specs <- MCSpecs
    Offers <- MCOffers
    Traces <- MCTraces
    Texts <- MCTexts
    Records <- MCRecords
INVARIANTS EvidenceIsOneView PartsAgree FramesFit OffersKeepTheirStage DocumentsAreWhole
CHECK_DEADLOCK FALSE
