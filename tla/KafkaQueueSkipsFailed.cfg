SPECIFICATION KafkaSpec
CONSTANTS
    Consumers = {w1, w2}
    Nobody = Nobody
    Last = 2
    MaxErrors = 1
    MaxMoves = 0
\* The topic may be read to its end.
CHECK_DEADLOCK FALSE
INVARIANTS CommittedWereHandled
