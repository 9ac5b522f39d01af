SPECIFICATION KafkaFairSpec
CONSTANTS
    Consumers = {w1, w2}
    Nobody = Nobody
    Last = 3
    MaxErrors = 2
    MaxMoves = 3
\* The topic may be read to its end.
CHECK_DEADLOCK FALSE
INVARIANTS NoneSkipped
PROPERTIES EveryMessageTried
