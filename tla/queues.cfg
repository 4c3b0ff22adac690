SPECIFICATION MCSpec

CONSTANTS
    a1 = a1
    a2 = a2
    Attempts = {a1, a2}
    MaxEvents = 3
    Level2 = 3
    DropBatch = 1
    FlushSize = 1
    MaxErrors = 2
    MaxPayloads = 3
    PayloadFlush = 2
    Produced = 5
    QueueSize = 2
    Interval = 2
    MaxPublished = 5
    Kinds = {"delta", "terminal", "end"}

INVARIANT LogExact
INVARIANT QueueExact
INVARIANT FeedExact
PROPERTY Arrives

CHECK_DEADLOCK FALSE
