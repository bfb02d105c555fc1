\* A JSON input line that does not parse, with IsStrict off: In logs the
\* error and returns 0 after the event was taken from the pool.
CONSTANTS
    e1 = e1
    e2 = e2
    w1 = w1
    w2 = w2
    Slots <- MCSlots
    Workers <- MCWorkers
    NoWorker = NoWorker
    NoEvent = NoEvent
    NoStream = NoStream
    NoField = NoField
    SourceIDs = {0}
    FieldValues = {"stderr"}
    NumActions = 1
    Decisions = {"pass"}
    Payloads = {"wellformed", "malformed"}
    Decoder = "json"
    SuggestedDecoder = "no"
    IsStrict = FALSE
    UseSpread = FALSE
    DisableStreams = FALSE
    MaxIn = 3

SPECIFICATION Spec

INVARIANT EventAccounting
