\* Core event plane, in the configuration that exercises most of In:
\* decoder "auto" with the input's CRI suggestion, strict mode (a malformed
\* line is fatal), UseSpread (the stream key's SourceID is seqID mod
\* procCount), two source ids; two actions that may pass, discard or hold
\* (a propagated record runs the second in the action's goroutine); three
\* records through two pool slots and two processors. Safety, refinement of
\* the delivery contract, and liveness (every accepted record is eventually
\* committed unless the process died) under fairness of processors, the
\* output and the holding action. No symmetry: it is unsound with liveness.
CONSTANTS
    e1 = e1
    e2 = e2
    w1 = w1
    w2 = w2
    Slots <- MCSlots
    Workers <- MCWorkers
    NoWorker = NoWorker
    NoEvent = NoEvent
    NoStream = NoStream
    NoField = NoField
    SourceIDs = {0, 1}
    FieldValues = {"stderr"}
    NumActions = 2
    Decisions = {"pass", "discard", "hold"}
    Payloads = {"wellformed", "malformed"}
    Decoder = "auto"
    SuggestedDecoder = "cri"
    IsStrict = TRUE
    UseSpread = TRUE
    DisableStreams = FALSE
    MaxIn = 3

SPECIFICATION FairSpec

INVARIANT TypeOK
INVARIANT EventAccounting
INVARIANT RegistryConsistent
PROPERTY ImplementsDelivery
PROPERTY EventuallyCommitted
