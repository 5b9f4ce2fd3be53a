SPECIFICATION Spec
CONSTANTS
    MaxDeltas = 3
INVARIANTS
    DirectErrorNotMissed
    CompletedAnswerIsWhole
    SuccessOnlyIfDelivered
    ErrorSendNeverBlocks
    MetricsAgreeWithClient
PROPERTIES
    SlotReturned
    DisconnectEndsHandler
    StreamIsAccounted
