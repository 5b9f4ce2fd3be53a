SPECIFICATION Spec
CONSTANTS
    Events = {e1, e2, e3, e4}
    BufferSize = 2
    BatchSize = 2
INVARIANTS
    ExactlyOnePlace
    GracefulCloseFlushes
PROPERTIES
    AcceptedIsFlushed
    ImplementsLedger
