SPECIFICATION Spec
CONSTANTS
    MaxDeltas = 1
INVARIANTS
    CompletedOnlyIfUpstreamFinished
