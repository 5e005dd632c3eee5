SPECIFICATION Spec
CONSTANTS
    MaxRuns = 2
    MaxLines = 3
    MaxOut = 3
    PipeCap = 1
    Cap = 2
INVARIANTS
    RunInStep
    SignalHitsModule
    OutputIsWhole
PROPERTY
    RunIsOver
CHECK_DEADLOCK FALSE
