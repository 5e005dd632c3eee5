SPECIFICATION Spec
CONSTANTS
    N = 2
    Workers = {1}
    Conns = {1, 2}
    MaxSignals = 1
INVARIANT SessionsSurvive
PROPERTIES
    SessionEnds
    QueueIsServed
    
CHECK_DEADLOCK FALSE
