SPECIFICATION Spec
CONSTANTS
    N = 2
    Workers = {1}
    Conns = {1, 2}
    MaxSignals = 1
PROPERTY ReloadServes
CHECK_DEADLOCK FALSE
