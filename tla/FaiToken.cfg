\* Connections are lost and sessions die anywhere.
SPECIFICATION Spec
CONSTANTS
    Sessions = {s1, s2}
    NoProc = NoProc
    NoFile = NoFile
    Tokens = {t1, t2}
    NoToken = NoToken
    Args <- SomeArgs
    FAITOK_MQ = 2
    MaxTime = 4
    MaxKey = 4
INVARIANTS KeyAgreed DeniedIsExpired
PROPERTY EntryInTime
SYMMETRY Symmetry
CHECK_DEADLOCK FALSE
