\* Two clients on two sessions: every call of the system may fail, sessions
\* die, and connections are lost while an acquisition is under way.
SPECIFICATION FairSpec
CONSTANTS
    c1 = c1
    c2 = c2
    Clients = {c1, c2}
    Sessions = {s1, s2}
    NoProc = NoProc
    Tok <- ShortTokens
    STDSTR = 2
    DropOps <- AcqOnly
    Faults = TRUE
INVARIANTS MutualExclusion HolderRecorded
PROPERTIES ImplementsTokenMutex EveryCommandEnds
