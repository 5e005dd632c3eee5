\* Sessions die anywhere, calls fail anywhere, and connections are lost while
\* an acquisition is under way.
SPECIFICATION GuardSpec
CONSTANTS
    c1 = c1
    c2 = c2
    Clients = {c1, c2}
    Sessions = {s1, s2}
    NoProc = NoProc
    Tok <- Tokens
    STDSTR = 2
    DropOps <- AcqOnly
    Faults = TRUE
    Bytes <- ByteSet
    Payloads <- TwoPayloads
    MaxWrites = 2
    First <- FirstContent
    Killable <- AnyState
INVARIANTS NoLostUpdate ReadConsistent
SYMMETRY Symmetry
