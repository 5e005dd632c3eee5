\* Two clients, each on a session of its own; nothing fails.
SPECIFICATION Spec
CONSTANTS
    Clients = {c1, c2}
    Sessions = {s1, s2}
    NoProc = NoProc
    Payloads <- TwoPayloads
    MaxWrites = 2
    First <- FirstContent
    Killable <- NoState
    Faults = FALSE
INVARIANT NoLostUpdate
