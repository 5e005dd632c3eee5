\* Sessions die and calls fail at every step of SETFSPERM and REMFSPERM while
\* other commands consult the permissions.
SPECIFICATION Spec
CONSTANTS
    ann = ann
    other = other
    Sessions = {s1, s2}
    NoProc = NoProc
    NoFile = NoFile
    Ids = {ann, other}
    Other = other
    Grants <- TwoGrants
    MaxLines = 1
    Checks = TRUE
    Kills = TRUE
    Faults = TRUE
INVARIANTS   CheckOneChange
  
SYMMETRY Symmetry
