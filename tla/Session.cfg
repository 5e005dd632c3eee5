\* Every configuration of the gates, with and without a default user; clients
\* leave at any time, openly or silently.
SPECIFICATION FairSpec
CONSTANTS
    Users = {u1, u2}
    Root = root
    NoUser = nouser
    Names = {d, e}
    MaxDepth = 3
    Faults = TRUE
INVARIANTS RunsAsUser GatesInOrder
  
CHECK_DEADLOCK FALSE
