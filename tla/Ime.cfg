SPECIFICATION Spec
CONSTANTS
    Sessions = {s1, s2}
    Leavers = {s1}
    Users = {u}
    None = None
    Options = {{"UNUSR", "AUTODEL"}, {}}
    MaxMsgs = 2
    MaxTime = 2
    MaxSetups = 2

    
    
PROPERTIES
    InboxDrains
    GoneLogsOut
CHECK_DEADLOCK FALSE
