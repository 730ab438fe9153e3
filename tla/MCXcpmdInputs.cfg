SPECIFICATION FairSpec
CHECK_DEADLOCK FALSE
CONSTANTS
    MaxSlots = 2
    Cells <- MCCells
    MaxChanges = 3
    Hour = 36
    IntSpace = 8192
    LongSpace = 131072
    NoSlot = NoSlot
    Empty = Empty
    None = None
    Garbage = Garbage
    MaxAttempts = 1
    MaxLines = 2
    Keys = {"power", "brightnessdown"}
    Inputs = {"sleep", "brightnessup", "other"}
    Quirks = TRUE
    Paths <- MCPaths
    Names <- MCNames
    Rules <- MCRules
    MaxVmChanges = 2
    MaxMail = 1
    p1 = p1
    p2 = p2
    web = web
    mail_vm = mail_vm
INVARIANTS
    
    
    CallsReachTheNamed
PROPERTIES
    SignalsKept
    PresenceConverges
