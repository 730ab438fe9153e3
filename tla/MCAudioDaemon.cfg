CONSTANTS
    RingSize = 4
    IdxSpace = 8
    CmdLen = 2
    NoByte = NoByte
    UsePatterns <- MCUsePatterns
    Periods = 3
    MaxAppl = 4
CHECK_DEADLOCK FALSE
SPECIFICATION FairSpec
INVARIANTS
    
    
    StreamsSound
PROPERTIES
    CommandsTaken
