SPECIFICATION FairBroker
CONSTANTS
    vm = vm
    c1 = c1
    c2 = c2
    Gone = Gone
    NoUuid = NoUuid
    Uuids <- MCUuids
    Doms <- MCDoms
    Stubdoms = {2}
    UuidOf <- MCUuidOf
    CacheLimit = 2
    Properties = "Properties"
    EtcFiles <- MCEtcFiles
    DbRules <- MCDbRules
    Requests <- MCRequests
    MaxSignals = 1
    MaxPending = 2
    Clients <- MCClients
    RingSize = 2
    MaxReplies = 4
    MaxFd = 4
    MaxPairs = 2
    MaxPieces = 3
    Keys = {"destination", "if-boolean"}
    SWords = {"stubdom", "sword"}
    Files <- MCFiles
    MaxRules = 2
    IntMax = 7
    Wordy = 100
    JsonRequests <- MCJsonRequests
    Introspections <- MCIntrospections
    Replies <- MCReplies
    Modes = {"websockets", "rawdbus"}
CHECK_DEADLOCK FALSE
INVARIANTS
    ServesValidPolicy
    
    LinksSound
    PairsSound
    
    ConversionsKeep
PROPERTIES
    PolicyFollows
    
