CONSTANTS
    c1 = c1
    c2 = c2
    NoOne = NoOne
    Clients <- MCClients
    OtherVersion <- MCOtherVersion
    Hdr = 2
    MaxMsg = 4
    Interface <- MCInterface
    OtherKinds <- MCOtherKinds
    Prologue = 2
    MaxSent <- MCMaxSent
    MaxClients = 2
    MaxData = 2
    MaxEvents = 1
    MaxPackets <- MCMaxPackets
    MaxWaiting = 2
    MaxXruns = 2
    Volumes = {35, 72}
    VolumeRange = 255
SPECIFICATION Spec
INVARIANTS
    BusDelivers
    ListIsClients
    SessionsKeptApart
    
    SoundAsTold

    
CHECK_DEADLOCK FALSE
