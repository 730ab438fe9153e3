SPECIFICATION FairSpec
CONSTANTS
    a = a
    b = b
    c = c
    Vms <- MCVms
    VpnVms = {b, c}
    Graphs <- AllGraphs
    Restless <- CyclicGraph
INVARIANTS
    NoDependentLeftBehind
    
PROPERTIES
    CallReturns
