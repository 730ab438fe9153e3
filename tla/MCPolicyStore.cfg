SPECIFICATION Spec
CONSTANTS
    x = x
    y = y
    i1 = i1
    i2 = i2
    s1 = s1
    r1 = r1
    r2 = r2
    r3 = r3
    Vars <- MCVars
    Vals <- MCVals
    Types = {"i", "s"}
    TypeOf <- MCTypeOf
    NoVal = NoVal
    Rules <- MCRules
    Args <- MCArgs
    ArgRule <- MCArgRule
    ArgVar <- MCArgVar
    ArgType <- MCArgType
    DefaultVars <- MCDefaultVars
    DefaultRules <- MCDefaultRules
    Environments <- MCEnvironments
INVARIANTS
    StoreInv
    CacheCoherent
    RestartKeepsRules
    
PROPERTIES
    StoredRulesSurvive
