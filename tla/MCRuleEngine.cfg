SPECIFICATION Spec
CONSTANTS
    both = both
    start = start
    twice = twice
    named = named
    empty = empty
    broken = broken
    Events <- MCEvents
    Stateless <- MCStateless
    Values <- MCValues
    ResetValue <- MCResetValue
    Worlds <- MCWorlds
    RuleIds <- MCRuleIds
    Malformed <- MCMalformed
    Conds <- MCConds
    RuleOf <- MCRuleOf
    EventOf <- MCEventOf
    Inverted <- MCInverted
    Sat <- MCSat
INVARIANTS
    EngineInv
    RepeatsOnlyBySharedEvent
PROPERTIES
    UndoWhatWasDone
    ImplementsRulePolicy
