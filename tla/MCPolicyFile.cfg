CONSTANTS
    Letters <- MCLetters
    Known <- MCKnown
    IntSpace = 16
    FracDigits = 6
    Pieces <- MCPieces
    InString <- MCInString
    MaxPieces <- MCMaxPieces
    Chunks <- MCChunks
    MaxLines = 4
    Cached <- MCCached
    RuleName <- MCRuleName
SPECIFICATION Spec
INVARIANTS
    TextKept
    
    
    
CHECK_DEADLOCK FALSE
