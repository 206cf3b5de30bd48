CONSTANTS
    AddressBits = 3
    AddressOf <- MCAddressOf
    Matching <- MCMatching
    BadPatterns <- MCBadPatterns
    LowerOf <- MCLowerOf
    DayLength = 24
    Now = 50
    Kilometres <- MCKilometres
    MaxDepth = 6
    Words <- MCWords
    UpperOf <- MCUpperOf
    AnyMatchWords = {"any_match"}
    MaxConditionDepth = 3
    Files <- MCFiles
    Infinity = 100
    RuleSets <- MCRuleSets
    LookupNodes <- MCLookupNodes
    BoundSchema <- MCBoundSchema
    Batches <- MCBatches
    MaxBatches = 2
    Computed <- MCComputed
    Elements <- MCElements
SPECIFICATION Spec
INVARIANTS
    ReadsAsWritten
    CompiledMeansWritten
    ReportIsTrue
    LookupsExact
CHECK_DEADLOCK FALSE
