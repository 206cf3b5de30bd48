CONSTANTS
    AddressBits = 3
    AddressOf <- MCAddressOf
    Matching = {}
    BadPatterns = {}
    LowerOf <- MCLowerOf
    DayLength = 24
    Now = 50
    Kilometres <- MCKilometres
    MaxDepth = 6
    Words = {"AND"}
    UpperOf <- MCUpperOf
    AnyMatchWords = {"any_match"}
    MaxConditionDepth = 3
    Files <- MCFiles
    NullTexts <- MCNullTexts
    AnyDepth = 3
    SampleRows = 2
    SampleTexts = 2
    InferDepth = 3
    SpareTexts <- MCSpareTexts
    IntHalf = 16
    ByteBits = 2
    MaskBits = 3
    MaxSamples = 3
    Setups <- MCSetups
    RuleFiles <- MCRuleFiles
    MaxLoads <- MCMaxLoads
    Inputs <- MCInputs
SPECIFICATION Spec
INVARIANTS
    RowsAreDocuments
    ErrorsPointHome
    ArrowReadsAsJson
    SampleFits
PROPERTY
    SkippedAreDeadLettered
CHECK_DEADLOCK FALSE
