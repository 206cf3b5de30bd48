\* Two fields, every lane and operator, a dictionary that fills up, reloads.
SPECIFICATION Spec
CONSTANTS
    a = a
    b = b
    Fields = {a, b}
    Texts = {1, 2, 3, 4}
    Kind <- CategoryAndKey
    Hint <- NoHints
    Rulesets <- MixedRulesets
    JsonBatches <- MixedJson
    ArrowBatches <- MixedArrow
    Dictionaries <- MixedDictionaries
    Capacity = 3
    BitWidth = 3
    MaxCardinality = 2
    MorselRows = 2
    MaxCalls = 4
INVARIANTS
    VerdictsExact
