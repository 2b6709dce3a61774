SPECIFICATION Spec
CONSTANTS
    Sources <- AllSources
    Known <- KnownIds
    Rules <- SomeRules
    MaxNesting = 5
    MaxDepth = 9
    MaxParseErrors = 4
INVARIANTS
    EveryCharacterOnce
    FormattingIsFaithful
    StreamAgrees
    ReferencesAgree
    ParsedIsValid
    ErrorsPointAtJunk
    NothingIsOverriddenSilently
    TransformsAreTotal
PROPERTIES
    EveryTurnAdvances
CHECK_DEADLOCK FALSE
