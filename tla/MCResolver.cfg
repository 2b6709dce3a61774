SPECIFICATION LiveSpec
CONSTANTS
    NoPattern = NoPattern
    Terms = {"t"}
    Args <- XArgs
    Says <- MCSays
    Writes <- MCWrites
    Takes <- MCTakes
    Mentions <- MCMentions
    MentionedIn <- MCMentionedIn
    Catalogs <- MixedCatalogs
    MaxDepth = 3
    Budget = 4
    Isolating = TRUE
    Strict = TRUE
    Caching = TRUE
    MaxCalls = 2
CHECK_DEADLOCK FALSE
INVARIANTS Balanced NoSilentLoss CyclesAreReal
PROPERTY Terminates
