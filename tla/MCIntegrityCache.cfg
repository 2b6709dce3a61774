SPECIFICATION Spec
CONSTANTS
    NoKey = NoKey
    Keys <- MCKeys
    Requests <- MCRequests
    Contents <- MCContents
    SizeOf <- Sizes
    MaxSize = 2
    Modes <- AllModes
    MaxAudit = 4
    MaxCalls = 4
    MaxKeyDepth = 4
    NodeBudget = 7
INVARIANTS
    HitsAreGenuine
    CallsAreAccountedFor
    
PROPERTY
    WriteOnceHolds
