SPECIFICATION FairSpec
CONSTANTS
    Threads = {t1, t2, t3}
    Bundles = {1}
    MaxDepth = 3
    MaxWrites = 3
    NestedCalls <- OwnBundleCalls
PROPERTY CallsReturn
