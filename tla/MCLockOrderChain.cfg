SPECIFICATION Spec
CONSTANTS
    Threads = {t1, t2}
    Bundles = {1}
    MaxDepth = 2
    MaxWrites = 1
    NestedCalls <- ChainCalls
INVARIANT NoCircularWait
