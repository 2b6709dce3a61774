SPECIFICATION Spec
CONSTANTS
    t1 = t1
    t2 = t2
    t3 = t3
    m1 = m1
    m2 = m2
    term = term
    v1 = v1
    v2 = v2
    f0 = f0
    f1 = f1
    Threads = {t1, t2, t3}
    NoThread = NoThread
    Ids = {m1, m2}
    Terms = {term}
    TermOf <- BothTerms
    Versions = {v1, v2}
    Absent = Absent
    Functions = {f0, f1}
    Resources <- SmallResources
    Strict = TRUE
    MaxWrites = 3
SYMMETRY Symmetry
INVARIANTS
    CacheIsFresh
    FormatsAreAtomic
    
PROPERTIES
    FailedWritesLeaveNoTrace
