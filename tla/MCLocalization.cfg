SPECIFICATION Spec
CONSTANTS
    Threads = {t1, t2, t3}
    NoThread = NoThread
    Last = 2
    Ids = {i1}
    Names = {n1}
    Functions = {good, bad}
    Bad = {bad}
    None = None
    Objects = {o1, o2, o3}
    NoObject = NoObject
    NoBundle = NoBundle
    MaxChanges = 3
SYMMETRY Symmetry
INVARIANTS
    ResourcesKept
    FunctionsCovered
    WalksAreCurrent
