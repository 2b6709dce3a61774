SPECIFICATION Spec
CONSTANTS
    Threads = {t1, t2}
    Locales = {lv, de, xx}
    Known = {lv, de}
    Messages = {greeting}
    MaxContexts = 2
    Objects = {o1, o2, o3, o4, o5}
    None = None
    Refused = Refused
SYMMETRY Symmetry
INVARIANT ContextsBounded
PROPERTY ImplementsMemo
