SPECIFICATION Spec
CONSTANTS
    Threads = {t1}
    Locales = 2
    Resources = 2
    Ids = {m1, m2}
    Required = {m1}
    Schemas = {m1, m2}
    NoBundle = NoBundle
INVARIANTS
    BootedIsValid
