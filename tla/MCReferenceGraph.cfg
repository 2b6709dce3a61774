SPECIFICATION Spec
CONSTANTS
    m1 = m1
    m2 = m2
    m3 = m3
    m4 = m4
    Resources <- AllResources
    MaxCycles = 6
    MaxStack = 6
INVARIANTS
    SearchIsExact
    PredictsCycles
    ChainsAreLongest
