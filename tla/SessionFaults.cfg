SPECIFICATION Spec
CONSTANTS
    a1 = a1
    b1 = b1
    b2 = b2
    A = A
    B = B
    NoClass = NoClass
    NoInstance = NoInstance
    NoKey = NoKey
    NoRow = NoRow
    v0 = v0
    v1 = v1
    Objects = {a1, b1}
    Classes = {A, B}
    ClassOf <- MCClassOf
    RefClass <- BothWays
    Vals = {v0}
    DefaultVal = v0
    Api = {"new", "ref", "relink", "begin", "rollback", "many", "select", "delete"}
    NewAt = {a1, b1}
    MaxId = 2
    MaxManual = 1
    MaxTracked = 2
    MaxFaults = 2
INVARIANT
    TypeOK
    CallsUnwind
PROPERTY
    SavedAsAWhole
    CallEnds
CHECK_DEADLOCK FALSE
