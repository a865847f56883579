SPECIFICATION Spec
CONSTANTS
    a1 = a1
    b1 = b1
    b2 = b2
    A = A
    B = B
    NoClass = NoClass
    NoInstance = NoInstance
    NoKey = NoKey
    NoRow = NoRow
    v0 = v0
    v1 = v1
    Objects = {a1, b1}
    Classes = {A, B}
    ClassOf <- MCClassOf
    RefClass <- OneWay
    Vals = {v0, v1}
    DefaultVal = v0
    Api = {"new", "set", "ref", "relink"}
    NewAt = {a1, b1}
    MaxId = 2
    MaxManual = 0
    MaxTracked = 2
    MaxFaults = 0
INVARIANT
    MergedIsInTable
CHECK_DEADLOCK FALSE
