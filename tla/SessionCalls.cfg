SPECIFICATION Spec
CONSTANTS
    a1 = a1
    b1 = b1
    b2 = b2
    A = A
    B = B
    NoClass = NoClass
    NoInstance = NoInstance
    NoKey = NoKey
    NoRow = NoRow
    v0 = v0
    v1 = v1
    Objects = {a1, b1, b2}
    Classes = {A, B}
    ClassOf <- MCClassOf
    RefClass <- OneWay
    Vals = {v0, v1}
    DefaultVal = v0
    Api = {"new", "set", "ref", "begin", "rollback", "remove", "removeWhere", "select", "reopen"}
    NewAt = {a1, b1}
    MaxId = 1
    MaxManual = 1
    MaxTracked = 2
    MaxFaults = 1
INVARIANT
    MergedIsInTable
PROPERTY
    RollbackRestores
CHECK_DEADLOCK FALSE
