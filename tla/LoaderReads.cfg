SPECIFICATION Spec
CONSTANTS
    A = A
    B = B
    Classes = {A, B}
    NoClass = NoClass
    NoInstance = NoInstance
    NoKey = NoKey
    NoRow = NoRow
    Shapes <- MCShapes
    TablesOf <- MCTablesOf
    MaxId = 2
    MaxModified = 1
    MaxTracked = 1
    MaxStack = 10
    MaxEvents = 1
INVARIANT
    TypeOK
    UnmodifiedAgrees
    OneInstancePerRow
    DiesForAReason
PROPERTY
    DiscardsInReach
    LoadEnds
CHECK_DEADLOCK FALSE
