CONSTANTS
    A = A
    B = B
    C = C
    Classes = {A, B, C}
    NoClass = NoClass
    Words <- MCWords
    Programs <- MCPrograms
SPECIFICATION Spec
INVARIANTS TypeOK HandedOutAsDeclared DiesForAReason
PROPERTIES GetReturns
CHECK_DEADLOCK FALSE
