SPECIFICATION Spec
CONSTANTS
    A = A
    B = B
    f = f
    g = g
    NoTable = NoTable
    NoClass = NoClass
    Classes = {A, B}
    Fields = {f, g}
    Mapped <- MCMapped
    Refs <- BothWays
    Modes = {"Recreate", "Update", "Append", "Bypass", "Validate"}
    ForeignKeys = TRUE
    Calls = {"read", "merge"}
    Failures = {"statement", "pragma", "commit"}
    MaxFaults = 1
    MaxOutdated = 1
INVARIANTS
    TypeOK
    UpdateKeepsData
    FitUnlessUndone
    ForeignKeysRestored
    RecursionBounded
PROPERTY
    CallEnds
