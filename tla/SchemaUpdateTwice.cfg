SPECIFICATION Spec
CONSTANTS
    A = A
    B = B
    f = f
    g = g
    NoTable = NoTable
    NoClass = NoClass
    Classes = {A, B}
    Fields = {f, g}
    Mapped <- MCMapped
    Refs <- BothWays
    Modes = {"Update"}
    ForeignKeys = FALSE
    Calls = {"read"}
    Failures = {}
    MaxFaults = 0
    MaxOutdated = 2
INVARIANT
    UpdateKeepsData
