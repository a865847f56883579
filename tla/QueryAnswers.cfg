SPECIFICATION Spec
CONSTANTS
    Null = Null
    None = None
    Fields <- MCFields
    Column <- MCColumn
    Words <- MCWords
    References = {"r"}
    Values = {0, 1, 2}
    Like <- MCLike
    Tables <- MCTables
    Filters <- MCFilters
    Orders <- MCOrders
    Limits <- MCLimits
    Offsets <- MCOffsets
    MaxCalls = 3
    MaxDepth = 2
INVARIANTS
    AnswersAsked
PROPERTY
    DeletesAsked
CHECK_DEADLOCK FALSE
