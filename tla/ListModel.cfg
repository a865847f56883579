SPECIFICATION Spec
CONSTANTS
    NoInstance = NoInstance
    NoKey = NoKey
    NoRow = NoRow
    NumProvinces = 2
    NumCommunities = 2
    MaxInstances <- MCMaxInstances
    Criteria <- MCCriteria
    Editable = {"community"}
    MaxUnsaved = 1
    MaxEvents = 1
INVARIANT
    TypeOK
    ListsAgree
    ModelCurrent
PROPERTY
    DiesForAReason
CHECK_DEADLOCK FALSE
