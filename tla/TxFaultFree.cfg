SPECIFICATION Spec
CONSTANTS
    Tokens = {t1, t2}
    Data = {d1, d2}
    Api = {"manual", "Require", "Support", "DontSupport", "move", "retry"}
    Failures = {}
    MaxDepth = 3
    MaxFaults = 0
INVARIANTS
    TypeOK
    InSync
PROPERTIES
    SavedByOutermostCommit
    ImplementsNested
