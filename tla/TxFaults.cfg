SPECIFICATION Spec
CONSTANTS
    Tokens = {t1, t2}
    Data = {d1, d2}
    Api = {"manual", "Require"}
    Failures = {"connectFails", "refused", "aborted", "rereadFails", "closed"}
    MaxDepth = 3
    MaxFaults = 2
INVARIANTS
    LevelsOwned
PROPERTIES
    RollbackUndoes
