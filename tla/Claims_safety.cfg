CONSTANTS
    Ids = {"b1", "b2"}
    Predicates <- MCPredicates
    MaxDepth = 6
    Amounts = {1, 2}
    SendMaxes = {1, 2}
    EndTime = 2
    MaxOps = 2
SPECIFICATION ClaimsSpec
INVARIANTS
    ClearedApplies
    RefusedFails
CHECK_DEADLOCK FALSE
