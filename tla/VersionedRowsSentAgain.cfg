SPECIFICATION Spec
CONSTANTS
    Clients = {c1, c2}
    Ids = {i1}
    Vals = {v1, v2}
    HandVals = {"unreadable"}
    MaxMishaps = 1
    NONE = NONE
INVARIANTS NothingOverwrittenEver
CHECK_DEADLOCK FALSE
