SPECIFICATION Spec
CONSTANTS
    Clients = {c1}
    Ids = {i1}
    Vals = {v1, v2}
    HandVals = {"unreadable"}
    MaxMishaps = 2
    NONE = NONE
CHECK_DEADLOCK FALSE
PROPERTIES Converges Answered
