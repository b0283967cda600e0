SPECIFICATION Spec
CONSTANTS
    Clients = {c1, c2}
    Ids = {i1}
    Vals = {v1, v2}
    HandVals = {"unreadable"}
    MaxMishaps = 2
    NONE = NONE
INVARIANTS KeptIsSheets TabHasLastMade MadeAsRead
SYMMETRY Symmetry
CHECK_DEADLOCK FALSE
