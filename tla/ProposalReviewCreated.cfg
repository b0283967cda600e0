\* As ProposalReview: what's rebuilt once applying has created an event.
SPECIFICATION MCSpec
CONSTANTS
    Events = {1}
    NoteCount = 1
    ClaudeSays <- MCClaudeSays
    UserSays <- MCUserSays
    MaxCalls = 3
    TalkCalls = 3
    MaxStops = 0
    MaxChanges = 1
    WholeSuperseded = 1
    MaxRows = 5
    TrimToRows = 2
INVARIANT CreatedIsDropped
CHECK_DEADLOCK FALSE
