SPECIFICATION MCSpec
CONSTANTS
    Events = {1}
    NoteCount = 1
    ClaudeSays <- MCClaudeSays
    UserSays <- MCUserSays
    MaxCalls = 6
    TalkCalls = 3
    MaxStops = 1
    MaxChanges = 1
    WholeSuperseded = 1
    MaxRows = 5
    TrimToRows = 2
INVARIANTS PlanIsLedger NotAppliedOverFeedback
PROPERTIES FeedbackAnswered NoneReopened CollectionKeeps
CHECK_DEADLOCK FALSE
