\* Three threads that need one store, two of them perhaps with the lock already; and
\* up to three goals of the user's, or a habit's over three days, changed three times.
SPECIFICATION Spec
CONSTANTS
    t1 = t1
    t2 = t2
    t3 = t3
    NoThread = NoThread
    Threads <- ThreeThreads
    MaxDepth = 4
    Day = 2
    Habit = "h"
    Period = 2
    SubGoals <- MCSubGoals
    MaxGoals = 3
    MaxChanges = 3
    MaxTime = 5
    MaxHistory = 4
    Events = {"past", "one", "two", "new"}
    Instances = {"one", "two"}
    Guard = 2
    FirstEvents <- MCFirstEvents
    Batches <- MCBatches
    Edits <- MCEdits
    MaxEdits = 1
    MaxSends = 2
    MaxFailures = 1
    LastSlot = 4
    Cap = 3
    Ahead = 1
    FirstSeries <- MCFirstSeries
    Asks <- MCAsks
    Tries = 2
    MaxCalls = 2
    MaxHappens = 3
    Courses = {"build", "waiting", "measured", "followed", "habit", "events", "series"}
INVARIANTS WritesApart NoDeadlock BuiltOnce HoldsHonored HabitGoalsAsMade BatchesFit AnswersSo EachThereOnce
PROPERTIES RulesKept ReadsHold OntoWhatWasRead EditsKept
\* Every change made, nothing is left to do.
CHECK_DEADLOCK FALSE
