\* A goal measured from one that has no due yet, and what it waits for comes.
CONSTANTS
    Day = 2
    Habit = "h"
    Period = 2
    SubGoals <- MCSubGoals
    MaxGoals = 3
    MaxChanges = 3
    MaxTime = 5
    MaxHistory = 4
    Courses = {"measured"}
SPECIFICATION CourseSpec
INVARIANTS ActiveHasDue
CHECK_DEADLOCK FALSE
