\* The calendar is forgotten while a sync of it is under way.
SPECIFICATION Spec
CONSTANTS
    series = series
    instance = instance
    single = single
    All = All
    NONE = NONE
    Events = {series, instance, single}
    SeriesOf <- OfSeries
    Courses <- ForgetOnly
    ForgetsAnytime = TRUE
INVARIANTS NothingMissed
\* Every budget spent, nothing is left to do.
CHECK_DEADLOCK FALSE
