\* A write goes on all through a sync.
SPECIFICATION Spec
CONSTANTS
    series = series
    instance = instance
    single = single
    All = All
    NONE = NONE
    Events = {series, instance, single}
    SeriesOf <- OfSeries
    Courses <- WriteOnly
    ForgetsAnytime = FALSE
INVARIANTS ReadsNotOlder
\* Every budget spent, nothing is left to do.
CHECK_DEADLOCK FALSE
